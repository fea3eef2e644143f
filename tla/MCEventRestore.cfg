SPECIFICATION RestoreSpec
CONSTANTS
  e1 = e1
  e2 = e2
  Event <- MCEvent
  NoEvent = NoEvent
  Priority <- MCPriority
  Managed = {}
  Counted = {}
  Exit = {}
  MaxTick = 1
INVARIANTS
  PendingEventsRestored
CHECK_DEADLOCK FALSE
