SPECIFICATION Spec
CONSTANTS
  e1 = e1
  e2 = e2
  e3 = e3
  e4 = e4
  Event <- MCEvent
  NoEvent = NoEvent
  Priority <- MCPriority
  Managed = {e1, e2, e3, e4}
  Counted = {e1, e2}
  Exit = {e4}
  MaxTick = 1
SYMMETRY MCSymmetry
INVARIANTS FlagsMatchLists QueueHoldsItsEvents
PROPERTIES RefinesAgenda
