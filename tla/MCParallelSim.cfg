SPECIFICATION FairSpec
CONSTANTS
  NumQueues = 2
  Quantum = 2
  tick0 = tick0
  tick1 = tick1
  cross = cross
  exit1 = exit1
  exit2 = exit2
  stat = stat
  Sync = Sync
  Limit = Limit
  NoEvent = NoEvent
  Local = {tick0, tick1, cross}
  Home <- MCHome
  Sender <- MCSender
  Global = {exit1, exit2}
  Exiting = {exit1, exit2}
  Priority <- MCPriority
  Offset <- MCOffset
  NumCycles = {4}
  MaxTick = 8
  MaxDelay = 1
  MaxCalls = 2
  MaxSims = 2
INVARIANTS AssertsHold TotalOrder WithinQuantum ProcessedTogether
PROPERTIES SimulateReturns
CHECK_DEADLOCK FALSE
