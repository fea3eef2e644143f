\* Threads may stop calling wait() after MaxRounds rounds.
SPECIFICATION FairSpec
CONSTANTS
  Thread = {t1, t2, t3, t4}
  GenModulus = 2
  MaxRounds = 4
INVARIANTS
  NobodyLeavesEarly
  OneSerialThread
  NoSleeperLeftBehind
PROPERTIES
  EveryRoundCompletes
CHECK_DEADLOCK FALSE
