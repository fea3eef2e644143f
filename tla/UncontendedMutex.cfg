SPECIFICATION FairLockSpec
CONSTANTS
  Locker = {t1, t2, t3}
  NoThread = NoThread
  SpuriousBound = 4
INVARIANTS
  MutualExclusion
  NoLostWakeup
PROPERTIES
  Progress
