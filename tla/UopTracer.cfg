SPECIFICATION Spec
CONSTANTS
  Thread = {t1, t2}
  bufferLimit = 2
  MaxRecords = 3
INVARIANTS NothingLost ProgramOrder
CHECK_DEADLOCK FALSE
