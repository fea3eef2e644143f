SPECIFICATION Spec
CONSTANTS
  Thread = {t1, t2, t3}
  MaxEvents = 2
INVARIANTS EachEventOnce ThreadTraceIsPrefix
CHECK_DEADLOCK FALSE
