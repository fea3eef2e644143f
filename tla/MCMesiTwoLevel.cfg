SPECIFICATION Spec
CONSTANTS
  None = None
  L1s = {"c1", "c2"}
  Setups <- MCSetups
INVARIANTS
  NoInvalidTransition
  SingleWriter
  CopiesAreCurrent
PROPERTIES
  DmaReadsCurrent
  AccessesComplete
