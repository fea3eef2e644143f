SPECIFICATION Spec
CONSTANTS
  None = None
  L1s = {"c1", "c2"}
  Setups <- LlscSetups
INVARIANT OwnerAcksUnchanged
