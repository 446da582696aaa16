SPECIFICATION Spec
CONSTANTS
  p1 = p1
  p2 = p2
  Proc <- TwoProcs
  Uses <- OneBankEach
  MapMayFail = TRUE
INVARIANTS TypeOK LedAsTold PinsAreOutputs
CHECK_DEADLOCK FALSE
