SPECIFICATION UseSpec
CONSTANTS
  i1 = i1
  i2 = i2
  u1 = u1
  u2 = u2
  Nobody = Nobody
  Inst <- TwoInst
  User <- TwoUsers
  Kinds <- AllKinds
SYMMETRY SwapUsers
INVARIANTS UseTypeOK FailureFreesAll BoundIsComplete RemoveFreesAll
  NoStrayRelease LiveIsReady OpenFileIsServed NullComesFromOthers
  HandlerIsServed GpioLedGoesDark PressIsRung
CHECK_DEADLOCK FALSE
