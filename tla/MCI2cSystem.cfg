SPECIFICATION SysSpec
CONSTANTS
  p1 = p1
  p2 = p2
  mpu = mpu
  other = other
  Nobody = Nobody
  Garbage = Garbage
  Node <- TwoNodes
  Sensor <- mpu
  Trees <- SomeTrees
  Modules <- SomeModules
  Proc <- TwoProcs
  Variants <- AllKinds
  LastMeasurement = 1
SYMMETRY Swap
INVARIANTS BusTypeOK MpuTypeOK ChildrenServed NobodyMissed BoundRightly
  RegularReading AwakeWhenRead NoErrorLost FileHasClient
CHECK_DEADLOCK FALSE
