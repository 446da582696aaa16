SPECIFICATION Spec
CONSTANTS
  p1 = p1
  p2 = p2
  f1 = f1
  f2 = f2
  NoFile = NoFile
  Proc <- MCProc
  File <- MCFile
  NonBlocking <- OneNonBlocking
  MaxSample = 1
  Command <- AppCommands
  Version = 2
  MayFork = FALSE
INVARIANTS TypeOK ExclusiveSession NoLostWakeup ClockBalanced
PROPERTIES ConfigSticky
