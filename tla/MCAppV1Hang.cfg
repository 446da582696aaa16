SPECIFICATION AppSpec
CONSTANTS
  p1 = p1
  p2 = p2
  f1 = f1
  f2 = f2
  NoFile = NoFile
  Only = p1
  Proc <- TwoProcs
  File <- TwoFiles
  NonBlocking = {}
  MaxSample = 0
  Command <- AppCommands
  Version = 1
  MayFork = FALSE
  MayKill = FALSE
PROPERTIES ReaderServed
CHECK_DEADLOCK FALSE
