SPECIFICATION AppSpec
CONSTANTS
  p1 = p1
  p2 = p2
  f1 = f1
  f2 = f2
  NoFile = NoFile
  Only = p1
  Proc <- OneProc
  File <- OneFile
  NonBlocking = {}
  MaxSample = 1
  Command <- AppCommands
  Version = 1
  MayFork = FALSE
  MayKill = TRUE
INVARIANTS ReadAnswersStart
