SPECIFICATION Spec
CONSTANTS
  p1 = p1
  p2 = p2
  f1 = f1
  f2 = f2
  NoFile = NoFile
  Proc <- MCProc
  File <- MCFile
  NonBlocking = {}
  MaxSample = 0
  Command <- AllCommands
  Version = 1
  MayFork = TRUE
INVARIANTS ExclusiveSession NoLostWakeup HandlerInSession ClockBalanced
