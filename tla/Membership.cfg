\* Nodes 1 and 3 are a ring; 6 joins while 1 may depart; one call is lost and
\* one process killed.
CONSTANTS
  Size = 8
  Nodes = {1, 3, 6}
  Settled = {1, 3}
  Successor <- RingSuccessor
  Predecessor <- RingPredecessor
  Backups <- RingBackups
  K = 2
  Leavers = {1}
  MaxMoves = 2
  MaxBusy = 2
  MaxCrashes = 1
  MaxLosses = 1
SPECIFICATION Spec
INVARIANTS
  TypeOK
  NoStrangers
  NoGap
CHECK_DEADLOCK FALSE
