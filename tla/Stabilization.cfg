\* Nodes 1 and 3 are a ring; 6 joins, and one of the three may crash.
CONSTANTS
  Size = 8
  Nodes = {1, 3, 6}
  Settled = {1, 3}
  Successor <- RingSuccessor
  Predecessor <- RingPredecessor
  Backups <- RingBackups
  K = 3
  Leavers = {}
  MaxMoves = 1
  MaxBusy = 2
  MaxCrashes = 1
  MaxLosses = 0
SPECIFICATION FairSpec
PROPERTIES
  DeadAreForgotten
  RingSettles
CHECK_DEADLOCK FALSE
