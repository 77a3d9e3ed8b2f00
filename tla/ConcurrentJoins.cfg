\* Node 1 is alone; 3 and 6 join, at the same time if they like.
CONSTANTS
  Size = 8
  Nodes = {1, 3, 6}
  Settled = {1}
  Successor <- RingSuccessor
  Predecessor <- RingPredecessor
  Backups <- RingBackups
  K = 3
  Leavers = {}
  MaxMoves = 2
  MaxBusy = 2
  MaxCrashes = 0
  MaxLosses = 0
SPECIFICATION Spec
INVARIANT
  AgreedRingIsRight
CHECK_DEADLOCK FALSE
