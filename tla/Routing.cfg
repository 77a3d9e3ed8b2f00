\* Four members of a circle of 16, one at its top: fingers, targets and hops
\* wrap around.  The hops are too few for the joiner until some fingers are repaired.
CONSTANTS
  Size = 16
  Bits = 4
  Members = {1, 4, 7, 14}
  Successor <- RingSuccessor
  Predecessor <- RingPredecessor
  JoinedWith <- InOrder
  Workers = {14}
  Clients = {7}
  Joiners = {6}
  Threads <- RunningThreads
  Unlucky <- Requests
  MaxHops = 3
SPECIFICATION FairSpec
INVARIANTS
  TypeOK
  NoRoutingLoop
PROPERTIES
  HopsApproach
  HopsHalve
  FingersMoveToOwners
  FingersSettle
