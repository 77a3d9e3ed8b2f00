\* A chain of three on a ring of six: two operations of a client, or one and
\* a push, with one caller that repeats its call.
CONSTANTS
  Peers = {p1}
  Size = 6
  Nodes <- Ring
  Owner = 0
  Successor <- RingSuccessor
  Link <- RingLink
  K = 3
  OpKinds = {"insert"}
  MaxTime = 2
  MaxOps = 2
  MaxPushes = 1
  MaxRetries = 2
  MaxRepeats = 1
SPECIFICATION Spec
INVARIANTS
  TypeOK
  AckedByWholeChain
  WritesFillFromTheHead
  ReadsAreStrictUnhealed
PROPERTY TailIsTheCopy
CHECK_DEADLOCK FALSE
