\* One write or read, its attempts and calls made three times as in the code, while the successor list changes.
CONSTANTS
  p1 = p1
  p2 = p2
  r1 = r1
  r2 = r2
  Head = head
  Peers = {p1, p2}
  K = 3
  Lists = {{r1, r2}, {r1}, {}}
  OpKinds = {"insert", "remove"}
  MaxTime = 1
  MaxOps = 1
  MaxRetries = 3
SPECIFICATION Spec
INVARIANTS
  TypeOK
  AckedByMajority
SYMMETRY Symmetry
CHECK_DEADLOCK FALSE
