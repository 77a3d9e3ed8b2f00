\* Announcements and reads in every order, nothing repeated.
CONSTANTS
  p1 = p1
  p2 = p2
  r1 = r1
  r2 = r2
  Head = head
  Peers = {p1}
  K = 3
  Lists = {{r1, r2}}
  OpKinds = {"insert"}
  MaxTime = 2
  MaxOps = 3
  MaxRetries = 1
SPECIFICATION Spec
INVARIANT ReadsNeverGoBack
SYMMETRY Symmetry
CHECK_DEADLOCK FALSE
