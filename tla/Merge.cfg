\* Announcements and removals of two seeders, in any order and number.
CONSTANTS
  p1 = p1
  p2 = p2
  s1 = s1
  s2 = s2
  Peers = {p1, p2}
  Stores = {s1, s2}
  Issued <- Rounds
SPECIFICATION Spec
INVARIANTS
  SameDeltasSameRecord
  LastWriteWins
SYMMETRY Symmetry
