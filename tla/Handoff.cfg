\* Nodes 3 and 7 keep two copies of every key; 5 may join: two joins, departures or
\* crashes, one after the other, and a fault in them.
CONSTANTS
  Size = 8
  Nodes = {3, 5, 7}
  Settled = {3, 7}
  Keys = {4}
  K = 2
  Joiners = {5}
  Leavers = {3, 5, 7}
  MaxTime = 1
  MaxChanges = 2
  MaxHasty = 0
  MaxFaults = 1
  MaxBusy = 1
SPECIFICATION FairSpec
INVARIANTS
  TypeOK
  WritesAreKept
  OwnersHaveTheirKeys
PROPERTIES
  EvictionsSpareOwners
  ReplicasRestored
CHECK_DEADLOCK FALSE
