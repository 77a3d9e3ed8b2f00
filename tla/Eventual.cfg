\* Two operations of two seeders, every call made twice, two attempts lost.
CONSTANTS
  p1 = p1
  p2 = p2
  r1 = r1
  Head = head
  Peers = {p1, p2}
  Replicas = {r1}
  OpKinds = {"insert", "remove"}
  MaxTime = 2
  MaxOps = 2
  MaxRetries = 2
  MaxLosses = 2
SPECIFICATION FairSpec
INVARIANTS
  TypeOK
  SeedersWereAnnounced
  HeadIsFreshest
  HeadListsAll
PROPERTIES
  TimestampsNeverRegress
  ReplicasCatchUp
\* Clients may stop issuing operations before any data is written.
CHECK_DEADLOCK FALSE
