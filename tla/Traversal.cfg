\* Two traversals on a ring of three, two attempts per hop; a node joins or leaves.
CONSTANTS
  Size = 4
  Nodes = {0, 1, 2, 3}
  Settled = {0, 1, 2}
  Requests = {1, 2}
  Origin <- Origins
  MaxRetries = 2
  MaxLosses = 1
  MaxChanges = 2
SPECIFICATION FairSpec
INVARIANTS
  TypeOK
  AnswersAreFullCircles
  EntriesHaveWaiters
  SnowballsRollOn
PROPERTY SnowballsMelt
CHECK_DEADLOCK FALSE
