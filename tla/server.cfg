SPECIFICATION FairSpec
CONSTANTS
  Conns = {c1, c2, c3}
  Rooms = {r1}
  PoolThreshold = 2
  Grace = 2
INVARIANTS
  TypeOK
  StatusTellsTruth
  OnlyLatePools
  GuardedCounted
PROPERTY StopEnds
