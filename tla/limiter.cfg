SPECIFICATION FairSpec
CONSTANTS
  Users = {u1}
  MaxReqs = 2
  Window = 3
  MaxRequests = 5
  MaxFaults = 1
INVARIANTS
  TypeOK
  WithinLimit
  BurstBound
  OneKeeper
PROPERTY Readmitted
