SPECIFICATION UpSpec
CONSTANTS
  c1 = c1
  c2 = c2
  c3 = c3
  Clients = {c1, c2, c3}
  PoolThreshold = 2
  WorkerCount = 2
  SendCap = 1
  JobCap = 1
  MaxFrames = 1
  MaxRead = 2
SYMMETRY ClientSymmetry
INVARIANTS
  NoSilentLoss
  PoolOnce
PROPERTY Promise
