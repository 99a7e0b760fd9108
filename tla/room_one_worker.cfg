SPECIFICATION UpSpec
CONSTANTS
  c1 = c1
  c2 = c2
  c3 = c3
  Clients = {c1, c2, c3}
  PoolThreshold = 2
  WorkerCount = 1
  SendCap = 1
  JobCap = 2
  MaxFrames = 2
  MaxRead = 2
SYMMETRY ClientSymmetry
INVARIANTS
  TypeOK
  ChannelsOpenWhileMember
  AtMostOnce
  NoSilentLoss
  SenderOrder
  ShardInRange
PROPERTY Promise
