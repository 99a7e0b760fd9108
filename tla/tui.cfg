SPECIFICATION FairSpec
CONSTANTS
  MaxRooms = 2
  ListLimit = 2
  MaxStarts = 1
  MaxFaults = 2
  MaxIncoming = 2
CHECK_DEADLOCK FALSE
INVARIANTS
  TypeOK
  NeverDeaf
  KeepsTrying
PROPERTY SettlesConnected
