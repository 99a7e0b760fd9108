SPECIFICATION Spec
CONSTANTS
  MaxRooms = 2
  ListLimit = 2
  MaxStarts = 2
  MaxFaults = 0
  MaxIncoming = 0
CHECK_DEADLOCK FALSE
INVARIANT SelectionInList
