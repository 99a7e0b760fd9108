SPECIFICATION Spec
CONSTANTS
  c1 = c1
  c2 = c2
  c3 = c3
  Clients = {c1, c2, c3}
  HistoryLimit = 1
  SendCap = 1
  MaxMessages = 1
SYMMETRY ClientSymmetry
INVARIANT OneRoomPerID
