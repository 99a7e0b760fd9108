SPECIFICATION SlowSpec
CONSTANTS
  c1 = c1
  c2 = c2
  c3 = c3
  Clients = {c1, c2, c3}
  HistoryLimit = 2
  SendCap = 2
  MaxMessages = 3
SYMMETRY ClientSymmetry
INVARIANTS
  TypeOK
  NoGap
  HistoryOldestFirst
  TwiceOnlyAsHistory
