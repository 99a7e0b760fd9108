SPECIFICATION Spec
CONSTANTS
  Authors = {a1}
  Debounce = 4
  TTL = 8
  Refresh = 10
  MaxDelay = 1
  KeyGap = 1
  MaxFrames = 2
  MaxOrphans = 1
INVARIANTS
  TypeOK
  KeepsShowing
  ShownWasTyping
  RightRoom
