CONSTANTS
  Procs = {p1, p2, p3}
  NoKey = NoKey
  MaxFaults = 2
SPECIFICATION Spec
SYMMETRY CommandSymmetry
INVARIANTS TypeOK KeyRegistered SavedKeyThere
PROPERTY HostKept
