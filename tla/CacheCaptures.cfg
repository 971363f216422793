\* Two captures of two snapshots of two regions whose names become the same
\* folder; one file is damaged.
SPECIFICATION Spec
CONSTANTS
  None = None
  Captures = {a, b}
  RegionOrder <- MCTwoRegions
  FolderOf <- MCFolder
  NumCycles = 2
  MaxAge = 1
  MaxClock = 3
  MaxDamaged = 1
SYMMETRY MCSymmetry
INVARIANTS
  TypeOK PointerNamesAFile AuditTrail TraceComplete PointerLagsOnlyByOverlap
