\* A capture that ends between the two writes of save_live, or two that overlap.
SPECIFICATION Spec
CONSTANTS
  None = None
  Captures = {a, b}
  RegionOrder <- MCOneRegion
  FolderOf <- MCFolder
  NumCycles = 2
  MaxAge = 3
  MaxClock = 4
  MaxDamaged = 0
PROPERTIES
  NewestValidServed
