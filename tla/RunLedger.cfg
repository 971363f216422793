\* Two processes under one run id, two cycles, one input rewritten meanwhile.
SPECIFICATION LedgerSpec
CONSTANTS
  None = None
  p1 = p1
  p2 = p2
  Processes = {p1, p2}
  InputOrder <- MCInputOrder
  NumCycles = 2
  MaxRewrites = 1
SYMMETRY MCSymmetry
INVARIANTS
  RowsAudited AppendedStays
PROPERTIES
  EarlierRunUntouched
\* A run ends when its trace does.
CHECK_DEADLOCK FALSE
