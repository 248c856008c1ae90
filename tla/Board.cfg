CONSTANTS
  Pages = 2
  Rows = 1
  Columns = 2
SPECIFICATION FairSpec
INVARIANTS TypeOK WriteReaches ReadReturns DecodedOnce
PROPERTIES
  KeyIsTrue
  DiskOpEnds
