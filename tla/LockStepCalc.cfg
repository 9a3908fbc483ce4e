CONSTANTS
  Programs = {"calc"}
  Lines <- TypedLines
  Size = 4
  MaxSends = 2
SPECIFICATION PairSpec
INVARIANTS
  Calculated
CHECK_DEADLOCK FALSE
