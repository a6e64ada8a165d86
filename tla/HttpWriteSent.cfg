SPECIFICATION Spec
CONSTANTS
  HeadUnits = 3
  FormUnits = 2
  PageUnits = 1
  FileSizes = {0, 1, 4}
  PartialWrites = TRUE
INVARIANTS
  SentIsWhole
CHECK_DEADLOCK FALSE
