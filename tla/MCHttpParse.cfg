SPECIFICATION FairSpec
CONSTANTS
  MaxPieces = 4
  Streams <- Both
  BufferSize = 14
INVARIANTS
  
  LingerIsAsked
PROPERTY FirstRequestAnswered
CHECK_DEADLOCK FALSE
