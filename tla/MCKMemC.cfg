CONSTANTS
  Size = 140
  Copies <- NoCalls
  Sets <- NoCalls
  Moves <- MoveOverlapping
  Comparisons <- LongComparisons
SPECIFICATION Spec
INVARIANT MandatedByC
