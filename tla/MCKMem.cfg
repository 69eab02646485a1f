CONSTANTS
  Size = 140
  Copies <- CopyCalls
  Sets <- SetCalls
  Moves <- MoveApart
  Comparisons <- ShortComparisons
SPECIFICATION Spec
INVARIANT MandatedByC
