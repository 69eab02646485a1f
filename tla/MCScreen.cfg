CONSTANTS
  Width = 12
  Height = 8
  Stride = 13
  MarginX = 2
  MarginY = 1
  CellWidth = 3
  CellHeight = 2
  GlyphWidth = 1
  Advance = 2
  TabSize = 2
  EndPixels = 1
  Descending <- SomeDescending
  SegmentSize = 8
  IntRange = 64
  LongRange = 4096
  PanicTexts <- SomeTexts
  Unit = 1
  Thickness = 1
  BLACK = 1
  RED = 3
  Scenarios <- SomeScenarios
SPECIFICATION Spec
INVARIANTS InBounds TerminalShown PanicReadable
\* What the contexts print comes to an end, and a panic halts.
CHECK_DEADLOCK FALSE
