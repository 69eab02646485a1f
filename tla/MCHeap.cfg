CONSTANTS
  ALIGN = 2
  HEADER_SIZE = 2
  PAGE_SIZE = 8
  HeapTop = 24
  MaxFrames = 2
  Sizes = {0, 3, 7}
  Marks = {1, 2}
SPECIFICATION Spec
INVARIANTS TypeOK Tiled FreeListExact Intact Backed
PROPERTIES Implements
