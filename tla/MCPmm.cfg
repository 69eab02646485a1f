CONSTANTS
  PAGE = 4
  BYTE = 2
  WORD = 4
  MemMaps <- MCMemMaps
  Counts <- MCCounts
  Addrs <- MCAddrs
  MaxReclaims = 1
SPECIFICATION Spec
INVARIANTS TypeOK Conserved BitmapFits
PROPERTY Implements
