CONSTANTS
  a = a
  ctrl = ctrl
  lshift = lshift
  rshift = rshift
  caps = caps
  esc = esc
  r1 = r1
  r2 = r2
  None = None
  KBD_BUFFER_SIZE = 2
  Letters = {a}
  Modifiers = {ctrl}
  Shifts = {lshift}
  Caps = caps
  Esc = esc
  Repeating = {a}
  WireSize = 2
  Fingers = 2
  Readers = {r1, r2}
SPECIFICATION FairSpec
INVARIANTS TypeOK PoolExact Meant
PROPERTIES OncePerPress Implements EveryCharRead KeyboardServed
