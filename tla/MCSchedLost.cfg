CONSTANTS
  Main = Main
  Queue = Queue
  NULL = NULL
  w1 = w1
  w2 = w2
  w3 = w3
  Workers = {w1, w2}
  Program <- Returns
  Overlap = TRUE
  LateTick = TRUE
  DEFAULT_TIME_SLICE = 2
  Garbage <- Slices
SPECIFICATION Spec
INVARIANT Circular
