CONSTANTS
  Main = Main
  Queue = Queue
  NULL = NULL
  w1 = w1
  w2 = w2
  w3 = w3
  Workers = {w1}
  Program <- Spins
  Overlap = FALSE
  LateTick = TRUE
  DEFAULT_TIME_SLICE = 2
  Garbage <- Slices
SPECIFICATION FairSpec
PROPERTY KmainKeepsRunning
\* A thread that spins has no step of its own.
CHECK_DEADLOCK FALSE
