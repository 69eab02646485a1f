CONSTANTS
  Main = Main
  Queue = Queue
  NULL = NULL
  w1 = w1
  w2 = w2
  w3 = w3
  Workers = {w1, w2, w3}
  Program <- Mixed
  Overlap = FALSE
  LateTick = FALSE
  DEFAULT_TIME_SLICE = 2
  Garbage <- Slices
SPECIFICATION FairSpec
INVARIANTS TypeOK NoFault QueueExact OwnStacks KmainInterruptible
PROPERTIES Implements EveryoneRuns KmainKeepsRunning
