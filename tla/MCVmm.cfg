CONSTANTS
  E = 4
  PageBytes = 2
  Frames <- AllFrames
  Hhdm = 64
  Machines <- SomeMachines
  HeapPages <- SomeHeapPages
  Junk <- Garbage
  NULL = NULL
SPECIFICATION Spec
INVARIANTS TypeOK TablesExact WalkExact TlbFresh SpaceComplete
