\* A page may be added while a collection is sweeping.
CONSTANTS
  u = u
  p = p
  u1 = u1
  p1 = p1
  p2 = p2
  Null = Null
  NoBuffer = NoBuffer
  Objects <- MCObjects
  Buffers <- MCBuffers
  BufferOf <- MCBufferOf
  collections_per_sweep <- EveryOne
  mostly_unchanging <- NoPage
  MutatorPhases <- IdleOrSweep
  UnchangingPhases <- Idle
  NewPagePhases <- IdleOrSweep
SPECIFICATION Spec
INVARIANT ReachableKept
