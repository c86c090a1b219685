\* Stores to mostly unchanging objects and new pages only between collections;
\* everything else also while a collection sweeps.
CONSTANTS
  u = u
  p = p
  u1 = u1
  p1 = p1
  p2 = p2
  Null = Null
  NoBuffer = NoBuffer
  Objects <- MCObjects
  Buffers <- MCBuffers
  BufferOf <- MCBufferOf
  collections_per_sweep <- EverySecond
  mostly_unchanging <- OnlyU
  MutatorPhases <- IdleOrSweep
  UnchangingPhases <- Idle
  NewPagePhases <- Idle
SPECIFICATION Spec
INVARIANTS
  TypeOK
  ReachableKept
  ReachableMarked
  RememberedComplete
  MarksJustified
PROPERTIES
  HeapSpec
