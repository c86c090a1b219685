\* Two pages of two objects; every second collection of a page sweeps it.
CONSTANTS
  Capacity = 2
  CollectionsPerSweep = 2
  Buffers = {b1, b2}
  NoBuffer = NoBuffer
  MaxLive = 2
SPECIFICATION FairSpec
INVARIANTS
  TypeOK
  HeldObjectsIntact
  BuffersOK
  AllocBufferUsable
  NoAllocDuringSweep
  LiveNCoversHeld
PROPERTIES
  PoolSpec
  CollectionEnds
