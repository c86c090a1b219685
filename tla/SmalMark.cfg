\* Three objects, three pointers to them and two other words.
CONSTANTS
  o1 = o1  o2 = o2  o3 = o3
  w1 = w1  w2 = w2  w3 = w3  junk = junk
  Objects = {o1, o2, o3}
  Markable = {o1, o2}
  Words = {Null, w1, w2, w3, junk}
  NoObject = NoObject
  Null = Null
  NoBinding = NoBinding
  ObjectAt <- MCObjectAt
  Stack <- MCStack
  Bindings <- MCBindings
  Ranges <- MCRanges
  mark_queue_SIZE = 4
  MaxCalls = 2
SPECIFICATION FairSpec
INVARIANTS
  TypeOK
  MarkExact
  ReferrerHolds
  ReadsInside
PROPERTY
  MarkAllEnds
