\* Threads call smal_collect at the same time.
CONSTANTS
  ta = ta
  tb = tb
  Threads = {t1, t2, t3}
  NoThread = NoThread
  Pages <- MCPages
  Types <- MCTypes
  TypeOf <- MCTypeOf
  Pinned <- NoPages
  MaxCollectLock = 2
SPECIFICATION Spec
INVARIANT CollectLockReleased
CHECK_DEADLOCK FALSE
