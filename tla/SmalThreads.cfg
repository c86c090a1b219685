\* Three threads add pages and collect, also at the same time.
\* They can block each other for good: SmalThreadsDeadlock.cfg.
CONSTANTS
  ta = ta
  tb = tb
  Threads = {t1, t2, t3}
  NoThread = NoThread
  Pages <- MCPages
  Types <- MCTypes
  TypeOf <- MCTypeOf
  Pinned <- NoPages
  MaxCollectLock = 2
SPECIFICATION Spec
INVARIANTS
  TypeOK
  ListsAgreeWithTable
  QuietNoCollision
  QuietNoDeadlock
  BlockedByAnother
PROPERTY RegistrySpec
CHECK_DEADLOCK FALSE
