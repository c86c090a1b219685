\* Two objects, two references, two queues, two threads.
CONSTANTS
  Threads = {t1, t2}
  Nil = Nil
  Referred = {p1}
  References = {r1, r2}
  Queues = {q1, q2}
  MaxOwed = 1
  MaxGen = 2
  MayCall <- Careful
SPECIFICATION Spec
INVARIANTS
  TypeOK
  HeldAlive
  TableExact
  SameObject
  OneNotice
PROPERTY
  NoticeComes
