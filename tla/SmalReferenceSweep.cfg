\* As SmalReference.cfg, but smal_reference_create_weak may be called while
\* a collection is sweeping.
CONSTANTS
  Threads = {t1, t2}
  Nil = Nil
  Referred = {p1}
  References = {r1, r2}
  Queues = {q1, q2}
  MaxOwed = 1
  MaxGen = 2
  MayCall <- CreateInSweep
SPECIFICATION Spec
INVARIANT
  HeldAlive
