\* Two objects, three finalizers, two threads; only smal_finalizer_create
\* begins while another call is under way.
CONSTANTS
  a = a
  b = b
  Threads = {t1, t2}
  Nil = Nil
  Referred <- MCReferred
  Points <- MCPoints
  Finalized = {f1, f2, f3}
  Finalizers = {z1, z2, z3}
  SweepAmount = 1
  MayOverlap <- OnlyCreate
SPECIFICATION Spec
INVARIANTS
  TypeOK
  NoneLost
  KeptForFinalizer
  NoDeadlock
PROPERTY
  EveryFinalizerRuns
