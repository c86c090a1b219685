\* Two threads may be in smal_finalizer_sweep_some at the same time, or one
\* of them again from a finalizer's function.
CONSTANTS
  a = a
  b = b
  Threads = {t1, t2}
  Nil = Nil
  Referred <- MCReferred
  Points <- MCPoints
  Finalized = {f1, f2}
  Finalizers = {z1, z2, z3}
  SweepAmount = 1
  MayOverlap <- OnlySweeps
SPECIFICATION Spec
INVARIANT
  NoneLost
