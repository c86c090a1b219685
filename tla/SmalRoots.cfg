\* Two threads register roots of every kind while a collection marks, but end no
\* frame and remove no global roots meanwhile.
CONSTANTS
  Threads = {t1, t2}
  Nil = Nil
  x = x  y = y  z = z
  Vars = {x, y, z}
  NoBinding = NoBinding
  Entries = {e1, e2}
  c1 = c1  c2 = c2
  Callbacks = {c1, c2}
  DataOf <- MCDataOf
  callbacks = callbacks
  thread_list = thread_list
  Frames <- MCFrames
  MaxFrames = 1
  MayOverlap <- AllButUnsafe
  FirstCallAlone = TRUE
SPECIFICATION Spec
SYMMETRY Symmetry
INVARIANTS
  TypeOK
  RootsMarked
  UseSafe
  GlobalExact
