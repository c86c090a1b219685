# Verification of smal

smal (`src/src`, `src/include/smal`) is a mark-sweep allocator in C: objects of
one type are parceled from page-sized buffers, and `smal_collect()` marks what
can be reached from the roots and sweeps the rest.  This directory holds TLA+
models of it, the TLC configurations that check them, and proofs checked by
TLAPS.  Line numbers are those of `src/src/smal.c` unless another file is named.

## 1. Inventory

| part | state | operations | talks to |
|---|---|---|---|
| buffer | `alloc_ptr`, `free_list`, `free_bits`, `mark_bits`, `alloc_disabled`, `markable`, `sweepable`, `stats` | `smal_buffer_alloc_object`, `smal_buffer_free_object`, `smal_buffer_before_mark`, `smal_buffer_sweep`, `smal_buffer_free` | type, collector |
| type | `buffers`, `alloc_buffer`, `desc` | `smal_alloc`, `smal_free`, `smal_type_find_alloc_buffer` | buffer |
| collector | `in_collect`, `buffer_collecting`, mark queue (a stack of chunks) | `_smal_collect_inner`, `_smal_collect_sweep_buffers`, `smal_mark_ptr` | everything; user callbacks `mark_func`, `free_func`, `smal_collect_*` |
| buffer table | `buffer_table`, `buffer_table_mark`, `page_id_min/max`, `buffer_list` | `smal_buffer_table_add`, `_remove`, `smal_ptr_to_buffer` | allocator, collector |
| write barrier | `write_protect`, `mutation` | protect, unprotect, fault handler, clear and assume a mutation | `mprotect`, signals |
| remembered set | `remembered_set`, `_valid`, `record_` | clear, add, finish, mark | marking, barrier |
| locks | `alloc_lock`, table, list and collecting locks, `alloc_buffer_mutex`, `_smal_collect_inner_lock` | `thread.h` | all threads |
| finalizer | `referred_table`, `finalized_queue` | create, remove, copy, after_mark, sweep_some | marking, `smal_alloc` |
| weak references | `referred_table`, reference queues | create, take, before_sweep, free | `reachableQ`, `smal_alloc` |
| roots, callbacks | global and per-thread chains, ring of callbacks | add, remove, mark | marking, thread registry |
| thread registry | list of threads, registers | self, died, each | roots |
| registry, init, shutdown | list of types | `smal_type_for_desc`, `smal_type_free`, `smal_shutdown` | all |

What is hard here:

* Allocation, explicit frees and the sweep interleave object by object on the
  same free lists, bitmaps and counters, and a wrong count unmaps a page.
* Several collections work together: a remembered set recorded by one is
  trusted by a later one, and only a write barrier says whether it still may be.
* There are two tables from pages to buffers, one for marking, and two lists of
  buffers, all protected by different locks.
* The collector's lock is a counter that also counts the threads that fail.
* The mark queue grows and frees its chunks while it is drained, follows the last
  pointer of an object without being used, and any word may pass for a pointer.
* Finalizers and references have tables and queues of their own, with their own
  mutexes, that a collection walks and edits while the program uses them.
* Roots are registered while the marking walks them, partly without a lock.

What makes each part correct:

* buffer and type: an object in use is never handed out, freed or unmapped; free
  list, bitmap and counters agree; a paused buffer is resumed.
* collector: what can be reached is kept; what is kept was marked for a reason;
  marking and sweeping end.
* barrier and remembered sets: a set that will be trusted is complete.
* table and lists: every buffer is found, in one list, and collected.
* locks: one collector, no circular wait, no lock left taken.
* finalizer and references: each unreachable referent is noticed once, and none
  is lost; roots: what was added is marked until it is removed.
* mark queue: the marks are exactly what can be reached; addresses: every pointer
  into an object leads to its page, its index and its bit.

`PROJECT.json` lists the hazards at their lines, with the properties that would
catch them.

## 2. Modules

| module | models |
|---|---|
| `SmalBuffer` | one buffer as a record; the code's operations on it as operators |
| `SmalType` | one type with its buffers: `smal_alloc`, `smal_free`, a collection |
| `ObjectPool` | what `SmalType` promises: cells handed out and taken back |
| `SmalCollect`, `MCSmalCollect` | tracing, remembered sets, barrier, sweep frequency, both tables |
| `SmalHeap` | what `SmalCollect` promises: what is reachable stays |
| `SmalMark`, `MCSmalMark` | one marking: chunks of the mark queue, the tail call, scans of regions |
| `SmalThreads`, `MCSmalThreads` | locks, buffer table and buffer lists, thread by thread |
| `BufferRegistry` | what `SmalThreads` promises: each collection takes every buffer |
| `SmalFinalizer`, `MCSmalFinalizer` | finalizers: table, queue, `smal_finalizer_sweep_some` |
| `SmalReference`, `MCSmalReference` | weak references: table, queues, the sweep that frees them |
| `SmalRoots`, `MCSmalRoots` | roots of all kinds, callbacks and threads, registered while a collection walks |
| `SmalDllist` | the rings of `dllist.h` (used by `SmalRoots`) |
| `SmalPage` | addresses: page mapping, layout of objects, bitmap and table indexes |
| `SmalTypeProofs`, `SmalCollectProofs`, `SmalMarkProofs`, `SmalThreadsProofs`, `SmalFinalizerProofs`, `SmalReferenceProofs`, `SmalRootsProofs`, `SmalPageProofs` | the theorems (section 5) |

`SmalType`, `SmalCollect`, `SmalMark` and `SmalThreads` are four views of the same
collection, each with what the others abstract from: the books of a buffer, the
tables and remembered sets over several collections, the queue inside one
marking, and the locks.  `SmalFinalizer`, `SmalReference` and `SmalRoots` are the
packages on top, over a collection of a few steps.

An operator named `X_Y` is `X` with a deliberate mistake.  It shows that a
property can fail, and nothing else uses it.

### SmalBuffer and SmalType

An object is a pair of a page and an index (`smal_buffer_ptr_i`).  A record field
has the name of the C field.  `held` stands for the program: the objects it has a
pointer to, directly or not.

Grain.  `smal_alloc_p` holds `alloc_lock` for reading and the type's
`alloc_buffer_mutex` from 1588 to 1615, and `smal_free` and the start of a
collection hold `alloc_lock` for writing.  So each is one action.  Marking and
sweeping hold neither and go object by object: `MarkPtr`, `BeginSweep`,
`SweepObject`, then `SweepKeep` or `SweepUnmap`.  The test of the free bit and
the free at 1259-1262 are one action.  The code takes no lock there, and the
race with a `smal_free` inside that window is listed as a hazard, not modelled.
The lookup of `smal_free` at 1635, outside the lock, is left out too.

Tracing is abstract here: a collection may set any mark bits of parceled objects
(a conservative collector does) and ends marking only when the held objects of
the buffers it collects are marked.  `SmalCollect` says when the code achieves
that.  Choices the code makes by list order are left open: which of the emptiest
buffers is used, the order of the sweep.

### SmalCollect

Objects have one pointer field.  The two pages of `MCSmalCollect` are `u`, of a
`mostly_unchanging` type swept every second collection, and `p`, of an ordinary
type.  The mark queue is a set of (referrer, pointer) pairs, so every order of
marking is explored.  `mark_func` passes on the pointer the object holds.
`Store` is a store of the program together with what `write_fault` does if it hits
a protected page.
`shared` says that `buffer_table_mark` is the same array as `buffer_table`, and
`stale` are entries of a mark table whose buffer was freed: looking one up reads
freed memory, and either outcome is allowed.

The queue's inside is `SmalMark`.

The README of smal says that the world should be stopped for marking and that
smal does not do so itself.  The program of the model therefore stops during
marking.  Three constants say what it does while a collection sweeps:
`MutatorPhases` (run at all), `UnchangingPhases` (write to mostly unchanging
pages), `NewPagePhases` (make `smal_alloc` map a page).  The passing run allows
the first only; the other two each break the collector (section 4).

### SmalMark

A chunk is a sequence of (referrer, pointer) pairs and the queue the sequence of
its chunks; `WordsUsed` counts as the code does, against `mark_queue_SIZE`.
`smal_mark_bindings` and `smal_mark_ptr_range` are the calls of roots and
callbacks, each a loop with one word to a step.  `Pop` is a turn of
`smal_mark_queue_mark`; `MarkTail` is a turn of `_smal_mark_ptr_tail` on an object
with two pointers, whose `mark_func` queues the first and returns the second, as
the one of the repository's tests does.  The stack is memory by byte address, so
that alignment is what the code makes of it.  `given` and `perhaps` are history:
the words that must count as pointers, and those a scan may have taken for some.

### SmalThreads

A step is what a thread does between two places where it can wait.  The four
read-write locks are records of readers and writer; the mutexes record their
owner.  A lock that is taken and released without waiting inside is a condition
of the step.  Locks that are always innermost are left out.
Pages are numbers, because `buffer_table` is indexed by the page id modulo the
size of the range.  `MapPage` to `AllocReturns` follow `smal_alloc_p` into
`smal_buffer_table_add`; `smal_collect` to `CollectUnlock` follow
`_smal_collect_inner` into the sweep.  The type of a page is given with the page
(`TypeOf`; the code binds it at 1591), and `MapFails`, the end of memory, takes and
gives back the mutex unseen.  A page loses its last object at any time,
except those of `Pinned`.  `smal_each_object` to `EachCollecting` are the walks of
the two lists; the objects they show are left out.  `overlapped` is history: an
allocation has begun during a collection.  `WaitsFor` says which thread a thread
waits for: one that holds a lock its next step needs, or a reader a writer waits
for.

### SmalFinalizer

Lines in this part are those of `src/src/finalizer.c`.  A step is one critical
section.  The mutexes of the table and of the queue are never held at a place
where a thread waits, so they are no variables; the mutex of a `smal_finalized`
is held by `smal_finalizer_copy_all` across its calls of `smal_finalizer_create`
(199), and `Locked` says so.  `next` and `finalized_queue` are kept as links,
because `sweep_some` reads a link after it has run functions (341-345);
`finalizers` is a sequence.

Marking, `smal_finalizer_after_mark` and the sweep are one step, `Collect`; the
other two models look inside.  `Reachable` is what `smal_object_reachableQ` says
at 285: `smal_finalizer_after_mark_1` has only queued its pointers by then, and
they are marked after the loop.  `Collect` then goes on as its `after_sweep`.
That no finalizer is queued while the client can reach its object is this guard,
and no property says it again.  `SweepNext` joins the test of the list of
finalizers (310, 334) and the change of the queue (337-345), which take their
mutexes one after the other; what could come between is a creation, which does
not find the finalized of a queue in the table, or a call `MayOverlap` leaves out.

The client holds pointers to its objects, drops them and follows them.  A
finalizer's function is the state `func` of a thread: it may store the object it
is given in a root, and while it runs any call may begin that `MayOverlap`
allows, as from another thread.  Memory for the package's own objects is finite
and used once, so that a pointer to a swept one stays recognisable.  What links
lead to (the queue, what the collector marks) is `Followed`, the least closed set.

### SmalReference

Lines in this part are those of `src/src/reference.c`.  Objects, references and
queues are addresses, and an address that was swept is allocated again; `gen` and
`origin` say which object at its address a reference was made for.  Three mutexes
can be held while a thread waits for another, and pc says so: `QueueLocked`,
`ReferenceLocked`, `TableLocked`.  A collection stops the other threads between
their calls (as smal asks the program to), marks in one step, clears references
one by one with their queues (`ClearReference`, `Requeue`, `Cleared`) and sweeps
object by object, with `reference_free` and `ref_queue_free`.  `owed` counts the
notices a queue is to get or still has.  `MayCall` gives, for each call, the
phases of a collection in which it may begin.

### SmalRoots

`global_roots`, `next` and `bindings` are the list of malloced entries; `links` are
the rings of the callbacks and of the threads, changed by the operators of
`SmalDllist`.  `Enter` is the test of `initialized`, which is set before the once
has run.  `LockCallbacks` to `MarkFrame` are `smal_roots_mark_chain`: callbacks
under their mutex, global roots without one, threads under `thread_list_lock`,
their frames without one.  A `next` is read where the code reads it, before the
call that may change it.  `must` and `marked` are history: what was a root when
the marking began and still is one, and what has been marked.

### SmalPage

An address is a number.  Each operator is one expression of the code: the page
kept of a mapping of two, the two parts unmapped, the first object, the capacity,
the index of a pointer, its bit and its place in `buffer_table`.  There is no
state and no run; the theorems are about all addresses.

## 3. Runs that pass

| run | states | shows |
|---|---|---|
| `type` | 344,660 | `SmalType` on two pages of two objects |
| `collect` | 139,123 | `SmalCollect` on two pages and three objects |
| `mark` | 657,871 | `SmalMark` on all graphs of three objects |
| `threads` | 957,347 | three threads add pages, enumerate and collect |
| `finalizer` | 174,375 | two objects, three finalizers, limited sweeps |
| `reference` | 113,385 | two references, two queues, an address used twice |
| `roots` | 2,691,686 | two threads, two global entries, two callbacks |

`type`.  Two pages of two objects are enough for a free list with an order, a
page that is emptied while the other is in use, a choice between pages and
running out of memory.  `CollectionsPerSweep = 2` gives collections that sweep
and collections that do not.  `MaxLive = 2` bounds `live_n`, which `smal_free`
never decrements: with it a page can be filled, freed and allocated from again
once.  `LiveNCoversHeld` states that unmapping, which depends on that count, is
safe all the same.

`collect`.  One object on the mostly unchanging page and two on the ordinary one
give pointers across pages in both directions, a cycle, a chain through an
object the program does not hold itself, and a remembered set with more than one
member over time.  Collections repeat without bound.

`mark`.  Three objects, the third without a `mark_func`, start with any pointers,
also into the middle of an object or to nothing.  Chunks of two pairs make the
queue take and give back chunks; two calls per collection give a second drain,
as `_smal_collect_inner` has it for remembered sets and finalizers.  The stack
has pointers aligned to a pointer, to an int and to neither; the regions are
aligned and not, empty, reversed and shorter than a word.

`threads`.  Three threads are needed for two that add pages and one that
collects.  Page ids 1, 2 and 4 leave a gap, so that the range of ids and with it
the table's size changes; two types let two threads be past `alloc_buffer_mutex`
at once.  `MaxCollectLock = 2` bounds the count of the collection lock.
`CHECK_DEADLOCK FALSE`, because the threads can block each other for good
(section 4); `QuietNoDeadlock` and `QuietNoCollision` say that they do not, and
that the table does not collide, as long as no page is added during a collection.
`NoDeadlock` speaks of circles of `WaitsFor`; `BlockedByAnother` makes sure that
these are all the waits there are: a thread inside a call whose next step is not
enabled waits for another one inside a call.  `RegistrySpec` has the one
collector and the complete list as a refinement: `BufferRegistry` has no locks,
and its collection takes all buffers in one step.

`finalizer`.  Two objects, one pointing to the other, give a finalizer of an object
that is only reachable from another finalizable one.  Three finalizers allow two
on one object, a copy, and a new one created by a function for a resurrected
object.  Sweeps run one finalizer or all, so that a queue is left over for later
collections.  Only creations overlap other calls here.  `NoDeadlock` is about the
mutexes of finalized objects, which one thread holds while it locks another's.

`reference`.  One address for client objects, allocated at most twice
(`MaxGen = 2`), is what a reference can come to mistake; two references and two
queues give a reference in two queues and a queue with two references.
`MaxOwed = 1` bounds the registrations of a reference with one queue.  `Careful`
keeps creations out of collections, and following a weak reference out of the
time between marking and the clearing (section 4).  `OneNotice` asks for three
things: the books of registrations and notices balance; a reference is in a queue
only when it has been cleared; and it is cleared only when the client has lost
the object for good.  The last is what the test of the mark at 243 is for:
`ToClear_Reachable` leaves it out.  `origin` tells the object from the next one
at its address, which the client may well hold.

`roots`.  Three variables, entries of one and of two bindings that share one of
them, two callbacks and one frame per thread give removals that clear a part of
an entry, all of it, or of both.  While a collection marks, frames are pushed and
roots and callbacks added and callbacks removed; `AllButUnsafe` leaves out what
breaks the walk.  Threads and entries are symmetric: nothing distinguishes them.

### Fairness

`CollectionEnds` is checked under weak fairness of the collector's own steps: the
thread that called `smal_collect` runs it to its end in straight-line code.
Nothing is assumed of the program: it need not allocate, free or collect.  The
property is not vacuous, since marking could repeat on a cycle, and sweeping
could be kept busy by allocations.

`MarkAllEnds` assumes weak fairness of the steps of the collector's thread, not
of the calls of its callbacks.  It could fail: a graph with a cycle, or an object
that is queued again each time it is found.

`NoticeComes` assumes weak fairness of a thread inside a call, and strong fairness
of the call of `smal_collect`, since a notice is given by a collection.

`EveryFinalizerRuns` assumes weak fairness of a thread inside a call and strong
fairness of `Collect`: a finalizer is run by a collection, so nothing can be said
of a program that stops collecting.

## 4. Runs that find a disagreement

| run | violated | what happens |
|---|---|---|
| `collect_new_page` | `ReachableKept` | a page mapped during a sweep is missing in `buffer_table_mark` (474) in the next collection and its live objects are swept |
| `threads_deadlock` | `NoDeadlock` | 425 waits for the sweeper inside the locks the sweeper needs at 508 and 784 |
| `threads_collect_lock` | `CollectLockReleased` | the loser of 1315 has incremented the lock and leaves it so |
| `finalizer_sweeps` | `NoneLost` | of two threads in `sweep_some` the slower one sets the head of the queue to a link the other has cleared (`finalizer.c`:341-345) |
| `reference_sweep` | `HeldAlive` | `smal_reference_create_weak` during the sweep returns an unmarked reference of the table (`reference.c`:106), and the sweep frees it |

The findings in `PROJECT.json` quote the comments and documentation these
contradict.  smal's README does concede that the allocator is not completely
thread-safe; the header comments on `smal_alloc_p` and `smal_collect` say that
they are.

`MayOverlap` shows three more limits of the finalizers: a collection during a
`sweep_some` and a `remove_all` during a creation lose finalizers too, and with
`copy_all` in it TLC finds `NoDeadlock` violated: of two copies in opposite
directions each holds the mutex the other's creation waits for
(`finalizer.c`:197, 144).  One more by reading:
`sweep_some(n)` returns 1 after the n-th finalizer even if it was the last, while
`finalizer.h` promises 0 when none is left.

Limits of the same kind that a constant shows when it is set otherwise, and that
have no run:

* `SmalCollect`, `UnchangingPhases` with the sweep: a store to a mostly unchanging
  object during the sweep is erased at 1297, and the next collection trusts an
  incomplete remembered set.
* `SmalCollect`, a type swept every second collection that is not
  `mostly_unchanging`: a buffer that sits out is not traced (918), and what only
  its objects point to is swept.
* `SmalThreads`, pages added during a collection: a page between 492 and 494 is
  missed by a new range of ids, and the assertion at 455 fails (`NoCollision`).
* `SmalReference`, a `MayCall` that lets `create` begin during `before_sweep`: a
  creation holds a queue's mutex and waits for a reference's, `before_sweep` the
  other way round (`reference.c`:124, 185), if the client may also hold on to an
  object whose reference is being cleared.
* `SmalReference`, a `MayCall` that lets `referred` begin between the marking and
  `before_sweep`: the client gets a pointer to an object that is swept.
* `SmalRoots`, `MayOverlap` with `remove` or `end`: `mark_roots` follows an entry
  that was freed, or a frame that was popped.  `FirstCallAlone = FALSE`: a second
  thread uses the mutex and the ring before they exist (`roots.c`:30).
* `MarkExact` demands the pointers of a region that are aligned; `smal.h`:196
  promises any alignment, and the code sees those that are aligned to an int.

Each passing run leaves out the behaviour its violation runs isolate, and also
what the lists above name without a run: roots removed and frames ended during a
marking, a first call of `roots.c` that is not alone, copies in opposite
directions, writes to mostly unchanging pages during the sweep, and the others.
Otherwise both kinds of runs have the same actions.

## 5. Proofs

`SmalTypeProofs` begins with lemmas on records: every operation keeps a buffer in
order (`BufferOK`: types, the free list without repetitions and equal to the free
bitmap, counters that agree, mark bits on parceled objects only) and changes
`Allocated` as it should.  Then it proves for every set of pages, capacity of at
least 1 and `collections_per_sweep` of at least 1:

| theorem | states |
|---|---|
| `Invariant` | `Spec => []IInv` |
| `TypeCorrect` | `Spec => []TypeOK` |
| `HeldObjectsSafe` | `Spec => []HeldObjectsIntact` |
| `BuffersInOrder` | `Spec => []BuffersOK` |
| `PausedExactly` | `Spec => []PausedWhileCollected` |
| `AllocBufferSafe` | `Spec => []AllocBufferUsable` |
| `SweepAssertion` | `Spec => []NoAllocDuringSweep`, the assertion at 1288 |
| `LiveNCovers` | `Spec => []LiveNCoversHeld` |
| `Implementation` | `Spec => PoolSpec` |

`HeldObjectsIntact` is not inductive.  That a held object survives the sweep
needs `HeldMarked` (in the sweep phase a held object of a buffer still to be
swept is marked), which holds because nothing is allocated from such a buffer
(`PausedWhileCollected`), `SweepOK` (the scan has counted every mark it passed, so
a count of 0 means nothing was marked) and, for buffers a collection does not
sweep, `HeldLive` (a buffer with a held object has `live_n` above 0) with
`CollectingOK` (`live_before_sweep_n` is still `live_n`).  `IInv` is their
conjunction; one lemma per action shows that it is kept, and `StepOK` that the
step is one of `ObjectPool` or changes nothing there.  `LiveNCoversHeld` compares
a counter with a cardinality: `LiveCounted` says that no buffer holds more objects
than its `live_n`, and that those the scan of `smal_buffer_sweep` has passed are
counted already, so that the new `live_n` (1294) covers them all.
Assumptions: `BufferAssumption` and
`TypeAssumption` only.

`SmalCollectProofs` proves for every finite set of objects, set of pages, heap and
`collections_per_sweep` (`CollectAssumption`):

| theorem | states | of |
|---|---|---|
| `TypeCorrect` | `Spec => []TypeOK` | any program |
| `MarksAreJustified` | `Spec => []MarksJustified` | any program |
| `Invariant` | `Spec => []IInv` | careful programs |
| `ReachableIsMarked` | `Spec => []ReachableMarked` | careful programs |
| `ReachableIsKept` | `Spec => []ReachableKept` | careful programs |
| `RememberedIsComplete` | `Spec => []RememberedComplete` | careful programs |
| `Implementation` | `Spec => HeapSpec` | careful programs |

`Careful` is what the passing run assumes, for any sets: mostly unchanging pages
are written, and new pages mapped, between collections only, and a page that sits
collections out is `mostly_unchanging`.  Each part is needed: `collect_new_page`
refutes the theorems without the second, and section 4 says what happens without
the first and the third.  Without them there remain `TypedInv` and its theorems.

The hard part is a marking that does not trace every page.  `TracedOK`: a page of
the table is traced (`markable`) or its remembered set is valid.  `RememberedOK`:
a valid set is complete, for what the program can reach, or the page is noted as
mutated; while no collection looks, the page is protected, so that a store is
noted (`mutation`) before it happens.  `TriColour` has four parts: roots, pointers
of marked objects in traced pages, members of valid sets, and pointers that a set
being recorded has to hold, are each marked (recorded) or queued.  So when the
queue is empty, `MarkedAll`: an object that can be reached is marked or lies in an
untraced page.  The path to a marked object may lead through untraced pages, but
its last page border is a pointer out of a complete set, which is queued by
`mark_remembered`; and an untraced page is not swept.  `SweepOK` carries this
through the sweep, where new objects are born marked.  Reachability is the least
closed set (`Reached`), so paths are never followed one by one: the set of objects
that are marked or untraced is shown to be closed.  The refinement of `SmalHeap`
needs `ReachableKept` and `SweepOK` only.

`SmalMarkProofs` proves for every set of objects, every graph, chunk size, stack and
region (`MarkAssumption`):

| theorem | states |
|---|---|
| `Invariant` | `Spec => []IInv` |
| `ChunksFit` | `Spec => []TypeOK`: no chunk is written past its end |
| `MarksAreExact` | `Spec => []MarkExact` |
| `ReferrersHold` | `Spec => []ReferrerHolds` |
| `ScanReadsInside` | `Spec => []ReadsInside` |
| `DrainsDown` | `Spec => DrainProgress`: each step of the drain lowers a variant |

The argument is the one of three colours.  `Grey` is what is queued, in the tail,
in the arguments of a call or ahead of a scan, as objects.  `TriColour`: the
pointers of a marked object lead to marked or grey ones, and so do the words in
`given`.  `Justified`: what is marked or grey can be reached from `perhaps`.  When
the queue is drained nothing is grey, so the marks are closed and contain the
least closed set, and are contained in the other.  A lemma per action gives its
shape (begins, ends, looks, marks one object), and the colours are kept by
shapes, not by actions.  `PlaceOK` and `ScanOK` say where the thread is and that the
scan stays behind the region's start.  `mark_queue_SIZE` must be even, which is
what makes the test of the code (`mark_queue.h`:117) enough.

`DrainsDown` is the half of `MarkAllEnds` that can be proved here.  Its variant is
lexicographic: the unmarked objects with a `mark_func`, the chunks, the pairs of
the current chunk, and a pointer still to be followed.  A turn that queues
something marks an object first, so cycles and sharing cannot keep the loop busy;
only that the collector's thread goes on, and that a decreasing variant ends, is
left to fairness and to the run.

`SmalThreadsProofs` proves for any number of threads, pages and types
(`ThreadsAssumption`):

| theorem | states |
|---|---|
| `Invariant` | `Spec => []IInv` |
| `OneThreadCollects` | `Spec => []OneCollector` |
| `TableListed` | `Spec => []ListsAgreeWithTable` |
| `AllCollected` | `Spec => []CollectsAll` |
| `TypeCorrect` | `Spec => []TypeOK` |
| `QuietTableIsFree` | `Spec => []QuietNoCollision` |
| `QuietIsDeadlockFree` | `Spec => []QuietNoDeadlock` |
| `Implementation` | `Spec => RegistrySpec` |

None is inductive.  `LocksHeld` says at which places of the code each lock is
held; with it a collector at `c_before_mark` excludes an adder, whose
`alloc_lock` it has waited for.  `PagesOwned` gives every page on its way into or
out of the table to one thread.  `LockCounted` (who collects has counted the
collection lock up) gives `OneCollector`, also with the counts that are never
given back.

`RangeInv` adds what the last two need.  `Bounded` counts the threads between the
two halves of `smal_thread_lock_lock` together with the lock, so that it stays in
its bound.  `Quiet`: unless a page was added while a collection runs, a thread
that adds one meets no collection, hence (`Moved`) no buffer outside `buffer_list`
and `buffer_table`.  `RangeOK`: the range of page ids covers the table, or is
marked as invalid and computed again before the table is filled, and the page
that is added lies in it.  Then `NoCollisionInRange` of `SmalPageProofs` is the
last step.  The least and greatest page ids (450-457) are stated as members of the
set that bound it, not computed.

`QuietIsDeadlockFree` needs an order on the places where threads wait.
`LocksHeld` says which locks are held there, and `MutexOwned` that the owner of an
`alloc_buffer_mutex` is on its way through `smal_alloc_p`.  While no page is added
during a collection, a thread that waits for `alloc_lock` may wait for one that
waits for an `alloc_buffer_mutex`, this one for one at the table's or the
lists' locks, and that one for a thread that waits for nothing (`WaitedFor`, one
case per place); so of the threads of any set, the one furthest along this order
waits for none of them.  For `NoDeadlock` without the premise the order fails at
425, which is what `threads_deadlock` finds.

The refinement maps the buffers of `BufferRegistry` to `buffer_table`,
`collectors` to the threads from `c_before_mark` to `c_stop`, and what a collection
has taken to `buffer_collecting`.  That it takes all there are is the fact behind
`AllCollected`: a collector that holds `alloc_lock`, `buffer_list`'s and
`buffer_collecting`'s locks leaves no adder between table and list.  `Free` is
`SweepFree`, `End` is `EndSweep`, and the other steps are stutters.

`SmalFinalizerProofs` proves for any number of threads, objects and finalizers
(`FinalizerAssumption`, with the package's memory finite as memory is), if only
creations and copies begin while another call is under way:

| theorem | states |
|---|---|
| `Invariant` | `Spec => []IInv` |
| `TypeCorrect` | `Spec => []TypeOK` |
| `NoFinalizerLost` | `Spec => []NoneLost` |
| `FinalizersKeep` | `Spec => []KeptForFinalizer` |

and, with other hypotheses,

| theorem | states | if |
|---|---|---|
| `SweepFindsMutexFree` | `Spec => []SweepFree` | (always) |
| `DeadlockFree` | `Spec => []NoDeadlock` | no copy begins while another call is under way |

The hypothesis `CarefulClient` is a little weaker than the constant of the run
`finalizer`, which lets only creations overlap: two copies can wait for each
other's mutex (199), which is no matter of safety.  `finalizer_sweeps` refutes
`NoneLost` when `smal_finalizer_sweep_some` overlaps itself.

`IInv` adds to the properties what they rest on.  `OneCall`: one thread at most is
in a removal or runs finalizers.  `CallsOK`: what a thread has in its locals fits
its place; the thread that runs finalizers has the head of the queue, because
nobody else moves it, and a creation between its halves has the finalized the
table has for its object.  `TableOK`: a finalized in the table is not in the queue
and is that of its object.  `ListsOK`: no list repeats a finalizer or shares one
with another, so that its length is bounded (`OnceIsShort`) and the object of a
pending finalizer is the `referred` of the finalized that holds it.  With these a
collection loses nothing: a finalized leaves the table for the queue, and the new
links lead from the new head through all of `order` to the old queue
(`QueuedAfter`).  And it keeps what it should: what is marked from the table and
the queue is closed under the links, so it has the finalizers, their objects
and all these point to (`MarkedIs`).  Both are arguments about least closed sets;
no path is followed.

The two theorems on mutexes rest on an invariant of their own, `CopyInv`, which
needs no care of the client: a finalized of the table is that of its object, and
a copy goes from the finalized of one object to another object, both held by its
caller.  So what a copy holds is never queued by a collection (`SweepFree`), and
if there is one copy at a time (`OneCopy`) it could only wait for itself, which it
does not because the two objects differ (the test at 188).

`SmalReferenceProofs` proves for any sets of threads, objects, references and
queues (`ReferenceAssumption`):

| theorem | states | of |
|---|---|---|
| `TableIsExact` | `Spec => []TableExact` | any client |
| `Invariant` | `Spec => []IInv` | careful clients |
| `TypeCorrect` | `Spec => []TypeOK` | careful clients |
| `HeldStaysAlive` | `Spec => []HeldAlive` | careful clients |
| `SameObjectAlways` | `Spec => []SameObject` | careful clients |
| `GoneInvariant` | `Spec => []GoneInv` | careful clients |
| `OneNoticeEach` | `Spec => []OneNotice` | careful clients |
| `DeadlockFree` | `Spec => []NoDeadlock` | clients that create none during `before_sweep` |

`CarefulClient` is what `MCSmalReference!Careful` says, for any `MayCall`: references
are created between collections, and weak references followed at any time except
between marking and the end of `before_sweep`.  `reference_sweep` refutes
`HeldAlive` without the first; section 4 has the second.

`TableInv` says that `referred_table` and `referred` are inverse to each other.  It
needs no care of the client: `reference_free` removes the entry of the swept
reference before its address can be used again.  `StayingOK` is the core of the
rest: what the client holds and what stays (all, or in the sweep the marked) leads
only to what stays, so the least closed set of what can be reached stays
(`ReachableStays`).  `ClearingOK` counts down what `before_sweep` has to clear:
`Uncleared`, the marked references with unmarked objects, is within the list of
the walk and empty when the sweep begins.  So every reference that survives has a
surviving object, whose address is not reused (`ObjectOK`).  `NoticeOK` balances
the books: what a queue is owed by a reference is the number of times the queue is
in the reference's list plus the number of times the reference is in the queue's;
`Requeue` moves one from one to the other.  A reference's list is empty once it
has been cleared and unlocked, so no notice is given twice.

That none is given too early needs `GoneInv` in addition.  `TodoOK`: a reference
that `before_sweep` is about to clear is to an object without a mark, while all
that the client holds is marked (`StayingOK`).  `GoneOK`: to the object of a
cleared reference there is no pointer, and no other reference in the table, so the
client has no way back to it.  `OriginOK`: no reference was made for an object
still to come, so that an allocation of the same address is no exception.

`DeadlockFree` has the mutexes of references, queues and the table in one
`WaitsFor`.  A creation takes a queue's and then a reference's, `before_sweep` the
other way round; `BeforeSweepAlone` says that no thread is inside a creation while
`before_sweep` runs.  It holds because marking begins when all threads are outside
of calls, and because of the hypothesis afterwards.

`SmalRootsProofs` first proves of `dllist.h` that `smal_dllist_init`, `_insert`,
`_delete` and `_append` keep `next` and `prev` inverse to each other on the nodes of
a ring (`InitLinked`, `InsertLinked`, `DeleteLinked`, `AppendLinked`), then for any
number of threads, entries, callbacks and frames (`RootsAssumption`):

| theorem | states | of |
|---|---|---|
| `Invariant` | `Spec => []IInv` | programs whose first call is alone |
| `TypeCorrect` | `Spec => []TypeOK` | programs whose first call is alone |
| `GlobalIsExact` | `Spec => []GlobalExact` | programs whose first call is alone |
| `MarkInvariant` | `Spec => []MInv` | careful programs |
| `RootsAreMarked` | `Spec => []RootsMarked` | careful programs |
| `UsesAreSafe` | `Spec => []UseSafe` | careful programs |

`CarefulProgram` is what the run `roots` assumes, for any sets: the first call is
alone, and no global root is removed and no frame ended while a collection marks.
Section 4 says what happens otherwise.

What a walk has still to visit is the least set closed under `next` (`NodesFrom`),
so nothing is followed link by link.  `TheList` says that the list has the entries
in use that nobody is about to push, and that no two entries lead to the same one
(`OneWay`); without the second, unlinking an entry could cut off others.  `Exact` says
what the list binds even while `smal_roots_remove_global` is half way: every entry
behind it is cleared of what it removes.  `Rings` says that the two rings are
rings, and that a walk from the head meets all of `kept_cbs` and `registered`; they
are disjoint, so that one changes while the other is walked.  `Adders` and
`HandlesOK` give an entry or a callback on its way in or out to one thread.

`MInv` adds `Marks`: while `smal_roots_mark_chain` runs, what must be marked is
marked or in `Left`, what the walk has still to mark.  A step of the walk moves
something from `Left` to `marked`; a step of another thread only adds to `Left`
(`LeftStays`), because the mutex of the callbacks and `thread_list_lock` keep the ring
that is walked, and because a global root is pushed in front of the walk and a
frame on top of the one it is in.  That the marking then misses the new ones is
no loss: `must` has the roots of when it began.

`SmalPageProofs`, for all page sizes, addresses, sizes and alignments:
`PageKept` (one aligned page is kept of a mapping, and the rest unmapped exactly),
`ObjectFound` (any pointer into an object leads to its page, index and first
byte), `BitsCover` (each object has a bit), `ObjectsAligned`, `DescServed` (the size
`smal_type_for_desc` gives) and `NoCollisionInRange` (two pages within the range
of ids never share an index).

Model-checked only:

* `CollectionEnds`, `MarkAllEnds`, `EveryFinalizerRuns`, `NoticeComes` (liveness)
  and `BlockedByAnother` (`ENABLED`): out of the prover's reach.

Proved without a run of their own: `PausedWhileCollected`, `OneCollector`,
`CollectsAll`, `SweepFree`, `NoDeadlock` of `SmalReferenceProofs`, `DrainProgress`
and the theorems of `SmalPageProofs`.

## 6. Not modelled

* The list of types, `smal_type_free` and `smal_shutdown`; stacks, registers and
  death of threads, `smal_collect_wait_for_sweep`: straight-line code or calls of
  the system.  `smal_type_free` of a type with buffers waits for its own
  `buffers_lock` (by reading).
* `smal_callbacks_empty`, which locks its own mutex twice (`callback.c`:42).
* The objects `smal_each_object` shows: nothing says which it has to.
* `smal_free` at the grain of memory accesses: its unlocked lookup (1635) and its
  race with the sweep of the same buffer (1259) are undefined behaviour.
* Failing `malloc` and bitmaps, except where `reference.c` tests for it; in
  `queue_reference` it drops the notice.  `object_capacity` 0, and alignments
  larger than a page.
* `smal_free` of an object a weak reference refers to, and the `data` pointers of
  references, queues and finalizers.
* The order of locks across packages: `smal_alloc` is called with
  `referred_table_mutex` held, which `reference_free` takes in the sweep.
* The counters of type and `buffer_head`, sums of those of the buffers.
* The hash table of remembered sets (not part of the repository): a set.
* The build without mark queue (989-1000 does not compile) and without
  write barrier and remembered sets.
* The Mach write barrier, debugging output, architecture probes: no state of the
  collector.

## 7. Plan

What is left, the most consequential first:

1. `smal_free` and the sweep of one buffer at the grain of memory accesses, with
   the unlocked lookup in the table.
2. Failing allocations of bitmaps (649), composed with `SmalType`.
