---------------------------- MODULE SmalCollect -----------------------------
(***************************************************************************)
(* smal_collect over all buffers: tracing from the roots, remembered sets, *)
(* the write barrier, collections_per_sweep and the sweep (src/src/smal.c, *)
(* remembered_set.h, buffer_write_barrier.h, mark_queue.h).                *)
(*                                                                         *)
(* SmalType says how a buffer keeps its objects; here an object is simply  *)
(* allocated or not, and what counts is which objects the tracing finds.   *)
(* The program is any program: it allocates, stores, loads and forgets     *)
(* pointers, and marking stops it ("stop the world during marking",        *)
(* README); the constants say what else it may do while a collection is    *)
(* sweeping.  X_Y is X with a deliberate mistake that shows that a         *)
(* property can fail.                                                      *)
(***************************************************************************)
EXTENDS Integers, FiniteSets

CONSTANTS
  Objects, Null, Buffers, NoBuffer,
  BufferOf,               (* the page each object lies in                  *)
  collections_per_sweep,  (* by page, from its type's descriptor           *)
  mostly_unchanging,      (* the pages of types that keep remembered sets  *)
  MutatorPhases,          (* when the program runs                         *)
  UnchangingPhases,       (* ... and when it writes to mostly_unchanging   *)
  NewPagePhases           (* ... and when it makes smal_alloc map a page   *)

ASSUME CollectAssumption ==
  /\ IsFiniteSet(Objects) /\ Null \notin Objects /\ NoBuffer \notin Buffers
  /\ BufferOf \in [Objects -> Buffers]
  /\ collections_per_sweep \in [Buffers -> Nat \ {0}]
  /\ mostly_unchanging \subseteq Buffers
  /\ MutatorPhases \subseteq {"idle", "sweep"}
  /\ UnchangingPhases \subseteq MutatorPhases
  /\ NewPagePhases \subseteq MutatorPhases

VARIABLES
  allocated, ref, roots,  \* the heap, as in SmalHeap
  buffer_table,           \* the pages smal_ptr_to_buffer finds in buffer_table
  buffer_table_mark,      \* ... in buffer_table_mark, which marking uses
  shared,                 \* the two are the same array
  stale,                  \* entries of buffer_table_mark for freed buffers
  buf,                    \* the fields of each smal_buffer
  marks,                  \* the mark bits of all buffers
  phase,                  \* where the collection is
  queue,                  \* mark_queue: <<referrer, ptr>> pairs, in any order
  unswept,                \* buffers of buffer_collecting not yet swept
  sweeping                \* the buffer smal_buffer_sweep is at

heap   == <<allocated, ref, roots>>
tables == <<buffer_table, buffer_table_mark, shared, stale>>
vars   == <<heap, tables, buf, marks, phase, queue, unswept, sweeping>>

Heap == INSTANCE SmalHeap
Reachable == Heap!Reachable

Phases == {"idle", "mark_roots", "mark_remembered", "sweep"}
in_collect == phase # "idle"

ObjectsIn(b) == {o \in Objects : BufferOf[o] = b}

smal_buffer ==
  [ alloc_disabled : BOOLEAN, collection_n : Nat,
    markable : BOOLEAN, sweepable : BOOLEAN,
    mutation : BOOLEAN, write_protect : BOOLEAN,
    record_remembered_set : BOOLEAN, remembered_set_valid : BOOLEAN,
    remembered_set : SUBSET Objects ]

NewBuffer ==
  [ alloc_disabled |-> FALSE, collection_n |-> 0,
    markable |-> FALSE, sweepable |-> FALSE,
    mutation |-> FALSE, write_protect |-> FALSE,
    record_remembered_set |-> FALSE, remembered_set_valid |-> FALSE,
    remembered_set |-> {} ]

TypeOK ==
  /\ allocated \subseteq Objects /\ roots \subseteq Objects
  /\ ref \in [Objects -> Objects \cup {Null}]
  /\ buffer_table \subseteq Buffers /\ buffer_table_mark \subseteq Buffers
  /\ shared \in BOOLEAN /\ stale \subseteq buffer_table_mark
  /\ buf \in [Buffers -> smal_buffer]
  /\ marks \subseteq Objects
  /\ phase \in Phases
  /\ queue \subseteq (Objects \cup {Null}) \X Objects
  /\ unswept \subseteq buffer_table
  /\ sweeping \in unswept \cup {NoBuffer}

Init ==
  /\ Heap!Init
  /\ buffer_table = {} /\ buffer_table_mark = {} /\ shared = TRUE /\ stale = {}
  /\ buf = [b \in Buffers |-> NewBuffer]
  /\ marks = {} /\ queue = {}
  /\ phase = "idle" /\ unswept = {} /\ sweeping = NoBuffer

-----------------------------------------------------------------------------
(* The program.                                                            *)

MutatorMay(b) == /\ phase \in MutatorPhases
                 /\ b \in mostly_unchanging => phase \in UnchangingPhases

(* smal_buffer_table_add: outside a collection both tables become the new  *)
(* one, during a collection only buffer_table does.                        *)
TableAdd(b) ==
  /\ buffer_table' = buffer_table \cup {b}
  /\ IF in_collect
     THEN /\ shared' = FALSE
          /\ UNCHANGED <<buffer_table_mark, stale>>
     ELSE /\ shared' = TRUE /\ stale' = {}
          /\ buffer_table_mark' = buffer_table \cup {b}

(* smal_alloc: from a page that is not paused or from a new page.          *)
(* smal_buffer_alloc_object assumes a mutation, which also unprotects the  *)
(* page, and marks the object when a collection is under way.              *)
AllocObject(r) == [r EXCEPT !.mutation = TRUE, !.write_protect = FALSE]

smal_alloc(o) ==
  LET b == BufferOf[o] IN
  /\ MutatorMay(b)
  /\ IF b \in buffer_table THEN ~ buf[b].alloc_disabled /\ UNCHANGED tables
                           ELSE phase \in NewPagePhases /\ TableAdd(b)
  /\ Heap!New(o)
  /\ buf' = [buf EXCEPT ![b] = AllocObject(@)]
  /\ marks' = IF in_collect THEN marks \cup {o} ELSE marks
  /\ UNCHANGED <<phase, queue, unswept, sweeping>>

(* smal_write_barrier_mutation notes the mutation and unprotects the page. *)
WriteFault_NoMutation(r) == [r EXCEPT !.write_protect = FALSE]

WriteFault(r) ==
  IF r.write_protect THEN [r EXCEPT !.mutation = TRUE, !.write_protect = FALSE] ELSE r

(* The handler of the signal: nothing more, for an address in a buffer.    *)
write_fault(b) == buf' = [buf EXCEPT ![b] = WriteFault(@)]

(* A store of the program.  It faults if the page is protected.            *)
Store(o, v) ==
  /\ MutatorMay(BufferOf[o])
  /\ Heap!Store(o, v)
  /\ write_fault(BufferOf[o])
  /\ UNCHANGED <<tables, marks, phase, queue, unswept, sweeping>>

(* The program follows a pointer, or drops one. *)
Load(o) ==
  /\ phase \in MutatorPhases
  /\ Heap!Load(o)
  /\ UNCHANGED <<tables, buf, marks, phase, queue, unswept, sweeping>>

Forget(o) ==
  /\ phase \in MutatorPhases
  /\ Heap!Forget(o)
  /\ UNCHANGED <<tables, buf, marks, phase, queue, unswept, sweeping>>

Mutator ==
  \/ \E o \in Objects : smal_alloc(o)
  \/ \E o \in Objects, v \in Objects \cup {Null} : Store(o, v)
  \/ \E o \in Objects : Load(o)
  \/ \E o \in Objects : Forget(o)

-----------------------------------------------------------------------------
(* Marking.                                                                *)

(* smal_buffer_before_mark.  A mutated page loses its remembered set; one  *)
(* without a valid set is traced, to record it anew.                       *)
BeforeMark_KeepValid(b, r) ==
  LET n     == (r.collection_n + 1) % collections_per_sweep[b]
      sweep == n = 0
      valid == r.remembered_set_valid
      rec   == r.record_remembered_set \/ (b \in mostly_unchanging /\ ~ valid)
  IN  [r EXCEPT !.alloc_disabled = TRUE,
                !.collection_n = n,
                !.sweepable = sweep,
                !.markable = sweep \/ (b \in mostly_unchanging /\ ~ valid),
                !.remembered_set_valid = valid,
                !.record_remembered_set = rec,
                !.remembered_set = IF rec THEN {} ELSE @]

BeforeMark(b, r) ==
  LET n     == (r.collection_n + 1) % collections_per_sweep[b]
      sweep == n = 0
      valid == r.remembered_set_valid /\ ~ r.mutation
      rec   == r.record_remembered_set \/ (b \in mostly_unchanging /\ ~ valid)
  IN  [r EXCEPT !.alloc_disabled = TRUE,
                !.collection_n = n,
                !.sweepable = sweep,
                !.markable = sweep \/ (b \in mostly_unchanging /\ ~ valid),
                !.remembered_set_valid = valid,
                !.record_remembered_set = rec,
                !.remembered_set = IF rec THEN {} ELSE @]

(* _smal_collect_inner until the roots are queued: every buffer is paused  *)
(* and prepared; the mark bits of those that are markable are cleared.     *)
ClearedMarks_None(new) == marks

ClearedMarks(new) == {o \in marks : ~ new[BufferOf[o]].markable}

BeginCollect ==
  /\ phase = "idle"
  /\ phase' = "mark_roots"
  /\ unswept' = buffer_table
  /\ buf' = [b \in Buffers |-> IF b \in buffer_table THEN BeforeMark(b, buf[b])
                                                     ELSE buf[b]]
  /\ marks' = ClearedMarks(buf')
  /\ queue' = {Null} \X roots
  /\ UNCHANGED <<heap, tables, sweeping>>

(* smal_ptr_to_buffer(ptr, buffer_table_mark).  An entry whose buffer was  *)
(* freed reads freed memory: either outcome.                               *)
FoundInMarkTable(b) ==
  IF b \in stale THEN BOOLEAN ELSE {b \in buffer_table_mark}

(* _smal_buffer_mark_ptr: what it does to the referrer's remembered set,   *)
(* and the pointers the object's mark_func passes on when it is traced.    *)
Remember(referrer, p) ==
  IF referrer = Null THEN buf
  ELSE LET rb == BufferOf[referrer] IN
       IF buf[rb].record_remembered_set /\ rb # BufferOf[p]
       THEN [buf EXCEPT ![rb].remembered_set = @ \cup {p}]
       ELSE buf

MarkFunc_Again(p) ==
  IF buf[BufferOf[p]].markable /\ ref[p] # Null THEN {<<p, ref[p]>>} ELSE {}

MarkFunc(p) ==
  IF p \notin marks /\ buf[BufferOf[p]].markable /\ ref[p] # Null
  THEN {<<p, ref[p]>>} ELSE {}

MarkPtr(referrer, p) ==
  /\ <<referrer, p>> \in queue
  /\ \E found \in FoundInMarkTable(BufferOf[p]) :
       IF found
       THEN /\ buf' = Remember(referrer, p)
            /\ marks' = marks \cup {p}
            /\ queue' = (queue \ {<<referrer, p>>}) \cup MarkFunc(p)
       ELSE /\ queue' = queue \ {<<referrer, p>>}
            /\ UNCHANGED <<buf, marks>>
  /\ UNCHANGED <<heap, tables, phase, unswept, sweeping>>

(* The queue is empty: the valid remembered sets are marked too, as the    *)
(* pointers of buffers that are perhaps not traced.                        *)
RememberedPtrs_None(bs) == {}

RememberedPtrs(bs) ==
  UNION {buf[b].remembered_set : b \in {c \in bs : buf[c].remembered_set_valid}}

MarkRemembered ==
  /\ phase = "mark_roots" /\ queue = {}
  /\ phase' = "mark_remembered"
  /\ queue' = {Null} \X RememberedPtrs(unswept)
  /\ UNCHANGED <<heap, tables, buf, marks, unswept, sweeping>>

(* The queue is empty again: marking is over. *)
EndMark ==
  /\ phase = "mark_remembered" /\ queue = {}
  /\ phase' = "sweep"
  /\ UNCHANGED <<heap, tables, buf, marks, queue, unswept, sweeping>>

-----------------------------------------------------------------------------
(* Sweeping.                                                               *)

(* smal_buffer_sweep up to the end of its loop: a set that was recorded    *)
(* becomes valid, and if the buffer is sweepable it is unprotected and its *)
(* unmarked objects are freed.                                             *)
FinishRemembered(r) ==
  [r EXCEPT !.record_remembered_set = FALSE,
            !.remembered_set_valid = @ \/ r.record_remembered_set,
            !.write_protect = @ /\ ~ r.sweepable]

Freed(b) == {o \in ObjectsIn(b) \cap allocated : buf[b].sweepable /\ o \notin marks}

Sweep(b) ==
  /\ phase = "sweep" /\ sweeping = NoBuffer
  /\ b \in unswept
  /\ sweeping' = b
  /\ buf' = [buf EXCEPT ![b] = FinishRemembered(@)]
  /\ allocated' = allocated \ Freed(b)
  /\ ref' = [o \in Objects |-> IF o \in Freed(b) THEN Null ELSE ref[o]]
  /\ UNCHANGED <<roots, tables, marks, phase, queue, unswept>>

(* Its local live_n: the marked objects, or live_before_sweep_n for a      *)
(* buffer that is not sweepable.                                           *)
LiveN(b) == Cardinality(ObjectsIn(b) \cap
                        IF buf[b].sweepable THEN marks ELSE allocated)

(* Live objects: allocations resume ...                                    *)
SweepResume ==
  /\ sweeping # NoBuffer /\ LiveN(sweeping) # 0
  /\ buf[sweeping].alloc_disabled
  /\ buf' = [buf EXCEPT ![sweeping].alloc_disabled = FALSE]
  /\ UNCHANGED <<heap, tables, marks, phase, queue, unswept, sweeping>>

(* ... and only then smal_buffer_clear_mutation.                           *)
ClearMutation(b, r) ==
  [r EXCEPT !.mutation = FALSE, !.write_protect = @ \/ b \in mostly_unchanging]

SweepClearMutation ==
  /\ sweeping # NoBuffer
  /\ ~ buf[sweeping].alloc_disabled
  /\ buf' = [buf EXCEPT ![sweeping] = ClearMutation(sweeping, @)]
  /\ unswept' = unswept \ {sweeping}
  /\ sweeping' = NoBuffer
  /\ UNCHANGED <<heap, tables, marks, phase, queue>>

(* No live objects: smal_buffer_free, which clears only the entry of       *)
(* buffer_table.                                                           *)
SweepUnmap_KeepCollecting ==
  /\ sweeping # NoBuffer /\ LiveN(sweeping) = 0
  /\ buf' = [buf EXCEPT ![sweeping] = NewBuffer]
  /\ buffer_table' = buffer_table \ {sweeping}
  /\ IF shared
     THEN buffer_table_mark' = buffer_table_mark \ {sweeping} /\ UNCHANGED stale
     ELSE stale' = stale \cup ({sweeping} \cap buffer_table_mark)
          /\ UNCHANGED buffer_table_mark
  /\ marks' = marks \ ObjectsIn(sweeping)
  /\ sweeping' = NoBuffer
  /\ UNCHANGED <<heap, shared, phase, queue, unswept>>

SweepUnmap ==
  /\ sweeping # NoBuffer /\ LiveN(sweeping) = 0
  /\ buf' = [buf EXCEPT ![sweeping] = NewBuffer]
  /\ buffer_table' = buffer_table \ {sweeping}
  /\ IF shared
     THEN buffer_table_mark' = buffer_table_mark \ {sweeping} /\ UNCHANGED stale
     ELSE stale' = stale \cup ({sweeping} \cap buffer_table_mark)
          /\ UNCHANGED buffer_table_mark
  /\ marks' = marks \ ObjectsIn(sweeping)
  /\ unswept' = unswept \ {sweeping}
  /\ sweeping' = NoBuffer
  /\ UNCHANGED <<heap, shared, phase, queue>>

EndCollect ==
  /\ phase = "sweep" /\ unswept = {}
  /\ phase' = "idle"
  /\ UNCHANGED <<heap, tables, buf, marks, queue, unswept, sweeping>>

Marking ==
  \/ \E referrer \in Objects \cup {Null}, p \in Objects : MarkPtr(referrer, p)
  \/ MarkRemembered
  \/ EndMark

Sweeping ==
  \/ \E b \in Buffers : Sweep(b)
  \/ SweepResume
  \/ SweepClearMutation
  \/ SweepUnmap
  \/ EndCollect

Next == Mutator \/ BeginCollect \/ Marking \/ Sweeping

Spec == Init /\ [][Next]_vars

-----------------------------------------------------------------------------
(* An object the program can reach is allocated.                           *)
ReachableKept == Reachable \subseteq allocated

(* Marking has nothing left to find: when it is over, what the program     *)
(* can reach in a buffer that will be swept is marked.                     *)
ReachableMarked ==
  phase = "mark_remembered" /\ queue = {} =>
    \A o \in Reachable : buf[BufferOf[o]].sweepable => o \in marks

(* A remembered set that the next collection will trust holds every        *)
(* pointer out of the buffer that the program can follow ("a remembered    *)
(* set of references pointing outside itself", README).                    *)
RememberedComplete ==
  phase = "idle" =>
    \A b \in buffer_table :
      buf[b].remembered_set_valid /\ ~ buf[b].mutation =>
        \A o \in Reachable \cap ObjectsIn(b) :
          ref[o] # Null /\ BufferOf[ref[o]] # b => ref[o] \in buf[b].remembered_set

(* Marking keeps nothing without a reason: what is marked in a traced      *)
(* buffer can be reached from a root or from a valid remembered set.       *)
MarksJustified ==
  phase = "mark_remembered" /\ queue = {} =>
    \A o \in marks :
      buf[BufferOf[o]].markable =>
        o \in Heap!ReachableFrom(roots \cup RememberedPtrs(unswept))

(* The collector implements the heap of SmalHeap. *)
HeapSpec == Heap!Spec
=============================================================================
