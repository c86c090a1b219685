-------------------------- MODULE SmalCollectProofs --------------------------
(***************************************************************************)
(* For every heap, every number of pages and every program: smal_collect   *)
(* is type correct and marks nothing without a reason, and as long as the  *)
(* program is careful, it takes back nothing the program can reach.        *)
(***************************************************************************)
EXTENDS SmalCollect, FiniteSetTheorems, TLAPS

-----------------------------------------------------------------------------
(* The inductive invariants, part by part.                                 *)

InMarking == phase \in {"mark_roots", "mark_remembered"}

(* What is in use in which phase, whatever the program does. *)
PhaseOK ==
  /\ shared => stale = {}
  /\ phase # "sweep" => sweeping = NoBuffer
  /\ phase = "idle" => unswept = {}
  /\ InMarking => unswept = buffer_table
  /\ phase \in {"idle", "sweep"} => queue = {}

(* A set is recorded from the beginning of a collection to the sweep of    *)
(* its buffer, and while marking runs only if it is not valid already.     *)
RecordOK ==
  \A b \in Buffers : buf[b].record_remembered_set =>
    /\ b \in unswept \ {sweeping}
    /\ InMarking => ~ buf[b].remembered_set_valid

(* What is marked in a traced buffer, or queued, has a reason. *)
Reasons == Heap!ReachableFrom(roots \cup RememberedPtrs(unswept))

Justified ==
  InMarking =>
    /\ \A o \in marks : buf[BufferOf[o]].markable => o \in Reasons
    /\ \A e \in queue : e[2] \in Reasons

TypedInv == TypeOK /\ PhaseOK /\ RecordOK /\ Justified

(* The programs the collector serves: they write to mostly unchanging      *)
(* pages, and fill pages up, only between collections; and a page that     *)
(* sits collections out is one with remembered sets.                       *)
Careful ==
  /\ UnchangingPhases \subseteq {"idle"}
  /\ NewPagePhases \subseteq {"idle"}
  /\ \A b \in Buffers \ mostly_unchanging : collections_per_sweep[b] = 1

(* Marking finds every page with an object in it. *)
TablesOK ==
  /\ shared /\ buffer_table_mark = buffer_table
  /\ \A o \in allocated : BufferOf[o] \in buffer_table

(* The set of b holds the pointers out of b that the program can follow. *)
Complete(b) ==
  \A o \in Reachable \cap ObjectsIn(b) :
    ref[o] # Null /\ BufferOf[ref[o]] # b => ref[o] \in buf[b].remembered_set

(* Which sets are complete.  A protected page notes its mutations. *)
RememberedOK ==
  \A b \in Buffers :
    /\ buf[b].remembered_set_valid \/ buf[b].record_remembered_set =>
         b \in mostly_unchanging /\ b \in buffer_table
    /\ buf[b].remembered_set_valid =>
         Complete(b) \/ (phase = "idle" /\ buf[b].mutation)
    /\ phase = "sweep" /\ buf[b].record_remembered_set => Complete(b)
    /\ ~ InMarking /\ b \notin unswept
         /\ buf[b].remembered_set_valid /\ ~ buf[b].mutation => buf[b].write_protect

(* While marking runs, a page is traced, or its set says where it points.  *)
TracedOK ==
  InMarking =>
    \A b \in buffer_table :
      /\ buf[b].sweepable \/ buf[b].record_remembered_set => buf[b].markable
      /\ buf[b].markable \/ buf[b].remembered_set_valid

(* Where p is on its way to be marked, as a pointer of "referrer". *)
Coming(referrer, p) == <<referrer, p>> \in queue

(* Nothing is forgotten: the roots, what a marked object points to, what a *)
(* valid set holds, and what a set that is recorded has to hold, is marked *)
(* (in the set) or queued.                                                 *)
TriColour ==
  InMarking =>
    /\ \A o \in roots : o \in marks \/ Coming(Null, o)
    /\ \A o \in marks \cap Reachable :
         buf[BufferOf[o]].markable /\ ref[o] # Null =>
           ref[o] \in marks \/ Coming(o, ref[o])
    /\ phase = "mark_remembered" =>
         \A o \in RememberedPtrs(unswept) \cap Reachable : o \in marks \/ Coming(Null, o)
    /\ \A o \in marks \cap Reachable :
         LET b == BufferOf[o] IN
         buf[b].record_remembered_set /\ ref[o] # Null /\ BufferOf[ref[o]] # b =>
           ref[o] \in buf[b].remembered_set \/ Coming(o, ref[o])

(* The sweep frees nothing that can be reached, and leaves nothing in its  *)
(* buffer that is not marked.                                              *)
SweepOK ==
  /\ phase = "sweep" =>
       \A o \in Reachable : buf[BufferOf[o]].sweepable => o \in marks
  /\ sweeping # NoBuffer /\ buf[sweeping].sweepable =>
       allocated \cap ObjectsIn(sweeping) \subseteq marks

IInv ==
  /\ TypedInv /\ TablesOK /\ ReachableKept
  /\ RememberedOK /\ TracedOK /\ TriColour /\ SweepOK
-----------------------------------------------------------------------------
(* What can be reached.                                                    *)

(* Heap!ReachableFrom(from) holds "from", is closed, and is the least such *)
(* set.                                                                    *)
LEMMA Reached ==
  ASSUME NEW from \in SUBSET Objects, ref \in [Objects -> Objects \cup {Null}]
  PROVE  /\ from \subseteq Heap!ReachableFrom(from)
         /\ Heap!ReachableFrom(from) \subseteq Objects
         /\ \A o \in Heap!ReachableFrom(from) :
               ref[o] # Null => ref[o] \in Heap!ReachableFrom(from)
         /\ \A S \in SUBSET Objects :
               from \subseteq S /\ (\A o \in S : ref[o] \in S \cup {Null})
                 => Heap!ReachableFrom(from) \subseteq S
<1> DEFINE R == Heap!ReachableFrom(from)
<1>1. from \subseteq R /\ R \subseteq Objects
  BY DEF Heap!ReachableFrom
<1>2. ASSUME NEW o \in R, ref[o] # Null
      PROVE  ref[o] \in R
  <2>1. ASSUME NEW S \in SUBSET Objects, from \subseteq S, Heap!Closed(S)
        PROVE  ref[o] \in S
    <3>1. o \in S
      BY <1>2, <2>1 DEF Heap!ReachableFrom
    <3>. QED BY <1>2, <2>1, <3>1 DEF Heap!Closed
  <2>2. ref[o] \in Objects
    BY <1>1, <1>2
  <2>. QED BY <2>1, <2>2 DEF Heap!ReachableFrom
<1>3. ASSUME NEW S \in SUBSET Objects, from \subseteq S, \A o \in S : ref[o] \in S \cup {Null}
      PROVE  R \subseteq S
  BY <1>3 DEF Heap!ReachableFrom, Heap!Closed
<1>. QED BY <1>1, <1>2, <1>3

(* What the program can reach. *)
LEMMA ReachedByProgram ==
  ASSUME TypeOK
  PROVE  /\ roots \subseteq Reachable /\ Reachable \subseteq Objects
         /\ \A o \in Reachable : ref[o] # Null => ref[o] \in Reachable
         /\ \A S \in SUBSET Objects :
               roots \subseteq S /\ (\A o \in S : ref[o] \in S \cup {Null})
                 => Reachable \subseteq S
BY Reached DEF TypeOK, Reachable, Heap!Reachable

(* A set that holds the new roots and is closed under the new pointers     *)
(* bounds what can be reached after a step.                                *)
LEMMA ReachedNext ==
  ASSUME NEW S \in SUBSET Objects, roots' \subseteq S,
         \A o \in S : ref'[o] \in S \cup {Null}
  PROVE  Reachable' \subseteq S
BY DEF Reachable, Heap!Reachable, Heap!ReachableFrom, Heap!Closed

(* Only the program and the sweep write objects. *)
LEMMA HeapStays ==
  ASSUME ref' = ref
  PROVE  \A from : Heap!ReachableFrom(from)' = Heap!ReachableFrom(from)
BY DEF Heap!ReachableFrom, Heap!Closed

-----------------------------------------------------------------------------
(* Buffers.                                                                *)

(* The fields after each operation on one buffer. *)
LEMMA NewBufferFields ==
  /\ NewBuffer \in smal_buffer
  /\ ~ NewBuffer.record_remembered_set /\ ~ NewBuffer.remembered_set_valid
  /\ ~ NewBuffer.sweepable
BY DEF NewBuffer, smal_buffer

(* ... smal_buffer_alloc_object. *)
LEMMA AllocFields ==
  ASSUME NEW r \in smal_buffer
  PROVE  LET s == AllocObject(r) IN
         /\ s \in smal_buffer /\ s.mutation
         /\ s.markable = r.markable /\ s.sweepable = r.sweepable
         /\ s.record_remembered_set = r.record_remembered_set
         /\ s.remembered_set_valid = r.remembered_set_valid
         /\ s.remembered_set = r.remembered_set
BY DEF AllocObject, smal_buffer

(* ... a store, with or without a fault. *)
LEMMA FaultFields ==
  ASSUME NEW r \in smal_buffer
  PROVE  LET s == WriteFault(r) IN
         /\ s \in smal_buffer
         /\ s.mutation <=> (r.mutation \/ r.write_protect)
         /\ ~ s.write_protect
         /\ s.markable = r.markable /\ s.sweepable = r.sweepable
         /\ s.record_remembered_set = r.record_remembered_set
         /\ s.remembered_set_valid = r.remembered_set_valid
         /\ s.remembered_set = r.remembered_set
BY DEF WriteFault, smal_buffer

(* ... smal_buffer_before_mark. *)
LEMMA BeforeMarkFields ==
  ASSUME NEW b \in Buffers, NEW r \in smal_buffer
  PROVE  LET s == BeforeMark(b, r) IN
         /\ s \in smal_buffer
         /\ s.collection_n = (r.collection_n + 1) % collections_per_sweep[b]
         /\ s.sweepable <=> s.collection_n = 0
         /\ s.remembered_set_valid <=> (r.remembered_set_valid /\ ~ r.mutation)
         /\ s.markable <=> (s.sweepable \/ (b \in mostly_unchanging /\ ~ s.remembered_set_valid))
         /\ s.record_remembered_set <=>
               (r.record_remembered_set \/ (b \in mostly_unchanging /\ ~ s.remembered_set_valid))
         /\ ~ s.record_remembered_set => s.remembered_set = r.remembered_set
<1>1. (r.collection_n + 1) % collections_per_sweep[b] \in Nat
  BY CollectAssumption DEF smal_buffer
<1>. QED BY ZenonT(30), <1>1 DEF BeforeMark, smal_buffer

(* ... the sweep of the buffer, ... *)
LEMMA FinishFields ==
  ASSUME NEW r \in smal_buffer
  PROVE  LET s == FinishRemembered(r) IN
         /\ s \in smal_buffer /\ ~ s.record_remembered_set
         /\ s.remembered_set_valid <=> (r.remembered_set_valid \/ r.record_remembered_set)
         /\ s.mutation = r.mutation /\ s.sweepable = r.sweepable
         /\ s.remembered_set = r.remembered_set
BY DEF FinishRemembered, smal_buffer

(* ... and smal_buffer_clear_mutation. *)
LEMMA ClearFields ==
  ASSUME NEW b \in Buffers, NEW r \in smal_buffer
  PROVE  LET s == ClearMutation(b, r) IN
         /\ s \in smal_buffer
         /\ s.write_protect <=> (r.write_protect \/ b \in mostly_unchanging)
         /\ s.record_remembered_set = r.record_remembered_set
         /\ s.remembered_set_valid = r.remembered_set_valid
         /\ s.sweepable = r.sweepable /\ s.remembered_set = r.remembered_set
BY DEF ClearMutation, smal_buffer

-----------------------------------------------------------------------------
(* What any program leads to.  One lemma for each action.                  *)

(* Nothing is allocated. *)
LEMMA InitTyped == ASSUME Init PROVE TypedInv
BY NewBufferFields, CollectAssumption
   DEF Init, Heap!Init, TypedInv, TypeOK, PhaseOK, RecordOK, Justified, InMarking, Phases

(* The program stands still while marking runs. *)
LEMMA MutatorStops ==
  ASSUME phase \in MutatorPhases
  PROVE  phase \in {"idle", "sweep"} /\ ~ InMarking
BY CollectAssumption DEF InMarking

(* A step of the program on the buffer of "o": to be shown of each is that *)
(* types, tables and the fields recording depends on are right.            *)
LEMMA MutatorTyped ==
  ASSUME TypedInv, phase \in MutatorPhases,
         TypeOK', shared' => stale' = {}, unswept \subseteq buffer_table',
         \A b \in Buffers : buf'[b].record_remembered_set = buf[b].record_remembered_set,
         UNCHANGED <<phase, queue, unswept, sweeping>>
  PROVE  TypedInv'
<1>1. ~ InMarking /\ ~ InMarking'
  BY MutatorStops DEF InMarking
<1>2. PhaseOK'
  BY <1>1 DEF TypedInv, PhaseOK, InMarking
<1>3. RecordOK'
  BY <1>1 DEF TypedInv, RecordOK
<1>. QED BY <1>1, <1>2, <1>3 DEF TypedInv, Justified

(* smal_alloc. *)
LEMMA AllocTyped ==
  ASSUME TypedInv, NEW o \in Objects, smal_alloc(o)
  PROVE  TypedInv'
<1> DEFINE b == BufferOf[o]
<1>1. b \in Buffers /\ buf[b] \in smal_buffer
  BY CollectAssumption DEF TypedInv, TypeOK
<1>2. buf' = [buf EXCEPT ![b] = AllocObject(buf[b])] /\ AllocObject(buf[b]) \in smal_buffer
  BY <1>1, AllocFields DEF smal_alloc
<1>3. \A c \in Buffers : buf'[c].record_remembered_set = buf[c].record_remembered_set
  BY <1>1, <1>2, AllocFields DEF TypedInv, TypeOK
<1>4. /\ buffer_table' \subseteq Buffers /\ buffer_table_mark' \subseteq Buffers
      /\ buffer_table \subseteq buffer_table'
      /\ shared' \in BOOLEAN /\ stale' \subseteq buffer_table_mark' /\ (shared' => stale' = {})
  BY <1>1 DEF smal_alloc, TableAdd, tables, TypedInv, TypeOK, PhaseOK
<1>5. /\ allocated' \subseteq Objects /\ roots' \subseteq Objects
      /\ ref' \in [Objects -> Objects \cup {Null}] /\ marks' \subseteq Objects
  BY DEF smal_alloc, Heap!New, TypedInv, TypeOK
<1>6. phase \in MutatorPhases /\ UNCHANGED <<phase, queue, unswept, sweeping>>
  BY DEF smal_alloc, MutatorMay
<1>7. TypeOK'
  BY <1>1, <1>2, <1>4, <1>5, <1>6 DEF TypedInv, TypeOK
<1>8. unswept \subseteq buffer_table'
  BY <1>4 DEF TypedInv, TypeOK
<1>. QED BY <1>3, <1>4, <1>6, <1>7, <1>8, MutatorTyped

(* A store. *)
LEMMA StoreTyped ==
  ASSUME TypedInv, NEW o \in Objects, NEW v \in Objects \cup {Null}, Store(o, v)
  PROVE  TypedInv'
<1> DEFINE b == BufferOf[o]
<1>1. b \in Buffers /\ buf[b] \in smal_buffer
  BY CollectAssumption DEF TypedInv, TypeOK
<1>2. buf' = [buf EXCEPT ![b] = WriteFault(buf[b])] /\ WriteFault(buf[b]) \in smal_buffer
  BY <1>1, FaultFields DEF Store, write_fault
<1>3. \A c \in Buffers : buf'[c].record_remembered_set = buf[c].record_remembered_set
  BY <1>1, <1>2, FaultFields DEF TypedInv, TypeOK
<1>4. /\ phase \in MutatorPhases
      /\ UNCHANGED <<allocated, roots, tables, marks, phase, queue, unswept, sweeping>>
      /\ ref' \in [Objects -> Objects \cup {Null}]
  BY DEF Store, Heap!Store, MutatorMay, TypedInv, TypeOK
<1>5. TypeOK'
  BY <1>1, <1>2, <1>4 DEF TypedInv, TypeOK, tables
<1>. QED BY <1>3, <1>4, <1>5, MutatorTyped DEF TypedInv, TypeOK, PhaseOK, tables

(* The program follows a pointer, or drops one. *)
LEMMA RootsTyped ==
  ASSUME TypedInv, NEW o \in Objects, Load(o) \/ Forget(o)
  PROVE  TypedInv'
<1>1. /\ phase \in MutatorPhases /\ roots' \subseteq Objects
      /\ UNCHANGED <<allocated, ref, tables, buf, marks, phase, queue, unswept, sweeping>>
  BY DEF Load, Forget, Heap!Load, Heap!Forget, TypedInv, TypeOK
<1>2. TypeOK'
  BY <1>1 DEF TypedInv, TypeOK, tables
<1>. QED BY <1>1, <1>2, MutatorTyped DEF TypedInv, TypeOK, PhaseOK, tables

(* The pointers of the valid sets are the same, as long as these are.      *)
LEMMA RememberedPtrsStay ==
  ASSUME NEW bs, bs' = bs,
         \A b \in bs : /\ buf'[b].remembered_set_valid = buf[b].remembered_set_valid
                       /\ buf[b].remembered_set_valid =>
                            buf'[b].remembered_set = buf[b].remembered_set
  PROVE  RememberedPtrs(bs)' = RememberedPtrs(bs)
BY DEF RememberedPtrs

(* They are objects. *)
LEMMA ReasonsOK ==
  ASSUME TypeOK
  PROVE  /\ RememberedPtrs(unswept) \subseteq Objects
         /\ roots \cup RememberedPtrs(unswept) \subseteq Reasons
         /\ Reasons \subseteq Objects
         /\ \A o \in Reasons : ref[o] # Null => ref[o] \in Reasons
<1>1. \A b \in unswept : buf[b].remembered_set \subseteq Objects
  BY DEF TypeOK, smal_buffer
<1>2. RememberedPtrs(unswept) \subseteq Objects
  BY <1>1 DEF RememberedPtrs
<1>3. roots \cup RememberedPtrs(unswept) \in SUBSET Objects
  BY <1>2 DEF TypeOK
<1>4. ref \in [Objects -> Objects \cup {Null}]
  BY DEF TypeOK
<1>. QED BY <1>2, <1>3, <1>4, Reached DEF Reasons

(* _smal_collect_inner begins. *)
LEMMA BeginTyped == ASSUME TypedInv, BeginCollect PROVE TypedInv'
<1>1. /\ phase = "idle" /\ phase' = "mark_roots" /\ InMarking'
      /\ unswept = {} /\ sweeping = NoBuffer /\ sweeping' = NoBuffer
      /\ unswept' = buffer_table
      /\ UNCHANGED <<allocated, ref, roots, buffer_table, buffer_table_mark, shared, stale>>
  BY DEF BeginCollect, TypedInv, TypeOK, PhaseOK, InMarking, heap, tables
<1>2. \A b \in Buffers : buf'[b] = IF b \in buffer_table THEN BeforeMark(b, buf[b]) ELSE buf[b]
  BY DEF BeginCollect
<1>3. \A b \in Buffers : buf[b] \in smal_buffer /\ BeforeMark(b, buf[b]) \in smal_buffer
  BY BeforeMarkFields DEF TypedInv, TypeOK
<1>4. buf' \in [Buffers -> smal_buffer]
  BY <1>3 DEF BeginCollect
<1>5. marks' = {o \in marks : ~ buf'[BufferOf[o]].markable} /\ queue' = {Null} \X roots
  BY DEF BeginCollect, ClearedMarks
<1>6. TypeOK'
  BY <1>1, <1>4, <1>5 DEF TypedInv, TypeOK, Phases
<1>7. PhaseOK'
  BY <1>1 DEF TypedInv, PhaseOK, InMarking
<1>8. RecordOK'
  <2>. SUFFICES ASSUME NEW b \in Buffers, buf'[b].record_remembered_set
                PROVE  b \in buffer_table /\ b # NoBuffer /\ ~ buf'[b].remembered_set_valid
    BY <1>1 DEF RecordOK
  <2>1. ~ buf[b].record_remembered_set
    BY <1>1 DEF TypedInv, RecordOK
  <2>2. b \in buffer_table /\ buf'[b] = BeforeMark(b, buf[b])
    BY <1>2, <2>1
  <2>3. b \in mostly_unchanging /\ ~ BeforeMark(b, buf[b]).remembered_set_valid
    BY <1>3, <2>1, <2>2, BeforeMarkFields
  <2>. QED BY <2>2, <2>3, CollectAssumption
<1>9. Justified'
  <2>1. roots' \subseteq Reasons'
    BY <1>6 DEF Reasons, Heap!ReachableFrom, TypeOK
  <2>2. \A e \in queue' : e[2] \in roots'
    BY <1>1, <1>5
  <2>. QED BY <1>5, <2>1, <2>2 DEF Justified
<1>. QED BY <1>6, <1>7, <1>8, <1>9 DEF TypedInv

(* What _smal_buffer_mark_ptr does to the buffers: it adds p to the set of *)
(* the referrer's buffer, if that is recording.                            *)
LEMMA RememberFields ==
  ASSUME TypeOK, NEW referrer \in Objects \cup {Null}, NEW p \in Objects,
         buf' = Remember(referrer, p)
  PROVE  /\ buf' \in [Buffers -> smal_buffer]
         /\ \A b \in Buffers :
              /\ buf'[b].markable = buf[b].markable
              /\ buf'[b].sweepable = buf[b].sweepable
              /\ buf'[b].mutation = buf[b].mutation
              /\ buf'[b].write_protect = buf[b].write_protect
              /\ buf'[b].record_remembered_set = buf[b].record_remembered_set
              /\ buf'[b].remembered_set_valid = buf[b].remembered_set_valid
              /\ buf[b].remembered_set \subseteq buf'[b].remembered_set
              /\ ~ buf[b].record_remembered_set => buf'[b].remembered_set = buf[b].remembered_set
              /\ referrer \in ObjectsIn(b) /\ buf[b].record_remembered_set /\ BufferOf[p] # b
                   => p \in buf'[b].remembered_set
<1>1. CASE referrer = Null
  BY <1>1, CollectAssumption DEF Remember, ObjectsIn, TypeOK
<1>2. CASE referrer # Null
  <2> DEFINE rb == BufferOf[referrer]
  <2>1. rb \in Buffers /\ buf[rb] \in smal_buffer
    BY <1>2, CollectAssumption DEF TypeOK
  <2>2. CASE buf[rb].record_remembered_set /\ rb # BufferOf[p]
    <3>1. buf' = [buf EXCEPT ![rb] = [buf[rb] EXCEPT !.remembered_set = @ \cup {p}]]
      BY <1>2, <2>2 DEF Remember
    <3>2. [buf[rb] EXCEPT !.remembered_set = @ \cup {p}] \in smal_buffer
      BY <2>1 DEF smal_buffer
    <3>3. \A b \in Buffers : b # rb => buf'[b] = buf[b]
      BY <3>1 DEF TypeOK
    <3>4. buf'[rb] = [buf[rb] EXCEPT !.remembered_set = @ \cup {p}]
      BY <2>1, <3>1 DEF TypeOK
    <3>. QED BY <2>1, <2>2, <3>1, <3>2, <3>3, <3>4 DEF TypeOK, ObjectsIn, smal_buffer
  <2>3. CASE ~ (buf[rb].record_remembered_set /\ rb # BufferOf[p])
    BY <1>2, <2>3 DEF Remember, ObjectsIn, TypeOK
  <2>. QED BY <2>2, <2>3
<1>. QED BY <1>1, <1>2

(* The two outcomes of the look-up. *)
Marks(referrer, p) ==
  /\ buf' = Remember(referrer, p)
  /\ marks' = marks \cup {p}
  /\ queue' = (queue \ {<<referrer, p>>}) \cup MarkFunc(p)

Misses(referrer, p) ==
  queue' = queue \ {<<referrer, p>>} /\ UNCHANGED <<buf, marks>>

(* mark_ptr finds the object and marks it, or misses it.                  *)
LEMMA MarkPtrCases ==
  ASSUME TypedInv, NEW referrer \in Objects \cup {Null}, NEW p \in Objects,
         MarkPtr(referrer, p)
  PROVE  /\ <<referrer, p>> \in queue /\ InMarking
         /\ UNCHANGED <<heap, tables, phase, unswept, sweeping>>
         /\ \/ Marks(referrer, p)
            \/ Misses(referrer, p) /\ ~ (BufferOf[p] \in buffer_table_mark /\ stale = {})
<1>1. /\ <<referrer, p>> \in queue
      /\ UNCHANGED <<heap, tables, phase, unswept, sweeping>>
  BY DEF MarkPtr
<1>2. InMarking
  BY <1>1 DEF TypedInv, TypeOK, PhaseOK, InMarking, Phases
<1>3. PICK found \in FoundInMarkTable(BufferOf[p]) :
        IF found THEN Marks(referrer, p) ELSE Misses(referrer, p)
  BY DEF MarkPtr, Marks, Misses
<1>4. CASE found
  BY <1>1, <1>2, <1>3, <1>4
<1>5. CASE ~ found
  <2>1. ~ (BufferOf[p] \in buffer_table_mark /\ stale = {})
    BY <1>5 DEF FoundInMarkTable
  <2>. QED BY <1>1, <1>2, <1>3, <1>5, <2>1
<1>. QED BY <1>4, <1>5

(* A pointer from the queue. *)
LEMMA MarkPtrTyped ==
  ASSUME TypedInv, NEW referrer \in Objects \cup {Null}, NEW p \in Objects,
         MarkPtr(referrer, p)
  PROVE  TypedInv'
<1>1. /\ <<referrer, p>> \in queue /\ InMarking
      /\ UNCHANGED <<allocated, ref, roots, buffer_table, buffer_table_mark, shared, stale,
                     phase, unswept, sweeping>>
      /\ Marks(referrer, p) \/ Misses(referrer, p)
  BY MarkPtrCases DEF heap, tables
<1>2. /\ buf' \in [Buffers -> smal_buffer]
      /\ \A b \in Buffers :
           /\ buf'[b].markable = buf[b].markable
           /\ buf'[b].record_remembered_set = buf[b].record_remembered_set
           /\ buf'[b].remembered_set_valid = buf[b].remembered_set_valid
           /\ ~ buf[b].record_remembered_set => buf'[b].remembered_set = buf[b].remembered_set
  BY <1>1, RememberFields DEF TypedInv, TypeOK, Marks, Misses
<1>3. p \in Reasons /\ (ref[p] # Null => ref[p] \in Reasons /\ ref[p] \in Objects)
  BY <1>1, ReasonsOK DEF TypedInv, Justified, TypeOK
<1>4. MarkFunc(p) \subseteq {<<p, ref[p]>>} /\ (ref[p] = Null => MarkFunc(p) = {})
  BY DEF MarkFunc
<1>5. /\ marks' \subseteq marks \cup {p}
      /\ queue' \subseteq queue \cup MarkFunc(p)
  BY <1>1 DEF Marks, Misses
<1>6. TypeOK'
  BY <1>1, <1>2, <1>3, <1>4, <1>5 DEF TypedInv, TypeOK
<1>7. PhaseOK'
  BY <1>1 DEF TypedInv, PhaseOK, InMarking
<1>8. RecordOK'
  BY <1>1, <1>2 DEF TypedInv, RecordOK, InMarking
<1>9. Justified'
  <2>1. \A b \in unswept : ~ buf[b].record_remembered_set \/ ~ buf[b].remembered_set_valid
    BY <1>1 DEF TypedInv, TypeOK, RecordOK
  <2>2. RememberedPtrs(unswept') = RememberedPtrs(unswept)
    BY <1>1
  <2>3. RememberedPtrs(unswept)' = RememberedPtrs(unswept)
    BY <1>1, <1>2, <2>1, RememberedPtrsStay DEF TypedInv, TypeOK
  <2>4. Reasons' = Reasons
    BY <1>1, <2>3, HeapStays DEF Reasons
  <2>5. \A o \in Objects : BufferOf[o] \in Buffers
    BY CollectAssumption
  <2>6. \A o \in marks' : buf'[BufferOf[o]].markable => o \in Reasons
    BY <1>1, <1>2, <1>3, <1>5, <2>5 DEF TypedInv, TypeOK, Justified
  <2>7. \A e \in queue' : e[2] \in Reasons
    BY <1>1, <1>3, <1>4, <1>5 DEF TypedInv, Justified
  <2>. QED BY <2>4, <2>6, <2>7 DEF Justified
<1>. QED BY <1>6, <1>7, <1>8, <1>9 DEF TypedInv

(* The valid sets are queued. *)
LEMMA MarkRememberedTyped == ASSUME TypedInv, MarkRemembered PROVE TypedInv'
<1>1. /\ phase = "mark_roots" /\ phase' = "mark_remembered"
      /\ queue' = {Null} \X RememberedPtrs(unswept)
      /\ UNCHANGED <<allocated, ref, roots, buffer_table, buffer_table_mark, shared, stale,
                     buf, marks, unswept, sweeping>>
  BY DEF MarkRemembered, heap, tables
<1>2. TypeOK'
  BY <1>1, ReasonsOK DEF TypedInv, TypeOK, Phases
<1>3. PhaseOK' /\ RecordOK'
  BY <1>1 DEF TypedInv, PhaseOK, RecordOK, InMarking
<1>4. Reasons' = Reasons
  BY <1>1, HeapStays DEF Reasons, RememberedPtrs
<1>5. \A e \in queue' : e[2] \in Reasons
  BY <1>1, ReasonsOK DEF TypedInv
<1>6. Justified'
  BY <1>1, <1>4, <1>5 DEF TypedInv, Justified, InMarking
<1>. QED BY <1>2, <1>3, <1>6 DEF TypedInv

(* Marking is over, or the collection. *)
LEMMA EndTyped == ASSUME TypedInv, EndMark \/ EndCollect PROVE TypedInv'
<1>1. /\ UNCHANGED <<allocated, ref, roots, buffer_table, buffer_table_mark, shared, stale,
                     buf, marks, queue, unswept, sweeping>>
      /\ queue = {} /\ ~ InMarking'
      /\ \/ phase' = "sweep"
         \/ phase' = "idle" /\ unswept = {}
  BY DEF EndMark, EndCollect, heap, tables, TypedInv, PhaseOK, InMarking
<1>2. TypeOK'
  BY <1>1 DEF TypedInv, TypeOK, Phases
<1>3. PhaseOK'
  BY <1>1 DEF TypedInv, TypeOK, PhaseOK, InMarking
<1>4. RecordOK'
  BY <1>1 DEF TypedInv, RecordOK
<1>. QED BY <1>1, <1>2, <1>3, <1>4 DEF TypedInv, Justified

(* The buffer the sweep is at is one of the collection. *)
LEMMA SweepingBuffer ==
  ASSUME TypedInv, sweeping # NoBuffer
  PROVE  /\ phase = "sweep" /\ ~ InMarking
         /\ sweeping \in unswept /\ sweeping \in buffer_table /\ sweeping \in Buffers
         /\ buf[sweeping] \in smal_buffer
BY DEF TypedInv, TypeOK, PhaseOK, InMarking

(* The sweep of a buffer begins. *)
LEMMA SweepTyped ==
  ASSUME TypedInv, NEW b \in Buffers, Sweep(b)
  PROVE  TypedInv'
<1>1. /\ phase = "sweep" /\ phase' = "sweep" /\ ~ InMarking'
      /\ b \in unswept /\ sweeping = NoBuffer /\ sweeping' = b
      /\ buf' = [buf EXCEPT ![b] = FinishRemembered(buf[b])]
      /\ allocated' \subseteq allocated
      /\ ref' = [o \in Objects |-> IF o \in Freed(b) THEN Null ELSE ref[o]]
      /\ UNCHANGED <<roots, buffer_table, buffer_table_mark, shared, stale,
                     marks, queue, unswept>>
  BY DEF Sweep, tables, InMarking
<1>2. FinishRemembered(buf[b]) \in smal_buffer /\ ~ FinishRemembered(buf[b]).record_remembered_set
  BY FinishFields DEF TypedInv, TypeOK
<1>3. ref' \in [Objects -> Objects \cup {Null}]
  BY <1>1 DEF TypedInv, TypeOK
<1>4. TypeOK'
  BY <1>1, <1>2, <1>3 DEF TypedInv, TypeOK, Phases
<1>5. PhaseOK'
  BY <1>1 DEF TypedInv, PhaseOK, InMarking
<1>6. \A c \in Buffers : buf'[c] = IF c = b THEN FinishRemembered(buf[b]) ELSE buf[c]
  BY <1>1 DEF TypedInv, TypeOK
<1>7. RecordOK'
  BY <1>1, <1>2, <1>6 DEF TypedInv, RecordOK
<1>. QED BY <1>1, <1>4, <1>5, <1>7 DEF TypedInv, Justified

(* Allocations resume. *)
LEMMA ResumeTyped == ASSUME TypedInv, SweepResume PROVE TypedInv'
<1>1. /\ sweeping # NoBuffer
      /\ buf' = [buf EXCEPT ![sweeping].alloc_disabled = FALSE]
      /\ UNCHANGED <<allocated, ref, roots, buffer_table, buffer_table_mark, shared, stale,
                     marks, phase, queue, unswept, sweeping>>
  BY DEF SweepResume, heap, tables
<1>2. /\ buf' \in [Buffers -> smal_buffer]
      /\ \A b \in Buffers : buf'[b].record_remembered_set = buf[b].record_remembered_set
  BY <1>1, SweepingBuffer DEF TypedInv, TypeOK, smal_buffer
<1>3. TypeOK' /\ PhaseOK' /\ RecordOK'
  BY <1>1, <1>2, SweepingBuffer DEF TypedInv, TypeOK, PhaseOK, RecordOK, InMarking
<1>. QED BY <1>1, <1>3, SweepingBuffer DEF TypedInv, Justified, InMarking

(* smal_buffer_clear_mutation. *)
LEMMA ClearTyped == ASSUME TypedInv, SweepClearMutation PROVE TypedInv'
<1>1. /\ sweeping # NoBuffer /\ sweeping' = NoBuffer /\ unswept' = unswept \ {sweeping}
      /\ buf' = [buf EXCEPT ![sweeping] = ClearMutation(sweeping, buf[sweeping])]
      /\ UNCHANGED <<allocated, ref, roots, buffer_table, buffer_table_mark, shared, stale,
                     marks, phase, queue>>
  BY DEF SweepClearMutation, heap, tables
<1>2. /\ buf' \in [Buffers -> smal_buffer]
      /\ \A b \in Buffers : buf'[b].record_remembered_set = buf[b].record_remembered_set
  BY <1>1, SweepingBuffer, ClearFields DEF TypedInv, TypeOK
<1>3. TypeOK'
  BY <1>1, <1>2 DEF TypedInv, TypeOK
<1>4. PhaseOK' /\ RecordOK'
  BY <1>1, <1>2, SweepingBuffer, CollectAssumption
     DEF TypedInv, TypeOK, PhaseOK, RecordOK, InMarking
<1>. QED BY <1>1, <1>3, <1>4, SweepingBuffer DEF TypedInv, Justified, InMarking

(* smal_buffer_free. *)
LEMMA UnmapTyped == ASSUME TypedInv, SweepUnmap PROVE TypedInv'
<1>1. /\ sweeping # NoBuffer /\ sweeping' = NoBuffer /\ unswept' = unswept \ {sweeping}
      /\ buf' = [buf EXCEPT ![sweeping] = NewBuffer]
      /\ buffer_table' = buffer_table \ {sweeping}
      /\ marks' = marks \ ObjectsIn(sweeping)
      /\ UNCHANGED <<allocated, ref, roots, shared, phase, queue>>
      /\ IF shared
         THEN buffer_table_mark' = buffer_table_mark \ {sweeping} /\ stale' = stale
         ELSE /\ stale' = stale \cup ({sweeping} \cap buffer_table_mark)
              /\ buffer_table_mark' = buffer_table_mark
  BY DEF SweepUnmap, heap
<1>2. /\ buf' \in [Buffers -> smal_buffer]
      /\ \A b \in Buffers : buf'[b] = IF b = sweeping THEN NewBuffer ELSE buf[b]
  BY <1>1, SweepingBuffer, NewBufferFields DEF TypedInv, TypeOK
<1>3. buffer_table_mark' \subseteq Buffers /\ stale' \subseteq buffer_table_mark'
        /\ (shared' => stale' = {})
  BY <1>1 DEF TypedInv, TypeOK, PhaseOK
<1>4. TypeOK'
  BY <1>1, <1>2, <1>3 DEF TypedInv, TypeOK
<1>5. PhaseOK'
  BY <1>1, <1>3, SweepingBuffer DEF TypedInv, PhaseOK, InMarking
<1>6. RecordOK'
  BY <1>1, <1>2, SweepingBuffer, NewBufferFields, CollectAssumption
     DEF TypedInv, TypeOK, RecordOK, InMarking
<1>. QED BY <1>1, <1>4, <1>5, <1>6, SweepingBuffer DEF TypedInv, Justified, InMarking

(* A step that changes nothing. *)
LEMMA StutterTyped == ASSUME TypedInv, UNCHANGED vars PROVE TypedInv'
BY DEF vars, heap, tables, TypedInv, TypeOK, PhaseOK, RecordOK, Justified, InMarking, Reasons,
       RememberedPtrs, Heap!ReachableFrom, Heap!Closed

(* Every step. *)
LEMMA StepTyped == ASSUME TypedInv, [Next]_vars PROVE TypedInv'
<1>1. CASE Mutator
  BY <1>1, AllocTyped, StoreTyped, RootsTyped DEF Mutator
<1>2. CASE BeginCollect
  BY <1>2, BeginTyped
<1>3. CASE Marking
  BY <1>3, MarkPtrTyped, MarkRememberedTyped, EndTyped DEF Marking
<1>4. CASE Sweeping
  BY <1>4, SweepTyped, ResumeTyped, ClearTyped, UnmapTyped, EndTyped DEF Sweeping
<1>5. CASE UNCHANGED vars
  BY <1>5, StutterTyped
<1>. QED BY <1>1, <1>2, <1>3, <1>4, <1>5 DEF Next

(* TypedInv holds of every program, careful or not. *)
THEOREM TypedInvariant == Spec => []TypedInv
<1>1. Init => TypedInv
  BY InitTyped
<1>2. TypedInv /\ [Next]_vars => TypedInv'
  BY StepTyped
<1>. QED BY <1>1, <1>2, PTL DEF Spec

(* The collector's variables have their types, the entries of freed        *)
(* buffers included, whenever the program runs.                            *)
THEOREM TypeCorrect == Spec => []TypeOK
<1>1. TypedInv => TypeOK
  BY DEF TypedInv
<1>. QED BY <1>1, TypedInvariant, PTL

(* _smal_buffer_mark_ptr marks nothing in a traced buffer that does not    *)
(* follow from a root or from a remembered set that is trusted.            *)
THEOREM MarksAreJustified == Spec => []MarksJustified
<1>1. TypedInv => MarksJustified
  BY DEF TypedInv, Justified, InMarking, Reasons, MarksJustified
<1>. QED BY <1>1, TypedInvariant, PTL

-----------------------------------------------------------------------------
(* What a careful program leads to.                                        *)

(* Nothing is allocated. *)
LEMMA InitSafe == ASSUME Init PROVE IInv
<1>1. /\ allocated = {} /\ roots = {} /\ marks = {} /\ sweeping = NoBuffer
      /\ phase = "idle" /\ shared /\ buffer_table = {} /\ buffer_table_mark = {}
      /\ \A b \in Buffers : buf[b] = NewBuffer
      /\ ref \in [Objects -> Objects \cup {Null}]
  BY DEF Init, Heap!Init
<1>2. TypedInv
  BY InitTyped
<1>3. Reachable = {}
  BY <1>1, <1>2, ReachedByProgram DEF TypedInv
<1>4. TablesOK /\ ReachableKept /\ TracedOK /\ TriColour /\ SweepOK
  BY <1>1, <1>3 DEF TablesOK, ReachableKept, TracedOK, TriColour, SweepOK, InMarking
<1>5. RememberedOK
  BY <1>1, NewBufferFields DEF RememberedOK
<1>. QED BY <1>2, <1>4, <1>5 DEF IInv

(* An object that is written nowhere stays reached from the same roots. *)
LEMMA ReachableStays ==
  ASSUME UNCHANGED heap
  PROVE  Reachable' = Reachable
BY HeapStays DEF heap, Reachable, Heap!Reachable

(* A complete set stays complete. *)
LEMMA CompleteStays ==
  ASSUME NEW b \in Buffers, Complete(b),
         Reachable' \cap ObjectsIn(b) \subseteq Reachable,
         \A o \in Reachable \cap ObjectsIn(b) : ref'[o] = ref[o],
         buf[b].remembered_set \subseteq buf'[b].remembered_set
  PROVE  Complete(b)'
BY DEF Complete, ObjectsIn

(* What a step of the program may do to the buffer of page c: nothing, or  *)
(* write to a page it may write to, which then notes the mutation.         *)
Untouched(c) ==
  /\ buf'[c] = buf[c]
  /\ Reachable' \cap ObjectsIn(c) \subseteq Reachable
  /\ \A o \in Reachable \cap ObjectsIn(c) : ref'[o] = ref[o]

Written(c) ==
  /\ phase = "sweep" => c \notin mostly_unchanging
  /\ phase = "idle" /\ buf[c].remembered_set_valid => buf'[c].mutation

SameFields(c) ==
  /\ buf'[c].remembered_set_valid = buf[c].remembered_set_valid
  /\ buf'[c].record_remembered_set = buf[c].record_remembered_set
  /\ buf'[c].sweepable = buf[c].sweepable
  /\ buf'[c].remembered_set = buf[c].remembered_set

(* A step of the program that adds the objects of N. *)
MutatorStep(N) ==
  /\ phase \in MutatorPhases
  /\ UNCHANGED <<phase, unswept, sweeping>> /\ buffer_table \subseteq buffer_table'
  /\ Reachable' \subseteq Reachable \cup N /\ allocated' = allocated \cup N
  /\ marks \subseteq marks' /\ (phase = "sweep" => N \subseteq marks')
  /\ \A c \in Buffers : SameFields(c) /\ (Untouched(c) \/ Written(c))

(* Such a step loses nothing. *)
LEMMA MutatorSafe ==
  ASSUME IInv, TypedInv', TablesOK', NEW N \in SUBSET Objects, MutatorStep(N)
  PROVE  IInv'
<1>1. phase \in {"idle", "sweep"} /\ ~ InMarking /\ ~ InMarking'
  BY MutatorStops DEF InMarking, MutatorStep
<1>2. ReachableKept'
  BY DEF IInv, ReachableKept, MutatorStep
<1>3. TracedOK' /\ TriColour'
  BY <1>1 DEF TracedOK, TriColour
<1>4. RememberedOK'
  <2>. SUFFICES ASSUME NEW c \in Buffers
                PROVE  /\ buf'[c].remembered_set_valid \/ buf'[c].record_remembered_set =>
                            c \in mostly_unchanging /\ c \in buffer_table'
                       /\ buf'[c].remembered_set_valid =>
                            Complete(c)' \/ (phase' = "idle" /\ buf'[c].mutation)
                       /\ phase' = "sweep" /\ buf'[c].record_remembered_set => Complete(c)'
                       /\ c \notin unswept' /\ buf'[c].remembered_set_valid
                            /\ ~ buf'[c].mutation => buf'[c].write_protect
    BY DEF RememberedOK
  <2>1. CASE Untouched(c)
    <3>1. Complete(c) => Complete(c)'
      BY <2>1, CompleteStays DEF Untouched
    <3>. QED BY <1>1, <2>1, <3>1 DEF IInv, RememberedOK, MutatorStep, Untouched
  <2>2. CASE Written(c)
    <3>1. SameFields(c)
      BY DEF MutatorStep
    <3>. QED BY <1>1, <2>2, <3>1 DEF IInv, RememberedOK, MutatorStep, Written, SameFields
  <2>. QED BY <2>1, <2>2 DEF MutatorStep
<1>5. SweepOK'
  <2>1. \A o \in Objects : BufferOf[o] \in Buffers
    BY CollectAssumption
  <2>2. Reachable \subseteq Objects
    BY ReachedByProgram DEF IInv, TypedInv
  <2>3. phase = "sweep" =>
          \A o \in Reachable' : buf'[BufferOf[o]].sweepable => o \in marks'
    BY <2>1, <2>2 DEF IInv, SweepOK, MutatorStep, SameFields
  <2>4. sweeping # NoBuffer =>
          (buf'[sweeping].sweepable => allocated' \cap ObjectsIn(sweeping) \subseteq marks')
    BY SweepingBuffer DEF IInv, SweepOK, MutatorStep, SameFields
  <2>. QED BY <2>3, <2>4 DEF SweepOK, ObjectsIn, MutatorStep
<1>. QED BY <1>2, <1>3, <1>4, <1>5 DEF IInv

(* When a careful program may write to a page. *)
LEMMA CarefulWrites ==
  ASSUME Careful, NEW b, MutatorMay(b)
  PROVE  /\ phase \in MutatorPhases
         /\ phase = "sweep" => b \notin mostly_unchanging
BY DEF Careful, MutatorMay

(* smal_alloc. *)
LEMMA AllocSafe ==
  ASSUME Careful, IInv, NEW o \in Objects, smal_alloc(o)
  PROVE  IInv'
<1> DEFINE b == BufferOf[o]
<1>1. TypedInv' /\ TypeOK
  BY AllocTyped DEF IInv, TypedInv
<1>2. /\ phase \in MutatorPhases /\ phase \in {"idle", "sweep"}
      /\ phase = "sweep" => b \notin mostly_unchanging
      /\ UNCHANGED <<phase, unswept, sweeping>>
      /\ allocated' = allocated \cup {o} /\ roots' = roots \cup {o}
      /\ ref' = [ref EXCEPT ![o] = Null]
      /\ buf' = [buf EXCEPT ![b] = AllocObject(buf[b])]
      /\ marks' = IF phase # "idle" THEN marks \cup {o} ELSE marks
      /\ IF b \in buffer_table THEN UNCHANGED tables ELSE phase = "idle" /\ TableAdd(b)
  BY CarefulWrites, MutatorStops DEF smal_alloc, Heap!New, in_collect, Careful, MutatorMay
<1>3. b \in Buffers /\ buf[b] \in smal_buffer
  BY <1>1, CollectAssumption DEF TypeOK
<1>4. Reachable' \subseteq Reachable \cup {o}
  <2>1. /\ roots \subseteq Reachable /\ Reachable \subseteq Objects
        /\ \A x \in Reachable : ref[x] # Null => ref[x] \in Reachable
    BY <1>1, ReachedByProgram
  <2>2. \A x \in Reachable \cup {o} : ref'[x] \in (Reachable \cup {o}) \cup {Null}
    BY <1>1, <1>2, <2>1 DEF TypeOK
  <2>. QED BY ZenonT(30), <1>2, <2>1, <2>2, ReachedNext
<1>5. TablesOK' /\ buffer_table \subseteq buffer_table'
  <2>1. CASE b \in buffer_table
    BY <1>2, <2>1 DEF IInv, TablesOK, tables
  <2>2. CASE b \notin buffer_table
    BY <1>2, <2>2 DEF IInv, TablesOK, TableAdd, in_collect
  <2>. QED BY <2>1, <2>2
<1>6. ASSUME NEW c \in Buffers
      PROVE  SameFields(c) /\ (Untouched(c) \/ Written(c))
  <2>1. CASE c = b
    BY <1>1, <1>2, <1>3, <2>1, AllocFields DEF TypeOK, SameFields, Written
  <2>2. CASE c # b
    BY <1>1, <1>2, <1>4, <2>2 DEF TypeOK, ObjectsIn, SameFields, Untouched
  <2>. QED BY <2>1, <2>2
<1>7. marks \subseteq marks' /\ (phase = "sweep" => {o} \subseteq marks')
  BY <1>2
<1>8. MutatorStep({o})
  BY <1>2, <1>4, <1>5, <1>6, <1>7 DEF MutatorStep
<1>. QED BY <1>1, <1>5, <1>8, MutatorSafe

(* A store. *)
LEMMA StoreSafe ==
  ASSUME Careful, IInv, NEW o \in Objects, NEW v \in Objects \cup {Null}, Store(o, v)
  PROVE  IInv'
<1> DEFINE b == BufferOf[o]
<1>1. TypedInv' /\ TypeOK
  BY StoreTyped DEF IInv, TypedInv
<1>2. /\ phase \in MutatorPhases
      /\ phase = "sweep" => b \notin mostly_unchanging
      /\ UNCHANGED <<phase, unswept, sweeping, marks, allocated, roots, tables>>
      /\ v \in Reachable \cup {Null}
      /\ ref' = [ref EXCEPT ![o] = v]
      /\ buf' = [buf EXCEPT ![b] = WriteFault(buf[b])]
  BY CarefulWrites DEF Store, write_fault, Heap!Store, Reachable
<1>3. b \in Buffers /\ buf[b] \in smal_buffer
  BY <1>1, CollectAssumption DEF TypeOK
<1>4. Reachable' \subseteq Reachable
  <2>1. /\ roots \subseteq Reachable /\ Reachable \subseteq Objects
        /\ \A x \in Reachable : ref[x] # Null => ref[x] \in Reachable
    BY <1>1, ReachedByProgram
  <2>2. \A x \in Reachable : ref'[x] \in Reachable \cup {Null}
    BY <1>1, <1>2, <2>1 DEF TypeOK
  <2>. QED BY <1>2, <2>1, <2>2, ReachedNext
<1>5. TablesOK' /\ buffer_table \subseteq buffer_table'
  BY <1>2 DEF IInv, TablesOK, tables
<1>6. phase = "idle" /\ buf[b].remembered_set_valid => buf[b].mutation \/ buf[b].write_protect
  BY <1>3 DEF IInv, TypedInv, PhaseOK, RememberedOK, InMarking
<1>7. ASSUME NEW c \in Buffers
      PROVE  SameFields(c) /\ (Untouched(c) \/ Written(c))
  <2>1. CASE c = b
    <3>1. buf'[c] = WriteFault(buf[c])
      BY <1>1, <1>2, <1>3, <2>1 DEF TypeOK
    <3>2. SameFields(c)
      BY <1>3, <2>1, <3>1, FaultFields DEF SameFields
    <3>3. WriteFault(buf[c]).mutation <=> (buf[c].mutation \/ buf[c].write_protect)
      BY <1>3, <2>1, FaultFields
    <3>4. Written(c)
      BY <1>2, <1>6, <2>1, <3>1, <3>3, Zenon DEF Written
    <3>. QED BY <3>2, <3>4
  <2>2. CASE c # b
    BY <1>1, <1>2, <1>4, <2>2 DEF TypeOK, ObjectsIn, SameFields, Untouched
  <2>. QED BY <2>1, <2>2
<1>8. Reachable' \subseteq Reachable \cup {} /\ allocated' = allocated \cup {}
  BY <1>2, <1>4
<1>9. MutatorStep({})
  BY <1>2, <1>5, <1>7, <1>8 DEF MutatorStep
<1>. QED BY <1>1, <1>5, <1>9, MutatorSafe

(* The program follows a pointer, or drops one. *)
LEMMA RootsSafe ==
  ASSUME IInv, NEW o \in Objects, Load(o) \/ Forget(o)
  PROVE  IInv'
<1>1. TypedInv' /\ TypeOK
  BY RootsTyped DEF IInv, TypedInv
<1>2. /\ roots \subseteq Reachable /\ Reachable \subseteq Objects
      /\ \A x \in Reachable : ref[x] # Null => ref[x] \in Reachable
  BY <1>1, ReachedByProgram
<1>3. /\ phase \in MutatorPhases /\ roots' \subseteq Reachable
      /\ UNCHANGED <<allocated, ref, tables, buf, marks, phase, unswept, sweeping>>
  BY <1>2 DEF Load, Forget, Heap!Load, Heap!Forget, Reachable
<1>4. Reachable' \subseteq Reachable \cup {} /\ allocated' = allocated \cup {}
  BY <1>2, <1>3, ReachedNext
<1>5. TablesOK' /\ buffer_table \subseteq buffer_table'
  BY <1>3 DEF IInv, TablesOK, tables
<1>6. \A c \in Buffers : SameFields(c) /\ Untouched(c)
  BY <1>3, <1>4 DEF SameFields, Untouched
<1>7. MutatorStep({})
  BY <1>3, <1>4, <1>5, <1>6 DEF MutatorStep
<1>. QED BY <1>1, <1>5, <1>7, MutatorSafe

(* _smal_collect_inner begins: nothing in a traced buffer is marked, and   *)
(* the roots are queued.                                                   *)
LEMMA BeginSafe == ASSUME Careful, IInv, BeginCollect PROVE IInv'
<1>1. TypedInv' /\ TypeOK
  BY BeginTyped DEF IInv, TypedInv
<1>2. /\ phase = "idle" /\ phase' = "mark_roots" /\ InMarking' /\ ~ InMarking
      /\ unswept = {} /\ sweeping' = NoBuffer /\ unswept' = buffer_table
      /\ UNCHANGED heap /\ UNCHANGED <<allocated, ref, roots, buffer_table, buffer_table_mark, shared>>
      /\ queue' = {Null} \X roots
      /\ marks' = {o \in marks : ~ buf'[BufferOf[o]].markable}
  BY DEF BeginCollect, ClearedMarks, IInv, TypedInv, PhaseOK, InMarking, heap, tables
<1>3. \A b \in Buffers :
        /\ buf[b] \in smal_buffer /\ ~ buf[b].record_remembered_set
        /\ buf'[b] = IF b \in buffer_table THEN BeforeMark(b, buf[b]) ELSE buf[b]
  BY <1>1, <1>2 DEF BeginCollect, TypeOK, IInv, TypedInv, RecordOK
<1>4. Reachable' = Reachable
  BY <1>2, ReachableStays
<1>5. TablesOK' /\ ReachableKept'
  BY <1>2, <1>4 DEF IInv, TablesOK, ReachableKept
<1>6. ASSUME NEW b \in Buffers
      PROVE  /\ buf'[b].remembered_set_valid => Complete(b)'
             /\ buf'[b].remembered_set_valid \/ buf'[b].record_remembered_set =>
                  b \in mostly_unchanging /\ b \in buffer_table
             /\ b \in buffer_table =>
                  /\ buf'[b].sweepable \/ buf'[b].record_remembered_set => buf'[b].markable
                  /\ buf'[b].markable \/ buf'[b].remembered_set_valid
  <2>1. CASE b \in buffer_table
    <3> DEFINE s == BeforeMark(b, buf[b])
    <3>1. buf'[b] = s
      BY <1>3, <2>1
    <3>2. /\ s.remembered_set_valid => buf[b].remembered_set_valid /\ ~ buf[b].mutation
          /\ s.record_remembered_set <=> (b \in mostly_unchanging /\ ~ s.remembered_set_valid)
          /\ s.markable <=> (s.sweepable \/ s.record_remembered_set)
          /\ s.record_remembered_set \/ s.remembered_set = buf[b].remembered_set
      BY <1>3, BeforeMarkFields
    <3>3. b \notin mostly_unchanging => s.sweepable
      <4>. SUFFICES ASSUME b \notin mostly_unchanging PROVE s.sweepable
        OBVIOUS
      <4>1. collections_per_sweep[b] = 1
        BY DEF Careful
      <4>2. s.collection_n = (buf[b].collection_n + 1) % 1 /\ (s.sweepable <=> s.collection_n = 0)
        BY <1>3, <4>1, BeforeMarkFields
      <4>3. buf[b].collection_n \in Nat
        BY <1>3 DEF smal_buffer
      <4>. QED BY <4>2, <4>3
    <3> HIDE DEF s
    <3>4. s.remembered_set_valid => Complete(b) /\ b \in mostly_unchanging
      BY <1>2, <3>2 DEF IInv, RememberedOK
    <3>5. s.remembered_set_valid => Complete(b)'
      BY <1>2, <1>4, <3>1, <3>2, <3>4, CompleteStays
    <3>. QED BY <2>1, <3>1, <3>2, <3>3, <3>4, <3>5
  <2>2. CASE b \notin buffer_table
    BY <1>2, <1>3, <2>2 DEF IInv, RememberedOK
  <2>. QED BY <2>1, <2>2
<1>7. RememberedOK' /\ TracedOK'
  BY <1>1, <1>2, <1>6 DEF RememberedOK, TracedOK, TypedInv, TypeOK
<1>8. TriColour'
  <2>1. \A o \in roots : <<Null, o>> \in queue'
    BY <1>2
  <2>2. ASSUME NEW o \in marks'
        PROVE  ~ buf'[BufferOf[o]].markable /\ ~ buf'[BufferOf[o]].record_remembered_set
    <3>1. BufferOf[o] \in Buffers
      BY <1>1, CollectAssumption DEF TypedInv, TypeOK
    <3>. QED BY <1>2, <1>6, <3>1
  <2>. QED BY <1>2, <2>1, <2>2 DEF TriColour, Coming
<1>9. SweepOK'
  BY <1>2 DEF SweepOK
<1>. QED BY <1>1, <1>5, <1>7, <1>8, <1>9 DEF IInv

(* What can be reached is found. *)
LEMMA ReachableFound ==
  ASSUME IInv, NEW o \in Reachable
  PROVE  BufferOf[o] \in buffer_table_mark /\ BufferOf[o] \in buffer_table /\ stale = {}
BY DEF IInv, TypedInv, PhaseOK, TablesOK, ReachableKept

(* While marking runs, sets only grow and nothing else is written. *)
LEMMA MarkPtrBuffers ==
  ASSUME IInv, NEW referrer \in Objects \cup {Null}, NEW p \in Objects, MarkPtr(referrer, p)
  PROVE  \A b \in Buffers :
           /\ buf'[b].markable = buf[b].markable
           /\ buf'[b].sweepable = buf[b].sweepable
           /\ buf'[b].mutation = buf[b].mutation
           /\ buf'[b].write_protect = buf[b].write_protect
           /\ buf'[b].record_remembered_set = buf[b].record_remembered_set
           /\ buf'[b].remembered_set_valid = buf[b].remembered_set_valid
           /\ buf[b].remembered_set \subseteq buf'[b].remembered_set
           /\ buf[b].remembered_set_valid => buf'[b].remembered_set = buf[b].remembered_set
<1>1. Marks(referrer, p) \/ Misses(referrer, p)
  BY MarkPtrCases DEF IInv
<1>2. InMarking
  BY MarkPtrCases DEF IInv
<1>3. \A b \in Buffers : buf[b].remembered_set_valid => ~ buf[b].record_remembered_set
  BY <1>2 DEF IInv, TypedInv, RecordOK
<1>. QED BY <1>1, <1>3, RememberFields DEF IInv, TypedInv, Marks, Misses

(* Marking p keeps everything on its way. *)
LEMMA MarkPtrTriColour ==
  ASSUME IInv, NEW referrer \in Objects \cup {Null}, NEW p \in Objects, MarkPtr(referrer, p)
  PROVE  TriColour'
<1>1. /\ InMarking /\ UNCHANGED heap /\ UNCHANGED <<allocated, ref, roots, phase, unswept>>
      /\ \/ Marks(referrer, p)
         \/ Misses(referrer, p) /\ ~ (BufferOf[p] \in buffer_table_mark /\ stale = {})
  BY MarkPtrCases DEF IInv, heap
<1>2. Reachable' = Reachable
  BY <1>1, ReachableStays
<1>3. /\ roots \subseteq Reachable /\ Reachable \subseteq Objects
      /\ \A o \in Reachable : ref[o] # Null => ref[o] \in Reachable
  BY ReachedByProgram DEF IInv, TypedInv
<1>4. \A o \in Objects : BufferOf[o] \in Buffers
  BY CollectAssumption
(* What was on its way, and can be reached, still is or is marked.         *)
<1>5. ASSUME NEW r \in Objects \cup {Null}, NEW q \in Reachable, Coming(r, q)
      PROVE  \/ Coming(r, q)'
             \/ q \in marks' /\ r = referrer /\ q = p /\ Marks(referrer, p)
  <2>1. CASE r = referrer /\ q = p
    BY <1>1, <2>1, ReachableFound DEF Marks
  <2>2. CASE ~ (r = referrer /\ q = p)
    BY <1>1, <1>5, <2>2 DEF Coming, Marks, Misses
  <2>. QED BY <2>1, <2>2
<1>6. marks \subseteq marks'
  BY <1>1 DEF Marks, Misses
(* An object that is marked now has its pointer on its way.                *)
<1>7. ASSUME NEW o \in marks', o \notin marks, buf[BufferOf[o]].markable, ref[o] # Null
      PROVE  Coming(o, ref[o])'
  BY <1>1, <1>7 DEF Marks, Misses, MarkFunc, Coming
<1>8. \A o \in roots' : o \in marks' \/ Coming(Null, o)'
  BY <1>1, <1>3, <1>5, <1>6 DEF IInv, TriColour
<1>9. ASSUME NEW o \in marks' \cap Reachable, buf'[BufferOf[o]].markable, ref[o] # Null
      PROVE  ref[o] \in marks' \/ Coming(o, ref[o])'
  <2>1. buf[BufferOf[o]].markable
    BY <1>3, <1>4, <1>9, MarkPtrBuffers
  <2>2. CASE o \in marks
    BY <1>1, <1>3, <1>5, <1>6, <1>9, <2>1, <2>2 DEF IInv, TriColour
  <2>3. CASE o \notin marks
    BY <1>7, <1>9, <2>1, <2>3
  <2>. QED BY <2>2, <2>3
<1>10. ASSUME phase' = "mark_remembered", NEW o \in RememberedPtrs(unswept)' \cap Reachable
       PROVE  o \in marks' \/ Coming(Null, o)'
  <2>1. unswept \subseteq Buffers
    BY DEF IInv, TypedInv, TypeOK
  <2>2. RememberedPtrs(unswept)' = RememberedPtrs(unswept)
    BY <1>1, <2>1, MarkPtrBuffers, RememberedPtrsStay
  <2>. QED BY <1>1, <1>5, <1>6, <1>10, <2>2 DEF IInv, TriColour
<1>11. ASSUME NEW o \in marks' \cap Reachable, NEW b, b = BufferOf[o],
              buf'[b].record_remembered_set, ref[o] # Null, BufferOf[ref[o]] # b
       PROVE  ref[o] \in buf'[b].remembered_set \/ Coming(o, ref[o])'
  <2>1. /\ b \in Buffers /\ buf[b].record_remembered_set
        /\ buf[b].remembered_set \subseteq buf'[b].remembered_set
        /\ o \in Objects /\ ref[o] \in Reachable
    BY <1>3, <1>4, <1>11, MarkPtrBuffers
  <2>2. buf[b].markable
    BY <1>1, <2>1 DEF IInv, TracedOK, RememberedOK
  <2>3. CASE o \notin marks
    BY <1>7, <1>11, <2>2, <2>3
  <2>4. CASE o \in marks
    <3>1. ref[o] \in buf[b].remembered_set \/ Coming(o, ref[o])
      BY <1>1, <1>11, <2>1, <2>4 DEF IInv, TriColour
    <3>2. CASE Coming(o, ref[o]) /\ ~ Coming(o, ref[o])'
      <4>1. o = referrer /\ ref[o] = p /\ buf' = Remember(referrer, p)
        BY <1>1, <1>5, <2>1, <3>2 DEF Marks, Coming
      <4>2. p \in buf'[b].remembered_set
        BY <1>11, <2>1, <4>1, RememberFields DEF IInv, TypedInv, ObjectsIn
      <4>. QED BY <4>1, <4>2
    <3>. QED BY <2>1, <3>1, <3>2
  <2>. QED BY <2>3, <2>4
<1>. QED BY <1>1, <1>2, <1>8, <1>9, <1>10, <1>11 DEF TriColour

(* A pointer from the queue. *)
LEMMA MarkPtrSafe ==
  ASSUME IInv, NEW referrer \in Objects \cup {Null}, NEW p \in Objects, MarkPtr(referrer, p)
  PROVE  IInv'
<1>1. TypedInv' /\ TriColour'
  BY MarkPtrTyped, MarkPtrTriColour DEF IInv
<1>2. /\ InMarking /\ InMarking' /\ UNCHANGED heap
      /\ UNCHANGED <<allocated, ref, roots, phase, unswept, sweeping,
                     buffer_table, buffer_table_mark, shared>>
  BY MarkPtrCases DEF IInv, heap, tables, InMarking
<1>3. Reachable' = Reachable
  BY <1>2, ReachableStays
<1>4. TablesOK' /\ ReachableKept'
  BY <1>2, <1>3 DEF IInv, TablesOK, ReachableKept
<1>5. \A b \in Buffers : Complete(b) => Complete(b)'
  BY <1>2, <1>3, MarkPtrBuffers, CompleteStays
<1>6. RememberedOK'
  BY <1>2, <1>5, MarkPtrBuffers DEF IInv, RememberedOK, InMarking
<1>7. TracedOK'
  BY <1>2, MarkPtrBuffers DEF IInv, TracedOK, TypedInv, TypeOK
<1>8. SweepOK'
  BY <1>2 DEF IInv, TypedInv, PhaseOK, SweepOK, InMarking
<1>. QED BY <1>1, <1>4, <1>6, <1>7, <1>8 DEF IInv

(* A step of the collector between the marking of objects that leaves the  *)
(* heap, the tables and the buffers alone.                                 *)
LEMMA PhaseStep ==
  ASSUME IInv, UNCHANGED heap, UNCHANGED <<buffer_table, buffer_table_mark, shared>>
  PROVE  TablesOK' /\ ReachableKept' /\ Reachable' = Reachable
<1>1. Reachable' = Reachable
  BY ReachableStays
<1>. QED BY <1>1 DEF IInv, TablesOK, ReachableKept, heap

(* The valid sets are queued. *)
LEMMA MarkRememberedSafe == ASSUME IInv, MarkRemembered PROVE IInv'
<1>1. /\ phase = "mark_roots" /\ phase' = "mark_remembered" /\ queue = {}
      /\ queue' = {Null} \X RememberedPtrs(unswept)
      /\ UNCHANGED heap
      /\ UNCHANGED <<ref, roots, buffer_table, buffer_table_mark, shared,
                     buf, marks, unswept, sweeping>>
  BY DEF MarkRemembered, heap, tables
<1>2. TypedInv'
  BY <1>1, MarkRememberedTyped DEF IInv
<1>3. TablesOK' /\ ReachableKept' /\ Reachable' = Reachable
  BY <1>1, PhaseStep
<1>4. \A b \in Buffers : Complete(b) => Complete(b)'
  BY <1>1, <1>3, CompleteStays
<1>5. RememberedOK' /\ TracedOK' /\ SweepOK'
  BY <1>1, <1>4 DEF IInv, RememberedOK, TracedOK, SweepOK, TypedInv, PhaseOK, InMarking
<1>6. TriColour'
  <2>1. RememberedPtrs(unswept)' = RememberedPtrs(unswept)
    BY <1>1 DEF RememberedPtrs
  <2>2. \A o \in RememberedPtrs(unswept)' : Coming(Null, o)'
    BY <1>1, <2>1 DEF Coming
  <2>. QED BY <1>1, <1>3, <2>2 DEF IInv, TriColour, InMarking, Coming
<1>. QED BY <1>2, <1>3, <1>5, <1>6 DEF IInv

(* The argument for the whole: what can be reached and is marked, if it is *)
(* in a traced page, is closed, by the marks in traced pages and by the    *)
(* remembered sets in the others.                                          *)
LEMMA MarkedAll ==
  ASSUME IInv, phase = "mark_remembered", queue = {}
  PROVE  \A o \in Reachable : buf[BufferOf[o]].markable => o \in marks
<1> DEFINE S == {o \in Reachable : buf[BufferOf[o]].markable => o \in marks}
<1>1. /\ roots \subseteq Reachable /\ Reachable \subseteq Objects
      /\ \A o \in Reachable : ref[o] # Null => ref[o] \in Reachable
  BY ReachedByProgram DEF IInv, TypedInv
<1>2. InMarking /\ unswept = buffer_table
  BY DEF IInv, TypedInv, PhaseOK, InMarking
<1>3. roots \subseteq S
  BY <1>1, <1>2 DEF IInv, TriColour, Coming
<1>4. ASSUME NEW o \in S, ref[o] # Null
      PROVE  ref[o] \in S
  <2> DEFINE b == BufferOf[o]
  <2>1. b \in Buffers /\ b \in buffer_table /\ ref[o] \in Reachable
    BY <1>1, <1>4, ReachableFound, CollectAssumption
  <2>2. CASE buf[b].markable
    BY <1>2, <1>4, <2>1, <2>2 DEF IInv, TriColour, Coming
  <2>3. CASE ~ buf[b].markable
    <3>1. buf[b].remembered_set_valid
      BY <1>2, <2>1, <2>3 DEF IInv, TracedOK
    <3>2. CASE BufferOf[ref[o]] = b
      BY <2>1, <2>3, <3>2
    <3>3. CASE BufferOf[ref[o]] # b
      <4>1. Complete(b)
        BY <2>1, <3>1 DEF IInv, RememberedOK
      <4>2. ref[o] \in buf[b].remembered_set
        BY <1>1, <1>4, <3>3, <4>1 DEF Complete, ObjectsIn
      <4>3. ref[o] \in RememberedPtrs(unswept)
        BY <1>2, <2>1, <3>1, <4>2 DEF RememberedPtrs
      <4>. QED BY <1>2, <2>1, <4>3 DEF IInv, TriColour, Coming
    <3>. QED BY <3>2, <3>3
  <2>. QED BY <2>2, <2>3
<1>5. S \in SUBSET Objects /\ \A o \in S : ref[o] \in S \cup {Null}
  BY <1>1, <1>4
<1>6. Reachable \subseteq S
  BY <1>3, <1>5, ReachedByProgram DEF IInv, TypedInv
<1>. QED BY <1>6

(* Marking is over. *)
LEMMA EndMarkSafe == ASSUME IInv, EndMark PROVE IInv'
<1>1. /\ phase = "mark_remembered" /\ phase' = "sweep" /\ queue = {}
      /\ UNCHANGED heap
      /\ UNCHANGED <<ref, roots, buffer_table, buffer_table_mark, shared,
                     buf, marks, unswept, sweeping>>
      /\ InMarking /\ ~ InMarking' /\ unswept = buffer_table /\ sweeping = NoBuffer
  BY DEF EndMark, heap, tables, IInv, TypedInv, PhaseOK, InMarking
<1>2. TypedInv'
  BY <1>1, EndTyped DEF IInv
<1>3. TablesOK' /\ ReachableKept' /\ Reachable' = Reachable
  BY <1>1, PhaseStep
<1>4. \A o \in Reachable : buf[BufferOf[o]].markable => o \in marks
  BY <1>1, MarkedAll
<1>5. \A b \in Buffers : Complete(b) => Complete(b)'
  BY <1>1, <1>3, CompleteStays
<1>6. ASSUME NEW b \in Buffers, buf[b].record_remembered_set
      PROVE  Complete(b)
  <2>. SUFFICES ASSUME NEW o \in Reachable \cap ObjectsIn(b), ref[o] # Null, BufferOf[ref[o]] # b
                PROVE  ref[o] \in buf[b].remembered_set
    BY DEF Complete
  <2>1. BufferOf[o] = b
    BY DEF ObjectsIn
  <2>2. buf[b].markable
    BY <1>1, <1>6 DEF IInv, RememberedOK, TracedOK
  <2>3. o \in marks
    BY <1>4, <2>1, <2>2
  <2>. QED BY <1>1, <1>6, <2>1, <2>3 DEF IInv, TriColour, Coming
<1>7. RememberedOK'
  BY <1>1, <1>5, <1>6 DEF IInv, RememberedOK
<1>8. TracedOK' /\ TriColour'
  BY <1>1 DEF TracedOK, TriColour
<1>9. \A o \in Reachable : buf[BufferOf[o]].sweepable => o \in marks
  <2>1. ASSUME NEW o \in Reachable, buf[BufferOf[o]].sweepable
        PROVE  buf[BufferOf[o]].markable
    BY <1>1, <2>1, ReachableFound DEF IInv, TracedOK
  <2>. QED BY <1>4, <2>1
<1>10. SweepOK'
  BY <1>1, <1>3, <1>9 DEF SweepOK
<1>. QED BY <1>2, <1>3, <1>7, <1>8, <1>10 DEF IInv

(* The sweep frees nothing that can be reached. *)
LEMMA SweepFrees ==
  ASSUME IInv, NEW b \in Buffers, Sweep(b)
  PROVE  /\ Freed(b) \subseteq allocated \ Reachable
         /\ Reachable' \subseteq Reachable
         /\ \A o \in Reachable : ref'[o] = ref[o]
<1>1. /\ phase = "sweep" /\ roots' = roots
      /\ ref' = [o \in Objects |-> IF o \in Freed(b) THEN Null ELSE ref[o]]
  BY DEF Sweep
<1>2. Freed(b) \subseteq allocated \ Reachable
  BY <1>1 DEF IInv, SweepOK, Freed, ObjectsIn
<1>3. /\ roots \subseteq Reachable /\ Reachable \subseteq Objects
      /\ \A x \in Reachable : ref[x] # Null => ref[x] \in Reachable
  BY ReachedByProgram DEF IInv, TypedInv
<1>4. \A o \in Reachable : ref'[o] = ref[o]
  BY <1>1, <1>2, <1>3
<1>5. Reachable' \subseteq Reachable
  BY <1>1, <1>3, <1>4, ReachedNext
<1>. QED BY <1>2, <1>4, <1>5

(* The sweep of a buffer begins. *)
LEMMA SweepSafe ==
  ASSUME IInv, NEW b \in Buffers, Sweep(b)
  PROVE  IInv'
<1>1. /\ phase = "sweep" /\ phase' = "sweep" /\ ~ InMarking'
      /\ b \in unswept /\ sweeping' = b
      /\ allocated' = allocated \ Freed(b)
      /\ UNCHANGED <<roots, buffer_table, buffer_table_mark, shared, marks, unswept>>
  BY DEF Sweep, tables, InMarking
<1>2. TypedInv'
  BY SweepTyped DEF IInv
<1>3. /\ Freed(b) \subseteq allocated \ Reachable /\ Reachable' \subseteq Reachable
      /\ \A o \in Reachable : ref'[o] = ref[o]
  BY SweepFrees
<1>4. \A c \in Buffers :
        /\ buf[c] \in smal_buffer
        /\ buf'[c] = IF c = b THEN FinishRemembered(buf[b]) ELSE buf[c]
  BY DEF Sweep, IInv, TypedInv, TypeOK
<1>5. \A c \in Buffers : /\ buf'[c].sweepable = buf[c].sweepable
                         /\ buf'[c].remembered_set = buf[c].remembered_set
  BY <1>4, FinishFields
<1>6. \A c \in Buffers : Complete(c) => Complete(c)'
  BY <1>3, <1>5, CompleteStays
<1>7. TablesOK' /\ ReachableKept' /\ TracedOK' /\ TriColour'
  BY <1>1, <1>3 DEF IInv, TablesOK, ReachableKept, TracedOK, TriColour
<1>8. RememberedOK'
  <2>1. ASSUME NEW c \in Buffers
        PROVE  /\ buf'[c].remembered_set_valid \/ buf'[c].record_remembered_set =>
                    c \in mostly_unchanging /\ c \in buffer_table /\ Complete(c)
               /\ c \notin unswept /\ buf'[c].remembered_set_valid
                    /\ ~ buf'[c].mutation => buf'[c].write_protect
    <3>1. CASE c = b
      BY <1>1, <1>4, <3>1, FinishFields DEF IInv, RememberedOK
    <3>2. CASE c # b
      BY <1>1, <1>4, <3>2 DEF IInv, RememberedOK, InMarking
    <3>. QED BY <3>1, <3>2
  <2>. QED BY <1>1, <1>6, <2>1 DEF RememberedOK
<1>9. SweepOK'
  <2>1. \A o \in Reachable : BufferOf[o] \in Buffers
    BY ReachedByProgram, CollectAssumption DEF IInv, TypedInv
  <2>2. \A o \in Reachable' : buf'[BufferOf[o]].sweepable => o \in marks'
    BY <1>1, <1>3, <1>5, <2>1 DEF IInv, SweepOK
  <2>3. buf'[b].sweepable => allocated' \cap ObjectsIn(b) \subseteq marks'
    BY <1>1, <1>5 DEF Freed
  <2>. QED BY <1>1, <2>2, <2>3 DEF SweepOK, ObjectsIn
<1>. QED BY <1>2, <1>7, <1>8, <1>9 DEF IInv

(* Allocations resume. *)
LEMMA ResumeSafe == ASSUME IInv, SweepResume PROVE IInv'
<1>1. /\ sweeping # NoBuffer /\ UNCHANGED heap
      /\ buf' = [buf EXCEPT ![sweeping].alloc_disabled = FALSE]
      /\ UNCHANGED <<allocated, ref, roots, buffer_table, buffer_table_mark, shared,
                     marks, phase, unswept, sweeping>>
  BY DEF SweepResume, heap, tables
<1>2. TypedInv' /\ ~ InMarking /\ ~ InMarking'
  BY <1>1, ResumeTyped, SweepingBuffer DEF IInv, InMarking
<1>3. TablesOK' /\ ReachableKept' /\ Reachable' = Reachable
  BY <1>1, PhaseStep
<1>4. \A b \in Buffers :
        /\ buf'[b].sweepable = buf[b].sweepable
        /\ buf'[b].mutation = buf[b].mutation
        /\ buf'[b].write_protect = buf[b].write_protect
        /\ buf'[b].record_remembered_set = buf[b].record_remembered_set
        /\ buf'[b].remembered_set_valid = buf[b].remembered_set_valid
        /\ buf'[b].remembered_set = buf[b].remembered_set
  BY <1>1, SweepingBuffer DEF IInv, TypedInv, TypeOK, smal_buffer
<1>5. \A b \in Buffers : Complete(b) => Complete(b)'
  BY <1>1, <1>3, <1>4, CompleteStays
<1>6. RememberedOK' /\ TracedOK' /\ TriColour'
  BY <1>1, <1>2, <1>4, <1>5 DEF IInv, RememberedOK, TracedOK, TriColour
<1>7. SweepOK'
  <2>1. \A o \in Reachable : BufferOf[o] \in Buffers
    BY ReachedByProgram, CollectAssumption DEF IInv, TypedInv
  <2>2. sweeping \in Buffers
    BY <1>1, SweepingBuffer DEF IInv
  <2>. QED BY <1>1, <1>3, <1>4, <2>1, <2>2 DEF IInv, SweepOK, ObjectsIn
<1>. QED BY <1>2, <1>3, <1>6, <1>7 DEF IInv

(* smal_buffer_clear_mutation: the page is protected again. *)
LEMMA ClearSafe == ASSUME IInv, SweepClearMutation PROVE IInv'
<1>1. /\ sweeping # NoBuffer /\ sweeping' = NoBuffer /\ unswept' = unswept \ {sweeping}
      /\ UNCHANGED heap
      /\ buf' = [buf EXCEPT ![sweeping] = ClearMutation(sweeping, buf[sweeping])]
      /\ UNCHANGED <<allocated, ref, roots, buffer_table, buffer_table_mark, shared,
                     marks, phase>>
  BY DEF SweepClearMutation, heap, tables
<1>2. TypedInv' /\ phase = "sweep" /\ ~ InMarking /\ ~ InMarking'
  BY <1>1, ClearTyped, SweepingBuffer DEF IInv, InMarking
<1>3. TablesOK' /\ ReachableKept' /\ Reachable' = Reachable
  BY <1>1, PhaseStep
<1>4. \A b \in Buffers :
        /\ buf'[b].sweepable = buf[b].sweepable
        /\ buf'[b].record_remembered_set = buf[b].record_remembered_set
        /\ buf'[b].remembered_set_valid = buf[b].remembered_set_valid
        /\ buf'[b].remembered_set = buf[b].remembered_set
        /\ IF b = sweeping THEN b \in mostly_unchanging => buf'[b].write_protect
                           ELSE buf'[b] = buf[b]
  BY <1>1, SweepingBuffer, ClearFields DEF IInv, TypedInv, TypeOK
<1>5. \A b \in Buffers : Complete(b) => Complete(b)'
  BY <1>1, <1>3, <1>4, CompleteStays
<1>6. RememberedOK'
  BY <1>1, <1>2, <1>4, <1>5 DEF IInv, RememberedOK
<1>7. TracedOK' /\ TriColour'
  BY <1>2 DEF TracedOK, TriColour
<1>8. SweepOK'
  <2>1. \A o \in Reachable : BufferOf[o] \in Buffers
    BY ReachedByProgram, CollectAssumption DEF IInv, TypedInv
  <2>. QED BY <1>1, <1>3, <1>4, <2>1 DEF IInv, SweepOK
<1>. QED BY <1>2, <1>3, <1>6, <1>7, <1>8 DEF IInv

(* smal_buffer_free is only reached for a buffer that has no object left.  *)
LEMMA UnmapEmpty ==
  ASSUME IInv, sweeping # NoBuffer, LiveN(sweeping) = 0
  PROVE  allocated \cap ObjectsIn(sweeping) = {}
<1> DEFINE S == ObjectsIn(sweeping) \cap IF buf[sweeping].sweepable THEN marks ELSE allocated
<1>1. IsFiniteSet(S)
  BY FS_Subset, CollectAssumption DEF ObjectsIn
<1>2. Cardinality(S) = 0
  BY DEF LiveN
<1>3. S = {}
  BY <1>1, <1>2, FS_EmptySet
<1>. QED BY <1>3 DEF IInv, SweepOK

(* smal_buffer_free. *)
LEMMA UnmapSafe == ASSUME IInv, SweepUnmap PROVE IInv'
<1>1. /\ sweeping # NoBuffer /\ sweeping' = NoBuffer /\ unswept' = unswept \ {sweeping}
      /\ UNCHANGED heap /\ LiveN(sweeping) = 0
      /\ buf' = [buf EXCEPT ![sweeping] = NewBuffer]
      /\ buffer_table' = buffer_table \ {sweeping}
      /\ marks' = marks \ ObjectsIn(sweeping)
      /\ shared => buffer_table_mark' = buffer_table_mark \ {sweeping}
      /\ UNCHANGED <<allocated, ref, roots, shared, phase>>
  BY DEF SweepUnmap, heap
<1>2. TypedInv' /\ phase = "sweep" /\ ~ InMarking /\ ~ InMarking'
  BY <1>1, UnmapTyped, SweepingBuffer DEF IInv, InMarking
<1>3. Reachable' = Reachable
  BY <1>1, ReachableStays
<1>4. \A o \in allocated : o \in Objects /\ BufferOf[o] \in Buffers /\ BufferOf[o] # sweeping
  BY <1>1, UnmapEmpty, CollectAssumption DEF IInv, TypedInv, TypeOK, ObjectsIn
<1>5. TablesOK' /\ ReachableKept'
  BY <1>1, <1>3, <1>4 DEF IInv, TablesOK, ReachableKept
<1>6. \A b \in Buffers : buf'[b] = IF b = sweeping THEN NewBuffer ELSE buf[b]
  BY <1>1, SweepingBuffer DEF IInv, TypedInv, TypeOK
<1>7. RememberedOK'
  <2>1. ASSUME NEW b \in Buffers, b # sweeping
        PROVE  Complete(b) => Complete(b)'
    BY <1>1, <1>3, <1>6, <2>1, CompleteStays
  <2>. QED BY <1>1, <1>2, <1>6, <2>1, NewBufferFields DEF IInv, RememberedOK
<1>8. TracedOK' /\ TriColour'
  BY <1>2 DEF TracedOK, TriColour
<1>9. SweepOK'
  BY <1>1, <1>2, <1>3, <1>4, <1>6 DEF IInv, ReachableKept, SweepOK, ObjectsIn
<1>. QED BY <1>2, <1>5, <1>7, <1>8, <1>9 DEF IInv

(* The collection is over. *)
LEMMA EndCollectSafe == ASSUME IInv, EndCollect PROVE IInv'
<1>1. /\ phase = "sweep" /\ phase' = "idle" /\ ~ InMarking /\ ~ InMarking'
      /\ unswept = {} /\ sweeping = NoBuffer /\ UNCHANGED heap
      /\ UNCHANGED <<allocated, ref, roots, buffer_table, buffer_table_mark, shared,
                     buf, marks, unswept, sweeping>>
  BY DEF EndCollect, heap, tables, IInv, TypedInv, TypeOK, InMarking
<1>2. TypedInv'
  BY EndTyped DEF IInv
<1>3. TablesOK' /\ ReachableKept' /\ Reachable' = Reachable
  BY <1>1, PhaseStep
<1>4. \A b \in Buffers : Complete(b) => Complete(b)'
  BY <1>1, <1>3, CompleteStays
<1>5. RememberedOK'
  BY <1>1, <1>4 DEF IInv, RememberedOK
<1>6. TracedOK' /\ TriColour' /\ SweepOK'
  BY <1>1 DEF TracedOK, TriColour, SweepOK
<1>. QED BY <1>2, <1>3, <1>5, <1>6 DEF IInv

(* A step that changes nothing. *)
LEMMA StutterSafe == ASSUME IInv, UNCHANGED vars PROVE IInv'
<1>1. /\ UNCHANGED heap
      /\ UNCHANGED <<allocated, ref, roots, buffer_table, buffer_table_mark, shared, stale,
                     buf, marks, phase, queue, unswept, sweeping>>
  BY DEF vars, heap, tables
<1>2. TypedInv'
  BY StutterTyped DEF IInv
<1>3. TablesOK' /\ ReachableKept' /\ Reachable' = Reachable
  BY <1>1, PhaseStep
<1>4. \A b \in Buffers : Complete(b) => Complete(b)'
  BY <1>1, <1>3, CompleteStays
<1>5. RememberedOK' /\ TracedOK' /\ SweepOK'
  BY <1>1, <1>3, <1>4 DEF IInv, RememberedOK, TracedOK, SweepOK, InMarking, ObjectsIn
<1>6. TriColour'
  BY <1>1, <1>3 DEF IInv, TriColour, InMarking, Coming, RememberedPtrs
<1>. QED BY <1>2, <1>3, <1>5, <1>6 DEF IInv

(* Every step. *)
LEMMA StepSafe == ASSUME Careful, IInv, [Next]_vars PROVE IInv'
<1>1. CASE Mutator
  BY <1>1, AllocSafe, StoreSafe, RootsSafe DEF Mutator
<1>2. CASE BeginCollect
  BY <1>2, BeginSafe
<1>3. CASE Marking
  BY <1>3, MarkPtrSafe, MarkRememberedSafe, EndMarkSafe DEF Marking
<1>4. CASE Sweeping
  BY <1>4, SweepSafe, ResumeSafe, ClearSafe, UnmapSafe, EndCollectSafe DEF Sweeping
<1>5. CASE UNCHANGED vars
  BY <1>5, StutterSafe
<1>. QED BY <1>1, <1>2, <1>3, <1>4, <1>5 DEF Next

(* IInv holds of every careful program. *)
THEOREM Invariant == ASSUME Careful PROVE Spec => []IInv
<1>1. Init => IInv
  BY InitSafe
<1>2. IInv /\ [Next]_vars => IInv'
  BY StepSafe
<1>. QED BY <1>1, <1>2, PTL DEF Spec

(* The sweep never takes back an object the program can reach.             *)
THEOREM ReachableIsKept == ASSUME Careful PROVE Spec => []ReachableKept
<1>1. IInv => ReachableKept
  BY DEF IInv
<1>. QED BY <1>1, Invariant, PTL

(* When marking is over, what the program can reach in a buffer that will  *)
(* be swept is marked, also what is reached through buffers that were not  *)
(* traced.                                                                 *)
THEOREM ReachableIsMarked == ASSUME Careful PROVE Spec => []ReachableMarked
<1>1. ASSUME IInv PROVE ReachableMarked
  <2>. SUFFICES ASSUME phase = "mark_remembered", queue = {},
                       NEW o \in Reachable, buf[BufferOf[o]].sweepable
                PROVE  o \in marks
    BY DEF ReachableMarked
  <2>1. BufferOf[o] \in buffer_table
    BY <1>1, ReachableFound
  <2>2. buf[BufferOf[o]].markable
    BY <1>1, <2>1 DEF IInv, TracedOK, InMarking
  <2>. QED BY <1>1, <2>2, MarkedAll
<1>. QED BY <1>1, Invariant, PTL

(* A remembered set that smal_buffer_before_mark will trust holds every    *)
(* pointer out of its buffer that the program can follow.                  *)
THEOREM RememberedIsComplete == ASSUME Careful PROVE Spec => []RememberedComplete
<1>1. IInv => RememberedComplete
  BY DEF IInv, TypedInv, TypeOK, RememberedOK, RememberedComplete, Complete
<1>. QED BY <1>1, Invariant, PTL

(* A step of the collector is one of the heap: the program's, or Reclaim   *)
(* of what the sweep frees, or it cannot be seen there.                    *)
LEMMA StepHeap == ASSUME IInv, [Next]_vars PROVE [Heap!Next]_heap
<1>1. CASE Mutator
  <2>1. CASE \E o \in Objects : smal_alloc(o)
    BY <2>1 DEF smal_alloc, Heap!Next
  <2>2. CASE \E o \in Objects, v \in Objects \cup {Null} : Store(o, v)
    BY <2>2 DEF Store, Heap!Next
  <2>3. CASE \E o \in Objects : Load(o) \/ Forget(o)
    BY <2>3 DEF Load, Forget, Heap!Next
  <2>. QED BY <1>1, <2>1, <2>2, <2>3 DEF Mutator
<1>2. CASE BeginCollect \/ Marking
  BY <1>2 DEF BeginCollect, Marking, MarkPtr, MarkRemembered, EndMark
<1>3. CASE Sweeping
  <2>1. ASSUME NEW b \in Buffers, Sweep(b)
        PROVE  Heap!Reclaim
    <3>1. Freed(b) \in SUBSET (allocated \ Heap!Reachable)
      BY <2>1, SweepFrees DEF Reachable
    <3>2. /\ allocated' = allocated \ Freed(b)
          /\ ref' = [o \in Objects |-> IF o \in Freed(b) THEN Null ELSE ref[o]]
          /\ UNCHANGED roots
      BY <2>1 DEF Sweep
    <3>. QED BY <3>1, <3>2 DEF Heap!Reclaim
  <2>2. CASE SweepResume \/ SweepClearMutation \/ SweepUnmap \/ EndCollect
    BY <2>2 DEF SweepResume, SweepClearMutation, SweepUnmap, EndCollect
  <2>. QED BY <1>3, <2>1, <2>2 DEF Sweeping, Heap!Next
<1>4. CASE UNCHANGED vars
  BY <1>4 DEF vars
<1>. QED BY <1>1, <1>2, <1>3, <1>4 DEF Next

(* The collector implements the heap that never takes back what can be     *)
(* reached.                                                                *)
THEOREM Implementation == ASSUME Careful PROVE Spec => HeapSpec
<1>1. Init => Heap!Init
  BY DEF Init
<1>2. IInv /\ [Next]_vars => [Heap!Next]_(Heap!vars)
  BY StepHeap DEF heap, Heap!vars
<1>. QED BY <1>1, <1>2, Invariant, PTL DEF Spec, HeapSpec, Heap!Spec

=============================================================================
