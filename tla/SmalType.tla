------------------------------ MODULE SmalType ------------------------------
(***************************************************************************)
(* One smal_type with its buffers: smal_alloc, smal_free and the part that *)
(* smal_collect plays on these buffers (src/src/smal.c).                   *)
(*                                                                         *)
(* Steps are the critical sections of the code.  smal_alloc_p holds        *)
(* alloc_lock (read) and the type's alloc_buffer_mutex from start to end,  *)
(* smal_free and the start of a collection hold alloc_lock (write), so     *)
(* each is one step.  Marking and sweeping run without alloc_lock and      *)
(* interleave with the other two object by object.                         *)
(*                                                                         *)
(* How the collector traces the user's objects is left to SmalCollect:     *)
(* here marking sets any mark bits it likes (it is conservative) and ends  *)
(* once the objects the user holds are marked.                             *)
(***************************************************************************)
EXTENDS SmalBuffer, FiniteSets

CONSTANTS
  Buffers,    (* the pages mmap() can provide: bounds the memory           *)
  NoBuffer,   (* the null smal_buffer pointer                              *)
  MaxLive     (* bounds live_n, which smal_free never decrements           *)

ASSUME TypeAssumption ==
  /\ NoBuffer \notin Buffers
  /\ MaxLive \in Nat

VARIABLES
  mapped,        \* type.buffers: the buffers of the type
  buf,           \* the record of each buffer; NewBuffer when not mapped
  alloc_buffer,  \* type.alloc_buffer
  phase,         \* where _smal_collect_inner is: in_collect # 0 unless "idle"
  unswept,       \* buffers of buffer_collecting not yet swept
  sweep,         \* the locals of the running smal_buffer_sweep
  held           \* objects the user can reach, as <<buffer, index>>

vars == <<mapped, buf, alloc_buffer, phase, unswept, sweep, held>>

Objects == Buffers \X Slots
Phases  == {"idle", "mark", "sweep"}

(* smal_buffer_sweep: its buffer, the scan pointer, the count of marked    *)
(* objects and the alloc_ptr it read first.                                *)
NoSweep == [buf |-> NoBuffer, ptr |-> 0, live_n |-> 0, alloc_ptr |-> 0]
SweepFrame == [buf : Buffers \cup {NoBuffer}, ptr : 0 .. Capacity,
               live_n : Nat, alloc_ptr : 0 .. Capacity]

in_collect == phase # "idle"
sweeping   == sweep.buf # NoBuffer

TypeOK ==
  /\ mapped \subseteq Buffers
  /\ buf \in [Buffers -> smal_buffer]
  /\ alloc_buffer \in Buffers \cup {NoBuffer}
  /\ phase \in Phases
  /\ unswept \subseteq mapped
  /\ sweep \in SweepFrame
  /\ held \subseteq Objects

Init ==
  /\ mapped = {}
  /\ buf = [b \in Buffers |-> NewBuffer]
  /\ alloc_buffer = NoBuffer
  /\ phase = "idle"
  /\ unswept = {}
  /\ sweep = NoSweep
  /\ held = {}

-----------------------------------------------------------------------------
(* smal_type_find_alloc_buffer: the enabled buffers with the least avail_n *)
(* above 0.  The code takes the first of them in list order; any here.     *)
Usable == {b \in mapped : buf[b].avail_n # 0 /\ buf[b].alloc_disabled = 0}

FindAllocBuffer ==
  {b \in Usable : \A c \in Usable : buf[b].avail_n <= buf[c].avail_n}

(* smal_type_alloc_buffer: the current buffer, else one that is found,     *)
(* else a new page, else (mmap fails) none.                                *)
TypeAllocBuffer(current) ==
  IF current # NoBuffer THEN {current}
  ELSE IF FindAllocBuffer # {} THEN FindAllocBuffer
  ELSE IF Buffers \ mapped # {} THEN Buffers \ mapped
  ELSE {NoBuffer}

(* smal_buffer_alloc_object on b succeeds. *)
AllocFrom(b) ==
  /\ b # NoBuffer
  /\ CanAlloc(buf[b])
  /\ buf[b].live_n < MaxLive
  /\ mapped' = mapped \cup {b}
  /\ alloc_buffer' = b
  /\ buf' = [buf EXCEPT ![b] = AllocObject(@, in_collect)]
  /\ held' = held \cup {<<b, AllocSlot(buf[b])>>}

(* smal_alloc_p returns 0. *)
AllocFails ==
  /\ alloc_buffer' = NoBuffer
  /\ UNCHANGED <<mapped, buf, held>>

(* smal_alloc_p: when the current buffer cannot provide, look once more.   *)
smal_alloc ==
  /\ UNCHANGED <<phase, unswept, sweep>>
  /\ \E b \in TypeAllocBuffer(alloc_buffer) :
       \/ AllocFrom(b)
       \/ b = NoBuffer /\ AllocFails
       \/ /\ b # NoBuffer /\ ~ CanAlloc(buf[b])
          /\ \E c \in TypeAllocBuffer(NoBuffer) :
               \/ AllocFrom(c)
               \/ c = NoBuffer /\ AllocFails

(* smal_free, of an object its caller still holds. *)
smal_free(o) ==
  /\ o \in held
  /\ buf' = [buf EXCEPT ![o[1]] = FreeObject(@, o[2])]
  /\ held' = held \ {o}
  /\ UNCHANGED <<mapped, alloc_buffer, phase, unswept, sweep>>

(* The user forgets its last pointer to an object. *)
Drop(o) ==
  /\ o \in held
  /\ held' = held \ {o}
  /\ UNCHANGED <<mapped, buf, alloc_buffer, phase, unswept, sweep>>

-----------------------------------------------------------------------------
(* _smal_collect_inner up to the release of alloc_lock: every buffer goes  *)
(* to buffer_collecting through smal_buffer_before_mark, which also takes  *)
(* it away from the allocator (smal_buffer_stop_allocations).              *)
BeginCollect_KeepAllocBuffer ==
  /\ phase = "idle"
  /\ phase' = "mark"
  /\ unswept' = mapped
  /\ buf' = [b \in Buffers |-> IF b \in mapped THEN BeforeMark(buf[b])
                                               ELSE buf[b]]
  /\ UNCHANGED <<mapped, alloc_buffer, sweep, held>>

BeginCollect ==
  /\ phase = "idle"
  /\ phase' = "mark"
  /\ unswept' = mapped
  /\ buf' = [b \in Buffers |-> IF b \in mapped THEN BeforeMark(buf[b])
                                               ELSE buf[b]]
  /\ alloc_buffer' = IF alloc_buffer \in mapped THEN NoBuffer
                                                ELSE alloc_buffer
  /\ UNCHANGED <<mapped, sweep, held>>

(* _smal_mark_ptr: a possible pointer into a parceled object. *)
MarkPtr(o) ==
  /\ phase = "mark"
  /\ o[1] \in unswept
  /\ o[2] \in Parceled(buf[o[1]]) \ buf[o[1]].mark_bits
  /\ buf' = [buf EXCEPT ![o[1]] = MarkObject(@, o[2])]
  /\ UNCHANGED <<mapped, alloc_buffer, phase, unswept, sweep, held>>

(* The mark queue is empty: what the user holds has been reached. *)
EndMark ==
  /\ phase = "mark"
  /\ \A o \in held : /\ o[1] \in unswept
                     /\ buf[o[1]].markable
                     => o[2] \in buf[o[1]].mark_bits
  /\ phase' = "sweep"
  /\ UNCHANGED <<mapped, buf, alloc_buffer, unswept, sweep, held>>

(* smal_buffer_sweep, up to its loop.  The code follows the list order;    *)
(* any order here.                                                         *)
BeginSweep(b) ==
  /\ phase = "sweep" /\ ~ sweeping
  /\ b \in unswept
  /\ sweep' = [buf |-> b, ptr |-> 0, live_n |-> 0,
               alloc_ptr |-> buf[b].alloc_ptr]
  /\ UNCHANGED <<mapped, buf, alloc_buffer, phase, unswept, held>>

(* One turn of its loop, which a buffer that is not sweepable skips: a     *)
(* marked object is live, another one is freed unless it already is.       *)
SweepObject_NoFreeTest ==
  /\ sweeping
  /\ buf[sweep.buf].sweepable
  /\ sweep.ptr < sweep.alloc_ptr
  /\ LET b == sweep.buf
         p == sweep.ptr
     IN  IF p \in buf[b].mark_bits
         THEN /\ sweep' = [sweep EXCEPT !.ptr = @ + 1, !.live_n = @ + 1]
              /\ UNCHANGED buf
         ELSE /\ sweep' = [sweep EXCEPT !.ptr = @ + 1]
              /\ buf' = [buf EXCEPT ![b] = FreeObject(@, p)]
  /\ UNCHANGED <<mapped, alloc_buffer, phase, unswept, held>>

SweepObject ==
  /\ sweeping
  /\ buf[sweep.buf].sweepable
  /\ sweep.ptr < sweep.alloc_ptr
  /\ LET b == sweep.buf
         p == sweep.ptr
     IN  IF p \in buf[b].mark_bits
         THEN /\ sweep' = [sweep EXCEPT !.ptr = @ + 1, !.live_n = @ + 1]
              /\ UNCHANGED buf
         ELSE /\ sweep' = [sweep EXCEPT !.ptr = @ + 1]
              /\ buf' = IF p \in buf[b].free_bits THEN buf
                        ELSE [buf EXCEPT ![b] = FreeObject(@, p)]
  /\ UNCHANGED <<mapped, alloc_buffer, phase, unswept, held>>

SweepDone == sweeping /\ (buf[sweep.buf].sweepable => sweep.ptr = sweep.alloc_ptr)

(* After its loop: a buffer with live objects can be allocated from again. *)
SweepKeep ==
  /\ SweepDone
  /\ LiveAfterSweep(buf[sweep.buf], sweep.live_n) # 0
  /\ buf' = [buf EXCEPT ![sweep.buf] = EndSweep(@, sweep.live_n)]
  /\ unswept' = unswept \ {sweep.buf}
  /\ sweep' = NoSweep
  /\ UNCHANGED <<mapped, alloc_buffer, phase, held>>

(* ... and one without goes to smal_buffer_free: out of the type, out of   *)
(* the allocator, unmapped.                                                *)
SweepUnmap_KeepCollecting ==
  /\ SweepDone
  /\ LiveAfterSweep(buf[sweep.buf], sweep.live_n) = 0
  /\ buf' = [buf EXCEPT ![sweep.buf] = NewBuffer]
  /\ mapped' = mapped \ {sweep.buf}
  /\ alloc_buffer' = IF alloc_buffer = sweep.buf THEN NoBuffer ELSE alloc_buffer
  /\ sweep' = NoSweep
  /\ UNCHANGED <<phase, unswept, held>>

SweepUnmap ==
  /\ SweepDone
  /\ LiveAfterSweep(buf[sweep.buf], sweep.live_n) = 0
  /\ buf' = [buf EXCEPT ![sweep.buf] = NewBuffer]
  /\ mapped' = mapped \ {sweep.buf}
  /\ alloc_buffer' = IF alloc_buffer = sweep.buf THEN NoBuffer ELSE alloc_buffer
  /\ unswept' = unswept \ {sweep.buf}
  /\ sweep' = NoSweep
  /\ UNCHANGED <<phase, held>>

(* _smal_collect_sweep_buffers, after its loop. *)
EndCollect ==
  /\ phase = "sweep" /\ ~ sweeping
  /\ unswept = {}
  /\ phase' = "idle"
  /\ UNCHANGED <<mapped, buf, alloc_buffer, unswept, sweep, held>>

Collector ==
  \/ BeginCollect
  \/ \E o \in Objects : MarkPtr(o)
  \/ EndMark
  \/ \E b \in Buffers : BeginSweep(b)
  \/ SweepObject
  \/ SweepKeep
  \/ SweepUnmap
  \/ EndCollect

Next ==
  \/ smal_alloc
  \/ \E o \in Objects : smal_free(o)
  \/ \E o \in Objects : Drop(o)
  \/ Collector

Spec == Init /\ [][Next]_vars

(* A collection that has begun is run to its end by the thread that called *)
(* smal_collect; nothing makes the user begin one.                         *)
FairSpec ==
  /\ Spec
  /\ WF_vars(\E o \in Objects : MarkPtr(o))
  /\ WF_vars(EndMark)
  /\ WF_vars(\E b \in Buffers : BeginSweep(b))
  /\ WF_vars(SweepObject)
  /\ WF_vars(SweepKeep)
  /\ WF_vars(SweepUnmap)
  /\ WF_vars(EndCollect)

-----------------------------------------------------------------------------
(* An object the user holds stays allocated: its page is mapped, it lies   *)
(* below alloc_ptr and it is not on the free list.                         *)
HeldObjectsIntact ==
  \A o \in held : o[1] \in mapped /\ o[2] \in Allocated(buf[o[1]])

(* The free list, the free bitmap and the counters of every buffer agree,  *)
(* whatever smal_alloc, smal_free and a sweep did to it and in which       *)
(* order.                                                                  *)
BuffersOK == \A b \in mapped : FreeListOK(buf[b]) /\ StatsOK(buf[b])

(* Allocations from a buffer are paused exactly while a collection has it  *)
(* ("Set to true during smal_collect()", smal.h): paused once, resumed     *)
(* once.  A buffer left paused would never be allocated from again.        *)
PausedWhileCollected ==
  \A b \in mapped : buf[b].alloc_disabled = (IF b \in unswept THEN 1 ELSE 0)

(* The allocator's current buffer is one of the type's and not paused:     *)
(* it never points to a page that was unmapped.                            *)
AllocBufferUsable ==
  alloc_buffer # NoBuffer =>
    alloc_buffer \in mapped /\ buf[alloc_buffer].alloc_disabled = 0

(* "No additional objects should have been allocated during sweep":        *)
(* assert(self->alloc_ptr == alloc_ptr), smal.c.                           *)
NoAllocDuringSweep ==
  sweeping => sweep.buf \in mapped /\ buf[sweep.buf].alloc_ptr = sweep.alloc_ptr

(* live_n, on which unmapping the page depends, never understates what the *)
(* user holds in the buffer.                                               *)
LiveNCoversHeld ==
  \A b \in mapped : Cardinality({o \in held : o[1] = b}) <= buf[b].live_n

(* A collection that begins ends, whatever the user allocates meanwhile.   *)
CollectionEnds == in_collect ~> ~ in_collect

(* SmalType does what ObjectPool promises: smal_alloc hands out an object  *)
(* nobody has, a sweep takes back only what is no longer held.             *)
allocated == {o \in Objects : o[1] \in mapped /\ o[2] \in Allocated(buf[o[1]])}

Pool == INSTANCE ObjectPool WITH Cells <- Objects, allocated <- allocated, held <- held
PoolSpec == Pool!Spec
=============================================================================
