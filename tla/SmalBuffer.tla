----------------------------- MODULE SmalBuffer -----------------------------
(***************************************************************************)
(* The bookkeeping of one smal_buffer (src/include/smal/smal.h,            *)
(* src/src/smal.c): the objects parceled by alloc_ptr, the free list with  *)
(* its free bitmap, the mark bitmap and the counters of smal_stats.        *)
(*                                                                         *)
(* A buffer is a record and every operation of smal.c on it is an operator *)
(* from records to records; SmalType says who applies them and when.  An   *)
(* object is its index in the buffer, what smal_buffer_ptr_i computes.     *)
(* A name such as FreeObject_NoAvail is the definition after it with a     *)
(* deliberate mistake: it shows that a property can fail, and is used      *)
(* nowhere else.                                                           *)
(***************************************************************************)
EXTENDS Integers, Sequences

CONSTANTS
  Capacity,            (* object_capacity: objects that fit in the buffer  *)
  CollectionsPerSweep  (* desc.collections_per_sweep of the buffer's type  *)

ASSUME BufferAssumption ==
  /\ Capacity \in Nat \ {0}
  /\ CollectionsPerSweep \in Nat \ {0}   (* smal_type_for_desc maps 0 to 1 *)

Slots == 0 .. Capacity - 1

(* The fields the model keeps.  collection_n is kept modulo                *)
(* CollectionsPerSweep, the only way the code uses it.                     *)
smal_buffer ==
  [ alloc_ptr           : 0 .. Capacity,
    free_list           : Seq(Slots),
    free_bits           : SUBSET Slots,
    mark_bits           : SUBSET Slots,
    alloc_disabled      : Nat,
    markable            : BOOLEAN,
    sweepable           : BOOLEAN,
    alloc_n             : Nat,
    avail_n             : Nat,
    free_n              : Nat,
    live_n              : Nat,
    live_before_sweep_n : Nat,
    collection_n        : 0 .. CollectionsPerSweep - 1 ]

(* smal_buffer_alloc and smal_buffer_set_object_size: a fresh buffer. *)
NewBuffer ==
  [ alloc_ptr |-> 0, free_list |-> << >>, free_bits |-> {}, mark_bits |-> {},
    alloc_disabled |-> 0, markable |-> FALSE, sweepable |-> FALSE,
    alloc_n |-> 0, avail_n |-> Capacity, free_n |-> 0,
    live_n |-> 0, live_before_sweep_n |-> 0, collection_n |-> 0 ]

(* Objects below alloc_ptr, and those of them not on the free list.        *)
Parceled(buf) == 0 .. buf.alloc_ptr - 1
Allocated(buf) == Parceled(buf) \ buf.free_bits

-----------------------------------------------------------------------------
(* smal_buffer_alloc_object: nothing while allocations are paused; else    *)
(* the head of the free list, else the next unparceled object.  The        *)
(* object is born marked when a collection is under way.                   *)
CanAlloc(buf) ==
  /\ buf.alloc_disabled = 0
  /\ buf.free_list # << >> \/ buf.alloc_ptr < Capacity

AllocSlot(buf) ==
  IF buf.free_list # << >> THEN Head(buf.free_list) ELSE buf.alloc_ptr

PopFreeList_KeepBit(buf) ==
  [buf EXCEPT !.free_list = Tail(@), !.free_n = @ - 1]

PopFreeList_NoPop(buf) ==
  [buf EXCEPT !.free_bits = @ \ {Head(buf.free_list)}, !.free_n = @ - 1]

PopFreeList(buf) ==
  [buf EXCEPT !.free_list = Tail(@),
              !.free_bits = @ \ {Head(buf.free_list)},
              !.free_n    = @ - 1]

BumpAllocPtr(buf) ==
  [buf EXCEPT !.alloc_ptr = @ + 1, !.alloc_n = @ + 1]

AllocObject(buf, in_collect) ==
  LET taken == IF buf.free_list # << >> THEN PopFreeList(buf)
                                        ELSE BumpAllocPtr(buf)
  IN  [taken EXCEPT
         !.live_n    = @ + 1,
         !.avail_n   = @ - 1,
         !.mark_bits = IF in_collect THEN @ \cup {AllocSlot(buf)} ELSE @]

(* smal_buffer_free_object: set the free bit and push on the free list.    *)
(* live_n is left alone.                                                   *)
FreeObject_NoAvail(buf, p) ==
  [buf EXCEPT !.free_bits = @ \cup {p},
              !.free_list = <<p>> \o @,
              !.free_n    = @ + 1]

FreeObject(buf, p) ==
  [buf EXCEPT !.free_bits = @ \cup {p},
              !.free_list = <<p>> \o @,
              !.free_n    = @ + 1,
              !.avail_n   = @ + 1]

-----------------------------------------------------------------------------
(* smal_buffer_before_mark, for a type that keeps no remembered set: pause *)
(* allocations, decide whether this collection sweeps the buffer, note     *)
(* live_n, and clear the mark bits if the buffer takes part in marking.    *)
(* (stop_allocations belongs to the type: see SmalType.)                   *)
BeforeMark_NoPause(buf) ==
  LET n     == (buf.collection_n + 1) % CollectionsPerSweep
      sweep == n = 0
  IN  [buf EXCEPT !.collection_n        = n,
                  !.markable            = sweep,
                  !.sweepable           = sweep,
                  !.live_before_sweep_n = buf.live_n,
                  !.mark_bits           = IF sweep THEN {} ELSE @]

BeforeMark(buf) ==
  LET n     == (buf.collection_n + 1) % CollectionsPerSweep
      sweep == n = 0
  IN  [buf EXCEPT !.alloc_disabled      = @ + 1,
                  !.collection_n        = n,
                  !.markable            = sweep,
                  !.sweepable           = sweep,
                  !.live_before_sweep_n = buf.live_n,
                  !.mark_bits           = IF sweep THEN {} ELSE @]

(* _smal_buffer_mark_ptr: the mark bit. *)
MarkObject(buf, p) == [buf EXCEPT !.mark_bits = @ \cup {p}]

(* The end of smal_buffer_sweep for a buffer that stays: if it was swept,  *)
(* live_n becomes what the sweep counted; allocations resume.              *)
EndSweep_SubtractOnly(buf, counted) ==
  [buf EXCEPT !.live_n = IF buf.sweepable
                         THEN @ - buf.live_before_sweep_n ELSE @,
              !.alloc_disabled = @ - 1]

EndSweep(buf, counted) ==
  [buf EXCEPT !.live_n = IF buf.sweepable
                         THEN @ - buf.live_before_sweep_n + counted ELSE @,
              !.alloc_disabled = @ - 1]

(* smal_buffer_sweep's local live_n when the scan is over. *)
LiveAfterSweep_AlwaysCounted(buf, counted) == counted

LiveAfterSweep(buf, counted) ==
  IF buf.sweepable THEN counted ELSE buf.live_before_sweep_n

-----------------------------------------------------------------------------
(* What the operations keep true of a buffer.                              *)

(* The free list links every free object exactly once, and the free bitmap *)
(* says the same ("A free bitmap is also maintained to avoid double-free   *)
(* during sweep", README): an object linked twice is handed out twice.     *)
FreeListOK(buf) ==
  /\ buf.free_bits \subseteq Parceled(buf)
  /\ buf.free_bits = {buf.free_list[i] : i \in 1 .. Len(buf.free_list)}
  /\ \A i, j \in 1 .. Len(buf.free_list) :
        buf.free_list[i] = buf.free_list[j] => i = j

(* The counters agree with the structures: avail_n is "number of objects   *)
(* either unallocated or on free_list" and free_n "number of objects on    *)
(* free_list" (smal.h), which find_alloc_buffer and the assertion on a     *)
(* full buffer rely on.                                                    *)
StatsOK(buf) ==
  /\ buf.alloc_n = buf.alloc_ptr
  /\ buf.free_n  = Len(buf.free_list)
  /\ buf.avail_n = (Capacity - buf.alloc_ptr) + Len(buf.free_list)

(* The two together with the type of the fields, the form that is          *)
(* inductive.                                                              *)
BufferOK(buf) ==
  /\ buf \in smal_buffer
  /\ FreeListOK(buf)
  /\ StatsOK(buf)
  /\ buf.mark_bits \subseteq Parceled(buf)
=============================================================================
