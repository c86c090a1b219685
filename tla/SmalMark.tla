------------------------------ MODULE SmalMark ------------------------------
(***************************************************************************)
(* How one collection marks: the mark queue with its chunks                *)
(* (src/src/mark_queue.h) and the marking functions of src/src/smal.c.     *)
(*                                                                         *)
(* The collector's thread runs all of it; what is hard is that the queue   *)
(* grows and shrinks while it is drained, that an object's last pointer is *)
(* followed without the queue, and that any word may be taken for a        *)
(* pointer.  An object is a slot of some page below alloc_ptr; a word that *)
(* is held in a pointer variable points into at most one of them.  X_Y is  *)
(* X with a deliberate mistake that shows a property can fail.             *)
(***************************************************************************)
EXTENDS Integers, Sequences

CONSTANTS
  Objects, NoObject,
  Words, Null,        (* what a pointer variable may hold                  *)
  ObjectAt,           (* the object a word points to or into, if any       *)
  Markable,           (* the objects whose page has a mark_func            *)
  NoBinding,          (* a binding that smal_roots_remove_global cleared   *)
  mark_queue_SIZE,    (* the words a chunk holds                           *)
  Stack,              (* the word at each byte address of a stack          *)
  Bindings, Ranges,   (* the arguments callers pass                        *)
  MaxCalls            (* bounds the calls of one collection                *)

PointerSize == 8
ScanStep    == 4      \* sizeof(int)

ASSUME MarkAssumption ==
  /\ NoObject \notin Objects
  /\ Null \in Words /\ NoBinding \notin Words
  /\ ObjectAt \in [Words -> Objects \cup {NoObject}] /\ ObjectAt[Null] = NoObject
  /\ Markable \subseteq Objects
  /\ mark_queue_SIZE \in Nat \ {0} /\ mark_queue_SIZE % 2 = 0
  /\ Bindings \subseteq Seq(Words \cup {NoBinding})
  /\ Ranges \subseteq Nat \X Nat
  /\ \A r \in Ranges : (r[1]..(r[2] - 1)) \cup (r[2]..(r[1] - 1)) \subseteq DOMAIN Stack
  /\ \A a \in DOMAIN Stack : Stack[a] \in Words
  /\ MaxCalls \in Nat

VARIABLES
  car, cdr,      \* the two pointers of an object with a mark_func
  mark_queue,    \* the chunks, the current one (mark_queue) last
  marks,         \* the mark bits
  at,            \* where the collector's thread is
  args,          \* pointers smal_mark_queue_add has yet to queue
  lo, hi,        \* the region smal_mark_ptr_range was asked to scan,
  ptr, ptr_end,  \* ... and its variables
  tail,          \* the arguments of _smal_mark_ptr_tail
  given,         \* words the callers asked to mark
  perhaps,       \* ... and those a scan may have taken for one
  calls

heap  == <<car, cdr>>
scan  == <<lo, hi, ptr, ptr_end>>
asked == <<given, perhaps, calls>>
vars  == <<heap, mark_queue, marks, at, args, scan, tail, asked>>

Places == {"idle", "roots", "add", "range", "pop", "tail", "marked"}

(* A queued pair: the object that refers, if any, and the pointer. *)
Pairs == [referrer : Objects \cup {NoObject}, ptr : Words \ {Null}]
NoPair == [referrer |-> NoObject, ptr |-> Null]

WordsUsed(chunk) == 2 * Len(chunk)

(* A chunk is never written past its end. *)
TypeOK ==
  /\ car \in [Markable -> Words] /\ cdr \in [Markable -> Words]
  /\ mark_queue \in Seq(Seq(Pairs))
  /\ \A i \in DOMAIN mark_queue : WordsUsed(mark_queue[i]) <= mark_queue_SIZE
  /\ at # "idle" => mark_queue # <<>>
  /\ marks \subseteq Objects
  /\ at \in Places
  /\ args \in Seq(Words)
  /\ lo \in Nat /\ hi \in Nat /\ ptr \in Int /\ ptr_end \in Int
  /\ tail \in Pairs \cup {NoPair}
  /\ given \subseteq Words /\ perhaps \subseteq Words
  /\ calls \in 0..MaxCalls

Init ==
  /\ car \in [Markable -> Words] /\ cdr \in [Markable -> Words]
  /\ mark_queue = <<>> /\ marks = {} /\ at = "idle" /\ args = <<>>
  /\ lo = 0 /\ hi = 0 /\ ptr = 0 /\ ptr_end = 0 /\ tail = NoPair
  /\ given = {} /\ perhaps = {} /\ calls = 0

-----------------------------------------------------------------------------
(* The mark queue.                                                         *)

Current(q) == q[Len(q)]

(* smal_mark_queue_add of one pointer; 0 is not queued. *)
QueueAdd_SameChunk(q, referrer, p) ==
  IF p = Null THEN q
  ELSE [q EXCEPT ![Len(q)] = Append(@, [referrer |-> referrer, ptr |-> p])]

QueueAdd(q, referrer, p) ==
  IF p = Null THEN q
  ELSE LET pair == [referrer |-> referrer, ptr |-> p] IN
       IF WordsUsed(Current(q)) >= mark_queue_SIZE
       THEN Append(q, <<pair>>)
       ELSE [q EXCEPT ![Len(q)] = Append(@, pair)]

(* The current chunk without its last pair; the queue without its current  *)
(* chunk.                                                                  *)
QueueRest(q) == [q EXCEPT ![Len(q)] = SubSeq(@, 1, Len(@) - 1)]
QueuePrev(q) == SubSeq(q, 1, Len(q) - 1)

(* What is queued. *)
Queued(q) == UNION {{q[i][j] : j \in DOMAIN q[i]} : i \in DOMAIN q}

-----------------------------------------------------------------------------
(* A collection begins: the pages' marks are clear, the queue is one empty *)
(* chunk (smal_mark_queue_start).                                          *)
smal_mark_queue_start ==
  /\ at = "idle"
  /\ at' = "roots"
  /\ mark_queue' = << <<>> >>
  /\ marks' = {}
  /\ UNCHANGED <<heap, args, scan, tail, asked>>

(* smal_mark_bindings: the pointers the bindings point to.  smal_mark_ptr  *)
(* and smal_mark_ptr_n, without a referrer, queue such a sequence too.     *)
Deref(bs) == [i \in DOMAIN bs |-> IF bs[i] = NoBinding THEN Null ELSE bs[i]]

smal_mark_bindings(bs) ==
  /\ at \in {"roots", "marked"} /\ calls < MaxCalls
  /\ at' = "add"
  /\ args' = Deref(bs)
  /\ given' = given \cup {Deref(bs)[i] : i \in DOMAIN bs}
  /\ perhaps' = perhaps \cup {Deref(bs)[i] : i \in DOMAIN bs}
  /\ calls' = calls + 1
  /\ UNCHANGED <<heap, mark_queue, marks, scan, tail>>

AddPtr ==
  /\ at = "add"
  /\ IF args = <<>>
     THEN at' = "roots" /\ UNCHANGED <<mark_queue, args>>
     ELSE /\ mark_queue' = QueueAdd(mark_queue, NoObject, Head(args))
          /\ args' = Tail(args)
          /\ UNCHANGED at
  /\ UNCHANGED <<heap, marks, scan, tail, asked>>

(* smal_mark_ptr_range: the aligned words of the region, and the ones in   *)
(* between that are aligned to an int.                                     *)
AlignUp_Not(a) == a
AlignUp(a) == IF a % PointerSize = 0 THEN a ELSE a + PointerSize - (a % PointerSize)

LastByte_Whole(b) == b
LastByte(b) == b - (PointerSize - 1)

Lower(a, b) == IF b < a THEN b ELSE a
Upper(a, b) == IF b < a THEN a ELSE b

(* The words of a region: at any address, and at those of a pointer. *)
WordsIn(a, b) == {Stack[x] : x \in a..(b - PointerSize)}
AlignedIn(a, b) ==
  {Stack[x] : x \in {y \in a..(b - PointerSize) : y % PointerSize = 0}}

smal_mark_ptr_range(a, b) ==
  /\ at \in {"roots", "marked"} /\ calls < MaxCalls
  /\ at' = "range"
  /\ lo' = Lower(a, b) /\ hi' = Upper(a, b)
  /\ ptr' = AlignUp(lo') /\ ptr_end' = LastByte(hi')
  /\ given' = given \cup AlignedIn(lo', hi')
  /\ perhaps' = perhaps \cup WordsIn(lo', hi')
  /\ calls' = calls + 1
  /\ UNCHANGED <<heap, mark_queue, marks, args, tail>>

ScanWord ==
  /\ at = "range"
  /\ IF ptr < ptr_end
     THEN /\ mark_queue' = QueueAdd(mark_queue, NoObject, Stack[ptr])
          /\ ptr' = ptr + ScanStep
          /\ UNCHANGED <<at, lo, hi, ptr_end>>
     ELSE /\ at' = "roots"
          /\ lo' = 0 /\ hi' = 0 /\ ptr' = 0 /\ ptr_end' = 0
          /\ UNCHANGED mark_queue
  /\ UNCHANGED <<heap, marks, args, tail, asked>>

(* smal_mark_queue_mark_all.  A chunk that is empty is freed if there is   *)
(* one before it.                                                          *)
smal_mark_queue_mark_all ==
  /\ at = "roots"
  /\ at' = "pop"
  /\ UNCHANGED <<heap, mark_queue, marks, args, scan, tail, asked>>

Pop ==
  /\ at = "pop"
  /\ IF Current(mark_queue) # <<>>
     THEN /\ tail' = Current(mark_queue)[Len(Current(mark_queue))]
          /\ mark_queue' = QueueRest(mark_queue)
          /\ at' = "tail"
     ELSE IF Len(mark_queue) > 1
     THEN mark_queue' = QueuePrev(mark_queue) /\ UNCHANGED <<at, tail>>
     ELSE at' = "marked" /\ UNCHANGED <<mark_queue, tail>>
  /\ UNCHANGED <<heap, marks, args, scan, asked>>

(* One turn of _smal_mark_ptr_tail.  The word is realigned to the object   *)
(* it points into; the mark_func of one that was not marked (my_cons_mark) *)
(* queues car and returns cdr, which the next turn follows.                *)
FollowTail_OldReferrer(o) ==
  IF cdr[o] # Null
  THEN tail' = [tail EXCEPT !.ptr = cdr[o]] /\ at' = "tail"
  ELSE tail' = NoPair /\ at' = "pop"

FollowTail(o) ==
  IF cdr[o] # Null
  THEN tail' = [referrer |-> o, ptr |-> cdr[o]] /\ at' = "tail"
  ELSE tail' = NoPair /\ at' = "pop"

MarkTail_Again ==
  /\ at = "tail"
  /\ LET o == ObjectAt[tail.ptr] IN
     /\ marks' = IF o = NoObject THEN marks ELSE marks \cup {o}
     /\ IF o \in Markable
        THEN mark_queue' = QueueAdd(mark_queue, o, car[o]) /\ FollowTail(o)
        ELSE tail' = NoPair /\ at' = "pop" /\ UNCHANGED mark_queue
  /\ UNCHANGED <<heap, args, scan, asked>>

MarkTail ==
  /\ at = "tail"
  /\ LET o == ObjectAt[tail.ptr] IN
     /\ marks' = IF o = NoObject THEN marks ELSE marks \cup {o}
     /\ IF o \in Markable \ marks
        THEN mark_queue' = QueueAdd(mark_queue, o, car[o]) /\ FollowTail(o)
        ELSE tail' = NoPair /\ at' = "pop" /\ UNCHANGED mark_queue
  /\ UNCHANGED <<heap, args, scan, asked>>

(* The queue has been drained: more calls, for the remembered sets and by  *)
(* smal_collect_after_mark, or the sweep and the next collection.          *)
EndMark ==
  /\ at = "marked"
  /\ at' = "idle"
  /\ given' = {} /\ perhaps' = {} /\ calls' = 0
  /\ UNCHANGED <<heap, mark_queue, marks, args, scan, tail>>

Call == \/ \E bs \in Bindings : smal_mark_bindings(bs)
        \/ \E r \in Ranges : smal_mark_ptr_range(r[1], r[2])

Work == AddPtr \/ ScanWord \/ smal_mark_queue_mark_all \/ Pop \/ MarkTail

Next == smal_mark_queue_start \/ Call \/ Work \/ EndMark

Spec == Init /\ [][Next]_vars

(* The thread that collects runs on. *)
FairSpec == Spec /\ WF_vars(Work)

-----------------------------------------------------------------------------
Targets(words) == {ObjectAt[w] : w \in words} \cap Objects
Children(o)    == IF o \in Markable THEN Targets({car[o], cdr[o]}) ELSE {}

(* The least set that holds the objects of "words" and is closed. *)
Closed(S) == \A o \in S : Children(o) \subseteq S
ReachableFrom(words) ==
  {o \in Objects : \A S \in SUBSET Objects : Targets(words) \subseteq S /\ Closed(S) => o \in S}

(* When the queue has been drained the marks are what can be reached:      *)
(* everything from the words the callers passed, and nothing but from      *)
(* these and the words the scan may have taken for pointers.               *)
MarkExact ==
  at = "marked" =>
    /\ ReachableFrom(given) \subseteq marks
    /\ marks \subseteq ReachableFrom(perhaps)

(* What the remembered sets are built from: the referrer that is queued    *)
(* with a pointer is a marked object that holds this pointer.              *)
ReferrerHolds ==
  \A p \in Queued(mark_queue) \cup {tail} :
    p.referrer # NoObject =>
      p.referrer \in marks \cap Markable /\ p.ptr \in {car[p.referrer], cdr[p.referrer]}

(* A scan reads nothing outside the region, and no word across its end.    *)
ReadsInside ==
  at = "range" /\ ptr < ptr_end => lo <= ptr /\ ptr + PointerSize <= hi

(* Draining the queue ends, also when the objects form cycles. *)
MarkAllEnds == at = "pop" ~> at = "marked"
=============================================================================
