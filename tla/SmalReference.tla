---------------------------- MODULE SmalReference ----------------------------
(***************************************************************************)
(* src/src/reference.c: weak references to objects of the client, the      *)
(* table that finds the reference of an object, and the queues into which  *)
(* smal_reference_before_sweep puts the references it clears.              *)
(*                                                                         *)
(* A step is a critical section, or the part of one between two waits.  A  *)
(* thread that waits for a second mutex holds the first: see QueueLocked,  *)
(* ReferenceLocked and TableLocked.  Marking is one step; before_sweep     *)
(* goes reference by reference and the sweep object by object.  Addresses  *)
(* are used again: what is swept can be allocated anew.                    *)
(* X_Y is X with a deliberate mistake that shows a property can fail.      *)
(***************************************************************************)
EXTENDS Integers, FiniteSets, SequencesExt

CONSTANTS
  Threads, Nil,
  Referred,     (* addresses of objects of the client, without pointers    *)
  References,   (* addresses of smal_references                            *)
  Queues,       (* addresses of smal_reference_queues                      *)
  MaxOwed,      (* bound: registrations of a reference with a queue        *)
  MaxGen,       (* bound: allocations of an address                        *)
  MayCall       (* of each call of the client: when it may begin           *)

Calls  == {"client", "create", "referred", "take"}
Phases == {"idle", "stopping", "before_sweep", "sweep"}

ASSUME ReferenceAssumption ==
  /\ Nil \notin Threads \cup Referred \cup References \cup Queues
  /\ Referred \cap References = {} /\ Referred \cap Queues = {}
  /\ References \cap Queues = {}
  /\ MaxOwed \in Nat \ {0} /\ MaxGen \in Nat \ {0}
  /\ MayCall \in [Calls -> SUBSET Phases]

VARIABLES
  held,                  \* what the client's roots point to
  alive,                 \* the addresses allocated and not swept
  marks,                 \* what the collection under way has marked
  referred_table,        \* of each object: its smal_reference
  referred, reference_queue_list,   \* the fields of a smal_reference
  reference_list,        \* the list of a smal_reference_queue
  pc, loc,               \* where each thread is in a call, and its locals
  gen, origin,           \* history: how often each address was allocated, and
                         \* the address and gen a reference was made for
  owed                   \* history: notices a queue is to get, or still has

heap    == <<held, alive, marks>>
lists   == <<referred_table, referred, reference_queue_list, reference_list>>
history == <<gen, origin, owed>>
vars    == <<heap, lists, pc, loc, history>>

Objects == Referred \cup References \cup Queues

Locals == [ptr : Referred \cup {Nil}, q : Queues \cup {Nil},
           r : References \cup {Nil}, todo : SUBSET References]

NoLocals == [ptr |-> Nil, q |-> Nil, r |-> Nil, todo |-> {}]

TypeOK ==
  /\ held \subseteq Objects /\ alive \subseteq Objects /\ marks \subseteq Objects
  /\ referred_table \in [Referred -> References \cup {Nil}]
  /\ referred \in [References -> Referred \cup {Nil}]
  /\ reference_queue_list \in [References -> Seq(Queues)]
  /\ reference_list \in [Queues -> Seq(References)]
  /\ pc \in [Threads -> {"idle", "lock_queue", "link", "stopping", "marked",
                         "clear", "requeue", "sweep"}]
  /\ loc \in [Threads -> Locals]
  /\ gen \in [Referred -> 0 .. MaxGen]
  /\ origin \in [References -> (Referred \cup {Nil}) \X (0 .. MaxGen)]
  /\ owed \in [References \X Queues -> 0 .. MaxOwed]

Init ==
  /\ held = {} /\ alive = {} /\ marks = {}
  /\ referred_table = [p \in Referred |-> Nil]
  /\ referred = [r \in References |-> Nil]
  /\ reference_queue_list = [r \in References |-> << >>]
  /\ reference_list = [q \in Queues |-> << >>]
  /\ pc = [t \in Threads |-> "idle"] /\ loc = [t \in Threads |-> NoLocals]
  /\ gen = [p \in Referred |-> 0] /\ origin = [r \in References |-> <<Nil, 0>>]
  /\ owed = [rq \in References \X Queues |-> 0]

-----------------------------------------------------------------------------
(* reference_mark marks the queues it will be put into, not referred;      *)
(* ref_queue_mark marks the references that wait in the queue.  The data   *)
(* pointers of both are left to the client, which has none here.           *)
reference_mark(r) == ToSet(reference_queue_list[r])
ref_queue_mark(q) == ToSet(reference_list[q])

Marks(o) ==
  CASE o \in References -> reference_mark(o)
    [] o \in Queues     -> ref_queue_mark(o)
    [] OTHER            -> {}

(* The least set that holds "from" and is closed.                          *)
Reach(from) ==
  LET pointers == UNION {{o} \X Marks(o) : o \in Objects}
      near     == from \cup {e[2] : e \in pointers}
      closed   == {S \in SUBSET near : /\ from \subseteq S
                                      /\ \A e \in pointers : e[1] \in S => e[2] \in S}
  IN  {o \in near : \A S \in closed : o \in S}

Reachable == Reach(held)

(* Who waits with a mutex held: smal_reference_create_weak for the         *)
(* reference with the queue's, referred_sweeped for a queue with the       *)
(* reference's, and smal_reference_before_sweep all the while with the     *)
(* table's.                                                                *)
QueueLocked(q)     == \E t \in Threads : pc[t] = "link" /\ loc[t].q = q
ReferenceLocked(r) == \E t \in Threads : pc[t] = "requeue" /\ loc[t].r = r
TableLocked        == \E t \in Threads : pc[t] \in {"clear", "requeue"}

Phase ==
  IF \E t \in Threads : pc[t] \in {"marked", "clear", "requeue"} THEN "before_sweep"
  ELSE IF \E t \in Threads : pc[t] = "sweep" THEN "sweep"
  ELSE IF \E t \in Threads : pc[t] = "stopping" THEN "stopping" ELSE "idle"

MayBegin(call) == Phase \in MayCall[call]

Goto(t, label, locals) ==
  /\ pc' = [pc EXCEPT ![t] = label]
  /\ loc' = [loc EXCEPT ![t] = locals]

Return(t) == Goto(t, "idle", NoLocals)

(* smal_alloc marks what it allocates while a collection is under way.     *)
Alloc(o) ==
  /\ alive' = alive \cup {o}
  /\ marks' = IF Phase \in {"idle", "stopping"} THEN marks ELSE marks \cup {o}

-----------------------------------------------------------------------------
(* The client allocates objects and queues, and drops pointers.            *)
New(p) ==
  /\ MayBegin("client") /\ p \in Referred \ alive /\ gen[p] < MaxGen
  /\ Alloc(p)
  /\ held' = held \cup {p}
  /\ gen' = [gen EXCEPT ![p] = @ + 1]
  /\ UNCHANGED <<lists, pc, loc, origin, owed>>

smal_reference_queue_create(q) ==
  /\ MayBegin("client") /\ q \in Queues \ alive
  /\ Alloc(q)
  /\ held' = held \cup {q}
  /\ UNCHANGED <<lists, pc, loc, history>>

Drop(o) ==
  /\ MayBegin("client") /\ o \in held
  /\ \A t \in Threads : o \notin {loc[t].ptr, loc[t].q}
  /\ held' = held \ {o}
  /\ UNCHANGED <<alive, marks, lists, pc, loc, history>>

-----------------------------------------------------------------------------
(* smal_reference_create_weak(p, q).  It returns r to the client ...       *)
ReturnReference(t, r) ==
  /\ held' = held \cup {r}
  /\ Return(t)

(* ... or goes on when it has left referred_table_mutex.                   *)
Found(t, r, p, q) ==
  IF q = Nil THEN ReturnReference(t, r)
  ELSE Goto(t, "lock_queue", [NoLocals EXCEPT !.ptr = p, !.q = q, !.r = r])
       /\ UNCHANGED held

(* Under referred_table_mutex: the reference of the object, or a new one.  *)
(* Without memory for it the call has no effect.                           *)
FindReference(t, p, q) ==
  /\ referred_table[p] # Nil
  /\ Found(t, referred_table[p], p, q)
  /\ UNCHANGED <<alive, marks, lists, history>>

NewReference(t, p, q) ==
  \E r \in References \ alive :
    /\ Alloc(r)
    /\ referred' = [referred EXCEPT ![r] = p]
    /\ origin' = [origin EXCEPT ![r] = <<p, gen[p]>>]
    /\ referred_table' = [referred_table EXCEPT ![p] = r]
    /\ Found(t, r, p, q)
    /\ UNCHANGED <<reference_queue_list, reference_list, gen, owed>>

MayCreate(t, p, q) ==
  /\ MayBegin("create") /\ pc[t] = "idle" /\ ~ TableLocked
  /\ p \in held \cap Referred /\ q \in (held \cap Queues) \cup {Nil}

smal_reference_create_weak(t, p, q) ==
  /\ MayCreate(t, p, q)
  /\ \/ FindReference(t, p, q)
     \/ referred_table[p] = Nil /\ NewReference(t, p, q)

(* A list node, then the queue's mutex; without memory for the node it     *)
(* returns 0, and the reference stays.                                     *)
CreateLockQueue(t) ==
  /\ pc[t] = "lock_queue"
  /\ \/ ~ QueueLocked(loc[t].q) /\ owed[<<loc[t].r, loc[t].q>>] < MaxOwed
        /\ Goto(t, "link", loc[t])
     \/ Return(t)
  /\ UNCHANGED <<heap, lists, history>>

CreateLink(t) ==
  LET r == loc[t].r q == loc[t].q IN
  /\ pc[t] = "link" /\ ~ ReferenceLocked(r)
  /\ reference_queue_list' = [reference_queue_list EXCEPT ![r] = <<q>> \o @]
  /\ owed' = [owed EXCEPT ![<<r, q>>] = @ + 1]
  /\ ReturnReference(t, r)
  /\ UNCHANGED <<alive, marks, referred_table, referred, reference_list, gen, origin>>

(* The client makes a pointer of a weak reference. *)
smal_reference_referred(r) ==
  /\ MayBegin("referred") /\ r \in held /\ ~ ReferenceLocked(r)
  /\ referred[r] \notin held \cup {Nil}
  /\ held' = held \cup {referred[r]}
  /\ UNCHANGED <<alive, marks, lists, pc, loc, history>>

smal_reference_queue_take(q) ==
  /\ MayBegin("take") /\ q \in held /\ ~ QueueLocked(q)
  /\ reference_list[q] # << >>
  /\ LET r == Head(reference_list[q]) IN
     /\ held' = held \cup {r}
     /\ owed' = [owed EXCEPT ![<<r, q>>] = @ - 1]
  /\ reference_list' = [reference_list EXCEPT ![q] = Tail(@)]
  /\ UNCHANGED <<alive, marks, referred_table, referred, reference_queue_list,
                 pc, loc, gen, origin>>

-----------------------------------------------------------------------------
(* A collection.  The client stops its threads between their calls, which  *)
(* smal leaves to it, and marks.                                           *)
Collect(t) ==
  /\ Phase = "idle" /\ pc[t] = "idle"
  /\ Goto(t, "stopping", NoLocals)
  /\ UNCHANGED <<heap, lists, history>>

Mark(t) ==
  /\ pc[t] = "stopping" /\ \A u \in Threads \ {t} : pc[u] = "idle"
  /\ marks' = Reachable
  /\ Goto(t, "marked", NoLocals)
  /\ UNCHANGED <<held, alive, lists, history>>

(* smal_reference_before_sweep: the references to clear.  Those that are   *)
(* not reachable themselves are left to the sweep.                         *)
ToClear_QueuedOnly(S) ==
  {r \in S : /\ r \in marks /\ referred[r] \notin marks
             /\ reference_queue_list[r] # << >>}

ToClear_Reachable(S) ==
  {r \in S : r \in marks}

ToClear(S) ==
  {r \in S : r \in marks /\ referred[r] \notin marks}

BeforeSweep(t) ==
  /\ pc[t] = "marked" /\ ~ TableLocked
  /\ Goto(t, "clear", [NoLocals EXCEPT
                         !.todo = ToClear({referred_table[p] : p \in Referred} \ {Nil})])
  /\ UNCHANGED <<heap, lists, history>>

(* referred_sweeped: forget the object ...                                 *)
Unlink_ForgetsFirst(r) ==
  /\ referred' = [referred EXCEPT ![r] = Nil]
  /\ UNCHANGED referred_table

Unlink(r) ==
  /\ referred_table' = [referred_table EXCEPT ![referred[r]] = Nil]
  /\ referred' = [referred EXCEPT ![r] = Nil]

ClearReference(t) ==
  /\ pc[t] = "clear"
  /\ \E r \in loc[t].todo :
       /\ ~ ReferenceLocked(r)
       /\ Unlink(r)
       /\ Goto(t, "requeue", [loc[t] EXCEPT !.r = r, !.todo = @ \ {r}])
  /\ UNCHANGED <<heap, reference_queue_list, reference_list, history>>

(* ... and put the reference into its queues (queue_reference), with the   *)
(* mutex of the reference held.                                            *)
Requeue_FirstOnly(t) ==
  LET r == loc[t].r q == Head(reference_queue_list[r]) IN
  /\ pc[t] = "requeue" /\ reference_queue_list[r] # << >> /\ ~ QueueLocked(q)
  /\ reference_list' = [reference_list EXCEPT ![q] = <<r>> \o @]
  /\ reference_queue_list' = [reference_queue_list EXCEPT ![r] = << >>]
  /\ UNCHANGED <<heap, referred_table, referred, pc, loc, history>>

Requeue_KeepNode(t) ==
  LET r == loc[t].r q == Head(reference_queue_list[r]) IN
  /\ pc[t] = "requeue" /\ reference_queue_list[r] # << >> /\ ~ QueueLocked(q)
  /\ reference_list' = [reference_list EXCEPT ![q] = <<r>> \o @]
  /\ UNCHANGED <<heap, referred_table, referred, reference_queue_list, pc, loc, history>>

Requeue(t) ==
  LET r == loc[t].r q == Head(reference_queue_list[r]) IN
  /\ pc[t] = "requeue" /\ reference_queue_list[r] # << >> /\ ~ QueueLocked(q)
  /\ reference_list' = [reference_list EXCEPT ![q] = <<r>> \o @]
  /\ reference_queue_list' = [reference_queue_list EXCEPT ![r] = Tail(@)]
  /\ UNCHANGED <<heap, referred_table, referred, pc, loc, history>>

Cleared(t) ==
  /\ pc[t] = "requeue" /\ reference_queue_list[loc[t].r] = << >>
  /\ Goto(t, "clear", [loc[t] EXCEPT !.r = Nil])
  /\ UNCHANGED <<heap, lists, history>>

BeginSweep(t) ==
  /\ pc[t] = "clear" /\ loc[t].todo = {}
  /\ Goto(t, "sweep", NoLocals)
  /\ UNCHANGED <<heap, lists, history>>

(* The sweep frees what is not marked.  Of a reference reference_free      *)
(* frees the list and removes the table's entry for its object.  Fields of *)
(* what has been freed mean nothing: here they are reset.                  *)
reference_free_KeepEntry(r) ==
  /\ reference_queue_list' = [reference_queue_list EXCEPT ![r] = << >>]
  /\ referred' = [referred EXCEPT ![r] = Nil]
  /\ origin' = [origin EXCEPT ![r] = <<Nil, 0>>]
  /\ owed' = [rq \in References \X Queues |-> IF rq[1] = r THEN 0 ELSE owed[rq]]
  /\ UNCHANGED <<referred_table, reference_list, gen>>

reference_free(r) ==
  /\ ~ ReferenceLocked(r) /\ ~ TableLocked
  /\ reference_queue_list' = [reference_queue_list EXCEPT ![r] = << >>]
  /\ referred_table' = [p \in Referred |->
                          IF p = referred[r] THEN Nil ELSE referred_table[p]]
  /\ referred' = [referred EXCEPT ![r] = Nil]
  /\ origin' = [origin EXCEPT ![r] = <<Nil, 0>>]
  /\ owed' = [rq \in References \X Queues |-> IF rq[1] = r THEN 0 ELSE owed[rq]]
  /\ UNCHANGED <<reference_list, gen>>

ref_queue_free(q) ==
  /\ reference_list' = [reference_list EXCEPT ![q] = << >>]
  /\ owed' = [rq \in References \X Queues |-> IF rq[2] = q THEN 0 ELSE owed[rq]]
  /\ UNCHANGED <<referred_table, referred, reference_queue_list, gen, origin>>

SweepObject(t, o) ==
  /\ pc[t] = "sweep" /\ o \in alive \ marks
  /\ \/ o \in References /\ reference_free(o)
     \/ o \in Queues /\ ref_queue_free(o)
     \/ o \in Referred /\ UNCHANGED <<lists, history>>
  /\ alive' = alive \ {o}
  /\ UNCHANGED <<held, marks, pc, loc>>

EndCollect(t) ==
  /\ pc[t] = "sweep" /\ alive \subseteq marks
  /\ marks' = {}
  /\ Return(t)
  /\ UNCHANGED <<held, alive, lists, history>>

Client ==
  \/ \E p \in Referred : New(p)
  \/ \E q \in Queues : smal_reference_queue_create(q) \/ smal_reference_queue_take(q)
  \/ \E o \in Objects : Drop(o)
  \/ \E r \in References : smal_reference_referred(r)
  \/ \E t \in Threads, p \in Referred, q \in Queues \cup {Nil} :
       smal_reference_create_weak(t, p, q)

Step(t) ==
  \/ CreateLockQueue(t) \/ CreateLink(t)
  \/ Mark(t) \/ BeforeSweep(t) \/ ClearReference(t) \/ Requeue(t) \/ Cleared(t) \/ BeginSweep(t)
  \/ \E o \in Objects : SweepObject(t, o)
  \/ EndCollect(t)

Next == Client \/ \E t \in Threads : Collect(t) \/ Step(t)

(* A thread goes on with its call, and the program collects again and      *)
(* again.                                                                  *)
Spec ==
  /\ Init /\ [][Next]_vars
  /\ \A t \in Threads : WF_vars(Step(t))
  /\ SF_vars(\E t \in Threads : Collect(t))

-----------------------------------------------------------------------------
(* What the client can reach, also through its queues and references, has  *)
(* not been swept: neither an object it got from a weak reference, nor a   *)
(* reference found in the table or taken from a queue.                     *)
HeldAlive == Reachable \subseteq alive

(* The table and the references agree: an entry is the one reference to    *)
(* its object, and not one that was swept or cleared; a reference not yet  *)
(* cleared is found.                                                       *)
TableExact ==
  \A p \in Referred, r \in References :
    referred_table[p] = r <=> r \in alive /\ referred[r] = p

(* A weak reference never comes to refer to another object that was given  *)
(* the address of the first (smal_reference_create_weak does not return an *)
(* old reference for a new object either).                                 *)
SameObject ==
  \A r \in Reachable \cap References :
    referred[r] # Nil => /\ referred[r] \in alive
                         /\ origin[r] = <<referred[r], gen[referred[r]]>>

Occurrences(s, x) == Cardinality({i \in DOMAIN s : s[i] = x})

(* Each registration gives one notice: it is in the reference's list until *)
(* the reference is cleared, then in the queue until it is taken.  None is *)
(* given before the object is out of reach, and with the notice the object *)
(* is out of reach for good: the client does not have it, nor gets it from *)
(* another reference later.                                                *)
OneNotice ==
  \A r \in Reachable \cap References :
    /\ \A q \in Queues \cap alive :
         /\ owed[<<r, q>>] = Occurrences(reference_queue_list[r], q)
                         + Occurrences(reference_list[q], r)
         /\ referred[r] # Nil => r \notin ToSet(reference_list[q])
    /\ referred[r] = Nil =>
         /\ ~ ReferenceLocked(r) => reference_queue_list[r] = << >>
         /\ \A p \in Reachable \cap Referred : origin[r] # <<p, gen[p]>>

(* A reference whose object is out of reach is put into each of its queues *)
(* in the end, if it stays in reach itself.                                *)
NoticeComes ==
  \A r \in References, q \in Queues :
    (r \in Reachable /\ q \in ToSet(reference_queue_list[r])
       /\ referred[r] \notin Reachable)
      ~> (r \in ToSet(reference_list[q]) \/ r \notin Reachable
          \/ referred[r] \in Reachable)
=============================================================================
