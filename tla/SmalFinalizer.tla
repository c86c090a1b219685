---------------------------- MODULE SmalFinalizer ----------------------------
(***************************************************************************)
(* src/src/finalizer.c: finalizers of objects of the client, the table of  *)
(* the objects that have some, the queue of those that a collection found  *)
(* unreachable, and smal_finalizer_sweep_some, which runs the queue.       *)
(*                                                                         *)
(* A step is one critical section: referred_table_mutex and                *)
(* finalized_queue_mutex are never held where a thread waits.  The mutex   *)
(* of a finalized is, by smal_finalizer_copy_all: see Locked.  Marking,    *)
(* after_mark and the sweep of a collection are one step (SmalCollect and  *)
(* SmalType look inside); its after_sweep runs finalizers step by step.    *)
(* X_Y is X with a deliberate mistake that shows a property can fail.      *)
(***************************************************************************)
EXTENDS Integers, FiniteSets, SequencesExt

CONSTANTS
  Threads, Nil,
  Referred,       (* the objects of the client                             *)
  Points,         (* the object one of them points to, or Nil              *)
  Finalized,      (* memory for smal_finalized, each used once             *)
  Finalizers,     (* memory for smal_finalizer, each used once             *)
  SweepAmount,    (* smal_finalizer_sweep_amount                           *)
  MayOverlap      (* the calls that may begin while another is under way   *)

ASSUME FinalizerAssumption ==
  /\ Nil \notin Threads \cup Referred \cup Finalized \cup Finalizers
  /\ IsFiniteSet(Finalized) /\ IsFiniteSet(Finalizers)
  /\ Points \in [Referred -> Referred \cup {Nil}]
  /\ SweepAmount \in {0, 1}
  /\ MayOverlap \subseteq {"create", "remove_all", "copy_all", "sweep_some", "collect"}

VARIABLES
  held,             \* the objects the client's roots point to
  alive,            \* what the collector has not swept
  referred_table,   \* of each object: its smal_finalized
  referred, finalizers, next,       \* the fields of a smal_finalized
  finalized_queue,  \* the head of the queue, linked through next
  finalizer,        \* of each smal_finalizer: its referred and its fate
  pc, loc           \* where each thread is in a call, and its locals

heap  == <<held, alive>>
lists == <<referred_table, referred, finalizers, next, finalized_queue, finalizer>>
vars  == <<heap, lists, pc, loc>>

Objects == Referred \cup Finalized \cup Finalizers

Locals == [ptr : Referred \cup {Nil}, to : Referred \cup {Nil},
           src : Finalized \cup {Nil}, fz : Finalized \cup {Nil},
           z : Finalizers \cup {Nil}, todo : 0 .. Cardinality(Finalizers), n : {0, 1}]

NoLocals == [ptr |-> Nil, to |-> Nil, src |-> Nil, fz |-> Nil, z |-> Nil,
             todo |-> 0, n |-> 0]

TypeOK ==
  /\ held \subseteq Referred /\ alive \subseteq Objects
  /\ referred_table \in [Referred -> Finalized \cup {Nil}]
  /\ referred \in [Finalized -> Referred \cup {Nil}]
  /\ finalizers \in [Finalized -> Seq(Finalizers)]
  /\ next \in [Finalized -> Finalized \cup {Nil}]
  /\ finalized_queue \in Finalized \cup {Nil}
  /\ finalizer \in [Finalizers -> [referred : Referred \cup {Nil},
                                   fate : {"unused", "pending", "removed", "called"}]]
  /\ pc \in [Threads -> {"idle", "create", "link", "take", "copy_lock", "copy",
                         "sweep", "pop", "func"}]
  /\ loc \in [Threads -> Locals]

Init ==
  /\ held = Referred /\ alive = Referred
  /\ referred_table = [p \in Referred |-> Nil]
  /\ referred = [f \in Finalized |-> Nil]
  /\ finalizers = [f \in Finalized |-> << >>]
  /\ next = [f \in Finalized |-> Nil]
  /\ finalized_queue = Nil
  /\ finalizer = [z \in Finalizers |-> [referred |-> Nil, fate |-> "unused"]]
  /\ pc = [t \in Threads |-> "idle"]
  /\ loc = [t \in Threads |-> NoLocals]

-----------------------------------------------------------------------------
(* What following link leads to in U from S: the least such set.           *)
Followed(U, S, link) ==
  {x \in U : \A X \in SUBSET U :
               (/\ U \cap S \subseteq X
                /\ \A y \in X : link[y] \in X \cup {Nil}) => x \in X}

(* The objects of the client point to such objects only.                   *)
Pointed(S) == Followed(Referred, S, Points)

(* What the collector marks from S, with links nx between the finalized:   *)
(* smal_finalized_mark marks finalizers, next and referred;                *)
(* smal_finalizer_mark does not mark referred.                             *)
Reach(S, nx) ==
  LET fs == Followed(Finalized, S, nx)
  IN  fs \cup (S \cap Finalizers) \cup (UNION {ToSet(finalizers[f]) : f \in fs})
         \cup Pointed(S \cup {referred[f] : f \in fs})

Queued == Followed(Finalized, {finalized_queue}, next)
InTable == {referred_table[p] : p \in Referred} \ {Nil}

(* smal_finalizer_copy_all holds the mutex of the finalized it copies.     *)
Locked(f) == \E t \in Threads : loc[t].src = f /\ pc[t] \in {"copy", "create", "link"}

FreshFinalized  == {f \in Finalized : referred[f] = Nil}
FreshFinalizers == {z \in Finalizers : finalizer[z].fate = "unused"}

Arguments == UNION {{loc[t].ptr, loc[t].to} : t \in Threads}

Goto(t, label, locals) ==
  /\ pc' = [pc EXCEPT ![t] = label]
  /\ loc' = [loc EXCEPT ![t] = locals]

Return(t) == Goto(t, "idle", NoLocals)

(* A call begins when no other is under way, or where it may overlap: from *)
(* another thread or from a finalizer's function.                          *)
MayBegin(t, call) ==
  /\ pc[t] = "idle"
  /\ call \in MayOverlap \/ \A u \in Threads : pc[u] = "idle"

-----------------------------------------------------------------------------
(* The client drops a pointer, not an argument of a call; or loads one.    *)
Drop(p) ==
  /\ p \in held \ Arguments
  /\ held' = held \ {p}
  /\ UNCHANGED <<alive, lists, pc, loc>>

Load(p) ==
  /\ p \in held /\ Points[p] \notin held \cup {Nil}
  /\ held' = held \cup {Points[p]}
  /\ UNCHANGED <<alive, lists, pc, loc>>

(* smal_finalizer_create; begins only while memory is left.  It returns 0  *)
(* when there is none when it gets there.  smal_finalizer_copy_all then    *)
(* writes through the null pointer, so this is where the model leaves it.  *)
Create(t, p) ==
  /\ MayBegin(t, "create") /\ p \in held
  /\ FreshFinalizers # {} /\ (referred_table[p] = Nil => FreshFinalized # {})
  /\ Goto(t, "create", [NoLocals EXCEPT !.ptr = p])
  /\ UNCHANGED <<heap, lists>>

CreateArg(t) == IF loc[t].src = Nil THEN loc[t].ptr ELSE loc[t].to

(* The first half, under referred_table_mutex: find or add the finalized.  *)
CreateFind(t) ==
  LET p == CreateArg(t) IN
  /\ pc[t] = "create"
  /\ \/ /\ referred_table[p] # Nil
        /\ Goto(t, "link", [loc[t] EXCEPT !.fz = referred_table[p]])
        /\ UNCHANGED <<heap, lists>>
     \/ /\ referred_table[p] = Nil /\ FreshFinalized # {}
        /\ LET f == CHOOSE f \in FreshFinalized : TRUE IN
           /\ alive' = alive \cup {f}
           /\ referred' = [referred EXCEPT ![f] = p]
           /\ referred_table' = [referred_table EXCEPT ![p] = f]
           /\ Goto(t, "link", [loc[t] EXCEPT !.fz = f])
        /\ UNCHANGED <<held, finalizers, next, finalized_queue, finalizer>>
     \/ /\ referred_table[p] = Nil /\ FreshFinalized = {}
        /\ Return(t) /\ UNCHANGED <<heap, lists>>

(* Where create returns to: its caller, or the loop of copy_all.           *)
CreateReturn(t) ==
  IF loc[t].src = Nil THEN Return(t)
  ELSE Goto(t, "copy", [loc[t] EXCEPT !.fz = Nil, !.todo = @ - 1])

(* The second half, under the mutex of the finalized: push a finalizer.    *)
CreateLink(t) ==
  LET f == loc[t].fz IN
  /\ pc[t] = "link" /\ ~ Locked(f)
  /\ \/ /\ FreshFinalizers # {}
        /\ LET z == CHOOSE z \in FreshFinalizers : TRUE IN
           /\ alive' = alive \cup {z}
           /\ finalizer' = [finalizer EXCEPT ![z] =
                              [referred |-> CreateArg(t), fate |-> "pending"]]
           /\ finalizers' = [finalizers EXCEPT ![f] = <<z>> \o @]
        /\ CreateReturn(t)
        /\ UNCHANGED <<held, referred_table, referred, next, finalized_queue>>
     \/ /\ FreshFinalizers = {}
        /\ Return(t) /\ UNCHANGED <<heap, lists>>

(* smal_finalizer_remove_all: take the finalized out of the table, then    *)
(* its finalizers under its mutex.                                         *)
RemoveAll(t, p) ==
  /\ MayBegin(t, "remove_all") /\ p \in held /\ referred_table[p] # Nil
  /\ referred_table' = [referred_table EXCEPT ![p] = Nil]
  /\ Goto(t, "take", [NoLocals EXCEPT !.ptr = p, !.fz = referred_table[p]])
  /\ UNCHANGED <<heap, referred, finalizers, next, finalized_queue, finalizer>>

RemoveTake(t) ==
  LET f == loc[t].fz IN
  /\ pc[t] = "take" /\ ~ Locked(f)
  /\ finalizer' = [z \in Finalizers |->
                     IF z \in ToSet(finalizers[f])
                     THEN [finalizer[z] EXCEPT !.fate = "removed"] ELSE finalizer[z]]
  /\ finalizers' = [finalizers EXCEPT ![f] = << >>]
  /\ Return(t)
  /\ UNCHANGED <<heap, referred_table, referred, next, finalized_queue>>

(* smal_finalizer_copy_all: one create for each finalizer, with the mutex  *)
(* of the copied finalized held all the while.                             *)
CopyAll_Same(t, p, q) ==
  /\ MayBegin(t, "copy_all") /\ {p, q} \subseteq held /\ FreshFinalizers # {}
  /\ referred_table[p] # Nil
  /\ Goto(t, "copy_lock", [NoLocals EXCEPT !.ptr = p, !.to = q, !.fz = referred_table[p]])
  /\ UNCHANGED <<heap, lists>>

CopyAll(t, p, q) ==
  /\ MayBegin(t, "copy_all") /\ {p, q} \subseteq held /\ p # q /\ FreshFinalizers # {}
  /\ referred_table[p] # Nil
  /\ Goto(t, "copy_lock", [NoLocals EXCEPT !.ptr = p, !.to = q, !.fz = referred_table[p]])
  /\ UNCHANGED <<heap, lists>>

CopyLock(t) ==
  LET f == loc[t].fz IN
  /\ pc[t] = "copy_lock" /\ ~ Locked(f)
  /\ Goto(t, "copy", [loc[t] EXCEPT !.src = f, !.fz = Nil, !.todo = Len(finalizers[f])])
  /\ UNCHANGED <<heap, lists>>

CopyNext_OffByOne(t) ==
  /\ pc[t] = "copy"
  /\ IF loc[t].todo < 0 THEN Return(t) ELSE Goto(t, "create", loc[t])
  /\ UNCHANGED <<heap, lists>>

CopyNext(t) ==
  /\ pc[t] = "copy"
  /\ IF loc[t].todo = 0 THEN Return(t) ELSE Goto(t, "create", loc[t])
  /\ UNCHANGED <<heap, lists>>

-----------------------------------------------------------------------------
(* smal_finalizer_sweep_some(n): n = 0 runs all.                           *)
SweepSome(t, n) ==
  /\ MayBegin(t, "sweep_some")
  /\ Goto(t, "sweep", [NoLocals EXCEPT !.n = n])
  /\ UNCHANGED <<heap, lists>>

(* The test of its outer loop, on the queue as head.                       *)
SweepLoop_TestsNext(t, head) ==
  IF head = Nil \/ next[head] = Nil THEN Return(t)
  ELSE Goto(t, "pop", [loc[t] EXCEPT !.fz = head])

SweepLoop(t, head) ==
  IF head = Nil THEN Return(t) ELSE Goto(t, "pop", [loc[t] EXCEPT !.fz = head])

SweepHead(t) ==
  /\ pc[t] = "sweep"
  /\ SweepLoop(t, finalized_queue)
  /\ UNCHANGED <<heap, lists>>

(* Its inner loop: take a finalizer, with its mutex, and call its function *)
(* without.                                                                *)
SweepPop(t) ==
  LET f == loc[t].fz IN
  /\ pc[t] = "pop" /\ ~ Locked(f) /\ finalizers[f] # << >>
  /\ finalizers' = [finalizers EXCEPT ![f] = Tail(@)]
  /\ finalizer' = [finalizer EXCEPT ![Head(finalizers[f])].fate = "called"]
  /\ Goto(t, "func", [loc[t] EXCEPT !.z = Head(finalizers[f])])
  /\ UNCHANGED <<heap, referred_table, referred, next, finalized_queue>>

(* The function may store the pointer it is given in a root.               *)
Resurrect(t) ==
  /\ pc[t] = "func" /\ finalizer[loc[t].z].referred \notin held
  /\ held' = held \cup {finalizer[loc[t].z].referred}
  /\ UNCHANGED <<alive, lists, pc, loc>>

(* It returns; the n-th one ends the call, with no lock held.              *)
FuncReturn(t) ==
  /\ pc[t] = "func"
  /\ IF loc[t].n = 1 THEN Return(t) ELSE Goto(t, "pop", [loc[t] EXCEPT !.z = Nil])
  /\ UNCHANGED <<heap, lists>>

(* No finalizer is left: the queue goes on after this finalized.  The test *)
(* at 310 and the change of the queue at 337 are one step.                 *)
SweepNext_ClearsFirst(t) ==
  LET f == loc[t].fz IN
  /\ pc[t] = "pop" /\ ~ Locked(f) /\ finalizers[f] = << >>
  /\ finalized_queue' = Nil
  /\ next' = [next EXCEPT ![f] = Nil]
  /\ SweepLoop(t, Nil)
  /\ UNCHANGED <<heap, referred_table, referred, finalizers, finalizer>>

SweepNext(t) ==
  LET f == loc[t].fz IN
  /\ pc[t] = "pop" /\ ~ Locked(f) /\ finalizers[f] = << >>
  /\ finalized_queue' = next[f]
  /\ next' = [next EXCEPT ![f] = Nil]
  /\ SweepLoop(t, next[f])
  /\ UNCHANGED <<heap, referred_table, referred, finalizers, finalizer>>

-----------------------------------------------------------------------------
(* smal_object_reachableQ in after_mark: after_mark_1 has only queued the  *)
(* table for marking, so it asks what the client's roots alone reach.      *)
Reachable(p) == p \in Pointed(held)

(* referred_sweeped puts each finalized at the head, in the order of the   *)
(* iteration over the table.                                               *)
NextWith(order) ==
  [f \in Finalized |->
     IF f \notin ToSet(order) THEN next[f]
     ELSE LET i == CHOOSE i \in 1 .. Len(order) : order[i] = f
          IN  IF i = 1 THEN finalized_queue ELSE order[i - 1]]

(* What after_mark marks: the finalized that were in the table, what       *)
(* referred_sweeped queued, and the queue from its head on.                *)
FinalizerRoots_NoQueue == InTable

FinalizerRoots == InTable \cup {finalized_queue'}

(* A collection: marking, smal_finalizer_after_mark, the sweep, and then   *)
(* after_sweep in the same call.                                           *)
Collect(t) ==
  /\ MayBegin(t, "collect")
  /\ LET unreachable == {p \in Referred : referred_table[p] # Nil /\ ~ Reachable(p)} IN
     \E order \in SetToSeqs({referred_table[p] : p \in unreachable}) :
       /\ \A f \in ToSet(order) : ~ Locked(f)
       /\ next' = NextWith(order)
       /\ finalized_queue' = IF order = << >> THEN finalized_queue ELSE Last(order)
       /\ referred_table' = [p \in Referred |->
                               IF p \in unreachable THEN Nil ELSE referred_table[p]]
  /\ alive' = alive \cap Reach(held \cup FinalizerRoots, next')
  /\ Goto(t, "sweep", [NoLocals EXCEPT !.n = SweepAmount])
  /\ UNCHANGED <<held, referred, finalizers, finalizer>>

Step(t) ==
  \/ CreateFind(t) \/ CreateLink(t)
  \/ RemoveTake(t)
  \/ CopyLock(t) \/ CopyNext(t)
  \/ SweepHead(t) \/ SweepPop(t) \/ FuncReturn(t) \/ SweepNext(t)

Call(t) ==
  \/ \E p \in Referred : Create(t, p) \/ RemoveAll(t, p)
  \/ \E p, q \in Referred : CopyAll(t, p, q)
  \/ \E n \in {0, 1} : SweepSome(t, n)
  \/ Collect(t)

Next ==
  \/ \E p \in Referred : Drop(p) \/ Load(p)
  \/ \E t \in Threads : Call(t) \/ Step(t) \/ Resurrect(t)

(* A thread goes on with its call, and the program collects again and      *)
(* again.                                                                  *)
Spec ==
  /\ Init /\ [][Next]_vars
  /\ \A t \in Threads : WF_vars(Step(t))
  /\ SF_vars(\E t \in Threads : Collect(t))

-----------------------------------------------------------------------------
HeldReach == Pointed(held)

Pending(z) == finalizer[z].fate = "pending"

(* A finalizer that was created, and neither removed nor run, is in the    *)
(* list of an object of the table or of the queue, or of one that a        *)
(* remove_all or sweep_some under way has taken: the pointers kept in      *)
(* locals while functions run, and the links read after, lose none.        *)
NoneLost ==
  LET taken == {loc[t].fz : t \in {u \in Threads : pc[u] \in {"take", "pop", "func"}}}
      looked == InTable \cup Queued \cup taken
  IN \A z \in Finalizers : Pending(z) => \E f \in looked : z \in ToSet(finalizers[f])

(* The collector leaves alone what a function will be given: a finalizer   *)
(* not yet run, its object and all the object reaches; also what a running *)
(* function has, and what a thread's locals point to.  A queue left by a   *)
(* limited sweep_some survives the next collections.                       *)
KeptForFinalizer ==
  /\ \A z \in Finalizers :
       Pending(z) => {z} \cup Pointed({finalizer[z].referred}) \subseteq alive
  /\ \A t \in Threads :
       /\ {loc[t].fz, loc[t].src, loc[t].z} \ {Nil} \subseteq alive
       /\ loc[t].z # Nil => Pointed({finalizer[loc[t].z].referred}) \subseteq alive
  /\ HeldReach \subseteq alive

(* smal_finalizer_copy_all locks the mutex of another finalized under the  *)
(* one it holds (finalizer.c:197, 144): no calls wait for each other's in  *)
(* a circle, and none for its own.                                         *)
Holds(u, f) ==
  f \in Finalized /\ loc[u].src = f /\ pc[u] \in {"copy", "create", "link"}

WaitsFor(t, u) ==
  pc[t] \in {"link", "take", "copy_lock", "pop"} /\ Holds(u, loc[t].fz)

NoDeadlock ==
  \A S \in SUBSET Threads : S # {} => \E t \in S : \A u \in S : ~ WaitsFor(t, u)

(* The finalizer of an object out of the client's reach is run or removed  *)
(* in the end, also when each sweep_some runs only one, unless a function  *)
(* brings the object back into reach.                                      *)
EveryFinalizerRuns ==
  \A z \in Finalizers :
    (Pending(z) /\ finalizer[z].referred \notin HeldReach) ~>
      (~ Pending(z) \/ finalizer[z].referred \in HeldReach)

=============================================================================
