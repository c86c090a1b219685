------------------------- MODULE SmalReferenceProofs -------------------------
(***************************************************************************)
(* For any number of threads, objects, references and queues: the table    *)
(* of references is exact whatever the client does; and if the client is   *)
(* careful, weak references keep what it holds, never change their object, *)
(* and give each notice once, when the object is lost for good.            *)
(***************************************************************************)
EXTENDS SmalReference, SequenceTheorems, FunctionTheorems, FiniteSetTheorems, TLAPS

-----------------------------------------------------------------------------
(* The inductive invariants, part by part.                                 *)

(* The table.  A reference that is not allocated refers to nothing.        *)
TableInv ==
  /\ referred_table \in [Referred -> References \cup {Nil}]
  /\ referred \in [References -> Referred \cup {Nil}]
  /\ alive \subseteq Objects
  /\ loc \in [Threads -> Locals]
  /\ \A p \in Referred, r \in References : referred_table[p] = r <=> referred[r] = p
  /\ \A r \in References : referred[r] # Nil => r \in alive

(* The clients served: they create references only between collections,    *)
(* and make no pointers of references while before_sweep clears these.     *)
CarefulClient ==
  /\ MayCall["create"] \subseteq {"idle"}
  /\ MayCall["referred"] \subseteq {"idle", "stopping", "sweep"}

(* Only one thread collects, and from marking on the others are not in a   *)
(* call.                                                                   *)
Collecting == {"stopping", "marked", "clear", "requeue", "sweep"}

ThreadsOK ==
  \A t, u \in Threads : pc[t] \in Collecting /\ t # u =>
    pc[u] \in IF pc[t] = "stopping" THEN {"idle", "lock_queue", "link"} ELSE {"idle"}

(* What a thread is about to register: a queue with a reference to an      *)
(* object that it holds.                                                   *)
CreatingOK ==
  \A t \in Threads : pc[t] \in {"lock_queue", "link"} =>
    /\ loc[t].ptr \in held \cap Referred /\ loc[t].q \in held \cap Queues
    /\ loc[t].r \in References /\ referred[loc[t].r] = loc[t].ptr
    /\ pc[t] = "link" =>
         /\ owed[<<loc[t].r, loc[t].q>>] < MaxOwed
         /\ \A u \in Threads \ {t} : pc[u] = "link" => loc[u].q # loc[t].q

(* What before_sweep has still to clear: every marked reference whose      *)
(* object is not marked.                                                   *)
Uncleared == {r \in References \cap marks : referred[r] # Nil /\ referred[r] \notin marks}

ClearingOK ==
  \A t \in Threads :
    /\ pc[t] \in {"clear", "requeue"} => Uncleared \subseteq loc[t].todo /\ loc[t].todo \subseteq marks
    /\ pc[t] = "requeue" => loc[t].r \in References \cap marks /\ referred[loc[t].r] = Nil
    /\ pc[t] = "sweep" => Uncleared = {}

(* What stays: all that is allocated, and only the marked when the sweep   *)
(* has begun.                                                              *)
Staying == IF Phase = "sweep" THEN marks ELSE alive

(* What stays leads to what stays, and so does what the client holds.      *)
StayingOK ==
  /\ held \subseteq Staying /\ \A o \in Staying : Marks(o) \subseteq Staying
  /\ Phase \in {"before_sweep", "sweep"} =>
       held \subseteq marks /\ marks \subseteq alive /\ \A o \in marks : Marks(o) \subseteq marks

(* Nothing is left of what has been swept.                                 *)
SweptOK ==
  /\ \A r \in References \ alive : reference_queue_list[r] = << >>
  /\ \A q \in Queues \ alive : reference_list[q] = << >>
  /\ \A r \in References, q \in Queues : r \notin alive \/ q \notin alive => owed[<<r, q>>] = 0

(* SameObject and OneNotice, of every reference that stays.                *)
ObjectOK ==
  \A r \in References \cap Staying :
    referred[r] # Nil => referred[r] \in alive /\ origin[r] = <<referred[r], gen[referred[r]]>>

NoticeOK ==
  \A r \in References \cap Staying :
    /\ \A q \in Queues \cap alive :
         /\ owed[<<r, q>>] = Occurrences(reference_queue_list[r], q)
                         + Occurrences(reference_list[q], r)
         /\ referred[r] # Nil => r \notin ToSet(reference_list[q])
    /\ referred[r] = Nil /\ ~ ReferenceLocked(r) => reference_queue_list[r] = << >>

IInv ==
  /\ TypeOK /\ TableInv /\ ThreadsOK /\ CreatingOK /\ ClearingOK
  /\ StayingOK /\ SweptOK /\ ObjectOK /\ NoticeOK

-----------------------------------------------------------------------------
(* The table, whatever the client does.                                    *)

(* A thread that goes on has locals of the right type. *)
LEMMA GotoLocals ==
  ASSUME loc \in [Threads -> Locals], NEW t \in Threads, NEW label,
         NEW l \in Locals, Goto(t, label, l)
  PROVE  /\ loc' \in [Threads -> Locals]
         /\ loc'[t] = l /\ \A u \in Threads \ {t} : loc'[u] = loc[u]
BY DEF Goto

(* A thread in no operation has locals of their types. *)
LEMMA NoLocalsOK == NoLocals \in Locals
BY DEF NoLocals, Locals

(* A step that touches neither the table nor the references.               *)
LEMMA LinksStay ==
  ASSUME TableInv, UNCHANGED <<referred_table, referred>>,
         alive \subseteq alive', alive' \subseteq Objects, loc' \in [Threads -> Locals]
  PROVE  TableInv'
BY DEF TableInv

(* ... of the client. *)
LEMMA ClientTable ==
  ASSUME TableInv,
         \/ \E p \in Referred : New(p)
         \/ \E q \in Queues : smal_reference_queue_create(q) \/ smal_reference_queue_take(q)
         \/ \E o \in Objects : Drop(o)
         \/ \E r \in References : smal_reference_referred(r)
  PROVE  TableInv'
BY ZenonT(30), LinksStay DEF New, smal_reference_queue_create, smal_reference_queue_take, Drop,
                 smal_reference_referred, Alloc, lists, TableInv, Objects

(* smal_reference_create_weak.                                             *)
LEMMA CreateTable ==
  ASSUME TableInv, NEW t \in Threads, NEW p \in Referred, NEW q \in Queues \cup {Nil},
         smal_reference_create_weak(t, p, q)
  PROVE  TableInv'
<1>1. ASSUME NEW r \in References, Found(t, r, p, q)
      PROVE  loc' \in [Threads -> Locals]
  <2>1. [NoLocals EXCEPT !.ptr = p, !.q = q, !.r = r] \in Locals
    BY DEF NoLocals, Locals
  <2>. QED BY <1>1, <2>1, GotoLocals, NoLocalsOK DEF Found, ReturnReference, Return, TableInv
<1>2. CASE FindReference(t, p, q)
  <2>1. referred_table[p] \in References
    BY <1>2 DEF FindReference, TableInv
  <2>. QED BY <1>1, <1>2, <2>1, LinksStay DEF FindReference, lists, TableInv
<1>3. CASE referred_table[p] = Nil /\ NewReference(t, p, q)
  <2>1. PICK r \in References \ alive :
          /\ alive' = alive \cup {r} /\ Found(t, r, p, q)
          /\ referred' = [referred EXCEPT ![r] = p]
          /\ referred_table' = [referred_table EXCEPT ![p] = r]
    BY <1>3 DEF NewReference, Alloc
  <2>2. Nil \notin References /\ Nil \notin Referred /\ r \in Objects
    BY <2>1, ReferenceAssumption DEF Objects
  <2>3. referred[r] = Nil
    BY <2>1 DEF TableInv
  <2>4. loc' \in [Threads -> Locals]
    BY <1>1, <2>1
  <2>. QED BY <1>3, <2>1, <2>2, <2>3, <2>4 DEF TableInv
<1>. QED BY <1>2, <1>3 DEF smal_reference_create_weak

(* A thread that goes on, other than with clearing or sweeping.            *)
LEMMA OtherTable ==
  ASSUME TableInv, NEW t \in Threads,
         \/ CreateLockQueue(t) \/ CreateLink(t) \/ Collect(t) \/ Mark(t) \/ BeforeSweep(t)
         \/ Requeue(t) \/ Cleared(t) \/ BeginSweep(t) \/ EndCollect(t)
  PROVE  TableInv'
<1> USE NoLocalsOK
<1>1. loc[t] \in Locals
  BY DEF TableInv
<1>2. CASE CreateLockQueue(t) \/ CreateLink(t) \/ Requeue(t)
  BY <1>1, <1>2, GotoLocals, LinksStay
     DEF CreateLockQueue, CreateLink, Requeue, ReturnReference, Return, heap, lists, TableInv
<1>3. CASE Collect(t) \/ Mark(t) \/ BeginSweep(t) \/ EndCollect(t)
  BY <1>3, GotoLocals, LinksStay
     DEF Collect, Mark, BeginSweep, EndCollect, Return, heap, lists, TableInv
<1>4. CASE BeforeSweep(t)
  <2> DEFINE l == [NoLocals EXCEPT !.todo = ToClear({referred_table[p] : p \in Referred} \ {Nil})]
  <2>1. l \in Locals
    BY DEF NoLocals, Locals, ToClear, TableInv
  <2>2. Goto(t, "clear", l) /\ UNCHANGED <<heap, lists>>
    BY <1>4 DEF BeforeSweep
  <2>. QED BY <2>1, <2>2, GotoLocals, LinksStay DEF heap, lists, TableInv
<1>5. CASE Cleared(t)
  <2>1. [loc[t] EXCEPT !.r = Nil] \in Locals
    BY <1>1 DEF Locals
  <2>. QED BY <1>5, <2>1, GotoLocals, LinksStay DEF Cleared, heap, lists, TableInv
<1>. QED BY <1>2, <1>3, <1>4, <1>5

(* referred_sweeped: the object and its reference forget each other.       *)
LEMMA ClearTable ==
  ASSUME TableInv, NEW t \in Threads, ClearReference(t)
  PROVE  TableInv'
<1>1. PICK r \in loc[t].todo :
        Unlink(r) /\ Goto(t, "requeue", [loc[t] EXCEPT !.r = r, !.todo = @ \ {r}])
  BY DEF ClearReference
<1>2. r \in References /\ [loc[t] EXCEPT !.r = r, !.todo = @ \ {r}] \in Locals
  <2>1. loc[t] \in Locals
    BY DEF TableInv
  <2>2. r \in References /\ loc[t].todo \ {r} \in SUBSET References
    BY <1>1, <2>1 DEF Locals
  <2>. QED BY <2>1, <2>2 DEF Locals
<1>3. loc' \in [Threads -> Locals] /\ alive' = alive
  BY <1>1, <1>2, GotoLocals DEF ClearReference, TableInv, heap
<1>4. /\ referred' = [referred EXCEPT ![r] = Nil]
      /\ referred_table' = [referred_table EXCEPT ![referred[r]] = Nil]
  BY <1>1 DEF Unlink
<1>5. CASE referred[r] = Nil
  <2>1. UNCHANGED <<referred, referred_table>>
    BY <1>2, <1>4, <1>5, ReferenceAssumption DEF TableInv
  <2>. QED BY <1>3, <2>1, LinksStay DEF TableInv
<1>6. CASE referred[r] # Nil
  <2>1. referred[r] \in Referred
    BY <1>2, <1>6 DEF TableInv
  <2>. QED BY <1>2, <1>3, <1>4, <2>1, ReferenceAssumption DEF TableInv
<1>. QED BY <1>5, <1>6

(* The sweep frees a reference, or something else. *)
LEMMA SweepTable ==
  ASSUME TableInv, NEW t \in Threads, NEW o \in Objects, SweepObject(t, o)
  PROVE  TableInv'
<1>1. alive' = alive \ {o} /\ loc' = loc
  BY DEF SweepObject
<1>2. CASE o \in References
  <2>1. o \notin Queues /\ o \notin Referred
    BY <1>2, ReferenceAssumption
  <2>2. reference_free(o)
    BY <2>1 DEF SweepObject
  <2>. QED BY <1>1, <1>2, <2>2, ReferenceAssumption DEF reference_free, TableInv
<1>3. CASE o \notin References
  <2>1. UNCHANGED <<referred_table, referred>>
    BY <1>3 DEF SweepObject, ref_queue_free, lists
  <2>. QED BY <1>1, <1>3, <2>1 DEF TableInv
<1>. QED BY <1>2, <1>3

(* Every step. *)
LEMMA StepTable == ASSUME TableInv, [Next]_vars PROVE TableInv'
<1>1. CASE Client
  BY <1>1, ClientTable, CreateTable DEF Client
<1>2. ASSUME NEW t \in Threads, Collect(t) \/ Step(t)
      PROVE  TableInv'
  BY <1>2, OtherTable, ClearTable, SweepTable DEF Step
<1>3. CASE UNCHANGED vars
  BY <1>3 DEF vars, heap, lists, TableInv
<1>. QED BY <1>1, <1>2, <1>3 DEF Next

(* The table is right from the beginning. *)
LEMMA InitTable == ASSUME Init PROVE TableInv
BY NoLocalsOK, ReferenceAssumption DEF Init, TableInv

(* TableInv holds of every client. *)
THEOREM TableInvariant == Spec => []TableInv
<1>1. Init => TableInv
  BY InitTable
<1>2. TableInv /\ [Next]_vars => TableInv'
  BY StepTable
<1>. QED BY <1>1, <1>2, PTL DEF Spec

(* Whatever the client calls and when: an entry of referred_table is the   *)
(* one reference to its object, and never one that was swept or cleared.   *)
THEOREM TableIsExact == Spec => []TableExact
<1>1. TableInv => TableExact
  BY ReferenceAssumption DEF TableInv, TableExact
<1>. QED BY <1>1, TableInvariant, PTL

-----------------------------------------------------------------------------
(* What can be reached.                                                    *)

(* Reach(from) holds "from", is closed, and is the least such set.         *)
LEMMA Reached ==
  ASSUME NEW from \in SUBSET Objects, \A o \in Objects : Marks(o) \subseteq Objects
  PROVE  /\ from \subseteq Reach(from) /\ Reach(from) \subseteq Objects
         /\ \A o \in Reach(from) : Marks(o) \subseteq Reach(from)
         /\ \A S \in SUBSET Objects :
               from \subseteq S /\ (\A o \in S : Marks(o) \subseteq S) => Reach(from) \subseteq S
<1> DEFINE pointers == UNION {{o} \X Marks(o) : o \in Objects}
           near     == from \cup {e[2] : e \in pointers}
           closed   == {S \in SUBSET near : /\ from \subseteq S
                                            /\ \A e \in pointers : e[1] \in S => e[2] \in S}
<1>1. Reach(from) = {o \in near : \A S \in closed : o \in S}
  BY Zenon DEF Reach
<1>2. \A e : e \in pointers <=> \E o \in Objects : \E m \in Marks(o) : e = <<o, m>>
  OBVIOUS
<1>3. \A o \in Objects : \A m \in Marks(o) : <<o, m>> \in pointers /\ m \in near
  <2>. SUFFICES ASSUME NEW o \in Objects, NEW m \in Marks(o)
                PROVE  <<o, m>> \in pointers /\ m \in near
    OBVIOUS
  <2>1. <<o, m>> \in pointers
    BY <1>2
  <2>. QED BY <2>1
<1>4. near \subseteq Objects
  BY <1>2
<1> HIDE DEF pointers, near
<1>5. from \subseteq Reach(from) /\ Reach(from) \subseteq Objects
  BY <1>1, <1>4 DEF near
<1>6. ASSUME NEW o \in Reach(from), NEW m \in Marks(o)
      PROVE  m \in Reach(from)
  <2>1. <<o, m>> \in pointers /\ m \in near
    BY <1>3, <1>5
  <2>2. ASSUME NEW S \in closed PROVE m \in S
    BY <1>1, <2>1
  <2>. QED BY <1>1, <2>1, <2>2
<1>7. ASSUME NEW S \in SUBSET Objects, from \subseteq S, \A o \in S : Marks(o) \subseteq S
      PROVE  Reach(from) \subseteq S
  <2>1. S \cap near \in closed
    <3>1. from \subseteq S \cap near
      BY <1>7 DEF near
    <3>2. ASSUME NEW e \in pointers, e[1] \in S \cap near
          PROVE  e[2] \in S \cap near
      <4>1. PICK o \in Objects : \E m \in Marks(o) : e = <<o, m>>
        BY <1>2, <3>2
      <4>. QED BY <1>3, <1>7, <3>2, <4>1
    <3>. QED BY <3>1, <3>2
  <2>. QED BY <1>1, <2>1
<1>. QED BY <1>5, <1>6, <1>7

-----------------------------------------------------------------------------
(* Sequences.                                                              *)

(* A sequence holds x as often as it says. *)
LEMMA OccurrencesType ==
  ASSUME NEW T, NEW s \in Seq(T), NEW x
  PROVE  /\ IsFiniteSet({i \in DOMAIN s : s[i] = x})
         /\ Occurrences(s, x) \in Nat
         /\ Occurrences(s, x) = 0 <=> x \notin ToSet(s)
<1> DEFINE I == {i \in DOMAIN s : s[i] = x}
<1>1. IsFiniteSet(DOMAIN s)
  BY LenProperties, FS_Interval
<1>2. IsFiniteSet(I)
  BY <1>1, FS_Subset
<1>3. Cardinality(I) \in Nat /\ (Cardinality(I) = 0 <=> I = {})
  BY <1>2, FS_CardinalityType, FS_EmptySet
<1>. QED BY <1>2, <1>3 DEF Occurrences, ToSet

(* The empty sequence holds nothing. *)
LEMMA EmptyHolds ==
  /\ ToSet(<< >>) = {}
  /\ \A x : Occurrences(<< >>, x) = 0
<1>1. DOMAIN << >> = {}
  OBVIOUS
<1>2. \A x : {i \in DOMAIN << >> : << >>[i] = x} = {}
  BY <1>1
<1>3. \A x : Occurrences(<< >>, x) = 0
  BY <1>2, FS_EmptySet, Zenon DEF Occurrences
<1>. QED BY <1>1, <1>3 DEF ToSet

(* An element that is put in front. *)
LEMMA InFront ==
  ASSUME NEW T, NEW s \in Seq(T), NEW x \in T
  PROVE  /\ <<x>> \o s \in Seq(T)
         /\ ToSet(<<x>> \o s) = ToSet(s) \cup {x}
         /\ \A y : Occurrences(<<x>> \o s, y) = Occurrences(s, y) + IF x = y THEN 1 ELSE 0
<1> DEFINE w == <<x>> \o s
<1>1. <<x>> \in Seq(T) /\ Len(<<x>>) = 1 /\ <<x>>[1] = x
  OBVIOUS
<1>2. Len(s) \in Nat /\ DOMAIN s = 1..Len(s)
  BY LenProperties
<1>3. /\ w \in Seq(T) /\ Len(w) = Len(s) + 1 /\ DOMAIN w = 1..(Len(s) + 1)
      /\ w[1] = x /\ \A i \in 1..Len(s) : w[i + 1] = s[i]
  BY <1>1, <1>2, ConcatProperties, LenProperties
<1> HIDE DEF w
<1>4. ToSet(w) = ToSet(s) \cup {x}
  <2>1. \A i \in DOMAIN w : i = 1 \/ (i - 1 \in DOMAIN s /\ w[i] = s[i - 1])
    BY <1>2, <1>3
  <2>2. ToSet(w) \subseteq ToSet(s) \cup {x}
    BY <1>3, <2>1 DEF ToSet
  <2>3. ASSUME NEW i \in DOMAIN s PROVE s[i] \in ToSet(w)
    BY <1>2, <1>3 DEF ToSet
  <2>4. x \in ToSet(w)
    BY <1>2, <1>3 DEF ToSet
  <2>. QED BY <2>2, <2>3, <2>4 DEF ToSet
<1>5. ASSUME NEW y
      PROVE  Occurrences(w, y) = Occurrences(s, y) + IF x = y THEN 1 ELSE 0
  <2> DEFINE I == {i \in DOMAIN s : s[i] = y}
             J == {i \in DOMAIN w : w[i] = y /\ i # 1}
             K == {i \in DOMAIN w : w[i] = y}
             f == [i \in I |-> i + 1]
  <2>1. IsFiniteSet(I) /\ Cardinality(I) \in Nat
    BY OccurrencesType DEF Occurrences
  <2>2. f \in Bijection(I, J)
    <3>1. f \in [I -> J]
      BY <1>2, <1>3
    <3>2. \A a, b \in I : f[a] = f[b] => a = b
      BY <1>2
    <3>3. ASSUME NEW j \in J PROVE \E i \in I : f[i] = j
      <4>1. j - 1 \in I /\ f[j - 1] = j
        BY <1>2, <1>3
      <4>. QED BY <4>1
    <3> HIDE DEF f, I, J
    <3>. QED BY <3>1, <3>2, <3>3, Fun_IsBij
  <2>3. IsFiniteSet(J) /\ Cardinality(J) = Cardinality(I)
    <3> HIDE DEF f, I, J
    <3>. QED BY <2>1, <2>2, FS_Bijection DEF ExistsBijection
  <2>4. K = IF x = y THEN J \cup {1} ELSE J
    BY <1>2, <1>3
  <2>5. Cardinality(K) = Cardinality(I) + IF x = y THEN 1 ELSE 0
    <3>1. 1 \notin J
      OBVIOUS
    <3> HIDE DEF f, I, J, K
    <3>2. Cardinality(J \cup {1}) = Cardinality(J) + 1
      BY <2>3, <3>1, FS_AddElement
    <3>. QED BY <2>1, <2>3, <2>4, <3>2
  <2>. QED BY <2>5 DEF Occurrences
<1>. QED BY <1>3, <1>4, <1>5 DEF w

(* The first element is taken off. *)
LEMMA TakenOff ==
  ASSUME NEW T, NEW s \in Seq(T), s # << >>
  PROVE  /\ Head(s) \in T /\ Tail(s) \in Seq(T) /\ Head(s) \in ToSet(s)
         /\ ToSet(Tail(s)) \subseteq ToSet(s)
         /\ \A y : Occurrences(s, y) = Occurrences(Tail(s), y) + IF Head(s) = y THEN 1 ELSE 0
<1> DEFINE h == Head(s)
           t == Tail(s)
<1>1. h \in T /\ t \in Seq(T)
  BY HeadTailProperties
<1>2. s = <<h>> \o t
  OBVIOUS
<1> HIDE DEF h, t
<1>3. /\ ToSet(<<h>> \o t) = ToSet(t) \cup {h}
      /\ \A y : Occurrences(<<h>> \o t, y) = Occurrences(t, y) + IF h = y THEN 1 ELSE 0
  BY <1>1, InFront
<1>4. /\ ToSet(s) = ToSet(t) \cup {h}
      /\ \A y : Occurrences(s, y) = Occurrences(t, y) + IF h = y THEN 1 ELSE 0
  BY <1>2, <1>3, Zenon
<1>. QED BY <1>1, <1>4 DEF h, t

-----------------------------------------------------------------------------
(* What a careful client leads to.                                         *)

(* Who points to what. *)
LEMMA MarksOf ==
  /\ \A r \in References : Marks(r) = ToSet(reference_queue_list[r])
  /\ \A q \in Queues : Marks(q) = ToSet(reference_list[q])
  /\ \A p \in Referred : Marks(p) = {}
BY ReferenceAssumption DEF Marks, reference_mark, ref_queue_mark

(* ... after a step. *)
LEMMA MarksOfNext ==
  /\ \A r \in References : Marks(r)' = ToSet(reference_queue_list'[r])
  /\ \A q \in Queues : Marks(q)' = ToSet(reference_list'[q])
  /\ \A p \in Referred : Marks(p)' = {}
BY ReferenceAssumption DEF Marks, reference_mark, ref_queue_mark

(* Pointers lead to objects. *)
LEMMA MarksTyped ==
  ASSUME TypeOK
  PROVE  /\ \A o \in Objects : Marks(o) \subseteq Objects
         /\ \A r \in References : Marks(r) \subseteq Queues
         /\ \A q \in Queues : Marks(q) \subseteq References
<1>1. ASSUME NEW T, NEW s \in Seq(T) PROVE ToSet(s) \subseteq T
  BY ElementOfSeq, LenProperties DEF ToSet
<1>2. /\ \A r \in References : reference_queue_list[r] \in Seq(Queues)
      /\ \A q \in Queues : reference_list[q] \in Seq(References)
  BY DEF TypeOK
<1>3. \A r \in References : Marks(r) \subseteq Queues
  BY <1>1, <1>2, MarksOf
<1>4. \A q \in Queues : Marks(q) \subseteq References
  BY <1>1, <1>2, MarksOf
<1>. QED BY <1>3, <1>4, MarksOf DEF Objects

(* The phase is that of the thread that collects, if there is one. *)
LEMMA PhaseOf ==
  ASSUME ThreadsOK
  PROVE  /\ \A t \in Threads : pc[t] \in {"marked", "clear", "requeue"} <=>
                                 Phase = "before_sweep" /\ pc[t] \in Collecting
         /\ \A t \in Threads : pc[t] = "sweep" <=> Phase = "sweep" /\ pc[t] \in Collecting
         /\ \A t \in Threads : pc[t] = "stopping" <=> Phase = "stopping" /\ pc[t] \in Collecting
         /\ Phase = "idle" <=> \A t \in Threads : pc[t] \notin Collecting
         /\ Phase \in Phases
BY DEF Phase, ThreadsOK, Collecting, Phases

(* ... after a step. *)
LEMMA PhaseOfNext ==
  ASSUME ThreadsOK'
  PROVE  /\ \A t \in Threads : pc'[t] \in {"marked", "clear", "requeue"} <=>
                                 Phase' = "before_sweep" /\ pc'[t] \in Collecting
         /\ \A t \in Threads : pc'[t] = "sweep" <=> Phase' = "sweep" /\ pc'[t] \in Collecting
         /\ \A t \in Threads : pc'[t] = "stopping" <=> Phase' = "stopping" /\ pc'[t] \in Collecting
         /\ Phase' = "idle" <=> \A t \in Threads : pc'[t] \notin Collecting
         /\ Phase' \in Phases
BY DEF Phase, ThreadsOK, Collecting, Phases

(* A thread that goes on. *)
LEMMA GotoPlace ==
  ASSUME TypeOK, NEW t \in Threads, NEW label, NEW l, Goto(t, label, l)
  PROVE  /\ pc' = [pc EXCEPT ![t] = label] /\ pc'[t] = label
         /\ \A u \in Threads \ {t} : pc'[u] = pc[u]
BY DEF Goto, TypeOK

(* Who is in a call while a collection runs. *)
LEMMA InCall ==
  ASSUME IInv, NEW t \in Threads, pc[t] \in {"lock_queue", "link"}
  PROVE  Phase \in {"idle", "stopping"} /\ Staying = alive
<1>1. Phase \in {"idle", "stopping"}
  BY PhaseOf DEF IInv, ThreadsOK, Collecting, Phase
<1>. QED BY <1>1 DEF Staying

(* What stays is allocated. *)
LEMMA StayingAllocated ==
  ASSUME IInv
  PROVE  /\ Staying \subseteq alive /\ held \subseteq Staying /\ held \subseteq alive
         /\ \A o \in Staying : Marks(o) \subseteq Staying
         /\ Phase # "sweep" => Staying = alive
         /\ Phase = "sweep" => Staying = marks
BY DEF IInv, StayingOK, Staying

(* A step that changes no list and no history, and after which nothing     *)
(* else stays. *)
LEMMA ListsStay ==
  ASSUME IInv, UNCHANGED <<alive, lists, history>>, Staying' \subseteq Staying,
         \A r \in References : ReferenceLocked(r) /\ reference_queue_list[r] # << >>
                                 => ReferenceLocked(r)'
  PROVE  /\ SweptOK' /\ ObjectOK' /\ NoticeOK'
         /\ \A o : Marks(o)' = Marks(o)
<1>1. UNCHANGED <<referred_table, referred, reference_queue_list, reference_list, gen, origin, owed>>
  BY DEF lists, history
<1>2. SweptOK' /\ ObjectOK'
  BY <1>1 DEF IInv, SweptOK, ObjectOK
<1>3. NoticeOK'
  BY <1>1 DEF IInv, NoticeOK
<1>4. \A o : Marks(o)' = Marks(o)
  BY <1>1 DEF Marks, reference_mark, ref_queue_mark
<1>. QED BY <1>2, <1>3, <1>4

(* The client allocates an object. *)
LEMMA NewSafe ==
  ASSUME IInv, NEW p \in Referred, New(p)
  PROVE  IInv'
<1>1. /\ p \notin alive /\ p \in Objects /\ p \notin References /\ p \notin Queues
      /\ alive' = alive \cup {p} /\ held' = held \cup {p}
      /\ marks' = IF Phase \in {"idle", "stopping"} THEN marks ELSE marks \cup {p}
      /\ gen' = [gen EXCEPT ![p] = @ + 1] /\ gen[p] < MaxGen
      /\ UNCHANGED <<lists, pc, loc, origin, owed>>
      /\ UNCHANGED <<referred_table, referred, reference_queue_list, reference_list>>
  BY ReferenceAssumption DEF New, Alloc, Objects, lists
<1>2. TableInv'
  BY ClientTable DEF IInv
<1>3. TypeOK'
  BY <1>1, ReferenceAssumption DEF IInv, TypeOK
<1>4. Phase' = Phase /\ Staying' = Staying \cup {p}
  <2>1. Phase' = Phase
    BY <1>1 DEF Phase
  <2>. QED BY <1>1, <2>1 DEF Staying
<1>5. \A o : Marks(o)' = Marks(o)
  BY <1>1 DEF Marks, reference_mark, ref_queue_mark
<1>6. Marks(p) = {}
  BY MarksOf
<1>7. ThreadsOK' /\ CreatingOK'
  BY <1>1 DEF IInv, ThreadsOK, CreatingOK
<1>8. ClearingOK'
  <2>1. Uncleared' \subseteq Uncleared /\ marks \subseteq marks'
    BY <1>1 DEF Uncleared
  <2>. QED BY <1>1, <2>1 DEF IInv, ClearingOK
<1>9. StayingOK'
  BY <1>1, <1>4, <1>5, <1>6 DEF IInv, StayingOK
<1>10. SweptOK'
  BY <1>1 DEF IInv, SweptOK
<1>11. ObjectOK'
  BY <1>1, <1>4 DEF IInv, TypeOK, ObjectOK
<1>12. NoticeOK'
  BY <1>1, <1>4 DEF IInv, NoticeOK, ReferenceLocked
<1>. QED BY <1>2, <1>3, <1>7, <1>8, <1>9, <1>10, <1>11, <1>12 DEF IInv

(* ... or a queue. *)
LEMMA QueueCreateSafe ==
  ASSUME IInv, NEW q \in Queues, smal_reference_queue_create(q)
  PROVE  IInv'
<1>1. /\ q \notin alive /\ q \in Objects /\ q \notin References /\ q \notin Referred
      /\ alive' = alive \cup {q} /\ held' = held \cup {q}
      /\ marks' = IF Phase \in {"idle", "stopping"} THEN marks ELSE marks \cup {q}
      /\ UNCHANGED <<pc, loc, gen, origin, owed>>
      /\ UNCHANGED <<referred_table, referred, reference_queue_list, reference_list>>
  BY ReferenceAssumption DEF smal_reference_queue_create, Alloc, Objects, lists, history
<1>2. TableInv'
  BY ClientTable DEF IInv
<1>3. TypeOK'
  BY <1>1 DEF IInv, TypeOK
<1>4. Phase' = Phase /\ Staying' = Staying \cup {q}
  <2>1. Phase' = Phase
    BY <1>1 DEF Phase
  <2>. QED BY <1>1, <2>1 DEF Staying
<1>5. \A o : Marks(o)' = Marks(o)
  BY <1>1 DEF Marks, reference_mark, ref_queue_mark
<1>6. reference_list[q] = << >> /\ Marks(q) = {}
  <2>1. reference_list[q] = << >>
    BY <1>1 DEF IInv, SweptOK
  <2>. QED BY <2>1, MarksOf, EmptyHolds
<1>7. ThreadsOK' /\ CreatingOK'
  BY <1>1 DEF IInv, ThreadsOK, CreatingOK
<1>8. ClearingOK'
  <2>1. Uncleared' \subseteq Uncleared /\ marks \subseteq marks'
    BY <1>1 DEF Uncleared
  <2>. QED BY <1>1, <2>1 DEF IInv, ClearingOK
<1>9. StayingOK'
  BY <1>1, <1>4, <1>5, <1>6 DEF IInv, StayingOK
<1>10. SweptOK'
  BY <1>1 DEF IInv, SweptOK
<1>11. ObjectOK'
  BY <1>1, <1>4 DEF IInv, ObjectOK
<1>12. NoticeOK'
  <2>1. ASSUME NEW r \in References \cap Staying
        PROVE  /\ owed[<<r, q>>] = Occurrences(reference_queue_list[r], q)
                               + Occurrences(reference_list[q], r)
               /\ r \notin ToSet(reference_list[q])
    <3>1. owed[<<r, q>>] = 0
      BY <1>1, <2>1 DEF IInv, SweptOK
    <3>2. q \notin ToSet(reference_queue_list[r])
      BY <1>1, <2>1, MarksOf, StayingAllocated
    <3>3. r \notin ToSet(reference_list[q])
      BY <1>6, EmptyHolds
    <3>4. reference_queue_list[r] \in Seq(Queues) /\ reference_list[q] \in Seq(References)
      BY DEF IInv, TypeOK
    <3>5. Occurrences(reference_queue_list[r], q) = 0
      BY <3>2, <3>4, OccurrencesType
    <3>6. Occurrences(reference_list[q], r) = 0
      BY <1>6, EmptyHolds
    <3>. QED BY <3>1, <3>3, <3>5, <3>6
  <2>. QED BY <1>1, <1>4, <2>1 DEF IInv, NoticeOK, ReferenceLocked
<1>. QED BY <1>2, <1>3, <1>7, <1>8, <1>9, <1>10, <1>11, <1>12 DEF IInv

(* ... drops a pointer, or makes one of a weak reference. *)
LEMMA HeldSafe ==
  ASSUME IInv, UNCHANGED <<alive, marks, lists, pc, loc, history>>,
         held' \subseteq Staying,
         \A t \in Threads : pc[t] \in {"lock_queue", "link"} =>
                              loc[t].ptr \in held' /\ loc[t].q \in held',
         Phase \in {"before_sweep", "sweep"} => held' \subseteq marks,
         TableInv'
  PROVE  IInv'
<1>1. UNCHANGED <<referred_table, referred, reference_queue_list, reference_list, gen, origin, owed>>
  BY DEF lists, history
<1>2. Phase' = Phase /\ Staying' = Staying
  <2>1. Phase' = Phase
    BY DEF Phase
  <2>. QED BY <2>1 DEF Staying
<1>3. TypeOK'
  BY <1>1, StayingAllocated DEF IInv, TypeOK
<1>4. ThreadsOK' /\ CreatingOK' /\ ClearingOK'
  BY <1>1 DEF IInv, ThreadsOK, CreatingOK, ClearingOK, Uncleared
<1>5. \A r : ReferenceLocked(r)' = ReferenceLocked(r)
  BY DEF ReferenceLocked
<1>6. SweptOK' /\ ObjectOK' /\ NoticeOK' /\ \A o : Marks(o)' = Marks(o)
  BY <1>2, <1>5, ListsStay
<1>7. StayingOK'
  BY <1>2, <1>6 DEF IInv, StayingOK
<1>. QED BY <1>3, <1>4, <1>6, <1>7 DEF IInv

(* Drop. *)
LEMMA DropSafe ==
  ASSUME IInv, NEW o \in Objects, Drop(o)
  PROVE  IInv'
<1>1. /\ held' = held \ {o} /\ UNCHANGED <<alive, marks, lists, pc, loc, history>>
      /\ \A t \in Threads : o \notin {loc[t].ptr, loc[t].q}
  BY DEF Drop
<1>2. TableInv'
  BY ClientTable DEF IInv
<1>. QED BY <1>1, <1>2, StayingAllocated, HeldSafe DEF IInv, CreatingOK, StayingOK

(* smal_reference_referred. *)
LEMMA ReferredSafe ==
  ASSUME CarefulClient, IInv, NEW r \in References, smal_reference_referred(r)
  PROVE  IInv'
<1>1. /\ held' = held \cup {referred[r]} /\ UNCHANGED <<alive, marks, lists, pc, loc, history>>
      /\ r \in held /\ referred[r] # Nil
      /\ Phase \in {"idle", "stopping", "sweep"}
  BY DEF smal_reference_referred, CarefulClient, MayBegin
<1>2. TableInv'
  BY ClientTable DEF IInv
<1>3. CASE Phase = "sweep"
  <2>1. PICK t \in Threads : pc[t] = "sweep"
    BY <1>3 DEF Phase
  <2>2. Uncleared = {}
    BY <2>1 DEF IInv, ClearingOK
  <2>3. referred[r] \in marks /\ held \subseteq marks /\ Staying = marks
    BY <1>1, <1>3, <2>2, StayingAllocated DEF Uncleared
  <2>. QED BY <1>1, <1>2, <2>3, HeldSafe DEF IInv, CreatingOK
<1>4. CASE Phase # "sweep"
  <2>1. referred[r] \in alive /\ Staying = alive
    BY <1>1, <1>4, StayingAllocated DEF IInv, ObjectOK
  <2>. QED BY <1>1, <1>2, <1>4, <2>1, StayingAllocated, HeldSafe DEF IInv, CreatingOK
<1>. QED BY <1>3, <1>4

(* smal_reference_create_weak has a reference: where it goes on. *)
LEMMA FoundPlace ==
  ASSUME IInv, Phase = "idle", NEW t \in Threads, NEW r \in References, NEW p \in held \cap Referred,
         NEW q \in (held \cap Queues) \cup {Nil}, pc[t] = "idle", Found(t, r, p, q)
  PROVE  /\ pc' \in [Threads -> {"idle", "lock_queue", "link", "stopping", "marked",
                                 "clear", "requeue", "sweep"}]
         /\ loc' \in [Threads -> Locals]
         /\ held \subseteq held' /\ held' \subseteq held \cup {r}
         /\ \A u \in Threads \ {t} : pc'[u] = pc[u] /\ loc'[u] = loc[u]
         /\ pc'[t] \in {"idle", "lock_queue"}
         /\ pc'[t] = "lock_queue" =>
              loc'[t].ptr = p /\ loc'[t].q = q /\ loc'[t].r = r /\ q \in held \cap Queues
         /\ \A u \in Threads : pc[u] \notin Collecting /\ pc'[u] \notin Collecting
         /\ Phase' = "idle" /\ ThreadsOK' /\ ClearingOK'
         /\ \A x : ReferenceLocked(x)' <=> ReferenceLocked(x)
<1> DEFINE l == [NoLocals EXCEPT !.ptr = p, !.q = q, !.r = r]
<1>1. l \in Locals /\ l.ptr = p /\ l.q = q /\ l.r = r
  BY DEF NoLocals, Locals
<1>2. loc \in [Threads -> Locals] /\ pc \in [Threads -> {"idle", "lock_queue", "link",
        "stopping", "marked", "clear", "requeue", "sweep"}]
  BY DEF IInv, TypeOK
<1>3. \A u \in Threads : pc[u] \notin Collecting
  BY PhaseOf DEF IInv
<1>4. CASE q = Nil
  <2>1. held' = held \cup {r} /\ Goto(t, "idle", NoLocals)
    BY <1>4 DEF Found, ReturnReference, Return
  <2>2. /\ pc' = [pc EXCEPT ![t] = "idle"] /\ loc' = [loc EXCEPT ![t] = NoLocals]
    BY <2>1 DEF Goto
  <2>3. \A u \in Threads : pc'[u] \notin Collecting
    BY <1>2, <1>3, <2>2 DEF Collecting
  <2>4. ThreadsOK' /\ ClearingOK' /\ Phase' = "idle"
    BY <2>3 DEF ThreadsOK, ClearingOK, Collecting, Phase
  <2>5. \A x : ReferenceLocked(x)' <=> ReferenceLocked(x)
    BY <1>3, <2>3 DEF ReferenceLocked, Collecting
  <2>. QED BY <1>2, <1>3, <2>1, <2>2, <2>3, <2>4, <2>5, NoLocalsOK
<1>5. CASE q # Nil
  <2>1. held' = held /\ Goto(t, "lock_queue", l)
    BY <1>5 DEF Found
  <2>2. /\ pc' = [pc EXCEPT ![t] = "lock_queue"] /\ loc' = [loc EXCEPT ![t] = l]
    BY <2>1 DEF Goto
  <2> HIDE DEF l
  <2>3. \A u \in Threads : pc'[u] \notin Collecting
    BY <1>2, <1>3, <2>2 DEF Collecting
  <2>4. ThreadsOK' /\ ClearingOK' /\ Phase' = "idle"
    BY <2>3 DEF ThreadsOK, ClearingOK, Collecting, Phase
  <2>5. \A x : ReferenceLocked(x)' <=> ReferenceLocked(x)
    BY <1>3, <2>3 DEF ReferenceLocked, Collecting
  <2>. QED BY <1>1, <1>2, <1>3, <1>5, <2>1, <2>2, <2>3, <2>4, <2>5
<1>. QED BY <1>4, <1>5

(* The table has a reference to the object. *)
LEMMA FindSafe ==
  ASSUME IInv, Phase = "idle", NEW t \in Threads, NEW p \in held \cap Referred,
         NEW q \in (held \cap Queues) \cup {Nil}, pc[t] = "idle", FindReference(t, p, q), TableInv'
  PROVE  IInv'
<1> DEFINE r == referred_table[p]
<1>1. /\ r \in References /\ referred[r] = p /\ r \in alive
  BY ReferenceAssumption DEF FindReference, IInv, TableInv
<1> HIDE DEF r
<1>2. Found(t, r, p, q) /\ UNCHANGED <<alive, marks, lists, history>>
  BY DEF FindReference, r
<1>3. UNCHANGED <<referred_table, referred, reference_queue_list, reference_list, gen, origin, owed>>
  BY <1>2 DEF lists, history
<1>4. /\ pc' \in [Threads -> {"idle", "lock_queue", "link", "stopping", "marked",
                              "clear", "requeue", "sweep"}]
      /\ loc' \in [Threads -> Locals]
      /\ held \subseteq held' /\ held' \subseteq held \cup {r}
      /\ \A u \in Threads \ {t} : pc'[u] = pc[u] /\ loc'[u] = loc[u]
      /\ pc'[t] \in {"idle", "lock_queue"}
      /\ pc'[t] = "lock_queue" =>
           loc'[t].ptr = p /\ loc'[t].q = q /\ loc'[t].r = r /\ q \in held \cap Queues
      /\ Phase' = "idle" /\ ThreadsOK' /\ ClearingOK'
      /\ \A x : ReferenceLocked(x)' <=> ReferenceLocked(x)
  BY <1>1, <1>2, FoundPlace
<1>5. TypeOK'
  BY <1>1, <1>2, <1>3, <1>4 DEF IInv, TypeOK, Objects
<1>6. Staying = alive /\ Staying' = alive
  BY <1>2, <1>4 DEF Staying
<1>7. SweptOK' /\ ObjectOK' /\ NoticeOK' /\ \A o : Marks(o)' = Marks(o)
  BY <1>2, <1>4, <1>6, ListsStay
<1>8. CreatingOK'
  <2>. SUFFICES ASSUME NEW u \in Threads, pc'[u] \in {"lock_queue", "link"}
                PROVE  /\ loc'[u].ptr \in held' \cap Referred /\ loc'[u].q \in held' \cap Queues
                       /\ loc'[u].r \in References /\ referred[loc'[u].r] = loc'[u].ptr
                       /\ pc'[u] = "link" =>
                            /\ owed[<<loc'[u].r, loc'[u].q>>] < MaxOwed
                            /\ \A w \in Threads \ {u} : pc'[w] = "link" => loc'[w].q # loc'[u].q
    BY <1>3 DEF CreatingOK
  <2>1. CASE u = t
    BY <1>1, <1>4, <2>1
  <2>2. CASE u # t
    BY <1>4, <2>2 DEF IInv, CreatingOK
  <2>. QED BY <2>1, <2>2
<1>9. StayingOK'
  BY <1>1, <1>2, <1>4, <1>6, <1>7 DEF IInv, StayingOK
<1>. QED BY <1>4, <1>5, <1>7, <1>8, <1>9 DEF IInv

(* There is none, and a new one is allocated. *)
LEMMA NewReferenceSafe ==
  ASSUME IInv, Phase = "idle", NEW t \in Threads, NEW p \in held \cap Referred,
         NEW q \in (held \cap Queues) \cup {Nil}, pc[t] = "idle", NewReference(t, p, q), TableInv'
  PROVE  IInv'
<1>1. PICK r \in References \ alive :
        /\ alive' = alive \cup {r} /\ marks' = marks
        /\ referred' = [referred EXCEPT ![r] = p]
        /\ origin' = [origin EXCEPT ![r] = <<p, gen[p]>>]
        /\ referred_table' = [referred_table EXCEPT ![p] = r]
        /\ Found(t, r, p, q)
        /\ UNCHANGED <<reference_queue_list, reference_list, gen, owed>>
  BY DEF NewReference, Alloc
<1>2. /\ pc' \in [Threads -> {"idle", "lock_queue", "link", "stopping", "marked",
                              "clear", "requeue", "sweep"}]
      /\ loc' \in [Threads -> Locals]
      /\ held \subseteq held' /\ held' \subseteq held \cup {r}
      /\ \A u \in Threads \ {t} : pc'[u] = pc[u] /\ loc'[u] = loc[u]
      /\ pc'[t] \in {"idle", "lock_queue"}
      /\ pc'[t] = "lock_queue" =>
           loc'[t].ptr = p /\ loc'[t].q = q /\ loc'[t].r = r /\ q \in held \cap Queues
      /\ Phase' = "idle" /\ ThreadsOK' /\ ClearingOK'
      /\ \A x : ReferenceLocked(x)' <=> ReferenceLocked(x)
  BY <1>1, FoundPlace
<1>3. p # Nil /\ p \in alive /\ r \in Objects /\ r \notin Queues
  BY <1>1, StayingAllocated, ReferenceAssumption DEF Objects
<1>4. \A x \in References : x # r => referred'[x] = referred[x] /\ origin'[x] = origin[x]
  BY <1>1 DEF IInv, TypeOK
<1>5. referred'[r] = p /\ origin'[r] = <<p, gen[p]>> /\ referred[r] = Nil
  BY <1>1 DEF IInv, TypeOK, TableInv
<1>6. TypeOK'
  BY <1>1, <1>2, <1>3 DEF IInv, TypeOK
<1>7. Staying = alive /\ Staying' = alive \cup {r}
  BY <1>1, <1>2 DEF Staying
<1>8. \A o : Marks(o)' = Marks(o)
  BY <1>1 DEF Marks, reference_mark, ref_queue_mark
<1>9. reference_queue_list[r] = << >> /\ Marks(r) = {}
  <2>1. reference_queue_list[r] = << >>
    BY <1>1 DEF IInv, SweptOK
  <2>. QED BY <1>1, <2>1, MarksOf, EmptyHolds
<1>10. CreatingOK'
  <2>. SUFFICES ASSUME NEW u \in Threads, pc'[u] \in {"lock_queue", "link"}
                PROVE  /\ loc'[u].ptr \in held' \cap Referred /\ loc'[u].q \in held' \cap Queues
                       /\ loc'[u].r \in References /\ referred'[loc'[u].r] = loc'[u].ptr
                       /\ pc'[u] = "link" =>
                            /\ owed[<<loc'[u].r, loc'[u].q>>] < MaxOwed
                            /\ \A w \in Threads \ {u} : pc'[w] = "link" => loc'[w].q # loc'[u].q
    BY <1>1 DEF CreatingOK
  <2>1. CASE u = t
    BY <1>2, <1>5, <2>1
  <2>2. CASE u # t
    <3>1. loc[u].ptr # Nil
      BY ZenonT(30), <1>2, <2>2, ReferenceAssumption DEF IInv, CreatingOK
    <3>2. loc[u].r # r
      BY <1>2, <1>5, <2>2, <3>1 DEF IInv, CreatingOK
    <3>. QED BY <1>2, <1>4, <2>2, <3>2 DEF IInv, CreatingOK
  <2>. QED BY <2>1, <2>2
<1>11. StayingOK'
  BY <1>1, <1>2, <1>7, <1>8, <1>9 DEF IInv, StayingOK
<1>12. SweptOK'
  BY <1>1 DEF IInv, SweptOK
<1>13. ObjectOK'
  BY <1>1, <1>3, <1>4, <1>5, <1>7 DEF IInv, ObjectOK
<1>14. NoticeOK'
  <2>1. ASSUME NEW x \in Queues \cap alive
        PROVE  /\ owed[<<r, x>>] = Occurrences(reference_queue_list[r], x)
                                   + Occurrences(reference_list[x], r)
               /\ r \notin ToSet(reference_list[x])
    <3>1. r \notin ToSet(reference_list[x])
      BY <1>1, <1>7, <2>1, MarksOf, StayingAllocated
    <3>2. owed[<<r, x>>] = 0
      BY <1>1, <2>1 DEF IInv, SweptOK
    <3>3. reference_list[x] \in Seq(References)
      BY <2>1 DEF IInv, TypeOK
    <3>4. Occurrences(reference_list[x], r) = 0
      BY <3>1, <3>3, OccurrencesType
    <3>. QED BY <1>9, <3>1, <3>2, <3>4, EmptyHolds
  <2>. SUFFICES ASSUME NEW y \in References \cap (alive \cup {r})
                PROVE  /\ \A x \in Queues \cap alive :
                            /\ owed[<<y, x>>] = Occurrences(reference_queue_list[y], x)
                                                + Occurrences(reference_list[x], y)
                            /\ referred'[y] # Nil => y \notin ToSet(reference_list[x])
                       /\ referred'[y] = Nil /\ ~ ReferenceLocked(y) => reference_queue_list[y] = << >>
    <3>1. Queues \cap alive' = Queues \cap alive
      BY <1>1, <1>3
    <3>. QED BY <1>1, <1>2, <1>7, <3>1 DEF NoticeOK
  <2>2. CASE y = r
    BY <1>3, <1>5, <2>1, <2>2
  <2>3. CASE y # r
    BY <1>4, <1>7, <2>3 DEF IInv, NoticeOK
  <2>. QED BY <2>2, <2>3
<1>. QED BY <1>2, <1>6, <1>10, <1>11, <1>12, <1>13, <1>14 DEF IInv

(* smal_reference_create_weak. *)
LEMMA CreateSafe ==
  ASSUME CarefulClient, IInv, NEW t \in Threads, NEW p \in Referred, NEW q \in Queues \cup {Nil},
         smal_reference_create_weak(t, p, q)
  PROVE  IInv'
<1>1. Phase = "idle" /\ pc[t] = "idle" /\ p \in held \cap Referred /\ q \in (held \cap Queues) \cup {Nil}
  BY DEF smal_reference_create_weak, MayCreate, MayBegin, CarefulClient
<1>2. TableInv'
  BY CreateTable DEF IInv
<1>. QED BY <1>1, <1>2, FindSafe, NewReferenceSafe DEF smal_reference_create_weak

(* A thread goes on with a call of the client, or ends it. *)
LEMMA CallGoesOn ==
  ASSUME IInv, NEW t \in Threads, pc[t] \in {"lock_queue", "link"},
         NEW label \in {"idle", "link"}, NEW l \in Locals, Goto(t, label, l)
  PROVE  /\ pc' \in [Threads -> {"idle", "lock_queue", "link", "stopping", "marked",
                                 "clear", "requeue", "sweep"}]
         /\ loc' \in [Threads -> Locals]
         /\ pc'[t] = label /\ loc'[t] = l
         /\ \A u \in Threads \ {t} : pc'[u] = pc[u] /\ loc'[u] = loc[u]
         /\ Phase \in {"idle", "stopping"} /\ Phase' \in {"idle", "stopping"}
         /\ Staying = alive /\ Staying' = alive'
         /\ ThreadsOK' /\ ClearingOK'
         /\ \A x : ~ ReferenceLocked(x) /\ ~ ReferenceLocked(x)'
<1>1. loc \in [Threads -> Locals] /\ pc \in [Threads -> {"idle", "lock_queue", "link",
        "stopping", "marked", "clear", "requeue", "sweep"}]
  BY DEF IInv, TypeOK
<1>2. pc' = [pc EXCEPT ![t] = label] /\ loc' = [loc EXCEPT ![t] = l]
  BY DEF Goto
<1>3. \A u \in Threads : pc[u] \in {"idle", "lock_queue", "link", "stopping"}
  BY <1>1 DEF IInv, ThreadsOK, Collecting
<1>4. \A u \in Threads : pc'[u] \in {"idle", "lock_queue", "link", "stopping"}
  BY <1>1, <1>2, <1>3
<1>5. ThreadsOK'
  BY <1>1, <1>2, <1>4 DEF IInv, ThreadsOK, Collecting
<1>6. ClearingOK'
  BY <1>4 DEF ClearingOK
<1>7. Phase \in {"idle", "stopping"} /\ Phase' \in {"idle", "stopping"}
  BY <1>3, <1>4 DEF Phase
<1>8. \A x : ~ ReferenceLocked(x) /\ ~ ReferenceLocked(x)'
  BY <1>3, <1>4 DEF ReferenceLocked
<1>9. Staying = alive /\ Staying' = alive'
  BY <1>7 DEF Staying
<1>. QED BY <1>1, <1>2, <1>5, <1>6, <1>7, <1>8, <1>9

(* It takes the mutex of the queue, or has no memory for a list node. *)
LEMMA LockQueueSafe ==
  ASSUME IInv, NEW t \in Threads, CreateLockQueue(t)
  PROVE  IInv'
<1>1. UNCHANGED <<held, alive, marks, referred_table, referred, reference_queue_list,
                  reference_list, gen, origin, owed>>
  BY DEF CreateLockQueue, heap, lists, history
<1>2. pc[t] = "lock_queue" /\ loc[t] \in Locals
  BY DEF CreateLockQueue, IInv, TypeOK
<1>3. PICK label \in {"idle", "link"}, l \in Locals :
        /\ Goto(t, label, l)
        /\ label = "link" => /\ l = loc[t] /\ ~ QueueLocked(loc[t].q)
                             /\ owed[<<loc[t].r, loc[t].q>>] < MaxOwed
  BY <1>2, NoLocalsOK DEF CreateLockQueue, Return
<1>4. /\ pc' \in [Threads -> {"idle", "lock_queue", "link", "stopping", "marked",
                              "clear", "requeue", "sweep"}]
      /\ loc' \in [Threads -> Locals]
      /\ pc'[t] = label /\ loc'[t] = l
      /\ \A u \in Threads \ {t} : pc'[u] = pc[u] /\ loc'[u] = loc[u]
      /\ Phase \in {"idle", "stopping"} /\ Phase' \in {"idle", "stopping"}
      /\ Staying = alive /\ Staying' = alive'
      /\ ThreadsOK' /\ ClearingOK'
      /\ \A x : ~ ReferenceLocked(x) /\ ~ ReferenceLocked(x)'
  BY <1>2, <1>3, CallGoesOn
<1>5. TypeOK' /\ TableInv'
  BY <1>1, <1>4, OtherTable DEF IInv, TypeOK
<1>6. SweptOK' /\ ObjectOK' /\ NoticeOK' /\ \A o : Marks(o)' = Marks(o)
  <2>1. UNCHANGED <<alive, lists, history>>
    BY <1>1 DEF lists, history
  <2>. QED BY <1>1, <1>4, <2>1, ListsStay
<1>7. StayingOK'
  BY <1>1, <1>4, <1>6 DEF IInv, StayingOK
<1>8. CreatingOK'
  <2>. SUFFICES ASSUME NEW u \in Threads, pc'[u] \in {"lock_queue", "link"}
                PROVE  /\ loc'[u].ptr \in held \cap Referred /\ loc'[u].q \in held \cap Queues
                       /\ loc'[u].r \in References /\ referred[loc'[u].r] = loc'[u].ptr
                       /\ pc'[u] = "link" =>
                            /\ owed[<<loc'[u].r, loc'[u].q>>] < MaxOwed
                            /\ \A w \in Threads \ {u} : pc'[w] = "link" => loc'[w].q # loc'[u].q
    BY <1>1 DEF CreatingOK
  <2>1. CASE u = t
    BY <1>2, <1>3, <1>4, <2>1 DEF IInv, CreatingOK, QueueLocked
  <2>2. CASE u # t
    <3>1. ASSUME NEW w \in Threads \ {u}, pc'[u] = "link", pc'[w] = "link"
          PROVE  loc'[w].q # loc'[u].q
      <4>1. CASE w = t
        BY <1>3, <1>4, <2>2, <3>1, <4>1 DEF QueueLocked
      <4>2. CASE w # t
        BY ZenonT(30), <1>4, <2>2, <3>1, <4>2 DEF IInv, CreatingOK
      <4>. QED BY <4>1, <4>2
    <3>. QED BY <1>4, <2>2, <3>1 DEF IInv, CreatingOK
  <2>. QED BY <2>1, <2>2
<1>. QED BY <1>4, <1>5, <1>6, <1>7, <1>8 DEF IInv

(* It links the queue to the reference. *)
LEMMA LinkSafe ==
  ASSUME IInv, NEW t \in Threads, CreateLink(t)
  PROVE  IInv'
<1> DEFINE r == loc[t].r
           q == loc[t].q
<1>1. /\ pc[t] = "link"
      /\ reference_queue_list' = [reference_queue_list EXCEPT ![r] = <<q>> \o @]
      /\ owed' = [owed EXCEPT ![<<r, q>>] = @ + 1]
      /\ held' = held \cup {r} /\ Goto(t, "idle", NoLocals)
      /\ UNCHANGED <<alive, marks, referred_table, referred, reference_list, gen, origin>>
  BY DEF CreateLink, ReturnReference, Return
<1>2. /\ r \in References /\ q \in Queues /\ q \in held /\ referred[r] \in Referred
      /\ owed[<<r, q>>] < MaxOwed
      /\ \A u \in Threads \ {t} : pc[u] = "link" => loc[u].q # q
  BY <1>1 DEF IInv, CreatingOK
<1> HIDE DEF r, q
<1>3. /\ pc' \in [Threads -> {"idle", "lock_queue", "link", "stopping", "marked",
                              "clear", "requeue", "sweep"}]
      /\ loc' \in [Threads -> Locals]
      /\ pc'[t] = "idle"
      /\ \A u \in Threads \ {t} : pc'[u] = pc[u] /\ loc'[u] = loc[u]
      /\ Phase \in {"idle", "stopping"} /\ Phase' \in {"idle", "stopping"}
      /\ Staying = alive /\ Staying' = alive'
      /\ ThreadsOK' /\ ClearingOK'
      /\ \A x : ~ ReferenceLocked(x) /\ ~ ReferenceLocked(x)'
  BY <1>1, NoLocalsOK, CallGoesOn
<1>4. r \in alive /\ q \in alive /\ referred[r] # Nil
  BY <1>2, StayingAllocated, ReferenceAssumption DEF IInv, TableInv
<1> DEFINE s == reference_queue_list[r]
<1>5. /\ s \in Seq(Queues) /\ <<q>> \o s \in Seq(Queues)
      /\ ToSet(<<q>> \o s) = ToSet(s) \cup {q}
      /\ \A y : Occurrences(<<q>> \o s, y) = Occurrences(s, y) + IF q = y THEN 1 ELSE 0
  <2>1. s \in Seq(Queues)
    BY <1>2 DEF IInv, TypeOK
  <2>. QED BY <1>2, <2>1, InFront
<1>6. /\ reference_queue_list \in [References -> Seq(Queues)]
      /\ owed \in [References \X Queues -> 0 .. MaxOwed] /\ MaxOwed \in Nat
  BY ReferenceAssumption DEF IInv, TypeOK
<1>7. /\ reference_queue_list' \in [References -> Seq(Queues)]
      /\ reference_queue_list'[r] = <<q>> \o s
      /\ \A x \in References : x # r => reference_queue_list'[x] = reference_queue_list[x]
  BY <1>1, <1>2, <1>5, <1>6
<1>8. /\ owed' \in [References \X Queues -> 0 .. MaxOwed]
      /\ owed'[<<r, q>>] = owed[<<r, q>>] + 1
      /\ \A x \in References, y \in Queues : x # r \/ y # q => owed'[<<x, y>>] = owed[<<x, y>>]
  BY <1>1, <1>2, <1>6
<1>9. TypeOK' /\ TableInv'
  BY <1>1, <1>2, <1>3, <1>7, <1>8, OtherTable DEF IInv, TypeOK, Objects
<1>10. CreatingOK'
  <2>. SUFFICES ASSUME NEW u \in Threads, pc'[u] \in {"lock_queue", "link"}
                PROVE  /\ loc'[u].ptr \in held' \cap Referred /\ loc'[u].q \in held' \cap Queues
                       /\ loc'[u].r \in References /\ referred[loc'[u].r] = loc'[u].ptr
                       /\ pc'[u] = "link" =>
                            /\ owed'[<<loc'[u].r, loc'[u].q>>] < MaxOwed
                            /\ \A w \in Threads \ {u} : pc'[w] = "link" => loc'[w].q # loc'[u].q
    BY <1>1 DEF CreatingOK
  <2>1. u # t /\ pc'[u] = pc[u] /\ loc'[u] = loc[u]
    BY <1>3
  <2>2. \A w \in Threads : pc'[w] = "link" => pc[w] = "link" /\ loc'[w] = loc[w]
    BY <1>3
  <2>. QED BY <1>1, <1>2, <1>8, <2>1, <2>2 DEF IInv, CreatingOK
<1>11. StayingOK'
  <2>1. \A o \in alive : Marks(o) \subseteq alive /\ held \subseteq alive
    BY <1>3 DEF IInv, StayingOK
  <2>2. ASSUME NEW o \in alive PROVE Marks(o)' \subseteq alive
    <3>1. o \in References \/ o \in Queues \/ o \in Referred
      BY DEF IInv, TypeOK, Objects
    <3>2. CASE o \in References
      <4>1. Marks(o)' = ToSet(reference_queue_list'[o]) /\ Marks(o) = ToSet(reference_queue_list[o])
        BY <3>2, MarksOf, MarksOfNext
      <4>2. ToSet(reference_queue_list'[o]) \subseteq ToSet(reference_queue_list[o]) \cup {q}
        <5>1. CASE o = r
          BY <1>5, <1>7, <5>1
        <5>2. CASE o # r
          BY <1>7, <3>2, <5>2
        <5>. QED BY <5>1, <5>2
      <4>. QED BY <1>4, <2>1, <4>1, <4>2
    <3>3. CASE o \in Queues
      BY <1>1, <2>1, <3>3, MarksOf, MarksOfNext
    <3>4. CASE o \in Referred
      BY <3>4, MarksOfNext
    <3>. QED BY <3>1, <3>2, <3>3, <3>4
  <2>. QED BY <1>1, <1>3, <1>4, <2>1, <2>2 DEF StayingOK
<1>12. SweptOK'
  BY <1>1, <1>4, <1>7, <1>8 DEF IInv, SweptOK
<1>13. ObjectOK'
  BY <1>1, <1>3 DEF IInv, ObjectOK
<1>14. NoticeOK'
  <2>. SUFFICES ASSUME NEW x \in References \cap alive
                PROVE  /\ \A y \in Queues \cap alive :
                            /\ owed'[<<x, y>>] = Occurrences(reference_queue_list'[x], y)
                                                 + Occurrences(reference_list[y], x)
                            /\ referred[x] # Nil => x \notin ToSet(reference_list[y])
                       /\ referred[x] = Nil => reference_queue_list'[x] = << >>
    BY <1>1, <1>3 DEF NoticeOK
  <2>1. /\ \A y \in Queues \cap alive :
             /\ owed[<<x, y>>] = Occurrences(reference_queue_list[x], y)
                                 + Occurrences(reference_list[y], x)
             /\ referred[x] # Nil => x \notin ToSet(reference_list[y])
        /\ referred[x] = Nil => reference_queue_list[x] = << >>
    BY <1>3 DEF IInv, NoticeOK
  <2>2. CASE x # r
    BY <1>7, <1>8, <2>1, <2>2
  <2>3. CASE x = r
    <3>1. ASSUME NEW y \in Queues \cap alive
          PROVE  owed'[<<r, y>>] = Occurrences(<<q>> \o s, y) + Occurrences(reference_list[y], r)
      <4>1. Occurrences(s, y) \in Nat /\ Occurrences(reference_list[y], r) \in Nat
        <5>1. reference_list[y] \in Seq(References)
          BY DEF IInv, TypeOK
        <5>. QED BY <1>5, <5>1, OccurrencesType
      <4>2. owed'[<<r, y>>] = owed[<<r, y>>] + IF q = y THEN 1 ELSE 0
        <5>1. owed[<<r, y>>] \in Nat
          BY <1>2, <1>6
        <5>. QED BY <1>2, <1>8, <5>1
      <4>3. owed[<<r, y>>] = Occurrences(s, y) + Occurrences(reference_list[y], r)
        BY <2>1, <2>3 DEF s
      <4>4. Occurrences(<<q>> \o s, y) = Occurrences(s, y) + IF q = y THEN 1 ELSE 0
        BY <1>5
      <4> HIDE DEF s
      <4>. QED BY <4>1, <4>2, <4>3, <4>4
    <3>. QED BY <1>4, <1>7, <2>1, <2>3, <3>1
  <2>. QED BY <2>2, <2>3
<1>. QED BY <1>3, <1>9, <1>10, <1>11, <1>12, <1>13, <1>14 DEF IInv

(* The client takes a reference from a queue. *)
LEMMA TakeSafe ==
  ASSUME IInv, NEW q \in Queues, smal_reference_queue_take(q)
  PROVE  IInv'
<1> DEFINE s == reference_list[q]
           h == Head(reference_list[q])
<1>1. /\ q \in held /\ s # << >>
      /\ held' = held \cup {h}
      /\ owed' = [owed EXCEPT ![<<h, q>>] = @ - 1]
      /\ reference_list' = [reference_list EXCEPT ![q] = Tail(s)]
      /\ UNCHANGED <<alive, marks, referred_table, referred, reference_queue_list,
                     pc, loc, gen, origin>>
  BY DEF smal_reference_queue_take
<1>2. /\ reference_queue_list \in [References -> Seq(Queues)]
      /\ reference_list \in [Queues -> Seq(References)]
      /\ owed \in [References \X Queues -> 0 .. MaxOwed] /\ MaxOwed \in Nat
  BY ReferenceAssumption DEF IInv, TypeOK
<1>3. /\ s \in Seq(References) /\ h \in References /\ Tail(s) \in Seq(References)
      /\ h \in ToSet(s) /\ ToSet(Tail(s)) \subseteq ToSet(s)
      /\ \A y : Occurrences(s, y) = Occurrences(Tail(s), y) + IF h = y THEN 1 ELSE 0
  <2>1. s \in Seq(References)
    BY <1>2
  <2>. QED BY <1>1, <2>1, TakenOff
<1>4. q \in Staying /\ h \in Staying /\ h \in alive /\ q \in alive /\ Marks(q) = ToSet(s)
  BY <1>1, <1>3, MarksOf, StayingAllocated
<1>5. /\ reference_list' \in [Queues -> Seq(References)]
      /\ reference_list'[q] = Tail(s)
      /\ \A y \in Queues : y # q => reference_list'[y] = reference_list[y]
      /\ \A y \in Queues : ToSet(reference_list'[y]) \subseteq ToSet(reference_list[y])
  <2>1. /\ reference_list' \in [Queues -> Seq(References)]
        /\ reference_list'[q] = Tail(s)
        /\ \A y \in Queues : y # q => reference_list'[y] = reference_list[y]
    BY <1>1, <1>2, <1>3
  <2>2. ASSUME NEW y \in Queues
        PROVE  ToSet(reference_list'[y]) \subseteq ToSet(reference_list[y])
    <3>1. CASE y = q
      BY <1>3, <2>1, <3>1
    <3>2. CASE y # q
      BY <2>1, <3>2
    <3>. QED BY <3>1, <3>2
  <2>. QED BY <2>1, <2>2
<1>6. owed[<<h, q>>] = Occurrences(reference_queue_list[h], q) + Occurrences(s, h)
  BY <1>3, <1>4 DEF IInv, NoticeOK
<1>7. owed[<<h, q>>] > 0
  <2>1. Occurrences(reference_queue_list[h], q) \in Nat
    BY <1>2, <1>3, OccurrencesType
  <2>2. Occurrences(s, h) \in Nat /\ Occurrences(s, h) # 0
    BY <1>3, OccurrencesType
  <2>. QED BY <1>6, <2>1, <2>2
<1> HIDE DEF s, h
<1>8. /\ owed' \in [References \X Queues -> 0 .. MaxOwed]
      /\ owed'[<<h, q>>] = owed[<<h, q>>] - 1
      /\ \A x \in References, y \in Queues : x # h \/ y # q => owed'[<<x, y>>] = owed[<<x, y>>]
  BY <1>1, <1>2, <1>3, <1>7
<1>9. TableInv'
  BY ClientTable DEF IInv
<1>10. TypeOK'
  BY SMTT(30), <1>1, <1>3, <1>5, <1>8 DEF IInv, TypeOK, Objects
<1>11. Phase' = Phase /\ Staying' = Staying
  <2>1. Phase' = Phase
    BY <1>1 DEF Phase
  <2>. QED BY <1>1, <2>1 DEF Staying
<1>12. ThreadsOK' /\ ClearingOK'
  BY <1>1 DEF IInv, ThreadsOK, ClearingOK, Uncleared
<1>13. CreatingOK'
  <2>1. \A x \in References, y \in Queues : owed[<<x, y>>] < MaxOwed => owed'[<<x, y>>] < MaxOwed
    <3>. SUFFICES ASSUME NEW x \in References, NEW y \in Queues, owed[<<x, y>>] < MaxOwed
                  PROVE  owed'[<<x, y>>] < MaxOwed
      OBVIOUS
    <3>1. owed[<<x, y>>] \in Nat
      BY <1>2
    <3>2. CASE x = h /\ y = q
      BY <1>2, <1>8, <3>1, <3>2
    <3>3. CASE x # h \/ y # q
      BY <1>8, <3>3
    <3>. QED BY <3>2, <3>3
  <2>. QED BY <1>1, <2>1 DEF IInv, CreatingOK
<1>14. \A o \in Objects : Marks(o)' \subseteq Marks(o)
  <2>. SUFFICES ASSUME NEW o \in Objects PROVE Marks(o)' \subseteq Marks(o)
    OBVIOUS
  <2>1. CASE o \in References
    BY <1>1, <2>1, MarksOf, MarksOfNext
  <2>2. CASE o \in Queues
    BY <1>5, <2>2, MarksOf, MarksOfNext
  <2>3. CASE o \in Referred
    BY <2>3, MarksOfNext
  <2>. QED BY <2>1, <2>2, <2>3 DEF Objects
<1>15. StayingOK'
  <2>1. Staying \subseteq Objects /\ marks \subseteq Objects
    BY StayingAllocated DEF IInv, TypeOK
  <2>2. Phase \in {"before_sweep", "sweep"} => h \in marks
    BY <1>1, <1>3, <1>4 DEF IInv, StayingOK
  <2>. QED BY <1>1, <1>4, <1>11, <1>14, <2>1, <2>2 DEF IInv, StayingOK
<1>16. SweptOK'
  BY <1>1, <1>4, <1>5, <1>8 DEF IInv, SweptOK
<1>17. ObjectOK'
  BY <1>1, <1>11 DEF IInv, ObjectOK
<1>18. NoticeOK'
  <2>. SUFFICES ASSUME NEW x \in References \cap Staying
                PROVE  /\ \A y \in Queues \cap alive :
                            /\ owed'[<<x, y>>] = Occurrences(reference_queue_list[x], y)
                                                 + Occurrences(reference_list'[y], x)
                            /\ referred[x] # Nil => x \notin ToSet(reference_list'[y])
                       /\ referred[x] = Nil /\ ~ ReferenceLocked(x) => reference_queue_list[x] = << >>
    BY <1>1, <1>11 DEF NoticeOK, ReferenceLocked
  <2>1. /\ \A y \in Queues \cap alive :
             /\ owed[<<x, y>>] = Occurrences(reference_queue_list[x], y)
                                 + Occurrences(reference_list[y], x)
             /\ referred[x] # Nil => x \notin ToSet(reference_list[y])
        /\ referred[x] = Nil /\ ~ ReferenceLocked(x) => reference_queue_list[x] = << >>
    BY DEF IInv, NoticeOK
  <2>2. ASSUME NEW y \in Queues \cap alive
        PROVE  owed'[<<x, y>>] = Occurrences(reference_queue_list[x], y)
                                 + Occurrences(reference_list'[y], x)
    <3>1. CASE y # q
      BY <1>5, <1>8, <2>1, <3>1
    <3>2. CASE y = q
      <4>1. owed[<<x, q>>] = Occurrences(reference_queue_list[x], q) + Occurrences(s, x)
        BY <2>1, <3>2 DEF s
      <4>2. /\ Occurrences(reference_queue_list[x], q) \in Nat /\ Occurrences(Tail(s), x) \in Nat
            /\ Occurrences(s, x) = Occurrences(Tail(s), x) + IF h = x THEN 1 ELSE 0
        BY <1>2, <1>3, OccurrencesType
      <4>3. owed'[<<x, q>>] = owed[<<x, q>>] - IF h = x THEN 1 ELSE 0
        <5>1. owed[<<x, q>>] \in Nat
          BY <1>2
        <5>2. CASE x = h
          BY <1>8, <5>1, <5>2
        <5>3. CASE x # h
          BY <1>8, <5>1, <5>3
        <5>. QED BY <5>2, <5>3
      <4>4. reference_list'[q] = Tail(s)
        BY <1>5
      <4> HIDE DEF s, h
      <4>. QED BY <3>2, <4>1, <4>2, <4>3, <4>4
    <3>. QED BY <3>1, <3>2
  <2>. QED BY <1>5, <2>1, <2>2
<1>. QED BY <1>9, <1>10, <1>12, <1>13, <1>15, <1>16, <1>17, <1>18 DEF IInv

(* Collect. *)
LEMMA CollectSafe ==
  ASSUME IInv, NEW t \in Threads, Collect(t)
  PROVE  IInv'
<1>1. /\ Phase = "idle" /\ pc[t] = "idle"
      /\ pc' = [pc EXCEPT ![t] = "stopping"] /\ loc' = [loc EXCEPT ![t] = NoLocals]
      /\ UNCHANGED <<held, alive, marks, referred_table, referred, reference_queue_list,
                     reference_list, gen, origin, owed>>
  BY DEF Collect, Goto, heap, lists, history
<1>2. loc \in [Threads -> Locals] /\ pc \in [Threads -> {"idle", "lock_queue", "link",
        "stopping", "marked", "clear", "requeue", "sweep"}]
  BY DEF IInv, TypeOK
<1>3. \A u \in Threads : pc[u] \in {"idle", "lock_queue", "link"}
  BY <1>1, <1>2, PhaseOf DEF IInv, Collecting
<1>4. /\ pc'[t] = "stopping" /\ pc' \in [Threads -> {"idle", "lock_queue", "link", "stopping"}]
      /\ loc' \in [Threads -> Locals]
      /\ \A u \in Threads \ {t} : pc'[u] = pc[u] /\ loc'[u] = loc[u]
  BY <1>1, <1>2, <1>3, NoLocalsOK
<1>5. Phase' = "stopping" /\ Staying = alive /\ Staying' = alive
  <2>1. Phase' = "stopping"
    BY <1>4 DEF Phase
  <2>. QED BY <1>1, <2>1 DEF Staying
<1>6. TypeOK'
  BY <1>1, <1>4 DEF IInv, TypeOK
<1>7. TableInv'
  BY OtherTable DEF IInv
<1>8. ThreadsOK' /\ ClearingOK'
  BY <1>3, <1>4 DEF ThreadsOK, ClearingOK, Collecting
<1>9. CreatingOK'
  <2>1. \A u \in Threads : pc'[u] \in {"lock_queue", "link"} =>
          u # t /\ pc'[u] = pc[u] /\ loc'[u] = loc[u]
    BY <1>4
  <2>. QED BY <1>1, <2>1 DEF IInv, CreatingOK
<1>10. \A x : ~ ReferenceLocked(x)
  BY <1>3 DEF ReferenceLocked
<1>11. SweptOK' /\ ObjectOK' /\ NoticeOK' /\ \A o : Marks(o)' = Marks(o)
  <2>1. UNCHANGED <<alive, lists, history>>
    BY <1>1 DEF lists, history
  <2>. QED BY <1>5, <1>10, <2>1, ListsStay
<1>12. StayingOK'
  BY <1>1, <1>5, <1>11 DEF IInv, StayingOK
<1>. QED BY <1>6, <1>7, <1>8, <1>9, <1>11, <1>12 DEF IInv

-----------------------------------------------------------------------------
(* The thread that collects.                                               *)

PhaseAt(label) ==
  IF label \in {"marked", "clear", "requeue"} THEN "before_sweep"
  ELSE IF label \in {"sweep", "stopping"} THEN label ELSE "idle"

(* From marking on it is alone. *)
LEMMA CollectorAlone ==
  ASSUME IInv, NEW t \in Threads, pc[t] \in Collecting,
         pc[t] = "stopping" => \A u \in Threads \ {t} : pc[u] = "idle"
  PROVE  /\ \A u \in Threads \ {t} : pc[u] = "idle"
         /\ Phase = PhaseAt(pc[t])
         /\ \A x : ReferenceLocked(x) <=> pc[t] = "requeue" /\ loc[t].r = x
<1>1. \A u \in Threads \ {t} : pc[u] = "idle"
  BY DEF IInv, ThreadsOK
<1>. QED BY <1>1 DEF Phase, PhaseAt, ReferenceLocked, Collecting

(* It goes on, or ends the collection. *)
LEMMA CollectorGoesOn ==
  ASSUME IInv, NEW t \in Threads, \A u \in Threads \ {t} : pc[u] = "idle",
         NEW label \in {"idle", "marked", "clear", "requeue", "sweep"},
         NEW l \in Locals, Goto(t, label, l)
  PROVE  /\ pc' \in [Threads -> {"idle", "lock_queue", "link", "stopping", "marked",
                                 "clear", "requeue", "sweep"}]
         /\ loc' \in [Threads -> Locals]
         /\ pc'[t] = label /\ loc'[t] = l
         /\ \A u \in Threads \ {t} : pc'[u] = "idle"
         /\ ThreadsOK' /\ CreatingOK'
         /\ Phase' = PhaseAt(label)
         /\ \A x : ReferenceLocked(x)' <=> label = "requeue" /\ l.r = x
<1>1. loc \in [Threads -> Locals] /\ pc \in [Threads -> {"idle", "lock_queue", "link",
        "stopping", "marked", "clear", "requeue", "sweep"}]
  BY DEF IInv, TypeOK
<1>2. pc' = [pc EXCEPT ![t] = label] /\ loc' = [loc EXCEPT ![t] = l]
  BY DEF Goto
<1>3. /\ pc' \in [Threads -> {"idle", "lock_queue", "link", "stopping", "marked",
                              "clear", "requeue", "sweep"}]
      /\ loc' \in [Threads -> Locals]
      /\ pc'[t] = label /\ loc'[t] = l
      /\ \A u \in Threads \ {t} : pc'[u] = "idle"
  BY <1>1, <1>2
<1>4. ThreadsOK' /\ CreatingOK'
  BY <1>3 DEF ThreadsOK, CreatingOK, Collecting
<1>5. Phase' = PhaseAt(label) /\ \A x : ReferenceLocked(x)' <=> label = "requeue" /\ l.r = x
  BY <1>3 DEF Phase, PhaseAt, ReferenceLocked
<1>. QED BY <1>3, <1>4, <1>5

(* It marks. *)
LEMMA MarkSafe ==
  ASSUME IInv, NEW t \in Threads, Mark(t)
  PROVE  IInv'
<1>1. /\ pc[t] = "stopping" /\ \A u \in Threads \ {t} : pc[u] = "idle"
      /\ marks' = Reach(held) /\ Goto(t, "marked", NoLocals)
      /\ UNCHANGED <<held, alive, referred_table, referred, reference_queue_list,
                     reference_list, gen, origin, owed>>
  BY DEF Mark, Reachable, lists, history
<1>2. /\ Phase = "stopping" /\ \A x : ~ ReferenceLocked(x)
  BY <1>1, CollectorAlone DEF Collecting, PhaseAt
<1>3. /\ pc' \in [Threads -> {"idle", "lock_queue", "link", "stopping", "marked",
                              "clear", "requeue", "sweep"}]
      /\ loc' \in [Threads -> Locals]
      /\ pc'[t] = "marked" /\ \A u \in Threads \ {t} : pc'[u] = "idle"
      /\ ThreadsOK' /\ CreatingOK'
      /\ Phase' = "before_sweep"
  BY <1>1, CollectorGoesOn, NoLocalsOK DEF PhaseAt
<1>4. Staying = alive /\ Staying' = alive
  BY <1>1, <1>2, <1>3 DEF Staying
<1>5. /\ held \subseteq marks' /\ marks' \subseteq Objects
      /\ \A o \in marks' : Marks(o) \subseteq marks'
      /\ marks' \subseteq alive
  <2>1. /\ held \in SUBSET Objects /\ alive \in SUBSET Objects
        /\ \A o \in Objects : Marks(o) \subseteq Objects
    BY MarksTyped DEF IInv, TypeOK
  <2>2. held \subseteq alive /\ \A o \in alive : Marks(o) \subseteq alive
    BY <1>4, StayingAllocated
  <2>. QED BY <1>1, <2>1, <2>2, Reached
<1>6. TypeOK' /\ TableInv'
  BY <1>1, <1>3, <1>5, OtherTable DEF IInv, TypeOK
<1>7. ClearingOK'
  BY <1>3 DEF ClearingOK
<1>8. SweptOK' /\ ObjectOK' /\ NoticeOK' /\ \A o : Marks(o)' = Marks(o)
  <2>1. UNCHANGED <<alive, lists, history>>
    BY <1>1 DEF lists, history
  <2>. QED BY <1>2, <1>4, <2>1, ListsStay
<1>9. StayingOK'
  BY <1>1, <1>3, <1>4, <1>5, <1>8 DEF IInv, StayingOK
<1>. QED BY <1>3, <1>6, <1>7, <1>8, <1>9 DEF IInv

(* It lists the references to clear. *)
LEMMA BeforeSweepSafe ==
  ASSUME IInv, NEW t \in Threads, BeforeSweep(t)
  PROVE  IInv'
<1> DEFINE todo == ToClear({referred_table[p] : p \in Referred} \ {Nil})
           l == [NoLocals EXCEPT !.todo = todo]
<1>1. /\ pc[t] = "marked" /\ Goto(t, "clear", l)
      /\ UNCHANGED <<held, alive, marks, referred_table, referred, reference_queue_list,
                     reference_list, gen, origin, owed>>
  BY DEF BeforeSweep, heap, lists, history
<1>2. todo \subseteq References /\ todo \subseteq marks /\ Uncleared \subseteq todo
  <2>1. todo \subseteq References /\ todo \subseteq marks
    BY DEF ToClear, IInv, TypeOK
  <2>2. ASSUME NEW r \in Uncleared PROVE r \in todo
    <3>1. r \in References /\ referred[r] \in Referred /\ referred_table[referred[r]] = r
      BY DEF Uncleared, IInv, TableInv
    <3>2. r # Nil
      BY <3>1, ReferenceAssumption
    <3>. QED BY <3>1, <3>2 DEF ToClear, Uncleared
  <2>. QED BY <2>1, <2>2
<1> HIDE DEF todo
<1>3. l \in Locals /\ l.todo = todo
  BY <1>2, NoLocalsOK DEF NoLocals, Locals
<1> HIDE DEF l
<1>4. /\ \A u \in Threads \ {t} : pc[u] = "idle"
      /\ Phase = "before_sweep" /\ \A x : ~ ReferenceLocked(x)
  BY <1>1, CollectorAlone DEF Collecting, PhaseAt
<1>5. /\ pc' \in [Threads -> {"idle", "lock_queue", "link", "stopping", "marked",
                              "clear", "requeue", "sweep"}]
      /\ loc' \in [Threads -> Locals]
      /\ pc'[t] = "clear" /\ loc'[t] = l /\ \A u \in Threads \ {t} : pc'[u] = "idle"
      /\ ThreadsOK' /\ CreatingOK'
      /\ Phase' = "before_sweep"
  BY <1>1, <1>3, <1>4, CollectorGoesOn DEF PhaseAt
<1>6. Staying = alive /\ Staying' = alive
  BY <1>1, <1>4, <1>5 DEF Staying
<1>7. TypeOK' /\ TableInv'
  BY <1>1, <1>5, OtherTable DEF IInv, TypeOK
<1>8. ClearingOK'
  <2>1. Uncleared' = Uncleared
    BY <1>1 DEF Uncleared
  <2>. QED BY <1>1, <1>2, <1>3, <1>5, <2>1 DEF ClearingOK
<1>9. SweptOK' /\ ObjectOK' /\ NoticeOK' /\ \A o : Marks(o)' = Marks(o)
  <2>1. UNCHANGED <<alive, lists, history>>
    BY <1>1 DEF lists, history
  <2>. QED BY <1>4, <1>6, <2>1, ListsStay
<1>10. StayingOK'
  BY <1>1, <1>4, <1>5, <1>6, <1>9 DEF IInv, StayingOK
<1>. QED BY <1>5, <1>7, <1>8, <1>9, <1>10 DEF IInv

(* It clears one. *)
LEMMA ClearSafe ==
  ASSUME IInv, NEW t \in Threads, ClearReference(t)
  PROVE  IInv'
<1>1. pc[t] = "clear" /\ Uncleared \subseteq loc[t].todo /\ loc[t].todo \subseteq marks
      /\ loc[t] \in Locals
  BY DEF ClearReference, IInv, TypeOK, ClearingOK
<1>2. PICK r \in loc[t].todo :
        /\ Unlink(r) /\ Goto(t, "requeue", [loc[t] EXCEPT !.r = r, !.todo = @ \ {r}])
        /\ UNCHANGED <<heap, reference_queue_list, reference_list, history>>
  BY DEF ClearReference
<1> DEFINE l == [loc[t] EXCEPT !.r = r, !.todo = @ \ {r}]
<1>3. r \in References /\ r \in marks /\ l \in Locals /\ l.r = r /\ l.todo = loc[t].todo \ {r}
  <2>1. loc[t].todo \in SUBSET References
    BY <1>1 DEF Locals
  <2>. QED BY <1>1, <1>2, <2>1 DEF Locals
<1> HIDE DEF l
<1>4. /\ referred' = [referred EXCEPT ![r] = Nil] /\ referred'[r] = Nil
      /\ \A x \in References : x # r => referred'[x] = referred[x]
      /\ UNCHANGED <<held, alive, marks, reference_queue_list, reference_list, gen, origin, owed>>
  BY <1>2, <1>3 DEF Unlink, heap, history, IInv, TypeOK
<1>5. /\ \A u \in Threads \ {t} : pc[u] = "idle"
      /\ Phase = "before_sweep" /\ \A x : ~ ReferenceLocked(x)
  BY <1>1, CollectorAlone DEF Collecting, PhaseAt
<1>6. /\ pc' \in [Threads -> {"idle", "lock_queue", "link", "stopping", "marked",
                              "clear", "requeue", "sweep"}]
      /\ loc' \in [Threads -> Locals]
      /\ pc'[t] = "requeue" /\ loc'[t] = l /\ \A u \in Threads \ {t} : pc'[u] = "idle"
      /\ ThreadsOK' /\ CreatingOK'
      /\ Phase' = "before_sweep"
      /\ \A x : ReferenceLocked(x)' <=> l.r = x
  <2>1. Goto(t, "requeue", l)
    BY <1>2 DEF l
  <2>. QED BY <1>3, <1>5, <2>1, CollectorGoesOn DEF PhaseAt
<1>7. Staying = alive /\ Staying' = alive
  BY <1>4, <1>5, <1>6 DEF Staying
<1>8. TableInv'
  BY ClearTable DEF IInv
<1>9. TypeOK'
  BY <1>4, <1>6, <1>8 DEF IInv, TypeOK, TableInv
<1>10. ClearingOK'
  <2>1. Uncleared' \subseteq Uncleared \ {r}
    BY <1>4 DEF Uncleared
  <2>. QED BY <1>1, <1>3, <1>4, <1>6, <2>1 DEF ClearingOK
<1>11. \A o : Marks(o)' = Marks(o)
  BY <1>4 DEF Marks, reference_mark, ref_queue_mark
<1>12. StayingOK'
  BY <1>4, <1>5, <1>6, <1>7, <1>11 DEF IInv, StayingOK
<1>13. SweptOK'
  BY <1>4 DEF IInv, SweptOK
<1>14. ObjectOK'
  BY <1>4, <1>7 DEF IInv, ObjectOK
<1>15. NoticeOK'
  <2>. SUFFICES ASSUME NEW x \in References \cap alive
                PROVE  /\ \A y \in Queues \cap alive :
                            /\ owed[<<x, y>>] = Occurrences(reference_queue_list[x], y)
                                                + Occurrences(reference_list[y], x)
                            /\ referred'[x] # Nil => x \notin ToSet(reference_list[y])
                       /\ referred'[x] = Nil /\ x # r => reference_queue_list[x] = << >>
    BY <1>3, <1>4, <1>6, <1>7 DEF NoticeOK
  <2>. QED BY <1>4, <1>5, <1>7 DEF IInv, NoticeOK
<1>. QED BY <1>6, <1>8, <1>9, <1>10, <1>12, <1>13, <1>14, <1>15 DEF IInv

(* It puts it into the first of its queues. *)
LEMMA RequeueSafe ==
  ASSUME IInv, NEW t \in Threads, Requeue(t)
  PROVE  IInv'
<1> DEFINE r == loc[t].r
           s == reference_queue_list[r]
           q == Head(s)
           w == reference_list[q]
<1>1. /\ pc[t] = "requeue" /\ s # << >>
      /\ reference_list' = [reference_list EXCEPT ![q] = <<r>> \o w]
      /\ reference_queue_list' = [reference_queue_list EXCEPT ![r] = Tail(s)]
      /\ UNCHANGED <<held, alive, marks, referred_table, referred, pc, loc, gen, origin, owed>>
  BY DEF Requeue, heap, history
<1>2. /\ reference_queue_list \in [References -> Seq(Queues)]
      /\ reference_list \in [Queues -> Seq(References)]
  BY DEF IInv, TypeOK
<1>3. r \in References /\ r \in marks /\ referred[r] = Nil
  BY <1>1 DEF IInv, ClearingOK
<1>4. /\ s \in Seq(Queues) /\ q \in Queues /\ Tail(s) \in Seq(Queues)
      /\ q \in ToSet(s) /\ ToSet(Tail(s)) \subseteq ToSet(s)
      /\ \A y : Occurrences(s, y) = Occurrences(Tail(s), y) + IF q = y THEN 1 ELSE 0
  <2>1. s \in Seq(Queues)
    BY <1>2, <1>3
  <2>. QED BY <1>1, <2>1, TakenOff
<1>5. /\ w \in Seq(References) /\ <<r>> \o w \in Seq(References)
      /\ ToSet(<<r>> \o w) = ToSet(w) \cup {r}
      /\ \A y : Occurrences(<<r>> \o w, y) = Occurrences(w, y) + IF r = y THEN 1 ELSE 0
  <2>1. w \in Seq(References)
    BY <1>2, <1>4
  <2> HIDE DEF w, r
  <2>. QED BY <1>3, <2>1, InFront
<1>6. /\ \A u \in Threads \ {t} : pc[u] = "idle"
      /\ Phase = "before_sweep" /\ \A x : ReferenceLocked(x) <=> r = x
  BY <1>1, CollectorAlone DEF Collecting, PhaseAt
<1>7. Phase' = "before_sweep" /\ \A x : ReferenceLocked(x)' <=> ReferenceLocked(x)
  <2>1. Phase' = Phase
    BY <1>1 DEF Phase
  <2>. QED BY <1>1, <1>6, <2>1 DEF ReferenceLocked
<1>8. Staying = alive /\ Staying' = alive
  BY <1>1, <1>6, <1>7 DEF Staying
<1>9. Marks(r) = ToSet(s) /\ q \in marks /\ q \in alive /\ r \in alive
  BY <1>3, <1>4, <1>6, MarksOf DEF IInv, StayingOK
<1>10. /\ reference_queue_list' \in [References -> Seq(Queues)]
       /\ reference_queue_list'[r] = Tail(s)
       /\ \A x \in References : x # r => reference_queue_list'[x] = reference_queue_list[x]
  BY <1>1, <1>2, <1>3, <1>4
<1>11. /\ reference_list' \in [Queues -> Seq(References)]
       /\ reference_list'[q] = <<r>> \o w
       /\ \A y \in Queues : y # q => reference_list'[y] = reference_list[y]
  <2> HIDE DEF w, r
  <2>. QED BY <1>1, <1>2, <1>4, <1>5
<1> HIDE DEF w, q
<1>12. TypeOK' /\ TableInv'
  BY <1>1, <1>10, <1>11, OtherTable DEF IInv, TypeOK
<1>13. ThreadsOK' /\ ClearingOK' /\ CreatingOK'
  BY <1>1 DEF IInv, ThreadsOK, ClearingOK, CreatingOK, Uncleared
<1> HIDE DEF r
<1>14. \A o \in Objects : Marks(o)' \subseteq Marks(o) \cup {r} /\ (o # q => Marks(o)' \subseteq Marks(o))
  <2>. SUFFICES ASSUME NEW o \in Objects
                PROVE  Marks(o)' \subseteq Marks(o) \cup {r} /\ (o # q => Marks(o)' \subseteq Marks(o))
    OBVIOUS
  <2>1. CASE o \in References
    <3>1. Marks(o)' = ToSet(reference_queue_list'[o]) /\ Marks(o) = ToSet(reference_queue_list[o])
      BY <2>1, MarksOf, MarksOfNext
    <3>2. CASE o = r
      BY <1>4, <1>10, <3>1, <3>2
    <3>3. CASE o # r
      BY <1>10, <2>1, <3>1, <3>3
    <3>. QED BY <3>2, <3>3
  <2>2. CASE o \in Queues
    <3>1. Marks(o)' = ToSet(reference_list'[o]) /\ Marks(o) = ToSet(reference_list[o])
      BY <2>2, MarksOf, MarksOfNext
    <3>2. CASE o = q
      BY <1>5, <1>11, <3>1, <3>2 DEF w
    <3>3. CASE o # q
      BY <1>11, <2>2, <3>1, <3>3
    <3>. QED BY <3>2, <3>3
  <2>3. CASE o \in Referred
    BY <2>3, MarksOfNext
  <2>. QED BY <2>1, <2>2, <2>3 DEF Objects
<1>15. StayingOK'
  <2>1. alive \subseteq Objects /\ marks \subseteq Objects
    BY DEF IInv, TypeOK
  <2>. QED BY <1>1, <1>3, <1>6, <1>7, <1>8, <1>9, <1>14, <2>1 DEF IInv, StayingOK
<1>16. SweptOK'
  BY <1>1, <1>9, <1>10, <1>11 DEF IInv, SweptOK
<1>17. ObjectOK'
  BY <1>1, <1>8 DEF IInv, ObjectOK
<1>18. NoticeOK'
  <2>. SUFFICES ASSUME NEW x \in References \cap alive
                PROVE  /\ \A y \in Queues \cap alive :
                            /\ owed[<<x, y>>] = Occurrences(reference_queue_list'[x], y)
                                                + Occurrences(reference_list'[y], x)
                            /\ referred[x] # Nil => x \notin ToSet(reference_list'[y])
                       /\ referred[x] = Nil /\ x # r => reference_queue_list'[x] = << >>
    BY <1>1, <1>6, <1>7, <1>8 DEF NoticeOK
  <2>1. /\ \A y \in Queues \cap alive :
             /\ owed[<<x, y>>] = Occurrences(reference_queue_list[x], y)
                                 + Occurrences(reference_list[y], x)
             /\ referred[x] # Nil => x \notin ToSet(reference_list[y])
        /\ referred[x] = Nil /\ x # r => reference_queue_list[x] = << >>
    BY <1>6, <1>8 DEF IInv, NoticeOK
  <2>2. ASSUME NEW y \in Queues \cap alive
        PROVE  Occurrences(reference_queue_list'[x], y) + Occurrences(reference_list'[y], x)
               = Occurrences(reference_queue_list[x], y) + Occurrences(reference_list[y], x)
    <3>1. CASE x = r /\ y = q
      <4>1. Occurrences(Tail(s), q) \in Nat /\ Occurrences(w, r) \in Nat
        BY <1>4, <1>5, OccurrencesType
      <4>2. /\ Occurrences(s, q) = Occurrences(Tail(s), q) + 1
            /\ Occurrences(<<r>> \o w, r) = Occurrences(w, r) + 1
        BY <1>4, <1>5
      <4>3. /\ reference_queue_list'[x] = Tail(s) /\ reference_list'[y] = <<r>> \o w
            /\ reference_queue_list[x] = s /\ reference_list[y] = w
        BY <1>10, <1>11, <3>1 DEF s, w
      <4> HIDE DEF s
      <4>. QED BY <3>1, <4>1, <4>2, <4>3
    <3>2. CASE x = r /\ y # q
      <4>1. Occurrences(Tail(s), y) \in Nat /\ Occurrences(s, y) = Occurrences(Tail(s), y) + 0
        BY <1>4, <3>2, OccurrencesType
      <4>2. /\ reference_queue_list'[x] = Tail(s) /\ reference_list'[y] = reference_list[y]
            /\ reference_queue_list[x] = s
        BY <1>10, <1>11, <3>2 DEF s
      <4> HIDE DEF s
      <4>. QED BY <3>2, <4>1, <4>2
    <3>3. CASE x # r /\ y = q
      <4>1. Occurrences(w, x) \in Nat /\ Occurrences(<<r>> \o w, x) = Occurrences(w, x) + 0
        BY <1>5, <3>3, OccurrencesType
      <4>2. /\ reference_queue_list'[x] = reference_queue_list[x]
            /\ reference_list'[y] = <<r>> \o w /\ reference_list[y] = w
        BY <1>10, <1>11, <3>3 DEF w
      <4>. QED BY <3>3, <4>1, <4>2
    <3>4. CASE x # r /\ y # q
      BY <1>10, <1>11, <3>4
    <3>. QED BY <3>1, <3>2, <3>3, <3>4
  <2>3. ASSUME NEW y \in Queues \cap alive, referred[x] # Nil
        PROVE  x \notin ToSet(reference_list'[y])
    <3>1. x # r
      BY <1>3, <2>3
    <3>2. CASE y = q
      <4>1. x \notin ToSet(w)
        BY <2>1, <2>3, <3>2 DEF w
      <4>2. reference_list'[y] = <<r>> \o w
        BY <1>11, <3>2
      <4>. QED BY <1>5, <3>1, <4>1, <4>2
    <3>3. CASE y # q
      BY <1>11, <2>1, <2>3, <3>3
    <3>. QED BY <3>2, <3>3
  <2>. QED BY <1>10, <2>1, <2>2, <2>3
<1>. QED BY <1>12, <1>13, <1>15, <1>16, <1>17, <1>18 DEF IInv

(* It has put it into all of its queues. *)
LEMMA ClearedSafe ==
  ASSUME IInv, NEW t \in Threads, Cleared(t)
  PROVE  IInv'
<1> DEFINE l == [loc[t] EXCEPT !.r = Nil]
<1>1. /\ pc[t] = "requeue" /\ reference_queue_list[loc[t].r] = << >>
      /\ Goto(t, "clear", l)
      /\ UNCHANGED <<held, alive, marks, referred_table, referred, reference_queue_list,
                     reference_list, gen, origin, owed>>
  BY DEF Cleared, heap, lists, history
<1>2. l \in Locals /\ l.todo = loc[t].todo
  <2>1. loc[t] \in Locals
    BY DEF IInv, TypeOK
  <2>. QED BY <2>1 DEF Locals
<1> HIDE DEF l
<1>3. /\ \A u \in Threads \ {t} : pc[u] = "idle"
      /\ Phase = "before_sweep" /\ \A x : ReferenceLocked(x) <=> loc[t].r = x
  BY <1>1, CollectorAlone DEF Collecting, PhaseAt
<1>4. /\ pc' \in [Threads -> {"idle", "lock_queue", "link", "stopping", "marked",
                              "clear", "requeue", "sweep"}]
      /\ loc' \in [Threads -> Locals]
      /\ pc'[t] = "clear" /\ loc'[t] = l /\ \A u \in Threads \ {t} : pc'[u] = "idle"
      /\ ThreadsOK' /\ CreatingOK'
      /\ Phase' = "before_sweep"
  BY <1>1, <1>2, <1>3, CollectorGoesOn DEF PhaseAt
<1>5. Staying = alive /\ Staying' = alive
  BY <1>1, <1>3, <1>4 DEF Staying
<1>6. TypeOK' /\ TableInv'
  BY <1>1, <1>4, OtherTable DEF IInv, TypeOK
<1>7. ClearingOK'
  <2>1. Uncleared' = Uncleared
    BY <1>1 DEF Uncleared
  <2>. QED BY <1>1, <1>2, <1>4, <2>1 DEF IInv, ClearingOK
<1>8. SweptOK' /\ ObjectOK' /\ NoticeOK' /\ \A o : Marks(o)' = Marks(o)
  <2>1. UNCHANGED <<alive, lists, history>>
    BY <1>1 DEF lists, history
  <2>2. \A x \in References : ~ (ReferenceLocked(x) /\ reference_queue_list[x] # << >>)
    BY <1>1, <1>3
  <2>. QED BY <1>5, <2>1, <2>2, ListsStay
<1>9. StayingOK'
  BY <1>1, <1>3, <1>4, <1>5, <1>8 DEF IInv, StayingOK
<1>. QED BY <1>4, <1>6, <1>7, <1>8, <1>9 DEF IInv

(* It has cleared all, and begins to sweep: from now on only the marked stay. *)
LEMMA BeginSweepSafe ==
  ASSUME IInv, NEW t \in Threads, BeginSweep(t)
  PROVE  IInv'
<1>1. /\ pc[t] = "clear" /\ loc[t].todo = {}
      /\ Goto(t, "sweep", NoLocals)
      /\ UNCHANGED <<held, alive, marks, referred_table, referred, reference_queue_list,
                     reference_list, gen, origin, owed>>
  BY DEF BeginSweep, heap, lists, history
<1>2. /\ \A u \in Threads \ {t} : pc[u] = "idle"
      /\ Phase = "before_sweep" /\ \A x : ~ ReferenceLocked(x)
  BY <1>1, CollectorAlone DEF Collecting, PhaseAt
<1>3. /\ pc' \in [Threads -> {"idle", "lock_queue", "link", "stopping", "marked",
                              "clear", "requeue", "sweep"}]
      /\ loc' \in [Threads -> Locals]
      /\ pc'[t] = "sweep" /\ \A u \in Threads \ {t} : pc'[u] = "idle"
      /\ ThreadsOK' /\ CreatingOK'
      /\ Phase' = "sweep"
  BY <1>1, <1>2, NoLocalsOK, CollectorGoesOn DEF PhaseAt
<1>4. Staying = alive /\ Staying' = marks
  BY <1>1, <1>2, <1>3 DEF Staying
<1>5. held \subseteq marks /\ marks \subseteq alive /\ \A o \in marks : Marks(o) \subseteq marks
  BY <1>2 DEF IInv, StayingOK
<1>6. TypeOK' /\ TableInv'
  BY <1>1, <1>3, OtherTable DEF IInv, TypeOK
<1>7. ClearingOK'
  <2>1. Uncleared' = {}
    BY <1>1 DEF IInv, ClearingOK, Uncleared
  <2>. QED BY <1>3, <2>1 DEF ClearingOK
<1>8. SweptOK' /\ ObjectOK' /\ NoticeOK' /\ \A o : Marks(o)' = Marks(o)
  <2>1. UNCHANGED <<alive, lists, history>>
    BY <1>1 DEF lists, history
  <2>. QED BY <1>2, <1>4, <1>5, <2>1, ListsStay
<1>9. StayingOK'
  BY <1>1, <1>3, <1>4, <1>5, <1>8 DEF StayingOK
<1>. QED BY <1>3, <1>6, <1>7, <1>8, <1>9 DEF IInv

(* It frees an object that is not marked. *)
LEMMA SweepSafe ==
  ASSUME IInv, NEW t \in Threads, NEW o \in Objects, SweepObject(t, o)
  PROVE  IInv'
<1>1. /\ pc[t] = "sweep" /\ o \in alive /\ o \notin marks
      /\ alive' = alive \ {o} /\ UNCHANGED <<held, marks, pc, loc>>
  BY DEF SweepObject
<1>2. /\ \A u \in Threads \ {t} : pc[u] = "idle"
      /\ Phase = "sweep" /\ \A x : ~ ReferenceLocked(x)
  BY <1>1, CollectorAlone DEF Collecting, PhaseAt
<1>3. /\ Phase' = "sweep" /\ \A x : ~ ReferenceLocked(x)'
  <2>1. Phase' = Phase
    BY <1>1 DEF Phase
  <2>. QED BY <1>1, <1>2, <2>1 DEF ReferenceLocked
<1>4. Staying = marks /\ Staying' = marks
  BY <1>1, <1>2, <1>3 DEF Staying
<1>5. /\ held \subseteq marks /\ marks \subseteq alive /\ marks \subseteq alive'
      /\ \A x \in marks : Marks(x) \subseteq marks
  BY <1>1, <1>2 DEF IInv, StayingOK
<1>6. Uncleared = {}
  BY <1>1 DEF IInv, ClearingOK
<1>7. /\ reference_queue_list \in [References -> Seq(Queues)]
      /\ reference_list \in [Queues -> Seq(References)]
      /\ owed \in [References \X Queues -> 0 .. MaxOwed] /\ 0 \in 0 .. MaxOwed
      /\ referred \in [References -> Referred \cup {Nil}]
      /\ origin \in [References -> (Referred \cup {Nil}) \X (0 .. MaxGen)] /\ 0 \in 0 .. MaxGen
      /\ << >> \in Seq(Queues) /\ << >> \in Seq(References)
  BY ReferenceAssumption DEF IInv, TypeOK
<1>8. TableInv'
  BY SweepTable DEF IInv
<1>9. /\ reference_queue_list' \in [References -> Seq(Queues)]
      /\ reference_list' \in [Queues -> Seq(References)]
      /\ owed' \in [References \X Queues -> 0 .. MaxOwed]
      /\ origin' \in [References -> (Referred \cup {Nil}) \X (0 .. MaxGen)] /\ gen' = gen
      /\ \A x \in References : x # o =>
           /\ reference_queue_list'[x] = reference_queue_list[x]
           /\ referred'[x] = referred[x] /\ origin'[x] = origin[x]
      /\ \A y \in Queues : y # o => reference_list'[y] = reference_list[y]
      /\ \A x \in References, y \in Queues : x # o /\ y # o => owed'[<<x, y>>] = owed[<<x, y>>]
      /\ \A x \in References, y \in Queues : owed[<<x, y>>] = 0 => owed'[<<x, y>>] = 0
      /\ o \in References => /\ reference_queue_list'[o] = << >>
                             /\ \A y \in Queues : owed'[<<o, y>>] = 0
      /\ o \in Queues => /\ reference_list'[o] = << >>
                         /\ \A x \in References : owed'[<<x, o>>] = 0
  <2>1. CASE o \in References
    <3>1. o \notin Queues /\ o \notin Referred
      BY <2>1, ReferenceAssumption
    <3>2. reference_free(o)
      BY <3>1 DEF SweepObject
    <3>3. /\ reference_queue_list' = [reference_queue_list EXCEPT ![o] = << >>]
          /\ referred' = [referred EXCEPT ![o] = Nil]
          /\ origin' = [origin EXCEPT ![o] = <<Nil, 0>>]
          /\ owed' = [rq \in References \X Queues |-> IF rq[1] = o THEN 0 ELSE owed[rq]]
          /\ reference_list' = reference_list /\ gen' = gen
      BY <3>2 DEF reference_free
    <3>4. /\ owed' \in [References \X Queues -> 0 .. MaxOwed]
          /\ \A x \in References, y \in Queues :
               owed'[<<x, y>>] = IF x = o THEN 0 ELSE owed[<<x, y>>]
      BY <1>7, <3>3
    <3>. QED BY <1>7, <2>1, <3>1, <3>3, <3>4
  <2>2. CASE o \in Queues
    <3>1. o \notin References /\ o \notin Referred
      BY <2>2, ReferenceAssumption
    <3>2. ref_queue_free(o)
      BY <3>1 DEF SweepObject
    <3>3. /\ reference_list' = [reference_list EXCEPT ![o] = << >>]
          /\ owed' = [rq \in References \X Queues |-> IF rq[2] = o THEN 0 ELSE owed[rq]]
          /\ UNCHANGED <<referred, reference_queue_list, gen, origin>>
      BY <3>2 DEF ref_queue_free
    <3>4. /\ owed' \in [References \X Queues -> 0 .. MaxOwed]
          /\ \A x \in References, y \in Queues :
               owed'[<<x, y>>] = IF y = o THEN 0 ELSE owed[<<x, y>>]
      BY <1>7, <3>3
    <3>. QED BY <1>7, <2>2, <3>1, <3>3, <3>4
  <2>3. CASE o \in Referred
    <3>1. o \notin References /\ o \notin Queues
      BY <2>3, ReferenceAssumption
    <3>2. UNCHANGED <<referred, reference_queue_list, reference_list, gen, origin, owed>>
      BY <3>1 DEF SweepObject, lists, history
    <3>. QED BY <1>7, <3>1, <3>2
  <2>. QED BY <2>1, <2>2, <2>3 DEF Objects
<1>10. TypeOK'
  BY <1>1, <1>8, <1>9 DEF IInv, TypeOK, TableInv
<1>11. ThreadsOK' /\ CreatingOK'
  BY <1>1, <1>2 DEF ThreadsOK, CreatingOK, Collecting
<1>12. ClearingOK'
  <2>1. Uncleared' = {}
    BY <1>1, <1>6, <1>9 DEF Uncleared
  <2>. QED BY <1>1, <1>2, <2>1 DEF ClearingOK
<1>13. \A x \in marks : Marks(x)' = Marks(x)
  <2>. SUFFICES ASSUME NEW x \in marks PROVE Marks(x)' = Marks(x)
    OBVIOUS
  <2>1. x # o /\ x \in Objects
    BY <1>1 DEF IInv, TypeOK
  <2>2. CASE x \in References
    <3>1. Marks(x)' = ToSet(reference_queue_list'[x]) /\ Marks(x) = ToSet(reference_queue_list[x])
      BY <2>2, MarksOf, MarksOfNext
    <3>2. reference_queue_list'[x] = reference_queue_list[x]
      BY <1>9, <2>1, <2>2
    <3>. QED BY <3>1, <3>2
  <2>3. CASE x \in Queues
    <3>1. Marks(x)' = ToSet(reference_list'[x]) /\ Marks(x) = ToSet(reference_list[x])
      BY <2>3, MarksOf, MarksOfNext
    <3>2. reference_list'[x] = reference_list[x]
      BY <1>9, <2>1, <2>3
    <3>. QED BY <3>1, <3>2
  <2>4. CASE x \in Referred
    BY <2>4, MarksOf, MarksOfNext
  <2>. QED BY <2>1, <2>2, <2>3, <2>4 DEF Objects
<1>14. StayingOK'
  BY <1>1, <1>3, <1>4, <1>5, <1>13 DEF StayingOK
<1>15. SweptOK'
  BY <1>1, <1>9 DEF IInv, SweptOK
<1>16. ObjectOK'
  <2>. SUFFICES ASSUME NEW x \in References \cap marks, referred'[x] # Nil
                PROVE  referred'[x] \in alive' /\ origin'[x] = <<referred'[x], gen[referred'[x]]>>
    BY <1>4, <1>9 DEF ObjectOK
  <2>1. x # o /\ referred'[x] = referred[x] /\ origin'[x] = origin[x]
    BY <1>1, <1>9
  <2>2. referred[x] \in marks
    BY <1>6, <2>1 DEF Uncleared
  <2>. QED BY <1>4, <1>5, <2>1, <2>2 DEF IInv, ObjectOK
<1>17. NoticeOK'
  <2>. SUFFICES ASSUME NEW x \in References \cap marks
                PROVE  /\ \A y \in Queues \cap alive' :
                            /\ owed'[<<x, y>>] = Occurrences(reference_queue_list'[x], y)
                                                 + Occurrences(reference_list'[y], x)
                            /\ referred'[x] # Nil => x \notin ToSet(reference_list'[y])
                       /\ referred'[x] = Nil => reference_queue_list'[x] = << >>
    BY <1>3, <1>4 DEF NoticeOK
  <2>1. x # o /\ \A y \in Queues \cap alive' : y \in alive /\ y # o
    BY <1>1
  <2>2. /\ \A y \in Queues \cap alive :
             /\ owed[<<x, y>>] = Occurrences(reference_queue_list[x], y)
                                 + Occurrences(reference_list[y], x)
             /\ referred[x] # Nil => x \notin ToSet(reference_list[y])
        /\ referred[x] = Nil => reference_queue_list[x] = << >>
    BY <1>2, <1>4 DEF IInv, NoticeOK
  <2>. QED BY <1>9, <2>1, <2>2
<1>. QED BY <1>8, <1>10, <1>11, <1>12, <1>14, <1>15, <1>16, <1>17 DEF IInv

(* All that is left is marked: the collection ends. *)
LEMMA EndCollectSafe ==
  ASSUME IInv, NEW t \in Threads, EndCollect(t)
  PROVE  IInv'
<1>1. /\ pc[t] = "sweep" /\ alive \subseteq marks /\ marks' = {}
      /\ Goto(t, "idle", NoLocals)
      /\ UNCHANGED <<held, alive, referred_table, referred, reference_queue_list,
                     reference_list, gen, origin, owed>>
  BY DEF EndCollect, Return, lists, history
<1>2. /\ \A u \in Threads \ {t} : pc[u] = "idle"
      /\ Phase = "sweep" /\ \A x : ~ ReferenceLocked(x)
  BY <1>1, CollectorAlone DEF Collecting, PhaseAt
<1>3. /\ pc' \in [Threads -> {"idle", "lock_queue", "link", "stopping", "marked",
                              "clear", "requeue", "sweep"}]
      /\ loc' \in [Threads -> Locals]
      /\ pc'[t] = "idle" /\ \A u \in Threads \ {t} : pc'[u] = "idle"
      /\ ThreadsOK' /\ CreatingOK'
      /\ Phase' = "idle"
  BY <1>1, <1>2, NoLocalsOK, CollectorGoesOn DEF PhaseAt
<1>4. Staying = alive /\ Staying' = alive
  BY <1>1, <1>2, <1>3, StayingAllocated DEF Staying
<1>5. TypeOK' /\ TableInv'
  BY <1>1, <1>3, OtherTable DEF IInv, TypeOK
<1>6. ClearingOK'
  BY <1>3 DEF ClearingOK
<1>7. SweptOK' /\ ObjectOK' /\ NoticeOK' /\ \A o : Marks(o)' = Marks(o)
  <2>1. UNCHANGED <<alive, lists, history>>
    BY <1>1 DEF lists, history
  <2>. QED BY <1>2, <1>4, <2>1, ListsStay
<1>8. StayingOK'
  BY <1>1, <1>3, <1>4, <1>7 DEF IInv, StayingOK
<1>. QED BY <1>3, <1>5, <1>6, <1>7, <1>8 DEF IInv

-----------------------------------------------------------------------------
(* What a careful client may rely on.                                      *)

(* At first there is nothing. *)
LEMMA InitSafe == ASSUME Init PROVE IInv
<1>1. TypeOK /\ TableInv
  BY NoLocalsOK, InitTable, ReferenceAssumption DEF Init, TypeOK
<1>2. ThreadsOK /\ CreatingOK /\ ClearingOK
  BY DEF Init, ThreadsOK, CreatingOK, ClearingOK, Collecting
<1>3. Staying = {} /\ Phase = "idle"
  BY DEF Init, Staying, Phase
<1>4. StayingOK /\ SweptOK /\ ObjectOK /\ NoticeOK
  BY <1>3 DEF Init, StayingOK, SweptOK, ObjectOK, NoticeOK
<1>. QED BY <1>1, <1>2, <1>4 DEF IInv

(* A step of nobody. *)
LEMMA StutterSafe == ASSUME IInv, UNCHANGED vars PROVE IInv'
<1>1. UNCHANGED <<held, alive, marks, referred_table, referred, reference_queue_list,
                  reference_list, pc, loc, gen, origin, owed>>
  BY DEF vars, heap, lists, history
<1>2. Phase' = Phase /\ Staying' = Staying /\ Uncleared' = Uncleared
  BY <1>1 DEF Phase, Staying, Uncleared
<1>3. \A x : ReferenceLocked(x)' <=> ReferenceLocked(x)
  BY <1>1 DEF ReferenceLocked
<1>4. TypeOK' /\ TableInv' /\ ThreadsOK' /\ CreatingOK' /\ ClearingOK'
  BY <1>1, <1>2 DEF IInv, TypeOK, TableInv, ThreadsOK, CreatingOK, ClearingOK
<1>5. SweptOK' /\ ObjectOK' /\ NoticeOK' /\ \A o : Marks(o)' = Marks(o)
  <2>1. UNCHANGED <<alive, lists, history>>
    BY DEF vars, heap
  <2>. QED BY <1>2, <1>3, <2>1, ListsStay
<1>6. StayingOK'
  BY <1>1, <1>2, <1>5 DEF IInv, StayingOK
<1>. QED BY <1>4, <1>5, <1>6 DEF IInv

(* Every step keeps the invariant. *)
LEMMA StepSafe == ASSUME CarefulClient, IInv, [Next]_vars PROVE IInv'
<1>1. CASE Client
  BY <1>1, NewSafe, QueueCreateSafe, TakeSafe, DropSafe, ReferredSafe, CreateSafe DEF Client
<1>2. ASSUME NEW t \in Threads, Collect(t) PROVE IInv'
  BY <1>2, CollectSafe
<1>3. ASSUME NEW t \in Threads, Step(t) PROVE IInv'
  BY <1>3, LockQueueSafe, LinkSafe, MarkSafe, BeforeSweepSafe, ClearSafe, RequeueSafe,
     ClearedSafe, BeginSweepSafe, SweepSafe, EndCollectSafe DEF Step
<1>4. CASE UNCHANGED vars
  BY <1>4, StutterSafe
<1>. QED BY <1>1, <1>2, <1>3, <1>4 DEF Next

(* IInv holds of every careful client. *)
THEOREM Invariant ==
  ASSUME CarefulClient
  PROVE  Spec => []IInv
<1>1. Init => IInv
  BY InitSafe
<1>2. IInv /\ [Next]_vars => IInv'
  BY CarefulClient, StepSafe
<1>. QED BY <1>1, <1>2, PTL DEF Spec

(* Every variable keeps its type; of a notice no more is taken than was    *)
(* registered.                                                             *)
THEOREM TypeCorrect ==
  ASSUME CarefulClient
  PROVE  Spec => []TypeOK
<1>1. IInv => TypeOK
  BY DEF IInv
<1>. QED BY <1>1, CarefulClient, Invariant, PTL

(* What can be reached stays. *)
LEMMA ReachableStays == ASSUME IInv PROVE Reachable \subseteq Staying
<1>1. held \in SUBSET Objects /\ Staying \in SUBSET Objects
  BY StayingAllocated DEF IInv, TypeOK
<1>2. \A o \in Objects : Marks(o) \subseteq Objects
  BY MarksTyped DEF IInv
<1>. QED BY <1>1, <1>2, Reached, StayingAllocated DEF Reachable

(* What the client can reach, through its references and queues too, is    *)
(* not swept.                                                              *)
THEOREM HeldStaysAlive ==
  ASSUME CarefulClient
  PROVE  Spec => []HeldAlive
<1>1. IInv => HeldAlive
  BY ReachableStays, StayingAllocated DEF HeldAlive
<1>. QED BY <1>1, CarefulClient, Invariant, PTL

(* A weak reference never refers to another object that was given the      *)
(* address of the first.                                                   *)
THEOREM SameObjectAlways ==
  ASSUME CarefulClient
  PROVE  Spec => []SameObject
<1>1. IInv => SameObject
  BY ReachableStays DEF IInv, ObjectOK, SameObject
<1>. QED BY <1>1, CarefulClient, Invariant, PTL

-----------------------------------------------------------------------------
(* Out of reach for good.                                                  *)

(* No reference was made for an object still to come, ...                  *)
OriginOK ==
  \A r \in References, p \in Referred, n \in 0 .. MaxGen :
    origin[r] = <<p, n>> => n <= gen[p]

(* ... of the object of one that is cleared there is no pointer left, nor  *)
(* another reference, ...                                                  *)
GoneOK ==
  \A r \in References, p \in Referred :
    referred[r] = Nil /\ origin[r] = <<p, gen[p]>> => p \notin held /\ referred_table[p] = Nil

(* ... and one about to be cleared is of an object that is not marked.     *)
TodoOK ==
  \A t \in Threads : pc[t] \in {"clear", "requeue"} =>
    \A r \in loc[t].todo : referred[r] \in Referred \ marks

GoneInv == IInv /\ OriginOK /\ GoneOK /\ TodoOK

(* A step that makes no pointer to an object, no reference and clears none. *)
LEMMA GoneStays ==
  ASSUME OriginOK, GoneOK, UNCHANGED <<referred_table, referred, gen, origin>>,
         held' \cap Referred \subseteq held
  PROVE  OriginOK' /\ GoneOK'
BY DEF OriginOK, GoneOK

(* A call of the client that marks at most what it allocates. *)
LEMMA TodoStays ==
  ASSUME GoneInv, UNCHANGED <<pc, loc, referred>>,
         NEW o \in Objects \ alive, marks' \subseteq marks \cup {o}
  PROVE  TodoOK'
<1>. SUFFICES ASSUME NEW t \in Threads, pc[t] \in {"clear", "requeue"}, NEW r \in loc[t].todo
              PROVE  referred[r] \in Referred \ marks'
  BY DEF TodoOK
<1>1. referred[r] \in Referred \ marks
  BY DEF GoneInv, TodoOK
<1>2. Phase = "before_sweep"
  BY PhaseOf DEF GoneInv, IInv, Collecting
<1>3. r \in References \cap Staying
  <2>1. loc[t].todo \subseteq References /\ loc[t].todo \subseteq marks
    BY DEF GoneInv, IInv, TypeOK, Locals, ClearingOK
  <2>2. marks \subseteq Staying
    BY <1>2 DEF GoneInv, IInv, StayingOK, Staying
  <2>. QED BY <2>1, <2>2
<1>4. referred[r] \in alive
  BY <1>1, <1>3, ReferenceAssumption DEF GoneInv, IInv, ObjectOK
<1>. QED BY <1>1, <1>4

(* Where no thread clears, none has anything to clear after its step. *)
LEMMA NothingTodo ==
  ASSUME GoneInv, Phase # "before_sweep", NEW t \in Threads,
         NEW label \in {"idle", "lock_queue", "link", "stopping", "marked", "sweep"},
         NEW l, Goto(t, label, l)
  PROVE  TodoOK'
<1>1. \A u \in Threads : pc[u] \notin {"clear", "requeue"}
  BY PhaseOf DEF GoneInv, IInv, Collecting
<1>2. pc'[t] = label /\ \A u \in Threads \ {t} : pc'[u] = pc[u]
  BY GotoPlace DEF GoneInv, IInv
<1>. QED BY <1>1, <1>2 DEF TodoOK

(* The client. *)
LEMMA ClientGone ==
  ASSUME CarefulClient, GoneInv, Client
  PROVE  OriginOK' /\ GoneOK' /\ TodoOK'
<1>. USE DEF GoneInv
<1>1. ASSUME NEW p \in Referred, New(p) PROVE OriginOK' /\ GoneOK' /\ TodoOK'
  <2>1. /\ p \in Objects \ alive /\ held' = held \cup {p} /\ marks' \subseteq marks \cup {p}
        /\ gen' = [gen EXCEPT ![p] = @ + 1]
        /\ UNCHANGED <<referred_table, referred, pc, loc, origin>>
    BY <1>1 DEF New, Alloc, lists, Objects
  <2>2. /\ gen \in [Referred -> 0 .. MaxGen] /\ MaxGen \in Nat
        /\ gen'[p] = gen[p] + 1 /\ \A x \in Referred : x # p => gen'[x] = gen[x]
    BY <2>1, ReferenceAssumption DEF IInv, TypeOK
  <2>3. gen[p] < MaxGen
    BY <1>1 DEF New
  <2>4. \A r \in References : origin[r] # <<p, gen[p] + 1>>
    BY <2>2, <2>3 DEF OriginOK
  <2>5. OriginOK'
    <3>. SUFFICES ASSUME NEW r \in References, NEW x \in Referred, NEW n \in 0 .. MaxGen,
                         origin[r] = <<x, n>>
                  PROVE  n <= gen'[x]
      BY <2>1 DEF OriginOK
    <3>1. n <= gen[x] /\ gen[x] \in 0 .. MaxGen
      BY <2>2 DEF OriginOK
    <3>. QED BY <2>2, <3>1
  <2>6. GoneOK'
    <3>. SUFFICES ASSUME NEW r \in References, NEW x \in Referred,
                         referred[r] = Nil, origin[r] = <<x, gen'[x]>>
                  PROVE  x \notin held' /\ referred_table[x] = Nil
      BY <2>1 DEF GoneOK
    <3>1. x # p
      BY <2>2, <2>4
    <3>. QED BY <2>1, <2>2, <3>1 DEF GoneOK
  <2>. QED BY <2>1, <2>5, <2>6, TodoStays
<1>2. ASSUME NEW q \in Queues, smal_reference_queue_create(q)
      PROVE  OriginOK' /\ GoneOK' /\ TodoOK'
  <2>1. /\ q \in Objects \ alive /\ held' = held \cup {q} /\ marks' \subseteq marks \cup {q}
        /\ UNCHANGED <<referred_table, referred, pc, loc, gen, origin>>
    BY <1>2 DEF smal_reference_queue_create, Alloc, lists, history, Objects
  <2>2. held' \cap Referred \subseteq held
    BY <2>1, ReferenceAssumption
  <2>. QED BY <2>1, <2>2, TodoStays, GoneStays
<1>3. ASSUME NEW q \in Queues, smal_reference_queue_take(q)
      PROVE  OriginOK' /\ GoneOK' /\ TodoOK'
  <2>1. /\ held' = held \cup {Head(reference_list[q])} /\ reference_list[q] # << >>
        /\ UNCHANGED <<marks, referred_table, referred, pc, loc, gen, origin>>
    BY <1>3 DEF smal_reference_queue_take
  <2>2. Head(reference_list[q]) \in References
    BY <2>1 DEF IInv, TypeOK
  <2>3. held' \cap Referred \subseteq held
    BY <2>1, <2>2, ReferenceAssumption
  <2>. QED BY <2>1, <2>3, GoneStays DEF TodoOK
<1>4. ASSUME NEW o \in Objects, Drop(o) PROVE OriginOK' /\ GoneOK' /\ TodoOK'
  <2>1. /\ held' \subseteq held
        /\ UNCHANGED <<marks, referred_table, referred, pc, loc, gen, origin>>
    BY <1>4 DEF Drop, lists, history
  <2>. QED BY <2>1, GoneStays DEF TodoOK
<1>5. ASSUME NEW r \in References, smal_reference_referred(r)
      PROVE  OriginOK' /\ GoneOK' /\ TodoOK'
  <2>1. /\ held' = held \cup {referred[r]} /\ referred[r] # Nil
        /\ UNCHANGED <<marks, referred_table, referred, pc, loc, gen, origin>>
    BY <1>5 DEF smal_reference_referred, lists, history
  <2>2. referred[r] \in Referred /\ referred_table[referred[r]] # Nil
    BY <2>1, ReferenceAssumption DEF IInv, TableInv
  <2>. QED BY <2>1, <2>2 DEF OriginOK, GoneOK, TodoOK
<1>6. ASSUME NEW t \in Threads, NEW p \in Referred, NEW q \in Queues \cup {Nil},
             smal_reference_create_weak(t, p, q)
      PROVE  OriginOK' /\ GoneOK' /\ TodoOK'
  <2>1. Phase = "idle" /\ p \in held
    BY <1>6 DEF smal_reference_create_weak, MayCreate, MayBegin, CarefulClient
  <2>2. ASSUME NEW r \in References, Found(t, r, p, q)
        PROVE  TodoOK' /\ held' \subseteq held \cup {r}
    <3>1. \E label \in {"idle", "lock_queue"}, l \in {NoLocals, [NoLocals EXCEPT !.ptr = p, !.q = q, !.r = r]} :
             Goto(t, label, l)
      BY <2>2 DEF Found, ReturnReference, Return
    <3>2. TodoOK'
      BY <2>1, <3>1, NothingTodo
    <3>. QED BY <2>2, <3>2 DEF Found, ReturnReference
  <2>3. CASE FindReference(t, p, q)
    <3>1. referred_table[p] \in References /\ Found(t, referred_table[p], p, q)
      BY <2>3 DEF FindReference, IInv, TableInv
    <3>2. UNCHANGED <<referred_table, referred, gen, origin>>
      BY <2>3 DEF FindReference, lists, history
    <3>. QED BY <2>2, <3>1, <3>2, ReferenceAssumption, GoneStays
  <2>4. CASE referred_table[p] = Nil /\ NewReference(t, p, q)
    <3>1. PICK r \in References \ alive :
            /\ referred' = [referred EXCEPT ![r] = p]
            /\ origin' = [origin EXCEPT ![r] = <<p, gen[p]>>]
            /\ referred_table' = [referred_table EXCEPT ![p] = r]
            /\ Found(t, r, p, q) /\ gen' = gen
      BY <2>4 DEF NewReference
    <3>2. /\ referred'[r] = p /\ p # Nil /\ origin'[r] = <<p, gen[p]>>
          /\ \A x \in References \ {r} : referred'[x] = referred[x] /\ origin'[x] = origin[x]
          /\ \A x \in Referred \ {p} : referred_table'[x] = referred_table[x]
      BY <3>1, ReferenceAssumption DEF IInv, TypeOK
    <3>3. TodoOK' /\ held' \cap Referred \subseteq held
      BY <2>2, <3>1, ReferenceAssumption
    <3>4. OriginOK'
      <4>. SUFFICES ASSUME NEW x \in References, NEW y \in Referred, NEW n \in 0 .. MaxGen,
                           origin'[x] = <<y, n>>
                    PROVE  n <= gen[y]
        BY <3>1 DEF OriginOK
      <4>1. CASE x = r
        <5>1. n = gen[y] /\ gen[y] \in 0 .. MaxGen
          BY <3>2, <4>1 DEF IInv, TypeOK
        <5>. QED BY <5>1, ReferenceAssumption
      <4>2. CASE x # r
        BY <3>2, <4>2 DEF OriginOK
      <4>. QED BY <4>1, <4>2
    <3>5. GoneOK'
      <4>. SUFFICES ASSUME NEW x \in References, NEW y \in Referred,
                           referred'[x] = Nil, origin'[x] = <<y, gen[y]>>
                    PROVE  y \notin held' /\ referred_table'[y] = Nil
        BY <3>1 DEF GoneOK
      <4>1. referred[x] = Nil /\ origin[x] = <<y, gen[y]>>
        BY <3>2
      <4>2. y \notin held /\ referred_table[y] = Nil
        BY <4>1 DEF GoneOK
      <4>. QED BY <2>1, <3>2, <3>3, <4>2
    <3>. QED BY <3>3, <3>4, <3>5
  <2>. QED BY <1>6, <2>3, <2>4 DEF smal_reference_create_weak
<1>. QED BY <1>1, <1>2, <1>3, <1>4, <1>5, <1>6 DEF Client

(* A thread goes on that does not clear or sweep a reference. *)
LEMMA OtherGone ==
  ASSUME GoneInv, NEW t \in Threads,
         \/ CreateLockQueue(t) \/ CreateLink(t) \/ Collect(t) \/ Mark(t) \/ BeforeSweep(t)
         \/ Requeue(t) \/ Cleared(t) \/ BeginSweep(t) \/ EndCollect(t)
  PROVE  OriginOK' /\ GoneOK' /\ TodoOK'
<1>. USE DEF GoneInv
<1>1. UNCHANGED <<referred_table, referred, gen, origin>>
  BY DEF CreateLockQueue, CreateLink, Collect, Mark, BeforeSweep, Requeue, Cleared, BeginSweep,
         EndCollect, lists, history
<1>2. held' \cap Referred \subseteq held
  <2>1. CASE CreateLink(t)
    <3>1. loc[t].r \in References /\ held' = held \cup {loc[t].r}
      BY <2>1 DEF CreateLink, ReturnReference, IInv, CreatingOK
    <3>. QED BY <3>1, ReferenceAssumption
  <2>2. CASE ~ CreateLink(t)
    BY <2>2 DEF CreateLockQueue, Collect, Mark, BeforeSweep, Requeue, Cleared, BeginSweep,
                EndCollect, heap
  <2>. QED BY <2>1, <2>2
<1>3. OriginOK' /\ GoneOK'
  BY <1>1, <1>2, GoneStays
<1>4. TodoOK'
  <2>1. CASE CreateLockQueue(t) \/ CreateLink(t)
    <3>1. pc[t] \in {"lock_queue", "link"}
      BY <2>1 DEF CreateLockQueue, CreateLink
    <3>2. Phase # "before_sweep"
      BY <3>1, InCall
    <3>3. Goto(t, "link", loc[t]) \/ Goto(t, "idle", NoLocals)
      BY <2>1 DEF CreateLockQueue, CreateLink, ReturnReference, Return
    <3>. QED BY <3>2, <3>3, NothingTodo
  <2>2. CASE Collect(t)
    BY <2>2, NothingTodo DEF Collect
  <2>3. CASE Mark(t)
    <3>1. Phase = "stopping"
      BY <2>3, CollectorAlone DEF Mark, Collecting, PhaseAt
    <3>. QED BY <2>3, <3>1, NothingTodo DEF Mark
  <2>4. CASE BeforeSweep(t)
    <3> DEFINE todo == ToClear({referred_table[p] : p \in Referred} \ {Nil})
               l == [NoLocals EXCEPT !.todo = todo]
    <3>1. pc[t] = "marked" /\ Goto(t, "clear", l) /\ marks' = marks
      BY <2>4 DEF BeforeSweep, heap
    <3>2. \A r \in todo : referred[r] \in Referred \ marks
      BY DEF ToClear, IInv, TableInv
    <3>3. l.todo = todo
      BY DEF NoLocals
    <3> HIDE DEF todo, l
    <3>4. \A u \in Threads \ {t} : pc[u] = "idle"
      BY <3>1, CollectorAlone DEF Collecting
    <3>5. /\ pc'[t] = "clear" /\ loc'[t] = l
          /\ \A u \in Threads \ {t} : pc'[u] = "idle"
      BY <3>1, <3>4 DEF Goto, IInv, TypeOK
    <3>. QED BY <1>1, <3>1, <3>2, <3>3, <3>5 DEF TodoOK
  <2>5. CASE Requeue(t)
    BY <1>1, <2>5 DEF Requeue, heap, TodoOK
  <2>6. CASE Cleared(t)
    <3> DEFINE l == [loc[t] EXCEPT !.r = Nil]
    <3>1. pc[t] = "requeue" /\ Goto(t, "clear", l) /\ marks' = marks
      BY <2>6 DEF Cleared, heap
    <3>2. l.todo = loc[t].todo
      BY DEF IInv, TypeOK, Locals
    <3> HIDE DEF l
    <3>3. \A u \in Threads \ {t} : pc[u] = "idle"
      BY <3>1, CollectorAlone DEF Collecting
    <3>4. /\ pc'[t] = "clear" /\ loc'[t] = l
          /\ \A u \in Threads \ {t} : pc'[u] = "idle"
      BY <3>1, <3>3 DEF Goto, IInv, TypeOK
    <3>. QED BY <1>1, <3>1, <3>2, <3>4 DEF TodoOK
  <2>7. CASE BeginSweep(t) \/ EndCollect(t)
    <3>1. pc[t] \in {"clear", "sweep"} /\ \E label \in {"sweep", "idle"} : Goto(t, label, NoLocals)
      BY <2>7 DEF BeginSweep, EndCollect, Return
    <3>2. \A u \in Threads \ {t} : pc[u] = "idle"
      BY <3>1, CollectorAlone DEF Collecting
    <3>3. pc'[t] \in {"sweep", "idle"} /\ \A u \in Threads \ {t} : pc'[u] = "idle"
      BY <3>1, <3>2, GotoPlace DEF IInv
    <3>. QED BY <3>3 DEF TodoOK
  <2>. QED BY <2>1, <2>2, <2>3, <2>4, <2>5, <2>6, <2>7
<1>. QED BY <1>3, <1>4

(* A reference is cleared when its object is not marked, and what the      *)
(* client holds is.                                                        *)
LEMMA ClearGone ==
  ASSUME GoneInv, NEW t \in Threads, ClearReference(t)
  PROVE  OriginOK' /\ GoneOK' /\ TodoOK'
<1>. USE DEF GoneInv
<1>1. PICK r \in loc[t].todo :
        /\ Unlink(r) /\ Goto(t, "requeue", [loc[t] EXCEPT !.r = r, !.todo = @ \ {r}])
        /\ UNCHANGED <<held, marks, gen, origin>>
  BY DEF ClearReference, heap, history
<1> DEFINE l == [loc[t] EXCEPT !.r = r, !.todo = @ \ {r}]
<1>2. pc[t] = "clear" /\ loc[t] \in Locals /\ r \in References /\ l.todo = loc[t].todo \ {r}
  BY <1>1 DEF ClearReference, IInv, TypeOK, Locals
<1> HIDE DEF l
<1>3. referred[r] \in Referred \ marks /\ \A x \in loc[t].todo : referred[x] \in Referred \ marks
  BY <1>2 DEF TodoOK
<1>4. held \subseteq marks /\ \A u \in Threads \ {t} : pc[u] = "idle"
  <2>1. Phase = "before_sweep" /\ \A u \in Threads \ {t} : pc[u] = "idle"
    BY <1>2, CollectorAlone DEF Collecting, PhaseAt
  <2>. QED BY <2>1 DEF IInv, StayingOK
<1>5. /\ referred'[r] = Nil /\ \A x \in References \ {r} : referred'[x] = referred[x]
      /\ referred_table'[referred[r]] = Nil
      /\ \A p \in Referred : referred_table'[p] \in {referred_table[p], Nil}
  BY <1>1, <1>2, <1>3 DEF Unlink, IInv, TypeOK
<1>6. OriginOK'
  BY <1>1 DEF OriginOK
<1>7. GoneOK'
  <2>. SUFFICES ASSUME NEW x \in References, NEW p \in Referred,
                       referred'[x] = Nil, origin[x] = <<p, gen[p]>>
                PROVE  p \notin held /\ referred_table'[p] = Nil
    BY <1>1 DEF GoneOK
  <2>1. CASE x = r
    <3>1. origin[r] = <<referred[r], gen[referred[r]]>>
      <4>1. r \in Staying /\ referred[r] # Nil
        <5>1. r \in marks /\ Phase = "before_sweep"
          BY <1>2, CollectorAlone DEF IInv, ClearingOK, Collecting, PhaseAt
        <5>. QED BY <1>3, <5>1, ReferenceAssumption DEF IInv, StayingOK, Staying
      <4>. QED BY <1>2, <4>1 DEF IInv, ObjectOK
    <3>2. p = referred[r]
      BY <2>1, <3>1
    <3>. QED BY <1>3, <1>4, <1>5, <3>2
  <2>2. CASE x # r
    <3>1. p \notin held /\ referred_table[p] = Nil
      BY <1>5, <2>2 DEF GoneOK
    <3>. QED BY <1>5, <3>1
  <2>. QED BY <2>1, <2>2
<1>8. TodoOK'
  <2>1. Goto(t, "requeue", l)
    BY <1>1 DEF l
  <2>2. loc'[t] = l /\ pc'[t] = "requeue" /\ \A u \in Threads \ {t} : pc'[u] = "idle"
    BY <1>4, <2>1 DEF Goto, IInv, TypeOK
  <2>3. loc[t].todo \subseteq References
    BY <1>2 DEF Locals
  <2>. QED BY <1>1, <1>2, <1>3, <1>5, <2>2, <2>3 DEF TodoOK
<1>. QED BY <1>6, <1>7, <1>8

(* A reference that is swept is of no object any more. *)
LEMMA SweepGone ==
  ASSUME GoneInv, NEW t \in Threads, NEW o \in Objects, SweepObject(t, o)
  PROVE  OriginOK' /\ GoneOK' /\ TodoOK'
<1>. USE DEF GoneInv
<1>1. pc[t] = "sweep" /\ UNCHANGED <<held, marks, pc, loc>>
  BY DEF SweepObject
<1>2. TodoOK'
  <2>1. \A u \in Threads \ {t} : pc[u] = "idle"
    BY <1>1, CollectorAlone DEF Collecting
  <2>. QED BY <1>1, <2>1 DEF TodoOK
<1>3. CASE UNCHANGED <<referred_table, referred, gen, origin>>
  BY <1>1, <1>2, <1>3, GoneStays
<1>4. CASE o \in References /\ reference_free(o)
  <2>1. /\ gen' = gen /\ origin'[o] = <<Nil, 0>>
        /\ \A x \in References \ {o} : referred'[x] = referred[x] /\ origin'[x] = origin[x]
        /\ \A p \in Referred : referred_table'[p] \in {referred_table[p], Nil}
    BY <1>4 DEF reference_free, IInv, TypeOK
  <2>2. \A p \in Referred : \A n : origin'[o] # <<p, n>>
    BY <2>1, ReferenceAssumption
  <2>3. OriginOK'
    BY <2>1, <2>2 DEF OriginOK
  <2>4. GoneOK'
    <3>. SUFFICES ASSUME NEW x \in References, NEW p \in Referred,
                         referred'[x] = Nil, origin'[x] = <<p, gen[p]>>
                  PROVE  p \notin held /\ referred_table'[p] = Nil
      BY <1>1, <2>1 DEF GoneOK
    <3>1. x # o
      BY <2>2
    <3>2. p \notin held /\ referred_table[p] = Nil
      BY <2>1, <3>1 DEF GoneOK
    <3>. QED BY <2>1, <3>2
  <2>. QED BY <1>2, <2>3, <2>4
<1>. QED BY <1>3, <1>4 DEF SweepObject, ref_queue_free, lists, history

(* A careful client gets no pointer to an object whose reference is cleared. *)
THEOREM GoneInvariant ==
  ASSUME CarefulClient
  PROVE  Spec => []GoneInv
<1>1. Init => GoneInv
  <2>. SUFFICES ASSUME Init PROVE GoneInv
    OBVIOUS
  <2>1. OriginOK /\ GoneOK /\ TodoOK
    BY ReferenceAssumption DEF Init, OriginOK, GoneOK, TodoOK
  <2>. QED BY <2>1, InitSafe DEF GoneInv
<1>2. GoneInv /\ [Next]_vars => GoneInv'
  <2>. SUFFICES ASSUME GoneInv, [Next]_vars PROVE GoneInv'
    OBVIOUS
  <2>1. IInv'
    BY CarefulClient, StepSafe DEF GoneInv
  <2>2. CASE Client
    BY <2>1, <2>2, CarefulClient, ClientGone DEF GoneInv
  <2>3. ASSUME NEW t \in Threads, Collect(t) \/ Step(t) PROVE GoneInv'
    BY <2>1, <2>3, OtherGone, ClearGone, SweepGone DEF Step, GoneInv
  <2>4. CASE UNCHANGED vars
    <3>1. UNCHANGED <<referred_table, referred, gen, origin, held, pc, loc, marks>>
      BY <2>4 DEF vars, heap, lists, history
    <3>2. OriginOK' /\ GoneOK' /\ TodoOK'
      BY <3>1 DEF OriginOK, GoneOK, TodoOK, GoneInv
    <3>. QED BY <2>1, <3>2 DEF GoneInv
  <2>. QED BY <2>2, <2>3, <2>4 DEF Next
<1>. QED BY <1>1, <1>2, PTL DEF Spec

(* What the client reaches of the objects it holds. *)
LEMMA ReachesHeld == ASSUME IInv PROVE Reachable \cap Referred \subseteq held
<1> DEFINE S == held \cup References \cup Queues
<1>1. held \in SUBSET Objects /\ S \in SUBSET Objects
  BY DEF IInv, TypeOK, Objects
<1>2. \A o \in Objects : Marks(o) \subseteq Objects
  BY MarksTyped DEF IInv
<1>3. \A o \in S : Marks(o) \subseteq S
  <2>. SUFFICES ASSUME NEW o \in S PROVE Marks(o) \subseteq S
    OBVIOUS
  <2>1. CASE o \in Referred
    BY <2>1, MarksOf
  <2>2. CASE o \in References \cup Queues
    BY <2>2, MarksTyped DEF IInv
  <2>. QED BY <1>1, <2>1, <2>2 DEF Objects
<1>4. Reachable \subseteq S
  BY <1>1, <1>2, <1>3, Reached DEF Reachable
<1>. QED BY <1>4, ReferenceAssumption

(* Each registration of a reference with a queue gives one notice, none    *)
(* before the object is out of reach, and then it stays out of reach.      *)
THEOREM OneNoticeEach ==
  ASSUME CarefulClient
  PROVE  Spec => []OneNotice
<1>1. GoneInv => OneNotice
  <2>. SUFFICES ASSUME GoneInv, NEW r \in Reachable \cap References PROVE
         /\ \A q \in Queues \cap alive :
              /\ owed[<<r, q>>] = Occurrences(reference_queue_list[r], q)
                              + Occurrences(reference_list[q], r)
              /\ referred[r] # Nil => r \notin ToSet(reference_list[q])
         /\ referred[r] = Nil =>
              /\ ~ ReferenceLocked(r) => reference_queue_list[r] = << >>
              /\ \A p \in Reachable \cap Referred : origin[r] # <<p, gen[p]>>
    BY DEF OneNotice
  <2>1. r \in References \cap Staying
    BY ReachableStays DEF GoneInv
  <2>2. \A p \in Reachable \cap Referred : p \in held
    BY ReachesHeld DEF GoneInv
  <2>3. referred[r] = Nil => \A p \in Reachable \cap Referred : origin[r] # <<p, gen[p]>>
    BY <2>1, <2>2 DEF GoneInv, GoneOK
  <2>. QED BY <2>1, <2>3 DEF GoneInv, IInv, NoticeOK
<1>. QED BY <1>1, CarefulClient, GoneInvariant, PTL

-----------------------------------------------------------------------------
(* Deadlock.                                                               *)

(* Thread u holds a mutex that t takes next, or is in the call of the      *)
(* client that ends before the world is stopped.                           *)
WaitsFor(t, u) ==
  \/ pc[t] = "lock_queue" /\ pc[u] = "link" /\ loc[u].q = loc[t].q
  \/ pc[t] = "link" /\ pc[u] = "requeue" /\ loc[u].r = loc[t].r
  \/ pc[t] = "clear" /\ pc[u] = "requeue" /\ loc[u].r \in loc[t].todo
  \/ /\ pc[t] = "requeue" /\ reference_queue_list[loc[t].r] # << >>
     /\ pc[u] = "link" /\ loc[u].q = Head(reference_queue_list[loc[t].r])
  \/ pc[t] \in {"marked", "sweep"} /\ pc[u] \in {"clear", "requeue"}
  \/ pc[t] = "stopping" /\ pc[u] # "idle" /\ t # u

(* Among any threads one waits for none of them. *)
NoDeadlock ==
  \A S \in SUBSET Threads : S # {} => \E t \in S : \A u \in S : ~ WaitsFor(t, u)

(* One thread collects, and while it is in before_sweep the others are in  *)
(* no call.                                                                *)
BeforeSweepAlone ==
  /\ pc \in [Threads -> {"idle", "lock_queue", "link"} \cup Collecting]
  /\ \A t, u \in Threads : pc[t] \in Collecting /\ t # u =>
       pc[u] \in IF pc[t] \in {"stopping", "sweep"} THEN {"idle", "lock_queue", "link"} ELSE {"idle"}

(* Where a step takes a thread. *)
LEMMA Moves ==
  ASSUME MayCall["create"] \subseteq Phases \ {"before_sweep"}, [Next]_vars
  PROVE  \/ pc' = pc
         \/ \E t \in Threads :
              \/ /\ pc[t] = "idle" /\ Phase # "before_sweep"
                 /\ pc' = [pc EXCEPT ![t] = "lock_queue"] \/ pc' = [pc EXCEPT ![t] = "idle"]
              \/ /\ pc[t] = "idle" /\ Phase = "idle"
                 /\ pc' = [pc EXCEPT ![t] = "stopping"]
              \/ /\ pc[t] \in {"lock_queue", "link"}
                 /\ pc' = [pc EXCEPT ![t] = "link"] \/ pc' = [pc EXCEPT ![t] = "idle"]
              \/ /\ pc[t] = "stopping" /\ \A u \in Threads \ {t} : pc[u] = "idle"
                 /\ pc' = [pc EXCEPT ![t] = "marked"]
              \/ /\ pc[t] \in {"marked", "clear", "requeue"}
                 /\ \E place \in {"clear", "requeue", "sweep"} : pc' = [pc EXCEPT ![t] = place]
              \/ /\ pc[t] = "sweep" /\ pc' = [pc EXCEPT ![t] = "idle"]
<1>. USE DEF Goto, Return
<1>1. CASE UNCHANGED vars
  BY <1>1 DEF vars
<1>2. ASSUME \/ \E p \in Referred : New(p)
             \/ \E q \in Queues : smal_reference_queue_create(q) \/ smal_reference_queue_take(q)
             \/ \E o \in Objects : Drop(o)
             \/ \E r \in References : smal_reference_referred(r)
      PROVE  pc' = pc
  BY <1>2, Zenon DEF New, smal_reference_queue_create, smal_reference_queue_take, Drop, smal_reference_referred
<1>3. ASSUME NEW t \in Threads, NEW p \in Referred, NEW q \in Queues \cup {Nil},
             smal_reference_create_weak(t, p, q)
      PROVE  /\ pc[t] = "idle" /\ Phase # "before_sweep"
             /\ pc' = [pc EXCEPT ![t] = "lock_queue"] \/ pc' = [pc EXCEPT ![t] = "idle"]
  <2>1. pc[t] = "idle" /\ Phase # "before_sweep"
    BY <1>3 DEF smal_reference_create_weak, MayCreate, MayBegin
  <2>2. \E r : Found(t, r, p, q)
    BY <1>3, Zenon DEF smal_reference_create_weak, FindReference, NewReference
  <2>. QED BY <2>1, <2>2 DEF Found, ReturnReference
<1>4. ASSUME NEW t \in Threads, Collect(t)
      PROVE  pc[t] = "idle" /\ Phase = "idle" /\ pc' = [pc EXCEPT ![t] = "stopping"]
  BY <1>4 DEF Collect
<1>5. ASSUME NEW t \in Threads, CreateLockQueue(t) \/ CreateLink(t)
      PROVE  /\ pc[t] \in {"lock_queue", "link"}
             /\ pc' = [pc EXCEPT ![t] = "link"] \/ pc' = [pc EXCEPT ![t] = "idle"]
  BY <1>5 DEF CreateLockQueue, CreateLink, ReturnReference
<1>6. ASSUME NEW t \in Threads, Mark(t)
      PROVE  /\ pc[t] = "stopping" /\ \A u \in Threads \ {t} : pc[u] = "idle"
             /\ pc' = [pc EXCEPT ![t] = "marked"]
  BY <1>6 DEF Mark
<1>7. ASSUME NEW t \in Threads, BeforeSweep(t) \/ ClearReference(t) \/ Cleared(t) \/ BeginSweep(t)
      PROVE  /\ pc[t] \in {"marked", "clear", "requeue"}
             /\ \E place \in {"clear", "requeue", "sweep"} : pc' = [pc EXCEPT ![t] = place]
  BY <1>7 DEF BeforeSweep, ClearReference, Cleared, BeginSweep
<1>8. ASSUME NEW t \in Threads, Requeue(t) \/ \E o \in Objects : SweepObject(t, o)
      PROVE  pc' = pc
  BY <1>8 DEF Requeue, SweepObject
<1>9. ASSUME NEW t \in Threads, EndCollect(t)
      PROVE  pc[t] = "sweep" /\ pc' = [pc EXCEPT ![t] = "idle"]
  BY <1>9 DEF EndCollect
<1>. QED BY <1>1, <1>2, <1>3, <1>4, <1>5, <1>6, <1>7, <1>8, <1>9 DEF Next, Client, Step

(* smal_reference_create_weak takes a queue's mutex and then a             *)
(* reference's, referred_sweeped a reference's and then its queues'        *)
(* (reference.c:124, 185): they do not wait for each other if no creation  *)
(* begins while before_sweep runs, whatever else the client calls then.    *)
THEOREM DeadlockFree ==
  ASSUME MayCall["create"] \subseteq Phases \ {"before_sweep"}
  PROVE  Spec => []NoDeadlock
<1>1. Init => BeforeSweepAlone
  BY DEF Init, BeforeSweepAlone, Collecting
<1>2. BeforeSweepAlone /\ [Next]_vars => BeforeSweepAlone'
  <2>. SUFFICES ASSUME BeforeSweepAlone, [Next]_vars PROVE BeforeSweepAlone'
    OBVIOUS
  <2>. USE DEF BeforeSweepAlone, Collecting
  <2>1. Phase # "before_sweep" => \A u \in Threads : pc[u] \notin {"marked", "clear", "requeue"}
    BY DEF Phase
  <2>2. Phase = "idle" => \A u \in Threads : pc[u] \notin Collecting
    BY DEF Phase
  <2>. QED BY <2>1, <2>2, Moves
<1>3. BeforeSweepAlone => NoDeadlock
  <2>. SUFFICES ASSUME BeforeSweepAlone, NEW S \in SUBSET Threads, S # {},
                       \A t \in S : \E u \in S : WaitsFor(t, u)
                PROVE  FALSE
    BY DEF NoDeadlock
  <2>. USE DEF BeforeSweepAlone, Collecting
  <2>1. ASSUME NEW t \in Threads, NEW u \in Threads, WaitsFor(t, u)
        PROVE  \/ pc[t] = "lock_queue" /\ pc[u] = "link"
               \/ pc[t] = "stopping" /\ pc[u] \in {"lock_queue", "link"}
    BY <2>1 DEF WaitsFor
  <2>2. \A t \in S : pc[t] \in {"lock_queue", "stopping"}
    BY <2>1
  <2>3. \A t \in S : pc[t] = "stopping"
    BY <2>1, <2>2
  <2>. QED BY <2>1, <2>3
<1>. QED BY <1>1, <1>2, <1>3, PTL DEF Spec

=============================================================================
