------------------------- MODULE SmalFinalizerProofs -------------------------
(***************************************************************************)
(* For any number of threads, objects and finalizers: if only creations    *)
(* and copies overlap other calls, no finalizer is lost, and the collector *)
(* keeps what the finalizers will be given.                                *)
(***************************************************************************)
EXTENDS SmalFinalizer, SequenceTheorems, FunctionTheorems, FiniteSetTheorems, TLAPS

-----------------------------------------------------------------------------
(* The inductive invariant, part by part.                                  *)

(* The clients served: only creations and copies begin while another call  *)
(* is under way.  The run finalizer_sweeps shows what two sweeps at a time *)
(* lose.                                                                   *)
CarefulClient == MayOverlap \subseteq {"create", "copy_all"}

(* A thread at label is in a call that may not overlap.                    *)
Busy(label) == label \in {"take", "sweep", "pop", "func"}

OneCall == \A t, u \in Threads : Busy(pc[t]) /\ Busy(pc[u]) => t = u

(* What a call has in its locals l when it is at label.                    *)
Arg(l) == IF l.src = Nil THEN l.ptr ELSE l.to

Fits(label, l) ==
  /\ label = "idle" => l = NoLocals
  /\ {l.ptr, l.to} \ {Nil} \subseteq held
  /\ l.src # Nil => l.to # Nil
  /\ label \in {"create", "link"} => Arg(l) # Nil /\ (l.src # Nil => l.todo > 0)
  /\ label = "link" => l.fz # Nil /\ referred_table[Arg(l)] = l.fz
  /\ label \in {"take", "copy_lock"} => l.fz # Nil
  /\ label = "copy_lock" => l.to # Nil
  /\ label = "copy" => l.src # Nil
  /\ label \in {"pop", "func"} => l.fz = finalized_queue /\ finalized_queue # Nil
  /\ label = "func" => l.z # Nil
  /\ l.z # Nil => finalizer[l.z].fate = "called"

CallsOK == \A t \in Threads : Fits(pc[t], loc[t])

(* A finalized of the table is that of its object and not in the queue;    *)
(* memory not yet used is in neither.                                      *)
TableOK ==
  /\ \A p \in Referred : referred_table[p] # Nil => referred[referred_table[p]] = p
  /\ \A f \in Queued : referred[f] # Nil /\ f \notin InTable

(* A list repeats nothing, shares nothing with another, and holds          *)
(* finalizers of its object that have not been run.                        *)
Once(s) == \A i, j \in DOMAIN s : s[i] = s[j] => i = j

ListsOK ==
  /\ \A f \in Finalized : Once(finalizers[f])
  /\ \A f \in Finalized : \A z \in ToSet(finalizers[f]) :
       /\ Pending(z) /\ finalizer[z].referred = referred[f]
       /\ \A g \in Finalized : z \in ToSet(finalizers[g]) => g = f
  /\ \A z \in Finalizers : finalizer[z].fate # "unused" => finalizer[z].referred # Nil

(* What the collector keeps, with the table and the queue.                 *)
KeptOK == KeptForFinalizer /\ InTable \cup Queued \subseteq alive

IInv == TypeOK /\ OneCall /\ CallsOK /\ TableOK /\ ListsOK /\ NoneLost /\ KeptOK

-----------------------------------------------------------------------------
(* What links lead to.                                                     *)

(* It holds what one starts from and is closed under the links. *)
LEMMA FollowedIsClosed ==
  ASSUME NEW U, NEW S, NEW link, Nil \notin U,
         \A y \in U : link[y] \in U \cup {Nil}
  PROVE  /\ Followed(U, S, link) \subseteq U
         /\ U \cap S \subseteq Followed(U, S, link)
         /\ \A y \in Followed(U, S, link) : link[y] \in Followed(U, S, link) \cup {Nil}
<1> DEFINE F == Followed(U, S, link)
<1>1. F \subseteq U /\ U \cap S \subseteq F
  BY DEF Followed
<1>2. ASSUME NEW y \in F, link[y] # Nil PROVE link[y] \in F
  <2>1. link[y] \in U
    BY <1>1, <1>2
  <2>2. ASSUME NEW X \in SUBSET U, U \cap S \subseteq X,
               \A x \in X : link[x] \in X \cup {Nil}
        PROVE  link[y] \in X
    <3>1. y \in X
      BY <2>2 DEF Followed
    <3>. QED BY <1>2, <2>2, <3>1
  <2>. QED BY <2>1, <2>2, Zenon DEF Followed
<1>. QED BY <1>1, <1>2

(* It is in each set that does. *)
LEMMA FollowedIsLeast ==
  ASSUME NEW U, NEW S, NEW link, NEW X \in SUBSET U, U \cap S \subseteq X,
         \A y \in X : link[y] \in X \cup {Nil}
  PROVE  Followed(U, S, link) \subseteq X
BY DEF Followed

(* The objects of the client that S leads to. *)
LEMMA PointedIsClosed ==
  ASSUME NEW S
  PROVE  /\ Pointed(S) \subseteq Referred /\ S \cap Referred \subseteq Pointed(S)
         /\ \A p \in Pointed(S) : Points[p] \in Pointed(S) \cup {Nil}
<1>1. Nil \notin Referred /\ \A p \in Referred : Points[p] \in Referred \cup {Nil}
  BY FinalizerAssumption
<1>. QED BY <1>1, FollowedIsClosed, Zenon DEF Pointed

(* What leads nowhere else adds nothing. *)
LEMMA PointedFrom ==
  ASSUME NEW S, NEW T, NEW V, S \cap Referred \subseteq Pointed(T) \cup Pointed(V)
  PROVE  Pointed(S) \subseteq Pointed(T) \cup Pointed(V)
<1> DEFINE X == Pointed(T) \cup Pointed(V)
<1>1. X \subseteq Referred /\ \A p \in X : Points[p] \in X \cup {Nil}
  BY PointedIsClosed
<1> HIDE DEF X
<1>2. Followed(Referred, S, Points) \subseteq X
  <2>1. X \in SUBSET Referred /\ Referred \cap S \subseteq X
    BY <1>1 DEF X
  <2>. QED BY <1>1, <2>1, FollowedIsLeast, Zenon
<1>. QED BY <1>2 DEF X, Pointed

(* More leads to more. *)
LEMMA PointedMonotone ==
  ASSUME NEW S, NEW T, S \cap Referred \subseteq Pointed(T)
  PROVE  Pointed(S) \subseteq Pointed(T)
BY PointedFrom

(* The queue, and what it becomes when only its head changes. *)
LEMMA QueuedIsClosed ==
  ASSUME TypeOK
  PROVE  /\ Queued \subseteq Finalized
         /\ finalized_queue # Nil => finalized_queue \in Queued
         /\ \A f \in Queued : next[f] \in Queued \cup {Nil}
<1>1. Nil \notin Finalized /\ \A f \in Finalized : next[f] \in Finalized \cup {Nil}
  BY FinalizerAssumption DEF TypeOK
<1>2. finalized_queue # Nil => finalized_queue \in Finalized \cap {finalized_queue}
  BY DEF TypeOK
<1>. QED BY <1>1, <1>2, FollowedIsClosed, Zenon DEF Queued

-----------------------------------------------------------------------------
(* Sequences.                                                              *)

(* The empty sequence. *)
LEMMA EmptyHolds == ToSet(<< >>) = {} /\ Once(<< >>)
<1>1. DOMAIN << >> = {}
  OBVIOUS
<1>. QED BY <1>1 DEF ToSet, Once

(* An element that is put in front. *)
LEMMA InFront ==
  ASSUME NEW T, NEW s \in Seq(T), NEW x \in T
  PROVE  /\ <<x>> \o s \in Seq(T)
         /\ ToSet(<<x>> \o s) = ToSet(s) \cup {x}
         /\ Once(s) /\ x \notin ToSet(s) => Once(<<x>> \o s)
<1> DEFINE w == <<x>> \o s
<1>1. <<x>> \in Seq(T) /\ Len(<<x>>) = 1 /\ <<x>>[1] = x
  OBVIOUS
<1>2. Len(s) \in Nat /\ DOMAIN s = 1..Len(s)
  BY LenProperties
<1>3. /\ w \in Seq(T) /\ DOMAIN w = 1..(Len(s) + 1)
      /\ w[1] = x /\ \A i \in 1..Len(s) : w[i + 1] = s[i]
  BY <1>1, <1>2, ConcatProperties, LenProperties
<1> HIDE DEF w
<1>4. \A i \in DOMAIN w : i = 1 \/ (i - 1 \in DOMAIN s /\ w[i] = s[i - 1])
  BY <1>2, <1>3
<1>5. ToSet(w) = ToSet(s) \cup {x}
  <2>1. ToSet(w) \subseteq ToSet(s) \cup {x}
    BY <1>3, <1>4 DEF ToSet
  <2>2. ASSUME NEW i \in DOMAIN s PROVE s[i] \in ToSet(w)
    BY <1>2, <1>3 DEF ToSet
  <2>3. x \in ToSet(w)
    BY <1>2, <1>3 DEF ToSet
  <2>. QED BY <2>1, <2>2, <2>3 DEF ToSet
<1>6. ASSUME Once(s), x \notin ToSet(s), NEW i \in DOMAIN w, NEW j \in DOMAIN w, w[i] = w[j]
      PROVE  i = j
  <2>1. i \in Int /\ j \in Int
    BY <1>2, <1>3
  <2>2. ASSUME NEW k \in DOMAIN w, k # 1, w[k] = x PROVE FALSE
    BY <1>4, <1>6, <2>2 DEF ToSet
  <2>3. CASE i = 1 \/ j = 1
    BY <1>3, <1>6, <2>2, <2>3
  <2>4. CASE i # 1 /\ j # 1
    <3>1. i - 1 \in DOMAIN s /\ j - 1 \in DOMAIN s /\ s[i - 1] = s[j - 1]
      BY <1>4, <1>6, <2>4
    <3>2. i - 1 = j - 1
      BY <1>6, <3>1, Zenon DEF Once
    <3>. QED BY <2>1, <3>2
  <2>. QED BY <2>3, <2>4
<1>7. Once(s) /\ x \notin ToSet(s) => Once(w)
  BY <1>6, Zenon DEF Once
<1>. QED BY <1>3, <1>5, <1>7 DEF w

(* The first element is taken off. *)
LEMMA TakenOff ==
  ASSUME NEW T, NEW s \in Seq(T), s # << >>
  PROVE  /\ Head(s) \in T /\ Tail(s) \in Seq(T)
         /\ ToSet(s) = ToSet(Tail(s)) \cup {Head(s)}
         /\ Once(s) => Once(Tail(s)) /\ Head(s) \notin ToSet(Tail(s))
<1> DEFINE h == Head(s)
           w == Tail(s)
<1>1. h \in T /\ w \in Seq(T)
  BY HeadTailProperties
<1>2. s = <<h>> \o w
  OBVIOUS
<1>3. ToSet(s) = ToSet(w) \cup {h}
  <2> HIDE DEF h, w
  <2>1. ToSet(<<h>> \o w) = ToSet(w) \cup {h}
    BY <1>1, InFront
  <2>. QED BY <1>2, <2>1, Zenon
<1>4. /\ Len(s) \in Nat /\ DOMAIN s = 1..Len(s) /\ Len(s) > 0 /\ h = s[1]
      /\ DOMAIN w = 1..(Len(s) - 1) /\ \A i \in 1..(Len(s) - 1) : w[i] = s[i + 1]
  BY LenProperties, HeadTailProperties, EmptySeq
<1> HIDE DEF h, w
<1>5. ASSUME Once(s) PROVE Once(w) /\ h \notin ToSet(w)
  <2>1. ASSUME NEW i \in DOMAIN w, NEW j \in DOMAIN w, w[i] = w[j] PROVE i = j
    <3>1. i + 1 \in DOMAIN s /\ j + 1 \in DOMAIN s /\ s[i + 1] = s[j + 1]
      BY <1>4, <2>1
    <3>2. i + 1 = j + 1
      BY <1>5, <3>1, Zenon DEF Once
    <3>. QED BY <1>4, <3>2
  <2>2. ASSUME NEW i \in DOMAIN w, w[i] = h PROVE FALSE
    <3>1. i + 1 \in DOMAIN s /\ 1 \in DOMAIN s /\ s[i + 1] = s[1]
      BY <1>4, <2>2
    <3>2. i + 1 = 1
      BY <1>5, <3>1, Zenon DEF Once
    <3>. QED BY <1>4, <3>2
  <2>. QED BY <2>1, <2>2, Zenon DEF Once, ToSet
<1>. QED BY <1>1, <1>3, <1>5 DEF h, w

(* A list that repeats nothing is no longer than there are elements. *)
LEMMA OnceIsShort ==
  ASSUME NEW T, IsFiniteSet(T), NEW s \in Seq(T), Once(s)
  PROVE  Len(s) \in 0 .. Cardinality(T)
<1>1. Len(s) \in Nat /\ DOMAIN s = 1..Len(s) /\ s \in [1..Len(s) -> T]
  BY LenProperties
<1>2. s \in Injection(1..Len(s), T)
  BY <1>1, Fun_IsInj DEF Once
<1>3. Cardinality(1..Len(s)) <= Cardinality(T)
  BY <1>2, FS_Injection
<1>4. Cardinality(1..Len(s)) = Len(s)
  <2>1. 1 \in Int /\ Len(s) \in Int
    BY <1>1
  <2>2. Cardinality(1..Len(s)) = IF 1 > Len(s) THEN 0 ELSE Len(s) - 1 + 1
    BY <2>1, FS_Interval, Zenon
  <2>. QED BY <1>1, <2>2
<1>5. Cardinality(T) \in Nat
  BY FS_CardinalityType
<1>. QED BY <1>1, <1>3, <1>4, <1>5

-----------------------------------------------------------------------------
(* What a collection queues, in whatever order.                            *)

(* A set of numbers up to n has a greatest one. *)
LEMMA GreatestOf ==
  ASSUME NEW n \in Nat, NEW B \in SUBSET (1..n), B # {}
  PROVE  \E m \in B : \A j \in B : j <= m
<1> DEFINE D == 1..n
           Above(i) == {j \in B : j > i}
           A == {Above(i) : i \in B}
           R == StrictSubsetOrdering(D)
<1>1. IsFiniteSet(D)
  BY FS_Interval
<1>2. FiniteSubsetsOf(D) = SUBSET D
  BY <1>1, FS_FiniteSubsetsOfFinite, Zenon
<1>3. IsWellFoundedOn(R, SUBSET D)
  BY <1>2, FS_StrictSubsetOrderingWellFounded, Zenon
<1>4. A \subseteq SUBSET D /\ A # {}
  OBVIOUS
<1>5. PICK x \in A : \A y \in A : <<y, x>> \notin R
  <2> HIDE DEF A, R, D
  <2>. QED BY <1>3, <1>4, WFMin, Zenon
<1>6. PICK i \in B : x = Above(i)
  BY <1>5
<1>7. ASSUME NEW k \in B, k > i PROVE FALSE
  <2>1. Above(k) \subseteq Above(i) /\ k \in Above(i) /\ k \notin Above(k)
    <3>1. \A j \in B : j \in Int
      OBVIOUS
    <3>2. \A j \in B : j > k => j > i
      BY <1>7, <3>1
    <3>3. k \notin Above(k)
      BY <3>1
    <3>. QED BY <1>7, <3>2, <3>3
  <2>2. Above(k) \in A /\ Above(k) \in SUBSET D /\ Above(i) \in SUBSET D
    OBVIOUS
  <2>3. <<Above(k), Above(i)>> \in R
    <3> HIDE DEF Above, D
    <3>1. Above(k) # Above(i)
      BY <2>1
    <3>. QED BY <2>1, <2>2, <3>1 DEF StrictSubsetOrdering
  <2>. QED BY <1>5, <1>6, <2>2, <2>3
<1>8. \A j \in B : j <= i
  BY <1>7
<1>. QED BY <1>8

(* An order of a finite set lists all of it, each once. *)
LEMMA OrderCovers ==
  ASSUME NEW S, IsFiniteSet(S), NEW order \in SetToSeqs(S)
  PROVE  /\ Len(order) \in Nat /\ DOMAIN order = 1..Len(order)
         /\ \A i \in 1..Len(order) : order[i] \in S
         /\ Once(order) /\ ToSet(order) = S
<1> DEFINE n == Cardinality(S)
<1>1. n \in Nat
  BY FS_CardinalityType
<1>2. order \in [1..n -> S] /\ \A i, j \in 1..n : i # j => order[i] # order[j]
  BY DEF SetToSeqs
<1>3. Len(order) = n /\ DOMAIN order = 1..n
  BY <1>1, <1>2
<1>4. order \in Injection(1..n, S)
  BY <1>2, Fun_IsInj
<1>5. Cardinality(1..n) = n
  BY <1>1, FS_Interval
<1>6. order \in Surjection(1..n, S)
  BY <1>4, <1>5, FS_Injection
<1> HIDE DEF n
<1>7. \A x \in S : \E i \in 1..n : order[i] = x
  BY <1>6, Zenon DEF Surjection
<1>8. ToSet(order) = S
  BY <1>2, <1>3, <1>7 DEF ToSet
<1>9. Once(order)
  BY <1>2, <1>3 DEF Once
<1>. QED BY <1>1, <1>2, <1>3, <1>8, <1>9

(* The links of what is queued: each to the one queued before it. *)
LEMMA NextWithIs ==
  ASSUME TypeOK, NEW S \in SUBSET Finalized, NEW order \in SetToSeqs(S)
  PROVE  /\ NextWith(order) \in [Finalized -> Finalized \cup {Nil}]
         /\ \A f \in Finalized \ S : NextWith(order)[f] = next[f]
         /\ \A i \in 1..Len(order) :
              NextWith(order)[order[i]] = IF i = 1 THEN finalized_queue ELSE order[i - 1]
<1>1. IsFiniteSet(S)
  BY FinalizerAssumption, FS_Subset
<1>2. /\ Len(order) \in Nat /\ DOMAIN order = 1..Len(order)
      /\ \A i \in 1..Len(order) : order[i] \in S
      /\ Once(order) /\ ToSet(order) = S
  BY <1>1, OrderCovers
<1>3. ASSUME NEW f \in S
      PROVE  \E i \in 1..Len(order) :
               /\ f = order[i]
               /\ NextWith(order)[f] = IF i = 1 THEN finalized_queue ELSE order[i - 1]
  <2> DEFINE i == CHOOSE i \in 1 .. Len(order) : order[i] = f
  <2>1. i \in 1..Len(order) /\ order[i] = f
    BY <1>2, <1>3 DEF ToSet
  <2>2. f \in Finalized /\ f \in ToSet(order)
    BY <1>2
  <2>3. NextWith(order)[f] = IF i = 1 THEN finalized_queue ELSE order[i - 1]
    BY <2>2 DEF NextWith
  <2> HIDE DEF i
  <2>. QED BY <2>1, <2>3
<1>4. \A f \in Finalized \ S : NextWith(order)[f] = next[f]
  BY <1>2 DEF NextWith
<1>5. ASSUME NEW i \in 1..Len(order)
      PROVE  NextWith(order)[order[i]] = IF i = 1 THEN finalized_queue ELSE order[i - 1]
  <2>1. order[i] \in S
    BY <1>2
  <2>2. PICK j \in 1..Len(order) :
          /\ order[i] = order[j]
          /\ NextWith(order)[order[i]] = IF j = 1 THEN finalized_queue ELSE order[j - 1]
    BY <1>3, <2>1
  <2>3. i = j
    BY <1>2, <2>2, Zenon DEF Once
  <2>. QED BY <2>2, <2>3
<1>6. ASSUME NEW f \in Finalized PROVE NextWith(order)[f] \in Finalized \cup {Nil}
  <2>1. CASE f \in S
    <3>1. PICK i \in 1..Len(order) :
            NextWith(order)[f] = IF i = 1 THEN finalized_queue ELSE order[i - 1]
      BY <1>3, <2>1
    <3>2. i # 1 => i - 1 \in 1..Len(order)
      BY <1>2
    <3>. QED BY <1>2, <3>1, <3>2 DEF TypeOK
  <2>2. CASE f \notin S
    BY <1>4, <2>2 DEF TypeOK
  <2>. QED BY <2>1, <2>2
<1>7. NextWith(order) = [f \in Finalized |-> NextWith(order)[f]]
  BY DEF NextWith
<1>8. NextWith(order) \in [Finalized -> Finalized \cup {Nil}]
  BY <1>6, <1>7
<1>. QED BY <1>4, <1>5, <1>8

(* The queue afterwards: what was queued, and what was in it before. *)
LEMMA QueuedAfter ==
  ASSUME TypeOK, NEW S \in SUBSET Finalized, NEW order \in SetToSeqs(S), S \cap Queued = {},
         NEW q, q = IF order = << >> THEN finalized_queue ELSE Last(order)
  PROVE  Followed(Finalized, {q}, NextWith(order)) = S \cup Queued
<1> DEFINE nx == NextWith(order)
           F == Followed(Finalized, {q}, nx)
<1>1. /\ Len(order) \in Nat /\ DOMAIN order = 1..Len(order)
      /\ \A i \in 1..Len(order) : order[i] \in S
      /\ ToSet(order) = S
  BY FinalizerAssumption, FS_Subset, OrderCovers
<1>2. /\ nx \in [Finalized -> Finalized \cup {Nil}]
      /\ \A f \in Finalized \ S : nx[f] = next[f]
      /\ \A i \in 1..Len(order) :
           nx[order[i]] = IF i = 1 THEN finalized_queue ELSE order[i - 1]
  BY NextWithIs
<1>3. /\ Queued \subseteq Finalized
      /\ finalized_queue # Nil => finalized_queue \in Queued
      /\ \A f \in Queued : next[f] \in Queued \cup {Nil}
  BY QueuedIsClosed
<1>4. Nil \notin Finalized
  BY FinalizerAssumption
<1> HIDE DEF nx
<1>5. /\ F \subseteq Finalized /\ Finalized \cap {q} \subseteq F
      /\ \A f \in F : nx[f] \in F \cup {Nil}
  BY <1>2, <1>4, FollowedIsClosed
<1>6. \A f \in S : \E i \in 1..Len(order) : order[i] = f
  BY <1>1 DEF ToSet
<1>7. /\ order = << >> => Len(order) = 0 /\ q = finalized_queue
      /\ order # << >> => Len(order) > 0 /\ q = order[Len(order)]
  <2>1. order = << >> => Len(order) = 0
    OBVIOUS
  <2>2. order \in Seq(S)
    BY <1>1, FinalizerAssumption, FS_Subset, FS_CardinalityType DEF SetToSeqs
  <2>3. order # << >> => Len(order) \in Nat \ {0}
    BY <2>2, EmptySeq
  <2>. QED BY <2>1, <2>3 DEF Last
<1>8. F \subseteq S \cup Queued
  <2> DEFINE X == S \cup Queued
  <2>1. q \in X \cup {Nil}
    BY <1>1, <1>3, <1>7
  <2>2. ASSUME NEW f \in X PROVE nx[f] \in X \cup {Nil}
    <3>1. CASE f \in S
      <4>1. PICK i \in 1..Len(order) : order[i] = f
        BY <1>6, <3>1
      <4>2. i # 1 => i - 1 \in 1..Len(order)
        BY <1>1
      <4>. QED BY <1>1, <1>2, <1>3, <4>1, <4>2
    <3>2. CASE f \notin S
      BY <1>2, <1>3, <2>2, <3>2
    <3>. QED BY <3>1, <3>2
  <2>3. X \in SUBSET Finalized /\ Finalized \cap {q} \subseteq X
    BY <1>3, <1>4, <2>1
  <2> HIDE DEF X
  <2>4. F \subseteq X
    BY <2>2, <2>3, FollowedIsLeast, Zenon
  <2>. QED BY <2>4 DEF X
<1> HIDE DEF F
<1>9. S \subseteq F
  <2> DEFINE B == {i \in 1..Len(order) : order[i] \notin F}
  <2>1. ASSUME B # {} PROVE FALSE
    <3>1. PICK m \in B : \A j \in B : j <= m
      BY <1>1, <2>1, GreatestOf
    <3>2. CASE m = Len(order)
      <4>1. q = order[m] /\ q \in Finalized
        BY <1>1, <1>7, <3>1, <3>2
      <4>. QED BY <1>5, <3>1, <4>1
    <3>3. CASE m # Len(order)
      <4>1. m \in 1..Len(order) /\ m + 1 \in 1..Len(order) /\ m + 1 \notin B /\ m + 1 # 1
        <5>1. m \in 1..Len(order) /\ m \in Int /\ Len(order) \in Int
          BY <1>1, <3>1
        <5>2. m + 1 \in 1..Len(order) /\ ~ (m + 1 <= m) /\ m + 1 # 1
          BY <3>3, <5>1
        <5>. QED BY <3>1, <5>1, <5>2
      <4>2. order[m + 1] \in F /\ nx[order[m + 1]] = order[m]
        BY <1>1, <1>2, <4>1
      <4>3. order[m] \in F \cup {Nil} /\ order[m] \in Finalized
        BY <1>1, <1>5, <4>1, <4>2
      <4>. QED BY <1>4, <3>1, <4>3
    <3>. QED BY <3>2, <3>3
  <2>2. B = {}
    BY <2>1
  <2>. QED BY <1>6, <2>2
<1>10. Queued \subseteq F
  <2> DEFINE X == F \cap Queued
  <2>1. finalized_queue \in F \cup {Nil}
    <3>1. CASE order = << >>
      BY <1>3, <1>5, <1>7, <3>1
    <3>2. CASE order # << >>
      <4>1. 1 \in 1..Len(order)
        BY <1>1, <1>7, <3>2
      <4>2. order[1] \in F /\ nx[order[1]] = finalized_queue
        BY <1>1, <1>2, <1>9, <4>1
      <4>. QED BY <1>5, <4>2
    <3>. QED BY <3>1, <3>2
  <2>2. ASSUME NEW f \in X PROVE next[f] \in X \cup {Nil}
    BY <1>2, <1>3, <1>5, <2>2
  <2>3. X \in SUBSET Finalized /\ Finalized \cap {finalized_queue} \subseteq X
    BY <1>3, <1>4, <2>1
  <2> HIDE DEF X
  <2>4. Queued \subseteq X
    BY <2>2, <2>3, FollowedIsLeast, Zenon DEF Queued
  <2>. QED BY <2>4 DEF X
<1>. QED BY <1>8, <1>9, <1>10 DEF F, nx

-----------------------------------------------------------------------------
(* Steps that go on with a call.                                           *)

Labels == {"idle", "create", "link", "take", "copy_lock", "copy", "sweep", "pop", "func"}

(* What a thread that goes on leaves alone. *)
LEMMA GotoIs ==
  ASSUME TypeOK, NEW t \in Threads, NEW label \in Labels, NEW l \in Locals, Goto(t, label, l)
  PROVE  /\ pc' \in [Threads -> Labels] /\ loc' \in [Threads -> Locals]
         /\ pc'[t] = label /\ loc'[t] = l
         /\ \A u \in Threads \ {t} : pc'[u] = pc[u] /\ loc'[u] = loc[u]
BY DEF TypeOK, Goto, Labels

(* A call that may not overlap begins only when no other is under way. *)
LEMMA OneCallStep ==
  ASSUME TypeOK, OneCall, CallsOK, NEW t \in Threads, NEW label \in Labels, NEW l \in Locals,
         Goto(t, label, l),
         Busy(label) => Busy(pc[t]) \/ \A u \in Threads : pc[u] = "idle"
  PROVE  OneCall'
<1>1. /\ pc'[t] = label /\ loc'[t] = l
      /\ \A u \in Threads \ {t} : pc'[u] = pc[u] /\ loc'[u] = loc[u]
  BY GotoIs
<1>2. \A u \in Threads : pc[u] = "idle" => ~ Busy(pc[u])
  BY DEF Busy
<1>3. Busy(pc[t])' <=> Busy(label)
  BY <1>1 DEF Busy
<1>4. \A u \in Threads \ {t} : Busy(pc[u])' <=> Busy(pc[u])
  BY <1>1 DEF Busy
<1>5. ASSUME NEW u \in Threads \ {t}, Busy(pc[t])' PROVE ~ Busy(pc[u])'
  BY <1>2, <1>3, <1>4, <1>5, Zenon DEF OneCall
<1>6. ASSUME NEW u \in Threads, NEW w \in Threads, Busy(pc[u])', Busy(pc[w])'
      PROVE  u = w
  <2>1. CASE u = t \/ w = t
    BY <1>5, <1>6, <2>1
  <2>2. CASE u # t /\ w # t
    BY <1>4, <1>6, <2>2 DEF OneCall
  <2>. QED BY <2>1, <2>2
<1>. QED BY <1>6, Zenon DEF OneCall

(* The others' calls stand when what they rely on does. *)
LEMMA CallsStep ==
  ASSUME TypeOK, CallsOK, NEW t \in Threads, NEW label \in Labels, NEW l \in Locals,
         Goto(t, label, l), Fits(label, l)',
         \A u \in Threads \ {t} :
           /\ {loc[u].ptr, loc[u].to} \ {Nil} \subseteq held'
           /\ pc[u] = "link" => referred_table'[Arg(loc[u])] = referred_table[Arg(loc[u])]
           /\ pc[u] \in {"pop", "func"} => finalized_queue' = finalized_queue
           /\ loc[u].z # Nil => finalizer'[loc[u].z].fate = "called"
  PROVE  CallsOK'
<1>1. /\ pc'[t] = label /\ loc'[t] = l
      /\ \A u \in Threads \ {t} : pc'[u] = pc[u] /\ loc'[u] = loc[u]
  BY GotoIs
<1>2. Fits(pc[t], loc[t])'
  BY <1>1 DEF Fits, Arg
<1>3. ASSUME NEW u \in Threads \ {t} PROVE Fits(pc[u], loc[u])'
  <2>1. Fits(pc[u], loc[u])
    BY DEF CallsOK
  <2>. QED BY <1>1, <2>1 DEF Fits, Arg
<1>. QED BY <1>2, <1>3, Zenon DEF CallsOK

(* Where NoneLost looks: the table, the queue, and what calls have taken. *)
Taken == {loc[t].fz : t \in {u \in Threads : pc[u] \in {"take", "pop", "func"}}}
Looked == InTable \cup Queued \cup Taken

(* What is looked at is in use. *)
LEMMA LookedIs ==
  ASSUME TypeOK, CallsOK
  PROVE  /\ Looked \subseteq Finalized
         /\ NoneLost <=> \A z \in Finalizers : Pending(z) => \E f \in Looked : z \in ToSet(finalizers[f])
<1>1. InTable \subseteq Finalized
  BY DEF InTable, TypeOK
<1>2. Queued \subseteq Finalized
  BY QueuedIsClosed
<1>3. Taken \subseteq Finalized
  BY DEF Taken, CallsOK, Fits, TypeOK, Locals
<1>. QED BY <1>1, <1>2, <1>3 DEF Looked, Taken, NoneLost

(* A step that changes nothing but where its thread is. *)
LEMMA ControlStep ==
  ASSUME IInv, NEW t \in Threads, NEW label \in Labels, NEW l \in Locals, Goto(t, label, l),
         UNCHANGED <<heap, lists>>, Fits(label, l),
         Busy(label) => Busy(pc[t]) \/ \A u \in Threads : pc[u] = "idle",
         pc[t] # "take", {l.fz, l.src} \ {Nil} \subseteq alive, l.z # Nil => l.z = loc[t].z
  PROVE  IInv'
<1>1. /\ pc' \in [Threads -> Labels] /\ loc' \in [Threads -> Locals]
      /\ pc'[t] = label /\ loc'[t] = l
      /\ \A u \in Threads \ {t} : pc'[u] = pc[u] /\ loc'[u] = loc[u]
  BY GotoIs DEF IInv
<1>2. /\ UNCHANGED <<held, alive>>
      /\ UNCHANGED <<referred_table, referred, finalizers, next, finalized_queue, finalizer>>
  BY DEF heap, lists
<1>3. UNCHANGED <<InTable, Queued>>
  BY <1>2 DEF InTable, Queued, Followed
<1>4. TypeOK'
  BY <1>1, <1>2 DEF IInv, TypeOK, Labels
<1>5. OneCall'
  BY OneCallStep DEF IInv
<1>6. CallsOK'
  <2>1. Fits(label, l)'
    BY <1>2 DEF Fits
  <2>. QED BY <1>2, <2>1, CallsStep DEF IInv, CallsOK, Fits
<1>7. TableOK'
  BY <1>2, <1>3 DEF IInv, TableOK
<1>8. ListsOK'
  BY <1>2 DEF IInv, ListsOK, Pending
<1>9. NoneLost'
  <2>1. Looked \subseteq Looked'
    <3>1. ASSUME NEW u \in Threads, pc[u] \in {"take", "pop", "func"}
          PROVE  loc[u].fz \in Queued \cup Taken'
      <4>1. CASE pc[u] = "take"
        BY <1>1, <4>1 DEF Taken
      <4>2. CASE pc[u] \in {"pop", "func"}
        BY <4>2, QueuedIsClosed DEF IInv, CallsOK, Fits
      <4>. QED BY <3>1, <4>1, <4>2
    <3>. QED BY <1>3, <3>1 DEF Looked, Taken
  <2>2. \A z \in Finalizers : Pending(z) => \E f \in Looked : z \in ToSet(finalizers[f])
    BY LookedIs DEF IInv
  <2>3. \A z \in Finalizers : Pending(z)' => \E f \in Looked' : z \in ToSet(finalizers'[f])
    BY <1>2, <2>1, <2>2 DEF Pending
  <2>. QED BY <2>3 DEF NoneLost, Looked, Taken
<1>10. KeptOK'
  <2>1. ASSUME NEW u \in Threads
        PROVE  /\ {loc'[u].fz, loc'[u].src, loc'[u].z} \ {Nil} \subseteq alive
               /\ loc'[u].z # Nil => Pointed({finalizer[loc'[u].z].referred}) \subseteq alive
    <3>1. u # t \/ l.z # Nil => /\ {loc[u].fz, loc[u].src, loc[u].z} \ {Nil} \subseteq alive
                                /\ loc[u].z # Nil => Pointed({finalizer[loc[u].z].referred}) \subseteq alive
      BY DEF IInv, KeptOK, KeptForFinalizer
    <3>. QED BY <1>1, <3>1
  <2>2. \A z \in Finalizers : Pending(z) => {z} \cup Pointed({finalizer[z].referred}) \subseteq alive
    BY DEF IInv, KeptOK, KeptForFinalizer
  <2>3. HeldReach \subseteq alive
    BY DEF IInv, KeptOK, KeptForFinalizer
  <2>4. KeptForFinalizer'
    BY <1>2, <2>1, <2>2, <2>3 DEF KeptForFinalizer, Pending, HeldReach, Pointed, Followed
  <2>. QED BY <1>2, <1>3, <2>4 DEF IInv, KeptOK
<1>. QED BY <1>4, <1>5, <1>6, <1>7, <1>8, <1>9, <1>10 DEF IInv

(* It leaves its call. *)
LEMMA ReturnStep ==
  ASSUME IInv, NEW t \in Threads, Return(t), UNCHANGED <<heap, lists>>, pc[t] # "take"
  PROVE  IInv'
<1>1. NoLocals \in Locals
  <2>1. 0 \in 0 .. Cardinality(Finalizers)
    BY FinalizerAssumption, FS_CardinalityType
  <2>. QED BY <2>1 DEF NoLocals, Locals
<1>2. Fits("idle", NoLocals) /\ ~ Busy("idle")
  BY DEF Fits, Busy, NoLocals
<1>3. {NoLocals.fz, NoLocals.src} \ {Nil} = {} /\ NoLocals.z = Nil
  BY DEF NoLocals
<1>. QED BY <1>1, <1>2, <1>3, ControlStep DEF Return, Labels

(* It is in no call, and its locals are of their types. *)
LEMMA NoLocalsOK ==
  /\ NoLocals \in Locals
  /\ NoLocals = [ptr |-> Nil, to |-> Nil, src |-> Nil, fz |-> Nil, z |-> Nil, todo |-> 0, n |-> 0]
<1>1. 0 \in 0 .. Cardinality(Finalizers)
  BY FinalizerAssumption, FS_CardinalityType
<1>. QED BY <1>1 DEF NoLocals, Locals

(* What a thread's locals are, by its place. *)
LEMMA LocalsOf ==
  ASSUME IInv, NEW t \in Threads
  PROVE  /\ loc[t] \in Locals /\ Fits(pc[t], loc[t])
         /\ {loc[t].fz, loc[t].src, loc[t].z} \ {Nil} \subseteq alive
         /\ held \subseteq Referred \ {Nil} /\ Nil \notin Finalized
BY FinalizerAssumption DEF IInv, TypeOK, CallsOK, KeptOK, KeptForFinalizer

(* smal_finalizer_create begins. *)
LEMMA CreateKeeps ==
  ASSUME IInv, NEW t \in Threads, NEW p \in Referred, Create(t, p)
  PROVE  IInv'
<1>1. PICK l : l = [NoLocals EXCEPT !.ptr = p]
  OBVIOUS
<1>2. l \in Locals /\ l.ptr = p /\ l.to = Nil /\ l.src = Nil /\ l.fz = Nil /\ l.z = Nil
  BY <1>1, NoLocalsOK DEF Locals
<1>3. /\ pc[t] = "idle" /\ p \in held /\ p # Nil
      /\ Goto(t, "create", l) /\ UNCHANGED <<heap, lists>>
  BY <1>1, LocalsOf DEF Create, MayBegin
<1>4. Fits("create", l) /\ ~ Busy("create")
  BY <1>2, <1>3 DEF Fits, Busy, Arg
<1>. QED BY <1>2, <1>3, <1>4, ControlStep DEF Labels

(* Another call begins when no thread is in one. *)
LEMMA BeginsAlone ==
  ASSUME CarefulClient, NEW t, NEW call, call \notin {"create", "copy_all"}, MayBegin(t, call)
  PROVE  pc[t] = "idle" /\ \A u \in Threads : pc[u] = "idle"
BY DEF CarefulClient, MayBegin

(* smal_finalizer_copy_all. *)
LEMMA CopyAllKeeps ==
  ASSUME IInv, NEW t \in Threads, NEW p \in Referred, NEW q \in Referred,
         CopyAll(t, p, q)
  PROVE  IInv'
<1>1. PICK l : l = [NoLocals EXCEPT !.ptr = p, !.to = q, !.fz = referred_table[p]]
  OBVIOUS
<1>2. referred_table[p] \in Finalized /\ referred_table[p] \in alive
  BY DEF CopyAll, IInv, TypeOK, KeptOK, InTable
<1>3. /\ l \in Locals /\ l.ptr = p /\ l.to = q /\ l.src = Nil /\ l.fz = referred_table[p]
      /\ l.z = Nil
  BY <1>1, <1>2, NoLocalsOK DEF Locals
<1>4. /\ {p, q} \subseteq held /\ p # Nil /\ q # Nil
      /\ Goto(t, "copy_lock", l) /\ UNCHANGED <<heap, lists>>
  BY <1>1, LocalsOf DEF CopyAll
<1>5. pc[t] = "idle"
  BY DEF CopyAll, MayBegin
<1>6. Fits("copy_lock", l) /\ ~ Busy("copy_lock")
  BY <1>2, <1>3, <1>4, LocalsOf DEF Fits, Busy
<1>. QED BY <1>2, <1>3, <1>4, <1>5, <1>6, ControlStep DEF Labels

(* It takes the mutex of the finalized and begins to count. *)
LEMMA CopyLockKeeps ==
  ASSUME IInv, NEW t \in Threads, CopyLock(t)
  PROVE  IInv'
<1> DEFINE f == loc[t].fz
<1>1. PICK l : l = [loc[t] EXCEPT !.src = f, !.fz = Nil, !.todo = Len(finalizers[f])]
  OBVIOUS
<1>2. pc[t] = "copy_lock" /\ Goto(t, "copy", l) /\ UNCHANGED <<heap, lists>>
  BY <1>1 DEF CopyLock
<1>3. /\ loc[t] \in Locals /\ f \in Finalized /\ f \in alive /\ f # Nil
      /\ loc[t].to # Nil /\ {loc[t].ptr, loc[t].to} \ {Nil} \subseteq held
      /\ loc[t].z # Nil => finalizer[loc[t].z].fate = "called"
  BY <1>2, LocalsOf DEF Fits, Locals
<1>4. Len(finalizers[f]) \in 0 .. Cardinality(Finalizers)
  BY <1>3, OnceIsShort, FinalizerAssumption DEF IInv, ListsOK, TypeOK
<1>5. /\ l \in Locals /\ l.ptr = loc[t].ptr /\ l.to = loc[t].to /\ l.src = f /\ l.fz = Nil
      /\ l.z = loc[t].z
  BY <1>1, <1>3, <1>4 DEF Locals
<1>6. Fits("copy", l)
  BY <1>3, <1>5 DEF Fits
<1>7. ~ Busy("copy")
  BY DEF Busy
<1>. QED BY <1>2, <1>3, <1>5, <1>6, <1>7, ControlStep DEF Labels

(* It goes on to the next finalizer, or returns. *)
LEMMA CopyNextKeeps ==
  ASSUME IInv, NEW t \in Threads, CopyNext(t)
  PROVE  IInv'
<1>1. pc[t] = "copy" /\ UNCHANGED <<heap, lists>>
  BY DEF CopyNext
<1>2. CASE loc[t].todo = 0
  <2>1. Return(t)
    BY <1>2 DEF CopyNext
  <2>. QED BY <1>1, <2>1, ReturnStep
<1>3. CASE loc[t].todo # 0
  <2>1. PICK l : l = loc[t]
    OBVIOUS
  <2>2. Goto(t, "create", l)
    BY <1>3, <2>1 DEF CopyNext
  <2>3. /\ l \in Locals /\ l.todo > 0 /\ l.src # Nil /\ Fits("copy", l)
        /\ {l.fz, l.src} \ {Nil} \subseteq alive
    <3>1. l \in Locals /\ Fits("copy", l) /\ {l.fz, l.src} \ {Nil} \subseteq alive
      BY <1>1, <2>1, LocalsOf
    <3>2. Cardinality(Finalizers) \in Nat /\ l.todo \in 0 .. Cardinality(Finalizers)
      BY <3>1, FinalizerAssumption, FS_CardinalityType DEF Locals
    <3>. QED BY <1>3, <2>1, <3>1, <3>2 DEF Fits
  <2>4. Fits("create", l)
    BY <2>3 DEF Fits, Arg
  <2>5. ~ Busy("create")
    BY DEF Busy
  <2>. QED BY <1>1, <2>1, <2>2, <2>3, <2>4, <2>5, ControlStep DEF Labels
<1>. QED BY <1>2, <1>3

(* smal_finalizer_sweep_some, where it calls no function. *)
LEMMA SweepSomeKeeps ==
  ASSUME CarefulClient, IInv, NEW t \in Threads, NEW n \in {0, 1}, SweepSome(t, n)
  PROVE  IInv'
<1>1. PICK l : l = [NoLocals EXCEPT !.n = n]
  OBVIOUS
<1>2. l \in Locals /\ l.ptr = Nil /\ l.to = Nil /\ l.src = Nil /\ l.fz = Nil /\ l.z = Nil
  BY <1>1, NoLocalsOK DEF Locals
<1>3. Goto(t, "sweep", l) /\ UNCHANGED <<heap, lists>>
  BY <1>1 DEF SweepSome
<1>4. pc[t] = "idle" /\ \A u \in Threads : pc[u] = "idle"
  BY BeginsAlone DEF SweepSome
<1>5. Fits("sweep", l)
  BY <1>2 DEF Fits
<1>. QED BY <1>2, <1>3, <1>4, <1>5, ControlStep DEF Labels

(* It tests the head of the queue. *)
LEMMA SweepHeadKeeps ==
  ASSUME IInv, NEW t \in Threads, SweepHead(t)
  PROVE  IInv'
<1>1. pc[t] = "sweep" /\ UNCHANGED <<heap, lists>>
  BY DEF SweepHead
<1>2. CASE finalized_queue = Nil
  <2>1. Return(t)
    BY <1>2 DEF SweepHead, SweepLoop
  <2>. QED BY <1>1, <2>1, ReturnStep
<1>3. CASE finalized_queue # Nil
  <2>1. PICK l : l = [loc[t] EXCEPT !.fz = finalized_queue]
    OBVIOUS
  <2>2. Goto(t, "pop", l)
    BY <1>3, <2>1 DEF SweepHead, SweepLoop
  <2>3. finalized_queue \in Finalized /\ finalized_queue \in alive
    BY <1>3, QueuedIsClosed DEF IInv, KeptOK
  <2>4. loc[t] \in Locals /\ Fits("sweep", loc[t]) /\ {loc[t].src} \ {Nil} \subseteq alive
    BY <1>1, LocalsOf
  <2>5. /\ l \in Locals /\ l.ptr = loc[t].ptr /\ l.to = loc[t].to /\ l.src = loc[t].src
        /\ l.fz = finalized_queue /\ l.z = loc[t].z
    BY <2>1, <2>3, <2>4 DEF Locals
  <2>6. Fits("pop", l)
    BY <1>3, <2>4, <2>5 DEF Fits
  <2>7. Busy(pc[t])
    BY <1>1 DEF Busy
  <2>. QED BY <1>1, <2>2, <2>3, <2>4, <2>5, <2>6, <2>7, ControlStep DEF Labels
<1>. QED BY <1>2, <1>3

(* A finalizer's function returns. *)
LEMMA FuncReturnKeeps ==
  ASSUME IInv, NEW t \in Threads, FuncReturn(t)
  PROVE  IInv'
<1>1. pc[t] = "func" /\ UNCHANGED <<heap, lists>>
  BY DEF FuncReturn
<1>2. CASE loc[t].n = 1
  <2>1. Return(t)
    BY <1>2 DEF FuncReturn
  <2>. QED BY <1>1, <2>1, ReturnStep
<1>3. CASE loc[t].n # 1
  <2>1. PICK l : l = [loc[t] EXCEPT !.z = Nil]
    OBVIOUS
  <2>2. Goto(t, "pop", l)
    BY <1>3, <2>1 DEF FuncReturn
  <2>3. loc[t] \in Locals /\ Fits("func", loc[t]) /\ {loc[t].fz, loc[t].src} \ {Nil} \subseteq alive
    BY <1>1, LocalsOf
  <2>4. /\ l \in Locals /\ l.ptr = loc[t].ptr /\ l.to = loc[t].to /\ l.src = loc[t].src
        /\ l.fz = loc[t].fz /\ l.z = Nil
    BY <2>1, <2>3 DEF Locals
  <2>5. Fits("pop", l)
    BY <2>3, <2>4 DEF Fits
  <2>6. Busy(pc[t])
    BY <1>1 DEF Busy
  <2>. QED BY <1>1, <2>2, <2>3, <2>4, <2>5, <2>6, ControlStep DEF Labels
<1>. QED BY <1>2, <1>3

-----------------------------------------------------------------------------
(* The client's pointers.                                                  *)

(* What the client gave to calls under way. *)
LEMMA ArgumentsAre ==
  ASSUME NEW H
  PROVE  Arguments \ {Nil} \subseteq H <=>
           \A t \in Threads : {loc[t].ptr, loc[t].to} \ {Nil} \subseteq H
<1> DEFINE A(t) == {loc[t].ptr, loc[t].to}
<1>1. Arguments = UNION {A(t) : t \in Threads}
  BY Zenon DEF Arguments
<1> HIDE DEF A
<1>2. \A x : x \in Arguments <=> \E t \in Threads : x \in A(t)
  BY <1>1
<1>3. (\A t \in Threads : A(t) \ {Nil} \subseteq H) <=> Arguments \ {Nil} \subseteq H
  BY <1>2
<1>. QED BY <1>3 DEF A

(* It may hold what is kept, and what it gave to a call it goes on holding. *)
LEMMA HeldStep ==
  ASSUME IInv, UNCHANGED <<alive, lists, pc, loc>>, held' \subseteq Referred,
         Arguments \ {Nil} \subseteq held', Pointed(held') \subseteq alive
  PROVE  IInv'
<1>1. UNCHANGED <<referred_table, referred, finalizers, next, finalized_queue, finalizer>>
  BY DEF lists
<1>2. UNCHANGED <<InTable, Queued>>
  BY <1>1 DEF InTable, Queued, Followed
<1>3. TypeOK' /\ OneCall'
  BY <1>1 DEF IInv, TypeOK, OneCall, Busy
<1>4. CallsOK'
  <2>1. ASSUME NEW t \in Threads PROVE Fits(pc[t], loc[t])'
    <3>1. Fits(pc[t], loc[t]) /\ {loc[t].ptr, loc[t].to} \ {Nil} \subseteq held'
      BY ArgumentsAre DEF IInv, CallsOK
    <3>. QED BY <1>1, <3>1 DEF Fits, Arg
  <2>. QED BY <2>1, Zenon DEF CallsOK
<1>5. TableOK' /\ ListsOK' /\ NoneLost'
  BY <1>1, <1>2 DEF IInv, TableOK, ListsOK, NoneLost, Pending
<1>6. KeptOK'
  BY <1>1, <1>2 DEF IInv, KeptOK, KeptForFinalizer, Pending, HeldReach, Pointed, Followed
<1>. QED BY <1>3, <1>4, <1>5, <1>6 DEF IInv

(* The client drops a pointer, or loads one. *)
LEMMA ClientKeeps ==
  ASSUME IInv, NEW p \in Referred, Drop(p) \/ Load(p)
  PROVE  IInv'
<1>1. held \subseteq Referred /\ Pointed(held) \subseteq alive
  BY DEF IInv, TypeOK, KeptOK, KeptForFinalizer, HeldReach
<1>2. Arguments \ {Nil} \subseteq held
  BY ArgumentsAre DEF IInv, CallsOK, Fits
<1>3. CASE Drop(p)
  <2>1. held' \subseteq held /\ Arguments \ {Nil} \subseteq held' /\ UNCHANGED <<alive, lists, pc, loc>>
    BY <1>2, <1>3 DEF Drop
  <2>2. Pointed(held') \subseteq Pointed(held)
    BY <2>1, PointedIsClosed, PointedMonotone
  <2>. QED BY <1>1, <2>1, <2>2, HeldStep
<1>4. CASE Load(p)
  <2>1. /\ p \in held /\ Points[p] # Nil /\ held' = held \cup {Points[p]}
        /\ UNCHANGED <<alive, lists, pc, loc>>
    BY <1>4 DEF Load
  <2>2. Points[p] \in Pointed(held)
    BY <2>1, PointedIsClosed
  <2>3. held' \cap Referred \subseteq Pointed(held)
    BY <2>1, <2>2, PointedIsClosed
  <2>4. Pointed(held') \subseteq Pointed(held)
    BY <2>3, PointedMonotone
  <2>5. held' \subseteq Referred
    BY <1>1, <2>1, <2>2, PointedIsClosed
  <2>. QED BY <1>1, <1>2, <2>1, <2>4, <2>5, HeldStep
<1>. QED BY <1>3, <1>4

(* A finalizer's function stores the pointer it is given. *)
LEMMA ResurrectKeeps ==
  ASSUME IInv, NEW t \in Threads, Resurrect(t)
  PROVE  IInv'
<1> DEFINE p == finalizer[loc[t].z].referred
<1>1. pc[t] = "func" /\ held' = held \cup {p} /\ UNCHANGED <<alive, lists, pc, loc>>
  BY DEF Resurrect
<1>2. loc[t].z \in Finalizers /\ loc[t].z # Nil /\ finalizer[loc[t].z].fate = "called"
  BY <1>1, LocalsOf DEF Fits, Locals
<1>3. p \in Referred
  BY <1>2 DEF IInv, TypeOK, ListsOK
<1>4. /\ Pointed({p}) \subseteq alive /\ Pointed(held) \subseteq alive
      /\ held \subseteq Referred
  BY <1>1, <1>2 DEF IInv, TypeOK, KeptOK, KeptForFinalizer, HeldReach
<1>5. Arguments \ {Nil} \subseteq held
  BY ArgumentsAre DEF IInv, CallsOK, Fits
<1> HIDE DEF p
<1>6. Pointed(held') \subseteq Pointed(held) \cup Pointed({p})
  <2>1. held' \cap Referred \subseteq Pointed(held) \cup Pointed({p})
    BY <1>1, PointedIsClosed
  <2>. QED BY <2>1, PointedFrom
<1>. QED BY <1>1, <1>3, <1>4, <1>5, <1>6, HeldStep

-----------------------------------------------------------------------------
(* smal_finalizer_create, when it adds.                                    *)

(* The finalized of an object that had none. *)
LEMMA CreateAddKeeps ==
  ASSUME IInv, NEW t \in Threads, NEW p, p = CreateArg(t), NEW f \in FreshFinalized,
         pc[t] = "create", referred_table[p] = Nil,
         alive' = alive \cup {f},
         referred' = [referred EXCEPT ![f] = p],
         referred_table' = [referred_table EXCEPT ![p] = f],
         Goto(t, "link", [loc[t] EXCEPT !.fz = f]),
         UNCHANGED <<held, finalizers, next, finalized_queue, finalizer>>
  PROVE  IInv'
<1>1. PICK l : l = [loc[t] EXCEPT !.fz = f]
  OBVIOUS
<1>2. /\ loc[t] \in Locals /\ Fits("create", loc[t]) /\ p = Arg(loc[t]) /\ p \in Referred /\ p # Nil
      /\ Nil \notin Finalized
  <2>1. loc[t] \in Locals /\ Fits("create", loc[t]) /\ Nil \notin Finalized /\ p = Arg(loc[t])
    BY LocalsOf DEF CreateArg, Arg
  <2>. QED BY <2>1 DEF Fits, Arg, Locals
<1>3. f \in Finalized /\ referred[f] = Nil /\ finalizers[f] = << >> /\ f \notin Queued
  <2>1. f \in Finalized /\ referred[f] = Nil /\ f \notin Queued
    BY DEF FreshFinalized, IInv, TableOK
  <2>2. finalizers[f] \in Seq(Finalizers) /\ Nil \notin Finalizers
    BY <2>1, FinalizerAssumption DEF IInv, TypeOK
  <2>3. ASSUME finalizers[f] # << >> PROVE FALSE
    <3>1. Head(finalizers[f]) \in ToSet(finalizers[f]) /\ Head(finalizers[f]) \in Finalizers
      BY <2>2, <2>3, TakenOff
    <3>. QED BY <2>1, <3>1 DEF IInv, ListsOK, Pending
  <2>. QED BY <2>1, <2>3
<1>4. /\ l \in Locals /\ l.ptr = loc[t].ptr /\ l.to = loc[t].to /\ l.src = loc[t].src
      /\ l.fz = f /\ l.z = loc[t].z /\ l.todo = loc[t].todo /\ Arg(l) = p
  BY <1>1, <1>2, <1>3 DEF Locals, Arg
<1>5. Goto(t, "link", l)
  BY <1>1
<1>6. /\ pc' \in [Threads -> Labels] /\ loc' \in [Threads -> Locals]
      /\ pc'[t] = "link" /\ loc'[t] = l
      /\ \A u \in Threads \ {t} : pc'[u] = pc[u] /\ loc'[u] = loc[u]
  BY <1>4, <1>5, GotoIs DEF IInv, Labels
<1>7. /\ referred_table \in [Referred -> Finalized \cup {Nil}]
      /\ referred \in [Finalized -> Referred \cup {Nil}]
  BY DEF IInv, TypeOK
<1>8. /\ referred_table'[p] = f /\ \A q \in Referred \ {p} : referred_table'[q] = referred_table[q]
      /\ referred'[f] = p /\ \A g \in Finalized \ {f} : referred'[g] = referred[g]
  BY <1>2, <1>3, <1>7
<1>9. InTable' = InTable \cup {f} /\ Queued' = Queued
  <2>1. InTable' = InTable \cup {f}
    BY <1>2, <1>3, <1>7, <1>8 DEF InTable
  <2>. QED BY <2>1 DEF Queued, Followed
<1>10. TypeOK'
  <2>1. alive' \subseteq Objects
    BY <1>3 DEF IInv, TypeOK, Objects
  <2>2. /\ referred_table' \in [Referred -> Finalized \cup {Nil}]
        /\ referred' \in [Finalized -> Referred \cup {Nil}]
    BY <1>2, <1>3, <1>7
  <2>. QED BY <1>6, <2>1, <2>2 DEF IInv, TypeOK, Labels
<1>11. OneCall'
  <2>1. ~ Busy("link")
    BY DEF Busy
  <2>. QED BY <1>4, <1>5, <2>1, OneCallStep DEF IInv, Labels
<1>12. CallsOK'
  <2>1. Fits("link", l)'
    BY <1>2, <1>3, <1>4, <1>8 DEF Fits
  <2>2. ASSUME NEW u \in Threads \ {t}
        PROVE  /\ {loc[u].ptr, loc[u].to} \ {Nil} \subseteq held'
               /\ pc[u] = "link" => referred_table'[Arg(loc[u])] = referred_table[Arg(loc[u])]
               /\ loc[u].z # Nil => finalizer'[loc[u].z].fate = "called"
    <3>1. Fits(pc[u], loc[u]) /\ loc[u] \in Locals
      BY LocalsOf
    <3>2. pc[u] = "link" => Arg(loc[u]) \in Referred \ {p}
      BY <3>1 DEF Fits, Arg, Locals
    <3>. QED BY <1>8, <3>1, <3>2 DEF Fits
  <2>. QED BY <1>4, <1>5, <2>1, <2>2, CallsStep DEF IInv, Labels
<1>13. TableOK'
  <2>1. ASSUME NEW q \in Referred, referred_table'[q] # Nil PROVE referred'[referred_table'[q]] = q
    <3>1. CASE q = p
      BY <1>8, <3>1
    <3>2. CASE q # p
      <4>1. /\ referred_table'[q] = referred_table[q] /\ referred[referred_table[q]] = q
            /\ referred_table[q] \in Finalized
        BY <1>7, <1>8, <2>1, <3>2 DEF IInv, TableOK
      <4>2. referred_table[q] # f
        BY <1>3, <4>1, FinalizerAssumption
      <4>. QED BY <1>8, <4>1, <4>2
    <3>. QED BY <3>1, <3>2
  <2>2. ASSUME NEW g \in Queued PROVE referred'[g] # Nil /\ g \notin InTable'
    <3>1. g \in Finalized \ {f} /\ referred[g] # Nil /\ g \notin InTable
      BY <1>3, QueuedIsClosed DEF IInv, TableOK
    <3>. QED BY <1>8, <1>9, <3>1
  <2>. QED BY <1>9, <2>1, <2>2 DEF TableOK
<1>14. ListsOK'
  <2>1. ASSUME NEW g \in Finalized, NEW z \in ToSet(finalizers[g])
        PROVE  finalizer[z].referred = referred'[g]
    <3>1. g # f
      BY <1>3, EmptyHolds
    <3>. QED BY <1>8, <2>1, <3>1 DEF IInv, ListsOK
  <2>. QED BY <2>1 DEF IInv, ListsOK, Pending
<1>15. NoneLost'
  <2>1. Taken \subseteq Taken'
    BY <1>6 DEF Taken
  <2>2. Looked \subseteq Looked'
    BY <1>9, <2>1 DEF Looked
  <2>3. \A z \in Finalizers : Pending(z) => \E g \in Looked : z \in ToSet(finalizers[g])
    BY LookedIs DEF IInv
  <2>. QED BY <2>2, <2>3 DEF NoneLost, Looked, Taken, Pending
<1>16. KeptOK'
  <2>1. KeptForFinalizer /\ InTable \cup Queued \subseteq alive
    BY DEF IInv, KeptOK
  <2>2. ASSUME NEW u \in Threads
        PROVE  /\ {loc'[u].fz, loc'[u].src, loc'[u].z} \ {Nil} \subseteq alive'
               /\ loc'[u].z # Nil => Pointed({finalizer[loc'[u].z].referred}) \subseteq alive'
    <3>1. /\ {loc[u].fz, loc[u].src, loc[u].z} \ {Nil} \subseteq alive
          /\ loc[u].z # Nil => Pointed({finalizer[loc[u].z].referred}) \subseteq alive
      BY <2>1 DEF KeptForFinalizer
    <3>. QED BY <1>4, <1>6, <3>1
  <2>3. KeptForFinalizer'
    BY <2>1, <2>2 DEF KeptForFinalizer, Pending, HeldReach, Pointed, Followed
  <2>. QED BY <1>9, <2>1, <2>3 DEF KeptOK
<1>. QED BY <1>10, <1>11, <1>12, <1>13, <1>14, <1>15, <1>16 DEF IInv

(* The first half of smal_finalizer_create: find or add the finalized. *)
LEMMA CreateFindKeeps ==
  ASSUME IInv, NEW t \in Threads, CreateFind(t)
  PROVE  IInv'
<1> DEFINE p == CreateArg(t)
<1>1. pc[t] = "create"
  BY DEF CreateFind
<1>2. CASE /\ referred_table[p] # Nil
           /\ Goto(t, "link", [loc[t] EXCEPT !.fz = referred_table[p]])
           /\ UNCHANGED <<heap, lists>>
  <2>1. PICK l : l = [loc[t] EXCEPT !.fz = referred_table[p]]
    OBVIOUS
  <2>2. /\ loc[t] \in Locals /\ Fits("create", loc[t]) /\ p = Arg(loc[t])
        /\ {loc[t].src} \ {Nil} \subseteq alive
    BY <1>1, LocalsOf DEF CreateArg, Arg
  <2>3. p \in Referred
    BY <2>2 DEF Fits, Arg, Locals
  <2>4. referred_table[p] \in Finalized /\ referred_table[p] \in alive
    BY <1>2, <2>3 DEF IInv, TypeOK, KeptOK, InTable
  <2>5. /\ l \in Locals /\ l.ptr = loc[t].ptr /\ l.to = loc[t].to /\ l.src = loc[t].src
        /\ l.fz = referred_table[p] /\ l.z = loc[t].z /\ l.todo = loc[t].todo /\ Arg(l) = p
    BY <2>1, <2>2, <2>4 DEF Locals, Arg
  <2>6. Goto(t, "link", l)
    BY <1>2, <2>1
  <2>7. Fits("link", l)
    BY <1>2, <2>2, <2>5 DEF Fits
  <2>8. ~ Busy("link")
    BY DEF Busy
  <2>. QED BY <1>1, <1>2, <2>2, <2>4, <2>5, <2>6, <2>7, <2>8, ControlStep DEF Labels
<1>3. CASE /\ referred_table[p] = Nil /\ FreshFinalized # {}
           /\ LET f == CHOOSE f \in FreshFinalized : TRUE IN
              /\ alive' = alive \cup {f}
              /\ referred' = [referred EXCEPT ![f] = p]
              /\ referred_table' = [referred_table EXCEPT ![p] = f]
              /\ Goto(t, "link", [loc[t] EXCEPT !.fz = f])
           /\ UNCHANGED <<held, finalizers, next, finalized_queue, finalizer>>
  <2>1. PICK f \in FreshFinalized :
          /\ alive' = alive \cup {f}
          /\ referred' = [referred EXCEPT ![f] = p]
          /\ referred_table' = [referred_table EXCEPT ![p] = f]
          /\ Goto(t, "link", [loc[t] EXCEPT !.fz = f])
    BY <1>3
  <2>. QED BY <1>1, <1>3, <2>1, CreateAddKeeps
<1>4. CASE Return(t) /\ UNCHANGED <<heap, lists>>
  BY <1>1, <1>4, ReturnStep
<1>. QED BY <1>2, <1>3, <1>4 DEF CreateFind

(* The finalizer z is put on the list of the finalized of its object. *)
LinkAdd(t, z) ==
  /\ alive' = alive \cup {z}
  /\ finalizer' = [finalizer EXCEPT ![z] = [referred |-> CreateArg(t), fate |-> "pending"]]
  /\ finalizers' = [finalizers EXCEPT ![loc[t].fz] = <<z>> \o @]
  /\ UNCHANGED <<held, referred_table, referred, next, finalized_queue>>

(* It keeps the invariant, wherever create returns to. *)
LEMMA LinkAddKeeps ==
  ASSUME IInv, NEW t \in Threads, NEW label \in Labels, NEW l \in Locals, Goto(t, label, l),
         pc[t] = "link", Fits(label, l), Busy(label) => Busy(pc[t]),
         {l.fz, l.src} \ {Nil} \subseteq alive, l.z # Nil => l.z = loc[t].z,
         NEW z \in FreshFinalizers, LinkAdd(t, z)
  PROVE  IInv'
<1>p. PICK p : p = CreateArg(t)
  OBVIOUS
<1>f. PICK f : f = loc[t].fz
  OBVIOUS
<1>a. /\ alive' = alive \cup {z}
      /\ finalizer' = [finalizer EXCEPT ![z] = [referred |-> p, fate |-> "pending"]]
      /\ finalizers' = [finalizers EXCEPT ![f] = <<z>> \o @]
      /\ UNCHANGED <<held, referred_table, referred, next, finalized_queue>>
  BY <1>p, <1>f DEF LinkAdd
<1>1. /\ loc[t] \in Locals /\ Fits("link", loc[t]) /\ p = Arg(loc[t]) /\ Nil \notin Finalized
      /\ held \subseteq Referred
  BY <1>p, LocalsOf DEF CreateArg, Arg
<1>2. p \in held /\ p \in Referred /\ p # Nil /\ f \in Finalized /\ referred_table[p] = f
  BY <1>1, <1>f DEF Fits, Arg, Locals
<1>3. f \in InTable /\ referred[f] = p
  BY <1>1, <1>2 DEF IInv, TableOK, InTable
<1>4. z \in Finalizers /\ finalizer[z].fate = "unused"
  BY DEF FreshFinalizers
<1>5. /\ finalizer \in [Finalizers -> [referred : Referred \cup {Nil},
                                   fate : {"unused", "pending", "removed", "called"}]]
      /\ finalizers \in [Finalized -> Seq(Finalizers)]
  BY DEF IInv, TypeOK
<1>6. /\ finalizer'[z] = [referred |-> p, fate |-> "pending"]
      /\ \A y \in Finalizers \ {z} : finalizer'[y] = finalizer[y]
      /\ finalizers'[f] = <<z>> \o finalizers[f]
      /\ \A g \in Finalized \ {f} : finalizers'[g] = finalizers[g]
  BY <1>2, <1>4, <1>5, <1>a
<1>7. Pending(z)' /\ ~ Pending(z) /\ \A y \in Finalizers \ {z} : Pending(y)' <=> Pending(y)
  BY <1>4, <1>6 DEF Pending
<1>8. \A g \in Finalized : z \notin ToSet(finalizers[g])
  BY <1>7 DEF IInv, ListsOK
<1>9. /\ finalizers'[f] \in Seq(Finalizers) /\ Once(finalizers'[f])
      /\ ToSet(finalizers'[f]) = ToSet(finalizers[f]) \cup {z}
  <2>1. finalizers[f] \in Seq(Finalizers) /\ Once(finalizers[f]) /\ z \notin ToSet(finalizers[f])
    BY <1>2, <1>5, <1>8 DEF IInv, ListsOK
  <2>2. /\ <<z>> \o finalizers[f] \in Seq(Finalizers) /\ Once(<<z>> \o finalizers[f])
        /\ ToSet(<<z>> \o finalizers[f]) = ToSet(finalizers[f]) \cup {z}
    BY <1>4, <2>1, InFront
  <2>. QED BY <1>6, <2>2
<1>10. /\ pc' \in [Threads -> Labels] /\ loc' \in [Threads -> Locals]
       /\ pc'[t] = label /\ loc'[t] = l
       /\ \A u \in Threads \ {t} : pc'[u] = pc[u] /\ loc'[u] = loc[u]
  BY GotoIs DEF IInv
<1>11. UNCHANGED <<InTable, Queued>>
  BY <1>a DEF InTable, Queued, Followed
<1>12. TypeOK'
  <2>1. alive' \subseteq Objects
    BY <1>4, <1>a DEF IInv, TypeOK, Objects
  <2>2. finalizers' \in [Finalized -> Seq(Finalizers)]
    BY <1>2, <1>5, <1>9, <1>a, <1>6
  <2>3. finalizer' \in [Finalizers -> [referred : Referred \cup {Nil},
                                       fate : {"unused", "pending", "removed", "called"}]]
    BY <1>2, <1>5, <1>a
  <2>. QED BY <1>10, <1>a, <2>1, <2>2, <2>3 DEF IInv, TypeOK, Labels
<1>13. OneCall'
  BY OneCallStep DEF IInv
<1>14. ASSUME NEW y, y \in Finalizers \cup {Nil}, y # Nil, finalizer[y].fate = "called"
       PROVE  y # z /\ finalizer'[y] = finalizer[y]
  BY <1>4, <1>6, <1>14
<1>15. CallsOK'
  <2>1. Fits(label, l)'
    BY <1>14, <1>a DEF Fits, Locals
  <2>2. ASSUME NEW u \in Threads \ {t}
        PROVE  /\ {loc[u].ptr, loc[u].to} \ {Nil} \subseteq held'
               /\ loc[u].z # Nil => finalizer'[loc[u].z].fate = "called"
    <3>1. Fits(pc[u], loc[u]) /\ loc[u].z \in Finalizers \cup {Nil}
      BY LocalsOf DEF Locals
    <3>. QED BY <1>14, <1>a, <3>1 DEF Fits
  <2>. QED BY <1>a, <2>1, <2>2, CallsStep DEF IInv
<1>16. TableOK'
  BY <1>11, <1>a DEF IInv, TableOK
<1>17. ListsOK'
  <2>1. \A g \in Finalized : Once(finalizers'[g])
    BY <1>6, <1>9 DEF IInv, ListsOK
  <2>2. ASSUME NEW g \in Finalized, NEW y \in ToSet(finalizers'[g])
        PROVE  /\ Pending(y)' /\ finalizer'[y].referred = referred[g]
               /\ \A k \in Finalized : y \in ToSet(finalizers'[k]) => k = g
    <3>1. CASE y = z
      <4>1. g = f
        BY <1>6, <1>8, <2>2, <3>1
      <4>2. \A k \in Finalized : y \in ToSet(finalizers'[k]) => k = f
        BY <1>6, <1>8, <3>1
      <4>3. finalizer'[y].referred = p
        BY <1>6, <3>1
      <4>. QED BY <1>3, <1>7, <3>1, <4>1, <4>2, <4>3
    <3>2. CASE y # z
      <4>1. \A k \in Finalized : y \in ToSet(finalizers'[k]) <=> y \in ToSet(finalizers[k])
        BY <1>6, <1>9, <3>2
      <4>2. /\ y \in ToSet(finalizers[g]) /\ Pending(y) /\ finalizer[y].referred = referred[g]
            /\ \A k \in Finalized : y \in ToSet(finalizers[k]) => k = g
        BY <2>2, <4>1 DEF IInv, ListsOK
      <4>3. y \in Finalizers
        <5>1. finalizers[g] \in Seq(Finalizers)
          BY <1>5
        <5>. QED BY <4>2, <5>1, LenProperties DEF ToSet
      <4>. QED BY <1>6, <1>7, <3>2, <4>1, <4>2, <4>3
    <3>. QED BY <3>1, <3>2
  <2>3. \A y \in Finalizers : finalizer'[y].fate # "unused" => finalizer'[y].referred # Nil
    BY <1>2, <1>6 DEF IInv, ListsOK
  <2>. QED BY <1>a, <2>1, <2>2, <2>3 DEF ListsOK
<1>18. NoneLost'
  <2>1. Taken \subseteq Taken'
    BY <1>10 DEF Taken
  <2>2. Looked \subseteq Looked'
    BY <1>11, <2>1 DEF Looked
  <2>3. ASSUME NEW y \in Finalizers, Pending(y)'
        PROVE  \E g \in Looked' : y \in ToSet(finalizers'[g])
    <3>1. CASE y = z
      <4>1. f \in Looked' /\ z \in ToSet(finalizers'[f])
        BY <1>3, <1>9, <2>2 DEF Looked
      <4>. QED BY <3>1, <4>1
    <3>2. CASE y # z
      <4>1. Pending(y)
        BY <1>7, <2>3, <3>2
      <4>2. PICK g \in Looked : y \in ToSet(finalizers[g])
        BY <4>1, LookedIs DEF IInv
      <4>3. g \in Finalized
        BY LookedIs DEF IInv
      <4>4. y \in ToSet(finalizers'[g])
        BY <1>6, <1>9, <4>2, <4>3
      <4>. QED BY <2>2, <4>4
    <3>. QED BY <3>1, <3>2
  <2>. QED BY <2>3 DEF NoneLost, Looked, Taken
<1>19. KeptOK'
  <2>1. KeptForFinalizer /\ InTable \cup Queued \subseteq alive
    BY DEF IInv, KeptOK
  <2>2. ASSUME NEW u \in Threads
        PROVE  /\ {loc'[u].fz, loc'[u].src, loc'[u].z} \ {Nil} \subseteq alive'
               /\ loc'[u].z # Nil => Pointed({finalizer'[loc'[u].z].referred}) \subseteq alive'
    <3>1. /\ {loc[u].fz, loc[u].src, loc[u].z} \ {Nil} \subseteq alive
          /\ loc[u].z # Nil => /\ Pointed({finalizer[loc[u].z].referred}) \subseteq alive
                               /\ finalizer'[loc[u].z] = finalizer[loc[u].z]
      <4>1. Fits(pc[u], loc[u]) /\ loc[u].z \in Finalizers \cup {Nil}
        BY LocalsOf DEF Locals
      <4>. QED BY <1>14, <2>1, <4>1 DEF KeptForFinalizer, Fits
    <3>. QED BY <1>10, <1>a, <3>1
  <2>3. ASSUME NEW y \in Finalizers, Pending(y)'
        PROVE  {y} \cup Pointed({finalizer'[y].referred}) \subseteq alive'
    <3>1. CASE y = z
      <4>1. finalizer'[y].referred = p
        BY <1>6, <3>1
      <4>2. Pointed({p}) \subseteq Pointed(held)
        <5>1. {p} \cap Referred \subseteq Pointed(held)
          BY <1>2, PointedIsClosed
        <5>. QED BY <5>1, PointedMonotone
      <4>. QED BY <2>1, <3>1, <4>1, <4>2, <1>a DEF KeptForFinalizer, HeldReach
    <3>2. CASE y # z
      <4>1. Pending(y) /\ finalizer'[y] = finalizer[y]
        BY <1>6, <1>7, <2>3, <3>2
      <4>2. {y} \cup Pointed({finalizer[y].referred}) \subseteq alive
        BY <2>1, <4>1 DEF KeptForFinalizer
      <4>. QED BY <1>a, <4>1, <4>2
    <3>. QED BY <3>1, <3>2
  <2>4. KeptForFinalizer'
    BY <1>a, <2>1, <2>2, <2>3 DEF KeptForFinalizer, HeldReach, Pointed, Followed
  <2>. QED BY <1>11, <1>a, <2>1, <2>4 DEF KeptOK
<1>. QED BY <1>12, <1>13, <1>15, <1>16, <1>17, <1>18, <1>19 DEF IInv

(* The second half: push the finalizer, or return 0. *)
LEMMA CreateLinkKeeps ==
  ASSUME IInv, NEW t \in Threads, CreateLink(t)
  PROVE  IInv'
<1>1. pc[t] = "link"
  BY DEF CreateLink
<1>2. CASE FreshFinalizers = {} /\ Return(t) /\ UNCHANGED <<heap, lists>>
  BY <1>1, <1>2, ReturnStep
<1>3. CASE /\ FreshFinalizers # {}
           /\ LinkAdd(t, CHOOSE z \in FreshFinalizers : TRUE) /\ CreateReturn(t)
  <2>1. PICK z \in FreshFinalizers : LinkAdd(t, z)
    BY <1>3
  <2>2. CASE loc[t].src = Nil
    <3>1. Goto(t, "idle", NoLocals)
      BY <1>3, <2>2 DEF CreateReturn, Return
    <3>2. Fits("idle", NoLocals) /\ ~ Busy("idle")
      BY NoLocalsOK DEF Fits, Busy
    <3>3. {NoLocals.fz, NoLocals.src} \ {Nil} \subseteq alive /\ NoLocals.z = Nil
      BY NoLocalsOK
    <3>4. "idle" \in Labels
      BY DEF Labels
    <3>. QED BY <1>1, <2>1, <3>1, <3>2, <3>3, <3>4, NoLocalsOK, LinkAddKeeps
  <2>3. CASE loc[t].src # Nil
    <3>1. PICK l : l = [loc[t] EXCEPT !.fz = Nil, !.todo = @ - 1]
      OBVIOUS
    <3>2. Goto(t, "copy", l)
      BY <1>3, <2>3, <3>1 DEF CreateReturn
    <3>3. loc[t] \in Locals /\ Fits("link", loc[t]) /\ {loc[t].src} \ {Nil} \subseteq alive
      BY <1>1, LocalsOf
    <3>4. loc[t].todo - 1 \in 0 .. Cardinality(Finalizers)
      <4>1. Cardinality(Finalizers) \in Nat /\ loc[t].todo \in 0 .. Cardinality(Finalizers)
        BY <3>3, FinalizerAssumption, FS_CardinalityType DEF Locals
      <4>2. loc[t].todo > 0
        BY <2>3, <3>3 DEF Fits
      <4>. QED BY <4>1, <4>2
    <3>5. /\ l \in Locals /\ l.ptr = loc[t].ptr /\ l.to = loc[t].to /\ l.src = loc[t].src
          /\ l.fz = Nil /\ l.z = loc[t].z
      BY <3>1, <3>3, <3>4 DEF Locals
    <3>6. Fits("copy", l)
      BY <2>3, <3>3, <3>5 DEF Fits
    <3>7. ~ Busy("copy")
      BY DEF Busy
    <3>8. l \in Locals /\ {l.fz, l.src} \ {Nil} \subseteq alive /\ (l.z # Nil => l.z = loc[t].z)
      BY <3>3, <3>5
    <3>9. "copy" \in Labels
      BY DEF Labels
    <3>. QED BY <1>1, <2>1, <3>2, <3>6, <3>7, <3>8, <3>9, LinkAddKeeps
  <2>. QED BY <2>2, <2>3
<1>. QED BY <1>2, <1>3 DEF CreateLink, LinkAdd

-----------------------------------------------------------------------------
(* smal_finalizer_remove_all.                                              *)

(* The finalized leaves the table, and the call has it. *)
LEMMA RemoveAllKeeps ==
  ASSUME CarefulClient, IInv, NEW t \in Threads, NEW p \in Referred, RemoveAll(t, p)
  PROVE  IInv'
<1>f. PICK f : f = referred_table[p]
  OBVIOUS
<1>a. /\ p \in held /\ f # Nil
      /\ referred_table' = [referred_table EXCEPT ![p] = Nil]
      /\ Goto(t, "take", [NoLocals EXCEPT !.ptr = p, !.fz = f])
      /\ UNCHANGED <<held, alive, referred, finalizers, next, finalized_queue, finalizer>>
  BY <1>f DEF RemoveAll, heap
<1>1. pc[t] = "idle" /\ \A u \in Threads : pc[u] = "idle"
  BY BeginsAlone DEF RemoveAll
<1>2. f \in Finalized /\ referred[f] = p /\ f \in InTable
  BY <1>f, <1>a DEF IInv, TypeOK, TableOK, InTable
<1>3. PICK l : l = [NoLocals EXCEPT !.ptr = p, !.fz = f]
  OBVIOUS
<1>4. /\ l \in Locals /\ l.ptr = p /\ l.to = Nil /\ l.src = Nil /\ l.fz = f /\ l.z = Nil
      /\ p # Nil
  <2>1. p # Nil
    BY FinalizerAssumption
  <2>. QED BY <1>2, <1>3, <2>1, NoLocalsOK DEF Locals
<1>5. Goto(t, "take", l) /\ "take" \in Labels
  BY <1>3, <1>a DEF Labels
<1>6. /\ pc' \in [Threads -> Labels] /\ loc' \in [Threads -> Locals]
      /\ pc'[t] = "take" /\ loc'[t] = l
      /\ \A u \in Threads \ {t} : pc'[u] = pc[u] /\ loc'[u] = loc[u]
  BY <1>4, <1>5, GotoIs DEF IInv
<1>7. /\ referred_table \in [Referred -> Finalized \cup {Nil}]
      /\ referred_table'[p] = Nil /\ \A q \in Referred \ {p} : referred_table'[q] = referred_table[q]
  BY <1>a DEF IInv, TypeOK
<1>8. InTable \subseteq InTable' \cup {f} /\ InTable' \subseteq InTable /\ UNCHANGED Queued
  <2>1. InTable \subseteq InTable' \cup {f} /\ InTable' \subseteq InTable
    BY <1>f, <1>7 DEF InTable
  <2>. QED BY <1>a, <2>1 DEF Queued, Followed
<1>9. TypeOK'
  <2>1. referred_table' \in [Referred -> Finalized \cup {Nil}]
    BY <1>7, <1>a
  <2>. QED BY <1>6, <1>a, <2>1 DEF IInv, TypeOK, Labels
<1>10. OneCall'
  BY <1>1, <1>4, <1>5, OneCallStep DEF IInv
<1>11. CallsOK'
  <2>1. Fits("take", l)'
    BY <1>2, <1>4, <1>a, LocalsOf DEF Fits
  <2>2. ASSUME NEW u \in Threads \ {t}
        PROVE  /\ {loc[u].ptr, loc[u].to} \ {Nil} \subseteq held'
               /\ loc[u].z # Nil => finalizer'[loc[u].z].fate = "called"
    BY <1>a DEF IInv, CallsOK, Fits
  <2>. QED BY <1>1, <1>4, <1>5, <1>a, <2>1, <2>2, CallsStep DEF IInv
<1>12. TableOK'
  BY <1>7, <1>8, <1>a DEF IInv, TableOK
<1>13. ListsOK'
  BY <1>a DEF IInv, ListsOK, Pending
<1>14. NoneLost'
  <2>1. f \in Taken'
    BY <1>4, <1>6 DEF Taken
  <2>2. Taken = {}
    BY <1>1 DEF Taken
  <2>3. Looked \subseteq Looked'
    BY <1>8, <2>1, <2>2 DEF Looked
  <2>4. \A z \in Finalizers : Pending(z) => \E g \in Looked : z \in ToSet(finalizers[g])
    BY LookedIs DEF IInv
  <2>. QED BY <1>a, <2>3, <2>4 DEF NoneLost, Looked, Taken, Pending
<1>15. KeptOK'
  <2>1. KeptForFinalizer /\ InTable \cup Queued \subseteq alive
    BY DEF IInv, KeptOK
  <2>2. ASSUME NEW u \in Threads
        PROVE  /\ {loc'[u].fz, loc'[u].src, loc'[u].z} \ {Nil} \subseteq alive
               /\ loc'[u].z # Nil => Pointed({finalizer[loc'[u].z].referred}) \subseteq alive
    <3>1. /\ {loc[u].fz, loc[u].src, loc[u].z} \ {Nil} \subseteq alive
          /\ loc[u].z # Nil => Pointed({finalizer[loc[u].z].referred}) \subseteq alive
      BY <2>1 DEF KeptForFinalizer
    <3>. QED BY <1>2, <1>4, <1>6, <2>1, <3>1
  <2>3. KeptForFinalizer'
    BY <1>a, <2>1, <2>2 DEF KeptForFinalizer, Pending, HeldReach, Pointed, Followed
  <2>. QED BY <1>8, <1>a, <2>1, <2>3 DEF KeptOK
<1>. QED BY <1>9, <1>10, <1>11, <1>12, <1>13, <1>14, <1>15 DEF IInv

(* A finalizer of a list is memory for one. *)
LEMMA ListedIs ==
  ASSUME IInv, NEW f \in Finalized
  PROVE  finalizers[f] \in Seq(Finalizers) /\ ToSet(finalizers[f]) \subseteq Finalizers
<1>1. finalizers[f] \in Seq(Finalizers)
  BY DEF IInv, TypeOK
<1>. QED BY <1>1, LenProperties DEF ToSet

(* What remove_all and sweep_some have in common: the finalizers gone      *)
(* leave the list of f for a fate.                                         *)
Takes(f, gone, fate) ==
  /\ gone \subseteq ToSet(finalizers[f]) /\ fate \in {"removed", "called"}
  /\ finalizers' \in [Finalized -> Seq(Finalizers)]
  /\ \A g \in Finalized \ {f} : finalizers'[g] = finalizers[g]
  /\ Once(finalizers'[f]) /\ ToSet(finalizers'[f]) = ToSet(finalizers[f]) \ gone
  /\ finalizer' \in [Finalizers -> [referred : Referred \cup {Nil},
                                    fate : {"unused", "pending", "removed", "called"}]]
  /\ \A z \in Finalizers :
       /\ finalizer'[z].referred = finalizer[z].referred
       /\ finalizer'[z].fate = IF z \in gone THEN fate ELSE finalizer[z].fate
  /\ UNCHANGED <<heap, referred_table, referred, next, finalized_queue>>

(* It keeps the invariant. *)
LEMMA TakeStep ==
  ASSUME IInv, NEW t \in Threads, NEW label \in Labels, NEW l \in Locals, Goto(t, label, l),
         NEW f \in Finalized, NEW gone, NEW fate, Takes(f, gone, fate),
         Busy(pc[t]), Fits(label, l)',
         label = "func" \/ (pc[t] = "take" /\ loc[t].fz = f /\ gone = ToSet(finalizers[f])),
         label = "func" => pc[t] = "pop" /\ loc[t].fz = l.fz,
         {l.fz, l.src} \ {Nil} \subseteq alive, l.z # Nil => l.z \in gone
  PROVE  IInv'
<1>a. /\ gone \subseteq ToSet(finalizers[f]) /\ fate \in {"removed", "called"}
      /\ finalizers' \in [Finalized -> Seq(Finalizers)]
      /\ \A g \in Finalized \ {f} : finalizers'[g] = finalizers[g]
      /\ Once(finalizers'[f]) /\ ToSet(finalizers'[f]) = ToSet(finalizers[f]) \ gone
      /\ UNCHANGED <<heap, referred_table, referred, next, finalized_queue>>
  BY DEF Takes
<1>b. /\ finalizer' \in [Finalizers -> [referred : Referred \cup {Nil},
                                        fate : {"unused", "pending", "removed", "called"}]]
      /\ \A z \in Finalizers :
           /\ finalizer'[z].referred = finalizer[z].referred
           /\ finalizer'[z].fate = IF z \in gone THEN fate ELSE finalizer[z].fate
  BY DEF Takes
<1>. USE <1>a, <1>b
<1>1. /\ pc' \in [Threads -> Labels] /\ loc' \in [Threads -> Locals]
      /\ pc'[t] = label /\ loc'[t] = l
      /\ \A u \in Threads \ {t} : pc'[u] = pc[u] /\ loc'[u] = loc[u]
  BY GotoIs DEF IInv
<1>2. UNCHANGED <<held, alive>> /\ UNCHANGED <<InTable, Queued>>
  BY DEF heap, InTable, Queued, Followed
<1>3. gone \subseteq Finalizers /\ \A z \in gone : Pending(z)
  BY ListedIs DEF IInv, ListsOK
<1>4. \A z \in Finalizers : Pending(z)' <=> Pending(z) /\ z \notin gone
  BY DEF Pending
<1>5. ASSUME NEW z \in Finalizers, finalizer[z].fate = "called" PROVE finalizer'[z].fate = "called"
  BY <1>3, <1>5 DEF Pending
<1>6. TypeOK'
  BY <1>1, <1>2 DEF IInv, TypeOK, Labels
<1>7. OneCall'
  BY OneCallStep DEF IInv
<1>8. CallsOK'
  <2>1. ASSUME NEW u \in Threads \ {t}
        PROVE  /\ {loc[u].ptr, loc[u].to} \ {Nil} \subseteq held'
               /\ loc[u].z # Nil => finalizer'[loc[u].z].fate = "called"
    <3>1. Fits(pc[u], loc[u]) /\ loc[u].z \in Finalizers \cup {Nil}
      BY LocalsOf DEF Locals
    <3>. QED BY <1>2, <1>5, <3>1 DEF Fits
  <2>. QED BY <2>1, CallsStep DEF IInv
<1>9. TableOK'
  BY <1>2 DEF IInv, TableOK
<1>10. ListsOK'
  <2>1. \A g \in Finalized : Once(finalizers'[g])
    BY DEF IInv, ListsOK
  <2>2. ASSUME NEW g \in Finalized, NEW z \in ToSet(finalizers'[g])
        PROVE  /\ z \in ToSet(finalizers[g]) /\ z \in Finalizers /\ z \notin gone
    <3>1. z \in ToSet(finalizers[g]) /\ (g = f => z \notin gone)
      BY <2>2
    <3>2. g # f => z \notin gone
      BY <3>1 DEF IInv, ListsOK
    <3>. QED BY <3>1, <3>2, ListedIs
  <2>3. ASSUME NEW g \in Finalized, NEW z \in ToSet(finalizers'[g])
        PROVE  /\ Pending(z)' /\ finalizer'[z].referred = referred[g]
               /\ \A k \in Finalized : z \in ToSet(finalizers'[k]) => k = g
    BY <1>4, <2>2 DEF IInv, ListsOK
  <2>4. ASSUME NEW z \in Finalizers, finalizer'[z].fate # "unused"
        PROVE  finalizer'[z].referred # Nil
    <3>1. finalizer[z].fate # "unused"
      BY <1>3, <2>4 DEF Pending
    <3>. QED BY <3>1 DEF IInv, ListsOK
  <2>. QED BY <2>1, <2>3, <2>4 DEF ListsOK
<1>11. NoneLost'
  <2>1. ASSUME NEW g \in Looked, g # f \/ label = "func" PROVE g \in Looked'
    <3>1. CASE g \in InTable \cup Queued
      BY <1>2, <3>1 DEF Looked
    <3>2. CASE g \in Taken
      <4>1. PICK u \in Threads : pc[u] \in {"take", "pop", "func"} /\ g = loc[u].fz
        BY <3>2 DEF Taken
      <4>2. pc'[u] \in {"take", "pop", "func"} /\ loc'[u].fz = g
        BY <1>1, <2>1, <4>1
      <4>. QED BY <4>2 DEF Looked, Taken
    <3>. QED BY <2>1, <3>1, <3>2 DEF Looked
  <2>2. ASSUME NEW z \in Finalizers, Pending(z)'
        PROVE  \E g \in Looked' : z \in ToSet(finalizers'[g])
    <3>1. Pending(z) /\ z \notin gone
      BY <1>4, <2>2
    <3>2. PICK g \in Looked : z \in ToSet(finalizers[g])
      BY <3>1, LookedIs DEF IInv
    <3>3. g \in Finalized
      BY LookedIs DEF IInv
    <3>4. z \in ToSet(finalizers'[g])
      BY <3>1, <3>2, <3>3
    <3>5. g # f \/ label = "func"
      BY <3>1, <3>2
    <3>. QED BY <2>1, <3>4, <3>5
  <2>. QED BY <2>2 DEF NoneLost, Looked, Taken
<1>12. KeptOK'
  <2>1. KeptForFinalizer /\ InTable \cup Queued \subseteq alive
    BY DEF IInv, KeptOK
  <2>2. ASSUME NEW z \in Finalizers, Pending(z)
        PROVE  {z} \cup Pointed({finalizer'[z].referred}) \subseteq alive
    <3>1. {z} \cup Pointed({finalizer[z].referred}) \subseteq alive
      BY <2>1, <2>2 DEF KeptForFinalizer
    <3>. QED BY <3>1
  <2>3. ASSUME NEW u \in Threads
        PROVE  /\ {loc'[u].fz, loc'[u].src, loc'[u].z} \ {Nil} \subseteq alive
               /\ loc'[u].z # Nil => Pointed({finalizer'[loc'[u].z].referred}) \subseteq alive
    <3>1. CASE u = t
      <4>1. l.z # Nil => l.z \in Finalizers /\ Pending(l.z)
        BY <1>3
      <4>2. l.z # Nil => {l.z} \cup Pointed({finalizer'[l.z].referred}) \subseteq alive
        BY <2>2, <4>1
      <4>. QED BY <1>1, <3>1, <4>2
    <3>2. CASE u # t
      <4>1. /\ {loc[u].fz, loc[u].src, loc[u].z} \ {Nil} \subseteq alive
            /\ loc[u].z # Nil => Pointed({finalizer[loc[u].z].referred}) \subseteq alive
        BY <2>1 DEF KeptForFinalizer
      <4>2. loc[u].z # Nil => loc[u].z \in Finalizers
        BY LocalsOf DEF Locals
      <4>3. loc[u].z # Nil => finalizer'[loc[u].z].referred = finalizer[loc[u].z].referred
        BY <4>2
      <4>4. loc[u].z # Nil => Pointed({finalizer'[loc[u].z].referred}) \subseteq alive
        BY <4>1, <4>3
      <4>. QED BY <1>1, <3>2, <4>1, <4>4
    <3>. QED BY <3>1, <3>2
  <2>4. \A z \in Finalizers : Pending(z)' => {z} \cup Pointed({finalizer'[z].referred}) \subseteq alive
    BY <1>4, <2>2
  <2>5. HeldReach \subseteq alive
    BY <2>1 DEF KeptForFinalizer
  <2>6. KeptForFinalizer'
    BY <1>2, <2>3, <2>4, <2>5 DEF KeptForFinalizer, HeldReach, Pointed, Followed
  <2>. QED BY <1>2, <2>1, <2>6 DEF KeptOK
<1>. QED BY <1>6, <1>7, <1>8, <1>9, <1>10, <1>11, <1>12 DEF IInv

(* Then remove_all takes the list. *)
LEMMA RemoveTakeKeeps ==
  ASSUME IInv, NEW t \in Threads, RemoveTake(t)
  PROVE  IInv'
<1>f. PICK f : f = loc[t].fz
  OBVIOUS
<1>g. PICK gone : gone = ToSet(finalizers[f])
  OBVIOUS
<1>1. /\ pc[t] = "take"
      /\ finalizer' = [z \in Finalizers |->
                         IF z \in gone THEN [finalizer[z] EXCEPT !.fate = "removed"] ELSE finalizer[z]]
      /\ finalizers' = [finalizers EXCEPT ![f] = << >>]
      /\ Goto(t, "idle", NoLocals)
      /\ UNCHANGED <<heap, referred_table, referred, next, finalized_queue>>
  BY <1>f, <1>g DEF RemoveTake, Return
<1>2. f \in Finalized
  BY <1>1, <1>f, LocalsOf DEF Fits, Locals
<1>3. /\ finalizers' \in [Finalized -> Seq(Finalizers)]
      /\ \A g \in Finalized \ {f} : finalizers'[g] = finalizers[g]
      /\ Once(finalizers'[f]) /\ ToSet(finalizers'[f]) = ToSet(finalizers[f]) \ gone
  <2>1. finalizers \in [Finalized -> Seq(Finalizers)] /\ << >> \in Seq(Finalizers)
    BY DEF IInv, TypeOK
  <2>2. finalizers'[f] = << >> /\ ToSet(finalizers[f]) \ gone = {}
    BY <1>1, <1>2, <1>g, <2>1
  <2>3. Once(finalizers'[f]) /\ ToSet(finalizers'[f]) = {}
    BY <2>2, EmptyHolds
  <2>. QED BY <1>1, <1>2, <2>1, <2>2, <2>3
<1>4. /\ finalizer' \in [Finalizers -> [referred : Referred \cup {Nil},
                                        fate : {"unused", "pending", "removed", "called"}]]
      /\ \A z \in Finalizers :
           /\ finalizer'[z].referred = finalizer[z].referred
           /\ finalizer'[z].fate = IF z \in gone THEN "removed" ELSE finalizer[z].fate
  BY <1>1 DEF IInv, TypeOK
<1>5. Busy(pc[t])
  BY <1>1 DEF Busy
<1>6. Fits("idle", NoLocals)'
  BY NoLocalsOK DEF Fits, NoLocals
<1>7. {NoLocals.fz, NoLocals.src} \ {Nil} \subseteq alive /\ NoLocals.z = Nil
  BY NoLocalsOK
<1>8. Takes(f, gone, "removed")
  BY <1>1, <1>3, <1>4, <1>g DEF Takes
<1>9. /\ pc[t] = "take" /\ loc[t].fz = f /\ gone = ToSet(finalizers[f])
      /\ Goto(t, "idle", NoLocals) /\ "idle" \in Labels
  BY <1>1, <1>f, <1>g DEF Labels
<1>. QED BY <1>2, <1>5, <1>6, <1>7, <1>8, <1>9, NoLocalsOK, TakeStep

-----------------------------------------------------------------------------
(* smal_finalizer_sweep_some.                                              *)

(* It takes the first finalizer of the head of the queue. *)
LEMMA SweepPopKeeps ==
  ASSUME IInv, NEW t \in Threads, SweepPop(t)
  PROVE  IInv'
<1>f. PICK f : f = loc[t].fz
  OBVIOUS
<1>z. PICK z : z = Head(finalizers[f])
  OBVIOUS
<1>l. PICK l : l = [loc[t] EXCEPT !.z = z]
  OBVIOUS
<1>1. /\ pc[t] = "pop" /\ finalizers[f] # << >>
      /\ finalizers' = [finalizers EXCEPT ![f] = Tail(@)]
      /\ finalizer' = [finalizer EXCEPT ![z].fate = "called"]
      /\ Goto(t, "func", l)
      /\ UNCHANGED <<heap, referred_table, referred, next, finalized_queue>>
  BY <1>f, <1>z, <1>l DEF SweepPop
<1>2. /\ loc[t] \in Locals /\ Fits("pop", loc[t]) /\ f \in Finalized
      /\ {loc[t].fz, loc[t].src} \ {Nil} \subseteq alive
  BY <1>1, <1>f, LocalsOf DEF Fits, Locals
<1>3. /\ z \in Finalizers /\ z # Nil /\ Tail(finalizers[f]) \in Seq(Finalizers)
      /\ ToSet(finalizers[f]) = ToSet(Tail(finalizers[f])) \cup {z}
      /\ Once(Tail(finalizers[f])) /\ z \notin ToSet(Tail(finalizers[f]))
  <2>1. finalizers[f] \in Seq(Finalizers) /\ Once(finalizers[f])
    BY <1>2 DEF IInv, TypeOK, ListsOK
  <2>2. z \in Finalizers => z # Nil
    BY FinalizerAssumption
  <2>. QED BY <1>1, <1>z, <2>1, <2>2, TakenOff
<1>4. /\ finalizers' \in [Finalized -> Seq(Finalizers)]
      /\ \A g \in Finalized \ {f} : finalizers'[g] = finalizers[g]
      /\ Once(finalizers'[f]) /\ ToSet(finalizers'[f]) = ToSet(finalizers[f]) \ {z}
  <2>1. finalizers \in [Finalized -> Seq(Finalizers)]
    BY DEF IInv, TypeOK
  <2>2. finalizers'[f] = Tail(finalizers[f])
    BY <1>1, <1>2, <2>1
  <2>. QED BY <1>1, <1>2, <1>3, <2>1, <2>2
<1>5. /\ finalizer' \in [Finalizers -> [referred : Referred \cup {Nil},
                                        fate : {"unused", "pending", "removed", "called"}]]
      /\ \A y \in Finalizers :
           /\ finalizer'[y].referred = finalizer[y].referred
           /\ finalizer'[y].fate = IF y \in {z} THEN "called" ELSE finalizer[y].fate
  <2>1. finalizer \in [Finalizers -> [referred : Referred \cup {Nil},
                                     fate : {"unused", "pending", "removed", "called"}]]
    BY DEF IInv, TypeOK
  <2>2. finalizer' = [finalizer EXCEPT ![z].fate = "called"] /\ z \in Finalizers
    BY <1>1, <1>3
  <2>. QED BY ONLY <2>1, <2>2
<1>6. Busy(pc[t])
  BY <1>1 DEF Busy
<1>7. /\ l \in Locals /\ l.ptr = loc[t].ptr /\ l.to = loc[t].to /\ l.src = loc[t].src
      /\ l.fz = f /\ l.z = z
  BY <1>2, <1>3, <1>f, <1>l DEF Locals
<1>8. Fits("func", l)'
  BY <1>1, <1>2, <1>3, <1>5, <1>7, <1>f DEF Fits, heap
<1>9. {l.fz, l.src} \ {Nil} \subseteq alive /\ l.z \in {z} /\ loc[t].fz = l.fz
  BY <1>2, <1>7, <1>f
<1>10. Takes(f, {z}, "called")
  BY <1>1, <1>3, <1>4, <1>5 DEF Takes
<1>11. pc[t] = "pop" /\ Goto(t, "func", l) /\ "func" \in Labels /\ l \in Locals
  BY <1>1, <1>7 DEF Labels
<1>. QED BY <1>2, <1>6, <1>8, <1>9, <1>10, <1>11, TakeStep

(* The queue without its head. *)
LEMMA QueuedNext ==
  ASSUME TypeOK, NEW f \in Finalized, f = finalized_queue, finalized_queue' = next[f],
         next' = [next EXCEPT ![f] = Nil]
  PROVE  Queued' \subseteq Queued /\ Queued \subseteq Queued' \cup {f}
<1>1. /\ Queued \subseteq Finalized /\ f \in Queued
      /\ \A g \in Queued : next[g] \in Queued \cup {Nil}
  BY QueuedIsClosed, FinalizerAssumption
<1>2. /\ next' \in [Finalized -> Finalized \cup {Nil}] /\ Nil \notin Finalized
      /\ next'[f] = Nil /\ \A g \in Finalized \ {f} : next'[g] = next[g]
  BY FinalizerAssumption DEF TypeOK
<1>3. Queued' = Followed(Finalized, {next[f]}, next')
  BY DEF Queued, Followed
<1>4. Queued' \subseteq Queued
  <2>1. Queued \in SUBSET Finalized /\ Finalized \cap {next[f]} \subseteq Queued
    BY <1>1, <1>2
  <2>2. \A g \in Queued : next'[g] \in Queued \cup {Nil}
    BY <1>1, <1>2
  <2>. QED BY <1>3, <2>1, <2>2, FollowedIsLeast, Zenon
<1>5. Queued \subseteq Queued' \cup {f}
  <2> DEFINE X == Queued' \cup {f}
  <2>1. /\ Queued' \subseteq Finalized /\ Finalized \cap {next[f]} \subseteq Queued'
        /\ \A g \in Queued' : next'[g] \in Queued' \cup {Nil}
    <3>1. Nil \notin Finalized /\ \A g \in Finalized : next'[g] \in Finalized \cup {Nil}
      BY <1>2
    <3>. QED BY <1>3, <3>1, FollowedIsClosed, Zenon
  <2>2. next[f] \in Finalized \cup {Nil}
    BY DEF TypeOK
  <2>3. \A g \in X : next[g] \in X \cup {Nil}
    BY <1>2, <2>1, <2>2
  <2>4. X \in SUBSET Finalized /\ Finalized \cap {finalized_queue} \subseteq X
    BY <2>1
  <2> HIDE DEF X
  <2>5. Followed(Finalized, {finalized_queue}, next) \subseteq X
    BY <2>3, <2>4, FollowedIsLeast, Zenon
  <2>. QED BY <2>5 DEF X, Queued
<1>. QED BY <1>4, <1>5

(* The queue goes on after the head whose list is empty. *)
LEMMA SweepNextAt ==
  ASSUME IInv, NEW t \in Threads, pc[t] = "pop", NEW f \in Finalized, f = loc[t].fz,
         finalizers[f] = << >>, finalized_queue' = next[f], next' = [next EXCEPT ![f] = Nil],
         UNCHANGED <<heap, referred_table, referred, finalizers, finalizer>>,
         NEW label \in Labels, NEW l \in Locals, Goto(t, label, l), Fits(label, l)',
         {l.fz, l.src} \ {Nil} \subseteq alive, l.z # Nil => l.z = loc[t].z
  PROVE  IInv'
<1>1. /\ pc' \in [Threads -> Labels] /\ loc' \in [Threads -> Locals]
      /\ pc'[t] = label /\ loc'[t] = l
      /\ \A u \in Threads \ {t} : pc'[u] = pc[u] /\ loc'[u] = loc[u]
  BY GotoIs DEF IInv
<1>2. f = finalized_queue
  BY DEF IInv, CallsOK, Fits
<1>3. Queued' \subseteq Queued /\ Queued \subseteq Queued' \cup {f}
  BY <1>2, QueuedNext DEF IInv
<1>4. UNCHANGED <<held, alive, InTable>>
  BY DEF heap, InTable
<1>5. TypeOK'
  <2>1. next' \in [Finalized -> Finalized \cup {Nil}] /\ finalized_queue' \in Finalized \cup {Nil}
    BY DEF IInv, TypeOK
  <2>. QED BY <1>1, <1>4, <2>1 DEF IInv, TypeOK, Labels
<1>6. Busy(pc[t])
  BY DEF Busy
<1>7. OneCall'
  BY <1>6, OneCallStep DEF IInv
<1>8. CallsOK'
  <2>1. ASSUME NEW u \in Threads \ {t}
        PROVE  /\ {loc[u].ptr, loc[u].to} \ {Nil} \subseteq held'
               /\ pc[u] \notin {"pop", "func"}
               /\ loc[u].z # Nil => finalizer'[loc[u].z].fate = "called"
    <3>1. Fits(pc[u], loc[u]) /\ ~ Busy(pc[u])
      BY <1>6 DEF IInv, CallsOK, OneCall
    <3>. QED BY <1>4, <3>1 DEF Fits, Busy
  <2>. QED BY <2>1, CallsStep DEF IInv
<1>9. TableOK'
  BY <1>3, <1>4 DEF IInv, TableOK
<1>10. ListsOK'
  BY DEF IInv, ListsOK, Pending
<1>11. NoneLost'
  <2>1. ASSUME NEW g \in Looked, g # f PROVE g \in Looked'
    <3>1. CASE g \in InTable \cup Queued
      BY <1>3, <1>4, <2>1, <3>1 DEF Looked
    <3>2. CASE g \in Taken
      BY <1>1, <2>1, <3>2 DEF Looked, Taken
    <3>. QED BY <2>1, <3>1, <3>2 DEF Looked
  <2>2. ASSUME NEW z \in Finalizers, Pending(z)'
        PROVE  \E g \in Looked' : z \in ToSet(finalizers'[g])
    <3>1. Pending(z)
      BY <2>2 DEF Pending
    <3>2. PICK g \in Looked : z \in ToSet(finalizers[g])
      BY <3>1, LookedIs DEF IInv
    <3>3. g # f
      BY <3>2, EmptyHolds
    <3>. QED BY <2>1, <3>2, <3>3
  <2>. QED BY <2>2 DEF NoneLost, Looked, Taken
<1>12. KeptOK'
  <2>1. KeptForFinalizer /\ InTable \cup Queued \subseteq alive
    BY DEF IInv, KeptOK
  <2>2. ASSUME NEW u \in Threads
        PROVE  /\ {loc'[u].fz, loc'[u].src, loc'[u].z} \ {Nil} \subseteq alive
               /\ loc'[u].z # Nil => Pointed({finalizer[loc'[u].z].referred}) \subseteq alive
    <3>1. /\ {loc[u].fz, loc[u].src, loc[u].z} \ {Nil} \subseteq alive
          /\ loc[u].z # Nil => Pointed({finalizer[loc[u].z].referred}) \subseteq alive
      BY <2>1 DEF KeptForFinalizer
    <3>. QED BY <1>1, <3>1
  <2>3. KeptForFinalizer'
    BY <1>4, <2>1, <2>2 DEF KeptForFinalizer, Pending, HeldReach, Pointed, Followed
  <2>. QED BY <1>3, <1>4, <2>1, <2>3 DEF KeptOK
<1>. QED BY <1>5, <1>7, <1>8, <1>9, <1>10, <1>11, <1>12 DEF IInv

(* ... at the end of the queue, and before. *)
LEMMA SweepNextKeeps ==
  ASSUME IInv, NEW t \in Threads, SweepNext(t)
  PROVE  IInv'
<1>f. PICK f : f = loc[t].fz
  OBVIOUS
<1>1. /\ pc[t] = "pop" /\ finalizers[f] = << >> /\ finalized_queue' = next[f]
      /\ next' = [next EXCEPT ![f] = Nil] /\ SweepLoop(t, next[f])
      /\ UNCHANGED <<heap, referred_table, referred, finalizers, finalizer>>
  BY <1>f DEF SweepNext
<1>2. /\ loc[t] \in Locals /\ Fits("pop", loc[t]) /\ f \in Finalized
      /\ {loc[t].src} \ {Nil} \subseteq alive
  BY <1>1, <1>f, LocalsOf DEF Fits, Locals
<1>3. CASE next[f] = Nil
  <2>1. Goto(t, "idle", NoLocals) /\ "idle" \in Labels
    BY <1>1, <1>3 DEF SweepLoop, Return, Labels
  <2>2. Fits("idle", NoLocals)'
    BY NoLocalsOK DEF Fits, NoLocals
  <2>3. {NoLocals.fz, NoLocals.src} \ {Nil} \subseteq alive /\ NoLocals.z = Nil
    BY NoLocalsOK
  <2>. QED BY <1>1, <1>2, <1>f, <2>1, <2>2, <2>3, NoLocalsOK, SweepNextAt
<1>4. CASE next[f] # Nil
  <2>1. PICK l : l = [loc[t] EXCEPT !.fz = next[f]]
    OBVIOUS
  <2>2. Goto(t, "pop", l) /\ "pop" \in Labels
    BY <1>1, <1>4, <2>1 DEF SweepLoop, Labels
  <2>3. next[f] \in Finalized /\ next[f] \in alive
    <3>1. f \in Queued
      BY <1>2, <1>f, QueuedIsClosed DEF IInv, Fits
    <3>. QED BY <1>4, <3>1, QueuedIsClosed DEF IInv, KeptOK
  <2>4. /\ l \in Locals /\ l.ptr = loc[t].ptr /\ l.to = loc[t].to /\ l.src = loc[t].src
        /\ l.fz = next[f] /\ l.z = loc[t].z
    BY <1>2, <2>1, <2>3 DEF Locals
  <2>5. Fits("pop", l)'
    BY <1>1, <1>2, <1>4, <2>4 DEF Fits, heap
  <2>6. {l.fz, l.src} \ {Nil} \subseteq alive /\ (l.z # Nil => l.z = loc[t].z)
    BY <1>2, <2>3, <2>4
  <2>. QED BY <1>1, <1>2, <1>f, <2>2, <2>4, <2>5, <2>6, SweepNextAt
<1>. QED BY <1>3, <1>4

-----------------------------------------------------------------------------
(* A collection.                                                           *)

(* The objects whose finalized the collection queues, and these.           *)
Unreachable == {p \in Referred : referred_table[p] # Nil /\ ~ Reachable(p)}
Swept == {referred_table[p] : p \in Unreachable}

(* They leave the table for the queue. *)
LEMMA SweptIs ==
  ASSUME IInv, referred_table' = [p \in Referred |->
                                    IF p \in Unreachable THEN Nil ELSE referred_table[p]]
  PROVE  /\ Swept \subseteq InTable /\ InTable \subseteq Finalized
         /\ InTable' = InTable \ Swept /\ Swept \cap Queued = {}
<1>1. referred_table \in [Referred -> Finalized \cup {Nil}]
  BY DEF IInv, TypeOK
<1>2. Swept \subseteq InTable /\ InTable \subseteq Finalized
  BY <1>1 DEF Swept, Unreachable, InTable
<1>3. ASSUME NEW p \in Referred, NEW q \in Referred, referred_table[p] = referred_table[q],
             referred_table[p] # Nil
      PROVE  p = q
  BY <1>3 DEF IInv, TableOK
<1>4. ASSUME NEW f \in InTable' PROVE f \in InTable \ Swept
  <2>1. PICK p \in Referred : f = referred_table'[p] /\ f # Nil
    BY <1>4 DEF InTable
  <2>2. p \notin Unreachable /\ f = referred_table[p]
    BY <2>1
  <2>3. f \notin Swept
    BY <1>3, <2>1, <2>2 DEF Swept, Unreachable
  <2>. QED BY <2>1, <2>2, <2>3 DEF InTable
<1>5. ASSUME NEW f \in InTable \ Swept PROVE f \in InTable'
  <2>1. PICK p \in Referred : f = referred_table[p] /\ f # Nil
    BY <1>5 DEF InTable
  <2>2. p \notin Unreachable
    BY <1>5, <2>1 DEF Swept
  <2>. QED BY <2>1, <2>2 DEF InTable
<1>6. Swept \cap Queued = {}
  BY <1>2 DEF IInv, TableOK
<1>. QED BY <1>2, <1>4, <1>5, <1>6

(* What the collection marks, from the client's pointers and its own.      *)
LEMMA MarkedIs ==
  ASSUME TypeOK, NEW nx \in [Finalized -> Finalized \cup {Nil}], NEW q \in Finalized \cup {Nil},
         NEW S, S = held \cup InTable \cup {q}
  PROVE  /\ Pointed(held) \subseteq Reach(S, nx)
         /\ \A f \in InTable \cup Followed(Finalized, {q}, nx) :
              /\ f \in Finalized => f \in Reach(S, nx)
              /\ \A z \in ToSet(finalizers[f]) : z \in Reach(S, nx)
              /\ Pointed({referred[f]}) \subseteq Reach(S, nx)
<1> DEFINE fs == Followed(Finalized, S, nx)
           W == S \cup {referred[f] : f \in fs}
           P == Pointed(W)
<1>1. /\ fs \subseteq Finalized /\ Finalized \cap S \subseteq fs
      /\ \A f \in fs : nx[f] \in fs \cup {Nil}
  BY FinalizerAssumption, FollowedIsClosed
<1>2. fs \subseteq Reach(S, nx) /\ P \subseteq Reach(S, nx)
  BY DEF Reach
<1>3. \A f \in fs : \A z \in ToSet(finalizers[f]) : z \in Reach(S, nx)
  <2> DEFINE Z == UNION {ToSet(finalizers[f]) : f \in fs}
  <2>1. Z \subseteq Reach(S, nx)
    BY DEF Reach
  <2>2. \A f \in fs : \A z \in ToSet(finalizers[f]) : z \in Z
    OBVIOUS
  <2>. QED BY <2>1, <2>2
<1>4. Pointed(held) \subseteq P
  <2>1. held \subseteq W
    OBVIOUS
  <2> HIDE DEF W
  <2>2. held \cap Referred \subseteq Pointed(W)
    BY <2>1, PointedIsClosed
  <2>. QED BY <2>2, PointedMonotone
<1>5. ASSUME NEW f \in fs PROVE Pointed({referred[f]}) \subseteq P
  <2>1. {referred[f]} \subseteq W
    BY <1>5
  <2> HIDE DEF W
  <2>2. {referred[f]} \cap Referred \subseteq Pointed(W)
    BY <2>1, PointedIsClosed
  <2>. QED BY <2>2, PointedMonotone
<1> HIDE DEF fs, P
<1>6. InTable \subseteq fs
  BY <1>1 DEF InTable, TypeOK
<1>7. Followed(Finalized, {q}, nx) \subseteq fs
  <2>1. fs \in SUBSET Finalized /\ Finalized \cap {q} \subseteq fs
    BY <1>1
  <2>. QED BY <1>1, <2>1, FollowedIsLeast
<1>. QED BY <1>2, <1>3, <1>4, <1>5, <1>6, <1>7

(* A collection keeps the invariant, whatever the order of the table. *)
LEMMA CollectKeeps ==
  ASSUME CarefulClient, IInv, NEW t \in Threads, Collect(t)
  PROVE  IInv'
<1>1. PICK order \in SetToSeqs(Swept) :
        /\ next' = NextWith(order)
        /\ finalized_queue' = IF order = << >> THEN finalized_queue ELSE Last(order)
        /\ referred_table' = [p \in Referred |-> IF p \in Unreachable THEN Nil ELSE referred_table[p]]
  BY DEF Collect, Swept, Unreachable
<1>2. /\ alive' = alive \cap Reach(held \cup FinalizerRoots, next')
      /\ Goto(t, "sweep", [NoLocals EXCEPT !.n = SweepAmount])
      /\ UNCHANGED <<held, referred, finalizers, finalizer>>
  BY DEF Collect
<1>3. pc[t] = "idle" /\ \A u \in Threads : pc[u] = "idle"
  BY BeginsAlone DEF Collect
<1>4. \A u \in Threads : loc[u] = NoLocals
  BY <1>3 DEF IInv, CallsOK, Fits
<1>5. /\ Swept \subseteq InTable /\ InTable \subseteq Finalized
      /\ InTable' = InTable \ Swept /\ Swept \cap Queued = {}
  BY <1>1, SweptIs
<1>6. Queued' = Swept \cup Queued
  <2>1. Followed(Finalized, {finalized_queue'}, NextWith(order)) = Swept \cup Queued
    BY <1>1, <1>5, QueuedAfter DEF IInv
  <2>. QED BY <1>1, <2>1 DEF Queued, Followed
<1>7. /\ next' \in [Finalized -> Finalized \cup {Nil}]
      /\ finalized_queue' \in Finalized \cup {Nil}
  <2>1. next' \in [Finalized -> Finalized \cup {Nil}]
    BY <1>1, <1>5, NextWithIs DEF IInv
  <2>2. Followed(Finalized, {finalized_queue'}, next') \subseteq Finalized
    BY DEF Followed
  <2>3. finalized_queue' \in Finalized \cup {Nil}
    <3>1. CASE order = << >>
      BY <1>1, <3>1 DEF IInv, TypeOK
    <3>2. CASE order # << >>
      <4>1. IsFiniteSet(Swept)
        BY <1>5, FinalizerAssumption, FS_Subset
      <4>2. /\ Len(order) \in Nat /\ DOMAIN order = 1..Len(order)
            /\ \A i \in 1..Len(order) : order[i] \in Swept
        BY <4>1, OrderCovers
      <4>3. order \in Seq(Swept)
        BY <4>1, FS_CardinalityType DEF SetToSeqs
      <4>4. Len(order) \in 1..Len(order)
        BY <3>2, <4>3, EmptySeq
      <4>. QED BY <1>1, <1>5, <3>2, <4>2, <4>4 DEF Last
    <3>. QED BY <3>1, <3>2
  <2>. QED BY <2>1, <2>3
<1>8. PICK l : l = [NoLocals EXCEPT !.n = SweepAmount]
  OBVIOUS
<1>9. l \in Locals /\ l.ptr = Nil /\ l.to = Nil /\ l.src = Nil /\ l.fz = Nil /\ l.z = Nil
  BY <1>8, NoLocalsOK, FinalizerAssumption DEF Locals
<1>10. Goto(t, "sweep", l) /\ "sweep" \in Labels
  BY <1>2, <1>8 DEF Labels
<1>11. /\ pc' \in [Threads -> Labels] /\ loc' \in [Threads -> Locals]
       /\ pc'[t] = "sweep" /\ loc'[t] = l
       /\ \A u \in Threads \ {t} : pc'[u] = pc[u] /\ loc'[u] = loc[u]
  BY <1>9, <1>10, GotoIs DEF IInv
<1>12. TypeOK'
  <2>1. referred_table' \in [Referred -> Finalized \cup {Nil}]
    BY <1>1 DEF IInv, TypeOK
  <2>. QED BY <1>2, <1>7, <1>11, <2>1 DEF IInv, TypeOK, Labels
<1>13. OneCall'
  BY <1>3, <1>9, <1>10, OneCallStep DEF IInv
<1>14. CallsOK'
  <2>1. Fits("sweep", l)'
    BY <1>9 DEF Fits
  <2>2. ASSUME NEW u \in Threads \ {t}
        PROVE  {loc[u].ptr, loc[u].to} \ {Nil} \subseteq held' /\ loc[u].z = Nil
    BY <1>4, NoLocalsOK
  <2>. QED BY <1>3, <1>9, <1>10, <2>1, <2>2, CallsStep DEF IInv
<1>15. TableOK'
  <2>1. ASSUME NEW p \in Referred, referred_table'[p] # Nil
        PROVE  referred'[referred_table'[p]] = p
    BY <1>1, <1>2, <2>1 DEF IInv, TableOK
  <2>2. ASSUME NEW f \in Swept PROVE referred[f] # Nil
    <3>1. PICK p \in Referred : f = referred_table[p] /\ f # Nil
      BY <1>5 DEF InTable
    <3>2. p # Nil
      BY FinalizerAssumption
    <3>. QED BY <3>1, <3>2 DEF IInv, TableOK
  <2>3. ASSUME NEW f \in Queued' PROVE referred'[f] # Nil /\ f \notin InTable'
    BY <1>2, <1>5, <1>6, <2>2 DEF IInv, TableOK
  <2>. QED BY <2>1, <2>3 DEF TableOK
<1>16. ListsOK'
  BY <1>2 DEF IInv, ListsOK, Pending
<1>17. ASSUME NEW z \in Finalizers, Pending(z)
       PROVE  \E f \in InTable \cup Queued : z \in ToSet(finalizers[f])
  <2>1. Taken = {}
    BY <1>3 DEF Taken
  <2>. QED BY <1>17, <2>1, LookedIs DEF IInv, Looked
<1>18. NoneLost'
  <2>1. InTable \cup Queued \subseteq Looked'
    BY <1>5, <1>6 DEF Looked
  <2>2. \A z \in Finalizers : Pending(z)' => \E f \in Looked' : z \in ToSet(finalizers'[f])
    BY <1>2, <1>17, <2>1 DEF Pending
  <2>. QED BY <2>2 DEF NoneLost, Looked, Taken
<1>19. KeptOK'
  <2> DEFINE M == Reach(held \cup InTable \cup {finalized_queue'}, next')
  <2>1. alive' = alive \cap M
    BY <1>2 DEF FinalizerRoots
  <2>2. Followed(Finalized, {finalized_queue'}, next') = Swept \cup Queued
    BY <1>6 DEF Queued, Followed
  <2>3. /\ Pointed(held) \subseteq M
        /\ \A f \in InTable \cup Queued :
             /\ f \in Finalized => f \in M
             /\ \A z \in ToSet(finalizers[f]) : z \in M
             /\ Pointed({referred[f]}) \subseteq M
    BY <1>7, <2>2, MarkedIs DEF IInv
  <2> HIDE DEF M
  <2>4. KeptForFinalizer /\ InTable \cup Queued \subseteq alive
    BY DEF IInv, KeptOK
  <2>5. InTable' \cup Queued' \subseteq alive'
    BY <1>5, <1>6, <2>1, <2>3, <2>4, QueuedIsClosed DEF IInv
  <2>6. Pointed(held) \subseteq alive'
    BY <2>1, <2>3, <2>4 DEF KeptForFinalizer, HeldReach
  <2>7. ASSUME NEW z \in Finalizers, Pending(z)
        PROVE  {z} \cup Pointed({finalizer[z].referred}) \subseteq alive'
    <3>1. PICK f \in InTable \cup Queued : z \in ToSet(finalizers[f])
      BY <1>17, <2>7
    <3>2. f \in Finalized /\ finalizer[z].referred = referred[f]
      BY <1>5, <3>1, QueuedIsClosed DEF IInv, ListsOK
    <3>3. {z} \cup Pointed({finalizer[z].referred}) \subseteq M
      BY <2>3, <3>1, <3>2
    <3>4. {z} \cup Pointed({finalizer[z].referred}) \subseteq alive
      BY <2>4, <2>7 DEF KeptForFinalizer
    <3>. QED BY <2>1, <3>3, <3>4
  <2>8. ASSUME NEW u \in Threads
        PROVE  {loc'[u].fz, loc'[u].src, loc'[u].z} \ {Nil} \subseteq alive' /\ loc'[u].z = Nil
    BY <1>4, <1>9, <1>11, NoLocalsOK
  <2>9. KeptForFinalizer'
    BY <1>2, <2>6, <2>7, <2>8 DEF KeptForFinalizer, Pending, HeldReach, Pointed, Followed
  <2>. QED BY <2>5, <2>9 DEF KeptOK
<1>. QED BY <1>12, <1>13, <1>14, <1>15, <1>16, <1>18, <1>19 DEF IInv

-----------------------------------------------------------------------------
(* The theorems.                                                           *)

(* The finalizer package begins with nothing in the table and the queue.   *)
LEMMA InitInvariant == Init => IInv
<1> SUFFICES ASSUME Init PROVE IInv
  OBVIOUS
<1>1. Nil \notin Finalized
  BY FinalizerAssumption
<1>2. Queued = {}
  <2>1. {} \in SUBSET Finalized /\ Finalized \cap {finalized_queue} \subseteq {}
    BY <1>1 DEF Init
  <2>2. Queued \subseteq {}
    BY <2>1, FollowedIsLeast DEF Queued
  <2>. QED BY <2>2
<1>3. InTable = {}
  BY DEF Init, InTable
<1>4. TypeOK
  <2>1. << >> \in Seq(Finalizers)
    OBVIOUS
  <2>2. [f \in Finalized |-> << >>] \in [Finalized -> Seq(Finalizers)]
    BY <2>1
  <2>. QED BY <2>2, NoLocalsOK DEF Init, TypeOK, Objects
<1>5. OneCall /\ CallsOK
  BY NoLocalsOK DEF Init, OneCall, Busy, CallsOK, Fits
<1>6. TableOK
  BY <1>2 DEF Init, TableOK
<1>7. ListsOK
  BY EmptyHolds DEF Init, ListsOK
<1>8. NoneLost
  BY DEF Init, NoneLost, Pending
<1>9. KeptOK
  <2>1. HeldReach \subseteq alive
    BY PointedIsClosed DEF Init, HeldReach
  <2>2. \A t \in Threads : {loc[t].fz, loc[t].src, loc[t].z} \ {Nil} = {} /\ loc[t].z = Nil
    BY NoLocalsOK DEF Init
  <2>. QED BY <1>2, <1>3, <2>1, <2>2 DEF Init, KeptOK, KeptForFinalizer, Pending
<1>. QED BY <1>4, <1>5, <1>6, <1>7, <1>8, <1>9 DEF IInv

(* Each step of a careful client keeps the invariant. *)
LEMMA NextInvariant ==
  ASSUME CarefulClient
  PROVE  IInv /\ [Next]_vars => IInv'
<1> SUFFICES ASSUME IInv, [Next]_vars PROVE IInv'
  OBVIOUS
<1>1. ASSUME NEW p \in Referred, Drop(p) \/ Load(p) PROVE IInv'
  BY <1>1, ClientKeeps
<1>2. ASSUME NEW t \in Threads, Call(t) PROVE IInv'
  BY <1>2, CreateKeeps, RemoveAllKeeps, CopyAllKeeps, SweepSomeKeeps, CollectKeeps DEF Call
<1>3. ASSUME NEW t \in Threads, Step(t) PROVE IInv'
  BY <1>3, CreateFindKeeps, CreateLinkKeeps, RemoveTakeKeeps, CopyLockKeeps, CopyNextKeeps,
     SweepHeadKeeps, SweepPopKeeps, FuncReturnKeeps, SweepNextKeeps DEF Step
<1>4. ASSUME NEW t \in Threads, Resurrect(t) PROVE IInv'
  BY <1>4, ResurrectKeeps
<1>5. CASE UNCHANGED vars
  <2>1. /\ UNCHANGED <<alive, lists, pc, loc>> /\ held' = held
    BY <1>5 DEF vars, heap
  <2>2. /\ held \subseteq Referred /\ Pointed(held) \subseteq alive
        /\ Arguments \ {Nil} \subseteq held
    BY ArgumentsAre DEF IInv, TypeOK, KeptOK, KeptForFinalizer, HeldReach, CallsOK, Fits
  <2>. QED BY <2>1, <2>2, HeldStep
<1>. QED BY <1>1, <1>2, <1>3, <1>4, <1>5 DEF Next

(* The invariant, of every behaviour. *)
THEOREM Invariant ==
  ASSUME CarefulClient
  PROVE  Spec => []IInv
<1>1. Init => IInv
  BY InitInvariant
<1>2. IInv /\ [Next]_vars => IInv'
  BY NextInvariant
<1>. QED BY <1>1, <1>2, PTL DEF Spec

(* Every variable stays in its type: smal_finalizer_copy_all, which holds  *)
(* the list it copies, counts no more finalizers than there are.           *)
THEOREM TypeCorrect ==
  ASSUME CarefulClient
  PROVE  Spec => []TypeOK
<1>1. IInv => TypeOK
  BY DEF IInv
<1>. QED BY <1>1, Invariant, PTL

(* However creations and copies overlap collections, removals, each other  *)
(* and the running of finalizers, a finalizer neither removed nor run      *)
(* stays where one of these will find it.                                  *)
THEOREM NoFinalizerLost ==
  ASSUME CarefulClient
  PROVE  Spec => []NoneLost
<1>1. IInv => NoneLost
  BY DEF IInv
<1>. QED BY <1>1, Invariant, PTL

(* No collection takes what a finalizer not yet run will be given, or what *)
(* a call under way has in its locals.                                     *)
THEOREM FinalizersKeep ==
  ASSUME CarefulClient
  PROVE  Spec => []KeptForFinalizer
<1>1. IInv => KeptForFinalizer
  BY DEF IInv, KeptOK
<1>. QED BY <1>1, Invariant, PTL

-----------------------------------------------------------------------------
(* Deadlock: what NoDeadlock of SmalFinalizer is about.  A copy holds the  *)
(* mutex of a finalized and waits for referred_table_mutex; after_mark     *)
(* holds the latter and locks the mutexes of the finalized it queues       *)
(* (finalizer.c:279, 217).  Which calls overlap is left open here.         *)

(* after_mark finds the mutex of each finalized it queues free. *)
SweepFree ==
  \A p \in Referred :
    referred_table[p] # Nil /\ ~ Reachable(p) => ~ Locked(referred_table[p])

(* A copy is from the finalized of one object to another object, both of   *)
(* which are held; a finalized that is being linked is that of the object. *)
IsLocals(l) ==
  l = [ptr |-> l.ptr, to |-> l.to, src |-> l.src, fz |-> l.fz, z |-> l.z,
       todo |-> l.todo, n |-> l.n]

From(l, f) == f \in Finalized /\ referred[f] = l.ptr /\ l.ptr # l.to /\ l.to \in Referred

CopyFits(label, l) ==
  /\ IsLocals(l)
  /\ label = "idle" => l = NoLocals
  /\ {l.ptr, l.to} \ {Nil} \subseteq held
  /\ label \in {"create", "link", "copy_lock"} => l.ptr \in Referred
  /\ label = "copy_lock" => l.src = Nil /\ From(l, l.fz)
  /\ label = "copy" => l.src # Nil
  /\ l.src # Nil => l.ptr \in Referred /\ From(l, l.src)
  /\ label = "link" => l.fz \in Finalized /\ referred[l.fz] = Arg(l)

TableFits ==
  /\ referred_table \in [Referred -> Finalized \cup {Nil}]
  /\ referred \in [Finalized -> Referred \cup {Nil}]
  /\ \A p \in Referred : referred_table[p] # Nil => referred[referred_table[p]] = p

CopyInv ==
  /\ DOMAIN pc = Threads /\ DOMAIN loc = Threads
  /\ TableFits
  /\ \A t \in Threads : CopyFits(pc[t], loc[t])

Copying(label, l) == label = "copy_lock" \/ l.src # Nil

OneCopy ==
  \A t, u \in Threads : Copying(pc[t], loc[t]) /\ Copying(pc[u], loc[u]) => t = u

(* What a step does to its own thread, and to what others rely on. *)
Goes(t) ==
  /\ DOMAIN pc' = Threads /\ DOMAIN loc' = Threads
  /\ \A u \in Threads \ {t} : pc'[u] = pc[u] /\ loc'[u] = loc[u]
  /\ CopyFits(pc[t], loc[t])'
  /\ Copying(pc[t], loc[t])' => Copying(pc[t], loc[t]) \/ MayBegin(t, "copy_all")

TableGoes ==
  /\ TableFits'
  /\ \A f \in Finalized : referred[f] # Nil => referred'[f] = referred[f]
  /\ \A t \in Threads : {loc[t].ptr, loc[t].to} \ {Nil} \subseteq held'

(* The other threads' copies stand. *)
LEMMA CopyStep ==
  ASSUME CopyInv, NEW t \in Threads, Goes(t), TableGoes
  PROVE  /\ CopyInv'
         /\ "copy_all" \notin MayOverlap /\ OneCopy => OneCopy'
<1>1. Nil \notin Referred
  BY FinalizerAssumption
<1>2. ASSUME NEW u \in Threads \ {t} PROVE CopyFits(pc[u], loc[u])'
  <2>1. pc'[u] = pc[u] /\ loc'[u] = loc[u] /\ CopyFits(pc[u], loc[u])
    BY DEF Goes, CopyInv
  <2> DEFINE l == loc[u]
  <2>2. {l.ptr, l.to} \ {Nil} \subseteq held'
    BY DEF TableGoes
  <2>3. \A f \in Finalized : referred[f] # Nil => referred'[f] = referred[f]
    BY DEF TableGoes
  <2>4. pc[u] = "link" => Arg(l) # Nil
    BY <1>1, <2>1 DEF CopyFits, Arg, From
  <2>. QED BY <1>1, <2>1, <2>2, <2>3, <2>4 DEF CopyFits, From, Arg
<1>3. CopyInv'
  BY <1>2 DEF CopyInv, Goes, TableGoes
<1>4. ASSUME "copy_all" \notin MayOverlap, OneCopy PROVE OneCopy'
  <2>1. ASSUME NEW u \in Threads, pc[u] = "idle" PROVE ~ Copying(pc[u], loc[u])
    BY <2>1 DEF CopyInv, CopyFits, Copying, NoLocals
  <2>2. CASE Copying(pc[t], loc[t])' /\ ~ Copying(pc[t], loc[t])
    <3>1. \A u \in Threads : ~ Copying(pc[u], loc[u])
      BY <1>4, <2>1, <2>2 DEF Goes, MayBegin
    <3>2. \A u \in Threads \ {t} : ~ Copying(pc[u], loc[u])'
      BY <3>1 DEF Goes, Copying
    <3>. QED BY <3>2 DEF OneCopy
  <2>3. CASE Copying(pc[t], loc[t])' => Copying(pc[t], loc[t])
    <3>1. \A u \in Threads : Copying(pc[u], loc[u])' => Copying(pc[u], loc[u])
      BY <2>3 DEF Goes, Copying
    <3>. QED BY <1>4, <3>1, Zenon DEF OneCopy
  <2>. QED BY <2>2, <2>3
<1>. QED BY <1>3, <1>4

(* Where a thread goes. *)
LEMMA Going ==
  ASSUME CopyInv, NEW t \in Threads, NEW label, NEW l, Goto(t, label, l), CopyFits(label, l)',
         Copying(label, l) => Copying(pc[t], loc[t]) \/ MayBegin(t, "copy_all")
  PROVE  Goes(t)
<1>1. /\ pc' = [pc EXCEPT ![t] = label] /\ loc' = [loc EXCEPT ![t] = l]
      /\ DOMAIN pc = Threads /\ DOMAIN loc = Threads
  BY DEF Goto, CopyInv
<1>2. /\ DOMAIN pc' = Threads /\ DOMAIN loc' = Threads /\ pc'[t] = label /\ loc'[t] = l
      /\ \A u \in Threads \ {t} : pc'[u] = pc[u] /\ loc'[u] = loc[u]
  BY <1>1
<1>. QED BY <1>2 DEF Goes, CopyFits, Copying, Arg, From

(* It is in no call any more. *)
LEMMA GoingIdle ==
  ASSUME CopyInv, NEW t \in Threads, Return(t)
  PROVE  Goes(t)
<1>1. CopyFits("idle", NoLocals)' /\ ~ Copying("idle", NoLocals)
  BY DEF CopyFits, IsLocals, NoLocals, Copying
<1>. QED BY <1>1, Going DEF Return

(* A step that leaves the table alone, or takes entries out of it. *)
LEMMA TableSame ==
  ASSUME CopyInv, referred' = referred,
         \/ referred_table' = referred_table
         \/ \E R \in SUBSET Referred :
              referred_table' = [p \in Referred |-> IF p \in R THEN Nil ELSE referred_table[p]],
         \/ held \subseteq held'
         \/ \E p : p \notin Arguments /\ held' = held \ {p}
  PROVE  TableGoes
<1>1. TableFits'
  BY DEF CopyInv, TableFits
<1>2. ASSUME NEW t \in Threads PROVE {loc[t].ptr, loc[t].to} \ {Nil} \subseteq held'
  <2>1. {loc[t].ptr, loc[t].to} \ {Nil} \subseteq held
    BY DEF CopyInv, CopyFits
  <2>2. {loc[t].ptr, loc[t].to} \subseteq Arguments
    BY DEF Arguments
  <2>. QED BY <2>1, <2>2
<1>. QED BY <1>1, <1>2 DEF TableGoes

(* Calls that begin. *)
LEMMA CopyCalls ==
  ASSUME CopyInv, NEW t \in Threads, Call(t)
  PROVE  Goes(t) /\ TableGoes
<1>0. Nil \notin Referred /\ Nil \notin Finalized
  BY FinalizerAssumption
<1>1. ASSUME NEW p \in Referred, Create(t, p) PROVE Goes(t) /\ TableGoes
  <2>1. PICK l : l = [NoLocals EXCEPT !.ptr = p]
    OBVIOUS
  <2>2. Goto(t, "create", l) /\ UNCHANGED <<heap, lists>> /\ p \in held
    BY <1>1, <2>1 DEF Create
  <2>3. l = [ptr |-> p, to |-> Nil, src |-> Nil, fz |-> Nil, z |-> Nil, todo |-> 0, n |-> 0]
    BY <2>1 DEF NoLocals
  <2>4. CopyFits("create", l)' /\ ~ Copying("create", l)
    BY <2>2, <2>3 DEF CopyFits, IsLocals, Copying, heap
  <2>. QED BY <2>2, <2>4, Going, TableSame DEF heap, lists
<1>2. ASSUME NEW p \in Referred, RemoveAll(t, p) PROVE Goes(t) /\ TableGoes
  <2>1. PICK l : l = [NoLocals EXCEPT !.ptr = p, !.fz = referred_table[p]]
    OBVIOUS
  <2>2. /\ Goto(t, "take", l) /\ p \in held /\ held' = held /\ referred' = referred
        /\ referred_table' = [referred_table EXCEPT ![p] = Nil]
    BY <1>2, <2>1 DEF RemoveAll, heap
  <2>3. l = [ptr |-> p, to |-> Nil, src |-> Nil, fz |-> referred_table[p], z |-> Nil,
             todo |-> 0, n |-> 0]
    BY <2>1 DEF NoLocals
  <2>4. CopyFits("take", l)' /\ ~ Copying("take", l)
    BY <2>2, <2>3 DEF CopyFits, IsLocals, Copying
  <2>5. referred_table' = [q \in Referred |-> IF q \in {p} THEN Nil ELSE referred_table[q]]
    BY <2>2 DEF CopyInv, TableFits
  <2>6. \E R \in SUBSET Referred :
          referred_table' = [q \in Referred |-> IF q \in R THEN Nil ELSE referred_table[q]]
    BY <2>5
  <2>. QED BY <2>2, <2>4, <2>6, Going, TableSame
<1>3. ASSUME NEW p \in Referred, NEW q \in Referred, CopyAll(t, p, q)
      PROVE  Goes(t) /\ TableGoes
  <2>1. PICK l : l = [NoLocals EXCEPT !.ptr = p, !.to = q, !.fz = referred_table[p]]
    OBVIOUS
  <2>2. /\ Goto(t, "copy_lock", l) /\ {p, q} \subseteq held /\ p # q
        /\ UNCHANGED <<heap, lists>> /\ MayBegin(t, "copy_all") /\ referred_table[p] # Nil
    BY <1>3, <2>1 DEF CopyAll
  <2>3. l = [ptr |-> p, to |-> q, src |-> Nil, fz |-> referred_table[p], z |-> Nil,
             todo |-> 0, n |-> 0]
    BY <2>1 DEF NoLocals
  <2>4. referred_table[p] \in Finalized /\ referred[referred_table[p]] = p
    BY <2>2 DEF CopyInv, TableFits
  <2>5. CopyFits("copy_lock", l)'
    BY <2>2, <2>3, <2>4 DEF CopyFits, IsLocals, From, heap, lists
  <2>. QED BY <2>2, <2>5, Going, TableSame DEF heap, lists
<1>4. ASSUME NEW n \in {0, 1}, SweepSome(t, n) PROVE Goes(t) /\ TableGoes
  <2>1. PICK l : l = [NoLocals EXCEPT !.n = n]
    OBVIOUS
  <2>2. Goto(t, "sweep", l) /\ UNCHANGED <<heap, lists>>
    BY <1>4, <2>1 DEF SweepSome
  <2>3. l = [ptr |-> Nil, to |-> Nil, src |-> Nil, fz |-> Nil, z |-> Nil, todo |-> 0, n |-> n]
    BY <2>1 DEF NoLocals
  <2>4. CopyFits("sweep", l)' /\ ~ Copying("sweep", l)
    BY <2>2, <2>3 DEF CopyFits, IsLocals, Copying
  <2>. QED BY <2>2, <2>4, Going, TableSame DEF heap, lists
<1>5. ASSUME Collect(t) PROVE Goes(t) /\ TableGoes
  <2>1. PICK l : l = [NoLocals EXCEPT !.n = SweepAmount]
    OBVIOUS
  <2>2. /\ Goto(t, "sweep", l) /\ held' = held /\ referred' = referred
        /\ \E R \in SUBSET Referred :
             referred_table' = [p \in Referred |-> IF p \in R THEN Nil ELSE referred_table[p]]
    BY <1>5, <2>1, Zenon DEF Collect
  <2>3. l = [ptr |-> Nil, to |-> Nil, src |-> Nil, fz |-> Nil, z |-> Nil, todo |-> 0,
             n |-> SweepAmount]
    BY <2>1 DEF NoLocals
  <2>4. CopyFits("sweep", l)' /\ ~ Copying("sweep", l)
    BY <2>2, <2>3 DEF CopyFits, IsLocals, Copying
  <2>. QED BY <2>2, <2>4, Going, TableSame
<1>. QED BY <1>1, <1>2, <1>3, <1>4, <1>5 DEF Call

(* smal_finalizer_create finds or adds the finalized of its object. *)
LEMMA CopyCreateFind ==
  ASSUME CopyInv, NEW t \in Threads, CreateFind(t)
  PROVE  Goes(t) /\ TableGoes
<1> DEFINE p == CreateArg(t)
<1>0. /\ Nil \notin Referred /\ Nil \notin Finalized
      /\ p = Arg(loc[t]) /\ pc[t] = "create" /\ IsLocals(loc[t]) /\ CopyFits(pc[t], loc[t])
  BY FinalizerAssumption DEF CreateArg, Arg, CreateFind, CopyInv, CopyFits
<1>1. p \in Referred
  BY <1>0 DEF CopyFits, Arg, From
<1>2. ASSUME NEW f \in Finalized, Goto(t, "link", [loc[t] EXCEPT !.fz = f]), held' = held,
             referred'[f] = p,
             \A g \in Finalized : referred[g] # Nil => referred'[g] = referred[g]
      PROVE  Goes(t)
  <2>1. PICK l : l = [loc[t] EXCEPT !.fz = f]
    OBVIOUS
  <2>2. /\ IsLocals(l) /\ l.ptr = loc[t].ptr /\ l.to = loc[t].to /\ l.src = loc[t].src
        /\ l.fz = f
    BY <1>0, <2>1 DEF IsLocals
  <2>3. Arg(l) = p /\ Goto(t, "link", l)
    BY <1>0, <1>2, <2>1, <2>2 DEF Arg
  <2>4. CopyFits("link", l)'
    BY <1>0, <1>1, <1>2, <2>2, <2>3 DEF CopyFits, From, Arg
  <2>5. Copying("link", l) => Copying(pc[t], loc[t])
    BY <2>2 DEF Copying
  <2>. QED BY <2>3, <2>4, <2>5, Going
<1>3. CASE referred_table[p] # Nil /\ UNCHANGED <<heap, lists>>
           /\ Goto(t, "link", [loc[t] EXCEPT !.fz = referred_table[p]])
  <2>1. referred_table[p] \in Finalized /\ referred[referred_table[p]] = p
    BY <1>1, <1>3 DEF CopyInv, TableFits
  <2>. QED BY <1>2, <1>3, <2>1, TableSame DEF heap, lists
<1>4. ASSUME NEW f \in FreshFinalized, referred_table[p] = Nil,
             referred' = [referred EXCEPT ![f] = p],
             referred_table' = [referred_table EXCEPT ![p] = f],
             Goto(t, "link", [loc[t] EXCEPT !.fz = f]), held' = held
      PROVE  Goes(t) /\ TableGoes
  <2>1. f \in Finalized /\ referred[f] = Nil
    BY DEF FreshFinalized
  <2>2. referred'[f] = p /\ \A g \in Finalized : referred[g] # Nil => referred'[g] = referred[g]
    BY <1>4, <2>1 DEF CopyInv, TableFits
  <2>3. TableFits'
    BY <1>0, <1>1, <1>4, <2>1, <2>2 DEF CopyInv, TableFits
  <2>4. \A u \in Threads : {loc[u].ptr, loc[u].to} \ {Nil} \subseteq held'
    BY <1>4 DEF CopyInv, CopyFits
  <2>. QED BY <1>2, <1>4, <2>1, <2>2, <2>3, <2>4 DEF TableGoes
<1>5. CASE Return(t) /\ UNCHANGED <<heap, lists>>
  BY <1>5, GoingIdle, TableSame DEF heap, lists
<1>6. CASE /\ referred_table[p] = Nil /\ FreshFinalized # {}
           /\ LET f == CHOOSE f \in FreshFinalized : TRUE IN
              /\ alive' = alive \cup {f}
              /\ referred' = [referred EXCEPT ![f] = p]
              /\ referred_table' = [referred_table EXCEPT ![p] = f]
              /\ Goto(t, "link", [loc[t] EXCEPT !.fz = f])
           /\ UNCHANGED <<held, finalizers, next, finalized_queue, finalizer>>
  <2>1. (CHOOSE f \in FreshFinalized : TRUE) \in FreshFinalized
    BY <1>6
  <2>. QED BY <1>4, <1>6, <2>1
<1>. QED BY <1>3, <1>5, <1>6 DEF CreateFind

(* The steps that go on with a call. *)
LEMMA CopySteps ==
  ASSUME CopyInv, NEW t \in Threads, Step(t)
  PROVE  Goes(t) /\ TableGoes
<1>0. CopyFits(pc[t], loc[t]) /\ IsLocals(loc[t])
  BY DEF CopyInv, CopyFits
<1>1. ASSUME NEW label \in {"copy", "sweep", "pop", "func", "create"}, NEW l,
             Goto(t, label, l), IsLocals(l), held' = held, referred' = referred,
             l.ptr = loc[t].ptr, l.to = loc[t].to, l.src = loc[t].src,
             label \in {"create", "copy"} => l.src # Nil
      PROVE  Goes(t)
  <2>1. CopyFits(label, l)'
    BY <1>0, <1>1 DEF CopyFits, From
  <2>2. Copying(label, l) => Copying(pc[t], loc[t])
    BY <1>1 DEF Copying
  <2>. QED BY <1>1, <2>1, <2>2, Going
<1>2. CASE CreateFind(t)
  BY <1>2, CopyCreateFind
<1>3. CASE ~ CreateFind(t)
  <2>1. UNCHANGED <<held, referred_table, referred>>
    BY <1>3 DEF Step, CreateLink, RemoveTake, CopyLock, CopyNext, SweepHead, SweepPop,
                FuncReturn, SweepNext, heap, lists
  <2>2. TableGoes
    BY <2>1, TableSame
  <2>3. CASE Return(t)
    BY <2>2, <2>3, GoingIdle
  <2>4. ASSUME NEW f, Goto(t, "pop", [loc[t] EXCEPT !.fz = f]) PROVE Goes(t)
    <3>1. PICK l : l = [loc[t] EXCEPT !.fz = f]
      OBVIOUS
    <3>2. IsLocals(l) /\ l.ptr = loc[t].ptr /\ l.to = loc[t].to /\ l.src = loc[t].src
      BY <1>0, <3>1 DEF IsLocals
    <3>. QED BY <1>1, <2>1, <2>4, <3>1, <3>2
  <2>5. CASE CreateLink(t) /\ ~ Return(t)
    <3>1. PICK l : l = [loc[t] EXCEPT !.fz = Nil, !.todo = @ - 1]
      OBVIOUS
    <3>2. Goto(t, "copy", l) /\ loc[t].src # Nil
      BY <2>5, <3>1 DEF CreateLink, CreateReturn
    <3>3. IsLocals(l) /\ l.ptr = loc[t].ptr /\ l.to = loc[t].to /\ l.src = loc[t].src
      BY <1>0, <3>1 DEF IsLocals
    <3>4. Goes(t)
      BY <1>1, <2>1, <3>2, <3>3
    <3>. QED BY <2>2, <3>4
  <2>6. CASE CopyLock(t)
    <3>1. PICK l : l = [loc[t] EXCEPT !.src = loc[t].fz, !.fz = Nil,
                                      !.todo = Len(finalizers[loc[t].fz])]
      OBVIOUS
    <3>2. Goto(t, "copy", l) /\ pc[t] = "copy_lock"
      BY <2>6, <3>1 DEF CopyLock
    <3>3. IsLocals(l) /\ l.ptr = loc[t].ptr /\ l.to = loc[t].to /\ l.src = loc[t].fz
      BY <1>0, <3>1 DEF IsLocals
    <3>4. CopyFits("copy", l)'
      BY <1>0, <2>1, <3>2, <3>3, FinalizerAssumption DEF CopyFits, From
    <3>5. Copying(pc[t], loc[t])
      BY <3>2 DEF Copying
    <3>. QED BY <2>2, <3>2, <3>4, <3>5, Going
  <2>7. CASE CopyNext(t) /\ ~ Return(t)
    <3>1. PICK l : l = loc[t]
      OBVIOUS
    <3>2. Goto(t, "create", l) /\ pc[t] = "copy"
      BY <2>7, <3>1 DEF CopyNext
    <3>3. loc[t].src # Nil
      BY <1>0, <3>2 DEF CopyFits
    <3>4. Goes(t)
      BY <1>0, <1>1, <2>1, <3>1, <3>2, <3>3
    <3>. QED BY <2>2, <3>4
  <2>8. CASE SweepHead(t) \/ SweepNext(t)
    <3>1. Return(t) \/ \E f : Goto(t, "pop", [loc[t] EXCEPT !.fz = f])
      BY <2>8 DEF SweepHead, SweepNext, SweepLoop
    <3>. QED BY <2>2, <2>3, <2>4, <3>1
  <2>9. CASE SweepPop(t)
    <3>1. PICK l : l = [loc[t] EXCEPT !.z = Head(finalizers[loc[t].fz])]
      OBVIOUS
    <3>2. Goto(t, "func", l)
      BY <2>9, <3>1 DEF SweepPop
    <3>3. IsLocals(l) /\ l.ptr = loc[t].ptr /\ l.to = loc[t].to /\ l.src = loc[t].src
      BY <1>0, <3>1 DEF IsLocals
    <3>4. Goes(t)
      BY <1>1, <2>1, <3>2, <3>3
    <3>. QED BY <2>2, <3>4
  <2>10. CASE FuncReturn(t) /\ ~ Return(t)
    <3>1. PICK l : l = [loc[t] EXCEPT !.z = Nil]
      OBVIOUS
    <3>2. Goto(t, "pop", l)
      BY <2>10, <3>1 DEF FuncReturn
    <3>3. IsLocals(l) /\ l.ptr = loc[t].ptr /\ l.to = loc[t].to /\ l.src = loc[t].src
      BY <1>0, <3>1 DEF IsLocals
    <3>4. Goes(t)
      BY <1>1, <2>1, <3>2, <3>3
    <3>. QED BY <2>2, <3>4
  <2>11. CASE RemoveTake(t)
    BY <2>3, <2>11 DEF RemoveTake
  <2>. QED BY <1>3, <2>3, <2>2, <2>5, <2>6, <2>7, <2>8, <2>9, <2>10, <2>11 DEF Step
<1>. QED BY <1>2, <1>3

(* Every step, of whatever calls overlap. *)
LEMMA CopyNextStep ==
  ASSUME CopyInv, [Next]_vars
  PROVE  /\ CopyInv'
         /\ "copy_all" \notin MayOverlap /\ OneCopy => OneCopy'
<1>1. ASSUME UNCHANGED <<pc, loc>>, TableGoes
      PROVE  CopyInv' /\ (OneCopy => OneCopy')
  <2>1. \A f \in Finalized : referred[f] # Nil => referred'[f] = referred[f]
    BY <1>1 DEF TableGoes
  <2>2. ASSUME NEW u \in Threads PROVE CopyFits(pc[u], loc[u])'
    <3>1. CopyFits(pc[u], loc[u]) /\ pc'[u] = pc[u] /\ loc'[u] = loc[u]
      BY <1>1 DEF CopyInv
    <3>2. {loc[u].ptr, loc[u].to} \ {Nil} \subseteq held'
      BY <1>1 DEF TableGoes
    <3>3. pc[u] = "link" => Arg(loc[u]) # Nil
      BY <3>1, FinalizerAssumption DEF CopyFits, Arg, From
    <3>. QED BY <2>1, <3>1, <3>2, <3>3, FinalizerAssumption DEF CopyFits, From, Arg
  <2>3. CopyInv'
    BY <1>1, <2>2 DEF CopyInv, TableGoes
  <2>. QED BY <1>1, <2>3 DEF OneCopy, Copying
<1>2. CASE \E p \in Referred : Drop(p) \/ Load(p)
  <2>1. UNCHANGED <<pc, loc>>
    BY <1>2 DEF Drop, Load
  <2>2. TableGoes
    BY <1>2, TableSame DEF Drop, Load, lists
  <2>. QED BY <1>1, <2>1, <2>2
<1>3. CASE \E t \in Threads : Call(t) \/ Step(t)
  BY <1>3, CopyCalls, CopySteps, CopyStep
<1>4. CASE \E t \in Threads : Resurrect(t)
  <2>1. UNCHANGED <<pc, loc>>
    BY <1>4 DEF Resurrect
  <2>2. TableGoes
    BY <1>4, TableSame DEF Resurrect, lists
  <2>. QED BY <1>1, <2>1, <2>2
<1>5. CASE UNCHANGED vars
  <2>1. UNCHANGED <<pc, loc>>
    BY <1>5 DEF vars
  <2>2. TableGoes
    BY <1>5, TableSame DEF vars, heap, lists
  <2>. QED BY <1>1, <2>1, <2>2
<1>. QED BY <1>2, <1>3, <1>4, <1>5 DEF Next

(* No thread copies at the start. *)
LEMMA CopyInit == Init => CopyInv /\ OneCopy
<1> SUFFICES ASSUME Init PROVE CopyInv /\ OneCopy
  OBVIOUS
<1>1. TableFits /\ DOMAIN pc = Threads /\ DOMAIN loc = Threads
  BY DEF Init, TableFits
<1>2. \A t \in Threads : pc[t] = "idle" /\ loc[t] = NoLocals
  BY DEF Init
<1>3. CopyFits("idle", NoLocals) /\ ~ Copying("idle", NoLocals)
  BY DEF CopyFits, IsLocals, NoLocals, Copying
<1>. QED BY <1>1, <1>2, <1>3 DEF CopyInv, OneCopy

(* Whatever calls overlap, also two copies: no copy holds the mutex of a   *)
(* finalized that after_mark queues, because a copy is from an object its  *)
(* caller holds.  So a collection never waits for a copy which waits for   *)
(* the table's mutex.                                                      *)
THEOREM SweepFindsMutexFree == Spec => []SweepFree
<1>1. Init => CopyInv
  BY CopyInit
<1>2. CopyInv /\ [Next]_vars => CopyInv'
  BY CopyNextStep
<1>3. CopyInv => SweepFree
  <2> SUFFICES ASSUME CopyInv, NEW p \in Referred, referred_table[p] # Nil,
                      NEW t \in Threads, loc[t].src = referred_table[p]
               PROVE  Reachable(p)
    BY DEF SweepFree, Locked
  <2>1. referred[loc[t].src] = p /\ loc[t].src # Nil
    BY DEF CopyInv, TableFits
  <2>2. loc[t].ptr = p /\ p \in held
    BY <2>1, FinalizerAssumption DEF CopyInv, CopyFits, From
  <2>. QED BY <2>2, PointedIsClosed DEF Reachable
<1>. QED BY <1>1, <1>2, <1>3, PTL DEF Spec

(* If smal_finalizer_copy_all is not begun while another call is under     *)
(* way, no calls wait for each other in a circle and the copy never for    *)
(* its own mutex, whatever overlaps it then: creations, removals, sweeps   *)
(* of the queue and collections.  Two copies in opposite directions at a   *)
(* time do wait for each other (README, section 4).                        *)
THEOREM DeadlockFree ==
  ASSUME "copy_all" \notin MayOverlap
  PROVE  Spec => []NoDeadlock
<1>1. Init => CopyInv /\ OneCopy
  BY CopyInit
<1>2. CopyInv /\ OneCopy /\ [Next]_vars => CopyInv' /\ OneCopy'
  BY CopyNextStep
<1>3. CopyInv /\ OneCopy => NoDeadlock
  <2> SUFFICES ASSUME CopyInv, OneCopy, NEW S \in SUBSET Threads, S # {},
                      \A t \in S : \E u \in S : WaitsFor(t, u)
               PROVE  FALSE
    BY DEF NoDeadlock
  <2>1. ASSUME NEW t \in Threads, NEW u \in Threads, WaitsFor(t, u), NEW w \in Threads, WaitsFor(u, w)
        PROVE  FALSE
    <3>1. CopyFits(pc[t], loc[t]) /\ CopyFits(pc[u], loc[u]) /\ CopyFits(pc[w], loc[w])
      BY DEF CopyInv
    <3>2. /\ pc[u] = "link" /\ loc[u].src = loc[t].fz
          /\ loc[w].src = loc[u].fz /\ pc[w] \in {"copy", "create", "link"}
      BY <2>1 DEF WaitsFor, Holds
    <3>3. loc[u].fz \in Finalized /\ loc[w].src # Nil
      BY <3>1, <3>2, FinalizerAssumption DEF CopyFits
    <3>4. loc[u].src # Nil
      BY <2>1, FinalizerAssumption DEF WaitsFor, Holds
    <3>5. u = w
      BY <3>3, <3>4 DEF OneCopy, Copying
    <3>. QED BY <3>1, <3>2, <3>4, <3>5 DEF CopyFits, From, Arg
  <2>. QED BY <2>1
<1>. QED BY <1>1, <1>2, <1>3, PTL DEF Spec

=============================================================================
