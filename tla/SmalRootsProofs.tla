--------------------------- MODULE SmalRootsProofs ---------------------------
(***************************************************************************)
(* The roots are right for any threads, entries, callbacks and frames.     *)
(*                                                                         *)
(* First the macros of dllist.h keep rings, then what a walk of a list has *)
(* still ahead of it.  Then the invariant of SmalRoots, part by part, for  *)
(* a program whose first call is alone: GlobalIsExact.  Last what a walk   *)
(* has still to mark, for a program that removes no global roots and ends  *)
(* no frame while it goes on: RootsAreMarked and UsesAreSafe.              *)
(***************************************************************************)
EXTENDS SmalRoots, SequenceTheorems, TLAPS

-----------------------------------------------------------------------------
(* After each macro of dllist.h every link of the nodes that are in a ring *)
(* still has its inverse.                                                  *)

(* What the macros need to know of a node of a ring. *)
LEMMA LinkedNode ==
  ASSUME NEW L, NEW S, Linked(L, S), NEW x \in S
  PROVE  /\ L.next[x] \in S /\ L.prev[x] \in S
         /\ L.prev[L.next[x]] = x /\ L.next[L.prev[x]] = x
BY DEF Linked

(* smal_dllist_init makes a ring of one node and touches no other. *)
THEOREM InitLinked ==
  ASSUME NEW N, NEW null, NEW L \in Links(N, null),
         NEW S \in SUBSET N, NEW x \in N \ S, Linked(L, S)
  PROVE  Linked(InitNode(L, x), S) /\ Linked(InitNode(L, x), {x})
BY DEF Linked, InitNode, Links

(* smal_dllist_insert: a node that is in no ring joins the ring of h. *)
THEOREM InsertLinked ==
  ASSUME NEW N, NEW null, NEW L \in Links(N, null),
         NEW S \in SUBSET N, NEW h \in S, NEW x \in N \ S, Linked(L, S)
  PROVE  Linked(Insert(L, h, x), S \cup {x})
<1> DEFINE M  == Insert(L, h, x)
           hn == L.next[h]
<1>1. hn \in S /\ hn # x /\ h # x
  BY LinkedNode
<1>2. \A y \in N : M.next[y] = IF y = h THEN x ELSE IF y = x THEN hn ELSE L.next[y]
  BY <1>1 DEF Insert, Links
<1>3. \A y \in N : M.prev[y] = IF y = hn THEN x ELSE IF y = x THEN h ELSE L.prev[y]
  BY <1>1 DEF Insert, Links
<1>4. SUFFICES ASSUME NEW y \in S \cup {x}
               PROVE  /\ M.next[y] \in S \cup {x} /\ M.prev[y] \in S \cup {x}
                      /\ M.prev[M.next[y]] = y
                      /\ M.next[M.prev[y]] = y
  BY DEF Linked
<1>5. CASE y = x
  BY <1>1, <1>2, <1>3, <1>5
<1>6. CASE y # x
  <2>1. /\ L.next[y] \in S /\ L.prev[y] \in S
        /\ L.prev[L.next[y]] = y /\ L.next[L.prev[y]] = y
    BY <1>6, LinkedNode
  <2>2. L.prev[hn] = h
    BY LinkedNode
  <2>. QED BY <1>1, <1>2, <1>3, <1>6, <2>1, <2>2
<1>. QED BY <1>5, <1>6

(* smal_dllist_delete: the others stay linked, without x. *)
THEOREM DeleteLinked ==
  ASSUME NEW N, NEW null, NEW L \in Links(N, null),
         NEW S \in SUBSET N, NEW x \in S, Linked(L, S)
  PROVE  Linked(Delete(L, x), S \ {x})
<1> DEFINE M  == Delete(L, x)
           xn == L.next[x]
           xp == L.prev[x]
<1>1. xn \in S /\ xp \in S /\ L.prev[xn] = x /\ L.next[xp] = x
  BY LinkedNode
<1>2. \A y \in N : M.next[y] = IF y = xp THEN xn ELSE L.next[y]
  BY <1>1 DEF Delete, Links
<1>3. \A y \in N : M.prev[y] = IF y = xn THEN xp ELSE L.prev[y]
  BY <1>1 DEF Delete, Links
<1>4. SUFFICES ASSUME NEW y \in S \ {x}
               PROVE  /\ M.next[y] \in S \ {x} /\ M.prev[y] \in S \ {x}
                      /\ M.prev[M.next[y]] = y
                      /\ M.next[M.prev[y]] = y
  BY DEF Linked
<1>5. /\ L.next[y] \in S /\ L.prev[y] \in S
      /\ L.prev[L.next[y]] = y /\ L.next[L.prev[y]] = y
  BY LinkedNode
<1>6. y = xp \/ L.next[y] # x
  BY <1>5
<1>7. y = xn \/ L.prev[y] # x
  BY <1>5
<1>8. (xn # x /\ xp # x) \/ y \notin {xn, xp}
  BY <1>1
<1>. QED BY <1>1, <1>2, <1>3, <1>5, <1>6, <1>7, <1>8

(* smal_dllist_append: the nodes of ring B join ring A, and b is left      *)
(* alone.  This is how buffers move between buffer_list and                *)
(* buffer_collecting.                                                      *)
THEOREM AppendLinked ==
  ASSUME NEW N, NEW null, NEW L \in Links(N, null),
         NEW A \in SUBSET N, NEW B \in SUBSET N, A \cap B = {},
         NEW a \in A, NEW b \in B, Linked(L, A), Linked(L, B)
  PROVE  /\ Linked(AppendRing(L, a, b), (A \cup B) \ {b})
         /\ Linked(AppendRing(L, a, b), {b})
<1> DEFINE M  == AppendRing(L, a, b)
           bn == L.next[b]
           bp == L.prev[b]
           ap == L.prev[a]
<1>1. /\ bn \in B /\ bp \in B /\ L.prev[bn] = b /\ L.next[bp] = b
      /\ ap \in A /\ L.next[ap] = a
  BY LinkedNode
<1>2. \A y \in A \cup B : /\ L.next[y] \in A \cup B /\ L.prev[y] \in A \cup B
                         /\ L.prev[L.next[y]] = y /\ L.next[L.prev[y]] = y
  BY LinkedNode
<1>3. CASE bn = b
  <2>1. M = L
    BY <1>3 DEF AppendRing
  <2>2. bp = b
    BY <1>1, <1>3
  <2>3. ASSUME NEW y \in (A \cup B) \ {b}
        PROVE  L.next[y] # b /\ L.prev[y] # b
    <3>1. L.prev[L.next[y]] = y /\ L.next[L.prev[y]] = y
      BY <1>2
    <3>. QED BY <1>3, <2>2, <3>1
  <2>. QED BY <1>2, <1>3, <2>1, <2>2, <2>3 DEF Linked
<1>4. CASE bn # b
  <2>1. bp # b
    BY <1>1, <1>4
  <2>2. \A y \in N : M.next[y] = IF y = b THEN b ELSE IF y = bp THEN a
                                     ELSE IF y = ap THEN bn ELSE L.next[y]
    BY <1>1, <1>4 DEF AppendRing, Links
  <2>3. \A y \in N : M.prev[y] = IF y = b THEN b ELSE IF y = bn THEN ap
                                     ELSE IF y = a THEN bp ELSE L.prev[y]
    BY <1>1, <1>4 DEF AppendRing, Links
  <2>4. Linked(M, {b})
    BY <2>2, <2>3 DEF Linked
  <2>5. ASSUME NEW y \in (A \cup B) \ {b}
        PROVE  /\ M.next[y] \in (A \cup B) \ {b} /\ M.prev[y] \in (A \cup B) \ {b}
               /\ M.prev[M.next[y]] = y
               /\ M.next[M.prev[y]] = y
    <3>1. /\ L.next[y] \in A \cup B /\ L.prev[y] \in A \cup B
          /\ L.prev[L.next[y]] = y /\ L.next[L.prev[y]] = y
      BY <1>2
    <3>2. a # b /\ a # bn /\ a # bp /\ ap # b /\ ap # bn /\ ap # bp
      BY <1>1
    <3>3. CASE y = bp
      <4>1. M.next[y] = a /\ M.prev[a] = y
        BY <1>1, <2>1, <2>2, <2>3, <3>2, <3>3
      <4>2. CASE y = bn
        BY <1>1, <2>1, <2>2, <2>3, <3>2, <3>3, <4>1, <4>2
      <4>3. CASE y # bn
        <5>1. M.prev[y] = L.prev[y]
          BY <1>1, <2>1, <2>3, <3>2, <3>3, <4>3
        <5>2. L.prev[y] # b /\ L.prev[y] # bp /\ L.prev[y] # ap
          BY <1>1, <3>1, <3>2, <3>3, <4>3
        <5>. QED BY <1>1, <2>2, <3>1, <4>1, <5>1, <5>2
      <4>. QED BY <4>2, <4>3
    <3>4. CASE y # bp
      <4>1. CASE y = ap
        BY <1>1, <2>1, <2>2, <2>3, <3>1, <3>2, <3>4, <4>1
      <4>2. CASE y # ap
        BY <1>1, <2>1, <2>2, <2>3, <3>1, <3>2, <3>4, <4>2
      <4>. QED BY <4>1, <4>2
    <3>. QED BY <3>3, <3>4
  <2>. QED BY <2>4, <2>5 DEF Linked
<1>. QED BY <1>3, <1>4

-----------------------------------------------------------------------------
(* Walks.  NodesFrom(nx, e, end) is what a walk at e has still to visit.   *)

(* It is the least set with e that is closed under nx. *)
LEMMA LeastNodes ==
  ASSUME NEW nx, NEW e, NEW end, NEW S \in SUBSET DOMAIN nx,
         e # end => e \in S, \A y \in S : nx[y] # end => nx[y] \in S
  PROVE  NodesFrom(nx, e, end) \subseteq S
BY DEF NodesFrom

(* It holds e, and with a node the next one. *)
LEMMA NodesClosed ==
  ASSUME NEW nx, NEW e, NEW end
  PROVE  /\ NodesFrom(nx, e, end) \subseteq DOMAIN nx
         /\ e \in DOMAIN nx /\ e # end => e \in NodesFrom(nx, e, end)
         /\ \A y \in NodesFrom(nx, e, end) :
              nx[y] \in DOMAIN nx /\ nx[y] # end => nx[y] \in NodesFrom(nx, e, end)
BY DEF NodesFrom

(* A walk that goes on has visited one node; at the end none is left. *)
LEMMA WalkGoesOn ==
  ASSUME NEW nx, NEW end, NEW e \in DOMAIN nx
  PROVE  NodesFrom(nx, e, end) \subseteq {e} \cup NodesFrom(nx, nx[e], end)
<1> SUFFICES ASSUME NEW x \in NodesFrom(nx, e, end), x # e,
                    NEW S \in SUBSET DOMAIN nx, nx[e] # end => nx[e] \in S,
                    \A y \in S : nx[y] # end => nx[y] \in S
             PROVE  x \in S
  BY DEF NodesFrom
<1> DEFINE U == S \cup {e}
<1>1. U \in SUBSET DOMAIN nx /\ e \in U /\ \A y \in U : nx[y] # end => nx[y] \in U
  OBVIOUS
<1>2. x \in U => x \in S
  OBVIOUS
<1> HIDE DEF U
<1>3. NodesFrom(nx, e, end) \subseteq U
  BY <1>1, LeastNodes
<1> QED  BY <1>2, <1>3

(* At the end nothing is left. *)
LEMMA WalkEnds == ASSUME NEW nx, NEW end PROVE NodesFrom(nx, end, end) = {}
<1> DEFINE U == {}
<1>1. U \in SUBSET DOMAIN nx /\ \A y \in U : nx[y] # end => nx[y] \in U
  OBVIOUS
<1>2. \A V : V \subseteq U => V = {}
  OBVIOUS
<1> HIDE DEF U
<1>3. NodesFrom(nx, end, end) \subseteq U
  BY <1>1, LeastNodes
<1> QED  BY <1>2, <1>3

(* A ring: linked, and a walk from its head h meets all of S.              *)
IsRing(L, h, S) ==
  /\ Linked(L, S \cup {h})
  /\ S \subseteq NodesFrom(L.next, L.next[h], h)

(* The links of the nodes of S are the same. *)
Same(L, M, S) == \A y \in S : M.next[y] = L.next[y] /\ M.prev[y] = L.prev[y]

(* A walk meets nothing else, and stays in the ring.                       *)
LEMMA RingWalk ==
  ASSUME NEW L \in Links(Nodes, Nil), NEW h \in Nodes, NEW S \in SUBSET Nodes, IsRing(L, h, S),
         h \notin S, NEW e \in S \cup {h}
  PROVE  /\ NodesFrom(L.next, e, h) \subseteq S
         /\ L.next[e] \in S \cup {h}
         /\ NodesFrom(L.next, L.next[h], h) = S
<1>1. DOMAIN L.next = Nodes /\ \A y \in S \cup {h} : L.next[y] \in S \cup {h}
  BY DEF Links, IsRing, Linked
<1>2. NodesFrom(L.next, e, h) \subseteq S
  BY <1>1, LeastNodes
<1>3. NodesFrom(L.next, L.next[h], h) \subseteq S
  BY <1>1, LeastNodes
<1> QED  BY <1>1, <1>2, <1>3 DEF IsRing

(* What happens to other nodes is nothing to a ring or a walk of it.       *)
LEMMA RingStays ==
  ASSUME NEW L \in Links(Nodes, Nil), NEW M \in Links(Nodes, Nil),
         NEW h \in Nodes, NEW S \in SUBSET Nodes, IsRing(L, h, S), Same(L, M, S \cup {h})
  PROVE  /\ IsRing(M, h, S)
         /\ \A e \in S \cup {h} : NodesFrom(L.next, e, h) \subseteq NodesFrom(M.next, e, h)
<1>1. DOMAIN L.next = Nodes /\ DOMAIN M.next = Nodes /\ \A y \in S \cup {h} : L.next[y] \in S \cup {h}
  BY DEF Links, IsRing, Linked
<1>2. ASSUME NEW e \in S \cup {h} PROVE NodesFrom(L.next, e, h) \subseteq NodesFrom(M.next, e, h)
  <2> SUFFICES ASSUME NEW T \in SUBSET Nodes, e # h => e \in T,
                      \A y \in T : M.next[y] # h => M.next[y] \in T
               PROVE  NodesFrom(L.next, e, h) \subseteq T
    BY <1>1 DEF NodesFrom
  <2>1. \A y \in T \cap S : L.next[y] # h => L.next[y] \in T \cap S
    BY <1>1 DEF Same
  <2> DEFINE U == T \cap S
  <2>2. U \in SUBSET DOMAIN L.next /\ (e # h => e \in U) /\ U \subseteq T
    BY <1>1, <1>2
  <2> HIDE DEF U
  <2>3. NodesFrom(L.next, e, h) \subseteq U
    BY <2>1, <2>2, LeastNodes DEF U
  <2> QED  BY <2>2, <2>3
<1>3. Linked(M, S \cup {h})
  BY <1>1 DEF IsRing, Linked, Same
<1>4. M.next[h] = L.next[h] /\ L.next[h] \in S \cup {h}
  BY <1>1 DEF Same
<1> QED  BY <1>2, <1>3, <1>4 DEF IsRing

(* smal_dllist_init: x is a ring of its own; other rings stay. *)
LEMMA InitTyped ==
  ASSUME NEW L \in Links(Nodes, Nil), NEW x \in Nodes
  PROVE  /\ InitNode(L, x) \in Links(Nodes, Nil)
         /\ Same(L, InitNode(L, x), Nodes \ {x})
         /\ IsRing(InitNode(L, x), x, {})
BY DEF Links, InitNode, Same, IsRing, Linked

(* smal_dllist_insert: x joins the ring of h; other rings stay.            *)
LEMMA InsertRing ==
  ASSUME NEW L \in Links(Nodes, Nil), NEW h \in Nodes, NEW S \in SUBSET Nodes, h \notin S,
         IsRing(L, h, S), NEW x \in Nodes \ (S \cup {h})
  PROVE  /\ Insert(L, h, x) \in Links(Nodes, Nil)
         /\ IsRing(Insert(L, h, x), h, S \cup {x})
         /\ Same(L, Insert(L, h, x), Nodes \ (S \cup {h, x}))
<1> DEFINE M  == Insert(L, h, x)
           hn == L.next[h]
<1>1. /\ DOMAIN L.next = Nodes /\ hn \in S \cup {h}
      /\ \A y \in S \cup {h} : L.next[y] \in S \cup {h}
  BY DEF Links, IsRing, Linked
<1>2. /\ M \in Links(Nodes, Nil) /\ DOMAIN M.next = Nodes
      /\ \A y \in Nodes : M.next[y] = IF y = h THEN x ELSE IF y = x THEN hn ELSE L.next[y]
  BY <1>1 DEF Links, Insert
<1>3. Same(L, M, Nodes \ (S \cup {h, x}))
  BY <1>1 DEF Same, Insert, Links
<1>4. Linked(M, (S \cup {x}) \cup {h})
  <2>1. Linked(M, (S \cup {h}) \cup {x})
    BY InsertLinked DEF IsRing
  <2>2. (S \cup {h}) \cup {x} = (S \cup {x}) \cup {h}
    OBVIOUS
  <2> QED  BY <2>1, <2>2
<1> HIDE DEF M, hn
<1>5. ASSUME NEW T \in SUBSET Nodes, x \in T, \A y \in T : M.next[y] # h => M.next[y] \in T
      PROVE  S \cup {x} \subseteq T
  <2>1. hn # h => hn \in T \cap S
    BY <1>1, <1>2, <1>5 DEF hn
  <2>2. \A y \in T \cap S : L.next[y] # h => L.next[y] \in T \cap S
    BY <1>1, <1>2, <1>5
  <2> DEFINE U == T \cap S
  <2>3. U \in SUBSET DOMAIN L.next /\ U \subseteq T
    BY <1>1
  <2> HIDE DEF U
  <2>4. NodesFrom(L.next, hn, h) \subseteq U
    BY <2>1, <2>2, <2>3, LeastNodes DEF U
  <2> QED  BY <1>5, <2>3, <2>4 DEF IsRing, hn
<1>6. M.next[h] = x
  BY <1>2
<1>7. S \cup {x} \subseteq NodesFrom(M.next, x, h)
  BY <1>2, <1>5 DEF NodesFrom
<1> QED  BY <1>2, <1>3, <1>4, <1>6, <1>7 DEF IsRing, M

(* smal_dllist_delete: x leaves the ring of h; other rings stay.           *)
LEMMA DeleteRing ==
  ASSUME NEW L \in Links(Nodes, Nil), NEW h \in Nodes, NEW S \in SUBSET Nodes, h \notin S,
         IsRing(L, h, S), NEW x \in S
  PROVE  /\ Delete(L, x) \in Links(Nodes, Nil)
         /\ IsRing(Delete(L, x), h, S \ {x})
         /\ Same(L, Delete(L, x), Nodes \ (S \cup {h}))
<1> DEFINE M  == Delete(L, x)
           xn == L.next[x]
           xp == L.prev[x]
<1>1. /\ DOMAIN L.next = Nodes /\ xn \in S \cup {h} /\ xp \in S \cup {h} /\ L.next[xp] = x
      /\ \A y \in S \cup {h} : L.next[y] \in S \cup {h} /\ L.prev[L.next[y]] = y
  BY DEF Links, IsRing, Linked
<1>2. /\ M \in Links(Nodes, Nil) /\ DOMAIN M.next = Nodes
      /\ \A y \in Nodes : M.next[y] = IF y = xp THEN xn ELSE L.next[y]
  BY <1>1 DEF Links, Delete
<1>3. Same(L, M, Nodes \ (S \cup {h}))
  BY <1>1 DEF Same, Delete, Links
<1>4. Linked(M, (S \ {x}) \cup {h})
  <2>1. Linked(M, (S \cup {h}) \ {x})
    BY DeleteLinked DEF IsRing
  <2>2. (S \cup {h}) \ {x} = (S \ {x}) \cup {h}
    OBVIOUS
  <2> QED  BY <2>1, <2>2
<1>5. \A y \in S \cup {h} : y # xp => L.next[y] # x
  BY <1>1
<1> HIDE DEF M, xn, xp
<1>6. ASSUME NEW T \in SUBSET Nodes, M.next[h] # h => M.next[h] \in T,
             \A y \in T : M.next[y] # h => M.next[y] \in T
      PROVE  S \ {x} \subseteq T
  <2>1. CASE xp = h \/ xp \in T
    <3> DEFINE U == (T \cap S) \cup {x}
    <3>1. L.next[h] # h => L.next[h] \in U
      BY <1>1, <1>2, <1>6
    <3>2. xn # h => xn \in U
      BY <1>1, <1>2, <1>6, <2>1
    <3>3. \A y \in U : L.next[y] # h => L.next[y] \in U
      BY <1>1, <1>2, <1>6, <3>2 DEF xn
    <3>4. U \in SUBSET DOMAIN L.next /\ \A y \in U : y # x => y \in T
      BY <1>1
    <3> HIDE DEF U
    <3>5. NodesFrom(L.next, L.next[h], h) \subseteq U
      BY <3>1, <3>3, <3>4, LeastNodes
    <3> QED  BY <3>4, <3>5 DEF IsRing
  <2>2. CASE xp # h /\ xp \notin T
    <3> DEFINE U == (T \cap S) \ {x}
    <3>1. L.next[h] # h => L.next[h] \in U
      BY <1>1, <1>2, <1>5, <1>6, <2>2
    <3>2. \A y \in U : L.next[y] # h => L.next[y] \in U
      BY <1>1, <1>2, <1>5, <1>6, <2>2
    <3>3. U \in SUBSET DOMAIN L.next /\ U \subseteq T
      BY <1>1
    <3> HIDE DEF U
    <3>4. NodesFrom(L.next, L.next[h], h) \subseteq U
      BY <3>1, <3>2, <3>3, LeastNodes
    <3> QED  BY <3>3, <3>4 DEF IsRing
  <2> QED  BY <2>1, <2>2
<1>7. S \ {x} \subseteq NodesFrom(M.next, M.next[h], h)
  BY <1>2, <1>6 DEF NodesFrom
<1> QED  BY <1>2, <1>3, <1>4, <1>7 DEF IsRing, M

-----------------------------------------------------------------------------
(* The list of the global roots has no inverse links: each of its entries  *)
(* has one pointer to it, from the head or from another entry.             *)
OneWay(nx, head) ==
  \A x \in NodesFrom(nx, head, Nil) :
    nx[x] # Nil =>
      /\ nx[x] # head
      /\ \A y \in NodesFrom(nx, head, Nil) : nx[x] = nx[y] => x = y

(* The list holds its head, and with an entry the next one. *)
LEMMA ListClosed ==
  ASSUME NEW nx \in [Entries -> Entries \cup {Nil}], NEW head \in Entries \cup {Nil}
  PROVE  /\ NodesFrom(nx, head, Nil) \subseteq Entries
         /\ head # Nil => head \in NodesFrom(nx, head, Nil)
         /\ \A y \in NodesFrom(nx, head, Nil) : nx[y] # Nil => nx[y] \in NodesFrom(nx, head, Nil)
<1>1. DOMAIN nx = Entries
  OBVIOUS
<1> QED  BY <1>1, NodesClosed

(* A walk that begins in the list stays in it. *)
LEMMA ListWalk ==
  ASSUME NEW nx \in [Entries -> Entries \cup {Nil}], NEW head \in Entries \cup {Nil},
         NEW e \in NodesFrom(nx, head, Nil) \cup {Nil}
  PROVE  NodesFrom(nx, e, Nil) \subseteq NodesFrom(nx, head, Nil)
<1>1. DOMAIN nx = Entries
  OBVIOUS
<1> QED  BY <1>1, ListClosed, LeastNodes

(* A store in an entry that a walk does not meet is nothing to it.         *)
LEMMA OffTheList ==
  ASSUME NEW nx \in [Entries -> Entries \cup {Nil}], NEW head \in Entries \cup {Nil},
         NEW e \in Entries \ NodesFrom(nx, head, Nil), NEW v \in Entries \cup {Nil}
  PROVE  NodesFrom([nx EXCEPT ![e] = v], head, Nil) = NodesFrom(nx, head, Nil)
<1> DEFINE new == [nx EXCEPT ![e] = v]
           R == NodesFrom(nx, head, Nil)
<1>1. /\ DOMAIN nx = Entries /\ DOMAIN new = Entries
      /\ \A y \in Entries \ {e} : new[y] = nx[y]
  OBVIOUS
<1>2. /\ R \subseteq Entries /\ e \notin R /\ (head # Nil => head \in R)
      /\ \A y \in R : nx[y] # Nil => nx[y] \in R
  BY ListClosed
<1> HIDE DEF new
<1>3. NodesFrom(new, head, Nil) \subseteq R
  BY <1>1, <1>2, LeastNodes
<1>4. ASSUME NEW S \in SUBSET Entries, head # Nil => head \in S,
             \A y \in S : new[y] # Nil => new[y] \in S
      PROVE  R \subseteq S
  <2>1. \A y \in S \cap R : nx[y] # Nil => nx[y] \in S \cap R
    BY <1>1, <1>2, <1>4
  <2> DEFINE U == S \cap R
  <2>2. U \in SUBSET DOMAIN nx /\ (head # Nil => head \in U) /\ U \subseteq S
    BY <1>1, <1>2, <1>4
  <2> HIDE DEF U
  <2>3. NodesFrom(nx, head, Nil) \subseteq U
    BY <2>1, <2>2, LeastNodes DEF U
  <2> QED  BY <2>2, <2>3
<1>5. R \subseteq NodesFrom(new, head, Nil)
  BY <1>1, <1>2, <1>4 DEF NodesFrom
<1> QED  BY <1>3, <1>5 DEF new

(* A new entry in front. *)
LEMMA PushedList ==
  ASSUME NEW nx \in [Entries -> Entries \cup {Nil}], NEW head \in Entries \cup {Nil},
         NEW e \in Entries \ NodesFrom(nx, head, Nil), nx[e] = head, OneWay(nx, head)
  PROVE  /\ NodesFrom(nx, e, Nil) = NodesFrom(nx, head, Nil) \cup {e}
         /\ OneWay(nx, e)
<1> DEFINE R == NodesFrom(nx, head, Nil)
<1>0. DOMAIN nx = Entries /\ e # Nil
  BY RootsAssumption
<1>1. /\ R \subseteq Entries /\ e \notin R /\ (head # Nil => head \in R)
      /\ \A y \in R : nx[y] # Nil => nx[y] \in R
  BY ListClosed
<1>2. NodesFrom(nx, e, Nil) \subseteq R \cup {e}
  <2> DEFINE U == R \cup {e}
  <2>1. U \in SUBSET DOMAIN nx /\ e \in U /\ \A y \in U : nx[y] # Nil => nx[y] \in U
    BY <1>0, <1>1
  <2> HIDE DEF U
  <2>2. NodesFrom(nx, e, Nil) \subseteq U
    BY <2>1, LeastNodes
  <2> QED  BY <2>2 DEF U
<1>3. ASSUME NEW S \in SUBSET Entries, e \in S, \A y \in S : nx[y] # Nil => nx[y] \in S
      PROVE  R \subseteq S
  BY <1>0, <1>3, LeastNodes
<1>4. R \cup {e} \subseteq NodesFrom(nx, e, Nil)
  BY <1>0, <1>1, <1>3 DEF NodesFrom
<1>5. NodesFrom(nx, e, Nil) = R \cup {e}
  BY <1>2, <1>4
<1>6. OneWay(nx, e)
  BY <1>1, <1>5 DEF OneWay
<1> QED  BY <1>5, <1>6

(* "*rp = next": an entry is unlinked, and a walk behind it goes on.       *)
LEMMA UnlinkedList ==
  ASSUME NEW nx \in [Entries -> Entries \cup {Nil}], NEW head \in Entries \cup {Nil},
         OneWay(nx, head), NEW rp \in NodesFrom(nx, head, Nil), nx[rp] # Nil,
         NEW new \in [Entries -> Entries \cup {Nil}],
         \A y \in Entries : new[y] = IF y = rp THEN nx[nx[rp]] ELSE nx[y]
  PROVE  /\ NodesFrom(new, head, Nil) = NodesFrom(nx, head, Nil) \ {nx[rp]}
         /\ OneWay(new, head)
         /\ NodesFrom(nx, nx[rp], Nil) \subseteq {nx[rp]} \cup NodesFrom(new, nx[nx[rp]], Nil)
         /\ rp # nx[rp]
<1> DEFINE R == NodesFrom(nx, head, Nil)
           r == nx[rp]
<1>0. r = nx[rp] /\ r \in Entries
  BY ListClosed
<1> HIDE DEF r
<1>1. /\ r \in Entries /\ R \subseteq Entries /\ (head # Nil => head \in R)
      /\ \A y \in R : nx[y] # Nil => nx[y] \in R
      /\ r # Nil /\ r \in R /\ r # head
  BY <1>0, ListClosed, RootsAssumption DEF OneWay
<1>2. /\ DOMAIN nx = Entries /\ DOMAIN new = Entries
      /\ \A y \in Entries : new[y] = IF y = rp THEN nx[r] ELSE nx[y]
      /\ new \in [Entries -> Entries \cup {Nil}]
  BY <1>0, <1>1
<1>3. \A y \in R : y # rp => nx[y] # r
  BY <1>0, <1>1 DEF OneWay
<1>4. rp # r
  <2> SUFFICES ASSUME rp = r PROVE FALSE
    OBVIOUS
  <2> DEFINE U == R \ {r}
  <2>1. \A y \in U : nx[y] # Nil => nx[y] \in U
    BY <1>1, <1>3
  <2>2. U \in SUBSET DOMAIN nx /\ (head # Nil => head \in U) /\ r \notin U
    BY <1>1, <1>2
  <2> HIDE DEF U
  <2>3. NodesFrom(nx, head, Nil) \subseteq U
    BY <2>1, <2>2, LeastNodes
  <2> QED  BY <1>1, <2>2, <2>3
<1>5. nx[r] # r
  BY <1>1, <1>3, <1>4
<1>6. NodesFrom(new, head, Nil) \subseteq R \ {r}
  <2> DEFINE U == R \ {r}
  <2>1. \A y \in U : new[y] # Nil => new[y] \in U
    BY <1>1, <1>2, <1>3, <1>5
  <2>2. U \in SUBSET DOMAIN new /\ (head # Nil => head \in U)
    BY <1>1, <1>2
  <2> HIDE DEF U
  <2>3. NodesFrom(new, head, Nil) \subseteq U
    BY <2>1, <2>2, LeastNodes
  <2> QED  BY <2>3 DEF U
<1>7. ASSUME NEW S \in SUBSET Entries, head # Nil => head \in S,
             \A y \in S : new[y] # Nil => new[y] \in S
      PROVE  R \ {r} \subseteq S
  <2>1. CASE rp \in S
    <3>1. nx[r] # Nil => nx[r] \in S
      BY <1>1, <1>2, <1>7, <2>1
    <3> DEFINE U == S \cup {r}
    <3>2. \A y \in U : nx[y] # Nil => nx[y] \in U
      BY <1>0, <1>1, <1>2, <1>7, <3>1
    <3>3. /\ U \in SUBSET DOMAIN nx /\ (head # Nil => head \in U)
          /\ \A y \in U : y # r => y \in S
      BY <1>0, <1>2, <1>7
    <3> HIDE DEF U
    <3>4. NodesFrom(nx, head, Nil) \subseteq U
      BY <3>2, <3>3, LeastNodes
    <3> QED  BY <3>3, <3>4
  <2>2. CASE rp \notin S
    <3> DEFINE U == (S \cap R) \ {r}
    <3>1. \A y \in U : nx[y] # Nil => nx[y] \in U
      BY <1>1, <1>2, <1>3, <1>7, <2>2
    <3>2. head # Nil => head \in U
      BY <1>1, <1>7
    <3>3. U \in SUBSET DOMAIN nx /\ U \subseteq S
      BY <1>2
    <3> HIDE DEF U
    <3>4. NodesFrom(nx, head, Nil) \subseteq U
      BY <3>1, <3>2, <3>3, LeastNodes
    <3> QED  BY <3>3, <3>4
  <2> QED  BY <2>1, <2>2
<1>8. NodesFrom(new, head, Nil) = R \ {r}
  <2>1. R \ {r} \subseteq NodesFrom(new, head, Nil)
    BY <1>1, <1>2, <1>7 DEF NodesFrom
  <2> QED  BY <1>6, <2>1
<1>9. OneWay(new, head)
  <2> SUFFICES ASSUME NEW x \in R \ {r}, new[x] # Nil
               PROVE  new[x] # head /\ \A y \in R \ {r} : new[x] = new[y] => x = y
    BY <1>8 DEF OneWay
  <2>1. \A y \in R \ {r} : /\ y = rp => new[y] = nx[r]
                           /\ y # rp => new[y] = nx[y]
    BY <1>1, <1>2
  <2>2. \A y, z \in R : nx[y] # Nil => nx[y] # head /\ (nx[y] = nx[z] => y = z)
    BY DEF OneWay
  <2> QED  BY <1>1, <2>1, <2>2
<1>10. NodesFrom(nx, r, Nil) \subseteq {r} \cup NodesFrom(new, nx[r], Nil)
  <2> SUFFICES ASSUME NEW S \in SUBSET Entries, nx[r] # Nil => nx[r] \in S,
                      \A y \in S : new[y] # Nil => new[y] \in S
               PROVE  NodesFrom(nx, r, Nil) \subseteq S \cup {r}
    BY <1>2, ListClosed DEF NodesFrom
  <2> DEFINE U == S \cup {r}
  <2>1. U \in SUBSET DOMAIN nx /\ r \in U /\ \A y \in U : nx[y] # Nil => nx[y] \in U
    BY <1>0, <1>2
  <2> HIDE DEF U
  <2>2. NodesFrom(nx, r, Nil) \subseteq U
    BY <2>1, LeastNodes
  <2> QED  BY <2>2 DEF U
<1> QED  BY <1>0, <1>4, <1>8, <1>9, <1>10

(* "*rp = next" at the head. *)
LEMMA UnlinkedHead ==
  ASSUME NEW nx \in [Entries -> Entries \cup {Nil}], NEW head \in Entries, OneWay(nx, head)
  PROVE  /\ NodesFrom(nx, nx[head], Nil) = NodesFrom(nx, head, Nil) \ {head}
         /\ OneWay(nx, nx[head])
<1> DEFINE R == NodesFrom(nx, head, Nil)
<1>1. /\ R \subseteq Entries /\ head \in R /\ head # Nil /\ DOMAIN nx = Entries
      /\ \A y \in R : nx[y] # Nil => nx[y] \in R /\ nx[y] # head
  BY ListClosed, RootsAssumption DEF OneWay
<1>2. NodesFrom(nx, nx[head], Nil) \subseteq R \ {head}
  <2> DEFINE U == R \ {head}
  <2>1. /\ U \in SUBSET DOMAIN nx /\ (nx[head] # Nil => nx[head] \in U)
        /\ \A y \in U : nx[y] # Nil => nx[y] \in U
    BY <1>1
  <2> HIDE DEF U
  <2>2. NodesFrom(nx, nx[head], Nil) \subseteq U
    BY <2>1, LeastNodes
  <2> QED  BY <2>2 DEF U
<1>3. R \subseteq {head} \cup NodesFrom(nx, nx[head], Nil)
  BY <1>1, WalkGoesOn
<1>4. NodesFrom(nx, nx[head], Nil) = R \ {head}
  BY <1>2, <1>3
<1> QED  BY <1>1, <1>4 DEF OneWay

-----------------------------------------------------------------------------
(* The invariant.                                                          *)

(* A thread is somewhere in the call it has entered. *)
InCall(call, place) ==
  \/ call = "client" /\ place = "client"
  \/ call \in {"add_lock", "remove_lock", "add_callback", "remove_callback", "mark_start"}
     /\ place \in {"once", call}
  \/ call = "add_lock" /\ place = "add_head"
  \/ call = "remove_lock" /\ place = "remove_entry"
  \/ call = "mark_start" /\ place \in MarkPlaces

CallOf(t) ==
  /\ InCall(var[t].goto, pc[t])
  /\ pc[t] = "client" => var[t] = NoLocals

Calls == \A t \in Threads : CallOf(t)

(* The first call is alone until the once has run. *)
FirstCall ==
  /\ once => initialized
  /\ ~ initialized => \A t \in Threads : pc[t] = "client"
  /\ ~ once => kept_cbs = {} /\ \A t \in Threads : pc[t] \in {"client", "once"}
  /\ \A t \in Threads : pc[t] = "once" =>
       /\ initialized /\ ~ once
       /\ \A u \in Threads \ {t} : pc[u] = "client"

FramesOK ==
  \A t \in Threads :
    /\ Len(frames[t]) \in 0..MaxFrames
    /\ t \notin registered => frames[t] = <<>>

Rings ==
  /\ once => IsRing(links, callbacks, kept_cbs)
  /\ registered # {} => IsRing(links, thread_list, registered)

(* The callback of a call is in no other call, and in the ring until its   *)
(* remove takes it out.                                                    *)
HandlesOK ==
  \A t \in Threads :
    /\ var[t].goto = "add_callback" => var[t].entry \in Callbacks \ kept_cbs
    /\ var[t].goto = "remove_callback" => var[t].entry \in kept_cbs
    /\ var[t].goto \in {"add_callback", "remove_callback"} =>
         \A u \in Threads \ {t} :
           var[u].goto \in {"add_callback", "remove_callback"} => var[u].entry # var[t].entry

(* One thread collects, holding the locks that keep the rings it walks.    *)
Walks ==
  \A t \in Threads :
    /\ var[t].goto = "mark_start" =>
         t \in registered /\ \A u \in Threads : var[u].goto = "mark_start" => u = t
    /\ pc[t] = "mark_callbacks" =>
         callbacks_mutex = t /\ var[t].entry_next \in kept_cbs \cup {callbacks}
    /\ pc[t] \in {"mark_threads", "mark_frames"} =>
         walking_threads /\ var[t].entry_next \in registered \cup {thread_list}
    /\ pc[t] = "mark_frames" => var[t].entry \in registered

Adding == {var[t].r : t \in {u \in Threads : var[u].goto = "add_lock"}}

(* An entry that is being added is its thread's alone. *)
Adders ==
  \A t \in Threads :
    /\ var[t].goto = "add_lock" =>
         /\ var[t].r \in used /\ bindings[var[t].r] = var[t].roots
         /\ \A u \in Threads \ {t} : var[u].goto = "add_lock" => var[u].r # var[t].r
    /\ pc[t] = "add_head" => next[var[t].r] = global_roots
    /\ pc[t] \in {"add_head", "remove_entry"} => global_roots_mutex = t

TheList ==
  /\ Listed = used \ Adding
  /\ OneWay(next, global_roots)
  /\ \A t \in Threads :
       /\ pc[t] = "remove_entry" => var[t].rp \in Listed \cup {Nil}
       /\ var[t].goto = "remove_lock" /\ pc[t] # "remove_entry" => var[t].rp = Nil

(* A remove has cleared what is behind it. *)
Here(t) == IF var[t].rp = Nil THEN global_roots ELSE next[var[t].rp]
ListedVars == UNION {Bound(bindings[e]) : e \in Listed}

Exact ==
  /\ (\A t \in Threads : pc[t] # "remove_entry") => ListedVars = added
  /\ \A t \in Threads : pc[t] = "remove_entry" =>
       /\ ListedVars \ Bound(var[t].roots) = added
       /\ \A e \in Listed \ NodesFrom(next, Here(t), Nil) :
            Bound(bindings[e]) \cap Bound(var[t].roots) = {}

(* What a program that removes no global roots and ends no frame while a   *)
(* collection marks can count on.                                          *)
CarefulProgram == FirstCallAlone /\ MayOverlap \cap {"remove", "end"} = {}

NoRemoval ==
  \A t, u \in Threads : var[t].goto = "mark_start" => var[u].goto # "remove_lock"
OnTheList == \A t \in Threads : pc[t] = "mark_globals" => var[t].r \in Listed \cup {Nil}
InTheFrames ==
  \A t \in Threads : pc[t] = "mark_frames" => var[t].frame \in 0..Len(frames[var[t].entry])

Undisturbed == NoRemoval /\ OnTheList /\ InTheFrames

(* What the walk has still to mark. *)
FrameVars(u) == UNION {Bound(frames[u][i]) : i \in DOMAIN frames[u]}
AllFrames == UNION {FrameVars(u) : u \in Threads}
CallbacksAhead(t) ==
  {DataOf[c] : c \in NodesFrom(links.next, var[t].entry_next, callbacks)}
GlobalsAhead(t) == UNION {Bound(bindings[e]) : e \in NodesFrom(next, var[t].r, Nil)}
FramesAhead(t) ==
  UNION {FrameVars(u) : u \in NodesFrom(links.next, var[t].entry_next, thread_list)}
FramesHere(t) == UNION {Bound(frames[var[t].entry][i]) : i \in 1..var[t].frame}

Left(t) ==
  CASE pc[t] = "mark_callbacks" -> CallbacksAhead(t) \cup added \cup AllFrames
    [] pc[t] = "mark_globals"   -> GlobalsAhead(t) \cup AllFrames
    [] pc[t] = "mark_threads"   -> FramesAhead(t)
    [] pc[t] = "mark_frames"    -> FramesHere(t) \cup FramesAhead(t)
    [] pc[t] = "marked"         -> {}

Marks ==
  \A t \in Threads : pc[t] \in MarkPlaces \ {"mark_start"} => must \subseteq marked \cup Left(t)

-----------------------------------------------------------------------------
(* An entry after the bindings of f are cleared. *)
ClearedEntry(r, f) ==
  [j \in DOMAIN bindings[r] |-> IF j \in ClearedIn(r, f) THEN NoBinding ELSE bindings[r][j]]

(* What a step does to the threads.                                        *)
Moved(t) ==
  /\ pc' \in [Threads -> Places] /\ var' \in [Threads -> Locals]
  /\ \A u \in Threads \ {t} : pc'[u] = pc[u] /\ var'[u] = var[u]

(* A thread in no call has no locals. *)
LEMMA NoLocalsFields ==
  NoLocals \in Locals /\ NoLocals.goto = "client" /\ NoLocals.entry = Nil /\ NoLocals.r = Nil
BY RootsAssumption DEF NoLocals, LocalsOf, Locals, Places

(* A call begins, or waits for the once of the first one. *)
LEMMA Entered ==
  ASSUME TypeOK, FirstCallAlone, NEW t \in Threads, NEW place \in Places,
         NEW roots, NEW r, NEW entry, LocalsOf(place, roots, r, entry) \in Locals,
         Enter(t, place, roots, r, entry)
  PROVE  /\ Moved(t) /\ initialized' = TRUE
         /\ pc[t] = "client" /\ (initialized => once)
         /\ pc'[t] = IF initialized THEN place ELSE "once"
         /\ var'[t] = LocalsOf(place, roots, r, entry)
<1> DEFINE l == LocalsOf(place, roots, r, entry)
<1>1. pc \in [Threads -> Places] /\ var \in [Threads -> Locals] /\ "once" \in Places
  BY DEF TypeOK, Places
<1>2. /\ var' = [var EXCEPT ![t] = l]
      /\ pc' = [pc EXCEPT ![t] = IF initialized THEN place ELSE "once"]
      /\ initialized' = TRUE /\ pc[t] = "client" /\ (initialized => once)
  BY DEF Enter, Goto
<1>3. l \in Locals
  OBVIOUS
<1> HIDE DEF l
<1>4. Moved(t) /\ pc'[t] = (IF initialized THEN place ELSE "once") /\ var'[t] = l
  BY <1>1, <1>2, <1>3 DEF Moved
<1> QED  BY <1>2, <1>4 DEF l

(* A step to another place of the same call. *)
LEMMA WentTo ==
  ASSUME TypeOK, NEW t \in Threads, NEW place \in Places, Goto(t, place), UNCHANGED var
  PROVE  Moved(t) /\ pc'[t] = place /\ var'[t] = var[t]
BY DEF Goto, Moved, TypeOK

(* The end of a call. *)
LEMMA Returned ==
  ASSUME TypeOK, NEW t \in Threads, Return(t)
  PROVE  Moved(t) /\ pc'[t] = "client" /\ var'[t] = NoLocals
BY NoLocalsFields DEF Return, Goto, Moved, TypeOK, Places

(* A step that is no part of a call with locals. *)
LEMMA Stayed ==
  ASSUME TypeOK, NEW t \in Threads, UNCHANGED <<pc, var>>
  PROVE  Moved(t) /\ pc'[t] = pc[t] /\ var'[t] = var[t]
BY DEF Moved, TypeOK

(* A walk of a ring goes on. *)
LEMMA SetNext ==
  ASSUME TypeOK, NEW t \in Threads, NEW v \in Nodes \cup {Nil},
         var' = Set(t, "entry_next", v), NEW place \in Places,
         Goto(t, place) \/ (UNCHANGED pc /\ place = pc[t])
  PROVE  /\ Moved(t) /\ pc'[t] = place
         /\ var'[t].entry_next = v /\ var'[t].goto = var[t].goto /\ var'[t].r = var[t].r
         /\ var'[t].entry = var[t].entry
BY ZenonT(30) DEF Moved, TypeOK, Set, Goto, Locals

(* A walk of the list goes on. *)
LEMMA SetEntry ==
  ASSUME TypeOK, NEW t \in Threads, NEW v \in Entries \cup {Nil},
         var' = Set(t, "r", v), NEW place \in Places,
         Goto(t, place) \/ (UNCHANGED pc /\ place = pc[t])
  PROVE  Moved(t) /\ pc'[t] = place /\ var'[t].r = v /\ var'[t].goto = var[t].goto
<1>1. pc \in [Threads -> Places] /\ var \in [Threads -> Locals] /\ var[t] \in Locals
  BY DEF TypeOK
<1> DEFINE l == [var[t] EXCEPT !["r"] = v]
<1>2. l \in Locals /\ l.r = v /\ l.goto = var[t].goto
  BY <1>1 DEF Locals
<1>3. var' = [var EXCEPT ![t] = l]
  BY DEF Set
<1>4. pc' = [pc EXCEPT ![t] = place]
  BY <1>1 DEF Goto
<1> HIDE DEF l
<1> QED  BY <1>1, <1>2, <1>3, <1>4 DEF Moved

(* A remove goes on to the next entry. *)
LEMMA SetRp ==
  ASSUME TypeOK, NEW t \in Threads, NEW v \in Entries,
         var' = [var EXCEPT ![t].rp = v], UNCHANGED pc
  PROVE  /\ Moved(t) /\ pc'[t] = pc[t] /\ var'[t].rp = v /\ var'[t].roots = var[t].roots
         /\ var'[t].goto = var[t].goto
BY ZenonT(30) DEF Moved, TypeOK, Locals

(* A walk of the frames goes on. *)
LEMMA SetFrame ==
  ASSUME TypeOK, NEW t \in Threads, NEW v \in 0..MaxFrames,
         var' = Set(t, "frame", v), UNCHANGED pc
  PROVE  /\ Moved(t) /\ pc'[t] = pc[t] /\ var'[t].frame = v /\ var'[t].goto = var[t].goto
         /\ var'[t].entry = var[t].entry /\ var'[t].entry_next = var[t].entry_next
BY ZenonT(30) DEF Moved, TypeOK, Set, Locals

(* A walk of the threads comes to thread u. *)
LEMMA SetThread ==
  ASSUME TypeOK, NEW t \in Threads, NEW u \in Nodes, NEW v \in Nodes \cup {Nil},
         NEW k \in 0..MaxFrames, Goto(t, "mark_frames"),
         var' = [var EXCEPT ![t] = [@ EXCEPT !.entry = u, !.entry_next = v, !.frame = k]]
  PROVE  /\ Moved(t) /\ pc'[t] = "mark_frames" /\ var'[t].entry = u /\ var'[t].entry_next = v
         /\ var'[t].frame = k /\ var'[t].goto = var[t].goto
<1>1. /\ pc \in [Threads -> Places] /\ var \in [Threads -> Locals] /\ var[t] \in Locals
      /\ "mark_frames" \in Places
  BY DEF TypeOK, Places, MarkPlaces
<1> DEFINE l == [var[t] EXCEPT !.entry = u, !.entry_next = v, !.frame = k]
<1>2. l \in Locals /\ l.entry = u /\ l.entry_next = v /\ l.frame = k /\ l.goto = var[t].goto
  BY <1>1 DEF Locals
<1>3. var' = [var EXCEPT ![t] = l]
  OBVIOUS
<1> HIDE DEF l
<1> QED  BY <1>1, <1>2, <1>3 DEF Moved, Goto

(* The same, action by action. *)
LEMMA ClientStays ==
  ASSUME TypeOK, NEW t \in Threads,
         \/ smal_thread_self(t) \/ smal_roots_end(t)
         \/ \E f \in Frames : smal_roots_begin(t, f)
  PROVE  Moved(t) /\ pc[t] = "client" /\ pc'[t] = pc[t] /\ var'[t] = var[t]
BY Stayed DEF smal_thread_self, smal_roots_begin, smal_roots_end

(* smal_roots_add_global copies its bindings into a new entry. *)
LEMMA AddGlobalMoves ==
  ASSUME TypeOK, FirstCallAlone, NEW t \in Threads, NEW f \in Frames,
         smal_roots_add_global(t, f)
  PROVE  /\ Moved(t) /\ initialized' = TRUE /\ pc[t] = "client" /\ (initialized => once)
         /\ pc'[t] = IF initialized THEN "add_lock" ELSE "once"
         /\ var'[t].goto = "add_lock" /\ var'[t].roots = f
         /\ var'[t].r \in Entries \ used
         /\ used' = used \cup {var'[t].r}
         /\ bindings' = [bindings EXCEPT ![var'[t].r] = f]
<1> PICK e \in Entries \ used :
           /\ Enter(t, "add_lock", f, e, Nil)
           /\ used' = used \cup {e}
           /\ bindings' = [bindings EXCEPT ![e] = f]
  BY DEF smal_roots_add_global
<1>1. "add_lock" \in Places /\ LocalsOf("add_lock", f, e, Nil) \in Locals
  BY RootsAssumption DEF Places, LocalsOf, Locals
<1>2. /\ Moved(t) /\ initialized' = TRUE /\ pc[t] = "client" /\ (initialized => once)
      /\ pc'[t] = IF initialized THEN "add_lock" ELSE "once"
      /\ var'[t] = LocalsOf("add_lock", f, e, Nil)
  BY <1>1, Entered
<1> QED  BY <1>2 DEF LocalsOf

(* smal_roots_remove_global begins at the head. *)
LEMMA RemoveGlobalMoves ==
  ASSUME TypeOK, FirstCallAlone, NEW t \in Threads, NEW f \in Frames,
         smal_roots_remove_global(t, f)
  PROVE  /\ Moved(t) /\ initialized' = TRUE /\ pc[t] = "client" /\ (initialized => once)
         /\ pc'[t] = IF initialized THEN "remove_lock" ELSE "once"
         /\ var'[t].goto = "remove_lock" /\ var'[t].roots = f /\ var'[t].rp = Nil
<1>1. "remove_lock" \in Places /\ LocalsOf("remove_lock", f, Nil, Nil) \in Locals
  BY RootsAssumption DEF Places, LocalsOf, Locals
<1>2. Enter(t, "remove_lock", f, Nil, Nil)
  BY DEF smal_roots_remove_global
<1>3. /\ Moved(t) /\ initialized' = TRUE /\ pc[t] = "client" /\ (initialized => once)
      /\ pc'[t] = IF initialized THEN "remove_lock" ELSE "once"
  BY <1>1, <1>2, Entered
<1>4. var'[t] = LocalsOf("remove_lock", f, Nil, Nil)
  BY <1>1, <1>2, Entered
<1> QED  BY <1>3, <1>4 DEF LocalsOf

(* A call about callback c. *)
LEMMA CallbackMoves ==
  ASSUME TypeOK, FirstCallAlone, NEW t \in Threads, NEW place \in Places,
         NEW c \in Callbacks, Enter(t, place, <<>>, Nil, c)
  PROVE  /\ Moved(t) /\ initialized' = TRUE /\ pc[t] = "client" /\ (initialized => once)
         /\ pc'[t] = IF initialized THEN place ELSE "once"
         /\ var'[t].goto = place /\ var'[t].entry = c
<1>1. LocalsOf(place, <<>>, Nil, c) \in Locals
  BY RootsAssumption DEF Places, LocalsOf, Locals, Nodes
<1>3. /\ Moved(t) /\ initialized' = TRUE /\ pc[t] = "client" /\ (initialized => once)
      /\ pc'[t] = IF initialized THEN place ELSE "once"
  BY <1>1, Entered
<1>4. var'[t] = LocalsOf(place, <<>>, Nil, c)
  BY <1>1, Entered
<1> QED  BY <1>3, <1>4 DEF LocalsOf

(* The callback is a new one. *)
LEMMA AddCallbackCall ==
  ASSUME TypeOK, FirstCallAlone, NEW t \in Threads, smal_roots_add_callback(t)
  PROVE  /\ Moved(t) /\ initialized' = TRUE /\ pc[t] = "client" /\ (initialized => once)
         /\ pc'[t] = IF initialized THEN "add_callback" ELSE "once"
         /\ var'[t].goto = "add_callback"
         /\ var'[t].entry \in Callbacks \ (kept_cbs \cup Handles)
<1>1. "add_callback" \in Places
  BY DEF Places
<1>2. PICK c \in Callbacks \ (kept_cbs \cup Handles) : Enter(t, "add_callback", <<>>, Nil, c)
  BY DEF smal_roots_add_callback
<1>3. c \in Callbacks
  BY <1>2
<1>4. /\ Moved(t) /\ initialized' = TRUE /\ pc[t] = "client" /\ (initialized => once)
      /\ pc'[t] = IF initialized THEN "add_callback" ELSE "once"
      /\ var'[t].goto = "add_callback"
  BY <1>1, <1>2, <1>3, CallbackMoves
<1>5. var'[t].entry = c
  BY <1>1, <1>2, <1>3, CallbackMoves
<1> QED  BY <1>2, <1>4, <1>5

(* The callback is registered, and in no other call. *)
LEMMA RemoveCallbackCall ==
  ASSUME TypeOK, FirstCallAlone, NEW t \in Threads, smal_roots_remove_callback(t)
  PROVE  /\ Moved(t) /\ initialized' = TRUE /\ pc[t] = "client" /\ (initialized => once)
         /\ pc'[t] = IF initialized THEN "remove_callback" ELSE "once"
         /\ var'[t].goto = "remove_callback"
         /\ var'[t].entry \in kept_cbs \ Handles
<1>1. kept_cbs \subseteq Callbacks /\ "remove_callback" \in Places
  BY DEF TypeOK, Places
<1>2. PICK c \in kept_cbs \ Handles : Enter(t, "remove_callback", <<>>, Nil, c)
  BY DEF smal_roots_remove_callback
<1>3. c \in Callbacks
  BY <1>2, <1>1
<1>4. /\ Moved(t) /\ initialized' = TRUE /\ pc[t] = "client" /\ (initialized => once)
      /\ pc'[t] = IF initialized THEN "remove_callback" ELSE "once"
      /\ var'[t].goto = "remove_callback"
  BY <1>1, <1>2, <1>3, CallbackMoves
<1>5. var'[t].entry = c
  BY <1>1, <1>2, <1>3, CallbackMoves
<1> QED  BY <1>2, <1>4, <1>5

(* smal_roots_mark_chain begins. *)
LEMMA MarkChainMoves ==
  ASSUME TypeOK, FirstCallAlone, NEW t \in Threads, smal_roots_mark_chain(t)
  PROVE  /\ Moved(t) /\ initialized' = TRUE /\ pc[t] = "client" /\ (initialized => once)
         /\ pc'[t] = IF initialized THEN "mark_start" ELSE "once"
         /\ var'[t].goto = "mark_start"
<1>1. "mark_start" \in Places /\ LocalsOf("mark_start", <<>>, Nil, Nil) \in Locals
  BY RootsAssumption DEF Places, MarkPlaces, LocalsOf, Locals
<1>2. Enter(t, "mark_start", <<>>, Nil, Nil)
  BY DEF smal_roots_mark_chain
<1>3. /\ Moved(t) /\ initialized' = TRUE /\ pc[t] = "client" /\ (initialized => once)
      /\ pc'[t] = IF initialized THEN "mark_start" ELSE "once"
  BY <1>1, <1>2, Entered
<1>4. var'[t] = LocalsOf("mark_start", <<>>, Nil, Nil)
  BY <1>1, <1>2, Entered
<1> QED  BY <1>3, <1>4 DEF LocalsOf

(* After the once the call goes on where it would have. *)
LEMMA OnceMoves ==
  ASSUME TypeOK, NEW t \in Threads, Once(t)
  PROVE  Moved(t) /\ pc[t] = "once" /\ pc'[t] = var[t].goto /\ var'[t] = var[t]
<1>1. var[t].goto \in Places
  BY DEF TypeOK, Locals
<1> QED  BY <1>1, WentTo DEF Once

(* The two steps that take global_roots_mutex. *)
LEMMA LockMoves ==
  ASSUME TypeOK, NEW t \in Threads
  PROVE  /\ AddLock(t) => Moved(t) /\ pc[t] = "add_lock" /\ pc'[t] = "add_head" /\ var'[t] = var[t]
         /\ RemoveLock(t) =>
              Moved(t) /\ pc[t] = "remove_lock" /\ pc'[t] = "remove_entry" /\ var'[t] = var[t]
BY WentTo DEF AddLock, RemoveLock, Places

(* The steps that end a call. *)
LEMMA ReturnMoves ==
  ASSUME TypeOK, NEW t \in Threads,
         AddHead(t) \/ AddCallback(t) \/ RemoveCallback(t) \/ Collected(t)
  PROVE  Moved(t) /\ pc'[t] = "client" /\ var'[t] = NoLocals
BY Returned DEF AddHead, AddCallback, RemoveCallback, Collected

(* The walk of the callbacks begins behind the head. *)
LEMMA LockCallbacksMoves ==
  ASSUME TypeOK, NEW t \in Threads, LockCallbacks(t)
  PROVE  /\ Moved(t) /\ pc[t] = "mark_start" /\ pc'[t] = "mark_callbacks"
         /\ var'[t].entry_next = links.next[callbacks] /\ var'[t].goto = var[t].goto
<1>1. links.next[callbacks] \in Nodes \cup {Nil} /\ "mark_callbacks" \in Places
  BY DEF TypeOK, Links, Nodes, Places, MarkPlaces
<1> QED  BY <1>1, SetNext DEF LockCallbacks

(* It ends at the head, or marks the data of one. *)
LEMMA InvokeCallbackMoves ==
  ASSUME TypeOK, Walks, NEW t \in Threads, InvokeCallback(t)
  PROVE  /\ Moved(t) /\ pc[t] = "mark_callbacks" /\ var'[t].goto = var[t].goto
         /\ callbacks_mutex = t
         /\ \/ /\ var[t].entry_next = callbacks /\ pc'[t] = "mark_globals"
               /\ var'[t].r = global_roots /\ callbacks_mutex' = Nil /\ UNCHANGED marked
            \/ /\ var[t].entry_next \in kept_cbs /\ pc'[t] = pc[t]
               /\ var'[t].entry_next = links.next[var[t].entry_next]
               /\ marked' = marked \cup {DataOf[var[t].entry_next]}
               /\ UNCHANGED callbacks_mutex
<1> DEFINE c == var[t].entry_next
<1>1. /\ pc[t] = "mark_callbacks" /\ callbacks_mutex = t /\ c \in kept_cbs \cup {callbacks}
      /\ pc[t] \in Places /\ "mark_globals" \in Places
  BY DEF InvokeCallback, Walks, Places, MarkPlaces
<1>2. CASE c = callbacks
  <2>1. global_roots \in Entries \cup {Nil}
    BY DEF TypeOK
  <2>2. var' = Set(t, "r", global_roots) /\ Goto(t, "mark_globals")
    BY <1>2 DEF InvokeCallback
  <2>3. Moved(t) /\ pc'[t] = "mark_globals" /\ var'[t].goto = var[t].goto
    BY <1>1, <2>1, <2>2, SetEntry
  <2>4. var'[t].r = global_roots
    BY <1>1, <2>1, <2>2, SetEntry
  <2> QED  BY <1>1, <1>2, <2>3, <2>4 DEF InvokeCallback
<1>3. CASE c # callbacks
  <2>1. c \in kept_cbs /\ links.next[c] \in Nodes \cup {Nil}
    BY <1>1, <1>3 DEF TypeOK, Links, Nodes
  <2>2. var' = Set(t, "entry_next", links.next[c]) /\ UNCHANGED pc
    BY <1>3 DEF InvokeCallback
  <2>3. Moved(t) /\ pc'[t] = pc[t] /\ var'[t].goto = var[t].goto
    BY <1>1, <2>1, <2>2, SetNext
  <2>4. var'[t].entry_next = links.next[c]
    BY <1>1, <2>1, <2>2, SetNext
  <2> QED  BY <1>1, <1>3, <2>1, <2>3, <2>4 DEF InvokeCallback
<1> QED  BY <1>2, <1>3

(* The walk of the list ends at Nil, or marks one entry. *)
LEMMA MarkGlobalMoves ==
  ASSUME TypeOK, NEW t \in Threads, MarkGlobal(t)
  PROVE  /\ Moved(t) /\ pc[t] = "mark_globals" /\ var'[t].goto = var[t].goto
         /\ \/ /\ var[t].r = Nil /\ pc'[t] = "mark_threads" /\ walking_threads' = TRUE
               /\ var'[t].entry_next = links.next[thread_list] /\ UNCHANGED marked
            \/ /\ var[t].r \in Entries /\ pc'[t] = pc[t]
               /\ var'[t].r = next[var[t].r] /\ UNCHANGED walking_threads
               /\ marked' = marked \cup Bound(bindings[var[t].r])
<1> DEFINE r == var[t].r
<1>1. /\ pc[t] = "mark_globals" /\ r \in Entries \cup {Nil}
      /\ pc[t] \in Places /\ "mark_threads" \in Places
  BY DEF MarkGlobal, TypeOK, Locals, Places, MarkPlaces
<1>2. CASE r = Nil
  <2>1. links.next[thread_list] \in Nodes \cup {Nil}
    BY DEF TypeOK, Links, Nodes
  <2>2. var' = Set(t, "entry_next", links.next[thread_list]) /\ Goto(t, "mark_threads")
    BY <1>2 DEF MarkGlobal
  <2>3. Moved(t) /\ pc'[t] = "mark_threads" /\ var'[t].goto = var[t].goto
    BY <1>1, <2>1, <2>2, SetNext
  <2>4. var'[t].entry_next = links.next[thread_list]
    BY <1>1, <2>1, <2>2, SetNext
  <2> QED  BY <1>1, <1>2, <2>3, <2>4 DEF MarkGlobal
<1>3. CASE r # Nil
  <2>1. r \in Entries /\ next[r] \in Entries \cup {Nil}
    BY <1>1, <1>3 DEF TypeOK
  <2>2. var' = Set(t, "r", next[r]) /\ UNCHANGED pc
    BY <1>3 DEF MarkGlobal
  <2>3. Moved(t) /\ pc'[t] = pc[t] /\ var'[t].goto = var[t].goto
    BY <1>1, <2>1, <2>2, SetEntry
  <2>4. var'[t].r = next[r]
    BY <1>1, <2>1, <2>2, SetEntry
  <2> QED  BY <1>1, <1>3, <2>1, <2>3, <2>4 DEF MarkGlobal
<1> QED  BY <1>2, <1>3

(* The walk of the threads ends at the head, or turns to one thread. *)
LEMMA MarkThreadMoves ==
  ASSUME TypeOK, FramesOK, Walks, NEW t \in Threads, MarkThread(t)
  PROVE  /\ Moved(t) /\ pc[t] = "mark_threads" /\ var'[t].goto = var[t].goto
         /\ \/ /\ var[t].entry_next = thread_list /\ pc'[t] = "marked"
               /\ walking_threads' = FALSE
            \/ /\ var[t].entry_next \in registered /\ pc'[t] = "mark_frames"
               /\ var'[t].entry = var[t].entry_next
               /\ var'[t].entry_next = links.next[var[t].entry_next]
               /\ var'[t].frame = Len(frames[var[t].entry_next])
               /\ UNCHANGED walking_threads
<1> DEFINE u == var[t].entry_next
<1>1. pc[t] = "mark_threads" /\ u \in registered \cup {thread_list} /\ "marked" \in Places
  BY DEF MarkThread, Walks, Places, MarkPlaces
<1>2. CASE u = thread_list
  <2>1. Goto(t, "marked") /\ UNCHANGED var
    BY <1>2 DEF MarkThread, EachEnds
  <2> QED  BY <1>1, <1>2, <2>1, WentTo DEF MarkThread, EachEnds
<1>3. CASE u # thread_list
  <2>1. /\ u \in registered /\ u \in Nodes /\ links.next[u] \in Nodes \cup {Nil}
        /\ Len(frames[u]) \in 0..MaxFrames
    BY <1>1, <1>3 DEF TypeOK, Links, Nodes, FramesOK
  <2>2. /\ Goto(t, "mark_frames")
        /\ var' = [var EXCEPT ![t] = [@ EXCEPT !.entry = u, !.entry_next = links.next[u],
                                               !.frame = Len(frames[u])]]
    BY <1>3 DEF MarkThread, EachEnds
  <2>3. Moved(t) /\ pc'[t] = "mark_frames" /\ var'[t].goto = var[t].goto
    BY <2>1, <2>2, SetThread
  <2>4. /\ var'[t].entry = u
        /\ var'[t].entry_next = links.next[u]
        /\ var'[t].frame = Len(frames[u])
    BY ZenonT(30), <2>1, <2>2, SetThread
  <2> QED  BY <1>1, <1>3, <2>1, <2>3, <2>4 DEF MarkThread, EachEnds
<1> QED  BY <1>2, <1>3

(* The walk of the frames ends at 0, or marks one frame. *)
LEMMA MarkFrameMoves ==
  ASSUME TypeOK, NEW t \in Threads, MarkFrame(t)
  PROVE  /\ Moved(t) /\ pc[t] = "mark_frames" /\ var'[t].goto = var[t].goto
         /\ \/ /\ var[t].frame = 0 /\ pc'[t] = "mark_threads" /\ var'[t] = var[t]
               /\ UNCHANGED marked
            \/ /\ var[t].frame \in 1..MaxFrames /\ pc'[t] = pc[t]
               /\ var[t].frame \in DOMAIN frames[var[t].entry]
               /\ var'[t].frame = var[t].frame - 1
               /\ var'[t].entry = var[t].entry /\ var'[t].entry_next = var[t].entry_next
               /\ marked' = marked \cup Bound(frames[var[t].entry][var[t].frame])
<1> DEFINE k == var[t].frame
<1>1. /\ pc[t] = "mark_frames" /\ "mark_threads" \in Places
      /\ k \in 0..MaxFrames
  BY DEF MarkFrame, TypeOK, Locals, Places, MarkPlaces
<1>2. CASE k = 0
  <2>1. Goto(t, "mark_threads") /\ UNCHANGED <<var, marked>>
    BY <1>2 DEF MarkFrame
  <2> QED  BY <1>1, <1>2, <2>1, WentTo
<1>3. CASE k # 0
  <2>1. k \in 1..MaxFrames /\ k - 1 \in 0..MaxFrames
    BY <1>1, <1>3, RootsAssumption
  <2>2. /\ var' = Set(t, "frame", k - 1) /\ UNCHANGED pc
        /\ k \in DOMAIN frames[var[t].entry]
        /\ marked' = marked \cup Bound(frames[var[t].entry][k])
    BY <1>3 DEF MarkFrame
  <2>3. Moved(t) /\ pc'[t] = pc[t] /\ var'[t].goto = var[t].goto
    BY <2>1, <2>2, SetFrame
  <2>4. /\ var'[t].frame = k - 1
        /\ var'[t].entry = var[t].entry /\ var'[t].entry_next = var[t].entry_next
    BY <2>1, <2>2, SetFrame
  <2> QED  BY <1>1, <1>3, <2>1, <2>2, <2>3, <2>4
<1> QED  BY <1>2, <1>3

(* A remove ends at Nil, frees the entry it is at, or clears it and goes on. *)
LEMMA RemoveEntryMoves ==
  ASSUME TypeOK, TheList, NEW t \in Threads, RemoveEntry(t)
  PROVE  /\ Moved(t) /\ pc[t] = "remove_entry"
         /\ \/ /\ Here(t) = Nil /\ pc'[t] = "client" /\ var'[t] = NoLocals
               /\ global_roots_mutex' = Nil /\ UNCHANGED <<global_roots, next, bindings, used>>
            \/ /\ Here(t) \in Listed /\ FreesEntry(Here(t), var[t].roots)
               /\ pc'[t] = pc[t] /\ var'[t] = var[t] /\ UNCHANGED global_roots_mutex
               /\ StoreRp(t, next[Here(t)]) /\ used' = used \ {Here(t)}
               /\ bindings' = [bindings EXCEPT ![Here(t)] = <<>>]
            \/ /\ Here(t) \in Listed /\ ~ FreesEntry(Here(t), var[t].roots)
               /\ pc'[t] = pc[t] /\ var'[t].goto = var[t].goto
               /\ var'[t].roots = var[t].roots /\ var'[t].rp = Here(t)
               /\ UNCHANGED <<global_roots, next, used, global_roots_mutex>>
               /\ bindings' = [bindings EXCEPT ![Here(t)] = ClearedEntry(Here(t), var[t].roots)]
<1> DEFINE r == Here(t)
<1>1. pc[t] = "remove_entry" /\ var[t].rp \in Listed \cup {Nil} /\ var[t].rp \in Entries \cup {Nil}
  BY DEF RemoveEntry, TheList, TypeOK, Locals
<1>2. r \in Listed \cup {Nil} /\ Listed \subseteq Entries
  <2>1. next \in [Entries -> Entries \cup {Nil}] /\ global_roots \in Entries \cup {Nil}
    BY DEF TypeOK
  <2> QED  BY <1>1, <2>1, ListClosed DEF Here, Listed
<1>3. r = IF var[t].rp = Nil THEN global_roots ELSE next[var[t].rp]
  BY DEF Here
<1> HIDE DEF r
<1>4. CASE r = Nil
  <2>1. /\ Return(t) /\ global_roots_mutex' = Nil
        /\ UNCHANGED <<global_roots, next, bindings, used>>
    BY <1>3, <1>4 DEF RemoveEntry
  <2> QED  BY <1>1, <1>4, <2>1, Returned DEF r
<1>5. CASE r # Nil /\ FreesEntry(r, var[t].roots)
  <2>1. /\ StoreRp(t, next[r]) /\ used' = used \ {r}
        /\ bindings' = [bindings EXCEPT ![r] = <<>>]
        /\ UNCHANGED <<var, pc, global_roots_mutex>>
    BY <1>3, <1>5 DEF RemoveEntry
  <2> QED  BY <1>1, <1>2, <1>5, <2>1, Stayed DEF r
<1>6. CASE r # Nil /\ ~ FreesEntry(r, var[t].roots)
  <2>1. /\ var' = [var EXCEPT ![t].rp = r] /\ UNCHANGED pc
        /\ UNCHANGED <<global_roots, next, used, global_roots_mutex>>
        /\ bindings' = [bindings EXCEPT ![r] =
             [j \in DOMAIN @ |-> IF j \in ClearedIn(r, var[t].roots) THEN NoBinding ELSE @[j]]]
    BY <1>3, <1>6 DEF RemoveEntry
  <2>0. bindings' = [bindings EXCEPT ![r] = ClearedEntry(r, var[t].roots)]
    BY <2>1 DEF ClearedEntry
  <2>2. r \in Entries
    BY <1>2, <1>6
  <2>3. Moved(t) /\ pc'[t] = pc[t] /\ var'[t].goto = var[t].goto
    BY <2>1, <2>2, SetRp
  <2>4. var'[t].rp = r /\ var'[t].roots = var[t].roots
    BY <2>1, <2>2, SetRp
  <2> QED  BY <1>1, <1>2, <1>6, <2>0, <2>1, <2>3, <2>4 DEF r
<1> QED  BY <1>4, <1>5, <1>6

-----------------------------------------------------------------------------
(* Every part of the invariant is kept by every step.                      *)

(* A step moves one thread. *)
LEMMA StepMoves ==
  ASSUME TypeOK, FirstCallAlone, FramesOK, Walks, TheList, NEW t \in Threads,
         Client(t) \/ Step(t)
  PROVE  Moved(t)
<1>1. CASE smal_thread_self(t)
  BY <1>1, ClientStays
<1>2. CASE smal_roots_end(t)
  BY <1>2, ClientStays
<1>3. ASSUME NEW f \in Frames, smal_roots_begin(t, f) PROVE Moved(t)
  BY <1>3, ClientStays
<1>4. ASSUME NEW f \in Frames, smal_roots_add_global(t, f) PROVE Moved(t)
  BY <1>4, AddGlobalMoves
<1>5. ASSUME NEW f \in Frames, smal_roots_remove_global(t, f) PROVE Moved(t)
  BY <1>5, RemoveGlobalMoves
<1>6. CASE smal_roots_add_callback(t)
  BY <1>6, AddCallbackCall
<1>7. CASE smal_roots_remove_callback(t)
  BY <1>7, RemoveCallbackCall
<1>8. CASE smal_roots_mark_chain(t)
  BY <1>8, MarkChainMoves
<1>9. CASE Once(t)
  BY <1>9, OnceMoves
<1>10. CASE AddLock(t)
  BY <1>10, LockMoves
<1>11. CASE AddHead(t)
  BY <1>11, ReturnMoves
<1>12. CASE RemoveLock(t)
  BY <1>12, LockMoves
<1>13. CASE RemoveEntry(t)
  BY <1>13, RemoveEntryMoves
<1>14. CASE AddCallback(t)
  BY <1>14, ReturnMoves
<1>15. CASE RemoveCallback(t)
  BY <1>15, ReturnMoves
<1>16. CASE LockCallbacks(t)
  BY <1>16, LockCallbacksMoves
<1>17. CASE InvokeCallback(t)
  BY <1>17, InvokeCallbackMoves
<1>18. CASE MarkGlobal(t)
  BY <1>18, MarkGlobalMoves
<1>19. CASE MarkThread(t)
  BY <1>19, MarkThreadMoves
<1>20. CASE MarkFrame(t)
  BY <1>20, MarkFrameMoves
<1>21. CASE Collected(t)
  BY <1>21, ReturnMoves
<1> QED  BY <1>1, <1>2, <1>3, <1>4, <1>5, <1>6, <1>7, <1>8, <1>9, <1>10, <1>11, <1>12,
     <1>13, <1>14, <1>15, <1>16, <1>17, <1>18, <1>19, <1>20, <1>21 DEF Client, Step

(* A thread stays in its call, or returns. *)
LEMMA CallsStep ==
  ASSUME TypeOK, FirstCallAlone, FramesOK, Calls, Walks, TheList, NEW t \in Threads,
         Client(t) \/ Step(t)
  PROVE  Calls'
<1>c. CallOf(t)
  BY DEF Calls, CallOf
<1>m. Moved(t)
  BY StepMoves
<1> SUFFICES CallOf(t)'
  BY <1>m DEF Calls, CallOf, Moved
<1>1. CASE smal_thread_self(t)
  BY <1>1, ClientStays, NoLocalsFields, <1>c DEF CallOf, InCall, MarkPlaces
<1>2. CASE smal_roots_end(t)
  BY <1>2, ClientStays, NoLocalsFields, <1>c DEF CallOf, InCall, MarkPlaces
<1>3. ASSUME NEW f \in Frames, smal_roots_begin(t, f) PROVE CallOf(t)'
  BY <1>3, ClientStays, NoLocalsFields, <1>c DEF CallOf, InCall, MarkPlaces
<1>4. ASSUME NEW f \in Frames, smal_roots_add_global(t, f) PROVE CallOf(t)'
  BY <1>4, AddGlobalMoves, NoLocalsFields, <1>c DEF CallOf, InCall, MarkPlaces
<1>5. ASSUME NEW f \in Frames, smal_roots_remove_global(t, f) PROVE CallOf(t)'
  BY <1>5, RemoveGlobalMoves, NoLocalsFields, <1>c DEF CallOf, InCall, MarkPlaces
<1>6. CASE smal_roots_add_callback(t)
  BY <1>6, AddCallbackCall, NoLocalsFields, <1>c DEF CallOf, InCall, MarkPlaces
<1>7. CASE smal_roots_remove_callback(t)
  BY <1>7, RemoveCallbackCall, NoLocalsFields, <1>c DEF CallOf, InCall, MarkPlaces
<1>8. CASE smal_roots_mark_chain(t)
  BY <1>8, MarkChainMoves, NoLocalsFields, <1>c DEF CallOf, InCall, MarkPlaces
<1>9. CASE Once(t)
  BY <1>9, OnceMoves, NoLocalsFields, <1>c DEF CallOf, InCall, MarkPlaces
<1>10. CASE AddLock(t)
  BY <1>10, LockMoves, NoLocalsFields, <1>c DEF CallOf, InCall, MarkPlaces
<1>11. CASE AddHead(t)
  BY <1>11, ReturnMoves, NoLocalsFields, <1>c DEF CallOf, InCall, MarkPlaces
<1>12. CASE RemoveLock(t)
  BY <1>12, LockMoves, NoLocalsFields, <1>c DEF CallOf, InCall, MarkPlaces
<1>13. CASE RemoveEntry(t)
  BY <1>13, RemoveEntryMoves, NoLocalsFields, <1>c DEF CallOf, InCall, MarkPlaces
<1>14. CASE AddCallback(t)
  BY <1>14, ReturnMoves, NoLocalsFields, <1>c DEF CallOf, InCall, MarkPlaces
<1>15. CASE RemoveCallback(t)
  BY <1>15, ReturnMoves, NoLocalsFields, <1>c DEF CallOf, InCall, MarkPlaces
<1>16. CASE LockCallbacks(t)
  BY <1>16, LockCallbacksMoves, NoLocalsFields, <1>c DEF CallOf, InCall, MarkPlaces
<1>17. CASE InvokeCallback(t)
  BY <1>17, InvokeCallbackMoves, NoLocalsFields, <1>c DEF CallOf, InCall, MarkPlaces
<1>18. CASE MarkGlobal(t)
  BY <1>18, MarkGlobalMoves, NoLocalsFields, <1>c DEF CallOf, InCall, MarkPlaces
<1>19. CASE MarkThread(t)
  BY <1>19, MarkThreadMoves, NoLocalsFields, <1>c DEF CallOf, InCall, MarkPlaces
<1>20. CASE MarkFrame(t)
  BY <1>20, MarkFrameMoves, NoLocalsFields, <1>c DEF CallOf, InCall, MarkPlaces
<1>21. CASE Collected(t)
  BY <1>21, ReturnMoves, NoLocalsFields, <1>c DEF CallOf, InCall, MarkPlaces
<1> QED  BY <1>1, <1>2, <1>3, <1>4, <1>5, <1>6, <1>7, <1>8, <1>9, <1>10, <1>11, <1>12,
     <1>13, <1>14, <1>15, <1>16, <1>17, <1>18, <1>19, <1>20, <1>21 DEF Client, Step

(* A frame is pushed, or popped. *)
LEMMA PushFrame ==
  ASSUME NEW s \in Seq(Frames), NEW f \in Frames
  PROVE  /\ Append(s, f) \in Seq(Frames) /\ Len(Append(s, f)) = Len(s) + 1
         /\ \A i \in DOMAIN s : i \in DOMAIN Append(s, f) /\ Append(s, f)[i] = s[i]
OBVIOUS

(* What is left of the frames when the last one ends. *)
LEMMA PopFrame ==
  ASSUME NEW s \in Seq(Frames), s # <<>>
  PROVE  /\ SubSeq(s, 1, Len(s) - 1) \in Seq(Frames)
         /\ Len(SubSeq(s, 1, Len(s) - 1)) = Len(s) - 1 /\ Len(s) \in Nat \ {0}
<1>1. Len(s) \in Nat \ {0}
  OBVIOUS
<1>2. \A i \in 1..(Len(s) - 1) : s[i] \in Frames
  BY <1>1, ElementOfSeq
<1> DEFINE n == Len(s) - 1
<1>3. n \in Nat
  BY <1>1
<1>4. SubSeq(s, 1, n) \in Seq(Frames) /\ Len(SubSeq(s, 1, n)) = IF 1 <= n THEN n - 1 + 1 ELSE 0
  BY <1>2, <1>3, SubSeqProperties
<1> HIDE DEF n
<1>5. (IF 1 <= n THEN n - 1 + 1 ELSE 0) = n
  BY <1>3
<1>6. Len(SubSeq(s, 1, n)) = n
  BY <1>4, <1>5
<1> QED  BY <1>1, <1>4, <1>6 DEF n

(* The first call goes on alone until its once has run. *)
LEMMA FirstCallStep ==
  ASSUME TypeOK, FirstCallAlone, FramesOK, Calls, Walks, TheList, FirstCall,
         NEW t \in Threads, Client(t) \/ Step(t)
  PROVE  FirstCall'
<1>c. CallOf(t)
  BY DEF Calls
<1>m. Moved(t)
  BY StepMoves
<1>1. CASE smal_thread_self(t)
  BY <1>1, ClientStays, <1>c, <1>m
  DEF CallOf, InCall, FirstCall, Moved, MarkPlaces, cbs, smal_thread_self, thread_init
<1>2. CASE smal_roots_end(t)
  BY <1>2, ClientStays, <1>c, <1>m
  DEF CallOf, InCall, FirstCall, Moved, MarkPlaces, cbs, smal_roots_end
<1>3. ASSUME NEW f \in Frames, smal_roots_begin(t, f) PROVE FirstCall'
  BY <1>3, ClientStays, <1>c, <1>m
  DEF CallOf, InCall, FirstCall, Moved, MarkPlaces, cbs, smal_roots_begin
<1>4. ASSUME NEW f \in Frames, smal_roots_add_global(t, f) PROVE FirstCall'
  BY ZenonT(30), <1>4, AddGlobalMoves, <1>c, <1>m
  DEF CallOf, InCall, FirstCall, Moved, MarkPlaces, cbs, smal_roots_add_global
<1>5. ASSUME NEW f \in Frames, smal_roots_remove_global(t, f) PROVE FirstCall'
  BY ZenonT(30), <1>5, RemoveGlobalMoves, <1>c, <1>m
  DEF CallOf, InCall, FirstCall, Moved, MarkPlaces, cbs, smal_roots_remove_global
<1>6. CASE smal_roots_add_callback(t)
  BY <1>6, AddCallbackCall, <1>c, <1>m
  DEF CallOf, InCall, FirstCall, Moved, MarkPlaces, cbs, smal_roots_add_callback
<1>7. CASE smal_roots_remove_callback(t)
  BY <1>7, RemoveCallbackCall, <1>c, <1>m
  DEF CallOf, InCall, FirstCall, Moved, MarkPlaces, cbs, smal_roots_remove_callback
<1>8. CASE smal_roots_mark_chain(t)
  BY <1>8, MarkChainMoves, <1>c, <1>m
  DEF CallOf, InCall, FirstCall, Moved, MarkPlaces, cbs, smal_roots_mark_chain
<1>9. CASE Once(t)
  BY <1>9, OnceMoves, <1>c, <1>m DEF CallOf, InCall, FirstCall, Moved, MarkPlaces, cbs, Once
<1>10. CASE AddLock(t)
  BY <1>10, LockMoves, <1>c, <1>m
  DEF CallOf, InCall, FirstCall, Moved, MarkPlaces, cbs, AddLock
<1>11. CASE AddHead(t)
  BY <1>11, ReturnMoves, <1>c, <1>m
  DEF CallOf, InCall, FirstCall, Moved, MarkPlaces, cbs, AddHead
<1>12. CASE RemoveLock(t)
  BY <1>12, LockMoves, <1>c, <1>m
  DEF CallOf, InCall, FirstCall, Moved, MarkPlaces, cbs, RemoveLock
<1>13. CASE RemoveEntry(t)
  BY <1>13, RemoveEntryMoves, <1>c, <1>m
  DEF CallOf, InCall, FirstCall, Moved, MarkPlaces, cbs, RemoveEntry
<1>14. CASE AddCallback(t)
  BY <1>14, ReturnMoves, <1>c, <1>m
  DEF CallOf, InCall, FirstCall, Moved, MarkPlaces, cbs, AddCallback
<1>15. CASE RemoveCallback(t)
  BY <1>15, ReturnMoves, <1>c, <1>m
  DEF CallOf, InCall, FirstCall, Moved, MarkPlaces, cbs, RemoveCallback
<1>16. CASE LockCallbacks(t)
  BY <1>16, LockCallbacksMoves, <1>c, <1>m
  DEF CallOf, InCall, FirstCall, Moved, MarkPlaces, cbs, LockCallbacks
<1>17. CASE InvokeCallback(t)
  BY <1>17, InvokeCallbackMoves, <1>c, <1>m
  DEF CallOf, InCall, FirstCall, Moved, MarkPlaces, cbs, InvokeCallback
<1>18. CASE MarkGlobal(t)
  BY <1>18, MarkGlobalMoves, <1>c, <1>m
  DEF CallOf, InCall, FirstCall, Moved, MarkPlaces, cbs, MarkGlobal
<1>19. CASE MarkThread(t)
  BY <1>19, MarkThreadMoves, <1>c, <1>m
  DEF CallOf, InCall, FirstCall, Moved, MarkPlaces, cbs, MarkThread
<1>20. CASE MarkFrame(t)
  BY <1>20, MarkFrameMoves, <1>c, <1>m
  DEF CallOf, InCall, FirstCall, Moved, MarkPlaces, cbs, MarkFrame
<1>21. CASE Collected(t)
  BY <1>21, ReturnMoves, <1>c, <1>m
  DEF CallOf, InCall, FirstCall, Moved, MarkPlaces, cbs, Collected
<1> QED  BY <1>1, <1>2, <1>3, <1>4, <1>5, <1>6, <1>7, <1>8, <1>9, <1>10, <1>11, <1>12,
     <1>13, <1>14, <1>15, <1>16, <1>17, <1>18, <1>19, <1>20, <1>21 DEF Client, Step

(* Only known threads have frames, and not too many. *)
LEMMA FramesStep ==
  ASSUME TypeOK, FirstCallAlone, FramesOK, Calls, Walks, TheList, FirstCall,
         NEW t \in Threads, Client(t) \/ Step(t)
  PROVE  FramesOK'
<1>c. CallOf(t)
  BY DEF Calls
<1>m. Moved(t)
  BY StepMoves
<1>1. CASE smal_thread_self(t)
  BY <1>1, ClientStays DEF FramesOK, TypeOK, smal_thread_self, thread_init, thrs
<1>2. CASE smal_roots_end(t)
  <2>1. /\ frames \in [Threads -> Seq(Frames)] /\ frames[t] \in Seq(Frames) /\ frames[t] # <<>>
        /\ frames' = [frames EXCEPT ![t] = SubSeq(frames[t], 1, Len(frames[t]) - 1)]
        /\ UNCHANGED registered
    BY <1>2 DEF smal_roots_end, TypeOK, thrs
  <2>2. /\ Len(SubSeq(frames[t], 1, Len(frames[t]) - 1)) = Len(frames[t]) - 1
        /\ Len(frames[t]) \in Nat \ {0}
    BY <2>1, PopFrame
  <2>3. t \in registered
    BY <2>1 DEF FramesOK
  <2> QED  BY <2>1, <2>2, <2>3, RootsAssumption DEF FramesOK
<1>3. ASSUME NEW f \in Frames, smal_roots_begin(t, f) PROVE FramesOK'
  <2>1. /\ frames \in [Threads -> Seq(Frames)] /\ frames[t] \in Seq(Frames)
        /\ frames' = [frames EXCEPT ![t] = Append(frames[t], f)]
        /\ t \in registered /\ Len(frames[t]) < MaxFrames /\ UNCHANGED registered
    BY <1>3 DEF smal_roots_begin, TypeOK, thrs
  <2>2. Len(Append(frames[t], f)) = Len(frames[t]) + 1 /\ Len(frames[t]) \in Nat
    BY <2>1, PushFrame
  <2> QED  BY <2>1, <2>2, RootsAssumption DEF FramesOK
<1>4. ASSUME NEW f \in Frames, smal_roots_add_global(t, f) PROVE FramesOK'
  BY <1>4, AddGlobalMoves DEF FramesOK, TypeOK, smal_roots_add_global, thrs
<1>5. ASSUME NEW f \in Frames, smal_roots_remove_global(t, f) PROVE FramesOK'
  BY <1>5, RemoveGlobalMoves DEF FramesOK, TypeOK, smal_roots_remove_global, thrs
<1>6. CASE smal_roots_add_callback(t)
  BY <1>6, AddCallbackCall DEF FramesOK, TypeOK, smal_roots_add_callback, thrs
<1>7. CASE smal_roots_remove_callback(t)
  BY <1>7, RemoveCallbackCall DEF FramesOK, TypeOK, smal_roots_remove_callback, thrs
<1>8. CASE smal_roots_mark_chain(t)
  BY <1>8, MarkChainMoves DEF FramesOK, TypeOK, smal_roots_mark_chain, thrs
<1>9. CASE Once(t)
  BY <1>9, OnceMoves DEF FramesOK, TypeOK, Once, thrs
<1>10. CASE AddLock(t)
  BY <1>10, LockMoves DEF FramesOK, TypeOK, AddLock, thrs
<1>11. CASE AddHead(t)
  BY <1>11, ReturnMoves DEF FramesOK, TypeOK, AddHead, thrs
<1>12. CASE RemoveLock(t)
  BY <1>12, LockMoves DEF FramesOK, TypeOK, RemoveLock, thrs
<1>13. CASE RemoveEntry(t)
  BY <1>13, RemoveEntryMoves DEF FramesOK, TypeOK, RemoveEntry, thrs
<1>14. CASE AddCallback(t)
  BY <1>14, ReturnMoves DEF FramesOK, TypeOK, AddCallback, thrs
<1>15. CASE RemoveCallback(t)
  BY <1>15, ReturnMoves DEF FramesOK, TypeOK, RemoveCallback, thrs
<1>16. CASE LockCallbacks(t)
  BY <1>16, LockCallbacksMoves DEF FramesOK, TypeOK, LockCallbacks, thrs
<1>17. CASE InvokeCallback(t)
  BY <1>17, InvokeCallbackMoves DEF FramesOK, TypeOK, InvokeCallback, thrs
<1>18. CASE MarkGlobal(t)
  BY <1>18, MarkGlobalMoves DEF FramesOK, TypeOK, MarkGlobal, thrs
<1>19. CASE MarkThread(t)
  BY <1>19, MarkThreadMoves DEF FramesOK, TypeOK, MarkThread, thrs
<1>20. CASE MarkFrame(t)
  BY <1>20, MarkFrameMoves DEF FramesOK, TypeOK, MarkFrame, thrs
<1>21. CASE Collected(t)
  BY <1>21, ReturnMoves DEF FramesOK, TypeOK, Collected, thrs
<1> QED  BY <1>1, <1>2, <1>3, <1>4, <1>5, <1>6, <1>7, <1>8, <1>9, <1>10, <1>11, <1>12,
     <1>13, <1>14, <1>15, <1>16, <1>17, <1>18, <1>19, <1>20, <1>21 DEF Client, Step

(* The callback of a call stays what it is. *)
LEMMA HandlesStep ==
  ASSUME TypeOK, FirstCallAlone, FramesOK, Calls, Walks, TheList, FirstCall, HandlesOK,
         NEW t \in Threads, Client(t) \/ Step(t)
  PROVE  HandlesOK'
<1>c. CallOf(t)
  BY DEF Calls
<1>m. Moved(t)
  BY StepMoves
<1>o. ASSUME UNCHANGED kept_cbs, var'[t].goto \notin {"add_callback", "remove_callback"}
      PROVE  HandlesOK'
  BY <1>m, <1>o DEF HandlesOK, Moved
<1>1. CASE smal_thread_self(t)
  BY <1>1, ClientStays, <1>c, <1>m, NoLocalsFields
  DEF CallOf, InCall, HandlesOK, Moved, MarkPlaces, cbs, smal_thread_self, thread_init
<1>2. CASE smal_roots_end(t)
  BY <1>2, ClientStays, <1>c, <1>m, NoLocalsFields
  DEF CallOf, InCall, HandlesOK, Moved, MarkPlaces, cbs, smal_roots_end
<1>3. ASSUME NEW f \in Frames, smal_roots_begin(t, f) PROVE HandlesOK'
  BY <1>3, ClientStays, <1>c, <1>m, NoLocalsFields
  DEF CallOf, InCall, HandlesOK, Moved, MarkPlaces, cbs, smal_roots_begin
<1>4. ASSUME NEW f \in Frames, smal_roots_add_global(t, f) PROVE HandlesOK'
  BY <1>4, AddGlobalMoves, <1>c, <1>o
  DEF CallOf, InCall, MarkPlaces, smal_roots_add_global, cbs
<1>5. ASSUME NEW f \in Frames, smal_roots_remove_global(t, f) PROVE HandlesOK'
  BY <1>5, RemoveGlobalMoves, <1>c, <1>o
  DEF CallOf, InCall, MarkPlaces, smal_roots_remove_global, cbs
<1>6. CASE smal_roots_add_callback(t)
  <2>1. /\ var'[t].goto = "add_callback" /\ var'[t].entry \in Callbacks \ (kept_cbs \cup Handles)
        /\ UNCHANGED kept_cbs
    BY <1>6, AddCallbackCall DEF smal_roots_add_callback, cbs
  <2>2. \A u \in Threads \ {t} : var[u].entry # var'[t].entry
    BY <2>1 DEF Handles
  <2> QED  BY <1>m, <2>1, <2>2 DEF HandlesOK, Moved
<1>7. CASE smal_roots_remove_callback(t)
  <2>1. /\ var'[t].goto = "remove_callback" /\ var'[t].entry \in kept_cbs \ Handles
        /\ UNCHANGED kept_cbs
    BY <1>7, RemoveCallbackCall DEF smal_roots_remove_callback, cbs
  <2>2. \A u \in Threads \ {t} : var[u].entry # var'[t].entry
    BY <2>1 DEF Handles
  <2> QED  BY <1>m, <2>1, <2>2 DEF HandlesOK, Moved
<1>8. CASE smal_roots_mark_chain(t)
  BY <1>8, MarkChainMoves, <1>c, <1>o
  DEF CallOf, InCall, MarkPlaces, smal_roots_mark_chain, cbs
<1>9. CASE Once(t)
  BY <1>9, OnceMoves, <1>c, <1>m, NoLocalsFields
  DEF CallOf, InCall, HandlesOK, Moved, MarkPlaces, cbs, Once
<1>10. CASE AddLock(t)
  BY <1>10, LockMoves, <1>c, <1>m, NoLocalsFields
  DEF CallOf, InCall, HandlesOK, Moved, MarkPlaces, cbs, AddLock
<1>11. CASE AddHead(t)
  BY <1>11, ReturnMoves, <1>c, <1>m, NoLocalsFields
  DEF CallOf, InCall, HandlesOK, Moved, MarkPlaces, cbs, AddHead
<1>12. CASE RemoveLock(t)
  BY <1>12, LockMoves, <1>c, <1>m, NoLocalsFields
  DEF CallOf, InCall, HandlesOK, Moved, MarkPlaces, cbs, RemoveLock
<1>13. CASE RemoveEntry(t)
  <2>1. var'[t].goto \notin {"add_callback", "remove_callback"}
    <3>1. pc[t] = "remove_entry" /\ var[t].goto = "remove_lock"
      BY <1>13, <1>c DEF CallOf, InCall, RemoveEntry, MarkPlaces
    <3> QED  BY <1>13, <3>1, RemoveEntryMoves, NoLocalsFields
  <2>2. UNCHANGED kept_cbs
    BY <1>13 DEF RemoveEntry, cbs
  <2> QED  BY <1>m, <2>1, <2>2 DEF HandlesOK, Moved
<1>14. CASE AddCallback(t)
  BY <1>14, ReturnMoves, <1>c, <1>m, NoLocalsFields
  DEF CallOf, InCall, HandlesOK, Moved, MarkPlaces, cbs, AddCallback
<1>15. CASE RemoveCallback(t)
  BY <1>15, ReturnMoves, <1>c, <1>m, NoLocalsFields
  DEF CallOf, InCall, HandlesOK, Moved, MarkPlaces, cbs, RemoveCallback
<1>16. CASE LockCallbacks(t)
  BY <1>16, LockCallbacksMoves, <1>c, <1>m, NoLocalsFields
  DEF CallOf, InCall, HandlesOK, Moved, MarkPlaces, cbs, LockCallbacks
<1>17. CASE InvokeCallback(t)
  BY <1>17, InvokeCallbackMoves, <1>c, <1>m, NoLocalsFields
  DEF CallOf, InCall, HandlesOK, Moved, MarkPlaces, cbs, InvokeCallback
<1>18. CASE MarkGlobal(t)
  BY <1>18, MarkGlobalMoves, <1>c, <1>o DEF CallOf, InCall, MarkPlaces, MarkGlobal, cbs
<1>19. CASE MarkThread(t)
  BY <1>19, MarkThreadMoves, <1>c, <1>o DEF CallOf, InCall, MarkPlaces, MarkThread, cbs
<1>20. CASE MarkFrame(t)
  BY <1>20, MarkFrameMoves, <1>c, <1>m, NoLocalsFields
  DEF CallOf, InCall, HandlesOK, Moved, MarkPlaces, cbs, MarkFrame
<1>21. CASE Collected(t)
  BY <1>21, ReturnMoves, <1>c, <1>m, NoLocalsFields
  DEF CallOf, InCall, HandlesOK, Moved, MarkPlaces, cbs, Collected
<1> QED  BY <1>1, <1>2, <1>3, <1>4, <1>5, <1>6, <1>7, <1>8, <1>9, <1>10, <1>11, <1>12,
     <1>13, <1>14, <1>15, <1>16, <1>17, <1>18, <1>19, <1>20, <1>21 DEF Client, Step

(* The adds have entries of their own, and the mutex is held by one thread. *)
LEMMA AddersStep ==
  ASSUME TypeOK, FirstCallAlone, FramesOK, Calls, Walks, TheList, FirstCall, Adders,
         NEW t \in Threads, Client(t) \/ Step(t)
  PROVE  Adders'
<1>c. CallOf(t)
  BY DEF Calls
<1>m. Moved(t)
  BY StepMoves
<1>o. ASSUME UNCHANGED <<used, bindings, next, global_roots, global_roots_mutex>>,
             var'[t].goto # "add_lock", pc'[t] \notin {"add_head", "remove_entry"}
      PROVE  Adders'
  BY <1>m, <1>o DEF Adders, Moved
<1>n. Nil \notin Threads
  BY RootsAssumption
<1>1. CASE smal_thread_self(t)
  BY <1>1, ClientStays, <1>c, <1>m, NoLocalsFields
  DEF CallOf, InCall, Adders, Moved, MarkPlaces, globals, smal_thread_self, thread_init
<1>2. CASE smal_roots_end(t)
  BY <1>2, ClientStays, <1>c, <1>m, NoLocalsFields
  DEF CallOf, InCall, Adders, Moved, MarkPlaces, globals, smal_roots_end
<1>3. ASSUME NEW f \in Frames, smal_roots_begin(t, f) PROVE Adders'
  BY <1>3, ClientStays, <1>c, <1>m, NoLocalsFields
  DEF CallOf, InCall, Adders, Moved, MarkPlaces, globals, smal_roots_begin
<1>4. ASSUME NEW f \in Frames, smal_roots_add_global(t, f) PROVE Adders'
  <2>1. /\ var'[t].goto = "add_lock" /\ var'[t].roots = f /\ var'[t].r \in Entries \ used
        /\ used' = used \cup {var'[t].r} /\ bindings' = [bindings EXCEPT ![var'[t].r] = f]
        /\ UNCHANGED <<next, global_roots, global_roots_mutex>>
        /\ pc'[t] \in {"add_lock", "once"}
    BY <1>4, AddGlobalMoves DEF smal_roots_add_global
  <2>2. bindings \in [Entries -> Seq(Vars \cup {NoBinding})]
    BY DEF TypeOK
  <2> DEFINE e == var'[t].r
  <2> HIDE DEF e
  <2>3. bindings'[e] = f /\ \A x \in Entries \ {e} : bindings'[x] = bindings[x]
    BY <2>1, <2>2 DEF e
  <2>4. \A u \in Threads \ {t} : var[u].goto = "add_lock" => var[u].r \in Entries \ {e}
    BY <2>1 DEF Adders, TypeOK, e
  <2> QED  BY <1>m, <2>1, <2>3, <2>4 DEF Adders, Moved, e
<1>5. ASSUME NEW f \in Frames, smal_roots_remove_global(t, f) PROVE Adders'
  BY <1>5, RemoveGlobalMoves, <1>c, <1>o
  DEF CallOf, InCall, MarkPlaces, smal_roots_remove_global, globals
<1>6. CASE smal_roots_add_callback(t)
  BY <1>6, AddCallbackCall, <1>c, <1>o
  DEF CallOf, InCall, MarkPlaces, smal_roots_add_callback, globals
<1>7. CASE smal_roots_remove_callback(t)
  BY <1>7, RemoveCallbackCall, <1>c, <1>o
  DEF CallOf, InCall, MarkPlaces, smal_roots_remove_callback, globals
<1>8. CASE smal_roots_mark_chain(t)
  BY <1>8, MarkChainMoves, <1>c, <1>o
  DEF CallOf, InCall, MarkPlaces, smal_roots_mark_chain, globals
<1>9. CASE Once(t)
  BY <1>9, OnceMoves, <1>c, <1>m, NoLocalsFields
  DEF CallOf, InCall, Adders, Moved, MarkPlaces, globals, Once
<1>10. CASE AddLock(t)
  <2>1. /\ pc'[t] = "add_head" /\ var'[t] = var[t] /\ global_roots_mutex' = t
        /\ next' = [next EXCEPT ![var[t].r] = global_roots] /\ global_roots_mutex = Nil
        /\ var[t].goto = "add_lock" /\ UNCHANGED <<used, bindings, global_roots>>
    BY <1>10, <1>c, LockMoves DEF AddLock, CallOf, InCall, MarkPlaces
  <2>2. next'[var[t].r] = global_roots
    BY <2>1 DEF Adders, TypeOK
  <2> QED  BY <1>m, <1>n, <2>1, <2>2 DEF Adders, Moved
<1>11. CASE AddHead(t)
  BY <1>11, ReturnMoves, <1>c, <1>m, NoLocalsFields
  DEF CallOf, InCall, Adders, Moved, MarkPlaces, globals, AddHead
<1>12. CASE RemoveLock(t)
  <2>1. /\ pc'[t] = "remove_entry" /\ var'[t] = var[t] /\ global_roots_mutex' = t
        /\ global_roots_mutex = Nil
        /\ var[t].goto = "remove_lock" /\ UNCHANGED <<used, bindings, global_roots, next>>
    BY <1>12, <1>c, LockMoves DEF RemoveLock, CallOf, InCall, MarkPlaces
  <2> QED  BY <1>m, <1>n, <2>1 DEF Adders, Moved
<1>13. CASE RemoveEntry(t)
  <2> DEFINE e == Here(t)
  <2>1. /\ pc[t] = "remove_entry" /\ global_roots_mutex = t
        /\ \A u \in Threads \ {t} : pc[u] \notin {"add_head", "remove_entry"}
        /\ var[t].goto = "remove_lock"
    BY <1>13, <1>c DEF RemoveEntry, Adders, CallOf, InCall, MarkPlaces
  <2>2. CASE UNCHANGED <<used, bindings>> /\ pc'[t] = "client" /\ var'[t] = NoLocals
    BY <1>m, <2>1, <2>2, NoLocalsFields DEF Adders, Moved
  <2>3. ASSUME NEW b, e \in Listed, used' \in {used, used \ {e}}, pc'[t] = pc[t],
               var'[t].goto = var[t].goto, UNCHANGED global_roots_mutex,
               bindings' = [bindings EXCEPT ![e] = b]
        PROVE  Adders'
    <3>1. e \in used /\ \A u \in Threads : var[u].goto = "add_lock" => var[u].r # e
      BY <2>3 DEF TheList, Adding
    <3>2. \A x \in used \ {e} : bindings'[x] = bindings[x] /\ x \in used'
      BY <2>3 DEF TypeOK
    <3> HIDE DEF e
    <3> QED  BY <1>m, <2>1, <2>3, <3>1, <3>2 DEF Adders, Moved
  <2> QED  BY <1>13, RemoveEntryMoves, <2>2, <2>3
<1>14. CASE AddCallback(t)
  BY <1>14, ReturnMoves, <1>c, <1>m, NoLocalsFields
  DEF CallOf, InCall, Adders, Moved, MarkPlaces, globals, AddCallback
<1>15. CASE RemoveCallback(t)
  BY <1>15, ReturnMoves, <1>c, <1>m, NoLocalsFields
  DEF CallOf, InCall, Adders, Moved, MarkPlaces, globals, RemoveCallback
<1>16. CASE LockCallbacks(t)
  BY <1>16, LockCallbacksMoves, <1>c, <1>m, NoLocalsFields
  DEF CallOf, InCall, Adders, Moved, MarkPlaces, globals, LockCallbacks
<1>17. CASE InvokeCallback(t)
  BY <1>17, InvokeCallbackMoves, <1>c, <1>m, NoLocalsFields
  DEF CallOf, InCall, Adders, Moved, MarkPlaces, globals, InvokeCallback
<1>18. CASE MarkGlobal(t)
  BY <1>18, MarkGlobalMoves, <1>c, <1>o DEF CallOf, InCall, MarkPlaces, MarkGlobal, globals
<1>19. CASE MarkThread(t)
  BY <1>19, MarkThreadMoves, <1>c, <1>o DEF CallOf, InCall, MarkPlaces, MarkThread, globals
<1>20. CASE MarkFrame(t)
  BY <1>20, MarkFrameMoves, <1>c, <1>m, NoLocalsFields
  DEF CallOf, InCall, Adders, Moved, MarkPlaces, globals, MarkFrame
<1>21. CASE Collected(t)
  BY <1>21, ReturnMoves, <1>c, <1>m, NoLocalsFields
  DEF CallOf, InCall, Adders, Moved, MarkPlaces, globals, Collected
<1> QED  BY <1>1, <1>2, <1>3, <1>4, <1>5, <1>6, <1>7, <1>8, <1>9, <1>10, <1>11, <1>12,
     <1>13, <1>14, <1>15, <1>16, <1>17, <1>18, <1>19, <1>20, <1>21 DEF Client, Step

(* The two rings have only their nodes. *)
LEMMA CallbackRing ==
  ASSUME TypeOK, Rings, once
  PROVE  \A c \in kept_cbs \cup {callbacks} : links.next[c] \in kept_cbs \cup {callbacks}
BY DEF Rings, IsRing, Linked

(* The same for the threads. *)
LEMMA ThreadRingLinks ==
  ASSUME TypeOK, Rings, registered # {}
  PROVE  \A u \in registered \cup {thread_list} :
           links.next[u] \in registered \cup {thread_list}
BY DEF Rings, IsRing, Linked

(* One thread walks, and stays in the rings. *)
LEMMA WalksStep ==
  ASSUME TypeOK, FirstCallAlone, FramesOK, Calls, Walks, TheList, FirstCall, Rings,
         NEW t \in Threads, Client(t) \/ Step(t)
  PROVE  Walks'
<1>c. CallOf(t)
  BY DEF Calls
<1>m. Moved(t)
  BY StepMoves
<1>o. ASSUME UNCHANGED <<callbacks_mutex, kept_cbs, walking_threads>>, registered \subseteq registered',
             var'[t].goto # "mark_start", pc'[t] \notin MarkPlaces
      PROVE  Walks'
  BY <1>m, <1>o DEF Walks, Moved, MarkPlaces
<1>n. Nil \notin Threads
  BY RootsAssumption
<1>w. ASSUME pc[t] \in MarkPlaces
      PROVE  /\ var[t].goto = "mark_start" /\ t \in registered /\ once
             /\ \A u \in Threads \ {t} : var[u].goto # "mark_start" /\ pc[u] \notin MarkPlaces
  BY <1>c, <1>w DEF Calls, CallOf, InCall, Walks, MarkPlaces, FirstCall
<1>1. CASE smal_thread_self(t)
  BY <1>1, ClientStays, <1>c, <1>m, NoLocalsFields
  DEF CallOf, InCall, Walks, Moved, MarkPlaces, cbs, thrs, smal_thread_self, thread_init
<1>2. CASE smal_roots_end(t)
  BY <1>2, ClientStays, <1>c, <1>m, NoLocalsFields
  DEF CallOf, InCall, Walks, Moved, MarkPlaces, cbs, thrs, smal_roots_end
<1>3. ASSUME NEW f \in Frames, smal_roots_begin(t, f) PROVE Walks'
  BY <1>3, ClientStays, <1>c, <1>m, NoLocalsFields
  DEF CallOf, InCall, Walks, Moved, MarkPlaces, cbs, thrs, smal_roots_begin
<1>4. ASSUME NEW f \in Frames, smal_roots_add_global(t, f) PROVE Walks'
  BY <1>4, AddGlobalMoves, <1>c, <1>o
  DEF CallOf, InCall, MarkPlaces, smal_roots_add_global, cbs, thrs
<1>5. ASSUME NEW f \in Frames, smal_roots_remove_global(t, f) PROVE Walks'
  BY <1>5, RemoveGlobalMoves, <1>c, <1>o
  DEF CallOf, InCall, MarkPlaces, smal_roots_remove_global, cbs, thrs
<1>6. CASE smal_roots_add_callback(t)
  BY <1>6, AddCallbackCall, <1>c, <1>o
  DEF CallOf, InCall, MarkPlaces, smal_roots_add_callback, cbs, thrs
<1>7. CASE smal_roots_remove_callback(t)
  BY <1>7, RemoveCallbackCall, <1>c, <1>o
  DEF CallOf, InCall, MarkPlaces, smal_roots_remove_callback, cbs, thrs
<1>8. CASE smal_roots_mark_chain(t)
  <2>1. /\ var'[t].goto = "mark_start" /\ t \in registered
        /\ \A u \in Threads : pc[u] \notin MarkPlaces /\ var[u].goto # "mark_start"
        /\ pc'[t] \in {"mark_start", "once"}
        /\ UNCHANGED <<callbacks_mutex, kept_cbs, walking_threads, registered>>
    BY <1>8, MarkChainMoves DEF smal_roots_mark_chain, cbs, thrs
  <2> QED  BY <1>m, <2>1 DEF Walks, Moved, MarkPlaces
<1>9. CASE Once(t)
  BY <1>9, OnceMoves, <1>c, <1>m, NoLocalsFields
  DEF CallOf, InCall, Walks, Moved, MarkPlaces, cbs, thrs, Once
<1>10. CASE AddLock(t)
  BY <1>10, LockMoves, <1>c, <1>m, NoLocalsFields
  DEF CallOf, InCall, Walks, Moved, MarkPlaces, cbs, thrs, AddLock
<1>11. CASE AddHead(t)
  BY <1>11, ReturnMoves, <1>c, <1>m, NoLocalsFields
  DEF CallOf, InCall, Walks, Moved, MarkPlaces, cbs, thrs, AddHead
<1>12. CASE RemoveLock(t)
  BY <1>12, LockMoves, <1>c, <1>m, NoLocalsFields
  DEF CallOf, InCall, Walks, Moved, MarkPlaces, cbs, thrs, RemoveLock
<1>13. CASE RemoveEntry(t)
  <2>1. var'[t].goto # "mark_start" /\ pc'[t] \in {"client", "remove_entry"}
    <3>1. pc[t] = "remove_entry" /\ var[t].goto = "remove_lock"
      BY <1>13, <1>c DEF CallOf, InCall, RemoveEntry, MarkPlaces
    <3> QED  BY <1>13, <3>1, RemoveEntryMoves, NoLocalsFields
  <2>2. UNCHANGED <<registered, callbacks_mutex, kept_cbs, walking_threads>>
    BY <1>13 DEF RemoveEntry, cbs, thrs
  <2> QED  BY <1>m, <2>1, <2>2 DEF Walks, Moved
<1>14. CASE AddCallback(t)
  BY <1>14, ReturnMoves, <1>c, <1>m, NoLocalsFields
  DEF CallOf, InCall, Walks, Moved, MarkPlaces, cbs, thrs, AddCallback
<1>15. CASE RemoveCallback(t)
  <2>1. /\ pc'[t] = "client" /\ var'[t].goto = "client" /\ callbacks_mutex = Nil
        /\ UNCHANGED <<callbacks_mutex, walking_threads, registered>>
    BY <1>15, ReturnMoves, NoLocalsFields DEF RemoveCallback, thrs
  <2>2. \A u \in Threads : pc[u] # "mark_callbacks"
    BY <1>n, <2>1 DEF Walks
  <2> QED  BY <1>m, <2>1, <2>2 DEF Walks, Moved, MarkPlaces
<1>16. CASE LockCallbacks(t)
  <2>1. /\ pc[t] = "mark_start" /\ pc'[t] = "mark_callbacks" /\ var'[t].goto = var[t].goto
        /\ var'[t].entry_next = links.next[callbacks] /\ callbacks_mutex' = t
        /\ UNCHANGED <<kept_cbs, walking_threads, registered>>
    BY <1>16, LockCallbacksMoves DEF LockCallbacks, thrs
  <2>2. links.next[callbacks] \in kept_cbs \cup {callbacks}
    BY <1>w, <2>1, CallbackRing DEF MarkPlaces
  <2> QED  BY <1>m, <1>w, <2>1, <2>2 DEF Walks, Moved, MarkPlaces
<1>17. CASE InvokeCallback(t)
  <2>1. /\ pc[t] = "mark_callbacks" /\ callbacks_mutex = t
        /\ var'[t].goto = var[t].goto
        /\ UNCHANGED <<kept_cbs, walking_threads, registered>>
        /\ \/ pc'[t] = "mark_globals"
           \/ /\ pc'[t] = pc[t] /\ UNCHANGED callbacks_mutex
              /\ var[t].entry_next \in kept_cbs
              /\ var'[t].entry_next = links.next[var[t].entry_next]
    BY <1>17, InvokeCallbackMoves DEF InvokeCallback, thrs
  <2>2. \A c \in kept_cbs : links.next[c] \in kept_cbs \cup {callbacks}
    BY <1>w, <2>1, CallbackRing DEF MarkPlaces
  <2> QED  BY <1>m, <1>w, <2>1, <2>2 DEF Walks, Moved, MarkPlaces
<1>18. CASE MarkGlobal(t)
  <2>1. /\ pc[t] = "mark_globals" /\ var'[t].goto = var[t].goto
        /\ UNCHANGED <<callbacks_mutex, kept_cbs, registered>>
        /\ \/ /\ pc'[t] = "mark_threads" /\ walking_threads'
              /\ var'[t].entry_next = links.next[thread_list]
           \/ pc'[t] = pc[t] /\ UNCHANGED walking_threads
    BY <1>18, MarkGlobalMoves DEF MarkGlobal, cbs
  <2>2. links.next[thread_list] \in registered \cup {thread_list}
    BY <1>w, <2>1, ThreadRingLinks DEF MarkPlaces
  <2> QED  BY <1>m, <1>w, <2>1, <2>2 DEF Walks, Moved, MarkPlaces
<1>19. CASE MarkThread(t)
  <2>1. /\ pc[t] = "mark_threads" /\ var'[t].goto = var[t].goto
        /\ UNCHANGED <<callbacks_mutex, kept_cbs, registered>>
        /\ \/ pc'[t] = "marked"
           \/ /\ pc'[t] = "mark_frames" /\ UNCHANGED walking_threads
              /\ var[t].entry_next \in registered /\ var'[t].entry = var[t].entry_next
              /\ var'[t].entry_next = links.next[var[t].entry_next]
    BY <1>19, MarkThreadMoves DEF MarkThread, cbs
  <2>2. \A u \in registered : links.next[u] \in registered \cup {thread_list}
    BY <1>w, <2>1, ThreadRingLinks DEF MarkPlaces
  <2> QED  BY <1>m, <1>w, <2>1, <2>2 DEF Walks, Moved, MarkPlaces
<1>20. CASE MarkFrame(t)
  BY <1>20, MarkFrameMoves, <1>c, <1>m, NoLocalsFields
  DEF CallOf, InCall, Walks, Moved, MarkPlaces, cbs, thrs, MarkFrame
<1>21. CASE Collected(t)
  BY <1>21, ReturnMoves, <1>c, <1>m, NoLocalsFields
  DEF CallOf, InCall, Walks, Moved, MarkPlaces, cbs, thrs, Collected
<1> QED  BY <1>1, <1>2, <1>3, <1>4, <1>5, <1>6, <1>7, <1>8, <1>9, <1>10, <1>11, <1>12,
     <1>13, <1>14, <1>15, <1>16, <1>17, <1>18, <1>19, <1>20, <1>21 DEF Client, Step

(* The rings stay rings of what is registered. *)
LEMMA RingsStep ==
  ASSUME TypeOK, FirstCallAlone, FramesOK, Calls, Walks, TheList, FirstCall, Rings,
         HandlesOK, NEW t \in Threads, Client(t) \/ Step(t)
  PROVE  links' \in Links(Nodes, Nil) /\ Rings'
<1>c. CallOf(t)
  BY DEF Calls
<1>m. Moved(t)
  BY StepMoves
<1>o. ASSUME UNCHANGED <<links, once, kept_cbs, registered>>
      PROVE  links' \in Links(Nodes, Nil) /\ Rings'
  BY <1>o DEF Rings, TypeOK
<1>t. /\ links \in Links(Nodes, Nil) /\ kept_cbs \in SUBSET Nodes /\ registered \in SUBSET Nodes
      /\ callbacks \in Nodes \ kept_cbs /\ thread_list \in Nodes \ registered
      /\ (kept_cbs \cup {callbacks}) \cap (registered \cup {thread_list}) = {}
      /\ kept_cbs \subseteq Callbacks /\ registered \subseteq Threads
  BY RootsAssumption DEF TypeOK, Nodes
<1>s. once => IsRing(links, callbacks, kept_cbs)
  BY DEF Rings
<1>r. registered # {} => IsRing(links, thread_list, registered)
  BY DEF Rings
<1>1. CASE smal_thread_self(t)
  <2> DEFINE L == ThreadRing
  <2>1. /\ t \in Threads \ registered /\ links' = Insert(L, thread_list, t)
        /\ registered' = registered \cup {t} /\ UNCHANGED <<once, kept_cbs>>
        /\ t \in Nodes \ (registered \cup {thread_list})
    BY <1>1, RootsAssumption DEF smal_thread_self, thread_init, cbs, Nodes
  <2>2. /\ L \in Links(Nodes, Nil) /\ IsRing(L, thread_list, registered)
        /\ once => IsRing(L, callbacks, kept_cbs)
    <3>1. CASE registered = {}
      <4>1. L = InitNode(links, thread_list)
        BY <3>1 DEF ThreadRing
      <4>2. /\ L \in Links(Nodes, Nil) /\ IsRing(L, thread_list, {})
            /\ Same(links, L, Nodes \ {thread_list})
        BY <1>t, <4>1, InitTyped
      <4>3. Same(links, L, kept_cbs \cup {callbacks})
        BY <1>t, <4>2 DEF Same
      <4> HIDE DEF L
      <4>4. once => IsRing(L, callbacks, kept_cbs)
        BY <1>t, <1>s, <4>2, <4>3, RingStays
      <4> QED  BY <3>1, <4>2, <4>4
    <3>2. CASE registered # {}
      BY <1>t, <1>s, <1>r, <3>2 DEF ThreadRing
    <3> QED  BY <3>1, <3>2
  <2> HIDE DEF L
  <2>3. /\ links' \in Links(Nodes, Nil) /\ IsRing(links', thread_list, registered \cup {t})
        /\ Same(L, links', Nodes \ (registered \cup {thread_list, t}))
    BY <1>t, <2>1, <2>2, InsertRing
  <2>4. Same(L, links', kept_cbs \cup {callbacks})
    BY <1>t, <2>1, <2>3, RootsAssumption DEF Same
  <2>5. once => IsRing(links', callbacks, kept_cbs)
    BY <1>t, <2>2, <2>3, <2>4, RingStays
  <2> QED  BY <2>1, <2>3, <2>5 DEF Rings
<1>2. CASE smal_roots_end(t)
  BY <1>2, <1>o DEF smal_roots_end, thrs, cbs
<1>3. ASSUME NEW f \in Frames, smal_roots_begin(t, f) PROVE links' \in Links(Nodes, Nil) /\ Rings'
  BY <1>3, <1>o DEF smal_roots_begin, thrs, cbs
<1>4. ASSUME NEW f \in Frames, smal_roots_add_global(t, f) PROVE links' \in Links(Nodes, Nil) /\ Rings'
  BY <1>4, <1>o DEF smal_roots_add_global, thrs, cbs
<1>5. ASSUME NEW f \in Frames, smal_roots_remove_global(t, f) PROVE links' \in Links(Nodes, Nil) /\ Rings'
  BY <1>5, <1>o DEF smal_roots_remove_global, thrs, cbs
<1>6. CASE smal_roots_add_callback(t)
  BY <1>6, <1>o DEF smal_roots_add_callback, thrs, cbs
<1>7. CASE smal_roots_remove_callback(t)
  BY <1>7, <1>o DEF smal_roots_remove_callback, thrs, cbs
<1>8. CASE smal_roots_mark_chain(t)
  BY <1>8, <1>o DEF smal_roots_mark_chain, thrs, cbs
<1>9. CASE Once(t)
  <2>1. /\ ~ once /\ kept_cbs = {} /\ links' = InitNode(links, callbacks)
        /\ UNCHANGED <<kept_cbs, registered>>
    BY <1>9 DEF Once, FirstCall, cbs, thrs
  <2>2. /\ links' \in Links(Nodes, Nil) /\ IsRing(links', callbacks, {})
        /\ Same(links, links', Nodes \ {callbacks})
    BY <1>t, <2>1, InitTyped
  <2>3. Same(links, links', registered \cup {thread_list})
    BY <1>t, <2>2 DEF Same
  <2>4. registered # {} => IsRing(links', thread_list, registered)
    BY <1>t, <1>r, <2>2, <2>3, RingStays
  <2> QED  BY <2>1, <2>2, <2>4 DEF Rings
<1>10. CASE AddLock(t)
  BY <1>10, <1>o DEF AddLock, thrs, cbs
<1>11. CASE AddHead(t)
  BY <1>11, <1>o DEF AddHead, thrs, cbs
<1>12. CASE RemoveLock(t)
  BY <1>12, <1>o DEF RemoveLock, thrs, cbs
<1>13. CASE RemoveEntry(t)
  BY <1>13, <1>o DEF RemoveEntry, thrs, cbs
<1>14. CASE AddCallback(t)
  <2> DEFINE c == var[t].entry
           L == InitNode(links, c)
  <2>1. /\ c \in Callbacks \ kept_cbs /\ once /\ links' = Insert(L, callbacks, c)
        /\ kept_cbs' = kept_cbs \cup {c} /\ UNCHANGED <<once, registered>>
        /\ c \in Nodes \ (kept_cbs \cup {callbacks})
        /\ c \notin registered \cup {thread_list}
    BY <1>c, <1>14, RootsAssumption
    DEF AddCallback, HandlesOK, FirstCall, CallOf, InCall, MarkPlaces,
         thrs, Nodes, TypeOK
  <2> HIDE DEF c
  <2>2. L \in Links(Nodes, Nil) /\ Same(links, L, Nodes \ {c})
    BY <1>t, <2>1, InitTyped
  <2> HIDE DEF L
  <2>3. Same(links, L, kept_cbs \cup {callbacks}) /\ Same(links, L, registered \cup {thread_list})
    BY <1>t, <2>1, <2>2 DEF Same
  <2>4. IsRing(L, callbacks, kept_cbs)
    BY <1>t, <1>s, <2>1, <2>2, <2>3, RingStays
  <2>5. registered # {} => IsRing(L, thread_list, registered)
    BY <1>t, <1>r, <2>1, <2>2, <2>3, RingStays
  <2>6. /\ links' \in Links(Nodes, Nil) /\ IsRing(links', callbacks, kept_cbs \cup {c})
        /\ Same(L, links', Nodes \ (kept_cbs \cup {callbacks, c}))
    BY <1>t, <2>1, <2>2, <2>4, InsertRing
  <2>7. Same(L, links', registered \cup {thread_list})
    BY <1>t, <2>1, <2>6 DEF Same
  <2>8. registered # {} => IsRing(links', thread_list, registered)
    BY <1>t, <2>2, <2>5, <2>6, <2>7, RingStays
  <2> QED  BY <2>1, <2>6, <2>8 DEF Rings
<1>15. CASE RemoveCallback(t)
  <2> DEFINE c == var[t].entry
  <2>1. /\ c \in kept_cbs /\ once /\ links' = Delete(links, c)
        /\ kept_cbs' = kept_cbs \ {c} /\ UNCHANGED <<once, registered>>
    BY <1>c, <1>15
    DEF RemoveCallback, HandlesOK, FirstCall, CallOf, InCall, MarkPlaces, thrs
  <2> HIDE DEF c
  <2>2. /\ links' \in Links(Nodes, Nil) /\ IsRing(links', callbacks, kept_cbs \ {c})
        /\ Same(links, links', Nodes \ (kept_cbs \cup {callbacks}))
    BY <1>t, <1>s, <2>1, DeleteRing
  <2>3. Same(links, links', registered \cup {thread_list})
    BY <1>t, <2>2 DEF Same
  <2>4. registered # {} => IsRing(links', thread_list, registered)
    BY <1>t, <1>r, <2>2, <2>3, RingStays
  <2> QED  BY <2>1, <2>2, <2>4 DEF Rings
<1>16. CASE LockCallbacks(t)
  BY <1>16, <1>o DEF LockCallbacks, thrs, cbs
<1>17. CASE InvokeCallback(t)
  BY <1>17, <1>o DEF InvokeCallback, thrs, cbs
<1>18. CASE MarkGlobal(t)
  BY <1>18, <1>o DEF MarkGlobal, thrs, cbs
<1>19. CASE MarkThread(t)
  BY <1>19, <1>o DEF MarkThread, thrs, cbs
<1>20. CASE MarkFrame(t)
  BY <1>20, <1>o DEF MarkFrame, thrs, cbs
<1>21. CASE Collected(t)
  BY <1>21, <1>o DEF Collected, thrs, cbs
<1> QED  BY <1>1, <1>2, <1>3, <1>4, <1>5, <1>6, <1>7, <1>8, <1>9, <1>10, <1>11, <1>12,
     <1>13, <1>14, <1>15, <1>16, <1>17, <1>18, <1>19, <1>20, <1>21 DEF Client, Step

(* An entry that is freed leaves the list; the rest of the walk is the same. *)
LEMMA FreedEntry ==
  ASSUME TypeOK, TheList, NEW t \in Threads, pc[t] = "remove_entry",
         Here(t) \in Listed, StoreRp(t, next[Here(t)])
  PROVE  /\ Listed' = Listed \ {Here(t)} /\ OneWay(next', global_roots')
         /\ var[t].rp \in (Listed \ {Here(t)}) \cup {Nil}
         /\ next[Here(t)] = IF var[t].rp = Nil THEN global_roots' ELSE next'[var[t].rp]
         /\ NodesFrom(next, Here(t), Nil) \subseteq
              {Here(t)} \cup NodesFrom(next', next[Here(t)], Nil)
<1> DEFINE r == Here(t)
           rp == var[t].rp
<1>1. /\ next \in [Entries -> Entries \cup {Nil}] /\ global_roots \in Entries \cup {Nil}
      /\ Nil \notin Entries /\ used \subseteq Entries
  BY RootsAssumption DEF TypeOK
<1>2. /\ r \in Listed /\ r \in Entries /\ rp \in Listed \cup {Nil}
      /\ r = IF rp = Nil THEN global_roots ELSE next[rp]
      /\ StoreRp(t, next[r]) /\ OneWay(next, global_roots)
  BY <1>1 DEF TheList, Here
<1>3. CASE rp = Nil
  <2>1. r = global_roots /\ global_roots' = next[r] /\ UNCHANGED next
    BY <1>2, <1>3 DEF StoreRp
  <2> HIDE DEF r
  <2>2. /\ NodesFrom(next, next[r], Nil) = NodesFrom(next, global_roots, Nil) \ {r}
        /\ OneWay(next, next[r])
    BY <1>1, <1>2, <2>1, UnlinkedHead
  <2>3. NodesFrom(next, r, Nil) \subseteq {r} \cup NodesFrom(next, next[r], Nil)
    BY <1>1, <1>2, WalkGoesOn
  <2> QED  BY <1>3, <2>1, <2>2, <2>3 DEF Listed, r
<1>4. CASE rp # Nil
  <2>1. /\ r = next[rp] /\ rp \in NodesFrom(next, global_roots, Nil) /\ rp \in Entries
        /\ next' = [next EXCEPT ![rp] = next[r]] /\ UNCHANGED global_roots
    BY <1>1, <1>2, <1>4 DEF StoreRp, TheList, Listed
  <2> HIDE DEF r, rp
  <2>2. /\ next' \in [Entries -> Entries \cup {Nil}] /\ next[rp] # Nil
        /\ \A y \in Entries : next'[y] = IF y = rp THEN next[next[rp]] ELSE next[y]
    BY <1>1, <1>2, <2>1
  <2>3. next \in [Entries -> Entries \cup {Nil}] /\ global_roots \in Entries \cup {Nil}
    BY <1>1
  <2>4. OneWay(next, global_roots) /\ rp \in NodesFrom(next, global_roots, Nil)
    BY <1>2, <2>1
  <2>5. /\ NodesFrom(next', global_roots, Nil) = NodesFrom(next, global_roots, Nil) \ {next[rp]}
        /\ OneWay(next', global_roots) /\ rp # next[rp]
        /\ NodesFrom(next, next[rp], Nil) \subseteq
             {next[rp]} \cup NodesFrom(next', next[next[rp]], Nil)
    BY <2>2, <2>3, <2>4, UnlinkedList
  <2>6. next[r] = next'[rp]
    BY <2>1, <2>2
  <2> QED  BY <1>2, <1>4, <2>1, <2>5, <2>6 DEF Listed, r, rp
<1> QED  BY <1>3, <1>4

(* The list has the entries that were added and not freed. *)
LEMMA TheListStep ==
  ASSUME TypeOK, FirstCallAlone, FramesOK, Calls, Walks, TheList, FirstCall, Adders,
         NEW t \in Threads, Client(t) \/ Step(t)
  PROVE  TheList'
<1>c. CallOf(t)
  BY DEF Calls
<1>m. Moved(t)
  BY StepMoves
<1>a. ASSUME \/ var'[t] = var[t]
             \/ var[t].goto # "add_lock" /\ var'[t].goto # "add_lock"
      PROVE  Adding' = Adding
  BY <1>a, <1>m DEF Adding, Moved
<1>o. ASSUME UNCHANGED <<next, global_roots, used>>,
             \/ var'[t] = var[t]
             \/ var[t].goto # "add_lock" /\ var'[t].goto # "add_lock",
             pc'[t] = "remove_entry" => var'[t].rp \in Listed \cup {Nil},
             var'[t].goto = "remove_lock" /\ pc'[t] # "remove_entry" => var'[t].rp = Nil
      PROVE  TheList'
  <2>1. Adding' = Adding
    BY <1>a, <1>o
  <2> QED  BY <1>m, <1>o, <2>1 DEF TheList, Listed, Moved
<1>t. /\ next \in [Entries -> Entries \cup {Nil}] /\ global_roots \in Entries \cup {Nil}
      /\ used \subseteq Entries /\ Nil \notin Entries /\ Nil \notin Threads
  BY RootsAssumption DEF TypeOK
<1>1. CASE smal_thread_self(t)
  BY <1>1, ClientStays, <1>c, <1>o, NoLocalsFields
  DEF smal_thread_self, thread_init, globals, TheList, CallOf, InCall, MarkPlaces
<1>2. CASE smal_roots_end(t)
  BY <1>2, ClientStays, <1>c, <1>o, NoLocalsFields
  DEF smal_roots_end, globals, TheList, CallOf, InCall, MarkPlaces
<1>3. ASSUME NEW f \in Frames, smal_roots_begin(t, f) PROVE TheList'
  BY <1>3, ClientStays, <1>c, <1>o, NoLocalsFields
  DEF smal_roots_begin, globals, TheList, CallOf, InCall, MarkPlaces
<1>4. ASSUME NEW f \in Frames, smal_roots_add_global(t, f) PROVE TheList'
  <2>1. /\ var'[t].goto = "add_lock" /\ pc'[t] \in {"once", "add_lock"}
        /\ var'[t].r \in Entries \ used /\ used' = used \cup {var'[t].r}
        /\ UNCHANGED <<next, global_roots>> /\ var[t].goto # "add_lock"
    BY <1>c, <1>4, AddGlobalMoves, NoLocalsFields DEF smal_roots_add_global, CallOf
  <2>2. Adding' = Adding \cup {var'[t].r}
    BY <1>m, <2>1 DEF Adding, Moved
  <2>3. Listed' = Listed
    BY <2>1 DEF Listed
  <2>4. Listed' = used' \ Adding'
    BY <2>1, <2>2, <2>3 DEF TheList
  <2> QED  BY <1>m, <2>1, <2>3, <2>4 DEF TheList, Moved
<1>5. ASSUME NEW f \in Frames, smal_roots_remove_global(t, f) PROVE TheList'
  BY <1>5, RemoveGlobalMoves, <1>c, <1>o, NoLocalsFields
  DEF smal_roots_remove_global, globals, TheList, CallOf, InCall, MarkPlaces
<1>6. CASE smal_roots_add_callback(t)
  BY <1>6, AddCallbackCall, <1>c, <1>o, NoLocalsFields
  DEF smal_roots_add_callback, globals, TheList, CallOf, InCall, MarkPlaces
<1>7. CASE smal_roots_remove_callback(t)
  BY <1>7, RemoveCallbackCall, <1>c, <1>o, NoLocalsFields
  DEF smal_roots_remove_callback, globals, TheList, CallOf, InCall, MarkPlaces
<1>8. CASE smal_roots_mark_chain(t)
  <2>1. /\ var[t].goto = "client" /\ var'[t].goto = "mark_start" /\ pc'[t] \in {"once", "mark_start"}
        /\ UNCHANGED <<next, global_roots, used>>
    BY <1>c, <1>8, MarkChainMoves, NoLocalsFields DEF smal_roots_mark_chain, globals, CallOf
  <2> QED  BY <1>o, <2>1
<1>9. CASE Once(t)
  BY <1>9, OnceMoves, <1>c, <1>o, NoLocalsFields
  DEF Once, globals, TheList, CallOf, InCall, MarkPlaces
<1>10. CASE AddLock(t)
  <2> DEFINE r == var[t].r
  <2>1. /\ next' = [next EXCEPT ![r] = global_roots] /\ pc'[t] = "add_head" /\ var'[t] = var[t]
        /\ UNCHANGED <<global_roots, used>> /\ var[t].goto = "add_lock"
    BY <1>c, <1>10, LockMoves DEF AddLock, CallOf, InCall, MarkPlaces
  <2>2. r \in Entries \ Listed
    BY <1>t, <2>1 DEF Adders, TheList, Adding
  <2>3. Adding' = Adding
    BY <1>a, <2>1
  <2> HIDE DEF r
  <2>4. Listed' = Listed
    BY <1>t, <2>1, <2>2, OffTheList DEF Listed
  <2>5. OneWay(next, global_roots) /\ \A x \in Listed : next'[x] = next[x]
    BY <1>t, <2>1, <2>2, ListClosed DEF TheList, Listed
  <2>6. OneWay(next', global_roots')
    BY <2>1, <2>4, <2>5 DEF OneWay, Listed
  <2> QED  BY <1>m, <2>1, <2>3, <2>4, <2>6 DEF TheList, Moved
<1>11. CASE AddHead(t)
  <2> DEFINE r == var[t].r
  <2>1. /\ global_roots' = r /\ pc[t] = "add_head" /\ pc'[t] = "client" /\ var'[t] = NoLocals
        /\ UNCHANGED <<next, used>> /\ var[t].goto = "add_lock" /\ var'[t].goto = "client"
    BY <1>c, <1>11, ReturnMoves, NoLocalsFields DEF AddHead, CallOf, InCall, MarkPlaces
  <2>2. r \in Entries \ Listed /\ r \in used /\ next[r] = global_roots
    BY <1>t, <2>1 DEF Adders, TheList, Adding
  <2>3. Adding' = Adding \ {r}
    BY <1>m, <2>1 DEF Adding, Moved, Adders
  <2> HIDE DEF r
  <2>4. Listed' = Listed \cup {r} /\ OneWay(next', global_roots')
    BY <1>t, <2>1, <2>2, PushedList DEF Listed, TheList
  <2>5. Listed' = used' \ Adding'
    BY <2>1, <2>2, <2>3, <2>4 DEF TheList
  <2> QED  BY <1>m, <2>1, <2>4, <2>5 DEF TheList, Moved
<1>12. CASE RemoveLock(t)
  <2>1. /\ pc'[t] = "remove_entry" /\ var'[t] = var[t] /\ pc[t] = "remove_lock"
        /\ UNCHANGED <<global_roots, next, used>> /\ var[t].goto = "remove_lock"
    BY <1>c, <1>12, LockMoves DEF RemoveLock, CallOf, InCall, MarkPlaces
  <2>2. var'[t].rp \in Listed \cup {Nil}
    BY <2>1 DEF TheList
  <2> QED  BY <1>o, <2>1, <2>2
<1>13. CASE RemoveEntry(t)
  <2> DEFINE r == Here(t)
           rp == var[t].rp
  <2>1. /\ pc[t] = "remove_entry" /\ var[t].goto = "remove_lock" /\ rp \in Listed \cup {Nil}
        /\ r = IF rp = Nil THEN global_roots ELSE next[rp]
        /\ \A u \in Threads \ {t} : pc[u] # "remove_entry"
    BY <1>c, <1>13 DEF RemoveEntry, TheList, CallOf, InCall, MarkPlaces, Here, Adders
  <2>2. CASE UNCHANGED <<global_roots, next, used>> /\ pc'[t] = "client" /\ var'[t] = NoLocals
    BY <1>o, <2>1, <2>2, NoLocalsFields
  <2>3. CASE /\ UNCHANGED <<global_roots, next, used>> /\ pc'[t] = pc[t]
             /\ var'[t].goto = var[t].goto /\ var'[t].rp = r /\ r \in Listed
    BY <1>o, <2>1, <2>3
  <2>4. ASSUME r \in Listed, StoreRp(t, next[r]), used' = used \ {r}, pc'[t] = pc[t], var'[t] = var[t]
        PROVE  TheList'
    <3>1. Adding' = Adding
      BY <1>a, <2>4
    <3>2. /\ Listed' = Listed \ {r} /\ OneWay(next', global_roots')
          /\ rp \in (Listed \ {r}) \cup {Nil}
      BY <2>1, <2>4, FreedEntry
    <3>3. Listed' = used' \ Adding'
      BY <2>4, <3>1, <3>2 DEF TheList
    <3> QED  BY <1>m, <2>1, <2>4, <3>2, <3>3 DEF TheList, Moved
  <2> HIDE DEF r, rp
  <2>5. RemoveEntry(t)
    BY <1>13
  <2> QED  BY <2>2, <2>3, <2>4, <2>5, RemoveEntryMoves DEF r
<1>14. CASE AddCallback(t)
  BY <1>14, ReturnMoves, <1>c, <1>o, NoLocalsFields
  DEF AddCallback, globals, TheList, CallOf, InCall, MarkPlaces
<1>15. CASE RemoveCallback(t)
  BY <1>15, ReturnMoves, <1>c, <1>o, NoLocalsFields
  DEF RemoveCallback, globals, TheList, CallOf, InCall, MarkPlaces
<1>16. CASE LockCallbacks(t)
  BY <1>16, LockCallbacksMoves, <1>c, <1>o, NoLocalsFields
  DEF LockCallbacks, globals, TheList, CallOf, InCall, MarkPlaces
<1>17. CASE InvokeCallback(t)
  BY <1>17, InvokeCallbackMoves, <1>c, <1>o, NoLocalsFields
  DEF InvokeCallback, globals, TheList, CallOf, InCall, MarkPlaces
<1>18. CASE MarkGlobal(t)
  BY <1>18, MarkGlobalMoves, <1>c, <1>o, NoLocalsFields
  DEF MarkGlobal, globals, TheList, CallOf, InCall, MarkPlaces
<1>19. CASE MarkThread(t)
  BY <1>19, MarkThreadMoves, <1>c, <1>o, NoLocalsFields
  DEF MarkThread, globals, TheList, CallOf, InCall, MarkPlaces
<1>20. CASE MarkFrame(t)
  BY <1>20, MarkFrameMoves, <1>c, <1>o, NoLocalsFields
  DEF MarkFrame, globals, TheList, CallOf, InCall, MarkPlaces
<1>21. CASE Collected(t)
  BY <1>21, ReturnMoves, <1>c, <1>o, NoLocalsFields
  DEF Collected, globals, TheList, CallOf, InCall, MarkPlaces
<1> QED  BY <1>1, <1>2, <1>3, <1>4, <1>5, <1>6, <1>7, <1>8, <1>9, <1>10, <1>11, <1>12,
     <1>13, <1>14, <1>15, <1>16, <1>17, <1>18, <1>19, <1>20, <1>21 DEF Client, Step

(* Clearing the bindings of f leaves the others. *)
LEMMA ClearedBound ==
  ASSUME NEW r, NEW f
  PROVE  Bound(ClearedEntry(r, f)) = Bound(bindings[r]) \ Bound(f)
<1> DEFINE s == bindings[r]
           c == ClearedEntry(r, f)
<1>1. NoBinding \notin Bound(f)
  BY DEF Bound
<1>2. \A v : v \in Bound(s) <=> v # NoBinding /\ \E j \in DOMAIN s : s[j] = v
  BY DEF Bound
<1>3. /\ DOMAIN c = DOMAIN s
      /\ \A j \in DOMAIN s : c[j] = IF s[j] \in Bound(f) THEN NoBinding ELSE s[j]
  BY DEF ClearedEntry, ClearedIn
<1>4. \A v : v \in Bound(c) <=> v # NoBinding /\ \E j \in DOMAIN s : c[j] = v
  BY <1>3 DEF Bound
<1> HIDE DEF s, c
<1>5. Bound(c) = Bound(s) \ Bound(f)
  BY <1>1, <1>2, <1>3, <1>4
<1> QED  BY <1>5 DEF s, c

(* The bindings of the list are the ones added and not removed. *)
LEMMA ExactStep ==
  ASSUME TypeOK, FirstCallAlone, FramesOK, Calls, Walks, TheList, FirstCall, Adders,
         Exact, NEW t \in Threads, Client(t) \/ Step(t)
  PROVE  Exact'
<1>c. CallOf(t)
  BY DEF Calls
<1>m. Moved(t)
  BY StepMoves
<1>v. \A v : v \in ListedVars <=> \E e \in Listed : v \in Bound(bindings[e])
  BY DEF ListedVars
<1>p. \A v : v \in ListedVars' <=> \E e \in Listed' : v \in Bound(bindings'[e])
  BY DEF ListedVars
<1>t. /\ next \in [Entries -> Entries \cup {Nil}] /\ global_roots \in Entries \cup {Nil}
      /\ used \subseteq Entries /\ Nil \notin Entries /\ Nil \notin Threads
      /\ bindings \in [Entries -> Seq(Vars \cup {NoBinding})]
      /\ Listed \subseteq used
  BY RootsAssumption DEF TypeOK, TheList
<1>o. ASSUME UNCHANGED <<next, global_roots, bindings, added>>,
             pc[t] # "remove_entry", pc'[t] # "remove_entry"
      PROVE  Exact'
  BY <1>m, <1>o DEF Exact, ListedVars, Listed, Here, Moved
<1>1. CASE smal_thread_self(t)
  BY <1>1, ClientStays, <1>c, <1>o
  DEF smal_thread_self, thread_init, globals, CallOf, InCall, MarkPlaces
<1>2. CASE smal_roots_end(t)
  BY <1>2, ClientStays, <1>c, <1>o DEF smal_roots_end, globals, CallOf, InCall, MarkPlaces
<1>3. ASSUME NEW f \in Frames, smal_roots_begin(t, f) PROVE Exact'
  BY <1>3, ClientStays, <1>c, <1>o DEF smal_roots_begin, globals, CallOf, InCall, MarkPlaces
<1>4. ASSUME NEW f \in Frames, smal_roots_add_global(t, f) PROVE Exact'
  <2>1. /\ pc[t] = "client" /\ pc'[t] \in {"once", "add_lock"}
        /\ var'[t].r \in Entries \ used /\ bindings' = [bindings EXCEPT ![var'[t].r] = f]
        /\ UNCHANGED <<next, global_roots, added>>
    BY <1>4, AddGlobalMoves DEF smal_roots_add_global
  <2>2. /\ Listed' = Listed /\ \A u \in Threads \ {t} : Here(u)' = Here(u)
        /\ \A e \in Listed : bindings'[e] = bindings[e]
    BY <1>m, <1>t, <2>1 DEF Listed, Here, Moved
  <2>3. ListedVars' = ListedVars
    BY <1>v, <1>p, <2>2
  <2> QED  BY <1>m, <2>1, <2>2, <2>3 DEF Exact, Moved
<1>5. ASSUME NEW f \in Frames, smal_roots_remove_global(t, f) PROVE Exact'
  BY <1>5, RemoveGlobalMoves, <1>c, <1>o
  DEF smal_roots_remove_global, globals, CallOf, InCall, MarkPlaces
<1>6. CASE smal_roots_add_callback(t)
  BY <1>6, AddCallbackCall, <1>c, <1>o
  DEF smal_roots_add_callback, globals, CallOf, InCall, MarkPlaces
<1>7. CASE smal_roots_remove_callback(t)
  BY <1>7, RemoveCallbackCall, <1>c, <1>o
  DEF smal_roots_remove_callback, globals, CallOf, InCall, MarkPlaces
<1>8. CASE smal_roots_mark_chain(t)
  BY <1>8, MarkChainMoves, <1>c, <1>o
  DEF smal_roots_mark_chain, globals, CallOf, InCall, MarkPlaces
<1>9. CASE Once(t)
  BY <1>9, OnceMoves, <1>c, <1>o DEF Once, globals, CallOf, InCall, MarkPlaces
<1>10. CASE AddLock(t)
  <2>1. /\ pc[t] = "add_lock" /\ pc'[t] = "add_head" /\ UNCHANGED <<bindings, added>>
        /\ \A u \in Threads : pc[u] # "remove_entry"
    BY <1>t, <1>10, LockMoves DEF AddLock, Adders
  <2> DEFINE r == var[t].r
  <2>0. /\ r \in Entries \ Listed /\ next' = [next EXCEPT ![r] = global_roots]
        /\ UNCHANGED global_roots
    BY <1>c, <1>t, <1>10 DEF AddLock, CallOf, InCall, MarkPlaces, Adders, TheList, Adding
  <2> HIDE DEF r
  <2>2. Listed' = Listed
    BY <1>t, <2>0, OffTheList DEF Listed
  <2>3. ListedVars' = ListedVars
    BY <1>v, <1>p, <2>1, <2>2
  <2> QED  BY <1>m, <2>1, <2>3 DEF Exact, Moved
<1>11. CASE AddHead(t)
  <2> DEFINE r == var[t].r
  <2>1. /\ pc[t] = "add_head" /\ pc'[t] = "client" /\ UNCHANGED <<bindings, next>>
        /\ \A u \in Threads : pc[u] # "remove_entry"
        /\ added' = added \cup Bound(bindings[r]) /\ global_roots' = r
        /\ r \in Entries \ Listed /\ next[r] = global_roots
    BY <1>c, <1>t, <1>11, ReturnMoves
    DEF AddHead, Adders, CallOf, InCall, MarkPlaces, TheList, Adding
  <2> HIDE DEF r
  <2>2. Listed' = Listed \cup {r}
    BY <1>t, <2>1, PushedList DEF Listed, TheList
  <2>3. \A v : v \in ListedVars' <=> v \in ListedVars \/ v \in Bound(bindings[r])
    BY <1>v, <1>p, <2>1, <2>2
  <2>4. ListedVars = added
    BY <2>1 DEF Exact
  <2>5. ListedVars' = added'
    BY <2>1, <2>3, <2>4
  <2> QED  BY <1>m, <2>1, <2>5 DEF Exact, Moved
<1>12. CASE RemoveLock(t)
  <2>1. /\ pc'[t] = "remove_entry" /\ var'[t] = var[t] /\ var[t].rp = Nil
        /\ \A u \in Threads : pc[u] # "remove_entry"
        /\ added' = added \ Bound(var[t].roots)
        /\ UNCHANGED <<bindings, next, global_roots>>
    BY <1>c, <1>t, <1>12, LockMoves
    DEF RemoveLock, Adders, CallOf, InCall, MarkPlaces, TheList
  <2>2. ListedVars' = added /\ Listed' = NodesFrom(next, global_roots, Nil)
    BY <2>1 DEF Exact, ListedVars, Listed
  <2>3. Here(t)' = global_roots
    BY <2>1 DEF Here
  <2> QED  BY <1>m, <2>1, <2>2, <2>3 DEF Exact, Moved
<1>13. CASE RemoveEntry(t)
  <2> DEFINE r == Here(t)
           B == Bound(var[t].roots)
  <2>1. /\ pc[t] = "remove_entry" /\ UNCHANGED added
        /\ \A u \in Threads \ {t} : pc[u] # "remove_entry" /\ pc'[u] # "remove_entry"
        /\ ListedVars \ B = added
        /\ \A e \in Listed \ NodesFrom(next, r, Nil) : Bound(bindings[e]) \cap B = {}
    BY <1>m, <1>13 DEF RemoveEntry, Exact, Adders, Moved
  <2>2. CASE /\ r = Nil /\ UNCHANGED <<global_roots, next, bindings, used>>
             /\ pc'[t] = "client"
    <3>1. \A e \in Listed : Bound(bindings[e]) \cap B = {}
      BY <2>1, <2>2, WalkEnds
    <3>2. ListedVars = added
      BY <1>v, <2>1, <3>1
    <3>3. ListedVars' = added'
      BY <1>v, <1>p, <2>1, <2>2, <3>2 DEF Listed
    <3> QED  BY <2>1, <2>2, <3>3 DEF Exact
  <2>3. ASSUME pc'[t] = "remove_entry", var'[t].roots = var[t].roots,
               NEW h, Here(t)' = h, Listed' \subseteq Listed,
               NodesFrom(next, r, Nil) \subseteq {r} \cup NodesFrom(next', h, Nil),
               \A e \in Listed \ {r} : e \in Listed' /\ bindings'[e] = bindings[e],
               \A v : v \in Bound(bindings[r]) \ B <=> r \in Listed' /\ v \in Bound(bindings'[r]),
               r \in Listed
        PROVE  Exact'
    <3> HIDE DEF r
    <3>1. \A v : v \in ListedVars' \ B <=> v \in ListedVars \ B
      <4>1. ASSUME NEW v, v \in ListedVars', v \notin B PROVE v \in ListedVars
        <5>1. PICK e \in Listed' : v \in Bound(bindings'[e])
          BY <1>p, <4>1
        <5> QED  BY <1>v, <2>3, <5>1
      <4>2. ASSUME NEW v, v \in ListedVars, v \notin B PROVE v \in ListedVars'
        <5>1. PICK e \in Listed : v \in Bound(bindings[e])
          BY <1>v, <4>2
        <5> QED  BY <1>p, <2>3, <4>2, <5>1
      <4> QED  BY <4>1, <4>2
    <3>2. ASSUME NEW e \in Listed', e \notin NodesFrom(next', h, Nil)
          PROVE  Bound(bindings'[e]) \cap B = {}
      <4>1. CASE e = r
        BY <2>3, <3>2, <4>1
      <4>2. CASE e # r
        BY <2>1, <2>3, <3>2, <4>2
      <4> QED  BY <4>1, <4>2
    <3>3. ListedVars' \ B = added'
      BY <2>1, <3>1
    <3> QED  BY <2>1, <2>3, <3>2, <3>3 DEF Exact
  <2>4. CASE /\ r \in Listed /\ FreesEntry(r, var[t].roots)
             /\ pc'[t] = pc[t] /\ var'[t] = var[t]
             /\ StoreRp(t, next[r]) /\ bindings' = [bindings EXCEPT ![r] = <<>>]
    <3>1. /\ Listed' = Listed \ {r}
          /\ next[r] = IF var[t].rp = Nil THEN global_roots' ELSE next'[var[t].rp]
          /\ NodesFrom(next, r, Nil) \subseteq {r} \cup NodesFrom(next', next[r], Nil)
      BY <2>1, <2>4, FreedEntry
    <3>2. Here(t)' = next[r]
      BY <2>4, <3>1 DEF Here
    <3>3. Bound(bindings[r]) \subseteq B
      BY <2>4 DEF FreesEntry, ClearedIn, Bound
    <3> HIDE DEF r
    <3>4. \A e \in Listed \ {r} : e \in Listed' /\ bindings'[e] = bindings[e]
      BY <1>t, <2>4, <3>1
    <3> QED  BY <2>1, <2>3, <2>4, <3>1, <3>2, <3>3, <3>4
  <2>5. CASE /\ r \in Listed /\ pc'[t] = pc[t] /\ var'[t].roots = var[t].roots /\ var'[t].rp = r
             /\ UNCHANGED <<global_roots, next>>
             /\ bindings' = [bindings EXCEPT ![r] = ClearedEntry(r, var[t].roots)]
    <3>1. Here(t)' = next[r] /\ Listed' = Listed
      BY <1>t, <2>5 DEF Here, Listed
    <3>2. NodesFrom(next, r, Nil) \subseteq {r} \cup NodesFrom(next', next[r], Nil)
      BY <1>t, <2>5, WalkGoesOn
    <3>3. bindings'[r] = ClearedEntry(r, var[t].roots)
      BY <1>t, <2>5
    <3>4. Bound(bindings'[r]) = Bound(bindings[r]) \ B
      BY <3>3, ClearedBound
    <3> HIDE DEF r
    <3>5. \A e \in Listed \ {r} : e \in Listed' /\ bindings'[e] = bindings[e]
      BY <1>t, <2>5, <3>1
    <3> QED  BY <2>1, <2>3, <2>5, <3>1, <3>2, <3>4, <3>5
  <2> QED  BY <1>13, <2>2, <2>4, <2>5, RemoveEntryMoves
<1>14. CASE AddCallback(t)
  BY <1>14, ReturnMoves, <1>c, <1>o DEF AddCallback, globals, CallOf, InCall, MarkPlaces
<1>15. CASE RemoveCallback(t)
  BY <1>15, ReturnMoves, <1>c, <1>o DEF RemoveCallback, globals, CallOf, InCall, MarkPlaces
<1>16. CASE LockCallbacks(t)
  BY <1>16, LockCallbacksMoves, <1>c, <1>o
  DEF LockCallbacks, globals, CallOf, InCall, MarkPlaces
<1>17. CASE InvokeCallback(t)
  BY <1>17, InvokeCallbackMoves, <1>c, <1>o
  DEF InvokeCallback, globals, CallOf, InCall, MarkPlaces
<1>18. CASE MarkGlobal(t)
  BY <1>18, MarkGlobalMoves, <1>c, <1>o DEF MarkGlobal, globals, CallOf, InCall, MarkPlaces
<1>19. CASE MarkThread(t)
  BY <1>19, MarkThreadMoves, <1>c, <1>o DEF MarkThread, globals, CallOf, InCall, MarkPlaces
<1>20. CASE MarkFrame(t)
  BY <1>20, MarkFrameMoves, <1>c, <1>o DEF MarkFrame, globals, CallOf, InCall, MarkPlaces
<1>21. CASE Collected(t)
  BY <1>21, ReturnMoves, <1>c, <1>o DEF Collected, globals, CallOf, InCall, MarkPlaces
<1> QED  BY <1>1, <1>2, <1>3, <1>4, <1>5, <1>6, <1>7, <1>8, <1>9, <1>10, <1>11, <1>12,
     <1>13, <1>14, <1>15, <1>16, <1>17, <1>18, <1>19, <1>20, <1>21 DEF Client, Step

(* The variables of what is bound. *)
LEMMA BoundTyped ==
  ASSUME NEW f \in Seq(Vars \cup {NoBinding})
  PROVE  Bound(f) \subseteq Vars
<1>1. \A i \in DOMAIN f : f[i] \in Vars \cup {NoBinding}
  OBVIOUS
<1> QED  BY <1>1 DEF Bound

(* A frame has variables. *)
LEMMA FrameTyped ==
  ASSUME NEW f \in Frames \cup {<<>>}
  PROVE  f \in Seq(Vars \cup {NoBinding}) /\ Bound(f) \subseteq Vars
<1>1. f \in Seq(Vars)
  BY RootsAssumption, EmptySeq
<1>2. f \in Seq(Vars \cup {NoBinding})
  BY <1>1, SeqMonotonic
<1> QED  BY <1>2, BoundTyped

(* A cleared entry still has bindings or none. *)
LEMMA ClearedTyped ==
  ASSUME NEW r, NEW f, bindings[r] \in Seq(Vars \cup {NoBinding})
  PROVE  ClearedEntry(r, f) \in Seq(Vars \cup {NoBinding})
<1> DEFINE s == bindings[r]
           n == Len(s)
           c == ClearedEntry(r, f)
<1>1. n \in Nat /\ DOMAIN s = 1..n /\ \A j \in 1..n : s[j] \in Vars \cup {NoBinding}
  OBVIOUS
<1>2. c \in [1..n -> Vars \cup {NoBinding}]
  BY <1>1 DEF ClearedEntry
<1> HIDE DEF s, n, c
<1>3. c \in Seq(Vars \cup {NoBinding})
  BY <1>1, <1>2, SeqDef
<1> QED  BY <1>3 DEF c

(* The roots are variables. *)
LEMMA RootVarsTyped == ASSUME TypeOK PROVE RootVars \subseteq Vars
<1>1. \A t \in Threads : \A i \in DOMAIN frames[t] : Bound(frames[t][i]) \subseteq Vars
  <2> SUFFICES ASSUME NEW t \in Threads, NEW i \in DOMAIN frames[t]
               PROVE  Bound(frames[t][i]) \subseteq Vars
    OBVIOUS
  <2>1. frames[t] \in Seq(Frames)
    BY DEF TypeOK
  <2>2. frames[t][i] \in Frames
    BY <2>1
  <2> QED  BY <2>2, FrameTyped
<1>2. \A c \in kept_cbs : DataOf[c] \in Vars
  BY RootsAssumption DEF TypeOK
<1>3. added \subseteq Vars
  BY DEF TypeOK
<1> QED  BY <1>1, <1>2, <1>3 DEF RootVars

(* What TypeOK says of the variables that are neither rings nor threads.   *)
DataTyped ==
  /\ initialized \in BOOLEAN /\ once \in BOOLEAN
  /\ used \subseteq Entries /\ global_roots \in Entries \cup {Nil}
  /\ next \in [Entries -> Entries \cup {Nil}]
  /\ bindings \in [Entries -> Seq(Vars \cup {NoBinding})]
  /\ global_roots_mutex \in Threads \cup {Nil} /\ callbacks_mutex \in Threads \cup {Nil}
  /\ kept_cbs \subseteq Callbacks /\ registered \subseteq Threads
  /\ walking_threads \in BOOLEAN
  /\ frames \in [Threads -> Seq(Frames)]
  /\ added \subseteq Vars /\ must \subseteq Vars /\ marked \subseteq Vars

(* The other variables keep their types. *)
LEMMA DataStep ==
  ASSUME TypeOK, FirstCallAlone, FramesOK, Calls, Walks, TheList, FirstCall, HandlesOK,
         Adders, NEW t \in Threads, Client(t) \/ Step(t)
  PROVE  DataTyped'
<1>c. CallOf(t)
  BY DEF Calls
<1>d. DataTyped
  BY DEF TypeOK, DataTyped
<1>1. CASE smal_thread_self(t)
  <2>1. /\ registered' = registered \cup {t}
        /\ UNCHANGED <<initialized, once, global_roots, next, bindings, used,
                      global_roots_mutex, callbacks_mutex, kept_cbs, walking_threads,
                      frames, added, must, marked>>
    BY <1>1, ClientStays DEF smal_thread_self, thread_init, globals, cbs, thrs, mark
  <2> QED  BY <1>d, <2>1 DEF DataTyped
<1>2. CASE smal_roots_end(t)
  <2>1. /\ frames' = [frames EXCEPT ![t] = SubSeq(frames[t], 1, Len(frames[t]) - 1)]
        /\ frames[t] # <<>>
        /\ must' \subseteq must
        /\ UNCHANGED <<initialized, once, global_roots, next, bindings, used,
                      global_roots_mutex, callbacks_mutex, kept_cbs, registered,
                      walking_threads, added, marked>>
    BY <1>2, ClientStays DEF smal_roots_end, globals, cbs, thrs, mark
  <2>2. SubSeq(frames[t], 1, Len(frames[t]) - 1) \in Seq(Frames)
    BY <1>d, <2>1, PopFrame DEF DataTyped
  <2> QED  BY <1>d, <2>1, <2>2 DEF DataTyped
<1>3. ASSUME NEW f \in Frames, smal_roots_begin(t, f) PROVE DataTyped'
  <2>1. /\ frames' = [frames EXCEPT ![t] = Append(frames[t], f)]
        /\ UNCHANGED <<initialized, once, global_roots, next, bindings, used,
                      global_roots_mutex, callbacks_mutex, kept_cbs, registered,
                      walking_threads, added, must, marked>>
    BY <1>3, ClientStays DEF smal_roots_begin, globals, cbs, thrs, mark
  <2>2. Append(frames[t], f) \in Seq(Frames)
    BY <1>d, PushFrame DEF DataTyped
  <2> QED  BY <1>d, <2>1, <2>2 DEF DataTyped
<1>4. ASSUME NEW f \in Frames, smal_roots_add_global(t, f) PROVE DataTyped'
  <2>1. /\ initialized' = TRUE
        /\ var'[t].r \in Entries
        /\ used' = used \cup {var'[t].r}
        /\ bindings' = [bindings EXCEPT ![var'[t].r] = f]
        /\ UNCHANGED <<once, global_roots, next, global_roots_mutex, callbacks_mutex,
                      kept_cbs, registered, walking_threads, frames, added, must, marked>>
    BY <1>4, AddGlobalMoves DEF smal_roots_add_global, globals, cbs, thrs, mark
  <2>2. f \in Seq(Vars \cup {NoBinding})
    BY FrameTyped
  <2> QED  BY <1>d, <2>1, <2>2 DEF DataTyped
<1>5. ASSUME NEW f \in Frames, smal_roots_remove_global(t, f) PROVE DataTyped'
  <2>1. /\ initialized' = TRUE
        /\ UNCHANGED <<once, global_roots, next, bindings, used, global_roots_mutex,
                      callbacks_mutex, kept_cbs, registered, walking_threads, frames,
                      added, must, marked>>
    BY <1>5, RemoveGlobalMoves DEF smal_roots_remove_global, globals, cbs, thrs, mark
  <2> QED  BY <1>d, <2>1 DEF DataTyped
<1>6. CASE smal_roots_add_callback(t)
  <2>1. /\ initialized' = TRUE
        /\ UNCHANGED <<once, global_roots, next, bindings, used, global_roots_mutex,
                      callbacks_mutex, kept_cbs, registered, walking_threads, frames,
                      added, must, marked>>
    BY <1>6, AddCallbackCall DEF smal_roots_add_callback, globals, cbs, thrs, mark
  <2> QED  BY <1>d, <2>1 DEF DataTyped
<1>7. CASE smal_roots_remove_callback(t)
  <2>1. /\ initialized' = TRUE
        /\ UNCHANGED <<once, global_roots, next, bindings, used, global_roots_mutex,
                      callbacks_mutex, kept_cbs, registered, walking_threads, frames,
                      added, must, marked>>
    BY <1>7, RemoveCallbackCall DEF smal_roots_remove_callback, globals, cbs, thrs, mark
  <2> QED  BY <1>d, <2>1 DEF DataTyped
<1>8. CASE smal_roots_mark_chain(t)
  <2>1. /\ initialized' = TRUE
        /\ UNCHANGED <<once, global_roots, next, bindings, used, global_roots_mutex,
                      callbacks_mutex, kept_cbs, registered, walking_threads, frames,
                      added, must, marked>>
    BY <1>8, MarkChainMoves DEF smal_roots_mark_chain, globals, cbs, thrs, mark
  <2> QED  BY <1>d, <2>1 DEF DataTyped
<1>9. CASE Once(t)
  <2>1. /\ once' = TRUE
        /\ UNCHANGED <<initialized, global_roots, next, bindings, used,
                      global_roots_mutex, callbacks_mutex, kept_cbs, registered,
                      walking_threads, frames, added, must, marked>>
    BY <1>9, OnceMoves DEF Once, globals, cbs, thrs, mark
  <2> QED  BY <1>d, <2>1 DEF DataTyped
<1>10. CASE AddLock(t)
  <2>1. /\ global_roots_mutex' = t
        /\ next' = [next EXCEPT ![var[t].r] = global_roots]
        /\ UNCHANGED <<initialized, once, global_roots, bindings, used, callbacks_mutex,
                      kept_cbs, registered, walking_threads, frames, added, must, marked>>
    BY <1>10, LockMoves DEF AddLock, globals, cbs, thrs, mark
  <2>2. next' \in [Entries -> Entries \cup {Nil}]
    BY <1>d, <2>1 DEF DataTyped
  <2> QED  BY <1>d, <2>1, <2>2 DEF DataTyped
<1>11. CASE AddHead(t)
  <2>1. /\ global_roots' = var[t].r
        /\ global_roots_mutex' = Nil
        /\ added' = added \cup Bound(var[t].roots)
        /\ UNCHANGED <<initialized, once, next, bindings, used, callbacks_mutex,
                      kept_cbs, registered, walking_threads, frames, must, marked>>
    BY <1>11, ReturnMoves DEF AddHead, globals, cbs, thrs, mark
  <2>2. var[t].r \in Entries \cup {Nil} /\ var[t].roots \in Frames \cup {<<>>}
    BY DEF TypeOK, Locals
  <2>3. Bound(var[t].roots) \subseteq Vars
    BY <2>2, FrameTyped
  <2> QED  BY <1>d, <2>1, <2>2, <2>3 DEF DataTyped
<1>12. CASE RemoveLock(t)
  <2>1. /\ global_roots_mutex' = t
        /\ added' \subseteq added
        /\ must' \subseteq must
        /\ UNCHANGED <<initialized, once, global_roots, next, bindings, used,
                      callbacks_mutex, kept_cbs, registered, walking_threads, frames,
                      marked>>
    BY <1>12, LockMoves DEF RemoveLock, globals, cbs, thrs, mark
  <2> QED  BY <1>d, <2>1 DEF DataTyped
<1>13. CASE RemoveEntry(t)
  <2>1. /\ UNCHANGED <<initialized, once, callbacks_mutex, kept_cbs, registered,
                      walking_threads, frames, added, must, marked>>
        /\ global_roots_mutex' \in {global_roots_mutex, Nil} /\ used' \subseteq used
    BY <1>13, RemoveEntryMoves DEF RemoveEntry, cbs, thrs, mark
  <2>2. UNCHANGED bindings \/ \E b \in Seq(Vars \cup {NoBinding}) : bindings' = [bindings EXCEPT ![Here(t)] = b]
    <3>1. /\ <<>> \in Seq(Vars \cup {NoBinding})
          /\ bindings[Here(t)] \in Seq(Vars \cup {NoBinding}) =>
               ClearedEntry(Here(t), var[t].roots) \in Seq(Vars \cup {NoBinding})
      BY ClearedTyped, EmptySeq
    <3>2. Here(t) \in Listed => bindings[Here(t)] \in Seq(Vars \cup {NoBinding})
      BY <1>d DEF DataTyped, TheList
    <3> QED  BY <1>13, <3>1, <3>2, RemoveEntryMoves
  <2>3. /\ global_roots' \in Entries \cup {Nil} /\ next' \in [Entries -> Entries \cup {Nil}]
    <3>1. Here(t) \in Listed => next[Here(t)] \in Entries \cup {Nil}
      BY <1>d DEF DataTyped, TheList
    <3>2. UNCHANGED <<global_roots, next>> \/ (Here(t) \in Listed /\ StoreRp(t, next[Here(t)]))
      BY <1>13, RemoveEntryMoves
    <3> QED  BY <1>d, <3>1, <3>2 DEF DataTyped, StoreRp
  <2>4. bindings' \in [Entries -> Seq(Vars \cup {NoBinding})]
    BY <1>d, <2>2 DEF DataTyped
  <2> QED  BY <1>d, <2>1, <2>3, <2>4 DEF DataTyped
<1>14. CASE AddCallback(t)
  <2>1. /\ kept_cbs' = kept_cbs \cup {var[t].entry}
        /\ var[t].entry \in Callbacks
        /\ UNCHANGED <<initialized, once, global_roots, next, bindings, used,
                      global_roots_mutex, callbacks_mutex, registered, walking_threads,
                      frames, added, must, marked>>
    BY <1>14, <1>c
    DEF AddCallback, globals, cbs, thrs, mark, HandlesOK, CallOf, InCall, MarkPlaces
  <2> QED  BY <1>d, <2>1 DEF DataTyped
<1>15. CASE RemoveCallback(t)
  <2>1. /\ kept_cbs' \subseteq kept_cbs
        /\ must' \subseteq must
        /\ UNCHANGED <<initialized, once, global_roots, next, bindings, used,
                      global_roots_mutex, callbacks_mutex, registered, walking_threads,
                      frames, added, marked>>
    BY <1>15, ReturnMoves DEF RemoveCallback, globals, cbs, thrs, mark
  <2> QED  BY <1>d, <2>1 DEF DataTyped
<1>16. CASE LockCallbacks(t)
  <2>1. /\ callbacks_mutex' = t
        /\ must' = RootVars
        /\ marked' = {}
        /\ UNCHANGED <<initialized, once, global_roots, next, bindings, used,
                      global_roots_mutex, kept_cbs, registered, walking_threads, frames,
                      added>>
    BY <1>16, LockCallbacksMoves DEF LockCallbacks, globals, cbs, thrs, mark
  <2>2. RootVars \subseteq Vars
    BY RootVarsTyped
  <2> QED  BY <1>d, <2>1, <2>2 DEF DataTyped
<1>17. CASE InvokeCallback(t)
  <2>1. /\ callbacks_mutex' \in {callbacks_mutex, Nil}
        /\ UNCHANGED marked \/ \E c \in kept_cbs : marked' = marked \cup {DataOf[c]}
        /\ UNCHANGED <<initialized, once, global_roots, next, bindings, used,
                      global_roots_mutex, kept_cbs, registered, walking_threads, frames,
                      added, must>>
    BY <1>17, InvokeCallbackMoves DEF InvokeCallback, globals, thrs
  <2>2. \A c \in kept_cbs : DataOf[c] \in Vars
    BY <1>d, RootsAssumption DEF DataTyped
  <2>3. marked \subseteq Vars
    BY <1>d DEF DataTyped
  <2>4. ASSUME NEW c \in kept_cbs, marked' = marked \cup {DataOf[c]}
        PROVE  marked' \subseteq Vars
    <3>1. DataOf[c] \in Vars
      BY <2>2
    <3> QED  BY <2>3, <2>4, <3>1
  <2>5. marked' \subseteq Vars
    BY <2>1, <2>3, <2>4
  <2> QED  BY <1>d, <2>1, <2>5 DEF DataTyped
<1>18. CASE MarkGlobal(t)
  <2>1. /\ walking_threads' \in {walking_threads, TRUE}
        /\ UNCHANGED marked \/ \E r \in Entries : marked' = marked \cup Bound(bindings[r])
        /\ UNCHANGED <<initialized, once, global_roots, next, bindings, used,
                      global_roots_mutex, callbacks_mutex, kept_cbs, registered, frames,
                      added, must>>
    BY <1>18, MarkGlobalMoves DEF MarkGlobal, globals, cbs
  <2>2. \A r \in Entries : Bound(bindings[r]) \subseteq Vars
    BY <1>d, BoundTyped DEF DataTyped
  <2>3. marked' \subseteq Vars
    BY <1>d, <2>1, <2>2 DEF DataTyped
  <2> QED  BY <1>d, <2>1, <2>3 DEF DataTyped
<1>19. CASE MarkThread(t)
  <2>1. /\ walking_threads' \in BOOLEAN
        /\ UNCHANGED <<initialized, once, global_roots, next, bindings, used,
                      global_roots_mutex, callbacks_mutex, kept_cbs, registered, frames,
                      added, must, marked>>
    BY <1>19, <1>d, MarkThreadMoves DEF MarkThread, globals, cbs, thrs, mark, DataTyped
  <2> QED  BY <1>d, <2>1 DEF DataTyped
<1>20. CASE MarkFrame(t)
  <2>1. /\ UNCHANGED <<initialized, once, global_roots, next, bindings, used,
                      global_roots_mutex, callbacks_mutex, kept_cbs, registered,
                      walking_threads, frames, added, must>>
    BY <1>20 DEF MarkFrame, globals, cbs, thrs
  <2> DEFINE u == var[t].entry
             k == var[t].frame
  <2>2. \/ UNCHANGED marked
        \/ k \in DOMAIN frames[u] /\ marked' = marked \cup Bound(frames[u][k])
    BY <1>20, MarkFrameMoves
  <2>3. u \in Threads
    BY <1>20 DEF MarkFrame, Walks, TypeOK
  <2>4. k \in DOMAIN frames[u] => Bound(frames[u][k]) \subseteq Vars
    <3>1. frames[u] \in Seq(Frames)
      BY <1>d, <2>3 DEF DataTyped
    <3> HIDE DEF u, k
    <3>2. k \in DOMAIN frames[u] => frames[u][k] \in Frames
      BY <3>1
    <3> QED  BY <3>2, FrameTyped
  <2>5. marked' \subseteq Vars
    BY <1>d, <2>2, <2>4 DEF DataTyped
  <2> QED  BY <1>d, <2>1, <2>5 DEF DataTyped
<1>21. CASE Collected(t)
  <2>1. /\ must' = {}
        /\ marked' = {}
        /\ UNCHANGED <<initialized, once, global_roots, next, bindings, used,
                      global_roots_mutex, callbacks_mutex, kept_cbs, registered,
                      walking_threads, frames, added>>
    BY <1>21, ReturnMoves DEF Collected, globals, cbs, thrs, mark
  <2> QED  BY <1>d, <2>1 DEF DataTyped
<1> QED  BY <1>1, <1>2, <1>3, <1>4, <1>5, <1>6, <1>7, <1>8, <1>9, <1>10, <1>11, <1>12,
     <1>13, <1>14, <1>15, <1>16, <1>17, <1>18, <1>19, <1>20, <1>21 DEF Client, Step

(* The type invariant is kept. *)
LEMMA TypeStep ==
  ASSUME TypeOK, FirstCallAlone, FramesOK, Calls, Walks, TheList, FirstCall, Rings, HandlesOK,
         Adders, NEW t \in Threads, Client(t) \/ Step(t)
  PROVE  TypeOK'
<1>1. Moved(t) /\ DataTyped'
  BY StepMoves, DataStep
<1>2. links' \in Links(Nodes, Nil)
  BY RingsStep
<1>3. TheList'
  BY TheListStep
<1>4. global_roots' \in used' \cup {Nil}
  <2>1. next' \in [Entries -> Entries \cup {Nil}] /\ global_roots' \in Entries \cup {Nil}
    BY <1>1 DEF DataTyped
  <2>2. global_roots' # Nil => global_roots' \in Listed'
    BY <2>1, ListClosed DEF Listed
  <2> QED  BY <1>3, <2>2 DEF TheList
<1> QED  BY <1>1, <1>2, <1>4 DEF DataTyped, TypeOK, Moved

-----------------------------------------------------------------------------
(* The invariant, for every program whose first call is alone.             *)

IInv ==
  /\ TypeOK /\ Calls /\ FirstCall /\ FramesOK /\ Rings /\ HandlesOK
  /\ Walks /\ Adders /\ TheList /\ Exact

(* It holds before the first call.                                         *)
LEMMA InitInv == ASSUME Init PROVE IInv
<1>1. NoLocals \in Locals /\ NoLocals.goto = "client"
  BY NoLocalsFields
<1>2. \A t \in Threads : pc[t] = "client" /\ var[t] = NoLocals /\ var[t].goto = "client"
  BY <1>1 DEF Init
<1>3. Listed = {} /\ Adding = {}
  <2>1. Listed = {}
    BY WalkEnds DEF Init, Listed
  <2> QED  BY <1>2, <2>1 DEF Adding
<1>4. TypeOK
  <2>1. pc \in [Threads -> Places] /\ var \in [Threads -> Locals]
    BY <1>1 DEF Init, Places
  <2>2. links \in Links(Nodes, Nil)
    BY DEF Init, Links
  <2>3. /\ next \in [Entries -> Entries \cup {Nil}]
        /\ bindings \in [Entries -> Seq(Vars \cup {NoBinding})]
        /\ frames \in [Threads -> Seq(Frames)]
    BY EmptySeq DEF Init
  <2> QED  BY <2>1, <2>2, <2>3 DEF Init, TypeOK
<1>5. Calls /\ FirstCall
  BY <1>2 DEF Calls, CallOf, InCall, FirstCall, Init
<1>6. FramesOK
  BY RootsAssumption DEF FramesOK, Init
<1>7. Rings /\ HandlesOK /\ Walks /\ Adders
  BY <1>2 DEF Rings, HandlesOK, Walks, Adders, Init
<1>8. TheList
  BY <1>2, <1>3 DEF TheList, OneWay, Init, Listed
<1>9. Exact
  <2>1. ListedVars = {}
    BY <1>3 DEF ListedVars
  <2> QED  BY <1>2, <2>1 DEF Exact, Init
<1> QED  BY <1>4, <1>5, <1>6, <1>7, <1>8, <1>9 DEF IInv

(* A step of any thread keeps it, and so does a step of anything else.     *)
LEMMA InvStep ==
  ASSUME FirstCallAlone, IInv, [Next]_vars
  PROVE  IInv'
<1>1. CASE Next
  <2>1. PICK t \in Threads : Client(t) \/ Step(t)
    BY <1>1 DEF Next
  <2>2. /\ TypeOK /\ Calls /\ FirstCall /\ FramesOK /\ Rings /\ HandlesOK
        /\ Walks /\ Adders /\ TheList /\ Exact
    BY DEF IInv
  <2>3. TypeOK'
    BY <2>1, <2>2, TypeStep
  <2>4. Calls' /\ FirstCall' /\ FramesOK'
    BY <2>1, <2>2, CallsStep, FirstCallStep, FramesStep
  <2>5. HandlesOK' /\ Adders' /\ Walks' /\ Rings' /\ TheList'
    BY <2>1, <2>2, HandlesStep, AddersStep, WalksStep, RingsStep, TheListStep
  <2>6. Exact'
    BY <2>1, <2>2, ExactStep
  <2> QED  BY <2>3, <2>4, <2>5, <2>6 DEF IInv
<1>2. CASE UNCHANGED vars
  <2>1. UNCHANGED <<initialized, once, global_roots, next, bindings, used, global_roots_mutex,
                    callbacks_mutex, links, kept_cbs, registered, walking_threads, frames, pc,
                    var, added, must, marked>>
    BY <1>2 DEF vars, globals, cbs, thrs, mark
  <2>2. /\ TypeOK /\ Calls /\ FirstCall /\ FramesOK /\ Rings /\ HandlesOK
        /\ Walks /\ Adders /\ TheList /\ Exact
    BY DEF IInv
  <2>3. UNCHANGED <<Listed, Adding>>
    BY <2>1 DEF Listed, Adding
  <2>4. ListedVars' = ListedVars /\ \A t \in Threads : Here(t)' = Here(t)
    BY <2>1, <2>3 DEF ListedVars, Here
  <2>5. TypeOK'
    BY <2>1, <2>2 DEF TypeOK
  <2>6. Calls' /\ FirstCall' /\ FramesOK' /\ Rings' /\ HandlesOK'
    BY <2>1, <2>2 DEF Calls, CallOf, FirstCall, FramesOK, Rings, HandlesOK
  <2>7. Walks' /\ Adders' /\ TheList'
    BY <2>1, <2>2, <2>3 DEF Walks, Adders, TheList
  <2>8. Exact'
    BY <2>1, <2>2, <2>3, <2>4 DEF Exact
  <2> QED  BY <2>5, <2>6, <2>7, <2>8 DEF IInv
<1> QED  BY <1>1, <1>2

(* What every state keeps: the types, the calls the threads are in, the    *)
(* two rings, and the list of global roots with what its entries bind.     *)
THEOREM Invariant ==
  ASSUME FirstCallAlone
  PROVE  Spec => []IInv
<1>1. Init => IInv
  BY InitInv
<1>2. IInv /\ [Next]_vars => IInv'
  BY InvStep
<1> QED  BY <1>1, <1>2, PTL DEF Spec

(* Every variable keeps its type, whatever calls overlap.                  *)
THEOREM TypeCorrect ==
  ASSUME FirstCallAlone
  PROVE  Spec => []TypeOK
<1>1. IInv => TypeOK
  BY DEF IInv
<1> QED  BY <1>1, Invariant, PTL

(* smal_roots_add_global and smal_roots_remove_global keep the list exact: *)
(* when nobody holds the mutex it binds the variables added and not        *)
(* removed, and has each entry in memory but those about to be pushed.     *)
THEOREM GlobalIsExact ==
  ASSUME FirstCallAlone
  PROVE  Spec => []GlobalExact
<1>1. ASSUME IInv PROVE GlobalExact
  <2> SUFFICES ASSUME global_roots_mutex = Nil
               PROVE  ListedVars = added /\ Listed = used \ Adding
    BY DEF GlobalExact, ListedVars, Adding
  <2>1. \A t \in Threads : pc[t] # "remove_entry"
    BY <1>1, RootsAssumption DEF IInv, Adders
  <2> QED  BY <1>1, <2>1 DEF IInv, Exact, TheList
<1> QED  BY <1>1, Invariant, PTL

-----------------------------------------------------------------------------
(* A program that removes no global roots and ends no frame while another  *)
(* thread marks (SmalRoots.cfg is one).  What the marking has still ahead  *)
(* is only added to.                                                       *)

(* No global roots are removed while a collection marks. *)
LEMMA NoRemovalStep ==
  ASSUME TypeOK, FirstCallAlone, FramesOK, Calls, Walks, TheList, FirstCall, NoRemoval,
         CarefulProgram, NEW t \in Threads, Client(t) \/ Step(t)
  PROVE  NoRemoval'
<1>c. CallOf(t)
  BY DEF Calls
<1>m. Moved(t)
  BY StepMoves
<1>q. \A u \in Threads : (initialized => once) /\ var[u].goto # "client" => pc[u] # "once"
  BY DEF FirstCall
<1>o. ASSUME var'[t].goto \in {var[t].goto, "add_lock", "add_callback", "remove_callback", "client"}
      PROVE  NoRemoval'
  BY <1>m, <1>o DEF NoRemoval, Moved
<1>1. CASE smal_thread_self(t)
  BY <1>1, ClientStays, <1>o, NoLocalsFields
<1>2. CASE smal_roots_end(t)
  BY <1>2, ClientStays, <1>o, NoLocalsFields
<1>3. ASSUME NEW f \in Frames, smal_roots_begin(t, f) PROVE NoRemoval'
  BY <1>3, ClientStays, <1>o, NoLocalsFields
<1>4. ASSUME NEW f \in Frames, smal_roots_add_global(t, f) PROVE NoRemoval'
  BY <1>4, AddGlobalMoves, <1>o, NoLocalsFields
<1>5. ASSUME NEW f \in Frames, smal_roots_remove_global(t, f) PROVE NoRemoval'
  <2>1. /\ ~ Marking /\ var'[t].goto = "remove_lock" /\ (initialized => once)
        /\ pc[t] = "client"
    BY <1>5, RemoveGlobalMoves DEF smal_roots_remove_global, May, CarefulProgram
  <2>2. \A u \in Threads : var[u].goto # "mark_start"
    BY <1>q, <2>1 DEF Calls, CallOf, InCall, Marking, MarkPlaces
  <2> QED  BY <1>m, <2>1, <2>2 DEF NoRemoval, Moved
<1>6. CASE smal_roots_add_callback(t)
  BY <1>6, AddCallbackCall, <1>o, NoLocalsFields
<1>7. CASE smal_roots_remove_callback(t)
  BY <1>7, RemoveCallbackCall, <1>o, NoLocalsFields
<1>8. CASE smal_roots_mark_chain(t)
  <2>1. /\ var'[t].goto = "mark_start" /\ (initialized => once)
        /\ \A u \in Threads : pc[u] \notin {"remove_lock", "remove_entry"}
    BY <1>8, MarkChainMoves DEF smal_roots_mark_chain, CarefulProgram
  <2>2. \A u \in Threads : var[u].goto # "remove_lock"
    BY <1>q, <2>1 DEF Calls, CallOf, InCall, MarkPlaces
  <2> QED  BY <1>m, <2>1, <2>2 DEF NoRemoval, Moved
<1>9. CASE Once(t)
  BY <1>9, OnceMoves, <1>o, NoLocalsFields
<1>10. CASE AddLock(t)
  BY <1>10, LockMoves, <1>o
<1>11. CASE AddHead(t)
  BY <1>11, ReturnMoves, <1>o, NoLocalsFields
<1>12. CASE RemoveLock(t)
  BY <1>12, LockMoves, <1>o
<1>13. CASE RemoveEntry(t)
  BY <1>13, RemoveEntryMoves, <1>o, NoLocalsFields
<1>14. CASE AddCallback(t)
  BY <1>14, ReturnMoves, <1>o, NoLocalsFields
<1>15. CASE RemoveCallback(t)
  BY <1>15, ReturnMoves, <1>o, NoLocalsFields
<1>16. CASE LockCallbacks(t)
  BY <1>16, LockCallbacksMoves, <1>o, NoLocalsFields
<1>17. CASE InvokeCallback(t)
  BY <1>17, InvokeCallbackMoves, <1>o, NoLocalsFields
<1>18. CASE MarkGlobal(t)
  BY <1>18, MarkGlobalMoves, <1>o, NoLocalsFields
<1>19. CASE MarkThread(t)
  BY <1>19, MarkThreadMoves, <1>o, NoLocalsFields
<1>20. CASE MarkFrame(t)
  BY <1>20, MarkFrameMoves, <1>o, NoLocalsFields
<1>21. CASE Collected(t)
  BY <1>21, ReturnMoves, <1>o, NoLocalsFields
<1> QED  BY <1>1, <1>2, <1>3, <1>4, <1>5, <1>6, <1>7, <1>8, <1>9, <1>10, <1>11, <1>12,
     <1>13, <1>14, <1>15, <1>16, <1>17, <1>18, <1>19, <1>20, <1>21 DEF Client, Step

(* What another thread is walking through stays. *)
FramesStay ==
  \A u \in Threads : \A i \in DOMAIN frames[u] :
    i \in DOMAIN frames'[u] /\ frames'[u][i] = frames[u][i]

(* Nobody ends a frame while a collection marks. *)
LEMMA FramesGrow ==
  ASSUME TypeOK, FirstCallAlone, FramesOK, Calls, Walks, TheList, CarefulProgram,
         NEW w \in Threads, pc[w] \in MarkPlaces, NEW t \in Threads,
         Client(t) \/ Step(t)
  PROVE  FramesStay
<1>o. ASSUME UNCHANGED frames PROVE FramesStay
  BY <1>o DEF FramesStay
<1>1. CASE smal_thread_self(t)
  BY <1>1, <1>o DEF smal_thread_self, thread_init
<1>2. CASE smal_roots_end(t)
  BY <1>2 DEF smal_roots_end, May, Marking, CarefulProgram
<1>3. ASSUME NEW f \in Frames, smal_roots_begin(t, f) PROVE FramesStay
  <2>1. frames' = [frames EXCEPT ![t] = Append(frames[t], f)] /\ frames \in [Threads -> Seq(Frames)]
    BY <1>3 DEF smal_roots_begin, TypeOK
  <2>2. \A i \in DOMAIN frames[t] :
          i \in DOMAIN Append(frames[t], f) /\ Append(frames[t], f)[i] = frames[t][i]
    BY <2>1, PushFrame
  <2>3. ASSUME NEW u \in Threads, NEW i \in DOMAIN frames[u]
        PROVE  i \in DOMAIN frames'[u] /\ frames'[u][i] = frames[u][i]
    BY <2>1, <2>2, <2>3
  <2> QED  BY <2>3 DEF FramesStay
<1>4. ASSUME NEW f \in Frames, smal_roots_add_global(t, f) PROVE FramesStay
  BY <1>4, <1>o DEF smal_roots_add_global
<1>5. ASSUME NEW f \in Frames, smal_roots_remove_global(t, f) PROVE FramesStay
  BY <1>5, <1>o DEF smal_roots_remove_global
<1>6. CASE smal_roots_add_callback(t)
  BY <1>6, <1>o DEF smal_roots_add_callback
<1>7. CASE smal_roots_remove_callback(t)
  BY <1>7, <1>o DEF smal_roots_remove_callback
<1>8. CASE smal_roots_mark_chain(t)
  BY <1>8, <1>o DEF smal_roots_mark_chain
<1>9. CASE Once(t)
  BY <1>9, <1>o DEF Once
<1>10. CASE AddLock(t)
  BY <1>10, <1>o DEF AddLock
<1>11. CASE AddHead(t)
  BY <1>11, <1>o DEF AddHead
<1>12. CASE RemoveLock(t)
  BY <1>12, <1>o DEF RemoveLock
<1>13. CASE RemoveEntry(t)
  BY <1>13, <1>o DEF RemoveEntry
<1>14. CASE AddCallback(t)
  BY <1>14, <1>o DEF AddCallback
<1>15. CASE RemoveCallback(t)
  BY <1>15, <1>o DEF RemoveCallback
<1>16. CASE LockCallbacks(t)
  BY <1>16, <1>o DEF LockCallbacks
<1>17. CASE InvokeCallback(t)
  BY <1>17, <1>o DEF InvokeCallback
<1>18. CASE MarkGlobal(t)
  BY <1>18, <1>o DEF MarkGlobal
<1>19. CASE MarkThread(t)
  BY <1>19, <1>o DEF MarkThread
<1>20. CASE MarkFrame(t)
  BY <1>20, <1>o DEF MarkFrame
<1>21. CASE Collected(t)
  BY <1>21, <1>o DEF Collected
<1> QED  BY <1>1, <1>2, <1>3, <1>4, <1>5, <1>6, <1>7, <1>8, <1>9, <1>10, <1>11, <1>12,
     <1>13, <1>14, <1>15, <1>16, <1>17, <1>18, <1>19, <1>20, <1>21 DEF Client, Step

(* The entries of the list stay in it, as they are. *)
ListStays ==
  /\ Listed \subseteq Listed' /\ added \subseteq added'
  /\ \A e \in Listed : next'[e] = next[e] /\ bindings'[e] = bindings[e]

(* Nobody takes an entry off the list while a collection marks. *)
LEMMA ListGrows ==
  ASSUME TypeOK, FirstCallAlone, FramesOK, Calls, Walks, TheList, FirstCall, Adders,
         NoRemoval, CarefulProgram, NEW w \in Threads, pc[w] \in MarkPlaces,
         NEW t \in Threads, Client(t) \/ Step(t)
  PROVE  ListStays
<1>c. CallOf(t)
  BY DEF Calls
<1>m. Moved(t)
  BY StepMoves
<1>o. ASSUME UNCHANGED <<next, global_roots, bindings, added>> PROVE ListStays
  BY <1>o DEF ListStays, Listed
<1>r. pc[t] \notin {"remove_lock", "remove_entry"}
  BY <1>c DEF Calls, CallOf, InCall, MarkPlaces, NoRemoval
<1>t. /\ next \in [Entries -> Entries \cup {Nil}] /\ global_roots \in Entries \cup {Nil}
      /\ used \subseteq Entries /\ Listed \subseteq used
      /\ bindings \in [Entries -> Seq(Vars \cup {NoBinding})]
  BY DEF TypeOK, TheList
<1>1. CASE smal_thread_self(t)
  BY <1>1, <1>o DEF smal_thread_self, thread_init, globals
<1>2. CASE smal_roots_end(t)
  BY <1>2, <1>o DEF smal_roots_end, globals
<1>3. ASSUME NEW f \in Frames, smal_roots_begin(t, f) PROVE ListStays
  BY <1>3, <1>o DEF smal_roots_begin, globals
<1>4. ASSUME NEW f \in Frames, smal_roots_add_global(t, f) PROVE ListStays
  <2>1. /\ var'[t].r \in Entries \ used /\ bindings' = [bindings EXCEPT ![var'[t].r] = f]
        /\ UNCHANGED <<next, global_roots, added>>
    BY <1>4, AddGlobalMoves DEF smal_roots_add_global
  <2> QED  BY <1>t, <2>1 DEF ListStays, Listed
<1>5. ASSUME NEW f \in Frames, smal_roots_remove_global(t, f) PROVE ListStays
  BY <1>5, <1>o DEF smal_roots_remove_global, globals
<1>6. CASE smal_roots_add_callback(t)
  BY <1>6, <1>o DEF smal_roots_add_callback, globals
<1>7. CASE smal_roots_remove_callback(t)
  BY <1>7, <1>o DEF smal_roots_remove_callback, globals
<1>8. CASE smal_roots_mark_chain(t)
  BY <1>8, <1>o DEF smal_roots_mark_chain, globals
<1>9. CASE Once(t)
  BY <1>9, <1>o DEF Once, globals
<1>10. CASE AddLock(t)
  <2> DEFINE r == var[t].r
  <2>1. /\ r \in Entries \ Listed /\ next' = [next EXCEPT ![r] = global_roots]
        /\ UNCHANGED <<global_roots, bindings, added>>
    BY <1>c, <1>t, <1>10 DEF AddLock, CallOf, InCall, MarkPlaces, Adders, TheList, Adding
  <2> HIDE DEF r
  <2>2. Listed' = Listed
    BY <1>t, <2>1, OffTheList DEF Listed
  <2> QED  BY <1>t, <2>1, <2>2 DEF ListStays
<1>11. CASE AddHead(t)
  <2> DEFINE r == var[t].r
  <2>1. /\ UNCHANGED <<bindings, next>> /\ added \subseteq added' /\ global_roots' = r
        /\ r \in Entries \ Listed /\ next[r] = global_roots
    BY <1>c, <1>t, <1>11 DEF AddHead, Adders, CallOf, InCall, MarkPlaces, TheList, Adding
  <2> HIDE DEF r
  <2>2. Listed' = Listed \cup {r}
    BY <1>t, <2>1, PushedList DEF Listed, TheList
  <2> QED  BY <2>1, <2>2 DEF ListStays
<1>12. CASE RemoveLock(t)
  BY <1>12, <1>r DEF RemoveLock
<1>13. CASE RemoveEntry(t)
  BY <1>13, <1>r DEF RemoveEntry
<1>14. CASE AddCallback(t)
  BY <1>14, <1>o DEF AddCallback, globals
<1>15. CASE RemoveCallback(t)
  BY <1>15, <1>o DEF RemoveCallback, globals
<1>16. CASE LockCallbacks(t)
  BY <1>16, <1>o DEF LockCallbacks, globals
<1>17. CASE InvokeCallback(t)
  BY <1>17, <1>o DEF InvokeCallback, globals
<1>18. CASE MarkGlobal(t)
  BY <1>18, <1>o DEF MarkGlobal, globals
<1>19. CASE MarkThread(t)
  BY <1>19, <1>o DEF MarkThread, globals
<1>20. CASE MarkFrame(t)
  BY <1>20, <1>o DEF MarkFrame, globals
<1>21. CASE Collected(t)
  BY <1>21, <1>o DEF Collected, globals
<1> QED  BY <1>1, <1>2, <1>3, <1>4, <1>5, <1>6, <1>7, <1>8, <1>9, <1>10, <1>11, <1>12,
     <1>13, <1>14, <1>15, <1>16, <1>17, <1>18, <1>19, <1>20, <1>21 DEF Client, Step

(* The ring that is walked stays as it is. *)
RingsStay(w) ==
  /\ pc[w] = "mark_callbacks" =>
       kept_cbs' = kept_cbs /\ Same(links, links', kept_cbs \cup {callbacks})
  /\ pc[w] \in {"mark_threads", "mark_frames"} =>
       registered' = registered /\ Same(links, links', registered \cup {thread_list})

(* The lock that is held keeps it. *)
LEMMA RingsHeld ==
  ASSUME TypeOK, FirstCallAlone, FramesOK, Calls, Walks, TheList, FirstCall, Rings,
         HandlesOK, NEW w \in Threads, pc[w] \in MarkPlaces, NEW t \in Threads,
         Client(t) \/ Step(t)
  PROVE  RingsStay(w)
<1>c. CallOf(t)
  BY DEF Calls
<1>m. Moved(t)
  BY StepMoves
<1>o. ASSUME UNCHANGED <<links, kept_cbs, registered>> PROVE RingsStay(w)
  BY <1>o DEF RingsStay, Same
<1>t. /\ links \in Links(Nodes, Nil) /\ kept_cbs \in SUBSET Nodes /\ registered \in SUBSET Nodes
      /\ callbacks \in Nodes \ kept_cbs /\ thread_list \in Nodes \ registered
      /\ (kept_cbs \cup {callbacks}) \cap (registered \cup {thread_list}) = {}
      /\ kept_cbs \subseteq Callbacks /\ registered \subseteq Threads /\ Nil \notin Threads
  BY RootsAssumption DEF TypeOK, Nodes
<1>w. registered # {} /\ once
  BY DEF Calls, CallOf, InCall, MarkPlaces, Walks, FirstCall
<1>s. IsRing(links, callbacks, kept_cbs) /\ IsRing(links, thread_list, registered)
  BY <1>w DEF Rings
<1>1. CASE smal_thread_self(t)
  <2>1. /\ t \in Nodes \ (registered \cup {thread_list}) /\ ~ walking_threads
        /\ links' = Insert(links, thread_list, t) /\ UNCHANGED kept_cbs
        /\ t \notin kept_cbs \cup {callbacks}
    BY <1>w, <1>1, RootsAssumption
    DEF smal_thread_self, thread_init, cbs, Nodes, ThreadRing, TypeOK
  <2>2. Same(links, links', Nodes \ (registered \cup {thread_list, t}))
    BY <1>t, <1>s, <2>1, InsertRing
  <2>3. Same(links, links', kept_cbs \cup {callbacks})
    BY <1>t, <2>1, <2>2 DEF Same
  <2> QED  BY <2>1, <2>3 DEF RingsStay, Walks
<1>2. CASE smal_roots_end(t)
  BY <1>2, <1>o DEF smal_roots_end, thrs, cbs
<1>3. ASSUME NEW f \in Frames, smal_roots_begin(t, f) PROVE RingsStay(w)
  BY <1>3, <1>o DEF smal_roots_begin, thrs, cbs
<1>4. ASSUME NEW f \in Frames, smal_roots_add_global(t, f) PROVE RingsStay(w)
  BY <1>4, <1>o DEF smal_roots_add_global, thrs, cbs
<1>5. ASSUME NEW f \in Frames, smal_roots_remove_global(t, f) PROVE RingsStay(w)
  BY <1>5, <1>o DEF smal_roots_remove_global, thrs, cbs
<1>6. CASE smal_roots_add_callback(t)
  BY <1>6, <1>o DEF smal_roots_add_callback, thrs, cbs
<1>7. CASE smal_roots_remove_callback(t)
  BY <1>7, <1>o DEF smal_roots_remove_callback, thrs, cbs
<1>8. CASE smal_roots_mark_chain(t)
  BY <1>8, <1>o DEF smal_roots_mark_chain, thrs, cbs
<1>9. CASE Once(t)
  BY <1>9 DEF Once, FirstCall, MarkPlaces
<1>10. CASE AddLock(t)
  BY <1>10, <1>o DEF AddLock, thrs, cbs
<1>11. CASE AddHead(t)
  BY <1>11, <1>o DEF AddHead, thrs, cbs
<1>12. CASE RemoveLock(t)
  BY <1>12, <1>o DEF RemoveLock, thrs, cbs
<1>13. CASE RemoveEntry(t)
  BY <1>13, <1>o DEF RemoveEntry, thrs, cbs
<1>14. CASE AddCallback(t)
  <2> DEFINE c == var[t].entry
           L == InitNode(links, c)
  <2>1. /\ c \in Callbacks \ kept_cbs /\ links' = Insert(L, callbacks, c)
        /\ UNCHANGED registered /\ callbacks_mutex = Nil
        /\ c \in Nodes \ (kept_cbs \cup {callbacks})
        /\ c \notin registered \cup {thread_list}
    BY <1>c, <1>14, RootsAssumption DEF AddCallback, HandlesOK, CallOf, InCall, MarkPlaces,
         thrs, Nodes, TypeOK
  <2> HIDE DEF c
  <2>2. L \in Links(Nodes, Nil) /\ Same(links, L, Nodes \ {c})
    BY <1>t, <2>1, InitTyped
  <2> HIDE DEF L
  <2>3. Same(links, L, kept_cbs \cup {callbacks}) /\ Same(links, L, registered \cup {thread_list})
    BY <1>t, <2>1, <2>2 DEF Same
  <2>4. IsRing(L, callbacks, kept_cbs)
    BY <1>t, <1>s, <2>1, <2>2, <2>3, RingStays
  <2>5. Same(L, links', Nodes \ (kept_cbs \cup {callbacks, c}))
    BY <1>t, <2>1, <2>2, <2>4, InsertRing
  <2>6. Same(links, links', registered \cup {thread_list})
    BY <1>t, <2>1, <2>3, <2>5 DEF Same
  <2>7. pc[w] # "mark_callbacks"
    BY <1>t, <2>1 DEF Walks
  <2> QED  BY <2>1, <2>6, <2>7 DEF RingsStay
<1>15. CASE RemoveCallback(t)
  <2> DEFINE c == var[t].entry
  <2>1. /\ c \in kept_cbs /\ links' = Delete(links, c)
        /\ UNCHANGED registered /\ callbacks_mutex = Nil
    BY <1>c, <1>15 DEF RemoveCallback, HandlesOK, CallOf, InCall, MarkPlaces, thrs
  <2> HIDE DEF c
  <2>2. Same(links, links', Nodes \ (kept_cbs \cup {callbacks}))
    BY <1>t, <1>s, <2>1, DeleteRing
  <2>3. Same(links, links', registered \cup {thread_list})
    BY <1>t, <2>2 DEF Same
  <2>4. pc[w] # "mark_callbacks"
    BY <1>t, <2>1 DEF Walks
  <2> QED  BY <2>1, <2>3, <2>4 DEF RingsStay
<1>16. CASE LockCallbacks(t)
  BY <1>16, <1>o DEF LockCallbacks, thrs, cbs
<1>17. CASE InvokeCallback(t)
  BY <1>17, <1>o DEF InvokeCallback, thrs, cbs
<1>18. CASE MarkGlobal(t)
  BY <1>18, <1>o DEF MarkGlobal, thrs, cbs
<1>19. CASE MarkThread(t)
  BY <1>19, <1>o DEF MarkThread, thrs, cbs
<1>20. CASE MarkFrame(t)
  BY <1>20, <1>o DEF MarkFrame, thrs, cbs
<1>21. CASE Collected(t)
  BY <1>21, <1>o DEF Collected, thrs, cbs
<1> QED  BY <1>1, <1>2, <1>3, <1>4, <1>5, <1>6, <1>7, <1>8, <1>9, <1>10, <1>11, <1>12,
     <1>13, <1>14, <1>15, <1>16, <1>17, <1>18, <1>19, <1>20, <1>21 DEF Client, Step

(* A walk of the list meets at least what it would have met.               *)
LEMMA WalkStays ==
  ASSUME NEW nx \in [Entries -> Entries \cup {Nil}], NEW head \in Entries \cup {Nil},
         NEW mx \in [Entries -> Entries \cup {Nil}],
         \A y \in NodesFrom(nx, head, Nil) : mx[y] = nx[y],
         NEW e \in NodesFrom(nx, head, Nil) \cup {Nil}
  PROVE  NodesFrom(nx, e, Nil) \subseteq NodesFrom(mx, e, Nil)
<1> DEFINE S == NodesFrom(nx, head, Nil)
           M == NodesFrom(mx, e, Nil)
<1>1. S \subseteq Entries /\ \A y \in S : nx[y] # Nil => nx[y] \in S
  BY ListClosed
<1>2. /\ e # Nil => e \in M
      /\ \A y \in M : mx[y] # Nil => mx[y] \in M
  <2>1. e \in Entries \cup {Nil}
    BY <1>1
  <2> QED  BY <2>1, ListClosed
<1> HIDE DEF S, M
<1> DEFINE B == S \cap M
<1>3. /\ B \in SUBSET DOMAIN nx /\ (e # Nil => e \in B)
      /\ \A y \in B : nx[y] # Nil => nx[y] \in B
  BY <1>1, <1>2 DEF S
<1> HIDE DEF B
<1>4. NodesFrom(nx, e, Nil) \subseteq B
  BY <1>3, LeastNodes
<1> QED  BY <1>4 DEF B, M

(* Only the thread that marks does. *)
LEMMA OthersMarkNot ==
  ASSUME TypeOK, FirstCallAlone, FramesOK, Calls, Walks, TheList, NEW w \in Threads,
         pc[w] \in MarkPlaces, NEW t \in Threads, Client(t) \/ Step(t)
  PROVE  w # t => must' \subseteq must /\ marked' = marked
<1>c. CallOf(t)
  BY DEF Calls
<1>m. Moved(t)
  BY StepMoves
<1>o. ASSUME UNCHANGED <<must, marked>> PROVE w # t => must' \subseteq must /\ marked' = marked
  BY <1>o
<1>u. w # t => pc[t] \notin MarkPlaces
  BY DEF Calls, CallOf, InCall, Walks, MarkPlaces
<1>1. CASE smal_thread_self(t)
  BY <1>1, <1>o DEF smal_thread_self, thread_init, mark
<1>2. CASE smal_roots_end(t)
  BY <1>2 DEF smal_roots_end
<1>3. ASSUME NEW f \in Frames, smal_roots_begin(t, f) PROVE w # t => must' \subseteq must /\ marked' = marked
  BY <1>3, <1>o DEF smal_roots_begin, mark
<1>4. ASSUME NEW f \in Frames, smal_roots_add_global(t, f) PROVE w # t => must' \subseteq must /\ marked' = marked
  BY <1>4, <1>o DEF smal_roots_add_global, mark
<1>5. ASSUME NEW f \in Frames, smal_roots_remove_global(t, f) PROVE w # t => must' \subseteq must /\ marked' = marked
  BY <1>5, <1>o DEF smal_roots_remove_global, mark
<1>6. CASE smal_roots_add_callback(t)
  BY <1>6, <1>o DEF smal_roots_add_callback, mark
<1>7. CASE smal_roots_remove_callback(t)
  BY <1>7, <1>o DEF smal_roots_remove_callback, mark
<1>8. CASE smal_roots_mark_chain(t)
  BY <1>8, <1>o DEF smal_roots_mark_chain, mark
<1>9. CASE Once(t)
  BY <1>9, <1>o DEF Once, mark
<1>10. CASE AddLock(t)
  BY <1>10, <1>o DEF AddLock, mark
<1>11. CASE AddHead(t)
  BY <1>11, <1>o DEF AddHead, mark
<1>12. CASE RemoveLock(t)
  BY <1>12 DEF RemoveLock
<1>13. CASE RemoveEntry(t)
  BY <1>13, <1>o DEF RemoveEntry, mark
<1>14. CASE AddCallback(t)
  BY <1>14, <1>o DEF AddCallback, mark
<1>15. CASE RemoveCallback(t)
  BY <1>15 DEF RemoveCallback
<1>16. CASE LockCallbacks(t)
  BY <1>16, <1>u DEF LockCallbacks, MarkPlaces
<1>17. CASE InvokeCallback(t)
  BY <1>17, <1>u DEF InvokeCallback, MarkPlaces
<1>18. CASE MarkGlobal(t)
  BY <1>18, <1>u DEF MarkGlobal, MarkPlaces
<1>19. CASE MarkThread(t)
  BY <1>19, <1>o DEF MarkThread, mark
<1>20. CASE MarkFrame(t)
  BY <1>20, <1>u DEF MarkFrame, MarkPlaces
<1>21. CASE Collected(t)
  BY <1>21, <1>u DEF Collected, MarkPlaces
<1> QED  BY <1>1, <1>2, <1>3, <1>4, <1>5, <1>6, <1>7, <1>8, <1>9, <1>10, <1>11, <1>12,
     <1>13, <1>14, <1>15, <1>16, <1>17, <1>18, <1>19, <1>20, <1>21 DEF Client, Step

(* What a step of another thread leaves of a walk.                         *)
LEMMA LeftStays ==
  ASSUME TypeOK, FirstCallAlone, FramesOK, Calls, Walks, TheList, FirstCall, Rings, HandlesOK,
         Adders, Undisturbed, CarefulProgram, NEW t \in Threads, Client(t) \/ Step(t),
         DataTyped', links' \in Links(Nodes, Nil),
         NEW w \in Threads \ {t}, pc[w] \in MarkPlaces \ {"mark_start"}
  PROVE  \A v \in Left(w) : v \in Left(w)'
<1>1. pc'[w] = pc[w] /\ var'[w] = var[w] /\ pc[w] \in MarkPlaces
  BY StepMoves DEF Moved
<1>2. FramesStay /\ ListStays /\ RingsStay(w)
  BY <1>1, FramesGrow, ListGrows, RingsHeld DEF Undisturbed
<1>3. \A u \in Threads : \A v \in FrameVars(u) : v \in FrameVars(u)'
  BY <1>2 DEF FrameVars, FramesStay
<1>4. \A v \in AllFrames : v \in AllFrames'
  BY <1>3 DEF AllFrames
<1>t. /\ links \in Links(Nodes, Nil) /\ kept_cbs \in SUBSET Nodes /\ registered \in SUBSET Nodes
      /\ callbacks \in Nodes \ kept_cbs /\ thread_list \in Nodes \ registered
      /\ registered \subseteq Threads
      /\ next \in [Entries -> Entries \cup {Nil}] /\ next' \in [Entries -> Entries \cup {Nil}]
      /\ global_roots \in Entries \cup {Nil}
  BY RootsAssumption DEF TypeOK, Nodes, DataTyped
<1>w. registered # {} /\ once
  BY <1>1 DEF Calls, CallOf, InCall, MarkPlaces, Walks, FirstCall
<1>s. IsRing(links, callbacks, kept_cbs) /\ IsRing(links, thread_list, registered)
  BY <1>w DEF Rings
<1>5. CASE pc[w] = "mark_callbacks"
  <2>1. var[w].entry_next \in kept_cbs \cup {callbacks}
    BY <1>5 DEF Walks
  <2>2. NodesFrom(links.next, var[w].entry_next, callbacks)
          \subseteq NodesFrom(links'.next, var[w].entry_next, callbacks)
    BY <1>2, <1>5, <1>s, <1>t, <2>1, RingStays DEF RingsStay
  <2>3. \A v \in CallbacksAhead(w) : v \in CallbacksAhead(w)'
    BY <1>1, <2>2 DEF CallbacksAhead
  <2>4. Left(w) = CallbacksAhead(w) \cup added \cup AllFrames
    BY <1>5 DEF Left
  <2>5. Left(w)' = CallbacksAhead(w)' \cup added' \cup AllFrames'
    BY <1>1, <1>5 DEF Left
  <2> QED  BY <1>2, <1>4, <2>3, <2>4, <2>5 DEF ListStays
<1>6. CASE pc[w] = "mark_globals"
  <2>1. var[w].r \in Listed \cup {Nil}
    BY <1>6 DEF Undisturbed, OnTheList
  <2>2. NodesFrom(next, var[w].r, Nil) \subseteq NodesFrom(next', var[w].r, Nil)
    BY <1>2, <1>t, <2>1, WalkStays DEF ListStays, Listed
  <2>3. NodesFrom(next, var[w].r, Nil) \subseteq Listed
    BY <1>t, <2>1, ListWalk DEF Listed
  <2>4. \A v \in GlobalsAhead(w) : v \in GlobalsAhead(w)'
    BY <1>1, <1>2, <2>2, <2>3 DEF GlobalsAhead, ListStays
  <2>5. Left(w) = GlobalsAhead(w) \cup AllFrames
    BY <1>6 DEF Left
  <2>6. Left(w)' = GlobalsAhead(w)' \cup AllFrames'
    BY <1>1, <1>6 DEF Left
  <2> QED  BY <1>4, <2>4, <2>5, <2>6
<1>7. ASSUME pc[w] \in {"mark_threads", "mark_frames"}
      PROVE  \A v \in FramesAhead(w) : v \in FramesAhead(w)'
  <2>1. var[w].entry_next \in registered \cup {thread_list}
    BY <1>7 DEF Walks
  <2>2. NodesFrom(links.next, var[w].entry_next, thread_list)
          \subseteq NodesFrom(links'.next, var[w].entry_next, thread_list)
    BY <1>2, <1>7, <1>s, <1>t, <2>1, RingStays DEF RingsStay
  <2>3. NodesFrom(links.next, var[w].entry_next, thread_list) \subseteq registered
    BY <1>s, <1>t, <2>1, RingWalk
  <2> QED  BY <1>1, <1>3, <1>t, <2>2, <2>3 DEF FramesAhead
<1>8. CASE pc[w] = "mark_threads"
  <2>1. Left(w) = FramesAhead(w) /\ Left(w)' = FramesAhead(w)'
    BY <1>1, <1>8 DEF Left
  <2> QED  BY <1>7, <1>8, <2>1
<1>9. CASE pc[w] = "mark_frames"
  <2>1. /\ var[w].entry \in Threads /\ var[w].frame \in 0..Len(frames[var[w].entry])
        /\ frames[var[w].entry] \in Seq(Frames)
    BY <1>9 DEF Walks, TypeOK, Undisturbed, InTheFrames
  <2>2. \A i \in 1..var[w].frame : i \in DOMAIN frames[var[w].entry]
    BY <2>1
  <2>3. \A v \in FramesHere(w) : v \in FramesHere(w)'
    BY <1>1, <1>2, <2>1, <2>2 DEF FramesHere, FramesStay
  <2>4. Left(w) = FramesHere(w) \cup FramesAhead(w)
    BY <1>9 DEF Left
  <2>5. Left(w)' = FramesHere(w)' \cup FramesAhead(w)'
    BY <1>1, <1>9 DEF Left
  <2> QED  BY <1>7, <1>9, <2>3, <2>4, <2>5
<1>10. CASE pc[w] = "marked"
  BY <1>10 DEF Left
<1> QED  BY <1>5, <1>6, <1>8, <1>9, <1>10 DEF MarkPlaces

(* A sequence is no longer than one with all its places. *)
LEMMA LongerThan ==
  ASSUME NEW S, NEW s \in Seq(S), NEW r \in Seq(S), \A i \in DOMAIN s : i \in DOMAIN r
  PROVE  Len(s) <= Len(r)
<1>1. Len(s) \in Nat /\ Len(r) \in Nat /\ DOMAIN s = 1..Len(s) /\ DOMAIN r = 1..Len(r)
  OBVIOUS
<1>2. CASE Len(s) = 0
  BY <1>1, <1>2
<1>3. CASE Len(s) # 0
  <2>1. Len(s) \in DOMAIN s
    BY <1>1, <1>3
  <2> QED  BY <1>1, <2>1
<1> QED  BY <1>2, <1>3

(* Which steps lead to the places of the walk.                             *)
Ahead(t) ==
  /\ pc'[t] = "mark_callbacks" => LockCallbacks(t) \/ InvokeCallback(t)
  /\ pc'[t] = "mark_globals" => InvokeCallback(t) \/ MarkGlobal(t)
  /\ pc'[t] = "mark_threads" => MarkGlobal(t) \/ MarkFrame(t)
  /\ pc'[t] = "mark_frames" => MarkThread(t) \/ MarkFrame(t)
  /\ pc'[t] = "marked" => MarkThread(t)

(* Nothing else enters the walk. *)
LEMMA OwnStep ==
  ASSUME TypeOK, FirstCallAlone, FramesOK, Calls, Walks, TheList, NEW t \in Threads,
         Client(t) \/ Step(t)
  PROVE  Ahead(t)
<1>c. CallOf(t)
  BY DEF Calls
<1>m. Moved(t)
  BY StepMoves
<1>o. pc'[t] \notin MarkPlaces \ {"mark_start"} => Ahead(t)
  BY DEF Ahead, MarkPlaces
<1>1. CASE smal_thread_self(t)
  BY <1>1, ClientStays, <1>c, <1>o DEF CallOf, InCall, MarkPlaces
<1>2. CASE smal_roots_end(t)
  BY <1>2, ClientStays, <1>c, <1>o DEF CallOf, InCall, MarkPlaces
<1>3. ASSUME NEW f \in Frames, smal_roots_begin(t, f) PROVE Ahead(t)
  BY <1>3, ClientStays, <1>c, <1>o DEF CallOf, InCall, MarkPlaces
<1>4. ASSUME NEW f \in Frames, smal_roots_add_global(t, f) PROVE Ahead(t)
  BY <1>4, AddGlobalMoves, <1>c, <1>o DEF CallOf, InCall, MarkPlaces
<1>5. ASSUME NEW f \in Frames, smal_roots_remove_global(t, f) PROVE Ahead(t)
  BY <1>5, RemoveGlobalMoves, <1>c, <1>o DEF CallOf, InCall, MarkPlaces
<1>6. CASE smal_roots_add_callback(t)
  BY <1>6, AddCallbackCall, <1>c, <1>o DEF CallOf, InCall, MarkPlaces
<1>7. CASE smal_roots_remove_callback(t)
  BY <1>7, RemoveCallbackCall, <1>c, <1>o DEF CallOf, InCall, MarkPlaces
<1>8. CASE smal_roots_mark_chain(t)
  BY <1>8, MarkChainMoves, <1>c, <1>o DEF CallOf, InCall, MarkPlaces
<1>9. CASE Once(t)
  BY <1>9, OnceMoves, <1>c, <1>o DEF CallOf, InCall, MarkPlaces
<1>10. CASE AddLock(t)
  BY <1>10, LockMoves, <1>c, <1>o DEF CallOf, InCall, MarkPlaces, AddLock
<1>11. CASE AddHead(t)
  BY <1>11, ReturnMoves, <1>c, <1>o DEF CallOf, InCall, MarkPlaces
<1>12. CASE RemoveLock(t)
  BY <1>12, LockMoves, <1>c, <1>o DEF CallOf, InCall, MarkPlaces, RemoveLock
<1>13. CASE RemoveEntry(t)
  BY <1>13, RemoveEntryMoves, <1>c, <1>o DEF CallOf, InCall, MarkPlaces
<1>14. CASE AddCallback(t)
  BY <1>14, ReturnMoves, <1>c, <1>o DEF CallOf, InCall, MarkPlaces
<1>15. CASE RemoveCallback(t)
  BY <1>15, ReturnMoves, <1>c, <1>o DEF CallOf, InCall, MarkPlaces
<1>16. CASE LockCallbacks(t)
  BY <1>16, LockCallbacksMoves DEF Ahead
<1>17. CASE InvokeCallback(t)
  BY <1>17, InvokeCallbackMoves DEF Ahead
<1>18. CASE MarkGlobal(t)
  BY <1>18, MarkGlobalMoves DEF Ahead
<1>19. CASE MarkThread(t)
  BY <1>19, MarkThreadMoves DEF Ahead
<1>20. CASE MarkFrame(t)
  BY <1>20, MarkFrameMoves DEF Ahead
<1>21. CASE Collected(t)
  BY <1>21, ReturnMoves, <1>c, <1>o DEF CallOf, InCall, MarkPlaces
<1> QED  BY <1>1, <1>2, <1>3, <1>4, <1>5, <1>6, <1>7, <1>8, <1>9, <1>10, <1>11, <1>12,
     <1>13, <1>14, <1>15, <1>16, <1>17, <1>18, <1>19, <1>20, <1>21 DEF Client, Step

(* A walk stands on the list and in a frame that is there.                 *)
LEMMA PlaceStep ==
  ASSUME TypeOK, FirstCallAlone, FramesOK, Calls, Walks, TheList, FirstCall, Rings, HandlesOK,
         Adders, Undisturbed, CarefulProgram, NEW t \in Threads, Client(t) \/ Step(t),
         DataTyped'
  PROVE  OnTheList' /\ InTheFrames'
<1>m. Moved(t)
  BY StepMoves
<1>t. /\ next \in [Entries -> Entries \cup {Nil}] /\ global_roots \in Entries \cup {Nil}
      /\ frames \in [Threads -> Seq(Frames)] /\ frames' \in [Threads -> Seq(Frames)]
      /\ registered \subseteq Threads
  BY DEF TypeOK, DataTyped
<1>1. ASSUME NEW w \in Threads, w # t,  pc'[w] \in {"mark_globals", "mark_frames"}
      PROVE  /\ pc'[w] = "mark_globals" => var'[w].r \in Listed' \cup {Nil}
             /\ pc'[w] = "mark_frames" => var'[w].frame \in 0..Len(frames'[var'[w].entry])
  <2>1. pc'[w] = pc[w] /\ var'[w] = var[w] /\ pc[w] \in MarkPlaces
    BY <1>m, <1>1 DEF Moved, MarkPlaces
  <2>2. FramesStay /\ ListStays
    BY <2>1, FramesGrow, ListGrows DEF Undisturbed
  <2>3. pc[w] = "mark_globals" => var[w].r \in Listed' \cup {Nil}
    BY <2>2 DEF ListStays, Undisturbed, OnTheList
  <2>4. CASE pc[w] = "mark_frames"
    <3>1. var[w].entry \in Threads /\ var[w].frame \in 0..Len(frames[var[w].entry])
      BY <2>4 DEF Walks, TypeOK, Undisturbed, InTheFrames
    <3>2. frames[var[w].entry] \in Seq(Frames) /\ frames'[var[w].entry] \in Seq(Frames)
      BY <1>t, <3>1
    <3>3. \A i \in DOMAIN frames[var[w].entry] : i \in DOMAIN frames'[var[w].entry]
      BY <2>2, <3>1 DEF FramesStay
    <3>4. Len(frames[var[w].entry]) <= Len(frames'[var[w].entry])
      BY <3>2, <3>3, LongerThan
    <3>5. var[w].frame \in 0..Len(frames'[var[w].entry])
      BY <3>1, <3>2, <3>4
    <3> QED  BY <2>1, <2>4, <3>5
  <2> QED  BY <2>1, <2>3, <2>4
<1>2. pc'[t] = "mark_globals" => var'[t].r \in Listed' \cup {Nil}
  <2> SUFFICES ASSUME pc'[t] = "mark_globals" PROVE var'[t].r \in Listed' \cup {Nil}
    OBVIOUS
  <2>1. InvokeCallback(t) \/ MarkGlobal(t)
    BY OwnStep DEF Ahead
  <2>2. CASE InvokeCallback(t)
    <3>1. var'[t].r = global_roots /\ UNCHANGED <<next, global_roots>>
      BY <2>2, InvokeCallbackMoves DEF InvokeCallback, globals
    <3>2. global_roots \in Listed \cup {Nil}
      BY <1>t, ListClosed DEF Listed
    <3> QED  BY <3>1, <3>2 DEF Listed
  <2>3. CASE MarkGlobal(t)
    <3>1. /\ pc[t] = "mark_globals" /\ UNCHANGED <<next, global_roots>>
          /\ var[t].r \in Entries /\ var'[t].r = next[var[t].r]
      BY <2>3, MarkGlobalMoves DEF MarkGlobal, globals
    <3>2. var[t].r \in Listed
      BY <3>1, RootsAssumption DEF Undisturbed, OnTheList
    <3>3. next[var[t].r] \in Listed \cup {Nil}
      BY <1>t, <3>2, ListClosed DEF Listed
    <3> QED  BY <3>1, <3>3 DEF Listed
  <2> QED  BY <2>1, <2>2, <2>3
<1>3. pc'[t] = "mark_frames" => var'[t].frame \in 0..Len(frames'[var'[t].entry])
  <2> SUFFICES ASSUME pc'[t] = "mark_frames" PROVE var'[t].frame \in 0..Len(frames'[var'[t].entry])
    OBVIOUS
  <2>1. MarkThread(t) \/ MarkFrame(t)
    BY OwnStep DEF Ahead
  <2>2. CASE MarkThread(t)
    <3>1. /\ var'[t].entry \in Threads /\ var'[t].frame = Len(frames[var'[t].entry])
          /\ UNCHANGED frames
      BY ZenonT(30), <1>t, <2>2, MarkThreadMoves DEF MarkThread
    <3>2. frames[var'[t].entry] \in Seq(Frames)
      BY <1>t, <3>1
    <3>3. Len(frames[var'[t].entry]) \in Nat
      BY <3>2
    <3> QED  BY <3>1, <3>3
  <2>3. CASE MarkFrame(t)
    <3>1. /\ pc[t] = "mark_frames" /\ var[t].frame \in 1..MaxFrames /\ var'[t].entry = var[t].entry
          /\ var'[t].frame = var[t].frame - 1 /\ UNCHANGED frames
      BY <2>3, MarkFrameMoves DEF MarkFrame
    <3>2. /\ var[t].entry \in Threads /\ var[t].frame \in 0..Len(frames[var[t].entry])
          /\ frames[var[t].entry] \in Seq(Frames)
      BY <3>1 DEF Walks, TypeOK, Undisturbed, InTheFrames
    <3>3. Len(frames[var[t].entry]) \in Nat
      BY <3>2
    <3>4. var[t].frame - 1 \in 0..Len(frames[var[t].entry])
      BY <3>1, <3>2, <3>3
    <3> QED  BY <3>1, <3>4
  <2> QED  BY <2>1, <2>2, <2>3
<1> QED  BY <1>1, <1>2, <1>3 DEF OnTheList, InTheFrames

(* What a marking thread knows of the rings and the list.                  *)
LEMMA WalkTyped ==
  ASSUME TypeOK, FirstCall, Calls, Walks, Rings,
         NEW w \in Threads, pc[w] \in MarkPlaces
  PROVE  /\ links \in Links(Nodes, Nil) /\ kept_cbs \in SUBSET Nodes /\ registered \in SUBSET Nodes
         /\ callbacks \in Nodes \ kept_cbs /\ thread_list \in Nodes \ registered
         /\ registered \subseteq Threads
         /\ next \in [Entries -> Entries \cup {Nil}] /\ global_roots \in Entries \cup {Nil}
         /\ IsRing(links, callbacks, kept_cbs) /\ IsRing(links, thread_list, registered)
<1>w. registered # {} /\ once
  BY DEF Calls, CallOf, InCall, MarkPlaces, Walks, FirstCall
<1> QED  BY <1>w, RootsAssumption DEF TypeOK, Nodes, Rings

(* The step of the thread that marks: what it leaves behind is marked.     *)
LEMMA MarksOwn ==
  ASSUME TypeOK, FirstCallAlone, FramesOK, Calls, Walks, TheList, FirstCall, Rings, HandlesOK,
         Adders, Exact, Undisturbed, Marks, CarefulProgram,
         NEW t \in Threads, Client(t) \/ Step(t),
         pc'[t] \in MarkPlaces \ {"mark_start"}
  PROVE  must' \subseteq marked' \cup Left(t)'
<1>a. Ahead(t)
  BY OwnStep
<1>1. CASE LockCallbacks(t)
  <2>1. /\ pc[t] = "mark_start" /\ pc'[t] = "mark_callbacks"
        /\ var'[t].entry_next = links.next[callbacks]
        /\ must' = RootVars /\ UNCHANGED <<links, frames, added>>
    BY <1>1, LockCallbacksMoves DEF LockCallbacks, globals
  <2>2. NodesFrom(links.next, links.next[callbacks], callbacks) = kept_cbs
    <3>1. pc[t] \in MarkPlaces
      BY <2>1 DEF MarkPlaces
    <3> QED  BY <3>1, WalkTyped, RingWalk
  <2>3. CallbacksAhead(t)' = {DataOf[c] : c \in kept_cbs}
    BY <2>1, <2>2 DEF CallbacksAhead
  <2>4. Left(t)' = CallbacksAhead(t)' \cup added' \cup AllFrames'
    BY <2>1 DEF Left
  <2>5. AllFrames' = AllFrames
    BY <2>1 DEF AllFrames, FrameVars
  <2>6. RootVars = added \cup {DataOf[c] : c \in kept_cbs} \cup AllFrames
    BY DEF RootVars, AllFrames, FrameVars
  <2> QED  BY <2>1, <2>3, <2>4, <2>5, <2>6
<1>2. CASE InvokeCallback(t)
  <2> DEFINE c == var[t].entry_next
  <2>1. pc[t] = "mark_callbacks" /\ UNCHANGED <<links, frames, added, must, next, bindings, global_roots>>
    BY <1>2, InvokeCallbackMoves DEF InvokeCallback, globals
  <2>2. must \subseteq marked \cup CallbacksAhead(t) \cup added \cup AllFrames
    BY <2>1 DEF Marks, Left, MarkPlaces
  <2>3. AllFrames' = AllFrames
    BY <2>1 DEF AllFrames, FrameVars
  <2>4. CASE c = callbacks /\ pc'[t] = "mark_globals" /\ var'[t].r = global_roots /\ UNCHANGED marked
    <3>1. CallbacksAhead(t) = {}
      BY <2>4, WalkEnds DEF CallbacksAhead
    <3>2. \A u \in Threads : pc[u] # "remove_entry"
      BY <2>1 DEF Calls, CallOf, InCall, Undisturbed, NoRemoval, MarkPlaces
    <3>3. ListedVars = added
      BY <3>2 DEF Exact
    <3>4. GlobalsAhead(t)' = ListedVars
      BY <2>1, <2>4 DEF GlobalsAhead, ListedVars, Listed
    <3>5. Left(t)' = GlobalsAhead(t)' \cup AllFrames'
      BY <2>4 DEF Left
    <3> QED  BY <2>1, <2>2, <2>3, <2>4, <3>1, <3>3, <3>4, <3>5
  <2>5. CASE /\ c \in kept_cbs /\ pc'[t] = pc[t] /\ var'[t].entry_next = links.next[c]
             /\ marked' = marked \cup {DataOf[c]}
    <3>1. c \in DOMAIN links.next
      <4>1. pc[t] \in MarkPlaces
        BY <2>1 DEF MarkPlaces
      <4> QED  BY <2>5, <4>1, WalkTyped DEF Links
    <3>2. NodesFrom(links.next, c, callbacks)
            \subseteq {c} \cup NodesFrom(links.next, links.next[c], callbacks)
      BY <3>1, WalkGoesOn
    <3>3. \A v \in CallbacksAhead(t) : v = DataOf[c] \/ v \in CallbacksAhead(t)'
      BY <2>1, <2>5, <3>2 DEF CallbacksAhead
    <3>4. Left(t)' = CallbacksAhead(t)' \cup added' \cup AllFrames'
      BY <2>1, <2>5 DEF Left
    <3> QED  BY <2>1, <2>2, <2>3, <2>5, <3>3, <3>4
  <2> QED  BY <1>2, <2>4, <2>5, InvokeCallbackMoves
<1>3. CASE MarkGlobal(t)
  <2> DEFINE r == var[t].r
  <2>1. pc[t] = "mark_globals" /\ UNCHANGED <<links, frames, must, next, bindings>>
    BY <1>3, MarkGlobalMoves DEF MarkGlobal, globals
  <2>2. must \subseteq marked \cup GlobalsAhead(t) \cup AllFrames
    BY <2>1 DEF Marks, Left, MarkPlaces
  <2>3. CASE /\ r = Nil /\ pc'[t] = "mark_threads" /\ UNCHANGED marked
             /\ var'[t].entry_next = links.next[thread_list]
    <3>1. GlobalsAhead(t) = {}
      BY <2>3, WalkEnds DEF GlobalsAhead
    <3>2. NodesFrom(links.next, links.next[thread_list], thread_list) = registered
      <4>1. pc[t] \in MarkPlaces
        BY <2>1 DEF MarkPlaces
      <4> QED  BY <4>1, WalkTyped, RingWalk
    <3>3. \A u \in Threads \ registered : FrameVars(u) = {}
      BY DEF FrameVars, FramesOK
    <3>4. FramesAhead(t)' = UNION {FrameVars(u) : u \in registered}
      BY <2>1, <2>3, <3>2 DEF FramesAhead, FrameVars
    <3>5. AllFrames \subseteq FramesAhead(t)'
      BY <3>3, <3>4 DEF AllFrames
    <3>6. Left(t)' = FramesAhead(t)'
      BY <2>3 DEF Left
    <3> QED  BY <2>1, <2>2, <2>3, <3>1, <3>5, <3>6
  <2>4. CASE /\ r \in Entries /\ pc'[t] = pc[t] /\ var'[t].r = next[r]
             /\ marked' = marked \cup Bound(bindings[r])
    <3>1. NodesFrom(next, r, Nil) \subseteq {r} \cup NodesFrom(next, next[r], Nil)
      <4>1. r \in DOMAIN next
        BY <2>4 DEF TypeOK
      <4> QED  BY <4>1, WalkGoesOn
    <3>2. \A v \in GlobalsAhead(t) : v \in Bound(bindings[r]) \/ v \in GlobalsAhead(t)'
      BY <2>1, <2>4, <3>1 DEF GlobalsAhead
    <3>3. Left(t)' = GlobalsAhead(t)' \cup AllFrames'
      BY <2>1, <2>4 DEF Left
    <3>4. AllFrames' = AllFrames
      BY <2>1 DEF AllFrames, FrameVars
    <3> QED  BY <2>1, <2>2, <2>4, <3>2, <3>3, <3>4
  <2> QED  BY <1>3, <2>3, <2>4, MarkGlobalMoves
<1>4. CASE MarkThread(t)
  <2> DEFINE u == var[t].entry_next
  <2>1. pc[t] = "mark_threads" /\ UNCHANGED <<links, frames, must, marked>>
    BY <1>4, MarkThreadMoves DEF MarkThread, mark
  <2>2. must \subseteq marked \cup FramesAhead(t)
    BY <2>1 DEF Marks, Left, MarkPlaces
  <2>3. CASE u = thread_list
    <3>1. FramesAhead(t) = {}
      BY <2>3, WalkEnds DEF FramesAhead
    <3> QED  BY <2>1, <2>2, <3>1
  <2>4. CASE /\ u \in registered /\ pc'[t] = "mark_frames" /\ var'[t].entry = u
             /\ var'[t].entry_next = links.next[u] /\ var'[t].frame = Len(frames[u])
    <3>1. u \in DOMAIN links.next /\ u \in Threads
      <4>1. pc[t] \in MarkPlaces
        BY <2>1 DEF MarkPlaces
      <4> QED  BY <2>4, <4>1, WalkTyped DEF Links
    <3>2. NodesFrom(links.next, u, thread_list)
            \subseteq {u} \cup NodesFrom(links.next, links.next[u], thread_list)
      BY <3>1, WalkGoesOn
    <3>3. \A v \in FramesAhead(t) : v \in FrameVars(u) \/ v \in FramesAhead(t)'
      BY <2>1, <2>4, <3>2 DEF FramesAhead, FrameVars
    <3>4. DOMAIN frames[u] = 1..Len(frames[u])
      BY <3>1 DEF TypeOK
    <3>5. FramesHere(t)' = FrameVars(u)
      BY <2>1, <2>4, <3>4 DEF FramesHere, FrameVars
    <3>6. Left(t)' = FramesHere(t)' \cup FramesAhead(t)'
      BY <2>4 DEF Left
    <3> QED  BY <2>1, <2>2, <3>3, <3>5, <3>6
  <2> QED  BY <1>4, <2>3, <2>4, MarkThreadMoves
<1>5. CASE MarkFrame(t)
  <2> DEFINE u == var[t].entry
             k == var[t].frame
  <2>1. pc[t] = "mark_frames" /\ UNCHANGED <<links, frames, must>>
    BY <1>5, MarkFrameMoves DEF MarkFrame
  <2>2. must \subseteq marked \cup FramesHere(t) \cup FramesAhead(t)
    BY <2>1 DEF Marks, Left, MarkPlaces
  <2>3. CASE k = 0 /\ pc'[t] = "mark_threads" /\ var'[t] = var[t] /\ UNCHANGED marked
    <3>1. FramesHere(t) = {}
      BY <2>3 DEF FramesHere
    <3>2. FramesAhead(t)' = FramesAhead(t) /\ Left(t)' = FramesAhead(t)'
      BY <2>1, <2>3 DEF FramesAhead, FrameVars, Left
    <3> QED  BY <2>1, <2>2, <2>3, <3>1, <3>2
  <2>4. CASE /\ k \in 1..MaxFrames /\ pc'[t] = pc[t] /\ var'[t].frame = k - 1
             /\ var'[t].entry = u /\ var'[t].entry_next = var[t].entry_next
             /\ marked' = marked \cup Bound(frames[u][k])
    <3>1. \A i \in 1..k : i = k \/ i \in 1..(k - 1)
      BY <2>4, RootsAssumption
    <3>2. \A v \in FramesHere(t) : v \in Bound(frames[u][k]) \/ v \in FramesHere(t)'
      BY <2>1, <2>4, <3>1 DEF FramesHere
    <3>3. FramesAhead(t)' = FramesAhead(t)
      BY <2>1, <2>4 DEF FramesAhead, FrameVars
    <3>4. Left(t)' = FramesHere(t)' \cup FramesAhead(t)'
      BY <2>1, <2>4 DEF Left
    <3> QED  BY <2>1, <2>2, <2>4, <3>2, <3>3, <3>4
  <2> QED  BY <1>5, <2>3, <2>4, MarkFrameMoves
<1> QED  BY <1>a, <1>1, <1>2, <1>3, <1>4, <1>5 DEF Ahead, MarkPlaces

(* Whatever step is taken, what must be marked is marked or ahead.         *)
LEMMA MarksStep ==
  ASSUME TypeOK, FirstCallAlone, FramesOK, Calls, Walks, TheList, FirstCall, Rings, HandlesOK,
         Adders, Exact, Undisturbed, Marks, CarefulProgram,
         NEW t \in Threads, Client(t) \/ Step(t),
         DataTyped', links' \in Links(Nodes, Nil)
  PROVE  Marks'
<1>1. ASSUME NEW w \in Threads \ {t}, pc'[w] \in MarkPlaces \ {"mark_start"}
      PROVE  must' \subseteq marked' \cup Left(w)'
  <2>1. pc[w] \in MarkPlaces \ {"mark_start"}
    BY <1>1, StepMoves DEF Moved
  <2>2. must \subseteq marked \cup Left(w)
    BY <2>1 DEF Marks
  <2>3. must' \subseteq must /\ marked' = marked
    BY <2>1, OthersMarkNot
  <2>4. \A v \in Left(w) : v \in Left(w)'
    BY <2>1, LeftStays
  <2> QED  BY <2>2, <2>3, <2>4
<1>2. pc'[t] \in MarkPlaces \ {"mark_start"} => must' \subseteq marked' \cup Left(t)'
  BY MarksOwn
<1> QED  BY <1>1, <1>2 DEF Marks

(* The invariant of such a program.                                        *)
MInv == IInv /\ Undisturbed /\ Marks

(* It holds before the first call.                                         *)
LEMMA InitMarks == ASSUME Init PROVE MInv
<1>1. \A t \in Threads : pc[t] = "client" /\ var[t].goto = "client"
  BY NoLocalsFields DEF Init
<1>2. Undisturbed /\ Marks
  BY <1>1 DEF Undisturbed, NoRemoval, OnTheList, InTheFrames, Marks, MarkPlaces
<1> QED  BY <1>2, InitInv DEF MInv

(* Every step keeps it.                                                    *)
LEMMA MarkStep ==
  ASSUME CarefulProgram, MInv, [Next]_vars
  PROVE  MInv'
<1>1. /\ TypeOK /\ FirstCallAlone /\ FramesOK /\ Calls /\ Walks /\ TheList /\ FirstCall /\ Rings
      /\ HandlesOK /\ Adders /\ Exact /\ Undisturbed /\ Marks
  BY DEF MInv, IInv, CarefulProgram
<1>2. IInv'
  BY InvStep DEF MInv, CarefulProgram
<1>3. CASE Next
  <2>1. PICK t \in Threads : Client(t) \/ Step(t)
    BY <1>3 DEF Next
  <2>2. DataTyped' /\ links' \in Links(Nodes, Nil)
    BY <1>1, <2>1, DataStep, RingsStep
  <2>3. NoRemoval'
    BY <1>1, <2>1, NoRemovalStep DEF Undisturbed
  <2>4. OnTheList' /\ InTheFrames'
    BY <1>1, <2>1, <2>2, PlaceStep
  <2>5. Marks'
    BY <1>1, <2>1, <2>2, MarksStep
  <2> QED  BY <1>2, <2>3, <2>4, <2>5 DEF MInv, Undisturbed
<1>4. CASE UNCHANGED vars
  <2>1. UNCHANGED <<global_roots, next, bindings, links, kept_cbs, frames, pc, var, added, must, marked>>
    BY <1>4 DEF vars, globals, cbs, thrs, mark
  <2>2. Undisturbed'
    BY <1>1, <2>1 DEF Undisturbed, NoRemoval, OnTheList, InTheFrames, Listed
  <2>3. /\ \A t \in Threads : CallbacksAhead(t)' = CallbacksAhead(t) /\ GlobalsAhead(t)' = GlobalsAhead(t)
        /\ AllFrames' = AllFrames
        /\ \A t \in Threads : FramesAhead(t)' = FramesAhead(t) /\ FramesHere(t)' = FramesHere(t)
    BY <2>1 DEF CallbacksAhead, GlobalsAhead, AllFrames, FramesAhead, FramesHere, FrameVars
  <2>4. \A t \in Threads : Left(t)' = Left(t)
    BY <2>1, <2>3 DEF Left
  <2>5. Marks'
    BY <1>1, <2>1, <2>4 DEF Marks
  <2> QED  BY <1>2, <2>2, <2>5 DEF MInv
<1> QED  BY <1>3, <1>4

(* What every state of a careful program keeps.                            *)
THEOREM MarkInvariant ==
  ASSUME CarefulProgram
  PROVE  Spec => []MInv
<1>1. Init => MInv
  BY InitMarks
<1>2. MInv /\ [Next]_vars => MInv'
  BY MarkStep
<1> QED  BY <1>1, <1>2, PTL DEF Spec

(* smal_roots_mark_chain has, when it is over, marked every variable that  *)
(* was a root when it began and still is one: the data of each callback,   *)
(* the global roots and the frames of every thread, though other threads   *)
(* register roots all the while.                                           *)
THEOREM RootsAreMarked ==
  ASSUME CarefulProgram
  PROVE  Spec => []RootsMarked
<1>1. MInv => RootsMarked
  BY DEF MInv, Marks, Left, RootsMarked, MarkPlaces
<1> QED  BY <1>1, MarkInvariant, PTL

(* The walks of smal_roots_mark_chain never follow a pointer into an entry *)
(* that has been freed or a frame that has been popped, and no call goes   *)
(* on before the callbacks are initialised.                                *)
THEOREM UsesAreSafe ==
  ASSUME CarefulProgram
  PROVE  Spec => []UseSafe
<1>1. ASSUME MInv PROVE UseSafe
  <2> SUFFICES ASSUME NEW t \in Threads
               PROVE  /\ pc[t] \notin {"client", "once"} => once
                      /\ pc[t] = "mark_callbacks" => var[t].entry_next \in kept_cbs \cup {callbacks}
                      /\ pc[t] = "mark_globals" => var[t].r \in used \cup {Nil}
                      /\ pc[t] = "mark_frames" => var[t].frame <= Len(frames[var[t].entry])
    BY DEF UseSafe
  <2>1. pc[t] \notin {"client", "once"} => once
    BY <1>1 DEF MInv, IInv, FirstCall
  <2>2. pc[t] = "mark_callbacks" => var[t].entry_next \in kept_cbs \cup {callbacks}
    BY <1>1 DEF MInv, IInv, Walks
  <2>3. pc[t] = "mark_globals" => var[t].r \in used \cup {Nil}
    BY <1>1 DEF MInv, IInv, TheList, Undisturbed, OnTheList
  <2>4. ASSUME pc[t] = "mark_frames" PROVE var[t].frame <= Len(frames[var[t].entry])
    <3>1. /\ var[t].frame \in 0..Len(frames[var[t].entry]) /\ var[t].entry \in Threads
          /\ frames \in [Threads -> Seq(Frames)]
      BY <1>1, <2>4 DEF MInv, IInv, Undisturbed, InTheFrames, Walks, TypeOK
    <3>2. Len(frames[var[t].entry]) \in Nat
      BY <3>1
    <3> QED  BY <3>1, <3>2
  <2> QED  BY <2>1, <2>2, <2>3, <2>4
<1> QED  BY <1>1, MarkInvariant, PTL

=============================================================================
