----------------------------- MODULE SmalDllist -----------------------------
(***************************************************************************)
(* The intrusive rings of src/include/smal/dllist.h.  The buffer lists,    *)
(* the callbacks and the threads are kept in them.  L is the memory the    *)
(* macros write: next and prev of every node, a list head included.        *)
(***************************************************************************)
Links(Nodes, Nil) == [next : [Nodes -> Nodes \cup {Nil}], prev : [Nodes -> Nodes \cup {Nil}]]

(* smal_dllist_init: an empty ring. *)
InitNode(L, x) == [next |-> [L.next EXCEPT ![x] = x], prev |-> [L.prev EXCEPT ![x] = x]]

(* smal_dllist_insert, smal_dllist_delete: the writes in their order. *)
Insert(L, h, x) ==
  LET hn == L.next[h] IN
  [next |-> [[L.next EXCEPT ![x] = hn] EXCEPT ![h] = x],
   prev |-> [[L.prev EXCEPT ![x] = h] EXCEPT ![hn] = x]]

Delete(L, x) ==
  [next |-> [L.next EXCEPT ![L.prev[x]] = L.next[x]],
   prev |-> [L.prev EXCEPT ![L.next[x]] = L.prev[x]]]

(* smal_dllist_append: ring b goes to the end of ring a and is empty.  The *)
(* second "next" is written with a's old prev, read before.                *)
AppendRing(L, a, b) ==
  IF L.next[b] = b THEN L
  ELSE LET bn == L.next[b]  bp == L.prev[b]  ap == L.prev[a] IN
       [next |-> [L.next EXCEPT ![ap] = bn, ![bp] = a, ![b] = b],
        prev |-> [L.prev EXCEPT ![a] = bp, ![bn] = ap, ![b] = b]]

(* In the rings of the nodes of S every link has its inverse. *)
Linked(L, S) ==
  \A x \in S : /\ L.next[x] \in S /\ L.prev[x] \in S
               /\ L.prev[L.next[x]] = x
               /\ L.next[L.prev[x]] = x
=============================================================================
