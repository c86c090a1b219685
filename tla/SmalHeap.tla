------------------------------ MODULE SmalHeap ------------------------------
(***************************************************************************)
(* What a collected heap promises a program that does nothing but follow   *)
(* and store pointers: an object it can reach from its roots is never      *)
(* taken back.  Nothing is said of buffers, marks or remembered sets.      *)
(*                                                                         *)
(* Every object has one pointer field; that is enough for paths, sharing   *)
(* and cycles.                                                             *)
(***************************************************************************)
CONSTANTS Objects, Null   (* Null is not an object *)

VARIABLES
  allocated,   \* the objects in use
  ref,         \* the pointer each object holds
  roots        \* the objects the program points to itself

vars == <<allocated, ref, roots>>

(* The least set that holds "from" and is closed under ref. *)
Closed(S) == \A o \in S : ref[o] \in S \cup {Null}
ReachableFrom(from) ==
  {o \in Objects : \A S \in SUBSET Objects : from \subseteq S /\ Closed(S) => o \in S}
Reachable == ReachableFrom(roots)

Init == /\ allocated = {}
        /\ ref = [o \in Objects |-> Null]
        /\ roots = {}

New(o) == /\ o \notin allocated
          /\ allocated' = allocated \cup {o}
          /\ roots' = roots \cup {o}
          /\ ref' = [ref EXCEPT ![o] = Null]

Store(o, v) == /\ o \in Reachable /\ v \in Reachable \cup {Null}
               /\ ref' = [ref EXCEPT ![o] = v]
               /\ UNCHANGED <<allocated, roots>>

Load(o) == /\ o \in Reachable
           /\ roots' = roots \cup {o}
           /\ UNCHANGED <<allocated, ref>>

Forget(o) == /\ roots' = roots \ {o}
             /\ UNCHANGED <<allocated, ref>>

(* The collector takes back objects that cannot be reached. *)
Reclaim == \E garbage \in SUBSET (allocated \ Reachable) :
             /\ allocated' = allocated \ garbage
             /\ ref' = [o \in Objects |-> IF o \in garbage THEN Null ELSE ref[o]]
             /\ UNCHANGED roots

Next == \/ \E o \in Objects : New(o) \/ Load(o) \/ Forget(o)
        \/ \E o \in Objects, v \in Objects \cup {Null} : Store(o, v)
        \/ Reclaim

Spec == Init /\ [][Next]_vars
=============================================================================
