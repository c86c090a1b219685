----------------------------- MODULE ObjectPool -----------------------------
(***************************************************************************)
(* What an allocator with a collector promises its user, with nothing said *)
(* of buffers, free lists or bitmaps.                                      *)
(*                                                                         *)
(* A cell is either allocated or not.  The user holds some allocated       *)
(* cells.  A cell that is handed out was not allocated, and a cell that is *)
(* taken back was either given back by the user or no longer held.         *)
(***************************************************************************)
CONSTANT Cells

VARIABLES
  allocated,   \* the cells in use
  held         \* the cells the user can still reach

vars == <<allocated, held>>

TypeOK == allocated \subseteq Cells /\ held \subseteq allocated

Init == allocated = {} /\ held = {}

Alloc == \E c \in Cells \ allocated :
           allocated' = allocated \cup {c} /\ held' = held \cup {c}

Free == \E c \in held :
          allocated' = allocated \ {c} /\ held' = held \ {c}

Drop == \E c \in held : held' = held \ {c} /\ UNCHANGED allocated

Reclaim == \E garbage \in SUBSET (allocated \ held) :
             allocated' = allocated \ garbage /\ UNCHANGED held

Next == Alloc \/ Free \/ Drop \/ Reclaim

Spec == Init /\ [][Next]_vars
=============================================================================
