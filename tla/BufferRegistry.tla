--------------------------- MODULE BufferRegistry ---------------------------
(***************************************************************************)
(* What the buffer table and the lists of buffers promise together, with   *)
(* nothing said of locks: threads add buffers at any time; one thread at a *)
(* time collects; it takes all the buffers there are at one moment, and    *)
(* frees only such as it took and nothing pins.                            *)
(***************************************************************************)
CONSTANTS Threads, Pages, Pinned

VARIABLES
  buffers,      \* the buffers there are
  collectors,   \* the threads that collect
  taken         \* the buffers they took

vars == <<buffers, collectors, taken>>

Init == buffers = {} /\ collectors = {} /\ taken = {}

Add(p) == /\ p \in Pages \ buffers
          /\ buffers' = buffers \cup {p}
          /\ UNCHANGED <<collectors, taken>>

Begin(t) == /\ collectors = {} /\ collectors' = {t}
            /\ taken' = buffers
            /\ UNCHANGED buffers

Free(p) == /\ p \in taken \ Pinned
           /\ buffers' = buffers \ {p} /\ taken' = taken \ {p}
           /\ UNCHANGED collectors

End(t) == /\ collectors = {t} /\ collectors' = {}
          /\ taken' = {}
          /\ UNCHANGED buffers

Next == \/ \E p \in Pages : Add(p) \/ Free(p)
        \/ \E t \in Threads : Begin(t) \/ End(t)

Spec == Init /\ [][Next]_vars
=============================================================================
