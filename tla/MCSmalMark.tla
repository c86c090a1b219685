----------------------------- MODULE MCSmalMark -----------------------------
(***************************************************************************)
(* SmalMark with three objects, the third without a mark_func.  The word   *)
(* w2 points into the second object, and a fourth word points to nothing.  *)
(* A chunk holds two pairs.  The stack has pointers at addresses that are  *)
(* aligned to a pointer (0, 32), to an int (12) and to neither (21).       *)
(***************************************************************************)
EXTENDS SmalMark, TLC

CONSTANTS o1, o2, o3, w1, w2, w3, junk

MCObjectAt == (w1 :> o1) @@ (w2 :> o2) @@ (w3 :> o3) @@ (junk :> NoObject) @@ (Null :> NoObject)
MCStack == [a \in 0..39 |->
              CASE a = 0 -> w1 [] a = 12 -> w3 [] a = 21 -> w3 [] a = 32 -> w2
                [] a \in {8, 16, 24} -> junk
                [] OTHER -> Null]
MCBindings == {<<>>, <<w1, w2, w1>>, <<NoBinding, w3, junk>>}
MCRanges == {<<0, 8>>, <<39, 0>>, <<40, 9>>, <<5, 5>>, <<20, 39>>}
=============================================================================
