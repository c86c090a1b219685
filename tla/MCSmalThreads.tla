--------------------------- MODULE MCSmalThreads ----------------------------
(***************************************************************************)
(* SmalThreads with page ids that leave a gap, so that the size of the     *)
(* table changes with the range, and a page of each of two types next to   *)
(* an extreme one.                                                         *)
(***************************************************************************)
EXTENDS SmalThreads

CONSTANTS ta, tb

MCPages  == {1, 2, 4}
MCTypeOf == [p \in MCPages |-> IF p = 2 THEN tb ELSE ta]
MCTypes  == {ta, tb}
NoPages  == {}
=============================================================================
