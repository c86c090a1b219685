-------------------------- MODULE MCSmalFinalizer ---------------------------
(***************************************************************************)
(* SmalFinalizer with two objects, the first of which points to the        *)
(* second: either may be the one the client lets go first.                 *)
(***************************************************************************)
EXTENDS SmalFinalizer

CONSTANTS a, b

MCReferred == {a, b}
MCPoints   == [p \in MCReferred |-> IF p = a THEN b ELSE Nil]
OnlyCreate == {"create"}
OnlySweeps == {"sweep_some"}
=============================================================================
