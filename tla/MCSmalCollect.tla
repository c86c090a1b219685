--------------------------- MODULE MCSmalCollect ----------------------------
(***************************************************************************)
(* SmalCollect on two pages: u of a mostly unchanging type that is swept   *)
(* every second collection, and p of an ordinary type.                     *)
(***************************************************************************)
EXTENDS SmalCollect

CONSTANTS u, p, u1, p1, p2

MCObjects  == {u1, p1, p2}
MCBuffers  == {u, p}
MCBufferOf == [o \in MCObjects |-> IF o = u1 THEN u ELSE p]

EverySecond == [b \in MCBuffers |-> IF b = u THEN 2 ELSE 1]
EveryOne    == [b \in MCBuffers |-> 1]
OnlyU       == {u}
NoPage      == {}

Idle        == {"idle"}
IdleOrSweep == {"idle", "sweep"}
=============================================================================
