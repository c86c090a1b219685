--------------------------- MODULE MCSmalReference ---------------------------
(***************************************************************************)
(* SmalReference with the client kept out of what is not safe while a      *)
(* collection is under way, and with all of its calls at any time.         *)
(***************************************************************************)
EXTENDS SmalReference

Careful ==
  [client |-> Phases, take |-> Phases, create |-> {"idle"},
   referred |-> {"idle", "stopping", "sweep"}]
CreateInSweep == [Careful EXCEPT !.create = {"idle", "sweep"}]
=============================================================================
