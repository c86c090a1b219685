---------------------------- MODULE MCSmalRoots -----------------------------
(***************************************************************************)
(* SmalRoots with two threads, three root variables, two global entries    *)
(* and two callbacks.                                                      *)
(***************************************************************************)
EXTENDS SmalRoots, TLC

CONSTANTS x, y, z, c1, c2

MCDataOf == (c1 :> z) @@ (c2 :> y)
MCFrames == {<<x>>, <<x, y>>}
AllButUnsafe == Operations \ {"end", "remove"}
Symmetry == Permutations(Threads) \cup Permutations(Entries)
=============================================================================
