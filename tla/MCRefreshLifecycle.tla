------------------------- MODULE MCRefreshLifecycle -------------------------
(***************************************************************************)
(* Model-checking instance of RefreshLifecycle.                            *)
(***************************************************************************)
EXTENDS RefreshLifecycle, TLC

Symmetry == Permutations(Req) \cup Permutations(Key)
=============================================================================
