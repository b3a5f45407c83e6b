---------------------------- MODULE MCDashboardRun ---------------------------
(***************************************************************************)
(* Model-checking instance of DashboardRun: an entry pinned to the second  *)
(* commit and one that follows a branch, neither of which the remote need  *)
(* have yet, and one that follows HEAD.                                    *)
(***************************************************************************)
EXTENDS DashboardRun

CONSTANT Release    \* the branch

MCMixed == <<2, 0, Release>>
=============================================================================
