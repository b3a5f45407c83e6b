---------------------------- MODULE MCAnalyseRun ----------------------------
(***************************************************************************)
(* Model-checking instance of AnalyseRun: two commits, whose keys share a  *)
(* legacy file name, and the command lines that matter: a gate with fixes, *)
(* fixes with a first save, a save after a comparison with a file, a save  *)
(* without a store, and a save under a label.                              *)
(***************************************************************************)
EXTENDS AnalyseRun, TLC

CONSTANTS k1, k2, s1

MCSlugOf == k1 :> s1 @@ k2 :> s1
Symmetry == Permutations(Proc)

Plain == [apply |-> FALSE, allowDirty |-> FALSE, save |-> FALSE, gate |-> FALSE,
          policy |-> FALSE, file |-> FALSE, store |-> TRUE, key |-> NoKey, label |-> NoKey]
MCRequests ==
    {[Plain EXCEPT !.gate = TRUE, !.apply = TRUE, !.allowDirty = TRUE],
     [Plain EXCEPT !.save = TRUE, !.apply = TRUE],
     [Plain EXCEPT !.save = TRUE, !.file = TRUE, !.gate = TRUE],
     [Plain EXCEPT !.save = TRUE, !.store = FALSE, !.policy = TRUE],
     [Plain EXCEPT !.save = TRUE, !.gate = TRUE, !.key = k1, !.label = k2]}
=============================================================================
