--------------------------- MODULE MCAnalysisCache ---------------------------
(***************************************************************************)
(* Model-checking instance of AnalysisCache.  js stands for an adapter     *)
(* whose sources are hashed, rb for one whose sources are not (.rb, .ex,   *)
(* .swift, .dart and .ps1 are missing from isCacheRelevantFile).           *)
(***************************************************************************)
EXTENDS AnalysisCache, TLC

Symmetry == Permutations(Proc) \cup Permutations(Value)
=============================================================================
