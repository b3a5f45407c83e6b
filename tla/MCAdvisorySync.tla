--------------------------- MODULE MCAdvisorySync ---------------------------
(***************************************************************************)
(* Model-checking instance of AdvisorySync.  d1 and d2 share the truncated *)
(* identifier and the extension, so the second one published collides with *)
(* the first; d3 is a ZIP snapshot of its own.                             *)
(***************************************************************************)
EXTENDS AdvisorySync, TLC

CONSTANTS p1, p2, d1, d2, d3, i1, i2

MCIdOf  == d1 :> i1 @@ d2 :> i1 @@ d3 :> i2
MCExtOf == d1 :> "json" @@ d2 :> "json" @@ d3 :> "zip"
=============================================================================
