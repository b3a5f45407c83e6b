--------------------------- MODULE MCCodemodApply ----------------------------
(***************************************************************************)
(* Model-checking instance of CodemodApply: one run removes the imports of *)
(* py, the other rewrites those of js; both are imported in one file.  The *)
(* first must leave the line use alone.                                    *)
(***************************************************************************)
EXTENDS CodemodApply, TLC

CONSTANTS r1, r2, py, js, sub, use

MCTarget == r1 :> {py} @@ r2 :> {js}
MCUnsafe == r1 :> {use} @@ r2 :> {}
MCDeleted == {py}
MCRewrite == [l \in Line |-> IF l = js THEN sub ELSE l]
MCCommitted == <<(<<py, use, py>>), (<<py, js>>)>>
MCContents == {<<py, use, py>>, <<py, js>>, <<use, js>>}
=============================================================================
