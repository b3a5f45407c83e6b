---------------------------- MODULE MCAtomicWrite ----------------------------
(***************************************************************************)
(* Model-checking instance of AtomicWrite: four calls on one path.         *)
(***************************************************************************)
EXTENDS AtomicWrite, TLC

CONSTANTS f, x, p, o

MCModeOf == f :> "fallback" @@ x :> "exclusive" @@ p :> "publish" @@ o :> "overwrite"
=============================================================================
