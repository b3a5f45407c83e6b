---------------------------- MODULE AdvisoryCache -----------------------------
(***************************************************************************)
(* What SyncOSV promises to the processes that share an advisory cache:    *)
(* every call takes effect at one moment between its start and its return, *)
(* as if the calls came one after the other.  A call that reports success  *)
(* has taken effect, one that fails or dies has once or not at all, and    *)
(* nothing else changes what the cache records.                            *)
(***************************************************************************)
CONSTANTS
    Proc,    \* callers
    Digest,  \* contents
    IdOf,    \* the identifier of each content: different ones may share it
    NoId     \* the latest identifier of an empty cache

VARIABLES
    latest,   \* the identifier recorded last
    recorded, \* contents on record, at most one of an identifier
    st        \* progress of each caller, and how its last call ended

Init ==
    /\ latest = NoId /\ recorded = {}
    /\ st = [p \in Proc |-> "idle"]

Ended == {"idle", "ok", "error"}
Move(p, from, to) == st[p] \in from /\ st' = [st EXCEPT ![p] = to]

Begin(p) == Move(p, Ended, "open") /\ UNCHANGED <<latest, recorded>>

\* The effect of a call: one identifier is added or replaced, and is the latest.
Record(p, d) ==
    /\ Move(p, {"open"}, "recorded")
    /\ recorded' = {d} \cup {e \in recorded : IdOf[e] # IdOf[d]}
    /\ latest' = IdOf[d]

\* A call can fail before and after its effect, and has none from then on.
Fail(p) == Move(p, {"open", "recorded"}, "failed") /\ UNCHANGED <<latest, recorded>>

\* A caller that dies is idle again.
Return(p, r) ==
    /\ Move(p, {"open", "recorded", "failed"}, r)
    /\ r = "ok" => st[p] = "recorded"
    /\ UNCHANGED <<latest, recorded>>

Next ==
    \E p \in Proc :
        \/ Begin(p) \/ Fail(p)
        \/ \E d \in Digest : Record(p, d)
        \/ \E r \in Ended : Return(p, r)

Spec == Init /\ [][Next]_<<latest, recorded, st>>
=============================================================================
