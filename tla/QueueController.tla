--------------------------- MODULE QueueController ---------------------------
(***************************************************************************)
(* The merge queue (scripts/queue_me_controller.js, run by                 *)
(* .github/workflows/queue-me.yml).  Every event of a pull request and     *)
(* every push to main starts a workflow run; the concurrency group lets    *)
(* one run at a time work and one wait, and a newer run replaces the one   *)
(* that waits.  A run reads the labelled pull requests once, disarms all   *)
(* of them, audits the lowest-numbered one and merges it or arms its       *)
(* auto-merge, one API call after the other, while authors and GitHub go   *)
(* on.                                                                     *)
(***************************************************************************)
EXTENDS Naturals, FiniteSetsExt

CONSTANTS
    PR,         \* numbers of the pull requests
    MaxUser,    \* bound: steps of authors and maintainers
    MaxFaults   \* bound: runs ended by an API error or the job's timeout

ASSUME QueueAssumption ==
    PR \subseteq Nat \ {0} /\ PR # {} /\ IsFiniteSet(PR) /\ MaxUser \in Nat /\ MaxFaults \in Nat

VARIABLES
    main,       \* version of the default branch
    pull,       \* GitHub's record of each pull request
    wf,         \* the concurrency group: the run at work, the event that waits,
                \* and two ghosts: a reconciliation was lost since the last
                \* complete one; pull requests whose disarming was lost
    users, faults

vars == <<main, pull, wf, users, faults>>

\* What a head contains: its serial, whether its commits pass the identity
\* audit and the newest main it includes.
Tip == [n : 1..MaxUser + 1, canon : BOOLEAN, upto : 1..main]

Kinds == {"push", "pull", "unlabeled", "enabled", "enabledByApp"}
Event == [kind : Kinds, pr : PR \cup {0}, labelled : BOOLEAN, onMain : BOOLEAN]
NoEvent == [kind |-> "none", pr |-> 0, labelled |-> FALSE, onMain |-> FALSE]
MainEvent == [kind |-> "push", pr |-> 0, labelled |-> FALSE, onMain |-> FALSE]
About(kind, p, r) ==
    [kind |-> kind, pr |-> p, labelled |-> r.labelled, onMain |-> r.onMain]

NoTip == [n |-> 0, canon |-> FALSE, upto |-> 0]
Blank(pc, ev) == [pc |-> pc, ev |-> ev, leader |-> 0, draft |-> FALSE,
                  tip |-> NoTip, todo |-> {}, base |-> 0]
Begun(ev) == Blank("start", ev)
NoRun == Blank("idle", NoEvent)
PCs == {"idle", "start", "list", "followers", "branch", "again", "state",
        "merge", "arm", "retry", "done"}

TypeOK ==
    /\ main \in 1..1 + MaxUser + Cardinality(PR)
    /\ pull \in [PR -> [open : BOOLEAN, labelled : BOOLEAN, draft : BOOLEAN,
                        onMain : BOOLEAN, green : BOOLEAN, tip : Tip,
                        armed : {"no", "app", "user"}]]
    /\ wf \in [run : [pc : PCs, ev : Event \cup {NoEvent}, leader : PR \cup {0},
                      draft : BOOLEAN, tip : Tip \cup {NoTip}, todo : SUBSET PR,
                      base : 0..main],
               pending : Event \cup {NoEvent}, missed : BOOLEAN, undone : SUBSET PR]
    /\ wf.run.pc = "idle" => wf.run = NoRun /\ wf.pending = NoEvent
    /\ users \in 0..MaxUser /\ faults \in 0..MaxFaults

\* A manual dispatch starts the first run.
Init ==
    /\ main = 1
    /\ pull \in [PR -> [open : {TRUE}, labelled : BOOLEAN, draft : {FALSE},
                        onMain : {TRUE}, green : {FALSE}, armed : {"no"},
                        tip : {[n |-> 1, canon |-> TRUE, upto |-> 1]}]]
    /\ wf = [run |-> Begun(MainEvent), pending |-> NoEvent,
             missed |-> FALSE, undone |-> {}]
    /\ users = 0 /\ faults = 0

run == wf.run
Leading == pull[run.leader]
InQueue(p) == pull[p].open /\ pull[p].onMain /\ pull[p].labelled
Queue == {p \in PR : InQueue(p)}
\* mergeable MERGEABLE and mergeStateStatus CLEAN.
Clean(p) == pull[p].open /\ pull[p].green /\ ~pull[p].draft

-----------------------------------------------------------------------------
(* The workflow and its concurrency group. *)

\* The condition of the job.
Wanted(ev) == ev.kind \in {"push", "unlabeled"} \/ ev.labelled

\* The event asks for the disarming of its own pull request, whoever leads.
Detaches(ev) == ev.kind = "unlabeled" \/ (ev.labelled /\ ~ev.onMain)

\* The new run works at once, or waits in place of the one that waited.
Raise(w, ev) ==
    IF w.run.pc = "idle"
    THEN [w EXCEPT !.run = Begun(ev)]
    ELSE [w EXCEPT !.pending = ev,
            !.missed = @ \/ (/\ Wanted(w.pending)
                             /\ ~Wanted(ev) \/ ev.kind = "enabledByApp"),
            !.undone = IF Detaches(w.pending) THEN @ \cup {w.pending.pr} ELSE @]

Finish(w) ==
    [w EXCEPT !.run = IF w.pending = NoEvent THEN NoRun ELSE Begun(w.pending),
              !.pending = NoEvent]
Fail(w) == Finish([w EXCEPT !.missed = TRUE])
Goto(w, pc) == [w EXCEPT !.run.pc = pc]

\* disableAutoMerge
Disarm(p) == pull' = [pull EXCEPT ![p].armed = "no"]

-----------------------------------------------------------------------------
(* runController, one API call per step. *)

SkipJob ==
    /\ run.pc = "start" /\ ~Wanted(run.ev)
    /\ wf' = Finish(wf)
    /\ UNCHANGED pull

\* reconcileEventPull, from the event's payload.
ReconcileEvent ==
    /\ run.pc = "start" /\ Wanted(run.ev)
    /\ IF Detaches(run.ev)
       THEN /\ Disarm(run.ev.pr)
            /\ wf' = Goto([wf EXCEPT !.undone = @ \ {run.ev.pr}], "list")
       ELSE wf' = Goto(wf, "list") /\ UNCHANGED pull

\* Mutant: whatever enabled the leader's auto-merge is ignored.
IgnoresEnabled(leader) ==
    run.ev.kind \in {"enabled", "enabledByApp"} /\ run.ev.pr = leader
\* Mutant: its own arming starts the controller over.
NeverOwn(leader) == FALSE
\* isQueueAppLeaderAutoMergeEvent
OwnEvent(leader) == run.ev.kind = "enabledByApp" /\ run.ev.pr = leader

\* The open pull requests of the default branch that carry the label.
List ==
    /\ run.pc = "list"
    /\ UNCHANGED pull
    /\ \/ Queue = {} /\ wf' = Finish([wf EXCEPT !.missed = FALSE])
       \/ Queue # {} /\ OwnEvent(Min(Queue)) /\ wf' = Finish(wf)
       \/ /\ Queue # {} /\ ~OwnEvent(Min(Queue))
          /\ LET p == Min(Queue)
             IN wf' = [wf EXCEPT !.missed = FALSE, !.undone = @ \ Queue,
                        !.run = [@ EXCEPT !.pc = "followers", !.leader = p,
                                   !.todo = Queue \ {p},
                                   !.draft = pull[p].draft,
                                   !.tip = pull[p].tip]]

\* Mutant: only the leader is disarmed.
NobodyFollows == {}
Followers == run.todo

DisarmFollower ==
    /\ run.pc = "followers" /\ Followers # {}
    /\ LET p == Min(Followers)
       IN /\ Disarm(p)
          /\ wf' = [wf EXCEPT !.run.todo = @ \ {p}]

\* A draft leader, as listed, pauses the queue.
DisarmLeader ==
    /\ run.pc = "followers" /\ Followers = {}
    /\ Disarm(run.leader)
    /\ wf' = IF run.draft THEN Finish(wf) ELSE Goto(wf, "branch")

\* Every commit that is not in main has one canonical user as its author and its
\* committer: assertCanonicalCommitIdentity.
PassesAudit(tip) == tip.canon
\* isBranchCurrent
ContainsMain(tip) == tip.upto = main

\* getBranch and verifyHeadForQueue: the comparison of two commits is the same
\* whenever it is made.
Verify ==
    /\ run.pc = "branch"
    /\ wf' = IF PassesAudit(run.tip) /\ ContainsMain(run.tip)
             THEN [wf EXCEPT !.run.pc = "again", !.run.base = main]
             ELSE Finish(wf)
    /\ UNCHANGED pull

CheckBranch ==
    /\ run.pc = "again"
    /\ wf' = IF main = run.base THEN Goto(wf, "state") ELSE Finish(wf)
    /\ UNCHANGED pull

\* Mutant: the head read before arming is not compared with the audited one.
AnyHead == TRUE
SameHead == Leading.tip.n = run.tip.n
\* assertExpectedBaseState
SameBase == Leading.onMain /\ main = run.base

\* pullState and the decisions of armOrMerge.  The head that is read is the
\* one the mutations expect.
ReadState ==
    /\ run.pc = "state"
    /\ LET w == [wf EXCEPT !.run.tip = Leading.tip]
       IN wf' = IF ~SameHead \/ ~SameBase THEN Finish(wf)
                ELSE IF Leading.armed # "no" THEN Goto(w, "done")
                ELSE Goto(w, IF Clean(run.leader) THEN "merge" ELSE "arm")
    /\ UNCHANGED pull

\* What GitHub does with a merge: the branch moves when it is the base.
Merged(w, p) ==
    LET r == Raise(w, About("pull", p, pull[p]))
    IN IF pull[p].onMain THEN Raise(r, MainEvent) ELSE r
DoMerge(p, w) ==
    /\ pull' = [pull EXCEPT ![p].open = FALSE, ![p].armed = "no"]
    /\ main' = IF pull[p].onMain THEN main + 1 ELSE main
    /\ wf' = [Merged(w, p) EXCEPT !.undone = @ \ {p}]

Expected == Leading.open /\ Leading.tip.n = run.tip.n

MergeNow ==
    /\ run.pc = "merge"
    /\ IF Expected /\ Clean(run.leader)
       THEN DoMerge(run.leader, Goto(wf, "done"))
       ELSE wf' = Fail(wf) /\ UNCHANGED <<main, pull>>

\* enablePullRequestAutoMerge refuses a moved head and a clean pull request.
Arm ==
    /\ run.pc = "arm"
    /\ IF Expected /\ ~Clean(run.leader)
       THEN /\ pull' = [pull EXCEPT ![run.leader].armed = "app"]
            /\ wf' = Raise(Goto(wf, "done"), About("enabledByApp", run.leader, Leading))
       ELSE wf' = Goto(wf, "retry") /\ UNCHANGED pull

\* Mutant: a refused arming ends the run.
GiveUp ==
    /\ run.pc = "retry"
    /\ wf' = Finish(wf)
    /\ UNCHANGED pull
\* The catch block of armOrMerge.
Retry ==
    /\ run.pc = "retry"
    /\ wf' = IF ~SameHead \/ ~SameBase THEN Finish(wf)
             ELSE IF Clean(run.leader) THEN Goto(wf, "merge") ELSE Fail(wf)
    /\ UNCHANGED pull

Done ==
    /\ run.pc = "done"
    /\ wf' = Finish(wf)
    /\ UNCHANGED pull

Controller ==
    /\ \/ /\ UNCHANGED main
          /\ \/ SkipJob \/ ReconcileEvent \/ List \/ DisarmFollower \/ DisarmLeader
             \/ Verify \/ CheckBranch \/ ReadState \/ Arm \/ Retry \/ Done
       \/ MergeNow
    /\ UNCHANGED <<users, faults>>

\* An API call throws, or the job exceeds its ten minutes.
RunFails ==
    /\ run.pc # "idle" /\ faults < MaxFaults
    /\ faults' = faults + 1
    /\ wf' = Fail(IF run.pc = "start" /\ Detaches(run.ev)
                  THEN [wf EXCEPT !.undone = @ \cup {run.ev.pr}] ELSE wf)
    /\ UNCHANGED <<main, pull, users>>

-----------------------------------------------------------------------------
(* GitHub, authors and maintainers. *)

ChecksPass(p) ==
    /\ pull[p].open /\ ~pull[p].green
    /\ pull' = [pull EXCEPT ![p].green = TRUE]
    /\ UNCHANGED <<main, wf, users, faults>>

AutoMerge(p) ==
    /\ pull[p].armed # "no" /\ Clean(p)
    /\ DoMerge(p, wf)
    /\ UNCHANGED <<users, faults>>

\* Somebody changes a pull request, which raises an event.
Change(p, kind, r) ==
    /\ pull[p].open /\ users < MaxUser
    /\ users' = users + 1
    /\ pull' = [pull EXCEPT ![p] = r]
    /\ wf' = Raise(wf, About(kind, p, r))
    /\ UNCHANGED <<main, faults>>

Label(p) == ~pull[p].labelled /\ Change(p, "pull", [pull[p] EXCEPT !.labelled = TRUE])
Unlabel(p) ==
    pull[p].labelled /\ Change(p, "unlabeled", [pull[p] EXCEPT !.labelled = FALSE])
ToggleDraft(p) == Change(p, "pull", [pull[p] EXCEPT !.draft = ~@])
Retarget(p) == Change(p, "pull", [pull[p] EXCEPT !.onMain = ~@])
UserArms(p) ==
    /\ pull[p].armed = "no" /\ ~Clean(p)
    /\ Change(p, "enabled", [pull[p] EXCEPT !.armed = "user"])
CloseUnmerged(p) ==
    Change(p, "pull", [pull[p] EXCEPT !.open = FALSE, !.armed = "no"])
PushHead(p, canon, upto) ==
    /\ upto \in {pull[p].tip.upto, main}
    /\ Change(p, "pull", [pull[p] EXCEPT !.green = FALSE,
                !.tip = [n |-> @.n + 1, canon |-> canon, upto |-> upto]])
\* A required check runs again: no event of the workflow.
Recheck(p) ==
    /\ pull[p].open /\ pull[p].green /\ users < MaxUser
    /\ users' = users + 1
    /\ pull' = [pull EXCEPT ![p].green = FALSE]
    /\ UNCHANGED <<main, wf, faults>>
PushMain ==
    /\ users < MaxUser
    /\ users' = users + 1 /\ main' = main + 1
    /\ wf' = Raise(wf, MainEvent)
    /\ UNCHANGED <<pull, faults>>

People ==
    \/ PushMain
    \/ \E p \in PR :
        \/ Label(p) \/ Unlabel(p) \/ ToggleDraft(p) \/ Retarget(p) \/ UserArms(p)
        \/ CloseUnmerged(p) \/ Recheck(p)
        \/ \E canon \in BOOLEAN, upto \in 1..main : PushHead(p, canon, upto)

Next ==
    \/ Controller \/ RunFails \/ People
    \/ \E p \in PR : ChecksPass(p) \/ AutoMerge(p)

Spec == Init /\ [][Next]_vars

\* Runs that have started go on.
FairSpec == Spec /\ WF_vars(Controller)
\* Checks end and GitHub merges what is armed.
ChecksEnd == \A p \in PR : WF_vars(ChecksPass(p)) /\ WF_vars(AutoMerge(p))

-----------------------------------------------------------------------------
(* Properties. *)

Quiet == run.pc = "idle"
\* The event makes a run list the queue and disarm it.
Reconciles(ev) == Wanted(ev) /\ ev.kind # "enabledByApp"
DueOrLost(w) == w.missed \/ Reconciles(w.pending)
Leads(p) == InQueue(p) /\ \A q \in PR : InQueue(q) => p <= q
Healthy(p) ==
    Leads(p) /\ ~pull[p].draft /\ pull[p].tip.canon /\ pull[p].tip.upto = main

\* Whatever happens between its calls, the controller arms and merges only a
\* head that passed the identity audit and contains the main it was compared
\* with.
ActsOnAudited ==
    [][\A p \in PR :
        LET acts == \/ pull'[p].armed = "app" /\ pull[p].armed # "app"
                    \/ MergeNow /\ pull[p].open /\ ~pull'[p].open
        IN acts => pull[p].tip.canon /\ pull[p].tip.upto >= run.base]_vars

\* When the controller arms the leader, every other pull request of the queue is
\* disarmed, also one labelled since the run listed the queue.  Two kinds are
\* excepted: one whose disarming was lost, and one that a maintainer armed after
\* the run had disarmed it.  The latter does not stay unnoticed: an event that
\* asks for a new reconciliation waits, or it was lost.
ArmsAlone ==
    [][\A p, q \in PR :
        p # q /\ pull'[p].armed = "app" /\ pull[p].armed # "app" /\ InQueue(q) =>
            \/ pull[q].armed = "no"
            \/ pull[q].armed = "app" /\ q \in wf.undone
            \/ pull[q].armed = "user" /\ DueOrLost(wf)]_vars

\* When no run works or waits, nothing is armed but the audited, current leader
\* of the queue, unless a run that had to see to it failed or was replaced by one
\* that does less.
Reconciled ==
    Quiet /\ ~wf.missed =>
        \A p \in PR \ wf.undone :
            /\ InQueue(p) /\ pull[p].armed # "no" => Healthy(p)
            /\ pull[p].armed = "app" => InQueue(p)

\* If checks end, a leader that needs nothing from its author is merged, unless the
\* last reconciliation was lost.
Advances == ChecksEnd => \A p \in PR : <>[]Healthy(p) => <>[]wf.missed

\* The controller's arming does not keep the controller busy: once people leave the
\* queue alone, its runs come to rest, also when a required check never ends.
Rests == <>[]Quiet

\* Removing the label disables the pull request's auto-merge.
RemovedIsDisarmed ==
    Quiet => \A p \in PR : pull[p].armed = "app" => pull[p].labelled
=============================================================================
