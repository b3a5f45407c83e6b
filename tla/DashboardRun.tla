----------------------------- MODULE DashboardRun ----------------------------
(***************************************************************************)
(* lopper dashboard over remote repositories (internal/app/                *)
(* dashboard_remote.go, dashboard_execution.go).  A run materialises the   *)
(* entries one after the other into a shared cache of git checkouts, one   *)
(* directory per URL and pin, and then analyses them with a pool of        *)
(* workers.  The model has one URL: a checkout is named by its pin alone.  *)
(* A git command is atomic, except that its death can leave its lock.      *)
(* A checkout follows HEAD (0), follows a branch or tag, or is pinned to a *)
(* commit; the commits of the remote are numbered along one history.       *)
(***************************************************************************)
EXTENDS Naturals, Sequences, FiniteSets

CONSTANTS
    Proc,       \* lopper processes
    Name,       \* branches and tags
    Entries,    \* repos of the dashboard config: the pin of each, 0 for none
    Workers,    \* runtime.NumCPU()
    MaxCommit, MaxRuns, MaxFaults  \* bounds

Commit == 1..MaxCommit
Mixed == MaxCommit + 1      \* a work tree between two commits
Entry == DOMAIN Entries
Moving == {0} \cup Name     \* what a push moves
Pins == Moving \cup Commit

ASSUME ConstantsAssumption ==
    /\ MaxCommit \in Nat \ {0} /\ MaxRuns \in Nat /\ MaxFaults \in Nat
    /\ Workers \in Nat \ {0}
    /\ Name \cap (0..MaxCommit) = {}
    /\ Entries \in Seq(Pins) /\ Entries # <<>>

VARIABLES
    up,         \* HEAD, branches and tags of the remote repository, 0 for none
    co,         \* the cached checkout of every pin
    pc, at,     \* control of each process, and the entry it works on
    fresh,      \* the checkout is being cloned, not refreshed
    res,        \* dashboard.RepoAnalysis of every entry
    runs, faults,
    from,       \* ghost: the remote repository when the run started
    blamed      \* ghost: entries of the run that a fault hit

vars == <<up, co, pc, at, fresh, res, runs, faults, from, blamed>>

Absent == [git |-> FALSE, origin |-> FALSE, fetched |-> 0, head |-> 0, tree |-> 0,
           litter |-> FALSE, lock |-> FALSE]
Unset == [state |-> "none", commit |-> 0, seen |-> 0]
GitPCs == {"check", "remove", "clone", "cloneData", "init", "origin", "fetch",
           "checkout", "reset", "clean", "resolve", "cleanup"}

TypeOK ==
    /\ up \in [Moving -> 0..MaxCommit] /\ up[0] # 0
    /\ co \in [Pins -> [git : BOOLEAN, origin : BOOLEAN, fetched : 0..MaxCommit,
                        head : 0..MaxCommit, tree : 0..Mixed, litter : BOOLEAN,
                        lock : BOOLEAN]]
    /\ pc \in [Proc -> GitPCs \cup {"idle", "jobs"}]
    /\ at \in [Proc -> Entry] /\ fresh \in [Proc -> BOOLEAN]
    /\ res \in [Proc -> [Entry -> [state : {"none", "ready", "running", "done", "error"},
                                   commit : 0..MaxCommit, seen : 0..Mixed]]]
    /\ runs \in 0..MaxRuns /\ faults \in 0..MaxFaults
    /\ from \in [Proc -> [Moving -> 0..MaxCommit]] /\ blamed \in [Proc -> SUBSET Entry]

Init ==
    /\ up = [r \in Moving |-> IF r = 0 THEN 1 ELSE 0]
    /\ co = [k \in Pins |-> Absent]
    /\ pc = [p \in Proc |-> "idle"] /\ at = [p \in Proc |-> 1]
    /\ fresh = [p \in Proc |-> FALSE]
    /\ res = [p \in Proc |-> [i \in Entry |-> Unset]]
    /\ runs = 0 /\ faults = 0
    /\ from = [p \in Proc |-> up] /\ blamed = [p \in Proc |-> {}]

Pin(p) == Entries[at[p]]
\* Mutant: one checkout for all pins.
IgnorePin(i) == 0
\* dashboardCheckoutPath: entries of one URL and pin share a checkout.
PathOf(i) == Entries[i]
Path(p) == PathOf(at[p])
CO(p) == co[Path(p)]
\* What an analysis finds: nothing, a commit, or neither of two commits.
View(c) == IF c.litter THEN Mixed ELSE c.tree
Fault == faults < MaxFaults /\ faults' = faults + 1

Start(p) ==
    /\ pc[p] = "idle" /\ runs < MaxRuns
    /\ runs' = runs + 1
    /\ pc' = [pc EXCEPT ![p] = "check"] /\ at' = [at EXCEPT ![p] = 1]
    /\ res' = [res EXCEPT ![p] = [i \in Entry |-> Unset]]
    /\ from' = [from EXCEPT ![p] = up] /\ blamed' = [blamed EXCEPT ![p] = {}]
    /\ UNCHANGED <<up, co, fresh, faults>>

-----------------------------------------------------------------------------
(* Materialize. *)

\* The next entry; 1 after the last.
NextEntry(i) == IF i = Len(Entries) THEN 1 ELSE i + 1

\* The loop of prepareDashboardExecutionPlan goes on with the next entry.
Record(p, r) ==
    /\ res' = [res EXCEPT ![p][at[p]] = r]
    /\ at' = [at EXCEPT ![p] = NextEntry(@)]
    /\ pc' = [pc EXCEPT ![p] = IF at[p] = Len(Entries) THEN "jobs" ELSE "check"]

Error == [Unset EXCEPT !.state = "error"]

\* Only a clone is removed when it fails.
CleansUp(p) == fresh[p]

GiveUp(p) ==
    IF CleansUp(p)
    THEN pc' = [pc EXCEPT ![p] = "cleanup"] /\ UNCHANGED <<at, res>>
    ELSE Record(p, Error)

\* A git command that leaves the checkout as new, if ok; any command may fail.
Git(p, step, next, ok, new) ==
    /\ pc[p] = step
    /\ \/ /\ ok /\ co' = [co EXCEPT ![Path(p)] = new]
          /\ pc' = [pc EXCEPT ![p] = next]
          /\ UNCHANGED <<at, res, faults, blamed>>
       \/ ~ok /\ GiveUp(p) /\ UNCHANGED <<co, faults, blamed>>
       \/ /\ Fault /\ GiveUp(p) /\ UNCHANGED co
          /\ blamed' = [blamed EXCEPT ![p] = @ \cup {at[p]}]
    /\ UNCHANGED <<up, fresh, runs, from>>

\* Mutant: only the directory is looked for.
HasGit(c) == c.git
\* checkoutUsable.
Usable(c) == c.git /\ c.origin

\* A failing git remote get-url makes the checkout unusable.
Check(p) ==
    /\ pc[p] = "check"
    /\ \/ Usable(CO(p)) /\ UNCHANGED <<faults, blamed>>
          /\ pc' = [pc EXCEPT ![p] = "fetch"] /\ fresh' = [fresh EXCEPT ![p] = FALSE]
       \/ /\ ~Usable(CO(p)) /\ UNCHANGED <<faults, blamed, fresh>>
          /\ pc' = [pc EXCEPT ![p] = "remove"]
       \/ /\ Fault /\ CO(p).git /\ UNCHANGED fresh
          /\ pc' = [pc EXCEPT ![p] = "remove"]
          /\ blamed' = [blamed EXCEPT ![p] = @ \cup {at[p]}]
    /\ UNCHANGED <<up, co, at, res, runs, from>>

\* A removal that fails leaves the checkout as it was.
Remove(p) ==
    /\ pc[p] = "remove"
    /\ \/ /\ pc' = [pc EXCEPT ![p] = IF Pin(p) = 0 THEN "clone" ELSE "init"]
          /\ co' = [co EXCEPT ![Path(p)] = Absent] /\ fresh' = [fresh EXCEPT ![p] = TRUE]
          /\ UNCHANGED <<at, res, faults, blamed>>
       \/ /\ Fault /\ Record(p, Error) /\ UNCHANGED <<co, fresh>>
          /\ blamed' = [blamed EXCEPT ![p] = @ \cup {at[p]}]
    /\ UNCHANGED <<up, runs, from>>

\* git clone refuses a directory that is not empty; its data comes later.
Clone(p) == Git(p, "clone", "cloneData", ~CO(p).git,
                [Absent EXCEPT !.git = TRUE, !.origin = TRUE])
CloneData(p) == Git(p, "cloneData", "checkout", CO(p).git,
                    [CO(p) EXCEPT !.head = up[0], !.tree = up[0]])

InitRepo(p) == Git(p, "init", "origin", TRUE, [CO(p) EXCEPT !.git = TRUE])
AddOrigin(p) == Git(p, "origin", "fetch", CO(p).git /\ ~CO(p).origin,
                    [CO(p) EXCEPT !.origin = TRUE])

\* What the remote repository has for a pin: a commit if it is on some ref.
Offers(remote, k) ==
    IF k \in Moving THEN remote[k]
    ELSE IF \E r \in Moving : k <= remote[r] THEN k ELSE 0

\* fetchAndPinCheckout, refreshCheckout.  The remote refuses what it lacks.
Fetch(p) ==
    LET c == Offers(up, Pin(p)) IN
    Git(p, "fetch", "checkout", CO(p).git /\ CO(p).origin /\ c # 0,
        [CO(p) EXCEPT !.fetched = c])

\* Mutant: what is checked out stays.
OldHead(p) == CO(p).head
\* The ref that pinCheckout is given: HEAD after a clone, else FETCH_HEAD.
Ref(p) == IF fresh[p] /\ Pin(p) = 0 THEN CO(p).head ELSE CO(p).fetched

\* git checkout --detach --force and git reset --hard both move HEAD and the
\* tracked files; files that HEAD does not have are left to git clean -fdx.
Move(p, step, next) == Git(p, step, next, CO(p).git /\ Ref(p) # 0 /\ ~CO(p).lock,
                           [CO(p) EXCEPT !.head = Ref(p), !.tree = Ref(p)])
Checkout(p) == Move(p, "checkout", "reset")
Reset(p) == Move(p, "reset", "clean")
Clean(p) == Git(p, "clean", "resolve", CO(p).git, [CO(p) EXCEPT !.litter = FALSE])

\* resolveCheckoutCommit, and the comparison with the pinned commit.
Resolves(p) == CO(p).head # 0 /\ (Pin(p) \in Commit => CO(p).head = Pin(p))

Resolve(p) ==
    /\ pc[p] = "resolve" /\ UNCHANGED <<co, up, fresh, runs, from>>
    /\ \/ Resolves(p) /\ Record(p, [state |-> "ready", commit |-> CO(p).head, seen |-> 0])
          /\ UNCHANGED <<faults, blamed>>
       \/ ~Resolves(p) /\ GiveUp(p) /\ UNCHANGED <<faults, blamed>>
       \/ Fault /\ GiveUp(p) /\ blamed' = [blamed EXCEPT ![p] = @ \cup {at[p]}]

Cleanup(p) ==
    /\ pc[p] = "cleanup" /\ Record(p, Error)
    /\ \/ co' = [co EXCEPT ![Path(p)] = Absent] /\ UNCHANGED <<faults, blamed>>
       \/ /\ Fault /\ UNCHANGED co
          /\ blamed' = [blamed EXCEPT ![p] = @ \cup {at[p]}]
    /\ UNCHANGED <<up, fresh, runs, from>>

-----------------------------------------------------------------------------
(* executeDashboardAnalysisPlan. *)

Running(p) == {i \in Entry : res[p][i].state = "running"}
\* Mutant: a worker ends with its first job.
Once(p) == Workers > Cardinality({i \in Entry : res[p][i].state \in {"running", "done"}})
\* A worker waits at the unbuffered channel.
WorkerFree(p) == Cardinality(Running(p)) < Workers

\* The jobs are handed out in order; a worker starts to read the checkout.
Dispatch(p, i) ==
    /\ pc[p] = "jobs" /\ res[p][i].state = "ready" /\ WorkerFree(p)
    /\ \A j \in Entry : j < i => res[p][j].state # "ready"
    /\ res' = [res EXCEPT ![p][i].state = IF View(co[PathOf(i)]) = 0 THEN "error" ELSE "running",
                          ![p][i].seen = View(co[PathOf(i)])]
    /\ UNCHANGED <<up, co, pc, at, fresh, runs, faults, from, blamed>>

\* What was read is one commit only if the tree stayed the same.
Analysed(p, i) ==
    /\ pc[p] = "jobs" /\ i \in Running(p)
    /\ \/ /\ res' = [res EXCEPT ![p][i].state = "done",
                     ![p][i].seen = IF View(co[PathOf(i)]) = @ THEN @ ELSE Mixed]
          /\ UNCHANGED <<faults, blamed>>
       \/ /\ Fault /\ res' = [res EXCEPT ![p][i] = Error]
          /\ blamed' = [blamed EXCEPT ![p] = @ \cup {i}]
    /\ UNCHANGED <<up, co, pc, at, fresh, runs, from>>

\* waitGroup.Wait returns: every job is handed out and every worker has ended.
Return(p) ==
    /\ pc[p] = "jobs" /\ \A i \in Entry : res[p][i].state \in {"done", "error"}
    /\ pc' = [pc EXCEPT ![p] = "idle"]
    /\ UNCHANGED <<up, co, at, fresh, res, runs, faults, from, blamed>>

-----------------------------------------------------------------------------
(* The environment. *)

Push == /\ \E r \in Moving, c \in Commit : c > up[r] /\ up' = [up EXCEPT ![r] = c]
        /\ UNCHANGED <<co, pc, at, fresh, res, runs, faults, from, blamed>>

\* lopper and its git command are killed; git may leave a tree half way, files
\* of the other commit that it no longer tracks, and its index.lock.
Crash(p) ==
    /\ Fault /\ pc[p] # "idle"
    /\ pc' = [pc EXCEPT ![p] = "idle"]
    /\ res' = [res EXCEPT ![p] = [i \in Entry |-> Unset]]
    /\ IF pc[p] \in {"checkout", "reset"} /\ CO(p).git
       THEN \E locked, litter \in BOOLEAN :
                co' = [co EXCEPT ![Path(p)] = [CO(p) EXCEPT !.tree = Mixed,
                                                 !.lock = locked, !.litter = @ \/ litter]]
       ELSE UNCHANGED co
    /\ UNCHANGED <<up, at, fresh, runs, from, blamed>>

Step(p) ==
    \/ Check(p) \/ Remove(p) \/ Clone(p) \/ CloneData(p) \/ InitRepo(p) \/ AddOrigin(p)
    \/ Fetch(p) \/ Checkout(p) \/ Reset(p) \/ Clean(p) \/ Resolve(p) \/ Cleanup(p) \/ Return(p)
    \/ \E i \in Entry : Dispatch(p, i) \/ Analysed(p, i)

Next == Push \/ \E p \in Proc : Start(p) \/ Step(p) \/ Crash(p)

Spec == Init /\ [][Next]_vars
\* git commands and analyses end; the scheduler runs every goroutine.
FairSpec == Spec /\ \A p \in Proc : WF_vars(Step(p))

-----------------------------------------------------------------------------
(* Properties. *)

\* The commit in the report is the one that was analysed.
AnalysedIsResolved ==
    \A p \in Proc, i \in Entry : res[p][i].state = "done" => res[p][i].seen = res[p][i].commit

\* The requested revision is honoured, even if a run died in the middle of an
\* earlier checkout: a pinned entry is analysed at its commit, and one that
\* follows HEAD, a branch or a tag no earlier than at the commit which that had
\* when the run started.  (Two processes that share a cache directory are not excluded from
\* each other and can break this.)
RevisionHonoured ==
    \A p \in Proc, i \in Entry : res[p][i].state = "done" =>
        IF Entries[i] \in Commit THEN res[p][i].seen = Entries[i]
                                 ELSE res[p][i].commit >= from[p][Entries[i]]

\* What an interrupted or failed run left in the cache does not fail the next
\* one, unless git's own lock is left in it.  (A commit, branch or tag that the
\* remote did not have when the run started is no fault of the cache.)
Heals ==
    \A p \in Proc, i \in Entry :
        res[p][i].state = "error" =>
            i \in blamed[p] \/ co[PathOf(i)].lock \/ Offers(from[p], Entries[i]) = 0

\* A run ends, with a result for every entry.
RunEnds == \A p \in Proc : pc[p] # "idle" ~> pc[p] = "idle"
=============================================================================
