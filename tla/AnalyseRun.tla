----------------------------- MODULE AnalyseRun -----------------------------
(***************************************************************************)
(* The stages of `lopper analyse` (internal/app/analyse_pipeline.go): the  *)
(* check of the worktree, the analysis, the comparison with a baseline     *)
(* snapshot, the gates, the application of the suggested fixes and the     *)
(* save of a new snapshot.  Several runs work on one repository and one    *)
(* store of snapshots, each of whose accesses is that of BaselineStore;    *)
(* meanwhile the user edits the files and moves HEAD.                      *)
(***************************************************************************)
EXTENDS BaselineStore

CONSTANTS
    Requests,    \* the command lines that are given
    MaxRuns,     \* bound: commands started
    MaxEvents    \* bound: edits and moves of HEAD by the user, and deaths, failing
                 \* git calls and output errors outside of the store

ASSUME RunAssumption ==
    /\ Requests # {}
    /\ \A r \in Requests :
          /\ r.apply \in BOOLEAN /\ r.allowDirty \in BOOLEAN
          /\ r.save \in BOOLEAN
          /\ r.gate \in BOOLEAN /\ r.policy \in BOOLEAN  \* increase gate, the others
          /\ r.file \in BOOLEAN /\ r.store \in BOOLEAN   \* where baselines are
          /\ r.key \in Key \cup {NoKey} /\ r.label \in Key \cup {NoKey}
    /\ MaxRuns \in Nat /\ MaxEvents \in Nat /\ 2 * MaxRuns <= MaxOps

VARIABLES
    tree,    \* the repository: the commit HEAD is at and who edited its files
    stage,   \* where each command is
    req,     \* its request
    seen,    \* the tree its report describes
    compared,\* whether the report holds a comparison
    fixed,   \* whether it changed source files
    stored,  \* whether it asked the store to save its report
    outcome, \* what it ended with: its error, or "ok"
    told,    \* whether it printed its report, or failed to
    runs, events,
    raced,   \* ghost: commands during which somebody else changed the tree
    filed    \* ghost: report, request and race of each save

runVars == <<tree, stage, req, seen, compared, fixed, stored, outcome, told, runs, events, raced, filed>>
allVars == <<vars, runVars>>

\* A commit's baseline key is the commit.
Trees == [at : Key, edits : SUBSET {"user", "fix"}]
Stages == {"idle", "prepare", "analyse", "compare", "comparing", "gates", "codemod",
           "save", "saving", "deliver"}
Outcomes == {"none", "ok", "dirty", "error", "baseline", "gate", "codemod", "unsaved"}

RunTypeOK ==
    /\ TypeOK
    /\ tree \in Trees /\ seen \in [Proc -> Trees]
    /\ stage \in [Proc -> Stages] /\ outcome \in [Proc -> Outcomes]
    /\ req \in [Proc -> Requests]
    /\ compared \in [Proc -> BOOLEAN] /\ fixed \in [Proc -> BOOLEAN]
    /\ stored \in [Proc -> BOOLEAN] /\ told \in [Proc -> {"no", "yes", "failed"}]
    /\ runs \in 0..MaxRuns /\ events \in 0..MaxEvents
    /\ raced \in SUBSET Proc
    /\ filed \in [0..MaxOps -> [report : Trees, req : Requests, raced : BOOLEAN]]

NoFiling == [report |-> tree, req |-> CHOOSE r \in Requests : TRUE, raced |-> TRUE]

RunInit ==
    /\ Init
    /\ tree \in [at : {CHOOSE k \in Key : TRUE}, edits : {{}, {"user"}}]
    /\ stage = [p \in Proc |-> "idle"] /\ outcome = [p \in Proc |-> "none"]
    /\ req = [p \in Proc |-> CHOOSE r \in Requests : TRUE]
    /\ seen = [p \in Proc |-> tree]
    /\ compared = [p \in Proc |-> FALSE] /\ fixed = [p \in Proc |-> FALSE]
    /\ stored = [p \in Proc |-> FALSE]
    /\ told = [p \in Proc |-> "no"]
    /\ runs = 0 /\ events = 0 /\ raced = {}
    /\ filed = [o \in 0..MaxOps |-> NoFiling]

Event == events < MaxEvents /\ events' = events + 1

Enter(p, from, to) == stage[p] = from /\ stage' = [stage EXCEPT ![p] = to]

\* An error of the preparation or the analysis ends the command; one of a later
\* stage is carried to the delivery of the report.
Stop(p, to, why) ==
    /\ stage' = [stage EXCEPT ![p] = to]
    /\ outcome' = [outcome EXCEPT ![p] = why]

Start(p, r) ==
    /\ runs < MaxRuns /\ runs' = runs + 1
    /\ Enter(p, "idle", "prepare")
    /\ req' = [req EXCEPT ![p] = r]
    /\ compared' = [compared EXCEPT ![p] = FALSE]
    /\ fixed' = [fixed EXCEPT ![p] = FALSE]
    /\ stored' = [stored EXCEPT ![p] = FALSE]
    /\ outcome' = [outcome EXCEPT ![p] = "none"]
    /\ told' = [told EXCEPT ![p] = "no"]
    /\ raced' = raced \ {p}
    /\ UNCHANGED <<vars, tree, seen, events, filed>>

\* ensureCleanWorktreeForCodemod.
DirtyForCodemod(p) == req[p].apply /\ ~req[p].allowDirty /\ tree.edits # {}

Prepare(p) ==
    /\ stage[p] = "prepare"
    /\ IF DirtyForCodemod(p)
       THEN Stop(p, "idle", "dirty")
       ELSE Enter(p, "prepare", "analyse") /\ UNCHANGED outcome
    /\ UNCHANGED <<vars, tree, req, seen, compared, fixed, stored, told, runs, events, raced, filed>>

Analyse(p) ==
    /\ stage[p] = "analyse"
    /\ \/ Enter(p, "analyse", "compare") /\ seen' = [seen EXCEPT ![p] = tree] /\ UNCHANGED outcome
       \/ Stop(p, "idle", "error") /\ UNCHANGED seen
    /\ UNCHANGED <<vars, tree, req, compared, fixed, stored, told, runs, events, raced, filed>>

-----------------------------------------------------------------------------
(* The comparison and the gates. *)

\* The commit is read from HEAD whenever a key is needed.
BaselineKey(p) == IF req[p].key # NoKey THEN req[p].key ELSE tree.at

Compare(p) ==
    /\ req[p].store /\ ~req[p].file
    /\ Enter(p, "compare", "comparing")
    /\ Load(p, BaselineKey(p))
    /\ UNCHANGED <<tree, req, seen, compared, fixed, stored, outcome, told, runs, events, raced, filed>>

\* Git does not tell the commit, and no key is given.
NoCommit(p) == req[p].key = NoKey /\ Event

FailCompare(p) ==
    /\ req[p].store /\ ~req[p].file /\ NoCommit(p)
    /\ stage[p] = "compare" /\ Stop(p, "deliver", "baseline")
    /\ UNCHANGED <<vars, tree, req, seen, compared, fixed, stored, told, runs, raced, filed>>

\* A baseline file given by path takes precedence over the store; it may be
\* missing or not fit, also for a first save.
CompareFile(p) ==
    /\ req[p].file /\ stage[p] = "compare"
    /\ \/ Enter(p, "compare", "gates") /\ compared' = [compared EXCEPT ![p] = TRUE]
          /\ UNCHANGED outcome
       \/ Stop(p, "deliver", "baseline") /\ UNCHANGED compared
    /\ UNCHANGED <<vars, tree, req, seen, fixed, stored, told, runs, events, raced, filed>>

\* Without a file and a store there is nothing to compare with.
CompareNone(p) ==
    /\ ~req[p].file /\ ~req[p].store
    /\ Enter(p, "compare", "gates")
    /\ UNCHANGED <<vars, tree, req, seen, compared, fixed, stored, outcome, told, runs, events,
                   raced, filed>>

\* A first save needs no baseline to compare with.
Bootstraps(p) == req[p].save /\ res[p] = "missing"

\* A baseline without exports cannot be compared with.
Compared(p) ==
    /\ stage[p] = "comparing" /\ pc[p] = "idle"
    /\ \/ res[p] = "loaded" /\ Enter(p, "comparing", "gates") /\ UNCHANGED outcome
          /\ compared' = [compared EXCEPT ![p] = TRUE]
       \/ Bootstraps(p) /\ Enter(p, "comparing", "gates") /\ UNCHANGED <<compared, outcome>>
       \/ ~Bootstraps(p) /\ Stop(p, "deliver", "baseline") /\ UNCHANGED compared
    /\ UNCHANGED <<vars, tree, req, seen, fixed, stored, told, runs, events, raced, filed>>

\* The increase gate fails with ErrBaselineRequired; the others need none.
MayPass(p) == req[p].gate => compared[p]

\* Waste increase, uncertain imports, denied licenses, reachable vulnerabilities.
Gates(p) ==
    /\ stage[p] = "gates"
    /\ \/ MayPass(p) /\ Enter(p, "gates", "codemod") /\ UNCHANGED outcome
       \/ (req[p].gate \/ req[p].policy) /\ Stop(p, "deliver", "gate")
    /\ UNCHANGED <<vars, tree, req, seen, compared, fixed, stored, told, runs, events, raced, filed>>

-----------------------------------------------------------------------------
(* The fixes, the save and the delivery of the report. *)

\* There may be nothing to fix, all fixes may be applied, or some fail after
\* others were.
Codemod(p) ==
    /\ stage[p] = "codemod"
    /\ \E change \in IF req[p].apply THEN BOOLEAN ELSE {FALSE} :
          /\ IF change
             THEN /\ tree' = [tree EXCEPT !.edits = @ \cup {"fix"}]
                  /\ fixed' = [fixed EXCEPT ![p] = TRUE]
                  /\ raced' = raced \cup {q \in Proc \ {p} : stage[q] # "idle"}
             ELSE UNCHANGED <<tree, fixed, raced>>
    /\ \/ Enter(p, "codemod", "save") /\ UNCHANGED outcome
       \/ req[p].apply /\ Stop(p, "deliver", "codemod")
    /\ UNCHANGED <<vars, req, seen, compared, stored, told, runs, events, filed>>

SaveKey(p) == IF req[p].label # NoKey THEN req[p].label ELSE BaselineKey(p)

\* Mutant: the tree is read when the snapshot is built.
CurrentReport(p) == tree
\* The snapshot holds the report of the analysis, whatever changed since.
SavedReport(p) == seen[p]

SaveBaseline(p) ==
    /\ req[p].save /\ req[p].store
    /\ Enter(p, "save", "saving")
    /\ Save(p, SaveKey(p))
    /\ stored' = [stored EXCEPT ![p] = TRUE]
    /\ filed' = [filed EXCEPT ![ops + 1] =
                    [report |-> SavedReport(p), req |-> req[p], raced |-> p \in raced]]
    /\ UNCHANGED <<tree, req, seen, compared, fixed, outcome, told, runs, events, raced>>

NoSave(p) ==
    /\ stage[p] = "save" /\ ~req[p].save
    /\ Stop(p, "deliver", "ok")
    /\ UNCHANGED <<vars, tree, req, seen, compared, fixed, stored, told, runs, events, raced, filed>>

\* Without a store, or without a label, a key and a commit to save under.
CannotSave(p) ==
    /\ stage[p] = "save" /\ req[p].save
    /\ \/ ~req[p].store /\ UNCHANGED events
       \/ req[p].store /\ req[p].label = NoKey /\ NoCommit(p)
    /\ Stop(p, "deliver", "unsaved")
    /\ UNCHANGED <<vars, tree, req, seen, compared, fixed, stored, told, runs, raced, filed>>

\* Mutant: an existing snapshot is good enough.
Lenient(r) == IF r \in {"saved", "exists"} THEN "ok" ELSE "unsaved"
SaveOutcome(r) == IF r = "saved" THEN "ok" ELSE "unsaved"

Saved(p) ==
    /\ stage[p] = "saving" /\ pc[p] = "idle"
    /\ Stop(p, "deliver", SaveOutcome(res[p]))
    /\ UNCHANGED <<vars, tree, req, seen, compared, fixed, stored, told, runs, events, raced, filed>>

\* The report is printed after an error too.  When it cannot be formatted, an
\* earlier error stands; when its file cannot be written, that error replaces
\* the earlier one.
Deliver(p) ==
    /\ Enter(p, "deliver", "idle")
    /\ \/ told' = [told EXCEPT ![p] = "yes"] /\ UNCHANGED <<outcome, events>>
       \/ /\ Event /\ told' = [told EXCEPT ![p] = "failed"]
          /\ \/ outcome' = [outcome EXCEPT ![p] = IF @ = "ok" THEN "error" ELSE @]
             \/ outcome' = [outcome EXCEPT ![p] = "error"]
    /\ UNCHANGED <<vars, tree, req, seen, compared, fixed, stored, runs, raced, filed>>

-----------------------------------------------------------------------------
(* The store and the environment. *)

StoreStep ==
    /\ \/ \E p \in Proc :
          \/ CheckLegacy(p) \/ Create(p) \/ CreateExists(p) \/ Write(p) \/ FailWrite(p)
          \/ FailOpen(p) \/ Remove(p) \/ FailRemove(p) \/ Close(p) \/ FailClose(p)
          \/ Resolve(p) \/ Read(p) \/ Validate(p)
       \/ \E k \in Key : Wipe(k)
    /\ UNCHANGED runVars

\* The command dies, in a call of the store or outside of one.
Die(p) ==
    /\ stage[p] # "idle"
    /\ \/ Crash(p) /\ UNCHANGED events
       \/ pc[p] = "idle" /\ Event /\ UNCHANGED vars
    /\ stage' = [stage EXCEPT ![p] = "idle"]
    /\ outcome' = [outcome EXCEPT ![p] = "none"]
    /\ UNCHANGED <<tree, req, seen, compared, fixed, stored, told, runs, raced, filed>>

Running == {p \in Proc : stage[p] # "idle"}

\* The user edits a file, or commits or checks out another commit.
Edit ==
    /\ "user" \notin tree.edits /\ Event
    /\ tree' = [tree EXCEPT !.edits = @ \cup {"user"}]
    /\ raced' = raced \cup Running
    /\ UNCHANGED <<vars, stage, req, seen, compared, fixed, stored, outcome, told, runs, filed>>

MoveHead(c) ==
    /\ c # tree.at
    /\ Event
    /\ tree' \in {[at |-> c, edits |-> {}], [tree EXCEPT !.at = c]}
    /\ raced' = raced \cup Running
    /\ UNCHANGED <<vars, stage, req, seen, compared, fixed, stored, outcome, told, runs, filed>>

RunNext ==
    \/ \E p \in Proc :
        \/ \E r \in Requests : Start(p, r)
        \/ Prepare(p) \/ Analyse(p)
        \/ Compare(p) \/ FailCompare(p) \/ CompareFile(p) \/ CompareNone(p) \/ Compared(p)
        \/ Gates(p) \/ Codemod(p)
        \/ SaveBaseline(p) \/ NoSave(p) \/ CannotSave(p) \/ Saved(p)
        \/ Deliver(p) \/ Die(p)
    \/ StoreStep
    \/ Edit \/ \E c \in Key : MoveHead(c)

RunSpec == RunInit /\ [][RunNext]_allVars

-----------------------------------------------------------------------------
(* Properties. *)

\* A snapshot filed under the current commit is the report of that commit,
\* unless HEAD was moved while the command ran: the key is resolved after the
\* analysis and after the fixes.  A command that applies fixes to a clean tree
\* only never files the report of an edited tree, its own fixes included, and
\* a label takes precedence over key and commit.
SnapshotOfCommit ==
    \A k \in Key : saved[k] # 0 =>
        LET f == filed[saved[k]] IN
        /\ f.req.label # NoKey => k = f.req.label
        /\ f.req.label = NoKey /\ f.req.key # NoKey => k = f.req.key
        /\ ~f.raced =>
            /\ f.req.label = NoKey /\ f.req.key = NoKey => f.report.at = k
            /\ f.req.apply /\ ~f.req.allowDirty => f.report.edits = {}

\* What the outcome says of the files.  A command refused because of the
\* worktree, the baseline or a gate has changed no file and saved nothing; one
\* that succeeds passed its gates against a baseline, and its snapshot is in the
\* store; and one that fails after it changed files has printed the report that
\* lists them, unless printing it is what failed.
OutcomeTellsFiles ==
    \A p \in Proc : stage[p] = "idle" =>
        /\ outcome[p] \in {"dirty", "baseline", "gate"} => ~fixed[p] /\ ~stored[p]
        /\ outcome[p] = "ok" =>
              /\ req[p].gate => compared[p]
              /\ req[p].save => saved[key[p]] = op[p] \/ key[p] \in wiped
        /\ outcome[p] # "none" /\ fixed[p] => told[p] # "no"
=============================================================================
