---------------------------- MODULE CodemodApply -----------------------------
(***************************************************************************)
(* lopper analyse --apply-codemod (internal/app/codemod_apply.go).  A run  *)
(* checks that the worktree is clean, analyses the sources, prepares the   *)
(* new content of every file with suggestions, writes one rollback artifact *)
(* and then replaces the files one by one.  Editors and other runs change  *)
(* the files meanwhile; a run can fail or die at every step.               *)
(***************************************************************************)
EXTENDS Naturals, Sequences, SequencesExt, FiniteSets

CONSTANTS
    Run,         \* lopper processes, each for one dependency
    User,        \* the author of every other change
    NFiles,      \* source files, in the order the code sorts them
    Line,        \* line texts
    Target,      \* lines that import the dependency of each run
    Unsafe,      \* lines that import it in a way the codemod leaves alone
    Deleted,     \* targeted lines that the codemod deletes
    Rewrite,     \* replacement of the other targeted lines
    Committed,        \* committed content of every file
    Contents,    \* what an editor may write
    NoFile,      \* a file that does not exist
    AllowDirty,  \* runs started with --allow-dirty
    MaxEdits, MaxFaults  \* bounds

File == 1..NFiles

ASSUME ConstantsAssumption ==
    /\ NFiles \in Nat \ {0} /\ MaxEdits \in Nat /\ MaxFaults \in Nat
    /\ User \notin Run /\ AllowDirty \subseteq Run
    /\ Target \in [Run -> SUBSET Line] /\ Unsafe \in [Run -> SUBSET Line]
    /\ Deleted \subseteq Line
    /\ Rewrite \in [Line -> Line]
    /\ Contents \subseteq Seq(Line) /\ Committed \in [File -> Contents]
    /\ NoFile \notin Seq(Line)

VARIABLES
    disk,      \* content of every file
    owner,     \* who put the file there: its identity for os.SameFile
    pc, at,    \* control of each run, and the file it works on
    plan,      \* suggestions of each run: line number and original text
    skips,     \* files in which the analysis of each run skipped an import
    prep,      \* preparedCodemodFile of each file: content read and new content
    results,   \* results of each file in the report of each run
    artifact,  \* the rollback artifact of each run: the contents it keeps
    before,    \* ghost: the contents each run replaced
    mixed,     \* ghost: files others changed between a run's start and its commit
    raced,     \* ghost: files others changed between a run's read and its commit
    swapped,   \* ghost: files others changed between a run's commit and its check
    late,      \* ghost: files replaced by a call that then failed
    edits, faults

ghosts == <<mixed, raced, swapped, late>>
vars == <<disk, owner, pc, at, plan, skips, prep, results, artifact, before, ghosts,
          edits, faults>>

Content == Contents \cup {NoFile}
Ended == {"refused", "aborted", "done", "crashed"}
Unprepared == [ready |-> FALSE, original |-> NoFile, updated |-> NoFile]
Nothing == [kept |-> FALSE, content |-> NoFile]
Kept(c) == [kept |-> TRUE, content |-> c]
PCs == {"idle", "analyse", "prepare", "artifact", "apply", "verify"} \cup Ended

TypeOK ==
    /\ \A f \in File : disk[f] \in Seq(Line) \cup {NoFile}
    /\ owner \in [File -> Run \cup {User}]
    /\ pc \in [Run -> PCs] /\ at \in [Run -> 1..NFiles + 1]
    /\ \A r \in Run, f \in File :
        /\ \A s \in plan[r][f] : s.line \in Nat \ {0} /\ s.original \in Target[r]
        /\ prep[r][f].ready =>
            prep[r][f].original \in Seq(Line) /\ prep[r][f].updated \in Seq(Line)
        /\ artifact[r][f].kept \in BOOLEAN /\ before[r][f].kept \in BOOLEAN
        /\ results[r][f] \subseteq {"skipped", "applied", "failed"}
    /\ mixed \in [Run -> SUBSET File] /\ raced \in [Run -> SUBSET File]
    /\ swapped \in [Run -> SUBSET File] /\ late \in [Run -> SUBSET File]
    /\ skips \in [Run -> SUBSET File]
    /\ edits \in 0..MaxEdits /\ faults \in 0..MaxFaults

Init ==
    /\ disk \in {Committed} \cup {[Committed EXCEPT ![f] = c] : f \in File, c \in Contents}
    /\ owner = [f \in File |-> User]
    /\ pc = [r \in Run |-> "idle"] /\ at = [r \in Run |-> 1]
    /\ plan = [r \in Run |-> [f \in File |-> {}]] /\ skips = [r \in Run |-> {}]
    /\ prep = [r \in Run |-> [f \in File |-> Unprepared]]
    /\ results = [r \in Run |-> [f \in File |-> {}]]
    /\ artifact = [r \in Run |-> [f \in File |-> Nothing]]
    /\ before = [r \in Run |-> [f \in File |-> Nothing]]
    /\ mixed = [r \in Run |-> {}] /\ raced = [r \in Run |-> {}]
    /\ swapped = [r \in Run |-> {}] /\ late = [r \in Run |-> {}]
    /\ edits = 0 /\ faults = 0

Goto(r, from, to) == pc[r] = from /\ pc' = [pc EXCEPT ![r] = to]
Fault == faults < MaxFaults /\ faults' = faults + 1

\* f changed under the runs other than w: those that have started are mixed
\* with the change, those that have read f are about to overwrite it, and those
\* that have just replaced f have yet to check that it is theirs.
Note(f, w) ==
    LET open(r) == r # w /\ ~before[r][f].kept
    IN /\ mixed' = [r \in Run |-> IF open(r) /\ pc[r] # "idle"
                                  THEN mixed[r] \cup {f} ELSE mixed[r]]
       /\ raced' = [r \in Run |-> IF open(r) /\ prep[r][f].ready
                                  THEN raced[r] \cup {f} ELSE raced[r]]
       /\ swapped' = [r \in Run |-> IF r # w /\ pc[r] = "verify" /\ at[r] = f
                                    THEN swapped[r] \cup {f} ELSE swapped[r]]

-----------------------------------------------------------------------------
(* applySuggestionsToContent. *)

\* The suggestions of the analysis of run r for content c.
Suggestions(r, c) ==
    IF c = NoFile THEN {}
    ELSE {[line |-> i, original |-> c[i]] : i \in {j \in DOMAIN c : c[j] \in Target[r]}}

\* An import that the codemod does not touch is reported beside the suggestions.
Skipped(r, c) == c # NoFile /\ \E i \in DOMAIN c : c[i] \in Unsafe[r]

\* Mutant: the source is not compared with the suggestions.
AnySource(c, S) == c # NoFile /\ \A s \in S : s.line \in DOMAIN c
\* The file can be read and passes validateCodemodSuggestions.
Valid(c, S) == c # NoFile /\ \A s \in S : s.line \in DOMAIN c /\ c[s.line] = s.original

Apply1(c, s) ==
    IF s.original \in Deleted THEN RemoveAt(c, s.line)
    ELSE [c EXCEPT ![s.line] = Rewrite[s.original]]

\* Mutant: from the first line to the last.
Ascending(T) == CHOOSE s \in T : \A t \in T : t.line <= s.line
\* The suggestion of T handled last.  The lines are sorted in descending order:
\* a deletion moves no line that is still due.
HandledLast(T) == CHOOSE s \in T : \A t \in T : s.line <= t.line

\* edit[T] is the content once the suggestions of T have been handled.
Updated(c, S) ==
    LET edit[T \in SUBSET S] ==
            IF T = {} THEN c ELSE Apply1(edit[T \ {HandledLast(T)}], HandledLast(T))
    IN edit[S]

-----------------------------------------------------------------------------
(* The run. *)

\* Mutant: the worktree is not checked.
AdmitAll(r) == TRUE
\* ensureCleanWorktreeForCodemod.
Admitted(r) == r \in AllowDirty \/ disk = Committed

Start(r) ==
    /\ Goto(r, "idle", IF Admitted(r) THEN "analyse" ELSE "refused")
    /\ UNCHANGED <<disk, owner, at, plan, skips, prep, results, artifact, before,
                   ghosts, edits, faults>>

Analyse(r) ==
    /\ Goto(r, "analyse", "prepare")
    /\ plan' = [plan EXCEPT ![r] = [f \in File |-> Suggestions(r, disk[f])]]
    /\ skips' = [skips EXCEPT ![r] = {f \in File : Skipped(r, disk[f])}]
    /\ UNCHANGED <<disk, owner, at, prep, results, artifact, before, ghosts, edits,
                   faults>>

Busy(r) == at[r] <= NFiles
Advance(r) == at' = [at EXCEPT ![r] = @ + 1]
Mark(r, f, s) == results' = [results EXCEPT ![r][f] = @ \cup {s}]

\* One round of the loop of prepareCodemodFiles.
Prepare(r) ==
    /\ pc[r] = "prepare" /\ Busy(r) /\ Advance(r)
    /\ LET f == at[r]
           S == plan[r][f]
       IN \/ S = {} /\ UNCHANGED <<prep, results>>
          \/ /\ S # {} /\ Valid(disk[f], S)
             /\ prep' = [prep EXCEPT ![r][f] =
                    [ready |-> TRUE, original |-> disk[f], updated |-> Updated(disk[f], S)]]
             /\ UNCHANGED results
          \/ /\ S # {} /\ ~Valid(disk[f], S)
             /\ Mark(r, f, "failed") /\ UNCHANGED prep
    /\ UNCHANGED <<disk, owner, pc, plan, skips, artifact, before, ghosts, edits, faults>>

\* Reading or inspecting the file fails.
FailRead(r) ==
    /\ Fault /\ pc[r] = "prepare" /\ Busy(r) /\ Advance(r)
    /\ plan[r][at[r]] # {} /\ Mark(r, at[r], "failed")
    /\ UNCHANGED <<disk, owner, pc, plan, skips, prep, artifact, before, ghosts, edits>>

\* buildCodemodSkipResults adds its results to those of the preparation.
Prepared(r) ==
    /\ ~Busy(r)
    /\ Goto(r, "prepare", IF \A f \in File : ~prep[r][f].ready THEN "done" ELSE "artifact")
    /\ at' = [at EXCEPT ![r] = 1]
    /\ results' = [results EXCEPT ![r] =
            [f \in File |-> IF f \in skips[r] THEN @[f] \cup {"skipped"} ELSE @[f]]]
    /\ UNCHANGED <<disk, owner, plan, skips, prep, artifact, before, ghosts, edits,
                   faults>>

\* Mutant: the failures of the preparation are dropped.
Forget(old) == [f \in File |-> old[f] \ {"failed"}]
\* applyPreparedCodemodFiles appends to the failures it is given.
Carried(old) == old

WriteArtifact(r) ==
    /\ Goto(r, "artifact", "apply")
    /\ artifact' = [artifact EXCEPT ![r] =
            [f \in File |-> IF prep[r][f].ready THEN Kept(prep[r][f].original) ELSE Nothing]]
    /\ results' = [results EXCEPT ![r] = Carried(@)]
    /\ UNCHANGED <<disk, owner, at, plan, skips, prep, before, ghosts, edits, faults>>

\* Mutant: the run goes on without a rollback artifact.
Continue == "apply"
AfterArtifactError == "aborted"

\* The results gathered so far are dropped with the run.
FailArtifact(r) ==
    /\ Fault /\ Goto(r, "artifact", AfterArtifactError)
    /\ results' = [results EXCEPT ![r] = [f \in File |-> {}]]
    /\ UNCHANGED <<disk, owner, at, plan, skips, prep, artifact, before, ghosts, edits>>

Skip(r) ==
    /\ pc[r] = "apply" /\ Busy(r) /\ Advance(r) /\ ~prep[r][at[r]].ready
    /\ UNCHANGED <<disk, owner, pc, plan, skips, prep, results, artifact, before,
                   ghosts, edits, faults>>

\* The rename of safeio.WriteFileUnder; a file deleted meanwhile comes back.
Commit(r) ==
    /\ Busy(r) /\ prep[r][at[r]].ready
    /\ Goto(r, "apply", "verify")
    /\ LET f == at[r]
       IN /\ disk' = [disk EXCEPT ![f] = prep[r][f].updated]
          /\ owner' = [owner EXCEPT ![f] = r]
          /\ before' = [before EXCEPT ![r][f] = Kept(disk[f])]
          /\ Note(f, r)
    /\ UNCHANGED <<at, plan, skips, prep, results, artifact, late, edits, faults>>

FailCommit(r) ==
    /\ Fault /\ pc[r] = "apply" /\ Busy(r) /\ prep[r][at[r]].ready
    /\ Advance(r) /\ Mark(r, at[r], "failed")
    /\ UNCHANGED <<disk, owner, pc, plan, skips, prep, artifact, before, ghosts, edits>>

\* verifyCommittedTarget: the path still holds the file that was renamed.
Outcome(r, f) == IF owner[f] = r THEN "applied" ELSE "failed"

Verify(r) ==
    /\ Goto(r, "verify", "apply") /\ Advance(r)
    /\ Mark(r, at[r], Outcome(r, at[r]))
    /\ UNCHANGED <<disk, owner, plan, skips, prep, artifact, before, ghosts, edits,
                   faults>>

\* The file has been replaced, but inspecting the path fails, or closing the old
\* file or the root does.
FailVerify(r) ==
    /\ Fault /\ Goto(r, "verify", "apply") /\ Advance(r)
    /\ Mark(r, at[r], "failed")
    /\ late' = [late EXCEPT ![r] = @ \cup {at[r]}]
    /\ UNCHANGED <<disk, owner, plan, skips, prep, artifact, before, mixed, raced,
                   swapped, edits>>

Finish(r) ==
    /\ ~Busy(r) /\ Goto(r, "apply", "done")
    /\ UNCHANGED <<disk, owner, at, plan, skips, prep, results, artifact, before,
                   ghosts, edits, faults>>

-----------------------------------------------------------------------------
(* The environment. *)

Crash(r) ==
    /\ Fault /\ pc[r] \notin Ended \cup {"idle"}
    /\ pc' = [pc EXCEPT ![r] = "crashed"]
    /\ UNCHANGED <<disk, owner, at, plan, skips, prep, results, artifact, before,
                   ghosts, edits>>

\* An editor writes or deletes a file, in place or by replacing it.
Edit(f, c) ==
    /\ edits < MaxEdits /\ edits' = edits + 1
    /\ c # disk[f] /\ disk' = [disk EXCEPT ![f] = c]
    /\ \/ c # NoFile /\ disk[f] # NoFile /\ UNCHANGED owner
       \/ owner' = [owner EXCEPT ![f] = User]
    /\ Note(f, User)
    /\ UNCHANGED <<pc, at, plan, skips, prep, results, artifact, before, late, faults>>

Next ==
    \/ \E r \in Run :
        \/ Start(r) \/ Analyse(r) \/ Prepare(r) \/ FailRead(r) \/ Prepared(r)
        \/ WriteArtifact(r) \/ FailArtifact(r) \/ Skip(r) \/ Commit(r) \/ FailCommit(r)
        \/ Verify(r) \/ FailVerify(r) \/ Finish(r) \/ Crash(r)
    \/ \E f \in File, c \in Content : Edit(f, c)

Spec == Init /\ [][Next]_vars

-----------------------------------------------------------------------------
(* Properties. *)

\* u is what the suggestions S ask for in c, all lines at once: the lines that
\* are not deleted, in their order (from[n] is the place of line n in c), the
\* targeted ones rewritten and the others as they were.
Wanted(u, c, S) ==
    LET due(i) == \E s \in S : s.line = i
    IN \E from \in [DOMAIN u -> DOMAIN c] :
        /\ \A m, n \in DOMAIN u : m < n => from[m] < from[n]
        /\ \A i \in DOMAIN c :
            (\E n \in DOMAIN u : from[n] = i) <=> ~due(i) \/ c[i] \notin Deleted
        /\ \A n \in DOMAIN u :
            u[n] = IF due(from[n]) THEN Rewrite[c[from[n]]] ELSE c[from[n]]

\* Applying the suggestions one by one touches the lines they name and no other.
ExactEdit ==
    \A r \in Run, f \in File : prep[r][f].ready =>
        Wanted(prep[r][f].updated, prep[r][f].original, plan[r][f])

\* Every file a run replaced, also one that died or failed later, can be taken
\* back: the artifact is on disk and holds what the run replaced, unless
\* somebody wrote the file after the run had read it.
Recoverable ==
    \A r \in Run, f \in File : before[r][f].kept =>
        /\ artifact[r][f].kept
        /\ f \notin raced[r] => artifact[r][f] = before[r][f]

\* A run replaces no file whose targeted lines differ from what the analysis
\* saw, unless they changed after the run had read the file.
NoStaleEdit ==
    \A r \in Run, f \in File : before[r][f].kept /\ f \notin raced[r] =>
        LET c == before[r][f].content
        IN \A s \in plan[r][f] : s.line \in DOMAIN c /\ c[s.line] = s.original

\* Without --allow-dirty the artifact holds the committed content, also when
\* two runs overlap, unless the file changed after the run had started.
CleanRollback ==
    \A r \in Run \ AllowDirty, f \in File :
        artifact[r][f].kept /\ f \notin mixed[r] => artifact[r][f].content = Committed[f]

\* Of every file with suggestions a finished run reports one of applied and
\* failed, and of no other file; an import it skipped is reported besides.  It
\* reports none as applied that it did not replace, and one it replaced as
\* failed only when somebody else changed the file in between, or when its own
\* call failed after the rename.
Accounted ==
    \A r \in Run : pc[r] = "done" => \A f \in File :
        /\ "skipped" \in results[r][f] <=> f \in skips[r]
        /\ results[r][f] \ {"skipped"} \in
              IF plan[r][f] = {} THEN {{}} ELSE {{"applied"}, {"failed"}}
        /\ "applied" \in results[r][f] => before[r][f].kept
        /\ "failed" \in results[r][f] /\ before[r][f].kept =>
              f \in swapped[r] \cup late[r]
=============================================================================
