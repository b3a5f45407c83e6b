------------------------- MODULE CodemodApply_proofs -------------------------
(***************************************************************************)
(* Proofs about CodemodApply, for any runs, files, suggestions and         *)
(* contents: what a run replaced can be restored, it replaced no file      *)
(* whose targeted lines it did not see, it edited the lines it was asked   *)
(* to and no other, and it reports what it did.                            *)
(***************************************************************************)
EXTENDS CodemodApply, NaturalsInduction, SequenceTheorems, WellFoundedInduction, TLAPS

-----------------------------------------------------------------------------
(* The inductive invariant. *)

USE DEF ghosts

PerFile(v) == DOMAIN v = Run /\ \A r \in Run : DOMAIN v[r] = File

Domains ==
    /\ DOMAIN disk = File /\ owner \in [File -> Run \cup {User}]
    /\ pc \in [Run -> PCs] /\ at \in [Run -> 1..NFiles + 1]
    /\ PerFile(plan) /\ PerFile(prep) /\ PerFile(results)
    /\ PerFile(artifact) /\ PerFile(before)
    /\ mixed \in [Run -> SUBSET File] /\ raced \in [Run -> SUBSET File]
    /\ swapped \in [Run -> SUBSET File] /\ late \in [Run -> SUBSET File]
    /\ skips \in [Run -> SUBSET File]

\* Nothing of f is kept, and nothing is replaced.
Untouched(r, f) == ~artifact[r][f].kept /\ ~before[r][f].kept
\* Results other than a skip.
Verdict(r, f) == results[r][f] \ {"skipped"}
Unread(r, f) == ~prep[r][f].ready /\ Verdict(r, f) = {}

\* The preparation has decided about f: no suggestions, prepared, or failed.
Decided(r, f) ==
    \/ plan[r][f] = {} /\ Unread(r, f)
    \/ plan[r][f] # {} /\ prep[r][f].ready /\ Verdict(r, f) = {}
    \/ plan[r][f] # {} /\ ~prep[r][f].ready /\ Verdict(r, f) = {"failed"}

\* What Accounted says of one file, its skips aside.
Reported(r, f) ==
    /\ IF plan[r][f] = {} THEN Verdict(r, f) = {} ELSE Verdict(r, f) \in {{"applied"}, {"failed"}}
    /\ "applied" \in Verdict(r, f) => before[r][f].kept
    /\ "failed" \in Verdict(r, f) /\ before[r][f].kept => f \in swapped[r] \cup late[r]

\* The skips enter the results after the preparation.
SkipInv(r) ==
    /\ pc[r] \in {"idle", "refused", "analyse", "prepare"} =>
        \A f \in File : "skipped" \notin results[r][f]
    /\ pc[r] \in {"artifact", "apply", "verify", "done"} =>
        \A f \in File : "skipped" \in results[r][f] <=> f \in skips[r]

\* The loops over the files, by the place the run has reached.
ProgressInv(r) ==
    /\ pc[r] \in {"idle", "refused", "analyse"} =>
        at[r] = 1 /\ \A f \in File : Untouched(r, f) /\ Unread(r, f)
    /\ pc[r] = "prepare" => \A f \in File :
        /\ Untouched(r, f)
        /\ IF f < at[r] THEN Decided(r, f) ELSE Unread(r, f)
    /\ pc[r] = "artifact" =>
        at[r] = 1 /\ \A f \in File : Untouched(r, f) /\ Decided(r, f)
    /\ pc[r] \in {"apply", "verify"} => \A f \in File :
        /\ prep[r][f].ready => artifact[r][f].kept
        /\ IF f < at[r] THEN Reported(r, f) ELSE Decided(r, f)
        /\ f >= at[r] /\ (pc[r] = "verify" => f # at[r]) => ~before[r][f].kept
    /\ pc[r] = "verify" =>
        /\ Busy(r) /\ prep[r][at[r]].ready /\ before[r][at[r]].kept
        /\ at[r] \in swapped[r] \/ owner[at[r]] = r
    /\ pc[r] = "done" => \A f \in File : Reported(r, f)

\* What was read, kept and replaced agree, as long as nobody interfered.
ContentInv(r, f) ==
    /\ prep[r][f].ready => Valid(prep[r][f].original, plan[r][f])
    /\ prep[r][f].ready /\ ~before[r][f].kept /\ f \notin raced[r] =>
        disk[f] = prep[r][f].original
    /\ artifact[r][f].kept =>
        prep[r][f].ready /\ artifact[r][f] = Kept(prep[r][f].original)
    /\ before[r][f].kept => artifact[r][f].kept
    /\ before[r][f].kept /\ f \notin raced[r] =>
        before[r][f] = Kept(prep[r][f].original)

\* A run that was admitted to a clean worktree.
CleanInv(r, f) ==
    r \notin AllowDirty /\ pc[r] \notin {"idle", "refused"} /\ f \notin mixed[r] =>
        /\ ~before[r][f].kept => disk[f] = Committed[f]
        /\ prep[r][f].ready => prep[r][f].original = Committed[f]

RunInv(r) == ProgressInv(r) /\ SkipInv(r) /\ \A f \in File : ContentInv(r, f) /\ CleanInv(r, f)

IInv == Domains /\ \A r \in Run : RunInv(r)

LEMMA InitInv == Init => IInv
<1> SUFFICES ASSUME Init PROVE IInv
  OBVIOUS
<1> USE DEF Init
<1>1. Domains
  BY ConstantsAssumption DEF Domains, PerFile, File, PCs
<1>2. ASSUME NEW r \in Run PROVE RunInv(r)
  <2>1. ProgressInv(r) /\ SkipInv(r)
    BY DEF ProgressInv, SkipInv, Untouched, Unread, Verdict, Nothing, Unprepared
  <2>2. ASSUME NEW f \in File PROVE ContentInv(r, f) /\ CleanInv(r, f)
    BY DEF ContentInv, CleanInv, Nothing, Unprepared
  <2>. QED BY <2>1, <2>2 DEF RunInv
<1>. QED BY <1>1, <1>2 DEF IInv

-----------------------------------------------------------------------------
(* The runs that do not move. *)

Same(q) ==
    /\ pc'[q] = pc[q] /\ at'[q] = at[q] /\ plan'[q] = plan[q] /\ prep'[q] = prep[q]
    /\ results'[q] = results[q] /\ artifact'[q] = artifact[q] /\ before'[q] = before[q]
    /\ skips'[q] = skips[q] /\ late'[q] = late[q]

\* A step that changes no file leaves the other runs' invariants alone.
LEMMA QuietOthers ==
    ASSUME NEW q \in Run, RunInv(q), Same(q),
           UNCHANGED <<disk, owner, mixed, raced, swapped>>
    PROVE  RunInv(q)'
BY DEF RunInv, Same, ProgressInv, SkipInv, ContentInv, CleanInv, Untouched, Unread,
       Decided, Verdict, Reported, Busy

\* Nor does a change of a file that is noted.
LEMMA NoteFacts ==
    ASSUME Domains, NEW f \in File, NEW w, Note(f, w)
    PROVE  /\ mixed' \in [Run -> SUBSET File] /\ raced' \in [Run -> SUBSET File]
           /\ swapped' \in [Run -> SUBSET File]
           /\ \A q \in Run :
                /\ mixed[q] \subseteq mixed'[q] /\ raced[q] \subseteq raced'[q]
                /\ swapped[q] \subseteq swapped'[q]
                /\ q # w /\ ~before[q][f].kept /\ pc[q] # "idle" => f \in mixed'[q]
                /\ q # w /\ ~before[q][f].kept /\ prep[q][f].ready => f \in raced'[q]
                /\ q # w /\ pc[q] = "verify" /\ at[q] = f => f \in swapped'[q]
BY DEF Note, Domains

LEMMA NotedOthers ==
    ASSUME Domains, NEW f \in File, NEW w, Note(f, w), NEW q \in Run, q # w,
           RunInv(q), Same(q),
           \A g \in File \ {f} : disk'[g] = disk[g] /\ owner'[g] = owner[g]
    PROVE  RunInv(q)'
<1>1. /\ mixed[q] \subseteq mixed'[q] /\ raced[q] \subseteq raced'[q]
      /\ swapped[q] \subseteq swapped'[q]
      /\ ~before[q][f].kept /\ pc[q] # "idle" => f \in mixed'[q]
      /\ ~before[q][f].kept /\ prep[q][f].ready => f \in raced'[q]
      /\ pc[q] = "verify" /\ at[q] = f => f \in swapped'[q]
  BY NoteFacts
<1>2. ProgressInv(q)'
  <2>1. at[q] \in 1..NFiles + 1
    BY DEF Domains
  <2>2. ASSUME pc[q] = "verify" PROVE at[q] \in swapped'[q] \/ owner'[at[q]] = q
    BY <1>1, <2>1, <2>2, ConstantsAssumption DEF RunInv, ProgressInv, Busy, File
  <2>3. \A g \in File : Reported(q, g) => Reported(q, g)'
    BY <1>1 DEF Same, Reported, Verdict
  <2>. QED BY <2>2, <2>3 DEF RunInv, Same, ProgressInv, Untouched, Unread, Decided, Verdict,
       Busy
<1>3. ASSUME NEW g \in File PROVE ContentInv(q, g)'
  BY <1>1, <1>3 DEF RunInv, ContentInv, Same
<1>4. ASSUME NEW g \in File PROVE CleanInv(q, g)'
  BY <1>1, <1>4 DEF RunInv, CleanInv, Same
<1>5. SkipInv(q)'
  BY DEF RunInv, SkipInv, Same
<1>. QED BY <1>2, <1>3, <1>4, <1>5 DEF RunInv

-----------------------------------------------------------------------------
(* The run that moves. *)

\* A step of r alone: the others stay, and what is shared does not change.
LEMMA OwnStep ==
    ASSUME IInv, NEW r \in Run, Domains', RunInv(r)',
           \A q \in Run \ {r} : Same(q),
           UNCHANGED <<disk, owner, mixed, raced, swapped>>
    PROVE  IInv'
BY QuietOthers DEF IInv

LEMMA AtType == ASSUME Domains, NEW r \in Run PROVE at[r] \in 1..NFiles + 1 /\ NFiles \in Nat \ {0}
BY ConstantsAssumption DEF Domains

LEMMA StartStep == ASSUME IInv, NEW r \in Run, Start(r) PROVE IInv'
<1>. USE DEF Start, Goto
<1>1. Domains'
  BY DEF IInv, Domains, PerFile, PCs, Ended
<1>2. \A q \in Run \ {r} : Same(q)
  BY DEF Same
<1>3. pc[r] = "idle" /\ pc'[r] \in {"analyse", "refused"}
  BY DEF IInv, Domains
<1>4. ProgressInv(r)' /\ SkipInv(r)'
  BY <1>3 DEF IInv, RunInv, ProgressInv, SkipInv, Untouched, Unread, Verdict
<1>5. ASSUME NEW f \in File PROVE ContentInv(r, f)' /\ CleanInv(r, f)'
  <2>1. ContentInv(r, f)'
    BY DEF IInv, RunInv, ContentInv
  <2>2. ~prep[r][f].ready
    BY <1>3 DEF IInv, RunInv, ProgressInv, Unread
  <2>3. r \notin AllowDirty /\ pc'[r] # "refused" => disk = Committed
    BY DEF Admitted, IInv, Domains
  <2>4. CleanInv(r, f)'
    BY <2>2, <2>3 DEF CleanInv
  <2>. QED BY <2>1, <2>4
<1>. QED BY <1>1, <1>2, <1>4, <1>5, OwnStep DEF RunInv

LEMMA AnalyseStep == ASSUME IInv, NEW r \in Run, Analyse(r) PROVE IInv'
<1>. USE DEF Analyse, Goto
<1>1. Domains'
  BY DEF IInv, Domains, PerFile, PCs
<1>2. \A q \in Run \ {r} : Same(q)
  BY DEF Same, IInv, Domains, PerFile
<1>3. pc[r] = "analyse" /\ pc'[r] = "prepare"
  BY DEF IInv, Domains
<1>4. at[r] = 1 /\ \A f \in File : Untouched(r, f) /\ Unread(r, f)
  BY <1>3 DEF IInv, RunInv, ProgressInv
<1>5. ProgressInv(r)' /\ SkipInv(r)'
  BY <1>3, <1>4 DEF IInv, RunInv, ProgressInv, SkipInv, Untouched, Unread, Verdict, File
<1>6. ASSUME NEW f \in File PROVE ContentInv(r, f)' /\ CleanInv(r, f)'
  BY <1>3, <1>4 DEF IInv, RunInv, ContentInv, CleanInv, Untouched, Unread
<1>. QED BY <1>1, <1>2, <1>5, <1>6, OwnStep DEF RunInv

\* One round of the preparation: f is decided.
LEMMA RoundStep ==
    ASSUME IInv, NEW r \in Run, pc[r] = "prepare", NEW f \in File, f = at[r], Advance(r),
           UNCHANGED <<disk, owner, pc, plan, skips, artifact, before, ghosts>>,
           Domains', \A q \in Run \ {r} : Same(q),
           \A g \in File \ {f} : prep'[r][g] = prep[r][g] /\ results'[r][g] = results[r][g],
           Decided(r, f)', "skipped" \notin results'[r][f],
           prep'[r][f].ready => prep'[r][f].original = disk[f] /\ Valid(disk[f], plan[r][f])
    PROVE  IInv'
<1>1. at'[r] = f + 1 /\ f \in 1..NFiles
  BY DEF IInv, Domains, File, Advance
<1>2. \A g \in File : Untouched(r, g) /\ (IF g < f THEN Decided(r, g) ELSE Unread(r, g))
  BY DEF IInv, RunInv, ProgressInv
<1>3. ASSUME NEW g \in File PROVE IF g < f + 1 THEN Decided(r, g)' ELSE Unread(r, g)'
  <2>1. CASE g = f
    BY <1>1, <2>1
  <2>2. CASE g # f
    <3>1. Decided(r, g)' = Decided(r, g) /\ Unread(r, g)' = Unread(r, g)
      BY <2>2 DEF Decided, Unread, Verdict
    <3>2. (g < f + 1) = (g < f)
      BY <1>1, <2>2 DEF File
    <3>. QED BY <1>2, <3>1, <3>2
  <2>. QED BY <2>1, <2>2
<1>4. ProgressInv(r)' /\ SkipInv(r)'
  <2>1. ProgressInv(r)'
    BY <1>1, <1>2, <1>3 DEF ProgressInv, Untouched
  <2>2. SkipInv(r)'
    BY DEF IInv, RunInv, SkipInv
  <2>. QED BY <2>1, <2>2
<1>5. ASSUME NEW g \in File PROVE ContentInv(r, g)' /\ CleanInv(r, g)'
  <2>1. CASE g = f
    BY <1>2, <2>1 DEF IInv, RunInv, ContentInv, CleanInv, Untouched
  <2>2. CASE g # f
    BY <2>2 DEF IInv, RunInv, ContentInv, CleanInv
  <2>. QED BY <2>1, <2>2
<1>. QED BY <1>4, <1>5, OwnStep DEF RunInv

LEMMA RoundFacts ==
    ASSUME IInv, NEW r \in Run, pc[r] = "prepare", Busy(r), Advance(r)
    PROVE  /\ at[r] \in File /\ Unread(r, at[r]) /\ results[r][at[r]] = {}
           /\ at' \in [Run -> 1..NFiles + 1] /\ \A q \in Run \ {r} : at'[q] = at[q]
<1>1. at[r] \in File /\ at' \in [Run -> 1..NFiles + 1]
  BY AtType DEF IInv, Domains, Busy, File, Advance
<1>2. Unread(r, at[r])
  BY <1>1, AtType DEF IInv, RunInv, ProgressInv, File
<1>3. results[r][at[r]] = {}
  BY <1>1, <1>2 DEF IInv, RunInv, SkipInv, Unread, Verdict
<1>. QED BY <1>1, <1>2, <1>3 DEF IInv, Domains, Advance

LEMMA PrepareStep == ASSUME IInv, NEW r \in Run, Prepare(r) PROVE IInv'
<1>1. PICK f \in File : f = at[r]
  BY RoundFacts DEF Prepare
<1>2. /\ Unread(r, f) /\ results[r][f] = {}
      /\ at' \in [Run -> 1..NFiles + 1] /\ \A q \in Run \ {r} : at'[q] = at[q]
  BY <1>1, RoundFacts DEF Prepare
<1>3. Domains'
  BY <1>1, <1>2 DEF Prepare, Mark, IInv, Domains, PerFile
<1>4. \A q \in Run \ {r} : Same(q)
  BY <1>2 DEF Same, Prepare, Mark, IInv, Domains, PerFile
<1>5. /\ \A g \in File \ {f} : prep'[r][g] = prep[r][g] /\ results'[r][g] = results[r][g]
      /\ Decided(r, f)' /\ "skipped" \notin results'[r][f]
      /\ prep'[r][f].ready => prep'[r][f].original = disk[f] /\ Valid(disk[f], plan[r][f])
  <2>1. CASE plan[r][f] = {} /\ UNCHANGED <<prep, results>>
    BY <1>2, <2>1 DEF Prepare, Unread, Decided, Verdict
  <2>2. CASE /\ plan[r][f] # {} /\ Valid(disk[f], plan[r][f]) /\ UNCHANGED results
             /\ prep' = [prep EXCEPT ![r][f] =
                  [ready |-> TRUE, original |-> disk[f],
                   updated |-> Updated(disk[f], plan[r][f])]]
    <3>1. /\ prep'[r][f].ready /\ prep'[r][f].original = disk[f]
          /\ \A g \in File \ {f} : prep'[r][g] = prep[r][g]
      BY <2>2 DEF IInv, Domains, PerFile
    <3>. QED BY <1>2, <2>2, <3>1 DEF Prepare, Unread, Decided, Verdict
  <2>3. CASE plan[r][f] # {} /\ Mark(r, f, "failed") /\ UNCHANGED prep
    <3>1. /\ results'[r][f] = {"failed"}
          /\ \A g \in File \ {f} : results'[r][g] = results[r][g]
      BY <1>2, <2>3 DEF IInv, Domains, PerFile, Mark
    <3>. QED BY <1>2, <2>3, <3>1 DEF Prepare, Unread, Decided, Verdict
  <2>. QED BY <1>1, <2>1, <2>2, <2>3 DEF Prepare
<1>. QED BY <1>1, <1>3, <1>4, <1>5, RoundStep DEF Prepare

LEMMA FailReadStep == ASSUME IInv, NEW r \in Run, FailRead(r) PROVE IInv'
<1>1. PICK f \in File : f = at[r]
  BY RoundFacts DEF FailRead
<1>2. /\ Unread(r, f) /\ results[r][f] = {}
      /\ at' \in [Run -> 1..NFiles + 1] /\ \A q \in Run \ {r} : at'[q] = at[q]
  BY <1>1, RoundFacts DEF FailRead
<1>3. Domains'
  BY <1>1, <1>2 DEF FailRead, Mark, IInv, Domains, PerFile
<1>4. \A q \in Run \ {r} : Same(q)
  BY <1>2 DEF Same, FailRead, Mark, IInv, Domains, PerFile
<1>5. /\ results'[r][f] = {"failed"}
      /\ \A g \in File \ {f} : results'[r][g] = results[r][g]
  BY <1>1, <1>2 DEF FailRead, IInv, Domains, PerFile, Mark
<1>6. Decided(r, f)' /\ ~prep'[r][f].ready
  BY <1>1, <1>2, <1>5 DEF FailRead, Unread, Decided, Verdict
<1>. QED BY <1>1, <1>3, <1>4, <1>5, <1>6, RoundStep DEF FailRead

LEMMA PreparedStep == ASSUME IInv, NEW r \in Run, Prepared(r) PROVE IInv'
<1>. USE DEF Prepared, Goto
<1>0. /\ PerFile(results)' /\ \A q \in Run \ {r} : results'[q] = results[q]
      /\ \A f \in File : results'[r][f] =
            IF f \in skips[r] THEN results[r][f] \cup {"skipped"} ELSE results[r][f]
  BY DEF IInv, Domains, PerFile
<1>1. Domains'
  BY <1>0, AtType DEF IInv, Domains, PerFile, PCs, Ended
<1>2. \A q \in Run \ {r} : Same(q)
  BY <1>0 DEF Same, IInv, Domains
<1>3. /\ pc[r] = "prepare" /\ at'[r] = 1
      /\ IF \A f \in File : ~prep[r][f].ready THEN pc'[r] = "done" ELSE pc'[r] = "artifact"
  BY DEF IInv, Domains
<1>4. \A f \in File : Untouched(r, f) /\ Decided(r, f)
  BY <1>3, AtType DEF IInv, RunInv, ProgressInv, Busy, File
<1>5. ProgressInv(r)' /\ SkipInv(r)'
  <2>1. \A f \in File : Verdict(r, f)' = Verdict(r, f)
    BY <1>0 DEF Verdict
  <2>2. ASSUME NEW f \in File
        PROVE  /\ Untouched(r, f)' /\ Decided(r, f)'
               /\ pc'[r] = "done" => Reported(r, f)'
    BY <1>3, <1>4, <2>1 DEF Untouched, Decided, Unread, Reported
  <2>3. ProgressInv(r)'
    BY <1>3, <2>2 DEF ProgressInv
  <2>4. \A f \in File : "skipped" \notin results[r][f]
    BY <1>3 DEF IInv, RunInv, SkipInv
  <2>5. skips' = skips /\ pc'[r] \in {"artifact", "done"}
    BY <1>3
  <2>. HIDE DEF Prepared
  <2>6. \A f \in File : "skipped" \in results'[r][f] <=> f \in skips'[r]
    BY <1>0, <2>4, <2>5
  <2>7. SkipInv(r)'
    BY <2>5, <2>6 DEF SkipInv
  <2>. QED BY <2>3, <2>7
<1>6. ASSUME NEW f \in File PROVE ContentInv(r, f)' /\ CleanInv(r, f)'
  BY <1>3 DEF IInv, RunInv, ContentInv, CleanInv
<1>. QED BY <1>1, <1>2, <1>5, <1>6, OwnStep DEF RunInv

LEMMA ArtifactStep == ASSUME IInv, NEW r \in Run, WriteArtifact(r) PROVE IInv'
<1>. USE DEF WriteArtifact, Goto
<1>1. \A q \in Run : results'[q] = results[q] /\ DOMAIN results' = Run
  BY DEF Carried, IInv, Domains, PerFile
<1>2. Domains'
  BY <1>1 DEF IInv, Domains, PerFile, PCs
<1>3. \A q \in Run \ {r} : Same(q)
  BY <1>1 DEF Same, IInv, Domains, PerFile
<1>4. pc[r] = "artifact" /\ pc'[r] = "apply"
  BY DEF IInv, Domains
<1>5. at[r] = 1 /\ \A f \in File : Untouched(r, f) /\ Decided(r, f)
  BY <1>4 DEF IInv, RunInv, ProgressInv
<1>6. \A f \in File : artifact'[r][f] = IF prep[r][f].ready THEN Kept(prep[r][f].original) ELSE Nothing
  BY DEF IInv, Domains, PerFile
<1>7. ProgressInv(r)'
  <2>1. \A f \in File : Decided(r, f)' /\ ~before'[r][f].kept /\ ~(f < 1)
    BY <1>1, <1>5 DEF Decided, Unread, Verdict, Untouched, File
  <2>2. ASSUME NEW f \in File, prep'[r][f].ready PROVE artifact'[r][f].kept
    <3>1. artifact'[r][f] = Kept(prep[r][f].original)
      BY <1>6, <2>2
    <3>. QED BY <3>1 DEF Kept
  <2>3. pc'[r] = "apply" /\ at'[r] = 1
    BY <1>4, <1>5
  <2>4. \A f \in File :
          /\ prep'[r][f].ready => artifact'[r][f].kept
          /\ IF f < at'[r] THEN Reported(r, f)' ELSE Decided(r, f)'
          /\ ~before'[r][f].kept
    BY <2>1, <2>2, <2>3
  <2>. QED BY <2>3, <2>4 DEF ProgressInv
<1>8. ASSUME NEW f \in File PROVE ContentInv(r, f)' /\ CleanInv(r, f)'
  BY <1>4, <1>5, <1>6 DEF IInv, RunInv, ContentInv, CleanInv, Kept, Nothing, Untouched
<1>9. SkipInv(r)'
  BY <1>1, <1>4 DEF IInv, RunInv, SkipInv
<1>. QED BY <1>2, <1>3, <1>7, <1>8, <1>9, OwnStep DEF RunInv

LEMMA StopStep ==
    ASSUME IInv, NEW r \in Run, FailArtifact(r) \/ Crash(r) PROVE IInv'
<1>. USE DEF FailArtifact, Crash, Goto, AfterArtifactError
<1>1. pc[r] \notin {"idle", "refused"} /\ pc' = [pc EXCEPT ![r] = pc'[r]] /\ pc'[r] \in {"aborted", "crashed"}
  BY DEF IInv, Domains, Ended
<1>2. UNCHANGED <<disk, owner, at, plan, skips, prep, artifact, before, ghosts>>
  OBVIOUS
<1>3. PerFile(results)' /\ \A q \in Run \ {r} : results'[q] = results[q]
  <2>1. CASE UNCHANGED results
    BY <2>1 DEF IInv, Domains, PerFile
  <2>2. CASE results' = [results EXCEPT ![r] = [f \in File |-> {}]]
    BY <2>2 DEF IInv, Domains, PerFile
  <2>. QED BY <2>1, <2>2
<1>. HIDE DEF FailArtifact, Crash
<1>4. Domains' /\ \A q \in Run \ {r} : Same(q)
  BY <1>1, <1>2, <1>3 DEF IInv, Domains, PerFile, Same, PCs, Ended
<1>5. pc'[r] \in {"aborted", "crashed"}
  BY <1>1
<1>6. ProgressInv(r)' /\ SkipInv(r)'
  BY <1>5 DEF ProgressInv, SkipInv
<1>7. ASSUME NEW f \in File PROVE ContentInv(r, f)' /\ CleanInv(r, f)'
  BY <1>1, <1>2 DEF IInv, RunInv, ContentInv, CleanInv
<1>. QED BY <1>2, <1>4, <1>6, <1>7, OwnStep DEF RunInv

-----------------------------------------------------------------------------
(* The replacements. *)

\* The loop goes on: f has been reported, or there was nothing to do.
LEMMA ReportStep ==
    ASSUME IInv, NEW r \in Run, pc[r] \in {"apply", "verify"}, pc'[r] = "apply",
           NEW f \in File, f = at[r], Advance(r),
           UNCHANGED <<disk, owner, plan, skips, prep, artifact, before, mixed, raced,
                       swapped>>,
           Domains', \A q \in Run \ {r} : Same(q),
           \A g \in File \ {f} : results'[r][g] = results[r][g],
           late[r] \subseteq late'[r], Reported(r, f)',
           "skipped" \in results'[r][f] <=> "skipped" \in results[r][f]
    PROVE  IInv'
<1>1. at'[r] = f + 1 /\ f \in 1..NFiles
  BY DEF IInv, Domains, File, Advance
<1>2. \A g \in File :
        /\ prep[r][g].ready => artifact[r][g].kept
        /\ IF g < f THEN Reported(r, g) ELSE Decided(r, g)
        /\ g >= f /\ g # f => ~before[r][g].kept
  BY DEF IInv, RunInv, ProgressInv
<1>3. ASSUME NEW g \in File
      PROVE  /\ IF g < f + 1 THEN Reported(r, g)' ELSE Decided(r, g)'
             /\ g >= f + 1 => ~before'[r][g].kept
  <2>1. CASE g = f
    BY <1>1, <2>1
  <2>2. CASE g # f
    <3>1. Decided(r, g)' = Decided(r, g) /\ (Reported(r, g) => Reported(r, g)')
      BY <2>2 DEF Decided, Unread, Verdict, Reported
    <3>2. (g < f + 1) = (g < f) /\ (g >= f + 1) = (g >= f)
      BY <1>1, <2>2 DEF File
    <3>. QED BY <1>2, <2>2, <3>1, <3>2
  <2>. QED BY <2>1, <2>2
<1>4. ProgressInv(r)' /\ SkipInv(r)'
  <2>1. ProgressInv(r)'
    BY <1>1, <1>2, <1>3 DEF ProgressInv
  <2>2. SkipInv(r)'
    BY DEF IInv, RunInv, SkipInv
  <2>. QED BY <2>1, <2>2
<1>5. ASSUME NEW g \in File PROVE ContentInv(r, g)' /\ CleanInv(r, g)'
  BY DEF IInv, RunInv, ContentInv, CleanInv
<1>. QED BY <1>4, <1>5, OwnStep DEF RunInv

\* What the loop knows of the file it has reached.
LEMMA LoopFacts ==
    ASSUME IInv, NEW r \in Run, pc[r] = "apply", Busy(r)
    PROVE  /\ at[r] \in File /\ Decided(r, at[r]) /\ ~before[r][at[r]].kept
           /\ prep[r][at[r]].ready => artifact[r][at[r]].kept
<1>1. at[r] \in File /\ at[r] >= at[r] /\ ~(at[r] < at[r])
  BY AtType DEF IInv, Busy, File
<1>. QED BY <1>1 DEF IInv, RunInv, ProgressInv

LEMMA AdvanceType ==
    ASSUME IInv, NEW r \in Run, at[r] \in File, Advance(r)
    PROVE  at' \in [Run -> 1..NFiles + 1] /\ \A q \in Run \ {r} : at'[q] = at[q]
BY AtType DEF IInv, Domains, File, Advance

LEMMA SkipStep == ASSUME IInv, NEW r \in Run, Skip(r) PROVE IInv'
<1>1. PICK f \in File : f = at[r]
  BY LoopFacts DEF Skip
<1>2. Decided(r, f) /\ ~before[r][f].kept /\ ~prep[r][f].ready
  BY <1>1, LoopFacts DEF Skip
<1>3. Domains' /\ \A q \in Run \ {r} : Same(q)
  BY <1>1, AdvanceType DEF Skip, IInv, Domains, PerFile, Same
<1>4. Reported(r, f)'
  BY <1>2 DEF Skip, Decided, Unread, Verdict, Reported
<1>. QED BY <1>1, <1>3, <1>4, ReportStep DEF Skip

LEMMA FailCommitStep == ASSUME IInv, NEW r \in Run, FailCommit(r) PROVE IInv'
<1>1. PICK f \in File : f = at[r]
  BY LoopFacts DEF FailCommit
<1>2. Decided(r, f) /\ ~before[r][f].kept /\ prep[r][f].ready
  BY <1>1, LoopFacts DEF FailCommit
<1>3. /\ results'[r][f] = results[r][f] \cup {"failed"}
      /\ \A g \in File \ {f} : results'[r][g] = results[r][g]
      /\ DOMAIN results' = Run /\ \A q \in Run : DOMAIN results'[q] = File
      /\ \A q \in Run \ {r} : results'[q] = results[q]
  BY <1>1 DEF FailCommit, Mark, IInv, Domains, PerFile
<1>4. Domains' /\ \A q \in Run \ {r} : Same(q)
  BY <1>1, <1>3, AdvanceType DEF FailCommit, IInv, Domains, PerFile, Same
<1>5. Reported(r, f)'
  BY <1>2, <1>3 DEF FailCommit, Decided, Unread, Verdict, Reported
<1>. QED BY <1>1, <1>3, <1>4, <1>5, ReportStep DEF FailCommit

LEMMA VerifyStep == ASSUME IInv, NEW r \in Run, Verify(r) PROVE IInv'
<1>1. pc[r] = "verify" /\ pc' = [pc EXCEPT ![r] = "apply"] /\ Busy(r)
  BY DEF Verify, Goto, IInv, RunInv, ProgressInv
<1>2. PICK f \in File : f = at[r]
  BY <1>1, AtType DEF IInv, Busy, File
<1>3. prep[r][f].ready /\ before[r][f].kept /\ (f \in swapped[r] \/ owner[f] = r) /\ Decided(r, f)
  <2>1. f >= at[r] /\ ~(f < at[r])
    BY <1>2, AtType DEF IInv, File
  <2>. QED BY <1>1, <1>2, <2>1 DEF IInv, RunInv, ProgressInv
<1>4. /\ results'[r][f] = results[r][f] \cup {Outcome(r, f)}
      /\ \A g \in File \ {f} : results'[r][g] = results[r][g]
      /\ DOMAIN results' = Run /\ \A q \in Run : DOMAIN results'[q] = File
      /\ \A q \in Run \ {r} : results'[q] = results[q]
  BY <1>2 DEF Verify, Mark, IInv, Domains, PerFile
<1>5. Domains' /\ \A q \in Run \ {r} : Same(q)
  BY <1>1, <1>2, <1>4, AdvanceType DEF Verify, IInv, Domains, PerFile, Same, PCs
<1>6. Reported(r, f)'
  BY <1>3, <1>4 DEF Verify, Decided, Unread, Verdict, Reported, Outcome
<1>7. pc'[r] = "apply"
  BY <1>1 DEF IInv, Domains
<1>8. "skipped" \in results'[r][f] <=> "skipped" \in results[r][f]
  BY <1>4 DEF Outcome
<1>. QED BY <1>1, <1>2, <1>4, <1>5, <1>6, <1>7, <1>8, ReportStep DEF Verify

\* A late failure explains itself.
LEMMA FailVerifyStep == ASSUME IInv, NEW r \in Run, FailVerify(r) PROVE IInv'
<1>1. pc[r] = "verify" /\ pc' = [pc EXCEPT ![r] = "apply"] /\ Busy(r)
  BY DEF FailVerify, Goto, IInv, RunInv, ProgressInv
<1>2. PICK f \in File : f = at[r]
  BY <1>1, AtType DEF IInv, Busy, File
<1>3. prep[r][f].ready /\ before[r][f].kept /\ (f \in swapped[r] \/ owner[f] = r) /\ Decided(r, f)
  <2>1. f >= at[r] /\ ~(f < at[r])
    BY <1>2, AtType DEF IInv, File
  <2>. QED BY <1>1, <1>2, <2>1 DEF IInv, RunInv, ProgressInv
<1>4. /\ results'[r][f] = results[r][f] \cup {"failed"}
      /\ \A g \in File \ {f} : results'[r][g] = results[r][g]
      /\ DOMAIN results' = Run /\ \A q \in Run : DOMAIN results'[q] = File
      /\ \A q \in Run \ {r} : results'[q] = results[q] /\ late'[q] = late[q]
      /\ late'[r] = late[r] \cup {f} /\ late' \in [Run -> SUBSET File]
  BY <1>2 DEF FailVerify, Mark, IInv, Domains, PerFile
<1>5. Domains' /\ \A q \in Run \ {r} : Same(q)
  BY <1>1, <1>2, <1>4, AdvanceType DEF FailVerify, IInv, Domains, PerFile, Same, PCs
<1>6. Reported(r, f)'
  BY <1>3, <1>4 DEF FailVerify, Decided, Unread, Verdict, Reported
<1>7. pc'[r] = "apply"
  BY <1>1 DEF IInv, Domains
<1>8. "skipped" \in results'[r][f] <=> "skipped" \in results[r][f]
  BY <1>4
<1>. QED BY <1>1, <1>2, <1>4, <1>5, <1>6, <1>7, <1>8, ReportStep DEF FailVerify

LEMMA FinishStep == ASSUME IInv, NEW r \in Run, Finish(r) PROVE IInv'
<1>. USE DEF Finish, Goto
<1>1. pc[r] = "apply" /\ pc'[r] = "done"
  BY DEF IInv, Domains
<1>2. Domains' /\ \A q \in Run \ {r} : Same(q)
  BY DEF IInv, Domains, PerFile, Same, PCs, Ended
<1>3. \A f \in File : f < at[r]
  BY AtType DEF IInv, Busy, File
<1>4. ProgressInv(r)' /\ SkipInv(r)'
  BY <1>1, <1>3 DEF IInv, RunInv, ProgressInv, SkipInv, Reported, Verdict
<1>5. ASSUME NEW f \in File PROVE ContentInv(r, f)' /\ CleanInv(r, f)'
  BY <1>1 DEF IInv, RunInv, ContentInv, CleanInv
<1>. QED BY <1>2, <1>4, <1>5, OwnStep DEF RunInv

LEMMA CommitStep == ASSUME IInv, NEW r \in Run, Commit(r) PROVE IInv'
<1>1. pc[r] = "apply" /\ pc' = [pc EXCEPT ![r] = "verify"] /\ Busy(r) /\ prep[r][at[r]].ready
  BY DEF Commit, Goto
<1>2. PICK f \in File : f = at[r]
  BY <1>1, LoopFacts
<1>3. Decided(r, f) /\ ~before[r][f].kept /\ prep[r][f].ready /\ artifact[r][f].kept
  BY <1>1, <1>2, LoopFacts
<1>4. /\ disk' = [disk EXCEPT ![f] = prep[r][f].updated] /\ owner' = [owner EXCEPT ![f] = r]
      /\ before' = [before EXCEPT ![r][f] = Kept(disk[f])] /\ Note(f, r)
      /\ UNCHANGED <<at, plan, skips, prep, results, artifact, late>>
  BY <1>2 DEF Commit
<1>5. /\ before'[r][f] = Kept(disk[f]) /\ \A g \in File \ {f} : before'[r][g] = before[r][g]
      /\ DOMAIN before' = Run /\ \A q \in Run : DOMAIN before'[q] = File
      /\ \A q \in Run \ {r} : before'[q] = before[q]
      /\ owner'[f] = r
      /\ \A g \in File \ {f} : disk'[g] = disk[g] /\ owner'[g] = owner[g]
  BY <1>4 DEF IInv, Domains, PerFile
<1>6. Domains'
  BY <1>1, <1>4, <1>5, NoteFacts DEF IInv, Domains, PerFile, PCs
<1>7. ASSUME NEW q \in Run \ {r} PROVE RunInv(q)'
  <2>1. Same(q)
    BY <1>1, <1>4, <1>5, <1>7 DEF Same
  <2>. QED BY <1>4, <1>5, <2>1, NotedOthers DEF IInv
<1>8. mixed'[r] = mixed[r] /\ raced'[r] = raced[r] /\ swapped'[r] = swapped[r]
  BY <1>4 DEF Note, IInv, Domains
<1>9. pc'[r] = "verify" /\ at'[r] = f
  BY <1>1, <1>2, <1>4 DEF IInv, Domains
<1>10. ProgressInv(r)'
  <2>1. ASSUME NEW g \in File
        PROVE  /\ prep[r][g].ready => artifact[r][g].kept
               /\ IF g < f THEN Reported(r, g)' ELSE Decided(r, g)'
               /\ g >= f /\ g # f => ~before'[r][g].kept
    <3>1. Decided(r, g)' = Decided(r, g)
      BY <1>4 DEF Decided, Unread, Verdict
    <3>2. g # f => Reported(r, g)' = Reported(r, g)
      BY <1>4, <1>5, <1>8 DEF Reported, Verdict
    <3>3. g < f => g # f
      BY DEF File
    <3>. QED BY <1>1, <1>2, <1>5, <3>1, <3>2, <3>3 DEF IInv, RunInv, ProgressInv
  <2>2. Busy(r)'
    BY <1>1, <1>4 DEF Busy
  <2>. QED BY <1>3, <1>4, <1>5, <1>9, <2>1, <2>2 DEF ProgressInv, Kept
<1>11. ASSUME NEW g \in File PROVE ContentInv(r, g)' /\ CleanInv(r, g)'
  <2>1. CASE g = f
    BY <1>1, <1>3, <1>4, <1>5, <1>8, <1>9, <2>1 DEF IInv, RunInv, ContentInv, CleanInv, Kept
  <2>2. CASE g # f
    BY <1>1, <1>4, <1>5, <1>8, <1>9, <2>2 DEF IInv, RunInv, ContentInv, CleanInv
  <2>. QED BY <2>1, <2>2
<1>12. SkipInv(r)'
  BY <1>1, <1>4, <1>9 DEF IInv, RunInv, SkipInv
<1>. QED BY <1>6, <1>7, <1>10, <1>11, <1>12 DEF IInv, RunInv

LEMMA EditStep == ASSUME IInv, NEW f \in File, NEW c, Edit(f, c) PROVE IInv'
<1>1. /\ Note(f, User)
      /\ UNCHANGED <<pc, at, plan, skips, prep, results, artifact, before, late>>
      /\ disk' = [disk EXCEPT ![f] = c]
      /\ owner' = owner \/ owner' = [owner EXCEPT ![f] = User]
  BY DEF Edit
<1>2. /\ DOMAIN disk' = File /\ owner' \in [File -> Run \cup {User}]
      /\ \A g \in File \ {f} : disk'[g] = disk[g] /\ owner'[g] = owner[g]
  BY <1>1 DEF IInv, Domains
<1>3. Domains'
  BY <1>1, <1>2, NoteFacts DEF IInv, Domains, PerFile
<1>4. ASSUME NEW q \in Run PROVE RunInv(q)'
  <2>1. q # User /\ Same(q)
    BY <1>1, ConstantsAssumption DEF Same
  <2>. QED BY <1>1, <1>2, <2>1, NotedOthers DEF IInv
<1>. QED BY <1>3, <1>4 DEF IInv

-----------------------------------------------------------------------------
(* The edit of one file: what the recursion of Updated leaves. *)

\* Suggestions that validateCodemodSuggestions accepts for c.
Accepted(c, S) ==
    /\ c \in Seq(Line) /\ S \subseteq [line : Nat \ {0}, original : Line]
    /\ \A s \in S : s.line \in DOMAIN c /\ c[s.line] = s.original

Above(S, i) == {s \in S : s.line > i}

\* g[T] is the content once T has been handled, for every T in D.
Edits(g, c, D) ==
    g = [T \in D |-> IF T = {} THEN c ELSE Apply1(g[T \ {HandledLast(T)}], HandledLast(T))]

LEMMA OnePerLine ==
    ASSUME NEW c, NEW S, Accepted(c, S), NEW s \in S, NEW t \in S, s.line = t.line
    PROVE  s = t
BY DEF Accepted

\* The suggestion handled last names the lowest line.
LEMMA LastIsLowest ==
    ASSUME NEW c, NEW S, Accepted(c, S), NEW T \in SUBSET S, NEW s \in T,
           \A t \in T : s.line <= t.line
    PROVE  HandledLast(T) = s
<1>1. HandledLast(T) \in T /\ \A t \in T : HandledLast(T).line <= t.line
  BY DEF HandledLast
<1>2. HandledLast(T).line = s.line
  BY <1>1 DEF Accepted
<1>. QED BY <1>1, <1>2, OnePerLine

LEMMA EditsGrow ==
    ASSUME NEW c, NEW S, Accepted(c, S), NEW i \in Nat \ {0},
           NEW g, Edits(g, c, SUBSET Above(S, i))
    PROVE  \E h : Edits(h, c, SUBSET Above(S, i - 1))
<1>. DEFINE D == SUBSET Above(S, i)
            E == SUBSET Above(S, i - 1)
            h == [T \in E |-> IF T \in D THEN g[T]
                                ELSE Apply1(g[T \ {HandledLast(T)}], HandledLast(T))]
<1>1. D \subseteq E
  BY DEF Above, Accepted
<1>2. ASSUME NEW T \in D, T # {} PROVE T \ {HandledLast(T)} \in D
  BY <1>2
<1>3. ASSUME NEW T \in E, T \notin D PROVE T # {} /\ T \ {HandledLast(T)} \in D
  <2>1. PICK s \in T : ~(s.line > i)
    BY <1>3 DEF Above
  <2>2. s.line = i /\ \A t \in T : t.line >= i /\ t.line \in Nat
    BY <2>1, <1>3 DEF Above, Accepted
  <2>3. HandledLast(T) = s
    BY <2>2, LastIsLowest DEF Above
  <2>4. \A t \in T \ {s} : t.line # i
    BY <2>2, OnePerLine DEF Above
  <2>. QED BY <2>1, <2>2, <2>3, <2>4 DEF Above
<1>4. ASSUME NEW T \in E
      PROVE  h[T] = IF T = {} THEN c ELSE Apply1(h[T \ {HandledLast(T)}], HandledLast(T))
  <2>1. CASE T \in D
    <3>1. h[T] = g[T]
      BY <2>1, <1>1
    <3>2. g[T] = IF T = {} THEN c ELSE Apply1(g[T \ {HandledLast(T)}], HandledLast(T))
      BY <2>1 DEF Edits
    <3>3. T # {} => h[T \ {HandledLast(T)}] = g[T \ {HandledLast(T)}]
      BY <2>1, <1>1, <1>2
    <3>. QED BY <3>1, <3>2, <3>3
  <2>2. CASE T \notin D
    <3>1. T # {} /\ h[T] = Apply1(g[T \ {HandledLast(T)}], HandledLast(T))
      BY <2>2, <1>3
    <3>2. h[T \ {HandledLast(T)}] = g[T \ {HandledLast(T)}]
      BY <2>2, <1>1, <1>3
    <3>. QED BY <3>1, <3>2
  <2>. QED BY <2>1, <2>2
<1>5. h = [T \in E |-> h[T]]
  OBVIOUS
<1>. HIDE DEF h
<1>6. h = [T \in E |-> IF T = {} THEN c ELSE Apply1(h[T \ {HandledLast(T)}], HandledLast(T))]
  BY <1>4, <1>5
<1>. QED BY <1>6 DEF Edits


\* Downward induction.
LEMMA Descend ==
    ASSUME NEW N \in Nat, NEW P \in SUBSET (0..N), N \in P, \A i \in P : i > 0 => i - 1 \in P
    PROVE  0 \in P
<1>. SUFFICES ASSUME 0 \notin P PROVE FALSE
  OBVIOUS
<1>. DEFINE M == {j \in 0..N : N - j \notin P}
            R == OpToRel(<, Nat)
<1>1. M \in SUBSET Nat /\ N \in M
  OBVIOUS
<1>2. IsWellFoundedOn(R, Nat)
  BY NatLessThanWellFounded
<1>3. \A x, y \in Nat : y < x => <<y, x>> \in R
  BY DEF OpToRel
<1>. HIDE DEF R, M
<1>4. PICK x \in M : \A y \in M : <<y, x>> \notin R
  BY <1>1, <1>2, WFMin
<1>5. x \in 0..N /\ N - x \notin P /\ \A y \in M : ~(y < x)
  BY <1>1, <1>3, <1>4 DEF M
<1>6. x # 0
  BY <1>5
<1>7. x - 1 \notin M
  BY <1>5, <1>6
<1>8. N - (x - 1) \in P /\ N - (x - 1) > 0 /\ (N - (x - 1)) - 1 = N - x
  BY <1>5, <1>6, <1>7 DEF M
<1>. QED BY <1>5, <1>8

\* The recursion of Updated has a solution.
LEMMA EditsExist ==
    ASSUME NEW c, NEW S, Accepted(c, S)
    PROVE  \E g : Edits(g, c, SUBSET S)
<1>. DEFINE P == {i \in 0..Len(c) : \E g : Edits(g, c, SUBSET Above(S, i))}
<1>0. Len(c) \in Nat /\ DOMAIN c = 1..Len(c)
  BY DEF Accepted
<1>1. Len(c) \in P
  <2>1. Above(S, Len(c)) = {}
    BY <1>0 DEF Above, Accepted
  <2>2. Edits([T \in {{}} |-> c], c, SUBSET Above(S, Len(c)))
    BY <2>1 DEF Edits
  <2>. QED BY <1>0, <2>2
<1>2. ASSUME NEW i \in P, i > 0 PROVE i - 1 \in P
  <2>1. i \in 0..Len(c) /\ \E g : Edits(g, c, SUBSET Above(S, i))
    BY <1>2
  <2>2. i \in Nat \ {0} /\ i - 1 \in 0..Len(c)
    BY <1>0, <1>2, <2>1
  <2>3. \E h : Edits(h, c, SUBSET Above(S, i - 1))
    BY <2>1, <2>2, EditsGrow
  <2>. QED BY <2>2, <2>3
<1>3. 0 \in P
  <2>. HIDE DEF P
  <2>1. P \in SUBSET (0..Len(c))
    BY DEF P
  <2>. QED BY <1>0, <1>1, <1>2, <2>1, Descend
<1>4. Above(S, 0) = S
  BY DEF Above, Accepted
<1>. QED BY <1>3, <1>4

LEMMA UpdatedIsEdit ==
    ASSUME NEW c, NEW S, Accepted(c, S)
    PROVE  \E g : Edits(g, c, SUBSET S) /\ Updated(c, S) = g[S]
<1>1. PICK g : Edits(g, c, SUBSET S)
  BY EditsExist
<1>2. \E h : Edits(h, c, SUBSET S) /\ Updated(c, S) = h[S]
  BY <1>1 DEF Updated, Edits
<1>. QED BY <1>2

-----------------------------------------------------------------------------
(* What is in place once the suggestions above a line are handled. *)

Due(T, i) == \E t \in T : t.line = i

\* U names line i besides the lines of T.
OneMore(U, T, c, i) == \A j \in DOMAIN c : Due(U, j) <=> Due(T, j) \/ j = i

\* from is the witness of Wanted, and the lines up to i have not moved.
Placed(u, from, c, T, i) ==
    /\ u \in Seq(Line) /\ from \in [DOMAIN u -> DOMAIN c]
    /\ \A m, n \in DOMAIN u : m < n => from[m] < from[n]
    /\ \A j \in DOMAIN c : (\E n \in DOMAIN u : from[n] = j) <=> ~Due(T, j) \/ c[j] \notin Deleted
    /\ \A n \in DOMAIN u : u[n] = IF Due(T, from[n]) THEN Rewrite[c[from[n]]] ELSE c[from[n]]
    /\ \A n \in 1..i : n \in DOMAIN u /\ from[n] = n

\* RemoveAt takes one line out and moves those after it up.
LEMMA RemoveAtFacts ==
    ASSUME NEW u \in Seq(Line), NEW i \in 1..Len(u)
    PROVE  /\ RemoveAt(u, i) \in Seq(Line) /\ Len(RemoveAt(u, i)) = Len(u) - 1
           /\ \A n \in 1..Len(u) - 1 : RemoveAt(u, i)[n] = IF n < i THEN u[n] ELSE u[n + 1]
<1>. DEFINE v == RemoveAt(u, i)
<1>0. i \in Nat \ {0} /\ Len(u) \in Nat /\ (i = Len(u) \/ i < Len(u))
  OBVIOUS
<1>1. u \in Seq(Line) /\ \A n \in 1..Len(u) : u[n] \in Line
  BY <1>0
<1>2. /\ SubSeq(u, 1, i - 1) \in Seq(Line) /\ Len(SubSeq(u, 1, i - 1)) = i - 1
      /\ \A n \in 1..i - 1 : SubSeq(u, 1, i - 1)[n] = u[n]
  BY <1>0, <1>1
<1>3. /\ SubSeq(u, i + 1, Len(u)) \in Seq(Line) /\ Len(SubSeq(u, i + 1, Len(u))) = Len(u) - i
      /\ \A n \in 1..Len(u) - i : SubSeq(u, i + 1, Len(u))[n] = u[n + i]
  <2>1. Len(SubSeq(u, i + 1, Len(u))) = Len(u) - i
    <3>1. CASE i = Len(u)
      <4>1. SubSeq(u, i + 1, Len(u)) = << >>
        <5>1. i + 1 \in Int /\ Len(u) \in Int /\ Len(u) < i + 1
          BY <1>0, <3>1
        <5>. QED BY <5>1, SubSeqEmpty, Zenon
      <4>2. Len(u) - i = 0
        BY <1>0, <3>1
      <4>. QED BY <4>1, <4>2
    <3>2. CASE i < Len(u)
      <4>1. i + 1 \in 1..Len(u)
        BY <1>0, <3>2
      <4>2. Len(SubSeq(u, i + 1, Len(u))) = Len(u) - (i + 1) + 1
        BY <1>1, <1>0, <4>1
      <4>. QED BY <1>0, <4>2
    <3>. QED BY <1>0, <3>1, <3>2
  <2>2. \A n \in 1..Len(u) - i : SubSeq(u, i + 1, Len(u))[n] = u[n + i]
    BY <1>0, <1>1
  <2>3. SubSeq(u, i + 1, Len(u)) \in Seq(Line)
    BY <1>0, <1>1
  <2>. QED BY <2>1, <2>2, <2>3
<1>4. /\ v \in Seq(Line) /\ Len(v) = Len(u) - 1
      /\ \A n \in 1..Len(u) - 1 :
            v[n] = IF n <= i - 1 THEN SubSeq(u, 1, i - 1)[n]
                                 ELSE SubSeq(u, i + 1, Len(u))[n - (i - 1)]
  <2>. DEFINE a == SubSeq(u, 1, i - 1)
              b == SubSeq(u, i + 1, Len(u))
  <2>1. v = a \o b
    BY DEF RemoveAt
  <2>2. a \in Seq(Line) /\ b \in Seq(Line) /\ Len(a) = i - 1 /\ Len(b) = Len(u) - i
    BY <1>2, <1>3
  <2>. HIDE DEF a, b, v
  <2>3. /\ v \in Seq(Line) /\ Len(v) = Len(a) + Len(b)
        /\ \A n \in 1..Len(a) + Len(b) : v[n] = IF n <= Len(a) THEN a[n] ELSE b[n - Len(a)]
    BY <2>1, <2>2, ConcatProperties
  <2>4. Len(a) + Len(b) = Len(u) - 1
    BY <1>0, <2>2
  <2>5. /\ v \in Seq(Line) /\ Len(v) = Len(u) - 1
        /\ \A n \in 1..Len(u) - 1 : v[n] = IF n <= i - 1 THEN a[n] ELSE b[n - (i - 1)]
    BY <2>2, <2>3, <2>4
  <2>. QED BY <2>5 DEF a, b
<1>5. ASSUME NEW n \in 1..Len(u) - 1 PROVE v[n] = IF n < i THEN u[n] ELSE u[n + 1]
  <2>1. CASE n < i
    BY <1>0, <1>2, <1>4, <2>1
  <2>2. CASE ~(n < i)
    <3>1. n - (i - 1) \in 1..Len(u) - i /\ (n - (i - 1)) + i = n + 1 /\ ~(n <= i - 1)
      BY <1>0, <2>2
    <3>. QED BY <1>3, <1>4, <2>2, <3>1
  <2>. QED BY <2>1, <2>2
<1>6. DOMAIN v = 1..Len(v)
  <2>. HIDE DEF v
  <2>. QED BY <1>4
<1>. QED BY <1>4, <1>5, <1>6

LEMMA PlacedDelete ==
    ASSUME NEW c, NEW S, Accepted(c, S), NEW i \in 1..Len(c), NEW T, NEW U, NEW u, NEW from,
           Placed(u, from, c, T, i), c[i] \in Deleted,
           OneMore(U, T, c, i)
    PROVE  \E h : Placed(RemoveAt(u, i), h, c, U, i - 1)
<1>. DEFINE v == RemoveAt(u, i)
            h == [n \in 1..Len(u) - 1 |-> IF n < i THEN from[n] ELSE from[n + 1]]
<1>1. /\ Len(c) \in Nat /\ DOMAIN c = 1..Len(c) /\ Len(u) \in Nat /\ DOMAIN u = 1..Len(u)
      /\ i \in 1..Len(u) /\ from[i] = i /\ i \in Nat \ {0}
  BY DEF Accepted, Placed
<1>2. /\ v \in Seq(Line) /\ DOMAIN v = 1..Len(u) - 1
      /\ \A n \in 1..Len(u) - 1 : v[n] = IF n < i THEN u[n] ELSE u[n + 1]
  <2>1. u \in Seq(Line)
    BY DEF Placed
  <2>2. /\ v \in Seq(Line) /\ Len(v) = Len(u) - 1
        /\ \A n \in 1..Len(u) - 1 : v[n] = IF n < i THEN u[n] ELSE u[n + 1]
    BY <1>1, <2>1, RemoveAtFacts
  <2>. HIDE DEF v
  <2>. QED BY <2>2
<1>3. \A m, n \in 1..Len(u) : m < n => from[m] < from[n]
  BY <1>1 DEF Placed
<1>4. \A n \in 1..Len(u) : from[n] \in 1..Len(c)
  BY <1>1 DEF Placed
<1>5. \A n \in 1..Len(u) : from[n] = i => n = i
  BY <1>1, <1>3, <1>4
<1>. HIDE DEF v
<1>6. h \in [DOMAIN v -> DOMAIN c]
  BY <1>1, <1>2, <1>4
<1>7. \A m, n \in DOMAIN v : m < n => h[m] < h[n]
  BY <1>1, <1>2, <1>3
<1>8. ASSUME NEW j \in DOMAIN c
      PROVE  (\E n \in DOMAIN v : h[n] = j) <=> ~Due(U, j) \/ c[j] \notin Deleted
  <2>1. (\E n \in DOMAIN v : h[n] = j) <=> (\E n \in 1..Len(u) : n # i /\ from[n] = j)
    <3>1. ASSUME NEW n \in DOMAIN v, h[n] = j PROVE \E m \in 1..Len(u) : m # i /\ from[m] = j
      BY <1>1, <1>2, <3>1
    <3>2. ASSUME NEW m \in 1..Len(u), m # i, from[m] = j PROVE \E n \in DOMAIN v : h[n] = j
      <4>1. CASE m < i
        <5>1. m \in 1..Len(u) - 1
          BY <1>1, <4>1
        <5>. QED BY <1>2, <3>2, <4>1, <5>1
      <4>2. CASE m > i
        <5>1. m - 1 \in 1..Len(u) - 1 /\ ~(m - 1 < i) /\ (m - 1) + 1 = m
          BY <1>1, <4>2
        <5>. QED BY <1>1, <1>2, <3>2, <5>1
      <4>3. m < i \/ m > i
        BY <1>1, <3>2
      <4>. QED BY <4>1, <4>2, <4>3
    <3>. QED BY <3>1, <3>2
  <2>2. (\E n \in 1..Len(u) : n # i /\ from[n] = j) <=> j # i /\ (\E n \in 1..Len(u) : from[n] = j)
    BY <1>1, <1>5
  <2>3. (\E n \in 1..Len(u) : from[n] = j) <=> ~Due(T, j) \/ c[j] \notin Deleted
    BY <1>1, <1>8 DEF Placed
  <2>. QED BY <2>1, <2>2, <2>3 DEF OneMore
<1>9. ASSUME NEW n \in DOMAIN v
      PROVE  v[n] = IF Due(U, h[n]) THEN Rewrite[c[h[n]]] ELSE c[h[n]]
  <2>1. PICK m \in 1..Len(u) : m = (IF n < i THEN n ELSE n + 1)
    BY <1>1, <1>2
  <2>2. v[n] = u[m] /\ h[n] = from[m] /\ m # i
    BY <1>1, <1>2, <2>1
  <2>3. from[m] # i /\ from[m] \in DOMAIN c
    BY <1>1, <1>4, <1>5, <2>2
  <2>4. u[m] = IF Due(T, from[m]) THEN Rewrite[c[from[m]]] ELSE c[from[m]]
    BY <1>1 DEF Placed
  <2>. QED BY <2>2, <2>3, <2>4 DEF OneMore
<1>10. \A n \in 1..i - 1 : n \in DOMAIN v /\ h[n] = n
  BY <1>1, <1>2 DEF Placed
<1>. HIDE DEF h
<1>11. Placed(v, h, c, U, i - 1)
  BY <1>2, <1>6, <1>7, <1>8, <1>9, <1>10 DEF Placed
<1>. QED BY <1>11 DEF v

LEMMA PlacedRewrite ==
    ASSUME NEW c, NEW S, Accepted(c, S), NEW i \in 1..Len(c), NEW T, NEW U, NEW u, NEW from,
           Placed(u, from, c, T, i), c[i] \notin Deleted,
           OneMore(U, T, c, i)
    PROVE  Placed([u EXCEPT ![i] = Rewrite[c[i]]], from, c, U, i - 1)
<1>. DEFINE v == [u EXCEPT ![i] = Rewrite[c[i]]]
<1>1. /\ Len(c) \in Nat /\ DOMAIN c = 1..Len(c) /\ Len(u) \in Nat /\ DOMAIN u = 1..Len(u)
      /\ i \in 1..Len(u) /\ from[i] = i /\ i \in Nat \ {0}
  BY DEF Accepted, Placed
<1>2. \A m, n \in 1..Len(u) : m < n => from[m] < from[n]
  BY <1>1 DEF Placed
<1>3. \A n \in 1..Len(u) : from[n] \in 1..Len(c)
  BY <1>1 DEF Placed
<1>4. \A n \in 1..Len(u) : from[n] = i => n = i
  BY <1>1, <1>2, <1>3
<1>5. Rewrite[c[i]] \in Line
  BY <1>1, ConstantsAssumption DEF Accepted
<1>6. v \in Seq(Line) /\ DOMAIN v = DOMAIN u
  BY <1>5 DEF Placed
<1>7. v[i] = Rewrite[c[i]] /\ \A n \in DOMAIN u : n # i => v[n] = u[n]
  BY <1>1
<1>. HIDE DEF v
<1>8. ASSUME NEW j \in DOMAIN c
      PROVE  (\E n \in DOMAIN v : from[n] = j) <=> ~Due(U, j) \/ c[j] \notin Deleted
  BY <1>1, <1>6 DEF Placed, OneMore
<1>9. ASSUME NEW n \in DOMAIN v
      PROVE  v[n] = IF Due(U, from[n]) THEN Rewrite[c[from[n]]] ELSE c[from[n]]
  <2>1. CASE n = i
    BY <1>1, <1>7, <2>1 DEF OneMore
  <2>2. CASE n # i
    <3>1. from[n] # i /\ from[n] \in DOMAIN c
      BY <1>1, <1>3, <1>4, <1>6, <2>2
    <3>2. v[n] = u[n] /\ n \in DOMAIN u
      BY <1>6, <1>7, <2>2
    <3>3. u[n] = IF Due(T, from[n]) THEN Rewrite[c[from[n]]] ELSE c[from[n]]
      BY <3>2 DEF Placed
    <3>. QED BY <3>1, <3>2, <3>3 DEF OneMore
  <2>. QED BY <2>1, <2>2
<1>10. \A n \in 1..i - 1 : n \in DOMAIN v /\ from[n] = n
  BY <1>1, <1>6 DEF Placed
<1>11. Placed(v, from, c, U, i - 1)
  BY <1>6, <1>8, <1>9, <1>10 DEF Placed
<1>. QED BY <1>11 DEF v

LEMMA PlacedSame ==
    ASSUME NEW c, NEW i \in Nat \ {0}, NEW T, NEW U, NEW u, NEW from,
           Placed(u, from, c, T, i), \A j \in DOMAIN c : Due(U, j) <=> Due(T, j)
    PROVE  Placed(u, from, c, U, i - 1)
<1>1. \A n \in DOMAIN u : from[n] \in DOMAIN c
  BY DEF Placed
<1>2. \A n \in 1..i - 1 : n \in 1..i
  OBVIOUS
<1>. QED BY <1>1, <1>2 DEF Placed

\* One suggestion after the other, from the last line to the first.
LEMMA EditsPlace ==
    ASSUME NEW c, NEW S, Accepted(c, S), NEW g, Edits(g, c, SUBSET S)
    PROVE  \E from : Placed(g[S], from, c, S, 0)
<1>. DEFINE P == {i \in 0..Len(c) : \E from : Placed(g[Above(S, i)], from, c, Above(S, i), i)}
<1>0. Len(c) \in Nat /\ DOMAIN c = 1..Len(c) /\ \A s \in S : s.line \in 1..Len(c)
  BY DEF Accepted
<1>1. \A T \in SUBSET S :
        g[T] = IF T = {} THEN c ELSE Apply1(g[T \ {HandledLast(T)}], HandledLast(T))
  BY DEF Edits
<1>2. Len(c) \in P
  <2>1. Above(S, Len(c)) = {}
    BY <1>0 DEF Above
  <2>2. g[{}] = c
    BY <1>1
  <2>3. \A j : ~Due({}, j)
    BY DEF Due
  <2>4. Placed(c, [n \in 1..Len(c) |-> n], c, {}, Len(c))
    BY <1>0, <2>3 DEF Placed, Accepted
  <2>5. \E from : Placed(g[Above(S, Len(c))], from, c, Above(S, Len(c)), Len(c))
    BY <2>1, <2>2, <2>4
  <2>. QED BY <1>0, <2>5
<1>3. ASSUME NEW i \in P, i > 0 PROVE i - 1 \in P
  <2>. DEFINE T == Above(S, i)
              U == Above(S, i - 1)
  <2>1. i \in 1..Len(c) /\ i - 1 \in 0..Len(c) /\ \E from : Placed(g[T], from, c, T, i)
    BY <1>0, <1>3
  <2>2. PICK from : Placed(g[T], from, c, T, i)
    BY <2>1
  <2>3. U \in SUBSET S /\ \A t \in S : t \in U <=> t \in T \/ t.line = i
    BY <1>0, <2>1 DEF Above
  <2>4. T \in SUBSET S /\ \A t \in T : t.line > i /\ t.line \in Nat
    BY <1>0, <2>1 DEF Above
  <2>. HIDE DEF P, T, U
  <2>5. CASE ~Due(S, i)
    <3>1. U = T
      BY <2>3, <2>4, <2>5 DEF Due
    <3>2. Placed(g[U], from, c, U, i - 1)
      BY <2>1, <2>2, <3>1, PlacedSame
    <3>. QED BY <2>1, <3>2 DEF P, U
  <2>6. CASE Due(S, i)
    <3>1. PICK s \in S : s.line = i
      BY <2>6 DEF Due
    <3>2. s \in U /\ \A t \in U : s.line <= t.line
      BY <2>1, <2>3, <2>4, <3>1
    <3>3. HandledLast(U) = s
      BY <2>3, <3>2, LastIsLowest
    <3>4. U \ {s} = T
      <4>1. \A t \in S : t.line = i => t = s
        BY <3>1, OnePerLine
      <4>2. s \notin T
        BY <2>1, <2>4, <3>1
      <4>. QED BY <2>3, <2>4, <4>1, <4>2
    <3>5. g[U] = Apply1(g[T], s)
      BY <1>1, <2>3, <3>2, <3>3, <3>4
    <3>6. OneMore(U, T, c, i)
      BY <2>3, <2>4, <3>1 DEF OneMore, Due
    <3>7. s.original = c[i]
      BY <3>1 DEF Accepted
    <3>8. \E h : Placed(g[U], h, c, U, i - 1)
      <4>1. CASE c[i] \in Deleted
        <5>1. g[U] = RemoveAt(g[T], i)
          BY <3>1, <3>5, <3>7, <4>1 DEF Apply1
        <5>2. \E h : Placed(RemoveAt(g[T], i), h, c, U, i - 1)
          BY <2>1, <2>2, <3>6, <4>1, PlacedDelete
        <5>. QED BY <5>1, <5>2
      <4>2. CASE c[i] \notin Deleted
        <5>1. g[U] = [g[T] EXCEPT ![i] = Rewrite[c[i]]]
          BY <3>1, <3>5, <3>7, <4>2 DEF Apply1
        <5>. QED BY <2>1, <2>2, <3>6, <4>2, <5>1, PlacedRewrite
      <4>. QED BY <4>1, <4>2
    <3>. QED BY <2>1, <3>8 DEF P, U
  <2>. QED BY <2>5, <2>6
<1>4. 0 \in P
  <2>. HIDE DEF P
  <2>1. P \in SUBSET (0..Len(c))
    BY DEF P
  <2>. QED BY <1>0, <1>2, <1>3, <2>1, Descend
<1>5. Above(S, 0) = S
  BY <1>0 DEF Above
<1>. QED BY <1>4, <1>5

\* applySuggestionsToContent edits exactly the lines it is asked to.
LEMMA UpdatedWanted ==
    ASSUME NEW c, NEW S, Accepted(c, S)
    PROVE  Updated(c, S) \in Seq(Line) /\ Wanted(Updated(c, S), c, S)
<1>1. PICK g : Edits(g, c, SUBSET S) /\ Updated(c, S) = g[S]
  BY UpdatedIsEdit
<1>2. PICK from : Placed(Updated(c, S), from, c, S, 0)
  BY <1>1, EditsPlace
<1>. QED BY <1>2 DEF Placed, Wanted, Due

-----------------------------------------------------------------------------
(* The texts: relative to IInv, what a run has prepared is the exact edit. *)

Edited(p, S) == Accepted(p.original, S) /\ p.updated = Updated(p.original, S)

FileText(r, f) ==
    /\ plan[r][f] \subseteq [line : Nat \ {0}, original : Target[r]]
    /\ prep[r][f].ready => Edited(prep[r][f], plan[r][f])
    /\ results[r][f] \subseteq {"skipped", "applied", "failed"}
    /\ artifact[r][f].kept \in BOOLEAN /\ before[r][f].kept \in BOOLEAN

TextInv ==
    /\ \A f \in File : disk[f] \in Seq(Line) \cup {NoFile}
    /\ \A r \in Run, f \in File : FileText(r, f)
    /\ edits \in 0..MaxEdits /\ faults \in 0..MaxFaults

LEMMA ContentType == \A c \in Content : c \in Seq(Line) \cup {NoFile}
BY ConstantsAssumption DEF Content

LEMMA FaultType == faults \in 0..MaxFaults /\ Fault => faults' \in 0..MaxFaults
BY ConstantsAssumption DEF Fault

LEMMA InitText == Init => TextInv
<1> SUFFICES ASSUME Init PROVE TextInv
  OBVIOUS
<1>1. ASSUME NEW f \in File PROVE disk[f] \in Seq(Line) \cup {NoFile}
  <2>1. disk[f] = Committed[f] \/ disk[f] \in Contents
    BY ConstantsAssumption DEF Init
  <2>2. Committed[f] \in Contents /\ Contents \subseteq Seq(Line)
    BY ConstantsAssumption
  <2>. QED BY <2>1, <2>2
<1>2. ASSUME NEW r \in Run, NEW f \in File PROVE FileText(r, f)
  BY DEF Init, FileText, Unprepared, Nothing
<1>3. edits \in 0..MaxEdits /\ faults \in 0..MaxFaults
  BY ConstantsAssumption DEF Init
<1>. QED BY <1>1, <1>2, <1>3 DEF TextInv

\* The suggestions of a content name its lines and quote them.
LEMMA SuggestionsType ==
    ASSUME NEW r \in Run, NEW c \in Seq(Line) \cup {NoFile}
    PROVE  Suggestions(r, c) \subseteq [line : Nat \ {0}, original : Target[r]]
<1>1. CASE c = NoFile
  BY <1>1 DEF Suggestions
<1>2. CASE c \in Seq(Line) /\ c # NoFile
  <2>1. DOMAIN c \subseteq Nat \ {0}
    BY <1>2
  <2>. QED BY <1>2, <2>1 DEF Suggestions
<1>. QED BY <1>1, <1>2

LEMMA AnalyseText == ASSUME IInv, TextInv, NEW r \in Run, Analyse(r) PROVE TextInv'
<1>1. plan' = [plan EXCEPT ![r] = [f \in File |-> Suggestions(r, disk[f])]]
  BY DEF Analyse
<1>2. \A f \in File : ~prep[r][f].ready
  BY DEF Analyse, Goto, IInv, RunInv, ProgressInv, Unread
<1>3. ASSUME NEW q \in Run, NEW f \in File PROVE FileText(q, f)'
  <2>1. UNCHANGED <<prep, results, artifact, before>> /\ FileText(q, f)
    BY DEF Analyse, TextInv
  <2>2. CASE q = r
    <3>1. plan'[r][f] = Suggestions(r, disk[f])
      BY <1>1 DEF IInv, Domains, PerFile
    <3>2. plan'[r][f] \subseteq [line : Nat \ {0}, original : Target[r]]
      BY <3>1, SuggestionsType DEF TextInv
    <3>. QED BY <1>2, <2>1, <2>2, <3>2 DEF FileText
  <2>3. CASE q # r
    <3>1. plan'[q] = plan[q]
      BY <1>1, <2>3 DEF IInv, Domains, PerFile
    <3>. QED BY <2>1, <3>1 DEF FileText
  <2>. QED BY <2>2, <2>3
<1>. QED BY <1>3 DEF Analyse, TextInv

LEMMA PrepareText == ASSUME IInv, TextInv, NEW r \in Run, Prepare(r) PROVE TextInv'
<1>1. PICK f \in File : f = at[r]
  BY RoundFacts DEF Prepare
<1>2. /\ UNCHANGED <<disk, plan, artifact, before, edits, faults>>
      /\ \/ UNCHANGED <<prep, results>>
         \/ /\ Valid(disk[f], plan[r][f]) /\ UNCHANGED results
            /\ prep' = [prep EXCEPT ![r][f] = [ready |-> TRUE, original |-> disk[f],
                                               updated |-> Updated(disk[f], plan[r][f])]]
         \/ Mark(r, f, "failed") /\ UNCHANGED prep
  BY <1>1 DEF Prepare
<1>3. ASSUME NEW q \in Run, NEW g \in File PROVE FileText(q, g)'
  <2>1. FileText(q, g)
    BY DEF TextInv
  <2>2. results'[q][g] = results[q][g] \/ results'[q][g] = results[q][g] \cup {"failed"}
    BY <1>2 DEF Mark, IInv, Domains, PerFile
  <2>3. CASE prep'[q][g] = prep[q][g]
    BY <1>2, <2>1, <2>2, <2>3 DEF FileText
  <2>4. CASE prep'[q][g] # prep[q][g]
    <3>1. /\ q = r /\ g = f /\ Valid(disk[f], plan[r][f])
          /\ prep'[r][f].original = disk[f] /\ prep'[r][f].updated = Updated(disk[f], plan[r][f])
      BY <1>2, <2>4 DEF IInv, Domains, PerFile
    <3>2. disk[f] \in Seq(Line)
      BY <3>1 DEF TextInv, Valid
    <3>3. Target[r] \subseteq Line
      BY ConstantsAssumption
    <3>4. Accepted(disk[f], plan[r][f])
      BY <2>1, <3>1, <3>2, <3>3 DEF FileText, Accepted, Valid
    <3>5. Edited(prep'[r][f], plan[r][f])
      BY <3>1, <3>4 DEF Edited
    <3>. QED BY <1>2, <2>1, <2>2, <3>1, <3>5 DEF FileText
  <2>. QED BY <2>3, <2>4
<1>. QED BY <1>2, <1>3 DEF TextInv

LEMMA CommitText == ASSUME IInv, TextInv, NEW r \in Run, Commit(r) PROVE TextInv'
<1>1. PICK f \in File : f = at[r]
  BY LoopFacts DEF Commit, Goto
<1>2. /\ prep[r][f].ready /\ disk' = [disk EXCEPT ![f] = prep[r][f].updated]
      /\ before' = [before EXCEPT ![r][f] = Kept(disk[f])]
      /\ UNCHANGED <<plan, prep, results, artifact, edits, faults>>
  BY <1>1 DEF Commit
<1>3. prep[r][f].updated \in Seq(Line)
  <2>1. Edited(prep[r][f], plan[r][f])
    BY <1>2 DEF TextInv, FileText
  <2>. QED BY <2>1, UpdatedWanted DEF Edited
<1>4. \A g \in File : disk'[g] \in Seq(Line) \cup {NoFile}
  BY <1>2, <1>3 DEF IInv, Domains, TextInv
<1>5. ASSUME NEW q \in Run, NEW g \in File PROVE FileText(q, g)'
  <2>1. FileText(q, g)
    BY DEF TextInv
  <2>2. before'[q][g] = before[q][g] \/ before'[q][g] = Kept(disk[f])
    BY <1>2 DEF IInv, Domains, PerFile
  <2>3. before'[q][g].kept \in BOOLEAN
    <3>1. before[q][g].kept \in BOOLEAN /\ Kept(disk[f]).kept = TRUE
      BY <2>1 DEF FileText, Kept
    <3>. QED BY <2>2, <3>1
  <2>. QED BY <1>2, <2>1, <2>3 DEF FileText
<1>. QED BY <1>2, <1>4, <1>5 DEF TextInv

LEMMA EditText == ASSUME IInv, TextInv, NEW f \in File, NEW c \in Content, Edit(f, c) PROVE TextInv'
<1>1. /\ disk' = [disk EXCEPT ![f] = c] /\ edits' \in 0..MaxEdits
      /\ UNCHANGED <<plan, prep, results, artifact, before, faults>>
  BY ConstantsAssumption DEF Edit, TextInv
<1>2. \A g \in File : disk'[g] \in Seq(Line) \cup {NoFile}
  BY <1>1, ContentType DEF IInv, Domains, TextInv
<1>. QED BY <1>1, <1>2 DEF TextInv, FileText

\* The other steps move the run and record results.
LEMMA RecordText ==
    ASSUME IInv, TextInv, NEW r \in Run,
           \/ Start(r) \/ FailRead(r) \/ Prepared(r) \/ WriteArtifact(r) \/ FailArtifact(r)
           \/ Skip(r) \/ FailCommit(r) \/ Verify(r) \/ FailVerify(r) \/ Finish(r) \/ Crash(r)
    PROVE  TextInv'
<1>1. UNCHANGED <<disk, plan, prep, before, edits>>
  BY DEF Start, FailRead, Prepared, WriteArtifact, FailArtifact, Skip, FailCommit, Verify, FailVerify,
     Finish, Crash
<1>2. faults' \in 0..MaxFaults
  BY FaultType DEF TextInv, Start, FailRead, Prepared, WriteArtifact, FailArtifact, Skip,
     FailCommit, Verify, FailVerify, Finish, Crash
<1>3. ASSUME NEW q \in Run, NEW f \in File
      PROVE  results'[q][f] \subseteq results[q][f] \cup {"skipped", "applied", "failed"}
  <2>1. \/ UNCHANGED results
        \/ results' = [results EXCEPT ![r] = @]
        \/ results' = [results EXCEPT ![r] = [g \in File |-> {}]]
        \/ results' = [results EXCEPT ![r] = [g \in File |->
                IF g \in skips[r] THEN @[g] \cup {"skipped"} ELSE @[g]]]
        \/ \E s \in {"applied", "failed"} : Mark(r, at[r], s)
    BY DEF Start, FailRead, Prepared, WriteArtifact, FailArtifact, Skip, FailCommit, Verify,
       FailVerify, Finish, Crash, Carried, Outcome
  <2>. QED BY <2>1 DEF Mark, IInv, Domains, PerFile
<1>4. ASSUME NEW q \in Run, NEW f \in File PROVE artifact'[q][f].kept \in BOOLEAN
  <2>1. \/ UNCHANGED artifact
        \/ artifact' = [artifact EXCEPT ![r] =
              [g \in File |-> IF prep[r][g].ready THEN Kept(prep[r][g].original) ELSE Nothing]]
    BY DEF Start, FailRead, Prepared, WriteArtifact, FailArtifact, Skip, FailCommit, Verify, FailVerify,
       Finish, Crash
  <2>2. \/ artifact'[q][f] = artifact[q][f] \/ artifact'[q][f] = Nothing
        \/ artifact'[q][f] = Kept(prep[r][f].original)
    BY <2>1 DEF IInv, Domains, PerFile
  <2>3. artifact[q][f].kept \in BOOLEAN
    BY DEF TextInv, FileText
  <2>4. Nothing.kept = FALSE /\ Kept(prep[r][f].original).kept = TRUE
    BY DEF Nothing, Kept
  <2>. QED BY <2>2, <2>3, <2>4
<1>. QED BY <1>1, <1>2, <1>3, <1>4 DEF TextInv, FileText

LEMMA NextText == IInv /\ TextInv /\ [Next]_vars => TextInv'
<1> SUFFICES ASSUME IInv, TextInv, [Next]_vars PROVE TextInv'
  OBVIOUS
<1>1. CASE UNCHANGED vars
  BY <1>1 DEF vars, TextInv, FileText
<1>2. ASSUME NEW r \in Run,
             \/ Start(r) \/ Analyse(r) \/ Prepare(r) \/ FailRead(r) \/ Prepared(r)
             \/ WriteArtifact(r) \/ FailArtifact(r) \/ Skip(r) \/ Commit(r)
             \/ FailCommit(r) \/ Verify(r) \/ FailVerify(r) \/ Finish(r) \/ Crash(r)
      PROVE  TextInv'
  BY <1>2, AnalyseText, PrepareText, CommitText, RecordText
<1>3. ASSUME NEW f \in File, NEW c \in Content, Edit(f, c) PROVE TextInv'
  BY <1>3, EditText
<1>. QED BY <1>1, <1>2, <1>3 DEF Next
-----------------------------------------------------------------------------
(* The theorems. *)

\* The inductive invariant: what a run has read, kept, replaced and reported
\* agree at every place of its loops.
THEOREM CodemodSound == Spec => []IInv
<1>1. IInv /\ [Next]_vars => IInv'
  <2> SUFFICES ASSUME IInv, [Next]_vars PROVE IInv'
    OBVIOUS
  <2>1. CASE UNCHANGED vars
    <3>1. Domains' /\ \A q \in Run : Same(q)
      BY <2>1 DEF vars, IInv, Domains, PerFile, Same
    <3>2. UNCHANGED <<disk, owner, mixed, raced, swapped>>
      BY <2>1 DEF vars
    <3>. QED BY <3>1, <3>2, QuietOthers DEF IInv
  <2>2. ASSUME NEW r \in Run,
               \/ Start(r) \/ Analyse(r) \/ Prepare(r) \/ FailRead(r) \/ Prepared(r)
               \/ WriteArtifact(r) \/ FailArtifact(r) \/ Skip(r) \/ Commit(r)
               \/ FailCommit(r) \/ Verify(r) \/ FailVerify(r) \/ Finish(r) \/ Crash(r)
        PROVE  IInv'
    BY <2>2, StartStep, AnalyseStep, PrepareStep, FailReadStep, PreparedStep, ArtifactStep,
       StopStep, SkipStep, CommitStep, FailCommitStep, VerifyStep,
       FailVerifyStep, FinishStep
  <2>3. ASSUME NEW f \in File, NEW c \in Content, Edit(f, c) PROVE IInv'
    BY <2>3, EditStep
  <2>. QED BY <2>1, <2>2, <2>3 DEF Next
<1>. QED BY InitInv, <1>1, PTL DEF Spec

\* Every file a run replaced can be taken back from its artifact, also after it
\* failed or died.
THEOREM ReplacedIsKept == Spec => []Recoverable
<1>1. IInv => Recoverable
  BY DEF IInv, RunInv, ContentInv, Recoverable
<1>. QED BY <1>1, CodemodSound, PTL

\* No replaced file had other targeted lines than the analysis saw.
THEOREM ReplacesWhatItSaw == Spec => []NoStaleEdit
<1>1. IInv => NoStaleEdit
  <2> SUFFICES ASSUME IInv, NEW r \in Run, NEW f \in File,
                      before[r][f].kept, f \notin raced[r]
               PROVE  LET c == before[r][f].content
                      IN \A s \in plan[r][f] : s.line \in DOMAIN c /\ c[s.line] = s.original
    BY DEF NoStaleEdit
  <2>1. ContentInv(r, f)
    BY DEF IInv, RunInv
  <2>2. before[r][f].content = prep[r][f].original /\ Valid(prep[r][f].original, plan[r][f])
    BY <2>1 DEF ContentInv, Kept
  <2>. QED BY <2>2 DEF Valid
<1>. QED BY <1>1, CodemodSound, PTL

\* The artifact of a run that required a clean worktree holds committed content.
THEOREM KeepsTheCommitted == Spec => []CleanRollback
<1>1. IInv => CleanRollback
  <2> SUFFICES ASSUME IInv, NEW r \in Run \ AllowDirty, NEW f \in File,
                      artifact[r][f].kept, f \notin mixed[r]
               PROVE  artifact[r][f].content = Committed[f]
    BY DEF CleanRollback
  <2>1. ContentInv(r, f) /\ CleanInv(r, f) /\ ProgressInv(r)
    BY DEF IInv, RunInv
  <2>2. pc[r] \notin {"idle", "refused"}
    BY <2>1 DEF ProgressInv, Untouched
  <2>. QED BY <2>1, <2>2 DEF ContentInv, CleanInv, Kept
<1>. QED BY <1>1, CodemodSound, PTL

\* A finished run reports every file with suggestions, and every file it skipped
\* an import in.  A replaced file that it reports as failed was changed by
\* somebody else before the check, or the call failed after the rename.
THEOREM ReportsAll == Spec => []Accounted
<1>1. IInv => Accounted
  <2> SUFFICES ASSUME IInv, NEW r \in Run, pc[r] = "done", NEW f \in File
               PROVE  /\ "skipped" \in results[r][f] <=> f \in skips[r]
                      /\ results[r][f] \ {"skipped"} \in
                            IF plan[r][f] = {} THEN {{}} ELSE {{"applied"}, {"failed"}}
                      /\ "applied" \in results[r][f] => before[r][f].kept
                      /\ "failed" \in results[r][f] /\ before[r][f].kept =>
                            f \in swapped[r] \cup late[r]
    BY DEF Accounted
  <2>1. Reported(r, f) /\ SkipInv(r)
    BY DEF IInv, RunInv, ProgressInv
  <2>. QED BY <2>1 DEF Reported, Verdict, SkipInv
<1>. QED BY <1>1, CodemodSound, PTL

\* Contents, suggestions, results and artifacts have their types, and what is
\* prepared is the result of the recursion.
THEOREM TextsSound == Spec => []TextInv
BY CodemodSound, InitText, NextText, PTL DEF Spec

\* The type invariant.
THEOREM TypeCorrect == Spec => []TypeOK
<1>1. IInv /\ TextInv => TypeOK
  <2> SUFFICES ASSUME IInv, TextInv PROVE TypeOK
    OBVIOUS
  <2>1. ASSUME NEW r \in Run, NEW f \in File, prep[r][f].ready
        PROVE  prep[r][f].original \in Seq(Line) /\ prep[r][f].updated \in Seq(Line)
    <3>1. Edited(prep[r][f], plan[r][f])
      BY <2>1 DEF TextInv, FileText
    <3>. QED BY <3>1, UpdatedWanted DEF Edited, Accepted
  <2>2. ASSUME NEW r \in Run, NEW f \in File, NEW s \in plan[r][f]
        PROVE  s.line \in Nat \ {0} /\ s.original \in Target[r]
    BY DEF TextInv, FileText
  <2>3. ASSUME NEW r \in Run, NEW f \in File
        PROVE  /\ artifact[r][f].kept \in BOOLEAN /\ before[r][f].kept \in BOOLEAN
               /\ results[r][f] \subseteq {"skipped", "applied", "failed"}
    BY DEF TextInv, FileText
  <2>4. /\ \A f \in File : disk[f] \in Seq(Line) \cup {NoFile}
        /\ edits \in 0..MaxEdits /\ faults \in 0..MaxFaults
    BY DEF TextInv
  <2>. QED BY <2>1, <2>2, <2>3, <2>4 DEF IInv, Domains, TypeOK
<1>. QED BY <1>1, CodemodSound, TextsSound, PTL

\* The new content of every prepared file is what its suggestions ask for: the
\* deletions and replacements hit the lines they name and no other.
THEOREM EditsExactly == Spec => []ExactEdit
<1>1. TextInv => ExactEdit
  <2> SUFFICES ASSUME TextInv, NEW r \in Run, NEW f \in File, prep[r][f].ready
               PROVE  Wanted(prep[r][f].updated, prep[r][f].original, plan[r][f])
    BY DEF ExactEdit
  <2>1. Edited(prep[r][f], plan[r][f])
    BY DEF TextInv, FileText
  <2>. QED BY <2>1, UpdatedWanted DEF Edited
<1>. QED BY <1>1, TextsSound, PTL
==============================================================================
