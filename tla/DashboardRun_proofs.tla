------------------------- MODULE DashboardRun_proofs -------------------------
(***************************************************************************)
(* Proofs about DashboardRun, for any entries, workers, pushes and faults, *)
(* and any number of processes whose runs do not overlap: the requested    *)
(* revision is analysed, the commit reported is the one analysed where no  *)
(* two entries follow one ref, and what a run left is repaired later.     *)
(***************************************************************************)
EXTENDS DashboardRun, SequenceTheorems, TLAPS

-----------------------------------------------------------------------------
(* The inductive invariant. *)

\* Runs do not overlap.  (The cache has no lock that would ensure it.)
Alone == \A p, q \in Proc : pc[p] # "idle" /\ pc[q] # "idle" => p = q

\* No other entry shares the checkout of i.
Own(i) == \A j \in Entry : Entries[j] = Entries[i] => j = i

\* A commit that the request of an entry accepts.
Accepts(p, i, c) == /\ c # 0
                    /\ IF Entries[i] \in Commit THEN c = Entries[i]
                                             ELSE c >= from[p][Entries[i]]

\* What the git commands have made of the checkout at each step.
CheckoutInv(p) ==
    /\ pc[p] \in {"clone", "init"} => fresh[p] /\ CO(p) = Absent
    /\ pc[p] = "cloneData" =>
          fresh[p] /\ CO(p) = [Absent EXCEPT !.git = TRUE, !.origin = TRUE]
    /\ pc[p] = "origin" => fresh[p] /\ CO(p) = [Absent EXCEPT !.git = TRUE]
    /\ pc[p] \in {"clone", "cloneData"} => Pin(p) = 0
    /\ pc[p] \in {"init", "origin"} \/ (pc[p] = "fetch" /\ fresh[p]) => Pin(p) # 0
    /\ pc[p] \in {"fetch", "checkout", "reset", "clean", "resolve"} =>
          CO(p).git /\ (fresh[p] => ~CO(p).lock)
    /\ pc[p] = "fetch" => CO(p).origin
    /\ pc[p] \in {"checkout", "reset", "clean", "resolve"} => Accepts(p, at[p], Ref(p))
    /\ pc[p] \in {"reset", "clean", "resolve"} =>
          CO(p).head = Ref(p) /\ CO(p).tree = Ref(p) /\ ~CO(p).lock
    /\ pc[p] = "resolve" => ~CO(p).litter
    /\ pc[p] = "cleanup" => at[p] \in blamed[p] \/ Offers(from[p], Entries[at[p]]) = 0

\* Entries get their results in order, and are analysed after the last of them.
ProgressInv(p) ==
    /\ \A r \in Moving : from[p][r] <= up[r]
    /\ pc[p] \in GitPCs => \A j \in Entry : j >= at[p] => res[p][j] = Unset
    /\ \A i \in Entry : res[p][i].state = "running" => pc[p] = "jobs"
    /\ \A i \in Entry : res[p][i].state = "ready" => pc[p] # "idle"

\* A result accounts for the tree in the checkout until it has been read.
ResultInv(p, i) ==
    /\ res[p][i].state \in {"ready", "running", "done"} => Accepts(p, i, res[p][i].commit)
    /\ res[p][i].state = "ready" =>
          /\ Entries[i] \in Commit => View(co[PathOf(i)]) \in {0, Entries[i]}
          /\ Own(i) => View(co[PathOf(i)]) = res[p][i].commit
    /\ res[p][i].state = "running" => View(co[PathOf(i)]) = res[p][i].seen
    /\ res[p][i].state \in {"running", "done"} =>
          /\ Entries[i] \in Commit => res[p][i].seen = Entries[i]
          /\ Own(i) => res[p][i].seen = res[p][i].commit

IInv ==
    /\ TypeOK
    /\ \A p \in Proc : CheckoutInv(p) /\ ProgressInv(p)
    /\ \A p \in Proc, i \in Entry : ResultInv(p, i)

-----------------------------------------------------------------------------
(* Type correctness. *)

Checkouts == [git : BOOLEAN, origin : BOOLEAN, fetched : 0..MaxCommit,
              head : 0..MaxCommit, tree : 0..Mixed, litter : BOOLEAN,
              lock : BOOLEAN]
Results == [state : {"none", "ready", "running", "done", "error"},
            commit : 0..MaxCommit, seen : 0..Mixed]

\* The types of pc, at and res, which a git command that fails changes
\* together.
ControlType ==
    /\ pc' \in [Proc -> GitPCs \cup {"idle", "jobs"}]
    /\ at' \in [Proc -> Entry] /\ res' \in [Proc -> [Entry -> Results]]

LEMMA EntryType ==
  /\ Entry = 1..Len(Entries) /\ Len(Entries) \in Nat \ {0}
  /\ \A i \in Entry : i \in Nat /\ Entries[i] \in Pins /\ NextEntry(i) \in Entry
  <1>1. Entries \in Seq(Pins) /\ Entries # <<>> BY ConstantsAssumption
  <1>2. Entry = 1..Len(Entries) /\ Len(Entries) \in Nat \ {0} BY <1>1 DEF Entry
  <1>3. ASSUME NEW i \in Entry
        PROVE  i \in Nat /\ Entries[i] \in Pins /\ NextEntry(i) \in Entry
    <2>1. i \in 1..Len(Entries) BY <1>2
    <2>2. i \in Nat BY <1>2, <2>1
    <2>3. Entries[i] \in Pins BY <1>1, <2>1, ElementOfSeq
    <2>4. NextEntry(i) \in Entry BY <1>2, <2>1 DEF NextEntry
    <2> QED BY <2>2, <2>3, <2>4
  <1> QED BY <1>2, <1>3

LEMMA CommitType ==
  /\ MaxCommit \in Nat \ {0} /\ Mixed \in Nat /\ Mixed = MaxCommit + 1
  /\ Absent \in Checkouts /\ Unset \in Results /\ Error \in Results
  BY ConstantsAssumption DEF Mixed, Absent, Checkouts, Unset, Results, Error

\* What each kind of pin is, and what the remote has for it.
LEMMA PinKinds ==
  /\ 0 \in Moving /\ Commit \subseteq 1..MaxCommit /\ Commit \cap Moving = {}
  /\ \A k \in Pins : k \in Commit \/ k \in Moving
  BY ConstantsAssumption DEF Moving, Commit, Pins

LEMMA OffersKinds ==
  ASSUME NEW remote \in [Moving -> 0..MaxCommit], NEW k \in Pins
  PROVE  /\ Offers(remote, k) \in 0..MaxCommit
         /\ k \in Commit => Offers(remote, k) \in {0, k}
         /\ k \in Moving => Offers(remote, k) = remote[k]
  <1>1. k \in Moving => Offers(remote, k) = remote[k] BY DEF Offers
  <1>2. k \in Commit => Offers(remote, k) \in {0, k} BY PinKinds DEF Offers
  <1>3. 0 \in 0..MaxCommit /\ 1..MaxCommit \subseteq 0..MaxCommit BY ConstantsAssumption
  <1> QED BY <1>1, <1>2, <1>3, PinKinds

\* Pushes take nothing away.
LEMMA OffersStay ==
  ASSUME NEW old \in [Moving -> 0..MaxCommit], NEW new \in [Moving -> 0..MaxCommit],
         \A r \in Moving : old[r] <= new[r], NEW k \in Pins, Offers(new, k) = 0
  PROVE  Offers(old, k) = 0
  <1>1. CASE k \in Moving BY <1>1, ConstantsAssumption DEF Offers
  <1>2. CASE k \in Commit
    <2>1. k \notin Moving /\ k # 0 /\ k \in Nat BY <1>2, PinKinds, ConstantsAssumption
    <2>2. \A r \in Moving : ~(k <= new[r]) BY <2>1 DEF Offers
    <2>3. \A r \in Moving : old[r] \in Nat /\ new[r] \in Nat
      BY ConstantsAssumption
    <2>4. \A r \in Moving : ~(k <= old[r]) BY <2>1, <2>2, <2>3
    <2> QED BY <2>1, <2>4 DEF Offers
  <1> QED BY <1>1, <1>2, PinKinds

\* The parts of TypeOK about one process.
LEMMA Typed ==
  ASSUME TypeOK, NEW p \in Proc
  PROVE  /\ at[p] \in Entry /\ Pin(p) \in Pins /\ Path(p) = Pin(p)
         /\ CO(p) \in Checkouts /\ co \in [Pins -> Checkouts]
         /\ Ref(p) \in 0..MaxCommit /\ up \in [Moving -> 0..MaxCommit]
         /\ up[0] \in Commit /\ from[p] \in [Moving -> 0..MaxCommit]
         /\ res \in [Proc -> [Entry -> Results]] /\ res[p] \in [Entry -> Results]
         /\ fresh[p] \in BOOLEAN /\ pc[p] \in GitPCs \cup {"idle", "jobs"}
         /\ blamed[p] \in SUBSET Entry
  <1>1. at[p] \in Entry BY DEF TypeOK
  <1>2. Pin(p) \in Pins /\ Path(p) = Pin(p)
    BY <1>1, EntryType DEF Pin, Path, PathOf
  <1>3. co \in [Pins -> Checkouts] BY DEF TypeOK, Checkouts
  <1>4. CO(p) \in Checkouts BY <1>2, <1>3 DEF CO
  <1>5. Ref(p) \in 0..MaxCommit BY <1>4 DEF Ref, Checkouts
  <1>6. res \in [Proc -> [Entry -> Results]] BY DEF TypeOK, Results
  <1>7. up \in [Moving -> 0..MaxCommit] /\ up[0] \in Commit
    BY PinKinds, ConstantsAssumption DEF TypeOK, Commit
  <1> QED BY <1>1, <1>2, <1>3, <1>4, <1>5, <1>6, <1>7 DEF TypeOK

LEMMA RecordType ==
  ASSUME TypeOK, NEW p \in Proc, NEW r \in Results, Record(p, r)
  PROVE  ControlType
  <1>1. pc \in [Proc -> GitPCs \cup {"idle", "jobs"}] /\ at \in [Proc -> Entry]
    BY DEF TypeOK
  <1>2. res \in [Proc -> [Entry -> Results]] /\ at[p] \in Entry BY Typed
  <1>3. pc' \in [Proc -> GitPCs \cup {"idle", "jobs"}] BY <1>1 DEF Record, GitPCs
  <1>4. at' \in [Proc -> Entry] BY <1>1, EntryType DEF Record
  <1>5. res' \in [Proc -> [Entry -> Results]] BY <1>2 DEF Record
  <1> QED BY <1>3, <1>4, <1>5 DEF ControlType

LEMMA GiveUpType ==
  ASSUME TypeOK, NEW p \in Proc, GiveUp(p)
  PROVE  ControlType
  <1>1. CASE CleansUp(p)
    <2>1. pc' \in [Proc -> GitPCs \cup {"idle", "jobs"}]
      BY <1>1 DEF GiveUp, TypeOK, GitPCs
    <2>2. at' \in [Proc -> Entry] /\ res' \in [Proc -> [Entry -> Results]]
      BY <1>1, Typed DEF GiveUp, TypeOK
    <2> QED BY <2>1, <2>2 DEF ControlType
  <1>2. CASE ~CleansUp(p) BY <1>2, RecordType, CommitType DEF GiveUp
  <1> QED BY <1>1, <1>2

LEMMA FaultType ==
  ASSUME TypeOK, NEW p \in Proc, NEW i \in Entry
  PROVE  /\ Fault => faults' \in 0..MaxFaults
         /\ [blamed EXCEPT ![p] = @ \cup {i}] \in [Proc -> SUBSET Entry]
  <1>1. Fault => faults' \in 0..MaxFaults BY ConstantsAssumption DEF TypeOK, Fault
  <1>2. blamed \in [Proc -> SUBSET Entry] BY DEF TypeOK
  <1>3. blamed[p] \cup {i} \in SUBSET Entry BY <1>2
  <1> QED BY <1>1, <1>2, <1>3

LEMMA GitType ==
  ASSUME TypeOK, NEW p \in Proc, NEW step, NEW next \in GitPCs, NEW ok,
         NEW new \in Checkouts, Git(p, step, next, ok, new)
  PROVE  TypeOK'
  <1>1. UNCHANGED <<up, fresh, runs, from>> BY DEF Git
  <1>2. ControlType /\ co' \in [Pins -> Checkouts]
    <2>1. CASE GiveUp(p) /\ UNCHANGED co BY <2>1, GiveUpType, Typed
    <2>2. CASE /\ co' = [co EXCEPT ![Path(p)] = new] /\ pc' = [pc EXCEPT ![p] = next]
               /\ UNCHANGED <<at, res>>
      <3>1. pc' \in [Proc -> GitPCs \cup {"idle", "jobs"}] BY <2>2 DEF TypeOK
      <3>2. at' \in [Proc -> Entry] /\ res' \in [Proc -> [Entry -> Results]]
        BY <2>2, Typed DEF TypeOK
      <3>3. co' \in [Pins -> Checkouts] BY <2>2, Typed
      <3> QED BY <3>1, <3>2, <3>3 DEF ControlType
    <2> QED BY <2>1, <2>2 DEF Git
  <1>3. faults' \in 0..MaxFaults /\ blamed' \in [Proc -> SUBSET Entry]
    <2>1. CASE UNCHANGED <<faults, blamed>> BY <2>1 DEF TypeOK
    <2>2. CASE Fault /\ blamed' = [blamed EXCEPT ![p] = @ \cup {at[p]}]
      BY <2>2, FaultType, Typed
    <2> QED BY <2>1, <2>2 DEF Git
  <1> QED BY <1>1, <1>2, <1>3 DEF TypeOK, ControlType, Checkouts, Results

\* Every git command of Materialize, with what it leaves on success.
LEMMA GitSteps ==
  ASSUME TypeOK, NEW p \in Proc,
         \/ Clone(p) \/ CloneData(p) \/ InitRepo(p) \/ AddOrigin(p) \/ Fetch(p)
         \/ Checkout(p) \/ Reset(p) \/ Clean(p)
  PROVE  TypeOK'
  <1> DEFINE c == CO(p)
  <1>1. c \in Checkouts /\ up[0] \in 0..MaxCommit /\ Ref(p) \in 0..MaxCommit
        /\ up[0] \in 0..Mixed /\ Ref(p) \in 0..Mixed
        /\ Offers(up, Pin(p)) \in 0..MaxCommit
    BY Typed, CommitType, OffersKinds DEF Commit
  <1> HIDE DEF c
  <1>2. /\ [Absent EXCEPT !.git = TRUE, !.origin = TRUE] \in Checkouts
        /\ [c EXCEPT !.head = up[0], !.tree = up[0]] \in Checkouts
        /\ [c EXCEPT !.git = TRUE] \in Checkouts
        /\ [c EXCEPT !.origin = TRUE] \in Checkouts
        /\ [c EXCEPT !.fetched = Offers(up, Pin(p))] \in Checkouts
        /\ [c EXCEPT !.head = Ref(p), !.tree = Ref(p)] \in Checkouts
        /\ [c EXCEPT !.litter = FALSE] \in Checkouts
    BY <1>1, CommitType DEF Checkouts
  <1>3. {"cloneData", "checkout", "origin", "fetch", "reset", "clean",
         "resolve"} \subseteq GitPCs
    BY DEF GitPCs
  <1>4. CASE Clone(p) BY <1>2, <1>3, <1>4, GitType DEF Clone
  <1>5. CASE CloneData(p) BY <1>2, <1>3, <1>5, GitType DEF CloneData, c
  <1>6. CASE InitRepo(p) BY <1>2, <1>3, <1>6, GitType DEF InitRepo, c
  <1>7. CASE AddOrigin(p) BY <1>2, <1>3, <1>7, GitType DEF AddOrigin, c
  <1>8. CASE Fetch(p) BY <1>2, <1>3, <1>8, GitType DEF Fetch, c
  <1>9. CASE Checkout(p) BY <1>2, <1>3, <1>9, GitType DEF Checkout, Move, c
  <1>10. CASE Reset(p) BY <1>2, <1>3, <1>10, GitType DEF Reset, Move, c
  <1>11. CASE Clean(p) BY <1>2, <1>3, <1>11, GitType DEF Clean, c
  <1> QED BY <1>4, <1>5, <1>6, <1>7, <1>8, <1>9, <1>10, <1>11

LEMMA OtherMaterializeSteps ==
  ASSUME TypeOK, NEW p \in Proc, Check(p) \/ Remove(p) \/ Resolve(p) \/ Cleanup(p)
  PROVE  TypeOK'
  <1>1. at[p] \in Entry /\ at \in [Proc -> Entry] /\ Path(p) \in Pins
        /\ co \in [Pins -> Checkouts] /\ CO(p) \in Checkouts
        /\ res \in [Proc -> [Entry -> Results]]
        /\ pc \in [Proc -> GitPCs \cup {"idle", "jobs"}]
    BY Typed DEF TypeOK
  <1>2. /\ [blamed EXCEPT ![p] = @ \cup {at[p]}] \in [Proc -> SUBSET Entry]
        /\ Fault => faults' \in 0..MaxFaults
    BY <1>1, FaultType
  <1>3. faults' \in 0..MaxFaults /\ blamed' \in [Proc -> SUBSET Entry]
    <2>1. UNCHANGED <<faults, blamed>>
          \/ (Fault /\ blamed' = [blamed EXCEPT ![p] = @ \cup {at[p]}])
      BY DEF Check, Remove, Resolve, Cleanup
    <2> QED BY <1>2, <2>1 DEF TypeOK
  <1>4. co' \in [Pins -> Checkouts]
    <2>1. UNCHANGED co \/ co' = [co EXCEPT ![Path(p)] = Absent]
      BY DEF Check, Remove, Resolve, Cleanup
    <2> QED BY <1>1, <2>1, CommitType
  <1>5. fresh' \in [Proc -> BOOLEAN]
    BY DEF TypeOK, Check, Remove, Resolve, Cleanup
  <1>6. UNCHANGED <<up, runs, from>> BY DEF Check, Remove, Resolve, Cleanup
  <1>7. ControlType
    <2>1. CASE Check(p)
      BY <1>1, <2>1 DEF Check, ControlType, GitPCs
    <2>2. CASE Remove(p)
      <3>1. CASE Record(p, Error) BY <3>1, RecordType, CommitType
      <3>2. CASE /\ pc' = [pc EXCEPT ![p] = IF Pin(p) = 0 THEN "clone" ELSE "init"]
                 /\ UNCHANGED <<at, res>>
        BY <1>1, <3>2 DEF ControlType, GitPCs
      <3> QED BY <2>2, <3>1, <3>2 DEF Remove
    <2>3. CASE Resolve(p)
      <3>1. CASE GiveUp(p) BY <3>1, GiveUpType
      <3>2. CASE Record(p, [state |-> "ready", commit |-> CO(p).head, seen |-> 0])
        <4>1. [state |-> "ready", commit |-> CO(p).head, seen |-> 0] \in Results
          BY <1>1, CommitType DEF Checkouts, Results
        <4> QED BY <3>2, <4>1, RecordType
      <3> QED BY <2>3, <3>1, <3>2 DEF Resolve
    <2>4. CASE Cleanup(p) BY <2>4, RecordType, CommitType DEF Cleanup
    <2> QED BY <2>1, <2>2, <2>3, <2>4
  <1> QED BY <1>3, <1>4, <1>5, <1>6, <1>7 DEF TypeOK, ControlType, Checkouts, Results

\* A result that a worker or the main goroutine writes.
LEMMA JobType ==
  ASSUME TypeOK, NEW p \in Proc, NEW i \in Entry, Dispatch(p, i) \/ Analysed(p, i)
  PROVE  TypeOK'
  <1>1. res \in [Proc -> [Entry -> Results]] /\ res[p][i] \in Results
        /\ co[PathOf(i)] \in Checkouts
    BY Typed, EntryType DEF PathOf
  <1>2. UNCHANGED <<up, co, pc, at, fresh, runs, from>> BY DEF Dispatch, Analysed
  <1>3. res' \in [Proc -> [Entry -> Results]]
    <2>1. CASE Dispatch(p, i)
      <3>1. PICK s \in {"error", "running"}, t \in 0..Mixed :
               res' = [res EXCEPT ![p][i].state = s, ![p][i].seen = t]
        <4>1. View(co[PathOf(i)]) \in 0..Mixed BY <1>1, CommitType DEF Checkouts, View
        <4> QED BY <2>1, <4>1 DEF Dispatch
      <3>2. [[res[p][i] EXCEPT !.state = s] EXCEPT !.seen = t] \in Results
        BY <1>1 DEF Results
      <3> QED BY <1>1, <3>1, <3>2
    <2>2. CASE Analysed(p, i)
      <3>1. CASE res' = [res EXCEPT ![p][i] = Error] BY <1>1, <3>1, CommitType
      <3>2. CASE \E t \in 0..Mixed :
                    res' = [res EXCEPT ![p][i].state = "done", ![p][i].seen = t]
        <4>1. PICK t \in 0..Mixed :
                 res' = [res EXCEPT ![p][i].state = "done", ![p][i].seen = t]
          BY <3>2
        <4>2. [[res[p][i] EXCEPT !.state = "done"] EXCEPT !.seen = t] \in Results
          BY <1>1 DEF Results
        <4> QED BY <1>1, <4>1, <4>2
      <3>3. res[p][i].seen \in 0..Mixed /\ Mixed \in 0..Mixed
        BY <1>1, CommitType DEF Results
      <3> DEFINE t == IF View(co[PathOf(i)]) = res[p][i].seen
                      THEN res[p][i].seen ELSE Mixed
      <3>4. t \in 0..Mixed BY <3>3
      <3>5. CASE res' = [res EXCEPT ![p][i].state = "done", ![p][i].seen = t]
        BY <3>2, <3>4, <3>5
      <3>6. res' = [res EXCEPT ![p][i] = Error]
            \/ res' = [res EXCEPT ![p][i].state = "done", ![p][i].seen = t]
        BY <1>1, <2>2 DEF Analysed, Results
      <3> QED BY <3>1, <3>5, <3>6
    <2> QED BY <2>1, <2>2
  <1>4. faults' \in 0..MaxFaults /\ blamed' \in [Proc -> SUBSET Entry]
    <2>1. UNCHANGED <<faults, blamed>>
          \/ (Fault /\ blamed' = [blamed EXCEPT ![p] = @ \cup {i}])
      BY DEF Dispatch, Analysed
    <2>2. /\ [blamed EXCEPT ![p] = @ \cup {i}] \in [Proc -> SUBSET Entry]
          /\ Fault => faults' \in 0..MaxFaults
      BY FaultType
    <2> QED BY <2>1, <2>2 DEF TypeOK
  <1> QED BY <1>2, <1>3, <1>4 DEF TypeOK, Results

LEMMA RunType ==
  ASSUME TypeOK, NEW p \in Proc, Start(p) \/ Return(p) \/ Crash(p)
  PROVE  TypeOK'
  <1>1. /\ co \in [Pins -> Checkouts] /\ Path(p) \in Pins
        /\ CO(p) = co[Path(p)] /\ CO(p) \in Checkouts
    BY Typed DEF CO
  <1>2. 1 \in Entry BY EntryType
  <1>3. /\ [i \in Entry |-> Unset] \in [Entry -> Results]
        /\ res \in [Proc -> [Entry -> Results]]
    BY CommitType, Typed
  <1>4. CASE Start(p)
    <2>1. res' \in [Proc -> [Entry -> Results]] BY <1>3, <1>4 DEF Start
    <2>2. pc' \in [Proc -> GitPCs \cup {"idle", "jobs"}] BY <1>4 DEF Start, TypeOK, GitPCs
    <2>3. at' \in [Proc -> Entry] BY <1>2, <1>4 DEF Start, TypeOK
    <2>4. runs' \in 0..MaxRuns BY <1>4, ConstantsAssumption DEF Start, TypeOK
    <2>5. from' \in [Proc -> [Moving -> 0..MaxCommit]] /\ blamed' \in [Proc -> SUBSET Entry]
      BY <1>4 DEF Start, TypeOK
    <2>6. UNCHANGED <<up, co, fresh, faults>> BY <1>4 DEF Start
    <2> QED BY <2>1, <2>2, <2>3, <2>4, <2>5, <2>6 DEF TypeOK, Results
  <1>5. CASE Return(p)
    BY <1>5 DEF Return, TypeOK
  <1>6. CASE Crash(p)
    <2>1. res' \in [Proc -> [Entry -> Results]] BY <1>3, <1>6 DEF Crash
    <2>2. pc' \in [Proc -> GitPCs \cup {"idle", "jobs"}] BY <1>6 DEF Crash, TypeOK
    <2>3. faults' \in 0..MaxFaults BY <1>2, <1>6, FaultType DEF Crash
    <2>4. co' \in [Pins -> Checkouts]
      <3>1. CASE UNCHANGED co BY <1>1, <3>1
      <3>2. ASSUME NEW locked \in BOOLEAN, NEW litter \in BOOLEAN,
                   co' = [co EXCEPT ![Path(p)] =
                      [CO(p) EXCEPT !.tree = Mixed, !.lock = locked, !.litter = @ \/ litter]]
            PROVE  co' \in [Pins -> Checkouts]
        <4> DEFINE l == CO(p).litter \/ litter
        <4>1. Mixed \in 0..Mixed /\ l \in BOOLEAN BY CommitType
        <4>2. co' = [co EXCEPT ![Path(p)] = [CO(p) EXCEPT !.tree = Mixed, !.lock = locked,
                                                          !.litter = l]]
          BY <3>2
        <4> HIDE DEF l
        <4>3. [CO(p) EXCEPT !.tree = Mixed, !.lock = locked, !.litter = l] \in Checkouts
          BY <1>1, <4>1 DEF Checkouts
        <4> QED BY <1>1, <4>2, <4>3
      <3> QED BY <1>6, <3>1, <3>2 DEF Crash
    <2>5. UNCHANGED <<up, at, fresh, runs, from, blamed>> BY <1>6 DEF Crash
    <2> QED BY <2>1, <2>2, <2>3, <2>4, <2>5 DEF TypeOK, Results, Checkouts
  <1> QED BY <1>4, <1>5, <1>6

LEMMA PushType == ASSUME TypeOK, Push PROVE TypeOK'
  <1>1. up' \in [Moving -> 0..MaxCommit] /\ up'[0] # 0
    BY PinKinds, ConstantsAssumption DEF Push, TypeOK, Commit
  <1> QED BY <1>1 DEF Push, TypeOK

LEMMA NextType == TypeOK /\ [Next]_vars => TypeOK'
  <1> SUFFICES ASSUME TypeOK, [Next]_vars PROVE TypeOK'
    OBVIOUS
  <1>1. CASE Push BY <1>1, PushType
  <1>2. ASSUME NEW p \in Proc, Start(p) \/ Step(p) \/ Crash(p) PROVE TypeOK'
    BY <1>2, GitSteps, OtherMaterializeSteps, JobType, RunType DEF Step
  <1>3. CASE UNCHANGED vars BY <1>3 DEF TypeOK, vars
  <1> QED BY <1>1, <1>2, <1>3 DEF Next

LEMMA InitType == Init => TypeOK
  <1> SUFFICES ASSUME Init PROVE TypeOK
    OBVIOUS
  <1>1. up \in [Moving -> 0..MaxCommit] /\ up[0] # 0
    BY PinKinds, ConstantsAssumption DEF Init
  <1>3. 1 \in Entry /\ 0 \in 0..MaxRuns /\ 0 \in 0..MaxFaults
    BY EntryType, ConstantsAssumption
  <1>2. co \in [Pins -> Checkouts] /\ res \in [Proc -> [Entry -> Results]]
    BY CommitType DEF Init
  <1> QED BY <1>1, <1>2, <1>3 DEF Init, TypeOK, Checkouts, Results

\* Type correctness, for any processes.
THEOREM TypeCorrect == Spec => []TypeOK
  <1> QED BY InitType, NextType, PTL DEF Spec

-----------------------------------------------------------------------------
(* What a step leaves of the other processes and of the other checkouts. *)

\* The state of a process, apart from its checkout.
SameProcess(q) ==
    /\ pc'[q] = pc[q] /\ at'[q] = at[q] /\ fresh'[q] = fresh[q]
    /\ res'[q] = res[q] /\ from'[q] = from[q] /\ blamed'[q] = blamed[q]

ProcessInv(q) ==
    /\ CheckoutInv(q) /\ ProgressInv(q)
    /\ \A i \in Entry : ResultInv(q, i)

\* A process that is idle, or whose checkouts nobody touches, loses nothing.
LEMMA Undisturbed ==
  ASSUME TypeOK, NEW q \in Proc, ProcessInv(q), SameProcess(q), 
         \A r \in Moving : up'[r] \in Nat /\ up'[r] >= up[r],
         pc[q] = "idle" \/ UNCHANGED co
  PROVE  ProcessInv(q)'
  <1>1. /\ \A r \in Moving : from[q][r] \in Nat /\ up[r] \in Nat
        /\ at[q] \in Entry /\ (pc[q] = "idle" => pc[q] \notin GitPCs)
    BY Typed, ConstantsAssumption DEF GitPCs
  <1>2. ASSUME pc[q] = "idle" PROVE ProcessInv(q)'
    <2>1. CheckoutInv(q)' BY <1>2 DEF SameProcess, CheckoutInv
    <2>2. ProgressInv(q)' BY <1>1, <1>2 DEF SameProcess, ProcessInv, ProgressInv
    <2>3. ASSUME NEW i \in Entry PROVE ResultInv(q, i)'
      <3>1. res[q][i].state \notin {"ready", "running"} /\ ResultInv(q, i)
        BY <1>2 DEF ProcessInv, ProgressInv
      <3> QED BY <3>1 DEF ResultInv, SameProcess, Accepts
    <2> QED BY <2>1, <2>2, <2>3 DEF ProcessInv
  <1>3. ASSUME UNCHANGED co PROVE ProcessInv(q)'
    <2>1. CO(q)' = CO(q) /\ Pin(q)' = Pin(q) /\ Ref(q)' = Ref(q)
      BY <1>3 DEF SameProcess, CO, Path, Pin, Ref
    <2>2. CheckoutInv(q)' BY <2>1 DEF SameProcess, ProcessInv, CheckoutInv, Accepts
    <2>3. ProgressInv(q)' BY <1>1 DEF SameProcess, ProcessInv, ProgressInv
    <2>4. ASSUME NEW i \in Entry PROVE ResultInv(q, i)'
      BY <1>3 DEF ProcessInv, ResultInv, SameProcess, Accepts
    <2> QED BY <2>2, <2>3, <2>4 DEF ProcessInv
  <1> QED BY <1>2, <1>3

LEMMA OthersSame ==
  ASSUME TypeOK, NEW p \in Proc, Start(p) \/ Step(p) \/ Crash(p), NEW q \in Proc, q # p
  PROVE  SameProcess(q) /\ up' = up
  <1>1. /\ pc \in [Proc -> GitPCs \cup {"idle", "jobs"}] /\ at \in [Proc -> Entry]
        /\ fresh \in [Proc -> BOOLEAN] /\ res \in [Proc -> [Entry -> Results]]
        /\ from \in [Proc -> [Moving -> 0..MaxCommit]] /\ blamed \in [Proc -> SUBSET Entry]
    BY DEF TypeOK, Results
  <1>2. ASSUME NEW r, Record(p, r)
        PROVE  pc'[q] = pc[q] /\ at'[q] = at[q] /\ res'[q] = res[q]
    BY <1>1, <1>2 DEF Record
  <1>3. ASSUME GiveUp(p)
        PROVE  pc'[q] = pc[q] /\ at'[q] = at[q] /\ res'[q] = res[q]
    BY <1>1, <1>2, <1>3 DEF GiveUp
  <1>4. ASSUME NEW step, NEW next, NEW ok, NEW new, Git(p, step, next, ok, new)
        PROVE  SameProcess(q) /\ up' = up
    BY <1>1, <1>3, <1>4 DEF Git, SameProcess
  <1>5. CASE \/ Clone(p) \/ CloneData(p) \/ InitRepo(p) \/ AddOrigin(p) \/ Fetch(p)
             \/ Checkout(p) \/ Reset(p) \/ Clean(p)
    BY <1>4, <1>5 DEF Clone, CloneData, InitRepo, AddOrigin, Fetch, Checkout, Reset,
                     Clean, Move
  <1>6. CASE Check(p) \/ Remove(p) \/ Cleanup(p)
    BY <1>1, <1>2, <1>6 DEF Check, Remove, Cleanup, SameProcess
  <1>7. CASE Resolve(p) BY <1>1, <1>2, <1>3, <1>7 DEF Resolve, SameProcess
  <1>8. CASE \E i \in Entry : Dispatch(p, i) \/ Analysed(p, i)
    BY <1>1, <1>8 DEF Dispatch, Analysed, SameProcess
  <1>9. CASE Return(p) \/ Start(p) \/ Crash(p)
    BY <1>1, <1>9 DEF Return, Start, Crash, SameProcess
  <1> QED BY <1>5, <1>6, <1>7, <1>8, <1>9 DEF Step

\* A step of a run changes its own checkout only, and the tree of a pinned one
\* only to nothing or to the pin.
CheckoutStep(p) ==
    /\ \A k \in Pins : k # Path(p) => co'[k] = co[k]
    /\ Pin(p) \in Commit => View(co'[Path(p)]) \in {0, Pin(p), View(CO(p))}

LEMMA ResultStays ==
  ASSUME TypeOK, NEW p \in Proc, ProcessInv(p), pc[p] \in GitPCs, CheckoutStep(p),
         NEW i \in Entry, res'[p][i] = res[p][i], from'[p] = from[p]
  PROVE  ResultInv(p, i)'
  <1>1. at[p] \in Entry /\ Entries[i] \in Pins /\ PathOf(i) = Entries[i]
        /\ Path(p) = Entries[at[p]] /\ Pin(p) = Entries[at[p]] /\ CO(p) = co[Path(p)]
    BY Typed, EntryType DEF PathOf, Pin, CO
  <1>2. ResultInv(p, i) /\ res[p][i].state # "running"
    BY DEF ProcessInv, ProgressInv, GitPCs
  <1>3. CASE i = at[p]
    <2>1. at[p] >= at[p] BY <1>1, EntryType
    <2>2. res[p][i] = Unset BY <1>3, <2>1 DEF ProcessInv, ProgressInv
    <2> QED BY <2>2 DEF ResultInv, Unset
  <1>4. CASE i # at[p]
    <2>1. Accepts(p, i, res[p][i].commit)' <=> Accepts(p, i, res[p][i].commit)
      BY DEF Accepts
    <2>2. CASE Entries[i] = Entries[at[p]]
      <3>1. ~Own(i) BY <1>1, <1>4, <2>2 DEF Own
      <3>2. Entries[i] \in Commit =>
               View(co'[PathOf(i)]) \in {0, Entries[i], View(co[PathOf(i)])}
        BY <1>1, <2>2 DEF CheckoutStep
      <3> QED BY <1>2, <2>1, <3>1, <3>2 DEF ResultInv, Own, PathOf
    <2>3. CASE Entries[i] # Entries[at[p]]
      <3>1. co'[PathOf(i)] = co[PathOf(i)] BY <1>1, <2>3 DEF CheckoutStep
      <3> QED BY <1>2, <2>1, <3>1 DEF ResultInv, Own, PathOf
    <2> QED BY <2>2, <2>3
  <1> QED BY <1>3, <1>4

\* Results of the other entries stay when one is recorded.
LEMMA RecordKeeps ==
  ASSUME TypeOK, NEW p \in Proc, NEW r, Record(p, r)
  PROVE  /\ res'[p][at[p]] = r
         /\ \A i \in Entry : i # at[p] => res'[p][i] = res[p][i]
         /\ pc'[p] = "jobs" \/ (pc'[p] = "check" /\ at'[p] = at[p] + 1)
  <1>1. pc \in [Proc -> GitPCs \cup {"idle", "jobs"}] /\ at \in [Proc -> Entry]
        /\ res \in [Proc -> [Entry -> Results]] /\ at[p] \in Entry
    BY Typed DEF TypeOK
  <1>2. res'[p][at[p]] = r /\ \A i \in Entry : i # at[p] => res'[p][i] = res[p][i]
    BY <1>1 DEF Record
  <1>3. pc'[p] = "jobs" \/ (pc'[p] = "check" /\ at'[p] = at[p] + 1)
    BY <1>1 DEF Record, NextEntry
  <1> QED BY <1>2, <1>3

\* The loop goes on after an error, or after a commit that the entry accepts and
\* that is in its checkout.
LEMMA RecordStep ==
  ASSUME TypeOK, NEW p \in Proc, ProcessInv(p), pc[p] \in GitPCs, NEW r, Record(p, r),
         CheckoutStep(p), UNCHANGED <<up, from>>,
         \/ r.state = "error"
         \/ /\ r.state = "ready" /\ Accepts(p, at[p], r.commit)
            /\ View(co'[Path(p)]) = r.commit
  PROVE  ProcessInv(p)'
  <1>1. /\ at[p] \in Entry /\ at[p] \in Nat /\ Path(p) = PathOf(at[p])
        /\ PathOf(at[p]) = Entries[at[p]]
    BY Typed, EntryType DEF Path, PathOf
  <1>2. CheckoutInv(p)' BY RecordKeeps DEF CheckoutInv
  <1>3. ProgressInv(p)'
    <2>1. \A m \in Moving : from'[p][m] <= up'[m] BY DEF ProcessInv, ProgressInv
    <2>2. ASSUME NEW j \in Entry, pc'[p] \in GitPCs, j >= at'[p] PROVE res'[p][j] = Unset
      <3>1. j >= at[p] + 1 /\ j \in Nat BY <2>2, RecordKeeps, EntryType DEF GitPCs
      <3>2. res[p][j] = Unset /\ j # at[p] BY <1>1, <3>1 DEF ProcessInv, ProgressInv
      <3> QED BY <3>2, RecordKeeps
    <2>3. ASSUME NEW i \in Entry
          PROVE  /\ res'[p][i].state = "running" => pc'[p] = "jobs"
                 /\ res'[p][i].state = "ready" => pc'[p] # "idle"
      <3>1. i # at[p] => res[p][i].state # "running"
        BY DEF ProcessInv, ProgressInv, GitPCs
      <3>2. i = at[p] => res'[p][i].state \in {"error", "ready"} BY RecordKeeps
      <3> QED BY <3>1, <3>2, RecordKeeps
    <2> QED BY <2>1, <2>2, <2>3 DEF ProgressInv
  <1>4. ASSUME NEW i \in Entry PROVE ResultInv(p, i)'
    <2>1. CASE i # at[p] BY <2>1, RecordKeeps, ResultStays
    <2>2. CASE i = at[p]
      <3>1. res'[p][i] = r BY <2>2, RecordKeeps
      <3>2. CASE r.state = "error" BY <3>1, <3>2 DEF ResultInv
      <3>3. CASE r.state = "ready" /\ Accepts(p, at[p], r.commit)
                 /\ View(co'[Path(p)]) = r.commit
        <4>1. Accepts(p, i, res[p][i].commit)' BY <2>2, <3>1, <3>3 DEF Accepts
        <4>2. View(co'[PathOf(i)]) = r.commit BY <1>1, <2>2, <3>3
        <4>3. Entries[i] \in Commit => r.commit = Entries[i] BY <2>2, <3>3 DEF Accepts
        <4> QED BY <3>1, <3>3, <4>1, <4>2, <4>3 DEF ResultInv, PathOf
      <3> QED BY <3>2, <3>3
    <2> QED BY <2>1, <2>2
  <1> QED BY <1>2, <1>3, <1>4 DEF ProcessInv

\* A command of an entry goes on to the next one.
LEMMA CommandStep ==
  ASSUME TypeOK, NEW p \in Proc, ProcessInv(p), pc[p] \in GitPCs,
         NEW next \in GitPCs, pc' = [pc EXCEPT ![p] = next], UNCHANGED <<at, res, up, from>>,
         CheckoutStep(p), CheckoutInv(p)'
  PROVE  ProcessInv(p)'
  <1>1. pc'[p] = next BY DEF TypeOK
  <1>2. ProgressInv(p)' BY <1>1 DEF ProcessInv, ProgressInv, GitPCs
  <1> QED BY <1>2, ResultStays DEF ProcessInv

LEMMA GiveUpStep ==
  ASSUME TypeOK, NEW p \in Proc, ProcessInv(p), pc[p] \in GitPCs, GiveUp(p),
         UNCHANGED <<co, up, fresh, from>>,
         at[p] \in blamed'[p] \/ Offers(from[p], Entries[at[p]]) = 0 \/ ~fresh[p]
  PROVE  ProcessInv(p)'
  <1>1. CheckoutStep(p) BY DEF CheckoutStep, CO
  <1>2. CASE CleansUp(p)
    <2>1. pc' = [pc EXCEPT ![p] = "cleanup"] /\ UNCHANGED <<at, res>>
      BY <1>2 DEF GiveUp
    <2>2. pc'[p] = "cleanup" BY <2>1 DEF TypeOK
    <2>3. CheckoutInv(p)' BY <1>2, <2>1, <2>2 DEF CheckoutInv, CleansUp
    <2> QED BY <1>1, <2>1, <2>3, CommandStep DEF GitPCs
  <1>3. CASE ~CleansUp(p)
    <2>1. Record(p, Error) BY <1>3 DEF GiveUp
    <2>2. Error.state = "error" BY DEF Error, Unset
    <2> QED BY <1>1, <2>1, <2>2, RecordStep
  <1> QED BY <1>2, <1>3

\* A git command, given what its success establishes and that it cannot fail by
\* itself in a new clone of a commit that the remote has.
LEMMA GitStep ==
  ASSUME TypeOK, NEW p \in Proc, ProcessInv(p), NEW step \in GitPCs, NEW next \in GitPCs,
         NEW ok \in BOOLEAN, NEW new \in Checkouts, Git(p, step, next, ok, new),
         Pin(p) \in Commit => View(new) \in {0, Pin(p), View(CO(p))},
         ~ok => Offers(from[p], Entries[at[p]]) = 0 \/ ~fresh[p],
         (ok /\ co' = [co EXCEPT ![Path(p)] = new] /\ pc' = [pc EXCEPT ![p] = next]
            /\ UNCHANGED <<at, fresh, from>>) => CheckoutInv(p)'
  PROVE  ProcessInv(p)'
  <1>1. pc[p] \in GitPCs /\ UNCHANGED <<up, fresh, from>> BY DEF Git
  <1>2. CASE ok /\ co' = [co EXCEPT ![Path(p)] = new] /\ pc' = [pc EXCEPT ![p] = next]
             /\ UNCHANGED <<at, res>>
    <2>1. co'[Path(p)] = new /\ \A k \in Pins : k # Path(p) => co'[k] = co[k]
      BY <1>2, Typed
    <2>2. CheckoutStep(p) BY <2>1 DEF CheckoutStep
    <2>3. CheckoutInv(p)' BY <1>1, <1>2
    <2> QED BY <1>1, <1>2, <2>2, <2>3, CommandStep
  <1>3. CASE ~ok /\ GiveUp(p) /\ UNCHANGED co
    BY <1>1, <1>3, GiveUpStep
  <1>4. CASE GiveUp(p) /\ UNCHANGED co /\ blamed' = [blamed EXCEPT ![p] = @ \cup {at[p]}]
    <2>1. blamed \in [Proc -> SUBSET Entry] BY DEF TypeOK
    <2>2. blamed'[p] = blamed[p] \cup {at[p]} BY <1>4, <2>1
    <2>3. at[p] \in blamed'[p] BY <2>2
    <2> QED BY <1>1, <1>4, <2>3, GiveUpStep
  <1> QED BY <1>2, <1>3, <1>4 DEF Git

LEMMA CommandEffect ==
  ASSUME TypeOK, NEW p \in Proc, NEW next, NEW new, pc' = [pc EXCEPT ![p] = next],
         co' = [co EXCEPT ![Path(p)] = new], UNCHANGED <<at, fresh, from>>
  PROVE  /\ CO(p)' = new /\ pc'[p] = next /\ Pin(p)' = Pin(p)
         /\ at'[p] = at[p] /\ fresh'[p] = fresh[p]
         /\ Ref(p)' = IF fresh[p] /\ Pin(p) = 0 THEN new.head ELSE new.fetched
         /\ \A i, c : Accepts(p, i, c)' <=> Accepts(p, i, c)
  <1>1. CO(p)' = new
    <2>1. Path(p) \in Pins /\ co \in [Pins -> Checkouts] BY Typed
    <2>2. co'[Path(p)] = new BY <2>1
    <2>3. Path(p)' = Path(p) BY DEF Path
    <2> QED BY <2>2, <2>3 DEF CO
  <1>2. pc'[p] = next BY DEF TypeOK
  <1>3. Pin(p)' = Pin(p) BY DEF Pin
  <1>4. Ref(p)' = IF fresh[p] /\ Pin(p) = 0 THEN new.head ELSE new.fetched
    BY <1>1, <1>3 DEF Ref
  <1> QED BY <1>1, <1>2, <1>3, <1>4 DEF Accepts

LEMMA CloneStep ==
  ASSUME TypeOK, NEW p \in Proc, ProcessInv(p), Clone(p)
  PROVE  ProcessInv(p)'
  <1> DEFINE new == [Absent EXCEPT !.git = TRUE, !.origin = TRUE]
  <1>1. pc[p] = "clone" /\ CheckoutInv(p) BY DEF Clone, Git, ProcessInv
  <1>2. new \in Checkouts /\ View(new) = 0 BY CommitType DEF Checkouts, Absent, View
  <1>3. ~CO(p).git /\ fresh[p] /\ Pin(p) = 0 BY <1>1 DEF CheckoutInv, Absent
  <1>4. ASSUME co' = [co EXCEPT ![Path(p)] = new], pc' = [pc EXCEPT ![p] = "cloneData"],
               UNCHANGED <<at, fresh, from>>
        PROVE  CheckoutInv(p)'
    <2>1. CO(p)' = new /\ pc'[p] = "cloneData" /\ fresh'[p] /\ Pin(p)' = 0
      BY <1>3, <1>4, CommandEffect
    <2> QED BY <2>1 DEF CheckoutInv
  <1> HIDE DEF new
  <1>5. Git(p, "clone", "cloneData", ~CO(p).git, new) BY DEF Clone, new
  <1> QED BY <1>2, <1>3, <1>4, <1>5, GitStep DEF GitPCs

LEMMA CloneDataStep ==
  ASSUME TypeOK, NEW p \in Proc, ProcessInv(p), CloneData(p)
  PROVE  ProcessInv(p)'
  <1> DEFINE new == [CO(p) EXCEPT !.head = up[0], !.tree = up[0]]
  <1>1. pc[p] = "cloneData" /\ CheckoutInv(p) /\ from[p][0] <= up[0]
    BY PinKinds DEF CloneData, Git, ProcessInv, ProgressInv
  <1>2. CO(p) \in Checkouts /\ up[0] \in Commit /\ up[0] \in 1..MaxCommit
    BY Typed, PinKinds
  <1>3. /\ CO(p) = [Absent EXCEPT !.git = TRUE, !.origin = TRUE]
        /\ fresh[p] /\ Pin(p) = 0 /\ Pin(p) \notin Commit
    BY <1>1, PinKinds DEF CheckoutInv
  <1>4. CO(p).git /\ ~CO(p).lock BY <1>3 DEF Absent
  <1>5. /\ new \in Checkouts /\ new.git /\ ~new.lock
        /\ new.head = up[0] /\ new.tree = up[0]
    <2>1. up[0] \in 0..MaxCommit /\ up[0] \in 0..Mixed BY <1>2, CommitType
    <2> QED BY <1>2, <1>4, <2>1 DEF Checkouts
  <1>6. ASSUME co' = [co EXCEPT ![Path(p)] = new], pc' = [pc EXCEPT ![p] = "checkout"],
               UNCHANGED <<at, fresh, from>>
        PROVE  CheckoutInv(p)'
    <2> HIDE DEF new
    <2>1. /\ CO(p)' = new /\ pc'[p] = "checkout" /\ fresh'[p] /\ Pin(p)' = 0
          /\ Ref(p)' = new.head /\ at'[p] = at[p]
      <3>1. fresh[p] /\ Pin(p) = 0 BY <1>3
      <3> QED BY <1>6, <3>1, CommandEffect
    <2>2. Accepts(p, at[p], up[0]) BY <1>1, <1>2, <1>3 DEF Accepts, Pin
    <2>3. Accepts(p, at[p], Ref(p))' BY <1>5, <1>6, <2>1, <2>2 DEF Accepts
    <2> QED BY <1>5, <2>1, <2>3 DEF CheckoutInv
  <1> HIDE DEF new
  <1>7. Git(p, "cloneData", "checkout", CO(p).git, new) BY DEF CloneData, new
  <1> QED BY <1>3, <1>4, <1>5, <1>6, <1>7, GitStep DEF GitPCs

LEMMA InitStep ==
  ASSUME TypeOK, NEW p \in Proc, ProcessInv(p), InitRepo(p)
  PROVE  ProcessInv(p)'
  <1> DEFINE new == [CO(p) EXCEPT !.git = TRUE]
  <1>1. pc[p] = "init" /\ CheckoutInv(p) BY DEF InitRepo, Git, ProcessInv
  <1>2. CO(p) \in Checkouts BY Typed
  <1>3. CO(p) = Absent /\ fresh[p] /\ Pin(p) # 0 BY <1>1 DEF CheckoutInv
  <1>4. new \in Checkouts /\ View(new) = View(CO(p)) BY <1>2 DEF Checkouts, View
  <1>5. new = [Absent EXCEPT !.git = TRUE] BY <1>3
  <1>6. ASSUME co' = [co EXCEPT ![Path(p)] = new], pc' = [pc EXCEPT ![p] = "origin"],
               UNCHANGED <<at, fresh, from>>
        PROVE  CheckoutInv(p)'
    <2> HIDE DEF new
    <2>1. CO(p)' = new /\ pc'[p] = "origin" /\ fresh'[p] /\ Pin(p)' # 0
      BY <1>3, <1>6, CommandEffect
    <2> QED BY <1>5, <2>1 DEF CheckoutInv
  <1> HIDE DEF new
  <1>7. Git(p, "init", "origin", TRUE, new) BY DEF InitRepo, new
  <1> QED BY <1>4, <1>6, <1>7, GitStep DEF GitPCs

LEMMA OriginStep ==
  ASSUME TypeOK, NEW p \in Proc, ProcessInv(p), AddOrigin(p)
  PROVE  ProcessInv(p)'
  <1> DEFINE new == [CO(p) EXCEPT !.origin = TRUE]
  <1>1. pc[p] = "origin" /\ CheckoutInv(p) BY DEF AddOrigin, Git, ProcessInv
  <1>2. CO(p) \in Checkouts BY Typed
  <1>3. CO(p) = [Absent EXCEPT !.git = TRUE] /\ fresh[p] /\ Pin(p) # 0
    BY <1>1 DEF CheckoutInv
  <1>4. CO(p).git /\ ~CO(p).origin /\ ~CO(p).lock BY <1>3 DEF Absent
  <1>5. /\ new \in Checkouts /\ View(new) = View(CO(p))
        /\ new.git /\ new.origin /\ ~new.lock
    BY <1>2, <1>4 DEF Checkouts, View
  <1>6. ASSUME co' = [co EXCEPT ![Path(p)] = new], pc' = [pc EXCEPT ![p] = "fetch"],
               UNCHANGED <<at, fresh, from>>
        PROVE  CheckoutInv(p)'
    <2> HIDE DEF new
    <2>1. CO(p)' = new /\ pc'[p] = "fetch" /\ fresh'[p] /\ Pin(p)' # 0
      BY <1>3, <1>6, CommandEffect
    <2> QED BY <1>5, <2>1 DEF CheckoutInv
  <1> HIDE DEF new
  <1>7. Git(p, "origin", "fetch", CO(p).git /\ ~CO(p).origin, new)
    BY DEF AddOrigin, new
  <1> QED BY <1>4, <1>5, <1>6, <1>7, GitStep DEF GitPCs

LEMMA FetchStep ==
  ASSUME TypeOK, NEW p \in Proc, ProcessInv(p), Fetch(p)
  PROVE  ProcessInv(p)'
  <1> DEFINE c == Offers(up, Pin(p))
             new == [CO(p) EXCEPT !.fetched = c]
             ok == CO(p).git /\ CO(p).origin /\ c # 0
  <1>1. pc[p] = "fetch" /\ CheckoutInv(p) /\ \A r \in Moving : from[p][r] <= up[r]
    BY DEF Fetch, Git, ProcessInv, ProgressInv
  <1>2. /\ CO(p) \in Checkouts /\ fresh[p] \in BOOLEAN /\ Pin(p) \in Pins
        /\ up \in [Moving -> 0..MaxCommit] /\ from[p] \in [Moving -> 0..MaxCommit]
    BY Typed
  <1>3. /\ CO(p).git /\ CO(p).origin /\ (fresh[p] => ~CO(p).lock)
        /\ fresh[p] => Pin(p) # 0
    BY <1>1 DEF CheckoutInv
  <1>4. /\ new \in Checkouts /\ View(new) = View(CO(p))
        /\ new.git /\ (fresh[p] => ~new.lock) /\ new.fetched = c
    <2>1. c \in 0..MaxCommit BY <1>2, OffersKinds
    <2> HIDE DEF c
    <2> QED BY <1>2, <1>3, <2>1 DEF Checkouts, View
  <1>5. ~ok => Offers(from[p], Entries[at[p]]) = 0
    BY <1>1, <1>2, <1>3, OffersStay DEF Pin
  <1>6. ASSUME co' = [co EXCEPT ![Path(p)] = new], pc' = [pc EXCEPT ![p] = "checkout"],
               UNCHANGED <<at, fresh, from>>, ok
        PROVE  CheckoutInv(p)'
    <2>0. c # 0 BY <1>6
    <2> HIDE DEF new, ok
    <2>1. /\ CO(p)' = new /\ pc'[p] = "checkout" /\ fresh'[p] = fresh[p]
          /\ Ref(p)' = new.fetched /\ at'[p] = at[p]
      BY <1>3, <1>6, CommandEffect
    <2>2. Accepts(p, at[p], new.fetched)
      BY <1>1, <1>2, <1>4, <2>0, PinKinds, OffersKinds DEF Accepts, Pin
    <2>3. Accepts(p, at[p], Ref(p))' BY <1>6, <2>1, <2>2 DEF Accepts
    <2> QED BY <1>4, <2>1, <2>3 DEF CheckoutInv
  <1>7. ok \in BOOLEAN OBVIOUS
  <1>8. Git(p, "fetch", "checkout", ok, new) BY DEF Fetch
  <1> HIDE DEF new, ok, c
  <1> QED BY <1>4, <1>5, <1>6, <1>7, <1>8, GitStep DEF GitPCs

\* Checkout and reset leave HEAD and the tracked files at the commit that was
\* fetched.
LEMMA MoveStep ==
  ASSUME TypeOK, NEW p \in Proc, ProcessInv(p), Checkout(p) \/ Reset(p)
  PROVE  ProcessInv(p)'
  <1> DEFINE new == [CO(p) EXCEPT !.head = Ref(p), !.tree = Ref(p)]
             ok == CO(p).git /\ Ref(p) # 0 /\ ~CO(p).lock
  <1>1. pc[p] \in {"checkout", "reset"} /\ CheckoutInv(p)
    BY DEF Checkout, Reset, Move, Git, ProcessInv
  <1>2. CO(p) \in Checkouts /\ Ref(p) \in 0..MaxCommit BY Typed
  <1>3. CO(p).git /\ (fresh[p] => ~CO(p).lock) /\ Accepts(p, at[p], Ref(p))
    BY <1>1 DEF CheckoutInv
  <1>4. ~ok => ~fresh[p] BY <1>3 DEF Accepts
  <1>5. /\ new \in Checkouts /\ new.tree = Ref(p) /\ new.head = Ref(p)
        /\ new.git /\ new.lock = CO(p).lock /\ new.fetched = CO(p).fetched
    <2>1. Ref(p) \in 0..Mixed BY <1>2, CommitType
    <2> QED BY <1>2, <1>3, <2>1 DEF Checkouts
  <1>6. Pin(p) \in Commit => View(new) \in {0, Pin(p), View(CO(p))}
    <2>1. new.litter = CO(p).litter BY <1>2 DEF Checkouts
    <2>2. Pin(p) \in Commit => new.tree = Pin(p) BY <1>3, <1>5 DEF Accepts, Pin
    <2> QED BY <2>1, <2>2 DEF View
  <1>7. ASSUME ok, NEW next \in {"reset", "clean"},
               co' = [co EXCEPT ![Path(p)] = new], pc' = [pc EXCEPT ![p] = next],
               UNCHANGED <<at, fresh, from>>
        PROVE  CheckoutInv(p)'
    <2>1. ~CO(p).lock BY <1>7
    <2> HIDE DEF new, ok
    <2>2. /\ CO(p)' = new /\ pc'[p] = next /\ fresh'[p] = fresh[p] /\ at'[p] = at[p]
          /\ Ref(p)' = IF fresh[p] /\ Pin(p) = 0 THEN new.head ELSE new.fetched
      BY <1>7, CommandEffect
    <2>3. Ref(p)' = Ref(p) BY <1>5, <2>2 DEF Ref
    <2>4. Accepts(p, at[p], Ref(p))' BY <1>3, <1>7, <2>2, <2>3 DEF Accepts
    <2> QED BY <1>5, <1>7, <2>1, <2>2, <2>3, <2>4 DEF CheckoutInv
  <1>8. ok \in BOOLEAN OBVIOUS
  <1> HIDE DEF new, ok
  <1>9. Git(p, "checkout", "reset", ok, new) \/ Git(p, "reset", "clean", ok, new)
    BY DEF Checkout, Reset, Move, new, ok
  <1> QED BY <1>4, <1>5, <1>6, <1>7, <1>8, <1>9, GitStep DEF GitPCs

\* Clean leaves the commit that was fetched and nothing else.
LEMMA CleanStep ==
  ASSUME TypeOK, NEW p \in Proc, ProcessInv(p), Clean(p)
  PROVE  ProcessInv(p)'
  <1> DEFINE new == [CO(p) EXCEPT !.litter = FALSE]
  <1>1. pc[p] = "clean" /\ CheckoutInv(p) BY DEF Clean, Git, ProcessInv
  <1>2. CO(p) \in Checkouts BY Typed
  <1>3. /\ CO(p).git /\ ~CO(p).lock /\ Accepts(p, at[p], Ref(p))
        /\ CO(p).head = Ref(p) /\ CO(p).tree = Ref(p)
    BY <1>1 DEF CheckoutInv
  <1>4. /\ new \in Checkouts /\ new.git /\ ~new.lock /\ ~new.litter
        /\ new.head = CO(p).head /\ new.tree = CO(p).tree /\ new.fetched = CO(p).fetched
    BY <1>2, <1>3 DEF Checkouts
  <1>5. Pin(p) \in Commit => View(new) = Pin(p)
    BY <1>3, <1>4 DEF View, Accepts, Pin
  <1>6. ASSUME co' = [co EXCEPT ![Path(p)] = new], pc' = [pc EXCEPT ![p] = "resolve"],
               UNCHANGED <<at, fresh, from>>
        PROVE  CheckoutInv(p)'
    <2> HIDE DEF new
    <2>1. /\ CO(p)' = new /\ pc'[p] = "resolve" /\ fresh'[p] = fresh[p] /\ at'[p] = at[p]
          /\ Ref(p)' = IF fresh[p] /\ Pin(p) = 0 THEN new.head ELSE new.fetched
      BY <1>6, CommandEffect
    <2>2. Ref(p)' = Ref(p) BY <1>4, <2>1 DEF Ref
    <2>3. Accepts(p, at[p], Ref(p))' BY <1>3, <1>6, <2>1, <2>2 DEF Accepts
    <2> QED BY <1>3, <1>4, <2>1, <2>2, <2>3 DEF CheckoutInv
  <1> HIDE DEF new
  <1>7. Git(p, "clean", "resolve", CO(p).git, new) BY DEF Clean, new
  <1> QED BY <1>3, <1>4, <1>5, <1>6, <1>7, GitStep DEF GitPCs

LEMMA CheckStep ==
  ASSUME TypeOK, NEW p \in Proc, ProcessInv(p), Check(p)
  PROVE  ProcessInv(p)'
  <1>1. pc[p] \in GitPCs /\ UNCHANGED <<co, at, res, up, from>> BY DEF Check, GitPCs
  <1>2. CheckoutStep(p) BY <1>1 DEF CheckoutStep, CO
  <1>3. CASE /\ Usable(CO(p)) /\ pc' = [pc EXCEPT ![p] = "fetch"]
             /\ fresh' = [fresh EXCEPT ![p] = FALSE]
    <2>1. pc'[p] = "fetch" /\ ~fresh'[p] BY <1>3 DEF TypeOK
    <2>2. CO(p)' = CO(p) BY <1>1 DEF CO, Path
    <2>3. CheckoutInv(p)' BY <1>3, <2>1, <2>2 DEF CheckoutInv, Usable
    <2> QED BY <1>1, <1>2, <1>3, <2>3, CommandStep DEF GitPCs
  <1>4. CASE pc' = [pc EXCEPT ![p] = "remove"]
    <2>1. pc'[p] = "remove" BY <1>4 DEF TypeOK
    <2>2. CheckoutInv(p)' BY <2>1 DEF CheckoutInv
    <2> QED BY <1>1, <1>2, <1>4, <2>2, CommandStep DEF GitPCs
  <1> QED BY <1>3, <1>4 DEF Check

LEMMA RemoveStep ==
  ASSUME TypeOK, NEW p \in Proc, ProcessInv(p), Remove(p)
  PROVE  ProcessInv(p)'
  <1>1. pc[p] \in GitPCs /\ UNCHANGED <<up, from>> BY DEF Remove, GitPCs
  <1>2. Path(p) \in Pins /\ co \in [Pins -> Checkouts] BY Typed
  <1>3. CASE /\ pc' = [pc EXCEPT ![p] = IF Pin(p) = 0 THEN "clone" ELSE "init"]
             /\ co' = [co EXCEPT ![Path(p)] = Absent]
             /\ fresh' = [fresh EXCEPT ![p] = TRUE] /\ UNCHANGED <<at, res>>
    <2> DEFINE next == IF Pin(p) = 0 THEN "clone" ELSE "init"
    <2>1. co'[Path(p)] = Absent /\ \A k \in Pins : k # Path(p) => co'[k] = co[k]
      BY <1>2, <1>3
    <2>2. CheckoutStep(p) BY <2>1 DEF CheckoutStep, Absent, View
    <2>3. pc'[p] = next /\ fresh'[p] BY <1>3 DEF TypeOK
    <2>4. CO(p)' = Absent /\ Pin(p)' = Pin(p) BY <1>3, <2>1 DEF CO, Path, Pin
    <2>5. CheckoutInv(p)' BY <2>3, <2>4 DEF CheckoutInv
    <2>6. next \in GitPCs BY DEF GitPCs
    <2> HIDE DEF next
    <2>7. pc' = [pc EXCEPT ![p] = next] BY <1>3 DEF next
    <2> QED BY <1>1, <1>3, <2>2, <2>5, <2>6, <2>7, CommandStep
  <1>4. CASE Record(p, Error) /\ UNCHANGED co
    <2>1. CheckoutStep(p) BY <1>4 DEF CheckoutStep, CO
    <2>2. Error.state = "error" BY DEF Error, Unset
    <2> QED BY <1>1, <1>4, <2>1, <2>2, RecordStep
  <1> QED BY <1>3, <1>4 DEF Remove

LEMMA ResolveStep ==
  ASSUME TypeOK, NEW p \in Proc, ProcessInv(p), Resolve(p)
  PROVE  ProcessInv(p)'
  <1>1. pc[p] = "resolve" /\ pc[p] \in GitPCs /\ UNCHANGED <<co, up, fresh, from>>
    BY DEF Resolve, GitPCs
  <1>2. CheckoutInv(p) BY DEF ProcessInv
  <1>3. Accepts(p, at[p], CO(p).head) /\ View(CO(p)) = CO(p).head
    BY <1>1, <1>2 DEF CheckoutInv, View
  <1>4. Resolves(p) BY <1>3 DEF Resolves, Accepts, Pin
  <1>5. CASE Record(p, [state |-> "ready", commit |-> CO(p).head, seen |-> 0])
    <2> DEFINE r == [state |-> "ready", commit |-> CO(p).head, seen |-> 0]
    <2>1. CheckoutStep(p) BY <1>1 DEF CheckoutStep, CO
    <2>2. r.state = "ready" /\ r.commit = CO(p).head OBVIOUS
    <2>3. View(co'[Path(p)]) = r.commit BY <1>1, <1>3 DEF CO
    <2> HIDE DEF r
    <2>4. Record(p, r) BY <1>5 DEF r
    <2> QED BY <1>1, <1>3, <2>1, <2>2, <2>3, <2>4, RecordStep
  <1>6. CASE GiveUp(p) /\ blamed' = [blamed EXCEPT ![p] = @ \cup {at[p]}]
    <2>1. blamed \in [Proc -> SUBSET Entry] BY DEF TypeOK
    <2>2. at[p] \in blamed'[p] BY <1>6, <2>1
    <2> QED BY <1>1, <1>6, <2>2, GiveUpStep
  <1> QED BY <1>4, <1>5, <1>6 DEF Resolve

LEMMA CleanupStep ==
  ASSUME TypeOK, NEW p \in Proc, ProcessInv(p), Cleanup(p)
  PROVE  ProcessInv(p)'
  <1>1. pc[p] \in GitPCs /\ UNCHANGED <<up, from>> /\ Record(p, Error)
    BY DEF Cleanup, GitPCs
  <1>2. Path(p) \in Pins /\ co \in [Pins -> Checkouts] BY Typed
  <1>3. CheckoutStep(p)
    <2>1. CASE UNCHANGED co BY <2>1 DEF CheckoutStep, CO
    <2>2. CASE co' = [co EXCEPT ![Path(p)] = Absent]
      BY <1>2, <2>2 DEF CheckoutStep, Absent, View
    <2> QED BY <2>1, <2>2 DEF Cleanup
  <1>4. Error.state = "error" BY DEF Error, Unset
  <1> QED BY <1>1, <1>3, <1>4, RecordStep

-----------------------------------------------------------------------------
(* The pool, and the start and end of a run. *)

LEMMA JobStep ==
  ASSUME TypeOK, NEW p \in Proc, ProcessInv(p), NEW i \in Entry,
         Dispatch(p, i) \/ Analysed(p, i)
  PROVE  ProcessInv(p)'
  <1>1. pc[p] = "jobs" /\ UNCHANGED <<up, co, pc, at, fresh, from>>
    BY DEF Dispatch, Analysed
  <1>2. res \in [Proc -> [Entry -> Results]] /\ res[p][i] \in Results BY Typed
  <1>3. CheckoutInv(p)' BY <1>1 DEF CheckoutInv
  <1>4. ProgressInv(p)' BY <1>1 DEF ProcessInv, ProgressInv, GitPCs
  <1>5. ASSUME NEW j \in Entry, j # i PROVE ResultInv(p, j)'
    <2>1. res'[p][j] = res[p][j] BY <1>2, <1>5 DEF Dispatch, Analysed
    <2> QED BY <1>1, <2>1 DEF ProcessInv, ResultInv, Accepts
  <1>6. ResultInv(p, i)
    BY DEF ProcessInv
  <1>7. ASSUME Dispatch(p, i) PROVE ResultInv(p, i)'
    <2> DEFINE t == View(co[PathOf(i)])
    <2>1. res[p][i].state = "ready" BY <1>7 DEF Dispatch
    <2>2. /\ res'[p][i].state = IF t = 0 THEN "error" ELSE "running"
          /\ res'[p][i].seen = t /\ res'[p][i].commit = res[p][i].commit
      BY <1>2, <1>7 DEF Dispatch, Results
    <2>3. Accepts(p, i, res[p][i].commit) /\ (Own(i) => t = res[p][i].commit)
          /\ (Entries[i] \in Commit => t \in {0, Entries[i]})
      BY <1>6, <2>1 DEF ResultInv
    <2>4. Accepts(p, i, res[p][i].commit)' BY <1>1, <2>2, <2>3 DEF Accepts
    <2> QED BY <1>1, <2>2, <2>3, <2>4 DEF ResultInv, Own, PathOf
  <1>8. ASSUME Analysed(p, i) PROVE ResultInv(p, i)'
    <2>1. res[p][i].state = "running" BY <1>8 DEF Analysed, Running
    <2>2. View(co[PathOf(i)]) = res[p][i].seen BY <1>6, <2>1 DEF ResultInv
    <2>3. CASE res' = [res EXCEPT ![p][i] = Error]
      <3>1. res'[p][i].state = "error" BY <1>2, <2>3 DEF Error, Unset
      <3> QED BY <3>1 DEF ResultInv
    <2>4. CASE res' = [res EXCEPT ![p][i].state = "done",
                         ![p][i].seen = IF View(co[PathOf(i)]) = @ THEN @ ELSE Mixed]
      <3>1. /\ res'[p][i].state = "done" /\ res'[p][i].seen = res[p][i].seen
            /\ res'[p][i].commit = res[p][i].commit
        BY <1>2, <2>2, <2>4 DEF Results
      <3> QED BY <1>1, <1>6, <2>1, <3>1 DEF ResultInv, Accepts, Own
    <2> QED BY <1>8, <2>3, <2>4 DEF Analysed
  <1> QED BY <1>3, <1>4, <1>5, <1>7, <1>8 DEF ProcessInv

LEMMA RunStep ==
  ASSUME TypeOK, NEW p \in Proc, ProcessInv(p), Start(p) \/ Return(p) \/ Crash(p)
  PROVE  ProcessInv(p)'
  <1>1. pc \in [Proc -> GitPCs \cup {"idle", "jobs"}]
        /\ from \in [Proc -> [Moving -> 0..MaxCommit]]
        /\ res \in [Proc -> [Entry -> Results]]
        /\ up \in [Moving -> 0..MaxCommit]
    <2>1. res \in [Proc -> [Entry -> Results]] BY Typed
    <2> QED BY <2>1 DEF TypeOK
  <1>2. CASE (Start(p) \/ Crash(p))
    <2>1. \A i \in Entry : res'[p][i] = Unset
      <3>1. res' = [res EXCEPT ![p] = [i \in Entry |-> Unset]]
        BY <1>2 DEF Start, Crash
      <3> QED BY <1>1, <3>1
    <2>2. pc'[p] \in {"check", "idle"} BY <1>1, <1>2 DEF Start, Crash
    <2>3. \A r \in Moving : from'[p][r] <= up'[r]
      <3>1. from'[p] = up \/ from'[p] = from[p] BY <1>1, <1>2 DEF Start, Crash
      <3>2. up' = up /\ \A r \in Moving : from[p][r] <= up[r]
        BY <1>2 DEF Start, Crash, ProcessInv, ProgressInv
      <3>3. \A r \in Moving : up[r] \in Nat BY <1>1, ConstantsAssumption
      <3> QED BY <3>1, <3>2, <3>3
    <2>4. CheckoutInv(p)' BY <2>2 DEF CheckoutInv
    <2>5. ProgressInv(p)' BY <2>1, <2>3 DEF ProgressInv, Unset
    <2>6. \A i \in Entry : ResultInv(p, i)' BY <2>1 DEF ResultInv, Unset
    <2> QED BY <2>4, <2>5, <2>6 DEF ProcessInv
  <1>3. CASE Return(p)
    <2>1. pc'[p] = "idle" /\ UNCHANGED <<up, co, res, from>> BY <1>1, <1>3 DEF Return
    <2>2. \A i \in Entry : res[p][i].state \in {"done", "error"} BY <1>3 DEF Return
    <2>3. CheckoutInv(p)' BY <2>1 DEF CheckoutInv
    <2>4. ProgressInv(p)' BY <2>1, <2>2 DEF ProcessInv, ProgressInv, GitPCs
    <2>5. \A i \in Entry : ResultInv(p, i)'
      BY <2>1, <2>2 DEF ProcessInv, ResultInv, Accepts, Own
    <2> QED BY <2>3, <2>4, <2>5 DEF ProcessInv
  <1> QED BY <1>2, <1>3

-----------------------------------------------------------------------------
(* The invariant of runs that do not overlap, and what follows from it. *)

LEMMA InvariantInit == Init => IInv
  <1> SUFFICES ASSUME Init PROVE IInv
    OBVIOUS
  <1>1. TypeOK BY InitType
  <1>2. ASSUME NEW p \in Proc PROVE CheckoutInv(p) /\ ProgressInv(p)
    BY DEF Init, CheckoutInv, ProgressInv, GitPCs, Unset
  <1>3. ASSUME NEW p \in Proc, NEW i \in Entry PROVE ResultInv(p, i)
    BY DEF Init, ResultInv, Unset
  <1> QED BY <1>1, <1>2, <1>3 DEF IInv

LEMMA OwnStep ==
  ASSUME TypeOK, NEW p \in Proc, ProcessInv(p), Start(p) \/ Step(p) \/ Crash(p)
  PROVE  ProcessInv(p)'
  BY CloneStep, CloneDataStep, InitStep, OriginStep, FetchStep, MoveStep, CheckStep,
     CleanStep, RemoveStep, ResolveStep, CleanupStep, JobStep, RunStep
     DEF Step

LEMMA OthersStep ==
  ASSUME TypeOK, Alone, NEW p \in Proc, Start(p) \/ Step(p) \/ Crash(p),
         NEW q \in Proc, q # p, ProcessInv(q)
  PROVE  ProcessInv(q)'
  <1>1. SameProcess(q) /\ up' = up BY OthersSame
  <1>2. \A r \in Moving : up[r] \in Nat BY Typed, ConstantsAssumption
  <1>3. pc[q] = "idle" \/ UNCHANGED co
    <2>1. CASE Start(p) BY <2>1 DEF Start
    <2>2. CASE Step(p) \/ Crash(p)
      <3>1. pc[p] # "idle"
        BY <2>2 DEF Step, Crash, Check, Remove, Clone, CloneData, InitRepo, AddOrigin,
           Fetch, Checkout, Reset, Clean, Move, Git, Resolve, Cleanup, Return, Dispatch, Analysed
      <3> QED BY <3>1 DEF Alone
    <2> QED BY <2>1, <2>2
  <1> QED BY <1>1, <1>2, <1>3, Undisturbed

LEMMA InvariantStep == IInv /\ Alone /\ [Next]_vars => IInv'
  <1> SUFFICES ASSUME IInv, Alone, [Next]_vars PROVE IInv'
    OBVIOUS
  <1>1. TypeOK /\ TypeOK' /\ \A q \in Proc : ProcessInv(q)
    BY NextType DEF IInv, ProcessInv
  <1>2. ASSUME NEW q \in Proc PROVE ProcessInv(q)'
    <2>1. CASE Push \/ UNCHANGED vars
      <3>1. SameProcess(q) /\ UNCHANGED co BY <2>1 DEF Push, vars, SameProcess
      <3>2. up \in [Moving -> 0..MaxCommit] BY <1>1 DEF TypeOK
      <3>3. \A r \in Moving : up'[r] \in Nat /\ up'[r] >= up[r]
        BY <2>1, <3>2, ConstantsAssumption DEF Push, vars, Commit
      <3> QED BY <1>1, <3>1, <3>3, Undisturbed
    <2>2. ASSUME NEW p \in Proc, Start(p) \/ Step(p) \/ Crash(p) PROVE ProcessInv(q)'
      BY <1>1, <2>2, OwnStep, OthersStep
    <2> QED BY <2>1, <2>2 DEF Next
  <1> QED BY <1>1, <1>2 DEF IInv, ProcessInv

LEMMA Invariance == Spec /\ []Alone => []IInv
  <1> QED BY InvariantInit, InvariantStep, PTL DEF Spec

\* However many processes use the cache one after the other, whatever entries
\* share checkouts, and whatever failed or died before: a pinned entry is analysed
\* at its commit, and one that follows HEAD, a branch or a tag at a commit no
\* older than that was when the run started.
THEOREM HonoursRevision == Spec /\ []Alone => []RevisionHonoured
  <1>1. IInv => RevisionHonoured
    BY DEF IInv, ResultInv, Accepts, RevisionHonoured
  <1> QED BY <1>1, Invariance, PTL

\* The commit in the report is the one that was analysed, if no two entries follow
\* the same ref; entries pinned to a commit may share their checkouts.
THEOREM AnalysesResolved ==
  ASSUME \A i, j \in Entry : Entries[i] = Entries[j] => i = j \/ Entries[i] \in Commit
  PROVE  Spec /\ []Alone => []AnalysedIsResolved
  <1>1. ASSUME IInv PROVE AnalysedIsResolved
    <2>1. SUFFICES ASSUME NEW p \in Proc, NEW i \in Entry, res[p][i].state = "done"
                   PROVE  res[p][i].seen = res[p][i].commit
      BY DEF AnalysedIsResolved
    <2>2. ResultInv(p, i) BY <1>1 DEF IInv
    <2>3. CASE Entries[i] \in Commit BY <2>1, <2>2, <2>3 DEF ResultInv, Accepts
    <2>4. CASE Entries[i] \notin Commit
      <3>1. Own(i) BY <2>4 DEF Own
      <3> QED BY <2>1, <2>2, <3>1 DEF ResultInv
    <2> QED BY <2>3, <2>4
  <1> QED BY <1>1, Invariance, PTL

-----------------------------------------------------------------------------
(* What a run left does not fail the next one. *)

\* Why an entry may have failed.
Explained(p, i) ==
    res[p][i].state = "error" =>
        i \in blamed[p] \/ co[PathOf(i)].lock \/ Offers(from[p], Entries[i]) = 0

\* While entries are materialised, only the present one's explanation changes.
LEMMA ExplainedStays ==
  ASSUME TypeOK, NEW p \in Proc, ProcessInv(p), pc[p] \in GitPCs,
         \A i \in Entry : Own(i) /\ Explained(p, i),
         \A k \in Pins : k # Path(p) => co'[k] = co[k],
         UNCHANGED from, blamed[p] \subseteq blamed'[p],
         \A i \in Entry : i # at[p] => res'[p][i] = res[p][i],
         res'[p][at[p]].state = "error" =>
            at[p] \in blamed'[p] \/ co'[Path(p)].lock \/ Offers(from[p], Entries[at[p]]) = 0,
         NEW i \in Entry
  PROVE  Explained(p, i)'
  <1>1. at[p] \in Entry /\ Path(p) = PathOf(at[p]) BY Typed DEF Path
  <1>2. CASE i = at[p] BY <1>1, <1>2 DEF Explained, PathOf
  <1>3. CASE i # at[p]
    <2>1. PathOf(i) \in Pins /\ PathOf(i) # Path(p)
      BY <1>1, <1>3, EntryType DEF PathOf, Own
    <2>2. co'[PathOf(i)] = co[PathOf(i)] BY <2>1
    <2>3. Explained(p, i) /\ res'[p][i] = res[p][i] BY <1>3
    <2> QED BY <2>2, <2>3 DEF Explained, PathOf
  <1> QED BY <1>2, <1>3

LEMMA GiveUpExplained ==
  ASSUME TypeOK, NEW p \in Proc, ProcessInv(p), pc[p] \in GitPCs, GiveUp(p),
         \A i \in Entry : Own(i) /\ Explained(p, i), UNCHANGED <<co, from>>,
         blamed[p] \subseteq blamed'[p],
         at[p] \in blamed'[p] \/ CO(p).lock \/ Offers(from[p], Entries[at[p]]) = 0,
         NEW i \in Entry
  PROVE  Explained(p, i)'
  <1>1. at[p] \in Entry /\ at[p] \in Nat BY Typed, EntryType
  <1>2. res[p][at[p]] = Unset BY <1>1 DEF ProcessInv, ProgressInv
  <1>3. \A j \in Entry : j # at[p] => res'[p][j] = res[p][j]
    BY RecordKeeps DEF GiveUp
  <1>4. co'[Path(p)].lock = CO(p).lock BY DEF CO
  <1> QED BY <1>3, <1>4, ExplainedStays

LEMMA GitExplained ==
  ASSUME TypeOK, NEW p \in Proc, ProcessInv(p), NEW step \in GitPCs, NEW next, NEW ok,
         NEW new, Git(p, step, next, ok, new), \A i \in Entry : Own(i) /\ Explained(p, i),
         ~ok => CO(p).lock \/ Offers(from[p], Entries[at[p]]) = 0, NEW i \in Entry
  PROVE  Explained(p, i)'
  <1>1. pc[p] \in GitPCs /\ UNCHANGED from BY DEF Git
  <1>2. at[p] \in Entry /\ at[p] \in Nat /\ blamed \in [Proc -> SUBSET Entry]
    BY Typed, EntryType DEF TypeOK
  <1>3. CASE co' = [co EXCEPT ![Path(p)] = new] /\ UNCHANGED <<res, blamed>>
    <2>1. res'[p][at[p]].state # "error"
      BY <1>1, <1>2, <1>3 DEF ProcessInv, ProgressInv, Unset
    <2>2. \A k \in Pins : k # Path(p) => co'[k] = co[k] BY <1>3, Typed
    <2> QED BY <1>1, <1>3, <2>1, <2>2, ExplainedStays
  <1>4. CASE ~ok /\ GiveUp(p) /\ UNCHANGED <<co, blamed>>
    BY <1>1, <1>4, GiveUpExplained
  <1>5. CASE GiveUp(p) /\ UNCHANGED co /\ blamed' = [blamed EXCEPT ![p] = @ \cup {at[p]}]
    <2>1. blamed'[p] = blamed[p] \cup {at[p]} BY <1>2, <1>5
    <2> QED BY <1>1, <1>5, <2>1, GiveUpExplained
  <1> QED BY <1>3, <1>4, <1>5 DEF Git

\* No git command fails by itself, but for a left lock and a commit that the
\* remote lacks.
LEMMA CommandsExplained ==
  ASSUME TypeOK, NEW p \in Proc, ProcessInv(p), \A i \in Entry : Own(i) /\ Explained(p, i),
         \/ Clone(p) \/ CloneData(p) \/ InitRepo(p) \/ AddOrigin(p) \/ Fetch(p)
         \/ Checkout(p) \/ Reset(p) \/ Clean(p),
         NEW i \in Entry
  PROVE  Explained(p, i)'
  <1>1. CheckoutInv(p) /\ \A r \in Moving : from[p][r] <= up[r]
    BY DEF ProcessInv, ProgressInv
  <1>2. CASE Clone(p)
    <2>1. ~CO(p).git BY <1>1, <1>2 DEF Clone, Git, CheckoutInv, Absent
    <2> QED BY <1>2, <2>1, GitExplained DEF Clone, GitPCs
  <1>3. CASE CloneData(p)
    <2>1. CO(p).git BY <1>1, <1>3 DEF CloneData, Git, CheckoutInv, Absent
    <2> QED BY <1>3, <2>1, GitExplained DEF CloneData, GitPCs
  <1>4. CASE InitRepo(p) BY <1>4, GitExplained DEF InitRepo, GitPCs
  <1>5. CASE AddOrigin(p)
    <2>1. CO(p).git /\ ~CO(p).origin
      BY <1>1, <1>5 DEF AddOrigin, Git, CheckoutInv, Absent
    <2> QED BY <1>5, <2>1, GitExplained DEF AddOrigin, GitPCs
  <1>6. CASE Fetch(p)
    <2>1. CO(p).git /\ CO(p).origin BY <1>1, <1>6 DEF Fetch, Git, CheckoutInv
    <2>2. Pin(p) = Entries[at[p]] /\ Pin(p) \in Pins
          /\ up \in [Moving -> 0..MaxCommit] /\ from[p] \in [Moving -> 0..MaxCommit]
      BY Typed DEF Pin
    <2>3. Offers(up, Pin(p)) = 0 => Offers(from[p], Entries[at[p]]) = 0
      BY <1>1, <2>2, OffersStay
    <2> QED BY <1>6, <2>1, <2>3, GitExplained DEF Fetch, GitPCs
  <1>7. CASE Checkout(p) \/ Reset(p)
    <2>1. CO(p).git /\ Ref(p) # 0
      BY <1>1, <1>7 DEF Checkout, Reset, Move, Git, CheckoutInv, Accepts
    <2> QED BY <1>7, <2>1, GitExplained DEF Checkout, Reset, Move, GitPCs
  <1>8. CASE Clean(p)
    <2>1. CO(p).git BY <1>1, <1>8 DEF Clean, Git, CheckoutInv
    <2> QED BY <1>8, <2>1, GitExplained DEF Clean, GitPCs
  <1> QED BY <1>2, <1>3, <1>4, <1>5, <1>6, <1>7, <1>8

LEMMA OtherMaterializeExplained ==
  ASSUME TypeOK, NEW p \in Proc, ProcessInv(p), \A i \in Entry : Own(i) /\ Explained(p, i),
         Check(p) \/ Remove(p) \/ Resolve(p) \/ Cleanup(p), NEW i \in Entry
  PROVE  Explained(p, i)'
  <1>1. pc[p] \in GitPCs /\ UNCHANGED from BY DEF Check, Remove, Resolve, Cleanup, GitPCs
  <1>2. at[p] \in Entry /\ at[p] \in Nat /\ blamed \in [Proc -> SUBSET Entry]
        /\ Path(p) \in Pins /\ co \in [Pins -> Checkouts]
    BY Typed, EntryType DEF TypeOK
  <1>3. \A k \in Pins : k # Path(p) => co'[k] = co[k]
    BY <1>2 DEF Check, Remove, Resolve, Cleanup
  <1>4. blamed' = [blamed EXCEPT ![p] = @ \cup {at[p]}] => blamed'[p] = blamed[p] \cup {at[p]}
    BY <1>2
  <1>5. blamed[p] \subseteq blamed'[p]
    BY <1>4 DEF Check, Remove, Resolve, Cleanup
  <1>6. res[p][at[p]].state # "error" BY <1>1, <1>2 DEF ProcessInv, ProgressInv, Unset
  <1>7. CASE UNCHANGED res BY <1>1, <1>3, <1>5, <1>6, <1>7, ExplainedStays
  <1>8. CASE Record(p, Error) /\ blamed' = [blamed EXCEPT ![p] = @ \cup {at[p]}]
    BY <1>1, <1>3, <1>4, <1>8, RecordKeeps, ExplainedStays
  <1>9. CASE Record(p, [state |-> "ready", commit |-> CO(p).head, seen |-> 0])
    BY <1>1, <1>3, <1>5, <1>9, RecordKeeps, ExplainedStays
  <1>10. CASE Cleanup(p)
    <2>1. at[p] \in blamed[p] \/ Offers(from[p], Entries[at[p]]) = 0
      BY <1>10 DEF Cleanup, ProcessInv, CheckoutInv
    <2>2. Record(p, Error) BY <1>10 DEF Cleanup
    <2> QED BY <1>1, <1>3, <1>5, <2>1, <2>2, RecordKeeps, ExplainedStays
  <1>11. CASE Resolve(p)
    <2>1. Accepts(p, at[p], CO(p).head) BY <1>11 DEF Resolve, ProcessInv, CheckoutInv
    <2>2. Resolves(p) BY <2>1 DEF Resolves, Accepts, Pin
    <2>3. CASE GiveUp(p) /\ blamed' = [blamed EXCEPT ![p] = @ \cup {at[p]}]
      <3>1. UNCHANGED co BY <1>11 DEF Resolve
      <3> QED BY <1>1, <1>4, <2>3, <3>1, GiveUpExplained
    <2> QED BY <1>9, <1>11, <2>2, <2>3 DEF Resolve
  <1> QED BY <1>7, <1>8, <1>10, <1>11 DEF Check, Remove

\* A checkout that is ready has its tree, so that an analysis fails by a fault only.
LEMMA JobExplained ==
  ASSUME TypeOK, NEW p \in Proc, ProcessInv(p), NEW j \in Entry, Own(j),
         Dispatch(p, j) \/ Analysed(p, j), NEW i \in Entry, Explained(p, i)
  PROVE  Explained(p, i)'
  <1>1. UNCHANGED <<co, from>> BY DEF Dispatch, Analysed
  <1>2. res \in [Proc -> [Entry -> Results]] /\ blamed \in [Proc -> SUBSET Entry]
    BY Typed DEF TypeOK
  <1>3. CASE res'[p][i] = res[p][i] /\ blamed[p] \subseteq blamed'[p]
    BY <1>1, <1>3 DEF Explained
  <1>4. CASE Dispatch(p, j) /\ i = j
    <2>1. res[p][j].state = "ready" BY <1>4 DEF Dispatch
    <2>2. View(co[PathOf(j)]) = res[p][j].commit /\ res[p][j].commit # 0
      BY <2>1 DEF ProcessInv, ResultInv, Accepts
    <2>3. res'[p][j].state = "running" BY <1>2, <1>4, <2>2 DEF Dispatch, Results
    <2> QED BY <1>4, <2>3 DEF Explained
  <1>5. CASE Dispatch(p, j) /\ i # j
    BY <1>2, <1>3, <1>5 DEF Dispatch
  <1>6. CASE Analysed(p, j)
    <2>1. CASE blamed' = [blamed EXCEPT ![p] = @ \cup {j}] /\ res' = [res EXCEPT ![p][j] = Error]
      <3>1. blamed'[p] = blamed[p] \cup {j} BY <1>2, <2>1
      <3>2. i # j => res'[p][i] = res[p][i] BY <1>2, <2>1
      <3> QED BY <1>3, <3>1, <3>2 DEF Explained
    <2>2. CASE /\ UNCHANGED blamed
               /\ res' = [res EXCEPT ![p][j].state = "done",
                            ![p][j].seen = IF View(co[PathOf(j)]) = @ THEN @ ELSE Mixed]
      <3>1. i # j => res'[p][i] = res[p][i] BY <1>2, <2>2
      <3>2. res'[p][j].state = "done" BY <1>2, <2>2 DEF Results
      <3> QED BY <1>3, <2>2, <3>1, <3>2 DEF Explained
    <2> QED BY <1>6, <2>1, <2>2 DEF Analysed
  <1> QED BY <1>4, <1>5, <1>6

LEMMA HealsStep ==
  ASSUME \A p, q \in Proc : p = q, \A i \in Entry : Own(i), IInv, Heals, [Next]_vars
  PROVE  Heals'
  <1>1. TypeOK /\ \A p \in Proc : ProcessInv(p) /\ \A i \in Entry : Explained(p, i)
    BY DEF IInv, ProcessInv, Heals, Explained
  <1>2. SUFFICES ASSUME NEW p \in Proc, NEW i \in Entry PROVE Explained(p, i)'
    BY DEF Heals, Explained
  <1>3. CASE Push \/ UNCHANGED vars
    BY <1>1, <1>3 DEF Push, vars, Explained, PathOf
  <1>4. CASE Step(p)
    <2>1. CASE Return(p) BY <1>1, <2>1 DEF Return, Explained, PathOf
    <2> QED BY <1>1, <1>4, <2>1, CommandsExplained, OtherMaterializeExplained, JobExplained
            DEF Step
  <1>5. CASE Start(p) \/ Crash(p)
    <2>1. res \in [Proc -> [Entry -> Results]] BY <1>1, Typed
    <2>2. res'[p][i] = Unset BY <1>5, <2>1 DEF Start, Crash
    <2> QED BY <2>2 DEF Explained, Unset
  <1> QED BY <1>3, <1>4, <1>5 DEF Next

\* What an interrupted or failed run of a process left does not fail its next one,
\* if no two entries share a checkout: for any entries, workers, pushes and faults.
THEOREM HealsTheCache ==
  ASSUME \A p, q \in Proc : p = q,
         \A i, j \in Entry : Entries[i] = Entries[j] => i = j
  PROVE  Spec => []Heals
  <1>1. \A i \in Entry : Own(i) BY DEF Own
  <1>2. Alone BY DEF Alone
  <1>3. Init => Heals BY DEF Init, Heals, Unset
  <1>4. IInv /\ Heals /\ [Next]_vars => Heals' BY <1>1, HealsStep
  <1>5. IInv /\ [Next]_vars => IInv' BY <1>2, InvariantStep
  <1> QED BY <1>3, <1>4, <1>5, InvariantInit, PTL DEF Spec
=============================================================================
