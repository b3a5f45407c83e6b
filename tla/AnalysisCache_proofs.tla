------------------------- MODULE AnalysisCache_proofs -------------------------
(***************************************************************************)
(* Proofs about AnalysisCache: for any number of processes, adapters and   *)
(* contents, key files never dangle, and while sources rest during a run   *)
(* and the digest covers every adapter's files, every hit is current and   *)
(* usable entries stay usable.                                             *)
(***************************************************************************)
EXTENDS AnalysisCache, TLAPS

-----------------------------------------------------------------------------
(* Type correctness. *)

LEMMA SomeTypes == SomeAdapter \in Adapter /\ SomeReport \in Report
  <1>1. SomeAdapter \in Adapter BY ConstantsAssumption DEF SomeAdapter
  <1>2. (CHOOSE v \in Value : TRUE) \in Value BY ConstantsAssumption
  <1> QED BY <1>1, <1>2 DEF SomeReport, Report

LEMMA InitType == Init => TypeOK
  <1> SUFFICES ASSUME Init PROVE TypeOK OBVIOUS
  <1> QED BY SomeTypes, ConstantsAssumption DEF Init, TypeOK, PCs

LEMMA DigestType == TypeOK => InputDigest \in Digest
  BY ConstantsAssumption DEF TypeOK, InputDigest, Digest

\* prepareEntry computes the digest before anything asks for it; without a digest
\* there is no entry.
MemoSet == \A p \in Proc : pc[p] \notin {"idle", "next", "bare"} => memo[p] # NoDigest

LEMMA MemoStep == TypeOK /\ MemoSet /\ [Next]_vars => MemoSet'
  <1> SUFFICES ASSUME TypeOK, MemoSet, [Next]_vars PROVE MemoSet' OBVIOUS
  <1> USE DEF TypeOK, MemoSet, Goto, cache, counters
  <1>1. ASSUME NEW p \in Proc, Prepare(p) PROVE MemoSet'
    <2>1. InputDigest # NoDigest BY DigestType, ConstantsAssumption
    <2> QED BY <1>1, <2>1 DEF Prepare
  <1>2. ASSUME NEW p \in Proc, Finish(p) \/ Crash(p) PROVE MemoSet'
    BY <1>2 DEF Finish, Crash, Forget
  <1>3. ASSUME NEW p \in Proc,
               \/ Start(p) \/ FailPrepare(p) \/ FollowPointer(p) \/ MissPointer(p) \/ Hit(p)
               \/ MissObject(p) \/ FailLookup(p) \/ Analyse(p) \/ FailAnalyse(p)
               \/ StoreObject(p) \/ FailObject(p) \/ FailAfterObject(p)
               \/ StorePointer(p) \/ FailPointer(p)
        PROVE  MemoSet'
    <2>1. memo' = memo
      BY <1>3 DEF Start, FailPrepare, FollowPointer, MissPointer, Hit, MissObject, FailLookup,
         Analyse, FailAnalyse, StoreObject, FailObject, FailAfterObject, StorePointer, FailPointer,
         AfterStoreError
    <2>2. pc' = [pc EXCEPT ![p] = pc'[p]] /\ (pc[p] \in {"idle", "next", "bare"} => pc'[p] \in {"next", "bare"})
      BY <1>3 DEF Start, FailPrepare, FollowPointer, MissPointer, Hit, MissObject, FailLookup,
         Analyse, FailAnalyse, StoreObject, FailObject, FailAfterObject, StorePointer, FailPointer,
         AfterStoreError
    <2> QED BY <2>1, <2>2
  <1>4. CASE UNCHANGED <<pc, memo>> BY <1>4
  <1>5. ASSUME NEW a \in Adapter, NEW v \in Value, Edit(a, v) PROVE MemoSet'
    BY <1>4, <1>5 DEF Edit
  <1>6. ASSUME NEW r \in Report, DeleteObject(r) PROVE MemoSet' BY <1>4, <1>6 DEF DeleteObject
  <1>7. ASSUME NEW a \in Adapter, DamagePointer(a) PROVE MemoSet' BY <1>4, <1>7 DEF DamagePointer
  <1>8. CASE UNCHANGED vars BY <1>4, <1>8 DEF vars
  <1> QED BY <1>1, <1>2, <1>3, <1>5, <1>6, <1>7, <1>8 DEF Next, Step

LEMMA NextType == TypeOK /\ MemoSet /\ [Next]_vars => TypeOK'
  <1> SUFFICES ASSUME TypeOK, MemoSet, [Next]_vars PROVE TypeOK' OBVIOUS
  <1> USE ConstantsAssumption DEF TypeOK, Goto, Fault, cache, counters
  <1>1. ASSUME NEW p \in Proc, Start(p) PROVE TypeOK'
    <2>1. pc' \in [Proc -> PCs] /\ todo' \in [Proc -> SUBSET Adapter]
      BY <1>1 DEF Start, PCs
    <2>2. opts' \in [Proc -> [explicit : BOOLEAN, readOnly : BOOLEAN]]
      BY <1>1 DEF Start
    <2> QED BY <1>1, <2>1, <2>2 DEF Start
  <1>2. ASSUME NEW p \in Proc, Prepare(p) PROVE TypeOK'
    <2>1. Candidate(p) \in Adapter BY <1>2 DEF Prepare, Candidate
    <2>2. memo' \in [Proc -> Digest \cup {NoDigest}] BY <1>2, DigestType DEF Prepare
    <2>3. pc' \in [Proc -> PCs] BY <1>2 DEF Prepare, PCs
    <2>4. cur' \in [Proc -> Adapter] /\ todo' \in [Proc -> SUBSET Adapter]
      BY <1>2, <2>1 DEF Prepare
    <2> QED BY <1>2, <2>2, <2>3, <2>4 DEF Prepare
  <1>15. ASSUME NEW p \in Proc, FailPrepare(p) PROVE TypeOK'
    <2>1. Candidate(p) \in Adapter BY <1>15 DEF FailPrepare, Candidate
    <2>2. pc' \in [Proc -> PCs] BY <1>15 DEF FailPrepare, PCs
    <2>3. cur' \in [Proc -> Adapter] /\ todo' \in [Proc -> SUBSET Adapter]
      BY <1>15, <2>1 DEF FailPrepare
    <2> QED BY <1>15, <2>2, <2>3 DEF FailPrepare
  <1>3. ASSUME NEW p \in Proc, Finish(p) \/ Crash(p) PROVE TypeOK'
    <2>1. Forget(p) /\ UNCHANGED <<src, keys, objects, deleted, runs, edits>>
          /\ faults' \in 0..MaxFaults
      BY <1>3 DEF Finish, Crash
    <2>2. opts' \in [Proc -> [explicit : BOOLEAN, readOnly : BOOLEAN]]
      BY <2>1 DEF Forget
    <2>3. out' \in [Proc -> SUBSET [report : Report, hit : BOOLEAN]]
      BY <2>1 DEF Forget
    <2> QED BY <2>1, <2>2, <2>3, SomeTypes DEF Forget, PCs
  <1>4. ASSUME NEW p \in Proc, FollowPointer(p) PROVE TypeOK'
    <2>1. keys[KeyOf(cur[p])].object \in Report
      BY <1>4 DEF FollowPointer, Matches, Pointer
    <2>2. pc' \in [Proc -> PCs] BY <1>4 DEF FollowPointer, PCs
    <2> QED BY <1>4, <2>1, <2>2 DEF FollowPointer
  <1>5. ASSUME NEW p \in Proc, MissPointer(p) \/ MissObject(p) PROVE TypeOK'
    BY <1>5 DEF MissPointer, MissObject, PCs
  <1>6. ASSUME NEW p \in Proc, Hit(p) PROVE TypeOK'
    <2>1. [report |-> seen[p], hit |-> TRUE] \in [report : Report, hit : BOOLEAN]
      OBVIOUS
    <2>2. pc' \in [Proc -> PCs] BY <1>6 DEF Hit, PCs
    <2> QED BY <1>6, <2>1, <2>2 DEF Hit
  <1>7. ASSUME NEW p \in Proc, Analyse(p) PROVE TypeOK'
    <2> DEFINE r == [of |-> cur[p], src |-> src[cur[p]]]
    <2>1. r \in Report BY DEF Report
    <2>2. [report |-> r, hit |-> FALSE] \in [report : Report, hit : BOOLEAN] BY <2>1
    <2>3. pc' \in [Proc -> PCs] BY <1>7 DEF Analyse, PCs
    <2>4. rep' = [rep EXCEPT ![p] = r]
          /\ out' = [out EXCEPT ![p] = out[p] \cup {[report |-> r, hit |-> FALSE]}]
      BY <1>7 DEF Analyse
    <2> HIDE DEF r
    <2>5. rep' \in [Proc -> Report] /\ out' \in [Proc -> SUBSET [report : Report, hit : BOOLEAN]]
      BY <2>1, <2>2, <2>4
    <2> QED BY <1>7, <2>3, <2>5 DEF Analyse
  <1>8. ASSUME NEW p \in Proc, StoreObject(p) \/ FailAfterObject(p) PROVE TypeOK'
    BY <1>8 DEF StoreObject, FailAfterObject, AfterStoreError, PCs
  <1>16. ASSUME NEW p \in Proc, FailLookup(p) \/ FailAnalyse(p) PROVE TypeOK'
    BY <1>16 DEF FailLookup, FailAnalyse, PCs
  <1>9. ASSUME NEW p \in Proc, FailObject(p) \/ FailPointer(p) PROVE TypeOK'
    BY <1>9 DEF FailObject, FailPointer, AfterStoreError, PCs
  <1>10. ASSUME NEW p \in Proc, StorePointer(p) PROVE TypeOK'
    <2>1. memo[p] \in Digest /\ cur[p] \in Adapter BY <1>10 DEF StorePointer, MemoSet
    <2>2. [input |-> memo[p], object |-> rep[p]] \in Pointer BY <2>1 DEF Pointer
    <2>3. keys' \in [Adapter -> Pointer \cup {NoPointer, BadPointer}]
      BY <1>10, <2>1, <2>2 DEF StorePointer, KeyOf
    <2> QED BY <1>10, <2>3 DEF StorePointer, PCs
  <1>11. ASSUME NEW a \in Adapter, NEW v \in Value, Edit(a, v) PROVE TypeOK'
    BY <1>11 DEF Edit
  <1>12. ASSUME NEW r \in Report, DeleteObject(r) PROVE TypeOK' BY <1>12 DEF DeleteObject
  <1>13. ASSUME NEW a \in Adapter, DamagePointer(a) PROVE TypeOK' BY <1>13 DEF DamagePointer
  <1>14. CASE UNCHANGED vars BY <1>14 DEF vars
  <1> QED BY <1>1, <1>2, <1>3, <1>4, <1>5, <1>6, <1>7, <1>8, <1>9, <1>10, <1>11, <1>12,
             <1>13, <1>14, <1>15, <1>16 DEF Next, Step

-----------------------------------------------------------------------------
(* Objects come before pointers. *)

\* What a process is about to store is its adapter's report, and the object is
\* written before the pointer.
Storing(p) ==
    /\ pc[p] \in {"storeObject", "storePointer"} => rep[p].of = cur[p]
    /\ pc[p] = "storePointer" => rep[p] \in objects \cup deleted

BackedInv == PointerBacked /\ \A p \in Proc : Storing(p)

LEMMA BackedStep == TypeOK /\ BackedInv /\ [Next]_vars => BackedInv'
  <1> SUFFICES ASSUME TypeOK, BackedInv, [Next]_vars PROVE BackedInv' OBVIOUS
  <1> USE ConstantsAssumption DEF TypeOK, BackedInv, PointerBacked, Storing, Goto, Fault, cache, counters
  <1>1. ASSUME NEW p \in Proc,
               \/ Start(p) \/ Prepare(p) \/ FailPrepare(p) \/ FollowPointer(p) \/ MissPointer(p)
               \/ Hit(p) \/ MissObject(p) \/ FailLookup(p) \/ FailAnalyse(p) \/ FailObject(p)
               \/ FailPointer(p)
        PROVE  BackedInv'
    <2>1. UNCHANGED <<keys, objects, deleted, rep>>
      BY <1>1 DEF Start, Prepare, FailPrepare, FollowPointer, MissPointer, Hit, MissObject,
         FailLookup, FailAnalyse, FailObject, FailPointer
    <2>2. /\ pc'[p] \notin {"storeObject", "storePointer"}
          /\ \A q \in Proc : q # p => pc'[q] = pc[q] /\ cur'[q] = cur[q]
      BY <1>1 DEF Start, Prepare, FailPrepare, FollowPointer, MissPointer, Hit, MissObject,
         FailLookup, FailAnalyse, FailObject, FailPointer, AfterStoreError
    <2> QED BY <2>1, <2>2
  <1>2. ASSUME NEW p \in Proc, Finish(p) \/ Crash(p) PROVE BackedInv'
    BY <1>2 DEF Finish, Crash, Forget
  <1>3. ASSUME NEW p \in Proc, Analyse(p) PROVE BackedInv'
    <2>1. /\ UNCHANGED <<keys, objects, deleted, cur>>
          /\ pc'[p] # "storePointer" /\ rep'[p].of = cur[p]
          /\ \A q \in Proc : q # p => pc'[q] = pc[q] /\ rep'[q] = rep[q]
      BY <1>3 DEF Analyse
    <2> QED BY <2>1
  <1>4. ASSUME NEW p \in Proc, StoreObject(p) \/ FailAfterObject(p) PROVE BackedInv'
    BY <1>4 DEF StoreObject, FailAfterObject, AfterStoreError
  <1>5. ASSUME NEW p \in Proc, StorePointer(p) PROVE BackedInv'
    <2>1. /\ UNCHANGED <<objects, deleted, cur, rep>> /\ pc[p] = "storePointer"
          /\ pc' = [pc EXCEPT ![p] = "next"]
          /\ keys'[cur[p]].object = rep[p]
          /\ \A a \in Adapter : a # cur[p] => keys'[a] = keys[a]
      BY <1>5 DEF StorePointer, KeyOf
    <2>2. \A q \in Proc : Storing(q)' BY <2>1
    <2>3. PointerBacked' BY <2>1
    <2> QED BY <2>2, <2>3
  <1>6. ASSUME NEW a \in Adapter, NEW v \in Value, Edit(a, v) PROVE BackedInv' BY <1>6 DEF Edit
  <1>7. ASSUME NEW r \in Report, DeleteObject(r) PROVE BackedInv' BY <1>7 DEF DeleteObject
  <1>8. ASSUME NEW a \in Adapter, DamagePointer(a) PROVE BackedInv'
    BY <1>8 DEF DamagePointer
  <1>9. CASE UNCHANGED vars BY <1>9 DEF vars
  <1> QED BY <1>1, <1>2, <1>3, <1>4, <1>5, <1>6, <1>7, <1>8, <1>9 DEF Next, Step

LEMMA BackedInvariance == Spec => [](TypeOK /\ MemoSet /\ BackedInv)
  <1>1. Init => TypeOK /\ MemoSet /\ BackedInv
    BY InitType, ConstantsAssumption DEF Init, MemoSet, BackedInv, PointerBacked, Storing
  <1>2. TypeOK /\ MemoSet /\ BackedInv /\ [Next]_vars => (TypeOK /\ MemoSet /\ BackedInv)'
    BY NextType, MemoStep, BackedStep
  <1> QED BY <1>1, <1>2, PTL DEF Spec

\* Type correctness.
THEOREM CacheTypeCorrect == Spec => []TypeOK
  BY BackedInvariance, PTL

\* store: a key file never names an object that was not written.
THEOREM PointersAreBacked == Spec => []PointerBacked
  <1>1. BackedInv => PointerBacked BY DEF BackedInv
  <1> QED BY <1>1, BackedInvariance, PTL

-----------------------------------------------------------------------------
(* Hits are current, while sources rest during a run and the digest covers   *)
(* the files of every adapter.                                               *)

CurrentReport(a) == [of |-> a, src |-> src[a]]

\* What a process remembers is what the sources still are.
Current(p) ==
    /\ memo[p] # NoDigest => memo[p] = InputDigest /\ pc[p] # "idle"
    /\ pc[p] \in {"storeObject", "storePointer"} => rep[p] = CurrentReport(cur[p])
    /\ pc[p] = "object" => seen[p] = CurrentReport(cur[p])

\* A pointer names the report of the inputs it records.
KeysTrue ==
    \A a \in Adapter : keys[a] \in Pointer =>
        keys[a].object = [of |-> a, src |-> keys[a].input[a]]

CurrentInv == KeysTrue /\ \A p \in Proc : Current(p)

LEMMA CurrentStep ==
  ASSUME EditsAtRest, Hashed = Adapter, TypeOK, MemoSet, CurrentInv, [Next]_vars
  PROVE  CurrentInv'
  <1> USE DEF TypeOK, CurrentInv, Current, CurrentReport, Goto, Fault, cache, counters
  <1>1. ASSUME NEW p \in Proc,
               \/ Start(p) \/ MissPointer(p) \/ Hit(p) \/ MissObject(p) \/ FailLookup(p)
               \/ FailAnalyse(p) \/ StoreObject(p) \/ FailObject(p) \/ FailAfterObject(p)
               \/ FailPointer(p)
        PROVE  CurrentInv'
    <2>1. UNCHANGED <<keys, src, memo, rep, cur, seen>>
      BY <1>1 DEF Start, MissPointer, Hit, MissObject, FailLookup, FailAnalyse, StoreObject,
         FailObject, FailAfterObject, FailPointer
    <2>2. /\ pc'[p] # "idle"
          /\ pc'[p] \in {"storeObject", "storePointer"} => pc[p] \in {"storeObject", "storePointer"}
          /\ pc'[p] # "object"
          /\ \A q \in Proc : q # p => pc'[q] = pc[q]
      BY <1>1 DEF Start, MissPointer, Hit, MissObject, FailLookup, FailAnalyse, StoreObject,
         FailObject, FailAfterObject, FailPointer, AfterStoreError
    <2>3. \A q \in Proc : Current(q)' BY <2>1, <2>2 DEF InputDigest
    <2> QED BY <2>1, <2>3 DEF KeysTrue
  <1>2. ASSUME NEW p \in Proc, Prepare(p) PROVE CurrentInv'
    <2>1. /\ UNCHANGED <<keys, src, rep, seen>>
          /\ pc'[p] = "pointer" /\ memo'[p] \in {memo[p], InputDigest}
          /\ \A q \in Proc : q # p => pc'[q] = pc[q] /\ memo'[q] = memo[q] /\ cur'[q] = cur[q]
      BY <1>2 DEF Prepare
    <2>2. \A q \in Proc : Current(q)' BY <2>1 DEF InputDigest
    <2> QED BY <2>1, <2>2 DEF KeysTrue
  <1>11. ASSUME NEW p \in Proc, FailPrepare(p) PROVE CurrentInv'
    <2>1. /\ UNCHANGED <<keys, src, rep, seen, memo>> /\ pc'[p] = "bare"
          /\ \A q \in Proc : q # p => pc'[q] = pc[q] /\ cur'[q] = cur[q]
      BY <1>11 DEF FailPrepare
    <2>2. \A q \in Proc : Current(q)' BY <2>1 DEF InputDigest
    <2> QED BY <2>1, <2>2 DEF KeysTrue
  <1>3. ASSUME NEW p \in Proc, Finish(p) \/ Crash(p) PROVE CurrentInv'
    <2>1. /\ UNCHANGED <<keys, src>> /\ memo'[p] = NoDigest /\ pc'[p] = "idle"
          /\ \A q \in Proc : q # p => /\ pc'[q] = pc[q] /\ memo'[q] = memo[q] /\ cur'[q] = cur[q]
                                      /\ rep'[q] = rep[q] /\ seen'[q] = seen[q]
      BY <1>3 DEF Finish, Crash, Forget
    <2>2. \A q \in Proc : Current(q)' BY <2>1 DEF InputDigest
    <2> QED BY <2>1, <2>2 DEF KeysTrue
  <1>4. ASSUME NEW p \in Proc, FollowPointer(p) PROVE CurrentInv'
    <2> DEFINE a == cur[p]
    <2>1. /\ UNCHANGED <<keys, src, memo, rep, cur>>
          /\ pc' = [pc EXCEPT ![p] = "object"] /\ pc[p] = "pointer"
          /\ seen' = [seen EXCEPT ![p] = keys[a].object]
          /\ keys[a] \in Pointer /\ keys[a].input = memo[p]
      BY <1>4 DEF FollowPointer, Matches, KeyOf
    <2>2. memo[p] = InputDigest BY <2>1 DEF MemoSet
    <2>3. keys[a].object = CurrentReport(a)
      BY <2>1, <2>2 DEF KeysTrue, InputDigest
    <2>4. \A q \in Proc : Current(q)' BY <2>1, <2>3 DEF InputDigest
    <2> QED BY <2>1, <2>4 DEF KeysTrue
  <1>5. ASSUME NEW p \in Proc, Analyse(p) PROVE CurrentInv'
    <2>1. /\ UNCHANGED <<keys, src, memo, seen, cur>>
          /\ pc'[p] \notin {"idle", "object"} /\ rep'[p] = CurrentReport(cur[p])
          /\ \A q \in Proc : q # p => pc'[q] = pc[q] /\ rep'[q] = rep[q]
      BY <1>5 DEF Analyse
    <2>2. \A q \in Proc : Current(q)' BY <2>1 DEF InputDigest
    <2> QED BY <2>1, <2>2 DEF KeysTrue
  <1>6. ASSUME NEW p \in Proc, StorePointer(p) PROVE CurrentInv'
    <2>1. /\ UNCHANGED <<src, memo, seen, cur, rep>> /\ pc[p] = "storePointer"
          /\ pc' = [pc EXCEPT ![p] = "next"]
          /\ keys' = [keys EXCEPT ![cur[p]] = [input |-> memo[p], object |-> rep[p]]]
      BY <1>6 DEF StorePointer, KeyOf
    <2>2. memo[p] = InputDigest /\ rep[p] = CurrentReport(cur[p]) BY <2>1 DEF MemoSet
    <2>3. keys'[cur[p]].object = [of |-> cur[p], src |-> keys'[cur[p]].input[cur[p]]]
      BY <2>1, <2>2 DEF InputDigest
    <2>4. KeysTrue' BY <2>1, <2>3 DEF KeysTrue
    <2>5. \A q \in Proc : Current(q)' BY <2>1 DEF InputDigest
    <2> QED BY <2>4, <2>5
  <1>7. ASSUME NEW a \in Adapter, NEW v \in Value, Edit(a, v) PROVE CurrentInv'
    <2>1. /\ UNCHANGED <<keys, pc, memo, rep, seen, cur>> /\ \A q \in Proc : pc[q] = "idle"
      BY <1>7 DEF Edit
    <2> QED BY <2>1 DEF KeysTrue
  <1>8. ASSUME NEW r \in Report, DeleteObject(r) PROVE CurrentInv'
    BY <1>8 DEF DeleteObject, KeysTrue, InputDigest
  <1>9. ASSUME NEW a \in Adapter, DamagePointer(a) PROVE CurrentInv'
    BY <1>9, ConstantsAssumption DEF DamagePointer, KeysTrue, InputDigest
  <1>10. CASE UNCHANGED vars BY <1>10 DEF vars, KeysTrue, InputDigest
  <1> QED BY <1>1, <1>2, <1>3, <1>4, <1>5, <1>6, <1>7, <1>8, <1>9, <1>10, <1>11
     DEF Next, Step

LEMMA CurrentInvariance ==
  ASSUME EditsAtRest, Hashed = Adapter
  PROVE  Spec => []CurrentInv
  <1>1. Init => CurrentInv
    BY ConstantsAssumption DEF Init, CurrentInv, KeysTrue, Current
  <1>2. TypeOK /\ MemoSet /\ CurrentInv /\ [Next]_vars => CurrentInv' BY CurrentStep
  <1> QED BY <1>1, <1>2, BackedInvariance, PTL DEF Spec

\* lookup: a report served from the cache is the one the adapter would return
\* now, if sources rest during a run and the digest covers them.
THEOREM HitsAreCurrent ==
  ASSUME EditsAtRest, Hashed = Adapter
  PROVE  Spec => HitIsCurrent
  <1>1. CurrentInv => [\A p \in Proc : Hit(p) =>
                          seen[p] = [of |-> cur[p], src |-> src[cur[p]]]]_vars
    BY DEF CurrentInv, Current, CurrentReport, Hit, Goto
  <1> QED BY <1>1, CurrentInvariance, PTL DEF HitIsCurrent

\* store: concurrent runs replace a usable entry by a usable one only.
THEOREM EntriesStayUsable ==
  ASSUME EditsAtRest, Hashed = Adapter
  PROVE  Spec => EntryStaysUsable
  <1>1. ASSUME TypeOK, MemoSet, CurrentInv, [Next]_vars, NEW a \in Adapter,
               keys[a] \in Pointer, keys[a].input = InputDigest, keys[a].object \in objects,
               src' = src, faults' = faults
        PROVE  keys'[a] \in Pointer /\ keys'[a].input = InputDigest /\ keys'[a].object \in objects'
    <2> USE <1>1, ConstantsAssumption DEF TypeOK, Goto, Fault, cache, counters
    <2>1. ASSUME NEW p \in Proc, StorePointer(p)
          PROVE  keys'[a] \in Pointer /\ keys'[a].input = InputDigest /\ keys'[a].object \in objects'
      <3>1. /\ pc[p] = "storePointer" /\ objects' = objects
            /\ keys' = [keys EXCEPT ![cur[p]] = [input |-> memo[p], object |-> rep[p]]]
        BY <2>1 DEF StorePointer, KeyOf
      <3>2. memo[p] = InputDigest /\ memo[p] \in Digest /\ rep[p] = CurrentReport(cur[p])
        BY <3>1 DEF MemoSet, CurrentInv, Current
      <3>3. CASE cur[p] = a
        <4>1. keys[a].object = CurrentReport(a)
          BY DEF CurrentInv, KeysTrue, InputDigest, CurrentReport
        <4> QED BY <3>1, <3>2, <3>3, <4>1 DEF Pointer
      <3>4. CASE cur[p] # a BY <3>1, <3>4
      <3> QED BY <3>3, <3>4
    <2>2. ASSUME NEW p \in Proc, StoreObject(p) \/ FailAfterObject(p)
          PROVE  keys' = keys /\ objects \subseteq objects'
      BY <2>2 DEF StoreObject, FailAfterObject
    <2>3. ASSUME NEW p \in Proc,
                 \/ Start(p) \/ Prepare(p) \/ FailPrepare(p) \/ Finish(p) \/ FollowPointer(p)
                 \/ MissPointer(p) \/ Hit(p) \/ MissObject(p) \/ FailLookup(p) \/ Analyse(p)
                 \/ FailAnalyse(p) \/ FailObject(p) \/ FailPointer(p) \/ Crash(p)
          PROVE  UNCHANGED <<keys, objects>>
      BY <2>3 DEF Start, Prepare, FailPrepare, Finish, FollowPointer, MissPointer, Hit, MissObject,
         FailLookup, Analyse, FailAnalyse, FailObject, FailPointer, Crash
    <2>4. ASSUME NEW b \in Adapter, NEW v \in Value, Edit(b, v) PROVE UNCHANGED <<keys, objects>>
      BY <2>4 DEF Edit
    <2>5. ASSUME NEW r \in Report, DeleteObject(r) PROVE FALSE BY <2>5 DEF DeleteObject
    <2>6. ASSUME NEW b \in Adapter, DamagePointer(b) PROVE FALSE BY <2>6 DEF DamagePointer
    <2>7. CASE UNCHANGED vars BY <2>7 DEF vars
    <2> QED BY <2>1, <2>2, <2>3, <2>4, <2>5, <2>6, <2>7 DEF Next, Step
  <1>2. TypeOK /\ MemoSet /\ CurrentInv /\ [Next]_vars =>
          [\A a \in Adapter :
            keys[a] \in Pointer /\ keys[a].input = InputDigest /\ keys[a].object \in objects
            /\ src' = src /\ faults' = faults
            => keys'[a] \in Pointer /\ keys'[a].input = InputDigest
               /\ keys'[a].object \in objects']_vars
    BY <1>1
  <1> QED BY <1>2, BackedInvariance, CurrentInvariance, PTL DEF Spec, EntryStaysUsable
=============================================================================
