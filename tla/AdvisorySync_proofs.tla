------------------------ MODULE AdvisorySync_proofs ------------------------
(***************************************************************************)
(* Theorems about AdvisorySync, for every set of processes, every set of   *)
(* snapshot contents and every truncation of digests to identifiers.       *)
(***************************************************************************)
EXTENDS AdvisorySync, FiniteSetTheorems, TLAPS

USE DEF procVars, diskVars, ghosts, Goto, NoFault, Fault

-----------------------------------------------------------------------------
\* Merging into a manifest gives a manifest (updateManifest).
LEMMA MergeType ==
    ASSUME NEW m \in Manifests, NEW d \in Digest
    PROVE  MergeManifest(m, d) \in Manifests
BY ConstantsAssumption DEF Manifests, MergeManifest

\* A downloaded digest has a name in the snapshots directory.
LEMMA NameType == \A d \in Digest : Name(d) \in Names
BY DEF Names

\* The initial state satisfies the type invariant.
LEMMA InitType == Init => TypeOK
BY ConstantsAssumption
   DEF Init, TypeOK, NoFile, NoManifest, Manifests, Content, PCs

\* Every step keeps the type invariant.
LEMMA NextType == TypeOK /\ [Next]_vars => TypeOK'
<1> SUFFICES ASSUME TypeOK, [Next]_vars PROVE TypeOK'
  OBVIOUS
<1> USE NameType, ConstantsAssumption DEF TypeOK
<1>1. ASSUME NEW p \in Proc, BeginDownload(p) PROVE TypeOK'
  BY <1>1 DEF BeginDownload, PCs, LockedPCs
<1>2. ASSUME NEW p \in Proc, FailDownload(p) PROVE TypeOK'
  BY <1>2 DEF FailDownload, PCs, LockedPCs
<1>3. ASSUME NEW p \in Proc, TryAcquire(p) PROVE TypeOK'
  BY <1>3 DEF TryAcquire, PCs, LockedPCs
<1>4. ASSUME NEW p \in Proc, RetryLock(p) PROVE TypeOK'
  BY <1>4 DEF RetryLock, PCs, LockedPCs
<1>5. ASSUME NEW p \in Proc, CancelLock(p) PROVE TypeOK'
  BY <1>5 DEF CancelLock, PCs, LockedPCs
<1>6. ASSUME NEW p \in Proc, VerifyIdentity(p) PROVE TypeOK'
  <2>1. pc' \in [Proc -> PCs]
    BY <1>6 DEF VerifyIdentity, PCs, LockedPCs
  <2>2. res' \in [Proc -> {"none", "ok", "error"}]
    BY <1>6 DEF VerifyIdentity
  <2>3. faults' \in Nat /\ UNCHANGED <<lock, files, temps, manifest, dig, ino, owned, loaded, downloads, tampered, lateFail>>
    BY <1>6 DEF VerifyIdentity
  <2> QED
    BY <2>1, <2>2, <2>3
<1>7. ASSUME NEW p \in Proc, CheckAbsent(p) PROVE TypeOK'
  <2>1. pc' \in [Proc -> PCs]
    <3>1. pc' = [pc EXCEPT ![p] = "release"] \/ pc' = [pc EXCEPT ![p] = "place"]
      BY <1>7 DEF CheckAbsent
    <3> QED
      BY <3>1 DEF PCs, LockedPCs
  <2>2. res' \in [Proc -> {"none", "ok", "error"}]
    BY <1>7 DEF CheckAbsent
  <2>3. faults' \in Nat /\ UNCHANGED <<lock, files, temps, manifest, dig, ino, owned, loaded, downloads, tampered, lateFail>>
    BY <1>7 DEF CheckAbsent
  <2> QED
    BY <2>1, <2>2, <2>3
<1>8. ASSUME NEW p \in Proc, LinkSnapshot(p) PROVE TypeOK'
  <2>1. pc' \in [Proc -> PCs]
    BY <1>8 DEF LinkSnapshot, PCs, LockedPCs
  <2>2. files' \in [Names -> [ino : Nat, content : Content]]
    BY <1>8 DEF LinkSnapshot, Content
  <2>3. owned' \in [Proc -> Nat]
    BY <1>8 DEF LinkSnapshot
  <2>4. faults' \in Nat /\ UNCHANGED <<lock, temps, manifest, dig, ino, loaded, res, downloads, tampered, lateFail>>
    BY <1>8 DEF LinkSnapshot
  <2> QED
    BY <2>1, <2>2, <2>3, <2>4
<1>9. ASSUME NEW p \in Proc, FailLink(p) PROVE TypeOK'
  BY <1>9 DEF FailLink, PCs, LockedPCs
<1>10. ASSUME NEW p \in Proc, VerifyExisting(p) PROVE TypeOK'
  <2>1. pc' \in [Proc -> PCs]
    <3>1. pc' = [pc EXCEPT ![p] = "verifyChild"] \/ pc' = [pc EXCEPT ![p] = "release"]
      BY <1>10 DEF VerifyExisting
    <3> QED
      BY <3>1 DEF PCs, LockedPCs
  <2>2. res' \in [Proc -> {"none", "ok", "error"}]
    BY <1>10 DEF VerifyExisting
  <2>3. faults' \in Nat /\ UNCHANGED <<lock, files, temps, manifest, dig, ino, owned, loaded, downloads, tampered, lateFail>>
    BY <1>10 DEF VerifyExisting
  <2> QED
    BY <2>1, <2>2, <2>3
<1>11. ASSUME NEW p \in Proc, VerifyPlaced(p) PROVE TypeOK'
  <2>1. pc' \in [Proc -> PCs]
    BY <1>11 DEF VerifyPlaced, PCs, LockedPCs
  <2>2. res' \in [Proc -> {"none", "ok", "error"}]
    BY <1>11 DEF VerifyPlaced
  <2>3. faults' \in Nat /\ UNCHANGED <<lock, files, temps, manifest, dig, ino, owned, loaded, downloads, tampered, lateFail>>
    BY <1>11 DEF VerifyPlaced
  <2> QED
    BY <2>1, <2>2, <2>3
<1>12. ASSUME NEW p \in Proc, VerifyChild(p) PROVE TypeOK'
  <2>1. pc' \in [Proc -> PCs]
    BY <1>12 DEF VerifyChild, AfterFailure, PCs, LockedPCs
  <2>2. res' \in [Proc -> {"none", "ok", "error"}]
    BY <1>12 DEF VerifyChild
  <2>3. faults' \in Nat /\ UNCHANGED <<lock, files, temps, manifest, dig, ino, owned, loaded, downloads, tampered, lateFail>>
    BY <1>12 DEF VerifyChild
  <2> QED
    BY <2>1, <2>2, <2>3
<1>13. ASSUME NEW p \in Proc, LoadManifest(p) PROVE TypeOK'
  <2>1. pc' \in [Proc -> PCs]
    BY <1>13 DEF LoadManifest, AfterFailure, PCs, LockedPCs
  <2>2. res' \in [Proc -> {"none", "ok", "error"}]
    BY <1>13 DEF LoadManifest
  <2>3. loaded' \in [Proc -> Manifests]
    BY <1>13 DEF LoadManifest
  <2>4. faults' \in Nat /\ UNCHANGED <<lock, files, temps, manifest, dig, ino, owned, downloads, tampered, lateFail>>
    BY <1>13 DEF LoadManifest
  <2> QED
    BY <2>1, <2>2, <2>3, <2>4
<1>14. ASSUME NEW p \in Proc, WriteManifest(p) PROVE TypeOK'
  <2>1. pc' \in [Proc -> PCs]
    BY <1>14 DEF WriteManifest, AfterFailure, PCs, LockedPCs
  <2>2. res' \in [Proc -> {"none", "ok", "error"}]
    BY <1>14 DEF WriteManifest
  <2>3. manifest' \in Manifests
    BY <1>14, MergeType DEF WriteManifest
  <2>4. faults' \in Nat /\ UNCHANGED <<lock, files, temps, dig, ino, owned, loaded, downloads, tampered, lateFail>>
    BY <1>14 DEF WriteManifest
  <2> QED
    BY <2>1, <2>2, <2>3, <2>4
<1>15. ASSUME NEW p \in Proc, FailWrite(p) PROVE TypeOK'
  <2>1. pc' \in [Proc -> PCs]
    BY <1>15 DEF FailWrite, AfterFailure, PCs, LockedPCs
  <2>2. res' \in [Proc -> {"none", "ok", "error"}]
    BY <1>15 DEF FailWrite
  <2>3. faults' \in Nat /\ UNCHANGED <<lock, files, temps, manifest, dig, ino, owned, loaded, downloads, tampered, lateFail>>
    BY <1>15 DEF FailWrite
  <2> QED
    BY <2>1, <2>2, <2>3
<1>16. ASSUME NEW p \in Proc, VerifyManifest(p) PROVE TypeOK'
  <2>1. pc' \in [Proc -> PCs]
    BY <1>16 DEF VerifyManifest, AfterFailure, PCs, LockedPCs
  <2>2. res' \in [Proc -> {"none", "ok", "error"}]
    BY <1>16 DEF VerifyManifest
  <2>3. lateFail' \in SUBSET Digest
    BY <1>16 DEF VerifyManifest
  <2>4. faults' \in Nat /\ UNCHANGED <<lock, files, temps, manifest, dig, ino, owned, loaded, downloads, tampered>>
    BY <1>16 DEF VerifyManifest
  <2> QED
    BY <2>1, <2>2, <2>3, <2>4
<1>17. ASSUME NEW p \in Proc, RollbackCheck(p) PROVE TypeOK'
  BY <1>17 DEF RollbackCheck, PCs, LockedPCs
<1>18. ASSUME NEW p \in Proc, RollbackRemove(p) PROVE TypeOK'
  <2>1. pc' \in [Proc -> PCs]
    BY <1>18 DEF RollbackRemove, PCs, LockedPCs
  <2>2. files' \in [Names -> [ino : Nat, content : Content]]
    BY <1>18 DEF RollbackRemove, NoFile, Content
  <2>3. faults' \in Nat /\ UNCHANGED <<lock, temps, manifest, dig, ino, owned, loaded, res, downloads, tampered, lateFail>>
    BY <1>18 DEF RollbackRemove
  <2> QED
    BY <2>1, <2>2, <2>3
<1>19. ASSUME NEW p \in Proc, ReleaseLock(p) PROVE TypeOK'
  BY <1>19 DEF ReleaseLock, PCs, LockedPCs
<1>20. ASSUME NEW p \in Proc, CleanupTemp(p) PROVE TypeOK'
  <2>1. pc' \in [Proc -> PCs]
    BY <1>20 DEF CleanupTemp, PCs, LockedPCs
  <2>2. res' \in [Proc -> {"none", "ok", "error"}]
    BY <1>20 DEF CleanupTemp
  <2>3. temps' \in SUBSET Nat
    BY <1>20 DEF CleanupTemp
  <2>4. faults' \in Nat /\ UNCHANGED <<lock, files, manifest, dig, ino, owned, loaded, downloads, tampered, lateFail>>
    BY <1>20 DEF CleanupTemp
  <2> QED
    BY <2>1, <2>2, <2>3, <2>4
<1>21. ASSUME NEW p \in Proc, Crash(p) PROVE TypeOK'
  BY <1>21 DEF Crash, PCs, LockedPCs
<1>22. ASSUME NEW p \in Proc, NEW d \in Digest, FinishDownload(p, d) PROVE TypeOK'
  BY <1>22 DEF FinishDownload, PCs, LockedPCs
<1>23. ASSUME NEW n \in Names, ForeignRemove(n) PROVE TypeOK'
  BY <1>23 DEF ForeignRemove, NoFile, Content
<1>24. ASSUME NEW n \in Names, NEW c \in Content, ForeignWrite(n, c) PROVE TypeOK'
  BY <1>24 DEF ForeignWrite
<1>25. CASE UNCHANGED vars
  BY <1>25 DEF vars
<1> QED
  BY <1>1, <1>2, <1>3, <1>4, <1>5, <1>6, <1>7, <1>8, <1>9, <1>10, <1>11, <1>12,
     <1>13, <1>14, <1>15, <1>16, <1>17, <1>18, <1>19, <1>20, <1>21, <1>22, <1>23, <1>24, <1>25
     DEF Next, Step, Publish, Foreign

\* Type correctness of the publication protocol (sync.go).
THEOREM TypeCorrect == Spec => []TypeOK
BY InitType, NextType, PTL DEF Spec
-----------------------------------------------------------------------------
\* The initial state satisfies the inductive invariant.
LEMMA InitIInv == Init => IInv
BY InitType, ConstantsAssumption
   DEF Init, IInv, LockExclusive, ManifestBacked, SuccessIsLatest, HolderInv,
       LockedPCs, NoManifest

\* Two processes are never both inside the publication section.
LEMMA OneHolder ==
    ASSUME LockExclusive, NEW p \in Proc, NEW q \in Proc,
           pc[p] \in LockedPCs, pc[q] \in LockedPCs
    PROVE  p = q
BY DEF LockExclusive

\* A step of p that leaves the shared files and the ghosts alone keeps the
\* invariant as soon as it keeps the parts that speak about p and the lock.
LEMMA QuietStep ==
    ASSUME IInv, TypeOK', LockExclusive', NEW p \in Proc,
           UNCHANGED <<files, manifest, tampered, lateFail>>,
           \A q \in Proc \ {p} :
               /\ pc'[q] = pc[q] /\ dig'[q] = dig[q] /\ owned'[q] = owned[q]
               /\ loaded'[q] = loaded[q] /\ res'[q] = res[q] /\ ino'[q] = ino[q],
           HolderInv(p)',
           pc'[p] = "release" => res'[p] # "ok"
    PROVE  IInv'
<1>1. ManifestBacked'
  BY DEF IInv, ManifestBacked, Absent
<1>2. SuccessIsLatest'
  BY DEF IInv, SuccessIsLatest
<1>3. ASSUME NEW q \in Proc \ {p} PROVE HolderInv(q)'
  <2>1. HolderInv(q)
    BY DEF IInv
  <2>2. Ready(q)' <=> Ready(q)
    BY DEF Ready, Absent
  <2>3. Unreferenced(q)' <=> Unreferenced(q)
    BY DEF Unreferenced
  <2> QED
    BY <2>1, <2>2, <2>3 DEF HolderInv
<1> QED
  BY <1>1, <1>2, <1>3 DEF IInv

\* BeginDownload keeps the invariant.
LEMMA BeginDownloadInv ==
    ASSUME IInv, TypeOK', NEW p \in Proc, BeginDownload(p)
    PROVE  IInv'
<1> USE DEF BeginDownload
<1>1. LockExclusive'
  BY ConstantsAssumption DEF IInv, TypeOK, LockExclusive, LockedPCs
<1>2. /\ UNCHANGED <<files, manifest, tampered, lateFail>>
      /\ \A q \in Proc \ {p} :
             /\ pc'[q] = pc[q] /\ dig'[q] = dig[q] /\ owned'[q] = owned[q]
             /\ loaded'[q] = loaded[q] /\ res'[q] = res[q] /\ ino'[q] = ino[q]
  BY DEF IInv, TypeOK
<1>3. HolderInv(p)'
  BY DEF IInv, TypeOK, HolderInv, LockedPCs, Ready, Absent, Unreferenced
<1>4. pc'[p] = "release" => res'[p] # "ok"
  BY DEF IInv, TypeOK, HolderInv, LockedPCs
<1> QED
  BY <1>1, <1>2, <1>3, <1>4, QuietStep

\* FailDownload keeps the invariant.
LEMMA FailDownloadInv ==
    ASSUME IInv, TypeOK', NEW p \in Proc, FailDownload(p)
    PROVE  IInv'
<1> USE DEF FailDownload
<1>1. LockExclusive'
  BY ConstantsAssumption DEF IInv, TypeOK, LockExclusive, LockedPCs
<1>2. /\ UNCHANGED <<files, manifest, tampered, lateFail>>
      /\ \A q \in Proc \ {p} :
             /\ pc'[q] = pc[q] /\ dig'[q] = dig[q] /\ owned'[q] = owned[q]
             /\ loaded'[q] = loaded[q] /\ res'[q] = res[q] /\ ino'[q] = ino[q]
  BY DEF IInv, TypeOK
<1>3. HolderInv(p)'
  BY DEF IInv, TypeOK, HolderInv, LockedPCs, Ready, Absent, Unreferenced
<1>4. pc'[p] = "release" => res'[p] # "ok"
  BY DEF IInv, TypeOK, HolderInv, LockedPCs
<1> QED
  BY <1>1, <1>2, <1>3, <1>4, QuietStep

\* TryAcquire keeps the invariant.
LEMMA TryAcquireInv ==
    ASSUME IInv, TypeOK', NEW p \in Proc, TryAcquire(p)
    PROVE  IInv'
<1> USE DEF TryAcquire
<1>1. LockExclusive'
  BY ConstantsAssumption DEF IInv, TypeOK, LockExclusive, LockedPCs
<1>2. /\ UNCHANGED <<files, manifest, tampered, lateFail>>
      /\ \A q \in Proc \ {p} :
             /\ pc'[q] = pc[q] /\ dig'[q] = dig[q] /\ owned'[q] = owned[q]
             /\ loaded'[q] = loaded[q] /\ res'[q] = res[q] /\ ino'[q] = ino[q]
  BY DEF IInv, TypeOK
<1>3. HolderInv(p)'
  BY DEF IInv, TypeOK, HolderInv, LockedPCs, Ready, Absent, Unreferenced
<1>4. pc'[p] = "release" => res'[p] # "ok"
  BY DEF IInv, TypeOK, HolderInv, LockedPCs
<1> QED
  BY <1>1, <1>2, <1>3, <1>4, QuietStep

\* RetryLock keeps the invariant.
LEMMA RetryLockInv ==
    ASSUME IInv, TypeOK', NEW p \in Proc, RetryLock(p)
    PROVE  IInv'
<1> USE DEF RetryLock
<1>1. LockExclusive'
  BY ConstantsAssumption DEF IInv, TypeOK, LockExclusive, LockedPCs
<1>2. /\ UNCHANGED <<files, manifest, tampered, lateFail>>
      /\ \A q \in Proc \ {p} :
             /\ pc'[q] = pc[q] /\ dig'[q] = dig[q] /\ owned'[q] = owned[q]
             /\ loaded'[q] = loaded[q] /\ res'[q] = res[q] /\ ino'[q] = ino[q]
  BY DEF IInv, TypeOK
<1>3. HolderInv(p)'
  BY DEF IInv, TypeOK, HolderInv, LockedPCs, Ready, Absent, Unreferenced
<1>4. pc'[p] = "release" => res'[p] # "ok"
  BY DEF IInv, TypeOK, HolderInv, LockedPCs
<1> QED
  BY <1>1, <1>2, <1>3, <1>4, QuietStep

\* CancelLock keeps the invariant.
LEMMA CancelLockInv ==
    ASSUME IInv, TypeOK', NEW p \in Proc, CancelLock(p)
    PROVE  IInv'
<1> USE DEF CancelLock
<1>1. LockExclusive'
  BY ConstantsAssumption DEF IInv, TypeOK, LockExclusive, LockedPCs
<1>2. /\ UNCHANGED <<files, manifest, tampered, lateFail>>
      /\ \A q \in Proc \ {p} :
             /\ pc'[q] = pc[q] /\ dig'[q] = dig[q] /\ owned'[q] = owned[q]
             /\ loaded'[q] = loaded[q] /\ res'[q] = res[q] /\ ino'[q] = ino[q]
  BY DEF IInv, TypeOK
<1>3. HolderInv(p)'
  BY DEF IInv, TypeOK, HolderInv, LockedPCs, Ready, Absent, Unreferenced
<1>4. pc'[p] = "release" => res'[p] # "ok"
  BY DEF IInv, TypeOK, HolderInv, LockedPCs
<1> QED
  BY <1>1, <1>2, <1>3, <1>4, QuietStep

\* VerifyIdentity keeps the invariant.
LEMMA VerifyIdentityInv ==
    ASSUME IInv, TypeOK', NEW p \in Proc, VerifyIdentity(p)
    PROVE  IInv'
<1> USE DEF VerifyIdentity
<1>1. LockExclusive'
  BY ConstantsAssumption DEF IInv, TypeOK, LockExclusive, LockedPCs
<1>2. /\ UNCHANGED <<files, manifest, tampered, lateFail>>
      /\ \A q \in Proc \ {p} :
             /\ pc'[q] = pc[q] /\ dig'[q] = dig[q] /\ owned'[q] = owned[q]
             /\ loaded'[q] = loaded[q] /\ res'[q] = res[q] /\ ino'[q] = ino[q]
  BY DEF IInv, TypeOK
<1>3. HolderInv(p)'
  BY DEF IInv, TypeOK, HolderInv, LockedPCs, Ready, Absent, Unreferenced
<1>4. pc'[p] = "release" => res'[p] # "ok"
  BY DEF IInv, TypeOK, HolderInv, LockedPCs
<1> QED
  BY <1>1, <1>2, <1>3, <1>4, QuietStep

\* CheckAbsent keeps the invariant.
LEMMA CheckAbsentInv ==
    ASSUME IInv, TypeOK', NEW p \in Proc, CheckAbsent(p)
    PROVE  IInv'
<1> USE DEF CheckAbsent
<1>1. LockExclusive'
  BY ConstantsAssumption DEF IInv, TypeOK, LockExclusive, LockedPCs
<1>2. /\ UNCHANGED <<files, manifest, tampered, lateFail>>
      /\ \A q \in Proc \ {p} :
             /\ pc'[q] = pc[q] /\ dig'[q] = dig[q] /\ owned'[q] = owned[q]
             /\ loaded'[q] = loaded[q] /\ res'[q] = res[q] /\ ino'[q] = ino[q]
  BY DEF IInv, TypeOK
<1>3. HolderInv(p)'
  BY DEF IInv, TypeOK, HolderInv, LockedPCs, Ready, Absent, Unreferenced
<1>4. pc'[p] = "release" => res'[p] # "ok"
  BY DEF IInv, TypeOK, HolderInv, LockedPCs
<1> QED
  BY <1>1, <1>2, <1>3, <1>4, QuietStep

\* FailLink keeps the invariant.
LEMMA FailLinkInv ==
    ASSUME IInv, TypeOK', NEW p \in Proc, FailLink(p)
    PROVE  IInv'
<1> USE DEF FailLink
<1>1. LockExclusive'
  BY ConstantsAssumption DEF IInv, TypeOK, LockExclusive, LockedPCs
<1>2. /\ UNCHANGED <<files, manifest, tampered, lateFail>>
      /\ \A q \in Proc \ {p} :
             /\ pc'[q] = pc[q] /\ dig'[q] = dig[q] /\ owned'[q] = owned[q]
             /\ loaded'[q] = loaded[q] /\ res'[q] = res[q] /\ ino'[q] = ino[q]
  BY DEF IInv, TypeOK
<1>3. HolderInv(p)'
  BY DEF IInv, TypeOK, HolderInv, LockedPCs, Ready, Absent, Unreferenced
<1>4. pc'[p] = "release" => res'[p] # "ok"
  BY DEF IInv, TypeOK, HolderInv, LockedPCs
<1> QED
  BY <1>1, <1>2, <1>3, <1>4, QuietStep

\* VerifyExisting keeps the invariant.
LEMMA VerifyExistingInv ==
    ASSUME IInv, TypeOK', NEW p \in Proc, VerifyExisting(p)
    PROVE  IInv'
<1> USE DEF VerifyExisting
<1>1. LockExclusive'
  BY ConstantsAssumption DEF IInv, TypeOK, LockExclusive, LockedPCs
<1>2. /\ UNCHANGED <<files, manifest, tampered, lateFail>>
      /\ \A q \in Proc \ {p} :
             /\ pc'[q] = pc[q] /\ dig'[q] = dig[q] /\ owned'[q] = owned[q]
             /\ loaded'[q] = loaded[q] /\ res'[q] = res[q] /\ ino'[q] = ino[q]
  BY DEF IInv, TypeOK
<1>3. HolderInv(p)'
  <2>1. CASE pc'[p] = "release" /\ res'[p] = "error"
    BY <2>1 DEF HolderInv, LockedPCs
  <2>2. CASE pc'[p] = "verifyChild" /\ Ready(p)' /\ owned'[p] = 0 /\ res'[p] # "ok"
    BY <2>2 DEF HolderInv, LockedPCs
  <2>3. pc[p] = "verifyExisting" /\ owned[p] = 0 /\ res[p] # "ok"
    BY DEF IInv, HolderInv, LockedPCs
  <2>4. pc'[p] = "verifyChild" => Ready(p)'
    BY DEF IInv, TypeOK, Ready, Absent
  <2> QED
    BY <2>1, <2>2, <2>3, <2>4 DEF IInv, TypeOK
<1>4. pc'[p] = "release" => res'[p] # "ok"
  BY DEF IInv, TypeOK, HolderInv, LockedPCs
<1> QED
  BY <1>1, <1>2, <1>3, <1>4, QuietStep

\* VerifyPlaced keeps the invariant.
LEMMA VerifyPlacedInv ==
    ASSUME IInv, TypeOK', NEW p \in Proc, VerifyPlaced(p)
    PROVE  IInv'
<1> USE DEF VerifyPlaced
<1>1. LockExclusive'
  BY ConstantsAssumption DEF IInv, TypeOK, LockExclusive, LockedPCs
<1>2. /\ UNCHANGED <<files, manifest, tampered, lateFail>>
      /\ \A q \in Proc \ {p} :
             /\ pc'[q] = pc[q] /\ dig'[q] = dig[q] /\ owned'[q] = owned[q]
             /\ loaded'[q] = loaded[q] /\ res'[q] = res[q] /\ ino'[q] = ino[q]
  BY DEF IInv, TypeOK
<1>3. HolderInv(p)'
  BY DEF IInv, TypeOK, HolderInv, LockedPCs, Ready, Absent, Unreferenced
<1>4. pc'[p] = "release" => res'[p] # "ok"
  BY DEF IInv, TypeOK, HolderInv, LockedPCs
<1> QED
  BY <1>1, <1>2, <1>3, <1>4, QuietStep

\* VerifyChild keeps the invariant.
LEMMA VerifyChildInv ==
    ASSUME IInv, TypeOK', NEW p \in Proc, VerifyChild(p)
    PROVE  IInv'
<1> USE DEF VerifyChild, AfterFailure
<1>1. LockExclusive'
  BY ConstantsAssumption DEF IInv, TypeOK, LockExclusive, LockedPCs
<1>2. /\ UNCHANGED <<files, manifest, tampered, lateFail>>
      /\ \A q \in Proc \ {p} :
             /\ pc'[q] = pc[q] /\ dig'[q] = dig[q] /\ owned'[q] = owned[q]
             /\ loaded'[q] = loaded[q] /\ res'[q] = res[q] /\ ino'[q] = ino[q]
  BY DEF IInv, TypeOK
<1>3. HolderInv(p)'
  BY DEF IInv, TypeOK, HolderInv, LockedPCs, Ready, Absent, Unreferenced
<1>4. pc'[p] = "release" => res'[p] # "ok"
  BY DEF IInv, TypeOK, HolderInv, LockedPCs
<1> QED
  BY <1>1, <1>2, <1>3, <1>4, QuietStep

\* LoadManifest keeps the invariant.
LEMMA LoadManifestInv ==
    ASSUME IInv, TypeOK', NEW p \in Proc, LoadManifest(p)
    PROVE  IInv'
<1> USE DEF LoadManifest, AfterFailure
<1>1. LockExclusive'
  BY ConstantsAssumption DEF IInv, TypeOK, LockExclusive, LockedPCs
<1>2. /\ UNCHANGED <<files, manifest, tampered, lateFail>>
      /\ \A q \in Proc \ {p} :
             /\ pc'[q] = pc[q] /\ dig'[q] = dig[q] /\ owned'[q] = owned[q]
             /\ loaded'[q] = loaded[q] /\ res'[q] = res[q] /\ ino'[q] = ino[q]
  BY DEF IInv, TypeOK
<1>3. HolderInv(p)'
  BY DEF IInv, TypeOK, HolderInv, LockedPCs, Ready, Absent, Unreferenced
<1>4. pc'[p] = "release" => res'[p] # "ok"
  BY DEF IInv, TypeOK, HolderInv, LockedPCs
<1> QED
  BY <1>1, <1>2, <1>3, <1>4, QuietStep

\* FailWrite keeps the invariant.
LEMMA FailWriteInv ==
    ASSUME IInv, TypeOK', NEW p \in Proc, FailWrite(p)
    PROVE  IInv'
<1> USE DEF FailWrite, AfterFailure
<1>1. LockExclusive'
  BY ConstantsAssumption DEF IInv, TypeOK, LockExclusive, LockedPCs
<1>2. /\ UNCHANGED <<files, manifest, tampered, lateFail>>
      /\ \A q \in Proc \ {p} :
             /\ pc'[q] = pc[q] /\ dig'[q] = dig[q] /\ owned'[q] = owned[q]
             /\ loaded'[q] = loaded[q] /\ res'[q] = res[q] /\ ino'[q] = ino[q]
  BY DEF IInv, TypeOK
<1>3. HolderInv(p)'
  BY DEF IInv, TypeOK, HolderInv, LockedPCs, Ready, Absent, Unreferenced
<1>4. pc'[p] = "release" => res'[p] # "ok"
  BY DEF IInv, TypeOK, HolderInv, LockedPCs
<1> QED
  BY <1>1, <1>2, <1>3, <1>4, QuietStep

\* RollbackCheck keeps the invariant.
LEMMA RollbackCheckInv ==
    ASSUME IInv, TypeOK', NEW p \in Proc, RollbackCheck(p)
    PROVE  IInv'
<1> USE DEF RollbackCheck
<1>1. LockExclusive'
  BY ConstantsAssumption DEF IInv, TypeOK, LockExclusive, LockedPCs
<1>2. /\ UNCHANGED <<files, manifest, tampered, lateFail>>
      /\ \A q \in Proc \ {p} :
             /\ pc'[q] = pc[q] /\ dig'[q] = dig[q] /\ owned'[q] = owned[q]
             /\ loaded'[q] = loaded[q] /\ res'[q] = res[q] /\ ino'[q] = ino[q]
  BY DEF IInv, TypeOK
<1>3. HolderInv(p)'
  BY DEF IInv, TypeOK, HolderInv, LockedPCs, Ready, Absent, Unreferenced
<1>4. pc'[p] = "release" => res'[p] # "ok"
  BY DEF IInv, TypeOK, HolderInv, LockedPCs
<1> QED
  BY <1>1, <1>2, <1>3, <1>4, QuietStep

\* ReleaseLock keeps the invariant.
LEMMA ReleaseLockInv ==
    ASSUME IInv, TypeOK', NEW p \in Proc, ReleaseLock(p)
    PROVE  IInv'
<1> USE DEF ReleaseLock
<1>1. LockExclusive'
  BY ConstantsAssumption DEF IInv, TypeOK, LockExclusive, LockedPCs
<1>2. /\ UNCHANGED <<files, manifest, tampered, lateFail>>
      /\ \A q \in Proc \ {p} :
             /\ pc'[q] = pc[q] /\ dig'[q] = dig[q] /\ owned'[q] = owned[q]
             /\ loaded'[q] = loaded[q] /\ res'[q] = res[q] /\ ino'[q] = ino[q]
  BY DEF IInv, TypeOK
<1>3. HolderInv(p)'
  BY DEF IInv, TypeOK, HolderInv, LockedPCs, Ready, Absent, Unreferenced
<1>4. pc'[p] = "release" => res'[p] # "ok"
  BY DEF IInv, TypeOK, HolderInv, LockedPCs
<1> QED
  BY <1>1, <1>2, <1>3, <1>4, QuietStep

\* CleanupTemp keeps the invariant.
LEMMA CleanupTempInv ==
    ASSUME IInv, TypeOK', NEW p \in Proc, CleanupTemp(p)
    PROVE  IInv'
<1> USE DEF CleanupTemp
<1>1. LockExclusive'
  BY ConstantsAssumption DEF IInv, TypeOK, LockExclusive, LockedPCs
<1>2. /\ UNCHANGED <<files, manifest, tampered, lateFail>>
      /\ \A q \in Proc \ {p} :
             /\ pc'[q] = pc[q] /\ dig'[q] = dig[q] /\ owned'[q] = owned[q]
             /\ loaded'[q] = loaded[q] /\ res'[q] = res[q] /\ ino'[q] = ino[q]
  BY DEF IInv, TypeOK
<1>3. HolderInv(p)'
  BY DEF IInv, TypeOK, HolderInv, LockedPCs, Ready, Absent, Unreferenced
<1>4. pc'[p] = "release" => res'[p] # "ok"
  BY DEF IInv, TypeOK, HolderInv, LockedPCs
<1> QED
  BY <1>1, <1>2, <1>3, <1>4, QuietStep

\* Crash keeps the invariant.
LEMMA CrashInv ==
    ASSUME IInv, TypeOK', NEW p \in Proc, Crash(p)
    PROVE  IInv'
<1> USE DEF Crash
<1>1. LockExclusive'
  BY ConstantsAssumption DEF IInv, TypeOK, LockExclusive, LockedPCs
<1>2. /\ UNCHANGED <<files, manifest, tampered, lateFail>>
      /\ \A q \in Proc \ {p} :
             /\ pc'[q] = pc[q] /\ dig'[q] = dig[q] /\ owned'[q] = owned[q]
             /\ loaded'[q] = loaded[q] /\ res'[q] = res[q] /\ ino'[q] = ino[q]
  BY DEF IInv, TypeOK
<1>3. HolderInv(p)'
  BY DEF IInv, TypeOK, HolderInv, LockedPCs, Ready, Absent, Unreferenced
<1>4. pc'[p] = "release" => res'[p] # "ok"
  BY DEF IInv, TypeOK, HolderInv, LockedPCs
<1> QED
  BY <1>1, <1>2, <1>3, <1>4, QuietStep

\* FinishDownload keeps the invariant.
LEMMA FinishDownloadInv ==
    ASSUME IInv, TypeOK', NEW p \in Proc, NEW d \in Digest, FinishDownload(p, d)
    PROVE  IInv'
<1> USE DEF FinishDownload
<1>1. LockExclusive'
  BY ConstantsAssumption DEF IInv, TypeOK, LockExclusive, LockedPCs
<1>2. /\ UNCHANGED <<files, manifest, tampered, lateFail>>
      /\ \A q \in Proc \ {p} :
             /\ pc'[q] = pc[q] /\ dig'[q] = dig[q] /\ owned'[q] = owned[q]
             /\ loaded'[q] = loaded[q] /\ res'[q] = res[q] /\ ino'[q] = ino[q]
  BY DEF IInv, TypeOK
<1>3. HolderInv(p)'
  BY DEF IInv, TypeOK, HolderInv, LockedPCs, Ready, Absent, Unreferenced
<1>4. pc'[p] = "release" => res'[p] # "ok"
  BY DEF IInv, TypeOK, HolderInv, LockedPCs
<1> QED
  BY <1>1, <1>2, <1>3, <1>4, QuietStep

\* LinkSnapshot keeps the invariant: a name that was absent backs no trusted
\* entry, so the new file is p's to remove.
LEMMA LinkSnapshotInv ==
    ASSUME IInv, TypeOK', NEW p \in Proc, LinkSnapshot(p)
    PROVE  IInv'
<1> DEFINE n == Name(dig[p])
<1>1. LockExclusive'
  BY ConstantsAssumption DEF IInv, TypeOK, LockExclusive, LockedPCs, LinkSnapshot
<1>2. CASE ~Absent(n)
  <2>1. HolderInv(p)'
    BY <1>2 DEF IInv, TypeOK, HolderInv, LockedPCs, LinkSnapshot
  <2>2. /\ UNCHANGED <<files, manifest, tampered, lateFail>>
        /\ \A q \in Proc \ {p} :
               /\ pc'[q] = pc[q] /\ dig'[q] = dig[q] /\ owned'[q] = owned[q]
               /\ loaded'[q] = loaded[q] /\ res'[q] = res[q] /\ ino'[q] = ino[q]
        /\ pc'[p] = "verifyExisting"
    BY <1>2 DEF IInv, TypeOK, LinkSnapshot
  <2> QED
    BY <1>1, <2>1, <2>2, QuietStep
<1>3. CASE Absent(n)
  <2>1. /\ n \in Names
        /\ files' = [files EXCEPT ![n] = [ino |-> ino[p], content |-> dig[p]]]
        /\ pc' = [pc EXCEPT ![p] = "verifyPlaced"] /\ pc[p] = "place"
        /\ UNCHANGED <<manifest, tampered, lateFail, dig, ino, loaded, res>>
        /\ owned' = [owned EXCEPT ![p] = ino[p]]
    BY <1>3, NameType DEF IInv, TypeOK, LinkSnapshot
  <2>2. Unreferenced(p)
    BY <1>3 DEF IInv, ManifestBacked, Unreferenced
  <2>3. Ready(p)'
    BY <2>1 DEF IInv, TypeOK, Ready, Absent, HolderInv
  <2>4. ManifestBacked'
    <3> SUFFICES ASSUME NEW d \in manifest.snaps
                 PROVE  \/ ~Absent(Name(d))' /\ files'[Name(d)].content = d
                        \/ Name(d) \in tampered
                        \/ d \in lateFail
      BY <2>1 DEF ManifestBacked
    <3>1. Name(d) \in Names
      BY NameType DEF IInv, TypeOK, Manifests
    <3>2. CASE Name(d) = n
      BY <3>2, <2>2 DEF Unreferenced
    <3>3. CASE Name(d) # n
      BY <3>1, <3>3, <2>1 DEF IInv, TypeOK, ManifestBacked, Absent
    <3> QED
      BY <3>2, <3>3
  <2>5. SuccessIsLatest'
    BY <2>1 DEF IInv, TypeOK, SuccessIsLatest
  <2>6. HolderInv(p)'
    BY <2>1, <2>2, <2>3 DEF IInv, TypeOK, HolderInv, LockedPCs, Unreferenced
  <2>7. ASSUME NEW q \in Proc, q # p PROVE HolderInv(q)'
    <3>1. pc[q] \notin LockedPCs
      BY <2>1, <2>7, OneHolder DEF IInv, LockedPCs
    <3> QED
      BY <2>1, <2>7, <3>1 DEF IInv, TypeOK, HolderInv, LockedPCs
  <2> QED
    BY <1>1, <2>4, <2>5, <2>6, <2>7 DEF IInv
<1> QED
  BY <1>2, <1>3

\* WriteManifest keeps the invariant: the entry it adds is ready, and the ones
\* it keeps come from the current manifest.
LEMMA WriteManifestInv ==
    ASSUME IInv, TypeOK', NEW p \in Proc, WriteManifest(p)
    PROVE  IInv'
<1> DEFINE merged == MergeManifest(loaded[p], dig[p])
<1>1. LockExclusive'
  BY ConstantsAssumption
     DEF IInv, TypeOK, LockExclusive, LockedPCs, WriteManifest, AfterFailure
<1>2. CASE Cardinality(merged.snaps) > MaxEntries
  <2>1. /\ UNCHANGED <<files, manifest, tampered, lateFail>>
        /\ \A q \in Proc \ {p} :
               /\ pc'[q] = pc[q] /\ dig'[q] = dig[q] /\ owned'[q] = owned[q]
               /\ loaded'[q] = loaded[q] /\ res'[q] = res[q] /\ ino'[q] = ino[q]
        /\ res'[p] # "ok"
    BY <1>2 DEF IInv, TypeOK, WriteManifest
  <2>2. HolderInv(p)'
    BY <1>2 DEF IInv, TypeOK, HolderInv, LockedPCs, WriteManifest,
                AfterFailure, Unreferenced
  <2> QED
    BY <1>1, <2>1, <2>2, QuietStep
<1>3. CASE ~(Cardinality(merged.snaps) > MaxEntries)
  <2>1. /\ manifest' = merged
        /\ pc' = [pc EXCEPT ![p] = "verifyManifest"] /\ pc[p] = "write"
        /\ UNCHANGED <<files, tampered, lateFail, dig, ino, owned, loaded, res>>
    BY <1>3 DEF IInv, TypeOK, WriteManifest
  <2>2. loaded[p] = manifest /\ Ready(p) /\ res[p] # "ok"
    BY <2>1 DEF IInv, HolderInv, LockedPCs
  <2>3. /\ manifest'.latest = IdOf[dig[p]]
        /\ manifest'.snaps = {dig[p]} \cup {e \in manifest.snaps : IdOf[e] # IdOf[dig[p]]}
    BY <2>1, <2>2 DEF MergeManifest
  <2>4. ManifestBacked'
    BY <2>1, <2>2, <2>3 DEF IInv, ManifestBacked, Ready, Absent
  <2>5. SuccessIsLatest'
    <3> SUFFICES ASSUME NEW q \in Proc, pc'[q] = "release" PROVE FALSE
      BY DEF SuccessIsLatest
    <3>1. q # p /\ pc[q] = "release"
      BY <2>1 DEF IInv, TypeOK
    <3> QED
      BY <3>1, <2>1, OneHolder DEF IInv, LockedPCs
  <2>6. HolderInv(p)'
    <3>1. \A e \in manifest'.snaps : Name(e) = Name(dig[p]) => e = dig[p]
      BY <2>3 DEF Name
    <3>2. Ready(p)'
      BY <2>1, <2>2 DEF Ready, Absent
    <3> QED
      BY <2>1, <2>2, <2>3, <3>1, <3>2 DEF IInv, TypeOK, HolderInv, LockedPCs
  <2>7. ASSUME NEW q \in Proc, q # p PROVE HolderInv(q)'
    <3>1. pc[q] \notin LockedPCs
      BY <2>1, <2>7, OneHolder DEF IInv, LockedPCs
    <3> QED
      BY <2>1, <2>7, <3>1 DEF IInv, TypeOK, HolderInv, LockedPCs
  <2> QED
    BY <1>1, <2>4, <2>5, <2>6, <2>7 DEF IInv
<1> QED
  BY <1>2, <1>3

\* VerifyManifest keeps the invariant: a failure reported after the rename is
\* the one case in which p may roll back a snapshot the manifest mentions.
LEMMA VerifyManifestInv ==
    ASSUME IInv, TypeOK', NEW p \in Proc, VerifyManifest(p)
    PROVE  IInv'
<1>1. LockExclusive'
  BY ConstantsAssumption
     DEF IInv, TypeOK, LockExclusive, LockedPCs, VerifyManifest, AfterFailure
<1>2. /\ UNCHANGED <<files, manifest, tampered, dig, ino, owned, loaded>>
      /\ lateFail \subseteq lateFail' /\ pc[p] = "verifyManifest"
      /\ \A q \in Proc \ {p} : pc'[q] = pc[q] /\ res'[q] = res[q]
  BY DEF IInv, TypeOK, VerifyManifest
<1>3. /\ dig[p] \in manifest.snaps
      /\ manifest.latest = IdOf[dig[p]]
      /\ \A e \in manifest.snaps : Name(e) = Name(dig[p]) => e = dig[p]
      /\ res[p] # "ok"
  BY <1>2 DEF IInv, HolderInv, LockedPCs
<1>4. \/ pc'[p] = "release"
      \/ pc'[p] = "rollback" /\ res'[p] = "error" /\ dig[p] \in lateFail'
  BY DEF IInv, TypeOK, VerifyManifest, AfterFailure
<1>5. ManifestBacked'
  BY <1>2 DEF IInv, ManifestBacked, Absent
<1>6. ASSUME NEW q \in Proc, q # p PROVE pc[q] \notin LockedPCs
  BY <1>2, <1>6, OneHolder DEF IInv, LockedPCs
<1>7. SuccessIsLatest'
  BY <1>2, <1>3, <1>6 DEF SuccessIsLatest, LockedPCs
<1>8. HolderInv(p)'
  BY <1>2, <1>3, <1>4 DEF HolderInv, LockedPCs, Unreferenced
<1>9. ASSUME NEW q \in Proc, q # p PROVE HolderInv(q)'
  BY <1>2, <1>6, <1>9 DEF IInv, HolderInv, LockedPCs
<1> QED
  BY <1>1, <1>5, <1>7, <1>8, <1>9 DEF IInv

\* RollbackRemove keeps the invariant: the name it removes backs no trusted
\* entry.
LEMMA RollbackRemoveInv ==
    ASSUME IInv, TypeOK', NEW p \in Proc, RollbackRemove(p)
    PROVE  IInv'
<1> DEFINE n == Name(dig[p])
<1>1. LockExclusive'
  BY ConstantsAssumption DEF IInv, TypeOK, LockExclusive, LockedPCs, RollbackRemove
<1>2. /\ files' = [files EXCEPT ![n] = NoFile] \/ files' = files
      /\ pc' = [pc EXCEPT ![p] = "release"] /\ pc[p] = "remove"
      /\ UNCHANGED <<manifest, tampered, lateFail, dig, ino, owned, loaded, res>>
  BY DEF RollbackRemove
<1>3. Unreferenced(p) /\ res[p] # "ok"
  BY <1>2 DEF IInv, HolderInv, LockedPCs
<1>4. ManifestBacked'
  <2> SUFFICES ASSUME NEW d \in manifest.snaps
               PROVE  \/ ~Absent(Name(d))' /\ files'[Name(d)].content = d
                      \/ Name(d) \in tampered
                      \/ d \in lateFail
    BY <1>2 DEF ManifestBacked
  <2>1. CASE Name(d) = n
    BY <2>1, <1>3 DEF Unreferenced
  <2>2. CASE Name(d) # n
    <3>1. files'[Name(d)] = files[Name(d)]
      BY <2>2, <1>2, NameType DEF IInv, TypeOK, Manifests
    <3> QED
      BY <3>1 DEF IInv, ManifestBacked, Absent
  <2> QED
    BY <2>1, <2>2
<1>5. ASSUME NEW q \in Proc, q # p PROVE pc[q] \notin LockedPCs
  BY <1>2, <1>5, OneHolder DEF IInv, LockedPCs
<1>6. SuccessIsLatest'
  BY <1>2, <1>3, <1>5 DEF IInv, TypeOK, SuccessIsLatest, LockedPCs
<1>7. HolderInv(p)'
  BY <1>2, <1>3 DEF IInv, TypeOK, HolderInv, LockedPCs
<1>8. ASSUME NEW q \in Proc, q # p PROVE HolderInv(q)'
  BY <1>2, <1>5, <1>8 DEF IInv, TypeOK, HolderInv, LockedPCs
<1> QED
  BY <1>1, <1>4, <1>6, <1>7, <1>8 DEF IInv

\* A writer that ignores the lock costs the names it touches their trust and
\* nothing else.
LEMMA ForeignInv ==
    ASSUME IInv, TypeOK', Foreign
    PROVE  IInv'
<1>1. PICK n \in Names :
          /\ \E f : files' = [files EXCEPT ![n] = f]
          /\ tampered' = tampered \cup {n}
          /\ UNCHANGED <<lock, manifest, pc, dig, ino, owned, loaded, res, lateFail>>
  BY DEF Foreign, ForeignRemove, ForeignWrite
<1>2. \A m : m \notin tampered' => Absent(m)' = Absent(m) /\ files'[m] = files[m]
  BY <1>1 DEF IInv, TypeOK, Absent
<1>3. ManifestBacked'
  BY <1>1, <1>2 DEF IInv, ManifestBacked
<1>4. ASSUME NEW q \in Proc PROVE HolderInv(q)'
  <2>1. HolderInv(q)
    BY DEF IInv
  <2>2. Ready(q) => Ready(q)'
    BY <1>1, <1>2 DEF Ready
  <2>3. Unreferenced(q) => Unreferenced(q)'
    BY <1>1 DEF Unreferenced
  <2> QED
    BY <1>1, <2>1, <2>2, <2>3 DEF HolderInv
<1> QED
  BY <1>1, <1>3, <1>4 DEF IInv, LockExclusive, SuccessIsLatest

\* The invariant is inductive.
LEMMA NextIInv == IInv /\ [Next]_vars => IInv'
<1> SUFFICES ASSUME IInv, [Next]_vars PROVE IInv'
  OBVIOUS
<1>1. TypeOK'
  BY NextType DEF IInv
<1>2. CASE UNCHANGED vars
  BY <1>2 DEF vars, IInv, TypeOK, LockExclusive, ManifestBacked,
              SuccessIsLatest, HolderInv, Ready, Unreferenced, Absent
<1>3. CASE Foreign
  BY <1>1, <1>3, ForeignInv
<1>4. ASSUME NEW p \in Proc, Step(p) \/ Crash(p) PROVE IInv'
  BY <1>1, <1>4, BeginDownloadInv, FailDownloadInv, TryAcquireInv, RetryLockInv,
     CancelLockInv, VerifyIdentityInv, CheckAbsentInv, LinkSnapshotInv,
     FailLinkInv, VerifyExistingInv, VerifyPlacedInv, VerifyChildInv,
     LoadManifestInv, WriteManifestInv, FailWriteInv, VerifyManifestInv,
     RollbackCheckInv, RollbackRemoveInv, ReleaseLockInv, CleanupTempInv,
     CrashInv, FinishDownloadInv
     DEF Step, Publish
<1> QED
  BY <1>2, <1>3, <1>4 DEF Next

\* The inductive invariant holds throughout.
THEOREM Invariance == Spec => []IInv
BY InitIInv, NextIInv, PTL DEF Spec

\* The publication lock of acquireAdvisoryPublicationLock excludes.
THEOREM MutualExclusion == Spec => []LockExclusive
<1>1. IInv => LockExclusive
  BY DEF IInv
<1> QED
  BY <1>1, Invariance, PTL

\* Every manifest entry is backed by its snapshot, whatever the interleaving of
\* publications, rollbacks and crashes.
THEOREM ManifestIsBacked == Spec => []ManifestBacked
<1>1. IInv => ManifestBacked
  BY DEF IInv
<1> QED
  BY <1>1, Invariance, PTL

\* A successful SyncOSV returns while its snapshot is the latest one.
THEOREM SuccessPublished == Spec => []SuccessIsLatest
<1>1. IInv => SuccessIsLatest
  BY DEF IInv
<1> QED
  BY <1>1, Invariance, PTL

-----------------------------------------------------------------------------
(* The cache as one atomic object. *)

LEMMA InitRefines == Init => C!Init
BY DEF Init, C!Init, NoManifest, Stages, Stage

\* A step of p that changes its stage and nothing that others see.
LEMMA StageMoves ==
    ASSUME NEW p \in Proc, \A q \in Proc \ {p} : pc'[q] = pc[q] /\ res'[q] = res[q],
           NEW s, Stage(p)' = s
    PROVE  Stages' = [Stages EXCEPT ![p] = s]
<1>1. ASSUME NEW q \in Proc PROVE Stage(q)' = IF q = p THEN s ELSE Stage(q)
  BY DEF Stage
<1>. QED BY <1>1 DEF Stages

LEMMA StepRefines ==
    ASSUME IInv, NEW p \in Proc, Step(p) \/ Crash(p)
    PROVE  [C!Next]_<<manifest.latest, manifest.snaps, Stages>>
<1>. DEFINE seen == <<manifest.latest, manifest.snaps, Stages>>
            s == Stage(p)'
<1>0. TypeOK /\ HolderInv(p)
  BY DEF IInv
<1>1. \A q \in Proc \ {p} : pc'[q] = pc[q] /\ res'[q] = res[q]
  BY <1>0 DEF TypeOK, Step, Crash, Publish, BeginDownload, FailDownload, FinishDownload,
     TryAcquire, RetryLock, CancelLock, VerifyIdentity, CheckAbsent, LinkSnapshot, FailLink,
     VerifyExisting, VerifyPlaced, VerifyChild, LoadManifest, WriteManifest, FailWrite,
     VerifyManifest, RollbackCheck, RollbackRemove, ReleaseLock, CleanupTemp, Goto, procVars
<1>2. Stages' = [Stages EXCEPT ![p] = s] /\ Stages[p] = Stage(p)
  BY <1>1, StageMoves DEF Stages
<1>. DEFINE Stutters == manifest' = manifest /\ s = Stage(p)
            Begins   == manifest' = manifest /\ Stage(p) \in C!Ended /\ s = "open"
            Fails    == manifest' = manifest /\ Stage(p) \in {"open", "recorded"} /\ s = "failed"
            Returns  == /\ manifest' = manifest /\ Stage(p) \in {"open", "recorded", "failed"}
                        /\ s \in C!Ended /\ (s = "ok" => Stage(p) = "recorded")
            Records  == /\ manifest' = MergeManifest(manifest, dig[p])
                        /\ Stage(p) = "open" /\ s = "recorded"
<1>3. CASE Begins \/ Fails \/ Stutters
  <2>. HIDE DEF s
  <2>1. CASE Begins
    <3>1. C!Begin(p)
      BY <1>2, <2>1 DEF C!Begin, C!Move
    <3>. QED BY <3>1 DEF C!Next
  <2>2. CASE Fails
    <3>1. C!Fail(p)
      BY <1>2, <2>2 DEF C!Fail, C!Move
    <3>. QED BY <3>1 DEF C!Next
  <2>3. CASE Stutters
    BY <1>2, <2>3 DEF Stages
  <2>. QED BY <1>3, <2>1, <2>2, <2>3
<1>4. CASE Returns
  <2>. HIDE DEF s
  <2>1. C!Return(p, s) /\ s \in C!Ended
    BY <1>2, <1>4 DEF C!Return, C!Move
  <2>. QED BY <2>1 DEF C!Next
<1>5. CASE Records
  <2>. HIDE DEF s
  <2>1. C!Record(p, dig[p])
    BY <1>2, <1>5 DEF C!Record, C!Move, MergeManifest
  <2>. QED BY <1>0, <2>1 DEF C!Next, TypeOK
<1>6. Stutters \/ Begins \/ Fails \/ Returns \/ Records
  <2>. USE <1>0 DEF TypeOK, HolderInv, Stage, Goto, C!Ended, procVars, diskVars
  <2>1. CASE BeginDownload(p) BY <2>1 DEF BeginDownload
  <2>2. CASE \E d \in Digest : FinishDownload(p, d) BY <2>2 DEF FinishDownload
  <2>3. CASE FailDownload(p) BY <2>3 DEF FailDownload
  <2>4. CASE TryAcquire(p) BY <2>4 DEF TryAcquire
  <2>5. CASE RetryLock(p) \/ CancelLock(p) BY <2>5 DEF RetryLock, CancelLock
  <2>6. CASE VerifyIdentity(p) BY <2>6 DEF VerifyIdentity
  <2>7. CASE CheckAbsent(p) BY <2>7 DEF CheckAbsent
  <2>8. CASE LinkSnapshot(p) \/ FailLink(p) BY <2>8 DEF LinkSnapshot, FailLink
  <2>9. CASE VerifyExisting(p) BY <2>9 DEF VerifyExisting
  <2>10. CASE VerifyPlaced(p) BY <2>10 DEF VerifyPlaced
  <2>11. CASE VerifyChild(p) BY <2>11 DEF VerifyChild, AfterFailure
  <2>12. CASE LoadManifest(p) BY <2>12 DEF LoadManifest, AfterFailure
  <2>13. CASE WriteManifest(p) BY <2>13 DEF WriteManifest, AfterFailure
  <2>14. CASE FailWrite(p) BY <2>14 DEF FailWrite, AfterFailure
  <2>15. CASE VerifyManifest(p) BY <2>15 DEF VerifyManifest, AfterFailure
  <2>16. CASE RollbackCheck(p) BY <2>16 DEF RollbackCheck, LockedPCs
  <2>17. CASE RollbackRemove(p) BY <2>17 DEF RollbackRemove, LockedPCs
  <2>18. CASE ReleaseLock(p) BY <2>18 DEF ReleaseLock
  <2>19. CASE CleanupTemp(p) BY <2>19 DEF CleanupTemp
  <2>20. CASE Crash(p) BY <2>20 DEF Crash, PCs, LockedPCs
  <2>. QED
    BY <2>1, <2>2, <2>3, <2>4, <2>5, <2>6, <2>7, <2>8, <2>9, <2>10, <2>11, <2>12, <2>13,
       <2>14, <2>15, <2>16, <2>17, <2>18, <2>19, <2>20 DEF Step, Publish
<1>. QED BY <1>3, <1>4, <1>5, <1>6

\* SyncOSV is atomic for those who share the cache: whatever the interleaving,
\* the failures and the deaths, each call that succeeds has taken effect once
\* between its start and its return, and no call undoes the effect of another.
THEOREM Refinement == Spec => Implements
<1>1. IInv /\ [Next]_vars => [C!Next]_<<manifest.latest, manifest.snaps, Stages>>
  <2> SUFFICES ASSUME IInv, [Next]_vars
               PROVE  [C!Next]_<<manifest.latest, manifest.snaps, Stages>>
    OBVIOUS
  <2>1. ASSUME NEW p \in Proc, Step(p) \/ Crash(p)
        PROVE  [C!Next]_<<manifest.latest, manifest.snaps, Stages>>
    BY <2>1, StepRefines
  <2>2. CASE Foreign \/ UNCHANGED vars
    BY <2>2 DEF Foreign, ForeignWrite, ForeignRemove, vars, procVars, Stages, Stage
  <2>. QED BY <2>1, <2>2 DEF Next
<1>. QED BY <1>1, InitRefines, Invariance, PTL DEF Spec, Implements, C!Spec

\* No recorded identifier is ever dropped: none is in the atomic cache.
THEOREM NoLostEntry == Spec => EntriesKept
<1> DEFINE Kept == \A d \in manifest.snaps : \E e \in manifest'.snaps : IdOf[e] = IdOf[d]
<1>1. [C!Next]_<<manifest.latest, manifest.snaps, Stages>> => [Kept]_manifest
  BY DEF C!Next, C!Begin, C!Record, C!Fail, C!Return
<1>. QED BY <1>1, Refinement, PTL DEF Implements, C!Spec, EntriesKept

-----------------------------------------------------------------------------
(* Leftovers.  Every snapshot that no call works on and no entry names, and *)
(* every temporary file of no running call, is charged to one fault.        *)

\* Two contents of one identifier are kept under the same name.  A ZIP and a JSON
\* payload whose digests agree in the first 24 digits have two: the entry of the
\* first is replaced and its snapshot stays.
SameExtension == \A d, e \in Digest : IdOf[d] = IdOf[e] => ExtOf[d] = ExtOf[e]

\* The calls between the link and the end of the rollback, of a process that
\* owns its snapshot.
Working == {"verifyPlaced", "verifyChild", "load", "write", "verifyManifest",
            "rollback", "remove"}
InWork(p) == pc[p] \in Working /\ owned[p] # 0

Stray == Orphans \ {Name(dig[p]) : p \in {q \in Proc : InWork(q)}}
Busy  == {p \in Proc : pc[p] # "idle"}
Lost  == temps \ {ino[p] : p \in Busy}

\* The owner can tell its snapshot from another file of the name.
Mine(p) ==
    InWork(p) /\ Name(dig[p]) \notin tampered => files[Name(dig[p])].ino = owned[p]

AtMost(S, n) == IsFiniteSet(S) /\ Cardinality(S) <= n

CountInv ==
    /\ AtMost(Stray, faults) /\ AtMost(Lost, faults) /\ IsFiniteSet(Busy)
    /\ \A p \in Proc : Mine(p)

\* A part of what is paid for is paid for, and a fault pays for one more element.
LEMMA Fewer ==
    ASSUME NEW S, NEW n \in Nat, AtMost(S, n), NEW T, T \subseteq S
    PROVE  AtMost(T, n)
<1>1. IsFiniteSet(T) /\ Cardinality(T) <= Cardinality(S) /\ IsFiniteSet(S)
  BY FS_Subset DEF AtMost
<1>2. Cardinality(T) \in Nat /\ Cardinality(S) \in Nat
  BY <1>1, FS_CardinalityType
<1> QED
  BY <1>1, <1>2 DEF AtMost

LEMMA OneMore ==
    ASSUME NEW S, NEW n \in Nat, AtMost(S, n), NEW x
    PROVE  AtMost(S \cup {x}, n + 1)
<1>1. IsFiniteSet(S) /\ Cardinality(S) \in Nat /\ Cardinality(S) <= n
  BY FS_CardinalityType DEF AtMost
<1>2. IsFiniteSet(S \cup {x}) /\ Cardinality(S \cup {x}) <= Cardinality(S) + 1
  BY <1>1, FS_AddElement
<1>3. Cardinality(S \cup {x}) \in Nat
  BY <1>2, FS_CardinalityType
<1> QED
  BY <1>1, <1>2, <1>3 DEF AtMost

LEMMA Allowance ==
    ASSUME NEW S, NEW n \in Nat, AtMost(S, n)
    PROVE  AtMost(S, n + 1)
<1>1. IsFiniteSet(S) /\ Cardinality(S) \in Nat /\ Cardinality(S) <= n
  BY FS_CardinalityType DEF AtMost
<1> QED
  BY <1>1 DEF AtMost

\* What a step of p leaves alone: the other processes.
Others(p) ==
    \A q \in Proc \ {p} :
        pc'[q] = pc[q] /\ dig'[q] = dig[q] /\ owned'[q] = owned[q] /\ ino'[q] = ino[q]

\* A step of p on its own control: it neither takes a snapshot over nor gives one
\* up, except by a fault.
Still(p) ==
    /\ UNCHANGED <<files, manifest, tampered>>
    /\ InWork(p)' => InWork(p) /\ dig'[p] = dig[p] /\ owned'[p] = owned[p]
    /\ InWork(p) /\ Name(dig[p]) \in Orphans =>
           (InWork(p)' /\ dig'[p] = dig[p]) \/ faults' = faults + 1

\* A temporary file belongs to its running call, is removed, or costs a fault.
TempStep(p) ==
    \/ /\ temps' \subseteq temps /\ ino'[p] = ino[p]
       /\ pc'[p] # "idle" \/ faults' = faults + 1 \/ ino[p] \notin temps'
    \/ temps' \subseteq temps \cup {ino'[p]} /\ pc[p] = "idle" /\ pc'[p] # "idle"

LEMMA StillCount ==
    ASSUME TypeOK, CountInv, NEW p \in Proc, Others(p), Still(p),
           faults' \in {faults, faults + 1}
    PROVE  AtMost(Stray, faults)' /\ \A q \in Proc : Mine(q)'
<1>1. \A q \in Proc \ {p} : (InWork(q)' <=> InWork(q)) /\ dig'[q] = dig[q]
                             /\ owned'[q] = owned[q]
  BY DEF Others, InWork
<1>2. \A q \in Proc : Mine(q)'
  BY <1>1 DEF CountInv, Mine, Still
<1>3. Orphans' = Orphans
  BY DEF Orphans, Absent, Still
<1>4. Stray' \subseteq Stray \cup {Name(dig[p])}
  BY <1>1, <1>3 DEF Stray, Name
<1>5. faults' = faults => Stray' \subseteq Stray
  <2> SUFFICES ASSUME faults' = faults, NEW n \in Stray' PROVE n \in Stray
    OBVIOUS
  <2>0. faults' # faults + 1
    BY DEF TypeOK
  <2>1. n \in Orphans /\ \A q \in Proc : InWork(q)' => n # Name(dig'[q])
    BY <1>3 DEF Stray, Name
  <2>2. ASSUME NEW q \in Proc, InWork(q), n = Name(dig[q]) PROVE FALSE
    BY <1>1, <2>0, <2>1, <2>2 DEF Still
  <2> QED
    BY <2>1, <2>2 DEF Stray
<1>6. AtMost(Stray, faults) /\ faults \in Nat
  BY DEF CountInv, TypeOK
<1>7. AtMost(Stray \cup {Name(dig[p])}, faults + 1)
  BY <1>6, OneMore
<1>8. AtMost(Stray', faults')
  BY <1>4, <1>5, <1>6, <1>7, Fewer
<1> QED
  BY <1>2, <1>8 DEF AtMost

LEMMA TempCount ==
    ASSUME TypeOK, CountInv, NEW p \in Proc, Others(p), TempStep(p),
           faults' \in {faults, faults + 1}
    PROVE  AtMost(Lost, faults)' /\ IsFiniteSet(Busy)'
<1>1. Busy' \subseteq Busy \cup {p}
  BY DEF Busy, Others
<1>2. IsFiniteSet(Busy')
  BY <1>1, FS_AddElement, FS_Subset DEF CountInv
<1>3. \A q \in Proc \ {p} : q \in Busy => q \in Busy' /\ ino'[q] = ino[q]
  BY DEF Busy, Others
<1>4. Lost' \subseteq Lost \cup {ino[p]}
  <2> SUFFICES ASSUME NEW t \in Lost', t # ino[p] PROVE t \in Lost
    OBVIOUS
  <2>1. t \in temps' /\ \A q \in Busy' : t # ino'[q]
    BY DEF Lost
  <2>2. t \in temps
    BY <2>1 DEF TempStep, Busy
  <2>3. \A q \in Busy : t # ino[q]
    BY <1>3, <2>1 DEF Busy
  <2> QED
    BY <2>2, <2>3 DEF Lost
<1>5. faults' = faults => Lost' \subseteq Lost
  <2> SUFFICES ASSUME faults' = faults, NEW t \in Lost' PROVE t \in Lost
    OBVIOUS
  <2>0. faults' # faults + 1
    BY DEF TypeOK
  <2>1. t \in temps' /\ \A q \in Busy' : t # ino'[q]
    BY DEF Lost
  <2>2. t \in temps
    BY <2>1 DEF TempStep, Busy
  <2>3. p \in Busy => t # ino[p]
    BY <2>0, <2>1 DEF TempStep, Busy
  <2>4. \A q \in Busy : t # ino[q]
    BY <1>3, <2>1, <2>3 DEF Busy
  <2> QED
    BY <2>2, <2>4 DEF Lost
<1>6. AtMost(Lost, faults) /\ faults \in Nat
  BY DEF CountInv, TypeOK
<1>7. AtMost(Lost \cup {ino[p]}, faults + 1)
  BY <1>6, OneMore
<1>8. AtMost(Lost', faults')
  BY <1>4, <1>5, <1>6, <1>7, Fewer
<1> QED
  BY <1>2, <1>8 DEF AtMost

\* Only the lock holder works on a snapshot.
LEMMA AloneAtWork ==
    ASSUME IInv, NEW p \in Proc, pc[p] \in LockedPCs
    PROVE  \A q \in Proc \ {p} : ~InWork(q)
BY DEF IInv, LockExclusive, InWork, Working, LockedPCs

\* The steps of a process, seen from its temporary file and its snapshot.
LEMMA QuietShape ==
    ASSUME IInv, NEW p \in Proc, Mine(p),
           \/ TryAcquire(p) \/ RetryLock(p) \/ CancelLock(p) \/ VerifyIdentity(p)
           \/ CheckAbsent(p) \/ FailLink(p) \/ VerifyExisting(p) \/ VerifyPlaced(p)
           \/ VerifyChild(p) \/ LoadManifest(p) \/ FailWrite(p) \/ VerifyManifest(p)
           \/ RollbackCheck(p) \/ ReleaseLock(p)
    PROVE  Others(p) /\ Still(p) /\ TempStep(p) /\ faults' \in {faults, faults + 1}
<1> DEFINE Shape == Others(p) /\ Still(p) /\ TempStep(p)
                    /\ faults' \in {faults, faults + 1}
<1>0. /\ pc \in [Proc -> PCs] /\ HolderInv(p)
      /\ Name(dig[p]) \in Orphans =>
             Name(dig[p]) \notin tampered /\ dig[p] \notin manifest.snaps
  BY DEF IInv, TypeOK, Orphans
<1> USE DEF Others, Still, TempStep, InWork, Working
<1>1. CASE TryAcquire(p)
  BY <1>0, <1>1 DEF TryAcquire
<1>2. CASE RetryLock(p)
  BY <1>0, <1>2 DEF RetryLock
<1>3. CASE CancelLock(p)
  BY <1>0, <1>3 DEF CancelLock
<1>4. CASE VerifyIdentity(p)
  BY <1>0, <1>4 DEF VerifyIdentity
<1>5. CASE CheckAbsent(p)
  BY <1>0, <1>5 DEF CheckAbsent
<1>6. CASE FailLink(p)
  BY <1>0, <1>6 DEF FailLink
<1>7. CASE VerifyExisting(p)
  BY <1>0, <1>7 DEF VerifyExisting, HolderInv
<1>8. CASE VerifyPlaced(p)
  BY <1>0, <1>8 DEF VerifyPlaced
<1>9. CASE VerifyChild(p)
  BY <1>0, <1>9 DEF VerifyChild, AfterFailure
<1>10. CASE LoadManifest(p)
  BY <1>0, <1>10 DEF LoadManifest, AfterFailure
<1>11. CASE FailWrite(p)
  BY <1>0, <1>11 DEF FailWrite, AfterFailure
<1>12. CASE VerifyManifest(p)
  BY <1>0, <1>12 DEF VerifyManifest, AfterFailure, HolderInv
<1>13. CASE RollbackCheck(p)
  BY <1>0, <1>13 DEF RollbackCheck, Mine
<1>14. CASE ReleaseLock(p)
  BY <1>0, <1>14 DEF ReleaseLock
<1> QED
  BY <1>1, <1>2, <1>3, <1>4, <1>5, <1>6, <1>7, <1>8, <1>9, <1>10, <1>11, <1>12,
     <1>13, <1>14

\* The steps that start and end a call.
LEMMA EndShape ==
    ASSUME IInv, NEW p \in Proc,
           \/ BeginDownload(p) \/ FailDownload(p) \/ CleanupTemp(p) \/ Crash(p)
           \/ \E d \in Digest : FinishDownload(p, d)
    PROVE  Others(p) /\ Still(p) /\ TempStep(p) /\ faults' \in {faults, faults + 1}
<1> DEFINE Shape == Others(p) /\ Still(p) /\ TempStep(p)
                    /\ faults' \in {faults, faults + 1}
<1>0. /\ pc \in [Proc -> PCs] /\ dig \in [Proc -> Digest]
      /\ ino \in [Proc -> Nat] /\ owned \in [Proc -> Nat]
  BY DEF IInv, TypeOK
<1> USE DEF Others, Still, TempStep, InWork, Working
<1>1. CASE BeginDownload(p)
  BY <1>0, <1>1 DEF BeginDownload
<1>2. CASE FailDownload(p)
  BY <1>0, <1>2 DEF FailDownload
<1>3. CASE CleanupTemp(p)
  BY <1>0, <1>3 DEF CleanupTemp
<1>4. CASE Crash(p)
  BY <1>0, <1>4 DEF Crash
<1>5. ASSUME NEW d \in Digest, FinishDownload(p, d) PROVE Shape
  BY <1>0, <1>5 DEF FinishDownload
<1> QED
  BY <1>1, <1>2, <1>3, <1>4, <1>5

\* The link makes the snapshot a matter of its owner.
LEMMA LinkCount ==
    ASSUME IInv, CountInv, NEW p \in Proc, LinkSnapshot(p)
    PROVE  CountInv'
<1> DEFINE n == Name(dig[p])
<1>0. /\ TypeOK /\ pc[p] = "place" /\ ino[p] # 0 /\ owned[p] = 0 /\ n \in Names
      /\ \A q \in Proc \ {p} : ~InWork(q)
  BY AloneAtWork, NameType DEF IInv, TypeOK, LinkSnapshot, HolderInv, LockedPCs
<1>1. /\ Others(p) /\ TempStep(p) /\ faults' = faults
      /\ dig' = dig /\ manifest' = manifest /\ tampered' = tampered
  BY <1>0 DEF LinkSnapshot, Others, TempStep, TypeOK
<1>2. CASE Absent(n)
  <2>1. /\ files' = [files EXCEPT ![n] = [ino |-> ino[p], content |-> dig[p]]]
        /\ owned'[p] = ino[p] /\ pc'[p] = "verifyPlaced"
    BY <1>0, <1>2 DEF LinkSnapshot, TypeOK
  <2>2. InWork(p)' /\ ~InWork(p) /\ \A q \in Proc \ {p} : ~InWork(q)'
    BY <1>0, <1>1, <2>1 DEF InWork, Working, Others
  <2>3. \A q \in Proc : Mine(q)'
    BY <1>0, <1>1, <2>1, <2>2 DEF Mine, TypeOK, Name
  <2>4. Stray' \subseteq Stray
    <3> SUFFICES ASSUME NEW m \in Stray' PROVE m \in Stray
      OBVIOUS
    <3>1. m \in Names /\ m # n
      BY <1>1, <2>2 DEF Stray, Orphans, Name
    <3>2. m \in Orphans
      BY <1>0, <1>1, <2>1, <3>1 DEF Stray, Orphans, Absent, TypeOK
    <3> QED
      BY <1>0, <2>2, <3>2 DEF Stray
  <2>5. AtMost(Stray', faults')
    BY <1>0, <1>1, <2>4, Fewer DEF CountInv, TypeOK
  <2>6. AtMost(Lost, faults)' /\ IsFiniteSet(Busy)'
    BY <1>0, <1>1, TempCount
  <2> QED
    BY <2>3, <2>5, <2>6 DEF CountInv, AtMost
<1>3. CASE ~Absent(n)
  <2>1. Still(p)
    BY <1>0, <1>1, <1>3 DEF LinkSnapshot, Still, InWork, Working, TypeOK
  <2> QED
    BY <1>0, <1>1, <2>1, StillCount, TempCount DEF CountInv
<1> QED
  BY <1>2, <1>3

\* A merge that replaces an entry keeps the name of its snapshot recorded.
LEMMA WriteCount ==
    ASSUME SameExtension, IInv, CountInv, NEW p \in Proc, WriteManifest(p)
    PROVE  CountInv'
<1>0. TypeOK /\ loaded[p] = manifest /\ pc[p] = "write"
  BY DEF IInv, HolderInv, WriteManifest
<1>1. /\ Others(p) /\ TempStep(p) /\ faults' = faults /\ owned' = owned
      /\ dig' = dig /\ files' = files /\ tampered' = tampered
  BY <1>0 DEF WriteManifest, AfterFailure, Others, TempStep, TypeOK
<1>2. CASE manifest' = manifest
  <2>1. pc'[p] = AfterFailure(p) \/ pc'[p] = "verifyManifest"
    BY <1>0 DEF WriteManifest, TypeOK
  <2>2. Still(p)
    BY <1>0, <1>1, <1>2, <2>1 DEF Still, InWork, Working, AfterFailure
  <2> QED
    BY <1>0, <1>1, <2>2, StillCount, TempCount DEF CountInv
<1>3. CASE manifest' = MergeManifest(manifest, dig[p]) /\ pc'[p] = "verifyManifest"
  <2>1. \A q \in Proc : InWork(q)' <=> InWork(q)
    BY <1>0, <1>1, <1>3 DEF InWork, Working, Others
  <2>2. \A q \in Proc : Mine(q)'
    BY <1>1, <2>1 DEF Mine, CountInv, Name
  <2>3. Orphans' \subseteq Orphans
    <3> SUFFICES ASSUME NEW m \in Orphans', NEW d \in manifest.snaps, Name(d) = m
                 PROVE  FALSE
      BY <1>1 DEF Orphans, Absent
    <3>1. d \in Digest /\ dig[p] \in Digest
      BY <1>0 DEF TypeOK, Manifests
    <3>2. PICK e \in manifest'.snaps : e \in Digest /\ IdOf[e] = IdOf[d]
      BY <1>3, <3>1 DEF MergeManifest
    <3>3. Name(e) = m
      BY <3>1, <3>2 DEF SameExtension, Name
    <3> QED
      BY <3>2, <3>3 DEF Orphans, Name
  <2>4. Stray' \subseteq Stray
    BY <1>1, <2>1, <2>3 DEF Stray, Name
  <2>5. AtMost(Stray', faults')
    BY <1>0, <1>1, <2>4, Fewer DEF CountInv, TypeOK
  <2>6. AtMost(Lost, faults)' /\ IsFiniteSet(Busy)'
    BY <1>0, <1>1, TempCount
  <2> QED
    BY <2>2, <2>5, <2>6 DEF CountInv, AtMost
<1> QED
  BY <1>0, <1>2, <1>3 DEF WriteManifest, TypeOK

\* A snapshot that was rolled back is gone, or its removal failed.
LEMMA RemoveCount ==
    ASSUME IInv, CountInv, NEW p \in Proc, RollbackRemove(p)
    PROVE  CountInv'
<1> DEFINE n == Name(dig[p])
<1>0. /\ TypeOK /\ pc[p] = "remove" /\ n \in Names
      /\ \A q \in Proc \ {p} : ~InWork(q)
  BY AloneAtWork, NameType DEF IInv, TypeOK, RollbackRemove, LockedPCs
<1>1. /\ Others(p) /\ TempStep(p) /\ faults' \in {faults, faults + 1}
      /\ dig' = dig /\ manifest' = manifest /\ tampered' = tampered
      /\ pc'[p] = "release"
  BY <1>0 DEF RollbackRemove, Others, TempStep, TypeOK
<1>2. \A q \in Proc : ~InWork(q)'
  BY <1>0, <1>1 DEF InWork, Working, Others
<1>3. \A q \in Proc : Mine(q)'
  BY <1>2 DEF Mine
<1>4. Stray' \subseteq Stray \cup {n}
  <2> SUFFICES ASSUME NEW m \in Stray', m # n PROVE m \in Stray
    OBVIOUS
  <2>1. files'[m] = files[m] /\ m \in Names
    BY <1>0 DEF RollbackRemove, Stray, Orphans, TypeOK
  <2>2. m \in Orphans
    BY <1>1, <2>1 DEF Stray, Orphans, Absent
  <2> QED
    BY <1>0, <2>2 DEF Stray
<1>5. faults' = faults => n \notin Stray'
  <2> SUFFICES ASSUME faults' = faults PROVE n \notin Orphans'
    BY DEF Stray
  <2>1. files' = [files EXCEPT ![n] = NoFile]
    BY <1>0 DEF RollbackRemove, TypeOK
  <2>2. files'[n].ino = 0
    BY <1>0, <2>1 DEF TypeOK, NoFile
  <2> QED
    BY <2>2 DEF Orphans, Absent
<1>6. AtMost(Stray, faults) /\ faults \in Nat
  BY <1>0 DEF CountInv, TypeOK
<1>7. faults' = faults => Stray' \subseteq Stray
  BY <1>4, <1>5
<1>8. AtMost(Stray \cup {n}, faults + 1)
  BY <1>6, OneMore
<1>9. AtMost(Stray', faults')
  BY <1>1, <1>4, <1>6, <1>7, <1>8, Fewer
<1>10. AtMost(Lost, faults)' /\ IsFiniteSet(Busy)'
  BY <1>0, <1>1, TempCount
<1> QED
  BY <1>3, <1>9, <1>10 DEF CountInv, AtMost

\* A foreign writer's names are not counted.
LEMMA ForeignCount ==
    ASSUME IInv, CountInv, Foreign
    PROVE  CountInv'
<1>0. TypeOK
  BY DEF IInv
<1>1. PICK n \in Names : ForeignRemove(n) \/ \E c \in Content : ForeignWrite(n, c)
  BY DEF Foreign
<1>2. /\ tampered' = tampered \cup {n} /\ faults' = faults + 1
      /\ \A m \in Names \ {n} : files'[m] = files[m]
      /\ UNCHANGED <<pc, dig, owned, ino, temps, manifest>>
  BY <1>0, <1>1 DEF ForeignRemove, ForeignWrite, TypeOK
<1>3. \A q \in Proc : Mine(q)'
  <2> SUFFICES ASSUME NEW q \in Proc, InWork(q), Name(dig[q]) \notin tampered'
               PROVE  files'[Name(dig[q])].ino = owned[q]
    BY <1>2 DEF Mine, InWork, Name
  <2>1. Name(dig[q]) \in Names
    BY <1>0, NameType DEF TypeOK
  <2> QED
    BY <1>2, <2>1 DEF CountInv, Mine
<1>4. Orphans' \subseteq Orphans
  BY <1>2 DEF Orphans, Absent
<1>5. Stray' \subseteq Stray /\ Lost' = Lost /\ Busy' = Busy
  BY <1>2, <1>4 DEF Stray, Lost, Busy, InWork, Name
<1>6. AtMost(Stray, faults) /\ AtMost(Lost, faults) /\ faults \in Nat
  BY <1>0 DEF CountInv, TypeOK
<1>7. AtMost(Stray, faults + 1) /\ AtMost(Lost, faults + 1) /\ faults + 1 \in Nat
  BY <1>6, Allowance
<1>8. AtMost(Stray', faults') /\ AtMost(Lost', faults')
  BY <1>2, <1>5, <1>7, Fewer
<1> QED
  BY <1>3, <1>5, <1>8 DEF CountInv, AtMost

LEMMA NextCount ==
    ASSUME SameExtension, IInv, CountInv, [Next]_vars
    PROVE  CountInv'
<1>0. TypeOK
  BY DEF IInv
<1>1. ASSUME NEW p \in Proc, Step(p) \/ Crash(p) PROVE CountInv'
  <2>1. CASE LinkSnapshot(p)
    BY <2>1, LinkCount
  <2>2. CASE WriteManifest(p)
    BY <2>2, WriteCount
  <2>3. CASE RollbackRemove(p)
    BY <2>3, RemoveCount
  <2>4. ASSUME Others(p), Still(p), TempStep(p), faults' \in {faults, faults + 1}
        PROVE  CountInv'
    BY <1>0, <2>4, StillCount, TempCount DEF CountInv
  <2>5. CASE \/ BeginDownload(p) \/ FailDownload(p) \/ CleanupTemp(p) \/ Crash(p)
             \/ \E d \in Digest : FinishDownload(p, d)
    BY <2>4, <2>5, EndShape
  <2>6. Mine(p)
    BY DEF CountInv
  <2> QED
    BY <1>1, <2>1, <2>2, <2>3, <2>4, <2>5, <2>6, QuietShape DEF Step, Publish
<1>2. CASE Foreign
  BY <1>2, ForeignCount
<1>3. CASE UNCHANGED vars
  BY <1>3 DEF vars, CountInv, AtMost, Stray, Orphans, Absent, Lost, Busy, Mine, InWork
<1> QED
  BY <1>1, <1>2, <1>3 DEF Next

\* However many processes publish, crash and fail, a snapshot that nobody records
\* or works on and a temporary file of no running call each cost a fault of their
\* own, as long as contents of one identifier share their extension.
THEOREM LeavesNothingBehind ==
    ASSUME SameExtension
    PROVE  Spec => []LeftoversBounded
<1>1. Init => CountInv
  <2> SUFFICES ASSUME Init PROVE CountInv
    OBVIOUS
  <2>1. Orphans = {} /\ temps = {} /\ Busy = {} /\ faults = 0
    BY DEF Init, Orphans, Absent, NoFile, Busy
  <2>2. \A p \in Proc : ~InWork(p)
    BY DEF Init, InWork, Working
  <2>3. Stray = {} /\ Lost = {}
    BY <2>1 DEF Stray, Lost
  <2> QED
    BY <2>1, <2>2, <2>3, FS_EmptySet DEF CountInv, AtMost, Mine
<1>2. IInv /\ CountInv /\ [Next]_vars => CountInv'
  BY NextCount
<1>3. IInv /\ CountInv => LeftoversBounded
  <2> SUFFICES ASSUME IInv, CountInv PROVE LeftoversBounded
    OBVIOUS
  <2> DEFINE Held == {p \in Proc : pc[p] \in LockedPCs}
             Own == {ino[p] : p \in Busy}
  <2>0. faults \in Nat
    BY DEF IInv, TypeOK
  <2>1. Cardinality(Orphans) <= faults + Cardinality(Held)
    <3>1. CASE \E p \in Proc : InWork(p)
      <4>1. PICK p \in Proc : InWork(p)
        BY <3>1
      <4>2. pc[p] \in LockedPCs
        BY <4>1 DEF InWork, Working, LockedPCs
      <4>3. Held = {p}
        BY <4>2, OneHolder DEF IInv
      <4>4. Orphans \subseteq Stray \cup {Name(dig[p])}
        BY <4>2, AloneAtWork DEF Stray
      <4>5. AtMost(Stray, faults)
        BY DEF CountInv
      <4>6. AtMost(Stray \cup {Name(dig[p])}, faults + 1)
        BY <2>0, <4>5, OneMore
      <4>7. AtMost(Orphans, faults + 1)
        BY <2>0, <4>4, <4>6, Fewer
      <4>8. Cardinality(Held) = 1
        BY <4>3, FS_Singleton
      <4> QED
        BY <4>7, <4>8 DEF AtMost
    <3>2. CASE ~ \E p \in Proc : InWork(p)
      <4>1. Orphans = Stray
        BY <3>2 DEF Stray
      <4>2. IsFiniteSet(Held)
        BY FS_Subset DEF CountInv, Busy, LockedPCs
      <4>3. Cardinality(Held) \in Nat /\ Cardinality(Orphans) \in Nat
        BY <4>1, <4>2, FS_CardinalityType DEF CountInv, AtMost
      <4> QED
        BY <2>0, <4>1, <4>3 DEF CountInv, AtMost
    <3> QED
      BY <3>1, <3>2
  <2>2. Cardinality(temps) <= faults + Cardinality(Busy)
    <3>1. [p \in Busy |-> ino[p]] \in Surjection(Busy, Own)
      BY DEF Surjection
    <3>2. IsFiniteSet(Own) /\ Cardinality(Own) <= Cardinality(Busy)
      BY <3>1, FS_Surjection DEF CountInv
    <3>3. IsFiniteSet(Lost) /\ Cardinality(Lost) <= faults
      BY DEF CountInv, AtMost
    <3>4. /\ IsFiniteSet(Lost \cup Own)
          /\ Cardinality(Lost \cup Own) =
               Cardinality(Lost) + Cardinality(Own) - Cardinality(Lost \cap Own)
      BY <3>2, <3>3, FS_Union
    <3>5. temps \subseteq Lost \cup Own
      BY DEF Lost
    <3>6. IsFiniteSet(temps) /\ Cardinality(temps) <= Cardinality(Lost \cup Own)
      BY <3>4, <3>5, FS_Subset
    <3>7. IsFiniteSet(Lost \cap Own)
      BY <3>2, FS_Subset
    <3>8. /\ Cardinality(Lost) \in Nat /\ Cardinality(Own) \in Nat
          /\ Cardinality(Lost \cap Own) \in Nat /\ Cardinality(temps) \in Nat
          /\ Cardinality(Busy) \in Nat
      BY <3>2, <3>3, <3>6, <3>7, FS_CardinalityType DEF CountInv
    <3> HIDE DEF Own
    <3> QED
      BY <2>0, <3>2, <3>3, <3>4, <3>6, <3>8
  <2> QED
    BY <2>1, <2>2 DEF LeftoversBounded, Busy
<1> QED
  BY <1>1, <1>2, <1>3, Invariance, PTL DEF Spec
=============================================================================
