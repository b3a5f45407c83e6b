---------------------------- MODULE AdvisorySync ----------------------------
(***************************************************************************)
(* Publication of OSV advisory snapshots into a shared cache directory     *)
(* (internal/advisory/sync.go).  Several lopper processes may run SyncOSV  *)
(* against the same cache.  Each call downloads a snapshot to a temporary  *)
(* file, takes the publication lock of the cache directory, hard-links the *)
(* temporary file to its content-derived name, records it in the manifest  *)
(* by an atomic replacement, and rolls its own snapshot back when a later  *)
(* step fails.  Every file system call is one step, so other processes,    *)
(* crashes, I/O errors and writers that ignore the lock come in between.   *)
(***************************************************************************)
EXTENDS Naturals, FiniteSets

CONSTANTS
    Proc,          \* lopper processes that run "advisory sync"
    NoProc,        \* the publication lock is free
    Digest,        \* contents a download can have (sha256 of the payload)
    Id,            \* snapshot identifiers: the first 24 digits of a digest
    NoId,          \* Latest of a manifest that was never written
    IdOf,          \* snapshotIDFromDigest
    ExtOf,         \* snapshotExtension of the schema inferred from the content
    Other,         \* content of a regular file that is no download
    Irregular,     \* a symbolic link, directory or other non-regular entry
    MaxEntries,    \* manifest entries that fit into maxCacheManifestBytes
    MaxDownloads,  \* bound: downloads started in a behaviour
    MaxFaults      \* bound: crashes, I/O errors and foreign writes

ASSUME ConstantsAssumption ==
    /\ NoProc \notin Proc
    /\ NoId \notin Id
    /\ Digest # {} /\ IdOf \in [Digest -> Id]
    /\ Other \notin Digest /\ Irregular \notin Digest /\ Other # Irregular
    /\ MaxEntries \in Nat /\ MaxDownloads \in Nat /\ MaxFaults \in Nat

VARIABLES
    lock,       \* holder of the flock on the cache directory, or NoProc
    files,      \* the snapshots directory: name -> [ino, content]; ino 0 is absent
    temps,      \* inodes of temporary files present in the snapshots directory
    manifest,   \* manifest.json: latest identifier and recorded digests
    pc,         \* where each process is in SyncOSV
    dig,        \* digest each process downloaded
    ino,        \* inode of each process's temporary file
    owned,      \* inode of advisorySnapshotOwnership, 0 for nil
    loaded,     \* manifest each process read in updateManifest
    res,        \* outcome of each process's last SyncOSV
    downloads,  \* downloads so far; also the last inode handed out
    faults,     \* faults so far
    tampered,   \* ghost: names an outside writer touched
    lateFail    \* ghost: digests whose manifest write failed after its rename

vars == <<lock, files, temps, manifest, pc, dig, ino, owned, loaded, res,
          downloads, faults, tampered, lateFail>>

procVars == <<dig, ino, owned, loaded, res>>
diskVars == <<files, temps, manifest>>
ghosts   == <<tampered, lateFail>>

-----------------------------------------------------------------------------
Name(d) == <<IdOf[d], ExtOf[d]>>
Names   == {Name(d) : d \in Digest}

Content == Digest \cup {Other, Irregular}
NoFile  == [ino |-> 0, content |-> Irregular]
Absent(n) == files[n].ino = 0

NoManifest == [latest |-> NoId, snaps |-> {}]
Manifests  == [latest : Id \cup {NoId}, snaps : SUBSET Digest]

\* The process is between a successful flock and its release.
LockedPCs == {"identity", "check", "place", "verifyExisting", "verifyPlaced",
              "verifyChild", "load", "write", "verifyManifest", "rollback",
              "remove", "release"}
PCs == LockedPCs \cup {"idle", "fetch", "lock", "wait", "cleanup"}

TypeOK ==
    /\ lock \in Proc \cup {NoProc}
    /\ files \in [Names -> [ino : Nat, content : Content]]
    /\ temps \in SUBSET Nat
    /\ manifest \in Manifests
    /\ pc \in [Proc -> PCs]
    /\ dig \in [Proc -> Digest]
    /\ ino \in [Proc -> Nat]
    /\ owned \in [Proc -> Nat]
    /\ loaded \in [Proc -> Manifests]
    /\ res \in [Proc -> {"none", "ok", "error"}]
    /\ downloads \in Nat
    /\ faults \in Nat
    /\ tampered \in SUBSET Names
    /\ lateFail \in SUBSET Digest

Init ==
    /\ lock = NoProc
    /\ files = [n \in Names |-> NoFile]
    /\ temps = {}
    /\ manifest = NoManifest
    /\ pc = [p \in Proc |-> "idle"]
    /\ dig = [p \in Proc |-> CHOOSE d \in Digest : TRUE]
    /\ ino = [p \in Proc |-> 0]
    /\ owned = [p \in Proc |-> 0]
    /\ loaded = [p \in Proc |-> NoManifest]
    /\ res = [p \in Proc |-> "none"]
    /\ downloads = 0
    /\ faults = 0
    /\ tampered = {}
    /\ lateFail = {}

-----------------------------------------------------------------------------
(* Helpers: one step of p's control, and the fault budget. *)

Goto(p, from, to) == pc[p] = from /\ pc' = [pc EXCEPT ![p] = to]
NoFault == faults' = faults
Fault   == faults < MaxFaults /\ faults' = faults + 1

\* Mutant: a failed publication leaves its snapshot in place.
NeverRollBack(p) == "release"

\* The error returns of publishAdvisorySnapshot after placement: the snapshot
\* is rolled back exactly when this call linked it.
AfterFailure(p) == IF owned[p] # 0 THEN "rollback" ELSE "release"

\* Mutant: Latest holds the untruncated digest.
MergeFullDigest(m, d) ==
    [latest |-> d, snaps |-> {d} \cup {e \in m.snaps : IdOf[e] # IdOf[d]}]

\* Mutant: the manifest is rebuilt instead of merged.
MergeNothing(m, d) == [latest |-> IdOf[d], snaps |-> {d}]

\* updateManifest: the new snapshot becomes Latest and replaces an entry of
\* the same identifier; every other entry is kept.
MergeManifest(m, d) ==
    [latest |-> IdOf[d],
     snaps  |-> {d} \cup {e \in m.snaps : IdOf[e] # IdOf[d]}]

-----------------------------------------------------------------------------
(* Download: SyncOSV up to publishAdvisorySnapshot. *)

\* downloadSnapshotUnderRoot creates the temporary file in snapshots/.
BeginDownload(p) ==
    /\ downloads < MaxDownloads
    /\ Goto(p, "idle", "fetch")
    /\ downloads' = downloads + 1
    /\ ino' = [ino EXCEPT ![p] = downloads + 1]
    /\ owned' = [owned EXCEPT ![p] = 0]
    /\ res' = [res EXCEPT ![p] = "none"]
    /\ temps' = temps \cup {downloads + 1}
    /\ NoFault
    /\ UNCHANGED <<lock, files, manifest, dig, loaded, ghosts>>

\* The payload was streamed, hashed, closed and validated.
FinishDownload(p, d) ==
    /\ Goto(p, "fetch", "lock")
    /\ dig' = [dig EXCEPT ![p] = d]
    /\ NoFault
    /\ UNCHANGED <<lock, diskVars, ino, owned, loaded, res, downloads, ghosts>>

\* Status, size limit, schema or validation error: the deferred cleanup of
\* downloadSnapshotUnderRoot removes the temporary file.
FailDownload(p) ==
    /\ Goto(p, "fetch", "idle")
    /\ res' = [res EXCEPT ![p] = "error"]
    /\ temps' = temps \ {ino[p]}
    /\ NoFault
    /\ UNCHANGED <<lock, files, manifest, dig, ino, owned, loaded, downloads, ghosts>>

-----------------------------------------------------------------------------
(* The publication lock. *)

\* Mutant: the flock is not exclusive.
SharedTryAcquire(p) ==
    /\ Goto(p, "lock", "identity")
    /\ lock' = p
    /\ NoFault
    /\ UNCHANGED <<diskVars, procVars, downloads, ghosts>>

\* tryAcquire: a non-blocking exclusive flock.
TryAcquire(p) ==
    /\ IF lock = NoProc
       THEN Goto(p, "lock", "identity") /\ lock' = p
       ELSE Goto(p, "lock", "wait") /\ lock' = lock
    /\ NoFault
    /\ UNCHANGED <<diskVars, procVars, downloads, ghosts>>

\* The 10ms timer fires before the context is done.
RetryLock(p) ==
    /\ Goto(p, "wait", "lock")
    /\ NoFault
    /\ UNCHANGED <<lock, diskVars, procVars, downloads, ghosts>>

\* The context is cancelled or times out while waiting.
CancelLock(p) ==
    /\ Goto(p, "wait", "cleanup")
    /\ res' = [res EXCEPT ![p] = "error"]
    /\ NoFault
    /\ UNCHANGED <<lock, diskVars, dig, ino, owned, loaded, downloads, ghosts>>

\* verifyAdvisoryCacheIdentity; on failure the lock is closed again.
VerifyIdentity(p) ==
    /\ \/ /\ Goto(p, "identity", "check")
          /\ NoFault
          /\ res' = res
       \/ /\ Goto(p, "identity", "release")
          /\ Fault
          /\ res' = [res EXCEPT ![p] = "error"]
    /\ UNCHANGED <<lock, diskVars, dig, ino, owned, loaded, downloads, ghosts>>

-----------------------------------------------------------------------------
(* Placement. *)

\* advisorySnapshotAbsent before placement: a non-regular entry is an error.
CheckAbsent(p) ==
    LET n == Name(dig[p])
    IN  /\ IF ~Absent(n) /\ files[n].content = Irregular
           THEN Goto(p, "check", "release") /\ res' = [res EXCEPT ![p] = "error"]
           ELSE Goto(p, "check", "place") /\ res' = res
        /\ NoFault
        /\ UNCHANGED <<lock, diskVars, dig, ino, owned, loaded, downloads, ghosts>>

\* The hard link of advisoryPlaceSnapshotNoReplace: it creates the name or
\* fails because the name exists.
LinkSnapshot(p) ==
    LET n == Name(dig[p])
    IN  /\ IF Absent(n)
           THEN /\ Goto(p, "place", "verifyPlaced")
                /\ files' = [files EXCEPT ![n] = [ino |-> ino[p], content |-> dig[p]]]
                /\ owned' = [owned EXCEPT ![p] = ino[p]]
           ELSE /\ Goto(p, "place", "verifyExisting")
                /\ UNCHANGED <<files, owned>>
        /\ NoFault
        /\ UNCHANGED <<lock, temps, manifest, dig, ino, loaded, res, downloads, ghosts>>

\* The temporary file cannot be inspected, its mode not set, or the link
\* fails for another reason than an existing name.
FailLink(p) ==
    /\ Goto(p, "place", "release")
    /\ Fault
    /\ res' = [res EXCEPT ![p] = "error"]
    /\ UNCHANGED <<lock, diskVars, dig, ino, owned, loaded, downloads, ghosts>>

\* Mutant: an existing name is taken for the downloaded content.
AdoptUnverified(p) ==
    /\ Goto(p, "verifyExisting", "verifyChild")
    /\ NoFault
    /\ UNCHANGED <<lock, diskVars, procVars, downloads, ghosts>>

\* Mutant: the mismatch return bypasses the deferred unlock.
VerifyExistingKeepsLock(p) ==
    LET n == Name(dig[p])
    IN  /\ IF ~Absent(n) /\ files[n].content = dig[p]
           THEN Goto(p, "verifyExisting", "verifyChild") /\ res' = res
           ELSE /\ Goto(p, "verifyExisting", "cleanup")
                /\ res' = [res EXCEPT ![p] = "error"]
        /\ NoFault
        /\ UNCHANGED <<lock, diskVars, dig, ino, owned, loaded, downloads, ghosts>>

\* advisoryVerifyExistingSnapshot: an existing snapshot is adopted, without
\* ownership, when its size and digest match the download.
VerifyExisting(p) ==
    LET n == Name(dig[p])
    IN  /\ IF ~Absent(n) /\ files[n].content = dig[p]
           THEN Goto(p, "verifyExisting", "verifyChild") /\ res' = res
           ELSE /\ Goto(p, "verifyExisting", "release")
                /\ res' = [res EXCEPT ![p] = "error"]
        /\ NoFault
        /\ UNCHANGED <<lock, diskVars, dig, ino, owned, loaded, downloads, ghosts>>

\* Lstat and SameFile after the link.
VerifyPlaced(p) ==
    LET same == files[Name(dig[p])].ino = owned[p]
    IN  /\ \/ same /\ NoFault /\ res' = res
              /\ Goto(p, "verifyPlaced", "verifyChild")
           \/ /\ IF same THEN Fault ELSE NoFault
              /\ res' = [res EXCEPT ![p] = "error"]
              /\ Goto(p, "verifyPlaced", "rollback")
        /\ UNCHANGED <<lock, diskVars, dig, ino, owned, loaded, downloads, ghosts>>

\* advisoryVerifyPinnedSnapshotsChild: the snapshots directory was replaced,
\* or cannot be inspected, counts as a fault.
VerifyChild(p) ==
    /\ \/ /\ Goto(p, "verifyChild", "load")
          /\ NoFault
          /\ res' = res
       \/ /\ Goto(p, "verifyChild", AfterFailure(p))
          /\ Fault
          /\ res' = [res EXCEPT ![p] = "error"]
    /\ UNCHANGED <<lock, diskVars, dig, ino, owned, loaded, downloads, ghosts>>

-----------------------------------------------------------------------------
(* updateManifest and the rollback of a failed publication. *)

\* loadCacheManifestWithinRoot; an unreadable manifest is a fault.
LoadManifest(p) ==
    /\ \/ /\ Goto(p, "load", "write")
          /\ loaded' = [loaded EXCEPT ![p] = manifest]
          /\ NoFault
          /\ res' = res
       \/ /\ Goto(p, "load", AfterFailure(p))
          /\ Fault
          /\ res' = [res EXCEPT ![p] = "error"]
          /\ loaded' = loaded
    /\ UNCHANGED <<lock, diskVars, dig, ino, owned, downloads, ghosts>>

\* The merged manifest is rejected when it is too large; otherwise it replaces
\* manifest.json with one rename.
WriteManifest(p) ==
    LET merged == MergeManifest(loaded[p], dig[p])
    IN  /\ IF Cardinality(merged.snaps) > MaxEntries
           THEN /\ Goto(p, "write", AfterFailure(p))
                /\ res' = [res EXCEPT ![p] = "error"]
                /\ UNCHANGED manifest
           ELSE /\ Goto(p, "write", "verifyManifest")
                /\ manifest' = merged
                /\ UNCHANGED res
        /\ NoFault
        /\ UNCHANGED <<lock, files, temps, dig, ino, owned, loaded, downloads, ghosts>>

\* The atomic write fails before its rename.
FailWrite(p) ==
    /\ Goto(p, "write", AfterFailure(p))
    /\ Fault
    /\ res' = [res EXCEPT ![p] = "error"]
    /\ UNCHANGED <<lock, diskVars, dig, ino, owned, loaded, downloads, ghosts>>

\* verifyCommittedTarget after the rename.  Its failure is reported like any
\* other write error although manifest.json already holds the new entry.
VerifyManifest(p) ==
    /\ \/ /\ Goto(p, "verifyManifest", "release")
          /\ NoFault
          /\ res' = [res EXCEPT ![p] = "ok"]
          /\ lateFail' = lateFail
       \/ /\ Goto(p, "verifyManifest", AfterFailure(p))
          /\ Fault
          /\ res' = [res EXCEPT ![p] = "error"]
          /\ lateFail' = lateFail \cup {dig[p]}
    /\ UNCHANGED <<lock, diskVars, dig, ino, owned, loaded, downloads, tampered>>

\* rollbackOwnedSnapshot, the inspection: a missing name or another inode
\* ends the rollback.
RollbackCheck(p) ==
    LET mine == files[Name(dig[p])].ino = owned[p]
    IN  /\ \/ mine /\ NoFault /\ Goto(p, "rollback", "remove")
           \/ /\ IF mine THEN Fault ELSE NoFault
              /\ Goto(p, "rollback", "release")
        /\ UNCHANGED <<lock, diskVars, procVars, downloads, ghosts>>

\* rollbackOwnedSnapshot, the removal by name.
RollbackRemove(p) ==
    /\ Goto(p, "remove", "release")
    /\ \/ /\ files' = [files EXCEPT ![Name(dig[p])] = NoFile]
          /\ NoFault
       \/ /\ Fault
          /\ files' = files
    /\ UNCHANGED <<lock, temps, manifest, procVars, downloads, ghosts>>

-----------------------------------------------------------------------------
(* Deferred calls, crashes and writers that do not take the lock. *)

\* publicationLock.Close.
ReleaseLock(p) ==
    /\ Goto(p, "release", "cleanup")
    /\ lock' = NoProc
    /\ NoFault
    /\ UNCHANGED <<diskVars, procVars, downloads, ghosts>>

\* CleanupTempFileWithinRoot; its failure joins the returned error.
CleanupTemp(p) ==
    /\ Goto(p, "cleanup", "idle")
    /\ \/ /\ temps' = temps \ {ino[p]}
          /\ NoFault
          /\ res' = res
       \/ /\ Fault
          /\ res' = [res EXCEPT ![p] = "error"]
          /\ temps' = temps
    /\ UNCHANGED <<lock, files, manifest, dig, ino, owned, loaded, downloads, ghosts>>

\* The process dies: the kernel drops its flock, no deferred call runs.
Crash(p) ==
    /\ pc[p] # "idle"
    /\ Fault
    /\ pc' = [pc EXCEPT ![p] = "idle"]
    /\ lock' = IF lock = p THEN NoProc ELSE lock
    /\ res' = [res EXCEPT ![p] = "none"]
    /\ UNCHANGED <<diskVars, dig, ino, owned, loaded, downloads, ghosts>>

\* A program that ignores the lock creates, replaces or removes a name.
ForeignWrite(n, c) ==
    /\ Fault
    /\ downloads < MaxDownloads
    /\ downloads' = downloads + 1
    /\ files' = [files EXCEPT ![n] = [ino |-> downloads + 1, content |-> c]]
    /\ tampered' = tampered \cup {n}
    /\ UNCHANGED <<lock, temps, manifest, pc, procVars, lateFail>>

ForeignRemove(n) ==
    /\ ~Absent(n)
    /\ Fault
    /\ files' = [files EXCEPT ![n] = NoFile]
    /\ tampered' = tampered \cup {n}
    /\ UNCHANGED <<lock, temps, manifest, pc, procVars, downloads, lateFail>>

-----------------------------------------------------------------------------
Publish(p) ==
    \/ TryAcquire(p) \/ RetryLock(p) \/ CancelLock(p) \/ VerifyIdentity(p)
    \/ CheckAbsent(p) \/ LinkSnapshot(p) \/ FailLink(p) \/ VerifyExisting(p)
    \/ VerifyPlaced(p) \/ VerifyChild(p) \/ LoadManifest(p) \/ WriteManifest(p)
    \/ FailWrite(p) \/ VerifyManifest(p) \/ RollbackCheck(p)
    \/ RollbackRemove(p) \/ ReleaseLock(p) \/ CleanupTemp(p)

Step(p) ==
    \/ BeginDownload(p) \/ FailDownload(p)
    \/ \E d \in Digest : FinishDownload(p, d)
    \/ Publish(p)

Foreign == \E n \in Names : ForeignRemove(n) \/ \E c \in Content : ForeignWrite(n, c)

Next == (\E p \in Proc : Step(p) \/ Crash(p)) \/ Foreign

Spec == Init /\ [][Next]_vars

\* A running process keeps executing its calls; nothing makes it start a
\* download, survive, or be left alone by other writers.
FairSpec == Spec /\ \A p \in Proc : WF_vars(Publish(p))

-----------------------------------------------------------------------------
(* Properties. *)

\* The lock excludes: exactly the holder is inside the publication section of
\* publishAdvisorySnapshot.
LockExclusive == \A p \in Proc : pc[p] \in LockedPCs <=> lock = p

\* A manifest entry is backed by a snapshot file with exactly the recorded
\* content.  The only exceptions are names an outside writer touched and
\* entries whose manifest write was reported as failed after the rename, which
\* publishAdvisorySnapshot then rolls back under the entry.
ManifestBacked ==
    \A d \in manifest.snaps :
        \/ ~Absent(Name(d)) /\ files[Name(d)].content = d
        \/ Name(d) \in tampered
        \/ d \in lateFail

\* updateManifest never forgets an identifier that an earlier sync recorded,
\* whichever process wrote it and however the two calls interleave.
EntriesKept ==
    [][\A d \in manifest.snaps : \E e \in manifest'.snaps : IdOf[e] = IdOf[d]]_manifest

\* When SyncOSV is about to return success its snapshot is in the manifest and
\* is Latest: no other process can publish between the write and the return.
SuccessIsLatest ==
    \A p \in Proc :
        pc[p] = "release" /\ res[p] = "ok" =>
            dig[p] \in manifest.snaps /\ manifest.latest = IdOf[dig[p]]

\* How far the call of p has come for somebody who sees only the manifest.
Stage(p) ==
    CASE pc[p] = "idle" -> IF res[p] = "none" THEN "idle" ELSE res[p]
      [] pc[p] = "verifyManifest" -> "recorded"
      [] pc[p] \in {"release", "cleanup"} -> IF res[p] = "ok" THEN "recorded" ELSE "failed"
      [] pc[p] \in {"rollback", "remove"} -> "failed"
      [] OTHER -> "open"
Stages == [p \in Proc |-> Stage(p)]

C == INSTANCE AdvisoryCache WITH
        latest <- manifest.latest,
        recorded <- manifest.snaps,
        st <- Stages

\* Reading the manifest, merging and replacing it is one indivisible step to the
\* other processes, although SyncOSV takes it in several and can fail in each.
Implements == C!Spec

-----------------------------------------------------------------------------
(* The inductive invariant behind the theorems of AdvisorySync_proofs. *)

\* The name p publishes holds p's download, unless an outside writer came by.
Ready(p) ==
    LET n == Name(dig[p])
    IN  n \in tampered \/ (~Absent(n) /\ files[n].content = dig[p])

\* No trusted manifest entry uses the name p may still remove.
Unreferenced(p) ==
    \A e \in manifest.snaps :
        Name(e) = Name(dig[p]) => Name(e) \in tampered \/ e \in lateFail

\* What p knows while it holds the lock: the snapshot it is about to record is
\* there, the manifest it merges into is current, nobody has recorded the
\* snapshot it would roll back, and it has not reported success yet.
HolderInv(p) ==
    /\ pc[p] \in {"verifyPlaced", "verifyChild", "load", "write", "verifyManifest"}
           => Ready(p)
    /\ pc[p] = "write" => loaded[p] = manifest
    /\ pc[p] \in {"verifyPlaced", "rollback", "remove"} => Unreferenced(p)
    /\ pc[p] \in {"verifyChild", "load", "write"} /\ owned[p] # 0 => Unreferenced(p)
    /\ pc[p] = "verifyManifest" =>
           /\ dig[p] \in manifest.snaps
           /\ manifest.latest = IdOf[dig[p]]
           /\ \A e \in manifest.snaps : Name(e) = Name(dig[p]) => e = dig[p]
    /\ pc[p] \in {"lock", "wait", "identity", "check", "place"} => ino[p] # 0 /\ owned[p] = 0
    /\ pc[p] = "verifyExisting" => owned[p] = 0
    /\ pc[p] = "fetch" => ino[p] # 0 /\ owned[p] = 0
    /\ pc[p] \in LockedPCs \ {"release"} => res[p] # "ok"
    /\ pc[p] \in {"fetch", "lock", "wait"} => res[p] # "ok"

\* The invariant that one step of any process preserves.
IInv ==
    /\ TypeOK
    /\ LockExclusive
    /\ ManifestBacked
    /\ SuccessIsLatest
    /\ \A p \in Proc : HolderInv(p)

-----------------------------------------------------------------------------
\* A file of the snapshots directory that the manifest does not mention.
Orphans == {n \in Names : ~Absent(n) /\ n \notin tampered
                          /\ \A d \in manifest.snaps : Name(d) # n}

\* SyncOSV leaves nothing behind: beyond the snapshot the lock holder is working
\* on and the temporary files of running calls, every unreferenced snapshot and
\* every temporary file costs a crash or an I/O error, as long as contents that
\* share an identifier share their extension.
LeftoversBounded ==
    /\ Cardinality(Orphans) <= faults + Cardinality({p \in Proc : pc[p] \in LockedPCs})
    /\ Cardinality(temps) <= faults + Cardinality({p \in Proc : pc[p] # "idle"})

\* Whoever takes the publication lock gives it back, by releasing it or by
\* dying: no error path of publishAdvisorySnapshot keeps it.
HolderReleases == lock # NoProc ~> lock = NoProc
=============================================================================
