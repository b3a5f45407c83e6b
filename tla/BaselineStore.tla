---------------------------- MODULE BaselineStore ----------------------------
(***************************************************************************)
(* The directory of baseline snapshots (internal/baseline/store.go and     *)
(* snapshot.go).  A snapshot is one JSON file per key, created exclusively *)
(* and written in place; its name is unique to the key.  Stores of earlier *)
(* versions hold files under a sanitised name that several keys can share. *)
(* Any number of processes save and load at the same time; a process may   *)
(* die in the middle of a save.                                            *)
(***************************************************************************)
EXTENDS Naturals, FiniteSets

CONSTANTS
    Proc,        \* lopper processes
    Key,         \* baseline keys
    Slug,        \* legacy file names
    SlugOf,      \* LegacySnapshotFileName
    NoKey,       \* a legacy file that records no key, or no legacy file
    MaxOps,      \* bound: saves and loads started
    MaxFaults    \* bound: crashes, I/O errors, deletions from outside

ASSUME ConstantsAssumption ==
    /\ SlugOf \in [Key -> Slug] /\ NoKey \notin Key /\ Key # {}
    /\ MaxOps \in Nat /\ MaxFaults \in Nat

VARIABLES
    file,    \* the snapshot file of each key: the save that created it (0: none)
             \* and whether its JSON is complete
    legacy,  \* the key recorded in each legacy file
    pc, key, op, \* control, requested key and number of each process's call
    found,   \* the save whose snapshot a load read, 0 for the legacy file
    res,     \* outcome of each process's last call
    ops, faults,
    saved,   \* ghost: keys for which a save returned success, with the save
    wiped,   \* ghost: keys whose file somebody else deleted
    broken   \* ghost: saves that died or whose cleanup failed

vars == <<file, legacy, pc, key, op, found, res, ops, faults, saved, wiped, broken>>
ghosts == <<saved, wiped, broken>>

NoFile == [by |-> 0, full |-> FALSE]
PCs == {"idle", "legacy", "create", "write", "remove", "close",
        "resolve", "readNew", "readLegacy", "validate"}
\* The file a process has created and not yet closed.
Writing == {"write", "remove", "close"}

TypeOK ==
    /\ file \in [Key -> [by : 0..MaxOps, full : BOOLEAN]]
    /\ legacy \in [Slug -> Key \cup {NoKey}]
    /\ pc \in [Proc -> PCs] /\ key \in [Proc -> Key]
    /\ op \in [Proc -> 0..MaxOps] /\ found \in [Proc -> 0..MaxOps]
    /\ res \in [Proc -> {"none", "saved", "exists", "loaded", "missing", "error"}]
    /\ ops \in 0..MaxOps /\ faults \in 0..MaxFaults
    /\ saved \in [Key -> 0..MaxOps]
    /\ wiped \in SUBSET Key /\ broken \in SUBSET (0..MaxOps)

\* A legacy file's name was derived from the key it records.
Init ==
    /\ file = [k \in Key |-> NoFile]
    /\ legacy \in [Slug -> Key \cup {NoKey}]
    /\ \A s \in Slug : legacy[s] # NoKey => SlugOf[legacy[s]] = s
    /\ pc = [p \in Proc |-> "idle"]
    /\ key \in [Proc -> {CHOOSE k \in Key : TRUE}]
    /\ op = [p \in Proc |-> 0] /\ found = [p \in Proc |-> 0]
    /\ res = [p \in Proc |-> "none"]
    /\ ops = 0 /\ faults = 0
    /\ saved = [k \in Key |-> 0] /\ wiped = {} /\ broken = {}

Goto(p, from, to) == pc[p] = from /\ pc' = [pc EXCEPT ![p] = to]
Return(p, r) == pc' = [pc EXCEPT ![p] = "idle"] /\ res' = [res EXCEPT ![p] = r]
Fault == faults < MaxFaults /\ faults' = faults + 1
LegacyKey(p) == legacy[SlugOf[key[p]]]

Call(p, k, first) ==
    /\ ops < MaxOps
    /\ Goto(p, "idle", first)
    /\ ops' = ops + 1
    /\ key' = [key EXCEPT ![p] = k]
    /\ op' = [op EXCEPT ![p] = ops + 1]
    /\ found' = [found EXCEPT ![p] = 0]
    /\ res' = [res EXCEPT ![p] = "none"]
    /\ UNCHANGED <<file, legacy, faults, ghosts>>

-----------------------------------------------------------------------------
(* SaveJSON. *)

Save(p, k) == Call(p, k, "legacy")

\* Mutant: legacy snapshots are not looked at.
IgnoreLegacy(p) == FALSE
\* rejectMatchingLegacySnapshot: the key already has a snapshot of old.
LegacyMatches(p) == LegacyKey(p) = key[p]

CheckLegacy(p) ==
    /\ pc[p] = "legacy"
    /\ IF LegacyMatches(p)
       THEN Return(p, "exists")
       ELSE Goto(p, "legacy", "create") /\ UNCHANGED res
    /\ UNCHANGED <<file, legacy, key, op, found, ops, faults, ghosts>>

\* O_EXCL.
Creatable(k) == file[k].by = 0

Create(p) ==
    /\ Creatable(key[p])
    /\ Goto(p, "create", "write")
    /\ file' = [file EXCEPT ![key[p]] = [by |-> op[p], full |-> FALSE]]
    /\ UNCHANGED <<legacy, key, op, found, res, ops, faults, ghosts>>

\* Mutant: the file at the path is removed after every failure.
CleanAlways(f, k) == [f EXCEPT ![k] = NoFile]
\* The deferred removal is registered only once the file was created.
AfterCreateError(f, k) == f

CreateExists(p) ==
    /\ pc[p] = "create" /\ ~Creatable(key[p])
    /\ file' = AfterCreateError(file, key[p])
    /\ Return(p, "exists")
    /\ UNCHANGED <<legacy, key, op, found, ops, faults, ghosts>>

\* The encoder writes the whole document, into the file it has open.
Write(p) ==
    /\ Goto(p, "write", "close")
    /\ file' = IF file[key[p]].by = op[p]
               THEN [file EXCEPT ![key[p]].full = TRUE] ELSE file
    /\ UNCHANGED <<legacy, key, op, found, res, ops, faults, ghosts>>

\* Mutant: a failed write goes straight to the close.
KeepPartial == "close"
\* Mutant: a failed write returns without the deferred cleanup and close.
SkipDeferred == "failed"
AfterWriteError == "remove"

FailWrite(p) ==
    /\ Fault
    /\ Goto(p, "write", AfterWriteError)
    /\ res' = [res EXCEPT ![p] = "error"]
    /\ UNCHANGED <<file, legacy, key, op, found, ops, ghosts>>

\* os.Remove by path.
Remove(p) ==
    /\ Goto(p, "remove", "close")
    /\ file' = [file EXCEPT ![key[p]] = NoFile]
    /\ UNCHANGED <<legacy, key, op, found, res, ops, faults, ghosts>>

\* What made the write fail may make the removal fail.
FailRemove(p) ==
    /\ Goto(p, "remove", "close")
    /\ broken' = broken \cup {op[p]}
    /\ UNCHANGED <<file, legacy, key, op, found, res, ops, faults, saved, wiped>>

Close(p) ==
    /\ pc[p] = "close"
    /\ IF res[p] = "error"
       THEN Return(p, "error") /\ UNCHANGED saved
       ELSE Return(p, "saved") /\ saved' = [saved EXCEPT ![key[p]] = op[p]]
    /\ UNCHANGED <<file, legacy, key, op, found, ops, faults, wiped, broken>>

\* A failing close turns success into an error and leaves the file behind.
FailClose(p) ==
    /\ Fault /\ pc[p] = "close"
    /\ Return(p, "error")
    /\ UNCHANGED <<file, legacy, key, op, found, ops, ghosts>>

\* The legacy file cannot be read, or the directory or the file not be opened.
FailOpen(p) ==
    /\ Fault /\ pc[p] \in {"legacy", "create"}
    /\ Return(p, "error")
    /\ UNCHANGED <<file, legacy, key, op, found, ops, ghosts>>

-----------------------------------------------------------------------------
(* LoadStoreSnapshot. *)

Load(p, k) == Call(p, k, "resolve")

Resolve(p) ==
    /\ Goto(p, "resolve", IF file[key[p]].by # 0 THEN "readNew" ELSE "readLegacy")
    /\ UNCHANGED <<file, legacy, key, op, found, res, ops, faults, ghosts>>

\* Decoding an incomplete document fails; a legacy file that records no key
\* fails the validation, and one that does not exist is told apart.
Read(p) ==
    /\ \/ /\ pc[p] = "readNew"
          /\ IF file[key[p]].full
             THEN /\ Goto(p, "readNew", "validate") /\ UNCHANGED res
                  /\ found' = [found EXCEPT ![p] = file[key[p]].by]
             ELSE /\ Return(p, IF file[key[p]].by = 0 THEN "missing" ELSE "error")
                  /\ UNCHANGED found
       \/ /\ pc[p] = "readLegacy" /\ UNCHANGED found
          /\ IF LegacyKey(p) # NoKey
             THEN Goto(p, "readLegacy", "validate") /\ UNCHANGED res
             ELSE \E r \in {"missing", "error"} : Return(p, r)
    /\ UNCHANGED <<file, legacy, key, op, ops, faults, ghosts>>

\* ValidateSnapshotKey; the file of a key records that key.
KeyAgrees(p) == found[p] # 0 \/ LegacyKey(p) = key[p]

Validate(p) ==
    /\ pc[p] = "validate"
    /\ Return(p, IF KeyAgrees(p) THEN "loaded" ELSE "error")
    /\ UNCHANGED <<file, legacy, key, op, found, ops, faults, ghosts>>

-----------------------------------------------------------------------------
(* The environment. *)

Crash(p) ==
    /\ Fault /\ pc[p] # "idle"
    /\ Return(p, "none")
    /\ broken' = IF pc[p] \in Writing THEN broken \cup {op[p]} ELSE broken
    /\ UNCHANGED <<file, legacy, key, op, found, ops, saved, wiped>>

Wipe(k) ==
    /\ Fault /\ file[k].by # 0
    /\ file' = [file EXCEPT ![k] = NoFile]
    /\ wiped' = wiped \cup {k}
    /\ UNCHANGED <<legacy, pc, key, op, found, res, ops, saved, broken>>

Next ==
    \/ \E p \in Proc :
        \/ \E k \in Key : Save(p, k) \/ Load(p, k)
        \/ CheckLegacy(p) \/ Create(p) \/ CreateExists(p) \/ Write(p) \/ FailWrite(p)
        \/ FailOpen(p) \/ Remove(p) \/ FailRemove(p) \/ Close(p) \/ FailClose(p)
        \/ Resolve(p) \/ Read(p) \/ Validate(p) \/ Crash(p)
    \/ \E k \in Key : Wipe(k)

Spec == Init /\ [][Next]_vars

-----------------------------------------------------------------------------
(* Properties. *)

\* A save that returned success stays loadable: no second save of the key, no
\* cleanup of a failed one and no crash of another process touches its file.
SavedStays ==
    \A k \in Key : saved[k] # 0 /\ k \notin wiped =>
        file[k] = [by |-> saved[k], full |-> TRUE]

\* An incomplete file is being written, or belongs to a save that died or
\* could not clean up: an error return removes it.
PartialIsExplained ==
    \A k \in Key : file[k].by # 0 /\ ~file[k].full =>
        \/ file[k].by \in broken
        \/ \E p \in Proc : pc[p] \in Writing /\ op[p] = file[k].by

\* A key has one snapshot, in its own file or in a legacy one, and that is the
\* one a load returns: never the snapshot of another key whose legacy file has
\* the requested key's name, and never the older of two.
OneSnapshot ==
    /\ \A k \in Key : legacy[SlugOf[k]] = k => file[k].by = 0
    /\ \A p \in Proc : res[p] = "loaded" =>
          IF found[p] = 0 THEN LegacyKey(p) = key[p] ELSE LegacyKey(p) # key[p]
=============================================================================
