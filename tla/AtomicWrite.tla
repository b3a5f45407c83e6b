----------------------------- MODULE AtomicWrite ------------------------------
(***************************************************************************)
(* The write functions of internal/safeio (write.go, atomic_write.go) on   *)
(* one path, as built for systems other than Windows.  The callers are the *)
(* analysis cache (publish its objects, replace its key files), codemods   *)
(* and dashboard output (replace), the OSV manifest (overwrite) and the    *)
(* profile command (exclusive, or fallback with --force).  A file is named *)
(* by the call that created it, and so is its content.                     *)
(***************************************************************************)
EXTENDS Naturals

CONSTANTS
    Writer,    \* calls of the write functions
    ModeOf,    \* which function each call is of
    None, Old, Foreign, Torn,
    MaxFaults  \* bound: I/O errors, crashes, and interference from outside

Modes == {"replace", "overwrite", "fallback", "publish", "exclusive"}
Inode == Writer \cup {Old, Foreign}
Content == Inode \cup {Torn}

ASSUME ConstantsAssumption ==
    /\ ModeOf \in [Writer -> Modes]
    /\ MaxFaults \in Nat
    /\ {None, Old, Foreign, Torn} \cap Writer = {}
    /\ None # Old /\ None # Foreign /\ None # Torn
    /\ Old # Foreign /\ Old # Torn /\ Foreign # Torn

VARIABLES
    target, \* the file at the path
    data,   \* the content of each file
    temps,  \* calls whose temporary name exists
    pc, res,
    pin,    \* the target a call saw first, and has open for writing
    faults,
    broken, \* ghost: calls that died, or whose removal of a file failed
    mixed   \* ghost: files that two calls wrote into at the same time

vars == <<target, data, temps, pc, res, pin, faults, broken, mixed>>

Replacing == {w \in Writer : ModeOf[w] \in {"replace", "fallback"}}
Fallback == {w \in Writer : ModeOf[w] = "fallback"}
\* All that rename their temporary file over the path.
Renaming == Replacing \cup {w \in Writer : ModeOf[w] = "overwrite"}
Publishing == {w \in Writer : ModeOf[w] = "publish"}
Exclusive == {w \in Writer : ModeOf[w] = "exclusive"}

PCs == {"lstat", "open", "temp", "write", "commit", "unlink", "verify", "cleanup",
        "revalidate", "truncate", "fill", "create", "fillNew", "check", "withdraw",
        "done"}

TypeOK ==
    /\ target \in Inode \cup {None}
    /\ data \in [Inode -> Content]
    /\ temps \in SUBSET Writer
    /\ pc \in [Writer -> PCs]
    /\ res \in [Writer -> {"none", "ok", "error"}]
    /\ pin \in [Writer -> Inode \cup {None}]
    /\ faults \in 0..MaxFaults
    /\ broken \in SUBSET Writer
    /\ mixed \in SUBSET Inode

Init ==
    /\ target \in {None, Old}
    /\ data = [i \in Inode |-> IF i \in Writer THEN Torn ELSE i]
    /\ temps = {}
    /\ pc = [w \in Writer |-> IF w \in Replacing \cup Exclusive THEN "lstat" ELSE "temp"]
    /\ res = [w \in Writer |-> "none"]
    /\ pin = [w \in Writer |-> None]
    /\ faults = 0 /\ broken = {} /\ mixed = {}

Goto(w, from, to) == pc[w] = from /\ pc' = [pc EXCEPT ![w] = to]
Fault == faults < MaxFaults /\ faults' = faults + 1
Result(w, r) == res' = [res EXCEPT ![w] = r]
\* Return without a deferred removal, and with one.
Return(w, from, r) == Goto(w, from, "done") /\ Result(w, r)
Defer(w, from, r) == Goto(w, from, "cleanup") /\ Result(w, r)
disk == <<target, data, temps>>
rest == <<pin, faults, broken, mixed>>

-----------------------------------------------------------------------------
(* resolvedWriteFilePerm and openPinnedReplacementTarget. *)

Lstat(w) ==
    /\ w \in Replacing
    /\ Goto(w, "lstat", IF target = None THEN "temp" ELSE "open")
    /\ pin' = [pin EXCEPT ![w] = target]
    /\ UNCHANGED <<disk, res, faults, broken, mixed>>

\* The file opened must be the one examined.
OpenTarget(w) ==
    /\ target = pin[w]
    /\ Goto(w, "open", "temp")
    /\ UNCHANGED <<disk, res, rest>>

OpenChanged(w) ==
    /\ target # pin[w]
    /\ Return(w, "open", "error")
    /\ UNCHANGED <<disk, rest>>

-----------------------------------------------------------------------------
(* The temporary file: createAtomicTempFile to snapshotAndCloseTempFile. *)

CreateTemp(w) ==
    /\ Goto(w, "temp", "write")
    /\ temps' = temps \cup {w}
    /\ UNCHANGED <<target, data, res, rest>>

WriteTemp(w) ==
    /\ Goto(w, "write", "commit")
    /\ data' = [data EXCEPT ![w] = w]
    /\ UNCHANGED <<target, temps, res, rest>>

\* The directory refuses a temporary file, or the rename of one: a call with
\* fallback that holds the existing file open writes into that.
MayOverwrite(w) == w \in Fallback /\ pin[w] # None

FallBack(w) ==
    /\ Fault /\ MayOverwrite(w)
    /\ Goto(w, "temp", "revalidate") \/ Goto(w, "commit", "revalidate")
    /\ UNCHANGED <<disk, res, pin, broken, mixed>>

\* Mutant: an error return leaves the temporary file.
ForgetTemp == "done"
\* Mutant: the deferred cleanup is lost.
SkipDeferred == "failed"
\* Error returns with the temporary file in place run its deferred removal.
AfterTempError == "cleanup"

FailTemp(w) ==
    /\ Fault
    /\ \/ Goto(w, "temp", "done")
       \/ Goto(w, "write", AfterTempError) \/ Goto(w, "commit", AfterTempError)
    /\ Result(w, "error")
    /\ UNCHANGED <<disk, pin, broken, mixed>>

Cleanup(w) ==
    /\ Goto(w, "cleanup", "done")
    /\ temps' = temps \ {w}
    /\ UNCHANGED <<target, data, res, rest>>

FailCleanup(w) ==
    /\ Fault
    /\ Return(w, "cleanup", "error")
    /\ broken' = broken \cup {w}
    /\ UNCHANGED <<disk, pin, mixed>>

-----------------------------------------------------------------------------
(* commit, Link and verifyCommittedTarget. *)

Rename(w) ==
    /\ w \in Renaming
    /\ Goto(w, "commit", "verify")
    /\ target' = w /\ temps' = temps \ {w}
    /\ UNCHANGED <<data, res, rest>>

\* Mutant: the temporary file is renamed over an existing one.
AlwaysFree == TRUE
\* A link never replaces a file.
PathFree == target = None

Link(w) ==
    /\ w \in Publishing /\ PathFree
    /\ Goto(w, "commit", "unlink")
    /\ target' = w
    /\ UNCHANGED <<data, temps, res, rest>>

LinkExists(w) ==
    /\ w \in Publishing /\ ~PathFree
    /\ Defer(w, "commit", "error")
    /\ UNCHANGED <<disk, rest>>

Unlink(w) ==
    /\ Goto(w, "unlink", "verify")
    /\ temps' = temps \ {w}
    /\ UNCHANGED <<target, data, res, rest>>

FailUnlink(w) ==
    /\ Fault
    /\ Defer(w, "unlink", "error")
    /\ UNCHANGED <<disk, pin, broken, mixed>>

Verify(w) ==
    /\ Return(w, "verify", IF target = w THEN "ok" ELSE "error")
    /\ UNCHANGED <<disk, rest>>

-----------------------------------------------------------------------------
(* overwritePinnedFile. *)

\* What a write from offset 0 leaves in a file: a mixture is possible when
\* somebody else wrote since the file was created or emptied.
Written(w, i) == IF data[i] = Torn THEN {w} ELSE {w, Torn}
Mixing(i) == mixed' = IF data[i] = Torn THEN mixed ELSE mixed \cup {i}

Revalidate(w) ==
    /\ IF target = pin[w]
       THEN Goto(w, "revalidate", "truncate") /\ UNCHANGED res
       ELSE Defer(w, "revalidate", "error")
    /\ UNCHANGED <<disk, rest>>

Truncate(w) ==
    /\ Goto(w, "truncate", "fill")
    /\ data' = [data EXCEPT ![pin[w]] = Torn]
    /\ UNCHANGED <<target, temps, res, rest>>

Fill(w) ==
    /\ Defer(w, "fill", "ok")
    /\ \E c \in Written(w, pin[w]) : data' = [data EXCEPT ![pin[w]] = c]
    /\ Mixing(pin[w])
    /\ UNCHANGED <<target, temps, pin, faults, broken>>

FailOverwrite(w) ==
    /\ Fault
    /\ \E from \in {"revalidate", "truncate", "fill"} : Defer(w, from, "error")
    /\ UNCHANGED <<disk, pin, broken, mixed>>

-----------------------------------------------------------------------------
(* writeFileIfAbsentAtRoot and createFileExclusivelyAtRoot. *)

LstatNew(w) ==
    /\ w \in Exclusive
    /\ IF target = None
       THEN Goto(w, "lstat", "create") /\ UNCHANGED res
       ELSE Return(w, "lstat", "error")
    /\ UNCHANGED <<disk, rest>>

Create(w) ==
    /\ IF target = None
       THEN Goto(w, "create", "fillNew") /\ target' = w /\ UNCHANGED res
       ELSE Return(w, "create", "error") /\ UNCHANGED target
    /\ UNCHANGED <<data, temps, rest>>

FillNew(w) ==
    /\ Goto(w, "fillNew", "check")
    /\ \E c \in Written(w, w) : data' = [data EXCEPT ![w] = c]
    /\ Mixing(w)
    /\ UNCHANGED <<target, temps, res, pin, faults, broken>>

\* Mutant: the incomplete file is left.
LeavePartial == "done"
AfterFillError == "withdraw"

FailFillNew(w) ==
    /\ Fault
    /\ Goto(w, "fillNew", AfterFillError)
    /\ Result(w, "error")
    /\ UNCHANGED <<disk, pin, broken, mixed>>

\* By name, whatever is there now.
Withdraw(w) ==
    /\ Goto(w, "withdraw", "done")
    /\ target' = None
    /\ UNCHANGED <<data, temps, res, rest>>

FailWithdraw(w) ==
    /\ Fault
    /\ Goto(w, "withdraw", "done")
    /\ broken' = broken \cup {w}
    /\ UNCHANGED <<disk, res, pin, mixed>>

Check(w) ==
    /\ Return(w, "check", IF target = w THEN "ok" ELSE "error")
    /\ UNCHANGED <<disk, rest>>

-----------------------------------------------------------------------------
(* Errors with nothing to clean up, and the environment. *)

FailEarly(w) ==
    /\ Fault
    /\ \E from \in {"lstat", "open", "create", "verify", "check"} :
          Return(w, from, "error")
    /\ UNCHANGED <<disk, pin, broken, mixed>>

Crash(w) ==
    /\ Fault /\ pc[w] # "done"
    /\ pc' = [pc EXCEPT ![w] = "done"]
    /\ Result(w, "error")
    /\ broken' = broken \cup {w}
    /\ UNCHANGED <<disk, pin, mixed>>

\* Somebody else removes the file or replaces it by a new one.
Outside ==
    /\ Fault
    /\ target' \in {None, Foreign} \ {target}
    /\ target' = Foreign => \A w \in Writer : pin[w] # Foreign
    /\ UNCHANGED <<data, temps, pc, res, pin, broken, mixed>>

Step(w) ==
    \/ Lstat(w) \/ OpenTarget(w) \/ OpenChanged(w) \/ CreateTemp(w) \/ WriteTemp(w)
    \/ FallBack(w) \/ FailTemp(w) \/ Cleanup(w) \/ FailCleanup(w) \/ Rename(w)
    \/ Link(w) \/ LinkExists(w) \/ Unlink(w) \/ FailUnlink(w) \/ Verify(w)
    \/ Revalidate(w) \/ Truncate(w) \/ Fill(w) \/ FailOverwrite(w)
    \/ LstatNew(w) \/ Create(w) \/ FillNew(w) \/ FailFillNew(w) \/ Withdraw(w)
    \/ FailWithdraw(w) \/ Check(w) \/ FailEarly(w) \/ Crash(w)

Next == (\E w \in Writer : Step(w)) \/ Outside

Spec == Init /\ [][Next]_vars

-----------------------------------------------------------------------------
(* Properties. *)

\* What a reader of the path sees, and how far each call has come.
File == IF target = None THEN None ELSE data[target]
Stage(w) ==
    CASE pc[w] \in {"unlink", "verify", "check"} -> "placed"
      [] pc[w] \in {"fill", "fillNew", "withdraw"} -> "open"
      [] pc[w] = "cleanup" -> IF res[w] = "ok" THEN "placed" ELSE "error"
      [] pc[w] = "done" -> res[w]
      [] OTHER -> "called"
Stages == [w \in Writer |-> Stage(w)]

A == INSTANCE AtomicFile WITH
        IfAbsent <- Publishing \cup Exclusive,
        InPlace <- Fallback \cup Exclusive,
        file <- File,
        st <- Stages

\* The write functions keep the promises of AtomicFile.
Implements == A!Spec

\* A reader meets an incomplete file only while a call writes into it, after
\* one that failed with nothing to restore, or died, or could not remove its
\* file, or after two calls wrote into one file at once.
TornIsExplained ==
    File = Torn =>
        \/ target \in mixed
        \/ \E w \in Exclusive :
              target = w /\ (pc[w] \in {"fillNew", "withdraw"} \/ w \in broken)
        \/ \E w \in Fallback :
              target = pin[w] /\ (pc[w] = "fill" \/ res[w] = "error")

\* No call returns and leaves its temporary file, unless its removal failed.
TempsRemoved == \A w \in temps : pc[w] = "done" => w \in broken
=============================================================================
