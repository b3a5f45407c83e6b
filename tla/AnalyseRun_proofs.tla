-------------------------- MODULE AnalyseRun_proofs --------------------------
(***************************************************************************)
(* Proofs about BaselineStore: for any number of processes, keys, legacy   *)
(* names, calls and faults, saved snapshots stay, incomplete files are     *)
(* explained, and loads return the key's only snapshot.  Then about        *)
(* AnalyseRun: the commands use the store as BaselineStore specifies it,   *)
(* so that its theorems hold of the composed system; what is filed under a *)
(* commit is of that commit; and the outcome of a command tells what it    *)
(* did to the files.                                                       *)
(***************************************************************************)
EXTENDS AnalyseRun, TLAPS

-----------------------------------------------------------------------------
(* The store of snapshots: the inductive invariant. *)

\* Calls are numbered in the order they start; no two running calls share a
\* number, and files and saves are of calls that have started.
Numbered ==
    /\ \A p \in Proc : op[p] <= ops /\ (pc[p] # "idle" => op[p] # 0)
    /\ \A p, q \in Proc : pc[p] # "idle" /\ p # q => op[p] # op[q]
    /\ \A k \in Key : file[k].by <= ops /\ (file[k].full => file[k].by # 0)
    /\ \A k \in Key : saved[k] <= ops

\* A file created by a call in progress is the one of its key, and the call
\* has not yet returned from the deferred cleanup and close of SaveJSON.
FileOfCall ==
    \A p \in Proc, k \in Key : pc[p] # "idle" =>
        /\ file[k].by = op[p] => k = key[p] /\ pc[p] \in Writing
        /\ saved[k] # op[p]

\* What the file of its key holds while a save has it open.
WriterInv(p) ==
    /\ pc[p] \in Writing \cup {"create"} => LegacyKey(p) # key[p]
    /\ pc[p] \in Writing => file[key[p]].by = op[p] \/ key[p] \in wiped
                            \/ (pc[p] = "close" /\ res[p] = "error")
    /\ pc[p] \in {"legacy", "create", "write"} => res[p] = "none"
    /\ pc[p] = "remove" => res[p] = "error"
    /\ pc[p] = "close" =>
          /\ res[p] # "error" /\ key[p] \notin wiped => file[key[p]].full
          /\ file[key[p]].by = op[p] /\ ~file[key[p]].full => op[p] \in broken

\* What a load has found.
ReaderInv(p) ==
    /\ found[p] # 0 => LegacyKey(p) # key[p]
    /\ res[p] = "loaded" /\ found[p] = 0 => LegacyKey(p) = key[p]

LegacyFirst == \A k \in Key : legacy[SlugOf[k]] = k => file[k].by = 0

IInv ==
    /\ TypeOK
    /\ Numbered /\ FileOfCall
    /\ \A p \in Proc : WriterInv(p) /\ ReaderInv(p)
    /\ LegacyFirst /\ SavedStays /\ PartialIsExplained

-----------------------------------------------------------------------------
\* No save has started and no load has found anything.
LEMMA InitInv == Init => IInv
  BY ConstantsAssumption
  DEF Init, IInv, TypeOK, Numbered, FileOfCall, WriterInv, ReaderInv, LegacyFirst,
      SavedStays, PartialIsExplained, NoFile, PCs, Writing, LegacyKey

\* A call gets a number of its own; nothing refers to that number yet.
LEMMA CallStep ==
  ASSUME IInv, NEW p \in Proc, NEW k \in Key, Save(p, k) \/ Load(p, k)
  PROVE  IInv'
  <1> PICK first \in {"legacy", "resolve"} : Call(p, k, first)
    BY DEF Save, Load
  <1> USE ConstantsAssumption DEF IInv, Call, Goto, ghosts
  <1>1. TypeOK' BY DEF TypeOK, PCs
  <1>2. Numbered' BY DEF TypeOK, Numbered
  <1>3. FileOfCall' BY DEF TypeOK, Numbered, FileOfCall
  <1>4. \A q \in Proc : WriterInv(q)' BY DEF TypeOK, WriterInv, Writing, LegacyKey
  <1>5. \A q \in Proc : ReaderInv(q)' BY DEF TypeOK, ReaderInv, LegacyKey
  <1>6. LegacyFirst' /\ SavedStays' BY DEF LegacyFirst, SavedStays
  <1>7. PartialIsExplained' BY DEF TypeOK, PartialIsExplained, Writing
  <1> QED BY <1>1, <1>2, <1>3, <1>4, <1>5, <1>6, <1>7

\* Steps that touch no file: the checks, the failures before a file exists,
\* and all of LoadStoreSnapshot.
LEMMA QuietStep ==
  ASSUME IInv, NEW p \in Proc,
         CheckLegacy(p) \/ CreateExists(p) \/ FailOpen(p) \/ Resolve(p) \/ Read(p) \/ Validate(p)
  PROVE  IInv'
  <1> USE ConstantsAssumption DEF IInv, Goto, Return, Fault, ghosts, TypeOK
  <1>0. file' = file /\ legacy' = legacy /\ key' = key /\ op' = op /\ ops' = ops
        /\ saved' = saved /\ wiped' = wiped /\ broken' = broken
        /\ pc[p] # "idle" /\ pc[p] \notin Writing /\ pc'[p] \notin Writing
        /\ \E s \in PCs : pc' = [pc EXCEPT ![p] = s]
    BY DEF CheckLegacy, CreateExists, AfterCreateError, FailOpen, Resolve, Read, Validate,
           Writing, PCs
  <1>1. TypeOK'
    <2>1. res' \in [Proc -> {"none", "saved", "exists", "loaded", "missing", "error"}]
      BY DEF CheckLegacy, CreateExists, FailOpen, Resolve, Read, Validate
    <2>2. found' \in [Proc -> 0..MaxOps]
      <3>1. file[key[p]].by \in 0..MaxOps OBVIOUS
      <3> QED BY <3>1 DEF CheckLegacy, CreateExists, FailOpen, Resolve, Read, Validate
    <2>3. faults' \in 0..MaxFaults
      BY DEF CheckLegacy, CreateExists, FailOpen, Resolve, Read, Validate
    <2>4. pc' \in [Proc -> PCs] BY <1>0
    <2> QED BY <1>0, <2>1, <2>2, <2>3, <2>4
  <1>2. Numbered' BY <1>0 DEF Numbered
  <1>3. FileOfCall' BY <1>0 DEF FileOfCall
  <1>4. ASSUME NEW q \in Proc PROVE WriterInv(q)'
    <2>1. CASE q = p
      BY <1>0, <2>1 DEF WriterInv, Writing, CheckLegacy, LegacyMatches, LegacyKey, CreateExists, FailOpen,
             Resolve, Read, Validate
    <2>2. CASE q # p
      <3>1. pc'[q] = pc[q] /\ res'[q] = res[q]
        BY <2>2 DEF CheckLegacy, CreateExists, FailOpen, Resolve, Read, Validate
      <3> QED BY <1>0, <3>1 DEF WriterInv, LegacyKey
    <2> QED BY <2>1, <2>2
  <1>5. ASSUME NEW q \in Proc PROVE ReaderInv(q)'
    BY <1>0 DEF ReaderInv, LegacyKey, CheckLegacy, CreateExists, FailOpen, Resolve,
           Read, Validate, KeyAgrees, LegacyFirst, Numbered
  <1>6. LegacyFirst' /\ SavedStays' BY <1>0 DEF LegacyFirst, SavedStays
  <1>7. PartialIsExplained' BY <1>0 DEF PartialIsExplained
  <1> QED BY <1>1, <1>2, <1>3, <1>4, <1>5, <1>6, <1>7

\* O_EXCL: nobody's snapshot is in the way of the new file.
LEMMA CreateStep == ASSUME IInv, NEW p \in Proc, Create(p) PROVE IInv'
  <1> USE DEF IInv
  <1>t. TypeOK BY DEF IInv
  <1>0. /\ key[p] \in Key /\ file[key[p]].by = 0 /\ ~file[key[p]].full
        /\ file'[key[p]].by = op[p] /\ ~file'[key[p]].full
        /\ \A k \in Key : k # key[p] => file'[k] = file[k]
        /\ pc[p] = "create" /\ pc'[p] = "write"
        /\ \A q \in Proc : q # p => pc'[q] = pc[q]
        /\ op[p] \in Nat /\ op[p] # 0 /\ op[p] <= ops
        /\ UNCHANGED <<legacy, key, op, found, res, ops, faults, saved, wiped, broken>>
    BY DEF TypeOK, Create, Creatable, Goto, ghosts, Numbered
  <1>1. TypeOK'
    <2>1. [by |-> op[p], full |-> FALSE] \in [by : 0..MaxOps, full : BOOLEAN]
      BY <1>t DEF TypeOK
    <2>2. file' \in [Key -> [by : 0..MaxOps, full : BOOLEAN]]
      BY <1>t, <2>1 DEF TypeOK, Create
    <2>3. pc' \in [Proc -> PCs] BY <1>t DEF TypeOK, Create, Goto, PCs
    <2> QED BY <1>t, <1>0, <2>2, <2>3 DEF TypeOK
  <1>2. Numbered' BY <1>0, <1>t DEF Numbered, TypeOK
  <1>3. FileOfCall' BY <1>0, <1>t DEF FileOfCall, Numbered, Writing, TypeOK
  <1>4. ASSUME NEW q \in Proc PROVE WriterInv(q)'
    <2>1. CASE q = p BY <1>0, <2>1 DEF WriterInv, LegacyKey, Writing
    <2>2. CASE q # p
      <3>1. pc[q] # "idle" => op[q] # op[p] /\ op[q] # 0 BY <1>0, <2>2 DEF Numbered
      <3>2. key[q] \in Key BY <1>t DEF TypeOK
      <3>3. CASE key[q] = key[p]
        BY <1>0, <2>2, <3>1, <3>3 DEF WriterInv, LegacyKey, Writing
      <3>4. CASE key[q] # key[p]
        <4>1. file'[key[q]] = file[key[q]] BY <1>0, <3>2, <3>4
        <4> QED BY <1>0, <2>2, <4>1 DEF WriterInv, LegacyKey, Writing
      <3> QED BY <3>3, <3>4
    <2> QED BY <2>1, <2>2
  <1>5. ASSUME NEW q \in Proc PROVE ReaderInv(q)' BY <1>0 DEF ReaderInv, LegacyKey
  <1>6. LegacyFirst' BY <1>0 DEF LegacyFirst, WriterInv, LegacyKey, Writing
  <1>7. SavedStays'
    <2>1. saved[key[p]] # 0 => key[p] \in wiped
      <3>1. saved[key[p]] # 0 /\ key[p] \notin wiped
              => file[key[p]] = [by |-> saved[key[p]], full |-> TRUE]
        BY <1>0 DEF SavedStays
      <3> QED BY <1>0, <3>1
    <2> QED BY <1>0, <2>1 DEF SavedStays
  <1>8. PartialIsExplained' BY <1>0 DEF PartialIsExplained, Writing
  <1> QED BY <1>1, <1>2, <1>3, <1>4, <1>5, <1>6, <1>7, <1>8

\* The encoder completes the file it has open, or fails.
LEMMA WriteStep == ASSUME IInv, NEW p \in Proc, Write(p) \/ FailWrite(p) PROVE IInv'
  <1> USE DEF IInv
  <1>t. TypeOK BY DEF IInv
  <1>0. /\ key[p] \in Key
        /\ \A k \in Key : file'[k].by = file[k].by
        /\ \A k \in Key : k # key[p] \/ file[k].by # op[p] => file'[k] = file[k]
        /\ \A k \in Key : file[k].full => file'[k] = file[k]
        /\ pc[p] = "write" /\ pc'[p] \in {"close", "remove"}
        /\ pc'[p] = "close" => /\ res' = res
                               /\ file[key[p]].by = op[p] => file'[key[p]].full
        /\ pc'[p] = "remove" => res'[p] = "error"
        /\ \A q \in Proc : q # p => pc'[q] = pc[q] /\ res'[q] = res[q]
        /\ op[p] \in Nat /\ op[p] # 0 /\ op[p] <= ops
        /\ UNCHANGED <<legacy, key, op, found, ops, saved, wiped, broken>>
    <2>1. CASE Write(p)
      <3>1. \A k \in Key : file[k] = [by |-> file[k].by, full |-> file[k].full]
        BY <1>t DEF TypeOK
      <3>2. \A k \in Key : file'[k] = IF k = key[p] /\ file[k].by = op[p]
                                      THEN [file[k] EXCEPT !.full = TRUE] ELSE file[k]
        BY <1>t, <2>1 DEF Write, TypeOK
      <3> QED BY <1>t, <2>1, <3>1, <3>2 DEF Write, Goto, ghosts, TypeOK, Numbered
    <2>2. CASE FailWrite(p)
      BY <1>t, <2>2 DEF FailWrite, AfterWriteError, Goto, ghosts, TypeOK, Numbered
    <2> QED BY <2>1, <2>2
  <1>1. TypeOK'
    <2>1. CASE Write(p)
      <3>1. [file[key[p]] EXCEPT !.full = TRUE] \in [by : 0..MaxOps, full : BOOLEAN]
        BY <1>t, <1>0 DEF TypeOK
      <3>2. file' \in [Key -> [by : 0..MaxOps, full : BOOLEAN]]
        BY <1>t, <2>1, <3>1 DEF TypeOK, Write
      <3> QED BY <1>t, <2>1, <3>2 DEF TypeOK, Write, Goto, ghosts, PCs
    <2>2. CASE FailWrite(p)
      BY <1>t, <2>2, ConstantsAssumption
      DEF TypeOK, FailWrite, AfterWriteError, Goto, Fault, ghosts, PCs
    <2> QED BY <2>1, <2>2
  <1>2. Numbered'
    <2>1. \A k \in Key : file'[k].full => file'[k].by # 0 BY <1>0 DEF Numbered
    <2> QED BY <1>0, <2>1 DEF Numbered
  <1>3. FileOfCall' BY <1>0 DEF FileOfCall, Writing
  <1>4. ASSUME NEW q \in Proc PROVE WriterInv(q)'
    <2>1. CASE q = p BY <1>0, <2>1 DEF WriterInv, LegacyKey, Writing
    <2>2. CASE q # p
      <3>1. pc[q] # "idle" => op[q] # op[p] BY <1>0, <2>2 DEF Numbered
      <3>2. key[q] \in Key BY <1>t DEF TypeOK
      <3>3. file'[key[q]].by = file[key[q]].by /\ (file[key[q]].full => file'[key[q]].full)
        BY <1>0, <3>2
      <3>4. file[key[q]].by = op[q] /\ pc[q] # "idle" => file'[key[q]] = file[key[q]]
        BY <1>0, <3>1, <3>2
      <3> QED BY <1>0, <2>2, <3>3, <3>4 DEF WriterInv, LegacyKey, Writing
    <2> QED BY <2>1, <2>2
  <1>5. ASSUME NEW q \in Proc PROVE ReaderInv(q)'
    BY <1>0 DEF ReaderInv, LegacyKey, WriterInv
  <1>6. LegacyFirst' BY <1>0 DEF LegacyFirst
  <1>7. SavedStays' BY <1>0 DEF SavedStays
  <1>8. PartialIsExplained' BY <1>0 DEF PartialIsExplained, Writing
  <1> QED BY <1>1, <1>2, <1>3, <1>4, <1>5, <1>6, <1>7, <1>8

\* The cleanup of a failed save removes its own file, unless it is gone.
LEMMA RemoveStep == ASSUME IInv, NEW p \in Proc, Remove(p) \/ FailRemove(p) PROVE IInv'
  <1> USE DEF IInv
  <1>t. TypeOK BY DEF IInv
  <1>0. /\ key[p] \in Key
        /\ \/ file'[key[p]] = NoFile
           \/ file'[key[p]] = file[key[p]] /\ op[p] \in broken'
        /\ \A k \in Key : k # key[p] => file'[k] = file[k]
        /\ pc[p] = "remove" /\ pc'[p] = "close" /\ res[p] = "error"
        /\ \A q \in Proc : q # p => pc'[q] = pc[q]
        /\ op[p] \in Nat /\ op[p] # 0 /\ op[p] <= ops
        /\ broken \subseteq broken'
        /\ UNCHANGED <<legacy, key, op, found, res, ops, saved, wiped>>
    BY <1>t DEF Remove, FailRemove, Goto, ghosts, TypeOK, Numbered, WriterInv
  <1>1. TypeOK'
    <2>1. NoFile \in [by : 0..MaxOps, full : BOOLEAN]
      BY ConstantsAssumption DEF NoFile
    <2>2. file' \in [Key -> [by : 0..MaxOps, full : BOOLEAN]]
      BY <1>t, <2>1 DEF TypeOK, Remove, FailRemove
    <2>3. pc' \in [Proc -> PCs]
      BY <1>t DEF TypeOK, Remove, FailRemove, Goto, PCs
    <2>4. broken' \in SUBSET (0..MaxOps)
      <3>1. op[p] \in 0..MaxOps BY <1>t DEF TypeOK
      <3> QED BY <1>t, <3>1 DEF TypeOK, Remove, FailRemove, ghosts
    <2>5. faults' \in 0..MaxFaults
      BY <1>t, ConstantsAssumption DEF TypeOK, Remove, FailRemove, Fault
    <2> QED BY <1>t, <1>0, <2>2, <2>3, <2>4, <2>5 DEF TypeOK
  <1>2. Numbered'
    <2>1. ASSUME NEW k \in Key
          PROVE  file'[k].by <= ops /\ (file'[k].full => file'[k].by # 0)
      <3>1. ops \in Nat BY <1>t DEF TypeOK
      <3> QED BY <1>0, <3>1 DEF Numbered, NoFile
    <2> QED BY <1>0, <2>1 DEF Numbered
  <1>3. FileOfCall'
    <2>1. \A q \in Proc : pc'[q] # "idle" => op[q] # 0 /\ pc[q] # "idle"
      BY <1>0 DEF Numbered
    <2> QED BY <1>0, <2>1 DEF FileOfCall, Writing, NoFile
  <1>4. ASSUME NEW q \in Proc PROVE WriterInv(q)'
    <2>1. CASE q = p BY <1>0, <2>1 DEF WriterInv, LegacyKey, Writing, NoFile
    <2>2. CASE q # p
      <3>1. key[q] \in Key /\ (pc[q] # "idle" => op[q] # op[p] /\ op[q] # 0)
        BY <1>0, <1>t, <2>2 DEF Numbered, TypeOK
      <3>2. CASE file'[key[q]] = file[key[q]]
        BY <1>0, <2>2, <3>1, <3>2 DEF WriterInv, LegacyKey, Writing
      <3>3. CASE file'[key[q]] # file[key[q]]
        <4>1. key[q] = key[p] /\ file'[key[q]] = NoFile BY <1>0, <3>1, <3>3
        <4>2. file[key[p]].by = op[p] \/ key[p] \in wiped
          BY <1>0 DEF WriterInv, Writing
        <4> QED BY <1>0, <2>2, <3>1, <4>1, <4>2 DEF WriterInv, LegacyKey, Writing, NoFile
      <3> QED BY <3>2, <3>3
    <2> QED BY <2>1, <2>2
  <1>5. ASSUME NEW q \in Proc PROVE ReaderInv(q)' BY <1>0 DEF ReaderInv, LegacyKey
  <1>6. LegacyFirst' BY <1>0 DEF LegacyFirst, NoFile
  <1>7. SavedStays'
    <2>1. file[key[p]].by = op[p] \/ key[p] \in wiped BY <1>0 DEF WriterInv, Writing
    <2>2. saved[key[p]] # op[p] BY <1>0 DEF FileOfCall
    <2>3. saved[key[p]] # 0 => key[p] \in wiped
      <3>1. saved[key[p]] # 0 /\ key[p] \notin wiped
              => file[key[p]] = [by |-> saved[key[p]], full |-> TRUE]
        BY <1>0 DEF SavedStays
      <3> QED BY <2>1, <2>2, <3>1
    <2> QED BY <1>0, <2>3 DEF SavedStays
  <1>8. PartialIsExplained'
    <2>1. \A q \in Proc : pc[q] \in Writing => pc'[q] \in Writing BY <1>0 DEF Writing
    <2> QED BY <1>0, <2>1 DEF PartialIsExplained, NoFile
  <1> QED BY <1>1, <1>2, <1>3, <1>4, <1>5, <1>6, <1>7, <1>8

\* The end of a save, in any way.
LEMMA EndStep ==
  ASSUME IInv, NEW p \in Proc, Close(p) \/ FailClose(p) \/ Crash(p)
  PROVE  IInv'
  <1> USE DEF IInv
  <1>t. TypeOK BY DEF IInv
  <1>0. /\ key[p] \in Key /\ pc[p] # "idle" /\ pc'[p] = "idle" /\ res'[p] # "loaded"
        /\ \A q \in Proc : q # p => pc'[q] = pc[q] /\ res'[q] = res[q]
        /\ op[p] \in 0..MaxOps /\ op[p] # 0 /\ op[p] <= ops
        /\ broken \subseteq broken'
        /\ UNCHANGED <<file, legacy, key, op, found, ops, wiped>>
        /\ saved' = saved \/ (/\ saved' = [saved EXCEPT ![key[p]] = op[p]]
                              /\ pc[p] = "close" /\ res[p] # "error")
        /\ pc[p] = "close" \/ (pc[p] \in Writing => op[p] \in broken')
    BY <1>t DEF Close, FailClose, Crash, Return, ghosts, TypeOK, Numbered, Writing
  <1>1. TypeOK'
    <2>1. res' \in [Proc -> {"none", "saved", "exists", "loaded", "missing", "error"}]
          /\ pc' \in [Proc -> PCs]
      BY <1>t DEF TypeOK, Close, FailClose, Crash, Return, PCs
    <2>2. broken' \in SUBSET (0..MaxOps)
      BY <1>0, <1>t DEF TypeOK, Close, FailClose, Crash, ghosts
    <2>3. saved' \in [Key -> 0..MaxOps] BY <1>0, <1>t DEF TypeOK
    <2>4. faults' \in 0..MaxFaults
      BY <1>t, ConstantsAssumption DEF TypeOK, Close, FailClose, Crash, Fault
    <2> QED BY <1>0, <1>t, <2>1, <2>2, <2>3, <2>4 DEF TypeOK
  <1>2. Numbered'
    <2>1. \A k \in Key : saved'[k] = saved[k] \/ saved'[k] = op[p]
      BY <1>0, <1>t DEF TypeOK
    <2> QED BY <1>0, <2>1 DEF Numbered
  <1>3. FileOfCall'
    <2>1. \A k \in Key : saved'[k] = saved[k] \/ saved'[k] = op[p]
      BY <1>0, <1>t DEF TypeOK
    <2> QED BY <1>0, <2>1 DEF FileOfCall, Numbered
  <1>4. ASSUME NEW q \in Proc PROVE WriterInv(q)'
    <2>1. CASE q = p BY <1>0, <2>1 DEF WriterInv, Writing
    <2>2. CASE q # p BY <1>0, <2>2 DEF WriterInv, LegacyKey, Writing
    <2> QED BY <2>1, <2>2
  <1>5. ASSUME NEW q \in Proc PROVE ReaderInv(q)' BY <1>0 DEF ReaderInv, LegacyKey
  <1>6. LegacyFirst' BY <1>0 DEF LegacyFirst
  <1>7. SavedStays'
    <2>1. CASE saved' = saved BY <1>0, <2>1 DEF SavedStays
    <2>2. CASE saved' # saved
      <3>1. (file[key[p]].by = op[p] /\ file[key[p]].full) \/ key[p] \in wiped
        BY <1>0, <2>2 DEF WriterInv, Writing
      <3>2. file[key[p]] = [by |-> file[key[p]].by, full |-> file[key[p]].full]
            /\ file[key[p]].full \in BOOLEAN
        BY <1>0, <1>t DEF TypeOK
      <3>3. \A k \in Key : saved'[k] = IF k = key[p] THEN op[p] ELSE saved[k]
        BY <1>0, <1>t, <2>2 DEF TypeOK
      <3> QED BY <1>0, <3>1, <3>2, <3>3 DEF SavedStays
    <2> QED BY <2>1, <2>2
  <1>8. PartialIsExplained'
    <2> SUFFICES ASSUME NEW k \in Key, file[k].by # 0, ~file[k].full
                 PROVE  \/ file[k].by \in broken'
                        \/ \E q \in Proc : pc'[q] \in Writing /\ op[q] = file[k].by
      BY <1>0 DEF PartialIsExplained
    <2>1. CASE file[k].by = op[p]
      <3>1. k = key[p] /\ pc[p] \in Writing BY <1>0, <2>1 DEF FileOfCall
      <3> QED BY <1>0, <2>1, <3>1 DEF WriterInv
    <2>2. CASE file[k].by # op[p] BY <1>0, <2>2 DEF PartialIsExplained
    <2> QED BY <2>1, <2>2
  <1> QED BY <1>1, <1>2, <1>3, <1>4, <1>5, <1>6, <1>7, <1>8

\* A deletion from outside.
LEMMA WipeStep == ASSUME IInv, NEW k \in Key, Wipe(k) PROVE IInv'
  <1> USE ConstantsAssumption DEF IInv, Wipe, NoFile, Fault, ghosts, TypeOK
  <1>1. TypeOK' OBVIOUS
  <1>2. Numbered' BY DEF Numbered
  <1>3. FileOfCall' BY DEF FileOfCall, Numbered
  <1>4. ASSUME NEW q \in Proc PROVE WriterInv(q)'
    BY DEF WriterInv, LegacyKey, Writing, Numbered
  <1>5. ASSUME NEW q \in Proc PROVE ReaderInv(q)' BY DEF ReaderInv, LegacyKey
  <1>6. LegacyFirst' BY DEF LegacyFirst
  <1>7. SavedStays' BY DEF SavedStays
  <1>8. PartialIsExplained' BY DEF PartialIsExplained, Writing
  <1> QED BY <1>1, <1>2, <1>3, <1>4, <1>5, <1>6, <1>7, <1>8

LEMMA StutterStep == ASSUME IInv, UNCHANGED vars PROVE IInv'
  BY DEF IInv, vars, TypeOK, Numbered, FileOfCall, WriterInv, ReaderInv, LegacyFirst,
         SavedStays, PartialIsExplained, LegacyKey

LEMMA NextInv == IInv /\ [Next]_vars => IInv'
  <1> SUFFICES ASSUME IInv, [Next]_vars PROVE IInv' OBVIOUS
  <1>1. ASSUME NEW p \in Proc, NEW k \in Key, Save(p, k) \/ Load(p, k) PROVE IInv'
    BY <1>1, CallStep
  <1>2. ASSUME NEW p \in Proc,
               CheckLegacy(p) \/ CreateExists(p) \/ FailOpen(p) \/ Resolve(p) \/ Read(p) \/ Validate(p)
        PROVE  IInv'
    BY <1>2, QuietStep
  <1>3. ASSUME NEW p \in Proc, Create(p) PROVE IInv' BY <1>3, CreateStep
  <1>4. ASSUME NEW p \in Proc, Write(p) \/ FailWrite(p) PROVE IInv' BY <1>4, WriteStep
  <1>5. ASSUME NEW p \in Proc, Remove(p) \/ FailRemove(p) PROVE IInv' BY <1>5, RemoveStep
  <1>6. ASSUME NEW p \in Proc, Close(p) \/ FailClose(p) \/ Crash(p) PROVE IInv'
    BY <1>6, EndStep
  <1>7. ASSUME NEW k \in Key, Wipe(k) PROVE IInv' BY <1>7, WipeStep
  <1>8. CASE UNCHANGED vars BY <1>8, StutterStep
  <1> QED BY <1>1, <1>2, <1>3, <1>4, <1>5, <1>6, <1>7, <1>8 DEF Next

-----------------------------------------------------------------------------
(* The theorems. *)

\* The invariant holds in every behaviour of the store.
THEOREM Invariance == Spec => []IInv
  <1> QED BY InitInv, NextInv, PTL DEF Spec

\* Type correctness.
THEOREM TypeCorrect == Spec => []TypeOK
  <1>1. IInv => TypeOK BY DEF IInv
  <1> QED BY <1>1, Invariance, PTL

\* SaveJSON never loses a snapshot it has reported as saved.
THEOREM SaveIsDurable == Spec => []SavedStays
  <1>1. IInv => SavedStays BY DEF IInv
  <1> QED BY <1>1, Invariance, PTL

\* SaveJSON leaves an incomplete file only where a process died or a removal
\* failed.
THEOREM PartialExplained == Spec => []PartialIsExplained
  <1>1. IInv => PartialIsExplained BY DEF IInv
  <1> QED BY <1>1, Invariance, PTL

\* LoadStoreSnapshot returns the only snapshot of the requested key.
THEOREM LoadsTheOnlySnapshot == Spec => []OneSnapshot
  <1>1. IInv => OneSnapshot BY DEF IInv, LegacyFirst, ReaderInv, OneSnapshot
  <1> QED BY <1>1, Invariance, PTL

-----------------------------------------------------------------------------
(* Type correctness, and the composition with the store. *)

\* The commands' own variables.
RunOnlyTypeOK ==
    /\ tree \in Trees /\ seen \in [Proc -> Trees]
    /\ stage \in [Proc -> Stages] /\ outcome \in [Proc -> Outcomes]
    /\ req \in [Proc -> Requests]
    /\ compared \in [Proc -> BOOLEAN] /\ fixed \in [Proc -> BOOLEAN]
    /\ stored \in [Proc -> BOOLEAN]
    /\ told \in [Proc -> {"no", "yes", "failed"}]
    /\ runs \in 0..MaxRuns /\ events \in 0..MaxEvents
    /\ raced \in SUBSET Proc
    /\ filed \in [0..MaxOps -> [report : Trees, req : Requests, raced : BOOLEAN]]

\* A key that a command uses is a key of the store.
LEMMA KeyType ==
  ASSUME RunOnlyTypeOK, NEW p \in Proc
  PROVE  BaselineKey(p) \in Key /\ SaveKey(p) \in Key
  <1>1. req[p] \in Requests /\ tree.at \in Key BY DEF RunOnlyTypeOK, Trees
  <1>2. req[p].key \in Key \cup {NoKey} /\ req[p].label \in Key \cup {NoKey}
    BY <1>1, RunAssumption
  <1> QED BY <1>1, <1>2 DEF BaselineKey, SaveKey

\* The store's view of a step of the commands: a call, a step or a death of the
\* store's specification, or nothing.
LEMMA StoreView ==
  ASSUME RunOnlyTypeOK, [RunNext]_allVars
  PROVE  [Next]_vars
  <1>1. ASSUME NEW p \in Proc, Compare(p) PROVE Next
    BY <1>1, KeyType DEF Compare, Next
  <1>2. ASSUME NEW p \in Proc, SaveBaseline(p) PROVE Next
    BY <1>2, KeyType DEF SaveBaseline, Next
  <1>3. ASSUME NEW p \in Proc, Die(p) PROVE [Next]_vars
    BY <1>3 DEF Die, Next
  <1>4. ASSUME StoreStep PROVE Next
    BY <1>4 DEF StoreStep, Next
  <1>5. ASSUME NEW p \in Proc, Deliver(p) PROVE UNCHANGED vars
    BY <1>5 DEF Deliver
  <1>6. ASSUME NEW p \in Proc,
               \/ \E r \in Requests : Start(p, r)
               \/ Prepare(p) \/ Analyse(p)
               \/ FailCompare(p) \/ CompareFile(p) \/ CompareNone(p) \/ Compared(p)
               \/ Gates(p) \/ Codemod(p) \/ NoSave(p) \/ CannotSave(p) \/ Saved(p)
        PROVE  UNCHANGED vars
    BY <1>6 DEF Start, Prepare, Analyse, FailCompare, CompareFile, CompareNone, Compared, Gates,
       Codemod, NoSave, CannotSave, Saved
  <1>7. ASSUME Edit \/ \E c \in Key : MoveHead(c) PROVE UNCHANGED vars
    BY <1>7 DEF Edit, MoveHead
  <1>8. CASE UNCHANGED allVars BY <1>8 DEF allVars
  <1> QED BY <1>1, <1>2, <1>3, <1>4, <1>5, <1>6, <1>7, <1>8 DEF RunNext

LEMMA RunInitType == RunInit => RunOnlyTypeOK
  <1> SUFFICES ASSUME RunInit PROVE RunOnlyTypeOK OBVIOUS
  <1>1. (CHOOSE k \in Key : TRUE) \in Key BY ConstantsAssumption
  <1>2. tree \in Trees BY <1>1 DEF RunInit, Trees
  <1>3. (CHOOSE r \in Requests : TRUE) \in Requests BY RunAssumption
  <1>4. NoFiling \in [report : Trees, req : Requests, raced : BOOLEAN]
    BY <1>2, <1>3 DEF NoFiling
  <1>5. filed \in [0..MaxOps -> [report : Trees, req : Requests, raced : BOOLEAN]]
    BY <1>4 DEF RunInit
  <1>6. req \in [Proc -> Requests] /\ seen \in [Proc -> Trees] BY <1>2, <1>3 DEF RunInit
  <1> QED BY <1>2, <1>5, <1>6, RunAssumption DEF RunInit, RunOnlyTypeOK, Stages, Outcomes

\* The steps of the commands.
LEMMA RunStepType ==
  ASSUME RunOnlyTypeOK, ops \in 0..MaxOps, NEW p \in Proc,
         \/ \E r \in Requests : Start(p, r)
         \/ Prepare(p) \/ Analyse(p)
         \/ Compare(p) \/ FailCompare(p) \/ CompareFile(p) \/ CompareNone(p) \/ Compared(p)
         \/ Gates(p) \/ Codemod(p)
         \/ SaveBaseline(p) \/ NoSave(p) \/ CannotSave(p) \/ Saved(p)
         \/ Deliver(p) \/ Die(p)
  PROVE  RunOnlyTypeOK'
  <1> USE RunAssumption DEF RunOnlyTypeOK, Enter, Stop, Stages, Outcomes, Event
  <1>1. ASSUME NEW r \in Requests, Start(p, r) PROVE RunOnlyTypeOK' BY <1>1 DEF Start
  <1>2. CASE Prepare(p) BY <1>2 DEF Prepare
  <1>3. CASE Analyse(p) BY <1>3 DEF Analyse
  <1>4. CASE Compare(p) BY <1>4 DEF Compare
  <1>5. CASE Compared(p) BY <1>5 DEF Compared
  <1>13. CASE FailCompare(p) BY <1>13 DEF FailCompare, NoCommit
  <1>14. CASE CompareFile(p) BY <1>14 DEF CompareFile
  <1>15. CASE CompareNone(p) BY <1>15 DEF CompareNone
  <1>16. CASE CannotSave(p) BY <1>16 DEF CannotSave, NoCommit
  <1>6. CASE Gates(p) BY <1>6 DEF Gates
  <1>7. CASE Codemod(p)
    <2>1. tree' \in Trees
      <3>1. tree' = tree \/ tree' = [tree EXCEPT !.edits = tree.edits \cup {"fix"}]
        BY <1>7 DEF Codemod
      <3> QED BY <3>1 DEF Trees
    <2>2. fixed' \in [Proc -> BOOLEAN] /\ raced' \in SUBSET Proc
      <3>1. fixed' = fixed \/ fixed' = [fixed EXCEPT ![p] = TRUE] BY <1>7 DEF Codemod
      <3>2. raced' = raced \/ raced' = raced \cup {q \in Proc \ {p} : stage[q] # "idle"}
        BY <1>7 DEF Codemod
      <3> QED BY <3>1, <3>2
    <2> QED BY <1>7, <2>1, <2>2 DEF Codemod
  <1>8. CASE SaveBaseline(p)
    <2>1. [report |-> SavedReport(p), req |-> req[p], raced |-> p \in raced]
            \in [report : Trees, req : Requests, raced : BOOLEAN]
      BY DEF SavedReport
    <2>2. filed' \in [0..MaxOps -> [report : Trees, req : Requests, raced : BOOLEAN]]
      BY <1>8, <2>1 DEF SaveBaseline
    <2> QED BY <1>8, <2>2 DEF SaveBaseline
  <1>9. CASE NoSave(p) BY <1>9 DEF NoSave
  <1>10. CASE Saved(p) BY <1>10 DEF Saved, SaveOutcome
  <1>11. CASE Deliver(p)
    <2>1. outcome' \in [Proc -> Outcomes] BY <1>11 DEF Deliver
    <2>2. told' \in [Proc -> {"no", "yes", "failed"}] /\ events' \in 0..MaxEvents
      BY <1>11 DEF Deliver
    <2> QED BY <1>11, <2>1, <2>2 DEF Deliver
  <1>12. CASE Die(p) BY <1>12 DEF Die
  <1> QED BY <1>1, <1>2, <1>3, <1>4, <1>5, <1>6, <1>7, <1>8, <1>9, <1>10, <1>11, <1>12,
             <1>13, <1>14, <1>15, <1>16

LEMMA RunNextType ==
  RunOnlyTypeOK /\ ops \in 0..MaxOps /\ [RunNext]_allVars => RunOnlyTypeOK'
  <1> SUFFICES ASSUME RunOnlyTypeOK, ops \in 0..MaxOps, [RunNext]_allVars
               PROVE  RunOnlyTypeOK'
    OBVIOUS
  <1>1. ASSUME Edit \/ \E c \in Key : MoveHead(c) PROVE RunOnlyTypeOK'
    <2>1. tree' \in Trees
      <3>1. CASE Edit BY <3>1 DEF Edit, RunOnlyTypeOK, Trees
      <3>2. ASSUME NEW c \in Key, MoveHead(c) PROVE tree' \in Trees
        BY <3>2 DEF MoveHead, RunOnlyTypeOK, Trees
      <3> QED BY <1>1, <3>1, <3>2
    <2> QED BY <1>1, <2>1, RunAssumption DEF RunOnlyTypeOK, Edit, MoveHead, Event, Running
  <1>2. CASE StoreStep BY <1>2 DEF StoreStep, runVars, RunOnlyTypeOK
  <1>3. CASE UNCHANGED allVars BY <1>3 DEF allVars, runVars, RunOnlyTypeOK
  <1> QED BY <1>1, <1>2, <1>3, RunStepType DEF RunNext

\* The invariant of the store holds of the composed system.
LEMMA StoreInvariance == RunSpec => [](IInv /\ RunOnlyTypeOK)
  <1>1. RunInit => IInv /\ RunOnlyTypeOK
    BY InitInv, RunInitType DEF RunInit
  <1>2. IInv /\ RunOnlyTypeOK /\ [RunNext]_allVars => (IInv /\ RunOnlyTypeOK)'
    <2>1. IInv => ops \in 0..MaxOps BY DEF IInv, TypeOK
    <2> QED BY <2>1, StoreView, NextInv, RunNextType
  <1> QED BY <1>1, <1>2, PTL DEF RunSpec

\* Type correctness of commands and store.
THEOREM RunTypeCorrect == RunSpec => []RunTypeOK
  <1>1. IInv /\ RunOnlyTypeOK => RunTypeOK BY DEF IInv, RunOnlyTypeOK, RunTypeOK
  <1> QED BY <1>1, StoreInvariance, PTL

\* The commands use the store as it is specified: hidden from their own
\* variables, the composed system is the store.
THEOREM RunUsesStore == RunSpec => Spec
  <1>1. RunInit => Init BY DEF RunInit
  <1>2. RunOnlyTypeOK /\ [RunNext]_allVars => [Next]_vars BY StoreView
  <1> QED BY <1>1, <1>2, StoreInvariance, PTL DEF RunSpec, Spec

\* saveBaselineIfNeeded: a snapshot that a command reported as saved stays.
THEOREM RunSavesStay == RunSpec => []SavedStays
  BY RunUsesStore, SaveIsDurable, PTL

\* An incomplete snapshot in a store that commands use is explained.
THEOREM RunPartialExplained == RunSpec => []PartialIsExplained
  BY RunUsesStore, PartialExplained, PTL

\* applyBaselineIfNeeded compares with the only snapshot of the key.
THEOREM RunComparesWithTheOnly == RunSpec => []OneSnapshot
  BY RunUsesStore, LoadsTheOnlySnapshot, PTL

-----------------------------------------------------------------------------
(* What is filed under a commit. *)

\* The calls of SaveJSON, and of LoadStoreSnapshot.
Saving == {"legacy", "create", "write", "remove", "close"}
Loading == {"resolve", "readNew", "readLegacy", "validate"}

\* A report that may be filed under a key.
FilingOK(f, k) ==
    /\ f.req.label # NoKey => k = f.req.label
    /\ f.req.label = NoKey /\ f.req.key # NoKey => k = f.req.key
    /\ ~f.raced =>
        /\ f.req.label = NoKey /\ f.req.key = NoKey => f.report.at = k
        /\ f.req.apply /\ ~f.req.allowDirty => f.report.edits = {}

\* What a command knows of the tree while nobody else has changed it.
SeenInv(p) ==
    p \notin raced =>
        /\ stage[p] = "analyse" /\ req[p].apply /\ ~req[p].allowDirty => tree.edits = {}
        /\ stage[p] \in {"compare", "comparing", "gates", "codemod", "save"} =>
              /\ seen[p].at = tree.at
              /\ req[p].apply /\ ~req[p].allowDirty => seen[p].edits = {}

FiledInv ==
    /\ \A p \in Proc : SeenInv(p)
    /\ \A p \in Proc : pc[p] \in Saving => FilingOK(filed[op[p]], key[p])
    /\ \A k \in Key : saved[k] # 0 => FilingOK(filed[saved[k]], k)

LEMMA FiledInit == RunInit => FiledInv
  BY DEF RunInit, Init, FiledInv, SeenInv, Saving

\* What a step of the store does to the call of a command.
LEMMA StoreEffect ==
  ASSUME IInv, StoreStep
  PROVE  /\ UNCHANGED <<key, op, runVars>>
         /\ \A q \in Proc :
            \/ pc'[q] = pc[q] /\ res'[q] = res[q]
            \/ /\ pc[q] \in Saving /\ pc'[q] \in Saving \cup {"idle"}
               /\ pc'[q] = "idle" /\ res'[q] = "saved" => saved'[key[q]] = op[q]
            \/ /\ pc[q] \in Loading /\ pc'[q] \in Loading \cup {"idle"}
               /\ res'[q] \in {res[q], "loaded", "missing", "error"}
         /\ \A k \in Key : saved'[k] = saved[k]
               \/ \E p \in Proc : pc[p] \in Saving /\ key[p] = k /\ saved'[k] = op[p]
  <1> USE DEF IInv, TypeOK, ghosts, Goto, Return
  <1>1. UNCHANGED runVars BY DEF StoreStep
  <1>2. ASSUME NEW p \in Proc,
               CheckLegacy(p) \/ Create(p) \/ CreateExists(p) \/ FailOpen(p)
        PROVE  /\ UNCHANGED <<key, op, saved>>
               /\ \E s \in {"create", "write", "idle"} : pc' = [pc EXCEPT ![p] = s]
               /\ pc[p] \in {"legacy", "create"}
               /\ \/ res' = res \/ \E r \in {"exists", "error"} : res' = [res EXCEPT ![p] = r]
               /\ pc'[p] = "idle" => res'[p] # "saved"
    BY <1>2 DEF CheckLegacy, Create, CreateExists, FailOpen
  <1>3. ASSUME NEW p \in Proc,
               Write(p) \/ FailWrite(p) \/ Remove(p) \/ FailRemove(p)
        PROVE  /\ UNCHANGED <<key, op, saved>>
               /\ \E s \in {"remove", "close"} : pc' = [pc EXCEPT ![p] = s]
               /\ pc[p] \in {"write", "remove"}
               /\ \/ res' = res \/ res' = [res EXCEPT ![p] = "error"]
    BY <1>3 DEF Write, FailWrite, AfterWriteError, Remove, FailRemove
  <1>4. ASSUME NEW p \in Proc, Close(p) \/ FailClose(p)
        PROVE  /\ UNCHANGED <<key, op>>
               /\ pc' = [pc EXCEPT ![p] = "idle"] /\ pc[p] = "close"
               /\ \/ res' = [res EXCEPT ![p] = "error"] /\ saved' = saved
                  \/ /\ res' = [res EXCEPT ![p] = "saved"]
                     /\ saved' = [saved EXCEPT ![key[p]] = op[p]]
    BY <1>4 DEF Close, FailClose
  <1>5. ASSUME NEW p \in Proc, Resolve(p) \/ Read(p) \/ Validate(p)
        PROVE  /\ UNCHANGED <<key, op, saved>>
               /\ \E s \in {"readNew", "readLegacy", "validate", "idle"} : pc' = [pc EXCEPT ![p] = s]
               /\ pc[p] \in Loading
               /\ \/ res' = res
                  \/ \E r \in {"loaded", "missing", "error"} : res' = [res EXCEPT ![p] = r]
    BY <1>5 DEF Resolve, Read, Validate, Loading
  <1>6. ASSUME NEW k \in Key, Wipe(k) PROVE UNCHANGED <<key, op, pc, res, saved>>
    BY <1>6 DEF Wipe
  <1>7. CASE \E p \in Proc : CheckLegacy(p) \/ Create(p) \/ CreateExists(p) \/ FailOpen(p)
    BY <1>1, <1>2, <1>7 DEF Saving
  <1>8. CASE \E p \in Proc : Write(p) \/ FailWrite(p) \/ Remove(p) \/ FailRemove(p)
    BY <1>1, <1>3, <1>8 DEF Saving
  <1>9. CASE \E p \in Proc : Close(p) \/ FailClose(p)
    BY <1>1, <1>4, <1>9 DEF Saving
  <1>10. CASE \E p \in Proc : Resolve(p) \/ Read(p) \/ Validate(p)
    BY <1>1, <1>5, <1>10 DEF Loading
  <1>11. CASE \E k \in Key : Wipe(k) BY <1>1, <1>6, <1>11
  <1> QED BY <1>7, <1>8, <1>9, <1>10, <1>11 DEF StoreStep

\* What a command has read is still so, unless somebody else changed it.
LEMMA SeenStep ==
  ASSUME RunOnlyTypeOK, \A p \in Proc : SeenInv(p), [RunNext]_allVars, NEW q \in Proc
  PROVE  SeenInv(q)'
  <1> USE DEF RunOnlyTypeOK, SeenInv, Enter, Stop
  <1>1. ASSUME NEW p \in Proc, \E r \in Requests : Start(p, r) PROVE SeenInv(q)'
    BY <1>1 DEF Start
  <1>2. ASSUME NEW p \in Proc, Prepare(p) PROVE SeenInv(q)'
    BY <1>2 DEF Prepare, DirtyForCodemod
  <1>3. ASSUME NEW p \in Proc, Analyse(p) PROVE SeenInv(q)' BY <1>3 DEF Analyse
  <1>4. ASSUME NEW p \in Proc, Compare(p) PROVE SeenInv(q)' BY <1>4 DEF Compare
  <1>5. ASSUME NEW p \in Proc,
               FailCompare(p) \/ CompareFile(p) \/ CompareNone(p) \/ Compared(p)
        PROVE  SeenInv(q)'
    BY <1>5 DEF FailCompare, CompareFile, CompareNone, Compared
  <1>6. ASSUME NEW p \in Proc, Gates(p) PROVE SeenInv(q)' BY <1>6 DEF Gates
  <1>7. ASSUME NEW p \in Proc, Codemod(p) PROVE SeenInv(q)'
    <2>1. tree'.at = tree.at
      <3>1. tree' = tree \/ tree' = [tree EXCEPT !.edits = tree.edits \cup {"fix"}]
        BY <1>7 DEF Codemod
      <3> QED BY <3>1 DEF Trees
    <2>2. CASE q = p BY <1>7, <2>1, <2>2 DEF Codemod
    <2>3. CASE q # p
      <3>1. stage'[q] = stage[q] /\ seen' = seen /\ req' = req BY <1>7, <2>3 DEF Codemod
      <3>2. (tree' = tree /\ raced' = raced) \/ stage[q] = "idle" \/ q \in raced'
        BY <1>7, <2>3 DEF Codemod
      <3>3. q \in raced => q \in raced' BY <1>7 DEF Codemod
      <3> QED BY <3>1, <3>2, <3>3
    <2> QED BY <2>2, <2>3
  <1>8. ASSUME NEW p \in Proc, SaveBaseline(p) \/ NoSave(p) \/ CannotSave(p) \/ Saved(p)
        PROVE  SeenInv(q)'
    BY <1>8 DEF SaveBaseline, NoSave, CannotSave, Saved
  <1>9. ASSUME NEW p \in Proc, Deliver(p) PROVE SeenInv(q)'
    <2>1. UNCHANGED <<tree, req, seen, raced>> /\ stage' = [stage EXCEPT ![p] = "idle"]
      BY <1>9 DEF Deliver
    <2> QED BY <2>1
  <1>10. ASSUME NEW p \in Proc, Die(p) PROVE SeenInv(q)' BY <1>10 DEF Die
  <1>11. CASE StoreStep BY <1>11 DEF StoreStep, runVars
  <1>12. CASE Edit \/ \E c \in Key : MoveHead(c)
    <2>1. raced' = raced \cup {p \in Proc : stage[p] # "idle"} /\ UNCHANGED <<stage, req, seen>>
      BY <1>12 DEF Edit, MoveHead, Running
    <2> QED BY <2>1
  <1>13. CASE UNCHANGED allVars BY <1>13 DEF allVars, runVars
  <1> QED BY <1>1, <1>2, <1>3, <1>4, <1>5, <1>6, <1>7, <1>8, <1>9, <1>10, <1>11, <1>12, <1>13
          DEF RunNext

\* A filing is made by SaveBaseline under a number of its own; the store moves
\* it from the call to the key.
LEMMA FilingStep ==
  ASSUME IInv, RunOnlyTypeOK, FiledInv, [RunNext]_allVars
  PROVE  /\ \A p \in Proc : pc'[p] \in Saving => FilingOK(filed'[op'[p]], key'[p])
         /\ \A k \in Key : saved'[k] # 0 => FilingOK(filed'[saved'[k]], k)
  <1>t. TypeOK /\ Numbered BY DEF IInv
  <1>1. ASSUME NEW p \in Proc, Compare(p)
        PROVE  /\ \A q \in Proc : pc'[q] \in Saving => FilingOK(filed'[op'[q]], key'[q])
               /\ \A k \in Key : saved'[k] # 0 => FilingOK(filed'[saved'[k]], k)
    <2>1. /\ pc'[p] = "resolve" /\ UNCHANGED <<saved, filed>>
          /\ \A q \in Proc : q # p => pc'[q] = pc[q] /\ op'[q] = op[q] /\ key'[q] = key[q]
      BY <1>1, <1>t DEF Compare, Load, Call, Goto, ghosts, TypeOK
    <2> QED BY <2>1 DEF FiledInv, Saving
  <1>2. ASSUME NEW p \in Proc, SaveBaseline(p)
        PROVE  /\ \A q \in Proc : pc'[q] \in Saving => FilingOK(filed'[op'[q]], key'[q])
               /\ \A k \in Key : saved'[k] # 0 => FilingOK(filed'[saved'[k]], k)
    <2> DEFINE new == [report |-> seen[p], req |-> req[p], raced |-> p \in raced]
    <2>1. /\ op'[p] = ops + 1 /\ key'[p] = SaveKey(p) /\ UNCHANGED saved
          /\ \A q \in Proc : q # p => pc'[q] = pc[q] /\ op'[q] = op[q] /\ key'[q] = key[q]
          /\ ops + 1 \in 0..MaxOps /\ stage[p] = "save"
      BY <1>2, <1>t, ConstantsAssumption
      DEF SaveBaseline, Enter, Save, Call, Goto, ghosts, TypeOK
    <2>2. filed' = [filed EXCEPT ![ops + 1] = new]
      BY <1>2 DEF SaveBaseline, SavedReport
    <2>3. filed'[ops + 1] = new /\ \A o \in 0..ops : filed'[o] = filed[o]
      BY <2>1, <2>2, <1>t DEF RunOnlyTypeOK, TypeOK
    <2>4. FilingOK(new, SaveKey(p))
      BY <2>1 DEF FiledInv, SeenInv, FilingOK, SaveKey, BaselineKey
    <2>5. \A q \in Proc : op[q] \in 0..ops BY <1>t DEF Numbered, TypeOK
    <2>6. \A k \in Key : saved[k] \in 0..ops BY <1>t DEF Numbered, TypeOK
    <2> HIDE DEF new
    <2> QED BY <2>1, <2>3, <2>4, <2>5, <2>6 DEF FiledInv
  <1>3. CASE StoreStep
    <2>1. UNCHANGED <<key, op, filed>> BY <1>3, StoreEffect DEF runVars
    <2>2. \A q \in Proc : pc'[q] \in Saving => pc[q] \in Saving
      BY <1>3, StoreEffect DEF Saving, Loading
    <2>3. \A k \in Key : saved'[k] = saved[k]
             \/ \E p \in Proc : pc[p] \in Saving /\ key[p] = k /\ saved'[k] = op[p]
      BY <1>3, StoreEffect
    <2> QED BY <2>1, <2>2, <2>3 DEF FiledInv
  <1>4. ASSUME NEW p \in Proc, Die(p)
        PROVE  /\ \A q \in Proc : pc'[q] \in Saving => FilingOK(filed'[op'[q]], key'[q])
               /\ \A k \in Key : saved'[k] # 0 => FilingOK(filed'[saved'[k]], k)
    <2>1. /\ UNCHANGED <<key, op, saved, filed>>
          /\ \A q \in Proc : pc'[q] \in Saving => pc[q] \in Saving
      BY <1>4, <1>t DEF Die, Crash, Return, TypeOK, Saving, vars, ghosts
    <2> QED BY <2>1 DEF FiledInv
  <1>5. CASE UNCHANGED <<pc, key, op, saved, filed>> BY <1>5 DEF FiledInv
  <1>6. ASSUME NEW p \in Proc,
               \/ \E r \in Requests : Start(p, r)
               \/ Prepare(p) \/ Analyse(p)
               \/ FailCompare(p) \/ CompareFile(p) \/ CompareNone(p) \/ Compared(p)
               \/ Gates(p) \/ Codemod(p) \/ NoSave(p) \/ CannotSave(p) \/ Saved(p)
        PROVE  UNCHANGED <<pc, key, op, saved, filed>>
    BY <1>6 DEF Start, Prepare, Analyse, FailCompare, CompareFile, CompareNone, Compared, Gates,
       Codemod, NoSave, CannotSave, Saved, vars, ghosts
  <1>7. ASSUME NEW p \in Proc, Deliver(p) PROVE UNCHANGED <<pc, key, op, saved, filed>>
    BY <1>7 DEF Deliver, vars, ghosts
  <1>8. CASE Edit \/ \E c \in Key : MoveHead(c)
    BY <1>5, <1>8 DEF Edit, MoveHead, vars, ghosts
  <1>9. CASE UNCHANGED allVars BY <1>5, <1>9 DEF allVars, runVars, vars, ghosts
  <1> QED BY <1>1, <1>2, <1>3, <1>4, <1>5, <1>6, <1>7, <1>8, <1>9 DEF RunNext

LEMMA FiledInvariance == RunSpec => []FiledInv
  <1>1. IInv /\ RunOnlyTypeOK /\ FiledInv /\ [RunNext]_allVars => FiledInv'
    <2> SUFFICES ASSUME IInv, RunOnlyTypeOK, FiledInv, [RunNext]_allVars PROVE FiledInv'
      OBVIOUS
    <2>1. \A q \in Proc : SeenInv(q)' BY SeenStep DEF FiledInv
    <2> QED BY <2>1, FilingStep DEF FiledInv
  <1> QED BY <1>1, FiledInit, StoreInvariance, PTL DEF RunSpec

\* saveImmutableBaselineSnapshot: what is filed under a commit is the report of
\* that commit, whenever the key is resolved.
THEOREM FiledUnderItsCommit == RunSpec => []SnapshotOfCommit
  <1>1. FiledInv => SnapshotOfCommit BY DEF FiledInv, SnapshotOfCommit, FilingOK
  <1> QED BY <1>1, FiledInvariance, PTL

-----------------------------------------------------------------------------
(* The outcome of a command. *)

\* The call of the store that a stage makes.
CallInv(p) ==
    /\ stage[p] = "comparing" => pc[p] \in Loading \cup {"idle"}
    /\ stage[p] = "saving" => pc[p] \in Saving \cup {"idle"}
    /\ stage[p] \notin {"comparing", "saving"} => pc[p] = "idle"

\* What the stages have done to the files, and passed, so far.
ProgressInv(p) ==
    /\ stage[p] \in {"prepare", "analyse", "compare", "comparing", "gates", "codemod"}
          => ~fixed[p]
    /\ stage[p] \in {"prepare", "analyse", "compare", "comparing", "gates", "codemod", "save"}
          => ~stored[p]
    /\ stage[p] \in {"codemod", "save", "saving"} => MayPass(p)
    /\ stage[p] \notin {"idle", "deliver"} => outcome[p] = "none"
    /\ outcome[p] \in {"dirty", "baseline", "gate"} => ~fixed[p] /\ ~stored[p]
    /\ outcome[p] = "ok" => MayPass(p)
    /\ stage[p] = "idle" /\ outcome[p] # "none" /\ fixed[p] => told[p] # "no"

\* The snapshot of the command's last call is in the store, or was deleted by
\* somebody.
Kept(p) == (op[p] # 0 /\ saved[key[p]] = op[p]) \/ key[p] \in wiped
Succeeded(p) ==
    \/ outcome[p] = "ok" /\ req[p].save
    \/ stage[p] = "saving" /\ pc[p] = "idle" /\ res[p] = "saved"
KeptInv(p) == Succeeded(p) => Kept(p)

OutcomeInv == \A p \in Proc : CallInv(p) /\ ProgressInv(p) /\ KeptInv(p)

LEMMA OutcomeInit == RunInit => OutcomeInv
  BY DEF RunInit, Init, OutcomeInv, CallInv, ProgressInv, KeptInv, Succeeded, Loading

LEMMA CallStepInv ==
  ASSUME IInv, RunOnlyTypeOK, \A p \in Proc : CallInv(p) /\ ProgressInv(p),
         [RunNext]_allVars, NEW q \in Proc
  PROVE  CallInv(q)'
  <1>t. TypeOK BY DEF IInv
  <1> USE DEF RunOnlyTypeOK, CallInv, Enter, Stop
  <1>1. ASSUME NEW p \in Proc,
               \/ \E r \in Requests : Start(p, r)
               \/ Prepare(p) \/ Analyse(p)
        PROVE  CallInv(q)'
    BY <1>1 DEF Start, Prepare, Analyse, ProgressInv, vars
  <1>2. ASSUME NEW p \in Proc,
               \/ FailCompare(p) \/ CompareFile(p) \/ CompareNone(p) \/ Compared(p) \/ Gates(p)
        PROVE  CallInv(q)'
    BY <1>2 DEF FailCompare, CompareFile, CompareNone, Compared, Gates, ProgressInv, vars
  <1>3. ASSUME NEW p \in Proc, Codemod(p) PROVE CallInv(q)'
    <2>1. /\ UNCHANGED <<pc, res>> /\ stage[p] = "codemod"
          /\ \/ stage' = [stage EXCEPT ![p] = "save"] /\ UNCHANGED outcome
             \/ /\ stage' = [stage EXCEPT ![p] = "deliver"]
                /\ outcome' = [outcome EXCEPT ![p] = "codemod"]
      BY <1>3 DEF Codemod, vars
    <2> QED BY <2>1
  <1>4. ASSUME NEW p \in Proc, NoSave(p) \/ CannotSave(p) \/ Saved(p) PROVE CallInv(q)'
    BY <1>4 DEF NoSave, CannotSave, Saved, vars
  <1>5. ASSUME NEW p \in Proc, Compare(p) \/ SaveBaseline(p) PROVE CallInv(q)'
    <2>1. /\ \/ stage'[p] = "comparing" /\ pc' = [pc EXCEPT ![p] = "resolve"]
             \/ stage'[p] = "saving" /\ pc' = [pc EXCEPT ![p] = "legacy"]
          /\ res' = [res EXCEPT ![p] = "none"] /\ outcome' = outcome
          /\ \A r \in Proc : r # p => stage'[r] = stage[r]
      BY <1>5 DEF Compare, SaveBaseline, Load, Save, Call, Goto
    <2> QED BY <1>t, <2>1 DEF TypeOK, Loading, Saving
  <1>6. ASSUME NEW p \in Proc, Deliver(p) PROVE CallInv(q)'
    <2>1. /\ UNCHANGED <<pc, res>> /\ stage[p] = "deliver"
          /\ stage' = [stage EXCEPT ![p] = "idle"]
          /\ \/ outcome' = outcome \/ outcome' = [outcome EXCEPT ![p] = "error"]
             \/ outcome' = [outcome EXCEPT ![p] = IF @ = "ok" THEN "error" ELSE @]
      BY <1>6 DEF Deliver, vars
    <2> QED BY <2>1
  <1>7. ASSUME NEW p \in Proc, Die(p) PROVE CallInv(q)'
    <2>1. /\ pc' = [pc EXCEPT ![p] = "idle"]
          /\ res' = res \/ res' = [res EXCEPT ![p] = "none"]
          /\ stage' = [stage EXCEPT ![p] = "idle"]
          /\ outcome' = [outcome EXCEPT ![p] = "none"]
      BY <1>7, <1>t DEF Die, Crash, Return, vars, TypeOK
    <2>2. pc'[p] = "idle" /\ stage'[p] = "idle" /\ outcome'[p] = "none"
      BY <1>t, <2>1 DEF TypeOK
    <2>3. CASE q = p BY <2>2, <2>3
    <2>4. CASE q # p
      <3>1. UNCHANGED <<pc[q], res[q], stage[q], outcome[q]>> BY <1>t, <2>1, <2>4 DEF TypeOK
      <3> QED BY <3>1
    <2> QED BY <2>3, <2>4
  <1>8. CASE StoreStep
    <2>1. stage' = stage /\ outcome' = outcome BY <1>8, StoreEffect DEF runVars
    <2>2. \/ pc'[q] = pc[q] /\ res'[q] = res[q]
          \/ pc[q] \in Saving /\ pc'[q] \in Saving \cup {"idle"}
          \/ /\ pc[q] \in Loading /\ pc'[q] \in Loading \cup {"idle"}
             /\ res'[q] \in {res[q], "loaded", "missing", "error"}
      BY <1>8, StoreEffect
    <2>3. pc[q] \in Saving => stage[q] = "saving" BY DEF Saving, Loading
    <2>4. pc[q] \in Loading => stage[q] = "comparing" BY DEF Saving, Loading
    <2>5. stage[q] \in {"comparing", "saving"} => outcome[q] = "none" BY DEF ProgressInv
    <2>6. CASE pc'[q] = pc[q] /\ res'[q] = res[q] BY <2>1, <2>6
    <2>7. CASE pc[q] \in Saving /\ pc'[q] \in Saving \cup {"idle"}
      BY <2>1, <2>3, <2>5, <2>7
    <2>8. CASE /\ pc[q] \in Loading /\ pc'[q] \in Loading \cup {"idle"}
               /\ res'[q] \in {res[q], "loaded", "missing", "error"}
      BY <2>1, <2>4, <2>5, <2>8
    <2> QED BY <2>2, <2>6, <2>7, <2>8
  <1>9. CASE Edit \/ (\E c \in Key : MoveHead(c)) \/ UNCHANGED allVars
    BY <1>9 DEF Edit, MoveHead, allVars, runVars, vars
  <1> QED BY <1>1, <1>2, <1>3, <1>4, <1>5, <1>6, <1>7, <1>8, <1>9 DEF RunNext

LEMMA ProgressStep ==
  ASSUME RunOnlyTypeOK, \A p \in Proc : ProgressInv(p), [RunNext]_allVars, NEW q \in Proc
  PROVE  ProgressInv(q)'
  <1> USE DEF RunOnlyTypeOK, ProgressInv, MayPass, Enter, Stop, Stages, Outcomes
  <1>1. ASSUME NEW p \in Proc, \E r \in Requests : Start(p, r) PROVE ProgressInv(q)'
    BY <1>1 DEF Start
  <1>2. ASSUME NEW p \in Proc, Prepare(p) \/ Analyse(p) PROVE ProgressInv(q)'
    BY <1>2 DEF Prepare, Analyse
  <1>3. ASSUME NEW p \in Proc, Compare(p) \/ SaveBaseline(p) PROVE ProgressInv(q)'
    BY <1>3 DEF Compare, SaveBaseline
  <1>10. ASSUME NEW p \in Proc, FailCompare(p) \/ CompareFile(p) \/ CompareNone(p)
         PROVE  ProgressInv(q)'
    BY <1>10 DEF FailCompare, CompareFile, CompareNone
  <1>4. ASSUME NEW p \in Proc, Compared(p) \/ Gates(p) PROVE ProgressInv(q)'
    BY <1>4 DEF Compared, Gates
  <1>5. ASSUME NEW p \in Proc, Codemod(p) PROVE ProgressInv(q)'
    <2>1. /\ fixed' = fixed \/ fixed' = [fixed EXCEPT ![p] = TRUE]
          /\ UNCHANGED <<req, compared, stored, told>> /\ stage[p] = "codemod"
          /\ \/ stage' = [stage EXCEPT ![p] = "save"] /\ UNCHANGED outcome
             \/ /\ stage' = [stage EXCEPT ![p] = "deliver"]
                /\ outcome' = [outcome EXCEPT ![p] = "codemod"]
      BY <1>5 DEF Codemod
    <2> QED BY <2>1
  <1>6. ASSUME NEW p \in Proc, NoSave(p) \/ CannotSave(p) \/ Saved(p) PROVE ProgressInv(q)'
    BY <1>6 DEF NoSave, CannotSave, Saved, SaveOutcome
  <1>7. ASSUME NEW p \in Proc, Deliver(p) PROVE ProgressInv(q)'
    <2>1. /\ UNCHANGED <<req, compared, fixed, stored>>
          /\ stage' = [stage EXCEPT ![p] = "idle"]
          /\ told' = [told EXCEPT ![p] = "yes"] \/ told' = [told EXCEPT ![p] = "failed"]
          /\ \/ outcome' = outcome \/ outcome' = [outcome EXCEPT ![p] = "error"]
             \/ outcome' = [outcome EXCEPT ![p] = IF @ = "ok" THEN "error" ELSE @]
      BY <1>7 DEF Deliver
    <2> QED BY <2>1
  <1>8. ASSUME NEW p \in Proc, Die(p) PROVE ProgressInv(q)' BY <1>8 DEF Die
  <1>9. CASE StoreStep \/ Edit \/ (\E c \in Key : MoveHead(c)) \/ UNCHANGED allVars
    BY <1>9 DEF StoreStep, Edit, MoveHead, allVars, runVars
  <1> QED BY <1>1, <1>2, <1>3, <1>4, <1>5, <1>6, <1>7, <1>8, <1>9, <1>10 DEF RunNext

\* A snapshot that was saved is kept while its command makes no other call:
\* no other call takes the key over.
LEMMA KeptStays ==
  ASSUME IInv, [Next]_vars, NEW p \in Proc, pc[p] = "idle", pc'[p] = "idle", Kept(p)
  PROVE  Kept(p)'
  <1>t. TypeOK /\ Numbered BY DEF IInv
  <1>1. key'[p] = key[p] /\ op'[p] = op[p]
    <2>1. ASSUME NEW q \in Proc, NEW k \in Key, Save(q, k) \/ Load(q, k)
          PROVE  key'[p] = key[p] /\ op'[p] = op[p]
      BY <1>t, <2>1 DEF Save, Load, Call, Goto, TypeOK
    <2>2. CASE UNCHANGED <<key, op>> BY <2>2
    <2>3. ASSUME NEW q \in Proc,
                 \/ CheckLegacy(q) \/ Create(q) \/ CreateExists(q) \/ Write(q) \/ FailWrite(q)
                 \/ FailOpen(q) \/ Remove(q) \/ FailRemove(q) \/ Close(q) \/ FailClose(q)
                 \/ Resolve(q) \/ Read(q) \/ Validate(q) \/ Crash(q)
          PROVE  UNCHANGED <<key, op>>
      BY <2>3 DEF CheckLegacy, Create, CreateExists, Write, FailWrite, FailOpen, Remove,
         FailRemove, Close, FailClose, Resolve, Read, Validate, Crash
    <2>4. ASSUME NEW k \in Key, Wipe(k) PROVE UNCHANGED <<key, op>> BY <2>4 DEF Wipe
    <2>5. CASE UNCHANGED vars BY <2>5 DEF vars
    <2> QED BY <2>1, <2>2, <2>3, <2>4, <2>5 DEF Next
  <1>2. ASSUME NEW q \in Proc, Close(q), saved' # saved PROVE Kept(p)'
    <2>1. /\ saved' = [saved EXCEPT ![key[q]] = op[q]] /\ wiped' = wiped
          /\ pc[q] = "close" /\ res[q] # "error"
      BY <1>2 DEF Close
    <2>2. CASE key[q] # key[p] BY <1>t, <1>1, <2>1, <2>2 DEF Kept, TypeOK
    <2>3. CASE key[q] = key[p] /\ key[p] \notin wiped
      <3>1. op[p] # 0 /\ file[key[p]].by = op[p]
        BY <1>t, <2>3 DEF IInv, SavedStays, Kept, TypeOK
      <3>2. file[key[q]].by = op[q]
        BY <2>1, <2>3 DEF IInv, WriterInv, Writing
      <3>3. p # q /\ op[q] # op[p] BY <1>t, <2>1 DEF Numbered
      <3> QED BY <2>3, <3>1, <3>2, <3>3
    <2> QED BY <1>1, <2>1, <2>2, <2>3 DEF Kept
  <1>3. CASE saved' = saved /\ wiped \subseteq wiped' BY <1>1, <1>3 DEF Kept
  <1>4. (saved' = saved /\ wiped \subseteq wiped') \/ \E q \in Proc : Close(q) /\ saved' # saved
    <2>1. ASSUME NEW q \in Proc, NEW k \in Key, Save(q, k) \/ Load(q, k)
          PROVE  UNCHANGED <<saved, wiped>>
      BY <2>1 DEF Save, Load, Call, ghosts
    <2>2. ASSUME NEW q \in Proc,
                 \/ CheckLegacy(q) \/ Create(q) \/ CreateExists(q) \/ Write(q) \/ FailWrite(q)
                 \/ FailOpen(q) \/ Remove(q) \/ FailRemove(q) \/ FailClose(q)
                 \/ Resolve(q) \/ Read(q) \/ Validate(q) \/ Crash(q)
          PROVE  UNCHANGED <<saved, wiped>>
      BY <2>2 DEF CheckLegacy, Create, CreateExists, Write, FailWrite, FailOpen, Remove,
         FailRemove, FailClose, Resolve, Read, Validate, Crash, ghosts
    <2>3. ASSUME NEW q \in Proc, Close(q) PROVE UNCHANGED wiped BY <2>3 DEF Close
    <2>4. ASSUME NEW k \in Key, Wipe(k) PROVE saved' = saved /\ wiped \subseteq wiped'
      BY <2>4 DEF Wipe
    <2>5. CASE UNCHANGED vars BY <2>5 DEF vars, ghosts
    <2> QED BY <2>1, <2>2, <2>3, <2>4, <2>5 DEF Next
  <1> QED BY <1>2, <1>3, <1>4

LEMMA KeptStep ==
  ASSUME IInv, RunOnlyTypeOK, OutcomeInv, [RunNext]_allVars, NEW q \in Proc,
         Succeeded(q)'
  PROVE  Kept(q)'
  <1>t. TypeOK /\ Numbered BY DEF IInv
  <1>o. CallInv(q)' /\ [Next]_vars BY CallStepInv, StoreView DEF OutcomeInv
  <1>q. KeptInv(q) /\ CallInv(q) /\ ProgressInv(q) BY DEF OutcomeInv
  \* Already successful, and not about to start another call.
  <1>1. CASE Succeeded(q) /\ pc[q] = "idle" /\ pc'[q] = "idle"
    BY <1>1, <1>o, <1>q, KeptStays DEF KeptInv
  <1>2. Succeeded(q) => pc[q] = "idle"
    BY <1>q DEF Succeeded, CallInv, ProgressInv
  <1>3. pc'[q] = "idle"
    BY <1>o, ProgressStep DEF Succeeded, CallInv, ProgressInv, OutcomeInv
  <1>4. CASE ~Succeeded(q)
    <2> USE <1>4 DEF Succeeded, RunOnlyTypeOK, Enter, Stop
    <2>1. CASE StoreStep
      <3>1. UNCHANGED <<key, op, stage, outcome, req>> BY <2>1, StoreEffect DEF runVars
      <3>2. stage[q] = "saving" /\ pc'[q] = "idle" /\ res'[q] = "saved"
        BY <3>1
      <3>3. saved'[key[q]] = op[q] /\ pc[q] \in Saving
        BY <1>q, <2>1, <3>2, StoreEffect DEF CallInv, Saving, Loading
      <3>4. op[q] # 0 BY <1>t, <3>3 DEF Numbered, Saving
      <3> QED BY <3>1, <3>3, <3>4 DEF Kept
    <2>2. ASSUME NEW p \in Proc, Saved(p) PROVE Kept(q)'
      BY <1>1, <1>2, <1>3, <2>2, <1>q, <1>t DEF Saved, SaveOutcome, vars, KeptInv, Outcomes, Kept, ghosts
    <2>3. ASSUME NEW p \in Proc,
                 \/ \E r \in Requests : Start(p, r)
                 \/ Prepare(p) \/ Analyse(p) \/ FailCompare(p) \/ CompareFile(p) \/ CompareNone(p)
                 \/ Compared(p) \/ Gates(p) \/ NoSave(p) \/ CannotSave(p)
          PROVE  FALSE
      BY <2>3 DEF Start, Prepare, Analyse, FailCompare, CompareFile, CompareNone, Compared, Gates,
         NoSave, CannotSave, vars
    <2>4. ASSUME NEW p \in Proc, Compare(p) PROVE FALSE
      BY <2>4, <1>3, <1>t DEF Compare, Load, Call, Goto, TypeOK
    <2>5. ASSUME NEW p \in Proc, SaveBaseline(p) PROVE FALSE
      BY <2>5, <1>3, <1>t DEF SaveBaseline, Save, Call, Goto, TypeOK
    <2>6. ASSUME NEW p \in Proc, Codemod(p) PROVE FALSE
      BY <2>6 DEF Codemod, vars
    <2>7. ASSUME NEW p \in Proc, Deliver(p) PROVE FALSE
      <3>1. /\ UNCHANGED <<pc, res, req>>
            /\ stage' = [stage EXCEPT ![p] = "idle"]
            /\ \/ outcome' = outcome \/ outcome' = [outcome EXCEPT ![p] = "error"]
               \/ outcome' = [outcome EXCEPT ![p] = IF @ = "ok" THEN "error" ELSE @]
        BY <2>7 DEF Deliver, vars
      <3> QED BY <3>1
    <2>8. ASSUME NEW p \in Proc, Die(p) PROVE FALSE
      <3>1. /\ UNCHANGED req
            /\ res' = res \/ res' = [res EXCEPT ![p] = "none"]
            /\ q # p => pc'[q] = pc[q]
            /\ stage' = [stage EXCEPT ![p] = "idle"]
            /\ outcome' = [outcome EXCEPT ![p] = "none"]
        BY <2>8, <1>t DEF Die, Crash, Return, vars, TypeOK
      <3> QED BY <1>t, <3>1 DEF TypeOK
    <2>9. CASE Edit \/ (\E c \in Key : MoveHead(c)) \/ UNCHANGED allVars
      BY <2>9 DEF Edit, MoveHead, allVars, runVars, vars
    <2> QED BY <2>1, <2>2, <2>3, <2>4, <2>5, <2>6, <2>7, <2>8, <2>9 DEF RunNext
  <1> QED BY <1>1, <1>2, <1>3, <1>4

LEMMA OutcomeInvariance == RunSpec => []OutcomeInv
  <1>1. IInv /\ RunOnlyTypeOK /\ OutcomeInv /\ [RunNext]_allVars => OutcomeInv'
    BY CallStepInv, ProgressStep, KeptStep DEF OutcomeInv, KeptInv
  <1> QED BY <1>1, OutcomeInit, StoreInvariance, PTL DEF RunSpec

\* executeAnalyse: the error of a command tells what it did to source files and
\* to the store.
THEOREM OutcomeIsTold == RunSpec => []OutcomeTellsFiles
  <1>1. OutcomeInv => OutcomeTellsFiles
    BY DEF OutcomeInv, CallInv, ProgressInv, KeptInv, Succeeded, Kept, MayPass, OutcomeTellsFiles
  <1> QED BY <1>1, OutcomeInvariance, PTL
=============================================================================
