---------------------------- MODULE AnalysisCache ----------------------------
(***************************************************************************)
(* The incremental analysis cache (internal/analysis/cache*.go and         *)
(* execution.go).  Several lopper processes analyse one root of a          *)
(* repository with the adapters of several languages and share a cache     *)
(* directory.  A key file per adapter points to a content-addressed        *)
(* object; it also records the digest of the inputs the object was         *)
(* computed from.  Processes may die between any two file operations, and  *)
(* files of the cache may be deleted from outside.                         *)
(***************************************************************************)
EXTENDS Naturals, FiniteSets

CONSTANTS
    Proc,        \* lopper processes
    Adapter,     \* language adapters that analyse the root
    Hashed,      \* adapters whose source files isCacheRelevantFile accepts
    Value,       \* contents the sources of an adapter can have
    NoDigest,    \* inputDigestMemo is empty
    NoPointer,   \* the key file does not exist
    BadPointer,  \* the key file is no valid JSON
    EditsAtRest, \* sources change only while no process runs
    MaxRuns,     \* bound: analyses started in a behaviour
    MaxEdits,    \* bound: edits of the sources
    MaxFaults    \* bound: crashes, I/O errors, deletions and corruptions

Report  == [of : Adapter, src : Value]
Digest  == [Hashed -> Value]
Pointer == [input : Digest, object : Report]

ASSUME ConstantsAssumption ==
    /\ Hashed \subseteq Adapter /\ Adapter # {} /\ Value # {}
    /\ NoDigest \notin Digest
    /\ NoPointer \notin Pointer /\ BadPointer \notin Pointer
    /\ NoPointer # BadPointer
    /\ EditsAtRest \in BOOLEAN
    /\ MaxRuns \in Nat /\ MaxEdits \in Nat /\ MaxFaults \in Nat

VARIABLES
    src,     \* the sources of each adapter's files in the root
    keys,    \* the key files
    objects, \* the object files; an object's name is the digest of its content
    pc, opts, todo, cur, memo, seen, rep,  \* of each process, see TypeOK
    out,     \* the reports of each process's current analysis
    runs, edits, faults,  \* counters of the bounds
    deleted  \* ghost: objects removed by somebody other than lopper

vars == <<src, keys, objects, pc, opts, todo, cur, memo, seen, rep, out,
          runs, edits, faults, deleted>>
cache    == <<keys, objects, deleted>>
counters == <<runs, edits, faults>>

-----------------------------------------------------------------------------
PCs == {"idle", "next", "pointer", "object", "analyse", "bare", "storeObject", "storePointer"}

TypeOK ==
    /\ src \in [Adapter -> Value]
    /\ keys \in [Adapter -> Pointer \cup {NoPointer, BadPointer}]
    /\ objects \in SUBSET Report
    /\ pc \in [Proc -> PCs]
    \* --cache-path was given; --cache-readonly was given
    /\ opts \in [Proc -> [explicit : BOOLEAN, readOnly : BOOLEAN]]
    /\ todo \in [Proc -> SUBSET Adapter]      \* candidates still to analyse
    /\ cur \in [Proc -> Adapter]              \* candidate being analysed
    /\ memo \in [Proc -> Digest \cup {NoDigest}]
    /\ seen \in [Proc -> Report]              \* object named by the pointer read
    /\ rep \in [Proc -> Report]               \* report the adapter returned
    /\ out \in [Proc -> SUBSET [report : Report, hit : BOOLEAN]]
    /\ runs \in 0..MaxRuns /\ edits \in 0..MaxEdits /\ faults \in 0..MaxFaults
    /\ deleted \in SUBSET Report

SomeAdapter == CHOOSE a \in Adapter : TRUE
SomeReport  == [of |-> SomeAdapter, src |-> CHOOSE v \in Value : TRUE]

Init ==
    /\ src \in [Adapter -> Value]
    /\ keys = [a \in Adapter |-> NoPointer]
    /\ objects = {}
    /\ pc = [p \in Proc |-> "idle"]
    /\ opts = [p \in Proc |-> [explicit |-> TRUE, readOnly |-> FALSE]]
    /\ todo = [p \in Proc |-> {}]
    /\ cur = [p \in Proc |-> SomeAdapter]
    /\ memo = [p \in Proc |-> NoDigest]
    /\ seen = [p \in Proc |-> SomeReport]
    /\ rep = [p \in Proc |-> SomeReport]
    /\ out = [p \in Proc |-> {}]
    /\ runs = 0 /\ edits = 0 /\ faults = 0
    /\ deleted = {}

\* What a process remembers between analyses: nothing.  Its last reports are
\* kept until the analysis ends.
Forget(p) ==
    /\ pc' = [pc EXCEPT ![p] = "idle"]
    /\ opts' = [opts EXCEPT ![p] = [explicit |-> TRUE, readOnly |-> FALSE]]
    /\ todo' = [todo EXCEPT ![p] = {}]
    /\ cur' = [cur EXCEPT ![p] = SomeAdapter]
    /\ memo' = [memo EXCEPT ![p] = NoDigest]
    /\ seen' = [seen EXCEPT ![p] = SomeReport]
    /\ rep' = [rep EXCEPT ![p] = SomeReport]
    /\ out' = [out EXCEPT ![p] = {}]

Goto(p, from, to) == pc[p] = from /\ pc' = [pc EXCEPT ![p] = to]
Fault == faults < MaxFaults /\ faults' = faults + 1 /\ UNCHANGED <<runs, edits>>

-----------------------------------------------------------------------------
(* One analysis: newAnalysisCache, then the candidates one after the other. *)

\* The cache of a process starts with an empty memo.
Start(p) ==
    /\ runs < MaxRuns
    /\ Goto(p, "idle", "next")
    /\ runs' = runs + 1
    /\ \E o \in [explicit : BOOLEAN, readOnly : BOOLEAN] : opts' = [opts EXCEPT ![p] = o]
    /\ todo' = [todo EXCEPT ![p] = Adapter]
    /\ UNCHANGED <<src, cur, memo, seen, rep, out, edits, faults, cache>>

\* computeInputDigest: the relevant files of the whole root, of every language.
InputDigest == [a \in Hashed |-> src[a]]

\* The candidates come in a fixed order.
Candidate(p) == CHOOSE a \in todo[p] : TRUE

\* prepareEntry: the digest is computed for the first candidate of the root
\* and remembered for the others.
Prepare(p) == LET a == Candidate(p) IN
    /\ todo[p] # {}
    /\ Goto(p, "next", "pointer")
    /\ todo' = [todo EXCEPT ![p] = @ \ {a}]
    /\ cur' = [cur EXCEPT ![p] = a]
    /\ memo' = [memo EXCEPT ![p] = IF @ = NoDigest THEN InputDigest ELSE @]
    /\ UNCHANGED <<src, opts, seen, rep, out, cache, counters>>

\* The inputs cannot be read: the adapter runs without an entry, so nothing is
\* looked up and nothing stored.  A remembered digest cannot fail.
FailPrepare(p) == LET a == Candidate(p) IN
    /\ Fault
    /\ todo[p] # {} /\ memo[p] = NoDigest
    /\ Goto(p, "next", "bare")
    /\ todo' = [todo EXCEPT ![p] = @ \ {a}]
    /\ cur' = [cur EXCEPT ![p] = a]
    /\ UNCHANGED <<src, opts, memo, seen, rep, out, cache>>

Finish(p) ==
    /\ pc[p] = "next" /\ todo[p] = {}
    /\ Forget(p)
    /\ UNCHANGED <<src, cache, counters>>

\* lookup follows a pointer only when its input digest is the current one.
Matches(p, ptr) == ptr \in Pointer /\ ptr.input = memo[p]

\* Mutant: all adapters share the key of the root.
SharedKey(a) == SomeAdapter
\* The key digest contains the adapter (and the request's options).
KeyOf(a) == a

\* lookup up to the object's path.  The default cache of the repository is
\* never trusted for reading.
FollowPointer(p) ==
    /\ opts[p].explicit /\ Matches(p, keys[KeyOf(cur[p])])
    /\ Goto(p, "pointer", "object")
    /\ seen' = [seen EXCEPT ![p] = keys[KeyOf(cur[p])].object]
    /\ UNCHANGED <<src, opts, todo, cur, memo, rep, out, cache, counters>>

\* A miss, a corrupt pointer, changed inputs or the untrusted default.
MissPointer(p) ==
    /\ ~(opts[p].explicit /\ Matches(p, keys[KeyOf(cur[p])]))
    /\ Goto(p, "pointer", "analyse")
    /\ UNCHANGED <<src, opts, todo, cur, memo, seen, rep, out, cache, counters>>

\* The pointer or the object cannot be read: like a miss, the entry is stored
\* to later.
FailLookup(p) ==
    /\ Fault
    /\ pc[p] \in {"pointer", "object"}
    /\ pc' = [pc EXCEPT ![p] = "analyse"]
    /\ UNCHANGED <<src, opts, todo, cur, memo, seen, rep, out, cache>>

Hit(p) ==
    /\ seen[p] \in objects
    /\ Goto(p, "object", "next")
    /\ out' = [out EXCEPT ![p] = @ \cup {[report |-> seen[p], hit |-> TRUE]}]
    /\ UNCHANGED <<src, opts, todo, cur, memo, seen, rep, cache, counters>>

\* The object is missing.
MissObject(p) ==
    /\ seen[p] \notin objects
    /\ Goto(p, "object", "analyse")
    /\ UNCHANGED <<src, opts, todo, cur, memo, seen, rep, out, cache, counters>>

\* The adapter reads the sources, later than the digest did.
Analyse(p) ==
    /\ LET r == [of |-> cur[p], src |-> src[cur[p]]]
       IN  /\ rep' = [rep EXCEPT ![p] = r]
           /\ out' = [out EXCEPT ![p] = @ \cup {[report |-> r, hit |-> FALSE]}]
    /\ pc[p] \in {"analyse", "bare"}
    /\ pc' = [pc EXCEPT ![p] = IF @ = "bare" \/ opts[p].readOnly THEN "next" ELSE "storeObject"]
    /\ UNCHANGED <<src, opts, todo, cur, memo, seen, cache, counters>>

\* The adapter fails: nothing is stored, and the other candidates go on.  (With
\* one language there is one candidate, and the analysis ends with the error.)
FailAnalyse(p) ==
    /\ Fault
    /\ pc[p] \in {"analyse", "bare"}
    /\ pc' = [pc EXCEPT ![p] = "next"]
    /\ UNCHANGED <<src, opts, todo, cur, memo, seen, rep, out, cache>>

\* Mutant: a failed object write does not stop the pointer.
CarryOn == "storePointer"
\* Mutant: the analysis enters a state of its own.
GiveUp == "failed"
\* store returns on the first error; the caller only warns.
AfterStoreError == "next"

\* Mutant: an object written makes the older ones superfluous.
StoreOnlyObject(p) ==
    /\ Goto(p, "storeObject", "storePointer")
    /\ objects' = {rep[p]}
    /\ UNCHANGED <<src, keys, opts, todo, cur, memo, seen, rep, out, counters, deleted>>

\* The object file is created unless it exists.
StoreObject(p) ==
    /\ Goto(p, "storeObject", "storePointer")
    /\ objects' = objects \cup {rep[p]}
    /\ deleted' = deleted \ {rep[p]}
    /\ UNCHANGED <<src, keys, opts, todo, cur, memo, seen, rep, out, counters>>

\* The cache cannot be opened or the object not be written.
FailObject(p) ==
    /\ Fault
    /\ Goto(p, "storeObject", AfterStoreError)
    /\ UNCHANGED <<src, opts, todo, cur, memo, seen, rep, out, cache>>

\* The object was written, but closing its directory fails.
FailAfterObject(p) ==
    /\ Fault
    /\ Goto(p, "storeObject", AfterStoreError)
    /\ objects' = objects \cup {rep[p]}
    /\ deleted' = deleted \ {rep[p]}
    /\ UNCHANGED <<src, keys, opts, todo, cur, memo, seen, rep, out>>

\* The key file is replaced atomically.
StorePointer(p) ==
    /\ Goto(p, "storePointer", "next")
    /\ keys' = [keys EXCEPT ![KeyOf(cur[p])] = [input |-> memo[p], object |-> rep[p]]]
    /\ UNCHANGED <<src, objects, opts, todo, cur, memo, seen, rep, out, counters, deleted>>

FailPointer(p) ==
    /\ Fault
    /\ Goto(p, "storePointer", "next")
    /\ UNCHANGED <<src, opts, todo, cur, memo, seen, rep, out, cache>>

-----------------------------------------------------------------------------
(* The environment. *)

Crash(p) ==
    /\ Fault /\ pc[p] # "idle"
    /\ Forget(p)
    /\ UNCHANGED <<src, cache>>

Edit(a, v) ==
    /\ edits < MaxEdits /\ edits' = edits + 1
    /\ EditsAtRest => \A p \in Proc : pc[p] = "idle"
    /\ src[a] # v
    /\ src' = [src EXCEPT ![a] = v]
    /\ UNCHANGED <<pc, opts, todo, cur, memo, seen, rep, out, runs, faults, cache>>

\* Somebody cleans the cache directory up, or a key file is damaged.
DeleteObject(r) ==
    /\ Fault /\ r \in objects
    /\ objects' = objects \ {r}
    /\ deleted' = deleted \cup {r}
    /\ UNCHANGED <<src, keys, pc, opts, todo, cur, memo, seen, rep, out>>

DamagePointer(a) ==
    /\ Fault /\ keys[a] \in Pointer
    /\ keys' = [keys EXCEPT ![a] = BadPointer]
    /\ UNCHANGED <<src, objects, deleted, pc, opts, todo, cur, memo, seen, rep, out>>

Step(p) ==
    \/ Prepare(p) \/ FailPrepare(p) \/ Finish(p)
    \/ FollowPointer(p) \/ MissPointer(p) \/ Hit(p) \/ MissObject(p) \/ FailLookup(p)
    \/ Analyse(p) \/ FailAnalyse(p)
    \/ StoreObject(p) \/ FailObject(p) \/ FailAfterObject(p)
    \/ StorePointer(p) \/ FailPointer(p)

Next ==
    \/ \E p \in Proc : Start(p) \/ Step(p) \/ Crash(p)
    \/ \E a \in Adapter, v \in Value : Edit(a, v)
    \/ \E r \in Report : DeleteObject(r)
    \/ \E a \in Adapter : DamagePointer(a)

Spec == Init /\ [][Next]_vars

-----------------------------------------------------------------------------
(* Properties. *)

\* A key file never dangles: its object was written before it and is the
\* adapter's own, whatever crashed or failed, unless somebody deleted it.
PointerBacked ==
    \A a \in Adapter : keys[a] \in Pointer =>
        /\ keys[a].object.of = a
        /\ keys[a].object \in objects \cup deleted

\* A report served from the cache is the one a fresh analysis would give now:
\* edits back and forth, other processes, crashes and damage never revive the
\* report of other sources.
HitIsCurrent ==
    [][\A p \in Proc : Hit(p) =>
        seen[p] = [of |-> cur[p], src |-> src[cur[p]]]]_vars

\* What a process writes about the sources another process may have written
\* too: a pointer of the current digest stays one.  Concurrent runs never
\* replace a usable entry by an unusable one.
EntryStaysUsable ==
    [][\A a \in Adapter :
        keys[a] \in Pointer /\ keys[a].input = InputDigest /\ keys[a].object \in objects
        /\ src' = src /\ faults' = faults
        => keys'[a] \in Pointer /\ keys'[a].input = InputDigest
           /\ keys'[a].object \in objects']_vars
=============================================================================
