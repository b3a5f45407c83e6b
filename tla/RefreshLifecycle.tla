-------------------------- MODULE RefreshLifecycle --------------------------
(***************************************************************************)
(* Refreshes of one workspace folder in the VS Code extension              *)
(* (extension.ts and refreshSession.ts).  A refresh is a chain of          *)
(* synchronous JavaScript turns separated by awaits: resolve the language, *)
(* validate a cached result, run lopper, show an error.  Between two turns *)
(* saves, settings changes, cancellations, other refreshes and changes of  *)
(* the folder list come in.  Each turn is one action.                      *)
(***************************************************************************)
EXTENDS Naturals, FiniteSets

CONSTANTS
    Req,            \* slots for refreshWorkspace calls in progress
    Key,            \* session keys of the folder: language and scope mode
    MaxRequests,    \* bound: refreshes started in a behaviour
    MaxBumps,       \* bound: invalidations (saves, settings, codemods)
    MaxFolderMoves  \* bound: removals and additions of the folder

ASSUME ConstantsAssumption ==
    /\ Req # {} /\ IsFiniteSet(Req) /\ Key # {}
    /\ MaxRequests \in Nat /\ MaxBumps \in Nat /\ MaxFolderMoves \in Nat

VARIABLES
    ses,       \* the folder's entry in refreshSessions
    handles,   \* refreshAbortHandles: run id -> run, 0 for no handle
    aborted,   \* runs whose AbortController has fired
    pc,        \* the await each refresh is suspended at
    job,       \* what each refresh captured in its closure
    present,   \* the folder is in workspaceFolders
    arming,    \* save handlers suspended in shouldAutoRefresh
    timer,     \* the 400 ms auto-save timer is set
    shown,     \* analysisByWorkspace and the diagnostics: the rendered run
    status,    \* the status bar
    warned,    \* missingBinaryWarningShown
    issued,    \* refreshes started so far
    serial,    \* ghost: runs started so far; names a run beyond its id
    content,   \* ghost: invalidations so far; the input a run reads
    moves      \* folder list changes so far

vars == <<ses, handles, aborted, pc, job, present, arming, timer, shown,
          status, warned, issued, serial, content, moves>>

-----------------------------------------------------------------------------
RunIds  == 1..MaxRequests
NoRun   == [id |-> 0, serial |-> 0]
NoCache == [version |-> 0, serial |-> 0, content |-> 0]
Nothing == [serial |-> 0, content |-> 0]

\* A refresh is forced or may reuse, is a plain static analysis or a runtime
\* or baseline one (always forced), and reveals its errors or not.
Kinds == {k \in [key : Key, force : BOOLEAN, static : BOOLEAN, reveal : BOOLEAN] :
            k.static \/ (k.force /\ k.reveal)}
\* Refreshes of timers, settings and folder changes, and of applied codemods.
AutoKinds    == {k \in Kinds : ~k.force /\ ~k.reveal}
CodemodKinds == {k \in Kinds : k.force /\ k.static /\ ~k.reveal}

\* session(): a folder without an entry starts from zeros.
FreshSession ==
    [version |-> 0, run |-> 0, req |-> 0,
     inFlight |-> [k \in Key |-> NoRun], cache |-> [k \in Key |-> NoCache]]

NoJob == [kind |-> CHOOSE k \in Kinds : TRUE, req |-> 0, ver |-> 0, run |-> 0,
          serial |-> 0, content |-> 0, failed |-> FALSE]

PCs == {"idle", "language", "validate", "recheck", "running", "joined",
        "notify", "settling"}
Statuses == {"idle", "analysing", "cancelling", "ready", "unavailable"}

TypeOK ==
    /\ ses \in [version : Nat, run : Nat, req : Nat,
                inFlight : [Key -> [id : Nat, serial : Nat]],
                cache : [Key -> [version : Nat, serial : Nat, content : Nat]]]
    /\ handles \in [RunIds -> Nat]
    /\ aborted \in SUBSET Nat
    /\ pc \in [Req -> PCs]
    /\ job \in [Req -> [kind : Kinds, req : Nat, ver : Nat, run : Nat,
                        serial : Nat, content : Nat, failed : BOOLEAN]]
    /\ present \in BOOLEAN /\ timer \in BOOLEAN /\ warned \in BOOLEAN
    /\ arming \in Nat
    /\ shown \in [serial : Nat, content : Nat]
    /\ status \in Statuses
    /\ issued \in 0..MaxRequests /\ serial \in 0..issued
    /\ content \in Nat /\ moves \in 0..MaxFolderMoves

Init ==
    /\ ses = FreshSession
    /\ handles = [i \in RunIds |-> 0]
    /\ aborted = {}
    /\ pc = [r \in Req |-> "idle"]
    /\ job = [r \in Req |-> NoJob]
    /\ present = TRUE /\ timer = FALSE /\ warned = FALSE
    /\ arming = 0
    /\ shown = Nothing
    /\ status = "idle"
    /\ issued = 0 /\ serial = 0 /\ content = 0 /\ moves = 0

-----------------------------------------------------------------------------
(* The session store and the abort handles. *)

KeyOf(r)  == job[r].kind.key
Goto(r, from, to) == pc[r] = from /\ pc' = [pc EXCEPT ![r] = to]

\* isLatestRequest and isCurrentInputVersion, asked after every await.
IsLive(r) == ses.req = job[r].req /\ ses.version = job[r].ver

\* isCurrentRefresh: may this run still publish its result?
IsCurrentRefresh(r) == ses.run = job[r].run /\ ses.version = job[r].ver

\* An entry of another input version is deleted by getCache.
CacheHit(k) == ses.cache[k].serial # 0 /\ ses.cache[k].version = ses.version

\* bumpInputVersion.
Bumped(s) == [s EXCEPT !.version = @ + 1,
                       !.inFlight = [k \in Key |-> NoRun],
                       !.cache = [k \in Key |-> NoCache]]

\* Mutant: no run is aborted.
NoHandles(id) == {}
\* The runs abortSupersededRefreshes and abortWorkspaceRefreshes abort: all
\* that have a handle, except the one of the given id.
Superseded(id) == {handles[i] : i \in RunIds \ {id}} \ {0}

\* refreshWorkspace up to its first await: reserve the request, capture the
\* input version.  s is the session at that moment.
Begin(s, r, k) ==
    /\ issued < MaxRequests
    /\ Goto(r, "idle", "language")
    /\ issued' = issued + 1
    /\ ses' = [s EXCEPT !.req = @ + 1]
    /\ job' = [job EXCEPT ![r] = [NoJob EXCEPT !.kind = k, !.req = s.req + 1,
                                               !.ver = s.version]]

\* reserveRun, abort the superseded runs, register the handle and, for a
\* plain static analysis, the in-flight entry.  s is the session before.
StartRun(r, s) ==
    LET id  == s.run + 1
        new == [id |-> id, serial |-> serial + 1]
    IN  /\ pc' = [pc EXCEPT ![r] = "running"]
        /\ serial' = serial + 1
        /\ ses' = IF job[r].kind.static
                  THEN [s EXCEPT !.run = id, !.inFlight[KeyOf(r)] = new]
                  ELSE [s EXCEPT !.run = id]
        /\ aborted' = aborted \cup Superseded(id)
        /\ handles' = [handles EXCEPT ![id] = serial + 1]
        /\ job' = [job EXCEPT ![r].run = id, ![r].serial = serial + 1,
                              ![r].content = content]
        /\ status' = "analysing"
        /\ UNCHANGED <<present, arming, timer, shown, warned, issued, content, moves>>

-----------------------------------------------------------------------------
(* Where refreshes come from. *)

\* A command of the user: ordinary, forced, runtime or baseline refresh.
UserRequest(r) ==
    /\ present
    /\ \E k \in {x \in Kinds : x.reveal} : Begin(ses, r, k)
    /\ UNCHANGED <<handles, aborted, present, arming, timer, shown, status,
                   warned, serial, content, moves>>

\* Every invalidation bumps the version and aborts the folder's runs.
Invalidate ==
    /\ content < MaxBumps
    /\ content' = content + 1
    /\ aborted' = aborted \cup Superseded(0)

\* A document is saved.  When it matches the language a timer will be set,
\* after shouldAutoRefresh has answered.
Save(matches) ==
    /\ present
    /\ Invalidate
    /\ ses' = Bumped(ses)
    /\ arming' = IF matches THEN arming + 1 ELSE arming
    /\ UNCHANGED <<handles, pc, job, present, timer, shown, status, warned,
                   issued, serial, moves>>

\* The save handler resumes: it replaces the timer.
ArmTimer ==
    /\ arming > 0
    /\ arming' = arming - 1
    /\ timer' = TRUE
    /\ UNCHANGED <<ses, handles, aborted, pc, job, present, shown, status,
                   warned, issued, serial, content, moves>>

\* The timer fires; a folder that has gone is skipped.
TimerFires(r) ==
    /\ timer
    /\ timer' = FALSE
    /\ IF present
       THEN \E k \in AutoKinds : Begin(ses, r, k)
       ELSE UNCHANGED <<ses, pc, job, issued>>
    /\ UNCHANGED <<handles, aborted, present, arming, shown, status, warned,
                   serial, content, moves>>

\* The settings changed, or a codemod wrote files: invalidate and refresh.
ChangeAndRefresh(r) ==
    /\ present
    /\ Invalidate
    /\ \E k \in AutoKinds \cup CodemodKinds : Begin(Bumped(ses), r, k)
    /\ UNCHANGED <<handles, present, arming, timer, shown, status, warned,
                   serial, moves>>

\* The folder leaves the workspace.  Its runs are not aborted.
RemoveFolder ==
    /\ present /\ moves < MaxFolderMoves
    /\ present' = FALSE
    /\ moves' = moves + 1
    /\ timer' = FALSE
    /\ shown' = Nothing
    /\ ses' = FreshSession
    /\ UNCHANGED <<handles, aborted, pc, job, arming, status, warned, issued,
                   serial, content>>

\* The folder comes back and is refreshed.
AddFolder(r) ==
    /\ ~present /\ moves < MaxFolderMoves
    /\ present' = TRUE
    /\ moves' = moves + 1
    /\ \E k \in AutoKinds : Begin(ses, r, k)
    /\ UNCHANGED <<handles, aborted, arming, timer, shown, status, warned,
                   serial, content>>

\* The user cancels: handles stay, in-flight entries too.
Cancel ==
    /\ Superseded(0) \ aborted # {}
    /\ aborted' = aborted \cup Superseded(0)
    /\ status' = "cancelling"
    /\ UNCHANGED <<ses, handles, pc, job, present, arming, timer, shown,
                   warned, issued, serial, content, moves>>

-----------------------------------------------------------------------------
(* The turns of one refresh. *)

\* A refresh that was superseded while it awaited ends without a trace.
DropStale(r) ==
    /\ pc[r] \in {"language", "validate", "recheck"}
    /\ ~IsLive(r)
    /\ pc' = [pc EXCEPT ![r] = "idle"]
    /\ UNCHANGED <<ses, handles, aborted, job, present, arming, timer, shown,
                   status, warned, issued, serial, content, moves>>

\* tryReuseAnalysis: an ordinary refresh joins the latest run of its key.
Joins(r) ==
    /\ ~job[r].kind.force
    /\ ses.inFlight[KeyOf(r)] # NoRun
    /\ ses.inFlight[KeyOf(r)].id = ses.run

Join(r) ==
    /\ IsLive(r) /\ Joins(r)
    /\ Goto(r, "language", "joined")
    /\ job' = [job EXCEPT ![r].serial = ses.inFlight[KeyOf(r)].serial]
    /\ status' = "analysing"
    /\ UNCHANGED <<ses, handles, aborted, present, arming, timer, shown,
                   warned, issued, serial, content, moves>>

\* A cached result of the current version is captured and its binary checked.
CheckCached(r) ==
    /\ IsLive(r) /\ ~job[r].kind.force /\ ~Joins(r) /\ CacheHit(KeyOf(r))
    /\ Goto(r, "language", "validate")
    /\ job' = [job EXCEPT ![r].serial = ses.cache[KeyOf(r)].serial,
                          ![r].content = ses.cache[KeyOf(r)].content]
    /\ UNCHANGED <<ses, handles, aborted, present, arming, timer, shown,
                   status, warned, issued, serial, content, moves>>

\* Nothing to reuse, or a forced refresh: run lopper.
RunFresh(r) ==
    /\ pc[r] = "language" /\ IsLive(r)
    /\ \/ job[r].kind.force /\ StartRun(r, ses)
       \/ /\ ~job[r].kind.force /\ ~Joins(r) /\ ~CacheHit(KeyOf(r))
          /\ StartRun(r, [ses EXCEPT !.cache[KeyOf(r)] = NoCache])

\* Mutant: the captured result is rendered without asking again.
Unasked(r) == TRUE
\* What the callback of canReuseCachedAnalysis asks before it renders.
StillWanted(r) == IsLive(r)

\* The binary is unchanged: the cached result becomes the latest run.
ReuseCached(r) ==
    /\ StillWanted(r)
    /\ Goto(r, "validate", "idle")
    /\ ses' = [ses EXCEPT !.run = @ + 1]
    /\ aborted' = aborted \cup Superseded(ses.run + 1)
    /\ shown' = [serial |-> job[r].serial, content |-> job[r].content]
    /\ status' = "ready"
    /\ UNCHANGED <<handles, job, present, arming, timer, warned, issued,
                   serial, content, moves>>

\* The binary changed: go on to a fresh run.
RejectCached(r) ==
    /\ IsLive(r)
    /\ Goto(r, "validate", "recheck")
    /\ UNCHANGED <<ses, handles, aborted, job, present, arming, timer, shown,
                   status, warned, issued, serial, content, moves>>

RunAfterReject(r) ==
    /\ pc[r] = "recheck" /\ IsLive(r)
    /\ StartRun(r, ses)

-----------------------------------------------------------------------------
(* The end of a run. *)

\* clearInFlight: only the entry of this very run id.
ClearInFlight(s, r) ==
    IF s.inFlight[KeyOf(r)].id = job[r].run
    THEN [s EXCEPT !.inFlight[KeyOf(r)] = NoRun]
    ELSE s

\* Mutant: the promise handed to the refreshes that joined never settles.
SettleAlone(r, s) ==
    /\ ses' = ClearInFlight(s, r)
    /\ handles' = [handles EXCEPT ![job[r].run] = 0]
    /\ pc' = [pc EXCEPT ![r] = "idle"]

\* The finally block of executeFreshRefresh.  The refreshes that joined this
\* run end with it.
Settle(r, s) ==
    /\ ses' = ClearInFlight(s, r)
    /\ handles' = [handles EXCEPT ![job[r].run] = 0]
    /\ pc' = [q \in Req |->
                IF q = r \/ (pc[q] = "joined" /\ job[q].serial = job[r].serial)
                THEN "idle" ELSE pc[q]]

\* Mutant: the abort signal is not consulted.
SignalIgnored(r) == FALSE
\* signal?.aborted of the run.
Signalled(r) == job[r].serial \in aborted

\* Mutant: the status bar is left alone.
LeaveStatus == status
\* restoreStatusAfterCancellation
RestoredStatus == IF shown = Nothing THEN "idle" ELSE "ready"

\* lopper answered, but the result is stale or the run was cancelled.
CompleteUnused(r) ==
    /\ pc[r] = "running"
    /\ \/ ~IsCurrentRefresh(r) /\ UNCHANGED status
       \/ IsCurrentRefresh(r) /\ Signalled(r) /\ status' = RestoredStatus
    /\ Settle(r, ses)
    /\ UNCHANGED <<aborted, job, present, arming, timer, shown, warned, issued,
                   serial, content, moves>>

\* The result is cached, when it is a plain static one, and rendered.
Complete(r) ==
    /\ pc[r] = "running"
    /\ IsCurrentRefresh(r) /\ ~Signalled(r)
    /\ Settle(r, IF job[r].kind.static
                 THEN [ses EXCEPT !.cache[KeyOf(r)] =
                        [version |-> ses.version, serial |-> job[r].serial,
                         content |-> job[r].content]]
                 ELSE ses)
    /\ shown' = [serial |-> job[r].serial, content |-> job[r].content]
    /\ status' = "ready"
    /\ warned' = FALSE
    /\ UNCHANGED <<aborted, job, present, arming, timer, issued, serial,
                   content, moves>>

\* lopper failed after the run was superseded or cancelled.
FailUnused(r) ==
    /\ Goto(r, "running", "settling")
    /\ \/ ~IsCurrentRefresh(r) /\ UNCHANGED status
       \/ IsCurrentRefresh(r) /\ Signalled(r) /\ status' = RestoredStatus
    /\ UNCHANGED <<ses, handles, aborted, job, present, arming, timer, shown,
                   warned, issued, serial, content, moves>>

\* lopper failed: the diagnostics go, and the user is told.  A missing binary
\* is reported once until a run succeeds.
Fail(r, missing) ==
    /\ IsCurrentRefresh(r) /\ ~Signalled(r)
    /\ LET tells == job[r].kind.reveal /\ ~(missing /\ warned)
       IN  /\ Goto(r, "running", IF tells THEN "notify" ELSE "settling")
           /\ warned' = (warned \/ (missing /\ tells))
    /\ shown' = Nothing
    /\ status' = "unavailable"
    /\ job' = [job EXCEPT ![r].failed = TRUE]
    /\ UNCHANGED <<ses, handles, aborted, present, arming, timer, issued,
                   serial, content, moves>>

\* The error handler has returned, or the user closed its notification.
AfterFailure(r) ==
    /\ pc[r] \in {"notify", "settling"}
    /\ Settle(r, ses)
    /\ UNCHANGED <<aborted, job, present, arming, timer, shown, status, warned,
                   issued, serial, content, moves>>

-----------------------------------------------------------------------------
Progress(r) ==
    \/ DropStale(r) \/ Join(r) \/ CheckCached(r) \/ RunFresh(r)
    \/ ReuseCached(r) \/ RejectCached(r) \/ RunAfterReject(r)
    \/ CompleteUnused(r) \/ Complete(r) \/ FailUnused(r)
    \/ \E missing \in BOOLEAN : Fail(r, missing)

Next ==
    \/ \E r \in Req : \/ UserRequest(r) \/ TimerFires(r)
                      \/ ChangeAndRefresh(r) \/ AddFolder(r)
                      \/ Progress(r) \/ AfterFailure(r)
    \/ \E matches \in BOOLEAN : Save(matches)
    \/ ArmTimer \/ RemoveFolder \/ Cancel

Spec == Init /\ [][Next]_vars

\* Promises settle: languages resolve, signatures are read, lopper ends, save
\* handlers resume and timers fire.  Nobody is obliged to close a notification.
FairSpec ==
    /\ Spec
    /\ WF_vars(ArmTimer)
    /\ WF_vars(\E r \in Req : TimerFires(r))
    /\ \A r \in Req : /\ WF_vars(Progress(r))
                      /\ WF_vars(pc[r] = "settling" /\ AfterFailure(r))

-----------------------------------------------------------------------------
(* Properties. *)

\* At most one run of the folder works for a result that is still wanted:
\* starting a run, from whichever await, aborts the runs before it.
OneLiveRun ==
    \A r, q \in Req :
        pc[r] = "running" /\ pc[q] = "running"
        /\ job[r].serial \notin aborted /\ job[q].serial \notin aborted => r = q

\* No late result: a run that was aborted leaves neither diagnostics nor a cache
\* entry, even when lopper still delivers a result, and nothing is rendered for
\* a folder that was removed.
NoLateResult ==
    /\ shown.serial \notin aborted
    /\ \A k \in Key : ses.cache[k].serial \notin aborted
    /\ ~present => shown = Nothing

\* What is rendered was computed from the inputs as they are now: no result,
\* fresh or cached, of an invalidated version reaches the editor.
RenderedIsCurrent ==
    [][shown' # shown /\ shown' # Nothing => shown'.content = content]_vars

\* The result of an earlier run replaces the one of a later run only when it is
\* reused from the cache.
NoStaleOverwrite ==
    [][shown'.serial # 0 /\ shown'.serial < shown.serial =>
        \E k \in Key : ses.cache[k].serial = shown'.serial]_vars

\* Once nothing is under way the status bar does not announce a cancellation.
\* Nobody withdraws the announcement in three cases: the input was invalidated
\* or the folder removed, so that the cancelled run is not current when it
\* ends, or the run had failed already and only its notification was open.
CancelSettles ==
    (\A r \in Req : pc[r] = "idle") /\ status = "cancelling" =>
        \/ content > 0 \/ moves > 0
        \/ \E r \in Req : job[r].failed /\ job[r].serial \in aborted

\* Every refresh ends, unless an error notification is left open.
RequestEnds ==
    \A r \in Req : pc[r] # "idle" ~> pc[r] = "idle" \/ \E q \in Req : pc[q] = "notify"
=============================================================================
