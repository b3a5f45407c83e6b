----------------------- MODULE RefreshLifecycle_proofs -----------------------
(***************************************************************************)
(* Proofs about RefreshLifecycle: until a removed folder comes back, for   *)
(* any number of refreshes, session keys and invalidations, one run at     *)
(* most works for a wanted result, and what is rendered or cached is       *)
(* current and was not aborted.                                            *)
(***************************************************************************)
EXTENDS RefreshLifecycle, FiniteSetTheorems, TLAPS

-----------------------------------------------------------------------------
(* Types, without the bounds that relate counters. *)

SesType == [version : Nat, run : Nat, req : Nat,
            inFlight : [Key -> [id : Nat, serial : Nat]],
            cache : [Key -> [version : Nat, serial : Nat, content : Nat]]]
JobType == [kind : Kinds, req : Nat, ver : Nat, run : Nat, serial : Nat,
            content : Nat, failed : BOOLEAN]

LType ==
    /\ ses \in SesType /\ handles \in [RunIds -> Nat] /\ aborted \in SUBSET Nat
    /\ pc \in [Req -> PCs] /\ job \in [Req -> JobType]
    /\ present \in BOOLEAN /\ timer \in BOOLEAN /\ warned \in BOOLEAN
    /\ arming \in Nat /\ shown \in [serial : Nat, content : Nat]
    /\ status \in Statuses /\ issued \in 0..MaxRequests
    /\ serial \in Nat /\ content \in Nat /\ moves \in 0..MaxFolderMoves

-----------------------------------------------------------------------------
(* The inductive invariant. *)

\* A refresh holds an abort handle, or has still to decide what it will do.
Active(r) == pc[r] \in {"running", "notify", "settling"}
Pending(r) == pc[r] \in {"language", "validate", "recheck"}
Waiting == {r \in Req : Pending(r)}

\* Each refresh that has still to decide may take one more run id.
CountInv ==
    /\ ses.run + Cardinality(Waiting) <= issued
    /\ serial + Cardinality(Waiting) <= issued

\* The folder has been there from the start or is gone.
FolderInv ==
    /\ moves <= 1 /\ (present <=> moves = 0)
    /\ ~present => ses = FreshSession /\ shown = Nothing

\* Handles and active refreshes correspond; only the latest run is not aborted.
HandleInv ==
    /\ \A r \in Req : Active(r) =>
        /\ job[r].run \in RunIds /\ handles[job[r].run] = job[r].serial
        /\ job[r].serial >= 1 /\ job[r].serial <= serial
        /\ present => job[r].run <= ses.run
        /\ present /\ job[r].run = ses.run => job[r].serial = serial
        /\ present /\ job[r].serial \notin aborted => job[r].run = ses.run
    /\ \A r, q \in Req : Active(r) /\ Active(q) /\ r # q =>
        /\ job[r].run # job[q].run /\ job[r].serial # job[q].serial
        /\ job[r].serial \in aborted \/ job[q].serial \in aborted
    /\ \A i \in RunIds : handles[i] # 0 => \E r \in Req : Active(r) /\ job[r].run = i
    /\ \A x \in aborted : 1 <= x /\ x <= serial

\* The run of this serial is over and was not aborted (0: there is none).
Ended(s) == s <= serial /\ s \notin aborted /\ \A r \in Req : Active(r) => job[r].serial # s

ResultInv ==
    /\ Ended(shown.serial)
    /\ \A k \in Key : Ended(ses.cache[k].serial)
    /\ \A r \in Req : pc[r] = "validate" => Ended(job[r].serial)

RequestInv ==
    /\ \A r \in Req : Pending(r) => job[r].req >= 1 /\ ~job[r].failed
    /\ present => \A r \in Req : Pending(r) => job[r].req <= ses.req
    /\ present => \A r, q \in Req : Pending(r) /\ Pending(q) /\ r # q =>
                                        job[r].req # job[q].req

\* What was captured under the present version belongs to the present input.
VersionInv ==
    present =>
        /\ ses.version = content
        /\ \A r \in Req : Pending(r) \/ Active(r) => job[r].ver <= content
        /\ \A r \in Req : Active(r) /\ job[r].ver = content => job[r].content = content
        /\ \A r \in Req : Active(r) /\ job[r].ver # content => job[r].serial \in aborted
        /\ \A r \in Req : pc[r] = "validate" /\ job[r].ver = content =>
                              job[r].content = content
        /\ \A k \in Key : ses.cache[k].serial # 0 /\ ses.cache[k].version = content =>
                              ses.cache[k].content = content

\* A plain static run that may still be cached is the one its key joins, so that
\* a cached result is only validated while no run can replace it.
Current(r) == job[r].run = ses.run /\ job[r].ver = content
Replaces(r, k) == pc[r] = "running" /\ job[r].kind.static /\ job[r].kind.key = k /\ Current(r)
CacheInv ==
    present =>
        /\ \A r \in Req, k \in Key : Replaces(r, k) => ses.inFlight[k].id = ses.run
        /\ \A r \in Req, k \in Key :
            pc[r] = "validate" /\ IsLive(r) /\ job[r].kind.key = k =>
                ses.cache[k].serial = job[r].serial /\ \A q \in Req : ~Replaces(q, k)

\* An announced cancellation is withdrawn by the run it is about or by the
\* latest request.
Withdraws(r) ==
    \/ pc[r] = "running" /\ job[r].run = ses.run /\ job[r].serial \in aborted
    \/ job[r].failed /\ job[r].serial \in aborted
    \/ Pending(r) /\ job[r].req = ses.req
StatusInv ==
    /\ present => \A r \in Req :
        pc[r] \in {"notify", "settling"} /\ ~job[r].failed /\ job[r].run = ses.run
            => job[r].serial \in aborted
    /\ status = "cancelling" /\ content = 0 /\ moves = 0 => \E r \in Req : Withdraws(r)

RInv ==
    /\ LType /\ CountInv /\ FolderInv /\ HandleInv /\ ResultInv /\ RequestInv
    /\ VersionInv /\ CacheInv /\ StatusInv

-----------------------------------------------------------------------------
(* Lemmas. *)

LEMMA NoJobType == NoJob \in JobType
  <1>1. PICK k \in Key : TRUE BY ConstantsAssumption
  <1>2. [key |-> k, force |-> TRUE, static |-> TRUE, reveal |-> TRUE] \in Kinds BY DEF Kinds
  <1>3. (CHOOSE x \in Kinds : TRUE) \in Kinds BY <1>2
  <1> QED BY <1>3 DEF NoJob, JobType

LEMMA WaitingFinite == IsFiniteSet(Waiting) /\ Cardinality(Waiting) \in Nat
  <1>1. IsFiniteSet(Waiting) BY FS_Subset, ConstantsAssumption DEF Waiting
  <1> QED BY <1>1, FS_CardinalityType

LEMMA WaitingGrows ==
  ASSUME NEW r \in Req, ~Pending(r), Pending(r)',
         \A q \in Req : q # r => Pending(q)' = Pending(q)
  PROVE  Cardinality(Waiting') = Cardinality(Waiting) + 1
  <1>1. Waiting' = Waiting \cup {r} /\ r \notin Waiting BY DEF Waiting
  <1> QED BY <1>1, WaitingFinite, FS_AddElement

LEMMA WaitingShrinks ==
  ASSUME NEW r \in Req, Pending(r), ~Pending(r)',
         \A q \in Req : q # r => Pending(q)' = Pending(q)
  PROVE  Cardinality(Waiting') = Cardinality(Waiting) - 1 /\ Cardinality(Waiting) >= 1
  <1>1. Waiting' = Waiting \ {r} /\ r \in Waiting BY DEF Waiting
  <1>2. Cardinality(Waiting') = Cardinality(Waiting) - 1
    BY <1>1, WaitingFinite, FS_RemoveElement
  <1>3. IsFiniteSet(Waiting') BY <1>1, WaitingFinite, FS_RemoveElement
  <1>4. Cardinality(Waiting') \in Nat BY <1>3, FS_CardinalityType
  <1> QED BY <1>2, <1>4, WaitingFinite

LEMMA FreshType == FreshSession \in SesType /\ Nothing \in [serial : Nat, content : Nat]
  BY DEF FreshSession, SesType, NoRun, NoCache, Nothing

LEMMA InitRInv == Init => RInv
  <1> SUFFICES ASSUME Init PROVE RInv OBVIOUS
  <1> USE DEF Init
  <1>1. \A r \in Req : ~Active(r) /\ ~Pending(r) /\ pc[r] = "idle" BY DEF Active, Pending
  <1>2. LType
    <2>1. pc \in [Req -> PCs] BY DEF PCs
    <2>2. job \in [Req -> JobType] BY NoJobType
    <2>3. ses \in SesType /\ shown \in [serial : Nat, content : Nat] BY FreshType
    <2>4. handles \in [RunIds -> Nat] /\ aborted \in SUBSET Nat OBVIOUS
    <2>5. issued \in 0..MaxRequests /\ moves \in 0..MaxFolderMoves BY ConstantsAssumption
    <2>6. status \in Statuses BY DEF Statuses
    <2> QED BY <2>1, <2>2, <2>3, <2>4, <2>5, <2>6 DEF LType
  <1>3. CountInv
    <2>1. Waiting = {} BY <1>1 DEF Waiting
    <2> QED BY <2>1, FS_EmptySet DEF CountInv, FreshSession
  <1>4. FolderInv BY DEF FolderInv
  <1>5. HandleInv BY <1>1 DEF HandleInv
  <1>6. ResultInv BY <1>1 DEF ResultInv, Ended, FreshSession, Nothing, NoCache
  <1>7. RequestInv BY <1>1 DEF RequestInv
  <1>8. VersionInv BY <1>1 DEF VersionInv, FreshSession, NoCache
  <1>9. CacheInv BY <1>1 DEF CacheInv, Replaces
  <1>10. StatusInv BY <1>1 DEF StatusInv
  <1> QED BY <1>2, <1>3, <1>4, <1>5, <1>6, <1>7, <1>8, <1>9, <1>10 DEF RInv

-----------------------------------------------------------------------------
(* Steps. *)

\* Nothing but timers and save handlers moves.
LEMMA QuietStep ==
  ASSUME RInv, arming' \in Nat, timer' \in BOOLEAN,
         UNCHANGED <<ses, handles, aborted, pc, job, present, shown, status,
                     warned, issued, serial, content, moves>>
  PROVE  RInv'
  <1> USE DEF Active, Pending, Waiting
  <1>1. LType' BY DEF RInv, LType
  <1>2. CountInv' /\ FolderInv' BY DEF RInv, CountInv, FolderInv
  <1>3. HandleInv' /\ ResultInv' BY DEF RInv, HandleInv, ResultInv, Ended
  <1>4. RequestInv' /\ VersionInv' BY DEF RInv, RequestInv, VersionInv
  <1>5. CacheInv' BY DEF RInv, CacheInv, Replaces, Current, IsLive
  <1>6. StatusInv' BY DEF RInv, StatusInv, Withdraws
  <1> QED BY <1>1, <1>2, <1>3, <1>4, <1>5, <1>6 DEF RInv

\* What a new request leaves behind, in the session s.
LEMMA BeginFacts ==
  ASSUME LType, NEW s \in SesType, NEW r \in Req, NEW k \in Kinds, Begin(s, r, k)
  PROVE  /\ ses' \in SesType /\ ses'.req = s.req + 1 /\ ses'.run = s.run
         /\ ses'.version = s.version /\ ses'.cache = s.cache /\ ses'.inFlight = s.inFlight
         /\ s.req \in Nat /\ s.version \in Nat /\ s.run \in Nat
         /\ job' \in [Req -> JobType] /\ job'[r].req = s.req + 1
         /\ job'[r].ver = s.version /\ ~job'[r].failed
         /\ pc[r] = "idle" /\ pc'[r] = "language" /\ pc' \in [Req -> PCs]
         /\ \A q \in Req : q # r => pc'[q] = pc[q] /\ job'[q] = job[q]
         /\ issued' = issued + 1 /\ issued' \in 0..MaxRequests
  <1> DEFINE new == [NoJob EXCEPT !.kind = k, !.req = s.req + 1, !.ver = s.version]
  <1>0. job \in [Req -> JobType] /\ pc \in [Req -> PCs] /\ issued \in 0..MaxRequests
    BY DEF LType
  <1>1. /\ pc[r] = "idle" /\ pc' = [pc EXCEPT ![r] = "language"]
        /\ issued < MaxRequests /\ issued' = issued + 1
        /\ ses' = [s EXCEPT !.req = @ + 1] /\ job' = [job EXCEPT ![r] = new]
    BY DEF Begin, Goto
  <1>2. /\ ses' \in SesType /\ ses'.req = s.req + 1 /\ ses'.run = s.run
        /\ ses'.version = s.version /\ ses'.cache = s.cache
        /\ ses'.inFlight = s.inFlight /\ s.req \in Nat /\ s.version \in Nat /\ s.run \in Nat
    BY <1>1 DEF SesType
  <1>3. new \in JobType
    <2>1. s.req + 1 \in Nat BY <1>2
    <2> QED BY <1>2, <2>1, NoJobType DEF JobType
  <1>4. new.req = s.req + 1 BY NoJobType DEF JobType
  <1>5. new.ver = s.version BY NoJobType DEF JobType
  <1>6. ~new.failed
    <2>1. new.failed <=> NoJob.failed BY NoJobType DEF JobType
    <2>2. ~NoJob.failed BY DEF NoJob
    <2> QED BY <2>1, <2>2
  <1> HIDE DEF new
  <1>7. /\ job' \in [Req -> JobType] /\ job'[r] = new /\ pc'[r] = "language"
        /\ pc' \in [Req -> PCs]
        /\ \A q \in Req : q # r => pc'[q] = pc[q] /\ job'[q] = job[q]
    BY <1>0, <1>1, <1>3 DEF PCs
  <1>8. issued' \in 0..MaxRequests BY <1>0, <1>1, ConstantsAssumption
  <1> QED BY <1>1, <1>2, <1>4, <1>5, <1>6, <1>7, <1>8

\* A refresh is requested.
LEMMA BeginStep ==
  ASSUME RInv, present, NEW r \in Req, NEW k \in Kinds, Begin(ses, r, k),
         timer' \in BOOLEAN,
         UNCHANGED <<handles, aborted, present, arming, shown, status, warned,
                     serial, content, moves>>
  PROVE  RInv'
  <1>0. LType /\ ses \in SesType /\ job \in [Req -> JobType] /\ pc \in [Req -> PCs]
    BY DEF RInv, LType
  <1>1. pc[r] = "idle" /\ issued' = issued + 1 /\ issued' \in 0..MaxRequests
    BY <1>0, BeginFacts
  <1>3. /\ ses' \in SesType /\ ses'.req = ses.req + 1 /\ ses'.run = ses.run
        /\ ses'.version = ses.version /\ ses'.cache = ses.cache
        /\ ses'.inFlight = ses.inFlight /\ ses.req \in Nat /\ ses.version \in Nat
    BY <1>0, BeginFacts
  <1>4. job'[r].req = ses.req + 1 /\ job'[r].ver = ses.version /\ ~job'[r].failed
    BY <1>0, BeginFacts
  <1>5. /\ pc'[r] = "language" /\ pc'  \in [Req -> PCs] /\ job' \in [Req -> JobType]
        /\ \A q \in Req : q # r => pc'[q] = pc[q] /\ job'[q] = job[q]
    BY <1>0, BeginFacts
  <1>6. /\ \A q \in Req : Active(q)' => Active(q) /\ q # r /\ job'[q] = job[q]
        /\ \A q \in Req : Active(q) => Active(q)' /\ job'[q] = job[q]
        /\ Pending(r)' /\ ~Pending(r)
        /\ \A q \in Req : q # r => Pending(q)' = Pending(q)
    BY <1>1, <1>5 DEF Active, Pending
  <1>7. LType' BY <1>0, <1>1, <1>3, <1>5 DEF LType
  <1>8. CountInv'
    BY <1>0, <1>1, <1>3, <1>6, WaitingGrows, WaitingFinite DEF RInv, CountInv, LType, SesType
  <1>9. FolderInv' BY DEF RInv, FolderInv
  <1>10. HandleInv' BY <1>3, <1>6 DEF RInv, HandleInv
  <1>11. ResultInv' BY <1>3, <1>5, <1>6 DEF RInv, ResultInv, Ended
  <1>12. RequestInv'
    BY <1>0, <1>3, <1>4, <1>5, <1>6 DEF RInv, RequestInv, JobType
  <1>13. VersionInv' BY <1>3, <1>4, <1>5, <1>6 DEF RInv, VersionInv
  <1>14. CacheInv'
    BY <1>3, <1>4, <1>5, <1>6
       DEF RInv, CacheInv, Replaces, Current, IsLive, RequestInv, Pending
  <1>15. StatusInv'
    <2>1. Withdraws(r)' BY <1>3, <1>4, <1>6 DEF Withdraws
    <2> QED BY <1>3, <1>5, <2>1 DEF RInv, StatusInv
  <1> QED BY <1>7, <1>8, <1>9, <1>10, <1>11, <1>12, <1>13, <1>14, <1>15 DEF RInv

LEMMA AbortType ==
  ASSUME LType, NEW id, aborted' = aborted \cup Superseded(id)
  PROVE  aborted' \in SUBSET Nat
  <1>1. \A x \in Superseded(id) : x \in Nat BY DEF LType, Superseded
  <1>2. \A x \in aborted : x \in Nat BY DEF LType
  <1> QED BY <1>1, <1>2

\* Aborting what the handles hold aborts every active refresh and nothing else.
LEMMA AbortAllFacts ==
  ASSUME LType, HandleInv, NEW id, \A q \in Req : Active(q) => job[q].run # id,
         aborted' = aborted \cup Superseded(id)
  PROVE  /\ \A q \in Req : Active(q) => job[q].serial \in aborted'
         /\ \A x \in aborted' : x \in aborted \/ \E q \in Req : Active(q) /\ job[q].serial = x
         /\ aborted \subseteq aborted'
  <1>1. \A q \in Req : Active(q) => /\ job[q].run \in RunIds \ {id}
                                    /\ handles[job[q].run] = job[q].serial
                                    /\ job[q].serial # 0
    BY DEF HandleInv
  <1>2. \A i \in RunIds : handles[i] # 0 =>
          \E q \in Req : Active(q) /\ job[q].run = i /\ job[q].serial = handles[i]
    BY DEF HandleInv
  <1> QED BY <1>1, <1>2 DEF Superseded

LEMMA BumpedFacts ==
  ASSUME LType
  PROVE  /\ Bumped(ses) \in SesType /\ Bumped(ses).version = ses.version + 1
         /\ Bumped(ses).run = ses.run /\ Bumped(ses).req = ses.req
         /\ \A k \in Key : Bumped(ses).cache[k].serial = 0
  <1>0. ses \in SesType BY DEF LType
  <1> DEFINE f == [k \in Key |-> NoRun]
             c == [k \in Key |-> NoCache]
  <1>1. f \in [Key -> [id : Nat, serial : Nat]] BY DEF NoRun
  <1>2. c \in [Key -> [version : Nat, serial : Nat, content : Nat]] BY DEF NoCache
  <1>3. \A k \in Key : c[k].serial = 0 BY DEF NoCache
  <1>4. Bumped(ses) = [ses EXCEPT !.version = @ + 1, !.inFlight = f, !.cache = c]
    BY DEF Bumped
  <1> HIDE DEF f, c
  <1>5. Bumped(ses) \in SesType
    <2>1. ses.version + 1 \in Nat BY <1>0 DEF SesType
    <2>2. \A v \in Nat : [ses EXCEPT !.version = v, !.inFlight = f, !.cache = c] \in SesType
      BY <1>0, <1>1, <1>2 DEF SesType
    <2> QED BY <1>4, <2>1, <2>2
  <1>6. Bumped(ses).version = ses.version + 1 /\ Bumped(ses).run = ses.run
        /\ Bumped(ses).req = ses.req /\ Bumped(ses).cache = c
    BY <1>0, <1>4 DEF SesType
  <1> QED BY <1>3, <1>5, <1>6

\* The input changes: every run is aborted and every cached result dropped, and
\* the refreshes of B, at most one, are requested under the new version.
LEMMA BumpStep ==
  ASSUME RInv, present, Invalidate, LType', CountInv',
         UNCHANGED <<handles, present, shown, status, serial, moves>>,
         ses'.version = ses.version + 1, ses'.run = ses.run, ses'.req >= ses.req,
         \A k \in Key : ses'.cache[k].serial = 0,
         NEW B \in SUBSET Req, \A p, q \in B : p = q,
         \A q \in Req \ B : pc'[q] = pc[q] /\ job'[q] = job[q],
         \A q \in B : /\ pc[q] = "idle" /\ pc'[q] = "language"
                      /\ ses'.req = ses.req + 1 /\ job'[q].req = ses'.req
                      /\ job'[q].ver = ses'.version /\ ~job'[q].failed
  PROVE  RInv'
  <1>0. /\ LType /\ ses \in SesType /\ ses' \in SesType /\ job \in [Req -> JobType]
        /\ handles \in [RunIds -> Nat] /\ content \in Nat
    BY DEF RInv, LType
  <1>1. /\ content' = content + 1 /\ aborted' = aborted \cup Superseded(0)
    BY DEF Invalidate
  <1>3. /\ \A q \in Req : Active(q)' => q \notin B /\ Active(q) /\ job'[q] = job[q]
        /\ \A q \in Req : Active(q) => q \notin B /\ Active(q)' /\ job'[q] = job[q]
        /\ \A q \in Req : q \notin B => Pending(q)' = Pending(q)
        /\ \A q \in B : Pending(q)'
    BY DEF Active, Pending
  <1>4. /\ \A q \in Req : Active(q) => job[q].serial \in aborted'
        /\ \A x \in aborted' : x \in aborted \/ \E q \in Req : Active(q) /\ job[q].serial = x
        /\ aborted \subseteq aborted'
    <2>1. \A q \in Req : Active(q) => job[q].run # 0
      BY ConstantsAssumption DEF RInv, HandleInv, RunIds
    <2> QED BY <1>1, <2>1, AbortAllFacts DEF RInv
  <1>5. HandleInv /\ ResultInv BY DEF RInv
  <1>6. FolderInv' BY DEF RInv, FolderInv
  <1>7. HandleInv' BY <1>3, <1>4, <1>5 DEF HandleInv
  <1>8. ResultInv'
    <2>1. \A x : Ended(x) => Ended(x)' BY <1>3, <1>4 DEF Ended
    <2>2. Ended(0)' BY <1>0, <1>3, <1>4, <1>5 DEF Ended, LType, HandleInv
    <2>3. \A q \in Req : pc'[q] = "validate" => pc[q] = "validate" /\ job'[q] = job[q]
      OBVIOUS
    <2> QED BY <2>1, <2>2, <2>3 DEF RInv, ResultInv
  <1>9. RequestInv'
    <2>1. \A q \in Req : Pending(q)' => job'[q].req \in Nat /\ job'[q].req >= 1 /\ ~job'[q].failed
                                        /\ job'[q].req <= ses'.req
      <3> SUFFICES ASSUME NEW q \in Req, Pending(q)'
                   PROVE  job'[q].req \in Nat /\ job'[q].req >= 1 /\ ~job'[q].failed
                          /\ job'[q].req <= ses'.req
        OBVIOUS
      <3>1. CASE q \in B BY <1>0, <3>1 DEF SesType
      <3>2. CASE q \notin B
        BY <1>0, <1>3, <3>2 DEF RInv, RequestInv, SesType, JobType
      <3> QED BY <3>1, <3>2
    <2>2. \A p, q \in Req : Pending(p)' /\ Pending(q)' /\ p # q => job'[p].req # job'[q].req
      <3> SUFFICES ASSUME NEW p \in Req, NEW q \in Req, Pending(p)', Pending(q)', p # q,
                          q \notin B
                   PROVE  job'[p].req # job'[q].req
        OBVIOUS
      <3>1. Pending(q) /\ job'[q] = job[q] /\ job[q].req <= ses.req /\ job[q].req \in Nat
        BY <1>0, <1>3 DEF RInv, RequestInv, JobType
      <3>2. CASE p \in B BY <1>0, <3>1, <3>2 DEF SesType
      <3>3. CASE p \notin B BY <1>3, <3>1, <3>3 DEF RInv, RequestInv
      <3> QED BY <3>2, <3>3
    <2> QED BY <2>1, <2>2 DEF RequestInv
  <1>10. VersionInv'
    <2>1. \A q \in Req : Pending(q)' \/ Active(q)' => job'[q].ver <= content'
      <3> SUFFICES ASSUME NEW q \in Req, Pending(q)' \/ Active(q)'
                   PROVE  job'[q].ver <= content'
        OBVIOUS
      <3>1. ses.version = content BY DEF RInv, VersionInv
      <3>2. CASE q \in B BY <1>0, <1>1, <3>1, <3>2
      <3>3. CASE q \notin B
        BY <1>0, <1>1, <1>3, <3>1, <3>3 DEF RInv, VersionInv, JobType
      <3> QED BY <3>2, <3>3
    <2>2. \A q \in Req : q \notin B /\ (Pending(q) \/ Active(q)) => job[q].ver # content'
      BY <1>0, <1>1 DEF RInv, VersionInv, JobType
    <2>3. \A q \in Req : Active(q)' => job'[q].ver # content' /\ job'[q].serial \in aborted'
      BY <1>3, <1>4, <2>2
    <2>4. \A q \in Req : pc'[q] = "validate" => job'[q].ver # content'
      BY <1>3, <2>2 DEF Pending
    <2>5. ses'.version = content' BY <1>1 DEF RInv, VersionInv
    <2> QED BY <2>1, <2>3, <2>4, <2>5 DEF VersionInv
  <1>11. CacheInv'
    <2>1. ses'.version = content' BY <1>1 DEF RInv, VersionInv
    <2>2. \A q \in Req : q \notin B /\ (Pending(q) \/ Active(q)) => job[q].ver # content'
      BY <1>0, <1>1 DEF RInv, VersionInv, JobType
    <2>3. \A q \in Req : pc'[q] = "running" \/ pc'[q] = "validate" => job'[q].ver # content'
      BY <1>3, <2>2 DEF Active, Pending
    <2> QED BY <2>1, <2>3 DEF CacheInv, Replaces, Current, IsLive
  <1>12. StatusInv'
    <2>1. content' # 0 BY <1>0, <1>1
    <2> QED BY <1>3, <1>4, <2>1 DEF StatusInv, Active
  <1> QED BY <1>6, <1>7, <1>8, <1>9, <1>10, <1>11, <1>12 DEF RInv

LEMMA SaveStep == ASSUME RInv, NEW m, Save(m) PROVE RInv'
  <1>0. LType /\ content \in Nat /\ arming \in Nat BY DEF RInv, LType
  <1>1. /\ ses' = Bumped(ses) /\ arming' \in Nat /\ present /\ Invalidate
        /\ UNCHANGED <<handles, pc, job, present, timer, shown, status, warned,
                       issued, serial, moves>>
    BY <1>0 DEF Save
  <1>2. aborted' \in SUBSET Nat /\ content' \in Nat
    BY <1>0, <1>1, AbortType DEF Invalidate
  <1>3. LType' BY <1>0, <1>1, <1>2, BumpedFacts DEF LType
  <1>4. CountInv' BY <1>0, <1>1, BumpedFacts DEF RInv, CountInv, Waiting, Pending
  <1>5. ses.req \in Nat BY <1>0 DEF LType, SesType
  <1>6. /\ ses'.version = ses.version + 1 /\ ses'.run = ses.run /\ ses'.req >= ses.req
        /\ \A k \in Key : ses'.cache[k].serial = 0
    BY <1>0, <1>1, <1>5, BumpedFacts
  <1> DEFINE B == {}
  <1>7. B \in SUBSET Req /\ \A p, q \in B : p = q OBVIOUS
  <1>8. \A q \in Req \ B : pc'[q] = pc[q] /\ job'[q] = job[q] BY <1>1
  <1> QED BY <1>1, <1>3, <1>4, <1>6, <1>7, <1>8, BumpStep

LEMMA ChangeStep == ASSUME RInv, NEW r \in Req, ChangeAndRefresh(r) PROVE RInv'
  <1>0. LType /\ content \in Nat /\ issued \in Nat BY DEF RInv, LType
  <1>1. PICK kind \in Kinds : Begin(Bumped(ses), r, kind)
    BY DEF ChangeAndRefresh, AutoKinds, CodemodKinds
  <1>2. /\ present /\ Invalidate
        /\ UNCHANGED <<handles, present, arming, timer, shown, status, warned, serial, moves>>
    BY DEF ChangeAndRefresh
  <1>3. aborted' \in SUBSET Nat /\ content' \in Nat
    BY <1>0, <1>2, AbortType DEF Invalidate
  <1>4. Bumped(ses) \in SesType BY <1>0, BumpedFacts
  <1>5. /\ ses' \in SesType /\ ses'.req = Bumped(ses).req + 1 /\ ses'.run = Bumped(ses).run
        /\ ses'.version = Bumped(ses).version /\ ses'.cache = Bumped(ses).cache
    BY <1>0, <1>1, <1>4, BeginFacts
  <1>6. /\ job' \in [Req -> JobType] /\ job'[r].req = Bumped(ses).req + 1
        /\ job'[r].ver = Bumped(ses).version /\ ~job'[r].failed
        /\ pc[r] = "idle" /\ pc'[r] = "language" /\ pc' \in [Req -> PCs]
        /\ \A q \in Req : q # r => pc'[q] = pc[q] /\ job'[q] = job[q]
    BY <1>0, <1>1, <1>4, BeginFacts
  <1>7. issued' = issued + 1 /\ issued' \in 0..MaxRequests
    BY <1>0, <1>1, <1>4, BeginFacts
  <1>8. /\ ses.req \in Nat /\ ses.run \in Nat /\ ses'.version = ses.version + 1
        /\ ses'.run = ses.run /\ ses'.req = ses.req + 1
        /\ \A k \in Key : ses'.cache[k].serial = 0
    BY <1>0, <1>5, BumpedFacts DEF LType, SesType
  <1>9. LType' BY <1>0, <1>2, <1>3, <1>5, <1>6, <1>7 DEF LType
  <1>10. CountInv'
    <2>1. Cardinality(Waiting') = Cardinality(Waiting) + 1
      BY <1>6, WaitingGrows DEF Pending
    <2>2. serial' = serial /\ serial \in Nat BY <1>0, <1>2 DEF LType
    <2> QED BY <1>0, <1>7, <1>8, <2>1, <2>2, WaitingFinite DEF RInv, CountInv
  <1> DEFINE B == {r}
  <1>11. /\ B \in SUBSET Req /\ \A p, q \in B : p = q
         /\ \A q \in Req \ B : pc'[q] = pc[q] /\ job'[q] = job[q]
         /\ \A q \in B : /\ pc[q] = "idle" /\ pc'[q] = "language"
                         /\ ses'.req = ses.req + 1 /\ job'[q].req = ses'.req
                         /\ job'[q].ver = ses'.version /\ ~job'[q].failed
    BY <1>0, <1>5, <1>6, <1>8, BumpedFacts
  <1> HIDE DEF B
  <1>12. ses'.req >= ses.req BY <1>8
  <1> QED BY <1>2, <1>8, <1>9, <1>10, <1>11, <1>12, BumpStep

LEMMA RemoveStep == ASSUME RInv, RemoveFolder, MaxFolderMoves <= 1 PROVE RInv'
  <1> USE DEF Active, Pending, Waiting
  <1>0. /\ LType /\ present /\ present' = FALSE /\ moves' = moves + 1 /\ timer' = FALSE
        /\ shown' = Nothing /\ ses' = FreshSession /\ moves \in 0..MaxFolderMoves
        /\ UNCHANGED <<handles, aborted, pc, job, arming, status, warned, issued, serial, content>>
    BY DEF RInv, LType, RemoveFolder
  <1>1. moves' = 1 /\ moves' \in 0..MaxFolderMoves
    BY <1>0, ConstantsAssumption DEF RInv, FolderInv, RemoveFolder
  <1>2. LType' BY <1>0, <1>1, FreshType DEF LType
  <1>3. CountInv'
    <2>1. ses.run \in Nat /\ issued \in Nat /\ ses'.run = 0
      BY <1>0 DEF LType, SesType, FreshSession
    <2> QED BY <1>0, <2>1, WaitingFinite DEF RInv, CountInv
  <1>4. FolderInv' BY <1>0, <1>1 DEF FolderInv
  <1>5. HandleInv' BY <1>0 DEF RInv, HandleInv
  <1>6. ResultInv'
    <2>1. \A x : Ended(x) => Ended(x)' BY <1>0 DEF Ended
    <2>2. Ended(0)' BY <1>0 DEF Ended, RInv, LType, HandleInv
    <2>3. shown'.serial = 0 /\ \A k \in Key : ses'.cache[k].serial = 0
      BY <1>0 DEF Nothing, FreshSession, NoCache
    <2> QED BY <1>0, <2>1, <2>2, <2>3 DEF RInv, ResultInv
  <1>7. RequestInv' BY <1>0 DEF RInv, RequestInv
  <1>8. VersionInv' /\ CacheInv' BY <1>0 DEF VersionInv, CacheInv
  <1>9. StatusInv' BY <1>0, <1>1 DEF StatusInv
  <1> QED BY <1>2, <1>3, <1>4, <1>5, <1>6, <1>7, <1>8, <1>9 DEF RInv

LEMMA CancelStep == ASSUME RInv, Cancel PROVE RInv'
  <1> USE DEF Active, Pending, Waiting
  <1>0. /\ LType /\ aborted' = aborted \cup Superseded(0) /\ status' = "cancelling"
        /\ UNCHANGED <<ses, handles, pc, job, present, arming, timer, shown,
                       warned, issued, serial, content, moves>>
        /\ HandleInv /\ ResultInv
    BY DEF RInv, Cancel
  <1>1. /\ \A q \in Req : Active(q) => job[q].serial \in aborted'
        /\ \A x \in aborted' : x \in aborted \/ \E q \in Req : Active(q) /\ job[q].serial = x
        /\ aborted \subseteq aborted'
    <2>1. \A q \in Req : Active(q) => job[q].run # 0
      BY <1>0, ConstantsAssumption DEF HandleInv, RunIds
    <2> QED BY <1>0, <2>1, AbortAllFacts
  <1>2. LType' BY <1>0, AbortType DEF LType, Statuses
  <1>3. CountInv' /\ FolderInv' BY <1>0 DEF RInv, CountInv, FolderInv
  <1>4. HandleInv' BY <1>0, <1>1 DEF HandleInv
  <1>5. ResultInv'
    <2>1. \A x : Ended(x) => Ended(x)' BY <1>0, <1>1 DEF Ended
    <2> QED BY <1>0, <2>1 DEF ResultInv
  <1>6. RequestInv' BY <1>0 DEF RInv, RequestInv
  <1>7. VersionInv' BY <1>0, <1>1 DEF RInv, VersionInv
  <1>8. CacheInv' BY <1>0 DEF RInv, CacheInv, Replaces, Current, IsLive
  <1>9. StatusInv'
    <2>1. \A q \in Req : pc[q] \in {"notify", "settling"} => job[q].serial \in aborted'
      BY <1>1
    <2>2. ASSUME content = 0, moves = 0 PROVE \E q \in Req : Withdraws(q)'
      <3>1. present BY <2>2 DEF RInv, FolderInv
      <3>2. PICK i \in RunIds : handles[i] # 0 /\ handles[i] \notin aborted
        BY <1>0 DEF Cancel, Superseded
      <3>3. PICK q \in Req : Active(q) /\ job[q].run = i BY <1>0, <3>2 DEF HandleInv
      <3>4. job[q].serial \notin aborted BY <1>0, <3>2, <3>3 DEF HandleInv
      <3>5. job[q].run = ses.run /\ job[q].serial \in aborted'
        BY <1>0, <1>1, <3>1, <3>3, <3>4 DEF HandleInv
      <3>6. pc[q] = "running" \/ job[q].failed BY <3>1, <3>3, <3>4, <3>5 DEF RInv, StatusInv
      <3> QED BY <1>0, <3>5, <3>6 DEF Withdraws
    <2> QED BY <1>0, <2>1, <2>2 DEF StatusInv
  <1> QED BY <1>2, <1>3, <1>4, <1>5, <1>6, <1>7, <1>8, <1>9 DEF RInv

LEMMA DropStep == ASSUME RInv, NEW r \in Req, DropStale(r) PROVE RInv'
  <1>0. /\ LType /\ Pending(r) /\ ~IsLive(r) /\ pc \in [Req -> PCs] /\ job \in [Req -> JobType]
        /\ pc' = [pc EXCEPT ![r] = "idle"]
        /\ UNCHANGED <<ses, handles, aborted, job, present, arming, timer, shown,
                       status, warned, issued, serial, content, moves>>
    BY DEF RInv, LType, DropStale, Pending
  <1>1. /\ pc' \in [Req -> PCs] /\ pc'[r] = "idle" /\ \A q \in Req : q # r => pc'[q] = pc[q]
    BY <1>0 DEF PCs
  <1>2. /\ \A q \in Req : Active(q)' <=> Active(q)
        /\ \A q \in Req : Pending(q)' <=> Pending(q) /\ q # r
    BY <1>0, <1>1 DEF Active, Pending
  <1>3. LType' BY <1>0, <1>1 DEF LType
  <1>4. CountInv'
    <2>1. Cardinality(Waiting') = Cardinality(Waiting) - 1
      BY <1>0, <1>1, <1>2, WaitingShrinks DEF Pending
    <2> QED BY <1>0, <2>1, WaitingFinite DEF RInv, CountInv, LType, SesType
  <1>5. FolderInv' BY <1>0 DEF RInv, FolderInv
  <1>6. HandleInv' BY <1>0, <1>2 DEF RInv, HandleInv
  <1>7. ResultInv' BY <1>0, <1>1, <1>2 DEF RInv, ResultInv, Ended
  <1>8. RequestInv' BY <1>0, <1>2 DEF RInv, RequestInv
  <1>9. VersionInv' BY <1>0, <1>1, <1>2 DEF RInv, VersionInv
  <1>10. CacheInv' BY <1>0, <1>1 DEF RInv, CacheInv, Replaces, Current, IsLive
  <1>11. StatusInv'
    <2>1. ASSUME status = "cancelling", content = 0, moves = 0
          PROVE  \E q \in Req : Withdraws(q)'
      <3>1. PICK q \in Req : Withdraws(q) BY <2>1 DEF RInv, StatusInv
      <3>2. CASE q # r BY <1>0, <1>1, <3>1, <3>2 DEF Withdraws, Pending
      <3>3. CASE q = r
        <4>1. present /\ job[r].ver = 0 /\ ses.version = 0
          BY <1>0, <2>1 DEF RInv, FolderInv, VersionInv, JobType
        <4>2. ~job[r].failed BY <1>0 DEF RInv, RequestInv
        <4> QED BY <1>0, <3>1, <3>3, <4>1, <4>2 DEF Withdraws, IsLive, Pending
      <3> QED BY <3>2, <3>3
    <2> QED BY <1>0, <1>1, <2>1 DEF RInv, StatusInv
  <1> QED BY <1>3, <1>4, <1>5, <1>6, <1>7, <1>8, <1>9, <1>10, <1>11 DEF RInv

\* A refresh that is still wanted belongs to a folder that is there, and it is
\* the only one.
LEMMA LiveFacts ==
  ASSUME RInv, NEW r \in Req, Pending(r), IsLive(r)
  PROVE  /\ present /\ job[r].ver = content /\ job[r].req = ses.req
         /\ \A q \in Req : Pending(q) /\ q # r => job[q].req # ses.req
  <1>1. present
    <2>1. job[r].req >= 1 BY DEF RInv, RequestInv
    <2>2. ~present => ses.req = 0 BY DEF RInv, FolderInv, FreshSession
    <2> QED BY <2>1, <2>2 DEF IsLive
  <1> QED BY <1>1 DEF IsLive, RInv, VersionInv, RequestInv

\* A live refresh joins a run, or goes on to validate or to start one.
LEMMA MoveStep ==
  ASSUME RInv, NEW r \in Req, Pending(r), IsLive(r),
         pc' \in [Req -> PCs], job' \in [Req -> JobType], status' \in Statuses,
         UNCHANGED <<ses, handles, aborted, present, arming, timer, shown,
                     warned, issued, serial, content, moves>>,
         pc'[r] \in {"joined", "validate", "recheck"},
         pc'[r] = "joined" => status' # "cancelling",
         pc'[r] # "joined" => status' = status,
         \A q \in Req : q # r => pc'[q] = pc[q] /\ job'[q] = job[q],
         job'[r].kind = job[r].kind, job'[r].req = job[r].req, job'[r].ver = job[r].ver,
         job'[r].failed <=> job[r].failed,
         pc'[r] = "validate" =>
            /\ Ended(job'[r].serial) /\ job'[r].content = content
            /\ ses.cache[KeyOf(r)].serial = job'[r].serial
            /\ \A q \in Req : ~Replaces(q, KeyOf(r))
  PROVE  RInv'
  <1>0. LType /\ present BY LiveFacts DEF RInv
  <1>1. /\ \A q \in Req : Active(q)' => Active(q) /\ q # r /\ job'[q] = job[q]
        /\ \A q \in Req : Active(q) => Active(q)' /\ job'[q] = job[q]
        /\ \A q \in Req : Pending(q)' => Pending(q)
        /\ \A q \in Req : q # r => Pending(q)' = Pending(q)
        /\ pc'[r] # "joined" => Pending(r)'
    BY DEF Active, Pending
  <1>2. LType' BY <1>0 DEF LType
  <1>3. CountInv'
    <2>1. CASE pc'[r] = "joined"
      <3>1. Cardinality(Waiting') = Cardinality(Waiting) - 1
        BY <1>1, <2>1, WaitingShrinks DEF Pending
      <3> QED BY <1>0, <3>1, WaitingFinite DEF RInv, CountInv, LType, SesType
    <2>2. CASE pc'[r] # "joined"
      <3>1. Waiting' = Waiting BY <1>1, <2>2 DEF Waiting
      <3> QED BY <3>1 DEF RInv, CountInv
    <2> QED BY <2>1, <2>2
  <1>4. FolderInv' BY DEF RInv, FolderInv
  <1>5. HandleInv' BY <1>1 DEF RInv, HandleInv
  <1>6. \A x : Ended(x) => Ended(x)' BY <1>1 DEF Ended
  <1>7. ResultInv' BY <1>6 DEF RInv, ResultInv
  <1>8. RequestInv' BY <1>1 DEF RInv, RequestInv
  <1>9. VersionInv' BY <1>1 DEF RInv, VersionInv
  <1>10. CacheInv'
    <2>1. \A q \in Req, k \in Key : Replaces(q, k)' <=> Replaces(q, k)
      BY <1>1 DEF Replaces, Current, Active
    <2>2. KeyOf(r) = job[r].kind.key /\ KeyOf(r) \in Key
      BY <1>0 DEF KeyOf, LType, JobType, Kinds
    <2>3. \A q \in Req : pc'[q] = "validate" /\ q # r =>
            pc[q] = "validate" /\ (IsLive(q)' <=> IsLive(q))
      BY DEF IsLive
    <2>4. \A q \in Req, k \in Key : pc'[q] = "validate" /\ IsLive(q)' /\ job'[q].kind.key = k =>
            ses.cache[k].serial = job'[q].serial /\ \A p \in Req : ~Replaces(p, k)'
      <3> SUFFICES ASSUME NEW q \in Req, NEW k \in Key, pc'[q] = "validate", IsLive(q)',
                          job'[q].kind.key = k
                   PROVE  ses.cache[k].serial = job'[q].serial /\ \A p \in Req : ~Replaces(p, k)'
        OBVIOUS
      <3>1. CASE q = r BY <2>1, <2>2, <3>1
      <3>2. CASE q # r
        <4>1. pc[q] = "validate" /\ IsLive(q) /\ job[q].kind.key = k BY <2>3, <3>2
        <4>2. ses.cache[k].serial = job[q].serial /\ \A p \in Req : ~Replaces(p, k)
          BY <1>0, <4>1 DEF RInv, CacheInv
        <4> QED BY <2>1, <3>2, <4>2
      <3> QED BY <3>1, <3>2
    <2>5. \A q \in Req, k \in Key : Replaces(q, k)' => ses'.inFlight[k].id = ses'.run
      BY <1>0, <2>1 DEF RInv, CacheInv
    <2> QED BY <2>4, <2>5 DEF CacheInv
  <1>11. StatusInv'
    <2>1. ASSUME status = "cancelling", content = 0, moves = 0, pc'[r] # "joined"
          PROVE  \E q \in Req : Withdraws(q)'
      <3>1. PICK q \in Req : Withdraws(q) BY <2>1 DEF RInv, StatusInv
      <3>2. CASE q # r BY <3>1, <3>2 DEF Withdraws, Pending
      <3>3. CASE q = r
        <4>1. Pending(r)' /\ job'[r].req = ses'.req BY <1>1, <2>1 DEF IsLive
        <4> QED BY <3>3, <4>1 DEF Withdraws
      <3> QED BY <3>2, <3>3
    <2> QED BY <1>1, <2>1 DEF RInv, StatusInv
  <1> QED BY <1>2, <1>3, <1>4, <1>5, <1>7, <1>8, <1>9, <1>10, <1>11 DEF RInv

LEMMA ReuseChecks ==
  ASSUME RInv, NEW r \in Req, Join(r) \/ CheckCached(r) \/ RejectCached(r)
  PROVE  RInv'
  <1>0. /\ LType /\ pc \in [Req -> PCs] /\ job \in [Req -> JobType] /\ ses \in SesType
        /\ IsLive(r) /\ Pending(r)
    BY DEF RInv, LType, Join, CheckCached, RejectCached, Goto, Pending
  <1>1. present /\ job[r].ver = content /\ ses.version = content
    BY <1>0, LiveFacts DEF RInv, VersionInv
  <1>2. KeyOf(r) \in Key BY <1>0 DEF KeyOf, JobType, Kinds
  <1>7. job[r] \in JobType BY <1>0
  <1>3. \A n, m \in Nat : /\ [job[r] EXCEPT !.serial = n, !.content = m] \in JobType
                          /\ [job[r] EXCEPT !.serial = n] \in JobType
    BY <1>7 DEF JobType
  <1>4. CASE Join(r)
    <2> DEFINE n == ses.inFlight[KeyOf(r)].serial
    <2>1. n \in Nat BY <1>0, <1>2 DEF SesType
    <2>2. /\ pc' = [pc EXCEPT ![r] = "joined"] /\ status' = "analysing"
          /\ job' = [job EXCEPT ![r] = [@ EXCEPT !.serial = n]]
          /\ UNCHANGED <<ses, handles, aborted, present, arming, timer, shown,
                         warned, issued, serial, content, moves>>
      BY <1>4 DEF Join, Goto
    <2> HIDE DEF n
    <2>3. /\ pc' \in [Req -> PCs] /\ pc'[r] = "joined" /\ status' \in Statuses
          /\ \A q \in Req : q # r => pc'[q] = pc[q] /\ job'[q] = job[q]
      BY <1>0, <2>2 DEF PCs, Statuses
    <2>4. job' \in [Req -> JobType] /\ job'[r] = [job[r] EXCEPT !.serial = n]
      BY <1>0, <1>3, <2>1, <2>2
    <2>5. /\ job'[r].kind = job[r].kind /\ job'[r].req = job[r].req
          /\ job'[r].ver = job[r].ver /\ (job'[r].failed <=> job[r].failed)
      BY <1>7, <2>4 DEF JobType
    <2> QED BY <1>0, <2>2, <2>3, <2>4, <2>5, MoveStep
  <1>5. CASE CheckCached(r)
    <2> DEFINE n == ses.cache[KeyOf(r)].serial
               m == ses.cache[KeyOf(r)].content
    <2>1. n \in Nat /\ m \in Nat BY <1>0, <1>2 DEF SesType
    <2>2. /\ pc' = [pc EXCEPT ![r] = "validate"]
          /\ job' = [job EXCEPT ![r] = [@ EXCEPT !.serial = n, !.content = m]]
          /\ UNCHANGED <<ses, handles, aborted, present, arming, timer, shown, status,
                         warned, issued, serial, content, moves>>
          /\ ~Joins(r) /\ CacheHit(KeyOf(r)) /\ ~job[r].kind.force
      BY <1>5 DEF CheckCached, Goto
    <2>3. Ended(n) BY <1>2 DEF RInv, ResultInv
    <2>4. m = content BY <1>1, <1>2, <2>2 DEF CacheHit, RInv, VersionInv
    <2>5. \A q \in Req : ~Replaces(q, KeyOf(r))
      <3> SUFFICES ASSUME NEW q \in Req, Replaces(q, KeyOf(r)) PROVE FALSE OBVIOUS
      <3>1. ses.inFlight[KeyOf(r)].id = ses.run BY <1>1, <1>2 DEF RInv, CacheInv
      <3>2. Active(q) /\ job[q].run = ses.run BY DEF Replaces, Current, Active
      <3>3. job[q].run \in RunIds BY <3>2 DEF RInv, HandleInv
      <3>4. ses.run # 0 BY <3>2, <3>3, ConstantsAssumption DEF RunIds
      <3> QED BY <2>2, <3>1, <3>4 DEF Joins, NoRun
    <2>6. /\ pc' \in [Req -> PCs] /\ pc'[r] = "validate"
          /\ \A q \in Req : q # r => pc'[q] = pc[q] /\ job'[q] = job[q]
      BY <1>0, <2>2 DEF PCs
    <2>7. ses.cache[KeyOf(r)].serial = n OBVIOUS
    <2> HIDE DEF n, m
    <2>8. job' \in [Req -> JobType] /\ job'[r] = [job[r] EXCEPT !.serial = n, !.content = m]
      BY <1>0, <1>3, <2>1, <2>2
    <2>9. /\ job'[r].kind = job[r].kind /\ job'[r].req = job[r].req
          /\ job'[r].ver = job[r].ver /\ (job'[r].failed <=> job[r].failed)
          /\ job'[r].serial = n /\ job'[r].content = m
      BY <1>7, <2>8 DEF JobType
    <2>10. status' \in Statuses BY <1>0, <2>2 DEF LType
    <2> QED BY <1>0, <2>2, <2>3, <2>4, <2>5, <2>6, <2>7, <2>8, <2>9, <2>10, MoveStep
  <1>6. CASE RejectCached(r)
    <2>1. /\ pc' \in [Req -> PCs] /\ pc'[r] = "recheck" /\ job' = job
          /\ \A q \in Req : q # r => pc'[q] = pc[q]
          /\ UNCHANGED <<ses, handles, aborted, present, arming, timer, shown, status,
                         warned, issued, serial, content, moves>>
      BY <1>0, <1>6 DEF RejectCached, Goto, PCs
    <2>2. status' \in Statuses BY <1>0, <2>1 DEF LType
    <2> QED BY <1>0, <2>1, <2>2, MoveStep
  <1> QED BY <1>4, <1>5, <1>6

\* What starting a run leaves behind, from the session s.
LEMMA StartFacts ==
  ASSUME LType, NEW s \in SesType, NEW r \in Req, StartRun(r, s), s.run + 1 \in RunIds
  PROVE  /\ ses' \in SesType /\ ses'.run = s.run + 1 /\ ses'.req = s.req
         /\ ses'.version = s.version /\ ses'.cache = s.cache
         /\ job[r].kind.static => ses'.inFlight[KeyOf(r)].id = s.run + 1
         /\ pc' \in [Req -> PCs] /\ pc'[r] = "running" /\ job' \in [Req -> JobType]
         /\ \A q \in Req : q # r => pc'[q] = pc[q] /\ job'[q] = job[q]
         /\ job'[r].run = s.run + 1 /\ job'[r].serial = serial + 1 /\ job'[r].content = content
         /\ job'[r].kind = job[r].kind /\ job'[r].ver = job[r].ver
         /\ handles' \in [RunIds -> Nat] /\ handles'[s.run + 1] = serial + 1
         /\ \A i \in RunIds : i # s.run + 1 => handles'[i] = handles[i]
         /\ serial' = serial + 1 /\ serial' \in Nat /\ status' = "analysing"
         /\ aborted' = aborted \cup Superseded(s.run + 1)
         /\ UNCHANGED <<present, arming, timer, shown, warned, issued, content, moves>>
  <1> DEFINE id == s.run + 1
             n == serial + 1
             k == KeyOf(r)
             f == [s.inFlight EXCEPT ![k] = [id |-> id, serial |-> n]]
             w == [job[r] EXCEPT !.run = id, !.serial = n, !.content = content]
  <1>1. /\ job \in [Req -> JobType] /\ pc \in [Req -> PCs] /\ job[r] \in JobType
        /\ handles \in [RunIds -> Nat] /\ n \in Nat /\ content \in Nat
    BY DEF LType
  <1>2. id \in Nat /\ s.inFlight \in [Key -> [id : Nat, serial : Nat]] BY DEF SesType
  <1>3. k \in Key BY <1>1 DEF KeyOf, JobType, Kinds
  <1>4. /\ pc' = [pc EXCEPT ![r] = "running"] /\ serial' = n
        /\ ses' = IF job[r].kind.static THEN [s EXCEPT !.run = id, !.inFlight = f]
                  ELSE [s EXCEPT !.run = id]
        /\ aborted' = aborted \cup Superseded(id) /\ handles' = [handles EXCEPT ![id] = n]
        /\ job' = [job EXCEPT ![r] = w] /\ status' = "analysing"
        /\ UNCHANGED <<present, arming, timer, shown, warned, issued, content, moves>>
    BY DEF StartRun
  <1>5. f \in [Key -> [id : Nat, serial : Nat]] /\ f[k].id = id BY <1>1, <1>2, <1>3
  <1>6. w \in JobType BY <1>1, <1>2 DEF JobType
  <1>7. /\ w.run = id /\ w.serial = n /\ w.content = content
        /\ w.kind = job[r].kind /\ w.ver = job[r].ver
    BY <1>1 DEF JobType
  <1> HIDE DEF f, w
  <1>8. /\ ses' \in SesType /\ ses'.run = id /\ ses'.req = s.req /\ ses'.version = s.version
        /\ ses'.cache = s.cache
        /\ job[r].kind.static => ses'.inFlight[k].id = id
    BY <1>2, <1>4, <1>5 DEF SesType
  <1>9. /\ pc' \in [Req -> PCs] /\ pc'[r] = "running"
        /\ \A q \in Req : q # r => pc'[q] = pc[q] /\ job'[q] = job[q]
        /\ job' \in [Req -> JobType] /\ job'[r] = w
    BY <1>1, <1>4, <1>6 DEF PCs
  <1>10. /\ handles' \in [RunIds -> Nat] /\ handles'[id] = n
         /\ \A i \in RunIds : i # id => handles'[i] = handles[i]
    BY <1>1, <1>4
  <1> QED BY <1>1, <1>4, <1>7, <1>8, <1>9, <1>10

\* A run is started, after its cache entry was kept or deleted.
LEMMA StartStep ==
  ASSUME RInv, NEW r \in Req, Pending(r), IsLive(r), NEW s \in SesType,
         s.run = ses.run, s.version = ses.version, s.req = ses.req,
         \A k \in Key : s.cache[k] = ses.cache[k] \/ s.cache[k] = NoCache,
         StartRun(r, s)
  PROVE  RInv'
  <1> DEFINE id == ses.run + 1
  <1>0. /\ LType /\ HandleInv /\ ResultInv /\ VersionInv /\ ses.run \in Nat /\ serial \in Nat
        /\ present /\ job[r].ver = content /\ ses.version = content
        /\ \A q \in Req : Pending(q) /\ q # r => job[q].req # ses.req
    BY LiveFacts DEF RInv, LType, SesType, VersionInv
  <1>1. Cardinality(Waiting) >= 1
    <2>1. {r} \subseteq Waiting BY DEF Waiting
    <2> QED BY <2>1, WaitingFinite, FS_Subset, FS_EmptySet, FS_Singleton
  <1>2. id \in RunIds /\ s.run + 1 = id
    <2>1. issued <= MaxRequests /\ issued \in Nat BY <1>0, ConstantsAssumption DEF LType
    <2>2. ses.run + Cardinality(Waiting) <= issued BY DEF RInv, CountInv
    <2> QED BY <1>0, <1>1, <2>1, <2>2, WaitingFinite, ConstantsAssumption DEF RunIds
  <1>3. /\ ses' \in SesType /\ ses'.run = id /\ ses'.req = ses.req
        /\ ses'.version = ses.version /\ ses'.cache = s.cache
        /\ job[r].kind.static => ses'.inFlight[KeyOf(r)].id = id
        /\ pc' \in [Req -> PCs] /\ pc'[r] = "running" /\ job' \in [Req -> JobType]
        /\ \A q \in Req : q # r => pc'[q] = pc[q] /\ job'[q] = job[q]
    <2>1. /\ ses' \in SesType /\ ses'.run = s.run + 1 /\ ses'.req = s.req
          /\ ses'.version = s.version /\ ses'.cache = s.cache
          /\ job[r].kind.static => ses'.inFlight[KeyOf(r)].id = s.run + 1
          /\ pc' \in [Req -> PCs] /\ pc'[r] = "running" /\ job' \in [Req -> JobType]
          /\ \A q \in Req : q # r => pc'[q] = pc[q] /\ job'[q] = job[q]
      BY <1>0, <1>2, StartFacts
    <2> QED BY <2>1, <1>2
  <1>4. /\ job'[r].run = id /\ job'[r].serial = serial + 1 /\ job'[r].content = content
        /\ job'[r].kind = job[r].kind /\ job'[r].ver = job[r].ver
        /\ handles' \in [RunIds -> Nat] /\ handles'[id] = serial + 1
        /\ \A i \in RunIds : i # id => handles'[i] = handles[i]
        /\ serial' = serial + 1 /\ serial' \in Nat /\ status' = "analysing"
        /\ aborted' = aborted \cup Superseded(id)
        /\ UNCHANGED <<present, arming, timer, shown, warned, issued, content, moves>>
    <2>1. /\ job'[r].run = s.run + 1 /\ job'[r].serial = serial + 1
          /\ job'[r].content = content
          /\ job'[r].kind = job[r].kind /\ job'[r].ver = job[r].ver
          /\ handles' \in [RunIds -> Nat] /\ handles'[s.run + 1] = serial + 1
          /\ \A i \in RunIds : i # s.run + 1 => handles'[i] = handles[i]
          /\ serial' = serial + 1 /\ serial' \in Nat /\ status' = "analysing"
          /\ aborted' = aborted \cup Superseded(s.run + 1)
          /\ UNCHANGED <<present, arming, timer, shown, warned, issued, content, moves>>
      BY <1>0, <1>2, StartFacts
    <2> QED BY <2>1, <1>2
  <1>5. /\ \A q \in Req : Active(q)' <=> Active(q) \/ q = r
        /\ Pending(r) /\ ~Pending(r)' /\ ~Active(r)
        /\ \A q \in Req : Pending(q)' => Pending(q) /\ q # r
        /\ \A q \in Req : q # r => Pending(q)' = Pending(q)
    BY <1>3 DEF Active, Pending
  <1>6. \A q \in Req : Active(q) => job[q].run <= ses.run /\ job[q].run \in RunIds /\ job[q].run # id
    BY <1>0 DEF HandleInv, RunIds
  <1>7. /\ \A q \in Req : Active(q) => job[q].serial \in aborted'
        /\ \A x \in aborted' : x \in aborted \/ \E q \in Req : Active(q) /\ job[q].serial = x
        /\ aborted \subseteq aborted'
    BY <1>0, <1>4, <1>6, AbortAllFacts
  <1>8. \A x \in aborted' : 1 <= x /\ x <= serial BY <1>0, <1>7 DEF HandleInv
  <1> HIDE DEF id
  <1>9. LType'
    <2>1. aborted' \in SUBSET Nat BY <1>0, <1>4, AbortType
    <2> QED BY <1>0, <1>3, <1>4, <2>1 DEF LType, Statuses
  <1>10. CountInv'
    <2>1. Cardinality(Waiting') = Cardinality(Waiting) - 1 BY <1>5, WaitingShrinks
    <2> QED BY <1>0, <1>3, <1>4, <2>1, WaitingFinite DEF RInv, CountInv, LType, id
  <1>11. FolderInv' BY <1>0, <1>4 DEF RInv, FolderInv
  <1>12. HandleInv'
    <2>1. \A q \in Req : Active(q)' =>
            /\ job'[q].run \in RunIds /\ handles'[job'[q].run] = job'[q].serial
            /\ job'[q].serial >= 1 /\ job'[q].serial <= serial'
            /\ present' => job'[q].run <= ses'.run
            /\ present' /\ job'[q].run = ses'.run => job'[q].serial = serial'
            /\ present' /\ job'[q].serial \notin aborted' => job'[q].run = ses'.run
      <3> SUFFICES ASSUME NEW q \in Req, Active(q)'
                   PROVE  /\ job'[q].run \in RunIds /\ handles'[job'[q].run] = job'[q].serial
                          /\ job'[q].serial >= 1 /\ job'[q].serial <= serial'
                          /\ present' => job'[q].run <= ses'.run
                          /\ present' /\ job'[q].run = ses'.run => job'[q].serial = serial'
                          /\ present' /\ job'[q].serial \notin aborted' => job'[q].run = ses'.run
        OBVIOUS
      <3>1. CASE q = r BY <1>0, <1>2, <1>3, <1>4, <3>1 DEF id
      <3>2. CASE q # r
        <4>1. Active(q) /\ job'[q] = job[q] BY <1>3, <1>5, <3>2
        <4>2. job[q].run \in RunIds /\ handles'[job[q].run] = job[q].serial
          BY <1>0, <1>4, <1>6, <4>1 DEF HandleInv
        <4>3. job[q].serial >= 1 /\ job[q].serial <= serial /\ job[q].serial \in Nat
          BY <1>0, <4>1 DEF HandleInv, LType, JobType
        <4> QED BY <1>0, <1>3, <1>4, <1>6, <1>7, <4>1, <4>2, <4>3 DEF id, RunIds
      <3> QED BY <3>1, <3>2
    <2>2. \A q, p \in Req : Active(q)' /\ Active(p)' /\ q # p =>
            /\ job'[q].run # job'[p].run /\ job'[q].serial # job'[p].serial
            /\ job'[q].serial \in aborted' \/ job'[p].serial \in aborted'
      <3>1. \A q \in Req : Active(q) => job[q].serial <= serial /\ job[q].serial \in Nat
        BY <1>0 DEF HandleInv, LType, JobType
      <3>2. \A q \in Req : Active(q)' => \/ q = r
                                         \/ q # r /\ Active(q) /\ job'[q] = job[q]
        BY <1>3, <1>5
      <3> QED BY <1>0, <1>4, <1>6, <1>7, <3>1, <3>2 DEF HandleInv
    <2>3. \A i \in RunIds : handles'[i] # 0 => \E q \in Req : Active(q)' /\ job'[q].run = i
      BY <1>0, <1>3, <1>4, <1>5 DEF HandleInv
    <2>4. \A x \in aborted' : 1 <= x /\ x <= serial'
      BY <1>0, <1>4, <1>7, <1>8 DEF HandleInv, LType
    <2> QED BY <2>1, <2>2, <2>3, <2>4 DEF HandleInv
  <1>13. ResultInv'
    <2>1. \A x \in Nat : Ended(x) => Ended(x)'
      BY <1>0, <1>3, <1>4, <1>5, <1>7 DEF Ended
    <2>2. Ended(0)'
      BY <1>0, <1>3, <1>4, <1>5, <1>8 DEF Ended, HandleInv
    <2>3. \A k \in Key : ses'.cache[k].serial = ses.cache[k].serial \/ ses'.cache[k].serial = 0
      BY <1>3 DEF NoCache
    <2>4. /\ shown.serial \in Nat /\ \A k \in Key : ses.cache[k].serial \in Nat
          /\ \A q \in Req : job[q].serial \in Nat
      BY <1>0 DEF LType, SesType, JobType
    <2>5. \A q \in Req : pc'[q] = "validate" => pc[q] = "validate" /\ job'[q] = job[q]
      BY <1>3
    <2>6. \A k \in Key : Ended(ses.cache[k].serial)'
      BY <1>0, <2>1, <2>2, <2>3, <2>4 DEF ResultInv, Ended
    <2>7. \A q \in Req : pc'[q] = "validate" => Ended(job[q].serial)'
      BY <1>0, <2>1, <2>4, <2>5 DEF ResultInv, Ended
    <2>8. Ended(shown.serial)' BY <1>0, <1>4, <2>1, <2>4 DEF ResultInv, Ended
    <2> QED BY <2>6, <2>7, <2>8 DEF ResultInv
  <1>14. RequestInv' BY <1>0, <1>3, <1>4, <1>5 DEF RInv, RequestInv
  <1>15. VersionInv'
    <2>1. \A k \in Key : ses'.cache[k].serial # 0 => ses'.cache[k] = ses.cache[k]
      BY <1>3 DEF NoCache
    <2>2. \A q \in Req : Pending(q)' \/ Active(q)' => job'[q].ver <= content
      BY <1>0, <1>3, <1>4, <1>5 DEF VersionInv, LType
    <2>3. \A q \in Req : Active(q)' => \/ job'[q].ver = content /\ job'[q].content = content
                                       \/ Active(q) /\ job'[q] = job[q]
      BY <1>0, <1>3, <1>4, <1>5
    <2>4. \A q \in Req : Active(q)' /\ job'[q].ver # content => job'[q].serial \in aborted'
      BY <1>0, <1>7, <2>3
    <2>5. \A q \in Req : pc'[q] = "validate" => pc[q] = "validate" /\ job'[q] = job[q]
      BY <1>3
    <2> QED BY <1>0, <1>3, <1>4, <2>1, <2>2, <2>3, <2>4, <2>5 DEF VersionInv
  <1>16. CacheInv'
    <2>1. \A q \in Req, k \in Key : Replaces(q, k)' =>
            /\ q = r /\ k = KeyOf(r) /\ job[r].kind.static
      <3> SUFFICES ASSUME NEW q \in Req, NEW k \in Key, Replaces(q, k)'
                   PROVE  q = r /\ k = KeyOf(r) /\ job[r].kind.static
        OBVIOUS
      <3>1. /\ pc'[q] = "running" /\ job'[q].run = id /\ job'[q].kind.static
            /\ job'[q].kind.key = k
        BY <1>3 DEF Replaces, Current
      <3>2. Active(q)' BY <3>1 DEF Active
      <3>3. q = r
        <4> SUFFICES ASSUME q # r PROVE FALSE OBVIOUS
        <4>1. Active(q) /\ job'[q] = job[q] BY <1>3, <1>5, <3>2
        <4> QED BY <1>6, <3>1, <4>1
      <3> QED BY <1>4, <3>1, <3>3 DEF KeyOf
    <2>2. \A q \in Req : pc'[q] = "validate" => ~IsLive(q)'
      <3> SUFFICES ASSUME NEW q \in Req, pc'[q] = "validate", IsLive(q)' PROVE FALSE OBVIOUS
      <3>1. q # r /\ Pending(q) /\ job'[q] = job[q] BY <1>3 DEF Pending
      <3> QED BY <1>0, <1>3, <3>1 DEF IsLive
    <2> QED BY <1>3, <2>1, <2>2 DEF CacheInv
  <1>17. StatusInv'
    <2>1. \A q \in Req : pc'[q] \in {"notify", "settling"} => job'[q].serial \in aborted'
      BY <1>3, <1>7 DEF Active
    <2> QED BY <1>4, <2>1 DEF StatusInv
  <1> QED BY <1>9, <1>10, <1>11, <1>12, <1>13, <1>14, <1>15, <1>16, <1>17 DEF RInv

LEMMA RunStep ==
  ASSUME RInv, NEW r \in Req, RunFresh(r) \/ RunAfterReject(r) PROVE RInv'
  <1>0. IsLive(r) /\ Pending(r) BY DEF RunFresh, RunAfterReject, Pending
  <1>1. ses \in SesType BY DEF RInv, LType
  <1>2. CASE StartRun(r, ses) BY <1>0, <1>1, <1>2, StartStep
  <1>3. CASE StartRun(r, [ses EXCEPT !.cache[KeyOf(r)] = NoCache])
    <2> DEFINE c == [ses.cache EXCEPT ![KeyOf(r)] = NoCache]
               s == [ses EXCEPT !.cache = c]
    <2>1. ses.cache \in [Key -> [version : Nat, serial : Nat, content : Nat]]
      BY <1>1 DEF SesType
    <2>2. /\ c \in [Key -> [version : Nat, serial : Nat, content : Nat]]
          /\ \A k \in Key : c[k] = ses.cache[k] \/ c[k] = NoCache
      BY <2>1 DEF NoCache
    <2>3. StartRun(r, s) BY <1>3
    <2> HIDE DEF c
    <2>4. /\ s \in SesType /\ s.run = ses.run /\ s.version = ses.version
          /\ s.req = ses.req /\ s.cache = c
      BY <1>1, <2>2 DEF SesType
    <2> HIDE DEF s
    <2> QED BY <1>0, <2>2, <2>3, <2>4, StartStep
  <1> QED BY <1>2, <1>3 DEF RunFresh, RunAfterReject

\* A validated cached result becomes the latest run.
LEMMA ReuseStep == ASSUME RInv, NEW r \in Req, ReuseCached(r) PROVE RInv'
  <1> DEFINE id == ses.run + 1
  <1>0. /\ LType /\ HandleInv /\ ResultInv /\ VersionInv /\ ses \in SesType /\ ses.run \in Nat
        /\ pc \in [Req -> PCs] /\ job \in [Req -> JobType] /\ job[r] \in JobType
        /\ pc[r] = "validate" /\ IsLive(r) /\ Pending(r) /\ pc' = [pc EXCEPT ![r] = "idle"]
        /\ ses' = [ses EXCEPT !.run = @ + 1] /\ aborted' = aborted \cup Superseded(id)
        /\ shown' = [serial |-> job[r].serial, content |-> job[r].content]
        /\ status' = "ready"
        /\ UNCHANGED <<handles, job, present, arming, timer, warned, issued,
                       serial, content, moves>>
    BY DEF RInv, LType, ReuseCached, StillWanted, Goto, Pending, SesType
  <1>1. /\ present /\ \A q \in Req : Pending(q) /\ q # r => job[q].req # ses.req
    BY <1>0, LiveFacts
  <1>2. /\ ses' \in SesType /\ ses'.run = id /\ ses'.req = ses.req
        /\ ses'.version = ses.version /\ ses'.cache = ses.cache
    BY <1>0 DEF SesType
  <1>3. pc' \in [Req -> PCs] /\ pc'[r] = "idle" /\ \A q \in Req : q # r => pc'[q] = pc[q]
    BY <1>0 DEF PCs
  <1>4. /\ \A q \in Req : Active(q)' <=> Active(q)
        /\ Pending(r) /\ ~Pending(r)'
        /\ \A q \in Req : Pending(q)' => Pending(q) /\ q # r
        /\ \A q \in Req : q # r => Pending(q)' = Pending(q)
    BY <1>0, <1>3 DEF Active, Pending
  <1>5. \A q \in Req : Active(q) => job[q].run <= ses.run /\ job[q].run \in RunIds /\ job[q].run # id
    BY <1>0, <1>1 DEF HandleInv, RunIds
  <1>6. /\ \A q \in Req : Active(q) => job[q].serial \in aborted'
        /\ \A x \in aborted' : x \in aborted \/ \E q \in Req : Active(q) /\ job[q].serial = x
        /\ aborted \subseteq aborted'
    BY <1>0, <1>5, AbortAllFacts
  <1>7. LType'
    <2>1. shown' \in [serial : Nat, content : Nat] BY <1>0 DEF JobType
    <2>2. aborted' \in SUBSET Nat BY <1>0, AbortType
    <2> QED BY <1>0, <1>2, <1>3, <2>1, <2>2 DEF LType, Statuses
  <1>8. CountInv'
    <2>1. Cardinality(Waiting') = Cardinality(Waiting) - 1 BY <1>4, WaitingShrinks
    <2>2. ses.run + Cardinality(Waiting) <= issued /\ serial + Cardinality(Waiting) <= issued
      BY DEF RInv, CountInv
    <2>3. serial \in Nat /\ issued \in Nat BY <1>0, ConstantsAssumption DEF LType
    <2> QED BY <1>0, <1>2, <2>1, <2>2, <2>3, WaitingFinite DEF CountInv
  <1>9. FolderInv' BY <1>0, <1>1 DEF RInv, FolderInv
  <1>10. HandleInv'
    <2>1. \A q \in Req : Active(q)' => job'[q].run < ses'.run /\ job'[q].run <= ses'.run
      BY <1>0, <1>2, <1>4, <1>5 DEF JobType
    <2>2. \A q \in Req : Active(q)' => job'[q].serial \in aborted' BY <1>0, <1>4, <1>6
    <2>3. \A x \in aborted' : 1 <= x /\ x <= serial' BY <1>0, <1>6 DEF HandleInv
    <2>4. \A i \in RunIds : handles'[i] # 0 => \E q \in Req : Active(q)' /\ job'[q].run = i
      BY <1>0, <1>4 DEF HandleInv
    <2>5. \A q \in Req : Active(q)' =>
            /\ job'[q].run \in RunIds /\ handles'[job'[q].run] = job'[q].serial
            /\ job'[q].serial >= 1 /\ job'[q].serial <= serial'
      BY <1>0, <1>4 DEF HandleInv
    <2>6. \A q, p \in Req : Active(q)' /\ Active(p)' /\ q # p =>
            job'[q].run # job'[p].run /\ job'[q].serial # job'[p].serial
      BY <1>0, <1>4 DEF HandleInv
    <2>7. \A q \in Req : Active(q)' => job'[q].run # ses'.run
      <3>1. \A q \in Req : job'[q].run \in Nat /\ ses'.run \in Nat
        BY <1>0, <1>2 DEF JobType, SesType
      <3> QED BY <2>1, <3>1
    <2> HIDE DEF id
    <2> QED BY <2>1, <2>2, <2>3, <2>4, <2>5, <2>6, <2>7 DEF HandleInv
  <1>11. ResultInv'
    <2>1. \A x : Ended(x) => Ended(x)' BY <1>0, <1>4, <1>6 DEF Ended
    <2>2. Ended(job[r].serial) /\ shown'.serial = job[r].serial BY <1>0 DEF ResultInv
    <2>3. \A q \in Req : pc'[q] = "validate" => pc[q] = "validate" BY <1>3
    <2>4. Ended(shown.serial)' BY <2>1, <2>2 DEF Ended
    <2> QED BY <1>0, <1>2, <2>1, <2>3, <2>4 DEF ResultInv
  <1>12. RequestInv' BY <1>0, <1>2, <1>4 DEF RInv, RequestInv
  <1>13. VersionInv' BY <1>0, <1>2, <1>3, <1>4, <1>6 DEF VersionInv
  <1>14. CacheInv'
    <2>1. \A q \in Req, k \in Key : ~Replaces(q, k)'
      BY <1>0, <1>2, <1>3, <1>5 DEF Replaces, Current, Active
    <2>2. \A q \in Req : pc'[q] = "validate" => ~IsLive(q)'
      BY <1>0, <1>1, <1>2, <1>3 DEF IsLive, Pending
    <2> QED BY <2>1, <2>2 DEF CacheInv
  <1>15. StatusInv' BY <1>0, <1>3, <1>6 DEF StatusInv, Active
  <1> QED BY <1>7, <1>8, <1>9, <1>10, <1>11, <1>12, <1>13, <1>14, <1>15 DEF RInv

\* lopper failed: the refresh goes on to its error handler.
LEMMA FailStep ==
  ASSUME RInv, NEW r \in Req, FailUnused(r) \/ \E missing \in BOOLEAN : Fail(r, missing)
  PROVE  RInv'
  <1>0. /\ LType /\ pc \in [Req -> PCs] /\ job \in [Req -> JobType] /\ job[r] \in JobType
        /\ pc[r] = "running"
        /\ UNCHANGED <<ses, handles, aborted, present, arming, timer, issued, serial,
                       content, moves>>
    BY DEF RInv, LType, FailUnused, Fail, Goto
  <1>1. /\ pc' \in [Req -> PCs] /\ pc'[r] \in {"notify", "settling"}
        /\ \A q \in Req : q # r => pc'[q] = pc[q]
    BY <1>0 DEF FailUnused, Fail, Goto, PCs
  <1>2. /\ \A q \in Req : Active(q)' <=> Active(q)
        /\ \A q \in Req : Pending(q)' <=> Pending(q) /\ q # r
        /\ ~Pending(r) /\ Active(r)
    BY <1>0, <1>1 DEF Active, Pending
  <1>3. /\ job' \in [Req -> JobType] /\ \A q \in Req : q # r => job'[q] = job[q]
        /\ job'[r].run = job[r].run /\ job'[r].serial = job[r].serial
        /\ job'[r].content = job[r].content /\ job'[r].ver = job[r].ver
        /\ job[r].failed => job'[r].failed
        /\ shown' = shown \/ shown' = Nothing
        /\ status' \in Statuses /\ warned' \in BOOLEAN
        /\ \/ status' = status /\ ~IsCurrentRefresh(r)
           \/ status' # "cancelling" /\ job[r].serial \in aborted
           \/ status' # "cancelling" /\ job'[r].failed
    <2>1. CASE FailUnused(r)
      <3>1. /\ job' = job /\ shown' = shown /\ warned' = warned
            /\ \/ ~IsCurrentRefresh(r) /\ status' = status
               \/ IsCurrentRefresh(r) /\ Signalled(r) /\ status' \in {"idle", "ready"}
        BY <2>1 DEF FailUnused, RestoredStatus
      <3>2. status' \in Statuses BY <1>0, <3>1 DEF LType, Statuses
      <3> QED BY <1>0, <3>1, <3>2 DEF Signalled, LType
    <2>2. ASSUME NEW missing \in BOOLEAN, Fail(r, missing)
          PROVE  /\ job' = [job EXCEPT ![r] = [@ EXCEPT !.failed = TRUE]]
                 /\ shown' = Nothing /\ status' = "unavailable" /\ warned' \in BOOLEAN
      <3>1. warned \in BOOLEAN BY <1>0 DEF LType
      <3> QED BY <2>2, <3>1 DEF Fail
    <2>3. CASE \E missing \in BOOLEAN : Fail(r, missing)
      <3>1. [job[r] EXCEPT !.failed = TRUE] \in JobType BY <1>0 DEF JobType
      <3>2. /\ job' = [job EXCEPT ![r] = [@ EXCEPT !.failed = TRUE]]
            /\ shown' = Nothing /\ status' = "unavailable" /\ warned' \in BOOLEAN
        BY <2>2, <2>3
      <3>3. /\ job' \in [Req -> JobType] /\ job'[r] = [job[r] EXCEPT !.failed = TRUE]
            /\ \A q \in Req : q # r => job'[q] = job[q]
        BY <1>0, <3>1, <3>2
      <3>4. /\ job'[r].run = job[r].run /\ job'[r].serial = job[r].serial
            /\ job'[r].content = job[r].content /\ job'[r].ver = job[r].ver
            /\ job'[r].failed
        BY <1>0, <3>3 DEF JobType
      <3> QED BY <3>2, <3>3, <3>4 DEF Statuses
    <2> QED BY <2>1, <2>3
  <1>4. LType' BY <1>0, <1>1, <1>3, FreshType DEF LType
  <1>5. CountInv'
    <2>1. Waiting' = Waiting BY <1>2 DEF Waiting
    <2> QED BY <1>0, <2>1 DEF RInv, CountInv
  <1>6. FolderInv' BY <1>0, <1>3 DEF RInv, FolderInv
  <1>7. HandleInv' BY <1>0, <1>2, <1>3 DEF RInv, HandleInv
  <1>8. ResultInv'
    <2>1. \A x : Ended(x) => Ended(x)' BY <1>0, <1>2, <1>3 DEF Ended
    <2>2. Ended(0) BY <1>0 DEF Ended, RInv, LType, HandleInv
    <2>3. shown'.serial = shown.serial \/ shown'.serial = 0 BY <1>3 DEF Nothing
    <2>4. Ended(shown'.serial) BY <2>2, <2>3 DEF RInv, ResultInv
    <2>5. Ended(shown.serial)' BY <1>0, <2>1, <2>4 DEF Ended
    <2>6. \A q \in Req : pc'[q] = "validate" => pc[q] = "validate" /\ job'[q] = job[q]
      BY <1>1, <1>3
    <2> QED BY <1>0, <2>1, <2>5, <2>6 DEF RInv, ResultInv
  <1>9. RequestInv' BY <1>0, <1>2, <1>3 DEF RInv, RequestInv
  <1>10. VersionInv' BY <1>0, <1>1, <1>2, <1>3 DEF RInv, VersionInv
  <1>11. CacheInv' BY <1>0, <1>1, <1>3 DEF RInv, CacheInv, Replaces, Current, IsLive
  <1>12. StatusInv'
    <2>1. present /\ job[r].run = ses.run /\ ~IsCurrentRefresh(r) =>
            job[r].serial \in aborted
      BY <1>2 DEF RInv, VersionInv, IsCurrentRefresh
    <2>2. present => \A q \in Req :
            pc'[q] \in {"notify", "settling"} /\ ~job'[q].failed /\ job'[q].run = ses'.run
              => job'[q].serial \in aborted'
      <3> SUFFICES ASSUME present, NEW q \in Req, pc'[q] \in {"notify", "settling"},
                          ~job'[q].failed, job'[q].run = ses'.run
                   PROVE  job'[q].serial \in aborted'
        OBVIOUS
      <3>1. CASE q # r BY <1>0, <1>1, <1>3, <3>1 DEF RInv, StatusInv
      <3>2. CASE q = r BY <1>0, <1>3, <2>1, <3>2
      <3> QED BY <3>1, <3>2
    <2>3. ASSUME status' = "cancelling", content = 0, moves = 0
          PROVE  \E q \in Req : Withdraws(q)'
      <3>1. status = "cancelling" BY <1>3, <2>3
      <3>2. ~IsCurrentRefresh(r) BY <1>3, <2>3
      <3>3. PICK q \in Req : Withdraws(q) BY <2>3, <3>1 DEF RInv, StatusInv
      <3>4. CASE q # r BY <1>0, <1>1, <1>3, <3>3, <3>4 DEF Withdraws, Pending
      <3>5. CASE q = r
        <4>1. present /\ job[r].ver = 0 /\ ses.version = 0
          BY <1>0, <1>2, <2>3 DEF RInv, FolderInv, VersionInv, JobType
        <4>2. job[r].failed /\ job[r].serial \in aborted
          BY <1>2, <3>2, <3>3, <3>5, <4>1 DEF Withdraws, IsCurrentRefresh
        <4> QED BY <1>0, <1>3, <3>5, <4>2 DEF Withdraws
      <3> QED BY <3>4, <3>5
    <2> QED BY <1>0, <2>2, <2>3 DEF StatusInv
  <1> QED BY <1>4, <1>5, <1>6, <1>7, <1>8, <1>9, <1>10, <1>11, <1>12 DEF RInv

\* What the finally block leaves behind, from the session s.
LEMMA SettleFacts ==
  ASSUME LType, NEW s \in SesType, NEW r \in Req, Settle(r, s)
  PROVE  /\ ses' \in SesType /\ ses'.run = s.run /\ ses'.req = s.req
         /\ ses'.version = s.version /\ ses'.cache = s.cache
         /\ \A k \in Key : \/ ses'.inFlight[k] = s.inFlight[k]
                           \/ s.inFlight[k].id = job[r].run
         /\ s.inFlight[KeyOf(r)].id # job[r].run => ses' = s
         /\ pc' \in [Req -> PCs] /\ pc'[r] = "idle"
         /\ \A q \in Req : q # r =>
              pc'[q] = pc[q] \/ (pc[q] = "joined" /\ pc'[q] = "idle")
         /\ handles' \in [RunIds -> Nat]
         /\ \A i \in RunIds : i # job[r].run => handles'[i] = handles[i]
         /\ job[r].run \in RunIds => handles'[job[r].run] = 0
  <1> DEFINE k == KeyOf(r)
             f == [s.inFlight EXCEPT ![k] = NoRun]
  <1>1. /\ job[r] \in JobType /\ pc \in [Req -> PCs] /\ handles \in [RunIds -> Nat]
        /\ s.inFlight \in [Key -> [id : Nat, serial : Nat]]
    BY DEF LType, SesType
  <1>2. k \in Key BY <1>1 DEF KeyOf, JobType, Kinds
  <1>3. /\ f \in [Key -> [id : Nat, serial : Nat]]
        /\ \A x \in Key : x # k => f[x] = s.inFlight[x]
    BY <1>1, <1>2 DEF NoRun
  <1>4. /\ ses' = IF s.inFlight[k].id = job[r].run THEN [s EXCEPT !.inFlight = f] ELSE s
        /\ handles' = [handles EXCEPT ![job[r].run] = 0]
        /\ pc' = [q \in Req |->
                    IF q = r \/ (pc[q] = "joined" /\ job[q].serial = job[r].serial)
                    THEN "idle" ELSE pc[q]]
    BY DEF Settle, ClearInFlight
  <1> HIDE DEF f
  <1>5. /\ ses' \in SesType /\ ses'.run = s.run /\ ses'.req = s.req
        /\ ses'.version = s.version /\ ses'.cache = s.cache
        /\ \/ ses'.inFlight = f /\ s.inFlight[k].id = job[r].run
           \/ ses'.inFlight = s.inFlight
    BY <1>3, <1>4 DEF SesType
  <1>6. \A x \in Key : \/ ses'.inFlight[x] = s.inFlight[x]
                       \/ s.inFlight[x].id = job[r].run
    BY <1>3, <1>5
  <1>7. /\ pc' \in [Req -> PCs] /\ pc'[r] = "idle"
        /\ \A q \in Req : q # r =>
             pc'[q] = pc[q] \/ (pc[q] = "joined" /\ pc'[q] = "idle")
    BY <1>1, <1>4 DEF PCs
  <1>8. /\ handles' \in [RunIds -> Nat]
        /\ \A i \in RunIds : i # job[r].run => handles'[i] = handles[i]
        /\ job[r].run \in RunIds => handles'[job[r].run] = 0
    BY <1>1, <1>4
  <1> QED BY <1>4, <1>5, <1>6, <1>7, <1>8

\* A run ends and the refreshes that joined it with it.  When its result is
\* used it was current, and s is the session with the result cached.
LEMMA SettleStep ==
  ASSUME RInv, NEW r \in Req, Active(r), NEW s \in SesType, Settle(r, s),
         s.run = ses.run, s.version = ses.version, s.req = ses.req,
         s.inFlight = ses.inFlight,
         NEW P, \* the cached result
         P.version = ses.version, P.serial = job[r].serial, P.content = job[r].content,
         \/ s = ses /\ shown' = shown
         \/ /\ pc[r] = "running" /\ IsCurrentRefresh(r) /\ job[r].serial \notin aborted
            /\ shown' = [serial |-> job[r].serial, content |-> job[r].content]
            /\ \A k \in Key : \/ s.cache[k] = ses.cache[k]
                              \/ job[r].kind.static /\ k = KeyOf(r) /\ s.cache[k] = P,
         status' \in Statuses, warned' \in BOOLEAN,
         status' = "cancelling" => /\ status = "cancelling"
                                   /\ pc[r] = "running" => ~IsCurrentRefresh(r),
         UNCHANGED <<aborted, job, present, arming, timer, issued, serial, content, moves>>
  PROVE  RInv'
  <1> DEFINE used == /\ pc[r] = "running" /\ IsCurrentRefresh(r) /\ job[r].serial \notin aborted
                     /\ shown' = [serial |-> job[r].serial, content |-> job[r].content]
                     /\ \A k \in Key : \/ s.cache[k] = ses.cache[k]
                                       \/ job[r].kind.static /\ k = KeyOf(r) /\ s.cache[k] = P
  <1>0. /\ LType /\ HandleInv /\ ResultInv /\ VersionInv /\ CacheInv /\ ses \in SesType
        /\ pc \in [Req -> PCs] /\ job \in [Req -> JobType] /\ job[r] \in JobType
    BY DEF RInv, LType
  <1>1. /\ ses' \in SesType /\ ses'.run = ses.run /\ ses'.req = ses.req
        /\ ses'.version = ses.version /\ ses'.cache = s.cache
        /\ \A k \in Key : \/ ses'.inFlight[k] = ses.inFlight[k]
                          \/ ses.inFlight[k].id = job[r].run
        /\ ses.inFlight[KeyOf(r)].id # job[r].run => ses' = s
    BY <1>0, SettleFacts
  <1>2. /\ pc' \in [Req -> PCs] /\ pc'[r] = "idle"
        /\ \A q \in Req : q # r =>
             pc'[q] = pc[q] \/ (pc[q] = "joined" /\ pc'[q] = "idle")
    BY <1>0, SettleFacts
  <1>3. /\ handles' \in [RunIds -> Nat] /\ handles'[job[r].run] = 0
        /\ \A i \in RunIds : i # job[r].run => handles'[i] = handles[i]
        /\ job[r].run \in RunIds /\ job[r].run # 0
        /\ job[r].serial <= serial /\ job[r].serial >= 1
    BY <1>0, SettleFacts, ConstantsAssumption DEF HandleInv, RunIds
  <1>4. /\ \A q \in Req : Active(q)' <=> Active(q) /\ q # r
        /\ \A q \in Req : Pending(q)' = Pending(q)
        /\ \A q \in Req : Pending(q)' => q # r /\ pc'[q] = pc[q]
    BY <1>2 DEF Active, Pending
  <1>5. (s = ses /\ shown' = shown) \/ used OBVIOUS
  <1>6. used => present
    <2>1. ~present => ses.run = 0 BY DEF RInv, FolderInv, FreshSession
    <2> QED BY <1>3, <2>1 DEF IsCurrentRefresh
  <1> HIDE DEF used
  <1>7. LType'
    <2>1. shown' \in [serial : Nat, content : Nat] BY <1>0, <1>5 DEF JobType, LType, used
    <2> QED BY <1>0, <1>1, <1>2, <1>3, <2>1 DEF LType
  <1>8. CountInv'
    <2>1. Waiting' = Waiting BY <1>4 DEF Waiting
    <2> QED BY <1>1, <2>1 DEF RInv, CountInv
  <1>9. FolderInv'
    <2>1. ASSUME ~present PROVE ses' = FreshSession /\ shown' = Nothing
      <3>1. ses = FreshSession /\ shown = Nothing BY <2>1 DEF RInv, FolderInv
      <3>2. KeyOf(r) \in Key BY <1>0 DEF KeyOf, JobType, Kinds
      <3>3. ses.inFlight[KeyOf(r)].id = 0 BY <3>1, <3>2 DEF FreshSession, NoRun
      <3> QED BY <1>1, <1>3, <1>5, <1>6, <2>1, <3>1, <3>3
    <2> QED BY <2>1 DEF RInv, FolderInv
  <1>10. HandleInv'
    <2>1. \A i \in RunIds : handles'[i] # 0 => \E q \in Req : Active(q)' /\ job'[q].run = i
      BY <1>0, <1>3, <1>4 DEF HandleInv
    <2>2. \A q \in Req : Active(q)' => handles'[job'[q].run] = job'[q].serial
      BY <1>0, <1>3, <1>4 DEF HandleInv
    <2> QED BY <1>0, <1>1, <1>4, <2>1, <2>2 DEF HandleInv
  <1>11. ResultInv'
    <2>1. \A x : Ended(x) => Ended(x)' BY <1>4 DEF Ended
    <2>2. used => Ended(job[r].serial)' BY <1>0, <1>3, <1>4 DEF Ended, HandleInv, used
    <2>3. \A k \in Key : \/ ses'.cache[k].serial = ses.cache[k].serial
                         \/ used /\ ses'.cache[k].serial = job[r].serial
      BY <1>1, <1>5 DEF used
    <2>4. shown'.serial = shown.serial \/ (used /\ shown'.serial = job[r].serial)
      BY <1>5 DEF used
    <2>5. Ended(shown.serial)' BY <1>0, <2>1, <2>2, <2>4 DEF ResultInv, Ended
    <2>6. \A k \in Key : Ended(ses.cache[k].serial)'
      BY <1>0, <2>1, <2>2, <2>3 DEF ResultInv, Ended
    <2>7. \A q \in Req : pc'[q] = "validate" => Ended(job[q].serial)'
      BY <1>0, <1>2, <2>1 DEF ResultInv, Ended
    <2> QED BY <2>5, <2>6, <2>7 DEF ResultInv
  <1>12. RequestInv' BY <1>1, <1>4 DEF RInv, RequestInv
  <1>13. VersionInv'
    <2>1. used => job[r].content = content
      BY <1>0, <1>6 DEF VersionInv, IsCurrentRefresh, used
    <2>2. present => \A k \in Key : ses'.cache[k].serial # 0 /\ ses'.cache[k].version = content =>
                                      ses'.cache[k].content = content
      BY <1>0, <1>1, <1>5, <2>1 DEF VersionInv, used
    <2>3. \A q \in Req : pc'[q] = "validate" => pc[q] = "validate" BY <1>2
    <2> QED BY <1>0, <1>1, <1>4, <2>2, <2>3 DEF VersionInv
  <1>14. CacheInv'
    <2>1. \A q \in Req, k \in Key : Replaces(q, k)' => Replaces(q, k) /\ q # r
      BY <1>1, <1>2 DEF Replaces, Current
    <2>2. present => \A q \in Req, k \in Key : Replaces(q, k)' => ses'.inFlight[k].id = ses'.run
      <3> SUFFICES ASSUME present, NEW q \in Req, NEW k \in Key, Replaces(q, k)'
                   PROVE  ses'.inFlight[k].id = ses'.run
        OBVIOUS
      <3>1. Replaces(q, k) /\ q # r BY <2>1
      <3>2. ses.inFlight[k].id = ses.run BY <1>0, <3>1 DEF CacheInv
      <3>3. Active(q) /\ job[q].run = ses.run BY <3>1 DEF Replaces, Current, Active
      <3>4. job[r].run # ses.run BY <1>0, <3>1, <3>3 DEF HandleInv
      <3> QED BY <1>1, <3>2, <3>4
    <2>3. present => \A q \in Req, k \in Key :
            pc'[q] = "validate" /\ IsLive(q)' /\ job'[q].kind.key = k =>
              ses'.cache[k].serial = job'[q].serial /\ \A p \in Req : ~Replaces(p, k)'
      <3> SUFFICES ASSUME present, NEW q \in Req, NEW k \in Key, pc'[q] = "validate",
                          IsLive(q)', job'[q].kind.key = k
                   PROVE  ses'.cache[k].serial = job'[q].serial /\ \A p \in Req : ~Replaces(p, k)'
        OBVIOUS
      <3>1. pc[q] = "validate" /\ IsLive(q) BY <1>1, <1>2 DEF IsLive
      <3>2. ses.cache[k].serial = job[q].serial /\ \A p \in Req : ~Replaces(p, k)
        BY <1>0, <3>1 DEF CacheInv
      <3>3. used /\ job[r].kind.static /\ k = KeyOf(r) => Replaces(r, k)
        BY <1>0 DEF used, Replaces, Current, IsCurrentRefresh, KeyOf, VersionInv
      <3>4. ses'.cache[k] = ses.cache[k] BY <1>1, <1>5, <3>2, <3>3 DEF used
      <3> QED BY <2>1, <3>2, <3>4
    <2> QED BY <2>2, <2>3 DEF CacheInv
  <1>15. StatusInv'
    <2>1. \A q \in Req : pc'[q] \in {"notify", "settling"} => pc[q] = pc'[q] BY <1>2
    <2>2. ASSUME status' = "cancelling", content = 0, moves = 0
          PROVE  \E q \in Req : Withdraws(q)'
      <3>1. PICK q \in Req : Withdraws(q) BY <2>2 DEF RInv, StatusInv
      <3>2. CASE q # r BY <1>1, <1>2, <3>1, <3>2 DEF Withdraws, Pending
      <3>3. CASE q = r
        <4>1. present /\ job[r].ver = 0 /\ ses.version = 0
          BY <1>0, <2>2 DEF RInv, FolderInv, VersionInv, JobType
        <4>2. job[r].failed /\ job[r].serial \in aborted
          BY <2>2, <3>1, <3>3, <4>1 DEF Withdraws, IsCurrentRefresh, Active, Pending
        <4> QED BY <3>3, <4>2 DEF Withdraws
      <3> QED BY <3>2, <3>3
    <2> QED BY <1>1, <2>1, <2>2 DEF RInv, StatusInv
  <1> QED BY <1>7, <1>8, <1>9, <1>10, <1>11, <1>12, <1>13, <1>14, <1>15 DEF RInv

LEMMA EndStep ==
  ASSUME RInv, NEW r \in Req, CompleteUnused(r) \/ Complete(r) \/ AfterFailure(r)
  PROVE  RInv'
  <1> DEFINE P == [version |-> ses.version, serial |-> job[r].serial, content |-> job[r].content]
  <1>0. /\ LType /\ ses \in SesType /\ job[r] \in JobType /\ Active(r)
        /\ UNCHANGED <<aborted, job, present, arming, timer, issued, serial, content, moves>>
    BY DEF RInv, LType, CompleteUnused, Complete, AfterFailure, Active
  <1>1. P.version = ses.version /\ P.serial = job[r].serial /\ P.content = job[r].content
    OBVIOUS
  <1>2. P \in [version : Nat, serial : Nat, content : Nat] BY <1>0 DEF SesType, JobType
  <1>3. CASE CompleteUnused(r)
    <2>1. /\ Settle(r, ses) /\ shown' = shown /\ warned' = warned
          /\ \/ ~IsCurrentRefresh(r) /\ status' = status
             \/ status' \in {"idle", "ready"}
      BY <1>3 DEF CompleteUnused, RestoredStatus
    <2>2. status' \in Statuses /\ warned' \in BOOLEAN BY <1>0, <2>1 DEF LType, Statuses
    <2> HIDE DEF P
    <2> QED BY <1>0, <1>1, <2>1, <2>2, SettleStep
  <1>4. CASE AfterFailure(r)
    <2>1. /\ Settle(r, ses) /\ shown' = shown /\ warned' = warned /\ status' = status
          /\ pc[r] # "running"
      BY <1>4 DEF AfterFailure
    <2>2. status' \in Statuses /\ warned' \in BOOLEAN BY <1>0, <2>1 DEF LType
    <2> HIDE DEF P
    <2> QED BY <1>0, <1>1, <2>1, <2>2, SettleStep
  <1>5. CASE Complete(r)
    <2> DEFINE k == KeyOf(r)
               c == [ses.cache EXCEPT ![k] = P]
               s == IF job[r].kind.static THEN [ses EXCEPT !.cache = c] ELSE ses
    <2>1. /\ Settle(r, s) /\ pc[r] = "running" /\ IsCurrentRefresh(r)
          /\ job[r].serial \notin aborted
          /\ shown' = [serial |-> job[r].serial, content |-> job[r].content]
          /\ status' = "ready" /\ warned' = FALSE
      BY <1>5 DEF Complete, Signalled
    <2>2. k \in Key BY <1>0 DEF KeyOf, JobType, Kinds
    <2>3. ses.cache \in [Key -> [version : Nat, serial : Nat, content : Nat]]
      BY <1>0 DEF SesType
    <2>4. /\ c \in [Key -> [version : Nat, serial : Nat, content : Nat]]
          /\ \A x \in Key : c[x] = ses.cache[x] \/ (x = k /\ c[x] = P)
      BY <1>2, <2>2, <2>3
    <2> HIDE DEF c, P
    <2>5. /\ s \in SesType /\ s.run = ses.run /\ s.version = ses.version
          /\ s.req = ses.req /\ s.inFlight = ses.inFlight
          /\ s.cache = IF job[r].kind.static THEN c ELSE ses.cache
      BY <1>0, <2>4 DEF SesType
    <2>6. \A x \in Key : \/ s.cache[x] = ses.cache[x]
                         \/ job[r].kind.static /\ x = KeyOf(r) /\ s.cache[x] = P
      BY <2>4, <2>5
    <2> HIDE DEF s
    <2>7. status' \in Statuses /\ warned' \in BOOLEAN /\ status' # "cancelling"
      BY <2>1 DEF Statuses
    <2> QED BY <1>0, <1>1, <2>1, <2>5, <2>6, <2>7, SettleStep
  <1> QED BY <1>3, <1>4, <1>5

LEMMA NextRInv ==
  ASSUME RInv, MaxFolderMoves <= 1, [Next]_vars PROVE RInv'
  <1>0. LType /\ FolderInv /\ timer \in BOOLEAN /\ arming \in Nat BY DEF RInv, LType
  <1>1. ASSUME NEW r \in Req, UserRequest(r) PROVE RInv'
    <2>1. PICK k \in Kinds : Begin(ses, r, k) BY <1>1 DEF UserRequest
    <2>2. /\ present /\ timer' \in BOOLEAN
          /\ UNCHANGED <<handles, aborted, present, arming, shown, status, warned,
                         serial, content, moves>>
      BY <1>0, <1>1 DEF UserRequest
    <2> QED BY <2>1, <2>2, BeginStep
  <1>2. ASSUME NEW r \in Req, TimerFires(r) PROVE RInv'
    <2>1. /\ timer' \in BOOLEAN
          /\ UNCHANGED <<handles, aborted, present, arming, shown, status, warned,
                         serial, content, moves>>
      BY <1>2 DEF TimerFires
    <2>2. CASE present
      <3>1. PICK k \in Kinds : Begin(ses, r, k) BY <1>2, <2>2 DEF TimerFires, AutoKinds
      <3> QED BY <2>1, <2>2, <3>1, BeginStep
    <2>3. CASE ~present
      <3>1. UNCHANGED <<ses, pc, job, issued>> BY <1>2, <2>3 DEF TimerFires
      <3>2. arming' \in Nat BY <1>0, <2>1
      <3> QED BY <2>1, <3>1, <3>2, QuietStep
    <2> QED BY <2>2, <2>3
  <1>3. ASSUME NEW r \in Req, ChangeAndRefresh(r) PROVE RInv' BY <1>3, ChangeStep
  <1>4. ASSUME NEW r \in Req, AddFolder(r) PROVE FALSE
    <2>1. moves = 1 /\ moves < MaxFolderMoves
      BY <1>0, <1>4, ConstantsAssumption DEF AddFolder, FolderInv, LType
    <2> QED BY <2>1, ConstantsAssumption
  <1>5. ASSUME NEW r \in Req, Progress(r) \/ AfterFailure(r) PROVE RInv'
    BY <1>5, DropStep, ReuseChecks, RunStep, ReuseStep, FailStep, EndStep DEF Progress
  <1>6. ASSUME NEW m \in BOOLEAN, Save(m) PROVE RInv' BY <1>6, SaveStep
  <1>7. CASE ArmTimer
    <2>1. /\ arming' \in Nat /\ timer' \in BOOLEAN
          /\ UNCHANGED <<ses, handles, aborted, pc, job, present, shown, status,
                         warned, issued, serial, content, moves>>
      BY <1>0, <1>7 DEF ArmTimer
    <2> QED BY <2>1, QuietStep
  <1>8. CASE RemoveFolder BY <1>8, RemoveStep
  <1>9. CASE Cancel BY <1>9, CancelStep
  <1>10. CASE UNCHANGED vars
    <2>1. /\ arming' \in Nat /\ timer' \in BOOLEAN
          /\ UNCHANGED <<ses, handles, aborted, pc, job, present, shown, status,
                         warned, issued, serial, content, moves>>
      BY <1>0, <1>10 DEF vars
    <2> QED BY <2>1, QuietStep
  <1> QED BY <1>1, <1>2, <1>3, <1>4, <1>5, <1>6, <1>7, <1>8, <1>9, <1>10 DEF Next

-----------------------------------------------------------------------------
(* Theorems. *)

\* The types, the correspondence of handles and runs, and what results and
\* captures are worth hold as long as no removed folder comes back.
THEOREM RefreshSound == ASSUME MaxFolderMoves <= 1 PROVE Spec => []RInv
  <1>1. Init => RInv BY InitRInv
  <1>2. RInv /\ [Next]_vars => RInv' BY NextRInv
  <1> QED BY <1>1, <1>2, PTL DEF Spec

\* Every variable keeps its type, and the counters stay within their bounds.
THEOREM RefreshTypeCorrect == ASSUME MaxFolderMoves <= 1 PROVE Spec => []TypeOK
  <1>1. RInv => TypeOK
    <2> SUFFICES ASSUME RInv PROVE TypeOK OBVIOUS
    <2>1. serial \in 0..issued
      BY WaitingFinite, ConstantsAssumption DEF RInv, LType, CountInv
    <2> QED BY <2>1 DEF RInv, LType, TypeOK, SesType, JobType
  <1> QED BY <1>1, RefreshSound, PTL

\* At most one run works for a result that is still wanted: reserving a run and
\* aborting the superseded ones are one turn, from whichever await it starts.
THEOREM OneRunAtMost == ASSUME MaxFolderMoves <= 1 PROVE Spec => []OneLiveRun
  <1>1. RInv => OneLiveRun
    BY DEF RInv, HandleInv, OneLiveRun, Active
  <1> QED BY <1>1, RefreshSound, PTL

\* A run that was aborted leaves neither diagnostics nor a cache entry, and
\* nothing is rendered for a folder that was removed.
THEOREM AbortedLeavesNothing == ASSUME MaxFolderMoves <= 1 PROVE Spec => []NoLateResult
  <1>1. RInv => NoLateResult
    BY DEF RInv, ResultInv, Ended, FolderInv, NoLateResult
  <1> QED BY <1>1, RefreshSound, PTL

\* The announcement of a cancellation is withdrawn, outside the three cases
\* CancelSettles names: the run it is about restores the status bar when it
\* ends, and the latest request ends or starts a run that does.
THEOREM CancellationIsWithdrawn == ASSUME MaxFolderMoves <= 1 PROVE Spec => []CancelSettles
  <1>1. RInv => CancelSettles
    <2> SUFFICES ASSUME RInv, \A r \in Req : pc[r] = "idle", status = "cancelling",
                        ~(content > 0), ~(moves > 0)
                 PROVE  \E r \in Req : job[r].failed /\ job[r].serial \in aborted
      BY DEF CancelSettles
    <2>1. content = 0 /\ moves = 0 BY DEF RInv, LType
    <2>2. PICK r \in Req : Withdraws(r) BY <2>1 DEF RInv, StatusInv
    <2> QED BY <2>2 DEF Withdraws, Pending
  <1> QED BY <1>1, RefreshSound, PTL

\* Which steps render a result, and of which run.
LEMMA Renders ==
  ASSUME RInv, [Next]_vars, shown' # shown, shown' # Nothing
  PROVE  \E r \in Req :
           /\ shown' = [serial |-> job[r].serial, content |-> job[r].content]
           /\ content' = content
           /\ \/ Complete(r)
              \/ pc[r] = "validate" /\ IsLive(r)
  <1> USE DEF Begin, StartRun
  <1>1. ASSUME NEW r \in Req, \/ UserRequest(r) \/ TimerFires(r) \/ ChangeAndRefresh(r)
                              \/ AddFolder(r) \/ AfterFailure(r)
        PROVE  FALSE
    BY <1>1 DEF UserRequest, TimerFires, ChangeAndRefresh, AddFolder, AfterFailure
  <1>2. ASSUME NEW r \in Req, Progress(r), ~Complete(r), ~ReuseCached(r) PROVE FALSE
    BY <1>2 DEF Progress, DropStale, Join, CheckCached, RunFresh, RejectCached,
                RunAfterReject, CompleteUnused, FailUnused, Fail
  <1>3. \/ \E r \in Req : Complete(r) \/ ReuseCached(r)
        \/ \E m \in BOOLEAN : Save(m)
        \/ ArmTimer \/ RemoveFolder \/ Cancel \/ UNCHANGED vars
    BY <1>1, <1>2 DEF Next
  <1>4. ~(\E m \in BOOLEAN : Save(m)) BY DEF Save
  <1>5. ~(ArmTimer \/ RemoveFolder \/ Cancel \/ UNCHANGED vars)
    BY DEF ArmTimer, RemoveFolder, Cancel, vars
  <1>6. PICK r \in Req : Complete(r) \/ ReuseCached(r) BY <1>3, <1>4, <1>5
  <1> QED BY <1>6 DEF Complete, ReuseCached, StillWanted, Goto

\* What is rendered was computed from the inputs as they are now: a result is
\* rendered only under the version it was captured under.
THEOREM OnlyCurrentIsRendered == ASSUME MaxFolderMoves <= 1 PROVE Spec => RenderedIsCurrent
  <1>1. ASSUME RInv, [Next]_vars, shown' # shown, shown' # Nothing
        PROVE  shown'.content = content
    <2>1. PICK r \in Req : /\ shown' = [serial |-> job[r].serial, content |-> job[r].content]
                           /\ content' = content
                           /\ \/ Complete(r)
                              \/ pc[r] = "validate" /\ IsLive(r)
      BY <1>1, Renders
    <2>2. CASE Complete(r)
      <3>1. Active(r) /\ IsCurrentRefresh(r) BY <2>2 DEF Complete, Active
      <3>2. present
        <4>1. ~present => ses.run = 0 BY <1>1 DEF RInv, FolderInv, FreshSession
        <4>2. job[r].run # 0 BY <1>1, <3>1, ConstantsAssumption DEF RInv, HandleInv, RunIds
        <4> QED BY <3>1, <4>1, <4>2 DEF IsCurrentRefresh
      <3> QED BY <1>1, <2>1, <3>1, <3>2 DEF RInv, VersionInv, IsCurrentRefresh
    <2>3. CASE pc[r] = "validate" /\ IsLive(r)
      <3>1. Pending(r) /\ IsLive(r) BY <2>3 DEF Pending
      <3>2. present /\ job[r].ver = content BY <1>1, <3>1, LiveFacts
      <3> QED BY <1>1, <2>1, <2>3, <3>2 DEF RInv, VersionInv
    <2> QED BY <2>1, <2>2, <2>3
  <1>2. RInv /\ [Next]_vars => [shown' # shown /\ shown' # Nothing => shown'.content = content]_vars
    BY <1>1
  <1> QED BY <1>2, RefreshSound, PTL DEF Spec, RenderedIsCurrent

\* The result of an earlier run replaces that of a later one only when it comes
\* from the cache: a run whose result is used was the last one started.
THEOREM EarlierOnlyFromCache == ASSUME MaxFolderMoves <= 1 PROVE Spec => NoStaleOverwrite
  <1>1. ASSUME RInv, [Next]_vars, shown'.serial # 0, shown'.serial < shown.serial
        PROVE  \E k \in Key : ses.cache[k].serial = shown'.serial
    <2>0. LType /\ shown.serial \in Nat /\ job \in [Req -> JobType]
      BY <1>1 DEF RInv, LType
    <2>1. shown' # shown BY <1>1, <2>0
    <2>2. shown' # Nothing BY <1>1 DEF Nothing
    <2>3. PICK r \in Req : /\ shown' = [serial |-> job[r].serial, content |-> job[r].content]
                           /\ content' = content
                           /\ \/ Complete(r)
                              \/ pc[r] = "validate" /\ IsLive(r)
      BY <1>1, <2>1, <2>2, Renders
    <2>4. CASE Complete(r)
      <3>1. Active(r) /\ IsCurrentRefresh(r) BY <2>4 DEF Complete, Active
      <3>2. present
        <4>1. ~present => ses.run = 0 BY <1>1 DEF RInv, FolderInv, FreshSession
        <4>2. job[r].run # 0 BY <1>1, <3>1, ConstantsAssumption DEF RInv, HandleInv, RunIds
        <4> QED BY <3>1, <4>1, <4>2 DEF IsCurrentRefresh
      <3>3. job[r].serial = serial BY <1>1, <3>1, <3>2 DEF RInv, HandleInv, IsCurrentRefresh
      <3>4. shown.serial <= serial BY <1>1 DEF RInv, ResultInv, Ended
      <3>5. serial \in Nat /\ shown'.serial = serial BY <2>0, <2>3, <3>3 DEF LType
      <3> QED BY <1>1, <2>0, <3>4, <3>5
    <2>5. CASE pc[r] = "validate" /\ IsLive(r)
      <3>1. Pending(r) /\ IsLive(r) BY <2>5 DEF Pending
      <3>2. present BY <1>1, <3>1, LiveFacts
      <3>3. job[r].kind.key \in Key BY <2>0 DEF JobType, Kinds
      <3>4. ses.cache[job[r].kind.key].serial = job[r].serial
        BY <1>1, <2>5, <3>2, <3>3 DEF RInv, CacheInv
      <3> QED BY <2>3, <3>3, <3>4
    <2> QED BY <2>3, <2>4, <2>5
  <1>2. RInv /\ [Next]_vars =>
          [shown'.serial # 0 /\ shown'.serial < shown.serial =>
             \E k \in Key : ses.cache[k].serial = shown'.serial]_vars
    BY <1>1
  <1> QED BY <1>2, RefreshSound, PTL DEF Spec, NoStaleOverwrite
=============================================================================
