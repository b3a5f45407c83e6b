------------------------ MODULE QueueController_proofs ------------------------
(***************************************************************************)
(* Proofs about QueueController: for any number of pull requests, steps of *)
(* authors and failed runs, the controller arms and merges audited heads   *)
(* only, arms its leader beside no pull request it has armed before unless *)
(* that one's disarming was lost, and an idle queue has nothing armed but  *)
(* its leader.                                                             *)
(***************************************************************************)
EXTENDS QueueController, FiniteSetTheorems, TLAPS

-----------------------------------------------------------------------------
(* Types, without the bounds that depend on the state. *)

LTip == [n : Nat, canon : BOOLEAN, upto : Nat]
PullRecord == [open : BOOLEAN, labelled : BOOLEAN, draft : BOOLEAN, onMain : BOOLEAN,
               green : BOOLEAN, tip : LTip, armed : {"no", "app", "user"}]
\* Events that detach name their pull request.
SoundEvent == {ev \in Event \cup {NoEvent} : Detaches(ev) => ev.pr \in PR}
RunRecord == [pc : PCs, ev : SoundEvent, leader : PR \cup {0}, draft : BOOLEAN,
              tip : LTip, todo : SUBSET PR, base : Nat]
Group == [run : RunRecord, pending : SoundEvent, missed : BOOLEAN,
          undone : SUBSET PR]

\* An idle group has nothing waiting.
Settled(w) == w.run.pc = "idle" => w.run = NoRun /\ w.pending = NoEvent

LType ==
    /\ main \in Nat \ {0} /\ pull \in [PR -> PullRecord]
    /\ wf \in Group /\ Settled(wf)
    /\ users \in 0..MaxUser /\ faults \in 0..MaxFaults

-----------------------------------------------------------------------------
(* Operators. *)

\* The lowest number of a set of pull requests is one of them.
LEMMA MinIsLeast ==
  ASSUME NEW S \in SUBSET Nat, S # {}
  PROVE  Min(S) \in S /\ \A y \in S : Min(S) <= y
  <1> DEFINE R == OpToRel(<, Nat)
  <1>1. IsWellFoundedOn(R, Nat) BY NatLessThanWellFounded
  <1>2. \A x, y \in Nat : y < x => <<y, x>> \in R BY DEF OpToRel
  <1> HIDE DEF R
  <1>3. \E x \in S : \A y \in S : <<y, x>> \notin R BY <1>1, WFMin
  <1>4. PICK x \in S : \A y \in S : <<y, x>> \notin R BY <1>3
  <1>5. \A y \in S : x \in Nat /\ y \in Nat /\ ~(y < x) BY <1>2, <1>4
  <1>6. \A y \in S : x <= y BY <1>5
  <1> QED BY <1>6 DEF Min

\* Whose disarming a waiting event, or one about to be handled, will do.
CoveredIn(w, p) ==
    \/ p \in w.undone
    \/ Detaches(w.pending) /\ w.pending.pr = p
    \/ w.run.pc = "start" /\ Detaches(w.run.ev) /\ w.run.ev.pr = p

\* A run starts with nothing read.
LEMMA BegunType ==
  ASSUME NEW ev \in SoundEvent
  PROVE  /\ Begun(ev) \in RunRecord /\ Begun(ev).pc = "start" /\ Begun(ev).ev = ev
         /\ NoRun \in RunRecord /\ NoRun.pc = "idle"
  <1>1. NoTip \in LTip BY DEF NoTip, LTip
  <1>2. NoEvent \in SoundEvent BY DEF SoundEvent, NoEvent, Detaches
  <1>3. \A e \in SoundEvent, pc \in PCs :
          Blank(pc, e) \in RunRecord /\ Blank(pc, e).pc = pc /\ Blank(pc, e).ev = e
    BY <1>1 DEF Blank, RunRecord
  <1> QED BY <1>2, <1>3 DEF Begun, NoRun, PCs

\* A run that ends leaves the group idle or starts the run that waited.
LEMMA FinishFacts ==
  ASSUME NEW w \in Group
  PROVE  /\ Finish(w) \in Group /\ Settled(Finish(w))
         /\ Finish(w).run.pc \in {"idle", "start"}
         /\ Finish(w).undone = w.undone /\ Finish(w).missed = w.missed
         /\ \A p \in PR : CoveredIn(w, p) /\ (w.run.pc = "start" => ~Detaches(w.run.ev))
                => CoveredIn(Finish(w), p)
  <1>0. NoEvent \in SoundEvent BY DEF SoundEvent, NoEvent, Detaches
  <1>1. Finish(w).run = (IF w.pending = NoEvent THEN NoRun ELSE Begun(w.pending))
        /\ Finish(w).pending = NoEvent
        /\ Finish(w).undone = w.undone /\ Finish(w).missed = w.missed
    BY DEF Finish, Group
  <1>2. w.pending \in SoundEvent BY DEF Group
  <1>3. Begun(w.pending) \in RunRecord /\ Begun(w.pending).pc = "start"
        /\ Begun(w.pending).ev = w.pending /\ NoRun \in RunRecord /\ NoRun.pc = "idle"
    BY <1>2, BegunType
  <1>4. Finish(w) \in Group
    <2>1. \A x \in RunRecord : [w EXCEPT !.run = x, !.pending = NoEvent] \in Group
      BY <1>0 DEF Group
    <2> QED BY <1>3, <2>1 DEF Finish
  <1>5. ~Detaches(NoEvent) BY DEF Detaches, NoEvent
  <1> QED BY <1>1, <1>3, <1>4, <1>5 DEF CoveredIn, Settled

\* A new event starts a run or waits; what it replaces is noted.
LEMMA RaiseFacts ==
  ASSUME NEW w \in Group, Settled(w), NEW ev \in SoundEvent
  PROVE  /\ Raise(w, ev) \in Group /\ Settled(Raise(w, ev))
         /\ w.run.pc = "idle" => Raise(w, ev).run = Begun(ev) /\ Raise(w, ev).undone = w.undone
         /\ w.run.pc # "idle" =>
               /\ Raise(w, ev).run = w.run /\ Raise(w, ev).pending = ev
               /\ Detaches(w.pending) => w.pending.pr \in Raise(w, ev).undone
         /\ w.undone \subseteq Raise(w, ev).undone
         /\ \A p \in PR : CoveredIn(w, p) => CoveredIn(Raise(w, ev), p)
         /\ \A p \in PR : Detaches(ev) /\ ev.pr = p => CoveredIn(Raise(w, ev), p)
  <1>0. ~Detaches(NoEvent) BY DEF Detaches, NoEvent
  <1>b. Begun(ev) \in RunRecord /\ Begun(ev).pc = "start" /\ Begun(ev).ev = ev
    BY BegunType
  <1>1. CASE w.run.pc = "idle"
    <2>1. Raise(w, ev) = [w EXCEPT !.run = Begun(ev)] BY <1>1 DEF Raise
    <2>2. Raise(w, ev) \in Group BY <2>1, <1>b DEF Group
    <2>3. Raise(w, ev).run = Begun(ev) /\ Raise(w, ev).undone = w.undone
          /\ w.pending = NoEvent
      BY <1>1, <2>1 DEF Group, Settled
    <2> QED BY <1>0, <1>1, <1>b, <2>2, <2>3 DEF CoveredIn, Settled
  <1>2. CASE w.run.pc # "idle"
    <2>1. Raise(w, ev) =
            [run |-> w.run, pending |-> ev, missed |-> Raise(w, ev).missed,
             undone |-> IF Detaches(w.pending) THEN w.undone \cup {w.pending.pr} ELSE w.undone]
          /\ Raise(w, ev).missed \in BOOLEAN
      BY <1>2 DEF Raise, Group
    <2>2. Detaches(w.pending) => w.pending.pr \in PR BY DEF Group, SoundEvent
    <2>3. Raise(w, ev) \in Group BY <2>1, <2>2 DEF Group
    <2>4. /\ Raise(w, ev).run = w.run /\ Raise(w, ev).pending = ev
          /\ w.undone \subseteq Raise(w, ev).undone
          /\ Detaches(w.pending) => w.pending.pr \in Raise(w, ev).undone
      BY <2>1
    <2>5. \A p \in PR : CoveredIn(w, p) => CoveredIn(Raise(w, ev), p) BY <2>4 DEF CoveredIn
    <2>6. \A p \in PR : Detaches(ev) /\ ev.pr = p => CoveredIn(Raise(w, ev), p)
      BY <2>4 DEF CoveredIn
    <2> QED BY <1>2, <2>3, <2>4, <2>5, <2>6 DEF Settled
  <1> QED BY <1>1, <1>2
-----------------------------------------------------------------------------
(* The inductive invariant, of pull requests pl and a concurrency group w.    *)

InQ(pl, p) == pl[p].open /\ pl[p].onMain /\ pl[p].labelled

\* A run that has listed the queue, and one whose leader passed the audit.
Active == {"followers", "branch", "again", "state", "merge", "arm", "retry", "done"}
Audited == {"again", "state", "merge", "arm", "retry"}

\* What a run has read of its leader is the present head or an earlier one.
RunOK(pl, w) ==
    /\ w.run.pc \in Active =>
        /\ w.run.leader \in PR
        /\ w.run.tip.n <= pl[w.run.leader].tip.n
        /\ w.run.tip.n = pl[w.run.leader].tip.n => w.run.tip = pl[w.run.leader].tip
    /\ w.run.pc \in Audited => w.run.tip.canon /\ w.run.tip.upto = w.run.base
    /\ w.run.pc \in Active \ {"followers"} => w.run.todo = {}

Acting(w, p) == w.run.pc \in Active /\ w.run.leader = p

\* A pull request that has left the queue armed, or may yet be armed, will be
\* disarmed by an event, unless its disarming was lost.
ArmedOK(pl, w) ==
    \A p \in PR :
        pl[p].open /\ ~InQ(pl, p) /\ (pl[p].armed = "app" \/ Acting(w, p)) => CoveredIn(w, p)

\* Besides its leader and those still to disarm, a run knows of no armed pull
\* request in the queue.
AloneOK(pl, w) ==
    w.run.pc \in Active =>
        \A q \in PR : /\ q # w.run.leader /\ q \notin w.run.todo
                      /\ pl[q].armed = "app" /\ InQ(pl, q)
                      => q \in w.undone

Sound(pl, w) ==
    /\ pl \in [PR -> PullRecord] /\ w \in Group /\ Settled(w)
    /\ RunOK(pl, w) /\ ArmedOK(pl, w) /\ AloneOK(pl, w)

QInv == main \in Nat \ {0} /\ Sound(pull, wf)

LEMMA FinishSound ==
  ASSUME NEW pl, NEW w, Sound(pl, w), w.run.pc = "start" => ~Detaches(w.run.ev)
  PROVE  Sound(pl, Finish(w))
  <1>1. w \in Group BY DEF Sound
  <1>2. Finish(w).run.pc \notin Active BY <1>1, FinishFacts DEF Active
  <1>3. RunOK(pl, Finish(w)) /\ AloneOK(pl, Finish(w))
    BY <1>2 DEF RunOK, AloneOK, Active, Audited
  <1>4. ArmedOK(pl, Finish(w))
    BY <1>1, <1>2, FinishFacts DEF Sound, ArmedOK, Acting
  <1> QED BY <1>1, <1>3, <1>4, FinishFacts DEF Sound

LEMMA RaiseSound ==
  ASSUME NEW pl, NEW w, Sound(pl, w), NEW ev \in SoundEvent
  PROVE  Sound(pl, Raise(w, ev))
  <1>1. w \in Group /\ Settled(w) BY DEF Sound
  <1>2. CASE w.run.pc = "idle"
    <2>1. Raise(w, ev).run.pc = "start" BY <1>1, <1>2, RaiseFacts, BegunType
    <2>2. RunOK(pl, Raise(w, ev)) /\ AloneOK(pl, Raise(w, ev))
      BY <2>1 DEF RunOK, AloneOK, Active, Audited
    <2>3. ArmedOK(pl, Raise(w, ev))
      BY <1>1, <2>1, RaiseFacts DEF Sound, ArmedOK, Acting, Active
    <2> QED BY <1>1, <2>2, <2>3, RaiseFacts DEF Sound
  <1>3. CASE w.run.pc # "idle"
    <2>1. Raise(w, ev).run = w.run /\ w.undone \subseteq Raise(w, ev).undone
      BY <1>1, <1>3, RaiseFacts
    <2>2. RunOK(pl, Raise(w, ev)) BY <2>1 DEF Sound, RunOK
    <2>3. AloneOK(pl, Raise(w, ev)) BY <2>1 DEF Sound, AloneOK
    <2>4. ArmedOK(pl, Raise(w, ev)) BY <1>1, <2>1, RaiseFacts DEF Sound, ArmedOK, Acting
    <2> QED BY <1>1, <2>2, <2>3, <2>4, RaiseFacts DEF Sound
  <1> QED BY <1>2, <1>3
\* More that is known to be lost.
LEMMA LostSound ==
  ASSUME NEW pl, NEW w, Sound(pl, w), NEW v \in Group,
         v.run = w.run, v.pending = w.pending, w.undone \subseteq v.undone
  PROVE  Sound(pl, v)
  <1>1. Settled(v) BY DEF Sound, Settled
  <1>2. RunOK(pl, v) BY DEF Sound, RunOK
  <1>3. ArmedOK(pl, v) BY DEF Sound, ArmedOK, Acting, CoveredIn
  <1>4. AloneOK(pl, v) BY DEF Sound, AloneOK
  <1> QED BY <1>1, <1>2, <1>3, <1>4 DEF Sound

\* A failed run ends as any other.
LEMMA FailSound ==
  ASSUME NEW pl, NEW w, Sound(pl, w), w.run.pc = "start" => ~Detaches(w.run.ev)
  PROVE  Sound(pl, Fail(w))
  <1> DEFINE v == [w EXCEPT !.missed = TRUE]
  <1>1. v \in Group /\ v.run = w.run /\ v.pending = w.pending /\ v.undone = w.undone
    BY DEF Sound, Group
  <1> HIDE DEF v
  <1>2. Sound(pl, v) BY <1>1, LostSound
  <1>3. Sound(pl, Finish(v)) BY <1>1, <1>2, FinishSound
  <1> QED BY <1>3 DEF Fail, v

LEMMA GotoType ==
  ASSUME NEW w \in Group, NEW pc \in PCs
  PROVE  /\ Goto(w, pc) \in Group /\ Goto(w, pc).pending = w.pending
         /\ Goto(w, pc).undone = w.undone /\ Goto(w, pc).run.pc = pc
         /\ Goto(w, pc).run.leader = w.run.leader /\ Goto(w, pc).run.tip = w.run.tip
         /\ Goto(w, pc).run.todo = w.run.todo /\ Goto(w, pc).run.base = w.run.base
  BY DEF Goto, Group, RunRecord

\* The run goes on to its next call.
LEMMA GotoSound ==
  ASSUME NEW pl, NEW w, Sound(pl, w), NEW pc \in PCs \ {"idle", "start"},
         w.run.pc # "idle", w.run.pc = "start" => ~Detaches(w.run.ev),
         pc \in Active => w.run.pc \in Active /\ w.run.todo = {},
         pc \in Audited => w.run.pc \in Audited
  PROVE  Sound(pl, Goto(w, pc)) /\ Goto(w, pc).run.pc = pc
  <1> DEFINE v == Goto(w, pc)
  <1>1. w \in Group BY DEF Sound
  <1>2. /\ v \in Group /\ v.pending = w.pending /\ v.undone = w.undone
        /\ v.run.pc = pc /\ v.run.leader = w.run.leader /\ v.run.tip = w.run.tip
        /\ v.run.todo = w.run.todo /\ v.run.base = w.run.base
    BY <1>1, GotoType
  <1> HIDE DEF v
  <1>3. Settled(v) BY <1>2 DEF Settled
  <1>4. RunOK(pl, v) BY <1>2 DEF Sound, RunOK
  <1>5. ArmedOK(pl, v) BY <1>2 DEF Sound, ArmedOK, Acting, CoveredIn
  <1>6. AloneOK(pl, v) BY <1>2 DEF Sound, AloneOK
  <1>7. Sound(pl, v) /\ v.run.pc = pc BY <1>2, <1>3, <1>4, <1>5, <1>6 DEF Sound
  <1> QED BY <1>7 DEF v

\* Pull requests that differ in an auto-merge that is no longer armed.
LEMMA DisarmSound ==
  ASSUME NEW pl, NEW w, Sound(pl, w), NEW p \in PR
  PROVE  Sound([pl EXCEPT ![p].armed = "no"], w)
  <1> DEFINE pn == [pl EXCEPT ![p].armed = "no"]
  <1>0. pl \in [PR -> PullRecord] BY DEF Sound
  <1>1. pn \in [PR -> PullRecord] BY <1>0 DEF PullRecord
  <1>2. \A q \in PR : pn[q].tip = pl[q].tip /\ pn[q].open = pl[q].open
                      /\ pn[q].onMain = pl[q].onMain /\ pn[q].labelled = pl[q].labelled
                      /\ (pn[q].armed = "app" => pl[q].armed = "app")
    BY <1>0 DEF PullRecord
  <1> HIDE DEF pn
  <1>3. \A q \in PR : InQ(pn, q) = InQ(pl, q) BY <1>2 DEF InQ
  <1>4. RunOK(pn, w) BY <1>2 DEF Sound, RunOK
  <1>5. ArmedOK(pn, w) BY <1>2, <1>3 DEF Sound, ArmedOK
  <1>6. AloneOK(pn, w) BY <1>2, <1>3 DEF Sound, AloneOK
  <1>7. Sound(pn, w) BY <1>1, <1>4, <1>5, <1>6 DEF Sound
  <1> QED BY <1>7 DEF pn

\* A pull request that is merged, or closed, needs no disarming.
LEMMA ClosedSound ==
  ASSUME NEW pl, NEW w, Sound(pl, w), NEW p \in PR
  PROVE  Sound([pl EXCEPT ![p].open = FALSE, ![p].armed = "no"],
               [w EXCEPT !.undone = @ \ {p}])
  <1> DEFINE pn == [pl EXCEPT ![p].open = FALSE, ![p].armed = "no"]
             v == [w EXCEPT !.undone = @ \ {p}]
  <1>0. pl \in [PR -> PullRecord] /\ w \in Group BY DEF Sound
  <1>1. pn \in [PR -> PullRecord] /\ ~pn[p].open BY <1>0 DEF PullRecord
  <1>2. \A q \in PR : pn[q].tip = pl[q].tip /\ (q # p => pn[q] = pl[q])
    BY <1>0 DEF PullRecord
  <1>3. v \in Group /\ v.run = w.run /\ v.pending = w.pending /\ v.undone = w.undone \ {p}
    BY <1>0 DEF Group
  <1> HIDE DEF pn, v
  <1>4. Settled(v) BY <1>3 DEF Sound, Settled
  <1>5. RunOK(pn, v) BY <1>2, <1>3 DEF Sound, RunOK
  <1>6. ArmedOK(pn, v)
    <2> SUFFICES ASSUME NEW q \in PR, pn[q].open, ~InQ(pn, q),
                        pn[q].armed = "app" \/ Acting(v, q)
                 PROVE  CoveredIn(v, q)
      BY DEF ArmedOK
    <2>1. q # p /\ pn[q] = pl[q] BY <1>1, <1>2
    <2>2. CoveredIn(w, q) BY <1>3, <2>1 DEF Sound, ArmedOK, InQ, Acting
    <2> QED BY <1>3, <2>1, <2>2 DEF CoveredIn
  <1>7. AloneOK(pn, v) BY <1>1, <1>2, <1>3 DEF Sound, AloneOK, InQ
  <1>8. Sound(pn, v) BY <1>1, <1>3, <1>4, <1>5, <1>6, <1>7 DEF Sound
  <1> QED BY <1>8 DEF pn, v

\* An event carries what its pull request then is.
LEMMA AboutFacts ==
  ASSUME NEW p \in PR, NEW kind \in Kinds, NEW r \in PullRecord
  PROVE  /\ About(kind, p, r) \in SoundEvent /\ About(kind, p, r).pr = p
         /\ Detaches(About(kind, p, r)) <=> kind = "unlabeled" \/ (r.labelled /\ ~r.onMain)
         /\ MainEvent \in SoundEvent
  BY DEF About, SoundEvent, Event, Detaches, PullRecord, MainEvent, Kinds

\* A pull request is changed and its event raised: whoever leaves the queue armed
\* says so in the event.
LEMMA ChangeSound ==
  ASSUME NEW p \in PR, NEW kind \in Kinds, NEW r \in PullRecord,
         NEW pl, NEW w, Sound(pl, w), pl[p].open,
         r.armed = "app" => pl[p].armed = "app",
         r.tip = pl[p].tip \/ r.tip.n > pl[p].tip.n,
         r.open /\ InQ(pl, p) =>
            (r.onMain /\ r.labelled) \/ kind = "unlabeled" \/ (r.labelled /\ ~r.onMain)
  PROVE  Sound([pl EXCEPT ![p] = r], Raise(w, About(kind, p, r)))
  <1> DEFINE ev == About(kind, p, r)
             pn == [pl EXCEPT ![p] = r]
             v == Raise(w, ev)
  <1>0. /\ pl \in [PR -> PullRecord] /\ w \in Group /\ Settled(w) /\ ev \in SoundEvent
        /\ ev.pr = p
        /\ Detaches(ev) <=> kind = "unlabeled" \/ (r.labelled /\ ~r.onMain)
    BY AboutFacts DEF Sound
  <1>1. pn \in [PR -> PullRecord] /\ pn[p] = r /\ \A q \in PR : q # p => pn[q] = pl[q]
    BY <1>0
  <1> HIDE DEF pn, v, ev
  <1>2. Sound(pl, v) BY <1>0, RaiseSound DEF v
  <1>3. /\ \A q \in PR : CoveredIn(w, q) => CoveredIn(v, q)
        /\ \A q \in PR : Detaches(ev) /\ ev.pr = q => CoveredIn(v, q)
        /\ v.run.pc \in Active => w.run = v.run
        /\ w.run.pc # "idle" /\ Detaches(w.pending) => w.pending.pr \in v.undone
        /\ w.undone \subseteq v.undone
    BY <1>0, RaiseFacts, BegunType DEF v, Active
  <1>4. RunOK(pn, v)
    <2>1. ASSUME v.run.pc \in Active
          PROVE  /\ v.run.leader \in PR
                 /\ v.run.tip.n <= pn[v.run.leader].tip.n
                 /\ v.run.tip.n = pn[v.run.leader].tip.n => v.run.tip = pn[v.run.leader].tip
      <3>1. /\ v.run.leader \in PR /\ v.run.tip.n <= pl[v.run.leader].tip.n
            /\ v.run.tip.n = pl[v.run.leader].tip.n => v.run.tip = pl[v.run.leader].tip
        BY <1>2, <2>1 DEF Sound, RunOK
      <3>2. v.run.tip.n \in Nat /\ pl[p].tip.n \in Nat /\ r.tip.n \in Nat
        BY <1>0, <1>2 DEF Sound, Group, RunRecord, LTip, PullRecord
      <3> QED BY <1>1, <3>1, <3>2
    <2> QED BY <1>2, <2>1 DEF Sound, RunOK
  <1>5. ArmedOK(pn, v)
    <2> SUFFICES ASSUME NEW q \in PR, pn[q].open, ~InQ(pn, q),
                        pn[q].armed = "app" \/ Acting(v, q)
                 PROVE  CoveredIn(v, q)
      BY DEF ArmedOK
    <2>1. CASE q # p BY <1>1, <1>2, <2>1 DEF Sound, ArmedOK, InQ
    <2>2. CASE q = p
      <3>1. CASE InQ(pl, p) BY <1>0, <1>1, <1>3, <2>2, <3>1 DEF InQ
      <3>2. CASE ~InQ(pl, p) BY <1>1, <1>2, <2>2, <3>2 DEF Sound, ArmedOK
      <3> QED BY <3>1, <3>2
    <2> QED BY <2>1, <2>2
  <1>6. AloneOK(pn, v)
    <2> SUFFICES ASSUME v.run.pc \in Active, NEW q \in PR, q # v.run.leader,
                        q \notin v.run.todo, pn[q].armed = "app", InQ(pn, q)
                 PROVE  q \in v.undone
      BY DEF AloneOK
    <2>1. CASE q # p \/ InQ(pl, q) BY <1>1, <1>2, <2>1 DEF Sound, AloneOK, InQ
    <2>2. CASE q = p /\ ~InQ(pl, q)
      <3>1. CoveredIn(w, p) BY <1>1, <2>2 DEF Sound, ArmedOK
      <3>2. w.run.pc \in Active BY <1>3
      <3> QED BY <1>3, <2>2, <3>1, <3>2 DEF CoveredIn, Active
    <2> QED BY <2>1, <2>2
  <1>7. Sound(pn, v) BY <1>1, <1>2, <1>4, <1>5, <1>6 DEF Sound
  <1> QED BY <1>7 DEF pn, v, ev

-----------------------------------------------------------------------------
(* Steps. *)

LEMMA InitSound == Init => QInv
  <1> SUFFICES ASSUME Init PROVE QInv OBVIOUS
  <1>1. MainEvent \in SoundEvent BY DEF MainEvent, SoundEvent, Event, Detaches, Kinds
  <1>2. NoEvent \in SoundEvent BY DEF NoEvent, SoundEvent, Detaches
  <1>3. Begun(MainEvent) \in RunRecord /\ Begun(MainEvent).pc = "start" BY <1>1, BegunType
  <1>4. wf \in Group /\ wf.run.pc = "start" BY <1>2, <1>3 DEF Init, Group
  <1>5. pull \in [PR -> PullRecord]
    <2>1. {[n |-> 1, canon |-> TRUE, upto |-> 1]} \subseteq LTip BY DEF LTip
    <2> QED BY <2>1 DEF Init, PullRecord
  <1>6. \A p \in PR : pull[p].armed = "no" BY DEF Init
  <1>7. RunOK(pull, wf) /\ AloneOK(pull, wf) /\ Settled(wf)
    BY <1>4 DEF RunOK, AloneOK, Settled, Active, Audited
  <1>8. ArmedOK(pull, wf) BY <1>4, <1>6 DEF ArmedOK, Acting, Active
  <1>9. main \in Nat \ {0} BY DEF Init
  <1> QED BY <1>4, <1>5, <1>7, <1>8, <1>9 DEF QInv, Sound

LEMMA ReconcileSound == QInv /\ ReconcileEvent => Sound(pull', wf')
  <1> SUFFICES ASSUME QInv, ReconcileEvent PROVE Sound(pull', wf') OBVIOUS
  <1>0. /\ Sound(pull, wf) /\ pull \in [PR -> PullRecord] /\ wf \in Group
        /\ wf.run.pc = "start" /\ wf.run.ev \in SoundEvent
    BY DEF QInv, Sound, ReconcileEvent, run, Group, RunRecord
  <1>1. CASE Detaches(wf.run.ev)
    <2> DEFINE p == wf.run.ev.pr
    <2>1. p \in PR BY <1>0, <1>1 DEF SoundEvent
    <2>2. Sound(pull', wf) /\ pull'[p].armed = "no"
      <3>1. pull' = [pull EXCEPT ![p].armed = "no"]
        BY <1>1 DEF ReconcileEvent, Disarm, run
      <3>2. pull'[p].armed = "no" BY <1>0, <2>1, <3>1 DEF PullRecord
      <3>3. Sound([pull EXCEPT ![p].armed = "no"], wf)
        <4> HIDE DEF p
        <4> QED BY <1>0, <2>1, DisarmSound
      <3> QED BY <3>1, <3>2, <3>3
    <2>3. /\ wf' \in Group /\ wf'.pending = wf.pending /\ wf'.undone = wf.undone \ {p}
          /\ wf'.run.pc = "list"
      <3> DEFINE v == [wf EXCEPT !.undone = @ \ {p}]
      <3>1. v \in Group /\ v.pending = wf.pending /\ v.undone = wf.undone \ {p}
        BY <1>0 DEF Group
      <3>2. wf' = Goto(v, "list") BY <1>1 DEF ReconcileEvent, run
      <3> HIDE DEF v, p
      <3> QED BY <3>1, <3>2, GotoType DEF PCs
    <2> HIDE DEF p
    <2>4. RunOK(pull', wf') /\ AloneOK(pull', wf') /\ Settled(wf')
      BY <2>3 DEF RunOK, AloneOK, Settled, Active, Audited
    <2>5. ArmedOK(pull', wf')
      <3> SUFFICES ASSUME NEW q \in PR, pull'[q].open, ~InQ(pull', q), pull'[q].armed = "app"
                   PROVE  CoveredIn(wf', q)
        BY <2>3 DEF ArmedOK, Acting, Active
      <3>1. CoveredIn(wf, q) /\ q # p BY <2>2 DEF Sound, ArmedOK
      <3> QED BY <2>3, <3>1 DEF CoveredIn, p
    <2> QED BY <2>2, <2>3, <2>4, <2>5 DEF Sound
  <1>2. CASE ~Detaches(wf.run.ev)
    <2>1. pull' = pull /\ wf' = Goto(wf, "list") BY <1>2 DEF ReconcileEvent, run
    <2>2. Sound(pull, Goto(wf, "list"))
      BY <1>0, <1>2, GotoSound DEF PCs, Active, Audited
    <2> QED BY <2>1, <2>2
  <1> QED BY <1>1, <1>2

LEMMA ListSound == QInv /\ List => Sound(pull', wf')
  <1> SUFFICES ASSUME QInv, List PROVE Sound(pull', wf') OBVIOUS
  <1>0. Sound(pull, wf) /\ pull \in [PR -> PullRecord] /\ wf \in Group
        /\ wf.run.pc = "list" /\ pull' = pull /\ wf.run \in RunRecord
    BY DEF QInv, Sound, List, run, Group
  <1>1. ASSUME wf' = Finish([wf EXCEPT !.missed = FALSE]) PROVE Sound(pull', wf')
    <2> DEFINE v == [wf EXCEPT !.missed = FALSE]
    <2>1. v \in Group /\ v.run = wf.run /\ v.pending = wf.pending /\ v.undone = wf.undone
      BY <1>0 DEF Group
    <2> HIDE DEF v
    <2>2. Sound(pull, Finish(v)) BY <1>0, <2>1, LostSound, FinishSound
    <2> QED BY <1>0, <1>1, <2>2 DEF v
  <1>2. ASSUME wf' = Finish(wf) PROVE Sound(pull', wf')
    BY <1>0, <1>2, FinishSound
  <1>3. ASSUME Queue # {},
               wf' = [wf EXCEPT !.missed = FALSE, !.undone = @ \ Queue,
                        !.run = [@ EXCEPT !.pc = "followers", !.leader = Min(Queue),
                                   !.todo = Queue \ {Min(Queue)},
                                   !.draft = pull[Min(Queue)].draft,
                                   !.tip = pull[Min(Queue)].tip]]
        PROVE  Sound(pull', wf')
    <2> DEFINE p == Min(Queue)
    <2>1. Queue \in SUBSET PR /\ Queue \in SUBSET Nat BY QueueAssumption DEF Queue
    <2>2. p \in Queue /\ p \in PR BY <1>3, <2>1, MinIsLeast
    <2> HIDE DEF p
    <2>3. pull[p].tip \in LTip /\ pull[p].draft \in BOOLEAN BY <1>0, <2>2 DEF PullRecord
    <2>4. wf'.run = [wf.run EXCEPT !.pc = "followers", !.leader = p, !.todo = Queue \ {p},
                       !.draft = pull[p].draft, !.tip = pull[p].tip]
          /\ wf'.pending = wf.pending /\ wf'.undone = wf.undone \ Queue
      BY <1>0, <1>3 DEF Group, p
    <2>5. wf'.run \in RunRecord BY <1>0, <2>1, <2>2, <2>3, <2>4 DEF RunRecord, PCs
    <2>6. wf' \in Group
      <3>1. \A x \in RunRecord : [wf EXCEPT !.missed = FALSE, !.undone = @ \ Queue, !.run = x]
                                   \in Group
        BY <1>0 DEF Group
      <3> QED BY <1>3, <2>4, <2>5, <3>1 DEF p
    <2>7. /\ wf'.run.pc = "followers" /\ wf'.run.leader = p /\ wf'.run.tip = pull[p].tip
          /\ wf'.run.todo = Queue \ {p}
      BY <1>0, <2>4 DEF RunRecord
    <2>8. \A q \in PR : InQ(pull, q) <=> q \in Queue BY DEF InQ, Queue, InQueue
    <2>9. RunOK(pull, wf') BY <2>2, <2>3, <2>7 DEF RunOK, Audited, LTip
    <2>10. AloneOK(pull, wf') BY <2>7, <2>8 DEF AloneOK
    <2>11. ArmedOK(pull, wf')
      <3> SUFFICES ASSUME NEW q \in PR, pull[q].open, ~InQ(pull, q),
                          pull[q].armed = "app" \/ Acting(wf', q)
                   PROVE  CoveredIn(wf', q)
        BY DEF ArmedOK
      <3>1. q \notin Queue BY <2>8
      <3>2. CoveredIn(wf, q) BY <1>0, <2>2, <2>7, <3>1 DEF Sound, ArmedOK, Acting
      <3> QED BY <1>0, <2>4, <3>1, <3>2 DEF CoveredIn
    <2>12. Settled(wf') BY <2>7 DEF Settled
    <2> QED BY <1>0, <2>6, <2>9, <2>10, <2>11, <2>12 DEF Sound
  <1> QED BY <1>1, <1>2, <1>3 DEF List

LEMMA FollowersSound == QInv /\ DisarmFollower => Sound(pull', wf')
  <1> SUFFICES ASSUME QInv, DisarmFollower PROVE Sound(pull', wf') OBVIOUS
  <1> DEFINE p == Min(Followers)
  <1>0. /\ Sound(pull, wf) /\ pull \in [PR -> PullRecord] /\ wf \in Group
        /\ wf.run.pc = "followers" /\ wf.run \in RunRecord
    BY DEF QInv, Sound, DisarmFollower, run, Group
  <1>1. p \in PR
    <2>1. Followers \in SUBSET PR BY <1>0 DEF Followers, run, RunRecord
    <2>2. Followers \in SUBSET Nat BY <2>1, QueueAssumption
    <2> QED BY <2>1, <2>2, MinIsLeast DEF DisarmFollower
  <1>2. pull' = [pull EXCEPT ![p].armed = "no"] BY DEF DisarmFollower, Disarm
  <1> HIDE DEF p
  <1>3. Sound(pull', wf) BY <1>0, <1>1, <1>2, DisarmSound
  <1>4. pull'[p].armed = "no" BY <1>0, <1>1, <1>2 DEF PullRecord
  <1>5. /\ wf' \in Group /\ wf'.pending = wf.pending /\ wf'.undone = wf.undone
        /\ wf'.run.pc = "followers" /\ wf'.run.leader = wf.run.leader
        /\ wf'.run.tip = wf.run.tip /\ wf'.run.todo = wf.run.todo \ {p}
    BY <1>0 DEF DisarmFollower, Group, RunRecord, p
  <1>6. Settled(wf') BY <1>5 DEF Settled
  <1>7. RunOK(pull', wf') BY <1>0, <1>3, <1>5 DEF Sound, RunOK, Audited
  <1>8. ArmedOK(pull', wf') BY <1>0, <1>3, <1>5 DEF Sound, ArmedOK, Acting, CoveredIn
  <1>9. AloneOK(pull', wf') BY <1>0, <1>3, <1>4, <1>5 DEF Sound, AloneOK
  <1> QED BY <1>3, <1>5, <1>6, <1>7, <1>8, <1>9 DEF Sound

LEMMA LeaderSound == QInv /\ DisarmLeader => Sound(pull', wf')
  <1> SUFFICES ASSUME QInv, DisarmLeader PROVE Sound(pull', wf') OBVIOUS
  <1>0. Sound(pull, wf) /\ wf.run.pc = "followers" /\ wf.run.todo = {}
    BY DEF QInv, DisarmLeader, run, Followers
  <1>1. wf.run.leader \in PR BY <1>0 DEF Sound, RunOK, Active
  <1>2. pull' = [pull EXCEPT ![wf.run.leader].armed = "no"] BY DEF DisarmLeader, Disarm, run
  <1>3. Sound(pull', wf) BY <1>0, <1>1, <1>2, DisarmSound
  <1>4. Sound(pull', Finish(wf)) BY <1>0, <1>3, FinishSound
  <1>5. Sound(pull', Goto(wf, "branch"))
    BY <1>0, <1>3, GotoSound DEF PCs, Active, Audited
  <1> QED BY <1>4, <1>5 DEF DisarmLeader

LEMMA VerifySound == QInv /\ Verify => Sound(pull', wf')
  <1> SUFFICES ASSUME QInv, Verify PROVE Sound(pull', wf') OBVIOUS
  <1>0. /\ Sound(pull, wf) /\ wf \in Group /\ wf.run \in RunRecord
        /\ wf.run.pc = "branch" /\ pull' = pull /\ main \in Nat
    BY DEF QInv, Sound, Verify, run, Group
  <1>1. CASE wf' = Finish(wf) BY <1>0, <1>1, FinishSound
  <1>2. CASE /\ PassesAudit(run.tip) /\ ContainsMain(run.tip)
             /\ wf' = [wf EXCEPT !.run.pc = "again", !.run.base = main]
    <2>1. /\ wf' \in Group /\ wf'.pending = wf.pending /\ wf'.undone = wf.undone
          /\ wf'.run.pc = "again" /\ wf'.run.leader = wf.run.leader
          /\ wf'.run.tip = wf.run.tip /\ wf'.run.todo = wf.run.todo /\ wf'.run.base = main
      BY <1>0, <1>2 DEF Group, RunRecord, PCs
    <2>2. wf.run.tip.canon /\ wf.run.tip.upto = main
      BY <1>2 DEF PassesAudit, ContainsMain, run
    <2>3. Settled(wf') BY <2>1 DEF Settled
    <2>4. RunOK(pull, wf') BY <1>0, <2>1, <2>2 DEF Sound, RunOK, Active
    <2>5. ArmedOK(pull, wf') BY <1>0, <2>1 DEF Sound, ArmedOK, Acting, CoveredIn, Active
    <2>6. AloneOK(pull, wf') BY <1>0, <2>1 DEF Sound, AloneOK, Active
    <2> QED BY <1>0, <2>1, <2>3, <2>4, <2>5, <2>6 DEF Sound
  <1> QED BY <1>1, <1>2 DEF Verify

LEMMA ReadSound == QInv /\ ReadState => Sound(pull', wf')
  <1> SUFFICES ASSUME QInv, ReadState PROVE Sound(pull', wf') OBVIOUS
  <1>0. /\ Sound(pull, wf) /\ wf \in Group /\ wf.run \in RunRecord
        /\ wf.run.pc = "state" /\ pull' = pull
    BY DEF QInv, Sound, ReadState, run, Group
  <1>1. CASE wf' = Finish(wf) BY <1>0, <1>1, FinishSound
  <1>2. CASE SameHead
    <2> DEFINE w == [wf EXCEPT !.run.tip = Leading.tip]
    <2>1. Leading.tip = wf.run.tip
      BY <1>0, <1>2 DEF SameHead, Leading, run, Sound, RunOK, Active
    <2>2. w = wf BY <1>0, <2>1 DEF Group, RunRecord
    <2>3. wf.run.todo = {} BY <1>0 DEF Sound, RunOK, Active
    <2> HIDE DEF w
    <2>4. Sound(pull, Goto(w, "done")) /\ Sound(pull, Goto(w, "merge"))
          /\ Sound(pull, Goto(w, "arm"))
      BY <1>0, <2>2, <2>3, GotoSound DEF PCs, Active, Audited
    <2> QED BY <1>0, <1>1, <2>4 DEF ReadState, w
  <1> QED BY <1>1, <1>2 DEF ReadState

\* A merge of a pull request, and the events it raises.
LEMMA MergeSound ==
  ASSUME NEW p \in PR, NEW w, Sound(pull, w), main \in Nat \ {0}, DoMerge(p, w)
  PROVE  Sound(pull', wf') /\ main' \in Nat \ {0}
  <1> DEFINE r == Raise(w, About("pull", p, pull[p]))
  <1>1. About("pull", p, pull[p]) \in SoundEvent /\ MainEvent \in SoundEvent
    BY AboutFacts DEF Sound, Kinds
  <1>2. Sound(pull, r) BY <1>1, RaiseSound
  <1>3. Merged(w, p) = (IF pull[p].onMain THEN Raise(r, MainEvent) ELSE r) BY DEF Merged
  <1> HIDE DEF r
  <1>4. Sound(pull, Merged(w, p)) BY <1>1, <1>2, <1>3, RaiseSound
  <1>5. Sound([pull EXCEPT ![p].open = FALSE, ![p].armed = "no"],
              [Merged(w, p) EXCEPT !.undone = @ \ {p}])
    BY <1>4, ClosedSound
  <1> QED BY <1>5 DEF DoMerge

\* The mutations, and what follows a refused arming.
LEMMA MutateSound ==
  ASSUME QInv, MergeNow \/ (Arm /\ UNCHANGED main) \/ (Retry /\ UNCHANGED main)
  PROVE  Sound(pull', wf') /\ main' \in Nat \ {0}
  <1>0. /\ Sound(pull, wf) /\ pull \in [PR -> PullRecord] /\ wf \in Group
        /\ wf.run \in RunRecord /\ main \in Nat \ {0}
        /\ wf.run.pc \in {"merge", "arm", "retry"}
    BY DEF QInv, Sound, MergeNow, Arm, Retry, run, Group
  <1>1. wf.run.leader \in PR /\ wf.run.todo = {} BY <1>0 DEF Sound, RunOK, Active
  <1>2. \A pc \in {"done", "retry", "merge"} : Sound(pull, Goto(wf, pc))
    BY <1>0, <1>1, GotoSound DEF PCs, Active, Audited
  <1>3. Sound(pull, Finish(wf)) /\ Sound(pull, Fail(wf))
    BY <1>0, FinishSound, FailSound
  <1>4. CASE MergeNow
    <2>1. CASE Expected /\ Clean(run.leader)
      BY <1>0, <1>1, <1>2, <1>4, <2>1, MergeSound DEF MergeNow, run
    <2>2. CASE ~(Expected /\ Clean(run.leader))
      BY <1>0, <1>3, <1>4, <2>2 DEF MergeNow
    <2> QED BY <2>1, <2>2
  <1>5. CASE Arm /\ UNCHANGED main
    <2>1. CASE Expected /\ ~Clean(run.leader)
      <3> DEFINE l == wf.run.leader
                 ev == About("enabledByApp", l, pull[l])
                 pn == [pull EXCEPT ![l].armed = "app"]
                 v == Raise(Goto(wf, "done"), ev)
      <3>1. wf' = v /\ pull' = pn BY <1>5, <2>1 DEF Arm, run, Leading
      <3>2. ev \in SoundEvent BY <1>0, <1>1, AboutFacts DEF Kinds
      <3>3. Goto(wf, "done") \in Group /\ Goto(wf, "done").run.pc = "done"
            /\ Goto(wf, "done").run.leader = l /\ Goto(wf, "done").run.todo = {}
        BY <1>0, <1>1, GotoType DEF PCs
      <3>4. Sound(pull, v) BY <1>2, <3>2, RaiseSound
      <3>5. v.run.pc = "done" /\ v.run.leader = l /\ v.run.todo = {}
        BY <1>2, <3>2, <3>3, RaiseFacts DEF Sound
      <3>6. /\ pn \in [PR -> PullRecord]
            /\ \A q \in PR : q # l => pn[q] = pull[q]
            /\ pn[l].open = pull[l].open /\ pn[l].onMain = pull[l].onMain
            /\ pn[l].labelled = pull[l].labelled /\ pn[l].tip = pull[l].tip
        BY <1>0, <1>1 DEF PullRecord
      <3> HIDE DEF v, pn, l
      <3>7. \A q \in PR : pn[q].tip = pull[q].tip /\ InQ(pn, q) = InQ(pull, q)
                          /\ pn[q].open = pull[q].open
        BY <3>6 DEF InQ
      <3>8. RunOK(pn, v) BY <3>4, <3>7 DEF Sound, RunOK
      <3>9. ArmedOK(pn, v)
        BY <3>4, <3>5, <3>6, <3>7 DEF Sound, ArmedOK, Acting, Active
      <3>10. AloneOK(pn, v) BY <3>4, <3>5, <3>6, <3>7 DEF Sound, AloneOK
      <3> QED BY <1>0, <1>5, <3>1, <3>4, <3>6, <3>8, <3>9, <3>10 DEF Sound
    <2>2. CASE ~(Expected /\ ~Clean(run.leader))
      BY <1>0, <1>2, <1>5, <2>2 DEF Arm
    <2> QED BY <2>1, <2>2
  <1>6. CASE Retry /\ UNCHANGED main
    BY <1>0, <1>2, <1>3, <1>6 DEF Retry
  <1> QED BY <1>4, <1>5, <1>6

LEMMA ControllerSound == QInv /\ Controller => QInv'
  <1> SUFFICES ASSUME QInv, Controller PROVE QInv' OBVIOUS
  <1>0. Sound(pull, wf) /\ main \in Nat \ {0} BY DEF QInv
  <1>1. CASE SkipJob /\ UNCHANGED main
    BY <1>0, <1>1, FinishSound DEF SkipJob, run, Wanted, Detaches, QInv
  <1>2. CASE ReconcileEvent /\ UNCHANGED main BY <1>2, ReconcileSound DEF QInv
  <1>3. CASE List /\ UNCHANGED main BY <1>3, ListSound DEF QInv
  <1>4. CASE DisarmFollower /\ UNCHANGED main BY <1>4, FollowersSound DEF QInv
  <1>5. CASE DisarmLeader /\ UNCHANGED main BY <1>5, LeaderSound DEF QInv
  <1>6. CASE Verify /\ UNCHANGED main BY <1>6, VerifySound DEF QInv
  <1>7. CASE CheckBranch /\ UNCHANGED main
    <2>1. wf.run.pc = "again" /\ wf.run.todo = {}
      BY <1>0, <1>7 DEF CheckBranch, run, Sound, RunOK, Active
    <2>2. Sound(pull, Finish(wf)) /\ Sound(pull, Goto(wf, "state"))
      BY <1>0, <2>1, FinishSound, GotoSound DEF PCs, Active, Audited
    <2> QED BY <1>0, <1>7, <2>2 DEF CheckBranch, QInv
  <1>8. CASE ReadState /\ UNCHANGED main BY <1>8, ReadSound DEF QInv
  <1>9. CASE MergeNow \/ (Arm /\ UNCHANGED main) \/ (Retry /\ UNCHANGED main)
    BY <1>9, MutateSound DEF QInv
  <1>10. CASE Done /\ UNCHANGED main
    BY <1>0, <1>10, FinishSound DEF Done, run, QInv
  <1> QED BY <1>1, <1>2, <1>3, <1>4, <1>5, <1>6, <1>7, <1>8, <1>9, <1>10 DEF Controller

LEMMA FailsSound == QInv /\ RunFails => QInv'
  <1> SUFFICES ASSUME QInv, RunFails PROVE QInv' OBVIOUS
  <1>0. /\ Sound(pull, wf) /\ wf \in Group /\ wf.run.ev \in SoundEvent
        /\ main' = main /\ pull' = pull
    BY DEF QInv, Sound, Group, RunRecord, RunFails
  <1>1. CASE wf.run.pc = "start" /\ Detaches(wf.run.ev)
    <2> DEFINE p == wf.run.ev.pr
               v == [wf EXCEPT !.undone = @ \cup {p}]
               u == [v EXCEPT !.missed = TRUE]
    <2>1. p \in PR BY <1>0, <1>1 DEF SoundEvent
    <2>2. wf' = Finish(u) BY <1>1 DEF RunFails, run, Fail
    <2>3. /\ u \in Group /\ u.run = wf.run /\ u.pending = wf.pending
          /\ u.undone = wf.undone \cup {p}
      BY <1>0, <2>1 DEF Group
    <2> HIDE DEF u, v
    <2>4. Sound(pull, u) BY <1>0, <2>3, LostSound
    <2>5. /\ Finish(u) \in Group /\ Settled(Finish(u)) /\ Finish(u).run.pc \notin Active
          /\ Finish(u).undone = u.undone
      BY <2>3, FinishFacts DEF Active
    <2>6. RunOK(pull, Finish(u)) /\ AloneOK(pull, Finish(u))
      BY <2>5 DEF RunOK, AloneOK, Active, Audited
    <2>7. ArmedOK(pull, Finish(u))
      <3> SUFFICES ASSUME NEW q \in PR, pull[q].open, ~InQ(pull, q), pull[q].armed = "app"
                   PROVE  CoveredIn(Finish(u), q)
        BY <2>5 DEF ArmedOK, Acting
      <3>1. CoveredIn(u, q) BY <2>4 DEF Sound, ArmedOK
      <3>2. CASE q = p BY <2>3, <2>5, <3>2 DEF CoveredIn
      <3>3. CASE q # p
        <4>1. q \in u.undone \/ (Detaches(u.pending) /\ u.pending.pr = q)
          BY <2>3, <3>1, <3>3 DEF CoveredIn, p
        <4>2. Detaches(u.pending) => Finish(u).run = Begun(u.pending)
          <5>1. ~Detaches(NoEvent) BY DEF Detaches, NoEvent
          <5> QED BY <2>3, <5>1 DEF Finish, Group
        <4>3. u.pending \in SoundEvent BY <2>3 DEF Group
        <4> QED BY <2>5, <4>1, <4>2, <4>3, BegunType DEF CoveredIn
      <3> QED BY <3>2, <3>3
    <2>8. Sound(pull, Finish(u)) BY <1>0, <2>5, <2>6, <2>7 DEF Sound
    <2> QED BY <1>0, <2>2, <2>8 DEF QInv
  <1>2. CASE ~(wf.run.pc = "start" /\ Detaches(wf.run.ev))
    <2>1. wf' = Fail(wf) BY <1>2 DEF RunFails, run
    <2> QED BY <1>0, <1>2, <2>1, FailSound DEF QInv
  <1> QED BY <1>1, <1>2

LEMMA OthersSound ==
  ASSUME QInv, NEW p \in PR, ChecksPass(p) \/ AutoMerge(p) \/ Recheck(p)
  PROVE  QInv'
  <1>0. Sound(pull, wf) /\ pull \in [PR -> PullRecord] /\ main \in Nat \ {0}
    BY DEF QInv, Sound
  <1>1. CASE ChecksPass(p) \/ Recheck(p)
    <2>1. PICK b \in BOOLEAN : pull' = [pull EXCEPT ![p].green = b] /\ wf' = wf /\ main' = main
      BY <1>1 DEF ChecksPass, Recheck
    <2>2. pull' \in [PR -> PullRecord] BY <1>0, <2>1 DEF PullRecord
    <2>3. \A q \in PR : pull'[q].tip = pull[q].tip /\ pull'[q].open = pull[q].open
              /\ pull'[q].onMain = pull[q].onMain /\ pull'[q].labelled = pull[q].labelled
              /\ pull'[q].armed = pull[q].armed
      BY <1>0, <2>1 DEF PullRecord
    <2>4. \A q \in PR : InQ(pull', q) = InQ(pull, q) BY <2>3 DEF InQ
    <2>5. RunOK(pull', wf) BY <1>0, <2>3 DEF Sound, RunOK
    <2>6. ArmedOK(pull', wf) BY <1>0, <2>3, <2>4 DEF Sound, ArmedOK
    <2>7. AloneOK(pull', wf) BY <1>0, <2>3, <2>4 DEF Sound, AloneOK
    <2> QED BY <1>0, <2>1, <2>2, <2>5, <2>6, <2>7 DEF Sound, QInv
  <1>2. CASE AutoMerge(p) BY <1>0, <1>2, MergeSound DEF AutoMerge, QInv
  <1> QED BY <1>1, <1>2

LEMMA ChangesSound ==
  ASSUME QInv, NEW p \in PR, NEW canon \in BOOLEAN, NEW upto \in 1..main,
         \/ Label(p) \/ Unlabel(p) \/ ToggleDraft(p) \/ Retarget(p) \/ UserArms(p)
         \/ CloseUnmerged(p) \/ PushHead(p, canon, upto)
  PROVE  QInv'
  <1>0. /\ Sound(pull, wf) /\ pull[p] \in PullRecord /\ main \in Nat \ {0} /\ upto \in Nat
        /\ pull[p].tip.n \in Nat /\ pull[p].tip.upto \in Nat
    BY DEF QInv, Sound, PullRecord, LTip
  <1>1. ASSUME NEW kind \in Kinds, NEW r \in PullRecord, Change(p, kind, r),
               r.armed = "app" => pull[p].armed = "app",
               r.tip = pull[p].tip \/ r.tip.n > pull[p].tip.n,
               r.open /\ InQ(pull, p) =>
                  (r.onMain /\ r.labelled) \/ kind = "unlabeled" \/ (r.labelled /\ ~r.onMain)
        PROVE  QInv'
    <2>1. Sound([pull EXCEPT ![p] = r], Raise(wf, About(kind, p, r)))
      BY <1>0, <1>1, ChangeSound DEF Change
    <2> QED BY <1>0, <1>1, <2>1 DEF Change, QInv
  <1>2. CASE Label(p)
    <2> DEFINE r == [pull[p] EXCEPT !.labelled = TRUE]
    <2>1. /\ r \in PullRecord /\ r.armed = pull[p].armed /\ r.tip = pull[p].tip
          /\ r.labelled
      BY <1>0 DEF PullRecord
    <2> HIDE DEF r
    <2>2. Change(p, "pull", r) BY <1>2 DEF Label, r
    <2> QED BY <1>1, <2>1, <2>2 DEF Kinds
  <1>3. CASE Unlabel(p)
    <2> DEFINE r == [pull[p] EXCEPT !.labelled = FALSE]
    <2>1. r \in PullRecord /\ r.armed = pull[p].armed /\ r.tip = pull[p].tip
      BY <1>0 DEF PullRecord
    <2> HIDE DEF r
    <2>2. Change(p, "unlabeled", r) BY <1>3 DEF Unlabel, r
    <2> QED BY <1>1, <2>1, <2>2 DEF Kinds
  <1>4. CASE ToggleDraft(p)
    <2> DEFINE r == [pull[p] EXCEPT !.draft = ~@]
    <2>1. /\ r \in PullRecord /\ r.armed = pull[p].armed /\ r.tip = pull[p].tip
          /\ r.onMain = pull[p].onMain /\ r.labelled = pull[p].labelled
      BY <1>0 DEF PullRecord
    <2> HIDE DEF r
    <2>2. Change(p, "pull", r) BY <1>4 DEF ToggleDraft, r
    <2> QED BY <1>1, <2>1, <2>2 DEF Kinds, InQ
  <1>5. CASE Retarget(p)
    <2> DEFINE r == [pull[p] EXCEPT !.onMain = ~@]
    <2>1. /\ r \in PullRecord /\ r.armed = pull[p].armed /\ r.tip = pull[p].tip
          /\ r.labelled = pull[p].labelled
      BY <1>0 DEF PullRecord
    <2> HIDE DEF r
    <2>2. Change(p, "pull", r) BY <1>5 DEF Retarget, r
    <2> QED BY <1>1, <2>1, <2>2 DEF Kinds, InQ
  <1>6. CASE UserArms(p)
    <2> DEFINE r == [pull[p] EXCEPT !.armed = "user"]
    <2>1. /\ r \in PullRecord /\ r.armed = "user" /\ r.tip = pull[p].tip
          /\ r.onMain = pull[p].onMain /\ r.labelled = pull[p].labelled
      BY <1>0 DEF PullRecord
    <2> HIDE DEF r
    <2>2. Change(p, "enabled", r) BY <1>6 DEF UserArms, r
    <2> QED BY <1>1, <2>1, <2>2 DEF Kinds, InQ
  <1>7. CASE CloseUnmerged(p)
    <2> DEFINE r == [pull[p] EXCEPT !.open = FALSE, !.armed = "no"]
    <2>1. r \in PullRecord /\ r.armed = "no" /\ r.tip = pull[p].tip /\ ~r.open
      BY <1>0 DEF PullRecord
    <2> HIDE DEF r
    <2>2. Change(p, "pull", r) BY <1>7 DEF CloseUnmerged, r
    <2> QED BY <1>1, <2>1, <2>2 DEF Kinds
  <1>8. CASE PushHead(p, canon, upto)
    <2> DEFINE t == [n |-> pull[p].tip.n + 1, canon |-> canon, upto |-> upto]
               r == [pull[p] EXCEPT !.green = FALSE, !.tip = t]
    <2>1. t \in LTip /\ t.n > pull[p].tip.n BY <1>0 DEF LTip
    <2>2. Change(p, "pull", r) BY <1>8 DEF PushHead
    <2> HIDE DEF t
    <2>3. /\ r \in PullRecord /\ r.armed = pull[p].armed /\ r.tip = t
          /\ r.onMain = pull[p].onMain /\ r.labelled = pull[p].labelled
      BY <1>0, <2>1 DEF PullRecord
    <2> HIDE DEF r
    <2> QED BY <1>1, <2>1, <2>2, <2>3 DEF Kinds, InQ
  <1> QED BY <1>2, <1>3, <1>4, <1>5, <1>6, <1>7, <1>8

LEMMA NextSound == QInv /\ [Next]_vars => QInv'
  <1> SUFFICES ASSUME QInv, [Next]_vars PROVE QInv' OBVIOUS
  <1>1. CASE Controller BY <1>1, ControllerSound
  <1>2. CASE RunFails BY <1>2, FailsSound
  <1>3. CASE People
    <2>1. CASE PushMain
      <3>1. MainEvent \in SoundEvent BY DEF MainEvent, SoundEvent, Event, Detaches, Kinds
      <3> QED BY <2>1, <3>1, RaiseSound DEF PushMain, QInv
    <2>2. main >= 1 BY DEF QInv
    <2>3. TRUE \in BOOLEAN /\ 1 \in 1..main BY <2>2 DEF QInv
    <2>4. ASSUME NEW p \in PR, Recheck(p) PROVE QInv' BY <2>4, OthersSound
    <2>5. ASSUME NEW p \in PR, \/ Label(p) \/ Unlabel(p) \/ ToggleDraft(p) \/ Retarget(p)
                                \/ UserArms(p) \/ CloseUnmerged(p)
          PROVE  QInv'
      BY <2>3, <2>5, ChangesSound
    <2>6. ASSUME NEW p \in PR, NEW canon \in BOOLEAN, NEW upto \in 1..main,
                 PushHead(p, canon, upto)
          PROVE  QInv'
      BY <2>6, ChangesSound
    <2> QED BY <1>3, <2>1, <2>4, <2>5, <2>6 DEF People
  <1>4. CASE \E p \in PR : ChecksPass(p) \/ AutoMerge(p) BY <1>4, OthersSound
  <1>5. CASE UNCHANGED vars BY <1>5 DEF vars, QInv
  <1> QED BY <1>1, <1>2, <1>3, <1>4, <1>5 DEF Next

-----------------------------------------------------------------------------
(* Theorems. *)

\* The inductive invariant holds.
THEOREM QueueSound == Spec => []QInv
  <1>1. Init => QInv BY InitSound
  <1>2. QInv /\ [Next]_vars => QInv' BY NextSound
  <1> QED BY <1>1, <1>2, PTL DEF Spec

\* Auto-merge is enabled by nobody but the controller's Arm, for its leader.
LEMMA OnlyArmArms ==
  ASSUME QInv, [Next]_vars, NEW p \in PR, pull'[p].armed = "app", pull[p].armed # "app"
  PROVE  Arm /\ p = run.leader /\ Expected
  <1>0. pull \in [PR -> PullRecord] BY DEF QInv, Sound
  <1>1. CASE Controller
    <2>1. ASSUME NEW q \in PR, Disarm(q) PROVE FALSE
      BY <1>0, <2>1 DEF Disarm, PullRecord
    <2>2. ASSUME NEW q \in PR, NEW w, DoMerge(q, w) PROVE FALSE
      BY <1>0, <2>2 DEF DoMerge, PullRecord
    <2>3. ASSUME pull' = pull PROVE FALSE BY <2>3
    <2>4. ASSUME Arm PROVE p = run.leader /\ Expected BY <1>0, <2>3, <2>4 DEF Arm, PullRecord
    <2>5. ReconcileEvent => FALSE
      <3>1. Detaches(run.ev) => run.ev.pr \in PR
        BY DEF run, QInv, Sound, Group, RunRecord, SoundEvent
      <3> QED BY <2>1, <2>3, <3>1 DEF ReconcileEvent
    <2>6. DisarmFollower => FALSE
      <3> SUFFICES ASSUME DisarmFollower PROVE FALSE OBVIOUS
      <3>1. Followers \in SUBSET PR BY DEF Followers, run, QInv, Sound, Group, RunRecord
      <3>2. Followers \in SUBSET Nat BY <3>1, QueueAssumption
      <3>3. Min(Followers) \in PR BY <3>1, <3>2, MinIsLeast DEF DisarmFollower
      <3> QED BY <2>1, <3>3 DEF DisarmFollower
    <2>7. DisarmLeader \/ MergeNow => FALSE
      <3> SUFFICES ASSUME DisarmLeader \/ MergeNow PROVE FALSE OBVIOUS
      <3>1. run.leader \in PR
        BY DEF DisarmLeader, MergeNow, run, QInv, Sound, RunOK, Active
      <3> QED BY <2>1, <2>2, <2>3, <3>1 DEF DisarmLeader, MergeNow
    <2>8. SkipJob \/ List \/ Verify \/ CheckBranch \/ ReadState \/ Retry \/ Done => FALSE
      BY <2>3 DEF SkipJob, List, Verify, CheckBranch, ReadState, Retry, Done
    <2> QED BY <1>1, <2>4, <2>5, <2>6, <2>7, <2>8 DEF Controller
  <1>2. CASE RunFails \/ UNCHANGED vars BY <1>2 DEF RunFails, vars
  <1>3. CASE People
    <2>1. ASSUME NEW q \in PR, NEW kind, NEW r, Change(q, kind, r),
                 r.armed \in {pull[q].armed, "user", "no"}
          PROVE  FALSE
      BY <1>0, <2>1 DEF Change, PullRecord
    <2>2. ASSUME NEW q \in PR, NEW canon \in BOOLEAN, NEW upto \in 1..main,
                 \/ Label(q) \/ Unlabel(q) \/ ToggleDraft(q) \/ Retarget(q) \/ UserArms(q)
                 \/ CloseUnmerged(q) \/ PushHead(q, canon, upto)
          PROVE  FALSE
      <3>1. pull[q] \in PullRecord BY <1>0
      <3>2. CASE Label(q) BY <2>1, <3>1, <3>2 DEF Label, PullRecord
      <3>3. CASE Unlabel(q) BY <2>1, <3>1, <3>3 DEF Unlabel, PullRecord
      <3>4. CASE ToggleDraft(q) BY <2>1, <3>1, <3>4 DEF ToggleDraft, PullRecord
      <3>5. CASE Retarget(q) BY <2>1, <3>1, <3>5 DEF Retarget, PullRecord
      <3>6. CASE UserArms(q) BY <2>1, <3>1, <3>6 DEF UserArms, PullRecord
      <3>7. CASE CloseUnmerged(q) BY <2>1, <3>1, <3>7 DEF CloseUnmerged, PullRecord
      <3>8. CASE PushHead(q, canon, upto) BY <2>1, <3>1, <3>8 DEF PushHead, PullRecord
      <3> QED BY <2>2, <3>2, <3>3, <3>4, <3>5, <3>6, <3>7, <3>8
    <2>3. ASSUME NEW q \in PR, Recheck(q) PROVE FALSE BY <1>0, <2>3 DEF Recheck, PullRecord
    <2>4. PushMain => FALSE BY DEF PushMain
    <2>5. 1 \in 1..main /\ TRUE \in BOOLEAN
      <3>1. main >= 1 /\ main \in Nat BY DEF QInv
      <3> QED BY <3>1
    <2>6. ASSUME NEW q \in PR, \/ Label(q) \/ Unlabel(q) \/ ToggleDraft(q) \/ Retarget(q)
                                \/ UserArms(q) \/ CloseUnmerged(q)
          PROVE  FALSE
      BY <2>2, <2>5, <2>6
    <2> QED BY <1>3, <2>2, <2>3, <2>4, <2>6 DEF People
  <1>4. CASE \E q \in PR : ChecksPass(q) \/ AutoMerge(q)
    BY <1>0, <1>4 DEF ChecksPass, AutoMerge, DoMerge, PullRecord
  <1> QED BY <1>1, <1>2, <1>3, <1>4 DEF Next

\* The controller arms and merges only a head that passed the identity audit and
\* contains the main it was compared with.
THEOREM ActsOnAuditedHeads == Spec => ActsOnAudited
  <1> DEFINE A == \A p \in PR :
        LET acts == \/ pull'[p].armed = "app" /\ pull[p].armed # "app"
                    \/ MergeNow /\ pull[p].open /\ ~pull'[p].open
        IN acts => pull[p].tip.canon /\ pull[p].tip.upto >= run.base
  <1>1. ASSUME QInv, [Next]_vars PROVE A
    <2>1. ASSUME wf.run.pc \in {"arm", "merge"}, Expected
          PROVE  pull[run.leader].tip.canon /\ pull[run.leader].tip.upto >= run.base
      <3>1. run.tip = pull[run.leader].tip /\ run.tip.canon /\ run.tip.upto = run.base
        BY <1>1, <2>1 DEF QInv, Sound, RunOK, Active, Audited, Expected, Leading, run
      <3>2. run.base \in Nat BY <1>1 DEF QInv, Sound, Group, RunRecord, run
      <3> QED BY <3>1, <3>2
    <2>2. ASSUME NEW p \in PR, pull'[p].armed = "app", pull[p].armed # "app"
          PROVE  pull[p].tip.canon /\ pull[p].tip.upto >= run.base
      <3>1. Arm /\ p = run.leader /\ Expected BY <1>1, <2>2, OnlyArmArms
      <3> QED BY <2>1, <3>1 DEF Arm, run
    <2>3. ASSUME NEW p \in PR, MergeNow, pull[p].open, ~pull'[p].open
          PROVE  pull[p].tip.canon /\ pull[p].tip.upto >= run.base
      <3>1. wf.run.pc = "merge" /\ pull' # pull BY <2>3 DEF MergeNow, run
      <3>2. Expected /\ DoMerge(run.leader, Goto(wf, "done")) BY <2>3, <3>1 DEF MergeNow
      <3>3. p = run.leader
        BY <1>1, <2>3, <3>2 DEF DoMerge, QInv, Sound, PullRecord
      <3> QED BY <2>1, <3>1, <3>2, <3>3
    <2> QED BY <2>2, <2>3
  <1> HIDE DEF A
  <1>2. Spec => [][A]_vars BY <1>1, QueueSound, PTL DEF Spec
  <1> QED BY <1>2 DEF ActsOnAudited, A

-----------------------------------------------------------------------------
(* Pull requests that a maintainer arms while a run is at work.              *)

\* Besides its leader and those still to disarm, a maintainer has armed no pull
\* request of the queue without an event that is due, or was lost.
UserOK(pl, w) ==
    w.run.pc \in Active =>
        \A q \in PR : /\ q # w.run.leader /\ q \notin w.run.todo
                      /\ pl[q].armed = "user" /\ InQ(pl, q)
                      => DueOrLost(w)

UInv == UserOK(pull, wf)

\* A run that has just begun, or ended, has no leader yet.
LEMMA InactiveUser == ASSUME NEW pl, NEW w, w.run.pc \notin Active PROVE UserOK(pl, w)
  BY DEF UserOK

\* A run that goes on, while nobody arms a follower.
LEMMA SteadyUser ==
  ASSUME NEW pl, NEW w, NEW pn, NEW v, UserOK(pl, w),
         v.run.pc \in Active =>
            /\ w.run.pc \in Active /\ v.run.leader = w.run.leader
            /\ DueOrLost(w) => DueOrLost(v)
            /\ \A q \in PR : q # v.run.leader /\ q \notin v.run.todo
                             /\ pn[q].armed = "user" /\ InQ(pn, q) =>
                  \/ q \notin w.run.todo /\ pl[q].armed = "user" /\ InQ(pl, q)
                  \/ DueOrLost(v)
  PROVE  UserOK(pn, v)
  BY DEF UserOK

\* An event replaces one that is due by another, or it is noted as lost.
LEMMA RaiseDue ==
  ASSUME NEW w \in Group, Settled(w), NEW ev \in SoundEvent, w.run.pc # "idle"
  PROVE  /\ Raise(w, ev) \in Group /\ Settled(Raise(w, ev)) /\ Raise(w, ev).run = w.run
         /\ DueOrLost(w) => DueOrLost(Raise(w, ev))
         /\ Reconciles(ev) => DueOrLost(Raise(w, ev))
  <1>1. Raise(w, ev) \in Group /\ Settled(Raise(w, ev)) BY RaiseFacts
  <1>2. Raise(w, ev).run = w.run /\ Raise(w, ev).pending = ev BY RaiseFacts
  <1>3. Raise(w, ev).missed =
          (w.missed \/ (Wanted(w.pending) /\ (~Wanted(ev) \/ ev.kind = "enabledByApp")))
    BY DEF Raise, Group
  <1> QED BY <1>1, <1>2, <1>3 DEF DueOrLost, Reconciles

\* An idle group starts a run that has not listed the queue.
LEMMA RaiseIdle ==
  ASSUME NEW w \in Group, Settled(w), NEW ev \in SoundEvent, w.run.pc = "idle"
  PROVE  Raise(w, ev).run.pc \notin Active
  BY RaiseFacts, BegunType DEF Active

LEMMA FinishInactive == ASSUME NEW w \in Group PROVE Finish(w).run.pc \notin Active
  BY FinishFacts DEF Active

LEMMA FailInactive == ASSUME NEW w \in Group PROVE Fail(w).run.pc \notin Active
  <1>1. [w EXCEPT !.missed = TRUE] \in Group BY DEF Group
  <1> QED BY <1>1, FinishInactive DEF Fail

\* A merge closes its pull request and raises events.
LEMMA MergeUser ==
  ASSUME NEW w \in Group, Settled(w), UserOK(pull, w), NEW p \in PR,
         pull \in [PR -> PullRecord], DoMerge(p, w)
  PROVE  UserOK(pull', wf')
  <1> DEFINE ev == About("pull", p, pull[p])
             r == Raise(w, ev)
             m == Merged(w, p)
  <1>1. ev \in SoundEvent /\ MainEvent \in SoundEvent
    <2>1. pull[p] \in PullRecord /\ "pull" \in Kinds BY DEF Kinds
    <2> QED BY <2>1, AboutFacts
  <1>2. /\ wf' = [m EXCEPT !.undone = @ \ {p}]
        /\ pull' = [pull EXCEPT ![p].open = FALSE, ![p].armed = "no"]
    BY DEF DoMerge
  <1>3. m = r \/ m = Raise(r, MainEvent) BY DEF Merged
  <1>4. \A q \in PR : InQ(pull', q) => q # p /\ pull'[q] = pull[q]
    BY <1>2 DEF InQ, PullRecord
  <1>5. r \in Group /\ Settled(r) BY <1>1, RaiseFacts
  <1>6. CASE w.run.pc = "idle"
    <2>1. r.run.pc = "start" BY <1>1, <1>6, RaiseFacts, BegunType
    <2> HIDE DEF ev, r
    <2>2. m.run.pc = "start"
      BY <1>1, <1>3, <1>5, <2>1, RaiseFacts
    <2>3. m \in Group BY <1>1, <1>3, <1>5, RaiseFacts
    <2> HIDE DEF m
    <2>4. wf'.run.pc = "start" BY <1>2, <2>2, <2>3 DEF Group
    <2> QED BY <2>4, InactiveUser DEF Active
  <1>7. CASE w.run.pc # "idle"
    <2>1. r.run = w.run /\ (DueOrLost(w) => DueOrLost(r)) BY <1>1, <1>7, RaiseDue
    <2> HIDE DEF ev, r
    <2>2. m \in Group /\ m.run = w.run /\ (DueOrLost(w) => DueOrLost(m))
      BY <1>1, <1>3, <1>5, <1>7, <2>1, RaiseDue
    <2> HIDE DEF m
    <2>3. /\ wf'.run = w.run /\ wf'.pending = m.pending /\ wf'.missed = m.missed
      BY <1>2, <2>2 DEF Group
    <2>4. DueOrLost(w) => DueOrLost(wf') BY <2>2, <2>3 DEF DueOrLost
    <2>5. \A q \in PR : InQ(pull', q) => pull'[q] = pull[q] /\ InQ(pull, q)
      BY <1>4 DEF InQ
    <2> QED BY <2>3, <2>4, <2>5 DEF UserOK
  <1> QED BY <1>6, <1>7

LEMMA ControllerUser == QInv /\ UInv /\ Controller => UInv'
  <1> SUFFICES ASSUME QInv, UInv, Controller PROVE UserOK(pull', wf')
    BY DEF UInv
  <1>0. /\ wf \in Group /\ Settled(wf) /\ pull \in [PR -> PullRecord] /\ UserOK(pull, wf)
        /\ RunOK(pull, wf)
    BY DEF QInv, UInv, Sound
  <1>1. CASE SkipJob \/ Done
    BY <1>0, <1>1, FinishInactive, InactiveUser DEF SkipJob, Done
  <1>2. CASE ReconcileEvent
    <2>1. PICK S \in SUBSET PR : wf' = Goto([wf EXCEPT !.undone = S], "list")
      <3>1. wf' = Goto([wf EXCEPT !.undone = wf.undone], "list")
            \/ wf' = Goto([wf EXCEPT !.undone = wf.undone \ {run.ev.pr}], "list")
        <4>1. [wf EXCEPT !.undone = wf.undone] = wf BY <1>0 DEF Group
        <4> QED BY <1>2, <4>1 DEF ReconcileEvent
      <3>2. wf.undone \in SUBSET PR BY <1>0 DEF Group
      <3> QED BY <3>1, <3>2
    <2>2. [wf EXCEPT !.undone = S] \in Group BY <1>0 DEF Group
    <2>3. wf'.run.pc = "list"
      BY <2>1, <2>2, GotoType DEF PCs
    <2> QED BY <2>3, InactiveUser DEF Active
  <1>3. CASE List
    <2>1. CASE wf' = Finish(wf) BY <1>0, <2>1, FinishInactive, InactiveUser
    <2>2. CASE wf' = Finish([wf EXCEPT !.missed = FALSE])
      <3>1. [wf EXCEPT !.missed = FALSE] \in Group BY <1>0 DEF Group
      <3> QED BY <2>2, <3>1, FinishInactive, InactiveUser
    <2>3. CASE wf' # Finish(wf) /\ wf' # Finish([wf EXCEPT !.missed = FALSE])
      <3> DEFINE p == Min(Queue)
      <3>1. wf' = [wf EXCEPT !.missed = FALSE, !.undone = @ \ Queue,
                     !.run = [@ EXCEPT !.pc = "followers", !.leader = p,
                                !.todo = Queue \ {p}, !.draft = pull[p].draft,
                                !.tip = pull[p].tip]] /\ pull' = pull
        BY <1>3, <2>3 DEF List
      <3> HIDE DEF p
      <3>2. wf'.run.leader = p /\ wf'.run.todo = Queue \ {p}
        BY <1>0, <3>1 DEF Group, RunRecord
      <3>3. \A q \in PR : InQ(pull', q) => q \in Queue BY <3>1 DEF Queue, InQueue, InQ
      <3> QED BY <3>2, <3>3 DEF UserOK
    <2> QED BY <2>1, <2>2, <2>3
  <1>4. CASE DisarmFollower
    <2>1. PICK p : /\ pull' = [pull EXCEPT ![p].armed = "no"]
                   /\ wf' = [wf EXCEPT !.run.todo = @ \ {p}]
      BY <1>4 DEF DisarmFollower, Disarm
    <2>2. /\ wf'.run.pc = wf.run.pc /\ wf'.run.leader = wf.run.leader
          /\ wf'.run.todo = wf.run.todo \ {p}
          /\ wf'.missed = wf.missed /\ wf'.pending = wf.pending
      BY <1>0, <2>1 DEF Group, RunRecord
    <2>3. \A q \in PR : pull'[q].armed = "user" =>
             q # p /\ pull[q].armed = "user" /\ (InQ(pull', q) => InQ(pull, q))
      BY <1>0, <2>1 DEF PullRecord, InQ
    <2> QED BY <1>0, <2>2, <2>3, SteadyUser DEF DueOrLost
  <1>5. CASE DisarmLeader \/ Verify \/ CheckBranch \/ ReadState \/ Retry
    <2>1. wf.run.pc \in Active BY <1>5 DEF DisarmLeader, Verify, CheckBranch, ReadState,
                                          Retry, run, Active
    <2>2. \A q \in PR : pull'[q].armed = "user" =>
             pull[q].armed = "user" /\ (InQ(pull', q) => InQ(pull, q))
      BY <1>0, <1>5 DEF DisarmLeader, Disarm, Verify, CheckBranch, ReadState, Retry,
                        PullRecord, InQ
    <2>3. CASE wf' = Finish(wf) BY <1>0, <2>3, FinishInactive, InactiveUser
    <2>4. CASE wf' = Fail(wf) BY <1>0, <2>4, FailInactive, InactiveUser
    <2>5. CASE wf' # Finish(wf) /\ wf' # Fail(wf)
      <3>1. /\ wf'.run.leader = wf.run.leader /\ wf'.run.todo = wf.run.todo
            /\ wf'.missed = wf.missed /\ wf'.pending = wf.pending
        <4>1. CASE DisarmLeader \/ Retry
          BY <1>0, <2>5, <4>1 DEF DisarmLeader, Retry, Goto, Group, RunRecord
        <4>2. CASE Verify
          BY <1>0, <2>5, <4>2 DEF Verify, Group, RunRecord
        <4>3. CASE CheckBranch
          BY <1>0, <2>5, <4>3 DEF CheckBranch, Goto, Group, RunRecord
        <4>4. CASE ReadState
          BY <1>0, <2>5, <4>4 DEF ReadState, Goto, Group, RunRecord
        <4> QED BY <1>5, <4>1, <4>2, <4>3, <4>4
      <3> QED BY <1>0, <2>1, <2>2, <3>1, SteadyUser DEF DueOrLost
    <2> QED BY <2>3, <2>4, <2>5
  <1>6. CASE Arm
    <2>1. CASE Expected /\ ~Clean(run.leader)
      <3> DEFINE w == Goto(wf, "done")
                 ev == About("enabledByApp", run.leader, Leading)
      <3>1. wf.run.pc = "arm" /\ wf.run.leader \in PR
        BY <1>0, <1>6 DEF Arm, run, RunOK, Active
      <3>2. ev \in SoundEvent
        BY <1>0, <3>1, AboutFacts DEF Leading, run, Kinds
      <3>3. /\ w \in Group /\ w.run.pc = "done" /\ w.run.leader = wf.run.leader
            /\ w.run.todo = wf.run.todo /\ w.pending = wf.pending /\ w.missed = wf.missed
        BY <1>0 DEF Goto, Group, RunRecord, PCs
      <3>4. /\ pull' = [pull EXCEPT ![run.leader].armed = "app"]
            /\ wf' = Raise(w, ev)
        BY <1>6, <2>1 DEF Arm
      <3> HIDE DEF w, ev
      <3>5. Settled(w) BY <3>3 DEF Settled
      <3>6. wf'.run = w.run /\ (DueOrLost(w) => DueOrLost(wf'))
        BY <3>2, <3>3, <3>4, <3>5, RaiseDue
      <3>7. \A q \in PR : pull'[q].armed = "user" =>
               pull[q].armed = "user" /\ (InQ(pull', q) => InQ(pull, q))
        BY <1>0, <3>4 DEF PullRecord, InQ
      <3> QED BY <1>0, <3>1, <3>3, <3>6, <3>7, SteadyUser DEF DueOrLost, Active
    <2>2. CASE ~(Expected /\ ~Clean(run.leader))
      <3>1. wf' = Goto(wf, "retry") /\ pull' = pull /\ wf.run.pc = "arm"
        BY <1>6, <2>2 DEF Arm, run
      <3>2. /\ wf'.run.leader = wf.run.leader /\ wf'.run.todo = wf.run.todo
            /\ wf'.missed = wf.missed /\ wf'.pending = wf.pending
        BY <1>0, <3>1 DEF Goto, Group, RunRecord
      <3> QED BY <1>0, <3>1, <3>2, SteadyUser DEF DueOrLost, Active
    <2> QED BY <2>1, <2>2
  <1>7. CASE MergeNow
    <2>1. CASE Expected /\ Clean(run.leader)
      <3>1. wf.run.pc = "merge" /\ wf.run.leader \in PR
        BY <1>0, <1>7 DEF MergeNow, run, RunOK, Active
      <3> DEFINE w == Goto(wf, "done")
      <3>2. /\ w \in Group /\ w.run.pc = "done" /\ w.run.leader = wf.run.leader
            /\ w.run.todo = wf.run.todo /\ w.pending = wf.pending /\ w.missed = wf.missed
        BY <1>0 DEF Goto, Group, RunRecord, PCs
      <3>3. DoMerge(run.leader, w) BY <1>7, <2>1 DEF MergeNow
      <3> HIDE DEF w
      <3>4. Settled(w) /\ UserOK(pull, w)
        BY <1>0, <3>1, <3>2, SteadyUser DEF Settled, DueOrLost, Active
      <3> QED BY <1>0, <3>1, <3>2, <3>3, <3>4, MergeUser DEF run
    <2>2. CASE ~(Expected /\ Clean(run.leader))
      BY <1>0, <1>7, <2>2, FailInactive, InactiveUser DEF MergeNow
    <2> QED BY <2>1, <2>2
  <1> QED BY <1>1, <1>2, <1>3, <1>4, <1>5, <1>6, <1>7 DEF Controller

\* A pull request in the queue carries the label: whoever changes it raises an
\* event that is due.
LEMMA ChangeUser ==
  ASSUME QInv, UInv, NEW p \in PR, NEW kind \in Kinds \ {"enabledByApp"},
         NEW r \in PullRecord, Change(p, kind, r)
  PROVE  UInv'
  <1> DEFINE ev == About(kind, p, r)
  <1>0. /\ wf \in Group /\ Settled(wf) /\ pull \in [PR -> PullRecord] /\ UserOK(pull, wf)
    BY DEF QInv, UInv, Sound
  <1>1. pull' = [pull EXCEPT ![p] = r] /\ wf' = Raise(wf, ev) BY DEF Change
  <1>2. ev \in SoundEvent BY AboutFacts
  <1>3. r.labelled => Reconciles(ev) BY DEF Reconciles, Wanted, About
  <1> HIDE DEF ev
  <1>4. CASE wf.run.pc = "idle"
    BY <1>0, <1>1, <1>2, <1>4, RaiseIdle, InactiveUser DEF UInv
  <1>5. CASE wf.run.pc # "idle"
    <2>1. /\ wf'.run = wf.run /\ (DueOrLost(wf) => DueOrLost(wf'))
          /\ Reconciles(ev) => DueOrLost(wf')
      BY <1>0, <1>1, <1>2, <1>5, RaiseDue
    <2>2. \A q \in PR : InQ(pull', q) =>
             DueOrLost(wf') \/ (pull'[q] = pull[q] /\ InQ(pull, q))
      BY <1>0, <1>1, <1>3, <2>1 DEF InQ
    <2>3. UserOK(pull', wf') BY <1>0, <2>1, <2>2, SteadyUser
    <2> QED BY <2>3 DEF UInv
  <1> QED BY <1>4, <1>5

LEMMA NextUser == QInv /\ UInv /\ [Next]_vars => UInv'
  <1> SUFFICES ASSUME QInv, UInv, [Next]_vars PROVE UInv' OBVIOUS
  <1>0. /\ wf \in Group /\ Settled(wf) /\ pull \in [PR -> PullRecord] /\ UserOK(pull, wf)
    BY DEF QInv, UInv, Sound
  <1>1. CASE Controller BY <1>1, ControllerUser
  <1>2. CASE RunFails
    <2> DEFINE v == IF run.pc = "start" /\ Detaches(run.ev)
                    THEN [wf EXCEPT !.undone = @ \cup {run.ev.pr}] ELSE wf
    <2>1. run.pc = "start" /\ Detaches(run.ev) => run.ev.pr \in PR
      BY <1>0 DEF run, Group, RunRecord, SoundEvent
    <2>2. v \in Group BY <1>0, <2>1 DEF Group
    <2>3. wf' = Fail(v) BY <1>2 DEF RunFails
    <2> HIDE DEF v
    <2>4. UserOK(pull', wf') BY <2>2, <2>3, FailInactive, InactiveUser
    <2> QED BY <2>4 DEF UInv
  <1>3. ASSUME NEW p \in PR, NEW b \in BOOLEAN, pull' = [pull EXCEPT ![p].green = b],
               wf' = wf
        PROVE  UInv'
    <2>1. \A q \in PR : pull'[q].armed = pull[q].armed /\ InQ(pull', q) = InQ(pull, q)
      BY <1>0, <1>3 DEF PullRecord, InQ
    <2> QED BY <1>0, <1>3, <2>1 DEF UInv, UserOK
  <1>4. CASE PushMain
    <2>1. MainEvent \in SoundEvent BY DEF MainEvent, SoundEvent, Event, Detaches, Kinds
    <2>2. wf' = Raise(wf, MainEvent) /\ pull' = pull BY <1>4 DEF PushMain
    <2>3. CASE wf.run.pc = "idle"
      BY <1>0, <2>1, <2>2, <2>3, RaiseIdle, InactiveUser DEF UInv
    <2>4. CASE wf.run.pc # "idle"
      BY <1>0, <2>1, <2>2, <2>4, RaiseDue, SteadyUser DEF UInv
    <2> QED BY <2>3, <2>4
  <1>5. ASSUME NEW p \in PR,
               \/ Label(p) \/ Unlabel(p) \/ ToggleDraft(p) \/ Retarget(p) \/ UserArms(p)
               \/ CloseUnmerged(p) \/ \E canon \in BOOLEAN, upto \in 1..main : PushHead(p, canon, upto)
        PROVE  UInv'
    <2>1. pull[p] \in PullRecord /\ pull[p].tip \in LTip BY <1>0 DEF PullRecord
    <2>2. \E kind \in {"pull", "unlabeled", "enabled"}, r \in PullRecord : Change(p, kind, r)
      <3>1. CASE Label(p)
        <4>1. [pull[p] EXCEPT !.labelled = TRUE] \in PullRecord BY <2>1 DEF PullRecord
        <4> QED BY <3>1, <4>1 DEF Label
      <3>2. CASE Unlabel(p)
        <4>1. [pull[p] EXCEPT !.labelled = FALSE] \in PullRecord BY <2>1 DEF PullRecord
        <4> QED BY <3>2, <4>1 DEF Unlabel
      <3>3. CASE ToggleDraft(p)
        <4>1. [pull[p] EXCEPT !.draft = ~@] \in PullRecord BY <2>1 DEF PullRecord
        <4> QED BY <3>3, <4>1 DEF ToggleDraft
      <3>4. CASE Retarget(p)
        <4>1. [pull[p] EXCEPT !.onMain = ~@] \in PullRecord BY <2>1 DEF PullRecord
        <4> QED BY <3>4, <4>1 DEF Retarget
      <3>5. CASE UserArms(p)
        <4>1. [pull[p] EXCEPT !.armed = "user"] \in PullRecord BY <2>1 DEF PullRecord
        <4> QED BY <3>5, <4>1 DEF UserArms
      <3>6. CASE CloseUnmerged(p)
        <4>1. [pull[p] EXCEPT !.open = FALSE, !.armed = "no"] \in PullRecord
          BY <2>1 DEF PullRecord
        <4> QED BY <3>6, <4>1 DEF CloseUnmerged
      <3>7. ASSUME NEW canon \in BOOLEAN, NEW upto \in 1..main, PushHead(p, canon, upto)
            PROVE  \E r \in PullRecord : Change(p, "pull", r)
        <4> DEFINE t == [n |-> pull[p].tip.n + 1, canon |-> canon, upto |-> upto]
                   r == [pull[p] EXCEPT !.green = FALSE, !.tip = t]
        <4>1. upto \in Nat BY DEF QInv
        <4>2. t \in LTip BY <2>1, <4>1 DEF LTip
        <4>3. Change(p, "pull", r) BY <3>7 DEF PushHead
        <4> HIDE DEF t
        <4>4. r \in PullRecord BY <2>1, <4>2 DEF PullRecord
        <4> QED BY <4>3, <4>4
      <3> QED BY <1>5, <3>1, <3>2, <3>3, <3>4, <3>5, <3>6, <3>7
    <2> QED BY <2>2, ChangeUser DEF Kinds
  <1>6. ASSUME NEW p \in PR, ChecksPass(p) \/ Recheck(p) PROVE UInv'
    BY <1>3, <1>6 DEF ChecksPass, Recheck
  <1>7. ASSUME NEW p \in PR, AutoMerge(p) PROVE UInv'
    BY <1>0, <1>7, MergeUser DEF AutoMerge, UInv
  <1>8. CASE UNCHANGED vars BY <1>8 DEF vars, UInv, UserOK, InQ, DueOrLost
  <1> QED BY <1>1, <1>2, <1>4, <1>5, <1>6, <1>7, <1>8 DEF Next, People

\* A maintainer who arms a follower behind the run's back is noticed: an event
\* that asks for a new reconciliation waits, or it was lost.
THEOREM UserArmsNoticed == Spec => []UInv
  <1>1. Init => UInv
    <2>1. ASSUME Init PROVE wf.run.pc \notin Active
      <3>1. MainEvent \in SoundEvent BY DEF MainEvent, SoundEvent, Event, Detaches, Kinds
      <3> QED BY <2>1, <3>1, BegunType DEF Init, Active
    <2> QED BY <2>1, InactiveUser DEF UInv
  <1> QED BY <1>1, NextUser, QueueSound, PTL DEF Spec

\* When the controller arms the leader, every other pull request of the queue is
\* disarmed, but for one whose disarming was lost and one that a maintainer armed
\* after the run had disarmed it; then a new reconciliation is due, or was lost.
THEOREM ArmsOneOnly == Spec => ArmsAlone
  <1> DEFINE A == \A p, q \in PR :
        p # q /\ pull'[p].armed = "app" /\ pull[p].armed # "app" /\ InQueue(q) =>
            \/ pull[q].armed = "no"
            \/ pull[q].armed = "app" /\ q \in wf.undone
            \/ pull[q].armed = "user" /\ DueOrLost(wf)
  <1>1. ASSUME QInv, UInv, [Next]_vars PROVE A
    <2> SUFFICES ASSUME NEW p \in PR, NEW q \in PR, p # q, pull'[p].armed = "app",
                        pull[p].armed # "app", InQueue(q)
                 PROVE  \/ pull[q].armed = "no"
                        \/ pull[q].armed = "app" /\ q \in wf.undone
                        \/ pull[q].armed = "user" /\ DueOrLost(wf)
      OBVIOUS
    <2>1. Arm /\ p = run.leader BY <1>1, OnlyArmArms
    <2>2. wf.run.pc = "arm" /\ wf.run.todo = {} /\ wf.run.leader = p
      BY <1>1, <2>1 DEF Arm, run, QInv, Sound, RunOK, Active
    <2>3. InQ(pull, q) BY DEF InQ, InQueue
    <2>4. pull[q].armed \in {"no", "app", "user"} BY <1>1 DEF QInv, Sound, PullRecord
    <2>5. pull[q].armed = "app" => q \in wf.undone
      BY <1>1, <2>2, <2>3 DEF QInv, Sound, AloneOK, Active
    <2>6. pull[q].armed = "user" => DueOrLost(wf)
      BY <1>1, <2>2, <2>3 DEF UInv, UserOK, Active
    <2> QED BY <2>4, <2>5, <2>6
  <1> HIDE DEF A
  <1>2. Spec => [][A]_vars BY <1>1, QueueSound, UserArmsNoticed, PTL DEF Spec
  <1> QED BY <1>2 DEF ArmsAlone, A

-----------------------------------------------------------------------------
(* Bounds, for type correctness. *)

OpenPulls(pl) == {p \in PR : pl[p].open}

\* Each push to main is a step of a maintainer or closes a pull request.
CountOK == main + Cardinality(OpenPulls(pull)) <= 1 + users + Cardinality(PR)

PullsInBounds(pl, u, m) == \A p \in PR : pl[p].tip.n \in 1..u + 1 /\ pl[p].tip.upto \in 1..m
RunInBounds(w, u, m) ==
    /\ w.run.base <= m
    /\ w.run.tip = NoTip \/ (w.run.tip.n \in 1..u + 1 /\ w.run.tip.upto \in 1..m)

BoundInv ==
    /\ users \in 0..MaxUser /\ faults \in 0..MaxFaults
    /\ CountOK /\ PullsInBounds(pull, users, main) /\ RunInBounds(wf, users, main)

LEMMA OpenFinite ==
  ASSUME NEW pl
  PROVE  /\ IsFiniteSet(OpenPulls(pl)) /\ Cardinality(OpenPulls(pl)) \in Nat
         /\ Cardinality(PR) \in Nat
  <1>1. IsFiniteSet(OpenPulls(pl)) /\ IsFiniteSet(PR)
    BY FS_Subset, QueueAssumption DEF OpenPulls
  <1> QED BY <1>1, FS_CardinalityType

\* What a group has read stays in bounds.
LEMMA RunsInBounds ==
  ASSUME NEW w \in Group, NEW u \in Nat, NEW m \in Nat, RunInBounds(w, u, m)
  PROVE  /\ RunInBounds(Finish(w), u, m)
         /\ \A ev \in SoundEvent : Settled(w) => RunInBounds(Raise(w, ev), u, m)
         /\ \A pc \in PCs : RunInBounds(Goto(w, pc), u, m)
         /\ \A n, k \in Nat : n >= u /\ k >= m => RunInBounds(w, n, k)
  <1>1. \A ev, pc : Blank(pc, ev).tip = NoTip /\ Blank(pc, ev).base = 0 BY DEF Blank
  <1>2. RunInBounds(Finish(w), u, m)
    <2>1. Finish(w).run \in {NoRun, Begun(w.pending)} BY DEF Finish, Group
    <2> QED BY <1>1, <2>1 DEF RunInBounds, NoRun, Begun
  <1>3. \A ev \in SoundEvent : Settled(w) => RunInBounds(Raise(w, ev), u, m)
    <2>1. \A ev \in SoundEvent : Settled(w) => Raise(w, ev).run \in {w.run, Begun(ev)}
      BY RaiseFacts
    <2> QED BY <1>1, <2>1 DEF RunInBounds, Begun
  <1>4. \A pc \in PCs : RunInBounds(Goto(w, pc), u, m) BY GotoType DEF RunInBounds
  <1>5. \A n, k \in Nat : n >= u /\ k >= m => RunInBounds(w, n, k)
    <2>1. w.run.base \in Nat /\ w.run.tip.n \in Nat /\ w.run.tip.upto \in Nat
      BY DEF Group, RunRecord, LTip
    <2> QED BY <2>1 DEF RunInBounds
  <1> QED BY <1>2, <1>3, <1>4, <1>5

\* A merged or closed pull request is open no more.
LEMMA CountDrops ==
  ASSUME NEW pl, NEW pn, NEW p \in PR, pl[p].open, ~pn[p].open,
         \A q \in PR : q # p => pn[q].open = pl[q].open
  PROVE  Cardinality(OpenPulls(pn)) = Cardinality(OpenPulls(pl)) - 1
  <1>1. OpenPulls(pn) = OpenPulls(pl) \ {p} BY DEF OpenPulls
  <1>2. p \in OpenPulls(pl) BY DEF OpenPulls
  <1> QED BY <1>1, <1>2, OpenFinite, FS_RemoveElement

\* Steps that move no head and close nothing.
LEMMA SteadyBound ==
  ASSUME QInv, BoundInv, wf' \in Group, main' = main,
         users' \in {users, users + 1}, users' \in 0..MaxUser, faults' \in 0..MaxFaults,
         \A q \in PR : pull'[q].open = pull[q].open /\ pull'[q].tip = pull[q].tip,
         RunInBounds(wf', users, main)
  PROVE  BoundInv'
  <1>1. main \in Nat /\ users \in Nat /\ users' \in Nat /\ users' >= users
    BY QueueAssumption DEF QInv, BoundInv
  <1>2. OpenPulls(pull') = OpenPulls(pull) BY DEF OpenPulls
  <1>3. CountOK' BY <1>1, <1>2, OpenFinite DEF CountOK, BoundInv
  <1>4. PullsInBounds(pull', users', main') BY <1>1 DEF PullsInBounds, BoundInv
  <1>5. RunInBounds(wf', users', main') BY <1>1, RunsInBounds
  <1> QED BY <1>3, <1>4, <1>5 DEF BoundInv

LEMMA MergeBound ==
  ASSUME QInv, BoundInv, NEW p \in PR, pull[p].open, NEW w, Sound(pull, w),
         RunInBounds(w, users, main), DoMerge(p, w), UNCHANGED <<users, faults>>
  PROVE  BoundInv'
  <1>1. main \in Nat /\ users \in Nat /\ main' \in Nat /\ main' \in {main, main + 1}
        /\ pull \in [PR -> PullRecord] /\ wf' \in Group
    <2>1. Sound(pull', wf') /\ main \in Nat \ {0} BY MergeSound DEF QInv
    <2>2. main' \in {main, main + 1} BY DEF DoMerge
    <2>3. users \in Nat BY QueueAssumption DEF BoundInv
    <2> QED BY <2>1, <2>2, <2>3 DEF Sound
  <1>2. ~pull'[p].open /\ \A q \in PR : /\ q # p => pull'[q].open = pull[q].open
                                       /\ pull'[q].tip = pull[q].tip
    BY <1>1 DEF DoMerge, PullRecord
  <1>3. Cardinality(OpenPulls(pull')) = Cardinality(OpenPulls(pull)) - 1
    BY <1>2, CountDrops
  <1>4. CountOK' BY <1>1, <1>3, OpenFinite DEF CountOK, BoundInv
  <1>5. PullsInBounds(pull', users, main') BY <1>1, <1>2 DEF PullsInBounds, BoundInv
  <1>6. RunInBounds(wf', users, main')
    <2> DEFINE r == Raise(w, About("pull", p, pull[p]))
    <2>1. About("pull", p, pull[p]) \in SoundEvent /\ MainEvent \in SoundEvent
      BY <1>1, AboutFacts DEF Kinds
    <2>2. Sound(pull, r) /\ RunInBounds(r, users, main)
      BY <1>1, <2>1, RaiseSound, RunsInBounds DEF Sound
    <2>3. Merged(w, p) = (IF pull[p].onMain THEN Raise(r, MainEvent) ELSE r) BY DEF Merged
    <2> HIDE DEF r
    <2>4. Merged(w, p) \in Group /\ RunInBounds(Merged(w, p), users, main)
      BY <1>1, <2>1, <2>2, <2>3, RaiseSound, RunsInBounds DEF Sound
    <2>5. wf'.run = Merged(w, p).run BY <2>4 DEF DoMerge, Group
    <2>6. RunInBounds(wf', users, main) BY <2>4, <2>5 DEF RunInBounds
    <2> QED BY <1>1, <2>6, RunsInBounds
  <1> QED BY <1>4, <1>5, <1>6 DEF BoundInv

LEMMA ChangeBound ==
  ASSUME QInv, BoundInv, NEW p \in PR, NEW kind \in Kinds, NEW r \in PullRecord,
         Change(p, kind, r),
         r.tip = pull[p].tip \/ (r.tip.n = pull[p].tip.n + 1 /\ r.tip.upto \in 1..main)
  PROVE  BoundInv'
  <1>1. /\ main \in Nat /\ users \in Nat /\ main' = main /\ users' = users + 1
        /\ faults' = faults /\ users' \in 0..MaxUser
        /\ pull \in [PR -> PullRecord] /\ wf \in Group /\ Settled(wf)
        /\ pull' = [pull EXCEPT ![p] = r] /\ pull[p].open
        /\ wf' = Raise(wf, About(kind, p, r))
    BY QueueAssumption DEF QInv, BoundInv, Change, Sound
  <1>2. pull'[p] = r /\ \A q \in PR : q # p => pull'[q] = pull[q] BY <1>1
  <1>3. Cardinality(OpenPulls(pull')) <= Cardinality(OpenPulls(pull))
    <2>1. CASE r.open
      <3>1. OpenPulls(pull') = OpenPulls(pull) BY <1>1, <1>2, <2>1 DEF OpenPulls
      <3> QED BY <3>1, OpenFinite
    <2>2. CASE ~r.open
      <3>1. Cardinality(OpenPulls(pull')) = Cardinality(OpenPulls(pull)) - 1
        BY <1>1, <1>2, <2>2, CountDrops
      <3> QED BY <3>1, OpenFinite
    <2> QED BY <2>1, <2>2
  <1>4. CountOK' BY <1>1, <1>3, OpenFinite DEF CountOK, BoundInv
  <1>5. PullsInBounds(pull', users', main')
    BY <1>1, <1>2 DEF PullsInBounds, BoundInv
  <1>6. RunInBounds(wf', users', main')
    <2>1. About(kind, p, r) \in SoundEvent BY AboutFacts
    <2>2. Raise(wf, About(kind, p, r)) \in Group BY <1>1, <2>1, RaiseFacts
    <2>3. RunInBounds(wf', users, main) BY <1>1, <2>1, RunsInBounds DEF BoundInv
    <2> QED BY <1>1, <2>2, <2>3, RunsInBounds
  <1> QED BY <1>1, <1>4, <1>5, <1>6 DEF BoundInv

LEMMA ControllerBound == QInv /\ BoundInv /\ Controller => BoundInv'
  <1> SUFFICES ASSUME QInv, BoundInv, Controller PROVE BoundInv' OBVIOUS
  <1>0. /\ Sound(pull, wf) /\ wf \in Group /\ pull \in [PR -> PullRecord] /\ main \in Nat
        /\ wf.run \in RunRecord
        /\ users \in Nat /\ users' = users /\ faults' = faults
        /\ users \in 0..MaxUser /\ faults \in 0..MaxFaults
        /\ RunInBounds(wf, users, main)
    BY QueueAssumption DEF QInv, BoundInv, Sound, Controller, Group
  <1>g. QInv' BY ControllerSound
  <1>h. wf' \in Group BY <1>g DEF QInv, Sound
  <1>1. ASSUME main' = main, pull' = pull, RunInBounds(wf', users, main) PROVE BoundInv'
    BY <1>0, <1>1, <1>h, SteadyBound
  <1>2. ASSUME main' = main, NEW p \in PR, pull' = [pull EXCEPT ![p].armed = "no"],
               RunInBounds(wf', users, main)
        PROVE  BoundInv'
    BY <1>0, <1>2, <1>h, SteadyBound DEF PullRecord
  <1>3. ASSUME NEW v \in Group, v.run = wf.run
        PROVE  /\ RunInBounds(v, users, main) /\ RunInBounds(Finish(v), users, main)
               /\ RunInBounds(Fail(v), users, main)
               /\ \A pc \in PCs : RunInBounds(Goto(v, pc), users, main)
    <2>1. RunInBounds(v, users, main) BY <1>0, <1>3 DEF RunInBounds
    <2> DEFINE u == [v EXCEPT !.missed = TRUE]
    <2>2. u \in Group /\ u.run = wf.run BY <1>3 DEF Group
    <2> HIDE DEF u
    <2>3. RunInBounds(u, users, main) BY <1>0, <2>2 DEF RunInBounds
    <2> QED BY <1>0, <2>1, <2>2, <2>3, RunsInBounds DEF Fail, u
  <1>4. CASE SkipJob /\ main' = main BY <1>0, <1>1, <1>3, <1>4 DEF SkipJob
  <1>5. CASE ReconcileEvent /\ main' = main
    <2>1. CASE Detaches(run.ev)
      <3> DEFINE v == [wf EXCEPT !.undone = @ \ {run.ev.pr}]
      <3>1. v \in Group /\ v.run = wf.run BY <1>0 DEF Group
      <3>2. run.ev.pr \in PR BY <1>0, <2>1 DEF run, RunRecord, SoundEvent
      <3>3. wf' = Goto(v, "list") /\ pull' = [pull EXCEPT ![run.ev.pr].armed = "no"]
        BY <1>5, <2>1 DEF ReconcileEvent, Disarm
      <3> HIDE DEF v
      <3> QED BY <1>2, <1>3, <1>5, <3>1, <3>2, <3>3 DEF PCs
    <2>2. CASE ~Detaches(run.ev)
      BY <1>0, <1>1, <1>3, <1>5, <2>2 DEF ReconcileEvent, PCs
    <2> QED BY <2>1, <2>2
  <1>6. CASE List /\ main' = main
    <2>1. CASE wf' = Finish([wf EXCEPT !.missed = FALSE])
      <3> DEFINE v == [wf EXCEPT !.missed = FALSE]
      <3>1. v \in Group /\ v.run = wf.run BY <1>0 DEF Group
      <3> HIDE DEF v
      <3> QED BY <1>1, <1>3, <1>6, <2>1, <3>1 DEF List, v
    <2>2. CASE wf' = Finish(wf) BY <1>0, <1>1, <1>3, <1>6, <2>2 DEF List
    <2>3. CASE /\ Queue # {}
               /\ wf' = [wf EXCEPT !.missed = FALSE, !.undone = @ \ Queue,
                        !.run = [@ EXCEPT !.pc = "followers", !.leader = Min(Queue),
                                   !.todo = Queue \ {Min(Queue)},
                                   !.draft = pull[Min(Queue)].draft,
                                   !.tip = pull[Min(Queue)].tip]]
      <3> DEFINE p == Min(Queue)
      <3>1. Queue \in SUBSET PR /\ Queue \in SUBSET Nat BY QueueAssumption DEF Queue
      <3>2. p \in PR BY <2>3, <3>1, MinIsLeast
      <3> HIDE DEF p
      <3>3. wf'.run.tip = pull[p].tip /\ wf'.run.base = wf.run.base
        BY <1>0, <2>3 DEF Group, RunRecord, p
      <3>4. RunInBounds(wf', users, main)
        BY <1>0, <3>2, <3>3 DEF RunInBounds, BoundInv, PullsInBounds
      <3> QED BY <1>1, <1>6, <3>4 DEF List
    <2> QED BY <1>6, <2>1, <2>2, <2>3 DEF List
  <1>7. CASE DisarmFollower /\ main' = main
    <2>1. Followers \in SUBSET PR BY <1>0 DEF Followers, run, RunRecord
    <2>2. Followers \in SUBSET Nat BY <2>1, QueueAssumption
    <2>3. Min(Followers) \in PR BY <1>7, <2>1, <2>2, MinIsLeast DEF DisarmFollower
    <2>4. wf'.run.tip = wf.run.tip /\ wf'.run.base = wf.run.base
      BY <1>0, <1>7 DEF DisarmFollower, Group, RunRecord
    <2>5. RunInBounds(wf', users, main) BY <1>0, <2>4 DEF RunInBounds
    <2> QED BY <1>2, <1>7, <2>3, <2>5 DEF DisarmFollower, Disarm
  <1>8. CASE DisarmLeader /\ main' = main
    <2>1. run.leader \in PR BY <1>0, <1>8 DEF DisarmLeader, run, Sound, RunOK, Active
    <2>2. RunInBounds(wf', users, main) BY <1>0, <1>3, <1>8 DEF DisarmLeader, PCs
    <2> QED BY <1>2, <1>8, <2>1, <2>2 DEF DisarmLeader, Disarm
  <1>9. CASE Verify /\ main' = main
    <2>1. CASE wf' = Finish(wf) BY <1>0, <1>1, <1>3, <1>9, <2>1 DEF Verify
    <2>2. CASE wf' = [wf EXCEPT !.run.pc = "again", !.run.base = main]
      <3>1. wf'.run.tip = wf.run.tip /\ wf'.run.base = main
        BY <1>0, <2>2 DEF Group, RunRecord
      <3>2. RunInBounds(wf', users, main) BY <1>0, <3>1 DEF RunInBounds
      <3> QED BY <1>1, <1>9, <3>2 DEF Verify
    <2> QED BY <1>9, <2>1, <2>2 DEF Verify
  <1>10. CASE CheckBranch /\ main' = main BY <1>0, <1>1, <1>3, <1>10 DEF CheckBranch, PCs
  <1>11. CASE ReadState /\ main' = main
    <2> DEFINE w == [wf EXCEPT !.run.tip = Leading.tip]
    <2>1. CASE wf' = Finish(wf) BY <1>0, <1>1, <1>3, <1>11, <2>1 DEF ReadState
    <2>2. CASE SameHead
      <3>1. Leading.tip = wf.run.tip
        BY <1>0, <1>11, <2>2 DEF ReadState, SameHead, Leading, run, Sound, RunOK, Active
      <3>2. w = wf BY <1>0, <3>1 DEF Group, RunRecord
      <3>3. \E pc \in {"done", "merge", "arm"} : wf' = Finish(wf) \/ wf' = Goto(w, pc)
        BY <1>11 DEF ReadState
      <3> HIDE DEF w
      <3> QED BY <1>0, <1>1, <1>3, <1>11, <3>2, <3>3 DEF ReadState, PCs
    <2> QED BY <1>11, <2>1, <2>2 DEF ReadState
  <1>12. CASE MergeNow
    <2>1. CASE Expected /\ Clean(run.leader)
      <3>1. run.leader \in PR /\ pull[run.leader].open
        BY <1>0, <1>12, <2>1 DEF MergeNow, run, Sound, RunOK, Active, Clean
      <3>2. DoMerge(run.leader, Goto(wf, "done")) BY <1>12, <2>1 DEF MergeNow
      <3>3. Sound(pull, Goto(wf, "done")) /\ RunInBounds(Goto(wf, "done"), users, main)
        <4>1. wf.run.pc = "merge" /\ wf.run.todo = {}
          BY <1>0, <1>12 DEF MergeNow, run, Sound, RunOK, Active
        <4> QED BY <1>0, <1>3, <4>1, GotoSound DEF PCs, Active, Audited
      <3> QED BY <1>0, <3>1, <3>2, <3>3, MergeBound
    <2>2. CASE ~(Expected /\ Clean(run.leader))
      BY <1>0, <1>1, <1>3, <1>12, <2>2 DEF MergeNow
    <2> QED BY <2>1, <2>2
  <1>13. CASE Arm /\ main' = main
    <2>1. CASE Expected /\ ~Clean(run.leader)
      <3> DEFINE l == run.leader
                 ev == About("enabledByApp", l, pull[l])
      <3>1. l \in PR /\ wf.run.pc = "arm" /\ wf.run.todo = {}
        BY <1>0, <1>13 DEF Arm, run, Sound, RunOK, Active
      <3>2. ev \in SoundEvent BY <1>0, <3>1, AboutFacts DEF Kinds
      <3>3. Sound(pull, Goto(wf, "done")) /\ RunInBounds(Goto(wf, "done"), users, main)
        BY <1>0, <1>3, <3>1, GotoSound DEF PCs, Active, Audited
      <3>4. wf' = Raise(Goto(wf, "done"), ev) /\ pull' = [pull EXCEPT ![l].armed = "app"]
        BY <1>13, <2>1 DEF Arm, Leading
      <3> HIDE DEF l, ev
      <3>5. RunInBounds(wf', users, main) BY <1>0, <3>2, <3>3, <3>4, RunsInBounds DEF Sound
      <3>6. \A q \in PR : pull'[q].open = pull[q].open /\ pull'[q].tip = pull[q].tip
        BY <1>0, <3>1, <3>4 DEF PullRecord
      <3> QED BY <1>0, <1>13, <1>h, <3>5, <3>6, SteadyBound
    <2>2. CASE ~(Expected /\ ~Clean(run.leader))
      BY <1>0, <1>1, <1>3, <1>13, <2>2 DEF Arm, PCs
    <2> QED BY <2>1, <2>2
  <1>14. CASE Retry /\ main' = main BY <1>0, <1>1, <1>3, <1>14 DEF Retry, PCs
  <1>15. CASE Done /\ main' = main BY <1>0, <1>1, <1>3, <1>15 DEF Done
  <1> QED BY <1>4, <1>5, <1>6, <1>7, <1>8, <1>9, <1>10, <1>11, <1>12, <1>13, <1>14, <1>15
          DEF Controller

LEMMA NextBound == QInv /\ BoundInv /\ [Next]_vars => BoundInv'
  <1> SUFFICES ASSUME QInv, BoundInv, [Next]_vars PROVE BoundInv' OBVIOUS
  <1>0. /\ Sound(pull, wf) /\ wf \in Group /\ pull \in [PR -> PullRecord]
        /\ main \in Nat \ {0} /\ users \in Nat
        /\ users \in 0..MaxUser /\ faults \in 0..MaxFaults /\ RunInBounds(wf, users, main)
    BY QueueAssumption DEF QInv, BoundInv, Sound
  <1>g. QInv' BY NextSound
  <1>h. wf' \in Group BY <1>g DEF QInv, Sound
  <1>1. CASE Controller BY <1>1, ControllerBound
  <1>2. CASE RunFails
    <2> DEFINE v == IF run.pc = "start" /\ Detaches(run.ev)
                    THEN [wf EXCEPT !.undone = @ \cup {run.ev.pr}] ELSE wf
               u == [v EXCEPT !.missed = TRUE]
    <2>1. run.pc = "start" /\ Detaches(run.ev) => run.ev.pr \in PR
      BY <1>0 DEF run, Group, RunRecord, SoundEvent
    <2>2. v \in Group /\ v.run = wf.run BY <1>0, <2>1 DEF Group
    <2>3. wf' = Fail(v) BY <1>2 DEF RunFails
    <2> HIDE DEF v
    <2>4. u \in Group /\ u.run = wf.run BY <2>2 DEF Group
    <2>5. Fail(v) = Finish(u) BY DEF Fail
    <2> HIDE DEF u
    <2>6. RunInBounds(u, users, main) BY <1>0, <2>4 DEF RunInBounds
    <2>7. RunInBounds(wf', users, main) BY <1>0, <2>3, <2>4, <2>5, <2>6, RunsInBounds
    <2>8. faults' \in 0..MaxFaults BY <1>0, <1>2, QueueAssumption DEF RunFails
    <2> QED BY <1>0, <1>2, <1>h, <2>7, <2>8, SteadyBound DEF RunFails
  <1>3. CASE People
    <2>1. ASSUME PushMain PROVE BoundInv'
      <3>1. /\ users' = users + 1 /\ main' = main + 1 /\ users' \in 0..MaxUser
            /\ pull' = pull /\ faults' = faults /\ wf' = Raise(wf, MainEvent)
        BY <1>0, <2>1, QueueAssumption DEF PushMain
      <3>2. CountOK' BY <1>0, <3>1, OpenFinite DEF CountOK, BoundInv
      <3>3. PullsInBounds(pull', users', main')
        BY <1>0, <3>1 DEF PullsInBounds, BoundInv
      <3>4. RunInBounds(wf', users', main')
        <4>1. MainEvent \in SoundEvent BY DEF MainEvent, SoundEvent, Event, Detaches, Kinds
        <4>2. RunInBounds(wf', users, main) BY <1>0, <3>1, <4>1, RunsInBounds DEF Sound
        <4> QED BY <1>0, <1>h, <3>1, <4>2, RunsInBounds
      <3> QED BY <1>0, <3>1, <3>2, <3>3, <3>4 DEF BoundInv
    <2>2. ASSUME NEW p \in PR, Recheck(p) PROVE BoundInv'
      <3>1. \A q \in PR : pull'[q].open = pull[q].open /\ pull'[q].tip = pull[q].tip
        BY <1>0, <2>2 DEF Recheck, PullRecord
      <3>2. /\ users' \in 0..MaxUser /\ users' = users + 1 /\ main' = main /\ wf' = wf
            /\ faults' = faults
        BY <1>0, <2>2, QueueAssumption DEF Recheck
      <3> QED BY <1>0, <3>1, <3>2, SteadyBound
    <2>3. ASSUME NEW p \in PR, NEW canon \in BOOLEAN, NEW upto \in 1..main,
                 \/ Label(p) \/ Unlabel(p) \/ ToggleDraft(p) \/ Retarget(p) \/ UserArms(p)
                 \/ CloseUnmerged(p) \/ PushHead(p, canon, upto)
          PROVE  BoundInv'
      <3>1. pull[p] \in PullRecord BY <1>0
      <3>2. ASSUME NEW kind \in Kinds, NEW r \in PullRecord, Change(p, kind, r),
                   r.tip = pull[p].tip
            PROVE  BoundInv'
        BY <3>2, ChangeBound
      <3>3. CASE Label(p) BY <3>1, <3>2, <3>3 DEF Label, PullRecord, Kinds
      <3>4. CASE Unlabel(p) BY <3>1, <3>2, <3>4 DEF Unlabel, PullRecord, Kinds
      <3>5. CASE ToggleDraft(p) BY <3>1, <3>2, <3>5 DEF ToggleDraft, PullRecord, Kinds
      <3>6. CASE Retarget(p) BY <3>1, <3>2, <3>6 DEF Retarget, PullRecord, Kinds
      <3>7. CASE UserArms(p) BY <3>1, <3>2, <3>7 DEF UserArms, PullRecord, Kinds
      <3>8. CASE CloseUnmerged(p) BY <3>1, <3>2, <3>8 DEF CloseUnmerged, PullRecord, Kinds
      <3>9. CASE PushHead(p, canon, upto)
        <4> DEFINE t == [n |-> pull[p].tip.n + 1, canon |-> canon, upto |-> upto]
                   r == [pull[p] EXCEPT !.green = FALSE, !.tip = t]
        <4>1. t \in LTip BY <1>0, <3>1 DEF LTip, PullRecord
        <4>2. Change(p, "pull", r) BY <3>9 DEF PushHead
        <4>3. t.n = pull[p].tip.n + 1 /\ t.upto \in 1..main OBVIOUS
        <4> HIDE DEF t
        <4>4. r \in PullRecord /\ r.tip = t BY <3>1, <4>1 DEF PullRecord
        <4> HIDE DEF r
        <4> QED BY <4>2, <4>3, <4>4, ChangeBound DEF Kinds
      <3> QED BY <2>3, <3>3, <3>4, <3>5, <3>6, <3>7, <3>8, <3>9
    <2>4. 1 \in 1..main /\ TRUE \in BOOLEAN
      <3>1. main >= 1 BY <1>0
      <3> QED BY <1>0, <3>1
    <2>5. ASSUME NEW p \in PR, \/ Label(p) \/ Unlabel(p) \/ ToggleDraft(p) \/ Retarget(p)
                                \/ UserArms(p) \/ CloseUnmerged(p)
          PROVE  BoundInv'
      BY <2>3, <2>4, <2>5
    <2>6. ASSUME NEW p \in PR, NEW canon \in BOOLEAN, NEW upto \in 1..main,
                 PushHead(p, canon, upto)
          PROVE  BoundInv'
      BY <2>3, <2>6
    <2> QED BY <1>3, <2>1, <2>2, <2>5, <2>6 DEF People
  <1>4. CASE \E p \in PR : ChecksPass(p) \/ AutoMerge(p)
    <2>1. PICK p \in PR : ChecksPass(p) \/ AutoMerge(p) BY <1>4
    <2>2. CASE ChecksPass(p)
      <3>1. \A q \in PR : pull'[q].open = pull[q].open /\ pull'[q].tip = pull[q].tip
        BY <1>0, <2>2 DEF ChecksPass, PullRecord
      <3> QED BY <1>0, <2>2, <3>1, SteadyBound DEF ChecksPass
    <2>3. CASE AutoMerge(p)
      <3>1. DoMerge(p, wf) /\ pull[p].open /\ UNCHANGED <<users, faults>>
        BY <2>3 DEF AutoMerge, Clean
      <3> QED BY <1>0, <3>1, MergeBound
    <2> QED BY <2>1, <2>2, <2>3
  <1>5. CASE UNCHANGED vars
    BY <1>5 DEF vars, BoundInv, CountOK, PullsInBounds, RunInBounds
  <1> QED BY <1>1, <1>2, <1>3, <1>4, <1>5 DEF Next

LEMMA InitBound == Init => BoundInv
  <1> SUFFICES ASSUME Init PROVE BoundInv OBVIOUS
  <1>1. OpenPulls(pull) = PR BY DEF Init, OpenPulls
  <1>2. CountOK BY <1>1, OpenFinite DEF CountOK, Init
  <1>3. /\ users = 0 /\ main = 1
        /\ \A p \in PR : pull[p].tip = [n |-> 1, canon |-> TRUE, upto |-> 1]
    BY DEF Init
  <1>4. PullsInBounds(pull, users, main) BY <1>3 DEF PullsInBounds
  <1>5. wf.run.tip = NoTip /\ wf.run.base = 0 BY DEF Init, Begun, Blank
  <1>6. RunInBounds(wf, users, main) BY <1>3, <1>5 DEF RunInBounds
  <1>7. users \in 0..MaxUser /\ faults \in 0..MaxFaults BY QueueAssumption DEF Init
  <1> QED BY <1>2, <1>4, <1>6, <1>7 DEF BoundInv

\* Every reachable state is well formed, and the number of pushes to main is
\* bounded by the steps of maintainers and the pull requests merged.
THEOREM QueueTypeCorrect == Spec => []TypeOK
  <1>1. Init => QInv /\ BoundInv BY InitSound, InitBound
  <1>2. QInv /\ BoundInv /\ [Next]_vars => (QInv /\ BoundInv)' BY NextSound, NextBound
  <1>3. ASSUME QInv, BoundInv PROVE TypeOK
    <2>1. /\ main \in Nat \ {0} /\ pull \in [PR -> PullRecord] /\ wf \in Group
          /\ Settled(wf) /\ users \in Nat /\ users <= MaxUser /\ users \in 0..MaxUser
          /\ faults \in 0..MaxFaults /\ MaxUser \in Nat
      BY <1>3, QueueAssumption DEF QInv, BoundInv, Sound
    <2>2. main \in 1..1 + MaxUser + Cardinality(PR)
      BY <1>3, <2>1, OpenFinite DEF BoundInv, CountOK
    <2>3. \A t \in LTip : t.n \in 1..users + 1 /\ t.upto \in 1..main => t \in Tip
      BY <2>1 DEF LTip, Tip
    <2>4. \A p \in PR : pull[p].tip \in Tip
      <3> TAKE p \in PR
      <3>1. pull[p].tip \in LTip BY <2>1 DEF PullRecord
      <3> QED BY <1>3, <2>3, <3>1 DEF BoundInv, PullsInBounds
    <2>5. pull \in [PR -> [open : BOOLEAN, labelled : BOOLEAN, draft : BOOLEAN,
                           onMain : BOOLEAN, green : BOOLEAN, tip : Tip,
                           armed : {"no", "app", "user"}]]
      BY <2>1, <2>4 DEF PullRecord
    <2>6. wf.run.tip \in Tip \cup {NoTip} /\ wf.run.base \in 0..main
      <3>1. wf.run.tip \in LTip /\ wf.run.base \in Nat BY <2>1 DEF Group, RunRecord
      <3> QED BY <1>3, <2>1, <2>3, <3>1 DEF BoundInv, RunInBounds
    <2>7. wf.run \in [pc : PCs, ev : Event \cup {NoEvent}, leader : PR \cup {0},
                      draft : BOOLEAN, tip : Tip \cup {NoTip}, todo : SUBSET PR,
                      base : 0..main]
      BY <2>1, <2>6 DEF Group, RunRecord, SoundEvent
    <2>8. wf \in [run : [pc : PCs, ev : Event \cup {NoEvent}, leader : PR \cup {0},
                      draft : BOOLEAN, tip : Tip \cup {NoTip}, todo : SUBSET PR,
                      base : 0..main],
               pending : Event \cup {NoEvent}, missed : BOOLEAN, undone : SUBSET PR]
      BY <2>1, <2>7 DEF Group, SoundEvent
    <2> QED BY <2>1, <2>2, <2>5, <2>8 DEF TypeOK, Settled, run
  <1> QED BY <1>1, <1>2, <1>3, PTL DEF Spec

-----------------------------------------------------------------------------
(* What the queue owes to its armed pull requests.                           *)

LeadsIn(pl, p) == InQ(pl, p) /\ \A q \in PR : InQ(pl, q) => p <= q
HealthyIn(m, pl, p) ==
    LeadsIn(pl, p) /\ ~pl[p].draft /\ pl[p].tip.canon /\ pl[p].tip.upto = m

\* Nothing has changed the queue since the run listed it.
Fresh(w) == ~DueOrLost(w)

\* A run that works or waits will disarm this pull request of the queue.
WillDisarm(w, p) ==
    \/ Reconciles(w.pending)
    \/ w.run.pc \in {"start", "list"} /\ Reconciles(w.run.ev)
    \/ w.run.pc = "followers" /\ (p \in w.run.todo \/ p = w.run.leader)

ClosedOK(pl) == \A p \in PR : ~pl[p].open => pl[p].armed = "no"

\* The run goes on with a leader that is no draft, and what it knows of the
\* leader and of main is true until an event says otherwise.
LeaderOK(m, pl, w) ==
    /\ w.run.pc \in Active \ {"followers"} => ~w.run.draft
    /\ w.run.pc \in Active /\ Fresh(w) /\ InQ(pl, w.run.leader) =>
          /\ LeadsIn(pl, w.run.leader)
          /\ pl[w.run.leader].draft = w.run.draft /\ pl[w.run.leader].tip = w.run.tip
    /\ w.run.pc \in Audited /\ Fresh(w) => m = w.run.base

\* What is armed in the queue and should not be is going to be disarmed.
Owed(m, pl, w) ==
    {p \in PR \ w.undone : InQ(pl, p) /\ pl[p].armed # "no" /\ ~HealthyIn(m, pl, p)}
TidyOK(m, pl, w) == ~w.missed => \A p \in Owed(m, pl, w) : WillDisarm(w, p)

Tidy(m, pl, w) == ClosedOK(pl) /\ LeaderOK(m, pl, w) /\ TidyOK(m, pl, w)

RInv == Tidy(main, pull, wf)

\* A run that has nothing left to disarm ends, and the event that waits starts.
LEMMA FinishTidy ==
  ASSUME NEW m, NEW pl, NEW w \in Group, Tidy(m, pl, w),
         ~w.missed => \A p \in Owed(m, pl, w) : Reconciles(w.pending)
  PROVE  Tidy(m, pl, Finish(w))
  <1> DEFINE v == Finish(w)
  <1>1. /\ v.run = (IF w.pending = NoEvent THEN NoRun ELSE Begun(w.pending))
        /\ v.undone = w.undone /\ v.missed = w.missed
    BY DEF Finish, Group
  <1>2. v.run.pc \in {"idle", "start"} BY FinishFacts
  <1>3. w.pending \in SoundEvent BY DEF Group
  <1>4. Begun(w.pending).pc = "start" /\ Begun(w.pending).ev = w.pending
    BY <1>3, BegunType
  <1>5. ~Reconciles(NoEvent) BY DEF Reconciles, Wanted, NoEvent
  <1> HIDE DEF v
  <1>6. LeaderOK(m, pl, v) BY <1>2 DEF LeaderOK, Active, Audited
  <1>7. Owed(m, pl, v) = Owed(m, pl, w) BY <1>1 DEF Owed
  <1>8. TidyOK(m, pl, v)
    <2> SUFFICES ASSUME ~v.missed, NEW p \in Owed(m, pl, v) PROVE WillDisarm(v, p)
      BY DEF TidyOK
    <2>1. Reconciles(w.pending) BY <1>1, <1>7
    <2>2. v.run = Begun(w.pending) BY <1>1, <1>5, <2>1
    <2> QED BY <1>4, <2>1, <2>2 DEF WillDisarm
  <1>9. Tidy(m, pl, v) BY <1>6, <1>8 DEF Tidy
  <1> QED BY <1>9 DEF v

\* A run past its list owes nothing but what the waiting event will disarm.
LEMMA LateFinishTidy ==
  ASSUME NEW m, NEW pl, NEW w \in Group, Tidy(m, pl, w),
         w.run.pc \notin {"start", "list", "followers"}
  PROVE  Tidy(m, pl, Finish(w))
  <1>1. ~w.missed => \A p \in Owed(m, pl, w) : Reconciles(w.pending)
    BY DEF Tidy, TidyOK, WillDisarm
  <1> QED BY <1>1, FinishTidy

\* A lost reconciliation promises nothing.
LEMMA FailTidy ==
  ASSUME NEW m, NEW pl, ClosedOK(pl), NEW w \in Group
  PROVE  Tidy(m, pl, Fail(w))
  <1> DEFINE u == [w EXCEPT !.missed = TRUE]
  <1>1. u \in Group /\ u.missed BY DEF Group
  <1> HIDE DEF u
  <1>2. Finish(u).run.pc \in {"idle", "start"} /\ Finish(u).missed BY <1>1, FinishFacts
  <1>3. LeaderOK(m, pl, Finish(u)) /\ TidyOK(m, pl, Finish(u))
    BY <1>2 DEF LeaderOK, TidyOK, Active, Audited
  <1> QED BY <1>3 DEF Tidy, Fail, u

LEMMA GotoKeeps ==
  ASSUME NEW w \in Group, NEW pc \in PCs
  PROVE  /\ Goto(w, pc).run.ev = w.run.ev /\ Goto(w, pc).run.draft = w.run.draft
         /\ Goto(w, pc).missed = w.missed
  BY DEF Goto, Group, RunRecord

\* The run goes on after it has disarmed its leader.
LEMMA GotoTidy ==
  ASSUME NEW m, NEW pl, NEW w \in Group, Tidy(m, pl, w),
         NEW pc \in Active \ {"followers"}, w.run.pc \in Active \ {"followers"},
         pc \in Audited => w.run.pc \in Audited
  PROVE  Tidy(m, pl, Goto(w, pc))
  <1> DEFINE v == Goto(w, pc)
  <1>0. pc \in PCs BY DEF PCs, Active
  <1>1. /\ v.pending = w.pending /\ v.undone = w.undone /\ v.run.pc = pc
        /\ v.run.leader = w.run.leader /\ v.run.tip = w.run.tip
        /\ v.run.base = w.run.base /\ v.run.draft = w.run.draft /\ v.missed = w.missed
    BY <1>0, GotoType, GotoKeeps
  <1> HIDE DEF v
  <1>2. LeaderOK(m, pl, v) BY <1>1 DEF Tidy, LeaderOK, Fresh, DueOrLost
  <1>3. Owed(m, pl, v) = Owed(m, pl, w) BY <1>1 DEF Owed
  <1>4. TidyOK(m, pl, v)
    BY <1>1, <1>3 DEF Tidy, TidyOK, WillDisarm, Active
  <1>5. Tidy(m, pl, v) BY <1>2, <1>4 DEF Tidy
  <1> QED BY <1>5 DEF v

\* What an event does to the group, seen from what is owed.
LEMMA RaiseFields ==
  ASSUME NEW w \in Group, Settled(w), NEW ev \in SoundEvent
  PROVE  /\ w.undone \subseteq Raise(w, ev).undone
         /\ w.run.pc = "idle" =>
              /\ Raise(w, ev).run.pc = "start" /\ Raise(w, ev).run.ev = ev
              /\ Raise(w, ev).missed = w.missed /\ ~Reconciles(w.pending)
         /\ w.run.pc # "idle" =>
              /\ Raise(w, ev).run = w.run /\ Raise(w, ev).pending = ev
              /\ ~Raise(w, ev).missed =>
                    ~w.missed /\ (Wanted(w.pending) => Reconciles(ev))
  <1>1. w.undone \subseteq Raise(w, ev).undone BY RaiseFacts
  <1>2. ASSUME w.run.pc = "idle"
        PROVE  /\ Raise(w, ev).run.pc = "start" /\ Raise(w, ev).run.ev = ev
               /\ Raise(w, ev).missed = w.missed /\ ~Reconciles(w.pending)
    <2>1. Raise(w, ev) = [w EXCEPT !.run = Begun(ev)] BY <1>2 DEF Raise
    <2>2. Raise(w, ev).run = Begun(ev) /\ Raise(w, ev).missed = w.missed
      BY <2>1 DEF Group
    <2>3. ~Reconciles(w.pending) BY <1>2 DEF Settled, Reconciles, Wanted, NoEvent
    <2> QED BY <2>2, <2>3, BegunType
  <1>3. ASSUME w.run.pc # "idle"
        PROVE  /\ Raise(w, ev).run = w.run /\ Raise(w, ev).pending = ev
               /\ ~Raise(w, ev).missed =>
                     ~w.missed /\ (Wanted(w.pending) => Reconciles(ev))
    <2>1. Raise(w, ev).run = w.run /\ Raise(w, ev).pending = ev BY <1>3, RaiseFacts
    <2>2. Raise(w, ev).missed =
            (w.missed \/ (Wanted(w.pending) /\ (~Wanted(ev) \/ ev.kind = "enabledByApp")))
      BY <1>3 DEF Raise, Group
    <2>3. ~Raise(w, ev).missed =>
            ~w.missed /\ (Wanted(w.pending) => Reconciles(ev))
      BY <2>2 DEF Reconciles
    <2> QED BY <2>1, <2>3
  <1> QED BY <1>1, <1>2, <1>3

\* An event leaves nothing forgotten that it does not note as missed.
LEMMA RaiseTidy ==
  ASSUME NEW m, NEW pl, NEW w \in Group, Settled(w), Tidy(m, pl, w), NEW ev \in SoundEvent
  PROVE  Tidy(m, pl, Raise(w, ev))
  <1> DEFINE v == Raise(w, ev)
  <1>0. /\ w.undone \subseteq v.undone
        /\ w.run.pc = "idle" =>
             /\ v.run.pc = "start" /\ v.run.ev = ev
             /\ v.missed = w.missed /\ ~Reconciles(w.pending)
        /\ w.run.pc # "idle" =>
             /\ v.run = w.run /\ v.pending = ev
             /\ ~v.missed => ~w.missed /\ (Wanted(w.pending) => Reconciles(ev))
    BY RaiseFields
  <1> HIDE DEF v
  <1>1. Owed(m, pl, v) \subseteq Owed(m, pl, w) BY <1>0 DEF Owed
  <1>2. CASE w.run.pc = "idle"
    <2>1. LeaderOK(m, pl, v) BY <1>0, <1>2 DEF LeaderOK, Active, Audited
    <2>2. TidyOK(m, pl, v)
      BY <1>0, <1>1, <1>2 DEF Tidy, TidyOK, WillDisarm
    <2> QED BY <2>1, <2>2 DEF Tidy, v
  <1>3. CASE w.run.pc # "idle"
    <2>1. Fresh(v) => Fresh(w) BY <1>0, <1>3 DEF Fresh, DueOrLost, Reconciles
    <2>2. LeaderOK(m, pl, v) BY <1>0, <1>3, <2>1 DEF Tidy, LeaderOK
    <2>3. TidyOK(m, pl, v)
      <3> SUFFICES ASSUME ~v.missed, NEW p \in Owed(m, pl, v) PROVE WillDisarm(v, p)
        BY DEF TidyOK
      <3>1. WillDisarm(w, p) BY <1>0, <1>1, <1>3 DEF Tidy, TidyOK
      <3> QED BY <1>0, <1>3, <3>1 DEF WillDisarm, Reconciles
    <2> QED BY <2>2, <2>3 DEF Tidy, v
  <1> QED BY <1>2, <1>3

\* Whatever changed with it, an event that nobody ignores is enough.
LEMMA RaiseReliable ==
  ASSUME NEW m, NEW pl, NEW mn, NEW pn, NEW w \in Group, Settled(w), Tidy(m, pl, w),
         ClosedOK(pn), NEW ev \in SoundEvent, Reconciles(ev)
  PROVE  Tidy(mn, pn, Raise(w, ev))
  <1> DEFINE v == Raise(w, ev)
  <1>0. /\ w.run.pc = "idle" => v.run.pc = "start" /\ v.run.ev = ev
        /\ w.run.pc # "idle" => v.run = w.run /\ v.pending = ev
    BY RaiseFields
  <1> HIDE DEF v
  <1>1. LeaderOK(mn, pn, v)
    BY <1>0 DEF Tidy, LeaderOK, Fresh, DueOrLost, Active, Audited
  <1>2. TidyOK(mn, pn, v) BY <1>0 DEF TidyOK, WillDisarm
  <1>3. Tidy(mn, pn, v) BY <1>1, <1>2 DEF Tidy
  <1> QED BY <1>3 DEF v

\* Pull requests that are the same to the queue, or less armed.
LEMMA SameQueueTidy ==
  ASSUME NEW m, NEW pl, NEW pn, NEW w, Tidy(m, pl, w), ClosedOK(pn),
         w.run.pc \in Active => w.run.leader \in PR,
         \A q \in PR :
            /\ InQ(pn, q) <=> InQ(pl, q)
            /\ InQ(pl, q) => pn[q].draft = pl[q].draft /\ pn[q].tip = pl[q].tip
                             /\ (pn[q].armed # "no" => pl[q].armed # "no")
  PROVE  Tidy(m, pn, w)
  <1>1. \A q \in PR : LeadsIn(pn, q) <=> LeadsIn(pl, q) BY DEF LeadsIn
  <1>2. \A q \in PR : InQ(pl, q) => (HealthyIn(m, pn, q) <=> HealthyIn(m, pl, q))
    BY <1>1 DEF HealthyIn
  <1>3. Owed(m, pn, w) \subseteq Owed(m, pl, w) BY <1>2 DEF Owed
  <1>4. TidyOK(m, pn, w) BY <1>3 DEF Tidy, TidyOK
  <1>5. LeaderOK(m, pn, w) BY <1>1 DEF Tidy, LeaderOK
  <1> QED BY <1>4, <1>5 DEF Tidy

\* A pull request that is not armed owes nothing.
LEMMA UndoneTidy ==
  ASSUME NEW m, NEW pl, NEW w \in Group, Tidy(m, pl, w), NEW p \in PR,
         pl[p].armed = "no"
  PROVE  Tidy(m, pl, [w EXCEPT !.undone = @ \ {p}])
  <1> DEFINE v == [w EXCEPT !.undone = @ \ {p}]
  <1>1. /\ v.run = w.run /\ v.pending = w.pending /\ v.missed = w.missed
        /\ v.undone = w.undone \ {p}
    BY DEF Group
  <1> HIDE DEF v
  <1>2. LeaderOK(m, pl, v) BY <1>1 DEF Tidy, LeaderOK, Fresh, DueOrLost
  <1>3. Owed(m, pl, v) \subseteq Owed(m, pl, w) BY <1>1 DEF Owed
  <1>4. TidyOK(m, pl, v) BY <1>1, <1>3 DEF Tidy, TidyOK, WillDisarm
  <1>5. Tidy(m, pl, v) BY <1>2, <1>4 DEF Tidy
  <1> QED BY <1>5 DEF v

LEMMA DisarmTidy ==
  ASSUME NEW m, NEW pl, NEW w, Sound(pl, w), Tidy(m, pl, w), NEW p \in PR
  PROVE  /\ Tidy(m, [pl EXCEPT ![p].armed = "no"], w)
         /\ [pl EXCEPT ![p].armed = "no"][p].armed = "no"
  <1> DEFINE pn == [pl EXCEPT ![p].armed = "no"]
  <1>0. pl \in [PR -> PullRecord] /\ (w.run.pc \in Active => w.run.leader \in PR)
    BY DEF Sound, RunOK
  <1>1. \A q \in PR : /\ pn[q].open = pl[q].open /\ pn[q].onMain = pl[q].onMain
                      /\ pn[q].labelled = pl[q].labelled /\ pn[q].draft = pl[q].draft
                      /\ pn[q].tip = pl[q].tip
                      /\ (pn[q].armed # "no" => pl[q].armed = pn[q].armed)
    BY <1>0 DEF PullRecord
  <1>2. pn[p].armed = "no" BY <1>0 DEF PullRecord
  <1> HIDE DEF pn
  <1>3. ClosedOK(pn) BY <1>1 DEF Tidy, ClosedOK
  <1>4. Tidy(m, pn, w) BY <1>0, <1>1, <1>3, SameQueueTidy DEF InQ
  <1> QED BY <1>2, <1>4 DEF pn

\* A change of a pull request, with its event.
LEMMA ChangeTidy ==
  ASSUME NEW p \in PR, NEW kind \in Kinds \ {"enabledByApp"}, NEW r \in PullRecord,
         NEW m, NEW pl, NEW w, Sound(pl, w), Tidy(m, pl, w),
         ~r.open => r.armed = "no",
         InQ(pl, p) => r.labelled \/ kind = "unlabeled"
  PROVE  Tidy(m, [pl EXCEPT ![p] = r], Raise(w, About(kind, p, r)))
  <1> DEFINE ev == About(kind, p, r)
             pn == [pl EXCEPT ![p] = r]
  <1>0. /\ pl \in [PR -> PullRecord] /\ w \in Group /\ Settled(w)
        /\ (w.run.pc \in Active => w.run.leader \in PR)
    BY DEF Sound, RunOK
  <1>1. ev \in SoundEvent BY AboutFacts
  <1>2. Reconciles(ev) <=> r.labelled \/ kind \in {"push", "unlabeled"}
    BY DEF Reconciles, Wanted, About
  <1>3. pn[p] = r /\ \A q \in PR : q # p => pn[q] = pl[q] BY <1>0
  <1>4. ClosedOK(pn) BY <1>3 DEF Tidy, ClosedOK
  <1> HIDE DEF pn, ev
  <1>5. CASE Reconciles(ev)
    <2>1. Tidy(m, pn, Raise(w, ev)) BY <1>0, <1>1, <1>4, <1>5, RaiseReliable
    <2> QED BY <2>1 DEF pn, ev
  <1>6. CASE ~Reconciles(ev)
    <2>1. ~InQ(pl, p) /\ ~InQ(pn, p) BY <1>2, <1>3, <1>6 DEF InQ
    <2>2. \A q \in PR :
            /\ InQ(pn, q) <=> InQ(pl, q)
            /\ InQ(pl, q) => pn[q].draft = pl[q].draft /\ pn[q].tip = pl[q].tip
                             /\ (pn[q].armed # "no" => pl[q].armed # "no")
      BY <1>3, <2>1 DEF InQ
    <2>3. Tidy(m, pn, w) BY <1>0, <1>4, <2>2, SameQueueTidy
    <2>4. Tidy(m, pn, Raise(w, ev)) BY <1>0, <1>1, <2>3, RaiseTidy
    <2> QED BY <2>4 DEF pn, ev
  <1> QED BY <1>5, <1>6

\* A merge, with its events.
LEMMA MergeTidy ==
  ASSUME NEW p \in PR, NEW w, Sound(pull, w), Tidy(main, pull, w), DoMerge(p, w),
         pull[p].open
  PROVE  RInv'
  <1> DEFINE ev == About("pull", p, pull[p])
             r == Raise(w, ev)
             pn == [pull EXCEPT ![p].open = FALSE, ![p].armed = "no"]
             u == Merged(w, p)
  <1>0. /\ pull \in [PR -> PullRecord] /\ w \in Group /\ Settled(w)
        /\ (w.run.pc \in Active => w.run.leader \in PR)
    BY DEF Sound, RunOK
  <1>1. ev \in SoundEvent /\ MainEvent \in SoundEvent
    BY <1>0, AboutFacts DEF Kinds
  <1>2. r \in Group /\ Settled(r) BY <1>0, <1>1, RaiseFacts
  <1>3. /\ ~pn[p].open /\ pn[p].armed = "no" /\ \A q \in PR : q # p => pn[q] = pull[q]
        /\ pull' = pn
    BY <1>0 DEF PullRecord, DoMerge
  <1>4. ClosedOK(pn) BY <1>3 DEF Tidy, ClosedOK
  <1>5. u \in Group /\ wf' = [u EXCEPT !.undone = @ \ {p}]
    BY <1>1, <1>2, RaiseFacts DEF Merged, DoMerge
  <1>6. u = (IF pull[p].onMain THEN Raise(r, MainEvent) ELSE r) BY DEF Merged
  <1> HIDE DEF pn, u, ev
  <1>7. CASE pull[p].onMain
    <2>1. Tidy(main, pull, r) BY <1>0, <1>1, RaiseTidy
    <2>2. Reconciles(MainEvent) BY DEF Reconciles, Wanted, MainEvent
    <2> HIDE DEF r
    <2>3. Tidy(main', pn, u) BY <1>1, <1>2, <1>4, <1>6, <1>7, <2>1, <2>2, RaiseReliable
    <2>4. Tidy(main', pn, wf') BY <1>3, <1>5, <2>3, UndoneTidy
    <2> QED BY <1>3, <2>4 DEF RInv
  <1>8. CASE ~pull[p].onMain
    <2>1. \A q \in PR :
            /\ InQ(pn, q) <=> InQ(pull, q)
            /\ InQ(pull, q) => pn[q].draft = pull[q].draft /\ pn[q].tip = pull[q].tip
                               /\ (pn[q].armed # "no" => pull[q].armed # "no")
      BY <1>3, <1>8 DEF InQ
    <2>2. Tidy(main, pn, w) BY <1>0, <1>4, <2>1, SameQueueTidy
    <2>3. Tidy(main, pn, r) BY <1>0, <1>1, <2>2, RaiseTidy
    <2> HIDE DEF r
    <2>4. Tidy(main, pn, wf') BY <1>3, <1>5, <1>6, <1>8, <2>3, UndoneTidy
    <2>5. main' = main BY <1>8 DEF DoMerge
    <2> QED BY <1>3, <2>4, <2>5 DEF RInv
  <1> QED BY <1>7, <1>8

-----------------------------------------------------------------------------
(* Steps of the run. *)

\* The run's first calls: the event's own pull request, then the list.
LEMMA StartTidy ==
  ASSUME QInv, RInv, SkipJob \/ ReconcileEvent, UNCHANGED main
  PROVE  RInv'
  <1>0. /\ Sound(pull, wf) /\ pull \in [PR -> PullRecord] /\ wf \in Group
        /\ wf.run.pc = "start" /\ wf.run.ev \in SoundEvent /\ Tidy(main, pull, wf)
    BY DEF QInv, RInv, Sound, SkipJob, ReconcileEvent, run, Group, RunRecord
  <1>1. CASE SkipJob
    <2>1. ~wf.missed => \A p \in Owed(main, pull, wf) : Reconciles(wf.pending)
      BY <1>0, <1>1 DEF SkipJob, run, Tidy, TidyOK, WillDisarm, Reconciles
    <2>2. Tidy(main, pull, Finish(wf)) BY <1>0, <2>1, FinishTidy
    <2> QED BY <1>1, <2>2 DEF SkipJob, RInv
  <1>2. CASE ReconcileEvent
    <2>1. ASSUME NEW pl, NEW v \in Group, Tidy(main, pl, v), v.run.pc = "start"
          PROVE  Tidy(main, pl, Goto(v, "list"))
      <3> DEFINE u == Goto(v, "list")
      <3>1. /\ u.pending = v.pending /\ u.undone = v.undone /\ u.run.pc = "list"
            /\ u.run.ev = v.run.ev /\ u.missed = v.missed
        BY GotoType, GotoKeeps DEF PCs
      <3> HIDE DEF u
      <3>2. LeaderOK(main, pl, u) BY <3>1 DEF LeaderOK, Active, Audited
      <3>3. Owed(main, pl, u) = Owed(main, pl, v) BY <3>1 DEF Owed
      <3>4. TidyOK(main, pl, u)
        BY <2>1, <3>1, <3>3 DEF Tidy, TidyOK, WillDisarm
      <3>5. Tidy(main, pl, u) BY <2>1, <3>2, <3>4 DEF Tidy
      <3> QED BY <3>5 DEF u
    <2>2. CASE Detaches(wf.run.ev)
      <3> DEFINE p == wf.run.ev.pr
                 v == [wf EXCEPT !.undone = @ \ {p}]
      <3>1. p \in PR BY <1>0, <2>2 DEF SoundEvent
      <3>2. pull' = [pull EXCEPT ![p].armed = "no"] /\ wf' = Goto(v, "list")
        BY <1>2, <2>2 DEF ReconcileEvent, Disarm, run
      <3>3. v \in Group /\ v.run = wf.run BY <1>0 DEF Group
      <3> HIDE DEF p
      <3>4. Tidy(main, pull', wf) /\ pull'[p].armed = "no"
        BY <1>0, <3>1, <3>2, DisarmTidy
      <3>5. Tidy(main, pull', v) BY <1>0, <3>1, <3>4, UndoneTidy
      <3> HIDE DEF v
      <3>6. Tidy(main, pull', wf') BY <1>0, <2>1, <3>2, <3>3, <3>5
      <3> QED BY <3>6 DEF RInv
    <2>3. CASE ~Detaches(wf.run.ev)
      <3>1. pull' = pull /\ wf' = Goto(wf, "list") BY <1>2, <2>3 DEF ReconcileEvent, run
      <3> QED BY <1>0, <2>1, <3>1 DEF RInv
    <2> QED BY <2>2, <2>3
  <1> QED BY <1>1, <1>2

LEMMA ListTidy ==
  ASSUME QInv, RInv, List, UNCHANGED main
  PROVE  RInv'
  <1>0. /\ Sound(pull, wf) /\ pull \in [PR -> PullRecord] /\ wf \in Group
        /\ wf.run.pc = "list" /\ pull' = pull /\ wf.run \in RunRecord
        /\ Tidy(main, pull, wf)
    BY DEF QInv, RInv, Sound, List, run, Group
  <1>q. \A q \in PR : InQ(pull, q) <=> q \in Queue BY DEF InQ, Queue, InQueue
  <1>1. ASSUME Queue = {}, wf' = Finish([wf EXCEPT !.missed = FALSE]) PROVE RInv'
    <2> DEFINE v == [wf EXCEPT !.missed = FALSE]
    <2>1. v \in Group /\ v.run = wf.run BY <1>0 DEF Group
    <2>2. wf' = Finish(v) BY <1>1
    <2> HIDE DEF v
    <2>3. Owed(main, pull, v) = {} BY <1>1, <1>q DEF Owed
    <2>4. LeaderOK(main, pull, v) BY <1>0, <2>1 DEF LeaderOK, Active, Audited
    <2>5. Tidy(main, pull, v) BY <1>0, <2>3, <2>4 DEF Tidy, TidyOK
    <2>6. Tidy(main, pull, Finish(v)) BY <2>1, <2>3, <2>5, FinishTidy
    <2> QED BY <1>0, <2>2, <2>6 DEF RInv
  <1>2. ASSUME OwnEvent(Min(Queue)), wf' = Finish(wf) PROVE RInv'
    <2>1. ~Reconciles(wf.run.ev) BY <1>2 DEF OwnEvent, run, Reconciles
    <2>2. ~wf.missed => \A p \in Owed(main, pull, wf) : Reconciles(wf.pending)
      BY <1>0, <2>1 DEF Tidy, TidyOK, WillDisarm
    <2>3. Tidy(main, pull, Finish(wf)) BY <1>0, <2>2, FinishTidy
    <2> QED BY <1>0, <1>2, <2>3 DEF RInv
  <1>3. ASSUME Queue # {},
               wf' = [wf EXCEPT !.missed = FALSE, !.undone = @ \ Queue,
                        !.run = [@ EXCEPT !.pc = "followers", !.leader = Min(Queue),
                                   !.todo = Queue \ {Min(Queue)},
                                   !.draft = pull[Min(Queue)].draft,
                                   !.tip = pull[Min(Queue)].tip]]
        PROVE  RInv'
    <2> DEFINE p == Min(Queue)
    <2>1. Queue \in SUBSET PR /\ Queue \in SUBSET Nat BY QueueAssumption DEF Queue
    <2>2. p \in Queue /\ \A q \in Queue : p <= q BY <1>3, <2>1, MinIsLeast
    <2>3. wf'.run = [wf.run EXCEPT !.pc = "followers", !.leader = p, !.todo = Queue \ {p},
                       !.draft = pull[p].draft, !.tip = pull[p].tip]
      BY <1>0, <1>3 DEF Group
    <2> HIDE DEF p
    <2>4. /\ wf'.run.pc = "followers" /\ wf'.run.leader = p /\ wf'.run.tip = pull[p].tip
          /\ wf'.run.todo = Queue \ {p} /\ wf'.run.draft = pull[p].draft
      BY <1>0, <2>3 DEF RunRecord
    <2>5. LeadsIn(pull, p) BY <1>q, <2>1, <2>2 DEF LeadsIn
    <2>6. LeaderOK(main, pull, wf') BY <2>4, <2>5 DEF LeaderOK, Audited
    <2>7. TidyOK(main, pull, wf') BY <1>q, <2>4 DEF TidyOK, Owed, WillDisarm
    <2>8. Tidy(main, pull, wf') BY <1>0, <2>6, <2>7 DEF Tidy
    <2> QED BY <1>0, <2>8 DEF RInv
  <1> QED BY <1>1, <1>2, <1>3 DEF List

\* The run disarms what it listed.
LEMMA DisarmsTidy ==
  ASSUME QInv, RInv, DisarmFollower \/ DisarmLeader, UNCHANGED main
  PROVE  RInv'
  <1>0. /\ Sound(pull, wf) /\ pull \in [PR -> PullRecord] /\ wf \in Group
        /\ wf.run.pc = "followers" /\ wf.run \in RunRecord /\ Tidy(main, pull, wf)
        /\ wf.run.leader \in PR
    BY DEF QInv, RInv, Sound, DisarmFollower, DisarmLeader, run, Group, RunOK, Active
  <1>1. CASE DisarmFollower
    <2> DEFINE p == Min(Followers)
    <2>1. p \in PR
      <3>1. Followers \in SUBSET PR BY <1>0 DEF Followers, run, RunRecord
      <3>2. Followers \in SUBSET Nat BY <3>1, QueueAssumption
      <3> QED BY <1>1, <3>1, <3>2, MinIsLeast DEF DisarmFollower
    <2>2. pull' = [pull EXCEPT ![p].armed = "no"] BY <1>1 DEF DisarmFollower, Disarm
    <2>3. /\ wf'.pending = wf.pending /\ wf'.undone = wf.undone /\ wf'.missed = wf.missed
          /\ wf'.run.pc = "followers" /\ wf'.run.leader = wf.run.leader
          /\ wf'.run.tip = wf.run.tip /\ wf'.run.todo = wf.run.todo \ {p}
          /\ wf'.run.draft = wf.run.draft
      BY <1>0, <1>1 DEF DisarmFollower, Group, RunRecord
    <2> HIDE DEF p
    <2>4. Tidy(main, pull', wf) /\ pull'[p].armed = "no"
      BY <1>0, <2>1, <2>2, DisarmTidy
    <2>5. LeaderOK(main, pull', wf')
      BY <1>0, <2>3, <2>4 DEF Tidy, LeaderOK, Fresh, DueOrLost, Audited
    <2>6. Owed(main, pull', wf') = Owed(main, pull', wf)
          /\ p \notin Owed(main, pull', wf)
      BY <2>3, <2>4 DEF Owed
    <2>7. TidyOK(main, pull', wf')
      BY <1>0, <2>3, <2>4, <2>6 DEF Tidy, TidyOK, WillDisarm
    <2>8. Tidy(main, pull', wf') BY <2>4, <2>5, <2>7 DEF Tidy
    <2> QED BY <2>8 DEF RInv
  <1>2. CASE DisarmLeader
    <2> DEFINE p == wf.run.leader
    <2>1. pull' = [pull EXCEPT ![p].armed = "no"] /\ wf.run.todo = {}
      BY <1>2 DEF DisarmLeader, Disarm, run, Followers
    <2>2. Tidy(main, pull', wf) /\ pull'[p].armed = "no"
      BY <1>0, <2>1, DisarmTidy
    <2>3. ~wf.missed => \A q \in Owed(main, pull', wf) : Reconciles(wf.pending)
      <3>1. p \notin Owed(main, pull', wf) BY <2>2 DEF Owed
      <3> QED BY <1>0, <2>1, <2>2, <3>1 DEF Tidy, TidyOK, WillDisarm
    <2>4. CASE wf.run.draft
      <3>1. wf' = Finish(wf) BY <1>2, <2>4 DEF DisarmLeader, run
      <3>2. Tidy(main, pull', Finish(wf)) BY <1>0, <2>2, <2>3, FinishTidy
      <3> QED BY <3>1, <3>2 DEF RInv
    <2>5. CASE ~wf.run.draft
      <3> DEFINE v == Goto(wf, "branch")
      <3>1. wf' = v BY <1>2, <2>5 DEF DisarmLeader, run
      <3>2. /\ v.pending = wf.pending /\ v.undone = wf.undone /\ v.run.pc = "branch"
            /\ v.run.leader = wf.run.leader /\ v.run.tip = wf.run.tip
            /\ v.run.draft = wf.run.draft /\ v.missed = wf.missed
        BY <1>0, GotoType, GotoKeeps DEF PCs
      <3> HIDE DEF v
      <3>3. LeaderOK(main, pull', v)
        BY <1>0, <2>2, <2>5, <3>2 DEF Tidy, LeaderOK, Fresh, DueOrLost, Active, Audited
      <3>4. Owed(main, pull', v) = Owed(main, pull', wf) BY <3>2 DEF Owed
      <3>5. TidyOK(main, pull', v) BY <2>3, <3>2, <3>4 DEF TidyOK, WillDisarm
      <3>6. Tidy(main, pull', v) BY <2>2, <3>3, <3>5 DEF Tidy
      <3> QED BY <3>1, <3>6 DEF RInv
    <2> QED BY <2>4, <2>5
  <1> QED BY <1>1, <1>2

\* The audit and the reads before a mutation.
LEMMA ReadsTidy ==
  ASSUME QInv, RInv, Verify \/ CheckBranch \/ ReadState \/ Done \/ Retry, UNCHANGED main
  PROVE  RInv'
  <1>0. /\ Sound(pull, wf) /\ pull \in [PR -> PullRecord] /\ wf \in Group
        /\ wf.run \in RunRecord /\ Tidy(main, pull, wf) /\ pull' = pull
        /\ wf.run.pc \in {"branch", "again", "state", "done", "retry"}
    BY DEF QInv, RInv, Sound, Verify, CheckBranch, ReadState, Done, Retry, run, Group
  <1>1. Tidy(main, pull, Finish(wf)) BY <1>0, LateFinishTidy
  <1>2. Tidy(main, pull, Fail(wf)) BY <1>0, FailTidy DEF Tidy
  <1>3. ASSUME NEW pc \in {"state", "done", "merge", "arm"},
               wf.run.pc \in {"again", "state", "retry"}
        PROVE  Tidy(main, pull, Goto(wf, pc))
    BY <1>0, <1>3, GotoTidy DEF Active, Audited
  <1>4. ASSUME Verify, wf' = [wf EXCEPT !.run.pc = "again", !.run.base = main]
        PROVE  Tidy(main, pull, wf')
    <2>1. /\ wf'.pending = wf.pending /\ wf'.undone = wf.undone
          /\ wf'.missed = wf.missed /\ wf'.run.draft = wf.run.draft
          /\ wf'.run.pc = "again" /\ wf'.run.leader = wf.run.leader
          /\ wf'.run.tip = wf.run.tip /\ wf'.run.base = main
      BY <1>0, <1>4 DEF Group, RunRecord
    <2>2. wf.run.pc = "branch" BY <1>4 DEF Verify, run
    <2>3. LeaderOK(main, pull, wf')
      BY <1>0, <2>1, <2>2 DEF Tidy, LeaderOK, Fresh, DueOrLost, Active
    <2>4. Owed(main, pull, wf') = Owed(main, pull, wf) BY <2>1 DEF Owed
    <2>5. TidyOK(main, pull, wf')
      BY <1>0, <2>1, <2>2, <2>4 DEF Tidy, TidyOK, WillDisarm
    <2> QED BY <1>0, <2>3, <2>5 DEF Tidy
  <1>5. CASE Verify BY <1>0, <1>1, <1>4, <1>5 DEF Verify, RInv
  <1>6. CASE CheckBranch BY <1>0, <1>1, <1>3, <1>6 DEF CheckBranch, RInv, run
  <1>7. CASE Done BY <1>0, <1>1, <1>7 DEF Done, RInv
  <1>8. CASE Retry BY <1>0, <1>1, <1>2, <1>3, <1>8 DEF Retry, RInv, run
  <1>9. CASE ReadState
    <2>1. CASE wf' = Finish(wf) BY <1>0, <1>1, <2>1 DEF RInv
    <2>2. CASE SameHead
      <3> DEFINE w == [wf EXCEPT !.run.tip = Leading.tip]
      <3>0. wf.run.pc = "state" BY <1>9 DEF ReadState, run
      <3>1. Leading.tip = wf.run.tip
        BY <1>0, <2>2, <3>0 DEF SameHead, Leading, run, Sound, RunOK, Active
      <3>2. w = wf BY <1>0, <3>1 DEF Group, RunRecord
      <3> HIDE DEF w
      <3>3. wf' = Finish(wf) \/ \E pc \in {"done", "merge", "arm"} : wf' = Goto(w, pc)
        BY <1>9 DEF ReadState, w
      <3> QED BY <1>0, <1>1, <1>3, <3>0, <3>2, <3>3 DEF RInv
    <2> QED BY <1>9, <2>1, <2>2 DEF ReadState
  <1> QED BY <1>5, <1>6, <1>7, <1>8, <1>9

\* The leader is armed only while nothing says that it changed.
LEMMA ArmTidy ==
  ASSUME QInv, RInv, Arm, UNCHANGED main
  PROVE  RInv'
  <1> DEFINE l == wf.run.leader
             ev == About("enabledByApp", l, pull[l])
             d == Goto(wf, "done")
             v == Raise(d, ev)
             pn == [pull EXCEPT ![l].armed = "app"]
  <1>0. /\ Sound(pull, wf) /\ pull \in [PR -> PullRecord] /\ wf \in Group
        /\ wf.run \in RunRecord /\ Tidy(main, pull, wf) /\ wf.run.pc = "arm"
        /\ l \in PR /\ wf.run.tip.canon /\ wf.run.tip.upto = wf.run.base
    BY DEF QInv, RInv, Sound, Arm, run, Group, RunOK, Active, Audited
  <1>1. CASE Expected /\ ~Clean(run.leader)
    <2>1. wf' = v /\ pull' = pn /\ pull[l].open
      BY <1>1 DEF Arm, run, Leading, Expected
    <2>2. ev \in SoundEvent /\ ev.kind = "enabledByApp"
      BY <1>0, AboutFacts DEF Kinds, About
    <2>3. /\ d \in Group /\ d.run.pc = "done" /\ d.pending = wf.pending
          /\ d.undone = wf.undone /\ d.missed = wf.missed /\ Settled(d)
          /\ d.run.leader = l
      BY <1>0, GotoType, GotoKeeps DEF PCs, Settled
    <2>4. Tidy(main, pull, d) BY <1>0, GotoTidy DEF Active, Audited
    <2>5. Tidy(main, pull, v) BY <2>2, <2>3, <2>4, RaiseTidy
    <2>6. /\ v.run.leader = l /\ v.run.pc = "done" /\ v.run = d.run
          /\ ~v.missed => ~wf.missed /\ ~Reconciles(wf.pending)
      <3>1. v.run = d.run /\ (~v.missed => ~d.missed /\ (Wanted(d.pending) => Reconciles(ev)))
        BY <2>2, <2>3, RaiseFields
      <3>2. ~Reconciles(ev) BY <2>2 DEF Reconciles
      <3> QED BY <2>3, <3>1, <3>2 DEF Reconciles
    <2>7. /\ \A q \in PR : q # l => pn[q] = pull[q]
          /\ \A q \in PR : /\ pn[q].open = pull[q].open /\ pn[q].onMain = pull[q].onMain
                           /\ pn[q].labelled = pull[q].labelled
                           /\ pn[q].draft = pull[q].draft /\ pn[q].tip = pull[q].tip
      BY <1>0 DEF PullRecord
    <2> HIDE DEF l, ev, d, v, pn
    <2>8. \A q \in PR : InQ(pn, q) <=> InQ(pull, q) BY <2>7 DEF InQ
    <2>9. \A q \in PR : LeadsIn(pn, q) <=> LeadsIn(pull, q) BY <2>8 DEF LeadsIn
    <2>10. \A q \in PR : HealthyIn(main, pn, q) <=> HealthyIn(main, pull, q)
      BY <2>7, <2>9 DEF HealthyIn
    <2>11. ClosedOK(pn) BY <1>0, <2>1, <2>7 DEF Tidy, ClosedOK
    <2>12. LeaderOK(main, pn, v)
      BY <1>0, <2>5, <2>6, <2>7, <2>8, <2>9 DEF Tidy, LeaderOK
    <2>13. ~v.missed /\ InQ(pull, l) => HealthyIn(main, pull, l)
      <3> SUFFICES ASSUME ~v.missed, InQ(pull, l) PROVE HealthyIn(main, pull, l)
        OBVIOUS
      <3>1. Fresh(wf) BY <2>6 DEF Fresh, DueOrLost
      <3>2. /\ LeadsIn(pull, l) /\ pull[l].draft = wf.run.draft
            /\ pull[l].tip = wf.run.tip /\ ~wf.run.draft /\ main = wf.run.base
        BY <1>0, <3>1 DEF Tidy, LeaderOK, Active, Audited, l
      <3> QED BY <1>0, <3>2 DEF HealthyIn
    <2>14. ~v.missed => Owed(main, pn, v) \subseteq Owed(main, pull, v)
      BY <2>7, <2>8, <2>10, <2>13 DEF Owed
    <2>15. TidyOK(main, pn, v) BY <2>5, <2>14 DEF Tidy, TidyOK
    <2>16. Tidy(main, pn, v) BY <2>11, <2>12, <2>15 DEF Tidy
    <2> QED BY <2>1, <2>16 DEF RInv
  <1>2. CASE ~(Expected /\ ~Clean(run.leader))
    <2>1. wf' = Goto(wf, "retry") /\ pull' = pull BY <1>2 DEF Arm
    <2>2. Tidy(main, pull, Goto(wf, "retry")) BY <1>0, GotoTidy DEF Active, Audited
    <2> QED BY <2>1, <2>2 DEF RInv
  <1> QED BY <1>1, <1>2

LEMMA MergeNowTidy ==
  ASSUME QInv, RInv, MergeNow
  PROVE  RInv'
  <1>0. /\ Sound(pull, wf) /\ wf \in Group /\ Tidy(main, pull, wf)
        /\ wf.run.pc = "merge" /\ wf.run.leader \in PR /\ wf.run.todo = {}
    BY DEF QInv, RInv, Sound, MergeNow, run, RunOK, Active
  <1>1. CASE Expected /\ Clean(run.leader)
    <2>1. DoMerge(wf.run.leader, Goto(wf, "done")) /\ pull[wf.run.leader].open
      BY <1>1 DEF MergeNow, run, Clean
    <2>2. Sound(pull, Goto(wf, "done"))
      BY <1>0, GotoSound DEF PCs, Active, Audited
    <2>3. Tidy(main, pull, Goto(wf, "done")) BY <1>0, GotoTidy DEF Active, Audited
    <2> QED BY <1>0, <2>1, <2>2, <2>3, MergeTidy
  <1>2. CASE ~(Expected /\ Clean(run.leader))
    <2>1. wf' = Fail(wf) /\ pull' = pull /\ main' = main BY <1>2 DEF MergeNow
    <2>2. Tidy(main, pull, Fail(wf)) BY <1>0, FailTidy DEF Tidy
    <2> QED BY <2>1, <2>2 DEF RInv
  <1> QED BY <1>1, <1>2

-----------------------------------------------------------------------------
(* Every step. *)

LEMMA ChangesTidy ==
  ASSUME QInv, RInv, NEW p \in PR, NEW canon \in BOOLEAN, NEW upto \in 1..main,
         \/ Label(p) \/ Unlabel(p) \/ ToggleDraft(p) \/ Retarget(p) \/ UserArms(p)
         \/ CloseUnmerged(p) \/ PushHead(p, canon, upto)
  PROVE  RInv'
  <1>0. /\ Sound(pull, wf) /\ Tidy(main, pull, wf) /\ pull[p] \in PullRecord
        /\ upto \in Nat /\ pull[p].tip.n \in Nat
    BY DEF QInv, RInv, Sound, PullRecord, LTip
  <1>1. ASSUME NEW kind \in Kinds \ {"enabledByApp"}, NEW r \in PullRecord,
               Change(p, kind, r), ~r.open => r.armed = "no",
               InQ(pull, p) => r.labelled \/ kind = "unlabeled"
        PROVE  RInv'
    <2>1. Tidy(main, [pull EXCEPT ![p] = r], Raise(wf, About(kind, p, r)))
      BY <1>0, <1>1, ChangeTidy
    <2> QED BY <1>1, <2>1 DEF Change, RInv
  <1>2. InQ(pull, p) => pull[p].labelled BY DEF InQ
  <1>3. CASE Label(p)
    <2> DEFINE r == [pull[p] EXCEPT !.labelled = TRUE]
    <2>1. Change(p, "pull", r) /\ pull[p].open BY <1>3 DEF Label, Change
    <2>2. r \in PullRecord /\ r.open = pull[p].open /\ r.labelled BY <1>0 DEF PullRecord
    <2> HIDE DEF r
    <2> QED BY <1>1, <2>1, <2>2 DEF Kinds
  <1>4. CASE Unlabel(p)
    <2> DEFINE r == [pull[p] EXCEPT !.labelled = FALSE]
    <2>1. Change(p, "unlabeled", r) /\ pull[p].open BY <1>4 DEF Unlabel, Change
    <2>2. r \in PullRecord /\ r.open = pull[p].open BY <1>0 DEF PullRecord
    <2> HIDE DEF r
    <2> QED BY <1>1, <2>1, <2>2 DEF Kinds
  <1>5. CASE ToggleDraft(p)
    <2> DEFINE r == [pull[p] EXCEPT !.draft = ~@]
    <2>1. Change(p, "pull", r) /\ pull[p].open BY <1>5 DEF ToggleDraft, Change
    <2>2. r \in PullRecord /\ r.open = pull[p].open /\ r.labelled = pull[p].labelled
      BY <1>0 DEF PullRecord
    <2> HIDE DEF r
    <2> QED BY <1>1, <1>2, <2>1, <2>2 DEF Kinds
  <1>6. CASE Retarget(p)
    <2> DEFINE r == [pull[p] EXCEPT !.onMain = ~@]
    <2>1. Change(p, "pull", r) /\ pull[p].open BY <1>6 DEF Retarget, Change
    <2>2. r \in PullRecord /\ r.open = pull[p].open /\ r.labelled = pull[p].labelled
      BY <1>0 DEF PullRecord
    <2> HIDE DEF r
    <2> QED BY <1>1, <1>2, <2>1, <2>2 DEF Kinds
  <1>7. CASE UserArms(p)
    <2> DEFINE r == [pull[p] EXCEPT !.armed = "user"]
    <2>1. Change(p, "enabled", r) /\ pull[p].open BY <1>7 DEF UserArms, Change
    <2>2. r \in PullRecord /\ r.open = pull[p].open /\ r.labelled = pull[p].labelled
      BY <1>0 DEF PullRecord
    <2> HIDE DEF r
    <2> QED BY <1>1, <1>2, <2>1, <2>2 DEF Kinds
  <1>8. CASE CloseUnmerged(p)
    <2> DEFINE r == [pull[p] EXCEPT !.open = FALSE, !.armed = "no"]
    <2>1. Change(p, "pull", r) BY <1>8 DEF CloseUnmerged
    <2>2. r \in PullRecord /\ r.armed = "no" /\ r.labelled = pull[p].labelled
      BY <1>0 DEF PullRecord
    <2> HIDE DEF r
    <2> QED BY <1>1, <1>2, <2>1, <2>2 DEF Kinds
  <1>9. CASE PushHead(p, canon, upto)
    <2> DEFINE t == [n |-> pull[p].tip.n + 1, canon |-> canon, upto |-> upto]
               r == [pull[p] EXCEPT !.green = FALSE, !.tip = t]
    <2>1. t \in LTip BY <1>0 DEF LTip
    <2>2. Change(p, "pull", r) /\ pull[p].open BY <1>9 DEF PushHead, Change
    <2> HIDE DEF t
    <2>3. r \in PullRecord /\ r.open = pull[p].open /\ r.labelled = pull[p].labelled
      BY <1>0, <2>1 DEF PullRecord
    <2> HIDE DEF r
    <2> QED BY <1>1, <1>2, <2>2, <2>3 DEF Kinds
  <1> QED BY <1>3, <1>4, <1>5, <1>6, <1>7, <1>8, <1>9

LEMMA NextTidy == QInv /\ RInv /\ [Next]_vars => RInv'
  <1> SUFFICES ASSUME QInv, RInv, [Next]_vars PROVE RInv' OBVIOUS
  <1>0. /\ Sound(pull, wf) /\ pull \in [PR -> PullRecord] /\ wf \in Group /\ Settled(wf)
        /\ Tidy(main, pull, wf) /\ main \in Nat \ {0}
        /\ (wf.run.pc \in Active => wf.run.leader \in PR)
    BY DEF QInv, RInv, Sound, RunOK
  <1>1. CASE Controller
    <2>1. CASE MergeNow BY <2>1, MergeNowTidy
    <2>2. CASE Arm /\ UNCHANGED main BY <2>2, ArmTidy
    <2> QED BY <1>1, <2>1, <2>2, StartTidy, ListTidy, DisarmsTidy, ReadsTidy
            DEF Controller
  <1>2. CASE RunFails
    <2> DEFINE v == IF run.pc = "start" /\ Detaches(run.ev)
                    THEN [wf EXCEPT !.undone = @ \cup {run.ev.pr}] ELSE wf
    <2>1. run.pc = "start" /\ Detaches(run.ev) => run.ev.pr \in PR
      BY <1>0 DEF run, Group, RunRecord, SoundEvent
    <2>2. v \in Group BY <1>0, <2>1 DEF Group
    <2>3. wf' = Fail(v) /\ pull' = pull /\ main' = main BY <1>2 DEF RunFails
    <2> HIDE DEF v
    <2>4. Tidy(main, pull, Fail(v)) BY <1>0, <2>2, FailTidy DEF Tidy
    <2> QED BY <2>3, <2>4 DEF RInv
  <1>3. ASSUME NEW p \in PR, NEW b \in BOOLEAN, pull' = [pull EXCEPT ![p].green = b],
               wf' = wf, main' = main
        PROVE  RInv'
    <2>1. \A q \in PR : /\ pull'[q].open = pull[q].open /\ pull'[q].draft = pull[q].draft
                        /\ pull'[q].onMain = pull[q].onMain /\ pull'[q].tip = pull[q].tip
                        /\ pull'[q].labelled = pull[q].labelled
                        /\ pull'[q].armed = pull[q].armed
      BY <1>0, <1>3 DEF PullRecord
    <2>2. \A q \in PR : InQ(pull', q) <=> InQ(pull, q) BY <2>1 DEF InQ
    <2>3. ClosedOK(pull') BY <1>0, <2>1 DEF Tidy, ClosedOK
    <2>4. Tidy(main, pull', wf) BY <1>0, <2>1, <2>2, <2>3, SameQueueTidy
    <2> QED BY <1>3, <2>4 DEF RInv
  <1>4. CASE People
    <2>1. CASE PushMain
      <3>1. MainEvent \in SoundEvent /\ Reconciles(MainEvent)
        BY DEF MainEvent, SoundEvent, Event, Detaches, Kinds, Reconciles, Wanted
      <3>2. Tidy(main', pull, Raise(wf, MainEvent))
        BY <1>0, <3>1, RaiseReliable DEF Tidy
      <3> QED BY <2>1, <3>2 DEF PushMain, RInv
    <2>2. 1 \in 1..main /\ TRUE \in BOOLEAN
      <3>1. main >= 1 BY <1>0
      <3> QED BY <1>0, <3>1
    <2>3. ASSUME NEW p \in PR, Recheck(p) PROVE RInv' BY <1>3, <2>3 DEF Recheck
    <2>4. ASSUME NEW p \in PR, \/ Label(p) \/ Unlabel(p) \/ ToggleDraft(p) \/ Retarget(p)
                                \/ UserArms(p) \/ CloseUnmerged(p)
          PROVE  RInv'
      BY <2>2, <2>4, ChangesTidy
    <2>5. ASSUME NEW p \in PR, NEW canon \in BOOLEAN, NEW upto \in 1..main,
                 PushHead(p, canon, upto)
          PROVE  RInv'
      BY <2>5, ChangesTidy
    <2> QED BY <1>4, <2>1, <2>3, <2>4, <2>5 DEF People
  <1>5. ASSUME NEW p \in PR, ChecksPass(p) \/ AutoMerge(p) PROVE RInv'
    <2>1. CASE ChecksPass(p) BY <1>3, <2>1 DEF ChecksPass
    <2>2. CASE AutoMerge(p)
      <3>1. DoMerge(p, wf) /\ pull[p].open BY <2>2 DEF AutoMerge, Clean
      <3> QED BY <1>0, <3>1, MergeTidy
    <2> QED BY <1>5, <2>1, <2>2
  <1>6. CASE UNCHANGED vars BY <1>6 DEF vars, RInv, Tidy, ClosedOK, LeaderOK, TidyOK, Owed
  <1> QED BY <1>1, <1>2, <1>4, <1>5, <1>6 DEF Next

\* An idle queue has nothing armed but its audited, current leader: whatever else
\* was armed has been disarmed by a run, unless a run that had to do it failed or
\* was replaced by one that does less.
THEOREM ReconcilesTheQueue == Spec => []Reconciled
  <1>1. Init => RInv
    <2> SUFFICES ASSUME Init PROVE RInv OBVIOUS
    <2>1. \A p \in PR : pull[p].armed = "no" BY DEF Init
    <2>2. wf.run.pc = "start"
      <3>1. MainEvent \in SoundEvent
        BY DEF MainEvent, SoundEvent, Event, Detaches, Kinds
      <3> QED BY <3>1, BegunType DEF Init
    <2>3. LeaderOK(main, pull, wf) BY <2>2 DEF LeaderOK, Active, Audited
    <2>4. TidyOK(main, pull, wf) BY <2>1 DEF TidyOK, Owed
    <2> QED BY <2>1, <2>3, <2>4 DEF RInv, Tidy, ClosedOK
  <1>2. QInv /\ RInv => Reconciled
    <2> SUFFICES ASSUME QInv, RInv, Quiet, ~wf.missed, NEW p \in PR \ wf.undone
                 PROVE  /\ InQueue(p) /\ pull[p].armed # "no" => Healthy(p)
                        /\ pull[p].armed = "app" => InQueue(p)
      BY DEF Reconciled
    <2>1. wf.run.pc = "idle" /\ wf.pending = NoEvent
      BY DEF Quiet, run, QInv, Sound, Settled
    <2>2. ~Reconciles(wf.pending) /\ ~Detaches(wf.pending)
      BY <2>1 DEF Reconciles, Wanted, Detaches, NoEvent
    <2>3. p \notin Owed(main, pull, wf)
      BY <2>1, <2>2 DEF RInv, Tidy, TidyOK, WillDisarm
    <2>4. InQueue(p) /\ pull[p].armed # "no" => Healthy(p)
      BY <2>3 DEF Owed, HealthyIn, LeadsIn, InQ, InQueue, Healthy, Leads
    <2>5. pull[p].armed = "app" => InQueue(p)
      <3>1. ~CoveredIn(wf, p) BY <2>1, <2>2 DEF CoveredIn
      <3>2. pull[p].armed = "app" => pull[p].open BY DEF RInv, Tidy, ClosedOK
      <3> QED BY <3>1, <3>2 DEF QInv, Sound, ArmedOK, InQ, InQueue
    <2> QED BY <2>4, <2>5
  <1> QED BY <1>1, <1>2, InitSound, NextSound, NextTidy, PTL DEF Spec
=============================================================================
