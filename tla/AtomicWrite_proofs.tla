-------------------------- MODULE AtomicWrite_proofs --------------------------
(***************************************************************************)
(* AtomicWrite implements AtomicFile, for any number of calls of any mix   *)
(* of the write functions.  Most steps leave the abstract state as it is:  *)
(* a call works on a file that nobody can see yet.  The inductive          *)
(* invariant says so (CallInv), and which functions reach which steps.     *)
(* The two other invariants of the run follow from it, with a strengthening  *)
(* of its own (TempInv) and with none.                                     *)
(***************************************************************************)
EXTENDS AtomicWrite, TLAPS

\* Steps at which the file of a call is not, and never was, at the path.
Unplaced == {"lstat", "open", "temp", "write", "commit", "create"}

CallInv(w) ==
    /\ pc[w] \in {"create", "fillNew", "check", "withdraw"} => w \in Exclusive
    /\ pc[w] \in {"revalidate", "truncate", "fill"} => w \in Fallback /\ pin[w] # None
    /\ pc[w] \in Unplaced => target # w /\ \A v \in Writer : pin[v] # w
    /\ pc[w] \in Unplaced \ {"commit"} => data[w] = Torn
    /\ pc[w] = "commit" => data[w] = w
    /\ pc[w] = "lstat" => pin[w] = None
    /\ pc[w] \in {"cleanup", "done"} => res[w] \in {"ok", "error"}
    /\ pc[w] = "withdraw" => res[w] = "error"
    /\ pc[w] \notin {"cleanup", "withdraw", "done"} => res[w] = "none"

\* Only a call that opened it changes what somebody else wrote.
ForeignIntact == data[Foreign] = Foreign \/ \E w \in Writer : pin[w] = Foreign

IInv == TypeOK /\ (\A w \in Writer : CallInv(w)) /\ ForeignIntact

-----------------------------------------------------------------------------
(* The invariant. *)

\* Initially no call has done anything.
LEMMA InitInv == Init => IInv
  BY ConstantsAssumption
  DEF Init, IInv, TypeOK, CallInv, ForeignIntact, Unplaced, Content, Inode, PCs, Exclusive, Replacing

\* The type invariant is kept by every step of a call.
LEMMA StepType == ASSUME IInv, NEW w \in Writer, Step(w) PROVE TypeOK'
  <1> USE ConstantsAssumption DEF IInv, TypeOK, Goto, Result, Return, Defer, Fault, disk, rest,
        Inode, Content, PCs
  <1>1. CASE Lstat(w) BY <1>1 DEF Lstat
  <1>2. CASE OpenTarget(w) BY <1>2 DEF OpenTarget
  <1>3. CASE OpenChanged(w) BY <1>3 DEF OpenChanged
  <1>4. CASE CreateTemp(w) BY <1>4 DEF CreateTemp
  <1>5. CASE WriteTemp(w) BY <1>5 DEF WriteTemp
  <1>6. CASE FallBack(w) BY <1>6 DEF FallBack
  <1>7. CASE FailTemp(w) BY <1>7 DEF FailTemp, AfterTempError
  <1>8. CASE Cleanup(w) BY <1>8 DEF Cleanup
  <1>9. CASE FailCleanup(w) BY <1>9 DEF FailCleanup
  <1>10. CASE Rename(w) BY <1>10 DEF Rename
  <1>11. CASE Link(w) BY <1>11 DEF Link
  <1>12. CASE LinkExists(w) BY <1>12 DEF LinkExists
  <1>13. CASE Unlink(w) BY <1>13 DEF Unlink
  <1>14. CASE FailUnlink(w) BY <1>14 DEF FailUnlink
  <1>15. CASE Verify(w) BY <1>15 DEF Verify
  <1>16. CASE Revalidate(w) BY <1>16 DEF Revalidate
  <1>17. CASE Truncate(w) BY <1>17 DEF Truncate
  <1>18. CASE Fill(w) BY <1>18 DEF Fill, Written, Mixing, CallInv
  <1>19. CASE FailOverwrite(w) BY <1>19 DEF FailOverwrite
  <1>20. CASE LstatNew(w) BY <1>20 DEF LstatNew
  <1>21. CASE Create(w) BY <1>21 DEF Create
  <1>22. CASE FillNew(w) BY <1>22 DEF FillNew, Written, Mixing
  <1>23. CASE FailFillNew(w) BY <1>23 DEF FailFillNew, AfterFillError
  <1>24. CASE Withdraw(w) BY <1>24 DEF Withdraw
  <1>25. CASE FailWithdraw(w) BY <1>25 DEF FailWithdraw
  <1>26. CASE Check(w) BY <1>26 DEF Check
  <1>27. CASE FailEarly(w) BY <1>27 DEF FailEarly
  <1>28. CASE Crash(w) BY <1>28 DEF Crash
  <1> QED BY <1>1, <1>2, <1>3, <1>4, <1>5, <1>6, <1>7, <1>8, <1>9, <1>10, <1>11, <1>12,
        <1>13, <1>14, <1>15, <1>16, <1>17, <1>18, <1>19, <1>20, <1>21, <1>22, <1>23, <1>24,
        <1>25, <1>26, <1>27, <1>28 DEF Step

\* What a call knows is kept by its own steps and by those of the others.
LEMMA StepCalls ==
  ASSUME IInv, NEW w \in Writer, Step(w), NEW u \in Writer PROVE CallInv(u)'
  <1> USE ConstantsAssumption DEF IInv, TypeOK, CallInv, Unplaced, Goto, Result, Return, Defer,
        disk, rest, Inode, Replacing, Fallback, Publishing, Exclusive, Renaming
  <1>1. CASE Lstat(w) BY <1>1 DEF Lstat
  <1>2. CASE OpenTarget(w) BY <1>2 DEF OpenTarget
  <1>3. CASE OpenChanged(w) BY <1>3 DEF OpenChanged
  <1>4. CASE CreateTemp(w) BY <1>4 DEF CreateTemp
  <1>5. CASE WriteTemp(w) BY <1>5 DEF WriteTemp
  <1>6. CASE FallBack(w) BY <1>6 DEF FallBack, MayOverwrite
  <1>7. CASE FailTemp(w) BY <1>7 DEF FailTemp, AfterTempError
  <1>8. CASE Cleanup(w) BY <1>8 DEF Cleanup
  <1>9. CASE FailCleanup(w) BY <1>9 DEF FailCleanup
  <1>10. CASE Rename(w) BY <1>10 DEF Rename
  <1>11. CASE Link(w) BY <1>11 DEF Link, PathFree
  <1>12. CASE LinkExists(w) BY <1>12 DEF LinkExists, PathFree
  <1>13. CASE Unlink(w) BY <1>13 DEF Unlink
  <1>14. CASE FailUnlink(w) BY <1>14 DEF FailUnlink
  <1>15. CASE Verify(w) BY <1>15 DEF Verify
  <1>16. CASE Revalidate(w) BY <1>16 DEF Revalidate
  <1>17. CASE Truncate(w) BY <1>17 DEF Truncate
  <1>18. CASE Fill(w) BY <1>18 DEF Fill, Written
  <1>19. CASE FailOverwrite(w) BY <1>19 DEF FailOverwrite
  <1>20. CASE LstatNew(w) BY <1>20 DEF LstatNew
  <1>21. CASE Create(w) BY <1>21 DEF Create
  <1>22. CASE FillNew(w) BY <1>22 DEF FillNew, Written
  <1>23. CASE FailFillNew(w) BY <1>23 DEF FailFillNew, AfterFillError
  <1>24. CASE Withdraw(w) BY <1>24 DEF Withdraw
  <1>25. CASE FailWithdraw(w) BY <1>25 DEF FailWithdraw
  <1>26. CASE Check(w) BY <1>26 DEF Check
  <1>27. CASE FailEarly(w) BY <1>27 DEF FailEarly
  <1>28. CASE Crash(w) BY <1>28 DEF Crash
  <1> QED BY <1>1, <1>2, <1>3, <1>4, <1>5, <1>6, <1>7, <1>8, <1>9, <1>10, <1>11, <1>12,
        <1>13, <1>14, <1>15, <1>16, <1>17, <1>18, <1>19, <1>20, <1>21, <1>22, <1>23, <1>24,
        <1>25, <1>26, <1>27, <1>28 DEF Step

\* A call that empties or writes a file of somebody else has opened it.
LEMMA StepForeign == ASSUME IInv, NEW w \in Writer, Step(w) PROVE ForeignIntact'
  <1> USE ConstantsAssumption DEF IInv, TypeOK, CallInv, ForeignIntact, Goto, Defer, Return, disk,
        rest, Inode
  <1>1. ASSUME UNCHANGED data, UNCHANGED pin PROVE ForeignIntact' BY <1>1
  <1>2. CASE Lstat(w) BY <1>2 DEF Lstat
  <1>3. CASE WriteTemp(w) BY <1>3 DEF WriteTemp
  <1>4. CASE Truncate(w) BY <1>4 DEF Truncate
  <1>5. CASE Fill(w) BY <1>5 DEF Fill, Written
  <1>6. CASE FillNew(w) BY <1>6 DEF FillNew, Written
  <1> QED BY <1>1, <1>2, <1>3, <1>4, <1>5, <1>6
        DEF Step, OpenTarget, OpenChanged, CreateTemp, FallBack, FailTemp, Cleanup, FailCleanup, Rename, Link, LinkExists, Unlink, FailUnlink, Verify, Revalidate, FailOverwrite, LstatNew, Create, FailFillNew, Withdraw, FailWithdraw, Check, FailEarly, Crash

\* Somebody else at work keeps the invariant.
LEMMA OutsideInv == IInv /\ Outside => IInv'
  BY ConstantsAssumption
  DEF IInv, TypeOK, CallInv, ForeignIntact, Outside, Fault, Inode, Unplaced, Exclusive, Fallback

\* The invariant is inductive.
LEMMA NextInv == IInv /\ [Next]_vars => IInv'
  <1> SUFFICES ASSUME IInv, [Next]_vars PROVE IInv' OBVIOUS
  <1>1. ASSUME NEW w \in Writer, Step(w) PROVE IInv'
    BY <1>1, StepType, StepCalls, StepForeign DEF IInv
  <1>2. CASE Outside BY <1>2, OutsideInv
  <1>3. CASE UNCHANGED vars
    BY <1>3 DEF vars, IInv, TypeOK, CallInv, ForeignIntact
  <1> QED BY <1>1, <1>2, <1>3 DEF Next

\* The inductive invariant holds throughout.
THEOREM Invariance == Spec => []IInv
  BY InitInv, NextInv, PTL DEF Spec

\* Type correctness of AtomicWrite.
THEOREM TypeCorrect == Spec => []TypeOK
  <1>1. IInv => TypeOK BY DEF IInv
  <1> QED BY <1>1, Invariance, PTL

-----------------------------------------------------------------------------
(* The refinement. *)

\* Initially the path holds no file or the old one.
LEMMA InitRefines == Init => A!Init
  BY ConstantsAssumption DEF Init, A!Init, File, Stages, Stage, Inode, Replacing, Publishing, Exclusive

\* A step of one call changes at most the stage of this call.
LEMMA OneStage ==
  ASSUME NEW w \in Writer, IInv,
         \A u \in Writer \ {w} : pc'[u] = pc[u] /\ res'[u] = res[u]
  PROVE  Stages' = [Stages EXCEPT ![w] = Stage(w)']
  <1>1. \A u \in Writer \ {w} : Stage(u)' = Stage(u) BY DEF Stage
  <1>2. Stages' = [u \in Writer |-> Stage(u)'] BY DEF Stages
  <1> QED BY <1>1, <1>2 DEF Stages

\* Every step of a call is one that AtomicFile allows.
LEMMA StepRefines ==
  ASSUME IInv, NEW w \in Writer, Step(w) PROVE [A!Next]_<<File, Stages>>
  <1> DEFINE S == Stage(w)
             Only == \A u \in Writer \ {w} : pc'[u] = pc[u] /\ res'[u] = res[u]
  <1> USE ConstantsAssumption
  <1>0. Only
    BY DEF IInv, TypeOK, Step, Goto, Result, Return, Defer, rest, disk,
       Lstat, OpenTarget, OpenChanged, CreateTemp, WriteTemp, FallBack, FailTemp, Cleanup,
       FailCleanup, Rename, Link, LinkExists, Unlink, FailUnlink, Verify, Revalidate, Truncate,
       Fill, FailOverwrite, LstatNew, Create, FillNew, FailFillNew, Withdraw, FailWithdraw,
       Check, FailEarly, Crash
  <1>1. Stages' = [Stages EXCEPT ![w] = S'] /\ Stages[w] = S /\ DOMAIN Stages = Writer
    BY <1>0, OneStage DEF Stages
  \* The abstract steps, in terms of File and of the stage of w.
  <1>2. ASSUME File' = File, S' = S PROVE UNCHANGED <<File, Stages>>
    BY <1>1, <1>2 DEF Stages
  <1>3. ASSUME File' = File, S' = "error", S \in {"called", "open", "placed"}
        PROVE  A!Next
    BY <1>1, <1>3 DEF A!Next, A!Return, Stages
  <1>4. ASSUME File' = File, S' = "ok", S = "placed" PROVE A!Next
    BY <1>1, <1>4 DEF A!Next, A!Return, Stages
  <1>5. ASSUME File' = w, S = "called", S' = "placed",
               w \in Publishing \cup Exclusive => File = None
        PROVE  A!Next
    BY <1>1, <1>5 DEF A!Next, A!Place, Stages
  <1>6. ASSUME File' \in {Torn, File}, S = "called", S' = "open", w \in Fallback \cup Exclusive,
               w \in Publishing \cup Exclusive => File = None
        PROVE  A!Next
    BY <1>1, <1>6 DEF A!Next, A!Open, Stages
  <1>7. ASSUME File' \in {w, File} \/ (File # Torn /\ File' = Torn),
               S = "open", S' = "placed", w \in Fallback \cup Exclusive
        PROVE  A!Next
    BY <1>1, <1>7 DEF A!Next, A!Fill, Stages
  <1>8. ASSUME File' = None, S = "open", S' = "error", w \in Exclusive PROVE A!Next
    BY <1>1, <1>8 DEF A!Next, A!Withdraw, Stages
  \* What each step does to them.
  <1> USE ConstantsAssumption DEF IInv, TypeOK, CallInv, Unplaced, Stage, File, Goto, Result, Return, Defer, disk, rest,
          Inode, Replacing, Renaming, Fallback, Publishing, Exclusive
  <1>9. CASE Lstat(w) BY <1>9, <1>2 DEF Lstat
  <1>10. CASE OpenTarget(w) BY <1>10, <1>2 DEF OpenTarget
  <1>11. CASE OpenChanged(w) BY <1>11, <1>3 DEF OpenChanged
  <1>12. CASE CreateTemp(w) BY <1>12, <1>2 DEF CreateTemp
  <1>13. CASE WriteTemp(w) BY <1>13, <1>2 DEF WriteTemp
  <1>14. CASE FallBack(w) BY <1>14, <1>2 DEF FallBack, MayOverwrite
  <1>15. CASE FailTemp(w) BY <1>15, <1>3 DEF FailTemp, AfterTempError
  <1>16. CASE Cleanup(w) BY <1>16, <1>2, <1>4 DEF Cleanup
  <1>17. CASE FailCleanup(w) BY <1>17, <1>2, <1>3 DEF FailCleanup
  <1>18. CASE Rename(w) BY <1>18, <1>5 DEF Rename
  <1>19. CASE Link(w) BY <1>19, <1>5 DEF Link, PathFree
  <1>20. CASE LinkExists(w) BY <1>20, <1>3 DEF LinkExists, PathFree
  <1>21. CASE Unlink(w) BY <1>21, <1>2 DEF Unlink
  <1>22. CASE FailUnlink(w) BY <1>22, <1>3 DEF FailUnlink
  <1>23. CASE Verify(w) BY <1>23, <1>3, <1>4 DEF Verify
  <1>24. CASE Revalidate(w) BY <1>24, <1>2, <1>3 DEF Revalidate
  <1>25. CASE Truncate(w) BY <1>25, <1>6 DEF Truncate
  <1>26. CASE Fill(w) BY <1>26, <1>7 DEF Fill, Written
  <1>27. CASE FailOverwrite(w) BY <1>27, <1>3 DEF FailOverwrite
  <1>28. CASE LstatNew(w) BY <1>28, <1>2, <1>3 DEF LstatNew
  <1>29. CASE Create(w) BY <1>29, <1>3, <1>6 DEF Create
  <1>30. CASE FillNew(w) BY <1>30, <1>7 DEF FillNew, Written
  <1>31. CASE FailFillNew(w) BY <1>31, <1>2 DEF FailFillNew, AfterFillError
  <1>32. CASE Withdraw(w) BY <1>32, <1>8 DEF Withdraw
  <1>33. CASE FailWithdraw(w) BY <1>33, <1>3 DEF FailWithdraw
  <1>34. CASE Check(w) BY <1>34, <1>3, <1>4 DEF Check
  <1>35. CASE FailEarly(w) BY <1>35, <1>3 DEF FailEarly
  <1>36. CASE Crash(w) BY <1>36, <1>2, <1>3 DEF Crash
  <1> QED BY <1>9, <1>10, <1>11, <1>12, <1>13, <1>14, <1>15, <1>16, <1>17, <1>18, <1>19,
        <1>20, <1>21, <1>22, <1>23, <1>24, <1>25, <1>26, <1>27, <1>28, <1>29, <1>30, <1>31,
        <1>32, <1>33, <1>34, <1>35, <1>36 DEF Step

\* Somebody else removes the file or puts a new one there.
LEMMA OutsideRefines == IInv /\ Outside => [A!Next]_<<File, Stages>>
  <1> SUFFICES ASSUME IInv, Outside PROVE A!Next OBVIOUS
  <1>1. File' \in {None, Foreign}
    BY ConstantsAssumption DEF IInv, TypeOK, ForeignIntact, Outside, File, Inode
  <1>2. Stages' = Stages BY DEF Stages, Stage, Outside
  <1> QED BY <1>1, <1>2 DEF A!Next, A!Outside, Stages

\* The write functions keep the promises of AtomicFile, whatever calls meet on
\* a path: a reader sees an incomplete file only from the two that write in
\* place, a call that must not replace a file does not, and success is reported
\* only for what was placed.
THEOREM Refinement == Spec => Implements
  <1>1. IInv /\ [Next]_vars => [A!Next]_<<File, Stages>>
    <2> SUFFICES ASSUME IInv, [Next]_vars PROVE [A!Next]_<<File, Stages>> OBVIOUS
    <2>1. ASSUME NEW w \in Writer, Step(w) PROVE [A!Next]_<<File, Stages>>
      BY <2>1, StepRefines
    <2>2. CASE Outside BY <2>2, OutsideRefines
    <2>3. CASE UNCHANGED vars BY <2>3 DEF vars, File, Stages, Stage
    <2> QED BY <2>1, <2>2, <2>3 DEF Next
  <1> QED BY <1>1, InitRefines, Invariance, PTL DEF Spec, Implements, A!Spec

-----------------------------------------------------------------------------
(* Temporary files and incomplete files. *)

\* The steps at which a call still has its deferred removal before it.
TempHeld == {"write", "commit", "unlink", "revalidate", "truncate", "fill", "cleanup"}

TempInv == \A u \in temps : pc[u] \in TempHeld \/ u \in broken

LEMMA StepTemps ==
  ASSUME IInv, TempInv, NEW w \in Writer, Step(w) PROVE TempInv'
  <1> USE DEF IInv, TypeOK, TempInv, TempHeld, Goto, Return, Defer, disk, rest
  <1>1. CASE Lstat(w) BY <1>1 DEF Lstat
  <1>2. CASE OpenTarget(w) BY <1>2 DEF OpenTarget
  <1>3. CASE OpenChanged(w) BY <1>3 DEF OpenChanged
  <1>4. CASE CreateTemp(w) BY <1>4 DEF CreateTemp
  <1>5. CASE WriteTemp(w) BY <1>5 DEF WriteTemp
  <1>6. CASE FallBack(w) BY <1>6 DEF FallBack, MayOverwrite
  <1>7. CASE FailTemp(w) BY <1>7 DEF FailTemp, AfterTempError
  <1>8. CASE Cleanup(w) BY <1>8 DEF Cleanup
  <1>9. CASE FailCleanup(w) BY <1>9 DEF FailCleanup
  <1>10. CASE Rename(w) BY <1>10 DEF Rename
  <1>11. CASE Link(w) BY <1>11 DEF Link, PathFree
  <1>12. CASE LinkExists(w) BY <1>12 DEF LinkExists, PathFree
  <1>13. CASE Unlink(w) BY <1>13 DEF Unlink
  <1>14. CASE FailUnlink(w) BY <1>14 DEF FailUnlink
  <1>15. CASE Verify(w) BY <1>15 DEF Verify
  <1>16. CASE Revalidate(w) BY <1>16 DEF Revalidate
  <1>17. CASE Truncate(w) BY <1>17 DEF Truncate
  <1>18. CASE Fill(w) BY <1>18 DEF Fill, Written, Mixing
  <1>19. CASE FailOverwrite(w) BY <1>19 DEF FailOverwrite
  <1>20. CASE LstatNew(w) BY <1>20 DEF LstatNew
  <1>21. CASE Create(w) BY <1>21 DEF Create
  <1>22. CASE FillNew(w) BY <1>22 DEF FillNew, Written, Mixing
  <1>23. CASE FailFillNew(w) BY <1>23 DEF FailFillNew, AfterFillError
  <1>24. CASE Withdraw(w) BY <1>24 DEF Withdraw
  <1>25. CASE FailWithdraw(w) BY <1>25 DEF FailWithdraw
  <1>26. CASE Check(w) BY <1>26 DEF Check
  <1>27. CASE FailEarly(w) BY <1>27 DEF FailEarly
  <1>28. CASE Crash(w) BY <1>28 DEF Crash
  <1> QED BY <1>1, <1>2, <1>3, <1>4, <1>5, <1>6, <1>7, <1>8, <1>9, <1>10, <1>11, <1>12,
        <1>13, <1>14, <1>15, <1>16, <1>17, <1>18, <1>19, <1>20, <1>21, <1>22, <1>23, <1>24,
        <1>25, <1>26, <1>27, <1>28 DEF Step

\* Whatever fails, a call removes its temporary file, or its removal failed.
THEOREM NoTempLeft == Spec => []TempsRemoved
  <1>1. Init => TempInv BY DEF Init, TempInv
  <1>2. IInv /\ TempInv /\ [Next]_vars => TempInv'
    <2>1. ASSUME TempInv, Outside \/ UNCHANGED vars PROVE TempInv'
      BY <2>1 DEF TempInv, Outside, vars
    <2> QED BY <2>1, StepTemps DEF Next
  <1>3. TempInv => TempsRemoved BY DEF TempInv, TempHeld, TempsRemoved
  <1> QED BY <1>1, <1>2, <1>3, Invariance, PTL DEF Spec

LEMMA StepTorn ==
  ASSUME IInv, TornIsExplained, NEW w \in Writer, Step(w) PROVE TornIsExplained'
  <1> USE ConstantsAssumption DEF IInv, TypeOK, CallInv, Unplaced, TornIsExplained, File,
        Goto, Result, Return, Defer, disk, rest, Inode, Replacing, Fallback, Publishing, Exclusive
  <1>1. CASE Lstat(w) BY <1>1 DEF Lstat
  <1>2. CASE OpenTarget(w) BY <1>2 DEF OpenTarget
  <1>3. CASE OpenChanged(w) BY <1>3 DEF OpenChanged
  <1>4. CASE CreateTemp(w) BY <1>4 DEF CreateTemp
  <1>5. CASE WriteTemp(w) BY <1>5 DEF WriteTemp
  <1>6. CASE FallBack(w) BY <1>6 DEF FallBack, MayOverwrite
  <1>7. CASE FailTemp(w) BY <1>7 DEF FailTemp, AfterTempError
  <1>8. CASE Cleanup(w) BY <1>8 DEF Cleanup
  <1>9. CASE FailCleanup(w) BY <1>9 DEF FailCleanup
  <1>10. CASE Rename(w) BY <1>10 DEF Rename
  <1>11. CASE Link(w) BY <1>11 DEF Link, PathFree
  <1>12. CASE LinkExists(w) BY <1>12 DEF LinkExists, PathFree
  <1>13. CASE Unlink(w) BY <1>13 DEF Unlink
  <1>14. CASE FailUnlink(w) BY <1>14 DEF FailUnlink
  <1>15. CASE Verify(w) BY <1>15 DEF Verify
  <1>16. CASE Revalidate(w) BY <1>16 DEF Revalidate
  <1>17. CASE Truncate(w) BY <1>17 DEF Truncate
  <1>18. CASE Fill(w) BY <1>18 DEF Fill, Written, Mixing
  <1>19. CASE FailOverwrite(w) BY <1>19 DEF FailOverwrite
  <1>20. CASE LstatNew(w) BY <1>20 DEF LstatNew
  <1>21. CASE Create(w) BY <1>21 DEF Create
  <1>22. CASE FillNew(w) BY <1>22 DEF FillNew, Written, Mixing
  <1>23. CASE FailFillNew(w) BY <1>23 DEF FailFillNew, AfterFillError
  <1>24. CASE Withdraw(w) BY <1>24 DEF Withdraw
  <1>25. CASE FailWithdraw(w) BY <1>25 DEF FailWithdraw
  <1>26. CASE Check(w) BY <1>26 DEF Check
  <1>27. CASE FailEarly(w) BY <1>27 DEF FailEarly
  <1>28. CASE Crash(w) BY <1>28 DEF Crash
  <1> QED BY <1>1, <1>2, <1>3, <1>4, <1>5, <1>6, <1>7, <1>8, <1>9, <1>10, <1>11, <1>12,
        <1>13, <1>14, <1>15, <1>16, <1>17, <1>18, <1>19, <1>20, <1>21, <1>22, <1>23, <1>24,
        <1>25, <1>26, <1>27, <1>28 DEF Step

\* An incomplete file at the path is never left unexplained by a call that
\* reported success.
THEOREM TornExplained == Spec => []TornIsExplained
  <1>1. Init => TornIsExplained
    BY ConstantsAssumption DEF Init, TornIsExplained, File, Inode
  <1>2. IInv /\ TornIsExplained /\ [Next]_vars => TornIsExplained'
    <2>1. ASSUME IInv, TornIsExplained, Outside PROVE TornIsExplained'
      BY <2>1, ConstantsAssumption DEF IInv, TypeOK, ForeignIntact, TornIsExplained, File, Outside, Inode
    <2>2. ASSUME TornIsExplained, UNCHANGED vars PROVE TornIsExplained'
      BY <2>2 DEF TornIsExplained, File, vars
    <2> QED BY <2>1, <2>2, StepTorn DEF Next
  <1> QED BY <1>1, <1>2, Invariance, PTL DEF Spec
=============================================================================
