--------------------- MODULE ContinuousWorkerHost_proofs ---------------------
(***************************************************************************)
(* Theorems about ContinuousWorkerHost, for every way to set a host up and *)
(* every number of steps.                                                  *)
(***************************************************************************)
EXTENDS ContinuousWorkerHost, TLAPS

\* What HostBounds says of the setup in use.
LEMMA SetupFields ==
  ASSUME LoopTypeOK
  PROVE  /\ setup.rotation \in Nat \cup {NoLimit} /\ setup.rotation # 0
         /\ setup.most \in Nat \cup {NoLimit}
BY HostBounds DEF LoopTypeOK, Setup, NoLimit

\* A directive of callback within the bounds is a directive.
LEMMA ReturnedIsDirective == \A d \in Returned : d \in Directive /\ d.action \in {"continue", "wait", "stop"}
BY DEF Returned, Directive

\* Applying a directive counts at most once, where there is room for it.
LEMMA ApplyStep ==
  ASSUME LoopInv, NEW d \in Returned, NEW fromError \in BOOLEAN, Apply(d, fromError),
         pc \in {"control", "stepping", "mapping"}
  PROVE  LoopInv'
<1>1. d \in Directive /\ d.action \in {"continue", "wait", "stop"}
  BY ReturnedIsDirective
<1>2. /\ setup.rotation \in Nat \cup {NoLimit} /\ setup.rotation # 0
      /\ setup.most \in Nat \cup {NoLimit}
  BY SetupFields DEF LoopInv
<1>3. pc' \in {"rotate", "finish", "wait", "top"} /\ (pc' = "finish" => d.action = "stop")
  BY <1>1 DEF Apply, Goto, After
<1>4. counted' \in Nat /\ (setup.most # NoLimit => counted' <= setup.most)
  BY <1>2 DEF Apply, Count, LoopInv, LoopTypeOK, RoomLeft, Admitted, NoLimit
<1>5. repeated' \in BOOLEAN
  BY DEF Apply
<1>6. LoopTypeOK'
  BY <1>1, <1>3, <1>4, <1>5 DEF Apply, Goto, LoopInv, LoopTypeOK
<1>7. LockFollowsRun' /\ RoomLeft' /\ StopIsFinal'
  BY <1>3 DEF Apply, Goto, LoopInv, LockFollowsRun, RoomLeft, StopIsFinal, Admitted
<1>8. AttemptsWithinLimit' /\ OneStepAfterStop'
  BY DEF Apply, Goto, LoopInv, AttemptsWithinLimit, OneStepAfterStop
<1>9. ReturnsForAReason'
  <2>1. setup' = setup /\ last' = d
    BY DEF Apply, Goto
  <2> QED BY <1>3, <1>4, <2>1 DEF ReturnsForAReason
<1> QED BY <1>6, <1>7, <1>8, <1>9 DEF LoopInv

\* Every step of the host keeps the invariant.
LEMMA LoopStep == LoopInv /\ [LoopNext]_loopVars => LoopInv'
<1> SUFFICES ASSUME LoopInv, [LoopNext]_loopVars PROVE LoopInv'
  OBVIOUS
<1>0. /\ setup.rotation \in Nat \cup {NoLimit} /\ setup.rotation # 0
      /\ setup.most \in Nat \cup {NoLimit}
  BY SetupFields DEF LoopInv
<1> USE DEF counters, Goto, LoopInv, LoopTypeOK, LockFollowsRun, RoomLeft, StopIsFinal,
            AttemptsWithinLimit, ReturnsForAReason, OneStepAfterStop, Admitted, NoLimit
<1>1. CASE Run
  <2>1. LoopTypeOK'
    BY <1>1 DEF Run
  <2>2. AttemptsWithinLimit' /\ ReturnsForAReason'
    BY <1>1, <1>0 DEF Run
  <2>3. LockFollowsRun' /\ RoomLeft' /\ StopIsFinal' /\ OneStepAfterStop'
    BY <1>1 DEF Run
  <2> QED BY <2>1, <2>2, <2>3
<1>2. CASE RunRefused
  BY <1>2 DEF RunRefused, loopVars
<1>3. CASE Top
  BY <1>3, <1>0 DEF Top, Exhausted
<1>4. CASE Control
  <2>1. CASE Goto("limit") /\ UNCHANGED <<counters, repeated, last, late>> /\ pc = "control"
    BY <2>1
  <2>2. ASSUME NEW d \in Returned, Apply(d, FALSE), pc = "control" PROVE LoopInv'
    BY <2>2, ApplyStep
  <2> QED BY <1>4, <2>1, <2>2 DEF Control
<1>5. CASE RotateAtLimit
  BY <1>5, <1>0 DEF RotateAtLimit, RotationDue
<1>6. CASE NoRotation
  BY <1>6, <1>0 DEF NoRotation, RotationDue
<1>7. CASE StepBegins
  BY <1>7, <1>0 DEF StepBegins
<1>8. CASE StepReturns
  <2>1. PICK d \in Returned : Apply(d, FALSE)
    BY <1>8 DEF StepReturns
  <2> QED BY <1>8, <2>1, ApplyStep DEF StepReturns
<1>9. CASE StepRaises
  BY <1>9 DEF StepRaises
<1>10. CASE ErrorMapped
  <2>1. PICK d \in Returned : Apply(d, TRUE)
    BY <1>10 DEF ErrorMapped
  <2> QED BY <1>10, <2>1, ApplyStep DEF ErrorMapped
<1>11. CASE Rotate
  <2>0. last.action \in {"continue", "wait", "stop"}
    BY DEF Directive
  <2>1. pc' \in {"finish", "wait", "top"} /\ (pc' = "finish" => last.action = "stop")
    BY <2>0, <1>11 DEF Rotate, After
  <2> QED BY <1>11, <2>1, <1>0 DEF Rotate
<1>12. CASE Wait
  BY <1>12 DEF Wait
<1>13. CASE CallbackRaises
  BY <1>13 DEF CallbackRaises
<1>14. CASE Leave
  BY <1>14 DEF Leave
<1>15. CASE RequestStop
  BY <1>15 DEF RequestStop
<1>16. CASE UNCHANGED loopVars
  BY <1>16 DEF loopVars
<1> QED BY <1>1, <1>2, <1>3, <1>4, <1>5, <1>6, <1>7, <1>8, <1>9, <1>10, <1>11, <1>12,
           <1>13, <1>14, <1>15, <1>16 DEF LoopNext, Proceed

\* The loop's invariant: the run lock is held exactly during a run, and a step
\* that is about to begin has room in its boundary and in max_counted.
THEOREM LoopInvariance == LoopSpec => []LoopInv
<1>1. LoopInit => LoopInv
  <2> SUFFICES ASSUME LoopInit PROVE LoopInv
    OBVIOUS
  <2>1. LoopTypeOK
    BY DEF LoopInit, LoopTypeOK, Directive
  <2>2. LockFollowsRun /\ RoomLeft /\ StopIsFinal /\ OneStepAfterStop
    BY DEF LoopInit, LockFollowsRun, RoomLeft, StopIsFinal, OneStepAfterStop, Admitted
  <2>3. AttemptsWithinLimit /\ ReturnsForAReason
    BY <2>1, SetupFields DEF LoopInit, AttemptsWithinLimit, ReturnsForAReason, NoLimit
  <2> QED BY <2>1, <2>2, <2>3 DEF LoopInv
<1> QED BY <1>1, LoopStep, PTL DEF LoopSpec

\* rotation_attempts bounds the steps of a boundary (README: "Periodic rotation
\* happens before attempt N+1").
THEOREM RotationInTime == LoopSpec => []AttemptsWithinLimit
<1>1. LoopInv => AttemptsWithinLimit
  BY DEF LoopInv
<1> QED BY <1>1, LoopInvariance, PTL

\* run returns only when its docstring says, and never counts past max_counted.
THEOREM ReturnsRightly == LoopSpec => []ReturnsForAReason
<1>1. LoopInv => ReturnsForAReason
  BY DEF LoopInv
<1> QED BY <1>1, LoopInvariance, PTL

\* After request_stop at most one step begins, over all runs of the host.
THEOREM StopInTime == LoopSpec => []OneStepAfterStop
<1>1. LoopInv => OneStepAfterStop
  BY DEF LoopInv
<1> QED BY <1>1, LoopInvariance, PTL

\* After request_stop a run has at most nine steps to the release of its lock.
THEOREM StopComesNear == LoopSpec => StopIsNear
<1>1. LoopInv /\ [LoopNext]_loopVars => [RunsOut]_loopVars
  <2> SUFFICES ASSUME LoopInv, LoopNext, stop, runLock
               PROVE  StepsToEnd' <= StepsToEnd /\ (Proceed => StepsToEnd' < StepsToEnd)
    BY DEF RunsOut
  <2>1. /\ pc \in {"top", "control", "limit", "step", "stepping", "mapping", "rotate",
                   "wait", "finish", "raised"}
        /\ last.action \in {"continue", "wait", "stop"}
    BY DEF LoopInv, LoopTypeOK, LockFollowsRun, Directive
  <2>2. \A d \in Returned, e \in BOOLEAN :
          Apply(d, e) => pc' \in {"rotate", "finish", "wait", "top"}
    BY DEF Apply, Goto, After, Returned, Directive
  <2>3. CASE Proceed
    <3>1. CASE Top
      BY <3>1 DEF Top, Goto, StepsToEnd
    <3>2. CASE Control
      <4>1. pc = "control" /\ pc' \in {"limit", "rotate", "finish", "wait", "top"}
        BY <2>2, <3>2 DEF Control, Goto
      <4> QED BY <4>1 DEF StepsToEnd
    <3>3. CASE RotateAtLimit \/ NoRotation
      <4>1. pc = "limit" /\ pc' = "step"
        BY <3>3 DEF RotateAtLimit, NoRotation, Goto
      <4> QED BY <4>1 DEF StepsToEnd
    <3>4. CASE StepBegins
      BY <3>4 DEF StepBegins, Goto, StepsToEnd
    <3>5. CASE Wait
      BY <3>5 DEF Wait, Goto, StepsToEnd
    <3>6. CASE Leave
      <4>1. pc \in {"finish", "raised"} /\ pc' = "off"
        BY <3>6 DEF Leave
      <4> QED BY <4>1 DEF StepsToEnd
    <3>7. CASE StepReturns \/ ErrorMapped
      <4>1. pc \in {"stepping", "mapping"} /\ pc' \in {"rotate", "finish", "wait", "top"}
        BY <2>2, <3>7 DEF StepReturns, ErrorMapped
      <4> QED BY <4>1 DEF StepsToEnd
    <3>8. CASE StepRaises
      BY <3>8 DEF StepRaises, Goto, StepsToEnd
    <3>9. CASE Rotate
      <4>1. pc = "rotate" /\ pc' \in {"finish", "wait", "top"}
        BY <2>1, <3>9 DEF Rotate, Goto, After
      <4> QED BY <4>1 DEF StepsToEnd
    <3>10. CASE CallbackRaises
      <4>1. pc \in {"control", "mapping", "rotate", "limit"} /\ pc' = "raised"
        BY <3>10 DEF CallbackRaises, Goto
      <4> QED BY <4>1 DEF StepsToEnd
    <3>11. StepsToEnd' < StepsToEnd
      BY <2>3, <3>1, <3>2, <3>3, <3>4, <3>5, <3>6, <3>7, <3>8, <3>9, <3>10 DEF Proceed
    <3> QED BY <3>11 DEF StepsToEnd
  <2>4. CASE ~Proceed
    <3>1. pc' = pc
      BY <2>4 DEF LoopNext, Run, RunRefused, RequestStop, loopVars
    <3> QED BY <2>4, <3>1 DEF StepsToEnd
  <2> QED BY <2>3, <2>4
<1> QED BY <1>1, LoopInvariance, PTL DEF LoopSpec, StopIsNear
=============================================================================
