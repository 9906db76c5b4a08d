------------------------ MODULE ContinuousWorkerHost ------------------------
(***************************************************************************)
(* ContinuousWorkerHost.run: an opaque step repeated under the directives  *)
(* it returns, with a control hook between steps, rotation of the          *)
(* consumer's boundary, a limit on counted work, error mapping and         *)
(* request_stop, which is never taken back.                                *)
(*                                                                         *)
(* Every callback returns any directive or raises; it may also call        *)
(* request_stop, as may another thread at any point.  observe and delays   *)
(* are left out, and so is that a rotation which a directive asked for is  *)
(* told the counters from before that directive.                           *)
(***************************************************************************)
EXTENDS Integers

CONSTANTS
  Setups,      \* how hosts are put together and run
  MaxSteps,    \* the consumer stops at this step,
  MaxCounted   \* and counts no more than this

\* rotation: rotation_attempts; most: max_counted; maps: on_error is given.
\* NoLimit is None.
NoLimit == -1
Setup == [rotation : (Nat \ {0}) \cup {NoLimit}, most : Nat \cup {NoLimit}, maps : BOOLEAN]

Directive == [action : {"continue", "wait", "stop"}, rotate : BOOLEAN, counted : BOOLEAN]

ASSUME HostBounds == Setups \subseteq Setup /\ MaxSteps \in Nat /\ MaxCounted \in Nat

VARIABLES
  setup,       \* the host's, and the run's max_counted
  pc,          \* where the run is; "off": no run
  runLock,     \* _run_lock is held
  stop,        \* request_stop was called
  sequence, counted, attempts, repeated,     \* the locals of those names
  last,        \* the directive being applied, or applied last
  late         \* history: steps begun since stop was requested

counters == <<sequence, counted, attempts>>
loopVars == <<setup, pc, runLock, stop, counters, repeated, last, late>>

LoopInit ==
  /\ setup \in Setups
  /\ pc = "off" /\ runLock = FALSE /\ stop = FALSE
  /\ sequence = 0 /\ counted = 0 /\ attempts = 0 /\ repeated = FALSE
  /\ last = [action |-> "continue", rotate |-> FALSE, counted |-> FALSE]
  /\ late = 0

\* What a consumer returns within the bounds.
Returned ==
  {d \in Directive : /\ sequence >= MaxSteps => d.action = "stop"
                     /\ counted >= MaxCounted => ~d.counted}

Goto(point) == pc' = point /\ UNCHANGED <<setup, runLock, stop>>

(***************************************************************************)
(* run.                                                                    *)
(***************************************************************************)
Run ==
  /\ pc = "off" /\ ~runLock
  /\ runLock' = TRUE /\ pc' = "top"
  /\ sequence' = 0 /\ counted' = 0 /\ attempts' = 0 /\ repeated' = FALSE
  /\ UNCHANGED <<setup, stop, last, late>>

\* RuntimeError for a second caller.
RunRefused == runLock /\ UNCHANGED loopVars

Exhausted == setup.most # NoLimit /\ counted >= setup.most

\* Variant: the limit is checked after the step it should prevent.
TopLate ==
  /\ pc = "top"
  /\ Goto(IF stop \/ (setup.most # NoLimit /\ counted > setup.most) THEN "finish" ELSE "control")
  /\ UNCHANGED <<counters, repeated, last, late>>

\* Variant: only the step asks whether to stop.
TopIgnoresStop ==
  /\ pc = "top"
  /\ Goto(IF Exhausted THEN "finish" ELSE "control")
  /\ UNCHANGED <<counters, repeated, last, late>>

\* The condition of the loop.
Top ==
  /\ pc = "top"
  /\ Goto(IF stop \/ Exhausted THEN "finish" ELSE "control")
  /\ UNCHANGED <<counters, repeated, last, late>>

Count(d) == counted' = IF d.counted THEN counted + 1 ELSE counted

After(action) ==
  CASE action = "stop" -> "finish" [] action = "wait" -> "wait" [] OTHER -> "top"

\* _apply, up to its rotation or to its end.
Apply(d, fromError) ==
  /\ last' = d /\ Count(d)
  /\ repeated' = (fromError \/ d.action = "wait")
  /\ Goto(IF d.rotate THEN "rotate" ELSE After(d.action))
  /\ UNCHANGED <<sequence, attempts, late>>

Control ==
  /\ pc = "control"
  /\ \/ Goto("limit") /\ UNCHANGED <<counters, repeated, last, late>>
     \/ \E d \in Returned : Apply(d, FALSE)

\* Variant: the rotation is due only past the limit.
RotationDueLate == setup.rotation # NoLimit /\ attempts > setup.rotation

RotationDue == setup.rotation # NoLimit /\ attempts >= setup.rotation

\* The periodic rotation.
RotateAtLimit ==
  /\ pc = "limit" /\ RotationDue
  /\ Goto("step")
  /\ attempts' = 0
  /\ UNCHANGED <<sequence, counted, repeated, last, late>>

NoRotation ==
  /\ pc = "limit" /\ ~RotationDue
  /\ Goto("step")
  /\ UNCHANGED <<counters, repeated, last, late>>

StepBegins ==
  /\ pc = "step"
  /\ Goto("stepping")
  /\ sequence' = sequence + 1 /\ attempts' = attempts + 1
  /\ late' = IF stop THEN late + 1 ELSE late
  /\ UNCHANGED <<counted, repeated, last>>

StepReturns == pc = "stepping" /\ \E d \in Returned : Apply(d, FALSE)

StepRaises ==
  /\ pc = "stepping"
  /\ Goto(IF setup.maps THEN "mapping" ELSE "raised")
  /\ UNCHANGED <<counters, repeated, last, late>>

ErrorMapped == pc = "mapping" /\ \E d \in Returned : Apply(d, TRUE)

\* The rotation a directive asked for.
Rotate ==
  /\ pc = "rotate"
  /\ Goto(After(last.action))
  /\ attempts' = 0
  /\ UNCHANGED <<sequence, counted, repeated, last, late>>

\* _wait: the delay passes, or a stop request ends it.
Wait == pc = "wait" /\ Goto("top") /\ UNCHANGED <<counters, repeated, last, late>>

\* control, rotate or on_error raises.
CallbackRaises ==
  /\ \/ pc \in {"control", "mapping", "rotate"}
     \/ pc = "limit" /\ RotationDue
  /\ Goto("raised")
  /\ UNCHANGED <<counters, repeated, last, late>>

\* Variant: the lock is released only when the loop returns.
LeaveWithoutFinally ==
  /\ pc \in {"finish", "raised"}
  /\ pc' = "off" /\ runLock' = (pc = "raised")
  /\ UNCHANGED <<setup, stop, counters, repeated, last, late>>

\* The finally clause.
Leave ==
  /\ pc \in {"finish", "raised"}
  /\ pc' = "off" /\ runLock' = FALSE
  /\ UNCHANGED <<setup, stop, counters, repeated, last, late>>

RequestStop ==
  /\ ~stop /\ stop' = TRUE
  /\ UNCHANGED <<setup, pc, runLock, counters, repeated, last, late>>

(***************************************************************************)
(* The specification.  Callbacks return or raise, waits end.               *)
(***************************************************************************)
Proceed ==
  \/ Top \/ Control \/ RotateAtLimit \/ NoRotation \/ StepBegins \/ StepReturns
  \/ StepRaises \/ ErrorMapped \/ Rotate \/ Wait \/ CallbackRaises \/ Leave

LoopNext == Run \/ RunRefused \/ Proceed \/ RequestStop

LoopSpec == LoopInit /\ [][LoopNext]_loopVars

FairLoopSpec == LoopSpec /\ WF_loopVars(Proceed)

(***************************************************************************)
(* Properties.                                                             *)
(***************************************************************************)
\* Types of the loop's state.
LoopTypeOK ==
  /\ setup \in Setups
  /\ pc \in {"off", "top", "control", "limit", "step", "stepping", "mapping", "rotate",
             "wait", "finish", "raised"}
  /\ runLock \in BOOLEAN /\ stop \in BOOLEAN /\ repeated \in BOOLEAN
  /\ sequence \in Nat /\ counted \in Nat /\ attempts \in Nat /\ late \in Nat
  /\ last \in Directive

\* A boundary never sees more steps of a run than rotation_attempts, whichever of
\* its rotations were periodic and whichever a directive of step, control or
\* on_error asked for.
AttemptsWithinLimit == setup.rotation # NoLimit => attempts <= setup.rotation

\* A run that returns was told to stop, has a last directive that says so, or has
\* counted exactly max_counted; it never counts more.
ReturnsForAReason ==
  /\ setup.most # NoLimit => counted <= setup.most
  /\ pc = "finish" => stop \/ last.action = "stop" \/ counted = setup.most

\* A host that was asked to stop begins at most one more step, in this run or
\* in any later one.
OneStepAfterStop == late <= 1

\* Whatever callbacks return or raise, a host that was asked to stop gets back
\* to where it could be run again.
StopFreesTheHost == stop ~> ~runLock

\* How far a run that was asked to stop is from freeing the host.
StepsToEnd ==
  CASE pc = "control" -> 9 [] pc = "limit" -> 8 [] pc = "step" -> 7 [] pc = "stepping" -> 6
    [] pc = "mapping" -> 5 [] pc = "rotate" -> 4 [] pc = "wait" -> 3 [] pc = "top" -> 2
    [] pc \in {"finish", "raised"} -> 1 [] OTHER -> 0

\* Once a stop is requested every step of the run brings it nearer to its end,
\* whatever control, step, on_error and rotate return or raise.
RunsOut ==
  stop /\ runLock =>
    /\ StepsToEnd' <= StepsToEnd
    /\ Proceed => StepsToEnd' < StepsToEnd
StopIsNear == [][RunsOut]_loopVars

(***************************************************************************)
(* The inductive invariant.                                                *)
(***************************************************************************)
Admitted == {"control", "limit", "step"}
LockFollowsRun == runLock <=> pc # "off"
RoomLeft ==
  /\ pc \in Admitted \cup {"stepping", "mapping"} /\ setup.most # NoLimit => counted < setup.most
  /\ pc = "step" /\ setup.rotation # NoLimit => attempts < setup.rotation
StopIsFinal == (pc \in Admitted => late = 0) /\ (late > 0 => stop)

LoopInv ==
  /\ LoopTypeOK /\ LockFollowsRun /\ RoomLeft /\ StopIsFinal
  /\ AttemptsWithinLimit /\ ReturnsForAReason /\ OneStepAfterStop
=============================================================================
