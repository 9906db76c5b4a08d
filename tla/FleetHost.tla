----------------------------- MODULE FleetHost -----------------------------
(***************************************************************************)
(* FleetHost.run_once and FleetHost.serve: admitted passes over a fixed,   *)
(* ordered fleet, under the lock of SupervisorLock.                        *)
(*                                                                         *)
(* pass[p] says where p is in its loop and how many units the pass has     *)
(* reconciled.  The consumer's callbacks (admit, reconcile, on_pass,       *)
(* stop_condition, sleep) return or raise; what they compute is opaque to  *)
(* the code and is left out.                                               *)
(* DesiredStateReconciler.reconcile_once and serve are the same loop       *)
(* without admission and report.                                           *)
(***************************************************************************)
EXTENDS SupervisorLock

CONSTANT Units      \* the number of units of the fleet

ASSUME FleetSize == Units \in Nat

VARIABLE pass

fleetVars == <<lockFile, alive, at, faults, pass>>

Stages == {"out", "admit", "units", "report", "check", "sleep", "leave"}
Away == [stage |-> "out", done |-> 0, serving |-> FALSE]

FleetInit == LockInit /\ pass = [p \in Procs |-> Away]

Enter(p, stage, done) ==
  pass' = [pass EXCEPT ![p].stage = stage, ![p].done = done]

\* A step of p inside its critical section.
Working(p, stage) == at[p] = "held" /\ pass[p].stage = stage /\ UNCHANGED lockVars

(***************************************************************************)
(* _acquire, from run_once or serve; the try block is entered with it.     *)
(***************************************************************************)
HostBegin(p) ==
  /\ AcquireBegin(p)
  /\ \E serving \in BOOLEAN : pass' = [pass EXCEPT ![p].serving = serving]

HostAcquire(p) ==
  /\ Acquire(p)
  /\ IF at'[p] = "held" THEN Enter(p, "admit", 0)
     ELSE IF at'[p] = "idle" THEN pass' = [pass EXCEPT ![p] = Away]
     ELSE UNCHANGED pass

(***************************************************************************)
(* reconcile_pass and the loop of serve.                                   *)
(***************************************************************************)
Admit(p) == Working(p, "admit") /\ Enter(p, "units", 0)

ReconcileUnit(p) ==
  /\ Working(p, "units") /\ pass[p].done < Units
  /\ Enter(p, "units", pass[p].done + 1)

\* Variant: a unit that raises is skipped.
PassDoneEarly(p) ==
  /\ Working(p, "units")
  /\ Enter(p, IF pass[p].serving THEN "report" ELSE "leave", pass[p].done)

PassDone(p) ==
  /\ Working(p, "units") /\ pass[p].done = Units
  /\ Enter(p, IF pass[p].serving THEN "report" ELSE "leave", pass[p].done)

OnPass(p) == Working(p, "report") /\ Enter(p, "check", pass[p].done)

StopCheck(p) ==
  /\ Working(p, "check")
  /\ \E stop \in BOOLEAN : Enter(p, IF stop THEN "leave" ELSE "sleep", 0)

Sleep(p) == Working(p, "sleep") /\ Enter(p, "admit", 0)

\* Variant: the exception escapes past the release.
RaisesPastFinally(p) ==
  /\ at[p] = "held" /\ pass[p].stage # "leave"
  /\ GoTo(p, "idle")
  /\ pass' = [pass EXCEPT ![p] = Away]
  /\ UNCHANGED <<lockFile, alive, faults>>

\* A callback raises.
Raises(p) ==
  /\ \E stage \in {"admit", "units", "report", "check", "sleep"} : Working(p, stage)
  /\ Enter(p, "leave", 0)

\* The finally clause.
HostRelease(p) ==
  /\ pass[p].stage = "leave"
  /\ EndRelease(p)
  /\ pass' = IF at'[p] = "idle" THEN [pass EXCEPT ![p] = Away] ELSE pass

HostFault(p) ==
  /\ LockFault(p)
  /\ pass' = IF at'[p] = "idle" THEN [pass EXCEPT ![p] = Away] ELSE pass

(***************************************************************************)
(* The specification.                                                      *)
(***************************************************************************)
HostLoop(p) ==
  \/ Admit(p) \/ ReconcileUnit(p) \/ PassDone(p) \/ OnPass(p)
  \/ StopCheck(p) \/ Sleep(p) \/ Raises(p)

HostNext(p) ==
  HostBegin(p) \/ HostAcquire(p) \/ HostLoop(p) \/ HostRelease(p) \/ HostFault(p)

FleetNext == \E p \in Procs : HostNext(p)

FleetSpec == FleetInit /\ [][FleetNext]_fleetVars

\* An acquisition that has begun goes on.
FairFleetSpec == FleetSpec /\ \A p \in Procs : WF_fleetVars(HostAcquire(p))

(***************************************************************************)
(* Properties.                                                             *)
(***************************************************************************)
\* Types of the pass state.
FleetTypeOK ==
  /\ LockTypeOK
  /\ pass \in [Procs -> [stage : Stages, done : 0..Units, serving : BOOLEAN]]

\* run_once and serve return or raise only with the lock freed: the file left
\* behind, if any, is not theirs.
EveryExitFreesTheLock ==
  [][\A p \in Procs :
       (at[p] \in {"held", "remove"} /\ at'[p] = "idle" /\ p \in alive')
         => lockFile' # Lock(p, TRUE)]_fleetVars

(***************************************************************************)
(* Refinement.                                                             *)
(***************************************************************************)
InPass(p) == pass[p].stage \in {"units", "report", "check"}
Driver == IF \E p \in Procs : InPass(p) THEN CHOOSE p \in Procs : InPass(p) ELSE NoProc

Passes == INSTANCE FleetPasses WITH
  Drivers <- Procs, Nobody <- NoProc,
  driver <- Driver,
  cursor <- IF Driver = NoProc THEN 0 ELSE pass[Driver].done,
  reported <- Driver # NoProc /\ pass[Driver].stage = "check"

\* The passes of all hosts, under the lock, take turns and are complete when
\* reported.
ImplementsFleetPasses == Passes!PassesSpec

(***************************************************************************)
(* The inductive invariant: a host is in its loop exactly while it holds   *)
(* the lock, leaves it before releasing, and has reconciled the whole      *)
(* fleet when it reports.                                                  *)
(***************************************************************************)
LoopFollowsLock ==
  \A p \in Procs :
    /\ at[p] \notin {"held", "remove"} <=> pass[p].stage = "out"
    /\ at[p] = "remove" => pass[p].stage = "leave"

ReportedInFull ==
  \A p \in Procs : pass[p].stage \in {"report", "check"} => pass[p].done = Units

FleetInv == FleetTypeOK /\ LockInv /\ LoopFollowsLock /\ ReportedInFull
=============================================================================
