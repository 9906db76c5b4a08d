-------------------------- MODULE FleetHost_proofs --------------------------
(***************************************************************************)
(* Proofs about FleetHost, on top of those about its lock: for a fleet of  *)
(* any size and any number of hosts started one at a time, passes take     *)
(* turns and every exit frees the lock.                                    *)
(***************************************************************************)
EXTENDS FleetHost, SupervisorLock_proofs

\* The places of the hosts and of the loop.
LEMMA Places ==
  /\ Points = {"idle", "held", "remove", "create", "judge", "unlink", "write"}
  /\ Away \in [stage : Stages, done : 0..Units, serving : BOOLEAN]
  /\ Away.stage = "out" /\ 0 \in 0..Units
BY FleetSize DEF Points, Acquiring, Away, Stages

\* The initial state satisfies the invariant.
LEMMA FleetInitInv == FleetInit => FleetInv
<1>1. SUFFICES ASSUME FleetInit PROVE FleetInv
  OBVIOUS
<1>2. LockInv
  BY <1>1, LockInitInv DEF FleetInit
<1>3. QED
  BY <1>1, <1>2, Places
  DEF FleetInit, LockInit, FleetInv, FleetTypeOK, LockInv, LoopFollowsLock, ReportedInFull

\* What Enter and a reset do to the passes.
LEMMA PassMoves ==
  ASSUME FleetTypeOK, NEW p \in Procs
  PROVE  /\ \A stage \in Stages, done \in 0..Units : Enter(p, stage, done) =>
              /\ pass' \in [Procs -> [stage : Stages, done : 0..Units, serving : BOOLEAN]]
              /\ pass'[p].stage = stage /\ pass'[p].done = done
              /\ \A q \in Procs : q # p => pass'[q] = pass[q]
         /\ pass' = [pass EXCEPT ![p] = Away] =>
              /\ pass' \in [Procs -> [stage : Stages, done : 0..Units, serving : BOOLEAN]]
              /\ pass'[p] = Away
              /\ \A q \in Procs : q # p => pass'[q] = pass[q]
BY Places DEF FleetTypeOK, Enter

\* Every step of a host is a step of the lock or leaves the lock alone.
LEMMA FleetUsesLock ==
  ASSUME NEW p \in Procs, HostNext(p)
  PROVE  [LockNext]_lockVars
<1>1. HostBegin(p) \/ HostAcquire(p) \/ HostRelease(p) \/ HostFault(p) => LockNext
  BY DEF HostBegin, HostAcquire, HostRelease, HostFault, LockNext
<1>2. HostLoop(p) => UNCHANGED lockVars
  BY DEF HostLoop, Admit, ReconcileUnit, PassDone, OnPass, StopCheck, Sleep, Raises, Working
<1>3. QED BY <1>1, <1>2 DEF HostNext

\* Another host's place does not change when p moves.
LEMMA OneMoves ==
  ASSUME LockTypeOK, NEW p \in Procs,
         AcquireBegin(p) \/ Acquire(p) \/ EndRelease(p) \/ LockFault(p)
  PROVE  \A q \in Procs : q # p => at'[q] = at[q]
<1>1. UNCHANGED at \/ \E x \in Points : GoTo(p, x)
  BY Places
  DEF AcquireBegin, EndRelease, Release, ReleaseNotOwned, ReleaseUnlink,
      Acquire, Create, CreateExists, Refuse, Steal, StealUnlink, WriteBody,
      LockFault, WriteFails, Die, Start
<1>2. QED BY <1>1, OthersStay

\* What a step of p has to establish about p for the invariant to hold again.
LEMMA FromLocal ==
  ASSUME FleetInv, LockInv', NEW p \in Procs,
         \A q \in Procs : q # p => at'[q] = at[q] /\ pass'[q] = pass[q],
         pass' \in [Procs -> [stage : Stages, done : 0..Units, serving : BOOLEAN]],
         at'[p] \notin {"held", "remove"} <=> pass'[p].stage = "out",
         at'[p] = "remove" => pass'[p].stage = "leave",
         pass'[p].stage \in {"report", "check"} => pass'[p].done = Units
  PROVE  FleetInv'
<1>1. FleetTypeOK'
  BY DEF FleetTypeOK, LockInv
<1>2. LoopFollowsLock' /\ ReportedInFull'
  BY DEF FleetInv, LoopFollowsLock, ReportedInFull
<1>3. QED BY <1>1, <1>2 DEF FleetInv

\* Beginning to acquire.
LEMMA HostBeginStep ==
  ASSUME FleetInv, LockInv', NEW p \in Procs, HostBegin(p)
  PROVE  FleetInv'
<1>1. at[p] = "idle" /\ at'[p] = "create" /\ \A q \in Procs : q # p => at'[q] = at[q]
  BY OthersStay, Places DEF HostBegin, AcquireBegin, FleetInv, FleetTypeOK
<1>2. PICK serving \in BOOLEAN : pass' = [pass EXCEPT ![p].serving = serving]
  BY DEF HostBegin
<1>3. /\ pass' \in [Procs -> [stage : Stages, done : 0..Units, serving : BOOLEAN]]
      /\ pass'[p].stage = pass[p].stage
      /\ \A q \in Procs : q # p => pass'[q] = pass[q]
  BY <1>2 DEF FleetInv, FleetTypeOK
<1>4. pass[p].stage = "out"
  BY <1>1 DEF FleetInv, LoopFollowsLock
<1>5. QED BY <1>1, <1>3, <1>4, FromLocal

\* Acquiring, up to the entry into the loop.
LEMMA HostAcquireStep ==
  ASSUME FleetInv, LockInv', NEW p \in Procs, HostAcquire(p)
  PROVE  FleetInv'
<1>1. \A q \in Procs : q # p => at'[q] = at[q]
  BY OneMoves DEF HostAcquire, FleetInv, FleetTypeOK
<1>2. at[p] \in Acquiring /\ at'[p] # "remove"
  BY OthersStay, Places
  DEF HostAcquire, Acquire, Create, CreateExists, Refuse, Steal, StealUnlink, WriteBody,
      FleetInv, FleetTypeOK, Acquiring
<1>3. pass[p].stage = "out"
  BY <1>2 DEF FleetInv, LoopFollowsLock, Acquiring
<1>4. CASE at'[p] = "held"
  <2>1. Enter(p, "admit", 0)
    BY <1>4 DEF HostAcquire
  <2>2. /\ pass' \in [Procs -> [stage : Stages, done : 0..Units, serving : BOOLEAN]]
        /\ pass'[p].stage = "admit"
        /\ \A q \in Procs : q # p => pass'[q] = pass[q]
    BY <2>1, PassMoves, Places DEF FleetInv, Stages
  <2>3. QED BY <1>1, <1>4, <2>2, FromLocal
<1>5. CASE at'[p] = "idle"
  <2>1. pass' = [pass EXCEPT ![p] = Away]
    BY <1>5 DEF HostAcquire
  <2>2. /\ pass' \in [Procs -> [stage : Stages, done : 0..Units, serving : BOOLEAN]]
        /\ pass'[p].stage = "out"
        /\ \A q \in Procs : q # p => pass'[q] = pass[q]
    BY <2>1, PassMoves, Places DEF FleetInv
  <2>3. QED BY <1>1, <1>5, <2>2, FromLocal
<1>6. CASE at'[p] \notin {"held", "idle"}
  <2>1. pass' = pass
    BY <1>6 DEF HostAcquire
  <2>2. QED BY <1>1, <1>2, <1>3, <1>6, <2>1, FromLocal DEF FleetInv, FleetTypeOK
<1>7. QED BY <1>4, <1>5, <1>6

\* The loop, which runs with the lock held.
LEMMA HostLoopStep ==
  ASSUME FleetInv, LockInv', NEW p \in Procs, HostLoop(p)
  PROVE  FleetInv'
<1>1. at[p] = "held" /\ at' = at /\ pass[p].stage # "out"
  BY DEF HostLoop, Admit, ReconcileUnit, PassDone, OnPass, StopCheck, Sleep, Raises,
         Working, lockVars
<1>2. pass[p].done \in 0..Units
  BY DEF FleetInv, FleetTypeOK
<1>3. ASSUME NEW stage \in Stages \ {"out"}, NEW done \in 0..Units, Enter(p, stage, done),
             stage \in {"report", "check"} => done = Units
      PROVE  FleetInv'
  <2>1. /\ pass' \in [Procs -> [stage : Stages, done : 0..Units, serving : BOOLEAN]]
        /\ pass'[p].stage = stage /\ pass'[p].done = done
        /\ \A q \in Procs : q # p => pass'[q] = pass[q]
    BY <1>3, PassMoves DEF FleetInv
  <2>2. QED BY <1>1, <1>3, <2>1, FromLocal
<1>4. CASE Admit(p) \/ Sleep(p) \/ StopCheck(p) \/ Raises(p)
  BY <1>3, <1>4, Places DEF Admit, Sleep, StopCheck, Raises, Stages
<1>5. CASE ReconcileUnit(p)
  <2>1. pass[p].done + 1 \in 0..Units
    BY <1>2, <1>5, FleetSize DEF ReconcileUnit
  <2>2. QED BY <1>3, <1>5, <2>1 DEF ReconcileUnit, Stages
<1>6. CASE PassDone(p)
  BY <1>2, <1>3, <1>6 DEF PassDone, Stages
<1>7. CASE OnPass(p)
  <2>1. pass[p].done = Units
    BY <1>7 DEF OnPass, Working, FleetInv, ReportedInFull
  <2>2. QED BY <1>2, <1>3, <1>7, <2>1 DEF OnPass, Stages
<1>8. QED BY <1>4, <1>5, <1>6, <1>7 DEF HostLoop

\* Releasing, and dying or being started, either keep the loop where it is or leave it.
LEMMA HostReleaseStep ==
  ASSUME FleetInv, LockInv', NEW p \in Procs, HostRelease(p) \/ HostFault(p)
  PROVE  FleetInv'
<1>1. \A q \in Procs : q # p => at'[q] = at[q]
  BY OneMoves DEF HostRelease, HostFault, FleetInv, FleetTypeOK
<1>2. CASE at'[p] = "idle"
  <2>1. pass' = [pass EXCEPT ![p] = Away]
    BY <1>2 DEF HostRelease, HostFault
  <2>2. /\ pass' \in [Procs -> [stage : Stages, done : 0..Units, serving : BOOLEAN]]
        /\ pass'[p].stage = "out"
        /\ \A q \in Procs : q # p => pass'[q] = pass[q]
    BY <2>1, PassMoves, Places DEF FleetInv
  <2>3. QED BY <1>1, <1>2, <2>2, FromLocal
<1>3. CASE at'[p] # "idle"
  <2>1. pass' = pass
    BY <1>3 DEF HostRelease, HostFault
  <2>2. at'[p] = "remove" /\ pass[p].stage = "leave"
    <3>1. HostRelease(p) => at'[p] = "remove" /\ pass[p].stage = "leave"
      BY <1>3, OthersStay, Places
      DEF HostRelease, EndRelease, Release, ReleaseNotOwned, ReleaseUnlink, FleetInv,
          FleetTypeOK
    <3>2. HostFault(p) => at'[p] = "idle"
      BY OthersStay, Places
      DEF HostFault, LockFault, WriteFails, Die, Start, FleetInv, LockInv, OnlyLiveAct,
          FleetTypeOK
    <3>3. QED BY <1>3, <3>1, <3>2
  <2>3. QED BY <1>1, <2>1, <2>2, FromLocal DEF FleetInv, FleetTypeOK
<1>4. QED BY <1>2, <1>3

\* Every step preserves the invariant.
LEMMA FleetNextInv ==
  ASSUME Orderly, FleetInv, [FleetNext]_fleetVars
  PROVE  FleetInv'
<1>1. CASE FleetNext
  <2>1. PICK p \in Procs : HostNext(p)
    BY <1>1 DEF FleetNext
  <2>2. LockInv'
    BY <2>1, FleetUsesLock, LockNextInv DEF FleetInv
  <2>3. QED
    BY <2>1, <2>2, HostBeginStep, HostAcquireStep, HostLoopStep, HostReleaseStep
    DEF HostNext
<1>2. CASE UNCHANGED fleetVars
  <2>1. UNCHANGED lockVars
    BY <1>2 DEF fleetVars, lockVars
  <2>2. LockInv'
    BY <2>1, LockNextInv DEF FleetInv
  <2>3. QED
    BY <1>2, <2>2
    DEF fleetVars, FleetInv, FleetTypeOK, LockInv, LoopFollowsLock, ReportedInFull
<1>3. QED BY <1>1, <1>2

\* The invariant holds of every behaviour of orderly hosts.
THEOREM FleetInvariance ==
  ASSUME Orderly
  PROVE  FleetSpec => []FleetInv
<1>1. FleetInv /\ [FleetNext]_fleetVars => FleetInv'
  BY FleetNextInv
<1>2. QED BY FleetInitInv, <1>1, PTL DEF FleetSpec

\* run_once and serve keep the pass state well formed: a pass never takes more units
\* than the fleet has.
THEOREM FleetTypeCorrect ==
  ASSUME Orderly
  PROVE  FleetSpec => []FleetTypeOK
<1>1. FleetInv => FleetTypeOK
  BY DEF FleetInv
<1>2. QED BY FleetInvariance, <1>1, PTL

\* Leaving run_once or serve, by return or by exception, frees the lock.
THEOREM ExitsFree ==
  ASSUME Orderly
  PROVE  FleetSpec => EveryExitFreesTheLock
<1>1. ASSUME FleetInv, FleetNext, NEW p \in Procs,
             at[p] \in {"held", "remove"}, at'[p] = "idle", p \in alive'
      PROVE  lockFile' # Lock(p, TRUE)
  <2>1. PICK r \in Procs : HostNext(r)
    BY <1>1 DEF FleetNext
  <2>2. lockFile = Lock(p, TRUE) /\ Mine(p)
    BY <1>1 DEF FleetInv, LockInv, OwnersMatch, Holding, Lock, Mine
  <2>3. p = r /\ ~HostLoop(r)
    <3>1. HostLoop(r) => at' = at
      BY DEF HostLoop, Admit, ReconcileUnit, PassDone, OnPass, StopCheck, Sleep, Raises,
             Working, lockVars
    <3>2. ~HostLoop(r)
      BY <1>1, <3>1
    <3>3. AcquireBegin(r) \/ Acquire(r) \/ EndRelease(r) \/ LockFault(r)
      BY <2>1, <3>2 DEF HostNext, HostBegin, HostAcquire, HostRelease, HostFault
    <3>4. QED BY <1>1, <3>2, <3>3, OneMoves DEF FleetInv, FleetTypeOK
  <2>4. ReleaseUnlink(p)
    <3>1. ~AcquireBegin(p) /\ ~Acquire(p)
      BY <1>1
      DEF AcquireBegin, Acquire, Create, CreateExists, Refuse, Steal, StealUnlink, WriteBody
    <3>2. ~LockFault(p)
      BY <1>1
      DEF LockFault, WriteFails, Die, Start, FleetInv, LockInv, OnlyLiveAct
    <3>3. EndRelease(p)
      BY <2>1, <2>3, <3>1, <3>2 DEF HostNext, HostBegin, HostAcquire, HostRelease, HostFault
    <3>4. ~ReleaseNotOwned(p)
      BY <2>2 DEF ReleaseNotOwned
    <3>5. ~Release(p)
      BY <1>1, OthersStay, Places DEF Release, FleetInv, FleetTypeOK
    <3>6. QED BY <3>3, <3>4, <3>5 DEF EndRelease
  <2>5. QED BY <2>4 DEF ReleaseUnlink, Lock, NoLock
<1>2. FleetInv /\ [FleetNext]_fleetVars =>
        [\A p \in Procs :
           (at[p] \in {"held", "remove"} /\ at'[p] = "idle" /\ p \in alive')
             => lockFile' # Lock(p, TRUE)]_fleetVars
  BY <1>1
<1>3. QED BY FleetInvariance, <1>2, PTL DEF FleetSpec, EveryExitFreesTheLock

(***************************************************************************)
(* The refinement of FleetPasses.                                          *)
(***************************************************************************)

\* The driver of the current pass is the host that is in one, if any is.
DriverIs ==
  /\ \A p \in Procs : InPass(p) => Driver = p
  /\ (\A p \in Procs : ~InPass(p)) => Driver = NoProc

\* It is, because only one host holds the lock.
LEMMA TheDriver == FleetInv => DriverIs
<1> SUFFICES ASSUME FleetInv PROVE DriverIs
  OBVIOUS
<1>1. \A p, q \in Procs : InPass(p) /\ InPass(q) => p = q
  <2>1. \A p \in Procs : InPass(p) => at[p] = "held"
    BY DEF InPass, FleetInv, LoopFollowsLock
  <2>2. QED BY <2>1 DEF FleetInv, LockInv, OwnersMatch, Holding, Lock
<1>2. ASSUME NEW p \in Procs, InPass(p) PROVE Driver = p
  <2>1. Driver = CHOOSE q \in Procs : InPass(q)
    BY <1>2 DEF Driver
  <2>2. Driver \in Procs /\ InPass(Driver)
    BY <1>2, <2>1
  <2>3. QED BY <1>1, <1>2, <2>2
<1>3. (\A p \in Procs : ~InPass(p)) => Driver = NoProc
  BY DEF Driver
<1>4. QED BY <1>2, <1>3 DEF DriverIs

\* The same after a step.
LEMMA TheNextDriver == FleetInv' => DriverIs'
BY TheDriver, PTL

\* The initial state is one without a pass.
LEMMA InitNoPass == FleetInit => Passes!NoPass
<1>1. SUFFICES ASSUME FleetInit PROVE Passes!NoPass
  OBVIOUS
<1>2. \A p \in Procs : ~InPass(p)
  BY <1>1, Places DEF FleetInit, InPass
<1>3. Driver = NoProc
  BY <1>1, <1>2, TheDriver, FleetInitInv DEF DriverIs
<1>4. QED BY <1>3 DEF Passes!NoPass

\* A step that enters, leaves and advances no pass is a stutter.
LEMMA SamePass ==
  ASSUME FleetInv, FleetInv',
         \A q \in Procs : InPass(q)' <=> InPass(q),
         \A q \in Procs : InPass(q) => pass'[q].done = pass[q].done
                                    /\ (pass'[q].stage = "check" <=> pass[q].stage = "check")
  PROVE  UNCHANGED Passes!passVars
<1>1. CASE \E p \in Procs : InPass(p)
  <2>1. PICK p \in Procs : InPass(p)
    BY <1>1
  <2>2. Driver = p /\ Driver' = p
    BY <2>1, TheDriver, TheNextDriver DEF DriverIs
  <2>3. QED BY <2>1, <2>2, LockNames DEF Passes!passVars
<1>2. CASE \A p \in Procs : ~InPass(p)
  <2>1. Driver = NoProc /\ Driver' = NoProc
    BY <1>2, TheDriver, TheNextDriver DEF DriverIs
  <2>2. QED BY <2>1 DEF Passes!passVars
<1>3. QED BY <1>1, <1>2

\* A step of the driver that leaves its pass closes it.
LEMMA ClosePass ==
  ASSUME FleetInv, FleetInv', NEW p \in Procs, InPass(p), ~InPass(p)',
         \A q \in Procs : q # p => pass'[q] = pass[q]
  PROVE  Passes!Close
<1>1. Driver = p
  BY TheDriver DEF DriverIs
<1>2. \A q \in Procs : ~InPass(q)'
  <2>1. \A q \in Procs : InPass(q) => at[q] = "held"
    BY DEF InPass, FleetInv, LoopFollowsLock
  <2>2. \A q \in Procs : InPass(q) => q = p
    BY <2>1 DEF FleetInv, LockInv, OwnersMatch, Holding, Lock
  <2>3. QED BY <2>2 DEF InPass
<1>3. Driver' = NoProc
  BY <1>2, TheNextDriver DEF DriverIs
<1>4. QED BY <1>1, <1>3, LockNames DEF Passes!Close, Passes!NoPass

\* Every step of a host is a step of FleetPasses or a stutter.
LEMMA StepRefines ==
  ASSUME FleetInv, FleetInv', NEW p \in Procs, HostNext(p)
  PROVE  [Passes!PassesNext]_Passes!passVars
<1>1. LockTypeOK /\ FleetTypeOK
  BY DEF FleetInv, FleetTypeOK
<1>2. CASE HostBegin(p)
  <2>1. /\ pass'[p].stage = pass[p].stage /\ pass'[p].done = pass[p].done
        /\ \A q \in Procs : q # p => pass'[q] = pass[q]
    BY <1>1, <1>2 DEF HostBegin, FleetTypeOK
  <2>2. QED BY <2>1, SamePass DEF InPass
<1>3. CASE HostAcquire(p)
  <2>1. at[p] \in Acquiring
    BY <1>3
    DEF HostAcquire, Acquire, Create, CreateExists, Refuse, Steal, StealUnlink, WriteBody,
        Acquiring
  <2>2. ~InPass(p)
    BY <2>1 DEF FleetInv, LoopFollowsLock, InPass, Acquiring
  <2>3. ~InPass(p)' /\ \A q \in Procs : q # p => pass'[q] = pass[q]
    <3>1. CASE Enter(p, "admit", 0)
      BY <1>1, <3>1, PassMoves, Places DEF InPass, Stages
    <3>2. CASE pass' = [pass EXCEPT ![p] = Away]
      BY <1>1, <3>2, PassMoves, Places DEF InPass
    <3>3. CASE pass' = pass
      BY <2>2, <3>3 DEF InPass
    <3>4. QED BY <1>3, <3>1, <3>2, <3>3 DEF HostAcquire
  <2>4. QED BY <2>2, <2>3, SamePass DEF InPass
<1>4. CASE HostRelease(p) \/ HostFault(p)
  <2>1. CASE pass' = pass
    BY <2>1, SamePass DEF InPass
  <2>2. CASE pass' = [pass EXCEPT ![p] = Away]
    <3>1. ~InPass(p)' /\ \A q \in Procs : q # p => pass'[q] = pass[q]
      BY <1>1, <2>2, PassMoves, Places DEF InPass
    <3>2. CASE InPass(p)
      BY <3>1, <3>2, ClosePass DEF Passes!PassesNext
    <3>3. CASE ~InPass(p)
      BY <3>1, <3>3, SamePass DEF InPass
    <3>4. QED BY <3>2, <3>3
  <2>3. QED BY <1>4, <2>1, <2>2 DEF HostRelease, HostFault
<1>5. CASE HostLoop(p)
  <2>1. pass[p].done \in 0..Units
    BY <1>1 DEF FleetTypeOK
  <2>2. CASE Admit(p)
    <3>1. /\ pass'[p].stage = "units" /\ pass'[p].done = 0 /\ pass[p].stage = "admit"
          /\ \A q \in Procs : q # p => pass'[q] = pass[q]
      BY <1>1, <2>2, PassMoves, Places DEF Admit, Working, Stages
    <3>2. at[p] = "held"
      BY <2>2 DEF Admit, Working
    <3>3. \A q \in Procs : ~InPass(q)
      <4>1. \A q \in Procs : InPass(q) => at[q] = "held"
        BY DEF InPass, FleetInv, LoopFollowsLock
      <4>2. \A q \in Procs : at[q] = "held" => q = p
        BY <3>2 DEF FleetInv, LockInv, OwnersMatch, Holding, Lock
      <4>3. QED BY <3>1, <4>1, <4>2 DEF InPass
    <3>4. Driver = NoProc /\ Driver' = p
      BY <3>1, <3>3, TheDriver, TheNextDriver DEF InPass, DriverIs
    <3>5. Passes!Open(p)
      BY <3>1, <3>4, LockNames DEF Passes!Open, Passes!NoPass
    <3>6. QED BY <3>5 DEF Passes!PassesNext
  <2>3. CASE ReconcileUnit(p)
    <3>1. pass[p].done + 1 \in 0..Units
      BY <2>1, <2>3, FleetSize DEF ReconcileUnit
    <3>2. /\ pass'[p].stage = "units" /\ pass'[p].done = pass[p].done + 1
          /\ pass[p].stage = "units" /\ pass[p].done < Units
      BY <1>1, <2>3, <3>1, PassMoves DEF ReconcileUnit, Working, Stages
    <3>3. Driver = p /\ Driver' = p
      BY <3>2, TheDriver, TheNextDriver DEF InPass, DriverIs
    <3>4. Passes!Visit
      BY <3>2, <3>3, LockNames DEF Passes!Visit
    <3>5. QED BY <3>4 DEF Passes!PassesNext
  <2>4. CASE PassDone(p)
    <3>1. pass[p].stage = "units" /\ pass[p].done = Units
      BY <2>4 DEF PassDone, Working
    <3>2. /\ pass'[p].stage \in {"report", "leave"} /\ pass'[p].done = pass[p].done
          /\ \A q \in Procs : q # p => pass'[q] = pass[q]
      BY <1>1, <2>1, <2>4, PassMoves DEF PassDone, Stages
    <3>3. CASE pass'[p].stage = "report"
      BY <3>1, <3>2, <3>3, SamePass DEF InPass
    <3>4. CASE pass'[p].stage = "leave"
      BY <3>1, <3>2, <3>4, ClosePass DEF InPass, Passes!PassesNext
    <3>5. QED BY <3>2, <3>3, <3>4
  <2>5. CASE OnPass(p)
    <3>1. /\ pass'[p].stage = "check" /\ pass'[p].done = pass[p].done
          /\ pass[p].stage = "report"
      BY <1>1, <2>1, <2>5, PassMoves DEF OnPass, Working, Stages
    <3>2. pass[p].done = Units
      BY <3>1 DEF FleetInv, ReportedInFull
    <3>3. Driver = p /\ Driver' = p
      BY <3>1, TheDriver, TheNextDriver DEF InPass, DriverIs
    <3>4. Passes!Announce
      BY <3>1, <3>2, <3>3, LockNames DEF Passes!Announce
    <3>5. QED BY <3>4 DEF Passes!PassesNext
  <2>6. CASE StopCheck(p) \/ Sleep(p) \/ Raises(p)
    <3>1. /\ pass'[p].stage \in {"leave", "sleep", "admit"}
          /\ \A q \in Procs : q # p => pass'[q] = pass[q]
      BY <1>1, <2>6, PassMoves, Places DEF StopCheck, Sleep, Raises, Stages
    <3>2. CASE InPass(p)
      BY <3>1, <3>2, ClosePass DEF InPass, Passes!PassesNext
    <3>3. CASE ~InPass(p)
      BY <3>1, <3>3, SamePass DEF InPass
    <3>4. QED BY <3>2, <3>3
  <2>7. QED BY <1>5, <2>2, <2>3, <2>4, <2>5, <2>6 DEF HostLoop
<1>6. QED BY <1>2, <1>3, <1>4, <1>5 DEF HostNext

\* The hosts, under the lock, implement FleetPasses.
THEOREM FleetRefinement ==
  ASSUME Orderly
  PROVE  FleetSpec => ImplementsFleetPasses
<1>1. FleetInv /\ FleetInv' /\ [FleetNext]_fleetVars
        => [Passes!PassesNext]_Passes!passVars
  <2>1. SUFFICES ASSUME FleetInv, FleetInv', [FleetNext]_fleetVars
                 PROVE  [Passes!PassesNext]_Passes!passVars
    OBVIOUS
  <2>2. CASE FleetNext
    BY <2>1, <2>2, StepRefines DEF FleetNext
  <2>3. CASE UNCHANGED fleetVars
    BY <2>1, <2>3, SamePass DEF fleetVars, InPass
  <2>4. QED BY <2>1, <2>2, <2>3
<1>2. QED
  BY InitNoPass, FleetInvariance, <1>1, PTL
  DEF FleetSpec, ImplementsFleetPasses, Passes!PassesSpec
=============================================================================
