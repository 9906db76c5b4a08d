------------------------ MODULE UnitLifecycle_proofs ------------------------
(***************************************************************************)
(* Proofs about UnitLifecycle: types, the fence that pid.json is, what     *)
(* follows from it, and the refinement of LaunchFence.                     *)
(***************************************************************************)
EXTENDS UnitLifecycleInv, TLAPS

\* The distinguished values belong to the sets the type invariant names.
LEMMA Values == /\ NoFile \notin PidFile /\ DefaultState \in StateFile
                /\ NoChild \in Child /\ Idle \in Proc
<1> USE NamesAssumption
<1>1. NoFile \notin PidFile /\ DefaultState \in StateFile /\ NoChild \in Child
  BY DEF NoFile, PidFile, Readable, DefaultState, StateFile, Desires, NoChild, Child, InGate, Live, Ended
<1>2. Idle \in Proc
  BY <1>1 DEF Idle, Proc, Pcs, Launching, Clearing
<1> QED BY <1>1, <1>2

\* The first state of a unit directory is well typed and nobody is in a call.
LEMMA TypeInit == Init => TypeOK /\ CallShape
<1> SUFFICES ASSUME Init PROVE TypeOK /\ CallShape
  OBVIOUS
<1> USE NamesAssumption, CallsAssumption, BoundsAssumption, Values
<1>1. stateFile \in StateFile
  BY DEF Init, StateFile, DefaultState
<1>2. TypeOK
  BY <1>1 DEF Init, TypeOK
<1>3. CallShape
  BY DEF Init, CallShape, Shaped, Idle, Launching, Clearing
<1> QED BY <1>2, <1>3

\* Replacing a process's locals by well-typed ones keeps proc well-typed.
LEMMA BecomeType ==
  ASSUME TypeOK, NEW p \in Procs, NEW r \in Proc, Become(p, r)
  PROVE  proc' \in [Procs -> Proc]
BY DEF TypeOK, Become

\* Releasing the flock keeps its holder well typed.
LEMMA UnlockType ==
  ASSUME TypeOK, NEW p \in Procs, Unlock(p)
  PROVE  unitLock' \in Procs \cup {NoProc}
BY DEF TypeOK, Unlock

\* Returning, normally or by exception, keeps the types.
LEMMA ReturnType ==
  ASSUME TypeOK, NEW p \in Procs, Return(p)
  PROVE  proc' \in [Procs -> Proc] /\ unitLock' \in Procs \cup {NoProc}
BY BecomeType, UnlockType, Values DEF Return

\* Moving to another point of a call keeps the locals well typed.
LEMMA GoToType ==
  ASSUME TypeOK, NEW p \in Procs, NEW pc \in Pcs, GoTo(p, pc)
  PROVE  proc' \in [Procs -> Proc]
<1>1. [proc[p] EXCEPT !.pc = pc] \in Proc
  BY DEF TypeOK, Proc
<1> QED BY <1>1, BecomeType DEF GoTo

\* Changing the loaded state and moving on keeps the locals well typed.
LEMMA DecideType ==
  ASSUME TypeOK, NEW p \in Procs, NEW state \in StateFile, NEW pc \in Pcs, Decide(p, state, pc)
  PROVE  proc' \in [Procs -> Proc]
<1>1. [proc[p] EXCEPT !.state = state, !.pc = pc] \in Proc
  BY DEF TypeOK, Proc
<1> QED BY <1>1, BecomeType DEF Decide

\* A reconcile pass that saves, or a bare spawn that returns, keeps the types.
LEMMA ReportType ==
  ASSUME TypeOK, NEW p \in Procs, NEW state \in StateFile, Report(p, state)
  PROVE  proc' \in [Procs -> Proc] /\ unitLock' \in Procs \cup {NoProc}
<1>1. "save" \in Pcs
  BY DEF Pcs
<1> QED BY <1>1, DecideType, ReturnType DEF Report, TypeOK

\* The state reconcile_unit computes after a launch is well typed.
LEMMA SpawnedType ==
  ASSUME TypeOK, NEW p \in Procs, NEW t \in Tokens \cup {NoToken}, NEW alive \in BOOLEAN,
         Spawned(p, t, alive)
  PROVE  proc' \in [Procs -> Proc] /\ unitLock' \in Procs \cup {NoProc}
<1>1. proc[p].state \in StateFile
  BY DEF TypeOK, Proc
<1>2. Generation(p) \in Nat
  BY <1>1 DEF Generation, StateFile
<1>3. [proc[p].state EXCEPT !.generation = Generation(p), !.token = t,
                            !.actual = IF alive THEN "running" ELSE "unknown",
                            !.verify = ~alive] \in StateFile
  BY <1>1, <1>2 DEF StateFile
<1> QED BY <1>3, ReportType DEF Spawned

\* Closing the parent's end of a gate keeps the children well typed.
LEMMA CloseType ==
  ASSUME TypeOK, NEW t
  PROVE  CloseParentEnd(t) \in [Tokens -> Child]
BY DEF TypeOK, CloseParentEnd, Child

\* The points a call can be at.
LEMMA PcNames == Pcs = {"idle", "observe", "lstat", "create", "stop_read", "stop_write", "save",
                        "intent", "popen", "ready", "persist", "ack", "probe", "audit", "unlink"}
BY DEF Pcs, Launching, Clearing

\* The locals of a call that begins with the state it loaded, or with a token.
LEMMA BeginType ==
  ASSUME NEW kind \in CallKinds, NEW pc \in Pcs
  PROVE  /\ [Idle EXCEPT !.call = kind, !.pc = pc] \in Proc
         /\ \A state \in StateFile :
              [Idle EXCEPT !.call = kind, !.pc = pc, !.state = state] \in Proc
         /\ \A t \in Tokens : [Idle EXCEPT !.call = kind, !.token = t, !.pc = pc] \in Proc
BY Values DEF Proc

\* The changes the code makes to state.json keep it well typed.
LEMMA StateType ==
  ASSUME NEW s \in StateFile
  PROVE  /\ [s EXCEPT !.actual = "running", !.verify = TRUE] \in StateFile
         /\ [s EXCEPT !.actual = "unknown", !.verify = TRUE] \in StateFile
         /\ [s EXCEPT !.actual = "stopped"] \in StateFile
         /\ \A d \in Desires : [s EXCEPT !.desired = d] \in StateFile
         /\ \A t \in Tokens : [s EXCEPT !.beat = t] \in StateFile
BY DEF StateFile

\* The loaded state and the generation derived from it are well typed.
LEMMA LoadedType == ASSUME TypeOK, NEW p \in Procs PROVE proc[p].state \in StateFile /\ Generation(p) \in Nat
<1>1. proc[p].state \in StateFile
  BY DEF TypeOK, Proc
<1> QED BY <1>1 DEF Generation, StateFile

\* A child that enters a phase stays well typed.
LEMMA PhaseType ==
  ASSUME TypeOK, NEW t,
         NEW phase \in {"unused", "intended"} \cup InGate \cup Live \cup Ended
  PROVE  [child EXCEPT ![t].phase = phase] \in [Tokens -> Child]
BY DEF TypeOK, Child

\* A child whose gate is acknowledged or whose group is asked to end, one that reports
\* ready, and one that is minted with a generation stay well typed.
LEMMA AckType ==
  ASSUME TypeOK, NEW t
  PROVE  [child EXCEPT ![t].parent = "acked"] \in [Tokens -> Child]
BY DEF TypeOK, Child

LEMMA TermType ==
  ASSUME TypeOK, NEW t
  PROVE  [child EXCEPT ![t].term = TRUE] \in [Tokens -> Child]
BY DEF TypeOK, Child

LEMMA ReadyType ==
  ASSUME TypeOK, NEW t
  PROVE  [child EXCEPT ![t].phase = "ready", ![t].ready = TRUE] \in [Tokens -> Child]
BY DEF TypeOK, Child, InGate

LEMMA MintType ==
  ASSUME TypeOK, NEW t, NEW g \in Nat
  PROVE  [child EXCEPT ![t].phase = "intended", ![t].generation = g] \in [Tokens -> Child]
BY DEF TypeOK, Child

\* Every action keeps the types.
LEMMA TypeStep ==
  ASSUME TypeOK, CallShape, Next
  PROVE  TypeOK'
<1> USE NamesAssumption, CallsAssumption, BoundsAssumption
<1>1. ASSUME NEW p \in Procs, ReconcileBegin(p) PROVE TypeOK'
  <2>1. [Idle EXCEPT !.call = "reconcile", !.pc = "observe", !.state = stateFile] \in Proc
    BY PcNames, BeginType DEF CallKinds, TypeOK
  <2> QED BY <1>1, <2>1, BecomeType DEF ReconcileBegin, TypeOK
<1>2. ASSUME NEW p \in Procs, ObserveTombstone(p) PROVE TypeOK'
  BY <1>2, LoadedType, StateType, DecideType, PcNames DEF ObserveTombstone, TypeOK
<1>3. ASSUME NEW p \in Procs, ObserveStopped(p) PROVE TypeOK'
  BY <1>3, LoadedType, StateType, DecideType, PcNames DEF ObserveStopped, TypeOK
<1>4. ASSUME NEW p \in Procs, Save(p) PROVE TypeOK'
  BY <1>4, ReturnType, LoadedType DEF Save, TypeOK
<1>5. ASSUME NEW p \in Procs, SpawnBegin(p) PROVE TypeOK'
  <2>1. [Idle EXCEPT !.call = "spawn", !.pc = "lstat"] \in Proc
    BY PcNames, BeginType, Values DEF CallKinds
  <2> QED BY <1>5, <2>1, BecomeType DEF SpawnBegin, TypeOK
<1>6. ASSUME NEW p \in Procs, SpawnFenced(p) PROVE TypeOK'
  BY <1>6, LoadedType, StateType, ReportType DEF SpawnFenced, Tombstoned, TypeOK
<1>7. ASSUME NEW p \in Procs, SpawnUnfenced(p) PROVE TypeOK'
  BY <1>7, GoToType, PcNames DEF SpawnUnfenced, TypeOK
<1>8. ASSUME NEW p \in Procs, NEW t \in Tokens, SpawnCreate(p, t) PROVE TypeOK'
  <2>1. [proc[p] EXCEPT !.token = t, !.pc = "intent"] \in Proc
    BY PcNames DEF TypeOK, Proc
  <2>2. pidFile' \in PidFile
    BY <1>8, LoadedType DEF SpawnCreate, PidFile
  <2>3. child' \in [Tokens -> Child]
    BY <1>8, LoadedType, MintType DEF SpawnCreate
  <2> QED BY <1>8, <2>1, <2>2, <2>3, BecomeType DEF SpawnCreate, TypeOK
<1>9. ASSUME NEW p \in Procs, SpawnLosesRace(p) PROVE TypeOK'
  BY <1>9, ReturnType DEF SpawnLosesRace, TypeOK
<1>10. ASSUME NEW p \in Procs, SpawnIntent(p) PROVE TypeOK'
  <2>1. proc[p].token \in Tokens
    BY <1>10 DEF SpawnIntent, At, CallShape, Shaped, Launching
  <2>2. pidFile.token = proc[p].token => pidFile \in PidFile
    BY <2>1 DEF TypeOK, NoFile
  <2>3. pidFile \in PidFile => [pidFile EXCEPT !.status = "launch_intent"] \in PidFile
    BY DEF PidFile, Readable
  <2>4. pidFile' \in PidFile \cup {NoFile}
    BY <1>10, <2>2, <2>3 DEF SpawnIntent, TypeOK
  <2> QED BY <1>10, <2>4, GoToType, PcNames DEF SpawnIntent, TypeOK
<1>11. ASSUME NEW p \in Procs, SpawnPopen(p) PROVE TypeOK'
  BY <1>11, PhaseType, GoToType, PcNames DEF SpawnPopen, InGate, TypeOK
<1>12. ASSUME NEW p \in Procs, SpawnReady(p) PROVE TypeOK'
  BY <1>12, GoToType, PcNames DEF SpawnReady, TypeOK
<1>13. ASSUME NEW p \in Procs, SpawnEof(p) PROVE TypeOK'
  BY <1>13, CloseType, SpawnedType DEF SpawnEof, TypeOK
<1>14. ASSUME NEW p \in Procs, SpawnPersist(p) PROVE TypeOK'
  <2>1. proc[p].token \in Tokens
    BY <1>14 DEF SpawnPersist, At, CallShape, Shaped, Launching
  <2>2. pidFile' \in PidFile
    BY <1>14, <2>1, LoadedType DEF SpawnPersist, PidFile, Readable
  <2>3. handles' \in [Procs -> SUBSET Tokens]
    BY <1>14, <2>1 DEF SpawnPersist, TypeOK
  <2> QED BY <1>14, <2>2, <2>3, GoToType, PcNames DEF SpawnPersist, TypeOK
<1>15. ASSUME NEW p \in Procs, SpawnAck(p) PROVE TypeOK'
  <2>1. child' \in [Tokens -> Child]
    BY <1>15, AckType DEF SpawnAck
  <2> QED BY <1>15, <2>1, GoToType, PcNames DEF SpawnAck, TypeOK
<1>16. ASSUME NEW p \in Procs, SpawnRaise(p) PROVE TypeOK'
  BY <1>16, CloseType, ReturnType DEF SpawnRaise, TypeOK
<1>17. ASSUME NEW p \in Procs, ProbeAlive(p) PROVE TypeOK'
  <2>1. proc[p].token \in Tokens
    BY <1>17 DEF ProbeAlive, At, CallShape, Shaped, Launching
  <2> QED BY <1>17, <2>1, SpawnedType DEF ProbeAlive, TypeOK
<1>18. ASSUME NEW p \in Procs, ProbeExited(p) PROVE TypeOK'
  <2>1. proc[p].token \in Tokens
    BY <1>18 DEF ProbeExited, At, CallShape, Shaped, Launching
  <2> QED BY <1>18, <2>1, SpawnedType DEF ProbeExited, TypeOK
<1>19. ASSUME NEW p \in Procs, StopBegin(p) PROVE TypeOK'
  <2>1. [Idle EXCEPT !.call = "stop", !.pc = "stop_read"] \in Proc
    BY PcNames, BeginType, Values DEF CallKinds
  <2> QED BY <1>19, <2>1, BecomeType DEF StopBegin, TypeOK
<1>20. ASSUME NEW p \in Procs, StopUnreadable(p) PROVE TypeOK'
  BY <1>20, LoadedType, ReportType DEF StopUnreadable, TypeOK
<1>21. ASSUME NEW p \in Procs, StopSignals(p) PROVE TypeOK'
  <2>1. [proc[p] EXCEPT !.data = pidFile, !.pc = "stop_write"] \in Proc
    BY PcNames DEF TypeOK, Proc
  <2>2. child' \in [Tokens -> Child]
    BY <1>21, TermType DEF StopSignals
  <2> QED BY <1>21, <2>1, <2>2, BecomeType DEF StopSignals, TypeOK
<1>22. ASSUME NEW p \in Procs, StopRetires(p) PROVE TypeOK'
  <2>1. [proc[p] EXCEPT !.data = pidFile, !.pc = "stop_write"] \in Proc
    BY PcNames DEF TypeOK, Proc
  <2> QED BY <1>22, <2>1, BecomeType DEF StopRetires, TypeOK
<1>23. ASSUME NEW p \in Procs, StopWrite(p) PROVE TypeOK'
  <2>1. proc[p].data \in PidFile
    BY <1>23 DEF StopWrite, At, CallShape, Shaped
  <2>2. pidFile' \in PidFile
    BY <1>23, <2>1 DEF StopWrite, PidFile, Readable
  <2> QED BY <1>23, <2>2, LoadedType, ReportType DEF StopWrite, TypeOK
<1>24. ASSUME NEW p \in Procs, NEW t \in Tokens, ClearBegin(p, t) PROVE TypeOK'
  <2>1. [Idle EXCEPT !.call = "clear", !.token = t, !.pc = "audit"] \in Proc
    BY PcNames, BeginType, Values DEF CallKinds
  <2> QED BY <1>24, <2>1, BecomeType DEF ClearBegin, TypeOK
<1>25. ASSUME NEW p \in Procs, ClearAudit(p) PROVE TypeOK'
  <2>1. proc[p].token \in Tokens
    BY <1>25 DEF ClearAudit, At, CallShape, Shaped, Clearing
  <2> QED BY <1>25, <2>1, GoToType, PcNames DEF ClearAudit, TypeOK
<1>26. ASSUME NEW p \in Procs, ClearUnlink(p) PROVE TypeOK'
  BY <1>26, ReturnType DEF ClearUnlink, TypeOK
<1>27. ASSUME NEW p \in Procs, NEW d \in Requests, SetDesiredBegin(p, d) PROVE TypeOK'
  <2>1. [stateFile EXCEPT !.desired = d] \in StateFile
    BY StateType DEF TypeOK
  <2>2. [Idle EXCEPT !.call = "set_desired", !.pc = "save",
                    !.state = [stateFile EXCEPT !.desired = d]] \in Proc
    BY <2>1, PcNames, BeginType DEF CallKinds
  <2> QED BY <1>27, <2>2, BecomeType DEF SetDesiredBegin, TypeOK
<1>28. ASSUME NEW p \in Procs, NEW t \in Tokens, HeartbeatBegin(p, t) PROVE TypeOK'
  <2>1. [stateFile EXCEPT !.beat = t] \in StateFile
    BY StateType DEF TypeOK
  <2>2. [Idle EXCEPT !.call = "heartbeat", !.pc = "save",
                    !.state = [stateFile EXCEPT !.beat = t]] \in Proc
    BY <2>1, PcNames, BeginType DEF CallKinds
  <2> QED BY <1>28, <2>2, BecomeType DEF HeartbeatBegin, TypeOK
<1>29. ASSUME NEW p \in Procs, Crash(p) PROVE TypeOK'
  BY <1>29, CloseType, ReturnType DEF Crash, TypeOK
<1>30. ASSUME NEW p \in Procs, IoError(p) PROVE TypeOK'
  BY <1>30, ReturnType DEF IoError, TypeOK
<1>31. ASSUME NEW t \in Tokens, ChildReady(t) PROVE TypeOK'
  <2>1. child' \in [Tokens -> Child]
    BY <1>31, ReadyType DEF ChildReady
  <2> QED BY <1>31, <2>1 DEF ChildReady, TypeOK
<1>32. ASSUME NEW t \in Tokens, ChildExec(t) PROVE TypeOK'
  BY <1>32, PhaseType DEF ChildExec, Live, TypeOK
<1>33. ASSUME NEW t \in Tokens, ChildEof(t) PROVE TypeOK'
  BY <1>33, PhaseType DEF ChildEof, Ended, TypeOK
<1>34. ASSUME NEW t \in Tokens, ChildAborts(t) PROVE TypeOK'
  BY <1>34, PhaseType DEF ChildAborts, Ended, TypeOK
<1>35. ASSUME NEW t \in Tokens, LeaderExits(t) PROVE TypeOK'
  BY <1>35, PhaseType DEF LeaderExits, Live, TypeOK
<1>36. ASSUME NEW t \in Tokens, WorkloadEnds(t) PROVE TypeOK'
  BY <1>36, PhaseType DEF WorkloadEnds, Ended, TypeOK
<1> QED BY <1>1, <1>2, <1>3, <1>4, <1>5, <1>6, <1>7, <1>8, <1>9, <1>10, <1>11, <1>12, <1>13, <1>14, <1>15, <1>16, <1>17, <1>18, <1>19, <1>20, <1>21, <1>22, <1>23, <1>24, <1>25, <1>26, <1>27, <1>28, <1>29, <1>30, <1>31, <1>32, <1>33, <1>34, <1>35, <1>36 DEF Next, Continue, Begin, GateStep

\* A process that moves leaves the other processes' locals alone.
LEMMA BecomeLocals ==
  ASSUME TypeOK, NEW p \in Procs, NEW r, Become(p, r)
  PROVE  proc'[p] = r /\ \A q \in Procs \ {p} : proc'[q] = proc[q]
BY DEF TypeOK, Become

\* A step that keeps the unit lock keeps its holder's kind of call.
LEMMA BecomeControl ==
  ASSUME TypeOK, CallShape, LockHeld, NEW p \in Procs, NEW r, Become(p, r), Shaped(p, r),
         r.call = proc[p].call \/ {r.call, proc[p].call} \cap {"reconcile", "clear"} = {},
         UNCHANGED unitLock
  PROVE  CallShape' /\ LockHeld'
BY BecomeLocals DEF CallShape, LockHeld

\* A process that returns is idle and holds no lock.
LEMMA ReturnControl ==
  ASSUME TypeOK, CallShape, LockHeld, NEW p \in Procs, Return(p)
  PROVE  CallShape' /\ LockHeld'
<1>1. Shaped(p, Idle) /\ Idle.call = "none"
  BY DEF Shaped, Idle, Launching, Clearing
<1>2. proc'[p] = Idle /\ \A q \in Procs \ {p} : proc'[q] = proc[q]
  BY BecomeLocals DEF Return
<1>3. CallShape'
  BY <1>1, <1>2 DEF CallShape
<1>4. LockHeld'
  BY <1>1, <1>2, NamesAssumption DEF LockHeld, Return, Unlock
<1> QED BY <1>3, <1>4

\* Moving on between points that ask the same of the locals.
LEMMA GoToControl ==
  ASSUME TypeOK, CallShape, LockHeld, NEW p \in Procs, NEW pc, GoTo(p, pc), UNCHANGED unitLock,
         \/ proc[p].pc \in Launching /\ pc \in Launching
         \/ proc[p].pc \in Clearing /\ pc \in Clearing
         \/ proc[p].pc = "lstat" /\ pc = "create"
  PROVE  CallShape' /\ LockHeld'
<1> DEFINE r == [proc[p] EXCEPT !.pc = pc]
<1>1. r.call = proc[p].call /\ r.pc = pc /\ r.token = proc[p].token /\ r.data = proc[p].data
  BY DEF TypeOK, Proc
<1>2. Shaped(p, r)
  BY <1>1 DEF CallShape, Shaped, Launching, Clearing
<1> QED BY <1>1, <1>2, BecomeControl DEF GoTo

\* A reconcile pass goes on to save, spawn or stop, and still holds the flock.
LEMMA DecideControl ==
  ASSUME TypeOK, CallShape, LockHeld, NEW p \in Procs, NEW state, NEW pc,
         Decide(p, state, pc), UNCHANGED unitLock,
         proc[p].call = "reconcile" , pc \in {"save", "lstat", "stop_read"}
  PROVE  CallShape' /\ LockHeld'
<1> DEFINE r == [proc[p] EXCEPT !.state = state, !.pc = pc]
<1>1. r.call = proc[p].call /\ r.pc = pc
  BY DEF TypeOK, Proc
<1>2. Shaped(p, r)
  BY <1>1 DEF CallShape, Shaped, Launching, Clearing
<1> QED BY <1>1, <1>2, BecomeControl DEF Decide

\* The same for the report of a launch.
LEMMA ReportControl ==
  ASSUME TypeOK, CallShape, LockHeld, NEW p \in Procs, NEW state, Report(p, state)
  PROVE  CallShape' /\ LockHeld'
BY DecideControl, ReturnControl DEF Report

\* Every action keeps the shape of the locals and the flock's holder right.
LEMMA ControlStep ==
  ASSUME TypeOK, CallShape, LockHeld, Next
  PROVE  CallShape' /\ LockHeld'
<1>1. ASSUME NEW p \in Procs, ReconcileBegin(p) PROVE CallShape' /\ LockHeld'
  <2> DEFINE r == [Idle EXCEPT !.call = "reconcile", !.pc = "observe", !.state = stateFile]
  <2>1. Shaped(p, r) /\ r.call \in {"reconcile", "clear"}
    BY <1>1 DEF ReconcileBegin, MayCall, At, CallShape, Shaped, Idle, Launching, Clearing
  <2>2. proc'[p] = r /\ \A q \in Procs \ {p} : proc'[q] = proc[q]
    BY <1>1, BecomeLocals DEF ReconcileBegin
  <2>3. CallShape'
    BY <2>1, <2>2 DEF CallShape
  <2>4. LockHeld'
    BY <1>1, <2>1, <2>2, NamesAssumption DEF LockHeld, ReconcileBegin
  <2> QED BY <2>3, <2>4
<1>2. ASSUME NEW p \in Procs, ObserveTombstone(p) PROVE CallShape' /\ LockHeld'
  BY <1>2, DecideControl DEF ObserveTombstone, At, CallShape, Shaped
<1>3. ASSUME NEW p \in Procs, ObserveStopped(p) PROVE CallShape' /\ LockHeld'
  BY <1>3, DecideControl DEF ObserveStopped, At, CallShape, Shaped
<1>4. ASSUME NEW p \in Procs, Save(p) PROVE CallShape' /\ LockHeld'
  BY <1>4, ReturnControl DEF Save
<1>5. ASSUME NEW p \in Procs, SpawnBegin(p) PROVE CallShape' /\ LockHeld'
  <2> DEFINE r == [Idle EXCEPT !.call = "spawn", !.pc = "lstat"]
  <2>1. Shaped(p, r) /\ r.call \notin {"reconcile", "clear"} /\ proc[p].call = "none"
    BY <1>5 DEF SpawnBegin, MayCall, At, CallShape, Shaped, Idle, Launching, Clearing
  <2> QED BY <1>5, <2>1, BecomeControl DEF SpawnBegin
<1>6. ASSUME NEW p \in Procs, SpawnFenced(p) PROVE CallShape' /\ LockHeld'
  BY <1>6, ReportControl DEF SpawnFenced, Tombstoned
<1>7. ASSUME NEW p \in Procs, SpawnUnfenced(p) PROVE CallShape' /\ LockHeld'
  BY <1>7, GoToControl DEF SpawnUnfenced, At, Launching, Clearing
<1>8. ASSUME NEW p \in Procs, NEW t \in Tokens, SpawnCreate(p, t) PROVE CallShape' /\ LockHeld'
  <2> DEFINE r == [proc[p] EXCEPT !.token = t, !.pc = "intent"]
  <2>1. r.call = proc[p].call /\ r.pc = "intent" /\ r.token = t
    BY DEF TypeOK, Proc
  <2>2. Shaped(p, r)
    BY <1>8, <2>1 DEF SpawnCreate, At, CallShape, Shaped, Launching, Clearing
  <2> QED BY <1>8, <2>1, <2>2, BecomeControl DEF SpawnCreate
<1>9. ASSUME NEW p \in Procs, SpawnLosesRace(p) PROVE CallShape' /\ LockHeld'
  BY <1>9, ReturnControl DEF SpawnLosesRace
<1>10. ASSUME NEW p \in Procs, SpawnIntent(p) PROVE CallShape' /\ LockHeld'
  BY <1>10, GoToControl DEF SpawnIntent, At, Launching, Clearing
<1>11. ASSUME NEW p \in Procs, SpawnPopen(p) PROVE CallShape' /\ LockHeld'
  BY <1>11, GoToControl DEF SpawnPopen, At, Launching, Clearing
<1>12. ASSUME NEW p \in Procs, SpawnReady(p) PROVE CallShape' /\ LockHeld'
  BY <1>12, GoToControl DEF SpawnReady, At, Launching, Clearing
<1>13. ASSUME NEW p \in Procs, SpawnEof(p) PROVE CallShape' /\ LockHeld'
  BY <1>13, ReportControl DEF SpawnEof, Spawned
<1>14. ASSUME NEW p \in Procs, SpawnPersist(p) PROVE CallShape' /\ LockHeld'
  BY <1>14, GoToControl DEF SpawnPersist, At, Launching, Clearing
<1>15. ASSUME NEW p \in Procs, SpawnAck(p) PROVE CallShape' /\ LockHeld'
  BY <1>15, GoToControl DEF SpawnAck, At, Launching, Clearing
<1>16. ASSUME NEW p \in Procs, SpawnRaise(p) PROVE CallShape' /\ LockHeld'
  BY <1>16, ReturnControl DEF SpawnRaise
<1>17. ASSUME NEW p \in Procs, ProbeAlive(p) PROVE CallShape' /\ LockHeld'
  BY <1>17, ReportControl DEF ProbeAlive, Spawned
<1>18. ASSUME NEW p \in Procs, ProbeExited(p) PROVE CallShape' /\ LockHeld'
  BY <1>18, ReportControl DEF ProbeExited, Spawned
<1>19. ASSUME NEW p \in Procs, StopBegin(p) PROVE CallShape' /\ LockHeld'
  <2> DEFINE r == [Idle EXCEPT !.call = "stop", !.pc = "stop_read"]
  <2>1. Shaped(p, r) /\ r.call \notin {"reconcile", "clear"} /\ proc[p].call = "none"
    BY <1>19 DEF StopBegin, MayCall, At, CallShape, Shaped, Idle, Launching, Clearing
  <2> QED BY <1>19, <2>1, BecomeControl DEF StopBegin
<1>20. ASSUME NEW p \in Procs, StopUnreadable(p) PROVE CallShape' /\ LockHeld'
  BY <1>20, ReportControl DEF StopUnreadable
<1>21. ASSUME NEW p \in Procs, StopSignals(p) PROVE CallShape' /\ LockHeld'
  <2> DEFINE r == [proc[p] EXCEPT !.data = pidFile, !.pc = "stop_write"]
  <2>1. r.call = proc[p].call /\ r.pc = "stop_write" /\ r.data = pidFile
    BY DEF TypeOK, Proc
  <2>2. pidFile \in PidFile
    BY <1>21 DEF StopSignals, ReadableFile, TypeOK, Readable, NoFile
  <2>3. Shaped(p, r)
    BY <1>21, <2>1, <2>2 DEF StopSignals, At, CallShape, Shaped, Launching, Clearing
  <2> QED BY <1>21, <2>1, <2>3, BecomeControl DEF StopSignals
<1>22. ASSUME NEW p \in Procs, StopRetires(p) PROVE CallShape' /\ LockHeld'
  <2> DEFINE r == [proc[p] EXCEPT !.data = pidFile, !.pc = "stop_write"]
  <2>1. r.call = proc[p].call /\ r.pc = "stop_write" /\ r.data = pidFile
    BY DEF TypeOK, Proc
  <2>2. pidFile \in PidFile
    BY <1>22 DEF StopRetires, ReadableFile, TypeOK, Readable, NoFile
  <2>3. Shaped(p, r)
    BY <1>22, <2>1, <2>2 DEF StopRetires, At, CallShape, Shaped, Launching, Clearing
  <2> QED BY <1>22, <2>1, <2>3, BecomeControl DEF StopRetires
<1>23. ASSUME NEW p \in Procs, StopWrite(p) PROVE CallShape' /\ LockHeld'
  BY <1>23, ReportControl DEF StopWrite
<1>24. ASSUME NEW p \in Procs, NEW t \in Tokens, ClearBegin(p, t) PROVE CallShape' /\ LockHeld'
  <2> DEFINE r == [Idle EXCEPT !.call = "clear", !.token = t, !.pc = "audit"]
  <2>1. Shaped(p, r) /\ r.call \in {"reconcile", "clear"}
    BY <1>24 DEF ClearBegin, MayCall, At, CallShape, Shaped, Idle, Launching, Clearing
  <2>2. proc'[p] = r /\ \A q \in Procs \ {p} : proc'[q] = proc[q]
    BY <1>24, BecomeLocals DEF ClearBegin
  <2>3. CallShape'
    BY <2>1, <2>2 DEF CallShape
  <2>4. LockHeld'
    BY <1>24, <2>1, <2>2, NamesAssumption DEF LockHeld, ClearBegin
  <2> QED BY <2>3, <2>4
<1>25. ASSUME NEW p \in Procs, ClearAudit(p) PROVE CallShape' /\ LockHeld'
  BY <1>25, GoToControl DEF ClearAudit, At, Launching, Clearing
<1>26. ASSUME NEW p \in Procs, ClearUnlink(p) PROVE CallShape' /\ LockHeld'
  BY <1>26, ReturnControl DEF ClearUnlink
<1>27. ASSUME NEW p \in Procs, NEW d \in Requests, SetDesiredBegin(p, d) PROVE CallShape' /\ LockHeld'
  <2> DEFINE r == [Idle EXCEPT !.call = "set_desired", !.pc = "save",
                                 !.state = [stateFile EXCEPT !.desired = d]]
  <2>1. Shaped(p, r) /\ r.call \notin {"reconcile", "clear"} /\ proc[p].call = "none"
    BY <1>27 DEF SetDesiredBegin, MayCall, At, CallShape, Shaped, Idle, Launching, Clearing
  <2> QED BY <1>27, <2>1, BecomeControl DEF SetDesiredBegin
<1>28. ASSUME NEW p \in Procs, NEW t \in Tokens, HeartbeatBegin(p, t) PROVE CallShape' /\ LockHeld'
  <2> DEFINE r == [Idle EXCEPT !.call = "heartbeat", !.pc = "save",
                                 !.state = [stateFile EXCEPT !.beat = t]]
  <2>1. Shaped(p, r) /\ r.call \notin {"reconcile", "clear"} /\ proc[p].call = "none"
    BY <1>28 DEF HeartbeatBegin, MayCall, At, CallShape, Shaped, Idle, Launching, Clearing
  <2> QED BY <1>28, <2>1, BecomeControl DEF HeartbeatBegin
<1>29. ASSUME NEW p \in Procs, Crash(p) PROVE CallShape' /\ LockHeld'
  BY <1>29, ReturnControl DEF Crash
<1>30. ASSUME NEW p \in Procs, IoError(p) PROVE CallShape' /\ LockHeld'
  BY <1>30, ReturnControl DEF IoError
<1>31. ASSUME NEW t \in Tokens, ChildReady(t) PROVE CallShape' /\ LockHeld'
  BY <1>31 DEF ChildReady, CallShape, LockHeld
<1>32. ASSUME NEW t \in Tokens, ChildExec(t) PROVE CallShape' /\ LockHeld'
  BY <1>32 DEF ChildExec, CallShape, LockHeld
<1>33. ASSUME NEW t \in Tokens, ChildEof(t) PROVE CallShape' /\ LockHeld'
  BY <1>33 DEF ChildEof, CallShape, LockHeld
<1>34. ASSUME NEW t \in Tokens, ChildAborts(t) PROVE CallShape' /\ LockHeld'
  BY <1>34 DEF ChildAborts, CallShape, LockHeld
<1>35. ASSUME NEW t \in Tokens, LeaderExits(t) PROVE CallShape' /\ LockHeld'
  BY <1>35 DEF LeaderExits, CallShape, LockHeld
<1>36. ASSUME NEW t \in Tokens, WorkloadEnds(t) PROVE CallShape' /\ LockHeld'
  BY <1>36 DEF WorkloadEnds, CallShape, LockHeld
<1> QED BY <1>1, <1>2, <1>3, <1>4, <1>5, <1>6, <1>7, <1>8, <1>9, <1>10, <1>11, <1>12, <1>13, <1>14, <1>15, <1>16, <1>17, <1>18, <1>19, <1>20, <1>21, <1>22, <1>23, <1>24, <1>25, <1>26, <1>27, <1>28, <1>29, <1>30, <1>31, <1>32, <1>33, <1>34, <1>35, <1>36 DEF Next, Continue, Begin, GateStep

\* A step that changes no launch and leaves p outside launch, clearance and
\* write-back cannot disturb the fence.
LEMMA QuietStep ==
  ASSUME IInv, NEW p \in Procs, NEW r, Become(p, r),
         r.pc \notin Launching \cup Clearing,
         r.pc = "stop_write" => ReadableFile /\ r.data = pidFile,
         UNCHANGED <<pidFile, audit>>,
         \A t \in Tokens : child'[t].phase = child[t].phase
                             /\ child'[t].generation = child[t].generation
                             /\ (child'[t].parent = "acked" <=> child[t].parent = "acked")
  PROVE  Fenced'
<1> USE DEF IInv, Fenced
<1>1. proc'[p] = r /\ \A q \in Procs \ {p} : proc'[q] = proc[q]
  BY BecomeLocals
<1>2. Present => pidFile.token \in Tokens
  BY DEF Present, TypeOK, PidFile, NoFile
<1>3. \A q \in Procs : proc'[q].pc \in Launching \cup Clearing =>
        q # p /\ proc'[q] = proc[q]
  BY <1>1
<1>4. \A t \in Tokens : WorkloadGone(t) => WorkloadGone(t)'
  BY <1>1 DEF WorkloadGone
<1>5. FenceNamesLaunch'
  BY <1>2 DEF FenceNamesLaunch, Present, Unused
<1>6. LauncherOwnsFence'
  BY <1>3 DEF LauncherOwnsFence, CallShape, Shaped, Generation, ReadableFile
<1>7. ActiveIsFenced'
  BY DEF ActiveIsFenced, ReadableFile
<1>8. ClearanceStands'
  BY <1>3, <1>4 DEF ClearanceStands, CallShape, Shaped, ReadableFile
<1>9. StopDataStands'
  BY <1>1 DEF StopDataStands, ReadableFile
<1>10. AuditedReplacement'
  BY DEF AuditedReplacement, Unused
<1>11. AckAfterRecord'
  BY <1>3 DEF AckAfterRecord, Launching, Unused
<1> QED BY <1>5, <1>6, <1>7, <1>8, <1>9, <1>10, <1>11

\* Returning does not disturb the fence.
LEMMA ReturnQuiet ==
  ASSUME IInv, NEW p \in Procs, Return(p), UNCHANGED <<pidFile, audit>>,
         \A t \in Tokens : child'[t].phase = child[t].phase
                             /\ child'[t].generation = child[t].generation
                             /\ (child'[t].parent = "acked" <=> child[t].parent = "acked")
  PROVE  Fenced'
BY QuietStep DEF Return, Idle, Launching, Clearing

\* Reporting a launch does not disturb the fence.
LEMMA ReportQuiet ==
  ASSUME IInv, NEW p \in Procs, NEW state, Report(p, state), UNCHANGED <<pidFile, audit>>,
         \A t \in Tokens : child'[t].phase = child[t].phase
                             /\ child'[t].generation = child[t].generation
                             /\ (child'[t].parent = "acked" <=> child[t].parent = "acked")
  PROVE  Fenced'
<1> DEFINE r == [proc[p] EXCEPT !.state = state, !.pc = "save"]
<1>1. r.pc \notin Launching \cup Clearing \cup {"stop_write"}
  BY DEF IInv, TypeOK, Proc, Launching, Clearing
<1> QED BY <1>1, QuietStep, ReturnQuiet DEF Report, Decide

\* Closing the parent's end of a gate changes no phase.
LEMMA CloseQuiet ==
  ASSUME TypeOK, NEW u, child' = CloseParentEnd(u)
  PROVE  \A t \in Tokens : child'[t].phase = child[t].phase
                             /\ child'[t].generation = child[t].generation
                             /\ (child'[t].parent = "acked" <=> child[t].parent = "acked")
BY DEF TypeOK, CloseParentEnd, Child

\* What one child does on its own: it enters no phase it could be asked to
\* leave again.
LEMMA ChildStep ==
  ASSUME IInv, NEW t \in Tokens, child[t].phase \in InGate \cup Live,
         NEW phase \in InGate \cup Live \cup Ended,
         UNCHANGED <<pidFile, audit, proc>>,
         child'[t].phase = phase, child'[t].generation = child[t].generation,
         child'[t].parent = child[t].parent, phase \in Live => child[t].parent = "acked",
         \A u \in Tokens \ {t} : child'[u] = child[u]
  PROVE  Fenced'
<1> USE DEF IInv, Fenced
<1>1. Present => pidFile.token \in Tokens
  BY DEF Present, TypeOK, PidFile, NoFile
<1>2. phase \notin {"unused", "intended"} /\ child[t].phase \notin {"unused", "intended"}
      /\ child[t].phase \notin Ended
  BY DEF InGate, Live, Ended
<1>3. \A u \in Tokens : child'[u].generation = child[u].generation
  OBVIOUS
<1>4. \A u \in Tokens : WorkloadGone(u) => WorkloadGone(u)'
  BY <1>2 DEF WorkloadGone
<1>5. FenceNamesLaunch'
  BY <1>1, <1>2, <1>3 DEF FenceNamesLaunch, Present, Unused
<1>6. LauncherOwnsFence'
  BY <1>2, <1>3 DEF LauncherOwnsFence, CallShape, Shaped, Generation, ReadableFile
<1>7. ActiveIsFenced'
  BY DEF ActiveIsFenced, ReadableFile
<1>8. ClearanceStands'
  BY <1>4 DEF ClearanceStands, CallShape, Shaped, ReadableFile
<1>9. StopDataStands'
  BY DEF StopDataStands, ReadableFile
<1>10. AuditedReplacement'
  BY <1>2 DEF AuditedReplacement, Unused
<1>11. AckAfterRecord'
  BY <1>2 DEF AckAfterRecord, Unused
<1> QED BY <1>5, <1>6, <1>7, <1>8, <1>9, <1>10, <1>11

\* The launcher takes its next step; pid.json keeps naming its launch and no
\* other launch changes.
LEMMA LaunchStep ==
  ASSUME IInv, NEW p \in Procs, proc[p].pc \in Launching,
         NEW pc \in Launching \ {"intent"}, GoTo(p, pc),
         UNCHANGED audit,
         ReadableFile', pidFile'.token = pidFile.token,
         pidFile'.generation = pidFile.generation,
         NEW phase, child'[proc[p].token].phase = phase, phase # "unused",
         phase \in InGate \cup Live => phase = child[proc[p].token].phase \/ pc = "ready",
         pc = "popen" => phase = "intended",
         \A t \in Tokens : child'[t].generation = child[t].generation,
         \A t \in Tokens \ {proc[p].token} : child'[t] = child[t],
         pc \in {"ack", "probe"} => pidFile'.status # "launch_intent",
         phase \in Live => child'[proc[p].token].parent = "acked",
         child'[proc[p].token].parent = "acked" =>
           /\ phase # "intended"
           /\ phase \in InGate \cup Live => pidFile'.status # "launch_intent"
  PROVE  Fenced'
<1> USE DEF IInv, Fenced
<1> DEFINE t0 == proc[p].token
<1>1. /\ proc'[p].pc = pc /\ proc'[p].token = t0
      /\ proc'[p].call = proc[p].call /\ proc'[p].state = proc[p].state
      /\ \A q \in Procs \ {p} : proc'[q] = proc[q]
  BY BecomeLocals DEF GoTo, TypeOK, Proc
<1>2. t0 \in Tokens /\ pidFile.token = t0
  BY DEF CallShape, Shaped, LauncherOwnsFence
<1>3. Present
  BY <1>2, NamesAssumption DEF Present, TypeOK, PidFile, NoFile, Readable
<1>4. \A q \in Procs : proc'[q].pc \in Clearing \cup {"stop_write"} => q # p /\ proc'[q] = proc[q]
  BY <1>1 DEF Launching, Clearing
<1>5. \A t \in Tokens : WorkloadGone(t) => t # t0 /\ WorkloadGone(t)'
  BY <1>1, <1>2 DEF WorkloadGone
<1>6. FenceNamesLaunch'
  BY <1>3, <1>1, <1>2 DEF FenceNamesLaunch, Unused
<1>7. LauncherOwnsFence'
  <2> SUFFICES ASSUME NEW q \in Procs, proc'[q].pc \in Launching
               PROVE  /\ pidFile'.token = proc'[q].token
                      /\ child'[proc'[q].token].generation = Generation(q)'
                      /\ proc'[q].pc # "intent" => ReadableFile'
                      /\ proc'[q].pc \in {"intent", "popen"} => child'[proc'[q].token].phase = "intended"
                      /\ \A o \in Procs : proc'[o].pc \in Launching => q = o
    BY DEF LauncherOwnsFence
  <2>1. \A o \in Procs : proc'[o].pc \in Launching => o = p
    BY <1>1 DEF LauncherOwnsFence
  <2> QED BY <2>1, <1>1, <1>2 DEF LauncherOwnsFence, Generation
<1>8. ActiveIsFenced'
  BY <1>2 DEF ActiveIsFenced
<1>9. ClearanceStands'
  BY <1>4, <1>5 DEF ClearanceStands, CallShape, Shaped
<1>10. StopDataStands'
  BY <1>4 DEF StopDataStands
<1>11. AuditedReplacement'
  BY <1>2 DEF AuditedReplacement, Unused
<1>12. AckAfterRecord'
  <2>1. \A q \in Procs : proc'[q].pc \in {"ack", "probe"} => q = p
    BY <1>1 DEF LauncherOwnsFence, Launching
  <2>2. \A t \in Tokens \ {t0} : child[t].phase \notin InGate \cup Live
    BY <1>2 DEF ActiveIsFenced
  <2> QED BY <1>1, <1>2, <2>1, <2>2 DEF AckAfterRecord, Unused
<1> QED BY <1>6, <1>7, <1>8, <1>9, <1>10, <1>11, <1>12

\* O_EXCL: nobody launches, clears or writes back while pid.json is absent.
LEMMA CreateStep ==
  ASSUME IInv, NEW p \in Procs, NEW t \in Tokens, SpawnCreate(p, t)
  PROVE  Fenced'
<1> USE DEF IInv, Fenced
<1>1. /\ proc'[p].pc = "intent" /\ proc'[p].token = t
      /\ proc'[p].call = proc[p].call /\ proc'[p].state = proc[p].state
      /\ \A q \in Procs \ {p} : proc'[q] = proc[q]
  <2> DEFINE r == [proc[p] EXCEPT !.token = t, !.pc = "intent"]
  <2>1. /\ r.pc = "intent" /\ r.token = t
        /\ r.call = proc[p].call /\ r.state = proc[p].state
    BY DEF TypeOK, Proc
  <2>2. proc'[p] = r /\ \A q \in Procs \ {p} : proc'[q] = proc[q]
    BY BecomeLocals DEF SpawnCreate
  <2> QED BY <2>1, <2>2
<1>2. /\ child'[t].phase = "intended" /\ child'[t].generation = Generation(p)
      /\ \A u \in Tokens \ {t} : child'[u] = child[u]
      /\ child[t].phase = "unused" /\ child'[t].parent = child[t].parent
  BY DEF SpawnCreate, Unused, TypeOK, Child
<1>3. ~Present /\ ~ReadableFile /\ pidFile.token = NoToken
  BY DEF SpawnCreate, Present, ReadableFile, Readable, TypeOK, PidFile, NoFile
<1>4. /\ pidFile'.token = t /\ pidFile'.generation = Generation(p)
      /\ pidFile'.status = "torn"
  BY DEF SpawnCreate
<1>5. \A q \in Procs : proc[q].pc \notin Launching \cup Clearing \cup {"stop_write"}
  BY <1>3, NamesAssumption DEF LauncherOwnsFence, ClearanceStands, StopDataStands, CallShape, Shaped
<1>6. \A q \in Procs : proc'[q].pc \in Launching \cup Clearing \cup {"stop_write"}
                         => q = p /\ proc'[q].pc = "intent"
  BY <1>1, <1>5
<1>7. FenceNamesLaunch'
  BY <1>2, <1>4 DEF FenceNamesLaunch, Unused
<1>8. Generation(p)' = Generation(p)
  BY <1>1 DEF Generation
<1>9. LauncherOwnsFence'
  BY <1>1, <1>2, <1>4, <1>6, <1>8 DEF LauncherOwnsFence
<1>10. ActiveIsFenced'
  BY <1>2, <1>3 DEF ActiveIsFenced, InGate, Live
<1>11. ClearanceStands' /\ StopDataStands'
  BY <1>6 DEF ClearanceStands, StopDataStands, Clearing
<1>12. AuditedReplacement'
  BY <1>2, <1>3, <1>4, NamesAssumption DEF AuditedReplacement, Unused, SpawnCreate
<1>13. AckAfterRecord'
  BY <1>2, <1>4, <1>6 DEF AckAfterRecord, Unused, Launching, Live
<1> QED BY <1>7, <1>9, <1>10, <1>11, <1>12, <1>13

\* The write-back changes the status only, as pid.json still names what stop read.
LEMMA WriteBackStep ==
  ASSUME IInv, NEW p \in Procs, StopWrite(p)
  PROVE  Fenced'
<1> USE DEF IInv, Fenced
<1>1. proc[p].pc = "stop_write" /\ proc[p].data \in PidFile
  BY DEF StopWrite, At, CallShape, Shaped
<1>2. /\ pidFile'.status = "stop_requested_or_unknown"
      /\ pidFile'.token = pidFile.token /\ pidFile'.generation = pidFile.generation
  BY <1>1 DEF StopWrite, StopDataStands, PidFile
<1>3. ReadableFile /\ Present
  BY <1>1 DEF StopDataStands, ReadableFile, Present, Readable
<1>4. ReadableFile'
  BY <1>2 DEF ReadableFile, Readable
<1>5. /\ proc'[p].pc \notin Launching \cup Clearing \cup {"stop_write"}
      /\ \A q \in Procs \ {p} : proc'[q] = proc[q]
  <2>1. [proc[p] EXCEPT !.state = proc[p].state, !.pc = "save"].pc = "save"
    BY DEF TypeOK, Proc
  <2>2. Idle.pc = "idle"
    BY DEF Idle
  <2> QED BY <2>1, <2>2, BecomeLocals DEF StopWrite, Report, Return, Decide, Launching, Clearing
<1>6. \A q \in Procs : proc'[q].pc \in Launching \cup Clearing \cup {"stop_write"} =>
        q # p /\ proc'[q] = proc[q]
  BY <1>5
<1>7. UNCHANGED <<child, audit>>
  BY DEF StopWrite
<1>8. \A t \in Tokens : WorkloadGone(t) => WorkloadGone(t)'
  BY <1>5, <1>7 DEF WorkloadGone
<1>9. FenceNamesLaunch'
  BY <1>2, <1>3, <1>7 DEF FenceNamesLaunch, Unused
<1>10. LauncherOwnsFence'
  BY <1>2, <1>4, <1>6, <1>7 DEF LauncherOwnsFence, Generation
<1>11. ActiveIsFenced'
  BY <1>2, <1>4, <1>7 DEF ActiveIsFenced
<1>12. ClearanceStands'
  BY <1>2, <1>4, <1>6, <1>7, <1>8 DEF ClearanceStands, CallShape, Shaped
<1>13. StopDataStands'
  BY <1>2, <1>4, <1>6 DEF StopDataStands
<1>14. AuditedReplacement'
  BY <1>2, <1>7 DEF AuditedReplacement, Unused
<1>15. AckAfterRecord'
  BY <1>2, <1>6, <1>7 DEF AckAfterRecord, Unused
<1> QED BY <1>9, <1>10, <1>11, <1>12, <1>13, <1>14, <1>15

\* The unlink takes away the one record that was matched and audited; nobody
\* launches it, and nobody is about to write it back.
LEMMA UnlinkStep ==
  ASSUME NoStrayStop, IInv, NEW p \in Procs, ClearUnlink(p)
  PROVE  Fenced'
<1> USE DEF IInv, Fenced
<1> DEFINE t0 == proc[p].token
<1>1. /\ proc[p].call = "clear" /\ proc[p].pc = "unlink" /\ t0 \in Tokens
      /\ "clear" \in Calls[p] /\ unitLock = p
  BY DEF ClearUnlink, At, CallShape, Shaped, LockHeld, Clearing
<1>2. /\ ReadableFile /\ pidFile.token = t0 /\ WorkloadGone(t0) /\ t0 \in audit
  BY <1>1 DEF ClearanceStands, Clearing
<1>3. \A q \in Procs \ {p} : proc[q].call \notin {"reconcile", "clear", "stop"}
  BY <1>1 DEF LockHeld, NoStrayStop, CallShape, Shaped
<1>4. \A q \in Procs : proc[q].pc \notin Launching
  BY <1>2 DEF LauncherOwnsFence, WorkloadGone
<1>5. /\ proc'[p].pc = "idle" /\ \A q \in Procs \ {p} : proc'[q] = proc[q]
  BY BecomeLocals DEF ClearUnlink, Return, Idle
<1>6. \A q \in Procs : proc'[q].pc \notin Launching \cup Clearing \cup {"stop_write"}
  BY <1>3, <1>4, <1>5 DEF CallShape, Shaped, Launching, Clearing
<1>7. pidFile' = NoFile /\ UNCHANGED <<child, audit>>
  BY DEF ClearUnlink
<1>8. \A t \in Tokens : child[t].phase \notin InGate \cup Live
  BY <1>2 DEF ActiveIsFenced, WorkloadGone, InGate, Live, Ended
<1>9. FenceNamesLaunch' /\ ActiveIsFenced'
  BY <1>7, <1>8 DEF FenceNamesLaunch, ActiveIsFenced, Present, NoFile
<1>10. LauncherOwnsFence' /\ ClearanceStands' /\ StopDataStands'
  BY <1>6 DEF LauncherOwnsFence, ClearanceStands, StopDataStands
<1>11. AuditedReplacement'
  BY <1>2, <1>7 DEF AuditedReplacement, Unused
<1>12. AckAfterRecord'
  BY <1>6, <1>7, <1>8 DEF AckAfterRecord, Unused, NoFile, Launching
<1> QED BY <1>9, <1>10, <1>11, <1>12

\* A clearance begins on the record it matched, and then records the audit.
LEMMA ClearanceStep ==
  ASSUME IInv, NEW p \in Procs, NEW pc \in Clearing, UNCHANGED <<pidFile, child>>,
         audit \subseteq audit', NEW t \in Tokens, NEW r, Become(p, r),
         r.pc = pc, r.token = t, proc[p].pc \notin Launching,
         ReadableFile, pidFile.token = t, WorkloadGone(t), pc = "unlink" => t \in audit'
  PROVE  Fenced'
<1> USE DEF IInv, Fenced
<1>1. proc'[p] = r /\ \A q \in Procs \ {p} : proc'[q] = proc[q]
  BY BecomeLocals
<1>2. pc \notin Launching \cup {"stop_write"}
  BY DEF Launching, Clearing
<1>3. \A u \in Tokens : WorkloadGone(u) => WorkloadGone(u)'
  BY <1>1, <1>2 DEF WorkloadGone
<1>4. FenceNamesLaunch' /\ ActiveIsFenced'
  BY DEF FenceNamesLaunch, ActiveIsFenced, Present, Unused, ReadableFile
<1>5. LauncherOwnsFence'
  BY <1>1, <1>2 DEF LauncherOwnsFence, Generation, ReadableFile
<1>6. ClearanceStands'
  BY <1>1, <1>3 DEF ClearanceStands, CallShape, Shaped, ReadableFile
<1>7. StopDataStands'
  BY <1>1, <1>2 DEF StopDataStands, ReadableFile
<1>8. AuditedReplacement'
  BY DEF AuditedReplacement, Unused
<1>9. AckAfterRecord'
  BY <1>1, <1>2 DEF AckAfterRecord, Unused, Launching
<1> QED BY <1>4, <1>5, <1>6, <1>7, <1>8, <1>9

\* Every action preserves the fence, if no direct stop shares the unit with clearances.
LEMMA FencedStep ==
  ASSUME NoStrayStop, IInv, Next
  PROVE  Fenced'
<1>1. ASSUME NEW p \in Procs, ReconcileBegin(p) PROVE Fenced'
  <2> DEFINE r == [Idle EXCEPT !.call = "reconcile", !.pc = "observe", !.state = stateFile]
  <2>1. r.pc \notin Launching \cup Clearing \cup {"stop_write"}
    BY DEF IInv, TypeOK, Proc, Idle, Launching, Clearing
  <2> QED BY <1>1, <2>1, QuietStep DEF ReconcileBegin
<1>2. ASSUME NEW p \in Procs, ObserveTombstone(p) PROVE Fenced'
  <2> DEFINE r == [proc[p] EXCEPT !.state = [proc[p].state EXCEPT !.actual = "running", !.verify = TRUE],
                               !.pc = IF Wanted(proc[p].state) THEN "save" ELSE "stop_read"]
  <2>1. r.pc \notin Launching \cup Clearing \cup {"stop_write"}
    BY DEF IInv, TypeOK, Proc, Idle, Launching, Clearing
  <2> QED BY <1>2, <2>1, QuietStep DEF ObserveTombstone, Decide
<1>3. ASSUME NEW p \in Procs, ObserveStopped(p) PROVE Fenced'
  <2> DEFINE r == [proc[p] EXCEPT !.state = [proc[p].state EXCEPT !.actual = "stopped"],
                               !.pc = IF Wanted(proc[p].state) THEN "lstat" ELSE "save"]
  <2>1. r.pc \notin Launching \cup Clearing \cup {"stop_write"}
    BY DEF IInv, TypeOK, Proc, Idle, Launching, Clearing
  <2> QED BY <1>3, <2>1, QuietStep DEF ObserveStopped, Decide
<1>4. ASSUME NEW p \in Procs, Save(p) PROVE Fenced'
  BY <1>4, ReturnQuiet DEF Save
<1>5. ASSUME NEW p \in Procs, SpawnBegin(p) PROVE Fenced'
  <2> DEFINE r == [Idle EXCEPT !.call = "spawn", !.pc = "lstat"]
  <2>1. r.pc \notin Launching \cup Clearing \cup {"stop_write"}
    BY DEF IInv, TypeOK, Proc, Idle, Launching, Clearing
  <2> QED BY <1>5, <2>1, QuietStep DEF SpawnBegin
<1>6. ASSUME NEW p \in Procs, SpawnFenced(p) PROVE Fenced'
  BY <1>6, ReportQuiet DEF SpawnFenced, Tombstoned, Spawned
<1>7. ASSUME NEW p \in Procs, SpawnUnfenced(p) PROVE Fenced'
  <2> DEFINE r == [proc[p] EXCEPT !.pc = "create"]
  <2>1. r.pc \notin Launching \cup Clearing \cup {"stop_write"}
    BY DEF IInv, TypeOK, Proc, Idle, Launching, Clearing
  <2> QED BY <1>7, <2>1, QuietStep DEF SpawnUnfenced, GoTo
<1>8. ASSUME NEW p \in Procs, NEW t \in Tokens, SpawnCreate(p, t) PROVE Fenced'
  BY <1>8, CreateStep
<1>9. ASSUME NEW p \in Procs, SpawnLosesRace(p) PROVE Fenced'
  BY <1>9, ReturnQuiet DEF SpawnLosesRace
<1>10. ASSUME NEW p \in Procs, SpawnIntent(p) PROVE Fenced'
  <2>1. proc[p].pc \in Launching /\ proc[p].token \in Tokens /\ "popen" \in Launching \ {"intent"}
    BY <1>10 DEF SpawnIntent, At, IInv, CallShape, Shaped, Launching
  <2>2. pidFile.token = proc[p].token /\ pidFile.generation = Generation(p)
        /\ child[proc[p].token].phase # "unused"
    BY <2>1, NamesAssumption DEF IInv, Fenced, LauncherOwnsFence, FenceNamesLaunch, Present, Unused, TypeOK, PidFile, NoFile, Readable
  <2>3. ReadableFile' /\ pidFile'.token = pidFile.token /\ pidFile'.generation = pidFile.generation
    BY <1>10, <2>1, <2>2, NamesAssumption DEF SpawnIntent, At, IInv, Fenced, LauncherOwnsFence, ReadableFile, TypeOK, Readable, PidFile, NoFile
  <2>4. /\ child'[proc[p].token].phase = child[proc[p].token].phase
        /\ \A t \in Tokens : child'[t].generation = child[t].generation
        /\ \A t \in Tokens \ {proc[p].token} : child'[t] = child[t]
    BY <1>10, <2>1 DEF SpawnIntent, IInv, TypeOK, Child
  <2>5. child[proc[p].token].phase = "intended"
    BY <1>10, <2>1 DEF SpawnIntent, At, IInv, Fenced, LauncherOwnsFence
  <2>6. /\ child[proc[p].token].phase \in Live => child[proc[p].token].parent = "acked"
        /\ child'[proc[p].token].phase \in Live => child'[proc[p].token].parent = "acked"
        /\ child'[proc[p].token].parent = "acked" =>
             /\ child'[proc[p].token].phase # "intended"
             /\ child'[proc[p].token].phase \in InGate \cup Live => pidFile'.status # "launch_intent"
        /\ pidFile.status = "launch_intent" => proc[p].pc \notin {"ack", "probe"}
    BY <1>10, <2>1, <2>2 DEF SpawnIntent, At, IInv, Fenced, AckAfterRecord, LauncherOwnsFence, TypeOK, Child, InGate, Live
  <2> QED BY <1>10, <2>1, <2>2, <2>3, <2>4, <2>5, <2>6, LaunchStep DEF SpawnIntent
<1>11. ASSUME NEW p \in Procs, SpawnPopen(p) PROVE Fenced'
  <2>1. proc[p].pc \in Launching /\ proc[p].token \in Tokens /\ "ready" \in Launching \ {"intent"}
    BY <1>11 DEF SpawnPopen, At, IInv, CallShape, Shaped, Launching
  <2>2. pidFile.token = proc[p].token /\ pidFile.generation = Generation(p)
        /\ child[proc[p].token].phase # "unused"
    BY <2>1, NamesAssumption DEF IInv, Fenced, LauncherOwnsFence, FenceNamesLaunch, Present, Unused, TypeOK, PidFile, NoFile, Readable
  <2>3. ReadableFile' /\ pidFile'.token = pidFile.token /\ pidFile'.generation = pidFile.generation
    BY <1>11, <2>1, <2>2, NamesAssumption DEF SpawnPopen, At, IInv, Fenced, LauncherOwnsFence, ReadableFile, TypeOK
  <2>4. /\ child'[proc[p].token].phase = "starting"
        /\ \A t \in Tokens : child'[t].generation = child[t].generation
        /\ \A t \in Tokens \ {proc[p].token} : child'[t] = child[t]
    BY <1>11, <2>1 DEF SpawnPopen, IInv, TypeOK, Child
  <2>6. /\ child[proc[p].token].phase \in Live => child[proc[p].token].parent = "acked"
        /\ child'[proc[p].token].phase \in Live => child'[proc[p].token].parent = "acked"
        /\ child'[proc[p].token].parent = "acked" =>
             /\ child'[proc[p].token].phase # "intended"
             /\ child'[proc[p].token].phase \in InGate \cup Live => pidFile'.status # "launch_intent"
        /\ pidFile.status = "launch_intent" => proc[p].pc \notin {"ack", "probe"}
    BY <1>11, <2>1, <2>2 DEF SpawnPopen, At, IInv, Fenced, AckAfterRecord, LauncherOwnsFence, TypeOK, Child, InGate, Live
  <2> QED BY <1>11, <2>1, <2>2, <2>3, <2>4, <2>6, LaunchStep DEF SpawnPopen
<1>12. ASSUME NEW p \in Procs, SpawnReady(p) PROVE Fenced'
  <2>1. proc[p].pc \in Launching /\ proc[p].token \in Tokens /\ "persist" \in Launching \ {"intent"}
    BY <1>12 DEF SpawnReady, At, IInv, CallShape, Shaped, Launching
  <2>2. pidFile.token = proc[p].token /\ pidFile.generation = Generation(p)
        /\ child[proc[p].token].phase # "unused"
    BY <2>1, NamesAssumption DEF IInv, Fenced, LauncherOwnsFence, FenceNamesLaunch, Present, Unused, TypeOK, PidFile, NoFile, Readable
  <2>3. ReadableFile' /\ pidFile'.token = pidFile.token /\ pidFile'.generation = pidFile.generation
    BY <1>12, <2>1, <2>2, NamesAssumption DEF SpawnReady, At, IInv, Fenced, LauncherOwnsFence, ReadableFile, TypeOK
  <2>4. /\ child'[proc[p].token].phase = child[proc[p].token].phase
        /\ \A t \in Tokens : child'[t].generation = child[t].generation
        /\ \A t \in Tokens \ {proc[p].token} : child'[t] = child[t]
    BY <1>12, <2>1 DEF SpawnReady, IInv, TypeOK, Child
  <2>6. /\ child[proc[p].token].phase \in Live => child[proc[p].token].parent = "acked"
        /\ child'[proc[p].token].phase \in Live => child'[proc[p].token].parent = "acked"
        /\ child'[proc[p].token].parent = "acked" =>
             /\ child'[proc[p].token].phase # "intended"
             /\ child'[proc[p].token].phase \in InGate \cup Live => pidFile'.status # "launch_intent"
        /\ pidFile.status = "launch_intent" => proc[p].pc \notin {"ack", "probe"}
    BY <1>12, <2>1, <2>2 DEF SpawnReady, At, IInv, Fenced, AckAfterRecord, LauncherOwnsFence, TypeOK, Child, InGate, Live
  <2> QED BY <1>12, <2>1, <2>2, <2>3, <2>4, <2>6, LaunchStep DEF SpawnReady
<1>13. ASSUME NEW p \in Procs, SpawnEof(p) PROVE Fenced'
  BY <1>13, ReportQuiet, CloseQuiet DEF SpawnEof, Spawned, IInv
<1>14. ASSUME NEW p \in Procs, SpawnPersist(p) PROVE Fenced'
  <2>1. proc[p].pc \in Launching /\ proc[p].token \in Tokens /\ "ack" \in Launching \ {"intent"}
    BY <1>14 DEF SpawnPersist, At, IInv, CallShape, Shaped, Launching
  <2>2. pidFile.token = proc[p].token /\ pidFile.generation = Generation(p)
        /\ child[proc[p].token].phase # "unused"
    BY <2>1, NamesAssumption DEF IInv, Fenced, LauncherOwnsFence, FenceNamesLaunch, Present, Unused, TypeOK, PidFile, NoFile, Readable
  <2>3. ReadableFile' /\ pidFile'.token = pidFile.token /\ pidFile'.generation = pidFile.generation
    BY <1>14, <2>1, <2>2, NamesAssumption DEF SpawnPersist, At, IInv, Fenced, LauncherOwnsFence, ReadableFile, TypeOK, Readable
  <2>4. /\ child'[proc[p].token].phase = child[proc[p].token].phase
        /\ \A t \in Tokens : child'[t].generation = child[t].generation
        /\ \A t \in Tokens \ {proc[p].token} : child'[t] = child[t]
    BY <1>14, <2>1 DEF SpawnPersist, IInv, TypeOK, Child
  <2>6. /\ child[proc[p].token].phase \in Live => child[proc[p].token].parent = "acked"
        /\ child'[proc[p].token].phase \in Live => child'[proc[p].token].parent = "acked"
        /\ child'[proc[p].token].parent = "acked" =>
             /\ child'[proc[p].token].phase # "intended"
             /\ child'[proc[p].token].phase \in InGate \cup Live => pidFile'.status # "launch_intent"
        /\ pidFile.status = "launch_intent" => proc[p].pc \notin {"ack", "probe"}
    BY <1>14, <2>1, <2>2 DEF SpawnPersist, At, IInv, Fenced, AckAfterRecord, LauncherOwnsFence, TypeOK, Child, InGate, Live
  <2> QED BY <1>14, <2>1, <2>2, <2>3, <2>4, <2>6, LaunchStep DEF SpawnPersist, At
<1>15. ASSUME NEW p \in Procs, SpawnAck(p) PROVE Fenced'
  <2>1. proc[p].pc \in Launching /\ proc[p].token \in Tokens /\ "probe" \in Launching \ {"intent"}
    BY <1>15 DEF SpawnAck, At, IInv, CallShape, Shaped, Launching
  <2>2. pidFile.token = proc[p].token /\ pidFile.generation = Generation(p)
        /\ child[proc[p].token].phase # "unused"
    BY <2>1, NamesAssumption DEF IInv, Fenced, LauncherOwnsFence, FenceNamesLaunch, Present, Unused, TypeOK, PidFile, NoFile, Readable
  <2>3. ReadableFile' /\ pidFile'.token = pidFile.token /\ pidFile'.generation = pidFile.generation
    BY <1>15, <2>1, <2>2, NamesAssumption DEF SpawnAck, At, IInv, Fenced, LauncherOwnsFence, ReadableFile, TypeOK
  <2>4. /\ child'[proc[p].token].phase = child[proc[p].token].phase
        /\ \A t \in Tokens : child'[t].generation = child[t].generation
        /\ \A t \in Tokens \ {proc[p].token} : child'[t] = child[t]
    BY <1>15, <2>1 DEF SpawnAck, IInv, TypeOK, Child
  <2>6. /\ child[proc[p].token].phase \in Live => child[proc[p].token].parent = "acked"
        /\ child'[proc[p].token].phase \in Live => child'[proc[p].token].parent = "acked"
        /\ child'[proc[p].token].parent = "acked" =>
             /\ child'[proc[p].token].phase # "intended"
             /\ child'[proc[p].token].phase \in InGate \cup Live => pidFile'.status # "launch_intent"
        /\ pidFile.status = "launch_intent" => proc[p].pc \notin {"ack", "probe"}
    BY <1>15, <2>1, <2>2 DEF SpawnAck, At, IInv, Fenced, AckAfterRecord, LauncherOwnsFence, TypeOK, Child, InGate, Live
  <2> QED BY <1>15, <2>1, <2>2, <2>3, <2>4, <2>6, LaunchStep DEF SpawnAck, At
<1>16. ASSUME NEW p \in Procs, SpawnRaise(p) PROVE Fenced'
  BY <1>16, ReturnQuiet, CloseQuiet DEF SpawnRaise, IInv
<1>17. ASSUME NEW p \in Procs, ProbeAlive(p) PROVE Fenced'
  BY <1>17, ReportQuiet DEF ProbeAlive, Tombstoned, Spawned
<1>18. ASSUME NEW p \in Procs, ProbeExited(p) PROVE Fenced'
  BY <1>18, ReportQuiet DEF ProbeExited, Tombstoned, Spawned
<1>19. ASSUME NEW p \in Procs, StopBegin(p) PROVE Fenced'
  <2> DEFINE r == [Idle EXCEPT !.call = "stop", !.pc = "stop_read"]
  <2>1. r.pc \notin Launching \cup Clearing \cup {"stop_write"}
    BY DEF IInv, TypeOK, Proc, Idle, Launching, Clearing
  <2> QED BY <1>19, <2>1, QuietStep DEF StopBegin
<1>20. ASSUME NEW p \in Procs, StopUnreadable(p) PROVE Fenced'
  BY <1>20, ReportQuiet DEF StopUnreadable, Tombstoned, Spawned
<1>21. ASSUME NEW p \in Procs, StopSignals(p) PROVE Fenced'
  <2> DEFINE r == [proc[p] EXCEPT !.data = pidFile, !.pc = "stop_write"]
  <2>1. r.pc = "stop_write" /\ r.data = pidFile
    BY DEF IInv, TypeOK, Proc
  <2>2. \A t \in Tokens : child'[t].phase = child[t].phase
                             /\ child'[t].generation = child[t].generation
                             /\ (child'[t].parent = "acked" <=> child[t].parent = "acked")
    BY <1>21 DEF StopSignals, IInv, TypeOK, Child
  <2>3. Become(p, r) /\ ReadableFile /\ UNCHANGED <<pidFile, audit>>
    BY <1>21 DEF StopSignals
  <2> QED BY <2>1, <2>2, <2>3, QuietStep DEF Launching, Clearing
<1>22. ASSUME NEW p \in Procs, StopRetires(p) PROVE Fenced'
  <2> DEFINE r == [proc[p] EXCEPT !.data = pidFile, !.pc = "stop_write"]
  <2>1. r.pc = "stop_write" /\ r.data = pidFile
    BY DEF IInv, TypeOK, Proc
  <2>2. \A t \in Tokens : child'[t].phase = child[t].phase
                             /\ child'[t].generation = child[t].generation
                             /\ (child'[t].parent = "acked" <=> child[t].parent = "acked")
    BY <1>22 DEF StopRetires, IInv, TypeOK, Child
  <2>3. Become(p, r) /\ ReadableFile /\ UNCHANGED <<pidFile, audit>>
    BY <1>22 DEF StopRetires
  <2> QED BY <2>1, <2>2, <2>3, QuietStep DEF Launching, Clearing
<1>23. ASSUME NEW p \in Procs, StopWrite(p) PROVE Fenced'
  BY <1>23, WriteBackStep
<1>24. ASSUME NEW p \in Procs, NEW t \in Tokens, ClearBegin(p, t) PROVE Fenced'
  <2> DEFINE r == [Idle EXCEPT !.call = "clear", !.token = t, !.pc = "audit"]
  <2>1. r.pc = "audit" /\ r.token = t /\ "audit" \in Clearing /\ proc[p].pc \notin Launching
    BY <1>24 DEF Idle, ClearBegin, MayCall, At, Launching, Clearing
  <2> QED BY <1>24, <2>1, ClearanceStep DEF ClearBegin
<1>25. ASSUME NEW p \in Procs, ClearAudit(p) PROVE Fenced'
  <2> DEFINE r == [proc[p] EXCEPT !.pc = "unlink"]
  <2>1. r.pc = "unlink" /\ r.token = proc[p].token /\ "unlink" \in Clearing
        /\ proc[p].pc \notin Launching /\ proc[p].token \in Tokens /\ proc[p].pc \in Clearing
    BY <1>25 DEF ClearAudit, At, IInv, TypeOK, Proc, CallShape, Shaped, Launching, Clearing
  <2>2. ReadableFile /\ pidFile.token = proc[p].token /\ WorkloadGone(proc[p].token)
    BY <2>1 DEF IInv, Fenced, ClearanceStands
  <2> QED BY <1>25, <2>1, <2>2, ClearanceStep DEF ClearAudit, GoTo
<1>26. ASSUME NEW p \in Procs, ClearUnlink(p) PROVE Fenced'
  BY <1>26, UnlinkStep
<1>27. ASSUME NEW p \in Procs, NEW d \in Requests, SetDesiredBegin(p, d) PROVE Fenced'
  <2> DEFINE r == [Idle EXCEPT !.call = "set_desired", !.pc = "save",
                                 !.state = [stateFile EXCEPT !.desired = d]]
  <2>1. r.pc \notin Launching \cup Clearing \cup {"stop_write"}
    BY DEF IInv, TypeOK, Proc, Idle, Launching, Clearing
  <2> QED BY <1>27, <2>1, QuietStep DEF SetDesiredBegin
<1>28. ASSUME NEW p \in Procs, NEW t \in Tokens, HeartbeatBegin(p, t) PROVE Fenced'
  <2> DEFINE r == [Idle EXCEPT !.call = "heartbeat", !.pc = "save",
                                 !.state = [stateFile EXCEPT !.beat = t]]
  <2>1. r.pc \notin Launching \cup Clearing \cup {"stop_write"}
    BY DEF IInv, TypeOK, Proc, Idle, Launching, Clearing
  <2> QED BY <1>28, <2>1, QuietStep DEF HeartbeatBegin
<1>29. ASSUME NEW p \in Procs, Crash(p) PROVE Fenced'
  BY <1>29, ReturnQuiet, CloseQuiet DEF Crash, IInv
<1>30. ASSUME NEW p \in Procs, IoError(p) PROVE Fenced'
  BY <1>30, ReturnQuiet DEF IoError
<1>31. ASSUME NEW t \in Tokens, ChildReady(t) PROVE Fenced'
  <2>1. /\ child[t].phase \in InGate \cup Live /\ "ready" \in InGate \cup Live \cup Ended
        /\ child'[t].phase = "ready" /\ child'[t].generation = child[t].generation
        /\ child'[t].parent = child[t].parent
        /\ \A u \in Tokens \ {t} : child'[u] = child[u]
    BY <1>31 DEF ChildReady, IInv, TypeOK, Child, InGate, Live, Ended
  <2>2. child'[t].phase \in Live => child[t].parent = "acked"
    BY <1>31, <2>1 DEF ChildReady, IInv, Fenced, AckAfterRecord, InGate, Live, Ended
  <2> QED BY <1>31, <2>1, <2>2, ChildStep DEF ChildReady
<1>32. ASSUME NEW t \in Tokens, ChildExec(t) PROVE Fenced'
  <2>1. /\ child[t].phase \in InGate \cup Live /\ "running" \in InGate \cup Live \cup Ended
        /\ child'[t].phase = "running" /\ child'[t].generation = child[t].generation
        /\ child'[t].parent = child[t].parent
        /\ \A u \in Tokens \ {t} : child'[u] = child[u]
    BY <1>32 DEF ChildExec, IInv, TypeOK, Child, InGate, Live, Ended
  <2>2. child'[t].phase \in Live => child[t].parent = "acked"
    BY <1>32, <2>1 DEF ChildExec, IInv, Fenced, AckAfterRecord, InGate, Live, Ended
  <2> QED BY <1>32, <2>1, <2>2, ChildStep DEF ChildExec
<1>33. ASSUME NEW t \in Tokens, ChildEof(t) PROVE Fenced'
  <2>1. /\ child[t].phase \in InGate \cup Live /\ "aborted" \in InGate \cup Live \cup Ended
        /\ child'[t].phase = "aborted" /\ child'[t].generation = child[t].generation
        /\ child'[t].parent = child[t].parent
        /\ \A u \in Tokens \ {t} : child'[u] = child[u]
    BY <1>33 DEF ChildEof, IInv, TypeOK, Child, InGate, Live, Ended
  <2>2. child'[t].phase \in Live => child[t].parent = "acked"
    BY <1>33, <2>1 DEF ChildEof, IInv, Fenced, AckAfterRecord, InGate, Live, Ended
  <2> QED BY <1>33, <2>1, <2>2, ChildStep DEF ChildEof
<1>34. ASSUME NEW t \in Tokens, ChildAborts(t) PROVE Fenced'
  <2>1. /\ child[t].phase \in InGate \cup Live /\ "aborted" \in InGate \cup Live \cup Ended
        /\ child'[t].phase = "aborted" /\ child'[t].generation = child[t].generation
        /\ child'[t].parent = child[t].parent
        /\ \A u \in Tokens \ {t} : child'[u] = child[u]
    BY <1>34 DEF ChildAborts, IInv, TypeOK, Child, InGate, Live, Ended
  <2>2. child'[t].phase \in Live => child[t].parent = "acked"
    BY <1>34, <2>1 DEF ChildAborts, IInv, Fenced, AckAfterRecord, InGate, Live, Ended
  <2> QED BY <1>34, <2>1, <2>2, ChildStep DEF ChildAborts
<1>35. ASSUME NEW t \in Tokens, LeaderExits(t) PROVE Fenced'
  <2>1. /\ child[t].phase \in InGate \cup Live /\ "orphaned" \in InGate \cup Live \cup Ended
        /\ child'[t].phase = "orphaned" /\ child'[t].generation = child[t].generation
        /\ child'[t].parent = child[t].parent
        /\ \A u \in Tokens \ {t} : child'[u] = child[u]
    BY <1>35 DEF LeaderExits, IInv, TypeOK, Child, InGate, Live, Ended
  <2>2. child'[t].phase \in Live => child[t].parent = "acked"
    BY <1>35, <2>1 DEF LeaderExits, IInv, Fenced, AckAfterRecord, InGate, Live, Ended
  <2> QED BY <1>35, <2>1, <2>2, ChildStep DEF LeaderExits
<1>36. ASSUME NEW t \in Tokens, WorkloadEnds(t) PROVE Fenced'
  <2>1. /\ child[t].phase \in InGate \cup Live /\ "dead" \in InGate \cup Live \cup Ended
        /\ child'[t].phase = "dead" /\ child'[t].generation = child[t].generation
        /\ child'[t].parent = child[t].parent
        /\ \A u \in Tokens \ {t} : child'[u] = child[u]
    BY <1>36 DEF WorkloadEnds, IInv, TypeOK, Child, InGate, Live, Ended
  <2>2. child'[t].phase \in Live => child[t].parent = "acked"
    BY <1>36, <2>1 DEF WorkloadEnds, IInv, Fenced, AckAfterRecord, InGate, Live, Ended
  <2> QED BY <1>36, <2>1, <2>2, ChildStep DEF WorkloadEnds
<1> QED BY <1>1, <1>2, <1>3, <1>4, <1>5, <1>6, <1>7, <1>8, <1>9, <1>10, <1>11, <1>12, <1>13, <1>14, <1>15, <1>16, <1>17, <1>18, <1>19, <1>20, <1>21, <1>22, <1>23, <1>24, <1>25, <1>26, <1>27, <1>28, <1>29, <1>30, <1>31, <1>32, <1>33, <1>34, <1>35, <1>36 DEF Next, Continue, Begin, GateStep

\* The initial state satisfies the inductive invariant.
LEMMA InitInv == Init => IInv
<1> SUFFICES ASSUME Init PROVE IInv
  OBVIOUS
<1>1. TypeOK /\ CallShape
  BY TypeInit
<1>2. LockHeld
  BY NamesAssumption DEF Init, LockHeld, Idle
<1>3. Fenced
  BY NamesAssumption DEF Init, Fenced, FenceNamesLaunch, LauncherOwnsFence, ActiveIsFenced,
     AckAfterRecord, ClearanceStands, StopDataStands, AuditedReplacement, Present, Unused, Idle, NoFile,
     NoChild, Launching, Clearing, InGate, Live
<1> QED BY <1>1, <1>2, <1>3 DEF IInv

\* Every step preserves it.
LEMMA StepInv == NoStrayStop /\ IInv /\ [Next]_vars => IInv'
<1> SUFFICES ASSUME NoStrayStop, IInv, [Next]_vars PROVE IInv'
  OBVIOUS
<1>1. CASE Next
  BY <1>1, TypeStep, ControlStep, FencedStep DEF IInv
<1>2. CASE UNCHANGED vars
  BY <1>2 DEF vars, IInv, Fenced, TypeOK, CallShape, LockHeld, FenceNamesLaunch,
     LauncherOwnsFence, ActiveIsFenced, AckAfterRecord, ClearanceStands, StopDataStands, AuditedReplacement,
     Present, ReadableFile, Unused, Generation, WorkloadGone
<1> QED BY <1>1, <1>2

(***************************************************************************)
(* The theorems.                                                           *)
(***************************************************************************)
\* The invariant holds in every reachable state, for any processes, tokens and
\* number of faults, when no direct stop shares the unit with clearances.
THEOREM Invariance == ASSUME NoStrayStop PROVE Spec => []IInv
<1>1. NoStrayStop /\ IInv /\ [Next]_vars => IInv'
  BY StepInv
<1> QED BY InitInv, <1>1, PTL DEF Spec

\* Every variable keeps its type: no step of reconcile_unit, spawn, stop or a
\* clearance acts on a record it does not have.
THEOREM TypeCorrect == ASSUME NoStrayStop PROVE Spec => []TypeOK
<1>1. IInv => TypeOK
  BY DEF IInv
<1> QED BY Invariance, <1>1, PTL

\* While consumer code runs, pid.json is readable and names its launch and
\* generation: spawn persists before ACK, and nothing takes the record away.
THEOREM Provenance == ASSUME NoStrayStop PROVE Spec => []ProvenanceBeforeExec
<1>1. IInv => ProvenanceBeforeExec
  BY DEF IInv, Fenced, ActiveIsFenced, FenceNamesLaunch, AckAfterRecord, ProvenanceBeforeExec,
     ReadableFile, Present, Readable
<1> QED BY Invariance, <1>1, PTL

\* The unit never has two kit-launched process groups at once.
THEOREM SingleWorkload == ASSUME NoStrayStop PROVE Spec => []AtMostOneWorkload
<1>1. IInv => AtMostOneWorkload
  BY DEF IInv, Fenced, ActiveIsFenced, AtMostOneWorkload
<1> QED BY Invariance, <1>1, PTL

\* A launch gives way to another only through an audited clearance.
THEOREM Audited == ASSUME NoStrayStop PROVE Spec => []AuditedReplacement
<1>1. IInv => AuditedReplacement
  BY DEF IInv, Fenced
<1> QED BY Invariance, <1>1, PTL

(***************************************************************************)
(* Refinement of LaunchFence.                                              *)
(***************************************************************************)
InGateOrBefore == {"intended", "aborted"} \cup InGate

\* Phases that look the same to LaunchFence.
Alike(a, b) == a = b \/ {a, b} \subseteq InGateOrBefore \/ {a, b} \subseteq Live

\* A step is a stutter of LaunchFence when pid.json names the same launch and
\* every launch stays in its class of phases.
LEMMA Stutter ==
  ASSUME pidFile'.token = pidFile.token,
         \A t \in Tokens : Alike(child[t].phase, child'[t].phase)
  PROVE  lifeBar' = lifeBar
<1> SUFFICES ASSUME NEW t \in Tokens PROVE lifeBar'[t] = lifeBar[t]
  BY Zenon DEF lifeBar
<1>1. Unused(t)' = Unused(t) /\ (child'[t].phase \in Live <=> child[t].phase \in Live)
      /\ (child'[t].phase = "dead" <=> child[t].phase = "dead")
  BY DEF Alike, InGateOrBefore, InGate, Live, Unused
<1> QED BY <1>1 DEF lifeBar

\* A step that changes neither pid.json nor a phase is a stutter of LaunchFence.
LEMMA QuietStutter ==
  ASSUME UNCHANGED pidFile, \A t \in Tokens : child'[t].phase = child[t].phase
  PROVE  lifeBar' = lifeBar
BY Stutter DEF Alike

\* One launch moves and the others stay where they are.
LEMMA OneMoves ==
  ASSUME NEW t \in Tokens, NEW from, NEW to, lifeBar[t] = from, lifeBar'[t] = to,
         \A u \in Tokens \ {t} : lifeBar'[u] = lifeBar[u]
  PROVE  Fencing!Move(t, from, to)
<1>1. lifeBar = [u \in Tokens |-> lifeBar[u]] /\ lifeBar' = [u \in Tokens |-> lifeBar'[u]]
  BY DEF lifeBar
<1>2. lifeBar' = [lifeBar EXCEPT ![t] = to]
  BY <1>1
<1> QED BY <1>2 DEF Fencing!Move

\* Creating pid.json takes the fence.
LEMMA FenceRefines ==
  ASSUME IInv, NEW p \in Procs, NEW t \in Tokens, SpawnCreate(p, t)
  PROVE  Fencing!Fence(t)
<1>1. pidFile.token = NoToken /\ pidFile'.token = t
  BY DEF SpawnCreate, Present, Readable, IInv, TypeOK, PidFile, NoFile
<1>2. /\ child[t].phase = "unused" /\ child'[t].phase = "intended"
      /\ \A u \in Tokens \ {t} : child'[u] = child[u]
  BY DEF SpawnCreate, Unused, IInv, TypeOK, Child
<1>3. \A u \in Tokens : lifeBar[u] = IF Unused(u) THEN "unused" ELSE "retired"
  BY <1>1, NamesAssumption DEF lifeBar
<1>4. lifeBar'[t] = "held"
  BY <1>1, <1>2 DEF lifeBar, Unused, Live
<1>5. \A u \in Tokens \ {t} : lifeBar'[u] = lifeBar[u]
  BY <1>1, <1>2, <1>3 DEF lifeBar, Unused
<1>6. Fencing!Free
  BY <1>3 DEF Fencing!Free, Fencing!Holding
<1>7. lifeBar[t] = "unused"
  BY <1>2, <1>3 DEF Unused
<1> QED BY <1>4, <1>5, <1>6, <1>7, OneMoves DEF Fencing!Fence

\* The unlink of a clearance retires the launch it names.
LEMMA RetireRefines ==
  ASSUME IInv, NEW p \in Procs, ClearUnlink(p)
  PROVE  proc[p].token \in Tokens /\ Fencing!Retire(proc[p].token)
<1> DEFINE t0 == proc[p].token
<1>1. t0 \in Tokens /\ pidFile.token = t0 /\ child[t0].phase \in {"intended", "aborted", "dead"}
  BY DEF ClearUnlink, At, IInv, CallShape, Shaped, Fenced, ClearanceStands, WorkloadGone,
     Clearing, Ended
<1>2. pidFile'.token = NoToken /\ UNCHANGED child
  BY DEF ClearUnlink, NoFile
<1>3. lifeBar[t0] = IF child[t0].phase = "dead" THEN "over" ELSE "held"
  BY <1>1 DEF lifeBar, Unused, Live
<1>4. \A u \in Tokens : lifeBar'[u] = IF Unused(u) THEN "unused" ELSE "retired"
  BY <1>2, NamesAssumption DEF lifeBar, Unused
<1>5. \A u \in Tokens \ {t0} : lifeBar[u] = IF Unused(u) THEN "unused" ELSE "retired"
  BY <1>1 DEF lifeBar
<1>6. ~Unused(t0)
  BY <1>1 DEF Unused
<1>7. Fencing!Move(t0, lifeBar[t0], "retired")
  BY <1>1, <1>4, <1>5, <1>6, OneMoves
<1> QED BY <1>1, <1>3, <1>7 DEF Fencing!Retire

\* The moves of one child: exec starts a launch, its end ends it.
LEMMA ChildRefines ==
  ASSUME IInv, NEW t \in Tokens, UNCHANGED pidFile, child[t].phase \in InGate \cup Live,
         \A u \in Tokens \ {t} : child'[u] = child[u]
  PROVE  /\ child[t].phase \in InGate /\ child'[t].phase = "running" => Fencing!Start(t)
         /\ child[t].phase \in Live /\ child'[t].phase = "dead" => Fencing!End(t)
<1>1. pidFile.token = t
  BY DEF IInv, Fenced, ActiveIsFenced
<1>2. \A u \in Tokens \ {t} : lifeBar'[u] = lifeBar[u]
  BY DEF lifeBar, Unused
<1>3. /\ child[t].phase \in InGate => lifeBar[t] = "held"
      /\ child[t].phase \in Live => lifeBar[t] = "live"
      /\ child'[t].phase = "running" => lifeBar'[t] = "live"
      /\ child'[t].phase = "dead" => lifeBar'[t] = "over"
  BY <1>1 DEF lifeBar, Unused, InGate, Live
<1> QED BY <1>2, <1>3, OneMoves DEF Fencing!Start, Fencing!End

\* The initial states correspond.
LEMMA RefinesInit == Init => Fencing!Init
<1> SUFFICES ASSUME Init PROVE lifeBar = [t \in Tokens |-> "unused"]
  BY DEF Fencing!Init
<1>1. \A t \in Tokens : Unused(t)
  BY DEF Init, Unused, NoChild
<1> QED BY <1>1 DEF lifeBar

\* Every step is a step of LaunchFence or a stutter.
LEMMA RefinesStep ==
  ASSUME IInv, Next PROVE Fencing!Next \/ lifeBar' = lifeBar
<1>1. ASSUME NEW p \in Procs, ReconcileBegin(p) PROVE Fencing!Next \/ lifeBar' = lifeBar
  BY <1>1, QuietStutter DEF ReconcileBegin
<1>2. ASSUME NEW p \in Procs, ObserveTombstone(p) PROVE Fencing!Next \/ lifeBar' = lifeBar
  BY <1>2, QuietStutter DEF ObserveTombstone
<1>3. ASSUME NEW p \in Procs, ObserveStopped(p) PROVE Fencing!Next \/ lifeBar' = lifeBar
  BY <1>3, QuietStutter DEF ObserveStopped
<1>4. ASSUME NEW p \in Procs, Save(p) PROVE Fencing!Next \/ lifeBar' = lifeBar
  BY <1>4, QuietStutter DEF Save
<1>5. ASSUME NEW p \in Procs, SpawnBegin(p) PROVE Fencing!Next \/ lifeBar' = lifeBar
  BY <1>5, QuietStutter DEF SpawnBegin
<1>6. ASSUME NEW p \in Procs, SpawnFenced(p) PROVE Fencing!Next \/ lifeBar' = lifeBar
  BY <1>6, QuietStutter DEF SpawnFenced
<1>7. ASSUME NEW p \in Procs, SpawnUnfenced(p) PROVE Fencing!Next \/ lifeBar' = lifeBar
  BY <1>7, QuietStutter DEF SpawnUnfenced
<1>8. ASSUME NEW p \in Procs, NEW t \in Tokens, SpawnCreate(p, t) PROVE Fencing!Next \/ lifeBar' = lifeBar
  BY <1>8, FenceRefines DEF Fencing!Next
<1>9. ASSUME NEW p \in Procs, SpawnLosesRace(p) PROVE Fencing!Next \/ lifeBar' = lifeBar
  BY <1>9, QuietStutter DEF SpawnLosesRace
<1>10. ASSUME NEW p \in Procs, SpawnIntent(p) PROVE Fencing!Next \/ lifeBar' = lifeBar
  <2>1. pidFile'.token = pidFile.token
    BY <1>10 DEF SpawnIntent, At, IInv, Fenced, LauncherOwnsFence, Launching, TypeOK, PidFile, NoFile
  <2> QED BY <1>10, <2>1, Stutter DEF SpawnIntent, Alike
<1>11. ASSUME NEW p \in Procs, SpawnPopen(p) PROVE Fencing!Next \/ lifeBar' = lifeBar
  <2>1. proc[p].token \in Tokens /\ child[proc[p].token].phase = "intended"
    BY <1>11 DEF SpawnPopen, At, IInv, CallShape, Shaped, Fenced, LauncherOwnsFence, Launching
  <2>2. \A t \in Tokens : Alike(child[t].phase, child'[t].phase)
    BY <1>11, <2>1 DEF SpawnPopen, Alike, InGateOrBefore, InGate, IInv, TypeOK, Child
  <2> QED BY <1>11, <2>2, Stutter DEF SpawnPopen
<1>12. ASSUME NEW p \in Procs, SpawnReady(p) PROVE Fencing!Next \/ lifeBar' = lifeBar
  BY <1>12, QuietStutter DEF SpawnReady
<1>13. ASSUME NEW p \in Procs, SpawnEof(p) PROVE Fencing!Next \/ lifeBar' = lifeBar
  BY <1>13, CloseQuiet, QuietStutter DEF SpawnEof, IInv
<1>14. ASSUME NEW p \in Procs, SpawnPersist(p) PROVE Fencing!Next \/ lifeBar' = lifeBar
  <2>1. pidFile'.token = pidFile.token
    BY <1>14 DEF SpawnPersist, At, IInv, Fenced, LauncherOwnsFence, Launching, TypeOK, PidFile, NoFile
  <2> QED BY <1>14, <2>1, Stutter DEF SpawnPersist, Alike
<1>15. ASSUME NEW p \in Procs, SpawnAck(p) PROVE Fencing!Next \/ lifeBar' = lifeBar
  <2>1. \A t \in Tokens : child'[t].phase = child[t].phase
    BY <1>15 DEF SpawnAck, IInv, TypeOK, Child
  <2> QED BY <1>15, <2>1, QuietStutter DEF SpawnAck
<1>16. ASSUME NEW p \in Procs, SpawnRaise(p) PROVE Fencing!Next \/ lifeBar' = lifeBar
  BY <1>16, CloseQuiet, QuietStutter DEF SpawnRaise, IInv
<1>17. ASSUME NEW p \in Procs, ProbeAlive(p) PROVE Fencing!Next \/ lifeBar' = lifeBar
  BY <1>17, QuietStutter DEF ProbeAlive
<1>18. ASSUME NEW p \in Procs, ProbeExited(p) PROVE Fencing!Next \/ lifeBar' = lifeBar
  BY <1>18, QuietStutter DEF ProbeExited
<1>19. ASSUME NEW p \in Procs, StopBegin(p) PROVE Fencing!Next \/ lifeBar' = lifeBar
  BY <1>19, QuietStutter DEF StopBegin
<1>20. ASSUME NEW p \in Procs, StopUnreadable(p) PROVE Fencing!Next \/ lifeBar' = lifeBar
  BY <1>20, QuietStutter DEF StopUnreadable
<1>21. ASSUME NEW p \in Procs, StopSignals(p) PROVE Fencing!Next \/ lifeBar' = lifeBar
  <2>1. \A t \in Tokens : child'[t].phase = child[t].phase
    BY <1>21 DEF StopSignals, IInv, TypeOK, Child
  <2> QED BY <1>21, <2>1, QuietStutter DEF StopSignals
<1>22. ASSUME NEW p \in Procs, StopRetires(p) PROVE Fencing!Next \/ lifeBar' = lifeBar
  BY <1>22, QuietStutter DEF StopRetires
<1>23. ASSUME NEW p \in Procs, StopWrite(p) PROVE Fencing!Next \/ lifeBar' = lifeBar
  <2>1. pidFile'.token = pidFile.token
    BY <1>23 DEF StopWrite, At, IInv, CallShape, Shaped, Fenced, StopDataStands, PidFile
  <2> QED BY <1>23, <2>1, Stutter DEF StopWrite, Alike
<1>24. ASSUME NEW p \in Procs, NEW t \in Tokens, ClearBegin(p, t) PROVE Fencing!Next \/ lifeBar' = lifeBar
  BY <1>24, QuietStutter DEF ClearBegin
<1>25. ASSUME NEW p \in Procs, ClearAudit(p) PROVE Fencing!Next \/ lifeBar' = lifeBar
  BY <1>25, QuietStutter DEF ClearAudit
<1>26. ASSUME NEW p \in Procs, ClearUnlink(p) PROVE Fencing!Next \/ lifeBar' = lifeBar
  BY <1>26, RetireRefines DEF Fencing!Next
<1>27. ASSUME NEW p \in Procs, NEW d \in Requests, SetDesiredBegin(p, d) PROVE Fencing!Next \/ lifeBar' = lifeBar
  BY <1>27, QuietStutter DEF SetDesiredBegin
<1>28. ASSUME NEW p \in Procs, NEW t \in Tokens, HeartbeatBegin(p, t) PROVE Fencing!Next \/ lifeBar' = lifeBar
  BY <1>28, QuietStutter DEF HeartbeatBegin
<1>29. ASSUME NEW p \in Procs, Crash(p) PROVE Fencing!Next \/ lifeBar' = lifeBar
  BY <1>29, CloseQuiet, QuietStutter DEF Crash, IInv
<1>30. ASSUME NEW p \in Procs, IoError(p) PROVE Fencing!Next \/ lifeBar' = lifeBar
  BY <1>30, QuietStutter DEF IoError
<1>31. ASSUME NEW t \in Tokens, ChildReady(t) PROVE Fencing!Next \/ lifeBar' = lifeBar
  <2>1. \A u \in Tokens : Alike(child[u].phase, child'[u].phase)
    BY <1>31 DEF ChildReady, Alike, InGateOrBefore, InGate, Live, IInv, TypeOK, Child
  <2> QED BY <1>31, <2>1, Stutter DEF ChildReady
<1>32. ASSUME NEW t \in Tokens, ChildExec(t) PROVE Fencing!Next \/ lifeBar' = lifeBar
  <2>1. /\ child[t].phase \in InGate /\ child'[t].phase = "running"
        /\ \A u \in Tokens \ {t} : child'[u] = child[u]
    BY <1>32 DEF ChildExec, InGate, IInv, TypeOK, Child
  <2> QED BY <1>32, <2>1, ChildRefines DEF ChildExec, Fencing!Next
<1>33. ASSUME NEW t \in Tokens, ChildEof(t) PROVE Fencing!Next \/ lifeBar' = lifeBar
  <2>1. \A u \in Tokens : Alike(child[u].phase, child'[u].phase)
    BY <1>33 DEF ChildEof, Alike, InGateOrBefore, InGate, Live, IInv, TypeOK, Child
  <2> QED BY <1>33, <2>1, Stutter DEF ChildEof
<1>34. ASSUME NEW t \in Tokens, ChildAborts(t) PROVE Fencing!Next \/ lifeBar' = lifeBar
  <2>1. \A u \in Tokens : Alike(child[u].phase, child'[u].phase)
    BY <1>34 DEF ChildAborts, Alike, InGateOrBefore, InGate, Live, IInv, TypeOK, Child
  <2> QED BY <1>34, <2>1, Stutter DEF ChildAborts
<1>35. ASSUME NEW t \in Tokens, LeaderExits(t) PROVE Fencing!Next \/ lifeBar' = lifeBar
  <2>1. \A u \in Tokens : Alike(child[u].phase, child'[u].phase)
    BY <1>35 DEF LeaderExits, Alike, InGateOrBefore, InGate, Live, IInv, TypeOK, Child
  <2> QED BY <1>35, <2>1, Stutter DEF LeaderExits
<1>36. ASSUME NEW t \in Tokens, WorkloadEnds(t) PROVE Fencing!Next \/ lifeBar' = lifeBar
  <2>1. /\ child[t].phase \in Live /\ child'[t].phase = "dead"
        /\ \A u \in Tokens \ {t} : child'[u] = child[u]
    BY <1>36 DEF WorkloadEnds, InGate, IInv, TypeOK, Child
  <2> QED BY <1>36, <2>1, ChildRefines DEF WorkloadEnds, Fencing!Next
<1> QED BY <1>1, <1>2, <1>3, <1>4, <1>5, <1>6, <1>7, <1>8, <1>9, <1>10, <1>11, <1>12, <1>13, <1>14, <1>15, <1>16, <1>17, <1>18, <1>19, <1>20, <1>21, <1>22, <1>23, <1>24, <1>25, <1>26, <1>27, <1>28, <1>29, <1>30, <1>31, <1>32, <1>33, <1>34, <1>35, <1>36 DEF Next, Continue, Begin, GateStep

\* The launch protocol implements LaunchFence: launches of a unit take turns,
\* and none is retired while it runs.
THEOREM Refinement == ASSUME NoStrayStop PROVE Spec => ImplementsLaunchFence
<1>1. IInv /\ [Next]_vars => [Fencing!Next]_lifeBar
  <2> SUFFICES ASSUME IInv, [Next]_vars PROVE Fencing!Next \/ lifeBar' = lifeBar
    OBVIOUS
  <2>1. CASE UNCHANGED vars
    BY <2>1, QuietStutter DEF vars
  <2> QED BY <2>1, RefinesStep
<1> QED BY RefinesInit, Invariance, <1>1, PTL DEF Spec, ImplementsLaunchFence, Fencing!Spec
=============================================================================
