-------------------------- MODULE UnitState_proofs --------------------------
(***************************************************************************)
(* Proofs about state.json, the gates and the handles of a unit.           *)
(***************************************************************************)
EXTENDS UnitStateInv, UnitLifecycle_proofs

\* Types, the shape of the locals and the flock: what holds whoever calls what.
ControlInv == TypeOK /\ CallShape /\ LockHeld

\* It holds of every behaviour.
LEMMA ControlInvariance == Spec => []ControlInv
<1>1. Init => ControlInv
  BY InitInv DEF IInv, ControlInv
<1>2. ControlInv /\ [Next]_vars => ControlInv'
  <2> SUFFICES ASSUME ControlInv, [Next]_vars PROVE ControlInv'
    OBVIOUS
  <2>1. CASE UNCHANGED vars
    BY <2>1 DEF vars, ControlInv, TypeOK, CallShape, LockHeld
  <2>2. CASE Next
    BY <2>2, TypeStep, ControlStep DEF ControlInv
  <2> QED BY <2>1, <2>2
<1> QED BY <1>1, <1>2, PTL DEF Spec

(***************************************************************************)
(* state.json.                                                             *)
(***************************************************************************)
\* Two calls that write state.json are the same call.
LEMMA OneWriter ==
  ASSUME WritersTakeTurns, ControlInv, NEW p \in Procs, NEW q \in Procs,
         proc[p].call \in Writers, proc[q].call \in Writers
  PROVE  p = q
<1>1. proc[p].call \in Calls[p] /\ proc[q].call \in Calls[q]
  BY DEF ControlInv, CallShape, Shaped, Writers
<1>2. CASE proc[p].call = "reconcile" /\ proc[q].call = "reconcile"
  BY <1>2 DEF ControlInv, LockHeld
<1>3. CASE proc[p].call # "reconcile" \/ proc[q].call # "reconcile"
  BY <1>1, <1>3 DEF WritersTakeTurns, TakeTurns
<1> QED BY <1>2, <1>3

\* A launch that has been made keeps its generation, and no generation runs ahead of
\* the one in state.json by more than one.
ChildrenKeep ==
  \A t \in Tokens :
    /\ ~Unused(t) => ~Unused(t)' /\ child'[t].generation = child[t].generation
    /\ child'[t].generation <= stateFile.generation + 1

\* What a process has loaded stands after a step that leaves state.json alone.
LEMMA KeptStands ==
  ASSUME NEW c, Stands(c), UNCHANGED stateFile, ChildrenKeep
  PROVE  c.call \in Writers =>
    /\ c.state.generation >= stateFile'.generation
    /\ c.pc # "save" => c.state.generation = stateFile'.generation
    /\ c.call # "set_desired" => c.state.desired = stateFile'.desired
    /\ c.call = "heartbeat" =>
         /\ c.state.beat \in Tokens /\ ~Unused(c.state.beat)'
         /\ child'[c.state.beat].generation = stateFile'.generation
BY DEF Stands, ChildrenKeep

\* A process moves, with locals that stand, and state.json stays.
LEMMA MoveKeepsState ==
  ASSUME ControlInv, StateInv, UNCHANGED stateFile, ChildrenKeep,
         NEW p \in Procs, NEW r, Become(p, r), Stands(r), r.pc = "save" => r.call \in Writers
  PROVE  StateInv'
<1>1. proc'[p] = r /\ \A q \in Procs \ {p} : proc'[q] = proc[q]
  BY BecomeLocals DEF ControlInv
<1>2. \A q \in Procs : Stands(proc'[q])
  BY <1>1 DEF StateInv, LoadedStateStands
<1>3. LoadedStateStands'
  BY <1>2, KeptStands DEF LoadedStateStands, Stands
<1>4. SavesAreWriters'
  BY <1>1 DEF StateInv, SavesAreWriters
<1>5. LaunchAtMostOneAhead'
  BY DEF ChildrenKeep, LaunchAtMostOneAhead
<1> QED BY <1>3, <1>4, <1>5 DEF StateInv

\* Children move, and nobody else.
LEMMA ChildKeepsState ==
  ASSUME StateInv, UNCHANGED <<stateFile, proc>>, ChildrenKeep
  PROVE  StateInv'
<1>1. LoadedStateStands'
  BY KeptStands DEF StateInv, LoadedStateStands, Stands
<1> QED BY <1>1 DEF StateInv, SavesAreWriters, ChildrenKeep, LaunchAtMostOneAhead

\* A process that returns has nothing loaded.
LEMMA ReturnKeepsState ==
  ASSUME ControlInv, StateInv, UNCHANGED stateFile, ChildrenKeep, NEW p \in Procs, Return(p)
  PROVE  StateInv'
<1>1. Stands(Idle) /\ Idle.pc # "save"
  BY DEF Stands, Idle, Writers
<1> QED BY <1>1, MoveKeepsState DEF Return

\* A call goes on with the state it loaded.
LEMMA GoOnKeepsState ==
  ASSUME ControlInv, StateInv, UNCHANGED stateFile, ChildrenKeep, NEW p \in Procs, NEW r,
         Become(p, r), r.call = proc[p].call, r.state = proc[p].state,
         proc[p].pc # "save", r.pc # "save"
  PROVE  StateInv'
<1>1. Stands(r)
  BY DEF StateInv, LoadedStateStands, Stands
<1> QED BY <1>1, MoveKeepsState

\* A reconcile pass changes what it loaded, but not the desired state.
LEMMA DecideKeepsState ==
  ASSUME ControlInv, StateInv, UNCHANGED stateFile, ChildrenKeep, NEW p \in Procs,
         NEW state, NEW pc, Decide(p, state, pc),
         proc[p].call = "reconcile", proc[p].pc # "save",
         state.desired = proc[p].state.desired, state.generation \in Int,
         state.generation >= proc[p].state.generation,
         pc # "save" => state.generation = proc[p].state.generation
  PROVE  StateInv'
<1> DEFINE r == [proc[p] EXCEPT !.state = state, !.pc = pc]
<1>1. r.call = "reconcile" /\ r.state = state /\ r.pc = pc
  BY DEF ControlInv, TypeOK, Proc
<1>2. Stands(r)
  BY <1>1 DEF StateInv, LoadedStateStands, Stands, Writers
<1> QED BY <1>1, <1>2, MoveKeepsState DEF Decide, Writers

\* The result of a launch or of a stop is reported.
LEMMA ReportKeepsState ==
  ASSUME ControlInv, StateInv, UNCHANGED stateFile, ChildrenKeep, NEW p \in Procs,
         NEW state, Report(p, state), proc[p].pc # "save",
         state.desired = proc[p].state.desired, state.generation \in Int,
         state.generation >= proc[p].state.generation
  PROVE  StateInv'
BY DecideKeepsState, ReturnKeepsState DEF Report

\* The state of a launch carries its generation.
LEMMA SpawnedKeepsState ==
  ASSUME ControlInv, StateInv, UNCHANGED stateFile, ChildrenKeep, NEW p \in Procs,
         NEW t, NEW alive \in BOOLEAN, Spawned(p, t, alive),
         proc[p].pc # "save"
  PROVE  StateInv'
<1> DEFINE s == [proc[p].state EXCEPT !.generation = Generation(p), !.token = t,
                                      !.actual = IF alive THEN "running" ELSE "unknown",
                                      !.verify = ~alive]
<1>1. proc[p].state \in StateFile /\ Generation(p) \in Nat
  BY LoadedType DEF ControlInv
<1>2. s.desired = proc[p].state.desired /\ s.generation = Generation(p)
  BY <1>1 DEF StateFile
<1>3. CASE proc[p].call = "reconcile"
  <2>1. Generation(p) >= proc[p].state.generation
    BY <1>1, <1>3 DEF Generation, StateFile
  <2>2. Report(p, s)
    BY DEF Spawned
  <2> HIDE DEF s
  <2> QED BY <1>1, <1>2, <2>1, <2>2, ReportKeepsState
<1>4. CASE proc[p].call # "reconcile"
  BY <1>4, ReturnKeepsState DEF Spawned, Report
<1> QED BY <1>3, <1>4

\* Steps that leave the generations of the children alone.
LEMMA SameKeeps ==
  ASSUME StateInv, UNCHANGED child
  PROVE  ChildrenKeep
BY DEF StateInv, LaunchAtMostOneAhead, ChildrenKeep, Unused

LEMMA CloseKeeps ==
  ASSUME ControlInv, StateInv, NEW u, child' = CloseParentEnd(u)
  PROVE  ChildrenKeep
<1>1. \A t \in Tokens : child'[t].phase = child[t].phase
                         /\ child'[t].generation = child[t].generation
  BY CloseQuiet DEF ControlInv
<1> QED BY <1>1 DEF StateInv, LaunchAtMostOneAhead, ChildrenKeep, Unused

\* A launch of the reconciler is one ahead of what it loaded, a direct one has none.
LEMMA MintKeeps ==
  ASSUME ControlInv, StateInv, NEW p \in Procs, NEW t \in Tokens, SpawnCreate(p, t)
  PROVE  ChildrenKeep
<1>1. proc[p].pc # "save" /\ Unused(t) /\ stateFile.generation \in Nat
  BY DEF SpawnCreate, At, ControlInv, TypeOK, StateFile
<1>2. Generation(p) <= stateFile.generation + 1
  BY <1>1 DEF Generation, StateInv, LoadedStateStands, Stands, Writers
<1>3. child'[t].generation = Generation(p)
      /\ \A u \in Tokens \ {t} : child'[u] = child[u]
  BY DEF SpawnCreate, ControlInv, TypeOK, Child
<1> QED BY <1>1, <1>2, <1>3 DEF ChildrenKeep, StateInv, LaunchAtMostOneAhead, Unused

\* The save replaces state.json by what its writer loaded and changed.
LEMMA SaveKeepsState ==
  ASSUME WritersTakeTurns, ControlInv, StateInv, NEW p \in Procs, Save(p)
  PROVE  StateInv'
<1>1. proc[p].call \in Writers /\ proc[p].state \in StateFile
  BY LoadedType DEF Save, At, StateInv, SavesAreWriters, ControlInv
<1>2. proc'[p] = Idle /\ \A q \in Procs \ {p} : proc'[q] = proc[q]
  BY BecomeLocals DEF Save, Return, ControlInv
<1>3. \A q \in Procs : proc'[q].call \notin Writers
  BY <1>1, <1>2, OneWriter DEF Idle, Writers
<1>4. LoadedStateStands'
  BY <1>3 DEF LoadedStateStands, Stands
<1>5. SavesAreWriters'
  BY <1>2 DEF Idle, StateInv, SavesAreWriters
<1>6. stateFile'.generation >= stateFile.generation /\ stateFile'.generation \in Nat
      /\ stateFile.generation \in Nat
  BY <1>1 DEF Save, StateInv, LoadedStateStands, Stands, StateFile, ControlInv, TypeOK
<1>7. \A t \in Tokens : child[t].generation \in Nat
  BY DEF ControlInv, TypeOK, Child
<1>8. LaunchAtMostOneAhead'
  BY <1>6, <1>7 DEF Save, StateInv, LaunchAtMostOneAhead
<1> QED BY <1>4, <1>5, <1>8 DEF StateInv

\* Writers that take turns keep the invariant of state.json.
LEMMA StateStep ==
  ASSUME WritersTakeTurns, ControlInv, StateInv, Next
  PROVE  StateInv'
<1>1. ASSUME NEW p \in Procs, ReconcileBegin(p) PROVE StateInv'
  <2> DEFINE r == [Idle EXCEPT !.call = "reconcile", !.pc = "observe", !.state = stateFile]
  <2>1. r.call = "reconcile" /\ r.pc = "observe" /\ r.state = stateFile
    BY DEF Idle
  <2>2. Stands(r)
    BY <2>1 DEF Stands, ControlInv, TypeOK, StateFile
  <2> QED BY <1>1, <2>1, <2>2, SameKeeps, MoveKeepsState DEF ReconcileBegin
<1>2. ASSUME NEW p \in Procs, ObserveTombstone(p) PROVE StateInv'
  <2> DEFINE s == [proc[p].state EXCEPT !.actual = "running", !.verify = TRUE]
  <2>1. s.desired = proc[p].state.desired /\ s.generation = proc[p].state.generation
        /\ s.generation \in Nat /\ proc[p].call = "reconcile" /\ proc[p].pc # "save"
    BY <1>2, LoadedType DEF ObserveTombstone, At, StateFile, ControlInv, CallShape, Shaped
  <2>2. Decide(p, s, IF Wanted(proc[p].state) THEN "save" ELSE "stop_read")
    BY <1>2 DEF ObserveTombstone
  <2> HIDE DEF s
  <2> QED BY <1>2, <2>1, <2>2, SameKeeps, DecideKeepsState DEF ObserveTombstone
<1>3. ASSUME NEW p \in Procs, ObserveStopped(p) PROVE StateInv'
  <2> DEFINE s == [proc[p].state EXCEPT !.actual = "stopped"]
  <2>1. s.desired = proc[p].state.desired /\ s.generation = proc[p].state.generation
        /\ s.generation \in Nat /\ proc[p].call = "reconcile" /\ proc[p].pc # "save"
    BY <1>3, LoadedType DEF ObserveStopped, At, StateFile, ControlInv, CallShape, Shaped
  <2>2. Decide(p, s, IF Wanted(proc[p].state) THEN "lstat" ELSE "save")
    BY <1>3 DEF ObserveStopped
  <2> HIDE DEF s
  <2> QED BY <1>3, <2>1, <2>2, SameKeeps, DecideKeepsState DEF ObserveStopped
<1>4. ASSUME NEW p \in Procs, Save(p) PROVE StateInv'
  BY <1>4, SaveKeepsState
<1>5. ASSUME NEW p \in Procs, SpawnBegin(p) PROVE StateInv'
  <2> DEFINE r == [Idle EXCEPT !.call = "spawn", !.pc = "lstat"]
  <2>1. Stands(r) /\ r.pc # "save"
    BY DEF Stands, Idle, Writers
  <2> QED BY <1>5, <2>1, SameKeeps, MoveKeepsState DEF SpawnBegin
<1>6. ASSUME NEW p \in Procs, SpawnFenced(p) PROVE StateInv'
  <2> DEFINE s == [proc[p].state EXCEPT !.actual = "unknown", !.verify = TRUE]
  <2>1. s.desired = proc[p].state.desired /\ s.generation = proc[p].state.generation
        /\ s.generation \in Nat /\ proc[p].pc # "save"
    BY <1>6, LoadedType DEF SpawnFenced, At, StateFile, ControlInv
  <2>2. Report(p, s)
    BY <1>6 DEF SpawnFenced, Tombstoned
  <2> HIDE DEF s
  <2> QED BY <1>6, <2>1, <2>2, SameKeeps, ReportKeepsState DEF SpawnFenced
<1>7. ASSUME NEW p \in Procs, SpawnUnfenced(p) PROVE StateInv'
  <2> DEFINE r == [proc[p] EXCEPT !.pc = "create"]
  <2>1. r.call = proc[p].call /\ r.state = proc[p].state /\ r.pc = "create"
    BY DEF ControlInv, TypeOK, Proc
  <2> QED BY <1>7, <2>1, SameKeeps, GoOnKeepsState DEF SpawnUnfenced, At, GoTo
<1>8. ASSUME NEW p \in Procs, NEW t \in Tokens, SpawnCreate(p, t) PROVE StateInv'
  <2> DEFINE r == [proc[p] EXCEPT !.token = t, !.pc = "intent"]
  <2>1. r.call = proc[p].call /\ r.state = proc[p].state /\ r.pc = "intent"
    BY DEF ControlInv, TypeOK, Proc
  <2> QED BY <1>8, <2>1, MintKeeps, GoOnKeepsState DEF SpawnCreate, At
<1>9. ASSUME NEW p \in Procs, SpawnLosesRace(p) PROVE StateInv'
  BY <1>9, SameKeeps, ReturnKeepsState DEF SpawnLosesRace
<1>10. ASSUME NEW p \in Procs, SpawnIntent(p) PROVE StateInv'
  <2> DEFINE r == [proc[p] EXCEPT !.pc = "popen"]
  <2>1. r.call = proc[p].call /\ r.state = proc[p].state /\ r.pc = "popen"
    BY DEF ControlInv, TypeOK, Proc
  <2> QED BY <1>10, <2>1, SameKeeps, GoOnKeepsState DEF SpawnIntent, At, GoTo
<1>11. ASSUME NEW p \in Procs, SpawnPopen(p) PROVE StateInv'
  <2> DEFINE r == [proc[p] EXCEPT !.pc = "ready"]
  <2>1. r.call = proc[p].call /\ r.state = proc[p].state /\ r.pc = "ready"
    BY DEF ControlInv, TypeOK, Proc
  <2>2. ChildrenKeep
    BY <1>11 DEF SpawnPopen, ControlInv, TypeOK, Child, StateInv, LaunchAtMostOneAhead, ChildrenKeep, Unused
  <2> QED BY <1>11, <2>1, <2>2, GoOnKeepsState DEF SpawnPopen, At, GoTo
<1>12. ASSUME NEW p \in Procs, SpawnReady(p) PROVE StateInv'
  <2> DEFINE r == [proc[p] EXCEPT !.pc = "persist"]
  <2>1. r.call = proc[p].call /\ r.state = proc[p].state /\ r.pc = "persist"
    BY DEF ControlInv, TypeOK, Proc
  <2> QED BY <1>12, <2>1, SameKeeps, GoOnKeepsState DEF SpawnReady, At, GoTo
<1>13. ASSUME NEW p \in Procs, SpawnEof(p) PROVE StateInv'
  BY <1>13, CloseKeeps, SpawnedKeepsState DEF SpawnEof, At
<1>14. ASSUME NEW p \in Procs, SpawnPersist(p) PROVE StateInv'
  <2> DEFINE r == [proc[p] EXCEPT !.pc = "ack"]
  <2>1. r.call = proc[p].call /\ r.state = proc[p].state /\ r.pc = "ack"
    BY DEF ControlInv, TypeOK, Proc
  <2> QED BY <1>14, <2>1, SameKeeps, GoOnKeepsState DEF SpawnPersist, At, GoTo
<1>15. ASSUME NEW p \in Procs, SpawnAck(p) PROVE StateInv'
  <2> DEFINE r == [proc[p] EXCEPT !.pc = "probe"]
  <2>1. r.call = proc[p].call /\ r.state = proc[p].state /\ r.pc = "probe"
    BY DEF ControlInv, TypeOK, Proc
  <2>2. ChildrenKeep
    BY <1>15 DEF SpawnAck, ControlInv, TypeOK, Child, StateInv, LaunchAtMostOneAhead, ChildrenKeep, Unused
  <2> QED BY <1>15, <2>1, <2>2, GoOnKeepsState DEF SpawnAck, At, GoTo
<1>16. ASSUME NEW p \in Procs, SpawnRaise(p) PROVE StateInv'
  BY <1>16, CloseKeeps, ReturnKeepsState DEF SpawnRaise
<1>17. ASSUME NEW p \in Procs, ProbeAlive(p) PROVE StateInv'
  BY <1>17, SameKeeps, SpawnedKeepsState DEF ProbeAlive, At
<1>18. ASSUME NEW p \in Procs, ProbeExited(p) PROVE StateInv'
  BY <1>18, SameKeeps, SpawnedKeepsState DEF ProbeExited, At
<1>19. ASSUME NEW p \in Procs, StopBegin(p) PROVE StateInv'
  <2> DEFINE r == [Idle EXCEPT !.call = "stop", !.pc = "stop_read"]
  <2>1. Stands(r) /\ r.pc # "save"
    BY DEF Stands, Idle, Writers
  <2> QED BY <1>19, <2>1, SameKeeps, MoveKeepsState DEF StopBegin
<1>20. ASSUME NEW p \in Procs, StopUnreadable(p) PROVE StateInv'
  <2>1. proc[p].state.generation \in Nat /\ proc[p].pc # "save"
    BY <1>20, LoadedType DEF StopUnreadable, At, StateFile, ControlInv
  <2> QED BY <1>20, <2>1, SameKeeps, ReportKeepsState DEF StopUnreadable
<1>21. ASSUME NEW p \in Procs, StopSignals(p) PROVE StateInv'
  <2> DEFINE r == [proc[p] EXCEPT !.data = pidFile, !.pc = "stop_write"]
  <2>1. r.call = proc[p].call /\ r.state = proc[p].state /\ r.pc = "stop_write"
    BY DEF ControlInv, TypeOK, Proc
  <2>2. ChildrenKeep
    BY <1>21 DEF StopSignals, ControlInv, TypeOK, Child, StateInv, LaunchAtMostOneAhead, ChildrenKeep, Unused
  <2> QED BY <1>21, <2>1, <2>2, GoOnKeepsState DEF StopSignals, At
<1>22. ASSUME NEW p \in Procs, StopRetires(p) PROVE StateInv'
  <2> DEFINE r == [proc[p] EXCEPT !.data = pidFile, !.pc = "stop_write"]
  <2>1. r.call = proc[p].call /\ r.state = proc[p].state /\ r.pc = "stop_write"
    BY DEF ControlInv, TypeOK, Proc
  <2> QED BY <1>22, <2>1, SameKeeps, GoOnKeepsState DEF StopRetires, At
<1>23. ASSUME NEW p \in Procs, StopWrite(p) PROVE StateInv'
  <2>1. proc[p].state.generation \in Nat /\ proc[p].pc # "save"
    BY <1>23, LoadedType DEF StopWrite, At, StateFile, ControlInv
  <2> QED BY <1>23, <2>1, SameKeeps, ReportKeepsState DEF StopWrite
<1>24. ASSUME NEW p \in Procs, NEW t \in Tokens, ClearBegin(p, t) PROVE StateInv'
  <2> DEFINE r == [Idle EXCEPT !.call = "clear", !.token = t, !.pc = "audit"]
  <2>1. Stands(r) /\ r.pc # "save"
    BY DEF Stands, Idle, Writers
  <2> QED BY <1>24, <2>1, SameKeeps, MoveKeepsState DEF ClearBegin
<1>25. ASSUME NEW p \in Procs, ClearAudit(p) PROVE StateInv'
  <2> DEFINE r == [proc[p] EXCEPT !.pc = "unlink"]
  <2>1. r.call = proc[p].call /\ r.state = proc[p].state /\ r.pc = "unlink"
    BY DEF ControlInv, TypeOK, Proc
  <2> QED BY <1>25, <2>1, SameKeeps, GoOnKeepsState DEF ClearAudit, At, GoTo
<1>26. ASSUME NEW p \in Procs, ClearUnlink(p) PROVE StateInv'
  BY <1>26, SameKeeps, ReturnKeepsState DEF ClearUnlink
<1>27. ASSUME NEW p \in Procs, NEW d \in Requests, SetDesiredBegin(p, d) PROVE StateInv'
  <2> DEFINE r == [Idle EXCEPT !.call = "set_desired", !.pc = "save",
                             !.state = [stateFile EXCEPT !.desired = d]]
  <2>1. r.call = "set_desired" /\ r.pc = "save" /\ r.state.generation = stateFile.generation
    BY DEF Idle, ControlInv, TypeOK, StateFile
  <2>2. Stands(r) /\ r.call \in Writers
    BY <2>1 DEF Stands, Writers, ControlInv, TypeOK, StateFile
  <2> QED BY <1>27, <2>1, <2>2, SameKeeps, MoveKeepsState DEF SetDesiredBegin
<1>28. ASSUME NEW p \in Procs, NEW t \in Tokens, HeartbeatBegin(p, t) PROVE StateInv'
  <2> DEFINE r == [Idle EXCEPT !.call = "heartbeat", !.pc = "save",
                             !.state = [stateFile EXCEPT !.beat = t]]
  <2>1. /\ r.call = "heartbeat" /\ r.pc = "save" /\ r.state.beat = t
        /\ r.state.generation = stateFile.generation /\ r.state.desired = stateFile.desired
    BY DEF Idle, ControlInv, TypeOK, StateFile
  <2>2. ~Unused(t) /\ child[t].generation = stateFile.generation
    BY <1>28 DEF HeartbeatBegin, Unused, Live
  <2>3. Stands(r) /\ r.call \in Writers
    BY <2>1, <2>2 DEF Stands, Writers, ControlInv, TypeOK, StateFile
  <2> QED BY <1>28, <2>1, <2>3, SameKeeps, MoveKeepsState DEF HeartbeatBegin
<1>29. ASSUME NEW p \in Procs, Crash(p) PROVE StateInv'
  <2>1. ChildrenKeep
    BY <1>29, SameKeeps, CloseKeeps DEF Crash
  <2> QED BY <1>29, <2>1, ReturnKeepsState DEF Crash
<1>30. ASSUME NEW p \in Procs, IoError(p) PROVE StateInv'
  BY <1>30, SameKeeps, ReturnKeepsState DEF IoError
<1>31. ASSUME NEW t \in Tokens, ChildReady(t) PROVE StateInv'
  <2>1. ChildrenKeep
    BY <1>31 DEF ChildReady, InGate, Live, ControlInv, TypeOK, Child, StateInv, LaunchAtMostOneAhead, ChildrenKeep, Unused
  <2> QED BY <1>31, <2>1, ChildKeepsState DEF ChildReady
<1>32. ASSUME NEW t \in Tokens, ChildExec(t) PROVE StateInv'
  <2>1. ChildrenKeep
    BY <1>32 DEF ChildExec, InGate, Live, ControlInv, TypeOK, Child, StateInv, LaunchAtMostOneAhead, ChildrenKeep, Unused
  <2> QED BY <1>32, <2>1, ChildKeepsState DEF ChildExec
<1>33. ASSUME NEW t \in Tokens, ChildEof(t) PROVE StateInv'
  <2>1. ChildrenKeep
    BY <1>33 DEF ChildEof, InGate, Live, ControlInv, TypeOK, Child, StateInv, LaunchAtMostOneAhead, ChildrenKeep, Unused
  <2> QED BY <1>33, <2>1, ChildKeepsState DEF ChildEof
<1>34. ASSUME NEW t \in Tokens, ChildAborts(t) PROVE StateInv'
  <2>1. ChildrenKeep
    BY <1>34 DEF ChildAborts, InGate, Live, ControlInv, TypeOK, Child, StateInv, LaunchAtMostOneAhead, ChildrenKeep, Unused
  <2> QED BY <1>34, <2>1, ChildKeepsState DEF ChildAborts
<1>35. ASSUME NEW t \in Tokens, LeaderExits(t) PROVE StateInv'
  <2>1. ChildrenKeep
    BY <1>35 DEF LeaderExits, InGate, Live, ControlInv, TypeOK, Child, StateInv, LaunchAtMostOneAhead, ChildrenKeep, Unused
  <2> QED BY <1>35, <2>1, ChildKeepsState DEF LeaderExits
<1>36. ASSUME NEW t \in Tokens, WorkloadEnds(t) PROVE StateInv'
  <2>1. ChildrenKeep
    BY <1>36 DEF WorkloadEnds, InGate, Live, ControlInv, TypeOK, Child, StateInv, LaunchAtMostOneAhead, ChildrenKeep, Unused
  <2> QED BY <1>36, <2>1, ChildKeepsState DEF WorkloadEnds
<1> QED BY <1>1, <1>2, <1>3, <1>4, <1>5, <1>6, <1>7, <1>8, <1>9, <1>10, <1>11, <1>12, <1>13, <1>14, <1>15, <1>16, <1>17, <1>18, <1>19, <1>20, <1>21, <1>22, <1>23, <1>24, <1>25, <1>26, <1>27, <1>28, <1>29, <1>30, <1>31, <1>32, <1>33, <1>34, <1>35, <1>36 DEF Next, Continue, Begin, GateStep

\* A writer's loaded state is current whenever it can matter, and no launch runs
\* further ahead than the save that a crash can lose.
THEOREM StateInvariance == ASSUME WritersTakeTurns PROVE Spec => []StateInv
<1>1. Init => StateInv
  <2> SUFFICES ASSUME Init PROVE StateInv
    OBVIOUS
  <2>1. \A p \in Procs : proc[p] = Idle
    BY DEF Init
  <2>2. \A t \in Tokens : child[t].generation = 0
    BY DEF Init, NoChild
  <2>3. stateFile.generation = 0
    BY DEF Init, DefaultState
  <2> QED BY <2>1, <2>2, <2>3 DEF StateInv, LoadedStateStands, Stands, SavesAreWriters,
             LaunchAtMostOneAhead, Idle, Writers
<1>2. ControlInv /\ StateInv /\ [Next]_vars => StateInv'
  <2> SUFFICES ASSUME ControlInv, StateInv, [Next]_vars PROVE StateInv'
    OBVIOUS
  <2>1. CASE UNCHANGED vars
    BY <2>1, SameKeeps, ChildKeepsState DEF vars
  <2> QED BY <2>1, StateStep
<1> QED BY <1>1, <1>2, ControlInvariance, PTL DEF Spec

\* The crash between a launch and the save of its generation costs one generation at
\* most: the persisted one is never more than one behind a launch.
THEOREM LaunchesBarelyAhead == ASSUME WritersTakeTurns PROVE Spec => []LaunchAtMostOneAhead
<1>1. StateInv => LaunchAtMostOneAhead
  BY DEF StateInv
<1> QED BY <1>1, StateInvariance, PTL

\* What changes state.json is the save of a writer.
LEMMA OnlySavesWrite ==
  ASSUME Next, stateFile' # stateFile PROVE \E p \in Procs : Save(p)
BY DEF Next, Continue, Begin, GateStep, Crash, IoError, ObserveTombstone, ObserveStopped,
   SpawnFenced, SpawnUnfenced, SpawnCreate, SpawnLosesRace, SpawnIntent, SpawnPopen,
   SpawnReady, SpawnEof, SpawnPersist, SpawnAck, SpawnRaise, ProbeAlive, ProbeExited,
   StopUnreadable, StopSignals, StopRetires, StopWrite, ClearAudit, ClearUnlink,
   ReconcileBegin, SpawnBegin, StopBegin, ClearBegin, HeartbeatBegin, SetDesiredBegin,
   ChildReady, ChildExec, ChildEof, ChildAborts, LeaderExits, WorkloadEnds

\* The generation in state.json never goes back.
THEOREM GenerationForward == ASSUME WritersTakeTurns PROVE Spec => GenerationNeverRegresses
<1>1. ControlInv /\ StateInv /\ [Next]_vars => [stateFile'.generation >= stateFile.generation]_vars
  <2> SUFFICES ASSUME ControlInv, StateInv, Next
               PROVE  stateFile'.generation >= stateFile.generation
    BY DEF vars
  <2>1. stateFile.generation \in Nat
    BY DEF ControlInv, TypeOK, StateFile
  <2>2. CASE stateFile' = stateFile
    BY <2>1, <2>2
  <2>3. ASSUME NEW p \in Procs, Save(p) PROVE stateFile'.generation >= stateFile.generation
    BY <2>3 DEF Save, At, StateInv, SavesAreWriters, LoadedStateStands, Stands
  <2> QED BY <2>2, <2>3, OnlySavesWrite
<1> QED BY <1>1, ControlInvariance, StateInvariance, PTL DEF Spec, GenerationNeverRegresses

(***************************************************************************)
(* The desired state, with set_desired beside reconcilers and heartbeats.  *)
(***************************************************************************)
\* What a step may make of a process, whose locals were c, in what concerns the desire
\* it carries: nothing, or d, which carries none, the same one, or one just loaded.
Carries(c, d) ==
  \/ d = c
  \/ d.call \notin Carriers /\ (d.pc = "save" => d.call \in Writers)
  \/ /\ d.call = c.call /\ d.state.desired = c.state.desired
     /\ d.pc = "save" => d.call \in Writers
  \/ d.call \in Writers /\ d.state.desired = stateFile.desired

AllCarry == \A q \in Procs : Carries(proc[q], proc'[q])

LEMMA MoveCarries ==
  ASSUME ControlInv, NEW p \in Procs, NEW r, Become(p, r), Carries(proc[p], r)
  PROVE  AllCarry
<1>1. proc'[p] = r /\ \A q \in Procs \ {p} : proc'[q] = proc[q]
  BY BecomeLocals DEF ControlInv
<1>2. ASSUME NEW q \in Procs PROVE Carries(proc[q], proc'[q])
  <2>1. CASE q = p BY <1>1, <2>1
  <2>2. CASE q # p BY <1>1, <2>2 DEF Carries
  <2> QED BY <2>1, <2>2
<1> QED BY <1>2 DEF AllCarry

LEMMA ReturnCarries == ASSUME ControlInv, NEW p \in Procs, Return(p) PROVE AllCarry
<1>1. Carries(proc[p], Idle) BY DEF Carries, Idle, Carriers
<1> QED BY <1>1, MoveCarries DEF Return

\* A call goes on with the state it loaded.
LEMMA GoOnCarries ==
  ASSUME ControlInv, NEW p \in Procs, NEW r, Become(p, r),
         r.call = proc[p].call, r.state = proc[p].state, r.pc # "save"
  PROVE  AllCarry
<1>1. Carries(proc[p], r) BY DEF Carries
<1> QED BY <1>1, MoveCarries

LEMMA DecideCarries ==
  ASSUME ControlInv, NEW p \in Procs, NEW state, NEW pc, Decide(p, state, pc),
         proc[p].call = "reconcile", state.desired = proc[p].state.desired
  PROVE  AllCarry
<1> DEFINE r == [proc[p] EXCEPT !.state = state, !.pc = pc]
<1>1. r.call = "reconcile" /\ r.state = state BY DEF ControlInv, TypeOK, Proc
<1>2. Carries(proc[p], r) BY <1>1 DEF Carries, Writers
<1> QED BY <1>2, MoveCarries DEF Decide

LEMMA ReportCarries ==
  ASSUME ControlInv, NEW p \in Procs, NEW state, Report(p, state),
         state.desired = proc[p].state.desired
  PROVE  AllCarry
BY DecideCarries, ReturnCarries DEF Report

LEMMA SpawnedCarries ==
  ASSUME ControlInv, NEW p \in Procs, NEW t, NEW alive, Spawned(p, t, alive)
  PROVE  AllCarry
<1> DEFINE s == [proc[p].state EXCEPT !.generation = Generation(p), !.token = t,
                                      !.actual = IF alive THEN "running" ELSE "unknown",
                                      !.verify = ~alive]
<1>1. s.desired = proc[p].state.desired BY LoadedType DEF ControlInv, StateFile
<1>2. Report(p, s) BY DEF Spawned
<1> HIDE DEF s
<1> QED BY <1>1, <1>2, ReportCarries

\* A process begins a call that loads nothing.
LEMMA BeginCarries ==
  ASSUME ControlInv, NEW p \in Procs, SpawnBegin(p) \/ StopBegin(p) \/ \E t \in Tokens : ClearBegin(p, t)
  PROVE  AllCarry
<1>1. PICK r : Become(p, r) /\ r.call \in {"spawn", "stop", "clear"} /\ r.pc # "save"
  <2>1. /\ [Idle EXCEPT !.call = "spawn", !.pc = "lstat"].call = "spawn"
        /\ [Idle EXCEPT !.call = "spawn", !.pc = "lstat"].pc = "lstat"
        /\ [Idle EXCEPT !.call = "stop", !.pc = "stop_read"].call = "stop"
        /\ [Idle EXCEPT !.call = "stop", !.pc = "stop_read"].pc = "stop_read"
        /\ \A t : /\ [Idle EXCEPT !.call = "clear", !.token = t, !.pc = "audit"].call = "clear"
                 /\ [Idle EXCEPT !.call = "clear", !.token = t, !.pc = "audit"].pc = "audit"
    BY DEF Idle
  <2> QED BY <2>1 DEF SpawnBegin, StopBegin, ClearBegin
<1>2. Carries(proc[p], r) BY <1>1 DEF Carries, Carriers
<1> QED BY <1>1, <1>2, MoveCarries

\* A process begins a call that loads state.json.
LEMMA LoadCarries ==
  ASSUME ControlInv, NEW p \in Procs,
         ReconcileBegin(p) \/ (\E t \in Tokens : HeartbeatBegin(p, t))
           \/ \E d \in Requests : SetDesiredBegin(p, d)
  PROVE  AllCarry
<1>1. CASE ReconcileBegin(p)
  <2> DEFINE r == [Idle EXCEPT !.call = "reconcile", !.pc = "observe", !.state = stateFile]
  <2>1. r.call = "reconcile" /\ r.state = stateFile BY DEF Idle
  <2>2. Carries(proc[p], r) BY <2>1 DEF Carries, Writers
  <2> QED BY <1>1, <2>2, MoveCarries DEF ReconcileBegin
<1>2. ASSUME NEW t \in Tokens, HeartbeatBegin(p, t) PROVE AllCarry
  <2> DEFINE r == [Idle EXCEPT !.call = "heartbeat", !.pc = "save",
                             !.state = [stateFile EXCEPT !.beat = t]]
  <2>1. r.call = "heartbeat" /\ r.state.desired = stateFile.desired
    BY DEF Idle, ControlInv, TypeOK, StateFile
  <2>2. Carries(proc[p], r) BY <2>1 DEF Carries, Writers
  <2> QED BY <1>2, <2>2, MoveCarries DEF HeartbeatBegin
<1>3. ASSUME NEW d \in Requests, SetDesiredBegin(p, d) PROVE AllCarry
  <2> DEFINE r == [Idle EXCEPT !.call = "set_desired", !.pc = "save",
                             !.state = [stateFile EXCEPT !.desired = d]]
  <2>1. r.call = "set_desired" BY DEF Idle
  <2>2. Carries(proc[p], r) BY <2>1 DEF Carries, Carriers, Writers
  <2> QED BY <1>3, <2>2, MoveCarries DEF SetDesiredBegin
<1> QED BY <1>1, <1>2, <1>3

\* A step of a call that goes on.
LEMMA ContinueCarries == ASSUME ControlInv, NEW p \in Procs, Continue(p) PROVE AllCarry
<1>1. proc[p] \in Proc /\ proc[p].state \in StateFile BY LoadedType DEF ControlInv, TypeOK
<1>2. ASSUME NEW pc, pc # "save", GoTo(p, pc) PROVE AllCarry
  <2>1. /\ [proc[p] EXCEPT !.pc = pc].call = proc[p].call
        /\ [proc[p] EXCEPT !.pc = pc].state = proc[p].state
        /\ [proc[p] EXCEPT !.pc = pc].pc = pc
    BY <1>1 DEF Proc
  <2> QED BY <1>2, <2>1, GoOnCarries DEF GoTo
<1>3. CASE SpawnUnfenced(p) \/ SpawnIntent(p) \/ SpawnPopen(p) \/ SpawnReady(p)
             \/ SpawnPersist(p) \/ SpawnAck(p) \/ ClearAudit(p)
  BY <1>2, <1>3 DEF SpawnUnfenced, SpawnIntent, SpawnPopen, SpawnReady, SpawnPersist,
                    SpawnAck, ClearAudit
<1>4. CASE Save(p) \/ SpawnLosesRace(p) \/ SpawnRaise(p) \/ ClearUnlink(p)
  BY <1>4, ReturnCarries DEF Save, SpawnLosesRace, SpawnRaise, ClearUnlink
<1>5. ASSUME NEW t \in Tokens, SpawnCreate(p, t) PROVE AllCarry
  <2>1. /\ [proc[p] EXCEPT !.token = t, !.pc = "intent"].call = proc[p].call
        /\ [proc[p] EXCEPT !.token = t, !.pc = "intent"].state = proc[p].state
        /\ [proc[p] EXCEPT !.token = t, !.pc = "intent"].pc = "intent"
    BY <1>1 DEF Proc
  <2> QED BY <1>5, <2>1, GoOnCarries DEF SpawnCreate
<1>6. CASE StopSignals(p) \/ StopRetires(p)
  <2>1. /\ [proc[p] EXCEPT !.data = pidFile, !.pc = "stop_write"].call = proc[p].call
        /\ [proc[p] EXCEPT !.data = pidFile, !.pc = "stop_write"].state = proc[p].state
        /\ [proc[p] EXCEPT !.data = pidFile, !.pc = "stop_write"].pc = "stop_write"
    BY <1>1 DEF Proc
  <2> QED BY <1>6, <2>1, GoOnCarries DEF StopSignals, StopRetires
<1>7. CASE ObserveTombstone(p) \/ ObserveStopped(p)
  <2>1. proc[p].call = "reconcile"
    BY <1>7 DEF ObserveTombstone, ObserveStopped, At, ControlInv, CallShape, Shaped
  <2>2. /\ [proc[p].state EXCEPT !.actual = "running", !.verify = TRUE].desired = proc[p].state.desired
        /\ [proc[p].state EXCEPT !.actual = "stopped"].desired = proc[p].state.desired
    BY <1>1 DEF StateFile
  <2> QED BY <1>7, <2>1, <2>2, DecideCarries DEF ObserveTombstone, ObserveStopped
<1>8. CASE SpawnFenced(p) \/ StopUnreadable(p) \/ StopWrite(p)
  <2>1. [proc[p].state EXCEPT !.actual = "unknown", !.verify = TRUE].desired = proc[p].state.desired
    BY <1>1 DEF StateFile
  <2> QED BY <1>8, <2>1, ReportCarries DEF SpawnFenced, Tombstoned, StopUnreadable, StopWrite
<1>9. CASE SpawnEof(p) \/ ProbeAlive(p) \/ ProbeExited(p)
  BY <1>9, SpawnedCarries DEF SpawnEof, ProbeAlive, ProbeExited
<1> QED BY <1>3, <1>4, <1>5, <1>6, <1>7, <1>8, <1>9 DEF Continue

LEMMA EveryoneCarries == ASSUME ControlInv, [Next]_vars PROVE AllCarry
<1>1. ASSUME UNCHANGED proc PROVE AllCarry BY <1>1 DEF AllCarry, Carries
<1>2. CASE UNCHANGED vars BY <1>1, <1>2 DEF vars
<1>3. ASSUME NEW p \in Procs, Continue(p) \/ Begin(p) \/ Crash(p) \/ IoError(p) PROVE AllCarry
  BY <1>3, ContinueCarries, BeginCarries, LoadCarries, ReturnCarries DEF Begin, Crash, IoError
<1>4. ASSUME NEW t \in Tokens, GateStep(t) \/ ChildAborts(t) \/ LeaderExits(t) \/ WorkloadEnds(t)
      PROVE  AllCarry
  BY <1>1, <1>4 DEF GateStep, ChildReady, ChildExec, ChildEof, ChildAborts, LeaderExits, WorkloadEnds
<1> QED BY <1>2, <1>3, <1>4 DEF Next

\* A save writes back the desire its call carries.
LEMMA DesireStep ==
  ASSUME ControlInv, DesireInv, [Next]_vars, [NoDesireSavedOver]_vars
  PROVE  /\ DesireInv'
         /\ stateFile'.desired # stateFile.desired =>
              \E p \in Procs : proc[p].call = "set_desired" /\ proc[p].pc = "save"
<1>1. AllCarry BY EveryoneCarries
<1>2. SavesAreWriters' BY <1>1 DEF AllCarry, Carries, DesireInv, SavesAreWriters
<1>3. CASE stateFile' = stateFile
  <2>1. DesireStands'
    BY <1>1, <1>3 DEF AllCarry, Carries, DesireInv, DesireStands
  <2> QED BY <1>2, <1>3, <2>1 DEF DesireInv
<1>4. CASE stateFile' # stateFile
  <2>1. PICK p \in Procs : Save(p) BY <1>4, OnlySavesWrite DEF vars
  <2>2. /\ proc[p].pc = "save" /\ proc[p].call \in Writers /\ stateFile' = proc[p].state
        /\ proc'[p] = Idle /\ \A q \in Procs \ {p} : proc'[q] = proc[q]
    BY <2>1, BecomeLocals DEF Save, At, Return, DesireInv, SavesAreWriters, ControlInv
  <2>3. CASE proc[p].call = "set_desired"
    <3>1. \A q \in Procs : proc[q].call \notin Carriers
      BY <1>4, <2>1, <2>3 DEF NoDesireSavedOver, SavesOver, vars
    <3>2. DesireStands'
      BY <2>2, <3>1 DEF DesireStands, Idle, Carriers
    <3> QED BY <1>2, <2>2, <2>3, <3>2 DEF DesireInv
  <2>4. CASE proc[p].call # "set_desired"
    <3>1. stateFile'.desired = stateFile.desired
      BY <2>2, <2>4 DEF Writers, Carriers, DesireInv, DesireStands
    <3>2. DesireStands'
      BY <2>2, <3>1 DEF DesireInv, DesireStands, Idle, Carriers
    <3> QED BY <1>2, <3>1, <3>2 DEF DesireInv
  <2> QED BY <2>3, <2>4
<1> QED BY <1>3, <1>4

\* Control planes, reconcilers and heartbeats may share a unit in any number: a desired
\* state is lost only when a set_desired saves while another one of them is between
\* its load and its save.  Everything else they do to one another keeps it.
THEOREM DesireLostOnlyBySaveOver ==
  Spec /\ [][NoDesireSavedOver]_vars => DesiredPersists
<1> DEFINE A == stateFile'.desired # stateFile.desired =>
                  \E p \in Procs : proc[p].call = "set_desired" /\ proc[p].pc = "save"
<1>1. Init => DesireInv
  BY DEF Init, DesireInv, DesireStands, SavesAreWriters, Idle, Carriers
<1>2. ControlInv /\ DesireInv /\ [Next]_vars /\ [NoDesireSavedOver]_vars => DesireInv' /\ [A]_vars
  BY DesireStep
<1> QED BY <1>1, <1>2, ControlInvariance, PTL DEF Spec, DesiredPersists

(***************************************************************************)
(* The gate.                                                               *)
(***************************************************************************)
\* No child enters or leaves the gate, or is acknowledged; a parent's end may close.
GatesKeep ==
  \A t \in Tokens :
    /\ child'[t].phase = child[t].phase /\ child'[t].ready = child[t].ready
    /\ child'[t].parent # child[t].parent => child'[t].parent = "closed" /\ child[t].parent = "open"

LEMMA SameGates == ASSUME UNCHANGED child PROVE GatesKeep
BY DEF GatesKeep

LEMMA CloseGates ==
  ASSUME ControlInv, NEW u \in Tokens, child' = CloseParentEnd(u)
  PROVE  GatesKeep /\ child'[u].parent # "open"
BY DEF ControlInv, TypeOK, Child, CloseParentEnd, GatesKeep

\* A process moves within its launch, or stops awaiting a child once the gate is
\* answered or closed.
LEMMA MoveKeepsGate ==
  ASSUME ControlInv, GateInv, GatesKeep, NEW p \in Procs, NEW r, Become(p, r),
         r.pc \in Launching =>
           /\ proc[p].pc \in Launching /\ r.token = proc[p].token
           /\ r.pc \in {"intent", "popen"} => proc[p].pc \in {"intent", "popen"},
         Awaits(proc[p]) =>
           \/ Awaits(r)
           \/ child'[proc[p].token].parent # "open"
  PROVE  GateInv'
<1>1. proc'[p] = r /\ \A q \in Procs \ {p} : proc'[q] = proc[q]
  BY BecomeLocals DEF ControlInv
<1>2. \A q \in Procs : proc[q].pc \in Launching => proc[q].token \in Tokens
  BY DEF ControlInv, CallShape, Shaped
<1>3. \A q \in Procs : proc'[q].pc \in Launching =>
        /\ proc[q].pc \in Launching /\ proc'[q].token = proc[q].token
        /\ proc'[q].pc \in {"intent", "popen"} => proc[q].pc \in {"intent", "popen"}
  BY <1>1
<1>4. LaunchesAreOwn'
  BY <1>2, <1>3 DEF GateInv, LaunchesAreOwn, GatesKeep, Unused
<1>5. AckedWasReady'
  BY DEF GateInv, AckedWasReady, GatesKeep
<1>6. ASSUME NEW t \in Tokens, child'[t].phase \in InGate, child'[t].parent = "open"
      PROVE  \E q \in Procs : proc'[q].token = t /\ Awaits(proc'[q])
  <2>1. PICK q \in Procs : proc[q].token = t /\ Awaits(proc[q])
    BY <1>6 DEF GateInv, GateIsAttended, GatesKeep
  <2>2. CASE q # p
    BY <1>1, <2>1, <2>2
  <2>3. CASE q = p
    <3>1. Awaits(r)
      BY <1>6, <2>1, <2>3
    <3>2. r.token = t
      BY <2>1, <2>3, <3>1 DEF Awaits, Launching
    <3> QED BY <1>1, <3>1, <3>2
  <2> QED BY <2>2, <2>3
<1>7. GateIsAttended'
  BY <1>6 DEF GateInv, GateIsAttended, GatesKeep, Awaits
<1> QED BY <1>4, <1>5, <1>7 DEF GateInv

\* A process returns, with its gate answered or closed.
LEMMA ReturnKeepsGate ==
  ASSUME ControlInv, GateInv, GatesKeep, NEW p \in Procs, Return(p),
         Awaits(proc[p]) => child'[proc[p].token].parent # "open"
  PROVE  GateInv'
BY MoveKeepsGate DEF Return, Idle, Launching

LEMMA ReportKeepsGate ==
  ASSUME ControlInv, GateInv, GatesKeep, NEW p \in Procs, NEW state, Report(p, state),
         Awaits(proc[p]) => child'[proc[p].token].parent # "open"
  PROVE  GateInv'
<1> DEFINE r == [proc[p] EXCEPT !.state = state, !.pc = "save"]
<1>1. r.pc = "save"
  BY DEF ControlInv, TypeOK, Proc
<1> QED BY <1>1, MoveKeepsGate, ReturnKeepsGate DEF Report, Decide, Launching

\* One launcher moves on, the others and their children stay.
LEMMA LauncherMoves ==
  ASSUME GateInv, NEW p \in Procs, NEW r, r.pc \in Launching, NEW t, r.token = t,
         child'[t].phase # "unused",
         r.pc \in {"intent", "popen"} => child'[t].phase = "intended",
         proc'[p] = r, \A q \in Procs \ {p} : proc'[q] = proc[q],
         \A q \in Procs \ {p} : proc[q].pc \in Launching => proc[q].token \in Tokens \ {t},
         \A u \in Tokens \ {t} : child'[u] = child[u]
  PROVE  LaunchesAreOwn'
<1> SUFFICES ASSUME NEW q \in Procs, proc'[q].pc \in Launching
             PROVE  /\ child'[proc'[q].token].phase # "unused"
                    /\ proc'[q].pc \in {"intent", "popen"} =>
                         child'[proc'[q].token].phase = "intended"
                    /\ \A o \in Procs : proc'[o].pc \in Launching
                                         /\ proc'[o].token = proc'[q].token => q = o
  BY DEF LaunchesAreOwn, Unused
<1>1. CASE q = p
  BY <1>1
<1>2. CASE q # p
  <2>1. child'[proc'[q].token] = child[proc[q].token] /\ proc'[q] = proc[q]
    BY <1>2
  <2>2. /\ child[proc[q].token].phase # "unused"
        /\ proc[q].pc \in {"intent", "popen"} => child[proc[q].token].phase = "intended"
    BY <2>1 DEF GateInv, LaunchesAreOwn, Unused
  <2>3. \A o \in Procs \ {p} : proc'[o].pc \in Launching /\ proc'[o].token = proc'[q].token => q = o
    BY <1>2, <2>1 DEF GateInv, LaunchesAreOwn
  <2>4. proc'[p].token # proc'[q].token
    BY <1>2, <2>1
  <2> QED BY <2>1, <2>2, <2>3, <2>4
<1> QED BY <1>1, <1>2

\* The token a launch takes was nobody's.
LEMMA SpawnCreateKeepsGate ==
  ASSUME ControlInv, GateInv, NEW p \in Procs, NEW t \in Tokens, SpawnCreate(p, t)
  PROVE  GateInv'
<1> DEFINE r == [proc[p] EXCEPT !.token = t, !.pc = "intent"]
<1>1. r.pc = "intent" /\ r.token = t
  BY DEF ControlInv, TypeOK, Proc
<1>2. proc'[p] = r /\ \A q \in Procs \ {p} : proc'[q] = proc[q]
  BY BecomeLocals DEF ControlInv, SpawnCreate
<1>3. child'[t].phase = "intended" /\ child'[t].parent = child[t].parent
      /\ \A u \in Tokens \ {t} : child'[u] = child[u]
  BY DEF SpawnCreate, ControlInv, TypeOK, Child
<1>4. \A q \in Procs : proc[q].pc \in Launching => proc[q].token \in Tokens \ {t}
  BY DEF ControlInv, CallShape, Shaped, GateInv, LaunchesAreOwn, SpawnCreate
<1>5. LaunchesAreOwn'
  <2>1. r.pc \in Launching
    BY <1>1 DEF Launching
  <2> HIDE DEF r
  <2> QED BY <1>1, <1>2, <1>3, <1>4, <2>1, LauncherMoves
<1>6. AckedWasReady'
  BY <1>3 DEF GateInv, AckedWasReady, SpawnCreate, Unused
<1>7. ~Awaits(proc[p])
  BY DEF SpawnCreate, At, Awaits
<1>8. GateIsAttended'
  BY <1>2, <1>3, <1>7 DEF GateInv, GateIsAttended, InGate, Awaits
<1> QED BY <1>5, <1>6, <1>8 DEF GateInv

\* Popen puts the child in the gate, and its launcher awaits it.
LEMMA SpawnPopenKeepsGate ==
  ASSUME ControlInv, GateInv, NEW p \in Procs, SpawnPopen(p)
  PROVE  GateInv'
<1> DEFINE r == [proc[p] EXCEPT !.pc = "ready"]
<1>1. r.pc = "ready" /\ r.token = proc[p].token
  BY DEF ControlInv, TypeOK, Proc
<1>2. proc'[p] = r /\ \A q \in Procs \ {p} : proc'[q] = proc[q]
  BY BecomeLocals DEF ControlInv, SpawnPopen, GoTo
<1>3. proc[p].pc \in Launching /\ proc[p].token \in Tokens /\ ~Awaits(proc[p])
      /\ child[proc[p].token].phase = "intended"
  BY DEF SpawnPopen, At, Launching, Awaits, ControlInv, CallShape, Shaped, GateInv, LaunchesAreOwn
<1>4. child'[proc[p].token].phase = "starting"
      /\ child'[proc[p].token].parent = child[proc[p].token].parent
      /\ \A u \in Tokens \ {proc[p].token} : child'[u] = child[u]
  BY <1>3 DEF SpawnPopen, ControlInv, TypeOK, Child
<1>5. \A q \in Procs \ {p} : proc[q].pc \in Launching => proc[q].token \in Tokens \ {proc[p].token}
  BY <1>3 DEF ControlInv, CallShape, Shaped, GateInv, LaunchesAreOwn
<1>6. LaunchesAreOwn'
  <2>1. r.pc \in Launching
    BY <1>1 DEF Launching
  <2> HIDE DEF r
  <2> QED BY <1>1, <1>2, <1>4, <1>5, <2>1, LauncherMoves
<1>7. child[proc[p].token].parent # "acked"
  BY <1>3 DEF GateInv, AckedWasReady
<1>8. AckedWasReady'
  BY <1>4, <1>7 DEF GateInv, AckedWasReady
<1>9. GateIsAttended'
  <2> SUFFICES ASSUME NEW t \in Tokens, child'[t].phase \in InGate
               PROVE  /\ child'[t].phase = "ready" => child'[t].ready
                      /\ child'[t].parent = "acked" => child'[t].phase = "ready"
                      /\ child'[t].parent = "open" =>
                           \E q \in Procs : proc'[q].token = t /\ Awaits(proc'[q])
    BY DEF GateIsAttended
  <2>1. CASE t = proc[p].token
    BY <1>1, <1>2, <1>4, <1>7, <2>1 DEF Awaits
  <2>2. CASE t # proc[p].token
    BY <1>2, <1>3, <1>4, <2>2 DEF GateInv, GateIsAttended
  <2> QED BY <2>1, <2>2
<1> QED BY <1>6, <1>8, <1>9 DEF GateInv

\* The child that is acknowledged has said READY.
LEMMA SpawnAckKeepsGate ==
  ASSUME ControlInv, GateInv, NEW p \in Procs, SpawnAck(p)
  PROVE  GateInv'
<1> DEFINE r == [proc[p] EXCEPT !.pc = "probe"]
<1>1. r.pc = "probe" /\ r.token = proc[p].token
  BY DEF ControlInv, TypeOK, Proc
<1>2. proc'[p] = r /\ \A q \in Procs \ {p} : proc'[q] = proc[q]
  BY BecomeLocals DEF ControlInv, SpawnAck, GoTo
<1>3. proc[p].pc \in Launching /\ proc[p].token \in Tokens
      /\ child[proc[p].token].phase = "ready"
  BY DEF SpawnAck, At, Launching, ControlInv, CallShape, Shaped
<1>4. /\ child'[proc[p].token].phase = "ready" /\ child'[proc[p].token].parent = "acked"
      /\ child'[proc[p].token].ready = child[proc[p].token].ready
      /\ \A u \in Tokens \ {proc[p].token} : child'[u] = child[u]
  BY <1>3 DEF SpawnAck, ControlInv, TypeOK, Child
<1>5. \A q \in Procs \ {p} : proc[q].pc \in Launching => proc[q].token \in Tokens \ {proc[p].token}
  BY <1>3 DEF ControlInv, CallShape, Shaped, GateInv, LaunchesAreOwn
<1>6. LaunchesAreOwn'
  <2>1. r.pc \in Launching
    BY <1>1 DEF Launching
  <2> HIDE DEF r
  <2> QED BY <1>1, <1>2, <1>4, <1>5, <2>1, LauncherMoves
<1>7. AckedWasReady'
  BY <1>4 DEF GateInv, AckedWasReady
<1>8. GateIsAttended'
  BY <1>2, <1>3, <1>4 DEF GateInv, GateIsAttended, InGate, Awaits
<1> QED BY <1>6, <1>7, <1>8 DEF GateInv

\* What a child does on its own keeps the gates attended.
LEMMA ChildKeepsGate ==
  ASSUME ControlInv, GateInv, NEW t \in Tokens, UNCHANGED proc,
         child[t].phase \in InGate \cup Live,
         child'[t].phase \in {"ready", "running", "orphaned", "aborted", "dead"},
         child'[t].phase = "ready" => child'[t].ready /\ child[t].phase \in InGate,
         child'[t].parent = child[t].parent,
         \A u \in Tokens \ {t} : child'[u] = child[u]
  PROVE  GateInv'
<1>1. child[t].phase \notin {"unused", "intended"} /\ child'[t].phase # "unused"
  BY DEF InGate, Live
<1>2. \A q \in Procs : proc[q].pc \in Launching => proc[q].token \in Tokens
  BY DEF ControlInv, CallShape, Shaped
<1>3. LaunchesAreOwn'
  BY <1>1, <1>2 DEF GateInv, LaunchesAreOwn, Unused
<1>4. AckedWasReady'
  BY DEF GateInv, AckedWasReady
<1>5. GateIsAttended'
  BY DEF GateInv, GateIsAttended, InGate
<1> QED BY <1>3, <1>4, <1>5 DEF GateInv

\* Every step keeps the gates attended.
LEMMA GateInvStep ==
  ASSUME ControlInv, GateInv, Next
  PROVE  GateInv'
<1>1. ASSUME NEW p \in Procs, ReconcileBegin(p) PROVE GateInv'
  <2> DEFINE r == [Idle EXCEPT !.call = "reconcile", !.pc = "observe", !.state = stateFile]
  <2>1. r.pc = "observe"
    BY DEF Idle
  <2> QED BY <1>1, <2>1, MoveKeepsGate, SameGates DEF ReconcileBegin, MayCall, At, Awaits, Launching
<1>2. ASSUME NEW p \in Procs, ObserveTombstone(p) PROVE GateInv'
  <2> DEFINE r == [proc[p] EXCEPT !.state = [proc[p].state EXCEPT !.actual = "running", !.verify = TRUE],
                           !.pc = IF Wanted(proc[p].state) THEN "save" ELSE "stop_read"]
  <2>1. r.pc \in {"save", "stop_read", "lstat"}
    BY DEF ControlInv, TypeOK, Proc
  <2>2. Become(p, r)
    BY <1>2 DEF ObserveTombstone, Decide
  <2> HIDE DEF r
  <2> QED BY <1>2, <2>1, <2>2, MoveKeepsGate, SameGates DEF ObserveTombstone, At, Awaits, Launching
<1>3. ASSUME NEW p \in Procs, ObserveStopped(p) PROVE GateInv'
  <2> DEFINE r == [proc[p] EXCEPT !.state = [proc[p].state EXCEPT !.actual = "stopped"],
                           !.pc = IF Wanted(proc[p].state) THEN "lstat" ELSE "save"]
  <2>1. r.pc \in {"save", "stop_read", "lstat"}
    BY DEF ControlInv, TypeOK, Proc
  <2>2. Become(p, r)
    BY <1>3 DEF ObserveStopped, Decide
  <2> HIDE DEF r
  <2> QED BY <1>3, <2>1, <2>2, MoveKeepsGate, SameGates DEF ObserveStopped, At, Awaits, Launching
<1>4. ASSUME NEW p \in Procs, Save(p) PROVE GateInv'
  BY <1>4, ReturnKeepsGate, SameGates DEF Save, At, Awaits, Clearing
<1>5. ASSUME NEW p \in Procs, SpawnBegin(p) PROVE GateInv'
  <2> DEFINE r == [Idle EXCEPT !.call = "spawn", !.pc = "lstat"]
  <2>1. r.pc = "lstat"
    BY DEF Idle
  <2> QED BY <1>5, <2>1, MoveKeepsGate, SameGates DEF SpawnBegin, MayCall, At, Awaits, Launching
<1>6. ASSUME NEW p \in Procs, SpawnFenced(p) PROVE GateInv'
  BY <1>6, ReportKeepsGate, SameGates DEF SpawnFenced, At, Awaits, Tombstoned
<1>7. ASSUME NEW p \in Procs, SpawnUnfenced(p) PROVE GateInv'
  <2> DEFINE r == [proc[p] EXCEPT !.pc = "create"]
  <2>1. r.pc = "create" /\ r.token = proc[p].token
    BY DEF ControlInv, TypeOK, Proc
  <2> QED BY <1>7, <2>1, MoveKeepsGate, SameGates DEF SpawnUnfenced, At, GoTo, Awaits, Launching
<1>8. ASSUME NEW p \in Procs, NEW t \in Tokens, SpawnCreate(p, t) PROVE GateInv'
  BY <1>8, SpawnCreateKeepsGate
<1>9. ASSUME NEW p \in Procs, SpawnLosesRace(p) PROVE GateInv'
  BY <1>9, ReturnKeepsGate, SameGates DEF SpawnLosesRace, At, Awaits, Clearing
<1>10. ASSUME NEW p \in Procs, SpawnIntent(p) PROVE GateInv'
  <2> DEFINE r == [proc[p] EXCEPT !.pc = "popen"]
  <2>1. r.pc = "popen" /\ r.token = proc[p].token
    BY DEF ControlInv, TypeOK, Proc
  <2> QED BY <1>10, <2>1, MoveKeepsGate, SameGates DEF SpawnIntent, At, GoTo, Awaits, Launching
<1>11. ASSUME NEW p \in Procs, SpawnPopen(p) PROVE GateInv'
  BY <1>11, SpawnPopenKeepsGate
<1>12. ASSUME NEW p \in Procs, SpawnReady(p) PROVE GateInv'
  <2> DEFINE r == [proc[p] EXCEPT !.pc = "persist"]
  <2>1. r.pc = "persist" /\ r.token = proc[p].token
    BY DEF ControlInv, TypeOK, Proc
  <2> QED BY <1>12, <2>1, MoveKeepsGate, SameGates DEF SpawnReady, At, GoTo, Awaits, Launching
<1>13. ASSUME NEW p \in Procs, SpawnEof(p) PROVE GateInv'
  <2>1. proc[p].token \in Tokens
    BY <1>13 DEF SpawnEof, At, ControlInv, CallShape, Shaped, Launching
  <2>2. GatesKeep /\ child'[proc[p].token].parent # "open"
    BY <1>13, <2>1, CloseGates DEF SpawnEof
  <2> QED BY <1>13, <2>2, ReportKeepsGate DEF SpawnEof, Spawned
<1>14. ASSUME NEW p \in Procs, SpawnPersist(p) PROVE GateInv'
  <2> DEFINE r == [proc[p] EXCEPT !.pc = "ack"]
  <2>1. r.pc = "ack" /\ r.token = proc[p].token
    BY DEF ControlInv, TypeOK, Proc
  <2> QED BY <1>14, <2>1, MoveKeepsGate, SameGates DEF SpawnPersist, At, GoTo, Awaits, Launching
<1>15. ASSUME NEW p \in Procs, SpawnAck(p) PROVE GateInv'
  BY <1>15, SpawnAckKeepsGate
<1>16. ASSUME NEW p \in Procs, SpawnRaise(p) PROVE GateInv'
  <2>1. proc[p].token \in Tokens
    BY <1>16 DEF SpawnRaise, At, ControlInv, CallShape, Shaped, Launching
  <2>2. GatesKeep /\ child'[proc[p].token].parent # "open"
    BY <1>16, <2>1, CloseGates DEF SpawnRaise
  <2> QED BY <1>16, <2>2, ReturnKeepsGate DEF SpawnRaise
<1>17. ASSUME NEW p \in Procs, ProbeAlive(p) PROVE GateInv'
  BY <1>17, ReportKeepsGate, SameGates DEF ProbeAlive, At, Awaits, Spawned
<1>18. ASSUME NEW p \in Procs, ProbeExited(p) PROVE GateInv'
  BY <1>18, ReportKeepsGate, SameGates DEF ProbeExited, At, Awaits, Spawned
<1>19. ASSUME NEW p \in Procs, StopBegin(p) PROVE GateInv'
  <2> DEFINE r == [Idle EXCEPT !.call = "stop", !.pc = "stop_read"]
  <2>1. r.pc = "stop_read"
    BY DEF Idle
  <2> QED BY <1>19, <2>1, MoveKeepsGate, SameGates DEF StopBegin, MayCall, At, Awaits, Launching
<1>20. ASSUME NEW p \in Procs, StopUnreadable(p) PROVE GateInv'
  BY <1>20, ReportKeepsGate, SameGates DEF StopUnreadable, At, Awaits
<1>21. ASSUME NEW p \in Procs, StopSignals(p) PROVE GateInv'
  <2> DEFINE r == [proc[p] EXCEPT !.data = pidFile, !.pc = "stop_write"]
  <2>1. r.pc = "stop_write"
    BY DEF ControlInv, TypeOK, Proc
  <2>2. GatesKeep
    BY <1>21 DEF StopSignals, GatesKeep, ControlInv, TypeOK, Child
  <2> QED BY <1>21, <2>1, <2>2, MoveKeepsGate DEF StopSignals, At, Awaits, Launching
<1>22. ASSUME NEW p \in Procs, StopRetires(p) PROVE GateInv'
  <2> DEFINE r == [proc[p] EXCEPT !.data = pidFile, !.pc = "stop_write"]
  <2>1. r.pc = "stop_write"
    BY DEF ControlInv, TypeOK, Proc
  <2> QED BY <1>22, <2>1, MoveKeepsGate, SameGates DEF StopRetires, At, Awaits, Launching
<1>23. ASSUME NEW p \in Procs, StopWrite(p) PROVE GateInv'
  BY <1>23, ReportKeepsGate, SameGates DEF StopWrite, At, Awaits
<1>24. ASSUME NEW p \in Procs, NEW t \in Tokens, ClearBegin(p, t) PROVE GateInv'
  <2> DEFINE r == [Idle EXCEPT !.call = "clear", !.token = t, !.pc = "audit"]
  <2>1. r.pc = "audit"
    BY DEF Idle
  <2> QED BY <1>24, <2>1, MoveKeepsGate, SameGates DEF ClearBegin, MayCall, At, Awaits, Launching
<1>25. ASSUME NEW p \in Procs, ClearAudit(p) PROVE GateInv'
  <2> DEFINE r == [proc[p] EXCEPT !.pc = "unlink"]
  <2>1. r.pc = "unlink" /\ r.token = proc[p].token
    BY DEF ControlInv, TypeOK, Proc
  <2> QED BY <1>25, <2>1, MoveKeepsGate, SameGates DEF ClearAudit, At, GoTo, Awaits, Launching
<1>26. ASSUME NEW p \in Procs, ClearUnlink(p) PROVE GateInv'
  BY <1>26, ReturnKeepsGate, SameGates DEF ClearUnlink, At, Awaits, Clearing
<1>27. ASSUME NEW p \in Procs, NEW d \in Requests, SetDesiredBegin(p, d) PROVE GateInv'
  <2> DEFINE r == [Idle EXCEPT !.call = "set_desired", !.pc = "save",
                             !.state = [stateFile EXCEPT !.desired = d]]
  <2>1. r.pc = "save"
    BY DEF Idle
  <2> QED BY <1>27, <2>1, MoveKeepsGate, SameGates DEF SetDesiredBegin, MayCall, At, Awaits, Launching
<1>28. ASSUME NEW p \in Procs, NEW t \in Tokens, HeartbeatBegin(p, t) PROVE GateInv'
  <2> DEFINE r == [Idle EXCEPT !.call = "heartbeat", !.pc = "save",
                             !.state = [stateFile EXCEPT !.beat = t]]
  <2>1. r.pc = "save"
    BY DEF Idle
  <2> QED BY <1>28, <2>1, MoveKeepsGate, SameGates DEF HeartbeatBegin, MayCall, At, Awaits, Launching
<1>29. ASSUME NEW p \in Procs, Crash(p) PROVE GateInv'
  <2>1. CASE proc[p].token = NoToken
    <3>1. ~Awaits(proc[p])
      BY <2>1, NamesAssumption DEF Awaits, ControlInv, CallShape, Shaped, Launching
    <3> QED BY <1>29, <2>1, <3>1, SameGates, ReturnKeepsGate DEF Crash
  <2>2. CASE proc[p].token # NoToken
    <3>1. proc[p].token \in Tokens
      BY <2>2 DEF ControlInv, TypeOK, Proc
    <3>2. GatesKeep /\ child'[proc[p].token].parent # "open"
      BY <1>29, <2>2, <3>1, CloseGates DEF Crash
    <3> QED BY <1>29, <3>2, ReturnKeepsGate DEF Crash
  <2> QED BY <2>1, <2>2
<1>30. ASSUME NEW p \in Procs, IoError(p) PROVE GateInv'
  BY <1>30, ReturnKeepsGate, SameGates DEF IoError, At, Awaits, Clearing
<1>31. ASSUME NEW t \in Tokens, ChildReady(t) PROVE GateInv'
  <2>1. /\ child[t].phase \in InGate \cup Live /\ child'[t].phase = "ready"
        /\ child'[t].parent = child[t].parent /\ \A u \in Tokens \ {t} : child'[u] = child[u]
    BY <1>31 DEF ChildReady, InGate, Live, ControlInv, TypeOK, Child
  <2> QED BY <1>31, <2>1, ChildKeepsGate DEF ChildReady, ControlInv, TypeOK, Child, InGate, Live
<1>32. ASSUME NEW t \in Tokens, ChildExec(t) PROVE GateInv'
  <2>1. /\ child[t].phase \in InGate \cup Live /\ child'[t].phase = "running"
        /\ child'[t].parent = child[t].parent /\ \A u \in Tokens \ {t} : child'[u] = child[u]
    BY <1>32 DEF ChildExec, InGate, Live, ControlInv, TypeOK, Child
  <2> QED BY <1>32, <2>1, ChildKeepsGate DEF ChildExec, ControlInv, TypeOK, Child, InGate, Live
<1>33. ASSUME NEW t \in Tokens, ChildEof(t) PROVE GateInv'
  <2>1. /\ child[t].phase \in InGate \cup Live /\ child'[t].phase = "aborted"
        /\ child'[t].parent = child[t].parent /\ \A u \in Tokens \ {t} : child'[u] = child[u]
    BY <1>33 DEF ChildEof, InGate, Live, ControlInv, TypeOK, Child
  <2> QED BY <1>33, <2>1, ChildKeepsGate DEF ChildEof, ControlInv, TypeOK, Child, InGate, Live
<1>34. ASSUME NEW t \in Tokens, ChildAborts(t) PROVE GateInv'
  <2>1. /\ child[t].phase \in InGate \cup Live /\ child'[t].phase = "aborted"
        /\ child'[t].parent = child[t].parent /\ \A u \in Tokens \ {t} : child'[u] = child[u]
    BY <1>34 DEF ChildAborts, InGate, Live, ControlInv, TypeOK, Child
  <2> QED BY <1>34, <2>1, ChildKeepsGate DEF ChildAborts, ControlInv, TypeOK, Child, InGate, Live
<1>35. ASSUME NEW t \in Tokens, LeaderExits(t) PROVE GateInv'
  <2>1. /\ child[t].phase \in InGate \cup Live /\ child'[t].phase = "orphaned"
        /\ child'[t].parent = child[t].parent /\ \A u \in Tokens \ {t} : child'[u] = child[u]
    BY <1>35 DEF LeaderExits, InGate, Live, ControlInv, TypeOK, Child
  <2> QED BY <1>35, <2>1, ChildKeepsGate DEF LeaderExits, ControlInv, TypeOK, Child, InGate, Live
<1>36. ASSUME NEW t \in Tokens, WorkloadEnds(t) PROVE GateInv'
  <2>1. /\ child[t].phase \in InGate \cup Live /\ child'[t].phase = "dead"
        /\ child'[t].parent = child[t].parent /\ \A u \in Tokens \ {t} : child'[u] = child[u]
    BY <1>36 DEF WorkloadEnds, InGate, Live, ControlInv, TypeOK, Child
  <2> QED BY <1>36, <2>1, ChildKeepsGate DEF WorkloadEnds, ControlInv, TypeOK, Child, InGate, Live
<1> QED BY <1>1, <1>2, <1>3, <1>4, <1>5, <1>6, <1>7, <1>8, <1>9, <1>10, <1>11, <1>12, <1>13, <1>14, <1>15, <1>16, <1>17, <1>18, <1>19, <1>20, <1>21, <1>22, <1>23, <1>24, <1>25, <1>26, <1>27, <1>28, <1>29, <1>30, <1>31, <1>32, <1>33, <1>34, <1>35, <1>36 DEF Next, Continue, Begin, GateStep

\* A child is never left in the gate with an open socket that nobody will answer,
\* whatever is called beside its launch and whatever crashes.
THEOREM GatesAttended == Spec => []GateIsAttended
<1>1. Init => GateInv
  <2> SUFFICES ASSUME Init PROVE GateInv
    OBVIOUS
  <2>1. \A p \in Procs : proc[p].pc = "idle"
    BY DEF Init, Idle
  <2>2. \A t \in Tokens : child[t].phase = "unused" /\ child[t].parent = "open"
    BY DEF Init, NoChild
  <2> QED BY <2>1, <2>2 DEF GateInv, LaunchesAreOwn, AckedWasReady, GateIsAttended, InGate, Launching
<1>2. ControlInv /\ GateInv /\ [Next]_vars => GateInv'
  <2> SUFFICES ASSUME ControlInv, GateInv, [Next]_vars PROVE GateInv'
    OBVIOUS
  <2>1. CASE UNCHANGED vars
    BY <2>1 DEF vars, GateInv, LaunchesAreOwn, AckedWasReady, GateIsAttended, Unused
  <2> QED BY <2>1, GateInvStep
<1>3. GateInv => GateIsAttended
  BY DEF GateInv
<1> QED BY <1>1, <1>2, <1>3, ControlInvariance, PTL DEF Spec

(***************************************************************************)
(* Handles.                                                                *)
(***************************************************************************)
\* Two calls that launch or stop are the same call.
LEMMA OneStarter ==
  ASSUME StartersTakeTurns, IInv, NEW p \in Procs, NEW q \in Procs,
         proc[p].call \in Starters, proc[q].call \in Starters
  PROVE  p = q
<1>1. proc[p].call \in Calls[p] /\ proc[q].call \in Calls[q]
  BY DEF IInv, CallShape, Shaped, Starters
<1>2. CASE proc[p].call = "reconcile" /\ proc[q].call = "reconcile"
  BY <1>2 DEF IInv, LockHeld
<1>3. CASE proc[p].call # "reconcile" \/ proc[q].call # "reconcile"
  BY <1>1, <1>3 DEF StartersTakeTurns, TakeTurns
<1> QED BY <1>2, <1>3

\* A process moves, pid.json keeps its launch and pid, and no handle is new.
LEMMA MoveKeepsHandles ==
  ASSUME IInv, HandleInv, NEW p \in Procs, NEW r, Become(p, r),
         pidFile'.token = pidFile.token, pidFile'.pid = pidFile.pid,
         \A t \in Tokens : child'[t].phase = child[t].phase,
         \A q \in Procs : handles'[q] \subseteq handles[q],
         HasChild(r) => HasChild(proc[p]) /\ r.token = proc[p].token,
         r.pc \in {"ack", "probe"} => proc[p].pc \in {"ack", "probe"},
         r.pc = "stop_write" => r.data.pid = pidFile.pid
  PROVE  HandleInv'
<1>1. proc'[p] = r /\ \A q \in Procs \ {p} : proc'[q] = proc[q]
  BY BecomeLocals DEF IInv
<1>2. HandleCanStop'
  BY DEF HandleInv, HandleCanStop
<1>3. StopKeepsPid'
  BY <1>1 DEF HandleInv, StopKeepsPid
<1>4. \A q \in Procs : HasChild(proc'[q]) => HasChild(proc[q]) /\ proc'[q].token = proc[q].token
  BY <1>1
<1>5. \A q \in Procs : HasChild(proc[q]) => proc[q].token \in Tokens
  BY DEF HasChild, IInv, CallShape, Shaped, Launching
<1>6. HandlesArePopened'
  <2>1. \A q \in Procs : HasChild(proc'[q]) => Popened(proc[q].token)'
    BY <1>4, <1>5 DEF HandleInv, HandlesArePopened, Popened, HasChild
  <2>2. \A q \in Procs, t \in Tokens : t \in handles'[q] => Popened(t)'
    BY DEF HandleInv, HandlesArePopened, Popened
  <2> QED BY <2>1, <2>2 DEF HandlesArePopened, HasChild, Popened
<1>7. PersistedPid'
  BY <1>1 DEF HandleInv, PersistedPid
<1> QED BY <1>2, <1>3, <1>6, <1>7 DEF HandleInv

LEMMA ReturnKeepsHandles ==
  ASSUME IInv, HandleInv, NEW p \in Procs, Return(p),
         pidFile'.token = pidFile.token, pidFile'.pid = pidFile.pid,
         \A t \in Tokens : child'[t].phase = child[t].phase,
         \A q \in Procs : handles'[q] \subseteq handles[q]
  PROVE  HandleInv'
BY MoveKeepsHandles DEF Return, Idle, HasChild

LEMMA ReportKeepsHandles ==
  ASSUME IInv, HandleInv, NEW p \in Procs, NEW state, Report(p, state),
         pidFile'.token = pidFile.token, pidFile'.pid = pidFile.pid,
         \A t \in Tokens : child'[t].phase = child[t].phase,
         \A q \in Procs : handles'[q] \subseteq handles[q]
  PROVE  HandleInv'
<1> DEFINE r == [proc[p] EXCEPT !.state = state, !.pc = "save"]
<1>1. r.pc = "save"
  BY DEF IInv, TypeOK, Proc
<1> QED BY <1>1, MoveKeepsHandles, ReturnKeepsHandles DEF Report, Decide, HasChild

\* O_EXCL creates pid.json when no leader lives.
LEMMA SpawnCreateKeepsHandles ==
  ASSUME IInv, HandleInv, NEW p \in Procs, NEW t \in Tokens, SpawnCreate(p, t)
  PROVE  HandleInv'
<1> DEFINE r == [proc[p] EXCEPT !.token = t, !.pc = "intent"]
<1>1. r.pc = "intent"
  BY DEF IInv, TypeOK, Proc
<1>2. proc'[p] = r /\ \A q \in Procs \ {p} : proc'[q] = proc[q]
  BY BecomeLocals DEF IInv, SpawnCreate
<1>3. ~Present /\ ~ReadableFile
  BY DEF SpawnCreate, Present, ReadableFile, Readable
<1>4. child'[t].phase = "intended" /\ \A u \in Tokens \ {t} : child'[u] = child[u]
  BY DEF SpawnCreate, IInv, TypeOK, Child
<1>5. \A q \in Procs : proc[q].pc \notin {"stop_write", "ack", "probe"}
  BY <1>3 DEF IInv, Fenced, StopDataStands, LauncherOwnsFence, Launching
<1>6. StopKeepsPid' /\ PersistedPid'
  BY <1>1, <1>2, <1>5 DEF StopKeepsPid, PersistedPid
<1>7. HandleCanStop'
  BY <1>3, <1>4 DEF HandleCanStop, Leading, InGate, Live, IInv, Fenced, ActiveIsFenced, SpawnCreate
<1>8. child[t].phase = "unused"
  BY DEF SpawnCreate, Unused
<1>9. \A q \in Procs : HasChild(proc[q]) => proc[q].token \in Tokens \ {t}
  BY <1>8 DEF HandleInv, HandlesArePopened, Popened, HasChild, IInv, CallShape, Shaped, Launching
<1>10. \A q \in Procs : HasChild(proc'[q]) => Popened(proc[q].token)'
  <2> SUFFICES ASSUME NEW q \in Procs, HasChild(proc'[q]) PROVE Popened(proc[q].token)'
    OBVIOUS
  <2>1. q # p
    BY <1>1, <1>2 DEF HasChild
  <2>2. proc'[q] = proc[q] /\ child'[proc[q].token] = child[proc[q].token]
    BY <1>2, <1>4, <1>9, <2>1
  <2> QED BY <2>2 DEF HandleInv, HandlesArePopened, Popened
<1>11. \A q \in Procs, u \in Tokens : u \in handles'[q] => Popened(u)'
  BY <1>4, <1>8 DEF HandleInv, HandlesArePopened, Popened, SpawnCreate
<1> QED BY <1>6, <1>7, <1>10, <1>11 DEF HandleInv, HandlesArePopened, HasChild, Popened

\* A child that Popen starts has no handle yet.
LEMMA SpawnPopenKeepsHandles ==
  ASSUME IInv, HandleInv, NEW p \in Procs, SpawnPopen(p)
  PROVE  HandleInv'
<1> DEFINE r == [proc[p] EXCEPT !.pc = "ready"]
<1>1. r.pc = "ready" /\ r.token = proc[p].token
  BY DEF IInv, TypeOK, Proc
<1>2. proc'[p] = r /\ \A q \in Procs \ {p} : proc'[q] = proc[q]
  BY BecomeLocals DEF IInv, SpawnPopen, GoTo
<1>3. proc[p].token \in Tokens /\ child[proc[p].token].phase = "intended"
  BY DEF SpawnPopen, At, IInv, CallShape, Shaped, Fenced, LauncherOwnsFence, Launching
<1>4. child'[proc[p].token].phase = "starting"
      /\ \A u \in Tokens \ {proc[p].token} : child'[u] = child[u]
  BY <1>3 DEF SpawnPopen, IInv, TypeOK, Child
<1>5. \A q \in Procs : proc[p].token \notin handles[q]
  BY <1>3 DEF HandleInv, HandlesArePopened, Popened
<1>6. HandleCanStop'
  BY <1>4, <1>5 DEF HandleInv, HandleCanStop, SpawnPopen, IInv, TypeOK
<1>7. StopKeepsPid' /\ PersistedPid'
  BY <1>1, <1>2 DEF HandleInv, StopKeepsPid, PersistedPid, SpawnPopen
<1>8. \A q \in Procs : HasChild(proc[q]) => proc[q].token \in Tokens
  BY DEF HasChild, IInv, CallShape, Shaped, Launching
<1>9. \A q \in Procs : HasChild(proc'[q]) => Popened(proc[q].token)'
  <2> SUFFICES ASSUME NEW q \in Procs, HasChild(proc'[q]) PROVE Popened(proc[q].token)'
    OBVIOUS
  <2>1. CASE q = p
    BY <1>1, <1>2, <1>4, <2>1 DEF Popened
  <2>2. CASE q # p
    <3>1. proc'[q] = proc[q] /\ Popened(proc[q].token) /\ proc[q].token \in Tokens
      BY <1>2, <1>8, <2>2 DEF HandleInv, HandlesArePopened
    <3> QED BY <1>4, <3>1 DEF Popened
  <2> QED BY <2>1, <2>2
<1>10. \A q \in Procs, u \in Tokens : u \in handles'[q] => Popened(u)'
  BY <1>4 DEF HandleInv, HandlesArePopened, Popened, SpawnPopen
<1> QED BY <1>6, <1>7, <1>9, <1>10 DEF HandleInv, HandlesArePopened, HasChild, Popened

\* Persist writes the pid before the handle is owned, and no stop is about to
\* write over it.
LEMMA SpawnPersistKeepsHandles ==
  ASSUME StartersTakeTurns, IInv, HandleInv, NEW p \in Procs, SpawnPersist(p)
  PROVE  HandleInv'
<1> DEFINE r == [proc[p] EXCEPT !.pc = "ack"]
<1>1. r.pc = "ack" /\ r.token = proc[p].token
  BY DEF IInv, TypeOK, Proc
<1>2. proc'[p] = r /\ \A q \in Procs \ {p} : proc'[q] = proc[q]
  BY BecomeLocals DEF IInv, SpawnPersist, GoTo
<1>3. proc[p].pc = "persist" /\ proc[p].token \in Tokens /\ pidFile.token = proc[p].token
  BY DEF SpawnPersist, At, IInv, CallShape, Shaped, Fenced, LauncherOwnsFence, Launching
<1>4. pidFile'.token = proc[p].token /\ pidFile'.pid
  BY DEF SpawnPersist
<1>5. \A q \in Procs : handles'[q] \subseteq handles[q] \cup {proc[p].token}
  BY DEF SpawnPersist, IInv, TypeOK
<1>6. HandleCanStop'
  BY <1>3, <1>4 DEF HandleCanStop, Leading, Live, IInv, Fenced, ActiveIsFenced, SpawnPersist
<1>7. \A q \in Procs : proc[q].pc = "stop_write" => q = p
  BY <1>3, OneStarter DEF IInv, CallShape, Shaped, Starters, Launching
<1>8. StopKeepsPid' /\ PersistedPid'
  BY <1>1, <1>2, <1>3, <1>4, <1>7 DEF StopKeepsPid, PersistedPid
<1>9. \A q \in Procs : HasChild(proc'[q]) => Popened(proc[q].token)'
  BY <1>1, <1>2, <1>3 DEF HandleInv, HandlesArePopened, Popened, HasChild, SpawnPersist
<1>10. \A q \in Procs, u \in Tokens : u \in handles'[q] => Popened(u)'
  <2>1. Popened(proc[p].token) /\ child' = child
    BY <1>3 DEF HandleInv, HandlesArePopened, HasChild, SpawnPersist
  <2> QED BY <1>5, <2>1 DEF HandleInv, HandlesArePopened, Popened
<1> QED BY <1>6, <1>8, <1>9, <1>10 DEF HandleInv, HandlesArePopened, HasChild, Popened

\* A clearance unlinks pid.json when no leader lives and no call holds its contents.
LEMMA ClearUnlinkKeepsHandles ==
  ASSUME IInv, IInv', HandleInv, NEW p \in Procs, ClearUnlink(p)
  PROVE  HandleInv'
<1>1. proc'[p] = Idle /\ \A q \in Procs \ {p} : proc'[q] = proc[q]
  BY BecomeLocals DEF IInv, ClearUnlink, Return
<1>2. ~ReadableFile'
  BY DEF ClearUnlink, ReadableFile, Readable, NoFile
<1>3. HandleCanStop'
  BY <1>2 DEF HandleCanStop, Leading, Live, IInv, Fenced, ActiveIsFenced
<1>4. StopKeepsPid' /\ PersistedPid'
  BY <1>2 DEF StopKeepsPid, PersistedPid, IInv, Fenced, StopDataStands, LauncherOwnsFence, Launching
<1>5. \A q \in Procs : handles'[q] \subseteq handles[q]
  BY DEF ClearUnlink, IInv, TypeOK
<1>6. \A q \in Procs : HasChild(proc'[q]) => Popened(proc[q].token)'
  BY <1>1 DEF Idle, HandleInv, HandlesArePopened, Popened, HasChild, ClearUnlink
<1>7. \A q \in Procs, u \in Tokens : u \in handles'[q] => Popened(u)'
  BY <1>5 DEF HandleInv, HandlesArePopened, Popened, ClearUnlink
<1> QED BY <1>3, <1>4, <1>6, <1>7 DEF HandleInv, HandlesArePopened, HasChild, Popened

\* A child that is not yet a leader becomes none on its own.
LEMMA ChildKeepsHandles ==
  ASSUME IInv, HandleInv, NEW t \in Tokens, UNCHANGED <<pidFile, proc, handles>>,
         child[t].phase \in InGate \cup Live,
         child'[t].phase \in {"ready", "running", "orphaned", "aborted", "dead"},
         child'[t].phase \in Leading => child[t].phase \in Leading,
         \A u \in Tokens \ {t} : child'[u] = child[u]
  PROVE  HandleInv'
<1>1. HandleCanStop'
  BY DEF HandleInv, HandleCanStop
<1>2. StopKeepsPid' /\ PersistedPid'
  BY DEF HandleInv, StopKeepsPid, PersistedPid
<1>3. \A q \in Procs : HasChild(proc[q]) => proc[q].token \in Tokens
  BY DEF HasChild, IInv, CallShape, Shaped, Launching
<1>4. \A q \in Procs : HasChild(proc'[q]) => Popened(proc[q].token)'
  BY <1>3 DEF HandleInv, HandlesArePopened, Popened, HasChild
<1>5. \A q \in Procs, u \in Tokens : u \in handles'[q] => Popened(u)'
  BY DEF HandleInv, HandlesArePopened, Popened
<1> QED BY <1>1, <1>2, <1>4, <1>5 DEF HandleInv, HandlesArePopened, HasChild, Popened

\* Every step keeps the handles of living leaders usable.
LEMMA HandleStep ==
  ASSUME StartersTakeTurns, IInv, IInv', HandleInv, Next
  PROVE  HandleInv'
<1>1. ASSUME NEW p \in Procs, ReconcileBegin(p) PROVE HandleInv'
  <2> DEFINE r == [Idle EXCEPT !.call = "reconcile", !.pc = "observe", !.state = stateFile]
  <2>1. r.pc = "observe"
    BY DEF Idle
  <2> QED BY <1>1, <2>1, MoveKeepsHandles DEF ReconcileBegin, HasChild
<1>2. ASSUME NEW p \in Procs, ObserveTombstone(p) PROVE HandleInv'
  <2> DEFINE r == [proc[p] EXCEPT !.state = [proc[p].state EXCEPT !.actual = "running", !.verify = TRUE],
                           !.pc = IF Wanted(proc[p].state) THEN "save" ELSE "stop_read"]
  <2>1. r.pc \in {"save", "stop_read", "lstat"}
    BY DEF IInv, TypeOK, Proc
  <2>2. Become(p, r)
    BY <1>2 DEF ObserveTombstone, Decide
  <2> HIDE DEF r
  <2> QED BY <1>2, <2>1, <2>2, MoveKeepsHandles DEF ObserveTombstone, HasChild
<1>3. ASSUME NEW p \in Procs, ObserveStopped(p) PROVE HandleInv'
  <2> DEFINE r == [proc[p] EXCEPT !.state = [proc[p].state EXCEPT !.actual = "stopped"],
                           !.pc = IF Wanted(proc[p].state) THEN "lstat" ELSE "save"]
  <2>1. r.pc \in {"save", "stop_read", "lstat"}
    BY DEF IInv, TypeOK, Proc
  <2>2. Become(p, r)
    BY <1>3 DEF ObserveStopped, Decide
  <2> HIDE DEF r
  <2> QED BY <1>3, <2>1, <2>2, MoveKeepsHandles DEF ObserveStopped, HasChild
<1>4. ASSUME NEW p \in Procs, Save(p) PROVE HandleInv'
  BY <1>4, ReturnKeepsHandles DEF Save
<1>5. ASSUME NEW p \in Procs, SpawnBegin(p) PROVE HandleInv'
  <2> DEFINE r == [Idle EXCEPT !.call = "spawn", !.pc = "lstat"]
  <2>1. r.pc = "lstat"
    BY DEF Idle
  <2> QED BY <1>5, <2>1, MoveKeepsHandles DEF SpawnBegin, HasChild
<1>6. ASSUME NEW p \in Procs, SpawnFenced(p) PROVE HandleInv'
  BY <1>6, ReportKeepsHandles DEF SpawnFenced, Tombstoned
<1>7. ASSUME NEW p \in Procs, SpawnUnfenced(p) PROVE HandleInv'
  <2> DEFINE r == [proc[p] EXCEPT !.pc = "create"]
  <2>1. r.pc = "create" /\ r.token = proc[p].token
    BY DEF IInv, TypeOK, Proc
  <2> QED BY <1>7, <2>1, MoveKeepsHandles DEF SpawnUnfenced, At, GoTo, HasChild
<1>8. ASSUME NEW p \in Procs, NEW t \in Tokens, SpawnCreate(p, t) PROVE HandleInv'
  BY <1>8, SpawnCreateKeepsHandles
<1>9. ASSUME NEW p \in Procs, SpawnLosesRace(p) PROVE HandleInv'
  BY <1>9, ReturnKeepsHandles DEF SpawnLosesRace
<1>10. ASSUME NEW p \in Procs, SpawnIntent(p) PROVE HandleInv'
  <2> DEFINE r == [proc[p] EXCEPT !.pc = "popen"]
  <2>1. r.pc = "popen" /\ r.token = proc[p].token
    BY DEF IInv, TypeOK, Proc
  <2>2. pidFile'.token = pidFile.token /\ pidFile'.pid = pidFile.pid
    BY <1>10 DEF SpawnIntent, IInv, TypeOK, PidFile, NoFile
  <2> QED BY <1>10, <2>1, <2>2, MoveKeepsHandles DEF SpawnIntent, At, GoTo, HasChild
<1>11. ASSUME NEW p \in Procs, SpawnPopen(p) PROVE HandleInv'
  BY <1>11, SpawnPopenKeepsHandles
<1>12. ASSUME NEW p \in Procs, SpawnReady(p) PROVE HandleInv'
  <2> DEFINE r == [proc[p] EXCEPT !.pc = "persist"]
  <2>1. r.pc = "persist" /\ r.token = proc[p].token
    BY DEF IInv, TypeOK, Proc
  <2> QED BY <1>12, <2>1, MoveKeepsHandles DEF SpawnReady, At, GoTo, HasChild
<1>13. ASSUME NEW p \in Procs, SpawnEof(p) PROVE HandleInv'
  <2>1. \A t \in Tokens : child'[t].phase = child[t].phase
    BY <1>13, CloseQuiet DEF SpawnEof, IInv
  <2>2. \A q \in Procs : handles'[q] \subseteq handles[q]
    BY <1>13 DEF SpawnEof, IInv, TypeOK
  <2> QED BY <1>13, <2>1, <2>2, ReportKeepsHandles DEF SpawnEof, Spawned
<1>14. ASSUME NEW p \in Procs, SpawnPersist(p) PROVE HandleInv'
  BY <1>14, SpawnPersistKeepsHandles
<1>15. ASSUME NEW p \in Procs, SpawnAck(p) PROVE HandleInv'
  <2> DEFINE r == [proc[p] EXCEPT !.pc = "probe"]
  <2>1. r.pc = "probe" /\ r.token = proc[p].token
    BY DEF IInv, TypeOK, Proc
  <2>2. \A t \in Tokens : child'[t].phase = child[t].phase
    BY <1>15 DEF SpawnAck, IInv, TypeOK, Child
  <2> QED BY <1>15, <2>1, <2>2, MoveKeepsHandles DEF SpawnAck, At, GoTo, HasChild
<1>16. ASSUME NEW p \in Procs, SpawnRaise(p) PROVE HandleInv'
  <2>1. \A t \in Tokens : child'[t].phase = child[t].phase
    BY <1>16, CloseQuiet DEF SpawnRaise, IInv
  <2>2. \A q \in Procs : handles'[q] \subseteq handles[q]
    BY <1>16 DEF SpawnRaise, IInv, TypeOK
  <2> QED BY <1>16, <2>1, <2>2, ReturnKeepsHandles DEF SpawnRaise
<1>17. ASSUME NEW p \in Procs, ProbeAlive(p) PROVE HandleInv'
  BY <1>17, ReportKeepsHandles DEF ProbeAlive, Spawned
<1>18. ASSUME NEW p \in Procs, ProbeExited(p) PROVE HandleInv'
  <2>1. \A q \in Procs : handles'[q] \subseteq handles[q]
    BY <1>18 DEF ProbeExited, IInv, TypeOK
  <2> QED BY <1>18, <2>1, ReportKeepsHandles DEF ProbeExited, Spawned
<1>19. ASSUME NEW p \in Procs, StopBegin(p) PROVE HandleInv'
  <2> DEFINE r == [Idle EXCEPT !.call = "stop", !.pc = "stop_read"]
  <2>1. r.pc = "stop_read"
    BY DEF Idle
  <2> QED BY <1>19, <2>1, MoveKeepsHandles DEF StopBegin, HasChild
<1>20. ASSUME NEW p \in Procs, StopUnreadable(p) PROVE HandleInv'
  BY <1>20, ReportKeepsHandles DEF StopUnreadable
<1>21. ASSUME NEW p \in Procs, StopSignals(p) PROVE HandleInv'
  <2> DEFINE r == [proc[p] EXCEPT !.data = pidFile, !.pc = "stop_write"]
  <2>1. r.pc = "stop_write" /\ r.data = pidFile
    BY DEF IInv, TypeOK, Proc
  <2>2. \A t \in Tokens : child'[t].phase = child[t].phase
    BY <1>21 DEF StopSignals, IInv, TypeOK, Child
  <2> QED BY <1>21, <2>1, <2>2, MoveKeepsHandles DEF StopSignals, HasChild
<1>22. ASSUME NEW p \in Procs, StopRetires(p) PROVE HandleInv'
  <2> DEFINE r == [proc[p] EXCEPT !.data = pidFile, !.pc = "stop_write"]
  <2>1. r.pc = "stop_write" /\ r.data = pidFile
    BY DEF IInv, TypeOK, Proc
  <2>2. \A q \in Procs : handles'[q] \subseteq handles[q]
    BY <1>22 DEF StopRetires, IInv, TypeOK
  <2> QED BY <1>22, <2>1, <2>2, MoveKeepsHandles DEF StopRetires, HasChild
<1>23. ASSUME NEW p \in Procs, StopWrite(p) PROVE HandleInv'
  <2>1. pidFile'.token = pidFile.token /\ pidFile'.pid = pidFile.pid
    BY <1>23 DEF StopWrite, At, IInv, CallShape, Shaped, Fenced, StopDataStands, HandleInv, StopKeepsPid, PidFile
  <2> QED BY <1>23, <2>1, ReportKeepsHandles DEF StopWrite
<1>24. ASSUME NEW p \in Procs, NEW t \in Tokens, ClearBegin(p, t) PROVE HandleInv'
  <2> DEFINE r == [Idle EXCEPT !.call = "clear", !.token = t, !.pc = "audit"]
  <2>1. r.pc = "audit"
    BY DEF Idle
  <2> QED BY <1>24, <2>1, MoveKeepsHandles DEF ClearBegin, HasChild
<1>25. ASSUME NEW p \in Procs, ClearAudit(p) PROVE HandleInv'
  <2> DEFINE r == [proc[p] EXCEPT !.pc = "unlink"]
  <2>1. r.pc = "unlink" /\ r.token = proc[p].token
    BY DEF IInv, TypeOK, Proc
  <2> QED BY <1>25, <2>1, MoveKeepsHandles DEF ClearAudit, At, GoTo, HasChild
<1>26. ASSUME NEW p \in Procs, ClearUnlink(p) PROVE HandleInv'
  BY <1>26, ClearUnlinkKeepsHandles
<1>27. ASSUME NEW p \in Procs, NEW d \in Requests, SetDesiredBegin(p, d) PROVE HandleInv'
  <2> DEFINE r == [Idle EXCEPT !.call = "set_desired", !.pc = "save",
                             !.state = [stateFile EXCEPT !.desired = d]]
  <2>1. r.pc = "save"
    BY DEF Idle
  <2> QED BY <1>27, <2>1, MoveKeepsHandles DEF SetDesiredBegin, HasChild
<1>28. ASSUME NEW p \in Procs, NEW t \in Tokens, HeartbeatBegin(p, t) PROVE HandleInv'
  <2> DEFINE r == [Idle EXCEPT !.call = "heartbeat", !.pc = "save",
                             !.state = [stateFile EXCEPT !.beat = t]]
  <2>1. r.pc = "save"
    BY DEF Idle
  <2> QED BY <1>28, <2>1, MoveKeepsHandles DEF HeartbeatBegin, HasChild
<1>29. ASSUME NEW p \in Procs, Crash(p) PROVE HandleInv'
  <2>1. \A t \in Tokens : child'[t].phase = child[t].phase
    BY <1>29, CloseQuiet DEF Crash, IInv
  <2>2. \A q \in Procs : handles'[q] \subseteq handles[q]
    BY <1>29 DEF Crash, IInv, TypeOK
  <2> QED BY <1>29, <2>1, <2>2, ReturnKeepsHandles DEF Crash
<1>30. ASSUME NEW p \in Procs, IoError(p) PROVE HandleInv'
  BY <1>30, ReturnKeepsHandles DEF IoError
<1>31. ASSUME NEW t \in Tokens, ChildReady(t) PROVE HandleInv'
  <2>1. /\ child[t].phase \in InGate \cup Live /\ child'[t].phase = "ready"
        /\ \A u \in Tokens \ {t} : child'[u] = child[u]
    BY <1>31 DEF ChildReady, InGate, Live, IInv, TypeOK, Child
  <2> QED BY <1>31, <2>1, ChildKeepsHandles DEF ChildReady, InGate, Live, Leading
<1>32. ASSUME NEW t \in Tokens, ChildExec(t) PROVE HandleInv'
  <2>1. /\ child[t].phase \in InGate \cup Live /\ child'[t].phase = "running"
        /\ \A u \in Tokens \ {t} : child'[u] = child[u]
    BY <1>32 DEF ChildExec, InGate, Live, IInv, TypeOK, Child
  <2> QED BY <1>32, <2>1, ChildKeepsHandles DEF ChildExec, InGate, Live, Leading
<1>33. ASSUME NEW t \in Tokens, ChildEof(t) PROVE HandleInv'
  <2>1. /\ child[t].phase \in InGate \cup Live /\ child'[t].phase = "aborted"
        /\ \A u \in Tokens \ {t} : child'[u] = child[u]
    BY <1>33 DEF ChildEof, InGate, Live, IInv, TypeOK, Child
  <2> QED BY <1>33, <2>1, ChildKeepsHandles DEF ChildEof, InGate, Live, Leading
<1>34. ASSUME NEW t \in Tokens, ChildAborts(t) PROVE HandleInv'
  <2>1. /\ child[t].phase \in InGate \cup Live /\ child'[t].phase = "aborted"
        /\ \A u \in Tokens \ {t} : child'[u] = child[u]
    BY <1>34 DEF ChildAborts, InGate, Live, IInv, TypeOK, Child
  <2> QED BY <1>34, <2>1, ChildKeepsHandles DEF ChildAborts, InGate, Live, Leading
<1>35. ASSUME NEW t \in Tokens, LeaderExits(t) PROVE HandleInv'
  <2>1. /\ child[t].phase \in InGate \cup Live /\ child'[t].phase = "orphaned"
        /\ \A u \in Tokens \ {t} : child'[u] = child[u]
    BY <1>35 DEF LeaderExits, InGate, Live, IInv, TypeOK, Child
  <2> QED BY <1>35, <2>1, ChildKeepsHandles DEF LeaderExits, InGate, Live, Leading
<1>36. ASSUME NEW t \in Tokens, WorkloadEnds(t) PROVE HandleInv'
  <2>1. /\ child[t].phase \in InGate \cup Live /\ child'[t].phase = "dead"
        /\ \A u \in Tokens \ {t} : child'[u] = child[u]
    BY <1>36 DEF WorkloadEnds, InGate, Live, IInv, TypeOK, Child
  <2> QED BY <1>36, <2>1, ChildKeepsHandles DEF WorkloadEnds, InGate, Live, Leading
<1> QED BY <1>1, <1>2, <1>3, <1>4, <1>5, <1>6, <1>7, <1>8, <1>9, <1>10, <1>11, <1>12, <1>13, <1>14, <1>15, <1>16, <1>17, <1>18, <1>19, <1>20, <1>21, <1>22, <1>23, <1>24, <1>25, <1>26, <1>27, <1>28, <1>29, <1>30, <1>31, <1>32, <1>33, <1>34, <1>35, <1>36 DEF Next, Continue, Begin, GateStep

\* While starters take turns, the owner of a living leader's handle finds that leader
\* with its pid in pid.json: stop asks it to terminate and never gives the handle up.
THEOREM HandlesStayUsable ==
  ASSUME NoStrayStop, StartersTakeTurns PROVE Spec => []HandleCanStop
<1>1. Init => HandleInv
  <2> SUFFICES ASSUME Init PROVE HandleInv
    OBVIOUS
  <2>1. \A p \in Procs : proc[p].pc = "idle" /\ handles[p] = {}
    BY DEF Init, Idle
  <2> QED BY <2>1 DEF HandleInv, HandleCanStop, StopKeepsPid, HandlesArePopened, PersistedPid, HasChild
<1>2. IInv /\ IInv' /\ HandleInv /\ [Next]_vars => HandleInv'
  <2> SUFFICES ASSUME IInv, IInv', HandleInv, [Next]_vars PROVE HandleInv'
    OBVIOUS
  <2>1. CASE UNCHANGED vars
    BY <2>1 DEF vars, HandleInv, HandleCanStop, StopKeepsPid, HandlesArePopened, PersistedPid, Popened
  <2> QED BY <2>1, HandleStep
<1>3. HandleInv => HandleCanStop
  BY DEF HandleInv
<1> QED BY <1>1, <1>2, <1>3, Invariance, PTL DEF Spec

\* The write of a stop never takes pid.json away from a running launch.
THEOREM StopKeepsProvenance == ASSUME NoStrayStop PROVE Spec => StopRetainsProvenance
<1> DEFINE A == \A p \in Procs, t \in Tokens :
                  (StopWrite(p) /\ child[t].phase \in Live /\ pidFile.token = t) => pidFile'.token = t
<1>1. IInv /\ [Next]_vars => [A]_vars
  <2> SUFFICES ASSUME IInv, NEW p \in Procs, NEW t \in Tokens, StopWrite(p), pidFile.token = t
               PROVE  pidFile'.token = t
    OBVIOUS
  <2>1. proc[p].data \in PidFile /\ proc[p].data.token = t
    BY DEF StopWrite, At, IInv, CallShape, Shaped, Fenced, StopDataStands
  <2> QED BY <2>1 DEF StopWrite, PidFile
<1> QED BY <1>1, Invariance, PTL DEF Spec, StopRetainsProvenance
=============================================================================
