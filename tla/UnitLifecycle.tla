---------------------------- MODULE UnitLifecycle ----------------------------
(***************************************************************************)
(* The fail-closed launch protocol of one fleet unit: the directory that   *)
(* holds pid.json, state.json and .process.lock, the processes that call   *)
(* the kit on it, and the exec-gate children those calls launch.           *)
(*                                                                         *)
(* A process makes one call at a time: reconcile_unit, a direct spawn or   *)
(* stop, clear_process_tombstone, set_desired or merge_heartbeat.  A call  *)
(* is cut where the code touches the file system or its child, so calls of *)
(* different processes interleave there; only reconcile_unit and           *)
(* clear_process_tombstone take the unit lock.                             *)
(*                                                                         *)
(* Simplifications.                                                        *)
(*  - A launch is named by the random token spawn mints.  pid.json keeps   *)
(*    that name while its body is still unwritten ("torn"): the program    *)
(*    cannot read it then, and no action below does.                       *)
(*  - Numeric PIDs are reduced to "recorded or not"; degraded_reason,      *)
(*    stop_requested, timestamps and log paths are left out.               *)
(*  - Power loss is not modelled here: a write that was made is durable.   *)
(*  - MaxFaults bounds crashes and I/O errors; the number of Tokens bounds *)
(*    launches, and a clearance is only asked for while a token remains.   *)
(***************************************************************************)
EXTENDS Integers, FiniteSets

CONSTANTS
  Procs,       \* processes that use the kit on this unit directory
  NoProc,      \* the unit lock is free
  Tokens,      \* the launch tokens uuid4 can still mint
  NoToken,     \* no launch
  Calls,       \* Calls[p]: the kinds of call process p makes
  Requests,    \* the desired states that are asked for
  MaxFaults    \* bound on crashes and I/O errors

CallKinds == {"reconcile", "spawn", "stop", "clear", "set_desired", "heartbeat"}
Desires == {"enabled", "disabled", "paused"}

ASSUME NamesAssumption == NoProc \notin Procs /\ NoToken \notin Tokens
ASSUME CallsAssumption == Calls \in [Procs -> SUBSET CallKinds]
ASSUME BoundsAssumption == Requests \subseteq Desires /\ MaxFaults \in Nat

VARIABLES
  pidFile,     \* pid.json: the launch fence and its provenance
  stateFile,   \* state.json
  unitLock,    \* holder of the flock on .process.lock
  audit,       \* tokens recorded in process-clearance.audit.jsonl
  child,       \* the exec-gate child of every launch, and what became of it
  handles,     \* handles[p]: tokens whose Popen handle p owns
  proc,        \* the call each process is in
  faults       \* crashes and I/O errors so far

vars == <<pidFile, stateFile, unitLock, audit, child, handles, proc, faults>>

(***************************************************************************)
(* Values.                                                                 *)
(***************************************************************************)
NoFile == [status |-> "absent", token |-> NoToken, generation |-> 0, pid |-> FALSE]
Readable == {"launch_intent", "running_or_unknown", "stop_requested_or_unknown"}
PidFile == [status : Readable \cup {"torn"}, token : Tokens, generation : Nat, pid : BOOLEAN]

DefaultState == [desired |-> "disabled", actual |-> "unknown", generation |-> 0,
                 token |-> NoToken, verify |-> FALSE, beat |-> NoToken]
StateFile == [desired : Desires, actual : {"unknown", "stopped", "running"},
              generation : Nat, token : Tokens \cup {NoToken},
              verify : BOOLEAN, beat : Tokens \cup {NoToken}]

(* A child waits in the gate ("starting", "ready") until its parent's end  *)
(* of the socket is "acked" or "closed".  "running" is the workload after  *)
(* exec, "orphaned" a workload whose leader has exited, "aborted" a child  *)
(* that ended in the gate.                                                 *)
InGate == {"starting", "ready"}
Live == {"running", "orphaned"}
Ended == {"aborted", "dead"}
NoChild == [phase |-> "unused", generation |-> 0, ready |-> FALSE,
            parent |-> "open", term |-> FALSE]
Child == [phase : {"unused", "intended"} \cup InGate \cup Live \cup Ended,
          generation : Nat, ready : BOOLEAN,
          parent : {"open", "acked", "closed"}, term : BOOLEAN]

Idle == [call |-> "none", pc |-> "idle", token |-> NoToken,
         state |-> DefaultState, data |-> NoFile]
Launching == {"intent", "popen", "ready", "persist", "ack", "probe"}
Clearing == {"audit", "unlink"}
Pcs == {"idle", "observe", "lstat", "create", "stop_read", "stop_write", "save"}
         \cup Launching \cup Clearing
Proc == [call : CallKinds \cup {"none"}, pc : Pcs, token : Tokens \cup {NoToken},
         state : StateFile, data : PidFile \cup {NoFile}]

Present == pidFile.status # "absent"
ReadableFile == pidFile.status \in Readable
Unused(t) == child[t].phase = "unused"

\* Variant: only "enabled" wants a process.
WantedIfEnabled(state) == state.desired = "enabled"

(* honor_desired_state: paused is a warm keep-alive and wants a process.   *)
Wanted(state) == state.desired \in {"enabled", "paused"}

(* The generation a spawn is asked to launch: reconcile_unit adds one to   *)
(* the generation it loaded, a direct spawn passes None.                   *)
Generation(p) == IF proc[p].call = "reconcile" THEN proc[p].state.generation + 1 ELSE 0

(* What the operator must have proved before asserting it: nothing of the  *)
(* launch is alive and nobody is still carrying it out.                    *)
WorkloadGone(t) == /\ child[t].phase \in {"intended"} \cup Ended
                   /\ \A p \in Procs : proc[p].token = t => proc[p].pc \notin Launching

(***************************************************************************)
(* How a call goes on and how it ends.                                     *)
(***************************************************************************)
At(p, pc) == proc[p].pc = pc
MayCall(p, kind) == At(p, "idle") /\ kind \in Calls[p]
Become(p, locals) == proc' = [proc EXCEPT ![p] = locals]
GoTo(p, pc) == Become(p, [proc[p] EXCEPT !.pc = pc])
Decide(p, state, pc) == Become(p, [proc[p] EXCEPT !.state = state, !.pc = pc])
Unlock(p) == unitLock' = IF unitLock = p THEN NoProc ELSE unitLock
Return(p) == Become(p, Idle) /\ Unlock(p)

(* A result handed back to reconcile_unit is put in the state it saves;    *)
(* a direct caller just gets it.                                           *)
Report(p, state) ==
  \/ /\ proc[p].call = "reconcile"
     /\ Decide(p, state, "save")
     /\ UNCHANGED unitLock
  \/ proc[p].call # "reconcile" /\ Return(p)

(* ProcessTombstoneError out of spawn: caught by reconcile_unit, which     *)
(* keeps the loaded generation.                                            *)
Tombstoned(p) == Report(p, [proc[p].state EXCEPT !.actual = "unknown", !.verify = TRUE])

(* The SpawnResult of a launch; t is NoToken when the child never became   *)
(* READY.                                                                  *)
Spawned(p, t, alive) ==
  Report(p, [proc[p].state EXCEPT !.generation = Generation(p), !.token = t,
                                  !.actual = IF alive THEN "running" ELSE "unknown",
                                  !.verify = ~alive])

CloseParentEnd(t) == [child EXCEPT ![t].parent = IF @ = "open" THEN "closed" ELSE @]

Init ==
  /\ pidFile = NoFile
  /\ stateFile \in {[DefaultState EXCEPT !.desired = d] : d \in Desires}
  /\ unitLock = NoProc
  /\ audit = {}
  /\ child = [t \in Tokens |-> NoChild]
  /\ handles = [p \in Procs |-> {}]
  /\ proc = [p \in Procs |-> Idle]
  /\ faults = 0

(***************************************************************************)
(* reconcile_unit: lock, load, observe, then keep, stop or spawn, and save.*)
(***************************************************************************)
\* Variant: without waiting for the unit lock.
ReconcileBeginUnlocked(p) ==
  /\ MayCall(p, "reconcile")
  /\ unitLock' = p
  /\ Become(p, [Idle EXCEPT !.call = "reconcile", !.pc = "observe", !.state = stateFile])
  /\ UNCHANGED <<pidFile, stateFile, audit, child, handles, faults>>

ReconcileBegin(p) ==
  /\ MayCall(p, "reconcile") /\ unitLock = NoProc
  /\ unitLock' = p
  /\ Become(p, [Idle EXCEPT !.call = "reconcile", !.pc = "observe", !.state = stateFile])
  /\ UNCHANGED <<pidFile, stateFile, audit, child, handles, faults>>

\* Variant: a tombstone is adopted, never stopped.
ObserveAdopts(p) ==
  /\ At(p, "observe") /\ Present
  /\ Decide(p, [proc[p].state EXCEPT !.actual = "running", !.verify = TRUE], "save")
  /\ UNCHANGED <<pidFile, stateFile, unitLock, audit, child, handles, faults>>

\* Any pid.json, whatever it says, is a process that may be running.
ObserveTombstone(p) ==
  /\ At(p, "observe") /\ Present
  /\ Decide(p, [proc[p].state EXCEPT !.actual = "running", !.verify = TRUE],
             IF Wanted(proc[p].state) THEN "save" ELSE "stop_read")
  /\ UNCHANGED <<pidFile, stateFile, unitLock, audit, child, handles, faults>>

ObserveStopped(p) ==
  /\ At(p, "observe") /\ ~Present
  /\ Decide(p, [proc[p].state EXCEPT !.actual = "stopped"],
             IF Wanted(proc[p].state) THEN "lstat" ELSE "save")
  /\ UNCHANGED <<pidFile, stateFile, unitLock, audit, child, handles, faults>>

\* _save_state replaces the whole file with the state this call loaded and changed.
Save(p) ==
  /\ At(p, "save")
  /\ stateFile' = proc[p].state
  /\ Return(p)
  /\ UNCHANGED <<pidFile, audit, child, handles, faults>>

(***************************************************************************)
(* spawn: the fence before Popen, provenance before ACK.                   *)
(***************************************************************************)
SpawnBegin(p) ==
  /\ MayCall(p, "spawn")
  /\ Become(p, [Idle EXCEPT !.call = "spawn", !.pc = "lstat"])
  /\ UNCHANGED <<pidFile, stateFile, unitLock, audit, child, handles, faults>>

SpawnFenced(p) ==
  /\ At(p, "lstat") /\ Present
  /\ Tombstoned(p)
  /\ UNCHANGED <<pidFile, stateFile, audit, child, handles, faults>>

SpawnUnfenced(p) ==
  /\ At(p, "lstat") /\ ~Present
  /\ GoTo(p, "create")
  /\ UNCHANGED <<pidFile, stateFile, unitLock, audit, child, handles, faults>>

\* Variant: without O_EXCL.
SpawnCreateShared(p, t) ==
  /\ At(p, "create") /\ Unused(t)
  /\ pidFile' = [status |-> "torn", token |-> t, generation |-> Generation(p), pid |-> FALSE]
  /\ child' = [child EXCEPT ![t].phase = "intended", ![t].generation = Generation(p)]
  /\ Become(p, [proc[p] EXCEPT !.token = t, !.pc = "intent"])
  /\ UNCHANGED <<stateFile, unitLock, audit, handles, faults>>

\* open(O_CREAT | O_EXCL): the file exists from here on, still without a body.
SpawnCreate(p, t) ==
  /\ At(p, "create") /\ ~Present /\ Unused(t)
  /\ pidFile' = [status |-> "torn", token |-> t, generation |-> Generation(p), pid |-> FALSE]
  /\ child' = [child EXCEPT ![t].phase = "intended", ![t].generation = Generation(p)]
  /\ Become(p, [proc[p] EXCEPT !.token = t, !.pc = "intent"])
  /\ UNCHANGED <<stateFile, unitLock, audit, handles, faults>>

\* FileExistsError is not a ProcessTombstoneError: it leaves reconcile_unit unsaved.
SpawnLosesRace(p) ==
  /\ At(p, "create") /\ Present
  /\ Return(p)
  /\ UNCHANGED <<pidFile, stateFile, audit, child, handles, faults>>

\* The body goes through the descriptor, so it is lost if the name now holds
\* another file.
SpawnIntent(p) ==
  /\ At(p, "intent")
  /\ pidFile' = IF pidFile.token = proc[p].token /\ ~ReadableFile
                THEN [pidFile EXCEPT !.status = "launch_intent"] ELSE pidFile
  /\ GoTo(p, "popen")
  /\ UNCHANGED <<stateFile, unitLock, audit, child, handles, faults>>

SpawnPopen(p) ==
  /\ At(p, "popen")
  /\ child' = [child EXCEPT ![proc[p].token].phase = "starting"]
  /\ GoTo(p, "ready")
  /\ UNCHANGED <<pidFile, stateFile, unitLock, audit, handles, faults>>

\* Variant: ACK without persist.
SpawnReadySkipsPersist(p) ==
  /\ At(p, "ready") /\ child[proc[p].token].ready
  /\ GoTo(p, "ack")
  /\ UNCHANGED <<pidFile, stateFile, unitLock, audit, child, handles, faults>>

\* Variant: the handle is owned before persist.
SpawnReadyOwns(p) ==
  /\ At(p, "ready") /\ child[proc[p].token].ready
  /\ handles' = [handles EXCEPT ![p] = @ \cup {proc[p].token}]
  /\ GoTo(p, "persist")
  /\ UNCHANGED <<pidFile, stateFile, unitLock, audit, child, faults>>

SpawnReady(p) ==
  /\ At(p, "ready") /\ child[proc[p].token].ready
  /\ GoTo(p, "persist")
  /\ UNCHANGED <<pidFile, stateFile, unitLock, audit, child, handles, faults>>

\* recv returned something else: the child is gone.  The SpawnResult carries
\* neither token nor generation.
SpawnEof(p) ==
  /\ At(p, "ready") /\ child[proc[p].token].phase = "aborted" /\ ~child[proc[p].token].ready
  /\ child' = CloseParentEnd(proc[p].token)
  /\ Spawned(p, NoToken, FALSE)
  /\ UNCHANGED <<pidFile, stateFile, audit, handles, faults>>

\* persist replaces whatever pid.json is there; then the handle is owned.
SpawnPersist(p) ==
  /\ At(p, "persist")
  /\ pidFile' = [status |-> "running_or_unknown", token |-> proc[p].token,
                 generation |-> Generation(p), pid |-> TRUE]
  /\ handles' = [handles EXCEPT ![p] = @ \cup {proc[p].token}]
  /\ GoTo(p, "ack")
  /\ UNCHANGED <<stateFile, unitLock, audit, child, faults>>

SpawnAck(p) ==
  /\ At(p, "ack") /\ child[proc[p].token].phase = "ready"
  /\ child' = [child EXCEPT ![proc[p].token].parent = "acked"]
  /\ GoTo(p, "probe")
  /\ UNCHANGED <<pidFile, stateFile, unitLock, audit, handles, faults>>

\* The startup timeout, a Popen or write error, a broken pipe at ACK: the
\* socket is closed and the exception leaves the call, state unsaved.  An error
\* of persist after its os.replace comes before the handle is owned.
SpawnRaise(p) ==
  /\ proc[p].pc \in Launching \ {"probe"}
  /\ child' = CloseParentEnd(proc[p].token)
  /\ \E unowned \in SUBSET (IF At(p, "ack") THEN {proc[p].token} ELSE {}) :
       handles' = [handles EXCEPT ![p] = @ \ unowned]
  /\ Return(p)
  /\ UNCHANGED <<pidFile, stateFile, audit, faults>>

\* The probe window passed, or a poll saw the leader exit.
ProbeAlive(p) ==
  /\ At(p, "probe")
  /\ Spawned(p, proc[p].token, TRUE)
  /\ UNCHANGED <<pidFile, stateFile, audit, child, handles, faults>>

ProbeExited(p) ==
  /\ At(p, "probe") /\ child[proc[p].token].phase \in Ended \cup {"orphaned"}
  /\ handles' = [handles EXCEPT ![p] = @ \ {proc[p].token}]
  /\ Spawned(p, proc[p].token, FALSE)
  /\ UNCHANGED <<pidFile, stateFile, audit, child, faults>>

(***************************************************************************)
(* stop: read pid.json, TERM through an owned handle, write it back.       *)
(***************************************************************************)
StopBegin(p) ==
  /\ MayCall(p, "stop")
  /\ Become(p, [Idle EXCEPT !.call = "stop", !.pc = "stop_read"])
  /\ UNCHANGED <<pidFile, stateFile, unitLock, audit, child, handles, faults>>

StopUnreadable(p) ==
  /\ At(p, "stop_read") /\ ~ReadableFile
  /\ Report(p, proc[p].state)
  /\ UNCHANGED <<pidFile, stateFile, audit, child, handles, faults>>

MaySignal(p) ==
  /\ pidFile.token \in handles[p] /\ pidFile.pid
  /\ child[pidFile.token].phase \in InGate \cup {"running"}

StopSignals(p) ==
  /\ At(p, "stop_read") /\ ReadableFile /\ MaySignal(p)
  /\ child' = [child EXCEPT ![pidFile.token].term = TRUE]
  /\ Become(p, [proc[p] EXCEPT !.data = pidFile, !.pc = "stop_write"])
  /\ UNCHANGED <<pidFile, stateFile, unitLock, audit, handles, faults>>

\* No usable handle: a dead or mismatched one is retired.
StopRetires(p) ==
  /\ At(p, "stop_read") /\ ReadableFile /\ ~MaySignal(p)
  /\ handles' = [handles EXCEPT ![p] = @ \ {pidFile.token}]
  /\ Become(p, [proc[p] EXCEPT !.data = pidFile, !.pc = "stop_write"])
  /\ UNCHANGED <<pidFile, stateFile, unitLock, audit, child, faults>>

\* Variant: stop removes pid.json.
StopCleans(p) ==
  /\ At(p, "stop_write")
  /\ pidFile' = NoFile
  /\ Report(p, proc[p].state)
  /\ UNCHANGED <<stateFile, audit, child, handles, faults>>

StopWrite(p) ==
  /\ At(p, "stop_write")
  /\ pidFile' = [proc[p].data EXCEPT !.status = "stop_requested_or_unknown"]
  /\ Report(p, proc[p].state)
  /\ UNCHANGED <<stateFile, audit, child, handles, faults>>

(***************************************************************************)
(* clear_process_tombstone: match, audit, unlink, under the unit lock.     *)
(***************************************************************************)
\* Variant: outside the unit lock.
ClearBeginUnlocked(p, t) ==
  /\ MayCall(p, "clear")
  /\ WorkloadGone(t)
  /\ ReadableFile /\ pidFile.token = t
  /\ \E u \in Tokens : Unused(u)
  /\ Become(p, [Idle EXCEPT !.call = "clear", !.token = t, !.pc = "audit"])
  /\ UNCHANGED <<pidFile, stateFile, unitLock, audit, child, handles, faults>>

\* The operator asserts that t's workload is gone and names it exactly.
ClearBegin(p, t) ==
  /\ MayCall(p, "clear") /\ unitLock = NoProc
  /\ WorkloadGone(t)
  /\ ReadableFile /\ pidFile.token = t
  /\ \E u \in Tokens : Unused(u)
  /\ unitLock' = p
  /\ Become(p, [Idle EXCEPT !.call = "clear", !.token = t, !.pc = "audit"])
  /\ UNCHANGED <<pidFile, stateFile, audit, child, handles, faults>>

\* Variant: nothing is recorded.
ClearUnaudited(p) ==
  /\ At(p, "audit")
  /\ GoTo(p, "unlink")
  /\ UNCHANGED <<pidFile, stateFile, unitLock, audit, child, handles, faults>>

ClearAudit(p) ==
  /\ At(p, "audit")
  /\ audit' = audit \cup {proc[p].token}
  /\ GoTo(p, "unlink")
  /\ UNCHANGED <<pidFile, stateFile, unitLock, child, handles, faults>>

ClearUnlink(p) ==
  /\ At(p, "unlink")
  /\ pidFile' = NoFile
  /\ handles' = [handles EXCEPT ![p] = @ \ {proc[p].token}]
  /\ Return(p)
  /\ UNCHANGED <<stateFile, audit, child, faults>>

(***************************************************************************)
(* The unlocked writers of state.json.                                     *)
(***************************************************************************)
SetDesiredBegin(p, d) ==
  /\ MayCall(p, "set_desired")
  /\ Become(p, [Idle EXCEPT !.call = "set_desired", !.pc = "save",
                          !.state = [stateFile EXCEPT !.desired = d]])
  /\ UNCHANGED <<pidFile, stateFile, unitLock, audit, child, handles, faults>>

\* A heartbeat that reports t's generation; a mismatch returns with nothing changed.
HeartbeatBegin(p, t) ==
  /\ MayCall(p, "heartbeat")
  /\ child[t].phase \in Live \cup {"dead"}
  /\ child[t].generation = stateFile.generation
  /\ Become(p, [Idle EXCEPT !.call = "heartbeat", !.pc = "save",
                          !.state = [stateFile EXCEPT !.beat = t]])
  /\ UNCHANGED <<pidFile, stateFile, unitLock, audit, child, handles, faults>>

(***************************************************************************)
(* Faults: a process dies, or a file operation outside spawn raises.       *)
(***************************************************************************)
\* The kernel drops the flock and the socket; the children stay.
Crash(p) ==
  /\ faults < MaxFaults
  /\ faults' = faults + 1
  /\ child' = IF proc[p].token = NoToken THEN child ELSE CloseParentEnd(proc[p].token)
  /\ handles' = [handles EXCEPT ![p] = {}]
  /\ Return(p)
  /\ UNCHANGED <<pidFile, stateFile, audit>>

\* Variant: an exception leaves the unit locked.
IoErrorKeepsLock(p) ==
  /\ faults < MaxFaults /\ proc[p].pc \in {"create", "stop_write", "save"} \cup Clearing
  /\ faults' = faults + 1
  /\ Become(p, Idle)
  /\ UNCHANGED <<pidFile, stateFile, unitLock, audit, child, handles>>

IoError(p) ==
  /\ faults < MaxFaults /\ proc[p].pc \in {"create", "stop_write", "save"} \cup Clearing
  /\ faults' = faults + 1
  /\ Return(p)
  /\ UNCHANGED <<pidFile, stateFile, audit, child, handles>>

(***************************************************************************)
(* The exec-gate child.                                                    *)
(***************************************************************************)
ChildReady(t) ==
  /\ child[t].phase = "starting" /\ child[t].parent = "open"
  /\ child' = [child EXCEPT ![t].phase = "ready", ![t].ready = TRUE]
  /\ UNCHANGED <<pidFile, stateFile, unitLock, audit, handles, proc, faults>>

\* Variant: the gate does not wait for ACK.
ChildExecEagerly(t) ==
  /\ child[t].phase = "ready"
  /\ child' = [child EXCEPT ![t].phase = "running"]
  /\ UNCHANGED <<pidFile, stateFile, unitLock, audit, handles, proc, faults>>

ChildExec(t) ==
  /\ child[t].phase = "ready" /\ child[t].parent = "acked"
  /\ child' = [child EXCEPT ![t].phase = "running"]
  /\ UNCHANGED <<pidFile, stateFile, unitLock, audit, handles, proc, faults>>

\* Variant: the gate goes on reading at EOF.
ChildEofIgnored(t) ==
  /\ child[t].phase = "starting" /\ child[t].parent = "closed"
  /\ child' = [child EXCEPT ![t].phase = "aborted"]
  /\ UNCHANGED <<pidFile, stateFile, unitLock, audit, handles, proc, faults>>

\* EOF instead of ACK, or READY written to a closed socket.
ChildEof(t) ==
  /\ child[t].phase \in InGate /\ child[t].parent = "closed"
  /\ child' = [child EXCEPT ![t].phase = "aborted"]
  /\ UNCHANGED <<pidFile, stateFile, unitLock, audit, handles, proc, faults>>

ChildAborts(t) ==
  /\ child[t].phase \in InGate
  /\ child' = [child EXCEPT ![t].phase = "aborted"]
  /\ UNCHANGED <<pidFile, stateFile, unitLock, audit, handles, proc, faults>>

LeaderExits(t) ==
  /\ child[t].phase = "running"
  /\ child' = [child EXCEPT ![t].phase = "orphaned"]
  /\ UNCHANGED <<pidFile, stateFile, unitLock, audit, handles, proc, faults>>

WorkloadEnds(t) ==
  /\ child[t].phase \in Live
  /\ child' = [child EXCEPT ![t].phase = "dead"]
  /\ UNCHANGED <<pidFile, stateFile, unitLock, audit, handles, proc, faults>>

(***************************************************************************)
(* The specification.                                                      *)
(***************************************************************************)
\* A call in progress goes on.
Continue(p) ==
  \/ ObserveTombstone(p) \/ ObserveStopped(p) \/ Save(p)
  \/ SpawnFenced(p) \/ SpawnUnfenced(p) \/ (\E t \in Tokens : SpawnCreate(p, t))
  \/ SpawnLosesRace(p) \/ SpawnIntent(p) \/ SpawnPopen(p) \/ SpawnReady(p)
  \/ SpawnEof(p) \/ SpawnPersist(p) \/ SpawnAck(p) \/ SpawnRaise(p)
  \/ ProbeAlive(p) \/ ProbeExited(p)
  \/ StopUnreadable(p) \/ StopSignals(p) \/ StopRetires(p) \/ StopWrite(p)
  \/ ClearAudit(p) \/ ClearUnlink(p)

Begin(p) ==
  \/ ReconcileBegin(p) \/ SpawnBegin(p) \/ StopBegin(p)
  \/ \E t \in Tokens : ClearBegin(p, t) \/ HeartbeatBegin(p, t)
  \/ \E d \in Requests : SetDesiredBegin(p, d)

GateStep(t) == ChildReady(t) \/ ChildExec(t) \/ ChildEof(t)

Next ==
  \/ \E p \in Procs : Continue(p) \/ Begin(p) \/ Crash(p) \/ IoError(p)
  \/ \E t \in Tokens : GateStep(t) \/ ChildAborts(t) \/ LeaderExits(t) \/ WorkloadEnds(t)

Spec == Init /\ [][Next]_vars

\* A call that has begun finishes unless its process dies, the gate answers
\* its socket, and serve goes on calling reconcile_unit.
FairSpec ==
  /\ Spec
  /\ \A p \in Procs : WF_vars(Continue(p)) /\ WF_vars(ReconcileBegin(p))
  /\ \A t \in Tokens : WF_vars(GateStep(t))

(***************************************************************************)
(* Properties.                                                             *)
(***************************************************************************)
\* Types of the state.
TypeOK ==
  /\ pidFile \in PidFile \cup {NoFile}
  /\ stateFile \in StateFile
  /\ unitLock \in Procs \cup {NoProc}
  /\ audit \subseteq Tokens
  /\ child \in [Tokens -> Child]
  /\ handles \in [Procs -> SUBSET Tokens]
  /\ proc \in [Procs -> Proc]
  /\ faults \in 0..MaxFaults

\* The unit never has two kit-launched process groups at once, in the gate or
\* past it, however calls race and whichever process crashed in between.
AtMostOneWorkload ==
  \A t, u \in Tokens :
    child[t].phase \in InGate \cup Live /\ child[u].phase \in InGate \cup Live => t = u

\* While consumer code runs, pid.json is past the launch intent, readable, and
\* names exactly its launch and generation: persist came before ACK, and nothing
\* took the record away again.
ProvenanceBeforeExec ==
  \A t \in Tokens : child[t].phase \in Live =>
    /\ pidFile.status \in Readable \ {"launch_intent"}
    /\ pidFile.token = t /\ pidFile.generation = child[t].generation

\* A launch gives way to another one only through an audited clearance.
AuditedReplacement ==
  \A t \in Tokens : ~Unused(t) => pidFile.token = t \/ t \in audit

\* Calls under the unit lock never take the persisted generation back.
GenerationNeverRegresses == [][stateFile'.generation >= stateFile.generation]_vars

\* The protocol implements LaunchFence.
lifeBar == [t \in Tokens |->
  CASE Unused(t) -> "unused"
    [] ~Unused(t) /\ pidFile.token # t -> "retired"
    [] ~Unused(t) /\ pidFile.token = t /\ child[t].phase \in Live -> "live"
    [] ~Unused(t) /\ pidFile.token = t /\ child[t].phase = "dead" -> "over"
    [] OTHER -> "held"]
Fencing == INSTANCE LaunchFence WITH life <- lifeBar
ImplementsLaunchFence == Fencing!Spec

\* A child never waits in the gate for ever: it is acknowledged or sees its
\* parent's end close, also when the parent died.
GateResolves ==
  \A t \in Tokens : child[t].phase \in InGate ~> child[t].phase \notin InGate

\* A unit that is wanted and has no tombstone gets a launch fence, unless the
\* desired state changes first.
WantedUnitIsFenced ==
  (stateFile.desired \in {"enabled", "paused"} /\ ~Present)
    ~> (Present \/ stateFile.desired = "disabled")

\* The worker of a disabled unit is asked to terminate by the process that
\* owns its handle, unless a fault takes the handle away.
DisabledWorkerIsTermed ==
  \A p \in Procs, t \in Tokens, n \in 0..MaxFaults :
    (stateFile.desired = "disabled" /\ t \in handles[p] /\ child[t].phase = "running"
       /\ faults = n)
      ~> (child[t].term \/ child[t].phase # "running"
            \/ stateFile.desired # "disabled" \/ faults > n)

(***************************************************************************)
(* Statements of the documentation that the code does not keep.            *)
(***************************************************************************)
\* A heartbeat is accepted only when the reporting generation matches: it is
\* never merged into the state of a later launch.
HeartbeatFenced ==
  [][\A p \in Procs : (proc[p].call = "heartbeat" /\ Save(p)) =>
       child[proc[p].state.beat].generation = stateFile.generation]_vars

\* A desired state, once persisted, changes only by another set_desired.
DesiredPersists ==
  [][stateFile'.desired # stateFile.desired =>
       \E p \in Procs : proc[p].call = "set_desired" /\ proc[p].pc = "save"]_vars

\* Provenance is retained by stop regardless of its outcome: its write never
\* takes the pid.json record of a running launch away.
StopRetainsProvenance ==
  [][\A p \in Procs, t \in Tokens :
       (StopWrite(p) /\ child[t].phase \in Live /\ pidFile.token = t) => pidFile'.token = t]_vars
=============================================================================
