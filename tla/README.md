# datasource-kit in TLA+

TLA+ models, TLC runs and TLAPS proofs for `datasource-kit`, a library that
launches and supervises ingest workers and gives them the loops, stores and
planners of an ingest pipeline. Every definition is translated from the code under
`src/src/datasource_kit/`; `PROJECT.json` maps definitions to lines.

## 1. The system

| component | state it keeps | operations | what is hard |
|---|---|---|---|
| process lifecycle (`fleet/process.py`, `_exec_gate.py`, `fleet/lock.py`) | `pid.json`, `.process.lock`, the clearance audit, in-memory `Popen` handles, the gate's socket | `spawn`, `stop`, `clear_process_tombstone`, `liveness` | several processes, crashes between any two file operations, a child that must not run before its provenance is durable |
| legacy clearance (`fleet/process.py`) | intent and completion records, the quarantine | `clear_legacy_process_tombstone`, inspection | a protocol of many file operations that any request must be able to resume after a crash |
| reconciler (`fleet/state.py`) | `state.json`, `supervisor.lock` | `reconcile_unit`, `reconcile_once`, `serve`, `set_desired`, `merge_heartbeat`, lock acquire, steal, release | unlocked load-change-save next to a locked one; stealing a dead owner's lock |
| fleet host (`fleet/host.py`) | the same kind of lock | `run_once`, `serve` | exceptions in the middle of a pass, lock released on every path |
| control plane (`fleet/control.py`, `adapters/fastapi.py`) | none | `observe`, `pause`, `resume`, `enable`, `disable` | reads two files that change between the reads |
| worker host (`worker.py`) | checkpoint file, failure streak | `run`, `request_stop` | a crash or an exception between persisting a unit and saving its checkpoint; what an exhausted planner leaves behind |
| continuous host (`continuous.py`) | counters, run lock | `run`, `request_stop` | errors, rotation, waits, limits and stop requests in one loop |
| fetch planning (`fetch.py`, `window.py`) | none (pure) | sequence and resume planning, day windows | what a checkpoint means after a restart |
| ingest runtime (`runtime.py`, `retry.py`, `ratelimit.py`, `providers.py`) | the records table, a token bucket | `run_ingest`, `retry`, `acquire`, store drivers | failed windows and a full replacement; concurrent runs; a bucket or a retry policy at its limits |
| ledger, journal (`ledger.py`, `journal.py`) | a JSON file, a journal table | load, save, append | threads that share a temporary file |
| registry, manifests, profiles, inventory, reports, results, completeness, protocols, errors, CLI, execution backends | none | parsing, lookup, formatting, delegation | nothing concurrent; not modelled |

Interactions: the reconciler (under the supervisor lock) calls `spawn` and `stop`
on a unit under that unit's lock; the control plane and the workers' heartbeats
write the same `state.json` without a lock; an operator clears tombstones from
another process; the exec gate talks to its launcher through a socket; a worker
runs the worker or continuous host, which calls the planners and the consumer's
stores; `run_ingest` writes a store that other runs use.

What makes each part correct:

- lifecycle: one workload per unit at a time; consumer code runs only while
  `pid.json` names its launch; a replacement only after an audited clearance; the
  gate never hangs;
- legacy clearance: the tombstone goes only with durable evidence, a completion
  record is true, and a clearance that crashed can be completed;
- reconciler: a wanted unit is launched, a disabled one is asked to stop, the
  generation fences heartbeats, no update of the desired state is lost, one
  supervisor at a time;
- fleet host: passes take turns and are reported in full, the lock is free again
  after every exit;
- worker: every unit is delivered at least once and in order, a failure repeats at
  most one plan, a run ends only when it is done or stopped;
- continuous host: no boundary sees too many attempts, a run returns for a reason,
  a stop request lets at most one more step begin;
- ingest: a report accounts for every record its run removed from the store, batches are
  whole, a run ends.

## 2. Modules

| module | models |
|---|---|
| `UnitLifecycle` | one unit directory: `reconcile_unit`, `spawn`, the exec gate, `stop`, `clear_process_tombstone`, `set_desired`, `merge_heartbeat`, called by processes that crash |
| `LaunchFence` | what that protocol promises: launches take turns |
| `UnitLifecycleInv` | the inductive invariant |
| `UnitLifecycle_proofs` | its proof, the theorems, the refinement of `LaunchFence` |
| `UnitStateInv`, `UnitState_proofs` | what holds of `state.json`, of the gates and of the handles, the inductive invariants behind it, their proofs and theorems |
| `MCUnitLifecycle` | who calls what, for TLC |
| `SupervisorLock` | `supervisor.lock`: `acquire_lock`, `lock_is_live`, `release_lock`, with the inductive invariant |
| `FleetHost` | `FleetHost.run_once` and `serve`, on top of `SupervisorLock` |
| `FleetPasses` | what the host promises of its passes |
| `SupervisorLock_proofs`, `FleetHost_proofs` | their theorems, the refinement of `FleetPasses` |
| `MCSupervisorLock`, `MCFleetHost` | hosts and pids, for TLC |
| `LegacyClearance` | `clear_legacy_process_tombstone` beside launches, stops and clearances of launches |
| `WorkerHost` | `WorkerHost.run` over a `FetchIntent`, its planner and a `FileCheckpointStore` |
| `AtLeastOnce` | what the worker promises of its deliveries |
| `ContinuousWorkerHost` | `ContinuousWorkerHost.run` with every callback |
| `IngestRun` | `run_ingest` in processes that share a SQLite store |
| `LegacyClearance_proofs`, `WorkerHost_proofs`, `ContinuousWorkerHost_proofs`, `IngestRun_proofs` | their theorems, the refinement of `AtLeastOnce` |
| `MCLegacyClearance`, `MCWorkerHost`, `MCContinuousWorkerHost`, `MCIngestRun` | requests, setups and policies, for TLC |

`FleetHost` extends `SupervisorLock`. The other components meet only in files whose
other users each module models itself: `LegacyClearance` has the launches and stops of
`UnitLifecycle` as single steps, as far as they touch `pid.json`.

### UnitLifecycle

A process makes one call at a time; `proc[p]` holds the call, the point it has
reached (`pc`) and its locals: the token it minted, the copy of `state.json` it
loaded, the copy of `pid.json` that `stop` read. Calls are cut where the code
touches a file, a lock or the child:

| code | actions |
|---|---|
| `reconcile_unit` | `ReconcileBegin` (flock, `load_state`), `ObserveTombstone` / `ObserveStopped`, then the `spawn` or `stop` actions, `Save` (which releases the flock) |
| `spawn` | `SpawnBegin`, `SpawnFenced` / `SpawnUnfenced` (`lstat`), `SpawnCreate` / `SpawnLosesRace` (`O_CREAT\|O_EXCL`), `SpawnIntent` (the body), then `spawn_process` |
| `spawn_process` | `SpawnPopen`, `SpawnReady` / `SpawnEof`, `SpawnPersist`, `SpawnAck`, `ProbeAlive` / `ProbeExited`; `SpawnRaise` is the `except BaseException` path |
| `_exec_gate.main` | `ChildReady`, `ChildExec`, `ChildEof`, `ChildAborts` |
| `stop` | `StopBegin`, `StopUnreadable`, `StopSignals` / `StopRetires`, `StopWrite` |
| `clear_process_tombstone` | `ClearBegin` (flock, match), `ClearAudit`, `ClearUnlink` |
| `set_desired`, `merge_heartbeat` | `SetDesiredBegin`, `HeartbeatBegin` (load and change), `Save` |

`Crash` kills a process at any point: its flock and socket close, its handles are
lost, its children live on. `IoError` is an exception out of a file operation.
After `ACK` the probe may report a child alive that exits right afterwards, as in the
code. The operator of `ClearBegin` is honest: the workload it asserts to be gone is
gone and nobody is still launching it. The test for this is what the documentation
calls an external proof.

Left out: numeric PIDs (reduced to recorded or not), `degraded_reason`,
`stop_requested`, timestamps, log files, power loss.

Operators marked "Variant" in a module are plausible mistakes, used to see that each
property would notice them.

### SupervisorLock and FleetHost

A member of `Procs` is a pid on a host. `lockFile` holds the owner and whether the
body has been written: between `O_CREAT|O_EXCL` and the write the file reads as
`None`. `at[p]` is the place of `p` in the functions:

| code | actions |
|---|---|
| `acquire_lock` | `AcquireBegin`, `Create` / `CreateExists`, `Refuse` / `Steal` (`lock_is_live` is `LooksLive`), `StealUnlink`, `WriteBody` / `WriteFails` |
| `release_lock` | `Release` / `ReleaseNotOwned`, `ReleaseUnlink` |
| the process | `Die`, `Start` (any process under the same pid) |

`Overlap = FALSE` restricts `AcquireBegin` to moments when nobody else is acquiring.

`FleetHost` adds `pass[p]`, the stage of the loop and the number of units the pass has
reconciled. Each of its actions is an action of the lock joined with a move of the loop
(`HostBegin`, `HostAcquire`, `HostRelease`, `HostFault`), or a callback that returns
with the lock held (`Admit`, `ReconcileUnit`, `PassDone`, `OnPass`, `StopCheck`,
`Sleep`). `Raises` is an exception out of any of them; what callbacks compute is opaque
to the code and left out. `reconcile_once` and `serve` of `DesiredStateReconciler` are
the same loop without admission and report. Left
out: the check of `interval` before anything happens, errors of the unlinks.

### LegacyClearance

Files are inodes and digests are reduced to the record as found and the record as `stop`
rewrites it. `pc` is the point the one call past the unit lock has reached:

| code | actions |
|---|---|
| lookup of the intent, with `_recover_audit_link` | `Begin`, `ReadIntent` |
| lookup of the completion | `ReadCompletion` |
| `pid.json` opened, its links and digest judged | `OpenAbsent`, `OpenPresent` (`MayRetire`) |
| `_atomic_private_json` | `PublishIntent`, `IntentPublished`; `PublishCompletion`, `CompletionPublished` |
| link, last check and unlink, verification | `Link`, `Retire`, `Verify` |
| `spawn`; `stop` and `clear_process_tombstone` under the unit lock | `Spawn`, `StopRewrites`, `ClearLaunch` |

`Crash` is a death or an exception at any point, which frees the lock. A direct `stop`,
which does not take the lock, ownership, modes and renamed directories are left out.

### WorkerHost

Units are numbered in the order the planner walks them, so a checkpoint is a number.
What it means differs: the unit just completed (`SequencePlanner`, and an intent
without `output()`), or the unit to fetch next (`ResumePlanner`); `Covered` is the number of
units a checkpoint acknowledges.

| code | actions |
|---|---|
| `run`: load, loop condition | `Start`, `Leave` |
| `plan` | `PlanNothing`, `PlanWork`, `PlanFails` |
| `fetch`, `transform`, `output` | `Fetch` |
| `persist` | `Persist` |
| `FileCheckpointStore.save` | `SaveTemporary`, `Save` (`os.replace`, and what `run` does next) |
| `except Exception` | `Fails`, with or without the effect of the operation |
| `_wait` | `Wait` |
| outside | `Crash`, `RequestStop`, `Grow` (the source gains a unit) |

Each run has its own host and planner, as a worker process that is started again has.
Left out: delays, heartbeats (whose exceptions are swallowed), malformed checkpoints.

### ContinuousWorkerHost

`pc` walks the loop of `run`: `Top`, `Control`, `RotateAtLimit` / `NoRotation`,
`StepBegins`, `StepReturns` / `StepRaises`, `ErrorMapped`, `Rotate`, `Wait`, `Leave`.
`Apply` is `_apply` up to its rotation. Every callback returns any directive or raises
(`CallbackRaises`); `RunRefused` is the second caller of `run`. `late` is history: the
steps begun since a stop was requested.

### IngestRun

A window has at most one record with an id, which is the window, and may have others without.
`draft` is the table inside an open transaction, `writer` the connection that has it. A run
picks its policies when it begins. `dropped` is history: the records the run's commit removed.

| code | actions |
|---|---|
| `run_ingest`: setup, `throttle.acquire` | `IngestBegin`, `Acquire`, `AcquireRaises` |
| `retry(fetch_once)`, mapper, `_valid_records` | `Fetched`, `FetchRaises`, `NoAttempt`, `Unusable` (the mapper raises), `Invalid` (records without an id) |
| `replace_all`, `upsert` | `Persist` (the first statement), `Commit`, `NothingToWrite`, `PersistBusy` |
| assessor, completeness, `IngestReport` | `Report` |
| an exception outside the loop, a crash | `EndsEarly`, also between `Commit` and `Report` |

The store factory is one that opens a file; the builtin registry's drivers keep their table in
memory, so nothing of it survives the run. Left out: token and backoff timing, the report's
counts. The batch is committed before the assessor runs: an assessor that raises, or a crash
there, loses the report and its warnings (section 5).

## 3. Runs

| run | instance | shows |
|---|---|---|
| `unit_fence` | two processes that reconcile, spawn and clear; 2 tokens; 1 fault | the safety properties, the inductive invariant, the refinement, and how far launches may run ahead of the saved generation |
| `unit_primitives` | `spawn` and `stop` called directly, without the unit lock, by two processes that also reconcile, set the desired state and send heartbeats; 2 tokens; 1 fault | the fence depends neither on the unit lock nor on `state.json` |
| `unit_live` | one supervisor that keeps reconciling, one operator; 2 tokens; 1 fault; no symmetry | the liveness properties, and that the handle of a living worker matches `pid.json` |
| `fleet_serial` | three supervisors with distinct pids on two hosts, started one at a time; 2 units; 3 faults | lock and loop: safety, both inductive invariants, the refinement, and that a dead owner's lock is taken over |
| `legacy_clearance` | three requests, two for the record as found and one for the record after a stop; 4 inodes; 2 crashes | evidence, true completions, no shared tombstone, resumption, repair of half-published audit records |
| `worker_delivery` | 24 setups (planner, stop or idle when exhausted, failure limit, iteration bound); 3 units; 3 faults | delivery in order and at least once, at most one plan repeated, no early end, the refinement; everything is delivered, a stop ends the run |
| `continuous_loop` | 18 setups (rotation, `max_counted`, with and without `on_error`); 5 steps, 3 counted | the limits, the reasons to return, the stop request |
| `ingest_run` | two concurrent runs, each with one of four policies; 2 windows; 2 faults | no report without the losses it has to name, whole batches, termination |
| `lock_overlap` | overlapping acquisitions | section 5 |
| `unit_stale_heartbeat`, `unit_lost_desire`, `unit_stray_stop` | one supervisor and one other process | section 5 |

Operators marked "Variant" in a module are plausible mistakes of the code: put in place of the
definition they vary, each makes the run that lists it in `PROJECT.json` fail.

Bounds. Two processes are enough for every race the code can have on one unit: each
race is between a call and one other call, and a third process adds only a crashed
predecessor, which `Crash` already provides. Two tokens give a launch, a clearance
and a second launch, with the first launch's leftovers still around. A clearance is
only asked for while a token is left, so the unit is never without a token to mint.
Tokens are symmetric in the safety runs.

For the lock, two supervisors of one host and one of another are the cases that
`lock_is_live` tells apart; three faults let an owner die, its successor fail to write
its lock and the next one die as well. Two units tell a partial pass from an empty and
a complete one.

Two requests of one digest compete for a tombstone, and the third one meets the file that `stop`
put in its place; four inodes are the tombstone, its rewriting, a launch and one more. Two
crashes let one retry crash as well. Three units are a first, a middle and a last one, which the planners
treat differently, and three faults reach a failure limit of 2 with a crash to spare. In the
continuous loop the limits are 1 and 2, so five steps pass each of them twice. Two windows
and two runs let a replacement miss one record and keep another while the other run upserts;
one version is enough for what the properties tell apart (absent, stored).

Fairness. Every fair specification assumes only that what has begun goes on:

- `FairSpec`: a call goes on (`WF` of `Continue(p)`), `serve` keeps calling
  `reconcile_unit` (`WF` of `ReconcileBegin(p)`), the gate answers its socket (`WF`
  of `GateStep(t)`). Weak fairness is enough for the flock because the only other users
  of the lock are clearances, and these run out with the tokens.
- `FairFleetSpec`: `acquire_lock`, once begun, goes on.
- `FairWorkerSpec`: the operations of the consumer return or raise (`WF` of `Work`), and
  a worker that ended is started again (`WF` of `Start`), as its supervisor or its cron does.
- `FairLoopSpec`, `FairIngestSpec`: callbacks return or raise, waits end, the loop goes on
  (`WF` of `Proceed`).
- `FairLegacySpec`: a call goes on (`WF` of `Clearance`), and operators repeat their requests, each
  of which gets the lock again and again (`SF` of `Begin(o)`: flock keeps waiters queued,
  while others take the lock in between).

Nothing is assumed of the consumer's commands, of sources or of faults.

## 4. Proofs

All theorems hold for every value of the constants that the modules' named
assumptions admit: any number of processes, tokens, hosts, units, operations, runs and faults.
In each component an inductive invariant is proved first and the properties follow from it.

| module | inductive invariant | theorems about properties |
|---|---|---|
| `UnitLifecycle_proofs` | `IInv` | `TypeCorrect`, `SingleWorkload`, `Provenance`, `Audited`, `Refinement` |
| `UnitState_proofs` | `StateInv` | `LaunchesBarelyAhead`, `GenerationForward` |
| | `DesireInv` | `DesireLostOnlyBySaveOver` |
| | `GateInv` | `GatesAttended` |
| | `IInv`, `HandleInv` | `HandlesStayUsable`, `StopKeepsProvenance` |
| `SupervisorLock_proofs` | `UseInv`, `TheftIsClear` | `OnlyStealsBreakExclusion`, `ExclusionWithoutRaces` |
| | `LockInv` | `HolderKept`, `ForeignKept`, `AcquisitionsEnd` |
| `FleetHost_proofs` | `FleetInv` | `ExitsFree`, `FleetRefinement` |
| `LegacyClearance_proofs` | `LegacyInv` | `RetirementHasEvidence`, `CompletionTrue`, `NoSharedTombstone`, `RepeatGetsOn` |
| `WorkerHost_proofs` | `WorkerInv` | `CheckpointBehind`, `OnePlanReplayed`, `EndsDone`, `WorkerRefinement`, `StopComesNear` |
| `ContinuousWorkerHost_proofs` | `LoopInv` | `RotationInTime`, `ReturnsRightly`, `StopInTime`, `StopComesNear` |
| `IngestRun_proofs` | `IngestInv`, `ProgressInv` | `LossIsReported`, `BatchesAreWhole`, `WindowsSettle`, `RunsAreBounded` |

**Launches.** The theorems assume `NoStrayStop`: no direct `stop` shares the unit with
clearances. Without it they are false (`unit_stray_stop`). `AtMostOneWorkload` is not
inductive: nothing in it says why a second launch cannot pass the fence. `IInv` adds that
(1) the flock is held exactly by the calls that take it, (2) a launch in progress is the
one `pid.json` names, and there is only one, (3) every child that can still act is the one
a readable `pid.json` names, (4) an acknowledged child has its record past the launch
intent, (5) a clearance in progress still holds the record it matched and its workload
stays gone, (6) what a stop is about to write back still names the launch `pid.json`
names, and (7) locals have the shape their point in the call requires. Most steps leave
launches alone (`QuietStep`); the others are `CreateStep`, `LaunchStep`, `ChildStep`,
`WriteBackStep`, `ClearanceStep` and `UnlinkStep`.

**state.json.** `set_desired` and `merge_heartbeat` load, change and save the file without
the unit lock, so they and a reconciler undo each other's saves: that is what
`unit_stale_heartbeat` and `unit_lost_desire` show. For the desired state
`DesireLostOnlyBySaveOver` says how much is lost. It admits control planes, reconcilers and
heartbeats in any number and assumes nothing of their turns: a desired state is overwritten only
if some `set_desired` saved while another call was between its load and its save
(`NoDesireSavedOver` forbids that step, and no other). Its invariant is that the desire every
other call carries is the one in the file (`DesireStands`).

The generation needs more. `WritersTakeTurns` says that a process that calls `set_desired` or
`merge_heartbeat` is the only writer of its unit; several reconcilers may share the unit, since
the unit lock orders them. Under this assumption `StateInv` is inductive: what a writer has
loaded is still what the file holds (`LoadedStateStands`). A crash between a launch and its save
leaves the generation unsaved; `LaunchAtMostOneAhead` says that this does not add up. Two
launches may then share a generation (section 5), which is why no theorem says that a heartbeat
reaches only its own launch.

**Gates.** `GatesAttended` assumes nothing: a child in the gate was acknowledged, reads EOF, or
has a launcher alive that has still to answer it. A gate therefore never waits for somebody who
is gone. `LaunchesAreOwn` adds that no two processes carry out one launch.

**Handles.** `stop` signals a worker only if its handle matches the token and the pid in
`pid.json`, and otherwise drops the handle. `HandleCanStop` says that they match while the
worker lives. It needs `NoStrayStop` and that the calls which start or stop workers come from
one process (`StartersTakeTurns`); section 5 says what happens otherwise. `StopKeepsPid` and
`PersistedPid` are what it takes besides `IInv`.

**Lock and fleet.** The code does not keep acquisitions apart, and exclusion is lost when they
overlap (`lock_overlap`). Two theorems say how. `OnlyStealsBreakExclusion` has no assumption on
turns, pids or hosts: exclusion holds in every behaviour in which no steal unlinks a lock whose
owner is about to write it, works or releases it (`StealsUsedLock`). Its invariant `UseInv`
says that whoever uses the lock is named by the file. `ExclusionWithoutRaces` says when such a
steal can happen: with distinct pids (`PidsDiffer`), and acquisitions that overlap, only after
somebody created the lock between a thief's judgement and its unlink (`CreatesAfterJudgement`),
or after a thief judged a lock whose body was still to be written (`JudgesFreshLock`). TLC
agrees with both on the instance of `lock_overlap` once the forbidden steps are taken out of the
next-state relation.

The remaining theorems, and those of the fleet, assume `Orderly`: acquisitions do not overlap
and no two supervisors have the same pid number; both halves are needed (section 5). `LockInv`
adds to exclusion that while somebody is about to unlink nobody works and the lock is not
another host's, that a file matches the place of its owner, and that one supervisor acquires.
The steps of `FleetHost` are steps of the lock or leave it alone (`FleetUsesLock`), so `LockInv`
is reused as it stands.

**Legacy clearance.** That a retirement has its evidence follows from what the call knows
(`CallInv`): once it may link, the intent is published, the file it opened is still `pid.json`,
has the named bytes and no link but its own. `RepeatGetsOn` uses the same facts in the other
direction: what a crashed call leaves behind is accepted by the one that repeats it. `EvidenceKept` adds that a quarantine keeps the
bytes of its operation, which is why a completion stays true.

**Worker.** `CheckpointBehindPersisted` needs that what is persisted has no gaps
(`NoGaps`), that the plan at hand is the one after the host's own checkpoint
(`PlanFollows`), and that the file is at most one plan ahead of that checkpoint
(`FileAhead`): `save` may take effect and then raise. `LastIsKnown` says what an exhausted step has
seen of the source, which `EndsOnlyWhenDone` rests on.

**Continuous loop.** `RoomLeft` says that a step is entered only with attempts and counted
steps to spare, `StopIsFinal` that nothing past the loop's test began after the stop request.

**Ingest.** `Accounted` says that every window a run has passed was read or is in its
warnings, `DraftIsOutcome` that an open transaction is what its run makes of the committed
table, which holds because one connection has the write lock. `LossesExcused` says that what a
run's commit removed can be accounted for until its report is returned; `LossIsReported` is
about runs that return one. `ProgressInv` adds that a window is read or warned about only once
the run passes it, and both only when some of its records have no id.

**Progress.** Liveness under fairness is out of the prover's reach, but what it rests on is not:
a measure that every step of the call decreases and nobody else's step increases. It is proved
for `acquire_lock` (`AcquisitionIsBounded`), for a worker and a continuous host that were asked
to stop (`StopIsNear`, in each module) and for `run_ingest` (`RunIsBounded`: windows left, then
attempts left); fairness then adds only that the call goes on. `GateIsAttended`, `HandleCanStop`
and `RepeatIsNotRefused` are the same for liveness properties of several processes: whoever is
to make the next step can make it. These properties and `EachWindowSettled` are theorems and no
part of a run, `HandleCanStop` apart. On the instances of section 3 TLC agrees with each of them
when its name is added to the configuration; it also finds `AcquisitionIsBounded` violated on
the instance of `lock_overlap`, where a thief sends others back to the beginning.

The assumptions on the callers hold in the runs: `NoStrayStop` in the passing runs of a unit,
`WritersTakeTurns` in `unit_fence`, `StartersTakeTurns` in `unit_live`. The code itself enforces
none of them; a deployment with one supervisor per unit, no direct `stop` and no control plane
beside it has them all.

Only model-checked: the liveness properties (beyond the prover's reach), and in the
violation runs what the code does not keep.

## 5. Where the code and its documentation differ

Shown by runs:

- A heartbeat can be merged into the state of a later launch and take the generation
  back (`unit_stale_heartbeat`).
- `set_desired` can be overwritten by a reconcile pass in progress
  (`unit_lost_desire`).
- A direct `stop` can replace a running launch's provenance by a cleared one
  (`unit_stray_stop`).
- A supervisor can steal a lock that another one has just created or taken over: the
  file is empty until its body is written, and the unlink does not check what it
  removes (`lock_overlap`; the second window needs a dead owner and two thieves).

Seen while modelling, kept in the models and checked by no property of a run (the last four contradict no
document, and are easy to miss):

- Two launches can carry the same generation when a supervisor crashes between the
  launch and the save of `state.json` (`src/README.md:113` promises an increment).
- `lock_is_live` compares pid numbers before hostnames, and `release_lock` does not
  compare hostnames: with equal pids on two hosts a foreign lock is stolen, against
  `src/README.md:118-120`.
- A legacy clearance that completed, followed by a new launch, cannot be repeated: the completion stands
  beside a new `pid.json`, which the code calls inconsistent or forged, while
  `src/README.md:501` says identical retries return idempotently.
- A reconcile pass that stops a disabled unit replaces a legacy `pid.json` by a new file; a
  clearance that had already linked the old one can then no longer finish under that request,
  and neither can a second operator's request while the first one's link remains.
- A direct `spawn` beside a stop of the reconciler: a stop that has read the launch intent, which
  has no pid, writes it back over the provenance that the launch has persisted meanwhile.
  `pid.json` then has no pid, the owner's handle does not match it, and the owner's next stop
  drops the handle of a living worker instead of signalling it (`process.py:500-517`).
  `HandleCanStop` is violated on the instance of `unit_fence`.
- With `retries: 0`, or a bucket below one token, every window fails and `diff.full_replace`
  empties the store, with warnings.
- The batch is committed before the assessor runs: an assessor that raises, or a crash before the
  return, has removed records and loses the warnings that name them (`runtime.py:96-112`).
  `ReportNamesLosses` speaks of the runs that return a report.
- A host that was asked to stop stays so: `_stop` is never cleared, and its later runs end at once.

## 6. Not modelled, and what is left

- `ledger.py`, `journal.py`: the ledger is one atomic write of what its caller computed, and the
  repository has no caller; its temporary name is shared by the threads of a process.
- `ratelimit.py` and `retry.py` beyond what decides whether a window is fetched: real time.
- `fleet/control.py` `observe`, `liveness`, legacy inspection: they only read, and nothing in the
  code acts on the result.
- `spawn_process` called on its own: it keeps no provenance and no fence.
- Registry, manifests, profiles, inventory, reports, completeness, `window.py`, CLI,
  FastAPI routes, Fala adapter: pure functions, parsing and delegation.

Next, in this order: several runs of one `WorkerHost` object, whose planner then
keeps the list it was built with; threads that share a `TokenBucket`, with discrete time;
the ledger with two threads and one temporary name.
