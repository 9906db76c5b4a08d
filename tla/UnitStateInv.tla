---------------------------- MODULE UnitStateInv ----------------------------
(***************************************************************************)
(* What holds of state.json, of the gates and of the Popen handles of a    *)
(* unit, and the inductive invariants behind it.                           *)
(*                                                                         *)
(* set_desired and merge_heartbeat load, change and save state.json        *)
(* without the unit lock, spawn and stop work on pid.json without it.      *)
(* What the generation and the handles promise holds when such a caller    *)
(* does not share the unit with another one that writes the same file;     *)
(* what the desire promises is lost at one step of set_desired only.  The  *)
(* runs unit_stale_heartbeat and unit_lost_desire show the losses.         *)
(***************************************************************************)
EXTENDS UnitLifecycleInv

Writers == {"reconcile", "set_desired", "heartbeat"}
Starters == {"reconcile", "spawn", "stop"}

\* A process that uses some of these calls without the lock is the only one of
\* the unit that uses any of them.
TakeTurns(calls) ==
  \A p, q \in Procs : p # q /\ Calls[p] \cap (calls \ {"reconcile"}) # {} => Calls[q] \cap calls = {}

WritersTakeTurns == TakeTurns(Writers)
StartersTakeTurns == TakeTurns(Starters)

(***************************************************************************)
(* state.json.                                                             *)
(***************************************************************************)
\* No launch of the reconciler runs ahead of the persisted generation by more than
\* the one that is still to be saved, however often a crash loses that save.
LaunchAtMostOneAhead == \A t \in Tokens : child[t].generation <= stateFile.generation + 1

\* What a writer has loaded is still what state.json holds, except for what it
\* changes itself.
Stands(c) ==
  c.call \in Writers =>
    /\ c.state.generation >= stateFile.generation
    /\ c.pc # "save" => c.state.generation = stateFile.generation
    /\ c.call # "set_desired" => c.state.desired = stateFile.desired
    /\ c.call = "heartbeat" =>
         /\ c.state.beat \in Tokens /\ ~Unused(c.state.beat)
         /\ child[c.state.beat].generation = stateFile.generation

LoadedStateStands == \A p \in Procs : Stands(proc[p])

\* Only a writer saves.
SavesAreWriters == \A p \in Procs : proc[p].pc = "save" => proc[p].call \in Writers

StateInv == LoadedStateStands /\ SavesAreWriters /\ LaunchAtMostOneAhead

\* A set_desired saves while another process is between the load and the save of a
\* reconcile_unit or a merge_heartbeat, which will write the older desire back.
Carriers == {"reconcile", "heartbeat"}
SavesOver(p) == Save(p) /\ proc[p].call = "set_desired" /\ \E q \in Procs : proc[q].call \in Carriers
NoDesireSavedOver == \A p \in Procs : ~SavesOver(p)

\* The desire a reconciler or a heartbeat has loaded is the one in state.json.
DesireStands == \A p \in Procs : proc[p].call \in Carriers => proc[p].state.desired = stateFile.desired

DesireInv == DesireStands /\ SavesAreWriters

(***************************************************************************)
(* The gate.                                                               *)
(***************************************************************************)
\* The launcher has a child whose gate it has not answered yet.
Awaits(c) == c.pc \in {"ready", "persist", "ack"}

\* A child in the gate can always go on: it has been acknowledged, or it reads
\* EOF, or the launcher that has still to answer it is alive and at work.
GateIsAttended ==
  \A t \in Tokens : child[t].phase \in InGate =>
    /\ child[t].phase = "ready" => child[t].ready
    /\ child[t].parent = "acked" => child[t].phase = "ready"
    /\ child[t].parent = "open" =>
         \E p \in Procs : proc[p].token = t /\ Awaits(proc[p])

\* Every launch is carried out by the process that minted it, and has no child
\* before Popen.
LaunchesAreOwn ==
  \A p \in Procs : proc[p].pc \in Launching =>
    /\ ~Unused(proc[p].token)
    /\ proc[p].pc \in {"intent", "popen"} => child[proc[p].token].phase = "intended"
    /\ \A q \in Procs : proc[q].pc \in Launching /\ proc[q].token = proc[p].token => p = q

\* Only a child that said READY is acknowledged.
AckedWasReady ==
  \A t \in Tokens : child[t].parent = "acked" =>
    child[t].phase \notin {"unused", "intended", "starting"}

GateInv == LaunchesAreOwn /\ AckedWasReady /\ GateIsAttended

(***************************************************************************)
(* Handles.                                                                *)
(***************************************************************************)
Leading == InGate \cup {"running"}

\* The process that owns the handle of a living leader finds the leader in
\* pid.json, so a stop reaches it.
HandleCanStop ==
  \A p \in Procs, t \in Tokens :
    t \in handles[p] /\ child[t].phase \in Leading => pidFile.token = t /\ pidFile.pid

\* What a stop is about to write back has the pid that pid.json has.
StopKeepsPid == \A p \in Procs : proc[p].pc = "stop_write" => proc[p].data.pid = pidFile.pid

\* A launch has a child from Popen on, and a handle only for such a child.
HasChild(c) == c.pc \in {"ready", "persist", "ack", "probe"}
Popened(t) == child[t].phase \notin {"unused", "intended"}
HandlesArePopened ==
  /\ \A p \in Procs : HasChild(proc[p]) => Popened(proc[p].token)
  /\ \A p \in Procs, t \in Tokens : t \in handles[p] => Popened(t)

\* Past persist, pid.json has the pid.
PersistedPid == \A p \in Procs : proc[p].pc \in {"ack", "probe"} => pidFile.pid

HandleInv == HandleCanStop /\ StopKeepsPid /\ HandlesArePopened /\ PersistedPid
=============================================================================
