-------------------------- MODULE UnitLifecycleInv --------------------------
(***************************************************************************)
(* The inductive invariant behind the safety of UnitLifecycle.             *)
(*                                                                         *)
(* It holds when no direct stop shares the unit with clearances: stop      *)
(* writes pid.json back without the unit lock, so a stop that read it      *)
(* before a clearance puts the cleared record back (run unit_stray_stop).  *)
(***************************************************************************)
EXTENDS UnitLifecycle

NoStrayStop == \A p, q \in Procs : ~("stop" \in Calls[p] /\ "clear" \in Calls[q])

\* What each point of a call knows of its own locals.
Shaped(p, c) ==
  /\ c.call \in Calls[p] \cup {"none"}
  /\ c.pc = "idle" <=> c.call = "none"
  /\ c.pc = "observe" => c.call = "reconcile"
  /\ c.pc \in Clearing <=> c.call = "clear"
  /\ c.pc \in {"stop_read", "stop_write"} => c.call \in {"reconcile", "stop"}
  /\ c.pc \in {"lstat", "create"} \cup Launching => c.call \in {"reconcile", "spawn"}
  /\ c.pc \in Launching \cup Clearing => c.token \in Tokens
  /\ c.pc = "stop_write" => c.data \in PidFile

CallShape == \A p \in Procs : Shaped(p, proc[p])

\* reconcile_unit and clear_process_tombstone run under the unit lock.
LockHeld == \A p \in Procs : proc[p].call \in {"reconcile", "clear"} <=> unitLock = p

\* pid.json names a launch that was made, with its generation.
FenceNamesLaunch ==
  Present => /\ ~Unused(pidFile.token)
             /\ pidFile.generation = child[pidFile.token].generation

\* The launch in progress is the one the fence names, and there is only one.
LauncherOwnsFence ==
  \A p \in Procs : proc[p].pc \in Launching =>
    /\ pidFile.token = proc[p].token
    /\ child[proc[p].token].generation = Generation(p)
    /\ proc[p].pc # "intent" => ReadableFile
    /\ proc[p].pc \in {"intent", "popen"} => child[proc[p].token].phase = "intended"
    /\ \A q \in Procs : proc[q].pc \in Launching => p = q

\* A child that can act is the one a readable fence names.
ActiveIsFenced ==
  \A t \in Tokens : child[t].phase \in InGate \cup Live => ReadableFile /\ pidFile.token = t

\* A child is acknowledged only once persist has replaced the launch intent, and
\* it runs only when acknowledged.
AckAfterRecord ==
  /\ \A p \in Procs : proc[p].pc \in {"ack", "probe"} => pidFile.status # "launch_intent"
  /\ \A t \in Tokens :
       /\ child[t].phase \in Live => child[t].parent = "acked"
       /\ child[t].parent = "acked" =>
            /\ ~Unused(t) /\ child[t].phase # "intended"
            /\ child[t].phase \in InGate \cup Live => pidFile.status # "launch_intent"

\* A clearance in progress still holds the record it matched, and its workload
\* stays gone.
ClearanceStands ==
  \A p \in Procs : proc[p].pc \in Clearing =>
    /\ ReadableFile /\ pidFile.token = proc[p].token
    /\ WorkloadGone(proc[p].token)
    /\ proc[p].pc = "unlink" => proc[p].token \in audit

\* What a stop is about to write back still names the launch pid.json names.
StopDataStands ==
  \A p \in Procs : proc[p].pc = "stop_write" =>
    /\ ReadableFile
    /\ proc[p].data.token = pidFile.token
    /\ proc[p].data.generation = pidFile.generation

Fenced == /\ FenceNamesLaunch /\ LauncherOwnsFence /\ ActiveIsFenced /\ AckAfterRecord
          /\ ClearanceStands /\ StopDataStands /\ AuditedReplacement

IInv == TypeOK /\ CallShape /\ LockHeld /\ Fenced
=============================================================================
