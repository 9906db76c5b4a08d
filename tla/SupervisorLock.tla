--------------------------- MODULE SupervisorLock ---------------------------
(***************************************************************************)
(* supervisor.lock: acquire_lock, lock_is_live and release_lock, used by   *)
(* DesiredStateReconciler and FleetHost.                                   *)
(*                                                                         *)
(* A member of Procs is a pid on a host; the process in it can die and     *)
(* another one can start under the same pid.  Two hosts may use the same   *)
(* number, as two containers do.  The lock file is created with O_EXCL and *)
(* gets its body afterwards, so it has an owner nobody can read yet.       *)
(* Stealing reads the body, judges it, and unlinks the path.               *)
(*                                                                         *)
(* Overlap = FALSE describes supervisors that are started one at a time:   *)
(* none begins to acquire while another one is still acquiring.            *)
(* MaxFaults bounds deaths and failed writes.                              *)
(***************************************************************************)
EXTENDS Integers, FiniteSets

CONSTANTS
  Procs,       \* the pids supervisors run under
  NoProc,      \* nobody
  HostOf,      \* HostOf[p]: the host of p
  PidOf,       \* PidOf[p]: its number there
  Overlap,     \* whether acquisitions overlap
  MaxFaults    \* bound on deaths and write errors

ASSUME LockNames == NoProc \notin Procs
ASSUME OnePidPerProcess ==
  \A p, q \in Procs : HostOf[p] = HostOf[q] /\ PidOf[p] = PidOf[q] => p = q
ASSUME LockBounds == Overlap \in BOOLEAN /\ MaxFaults \in Nat

VARIABLES
  lockFile,    \* supervisor.lock
  alive,       \* the pids with a process in them
  at,          \* at[p]: where p is in acquire_lock, its critical section or release_lock
  faults       \* deaths and write errors so far

lockVars == <<lockFile, alive, at, faults>>

NoLock == [owner |-> NoProc, written |-> FALSE]
Lock(p, written) == [owner |-> p, written |-> written]
Acquiring == {"create", "judge", "unlink", "write"}
Points == {"idle", "held", "remove"} \cup Acquiring

LockInit ==
  /\ lockFile = NoLock
  /\ alive = Procs
  /\ at = [p \in Procs |-> "idle"]
  /\ faults = 0

Mine(p) == lockFile.written /\ PidOf[lockFile.owner] = PidOf[p]

GoTo(p, point) == at' = [at EXCEPT ![p] = point]

(***************************************************************************)
(* lock_is_live, as p sees it.  An absent, empty or half-written file is   *)
(* read as None.                                                           *)
(***************************************************************************)
\* Variant: the pid is probed whatever the host.
LooksLiveAnywhere(p) ==
  /\ lockFile.written /\ ~Mine(p)
  /\ lockFile.owner \in alive /\ HostOf[lockFile.owner] = HostOf[p]

LooksLive(p) ==
  /\ lockFile.written /\ ~Mine(p)
  /\ (HostOf[lockFile.owner] # HostOf[p] \/ lockFile.owner \in alive)

(***************************************************************************)
(* acquire_lock.                                                           *)
(***************************************************************************)
AcquireBegin(p) ==
  /\ p \in alive /\ at[p] = "idle"
  /\ Overlap \/ \A q \in Procs : at[q] \notin Acquiring
  /\ GoTo(p, "create")
  /\ UNCHANGED <<lockFile, alive, faults>>

\* Variant: an existing file is overwritten.
CreateOverwrites(p) ==
  /\ at[p] = "create"
  /\ lockFile' = Lock(p, FALSE)
  /\ GoTo(p, "write")
  /\ UNCHANGED <<alive, faults>>

\* O_CREAT | O_EXCL.
Create(p) ==
  /\ at[p] = "create" /\ lockFile = NoLock
  /\ lockFile' = Lock(p, FALSE)
  /\ GoTo(p, "write")
  /\ UNCHANGED <<alive, faults>>

CreateExists(p) ==
  /\ at[p] = "create" /\ lockFile # NoLock
  /\ GoTo(p, "judge")
  /\ UNCHANGED <<lockFile, alive, faults>>

\* SupervisorLockError.
Refuse(p) ==
  /\ at[p] = "judge" /\ LooksLive(p)
  /\ GoTo(p, "idle")
  /\ UNCHANGED <<lockFile, alive, faults>>

Steal(p) ==
  /\ at[p] = "judge" /\ ~LooksLive(p)
  /\ GoTo(p, "unlink")
  /\ UNCHANGED <<lockFile, alive, faults>>

\* Variant: no unlink before the retry.
StealKeepsFile(p) ==
  /\ at[p] = "unlink"
  /\ GoTo(p, "create")
  /\ UNCHANGED <<lockFile, alive, faults>>

\* The path is unlinked, whatever it holds by now, and creation is retried.
StealUnlink(p) ==
  /\ at[p] = "unlink"
  /\ lockFile' = NoLock
  /\ GoTo(p, "create")
  /\ UNCHANGED <<alive, faults>>

\* The body goes through the descriptor: into a file that may be unlinked by now.
WriteBody(p) ==
  /\ at[p] = "write"
  /\ lockFile' = IF lockFile = Lock(p, FALSE) THEN Lock(p, TRUE) ELSE lockFile
  /\ GoTo(p, "held")
  /\ UNCHANGED <<alive, faults>>

\* The write raises: acquire_lock fails and leaves the empty file.
WriteFails(p) ==
  /\ at[p] = "write" /\ faults < MaxFaults
  /\ faults' = faults + 1
  /\ GoTo(p, "idle")
  /\ UNCHANGED <<lockFile, alive>>

(***************************************************************************)
(* release_lock.                                                           *)
(***************************************************************************)
Release(p) ==
  /\ at[p] = "held" /\ Mine(p)
  /\ GoTo(p, "remove")
  /\ UNCHANGED <<lockFile, alive, faults>>

ReleaseNotOwned(p) ==
  /\ at[p] = "held" /\ ~Mine(p)
  /\ GoTo(p, "idle")
  /\ UNCHANGED <<lockFile, alive, faults>>

ReleaseUnlink(p) ==
  /\ at[p] = "remove"
  /\ lockFile' = NoLock
  /\ GoTo(p, "idle")
  /\ UNCHANGED <<alive, faults>>

(***************************************************************************)
(* A process dies, leaving the file as it is; one starts under its pid.    *)
(***************************************************************************)
Die(p) ==
  /\ p \in alive /\ faults < MaxFaults
  /\ faults' = faults + 1
  /\ alive' = alive \ {p}
  /\ GoTo(p, "idle")
  /\ UNCHANGED lockFile

Start(p) ==
  /\ p \notin alive
  /\ alive' = alive \cup {p}
  /\ UNCHANGED <<lockFile, at, faults>>

(***************************************************************************)
(* The specification.                                                      *)
(***************************************************************************)
Acquire(p) ==
  \/ Create(p) \/ CreateExists(p) \/ Refuse(p) \/ Steal(p) \/ StealUnlink(p) \/ WriteBody(p)
EndRelease(p) == Release(p) \/ ReleaseNotOwned(p) \/ ReleaseUnlink(p)
LockFault(p) == WriteFails(p) \/ Die(p) \/ Start(p)

LockNext == \E p \in Procs : AcquireBegin(p) \/ Acquire(p) \/ EndRelease(p) \/ LockFault(p)

LockSpec == LockInit /\ [][LockNext]_lockVars

(***************************************************************************)
(* Properties.                                                             *)
(***************************************************************************)
\* Types of the lock state.
LockTypeOK ==
  /\ lockFile \in [owner : Procs, written : BOOLEAN] \cup {NoLock}
  /\ alive \subseteq Procs
  /\ at \in [Procs -> Points]
  /\ faults \in 0..MaxFaults

\* At most one supervisor works at a time.
ExclusiveSupervisor ==
  \A p, q \in Procs : at[p] = "held" /\ at[q] = "held" => p = q

\* A working supervisor's lock file stands: neither a thief nor another
\* supervisor's release_lock has removed or replaced it.
HolderKeepsLock == \A p \in Procs : at[p] = "held" => lockFile = Lock(p, TRUE)

\* A complete lock of another host stands for as long as its owner does not
\* release it, alive or dead: nobody else can probe the owner.
ForeignFailsClosed ==
  [][\A p, q \in Procs :
       (lockFile = Lock(q, TRUE) /\ HostOf[p] # HostOf[q] /\ at'[p] # at[p])
         => lockFile' = lockFile]_lockVars

\* A dead owner's lock goes once another supervisor of its host tries to acquire,
\* unless that one dies, or a process starts under the owner's pid, first.
DeadLockIsTakenOver ==
  \A p, q \in Procs :
    (lockFile.owner = p /\ p \notin alive /\ at[q] = "create" /\ HostOf[p] = HostOf[q])
      ~> (lockFile.owner # p \/ p \in alive \/ q \notin alive)

\* What is left of an acquisition: over an existing file a judgement, perhaps an
\* unlink, and a second creation, then the body.
StepsLeft(p) ==
  CASE at[p] = "create" /\ lockFile # NoLock -> 5
    [] at[p] = "judge" -> 4
    [] at[p] = "unlink" -> 3
    [] at[p] = "create" /\ lockFile = NoLock -> 2
    [] at[p] = "write" -> 1
    [] OTHER -> 0

\* The retry loop of acquire_lock goes round at most once: every step of an
\* acquisition, also one that goes back to the creation, leaves less of it, and
\* nobody else's step leaves more.
LessIsLeft ==
  \A p \in Procs : at[p] \in Acquiring =>
    /\ StepsLeft(p)' <= StepsLeft(p)
    /\ at'[p] # at[p] => StepsLeft(p)' < StepsLeft(p)
AcquisitionIsBounded == [][LessIsLeft]_lockVars

(***************************************************************************)
(* The inductive invariant of supervisors started one at a time, whose     *)
(* pids differ.  A thief that has judged the lock finds nobody at work.    *)
(***************************************************************************)
PidsDiffer == \A p, q \in Procs : PidOf[p] = PidOf[q] => p = q
Orderly == ~Overlap /\ PidsDiffer

Holding(p) == at[p] \in {"held", "remove"}

OneAcquires == \A p, q \in Procs : at[p] \in Acquiring /\ at[q] \in Acquiring => p = q
OnlyLiveAct == \A p \in Procs : at[p] # "idle" => p \in alive
OwnersMatch ==
  \A p \in Procs :
    /\ Holding(p) => lockFile = Lock(p, TRUE)
    /\ at[p] = "write" => lockFile = Lock(p, FALSE)
TheftIsSafe ==
  \A p \in Procs : at[p] = "unlink" =>
    /\ \A q \in Procs : ~Holding(q)
    /\ lockFile.written => HostOf[lockFile.owner] = HostOf[p]

LockInv == LockTypeOK /\ OneAcquires /\ OnlyLiveAct /\ OwnersMatch /\ TheftIsSafe

(***************************************************************************)
(* What exclusion rests on when acquisitions overlap.                      *)
(***************************************************************************)
Using(p) == at[p] \in {"write", "held", "remove"}

\* The unlink of a steal hits the lock of an owner that writes, works or releases.
StealsUsedLock(p) == StealUnlink(p) /\ \E q \in Procs : Using(q) /\ lockFile.owner = q
NoUsedLockStolen == \A p \in Procs : ~StealsUsedLock(p)

\* The two races of a steal: another supervisor creates the lock between the
\* judgement and the unlink, or the file judged is the empty one of an owner that
\* is about to write its body.
CreatesAfterJudgement(p) == Create(p) /\ \E q \in Procs : at[q] = "unlink"
JudgesFreshLock(p) == Steal(p) /\ \E q \in Procs : at[q] = "write" /\ lockFile.owner = q
NoRace == \A p \in Procs : ~CreatesAfterJudgement(p) /\ ~JudgesFreshLock(p)

\* Whoever uses the lock is named by the file.
UseInv == LockTypeOK /\ OnlyLiveAct /\ OwnersMatch

\* A thief that is about to unlink finds nobody's lock in use.
TheftIsClear == \A p \in Procs : at[p] = "unlink" => \A q \in Procs : ~Using(q)
=============================================================================
