----------------------- MODULE SupervisorLock_proofs -----------------------
(***************************************************************************)
(* Proofs about SupervisorLock, for any number of supervisors on any hosts *)
(* and any number of deaths and failed writes.  First what exclusion rests *)
(* on when acquisitions overlap: only a steal that unlinks a lock in use   *)
(* breaks it, which takes one of two races.  Then, for supervisors that    *)
(* are started one at a time and whose pids differ, that a holder keeps    *)
(* its file and that acquisitions end.                                     *)
(***************************************************************************)
EXTENDS SupervisorLock, TLAPS

\* NoLock has no owner, and distinct bodies are distinct locks.
LEMMA Locks ==
  /\ NoLock.owner = NoProc /\ NoLock.written = FALSE
  /\ \A p, w : Lock(p, w).owner = p /\ Lock(p, w).written = w
  /\ \A p \in Procs, w \in BOOLEAN : Lock(p, w) \in [owner : Procs, written : BOOLEAN]
BY DEF NoLock, Lock

\* The initial state satisfies the invariant.
LEMMA LockInitInv == LockInit => LockInv
BY LockBounds, Locks
DEF LockInit, LockInv, LockTypeOK, OneAcquires, OnlyLiveAct, OwnersMatch, TheftIsSafe,
    Holding, Acquiring, Points

\* A step of p moves p only.
LEMMA OthersStay ==
  ASSUME LockTypeOK, NEW p \in Procs, NEW point \in Points, GoTo(p, point)
  PROVE  /\ at' \in [Procs -> Points]
         /\ at'[p] = point
         /\ \A q \in Procs : q # p => at'[q] = at[q]
BY DEF LockTypeOK, GoTo

\* Every step of a supervisor, and every fault, keeps the types.
LEMMA LockTypeStep ==
  ASSUME LockTypeOK, LockNext
  PROVE  LockTypeOK'
<1>1. PICK p \in Procs : AcquireBegin(p) \/ Acquire(p) \/ EndRelease(p) \/ LockFault(p)
  BY DEF LockNext
<1>2. \A x \in Points : GoTo(p, x) => at' \in [Procs -> Points]
  BY OthersStay
<1>3. {"idle", "held", "remove", "create", "judge", "unlink", "write"} \subseteq Points
  BY DEF Points, Acquiring
<1>4. at' \in [Procs -> Points]
  <2>1. CASE AcquireBegin(p) \/ EndRelease(p)
    BY <1>2, <1>3, <2>1 DEF AcquireBegin, EndRelease, Release, ReleaseNotOwned, ReleaseUnlink
  <2>2. CASE Acquire(p)
    BY <1>2, <1>3, <2>2
    DEF Acquire, Create, CreateExists, Refuse, Steal, StealUnlink, WriteBody
  <2>3. CASE LockFault(p)
    BY <1>2, <1>3, <2>3 DEF LockFault, WriteFails, Die, Start, LockTypeOK
  <2>4. QED BY <1>1, <2>1, <2>2, <2>3
<1>5. lockFile' \in [owner : Procs, written : BOOLEAN] \cup {NoLock}
  BY <1>1, Locks
  DEF LockTypeOK, AcquireBegin, EndRelease, Release, ReleaseNotOwned, ReleaseUnlink,
      Acquire, Create, CreateExists, Refuse, Steal, StealUnlink, WriteBody,
      LockFault, WriteFails, Die, Start
<1>6. alive' \subseteq Procs /\ faults' \in 0..MaxFaults
  <2>1. CASE ~LockFault(p)
    BY <1>1, <2>1
    DEF LockTypeOK, AcquireBegin, EndRelease, Release, ReleaseNotOwned, ReleaseUnlink,
        Acquire, Create, CreateExists, Refuse, Steal, StealUnlink, WriteBody
  <2>2. CASE WriteFails(p) \/ Die(p)
    BY <2>2, LockBounds DEF LockTypeOK, WriteFails, Die
  <2>3. CASE Start(p)
    BY <2>3 DEF LockTypeOK, Start
  <2>4. QED BY <2>1, <2>2, <2>3 DEF LockFault
<1>7. QED BY <1>4, <1>5, <1>6 DEF LockTypeOK

(***************************************************************************)
(* Acquisitions that overlap.                                              *)
(***************************************************************************)
\* Creation, bodies, releases, deaths and restarts leave the lock with the one
\* supervisor that uses it, whatever the pids.
LEMMA UseStep ==
  ASSUME UseInv, [LockNext]_lockVars, NoUsedLockStolen
  PROVE  UseInv'
<1>1. CASE LockNext
  <2>1. LockTypeOK' BY <1>1, LockTypeStep DEF UseInv
  <2>2. PICK p \in Procs : AcquireBegin(p) \/ Acquire(p) \/ EndRelease(p) \/ LockFault(p)
    BY <1>1 DEF LockNext
  <2>3. LockTypeOK /\ OnlyLiveAct /\ OwnersMatch BY DEF UseInv
  <2>4. CASE Create(p)
    <3>1. /\ at[p] = "create" /\ at'[p] = "write" /\ lockFile = NoLock /\ alive' = alive
          /\ lockFile' = Lock(p, FALSE) /\ \A q \in Procs : q # p => at'[q] = at[q]
      BY <2>3, <2>4, OthersStay DEF Create, Points, Acquiring
    <3>2. \A q \in Procs : ~Using(q)
      BY <2>3, <3>1, LockNames DEF OwnersMatch, Using, Holding, Lock, NoLock
    <3> QED BY <2>1, <2>3, <3>1, <3>2 DEF UseInv, OnlyLiveAct, OwnersMatch, Using, Holding
  <2>5. CASE StealUnlink(p)
    <3>1. /\ at[p] = "unlink" /\ at'[p] = "create" /\ alive' = alive
          /\ \A q \in Procs : q # p => at'[q] = at[q]
      BY <2>3, <2>5, OthersStay DEF StealUnlink, Points, Acquiring
    <3>2. \A q \in Procs : ~Using(q)
      BY <2>3, <2>5 DEF NoUsedLockStolen, StealsUsedLock, OwnersMatch, Using, Holding, Lock
    <3> QED BY <2>1, <2>3, <3>1, <3>2 DEF UseInv, OnlyLiveAct, OwnersMatch, Using, Holding
  <2>6. CASE WriteBody(p)
    <3>1. /\ at[p] = "write" /\ at'[p] = "held" /\ alive' = alive
          /\ \A q \in Procs : q # p => at'[q] = at[q]
      BY <2>3, <2>6, OthersStay DEF WriteBody, Points
    <3>2. lockFile = Lock(p, FALSE) /\ lockFile' = Lock(p, TRUE)
      BY <2>3, <2>6, <3>1 DEF WriteBody, OwnersMatch
    <3>3. \A q \in Procs : q # p => ~Using(q)
      BY <2>3, <3>2 DEF OwnersMatch, Using, Holding, Lock
    <3> QED BY <2>1, <2>3, <3>1, <3>2, <3>3 DEF UseInv, OnlyLiveAct, OwnersMatch, Using, Holding
  <2>7. CASE EndRelease(p)
    <3>1. /\ Holding(p) /\ at'[p] \in {"remove", "idle"} /\ alive' = alive
          /\ \A q \in Procs : q # p => at'[q] = at[q]
          /\ at'[p] = "remove" => lockFile' = lockFile
      BY <2>3, <2>7, OthersStay
      DEF EndRelease, Release, ReleaseNotOwned, ReleaseUnlink, Points, Holding
    <3>2. \A q \in Procs : q # p => ~Using(q)
      BY <2>3, <3>1 DEF OwnersMatch, Using, Holding, Lock
    <3> QED BY <2>1, <2>3, <3>1, <3>2 DEF UseInv, OnlyLiveAct, OwnersMatch, Using, Holding
  <2>8. CASE AcquireBegin(p) \/ CreateExists(p) \/ Refuse(p) \/ Steal(p) \/ LockFault(p)
    <3>1. /\ lockFile' = lockFile /\ at'[p] \notin {"write", "held", "remove"}
          /\ alive \ {p} \subseteq alive' /\ (at'[p] = "idle" \/ p \in alive')
          /\ \A q \in Procs : q # p => at'[q] = at[q]
      BY <2>3, <2>8, OthersStay
      DEF AcquireBegin, CreateExists, Refuse, Steal, LockFault, WriteFails, Die, Start,
          OnlyLiveAct, LockTypeOK, Points, Acquiring
    <3> QED BY <2>1, <2>3, <3>1 DEF UseInv, OnlyLiveAct, OwnersMatch, Holding
  <2> QED BY <2>2, <2>4, <2>5, <2>6, <2>7, <2>8 DEF Acquire
<1>2. CASE UNCHANGED lockVars
  BY <1>2 DEF lockVars, UseInv, LockTypeOK, OnlyLiveAct, OwnersMatch, Holding
<1> QED BY <1>1, <1>2

LEMMA UseStarts == LockInit => UseInv /\ TheftIsClear
BY LockBounds, Locks
DEF LockInit, UseInv, LockTypeOK, OnlyLiveAct, OwnersMatch, TheftIsClear, Holding, Points

LEMMA UseExcludes == UseInv => ExclusiveSupervisor
BY DEF UseInv, OwnersMatch, ExclusiveSupervisor, Holding, Lock

\* However acquisitions overlap, and also with equal pids on two hosts, two supervisors
\* work at once only after the unlink of a steal has removed a lock in use: O_EXCL,
\* the late body, release_lock, deaths and restarts never break exclusion.
THEOREM OnlyStealsBreakExclusion ==
  LockSpec /\ [][NoUsedLockStolen]_lockVars => []ExclusiveSupervisor
<1>1. UseInv /\ [LockNext]_lockVars /\ [NoUsedLockStolen]_lockVars => UseInv'
  <2>1. CASE UNCHANGED lockVars
    BY <2>1 DEF lockVars, UseInv, LockTypeOK, OnlyLiveAct, OwnersMatch, Holding
  <2> QED BY <2>1, UseStep
<1> QED BY <1>1, UseStarts, UseExcludes, PTL DEF LockSpec

\* A thief that meets neither race finds no lock in use when it unlinks.
LEMMA ClearStep ==
  ASSUME PidsDiffer, UseInv, TheftIsClear, LockNext, NoRace
  PROVE  TheftIsClear' /\ NoUsedLockStolen
<1>1. LockTypeOK /\ OnlyLiveAct /\ OwnersMatch BY DEF UseInv
<1>2. PICK p \in Procs : AcquireBegin(p) \/ Acquire(p) \/ EndRelease(p) \/ LockFault(p)
  BY DEF LockNext
<1>3. NoUsedLockStolen
  BY DEF NoUsedLockStolen, StealsUsedLock, StealUnlink, TheftIsClear
<1>4. CASE Create(p)
  <2>1. at[p] = "create" /\ at'[p] = "write" /\ \A q \in Procs : q # p => at'[q] = at[q]
    BY <1>1, <1>4, OthersStay DEF Create, Points, Acquiring
  <2>2. \A q \in Procs : at[q] # "unlink"
    BY <1>4 DEF NoRace, CreatesAfterJudgement
  <2> QED BY <1>3, <2>1, <2>2 DEF TheftIsClear
<1>5. CASE Steal(p)
  <2>1. /\ at[p] = "judge" /\ ~LooksLive(p) /\ at'[p] = "unlink"
        /\ \A q \in Procs : q # p => at'[q] = at[q]
    BY <1>1, <1>5, OthersStay DEF Steal, Points, Acquiring
  <2>2. ASSUME NEW q \in Procs PROVE ~Using(q)
    <3>1. CASE at[q] = "write"
      <4>1. lockFile.owner = q BY <1>1, <3>1 DEF OwnersMatch, Lock
      <4> QED BY <1>5, <3>1, <4>1 DEF NoRace, JudgesFreshLock
    <3>2. CASE Holding(q)
      <4>1. lockFile.owner = q /\ lockFile.written /\ q \in alive
        BY <1>1, <3>2 DEF OwnersMatch, OnlyLiveAct, Holding, Lock
      <4>2. p # q BY <2>1, <3>2 DEF Holding
      <4>3. ~Mine(p) BY <4>1, <4>2 DEF Mine, PidsDiffer
      <4> QED BY <2>1, <4>1, <4>3 DEF LooksLive
    <3> QED BY <3>1, <3>2 DEF Using, Holding
  <2> QED BY <1>3, <2>1, <2>2 DEF TheftIsClear, Using
<1>6. CASE ~Create(p) /\ ~Steal(p)
  <2>1. \A x \in Points : GoTo(p, x) =>
          at'[p] = x /\ \A q \in Procs : q # p => at'[q] = at[q]
    BY <1>1, OthersStay
  <2>2. /\ at'[p] # "unlink"
        /\ Using(p)' => Using(p)
        /\ \A q \in Procs : q # p => at'[q] = at[q]
    <3>1. CASE AcquireBegin(p) \/ EndRelease(p)
      BY <2>1, <3>1
      DEF AcquireBegin, EndRelease, Release, ReleaseNotOwned, ReleaseUnlink,
          Points, Acquiring, Using
    <3>2. CASE Acquire(p)
      <4>1. CASE CreateExists(p) \/ Refuse(p)
        BY <2>1, <4>1 DEF CreateExists, Refuse, Points, Acquiring, Using
      <4>2. CASE StealUnlink(p) BY <2>1, <4>2 DEF StealUnlink, Points, Acquiring, Using
      <4>3. CASE WriteBody(p) BY <2>1, <4>3 DEF WriteBody, Points, Acquiring, Using
      <4> QED BY <1>6, <3>2, <4>1, <4>2, <4>3 DEF Acquire
    <3>3. CASE WriteFails(p) \/ Die(p) BY <2>1, <3>3 DEF WriteFails, Die, Points, Using
    <3>4. CASE Start(p) BY <1>1, <3>4 DEF Start, OnlyLiveAct, Using
    <3> QED BY <1>2, <3>1, <3>2, <3>3, <3>4 DEF LockFault
  <2> QED BY <1>3, <2>2 DEF TheftIsClear, Using
<1> QED BY <1>4, <1>5, <1>6

\* Supervisors whose pids differ exclude one another, also when their acquisitions
\* overlap, as long as nobody creates the lock between another one's judgement and
\* unlink and nobody judges the empty file of an owner about to write its body.
THEOREM ExclusionWithoutRaces ==
  ASSUME PidsDiffer
  PROVE  LockSpec /\ [][NoRace]_lockVars => []ExclusiveSupervisor
<1>1. UseInv /\ TheftIsClear /\ [LockNext]_lockVars /\ [NoRace]_lockVars
        => UseInv' /\ TheftIsClear'
  <2>1. CASE UNCHANGED lockVars
    BY <2>1
    DEF lockVars, UseInv, LockTypeOK, OnlyLiveAct, OwnersMatch, Holding, TheftIsClear, Using
  <2> QED BY <2>1, UseStep, ClearStep
<1> QED BY <1>1, UseStarts, UseExcludes, PTL DEF LockSpec

(***************************************************************************)
(* Supervisors that are started one at a time.                             *)
(***************************************************************************)
\* What an acquirer judges reclaimable belongs to nobody at work and is not another
\* host's.
LEMMA JudgedRightly ==
  ASSUME Orderly, LockInv, NEW p \in Procs, at[p] = "judge", ~LooksLive(p)
  PROVE  /\ \A q \in Procs : ~Holding(q)
         /\ lockFile.written => HostOf[lockFile.owner] = HostOf[p]
<1>1. \A q \in Procs : ~Holding(q)
  <2>1. SUFFICES ASSUME NEW q \in Procs, Holding(q) PROVE FALSE
    OBVIOUS
  <2>2. lockFile.owner = q /\ lockFile.written /\ q \in alive
    BY <2>1 DEF LockInv, OwnersMatch, OnlyLiveAct, Holding, Lock
  <2>3. p # q
    BY <2>1 DEF Holding
  <2>4. ~Mine(p)
    BY <2>2, <2>3 DEF Mine, Orderly, PidsDiffer
  <2>5. QED BY <2>2, <2>4 DEF LooksLive
<1>2. ASSUME lockFile.written PROVE HostOf[lockFile.owner] = HostOf[p]
  <2>1. lockFile.owner \in Procs
    BY <1>2, Locks DEF LockInv, LockTypeOK
  <2>2. CASE Mine(p)
    BY <2>1, <2>2 DEF Mine, Orderly, PidsDiffer
  <2>3. CASE ~Mine(p)
    BY <1>2, <2>3 DEF LooksLive
  <2>4. QED BY <2>2, <2>3
<1>3. QED BY <1>1, <1>2

\* Beginning to acquire, which only happens when nobody else does.
LEMMA BeginStep ==
  ASSUME Orderly, LockInv, LockTypeOK', NEW p \in Procs, AcquireBegin(p)
  PROVE  LockInv'
<1>1. /\ at'[p] = "create" /\ at[p] = "idle" /\ p \in alive
      /\ \A q \in Procs : q # p => at'[q] = at[q]
      /\ \A q \in Procs : at[q] \notin Acquiring
      /\ UNCHANGED <<lockFile, alive, faults>>
  BY OthersStay DEF AcquireBegin, Orderly, LockInv, Points, Acquiring
<1>2. QED
  BY <1>1
  DEF LockInv, OneAcquires, OnlyLiveAct, OwnersMatch, TheftIsSafe, Holding, Acquiring

\* The steps of acquire_lock.
LEMMA AcquireStep ==
  ASSUME Orderly, LockInv, LockTypeOK', NEW p \in Procs, Acquire(p)
  PROVE  LockInv'
<1>1. /\ at[p] \in Acquiring /\ p \in alive /\ alive' = alive
      /\ \A q \in Procs : q # p => at'[q] = at[q] /\ at[q] \notin Acquiring
  BY OthersStay
  DEF Acquire, Create, CreateExists, Refuse, Steal, StealUnlink, WriteBody,
      LockInv, OneAcquires, OnlyLiveAct, Points, Acquiring
<1>2. OneAcquires' /\ OnlyLiveAct'
  BY <1>1 DEF LockInv, OneAcquires, OnlyLiveAct
<1>3. \A x \in Points : GoTo(p, x) => at'[p] = x
  BY OthersStay DEF LockInv
<1>4. CASE Create(p)
  <2>1. at'[p] = "write" /\ lockFile' = Lock(p, FALSE) /\ lockFile = NoLock
    BY <1>3, <1>4 DEF Create, Points, Acquiring
  <2>2. \A q \in Procs : ~Holding(q)
    BY <2>1, LockNames DEF LockInv, OwnersMatch, Lock, NoLock
  <2>3. \A q \in Procs : ~Holding(q)'
    BY <1>1, <2>1, <2>2 DEF Holding
  <2>4. QED
    BY <1>1, <1>2, <2>1, <2>3 DEF LockInv, OwnersMatch, TheftIsSafe, Acquiring
<1>5. CASE CreateExists(p) \/ Refuse(p)
  <2>1. at'[p] \in {"judge", "idle"} /\ lockFile' = lockFile
    BY <1>3, <1>5 DEF CreateExists, Refuse, Points, Acquiring
  <2>2. QED
    BY <1>1, <1>2, <2>1 DEF LockInv, OwnersMatch, TheftIsSafe, Holding, Acquiring
<1>6. CASE Steal(p)
  <2>1. at'[p] = "unlink" /\ lockFile' = lockFile /\ at[p] = "judge" /\ ~LooksLive(p)
    BY <1>3, <1>6 DEF Steal, Points, Acquiring
  <2>2. /\ \A q \in Procs : ~Holding(q)
        /\ lockFile.written => HostOf[lockFile.owner] = HostOf[p]
    BY <2>1, JudgedRightly
  <2>3. QED
    BY <1>1, <1>2, <2>1, <2>2 DEF LockInv, OwnersMatch, TheftIsSafe, Holding, Acquiring
<1>7. CASE StealUnlink(p)
  <2>1. at'[p] = "create" /\ at[p] = "unlink"
    BY <1>3, <1>7 DEF StealUnlink, Points, Acquiring
  <2>2. \A q \in Procs : ~Holding(q)
    BY <2>1 DEF LockInv, TheftIsSafe
  <2>3. QED
    BY <1>1, <1>2, <2>1, <2>2 DEF LockInv, OwnersMatch, TheftIsSafe, Holding, Acquiring
<1>8. CASE WriteBody(p)
  <2>1. at'[p] = "held" /\ at[p] = "write"
    BY <1>3, <1>8 DEF WriteBody, Points, Acquiring
  <2>2. lockFile = Lock(p, FALSE) /\ lockFile' = Lock(p, TRUE)
    BY <1>8, <2>1 DEF WriteBody, LockInv, OwnersMatch
  <2>3. \A q \in Procs : ~Holding(q)
    BY <2>2 DEF LockInv, OwnersMatch, Lock
  <2>4. \A q \in Procs : q # p => ~Holding(q)' /\ at'[q] \notin Acquiring
    BY <1>1, <2>3 DEF Holding
  <2>5. QED
    BY <1>2, <2>1, <2>2, <2>4 DEF LockInv, OwnersMatch, TheftIsSafe, Holding, Acquiring
<1>9. QED BY <1>4, <1>5, <1>6, <1>7, <1>8 DEF Acquire

\* The steps of release_lock.
LEMMA ReleaseStep ==
  ASSUME Orderly, LockInv, LockTypeOK', NEW p \in Procs, EndRelease(p)
  PROVE  LockInv'
<1>1. /\ Holding(p) /\ at'[p] \in {"remove", "idle"} /\ alive' = alive
      /\ \A q \in Procs : q # p => at'[q] = at[q]
      /\ at'[p] = "remove" => lockFile' = lockFile
  BY OthersStay
  DEF EndRelease, Release, ReleaseNotOwned, ReleaseUnlink, LockInv, Points, Holding
<1>2. lockFile = Lock(p, TRUE)
  BY <1>1 DEF LockInv, OwnersMatch
<1>3. \A q \in Procs : q # p => ~Holding(q) /\ at[q] # "write"
  BY <1>2 DEF LockInv, OwnersMatch, Lock
<1>4. \A q \in Procs : at[q] # "unlink"
  BY <1>1 DEF LockInv, TheftIsSafe
<1>5. OneAcquires' /\ OnlyLiveAct'
  BY <1>1 DEF LockInv, OneAcquires, OnlyLiveAct, Acquiring, Holding
<1>6. OwnersMatch' /\ TheftIsSafe'
  BY <1>1, <1>2, <1>3, <1>4 DEF OwnersMatch, TheftIsSafe, Holding
<1>7. QED BY <1>5, <1>6 DEF LockInv

\* A failed write, a death, a start: p is idle afterwards and the file is as it was.
LEMMA FaultStep ==
  ASSUME Orderly, LockInv, LockTypeOK', NEW p \in Procs, LockFault(p)
  PROVE  LockInv'
<1>1. /\ at'[p] = "idle" /\ lockFile' = lockFile /\ alive \ {p} \subseteq alive'
      /\ \A q \in Procs : q # p => at'[q] = at[q]
  BY OthersStay
  DEF LockFault, WriteFails, Die, Start, LockInv, OnlyLiveAct, LockTypeOK, Points
<1>2. QED
  BY <1>1
  DEF LockInv, OneAcquires, OnlyLiveAct, OwnersMatch, TheftIsSafe, Holding, Acquiring

\* Every step preserves the invariant.
LEMMA LockNextInv ==
  ASSUME Orderly, LockInv, [LockNext]_lockVars
  PROVE  LockInv'
<1>1. CASE LockNext
  <2>1. LockTypeOK'
    BY <1>1, LockTypeStep DEF LockInv
  <2>2. PICK p \in Procs : AcquireBegin(p) \/ Acquire(p) \/ EndRelease(p) \/ LockFault(p)
    BY <1>1 DEF LockNext
  <2>3. QED BY <2>1, <2>2, BeginStep, AcquireStep, ReleaseStep, FaultStep
<1>2. CASE UNCHANGED lockVars
  BY <1>2
  DEF lockVars, LockInv, LockTypeOK, OneAcquires, OnlyLiveAct, OwnersMatch, TheftIsSafe,
      Holding
<1>3. QED BY <1>1, <1>2

\* The invariant holds of every behaviour of orderly supervisors.
THEOREM LockInvariance ==
  ASSUME Orderly
  PROVE  LockSpec => []LockInv
<1>1. LockInv /\ [LockNext]_lockVars => LockInv'
  BY LockNextInv
<1>2. QED BY LockInitInv, <1>1, PTL DEF LockSpec

\* acquire_lock, lock_is_live and release_lock keep the lock state well formed.
THEOREM LockTypeCorrect ==
  ASSUME Orderly
  PROVE  LockSpec => []LockTypeOK
<1>1. LockInv => LockTypeOK
  BY DEF LockInv
<1>2. QED BY LockInvariance, <1>1, PTL

\* Nobody steals or removes a working supervisor's lock file.
THEOREM HolderKept ==
  ASSUME Orderly
  PROVE  LockSpec => []HolderKeepsLock
<1>1. LockInv => HolderKeepsLock
  BY DEF LockInv, OwnersMatch, HolderKeepsLock, Holding
<1>2. QED BY LockInvariance, <1>1, PTL

\* A complete lock of another host is left alone, even a dead supervisor's.
THEOREM ForeignKept ==
  ASSUME Orderly
  PROVE  LockSpec => ForeignFailsClosed
<1>1. ASSUME LockInv, LockNext, NEW p \in Procs, NEW q \in Procs,
             lockFile = Lock(q, TRUE), HostOf[p] # HostOf[q], at'[p] # at[p]
      PROVE  lockFile' = lockFile
  <2>1. PICK r \in Procs : AcquireBegin(r) \/ Acquire(r) \/ EndRelease(r) \/ LockFault(r)
    BY <1>1 DEF LockNext
  <2>2. p = r
    <3>1. ASSUME p # r PROVE at'[p] = at[p]
      <4>1. UNCHANGED at \/ \E x \in Points : GoTo(r, x)
        BY <2>1
        DEF AcquireBegin, EndRelease, Release, ReleaseNotOwned, ReleaseUnlink,
            Acquire, Create, CreateExists, Refuse, Steal, StealUnlink, WriteBody,
            LockFault, WriteFails, Die, Start, Points, Acquiring
      <4>2. QED BY <1>1, <3>1, <4>1, OthersStay DEF LockInv
    <3>2. QED BY <1>1, <3>1
  <2>3. lockFile.written /\ lockFile.owner = q /\ p # q
    BY <1>1 DEF Lock
  <2>4. at[p] \notin {"unlink", "remove"} /\ lockFile # NoLock /\ lockFile # Lock(p, FALSE)
    BY <1>1, <2>3, LockNames
    DEF LockInv, TheftIsSafe, OwnersMatch, Holding, Lock, NoLock
  <2>5. ~StealUnlink(p) /\ ~ReleaseUnlink(p) /\ ~Create(p)
    BY <2>4 DEF StealUnlink, ReleaseUnlink, Create
  <2>6. QED
    BY <2>1, <2>2, <2>4, <2>5
    DEF AcquireBegin, EndRelease, Release, ReleaseNotOwned,
        Acquire, CreateExists, Refuse, Steal, WriteBody, LockFault, WriteFails, Die, Start
<1>2. LockInv /\ [LockNext]_lockVars =>
        [\A p, q \in Procs :
           (lockFile = Lock(q, TRUE) /\ HostOf[p] # HostOf[q] /\ at'[p] # at[p])
             => lockFile' = lockFile]_lockVars
  BY <1>1
<1>3. QED BY LockInvariance, <1>2, PTL DEF LockSpec, ForeignFailsClosed

\* Supervisors that start one at a time go round the retry loop of acquire_lock at
\* most once.
THEOREM AcquisitionsEnd ==
  ASSUME Orderly
  PROVE  LockSpec => AcquisitionIsBounded
<1>1. LockInv /\ [LockNext]_lockVars => [LessIsLeft]_lockVars
  <2> SUFFICES ASSUME LockInv, LockNext, NEW q \in Procs, at[q] \in Acquiring
               PROVE  /\ StepsLeft(q)' <= StepsLeft(q)
                      /\ at'[q] # at[q] => StepsLeft(q)' < StepsLeft(q)
    BY DEF LessIsLeft
  <2>1. PICK p \in Procs : AcquireBegin(p) \/ Acquire(p) \/ EndRelease(p) \/ LockFault(p)
    BY DEF LockNext
  <2>2. at \in [Procs -> Points]
    BY DEF LockInv, LockTypeOK
  <2>3. CASE q = p
    <3>1. CASE Acquire(p)
      <4>1. CASE Create(p)
        BY <2>2, <2>3, <4>1 DEF Create, GoTo, StepsLeft
      <4>2. CASE CreateExists(p)
        BY <2>2, <2>3, <4>2 DEF CreateExists, GoTo, StepsLeft
      <4>3. CASE Refuse(p)
        BY <2>2, <2>3, <4>3 DEF Refuse, GoTo, StepsLeft
      <4>4. CASE Steal(p)
        BY <2>2, <2>3, <4>4 DEF Steal, GoTo, StepsLeft
      <4>5. CASE StealUnlink(p)
        BY <2>2, <2>3, <4>5 DEF StealUnlink, GoTo, StepsLeft
      <4>6. CASE WriteBody(p)
        BY <2>2, <2>3, <4>6 DEF WriteBody, GoTo, StepsLeft
      <4> QED BY <3>1, <4>1, <4>2, <4>3, <4>4, <4>5, <4>6 DEF Acquire
    <3>2. CASE LockFault(p)
      <4>1. at'[q] = "idle" /\ lockFile' = lockFile
        BY <2>2, <2>3, <3>2
        DEF LockFault, WriteFails, Die, Start, GoTo, LockInv, OnlyLiveAct, Acquiring
      <4>2. StepsLeft(q)' = 0 /\ StepsLeft(q) \in 1..5
        BY <4>1 DEF StepsLeft, Acquiring
      <4> QED BY <4>2
    <3>3. ~AcquireBegin(p) /\ ~EndRelease(p)
      BY <2>3 DEF AcquireBegin, EndRelease, Release, ReleaseNotOwned, ReleaseUnlink, Acquiring
    <3> QED BY <2>1, <3>1, <3>2, <3>3
  <2>4. CASE q # p
    <3>1. at'[q] = at[q]
      BY <2>1, <2>2, <2>4
      DEF AcquireBegin, Acquire, EndRelease, LockFault, Create, CreateExists, Refuse, Steal,
          StealUnlink, WriteBody, Release, ReleaseNotOwned, ReleaseUnlink, WriteFails, Die,
          Start, GoTo
    <3>2. ~Acquire(p)
      <4>1. at[p] \notin Acquiring
        BY <2>4 DEF LockInv, OneAcquires
      <4> QED BY <4>1 DEF Acquire, Create, CreateExists, Refuse, Steal, StealUnlink, WriteBody, Acquiring
    <3>3. lockFile' = lockFile \/ lockFile' = NoLock
      BY <2>1, <3>2
      DEF AcquireBegin, EndRelease, LockFault, Release, ReleaseNotOwned, ReleaseUnlink,
          WriteFails, Die, Start
    <3> QED BY <3>1, <3>3 DEF StepsLeft
  <2> QED BY <2>3, <2>4
<1> QED BY <1>1, LockInvariance, PTL DEF LockSpec, AcquisitionIsBounded
=============================================================================
