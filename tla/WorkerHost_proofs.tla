-------------------------- MODULE WorkerHost_proofs --------------------------
(***************************************************************************)
(* Proofs about WorkerHost: the checkpoint never runs ahead of what was    *)
(* persisted, a replay is one plan, a run ends only when it is done, and   *)
(* the refinement of AtLeastOnce, for any number of units, setups, crashes *)
(* and failures.                                                           *)
(***************************************************************************)
EXTENDS WorkerHost, TLAPS

\* The bounds, on their own.
LEMMA Limits == Units \in Nat \ {0} /\ MaxFaults \in Nat
BY WorkerBounds

\* A setup is one of the planners and nothing else.
LEMMA Planners ==
  ASSUME WorkerTypeOK
  PROVE  /\ setup.planner \in {"sequence", "resume", "poll"}
         /\ setup.exhausted \in {"stop", "idle"}
BY WorkerBounds DEF WorkerTypeOK, Setup

\* The initial state satisfies the invariant.
LEMMA WorkerInitInv == WorkerInit => WorkerInv
<1> SUFFICES ASSUME WorkerInit PROVE WorkerInv
  OBVIOUS
<1>0. available \in 0..Units /\ (setup.planner = "resume" => available >= 1)
  <2>1. CASE setup.planner = "resume"
    BY <2>1, Limits DEF WorkerInit
  <2>2. CASE setup.planner # "resume"
    BY <2>2 DEF WorkerInit
  <2> QED BY <2>1, <2>2
<1>1. WorkerTypeOK /\ WithinSource
  <2>1. setup \in Setups
    BY DEF WorkerInit
  <2>2. /\ stored = 0 /\ persisted = {} /\ pc = "off" /\ units = 0 /\ loaded = 0 /\ plan = 1
        /\ directive = "continue" /\ streak = 0 /\ turns = 0 /\ stop = FALSE /\ faults = 0
    BY DEF WorkerInit
  <2>3. plan \in 1..Units /\ 0 \in 0..MaxFaults /\ 0 \in 0..Units
    BY <2>2, Limits
  <2>4. WorkerTypeOK
    BY <1>0, <2>1, <2>2, <2>3 DEF WorkerTypeOK
  <2> QED BY <1>0, <2>2, <2>4 DEF WithinSource
<1>2. NoGaps /\ CheckpointBehindPersisted /\ FileAhead
  BY DEF WorkerInit, NoGaps, CheckpointBehindPersisted, FileAhead, Covered
<1>3. PlanFollows /\ LastIsKnown /\ SavesPersisted
  BY DEF WorkerInit, PlanFollows, LastIsKnown, Last, SavesPersisted, Fetched
<1> QED BY <1>1, <1>2, <1>3 DEF WorkerInv

\* A step that leaves the delivery alone and does not enter the middle of a plan keeps
\* the invariant.
LEMMA QuietWorkerStep ==
  ASSUME WorkerInv, WorkerTypeOK', streak' <= faults',
         UNCHANGED <<setup, stored, persisted, units, loaded>>, available' >= available,
         pc' \in {"off", "loop", "wait"}
  PROVE  WorkerInv'
<1>1. WithinSource'
  BY DEF WorkerInv, WithinSource, WorkerTypeOK
<1>2. NoGaps' /\ CheckpointBehindPersisted' /\ FileAhead'
  BY DEF WorkerInv, NoGaps, CheckpointBehindPersisted, FileAhead, Covered
<1>3. PlanFollows' /\ LastIsKnown' /\ SavesPersisted'
  BY DEF PlanFollows, LastIsKnown, Last, SavesPersisted, Fetched
<1> QED BY <1>1, <1>2, <1>3 DEF WorkerInv

\* Starting: the host's checkpoint is the file's.
LEMMA StartStep ==
  ASSUME WorkerInv, Start
  PROVE  WorkerInv'
<1>0. /\ UNCHANGED <<setup, available, stored, persisted, plan, directive, faults>>
      /\ pc' = "loop" /\ loaded' = stored /\ units' = available
      /\ streak' = 0 /\ turns' = 0 /\ stop' = FALSE
  BY DEF Start, BuildPlanner, durable, step
<1>1. WorkerTypeOK'
  <2>1. pc' \in {"off", "loop", "fetch", "persist", "save", "replace", "wait"} /\ stop' \in BOOLEAN
    BY <1>0
  <2>2. /\ loaded' \in 0..Units /\ units' \in 0..Units
        /\ streak' \in 0..MaxFaults /\ turns' \in Nat
    BY <1>0, Limits DEF WorkerInv, WorkerTypeOK
  <2> QED BY <1>0, <2>1, <2>2 DEF WorkerInv, WorkerTypeOK
<1>5. WithinSource'
  BY <1>0, Limits DEF WorkerInv, WorkerTypeOK, WithinSource
<1>2. NoGaps' /\ CheckpointBehindPersisted'
  BY DEF WorkerInv, NoGaps, CheckpointBehindPersisted, Start, durable, Covered
<1>3. FileAhead'
  BY DEF WorkerInv, WorkerTypeOK, Start, durable, FileAhead, Covered
<1>4. PlanFollows' /\ LastIsKnown' /\ SavesPersisted'
  BY DEF Start, BuildPlanner, PlanFollows, LastIsKnown, Last, SavesPersisted, Fetched
<1> QED BY <1>1, <1>2, <1>3, <1>4, <1>5 DEF WorkerInv

\* Planning: the unit after those the host's checkpoint acknowledges.
LEMMA PlanWorkStep ==
  ASSUME WorkerInv, PlanWork
  PROVE  WorkerInv'
<1>1. /\ UNCHANGED <<setup, available, stored, persisted, units, loaded, directive, streak, stop, faults>>
      /\ pc' = "fetch" /\ plan' = PlannedUnit(loaded) /\ turns' \in Nat
  BY DEF PlanWork, Turn, durable, WorkerInv, WorkerTypeOK
<1>2. /\ stored \in Nat /\ loaded \in Nat /\ units \in Nat /\ available \in 0..Units /\ Units \in Nat
      /\ loaded <= available /\ units <= available
      /\ setup.planner = "resume" => available >= 1
  BY Limits DEF WorkerInv, WorkerTypeOK, WithinSource
<1>3. setup.planner = "sequence" => loaded < units
  BY <1>2 DEF PlanWork, Exhausted
<1>4. setup.planner = "poll" => loaded < available
  BY <1>2 DEF PlanWork, Exhausted
<1>5. plan' = Covered(loaded) + 1 /\ plan' <= available /\ plan' \in Nat \ {0}
  <2>1. CASE setup.planner = "resume"
    BY <1>1, <1>2, <2>1 DEF PlannedUnit, Covered
  <2>2. CASE setup.planner = "sequence"
    BY <1>1, <1>2, <1>3, <2>2 DEF PlannedUnit, Covered
  <2>3. CASE setup.planner = "poll"
    BY <1>1, <1>2, <1>4, <2>3 DEF PlannedUnit, Covered
  <2> QED BY <2>1, <2>2, <2>3, Planners DEF WorkerInv
<1>6. WorkerTypeOK'
  BY <1>1, <1>2, <1>5 DEF WorkerInv, WorkerTypeOK
<1>7. WithinSource' /\ NoGaps' /\ CheckpointBehindPersisted' /\ FileAhead'
  BY <1>1 DEF WorkerInv, WithinSource, NoGaps, CheckpointBehindPersisted, FileAhead, Covered
<1>8. PlanFollows' /\ LastIsKnown' /\ SavesPersisted'
  BY <1>1, <1>5 DEF PlanFollows, LastIsKnown, Last, SavesPersisted, Fetched, Covered
<1> QED BY <1>6, <1>7, <1>8 DEF WorkerInv

\* Fetching: whether the unit is the last one is known from here on.
LEMMA FetchStep ==
  ASSUME WorkerInv, Fetch
  PROVE  WorkerInv'
<1>1. /\ UNCHANGED <<setup, available, stored, persisted, units, loaded, plan, streak, turns, stop, faults>>
      /\ pc = "fetch" /\ pc' = "persist"
  BY DEF Fetch, durable
<1>2. /\ plan = Covered(loaded) + 1 /\ plan <= available
      /\ Covered(stored) <= Covered(loaded) + 1
      /\ stored \in Nat /\ loaded \in Nat /\ plan \in Nat /\ available \in Nat /\ units \in Nat
      /\ stored <= available /\ units <= available
  BY <1>1, Limits
  DEF WorkerInv, WorkerTypeOK, WithinSource, PlanFollows, FileAhead, Covered
<1>3. /\ directive' \in {"continue", "stop", "idle"}
      /\ Last' => setup.planner # "poll" /\ plan >= units /\ stored <= plan
      /\ setup.planner = "resume" /\ ~Last' => plan < available
  <2>1. setup.exhausted \in {"stop", "idle"}
    BY Planners DEF WorkerInv
  <2>2. CASE LastUnit
    <3>1. setup.planner # "poll" /\ plan >= units /\ stored <= plan
      BY <1>2, <2>2 DEF LastUnit, Covered
    <3>2. directive' = setup.exhausted
      BY <2>2 DEF Fetch
    <3> QED BY <2>1, <3>1, <3>2 DEF Last
  <2>3. CASE ~LastUnit
    <3>1. setup.planner = "resume" => plan < available
      BY <1>2, <2>3 DEF LastUnit
    <3>2. directive' = "continue"
      BY <2>3 DEF Fetch
    <3> QED BY <3>1, <3>2 DEF Last
  <2> QED BY <2>2, <2>3
<1>4. WorkerTypeOK'
  BY <1>1, <1>3 DEF WorkerInv, WorkerTypeOK
<1>5. WithinSource' /\ NoGaps' /\ CheckpointBehindPersisted' /\ FileAhead'
  BY <1>1 DEF WorkerInv, WithinSource, NoGaps, CheckpointBehindPersisted, FileAhead, Covered
<1>6. PlanFollows' /\ LastIsKnown' /\ SavesPersisted'
  BY <1>1, <1>2, <1>3 DEF PlanFollows, LastIsKnown, Last, SavesPersisted, Fetched, Covered
<1> QED BY <1>4, <1>5, <1>6 DEF WorkerInv

\* What precedes the plan at hand has been persisted.
LEMMA PlanReached ==
  ASSUME WorkerInv, Fetched \/ pc = "fetch"
  PROVE  /\ 1..plan - 1 \subseteq persisted /\ plan \in 1..Units
         /\ plan \in Covered(stored)..Covered(stored) + 1
<1>1. /\ plan = Covered(loaded) + 1 /\ Covered(stored) \in Covered(loaded)..Covered(loaded) + 1
      /\ stored \in Nat /\ loaded \in Nat /\ plan \in 1..Units
  BY DEF WorkerInv, WorkerTypeOK, PlanFollows, FileAhead
<1>2. Covered(stored) \in Int /\ Covered(loaded) \in Int
  BY <1>1 DEF Covered
<1>3. 1..plan - 1 \subseteq 1..Covered(stored)
  BY <1>1, <1>2
<1> QED BY <1>1, <1>2, <1>3 DEF WorkerInv, CheckpointBehindPersisted

\* Persisting the plan leaves no gap.
LEMMA PersistedGrows ==
  ASSUME WorkerInv, Fetched, persisted' \in {persisted, persisted \cup {plan}}
  PROVE  (\A k \in persisted' : 1..k \subseteq persisted') /\ persisted' \subseteq 1..Units
<1>1. 1..plan - 1 \subseteq persisted /\ plan \in 1..Units
  BY PlanReached
<1>2. 1..plan \subseteq persisted \cup {plan}
  BY <1>1
<1> QED BY <1>1, <1>2 DEF WorkerInv, WorkerTypeOK, NoGaps

\* The checkpoint a completed plan gives.
LEMMA NextCursorRight ==
  ASSUME WorkerInv, Fetched
  PROVE  /\ NextCursor \in 1..available
         /\ Covered(NextCursor) \in plan - 1..plan
         /\ Covered(NextCursor) >= Covered(stored)
         /\ Last => Covered(NextCursor) = IF setup.planner = "resume" THEN plan - 1 ELSE plan
<1>1. /\ plan = Covered(loaded) + 1 /\ plan <= available /\ plan \in 1..Units
      /\ Covered(stored) \in Covered(loaded)..Covered(loaded) + 1
      /\ Last => stored <= plan
      /\ setup.planner = "resume" /\ ~Last => plan < available
      /\ available \in 0..Units /\ stored \in Nat /\ loaded \in Nat /\ Units \in Nat 
  BY Limits DEF WorkerInv, WorkerTypeOK, PlanFollows, FileAhead, LastIsKnown, Last
<1>2. CASE setup.planner = "resume" /\ Last
  BY <1>1, <1>2 DEF NextCursor, Covered
<1>3. CASE setup.planner = "resume" /\ ~Last
  BY <1>1, <1>3 DEF NextCursor, Covered
<1>4. CASE setup.planner # "resume"
  BY <1>1, <1>4 DEF NextCursor, Covered
<1> QED BY <1>1, <1>2, <1>3, <1>4

\* Persisting a unit.
LEMMA PersistStep ==
  ASSUME WorkerInv, Persist
  PROVE  WorkerInv'
<1>1. /\ UNCHANGED <<setup, available, stored, units, loaded, plan, directive, streak, turns, stop, faults>>
      /\ pc = "persist" /\ pc' = "save" /\ persisted' = persisted \cup {plan} /\ Fetched
  BY DEF Persist, step, Fetched
<1>2. (\A k \in persisted' : 1..k \subseteq persisted') /\ persisted' \subseteq 1..Units
  BY <1>1, PersistedGrows
<1>3. WorkerTypeOK' /\ WithinSource' /\ NoGaps'
  BY <1>1, <1>2 DEF WorkerInv, WorkerTypeOK, WithinSource, NoGaps
<1>4. CheckpointBehindPersisted' /\ FileAhead'
  BY <1>1 DEF WorkerInv, CheckpointBehindPersisted, FileAhead, Covered
<1>5. PlanFollows' /\ LastIsKnown' /\ SavesPersisted'
  BY <1>1 DEF WorkerInv, PlanFollows, LastIsKnown, Last, SavesPersisted, Fetched, Covered
<1> QED BY <1>3, <1>4, <1>5 DEF WorkerInv

\* Writing the temporary file changes nothing a restart reads.
LEMMA SaveTemporaryStep ==
  ASSUME WorkerInv, SaveTemporary
  PROVE  WorkerInv'
<1>1. /\ UNCHANGED <<setup, available, stored, persisted, units, loaded, plan, directive, streak, turns, stop, faults>>
      /\ pc = "save" /\ pc' = "replace"
  BY DEF SaveTemporary, durable, step
<1>2. WorkerTypeOK' /\ WithinSource' /\ NoGaps' /\ CheckpointBehindPersisted' /\ FileAhead'
  BY <1>1
  DEF WorkerInv, WorkerTypeOK, WithinSource, NoGaps, CheckpointBehindPersisted, FileAhead, Covered
<1>3. PlanFollows' /\ LastIsKnown' /\ SavesPersisted'
  BY <1>1 DEF WorkerInv, PlanFollows, LastIsKnown, Last, SavesPersisted, Fetched, Covered
<1> QED BY <1>2, <1>3 DEF WorkerInv

\* A checkpoint that replaces the file acknowledges only what was persisted.
LEMMA SavedBehind ==
  ASSUME WorkerInv, pc = "replace"
  PROVE  1..Covered(NextCursor) \subseteq persisted
<1>1. Fetched /\ plan \in persisted
  BY DEF Fetched, WorkerInv, SavesPersisted
<1>2. 1..plan \subseteq persisted /\ plan \in Nat
  BY <1>1 DEF WorkerInv, NoGaps, WorkerTypeOK
<1>3. Covered(NextCursor) \in plan - 1..plan
  BY <1>1, NextCursorRight
<1> QED BY <1>2, <1>3

\* Replacing the checkpoint.
LEMMA SaveStep ==
  ASSUME WorkerInv, Save
  PROVE  WorkerInv'
<1>1. /\ UNCHANGED <<setup, available, persisted, units, plan, directive, turns, stop, faults>>
      /\ stored' = NextCursor /\ loaded' = NextCursor /\ streak' = 0
      /\ pc = "replace" /\ pc' \in {"off", "loop", "wait"} /\ Fetched
  BY DEF Save, step, Fetched
<1>2. NextCursor \in 1..available /\ available \in 0..Units /\ Units \in Nat
  BY <1>1, NextCursorRight, Limits DEF WorkerInv, WorkerTypeOK
<1>3. WorkerTypeOK' /\ WithinSource'
  BY <1>1, <1>2, Limits DEF WorkerInv, WorkerTypeOK, WithinSource
<1>4. NoGaps' /\ CheckpointBehindPersisted'
  BY <1>1, SavedBehind DEF WorkerInv, NoGaps, CheckpointBehindPersisted, Covered
<1>5. FileAhead'
  BY <1>1, <1>2 DEF FileAhead, Covered
<1>6. PlanFollows' /\ LastIsKnown' /\ SavesPersisted'
  BY <1>1 DEF PlanFollows, LastIsKnown, Last, SavesPersisted, Fetched
<1> QED BY <1>3, <1>4, <1>5, <1>6 DEF WorkerInv

\* An exception, with or without its operation's effect.
LEMMA FailsStep ==
  ASSUME WorkerInv, Fails
  PROVE  WorkerInv'
<1>1. /\ UNCHANGED <<setup, available, units, loaded, plan, directive, turns, stop>>
      /\ faults' = faults + 1 /\ faults < MaxFaults /\ streak' = streak + 1
      /\ pc' \in {"off", "wait"}
  BY DEF Fails, step
<1>2. /\ persisted' = persisted \/ (pc = "persist" /\ persisted' = persisted \cup {plan})
      /\ stored' = stored \/ (pc = "replace" /\ stored' = NextCursor)
  BY DEF Fails
<1>3. /\ \A k \in persisted' : 1..k \subseteq persisted'
      /\ persisted' \subseteq 1..Units /\ persisted \subseteq persisted'
  <2>1. CASE persisted' = persisted
    BY <2>1 DEF WorkerInv, NoGaps, WorkerTypeOK
  <2>2. CASE pc = "persist" /\ persisted' = persisted \cup {plan}
    BY <2>2, PersistedGrows DEF Fetched
  <2> QED BY <1>2, <2>1, <2>2
<1>4. /\ stored' \in 0..Units /\ stored' <= available
      /\ Covered(stored') \in Covered(loaded)..Covered(loaded) + 1
      /\ 1..Covered(stored') \subseteq persisted
  <2>1. CASE stored' = stored
    BY <2>1 DEF WorkerInv, WorkerTypeOK, WithinSource, FileAhead, CheckpointBehindPersisted
  <2>2. CASE pc = "replace" /\ stored' = NextCursor
    <3>1. Fetched
      BY <2>2 DEF Fetched
    <3>2. NextCursor \in 1..available /\ Covered(NextCursor) \in plan - 1..plan
      BY <3>1, NextCursorRight
    <3>3. plan = Covered(loaded) + 1 /\ loaded \in Nat /\ available \in 0..Units /\ Units \in Nat
      BY <3>1, Limits DEF WorkerInv, WorkerTypeOK, PlanFollows
    <3>4. Covered(loaded) \in Int
      BY <3>3 DEF Covered
    <3>5. stored' \in 0..Units /\ stored' <= available
      BY <2>2, <3>2, <3>3
    <3>6. Covered(stored') \in Covered(loaded)..Covered(loaded) + 1
      BY <2>2, <3>2, <3>3, <3>4
    <3> QED BY <2>2, <3>5, <3>6, SavedBehind
  <2> QED BY <1>2, <2>1, <2>2
<1>5. WorkerTypeOK'
  BY <1>1, <1>3, <1>4, Limits DEF WorkerInv, WorkerTypeOK, WithinSource
<1>6. WithinSource'
  BY <1>1, <1>4 DEF WorkerInv, WorkerTypeOK, WithinSource
<1>7. NoGaps' /\ CheckpointBehindPersisted' /\ FileAhead'
  BY <1>1, <1>3, <1>4 DEF NoGaps, CheckpointBehindPersisted, FileAhead, Covered
<1>8. PlanFollows' /\ LastIsKnown' /\ SavesPersisted'
  BY <1>1 DEF PlanFollows, LastIsKnown, Last, SavesPersisted, Fetched
<1> QED BY <1>5, <1>6, <1>7, <1>8 DEF WorkerInv

\* The source gains a unit, or somebody asks for a stop, in the middle of anything.
LEMMA OutsideStep ==
  ASSUME WorkerInv, Grow \/ RequestStop
  PROVE  WorkerInv'
<1>1. /\ UNCHANGED <<setup, stored, persisted, pc, units, loaded, plan, directive, streak, turns>>
      /\ available' \in available..Units /\ available \in Nat /\ faults' \in faults..MaxFaults
      /\ faults \in Nat /\ stop' \in BOOLEAN
  <2>1. CASE Grow
    BY <2>1, Limits DEF Grow, durable, step, WorkerInv, WorkerTypeOK
  <2>2. CASE RequestStop
    BY <2>2, Limits DEF RequestStop, durable, step, WorkerInv, WorkerTypeOK
  <2> QED BY <2>1, <2>2
<1>2. WorkerTypeOK' /\ WithinSource'
  BY <1>1, Limits DEF WorkerInv, WorkerTypeOK, WithinSource
<1>3. NoGaps' /\ CheckpointBehindPersisted' /\ FileAhead'
  BY <1>1 DEF WorkerInv, NoGaps, CheckpointBehindPersisted, FileAhead, Covered
<1>4. PlanFollows' /\ LastIsKnown' /\ SavesPersisted'
  BY <1>1
  DEF WorkerInv, WorkerTypeOK, PlanFollows, LastIsKnown, Last, SavesPersisted, Fetched, Covered
<1> QED BY <1>2, <1>3, <1>4 DEF WorkerInv

\* Leaving the loop, finding nothing to do, waiting, failing to plan, crashing.
LEMMA PauseStep ==
  ASSUME WorkerInv, Leave \/ PlanNothing \/ Wait \/ PlanFails \/ Crash
  PROVE  WorkerInv'
<1>1. /\ UNCHANGED <<setup, available, stored, persisted, units, loaded, plan, directive, stop>>
      /\ pc' \in {"off", "loop", "wait"}
  BY DEF Leave, PlanNothing, Wait, PlanFails, Crash, durable, step
<1>2. turns' \in Nat
  BY DEF Leave, PlanNothing, Wait, PlanFails, Crash, Turn, WorkerInv, WorkerTypeOK
<1>3. streak' \in Nat /\ faults' \in 0..MaxFaults /\ streak' <= faults'
  BY Limits
  DEF Leave, PlanNothing, Wait, PlanFails, Crash, WorkerInv, WorkerTypeOK, WithinSource
<1>4. WorkerTypeOK'
  BY <1>1, <1>2, <1>3, Limits DEF WorkerInv, WorkerTypeOK
<1>5. available' >= available
  BY <1>1 DEF WorkerInv, WorkerTypeOK
<1> QED BY <1>1, <1>3, <1>4, <1>5, QuietWorkerStep

\* Every step preserves the invariant.
LEMMA WorkerNextInv == WorkerInv /\ [WorkerNext]_workerVars => WorkerInv'
<1> SUFFICES ASSUME WorkerInv, [WorkerNext]_workerVars PROVE WorkerInv'
  OBVIOUS
<1>1. CASE WorkerNext
  BY <1>1, StartStep, PlanWorkStep, FetchStep, PersistStep, SaveTemporaryStep, SaveStep,
     FailsStep, OutsideStep, PauseStep
  DEF WorkerNext, Work
<1>2. CASE UNCHANGED workerVars
  BY <1>2
  DEF workerVars, WorkerInv, WorkerTypeOK, WithinSource, NoGaps, CheckpointBehindPersisted,
      FileAhead, PlanFollows, LastIsKnown, Last, SavesPersisted, Fetched, Covered
<1> QED BY <1>1, <1>2

\* The invariant holds throughout, whatever fails and however often the worker restarts.
THEOREM WorkerInvariance == WorkerSpec => []WorkerInv
BY WorkerInitInv, WorkerNextInv, PTL DEF WorkerSpec

\* The state of run and of the checkpoint file stays well formed.
THEOREM WorkerTypeCorrect == WorkerSpec => []WorkerTypeOK
<1>1. WorkerInv => WorkerTypeOK
  BY DEF WorkerInv
<1> QED BY <1>1, WorkerInvariance, PTL

\* The checkpoint file never acknowledges a unit that was not persisted.
THEOREM CheckpointBehind == WorkerSpec => []CheckpointBehindPersisted
<1>1. WorkerInv => CheckpointBehindPersisted
  BY DEF WorkerInv
<1> QED BY <1>1, WorkerInvariance, PTL

\* A restart or a retry repeats at most one plan.
THEOREM OnePlanReplayed == WorkerSpec => []ReplayIsOnePlan
<1>1. WorkerInv => ReplayIsOnePlan
  BY PlanReached DEF ReplayIsOnePlan, Fetched
<1> QED BY <1>1, WorkerInvariance, PTL

\* A normal return that nobody asked for comes after all units the planner knew.
THEOREM EndsDone == WorkerSpec => EndsOnlyWhenDone
<1> DEFINE Ends == (pc # "off" /\ pc' = "off" /\ faults' = faults)
                     => stop \/ OutOfTurns \/ 1..units \subseteq persisted
<1>1. ASSUME WorkerInv, WorkerNext, pc # "off", pc' = "off", faults' = faults
      PROVE  stop \/ OutOfTurns \/ 1..units \subseteq persisted
  <2>0. faults \in Int
    BY <1>1 DEF WorkerInv, WorkerTypeOK
  <2>1. Leave \/ PlanNothing \/ Save
    BY <1>1, <2>0
    DEF WorkerNext, Work, Start, PlanWork, Fetch, Persist, SaveTemporary, Wait, Fails,
        PlanFails, Crash, RequestStop, Grow
  <2>2. CASE Leave
    BY <2>2 DEF Leave
  <2>3. CASE PlanNothing
    <3>1. setup.planner = "sequence" /\ loaded >= units
      BY <1>1, <2>3 DEF PlanNothing, Exhausted
    <3>2. /\ Covered(stored) >= loaded /\ 1..Covered(stored) \subseteq persisted
          /\ stored \in Nat /\ loaded \in Nat /\ units \in Nat
      BY <1>1, <3>1
      DEF WorkerInv, WorkerTypeOK, FileAhead, CheckpointBehindPersisted, Covered
    <3>3. Covered(stored) \in Int
      BY <3>2 DEF Covered
    <3> QED BY <3>1, <3>2, <3>3
  <2>4. CASE Save
    <3>1. Last /\ pc = "replace"
      BY <1>1, <2>4 DEF Save, Last
    <3>2. plan \in persisted /\ plan >= units
      BY <1>1, <3>1 DEF WorkerInv, SavesPersisted, LastIsKnown, Last, Fetched
    <3>3. 1..plan \subseteq persisted /\ plan \in Nat /\ units \in Nat
      BY <1>1, <3>2 DEF WorkerInv, NoGaps, WorkerTypeOK
    <3> QED BY <3>2, <3>3
  <2> QED BY <2>1, <2>2, <2>3, <2>4
<1>2. WorkerInv /\ [WorkerNext]_workerVars => [Ends]_workerVars
  BY <1>1
<1> QED BY <1>2, WorkerInvariance, PTL DEF WorkerSpec, EndsOnlyWhenDone

\* Every step of the worker is a delivery, an acknowledgement or neither.
LEMMA DeliveryStep ==
  ASSUME WorkerInv, WorkerInv', [WorkerNext]_workerVars
  PROVE  [Delivery!Next]_<<persisted, Covered(stored)>>
<1> DEFINE quiet == UNCHANGED <<persisted, Covered(stored)>>
<1>1. CASE Start \/ Leave \/ PlanNothing \/ PlanWork \/ Fetch \/ SaveTemporary \/ Wait \/ PlanFails
            \/ Crash \/ RequestStop \/ Grow \/ UNCHANGED workerVars
  <2>1. UNCHANGED <<setup, stored, persisted>>
    BY <1>1
    DEF Start, Leave, PlanNothing, PlanWork, Fetch, SaveTemporary, Wait, PlanFails, Crash,
        RequestStop, Grow, durable, workerVars
  <2> QED BY <2>1 DEF Covered
<1>2. ASSUME Fetched, UNCHANGED <<setup, stored>>, persisted' = persisted \cup {plan}
      PROVE  Delivery!Next
  <2>1. 1..plan - 1 \subseteq persisted /\ plan \in 1..Units
    BY <1>2, PlanReached
  <2>2. Covered(stored)' = Covered(stored)
    BY <1>2 DEF Covered
  <2>3. Delivery!Deliver(plan)
    BY <1>2, <2>1, <2>2 DEF Delivery!Deliver
  <2> QED BY <2>1, <2>3 DEF Delivery!Next
<1>3. ASSUME pc = "replace", UNCHANGED <<setup, persisted>>, stored' = NextCursor
      PROVE  Delivery!Next \/ quiet
  <2> DEFINE n == Covered(NextCursor)
  <2>1. Fetched
    BY <1>3 DEF Fetched
  <2>2. /\ NextCursor \in 1..available /\ n \in plan - 1..plan /\ n >= Covered(stored)
        /\ plan \in 1..Units /\ stored \in Nat
    BY <2>1, NextCursorRight DEF WorkerInv, WorkerTypeOK
  <2>3. Covered(stored)' = n
    BY <1>3 DEF Covered
  <2>4. 1..n \subseteq persisted
    BY <1>3, SavedBehind
  <2>5. CASE n = 0
    <3>1. Covered(stored) = 0
      BY <2>2, <2>5 DEF Covered
    <3> QED BY <1>3, <2>3, <2>5, <3>1
  <2>6. CASE n # 0
    <3>1. n \in 1..Units
      BY <2>2, <2>6, Limits
    <3>2. Delivery!Acknowledge(n)
      BY <1>3, <2>2, <2>3, <2>4 DEF Delivery!Acknowledge
    <3> QED BY <3>1, <3>2 DEF Delivery!Next
  <2> QED BY <2>5, <2>6
<1>4. CASE Persist
  BY <1>2, <1>4 DEF Persist, Fetched
<1>5. CASE Save
  BY <1>3, <1>5 DEF Save
<1>6. CASE Fails
  <2>1. UNCHANGED setup
    BY <1>6 DEF Fails
  <2>2. \/ UNCHANGED <<stored, persisted>>
        \/ pc = "persist" /\ UNCHANGED stored /\ persisted' = persisted \cup {plan}
        \/ pc = "replace" /\ UNCHANGED persisted /\ stored' = NextCursor
    BY <1>6 DEF Fails
  <2>3. UNCHANGED <<stored, persisted>> => quiet
    BY <2>1 DEF Covered
  <2> QED BY <1>2, <1>3, <2>1, <2>2, <2>3 DEF Fetched
<1> QED BY <1>1, <1>4, <1>5, <1>6 DEF WorkerNext, Work

\* WorkerHost delivers in order, at least once, and acknowledges what it delivered.
THEOREM WorkerRefinement == WorkerSpec => ImplementsAtLeastOnce
<1>1. WorkerInit => Delivery!Init
  BY DEF WorkerInit, Delivery!Init, Covered
<1>2. WorkerInv /\ WorkerInv' /\ [WorkerNext]_workerVars
        => [Delivery!Next]_<<persisted, Covered(stored)>>
  BY DeliveryStep
<1> QED BY <1>1, <1>2, WorkerInvariance, PTL DEF WorkerSpec, ImplementsAtLeastOnce, Delivery!Spec

\* After request_stop a run has at most six steps to its end, whatever fails meanwhile.
THEOREM StopComesNear == WorkerSpec => StopIsNear
<1>1. WorkerInv /\ [WorkerNext]_workerVars => [RunsOut]_workerVars
  <2> SUFFICES ASSUME WorkerTypeOK, WorkerNext, stop, pc # "off"
               PROVE  StepsToEnd' <= StepsToEnd /\ (Work => StepsToEnd' < StepsToEnd)
    BY DEF WorkerInv, RunsOut
  <2>1. CASE Leave
    BY <2>1 DEF Leave, StepsToEnd
  <2>2. CASE Fetch
    BY <2>2 DEF Fetch, StepsToEnd
  <2>3. CASE Persist
    BY <2>3 DEF Persist, StepsToEnd
  <2>4. CASE SaveTemporary
    BY <2>4 DEF SaveTemporary, StepsToEnd
  <2>5. CASE Wait
    BY <2>5 DEF Wait, StepsToEnd
  <2>6. CASE Save
    <3>1. pc = "replace" /\ pc' \in {"loop", "off", "wait"}
      BY <2>6 DEF Save
    <3> QED BY <3>1 DEF StepsToEnd
  <2>7. ~PlanNothing /\ ~PlanWork /\ ~PlanFails /\ ~Start
    BY DEF PlanNothing, PlanWork, PlanFails, Turn, Start
  <2>8. CASE Fails \/ Crash
    <3>1. /\ pc' \in {"off", "wait"} /\ pc' # pc
          /\ pc' = "wait" => pc \in {"fetch", "persist", "save", "replace"}
      BY <2>8 DEF Fails, Crash
    <3>2. StepsToEnd' < StepsToEnd
      BY <3>1 DEF StepsToEnd, WorkerTypeOK
    <3> QED BY <3>2 DEF StepsToEnd
  <2>9. CASE (RequestStop \/ Grow) /\ ~Work
    BY <2>9 DEF RequestStop, Grow, StepsToEnd
  <2>10. (RequestStop \/ Grow) => ~Work
    BY DEF RequestStop, Grow, Work, Leave, PlanNothing, PlanWork, Turn, Fetch, Persist,
           SaveTemporary, Save, Wait
  <2> QED BY <2>1, <2>2, <2>3, <2>4, <2>5, <2>6, <2>7, <2>8, <2>9, <2>10 DEF WorkerNext, Work
<1> QED BY <1>1, WorkerInvariance, PTL DEF WorkerSpec, StopIsNear
=============================================================================
