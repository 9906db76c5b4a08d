----------------------------- MODULE WorkerHost -----------------------------
(***************************************************************************)
(* WorkerHost.run over a FetchIntent and its planner, with a               *)
(* FileCheckpointStore.                                                    *)
(*                                                                         *)
(* The units of the source are numbered in the order the planner walks     *)
(* them, so a cursor is a number (0: no checkpoint yet); a source may gain *)
(* units at its end.  Three kinds of intent differ in what a cursor names: *)
(*   sequence: SequencePlanner, the unit just completed, of a list fixed   *)
(*             when the worker starts;                                     *)
(*   resume:   ResumePlanner, the unit to fetch next, which the payload of *)
(*             the one before has named;                                   *)
(*   poll:     an intent without output(), the unit just completed; it     *)
(*             plans IDLE (or None) while there is nothing new.            *)
(*                                                                         *)
(* Each run has a host and a planner of its own, as a worker process that  *)
(* is started again has.                                                   *)
(*                                                                         *)
(* An operation of the consumer may raise before or after it took effect,  *)
(* the process may crash anywhere, and anything may happen between two     *)
(* operations.  MaxFaults bounds raises, crashes and stop requests.        *)
(***************************************************************************)
EXTENDS Integers

CONSTANTS
  Units,       \* how many units the source may come to have
  Setups,      \* the ways a worker is put together
  MaxFaults    \* bound on raises, crashes and stop requests

\* limit: max_consecutive_failures; bound: max_iterations; 0 is None.
Setup == [planner : {"sequence", "resume", "poll"}, exhausted : {"stop", "idle"},
          limit : Nat, bound : Nat]

ASSUME WorkerBounds == Units \in Nat \ {0} /\ Setups \subseteq Setup /\ MaxFaults \in Nat

VARIABLES
  setup,       \* the one in use
  available,   \* how many units the source has
  stored,      \* the checkpoint file
  persisted,   \* the units the consumer has persisted
  pc,          \* where the loop is; "off": no run
  units,       \* how many units the sequence planner was built with
  loaded,      \* the host's own checkpoint
  plan,        \* the unit being worked on
  directive,   \* what output() returned for it
  streak,      \* consecutive failures
  turns,       \* iterations, when they are bounded
  stop,        \* request_stop was called
  faults       \* how often something went wrong

durable == <<stored, persisted>>
step == <<plan, directive>>
workerVars == <<setup, available, stored, persisted, pc, units, loaded, plan, directive,
                streak, turns, stop, faults>>

WorkerInit ==
  /\ setup \in Setups
  /\ available \in (IF setup.planner = "resume" THEN 1 ELSE 0)..Units
  /\ stored = 0 /\ persisted = {}
  /\ pc = "off" /\ units = 0 /\ loaded = 0
  /\ plan = 1 /\ directive = "continue"
  /\ streak = 0 /\ turns = 0 /\ stop = FALSE /\ faults = 0

\* The unit a planner chooses for the cursor c.
PlannedUnit(c) == IF setup.planner = "resume" THEN (IF c = 0 THEN 1 ELSE c) ELSE c + 1

Last == directive # "continue"

\* The checkpoint output() returns: an exhausted step keeps its own cursor.
NextCursor == IF setup.planner = "resume" /\ ~Last THEN plan + 1 ELSE plan

\* How many units a checkpoint acknowledges.
Covered(c) == IF setup.planner = "resume" /\ c > 0 THEN c - 1 ELSE c

(***************************************************************************)
(* run.                                                                    *)
(***************************************************************************)
\* A sequence planner indexes the units the source has when it is made.
BuildPlanner == units' = available

\* Variant: the checkpoint is not loaded.
StartAfresh ==
  /\ pc = "off"
  /\ pc' = "loop" /\ loaded' = 0 /\ BuildPlanner
  /\ streak' = 0 /\ turns' = 0 /\ stop' = FALSE
  /\ UNCHANGED <<setup, available, durable, step, faults>>

Start ==
  /\ pc = "off"
  /\ pc' = "loop" /\ loaded' = stored /\ BuildPlanner
  /\ streak' = 0 /\ turns' = 0 /\ stop' = FALSE
  /\ UNCHANGED <<setup, available, durable, step, faults>>

\* The condition of the loop.
OutOfTurns == setup.bound > 0 /\ turns >= setup.bound

Leave ==
  /\ pc = "loop" /\ (stop \/ OutOfTurns)
  /\ pc' = "off"
  /\ UNCHANGED <<setup, available, durable, units, loaded, step, streak, turns, stop, faults>>

Turn ==
  /\ pc = "loop" /\ ~stop /\ ~OutOfTurns
  /\ turns' = IF setup.bound > 0 THEN turns + 1 ELSE 0

\* Variant: the last unit counts as already done.
ExhaustedEarly ==
  \/ setup.planner = "sequence" /\ loaded + 1 >= units
  \/ setup.planner = "poll" /\ loaded >= available

\* Nothing left for the planner.
Exhausted ==
  \/ setup.planner = "sequence" /\ loaded >= units
  \/ setup.planner = "poll" /\ loaded >= available

PlanNothing ==
  /\ Turn /\ Exhausted
  /\ streak' = 0
  /\ pc' = IF setup.planner = "poll" THEN "wait" ELSE "off"
  /\ UNCHANGED <<setup, available, durable, units, loaded, step, stop, faults>>

PlanWork ==
  /\ Turn /\ ~Exhausted
  /\ plan' = PlannedUnit(loaded)
  /\ pc' = "fetch"
  /\ UNCHANGED <<setup, available, durable, units, loaded, directive, streak, stop, faults>>

\* What makes a planner return no further cursor.
LastUnit ==
  \/ setup.planner = "sequence" /\ plan >= units
  \/ setup.planner = "resume" /\ plan >= available

\* Variant: the checkpoint first, the payload afterwards.
FetchThenSave ==
  /\ pc = "fetch"
  /\ directive' = IF LastUnit THEN setup.exhausted ELSE "continue"
  /\ stored' = IF setup.planner = "resume" THEN plan + 1 ELSE plan
  /\ pc' = "persist"
  /\ UNCHANGED <<setup, available, persisted, units, loaded, plan, streak, turns, stop, faults>>

\* fetch, transform and output.
Fetch ==
  /\ pc = "fetch"
  /\ directive' = IF LastUnit THEN setup.exhausted ELSE "continue"
  /\ pc' = "persist"
  /\ UNCHANGED <<setup, available, durable, units, loaded, plan, streak, turns, stop, faults>>

Persist ==
  /\ pc = "persist"
  /\ persisted' = persisted \cup {plan}
  /\ pc' = "save"
  /\ UNCHANGED <<setup, available, stored, units, loaded, step, streak, turns, stop, faults>>

\* The temporary file, complete and synced.
SaveTemporary ==
  /\ pc = "save"
  /\ pc' = "replace"
  /\ UNCHANGED <<setup, available, durable, units, loaded, step, streak, turns, stop, faults>>

\* os.replace, and what run does next.
Save ==
  /\ pc = "replace"
  /\ stored' = NextCursor /\ loaded' = NextCursor
  /\ streak' = 0
  /\ pc' = IF ~Last THEN "loop" ELSE IF directive = "stop" THEN "off" ELSE "wait"
  /\ UNCHANGED <<setup, available, persisted, units, step, turns, stop, faults>>

\* Variant: a stop request during a wait prolongs it.
WaitIgnoresStop ==
  /\ pc = "wait"
  /\ pc' = IF stop THEN "wait" ELSE "loop"
  /\ UNCHANGED <<setup, available, durable, units, loaded, step, streak, turns, stop, faults>>

\* _wait, which a stop request cuts short.
Wait ==
  /\ pc = "wait"
  /\ pc' = "loop"
  /\ UNCHANGED <<setup, available, durable, units, loaded, step, streak, turns, stop, faults>>

\* An exception: back off, or give up at the limit.  persist and save may have
\* taken effect all the same.
Fails ==
  /\ pc \in {"fetch", "persist", "save", "replace"} /\ faults < MaxFaults
  /\ faults' = faults + 1 /\ streak' = streak + 1
  /\ \/ UNCHANGED persisted
     \/ pc = "persist" /\ persisted' = persisted \cup {plan}
  /\ \/ UNCHANGED stored
     \/ pc = "replace" /\ stored' = NextCursor
  /\ pc' = IF setup.limit > 0 /\ streak' >= setup.limit THEN "off" ELSE "wait"
  /\ UNCHANGED <<setup, available, units, loaded, step, turns, stop>>

\* plan() itself raises.
PlanFails ==
  /\ Turn /\ faults < MaxFaults
  /\ faults' = faults + 1 /\ streak' = streak + 1
  /\ pc' = IF setup.limit > 0 /\ streak' >= setup.limit THEN "off" ELSE "wait"
  /\ UNCHANGED <<setup, available, durable, units, loaded, step, stop>>

(***************************************************************************)
(* Around the host.                                                        *)
(***************************************************************************)
Crash ==
  /\ pc # "off" /\ faults < MaxFaults
  /\ faults' = faults + 1
  /\ pc' = "off"
  /\ UNCHANGED <<setup, available, durable, units, loaded, step, streak, turns, stop>>

RequestStop ==
  /\ pc # "off" /\ ~stop /\ faults < MaxFaults
  /\ faults' = faults + 1
  /\ stop' = TRUE
  /\ UNCHANGED <<setup, available, durable, pc, units, loaded, step, streak, turns>>

Grow ==
  /\ available < Units
  /\ available' = available + 1
  /\ UNCHANGED <<setup, durable, pc, units, loaded, step, streak, turns, stop, faults>>

Work == Leave \/ PlanNothing \/ PlanWork \/ Fetch \/ Persist \/ SaveTemporary \/ Save \/ Wait
WorkerNext == Start \/ Work \/ Fails \/ PlanFails \/ Crash \/ RequestStop \/ Grow

WorkerSpec == WorkerInit /\ [][WorkerNext]_workerVars

\* A run goes on (the consumer's operations return or raise), and a worker that
\* ended is started again.
FairWorkerSpec == WorkerSpec /\ WF_workerVars(Work) /\ WF_workerVars(Start)

(***************************************************************************)
(* Properties.                                                             *)
(***************************************************************************)
\* Types of the worker's state.
WorkerTypeOK ==
  /\ setup \in Setups
  /\ available \in 0..Units /\ units \in 0..Units
  /\ stored \in 0..Units /\ loaded \in 0..Units /\ plan \in 1..Units
  /\ persisted \subseteq 1..Units
  /\ pc \in {"off", "loop", "fetch", "persist", "save", "replace", "wait"}
  /\ directive \in {"continue", "stop", "idle"} /\ stop \in BOOLEAN
  /\ streak \in 0..MaxFaults /\ turns \in Nat /\ faults \in 0..MaxFaults

\* The checkpoint file never acknowledges a unit that was not persisted, whatever
\* fails or crashes: restarting from it skips nothing.
CheckpointBehindPersisted == 1..Covered(stored) \subseteq persisted

\* What may be persisted again after a failure or a crash is a single plan: the one
\* after the last unit the checkpoint file acknowledges, or that unit itself.
ReplayIsOnePlan ==
  pc \in {"persist", "save", "replace"} => plan \in Covered(stored)..Covered(stored) + 1

\* A run that returns normally was told to stop, used up its iterations, or has
\* persisted every unit its planner knew of.
EndsOnlyWhenDone ==
  [][(pc # "off" /\ pc' = "off" /\ faults' = faults)
       => stop \/ OutOfTurns \/ 1..units \subseteq persisted]_workerVars

\* The worker delivers the source's units in order and at least once.
Delivery == INSTANCE AtLeastOnce WITH delivered <- persisted, acked <- Covered(stored)
ImplementsAtLeastOnce == Delivery!Spec

\* Every unit the source has is persisted in the end.
AllDelivered == \A k \in 1..Units : available >= k ~> k \in persisted

\* A run that was asked to stop ends, also out of an idle wait or a backoff.
StopEndsTheRun == (stop /\ pc # "off") ~> pc = "off"

\* How far a run that was asked to stop is from its end.
StepsToEnd ==
  CASE pc = "fetch" -> 6 [] pc = "persist" -> 5 [] pc = "save" -> 4 [] pc = "replace" -> 3
    [] pc = "wait" -> 2 [] pc = "loop" -> 1 [] OTHER -> 0

\* Once a stop is requested every step of the run brings it nearer to its end, and
\* no failure or source takes it away from it again.
RunsOut ==
  stop /\ pc # "off" =>
    /\ StepsToEnd' <= StepsToEnd
    /\ Work => StepsToEnd' < StepsToEnd
StopIsNear == [][RunsOut]_workerVars

(***************************************************************************)
(* The inductive invariant: what is persisted has no gaps, the checkpoint  *)
(* file is at most one plan ahead of the host's own checkpoint, and the    *)
(* plan at hand is the one after the latter.                               *)
(***************************************************************************)
Fetched == pc \in {"persist", "save", "replace"}

WithinSource ==
  /\ stored <= available /\ loaded <= available /\ units <= available
  /\ setup.planner = "resume" => available >= 1
  /\ streak <= faults
NoGaps == \A k \in persisted : 1..k \subseteq persisted
FileAhead == Covered(stored) \in Covered(loaded)..Covered(loaded) + 1
PlanFollows == Fetched \/ pc = "fetch" => plan = Covered(loaded) + 1 /\ plan <= available
LastIsKnown ==
  Fetched => /\ Last => setup.planner # "poll" /\ plan >= units /\ stored <= plan
             /\ setup.planner = "resume" /\ ~Last => plan < available
SavesPersisted == pc \in {"save", "replace"} => plan \in persisted

WorkerInv ==
  /\ WorkerTypeOK /\ WithinSource /\ NoGaps /\ CheckpointBehindPersisted
  /\ FileAhead /\ PlanFollows /\ LastIsKnown /\ SavesPersisted
=============================================================================
