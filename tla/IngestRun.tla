----------------------------- MODULE IngestRun -----------------------------
(***************************************************************************)
(* run_ingest, in processes that share one SQLite store: the windows are   *)
(* throttled, fetched with retries and mapped one by one, what fails       *)
(* becomes a warning, and what was fetched is persisted at the end, as a   *)
(* replacement of the table or as an upsert.  The report, which carries    *)
(* the warnings, comes after that.                                         *)
(*                                                                         *)
(* A window has at most one record with an id, which is the window, and    *)
(* may have others without; the source changes the record and takes it     *)
(* away.  The store factory of the registry opens a file (the builtin ones *)
(* keep their table in memory, where it ends with the run).  A connection  *)
(* writes its transaction to a draft of the table and closes, undoing it,  *)
(* when its run ends.  Each run has a driver and a bucket of its own.  The *)
(* counts of the report are left out.                                      *)
(***************************************************************************)
EXTENDS Integers

CONSTANTS
  Runs, NoRun,
  Windows,     \* windows are 1..Windows
  Profiles,    \* the policies a run may be given
  Versions,    \* bound on the versions of a record
  MaxFaults    \* bound on exceptions and crashes

\* last: the enumerated windows are 1..last; burst: the bucket can hold a token.
Policies == [method : {"replace", "upsert"}, retries : Nat, last : 0..Windows, burst : BOOLEAN]

ASSUME IngestNames == NoRun \notin Runs /\ Profiles \subseteq Policies
ASSUME IngestBounds == Windows \in Nat /\ Versions \in Nat /\ MaxFaults \in Nat

VARIABLES
  source,      \* the version of each window's record; 0: none
  table,       \* the committed table
  writer,      \* the run whose transaction is open
  draft,       \* the table in it
  profile,     \* of each run: its policies,
  pc, window, attempt,   \* and where it is
  read,        \* what each run read of each window
  warned,      \* the windows in each run's warnings
  dropped,     \* the records each run's batch removed, a history of the call
  faults

locals == <<window, attempt, read, warned, dropped>>
runVars == <<profile, pc, locals>>
storeVars == <<table, writer, draft>>
ingestVars == <<source, storeVars, runVars, faults>>

Days == 1..Windows
Rows == [Days -> 0..Versions]
NoRows == [w \in Days |-> 0]
Unread == -1

IngestInit ==
  /\ source \in Rows
  /\ table = NoRows /\ writer = NoRun /\ draft = NoRows
  /\ profile \in [Runs -> Profiles] /\ pc = [r \in Runs |-> "idle"]
  /\ window = [r \in Runs |-> 1] /\ attempt = [r \in Runs |-> 0]
  /\ read = [r \in Runs |-> [w \in Days |-> Unread]]
  /\ warned = [r \in Runs |-> {}] /\ dropped = [r \in Runs |-> {}]
  /\ faults = 0

At(r, point) == pc[r] = point
Goto(r, point) == pc' = [pc EXCEPT ![r] = point]

\* What a run has to persist: all_fetched, written over the table or alone.
HasRecord(r, w) == read[r][w] > 0
Batch(r, base) == [w \in Days |-> IF HasRecord(r, w) THEN read[r][w] ELSE base[w]]

\* The table a run leaves behind.
Outcome(r, base) == Batch(r, IF profile[r].method = "replace" THEN NoRows ELSE base)

(***************************************************************************)
(* The loop over the windows.                                              *)
(***************************************************************************)
IngestBegin(r) ==
  /\ pc[r] \in {"idle", "done", "raised"}
  /\ \E policies \in Profiles : profile' = [profile EXCEPT ![r] = policies]
  /\ Goto(r, "window")
  /\ UNCHANGED <<source, storeVars, locals, faults>>

\* The call is over, and its locals with it.
Ends(r, how) ==
  /\ Goto(r, how)
  /\ window' = [window EXCEPT ![r] = 1] /\ attempt' = [attempt EXCEPT ![r] = 0]
  /\ read' = [read EXCEPT ![r] = [w \in Days |-> Unread]]
  /\ warned' = [warned EXCEPT ![r] = {}] /\ dropped' = [dropped EXCEPT ![r] = {}]

NextWindow(r) ==
  /\ window' = [window EXCEPT ![r] = @ + 1] /\ attempt' = [attempt EXCEPT ![r] = 0]
  /\ Goto(r, "window")
  /\ UNCHANGED dropped

\* throttle.acquire, which raises when its capacity is below one token.
Acquire(r) ==
  /\ At(r, "window") /\ window[r] <= profile[r].last /\ profile[r].burst
  /\ Goto(r, "fetch")
  /\ UNCHANGED <<source, storeVars, locals, faults>>

\* Variant: a window that fails is skipped.
WindowFailsSilently(r) == NextWindow(r) /\ UNCHANGED <<read, warned>>

\* The except clause of the loop.
WindowFails(r) ==
  /\ warned' = [warned EXCEPT ![r] = @ \cup {window[r]}]
  /\ NextWindow(r)
  /\ UNCHANGED read

\* Variant: the capacity is not checked, and the bucket never holds a token.
AcquireWaitsForever(r) ==
  /\ At(r, "window") /\ window[r] <= profile[r].last /\ ~profile[r].burst
  /\ UNCHANGED ingestVars

AcquireRaises(r) ==
  /\ At(r, "window") /\ window[r] <= profile[r].last /\ ~profile[r].burst
  /\ WindowFails(r)
  /\ UNCHANGED <<source, storeVars, faults>>

\* retry with retries = 0 calls nothing and raises.
NoAttempt(r) ==
  /\ At(r, "fetch") /\ profile[r].retries = 0
  /\ WindowFails(r)
  /\ UNCHANGED <<source, storeVars, faults>>

\* The fetcher returns, and the mapper keeps what it returned.
Fetched(r) ==
  /\ At(r, "fetch") /\ attempt[r] < profile[r].retries
  /\ read' = [read EXCEPT ![r][window[r]] = source[window[r]]]
  /\ NextWindow(r)
  /\ UNCHANGED <<source, storeVars, warned, faults>>

\* The mapper raises, which is not retried.
Unusable(r) ==
  /\ At(r, "fetch") /\ attempt[r] < profile[r].retries /\ faults < MaxFaults
  /\ faults' = faults + 1
  /\ WindowFails(r)
  /\ UNCHANGED <<source, storeVars>>

\* The mapper returns records without an id: a warning, and the others are kept,
\* among them the window's own record unless it is one of these.
Invalid(r) ==
  /\ At(r, "fetch") /\ attempt[r] < profile[r].retries /\ faults < MaxFaults
  /\ faults' = faults + 1
  /\ \E kept \in {source[window[r]], Unread} : read' = [read EXCEPT ![r][window[r]] = kept]
  /\ warned' = [warned EXCEPT ![r] = @ \cup {window[r]}]
  /\ NextWindow(r)
  /\ UNCHANGED <<source, storeVars>>

\* The fetcher raises; the last attempt is not caught by retry.
FetchRaises(r) ==
  /\ At(r, "fetch") /\ attempt[r] < profile[r].retries /\ faults < MaxFaults
  /\ faults' = faults + 1
  /\ IF attempt[r] + 1 = profile[r].retries THEN WindowFails(r)
     ELSE /\ attempt' = [attempt EXCEPT ![r] = @ + 1]
          /\ UNCHANGED <<pc, window, read, warned, dropped>>
  /\ UNCHANGED <<source, storeVars>>

(***************************************************************************)
(* The store driver, at the end of the loop, and the report.               *)
(***************************************************************************)
Persisting(r) == At(r, "window") /\ window[r] > profile[r].last
Writes(r) == profile[r].method = "replace" \/ \E w \in Days : HasRecord(r, w)

\* Variant: the DELETE commits by itself.
ReplaceBegins(r) ==
  /\ Persisting(r) /\ Writes(r) /\ writer = NoRun
  /\ writer' = r /\ draft' = Outcome(r, table)
  /\ table' = IF profile[r].method = "replace" THEN NoRows ELSE table
  /\ Goto(r, "commit")
  /\ UNCHANGED <<source, locals, faults>>

\* The first statement opens the transaction: DELETE, or INSERT OR REPLACE.
Persist(r) ==
  /\ Persisting(r) /\ Writes(r) /\ writer = NoRun
  /\ writer' = r /\ draft' = Outcome(r, table)
  /\ Goto(r, "commit")
  /\ UNCHANGED <<source, table, locals, faults>>

\* RuntimeStepError: another connection holds the write lock for too long.
PersistBusy(r) ==
  /\ Persisting(r) /\ Writes(r) /\ writer # NoRun
  /\ Ends(r, "raised")
  /\ UNCHANGED <<source, storeVars, faults>>

\* An upsert of nothing executes no statement.
NothingToWrite(r) ==
  /\ Persisting(r) /\ ~Writes(r)
  /\ Goto(r, "report")
  /\ UNCHANGED <<source, storeVars, locals, faults>>

Commit(r) ==
  /\ At(r, "commit") /\ writer = r
  /\ table' = draft /\ writer' = NoRun /\ draft' = NoRows
  /\ dropped' = [dropped EXCEPT ![r] = {w \in Days : table[w] > 0 /\ draft[w] = 0}]
  /\ Goto(r, "report")
  /\ UNCHANGED <<source, window, attempt, read, warned, faults>>

\* The assessor and the completeness, and the report with its warnings is returned.
Report(r) ==
  /\ At(r, "report")
  /\ Ends(r, "done")
  /\ UNCHANGED <<source, storeVars, faults>>

\* The statement, the commit or the assessor raises, or the process dies: the run
\* is over, and with it an open transaction and the warnings.
EndsEarly(r) ==
  /\ pc[r] \in {"window", "fetch", "commit", "report"} /\ faults < MaxFaults
  /\ faults' = faults + 1
  /\ Ends(r, "raised")
  /\ IF writer = r THEN writer' = NoRun /\ draft' = NoRows ELSE UNCHANGED <<writer, draft>>
  /\ UNCHANGED <<source, table, profile>>

SourceChanges ==
  /\ \E w \in Days : source[w] < Versions /\ source' = [source EXCEPT ![w] = @ + 1]
  /\ UNCHANGED <<storeVars, runVars, faults>>

SourceDrops ==
  /\ faults < MaxFaults /\ faults' = faults + 1
  /\ \E w \in Days : source' = [source EXCEPT ![w] = 0]
  /\ UNCHANGED <<storeVars, runVars>>

(***************************************************************************)
(* The specification.  A run that has begun goes on.                       *)
(***************************************************************************)
Proceed(r) ==
  /\ \/ Acquire(r) \/ AcquireRaises(r) \/ NoAttempt(r) \/ Fetched(r) \/ Unusable(r)
     \/ Invalid(r) \/ FetchRaises(r) \/ Persist(r) \/ PersistBusy(r) \/ NothingToWrite(r)
     \/ Commit(r) \/ Report(r)
  /\ UNCHANGED profile

IngestNext ==
  \/ \E r \in Runs : IngestBegin(r) \/ Proceed(r) \/ EndsEarly(r)
  \/ SourceChanges \/ SourceDrops

IngestSpec == IngestInit /\ [][IngestNext]_ingestVars

FairIngestSpec == IngestSpec /\ \A r \in Runs : WF_ingestVars(Proceed(r))

(***************************************************************************)
(* Properties.                                                             *)
(***************************************************************************)
\* Types of the runs and of the store.
IngestTypeOK ==
  /\ source \in Rows /\ table \in Rows /\ draft \in Rows
  /\ writer \in Runs \cup {NoRun}
  /\ profile \in [Runs -> Profiles]
  /\ pc \in [Runs -> {"idle", "window", "fetch", "commit", "report", "done", "raised"}]
  /\ window \in [Runs -> Nat \ {0}] /\ attempt \in [Runs -> Nat]
  /\ read \in [Runs -> [Days -> {Unread} \cup 0..Versions]]
  /\ warned \in [Runs -> SUBSET Days] /\ dropped \in [Runs -> SUBSET Days]
  /\ faults \in 0..MaxFaults

\* What accounts for a record that a replacement leaves out: its window is in the
\* warnings, was not asked for, or had no record any more.
Excused(r, w) == w \in warned[r] \/ w > profile[r].last \/ read[r][w] = 0

\* A record leaves the store only by the commit of a full replacement, and when that
\* run returns its report every record it removed is accounted for.  A run that
\* ends by an exception or a crash returns none, also after its commit.
ReportNamesLosses ==
  [][/\ \A w \in Days : table[w] > 0 /\ table'[w] = 0 =>
          \E r \in Runs : Commit(r) /\ profile[r].method = "replace" /\ w \in dropped'[r]
     /\ \A r \in Runs : Report(r) => \A w \in dropped[r] : Excused(r, w)]_ingestVars

\* Whatever other runs, exceptions and crashes do in between, the table changes
\* from one run's outcome to the next: a replacement is never seen half done and
\* no upsert is lost to a concurrent one.
WholeBatches ==
  [][table' # table => \E r \in Runs : Commit(r) /\ table' = Outcome(r, table)]_ingestVars

\* A window is read or becomes a warning, or both when some of its records have no
\* id, when the run passes it and not before, after no more attempts than the policy
\* grants.
EachWindowSettled ==
  \A r \in Runs :
    /\ \A w \in Days : read[r][w] # Unread \/ w \in warned[r] <=> w < window[r]
    /\ attempt[r] > 0 => pc[r] = "fetch" /\ attempt[r] < profile[r].retries

\* What a run has left: windows, and the point and the attempts in the window at hand.
Running(r) == pc[r] \in {"window", "fetch", "commit", "report"}
WindowsLeft(r) == profile[r].last + 1 - window[r]
AttemptsLeft(r) ==
  CASE pc[r] = "window" -> profile[r].retries + 2
    [] pc[r] = "fetch" -> profile[r].retries + 1 - attempt[r]
    [] pc[r] = "commit" -> 1
    [] OTHER -> 0

\* Every step of a run ends it or leaves less to do, also one that fails, and
\* nothing another run or the source does gives it more.
LessIsLeft(r) ==
  Running(r) /\ Running(r)' =>
    /\ WindowsLeft(r)' \in Nat /\ AttemptsLeft(r)' \in Nat
    /\ \/ WindowsLeft(r)' < WindowsLeft(r)
       \/ /\ WindowsLeft(r)' = WindowsLeft(r) /\ AttemptsLeft(r)' <= AttemptsLeft(r)
          /\ Proceed(r) => AttemptsLeft(r)' < AttemptsLeft(r)
GetsOn == \A r \in Runs : LessIsLeft(r)
RunIsBounded == [][GetsOn]_ingestVars

\* A run ends, also with retries that fail and a store that is busy.
IngestEnds == \A r \in Runs : pc[r] = "window" ~> pc[r] \in {"done", "raised"}

(***************************************************************************)
(* The inductive invariant.                                                *)
(***************************************************************************)
\* Every window a run has passed was read or warned about, and a run works only on
\* the windows it was asked for.
Accounted ==
  \A r \in Runs :
    /\ \A w \in Days : w < window[r] => read[r][w] # Unread \/ w \in warned[r]
    /\ pc[r] = "fetch" => window[r] <= profile[r].last
    /\ pc[r] \in {"commit", "report"} => window[r] > profile[r].last

\* What a run removed it removed in its commit, and can account for.
LossesExcused ==
  \A r \in Runs : /\ dropped[r] # {} => pc[r] = "report"
                  /\ \A w \in dropped[r] : Excused(r, w)

\* The open transaction starts from the committed table.
DraftIsOutcome ==
  /\ \A r \in Runs : pc[r] = "commit" <=> writer = r
  /\ writer # NoRun => draft = Outcome(writer, table)

\* A run works on its windows and no others, and begins with fresh locals.
WithinWindows ==
  \A r \in Runs :
    /\ Running(r) => window[r] <= profile[r].last + 1
    /\ ~Running(r) => window[r] = 1

IngestInv == IngestTypeOK /\ Accounted /\ LossesExcused /\ DraftIsOutcome
ProgressInv == EachWindowSettled /\ WithinWindows
=============================================================================
