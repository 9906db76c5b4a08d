-------------------------- MODULE IngestRun_proofs --------------------------
(***************************************************************************)
(* For any number of concurrent runs, of any policies and any number of    *)
(* windows: no record is lost silently and the table changes by whole      *)
(* batches.                                                                *)
(***************************************************************************)
EXTENDS IngestRun, TLAPS

Points == {"idle", "window", "fetch", "commit", "report", "done", "raised"}
Reads == [Runs -> [Days -> {Unread} \cup 0..Versions]]

\* IngestInv but for what the batches removed.
CoreInv == IngestTypeOK /\ Accounted /\ DraftIsOutcome

\* What the policies of a run are.
LEMMA PolicyFacts ==
  ASSUME profile \in [Runs -> Profiles], NEW r \in Runs
  PROVE  /\ profile[r] \in Policies /\ profile[r].last \in 0..Windows
         /\ profile[r].last \in Nat /\ Windows \in Nat /\ Versions \in Nat
<1>1. profile[r] \in Policies BY IngestNames
<1>2. profile[r].last \in 0..Windows BY <1>1 DEF Policies
<1> QED BY <1>1, <1>2, IngestBounds

\* A run outside its transaction does not disturb another's.
LEMMA StoreAlone ==
  ASSUME IngestInv, NEW r \in Runs, NEW x \in Points \ {"commit"}, Goto(r, x),
         pc[r] # "commit", UNCHANGED storeVars,
         \A q \in Runs \ {r} : read'[q] = read[q] /\ profile'[q] = profile[q]
  PROVE  DraftIsOutcome'
<1>1. pc \in [Runs -> Points] BY DEF IngestInv, IngestTypeOK, Points
<1>2. \A q \in Runs : pc'[q] = IF q = r THEN x ELSE pc[q] BY <1>1 DEF Goto
<1>3. table' = table /\ writer' = writer /\ draft' = draft BY DEF storeVars
<1>4. \A q \in Runs : pc'[q] = "commit" <=> writer' = q
  BY <1>2, <1>3 DEF IngestInv, DraftIsOutcome
<1>5. ASSUME writer' # NoRun PROVE draft' = Outcome(writer, table)'
  <2>1. writer \in Runs /\ writer # r
    BY <1>3, <1>5 DEF IngestInv, DraftIsOutcome, IngestTypeOK
  <2>2. read'[writer] = read[writer] /\ profile'[writer] = profile[writer] BY <2>1
  <2>3. draft = Outcome(writer, table) BY <1>3, <1>5 DEF IngestInv, DraftIsOutcome
  <2> QED BY <2>2, <2>3, <1>3 DEF Outcome, Batch, HasRecord
<1> QED BY <1>4, <1>5 DEF DraftIsOutcome

\* What a run that passes a window must have done with it.
LEMMA PassingAccounts ==
  ASSUME IngestInv, NEW r \in Runs, window[r] \in Days, NextWindow(r), UNCHANGED profile,
         read' \in Reads, warned' \in [Runs -> SUBSET Days],
         \A q \in Runs : \A w \in Days :
            /\ q # r \/ w # window[r] => read'[q][w] = read[q][w]
            /\ w \in warned[q] => w \in warned'[q],
         read'[r][window[r]] # Unread \/ window[r] \in warned'[r]
  PROVE  /\ Accounted'
         /\ pc' \in [Runs -> Points] /\ window' \in [Runs -> Nat \ {0}] /\ attempt' \in [Runs -> Nat]
<1>1. /\ pc \in [Runs -> Points] /\ window \in [Runs -> Nat \ {0}] /\ attempt \in [Runs -> Nat]
      /\ profile \in [Runs -> Profiles]
  BY DEF IngestInv, IngestTypeOK, Points
<1>2. /\ pc' = [pc EXCEPT ![r] = "window"] /\ window' = [window EXCEPT ![r] = @ + 1]
      /\ attempt' = [attempt EXCEPT ![r] = 0]
  BY DEF NextWindow, Goto
<1>3. pc' \in [Runs -> Points] /\ attempt' \in [Runs -> Nat] BY <1>1, <1>2 DEF Points
<1>4. window' \in [Runs -> Nat \ {0}] BY <1>1, <1>2
<1>5. ASSUME NEW q \in Runs
      PROVE  /\ (\A w \in Days : w < window[q] => read[q][w] # Unread \/ w \in warned[q])'
             /\ (pc[q] = "fetch" => window[q] <= profile[q].last)'
             /\ (pc[q] \in {"commit", "report"} => window[q] > profile[q].last)'
  <2>1. CASE q = r
    <3>1. pc'[q] = "window" /\ window'[q] = window[r] + 1 BY <2>1, <1>1, <1>2
    <3>2. ASSUME NEW w \in Days, w < window'[q]
          PROVE  read'[q][w] # Unread \/ w \in warned'[q]
      <4>1. w < window[r] \/ w = window[r] BY <3>1, <3>2, <1>1, IngestBounds DEF Days
      <4>2. CASE w = window[r] BY <4>2, <2>1
      <4>3. CASE w < window[r] /\ w # window[r]
        BY <4>3, <2>1, read'[q][w] = read[q][w] DEF IngestInv, Accounted
      <4> QED BY <4>1, <4>2, <4>3
    <3> QED BY <3>1, <3>2
  <2>2. CASE q # r
    <3>1. pc'[q] = pc[q] /\ window'[q] = window[q] /\ profile' = profile
      BY <2>2, <1>1, <1>2
    <3>2. \A w \in Days : read'[q][w] = read[q][w] BY <2>2
    <3> QED BY <3>1, <3>2 DEF IngestInv, Accounted
  <2> QED BY <2>1, <2>2
<1> QED BY <1>3, <1>4, <1>5 DEF Accounted

\* The locals of a call that is over.
LEMMA EndingAccounts ==
  ASSUME IngestInv, NEW r \in Runs, NEW how \in {"done", "raised"}, Ends(r, how),
         UNCHANGED profile
  PROVE  /\ Accounted'
         /\ pc' \in [Runs -> Points] /\ window' \in [Runs -> Nat \ {0}] /\ attempt' \in [Runs -> Nat]
         /\ read' \in Reads /\ warned' \in [Runs -> SUBSET Days] /\ dropped' \in [Runs -> SUBSET Days]
         /\ \A q \in Runs \ {r} : pc'[q] = pc[q] /\ read'[q] = read[q]
         /\ pc'[r] = how
<1>1. /\ pc \in [Runs -> Points] /\ window \in [Runs -> Nat \ {0}] /\ attempt \in [Runs -> Nat]
      /\ read \in Reads /\ warned \in [Runs -> SUBSET Days] /\ dropped \in [Runs -> SUBSET Days]
  BY DEF IngestInv, IngestTypeOK, Points, Reads
<1>2. /\ pc' = [pc EXCEPT ![r] = how] /\ window' = [window EXCEPT ![r] = 1]
      /\ attempt' = [attempt EXCEPT ![r] = 0]
      /\ read' = [read EXCEPT ![r] = [w \in Days |-> Unread]]
      /\ warned' = [warned EXCEPT ![r] = {}] /\ dropped' = [dropped EXCEPT ![r] = {}]
  BY DEF Ends, Goto
<1>3. pc' \in [Runs -> Points] /\ window' \in [Runs -> Nat \ {0}] /\ attempt' \in [Runs -> Nat]
  BY <1>1, <1>2 DEF Points
<1>4. read' \in Reads BY <1>1, <1>2 DEF Reads
<1>5. warned' \in [Runs -> SUBSET Days] /\ dropped' \in [Runs -> SUBSET Days] BY <1>1, <1>2
<1>6. /\ \A q \in Runs \ {r} : /\ pc'[q] = pc[q] /\ read'[q] = read[q]
                               /\ window'[q] = window[q] /\ warned'[q] = warned[q]
      /\ pc'[r] = how /\ window'[r] = 1
  BY <1>1, <1>2 DEF Reads
<1>7. ASSUME NEW q \in Runs
      PROVE  /\ (\A w \in Days : w < window[q] => read[q][w] # Unread \/ w \in warned[q])'
             /\ (pc[q] = "fetch" => window[q] <= profile[q].last)'
             /\ (pc[q] \in {"commit", "report"} => window[q] > profile[q].last)'
  <2>1. CASE q = r
    <3>1. \A w \in Days : ~(w < 1) BY IngestBounds DEF Days
    <3> QED BY <3>1, <2>1, <1>6
  <2>2. CASE q # r BY <2>2, <1>6 DEF IngestInv, Accounted
  <2> QED BY <2>1, <2>2
<1> QED BY <1>3, <1>4, <1>5, <1>6, <1>7 DEF Accounted

\* A window of the loop that is acquired or fetched is one of the days.
LEMMA WindowIsDay ==
  ASSUME IngestInv, NEW r \in Runs, window[r] <= profile[r].last
  PROVE  window[r] \in Days
<1>1. profile[r].last \in 0..Windows /\ Windows \in Nat BY PolicyFacts DEF IngestInv, IngestTypeOK
<1>2. window[r] \in Nat \ {0} BY DEF IngestInv, IngestTypeOK
<1> QED BY <1>1, <1>2 DEF Days

\* A failed window becomes a warning, and the store is left alone.
LEMMA FailingKeeps ==
  ASSUME IngestInv, NEW r \in Runs, pc[r] \in {"window", "fetch"}, window[r] <= profile[r].last,
         WindowFails(r), UNCHANGED <<source, storeVars>>, UNCHANGED profile,
         faults' \in 0..MaxFaults
  PROVE  CoreInv'
<1>1. window[r] \in Days BY WindowIsDay
<1>2. /\ read \in Reads /\ warned \in [Runs -> SUBSET Days] /\ dropped \in [Runs -> SUBSET Days]
      /\ source \in Rows /\ table \in Rows /\ draft \in Rows /\ writer \in Runs \cup {NoRun}
      /\ profile \in [Runs -> Profiles]
  BY DEF IngestInv, IngestTypeOK, Reads
<1>3. /\ NextWindow(r) /\ read' = read /\ dropped' = dropped
      /\ warned' = [warned EXCEPT ![r] = @ \cup {window[r]}]
  BY DEF WindowFails, NextWindow
<1>4. warned' \in [Runs -> SUBSET Days] BY <1>1, <1>2, <1>3
<1>5. /\ \A q \in Runs : \A w \in Days : w \in warned[q] => w \in warned'[q]
      /\ window[r] \in warned'[r]
  BY <1>2, <1>3
<1>6. /\ Accounted'
      /\ pc' \in [Runs -> Points] /\ window' \in [Runs -> Nat \ {0}] /\ attempt' \in [Runs -> Nat]
  BY <1>1, <1>2, <1>3, <1>4, <1>5, PassingAccounts
<1>7. Goto(r, "window") /\ pc[r] # "commit" BY <1>3 DEF NextWindow
<1>8. DraftIsOutcome' BY <1>3, <1>7, StoreAlone DEF Points
<1>9. source' = source /\ table' = table /\ draft' = draft /\ writer' = writer /\ profile' = profile
  BY DEF storeVars
<1>10. IngestTypeOK'
  BY <1>2, <1>3, <1>4, <1>6, <1>9 DEF IngestTypeOK, Points, Reads, Rows, Days
<1> QED BY <1>6, <1>8, <1>10 DEF CoreInv

LEMMA AcquireRaisesKeeps ==
  ASSUME IngestInv, NEW r \in Runs, AcquireRaises(r), UNCHANGED profile PROVE CoreInv'
<1>1. /\ pc[r] = "window" /\ window[r] <= profile[r].last /\ WindowFails(r)
      /\ UNCHANGED <<source, storeVars>> /\ faults' = faults
  BY DEF AcquireRaises, At
<1> QED BY <1>1, FailingKeeps DEF IngestInv, IngestTypeOK

LEMMA NoAttemptKeeps ==
  ASSUME IngestInv, NEW r \in Runs, NoAttempt(r), UNCHANGED profile PROVE CoreInv'
<1>1. /\ pc[r] = "fetch" /\ WindowFails(r)
      /\ UNCHANGED <<source, storeVars>> /\ faults' = faults
  BY DEF NoAttempt, At
<1>2. window[r] <= profile[r].last BY <1>1 DEF IngestInv, Accounted
<1> QED BY <1>1, <1>2, FailingKeeps DEF IngestInv, IngestTypeOK

LEMMA UnusableKeeps ==
  ASSUME IngestInv, NEW r \in Runs, Unusable(r), UNCHANGED profile PROVE CoreInv'
<1>1. /\ pc[r] = "fetch" /\ WindowFails(r)
      /\ UNCHANGED <<source, storeVars>> /\ faults < MaxFaults /\ faults' = faults + 1
  BY DEF Unusable, At
<1>2. window[r] <= profile[r].last BY <1>1 DEF IngestInv, Accounted
<1>3. faults' \in 0..MaxFaults BY <1>1, IngestBounds DEF IngestInv, IngestTypeOK
<1> QED BY <1>1, <1>2, <1>3, FailingKeeps

LEMMA AcquireKeeps ==
  ASSUME IngestInv, NEW r \in Runs, Acquire(r), UNCHANGED profile PROVE CoreInv'
<1>1. /\ pc[r] = "window" /\ window[r] <= profile[r].last /\ Goto(r, "fetch")
      /\ source' = source /\ UNCHANGED storeVars /\ faults' = faults
      /\ window' = window /\ attempt' = attempt /\ read' = read /\ warned' = warned
      /\ dropped' = dropped /\ profile' = profile
  BY DEF Acquire, At, locals
<1>2. DraftIsOutcome' BY <1>1, StoreAlone DEF Points
<1>3. pc \in [Runs -> Points] BY DEF IngestInv, IngestTypeOK, Points
<1>4. /\ pc' \in [Runs -> Points]
      /\ \A q \in Runs : pc'[q] = IF q = r THEN "fetch" ELSE pc[q]
  BY <1>1, <1>3 DEF Goto, Points
<1>5. Accounted' BY <1>1, <1>4 DEF IngestInv, Accounted
<1>6. IngestTypeOK'
  BY <1>1, <1>4 DEF IngestInv, IngestTypeOK, Points, storeVars, Rows, Days
<1> QED BY <1>2, <1>5, <1>6 DEF CoreInv

LEMMA FetchedKeeps ==
  ASSUME IngestInv, NEW r \in Runs, Fetched(r), UNCHANGED profile PROVE CoreInv'
<1>1. /\ pc[r] = "fetch" /\ NextWindow(r)
      /\ read' = [read EXCEPT ![r][window[r]] = source[window[r]]]
      /\ source' = source /\ UNCHANGED storeVars /\ warned' = warned /\ faults' = faults
      /\ dropped' = dropped /\ profile' = profile
  BY DEF Fetched, At, NextWindow
<1>2. window[r] \in Days
  <2>1. window[r] <= profile[r].last BY <1>1 DEF IngestInv, Accounted
  <2> QED BY <2>1, WindowIsDay
<1>3. /\ read \in Reads /\ warned \in [Runs -> SUBSET Days] /\ source \in Rows
  BY DEF IngestInv, IngestTypeOK, Reads
<1>4. source[window[r]] \in 0..Versions BY <1>2, <1>3 DEF Rows
<1>5. read' \in Reads BY <1>1, <1>2, <1>3, <1>4 DEF Reads
<1>6. \A q \in Runs : \A w \in Days :
        read'[q][w] = IF q = r /\ w = window[r] THEN source[w] ELSE read[q][w]
  BY <1>1, <1>2, <1>3 DEF Reads
<1>7. read'[r][window[r]] # Unread BY <1>2, <1>4, <1>6, IngestBounds DEF Unread
<1>8. \A q \in Runs : \A w \in Days :
            /\ q # r \/ w # window[r] => read'[q][w] = read[q][w]
            /\ w \in warned[q] => w \in warned'[q]
  BY <1>1, <1>6
<1>9. /\ Accounted'
      /\ pc' \in [Runs -> Points] /\ window' \in [Runs -> Nat \ {0}] /\ attempt' \in [Runs -> Nat]
  BY <1>1, <1>2, <1>3, <1>5, <1>7, <1>8, PassingAccounts
<1>10. DraftIsOutcome'
  <2>1. \A q \in Runs \ {r} : read'[q] = read[q] BY <1>1, <1>3 DEF Reads
  <2>2. Goto(r, "window") BY <1>1 DEF NextWindow
  <2> QED BY <1>1, <2>1, <2>2, StoreAlone DEF Points
<1>11. IngestTypeOK'
  BY <1>1, <1>3, <1>5, <1>9 DEF IngestInv, IngestTypeOK, Points, Reads, storeVars, Rows, Days
<1> QED BY <1>9, <1>10, <1>11 DEF CoreInv

LEMMA InvalidKeeps ==
  ASSUME IngestInv, NEW r \in Runs, Invalid(r), UNCHANGED profile PROVE CoreInv'
<1>1. /\ pc[r] = "fetch" /\ NextWindow(r)
      /\ warned' = [warned EXCEPT ![r] = @ \cup {window[r]}]
      /\ source' = source /\ UNCHANGED storeVars /\ faults < MaxFaults /\ faults' = faults + 1
      /\ dropped' = dropped /\ profile' = profile
  BY DEF Invalid, At, NextWindow
<1>2. window[r] \in Days
  <2>1. window[r] <= profile[r].last BY <1>1 DEF IngestInv, Accounted
  <2> QED BY <2>1, WindowIsDay
<1>3. /\ read \in Reads /\ warned \in [Runs -> SUBSET Days] /\ source \in Rows
  BY DEF IngestInv, IngestTypeOK, Reads
<1>4. PICK kept \in {source[window[r]], Unread} : read' = [read EXCEPT ![r][window[r]] = kept]
  BY DEF Invalid
<1>5. kept \in {Unread} \cup 0..Versions BY <1>2, <1>3 DEF Rows
<1>6. read' \in Reads BY <1>2, <1>3, <1>4, <1>5 DEF Reads
<1>7. /\ warned' \in [Runs -> SUBSET Days]
      /\ \A q \in Runs : \A w \in Days : w \in warned[q] => w \in warned'[q]
      /\ window[r] \in warned'[r]
  BY <1>1, <1>2, <1>3
<1>8. \A q \in Runs : \A w \in Days : q # r \/ w # window[r] => read'[q][w] = read[q][w]
  BY <1>2, <1>3, <1>4 DEF Reads
<1>9. /\ Accounted'
      /\ pc' \in [Runs -> Points] /\ window' \in [Runs -> Nat \ {0}] /\ attempt' \in [Runs -> Nat]
  BY <1>1, <1>2, <1>6, <1>7, <1>8, PassingAccounts
<1>10. DraftIsOutcome'
  <2>1. \A q \in Runs \ {r} : read'[q] = read[q] BY <1>3, <1>4 DEF Reads
  <2>2. Goto(r, "window") BY <1>1 DEF NextWindow
  <2> QED BY <1>1, <2>1, <2>2, StoreAlone DEF Points
<1>11. faults' \in 0..MaxFaults BY <1>1, IngestBounds DEF IngestInv, IngestTypeOK
<1>12. IngestTypeOK'
  BY <1>1, <1>3, <1>6, <1>7, <1>9, <1>11
     DEF IngestInv, IngestTypeOK, Points, Reads, storeVars, Rows, Days
<1> QED BY <1>9, <1>10, <1>12 DEF CoreInv

LEMMA FetchRaisesKeeps ==
  ASSUME IngestInv, NEW r \in Runs, FetchRaises(r), UNCHANGED profile PROVE CoreInv'
<1>1. /\ pc[r] = "fetch" /\ UNCHANGED <<source, storeVars>>
      /\ faults < MaxFaults /\ faults' = faults + 1
  BY DEF FetchRaises, At
<1>2. window[r] <= profile[r].last BY <1>1 DEF IngestInv, Accounted
<1>3. faults' \in 0..MaxFaults BY <1>1, IngestBounds DEF IngestInv, IngestTypeOK
<1>4. CASE attempt[r] + 1 = profile[r].retries
  <2>1. WindowFails(r) BY <1>4 DEF FetchRaises
  <2> QED BY <1>1, <1>2, <1>3, <2>1, FailingKeeps
<1>5. CASE attempt[r] + 1 # profile[r].retries
  <2>1. /\ attempt' = [attempt EXCEPT ![r] = @ + 1]
        /\ pc' = pc /\ window' = window /\ read' = read /\ warned' = warned
        /\ dropped' = dropped
    BY <1>5 DEF FetchRaises
  <2>2. source' = source /\ table' = table /\ writer' = writer /\ draft' = draft /\ profile' = profile
    BY <1>1 DEF storeVars
  <2>3. DraftIsOutcome' BY <2>1, <2>2 DEF IngestInv, DraftIsOutcome, Outcome, Batch, HasRecord
  <2>4. Accounted' BY <2>1, <2>2 DEF IngestInv, Accounted
  <2>5. attempt' \in [Runs -> Nat] BY <2>1 DEF IngestInv, IngestTypeOK
  <2>6. IngestTypeOK' BY <1>3, <2>1, <2>2, <2>5 DEF IngestInv, IngestTypeOK, Rows, Days
  <2> QED BY <2>3, <2>4, <2>6 DEF CoreInv
<1> QED BY <1>4, <1>5

\* A batch is a table.
LEMMA OutcomeIsTable ==
  ASSUME IngestTypeOK, NEW r \in Runs PROVE Outcome(r, table) \in Rows /\ NoRows \in Rows
<1>1. read[r] \in [Days -> {Unread} \cup 0..Versions] /\ table \in Rows /\ Versions \in Nat
  BY IngestBounds DEF IngestTypeOK
<1>2. NoRows \in Rows BY <1>1 DEF NoRows, Rows
<1>3. ASSUME NEW base \in Rows PROVE Batch(r, base) \in Rows
  <2>1. \A w \in Days : (IF HasRecord(r, w) THEN read[r][w] ELSE base[w]) \in 0..Versions
    BY <1>1 DEF HasRecord, Unread, Rows
  <2> QED BY <2>1 DEF Batch, Rows
<1> QED BY <1>1, <1>2, <1>3 DEF Outcome

LEMMA PersistKeeps ==
  ASSUME IngestInv, NEW r \in Runs, Persist(r), UNCHANGED profile PROVE CoreInv'
<1>1. /\ pc[r] = "window" /\ window[r] > profile[r].last /\ writer = NoRun
      /\ writer' = r /\ draft' = Outcome(r, table) /\ pc' = [pc EXCEPT ![r] = "commit"]
      /\ source' = source /\ table' = table /\ faults' = faults /\ profile' = profile
      /\ window' = window /\ attempt' = attempt /\ read' = read /\ warned' = warned
      /\ dropped' = dropped
  BY DEF Persist, Persisting, At, Goto, locals
<1>2. pc \in [Runs -> Points] BY DEF IngestInv, IngestTypeOK, Points
<1>3. /\ pc' \in [Runs -> Points]
      /\ \A q \in Runs : pc'[q] = IF q = r THEN "commit" ELSE pc[q]
  BY <1>1, <1>2 DEF Points
<1>4. Accounted' BY <1>1, <1>3 DEF IngestInv, Accounted
<1>5. DraftIsOutcome'
  <2>1. \A q \in Runs : pc'[q] = "commit" <=> writer' = q
    BY <1>1, <1>3, IngestNames DEF IngestInv, DraftIsOutcome
  <2>2. draft' = Outcome(r, table)' BY <1>1 DEF Outcome, Batch, HasRecord
  <2> QED BY <1>1, <2>1, <2>2 DEF DraftIsOutcome
<1>6. draft' \in Rows BY <1>1, OutcomeIsTable DEF IngestInv
<1>7. IngestTypeOK'
  BY <1>1, <1>3, <1>6 DEF IngestInv, IngestTypeOK, Points, Rows, Days
<1> QED BY <1>4, <1>5, <1>7 DEF CoreInv

\* A call that ends without a transaction.
LEMMA EndingKeeps ==
  ASSUME IngestInv, NEW r \in Runs, NEW how \in {"done", "raised"}, Ends(r, how),
         pc[r] # "commit", UNCHANGED profile, UNCHANGED <<source, storeVars>>,
         faults' \in 0..MaxFaults
  PROVE  CoreInv'
<1>1. /\ Accounted'
      /\ pc' \in [Runs -> Points] /\ window' \in [Runs -> Nat \ {0}] /\ attempt' \in [Runs -> Nat]
      /\ read' \in Reads /\ warned' \in [Runs -> SUBSET Days] /\ dropped' \in [Runs -> SUBSET Days]
      /\ \A q \in Runs \ {r} : read'[q] = read[q]
  BY EndingAccounts
<1>2. Goto(r, how) /\ how \in Points \ {"commit"} BY DEF Ends, Points
<1>3. DraftIsOutcome' BY <1>1, <1>2, StoreAlone
<1>4. source' = source /\ table' = table /\ draft' = draft /\ writer' = writer /\ profile' = profile
  BY DEF storeVars
<1>5. IngestTypeOK'
  BY <1>1, <1>4 DEF IngestInv, IngestTypeOK, Points, Reads, Rows, Days
<1> QED BY <1>1, <1>3, <1>5 DEF CoreInv

\* A call that ends its transaction.
LEMMA ClosingKeeps ==
  ASSUME IngestInv, NEW r \in Runs, NEW how \in {"done", "raised"}, Ends(r, how),
         writer = r, writer' = NoRun, draft' = NoRows, table' \in Rows,
         UNCHANGED profile, UNCHANGED source, faults' \in 0..MaxFaults
  PROVE  CoreInv'
<1>1. /\ Accounted'
      /\ pc' \in [Runs -> Points] /\ window' \in [Runs -> Nat \ {0}] /\ attempt' \in [Runs -> Nat]
      /\ read' \in Reads /\ warned' \in [Runs -> SUBSET Days] /\ dropped' \in [Runs -> SUBSET Days]
      /\ \A q \in Runs \ {r} : pc'[q] = pc[q]
      /\ pc'[r] = how
  BY EndingAccounts
<1>2. \A q \in Runs : pc'[q] # "commit"
  BY <1>1 DEF IngestInv, DraftIsOutcome
<1>3. DraftIsOutcome' BY <1>2, IngestNames DEF DraftIsOutcome
<1>4. draft' \in Rows BY OutcomeIsTable DEF IngestInv
<1>5. IngestTypeOK'
  BY <1>1, <1>4 DEF IngestInv, IngestTypeOK, Points, Reads, Rows, Days
<1> QED BY <1>1, <1>3, <1>5 DEF CoreInv

LEMMA EndingsKeep ==
  ASSUME IngestInv, NEW r \in Runs, PersistBusy(r) \/ Report(r), UNCHANGED profile
  PROVE  CoreInv'
<1>1. /\ pc[r] \in {"window", "report"} /\ \E how \in {"done", "raised"} : Ends(r, how)
      /\ UNCHANGED <<source, storeVars>> /\ faults' = faults
  BY DEF PersistBusy, Report, Persisting, At
<1> QED BY <1>1, EndingKeeps DEF IngestInv, IngestTypeOK

\* A run that has nothing more to write: its point is the report.
LEMMA WrittenAccounts ==
  ASSUME IngestInv, NEW r \in Runs, window[r] > profile[r].last, Goto(r, "report"),
         UNCHANGED <<profile, window, attempt, read, warned>>
  PROVE  /\ Accounted' /\ pc' \in [Runs -> Points]
         /\ \A q \in Runs : pc'[q] = IF q = r THEN "report" ELSE pc[q]
<1>1. pc \in [Runs -> Points] BY DEF IngestInv, IngestTypeOK, Points
<1>2. /\ pc' \in [Runs -> Points]
      /\ \A q \in Runs : pc'[q] = IF q = r THEN "report" ELSE pc[q]
  BY <1>1 DEF Goto, Points
<1> QED BY <1>2 DEF IngestInv, Accounted

LEMMA NothingToWriteKeeps ==
  ASSUME IngestInv, NEW r \in Runs, NothingToWrite(r), UNCHANGED profile PROVE CoreInv'
<1>1. /\ pc[r] = "window" /\ window[r] > profile[r].last /\ Goto(r, "report")
      /\ source' = source /\ UNCHANGED storeVars /\ faults' = faults /\ profile' = profile
      /\ window' = window /\ attempt' = attempt /\ read' = read /\ warned' = warned
      /\ dropped' = dropped
  BY DEF NothingToWrite, Persisting, At, locals
<1>2. Accounted' /\ pc' \in [Runs -> Points] BY <1>1, WrittenAccounts
<1>3. DraftIsOutcome' BY <1>1, StoreAlone DEF Points
<1>4. IngestTypeOK'
  BY <1>1, <1>2 DEF IngestInv, IngestTypeOK, Points, storeVars, Rows, Days
<1> QED BY <1>2, <1>3, <1>4 DEF CoreInv

LEMMA CommitKeeps ==
  ASSUME IngestInv, NEW r \in Runs, Commit(r), UNCHANGED profile PROVE CoreInv'
<1>1. /\ pc[r] = "commit" /\ writer = r /\ table' = draft /\ writer' = NoRun /\ draft' = NoRows
      /\ dropped' = [dropped EXCEPT ![r] = {w \in Days : table[w] > 0 /\ draft[w] = 0}]
      /\ Goto(r, "report") /\ source' = source /\ faults' = faults /\ profile' = profile
      /\ window' = window /\ attempt' = attempt /\ read' = read /\ warned' = warned
  BY DEF Commit, At
<1>2. window[r] > profile[r].last BY <1>1 DEF IngestInv, Accounted
<1>3. /\ Accounted' /\ pc' \in [Runs -> Points]
      /\ \A q \in Runs : pc'[q] = IF q = r THEN "report" ELSE pc[q]
  BY <1>1, <1>2, WrittenAccounts
<1>4. DraftIsOutcome'
  <2>1. \A q \in Runs : pc'[q] # "commit" BY <1>1, <1>3 DEF IngestInv, DraftIsOutcome
  <2> QED BY <1>1, <2>1, IngestNames DEF DraftIsOutcome
<1>5. draft' \in Rows BY <1>1, OutcomeIsTable DEF IngestInv
<1>6. dropped' \in [Runs -> SUBSET Days]
  <2>1. {w \in Days : table[w] > 0 /\ draft[w] = 0} \in SUBSET Days OBVIOUS
  <2> QED BY <1>1, <2>1 DEF IngestInv, IngestTypeOK
<1>7. IngestTypeOK'
  BY <1>1, <1>3, <1>5, <1>6 DEF IngestInv, IngestTypeOK, Points, Rows, Days
<1> QED BY <1>3, <1>4, <1>7 DEF CoreInv

LEMMA EndsEarlyKeeps ==
  ASSUME IngestInv, NEW r \in Runs, EndsEarly(r) PROVE CoreInv'
<1>1. /\ Ends(r, "raised") /\ faults < MaxFaults /\ faults' = faults + 1
      /\ source' = source /\ table' = table /\ profile' = profile
      /\ IF writer = r THEN writer' = NoRun /\ draft' = NoRows ELSE UNCHANGED <<writer, draft>>
  BY DEF EndsEarly
<1>2. faults' \in 0..MaxFaults BY <1>1, IngestBounds DEF IngestInv, IngestTypeOK
<1>3. CASE writer = r BY <1>1, <1>2, <1>3, ClosingKeeps DEF IngestInv, IngestTypeOK
<1>4. CASE writer # r
  <2>1. pc[r] # "commit" BY <1>4 DEF IngestInv, DraftIsOutcome
  <2> QED BY <1>1, <1>2, <1>4, <2>1, EndingKeeps DEF storeVars
<1> QED BY <1>3, <1>4

LEMMA BeginKeeps ==
  ASSUME IngestInv, NEW r \in Runs, IngestBegin(r) PROVE CoreInv'
<1>1. PICK policies \in Profiles : profile' = [profile EXCEPT ![r] = policies]
  BY DEF IngestBegin
<1>2. /\ pc[r] \in {"idle", "done", "raised"} /\ Goto(r, "window")
      /\ source' = source /\ UNCHANGED storeVars /\ faults' = faults
      /\ window' = window /\ attempt' = attempt /\ read' = read /\ warned' = warned
      /\ dropped' = dropped
  BY DEF IngestBegin, locals
<1>3. profile \in [Runs -> Profiles] /\ pc \in [Runs -> Points]
  BY DEF IngestInv, IngestTypeOK, Points
<1>4. /\ profile' \in [Runs -> Profiles]
      /\ \A q \in Runs \ {r} : profile'[q] = profile[q]
  BY <1>1, <1>3
<1>5. /\ pc' \in [Runs -> Points]
      /\ \A q \in Runs : pc'[q] = IF q = r THEN "window" ELSE pc[q]
  BY <1>2, <1>3 DEF Goto, Points
<1>6. DraftIsOutcome' BY <1>2, <1>4, StoreAlone DEF Points
<1>7. Accounted'
  <2> SUFFICES ASSUME NEW q \in Runs
      PROVE  /\ (\A w \in Days : w < window[q] => read[q][w] # Unread \/ w \in warned[q])'
             /\ (pc[q] = "fetch" => window[q] <= profile[q].last)'
             /\ (pc[q] \in {"commit", "report"} => window[q] > profile[q].last)'
    BY DEF Accounted
  <2>1. CASE q = r BY <2>1, <1>2, <1>5 DEF IngestInv, Accounted
  <2>2. CASE q # r BY <2>2, <1>2, <1>4, <1>5 DEF IngestInv, Accounted
  <2> QED BY <2>1, <2>2
<1>8. IngestTypeOK'
  BY <1>2, <1>4, <1>5 DEF IngestInv, IngestTypeOK, Points, storeVars, Rows, Days
<1> QED BY <1>6, <1>7, <1>8 DEF CoreInv

LEMMA SourceKeeps ==
  ASSUME IngestInv, SourceChanges \/ SourceDrops PROVE CoreInv'
<1>1. /\ table' = table /\ writer' = writer /\ draft' = draft
      /\ profile' = profile /\ pc' = pc /\ window' = window /\ attempt' = attempt
      /\ read' = read /\ warned' = warned /\ dropped' = dropped
  BY DEF SourceChanges, SourceDrops, storeVars, runVars, locals
<1>2. faults' \in 0..MaxFaults
  BY IngestBounds DEF IngestInv, IngestTypeOK, SourceChanges, SourceDrops
<1>3. source' \in Rows
  <2>1. source \in Rows BY DEF IngestInv, IngestTypeOK
  <2>2. CASE SourceChanges
    <3>1. PICK w \in Days : source[w] < Versions /\ source' = [source EXCEPT ![w] = @ + 1]
      BY <2>2 DEF SourceChanges
    <3>2. source[w] + 1 \in 0..Versions BY <2>1, <3>1, IngestBounds DEF Rows
    <3> QED BY <2>1, <3>1, <3>2 DEF Rows
  <2>3. CASE SourceDrops BY <2>1, <2>3, IngestBounds DEF SourceDrops, Rows
  <2> QED BY <2>2, <2>3
<1>4. IngestTypeOK' BY <1>1, <1>2, <1>3 DEF IngestInv, IngestTypeOK, Rows, Days
<1>5. Accounted' BY <1>1 DEF IngestInv, Accounted
<1>6. DraftIsOutcome' BY <1>1 DEF IngestInv, DraftIsOutcome, Outcome, Batch, HasRecord
<1> QED BY <1>4, <1>5, <1>6 DEF CoreInv

\* A step of one run leaves the locals of the others alone.
LEMMA RunsAreApart ==
  ASSUME IngestInv, NEW r \in Runs, IngestBegin(r) \/ Proceed(r) \/ EndsEarly(r),
         NEW q \in Runs, q # r
  PROVE  /\ pc'[q] = pc[q] /\ window'[q] = window[q] /\ attempt'[q] = attempt[q]
         /\ read'[q] = read[q] /\ warned'[q] = warned[q] /\ dropped'[q] = dropped[q]
         /\ profile'[q] = profile[q]
<1>1. /\ pc \in [Runs -> Points] /\ window \in [Runs -> Nat \ {0}] /\ attempt \in [Runs -> Nat]
      /\ read \in Reads /\ warned \in [Runs -> SUBSET Days] /\ dropped \in [Runs -> SUBSET Days]
      /\ profile \in [Runs -> Profiles]
  BY DEF IngestInv, IngestTypeOK, Points, Reads
<1>2. ASSUME NEW how, Ends(r, how)
      PROVE  /\ pc'[q] = pc[q] /\ window'[q] = window[q] /\ attempt'[q] = attempt[q]
             /\ read'[q] = read[q] /\ warned'[q] = warned[q] /\ dropped'[q] = dropped[q]
  BY <1>1, <1>2 DEF Ends, Goto, Reads
<1>3. ASSUME NextWindow(r)
      PROVE  /\ pc'[q] = pc[q] /\ window'[q] = window[q] /\ attempt'[q] = attempt[q]
             /\ dropped'[q] = dropped[q]
  BY <1>1, <1>3 DEF NextWindow, Goto
<1>4. ASSUME WindowFails(r) PROVE NextWindow(r) /\ read' = read /\ warned'[q] = warned[q]
  BY <1>1, <1>4 DEF WindowFails
<1>5. CASE IngestBegin(r)
  BY <1>1, <1>5 DEF IngestBegin, Goto, locals
<1>6. CASE EndsEarly(r)
  BY <1>2, <1>6 DEF EndsEarly
<1>7. CASE Proceed(r)
  <2>1. profile' = profile BY <1>7 DEF Proceed
  <2>2. CASE Acquire(r) \/ Persist(r) BY <1>1, <2>1, <2>2 DEF Acquire, Persist, Goto, locals
  <2>3. CASE AcquireRaises(r) \/ NoAttempt(r) \/ Unusable(r)
    BY <1>3, <1>4, <2>1, <2>3 DEF AcquireRaises, NoAttempt, Unusable
  <2>4. CASE Fetched(r)
    <3>1. NextWindow(r) /\ warned' = warned /\ read'[q] = read[q]
      BY <1>1, <2>4 DEF Fetched, Reads
    <3> QED BY <1>3, <2>1, <3>1
  <2>5. CASE FetchRaises(r)
    <3>1. CASE WindowFails(r) BY <1>3, <1>4, <2>1, <3>1
    <3>2. CASE ~WindowFails(r) BY <1>1, <2>1, <2>5, <3>2 DEF FetchRaises
    <3> QED BY <3>1, <3>2
  <2>6. CASE Invalid(r)
    <3>1. NextWindow(r) /\ warned'[q] = warned[q] /\ read'[q] = read[q]
      BY <1>1, <2>6 DEF Invalid, Reads
    <3> QED BY <1>3, <2>1, <3>1
  <2>7. CASE PersistBusy(r) \/ Report(r) BY <1>2, <2>1, <2>7 DEF PersistBusy, Report
  <2>8. CASE NothingToWrite(r) \/ Commit(r)
    BY <1>1, <2>1, <2>8 DEF NothingToWrite, Commit, Goto, locals
  <2> QED BY <1>7, <2>2, <2>3, <2>4, <2>5, <2>6, <2>7, <2>8 DEF Proceed
<1> QED BY <1>5, <1>6, <1>7

\* A batch removes what its run found gone, warned about or was not asked for.
LEMMA CommitExcuses ==
  ASSUME IngestInv, NEW r \in Runs, Commit(r), NEW w \in Days, table[w] > 0, draft[w] = 0
  PROVE  profile[r].method = "replace" /\ Excused(r, w)
<1>1. pc[r] = "commit" /\ draft = Outcome(r, table)
  BY IngestNames DEF Commit, At, IngestInv, DraftIsOutcome
<1>2. ~HasRecord(r, w) BY <1>1 DEF Outcome, Batch, HasRecord
<1>3. profile[r].method = "replace" BY <1>1, <1>2 DEF Outcome, Batch
<1>4. window[r] > profile[r].last BY <1>1 DEF IngestInv, Accounted
<1>5. read[r][w] \in {Unread} \cup 0..Versions BY DEF IngestInv, IngestTypeOK
<1>6. CASE read[r][w] = Unread
  <2>1. w < window[r] => w \in warned[r] BY <1>6 DEF IngestInv, Accounted
  <2>2. window[r] \in Nat /\ profile[r].last \in Nat /\ w \in Nat
    BY PolicyFacts, IngestBounds DEF IngestInv, IngestTypeOK, Days
  <2> QED BY <1>3, <1>4, <2>1, <2>2 DEF Excused
<1>7. CASE read[r][w] \in 0..Versions
  BY <1>2, <1>3, <1>7, IngestBounds DEF HasRecord, Excused
<1> QED BY <1>5, <1>6, <1>7

\* LossesExcused, of one run.
ExcusedOf(r) == (dropped[r] # {} => pc[r] = "report") /\ \A w \in dropped[r] : Excused(r, w)

\* A run can account for what its commit removed until it is over.
LEMMA LossesKept ==
  ASSUME IngestInv, NEW r \in Runs, IngestBegin(r) \/ Proceed(r) \/ EndsEarly(r)
  PROVE  LossesExcused'
<1> SUFFICES ASSUME NEW q \in Runs PROVE ExcusedOf(q)' BY DEF LossesExcused, ExcusedOf
<1>1. ExcusedOf(q) BY DEF IngestInv, LossesExcused, ExcusedOf
<1>2. dropped \in [Runs -> SUBSET Days] /\ pc \in [Runs -> Points]
  BY DEF IngestInv, IngestTypeOK, Points
<1>3. CASE q # r BY <1>1, <1>3, RunsAreApart DEF ExcusedOf, Excused
<1>4. ASSUME dropped'[r] = {} PROVE ExcusedOf(r)' BY <1>4 DEF ExcusedOf
<1>5. ASSUME NEW how, Ends(r, how) PROVE ExcusedOf(r)' BY <1>2, <1>4, <1>5 DEF Ends
<1>6. ASSUME dropped' = dropped, pc[r] # "report" PROVE ExcusedOf(r)'
  BY <1>4, <1>6 DEF IngestInv, LossesExcused
<1>7. CASE q = r /\ IngestBegin(r) BY <1>6, <1>7 DEF IngestBegin, locals
<1>8. CASE q = r /\ EndsEarly(r) BY <1>5, <1>8 DEF EndsEarly
<1>9. CASE q = r /\ Proceed(r)
  <2>1. CASE Commit(r)
    <3>1. /\ dropped'[r] = {w \in Days : table[w] > 0 /\ draft[w] = 0} /\ pc'[r] = "report"
          /\ read' = read /\ warned' = warned /\ profile' = profile
      BY <1>2, <1>9, <2>1 DEF Commit, Goto, Proceed
    <3>2. \A w \in dropped'[r] : Excused(r, w)' BY <2>1, <3>1, CommitExcuses DEF Excused
    <3> QED BY <1>9, <3>1, <3>2 DEF ExcusedOf
  <2>2. CASE Acquire(r) \/ Persist(r) \/ NothingToWrite(r)
    BY <1>6, <1>9, <2>2 DEF Acquire, Persist, NothingToWrite, Persisting, At, locals
  <2>3. CASE AcquireRaises(r) \/ NoAttempt(r) \/ Unusable(r)
    BY <1>6, <1>9, <2>3 DEF AcquireRaises, NoAttempt, Unusable, At, WindowFails, NextWindow
  <2>4. CASE Fetched(r) \/ Invalid(r)
    BY <1>6, <1>9, <2>4 DEF Fetched, Invalid, At, NextWindow
  <2>5. CASE FetchRaises(r)
    BY <1>6, <1>9, <2>5 DEF FetchRaises, At, WindowFails, NextWindow
  <2>6. CASE PersistBusy(r) \/ Report(r) BY <1>5, <1>9, <2>6 DEF PersistBusy, Report
  <2> QED BY <1>9, <2>1, <2>2, <2>3, <2>4, <2>5, <2>6 DEF Proceed
<1> QED BY <1>3, <1>7, <1>8, <1>9

LEMMA IngestStarts == IngestInit => IngestInv
<1> SUFFICES ASSUME IngestInit PROVE IngestInv OBVIOUS
<1> USE IngestBounds
<1>1. NoRows \in Rows BY DEF NoRows, Rows
<1>2. IngestTypeOK
  <2>1. read \in [Runs -> [Days -> {Unread} \cup 0..Versions]] BY DEF IngestInit
  <2>2. window \in [Runs -> Nat \ {0}] /\ attempt \in [Runs -> Nat] BY DEF IngestInit
  <2>3. warned \in [Runs -> SUBSET Days] /\ dropped \in [Runs -> SUBSET Days] BY DEF IngestInit
  <2>4. faults \in 0..MaxFaults BY DEF IngestInit
  <2>5. /\ source \in Rows /\ table \in Rows /\ draft \in Rows /\ writer \in Runs \cup {NoRun}
        /\ profile \in [Runs -> Profiles]
    BY <1>1 DEF IngestInit
  <2>6. pc \in [Runs -> {"idle", "window", "fetch", "commit", "report", "done", "raised"}] BY DEF IngestInit
  <2> QED BY <2>1, <2>2, <2>3, <2>4, <2>5, <2>6 DEF IngestTypeOK
<1>3. Accounted
  <2>1. \A r \in Runs : window[r] = 1 /\ pc[r] = "idle" BY DEF IngestInit
  <2>2. \A w \in Days : ~(w < 1) BY DEF Days
  <2> QED BY <2>1, <2>2 DEF Accounted
<1>4. LossesExcused BY DEF IngestInit, LossesExcused
<1>5. DraftIsOutcome BY IngestNames DEF IngestInit, DraftIsOutcome
<1> QED BY <1>2, <1>3, <1>4, <1>5 DEF IngestInv

LEMMA IngestStep == IngestInv /\ [IngestNext]_ingestVars => IngestInv'
<1> SUFFICES ASSUME IngestInv, [IngestNext]_ingestVars PROVE IngestInv' OBVIOUS
<1>1. CoreInv' /\ LossesExcused' => IngestInv' BY DEF CoreInv, IngestInv
<1>2. ASSUME NEW r \in Runs, IngestBegin(r) PROVE IngestInv' BY <1>1, <1>2, BeginKeeps, LossesKept
<1>3. ASSUME NEW r \in Runs, Proceed(r) PROVE CoreInv'
  <2>1. profile' = profile BY <1>3 DEF Proceed
  <2>2. CASE Acquire(r) BY <2>1, <2>2, AcquireKeeps
  <2>3. CASE AcquireRaises(r) BY <2>1, <2>3, AcquireRaisesKeeps
  <2>4. CASE NoAttempt(r) BY <2>1, <2>4, NoAttemptKeeps
  <2>5. CASE Fetched(r) BY <2>1, <2>5, FetchedKeeps
  <2>6. CASE Unusable(r) BY <2>1, <2>6, UnusableKeeps
  <2>7. CASE Invalid(r) BY <2>1, <2>7, InvalidKeeps
  <2>8. CASE FetchRaises(r) BY <2>1, <2>8, FetchRaisesKeeps
  <2>9. CASE Persist(r) BY <2>1, <2>9, PersistKeeps
  <2>10. CASE PersistBusy(r) \/ Report(r) BY <2>1, <2>10, EndingsKeep
  <2>11. CASE NothingToWrite(r) BY <2>1, <2>11, NothingToWriteKeeps
  <2>12. CASE Commit(r) BY <2>1, <2>12, CommitKeeps
  <2> QED BY <1>3, <2>2, <2>3, <2>4, <2>5, <2>6, <2>7, <2>8, <2>9, <2>10, <2>11, <2>12 DEF Proceed
<1>4. ASSUME NEW r \in Runs, Proceed(r) PROVE IngestInv' BY <1>1, <1>3, <1>4, LossesKept
<1>5. ASSUME NEW r \in Runs, EndsEarly(r) PROVE IngestInv'
  BY <1>1, <1>5, EndsEarlyKeeps, LossesKept
<1>6. CASE SourceChanges \/ SourceDrops
  <2>1. pc' = pc /\ read' = read /\ warned' = warned /\ dropped' = dropped /\ profile' = profile
    BY <1>6 DEF SourceChanges, SourceDrops, runVars, locals
  <2>2. LossesExcused' BY <2>1 DEF IngestInv, LossesExcused, Excused
  <2> QED BY <1>1, <1>6, <2>2, SourceKeeps
<1>7. CASE UNCHANGED ingestVars
  <2>1. /\ source' = source /\ table' = table /\ writer' = writer /\ draft' = draft
        /\ profile' = profile /\ pc' = pc /\ window' = window /\ attempt' = attempt
        /\ read' = read /\ warned' = warned /\ dropped' = dropped /\ faults' = faults
    BY <1>7 DEF ingestVars, storeVars, runVars, locals
  <2>2. IngestTypeOK' BY <2>1 DEF IngestInv, IngestTypeOK, Rows, Days
  <2>3. Accounted' BY <2>1 DEF IngestInv, Accounted
  <2>4. DraftIsOutcome' BY <2>1 DEF IngestInv, DraftIsOutcome, Outcome, Batch, HasRecord
  <2>5. LossesExcused' BY <2>1 DEF IngestInv, LossesExcused, Excused
  <2> QED BY <2>2, <2>3, <2>4, <2>5 DEF IngestInv
<1> QED BY <1>2, <1>4, <1>5, <1>6, <1>7 DEF IngestNext

\* Every window passed is accounted for, and the open transaction holds what its
\* run would leave of the committed table.
THEOREM IngestInvariance == IngestSpec => []IngestInv
<1> QED BY IngestStarts, IngestStep, PTL DEF IngestSpec

\* The table is written by a commit only.
LEMMA OnlyCommitWrites ==
  ASSUME IngestInv, [IngestNext]_ingestVars, table' # table
  PROVE  \E r \in Runs : Commit(r) /\ table' = Outcome(r, table)
<1>1. ASSUME NEW r \in Runs, Proceed(r) PROVE Commit(r)
  BY <1>1 DEF Proceed, Acquire, AcquireRaises, NoAttempt, Fetched, Unusable, Invalid,
              FetchRaises, Report, Persist, PersistBusy, NothingToWrite, storeVars
<1>2. \A r \in Runs : ~IngestBegin(r) /\ ~EndsEarly(r)
  BY DEF IngestBegin, EndsEarly, storeVars
<1>3. ~SourceChanges /\ ~SourceDrops /\ ~UNCHANGED ingestVars
  BY DEF SourceChanges, SourceDrops, ingestVars, storeVars
<1>4. PICK r \in Runs : Commit(r) BY <1>1, <1>2, <1>3 DEF IngestNext
<1>5. table' = Outcome(r, table)
  BY <1>4, IngestNames DEF Commit, IngestInv, DraftIsOutcome
<1> QED BY <1>4, <1>5

\* A reader of the store sees whole batches, of one run after another.
THEOREM BatchesAreWhole == IngestSpec => WholeBatches
<1>1. IngestInv /\ [IngestNext]_ingestVars =>
        [table' # table => \E r \in Runs : Commit(r) /\ table' = Outcome(r, table)]_ingestVars
  BY OnlyCommitWrites
<1> QED BY <1>1, IngestInvariance, PTL DEF IngestSpec, WholeBatches

\* Only the commit of a full replacement drops a record, and no run returns a report
\* that does not account for what its own commit dropped.
THEOREM LossIsReported == IngestSpec => ReportNamesLosses
<1> DEFINE Named ==
      /\ \A w \in Days : table[w] > 0 /\ table'[w] = 0 =>
           \E r \in Runs : Commit(r) /\ profile[r].method = "replace" /\ w \in dropped'[r]
      /\ \A r \in Runs : Report(r) => \A w \in dropped[r] : Excused(r, w)
<1>1. ASSUME IngestInv, [IngestNext]_ingestVars PROVE Named
  <2>1. ASSUME NEW w \in Days, table[w] > 0, table'[w] = 0
        PROVE  \E r \in Runs : /\ Commit(r) /\ profile[r].method = "replace"
                               /\ w \in dropped'[r]
    <3>1. table' # table BY <2>1
    <3>2. PICK r \in Runs : Commit(r) BY <1>1, <3>1, OnlyCommitWrites
    <3>3. draft[w] = 0 /\ dropped'[r] = {v \in Days : table[v] > 0 /\ draft[v] = 0}
      BY <1>1, <2>1, <3>2 DEF Commit, IngestInv, IngestTypeOK
    <3> QED BY <1>1, <2>1, <3>2, <3>3, CommitExcuses
  <2>2. \A r \in Runs : Report(r) => \A w \in dropped[r] : Excused(r, w)
    BY <1>1 DEF IngestInv, LossesExcused
  <2> QED BY <2>1, <2>2
<1>2. IngestInv /\ [IngestNext]_ingestVars => [Named]_ingestVars BY <1>1
<1> QED BY <1>2, IngestInvariance, PTL DEF IngestSpec, ReportNamesLosses

(***************************************************************************)
(* Progress: every window is settled, and a run has an end.                 *)
(***************************************************************************)
\* ProgressInv, of one run.
OnceOf(r) ==
  /\ \A w \in Days : read[r][w] # Unread \/ w \in warned[r] <=> w < window[r]
  /\ attempt[r] > 0 => pc[r] = "fetch" /\ attempt[r] < profile[r].retries
  /\ Running(r) => window[r] <= profile[r].last + 1
  /\ ~Running(r) => window[r] = 1

LEMMA ProgressOfAll == ProgressInv <=> \A r \in Runs : OnceOf(r)
BY DEF ProgressInv, EachWindowSettled, WithinWindows, OnceOf

\* The locals of one run.
LEMMA OwnTypes ==
  ASSUME IngestInv, NEW r \in Runs
  PROVE  /\ pc[r] \in Points /\ window[r] \in Nat \ {0} /\ attempt[r] \in Nat
         /\ warned[r] \subseteq Days /\ read[r] \in [Days -> {Unread} \cup 0..Versions]
         /\ profile[r].last \in Nat /\ profile[r].retries \in Nat
<1>1. profile[r] \in Policies BY IngestNames DEF IngestInv, IngestTypeOK
<1>2. profile[r].last \in Nat /\ profile[r].retries \in Nat BY <1>1, IngestBounds DEF Policies
<1> QED BY <1>2 DEF IngestInv, IngestTypeOK, Points

\* A run that passes a window has settled it, and has one window less.
LEMMA PassingSettles ==
  ASSUME IngestInv, NEW r \in Runs, OnceOf(r), pc[r] \in {"window", "fetch"},
         window[r] <= profile[r].last, NextWindow(r), UNCHANGED profile,
         \A v \in Days \ {window[r]} : read'[r][v] = read[r][v],
         \A v \in Days \ {window[r]} : v \in warned'[r] <=> v \in warned[r],
         read'[r][window[r]] # Unread \/ window[r] \in warned'[r]
  PROVE  OnceOf(r)' /\ LessIsLeft(r)
<1>1. /\ pc[r] \in Points /\ window[r] \in Nat \ {0} /\ attempt[r] \in Nat
      /\ profile[r].last \in Nat /\ profile[r].retries \in Nat
  BY OwnTypes
<1>2. window[r] \in Days BY WindowIsDay
<1>3. pc'[r] = "window" /\ window'[r] = window[r] + 1 /\ attempt'[r] = 0
  BY DEF NextWindow, Goto, IngestInv, IngestTypeOK
<1>4. \A w \in Days : ~(window[r] < window[r]) /\ w \in Nat
  BY <1>1, IngestBounds DEF Days
<1>5. ASSUME NEW w \in Days
      PROVE  read'[r][w] # Unread \/ w \in warned'[r] <=> w < window'[r]
  <2>1. w < window'[r] <=> w < window[r] \/ w = window[r] BY <1>1, <1>3, <1>4
  <2>2. read[r][w] # Unread \/ w \in warned[r] <=> w < window[r] BY DEF OnceOf
  <2>3. CASE w = window[r] BY <2>1, <2>3
  <2>4. CASE w # window[r]
    <3>1. read'[r][w] = read[r][w] /\ (w \in warned'[r] <=> w \in warned[r]) BY <2>4
    <3> QED BY <2>1, <2>2, <2>4, <3>1
  <2> QED BY <2>3, <2>4
<1>6. OnceOf(r)' BY <1>1, <1>3, <1>5 DEF OnceOf, Running
<1>7. WindowsLeft(r)' \in Nat /\ WindowsLeft(r)' < WindowsLeft(r)
  BY <1>1, <1>3 DEF WindowsLeft
<1>8. AttemptsLeft(r)' \in Nat BY <1>1, <1>3 DEF AttemptsLeft
<1> QED BY <1>6, <1>7, <1>8 DEF LessIsLeft

\* A call that is over has nothing settled.
LEMMA EndingSettles ==
  ASSUME IngestInv, NEW r \in Runs, NEW how \in {"done", "raised"}, Ends(r, how)
  PROVE  OnceOf(r)' /\ LessIsLeft(r)
<1>1. pc'[r] = how /\ window'[r] = 1 /\ attempt'[r] = 0 /\ warned'[r] = {}
  BY DEF Ends, Goto, IngestInv, IngestTypeOK
<1>2. \A w \in Days : read'[r][w] = Unread BY DEF Ends, IngestInv, IngestTypeOK
<1>3. \A w \in Days : ~(w < 1) BY IngestBounds DEF Days
<1> QED BY <1>1, <1>2, <1>3 DEF OnceOf, LessIsLeft, Running

\* Steps of a run that stay in its window.
LEMMA StayingSettles ==
  ASSUME IngestInv, NEW r \in Runs, OnceOf(r), UNCHANGED profile,
         Acquire(r) \/ Persist(r) \/ NothingToWrite(r) \/ Commit(r)
  PROVE  OnceOf(r)' /\ LessIsLeft(r)
<1>1. /\ Goto(r, IF Acquire(r) THEN "fetch" ELSE IF Persist(r) THEN "commit" ELSE "report")
      /\ window' = window /\ attempt' = attempt /\ read' = read /\ warned' = warned
  BY DEF Acquire, Persist, NothingToWrite, Commit, Persisting, At, Goto, locals
<1>2. \/ pc[r] = "window" /\ pc'[r] \in {"fetch", "commit", "report"}
      \/ pc[r] = "commit" /\ pc'[r] = "report"
  BY DEF Acquire, Persist, NothingToWrite, Commit, Persisting, At, Goto, IngestInv, IngestTypeOK
<1>3. window[r] \in Nat \ {0} /\ profile[r].last \in Nat /\ profile[r].retries \in Nat
  BY OwnTypes
<1>4. attempt[r] = 0 /\ window[r] <= profile[r].last + 1
  BY <1>2, OwnTypes DEF OnceOf, Running
<1>5. OnceOf(r)' BY <1>1, <1>2, <1>4 DEF OnceOf, Running
<1>6. WindowsLeft(r)' = WindowsLeft(r) /\ WindowsLeft(r)' \in Nat
  BY <1>1, <1>3, <1>4 DEF WindowsLeft
<1>7. /\ AttemptsLeft(r)' \in Nat /\ AttemptsLeft(r)' < AttemptsLeft(r)
      /\ AttemptsLeft(r)' <= AttemptsLeft(r)
  BY <1>1, <1>2, <1>3, <1>4 DEF AttemptsLeft
<1> QED BY <1>5, <1>6, <1>7 DEF LessIsLeft

\* A failed attempt that is not the last one.
LEMMA RetryingSettles ==
  ASSUME IngestInv, NEW r \in Runs, OnceOf(r), FetchRaises(r), UNCHANGED profile,
         attempt[r] + 1 # profile[r].retries
  PROVE  OnceOf(r)' /\ LessIsLeft(r)
<1>1. /\ pc[r] = "fetch" /\ attempt[r] < profile[r].retries
      /\ attempt' = [attempt EXCEPT ![r] = @ + 1]
      /\ pc' = pc /\ window' = window /\ read' = read /\ warned' = warned
  BY DEF FetchRaises, At
<1>2. /\ window[r] \in Nat \ {0} /\ attempt[r] \in Nat
      /\ profile[r].last \in Nat /\ profile[r].retries \in Nat
  BY OwnTypes
<1>3. attempt'[r] = attempt[r] + 1 BY <1>1 DEF IngestInv, IngestTypeOK
<1>4. window[r] <= profile[r].last + 1 BY <1>1 DEF OnceOf, Running
<1>5. OnceOf(r)' BY <1>1, <1>2, <1>3, <1>4 DEF OnceOf, Running
<1>6. WindowsLeft(r)' = WindowsLeft(r) /\ WindowsLeft(r)' \in Nat
  BY <1>1, <1>2, <1>4 DEF WindowsLeft
<1>7. /\ AttemptsLeft(r)' \in Nat /\ AttemptsLeft(r)' < AttemptsLeft(r)
      /\ AttemptsLeft(r)' <= AttemptsLeft(r)
  BY <1>1, <1>2, <1>3 DEF AttemptsLeft
<1> QED BY <1>5, <1>6, <1>7 DEF LessIsLeft

\* A run whose locals, point and policies stay as they are.
LEMMA IdleSettles ==
  ASSUME IngestInv, NEW r \in Runs, OnceOf(r), ~Proceed(r),
         pc'[r] = pc[r] /\ window'[r] = window[r] /\ attempt'[r] = attempt[r],
         read'[r] = read[r] /\ warned'[r] = warned[r] /\ profile'[r] = profile[r]
  PROVE  OnceOf(r)' /\ LessIsLeft(r)
<1>1. OnceOf(r)' BY DEF OnceOf, Running
<1>2. /\ window[r] \in Nat \ {0} /\ attempt[r] \in Nat
      /\ profile[r].last \in Nat /\ profile[r].retries \in Nat
  BY OwnTypes
<1>3. WindowsLeft(r)' = WindowsLeft(r) /\ (Running(r) => WindowsLeft(r) \in Nat)
  BY <1>2 DEF WindowsLeft, OnceOf
<1>4. AttemptsLeft(r)' = AttemptsLeft(r) /\ AttemptsLeft(r) \in Nat
  BY <1>2 DEF AttemptsLeft, OnceOf
<1> QED BY <1>1, <1>3, <1>4 DEF LessIsLeft

\* Every step of a run that proceeds.
LEMMA ProceedSettles ==
  ASSUME IngestInv, NEW r \in Runs, OnceOf(r), Proceed(r)
  PROVE  OnceOf(r)' /\ LessIsLeft(r)
<1>1. UNCHANGED profile BY DEF Proceed
<1>2. ASSUME WindowFails(r), pc[r] \in {"window", "fetch"}, window[r] <= profile[r].last
      PROVE  OnceOf(r)' /\ LessIsLeft(r)
  <2>1. /\ NextWindow(r) /\ read' = read
        /\ warned' = [warned EXCEPT ![r] = @ \cup {window[r]}]
    BY <1>2 DEF WindowFails
  <2>2. warned'[r] = warned[r] \cup {window[r]} BY <2>1 DEF IngestInv, IngestTypeOK
  <2> QED BY <1>1, <1>2, <2>1, <2>2, PassingSettles
<1>3. pc[r] = "fetch" => window[r] <= profile[r].last BY DEF IngestInv, Accounted
<1>4. CASE Acquire(r) \/ Persist(r) \/ NothingToWrite(r) \/ Commit(r)
  BY <1>1, <1>4, StayingSettles
<1>5. CASE AcquireRaises(r) BY <1>2, <1>5 DEF AcquireRaises, At
<1>6. CASE NoAttempt(r) \/ Unusable(r) BY <1>2, <1>3, <1>6 DEF NoAttempt, Unusable, At
<1>7. CASE Fetched(r) \/ Invalid(r)
  <2>1. pc[r] = "fetch" /\ NextWindow(r) BY <1>7 DEF Fetched, Invalid, At
  <2>2. window[r] \in Days BY <1>3, <2>1, WindowIsDay
  <2>3. read \in Reads /\ warned \in [Runs -> SUBSET Days] BY DEF IngestInv, IngestTypeOK, Reads
  <2>4. CASE Fetched(r)
    <3>1. warned' = warned /\ read' = [read EXCEPT ![r][window[r]] = source[window[r]]]
      BY <2>4 DEF Fetched
    <3>2. source[window[r]] # Unread
      BY <2>2, IngestBounds DEF IngestInv, IngestTypeOK, Rows, Unread
    <3>3. \A w \in Days : read'[r][w] = IF w = window[r] THEN source[w] ELSE read[r][w]
      BY <2>2, <2>3, <3>1 DEF Reads
    <3> QED BY <1>1, <1>3, <2>1, <2>2, <3>1, <3>2, <3>3, PassingSettles
  <2>5. CASE Invalid(r)
    <3>1. warned'[r] = warned[r] \cup {window[r]} BY <2>3, <2>5 DEF Invalid
    <3>2. \A w \in Days \ {window[r]} : read'[r][w] = read[r][w]
      BY <2>2, <2>3, <2>5 DEF Invalid, Reads
    <3> QED BY <1>1, <1>3, <2>1, <3>1, <3>2, PassingSettles
  <2> QED BY <1>7, <2>4, <2>5
<1>8. CASE FetchRaises(r)
  <2>1. CASE attempt[r] + 1 = profile[r].retries
    BY <1>2, <1>3, <1>8, <2>1 DEF FetchRaises, At
  <2>2. CASE attempt[r] + 1 # profile[r].retries BY <1>1, <1>8, <2>2, RetryingSettles
  <2> QED BY <2>1, <2>2
<1>9. CASE PersistBusy(r) \/ Report(r)
  BY <1>9, EndingSettles DEF PersistBusy, Report
<1> QED BY <1>4, <1>5, <1>6, <1>7, <1>8, <1>9 DEF Proceed

LEMMA BeginSettles ==
  ASSUME IngestInv, NEW r \in Runs, OnceOf(r), IngestBegin(r)
  PROVE  OnceOf(r)' /\ LessIsLeft(r)
<1>1. /\ pc[r] \in {"idle", "done", "raised"} /\ pc' = [pc EXCEPT ![r] = "window"]
      /\ window' = window /\ attempt' = attempt /\ read' = read /\ warned' = warned
  BY DEF IngestBegin, Goto, locals
<1>2. pc'[r] = "window" BY <1>1 DEF IngestInv, IngestTypeOK
<1>3. ~Running(r) BY <1>1 DEF Running
<1>4. window[r] = 1 /\ attempt[r] = 0 BY <1>1, <1>3, OwnTypes DEF OnceOf
<1>5. profile'[r].last \in Nat
  <2>1. profile' \in [Runs -> Profiles] BY DEF IngestBegin, IngestInv, IngestTypeOK
  <2> QED BY <2>1, IngestNames, IngestBounds DEF Policies
<1>6. OnceOf(r)' BY <1>1, <1>2, <1>4, <1>5 DEF OnceOf, Running
<1> QED BY <1>3, <1>6 DEF LessIsLeft

LEMMA ProgressStep ==
  IngestInv /\ ProgressInv /\ [IngestNext]_ingestVars => ProgressInv' /\ [GetsOn]_ingestVars
<1> SUFFICES ASSUME IngestInv, ProgressInv, [IngestNext]_ingestVars
             PROVE  \A q \in Runs : OnceOf(q)' /\ (LessIsLeft(q) \/ UNCHANGED ingestVars)
  <2>1. (\A q \in Runs : OnceOf(q)') => ProgressInv'
    BY DEF ProgressInv, EachWindowSettled, WithinWindows, OnceOf
  <2> QED BY <2>1 DEF GetsOn
<1> SUFFICES ASSUME NEW q \in Runs
             PROVE  OnceOf(q)' /\ (LessIsLeft(q) \/ UNCHANGED ingestVars)
  OBVIOUS
<1>1. OnceOf(q) BY ProgressOfAll
<1>2. ASSUME NEW r \in Runs, IngestBegin(r) \/ Proceed(r) \/ EndsEarly(r)
      PROVE  OnceOf(q)' /\ LessIsLeft(q)
  <2>1. CASE Proceed(q) BY <1>1, <2>1, ProceedSettles
  <2>2. CASE r = q /\ IngestBegin(r) BY <1>1, <2>2, BeginSettles
  <2>3. CASE r = q /\ EndsEarly(r) BY <2>3, EndingSettles DEF EndsEarly
  <2>4. CASE r # q /\ ~Proceed(q) BY <1>1, <1>2, <2>4, RunsAreApart, IdleSettles
  <2> QED BY <1>2, <2>1, <2>2, <2>3, <2>4
<1>3. ASSUME SourceChanges \/ SourceDrops \/ UNCHANGED ingestVars
      PROVE  OnceOf(q)' /\ (LessIsLeft(q) \/ UNCHANGED ingestVars)
  <2>1. /\ pc' = pc /\ window' = window /\ attempt' = attempt
        /\ read' = read /\ warned' = warned /\ profile' = profile
    BY <1>3 DEF SourceChanges, SourceDrops, ingestVars, runVars, locals
  <2>2. CASE Proceed(q) BY <1>1, <2>2, ProceedSettles
  <2>3. CASE ~Proceed(q) BY <1>1, <2>1, <2>3, IdleSettles
  <2> QED BY <2>2, <2>3
<1> QED BY <1>2, <1>3 DEF IngestNext

LEMMA ProgressStarts == IngestInit => ProgressInv
<1>1. \A w \in Days : ~(w < 1) BY IngestBounds DEF Days
<1> QED BY <1>1 DEF IngestInit, ProgressInv, EachWindowSettled, WithinWindows, Running, Unread

\* A window is read or warned about (or both, when some of its records have no id) as
\* soon as the run has passed it and never before, within the attempts of the policy.
THEOREM WindowsSettle == IngestSpec => []EachWindowSettled
<1>1. ProgressInv => EachWindowSettled BY DEF ProgressInv
<1> QED BY <1>1, ProgressStarts, ProgressStep, IngestInvariance, PTL DEF IngestSpec

\* However its attempts fail and whatever runs beside it, a run is over after at
\* most (last + 1) * (retries + 3) steps.
THEOREM RunsAreBounded == IngestSpec => RunIsBounded
<1> QED BY ProgressStarts, ProgressStep, IngestInvariance, PTL DEF IngestSpec, RunIsBounded
=============================================================================
