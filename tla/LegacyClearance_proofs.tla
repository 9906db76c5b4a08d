----------------------- MODULE LegacyClearance_proofs -----------------------
(***************************************************************************)
(* Theorems about LegacyClearance, for any operations, files and number of *)
(* crashes.                                                                *)
(***************************************************************************)
EXTENDS LegacyClearance, TLAPS

\* What a completed operation's quarantine keeps when pid.json goes or changes
\* to a file that is not in that quarantine.
LEMMA RetiredKept ==
  ASSUME LegacyInv, NEW o \in Ops, Retired(o),
         quarantine' = quarantine, pidFile' # quarantine[o],
         content'[quarantine[o]] = content[quarantine[o]]
  PROVE  Retired(o)'
BY DEF Retired, Links

\* The steps of a call that touch no file.
LEMMA QuietStep ==
  ASSUME LegacyInv, UNCHANGED <<pidFile, content, quarantine>>,
         LegacyTypeOK', CallInv',
         \A o \in Ops : intent[o] # "none" => intent'[o] # "none",
         \A o \in Ops : complete'[o] # "none" => complete[o] # "none" \/ (intent[o] # "none" /\ Retired(o))
  PROVE  LegacyInv'
<1>1. FilesExist' /\ EvidenceKept' /\ OneOperationPerTombstone'
  BY DEF LegacyInv, FilesExist, EvidenceKept, OneOperationPerTombstone
<1>2. CompletionIsTrue'
  BY DEF LegacyInv, CompletionIsTrue, Retired, Links
<1> QED BY <1>1, <1>2 DEF LegacyInv

LEMMA BeginStep ==
  ASSUME LegacyInv, NEW o \in Ops, Begin(o)
  PROVE  LegacyInv'
<1>1. LegacyTypeOK'
  BY DEF Begin, LegacyInv, LegacyTypeOK, audit
<1>2. CallInv'
  BY DEF Begin, CallInv, Working
<1> QED BY <1>1, <1>2, QuietStep DEF Begin, audit

LEMMA ReadStep ==
  ASSUME LegacyInv, ReadIntent \/ ReadCompletion
  PROVE  LegacyInv'
<1> USE DEF Goto, LegacyInv, LegacyTypeOK, CallInv, Working
<1>1. CASE ReadIntent
  <2>1. LegacyTypeOK'
    BY <1>1 DEF ReadIntent
  <2>2. CallInv'
    BY <1>1 DEF ReadIntent
  <2> QED BY <1>1, <2>1, <2>2, QuietStep DEF ReadIntent
<1>2. CASE ReadCompletion
  <2>1. LegacyTypeOK'
    BY <1>2 DEF ReadCompletion
  <2>2. CallInv'
    BY <1>2 DEF ReadCompletion
  <2> QED BY <1>2, <2>1, <2>2, QuietStep DEF ReadCompletion
<1> QED BY <1>1, <1>2

LEMMA OpenStep ==
  ASSUME LegacyInv, OpenAbsent \/ OpenPresent \/ Verify
  PROVE  LegacyInv'
<1>1. /\ UNCHANGED <<pidFile, content, quarantine, intent, complete, existing, op, faults>>
      /\ opened' = opened \/ (opened' = pidFile /\ pidFile # NoFile)
      /\ pc' \in {"idle", "verify", "complete", "link", "publish"}
  BY DEF OpenAbsent, OpenPresent, Verify, Goto, audit
<1>2. LegacyTypeOK'
  BY <1>1 DEF LegacyInv, LegacyTypeOK
<1>3. CASE OpenAbsent
  <2>1. CallInv'
    BY <1>3 DEF OpenAbsent, Goto, audit, LegacyInv, CallInv, Working, Retired, Links
  <2> QED BY <1>1, <1>2, <2>1, QuietStep
<1>4. CASE OpenPresent
  <2>1. pc' # "idle" => pidFile # NoFile /\ opened' = pidFile /\ content[pidFile] = Digest[op]
                        /\ Links(pidFile) \subseteq {op}
                        /\ (existing => pc' = "link") /\ (~existing => pc' = "publish")
    BY <1>4 DEF OpenPresent, Goto, MayRetire
  <2>2. ~existing => quarantine[op] = NoFile
    BY <1>4, <1>1 DEF OpenPresent, LegacyInv, LegacyTypeOK, CallInv, EvidenceKept
  <2>3. Links(pidFile)' = Links(pidFile)
    BY <1>1 DEF Links
  <2>4. pc' \in {"idle", "link", "publish"} /\ pc = "open"
    BY <1>4 DEF OpenPresent, Goto
  <2>5. CallInv'
    BY <1>1, <2>1, <2>2, <2>3, <2>4 DEF LegacyInv, CallInv, Working, Links
  <2> QED BY <1>1, <1>2, <2>5, QuietStep
<1>5. CASE Verify
  <2>1. CallInv'
    <3>1. /\ pc = "verify" /\ opened' = opened
          /\ pc' \in {"idle", "complete"} /\ (pc' = "complete" => Retired(op))
      BY <1>5 DEF Verify, Goto
    <3>2. Retired(op) => existing \/ pc' # "complete"
      BY <1>5, <3>1 DEF Verify, LegacyInv, CallInv
    <3>3. Retired(op)' = Retired(op)
      BY <1>1 DEF Retired, Links
    <3> QED BY <1>1, <3>1, <3>2, <3>3 DEF LegacyInv, CallInv, Working
  <2> QED BY <1>1, <1>2, <2>1, QuietStep
<1> QED BY <1>3, <1>4, <1>5

\* Records that are published, or turn from linked to published.
LEMMA PublishStep ==
  ASSUME LegacyInv,
         PublishIntent \/ IntentPublished \/ PublishCompletion \/ CompletionPublished
  PROVE  LegacyInv'
<1> USE DEF Goto
<1>1. CASE PublishIntent
  <2>1. LegacyTypeOK'
    BY <1>1 DEF PublishIntent, LegacyInv, LegacyTypeOK
  <2>2. CallInv'
    BY <1>1 DEF PublishIntent, LegacyInv, LegacyTypeOK, CallInv, Working, Links
  <2> QED BY <1>1, <2>1, <2>2, QuietStep DEF PublishIntent, LegacyInv, LegacyTypeOK
<1>2. CASE IntentPublished
  <2>1. LegacyTypeOK'
    BY <1>2 DEF IntentPublished, LegacyInv, LegacyTypeOK
  <2>2. CallInv'
    BY <1>2 DEF IntentPublished, LegacyInv, LegacyTypeOK, CallInv, Working, Links
  <2> QED BY <1>2, <2>1, <2>2, QuietStep DEF IntentPublished, LegacyInv, LegacyTypeOK
<1>3. CASE PublishCompletion
  <2>1. LegacyTypeOK'
    BY <1>3 DEF PublishCompletion, LegacyInv, LegacyTypeOK
  <2>2. CallInv'
    BY <1>3 DEF PublishCompletion, LegacyInv, LegacyTypeOK, CallInv, Working, Retired, Links
  <2>3. Retired(op) /\ intent[op] # "none"
    BY <1>3 DEF PublishCompletion, LegacyInv, CallInv
  <2> QED BY <1>3, <2>1, <2>2, <2>3, QuietStep DEF PublishCompletion, LegacyInv, LegacyTypeOK
<1>4. CASE CompletionPublished
  <2>1. LegacyTypeOK'
    BY <1>4 DEF CompletionPublished, LegacyInv, LegacyTypeOK
  <2>2. CallInv'
    BY <1>4 DEF CompletionPublished, LegacyInv, LegacyTypeOK, CallInv, Working
  <2>3. Retired(op) /\ intent[op] # "none"
    BY <1>4 DEF CompletionPublished, LegacyInv, CallInv
  <2> QED BY <1>4, <2>1, <2>2, <2>3, QuietStep DEF CompletionPublished, LegacyInv, LegacyTypeOK
<1> QED BY <1>1, <1>2, <1>3, <1>4

\* The link: nobody else's quarantine names the file.
LEMMA LinkStep ==
  ASSUME LegacyInv, Link
  PROVE  LegacyInv'
<1>0. /\ pc = "link" /\ existing /\ intent[op] = "published" /\ op \in Ops
      /\ pidFile = opened /\ opened # NoFile /\ content[opened] = Digest[op]
      /\ Links(opened) \subseteq {op} /\ opened \in Inodes
  BY DEF Link, LegacyInv, LegacyTypeOK, CallInv, Working
<1>1. /\ UNCHANGED <<pidFile, content, intent, complete, existing, opened, op, faults>>
      /\ pc' \in {"retire", "idle"} /\ (pc' = "retire" => quarantine'[op] = opened)
  BY DEF Link, Goto, audit
<1>2. CASE quarantine[op] # NoFile
  <2>1. quarantine' = quarantine
    BY <1>2 DEF Link
  <2>2. LegacyTypeOK'
    BY <1>1, <2>1 DEF LegacyInv, LegacyTypeOK
  <2>3. CallInv'
    BY <1>0, <1>1, <2>1 DEF LegacyInv, CallInv, Working, Links
  <2> QED BY <1>1, <2>1, <2>2, <2>3, QuietStep
<1>3. CASE quarantine[op] = NoFile
  <2>1. quarantine' = [quarantine EXCEPT ![op] = opened]
    BY <1>0, <1>3 DEF Link
  <2>2. LegacyTypeOK'
    BY <1>0, <1>1, <2>1 DEF LegacyInv, LegacyTypeOK
  <2>3. \A o \in Ops \ {op} : quarantine'[o] = quarantine[o] /\ quarantine[o] # opened
    BY <1>0, <2>1 DEF Links, LegacyInv, LegacyTypeOK
  <2>4. quarantine'[op] = opened
    BY <1>0, <2>1 DEF LegacyInv, LegacyTypeOK
  <2>5. OneOperationPerTombstone'
    BY <2>3, <2>4 DEF LegacyInv, OneOperationPerTombstone
  <2>6. FilesExist' /\ EvidenceKept'
    BY <1>0, <1>1, <2>3, <2>4 DEF LegacyInv, FilesExist, EvidenceKept
  <2>7. complete[op] = "none"
    BY <1>0, <1>3 DEF LegacyInv, CompletionIsTrue, Retired
  <2>8. CompletionIsTrue'
    <3> SUFFICES ASSUME NEW o \in Ops, complete'[o] # "none"
                 PROVE  intent'[o] # "none" /\ Retired(o)'
      BY DEF CompletionIsTrue
    <3>1. o # op /\ intent[o] # "none" /\ Retired(o)
      BY <1>1, <2>7 DEF LegacyInv, CompletionIsTrue
    <3>2. Links(quarantine[o])' = Links(quarantine[o])
      BY <3>1, <2>3, <2>4, <1>3 DEF Links, Retired
    <3> QED BY <3>1, <3>2, <2>3, <1>1 DEF Retired, Links
  <2>9. Links(opened)' \subseteq {op}
    BY <1>1, <2>3 DEF Links
  <2>10. CallInv'
    BY <1>0, <1>1, <2>4, <2>9 DEF CallInv, Working, Links
  <2> QED BY <2>2, <2>5, <2>6, <2>8, <2>10 DEF LegacyInv
<1> QED BY <1>2, <1>3

\* The unlink leaves what is retired where it is.
LEMMA RetireStep ==
  ASSUME LegacyInv, Retire
  PROVE  LegacyInv'
<1>0. /\ pc = "retire" /\ existing /\ intent[op] = "published" /\ op \in Ops
      /\ pidFile = opened /\ pidFile' = NoFile
  BY DEF Retire, LegacyInv, LegacyTypeOK, CallInv, Working
<1>1. /\ UNCHANGED <<content, quarantine, intent, complete, existing, opened, op, faults>>
      /\ pc' = "verify"
  BY <1>0 DEF Retire, Goto, audit
<1>2. LegacyTypeOK'
  BY <1>0, <1>1 DEF LegacyInv, LegacyTypeOK
<1>3. FilesExist' /\ EvidenceKept' /\ OneOperationPerTombstone'
  BY <1>0, <1>1 DEF LegacyInv, FilesExist, EvidenceKept, OneOperationPerTombstone
<1>4. CompletionIsTrue'
  BY <1>0, <1>1 DEF LegacyInv, CompletionIsTrue, Retired, Links
<1>5. Retired(op)'
  <2>1. quarantine[op] = opened /\ opened \in Inodes /\ content[opened] = Digest[op]
    BY <1>0 DEF LegacyInv, LegacyTypeOK, CallInv, Working
  <2>2. Links(opened) = {op}
    BY <1>0, <2>1, FileNames DEF LegacyInv, OneOperationPerTombstone, Links
  <2> QED BY <1>0, <1>1, <2>1, <2>2, FileNames DEF Retired, Links
<1>6. CallInv'
  BY <1>0, <1>1, <1>5 DEF CallInv, Working
<1> QED BY <1>2, <1>3, <1>4, <1>6 DEF LegacyInv

LEMMA CrashStep ==
  ASSUME LegacyInv, Crash
  PROVE  LegacyInv'
<1>0. /\ UNCHANGED <<pidFile, content, quarantine, intent, complete, op, existing, opened>>
      /\ pc' = "idle" /\ faults < MaxFaults /\ faults' = faults + 1
  BY DEF Crash, audit, call
<1>2. faults \in 0..MaxFaults
  BY DEF LegacyInv, LegacyTypeOK
<1>3. faults' \in 0..MaxFaults
  BY <1>0, <1>2, FileNames
<1>4. LegacyTypeOK'
  BY <1>0, <1>3 DEF LegacyInv, LegacyTypeOK
<1>5. CallInv'
  BY DEF Crash, CallInv, Working
<1> QED BY <1>4, <1>5, QuietStep DEF Crash, audit

\* A new file is in nobody's quarantine.
LEMMA CreateStep ==
  ASSUME LegacyInv, NEW kind \in Legacy \cup {"launch"}, Create(kind),
         pidFile = NoFile \/ pc = "idle"
  PROVE  LegacyInv'
<1>1. PICK i \in Inodes : /\ content[i] = "free"
                          /\ content' = [content EXCEPT ![i] = kind] /\ pidFile' = i
                          /\ UNCHANGED <<quarantine, audit, pc, call, faults>>
  BY DEF Create
<1>2. kind # "free"
  BY DEF Legacy
<1>3. \A o \in Ops : quarantine[o] # NoFile => quarantine[o] # i /\ quarantine[o] \in Inodes
  BY <1>1 DEF LegacyInv, LegacyTypeOK, FilesExist
<1>4. \A j \in Inodes \ {i} : content'[j] = content[j]
  BY <1>1 DEF LegacyInv, LegacyTypeOK
<1>5. content'[i] = kind
  BY <1>1 DEF LegacyInv, LegacyTypeOK
<1>6. LegacyTypeOK'
  BY <1>1 DEF LegacyInv, LegacyTypeOK, audit, call
<1>7. FilesExist' /\ EvidenceKept' /\ OneOperationPerTombstone'
  BY <1>1, <1>2, <1>3, <1>4, <1>5
     DEF LegacyInv, FilesExist, EvidenceKept, OneOperationPerTombstone, audit
<1>8. \A o \in Ops : Retired(o) => Retired(o)'
  BY <1>1, <1>3, <1>4 DEF Retired, Links
<1>9. CompletionIsTrue'
  BY <1>1, <1>8 DEF LegacyInv, CompletionIsTrue, audit
<1>10. pc \notin Working
  BY DEF LegacyInv, CallInv, Working
<1>11. CallInv'
  BY <1>1, <1>8, <1>10 DEF LegacyInv, LegacyTypeOK, CallInv, Working, audit, call
<1> QED BY <1>6, <1>7, <1>9, <1>11 DEF LegacyInv

LEMMA AroundStep ==
  ASSUME LegacyInv, Around
  PROVE  LegacyInv'
<1>1. CASE Spawn
  BY <1>1, CreateStep DEF Spawn
<1>2. CASE StopRewrites
  BY <1>2, CreateStep DEF StopRewrites, Legacy
<1>3. CASE ClearLaunch
  <2>1. /\ UNCHANGED <<content, quarantine, intent, complete, pc, op, existing, opened, faults>>
        /\ pidFile' = NoFile /\ pc = "idle"
    BY <1>3 DEF ClearLaunch, audit, call
  <2>2. LegacyTypeOK'
    BY <2>1 DEF LegacyInv, LegacyTypeOK
  <2>3. FilesExist' /\ EvidenceKept' /\ OneOperationPerTombstone'
    BY <2>1 DEF LegacyInv, FilesExist, EvidenceKept, OneOperationPerTombstone
  <2>4. CompletionIsTrue'
    BY <2>1 DEF LegacyInv, CompletionIsTrue, Retired, Links
  <2>5. CallInv'
    BY <2>1 DEF CallInv, Working
  <2> QED BY <2>2, <2>3, <2>4, <2>5 DEF LegacyInv
<1> QED BY <1>1, <1>2, <1>3 DEF Around

LEMMA LegacyStep == LegacyInv /\ [LegacyNext]_legacyVars => LegacyInv'
<1> SUFFICES ASSUME LegacyInv, [LegacyNext]_legacyVars PROVE LegacyInv'
  OBVIOUS
<1>1. CASE \E o \in Ops : Begin(o)
  BY <1>1, BeginStep
<1>2. CASE Clearance
  BY <1>2, ReadStep, OpenStep, PublishStep, LinkStep, RetireStep DEF Clearance
<1>3. CASE Crash
  BY <1>3, CrashStep
<1>4. CASE Around
  BY <1>4, AroundStep
<1>5. CASE UNCHANGED legacyVars
  <2>1. UNCHANGED <<pidFile, content, quarantine, intent, complete, pc, op, existing, opened, faults>>
    BY <1>5 DEF legacyVars, audit, call
  <2>2. LegacyTypeOK' /\ CallInv'
    BY <2>1 DEF LegacyInv, LegacyTypeOK, CallInv, Working, Retired, Links
  <2> QED BY <2>1, <2>2, QuietStep
<1> QED BY <1>1, <1>2, <1>3, <1>4, <1>5 DEF LegacyNext

\* The clearance's invariant: what a quarantine names has an intent and the bytes
\* the operator named, and a call past its checks still finds what it checked.
THEOREM LegacyInvariance == LegacySpec => []LegacyInv
<1>1. LegacyInit => LegacyInv
  <2> SUFFICES ASSUME LegacyInit PROVE LegacyInv
    OBVIOUS
  <2>1. LegacyTypeOK
    <3>1. content \in [Inodes -> Legacy \cup {"free", "launch"}]
      BY DEF LegacyInit, Legacy
    <3>2. faults \in 0..MaxFaults
      BY FileNames DEF LegacyInit
    <3> QED BY <3>1, <3>2 DEF LegacyInit, LegacyTypeOK
  <2>2. FilesExist
    BY DEF LegacyInit, FilesExist
  <2>3. EvidenceKept /\ CompletionIsTrue /\ OneOperationPerTombstone
    BY DEF LegacyInit, EvidenceKept, CompletionIsTrue, OneOperationPerTombstone
  <2>4. CallInv
    BY DEF LegacyInit, CallInv, Working
  <2> QED BY <2>1, <2>2, <2>3, <2>4 DEF LegacyInv
<1> QED BY <1>1, LegacyStep, PTL DEF LegacySpec

\* pid.json is retired only with its intent published and its bytes kept.
THEOREM RetirementHasEvidence == LegacySpec => RetiredWithEvidence
<1> DEFINE Kept == pc # "idle" /\ pidFile # NoFile /\ pidFile' = NoFile
                     => /\ content[pidFile] = Digest[op]
                        /\ intent[op] = "published" /\ quarantine[op] = pidFile
<1>1. LegacyInv /\ [LegacyNext]_legacyVars => [Kept]_legacyVars
  <2> SUFFICES ASSUME LegacyInv, [LegacyNext]_legacyVars, pc # "idle", pidFile # NoFile,
                      pidFile' = NoFile
               PROVE  /\ content[pidFile] = Digest[op]
                      /\ intent[op] = "published" /\ quarantine[op] = pidFile
    OBVIOUS
  <2>1. CASE Retire
    BY <2>1 DEF Retire, LegacyInv, CallInv, Working
  <2>2. CASE ~Retire /\ pidFile' = pidFile
    BY <2>2
  <2>3. Retire \/ pidFile' = pidFile
    BY DEF LegacyNext, Begin, Clearance, ReadIntent, ReadCompletion, OpenAbsent, OpenPresent,
           PublishIntent, IntentPublished, Link, Verify, PublishCompletion,
           CompletionPublished, Crash, Around, Spawn, StopRewrites, ClearLaunch, legacyVars
  <2> QED BY <2>1, <2>2, <2>3
<1> QED BY <1>1, LegacyInvariance, PTL DEF LegacySpec, RetiredWithEvidence

\* A completion record is true, also after a crash right behind it.
THEOREM CompletionTrue == LegacySpec => []CompletionIsTrue
<1>1. LegacyInv => CompletionIsTrue
  BY DEF LegacyInv
<1> QED BY <1>1, LegacyInvariance, PTL

\* Two operations never share a retired tombstone.
THEOREM NoSharedTombstone == LegacySpec => []OneOperationPerTombstone
<1>1. LegacyInv => OneOperationPerTombstone
  BY DEF LegacyInv
<1> QED BY <1>1, LegacyInvariance, PTL

\* A call whose link is there is refused by no check until its completion is
\* published, unless pid.json has become another file.
THEOREM RepeatGetsOn == LegacySpec => RepeatIsNotRefused
<1> DEFINE GoesOn == pc # "idle" /\ quarantine[op] # NoFile /\ complete[op] = "none"
                       /\ pidFile \in {NoFile, quarantine[op]} /\ faults' = faults
                       => pc' # "idle"
<1>1. LegacyInv /\ [LegacyNext]_legacyVars => [GoesOn]_legacyVars
  <2> SUFFICES ASSUME LegacyInv, LegacyNext, pc # "idle", quarantine[op] # NoFile,
                      complete[op] = "none", pidFile \in {NoFile, quarantine[op]},
                      faults' = faults
               PROVE  pc' # "idle"
    OBVIOUS
  <2>1. op \in Ops /\ Links(quarantine[op]) = {op} /\ content[quarantine[op]] = Digest[op]
        /\ intent[op] # "none"
    BY DEF LegacyInv, LegacyTypeOK, EvidenceKept, OneOperationPerTombstone, Links
  <2>2. pc = "open" => existing
    BY <2>1 DEF LegacyInv, CallInv
  <2>3. CASE OpenAbsent
    BY <2>1, <2>2, <2>3 DEF OpenAbsent, Goto, Retired
  <2>4. CASE OpenPresent
    BY <2>1, <2>2, <2>4 DEF OpenPresent, Goto, MayRetire
  <2>5. CASE Link
    BY <2>5 DEF Link, Goto, LegacyInv, CallInv, Working
  <2>6. CASE Retire
    BY <2>6 DEF Retire, Goto, LegacyInv, CallInv, Working
  <2>7. CASE Verify
    BY <2>7 DEF Verify, Goto, LegacyInv, CallInv
  <2>8. CASE CompletionPublished
    BY <2>1, <2>8 DEF CompletionPublished, LegacyInv, CallInv
  <2>9. CASE ReadIntent \/ ReadCompletion \/ PublishIntent \/ IntentPublished \/ PublishCompletion
    BY <2>9 DEF ReadIntent, ReadCompletion, PublishIntent, IntentPublished, PublishCompletion, Goto
  <2>10. CASE Around
    BY <2>10 DEF Around, Spawn, StopRewrites, ClearLaunch, Create
  <2>11. ~Crash
    <3>1. faults \in 0..MaxFaults
      BY DEF LegacyInv, LegacyTypeOK
    <3>2. faults \in Int
      BY <3>1, FileNames
    <3> QED BY <3>2 DEF Crash
  <2>12. \A o \in Ops : ~Begin(o)
    BY DEF Begin
  <2> QED BY <2>3, <2>4, <2>5, <2>6, <2>7, <2>8, <2>9, <2>10, <2>11, <2>12 DEF LegacyNext, Clearance
<1> QED BY <1>1, LegacyInvariance, PTL DEF LegacySpec, RepeatIsNotRefused
=============================================================================
