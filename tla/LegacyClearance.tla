-------------------------- MODULE LegacyClearance --------------------------
(***************************************************************************)
(* clear_legacy_process_tombstone: a tokenless pid.json is moved to a      *)
(* quarantine in recoverable steps (an intent record, a hard link, the     *)
(* unlink, a completion record), each of which the next call for the same  *)
(* operation resumes after a crash.                                        *)
(*                                                                         *)
(* An operation is a request: operator, ticket, generation and digest.     *)
(* Files are inodes.  Digests are reduced to "legacy", the record as found *)
(* by the migration, and "stopped", the same record as stop rewrites it.   *)
(* A record is published by linking a temporary file and unlinking it, so  *)
(* it is "linked" in between.  One call at a time is past the unit lock    *)
(* (and _LEGACY_CLEARANCE_THREAD_LOCK); the reconciler stops and clears    *)
(* under it, spawn is called with or without.  A direct stop, without the  *)
(* lock, is left out, as are ownership, modes and renamed directories.     *)
(***************************************************************************)
EXTENDS FiniteSets, Integers

CONSTANTS
  Ops,         \* operations
  Digest,      \* Digest[op]: the expected_sha256 of op
  Inodes,      \* bound on the files that come to be
  NoFile,
  MaxFaults    \* bound on crashes and exceptions

Legacy == {"legacy", "stopped"}

ASSUME OpDigests == Digest \in [Ops -> Legacy]
ASSUME FileNames == NoFile \notin Inodes /\ MaxFaults \in Nat

VARIABLES
  pidFile,      \* the inode pid.json names
  content,      \* what each inode holds; "free": not a file yet
  quarantine,   \* the inode each operation's quarantine names
  intent, complete,   \* the audit records of each operation
  pc, op,       \* the call past the unit lock, and its operation
  existing,     \* its existing_intent
  opened,       \* the inode it opened as pid.json
  faults

audit == <<intent, complete>>
call == <<op, existing, opened>>
legacyVars == <<pidFile, content, quarantine, audit, pc, call, faults>>

LegacyInit ==
  /\ pidFile \in Inodes
  /\ content = [i \in Inodes |-> IF i = pidFile THEN "legacy" ELSE "free"]
  /\ quarantine = [o \in Ops |-> NoFile]
  /\ intent = [o \in Ops |-> "none"] /\ complete = [o \in Ops |-> "none"]
  /\ pc = "idle" /\ op \in Ops /\ existing = FALSE /\ opened = NoFile
  /\ faults = 0

Goto(point) == pc' = point /\ UNCHANGED <<op, faults>>

\* The operations whose quarantine is a link to the inode i.
Links(i) == {o \in Ops : quarantine[o] = i}

\* A private file with one link and the bytes the operation names.
Retired(o) ==
  /\ quarantine[o] # NoFile /\ quarantine[o] # pidFile /\ Links(quarantine[o]) = {o}
  /\ content[quarantine[o]] = Digest[o]

(***************************************************************************)
(* A call, once it has the lock.  A check that fails raises.               *)
(***************************************************************************)
Begin(o) ==
  /\ pc = "idle"
  /\ pc' = "intent" /\ op' = o /\ existing' = FALSE /\ opened' = NoFile
  /\ UNCHANGED <<pidFile, content, quarantine, audit, faults>>

\* The intent is looked up, and a half-published one finished.
ReadIntent ==
  /\ pc = "intent"
  /\ existing' = (intent[op] # "none")
  /\ intent' = IF existing' THEN [intent EXCEPT ![op] = "published"] ELSE intent
  /\ Goto("completion")
  /\ UNCHANGED <<pidFile, content, quarantine, complete, opened>>

\* A completion answers the call, or makes it raise.
ReadCompletion ==
  /\ pc = "completion"
  /\ complete' = IF complete[op] = "none" THEN complete
                 ELSE [complete EXCEPT ![op] = "published"]
  /\ Goto(IF complete[op] = "none" THEN "open" ELSE "idle")
  /\ UNCHANGED <<pidFile, content, quarantine, intent, existing, opened>>

\* Variant: without pid.json the intent alone is believed.
OpenAbsentTrusts ==
  /\ pc = "open" /\ pidFile = NoFile
  /\ Goto(IF existing THEN "complete" ELSE "idle")
  /\ UNCHANGED <<pidFile, content, quarantine, audit, existing, opened>>

\* Without pid.json there is only a retirement to finish.
OpenAbsent ==
  /\ pc = "open" /\ pidFile = NoFile
  /\ Goto(IF existing /\ Retired(op) THEN "verify" ELSE "idle")
  /\ UNCHANGED <<pidFile, content, quarantine, audit, existing, opened>>

\* Variant: a second link is never accepted.
MayRetireSingleLink == content[pidFile] = Digest[op] /\ Links(pidFile) = {}

\* Variant: with an intent any second link will do.
MayRetireShared ==
  /\ content[pidFile] = Digest[op]
  /\ Links(pidFile) = {} \/ (existing /\ Cardinality(Links(pidFile)) = 1)

\* Variant: whatever pid.json holds.
MayRetireUnmatched == Links(pidFile) = {} \/ (existing /\ Links(pidFile) = {op})

\* The digest matches; a second link is the operation's own, left by a crash.
MayRetire ==
  /\ content[pidFile] = Digest[op]
  /\ Links(pidFile) = {} \/ (existing /\ Links(pidFile) = {op})

OpenPresent ==
  /\ pc = "open" /\ pidFile # NoFile
  /\ opened' = pidFile
  /\ Goto(IF ~MayRetire THEN "idle" ELSE IF existing THEN "link" ELSE "publish")
  /\ UNCHANGED <<pidFile, content, quarantine, audit, existing>>

\* _atomic_private_json: the record is linked, then its temporary name unlinked.
PublishIntent ==
  /\ pc = "publish"
  /\ intent' = [intent EXCEPT ![op] = "linked"]
  /\ Goto("unlink intent")
  /\ UNCHANGED <<pidFile, content, quarantine, complete, existing, opened>>

IntentPublished ==
  /\ pc = "unlink intent"
  /\ intent' = [intent EXCEPT ![op] = "published"] /\ existing' = TRUE
  /\ Goto("link")
  /\ UNCHANGED <<pidFile, content, quarantine, complete, opened>>

\* os.link, which never replaces: another file under the name is a collision.
Link ==
  /\ pc = "link"
  /\ quarantine' = IF quarantine[op] = NoFile THEN [quarantine EXCEPT ![op] = pidFile]
                   ELSE quarantine
  /\ Goto(IF quarantine'[op] = opened THEN "retire" ELSE "idle")
  /\ UNCHANGED <<pidFile, content, audit, existing, opened>>

\* The last check, and the unlink.
Retire ==
  /\ pc = "retire"
  /\ pidFile' = IF pidFile = opened THEN NoFile ELSE pidFile
  /\ Goto(IF pidFile = opened THEN "verify" ELSE "idle")
  /\ UNCHANGED <<content, quarantine, audit, existing, opened>>

Verify ==
  /\ pc = "verify"
  /\ Goto(IF Retired(op) THEN "complete" ELSE "idle")
  /\ UNCHANGED <<pidFile, content, quarantine, audit, existing, opened>>

PublishCompletion ==
  /\ pc = "complete"
  /\ complete' = [complete EXCEPT ![op] = "linked"]
  /\ Goto("unlink completion")
  /\ UNCHANGED <<pidFile, content, quarantine, intent, existing, opened>>

\* The call returns, or raises if pid.json is there again.
CompletionPublished ==
  /\ pc = "unlink completion"
  /\ complete' = [complete EXCEPT ![op] = "published"]
  /\ Goto("idle")
  /\ UNCHANGED <<pidFile, content, quarantine, intent, existing, opened>>

\* The process is killed, or something raises; the lock is free again.
Crash ==
  /\ pc # "idle" /\ faults < MaxFaults
  /\ faults' = faults + 1
  /\ pc' = "idle"
  /\ UNCHANGED <<pidFile, content, quarantine, audit, call>>

(***************************************************************************)
(* Around a clearance.                                                     *)
(***************************************************************************)
\* A new file, under the name pid.json.
Create(kind) ==
  \E i \in Inodes :
    /\ content[i] = "free"
    /\ content' = [content EXCEPT ![i] = kind]
    /\ pidFile' = i
    /\ UNCHANGED <<quarantine, audit, pc, call, faults>>

\* spawn, by whoever: O_EXCL.
Spawn == pidFile = NoFile /\ Create("launch")

\* stop of a reconcile pass replaces the record by a new file.
StopRewrites ==
  /\ pc = "idle" /\ pidFile # NoFile
  /\ Create(IF content[pidFile] = "launch" THEN "launch" ELSE "stopped")

\* clear_process_tombstone, of a launch.
ClearLaunch ==
  /\ pc = "idle" /\ pidFile # NoFile /\ content[pidFile] = "launch"
  /\ pidFile' = NoFile
  /\ UNCHANGED <<content, quarantine, audit, pc, call, faults>>

(***************************************************************************)
(* The specification.  A call that has the lock goes on, and the operators *)
(* repeat their requests, each of which gets the lock again and again.     *)
(***************************************************************************)
Clearance ==
  \/ ReadIntent \/ ReadCompletion \/ OpenAbsent \/ OpenPresent \/ PublishIntent
  \/ IntentPublished \/ Link \/ Retire \/ Verify \/ PublishCompletion
  \/ CompletionPublished

Around == Spawn \/ StopRewrites \/ ClearLaunch

LegacyNext == (\E o \in Ops : Begin(o)) \/ Clearance \/ Crash \/ Around

LegacySpec == LegacyInit /\ [][LegacyNext]_legacyVars

FairLegacySpec ==
  LegacySpec /\ WF_legacyVars(Clearance) /\ \A o \in Ops : SF_legacyVars(Begin(o))

(***************************************************************************)
(* Properties.                                                             *)
(***************************************************************************)
\* Types of the clearance state.
LegacyTypeOK ==
  /\ pidFile \in Inodes \cup {NoFile} /\ opened \in Inodes \cup {NoFile}
  /\ content \in [Inodes -> Legacy \cup {"free", "launch"}]
  /\ quarantine \in [Ops -> Inodes \cup {NoFile}]
  /\ intent \in [Ops -> {"none", "linked", "published"}]
  /\ complete \in [Ops -> {"none", "linked", "published"}]
  /\ pc \in {"idle", "intent", "completion", "open", "publish", "unlink intent", "link",
             "retire", "verify", "complete", "unlink completion"}
  /\ op \in Ops /\ existing \in BOOLEAN /\ faults \in 0..MaxFaults

\* A clearance removes pid.json only when its bytes are the ones the operator
\* named, the intent is published and the quarantine keeps the file: never a
\* launch, nor a record that changed.
RetiredWithEvidence ==
  [][pc # "idle" /\ pidFile # NoFile /\ pidFile' = NoFile
       => /\ content[pidFile] = Digest[op]
          /\ intent[op] = "published" /\ quarantine[op] = pidFile]_legacyVars

\* A completion record, however the call ended, stands for a quarantine with the
\* operation's bytes that pid.json no longer shares.
CompletionIsTrue == \A o \in Ops : complete[o] # "none" => intent[o] # "none" /\ Retired(o)

\* No tombstone is retired in the name of two operations, not even by one that
\* found the half-finished work of another.
OneOperationPerTombstone ==
  \A o, p \in Ops : quarantine[o] # NoFile /\ quarantine[o] = quarantine[p] => o = p

\* A clearance that crashed anywhere after its link gets completed by repeating
\* the call, unless a launch or a stop has put another pid.json in place, and an
\* audit record that a crash left with two links is repaired, not refused for ever.
ClearanceFinishes ==
  \A o \in Ops :
    /\ quarantine[o] # NoFile
         ~> (complete[o] # "none" \/ (pidFile # NoFile /\ pidFile # quarantine[o]))
    /\ intent[o] = "linked" ~> intent[o] = "published"
    /\ complete[o] = "linked" ~> complete[o] = "published"

\* What makes a repeated call get on: once the link is there, and as long as
\* pid.json is the linked file or gone, no check of the operation's call refuses;
\* only a crash ends it before its completion is published.
RepeatIsNotRefused ==
  [][pc # "idle" /\ quarantine[op] # NoFile /\ complete[op] = "none"
       /\ pidFile \in {NoFile, quarantine[op]} /\ faults' = faults
       => pc' # "idle"]_legacyVars

(***************************************************************************)
(* The inductive invariant.                                                *)
(***************************************************************************)
FilesExist ==
  /\ pidFile # NoFile => content[pidFile] # "free"
  /\ \A o \in Ops : quarantine[o] # NoFile => content[quarantine[o]] # "free"
EvidenceKept ==
  \A o \in Ops : quarantine[o] # NoFile =>
    intent[o] # "none" /\ content[quarantine[o]] = Digest[o]
Working == {"link", "retire", "publish", "unlink intent"}
CallInv ==
  /\ existing /\ pc \notin {"idle", "intent"} => intent[op] = "published"
  /\ pc \in {"link", "retire", "verify"} => existing
  /\ pc = "publish" => ~existing /\ quarantine[op] = NoFile
  /\ pc = "unlink intent" => quarantine[op] = NoFile
  /\ pc \in Working =>
       /\ pidFile = opened /\ opened # NoFile /\ content[opened] = Digest[op]
       /\ Links(opened) \subseteq {op}
  /\ pc = "completion" /\ ~existing => intent[op] = "none"
  /\ pc = "open" /\ ~existing => intent[op] = "none"
  /\ pc = "retire" => quarantine[op] = opened
  /\ pc \in {"verify", "complete", "unlink completion"} => existing /\ Retired(op)
  /\ pc = "unlink completion" => complete[op] # "none"

LegacyInv ==
  /\ LegacyTypeOK /\ FilesExist /\ EvidenceKept /\ CallInv
  /\ CompletionIsTrue /\ OneOperationPerTombstone
=============================================================================
