---------------------------- MODULE MCIngestRun ----------------------------
(***************************************************************************)
(* Instance of IngestRun for TLC: two runs at once, of a full replacement  *)
(* or an upsert over all windows, or with policies under which no window   *)
(* succeeds.                                                               *)
(***************************************************************************)
EXTENDS IngestRun

CONSTANTS r1, r2

Policy(method, retries, last, burst) ==
  [method |-> method, retries |-> retries, last |-> last, burst |-> burst]

Usual ==
  {Policy("replace", 2, 2, TRUE), Policy("upsert", 1, 2, TRUE),
   Policy("replace", 0, 1, TRUE), Policy("upsert", 1, 1, FALSE)}
=============================================================================
