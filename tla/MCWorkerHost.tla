---------------------------- MODULE MCWorkerHost ----------------------------
(***************************************************************************)
(* Instances of WorkerHost for TLC: the planners, both ways to end, with   *)
(* and without limits on failures and iterations.                          *)
(***************************************************************************)
EXTENDS WorkerHost

Workers ==
  [planner : {"sequence", "resume", "poll"}, exhausted : {"stop", "idle"},
   limit : {0, 2}, bound : {0, 2}]
=============================================================================
