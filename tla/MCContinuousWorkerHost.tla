----------------------- MODULE MCContinuousWorkerHost -----------------------
(***************************************************************************)
(* Instances of ContinuousWorkerHost for TLC: without limits, and with     *)
(* small ones, zero counted steps included.                                *)
(***************************************************************************)
EXTENDS ContinuousWorkerHost

Hosts == [rotation : {NoLimit, 1, 2}, most : {NoLimit, 0, 2}, maps : BOOLEAN]
=============================================================================
