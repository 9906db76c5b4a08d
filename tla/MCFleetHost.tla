---------------------------- MODULE MCFleetHost ----------------------------
(***************************************************************************)
(* Instance of FleetHost for TLC: three supervisors, p1 and p2 on the      *)
(* same host.                                                              *)
(***************************************************************************)
EXTENDS FleetHost, TLC

CONSTANTS p1, p2, p3

TwoHosts == p1 :> "a" @@ p2 :> "a" @@ p3 :> "b"
DistinctPids == p1 :> 101 @@ p2 :> 102 @@ p3 :> 103
=============================================================================
