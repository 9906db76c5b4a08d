-------------------------- MODULE MCSupervisorLock --------------------------
(***************************************************************************)
(* Instances of SupervisorLock for TLC.                                    *)
(***************************************************************************)
EXTENDS SupervisorLock, TLC

CONSTANTS p1, p2, p3

\* p1 and p2 share a host, p3 is on another one.
TwoHosts == p1 :> "a" @@ p2 :> "a" @@ p3 :> "b"

DistinctPids == p1 :> 101 @@ p2 :> 102 @@ p3 :> 103
=============================================================================
