------------------------- MODULE MCLegacyClearance -------------------------
(***************************************************************************)
(* Instance of LegacyClearance for TLC: two requests for the record as it  *)
(* was found, one for the record after a stop.                             *)
(***************************************************************************)
EXTENDS LegacyClearance, TLC

CONSTANTS a, b, c

Requests == a :> "legacy" @@ b :> "legacy" @@ c :> "stopped"
=============================================================================
