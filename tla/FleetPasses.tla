---------------------------- MODULE FleetPasses ----------------------------
(***************************************************************************)
(* What FleetHost promises of its passes: they do not overlap, a pass      *)
(* takes the units one by one, in order, and is reported at most once, and *)
(* only when every unit has been taken.                                    *)
(***************************************************************************)
EXTENDS Naturals

CONSTANTS Drivers, Nobody, Units

VARIABLES driver, cursor, reported

passVars == <<driver, cursor, reported>>

NoPass == driver = Nobody /\ cursor = 0 /\ reported = FALSE

\* A host begins a pass.
Open(p) == NoPass /\ driver' = p /\ UNCHANGED <<cursor, reported>>

\* It takes the next unit.
Visit ==
  /\ driver # Nobody /\ ~reported /\ cursor < Units
  /\ cursor' = cursor + 1
  /\ UNCHANGED <<driver, reported>>

Announce ==
  /\ driver # Nobody /\ ~reported /\ cursor = Units
  /\ reported' = TRUE
  /\ UNCHANGED <<driver, cursor>>

\* The pass is over: finished, failed, or its host died.
Close == driver # Nobody /\ NoPass'

PassesNext == (\E p \in Drivers : Open(p)) \/ Visit \/ Announce \/ Close

PassesSpec == NoPass /\ [][PassesNext]_passVars
=============================================================================
