--------------------------- MODULE MCUnitLifecycle ---------------------------
(***************************************************************************)
(* Instances of UnitLifecycle for TLC: who may call what on the unit.      *)
(***************************************************************************)
EXTENDS UnitStateInv, TLC

CONSTANTS p1, p2

Role(kinds1, kinds2) == p1 :> kinds1 @@ p2 :> kinds2

\* Two supervisors, or a supervisor and a script, that launch and clear.
Launchers == Role({"reconcile", "spawn", "clear"}, {"reconcile", "spawn", "clear"})

\* One supervisor; the control plane, the worker and the operator beside it.
ServedUnit == Role({"reconcile"}, {"set_desired", "heartbeat", "clear"})

\* The primitives used directly, beside a supervisor, the control plane and the
\* worker, by processes that never clear.
Primitives ==
  Role({"reconcile", "spawn", "stop"}, {"spawn", "stop", "set_desired", "heartbeat"})

\* A supervisor, and an operator who disables the unit and clears it.
Supervised == Role({"reconcile"}, {"set_desired", "clear"})

\* A script stops the unit while others launch and clear it.
StrayStop == Role({"stop"}, {"spawn", "clear"})

Symmetric == Permutations(Tokens)
=============================================================================
