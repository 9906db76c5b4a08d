----------------------------- MODULE LaunchFence -----------------------------
(***************************************************************************)
(* What the launch protocol of a unit promises, whoever calls it and       *)
(* whatever crashes: launches take turns.  A launch holds the unit from    *)
(* the moment it is fenced until an operator retires it; it may run once   *)
(* while it holds the unit, and it cannot be retired while it runs.        *)
(***************************************************************************)
CONSTANT Tokens

VARIABLE life   \* life[t]: how far launch t has come

Lives == {"unused", "held", "live", "over", "retired"}
Holding == {"held", "live", "over"}
Free == \A t \in Tokens : life[t] \notin Holding

Init == life = [t \in Tokens |-> "unused"]

Move(t, from, to) == life[t] = from /\ life' = [life EXCEPT ![t] = to]

Fence(t) == Free /\ Move(t, "unused", "held")
Start(t) == Move(t, "held", "live")
End(t) == Move(t, "live", "over")
Retire(t) == \E from \in {"held", "over"} : Move(t, from, "retired")

Next == \E t \in Tokens : Fence(t) \/ Start(t) \/ End(t) \/ Retire(t)

Spec == Init /\ [][Next]_life
=============================================================================
