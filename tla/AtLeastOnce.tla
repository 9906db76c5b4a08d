----------------------------- MODULE AtLeastOnce -----------------------------
(***************************************************************************)
(* What WorkerHost promises of a source's units, numbered in the order of  *)
(* the walk: each one is delivered after the ones before it, any number of *)
(* times, and only what was delivered is acknowledged, for good.           *)
(***************************************************************************)
EXTENDS Integers

CONSTANT Units           \* how many units the source may come to have

VARIABLES delivered,     \* the units delivered at least once
          acked          \* how many are acknowledged

Init == delivered = {} /\ acked = 0

Deliver(k) ==
  /\ 1..k - 1 \subseteq delivered
  /\ delivered' = delivered \cup {k}
  /\ UNCHANGED acked

Acknowledge(n) ==
  /\ acked <= n /\ 1..n \subseteq delivered
  /\ acked' = n
  /\ UNCHANGED delivered

Next == \E k \in 1..Units : Deliver(k) \/ Acknowledge(k)

Spec == Init /\ [][Next]_<<delivered, acked>>
=============================================================================
