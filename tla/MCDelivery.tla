----------------------------- MODULE MCDelivery -----------------------------
(* Instances of Delivery for TLC.                                          *)
EXTENDS Delivery, TLC

CONSTANTS u1, g1, m1, m2, p1, p2, w1, ch1

\* The channel the gateway hashes to.
OneChannel == [g \in Gateways |-> ch1]
ToFirst == [m \in Msgs |-> u1]
Symmetry == Permutations(Procs) \cup Permutations(Msgs)
=============================================================================
