----------------------------- MODULE MCPresence -----------------------------
(* Instances of Presence for TLC.                                          *)
EXTENDS Presence, TLC

CONSTANTS u1, u2, g1, g2, m1, p1, p2, ch1

\* Both gateways hash to one channel.
OneChannel == [g \in Gateways |-> ch1]
ToFirst == [m \in Msgs |-> u1]
Symmetry == Permutations(Procs) \cup Permutations(Gateways)
=============================================================================
