----------------------------- MODULE MCGateway -----------------------------
(* An instance of Gateway for TLC.                                         *)
EXTENDS Gateway

CONSTANTS u1, u2, c1, c2, l1, l2, m1, m2

\* Each connection has an IO thread of its own.
MCLoopOf == [c \in Conns |-> IF c = c2 THEN l2 ELSE l1]

\* Both messages are for u1.
MCTo == [m \in Msgs |-> u1]
=============================================================================
