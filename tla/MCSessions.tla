----------------------------- MODULE MCSessions -----------------------------
(* Instances of Sessions for TLC.                                          *)
EXTENDS Sessions, TLC

CONSTANTS u1, u2, c1, c2, l1, l2, w1, w2

\* A thread for each connection.
ThreadOf == [c \in Conns |-> IF c = c1 THEN l1 ELSE l2]

\* Users, workers, and connections with their threads are interchangeable in
\* safety properties.
Mirror == (c1 :> c2) @@ (c2 :> c1) @@ (l1 :> l2) @@ (l2 :> l1)
Symmetry == Permutations(Users) \cup Permutations(Workers) \cup {Mirror}
=============================================================================
