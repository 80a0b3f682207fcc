-------------------------- MODULE MCMessageService --------------------------
(* Instances of MessageService for TLC.                                    *)
EXTENDS MessageService, TLC

CONSTANTS u1, u2, m1, m3, w1, w2

\* A message for one user, and one for a group.
Recipients == [m \in Msgs |-> IF m = m3 THEN None ELSE u1]
Symmetry == Permutations(Workers)
=============================================================================
