--------------------------- MODULE MCUserService ---------------------------
(* Instances of UserService for TLC.                                       *)
EXTENDS UserService, TLC

CONSTANTS u1, u2, w1, w2

\* Users and workers are interchangeable in safety properties.
Symmetry == Permutations(Users) \cup Permutations(Workers)
=============================================================================
