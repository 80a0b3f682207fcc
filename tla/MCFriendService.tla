-------------------------- MODULE MCFriendService --------------------------
(* An instance of FriendService for TLC.                                   *)
EXTENDS FriendService, TLC

CONSTANTS u1, u2, w1, w2

\* Users and workers are interchangeable.
Symmetry == Permutations(Users) \cup Permutations(Workers)
=============================================================================
