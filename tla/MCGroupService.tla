-------------------------- MODULE MCGroupService ---------------------------
(* Instances of GroupService for TLC.                                      *)
EXTENDS GroupService

CONSTANTS u1, w1, w2, c1, c2, c3
=============================================================================
