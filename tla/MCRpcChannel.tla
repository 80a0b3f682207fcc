---------------------------- MODULE MCRpcChannel ----------------------------
(* An instance of RpcChannel, and of Discovery under it, for TLC.          *)
EXTENDS RpcChannel

CONSTANTS m1, t1, t2, s1, s2
=============================================================================
