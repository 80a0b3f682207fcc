------------------------------ MODULE MCClient ------------------------------
(***************************************************************************)
(* Model checking of Client: its threads are fixed, the bounds are in      *)
(* MCClient.cfg.                                                           *)
(***************************************************************************)
EXTENDS Client
=============================================================================
