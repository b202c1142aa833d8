-------------------------- MODULE MCBtMetabuffer --------------------------
(* The receive ring on a small instance. *)
EXTENDS BtMetabuffer
=============================================================================
