---------------------------- MODULE MCBtStackIo ----------------------------
(* The character device on a small instance. *)
EXTENDS BtStackIo
=============================================================================
