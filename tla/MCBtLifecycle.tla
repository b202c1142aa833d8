--------------------------- MODULE MCBtLifecycle ---------------------------
(* The driver's life model-checked; the constants are in the cfgs. *)
EXTENDS BtLifecycle
=============================================================================
