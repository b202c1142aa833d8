----------------------------- MODULE MCAudioIpi -----------------------------
(* The queue of one scene on a small instance. *)
EXTENDS AudioIpi
=============================================================================
