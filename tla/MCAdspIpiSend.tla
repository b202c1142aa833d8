---------------------------- MODULE MCAdspIpiSend ----------------------------
(* Instances of AdspIpiSend for TLC. *)
EXTENDS AdspIpiSend, TLC

Symmetry == Permutations(Senders)
==============================================================================
