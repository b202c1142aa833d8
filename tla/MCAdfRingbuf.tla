---------------------------- MODULE MCAdfRingbuf ----------------------------
(***************************************************************************)
(* A ring of four bytes; the log of the DSP has 1 kB or more.              *)
(***************************************************************************)
EXTENDS AdfRingbuf

=============================================================================
