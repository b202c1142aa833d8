------------------------------ MODULE BtStream ------------------------------
(***************************************************************************)
(* What the receive buffer of the Bluetooth driver promises its reader:    *)
(* a queue of bytes.  A packet is queued whole or not at all, a read takes *)
(* the oldest bytes, and opening or losing the device empties the queue.   *)
(* BtMetabuffer implements this with a ring.                               *)
(***************************************************************************)
EXTENDS Integers, Sequences

CONSTANT Byte  (* what a byte can be *)

VARIABLES
  queue,   \* bytes received and not yet read
  io       \* the last packet that arrived or bytes that were read

vars == << queue, io >>

Init == queue = << >> /\ io = << >>

Arrive == io' \in Seq(Byte) /\ queue' \in { queue, queue \o io' }

Read == io' # << >> /\ queue = io' \o queue'

Clear == queue' = << >> /\ UNCHANGED io

Next == Arrive \/ Read \/ Clear

Spec == Init /\ [][Next]_vars

=============================================================================
