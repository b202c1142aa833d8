----------------------------- MODULE AdfStream -----------------------------
(***************************************************************************)
(* What the ring buffer of the DSP framework promises: a queue of bytes.   *)
(* What is put goes behind the rest; only when the queue is full are the   *)
(* oldest bytes dropped, no more than one dropunit beyond what it takes,   *)
(* and they are counted.  A read takes nothing, a flush takes the oldest,  *)
(* a reserve gives some back.  With Overruns the queue is lost, and not    *)
(* counted, when what is in it after a put is exactly Size bytes.  (A      *)
(* reserve that comes to Size bytes loses them too, which is no different  *)
(* from a flush here.)  With Overlays a put to a full queue that never     *)
(* drops goes round and over the oldest bytes, and a word of the end of it *)
(* all is lost.                                                            *)
(***************************************************************************)
EXTENDS Integers, Sequences

CONSTANTS
  Byte,          (* what a byte can be                                      *)
  Size,          (* of the ring                                             *)
  Word,          (* sizeof(int32_t)                                         *)
  Drops,         (* number of values of the count of dropped bytes          *)
  Overruns,      (* a queue of Size bytes is lost                           *)
  Overlays       (* bytes are put over bytes                                *)

VARIABLES
  queue,         \* bytes put and not flushed
  drop,          \* bytes dropped
  dropunit,      \* how many are dropped at a time; 0 for never
  io             \* the last bytes put or read

vars == << queue, drop, dropunit, io >>

Init == queue = << >> /\ drop = 0 /\ io = << >>

(* All but the k oldest bytes of s. *)
Without(s, k) == SubSeq(s, k + 1, Len(s))

Put ==
  /\ io' \in Seq(Byte)
  /\ \E k \in 0..Len(queue \o io') :
       /\ k > 0 => /\ dropunit > 0 /\ Len(queue \o io') >= Size
                   /\ k < Len(queue \o io') - Size + dropunit
       /\ queue' = Without(queue \o io', k)
       /\ drop' = (drop + k) % Drops

(* No more is dropped than leaves Size bytes: none of them is in the queue.*)
Overrun ==
  /\ Overruns /\ dropunit > 0 /\ io' \in Seq(Byte)
  /\ Len(queue \o io') >= Size /\ queue' = << >>
  /\ drop' = (drop + (Len(queue \o io') - Size)) % Drops

(* The bytes are in Size places; those behind the last place are put over  *)
(* those in the first.                                                     *)
Overlay ==
  /\ Overlays /\ dropunit = 0 /\ io' \in Seq(Byte) /\ Len(io') < Size
  /\ Len(queue \o io') >= Size
  /\ queue' = [ j \in 1..Size - Word |->
                  IF j <= Len(queue \o io') - Size
                  THEN (queue \o io')[j + Size] ELSE (queue \o io')[j] ]
  /\ UNCHANGED drop

Read == /\ \E n \in 0..Len(queue) : io' = SubSeq(queue, 1, n)
        /\ UNCHANGED << queue, drop >>

Flush == /\ \E k \in 0..Len(queue) : queue' = Without(queue, k)
         /\ UNCHANGED << drop, io >>

Reserve == /\ Len(queue') >= Len(queue)
           /\ queue = Without(queue', Len(queue') - Len(queue))
           /\ UNCHANGED << drop, io >>

Reset == queue' = << >> /\ drop' = 0 /\ UNCHANGED io

Next == /\ Put \/ Overrun \/ Overlay \/ Read \/ Flush \/ Reserve \/ Reset
        /\ UNCHANGED dropunit

Spec == Init /\ [][Next]_vars

=============================================================================
