------------------------------- MODULE IpiRing -------------------------------
(***************************************************************************)
(* The ring of messages between the host and the far-field DSP             *)
(* (struct scp_msg_queue_t): what its operations do to a ring q under its  *)
(* queue_lock.  One ring carries messages to the DSP (AdspIpiSend), one    *)
(* brings them from it.                                                    *)
(*                                                                         *)
(* An operator marked "mutant" stands before the one it varies: it is the  *)
(* same with a bug, and no specification uses it.                          *)
(***************************************************************************)
EXTENDS Integers

CONSTANTS
  Size,          (* MAX_SCP_MSG_NUM_IN_QUEUE                                *)
  Counters       (* number of values of a queue_counter: 2^32               *)

ASSUME IpiRingAssumption == Size \in Nat \ {0, 1} /\ Counters \in Nat \ {0}

Slots == 0..Size - 1

(* What a message ends with: an error, or 0. *)
Retvals == { "ok", "err" }

(* Mutant: an index that goes past the last slot. *)
AfterLate(i) == IF i = Size THEN 0 ELSE i + 1
(* An index moved on by one. *)
After(i) == IF i + 1 = Size THEN 0 ELSE i + 1

IsEmpty(q) == q.idx_r = q.idx_w

(* How many messages are queued, and the slot of the i-th of them. *)
Num(q) == IF q.idx_w >= q.idx_r THEN q.idx_w - q.idx_r
          ELSE Size - q.idx_r + q.idx_w
Slot(q, i) == IF q.idx_r + i < Size THEN q.idx_r + i ELSE q.idx_r + i - Size

(* Mutant: only a ring without a free slot is full. *)
IsFullLate(q) == Num(q) = Size
IsFull(q) == After(q.idx_w) = q.idx_r

Elements(Msgs) ==
  [ msg : Msgs, wait_in_thread : BOOLEAN, signal_arrival : BOOLEAN,
    send_retval : Retvals, queue_counter : 0..Counters - 1 ]

Rings(Msgs) ==
  [ idx_r : Slots, idx_w : Slots, queue_counter : 0..Counters - 1,
    element : [Slots -> Elements(Msgs)] ]

EmptyRing(m) ==
  [ idx_r |-> 0, idx_w |-> 0, queue_counter |-> 0,
    element |-> [ i \in Slots |->
      [ msg |-> m, wait_in_thread |-> FALSE, signal_arrival |-> FALSE,
        send_retval |-> "ok", queue_counter |-> 0 ] ] ]

(* Mutant: the signal of the slot's last message stays. *)
PushSignalled(q, m, wait) ==
  [ idx_r |-> q.idx_r,
    idx_w |-> After(q.idx_w),
    queue_counter |-> (q.queue_counter + 1) % Counters,
    element |-> [ q.element EXCEPT ![q.idx_w] =
      [ msg |-> m, wait_in_thread |-> wait, queue_counter |-> q.queue_counter,
        signal_arrival |-> q.element[q.idx_w].signal_arrival,
        send_retval |-> q.element[q.idx_w].send_retval ] ] ]

(* Push message m into a ring that is not full. *)
Push(q, m, wait) ==
  [ idx_r |-> q.idx_r,
    idx_w |-> After(q.idx_w),
    queue_counter |-> (q.queue_counter + 1) % Counters,
    element |-> [ q.element EXCEPT ![q.idx_w] =
      [ msg |-> m, wait_in_thread |-> wait, signal_arrival |-> FALSE,
        send_retval |-> "ok", queue_counter |-> q.queue_counter ] ] ]

(* Mutant: the front message stays. *)
PopNothing(q) == q
(* Drop the front message, if there is one. *)
Pop(q) == IF IsEmpty(q) THEN q ELSE [ q EXCEPT !.idx_r = After(q.idx_r) ]

(* The thread has processed the element in slot i: tell who waits for it. *)
Notify(q, i, retval) ==
  LET e == q.element[i] IN
  IF e.wait_in_thread
  THEN [ q EXCEPT !.element = [ q.element EXCEPT ![i] =
           [ e EXCEPT !.send_retval = retval, !.signal_arrival = TRUE ] ] ]
  ELSE q
==============================================================================
