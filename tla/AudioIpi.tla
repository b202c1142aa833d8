------------------------------ MODULE AudioIpi ------------------------------
(***************************************************************************)
(* The audio messages of one scene to the far-field DSP: send_message in   *)
(* any number of threads, each waiting in a ring for its turn at the DSP   *)
(* and for the acknowledgement of its own message, and send_message_ack,   *)
(* which the dispatcher of the DSP's messages calls.                       *)
(*                                                                         *)
(* A message is the number of its push.  What holds rw_lock is one step.   *)
(* The one ipi_msg_ack of the queue has no lock: an acknowledgement is     *)
(* copied into it part by part, in any order, while a sender reads it.     *)
(* The queue is never disabled: that is the exit of a built-in driver.     *)
(*                                                                         *)
(* An operator marked "mutant" stands before the one it varies: it is the  *)
(* same with a bug, and no specification uses it.                          *)
(***************************************************************************)
EXTENDS Integers, FiniteSets

CONSTANTS
  Size,          (* MAX_IPI_MSG_QUEUE_SIZE: 16                              *)
  Senders,       (* threads that send                                       *)
  Ids,           (* what a msg_id can be                                    *)
  MaxMsgs,       (* bound: messages pushed                                  *)
  Signals        (* whether signals reach the senders                       *)

ASSUME AudioIpiAssumption ==
  Size \in Nat \ {0, 1} /\ MaxMsgs \in Nat \ {0} /\ Ids \subseteq Nat
  /\ Signals \in BOOLEAN

VARIABLES
  element, idx_r, idx_w,   \* the ring: the message in each slot
  ack,           \* ipi_msg_ack
  copying,       \* the acknowledgement being copied, and what is left of it
  pushed,        \* history: messages pushed so far
  msg_id, need,  \* of each message: its id, whether it is to be acknowledged
  owed,          \* messages the DSP has and may still acknowledge
  last,          \* history: the last message handed to the DSP
  spc,           \* where a sender is
  own, idx_msg,  \* its message and its slot
  retval,        \* what it returns: 0, or -1 for any error
  got,           \* history: the message whose acknowledgement it has
  asleep,        \* senders in schedule() on the wq of their slot
  stale,         \* history: an acknowledgement came when nobody waited for it
  torn           \* history: one was read while it was being copied

ring == << element, idx_r, idx_w >>
acks == << ack, copying, owed, stale >>
msgs == << pushed, msg_id, need >>
mine == << own, idx_msg, retval, got >>
vars == << ring, acks, msgs, mine, last, spc, asleep, torn >>

Slots == 0..Size - 1
Msgs == 1..MaxMsgs
Parts == { "magic", "msg_id", "payload" }
Cleared == [ magic |-> FALSE, msg_id |-> 0, payload |-> 0 ]
NoCopy == [ of |-> 0, left |-> {} ]
InProcess == { "process", "sending", "ack", "pair", "take", "clear", "pop" }
SenderPcs == InProcess \cup { "idle", "clean", "waiting", "wake" }

TypeOK ==
  /\ element \in [Slots -> 0..MaxMsgs] /\ idx_r \in Slots /\ idx_w \in Slots
  /\ ack \in [magic : BOOLEAN, msg_id : Ids \cup {0}, payload : 0..MaxMsgs]
  /\ copying \in [of : 0..MaxMsgs, left : SUBSET Parts]
  /\ pushed \in 0..MaxMsgs /\ msg_id \in [Msgs -> Ids \cup {0}] /\ need \in [Msgs -> BOOLEAN]
  /\ owed \subseteq 1..pushed /\ last \in 0..pushed
  /\ spc \in [Senders -> SenderPcs] /\ own \in [Senders -> 0..pushed]
  /\ idx_msg \in [Senders -> Slots] /\ retval \in [Senders -> {0, -1}]
  /\ got \in [Senders -> 0..MaxMsgs] /\ asleep \subseteq Senders
  /\ stale \in BOOLEAN /\ torn \in BOOLEAN

-----------------------------------------------------------------------------
(* Mutant: an index that goes past the last slot. *)
AfterLate(i) == IF i = Size THEN 0 ELSE i + 1
After(i) == IF i + 1 = Size THEN 0 ELSE i + 1
IsEmpty == idx_r = idx_w                 (* check_queue_empty *)
(* Mutant: a ring is not full when idx_w is about to wrap. *)
IsFullUnwrapped == idx_w + 1 = idx_r
IsFull == After(idx_w) = idx_r           (* check_queue_to_be_full *)

To(s, pc) == spc' = [spc EXCEPT ![s] = pc]

(* send_message returns: its locals are gone. *)
Return(s) ==
  /\ To(s, "idle")
  /\ own' = [own EXCEPT ![s] = 0] /\ idx_msg' = [idx_msg EXCEPT ![s] = 0]
  /\ retval' = [retval EXCEPT ![s] = -1] /\ got' = [got EXCEPT ![s] = 0]

(* Mutant: the next slot's. *)
WakeUpNext(i) == asleep' = { s \in asleep : idx_msg[s] # After(i) }
(* wake_up_interruptible of the wq of slot i *)
WakeUp(i) == asleep' = { s \in asleep : idx_msg[s] # i }

(* push_msg of a new message of s; a full ring refuses it. *)
Push(s, id, acked) ==
  /\ ~IsFull /\ pushed < MaxMsgs
  /\ pushed' = pushed + 1
  /\ msg_id' = [msg_id EXCEPT ![pushed + 1] = id]
  /\ need' = [need EXCEPT ![pushed + 1] = acked]
  /\ element' = [element EXCEPT ![idx_w] = pushed + 1]
  /\ idx_w' = After(idx_w) /\ UNCHANGED idx_r
  /\ own' = [own EXCEPT ![s] = pushed + 1]
  /\ idx_msg' = [idx_msg EXCEPT ![s] = idx_w]
  /\ UNCHANGED << retval, got >>

(* pop_msg *)
Pop == idx_r' = After(idx_r) /\ UNCHANGED << element, idx_w >>

(* send_message as far as the unlock: who finds the ring empty goes ahead. *)
SendMessage(s, id, acked) ==
  /\ spc[s] = "idle" /\ Push(s, id, acked)
  /\ To(s, IF IsEmpty THEN "clean" ELSE "waiting")
  /\ UNCHANGED << acks, last, asleep, torn >>

(* ... and clears an acknowledgement that is left over. *)
CleanAck(s) ==
  /\ spc[s] = "clean" /\ To(s, "process")
  /\ ack' = IF ack.magic THEN Cleared ELSE ack
  /\ UNCHANGED << ring, copying, owed, stale, msgs, mine, last, asleep, torn >>

(* wait_event_interruptible of a sender that is not the first *)
Doze(s) ==
  /\ spc[s] = "waiting" /\ idx_msg[s] # idx_r /\ asleep' = asleep \cup {s}
  /\ UNCHANGED << ring, acks, msgs, mine, last, spc, torn >>

(* Mutant: a sender that is awake does not look whose turn it is. *)
ProceedAwake(s) ==
  /\ spc[s] = "waiting" /\ s \notin asleep
  /\ To(s, "process")
  /\ UNCHANGED << ring, acks, msgs, mine, last, asleep, torn >>

Proceed(s) ==
  /\ spc[s] = "waiting" /\ s \notin asleep /\ idx_msg[s] = idx_r
  /\ To(s, "process")
  /\ UNCHANGED << ring, acks, msgs, mine, last, asleep, torn >>

(* A signal has it look again every 10 ms, and give up after two seconds,  *)
(* which it does without another look: its message stays in the ring.      *)
Interrupted(s) ==
  /\ Signals /\ spc[s] = "waiting" /\ asleep' = asleep \ {s}
  /\ \/ UNCHANGED << spc, mine >>
     \/ (s \notin asleep \/ idx_msg[s] # idx_r) /\ Return(s)
  /\ UNCHANGED << ring, acks, msgs, last, torn >>

(* process_message_in_queue: send_message_to_scp hands the message to the  *)
(* queue of the mailbox.  One it gives up waiting for may still be sent.   *)
HandOver(s) ==
  /\ spc[s] = "process" /\ To(s, "sending")
  /\ last' = own[s]
  /\ owed' = IF need[own[s]] THEN owed \cup {own[s]} ELSE owed
  /\ UNCHANGED << ring, ack, copying, stale, msgs, mine, asleep, torn >>

Told(s) ==
  /\ spc[s] = "sending"
  /\ \/ /\ retval' = [retval EXCEPT ![s] = 0]
        /\ To(s, IF need[own[s]] THEN "ack" ELSE "pop")
        /\ UNCHANGED << owed, stale >>
     \/ /\ To(s, "pop") /\ owed' \in { owed, owed \ {own[s]} }
        /\ stale' = (stale \/ (need[own[s]] /\ own[s] \notin owed))
        /\ UNCHANGED retval
  /\ UNCHANGED << ring, ack, copying, msgs, own, idx_msg, got, last, asleep, torn >>

(* An acknowledgement is there, "should be in pair", and is taken;         *)
Acknowledged(s) ==
  /\ spc[s] = "ack" /\ ack.magic /\ To(s, "pair")
  /\ UNCHANGED << ring, acks, msgs, mine, last, asleep, torn >>

InPair(s) == ack.msg_id = msg_id[own[s]]     (* check_ack_msg_valid *)

CheckAck(s) ==
  /\ spc[s] = "pair" /\ To(s, IF InPair(s) THEN "take" ELSE "clear")
  /\ retval' = [retval EXCEPT ![s] = IF InPair(s) THEN 0 ELSE -1]
  /\ torn' = (torn \/ copying # NoCopy)
  /\ UNCHANGED << ring, acks, msgs, own, idx_msg, got, last, asleep >>

TakeAck(s) ==
  /\ spc[s] = "take" /\ To(s, "clear")
  /\ got' = [got EXCEPT ![s] = ack.payload]
  /\ torn' = (torn \/ copying # NoCopy)
  /\ UNCHANGED << ring, acks, msgs, own, idx_msg, retval, last, asleep >>

(* or three seconds are over. *)
TimedOut(s) ==
  /\ spc[s] = "ack" /\ ~ack.magic /\ To(s, "clear")
  /\ retval' = [retval EXCEPT ![s] = -1]
  /\ stale' = (stale \/ copying # NoCopy)
  /\ UNCHANGED << ring, ack, copying, owed, msgs, own, idx_msg, got, last,
                  asleep, torn >>

(* Mutant: the acknowledgement stays. *)
ClearAckNot(s) ==
  /\ spc[s] = "clear" /\ To(s, "pop")
  /\ UNCHANGED << ring, acks, msgs, mine, last, asleep, torn >>

ClearAck(s) ==
  /\ spc[s] = "clear" /\ ack' = Cleared /\ To(s, "pop")
  /\ UNCHANGED << ring, copying, owed, stale, msgs, mine, last, asleep, torn >>

PopMessage(s) ==
  /\ spc[s] = "pop" /\ Pop
  /\ IF After(idx_r) = idx_w THEN Return(s) ELSE To(s, "wake") /\ UNCHANGED mine
  /\ UNCHANGED << acks, msgs, last, asleep, torn >>

(* Mutant: nobody is woken. *)
WakeNobody(s) ==
  /\ spc[s] = "wake" /\ Return(s)
  /\ UNCHANGED << ring, acks, msgs, last, asleep, torn >>

WakeNext(s) ==
  /\ spc[s] = "wake" /\ WakeUp(idx_r) /\ Return(s)
  /\ UNCHANGED << ring, acks, msgs, last, torn >>

(* The DSP acknowledges m: send_message_ack starts to copy. *)
AckBack(m) ==
  /\ m \in owed /\ copying = NoCopy
  /\ owed' = owed \ {m}
  /\ copying' = [ of |-> m, left |-> Parts ]
  /\ stale' = (stale \/ \A s \in Senders :
                          ~(own[s] = m /\ spc[s] \in {"sending", "ack"}))
  /\ UNCHANGED << ring, ack, msgs, mine, last, spc, asleep, torn >>

(* A part of it is copied, and with the last the wq of the head woken. *)
CopyPart(p) ==
  /\ p \in copying.left
  /\ LET left == copying.left \ {p}
     IN  copying' = IF left = {} THEN NoCopy ELSE [copying EXCEPT !.left = left]
  /\ ack' = CASE p = "magic"   -> [ack EXCEPT !.magic = TRUE]
              [] p = "msg_id"  -> [ack EXCEPT !.msg_id = msg_id[copying.of]]
              [] p = "payload" -> [ack EXCEPT !.payload = copying.of]
  /\ IF copying.left = {p} THEN WakeUp(idx_r) ELSE UNCHANGED asleep
  /\ UNCHANGED << ring, owed, stale, msgs, mine, last, spc, torn >>

Init ==
  /\ element = [ i \in Slots |-> 0 ] /\ idx_r = 0 /\ idx_w = 0
  /\ ack = Cleared /\ copying = NoCopy /\ owed = {} /\ stale = FALSE
  /\ pushed = 0 /\ last = 0
  /\ msg_id = [ m \in Msgs |-> 0 ] /\ need = [ m \in Msgs |-> FALSE ]
  /\ spc = [ s \in Senders |-> "idle" ] /\ own = [ s \in Senders |-> 0 ]
  /\ idx_msg = [ s \in Senders |-> 0 ] /\ retval = [ s \in Senders |-> -1 ]
  /\ got = [ s \in Senders |-> 0 ] /\ asleep = {} /\ torn = FALSE

(* What the code of a sender does once it is called *)
Step(s) ==
  \/ CleanAck(s) \/ Doze(s) \/ Proceed(s) \/ HandOver(s) \/ Told(s)
  \/ Acknowledged(s) \/ CheckAck(s) \/ TakeAck(s) \/ TimedOut(s) \/ ClearAck(s)
  \/ PopMessage(s) \/ WakeNext(s)

Next ==
  \/ \E s \in Senders, id \in Ids, acked \in BOOLEAN : SendMessage(s, id, acked)
  \/ \E s \in Senders : Step(s) \/ Interrupted(s)
  \/ \E m \in Msgs : AckBack(m)
  \/ \E p \in Parts : CopyPart(p)

Spec == Init /\ [][Next]_vars

(* A sender that can go on does; the DSP may never answer. *)
FairSpec == Spec /\ \A s \in Senders : WF_vars(Step(s))

-----------------------------------------------------------------------------
(* An AUD_ASSERT on each side of the wait for the acknowledgement: who is   *)
(* at work on a message is the sender of the first in the ring, and takes  *)
(* out no message but its own, whatever senders came, slept or gave up.    *)
Turn == \A s \in Senders : spc[s] \in InProcess \cup {"clean"} =>
          ~IsEmpty /\ idx_msg[s] = idx_r /\ element[idx_r] = own[s]

(* No wake-up is lost: who sleeps on the slot that has become the first is *)
(* about to be woken.                                                      *)
Woken == \A s \in asleep : idx_msg[s] = idx_r =>
           \E t \in Senders : spc[t] = "wake"

(* While every acknowledgement comes in time and is read whole, a send     *)
(* that succeeds has the acknowledgement of its own message, and not that  *)
(* of another with the same id.                                            *)
OwnAck ==
  ~stale /\ ~torn =>
    \A s \in Senders :
      /\ spc[s] \in {"pop", "wake"} /\ need[own[s]] /\ retval[s] = 0
      => got[s] = own[s]

(* Messages go to the DSP in the order they came into the ring. *)
InOrder == [][last' # last => last' > last]_vars

(* Slot i holds a message. *)
InRing(i) == IF idx_r <= idx_w THEN idx_r <= i /\ i < idx_w ELSE idx_r <= i \/ i < idx_w

(* Messages in the ring whose sender has gone. *)
Left == { m \in Msgs : /\ \E i \in Slots : InRing(i) /\ element[i] = m
                       /\ \A s \in Senders : own[s] # m }

(* The message whose turn it is. *)
Head == element[idx_r]
(* Its sender has given up. *)
Stopped == ~IsEmpty /\ Head \in Left

(* Nobody waits for nothing: unless its sender has given up, the message   *)
(* whose turn it is has that sender at work on it, or on the way to: awake *)
(* or about to be woken by the one before.                                 *)
HeadServed ==
  ~IsEmpty /\ ~Stopped =>
    \E s \in Senders :
      /\ own[s] = Head /\ idx_msg[s] = idx_r
      /\ \/ spc[s] \in InProcess \cup {"clean"}
         \/ spc[s] = "waiting" /\ (s \in asleep => \E t \in Senders : spc[t] = "wake")

(* What is left in the ring stays there, and from its turn on the ring     *)
(* does not move and the DSP is given nothing more.                        *)
LeftForGood ==
  [][ /\ Left \subseteq Left'
      /\ Stopped => Stopped' /\ UNCHANGED << idx_r, last >> ]_vars

(* Every send returns, whatever the DSP does, as long as no other has      *)
(* given up waiting for its turn.                                          *)
Served == \A s \in Senders :
            spc[s] # "idle" ~> (spc[s] = "idle" \/ Left # {})

(* "wait until processed, and then send message to scp"                    *)
(* (audio_ipi_queue.c:378): each gets its turn in the end.                 *)
SenderReturns == \A s \in Senders : spc[s] # "idle" ~> spc[s] = "idle"

=============================================================================
