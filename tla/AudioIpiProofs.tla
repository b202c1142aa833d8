--------------------------- MODULE AudioIpiProofs --------------------------
(***************************************************************************)
(* Proofs about AudioIpi for any ring, any set of senders and any number   *)
(* of messages: its types, Turn, Woken, InOrder, OwnAck, HeadServed and    *)
(* LeftForGood.                                                            *)
(*                                                                         *)
(* The inductive invariant RingInv ties each sender to its slot: a sender  *)
(* that has not returned finds its own message where it left it (Held),    *)
(* no two have the same (Apart), who works on the DSP is at the head       *)
(* (InFront), and the ring is in the order of the pushes (Ordered), with   *)
(* nothing in it that the DSP has been given already (Ahead).              *)
(*                                                                         *)
(* Only one sender is at the DSP (OneFront), so an acknowledgement that    *)
(* comes in time is that sender's, and ipi_msg_ack is clear whenever       *)
(* nobody has been answered: AckInv, inductive upon RingInv.               *)
(***************************************************************************)
EXTENDS AudioIpi, TLAPS

(* At the head of the ring, busy with the message there.                   *)
Front == InProcess \cup { "clean" }
(* In send_message, its message still in the ring.                         *)
Active == Front \cup { "waiting" }

(* Slot i is nearer to the head than slot j.                               *)
Before(i, j) ==
  \/ idx_r <= i /\ j < idx_r
  \/ i < j /\ (idx_r <= i <=> idx_r <= j)

(* The part of TypeOK the ring rests on.                                   *)
Basics ==
  /\ element \in [Slots -> 0..MaxMsgs] /\ idx_r \in Slots /\ idx_w \in Slots
  /\ pushed \in 0..MaxMsgs /\ last \in 0..pushed
  /\ spc \in [Senders -> SenderPcs] /\ own \in [Senders -> 0..pushed]
  /\ idx_msg \in [Senders -> Slots]

(* A sender's slot holds its message.                                      *)
Held == \A s \in Senders : spc[s] \in Active =>
          InRing(idx_msg[s]) /\ element[idx_msg[s]] = own[s]
(* Who works on the DSP has the first slot.                                *)
InFront == \A s \in Senders : spc[s] \in Front => idx_msg[s] = idx_r
(* No two senders have the same message.                                   *)
Apart == \A s, t \in Senders :
           spc[s] \in Active /\ spc[t] \in Active /\ own[s] = own[t] => s = t
(* Slots in use hold messages.                                             *)
Filled == \A i \in Slots : InRing(i) => element[i] \in 1..pushed
(* The ring is in the order of the pushes.                                 *)
Ordered == \A i, j \in Slots :
             InRing(i) /\ InRing(j) /\ Before(i, j) => element[i] < element[j]
(* The DSP has no message of who has not handed it over.                   *)
Ahead == \A s \in Senders : spc[s] \in { "waiting", "clean", "process" } => last < own[s]
(* Only senders that wait sleep.                                           *)
Sleepers == asleep \subseteq { s \in Senders : spc[s] = "waiting" }

(* The inductive invariant of the ring.                                    *)
RingInv == Held /\ InFront /\ Apart /\ Filled /\ Ordered /\ Ahead /\ Sleepers

(* Basics is a part of TypeOK.                                             *)
LEMMA BasicsHold == TypeOK => Basics
BY Zenon DEF TypeOK, Basics

(* After a slot comes a slot.                                              *)
LEMMA AfterSlot == ASSUME NEW i \in Slots PROVE After(i) \in Slots
BY AudioIpiAssumption DEF After, Slots

(* The empty ring satisfies the invariant.                                 *)
LEMMA InitInv == Init => RingInv
<1> SUFFICES ASSUME Init PROVE RingInv
  OBVIOUS
<1>1. \A s \in Senders : spc[s] = "idle"
  BY DEF Init
<1>2. \A i \in Slots : ~InRing(i)
  BY DEF Init, InRing, Slots
<1> QED
  BY <1>1, <1>2 DEF Init, RingInv, Held, InFront, Apart, Filled, Ordered,
       Ahead, Sleepers, Active, Front, InProcess

(* Steps that leave the ring alone, and at most move senders on, keep it.  *)
LEMMA RingStays ==
  ASSUME Basics, RingInv, UNCHANGED << element, idx_r, idx_w, pushed, last >>,
         \A s \in Senders : spc'[s] \in Active =>
           /\ spc[s] \in Active /\ own'[s] = own[s] /\ idx_msg'[s] = idx_msg[s]
           /\ spc'[s] \in Front => spc[s] \in Front \/ idx_msg[s] = idx_r
           /\ spc'[s] \in { "waiting", "clean", "process" } =>
                spc[s] \in { "waiting", "clean", "process" },
         asleep' \subseteq { s \in Senders : spc'[s] = "waiting" }
  PROVE  RingInv'
<1>1. \A i \in Slots : InRing(i)' <=> InRing(i)
  BY DEF InRing
<1>2. Held'
  BY <1>1 DEF Basics, RingInv, Held, InRing
<1>3. InFront'
  BY DEF RingInv, InFront, Active, Front
<1>4. Apart'
  BY DEF RingInv, Apart
<1>5. Filled' /\ Ordered'
  BY <1>1 DEF RingInv, Filled, Ordered, Before
<1>6. Ahead'
  BY DEF RingInv, Ahead, Active, Front, InProcess
<1> QED
  BY <1>2, <1>3, <1>4, <1>5, <1>6 DEF RingInv, Sleepers

(* A push at the tail keeps the ring's invariant.                          *)
LEMMA SendInv ==
  ASSUME Basics, RingInv, NEW s \in Senders, NEW id \in Ids, NEW acked \in BOOLEAN,
         SendMessage(s, id, acked)
  PROVE  RingInv'
<1> DEFINE m == pushed + 1
<1>0. /\ spc[s] = "idle" /\ ~IsFull /\ idx_r' = idx_r /\ idx_w' = After(idx_w)
      /\ pushed' = m /\ last' = last /\ asleep' = asleep
      /\ element' = [element EXCEPT ![idx_w] = m]
      /\ own' = [own EXCEPT ![s] = m] /\ idx_msg' = [idx_msg EXCEPT ![s] = idx_w]
      /\ spc' = [spc EXCEPT ![s] = IF IsEmpty THEN "clean" ELSE "waiting"]
  BY DEF SendMessage, Push, To
<1>1. \A i \in Slots : InRing(i)' <=> InRing(i) \/ i = idx_w
  BY <1>0, AudioIpiAssumption DEF Basics, InRing, IsFull, After, Slots
<1>2. ~InRing(idx_w)
  BY DEF Basics, InRing, Slots
<1>3. \A i \in Slots : i # idx_w => element'[i] = element[i]
  BY <1>0 DEF Basics
<1>4. element'[idx_w] = m /\ m \in Int /\ pushed \in Int
  BY <1>0 DEF Basics
<1>5. /\ own'[s] = m /\ idx_msg'[s] = idx_w /\ spc'[s] \in { "clean", "waiting" }
      /\ spc'[s] = "clean" => idx_w = idx_r
  BY <1>0 DEF Basics, IsEmpty
<1>6. \A t \in Senders : t # s => spc'[t] = spc[t] /\ own'[t] = own[t] /\ idx_msg'[t] = idx_msg[t]
  BY <1>0 DEF Basics
<1>7. Held'
  <2> SUFFICES ASSUME NEW t \in Senders, spc'[t] \in Active
               PROVE  (InRing(idx_msg[t]) /\ element[idx_msg[t]] = own[t])'
    BY DEF Held
  <2>1. CASE t = s
    BY <2>1, <1>1, <1>4, <1>5 DEF Basics, InRing
  <2>2. CASE t # s
    <3>1. InRing(idx_msg[t]) /\ element[idx_msg[t]] = own[t] /\ idx_msg[t] \in Slots
      BY <2>2, <1>6 DEF RingInv, Held, Basics
    <3> QED
      BY <3>1, <2>2, <1>1, <1>2, <1>3, <1>6 DEF InRing
  <2> QED
    BY <2>1, <2>2
<1>8. InFront'
  BY <1>0, <1>5, <1>6 DEF RingInv, InFront, Front, InProcess
<1>9. Apart'
  <2>1. \A t \in Senders : own[t] < m /\ own[t] \in Int
    BY <1>4 DEF Basics
  <2> QED
    BY <2>1, <1>4, <1>5, <1>6 DEF RingInv, Apart
<1>10. Filled'
  BY <1>0, <1>1, <1>2, <1>3, <1>4 DEF RingInv, Filled, Basics
<1>11. Ordered'
  <2> SUFFICES ASSUME NEW i \in Slots, NEW j \in Slots, InRing(i)', InRing(j)', Before(i, j)'
               PROVE  element'[i] < element'[j]
    BY <1>0 DEF Ordered, Slots
  <2>1. Before(i, j)
    BY <1>0 DEF Before
  <2>2. i # idx_w
    BY <1>0, <1>1, <2>1 DEF Before, InRing, Basics, Slots
  <2>3. CASE j = idx_w
    BY <2>2, <2>3, <1>1, <1>3, <1>4 DEF RingInv, Filled, Basics
  <2>4. CASE j # idx_w
    BY <2>1, <2>2, <2>4, <1>1, <1>3 DEF RingInv, Ordered
  <2> QED
    BY <2>3, <2>4
<1>12. Ahead'
  BY <1>0, <1>4, <1>5, <1>6 DEF RingInv, Ahead, Basics
<1>13. Sleepers'
  BY <1>0, <1>6 DEF RingInv, Sleepers
<1> QED
  BY <1>7, <1>8, <1>9, <1>10, <1>11, <1>12, <1>13 DEF RingInv

(* A pop by the sender at the head keeps the ring's invariant.             *)
LEMMA PopInv ==
  ASSUME Basics, RingInv, NEW s \in Senders, PopMessage(s)
  PROVE  RingInv'
<1>0. /\ spc[s] = "pop" /\ idx_r' = After(idx_r)
      /\ UNCHANGED << element, idx_w, pushed, last, asleep >>
      /\ spc'[s] \in { "idle", "wake" }
      /\ \A t \in Senders \ {s} : spc'[t] = spc[t] /\ own'[t] = own[t] /\ idx_msg'[t] = idx_msg[t]
  BY DEF PopMessage, Pop, Return, To, mine, msgs, Basics
<1>1. idx_msg[s] = idx_r /\ InRing(idx_r) /\ element[idx_r] = own[s]
  BY <1>0 DEF RingInv, InFront, Held, Active, Front, InProcess
<1>2. \A i \in Slots : InRing(i)' <=> InRing(i) /\ i # idx_r
  BY <1>0, <1>1, AudioIpiAssumption DEF Basics, InRing, After, Slots
<1>3. \A t \in Senders : spc'[t] \in Active => t # s
  BY <1>0 DEF Active, Front, InProcess
<1>4. \A t \in Senders : spc'[t] \in Active => idx_msg[t] # idx_r
  BY <1>0, <1>1, <1>3 DEF RingInv, Held, Apart, Active, Front, InProcess
<1>5. Held'
  <2> SUFFICES ASSUME NEW t \in Senders, spc'[t] \in Active
               PROVE  (InRing(idx_msg[t]) /\ element[idx_msg[t]] = own[t])'
    BY DEF Held
  <2>1. InRing(idx_msg[t]) /\ element[idx_msg[t]] = own[t] /\ idx_msg[t] \in Slots
    BY <1>0, <1>3 DEF RingInv, Held, Basics
  <2> QED
    BY <2>1, <1>0, <1>2, <1>3, <1>4 DEF InRing
<1>6. InFront'
  BY <1>0, <1>3, <1>4 DEF RingInv, InFront, Active
<1>7. Apart'
  BY <1>0, <1>3 DEF RingInv, Apart
<1>8. Filled'
  BY <1>0, <1>2 DEF RingInv, Filled
<1>9. Ordered'
  <2> SUFFICES ASSUME NEW i \in Slots, NEW j \in Slots, InRing(i)', InRing(j)', Before(i, j)'
               PROVE  element[i] < element[j]
    BY <1>0 DEF Ordered, Slots
  <2>1. InRing(i) /\ InRing(j) /\ i # idx_r /\ j # idx_r
    BY <1>2
  <2>2. Before(i, j)
    BY <1>0, <2>1, AudioIpiAssumption DEF Before, After, Basics, Slots, InRing
  <2> QED
    BY <2>1, <2>2 DEF RingInv, Ordered
<1>10. Ahead'
  BY <1>0 DEF RingInv, Ahead
<1>11. Sleepers'
  BY <1>0 DEF RingInv, Sleepers
<1> QED
  BY <1>5, <1>6, <1>7, <1>8, <1>9, <1>10, <1>11 DEF RingInv

(* The message handed over is a new one, and the first that is.            *)
LEMMA HandOverInv ==
  ASSUME Basics, RingInv, NEW s \in Senders, HandOver(s)
  PROVE  RingInv' /\ last < last'
<1>0. /\ spc[s] = "process" /\ spc' = [spc EXCEPT ![s] = "sending"] /\ last' = own[s]
      /\ UNCHANGED << element, idx_r, idx_w, pushed, own, idx_msg, asleep >>
  BY DEF HandOver, To, ring, msgs, mine
<1>1. spc'[s] = "sending" /\ \A t \in Senders : t # s => spc'[t] = spc[t]
  BY <1>0 DEF Basics
<1>2. \A t \in Senders : spc'[t] \in Active => spc[t] \in Active
  BY <1>0, <1>1 DEF Active, Front, InProcess
<1>3. \A i \in Slots : InRing(i)' <=> InRing(i)
  BY <1>0 DEF InRing
<1>4. Held'
  BY <1>0, <1>2, <1>3 DEF Basics, RingInv, Held, InRing
<1>5. InFront'
  BY <1>0, <1>1 DEF RingInv, InFront, Front, InProcess
<1>6. Apart' /\ Filled' /\ Ordered'
  BY <1>0, <1>2, <1>3 DEF RingInv, Apart, Filled, Ordered, Before
<1>7. idx_msg[s] = idx_r /\ element[idx_r] = own[s] /\ InRing(idx_r)
  BY <1>0 DEF RingInv, InFront, Held, Active, Front, InProcess
<1>8. Ahead'
  <2> SUFFICES ASSUME NEW t \in Senders, spc'[t] \in { "waiting", "clean", "process" }
               PROVE  own[s] < own[t]
    BY <1>0 DEF Ahead
  <2>1. t # s /\ spc[t] \in Active /\ spc[s] \in Active
    BY <1>0, <1>1 DEF Active, Front, InProcess
  <2>2. InRing(idx_msg[t]) /\ element[idx_msg[t]] = own[t] /\ own[t] # own[s]
    BY <2>1 DEF RingInv, Held, Apart
  <2>3. Before(idx_r, idx_msg[t])
    BY <2>2, <1>7 DEF Before, InRing, Basics, Slots
  <2> QED
    BY <2>2, <2>3, <1>7 DEF RingInv, Ordered, Basics
<1>9. Sleepers'
  BY <1>0, <1>1 DEF RingInv, Sleepers
<1>10. last < own[s]
  BY <1>0 DEF RingInv, Ahead
<1> QED
  BY <1>0, <1>4, <1>5, <1>6, <1>8, <1>9, <1>10 DEF RingInv


(* TypeOK of what acknowledgements are made of.                            *)
Acks ==
  /\ ack \in [magic : BOOLEAN, msg_id : Ids \cup {0}, payload : 0..MaxMsgs]
  /\ copying \in [of : 0..MaxMsgs, left : SUBSET Parts]
  /\ owed \subseteq 1..pushed

(* The rest of TypeOK.                                                     *)
Others ==
  /\ msg_id \in [Msgs -> Ids \cup {0}] /\ need \in [Msgs -> BOOLEAN]
  /\ retval \in [Senders -> {0, -1}] /\ got \in [Senders -> 0..MaxMsgs]
  /\ asleep \subseteq Senders /\ stale \in BOOLEAN /\ torn \in BOOLEAN

(* The parts of TypeOK make it up again.                                   *)
LEMMA TypeParts == ASSUME Basics', Acks', Others' PROVE TypeOK'
BY Zenon DEF TypeOK, Basics, Acks, Others

(* What is being copied is the acknowledgement of a message.               *)
Copied == copying.left = {} \/ copying.of \in Msgs

(* The message of a sender in the ring has been pushed.                    *)
LEMMA OwnNumbered ==
  ASSUME Basics, RingInv, NEW s \in Senders, spc[s] \in Active
  PROVE  own[s] \in 1..pushed
BY DEF Basics, RingInv, Held, Filled

(* The initial state is well typed.                                        *)
LEMMA InitType == Init => TypeOK
<1> SUFFICES ASSUME Init PROVE TypeOK
  OBVIOUS
<1>1. Basics
  BY AudioIpiAssumption DEF Init, Basics, Slots, SenderPcs
<1>2. Acks
  BY AudioIpiAssumption DEF Init, Acks, Cleared, NoCopy, Parts
<1>3. Others
  <2>1. 0 \in 0..MaxMsgs
    BY AudioIpiAssumption
  <2> QED
    BY <2>1, Zenon DEF Init, Others
<1> QED
  BY <1>1, <1>2, <1>3, Zenon DEF TypeOK, Basics, Acks, Others

(* A return leaves the sender's variables well typed.                      *)
LEMMA ReturnType ==
  ASSUME TypeOK, NEW s \in Senders, Return(s)
  PROVE  /\ spc' \in [Senders -> SenderPcs] /\ own' \in [Senders -> 0..pushed]
         /\ idx_msg' \in [Senders -> Slots]
         /\ retval' \in [Senders -> {0, -1}] /\ got' \in [Senders -> 0..MaxMsgs]
<1>1. 0 \in 0..pushed /\ 0 \in Slots /\ 0 \in 0..MaxMsgs /\ "idle" \in SenderPcs
  BY AudioIpiAssumption DEF TypeOK, Slots, SenderPcs
<1> QED
  BY <1>1 DEF TypeOK, Return, To

(* SendMessage keeps the types.                                            *)
LEMMA TypeSendMessage ==
  ASSUME TypeOK, NEW s \in Senders, NEW id \in Ids, NEW acked \in BOOLEAN,
         SendMessage(s, id, acked)
  PROVE  TypeOK'
<1> USE AudioIpiAssumption DEF SendMessage, ring, acks, msgs, mine, To,
     Return, Push, Pop, WakeUp
<1>1. Basics'
  BY AfterSlot DEF TypeOK, Basics, IsFull, IsEmpty, SenderPcs, InProcess,
       InPair
<1>2. Acks'
  BY DEF TypeOK, Acks, Cleared, NoCopy, Parts, Msgs
<1>3. Others'
  BY DEF TypeOK, Others, Msgs, InPair
<1> QED
  BY <1>1, <1>2, <1>3, TypeParts

(* CleanAck keeps the types.                                               *)
LEMMA TypeCleanAck ==
  ASSUME TypeOK, NEW s \in Senders, CleanAck(s)
  PROVE  TypeOK'
<1> USE AudioIpiAssumption DEF CleanAck, ring, acks, msgs, mine, To, Return,
     Push, Pop, WakeUp
<1>1. Basics'
  BY AfterSlot DEF TypeOK, Basics, IsFull, IsEmpty, SenderPcs, InProcess,
       InPair
<1>2. Acks'
  BY DEF TypeOK, Acks, Cleared, NoCopy, Parts, Msgs
<1>3. Others'
  BY DEF TypeOK, Others, Msgs, InPair
<1> QED
  BY <1>1, <1>2, <1>3, TypeParts

(* Doze keeps the types.                                                   *)
LEMMA TypeDoze == ASSUME TypeOK, NEW s \in Senders, Doze(s) PROVE TypeOK'
<1> USE AudioIpiAssumption DEF Doze, ring, acks, msgs, mine, To, Return, Push,
     Pop, WakeUp
<1>1. Basics'
  BY AfterSlot DEF TypeOK, Basics, IsFull, IsEmpty, SenderPcs, InProcess,
       InPair
<1>2. Acks'
  BY DEF TypeOK, Acks, Cleared, NoCopy, Parts, Msgs
<1>3. Others'
  BY DEF TypeOK, Others, Msgs, InPair
<1> QED
  BY <1>1, <1>2, <1>3, TypeParts

(* Proceed keeps the types.                                                *)
LEMMA TypeProceed == ASSUME TypeOK, NEW s \in Senders, Proceed(s) PROVE TypeOK'
<1> USE AudioIpiAssumption DEF Proceed, ring, acks, msgs, mine, To, Return,
     Push, Pop, WakeUp
<1>1. Basics'
  BY AfterSlot DEF TypeOK, Basics, IsFull, IsEmpty, SenderPcs, InProcess,
       InPair
<1>2. Acks'
  BY DEF TypeOK, Acks, Cleared, NoCopy, Parts, Msgs
<1>3. Others'
  BY DEF TypeOK, Others, Msgs, InPair
<1> QED
  BY <1>1, <1>2, <1>3, TypeParts

(* Interrupted keeps the types.                                            *)
LEMMA TypeInterrupted ==
  ASSUME TypeOK, NEW s \in Senders, Interrupted(s)
  PROVE  TypeOK'
<1> USE DEF Interrupted, ring, acks, msgs, mine, Pop, WakeUp
<1>0. /\ spc' \in [Senders -> SenderPcs] /\ own' \in [Senders -> 0..pushed]
      /\ idx_msg' \in [Senders -> Slots]
      /\ retval' \in [Senders -> {0, -1}] /\ got' \in [Senders -> 0..MaxMsgs]
  <2>1. CASE Return(s)
    BY <2>1, ReturnType
  <2>2. CASE ~Return(s)
    BY <2>2 DEF TypeOK, To, SenderPcs
  <2> QED
    BY <2>1, <2>2
<1>1. Basics'
  BY <1>0, AfterSlot DEF TypeOK, Basics
<1>2. Acks'
  BY DEF TypeOK, Acks
<1>3. Others'
  BY <1>0 DEF TypeOK, Others
<1> QED
  BY <1>1, <1>2, <1>3, TypeParts

(* Told keeps the types.                                                   *)
LEMMA TypeTold == ASSUME TypeOK, NEW s \in Senders, Told(s) PROVE TypeOK'
<1> USE AudioIpiAssumption DEF Told, ring, acks, msgs, mine, To, Return, Push,
     Pop, WakeUp
<1>1. Basics'
  BY AfterSlot DEF TypeOK, Basics, IsFull, IsEmpty, SenderPcs, InProcess,
       InPair
<1>2. Acks'
  BY DEF TypeOK, Acks, Cleared, NoCopy, Parts, Msgs
<1>3. Others'
  BY DEF TypeOK, Others, Msgs, InPair
<1> QED
  BY <1>1, <1>2, <1>3, TypeParts

(* Acknowledged keeps the types.                                           *)
LEMMA TypeAcknowledged ==
  ASSUME TypeOK, NEW s \in Senders, Acknowledged(s)
  PROVE  TypeOK'
<1> USE AudioIpiAssumption DEF Acknowledged, ring, acks, msgs, mine, To,
     Return, Push, Pop, WakeUp
<1>1. Basics'
  BY AfterSlot DEF TypeOK, Basics, IsFull, IsEmpty, SenderPcs, InProcess,
       InPair
<1>2. Acks'
  BY DEF TypeOK, Acks, Cleared, NoCopy, Parts, Msgs
<1>3. Others'
  BY DEF TypeOK, Others, Msgs, InPair
<1> QED
  BY <1>1, <1>2, <1>3, TypeParts

(* CheckAck keeps the types.                                               *)
LEMMA TypeCheckAck ==
  ASSUME TypeOK, NEW s \in Senders, CheckAck(s)
  PROVE  TypeOK'
<1> USE AudioIpiAssumption DEF CheckAck, ring, acks, msgs, mine, To, Return,
     Push, Pop, WakeUp
<1>1. Basics'
  BY AfterSlot DEF TypeOK, Basics, IsFull, IsEmpty, SenderPcs, InProcess,
       InPair
<1>2. Acks'
  BY DEF TypeOK, Acks, Cleared, NoCopy, Parts, Msgs
<1>3. Others'
  BY DEF TypeOK, Others, Msgs, InPair
<1> QED
  BY <1>1, <1>2, <1>3, TypeParts

(* TakeAck keeps the types.                                                *)
LEMMA TypeTakeAck == ASSUME TypeOK, NEW s \in Senders, TakeAck(s) PROVE TypeOK'
<1> USE AudioIpiAssumption DEF TakeAck, ring, acks, msgs, mine, To, Return,
     Push, Pop, WakeUp
<1>1. Basics'
  BY AfterSlot DEF TypeOK, Basics, IsFull, IsEmpty, SenderPcs, InProcess,
       InPair
<1>2. Acks'
  BY DEF TypeOK, Acks, Cleared, NoCopy, Parts, Msgs
<1>3. Others'
  BY DEF TypeOK, Others, Msgs, InPair
<1> QED
  BY <1>1, <1>2, <1>3, TypeParts

(* TimedOut keeps the types.                                               *)
LEMMA TypeTimedOut ==
  ASSUME TypeOK, NEW s \in Senders, TimedOut(s)
  PROVE  TypeOK'
<1> USE AudioIpiAssumption DEF TimedOut, ring, acks, msgs, mine, To, Return,
     Push, Pop, WakeUp
<1>1. Basics'
  BY AfterSlot DEF TypeOK, Basics, IsFull, IsEmpty, SenderPcs, InProcess,
       InPair
<1>2. Acks'
  BY DEF TypeOK, Acks, Cleared, NoCopy, Parts, Msgs
<1>3. Others'
  BY DEF TypeOK, Others, Msgs, InPair
<1> QED
  BY <1>1, <1>2, <1>3, TypeParts

(* ClearAck keeps the types.                                               *)
LEMMA TypeClearAck ==
  ASSUME TypeOK, NEW s \in Senders, ClearAck(s)
  PROVE  TypeOK'
<1> USE AudioIpiAssumption DEF ClearAck, ring, acks, msgs, mine, To, Return,
     Push, Pop, WakeUp
<1>1. Basics'
  BY AfterSlot DEF TypeOK, Basics, IsFull, IsEmpty, SenderPcs, InProcess,
       InPair
<1>2. Acks'
  BY DEF TypeOK, Acks, Cleared, NoCopy, Parts, Msgs
<1>3. Others'
  BY DEF TypeOK, Others, Msgs, InPair
<1> QED
  BY <1>1, <1>2, <1>3, TypeParts

(* WakeNext keeps the types.                                               *)
LEMMA TypeWakeNext ==
  ASSUME TypeOK, NEW s \in Senders, WakeNext(s)
  PROVE  TypeOK'
<1> USE DEF WakeNext, ring, acks, msgs, mine, Pop, WakeUp
<1>0. /\ spc' \in [Senders -> SenderPcs] /\ own' \in [Senders -> 0..pushed]
      /\ idx_msg' \in [Senders -> Slots]
      /\ retval' \in [Senders -> {0, -1}] /\ got' \in [Senders -> 0..MaxMsgs]
  <2>1. CASE Return(s)
    BY <2>1, ReturnType
  <2>2. CASE ~Return(s)
    BY <2>2 DEF TypeOK, To, SenderPcs
  <2> QED
    BY <2>1, <2>2
<1>1. Basics'
  BY <1>0, AfterSlot DEF TypeOK, Basics
<1>2. Acks'
  BY DEF TypeOK, Acks
<1>3. Others'
  BY <1>0 DEF TypeOK, Others
<1> QED
  BY <1>1, <1>2, <1>3, TypeParts

(* HandOver keeps the types.                                               *)
LEMMA TypeHandOver ==
  ASSUME TypeOK, RingInv, NEW s \in Senders, HandOver(s)
  PROVE  TypeOK'
<1> USE DEF HandOver, ring, acks, msgs, mine, To, WakeUp
<1>1. Basics'
  BY DEF TypeOK, Basics, SenderPcs, InProcess
<1>2. Acks'
  <2>1. own[s] \in 1..pushed
    BY BasicsHold, OwnNumbered DEF Active, Front, InProcess
  <2>2. owed' \subseteq 1..pushed
    BY <2>1 DEF TypeOK
  <2> QED
    BY <2>2, Zenon DEF TypeOK, Acks
<1>3. Others'
  BY DEF TypeOK, Others
<1> QED
  BY <1>1, <1>2, <1>3, TypeParts

(* PopMessage keeps the types.                                             *)
LEMMA TypePopMessage ==
  ASSUME TypeOK, NEW s \in Senders, PopMessage(s)
  PROVE  TypeOK'
<1> USE DEF PopMessage, ring, acks, msgs, mine, Pop, WakeUp
<1>0. /\ spc' \in [Senders -> SenderPcs] /\ own' \in [Senders -> 0..pushed]
      /\ idx_msg' \in [Senders -> Slots]
      /\ retval' \in [Senders -> {0, -1}] /\ got' \in [Senders -> 0..MaxMsgs]
  <2>1. CASE Return(s)
    BY <2>1, ReturnType
  <2>2. CASE ~Return(s)
    BY <2>2 DEF TypeOK, To, SenderPcs
  <2> QED
    BY <2>1, <2>2
<1>1. Basics'
  BY <1>0, AfterSlot DEF TypeOK, Basics
<1>2. Acks'
  BY DEF TypeOK, Acks
<1>3. Others'
  BY <1>0 DEF TypeOK, Others
<1> QED
  BY <1>1, <1>2, <1>3, TypeParts

(* AckBack keeps the types.                                                *)
LEMMA TypeAckBack == ASSUME TypeOK, NEW m \in Msgs, AckBack(m) PROVE TypeOK'
<1> USE DEF AckBack, ring, acks, msgs, mine, To, WakeUp
<1>1. Basics'
  BY DEF TypeOK, Basics, SenderPcs, InProcess
<1>2. Acks'
  <2>1. m \in 0..MaxMsgs
    BY DEF Msgs
  <2>2. copying' \in [of : 0..MaxMsgs, left : SUBSET Parts]
    BY <2>1
  <2>3. owed' \subseteq 1..pushed
    BY DEF TypeOK
  <2> QED
    BY <2>2, <2>3, Zenon DEF TypeOK, Acks
<1>3. Others'
  BY DEF TypeOK, Others
<1> QED
  BY <1>1, <1>2, <1>3, TypeParts

(* CopyPart keeps the types.                                               *)
LEMMA TypeCopyPart ==
  ASSUME TypeOK, Copied, NEW p \in Parts, CopyPart(p)
  PROVE  TypeOK'
<1> USE DEF CopyPart, ring, acks, msgs, mine, To, WakeUp
<1>1. Basics'
  BY DEF TypeOK, Basics, SenderPcs, InProcess
<1>2. Acks'
  <2>1. copying' \in [of : 0..MaxMsgs, left : SUBSET Parts]
    BY AudioIpiAssumption DEF TypeOK, NoCopy
  <2>2. ack' \in [magic : BOOLEAN, msg_id : Ids \cup {0}, payload : 0..MaxMsgs]
    <3>1. copying.of \in 0..MaxMsgs
      BY DEF TypeOK
    <3>2. p = "msg_id" => msg_id[copying.of] \in Ids \cup {0}
      BY DEF TypeOK, Copied
    <3>3. CASE p = "magic"
      BY <3>3 DEF TypeOK
    <3>4. CASE p = "msg_id"
      BY <3>2, <3>4 DEF TypeOK
    <3>5. CASE p = "payload"
      BY <3>1, <3>5 DEF TypeOK
    <3> QED
      BY <3>3, <3>4, <3>5 DEF Parts
  <2> QED
    BY <2>1, <2>2 DEF TypeOK, Acks
<1>3. Others'
  BY DEF TypeOK, Others
<1> QED
  BY <1>1, <1>2, <1>3, TypeParts

(* CleanAck keeps the ring's invariant.                                    *)
LEMMA CleanAckInv ==
  ASSUME Basics, RingInv, NEW s \in Senders, CleanAck(s)
  PROVE  RingInv'
BY RingStays DEF CleanAck, ring, acks, msgs, mine, To, Return, Push, Pop,
     WakeUp, Basics, RingInv, Sleepers, Active, Front, InProcess

(* Doze keeps the ring's invariant.                                        *)
LEMMA DozeInv ==
  ASSUME Basics, RingInv, NEW s \in Senders, Doze(s)
  PROVE  RingInv'
BY RingStays DEF Doze, ring, acks, msgs, mine, To, Return, Push, Pop, WakeUp,
     Basics, RingInv, Sleepers, Active, Front, InProcess

(* Proceed keeps the ring's invariant.                                     *)
LEMMA ProceedInv ==
  ASSUME Basics, RingInv, NEW s \in Senders, Proceed(s)
  PROVE  RingInv'
BY RingStays DEF Proceed, ring, acks, msgs, mine, To, Return, Push, Pop,
     WakeUp, Basics, RingInv, Sleepers, Active, Front, InProcess

(* Interrupted keeps the ring's invariant.                                 *)
LEMMA InterruptedInv ==
  ASSUME Basics, RingInv, NEW s \in Senders, Interrupted(s)
  PROVE  RingInv'
BY RingStays DEF Interrupted, ring, acks, msgs, mine, To, Return, Push, Pop,
     WakeUp, Basics, RingInv, Sleepers, Active, Front, InProcess

(* Told keeps the ring's invariant.                                        *)
LEMMA ToldInv ==
  ASSUME Basics, RingInv, NEW s \in Senders, Told(s)
  PROVE  RingInv'
BY RingStays DEF Told, ring, acks, msgs, mine, To, Return, Push, Pop, WakeUp,
     Basics, RingInv, Sleepers, Active, Front, InProcess

(* Acknowledged keeps the ring's invariant.                                *)
LEMMA AcknowledgedInv ==
  ASSUME Basics, RingInv, NEW s \in Senders, Acknowledged(s)
  PROVE  RingInv'
BY RingStays DEF Acknowledged, ring, acks, msgs, mine, To, Return, Push, Pop,
     WakeUp, Basics, RingInv, Sleepers, Active, Front, InProcess

(* CheckAck keeps the ring's invariant.                                    *)
LEMMA CheckAckInv ==
  ASSUME Basics, RingInv, NEW s \in Senders, CheckAck(s)
  PROVE  RingInv'
BY RingStays DEF CheckAck, ring, acks, msgs, mine, To, Return, Push, Pop,
     WakeUp, Basics, RingInv, Sleepers, Active, Front, InProcess

(* TakeAck keeps the ring's invariant.                                     *)
LEMMA TakeAckInv ==
  ASSUME Basics, RingInv, NEW s \in Senders, TakeAck(s)
  PROVE  RingInv'
BY RingStays DEF TakeAck, ring, acks, msgs, mine, To, Return, Push, Pop,
     WakeUp, Basics, RingInv, Sleepers, Active, Front, InProcess

(* TimedOut keeps the ring's invariant.                                    *)
LEMMA TimedOutInv ==
  ASSUME Basics, RingInv, NEW s \in Senders, TimedOut(s)
  PROVE  RingInv'
BY RingStays DEF TimedOut, ring, acks, msgs, mine, To, Return, Push, Pop,
     WakeUp, Basics, RingInv, Sleepers, Active, Front, InProcess

(* ClearAck keeps the ring's invariant.                                    *)
LEMMA ClearAckInv ==
  ASSUME Basics, RingInv, NEW s \in Senders, ClearAck(s)
  PROVE  RingInv'
BY RingStays DEF ClearAck, ring, acks, msgs, mine, To, Return, Push, Pop,
     WakeUp, Basics, RingInv, Sleepers, Active, Front, InProcess

(* WakeNext keeps the ring's invariant.                                    *)
LEMMA WakeNextInv ==
  ASSUME Basics, RingInv, NEW s \in Senders, WakeNext(s)
  PROVE  RingInv'
BY RingStays DEF WakeNext, ring, acks, msgs, mine, To, Return, Push, Pop,
     WakeUp, Basics, RingInv, Sleepers, Active, Front, InProcess

(* AckBack keeps the ring's invariant.                                     *)
LEMMA AckBackInv ==
  ASSUME Basics, RingInv, NEW m \in Msgs, AckBack(m)
  PROVE  RingInv'
BY RingStays DEF AckBack, ring, acks, msgs, mine, To, Return, Push, Pop,
     WakeUp, Basics, RingInv, Sleepers, Active, Front, InProcess

(* CopyPart keeps the ring's invariant.                                    *)
LEMMA CopyPartInv ==
  ASSUME Basics, RingInv, NEW p \in Parts, CopyPart(p)
  PROVE  RingInv'
BY RingStays DEF CopyPart, ring, acks, msgs, mine, To, Return, Push, Pop,
     WakeUp, Basics, RingInv, Sleepers, Active, Front, InProcess

(* Every step keeps the types.                                             *)
LEMMA NextType ==
  ASSUME TypeOK, RingInv, Copied, [Next]_vars
  PROVE  TypeOK'
<1>1. CASE UNCHANGED vars
  BY <1>1 DEF vars, ring, acks, msgs, mine, TypeOK
<1>2. ASSUME NEW s \in Senders, Step(s) \/ Interrupted(s)
      PROVE  TypeOK'
  <2>1. CASE CleanAck(s)
    BY <2>1, TypeCleanAck
  <2>2. CASE Doze(s)
    BY <2>2, TypeDoze
  <2>3. CASE Proceed(s)
    BY <2>3, TypeProceed
  <2>4. CASE HandOver(s)
    BY <2>4, TypeHandOver
  <2>5. CASE Told(s)
    BY <2>5, TypeTold
  <2>6. CASE Acknowledged(s)
    BY <2>6, TypeAcknowledged
  <2>7. CASE CheckAck(s)
    BY <2>7, TypeCheckAck
  <2>8. CASE TakeAck(s)
    BY <2>8, TypeTakeAck
  <2>9. CASE TimedOut(s)
    BY <2>9, TypeTimedOut
  <2>10. CASE ClearAck(s)
    BY <2>10, TypeClearAck
  <2>11. CASE PopMessage(s)
    BY <2>11, TypePopMessage
  <2>12. CASE WakeNext(s)
    BY <2>12, TypeWakeNext
  <2>13. CASE Interrupted(s)
    BY <2>13, TypeInterrupted
  <2> QED
    BY <1>2, <2>1, <2>2, <2>3, <2>4, <2>5, <2>6, <2>7, <2>8, <2>9, <2>10,
         <2>11, <2>12, <2>13 DEF Step
<1>3. ASSUME NEW s \in Senders, NEW id \in Ids, NEW acked \in BOOLEAN, SendMessage(s, id, acked)
      PROVE  TypeOK'
  BY <1>3, TypeSendMessage
<1>4. ASSUME NEW m \in Msgs, AckBack(m)
      PROVE  TypeOK'
  BY <1>4, TypeAckBack
<1>5. ASSUME NEW p \in Parts, CopyPart(p)
      PROVE  TypeOK'
  BY <1>5, TypeCopyPart
<1> QED
  BY <1>1, <1>2, <1>3, <1>4, <1>5 DEF Next

(* Every step keeps the ring's invariant.                                  *)
LEMMA NextInv ==
  ASSUME Basics, RingInv, [Next]_vars
  PROVE  RingInv'
<1>1. CASE UNCHANGED vars
  BY <1>1, RingStays DEF vars, ring, msgs, mine, RingInv, Sleepers, Active
<1>2. ASSUME NEW s \in Senders, Step(s) \/ Interrupted(s)
      PROVE  RingInv'
  <2>1. CASE CleanAck(s)
    BY <2>1, CleanAckInv
  <2>2. CASE Doze(s)
    BY <2>2, DozeInv
  <2>3. CASE Proceed(s)
    BY <2>3, ProceedInv
  <2>4. CASE HandOver(s)
    BY <2>4, HandOverInv
  <2>5. CASE Told(s)
    BY <2>5, ToldInv
  <2>6. CASE Acknowledged(s)
    BY <2>6, AcknowledgedInv
  <2>7. CASE CheckAck(s)
    BY <2>7, CheckAckInv
  <2>8. CASE TakeAck(s)
    BY <2>8, TakeAckInv
  <2>9. CASE TimedOut(s)
    BY <2>9, TimedOutInv
  <2>10. CASE ClearAck(s)
    BY <2>10, ClearAckInv
  <2>11. CASE PopMessage(s)
    BY <2>11, PopInv
  <2>12. CASE WakeNext(s)
    BY <2>12, WakeNextInv
  <2>13. CASE Interrupted(s)
    BY <2>13, InterruptedInv
  <2> QED
    BY <1>2, <2>1, <2>2, <2>3, <2>4, <2>5, <2>6, <2>7, <2>8, <2>9, <2>10,
         <2>11, <2>12, <2>13 DEF Step
<1>3. ASSUME NEW s \in Senders, NEW id \in Ids, NEW acked \in BOOLEAN, SendMessage(s, id, acked)
      PROVE  RingInv'
  BY <1>3, SendInv
<1>4. ASSUME NEW m \in Msgs, AckBack(m)
      PROVE  RingInv'
  BY <1>4, AckBackInv
<1>5. ASSUME NEW p \in Parts, CopyPart(p)
      PROVE  RingInv'
  BY <1>5, CopyPartInv
<1> QED
  BY <1>1, <1>2, <1>3, <1>4, <1>5 DEF Next

(* Every step keeps Copied.                                                *)
LEMMA NextCopied ==
  ASSUME Copied, [Next]_vars
  PROVE  Copied'
<1>1. CASE UNCHANGED vars
  BY <1>1 DEF vars, acks, Copied
<1>2. ASSUME NEW s \in Senders, Step(s) \/ Interrupted(s)
      PROVE  Copied'
  <2>1. CASE CleanAck(s)
    BY <2>1, Zenon DEF CleanAck, acks, Copied
  <2>2. CASE Doze(s)
    BY <2>2, Zenon DEF Doze, acks, Copied
  <2>3. CASE Proceed(s)
    BY <2>3, Zenon DEF Proceed, acks, Copied
  <2>4. CASE HandOver(s)
    BY <2>4, Zenon DEF HandOver, acks, Copied
  <2>5. CASE Told(s)
    BY <2>5, Zenon DEF Told, acks, Copied
  <2>6. CASE Acknowledged(s)
    BY <2>6, Zenon DEF Acknowledged, acks, Copied
  <2>7. CASE CheckAck(s)
    BY <2>7, Zenon DEF CheckAck, acks, Copied
  <2>8. CASE TakeAck(s)
    BY <2>8, Zenon DEF TakeAck, acks, Copied
  <2>9. CASE TimedOut(s)
    BY <2>9, Zenon DEF TimedOut, acks, Copied
  <2>10. CASE ClearAck(s)
    BY <2>10, Zenon DEF ClearAck, acks, Copied
  <2>11. CASE PopMessage(s)
    BY <2>11, Zenon DEF PopMessage, acks, Copied
  <2>12. CASE WakeNext(s)
    BY <2>12, Zenon DEF WakeNext, acks, Copied
  <2>13. CASE Interrupted(s)
    BY <2>13, Zenon DEF Interrupted, acks, Copied
  <2> QED
    BY <1>2, <2>1, <2>2, <2>3, <2>4, <2>5, <2>6, <2>7, <2>8, <2>9, <2>10,
         <2>11, <2>12, <2>13 DEF Step
<1>3. ASSUME NEW s \in Senders, NEW id \in Ids, NEW acked \in BOOLEAN, SendMessage(s, id, acked)
      PROVE  Copied'
  BY <1>3, Zenon DEF SendMessage, acks, Copied
<1>4. ASSUME NEW m \in Msgs, AckBack(m)
      PROVE  Copied'
  BY <1>4, SMT DEF AckBack, Copied
<1>5. ASSUME NEW p \in Parts, CopyPart(p)
      PROVE  Copied'
  BY <1>5, SMT DEF CopyPart, NoCopy, Copied
<1> QED
  BY <1>1, <1>2, <1>3, <1>4, <1>5 DEF Next

(* A pop leaves the new head a wake-up, or no sleeper.                     *)
LEMMA WokenPop ==
  ASSUME Basics, RingInv, RingInv', Woken, NEW s \in Senders, PopMessage(s)
  PROVE  Woken'
<1>1. CASE After(idx_r) = idx_w
  <2>1. \A i \in Slots : ~InRing(i)'
    BY <1>1 DEF PopMessage, Pop, InRing, Basics, Slots
  <2>2. \A t \in asleep' : t \in Senders /\ InRing(idx_msg[t])'
    BY DEF RingInv, Sleepers, Held, Active
  <2>3. \A t \in Senders : idx_msg'[t] \in Slots
    <3>1. 0 \in Slots
      BY AudioIpiAssumption DEF Slots
    <3> QED
      BY <1>1, <3>1 DEF PopMessage, Return, Basics
  <2> QED
    BY <2>1, <2>2, <2>3 DEF InRing, Woken
<1>2. CASE After(idx_r) # idx_w
  BY <1>2 DEF PopMessage, To, Basics, Woken
<1> QED
  BY <1>1, <1>2

(* No step loses a wake-up.                                                *)
LEMMA NextWoken ==
  ASSUME Basics, RingInv, RingInv', Woken, [Next]_vars
  PROVE  Woken'
<1>1. CASE UNCHANGED vars
  BY <1>1 DEF vars, ring, mine, Woken
<1>2. ASSUME NEW s \in Senders, Step(s) \/ Interrupted(s)
      PROVE  Woken'
  <2>1. CASE CleanAck(s)
    BY <2>1, SMT DEF CleanAck, ring, acks, msgs, mine, To, Return, WakeUp,
         Woken, Basics, RingInv, Sleepers
  <2>2. CASE Doze(s)
    BY <2>2, SMT DEF Doze, ring, acks, msgs, mine, To, Return, WakeUp, Woken,
         Basics, RingInv, Sleepers
  <2>3. CASE Proceed(s)
    BY <2>3, SMT DEF Proceed, ring, acks, msgs, mine, To, Return, WakeUp,
         Woken, Basics, RingInv, Sleepers
  <2>4. CASE HandOver(s)
    BY <2>4, SMT DEF HandOver, ring, acks, msgs, mine, To, Return, WakeUp,
         Woken, Basics, RingInv, Sleepers
  <2>5. CASE Told(s)
    BY <2>5, SMT DEF Told, ring, acks, msgs, mine, To, Return, WakeUp, Woken,
         Basics, RingInv, Sleepers
  <2>6. CASE Acknowledged(s)
    BY <2>6, SMT DEF Acknowledged, ring, acks, msgs, mine, To, Return, WakeUp,
         Woken, Basics, RingInv, Sleepers
  <2>7. CASE CheckAck(s)
    BY <2>7, SMT DEF CheckAck, ring, acks, msgs, mine, To, Return, WakeUp,
         Woken, Basics, RingInv, Sleepers
  <2>8. CASE TakeAck(s)
    BY <2>8, SMT DEF TakeAck, ring, acks, msgs, mine, To, Return, WakeUp,
         Woken, Basics, RingInv, Sleepers
  <2>9. CASE TimedOut(s)
    BY <2>9, SMT DEF TimedOut, ring, acks, msgs, mine, To, Return, WakeUp,
         Woken, Basics, RingInv, Sleepers
  <2>10. CASE ClearAck(s)
    BY <2>10, SMT DEF ClearAck, ring, acks, msgs, mine, To, Return, WakeUp,
         Woken, Basics, RingInv, Sleepers
  <2>11. CASE PopMessage(s)
    BY <2>11, WokenPop
  <2>12. CASE WakeNext(s)
    BY <2>12, SMT DEF WakeNext, ring, acks, msgs, mine, To, Return, WakeUp,
         Woken, Basics, RingInv, Sleepers
  <2>13. CASE Interrupted(s)
    BY <2>13, SMT DEF Interrupted, ring, acks, msgs, mine, To, Return, WakeUp,
         Woken, Basics, RingInv, Sleepers
  <2> QED
    BY <1>2, <2>1, <2>2, <2>3, <2>4, <2>5, <2>6, <2>7, <2>8, <2>9, <2>10,
         <2>11, <2>12, <2>13 DEF Step
<1>3. ASSUME NEW s \in Senders, NEW id \in Ids, NEW acked \in BOOLEAN, SendMessage(s, id, acked)
      PROVE  Woken'
  BY <1>3, SMT DEF SendMessage, Push, ring, mine, To, Woken, Basics, RingInv,
       Sleepers
<1>4. ASSUME NEW m \in Msgs, AckBack(m)
      PROVE  Woken'
  BY <1>4, SMT DEF AckBack, ring, mine, Woken
<1>5. ASSUME NEW p \in Parts, CopyPart(p)
      PROVE  Woken'
  BY <1>5, SMT DEF CopyPart, ring, mine, WakeUp, Woken
<1> QED
  BY <1>1, <1>2, <1>3, <1>4, <1>5 DEF Next

(* What the DSP is given is newer than what it was given.                  *)
LEMMA NextOrder ==
  ASSUME Basics, RingInv, [Next]_vars
  PROVE  last' # last => last < last'
<1>1. CASE UNCHANGED vars
  BY <1>1 DEF vars
<1>2. ASSUME NEW s \in Senders, Step(s) \/ Interrupted(s)
      PROVE  last' # last => last < last'
  <2>1. CASE CleanAck(s)
    BY <2>1 DEF CleanAck
  <2>2. CASE Doze(s)
    BY <2>2 DEF Doze
  <2>3. CASE Proceed(s)
    BY <2>3 DEF Proceed
  <2>4. CASE HandOver(s)
    BY <2>4, HandOverInv
  <2>5. CASE Told(s)
    BY <2>5 DEF Told
  <2>6. CASE Acknowledged(s)
    BY <2>6 DEF Acknowledged
  <2>7. CASE CheckAck(s)
    BY <2>7 DEF CheckAck
  <2>8. CASE TakeAck(s)
    BY <2>8 DEF TakeAck
  <2>9. CASE TimedOut(s)
    BY <2>9 DEF TimedOut
  <2>10. CASE ClearAck(s)
    BY <2>10 DEF ClearAck
  <2>11. CASE PopMessage(s)
    BY <2>11 DEF PopMessage
  <2>12. CASE WakeNext(s)
    BY <2>12 DEF WakeNext
  <2>13. CASE Interrupted(s)
    BY <2>13 DEF Interrupted
  <2> QED
    BY <1>2, <2>1, <2>2, <2>3, <2>4, <2>5, <2>6, <2>7, <2>8, <2>9, <2>10,
         <2>11, <2>12, <2>13 DEF Step
<1>3. ASSUME NEW s \in Senders, NEW id \in Ids, NEW acked \in BOOLEAN, SendMessage(s, id, acked)
      PROVE  last' # last => last < last'
  BY <1>3, Zenon DEF SendMessage
<1>4. ASSUME NEW m \in Msgs, AckBack(m)
      PROVE  last' # last => last < last'
  BY <1>4, Zenon DEF AckBack
<1>5. ASSUME NEW p \in Parts, CopyPart(p)
      PROVE  last' # last => last < last'
  BY <1>5, Zenon DEF CopyPart
<1> QED
  BY <1>1, <1>2, <1>3, <1>4, <1>5 DEF Next

(* The inductive invariant.                                                *)
IInv == TypeOK /\ RingInv /\ Copied

(* The inductive invariant holds.                                          *)
LEMMA IInvHolds == Spec => []IInv
<1>1. Init => IInv
  BY InitType, InitInv DEF Init, Copied, NoCopy, IInv
<1>2. IInv /\ [Next]_vars => IInv'
  BY BasicsHold, NextType, NextInv, NextCopied DEF IInv
<1> QED
  BY <1>1, <1>2, PTL DEF Spec

(* Every variable of AudioIpi keeps its type.                              *)
THEOREM AudioTypeCorrect == Spec => []TypeOK
<1>1. IInv => TypeOK
  BY DEF IInv
<1> QED
  BY IInvHolds, <1>1, PTL

(* Who is at work on a message is the sender of the ring's first message.  *)
THEOREM AudioTurn == Spec => []Turn
<1>1. IInv => Turn
  <2> SUFFICES ASSUME IInv, NEW s \in Senders, spc[s] \in Front
               PROVE  ~IsEmpty /\ idx_msg[s] = idx_r /\ element[idx_r] = own[s]
    BY DEF Turn, Front
  <2>1. idx_msg[s] = idx_r /\ InRing(idx_r) /\ element[idx_r] = own[s]
    BY DEF IInv, RingInv, InFront, Held, Active
  <2> QED
    BY <2>1, BasicsHold DEF IInv, Basics, InRing, IsEmpty, Slots
<1> QED
  BY IInvHolds, <1>1, PTL

(* Who sleeps on the slot that is now the first is about to be woken.      *)
THEOREM AudioWoken == Spec => []Woken
<1>1. Init => Woken
  BY DEF Init, Woken
<1>2. IInv /\ IInv' /\ Woken /\ [Next]_vars => Woken'
  BY BasicsHold, NextWoken DEF IInv
<1> QED
  BY IInvHolds, <1>1, <1>2, PTL DEF Spec

(* Messages go to the DSP in the order they came into the ring.            *)
THEOREM AudioInOrder == Spec => InOrder
<1>1. IInv /\ [Next]_vars => [last' # last => last' > last]_vars
  <2> SUFFICES ASSUME IInv, [Next]_vars, last' # last PROVE last' > last
    OBVIOUS
  <2>1. last \in Int /\ last < last'
    BY BasicsHold, NextOrder DEF IInv, Basics
  <2>2. last' \in Int
    BY NextType, BasicsHold DEF IInv, TypeOK
  <2> QED
    BY <2>1, <2>2
<1> QED
  BY IInvHolds, <1>1, PTL DEF Spec, InOrder

-----------------------------------------------------------------------------
(* The DSP has answered the message of s, which s has not dealt with.      *)
Answered(s) ==
  spc[s] \in { "sending", "ack", "pair", "take" } /\ need[own[s]] /\ own[s] \notin owed

(* What is copied is for who still waits for it.                           *)
CopyWanted ==
  copying # NoCopy =>
    /\ copying.left # {}
    /\ \E s \in Senders : Answered(s) /\ spc[s] # "take" /\ own[s] = copying.of
(* What has been copied, too, or it is about to be cleared.                *)
AckWanted == ack # Cleared => \E s \in Senders : Answered(s) \/ spc[s] = "clear"
(* Once its payload is copied, it is the answer to the sender's message.   *)
AckOwn == \A s \in Senders : Answered(s) =>
            "payload" \in copying.left \/ ack.payload = own[s]
(* Who looks at an answer has been answered.                               *)
Looked == \A s \in Senders : spc[s] \in { "pair", "take" } => Answered(s)
(* Only who has its own answer has succeeded.                              *)
Success ==
  \A s \in Senders :
    /\ spc[s] \in { "idle", "clean", "waiting", "process", "sending" } => retval[s] = -1
    /\ spc[s] \in { "clear", "pop", "wake" } =>
         own[s] \in 1..pushed /\ (need[own[s]] /\ retval[s] = 0 => got[s] = own[s])

(* The invariant of the acknowledgement, while none comes late or is torn. *)
AckInv ==
  /\ \A m \in owed : need[m]
  /\ ~stale /\ ~torn => CopyWanted /\ AckWanted /\ AckOwn /\ Looked /\ Success

(* One sender at most is at work on the DSP.                               *)
LEMMA OneFront ==
  ASSUME RingInv, NEW s \in Senders, NEW t \in Senders,
         spc[s] \in Front, spc[t] \in Front
  PROVE  s = t
BY DEF RingInv, InFront, Held, Apart, Active

(* Nothing is acknowledged at first.                                       *)
LEMMA InitAck == Init => AckInv
BY DEF Init, AckInv, CopyWanted, AckWanted, AckOwn, Looked, Success, Answered

(* CleanAck keeps the acknowledgement's invariant.                       *)
LEMMA AckCleanAck ==
  ASSUME TypeOK, TypeOK', RingInv, AckInv,
         NEW s \in Senders, CleanAck(s)
  PROVE  AckInv'
<1> USE DEF CleanAck, ring, msgs, mine, To, Front, Active, InProcess,
     Answered, TypeOK
<1>1. \A m \in owed' : need'[m]
  BY DEF AckInv
<1> SUFFICES ASSUME ~stale', ~torn'
             PROVE  (CopyWanted /\ AckWanted /\ AckOwn /\ Looked /\ Success)'
  BY <1>1 DEF AckInv
<1>2. ~stale /\ ~torn
  OBVIOUS
<1>3. CopyWanted /\ AckWanted /\ AckOwn /\ Looked /\ Success /\ \A m \in owed : need[m]
  BY <1>2 DEF AckInv
<1>4. CopyWanted'
  BY <1>2, <1>3 DEF CopyWanted
<1>5. AckWanted'
  BY <1>2, <1>3 DEF AckWanted
<1>6. AckOwn'
  BY <1>2, <1>3, OneFront DEF AckOwn
<1>7. Looked'
  BY <1>2, <1>3 DEF Looked
<1>8. Success'
  BY <1>2, <1>3 DEF Success
<1> QED
  BY <1>4, <1>5, <1>6, <1>7, <1>8

(* Doze keeps the acknowledgement's invariant.                           *)
LEMMA AckDoze ==
  ASSUME TypeOK, TypeOK', RingInv, AckInv,
         NEW s \in Senders, Doze(s)
  PROVE  AckInv'
<1> USE DEF Doze, ring, acks, msgs, mine, Front, Active, InProcess,
     Answered, TypeOK
<1>1. \A m \in owed' : need'[m]
  BY DEF AckInv
<1> SUFFICES ASSUME ~stale', ~torn'
             PROVE  (CopyWanted /\ AckWanted /\ AckOwn /\ Looked /\ Success)'
  BY <1>1 DEF AckInv
<1>2. ~stale /\ ~torn
  OBVIOUS
<1>3. CopyWanted /\ AckWanted /\ AckOwn /\ Looked /\ Success /\ \A m \in owed : need[m]
  BY <1>2 DEF AckInv
<1>4. CopyWanted'
  BY <1>2, <1>3 DEF CopyWanted
<1>5. AckWanted'
  BY <1>2, <1>3 DEF AckWanted
<1>6. AckOwn'
  BY <1>2, <1>3 DEF AckOwn
<1>7. Looked'
  BY <1>2, <1>3 DEF Looked
<1>8. Success'
  BY <1>2, <1>3 DEF Success
<1> QED
  BY <1>4, <1>5, <1>6, <1>7, <1>8

(* Proceed keeps the acknowledgement's invariant.                        *)
LEMMA AckProceed ==
  ASSUME TypeOK, TypeOK', RingInv, AckInv,
         NEW s \in Senders, Proceed(s)
  PROVE  AckInv'
<1> USE DEF Proceed, ring, acks, msgs, mine, To, Front, Active, InProcess,
     Answered, TypeOK
<1>1. \A m \in owed' : need'[m]
  BY DEF AckInv
<1> SUFFICES ASSUME ~stale', ~torn'
             PROVE  (CopyWanted /\ AckWanted /\ AckOwn /\ Looked /\ Success)'
  BY <1>1 DEF AckInv
<1>2. ~stale /\ ~torn
  OBVIOUS
<1>3. CopyWanted /\ AckWanted /\ AckOwn /\ Looked /\ Success /\ \A m \in owed : need[m]
  BY <1>2 DEF AckInv
<1>4. CopyWanted'
  BY <1>2, <1>3 DEF CopyWanted
<1>5. AckWanted'
  BY <1>2, <1>3 DEF AckWanted
<1>6. AckOwn'
  BY <1>2, <1>3 DEF AckOwn
<1>7. Looked'
  BY <1>2, <1>3 DEF Looked
<1>8. Success'
  BY <1>2, <1>3 DEF Success
<1> QED
  BY <1>4, <1>5, <1>6, <1>7, <1>8

(* Interrupted keeps the acknowledgement's invariant.                    *)
LEMMA AckInterrupted ==
  ASSUME TypeOK, TypeOK', RingInv, AckInv,
         NEW s \in Senders, Interrupted(s)
  PROVE  AckInv'
<1> USE DEF Interrupted, ring, acks, msgs, mine, To, Return, Front, Active,
     InProcess, Answered, TypeOK
<1>1. \A m \in owed' : need'[m]
  BY DEF AckInv
<1> SUFFICES ASSUME ~stale', ~torn'
             PROVE  (CopyWanted /\ AckWanted /\ AckOwn /\ Looked /\ Success)'
  BY <1>1 DEF AckInv
<1>2. ~stale /\ ~torn
  OBVIOUS
<1>3. CopyWanted /\ AckWanted /\ AckOwn /\ Looked /\ Success /\ \A m \in owed : need[m]
  BY <1>2 DEF AckInv
<1>4. CopyWanted'
  BY <1>2, <1>3 DEF CopyWanted
<1>5. AckWanted'
  BY <1>2, <1>3 DEF AckWanted
<1>6. AckOwn'
  BY <1>2, <1>3 DEF AckOwn
<1>7. Looked'
  BY <1>2, <1>3 DEF Looked
<1>8. Success'
  BY <1>2, <1>3 DEF Success
<1> QED
  BY <1>4, <1>5, <1>6, <1>7, <1>8

(* HandOver keeps the acknowledgement's invariant.                       *)
LEMMA AckHandOver ==
  ASSUME TypeOK, TypeOK', RingInv, AckInv,
         NEW s \in Senders, HandOver(s)
  PROVE  AckInv'
<1> USE DEF HandOver, ring, msgs, mine, To, Front, Active, InProcess,
     Answered, TypeOK
<1>1. \A m \in owed' : need'[m]
  BY DEF AckInv
<1> SUFFICES ASSUME ~stale', ~torn'
             PROVE  (CopyWanted /\ AckWanted /\ AckOwn /\ Looked /\ Success)'
  BY <1>1 DEF AckInv
<1>2. ~stale /\ ~torn
  OBVIOUS
<1>3. CopyWanted /\ AckWanted /\ AckOwn /\ Looked /\ Success /\ \A m \in owed : need[m]
  BY <1>2 DEF AckInv
<1>4. CopyWanted'
  BY <1>2, <1>3, OneFront DEF CopyWanted
<1>5. AckWanted'
  BY <1>2, <1>3, OneFront DEF AckWanted
<1>6. AckOwn'
  BY <1>2, <1>3 DEF AckOwn
<1>7. Looked'
  BY <1>2, <1>3, OneFront DEF Looked
<1>8. Success'
  BY <1>2, <1>3 DEF Success
<1> QED
  BY <1>4, <1>5, <1>6, <1>7, <1>8

(* Told keeps the acknowledgement's invariant.                           *)
LEMMA AckTold ==
  ASSUME TypeOK, TypeOK', RingInv, AckInv,
         NEW s \in Senders, Told(s)
  PROVE  AckInv'
<1> USE DEF Told, ring, msgs, To, Front, Active, InProcess, Answered, TypeOK
<1>1. \A m \in owed' : need'[m]
  BY DEF AckInv
<1> SUFFICES ASSUME ~stale', ~torn'
             PROVE  (CopyWanted /\ AckWanted /\ AckOwn /\ Looked /\ Success)'
  BY <1>1 DEF AckInv
<1>2. ~stale /\ ~torn
  OBVIOUS
<1>3. CopyWanted /\ AckWanted /\ AckOwn /\ Looked /\ Success /\ \A m \in owed : need[m]
  BY <1>2 DEF AckInv
<1>0. own[s] \in 1..pushed
  BY BasicsHold, OwnNumbered
<1>4. CopyWanted'
  BY <1>0, <1>2, <1>3 DEF CopyWanted
<1>5. AckWanted'
  BY <1>0, <1>2, <1>3 DEF AckWanted
<1>6. AckOwn'
  BY <1>0, <1>2, <1>3, OneFront DEF AckOwn
<1>7. Looked'
  BY <1>0, <1>2, <1>3 DEF Looked
<1>8. Success'
  BY <1>0, <1>2, <1>3 DEF Success
<1> QED
  BY <1>4, <1>5, <1>6, <1>7, <1>8

(* Acknowledged keeps the acknowledgement's invariant.                   *)
LEMMA AckAcknowledged ==
  ASSUME TypeOK, TypeOK', RingInv, AckInv,
         NEW s \in Senders, Acknowledged(s)
  PROVE  AckInv'
<1> USE DEF Acknowledged, ring, acks, msgs, mine, To, Front, Active,
     InProcess, Answered, TypeOK
<1>1. \A m \in owed' : need'[m]
  BY DEF AckInv
<1> SUFFICES ASSUME ~stale', ~torn'
             PROVE  (CopyWanted /\ AckWanted /\ AckOwn /\ Looked /\ Success)'
  BY <1>1 DEF AckInv
<1>2. ~stale /\ ~torn
  OBVIOUS
<1>3. CopyWanted /\ AckWanted /\ AckOwn /\ Looked /\ Success /\ \A m \in owed : need[m]
  BY <1>2 DEF AckInv
<1>4. CopyWanted'
  BY <1>2, <1>3 DEF CopyWanted
<1>5. AckWanted'
  BY <1>2, <1>3 DEF AckWanted
<1>6. AckOwn'
  BY <1>2, <1>3 DEF AckOwn
<1>7. Looked'
  BY <1>2, <1>3, OneFront DEF AckWanted, Looked, Cleared
<1>8. Success'
  BY <1>2, <1>3 DEF Success
<1> QED
  BY <1>4, <1>5, <1>6, <1>7, <1>8

(* CheckAck keeps the acknowledgement's invariant.                       *)
LEMMA AckCheckAck ==
  ASSUME TypeOK, TypeOK', RingInv, AckInv,
         NEW s \in Senders, CheckAck(s)
  PROVE  AckInv'
<1> USE DEF CheckAck, ring, acks, msgs, To, Front, Active, InProcess,
     Answered, TypeOK
<1>1. \A m \in owed' : need'[m]
  BY DEF AckInv
<1> SUFFICES ASSUME ~stale', ~torn'
             PROVE  (CopyWanted /\ AckWanted /\ AckOwn /\ Looked /\ Success)'
  BY <1>1 DEF AckInv
<1>2. ~stale /\ ~torn
  OBVIOUS
<1>3. CopyWanted /\ AckWanted /\ AckOwn /\ Looked /\ Success /\ \A m \in owed : need[m]
  BY <1>2 DEF AckInv
<1>0. own[s] \in 1..pushed
  BY BasicsHold, OwnNumbered
<1>4. CopyWanted'
  BY <1>0, <1>2, <1>3 DEF CopyWanted
<1>5. AckWanted'
  BY <1>0, <1>2, <1>3 DEF AckWanted
<1>6. AckOwn'
  BY <1>0, <1>2, <1>3 DEF AckOwn
<1>7. Looked'
  BY <1>0, <1>2, <1>3 DEF Looked
<1>8. Success'
  BY <1>0, <1>2, <1>3 DEF Success
<1> QED
  BY <1>4, <1>5, <1>6, <1>7, <1>8

(* TakeAck keeps the acknowledgement's invariant.                        *)
LEMMA AckTakeAck ==
  ASSUME TypeOK, TypeOK', RingInv, AckInv,
         NEW s \in Senders, TakeAck(s)
  PROVE  AckInv'
<1> USE DEF TakeAck, ring, acks, msgs, To, Front, Active, InProcess,
     Answered, TypeOK
<1>1. \A m \in owed' : need'[m]
  BY DEF AckInv
<1> SUFFICES ASSUME ~stale', ~torn'
             PROVE  (CopyWanted /\ AckWanted /\ AckOwn /\ Looked /\ Success)'
  BY <1>1 DEF AckInv
<1>2. ~stale /\ ~torn
  OBVIOUS
<1>3. CopyWanted /\ AckWanted /\ AckOwn /\ Looked /\ Success /\ \A m \in owed : need[m]
  BY <1>2 DEF AckInv
<1>0. own[s] \in 1..pushed
  BY BasicsHold, OwnNumbered
<1>4. CopyWanted'
  BY <1>0, <1>2, <1>3 DEF CopyWanted
<1>5. AckWanted'
  BY <1>0, <1>2, <1>3 DEF AckWanted
<1>6. AckOwn'
  BY <1>0, <1>2, <1>3 DEF AckOwn
<1>7. Looked'
  BY <1>0, <1>2, <1>3 DEF Looked
<1>8. Success'
  BY <1>0, <1>2, <1>3, OneFront DEF CopyWanted, AckWanted, AckOwn, Looked, Success, NoCopy
<1> QED
  BY <1>4, <1>5, <1>6, <1>7, <1>8

(* TimedOut keeps the acknowledgement's invariant.                       *)
LEMMA AckTimedOut ==
  ASSUME TypeOK, TypeOK', RingInv, AckInv,
         NEW s \in Senders, TimedOut(s)
  PROVE  AckInv'
<1> USE DEF TimedOut, ring, msgs, To, Front, Active, InProcess, Answered,
     TypeOK
<1>1. \A m \in owed' : need'[m]
  BY DEF AckInv
<1> SUFFICES ASSUME ~stale', ~torn'
             PROVE  (CopyWanted /\ AckWanted /\ AckOwn /\ Looked /\ Success)'
  BY <1>1 DEF AckInv
<1>2. ~stale /\ ~torn
  OBVIOUS
<1>3. CopyWanted /\ AckWanted /\ AckOwn /\ Looked /\ Success /\ \A m \in owed : need[m]
  BY <1>2 DEF AckInv
<1>0. own[s] \in 1..pushed
  BY BasicsHold, OwnNumbered
<1>4. CopyWanted'
  BY <1>0, <1>2, <1>3 DEF CopyWanted
<1>5. AckWanted'
  BY <1>0, <1>2, <1>3 DEF AckWanted
<1>6. AckOwn'
  BY <1>0, <1>2, <1>3 DEF AckOwn
<1>7. Looked'
  BY <1>0, <1>2, <1>3 DEF Looked
<1>8. Success'
  BY <1>0, <1>2, <1>3 DEF Success
<1> QED
  BY <1>4, <1>5, <1>6, <1>7, <1>8

(* ClearAck keeps the acknowledgement's invariant.                       *)
LEMMA AckClearAck ==
  ASSUME TypeOK, TypeOK', RingInv, AckInv,
         NEW s \in Senders, ClearAck(s)
  PROVE  AckInv'
<1> USE DEF ClearAck, ring, msgs, mine, To, Front, Active, InProcess,
     Answered, TypeOK
<1>1. \A m \in owed' : need'[m]
  BY DEF AckInv
<1> SUFFICES ASSUME ~stale', ~torn'
             PROVE  (CopyWanted /\ AckWanted /\ AckOwn /\ Looked /\ Success)'
  BY <1>1 DEF AckInv
<1>2. ~stale /\ ~torn
  OBVIOUS
<1>3. CopyWanted /\ AckWanted /\ AckOwn /\ Looked /\ Success /\ \A m \in owed : need[m]
  BY <1>2 DEF AckInv
<1>0. own[s] \in 1..pushed
  BY BasicsHold, OwnNumbered
<1>4. CopyWanted'
  BY <1>0, <1>2, <1>3 DEF CopyWanted
<1>5. AckWanted'
  BY <1>0, <1>2, <1>3 DEF AckWanted
<1>6. AckOwn'
  BY <1>0, <1>2, <1>3, OneFront DEF AckOwn
<1>7. Looked'
  BY <1>0, <1>2, <1>3 DEF Looked
<1>8. Success'
  BY <1>0, <1>2, <1>3 DEF Success
<1> QED
  BY <1>4, <1>5, <1>6, <1>7, <1>8

(* PopMessage keeps the acknowledgement's invariant.                     *)
LEMMA AckPopMessage ==
  ASSUME TypeOK, TypeOK', RingInv, AckInv,
         NEW s \in Senders, PopMessage(s)
  PROVE  AckInv'
<1> USE DEF PopMessage, acks, msgs, mine, To, Return, Pop, Front, Active,
     InProcess, Answered, TypeOK
<1>1. \A m \in owed' : need'[m]
  BY DEF AckInv
<1> SUFFICES ASSUME ~stale', ~torn'
             PROVE  (CopyWanted /\ AckWanted /\ AckOwn /\ Looked /\ Success)'
  BY <1>1 DEF AckInv
<1>2. ~stale /\ ~torn
  OBVIOUS
<1>3. CopyWanted /\ AckWanted /\ AckOwn /\ Looked /\ Success /\ \A m \in owed : need[m]
  BY <1>2 DEF AckInv
<1>4. CopyWanted'
  BY <1>2, <1>3 DEF CopyWanted
<1>5. AckWanted'
  BY <1>2, <1>3 DEF AckWanted
<1>6. AckOwn'
  BY <1>2, <1>3 DEF AckOwn
<1>7. Looked'
  BY <1>2, <1>3 DEF Looked
<1>8. Success'
  BY <1>2, <1>3 DEF Success
<1> QED
  BY <1>4, <1>5, <1>6, <1>7, <1>8

(* WakeNext keeps the acknowledgement's invariant.                       *)
LEMMA AckWakeNext ==
  ASSUME TypeOK, TypeOK', RingInv, AckInv,
         NEW s \in Senders, WakeNext(s)
  PROVE  AckInv'
<1> USE DEF WakeNext, ring, acks, msgs, To, Return, Front, Active,
     InProcess, Answered, TypeOK
<1>1. \A m \in owed' : need'[m]
  BY DEF AckInv
<1> SUFFICES ASSUME ~stale', ~torn'
             PROVE  (CopyWanted /\ AckWanted /\ AckOwn /\ Looked /\ Success)'
  BY <1>1 DEF AckInv
<1>2. ~stale /\ ~torn
  OBVIOUS
<1>3. CopyWanted /\ AckWanted /\ AckOwn /\ Looked /\ Success /\ \A m \in owed : need[m]
  BY <1>2 DEF AckInv
<1>4. CopyWanted'
  BY <1>2, <1>3 DEF CopyWanted
<1>5. AckWanted'
  BY <1>2, <1>3 DEF AckWanted
<1>6. AckOwn'
  BY <1>2, <1>3 DEF AckOwn
<1>7. Looked'
  BY <1>2, <1>3 DEF Looked
<1>8. Success'
  BY <1>2, <1>3 DEF Success
<1> QED
  BY <1>4, <1>5, <1>6, <1>7, <1>8

(* SendMessage keeps the acknowledgement's invariant.                    *)
LEMMA AckSendMessage ==
  ASSUME TypeOK, TypeOK', RingInv, AckInv,
         NEW s \in Senders, NEW id \in Ids, NEW acked \in BOOLEAN, SendMessage(s, id, acked)
  PROVE  AckInv'
<1> USE DEF SendMessage, acks, To, Push, Front, Active, InProcess, Answered,
     TypeOK
<1>1. \A m \in owed' : need'[m]
  BY DEF AckInv
<1> SUFFICES ASSUME ~stale', ~torn'
             PROVE  (CopyWanted /\ AckWanted /\ AckOwn /\ Looked /\ Success)'
  BY <1>1 DEF AckInv
<1>2. ~stale /\ ~torn
  OBVIOUS
<1>3. CopyWanted /\ AckWanted /\ AckOwn /\ Looked /\ Success /\ \A m \in owed : need[m]
  BY <1>2 DEF AckInv
<1>4. CopyWanted'
  BY <1>2, <1>3 DEF CopyWanted
<1>5. AckWanted'
  BY <1>2, <1>3 DEF AckWanted
<1>6. AckOwn'
  BY <1>2, <1>3 DEF AckOwn
<1>7. Looked'
  BY <1>2, <1>3 DEF Looked
<1>8. Success'
  BY <1>2, <1>3 DEF Success
<1> QED
  BY <1>4, <1>5, <1>6, <1>7, <1>8

(* AckBack keeps the acknowledgement's invariant.                        *)
LEMMA AckAckBack ==
  ASSUME TypeOK, TypeOK', RingInv, AckInv,
         NEW m \in Msgs, AckBack(m)
  PROVE  AckInv'
<1> USE DEF AckBack, ring, msgs, mine, Front, Active, InProcess, Answered,
     TypeOK
<1>1. \A n \in owed' : need'[n]
  BY DEF AckInv
<1> SUFFICES ASSUME ~stale', ~torn'
             PROVE  (CopyWanted /\ AckWanted /\ AckOwn /\ Looked /\ Success)'
  BY <1>1 DEF AckInv
<1>2. ~stale /\ ~torn
  OBVIOUS
<1>3. CopyWanted /\ AckWanted /\ AckOwn /\ Looked /\ Success /\ \A n \in owed : need[n]
  BY <1>2 DEF AckInv
<1>0. PICK s \in Senders : own[s] = m /\ spc[s] \in { "sending", "ack" }
  OBVIOUS
<1>4. CopyWanted'
  BY <1>0, <1>2, <1>3 DEF CopyWanted
<1>5. AckWanted'
  BY <1>0, <1>2, <1>3 DEF AckWanted
<1>6. AckOwn'
  BY <1>0, <1>2, <1>3 DEF AckOwn, NoCopy, Parts
<1>7. Looked'
  BY <1>0, <1>2, <1>3 DEF Looked
<1>8. Success'
  BY <1>0, <1>2, <1>3 DEF Success
<1> QED
  BY <1>4, <1>5, <1>6, <1>7, <1>8

(* CopyPart keeps the acknowledgement's invariant.                       *)
LEMMA AckCopyPart ==
  ASSUME TypeOK, TypeOK', RingInv, AckInv,
         NEW p \in Parts, CopyPart(p)
  PROVE  AckInv'
<1> USE DEF CopyPart, ring, msgs, mine, Front, Active, InProcess, Answered,
     TypeOK
<1>1. \A m \in owed' : need'[m]
  BY DEF AckInv
<1> SUFFICES ASSUME ~stale', ~torn'
             PROVE  (CopyWanted /\ AckWanted /\ AckOwn /\ Looked /\ Success)'
  BY <1>1 DEF AckInv
<1>2. ~stale /\ ~torn
  OBVIOUS
<1>3. CopyWanted /\ AckWanted /\ AckOwn /\ Looked /\ Success /\ \A m \in owed : need[m]
  BY <1>2 DEF AckInv
<1>4. CopyWanted'
  BY <1>2, <1>3 DEF CopyWanted, NoCopy, Parts, Cleared
<1>5. AckWanted'
  BY <1>2, <1>3 DEF CopyWanted, AckWanted, NoCopy, Parts, Cleared
<1>6. AckOwn'
  BY <1>2, <1>3, OneFront DEF CopyWanted, AckOwn, NoCopy, Parts, Cleared
<1>7. Looked'
  BY <1>2, <1>3 DEF Looked
<1>8. Success'
  BY <1>2, <1>3 DEF Success
<1> QED
  BY <1>4, <1>5, <1>6, <1>7, <1>8

(* Every step keeps the acknowledgement's invariant.                       *)
LEMMA NextAck ==
  ASSUME TypeOK, TypeOK', RingInv, AckInv, [Next]_vars
  PROVE  AckInv'
<1>1. CASE UNCHANGED vars
  BY <1>1 DEF vars, ring, acks, msgs, mine, AckInv, CopyWanted, AckWanted,
       AckOwn, Looked, Success, Answered
<1>2. ASSUME NEW s \in Senders, Step(s) \/ Interrupted(s)
      PROVE  AckInv'
  <2>1. CASE CleanAck(s)
    BY <2>1, AckCleanAck
  <2>2. CASE Doze(s)
    BY <2>2, AckDoze
  <2>3. CASE Proceed(s)
    BY <2>3, AckProceed
  <2>4. CASE HandOver(s)
    BY <2>4, AckHandOver
  <2>5. CASE Told(s)
    BY <2>5, AckTold
  <2>6. CASE Acknowledged(s)
    BY <2>6, AckAcknowledged
  <2>7. CASE CheckAck(s)
    BY <2>7, AckCheckAck
  <2>8. CASE TakeAck(s)
    BY <2>8, AckTakeAck
  <2>9. CASE TimedOut(s)
    BY <2>9, AckTimedOut
  <2>10. CASE ClearAck(s)
    BY <2>10, AckClearAck
  <2>11. CASE PopMessage(s)
    BY <2>11, AckPopMessage
  <2>12. CASE WakeNext(s)
    BY <2>12, AckWakeNext
  <2>13. CASE Interrupted(s)
    BY <2>13, AckInterrupted
  <2> QED
    BY <1>2, <2>1, <2>2, <2>3, <2>4, <2>5, <2>6, <2>7, <2>8, <2>9, <2>10,
         <2>11, <2>12, <2>13 DEF Step
<1>3. ASSUME NEW s \in Senders, NEW id \in Ids, NEW acked \in BOOLEAN, SendMessage(s, id, acked)
      PROVE  AckInv'
  BY <1>3, AckSendMessage
<1>4. ASSUME NEW m \in Msgs, AckBack(m)
      PROVE  AckInv'
  BY <1>4, AckAckBack
<1>5. ASSUME NEW p \in Parts, CopyPart(p)
      PROVE  AckInv'
  BY <1>5, AckCopyPart
<1> QED
  BY <1>1, <1>2, <1>3, <1>4, <1>5 DEF Next

(* A send that succeeds has the acknowledgement of its own message, while  *)
(* every acknowledgement comes in time and is read whole.                  *)
THEOREM AudioOwnAck == Spec => []OwnAck
<1>1. Init => AckInv
  BY InitAck
<1>2. IInv /\ IInv' /\ AckInv /\ [Next]_vars => AckInv'
  BY NextAck DEF IInv
<1>3. AckInv => OwnAck
  BY DEF AckInv, Success, OwnAck
<1> QED
  BY IInvHolds, <1>1, <1>2, <1>3, PTL DEF Spec

-----------------------------------------------------------------------------
(* Who has returned, or has popped its message and not yet returned, has   *)
(* nothing in the ring.                                                    *)
Gone ==
  \A s \in Senders :
    /\ spc[s] = "idle" => own[s] = 0
    /\ spc[s] = "wake" => \A i \in Slots : InRing(i) => own[s] < element[i]

(* Steps that leave the ring alone keep that.                              *)
LEMMA GoneStays ==
  ASSUME Basics, Gone, UNCHANGED << element, idx_r, idx_w >>,
         \A s \in Senders :
           \/ spc'[s] \notin { "idle", "wake" }
           \/ spc'[s] = "idle" /\ own'[s] = 0
           \/ spc'[s] = spc[s] /\ own'[s] = own[s]
  PROVE  Gone'
<1>1. \A i \in Slots : InRing(i)' <=> InRing(i)
  BY DEF InRing
<1> QED
  BY <1>1 DEF Gone

(* A push puts a newer message into the ring than any.                     *)
LEMMA GoneSend ==
  ASSUME Basics, Gone, NEW s \in Senders, NEW id \in Ids, NEW acked \in BOOLEAN,
         SendMessage(s, id, acked)
  PROVE  Gone'
<1>0. /\ ~IsFull /\ idx_r' = idx_r /\ idx_w' = After(idx_w)
      /\ element' = [element EXCEPT ![idx_w] = pushed + 1]
      /\ own' = [own EXCEPT ![s] = pushed + 1]
      /\ spc' = [spc EXCEPT ![s] = IF IsEmpty THEN "clean" ELSE "waiting"]
  BY DEF SendMessage, Push, To
<1>1. \A i \in Slots : InRing(i)' <=> InRing(i) \/ i = idx_w
  BY <1>0, AudioIpiAssumption DEF Basics, InRing, IsFull, After, Slots
<1>2. \A i \in Slots : element'[i] = IF i = idx_w THEN pushed + 1 ELSE element[i]
  BY <1>0 DEF Basics
<1>3. \A t \in Senders : /\ spc'[t] \in { "idle", "wake" } => spc'[t] = spc[t] /\ own'[t] = own[t]
                         /\ own[t] < pushed + 1
  BY <1>0 DEF Basics
<1> QED
  BY <1>1, <1>2, <1>3 DEF Gone

(* The message popped is older than those behind it.                       *)
LEMMA GonePop ==
  ASSUME Basics, RingInv, Gone, NEW s \in Senders, PopMessage(s)
  PROVE  Gone'
<1>0. /\ spc[s] = "pop" /\ idx_r' = After(idx_r) /\ UNCHANGED << element, idx_w >>
      /\ \/ spc'[s] = "idle" /\ own'[s] = 0
         \/ spc'[s] = "wake" /\ own'[s] = own[s]
      /\ \A t \in Senders \ {s} : spc'[t] = spc[t] /\ own'[t] = own[t]
  BY DEF PopMessage, Pop, Return, To, mine, msgs, Basics
<1>1. idx_msg[s] = idx_r /\ InRing(idx_r) /\ element[idx_r] = own[s]
  BY <1>0 DEF RingInv, InFront, Held, Active, Front, InProcess
<1>2. \A i \in Slots : InRing(i)' <=> InRing(i) /\ i # idx_r
  BY <1>0, <1>1, AudioIpiAssumption DEF Basics, InRing, After, Slots
<1>3. \A i \in Slots : InRing(i)' => element[idx_r] < element[i]
  <2> SUFFICES ASSUME NEW i \in Slots, InRing(i)' PROVE element[idx_r] < element[i]
    OBVIOUS
  <2>1. InRing(i) /\ i # idx_r /\ Before(idx_r, i)
    BY <1>2 DEF Before, InRing, Basics, Slots
  <2> QED
    BY <1>1, <2>1 DEF RingInv, Ordered, Basics
<1> QED
  BY <1>0, <1>1, <1>2, <1>3 DEF Gone

(* Every step keeps Gone.                                                  *)
LEMMA NextGone ==
  ASSUME Basics, RingInv, Gone, [Next]_vars
  PROVE  Gone'
<1>1. CASE UNCHANGED vars
  BY <1>1, GoneStays DEF vars, ring, mine
<1>2. ASSUME NEW s \in Senders, Step(s) \/ Interrupted(s)
      PROVE  Gone'
  <2>1. CASE CleanAck(s)
    BY <2>1, GoneStays DEF CleanAck, ring, acks, msgs, mine, To, Return, WakeUp, Basics
  <2>2. CASE Doze(s)
    BY <2>2, GoneStays DEF Doze, ring, acks, msgs, mine, To, Return, WakeUp, Basics
  <2>3. CASE Proceed(s)
    BY <2>3, GoneStays DEF Proceed, ring, acks, msgs, mine, To, Return, WakeUp, Basics
  <2>4. CASE HandOver(s)
    BY <2>4, GoneStays DEF HandOver, ring, acks, msgs, mine, To, Return, WakeUp, Basics
  <2>5. CASE Told(s)
    BY <2>5, GoneStays DEF Told, ring, acks, msgs, mine, To, Return, WakeUp, Basics
  <2>6. CASE Acknowledged(s)
    BY <2>6, GoneStays DEF Acknowledged, ring, acks, msgs, mine, To, Return, WakeUp, Basics
  <2>7. CASE CheckAck(s)
    BY <2>7, GoneStays DEF CheckAck, ring, acks, msgs, mine, To, Return, WakeUp, Basics
  <2>8. CASE TakeAck(s)
    BY <2>8, GoneStays DEF TakeAck, ring, acks, msgs, mine, To, Return, WakeUp, Basics
  <2>9. CASE TimedOut(s)
    BY <2>9, GoneStays DEF TimedOut, ring, acks, msgs, mine, To, Return, WakeUp, Basics
  <2>10. CASE ClearAck(s)
    BY <2>10, GoneStays DEF ClearAck, ring, acks, msgs, mine, To, Return, WakeUp, Basics
  <2>11. CASE PopMessage(s)
    BY <2>11, GonePop
  <2>12. CASE WakeNext(s)
    BY <2>12, GoneStays DEF WakeNext, ring, acks, msgs, mine, To, Return, WakeUp, Basics
  <2>13. CASE Interrupted(s)
    BY <2>13, GoneStays DEF Interrupted, ring, acks, msgs, mine, To, Return, WakeUp, Basics
  <2> QED
    BY <1>2, <2>1, <2>2, <2>3, <2>4, <2>5, <2>6, <2>7, <2>8, <2>9, <2>10,
         <2>11, <2>12, <2>13 DEF Step
<1>3. ASSUME NEW s \in Senders, NEW id \in Ids, NEW acked \in BOOLEAN, SendMessage(s, id, acked)
      PROVE  Gone'
  BY <1>3, GoneSend
<1>4. ASSUME NEW m \in Msgs, AckBack(m)
      PROVE  Gone'
  BY <1>4, GoneStays DEF AckBack, ring, mine
<1>5. ASSUME NEW p \in Parts, CopyPart(p)
      PROVE  Gone'
  BY <1>5, GoneStays DEF CopyPart, ring, mine
<1> QED
  BY <1>1, <1>2, <1>3, <1>4, <1>5 DEF Next

(* The sender of the message at the head that has not gone is serving it.  *)
LEMMA HeadIsServed == TypeOK /\ RingInv /\ Woken /\ Gone => HeadServed
<1> SUFFICES ASSUME TypeOK, RingInv, Woken, Gone, ~IsEmpty, ~Stopped
             PROVE  \E s \in Senders :
                      /\ own[s] = Head /\ idx_msg[s] = idx_r
                      /\ \/ spc[s] \in InProcess \cup {"clean"}
                         \/ /\ spc[s] = "waiting"
                            /\ s \in asleep => \E t \in Senders : spc[t] = "wake"
  BY DEF HeadServed
<1>0. Basics
  BY BasicsHold
<1>1. InRing(idx_r) /\ idx_r \in Slots
  BY <1>0 DEF Basics, IsEmpty, InRing, Slots
<1>2. Head \in 1..pushed /\ Head \in Msgs
  BY <1>0, <1>1 DEF RingInv, Filled, Head, Basics, Msgs
<1>3. PICK s \in Senders : own[s] = Head
  BY <1>1, <1>2 DEF Stopped, Left, Head
<1>4. spc[s] # "idle" /\ spc[s] # "wake"
  BY <1>0, <1>1, <1>2, <1>3 DEF Gone, Head, Basics
<1>5. spc[s] \in Front \cup { "waiting" }
  BY <1>0, <1>4 DEF Basics, SenderPcs, Front
<1>6. InRing(idx_msg[s]) /\ element[idx_msg[s]] = Head /\ idx_msg[s] \in Slots
  BY <1>0, <1>3, <1>5 DEF RingInv, Held, Active, Basics
<1>7. idx_msg[s] = idx_r
  <2>1. CASE idx_msg[s] # idx_r
    <3>1. Before(idx_r, idx_msg[s])
      BY <1>0, <1>1, <1>6, <2>1 DEF Before, Basics, Slots, InRing
    <3>2. Head < element[idx_msg[s]]
      BY <1>1, <1>6, <3>1 DEF RingInv, Ordered, Head
    <3> QED
      BY <1>2, <1>6, <3>2
  <2> QED
    BY <2>1
<1> QED
  BY <1>3, <1>5, <1>7 DEF Woken, Front

(* What is left stays while the ring does.                                 *)
LEMMA LeftStays ==
  ASSUME UNCHANGED << element, idx_r, idx_w >>,
         \A s \in Senders : own'[s] \in { own[s], 0 }
  PROVE  Left \subseteq Left'
<1>1. \A i \in Slots : InRing(i)' <=> InRing(i)
  BY DEF InRing
<1>2. 0 \notin Msgs
  BY DEF Msgs
<1> QED
  BY <1>1, <1>2 DEF Left

(* A push covers nothing in the ring.                                      *)
LEMMA LeftSend ==
  ASSUME Basics, RingInv, NEW s \in Senders, NEW id \in Ids, NEW acked \in BOOLEAN,
         SendMessage(s, id, acked)
  PROVE  Left \subseteq Left'
<1>0. /\ ~IsFull /\ idx_r' = idx_r /\ idx_w' = After(idx_w)
      /\ element' = [element EXCEPT ![idx_w] = pushed + 1]
      /\ own' = [own EXCEPT ![s] = pushed + 1]
  BY DEF SendMessage, Push
<1> SUFFICES ASSUME NEW m \in Left PROVE m \in Left'
  OBVIOUS
<1>1. PICK i \in Slots : InRing(i) /\ element[i] = m
  BY DEF Left
<1>2. m \in 1..pushed /\ m # pushed + 1
  BY <1>1 DEF RingInv, Filled, Basics
<1>3. i # idx_w /\ InRing(i)' /\ element'[i] = m
  BY <1>0, <1>1, AudioIpiAssumption DEF Basics, InRing, IsFull, After, Slots
<1>4. \A t \in Senders : own'[t] # m
  BY <1>0, <1>2 DEF Left, Basics
<1> QED
  BY <1>3, <1>4 DEF Left

(* Who pops takes out its own message.                                     *)
LEMMA LeftPop ==
  ASSUME Basics, RingInv, NEW s \in Senders, PopMessage(s)
  PROVE  Left \subseteq Left'
<1>0. /\ spc[s] = "pop" /\ idx_r' = After(idx_r) /\ UNCHANGED << element, idx_w >>
      /\ \A t \in Senders : own'[t] \in { own[t], 0 }
  BY DEF PopMessage, Pop, Return, To, mine, msgs, Basics
<1>1. idx_msg[s] = idx_r /\ InRing(idx_r) /\ element[idx_r] = own[s]
  BY <1>0 DEF RingInv, InFront, Held, Active, Front, InProcess
<1>2. \A i \in Slots : InRing(i)' <=> InRing(i) /\ i # idx_r
  BY <1>0, <1>1, AudioIpiAssumption DEF Basics, InRing, After, Slots
<1>3. 0 \notin Msgs
  BY DEF Msgs
<1> QED
  BY <1>0, <1>1, <1>2, <1>3 DEF Left

(* No step takes out what is left.                                         *)
LEMMA NextLeft ==
  ASSUME Basics, RingInv, [Next]_vars
  PROVE  Left \subseteq Left'
<1>1. CASE UNCHANGED vars
  BY <1>1, LeftStays DEF vars, ring, mine
<1>2. ASSUME NEW s \in Senders, Step(s) \/ Interrupted(s)
      PROVE  Left \subseteq Left'
  <2>1. CASE CleanAck(s)
    BY <2>1, LeftStays DEF CleanAck, ring, acks, msgs, mine, To, Return, Basics
  <2>2. CASE Doze(s)
    BY <2>2, LeftStays DEF Doze, ring, acks, msgs, mine, To, Return, Basics
  <2>3. CASE Proceed(s)
    BY <2>3, LeftStays DEF Proceed, ring, acks, msgs, mine, To, Return, Basics
  <2>4. CASE HandOver(s)
    BY <2>4, LeftStays DEF HandOver, ring, acks, msgs, mine, To, Return, Basics
  <2>5. CASE Told(s)
    BY <2>5, LeftStays DEF Told, ring, acks, msgs, mine, To, Return, Basics
  <2>6. CASE Acknowledged(s)
    BY <2>6, LeftStays DEF Acknowledged, ring, acks, msgs, mine, To, Return, Basics
  <2>7. CASE CheckAck(s)
    BY <2>7, LeftStays DEF CheckAck, ring, acks, msgs, mine, To, Return, Basics
  <2>8. CASE TakeAck(s)
    BY <2>8, LeftStays DEF TakeAck, ring, acks, msgs, mine, To, Return, Basics
  <2>9. CASE TimedOut(s)
    BY <2>9, LeftStays DEF TimedOut, ring, acks, msgs, mine, To, Return, Basics
  <2>10. CASE ClearAck(s)
    BY <2>10, LeftStays DEF ClearAck, ring, acks, msgs, mine, To, Return, Basics
  <2>11. CASE PopMessage(s)
    BY <2>11, LeftPop
  <2>12. CASE WakeNext(s)
    BY <2>12, LeftStays DEF WakeNext, ring, acks, msgs, mine, To, Return, Basics
  <2>13. CASE Interrupted(s)
    BY <2>13, LeftStays DEF Interrupted, ring, acks, msgs, mine, To, Return, Basics
  <2> QED
    BY <1>2, <2>1, <2>2, <2>3, <2>4, <2>5, <2>6, <2>7, <2>8, <2>9, <2>10,
         <2>11, <2>12, <2>13 DEF Step
<1>3. ASSUME NEW s \in Senders, NEW id \in Ids, NEW acked \in BOOLEAN, SendMessage(s, id, acked)
      PROVE  Left \subseteq Left'
  BY <1>3, LeftSend
<1>4. ASSUME NEW m \in Msgs, AckBack(m)
      PROVE  Left \subseteq Left'
  BY <1>4, LeftStays DEF AckBack, ring, mine
<1>5. ASSUME NEW p \in Parts, CopyPart(p)
      PROVE  Left \subseteq Left'
  BY <1>5, LeftStays DEF CopyPart, ring, mine
<1> QED
  BY <1>1, <1>2, <1>3, <1>4, <1>5 DEF Next

(* With a message left at the head nobody is at work or can begin.         *)
LEMMA NobodyWorks ==
  ASSUME Basics, RingInv, Stopped, NEW s \in Senders
  PROVE  spc[s] \notin Front /\ (spc[s] = "waiting" => idx_msg[s] # idx_r)
BY DEF RingInv, InFront, Held, Stopped, Left, Head, Active

(* ... so the ring does not move and nothing is handed over.               *)
LEMMA NextStopped ==
  ASSUME Basics, RingInv, Stopped, [Next]_vars
  PROVE  UNCHANGED << idx_r, last, Head >> /\ ~IsEmpty'
<1>1. CASE UNCHANGED vars
  BY <1>1 DEF vars, ring, Stopped, Head, IsEmpty
<1>2. ASSUME NEW s \in Senders, Step(s) \/ Interrupted(s)
      PROVE  UNCHANGED << idx_r, last, Head >> /\ ~IsEmpty'
  <2>1. CASE CleanAck(s)
    BY <2>1, NobodyWorks DEF CleanAck, Front, InProcess
  <2>2. CASE Doze(s)
    BY <2>2 DEF Doze, ring, Stopped, Head, IsEmpty
  <2>3. CASE Proceed(s)
    BY <2>3, NobodyWorks DEF Proceed, Front, InProcess
  <2>4. CASE HandOver(s)
    BY <2>4, NobodyWorks DEF HandOver, Front, InProcess
  <2>5. CASE Told(s)
    BY <2>5, NobodyWorks DEF Told, Front, InProcess
  <2>6. CASE Acknowledged(s)
    BY <2>6, NobodyWorks DEF Acknowledged, Front, InProcess
  <2>7. CASE CheckAck(s)
    BY <2>7, NobodyWorks DEF CheckAck, Front, InProcess
  <2>8. CASE TakeAck(s)
    BY <2>8, NobodyWorks DEF TakeAck, Front, InProcess
  <2>9. CASE TimedOut(s)
    BY <2>9, NobodyWorks DEF TimedOut, Front, InProcess
  <2>10. CASE ClearAck(s)
    BY <2>10, NobodyWorks DEF ClearAck, Front, InProcess
  <2>11. CASE PopMessage(s)
    BY <2>11, NobodyWorks DEF PopMessage, Front, InProcess
  <2>12. CASE WakeNext(s)
    BY <2>12 DEF WakeNext, ring, Stopped, Head, IsEmpty
  <2>13. CASE Interrupted(s)
    BY <2>13 DEF Interrupted, ring, Stopped, Head, IsEmpty
  <2> QED
    BY <1>2, <2>1, <2>2, <2>3, <2>4, <2>5, <2>6, <2>7, <2>8, <2>9, <2>10,
         <2>11, <2>12, <2>13 DEF Step
<1>3. ASSUME NEW s \in Senders, NEW id \in Ids, NEW acked \in BOOLEAN, SendMessage(s, id, acked)
      PROVE  UNCHANGED << idx_r, last, Head >> /\ ~IsEmpty'
  BY <1>3 DEF SendMessage, Push, IsFull, Stopped, Head, IsEmpty, Basics
<1>4. ASSUME NEW m \in Msgs, AckBack(m)
      PROVE  UNCHANGED << idx_r, last, Head >> /\ ~IsEmpty'
  BY <1>4 DEF AckBack, ring, Stopped, Head, IsEmpty
<1>5. ASSUME NEW p \in Parts, CopyPart(p)
      PROVE  UNCHANGED << idx_r, last, Head >> /\ ~IsEmpty'
  BY <1>5 DEF CopyPart, ring, Stopped, Head, IsEmpty
<1> QED
  BY <1>1, <1>2, <1>3, <1>4, <1>5 DEF Next

(* A step of a ring that has stopped leaves it stopped.                    *)
LEMMA StaysStopped ==
  ASSUME Basics, RingInv, Stopped, [Next]_vars
  PROVE  Stopped' /\ UNCHANGED << idx_r, last >>
BY NextStopped, NextLeft DEF Stopped

(* Nobody waits for nothing: the message whose turn it is has its sender   *)
(* at work on it, awake, or about to be woken, unless that sender has      *)
(* given up.                                                               *)
THEOREM AudioHeadServed == Spec => []HeadServed
<1>1. Init => Woken /\ Gone
  BY DEF Init, Woken, Gone
<1>2. IInv /\ IInv' /\ Woken /\ Gone /\ [Next]_vars => Woken' /\ Gone'
  BY BasicsHold, NextWoken, NextGone DEF IInv
<1>3. IInv /\ Woken /\ Gone => HeadServed
  BY HeadIsServed DEF IInv
<1> QED
  BY IInvHolds, <1>1, <1>2, <1>3, PTL DEF Spec

(* A message whose sender gave up is never taken out, and when its turn    *)
(* comes nobody is served any more: "each gets its turn in the end" fails  *)
(* for good with one signal, and for no other reason.                      *)
THEOREM AudioLeftForGood == Spec => LeftForGood
<1>1. IInv /\ [Next]_vars
        => [ /\ Left \subseteq Left'
             /\ Stopped => Stopped' /\ UNCHANGED << idx_r, last >> ]_vars
  BY BasicsHold, NextLeft, StaysStopped DEF IInv
<1> QED
  BY IInvHolds, <1>1, PTL DEF Spec, LeftForGood

=============================================================================
