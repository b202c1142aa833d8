-------------------------- MODULE AdspIpiSendProofs --------------------------
(***************************************************************************)
(* For rings, senders and bounds of every size: the types of AdspIpiSend   *)
(* are right, no message is lost or overtaken, the DSP is given each once  *)
(* and in order, a waiter reads the result of its own message, and while a *)
(* message has no result the thread waits for nothing that is not to come  *)
(* - unless the watchdog empties the ring under a message.                 *)
(***************************************************************************)
EXTENDS AdspIpiSend, TLAPS

-----------------------------------------------------------------------------
(* The inductive invariant *)

(* A message that the thread still sends has a try left. *)
TriesLeft == tpc = "send" => tries < MaxTries

(* Nothing that was not pushed has a result. *)
Fresh == \A m \in Msgs : m >= pushed => outcome[m] = "none"

(* While only idx_w is emptied the thread holds no message. *)
HalfQuiet == HalfEmptied => tpc = "get" /\ (Busy \/ q.idx_w = 0)

(* Messages of the ring that have their result: the front one, once sent. *)
Done == IF tpc \in { "notify", "pop" } THEN 1 ELSE 0

(* The ring holds the last messages pushed, those without a result and     *)
(* perhaps one the thread has not dropped yet, in their order.             *)
Queued ==
  ~HalfEmptied =>
    /\ Num(q) <= pushed
    /\ \A i \in 0..Num(q) - 1 :
         q.element[Slot(q, i)].msg = pushed - Num(q) + i
    /\ \A m \in Msgs : m < pushed =>
         (outcome[m] = "none" <=> m >= pushed - Num(q) + Done)
    /\ tpc # "get" => ~IsEmpty(q) /\ tidx = q.idx_r

(* The invariant of the queue, until it is emptied under a message.        *)
QueueInv == ~torn => Fresh /\ HalfQuiet /\ Queued

(* queue_counter numbers the messages, as long as it does not wrap round. *)
Counted ==
  /\ pushed < Counters => q.queue_counter = pushed
  /\ \A i \in Slots : q.element[i].msg # None =>
       q.element[i].queue_counter = q.element[i].msg

(* A waiter knows its message by its queue_counter. *)
Holding ==
  \A s \in Senders : spc[s] \in { "wait", "result" } =>
    own[s].counter = own[s].id /\ Element(s).msg # None

(* What is signalled, or is about to be, is the result of that message. *)
Signalled ==
  ~torn =>
    /\ tpc = "notify" => tret = outcome[Msg]
    /\ \A i \in Slots : q.element[i].signal_arrival =>
         q.element[i].send_retval = outcome[q.element[i].msg]

-----------------------------------------------------------------------------
(* The ring *)

(* What the operations of the ring return is a ring. *)
LEMMA PushType ==
  ASSUME NEW M, NEW r \in Rings(M), NEW m \in M, NEW wait \in BOOLEAN
  PROVE  Push(r, m, wait) \in Rings(M)
<1>1. After(r.idx_w) \in Slots /\ r.idx_w \in Slots
  BY IpiRingAssumption DEF Rings, After, Slots
<1>2. (r.queue_counter + 1) % Counters \in 0..Counters - 1
  BY IpiRingAssumption DEF Rings
<1>3. [ msg |-> m, wait_in_thread |-> wait, signal_arrival |-> FALSE,
        send_retval |-> "ok", queue_counter |-> r.queue_counter ]
      \in Elements(M)
  BY DEF Rings, Elements, Retvals
<1> QED
  BY <1>1, <1>2, <1>3 DEF Push, Rings

(* A pop leaves a ring.                                                    *)
LEMMA PopType ==
  ASSUME NEW M, NEW r \in Rings(M)
  PROVE  Pop(r) \in Rings(M)
BY IpiRingAssumption DEF Pop, Rings, After, Slots

(* A notify leaves a ring.                                                 *)
LEMMA NotifyType ==
  ASSUME NEW M, NEW r \in Rings(M), NEW i \in Slots, NEW v \in Retvals
  PROVE  Notify(r, i, v) \in Rings(M)
<1> DEFINE e == [ r.element[i] EXCEPT !.send_retval = v,
                                      !.signal_arrival = TRUE ]
<1>1. r.element \in [Slots -> Elements(M)] /\ r.element[i] \in Elements(M)
  BY DEF Rings
<1>2. e \in Elements(M)
  BY <1>1 DEF Elements
<1>3. [ r.element EXCEPT ![i] = e ] \in [Slots -> Elements(M)]
  BY <1>1, <1>2
<1> HIDE DEF e
<1>4. [ r EXCEPT !.element = [ r.element EXCEPT ![i] = e ] ] \in Rings(M)
  BY <1>3 DEF Rings
<1>5. CASE r.element[i].wait_in_thread
  <2>1. Notify(r, i, v)
        = [ r EXCEPT !.element = [ r.element EXCEPT ![i] = e ] ]
    BY <1>5, <1>1 DEF Notify, e, Rings
  <2> QED
    BY <1>4, <2>1
<1>6. CASE ~r.element[i].wait_in_thread
  BY <1>6 DEF Notify
<1> QED
  BY <1>5, <1>6

(* The empty ring is a ring.                                               *)
LEMMA EmptyRingType ==
  ASSUME NEW M, NEW m \in M
  PROVE  EmptyRing(m) \in Rings(M)
BY IpiRingAssumption DEF EmptyRing, Rings, Elements, Slots, Retvals

(* How many messages are queued; their slots are different. *)
LEMMA NumSlot ==
  ASSUME NEW M, NEW r \in Rings(M)
  PROVE  /\ Num(r) \in 0..Size - 1
         /\ Num(r) = 0 <=> IsEmpty(r)
         /\ Num(r) = Size - 1 <=> IsFull(r)
         /\ \A i \in 0..Num(r) : Slot(r, i) \in Slots
         /\ \A i \in 0..Num(r) - 1 : Slot(r, i) # r.idx_w
         /\ Slot(r, 0) = r.idx_r /\ Slot(r, Num(r)) = r.idx_w
<1>1. r.idx_r \in 0..Size - 1 /\ r.idx_w \in 0..Size - 1 /\ Size \in Nat
  BY IpiRingAssumption DEF Rings, Slots
<1>2. Num(r) \in 0..Size - 1 /\ (Num(r) = 0 <=> IsEmpty(r))
  BY <1>1 DEF Num, IsEmpty
<1>3. Num(r) = Size - 1 <=> IsFull(r)
  BY <1>1 DEF Num, IsFull, After
<1>4. \A i \in 0..Num(r) : Slot(r, i) \in Slots
  BY <1>1 DEF Num, Slot, Slots
<1>5. \A i \in 0..Num(r) - 1 : Slot(r, i) # r.idx_w
  BY <1>1 DEF Num, Slot
<1>6. Slot(r, 0) = r.idx_r /\ Slot(r, Num(r)) = r.idx_w
  BY <1>1 DEF Num, Slot
<1> QED
  BY <1>2, <1>3, <1>4, <1>5, <1>6

(* A push puts its message behind those that are queued. *)
LEMMA PushAppends ==
  ASSUME NEW M, NEW r \in Rings(M), NEW m \in M, NEW wait \in BOOLEAN,
         ~IsFull(r)
  PROVE  LET p == Push(r, m, wait) IN
         /\ Num(p) = Num(r) + 1
         /\ \A i \in 0..Num(r) - 1 :
              p.element[Slot(p, i)] = r.element[Slot(r, i)]
         /\ p.element[Slot(p, Num(r))].msg = m
         /\ p.idx_r = r.idx_r
<1> DEFINE p == Push(r, m, wait)
<1>1. /\ p.idx_r = r.idx_r /\ p.idx_w = After(r.idx_w)
      /\ p.element = [ r.element EXCEPT ![r.idx_w] =
           [ msg |-> m, wait_in_thread |-> wait, signal_arrival |-> FALSE,
             send_retval |-> "ok", queue_counter |-> r.queue_counter ] ]
  BY DEF Push
<1>2. Num(p) = Num(r) + 1
  <2>1. r.idx_r \in 0..Size - 1 /\ r.idx_w \in 0..Size - 1 /\ Size \in Nat
    BY IpiRingAssumption DEF Rings, Slots
  <2> QED
    BY <1>1, <2>1 DEF Num, After, IsFull
<1>3. \A i \in 0..Num(r) : Slot(p, i) = Slot(r, i)
  BY <1>1 DEF Slot
<1>4. r.element \in [Slots -> Elements(M)] /\ Num(r) \in Nat
  BY NumSlot DEF Rings
<1>5. \A i \in 0..Num(r) - 1 :
        p.element[Slot(p, i)] = r.element[Slot(r, i)]
  BY <1>1, <1>3, <1>4, NumSlot
<1>6. p.element[Slot(p, Num(r))].msg = m
  BY <1>1, <1>3, <1>4, NumSlot
<1> QED
  BY <1>1, <1>2, <1>5, <1>6

(* A pop drops the message in front. *)
LEMMA PopDrops ==
  ASSUME NEW M, NEW r \in Rings(M), ~IsEmpty(r)
  PROVE  LET p == Pop(r) IN
         /\ Num(p) = Num(r) - 1
         /\ \A i \in 0..Num(r) - 2 : Slot(p, i) = Slot(r, i + 1)
         /\ p.element = r.element
<1> DEFINE p == Pop(r)
<1>1. p.idx_r = After(r.idx_r) /\ p.idx_w = r.idx_w /\ p.element = r.element
  BY DEF Pop, Rings
<1>2. Num(p) = Num(r) - 1
  BY <1>1, IpiRingAssumption DEF Rings, Num, After, IsEmpty, Slots
<1>3. \A i \in 0..Num(r) - 2 : Slot(p, i) = Slot(r, i + 1)
  BY <1>1, IpiRingAssumption DEF Rings, Num, After, Slot, IsEmpty, Slots
<1> QED
  BY <1>1, <1>2, <1>3

(* Telling who waits for an element changes neither indices nor messages.  *)
LEMMA NotifyKeeps ==
  ASSUME NEW M, NEW r \in Rings(M), NEW i \in Slots, NEW v \in Retvals
  PROVE  LET p == Notify(r, i, v) IN
         /\ p.idx_r = r.idx_r /\ p.idx_w = r.idx_w
         /\ \A j \in Slots : p.element[j].msg = r.element[j].msg
<1> DEFINE p == Notify(r, i, v)
           e == [ r.element[i] EXCEPT !.send_retval = v,
                                      !.signal_arrival = TRUE ]
<1>1. r.element \in [Slots -> Elements(M)] /\ r.element[i] \in Elements(M)
  BY DEF Rings
<1>2. e.msg = r.element[i].msg
  BY <1>1 DEF Elements
<1> HIDE DEF e
<1>3. CASE r.element[i].wait_in_thread
  <2>1. p = [ r EXCEPT !.element = [ r.element EXCEPT ![i] = e ] ]
    BY <1>3 DEF Notify, e
  <2>2. /\ p.element = [ r.element EXCEPT ![i] = e ]
        /\ p.idx_r = r.idx_r /\ p.idx_w = r.idx_w
    BY <2>1 DEF Rings
  <2> QED
    BY <1>1, <1>2, <2>2
<1>4. CASE ~r.element[i].wait_in_thread
  BY <1>4 DEF Notify
<1> QED
  BY <1>3, <1>4

-----------------------------------------------------------------------------
(* Types *)

(* TypeOK, and a message in hand has tries left.                           *)
TypeInv == TypeOK /\ TriesLeft

(* TypeOK in two parts: the provers do not mix truth values and numbers. *)
Flags ==
  /\ run \in BOOLEAN /\ is_from_wdt \in BOOLEAN /\ adsp_is_ready \in BOOLEAN
  /\ irq \in BOOLEAN /\ uevent \in BOOLEAN /\ torn \in BOOLEAN

(* What is not a truth value.                                              *)
Data ==
  /\ q \in Rings(MsgOrNone) /\ pushed \in 0..MaxMsgs
  /\ tpc \in { "get", "send", "spin", "notify", "pop" } /\ tidx \in Slots
  /\ tries \in 0..MaxTries /\ tret \in Retvals
  /\ spc \in [Senders -> SenderPcs] /\ own \in [Senders -> Calls]
  /\ dsp \in { "off", "boot", "up", "hung" } /\ mail \in MsgOrNone
  /\ retries \in 0..RetryLimit /\ lost \in 0..MaxLost
  /\ wpc \in { "idle", "reset_w", "reset_r", "clear", "load", "unflag" }
  /\ resets \in 0..MaxResets
  /\ outcome \in [MsgOrNone -> Retvals \cup { "none" }]
  /\ TriesLeft

(* No call is a call.                                                      *)
LEMMA NoCallType == NoCall \in Calls
BY IpiRingAssumption, AdspIpiSendAssumption
   DEF NoCall, Calls, MsgOrNone, None, Slots

(* The call of a sender that pushes or returns is of its type. *)
LEMMA PushByType ==
  ASSUME Data, NEW s \in Senders,
         NEW pc \in [Senders -> SenderPcs],
         PushBy(s, pc)
  PROVE  /\ q' \in Rings(MsgOrNone) /\ pushed' \in 0..MaxMsgs
         /\ spc' \in [Senders -> SenderPcs]
         /\ own' \in [Senders -> Calls]
<1> USE DEF Data
<1>1. own[s] \in Calls /\ own[s].wait \in BOOLEAN
  BY DEF Calls
<1>2. pushed \in MsgOrNone /\ MaxMsgs \in Nat
  BY AdspIpiSendAssumption DEF MsgOrNone
<1>3. q' \in Rings(MsgOrNone)
  BY <1>1, <1>2, PushType DEF PushBy, ringVars
<1>4. pushed' \in 0..MaxMsgs
  BY <1>2 DEF PushBy, CanPush, ringVars
<1>5. spc' \in [Senders -> SenderPcs]
  BY DEF PushBy, SenderPcs
<1>6. [ own[s] EXCEPT !.id = pushed, !.idx = q.idx_w,
                      !.counter = q.queue_counter ] \in Calls
  BY <1>1, <1>2 DEF Calls, Rings
<1>7. [ own EXCEPT ![s].id = pushed, ![s].idx = q.idx_w,
                   ![s].counter = q.queue_counter ] \in [Senders -> Calls]
  BY <1>6
<1>8. own' \in [Senders -> Calls]
  BY <1>7, NoCallType DEF PushBy
<1> QED
  BY <1>3, <1>4, <1>5, <1>8

(* Every step keeps the truth values.                                      *)
LEMMA FlagsStep == Flags /\ [Next]_vars => Flags'
<1> SUFFICES ASSUME Flags, [Next]_vars PROVE Flags'
  OBVIOUS
<1> USE DEF Flags, ringVars, threadVars, senderVars, mailVars, wdtVars, history
<1>1. ASSUME NEW pc, EmptyW(pc) \/ EmptyR(pc)
      PROVE  torn' \in BOOLEAN /\ UNCHANGED << adsp_is_ready, irq >>
  BY <1>1 DEF EmptyW, EmptyR
<1>2. ASSUME NEW s \in Senders, Sending(s) \/ Interrupted(s)
             \/ \E wait \in BOOLEAN : CallSend(s, wait)
      PROVE  Flags'
  BY <1>1, <1>2 DEF Sending, Interrupted, CallSend, Enter, PushMsg, Woken,
     Timeout, GetResult, ResetW, ResetR
<1>3. CASE Thread
  <2>1. CASE Get \/ SendFails \/ NotifyElement \/ PopMsg \/ SpinDone
    BY <2>1 DEF Get, SendFails, NotifyElement, PopMsg, SpinDone
  <2>2. Trigger => irq' \in BOOLEAN
    BY DEF Trigger
  <2>3. CASE SendCopy
    BY <2>2, <2>3 DEF SendCopy
  <2>4. CASE Retrigger
    BY <2>2, <2>4 DEF Retrigger
  <2> QED
    BY <1>3, <2>1, <2>3, <2>4 DEF Thread
<1>4. CASE Wdt
  BY <1>1, <1>4 DEF Wdt, WdtFlag, WdtResetW, WdtResetR, WdtClear, WdtLoad,
     WdtUnflag
<1>5. CASE DspTake \/ DspUp \/ Hang \/ Reload
  BY <1>5 DEF DspTake, DspUp, Hang, Reload
<1>6. CASE UNCHANGED vars
  BY <1>6 DEF vars
<1> QED
  BY <1>2, <1>3, <1>4, <1>5, <1>6 DEF Next

(* The types hold in every state.                                          *)
LEMMA Types == Spec => []TypeInv
<1> USE DEF Data, TriesLeft
<1>0. /\ MaxTries \in Nat \ {0} /\ MaxSignals \in Nat \ {0}
      /\ MaxMsgs \in Nat /\ RetryLimit \in Nat /\ MaxLost \in Nat
      /\ MaxResets \in Nat /\ 0 \in Slots
      /\ None \in MsgOrNone /\ MsgOrNone = 0..MaxMsgs /\ None = MaxMsgs
      /\ Retvals = { "ok", "err" }
  BY IpiRingAssumption, AdspIpiSendAssumption
     DEF MsgOrNone, None, Slots, Retvals
<1>1. Init => Data /\ Flags
  <2>1. EmptyRing(None) \in Rings(MsgOrNone)
    BY <1>0, EmptyRingType
  <2>2. Init => Flags
    BY DEF Init, Flags
  <2>3. Init => Data
    BY <1>0, <2>1, NoCallType DEF Init, SenderPcs
  <2> QED
    BY <2>2, <2>3
<1>2. Data /\ [Next]_vars => Data'
  <2> SUFFICES ASSUME Data, [Next]_vars PROVE Data'
    OBVIOUS
  <2> USE <1>0 DEF ringVars, threadVars, senderVars, mailVars, wdtVars,
                   history
  <2>r. /\ q \in Rings(MsgOrNone) /\ q.idx_r \in Slots /\ q.idx_w \in Slots
        /\ q.element \in [Slots -> Elements(MsgOrNone)]
    BY DEF Rings
  <2>s. \A s \in Senders : own[s] \in Calls /\ own[s].idx \in Slots
    BY DEF Calls
  <2>1. ASSUME NEW s \in Senders, NEW wait \in BOOLEAN, CallSend(s, wait)
        PROVE  Data'
    <3>1. [ own[s] EXCEPT !.wait = wait ] \in Calls
      BY <2>s DEF Calls
    <3> QED
      BY <2>1, <3>1 DEF CallSend, SenderPcs
  <2>2. ASSUME NEW s \in Senders, Enter(s) PROVE Data'
    BY <2>2 DEF Enter, SenderPcs
  <2>3. ASSUME NEW s \in Senders, PushMsg(s) PROVE Data'
    BY <2>3, PushByType DEF PushMsg
  <2>4. ASSUME NEW s \in Senders, NEW ret \in { "ok", "late", "eintr" },
               WaitEnds(s, ret),
               UNCHANGED << ringVars, threadVars, mailVars, wdtVars, history >>
        PROVE  Data'
    <3>1. 0 \in 0..MaxSignals - 1 /\ ret \in { "ok", "late", "eintr", "err" }
      BY Z3
    <3>2. [ own[s] EXCEPT !.ret = ret, !.sigs = 0 ] \in Calls
      BY <2>s, <3>1 DEF Calls
    <3> QED
      BY <2>4, <3>2 DEF WaitEnds, SenderPcs
  <2>5. ASSUME NEW s \in Senders, Woken(s) PROVE Data'
    BY <2>4, <2>5 DEF Woken
  <2>6. ASSUME NEW s \in Senders, Timeout(s) PROVE Data'
    BY <2>4, <2>6 DEF Timeout
  <2>7. ASSUME NEW s \in Senders, Interrupted(s) PROVE Data'
    <3>1. CASE own[s].sigs + 1 = MaxSignals
      BY <2>4, <2>7, <3>1 DEF Interrupted
    <3>2. CASE own[s].sigs + 1 # MaxSignals
      <4>1. own[s].sigs + 1 \in 0..MaxSignals - 1
        BY <2>s, <3>2 DEF Calls
      <4>2. [ own[s] EXCEPT !.sigs = own[s].sigs + 1 ] \in Calls
        BY <2>s, <4>1 DEF Calls
      <4> QED
        BY <2>7, <3>2, <4>2 DEF Interrupted
    <3> QED
      BY <3>1, <3>2
  <2>8. ASSUME NEW s \in Senders, GetResult(s) PROVE Data'
    <3> DEFINE i == own[s].idx
               e == [ q.element[i] EXCEPT !.wait_in_thread = FALSE ]
    <3>1. i \in Slots /\ q.element[i] \in Elements(MsgOrNone)
      BY <2>r, <2>s
    <3>2. e \in Elements(MsgOrNone)
      BY <3>1 DEF Elements
    <3> HIDE DEF e
    <3>3. [ q EXCEPT !.element = [ q.element EXCEPT ![i] = e ] ]
          \in Rings(MsgOrNone)
      BY <2>r, <3>1, <3>2 DEF Rings
    <3>4. q' \in Rings(MsgOrNone)
      BY <2>8, <2>r, <3>3 DEF GetResult, e
    <3> QED
      BY <2>8, <3>4, NoCallType DEF GetResult, SenderPcs
  <2>9. ASSUME PopBy
        PROVE  q' \in Rings(MsgOrNone) /\ tpc' = "get" /\ tidx' \in Slots
               /\ tries' \in 0..MaxTries /\ tret' \in Retvals
    BY <2>9, PopType DEF PopBy
  <2>10. ASSUME NEW pc \in [Senders -> SenderPcs], EmptyW(pc)
         PROVE  /\ q' \in Rings(MsgOrNone) /\ pushed' \in 0..MaxMsgs
                /\ spc' \in [Senders -> SenderPcs]
                /\ own' \in [Senders -> Calls]
                /\ UNCHANGED << threadVars, mailVars, outcome >>
    <3>1. [ q EXCEPT !.idx_w = 0 ] \in Rings(MsgOrNone)
      BY <2>r DEF Rings
    <3>3. CASE /\ q' = [ q EXCEPT !.idx_w = 0 ] /\ spc' = pc
               /\ UNCHANGED << pushed, own >>
      BY <2>10, <3>1, <3>3 DEF EmptyW
    <3>4. ASSUME NEW b \in Senders, PushBy(b, pc)
          PROVE  /\ q' \in Rings(MsgOrNone) /\ pushed' \in 0..MaxMsgs
                 /\ spc' \in [Senders -> SenderPcs]
                 /\ own' \in [Senders -> Calls]
      BY <3>4, PushByType
    <3> QED
      BY <2>10, <3>3, <3>4 DEF EmptyW
  <2>11. ASSUME NEW pc \in [Senders -> SenderPcs], EmptyR(pc)
         PROVE  /\ q' \in Rings(MsgOrNone) /\ spc' \in [Senders -> SenderPcs]
                /\ tpc' \in { "get", tpc } /\ tidx' \in Slots
                /\ tries' \in 0..MaxTries /\ tret' \in Retvals
                /\ tpc' = "send" => tries' < MaxTries
                /\ UNCHANGED << pushed, own, mailVars, outcome >>
    <3>1. [ q EXCEPT !.idx_r = 0 ] \in Rings(MsgOrNone)
      BY <2>r DEF Rings
    <3> QED
      BY <2>9, <2>11, <3>1 DEF EmptyR
  <2>12. ASSUME NEW s \in Senders, ResetW(s) PROVE Data'
    <3>1. [ spc EXCEPT ![s] = "reset_r" ] \in [Senders -> SenderPcs]
      BY DEF SenderPcs
    <3> QED
      BY <2>10, <2>12, <3>1 DEF ResetW
  <2>13. ASSUME NEW s \in Senders, ResetR(s) PROVE Data'
    <3>1. [ spc EXCEPT ![s] = "idle" ] \in [Senders -> SenderPcs]
      BY DEF SenderPcs
    <3> QED
      BY <2>11, <2>13, <3>1 DEF ResetR
  <2>14. CASE Get
    BY <2>14, <2>r DEF Get
  <2>15. CASE SendFails
    <3>1. tries + 1 \in 0..MaxTries /\ (tries + 1 # MaxTries => tries + 1 < MaxTries)
      BY <2>15 DEF SendFails
    <3> QED
      BY <2>15, <3>1 DEF SendFails
  <2>16. ASSUME Trigger PROVE lost' \in 0..MaxLost
    BY <2>16 DEF Trigger
  <2>17. ASSUME tidx \in Slots PROVE Msg \in MsgOrNone
    BY <2>r, <2>17 DEF Msg, Elements
  <2>18. CASE SendCopy
    BY <2>16, <2>17, <2>18 DEF SendCopy
  <2>19. CASE Retrigger
    BY <2>16, <2>19 DEF Retrigger
  <2>20. CASE SpinDone
    <3>1. outcome' \in [MsgOrNone -> Retvals \cup { "none" }]
      BY <2>20 DEF SpinDone
    <3>2. /\ tpc' = "notify" /\ tret' \in Retvals /\ retries' = 0
          /\ UNCHANGED << q, pushed, tidx, tries, spc, own, dsp, mail, lost,
                          wpc, resets >>
      BY <2>20 DEF SpinDone
    <3> QED
      BY <3>1, <3>2
  <2>21. CASE NotifyElement
    BY <2>21, NotifyType DEF NotifyElement
  <2>22. CASE PopMsg
    BY <2>9, <2>22 DEF PopMsg
  <2>23. CASE DspTake \/ DspUp \/ Hang \/ Reload
    BY <2>23 DEF DspTake, DspUp, Hang, Reload
  <2>24. CASE WdtFlag \/ WdtClear \/ WdtLoad \/ WdtUnflag
    BY <2>24 DEF WdtFlag, WdtClear, WdtLoad, WdtUnflag
  <2>25. CASE WdtResetW
    BY <2>10, <2>25 DEF WdtResetW
  <2>26. CASE WdtResetR
    BY <2>11, <2>26 DEF WdtResetR
  <2>27. CASE UNCHANGED vars
    BY <2>27 DEF vars
  <2> QED
    BY <2>1, <2>2, <2>3, <2>5, <2>6, <2>7, <2>8, <2>12, <2>13, <2>14, <2>15,
       <2>18, <2>19, <2>20, <2>21, <2>22, <2>23, <2>24, <2>25, <2>26, <2>27
       DEF Next, Sending, Thread, Wdt
<1>3. Data /\ Flags <=> TypeInv
  BY DEF Flags, TypeInv, TypeOK
<1> QED
  BY <1>1, <1>2, <1>3, FlagsStep, PTL DEF Spec

-----------------------------------------------------------------------------
(* The queue *)

(* A sender that moves between other places than reset_r. *)
LEMMA HalfSame ==
  ASSUME Data, NEW s \in Senders, NEW x, spc[s] # "reset_r", x # "reset_r",
         spc' = [ spc EXCEPT ![s] = x ], wpc' = wpc
  PROVE  HalfEmptied' <=> HalfEmptied
BY DEF Data, HalfEmptied

(* A step that moves no index and no message and makes no result. *)
LEMMA QueueSame ==
  ASSUME Data, QueueInv,
         q'.idx_r = q.idx_r, q'.idx_w = q.idx_w,
         \A j \in Slots : q'.element[j].msg = q.element[j].msg,
         UNCHANGED << pushed, outcome, torn, tidx >>,
         tpc' = "get" <=> tpc = "get", Done' = Done,
         HalfEmptied' <=> HalfEmptied
  PROVE  QueueInv'
<1>1. ~torn' => ~torn
  OBVIOUS
<1>2. Busy' <=> Busy
  BY DEF Busy
<1>3. Num(q') = Num(q) /\ IsEmpty(q') = IsEmpty(q)
      /\ \A i : Slot(q', i) = Slot(q, i)
  BY DEF Num, IsEmpty, Slot
<1>4. \A i \in 0..Num(q) - 1 :
        q'.element[Slot(q', i)].msg = q.element[Slot(q, i)].msg
  BY <1>3, NumSlot DEF Data
<1>5. Queued => Queued'
  BY <1>3, <1>4 DEF Queued
<1>6. HalfQuiet => HalfQuiet'
  BY <1>2 DEF HalfQuiet
<1>7. Fresh => Fresh'
  BY DEF Fresh
<1> QED
  BY <1>1, <1>5, <1>6, <1>7 DEF QueueInv

(* A push. *)
LEMMA QueuePush ==
  ASSUME Data, ~torn, QueueInv, NEW s \in Senders, NEW pc, PushBy(s, pc),
         CanPush, UNCHANGED << outcome, tpc, tidx >>
  PROVE  /\ pushed' = pushed + 1 /\ pushed \in Msgs /\ Fresh' /\ Busy'
         /\ (HalfEmptied' <=> HalfEmptied) => QueueInv'
<1> USE DEF Data
<1>1. /\ pushed \in Msgs /\ pushed' = pushed + 1 /\ pushed \in Nat
      /\ q' = Push(q, pushed, own[s].wait) /\ ~IsFull(q)
  BY AdspIpiSendAssumption DEF PushBy, CanPush, Msgs
<1>2. own[s].wait \in BOOLEAN /\ pushed \in MsgOrNone
  BY DEF Calls, MsgOrNone
<1>3. Fresh /\ HalfQuiet /\ Queued
  BY DEF QueueInv
<1>4. Fresh'
  BY <1>1, <1>3 DEF Fresh, Msgs
<1>5. Busy'
  BY <1>1, <1>3 DEF Busy, Fresh, Msgs
<1>6. ASSUME HalfEmptied' <=> HalfEmptied PROVE QueueInv'
  <2>1. HalfQuiet'
    BY <1>3, <1>5, <1>6 DEF HalfQuiet
  <2>2. ASSUME ~HalfEmptied
        PROVE  /\ Num(q') <= pushed'
               /\ \A i \in 0..Num(q') - 1 :
                    q'.element[Slot(q', i)].msg = pushed' - Num(q') + i
               /\ \A m \in Msgs : m < pushed' =>
                    (outcome'[m] = "none" <=> m >= pushed' - Num(q') + Done')
               /\ tpc' # "get" => ~IsEmpty(q') /\ tidx' = q'.idx_r
    <3>1. /\ Num(q') = Num(q) + 1 /\ q'.idx_r = q.idx_r
          /\ \A i \in 0..Num(q) - 1 :
               q'.element[Slot(q', i)] = q.element[Slot(q, i)]
          /\ q'.element[Slot(q', Num(q))].msg = pushed
      <4>1. q' = Push(q, pushed, own[s].wait) /\ q \in Rings(MsgOrNone)
        BY <1>1
      <4> HIDE DEF Data
      <4> QED
        BY <4>1, <1>1, <1>2, PushAppends
    <3>2. Num(q) \in Nat /\ q' \in Rings(MsgOrNone)
      BY <1>1, <1>2, NumSlot, PushType
    <3>3. Num(q') # 0
      BY <3>1, <3>2
    <3>4. ~IsEmpty(q')
      BY <3>2, <3>3, NumSlot
    <3>5. Num(q) <= pushed
          /\ \A i \in 0..Num(q) - 1 :
               q.element[Slot(q, i)].msg = pushed - Num(q) + i
      BY <1>3, <2>2 DEF Queued
    <3>6. \A i \in 0..Num(q') - 1 :
            q'.element[Slot(q', i)].msg = pushed' - Num(q') + i
      <4>1. TAKE i \in 0..Num(q') - 1
      <4>2. CASE i = Num(q)
        BY <1>1, <3>1, <3>2, <4>2
      <4>3. CASE i # Num(q)
        <5>1. i \in 0..Num(q) - 1
          BY <3>1, <3>2, <4>3
        <5>2. q'.element[Slot(q', i)].msg = q.element[Slot(q, i)].msg
          BY <3>1, <5>1
        <5> QED
          BY <1>1, <3>1, <3>2, <3>5, <5>1, <5>2
      <4> QED
        BY <4>2, <4>3
    <3>7. \A m \in Msgs : m < pushed' =>
            (outcome'[m] = "none" <=> m >= pushed' - Num(q') + Done')
      <4>1. TAKE m \in Msgs
      <4>2. Done' = Done /\ Done \in { 0, 1 }
            /\ pushed' - Num(q') = pushed - Num(q)
        BY <1>1, <3>1, <3>2 DEF Done
      <4>3. Done = 0 \/ Num(q) >= 1
        <5>1. tpc # "get" => ~IsEmpty(q)
          BY <1>3, <2>2 DEF Queued
        <5>2. Num(q) # 0 \/ tpc = "get"
          BY <5>1, NumSlot
        <5> QED
          BY <3>2, <5>2 DEF Done
      <4>4. CASE m < pushed
        BY <1>3, <2>2, <4>2, <4>4 DEF Queued
      <4>5. CASE m = pushed
        <5>1. outcome[m] = "none"
          BY <1>1, <1>3, <4>5 DEF Fresh
        <5> QED
          BY <1>1, <3>2, <4>2, <4>3, <4>5, <5>1
      <4> QED
        BY <1>1, <4>4, <4>5 DEF Msgs
    <3>8. tpc' # "get" => ~IsEmpty(q') /\ tidx' = q'.idx_r
      BY <1>3, <2>2, <3>1, <3>4 DEF Queued
    <3> QED
      BY <1>1, <3>1, <3>2, <3>5, <3>6, <3>7, <3>8
  <2>3. Queued'
    BY <1>6, <2>2 DEF Queued
  <2> QED
    BY <1>4, <2>1, <2>3 DEF QueueInv
<1> QED
  BY <1>1, <1>4, <1>5, <1>6

(* Emptying idx_w tears the ring unless no message is in it. *)
LEMMA QueueEmptyW ==
  ASSUME Data, QueueInv, NEW pc, EmptyW(pc), HalfEmptied'
  PROVE  QueueInv'
<1> SUFFICES ASSUME ~torn' PROVE Fresh' /\ HalfQuiet' /\ Queued'
  BY DEF QueueInv
<1>1. ~torn /\ ~Busy /\ UNCHANGED << tpc, tidx, outcome >>
  BY DEF EmptyW, threadVars
<1>2. tpc = "get" /\ Fresh
  BY <1>1 DEF Busy, QueueInv
<1>3. CASE q' = [ q EXCEPT !.idx_w = 0 ] /\ pushed' = pushed
  <2>1. Fresh'
    BY <1>1, <1>2, <1>3 DEF Fresh
  <2>2. q'.idx_w = 0
    BY <1>3 DEF Data, Rings
  <2> QED
    BY <1>1, <1>2, <2>1, <2>2 DEF HalfQuiet, Queued
<1>4. ASSUME NEW b \in Senders, PushBy(b, pc), CanPush
      PROVE  Fresh' /\ HalfQuiet' /\ Queued'
  <2>1. Fresh' /\ Busy'
    BY <1>1, <1>4, QueuePush
  <2> QED
    BY <1>1, <1>2, <2>1 DEF HalfQuiet, Queued
<1> QED
  BY <1>3, <1>4 DEF EmptyW

(* Emptying idx_r after it leaves an empty ring, or a torn one. *)
LEMMA QueueEmptyR ==
  ASSUME Data, QueueInv, NEW pc, EmptyR(pc), HalfEmptied
  PROVE  QueueInv'
<1> SUFFICES ASSUME ~torn' PROVE Fresh' /\ HalfQuiet' /\ Queued'
  BY DEF QueueInv
<1>1. ~torn /\ ~Busy /\ UNCHANGED << pushed, outcome >>
  BY DEF EmptyR
<1>2. tpc = "get" /\ Fresh /\ HalfQuiet
      /\ \A m \in Msgs : m < pushed => outcome[m] # "none"
  BY <1>1 DEF Busy, QueueInv
<1>3. q' = [ q EXCEPT !.idx_r = 0 ] /\ tpc' = tpc
  BY <1>2 DEF EmptyR, PopBy, threadVars
<1>4. q.idx_w = 0 /\ q'.idx_w = 0 /\ q'.idx_r = 0 /\ q' \in Rings(MsgOrNone)
  BY <1>1, <1>2, <1>3, IpiRingAssumption DEF HalfQuiet, Data, Rings, Slots
<1>5. Num(q') = 0
  BY <1>4, NumSlot DEF IsEmpty
<1>6. Fresh'
  BY <1>1, <1>2 DEF Fresh
<1>7. HalfQuiet'
  BY <1>2, <1>3, <1>4 DEF HalfQuiet
<1>8. Queued'
  <2>1. pushed \in Nat /\ Msgs \subseteq Nat
    BY DEF Data, Msgs
  <2>2. Done' = 0
    BY <1>2, <1>3 DEF Done
  <2>3. \A m \in Msgs : m < pushed' =>
          (outcome'[m] = "none" <=> m >= pushed' - Num(q') + Done')
    BY <1>1, <1>2, <1>5, <2>1, <2>2
  <2>4. \A i \in 0..Num(q') - 1 : FALSE
    BY <1>5
  <2> QED
    BY <1>1, <1>2, <1>3, <1>5, <2>1, <2>3, <2>4 DEF Queued
<1> QED
  BY <1>6, <1>7, <1>8

(* The thread takes, ends and drops the front message. *)
LEMMA QueueGet == Data /\ QueueInv /\ Get => QueueInv'
<1> SUFFICES ASSUME Data, QueueInv, Get, ~torn'
             PROVE  Fresh' /\ HalfQuiet' /\ Queued'
  BY DEF QueueInv
<1>1. /\ ~torn /\ ~HalfEmptied /\ tpc = "get" /\ ~IsEmpty(q)
      /\ tpc' = "send" /\ tidx' = q.idx_r
      /\ UNCHANGED << q, pushed, spc, wpc, outcome >>
  BY DEF Get, ringVars, senderVars, wdtVars
<1>2. Fresh /\ Queued
  BY <1>1 DEF QueueInv
<1>3. ~HalfEmptied' /\ Done' = Done
  BY <1>1 DEF HalfEmptied, Done
<1>4. Fresh' /\ HalfQuiet'
  BY <1>1, <1>2, <1>3 DEF Fresh, HalfQuiet
<1>5. Queued'
  BY <1>1, <1>2, <1>3 DEF Queued
<1> QED
  BY <1>4, <1>5

(* What the thread has taken is the oldest message without a result. *)
LEMMA FrontMsg ==
  ASSUME Data, QueueInv, ~torn, tpc # "get"
  PROVE  /\ ~HalfEmptied /\ Num(q) \in 1..pushed /\ pushed \in 0..MaxMsgs
         /\ MaxMsgs \in Nat /\ Msg = pushed - Num(q) /\ Msg \in Msgs
<1>1. ~HalfEmptied /\ Queued
  BY DEF QueueInv, HalfQuiet
<1>2. Num(q) \in Nat /\ Num(q) # 0 /\ Num(q) <= pushed /\ Slot(q, 0) = tidx
  BY <1>1, NumSlot DEF Queued, Data
<1>3. pushed \in 0..MaxMsgs /\ MaxMsgs \in Nat
  BY AdspIpiSendAssumption DEF Data
<1>4. Msg = pushed - Num(q)
  BY <1>1, <1>2, <1>3 DEF Queued, Msg
<1> QED
  BY <1>1, <1>2, <1>3, <1>4 DEF Msgs

(* A result keeps the invariant of the queue.                              *)
LEMMA QueueResult ==
  ASSUME Data, QueueInv, NEW v \in Retvals, tpc \in { "send", "spin" },
         tpc' = "notify", outcome' = [ outcome EXCEPT ![Msg] = v ],
         UNCHANGED << q, pushed, tidx, spc, wpc, torn >>
  PROVE  QueueInv'
<1> SUFFICES ASSUME ~torn' PROVE Fresh' /\ HalfQuiet' /\ Queued'
  BY DEF QueueInv
<1>1. ~torn
  OBVIOUS
<1>2. /\ ~HalfEmptied /\ Num(q) \in 1..pushed /\ pushed \in 0..MaxMsgs
      /\ MaxMsgs \in Nat /\ Msg = pushed - Num(q) /\ Msg \in Msgs
  BY <1>1, FrontMsg
<1>3. Fresh /\ Queued
  BY <1>1 DEF QueueInv
<1>4. ~HalfEmptied' /\ Done = 0 /\ Done' = 1
  BY <1>2 DEF HalfEmptied, Done
<1>5. v # "none" /\ \A m \in Msgs :
        outcome'[m] = IF m = Msg THEN v ELSE outcome[m]
  BY <1>2 DEF Data, Retvals, Msgs, MsgOrNone
<1>6. Fresh' /\ HalfQuiet'
  BY <1>2, <1>3, <1>4, <1>5 DEF Fresh, HalfQuiet, Msgs
<1>7. \A m \in Msgs : m < pushed =>
        (outcome'[m] = "none" <=> m >= pushed - Num(q) + 1)
  BY <1>2, <1>3, <1>4, <1>5 DEF Queued, Msgs
<1>8. Queued'
  BY <1>2, <1>3, <1>4, <1>7 DEF Queued
<1> QED
  BY <1>6, <1>8

(* So does a pop.                                                          *)
LEMMA QueuePop == Data /\ QueueInv /\ PopMsg => QueueInv'
<1> SUFFICES ASSUME Data, QueueInv, PopMsg, ~torn'
             PROVE  Fresh' /\ HalfQuiet' /\ Queued'
  BY DEF QueueInv
<1>1. /\ ~torn /\ tpc = "pop" /\ tpc' = "get" /\ q' = Pop(q)
      /\ UNCHANGED << pushed, spc, wpc, outcome >>
  BY DEF PopMsg, PopBy, senderVars, wdtVars, history
<1>2. /\ ~HalfEmptied /\ Num(q) \in 1..pushed /\ pushed \in 0..MaxMsgs
      /\ MaxMsgs \in Nat
  BY <1>1, FrontMsg
<1>3. Fresh /\ Queued /\ ~IsEmpty(q) /\ q \in Rings(MsgOrNone)
  BY <1>1, <1>2 DEF QueueInv, Queued, Data
<1>4. ~HalfEmptied' /\ Done = 1 /\ Done' = 0
  BY <1>1, <1>2 DEF HalfEmptied, Done
<1>5. /\ Num(q') = Num(q) - 1 /\ q'.element = q.element
      /\ \A i \in 0..Num(q) - 2 : Slot(q', i) = Slot(q, i + 1)
  BY <1>1, <1>3, PopDrops
<1>6. \A i \in 0..Num(q') - 1 :
        q'.element[Slot(q', i)].msg = pushed - Num(q') + i
  <2>1. TAKE i \in 0..Num(q') - 1
  <2>2. i \in 0..Num(q) - 2 /\ i + 1 \in 0..Num(q) - 1
    BY <1>2, <1>5
  <2>3. q'.element[Slot(q', i)].msg = pushed - Num(q) + (i + 1)
    BY <1>2, <1>3, <1>5, <2>2 DEF Queued
  <2> QED
    BY <1>2, <1>5, <2>2, <2>3
<1>7. \A m \in Msgs : m < pushed =>
        (outcome[m] = "none" <=> m >= pushed - Num(q') + 0)
  <2>1. pushed - Num(q') + 0 = pushed - Num(q) + 1
    BY <1>2, <1>5
  <2> QED
    BY <1>2, <1>3, <1>4, <2>1 DEF Queued
<1>8. Fresh' /\ HalfQuiet'
  BY <1>1, <1>3, <1>4 DEF Fresh, HalfQuiet
<1>9. Queued'
  BY <1>1, <1>2, <1>4, <1>5, <1>6, <1>7 DEF Queued
<1> QED
  BY <1>8, <1>9

(* Every step keeps the queue in order. *)
LEMMA QueueStep == Data /\ QueueInv /\ [Next]_vars => QueueInv'
<1> SUFFICES ASSUME Data, QueueInv, [Next]_vars PROVE QueueInv'
  OBVIOUS
<1> USE DEF ringVars, threadVars, senderVars, mailVars, wdtVars, history
<1>1. ASSUME UNCHANGED << q, pushed, tpc, tidx, outcome, torn >>,
             HalfEmptied' <=> HalfEmptied
      PROVE  QueueInv'
  BY <1>1, QueueSame DEF Done
<1>2. ASSUME NEW s \in Senders, NEW x, spc[s] # "reset_r", x # "reset_r",
             spc' = [ spc EXCEPT ![s] = x ], wpc' = wpc,
             UNCHANGED << q, pushed, tpc, tidx, outcome, torn >>
      PROVE  QueueInv'
  BY <1>1, <1>2, HalfSame
<1>3. ASSUME NEW s \in Senders, NEW wait \in BOOLEAN, CallSend(s, wait)
      PROVE  QueueInv'
  BY <1>2, <1>3 DEF CallSend
<1>4. ASSUME NEW s \in Senders, Enter(s) PROVE QueueInv'
  BY <1>2, <1>4 DEF Enter
<1>5. ASSUME NEW s \in Senders, PushMsg(s) PROVE QueueInv'
  <2>1. UNCHANGED << outcome, torn, tpc, tidx, wpc >> /\ PushBy(s, spc)
    BY <1>5 DEF PushMsg
  <2>2. HalfEmptied' <=> HalfEmptied
    BY <2>1, HalfSame DEF PushBy
  <2>3. CASE CanPush /\ ~torn
    BY <2>1, <2>2, <2>3, QueuePush
  <2>4. CASE ~CanPush
    BY <1>1, <2>1, <2>2, <2>4 DEF PushBy
  <2>5. CASE torn
    BY <2>1, <2>5 DEF QueueInv
  <2> QED
    BY <2>3, <2>4, <2>5
<1>6. ASSUME NEW s \in Senders, Woken(s) \/ Timeout(s) \/ Interrupted(s)
      PROVE  QueueInv'
  <2>1. UNCHANGED << q, pushed, tpc, tidx, outcome, torn, wpc >>
        /\ spc[s] = "wait"
    BY <1>6 DEF Woken, Timeout, Interrupted
  <2>2. CASE spc' = [ spc EXCEPT ![s] = "result" ]
    BY <1>2, <2>1, <2>2
  <2>3. CASE UNCHANGED spc
    BY <1>1, <2>1, <2>3 DEF HalfEmptied
  <2> QED
    BY <1>6, <2>2, <2>3 DEF Woken, Timeout, Interrupted, WaitEnds
<1>7. ASSUME NEW s \in Senders, GetResult(s) PROVE QueueInv'
  <2>1. HalfEmptied' <=> HalfEmptied
    BY <1>7, HalfSame DEF GetResult
  <2>2. own[s].idx \in Slots /\ q.element \in [Slots -> Elements(MsgOrNone)]
    BY DEF Data, Calls, Rings
  <2>3. /\ q'.idx_r = q.idx_r /\ q'.idx_w = q.idx_w
        /\ \A j \in Slots : q'.element[j].msg = q.element[j].msg
    <3>1. CASE OwnElement(s)
      <4>1. q' = [ q EXCEPT !.element[own[s].idx].wait_in_thread = FALSE ]
        BY <1>7, <3>1 DEF GetResult
      <4> QED
        BY <2>2, <4>1 DEF Data, Rings, Elements
    <3>2. CASE ~OwnElement(s)
      BY <1>7, <3>2 DEF GetResult
    <3> QED
      BY <3>1, <3>2
  <2>4. UNCHANGED << pushed, outcome, torn, tidx, tpc >>
    BY <1>7 DEF GetResult
  <2> QED
    BY <2>1, <2>3, <2>4, QueueSame DEF Done
<1>8. ASSUME NEW s \in Senders, ResetW(s) PROVE QueueInv'
  <2>1. spc'[s] = "reset_r"
    BY <1>8 DEF ResetW, EmptyW, PushBy, Data
  <2>2. HalfEmptied'
    BY <2>1 DEF HalfEmptied
  <2> QED
    BY <1>8, <2>2, QueueEmptyW DEF ResetW
<1>9. ASSUME NEW s \in Senders, ResetR(s) PROVE QueueInv'
  BY <1>9, QueueEmptyR DEF ResetR, HalfEmptied
<1>10. CASE Get
  BY <1>10, QueueGet
<1>11. CASE SendFails
  <2>1. CASE tries + 1 = MaxTries
    BY <1>11, <2>1, QueueResult DEF SendFails, Retvals
  <2>2. CASE tries + 1 # MaxTries
    BY <1>1, <1>11, <2>2 DEF SendFails, HalfEmptied
  <2> QED
    BY <2>1, <2>2
<1>12. CASE SendCopy
  <2>1. Done' = Done /\ (HalfEmptied' <=> HalfEmptied)
        /\ (tpc' = "get" <=> tpc = "get")
        /\ UNCHANGED << q, pushed, outcome, torn, tidx >>
    BY <1>12 DEF SendCopy, Done, HalfEmptied
  <2> QED
    BY <2>1, QueueSame
<1>13. CASE Retrigger
  BY <1>1, <1>13 DEF Retrigger, HalfEmptied
<1>14. CASE SpinDone
  BY <1>14, QueueResult DEF SpinDone, Retvals
<1>15. CASE NotifyElement
  <2>1. /\ UNCHANGED << pushed, outcome, torn, tidx >> /\ Done' = Done
        /\ tpc = "notify" /\ tpc' = "pop" /\ (HalfEmptied' <=> HalfEmptied)
    BY <1>15 DEF NotifyElement, Done, HalfEmptied
  <2>2. q' = Notify(q, tidx, tret) /\ q \in Rings(MsgOrNone)
        /\ tidx \in Slots /\ tret \in Retvals
    BY <1>15 DEF NotifyElement, Data
  <2>3. /\ q'.idx_r = q.idx_r /\ q'.idx_w = q.idx_w
        /\ \A j \in Slots : q'.element[j].msg = q.element[j].msg
    BY <2>2, NotifyKeeps
  <2> QED
    BY <2>1, <2>3, QueueSame
<1>16. CASE PopMsg
  BY <1>16, QueuePop
<1>17. CASE DspTake \/ DspUp \/ Hang \/ Reload
  BY <1>1, <1>17 DEF DspTake, DspUp, Hang, Reload, HalfEmptied
<1>18. CASE WdtFlag \/ WdtClear \/ WdtLoad \/ WdtUnflag
  BY <1>1, <1>18
     DEF WdtFlag, WdtClear, WdtLoad, WdtUnflag, HalfEmptied
<1>19. CASE WdtResetW
  BY <1>19, QueueEmptyW DEF WdtResetW, HalfEmptied
<1>20. CASE WdtResetR
  BY <1>20, QueueEmptyR DEF WdtResetR, HalfEmptied
<1>21. CASE UNCHANGED vars
  BY <1>1, <1>21 DEF vars, HalfEmptied
<1> QED
  BY <1>3, <1>4, <1>5, <1>6, <1>7, <1>8, <1>9, <1>10, <1>11, <1>12, <1>13,
     <1>14, <1>15, <1>16, <1>17, <1>18, <1>19, <1>20, <1>21
     DEF Next, Sending, Thread, Wdt

-----------------------------------------------------------------------------
(* The results *)

(* The invariant of the results.                                           *)
ResultInv == Counted /\ Holding /\ Signalled

(* The ring keeps what tells a waiter its result. *)
SameElements ==
  \A i \in Slots :
    /\ q'.element[i].msg = q.element[i].msg
    /\ q'.element[i].queue_counter = q.element[i].queue_counter
    /\ q'.element[i].signal_arrival = q.element[i].signal_arrival
    /\ q'.element[i].send_retval = q.element[i].send_retval

(* The senders other than s keep their calls; s does too, or waits no more.*)
SameCalls(s) ==
  /\ \A b \in Senders : b # s => spc'[b] = spc[b] /\ own'[b] = own[b]
  /\ spc'[s] \in { "wait", "result" } =>
       /\ spc[s] \in { "wait", "result" }
       /\ own'[s].idx = own[s].idx /\ own'[s].id = own[s].id
       /\ own'[s].counter = own[s].counter

(* Steps that leave calls and elements keep Holding.                       *)
LEMMA HoldingSame ==
  ASSUME Data, Holding, NEW s \in Senders, SameCalls(s), SameElements
  PROVE  Holding'
<1> SUFFICES ASSUME NEW b \in Senders, spc'[b] \in { "wait", "result" }
             PROVE  own'[b].counter = own'[b].id
                    /\ q'.element[own'[b].idx].msg # None
  BY DEF Holding, Element, None
<1>1. /\ spc[b] \in { "wait", "result" } /\ own'[b].idx = own[b].idx
      /\ own'[b].id = own[b].id /\ own'[b].counter = own[b].counter
  BY DEF SameCalls
<1>2. own[b].idx \in Slots
  BY DEF Data, Calls
<1> QED
  BY <1>1, <1>2 DEF Holding, Element, SameElements

(* A step that changes neither the elements nor the results. *)
LEMMA ResultSame ==
  ASSUME Data, ResultInv, SameElements, NEW s \in Senders, SameCalls(s),
         q'.queue_counter = q.queue_counter, UNCHANGED << pushed, outcome >>,
         torn => torn',
         tpc' = "notify" => UNCHANGED << tpc, tidx, tret >>
  PROVE  ResultInv'
<1>1. Holding'
  BY HoldingSame DEF ResultInv
<1>2. Counted'
  BY DEF ResultInv, Counted, SameElements, None
<1>3. Signalled'
  <2> SUFFICES ASSUME ~torn'
               PROVE  /\ tpc' = "notify" => tret' = outcome'[Msg']
                      /\ \A i \in Slots : q'.element[i].signal_arrival =>
                           q'.element[i].send_retval
                             = outcome'[q'.element[i].msg]
    BY DEF Signalled
  <2> QED
    BY DEF ResultInv, Signalled, SameElements, Msg, Data
<1> QED
  BY <1>1, <1>2, <1>3 DEF ResultInv

(* A push writes a slot that the thread is not about to signal. *)
LEMMA ResultPush ==
  ASSUME MaxMsgs <= Counters, Data, ResultInv, NEW s \in Senders,
         NEW pc \in [Senders -> SenderPcs],
         \A b \in Senders : pc[b] \in { "wait", "result" } => pc[b] = spc[b],
         PushBy(s, pc), CanPush, UNCHANGED << tpc, tidx, tret, outcome >>,
         torn => torn',
         ~torn' /\ tpc = "notify" => tidx = q.idx_r /\ ~IsEmpty(q)
  PROVE  ResultInv'
<1> USE DEF Data
<1>1. /\ pushed \in Nat /\ pushed < MaxMsgs /\ pushed' = pushed + 1
      /\ MaxMsgs \in Nat /\ Counters \in Nat \ {0}
      /\ q' = Push(q, pushed, own[s].wait)
      /\ q.queue_counter = pushed /\ pushed # None
  BY AdspIpiSendAssumption, IpiRingAssumption
     DEF PushBy, CanPush, None, ResultInv, Counted
<1>2. /\ q.idx_w \in Slots /\ q.element \in [Slots -> Elements(MsgOrNone)]
      /\ tidx \in Slots
  BY DEF Rings
<1>3. /\ q'.queue_counter = (pushed + 1) % Counters
      /\ q'.element[q.idx_w].msg = pushed
      /\ q'.element[q.idx_w].queue_counter = pushed
      /\ q'.element[q.idx_w].signal_arrival = FALSE
      /\ \A i \in Slots : i # q.idx_w => q'.element[i] = q.element[i]
  BY <1>1, <1>2 DEF Push
<1>4. Counted'
  <2>1. pushed' < Counters => q'.queue_counter = pushed'
    BY <1>1, <1>3
  <2> QED
    BY <1>2, <1>3, <2>1 DEF ResultInv, Counted, None
<1>5. Holding'
  <2> SUFFICES ASSUME NEW b \in Senders, spc'[b] \in { "wait", "result" }
               PROVE  own'[b].counter = own'[b].id
                      /\ q'.element[own'[b].idx].msg # None
    BY DEF Holding, Element, None
  <2>1. CASE b = s
    <3>1. own[s] \in Calls /\ own[s].wait
      BY <2>1 DEF PushBy
    <3>2. own'[s] = [ own[s] EXCEPT !.id = pushed, !.idx = q.idx_w,
                                    !.counter = q.queue_counter ]
      BY <3>1 DEF PushBy
    <3>3. own'[s].id = pushed /\ own'[s].idx = q.idx_w
          /\ own'[s].counter = q.queue_counter
      BY <3>1, <3>2 DEF Calls
    <3> QED
      BY <1>1, <1>3, <2>1, <3>3
  <2>2. CASE b # s
    <3>1. spc'[b] = pc[b] /\ own'[b] = own[b]
      BY <2>2 DEF PushBy
    <3>2. own[b].counter = own[b].id /\ q.element[own[b].idx].msg # None
      BY <3>1 DEF ResultInv, Holding, Element
    <3>3. own[b].idx \in Slots
      BY DEF Calls
    <3> QED
      BY <1>1, <1>3, <3>1, <3>2, <3>3
  <2> QED
    BY <2>1, <2>2
<1>6. Signalled'
  <2> SUFFICES ASSUME ~torn'
               PROVE  /\ tpc' = "notify" => tret' = outcome'[Msg']
                      /\ \A i \in Slots : q'.element[i].signal_arrival =>
                           q'.element[i].send_retval
                             = outcome'[q'.element[i].msg]
    BY DEF Signalled
  <2>1. tpc = "notify" => Msg' = Msg
    BY <1>2, <1>3 DEF IsEmpty, Msg
  <2> QED
    BY <1>3, <2>1 DEF ResultInv, Signalled
<1> QED
  BY <1>4, <1>5, <1>6 DEF ResultInv

(* The result of the front message is made, and it had none before. *)
LEMMA ResultMade ==
  ASSUME Data, QueueInv, ResultInv, NEW v \in Retvals,
         tpc \in { "send", "spin" }, tret' = v,
         outcome' = [ outcome EXCEPT ![Msg] = v ],
         UNCHANGED << q, pushed, tidx, spc, own, torn >>
  PROVE  ResultInv'
<1>1. Counted'
  BY DEF ResultInv, Counted, None
<1>2. Holding'
  BY DEF ResultInv, Holding, Element, None
<1>3. Signalled'
  <2> SUFFICES ASSUME ~torn
               PROVE  /\ tret' = outcome'[Msg]
                      /\ \A i \in Slots : q.element[i].signal_arrival =>
                           q.element[i].send_retval
                             = outcome'[q.element[i].msg]
    BY DEF Signalled, Msg
  <2>1. /\ ~HalfEmptied /\ Num(q) \in 1..pushed /\ pushed \in 0..MaxMsgs
        /\ MaxMsgs \in Nat /\ Msg = pushed - Num(q) /\ Msg \in Msgs
    BY FrontMsg
  <2>2. Msg < pushed /\ Msg >= pushed - Num(q) + Done
    BY <2>1 DEF Done, Msgs
  <2>3. outcome[Msg] = "none"
    BY <2>1, <2>2 DEF QueueInv, Queued
  <2>4. outcome \in [MsgOrNone -> Retvals \cup { "none" }] /\ Msg \in MsgOrNone
    BY <2>1 DEF Data, MsgOrNone, Msgs
  <2>5. ASSUME NEW i \in Slots, q.element[i].signal_arrival
        PROVE  q.element[i].send_retval = outcome'[q.element[i].msg]
    <3>1. q.element[i].send_retval = outcome[q.element[i].msg]
      BY <2>5 DEF ResultInv, Signalled
    <3>2. q.element[i].send_retval # "none" /\ q.element[i].msg \in MsgOrNone
      BY DEF Data, Rings, Elements, Retvals
    <3> QED
      BY <2>3, <2>4, <3>1, <3>2
  <2> QED
    BY <2>4, <2>5
<1> QED
  BY <1>1, <1>2, <1>3 DEF ResultInv

(* The thread tells the result it has made. *)
LEMMA ResultTold ==
  ASSUME Data, ResultInv, NotifyElement
  PROVE  ResultInv'
<1> USE DEF Data
<1>1. /\ tpc = "notify" /\ tpc' = "pop" /\ q' = Notify(q, tidx, tret)
      /\ UNCHANGED << pushed, tidx, tret, spc, own, outcome, torn >>
  BY DEF NotifyElement, senderVars, history
<1>2. tidx \in Slots /\ q.element \in [Slots -> Elements(MsgOrNone)]
      /\ q.element[tidx] \in Elements(MsgOrNone)
  BY DEF Rings
<1>3. /\ q'.queue_counter = q.queue_counter
      /\ \A i \in Slots :
           /\ q'.element[i].msg = q.element[i].msg
           /\ q'.element[i].queue_counter = q.element[i].queue_counter
           /\ \/ i = tidx /\ q'.element[i].send_retval = tret
              \/ /\ q'.element[i].signal_arrival = q.element[i].signal_arrival
                 /\ q'.element[i].send_retval = q.element[i].send_retval
  <2> DEFINE e == [ q.element[tidx] EXCEPT !.send_retval = tret,
                                           !.signal_arrival = TRUE ]
  <2>1. CASE q.element[tidx].wait_in_thread
    <3>1. e.msg = q.element[tidx].msg /\ e.send_retval = tret
          /\ e.queue_counter = q.element[tidx].queue_counter
      BY <1>2 DEF Elements
    <3> HIDE DEF e
    <3>2. q' = [ q EXCEPT !.element = [ q.element EXCEPT ![tidx] = e ] ]
      BY <1>1, <2>1 DEF Notify, e
    <3>3. q'.element = [ q.element EXCEPT ![tidx] = e ]
          /\ q'.queue_counter = q.queue_counter
      BY <3>2 DEF Rings
    <3> QED
      BY <1>2, <3>1, <3>3
  <2>2. CASE ~q.element[tidx].wait_in_thread
    BY <1>1, <2>2 DEF Notify
  <2> QED
    BY <2>1, <2>2
<1>4. Counted'
  BY <1>1, <1>3 DEF ResultInv, Counted, None
<1>5. Holding'
  <2>1. \A s \in Senders : own[s].idx \in Slots
    BY DEF Calls
  <2> QED
    BY <1>1, <1>3, <2>1 DEF ResultInv, Holding, Element, None
<1>6. Signalled'
  BY <1>1, <1>3 DEF ResultInv, Signalled, Msg
<1> QED
  BY <1>4, <1>5, <1>6 DEF ResultInv

(* Every step keeps the invariant of the results.                          *)
LEMMA ResultStep ==
  ASSUME MaxMsgs <= Counters, Data, QueueInv, ResultInv, [Next]_vars
  PROVE  ResultInv'
<1> USE DEF ringVars, threadVars, senderVars, mailVars, wdtVars, history
<1>1. UNCHANGED q => SameElements
  BY DEF SameElements
<1>2. ASSUME NEW s \in Senders, SameCalls(s), UNCHANGED << q, pushed, outcome >>,
             torn => torn', tpc' = "notify" => UNCHANGED << tpc, tidx, tret >>
      PROVE  ResultInv'
  BY <1>1, <1>2, ResultSame
<1>3. ASSUME UNCHANGED << q, pushed, spc, own, outcome, torn >>,
             tpc' = "notify" => UNCHANGED << tpc, tidx, tret >>
      PROVE  ResultInv'
  <2>1. Counted'
    BY <1>3 DEF ResultInv, Counted, None
  <2>2. Holding'
    BY <1>3 DEF ResultInv, Holding, Element, None
  <2>3. Signalled'
    BY <1>3 DEF ResultInv, Signalled, Msg
  <2> QED
    BY <2>1, <2>2, <2>3 DEF ResultInv
<1>4. ASSUME NEW s \in Senders, NEW wait \in BOOLEAN, CallSend(s, wait)
      PROVE  ResultInv'
  <2>1. SameCalls(s)
    BY <1>4 DEF CallSend, SameCalls, Data
  <2> QED
    BY <1>2, <1>4, <2>1 DEF CallSend
<1>5. ASSUME NEW s \in Senders, Enter(s) PROVE ResultInv'
  <2>1. SameCalls(s)
    BY <1>5 DEF Enter, SameCalls, Data
  <2> QED
    BY <1>2, <1>5, <2>1 DEF Enter
<1>6. ASSUME NEW pc \in [Senders -> SenderPcs], NEW s \in Senders,
             \A b \in Senders :
               pc[b] \in { "wait", "result" } => pc[b] = spc[b],
             PushBy(s, pc), CanPush, UNCHANGED << tpc, tidx, tret, outcome >>,
             torn => torn', ~torn' => ~HalfEmptied \/ tpc = "get"
      PROVE  ResultInv'
  <2>1. ~torn' /\ tpc = "notify" => tidx = q.idx_r /\ ~IsEmpty(q)
    BY <1>6 DEF QueueInv, Queued
  <2> QED
    BY <1>6, <2>1, ResultPush
<1>7. ASSUME NEW s \in Senders, PushMsg(s) PROVE ResultInv'
  <2>1. PushBy(s, spc) /\ UNCHANGED << tpc, tidx, tret, outcome, torn >>
    BY <1>7 DEF PushMsg
  <2>2. ~torn' => ~HalfEmptied \/ tpc = "get"
    BY <2>1 DEF QueueInv, HalfQuiet
  <2>3. spc \in [Senders -> SenderPcs]
    BY DEF Data
  <2>4. CASE CanPush
    BY <1>6, <2>1, <2>2, <2>3, <2>4
  <2>5. CASE ~CanPush
    <3>1. SameCalls(s)
      BY <2>1, <2>3, <2>5 DEF PushBy, SameCalls, Data
    <3> QED
      BY <1>2, <2>1, <2>5, <3>1 DEF PushBy
  <2> QED
    BY <2>4, <2>5
<1>8. ASSUME NEW s \in Senders, Woken(s) \/ Timeout(s) \/ Interrupted(s)
      PROVE  ResultInv'
  <2>1. own[s] \in Calls /\ spc[s] = "wait"
    BY <1>8 DEF Data, Woken, Timeout, Interrupted
  <2>2. SameCalls(s)
    BY <1>8, <2>1
       DEF Woken, Timeout, Interrupted, WaitEnds, SameCalls, Data, Calls
  <2>3. UNCHANGED << q, pushed, outcome, torn, tpc, tidx, tret >>
    BY <1>8 DEF Woken, Timeout, Interrupted
  <2> QED
    BY <1>2, <2>2, <2>3
<1>9. ASSUME NEW s \in Senders, GetResult(s) PROVE ResultInv'
  <2>1. own[s].idx \in Slots /\ q.element \in [Slots -> Elements(MsgOrNone)]
    BY DEF Data, Calls, Rings
  <2>2. SameElements /\ q'.queue_counter = q.queue_counter
    <3>1. CASE OwnElement(s)
      <4>1. q' = [ q EXCEPT !.element[own[s].idx].wait_in_thread = FALSE ]
        BY <1>9, <3>1 DEF GetResult
      <4> QED
        BY <2>1, <4>1 DEF Data, Rings, Elements, SameElements
    <3>2. CASE ~OwnElement(s)
      BY <1>1, <1>9, <3>2 DEF GetResult
    <3> QED
      BY <3>1, <3>2
  <2>3. SameCalls(s)
    BY <1>9 DEF GetResult, SameCalls, Data
  <2>4. UNCHANGED << pushed, outcome, torn, tpc, tidx, tret >>
    BY <1>9 DEF GetResult
  <2> QED
    BY <2>2, <2>3, <2>4, ResultSame
<1>10. ASSUME NEW pc \in [Senders -> SenderPcs], EmptyW(pc),
              NEW s \in Senders,
              \A b \in Senders : b # s => pc[b] = spc[b],
              pc[s] = spc[s] \/ pc[s] \notin { "wait", "result" }
       PROVE  ResultInv'
  <2>1. /\ torn => torn'
        /\ UNCHANGED << tpc, tidx, tret, outcome >>
        /\ ~torn' => tpc = "get"
    BY <1>10 DEF EmptyW, Busy
  <2>2. CASE q' = [ q EXCEPT !.idx_w = 0 ] /\ spc' = pc
             /\ UNCHANGED << pushed, own >>
    <3>1. SameElements /\ q'.queue_counter = q.queue_counter
      BY <2>2 DEF Data, Rings, SameElements
    <3>2. SameCalls(s)
      BY <1>10, <2>2 DEF SameCalls
    <3> QED
      BY <2>1, <2>2, <3>1, <3>2, ResultSame
  <2>3. ASSUME NEW b \in Senders, CanPush, PushBy(b, pc) PROVE ResultInv'
    <3>1. \A a \in Senders : pc[a] \in { "wait", "result" } => pc[a] = spc[a]
      BY <1>10
    <3> QED
      BY <1>6, <1>10, <2>1, <2>3, <3>1
  <2> QED
    BY <1>10, <2>2, <2>3 DEF EmptyW
<1>11. ASSUME PopBy PROVE SameElements /\ q'.queue_counter = q.queue_counter
                          /\ tpc' = "get"
  BY <1>11 DEF PopBy, Pop, Data, Rings, SameElements
<1>12. ASSUME NEW pc, EmptyR(pc), NEW s \in Senders,
              \A b \in Senders : b # s => pc[b] = spc[b],
              pc[s] = spc[s] \/ pc[s] \notin { "wait", "result" }
       PROVE  ResultInv'
  <2>1. SameCalls(s)
    BY <1>12 DEF SameCalls, EmptyR
  <2>2. torn => torn'
    BY <1>12 DEF EmptyR
  <2>3. UNCHANGED << pushed, outcome >>
    BY <1>12 DEF EmptyR
  <2>4. CASE q' = [ q EXCEPT !.idx_r = 0 ] /\ UNCHANGED threadVars
    <3>1. SameElements /\ q'.queue_counter = q.queue_counter
      BY <2>4 DEF Data, Rings, SameElements
    <3> QED
      BY <2>1, <2>2, <2>3, <2>4, <3>1, ResultSame
  <2>5. CASE PopBy
    BY <1>11, <2>1, <2>2, <2>3, <2>5, ResultSame
  <2> QED
    BY <1>12, <2>4, <2>5 DEF EmptyR
<1>13. ASSUME NEW s \in Senders, ResetW(s) PROVE ResultInv'
  <2>1. [ spc EXCEPT ![s] = "reset_r" ] \in [Senders -> SenderPcs]
    BY DEF Data, SenderPcs
  <2> QED
    BY <1>10, <1>13, <2>1 DEF ResetW, Data
<1>14. ASSUME NEW s \in Senders, ResetR(s) PROVE ResultInv'
  BY <1>12, <1>14 DEF ResetR, Data
<1>15. CASE WdtResetW \/ WdtResetR
  <2>1. CASE Senders = {}
    <3>1. SameElements /\ q'.queue_counter = q.queue_counter
          /\ UNCHANGED << pushed, outcome >> /\ (torn => torn')
          /\ (tpc' = "notify" => UNCHANGED << tpc, tidx, tret >>)
      <4>1. CASE WdtResetW
        BY <2>1, <4>1 DEF WdtResetW, EmptyW, SameElements, Data, Rings
      <4>2. CASE WdtResetR
        BY <1>11, <2>1, <4>2 DEF WdtResetR, EmptyR, SameElements, Data, Rings
      <4> QED
        BY <1>15, <4>1, <4>2
    <3>2. Counted'
      BY <3>1 DEF ResultInv, Counted, SameElements, None
    <3>3. Holding'
      BY <2>1 DEF Holding
    <3>4. Signalled'
      <4> SUFFICES ASSUME ~torn'
               PROVE  /\ tpc' = "notify" => tret' = outcome'[Msg']
                      /\ \A i \in Slots : q'.element[i].signal_arrival =>
                           q'.element[i].send_retval
                             = outcome'[q'.element[i].msg]
        BY DEF Signalled
      <4> QED
        BY <3>1 DEF ResultInv, Signalled, SameElements, Msg, Data
    <3> QED
      BY <3>2, <3>3, <3>4 DEF ResultInv
  <2>2. ASSUME NEW s \in Senders PROVE ResultInv'
    BY <1>10, <1>12, <1>15 DEF WdtResetW, WdtResetR, Data
  <2> QED
    BY <2>1, <2>2
<1>16. CASE Get \/ SendCopy
  <2>1. UNCHANGED << q, pushed, spc, own, outcome >> /\ tpc' # "notify"
        /\ (torn => torn')
    <3>1. CASE Get
      BY <3>1 DEF Get
    <3>2. CASE SendCopy
      BY <3>2 DEF SendCopy
    <3> QED
      BY <1>16, <3>1, <3>2
  <2>2. Counted' /\ Holding'
    BY <2>1 DEF ResultInv, Counted, Holding, Element, None
  <2>3. Signalled'
    BY <2>1 DEF ResultInv, Signalled
  <2> QED
    BY <2>2, <2>3 DEF ResultInv
<1>17. CASE SendFails
  <2>1. CASE tries + 1 = MaxTries
    BY <1>17, <2>1, ResultMade DEF SendFails, Retvals
  <2>2. CASE tries + 1 # MaxTries
    BY <1>3, <1>17, <2>2 DEF SendFails
  <2> QED
    BY <2>1, <2>2
<1>18. CASE Retrigger
  BY <1>3, <1>18 DEF Retrigger
<1>19. CASE SpinDone
  BY <1>19, ResultMade DEF SpinDone, Retvals
<1>20. CASE NotifyElement
  BY <1>20, ResultTold
<1>21. CASE PopMsg
  <2>1. UNCHANGED << pushed, spc, own, outcome, torn >> /\ PopBy
    BY <1>21 DEF PopMsg
  <2>2. SameElements /\ q'.queue_counter = q.queue_counter /\ tpc' = "get"
    BY <1>11, <2>1
  <2>3. Counted'
    BY <2>1, <2>2 DEF ResultInv, Counted, SameElements, None
  <2>4. Holding'
    BY <2>1, <2>2
       DEF ResultInv, Holding, Element, SameElements, None, Data, Calls
  <2>5. Signalled'
    BY <2>1, <2>2 DEF ResultInv, Signalled, SameElements
  <2> QED
    BY <2>3, <2>4, <2>5 DEF ResultInv
<1>22. CASE DspTake \/ DspUp \/ Hang \/ Reload
  BY <1>3, <1>22 DEF DspTake, DspUp, Hang, Reload
<1>23. CASE WdtFlag \/ WdtClear \/ WdtLoad \/ WdtUnflag
  BY <1>3, <1>23 DEF WdtFlag, WdtClear, WdtLoad, WdtUnflag
<1>24. CASE UNCHANGED vars
  BY <1>3, <1>24 DEF vars
<1> QED
  BY <1>4, <1>5, <1>7, <1>8, <1>9, <1>13, <1>14, <1>15, <1>16, <1>17, <1>18,
     <1>19, <1>20, <1>21, <1>22, <1>23, <1>24 DEF Next, Sending, Thread, Wdt

-----------------------------------------------------------------------------
(* The theorems *)

(* TypeOK holds for rings, senders and bounds of every size. *)
THEOREM IpiTypeCorrect == Spec => []TypeOK
<1>1. TypeInv => TypeOK
  BY DEF TypeInv
<1> QED
  BY <1>1, Types, PTL

(* The two parts of the types.                                             *)
LEMMA TypeParts == TypeInv => Data /\ Flags
BY DEF TypeInv, TypeOK, Data, Flags

(* The invariant of the queue holds in every state.                        *)
LEMMA QueueOrder == Spec => [](Data /\ QueueInv)
<1>1. Init => QueueInv
  <2> SUFFICES ASSUME Init PROVE Fresh /\ HalfQuiet /\ Queued
    BY DEF QueueInv
  <2>1. q = EmptyRing(None) /\ q.idx_w = 0 /\ q.idx_r = 0 /\ tpc = "get"
        /\ pushed = 0 /\ Msgs \subseteq Nat
    BY DEF Init, EmptyRing, Msgs
  <2>2. Fresh
    BY AdspIpiSendAssumption DEF Init, Fresh, Msgs, MsgOrNone
  <2>3. HalfQuiet
    BY <2>1 DEF HalfQuiet
  <2>4. Num(q) = 0
    BY <2>1 DEF Num
  <2>5. (\A m \in Msgs : ~(m < pushed)) /\ \A i \in 0..Num(q) - 1 : FALSE
    BY <2>1, <2>4
  <2>6. Num(q) <= pushed
    BY <2>1, <2>4
  <2> QED
    BY <2>1, <2>2, <2>3, <2>5, <2>6 DEF Queued
<1>2. Data /\ QueueInv /\ [Next]_vars => QueueInv'
  BY QueueStep
<1> QED
  BY <1>1, <1>2, Types, TypeParts, PTL DEF Spec

(* No message is lost or overtaken, whatever the watchdog does between two *)
(* messages.                                                               *)
THEOREM IpiKept == Spec => []Kept
<1>1. Data /\ QueueInv => Kept
  <2> SUFFICES ASSUME Data, QueueInv, ~torn, ~HalfEmptied
               PROVE  /\ \A i \in 0..Num(q) - 1 :
                           q.element[Slot(q, i)].msg = pushed - Num(q) + i
                      /\ \A m \in Msgs :
                           m < pushed - Num(q) => outcome[m] # "none"
    BY DEF Kept
  <2>1. Queued
    BY DEF QueueInv
  <2>2. Num(q) \in Nat /\ pushed \in Nat /\ Done \in { 0, 1 } /\ Msgs \subseteq Nat
    BY NumSlot DEF Data, Done, Msgs
  <2>3. ASSUME NEW m \in Msgs, m < pushed - Num(q) PROVE outcome[m] # "none"
    <3>1. m < pushed /\ ~(m >= pushed - Num(q) + Done)
      BY <2>2, <2>3
    <3> QED
      BY <2>1, <3>1 DEF Queued
  <2> QED
    BY <2>1, <2>3 DEF Queued
<1> QED
  BY <1>1, QueueOrder, PTL

(* The DSP is given each message once and in order. *)
THEOREM IpiOnceInOrder == Spec => OnceInOrder
<1> DEFINE Given == mail' # mail /\ mail' # None =>
              torn' \/ ( /\ outcome[mail'] = "none"
                        /\ \A m \in Msgs : m < mail' => outcome[m] # "none" )
<1>1. Data /\ QueueInv /\ [Next]_vars => [Given]_vars
  <2> SUFFICES ASSUME Data, QueueInv, Next, mail' # mail, mail' # None, ~torn'
               PROVE  /\ outcome[mail'] = "none"
                      /\ \A m \in Msgs : m < mail' => outcome[m] # "none"
    BY DEF vars
  <2>1. SendCopy
    BY DEF Next, Sending, Thread, Wdt, CallSend, Enter, PushMsg, Woken, Timeout,
       Interrupted, GetResult, ResetW, ResetR, EmptyW, EmptyR, Get, SendFails,
       Retrigger, SpinDone, NotifyElement, PopMsg, DspTake, DspUp, Hang, Reload,
       WdtFlag, WdtResetW, WdtResetR, WdtClear, WdtLoad, WdtUnflag, mailVars
  <2>2. tpc = "send" /\ mail' = Msg /\ ~torn
    BY <2>1 DEF SendCopy, history
  <2>3. /\ ~HalfEmptied /\ Num(q) \in 1..pushed /\ pushed \in 0..MaxMsgs
        /\ MaxMsgs \in Nat /\ Msg = pushed - Num(q) /\ Msg \in Msgs
    BY <2>2, FrontMsg
  <2>4. Queued /\ Done = 0
    BY <2>2, <2>3 DEF QueueInv, Done
  <2> QED
    BY <2>2, <2>3, <2>4 DEF Queued, Msgs
<1> QED
  BY <1>1, QueueOrder, PTL DEF Spec, OnceInOrder

(* A waiter that is signalled reads the result of its own message, as long *)
(* as queue_counter does not wrap round.                                   *)
THEOREM IpiOwnResult ==
  ASSUME MaxMsgs <= Counters
  PROVE  Spec => []OwnResult
<1>1. Init => ResultInv
  BY IpiRingAssumption
     DEF Init, EmptyRing, ResultInv, Counted, Holding, Signalled
<1>2. Data /\ QueueInv /\ ResultInv /\ [Next]_vars => ResultInv'
  BY ResultStep
<1>3. Data /\ ResultInv => OwnResult
  <2> SUFFICES ASSUME Data, ResultInv, ~torn, NEW s \in Senders,
                      spc[s] = "result", OwnElement(s), Element(s).signal_arrival
               PROVE  Returned(s) = outcome[own[s].id]
    BY DEF OwnResult
  <2>1. own[s].idx \in Slots
    BY DEF Data, Calls
  <2>2. Element(s).msg = own[s].id
    BY <2>1 DEF ResultInv, Holding, Counted, OwnElement, Element
  <2> QED
    BY <2>1, <2>2 DEF ResultInv, Signalled, Returned, Element
<1> QED
  BY <1>1, <1>2, <1>3, QueueOrder, PTL DEF Spec

-----------------------------------------------------------------------------
(* Nothing is left waiting                                                 *)

(* The interrupt of the mailbox is down under a message only when the DSP  *)
(* missed it each time it was sent; the repeats are counted from the copy. *)
MissedOnly ==
  /\ tpc # "spin" => retries = 0
  /\ tpc = "spin" /\ mail # None /\ ~irq => lost >= retries + 1

(* Somebody is about to load a DSP that does not run.                      *)
Recovering ==
  dsp \in { "off", "hung" } =>
    uevent \/ wpc \in { "reset_w", "reset_r", "clear", "load" }

(* Every interrupt is seen or counted as missed.                           *)
LEMMA MissedStep == Data /\ MissedOnly /\ [Next]_vars => MissedOnly'
<1> SUFFICES ASSUME Data, MissedOnly, [Next]_vars PROVE MissedOnly'
  OBVIOUS
<1>0. retries \in Nat /\ lost \in Nat
  BY AdspIpiSendAssumption DEF Data
<1> USE DEF MissedOnly
<1>1. CASE SendCopy
  BY <1>0, <1>1 DEF SendCopy, Trigger
<1>2. CASE Retrigger
  BY <1>0, <1>2 DEF Retrigger, Trigger, threadVars
<1>3. CASE SpinDone
  BY <1>3 DEF SpinDone
<1>4. CASE PopMsg
  BY <1>4 DEF PopMsg, PopBy, mailVars
<1>5. CASE Get \/ SendFails \/ NotifyElement
  BY <1>5 DEF Get, SendFails, NotifyElement, mailVars
<1>6. CASE DspTake \/ DspUp
  BY <1>6 DEF DspTake, DspUp, threadVars
<1>7. ASSUME NEW pc, EmptyW(pc) \/ EmptyR(pc) PROVE MissedOnly'
  BY <1>7 DEF EmptyW, EmptyR, PopBy, threadVars, mailVars
<1>8. ASSUME NEW s \in Senders, Sending(s) \/ Interrupted(s)
             \/ \E wait \in BOOLEAN : CallSend(s, wait)
      PROVE  MissedOnly'
  BY <1>7, <1>8
     DEF Sending, Interrupted, CallSend, Enter, PushMsg, Woken, Timeout,
         GetResult, ResetW, ResetR, threadVars, mailVars
<1>9. CASE Wdt \/ Hang \/ Reload
  BY <1>7, <1>9
     DEF Wdt, WdtFlag, WdtResetW, WdtResetR, WdtClear, WdtLoad, WdtUnflag,
         Hang, Reload, threadVars, mailVars
<1>10. CASE UNCHANGED vars
  BY <1>10 DEF vars, threadVars, mailVars
<1> QED
  BY <1>1, <1>2, <1>3, <1>4, <1>5, <1>6, <1>8, <1>9, <1>10 DEF Next, Thread

(* A uevent is given up only to the notifiers, the last of which loads.    *)
LEMMA RecoveringStep == Data /\ Recovering /\ [Next]_vars => Recovering'
<1> SUFFICES ASSUME Data, Recovering, [Next]_vars PROVE Recovering'
  OBVIOUS
<1> USE DEF Recovering
<1>1. CASE Wdt
  BY <1>1
     DEF Wdt, WdtFlag, WdtResetW, WdtResetR, WdtClear, WdtLoad, WdtUnflag
<1>2. CASE DspTake \/ DspUp \/ Hang \/ Reload
  BY <1>2 DEF DspTake, DspUp, Hang, Reload, wdtVars
<1>3. ASSUME NEW s \in Senders, Sending(s) \/ Interrupted(s)
             \/ \E wait \in BOOLEAN : CallSend(s, wait)
      PROVE  UNCHANGED wdtVars
  BY <1>3
     DEF Sending, Interrupted, CallSend, Enter, PushMsg, Woken, Timeout,
         GetResult, ResetW, ResetR
<1>4. CASE Thread
  BY <1>4
     DEF Thread, Get, SendFails, SendCopy, Retrigger, SpinDone, NotifyElement,
         PopMsg, wdtVars
<1>5. CASE UNCHANGED vars
  BY <1>5 DEF vars, wdtVars
<1> QED
  BY <1>1, <1>2, <1>3, <1>4, <1>5 DEF Next, wdtVars

(* While a message has no result, somebody is at work on it, as long as    *)
(* the DSP does not miss more interrupts than are repeated.                *)
THEOREM IpiInHand == Spec => []InHand
<1>1. Init => MissedOnly /\ Recovering
  BY DEF Init, MissedOnly, Recovering
<1>2. Data /\ MissedOnly /\ Recovering /\ [Next]_vars
        => (MissedOnly /\ Recovering)'
  BY MissedStep, RecoveringStep
<1>3. Data /\ QueueInv /\ MissedOnly /\ Recovering => InHand
  <2> SUFFICES ASSUME Data, QueueInv, MissedOnly, ~torn, ~HalfEmptied,
                      MaxLost <= RetryLimit,
                      NEW m \in Msgs, m < pushed, outcome[m] = "none"
               PROVE  /\ tpc = "get" => ~IsEmpty(q)
                      /\ tpc = "spin" /\ mail # None =>
                           irq \/ retries < RetryLimit
    BY DEF InHand, Recovering
  <2>1. ASSUME tpc = "get" PROVE ~IsEmpty(q)
    <3>1. m >= pushed - Num(q) + Done /\ Done = 0
      BY <2>1 DEF QueueInv, Queued, Done
    <3>2. Num(q) \in Nat /\ pushed \in Nat /\ m \in Nat
      BY NumSlot DEF Data, Msgs
    <3>3. Num(q) # 0
      BY <3>1, <3>2
    <3> QED
      BY <3>3, NumSlot DEF Data
  <2>2. ASSUME tpc = "spin", mail # None, ~irq PROVE retries < RetryLimit
    BY <2>2, AdspIpiSendAssumption DEF MissedOnly, Data
  <2> QED
    BY <2>1, <2>2
<1> QED
  BY <1>1, <1>2, <1>3, Types, TypeParts, QueueOrder, PTL DEF Spec
==============================================================================
