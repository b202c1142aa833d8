---------------------------- MODULE AdspIpiSend ----------------------------
(***************************************************************************)
(* Messages from the host to the far-field DSP: adsp_ipi_send and          *)
(* scp_send_msg_to_queue in any number of threads, the kernel thread that  *)
(* takes messages from the ring and hands them to the DSP through its      *)
(* mailbox, and the watchdog, which empties the ring without its lock.     *)
(*                                                                         *)
(* A message is the number of its push.  What holds queue_lock or          *)
(* element_lock is one step; the two indices are emptied in two steps.  An *)
(* index store of the watchdog that falls between the load and the store   *)
(* of an increment under the lock is undone by it: the "lost" disjuncts.   *)
(***************************************************************************)
EXTENDS IpiRing

CONSTANTS
  Senders,       (* threads that send                                       *)
  MaxMsgs,       (* bound: messages pushed                                  *)
  MaxTries,      (* k_max_try_count of scp_send_msg_to_scp: 1500            *)
  MaxSignals,    (* k_max_try_cnt of scp_send_msg_to_queue: 20              *)
  RetryLimit,    (* IPC_RETRY_LIMIT                                         *)
  MaxLost,       (* bound: mailbox interrupts the DSP misses                *)
  MaxResets      (* bound: hangs of the DSP and reloads of its firmware     *)

ASSUME AdspIpiSendAssumption ==
  /\ { MaxMsgs, MaxTries, MaxSignals } \subseteq Nat \ {0}
  /\ { RetryLimit, MaxLost, MaxResets } \subseteq Nat

VARIABLES
  q,             \* scp_msg_queue[SCP_PATH_A2S]
  pushed,        \* history: messages pushed so far
  run,           \* hifi4dsp_load->boot_done
  is_from_wdt,
  tpc, tidx,     \* the kernel thread: where it is, the slot it took
  tries, tret,   \*   failed sends of this message, result of the send
  spc,           \* senders: where each is,
  own,           \*   and its call: the message it pushed, the slot and the
                 \*   queue_counter it got, signals taken while waiting, and
                 \*   what the wait ended with
  dsp,           \* the DSP itself
  adsp_is_ready, \* the magic number of the DSP was seen once
  mail,          \* host_to_adsp_status: the message it has not taken yet
  irq,           \* the mailbox interrupt is up at the DSP
  retries, lost, \* interrupts repeated for this message, interrupts missed
  wpc, uevent,   \* the watchdog notifiers, DSP_WTD_WHOLE sent to user space
  resets,        \* hangs and reloads so far
  outcome,       \* history: what each message ended with
  torn           \* history: the ring was emptied under a message

ringVars == << q, pushed >>
threadVars == << tpc, tidx, tries, tret >>
senderVars == << spc, own >>
mailVars == << adsp_is_ready, mail, irq, retries, lost >>
wdtVars == << run, is_from_wdt, dsp, wpc, uevent, resets >>
history == << outcome, torn >>
vars == << ringVars, threadVars, senderVars, mailVars, wdtVars, history >>

Msgs == 0..MaxMsgs - 1
None == MaxMsgs      \* no message
MsgOrNone == 0..MaxMsgs

SenderPcs ==
  { "idle", "enter", "reset_w", "reset_r", "push", "wait", "result" }

Calls == [ id : MsgOrNone, wait : BOOLEAN, idx : Slots,
           counter : 0..Counters - 1, sigs : 0..MaxSignals - 1,
           ret : { "ok", "late", "eintr", "err" } ]
NoCall == [ id |-> None, wait |-> FALSE, idx |-> 0, counter |-> 0,
            sigs |-> 0, ret |-> "ok" ]

TypeOK ==
  /\ q \in Rings(MsgOrNone) /\ pushed \in 0..MaxMsgs
  /\ run \in BOOLEAN /\ is_from_wdt \in BOOLEAN
  /\ tpc \in { "get", "send", "spin", "notify", "pop" } /\ tidx \in Slots
  /\ tries \in 0..MaxTries /\ tret \in Retvals
  /\ spc \in [Senders -> SenderPcs]
  /\ own \in [Senders -> Calls]
  /\ dsp \in { "off", "boot", "up", "hung" }
  /\ adsp_is_ready \in BOOLEAN /\ mail \in MsgOrNone /\ irq \in BOOLEAN
  /\ retries \in 0..RetryLimit /\ lost \in 0..MaxLost
  /\ wpc \in { "idle", "reset_w", "reset_r", "clear", "load", "unflag" }
  /\ uevent \in BOOLEAN /\ resets \in 0..MaxResets
  /\ outcome \in [MsgOrNone -> Retvals \cup { "none" }] /\ torn \in BOOLEAN

Init ==
  /\ q = EmptyRing(None) /\ pushed = 0
  /\ run = FALSE /\ is_from_wdt = FALSE
  /\ tpc = "get" /\ tidx = 0 /\ tries = 0 /\ tret = "ok"
  /\ spc = [ s \in Senders |-> "idle" ]
  /\ own = [ s \in Senders |-> NoCall ]
  /\ dsp = "off" /\ adsp_is_ready = FALSE /\ mail = None /\ irq = FALSE
  /\ retries = 0 /\ lost = 0
  /\ wpc = "load" /\ uevent = FALSE /\ resets = 0
  /\ outcome = [ m \in MsgOrNone |-> "none" ] /\ torn = FALSE

(* Somebody has emptied idx_w and not yet idx_r. *)
HalfEmptied == wpc = "reset_r" \/ \E s \in Senders : spc[s] = "reset_r"

(* A message is queued, or in the hands of the thread. *)
Busy == tpc # "get" \/ \E m \in Msgs : m < pushed /\ outcome[m] = "none"

-----------------------------------------------------------------------------
(* Senders *)

(* adsp_ipi_send: refused during a watchdog. *)
CallSend(s, wait) ==
  /\ spc[s] = "idle" /\ ~is_from_wdt /\ pushed < MaxMsgs
  /\ spc' = [ spc EXCEPT ![s] = "enter" ]
  /\ own' = [ own EXCEPT ![s].wait = wait ]
  /\ UNCHANGED << ringVars, threadVars, mailVars, wdtVars, history >>

(* scp_send_msg_to_queue: without a DSP that runs, empty the ring. *)
Enter(s) ==
  /\ spc[s] = "enter"
  /\ spc' = [ spc EXCEPT ![s] = IF ~run \/ is_from_wdt THEN "reset_w"
                                ELSE "push" ]
  /\ UNCHANGED << ringVars, threadVars, own, mailVars, wdtVars, history >>

(* There is room; the bound MaxMsgs counts as a full ring. *)
CanPush == ~IsFull(q) /\ pushed < MaxMsgs

(* Sender s pushes its message, or is told -EOVERFLOW; where the other     *)
(* senders are afterwards is in pc.                                        *)
PushBy(s, pc) ==
  /\ spc[s] = "push"
  /\ IF CanPush
     THEN q' = Push(q, pushed, own[s].wait) /\ pushed' = pushed + 1
     ELSE UNCHANGED ringVars
  /\ IF CanPush /\ own[s].wait
     THEN /\ spc' = [ pc EXCEPT ![s] = "wait" ]
          /\ own' = [ own EXCEPT ![s].id = pushed, ![s].idx = q.idx_w,
                                 ![s].counter = q.queue_counter ]
     ELSE /\ spc' = [ pc EXCEPT ![s] = "idle" ]
          /\ own' = [ own EXCEPT ![s] = NoCall ]

PushMsg(s) ==
  /\ PushBy(s, spc)
  /\ UNCHANGED << threadVars, mailVars, wdtVars, history >>

Element(s) == q.element[own[s].idx]

(* The wait for the element ends with ret. *)
WaitEnds(s, ret) ==
  /\ spc' = [ spc EXCEPT ![s] = "result" ]
  /\ own' = [ own EXCEPT ![s].ret = ret, ![s].sigs = 0 ]

(* The element was processed, *)
Woken(s) ==
  /\ spc[s] = "wait" /\ Element(s).signal_arrival
  /\ WaitEnds(s, "ok")
  /\ UNCHANGED << ringVars, threadVars, mailVars, wdtVars, history >>

(* Mutant: the wait has no timeout. *)
TimeoutNever(s) == spc[s] = "wait" /\ FALSE
(* or 5 ms are over: also 0, "will still send to scp later", *)
Timeout(s) ==
  /\ spc[s] = "wait" /\ ~Element(s).signal_arrival
  /\ WaitEnds(s, "late")
  /\ UNCHANGED << ringVars, threadVars, mailVars, wdtVars, history >>

(* or a signal came, which is given in to only after several. *)
Interrupted(s) ==
  /\ spc[s] = "wait" /\ ~Element(s).signal_arrival
  /\ IF own[s].sigs + 1 = MaxSignals
     THEN WaitEnds(s, "eintr")
     ELSE own' = [ own EXCEPT ![s].sigs = @ + 1 ] /\ UNCHANGED spc
  /\ UNCHANGED << ringVars, threadVars, mailVars, wdtVars, history >>

(* The element in the slot is still the message of sender s. *)
OwnElement(s) == Element(s).queue_counter = own[s].counter

(* What the call returns. *)
Returned(s) == IF OwnElement(s) /\ Element(s).signal_arrival
               THEN Element(s).send_retval ELSE own[s].ret

GetResult(s) ==
  /\ spc[s] = "result"
  /\ q' = IF OwnElement(s)
          THEN [ q EXCEPT !.element[own[s].idx].wait_in_thread = FALSE ]
          ELSE q
  /\ spc' = [ spc EXCEPT ![s] = "idle" ]
  /\ own' = [ own EXCEPT ![s] = NoCall ]
  /\ UNCHANGED << pushed, threadVars, mailVars, wdtVars, history >>

(* The kernel thread drops the message it has processed. *)
PopBy ==
  /\ tpc = "pop" /\ tpc' = "get" /\ tidx' = 0 /\ tries' = 0 /\ tret' = "ok"
  /\ q' = Pop(q)

-----------------------------------------------------------------------------
(* Emptying the ring without its lock: a sender, or the notifier *)

(* idx_w = 0; lost when a push stores its increment after it.  Where the   *)
(* senders are afterwards is in pc.                                        *)
EmptyW(pc) ==
  /\ torn' = (torn \/ Busy)
  /\ \/ /\ q' = [ q EXCEPT !.idx_w = 0 ]
        /\ spc' = pc
        /\ UNCHANGED << pushed, own >>
     \/ CanPush /\ \E b \in Senders : PushBy(b, pc)
  /\ UNCHANGED << threadVars, mailVars, outcome >>

(* idx_r = 0; lost when a pop stores its increment after it. *)
EmptyR(pc) ==
  /\ torn' = (torn \/ Busy)
  /\ spc' = pc
  /\ \/ q' = [ q EXCEPT !.idx_r = 0 ] /\ UNCHANGED threadVars
     \/ ~IsEmpty(q) /\ PopBy
  /\ UNCHANGED << pushed, own, mailVars, outcome >>

ResetW(s) ==
  /\ spc[s] = "reset_w" /\ EmptyW([ spc EXCEPT ![s] = "reset_r" ])
  /\ UNCHANGED wdtVars

(* The call returns -1. *)
ResetR(s) ==
  /\ spc[s] = "reset_r" /\ EmptyR([ spc EXCEPT ![s] = "idle" ])
  /\ UNCHANGED wdtVars

-----------------------------------------------------------------------------
(* The kernel thread *)

(* scp_get_queue_element: the front message, which stays in the ring. *)
Get ==
  /\ tpc = "get" /\ ~IsEmpty(q)
  /\ tpc' = "send" /\ tidx' = q.idx_r /\ tries' = 0
  /\ torn' = (torn \/ HalfEmptied)
  /\ UNCHANGED << ringVars, tret, senderVars, mailVars, wdtVars, outcome >>

Msg == q.element[tidx].msg

(* Raise the interrupt of the mailbox; the DSP may miss it. *)
Trigger ==
  \/ irq' = TRUE /\ UNCHANGED lost
  \/ lost < MaxLost /\ lost' = lost + 1 /\ UNCHANGED irq

(* send_msg_by_spi refuses: no DSP was ever ready, or the mailbox is taken. *)
SendFails ==
  /\ tpc = "send"
  /\ (~adsp_is_ready /\ dsp # "up") \/ mail # None
  /\ tries' = tries + 1
  /\ IF tries + 1 = MaxTries
     THEN /\ tpc' = "notify" /\ tret' = "err"
          /\ outcome' = [ outcome EXCEPT ![Msg] = "err" ]
     ELSE UNCHANGED << tpc, tret, outcome >>
  /\ UNCHANGED << ringVars, tidx, senderVars, mailVars, wdtVars, torn >>

(* send_msg_by_spi: copy the message into the mailbox. *)
SendCopy ==
  /\ tpc = "send"
  /\ adsp_is_ready \/ dsp = "up"
  /\ mail = None
  /\ adsp_is_ready' = TRUE /\ mail' = Msg
  /\ Trigger
  /\ tpc' = "spin"
  /\ UNCHANGED << ringVars, tidx, tries, tret, retries, senderVars, wdtVars,
                  history >>

(* Mutant: the last retry is not made. *)
RetriggerFew ==
  /\ tpc = "spin" /\ mail # None /\ retries + 1 < RetryLimit
  /\ retries' = retries + 1
  /\ Trigger
  /\ UNCHANGED << ringVars, threadVars, senderVars, adsp_is_ready, mail,
                  wdtVars, history >>

(* is_ipi_busy: the interrupt may be lost, send it again. *)
Retrigger ==
  /\ tpc = "spin" /\ mail # None /\ retries < RetryLimit
  /\ retries' = retries + 1
  /\ Trigger
  /\ UNCHANGED << ringVars, threadVars, senderVars, adsp_is_ready, mail,
                  wdtVars, history >>

(* The DSP has cleared the mailbox. *)
SpinDone ==
  /\ tpc = "spin" /\ mail = None
  /\ tpc' = "notify" /\ tret' = "ok"
  /\ outcome' = [ outcome EXCEPT ![Msg] = "ok" ] /\ retries' = 0
  /\ UNCHANGED << ringVars, tidx, tries, senderVars, adsp_is_ready, mail, irq,
                  lost, wdtVars, torn >>

NotifyElement ==
  /\ tpc = "notify"
  /\ tpc' = "pop" /\ q' = Notify(q, tidx, tret)
  /\ UNCHANGED << pushed, tidx, tries, tret, senderVars, mailVars, wdtVars,
                  history >>

PopMsg ==
  /\ PopBy
  /\ UNCHANGED << pushed, senderVars, mailVars, wdtVars, history >>

-----------------------------------------------------------------------------
(* The DSP, its hangs and reloads, and the watchdog notifiers *)

(* The DSP takes the message of the mailbox and clears its status. *)
DspTake ==
  /\ dsp = "up" /\ irq
  /\ irq' = FALSE /\ mail' = None
  /\ UNCHANGED << ringVars, threadVars, senderVars, adsp_is_ready, retries,
                  lost, wdtVars, history >>

(* The new firmware has set up its shared memory. *)
DspUp ==
  /\ dsp = "boot"
  /\ dsp' = "up" /\ mail' = None /\ irq' = FALSE
  /\ UNCHANGED << ringVars, threadVars, senderVars, adsp_is_ready, retries,
                  lost, run, is_from_wdt, wpc, uevent, resets, history >>

(* The watchdog of the DSP fires; dsp_wdt_work_handler tells user space. *)
Hang ==
  /\ dsp = "up" /\ resets < MaxResets
  /\ dsp' = "hung" /\ resets' = resets + 1 /\ uevent' = TRUE
  /\ UNCHANGED << ringVars, threadVars, senderVars, mailVars, run,
                  is_from_wdt, wpc, outcome, torn >>

(* "reload" in debugfs or a resume: hifi4dsp_rst, then tell user space. *)
Reload ==
  /\ dsp \in { "up", "hung" } /\ resets < MaxResets
  /\ run' = FALSE /\ dsp' = "off" /\ resets' = resets + 1 /\ uevent' = TRUE
  /\ UNCHANGED << ringVars, threadVars, senderVars, mailVars, is_from_wdt,
                  wpc, outcome, torn >>

(* User space runs the notifiers: adsp_ipi_get_wdt_status is the first. *)
WdtFlag ==
  /\ uevent /\ wpc = "idle"
  /\ uevent' = FALSE /\ is_from_wdt' = TRUE
  /\ wpc' = IF run THEN "clear" ELSE "reset_w"
  /\ UNCHANGED << ringVars, threadVars, senderVars, mailVars, run, dsp,
                  resets, history >>

WdtResetW ==
  /\ wpc = "reset_w" /\ wpc' = "reset_r" /\ EmptyW(spc)
  /\ UNCHANGED << run, is_from_wdt, dsp, uevent, resets >>

WdtResetR ==
  /\ wpc = "reset_r" /\ wpc' = "clear" /\ EmptyR(spc)
  /\ UNCHANGED << run, is_from_wdt, dsp, uevent, resets >>

(* dbg_notify_show_adsp_log and notify_rst_adsp *)
WdtClear ==
  /\ wpc = "clear" /\ wpc' = "load"
  /\ run' = FALSE /\ dsp' = "off"
  /\ UNCHANGED << ringVars, threadVars, senderVars, mailVars, is_from_wdt,
                  uevent, resets, history >>

(* set_hifi4dsp_run_status: the firmware is loaded and started. *)
WdtLoad ==
  /\ wpc = "load" /\ wpc' = "unflag"
  /\ run' = TRUE /\ dsp' = "boot"
  /\ UNCHANGED << ringVars, threadVars, senderVars, mailVars, is_from_wdt,
                  uevent, resets, history >>

(* adsp_ipi_set_wdt_status *)
WdtUnflag ==
  /\ wpc = "unflag" /\ wpc' = "idle" /\ is_from_wdt' = FALSE
  /\ UNCHANGED << ringVars, threadVars, senderVars, mailVars, run, dsp,
                  uevent, resets, outcome, torn >>

-----------------------------------------------------------------------------
Thread == Get \/ SendFails \/ SendCopy \/ Retrigger \/ SpinDone
          \/ NotifyElement \/ PopMsg

Sending(s) == Enter(s) \/ PushMsg(s) \/ Woken(s) \/ Timeout(s) \/ GetResult(s)
              \/ ResetW(s) \/ ResetR(s)

Wdt == WdtFlag \/ WdtResetW \/ WdtResetR \/ WdtClear \/ WdtLoad \/ WdtUnflag

Next ==
  \/ \E s \in Senders :
       \/ \E wait \in BOOLEAN : CallSend(s, wait)
       \/ Sending(s) \/ Interrupted(s)
  \/ Thread \/ Wdt
  \/ DspTake \/ DspUp \/ Hang \/ Reload

Spec == Init /\ [][Next]_vars

(* A sender that can go on does, and its timer runs out. *)
SenderFairness == \A s \in Senders : WF_vars(Sending(s))

(* The kernel thread runs, the DSP handles interrupts and boots, and user  *)
(* space answers the uevent.                                               *)
FairSpec ==
  /\ Spec /\ SenderFairness
  /\ WF_vars(Thread) /\ WF_vars(DspTake) /\ WF_vars(DspUp) /\ WF_vars(Wdt)

-----------------------------------------------------------------------------
(* Properties *)

(* No message is lost or overtaken (scp_push_msg, scp_pop_msg): what was   *)
(* pushed is in the ring in the order it was pushed, or was processed and  *)
(* has its result.  It is given up only when the watchdog has emptied the  *)
(* ring under a message.                                                   *)
Kept ==
  ~torn /\ ~HalfEmptied =>
    /\ \A i \in 0..Num(q) - 1 :
         q.element[Slot(q, i)].msg = pushed - Num(q) + i
    /\ \A m \in Msgs : m < pushed - Num(q) => outcome[m] # "none"

(* A waiter that finds its queue_counter in the element and a signal there *)
(* (scp_send_msg_to_queue, "get ipc result") reads the result of its own   *)
(* message, though slots are used again while late waiters still hold one. *)
OwnResult ==
  ~torn => \A s \in Senders :
    spc[s] = "result" /\ OwnElement(s) /\ Element(s).signal_arrival
    => Returned(s) = outcome[own[s].id]

(* The DSP is given each message once, and only after every earlier one    *)
(* has its result (scp_process_msg_thread, send_msg_by_spi).               *)
OnceInOrder ==
  [][mail' # mail /\ mail' # None =>
       torn' \/ ( /\ outcome[mail'] = "none"
                 /\ \A m \in Msgs : m < mail' => outcome[m] # "none" )]_vars

(* A send returns, whatever the DSP, the kernel thread and the watchdog do.*)
SenderReturns == \A s \in Senders : spc[s] # "idle" ~> spc[s] = "idle"

(* Every message gets its result, over lost interrupts, hangs and reloads, *)
(* unless the ring was emptied under a message.                            *)
Answered == \A m \in Msgs : m < pushed ~> outcome[m] # "none" \/ torn

(* The part of Answered that does not depend on fairness.  While a message *)
(* has no result, the thread finds it in the ring or has it in hand; if it *)
(* waits for the DSP to take it from the mailbox (is_ipi_busy), the        *)
(* interrupt is up or will be repeated; and a DSP that does not run will   *)
(* be loaded again.  A DSP that may miss more interrupts than are repeated *)
(* (IPC_RETRY_LIMIT) leaves the thread waiting for good.                   *)
InHand ==
  ~torn /\ ~HalfEmptied /\ MaxLost <= RetryLimit
  /\ (\E m \in Msgs : m < pushed /\ outcome[m] = "none") =>
    /\ tpc = "get" => ~IsEmpty(q)
    /\ tpc = "spin" /\ mail # None => irq \/ retries < RetryLimit
    /\ dsp \in { "off", "hung" } =>
         uevent \/ wpc \in { "reset_w", "reset_r", "clear", "load" }
=============================================================================
