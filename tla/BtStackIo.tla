----------------------------- MODULE BtStackIo -----------------------------
(***************************************************************************)
(* The Bluetooth stack on the character device while the device comes and  *)
(* goes: one thread polls and reads, others send ACL packets.  Composes    *)
(* the receive ring (BtMetabuffer) with the wake-ups of its readers, the   *)
(* hardware-error event in short reads, and the handshake on meta_tx.      *)
(*                                                                         *)
(* The life of the device is that of BtLifecycle with only the steps these *)
(* depend on; system sleep is left out, as it freezes the stack outside    *)
(* of a read or write, and a frozen poll starts anew.                      *)
(***************************************************************************)
EXTENDS BtMetabuffer

CONSTANTS
  Writers,       (* number of threads of the stack that send ACL packets    *)
  MaxFaults      (* bound on unplugging, crashes, resets, failing commands  *)
                 (* and transfers that fail with the device present         *)

ASSUME StackIoAssumption == Writers \in Nat /\ MaxFaults \in Nat

EventLen == 4    \* of hwerr_event

VARIABLES
  usb,           \* btmtk_usb_get_state
  bus,           \* the chip is on the bus
  hub,           \* place of the USB core's thread
  bound,         \* the device is probed
  live,          \* the receive URBs are in flight
  doing_reset,
  hook,          \* the probe the next device gets
  faults,        \* faults so far
  opened,        \* btmtk_fops_get_state is OPENED
  need_reset_stack, need_reopen,
  sent,          \* send_hw_err_event_count
  heard,         \* history: bytes of an unfinished event this opener has
  rd,            \* place of the reader
  waits,         \* the queue it is on: inq, BT_wq or none
  woken,         \* that queue was woken since
  queue,         \* writers that wait for wr_mtx
  wr,            \* place of the one that has it
  meta_tx,       \* "an ACL packet is on its way"
  starved,       \* history: meta_tx is left from a transfer that failed
                 \* with the device present
  out            \* ACL transfers in flight

lifeVars  == << usb, bus, hub, bound, live, doing_reset, hook, faults >>
fopsVars  == << opened, need_reset_stack, need_reopen, sent, heard >>
readVars  == << rd, waits, woken >>
writeVars == << queue, wr, meta_tx, starved, out >>
ioVars    == << vars, lifeVars, fopsVars, readVars, writeVars >>

IoTypeOK ==
  /\ TypeOK
  /\ usb \in { "PROBE", "WORKING", "FW_DUMP", "DISCONNECT" }
  /\ bus \in { "on", "off" }
  /\ hub \in { "idle", "leaving", "probe", "L0_probe", "L0" }
  /\ hook \in { "probe", "L0_probe" }
  /\ { bound, live, doing_reset, opened, need_reset_stack, need_reopen,
       woken, meta_tx, starved } \subseteq BOOLEAN
  /\ faults \in 0..MaxFaults
  /\ sent \in 0..EventLen - 1 /\ heard \in 0..EventLen - 1
  /\ rd \in { "away", "check", "asleep", "readable", "telling", "ring",
              "blocked" }
  /\ waits \in { "none", "inq", "BT_wq" }
  /\ queue \in 0..Writers /\ wr \in { "none", "spin", "submit" }
  /\ out \in Nat

-----------------------------------------------------------------------------
Fault == faults < MaxFaults /\ faults' = faults + 1
HasData == read_p # write_p

(* btmtk_usb_toggle_rst_pin: a claimed reset is not claimed again. *)
Toggle ==
  IF doing_reset THEN UNCHANGED << doing_reset, hook >>
                 ELSE doing_reset' = TRUE /\ hook' = "L0_probe"

(* wake_up(&BT_wq) and wake_up_interruptible(&inq), or the second alone. *)
WakeReaders == woken' = (woken \/ waits # "none")
WakeInq     == woken' = (woken \/ waits = "inq")

(* What the completion of a receive URB does with the reader. *)
WakeOn(states, whole) ==
  /\ IF usb \in states /\ whole THEN WakeReaders ELSE UNCHANGED woken
  /\ UNCHANGED << rd, waits >>

(***************************************************************************)
(* The chip and the USB core.                                              *)
(***************************************************************************)

(* btmtk_usb_intr_complete: an event is stored and, in WORKING alone, the  *)
(* readers are woken.                                                      *)
IntrComplete ==
  /\ live /\ \E n \in EventLens : PushEvent(n)
  /\ IF "intr" \in resets' THEN Toggle ELSE UNCHANGED << doing_reset, hook >>
  /\ WakeOn({ "WORKING" }, TRUE)
  /\ UNCHANGED << usb, bus, hub, bound, live, faults, fopsVars, writeVars >>

(* btmtk_usb_bulk_in_complete with ACL data: readers are woken at the end  *)
(* of a packet, in a dump as well.                                         *)
BulkInComplete ==
  /\ live /\ BulkPacket
  /\ IF "bulk" \in resets' THEN Toggle ELSE UNCHANGED << doing_reset, hook >>
  /\ WakeOn({ "WORKING", "FW_DUMP" }, leftACLSize' = 0)
  /\ UNCHANGED << usb, bus, hub, bound, live, faults, fopsVars, writeVars >>

(* The first packet of a dump, from a firmware that has crashed. *)
DumpBegin ==
  /\ live /\ usb # "FW_DUMP" /\ Fault
  /\ usb' = "FW_DUMP"
  /\ UNCHANGED << vars, bus, hub, bound, live, doing_reset, hook, fopsVars,
                  readVars, writeVars >>

(* Its last packet, or its watchdog. *)
DumpEnd ==
  /\ usb = "FW_DUMP" /\ ~doing_reset
  /\ Toggle
  /\ UNCHANGED << vars, usb, bus, hub, bound, live, faults, fopsVars, readVars,
                  writeVars >>

(* A reset asked for by the WLAN driver. *)
WifiReset ==
  /\ Fault /\ Toggle
  /\ UNCHANGED << vars, usb, bus, hub, bound, live, fopsVars, readVars,
                  writeVars >>

(* The chip leaves the bus, pulsed or unplugged. *)
LeaveBus ==
  /\ bus = "on" /\ bus' = "off" /\ live' = FALSE
  /\ UNCHANGED << vars, usb, hub, bound, doing_reset, hook, fopsVars, readVars,
                  writeVars >>
ChipResets == doing_reset /\ LeaveBus /\ UNCHANGED faults
Unplug     == Fault /\ LeaveBus

(* btmtk_usb_disconnect sets the state; the USB core has ended the         *)
(* transfers before it calls.                                              *)
DisconnectBegin ==
  /\ hub = "idle" /\ bound /\ bus = "off" /\ out = 0
  /\ usb' = "DISCONNECT" /\ hub' = "leaving"
  /\ UNCHANGED << vars, bus, bound, live, doing_reset, hook, faults, fopsVars,
                  readVars, writeVars >>

(* The rest of it: unless a reset is under way its opener is to hear of    *)
(* it, though nobody is woken.                                             *)
DisconnectEnd ==
  /\ hub = "leaving"
  /\ need_reset_stack' = (need_reset_stack \/ (~doing_reset /\ opened))
  /\ meta_tx' = FALSE /\ starved' = FALSE
  /\ Empty
  /\ hub' = "idle" /\ bound' = FALSE
  /\ UNCHANGED << usb, bus, live, doing_reset, hook, faults, opened,
                  need_reopen, sent, heard, readVars, queue, wr, out >>

(* Mutant: the probe trusts the disconnect to have cleared meta_tx. *)
MetaTxKept == UNCHANGED << meta_tx, starved >>
(* btmtk_usb_probe makes the way free for ACL packets. *)
MetaTxCleared == meta_tx' = FALSE /\ starved' = FALSE

(* btmtk_usb_probe up to the rom patch. *)
ProbeBegin ==
  /\ hub = "idle" /\ ~bound /\ bus = "off" /\ out = 0
  /\ bus' = "on" /\ usb' = "PROBE" /\ hub' = hook
  /\ doing_reset' = FALSE
  /\ MetaTxCleared
  /\ Empty
  /\ UNCHANGED << bound, live, hook, faults, fopsVars, readVars, queue, wr, out >>

(* Any error of the probe. *)
ProbeFails ==
  /\ hub \in { "probe", "L0_probe" }
  /\ IF bus = "on" THEN Fault ELSE UNCHANGED faults
  /\ usb' = "DISCONNECT" /\ hub' = "idle"
  /\ Toggle
  /\ UNCHANGED << vars, bus, bound, live, fopsVars, readVars, writeVars >>

(* Mutant: the reader is left asleep. *)
WakeNobody == UNCHANGED woken
(* The wake-up at the end of btmtk_usb_L0_probe. *)
WakeForError == WakeInq

(* The end of btmtk_usb_probe. *)
ProbeEnd ==
  /\ hub \in { "probe", "L0_probe" }
  /\ usb' = "WORKING" /\ bound' = TRUE
  /\ hub' = IF hub = "L0_probe" THEN "L0" ELSE "idle"
  /\ IF need_reset_stack THEN WakeInq ELSE UNCHANGED woken
  /\ UNCHANGED << vars, bus, live, doing_reset, hook, faults, fopsVars, rd,
                  waits, writeVars >>

(* The end of btmtk_usb_L0_probe: the stack is to hear of the reset. *)
L0ProbeEnd ==
  /\ hub = "L0"
  /\ need_reset_stack' = TRUE
  /\ WakeForError
  /\ hook' = "probe" /\ hub' = "idle"
  /\ UNCHANGED << vars, usb, bus, bound, live, doing_reset, faults, opened,
                  need_reopen, sent, heard, rd, waits, writeVars >>

-----------------------------------------------------------------------------
(***************************************************************************)
(* The reader: it polls, or reads at once, in reads of any length.         *)
(***************************************************************************)

(* btmtk_usb_fops_poll for the first time in a call: the caller is put on  *)
(* the queue only if the ring is empty.                                    *)
PollEnter ==
  /\ rd = "away" /\ opened
  /\ rd' = "check" /\ woken' = FALSE
  /\ waits' = IF HasData THEN "none" ELSE "inq"
  /\ UNCHANGED << vars, lifeVars, fopsVars, writeVars >>

(* "readable": data seen at the entry or now, or an error to be told.      *)
Ready == waits = "none" \/ HasData \/ need_reset_stack

(* The mask is nothing at all outside WORKING. *)
PollReturns ==
  /\ rd = "check" /\ Ready /\ usb = "WORKING"
  /\ rd' = "readable" /\ waits' = "none" /\ woken' = FALSE
  /\ UNCHANGED << vars, lifeVars, fopsVars, writeVars >>

PollSleeps ==
  /\ rd = "check" /\ ~(Ready /\ usb = "WORKING")
  /\ rd' = "asleep"
  /\ UNCHANGED << vars, lifeVars, fopsVars, waits, woken, writeVars >>

(* Woken, a poll looks again; it stays on the queue it is on. *)
PollAgain ==
  /\ rd = "asleep" /\ woken
  /\ rd' = "check" /\ woken' = FALSE
  /\ UNCHANGED << vars, lifeVars, fopsVars, waits, writeVars >>

(* btmtk_usb_fops_read up to the unlock, after a poll or without: is there *)
(* an error to tell?                                                       *)
ReadBegin ==
  /\ rd \in { "away", "readable" } /\ opened
  /\ rd' = IF need_reset_stack THEN "telling" ELSE "ring"
  /\ UNCHANGED << vars, lifeVars, fopsVars, waits, woken, writeVars >>

(* Mutant: the error stays once it has been told. *)
TakeBackNever(last) == UNCHANGED need_reset_stack
(* The error is taken back with the last byte of its event. *)
TakeBack(last) == need_reset_stack' = (need_reset_stack /\ ~last)

(* The next bytes of the error event; the last one takes the error back    *)
(* and asks for a reopening.                                               *)
ReadHwErr(count) ==
  LET n    == Least(EventLen - sent, count)
      last == sent + n = EventLen
  IN  /\ rd = "telling"
      /\ sent' = IF last THEN 0 ELSE sent + n
      /\ heard' = (heard + n) % EventLen
      /\ TakeBack(last)
      /\ need_reopen' = (need_reopen \/ last)
      /\ rd' = "away"
      /\ UNCHANGED << vars, lifeVars, opened, waits, woken, writeVars >>

ReadRing(count) ==
  /\ rd = "ring" /\ HasData
  /\ FopsRead(count)
  /\ rd' = "away"
  /\ UNCHANGED << lifeVars, fopsVars, waits, woken, writeVars >>

(* Nothing there, or no more: with O_NONBLOCK the read returns, without it *)
(* waits for data, and for nothing else.                                   *)
ReadNothing ==
  /\ rd = "ring" /\ ~HasData
  /\ \/ rd' = "away" /\ UNCHANGED waits
     \/ rd' = "blocked" /\ waits' = "BT_wq"
  /\ UNCHANGED << vars, lifeVars, fopsVars, woken, writeVars >>

ReadOn ==
  /\ rd = "blocked" /\ woken
  /\ woken' = FALSE
  /\ IF HasData THEN rd' = "ring" /\ waits' = "none"
                ELSE UNCHANGED << rd, waits >>
  /\ UNCHANGED << vars, lifeVars, fopsVars, writeVars >>

-----------------------------------------------------------------------------
(***************************************************************************)
(* The writers, open and close.                                            *)
(***************************************************************************)

(* btmtk_usb_fops_write with an ACL packet: the state is looked at before  *)
(* the wait for wr_mtx.                                                    *)
WriteBegin ==
  /\ queue + (IF wr = "none" THEN 0 ELSE 1) < Writers
  /\ opened /\ usb = "WORKING" /\ ~need_reopen /\ ~need_reset_stack
  /\ queue' = queue + 1
  /\ UNCHANGED << vars, lifeVars, fopsVars, readVars, wr, meta_tx, starved,
                  out >>

WriteLock ==
  /\ queue > 0 /\ wr = "none"
  /\ queue' = queue - 1 /\ wr' = "spin"
  /\ UNCHANGED << vars, lifeVars, fopsVars, readVars, meta_tx, starved, out >>

(* btmtk_usb_send_data: sleep until the packet before is gone. *)
WriteSpin ==
  /\ wr = "spin" /\ ~meta_tx
  /\ wr' = "submit" /\ meta_tx' = TRUE
  /\ UNCHANGED << vars, lifeVars, fopsVars, readVars, queue, starved, out >>

(* The transfer is under way, or it is not and meta_tx stays as it is: the *)
(* device is gone, or the allocation or submission fails.                  *)
WriteSubmit ==
  /\ wr = "submit" /\ wr' = "none"
  /\ \/ /\ bus = "on" \/ (bound /\ hub = "idle")
        /\ out' = out + 1 /\ UNCHANGED << starved, faults >>
     \/ bus = "off" /\ UNCHANGED << out, starved, faults >>
     \/ bus = "on" /\ Fault /\ starved' = meta_tx /\ UNCHANGED out
  /\ UNCHANGED << vars, usb, bus, hub, bound, live, doing_reset, hook, fopsVars,
                  readVars, queue, meta_tx >>

(* btmtk_usb_tx_complete_meta *)
TxComplete ==
  /\ out > 0 /\ out' = out - 1
  /\ meta_tx' = FALSE /\ starved' = FALSE
  /\ UNCHANGED << vars, lifeVars, fopsVars, readVars, queue, wr >>

(* btmtk_usb_fops_open in one step; the ones that race with a disconnect   *)
(* are BtLifecycle's.  One that fails has the chip reset.                  *)
Open ==
  /\ ~opened /\ usb = "WORKING" /\ bus = "on"
  /\ Empty
  /\ opened' = TRUE /\ live' = TRUE
  /\ need_reset_stack' = FALSE /\ need_reopen' = FALSE
  /\ UNCHANGED << usb, bus, hub, bound, doing_reset, hook, faults, sent, heard,
                  readVars, writeVars >>

OpenFails ==
  /\ ~opened /\ usb = "WORKING"
  /\ IF bus = "on" THEN Fault ELSE UNCHANGED faults
  /\ Toggle
  /\ UNCHANGED << vars, usb, bus, hub, bound, live, fopsVars, readVars,
                  writeVars >>

(* Mutant: a half-told error is forgotten and its count is not. *)
SentKept == UNCHANGED sent
(* "In case no read from stack, and close directly" *)
SentCleared == sent' = 0

(* btmtk_usb_fops_close, called when no read or write is under way. *)
Close ==
  /\ opened /\ rd = "away" /\ queue = 0 /\ wr = "none"
  /\ Empty
  /\ opened' = FALSE
  /\ live' = (live /\ usb # "WORKING")
  /\ \/ UNCHANGED << doing_reset, hook, faults >>
     \/ usb = "WORKING" /\ Fault /\ Toggle
  /\ need_reset_stack' = FALSE
  /\ SentCleared
  /\ heard' = 0
  /\ UNCHANGED << usb, bus, hub, bound, need_reopen, readVars, writeVars >>

-----------------------------------------------------------------------------
IoInit ==
  /\ Init
  /\ usb = "DISCONNECT" /\ bus = "off" /\ hub = "idle" /\ hook = "probe"
  /\ bound = FALSE /\ live = FALSE /\ doing_reset = FALSE /\ faults = 0
  /\ opened = FALSE /\ need_reset_stack = FALSE /\ need_reopen = FALSE
  /\ sent = 0 /\ heard = 0
  /\ rd = "away" /\ waits = "none" /\ woken = FALSE
  /\ queue = 0 /\ wr = "none" /\ meta_tx = FALSE /\ starved = FALSE
  /\ out = 0

UsbCore == DisconnectBegin \/ DisconnectEnd \/ ProbeBegin \/ ProbeEnd
           \/ L0ProbeEnd
Polls   == PollEnter \/ PollReturns \/ PollSleeps \/ PollAgain
Reads   == \/ ReadBegin \/ ReadNothing \/ ReadOn
           \/ \E count \in Counts : ReadHwErr(count) \/ ReadRing(count)
Writes  == WriteBegin \/ WriteLock \/ WriteSpin \/ WriteSubmit

IoNext ==
  \/ IntrComplete \/ BulkInComplete \/ DumpBegin \/ DumpEnd \/ WifiReset
  \/ ChipResets \/ Unplug \/ ProbeFails \/ UsbCore
  \/ Polls \/ Reads \/ Writes \/ Open \/ OpenFails \/ Close \/ TxComplete

IoSpec == IoInit /\ [][~stray /\ IoNext]_ioVars

(* The kernel runs the USB core and ends transfers, a pulsed chip leaves   *)
(* the bus, and the stack goes on polling, reading and sending what it has *)
(* begun to send.                                                          *)
IoFairness ==
  /\ WF_ioVars(UsbCore \/ (bus = "off" /\ ProbeFails))
  /\ WF_ioVars(ChipResets) /\ WF_ioVars(DumpEnd) /\ WF_ioVars(TxComplete)
  /\ WF_ioVars(Polls \/ Reads)
  /\ WF_ioVars(WriteLock \/ WriteSpin \/ WriteSubmit)

FairIoSpec == IoSpec /\ IoFairness

-----------------------------------------------------------------------------
(* In WORKING no reader sleeps on unwoken over whole packets in the ring   *)
(* or, in a poll that put it on a queue, over an error: an event stored    *)
(* outside WORKING wakes nobody (btmtk_usb_main.c:4709) and must not       *)
(* outlast that state, nor an error be noted without a wake-up to come.    *)
Roused ==
  usb = "WORKING" /\ ~woken =>
    /\ rd = "asleep" /\ waits = "inq" => ~need_reset_stack
    /\ rd \in { "asleep", "blocked" } /\ waits # "none"
         => ~HasData \/ leftACLSize # 0

(* The error event reaches an opener whole: a part of it is taken up where *)
(* it was left, and no data come between, in whatever order resets,        *)
(* disconnects and closes fall between its reads.                          *)
EventWhole == heard = sent /\ (sent # 0 => need_reset_stack /\ opened)

(* What a sender waits for is on its way: a transfer in flight, the sender *)
(* that is about to submit one, or the probe of a device that is gone - or *)
(* else the transfer failed under a device that is there.                  *)
Underway ==
  meta_tx /\ ~starved => out > 0 \/ bus = "off" \/ wr = "submit"

(* A sender whose turn it is returns in the end, and so do those behind it *)
(* in the order of arrival, even when the device was lost between its look *)
(* at the state and its turn and the transfer before failed with meta_tx   *)
(* set - unless that one failed under a device that is there, by itself:   *)
(* then nothing but the loss of the device ends the spin (2136), and those *)
(* behind wait for the mutex as long.                                      *)
WriterReturns == wr # "none" ~> wr = "none" \/ starved

(* The reader sleeps where no error wakes it. *)
Deaf == rd = "blocked" \/ (rd = "asleep" /\ waits = "none")

(* An error the opener is to hear of is heard in the end, or the session   *)
(* closed, unless the reader sleeps where no error wakes it: in a blocking *)
(* read, or in a poll that found data outside WORKING and so put it on no  *)
(* queue (5982).                                                           *)
NoticeTaken == opened /\ need_reset_stack ~> ~need_reset_stack \/ Deaf

=============================================================================
