---------------------------- MODULE BtLifecycle ----------------------------
(***************************************************************************)
(* Life of the MT7668 Bluetooth USB driver (btmtk_usb_main.c): probe,      *)
(* disconnect, firmware dump, reset through the reset pin, the character   *)
(* device the Bluetooth stack opens, and system sleep with wake-on-BLE.    *)
(*                                                                         *)
(* Threads: the USB core (probe, disconnect, suspend and resume exclude    *)
(* each other, they run under the device lock), the Bluetooth stack (one   *)
(* process: opens, reads, writes, closes), the early-suspend/late-resume   *)
(* notifier, and the atomic contexts (timers, URB completions, the WiFi    *)
(* driver's calls).  A handler that sleeps while others may run is split   *)
(* where it sleeps; pc variables hub, stack and late say where each is.    *)
(*                                                                         *)
(* The chip and the bus are the environment: the chip may crash, ignore    *)
(* commands or the reset pin, and drop off the bus at any time.            *)
(*                                                                         *)
(* An operator marked "mutant" stands before the one it varies: it is the  *)
(* bug a property is shown to catch and is used by nothing else.           *)
(***************************************************************************)
EXTENDS BtStates, Integers

CONSTANTS
  EarlySuspendOS,  (* the kernel exports the early-suspend registration    *)
  PinReliable,     (* a pulse on the reset pin always drops the chip       *)
  BusyPowerOn,     (* the chip may answer "retry" to all power-on attempts *)
  BoundFaults,     (* bound the number of faults by MaxFaults              *)
  MaxFaults,       (* faults in one behaviour, when bounded                *)
  LateRetries      (* retry_counter of btmtk_usb_late_resume               *)

ASSUME ConstantsAssumption ==
  /\ EarlySuspendOS \in BOOLEAN /\ PinReliable \in BOOLEAN
  /\ BusyPowerOn \in BOOLEAN /\ BoundFaults \in BOOLEAN
  /\ MaxFaults \in Nat
  /\ LateRetries \in Nat

VARIABLES
  \* the driver's globals and g_data
  usb,                    \* btmtk_usb_get_state
  fops,                   \* btmtk_fops_get_state
  dongle,                 \* is_mt7668_dongle_state
  need_reset_stack,       \* hardware error the stack has yet to read
  need_reset_stack_type,  \* cause recorded for the reset under way
  need_reopen,
  doing_reset,
  hook,                   \* which probe the usb_driver structure points to
  timers,                 \* pending timers
  suspend_count,
  submitted,              \* interrupt_urb_submitted, bulk_urb_submitted
  bound,                  \* usb_get_intfdata(intf) is set
  \* the chip, the bus and the rest of the kernel
  inflight,               \* receive URBs the host controller holds
  bus,                    \* what the hub has seen of the chip
  pulse,                  \* the reset pin was pulsed, the chip has not reacted
  asserted,               \* the firmware crashed and will dump
  chip_on,                \* the Bluetooth function of the chip is powered
  sleep,                  \* system sleep
  nsusp,                  \* interfaces the USB core has suspended
  hub, stack, late,       \* where the three threads are
  probing,                \* the probe function the USB core called
  retries,                \* retry_counter of the running late resume
  faults,
  \* history
  session_old,            \* the device was unbound since the last open began
  open_raced,             \* ... while that open was still running
  probe_raced             \* a reset began while L0_probe was finishing another

pinVars   == << doing_reset, hook, need_reset_stack_type, timers, pulse >>
stackVars == << fops, need_reset_stack, need_reopen >>
urbVars   == << submitted, inflight >>
chipVars  == << bus, asserted, chip_on >>
pmVars    == << sleep, nsusp, suspend_count >>
hubVars   == << hub, probing >>
lateVars  == << late, retries >>
pcVars    == << hubVars, stack, lateVars >>
ghostVars == << session_old, open_raced, probe_raced >>

vars == << usb, dongle, bound, faults, pinVars, stackVars, urbVars, chipVars,
           pmVars, pcVars, ghostVars >>

Pipes  == { "intr", "bulk" }
Timers == { "disc", "dump", "diag" }

HubPcs   == { "idle", "patch", "iface1", "power", "suspend", "woble", "wake",
              "submit", "assert" }
StackPcs == { "idle", "power", "powering", "sleepcmd", "urbs", "done",
              "deinit", "closing" }
LatePcs  == { "resumed", "entering", "early", "again", "wake", "submit",
              "assert" }

(* The type invariant, one part for each group of variables. *)
FlagTypes ==
  /\ bound \in BOOLEAN /\ need_reopen \in BOOLEAN
  /\ pulse \in BOOLEAN /\ asserted \in BOOLEAN /\ chip_on \in BOOLEAN
  /\ session_old \in BOOLEAN
  /\ open_raced \in BOOLEAN /\ probe_raced \in BOOLEAN
StateTypes ==
  /\ usb \in UsbStates /\ fops \in FopsStates /\ dongle \in DongleStates
  /\ bus \in { "attached", "dropped", "detached" }
  /\ faults \in 0..MaxFaults
ResetTypes ==
  /\ doing_reset \in 0..1 /\ hook \in { "probe", "L0_probe" }
  /\ need_reset_stack \in HwErrCodes /\ need_reset_stack_type \in HwErrCodes
  /\ timers \subseteq Timers
UrbTypes == submitted \subseteq Pipes /\ inflight \subseteq Pipes
SleepTypes ==
  /\ sleep \in { "no", "down", "asleep", "up" }
  /\ nsusp \in 0..2 /\ suspend_count \in 0..2
ThreadTypes ==
  /\ hub \in HubPcs /\ probing \in { "probe", "L0_probe" }
  /\ stack \in StackPcs /\ late \in LatePcs /\ retries \in 0..LateRetries

TypeOK == FlagTypes /\ StateTypes /\ ResetTypes /\ UrbTypes /\ SleepTypes
          /\ ThreadTypes

-----------------------------------------------------------------------------
(***************************************************************************)
(* Faults and the chip's answers.                                          *)
(***************************************************************************)

Fault ==
  IF BoundFaults THEN faults < MaxFaults /\ faults' = faults + 1
                 ELSE UNCHANGED faults

(* The chip answers commands. *)
Responds == bus = "attached" /\ ~asserted

(* A WMT command succeeds, or fails because the chip cannot answer it or   *)
(* for a fault of its own.  An HCI command needs the Bluetooth function on *)
(* in the chip and a dongle state that lets send_hci_cmd send it.          *)
WmtOk   == Responds /\ UNCHANGED faults
WmtFail == IF Responds THEN Fault ELSE UNCHANGED faults

HciAnswers == Responds /\ chip_on /\ dongle \in HciReady
HciOk   == HciAnswers /\ UNCHANGED faults
HciFail == IF HciAnswers THEN Fault ELSE UNCHANGED faults

(* The stack's process is frozen while the system sleeps. *)
Running == sleep = "no"

-----------------------------------------------------------------------------
(***************************************************************************)
(* Operations shared by the handlers.                                      *)
(***************************************************************************)

(* btmtk_usb_toggle_rst_pin, entered with the cause t already recorded and *)
(* the timers in ts pending; its caller arms those in arm afterwards.      *)
ToggleRstPin(t, ts, arm) ==
  \/ /\ "diag" \in ts \/ doing_reset = 1
     /\ timers' = (ts \ {"dump"}) \cup arm
     /\ need_reset_stack_type' = t
     /\ UNCHANGED << doing_reset, hook, pulse >>
  \/ /\ "diag" \notin ts /\ doing_reset = 0
     /\ doing_reset' = 1
     /\ hook' = "L0_probe"
     /\ need_reset_stack_type' = IF t = "NONE" THEN "BT_DRIVER" ELSE t
     /\ timers' = (ts \ {"dump"}) \cup {"disc"} \cup arm
     /\ pulse' = (bus = "attached")

Toggle == ToggleRstPin(need_reset_stack_type, timers, {})

(* Record t as the cause of the coming reset unless one is recorded. *)
Cause(t) == IF need_reset_stack_type = "NONE" THEN t ELSE need_reset_stack_type

(* btmtk_usb_stop_traffic returns early when no URB is marked submitted.   *)
AfterStop(u) == IF submitted = {} THEN u ELSE {}
(* Mutants: the URBs are not killed; their marks are not cleared.          *)
StopTrafficMarksOnly  == submitted' = {} /\ UNCHANGED inflight
StopTrafficKeepsMarks == UNCHANGED submitted /\ inflight' = AfterStop(inflight)
(* btmtk_usb_stop_traffic *)
StopTraffic == submitted' = {} /\ inflight' = AfterStop(inflight)

(* btmtk_usb_submit_intr_urb and btmtk_usb_submit_bulk_in_urb for the      *)
(* pipes in ps: a pipe marked submitted is skipped and reported as done.   *)
SubmitUrbs(ps) ==
  /\ ps \subseteq submitted \/ bus = "attached"
  /\ submitted' = submitted \cup ps
  /\ inflight' = inflight \cup (ps \ submitted)
  /\ UNCHANGED faults

SubmitFails(ps) ==
  /\ ~ ps \subseteq submitted
  /\ IF bus = "attached" THEN Fault ELSE UNCHANGED faults
  /\ \E done \in { {}, ps \cap {"intr"} } :
        /\ ~ ps \subseteq submitted \cup done
        /\ done # {} => bus = "attached"
        /\ submitted' = submitted \cup done
        /\ inflight' = inflight \cup (done \ submitted)

(* Mutant: a request that fails resets nothing.                            *)
AssertFailsSilently == UNCHANGED pinVars
(* btmtk_usb_send_assert_cmd, when the chip took neither request.          *)
AssertFails == Toggle

(* btmtk_usb_send_assert_cmd.  The control request goes through            *)
(* send_hci_cmd, which stops the traffic and needs a powered dongle; the   *)
(* bulk request is tried when it fails.  On success the bulk URB is        *)
(* submitted if it is not marked so; on failure the pin is pulsed.         *)
SendAssertCmd ==
  \/ /\ usb \in DumpStates
     /\ UNCHANGED << pinVars, urbVars, asserted, faults >>
  \/ /\ usb \notin DumpStates
     /\ LET sub == IF dongle \in HciReady THEN {} ELSE submitted
            fly == IF dongle \in HciReady THEN AfterStop(inflight)
                                          ELSE inflight
        IN \/ /\ bus = "attached"
              /\ asserted' = TRUE
              /\ submitted' = sub \cup {"bulk"}
              /\ inflight' = fly \cup ({"bulk"} \ sub)
              /\ UNCHANGED << pinVars, faults >>
           \/ /\ IF bus = "attached" THEN Fault ELSE UNCHANGED faults
              /\ asserted' \in { asserted, bus = "attached" }
              /\ submitted' = sub /\ inflight' = fly
              /\ AssertFails

-----------------------------------------------------------------------------
(***************************************************************************)
(* The chip and the bus.                                                   *)
(***************************************************************************)

(* The chip leaves the bus and loses its state; its URBs complete with an  *)
(* error and cannot be resubmitted.                                        *)
LeaveBus ==
  /\ bus' = "dropped"
  /\ asserted' = FALSE /\ chip_on' = FALSE
  /\ inflight' = {}

ChipResets ==
  /\ pulse /\ bus = "attached"
  /\ pulse' = FALSE
  /\ LeaveBus
  /\ UNCHANGED << usb, dongle, bound, faults, doing_reset, hook,
                  need_reset_stack_type, timers, stackVars, submitted, pmVars,
                  pcVars, ghostVars >>

(* "disconnect can't occur": the chip does not react to the pulse. *)
PulseLost ==
  /\ pulse /\ ~PinReliable
  /\ pulse' = FALSE
  /\ Fault
  /\ UNCHANGED << usb, dongle, bound, doing_reset, hook,
                  need_reset_stack_type, timers, stackVars, urbVars, chipVars,
                  pmVars, pcVars, ghostVars >>

Unplug ==
  /\ bus = "attached"
  /\ Fault
  /\ pulse' = FALSE
  /\ LeaveBus
  /\ UNCHANGED << usb, dongle, bound, doing_reset, hook,
                  need_reset_stack_type, timers, stackVars, submitted, pmVars,
                  pcVars, ghostVars >>

FwCrash ==
  /\ bus = "attached" /\ ~asserted
  /\ Fault
  /\ asserted' = TRUE
  /\ UNCHANGED << usb, dongle, bound, pinVars, stackVars, urbVars, bus,
                  chip_on, pmVars, pcVars, ghostVars >>

-----------------------------------------------------------------------------
(***************************************************************************)
(* Atomic contexts: URB completions, timers, the other modules' calls.     *)
(***************************************************************************)

(* Mutant: the watchdog is never armed. *)
DumpTimersNever(first) == timers
(* The first packet of a dump arms the dump watchdog. *)
DumpTimers(first) == IF first THEN timers \cup {"dump"} ELSE timers

(* btmtk_usb_bulk_in_complete on a packet of a firmware dump, the last of  *)
(* which pulses the reset pin.                                             *)
BulkInDump(last) ==
  LET first == ~DumpBegun(usb)
      cause == IF first THEN Cause("BT_FW") ELSE need_reset_stack_type
  IN /\ asserted /\ "bulk" \in inflight
     /\ first \/ last
     /\ usb' = IF first THEN DumpEntry(usb) ELSE usb
     /\ IF last
          THEN ToggleRstPin(cause, DumpTimers(first), {})
          ELSE /\ need_reset_stack_type' = cause
               /\ timers' = DumpTimers(first)
               /\ UNCHANGED << doing_reset, hook, pulse >>
     /\ UNCHANGED << dongle, bound, faults, stackVars, urbVars, chipVars,
                     pmVars, pcVars, ghostVars >>

(* Mutant: the watchdog expires and nothing is reset. *)
FwDumpTimoIdle ==
  /\ "dump" \in timers /\ timers' = timers \ {"dump"}
  /\ UNCHANGED << usb, dongle, bound, faults, doing_reset, hook, pulse,
                  need_reset_stack_type, stackVars, urbVars, chipVars, pmVars,
                  pcVars, ghostVars >>

(* btmtk_fw_dump_timo_func *)
FwDumpTimo ==
  /\ "dump" \in timers
  /\ ToggleRstPin(need_reset_stack_type, timers \ {"dump"}, {})
  /\ UNCHANGED << usb, dongle, bound, faults, stackVars, urbVars, chipVars,
                  pmVars, pcVars, ghostVars >>

(* btmtk_chip_rst_disc_timo_func: pulse the pin again and have the hub     *)
(* drop the device, whether or not the chip reacts this time.              *)
ChipRstDiscTimo ==
  /\ "disc" \in timers
  /\ timers' = timers \ {"disc"}
  /\ doing_reset' = 0
  /\ pulse' = FALSE
  /\ IF bus = "attached"
       THEN /\ bus' = "dropped" /\ inflight' = {}
            /\ \/ asserted' = FALSE /\ chip_on' = FALSE /\ UNCHANGED faults
               \/ ~PinReliable /\ Fault /\ UNCHANGED << asserted, chip_on >>
       ELSE UNCHANGED << chipVars, inflight, faults >>
  /\ UNCHANGED << usb, dongle, bound, hook, need_reset_stack_type,
                  stackVars, submitted, pmVars, pcVars, ghostVars >>

(* btmtk_chip_reset_timo_func *)
ChipResetTimo ==
  /\ "diag" \in timers
  /\ timers' = timers \ {"diag"}
  /\ UNCHANGED << usb, dongle, bound, faults, doing_reset, hook, pulse,
                  need_reset_stack_type, stackVars, urbVars, chipVars, pmVars,
                  pcVars, ghostVars >>

(* glResetTrigger of the WiFi driver, which shares the chip. *)
WifiReset ==
  /\ bus = "attached"
  /\ Fault
  /\ Toggle
  /\ UNCHANGED << usb, dongle, bound, stackVars, urbVars, chipVars, pmVars,
                  pcVars, ghostVars >>

TriggerCoreDump ==
  /\ bus = "attached"
  /\ ~DumpBegun(usb)
  /\ Fault
  /\ ToggleRstPin(Cause("WIFI"), timers, {})
  /\ UNCHANGED << usb, dongle, bound, stackVars, urbVars, chipVars, pmVars,
                  pcVars, ghostVars >>

(* btmtk_usb_fops_writefwlog, the diagnostic reset command. *)
DiagReset ==
  /\ Running /\ usb = "WORKING"
  /\ need_reset_stack = "NONE" /\ ~need_reopen
  /\ Fault
  /\ ToggleRstPin(need_reset_stack_type, timers, {"diag"})
  /\ UNCHANGED << usb, dongle, bound, stackVars, urbVars, chipVars, pmVars,
                  pcVars, ghostVars >>

-----------------------------------------------------------------------------
(***************************************************************************)
(* The USB core: probe and disconnect.                                     *)
(***************************************************************************)

(* Mutant: the reset stays claimed. *)
ResetOverForgotten(ts) == UNCHANGED doing_reset /\ timers' = timers \ ts

(* btmtk_usb_probe, on entry: whatever reset led here is over; the timers  *)
(* in ts are deleted.                                                      *)
ResetOver(ts) == doing_reset' = 0 /\ timers' = timers \ ts

(* Mutant: the count survives a disconnect in sleep. *)
InitMemoryKept == UNCHANGED suspend_count

(* btmtk_usb_init_memory *)
InitMemory == suspend_count' = 0

(* The hub finds the chip again and probes its interface 0, up to the rom  *)
(* patch.                                                                  *)
ProbeBegin ==
  /\ hub = "idle" /\ sleep = "no" /\ bus = "detached"
  /\ bus' = "attached" /\ pulse' = FALSE
  /\ usb' = ProbeEntry(usb)
  /\ ResetOver({ "disc", "diag" })
  /\ InitMemory
  /\ hub' = "patch" /\ probing' = hook
  /\ UNCHANGED << dongle, bound, faults, hook, need_reset_stack_type,
                  stackVars, urbVars, asserted, chip_on, sleep, nsusp, stack,
                  lateVars, ghostVars >>

(* btmtk_usb_load_rom_patch: the chip holds its patch, or takes a new one  *)
(* and is reset by it.                                                     *)
ProbePatched ==
  /\ hub = "patch"
  /\ WmtOk
  /\ \/ UNCHANGED << dongle, chip_on >>
     \/ ~chip_on /\ dongle' = "POWER_OFF" /\ UNCHANGED chip_on
  /\ hub' = "power"
  /\ UNCHANGED << usb, bound, pinVars, stackVars, urbVars, bus, asserted,
                  pmVars, stack, probing, lateVars, ghostVars >>

(* Any error of the probe: no patch, or the isochronous interface cannot   *)
(* be claimed.                                                             *)
ProbeFails ==
  /\ hub = "patch"
  /\ WmtFail
  /\ usb' = "DISCONNECT"
  /\ Toggle
  /\ hub' = "iface1"
  /\ UNCHANGED << dongle, bound, stackVars, urbVars, chipVars, pmVars, stack,
                  probing, lateVars, ghostVars >>

(* The interface 0 being unclaimed, the USB core offers interface 1, whose *)
(* class matches as well, to the same probe.                               *)
ProbeIface1 ==
  /\ hub = "iface1"
  /\ usb' = "DISCONNECT"
  /\ ResetOver({"disc"})
  /\ hub' = "idle"
  /\ UNCHANGED << dongle, bound, faults, hook, need_reset_stack_type, pulse,
                  stackVars, urbVars, chipVars, pmVars, stack, probing,
                  lateVars, ghostVars >>

(* btmtk_usb_reset_power_on, called by the probe while a hardware error is *)
(* unread; its result is ignored.                                          *)
ProbePower ==
  \/ /\ need_reset_stack = "NONE" \/ dongle \notin Powering \cup {"POWER_OFF"}
     /\ UNCHANGED << dongle, chip_on, urbVars, faults >>
  \/ /\ need_reset_stack # "NONE" /\ dongle = "POWER_OFF"
     /\ \/ /\ WmtOk
           /\ dongle' = "POWER_ON" /\ chip_on' = TRUE /\ StopTraffic
        \/ /\ WmtFail
           /\ dongle' = "ERROR" /\ UNCHANGED << chip_on, urbVars >>
        \/ /\ BusyPowerOn /\ Responds /\ ~chip_on /\ Fault
           /\ dongle' = "POWERING_ON" /\ UNCHANGED << chip_on, urbVars >>

(* The rest of btmtk_usb_probe, and of btmtk_usb_L0_probe when a reset had *)
(* installed it before the USB core called.                                *)
ProbeEnd ==
  /\ hub = "power"
  /\ ProbePower
  /\ usb' = ProbeExit(usb)
  /\ bound' = TRUE
  /\ IF probing = "L0_probe"
       THEN /\ need_reset_stack' = Cause("BT_DRIVER")
            /\ hook' = "probe"
            /\ probe_raced' = (doing_reset = 1)
       ELSE UNCHANGED << need_reset_stack, hook, probe_raced >>
  /\ hub' = "idle"
  /\ UNCHANGED << doing_reset, need_reset_stack_type, timers, pulse, fops,
                  need_reopen, bus, asserted, pmVars, stack, probing, lateVars,
                  session_old, open_raced >>

(* Mutant: none. *)
DisconnectNoticeLost == need_reset_stack

(* The error a disconnect leaves for the stack to read. *)
DisconnectNotice ==
  IF doing_reset = 0 /\ fops \in { "OPENED", "CLOSING" }
     /\ need_reset_stack = "NONE"
    THEN "USB_DISC" ELSE need_reset_stack

(* The hub has seen the chip go: btmtk_usb_disconnect, if it is bound. *)
Disconnect ==
  /\ hub = "idle" /\ sleep = "no" /\ bus = "dropped"
  /\ bus' = "detached" /\ nsusp' = 0
  /\ bound' = FALSE
  /\ IF bound
       THEN /\ usb' = DisconnectFrom(usb, EarlySuspendOS)
            /\ dongle' = "POWER_OFF"
            /\ need_reset_stack' = DisconnectNotice
            /\ timers' = timers \ { "dump", "disc" }
            /\ inflight' = {}
            /\ session_old' = TRUE
       ELSE UNCHANGED << usb, dongle, need_reset_stack, timers, inflight,
                         session_old >>
  /\ UNCHANGED << faults, doing_reset, hook, need_reset_stack_type, pulse,
                  fops, need_reopen, submitted, asserted, chip_on, sleep,
                  suspend_count, pcVars, open_raced, probe_raced >>


-----------------------------------------------------------------------------
(***************************************************************************)
(* The USB core: system sleep.  Each of the two interfaces of the device   *)
(* is suspended and resumed by a call of its own.                          *)
(***************************************************************************)

SleepBegin ==
  /\ sleep = "no" /\ hub = "idle" /\ stack = "idle" /\ bound
  /\ late = IF EarlySuspendOS THEN "early" ELSE "resumed"
  /\ bus = "attached"
  /\ Fault
  /\ sleep' = "down"
  /\ UNCHANGED << usb, dongle, bound, pinVars, stackVars, urbVars, chipVars,
                  nsusp, suspend_count, pcVars, ghostVars >>

(* btmtk_usb_suspend, up to its first sleep. *)
Suspend ==
  /\ sleep = "down" /\ hub = "idle" /\ nsusp < 2
  /\ usb' = "SUSPEND"
  /\ suspend_count' = suspend_count + 1
  /\ nsusp' = nsusp + 1
  /\ hub' = IF suspend_count = 0 THEN "suspend" ELSE "idle"
  /\ sleep' = IF nsusp = 1 THEN "asleep" ELSE "down"
  /\ UNCHANGED << dongle, bound, faults, pinVars, stackVars, urbVars,
                  chipVars, stack, probing, lateVars, ghostVars >>

SuspendTraffic ==
  /\ hub = "suspend"
  /\ StopTraffic
  /\ hub' = IF EarlySuspendOS THEN "idle" ELSE "woble"
  /\ UNCHANGED << usb, dongle, bound, faults, pinVars, stackVars, chipVars,
                  pmVars, stack, probing, lateVars, ghostVars >>

(* btmtk_usb_handle_entering_WoBLE_state: power on if off, then have the   *)
(* chip watch for advertisements.  Waits while another thread is powering  *)
(* the chip.                                                               *)
EnterWoble ==
  /\ dongle \notin Powering
  /\ \/ /\ dongle = "POWER_OFF" /\ WmtOk
        /\ dongle' = "WOBLE" /\ chip_on' = TRUE
        /\ StopTraffic
     \/ /\ dongle = "POWER_ON" /\ HciOk
        /\ dongle' = "WOBLE" /\ UNCHANGED chip_on
        /\ StopTraffic
     \/ /\ IF dongle = "POWER_OFF" THEN WmtFail
          ELSE IF dongle = "POWER_ON" THEN HciFail
          ELSE UNCHANGED faults
        /\ dongle' = "ERROR"
        /\ chip_on' \in { chip_on,
                          chip_on \/ (dongle = "POWER_OFF" /\ Responds) }
        /\ \/ dongle \in { "POWER_ON", "POWER_OFF" } /\ StopTraffic
           \/ dongle # "POWER_ON" /\ UNCHANGED urbVars

SuspendWoble ==
  /\ hub = "woble"
  /\ EnterWoble
  /\ hub' = "idle"
  /\ UNCHANGED << usb, bound, pinVars, stackVars, bus, asserted, pmVars,
                  stack, probing, lateVars, ghostVars >>

SleepEnd ==
  /\ sleep = "asleep" /\ hub = "idle"
  /\ sleep' = "up"
  /\ UNCHANGED << usb, dongle, bound, faults, pinVars, stackVars, urbVars,
                  chipVars, nsusp, suspend_count, pcVars, ghostVars >>

(* btmtk_usb_resume, up to its first sleep; the USB core calls it only for *)
(* a chip that is still there.                                             *)
Resume ==
  /\ sleep = "up" /\ hub = "idle" /\ nsusp > 0 /\ bus = "attached"
  /\ suspend_count' = suspend_count - 1
  /\ nsusp' = nsusp - 1
  /\ \/ /\ suspend_count # 1
        /\ UNCHANGED << usb, hub >>
     \/ /\ suspend_count = 1 /\ dongle = "ERROR"
        /\ hub' = "assert" /\ UNCHANGED usb
     \/ /\ suspend_count = 1 /\ dongle \notin { "ERROR", "WOBLE" }
        /\ usb' = "WORKING" /\ UNCHANGED hub
     \/ /\ suspend_count = 1 /\ dongle = "WOBLE"
        /\ usb' = "RESUME" /\ hub' = "wake"
  /\ UNCHANGED << dongle, bound, faults, sleep, pinVars, stackVars, urbVars,
                  chipVars, stack, probing, lateVars, ghostVars >>

(* The tasks run again once the interfaces are resumed, or at once when    *)
(* the chip is gone.                                                       *)
Thaw ==
  /\ sleep = "up" /\ hub = "idle"
  /\ nsusp = 0 \/ bus # "attached"
  /\ sleep' = "no"
  /\ UNCHANGED << usb, dongle, bound, faults, nsusp, suspend_count, pinVars,
                  stackVars, urbVars, chipVars, pcVars, ghostVars >>

(* btmtk_usb_unify_woble_wake_up: on success the chip is out of WoBLE and  *)
(* the driver working, on failure the traffic may be stopped already.      *)
WakeUpOk ==
  /\ HciOk
  /\ usb' = "WORKING" /\ dongle' = "POWER_ON"
  /\ StopTraffic

WakeUpFails ==
  /\ HciFail
  /\ IF dongle \in HciReady THEN StopTraffic ELSE UNCHANGED urbVars
  /\ UNCHANGED << usb, dongle >>

(* btmtk_usb_handle_resume on behalf of btmtk_usb_resume. *)
ResumeWake ==
  /\ hub = "wake"
  /\ \/ WakeUpOk    /\ hub' = "submit"
     \/ WakeUpFails /\ hub' = "assert"
  /\ UNCHANGED << bound, pinVars, stackVars, chipVars, pmVars, stack, probing,
                  lateVars, ghostVars >>

ResumeSubmit ==
  /\ hub = "submit"
  /\ \/ SubmitUrbs(Pipes)  /\ usb' = "WORKING" /\ hub' = "idle"
     \/ SubmitFails(Pipes) /\ hub' = "assert"  /\ UNCHANGED usb
  /\ UNCHANGED << dongle, bound, pinVars, stackVars, chipVars, pmVars, stack,
                  probing, lateVars, ghostVars >>

ResumeAssert ==
  /\ hub = "assert"
  /\ SendAssertCmd
  /\ hub' = "idle"
  /\ UNCHANGED << usb, dongle, bound, stackVars, bus, chip_on, pmVars, stack,
                  probing, lateVars, ghostVars >>

-----------------------------------------------------------------------------
(***************************************************************************)
(* Early suspend and late resume, where the kernel offers them.            *)
(***************************************************************************)

EarlySuspend ==
  /\ EarlySuspendOS /\ late = "resumed" /\ Running
  /\ Fault
  /\ usb' = "EARLY_SUSPEND"
  /\ late' = "entering"
  /\ UNCHANGED << dongle, bound, pinVars, stackVars, urbVars, chipVars,
                  pmVars, hubVars, stack, retries, ghostVars >>

EarlySuspendWoble ==
  /\ late = "entering"
  /\ EnterWoble
  /\ late' = "early"
  /\ UNCHANGED << usb, bound, pinVars, stackVars, bus, asserted, pmVars,
                  hubVars, stack, retries, ghostVars >>

(* btmtk_usb_late_resume from its label late_resume_again. *)
LateResume ==
  /\ late \in { "early", "again" } /\ sleep \in { "no", "up" }
  /\ IF usb \in { "RESUME", "SUSPEND" }
       THEN usb' = "LATE_RESUME" /\ late' = "wake"
       ELSE usb' = LateResumeReturn(usb) /\ late' = "resumed"
  /\ retries' = IF late = "early" THEN LateRetries ELSE retries
  /\ UNCHANGED << dongle, bound, faults, pinVars, stackVars, urbVars,
                  chipVars, pmVars, hubVars, stack, ghostVars >>

LateWake ==
  /\ late = "wake"
  /\ \/ WakeUpOk    /\ late' = "submit"
     \/ WakeUpFails /\ late' = "assert"
  /\ UNCHANGED << bound, pinVars, stackVars, chipVars, pmVars, hubVars, stack,
                  retries, ghostVars >>

LateSubmit ==
  /\ late = "submit"
  /\ \/ /\ SubmitUrbs(Pipes)
        /\ usb' = "WORKING" /\ late' = "resumed"
        /\ UNCHANGED retries
     \/ /\ SubmitFails(Pipes)
        /\ IF retries > 0
             THEN late' = "again"  /\ retries' = retries - 1
             ELSE late' = "assert" /\ UNCHANGED retries
        /\ UNCHANGED usb
  /\ UNCHANGED << dongle, bound, pinVars, stackVars, chipVars, pmVars,
                  hubVars, stack, ghostVars >>

LateAssert ==
  /\ late = "assert"
  /\ SendAssertCmd
  /\ late' = "resumed"
  /\ UNCHANGED << usb, dongle, bound, stackVars, bus, chip_on, pmVars,
                  hubVars, stack, retries, ghostVars >>

-----------------------------------------------------------------------------
(***************************************************************************)
(* The Bluetooth stack on the character device.                            *)
(***************************************************************************)

(* btmtk_usb_fops_open, its checks. *)
Open ==
  /\ Running /\ stack = "idle"
  /\ fops \notin { "OPENED", "CLOSING" } /\ usb = "WORKING"
  /\ stack' = "power"
  /\ session_old' = FALSE
  /\ UNCHANGED << usb, dongle, bound, faults, pinVars, stackVars, urbVars,
                  chipVars, pmVars, hubVars, lateVars, open_raced,
                  probe_raced >>

(* After btmtk_usb_send_wmt_power_on_cmd_7668: a dongle that is not on is  *)
(* reset and the open fails.                                               *)
Powered(d) ==
  IF d = "POWER_ON"
    THEN stack' = "sleepcmd" /\ UNCHANGED pinVars
    ELSE stack' = "idle" /\ Toggle

(* The power status check that starts the power-on. *)
OpenPowerCheck ==
  /\ stack = "power"
  /\ \/ /\ WmtOk /\ chip_on
        /\ dongle' = "POWER_ON"
        /\ Powered("POWER_ON")
     \/ /\ WmtOk /\ ~chip_on
        /\ dongle' = "POWERING_ON" /\ stack' = "powering"
        /\ UNCHANGED pinVars
     \/ /\ WmtFail
        /\ Powered(dongle)
        /\ UNCHANGED dongle
  /\ UNCHANGED << usb, bound, stackVars, urbVars, chipVars, pmVars, hubVars,
                  lateVars, ghostVars >>

(* The power-on command and its retries. *)
OpenPowering ==
  /\ stack = "powering"
  /\ \/ WmtOk /\ dongle' = "POWER_ON" /\ chip_on' = TRUE
     \/ WmtFail /\ dongle' = "ERROR" /\ UNCHANGED chip_on
     \/ BusyPowerOn /\ Responds /\ Fault /\ UNCHANGED << dongle, chip_on >>
  /\ Powered(dongle')
  /\ UNCHANGED << usb, bound, stackVars, urbVars, bus, asserted, pmVars,
                  hubVars, lateVars, ghostVars >>

(* btmtk_usb_send_hci_tci_set_sleep_cmd_7668 *)
OpenSleepCmd ==
  /\ stack = "sleepcmd"
  /\ IF dongle \in HciReady THEN StopTraffic ELSE UNCHANGED urbVars
  /\ \/ HciOk   /\ stack' = "urbs" /\ UNCHANGED pinVars
     \/ HciFail /\ stack' = "idle" /\ Toggle
  /\ UNCHANGED << usb, dongle, bound, stackVars, chipVars, pmVars, hubVars,
                  lateVars, ghostVars >>

OpenUrbs ==
  /\ stack = "urbs"
  /\ \/ SubmitUrbs(Pipes)  /\ stack' = "done"
     \/ SubmitFails(Pipes) /\ stack' = "idle"
  /\ UNCHANGED << usb, dongle, bound, pinVars, stackVars, chipVars, pmVars,
                  hubVars, lateVars, ghostVars >>

OpenDone ==
  /\ stack = "done"
  /\ fops' = "OPENED"
  /\ need_reopen' = FALSE
  /\ need_reset_stack' = "NONE" /\ need_reset_stack_type' = "NONE"
  /\ stack' = "idle"
  /\ open_raced' = session_old
  /\ UNCHANGED << usb, dongle, bound, faults, doing_reset, hook, timers,
                  pulse, urbVars, chipVars, pmVars, hubVars, lateVars,
                  session_old, probe_raced >>

(* btmtk_usb_fops_read with a hardware error to report: the stack gets the *)
(* event and must reopen.                                                  *)
ReadHwErr ==
  /\ Running /\ stack = "idle" /\ fops = "OPENED"
  /\ usb # "SUSPEND_FW_DUMP" /\ need_reset_stack # "NONE"
  /\ need_reset_stack' = "NONE" /\ need_reset_stack_type' = "NONE"
  /\ need_reopen' = TRUE
  /\ UNCHANGED << usb, fops, dongle, bound, faults, doing_reset, hook, timers,
                  pulse, urbVars, chipVars, pmVars, pcVars, ghostVars >>

(* btmtk_usb_fops_write of the command that makes the firmware dump. *)
WriteAssert ==
  /\ Running /\ stack = "idle" /\ fops = "OPENED" /\ usb = "WORKING"
  /\ ~need_reopen /\ need_reset_stack = "NONE" /\ dongle # "POWER_OFF"
  /\ Fault
  /\ need_reset_stack_type' = Cause("BT_HOST")
  /\ asserted' = (asserted \/ bus = "attached")
  /\ UNCHANGED << usb, dongle, bound, doing_reset, hook, timers, pulse,
                  stackVars, urbVars, bus, chip_on, pmVars, pcVars,
                  ghostVars >>

(* btmtk_usb_fops_close *)
Close ==
  /\ Running /\ stack = "idle" /\ fops = "OPENED"
  /\ fops' = "CLOSING"
  /\ stack' = IF usb = "WORKING" /\ dongle = "POWER_ON"
                THEN "deinit" ELSE "closing"
  /\ UNCHANGED << usb, dongle, bound, faults, pinVars, need_reset_stack,
                  need_reopen, urbVars, chipVars, pmVars, hubVars, lateVars,
                  ghostVars >>

(* Stop the traffic and power the chip off; a dongle that is not off then  *)
(* is reset.  A chip that says it is off already leaves the state alone.   *)
CloseDeinit ==
  /\ stack = "deinit"
  /\ StopTraffic
  /\ \/ /\ WmtOk /\ chip_on
        /\ dongle' = "POWER_OFF" /\ chip_on' = FALSE
     \/ /\ WmtOk /\ ~chip_on
        /\ UNCHANGED << dongle, chip_on >>
     \/ /\ WmtFail
        /\ dongle' \in { dongle, "ERROR" } /\ UNCHANGED chip_on
  /\ IF dongle' = "POWER_OFF" THEN UNCHANGED pinVars ELSE Toggle
  /\ stack' = "closing"
  /\ UNCHANGED << usb, bound, stackVars, bus, asserted, pmVars, hubVars,
                  lateVars, ghostVars >>

CloseDone ==
  /\ stack = "closing"
  /\ fops' = "CLOSED"
  /\ need_reset_stack' = "NONE" /\ need_reset_stack_type' = "NONE"
  /\ stack' = "idle"
  /\ UNCHANGED << usb, dongle, bound, faults, doing_reset, hook, timers,
                  pulse, need_reopen, urbVars, chipVars, pmVars, hubVars,
                  lateVars, ghostVars >>

-----------------------------------------------------------------------------
(* btmtk_usb_init: the driver is registered, no chip has been seen. *)
Init ==
  /\ usb = "DISCONNECT" /\ fops = "INIT" /\ dongle = "UNKNOWN"
  /\ need_reset_stack = "NONE" /\ need_reset_stack_type = "NONE"
  /\ need_reopen = FALSE /\ doing_reset = 0 /\ hook = "probe"
  /\ timers = {} /\ suspend_count = 0 /\ submitted = {} /\ bound = FALSE
  /\ inflight = {} /\ bus = "detached" /\ pulse = FALSE
  /\ asserted = FALSE /\ chip_on = FALSE
  /\ sleep = "no" /\ nsusp = 0
  /\ hub = "idle" /\ stack = "idle" /\ late = "resumed"
  /\ probing = "probe" /\ retries = 0 /\ faults = 0
  /\ session_old = FALSE /\ open_raced = FALSE /\ probe_raced = FALSE

BusNext   == ChipResets \/ PulseLost \/ Unplug \/ FwCrash
TimerNext == FwDumpTimo \/ ChipRstDiscTimo \/ ChipResetTimo
OtherNext == WifiReset \/ TriggerCoreDump \/ DiagReset
HubNext   == \/ ProbeBegin \/ ProbePatched \/ ProbeFails \/ ProbeIface1
             \/ ProbeEnd \/ Disconnect
SleepWork == \/ Suspend \/ SuspendTraffic \/ SuspendWoble \/ SleepEnd
             \/ Resume \/ ResumeWake \/ ResumeSubmit \/ ResumeAssert \/ Thaw
LateNext  == \/ EarlySuspend \/ EarlySuspendWoble \/ LateResume \/ LateWake
             \/ LateSubmit \/ LateAssert
OpenNext  == \/ OpenPowerCheck \/ OpenPowering \/ OpenSleepCmd \/ OpenUrbs
             \/ OpenDone
StackNext == Open \/ OpenNext \/ ReadHwErr \/ WriteAssert \/ Close
             \/ CloseDeinit \/ CloseDone

Next ==
  \/ BusNext \/ TimerNext \/ OtherNext
  \/ \E last \in BOOLEAN : BulkInDump(last)
  \/ HubNext \/ SleepBegin \/ SleepWork \/ LateNext \/ StackNext

Spec == Init /\ [][Next]_vars

(***************************************************************************)
(* Fairness: the kernel runs its threads and timers, a crashed firmware    *)
(* sends its dump, a pulsed chip reacts unless the pulse is lost, and the  *)
(* stack reads an error it is told of, closes and opens again.             *)
(***************************************************************************)
Fairness ==
  /\ WF_vars(ChipResets) /\ WF_vars(\E last \in BOOLEAN : BulkInDump(last))
  /\ WF_vars(FwDumpTimo) /\ WF_vars(ChipRstDiscTimo) /\ WF_vars(ChipResetTimo)
  /\ WF_vars(HubNext) /\ WF_vars(SleepWork)
  /\ WF_vars(Open) /\ WF_vars(OpenNext) /\ WF_vars(ReadHwErr)
  /\ WF_vars(need_reopen /\ Close) /\ WF_vars(CloseDeinit \/ CloseDone)

FairSpec == Spec /\ Fairness

-----------------------------------------------------------------------------
(***************************************************************************)
(* Properties.                                                             *)
(***************************************************************************)

(* A reset once claimed (doing_reset) is never forgotten while the driver  *)
(* is bound: the watchdog that drops the device if the chip does not react *)
(* is pending.  Otherwise every later reset request returns early on       *)
(* doing_reset and the driver hangs for good.                              *)
ResetMonitored == bound /\ doing_reset = 1 => "disc" \in timers

(* Every pulse on the reset pin is watched ("start timer to monitor        *)
(* disconnect event happen or not", btmtk_usb_main.c:1121).  It is not     *)
(* when the pulse comes from a failed probe: the probe of interface 1 that *)
(* follows deletes the watchdog.                                           *)
PulseMonitored == pulse => "disc" \in timers

(* What is left of it: the pulses no other probe can have taken the        *)
(* watchdog of are watched, those on a bound device and during its probe.  *)
PulseWatched == pulse /\ (bound \/ hub \in { "patch", "power" }) => "disc" \in timers

(* A chip on the bus is never left to itself.  A bound device the stack    *)
(* cannot use (a dump, a failed resume) has a timer pending that resets    *)
(* it, or a dump under way with the URB its packets need; one whose probe  *)
(* failed has been pulsed, which drops a chip with a reliable pin.  It is  *)
(* the part of Recovers that does not depend on fairness: in a state that  *)
(* denies it, nothing but a fault or the user moves the driver.            *)
Stirring ==
  hub = "idle" /\ sleep = "no" /\ bus = "attached" =>
    IF bound
      THEN \/ usb = "WORKING" \/ "disc" \in timers \/ "dump" \in timers
           \/ asserted /\ "bulk" \in inflight
      ELSE PinReliable => pulse

(* A driver that believes it is in a firmware dump will leave it: the dump *)
(* watchdog is pending, a reset is under way, or the chip is gone.         *)
DumpEnds ==
  bound /\ usb \in DumpStates =>
    "dump" \in timers \/ doing_reset = 1 \/ bus # "attached"

(* The dump watchdog is given up only for a reset under way or a lost      *)
(* chip, also when a suspend has overwritten the dump state; a request     *)
(* that toggle_rst_pin skips for a diagnostic reset must not cancel it.    *)
DumpKept ==
  "dump" \in timers /\ "dump" \notin timers' =>
    doing_reset' = 1 \/ bus # "attached" \/ bound' = FALSE
DumpWatched == [][DumpKept]_vars

(* Packets of one dump leave the driver in one dump state: only the first  *)
(* is taken for "the first BULK_IN packet of FW dump"                      *)
(* (btmtk_usb_main.c:4771).                                                *)
OneFirstPacket ==
  [][ (usb \in DumpStates /\ usb' \in DumpStates) => usb' = usb ]_vars

(* The suspend calls the driver counts are the interfaces the USB core has *)
(* suspended, through probe, disconnect in sleep and failed resumes; a     *)
(* count off by one leaves the chip asleep or resumes it twice.            *)
SuspendCounted == bound => suspend_count = nsusp

(* The stack is let in (WORKING) only with a probed device.  Holds where   *)
(* the kernel has no early suspend; where it has, btmtk_usb_early_suspend  *)
(* overwrites DISCONNECT, although late resume means to "ignore and set to *)
(* disconnect state" (btmtk_usb_main.c:4594).                              *)
WorkingBound == usb = "WORKING" => bound

(* A receive URB in flight is marked submitted: stop_traffic looks at the  *)
(* marks, so an unmarked one would survive suspend, close and every        *)
(* command that reads the event pipe itself.                               *)
UrbsMarked == inflight \subseteq submitted

(* No handler is in the middle of its work and the chip is sound. *)
Settled == /\ hub = "idle" /\ stack = "idle" /\ sleep = "no"
           /\ bus = "attached" /\ ~asserted /\ doing_reset = 0

(* What an open promises is still so whenever the stack may use the        *)
(* device in the same session, sleep and wake-on-BLE included: the chip is *)
(* powered, the driver knows it, and both receive pipes are listening.     *)
Serving ==
  Settled /\ usb = "WORKING" /\ fops = "OPENED"
  /\ ~session_old /\ ~need_reopen /\ need_reset_stack = "NONE" =>
    inflight = Pipes /\ chip_on /\ dongle = "POWER_ON"

(* A stack that keeps the device open over a disconnect is told: the read  *)
(* has an error for it, or it has read it and must reopen.  Not so for an  *)
(* open that was running at the disconnect (it clears the error when it    *)
(* ends) nor for a reset claimed while L0_probe was finishing another      *)
(* (L0_probe takes its hook away).                                         *)
StackTold ==
  fops = "OPENED" /\ session_old /\ ~open_raced /\ ~probe_raced
  /\ usb = "WORKING" /\ hub = "idle" /\ stack = "idle" =>
    need_reset_stack # "NONE" \/ need_reopen

(* Once the faults stop, the driver comes back to a bound device that      *)
(* takes opens, whatever it was doing.                                     *)
Recovers == []<>(usb = "WORKING" /\ bound)

=============================================================================
