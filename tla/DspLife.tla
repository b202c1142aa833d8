------------------------------ MODULE DspLife ------------------------------
(***************************************************************************)
(* The life of the far-field DSP: the firmware load, the watchdog, the     *)
(* power management and the recovery that joins them through user space.   *)
(*                                                                         *)
(* Whoever finds the DSP dead sends the uevent DSP_WTD_WHOLE; a daemon     *)
(* answers each uevent by writing the "wdt" control, which calls the       *)
(* watchdog's notifiers: log dump, reset, reload.  The reload is work of   *)
(* its own, and nothing keeps two of them apart but boot_done, which is    *)
(* set when a load is over.                                                *)
(*                                                                         *)
(* spoilt becomes TRUE when the world is worse than the recovery is made   *)
(* for: a failure during a recovery, firmware that cannot be loaded, or a  *)
(* DSP that takes longer to answer than the driver waits.                  *)
(*                                                                         *)
(* An operator marked "mutant" stands before the one it varies: it is the  *)
(* same with a bug, and no specification uses it.                          *)
(***************************************************************************)
EXTENDS Integers

CONSTANTS
  Loads,         (* bound: loads that may be in progress at once            *)
  MaxFailures    (* bound: hangs, SPI timeouts, suspends, reloads, restarts *)

ASSUME DspLifeAssumption == MaxFailures \in Nat

VARIABLES
  dsp,           \* the DSP: held in reset, starting, running, hung
  sram,          \* its memory holds a whole image and is powered
  ready_msg,     \* its MSG_TO_HOST_DSP_AUDIO_READY is on the way
  boot_done,     \* hifi4dsp_load->boot_done
  irq,           \* dsp_wdt_is_enabled: the watchdog's line is requested
  work,          \* dsp_wdt_work is queued
  uevents,       \* DSP_WTD_WHOLE the daemon has not read
  put,           \* where the write of the "wdt" control is
  loads,         \* where each load is
  dsp_ready, dsp_init,   \* what the sound driver believes
  pm,            \* how far the suspend or resume of the two devices is
  started,       \* history: the first load was asked for
  failures,      \* history: how many failures there were
  spoilt         \* history: see above

chip == << dsp, sram, ready_msg >>
watch == << irq, work, uevents >>
flags == << dsp_ready, dsp_init >>
past == << started, failures, spoilt >>
vars == << chip, boot_done, watch, put, loads, flags, pm, past >>

Writing == { "image", "torn" }
Busy == Writing \cup { "fetch", "power", "run", "enable" }
LoadPcs == Busy \cup { "none", "wait", "init" }

TypeOK ==
  /\ dsp \in { "off", "booting", "up", "hung" } /\ sram \in BOOLEAN /\ ready_msg \in BOOLEAN
  /\ boot_done \in BOOLEAN /\ irq \in BOOLEAN /\ work \in BOOLEAN /\ uevents \in Nat
  /\ put \in { "none", "dbg", "rst", "pcm" } /\ loads \in [Loads -> LoadPcs]
  /\ dsp_ready \in BOOLEAN /\ dsp_init \in BOOLEAN
  /\ pm \in { "awake", "no_irq", "asleep", "loaded" }
  /\ started \in BOOLEAN /\ failures \in 0..MaxFailures /\ spoilt \in BOOLEAN

(* Nothing of a recovery is under way: loads that only wait may be there. *)
Idle ==
  /\ ~work /\ uevents = 0 /\ put = "none" /\ pm = "awake"
  /\ \A l \in Loads : loads[l] \notin Busy

(* A failure: one that interrupts a recovery spoils it. *)
Fails ==
  /\ failures < MaxFailures /\ failures' = failures + 1
  /\ spoilt' = (spoilt \/ ~Idle) /\ UNCHANGED started

-----------------------------------------------------------------------------
(* hifi4dsp_rst: what was being written is lost, and so may be a message.  *)
Reset ==
  /\ boot_done' = FALSE /\ dsp' = "off" /\ sram' = FALSE
  /\ ready_msg' \in { FALSE, ready_msg }
  /\ loads' = [l \in Loads |-> IF loads[l] = "image" THEN "torn" ELSE loads[l]]

(* async_load_hifi4dsp_bin_and_run: "error: bootup two times!", or a load. *)
AsyncLoad ==
  \/ boot_done /\ UNCHANGED loads
  \/ /\ ~boot_done
     /\ \E l \in Loads : loads[l] = "none" /\ loads' = [loads EXCEPT ![l] = "fetch"]

To(l, pc) == loads' = [loads EXCEPT ![l] = pc]

(* No firmware, SPI not ready or a bad image: the load is over.            *)
GivesUp(l) ==
  /\ loads[l] \in Writing \cup { "fetch" } /\ To(l, "none")
  /\ spoilt' = TRUE
  /\ UNCHANGED << chip, boot_done, watch, put, flags, pm, started, failures >>

(* parse_and_load_image begins: two that write the memory spoil it.        *)
Fetched(l) ==
  /\ loads[l] = "fetch"
  /\ IF \E k \in Loads : loads[k] \in Writing
       THEN loads' = [k \in Loads |-> IF k = l \/ loads[k] = "image" THEN "torn" ELSE loads[k]]
       ELSE To(l, "image")
  /\ sram' = FALSE
  /\ UNCHANGED << dsp, ready_msg, boot_done, watch, put, flags, pm, past >>

Written(l) ==
  /\ loads[l] \in Writing /\ To(l, "power")
  /\ sram' = (loads[l] = "image")
  /\ UNCHANGED << dsp, ready_msg, boot_done, watch, put, flags, pm, past >>

PowerOn(l) ==
  /\ loads[l] = "power" /\ To(l, "run")
  /\ dsp' = IF sram THEN "booting" ELSE "off"
  /\ UNCHANGED << sram, ready_msg, boot_done, watch, put, flags, pm, past >>

(* set_hifi4dsp_run_status: boot_done, then 200 ms, then the interrupt.    *)
SetRunStatus(l) ==
  /\ loads[l] = "run" /\ To(l, "enable")
  /\ boot_done' = TRUE
  /\ UNCHANGED << chip, watch, put, flags, pm, past >>

(* Mutant: the interrupt is not requested again. *)
WdtEnableNot(l) ==
  /\ loads[l] = "enable" /\ To(l, "wait")
  /\ UNCHANGED << chip, boot_done, watch, put, flags, pm, past >>

WdtEnable(l) ==
  /\ loads[l] = "enable" /\ To(l, "wait")
  /\ irq' = TRUE
  /\ UNCHANGED << chip, boot_done, work, uevents, put, flags, pm, past >>

(* The DSP is about to say that it is ready.                               *)
Answering == dsp = "booting" \/ ready_msg

(* load_hifi4dsp_callback: mt8518_wait_dsp_ready and what follows.         *)
WaitDspReady(l) ==
  /\ loads[l] = "wait" /\ dsp_ready /\ To(l, "init")
  /\ UNCHANGED << chip, boot_done, watch, put, flags, pm, past >>

ReadyTimeout(l) ==
  /\ loads[l] = "wait" /\ ~dsp_ready /\ To(l, "none")
  /\ spoilt' = (spoilt \/ (Answering /\ \A k \in Loads \ {l} : loads[k] = "none"))
  /\ UNCHANGED << chip, boot_done, watch, put, flags, pm, started, failures >>

(* Mutant: dsp_init is forgotten. *)
DspInitNot(l) ==
  /\ loads[l] = "init" /\ To(l, "none")
  /\ UNCHANGED << chip, boot_done, watch, put, flags, pm, past >>

DspInit(l) ==
  /\ loads[l] = "init" /\ To(l, "none")
  /\ dsp_init' = TRUE
  /\ UNCHANGED << chip, boot_done, watch, put, dsp_ready, pm, past >>

Load(l) ==
  \/ Fetched(l) \/ Written(l) \/ PowerOn(l) \/ SetRunStatus(l) \/ WdtEnable(l)
  \/ WaitDspReady(l) \/ ReadyTimeout(l) \/ DspInit(l)

-----------------------------------------------------------------------------
(* The DSP, and the driver's receipt of its READY.                         *)
DspUp ==
  /\ dsp = "booting" /\ dsp' = "up" /\ ready_msg' = TRUE
  /\ UNCHANGED << sram, boot_done, watch, put, loads, flags, pm, past >>

RecvReady ==
  /\ ready_msg /\ ready_msg' = FALSE /\ dsp_ready' = TRUE
  /\ UNCHANGED << dsp, sram, boot_done, watch, put, loads, dsp_init, pm, past >>

(* The DSP hangs; its watchdog pulls the line, and mtk_dsp_wdt_isr runs if *)
(* the line is requested.                                                  *)
Hang ==
  /\ dsp \in { "booting", "up" } /\ dsp' = "hung"
  /\ work' = (work \/ irq) /\ Fails
  /\ UNCHANGED << sram, ready_msg, boot_done, irq, uevents, put, loads, flags, pm >>

DspWdtWork ==
  /\ work /\ work' = FALSE
  /\ irq' = FALSE /\ uevents' = uevents + 1
  /\ UNCHANGED << chip, boot_done, put, loads, flags, pm, past >>

(* Mutant: a timeout is not told. *)
SpiTimeoutSilent ==
  /\ Fails
  /\ irq' = FALSE /\ dsp' = "off" /\ sram' = FALSE
  /\ UNCHANGED << ready_msg, boot_done, work, uevents, put, loads, flags, pm >>

(* mstar_spi_transfer_one times out: the DSP is put in dead state.         *)
SpiTimeout ==
  /\ Fails
  /\ irq' = FALSE /\ dsp' = "off" /\ sram' = FALSE
  /\ uevents' = uevents + 1
  /\ UNCHANGED << ready_msg, boot_done, work, put, loads, flags, pm >>

(* "reload" written to the driver's debugfs file.                          *)
Reload ==
  /\ pm = "awake" /\ Fails
  /\ irq' = FALSE /\ Reset /\ uevents' = uevents + 1
  /\ UNCHANGED << work, put, flags, pm >>

-----------------------------------------------------------------------------
(* User space: the daemon, and the "load start" control; writes of         *)
(* controls exclude each other.                                            *)
(* Mutant: a uevent read twice. *)
DaemonTwice ==
  /\ put = "none" /\ pm = "awake"
  /\ uevents' = uevents - 1 /\ put' = "dbg"
  /\ UNCHANGED << chip, boot_done, irq, work, loads, flags, pm, past >>

Daemon ==
  /\ uevents > 0 /\ put = "none" /\ pm = "awake"
  /\ uevents' = uevents - 1 /\ put' = "dbg"
  /\ UNCHANGED << chip, boot_done, irq, work, loads, flags, pm, past >>

DbgNotify ==
  /\ put = "dbg" /\ put' = "rst" /\ boot_done' = FALSE
  /\ UNCHANGED << chip, watch, loads, flags, pm, past >>

NotifyRst ==
  /\ put = "rst" /\ put' = "pcm" /\ Reset
  /\ UNCHANGED << watch, flags, pm, past >>

PcmWdtEvent ==
  /\ put = "pcm" /\ put' = "none"
  /\ dsp_ready' = FALSE /\ dsp_init' = FALSE
  /\ AsyncLoad
  /\ UNCHANGED << chip, boot_done, watch, pm, past >>

LoadStart ==
  /\ put = "none" /\ pm = "awake" /\ AsyncLoad
  /\ started' = TRUE /\ spoilt' = (spoilt \/ ~Idle)
  /\ IF started THEN failures < MaxFailures /\ failures' = failures + 1 ELSE UNCHANGED failures
  /\ UNCHANGED << chip, boot_done, watch, put, flags, pm >>

(* Suspend and resume: the watchdog's device is suspended first and        *)
(* resumed last; user space sleeps, works do not.                          *)
WdtSuspend ==
  /\ pm = "awake" /\ put = "none" /\ Fails
  /\ pm' = "no_irq" /\ irq' = FALSE
  /\ UNCHANGED << chip, boot_done, work, uevents, put, loads, flags >>

LoadSuspend ==
  /\ pm = "no_irq" /\ pm' = "asleep" /\ Reset
  /\ UNCHANGED << watch, put, flags, past >>

LoadResume ==
  /\ pm = "asleep" /\ pm' = "loaded" /\ Reset
  /\ uevents' = uevents + 1
  /\ UNCHANGED << irq, work, put, flags, past >>

WdtResume ==
  /\ pm = "loaded" /\ pm' = "awake" /\ irq' = TRUE
  /\ UNCHANGED << chip, boot_done, work, uevents, put, loads, flags, past >>

-----------------------------------------------------------------------------
Init ==
  /\ dsp = "off" /\ sram = FALSE /\ ready_msg = FALSE
  /\ boot_done = FALSE /\ irq = TRUE /\ work = FALSE /\ uevents = 0
  /\ put = "none" /\ loads = [l \in Loads |-> "none"]
  /\ dsp_ready = FALSE /\ dsp_init = FALSE /\ pm = "awake"
  /\ started = FALSE /\ failures = 0 /\ spoilt = FALSE

(* What the kernel, the daemon and the DSP go on doing by themselves.      *)
Notifiers == DbgNotify \/ NotifyRst \/ PcmWdtEvent
Power == LoadSuspend \/ LoadResume \/ WdtResume

Next ==
  \/ \E l \in Loads : Load(l) \/ GivesUp(l)
  \/ DspUp \/ RecvReady \/ Hang \/ DspWdtWork \/ SpiTimeout \/ Reload
  \/ Daemon \/ Notifiers \/ LoadStart \/ WdtSuspend \/ Power

Spec == Init /\ [][Next]_vars

FairSpec ==
  /\ Spec
  /\ \A l \in Loads : WF_vars(Load(l))
  /\ WF_vars(DspUp) /\ WF_vars(RecvReady) /\ WF_vars(DspWdtWork)
  /\ WF_vars(Daemon) /\ WF_vars(Notifiers) /\ WF_vars(Power)

-----------------------------------------------------------------------------
Restored == dsp = "up" /\ boot_done /\ irq /\ dsp_ready /\ dsp_init

(* Nothing is left to be done: no failure is on its way to the daemon, no  *)
(* load is in progress, and the DSP has nothing more to say.               *)
Quiet ==
  /\ started /\ Idle /\ ~Answering
  /\ \A l \in Loads : loads[l] = "none"

(* When the driver comes to rest the DSP runs, its watchdog is armed again *)
(* and the sound driver knows that it is ready: no failure is forgotten    *)
(* between the interrupt, the uevent, the three notifiers and the load.    *)
NothingForgotten == Quiet /\ ~spoilt => Restored

(* A DSP that hangs while nothing is being recovered is noticed: the       *)
(* watchdog's line is requested whenever the DSP runs and the driver is    *)
(* idle (hifi4dsp_wdt.c:269-302).                                          *)
Watched == dsp \in { "booting", "up" } /\ Idle /\ ~spoilt => irq

(* Each failure is followed by a DSP that serves again, for good once no   *)
(* more failures come.                                                     *)
Recovers == <>[](started /\ ~spoilt => Restored)
=============================================================================
