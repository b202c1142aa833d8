-------------------------- MODULE BtSessionProofs --------------------------
(***************************************************************************)
(* Proofs about the life of the Bluetooth driver on a kernel without early *)
(* suspend: what an open promises the stack stays so (Serving), a stack    *)
(* that keeps the device open over a disconnect is told (StackTold), and a *)
(* chip on the bus is never left to itself (Stirring).                     *)
(*                                                                         *)
(* SessionInv follows one open of the device from its power check through  *)
(* any number of system sleeps, for as long as nothing happens to the chip *)
(* (Sound): whatever goes wrong in between crashes the chip, takes it off  *)
(* the bus or claims a reset, and none of these is undone before a         *)
(* disconnect ends the session.  NoticeInv has the notice of a disconnect  *)
(* set, read, or still to come from L0_probe, which the reset under way    *)
(* has hooked.                                                             *)
(* StirInv has a failed resume followed by the reset or the dump that its  *)
(* assert command asks for, which takes that no URB was left in flight, or *)
(* marked, through the sleep.                                              *)
(***************************************************************************)
EXTENDS BtLifecycleProofs

(* btmtk_usb_fops_open at work. *)
Opening == { "power", "powering", "sleepcmd", "urbs", "done" }

(* What fops says while the stack is in a call.                            *)
StackPlace ==
  /\ stack \in Opening => fops \notin { "OPENED", "CLOSING" }
  /\ stack \in { "deinit", "closing" } => fops = "CLOSING"

(* The system awake, no call is in the middle of a suspend or a resume,    *)
(* and a chip that is there has its interfaces resumed.                    *)
Awake ==
  sleep = "no" =>
    /\ hub \notin { "suspend", "woble", "wake", "submit", "assert" }
    /\ bus = "attached" => nsusp = 0

(* An open or opened device that was not unbound since.                    *)
Session == (stack \in Opening \/ fops = "OPENED") /\ ~session_old
SessionBound == Session => bound

(* A session in which nothing has happened to the chip.                    *)
Sound == Session /\ bus = "attached" /\ ~asserted /\ doing_reset = 0

Quiet == submitted = {} /\ inflight = {}
PoweredOn == dongle = "POWER_ON" /\ chip_on
Listening == submitted = Pipes /\ inflight = Pipes /\ PoweredOn

(* An open finds a driver that works, and brings it to listen.             *)
OpenPhase ==
  Sound /\ stack \in Opening =>
    /\ hub = "idle" /\ sleep = "no" /\ suspend_count = 0 /\ usb = "WORKING"
    /\ stack \in { "sleepcmd", "urbs", "done" } => dongle = "POWER_ON"
    /\ stack = "urbs" => Quiet /\ PoweredOn
    /\ stack = "done" => Listening

(* So it stays, but for a system sleep, in which the chip is in WoBLE.     *)
OpenedPhase ==
  Sound /\ fops = "OPENED" =>
    /\ hub = "idle" /\ suspend_count = 0 => Listening /\ usb = "WORKING"
    /\ hub = "suspend" => Listening /\ suspend_count > 0 /\ usb = "SUSPEND"
    /\ hub = "woble" => Quiet /\ PoweredOn /\ suspend_count > 0 /\ usb = "SUSPEND"
    /\ hub = "idle" /\ suspend_count > 0 =>
         /\ Quiet /\ usb = "SUSPEND"
         /\ dongle = "ERROR" \/ (dongle = "WOBLE" /\ chip_on)
    /\ hub = "wake" => Quiet /\ dongle = "WOBLE" /\ chip_on /\ suspend_count = 0 /\ usb = "RESUME"
    /\ hub = "submit" => Quiet /\ PoweredOn /\ suspend_count = 0 /\ usb = "WORKING"
    /\ hub = "assert" => suspend_count = 0 /\ usb \in { "SUSPEND", "RESUME", "WORKING" }

(* A reset under way will have L0_probe tell the stack.                    *)
Hooked == doing_reset = 1 /\ ~probe_raced => hook = "L0_probe"
Coming == ~bound /\ hook = "L0_probe" /\ (hub \in Probing => probing = "L0_probe")
Told ==
  fops = "OPENED" /\ session_old /\ ~open_raced /\ ~probe_raced =>
    need_reset_stack # "NONE" \/ need_reopen \/ Coming

(* The invariant of the sessions, and that of the notice.                  *)
SessionInv ==
  WorkingBound /\ Awake /\ StackPlace /\ SessionBound /\ OpenPhase /\ OpenedPhase
NoticeInv == StackPlace /\ Hooked /\ Told

(* No step wakes the system with an interface suspended.                   *)
LEMMA AwakeKept ==
  ASSUME TypeOK, Sleeping, Awake, Next
  PROVE  Awake'
<1>1. CASE BusNext
  BY <1>1
    DEF Awake, BusNext, ChipResets, pmVars, pcVars, hubVars, PulseLost,
      chipVars, Unplug, FwCrash
<1>2. CASE TimerNext
  BY <1>2
    DEF Awake, TimerNext, FwDumpTimo, chipVars, pmVars, pcVars, hubVars,
      ChipRstDiscTimo, ChipResetTimo
<1>3. CASE OtherNext
  BY <1>3
    DEF Awake, OtherNext, WifiReset, chipVars, pmVars, pcVars, hubVars,
      TriggerCoreDump, DiagReset
<1>4. CASE HubNext
  BY <1>4
    DEF Awake, Sleeping, Probing, HubNext, ProbeBegin, ProbePatched, pmVars,
      ProbeFails, ProbeIface1, ProbeEnd, Disconnect, pcVars, hubVars
<1>5. CASE SleepBegin
  BY <1>5 DEF Awake, SleepBegin
<1>6. CASE SleepWork
  BY <1>6
    DEF Awake, SleepWork, Suspend, chipVars, SuspendTraffic, pmVars,
      SuspendWoble, SleepEnd, pcVars, hubVars, Resume, ResumeWake,
      ResumeSubmit, ResumeAssert, Thaw
<1>7. CASE LateNext
  BY <1>7
    DEF Awake, LateNext, EarlySuspend, chipVars, pmVars, hubVars,
      EarlySuspendWoble, LateResume, LateWake, LateSubmit, LateAssert
<1>8. CASE StackNext
  BY <1>8
    DEF Awake, StackNext, Open, chipVars, pmVars, hubVars, OpenNext,
      OpenPowerCheck, OpenPowering, OpenSleepCmd, OpenUrbs, OpenDone,
      ReadHwErr, pcVars, WriteAssert, Close, CloseDeinit, CloseDone
<1>9. ASSUME NEW last \in BOOLEAN, BulkInDump(last)
     PROVE  Awake'
  BY <1>9 DEF Awake, BulkInDump, chipVars, pmVars, pcVars, hubVars
<1> QED
  BY <1>1, <1>2, <1>3, <1>4, <1>5, <1>6, <1>7, <1>8, <1>9 DEF Next

(* What fops says of the stack stays true.                                 *)
LEMMA StackPlaceKept ==
  ASSUME TypeOK, StackPlace, Next
  PROVE  StackPlace'
<1>1. CASE BusNext
  BY <1>1
    DEF StackPlace, BusNext, ChipResets, stackVars, pcVars, PulseLost,
      Unplug, FwCrash
<1>2. CASE TimerNext
  BY <1>2
    DEF StackPlace, TimerNext, FwDumpTimo, stackVars, pcVars,
      ChipRstDiscTimo, ChipResetTimo
<1>3. CASE OtherNext
  BY <1>3
    DEF StackPlace, OtherNext, WifiReset, stackVars, pcVars,
      TriggerCoreDump, DiagReset
<1>4. CASE HubNext
  BY <1>4
    DEF StackPlace, HubNext, ProbeBegin, stackVars, ProbePatched,
      ProbeFails, ProbeIface1, ProbeEnd, Disconnect, pcVars
<1>5. CASE SleepBegin
  BY <1>5 DEF StackPlace, Opening, SleepBegin, pcVars
<1>6. CASE SleepWork
  BY <1>6
    DEF StackPlace, SleepWork, Suspend, stackVars, SuspendTraffic,
      SuspendWoble, SleepEnd, pcVars, Resume, ResumeWake, ResumeSubmit,
      ResumeAssert, Thaw
<1>7. CASE LateNext
  BY <1>7
    DEF StackPlace, LateNext, EarlySuspend, stackVars, EarlySuspendWoble,
      LateResume, LateWake, LateSubmit, LateAssert
<1>8. CASE StackNext
  BY <1>8
    DEF StackPlace, Opening, StackNext, Open, stackVars, OpenNext,
      OpenPowerCheck, Powered, OpenPowering, OpenSleepCmd, OpenUrbs,
      OpenDone, ReadHwErr, pcVars, WriteAssert, Close, CloseDeinit,
      CloseDone
<1>9. ASSUME NEW last \in BOOLEAN, BulkInDump(last)
     PROVE  StackPlace'
  BY <1>9 DEF StackPlace, BulkInDump, stackVars, pcVars
<1> QED
  BY <1>1, <1>2, <1>3, <1>4, <1>5, <1>6, <1>7, <1>8, <1>9 DEF Next

(* A session that is not old stays bound.                                  *)
LEMMA SessionBoundKept ==
  ASSUME ~EarlySuspendOS, WorkingBound, SessionBound, Next
  PROVE  SessionBound'
<1>1. CASE BusNext
  BY <1>1
    DEF SessionBound, Session, BusNext, ChipResets, stackVars, pcVars,
      ghostVars, PulseLost, Unplug, FwCrash
<1>2. CASE TimerNext
  BY <1>2
    DEF SessionBound, Session, TimerNext, FwDumpTimo, stackVars, pcVars,
      ghostVars, ChipRstDiscTimo, ChipResetTimo
<1>3. CASE OtherNext
  BY <1>3
    DEF SessionBound, Session, OtherNext, WifiReset, stackVars, pcVars,
      ghostVars, TriggerCoreDump, DiagReset
<1>4. CASE HubNext
  BY <1>4
    DEF SessionBound, Session, HubNext, ProbeBegin, stackVars, ghostVars,
      ProbePatched, ProbeFails, ProbeIface1, ProbeEnd, Disconnect, pcVars
<1>5. CASE SleepBegin
  BY <1>5 DEF SessionBound, SleepBegin
<1>6. CASE SleepWork
  BY <1>6
    DEF SessionBound, Session, SleepWork, Suspend, stackVars, ghostVars,
      SuspendTraffic, SuspendWoble, SleepEnd, pcVars, Resume, ResumeWake,
      ResumeSubmit, ResumeAssert, Thaw
<1>7. CASE LateNext
  BY <1>7
    DEF SessionBound, Session, LateNext, EarlySuspend, stackVars, ghostVars,
      EarlySuspendWoble, LateResume, LateWake, LateSubmit, LateAssert
<1>8. CASE StackNext
  BY <1>8
    DEF SessionBound, Session, WorkingBound, Opening, StackNext, Open,
      stackVars, OpenNext, OpenPowerCheck, ghostVars, OpenPowering,
      OpenSleepCmd, OpenUrbs, OpenDone, ReadHwErr, WriteAssert, Close,
      CloseDeinit, CloseDone
<1>9. ASSUME NEW last \in BOOLEAN, BulkInDump(last)
     PROVE  SessionBound'
  BY <1>9 DEF SessionBound, Session, BulkInDump, stackVars, pcVars, ghostVars
<1> QED
  BY <1>1, <1>2, <1>3, <1>4, <1>5, <1>6, <1>7, <1>8, <1>9 DEF Next

(* A claimed reset keeps its hook.                                         *)
LEMMA HookedKept ==
  ASSUME TypeOK, Hooked, Next
  PROVE  Hooked'
<1>1. CASE BusNext
  BY <1>1
    DEF Hooked, BusNext, ChipResets, ghostVars, PulseLost, Unplug, FwCrash,
      pinVars
<1>2. CASE TimerNext
  BY <1>2
    DEF Hooked, TimerNext, FwDumpTimo, ToggleRstPin, ghostVars,
      ChipRstDiscTimo, ChipResetTimo
<1>3. CASE OtherNext
  BY <1>3
    DEF Hooked, OtherNext, WifiReset, Toggle, ToggleRstPin, ghostVars,
      TriggerCoreDump, DiagReset
<1>4. CASE HubNext
  <2>1. CASE ProbeBegin
    BY <2>1 DEF Hooked, ProbeBegin, ResetOver
  <2>2. CASE ProbePatched
    BY <2>2 DEF Hooked, ProbePatched, pinVars, ghostVars
  <2>3. CASE ProbeFails
    BY <2>3 DEF Hooked, ProbeFails, Toggle, ToggleRstPin, ghostVars
  <2>4. CASE ProbeIface1
    BY <2>4 DEF Hooked, ProbeIface1, ResetOver
  <2>5. CASE ProbeEnd
    BY <2>5 DEF Hooked, ProbeEnd
  <2>6. CASE Disconnect
    BY <2>6 DEF Hooked, Disconnect
  <2> QED
    BY <1>4, <2>1, <2>2, <2>3, <2>4, <2>5, <2>6 DEF HubNext
<1>5. CASE SleepBegin
  BY <1>5 DEF Hooked, SleepBegin, pinVars, ghostVars
<1>6. CASE SleepWork
  BY <1>6
    DEF Hooked, SleepWork, Suspend, pinVars, ghostVars, SuspendTraffic,
      SuspendWoble, SleepEnd, Resume, ResumeWake, ResumeSubmit,
      ResumeAssert, SendAssertCmd, AssertFails, Toggle, ToggleRstPin, Thaw
<1>7. CASE LateNext
  BY <1>7
    DEF Hooked, LateNext, EarlySuspend, pinVars, ghostVars,
      EarlySuspendWoble, LateResume, LateWake, LateSubmit, LateAssert,
      SendAssertCmd, AssertFails, Toggle, ToggleRstPin
<1>8. CASE StackNext
  BY <1>8
    DEF Hooked, StackNext, Open, pinVars, OpenNext, OpenPowerCheck, Powered,
      Toggle, ToggleRstPin, ghostVars, OpenPowering, OpenSleepCmd, OpenUrbs,
      OpenDone, ReadHwErr, WriteAssert, Close, CloseDeinit, CloseDone
<1>9. ASSUME NEW last \in BOOLEAN, BulkInDump(last)
     PROVE  Hooked'
  BY <1>9 DEF Hooked, BulkInDump, ToggleRstPin, ghostVars
<1> QED
  BY <1>1, <1>2, <1>3, <1>4, <1>5, <1>6, <1>7, <1>8, <1>9 DEF Next

(* No step loses the notice.                                               *)
LEMMA ToldKept ==
  ASSUME TypeOK, Sleeping, StackPlace, Hooked, Told, Next
  PROVE  Told'
<1>1. CASE BusNext
  BY <1>1
    DEF Told, Coming, BusNext, ChipResets, stackVars, pcVars, hubVars,
      ghostVars, PulseLost, Unplug, FwCrash, pinVars
<1>2. CASE TimerNext
  BY <1>2
    DEF Told, Coming, TimerNext, FwDumpTimo, ToggleRstPin, stackVars,
      pcVars, hubVars, ghostVars, ChipRstDiscTimo, ChipResetTimo
<1>3. CASE OtherNext
  BY <1>3
    DEF Told, Coming, OtherNext, WifiReset, Toggle, ToggleRstPin, stackVars,
      pcVars, hubVars, ghostVars, TriggerCoreDump, DiagReset
<1>4. CASE HubNext
  <2>1. CASE ProbeBegin
    BY <2>1 DEF Told, Coming, ProbeBegin, stackVars, ghostVars
  <2>2. CASE ProbePatched
    BY <2>2
      DEF Told, Coming, Probing, ProbePatched, pinVars, stackVars, ghostVars
  <2>3. CASE ProbeFails
    BY <2>3
      DEF Told, Coming, Probing, ProbeFails, Toggle, ToggleRstPin,
        stackVars, ghostVars
  <2>4. CASE ProbeIface1
    BY <2>4 DEF Told, Coming, Probing, ProbeIface1, stackVars, ghostVars
  <2>5. CASE ProbeEnd
    BY <2>5 DEF Told, Coming, Probing, ProbeEnd, Cause
  <2>6. CASE Disconnect
    <3>1. hub' = "idle" /\ bound' = FALSE /\ hook' = hook /\ fops' = fops
          /\ open_raced' = open_raced /\ probe_raced' = probe_raced
          /\ need_reopen' = need_reopen
      BY <2>6 DEF Disconnect, pcVars, hubVars
    <3>2. CASE hook = "L0_probe"
      BY <3>1, <3>2 DEF Told, Coming, Probing
    <3>3. CASE hook # "L0_probe" /\ ~bound
      <4>1. need_reset_stack' = need_reset_stack /\ session_old' = session_old
        BY <2>6, <3>3 DEF Disconnect
      <4> QED
        BY <3>1, <3>3, <4>1 DEF Told, Coming
    <3>4. CASE hook # "L0_probe" /\ bound /\ ~probe_raced
      <4>1. doing_reset = 0
        BY <3>4 DEF Hooked, TypeOK, ResetTypes
      <4> QED
        BY <2>6, <3>1, <3>4, <4>1 DEF Told, Disconnect, DisconnectNotice
    <3> QED
      BY <3>1, <3>2, <3>3, <3>4 DEF Told, TypeOK, FlagTypes
  <2> QED
    BY <1>4, <2>1, <2>2, <2>3, <2>4, <2>5, <2>6 DEF HubNext
<1>5. CASE SleepBegin
  BY <1>5 DEF Told, Coming, SleepBegin, stackVars, ghostVars
<1>6. CASE SleepWork
  BY <1>6
    DEF Told, Coming, Sleeping, SleepWork, Suspend, stackVars, ghostVars,
      SuspendTraffic, SuspendWoble, SleepEnd, Resume, ResumeWake,
      ResumeSubmit, ResumeAssert, Thaw
<1>7. CASE LateNext
  BY <1>7
    DEF Told, Coming, LateNext, EarlySuspend, pinVars, stackVars, hubVars,
      ghostVars, EarlySuspendWoble, LateResume, LateWake, LateSubmit,
      LateAssert, SendAssertCmd, AssertFails, Toggle, ToggleRstPin
<1>8. CASE StackNext
  BY <1>8
    DEF Told, Coming, StackPlace, Opening, TypeOK, FlagTypes, StackNext,
      Open, stackVars, hubVars, OpenNext, OpenPowerCheck, ghostVars,
      OpenPowering, OpenSleepCmd, OpenUrbs, OpenDone, ReadHwErr, pcVars,
      WriteAssert, Close, CloseDeinit, CloseDone
<1>9. ASSUME NEW last \in BOOLEAN, BulkInDump(last)
     PROVE  Told'
  BY <1>9
    DEF Told, Coming, BulkInDump, ToggleRstPin, stackVars, pcVars, hubVars,
      ghostVars
<1> QED
  BY <1>1, <1>2, <1>3, <1>4, <1>5, <1>6, <1>7, <1>8, <1>9 DEF Next

(* No step disturbs an open.                                               *)
LEMMA OpenPhaseKept ==
  ASSUME ~EarlySuspendOS, IInv, WorkingBound, Awake, StackPlace,
      SessionBound, OpenPhase, Next
  PROVE  OpenPhase'
<1>1. CASE BusNext
  <2>1. CASE ChipResets
    BY <2>1 DEF OpenPhase, Sound, ChipResets, LeaveBus
  <2>2. CASE PulseLost
    BY <2>2
      DEF OpenPhase, Sound, Session, Quiet, PoweredOn, Listening, PulseLost,
        urbVars, chipVars, pmVars, pcVars, hubVars, ghostVars
  <2>3. CASE Unplug
    BY <2>3 DEF OpenPhase, Sound, Unplug, LeaveBus
  <2>4. CASE FwCrash
    BY <2>4 DEF OpenPhase, Sound, FwCrash
  <2> QED
    BY <1>1, <2>1, <2>2, <2>3, <2>4 DEF BusNext
<1>2. CASE TimerNext
  <2>1. CASE FwDumpTimo
    BY <2>1
      DEF OpenPhase, Sound, Session, Quiet, PoweredOn, Listening, FwDumpTimo,
        ToggleRstPin, urbVars, chipVars, pmVars, pcVars, hubVars, ghostVars
  <2>2. CASE ChipRstDiscTimo
    BY <2>2 DEF OpenPhase, Sound, ChipRstDiscTimo, chipVars
  <2>3. CASE ChipResetTimo
    BY <2>3
      DEF OpenPhase, Sound, Session, Quiet, PoweredOn, Listening,
        ChipResetTimo, urbVars, chipVars, pmVars, pcVars, hubVars, ghostVars
  <2> QED
    BY <1>2, <2>1, <2>2, <2>3 DEF TimerNext
<1>3. CASE OtherNext
  <2>1. CASE WifiReset
    BY <2>1
      DEF OpenPhase, Sound, Session, Quiet, PoweredOn, Listening, WifiReset,
        Toggle, ToggleRstPin, urbVars, chipVars, pmVars, pcVars, hubVars,
        ghostVars
  <2>2. CASE TriggerCoreDump
    BY <2>2
      DEF OpenPhase, IInv, Watched, Sound, Session, Opening, Quiet,
        PoweredOn, Listening, TriggerCoreDump, ToggleRstPin, urbVars,
        chipVars, pmVars, pcVars, hubVars, ghostVars
  <2>3. CASE DiagReset
    BY <2>3
      DEF OpenPhase, Sound, Session, Quiet, PoweredOn, Listening, DiagReset,
        ToggleRstPin, urbVars, chipVars, pmVars, pcVars, hubVars, ghostVars
  <2> QED
    BY <1>3, <2>1, <2>2, <2>3 DEF OtherNext
<1>4. CASE HubNext
  <2>1. CASE ProbeBegin
    BY <2>1
      DEF OpenPhase, IInv, Sleeping, SessionBound, Sound, Session,
        ProbeBegin, ghostVars
  <2>2. CASE ProbePatched
    BY <2>2 DEF OpenPhase, Sound, Session, ProbePatched, pinVars, ghostVars
  <2>3. CASE ProbeFails
    BY <2>3
      DEF OpenPhase, Sound, Session, ProbeFails, Toggle, ToggleRstPin,
        chipVars, ghostVars
  <2>4. CASE ProbeIface1
    BY <2>4
      DEF OpenPhase, IInv, Sleeping, SessionBound, Sound, Session,
        ProbeIface1, ghostVars
  <2>5. CASE ProbeEnd
    BY <2>5 DEF OpenPhase, IInv, Watched, Sound, Session, ProbeEnd
  <2>6. CASE Disconnect
    BY <2>6 DEF OpenPhase, Sound, Disconnect
  <2> QED
    BY <1>4, <2>1, <2>2, <2>3, <2>4, <2>5, <2>6 DEF HubNext
<1>5. CASE SleepBegin
  BY <1>5 DEF OpenPhase, Opening, SleepBegin, pcVars
<1>6. CASE SleepWork
  <2>1. CASE Suspend
    BY <2>1
      DEF OpenPhase, Sound, Session, Suspend, pinVars, chipVars, ghostVars
  <2>2. CASE SuspendTraffic
    BY <2>2
      DEF OpenPhase, Sound, Session, SuspendTraffic, pinVars, chipVars,
        ghostVars
  <2>3. CASE SuspendWoble
    BY <2>3
      DEF OpenPhase, IInv, Sound, Session, SuspendWoble, pinVars, ghostVars
  <2>4. CASE SleepEnd
    BY <2>4
      DEF OpenPhase, Sound, Session, SleepEnd, pinVars, chipVars, pcVars,
        ghostVars
  <2>5. CASE Resume
    BY <2>5
      DEF OpenPhase, Sound, Session, Resume, pinVars, chipVars, ghostVars
  <2>6. CASE ResumeWake
    BY <2>6
      DEF OpenPhase, IInv, Sound, Session, ResumeWake, pinVars, chipVars,
        ghostVars
  <2>7. CASE ResumeSubmit
    BY <2>7
      DEF OpenPhase, Sound, Session, ResumeSubmit, pinVars, chipVars,
        ghostVars
  <2>8. CASE ResumeAssert
    BY <2>8
      DEF OpenPhase, Sound, Session, ResumeAssert, SendAssertCmd,
        AssertFails, pinVars, Toggle, ToggleRstPin, ghostVars
  <2>9. CASE Thaw
    BY <2>9
      DEF OpenPhase, Sound, Session, Thaw, pinVars, chipVars, pcVars,
        ghostVars
  <2> QED
    BY <1>6, <2>1, <2>2, <2>3, <2>4, <2>5, <2>6, <2>7, <2>8, <2>9 DEF SleepWork
<1>7. CASE LateNext
  BY <1>7
    DEF IInv, NoLateThread, LateNext, EarlySuspend, EarlySuspendWoble,
      LateResume, LateWake, LateSubmit, LateAssert
<1>8. CASE StackNext
  <2>1. CASE Open
    <3> SUFFICES ASSUME Sound'
                 PROVE  /\ hub = "idle" /\ sleep = "no" /\ suspend_count = 0
                        /\ usb = "WORKING"
      BY <2>1 DEF Open, OpenPhase, pmVars, hubVars
    <3>1. sleep = "no" /\ usb = "WORKING" /\ bound /\ bus = "attached"
      BY <2>1 DEF Open, Running, WorkingBound, Sound, chipVars
    <3>2. suspend_count = 0
      BY <3>1 DEF IInv, Sleeping, Awake
    <3>3. hub = "idle"
      BY <3>1 DEF Awake, Sleeping, IInv, TypeOK, ThreadTypes, HubPcs, Probing
    <3> QED
      BY <3>1, <3>2, <3>3
  <2>2. CASE OpenPowerCheck
    BY <2>2
      DEF OpenPhase, Sound, Session, Opening, OpenPowerCheck, Powered,
        pinVars, chipVars, pmVars, hubVars, ghostVars
  <2>3. CASE OpenPowering
    BY <2>3
      DEF OpenPhase, IInv, Watched, Sound, Session, Opening, OpenPowering,
        Powered, pinVars, pmVars, hubVars, ghostVars
  <2>4. CASE OpenSleepCmd
    BY <2>4
      DEF OpenPhase, IInv, UrbsMarked, Sound, Session, Opening, Quiet,
        PoweredOn, OpenSleepCmd, StopTraffic, AfterStop, HciOk, HciAnswers,
        pinVars, chipVars, pmVars, hubVars, ghostVars
  <2>5. CASE OpenUrbs
    BY <2>5
      DEF OpenPhase, Sound, Session, Opening, Quiet, PoweredOn, Listening,
        OpenUrbs, SubmitUrbs, pinVars, chipVars, ghostVars
  <2>6. CASE OpenDone
    BY <2>6 DEF OpenPhase, Opening, OpenDone
  <2>7. CASE ReadHwErr
    BY <2>7 DEF OpenPhase, StackPlace, ReadHwErr, pcVars
  <2>8. CASE WriteAssert
    BY <2>8 DEF OpenPhase, IInv, WorkingBound, StackPlace, WriteAssert, pcVars
  <2>9. CASE Close
    BY <2>9 DEF OpenPhase, Opening, Close
  <2>10. CASE CloseDeinit
    BY <2>10 DEF OpenPhase, Opening, CloseDeinit
  <2>11. CASE CloseDone
    BY <2>11 DEF OpenPhase, Opening, CloseDone
  <2> QED
    BY <1>8, <2>1, <2>2, <2>3, <2>4, <2>5, <2>6, <2>7, <2>8, <2>9, <2>10,
        <2>11 DEF StackNext, OpenNext
<1>9. ASSUME NEW last \in BOOLEAN, BulkInDump(last)
     PROVE  OpenPhase'
  BY <1>9 DEF OpenPhase, IInv, Sound, BulkInDump, chipVars
<1> QED
  BY <1>1, <1>2, <1>3, <1>4, <1>5, <1>6, <1>7, <1>8, <1>9 DEF Next

(* No step disturbs what an open has brought about.                        *)
LEMMA OpenedPhaseKept ==
  ASSUME ~EarlySuspendOS, IInv, WorkingBound, StackPlace, SessionBound,
      OpenPhase, OpenedPhase, Next
  PROVE  OpenedPhase'
<1>1. CASE BusNext
  <2>1. CASE ChipResets
    BY <2>1 DEF OpenedPhase, Sound, ChipResets, LeaveBus
  <2>2. CASE PulseLost
    BY <2>2
      DEF OpenedPhase, Sound, Session, Quiet, PoweredOn, Listening,
        PulseLost, stackVars, urbVars, chipVars, pmVars, pcVars, hubVars,
        ghostVars
  <2>3. CASE Unplug
    BY <2>3 DEF OpenedPhase, Sound, Unplug, LeaveBus
  <2>4. CASE FwCrash
    BY <2>4 DEF OpenedPhase, Sound, FwCrash
  <2> QED
    BY <1>1, <2>1, <2>2, <2>3, <2>4 DEF BusNext
<1>2. CASE TimerNext
  <2>1. CASE FwDumpTimo
    BY <2>1
      DEF OpenedPhase, Sound, Session, Quiet, PoweredOn, Listening,
        FwDumpTimo, ToggleRstPin, stackVars, urbVars, chipVars, pmVars,
        pcVars, hubVars, ghostVars
  <2>2. CASE ChipRstDiscTimo
    BY <2>2 DEF OpenedPhase, Sound, ChipRstDiscTimo, chipVars
  <2>3. CASE ChipResetTimo
    BY <2>3
      DEF OpenedPhase, Sound, Session, Quiet, PoweredOn, Listening,
        ChipResetTimo, stackVars, urbVars, chipVars, pmVars, pcVars,
        hubVars, ghostVars
  <2> QED
    BY <1>2, <2>1, <2>2, <2>3 DEF TimerNext
<1>3. CASE OtherNext
  <2>1. CASE WifiReset
    BY <2>1
      DEF OpenedPhase, Sound, Session, Quiet, PoweredOn, Listening,
        WifiReset, Toggle, ToggleRstPin, stackVars, urbVars, chipVars,
        pmVars, pcVars, hubVars, ghostVars
  <2>2. CASE TriggerCoreDump
    BY <2>2
      DEF OpenedPhase, IInv, Sleeping, Sound, Session, Opening, Quiet,
        PoweredOn, Listening, TriggerCoreDump, ToggleRstPin, stackVars,
        urbVars, chipVars, pmVars, pcVars, hubVars, ghostVars
  <2>3. CASE DiagReset
    BY <2>3
      DEF OpenedPhase, Sound, Session, Quiet, PoweredOn, Listening,
        DiagReset, ToggleRstPin, stackVars, urbVars, chipVars, pmVars,
        pcVars, hubVars, ghostVars
  <2> QED
    BY <1>3, <2>1, <2>2, <2>3 DEF OtherNext
<1>4. CASE HubNext
  <2>1. CASE ProbeBegin
    BY <2>1 DEF OpenedPhase, ProbeBegin
  <2>2. CASE ProbePatched
    BY <2>2 DEF OpenedPhase, ProbePatched
  <2>3. CASE ProbeFails
    BY <2>3 DEF OpenedPhase, ProbeFails
  <2>4. CASE ProbeIface1
    BY <2>4
      DEF OpenedPhase, IInv, Sleeping, SessionBound, Sound, Session,
        ProbeIface1, stackVars, ghostVars
  <2>5. CASE ProbeEnd
    BY <2>5
      DEF OpenedPhase, IInv, Sleeping, SessionBound, Sound, Session,
        Probing, ProbeEnd
  <2>6. CASE Disconnect
    BY <2>6 DEF OpenedPhase, Sound, Disconnect
  <2> QED
    BY <1>4, <2>1, <2>2, <2>3, <2>4, <2>5, <2>6 DEF HubNext
<1>5. CASE SleepBegin
  BY <1>5
    DEF OpenedPhase, Sound, Session, Quiet, PoweredOn, Listening, SleepBegin,
      pinVars, stackVars, urbVars, chipVars, pcVars, hubVars, ghostVars
<1>6. CASE SleepWork
  <2>1. CASE Suspend
    BY <2>1
      DEF OpenedPhase, IInv, Sound, Session, Quiet, PoweredOn, Listening,
        TypeOK, SleepTypes, Suspend, pinVars, stackVars, urbVars, chipVars,
        ghostVars
  <2>2. CASE SuspendTraffic
    BY <2>2
      DEF OpenedPhase, Sound, Session, Quiet, PoweredOn, Listening,
        SuspendTraffic, StopTraffic, AfterStop, pinVars, stackVars,
        chipVars, pmVars, ghostVars
  <2>3. CASE SuspendWoble
    <3> SUFFICES ASSUME Sound, fops = "OPENED"
                 PROVE  OpenedPhase'
      BY <2>3 DEF SuspendWoble, OpenedPhase, Sound, Session, stackVars, ghostVars, pinVars
    <3>1. Quiet /\ PoweredOn /\ suspend_count > 0 /\ usb = "SUSPEND"
      BY <2>3 DEF OpenedPhase, SuspendWoble
    <3>2. hub' = "idle" /\ usb' = usb /\ suspend_count' = suspend_count
      BY <2>3 DEF SuspendWoble, pmVars
    <3>3. Quiet'
      BY <2>3, <3>1 DEF SuspendWoble, EnterWoble, StopTraffic, AfterStop, Quiet, urbVars
    <3>4. dongle' = "ERROR" \/ (dongle' = "WOBLE" /\ chip_on')
      BY <2>3, <3>1 DEF SuspendWoble, EnterWoble, PoweredOn
    <3> QED
      BY <3>1, <3>2, <3>3, <3>4 DEF OpenedPhase, IInv, TypeOK, SleepTypes
  <2>4. CASE SleepEnd
    BY <2>4
      DEF OpenedPhase, Sound, Session, Quiet, PoweredOn, Listening, SleepEnd,
        pinVars, stackVars, urbVars, chipVars, pcVars, hubVars, ghostVars
  <2>5. CASE Resume
    BY <2>5
      DEF OpenedPhase, IInv, Sleeping, Sound, Session, Quiet, Resume,
        pinVars, stackVars, urbVars, chipVars, ghostVars
  <2>6. CASE ResumeWake
    BY <2>6
      DEF OpenedPhase, Sound, Session, Quiet, PoweredOn, ResumeWake,
        WakeUpOk, StopTraffic, AfterStop, WakeUpFails, pinVars, stackVars,
        chipVars, pmVars, ghostVars
  <2>7. CASE ResumeSubmit
    <3> SUFFICES ASSUME Sound, fops = "OPENED"
                 PROVE  OpenedPhase'
      BY <2>7 DEF ResumeSubmit, OpenedPhase, Sound, Session, stackVars, ghostVars, pinVars, chipVars
    <3>1. Quiet /\ PoweredOn /\ suspend_count = 0 /\ usb = "WORKING"
      BY <2>7 DEF OpenedPhase, ResumeSubmit
    <3>2. PoweredOn' /\ suspend_count' = 0
      BY <2>7, <3>1 DEF ResumeSubmit, pmVars, chipVars, PoweredOn
    <3>3. CASE SubmitUrbs(Pipes) /\ usb' = "WORKING" /\ hub' = "idle"
      <4>1. submitted' = Pipes /\ inflight' = Pipes
        BY <3>1, <3>3 DEF SubmitUrbs, Quiet
      <4> QED
        BY <3>2, <3>3, <4>1 DEF OpenedPhase, Listening
    <3>4. CASE hub' = "assert" /\ UNCHANGED usb
      BY <3>1, <3>2, <3>4 DEF OpenedPhase
    <3> QED
      BY <2>7, <3>3, <3>4 DEF ResumeSubmit
  <2>8. CASE ResumeAssert
    BY <2>8
      DEF OpenedPhase, IInv, Watched, Sleeping, Sound, Session,
        ResumeAssert, SendAssertCmd, DumpStates, pinVars, AssertFails, Toggle,
        ToggleRstPin, stackVars, ghostVars
  <2>9. CASE Thaw
    BY <2>9
      DEF OpenedPhase, Sound, Session, Quiet, PoweredOn, Listening, Thaw,
        pinVars, stackVars, urbVars, chipVars, pcVars, hubVars, ghostVars
  <2> QED
    BY <1>6, <2>1, <2>2, <2>3, <2>4, <2>5, <2>6, <2>7, <2>8, <2>9 DEF SleepWork
<1>7. CASE LateNext
  BY <1>7
    DEF IInv, NoLateThread, LateNext, EarlySuspend, EarlySuspendWoble,
      LateResume, LateWake, LateSubmit, LateAssert
<1>8. CASE StackNext
  <2>1. CASE Open
    BY <2>1 DEF OpenedPhase, Open, stackVars
  <2>2. CASE OpenPowerCheck
    BY <2>2
      DEF OpenedPhase, IInv, StackPlace, SessionBound, Opening,
        OpenPowerCheck, stackVars
  <2>3. CASE OpenPowering
    BY <2>3
      DEF OpenedPhase, IInv, StackPlace, SessionBound, Opening,
        OpenPowering, stackVars
  <2>4. CASE OpenSleepCmd
    BY <2>4 DEF OpenedPhase, StackPlace, Opening, OpenSleepCmd, stackVars
  <2>5. CASE OpenUrbs
    BY <2>5 DEF OpenedPhase, IInv, StackPlace, Opening, OpenUrbs, stackVars
  <2>6. CASE OpenDone
    BY <2>6
      DEF OpenedPhase, OpenPhase, Sound, Session, Opening, PoweredOn,
        Listening, OpenDone, urbVars, chipVars, pmVars, hubVars
  <2>7. CASE ReadHwErr
    BY <2>7
      DEF OpenedPhase, Sound, Session, Quiet, PoweredOn, Listening,
        ReadHwErr, urbVars, chipVars, pmVars, pcVars, hubVars, ghostVars
  <2>8. CASE WriteAssert
    BY <2>8 DEF OpenedPhase, Sound, WriteAssert
  <2>9. CASE Close
    BY <2>9 DEF OpenedPhase, Close
  <2>10. CASE CloseDeinit
    BY <2>10 DEF OpenedPhase, StackPlace, CloseDeinit, stackVars
  <2>11. CASE CloseDone
    BY <2>11 DEF OpenedPhase, CloseDone
  <2> QED
    BY <1>8, <2>1, <2>2, <2>3, <2>4, <2>5, <2>6, <2>7, <2>8, <2>9, <2>10,
        <2>11 DEF StackNext, OpenNext
<1>9. ASSUME NEW last \in BOOLEAN, BulkInDump(last)
     PROVE  OpenedPhase'
  BY <1>9 DEF OpenedPhase, IInv, Sound, BulkInDump, chipVars
<1> QED
  BY <1>1, <1>2, <1>3, <1>4, <1>5, <1>6, <1>7, <1>8, <1>9 DEF Next

-----------------------------------------------------------------------------
(* The first state satisfies both invariants.                              *)
LEMMA InitSession == Init => SessionInv /\ NoticeInv
BY DEF Init, SessionInv, NoticeInv, WorkingBound, Awake, StackPlace, SessionBound,
     OpenPhase, OpenedPhase, Hooked, Told, Sound, Session, Opening

(* Every step keeps the invariant of the sessions.                         *)
LEMMA NextSession ==
  ASSUME ~EarlySuspendOS, IInv, SessionInv, [Next]_vars
  PROVE  SessionInv'
<1>1. CASE UNCHANGED vars
  BY <1>1
    DEF vars, pinVars, stackVars, urbVars, chipVars, pmVars, hubVars, lateVars,
      pcVars, ghostVars, SessionInv, WorkingBound, Awake, StackPlace,
      SessionBound, OpenPhase, OpenedPhase, Sound, Session, Opening, Quiet,
      PoweredOn, Listening
<1>2. CASE Next
  <2>1. WorkingBound' /\ Awake' /\ StackPlace' /\ SessionBound'
    BY <1>2, WorkingBoundKept, AwakeKept, StackPlaceKept, SessionBoundKept
      DEF SessionInv, IInv
  <2>2. OpenPhase' /\ OpenedPhase'
    BY <1>2, OpenPhaseKept, OpenedPhaseKept DEF SessionInv
  <2> QED
    BY <2>1, <2>2 DEF SessionInv
<1> QED
  BY <1>1, <1>2

(* Every step keeps the invariant of the notice.                           *)
LEMMA NextNotice ==
  ASSUME IInv, NoticeInv, [Next]_vars
  PROVE  NoticeInv'
<1>1. CASE UNCHANGED vars
  BY <1>1
    DEF vars, pinVars, stackVars, hubVars, lateVars, pcVars, ghostVars,
      NoticeInv, StackPlace, Hooked, Told, Coming
<1>2. CASE Next
  BY <1>2, StackPlaceKept, HookedKept, ToldKept DEF NoticeInv, IInv
<1> QED
  BY <1>1, <1>2

(* What an open promises is still so whenever the stack may use the device *)
(* in the same session, however sleeps, timers, crashes and the resets of  *)
(* others interleave.                                                      *)
THEOREM ServesOn ==
  ASSUME ~EarlySuspendOS PROVE Spec => []Serving
<1>1. Init => SessionInv
  BY InitSession
<1>2. IInv /\ SessionInv /\ [Next]_vars => SessionInv'
  BY NextSession
<1>3. IInv /\ SessionInv => Serving
  <2> SUFFICES ASSUME IInv, SessionInv, Settled, usb = "WORKING", fops = "OPENED",
                      ~session_old
               PROVE  inflight = Pipes /\ chip_on /\ dongle = "POWER_ON"
    BY DEF Serving
  <2>1. Sound /\ hub = "idle"
    BY DEF Settled, Sound, Session
  <2>2. suspend_count = 0
    BY <2>1 DEF SessionInv, OpenedPhase, IInv, TypeOK, SleepTypes
  <2> QED
    BY <2>1, <2>2 DEF SessionInv, OpenedPhase, Listening, PoweredOn
<1> QED
  BY <1>1, <1>2, <1>3, Invariance, PTL DEF Spec

(* A stack that keeps the device open over a disconnect has the error to   *)
(* read, or has read it, when the driver works again, but for the two      *)
(* races StackTold names.                                                  *)
THEOREM StackIsTold ==
  ASSUME ~EarlySuspendOS PROVE Spec => []StackTold
<1>1. Init => NoticeInv
  BY InitSession
<1>2. IInv /\ NoticeInv /\ [Next]_vars => NoticeInv'
  BY NextNotice
<1>3. NoticeInv /\ WorkingBound => StackTold
  BY DEF NoticeInv, Told, Coming, WorkingBound, StackTold
<1>4. Spec => []WorkingBound
  BY WorkingIsBound
<1> QED
  BY <1>1, <1>2, <1>3, <1>4, Invariance, PTL DEF Spec

-----------------------------------------------------------------------------
(* What keeps a chip on the bus from being left to itself.                 *)

(* The stack is in no call while the system sleeps, and only in a close    *)
(* when it wakes to a chip that was not resumed.                           *)
StackAwake ==
  /\ stack # "idle" => sleep = "no"
  /\ stack \notin { "idle", "closing" } => usb \notin { "SUSPEND", "RESUME" }

(* The states of a bound device.                                           *)
BoundStates == bound => usb \in { "WORKING", "SUSPEND", "RESUME" } \cup DumpStates

(* A sleeping chip has no URB, from the stop of its traffic to the resume  *)
(* that submits them; a resume that fails has not submitted the bulk one.  *)
Silent ==
  /\ hub \in { "suspend", "woble" } => suspend_count > 0
  /\ hub \in { "wake", "submit", "assert" } => suspend_count = 0
  /\ bound /\ bus = "attached" /\ sleep # "no" =>
       /\ suspend_count > 0 /\ hub # "suspend" => Quiet
       /\ hub \in { "wake", "submit" } => Quiet
       /\ hub = "assert" => "bulk" \notin submitted

(* A resume that has failed has a reset under way, or the crash it asked   *)
(* for and a URB to hear of it.                                            *)
Helped ==
  bound /\ bus = "attached" /\ suspend_count = 0 /\ hub = "idle"
  /\ usb \in { "SUSPEND", "RESUME" } =>
    doing_reset = 1 \/ (asserted /\ "bulk" \in inflight)

(* With a reliable pin, the pulse of a claimed reset and that of a failed  *)
(* probe stay until the chip drops off the bus.                            *)
PinWorks ==
  PinReliable /\ bus = "attached" =>
    /\ doing_reset = 1 => pulse
    /\ ~bound /\ hub \in { "idle", "iface1" } => pulse

StirInv == Awake /\ StackAwake /\ BoundStates /\ Silent /\ Helped /\ PinWorks

(* The stack begins no call in sleep, and the system does not sleep in a   *)
(* call.                                                                   *)
LEMMA StackAwakeKept ==
  ASSUME ~EarlySuspendOS, TypeOK, Sleeping, NoLateThread, Awake, StackAwake, Next
  PROVE  StackAwake'
<1>1. CASE BusNext
  BY <1>1
    DEF StackAwake, BusNext, ChipResets, PulseLost, Unplug, FwCrash, pmVars,
      pcVars
<1>2. CASE TimerNext
  BY <1>2
    DEF StackAwake, TimerNext, FwDumpTimo, ChipRstDiscTimo, ChipResetTimo,
      pmVars, pcVars
<1>3. CASE OtherNext
  BY <1>3
    DEF StackAwake, OtherNext, WifiReset, TriggerCoreDump, DiagReset, pmVars,
      pcVars
<1>4. CASE HubNext
  BY <1>4
    DEF StackAwake, HubNext, ProbeBegin, ProbeEntry, ProbePatched, ProbeFails,
      ProbeIface1, ProbeEnd, ProbeExit, Disconnect, DisconnectFrom, pmVars,
      pcVars
<1>5. CASE SleepBegin
  BY <1>5 DEF StackAwake, SleepBegin, pcVars
<1>6. CASE SleepWork
  BY <1>6
    DEF StackAwake, Awake, SleepWork, Suspend, SuspendTraffic, SuspendWoble,
      SleepEnd, Resume, ResumeWake, WakeUpOk, WakeUpFails, ResumeSubmit,
      ResumeAssert, Thaw, pmVars, pcVars
<1>7. CASE LateNext
  BY <1>7
    DEF NoLateThread, LateNext, EarlySuspend, EarlySuspendWoble, LateResume,
      LateWake, LateSubmit, LateAssert
<1>8. CASE StackNext
  BY <1>8
    DEF StackAwake, Running, StackNext, OpenNext, Open, OpenPowerCheck,
      OpenPowering, OpenSleepCmd, OpenUrbs, OpenDone, ReadHwErr, WriteAssert,
      Close, CloseDeinit, CloseDone, Powered, pmVars, pcVars
<1>9. ASSUME NEW last \in BOOLEAN, BulkInDump(last)
     PROVE  StackAwake'
  BY <1>9 DEF StackAwake, BulkInDump, DumpEntry, pmVars, pcVars
<1> QED
  BY <1>1, <1>2, <1>3, <1>4, <1>5, <1>6, <1>7, <1>8, <1>9 DEF Next

(* A bound device stays in its states.                                     *)
LEMMA BoundStatesKept ==
  ASSUME ~EarlySuspendOS, NoLateThread, Sleeping, BoundStates, Next
  PROVE  BoundStates'
<1>1. CASE BusNext \/ TimerNext \/ OtherNext \/ SleepBegin
  BY <1>1
    DEF BoundStates, BusNext, ChipResets, PulseLost, Unplug, FwCrash,
      TimerNext, FwDumpTimo, ChipRstDiscTimo, ChipResetTimo, OtherNext,
      WifiReset, TriggerCoreDump, DiagReset, SleepBegin
<1>2. CASE HubNext
  BY <1>2
    DEF BoundStates, Sleeping, Probing, DumpStates, HubNext, ProbeBegin,
      ProbePatched, ProbeFails, ProbeIface1, ProbeEnd, ProbeExit, Disconnect
<1>3. CASE SleepWork
  BY <1>3
    DEF BoundStates, SleepWork, Suspend, SuspendTraffic, SuspendWoble,
      SleepEnd, Resume, ResumeWake, WakeUpOk, WakeUpFails, ResumeSubmit,
      ResumeAssert, Thaw
<1>4. CASE LateNext
  BY <1>4
    DEF NoLateThread, LateNext, EarlySuspend, EarlySuspendWoble, LateResume,
      LateWake, LateSubmit, LateAssert
<1>5. CASE StackNext
  BY <1>5
    DEF BoundStates, StackNext, OpenNext, Open, OpenPowerCheck, OpenPowering,
      OpenSleepCmd, OpenUrbs, OpenDone, ReadHwErr, WriteAssert, Close,
      CloseDeinit, CloseDone
<1>6. ASSUME NEW last \in BOOLEAN, BulkInDump(last)
     PROVE  BoundStates'
  BY <1>6 DEF BoundStates, BulkInDump, DumpEntry, DumpStates
<1> QED
  BY <1>1, <1>2, <1>3, <1>4, <1>5, <1>6 DEF Next

(* Nothing submits a URB to a sleeping chip.                               *)
LEMMA SilentKept ==
  ASSUME ~EarlySuspendOS, IInv, Awake, StackAwake, Silent, Next
  PROVE  Silent'
<1>1. CASE BusNext
  BY <1>1
    DEF Silent, Quiet, BusNext, ChipResets, LeaveBus, PulseLost, Unplug,
      FwCrash, urbVars, chipVars, pmVars, pcVars, hubVars
<1>2. CASE TimerNext
  BY <1>2
    DEF Silent, Quiet, TimerNext, FwDumpTimo, ChipRstDiscTimo, ChipResetTimo,
      urbVars, chipVars, pmVars, pcVars, hubVars
<1>3. CASE OtherNext
  BY <1>3
    DEF Silent, Quiet, OtherNext, WifiReset, TriggerCoreDump, DiagReset,
      urbVars, chipVars, pmVars, pcVars, hubVars
<1>4. CASE HubNext
  BY <1>4
    DEF Silent, IInv, Sleeping, Probing, HubNext, ProbeBegin, ProbePatched,
      ProbeFails, ProbeIface1, ProbeEnd, Disconnect, pmVars, pcVars, hubVars
<1>5. CASE SleepBegin
  BY <1>5
    DEF Silent, Quiet, IInv, Sleeping, Awake, TypeOK, SleepTypes, SleepBegin,
      chipVars, urbVars, pcVars, hubVars
<1>6. CASE SleepWork
  <2>1. CASE Suspend
    BY <2>1
      DEF Silent, Quiet, IInv, TypeOK, SleepTypes, Suspend, urbVars, chipVars
  <2>2. CASE SuspendTraffic
    <3>1. Quiet'
      BY <2>2
        DEF SuspendTraffic, StopTraffic, AfterStop, IInv, UrbsMarked, Quiet
    <3> QED
      BY <2>2, <3>1 DEF SuspendTraffic, Silent, pmVars, chipVars
  <2>3. CASE SuspendWoble
    <3> SUFFICES ASSUME bound, bus = "attached", sleep # "no"
                 PROVE  Quiet'
      BY <2>3 DEF SuspendWoble, Silent, pmVars
    <3>1. Quiet
      BY <2>3 DEF SuspendWoble, Silent
    <3> QED
      BY <2>3, <3>1
        DEF SuspendWoble, EnterWoble, StopTraffic, AfterStop, Quiet, urbVars
  <2>4. CASE SleepEnd
    BY <2>4
      DEF Silent, Quiet, SleepEnd, urbVars, chipVars, pcVars, hubVars
  <2>5. CASE Resume
    BY <2>5
      DEF Silent, Quiet, IInv, Sleeping, TypeOK, SleepTypes, Resume, urbVars,
        chipVars
  <2>6. CASE ResumeWake
    <3> SUFFICES ASSUME bound, bus = "attached", sleep # "no"
                 PROVE  Quiet'
      BY <2>6 DEF ResumeWake, Silent, Quiet, pmVars, chipVars
    <3>1. Quiet
      BY <2>6 DEF ResumeWake, Silent
    <3> QED
      BY <2>6, <3>1
        DEF ResumeWake, WakeUpOk, WakeUpFails, StopTraffic, AfterStop, Quiet,
          urbVars
  <2>7. CASE ResumeSubmit
    <3> SUFFICES ASSUME bound, bus = "attached", sleep # "no"
                 PROVE  Silent'
      BY <2>7 DEF ResumeSubmit, Silent, pmVars, chipVars
    <3>1. Quiet /\ sleep' = sleep /\ suspend_count' = suspend_count
      BY <2>7 DEF ResumeSubmit, Silent, pmVars
    <3>2. suspend_count = 0
      BY <2>7 DEF ResumeSubmit, Silent
    <3>3. CASE hub' = "idle"
      BY <3>1, <3>2, <3>3 DEF Silent
    <3>4. CASE SubmitFails(Pipes) /\ hub' = "assert"
      <4>1. "bulk" \notin submitted'
        BY <3>1, <3>4 DEF SubmitFails, Pipes, Quiet
      <4> QED
        BY <3>1, <3>2, <3>4, <4>1 DEF Silent
    <3> QED
      BY <2>7, <3>3, <3>4 DEF ResumeSubmit
  <2>8. CASE ResumeAssert
    BY <2>8 DEF ResumeAssert, Silent, pmVars
  <2>9. CASE Thaw
    BY <2>9 DEF Silent, Thaw, pcVars, hubVars, pmVars
  <2> QED
    BY <1>6, <2>1, <2>2, <2>3, <2>4, <2>5, <2>6, <2>7, <2>8, <2>9 DEF SleepWork
<1>7. CASE LateNext
  BY <1>7
    DEF IInv, NoLateThread, LateNext, EarlySuspend, EarlySuspendWoble,
      LateResume, LateWake, LateSubmit, LateAssert
<1>8. CASE StackNext
  <2>1. sleep' = sleep /\ suspend_count' = suspend_count /\ hub' = hub
        /\ bus' = bus /\ bound' = bound
    BY <1>8
      DEF StackNext, OpenNext, Open, OpenPowerCheck, OpenPowering,
        OpenSleepCmd, OpenUrbs, OpenDone, ReadHwErr, WriteAssert, Close,
        CloseDeinit, CloseDone, pmVars, pcVars, hubVars, chipVars
  <2>2. sleep = "no"
    BY <1>8
      DEF StackAwake, Running, StackNext, OpenNext, Open, OpenPowerCheck,
        OpenPowering, OpenSleepCmd, OpenUrbs, OpenDone, ReadHwErr,
        WriteAssert, Close, CloseDeinit, CloseDone
  <2> QED
    BY <2>1, <2>2 DEF Silent
<1>9. ASSUME NEW last \in BOOLEAN, BulkInDump(last)
     PROVE  Silent'
  BY <1>9
    DEF Silent, Quiet, BulkInDump, urbVars, chipVars, pmVars, pcVars, hubVars
<1> QED
  BY <1>1, <1>2, <1>3, <1>4, <1>5, <1>6, <1>7, <1>8, <1>9 DEF Next

(* A failed resume is not left: the reset it has claimed is given up only  *)
(* with the chip off the bus, its URB only with the crash or by a handler  *)
(* that runs in another state.                                             *)
LEMMA HelpedKept ==
  ASSUME ~EarlySuspendOS, IInv, Awake, StackAwake, BoundStates, Silent, Helped,
         Next
  PROVE  Helped'
<1>1. CASE BusNext
  BY <1>1
    DEF Helped, BusNext, ChipResets, LeaveBus, PulseLost, Unplug, FwCrash,
      pinVars, urbVars, chipVars, pmVars, pcVars, hubVars
<1>2. CASE TimerNext
  <2>1. CASE FwDumpTimo
    BY <2>1
      DEF Helped, FwDumpTimo, ToggleRstPin, urbVars, chipVars, pmVars, pcVars,
        hubVars
  <2>2. CASE ChipRstDiscTimo
    BY <2>2 DEF Helped, ChipRstDiscTimo, chipVars
  <2>3. CASE ChipResetTimo
    BY <2>3
      DEF Helped, ChipResetTimo, urbVars, chipVars, pmVars, pcVars, hubVars
  <2> QED
    BY <1>2, <2>1, <2>2, <2>3 DEF TimerNext
<1>3. CASE OtherNext
  BY <1>3
    DEF Helped, OtherNext, WifiReset, TriggerCoreDump, DiagReset, Toggle,
      ToggleRstPin, urbVars, chipVars, pmVars, pcVars, hubVars
<1>4. CASE HubNext
  BY <1>4
    DEF Helped, IInv, Sleeping, Probing, BoundStates, DumpStates, HubNext,
      ProbeBegin, ProbePatched, ProbeFails, ProbeIface1, ProbeEnd, ProbeExit,
      Disconnect
<1>5. CASE SleepBegin
  BY <1>5
    DEF Helped, SleepBegin, pinVars, urbVars, chipVars, pcVars, hubVars
<1>6. CASE SleepWork
  <2>1. CASE Suspend
    BY <2>1 DEF Helped, IInv, TypeOK, SleepTypes, Suspend
  <2>2. CASE SuspendTraffic \/ SuspendWoble
    BY <2>2 DEF Helped, Silent, SuspendTraffic, SuspendWoble, pmVars
  <2>3. CASE SleepEnd \/ Thaw
    BY <2>3
      DEF Helped, SleepEnd, Thaw, pinVars, urbVars, chipVars, pcVars, hubVars
  <2>4. CASE Resume
    BY <2>4 DEF Helped, IInv, Sleeping, TypeOK, SleepTypes, Resume
  <2>5. CASE ResumeWake
    BY <2>5 DEF Helped, ResumeWake
  <2>6. CASE ResumeSubmit
    BY <2>6 DEF Helped, ResumeSubmit
  <2>7. CASE ResumeAssert
    <3> SUFFICES ASSUME bound, bus = "attached", usb \in { "SUSPEND", "RESUME" }
                 PROVE  doing_reset' = 1 \/ (asserted' /\ "bulk" \in inflight')
      BY <2>7 DEF ResumeAssert, Helped
    <3>1. "bulk" \notin submitted
      BY <2>7 DEF ResumeAssert, Silent, Awake
    <3>2. usb \notin DumpStates
      BY DEF DumpStates
    <3>3. "diag" \in timers => doing_reset = 1
      BY DEF IInv, Watched
    <3>4. CASE AssertFails
      BY <3>3, <3>4
        DEF AssertFails, Toggle, ToggleRstPin, IInv, TypeOK, ResetTypes
    <3>5. CASE ~AssertFails
      BY <2>7, <3>1, <3>2, <3>5 DEF ResumeAssert, SendAssertCmd
    <3> QED
      BY <3>4, <3>5
  <2> QED
    BY <1>6, <2>1, <2>2, <2>3, <2>4, <2>5, <2>6, <2>7 DEF SleepWork
<1>7. CASE LateNext
  BY <1>7
    DEF IInv, NoLateThread, LateNext, EarlySuspend, EarlySuspendWoble,
      LateResume, LateWake, LateSubmit, LateAssert
<1>8. CASE StackNext
  <2>1. CASE OpenSleepCmd \/ OpenUrbs \/ OpenPowerCheck \/ OpenPowering
             \/ CloseDeinit
    <3>1. usb \notin { "SUSPEND", "RESUME" } /\ usb' = usb
      BY <2>1
        DEF StackAwake, OpenSleepCmd, OpenUrbs, OpenPowerCheck, OpenPowering,
          CloseDeinit
    <3> QED
      BY <3>1 DEF Helped
  <2>2. CASE Open \/ OpenDone \/ ReadHwErr \/ WriteAssert \/ Close
             \/ CloseDone
    BY <2>2
      DEF Helped, Open, OpenDone, ReadHwErr, WriteAssert, Close, CloseDone,
        pinVars, urbVars, chipVars, pmVars, pcVars, hubVars
  <2> QED
    BY <1>8, <2>1, <2>2 DEF StackNext, OpenNext
<1>9. ASSUME NEW last \in BOOLEAN, BulkInDump(last)
     PROVE  Helped'
  <2>1. CASE DumpBegun(usb)
    BY <1>9, <2>1 DEF Helped, BulkInDump, DumpBegun
  <2>2. CASE ~DumpBegun(usb)
    BY <1>9, <2>2 DEF Helped, BulkInDump, DumpEntry
  <2> QED
    BY <2>1, <2>2
<1> QED
  BY <1>1, <1>2, <1>3, <1>4, <1>5, <1>6, <1>7, <1>8, <1>9 DEF Next

(* Only the chip takes back a pulse on a reliable pin, and then it leaves  *)
(* the bus; a reset that is claimed on the bus pulses.                     *)
LEMMA PinWorksKept ==
  ASSUME IInv, PinWorks, Next
  PROVE  PinWorks'
<1>1. CASE BusNext
  BY <1>1
    DEF PinWorks, BusNext, ChipResets, LeaveBus, PulseLost, Unplug, FwCrash,
      pinVars, chipVars, pcVars, hubVars
<1>2. CASE TimerNext
  BY <1>2
    DEF PinWorks, TimerNext, FwDumpTimo, ToggleRstPin, ChipRstDiscTimo,
      ChipResetTimo, chipVars, pcVars, hubVars
<1>3. CASE OtherNext
  BY <1>3
    DEF PinWorks, OtherNext, WifiReset, TriggerCoreDump, DiagReset, Toggle,
      ToggleRstPin, chipVars, pcVars, hubVars
<1>4. CASE HubNext
  <2>1. CASE ProbeBegin
    BY <2>1 DEF PinWorks, ProbeBegin, ResetOver
  <2>2. CASE ProbePatched
    BY <2>2 DEF PinWorks, ProbePatched, pinVars
  <2>3. CASE ProbeFails
    <3> SUFFICES ASSUME PinReliable, bus = "attached" PROVE pulse'
      BY <2>3 DEF ProbeFails, PinWorks, chipVars
    <3>1. "diag" \in timers => doing_reset = 1
      BY <2>3 DEF ProbeFails, IInv, Watched, Probing
    <3>2. CASE doing_reset = 1
      BY <2>3, <3>2 DEF PinWorks, ProbeFails, Toggle, ToggleRstPin
    <3>3. CASE doing_reset # 1
      <4>1. pulse' = (bus = "attached")
        BY <2>3, <3>1, <3>3 DEF ProbeFails, Toggle, ToggleRstPin
      <4> QED
        BY <4>1
    <3> QED
      BY <3>2, <3>3
  <2>4. CASE ProbeIface1
    BY <2>4
      DEF PinWorks, IInv, Sleeping, ProbeIface1, ResetOver, chipVars
  <2>5. CASE ProbeEnd
    BY <2>5 DEF PinWorks, ProbeEnd
  <2>6. CASE Disconnect
    BY <2>6 DEF PinWorks, Disconnect
  <2> QED
    BY <1>4, <2>1, <2>2, <2>3, <2>4, <2>5, <2>6 DEF HubNext
<1>5. CASE SleepBegin
  BY <1>5 DEF PinWorks, SleepBegin, pinVars, chipVars, pcVars, hubVars
<1>6. CASE SleepWork
  BY <1>6
    DEF PinWorks, IInv, Sleeping, SleepWork, Suspend, SuspendTraffic,
      SuspendWoble, SleepEnd, Resume, ResumeWake, ResumeSubmit, ResumeAssert,
      SendAssertCmd, AssertFails, Toggle, ToggleRstPin, Thaw, pinVars,
      chipVars, pcVars, hubVars
<1>7. CASE LateNext
  BY <1>7
    DEF PinWorks, LateNext, EarlySuspend, EarlySuspendWoble, LateResume,
      LateWake, LateSubmit, LateAssert, SendAssertCmd, AssertFails, Toggle,
      ToggleRstPin, pinVars, chipVars, hubVars
<1>8. CASE StackNext
  BY <1>8
    DEF PinWorks, StackNext, OpenNext, Open, OpenPowerCheck, OpenPowering,
      OpenSleepCmd, OpenUrbs, OpenDone, ReadHwErr, WriteAssert, Close,
      CloseDeinit, CloseDone, Powered, Toggle, ToggleRstPin, pinVars,
      chipVars, pcVars, hubVars
<1>9. ASSUME NEW last \in BOOLEAN, BulkInDump(last)
     PROVE  PinWorks'
  BY <1>9 DEF PinWorks, BulkInDump, ToggleRstPin, chipVars, pcVars, hubVars
<1> QED
  BY <1>1, <1>2, <1>3, <1>4, <1>5, <1>6, <1>7, <1>8, <1>9 DEF Next

(* Every step keeps the invariant.                                         *)
LEMMA NextStir ==
  ASSUME ~EarlySuspendOS, IInv, StirInv, [Next]_vars
  PROVE  StirInv'
<1>1. CASE UNCHANGED vars
  BY <1>1
    DEF vars, pinVars, urbVars, chipVars, pmVars, hubVars, lateVars, pcVars,
      StirInv, Awake, StackAwake, BoundStates, Silent, Quiet, Helped, PinWorks
<1>2. CASE Next
  <2>1. Awake' /\ StackAwake' /\ BoundStates'
    BY <1>2, AwakeKept, StackAwakeKept, BoundStatesKept DEF StirInv, IInv
  <2>2. Silent' /\ Helped' /\ PinWorks'
    BY <1>2, SilentKept, HelpedKept, PinWorksKept DEF StirInv
  <2> QED
    BY <2>1, <2>2 DEF StirInv
<1> QED
  BY <1>1, <1>2

(* A chip on the bus is never left to itself: a bound device works, or a   *)
(* timer or a dump will reset it; an unbound one has been pulsed, if the   *)
(* pin can be relied on.                                                   *)
THEOREM AlwaysStirring ==
  ASSUME ~EarlySuspendOS PROVE Spec => []Stirring
<1>1. Init => StirInv
  BY DEF Init, StirInv, Awake, StackAwake, BoundStates, Silent, Helped, PinWorks
<1>2. IInv /\ StirInv /\ [Next]_vars => StirInv'
  BY NextStir
<1>3. IInv /\ StirInv => Stirring
  <2> SUFFICES ASSUME IInv, StirInv, hub = "idle", sleep = "no",
                      bus = "attached", bound
               PROVE  \/ usb = "WORKING" \/ "disc" \in timers
                      \/ "dump" \in timers
                      \/ asserted /\ "bulk" \in inflight
    BY DEF Stirring, StirInv, PinWorks
  <2>1. suspend_count = 0
    BY DEF StirInv, Awake, IInv, Sleeping
  <2>2. CASE usb \in DumpStates
    BY <2>2 DEF IInv, Watched
  <2>3. CASE usb \in { "SUSPEND", "RESUME" }
    BY <2>1, <2>3 DEF StirInv, Helped, IInv, Watched
  <2> QED
    BY <2>2, <2>3 DEF StirInv, BoundStates
<1> QED
  BY <1>1, <1>2, <1>3, Invariance, PTL DEF Spec

=============================================================================
