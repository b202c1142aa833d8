------------------------- MODULE BtLifecycleProofs -------------------------
(***************************************************************************)
(* Proofs about the life of the Bluetooth driver: its type invariant and   *)
(* the safety properties that follow from the inductive invariant IInv,    *)
(* for every value of the constants.                                       *)
(***************************************************************************)
EXTENDS BtLifecycle, TLAPS

Probing == { "patch", "power" }

(* Where the threads are tells what the bus and the driver are about:      *)
(* nothing is probed, suspended or resumed unless the state is right.      *)
Sleeping ==
  /\ bus = "detached" => ~bound /\ nsusp = 0
  /\ hub \in Probing \cup {"iface1"} =>
       /\ bus # "detached" /\ ~bound
       /\ sleep = "no" /\ nsusp = 0 /\ suspend_count = 0
  /\ sleep # "no" \/ nsusp > 0 => bound
  /\ hub \in { "suspend", "woble", "wake", "submit", "assert" } => bound
  /\ bound => suspend_count = nsusp

NoLateThread == EarlySuspendOS \/ late = "resumed"

(* From the probe's entry to the disconnect: a claimed reset, a diagnostic *)
(* reset and a firmware dump each have a timer that will end them.         *)
Watched ==
  bound \/ hub \in Probing =>
    /\ doing_reset = 1 => "disc" \in timers
    /\ "diag" \in timers => doing_reset = 1 \/ bus # "attached"
    /\ usb \in DumpStates =>
         "dump" \in timers \/ doing_reset = 1 \/ bus # "attached"

IInv == TypeOK /\ Sleeping /\ NoLateThread /\ Watched /\ UrbsMarked

-----------------------------------------------------------------------------
(* The types of what the shared operations change.                         *)

(* toggle_rst_pin records a cause and keeps to the three timers. *)
LEMMA ToggleTypes ==
  ASSUME ResetTypes, UNCHANGED need_reset_stack,
         NEW t \in HwErrCodes, NEW ts \in SUBSET Timers,
         NEW arm \in SUBSET Timers, ToggleRstPin(t, ts, arm)
  PROVE  ResetTypes'
<1>1. timers' \subseteq Timers
  BY DEF ToggleRstPin, Timers
<1>2. doing_reset' \in 0..1 /\ hook' \in { "probe", "L0_probe" }
  BY DEF ResetTypes, ToggleRstPin
<1>3. need_reset_stack_type' \in HwErrCodes
  BY DEF ToggleRstPin, HwErrCodes
<1> QED
  BY <1>1, <1>2, <1>3 DEF ResetTypes

(* A handler that may end by pulsing the pin keeps those types. *)
LEMMA MaybeToggleTypes ==
  ASSUME ResetTypes, UNCHANGED need_reset_stack, UNCHANGED pinVars \/ Toggle
  PROVE  ResetTypes'
<1>1. CASE UNCHANGED pinVars
  BY <1>1 DEF ResetTypes, pinVars
<1>2. CASE Toggle
  BY <1>2, ToggleTypes DEF Toggle, ResetTypes
<1> QED
  BY <1>1, <1>2

(* stop_traffic only takes pipes out of both sets. *)
LEMMA StopTrafficTypes ==
  ASSUME UrbTypes, StopTraffic PROVE UrbTypes'
  BY DEF UrbTypes, StopTraffic, AfterStop

(* Submitting the receive URBs, in full or not, adds only pipes. *)
LEMMA SubmitTypes ==
  ASSUME UrbTypes, SubmitUrbs(Pipes) \/ SubmitFails(Pipes) PROVE UrbTypes'
<1>1. CASE SubmitUrbs(Pipes)
  BY <1>1 DEF UrbTypes, SubmitUrbs
<1>2. CASE SubmitFails(Pipes)
  BY <1>2 DEF UrbTypes, SubmitFails, Pipes
<1> QED
  BY <1>1, <1>2

(* A URB is submitted together with its mark. *)
LEMMA SubmitMarks ==
  ASSUME UrbTypes, UrbsMarked, SubmitUrbs(Pipes) \/ SubmitFails(Pipes)
  PROVE  UrbsMarked'
<1>1. CASE SubmitUrbs(Pipes)
  BY <1>1 DEF UrbTypes, UrbsMarked, SubmitUrbs
<1>2. CASE SubmitFails(Pipes)
  BY <1>2 DEF UrbTypes, UrbsMarked, SubmitFails, Pipes
<1> QED
  BY <1>1, <1>2

(* send_assert_cmd adds at most the bulk pipe. *)
LEMMA AssertCmdTypes ==
  ASSUME UrbTypes, SendAssertCmd PROVE UrbTypes'
  BY DEF UrbTypes, SendAssertCmd, urbVars, AfterStop, Pipes

(* Entering wake-on-BLE may stop the traffic and nothing else. *)
LEMMA WobleTypes ==
  ASSUME UrbTypes, EnterWoble \/ WakeUpOk \/ WakeUpFails PROVE UrbTypes'
  BY StopTrafficTypes DEF UrbTypes, EnterWoble, WakeUpOk, WakeUpFails, urbVars

-----------------------------------------------------------------------------
(* Every step keeps the types. *)

(* Every step keeps the flags Boolean. *)
LEMMA FlagTypesKept ==
  ASSUME TypeOK, Next
  PROVE  FlagTypes'
<1>1. CASE BusNext
  BY <1>1, Zenon
    DEF FlagTypes, TypeOK, BusNext, ChipResets, ghostVars, stackVars,
      LeaveBus, PulseLost, chipVars, Unplug, FwCrash, pinVars
<1>2. CASE TimerNext
  BY <1>2, Zenon
    DEF FlagTypes, TypeOK, TimerNext, FwDumpTimo, ghostVars, chipVars,
      stackVars, ToggleRstPin, ChipRstDiscTimo, ChipResetTimo
<1>3. CASE OtherNext
  BY <1>3, Zenon
    DEF FlagTypes, TypeOK, OtherNext, WifiReset, ghostVars, chipVars,
      stackVars, Toggle, ToggleRstPin, TriggerCoreDump, DiagReset
<1>4. CASE HubNext
  BY <1>4, Zenon
    DEF FlagTypes, TypeOK, HubNext, ProbeBegin, ghostVars, stackVars,
      ProbePatched, pinVars, ProbeFails, chipVars, Toggle, ToggleRstPin,
      ProbeIface1, ProbeEnd, ProbePower, Disconnect
<1>5. CASE SleepBegin
  BY <1>5, Zenon
    DEF FlagTypes, TypeOK, SleepBegin, ghostVars, chipVars, stackVars, pinVars
<1>6. CASE SleepWork
  BY <1>6, Zenon
    DEF FlagTypes, TypeOK, SleepWork, Suspend, ghostVars, chipVars, stackVars,
      pinVars, SuspendTraffic, SuspendWoble, EnterWoble, SleepEnd, Resume,
      ResumeWake, ResumeSubmit, ResumeAssert, SendAssertCmd, AssertFails,
      Toggle, ToggleRstPin, Thaw
<1>7. CASE LateNext
  <2>1. CASE EarlySuspend
    BY <2>1, Zenon
      DEF FlagTypes, TypeOK, EarlySuspend, ghostVars, chipVars, stackVars,
        pinVars
  <2>2. CASE EarlySuspendWoble
    BY <2>2, Zenon
      DEF FlagTypes, TypeOK, EarlySuspendWoble, ghostVars, stackVars, pinVars,
        EnterWoble
  <2>3. CASE LateResume
    BY <2>3, Zenon
      DEF FlagTypes, TypeOK, LateResume, ghostVars, chipVars, stackVars,
        pinVars
  <2>4. CASE LateWake
    BY <2>4, Zenon
      DEF FlagTypes, TypeOK, LateWake, ghostVars, chipVars, stackVars, pinVars
  <2>5. CASE LateSubmit
    BY <2>5, Zenon
      DEF FlagTypes, TypeOK, LateSubmit, ghostVars, chipVars, stackVars,
        pinVars
  <2>6. CASE LateAssert
    BY <2>6, Zenon
      DEF FlagTypes, TypeOK, LateAssert, ghostVars, stackVars, SendAssertCmd,
        AssertFails, Toggle, ToggleRstPin, pinVars
  <2> QED
    BY <1>7, <2>1, <2>2, <2>3, <2>4, <2>5, <2>6 DEF LateNext
<1>8. CASE StackNext
  <2>1. CASE Open
    BY <2>1, Zenon DEF FlagTypes, TypeOK, Open, chipVars, stackVars, pinVars
  <2>2. CASE OpenPowerCheck
    BY <2>2, Zenon
      DEF FlagTypes, TypeOK, OpenPowerCheck, ghostVars, chipVars, stackVars,
        Powered, Toggle, ToggleRstPin, pinVars
  <2>3. CASE OpenPowering
    BY <2>3, Zenon
      DEF FlagTypes, TypeOK, OpenPowering, ghostVars, stackVars, Powered,
        Toggle, ToggleRstPin, pinVars
  <2>4. CASE OpenSleepCmd
    BY <2>4, Zenon
      DEF FlagTypes, TypeOK, OpenSleepCmd, ghostVars, chipVars, stackVars,
        Toggle, ToggleRstPin, pinVars
  <2>5. CASE OpenDone
    BY <2>5, Zenon DEF FlagTypes, TypeOK, OpenDone, chipVars
  <2>6. CASE ReadHwErr
    BY <2>6, Zenon DEF FlagTypes, TypeOK, ReadHwErr, ghostVars, chipVars
  <2>7. CASE WriteAssert
    BY <2>7, Zenon DEF FlagTypes, TypeOK, WriteAssert, ghostVars, stackVars
  <2>8. CASE CloseDeinit
    BY <2>8, Zenon
      DEF FlagTypes, TypeOK, CloseDeinit, ghostVars, stackVars, Toggle,
        ToggleRstPin, pinVars
  <2>9. CASE OpenUrbs \/ Close \/ CloseDone
    BY <2>9, Zenon
      DEF FlagTypes, TypeOK, OpenUrbs, ghostVars, chipVars, stackVars,
        pinVars, Close, CloseDone
  <2> QED
    BY <1>8, <2>1, <2>2, <2>3, <2>4, <2>5, <2>6, <2>7, <2>8, <2>9
      DEF StackNext, OpenNext
<1>9. ASSUME NEW last \in BOOLEAN, BulkInDump(last)
     PROVE  FlagTypes'
  BY <1>9, Zenon
    DEF FlagTypes, TypeOK, BulkInDump, ghostVars, chipVars, stackVars,
      ToggleRstPin
<1> QED
  BY <1>1, <1>2, <1>3, <1>4, <1>5, <1>6, <1>7, <1>8, <1>9 DEF Next

(* Every step keeps the states of the driver and the bus in their types. *)
LEMMA StateTypesKept ==
  ASSUME TypeOK, Next
  PROVE  StateTypes'
<1>1. CASE BusNext
  BY <1>1, ConstantsAssumption
    DEF TypeOK, StateTypes, BusNext, ChipResets, stackVars, LeaveBus,
      PulseLost, chipVars, Fault, Unplug, FwCrash
<1>2. CASE TimerNext
  BY <1>2, ConstantsAssumption
    DEF TypeOK, StateTypes, TimerNext, FwDumpTimo, chipVars, stackVars,
      ChipRstDiscTimo, Fault, ChipResetTimo
<1>3. CASE OtherNext
  BY <1>3, ConstantsAssumption
    DEF TypeOK, StateTypes, OtherNext, WifiReset, chipVars, stackVars, Fault,
      TriggerCoreDump, DiagReset
<1>4. CASE HubNext
  BY <1>4, ConstantsAssumption
    DEF TypeOK, StateTypes, UsbStates, DongleStates, HubNext, ProbeBegin,
      stackVars, ProbeEntry, ProbePatched, WmtOk, ProbeFails, chipVars,
      WmtFail, Fault, ProbeIface1, ProbeEnd, ProbeExit, ProbePower,
      Disconnect, DisconnectFrom
<1>5. CASE SleepBegin
  BY <1>5, ConstantsAssumption
    DEF TypeOK, StateTypes, SleepBegin, chipVars, stackVars, Fault
<1>6. CASE SleepWork
  BY <1>6, ConstantsAssumption
    DEF TypeOK, StateTypes, UsbStates, DongleStates, SleepWork, Suspend,
      chipVars, stackVars, SuspendTraffic, SuspendWoble, EnterWoble, HciFail,
      Fault, WmtFail, HciOk, WmtOk, SleepEnd, Resume, ResumeWake, WakeUpFails,
      WakeUpOk, ResumeSubmit, SubmitFails, SubmitUrbs, ResumeAssert,
      SendAssertCmd, Thaw
<1>7. CASE LateNext
  BY <1>7, ConstantsAssumption
    DEF TypeOK, StateTypes, UsbStates, DongleStates, LateNext, EarlySuspend,
      chipVars, stackVars, Fault, EarlySuspendWoble, EnterWoble, HciFail,
      WmtFail, HciOk, WmtOk, LateResume, LateResumeReturn, LateWake,
      WakeUpFails, WakeUpOk, LateSubmit, SubmitFails, SubmitUrbs, LateAssert,
      SendAssertCmd
<1>8. CASE StackNext
  BY <1>8, ConstantsAssumption
    DEF TypeOK, StateTypes, FopsStates, DongleStates, StackNext, OpenNext,
      Open, chipVars, stackVars, OpenPowerCheck, WmtFail, Fault, WmtOk,
      OpenPowering, OpenSleepCmd, HciFail, HciOk, OpenUrbs, SubmitFails,
      SubmitUrbs, OpenDone, ReadHwErr, WriteAssert, Close, CloseDeinit,
      CloseDone
<1>9. ASSUME NEW last \in BOOLEAN, BulkInDump(last)
     PROVE  StateTypes'
  BY <1>9
    DEF TypeOK, StateTypes, UsbStates, BulkInDump, chipVars, stackVars,
      DumpEntry
<1> QED
  BY <1>1, <1>2, <1>3, <1>4, <1>5, <1>6, <1>7, <1>8, <1>9 DEF Next

(* Every step keeps what the resets use in its types. *)
LEMMA ResetTypesKept ==
  ASSUME TypeOK, Next
  PROVE  ResetTypes'
<1>1. CASE BusNext
  <2>1. CASE ChipResets \/ PulseLost \/ Unplug \/ FwCrash
    BY <2>1
      DEF TypeOK, ResetTypes, ChipResets, stackVars, PulseLost, Unplug,
        FwCrash, pinVars
  <2> QED
    BY <1>1, <2>1 DEF BusNext
<1>2. CASE TimerNext
  <2>1. CASE FwDumpTimo
    BY <2>1, ToggleTypes, MaybeToggleTypes
      DEF TypeOK, ResetTypes, FwDumpTimo, stackVars
  <2>2. CASE ChipRstDiscTimo
    BY <2>2 DEF TypeOK, ResetTypes, ChipRstDiscTimo, stackVars
  <2>3. CASE ChipResetTimo
    BY <2>3 DEF TypeOK, ResetTypes, ChipResetTimo, stackVars
  <2> QED
    BY <1>2, <2>1, <2>2, <2>3 DEF TimerNext
<1>3. CASE OtherNext
  <2>1. CASE WifiReset
    BY <2>1, MaybeToggleTypes DEF TypeOK, WifiReset, stackVars
  <2>2. CASE TriggerCoreDump
    <3>1. Cause("WIFI") \in HwErrCodes
      BY DEF Cause, TypeOK, ResetTypes, HwErrCodes
    <3>2. {} \in SUBSET Timers
      OBVIOUS
    <3> QED
      BY <2>2, <3>1, <3>2, ToggleTypes
        DEF TypeOK, ResetTypes, TriggerCoreDump, stackVars
  <2>3. CASE DiagReset
    BY <2>3, ToggleTypes DEF TypeOK, ResetTypes, DiagReset, stackVars, Timers
  <2> QED
    BY <1>3, <2>1, <2>2, <2>3 DEF OtherNext
<1>4. CASE HubNext
  BY <1>4, MaybeToggleTypes
    DEF TypeOK, ResetTypes, HwErrCodes, HubNext, ProbeBegin, stackVars,
      ResetOver, ProbeEntry, ProbePatched, ProbeFails, ProbeIface1, ProbeEnd,
      Cause, Disconnect, DisconnectNotice
<1>5. CASE SleepBegin
  BY <1>5 DEF TypeOK, ResetTypes, SleepBegin, stackVars, pinVars
<1>6. CASE SleepWork
  BY <1>6, MaybeToggleTypes
    DEF TypeOK, SleepWork, Suspend, stackVars, SuspendTraffic, SuspendWoble,
      SleepEnd, Resume, ResumeWake, ResumeSubmit, ResumeAssert, SendAssertCmd,
      AssertFails, Thaw
<1>7. CASE LateNext
  BY <1>7, MaybeToggleTypes
    DEF TypeOK, LateNext, EarlySuspend, stackVars, EarlySuspendWoble,
      LateResume, LateWake, LateSubmit, LateAssert, SendAssertCmd,
      AssertFails
<1>8. CASE StackNext
  <2>1. CASE OpenPowerCheck
    BY <2>1, MaybeToggleTypes DEF TypeOK, OpenPowerCheck, stackVars, Powered
  <2>2. CASE OpenPowering
    BY <2>2, MaybeToggleTypes DEF TypeOK, OpenPowering, stackVars, Powered
  <2>3. CASE OpenSleepCmd
    BY <2>3, MaybeToggleTypes DEF TypeOK, OpenSleepCmd, stackVars
  <2>4. CASE OpenDone
    BY <2>4 DEF TypeOK, ResetTypes, HwErrCodes, OpenDone
  <2>5. CASE ReadHwErr
    BY <2>5 DEF TypeOK, ResetTypes, HwErrCodes, ReadHwErr
  <2>6. CASE WriteAssert
    BY <2>6 DEF TypeOK, ResetTypes, HwErrCodes, WriteAssert, stackVars, Cause
  <2>7. CASE CloseDeinit
    BY <2>7, MaybeToggleTypes DEF TypeOK, CloseDeinit, stackVars
  <2>8. CASE CloseDone
    BY <2>8 DEF TypeOK, ResetTypes, HwErrCodes, CloseDone
  <2>9. CASE Open \/ OpenUrbs \/ Close
    BY <2>9 DEF TypeOK, ResetTypes, Open, stackVars, pinVars, OpenUrbs, Close
  <2> QED
    BY <1>8, <2>1, <2>2, <2>3, <2>4, <2>5, <2>6, <2>7, <2>8, <2>9
      DEF StackNext, OpenNext
<1>9. ASSUME NEW last \in BOOLEAN, BulkInDump(last)
     PROVE  ResetTypes'
  BY <1>9, ToggleTypes, Zenon
    DEF TypeOK, ResetTypes, BulkInDump, Cause, HwErrCodes, DumpTimers, Timers,
      stackVars
<1> QED
  BY <1>1, <1>2, <1>3, <1>4, <1>5, <1>6, <1>7, <1>8, <1>9 DEF Next

(* Every step keeps the URBs among the two receive pipes. *)
LEMMA UrbTypesKept ==
  ASSUME TypeOK, Next
  PROVE  UrbTypes'
<1>1. CASE BusNext
  BY <1>1
    DEF TypeOK, UrbTypes, BusNext, ChipResets, LeaveBus, PulseLost, urbVars,
      Unplug, FwCrash
<1>2. CASE TimerNext
  BY <1>2
    DEF TypeOK, UrbTypes, TimerNext, FwDumpTimo, urbVars, ChipRstDiscTimo,
      ChipResetTimo
<1>3. CASE OtherNext
  BY <1>3
    DEF TypeOK, UrbTypes, OtherNext, WifiReset, urbVars, TriggerCoreDump,
      DiagReset
<1>4. CASE HubNext
  BY <1>4, StopTrafficTypes
    DEF TypeOK, UrbTypes, HubNext, ProbeBegin, urbVars, ProbePatched,
      ProbeFails, ProbeIface1, ProbeEnd, ProbePower, Disconnect
<1>5. CASE SleepBegin
  BY <1>5 DEF TypeOK, UrbTypes, SleepBegin, urbVars
<1>6. CASE SleepWork
  <2>1. CASE SuspendTraffic
    BY <2>1, StopTrafficTypes DEF TypeOK, SuspendTraffic
  <2>2. CASE SuspendWoble
    BY <2>2, WobleTypes DEF TypeOK, SuspendWoble
  <2>3. CASE ResumeWake
    BY <2>3, WobleTypes DEF TypeOK, ResumeWake
  <2>4. CASE ResumeSubmit
    BY <2>4, SubmitTypes DEF TypeOK, ResumeSubmit
  <2>5. CASE ResumeAssert
    BY <2>5, AssertCmdTypes DEF TypeOK, ResumeAssert
  <2>6. CASE Suspend \/ SleepEnd \/ Resume \/ Thaw
    BY <2>6 DEF TypeOK, UrbTypes, Suspend, urbVars, SleepEnd, Resume, Thaw
  <2> QED
    BY <1>6, <2>1, <2>2, <2>3, <2>4, <2>5, <2>6 DEF SleepWork
<1>7. CASE LateNext
  BY <1>7, SubmitTypes, AssertCmdTypes, WobleTypes
    DEF TypeOK, UrbTypes, LateNext, EarlySuspend, urbVars, EarlySuspendWoble,
      LateResume, LateWake, LateSubmit, LateAssert
<1>8. CASE StackNext
  <2>1. CASE OpenSleepCmd
    BY <2>1, StopTrafficTypes DEF TypeOK, UrbTypes, OpenSleepCmd, urbVars
  <2>2. CASE OpenUrbs
    BY <2>2, SubmitTypes DEF TypeOK, OpenUrbs
  <2>3. CASE CloseDeinit
    BY <2>3, StopTrafficTypes DEF TypeOK, CloseDeinit
  <2>4. CASE Open \/ OpenPowerCheck \/ OpenPowering \/ OpenDone \/ ReadHwErr
      \/ WriteAssert \/ Close \/ CloseDone
    BY <2>4
      DEF TypeOK, UrbTypes, Open, urbVars, OpenPowerCheck, OpenPowering,
        OpenDone, ReadHwErr, WriteAssert, Close, CloseDone
  <2> QED
    BY <1>8, <2>1, <2>2, <2>3, <2>4 DEF StackNext, OpenNext
<1>9. ASSUME NEW last \in BOOLEAN, BulkInDump(last)
     PROVE  UrbTypes'
  BY <1>9 DEF TypeOK, UrbTypes, BulkInDump, urbVars
<1> QED
  BY <1>1, <1>2, <1>3, <1>4, <1>5, <1>6, <1>7, <1>8, <1>9 DEF Next

(* Every step keeps the suspend counts within the two interfaces. *)
LEMMA SleepTypesKept ==
  ASSUME TypeOK, Sleeping, Next
  PROVE  SleepTypes'
<1>1. CASE BusNext
  BY <1>1
    DEF TypeOK, SleepTypes, BusNext, ChipResets, pmVars, PulseLost, Unplug,
      FwCrash
<1>2. CASE TimerNext
  BY <1>2
    DEF TypeOK, SleepTypes, TimerNext, FwDumpTimo, pmVars, ChipRstDiscTimo,
      ChipResetTimo
<1>3. CASE OtherNext
  BY <1>3
    DEF TypeOK, SleepTypes, OtherNext, WifiReset, pmVars, TriggerCoreDump,
      DiagReset
<1>4. CASE HubNext
  BY <1>4
    DEF TypeOK, SleepTypes, HubNext, ProbeBegin, InitMemory, ProbePatched,
      pmVars, ProbeFails, ProbeIface1, ProbeEnd, Disconnect
<1>5. CASE SleepBegin
  BY <1>5 DEF TypeOK, SleepTypes, SleepBegin
<1>6. CASE SleepWork
  BY <1>6
    DEF TypeOK, SleepTypes, Sleeping, SleepWork, Suspend, SuspendTraffic,
      pmVars, SuspendWoble, SleepEnd, Resume, ResumeWake, ResumeSubmit,
      ResumeAssert, Thaw
<1>7. CASE LateNext
  BY <1>7
    DEF TypeOK, SleepTypes, LateNext, EarlySuspend, pmVars, EarlySuspendWoble,
      LateResume, LateWake, LateSubmit, LateAssert
<1>8. CASE StackNext
  BY <1>8
    DEF TypeOK, SleepTypes, StackNext, OpenNext, Open, pmVars, OpenPowerCheck,
      OpenPowering, OpenSleepCmd, OpenUrbs, OpenDone, ReadHwErr, WriteAssert,
      Close, CloseDeinit, CloseDone
<1>9. ASSUME NEW last \in BOOLEAN, BulkInDump(last)
     PROVE  SleepTypes'
  BY <1>9 DEF TypeOK, SleepTypes, BulkInDump, pmVars
<1> QED
  BY <1>1, <1>2, <1>3, <1>4, <1>5, <1>6, <1>7, <1>8, <1>9 DEF Next

(* Every step leaves each thread at one of its places. *)
LEMMA ThreadTypesKept ==
  ASSUME TypeOK, Next
  PROVE  ThreadTypes'
<1>1. CASE BusNext
  BY <1>1
    DEF TypeOK, ThreadTypes, BusNext, ChipResets, pcVars, lateVars, hubVars,
      PulseLost, Unplug, FwCrash
<1>2. CASE TimerNext
  BY <1>2
    DEF TypeOK, ThreadTypes, TimerNext, FwDumpTimo, pcVars, lateVars, hubVars,
      ChipRstDiscTimo, ChipResetTimo
<1>3. CASE OtherNext
  BY <1>3
    DEF TypeOK, ThreadTypes, OtherNext, WifiReset, pcVars, lateVars, hubVars,
      TriggerCoreDump, DiagReset
<1>4. CASE HubNext
  BY <1>4
    DEF TypeOK, ThreadTypes, HubPcs, ResetTypes, HubNext, ProbeBegin,
      lateVars, ProbePatched, ProbeFails, ProbeIface1, ProbeEnd, Disconnect,
      pcVars, hubVars
<1>5. CASE SleepBegin
  BY <1>5 DEF TypeOK, ThreadTypes, SleepBegin, pcVars, lateVars, hubVars
<1>6. CASE SleepWork
  BY <1>6
    DEF TypeOK, ThreadTypes, HubPcs, SleepWork, Suspend, lateVars,
      SuspendTraffic, SuspendWoble, SleepEnd, pcVars, hubVars, Resume,
      ResumeWake, ResumeSubmit, ResumeAssert, Thaw
<1>7. CASE LateNext
  BY <1>7, ConstantsAssumption
    DEF TypeOK, ThreadTypes, LatePcs, LateNext, EarlySuspend, hubVars,
      EarlySuspendWoble, LateResume, LateWake, LateSubmit, LateAssert
<1>8. CASE StackNext
  BY <1>8
    DEF TypeOK, ThreadTypes, StackPcs, StackNext, OpenNext, Open, lateVars,
      hubVars, OpenPowerCheck, Powered, OpenPowering, OpenSleepCmd, OpenUrbs,
      OpenDone, ReadHwErr, pcVars, WriteAssert, Close, CloseDeinit, CloseDone
<1>9. ASSUME NEW last \in BOOLEAN, BulkInDump(last)
     PROVE  ThreadTypes'
  BY <1>9 DEF TypeOK, ThreadTypes, BulkInDump, pcVars, lateVars, hubVars
<1> QED
  BY <1>1, <1>2, <1>3, <1>4, <1>5, <1>6, <1>7, <1>8, <1>9 DEF Next

-----------------------------------------------------------------------------
(* Every step keeps the other parts of the invariant. *)

(* Only ProbeEnd binds the driver and only Disconnect unbinds it; both wait *)
(* for the hub to be idle and the system to be awake.                      *)
LEMMA SleepingKept ==
  ASSUME TypeOK, Sleeping, Next
  PROVE  Sleeping'
<1>1. CASE BusNext
  BY <1>1
    DEF Sleeping, BusNext, ChipResets, pcVars, hubVars, pmVars, LeaveBus,
      PulseLost, chipVars, Unplug, FwCrash
<1>2. CASE TimerNext
  BY <1>2
    DEF Sleeping, TimerNext, FwDumpTimo, pcVars, hubVars, pmVars, chipVars,
      ChipRstDiscTimo, ChipResetTimo
<1>3. CASE OtherNext
  BY <1>3
    DEF Sleeping, OtherNext, WifiReset, pcVars, hubVars, pmVars, chipVars,
      TriggerCoreDump, DiagReset
<1>4. CASE HubNext
  BY <1>4
    DEF Probing, Sleeping, HubNext, ProbeBegin, InitMemory, ProbePatched,
      pmVars, ProbeFails, chipVars, ProbeIface1, ProbeEnd, Disconnect, pcVars,
      hubVars
<1>5. CASE SleepBegin
  BY <1>5 DEF Sleeping, SleepBegin, pcVars, hubVars, chipVars
<1>6. CASE SleepWork
  BY <1>6
    DEF Probing, Sleeping, SleepWork, Suspend, chipVars, SuspendTraffic,
      pmVars, SuspendWoble, SleepEnd, pcVars, hubVars, Resume, ResumeWake,
      ResumeSubmit, ResumeAssert, Thaw
<1>7. CASE LateNext
  BY <1>7
    DEF Sleeping, LateNext, EarlySuspend, hubVars, pmVars, chipVars,
      EarlySuspendWoble, LateResume, LateWake, LateSubmit, LateAssert
<1>8. CASE StackNext
  BY <1>8
    DEF Sleeping, StackNext, OpenNext, Open, hubVars, pmVars, chipVars,
      OpenPowerCheck, OpenPowering, OpenSleepCmd, OpenUrbs, OpenDone,
      ReadHwErr, pcVars, WriteAssert, Close, CloseDeinit, CloseDone
<1>9. ASSUME NEW last \in BOOLEAN, BulkInDump(last)
     PROVE  Sleeping'
  BY <1>9 DEF Sleeping, BulkInDump, pcVars, hubVars, pmVars, chipVars
<1> QED
  BY <1>1, <1>2, <1>3, <1>4, <1>5, <1>6, <1>7, <1>8, <1>9 DEF Next

(* Without early suspend its thread never starts. *)
LEMMA NoLateThreadKept ==
  ASSUME NoLateThread, Next
  PROVE  NoLateThread'
<1>1. CASE BusNext
  BY <1>1
    DEF NoLateThread, BusNext, ChipResets, pcVars, lateVars, PulseLost,
      Unplug, FwCrash
<1>2. CASE TimerNext
  BY <1>2
    DEF NoLateThread, TimerNext, FwDumpTimo, pcVars, lateVars,
      ChipRstDiscTimo, ChipResetTimo
<1>3. CASE OtherNext
  BY <1>3
    DEF NoLateThread, OtherNext, WifiReset, pcVars, lateVars, TriggerCoreDump,
      DiagReset
<1>4. CASE HubNext
  BY <1>4
    DEF NoLateThread, HubNext, ProbeBegin, lateVars, ProbePatched, ProbeFails,
      ProbeIface1, ProbeEnd, Disconnect, pcVars
<1>5. CASE SleepBegin
  BY <1>5 DEF NoLateThread, SleepBegin, pcVars, lateVars
<1>6. CASE SleepWork
  BY <1>6
    DEF NoLateThread, SleepWork, Suspend, lateVars, SuspendTraffic,
      SuspendWoble, SleepEnd, pcVars, Resume, ResumeWake, ResumeSubmit,
      ResumeAssert, Thaw
<1>7. CASE LateNext
  BY <1>7
    DEF NoLateThread, LateNext, EarlySuspend, EarlySuspendWoble, LateResume,
      LateWake, LateSubmit, LateAssert
<1>8. CASE StackNext
  BY <1>8
    DEF NoLateThread, StackNext, OpenNext, Open, lateVars, OpenPowerCheck,
      OpenPowering, OpenSleepCmd, OpenUrbs, OpenDone, ReadHwErr, pcVars,
      WriteAssert, Close, CloseDeinit, CloseDone
<1>9. ASSUME NEW last \in BOOLEAN, BulkInDump(last)
     PROVE  NoLateThread'
  BY <1>9 DEF NoLateThread, BulkInDump, pcVars, lateVars
<1> QED
  BY <1>1, <1>2, <1>3, <1>4, <1>5, <1>6, <1>7, <1>8, <1>9 DEF Next

(* A reset is claimed with the disconnect watchdog, which is deleted only  *)
(* where the claim is given up; a diagnostic reset rides on a claimed one; *)
(* a dump starts with its watchdog, which only ToggleRstPin takes away.    *)
LEMMA WatchedKept ==
  ASSUME TypeOK, Sleeping, Watched, Next
  PROVE  Watched'
<1>1. CASE BusNext
  <2>1. CASE ChipResets
    BY <2>1 DEF Watched, ChipResets, pcVars, hubVars
  <2>2. CASE Unplug
    BY <2>2 DEF Watched, Unplug, pcVars, hubVars
  <2>3. CASE PulseLost \/ FwCrash
    BY <2>3
      DEF Watched, PulseLost, pcVars, hubVars, chipVars, FwCrash, pinVars
  <2> QED
    BY <1>1, <2>1, <2>2, <2>3 DEF BusNext
<1>2. CASE TimerNext
  <2>1. CASE FwDumpTimo
    BY <2>1 DEF Watched, FwDumpTimo, pcVars, hubVars, chipVars, ToggleRstPin
  <2>2. CASE ChipRstDiscTimo
    BY <2>2 DEF Watched, ChipRstDiscTimo, chipVars
  <2>3. CASE ChipResetTimo
    BY <2>3 DEF Watched, ChipResetTimo, pcVars, hubVars, chipVars
  <2> QED
    BY <1>2, <2>1, <2>2, <2>3 DEF TimerNext
<1>3. CASE OtherNext
  <2>1. CASE WifiReset
    BY <2>1 DEF Watched, WifiReset, pcVars, hubVars, Toggle, ToggleRstPin
  <2>2. CASE TriggerCoreDump
    BY <2>2 DEF Watched, TriggerCoreDump, pcVars, hubVars, ToggleRstPin
  <2>3. CASE DiagReset
    BY <2>3 DEF Watched, DiagReset, pcVars, hubVars, chipVars, ToggleRstPin
  <2> QED
    BY <1>3, <2>1, <2>2, <2>3 DEF OtherNext
<1>4. CASE HubNext
  <2>1. CASE ProbeBegin
    BY <2>1 DEF DumpStates, Watched, ProbeBegin, ResetOver, ProbeEntry
  <2>2. CASE ProbePatched
    BY <2>2 DEF Probing, Watched, ProbePatched, pinVars
  <2>3. CASE ProbeFails
    BY <2>3 DEF Probing, Watched, Sleeping, ProbeFails
  <2>4. CASE ProbeIface1
    BY <2>4 DEF Probing, Watched, Sleeping, ProbeIface1
  <2>5. CASE ProbeEnd
    BY <2>5 DEF Probing, DumpStates, Watched, ProbeEnd, ProbeExit
  <2>6. CASE Disconnect
    BY <2>6 DEF Probing, Watched, Disconnect, pcVars, hubVars
  <2> QED
    BY <1>4, <2>1, <2>2, <2>3, <2>4, <2>5, <2>6 DEF HubNext
<1>5. CASE SleepBegin
  BY <1>5 DEF Watched, SleepBegin, pinVars
<1>6. CASE SleepWork
  <2>1. CASE Suspend
    BY <2>1 DEF Probing, DumpStates, Watched, Suspend, chipVars, pinVars
  <2>2. CASE SuspendTraffic
    BY <2>2 DEF Probing, Watched, SuspendTraffic, chipVars, pinVars
  <2>3. CASE SuspendWoble
    BY <2>3 DEF Probing, Watched, SuspendWoble, pinVars
  <2>4. CASE Resume
    BY <2>4 DEF Probing, DumpStates, Watched, Resume, pinVars
  <2>5. CASE ResumeWake
    BY <2>5
      DEF Probing, DumpStates, Watched, ResumeWake, chipVars, pinVars,
        WakeUpFails, WakeUpOk
  <2>6. CASE ResumeSubmit
    BY <2>6 DEF Probing, DumpStates, Watched, ResumeSubmit, chipVars, pinVars
  <2>7. CASE ResumeAssert
    BY <2>7
      DEF Probing, Watched, ResumeAssert, SendAssertCmd, AssertFails,
        Toggle, ToggleRstPin, pinVars
  <2>8. CASE SleepEnd \/ Thaw
    BY <2>8 DEF Watched, Sleeping, SleepEnd, chipVars, pinVars, Thaw
  <2> QED
    BY <1>6, <2>1, <2>2, <2>3, <2>4, <2>5, <2>6, <2>7, <2>8 DEF SleepWork
<1>7. CASE LateNext
  <2>1. CASE EarlySuspend
    BY <2>1 DEF DumpStates, Watched, EarlySuspend, hubVars, chipVars, pinVars
  <2>2. CASE LateResume
    BY <2>2
      DEF DumpStates, Watched, LateResume, hubVars, chipVars, pinVars,
        LateResumeReturn
  <2>3. CASE LateWake
    BY <2>3
      DEF DumpStates, Watched, LateWake, hubVars, chipVars, pinVars,
        WakeUpFails, WakeUpOk
  <2>4. CASE LateSubmit
    BY <2>4 DEF DumpStates, Watched, LateSubmit, hubVars, chipVars, pinVars
  <2>5. CASE LateAssert
    BY <2>5
      DEF Watched, LateAssert, hubVars, SendAssertCmd, AssertFails, Toggle,
        ToggleRstPin, pinVars
  <2>6. CASE EarlySuspendWoble
    BY <2>6 DEF Watched, EarlySuspendWoble, hubVars, pinVars
  <2> QED
    BY <1>7, <2>1, <2>2, <2>3, <2>4, <2>5, <2>6 DEF LateNext
<1>8. CASE StackNext
  <2>1. CASE OpenPowerCheck
    BY <2>1
      DEF Watched, OpenPowerCheck, hubVars, chipVars, Powered, Toggle,
        ToggleRstPin, pinVars
  <2>2. CASE OpenPowering
    BY <2>2
      DEF Watched, OpenPowering, hubVars, Powered, Toggle, ToggleRstPin,
        pinVars
  <2>3. CASE OpenSleepCmd
    BY <2>3
      DEF Watched, OpenSleepCmd, hubVars, chipVars, Toggle, ToggleRstPin,
        pinVars
  <2>4. CASE CloseDeinit
    BY <2>4 DEF Watched, CloseDeinit, hubVars, Toggle, ToggleRstPin, pinVars
  <2>5. CASE Open \/ OpenUrbs \/ OpenDone \/ ReadHwErr \/ WriteAssert
      \/ Close \/ CloseDone
    BY <2>5
      DEF Watched, Open, hubVars, chipVars, pinVars, OpenUrbs, OpenDone,
        ReadHwErr, pcVars, WriteAssert, Close, CloseDone
  <2> QED
    BY <1>8, <2>1, <2>2, <2>3, <2>4, <2>5 DEF StackNext, OpenNext
<1>9. ASSUME NEW last \in BOOLEAN, BulkInDump(last)
     PROVE  Watched'
  BY <1>9
    DEF Watched, BulkInDump, pcVars, hubVars, chipVars, DumpTimers,
      ToggleRstPin
<1> QED
  BY <1>1, <1>2, <1>3, <1>4, <1>5, <1>6, <1>7, <1>8, <1>9 DEF Next

(* No step leaves a receive URB in flight unmarked. *)
LEMMA UrbsMarkedKept ==
  ASSUME TypeOK, UrbsMarked, Next
  PROVE  UrbsMarked'
<1>1. CASE BusNext
  BY <1>1
    DEF UrbsMarked, BusNext, ChipResets, LeaveBus, PulseLost, urbVars, Unplug,
      FwCrash
<1>2. CASE TimerNext
  BY <1>2
    DEF UrbsMarked, TimerNext, FwDumpTimo, urbVars, ChipRstDiscTimo,
      ChipResetTimo
<1>3. CASE OtherNext
  BY <1>3
    DEF UrbsMarked, OtherNext, WifiReset, urbVars, TriggerCoreDump, DiagReset
<1>4. CASE HubNext
  BY <1>4
    DEF UrbsMarked, HubNext, ProbeBegin, urbVars, ProbePatched, ProbeFails,
      ProbeIface1, ProbeEnd, ProbePower, StopTraffic, AfterStop, Disconnect
<1>5. CASE SleepBegin
  BY <1>5 DEF UrbsMarked, SleepBegin, urbVars
<1>6. CASE SleepWork
  <2>1. CASE SuspendTraffic
    BY <2>1 DEF UrbsMarked, SuspendTraffic, StopTraffic, AfterStop
  <2>2. CASE SuspendWoble
    BY <2>2
      DEF UrbsMarked, SuspendWoble, EnterWoble, urbVars, StopTraffic,
        AfterStop
  <2>3. CASE ResumeWake
    BY <2>3
      DEF UrbsMarked, ResumeWake, WakeUpFails, urbVars, StopTraffic,
        AfterStop, WakeUpOk
  <2>4. CASE ResumeSubmit
    BY <2>4, SubmitMarks DEF TypeOK, ResumeSubmit
  <2>5. CASE ResumeAssert
    BY <2>5 DEF UrbsMarked, ResumeAssert, SendAssertCmd, AfterStop, urbVars
  <2>6. CASE Suspend \/ SleepEnd \/ Resume \/ Thaw
    BY <2>6 DEF UrbsMarked, Suspend, urbVars, SleepEnd, Resume, Thaw
  <2> QED
    BY <1>6, <2>1, <2>2, <2>3, <2>4, <2>5, <2>6 DEF SleepWork
<1>7. CASE LateNext
  BY <1>7, SubmitMarks
    DEF TypeOK, UrbsMarked, LateNext, EarlySuspend, urbVars,
      EarlySuspendWoble, EnterWoble, StopTraffic, AfterStop, LateResume,
      LateWake, WakeUpFails, WakeUpOk, LateSubmit, LateAssert, SendAssertCmd
<1>8. CASE StackNext
  <2>1. CASE OpenSleepCmd
    BY <2>1 DEF UrbsMarked, OpenSleepCmd, urbVars, StopTraffic, AfterStop
  <2>2. CASE OpenUrbs
    BY <2>2, SubmitMarks DEF TypeOK, OpenUrbs
  <2>3. CASE CloseDeinit
    BY <2>3 DEF UrbsMarked, CloseDeinit, StopTraffic, AfterStop
  <2>4. CASE Open \/ OpenPowerCheck \/ OpenPowering \/ OpenDone \/ ReadHwErr
      \/ WriteAssert \/ Close \/ CloseDone
    BY <2>4
      DEF UrbsMarked, Open, urbVars, OpenPowerCheck, OpenPowering, OpenDone,
        ReadHwErr, WriteAssert, Close, CloseDone
  <2> QED
    BY <1>8, <2>1, <2>2, <2>3, <2>4 DEF StackNext, OpenNext
<1>9. ASSUME NEW last \in BOOLEAN, BulkInDump(last)
     PROVE  UrbsMarked'
  BY <1>9 DEF UrbsMarked, BulkInDump, urbVars
<1> QED
  BY <1>1, <1>2, <1>3, <1>4, <1>5, <1>6, <1>7, <1>8, <1>9 DEF Next

(* Without early suspend, only threads that hold the device bound make the *)
(* state WORKING, and Disconnect leaves another.                           *)
LEMMA WorkingBoundKept ==
  ASSUME ~EarlySuspendOS, TypeOK, Sleeping, NoLateThread, WorkingBound, Next
  PROVE  WorkingBound'
<1>1. CASE BusNext
  BY <1>1 DEF WorkingBound, BusNext, ChipResets, PulseLost, Unplug, FwCrash
<1>2. CASE TimerNext
  BY <1>2
    DEF WorkingBound, TimerNext, FwDumpTimo, ChipRstDiscTimo, ChipResetTimo
<1>3. CASE OtherNext
  BY <1>3 DEF WorkingBound, OtherNext, WifiReset, TriggerCoreDump, DiagReset
<1>4. CASE HubNext
  BY <1>4
    DEF WorkingBound, HubNext, ProbeBegin, ProbeEntry, ProbePatched,
      ProbeFails, ProbeIface1, ProbeEnd, Disconnect, DisconnectFrom
<1>5. CASE SleepBegin
  BY <1>5 DEF WorkingBound, SleepBegin
<1>6. CASE SleepWork
  BY <1>6
    DEF Sleeping, WorkingBound, SleepWork, Suspend, SuspendTraffic,
      SuspendWoble, SleepEnd, Resume, ResumeWake, ResumeSubmit, ResumeAssert,
      Thaw
<1>7. CASE LateNext
  BY <1>7
    DEF NoLateThread, LateNext, EarlySuspend, EarlySuspendWoble, LateResume,
      LateWake, LateSubmit, LateAssert
<1>8. CASE StackNext
  BY <1>8
    DEF WorkingBound, StackNext, OpenNext, Open, OpenPowerCheck, OpenPowering,
      OpenSleepCmd, OpenUrbs, OpenDone, ReadHwErr, WriteAssert, Close,
      CloseDeinit, CloseDone
<1>9. ASSUME NEW last \in BOOLEAN, BulkInDump(last)
     PROVE  WorkingBound'
  BY <1>9 DEF WorkingBound, BulkInDump, DumpEntry
<1> QED
  BY <1>1, <1>2, <1>3, <1>4, <1>5, <1>6, <1>7, <1>8, <1>9 DEF Next

(* Only ToggleRstPin and Disconnect take the dump watchdog away. *)
LEMMA DumpKeptByAll ==
  ASSUME TypeOK, Sleeping, Watched, Next
  PROVE  DumpKept
<1>1. CASE BusNext
  BY <1>1
    DEF DumpKept, BusNext, ChipResets, PulseLost, Unplug, FwCrash, pinVars
<1>2. CASE TimerNext
  BY <1>2
    DEF DumpKept, Watched, TimerNext, FwDumpTimo, ToggleRstPin,
      ChipRstDiscTimo, ChipResetTimo
<1>3. CASE OtherNext
  BY <1>3
    DEF DumpKept, Watched, OtherNext, WifiReset, Toggle, ToggleRstPin,
      TriggerCoreDump, DiagReset
<1>4. CASE HubNext
  BY <1>4
    DEF DumpKept, Sleeping, Probing, HubNext, ProbeBegin, ProbePatched,
      ProbeFails, ProbeIface1, ProbeEnd, Disconnect
<1>5. CASE SleepBegin
  BY <1>5 DEF DumpKept, SleepBegin, pinVars
<1>6. CASE SleepWork
  BY <1>6
    DEF DumpKept, Watched, SleepWork, Suspend, pinVars, SuspendTraffic,
      SuspendWoble, SleepEnd, Resume, ResumeWake, ResumeSubmit, ResumeAssert,
      SendAssertCmd, AssertFails, Toggle, ToggleRstPin, Thaw
<1>7. CASE LateNext
  BY <1>7
    DEF DumpKept, Watched, LateNext, EarlySuspend, pinVars, EarlySuspendWoble,
      LateResume, LateWake, LateSubmit, LateAssert, SendAssertCmd,
      AssertFails, Toggle, ToggleRstPin
<1>8. CASE StackNext
  BY <1>8
    DEF DumpKept, Watched, StackNext, OpenNext, Open, pinVars, OpenPowerCheck,
      Powered, Toggle, ToggleRstPin, OpenPowering, OpenSleepCmd, OpenUrbs,
      OpenDone, ReadHwErr, WriteAssert, Close, CloseDeinit, CloseDone
<1>9. ASSUME NEW last \in BOOLEAN, BulkInDump(last)
     PROVE  DumpKept
  BY <1>9 DEF DumpKept, Watched, BulkInDump, DumpTimers, ToggleRstPin
<1> QED
  BY <1>1, <1>2, <1>3, <1>4, <1>5, <1>6, <1>7, <1>8, <1>9 DEF Next

-----------------------------------------------------------------------------
(* The inductive invariant. *)

(* The inductive invariant holds of the driver just registered. *)
LEMMA InitIInv == Init => IInv
<1> SUFFICES ASSUME Init PROVE IInv
  OBVIOUS
<1>1. FlagTypes
  BY Zenon DEF Init, FlagTypes
<1>2. StateTypes /\ ResetTypes /\ UrbTypes /\ SleepTypes
  BY ConstantsAssumption
    DEF ConstantsAssumption, Init, StateTypes, ResetTypes, UrbTypes,
        SleepTypes, UsbStates, FopsStates, DongleStates, HwErrCodes, Timers,
        Pipes
<1>3. ThreadTypes
  BY ConstantsAssumption
    DEF ConstantsAssumption, Init, ThreadTypes, HubPcs, StackPcs, LatePcs
<1>4. Sleeping /\ NoLateThread /\ UrbsMarked
  BY DEF Init, Sleeping, NoLateThread, UrbsMarked, Probing
<1>5. Watched
  BY DEF Init, Watched, Probing
<1> QED
  BY <1>1, <1>2, <1>3, <1>4, <1>5 DEF IInv, TypeOK

(* A step of something else keeps it. *)
LEMMA StutterIInv == ASSUME IInv, UNCHANGED vars PROVE IInv'
<1> USE DEF vars, pinVars, stackVars, urbVars, chipVars, pmVars, hubVars,
            lateVars, pcVars, ghostVars
<1>1. FlagTypes'
  BY Zenon DEF IInv, TypeOK, FlagTypes
<1>2. StateTypes' /\ ResetTypes'
  BY DEF IInv, TypeOK, StateTypes, ResetTypes
<1>3. UrbTypes' /\ SleepTypes' /\ ThreadTypes'
  BY DEF IInv, TypeOK, UrbTypes, SleepTypes, ThreadTypes
<1>4. Sleeping' /\ NoLateThread'
  BY DEF IInv, Sleeping, NoLateThread
<1>5. Watched' /\ UrbsMarked'
  BY DEF IInv, Watched, UrbsMarked
<1> QED
  BY <1>1, <1>2, <1>3, <1>4, <1>5 DEF IInv, TypeOK

(* Every step of the driver keeps it. *)
LEMMA NextIInv == ASSUME IInv, [Next]_vars PROVE IInv'
<1>1. CASE UNCHANGED vars
  BY <1>1, StutterIInv
<1>2. CASE Next
  <2>1. TypeOK'
    BY <1>2, FlagTypesKept, StateTypesKept, ResetTypesKept, UrbTypesKept,
       SleepTypesKept, ThreadTypesKept DEF IInv, TypeOK
  <2> QED
    BY <1>2, <2>1, SleepingKept, NoLateThreadKept, WatchedKept,
       UrbsMarkedKept DEF IInv
<1> QED
  BY <1>1, <1>2

(* IInv holds in every reachable state. *)
THEOREM Invariance == Spec => []IInv
  BY InitIInv, NextIInv, PTL DEF Spec

-----------------------------------------------------------------------------
(* What follows from it. *)

(* Every variable keeps its type. *)
THEOREM TypeCorrect == Spec => []TypeOK
<1>1. IInv => TypeOK
  BY DEF IInv
<1> QED
  BY <1>1, Invariance, PTL

(* A bound driver that has claimed a reset (doing_reset) always has the    *)
(* watchdog of btmtk_usb_toggle_rst_pin pending.                           *)
THEOREM ResetsMonitored == Spec => []ResetMonitored
<1>1. IInv => ResetMonitored
  BY DEF IInv, Watched, ResetMonitored
<1> QED
  BY <1>1, Invariance, PTL

(* A bound driver in a firmware dump has something that will end it.       *)
THEOREM DumpsEnd == Spec => []DumpEnds
<1>1. IInv => DumpEnds
  BY DEF IInv, Watched, DumpEnds
<1> QED
  BY <1>1, Invariance, PTL

(* The watchdog of a firmware dump is given up only for a reset under way, *)
(* a chip that is gone, or a driver that is unbound.                       *)
THEOREM DumpsWatched == Spec => DumpWatched
<1>1. IInv /\ [Next]_vars => [DumpKept]_vars
  <2> SUFFICES ASSUME IInv, Next PROVE DumpKept
    OBVIOUS
  <2> QED
    BY DumpKeptByAll DEF IInv
<1> QED
  BY <1>1, Invariance, PTL DEF Spec, DumpWatched

(* The driver's count of suspends is the USB core's.                       *)
THEOREM SuspendsCounted == Spec => []SuspendCounted
<1>1. IInv => SuspendCounted
  BY DEF IInv, Sleeping, SuspendCounted
<1> QED
  BY <1>1, Invariance, PTL

(* No receive URB is in flight behind the driver's back.                   *)
THEOREM UrbsAlwaysMarked == Spec => []UrbsMarked
<1>1. IInv => UrbsMarked
  BY DEF IInv
<1> QED
  BY <1>1, Invariance, PTL

(* A pulse the chip has yet to react to, on a bound device or during its   *)
(* probe, belongs to a reset that is claimed.                              *)
Claimed == pulse /\ (bound \/ hub \in Probing) => doing_reset = 1

(* Only ToggleRstPin pulses the pin, and only a probe or the end of the    *)
(* watchdog gives the claim up; both clear the pulse or find no device.    *)
LEMMA ClaimedKept ==
  ASSUME TypeOK, Sleeping, Claimed, Next
  PROVE  Claimed'
<1>1. CASE BusNext
  BY <1>1
    DEF Claimed, BusNext, ChipResets, PulseLost, Unplug, FwCrash, pcVars,
      hubVars, pinVars
<1>2. CASE TimerNext
  BY <1>2
    DEF Claimed, TypeOK, ResetTypes, TimerNext, FwDumpTimo, ToggleRstPin,
      ChipRstDiscTimo, ChipResetTimo, pcVars, hubVars
<1>3. CASE OtherNext
  BY <1>3
    DEF Claimed, TypeOK, ResetTypes, OtherNext, WifiReset, TriggerCoreDump,
      DiagReset, Toggle, ToggleRstPin, pcVars, hubVars
<1>4. CASE HubNext
  <2>1. CASE ProbeBegin
    BY <2>1 DEF Claimed, ProbeBegin
  <2>2. CASE ProbePatched
    BY <2>2 DEF Claimed, Probing, ProbePatched, pinVars
  <2>3. CASE ProbeFails
    BY <2>3 DEF Claimed, Sleeping, Probing, ProbeFails
  <2>4. CASE ProbeIface1
    BY <2>4 DEF Claimed, Sleeping, Probing, ProbeIface1
  <2>5. CASE ProbeEnd
    BY <2>5 DEF Claimed, Probing, ProbeEnd
  <2>6. CASE Disconnect
    BY <2>6 DEF Claimed, Probing, Disconnect, pcVars, hubVars
  <2> QED
    BY <1>4, <2>1, <2>2, <2>3, <2>4, <2>5, <2>6 DEF HubNext
<1>5. CASE SleepBegin
  BY <1>5 DEF Claimed, SleepBegin, pinVars, pcVars, hubVars
<1>6. CASE SleepWork
  BY <1>6
    DEF Claimed, Sleeping, TypeOK, ResetTypes, SleepWork, Suspend,
      SuspendTraffic, SuspendWoble, SleepEnd, Resume, ResumeWake,
      ResumeSubmit, ResumeAssert, SendAssertCmd, AssertFails, Toggle,
      ToggleRstPin, Thaw, pinVars, pcVars, hubVars
<1>7. CASE LateNext
  BY <1>7
    DEF Claimed, TypeOK, ResetTypes, LateNext, EarlySuspend,
      EarlySuspendWoble, LateResume, LateWake, LateSubmit, LateAssert,
      SendAssertCmd, AssertFails, Toggle, ToggleRstPin, pinVars, hubVars
<1>8. CASE StackNext
  BY <1>8
    DEF Claimed, TypeOK, ResetTypes, StackNext, OpenNext, Open,
      OpenPowerCheck, OpenPowering, OpenSleepCmd, OpenUrbs, OpenDone,
      ReadHwErr, WriteAssert, Close, CloseDeinit, CloseDone, Powered, Toggle,
      ToggleRstPin, pinVars, pcVars, hubVars
<1>9. ASSUME NEW last \in BOOLEAN, BulkInDump(last)
     PROVE  Claimed'
  BY <1>9
    DEF Claimed, TypeOK, ResetTypes, BulkInDump, ToggleRstPin, pcVars, hubVars
<1> QED
  BY <1>1, <1>2, <1>3, <1>4, <1>5, <1>6, <1>7, <1>8, <1>9 DEF Next

(* Every pulse on the reset pin of a bound device, and every one during    *)
(* its probe, has the watchdog pending.  PulseMonitored, which says so of  *)
(* every pulse, fails only where the probe of interface 1 follows a failed *)
(* probe of interface 0.                                                   *)
THEOREM PulsesWatched == Spec => []PulseWatched
<1>1. Init => Claimed
  BY DEF Init, Claimed
<1>2. IInv /\ Claimed /\ [Next]_vars => Claimed'
  <2> SUFFICES ASSUME IInv, Claimed, [Next]_vars PROVE Claimed'
    OBVIOUS
  <2>1. CASE UNCHANGED vars
    BY <2>1 DEF vars, pinVars, pcVars, hubVars, Claimed
  <2>2. CASE Next
    BY <2>2, ClaimedKept DEF IInv
  <2> QED
    BY <2>1, <2>2
<1>3. IInv /\ Claimed => PulseWatched
  BY DEF IInv, Watched, Claimed, PulseWatched, Probing
<1> QED
  BY <1>1, <1>2, <1>3, Invariance, PTL DEF Spec

(* On a kernel without early suspend, as this platform's, the driver lets  *)
(* the stack in only with a probed device, however probe, disconnect,      *)
(* resets and sleep interleave.                                            *)
THEOREM WorkingIsBound ==
  ASSUME ~EarlySuspendOS PROVE Spec => []WorkingBound
<1>1. Init => WorkingBound
  BY DEF Init, WorkingBound
<1>2. IInv /\ WorkingBound /\ [Next]_vars => WorkingBound'
  <2> SUFFICES ASSUME IInv, WorkingBound, [Next]_vars PROVE WorkingBound'
    OBVIOUS
  <2>1. CASE UNCHANGED vars
    BY <2>1 DEF vars, WorkingBound
  <2>2. CASE Next
    BY <2>2, WorkingBoundKept DEF IInv
  <2> QED
    BY <2>1, <2>2
<1> QED
  BY <1>1, <1>2, Invariance, PTL DEF Spec

=============================================================================
