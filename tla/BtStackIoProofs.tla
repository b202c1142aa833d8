-------------------------- MODULE BtStackIoProofs --------------------------
(***************************************************************************)
(* The character device: its receive ring is the ring of BtMetabuffer, so  *)
(* what is proved of that holds here; no reader is left asleep over what   *)
(* it should see (Roused), and the error event reaches its reader whole    *)
(* (EventWhole), for any ring, packets, reads, writers and number of       *)
(* faults.                                                                 *)
(***************************************************************************)
EXTENDS BtStackIo, BtMetabufferProofs

-----------------------------------------------------------------------------
(* Each step of the character device is one of the ring or none. *)
LEMMA IoStepIsRingStep ==
  ASSUME [~stray /\ IoNext]_ioVars
  PROVE  [~stray /\ Next]_vars
<1>1. CASE UNCHANGED ioVars
  BY <1>1 DEF ioVars
<1> SUFFICES ASSUME ~stray, IoNext PROVE [~stray /\ Next]_vars
  BY <1>1
<1>2. CASE IntrComplete
  BY <1>2 DEF IntrComplete, Next
<1>3. CASE BulkInComplete
  BY <1>3 DEF BulkInComplete, Next
<1>4. CASE DumpBegin \/ DumpEnd \/ WifiReset \/ ChipResets \/ Unplug
           \/ ProbeFails \/ OpenFails \/ TxComplete
  BY <1>4 DEF DumpBegin, DumpEnd, WifiReset, ChipResets, Unplug, LeaveBus,
              ProbeFails, OpenFails, TxComplete
<1>5. CASE UsbCore
  BY <1>5 DEF UsbCore, DisconnectBegin, DisconnectEnd, ProbeBegin, ProbeEnd,
              L0ProbeEnd, Next
<1>6. CASE Polls
  BY <1>6 DEF Polls, PollEnter, PollReturns, PollSleeps, PollAgain
<1>7. CASE Reads
  BY <1>7 DEF Reads, ReadBegin, ReadNothing, ReadOn, ReadHwErr, ReadRing, Next
<1>8. CASE Open \/ Close
  BY <1>8 DEF Open, Close, Next
<1>9. CASE Writes
  BY <1>9 DEF Writes, WriteBegin, WriteLock, WriteSpin, WriteSubmit
<1> QED
  BY <1>2, <1>3, <1>4, <1>5, <1>6, <1>7, <1>8, <1>9 DEF IoNext

(* Behind the character device the ring behaves as BtMetabuffer says. *)
THEOREM RingBehaves == IoSpec => Spec
<1>1. IoInit => Init
  BY DEF IoInit
<1>2. [~stray /\ IoNext]_ioVars => [~stray /\ Next]_vars
  BY IoStepIsRingStep
<1> QED
  BY <1>1, <1>2, PTL DEF IoSpec, Spec

(* So bytes reach the stack's reads in order and whole, whatever else goes *)
(* on, given a reader that keeps up with the bulk pipe.                    *)
THEOREM IoImplementsStream == ASSUME KeepsUp PROVE IoSpec => StreamSpec
BY RingBehaves, ImplementsStream, PTL

(* And a full ring once is no reason for a reset. *)
THEOREM IoResetsPatient == ASSUME FullTimes > 1 PROVE IoSpec => PatientReset
BY RingBehaves, ResetsPatient, PTL

-----------------------------------------------------------------------------
(***************************************************************************)
(* The inductive invariant.                                                *)
(***************************************************************************)

(* Where the USB core is, and what that says of the device: packets come   *)
(* only while a probed device is on the bus, and a probe starts with an    *)
(* empty ring.                                                             *)
Place ==
  /\ usb \in { "PROBE", "WORKING", "FW_DUMP", "DISCONNECT" }
  /\ live \in BOOLEAN /\ hook \in { "probe", "L0_probe" }
  /\ live => usb \in { "WORKING", "FW_DUMP" } /\ bus = "on"
  /\ hub = "leaving" => usb = "DISCONNECT"
  /\ hub \in { "probe", "L0_probe" } => usb = "PROBE" /\ read_p = write_p

(* What the reader's place says of the queue it is on. *)
ReaderPlace ==
  /\ waits \in { "none", "inq", "BT_wq" }
  /\ rd # "away" => opened
  /\ rd = "telling" => need_reset_stack
  /\ rd = "check" => waits \in { "none", "inq" }
  /\ rd = "asleep" => waits \in { "none", "inq" }
  /\ rd = "blocked" => waits = "BT_wq"

(* The error event, with its counts. *)
EventInv ==
  /\ sent \in 0..EventLen - 1
  /\ EventWhole

IoInv == Place /\ ReaderPlace /\ EventInv /\ Roused

(* The steps of the device. *)
LEMMA DeviceKeeps ==
  ASSUME IoInv,
         IntrComplete \/ BulkInComplete \/ DumpBegin \/ DumpEnd \/ WifiReset
           \/ ChipResets \/ Unplug \/ ProbeFails \/ UsbCore
  PROVE  IoInv'
<1> USE DEF IoInv, Place, ReaderPlace, EventInv, EventWhole, Roused, HasData,
            fopsVars, readVars, vars, ringVars, writeVars
<1>1. CASE IntrComplete
  BY <1>1 DEF IntrComplete, WakeOn, WakeReaders, PushEvent, Toggle
<1>2. CASE BulkInComplete
  BY <1>2 DEF BulkInComplete, WakeOn, WakeReaders, Toggle
<1>3. CASE DumpBegin
  BY <1>3 DEF DumpBegin
<1>4. CASE DumpEnd \/ WifiReset
  BY <1>4 DEF DumpEnd, WifiReset, Toggle
<1>5. CASE ChipResets \/ Unplug
  <2>1. LeaveBus
    BY <1>5 DEF ChipResets, Unplug
  <2>2. Place' /\ ReaderPlace'
    BY <2>1 DEF LeaveBus
  <2>3. EventInv' /\ Roused'
    BY <2>1 DEF LeaveBus
  <2> QED
    BY <2>2, <2>3
<1>6. CASE ProbeFails
  BY <1>6 DEF ProbeFails, Toggle
<1>7. CASE DisconnectBegin
  BY <1>7 DEF DisconnectBegin
<1>8. CASE DisconnectEnd
  BY <1>8 DEF DisconnectEnd, Empty
<1>9. CASE ProbeBegin
  BY <1>9 DEF ProbeBegin, Empty
<1>10. CASE ProbeEnd
  BY <1>10 DEF ProbeEnd, WakeInq
<1>11. CASE L0ProbeEnd
  BY <1>11 DEF L0ProbeEnd, WakeForError, WakeInq
<1> QED
  BY <1>1, <1>2, <1>3, <1>4, <1>5, <1>6, <1>7, <1>8, <1>9, <1>10, <1>11
     DEF UsbCore

(* The steps of the stack. *)
LEMMA StackKeeps ==
  ASSUME IoInv,
         Polls \/ Reads \/ Writes \/ Open \/ OpenFails \/ Close \/ TxComplete
  PROVE  IoInv'
<1> USE DEF IoInv, Place, ReaderPlace, EventInv, EventWhole, Roused, HasData,
            fopsVars, lifeVars, readVars, vars, ringVars, writeVars
<1>1. CASE PollEnter
  BY <1>1 DEF PollEnter
<1>2. CASE PollReturns
  BY <1>2 DEF PollReturns
<1>3. CASE PollSleeps
  BY <1>3 DEF PollSleeps, Ready
<1>4. CASE PollAgain
  BY <1>4 DEF PollAgain
<1>5. CASE ReadBegin
  BY <1>5 DEF ReadBegin
<1>6. CASE ReadNothing \/ ReadOn
  BY <1>6 DEF ReadNothing, ReadOn
<1>7. ASSUME NEW count \in Counts, ReadHwErr(count) PROVE IoInv'
  <2>1. count \in Nat \ {0}
    BY MetabufferAssumption
  <2> DEFINE n    == Least(EventLen - sent, count)
             last == sent + n = EventLen
  <2>2. /\ rd = "telling" /\ need_reset_stack /\ opened
        /\ sent' = IF last THEN 0 ELSE sent + n
        /\ heard' = (sent + n) % EventLen
        /\ need_reset_stack' = (need_reset_stack /\ ~last)
        /\ rd' = "away" /\ opened' = opened
    BY <1>7 DEF ReadHwErr, TakeBack
  <2>3. sent \in 0..3 /\ n \in 1..4 - sent /\ EventLen = 4
    BY <2>1 DEF Least, EventLen
  <2> HIDE DEF n
  <2>4. sent' \in 0..3 /\ heard' = sent' /\ (sent' # 0 => ~last)
    <3>1. CASE last
      BY <2>2, <2>3, <3>1, 4 % 4 = 0
    <3>2. CASE ~last
      <4>1. sent + n \in 1..3
        BY <2>3, <3>2
      <4>2. (sent + n) % 4 = sent + n
        BY <4>1
      <4> QED
        BY <2>2, <2>3, <3>2, <4>1, <4>2
    <3> QED
      BY <3>1, <3>2
  <2>5. EventInv'
    <3>1. sent' \in 0..EventLen - 1
      BY <2>3, <2>4
    <3>2. sent' # 0 => need_reset_stack' /\ opened'
      <4> HIDE DEF last
      <4> QED
        BY <2>2, <2>4, Zenon
    <3> QED
      BY <2>4, <3>1, <3>2
  <2>6. /\ UNCHANGED << usb, bus, hub, live, hook, read_p, write_p, waits,
                        woken, leftACLSize >>
    BY <1>7 DEF ReadHwErr
  <2>7. Place' /\ ReaderPlace' /\ Roused'
    <3>1. Place'
      BY <2>6
    <3>2. ReaderPlace'
      BY <2>2, <2>6
    <3>3. Roused'
      BY <2>2, <2>6
    <3> QED
      BY <3>1, <3>2, <3>3
  <2> QED
    BY <2>5, <2>7
<1>8. ASSUME NEW count \in Counts, ReadRing(count) PROVE IoInv'
  BY <1>8 DEF ReadRing, FopsRead
<1>9. CASE Open
  BY <1>9 DEF Open, Empty
<1>10. CASE OpenFails
  BY <1>10 DEF OpenFails, Toggle
<1>11. CASE Close
  BY <1>11 DEF Close, Empty, SentCleared, EventLen, Toggle
<1>12. CASE TxComplete
  BY <1>12 DEF TxComplete
<1>13. CASE Writes
  BY <1>13 DEF Writes, WriteBegin, WriteLock, WriteSpin, WriteSubmit
<1> QED
  BY <1>1, <1>2, <1>3, <1>4, <1>5, <1>6, <1>7, <1>8, <1>9, <1>10, <1>11,
     <1>12, <1>13 DEF Polls, Reads

(* The invariant, for the character device as a whole. *)
LEMMA IoInvHolds == IoSpec => []IoInv
<1>1. IoInit => IoInv
  <2> SUFFICES ASSUME IoInit PROVE IoInv
    OBVIOUS
  <2>1. Place
    BY DEF IoInit, Place
  <2>2. ReaderPlace
    BY DEF IoInit, ReaderPlace
  <2>3. EventInv
    BY DEF IoInit, EventInv, EventWhole, EventLen
  <2>4. Roused
    BY DEF IoInit, Roused
  <2> QED
    BY <2>1, <2>2, <2>3, <2>4 DEF IoInv
<1>2. ASSUME IoInv, [~stray /\ IoNext]_ioVars PROVE IoInv'
  <2>1. CASE UNCHANGED ioVars
    BY <1>2, <2>1 DEF ioVars, vars, ringVars, lifeVars, fopsVars, readVars,
         writeVars, IoInv, Place, ReaderPlace, EventInv, EventWhole, Roused,
         HasData
  <2>2. CASE IoNext
    BY <1>2, <2>2, DeviceKeeps, StackKeeps DEF IoNext
  <2> QED
    BY <1>2, <2>1, <2>2
<1> QED
  BY <1>1, <1>2, PTL DEF IoSpec

(* No reader in WORKING sleeps on unwoken over whole packets, nor one in a *)
(* poll over an error.                                                     *)
THEOREM ReadersRoused == IoSpec => []Roused
BY IoInvHolds, PTL DEF IoInv

(* The error event reaches its opener whole. *)
THEOREM EventsWhole == IoSpec => []EventWhole
BY IoInvHolds, PTL DEF IoInv, EventInv

-----------------------------------------------------------------------------
(* The types of the variables the ring does not have. *)
LifeTypes ==
  /\ usb \in { "PROBE", "WORKING", "FW_DUMP", "DISCONNECT" }
  /\ bus \in { "on", "off" }
  /\ hub \in { "idle", "leaving", "probe", "L0_probe", "L0" }
  /\ hook \in { "probe", "L0_probe" }
  /\ bound \in BOOLEAN /\ live \in BOOLEAN /\ doing_reset \in BOOLEAN
FopsTypes ==
  /\ opened \in BOOLEAN /\ need_reset_stack \in BOOLEAN
  /\ need_reopen \in BOOLEAN /\ woken \in BOOLEAN
  /\ rd \in { "away", "check", "asleep", "readable", "telling", "ring",
              "blocked" }
  /\ waits \in { "none", "inq", "BT_wq" }
WriteTypes ==
  /\ queue \in 0..Writers /\ wr \in { "none", "spin", "submit" }
  /\ meta_tx \in BOOLEAN /\ starved \in BOOLEAN /\ out \in Nat

LEMMA LifeTypesKept ==
  ASSUME LifeTypes, [~stray /\ IoNext]_ioVars
  PROVE  LifeTypes'
<1> USE DEF LifeTypes, lifeVars, Toggle
<1>1. CASE UNCHANGED lifeVars
  BY <1>1
<1>2. CASE IntrComplete \/ BulkInComplete \/ DumpBegin \/ DumpEnd \/ WifiReset
  BY <1>2 DEF IntrComplete, BulkInComplete, DumpBegin, DumpEnd, WifiReset
<1>3. CASE ChipResets \/ Unplug
  BY <1>3 DEF ChipResets, Unplug, LeaveBus
<1>4. CASE ProbeFails \/ OpenFails
  BY <1>4 DEF ProbeFails, OpenFails
<1>5. CASE UsbCore
  BY <1>5 DEF UsbCore, DisconnectBegin, DisconnectEnd, ProbeBegin, ProbeEnd,
              L0ProbeEnd
<1>6. CASE Polls \/ Reads
  BY <1>6 DEF Polls, PollEnter, PollReturns, PollSleeps, PollAgain, Reads,
              ReadBegin, ReadNothing, ReadOn, ReadHwErr, ReadRing
<1>7. CASE Open \/ Close \/ TxComplete
  BY <1>7 DEF Open, Close, TxComplete
<1>8. CASE Writes
  BY <1>8 DEF Writes, WriteBegin, WriteLock, WriteSpin, WriteSubmit
<1> QED
  BY <1>1, <1>2, <1>3, <1>4, <1>5, <1>6, <1>7, <1>8 DEF IoNext, ioVars

LEMMA FaultsKept ==
  ASSUME faults \in 0..MaxFaults, [~stray /\ IoNext]_ioVars
  PROVE  faults' \in 0..MaxFaults
<1>1. faults' = faults \/ Fault
  <2> USE DEF lifeVars
  <2>1. CASE UNCHANGED faults
    BY <2>1
  <2>2. CASE \/ IntrComplete \/ BulkInComplete \/ DumpBegin \/ DumpEnd
             \/ WifiReset \/ ChipResets \/ Unplug \/ ProbeFails \/ UsbCore
    BY <2>2 DEF IntrComplete, BulkInComplete, DumpBegin, DumpEnd, WifiReset,
                ChipResets, Unplug, ProbeFails, UsbCore, DisconnectBegin,
                DisconnectEnd, ProbeBegin, ProbeEnd, L0ProbeEnd
  <2>3. CASE Polls \/ Reads
    BY <2>3 DEF Polls, PollEnter, PollReturns, PollSleeps, PollAgain, Reads,
                ReadBegin, ReadNothing, ReadOn, ReadHwErr, ReadRing
  <2>4. CASE Open \/ OpenFails \/ Close \/ TxComplete
    BY <2>4 DEF Open, OpenFails, Close, TxComplete
  <2>5. CASE Writes
    BY <2>5 DEF Writes, WriteBegin, WriteLock, WriteSpin, WriteSubmit
  <2> QED
    BY <2>1, <2>2, <2>3, <2>4, <2>5 DEF IoNext, ioVars
<1> QED
  BY <1>1, StackIoAssumption DEF Fault

LEMMA FopsTypesKept ==
  ASSUME FopsTypes, LifeTypes, [~stray /\ IoNext]_ioVars
  PROVE  FopsTypes'
<1> USE DEF FopsTypes, LifeTypes, fopsVars, readVars, WakeInq, WakeOn,
            WakeReaders
<1>1. CASE UNCHANGED << fopsVars, readVars >>
  BY <1>1
<1>2. CASE IntrComplete \/ BulkInComplete \/ DumpBegin \/ DumpEnd \/ WifiReset
  BY <1>2 DEF IntrComplete, BulkInComplete, DumpBegin, DumpEnd, WifiReset
<1>3. CASE ChipResets \/ Unplug \/ ProbeFails \/ OpenFails
  BY <1>3 DEF ChipResets, Unplug, LeaveBus, ProbeFails, OpenFails
<1>4. CASE UsbCore
  BY <1>4 DEF UsbCore, DisconnectBegin, DisconnectEnd, ProbeBegin, ProbeEnd,
              L0ProbeEnd, WakeForError
<1>5. CASE Polls
  BY <1>5 DEF Polls, PollEnter, PollReturns, PollSleeps, PollAgain
<1>6. CASE Reads
  BY <1>6 DEF Reads, ReadBegin, ReadNothing, ReadOn, ReadHwErr, ReadRing,
              TakeBack
<1>7. CASE Open \/ Close \/ TxComplete
  BY <1>7 DEF Open, Close, TxComplete
<1>8. CASE Writes
  BY <1>8 DEF Writes, WriteBegin, WriteLock, WriteSpin, WriteSubmit
<1> QED
  BY <1>1, <1>2, <1>3, <1>4, <1>5, <1>6, <1>7, <1>8 DEF IoNext, ioVars

LEMMA WriteTypesKept ==
  ASSUME WriteTypes, [~stray /\ IoNext]_ioVars
  PROVE  WriteTypes'
<1> USE DEF WriteTypes, writeVars
<1>1. CASE UNCHANGED writeVars
  BY <1>1
<1>2. CASE IntrComplete \/ BulkInComplete \/ DumpBegin \/ DumpEnd \/ WifiReset
  BY <1>2 DEF IntrComplete, BulkInComplete, DumpBegin, DumpEnd, WifiReset
<1>3. CASE ChipResets \/ Unplug \/ ProbeFails \/ OpenFails
  BY <1>3 DEF ChipResets, Unplug, LeaveBus, ProbeFails, OpenFails
<1>4. CASE UsbCore
  BY <1>4 DEF UsbCore, DisconnectBegin, DisconnectEnd, ProbeBegin, ProbeEnd,
              L0ProbeEnd, MetaTxCleared
<1>5. CASE Polls \/ Reads
  BY <1>5 DEF Polls, PollEnter, PollReturns, PollSleeps, PollAgain, Reads,
              ReadBegin, ReadNothing, ReadOn, ReadHwErr, ReadRing
<1>6. CASE Open \/ Close
  BY <1>6 DEF Open, Close
<1>7. CASE TxComplete
  <2>1. out' \in Nat
    <3> HIDE DEF writeVars
    <3> QED
      BY <1>7 DEF TxComplete
  <2>2. /\ queue' = queue /\ wr' = wr
        /\ meta_tx' = FALSE /\ starved' = FALSE
    BY <1>7 DEF TxComplete
  <2> QED
    BY <2>1, <2>2
<1>8. CASE WriteBegin
  <2>1. /\ queue + (IF wr = "none" THEN 0 ELSE 1) < Writers
        /\ queue' = queue + 1 /\ UNCHANGED << wr, meta_tx, starved, out >>
    BY <1>8 DEF WriteBegin
  <2>2. queue' \in 0..Writers
    BY <2>1, StackIoAssumption
  <2> QED
    BY <2>1, <2>2
<1>9. CASE WriteLock
  <2>1. /\ queue > 0 /\ queue' = queue - 1 /\ wr' = "spin"
        /\ UNCHANGED << meta_tx, starved, out >>
    BY <1>9 DEF WriteLock
  <2>2. queue' \in 0..Writers
    BY <2>1, StackIoAssumption
  <2> QED
    BY <2>1, <2>2
<1>10. CASE WriteSpin
  BY <1>10 DEF WriteSpin
<1>11. CASE WriteSubmit
  <2>1. /\ queue' = queue /\ wr' = "none" /\ meta_tx' = meta_tx
        /\ out' = out \/ out' = out + 1
        /\ starved' = starved \/ starved' = meta_tx
    BY <1>11 DEF WriteSubmit
  <2>2. out' \in Nat
    BY <2>1
  <2> QED
    BY <2>1, <2>2
<1> QED
  BY <1>1, <1>2, <1>3, <1>4, <1>5, <1>6, <1>7, <1>8, <1>9, <1>10, <1>11
     DEF IoNext, Writes, ioVars

(* Every variable of the character device keeps its type. *)
THEOREM IoTypeCorrect == IoSpec => []IoTypeOK
<1> DEFINE Types == LifeTypes /\ FopsTypes /\ WriteTypes
                    /\ faults \in 0..MaxFaults
<1>1. IoInit => Types
  <2> SUFFICES ASSUME IoInit PROVE Types
    OBVIOUS
  <2>1. LifeTypes
    BY DEF IoInit, LifeTypes
  <2>2. FopsTypes
    BY DEF IoInit, FopsTypes
  <2>3. WriteTypes
    <3>1. queue \in 0..Writers
      BY StackIoAssumption DEF IoInit
    <3> QED
      BY <3>1 DEF IoInit, WriteTypes
  <2>4. faults \in 0..MaxFaults
    BY StackIoAssumption DEF IoInit
  <2> QED
    BY <2>1, <2>2, <2>3, <2>4
<1>2. Types /\ [~stray /\ IoNext]_ioVars => Types'
  BY LifeTypesKept, FaultsKept, FopsTypesKept, WriteTypesKept
<1>3. IoSpec => []Types
  BY <1>1, <1>2, PTL DEF IoSpec
<1>4. IoSpec => []TypeOK
  BY RingBehaves, RingTypeCorrect, PTL
<1>5. TypeOK /\ Types /\ IoInv => IoTypeOK
  BY DEF LifeTypes, FopsTypes, WriteTypes, IoInv, EventInv, EventWhole,
         IoTypeOK
<1> QED
  BY <1>3, <1>4, <1>5, IoInvHolds, PTL

-----------------------------------------------------------------------------
(* The steps of the device take away no reason of meta_tx.                 *)
LEMMA DeviceUnderway ==
  ASSUME Underway,
         IntrComplete \/ BulkInComplete \/ DumpBegin \/ DumpEnd \/ WifiReset
           \/ ChipResets \/ Unplug \/ ProbeFails \/ UsbCore
  PROVE  Underway'
<1> USE DEF Underway, writeVars
<1>1. CASE IntrComplete \/ BulkInComplete
  BY <1>1 DEF IntrComplete, BulkInComplete
<1>2. CASE DumpBegin \/ DumpEnd \/ WifiReset \/ ProbeFails
  BY <1>2 DEF DumpBegin, DumpEnd, WifiReset, ProbeFails
<1>3. CASE ChipResets \/ Unplug
  BY <1>3 DEF ChipResets, Unplug, LeaveBus
<1>4. CASE UsbCore
  BY <1>4 DEF UsbCore, DisconnectBegin, DisconnectEnd, ProbeBegin, ProbeEnd,
              L0ProbeEnd, MetaTxCleared
<1> QED
  BY <1>1, <1>2, <1>3, <1>4

(* Nor do those of the stack, but for a transfer that fails by itself.     *)
LEMMA StackUnderway ==
  ASSUME WriteTypes, bus \in { "on", "off" }, Underway,
         Polls \/ Reads \/ Writes \/ Open \/ OpenFails \/ Close \/ TxComplete
  PROVE  Underway'
<1> USE DEF Underway, writeVars, lifeVars
<1>1. CASE Polls
  BY <1>1 DEF Polls, PollEnter, PollReturns, PollSleeps, PollAgain
<1>2. CASE Reads
  BY <1>2 DEF Reads, ReadBegin, ReadNothing, ReadOn, ReadHwErr, ReadRing
<1>3. CASE Open \/ OpenFails \/ Close \/ TxComplete
  BY <1>3 DEF Open, OpenFails, Close, TxComplete
<1>4. CASE WriteBegin \/ WriteLock \/ WriteSpin
  BY <1>4 DEF WriteBegin, WriteLock, WriteSpin
<1>5. CASE WriteSubmit
  <2>1. /\ bus' = bus /\ meta_tx' = meta_tx /\ out \in Nat
        /\ \/ out' = out + 1
           \/ bus = "off"
           \/ starved' = meta_tx
    BY <1>5 DEF WriteSubmit, WriteTypes
  <2>2. CASE out' = out + 1
    <3>1. out' > 0
      BY <2>1, <2>2
    <3> QED
      BY <3>1
  <2>3. CASE bus = "off"
    BY <2>1, <2>3
  <2>4. CASE starved' = meta_tx
    BY <2>1, <2>4, Zenon
  <2> QED
    BY <2>1, <2>2, <2>3, <2>4
<1> QED
  BY <1>1, <1>2, <1>3, <1>4, <1>5 DEF Writes

(* The way for ACL packets is never blocked for nothing: with meta_tx set, *)
(* a transfer is in flight or about to be, whose completion clears it, or  *)
(* the chip is off the bus, and the probe clears it - except after a       *)
(* transfer whose own allocation or submission failed (2142, 2149, 2169).  *)
THEOREM WayUnderway == IoSpec => []Underway
<1> DEFINE Types == LifeTypes /\ WriteTypes
<1>1. IoInit => Types /\ Underway
  <2> SUFFICES ASSUME IoInit PROVE Types /\ Underway
    OBVIOUS
  <2>1. LifeTypes
    BY DEF IoInit, LifeTypes
  <2>2. WriteTypes
    <3>1. queue \in 0..Writers
      BY StackIoAssumption DEF IoInit
    <3> QED
      BY <3>1 DEF IoInit, WriteTypes
  <2>3. Underway
    BY DEF IoInit, Underway
  <2> QED
    BY <2>1, <2>2, <2>3
<1>2. Types /\ [~stray /\ IoNext]_ioVars => Types'
  BY LifeTypesKept, WriteTypesKept
<1>3. Types /\ Underway /\ [~stray /\ IoNext]_ioVars => Underway'
  <2> SUFFICES ASSUME Types, Underway, [~stray /\ IoNext]_ioVars
               PROVE  Underway'
    OBVIOUS
  <2>1. CASE UNCHANGED ioVars
    BY <2>1 DEF ioVars, lifeVars, writeVars, Underway
  <2>2. CASE IoNext
    BY <2>2, DeviceUnderway, StackUnderway DEF IoNext, LifeTypes
  <2> QED
    BY <2>1, <2>2
<1> QED
  BY <1>1, <1>2, <1>3, PTL DEF IoSpec

=============================================================================
