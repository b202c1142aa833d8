--------------------------- MODULE DspLifeProofs ---------------------------
(***************************************************************************)
(* Type correctness of DspLife and its two safety properties, for any set  *)
(* of loads and any number of failures.  The inductive invariant says what *)
(* an undisturbed recovery is: at most one thing stands for it at a time   *)
(* (Single), each of its steps finds what the one before left (Steps), and *)
(* between recoveries the DSP serves, or will (Rest).                      *)
(***************************************************************************)
EXTENDS DspLife, TLAPS

(* No load has its hands on the DSP.                                       *)
NoBusy == \A l \in Loads : loads[l] \notin Busy
(* The DSP runs, and that it is ready is known or will be.                 *)
Alive == dsp \in { "booting", "up" } /\ (dsp = "up" => dsp_ready \/ ready_msg)

(* A failure stands in one place: the queued work, the uevent, the write   *)
(* of the control, the sleeping machine, or one load.                      *)
Single ==
  /\ uevents \in { 0, 1 }
  /\ work => uevents = 0 /\ put = "none" /\ pm = "awake" /\ NoBusy
  /\ uevents = 1 => put = "none" /\ pm \in { "awake", "loaded" } /\ NoBusy
  /\ put # "none" => pm = "awake" /\ NoBusy
  /\ pm # "awake" => NoBusy
  /\ pm = "loaded" => uevents = 1
  /\ \A k, l \in Loads : loads[k] \in Busy /\ loads[l] \in Busy => k = l

(* What the steps of a recovery rely on.                                   *)
Steps ==
  /\ put = "pcm" => ~boot_done
  /\ \A l \in Loads :
       /\ loads[l] # "torn"
       /\ loads[l] = "power" => sram
       /\ loads[l] \in { "run", "enable" } => Alive
       /\ loads[l] = "enable" => boot_done

(* Between recoveries: never started, or serving.                          *)
Rest ==
  Idle =>
    \/ ~started /\ ~boot_done /\ dsp = "off"
    \/ /\ boot_done /\ irq /\ Alive
       /\ dsp_init \/ \E l \in Loads : loads[l] \in { "wait", "init" }

(* The inductive invariant, beside TypeOK.                                 *)
Good == ~spoilt => Single /\ Steps /\ Rest

(* TypeOK in two parts, so that no leaf has both numbers and Booleans.     *)
Counts == uevents \in Nat /\ failures \in 0..MaxFailures

(* The other part.                                                         *)
Kinds ==
  /\ dsp \in { "off", "booting", "up", "hung" } /\ sram \in BOOLEAN /\ ready_msg \in BOOLEAN
  /\ boot_done \in BOOLEAN /\ irq \in BOOLEAN /\ work \in BOOLEAN
  /\ put \in { "none", "dbg", "rst", "pcm" } /\ loads \in [Loads -> LoadPcs]
  /\ dsp_ready \in BOOLEAN /\ dsp_init \in BOOLEAN
  /\ pm \in { "awake", "no_irq", "asleep", "loaded" }
  /\ started \in BOOLEAN /\ spoilt \in BOOLEAN

(* The initial state is well typed.                                        *)
LEMMA TypeInit == Init => TypeOK
<1> SUFFICES ASSUME Init PROVE TypeOK
  OBVIOUS
<1>1. Counts
  BY DspLifeAssumption DEF Init, Counts
<1>2. Kinds
  BY Zenon DEF Init, Kinds, LoadPcs, Busy, Writing
<1> QED
  BY <1>1, <1>2, Zenon DEF TypeOK, Counts, Kinds


(* Nothing has been started: the second invariant holds initially.         *)
LEMMA GoodInit == Init => Good
BY DEF Init, Good, Single, Steps, Rest, NoBusy, Alive, Busy, Writing, Idle

(* A load begins to write: the types stay.                                 *)
LEMMA TypeFetched == ASSUME TypeOK, NEW l \in Loads, Fetched(l) PROVE TypeOK'
<1> USE DEF Fetched, chip, watch, flags, past, To, Fails, Reset, AsyncLoad
<1>1. Counts'
  BY DspLifeAssumption DEF TypeOK, Counts
<1>2. (loads \in [Loads -> LoadPcs])'
  BY DEF TypeOK, LoadPcs, Busy, Writing
<1>3. (sram \in BOOLEAN /\ ready_msg \in BOOLEAN /\ boot_done \in BOOLEAN)'
  BY DEF TypeOK
<1>4. Kinds'
  BY <1>2, <1>3 DEF TypeOK, Kinds
<1> QED
  BY <1>1, <1>4, Zenon DEF TypeOK, Counts, Kinds

(* A load begins to write: the invariant stays.                            *)
LEMMA GoodFetched ==
  ASSUME TypeOK, Good, NEW l \in Loads, Fetched(l)
  PROVE  Good'
<1> SUFFICES ASSUME ~spoilt' PROVE (Single /\ Steps /\ Rest)'
  BY DEF Good
<1> USE DEF chip, watch, flags, past, To, Reset, AsyncLoad, Answering, Idle,
      NoBusy, Alive, Busy, Writing, LoadPcs
<1>0. ~spoilt /\ Single /\ Steps /\ Rest
  BY DEF Good, Fetched
<1>1. Single'
  BY <1>0 DEF Fetched, TypeOK, Single, Steps
<1>2. Steps'
  BY <1>0 DEF Fetched, TypeOK, Single, Steps
<1>3. Rest'
  BY <1>0 DEF Fetched, TypeOK, Single, Steps, Rest
<1> QED
  BY <1>1, <1>2, <1>3

(* A load has written: the types stay.                                     *)
LEMMA TypeWritten == ASSUME TypeOK, NEW l \in Loads, Written(l) PROVE TypeOK'
<1> USE DEF Written, chip, watch, flags, past, To, Fails, Reset, AsyncLoad
<1>1. Counts'
  BY DspLifeAssumption DEF TypeOK, Counts
<1>2. (loads \in [Loads -> LoadPcs])'
  BY DEF TypeOK, LoadPcs, Busy, Writing
<1>3. Kinds'
  BY <1>2 DEF TypeOK, Kinds
<1> QED
  BY <1>1, <1>3, Zenon DEF TypeOK, Counts, Kinds

(* A load has written: the invariant stays.                                *)
LEMMA GoodWritten ==
  ASSUME TypeOK, Good, NEW l \in Loads, Written(l)
  PROVE  Good'
<1> SUFFICES ASSUME ~spoilt' PROVE (Single /\ Steps /\ Rest)'
  BY DEF Good
<1> USE DEF chip, watch, flags, past, To, Reset, AsyncLoad, Answering, Idle,
      NoBusy, Alive, Busy, Writing, LoadPcs
<1>0. ~spoilt /\ Single /\ Steps /\ Rest
  BY DEF Good, Written
<1>1. Single'
  BY <1>0 DEF Written, TypeOK, Single, Steps
<1>2. Steps'
  BY <1>0 DEF Written, TypeOK, Single, Steps
<1>3. Rest'
  BY <1>0 DEF Written, TypeOK, Single, Steps, Rest
<1> QED
  BY <1>1, <1>2, <1>3

(* A load powers the DSP on: the types stay.                               *)
LEMMA TypePowerOn == ASSUME TypeOK, NEW l \in Loads, PowerOn(l) PROVE TypeOK'
<1> USE DEF PowerOn, chip, watch, flags, past, To, Fails, Reset, AsyncLoad
<1>1. Counts'
  BY DspLifeAssumption DEF TypeOK, Counts
<1>2. (loads \in [Loads -> LoadPcs])'
  BY DEF TypeOK, LoadPcs, Busy, Writing
<1>3. Kinds'
  BY <1>2 DEF TypeOK, Kinds
<1> QED
  BY <1>1, <1>3, Zenon DEF TypeOK, Counts, Kinds

(* A load powers the DSP on: the invariant stays.                          *)
LEMMA GoodPowerOn ==
  ASSUME TypeOK, Good, NEW l \in Loads, PowerOn(l)
  PROVE  Good'
<1> SUFFICES ASSUME ~spoilt' PROVE (Single /\ Steps /\ Rest)'
  BY DEF Good
<1> USE DEF chip, watch, flags, past, To, Reset, AsyncLoad, Answering, Idle,
      NoBusy, Alive, Busy, Writing, LoadPcs
<1>0. ~spoilt /\ Single /\ Steps /\ Rest
  BY DEF Good, PowerOn
<1>1. Single'
  BY <1>0 DEF PowerOn, TypeOK, Single, Steps
<1>2. Steps'
  BY <1>0 DEF PowerOn, TypeOK, Single, Steps
<1>3. Rest'
  BY <1>0 DEF PowerOn, TypeOK, Single, Steps, Rest
<1> QED
  BY <1>1, <1>2, <1>3

(* A load sets boot_done: the types stay.                                  *)
LEMMA TypeSetRunStatus ==
  ASSUME TypeOK, NEW l \in Loads, SetRunStatus(l)
  PROVE  TypeOK'
<1> USE DEF SetRunStatus, chip, watch, flags, past, To, Fails, Reset, AsyncLoad
<1>1. Counts'
  BY DspLifeAssumption DEF TypeOK, Counts
<1>2. (loads \in [Loads -> LoadPcs])'
  BY DEF TypeOK, LoadPcs, Busy, Writing
<1>3. Kinds'
  BY <1>2 DEF TypeOK, Kinds
<1> QED
  BY <1>1, <1>3, Zenon DEF TypeOK, Counts, Kinds

(* A load sets boot_done: the invariant stays.                             *)
LEMMA GoodSetRunStatus ==
  ASSUME TypeOK, Good, NEW l \in Loads, SetRunStatus(l)
  PROVE  Good'
<1> SUFFICES ASSUME ~spoilt' PROVE (Single /\ Steps /\ Rest)'
  BY DEF Good
<1> USE DEF chip, watch, flags, past, To, Reset, AsyncLoad, Answering, Idle,
      NoBusy, Alive, Busy, Writing, LoadPcs
<1>0. ~spoilt /\ Single /\ Steps /\ Rest
  BY DEF Good, SetRunStatus
<1>1. Single'
  BY <1>0 DEF SetRunStatus, TypeOK, Single, Steps
<1>2. Steps'
  BY <1>0 DEF SetRunStatus, TypeOK, Single, Steps
<1>3. Rest'
  BY <1>0 DEF SetRunStatus, TypeOK, Single, Steps, Rest
<1> QED
  BY <1>1, <1>2, <1>3

(* A load arms the watchdog: the types stay.                               *)
LEMMA TypeWdtEnable ==
  ASSUME TypeOK, NEW l \in Loads, WdtEnable(l)
  PROVE  TypeOK'
<1> USE DEF WdtEnable, chip, watch, flags, past, To, Fails, Reset, AsyncLoad
<1>1. Counts'
  BY DspLifeAssumption DEF TypeOK, Counts
<1>2. (loads \in [Loads -> LoadPcs])'
  BY DEF TypeOK, LoadPcs, Busy, Writing
<1>3. Kinds'
  BY <1>2 DEF TypeOK, Kinds
<1> QED
  BY <1>1, <1>3, Zenon DEF TypeOK, Counts, Kinds

(* A load arms the watchdog: the invariant stays.                          *)
LEMMA GoodWdtEnable ==
  ASSUME TypeOK, Good, NEW l \in Loads, WdtEnable(l)
  PROVE  Good'
<1> SUFFICES ASSUME ~spoilt' PROVE (Single /\ Steps /\ Rest)'
  BY DEF Good
<1> USE DEF chip, watch, flags, past, To, Reset, AsyncLoad, Answering, Idle,
      NoBusy, Alive, Busy, Writing, LoadPcs
<1>0. ~spoilt /\ Single /\ Steps /\ Rest
  BY DEF Good, WdtEnable
<1>1. Single'
  BY <1>0 DEF WdtEnable, TypeOK, Single, Steps
<1>2. Steps'
  BY <1>0 DEF WdtEnable, TypeOK, Single, Steps
<1>3. Rest'
  BY <1>0 DEF WdtEnable, TypeOK, Single, Steps, Rest
<1> QED
  BY <1>1, <1>2, <1>3

(* A load sees the DSP ready: the types stay.                              *)
LEMMA TypeWaitDspReady ==
  ASSUME TypeOK, NEW l \in Loads, WaitDspReady(l)
  PROVE  TypeOK'
<1> USE DEF WaitDspReady, chip, watch, flags, past, To, Fails, Reset, AsyncLoad
<1>1. Counts'
  BY DspLifeAssumption DEF TypeOK, Counts
<1>2. (loads \in [Loads -> LoadPcs])'
  BY DEF TypeOK, LoadPcs, Busy, Writing
<1>3. Kinds'
  BY <1>2 DEF TypeOK, Kinds
<1> QED
  BY <1>1, <1>3, Zenon DEF TypeOK, Counts, Kinds

(* A load sees the DSP ready: the invariant stays.                         *)
LEMMA GoodWaitDspReady ==
  ASSUME TypeOK, Good, NEW l \in Loads, WaitDspReady(l)
  PROVE  Good'
<1> SUFFICES ASSUME ~spoilt' PROVE (Single /\ Steps /\ Rest)'
  BY DEF Good
<1> USE DEF chip, watch, flags, past, To, Reset, AsyncLoad, Answering, Idle,
      NoBusy, Alive, Busy, Writing, LoadPcs
<1>0. ~spoilt /\ Single /\ Steps /\ Rest
  BY DEF Good, WaitDspReady
<1>1. Single'
  BY <1>0 DEF WaitDspReady, TypeOK, Single, Steps
<1>2. Steps'
  BY <1>0 DEF WaitDspReady, TypeOK, Single, Steps
<1>3. Rest'
  BY <1>0 DEF WaitDspReady, TypeOK, Single, Steps, Rest
<1> QED
  BY <1>1, <1>2, <1>3

(* A load gives up waiting: the types stay.                                *)
LEMMA TypeReadyTimeout ==
  ASSUME TypeOK, NEW l \in Loads, ReadyTimeout(l)
  PROVE  TypeOK'
<1> USE DEF ReadyTimeout, chip, watch, flags, past, To, Fails, Reset, AsyncLoad
<1>1. Counts'
  BY DspLifeAssumption DEF TypeOK, Counts
<1>2. (loads \in [Loads -> LoadPcs])'
  BY DEF TypeOK, LoadPcs, Busy, Writing
<1>3. Kinds'
  BY <1>2 DEF TypeOK, Kinds
<1> QED
  BY <1>1, <1>3, Zenon DEF TypeOK, Counts, Kinds

(* A load gives up waiting: the invariant stays.                           *)
LEMMA GoodReadyTimeout ==
  ASSUME TypeOK, Good, NEW l \in Loads, ReadyTimeout(l)
  PROVE  Good'
<1> SUFFICES ASSUME ~spoilt' PROVE (Single /\ Steps /\ Rest)'
  BY DEF Good
<1> USE DEF chip, watch, flags, past, To, Reset, AsyncLoad, Answering, Idle,
      NoBusy, Alive, Busy, Writing, LoadPcs
<1>0. ~spoilt /\ Single /\ Steps /\ Rest
  BY DEF Good, ReadyTimeout
<1>1. Single'
  BY <1>0 DEF ReadyTimeout, TypeOK, Single, Steps
<1>2. Steps'
  BY <1>0 DEF ReadyTimeout, TypeOK, Single, Steps
<1>3. Rest'
  BY <1>0 DEF ReadyTimeout, TypeOK, Single, Steps, Rest
<1> QED
  BY <1>1, <1>2, <1>3

(* A load sets dsp_init: the types stay.                                   *)
LEMMA TypeDspInit == ASSUME TypeOK, NEW l \in Loads, DspInit(l) PROVE TypeOK'
<1> USE DEF DspInit, chip, watch, flags, past, To, Fails, Reset, AsyncLoad
<1>1. Counts'
  BY DspLifeAssumption DEF TypeOK, Counts
<1>2. (loads \in [Loads -> LoadPcs])'
  BY DEF TypeOK, LoadPcs, Busy, Writing
<1>3. Kinds'
  BY <1>2 DEF TypeOK, Kinds
<1> QED
  BY <1>1, <1>3, Zenon DEF TypeOK, Counts, Kinds

(* A load sets dsp_init: the invariant stays.                              *)
LEMMA GoodDspInit ==
  ASSUME TypeOK, Good, NEW l \in Loads, DspInit(l)
  PROVE  Good'
<1> SUFFICES ASSUME ~spoilt' PROVE (Single /\ Steps /\ Rest)'
  BY DEF Good
<1> USE DEF chip, watch, flags, past, To, Reset, AsyncLoad, Answering, Idle,
      NoBusy, Alive, Busy, Writing, LoadPcs
<1>0. ~spoilt /\ Single /\ Steps /\ Rest
  BY DEF Good, DspInit
<1>1. Single'
  BY <1>0 DEF DspInit, TypeOK, Single, Steps
<1>2. Steps'
  BY <1>0 DEF DspInit, TypeOK, Single, Steps
<1>3. Rest'
  BY <1>0 DEF DspInit, TypeOK, Single, Steps, Rest
<1> QED
  BY <1>1, <1>2, <1>3

(* A load fails: the types stay.                                           *)
LEMMA TypeGivesUp == ASSUME TypeOK, NEW l \in Loads, GivesUp(l) PROVE TypeOK'
<1> USE DEF GivesUp, chip, watch, flags, past, To, Fails, Reset, AsyncLoad
<1>1. Counts'
  BY DspLifeAssumption DEF TypeOK, Counts
<1>2. (loads \in [Loads -> LoadPcs])'
  BY DEF TypeOK, LoadPcs, Busy, Writing
<1>3. Kinds'
  BY <1>2 DEF TypeOK, Kinds
<1> QED
  BY <1>1, <1>3, Zenon DEF TypeOK, Counts, Kinds

(* A load fails: the invariant stays.                                      *)
LEMMA GoodGivesUp ==
  ASSUME TypeOK, Good, NEW l \in Loads, GivesUp(l)
  PROVE  Good'
<1> SUFFICES ASSUME ~spoilt' PROVE (Single /\ Steps /\ Rest)'
  BY DEF Good
<1> USE DEF chip, watch, flags, past, To, Reset, AsyncLoad, Answering, Idle,
      NoBusy, Alive, Busy, Writing, LoadPcs
<1>0. ~spoilt /\ Single /\ Steps /\ Rest
  BY DEF Good, GivesUp
<1>1. Single'
  BY <1>0 DEF GivesUp, TypeOK, Single, Steps
<1>2. Steps'
  BY <1>0 DEF GivesUp, TypeOK, Single, Steps
<1>3. Rest'
  BY <1>0 DEF GivesUp, TypeOK, Single, Steps, Rest
<1> QED
  BY <1>1, <1>2, <1>3

(* The DSP comes up: the types stay.                                       *)
LEMMA TypeDspUp == ASSUME TypeOK, DspUp PROVE TypeOK'
<1> USE DEF DspUp, chip, watch, flags, past, To, Fails, Reset, AsyncLoad
<1>1. Counts'
  BY DspLifeAssumption DEF TypeOK, Counts
<1>2. (loads \in [Loads -> LoadPcs])'
  BY DEF TypeOK, LoadPcs, Busy, Writing
<1>3. Kinds'
  BY <1>2 DEF TypeOK, Kinds
<1> QED
  BY <1>1, <1>3, Zenon DEF TypeOK, Counts, Kinds

(* The DSP comes up: the invariant stays.                                  *)
LEMMA GoodDspUp == ASSUME TypeOK, Good, DspUp PROVE Good'
<1> SUFFICES ASSUME ~spoilt' PROVE (Single /\ Steps /\ Rest)'
  BY DEF Good
<1> USE DEF chip, watch, flags, past, To, Reset, AsyncLoad, Answering, Idle,
      NoBusy, Alive, Busy, Writing, LoadPcs
<1>0. ~spoilt /\ Single /\ Steps /\ Rest
  BY DEF Good, DspUp
<1>1. Single'
  BY <1>0 DEF DspUp, TypeOK, Single, Steps
<1>2. Steps'
  BY <1>0 DEF DspUp, TypeOK, Single, Steps
<1>3. Rest'
  BY <1>0 DEF DspUp, TypeOK, Single, Steps, Rest
<1> QED
  BY <1>1, <1>2, <1>3

(* READY arrives: the types stay.                                          *)
LEMMA TypeRecvReady == ASSUME TypeOK, RecvReady PROVE TypeOK'
<1> USE DEF RecvReady, chip, watch, flags, past, To, Fails, Reset, AsyncLoad
<1>1. Counts'
  BY DspLifeAssumption DEF TypeOK, Counts
<1>2. (loads \in [Loads -> LoadPcs])'
  BY DEF TypeOK, LoadPcs, Busy, Writing
<1>3. (sram \in BOOLEAN /\ ready_msg \in BOOLEAN /\ boot_done \in BOOLEAN)'
  BY DEF TypeOK
<1>4. Kinds'
  BY <1>2, <1>3 DEF TypeOK, Kinds
<1> QED
  BY <1>1, <1>4, Zenon DEF TypeOK, Counts, Kinds

(* READY arrives: the invariant stays.                                     *)
LEMMA GoodRecvReady == ASSUME TypeOK, Good, RecvReady PROVE Good'
<1> SUFFICES ASSUME ~spoilt' PROVE (Single /\ Steps /\ Rest)'
  BY DEF Good
<1> USE DEF chip, watch, flags, past, To, Reset, AsyncLoad, Answering, Idle,
      NoBusy, Alive, Busy, Writing, LoadPcs
<1>0. ~spoilt /\ Single /\ Steps /\ Rest
  BY DEF Good, RecvReady
<1>1. Single'
  BY <1>0 DEF RecvReady, TypeOK, Single, Steps
<1>2. Steps'
  BY <1>0 DEF RecvReady, TypeOK, Single, Steps
<1>3. Rest'
  BY <1>0 DEF RecvReady, TypeOK, Single, Steps, Rest
<1> QED
  BY <1>1, <1>2, <1>3

(* The DSP hangs: the types stay.                                          *)
LEMMA TypeHang == ASSUME TypeOK, Hang PROVE TypeOK'
<1> USE DEF Hang, chip, watch, flags, past, To, Fails, Reset, AsyncLoad
<1>1. Counts'
  BY DspLifeAssumption DEF TypeOK, Counts
<1>2. (loads \in [Loads -> LoadPcs])'
  BY DEF TypeOK, LoadPcs, Busy, Writing
<1>3. Kinds'
  BY <1>2 DEF TypeOK, Kinds
<1> QED
  BY <1>1, <1>3, Zenon DEF TypeOK, Counts, Kinds

(* The DSP hangs: the invariant stays.                                     *)
LEMMA GoodHang == ASSUME TypeOK, Good, Hang PROVE Good'
<1> SUFFICES ASSUME ~spoilt' PROVE (Single /\ Steps /\ Rest)'
  BY DEF Good
<1> USE DEF chip, watch, flags, To, Reset, AsyncLoad, Answering, Idle,
      NoBusy, Alive, Busy, Writing, LoadPcs
<1>1. ~spoilt /\ Single /\ Steps /\ Rest /\ Idle
  BY Zenon DEF Good, Hang, Fails
<1>2. /\ dsp' = "hung" /\ work' = (work \/ irq) /\ uevents' = 0
       /\ UNCHANGED << boot_done, put, loads, flags, pm >>
  BY <1>1 DEF Hang
<1>3. Single'
  BY <1>1, <1>2 DEF TypeOK, Single, Steps
<1>4. Steps'
  BY <1>1 DEF Hang, TypeOK, Single, Steps
<1>5. Rest'
  BY <1>1 DEF Hang, TypeOK, Single, Steps, Rest
<1> QED
  BY <1>3, <1>4, <1>5

(* The watchdog's work runs: the types stay.                               *)
LEMMA TypeDspWdtWork == ASSUME TypeOK, DspWdtWork PROVE TypeOK'
<1> USE DEF DspWdtWork, chip, watch, flags, past, To, Fails, Reset, AsyncLoad
<1>1. Counts'
  BY DspLifeAssumption DEF TypeOK, Counts
<1>2. (loads \in [Loads -> LoadPcs])'
  BY DEF TypeOK, LoadPcs, Busy, Writing
<1>3. (sram \in BOOLEAN /\ ready_msg \in BOOLEAN /\ boot_done \in BOOLEAN)'
  BY DEF TypeOK
<1>4. Kinds'
  BY <1>2, <1>3 DEF TypeOK, Kinds
<1> QED
  BY <1>1, <1>4, Zenon DEF TypeOK, Counts, Kinds

(* The watchdog's work runs: the invariant stays.                          *)
LEMMA GoodDspWdtWork == ASSUME TypeOK, Good, DspWdtWork PROVE Good'
<1> SUFFICES ASSUME ~spoilt' PROVE (Single /\ Steps /\ Rest)'
  BY DEF Good
<1> USE DEF chip, watch, flags, past, To, Reset, AsyncLoad, Answering, Idle,
      NoBusy, Alive, Busy, Writing, LoadPcs
<1>0. ~spoilt /\ Single /\ Steps /\ Rest
  BY DEF Good, DspWdtWork
<1>1. Single'
  BY <1>0 DEF DspWdtWork, TypeOK, Single, Steps
<1>2. Steps'
  BY <1>0 DEF DspWdtWork, TypeOK, Single, Steps
<1>3. Rest'
  BY <1>0 DEF DspWdtWork, TypeOK, Single, Steps, Rest
<1> QED
  BY <1>1, <1>2, <1>3

(* A transfer times out: the types stay.                                   *)
LEMMA TypeSpiTimeout == ASSUME TypeOK, SpiTimeout PROVE TypeOK'
<1> USE DEF SpiTimeout, chip, watch, flags, past, To, Fails, Reset, AsyncLoad
<1>1. Counts'
  BY DspLifeAssumption DEF TypeOK, Counts
<1>2. (loads \in [Loads -> LoadPcs])'
  BY DEF TypeOK, LoadPcs, Busy, Writing
<1>3. Kinds'
  BY <1>2 DEF TypeOK, Kinds
<1> QED
  BY <1>1, <1>3, Zenon DEF TypeOK, Counts, Kinds

(* A transfer times out: the invariant stays.                              *)
LEMMA GoodSpiTimeout == ASSUME TypeOK, Good, SpiTimeout PROVE Good'
<1> SUFFICES ASSUME ~spoilt' PROVE (Single /\ Steps /\ Rest)'
  BY DEF Good
<1> USE DEF chip, watch, flags, To, Reset, AsyncLoad, Answering, Idle,
      NoBusy, Alive, Busy, Writing, LoadPcs
<1>1. ~spoilt /\ Single /\ Steps /\ Rest /\ Idle
  BY Zenon DEF Good, SpiTimeout, Fails
<1>2. /\ dsp' = "off" /\ irq' = FALSE /\ uevents' = 1
       /\ UNCHANGED << boot_done, work, put, loads, flags, pm >>
  BY <1>1 DEF SpiTimeout
<1>3. Single'
  BY <1>1, <1>2 DEF TypeOK, Single, Steps
<1>4. Steps'
  BY <1>1 DEF SpiTimeout, TypeOK, Single, Steps
<1>5. Rest'
  BY <1>1 DEF SpiTimeout, TypeOK, Single, Steps, Rest
<1> QED
  BY <1>3, <1>4, <1>5

(* A reload is asked for: the types stay.                                  *)
LEMMA TypeReload == ASSUME TypeOK, Reload PROVE TypeOK'
<1> USE DEF Reload, chip, watch, flags, past, To, Fails, Reset, AsyncLoad
<1>1. Counts'
  BY DspLifeAssumption DEF TypeOK, Counts
<1>2. (loads \in [Loads -> LoadPcs])'
  BY DEF TypeOK, LoadPcs, Busy, Writing
<1>3. Kinds'
  BY <1>2 DEF TypeOK, Kinds
<1> QED
  BY <1>1, <1>3, Zenon DEF TypeOK, Counts, Kinds

(* A reload is asked for: the invariant stays.                             *)
LEMMA GoodReload == ASSUME TypeOK, Good, Reload PROVE Good'
<1> SUFFICES ASSUME ~spoilt' PROVE (Single /\ Steps /\ Rest)'
  BY DEF Good
<1> USE DEF chip, watch, flags, To, Reset, AsyncLoad, Answering, Idle,
      NoBusy, Alive, Busy, Writing, LoadPcs
<1>1. ~spoilt /\ Single /\ Steps /\ Rest /\ Idle
  BY Zenon DEF Good, Reload, Fails
<1>2. /\ Reset /\ irq' = FALSE /\ uevents' = 1 /\ UNCHANGED << work, put, flags, pm >>
  <2>1. uevents' = 1
    BY <1>1 DEF Reload
  <2> QED
    BY <2>1, Zenon DEF Reload
<1>3. Single'
  BY <1>1, <1>2 DEF TypeOK, Single, Steps
<1>4. Steps'
  BY <1>1 DEF Reload, TypeOK, Single, Steps
<1>5. Rest'
  BY <1>1 DEF Reload, TypeOK, Single, Steps, Rest
<1> QED
  BY <1>3, <1>4, <1>5

(* The daemon writes the control: the types stay.                          *)
LEMMA TypeDaemon == ASSUME TypeOK, Daemon PROVE TypeOK'
<1> USE DEF Daemon, chip, watch, flags, past, To, Fails, Reset, AsyncLoad
<1>1. Counts'
  BY DspLifeAssumption DEF TypeOK, Counts
<1>2. (loads \in [Loads -> LoadPcs])'
  BY DEF TypeOK, LoadPcs, Busy, Writing
<1>3. Kinds'
  BY <1>2 DEF TypeOK, Kinds
<1> QED
  BY <1>1, <1>3, Zenon DEF TypeOK, Counts, Kinds

(* The daemon writes the control: the invariant stays.                     *)
LEMMA GoodDaemon == ASSUME TypeOK, Good, Daemon PROVE Good'
<1> SUFFICES ASSUME ~spoilt' PROVE (Single /\ Steps /\ Rest)'
  BY DEF Good
<1> USE DEF chip, watch, flags, past, To, Reset, AsyncLoad, Answering, Idle,
      NoBusy, Alive, Busy, Writing, LoadPcs
<1>0. ~spoilt /\ Single /\ Steps /\ Rest
  BY DEF Good, Daemon
<1>1. Single'
  BY <1>0 DEF Daemon, TypeOK, Single, Steps
<1>2. Steps'
  BY <1>0 DEF Daemon, TypeOK, Single, Steps
<1>3. Rest'
  BY <1>0 DEF Daemon, TypeOK, Single, Steps, Rest
<1> QED
  BY <1>1, <1>2, <1>3

(* The first notifier runs: the types stay.                                *)
LEMMA TypeDbgNotify == ASSUME TypeOK, DbgNotify PROVE TypeOK'
<1> USE DEF DbgNotify, chip, watch, flags, past, To, Fails, Reset, AsyncLoad
<1>1. Counts'
  BY DspLifeAssumption DEF TypeOK, Counts
<1>2. (loads \in [Loads -> LoadPcs])'
  BY DEF TypeOK, LoadPcs, Busy, Writing
<1>3. Kinds'
  BY <1>2 DEF TypeOK, Kinds
<1> QED
  BY <1>1, <1>3, Zenon DEF TypeOK, Counts, Kinds

(* The first notifier runs: the invariant stays.                           *)
LEMMA GoodDbgNotify == ASSUME TypeOK, Good, DbgNotify PROVE Good'
<1> SUFFICES ASSUME ~spoilt' PROVE (Single /\ Steps /\ Rest)'
  BY DEF Good
<1> USE DEF chip, watch, flags, past, To, Reset, AsyncLoad, Answering, Idle,
      NoBusy, Alive, Busy, Writing, LoadPcs
<1>0. ~spoilt /\ Single /\ Steps /\ Rest
  BY DEF Good, DbgNotify
<1>1. Single'
  BY <1>0 DEF DbgNotify, TypeOK, Single, Steps
<1>2. Steps'
  BY <1>0 DEF DbgNotify, TypeOK, Single, Steps
<1>3. Rest'
  BY <1>0 DEF DbgNotify, TypeOK, Single, Steps, Rest
<1> QED
  BY <1>1, <1>2, <1>3

(* The second notifier runs: the types stay.                               *)
LEMMA TypeNotifyRst == ASSUME TypeOK, NotifyRst PROVE TypeOK'
<1> USE DEF NotifyRst, chip, watch, flags, past, To, Fails, Reset, AsyncLoad
<1>1. Counts'
  BY DspLifeAssumption DEF TypeOK, Counts
<1>2. (loads \in [Loads -> LoadPcs])'
  BY DEF TypeOK, LoadPcs, Busy, Writing
<1>3. Kinds'
  BY <1>2 DEF TypeOK, Kinds
<1> QED
  BY <1>1, <1>3, Zenon DEF TypeOK, Counts, Kinds

(* The second notifier runs: the invariant stays.                          *)
LEMMA GoodNotifyRst == ASSUME TypeOK, Good, NotifyRst PROVE Good'
<1> SUFFICES ASSUME ~spoilt' PROVE (Single /\ Steps /\ Rest)'
  BY DEF Good
<1> USE DEF chip, watch, flags, past, To, Reset, AsyncLoad, Answering, Idle,
      NoBusy, Alive, Busy, Writing, LoadPcs
<1>0. ~spoilt /\ Single /\ Steps /\ Rest
  BY DEF Good, NotifyRst
<1>1. Single'
  BY <1>0 DEF NotifyRst, TypeOK, Single, Steps
<1>2. Steps'
  BY <1>0 DEF NotifyRst, TypeOK, Single, Steps
<1>3. Rest'
  BY <1>0 DEF NotifyRst, TypeOK, Single, Steps, Rest
<1> QED
  BY <1>1, <1>2, <1>3

(* The third notifier runs: the types stay.                                *)
LEMMA TypePcmWdtEvent == ASSUME TypeOK, PcmWdtEvent PROVE TypeOK'
<1> USE DEF PcmWdtEvent, chip, watch, flags, past, To, Fails, Reset, AsyncLoad
<1>1. Counts'
  BY DspLifeAssumption DEF TypeOK, Counts
<1>2. (loads \in [Loads -> LoadPcs])'
  BY DEF TypeOK, LoadPcs, Busy, Writing
<1>3. Kinds'
  BY <1>2 DEF TypeOK, Kinds
<1> QED
  BY <1>1, <1>3, Zenon DEF TypeOK, Counts, Kinds

(* The third notifier runs: the invariant stays.                           *)
LEMMA GoodPcmWdtEvent == ASSUME TypeOK, Good, PcmWdtEvent PROVE Good'
<1> SUFFICES ASSUME ~spoilt' PROVE (Single /\ Steps /\ Rest)'
  BY DEF Good
<1> USE DEF chip, watch, flags, past, To, Reset, AsyncLoad, Answering, Idle,
      NoBusy, Alive, Busy, Writing, LoadPcs
<1>0. ~spoilt /\ Single /\ Steps /\ Rest
  BY DEF Good, PcmWdtEvent
<1>1. Single'
  BY <1>0 DEF PcmWdtEvent, TypeOK, Single, Steps
<1>2. Steps'
  BY <1>0 DEF PcmWdtEvent, TypeOK, Single, Steps
<1>3. Rest'
  BY <1>0 DEF PcmWdtEvent, TypeOK, Single, Steps, Rest
<1> QED
  BY <1>1, <1>2, <1>3

(* A start is asked for: the types stay.                                   *)
LEMMA TypeLoadStart == ASSUME TypeOK, LoadStart PROVE TypeOK'
<1> USE DEF LoadStart, chip, watch, flags, past, To, Fails, Reset, AsyncLoad
<1>1. Counts'
  BY DspLifeAssumption DEF TypeOK, Counts
<1>2. (loads \in [Loads -> LoadPcs])'
  BY DEF TypeOK, LoadPcs, Busy, Writing
<1>3. Kinds'
  BY <1>2 DEF TypeOK, Kinds
<1> QED
  BY <1>1, <1>3, Zenon DEF TypeOK, Counts, Kinds

(* A start is asked for: the invariant stays.                              *)
LEMMA GoodLoadStart == ASSUME TypeOK, Good, LoadStart PROVE Good'
<1> SUFFICES ASSUME ~spoilt' PROVE (Single /\ Steps /\ Rest)'
  BY DEF Good
<1> USE DEF chip, watch, flags, To, Reset, AsyncLoad, Answering, Idle,
      NoBusy, Alive, Busy, Writing, LoadPcs
<1>1. ~spoilt /\ Single /\ Steps /\ Rest /\ Idle
  BY Zenon DEF Good, LoadStart, Fails
<1>2. /\ AsyncLoad /\ UNCHANGED << dsp, sram, ready_msg, boot_done, watch, put, flags, pm >>
  BY <1>1 DEF LoadStart
<1>3. Single'
  BY <1>1, <1>2 DEF TypeOK, Single, Steps
<1>4. Steps'
  BY <1>1 DEF LoadStart, TypeOK, Single, Steps
<1>5. Rest'
  BY <1>1 DEF LoadStart, TypeOK, Single, Steps, Rest
<1> QED
  BY <1>3, <1>4, <1>5

(* The watchdog is suspended: the types stay.                              *)
LEMMA TypeWdtSuspend == ASSUME TypeOK, WdtSuspend PROVE TypeOK'
<1> USE DEF WdtSuspend, chip, watch, flags, past, To, Fails, Reset, AsyncLoad
<1>1. Counts'
  BY DspLifeAssumption DEF TypeOK, Counts
<1>2. (loads \in [Loads -> LoadPcs])'
  BY DEF TypeOK, LoadPcs, Busy, Writing
<1>3. Kinds'
  BY <1>2 DEF TypeOK, Kinds
<1> QED
  BY <1>1, <1>3, Zenon DEF TypeOK, Counts, Kinds

(* The watchdog is suspended: the invariant stays.                         *)
LEMMA GoodWdtSuspend == ASSUME TypeOK, Good, WdtSuspend PROVE Good'
<1> SUFFICES ASSUME ~spoilt' PROVE (Single /\ Steps /\ Rest)'
  BY DEF Good
<1> USE DEF chip, watch, flags, To, Reset, AsyncLoad, Answering, Idle,
      NoBusy, Alive, Busy, Writing, LoadPcs
<1>1. ~spoilt /\ Single /\ Steps /\ Rest /\ Idle
  BY Zenon DEF Good, WdtSuspend, Fails
<1>2. /\ pm' = "no_irq" /\ irq' = FALSE /\ UNCHANGED << dsp, boot_done, work, uevents, put, loads, flags >>
  BY <1>1 DEF WdtSuspend
<1>3. Single'
  BY <1>1, <1>2 DEF TypeOK, Single, Steps
<1>4. Steps'
  BY <1>1 DEF WdtSuspend, TypeOK, Single, Steps
<1>5. Rest'
  BY <1>1 DEF WdtSuspend, TypeOK, Single, Steps, Rest
<1> QED
  BY <1>3, <1>4, <1>5

(* The loader is suspended: the types stay.                                *)
LEMMA TypeLoadSuspend == ASSUME TypeOK, LoadSuspend PROVE TypeOK'
<1> USE DEF LoadSuspend, chip, watch, flags, past, To, Fails, Reset, AsyncLoad
<1>1. Counts'
  BY DspLifeAssumption DEF TypeOK, Counts
<1>2. (loads \in [Loads -> LoadPcs])'
  BY DEF TypeOK, LoadPcs, Busy, Writing
<1>3. Kinds'
  BY <1>2 DEF TypeOK, Kinds
<1> QED
  BY <1>1, <1>3, Zenon DEF TypeOK, Counts, Kinds

(* The loader is suspended: the invariant stays.                           *)
LEMMA GoodLoadSuspend == ASSUME TypeOK, Good, LoadSuspend PROVE Good'
<1> SUFFICES ASSUME ~spoilt' PROVE (Single /\ Steps /\ Rest)'
  BY DEF Good
<1> USE DEF chip, watch, flags, past, To, Reset, AsyncLoad, Answering, Idle,
      NoBusy, Alive, Busy, Writing, LoadPcs
<1>0. ~spoilt /\ Single /\ Steps /\ Rest
  BY DEF Good, LoadSuspend
<1>1. Single'
  BY <1>0 DEF LoadSuspend, TypeOK, Single, Steps
<1>2. Steps'
  BY <1>0 DEF LoadSuspend, TypeOK, Single, Steps
<1>3. Rest'
  BY <1>0 DEF LoadSuspend, TypeOK, Single, Steps, Rest
<1> QED
  BY <1>1, <1>2, <1>3

(* The loader is resumed: the types stay.                                  *)
LEMMA TypeLoadResume == ASSUME TypeOK, LoadResume PROVE TypeOK'
<1> USE DEF LoadResume, chip, watch, flags, past, To, Fails, Reset, AsyncLoad
<1>1. Counts'
  BY DspLifeAssumption DEF TypeOK, Counts
<1>2. (loads \in [Loads -> LoadPcs])'
  BY DEF TypeOK, LoadPcs, Busy, Writing
<1>3. Kinds'
  BY <1>2 DEF TypeOK, Kinds
<1> QED
  BY <1>1, <1>3, Zenon DEF TypeOK, Counts, Kinds

(* The loader is resumed: the invariant stays.                             *)
LEMMA GoodLoadResume == ASSUME TypeOK, Good, LoadResume PROVE Good'
<1> SUFFICES ASSUME ~spoilt' PROVE (Single /\ Steps /\ Rest)'
  BY DEF Good
<1> USE DEF chip, watch, flags, past, To, Reset, AsyncLoad, Answering, Idle,
      NoBusy, Alive, Busy, Writing, LoadPcs
<1>0. ~spoilt /\ Single /\ Steps /\ Rest
  BY DEF Good, LoadResume
<1>1. Single'
  BY <1>0 DEF LoadResume, TypeOK, Single, Steps
<1>2. Steps'
  BY <1>0 DEF LoadResume, TypeOK, Single, Steps
<1>3. Rest'
  BY <1>0 DEF LoadResume, TypeOK, Single, Steps, Rest
<1> QED
  BY <1>1, <1>2, <1>3

(* The watchdog is resumed: the types stay.                                *)
LEMMA TypeWdtResume == ASSUME TypeOK, WdtResume PROVE TypeOK'
<1> USE DEF WdtResume, chip, watch, flags, past, To, Fails, Reset, AsyncLoad
<1>1. Counts'
  BY DspLifeAssumption DEF TypeOK, Counts
<1>2. (loads \in [Loads -> LoadPcs])'
  BY DEF TypeOK, LoadPcs, Busy, Writing
<1>3. Kinds'
  BY <1>2 DEF TypeOK, Kinds
<1> QED
  BY <1>1, <1>3, Zenon DEF TypeOK, Counts, Kinds

(* The watchdog is resumed: the invariant stays.                           *)
LEMMA GoodWdtResume == ASSUME TypeOK, Good, WdtResume PROVE Good'
<1> SUFFICES ASSUME ~spoilt' PROVE (Single /\ Steps /\ Rest)'
  BY DEF Good
<1> USE DEF chip, watch, flags, past, To, Reset, AsyncLoad, Answering, Idle,
      NoBusy, Alive, Busy, Writing, LoadPcs
<1>0. ~spoilt /\ Single /\ Steps /\ Rest
  BY DEF Good, WdtResume
<1>1. Single'
  BY <1>0 DEF WdtResume, TypeOK, Single, Steps
<1>2. Steps'
  BY <1>0 DEF WdtResume, TypeOK, Single, Steps
<1>3. Rest'
  BY <1>0 DEF WdtResume, TypeOK, Single, Steps, Rest
<1> QED
  BY <1>1, <1>2, <1>3

(* Every step keeps the types.                                             *)
LEMMA TypeNext == ASSUME TypeOK, [Next]_vars PROVE TypeOK'
<1>1. CASE UNCHANGED vars
  BY <1>1 DEF vars, chip, watch, flags, past, TypeOK
<1>2. CASE \E l \in Loads : Load(l) \/ GivesUp(l)
  <2> PICK l \in Loads : Load(l) \/ GivesUp(l)
    BY <1>2
  <2>1. CASE Fetched(l)
    BY <2>1, TypeFetched
  <2>2. CASE Written(l)
    BY <2>2, TypeWritten
  <2>3. CASE PowerOn(l)
    BY <2>3, TypePowerOn
  <2>4. CASE SetRunStatus(l)
    BY <2>4, TypeSetRunStatus
  <2>5. CASE WdtEnable(l)
    BY <2>5, TypeWdtEnable
  <2>6. CASE WaitDspReady(l)
    BY <2>6, TypeWaitDspReady
  <2>7. CASE ReadyTimeout(l)
    BY <2>7, TypeReadyTimeout
  <2>8. CASE DspInit(l)
    BY <2>8, TypeDspInit
  <2>9. CASE GivesUp(l)
    BY <2>9, TypeGivesUp
  <2> QED
    BY <2>1, <2>2, <2>3, <2>4, <2>5, <2>6, <2>7, <2>8, <2>9 DEF Load
<1>3. CASE DspUp
  BY <1>3, TypeDspUp
<1>4. CASE RecvReady
  BY <1>4, TypeRecvReady
<1>5. CASE Hang
  BY <1>5, TypeHang
<1>6. CASE DspWdtWork
  BY <1>6, TypeDspWdtWork
<1>7. CASE SpiTimeout
  BY <1>7, TypeSpiTimeout
<1>8. CASE Reload
  BY <1>8, TypeReload
<1>9. CASE Daemon
  BY <1>9, TypeDaemon
<1>10. CASE DbgNotify
  BY <1>10, TypeDbgNotify
<1>11. CASE NotifyRst
  BY <1>11, TypeNotifyRst
<1>12. CASE PcmWdtEvent
  BY <1>12, TypePcmWdtEvent
<1>13. CASE LoadStart
  BY <1>13, TypeLoadStart
<1>14. CASE WdtSuspend
  BY <1>14, TypeWdtSuspend
<1>15. CASE LoadSuspend
  BY <1>15, TypeLoadSuspend
<1>16. CASE LoadResume
  BY <1>16, TypeLoadResume
<1>17. CASE WdtResume
  BY <1>17, TypeWdtResume
<1> QED
  BY <1>1, <1>2, <1>3, <1>4, <1>5, <1>6, <1>7, <1>8, <1>9, <1>10, <1>11,
       <1>12, <1>13, <1>14, <1>15, <1>16, <1>17
  DEF Next, Notifiers, Power

(* Every step keeps the invariant.                                         *)
LEMMA GoodNext == ASSUME TypeOK, Good, [Next]_vars PROVE Good'
<1>1. CASE UNCHANGED vars
  BY <1>1 DEF vars, chip, watch, flags, past, Good, Single, Steps, Rest, Idle,
       NoBusy, Alive
<1>2. CASE \E l \in Loads : Load(l) \/ GivesUp(l)
  <2> PICK l \in Loads : Load(l) \/ GivesUp(l)
    BY <1>2
  <2>1. CASE Fetched(l)
    BY <2>1, GoodFetched
  <2>2. CASE Written(l)
    BY <2>2, GoodWritten
  <2>3. CASE PowerOn(l)
    BY <2>3, GoodPowerOn
  <2>4. CASE SetRunStatus(l)
    BY <2>4, GoodSetRunStatus
  <2>5. CASE WdtEnable(l)
    BY <2>5, GoodWdtEnable
  <2>6. CASE WaitDspReady(l)
    BY <2>6, GoodWaitDspReady
  <2>7. CASE ReadyTimeout(l)
    BY <2>7, GoodReadyTimeout
  <2>8. CASE DspInit(l)
    BY <2>8, GoodDspInit
  <2>9. CASE GivesUp(l)
    BY <2>9, GoodGivesUp
  <2> QED
    BY <2>1, <2>2, <2>3, <2>4, <2>5, <2>6, <2>7, <2>8, <2>9 DEF Load
<1>3. CASE DspUp
  BY <1>3, GoodDspUp
<1>4. CASE RecvReady
  BY <1>4, GoodRecvReady
<1>5. CASE Hang
  BY <1>5, GoodHang
<1>6. CASE DspWdtWork
  BY <1>6, GoodDspWdtWork
<1>7. CASE SpiTimeout
  BY <1>7, GoodSpiTimeout
<1>8. CASE Reload
  BY <1>8, GoodReload
<1>9. CASE Daemon
  BY <1>9, GoodDaemon
<1>10. CASE DbgNotify
  BY <1>10, GoodDbgNotify
<1>11. CASE NotifyRst
  BY <1>11, GoodNotifyRst
<1>12. CASE PcmWdtEvent
  BY <1>12, GoodPcmWdtEvent
<1>13. CASE LoadStart
  BY <1>13, GoodLoadStart
<1>14. CASE WdtSuspend
  BY <1>14, GoodWdtSuspend
<1>15. CASE LoadSuspend
  BY <1>15, GoodLoadSuspend
<1>16. CASE LoadResume
  BY <1>16, GoodLoadResume
<1>17. CASE WdtResume
  BY <1>17, GoodWdtResume
<1> QED
  BY <1>1, <1>2, <1>3, <1>4, <1>5, <1>6, <1>7, <1>8, <1>9, <1>10, <1>11,
       <1>12, <1>13, <1>14, <1>15, <1>16, <1>17
  DEF Next, Notifiers, Power

(* Every variable of DspLife keeps its type.                               *)
THEOREM DspTypeCorrect == Spec => []TypeOK
<1>1. TypeOK /\ [Next]_vars => TypeOK'
  BY TypeNext
<1> QED
  BY TypeInit, <1>1, PTL DEF Spec

(* The invariant of an undisturbed recovery holds.                         *)
THEOREM DspGood == Spec => []Good
<1>1. TypeOK /\ Good /\ [Next]_vars => Good'
  BY GoodNext
<1> QED
  BY GoodInit, DspTypeCorrect, <1>1, PTL DEF Spec

(* When the driver comes to rest after failures it had time to recover     *)
(* from, the DSP runs, the watchdog is armed and the sound driver knows    *)
(* it: no failure is lost between interrupt, uevent, notifiers and load.   *)
THEOREM DspNothingForgotten == Spec => []NothingForgotten
<1>1. TypeOK /\ Good => NothingForgotten
  BY DEF TypeOK, Good, Rest, NothingForgotten, Quiet, Restored, Answering,
       Alive
<1> QED
  BY DspTypeCorrect, DspGood, <1>1, PTL

(* A DSP that runs while nothing is being recovered has its watchdog armed.*)
THEOREM DspWatched == Spec => []Watched
<1>1. TypeOK /\ Good => Watched
  BY DEF TypeOK, Good, Rest, Watched, Alive
<1> QED
  BY DspTypeCorrect, DspGood, <1>1, PTL
=============================================================================
