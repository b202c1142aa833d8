# A TLA+ model of the Fire TV's Bluetooth driver and far-field DSP driver

The repository is the open-source release of a Fire TV: a Linux 4.9 kernel, a
boot loader, user-space libraries, and the drivers Amazon and its suppliers
added. Almost all of it is third-party code. Three parts with a life of their
own are modelled here:

* the Bluetooth USB driver of the MediaTek MT7668,
  `src/platform/vendor/amazon/bluetooth/mediatek/mt76xx/driver/mt76x8/usb/`,
  called `usb/` below; `main.c` is `usb/btmtk_usb_main.c`;
* the driver of the far-field DSP (the HiFi4 that listens for the wake word),
  `src/platform/kernel/mstar/t31/4.9/drivers/mstar2/drv/hifi4dsp/`, called
  `dsp/`, with the recovery in `sound/soc/mediatek/mt8518/` and
  `drivers/mstar2/drv/mspi/` of the same kernel;
* the byte ring of Amazon's DSP framework, `adf_ringbuf.c` and `.h` in the
  kernel's `drivers/staging/amazon/dspframework/`.

## 1. Inventory

### The Bluetooth USB driver

One `g_data` for the whole life of the module, and a dozen globals beside it.
The state that decides what handlers do:

| state | in the code | meaning |
| --- | --- | --- |
| `usb` | `btmtk_usb_get_state` | 16 states: unbound, probing, working, (early/late) suspend and resume, dumping, and combinations |
| `fops` | `btmtk_fops_get_state` | the character device: opened, closing, closed |
| `dongle` | `is_mt7668_dongle_state` | power of the Bluetooth function, as the driver believes it |
| `doing_reset` | atomic | a reset has been claimed |
| `hook` | `btmtk_usb_driver.probe` | the probe the next device gets: plain, or `L0_probe` after a reset |
| `need_reset_stack`, `need_reset_stack_type`, `need_reopen`, `send_hw_err_event_count` | globals | an error for the stack, its cause, that it must reopen, and how much of the error event it has |
| `timers` | `chip_rst_disc_timer`, `fw_dump_timer`, `chip_reset_timer` | watchdogs of a pulse, a dump, a diagnostic reset |
| `suspend_count` | `g_data` | suspended interfaces |
| `submitted` | `interrupt_urb_submitted`, `bulk_urb_submitted` | marks of the receive URBs |
| `metabuffer` | `g_data->metabuffer` | receive ring between the chip and the stack |
| `inq`, `BT_wq` | wait queues | pollers, blocking readers |
| `meta_tx`, `wr_mtx` | `g_data` | an ACL packet is on its way; one writer at a time |

Who calls it, and with what excluded:

* the USB core: `probe`, `disconnect`, `suspend`, `resume`, one at a time;
* the Bluetooth stack on the character device: `open`, `read`, `write`, `poll`,
  `close`; a second device for SCO and a third for the firmware log;
* timers and URB completions, in atomic context, at any time;
* the early-suspend and late-resume notifier, in a thread of its own;
* the WLAN driver and the hub, which call `btmtk_usb_toggle_rst_pin`.

What is hard: handlers sleep in the middle (commands, URB kills) while others
change the same globals; the mutexes protect single reads and writes of the
states and not the decisions taken on them; every error ends in a pulse on the
reset pin, and so in a disconnect and a new probe, from any context; the chip
may crash, stay busy, ignore the pin or leave the bus at any moment; statics
survive close, disconnect and probe; readers sleep on two queues that are woken
in some states only; a writer waits for a completion that a lost device never
sends.

What makes it correct: a claimed reset and a dump always end; the driver comes
back after faults; the stack is let in only with a probed device, is served
while it is in, and is told, whole and in the end, when the device was lost; no
reader is left asleep over what it should see, no writer for ever in the
driver; the counts and marks agree with the USB core; the ring hands over what
the chip sent.

### The far-field DSP driver

| state | in the code | meaning |
| --- | --- | --- |
| ring of the mailbox | `struct scp_msg_queue_t` | 64 elements with a message, a `queue_counter`, a signal and a result |
| mailbox | `host_to_adsp_status`, the shared memory | one message at a time, and an interrupt the DSP may miss |
| `is_from_wdt`, `boot_done`, `adsp_is_ready` | globals | a watchdog is being handled; the firmware runs; the DSP was once seen ready |
| ring of a scene | `struct msg_queue_t`, `ipi_msg_ack` | audio messages that wait their turn; one acknowledgement, without a lock |
| recovery | `dsp_wdt_work`, uevent `DSP_WTD_WHOLE`, notifiers, load work | where the news of a dead DSP is |
| `dsp_wdt_is_enabled`, `dsp_ready`, `dsp_init` | the watchdog's interrupt is requested; what the sound driver believes | |

Who calls it: any thread that sends (`adsp_ipi_send`, `send_message`); one
kernel thread per ring; the interrupts of the mailbox and of the watchdog; a
daemon in user space that answers the uevent through an ALSA control; the SPI
driver, debugfs, suspend and resume.

What is hard: senders wait with time-outs and signals for slots that are used
again meanwhile; the watchdog and any refused sender empty the ring without its
lock, in two stores; acknowledgements are read while they are written and may
come late; the recovery of a dead DSP passes through an interrupt, a work, user
space, three notifiers and a firmware load, and nothing but a flag set at the
end keeps two of them apart.

What makes it correct: a message is handed over once, in order, and its result
goes to its own sender; senders return; no wake-up and no failure is forgotten;
the DSP is watched whenever it runs, and serves again after each failure.

### The DSP framework's ring

`rp`, `wp`, `drop` and `dropunit` over a buffer; `read` (which takes nothing),
`flush`, `reserve`, `write`, `add`, `apply`, `reset`. Its callers run them one
at a time. Hard are the boundaries: full and empty look alike, drop units round,
lengths are 32 bits signed. It is correct if it is a queue of bytes whose losses
are counted.

### Other parts

| part | modelled |
| --- | --- |
| power-on and power-off commands (main.c 3726-4148) | outcomes only |
| SCO, isochronous pipe (main.c 5060-5257, 6099-6366) | no |
| rom patch download (main.c 3762-4050) | outcomes only |
| firmware log queue (main.c 305-336, 5449-5560), dump file writer (`usb/btmtk_usb_fifo.c`) | no |
| Bluetooth SDIO driver (`../sdio`) | no: not built for this platform |
| DSP receive queue, PCM and compress streams | no |
| DSP framework's log and debug, metrics logger, sign of life, backlight | no |
| WLAN driver | its reset calls only (`WifiReset`) |
| kernel, boot loader, libraries, apps | as environment or not at all |

`PROJECT.json` lists every part with its files, and every hazard at its line
with the property that covers it or the reason none does; section 5 says why
what is left out is left out.

## 2. Modules

    BtStates              state names, pure state maps of the handlers
      BtLifecycle         the life of the driver
        BtLifecycleProofs
          BtSessionProofs
    BtStream              abstract: a queue of bytes
      BtMetabuffer        the receive ring, refines BtStream
        BtMetabufferProofs
        BtStackIo         ring + readers + error event + ACL senders
          BtStackIoProofs   (also uses BtMetabufferProofs)
    IpiRing               operations of the DSP's message ring
      AdspIpiSend         senders, kernel thread, mailbox, watchdog
        AdspIpiSendProofs
    AudioIpi              audio messages of one scene
      AudioIpiProofs
    DspLife               load, watchdog, power, recovery of the DSP
      DspLifeProofs
    AdfStream             abstract: a queue of bytes that drops and counts
      AdfRingbuf          the framework's ring, refines AdfStream
        AdfRingbufProofs

Each component has an `MC...` module for TLC. `PROJECT.json` maps each
definition to its lines. An operator marked "mutant" is a plausible bug of the
one after it; no specification uses it, and TLC finds the property it stands for
violated when it takes the other's place.

### BtLifecycle

A handler that sleeps while others may run is cut where it sleeps, and one of
three program counters says where it is: `hub` for the USB core (probe,
disconnect, suspend, resume), `stack` for the process that opens and closes,
`late` for the early-suspend thread. Timers, completions and the calls of the
WLAN driver are single steps.

| code | actions |
| --- | --- |
| `btmtk_usb_probe`, `L0_probe` | `ProbeBegin`, `ProbePatched` or `ProbeFails` then `ProbeIface1`, `ProbeEnd` |
| `btmtk_usb_disconnect` | `Disconnect` |
| `btmtk_usb_suspend`, `_resume` | `Suspend`, `SuspendTraffic`, `SuspendWoble`; `Resume`, `ResumeWake`, `ResumeSubmit`, `ResumeAssert` |
| `btmtk_usb_early_suspend`, `_late_resume` | `EarlySuspend`, `EarlySuspendWoble`; `LateResume`, `LateWake`, `LateSubmit`, `LateAssert` |
| `btmtk_usb_fops_open` | `Open`, `OpenPowerCheck`, `OpenPowering`, `OpenSleepCmd`, `OpenUrbs`, `OpenDone` |
| `btmtk_usb_fops_close` | `Close`, `CloseDeinit`, `CloseDone` |
| `btmtk_usb_fops_read`, error part | `ReadHwErr` |
| `btmtk_usb_fops_write`, assert command | `WriteAssert` |
| `btmtk_usb_bulk_in_complete`, dump part | `BulkInDump` |
| timers | `FwDumpTimo`, `ChipRstDiscTimo`, `ChipResetTimo` |
| `btmtk_usb_toggle_rst_pin` from elsewhere | `WifiReset`, `TriggerCoreDump`, `DiagReset` |

`ToggleRstPin`, `StopTraffic`, `SubmitUrbs`, `SendAssertCmd`, `EnterWoble` are
the functions of these names, called inside the actions.

External, modelled by how the driver uses them: the chip (`FwCrash`,
`ChipResets`, `PulseLost`, answers to commands), the bus (`Unplug`; the hub
offers a detached chip again in `ProbeBegin`), system sleep (`SleepBegin`,
`SleepEnd`, `Thaw`; user processes are frozen).

Left out, and why nothing here depends on it: the contents of commands and
events; the isochronous URBs (`stop_traffic` treats them as the other two);
`btmtk_usb_trigger_core_dump` has no caller in the tree but is exported, and is
an action; a second opener (the open checks the `fops` state); the
several reads of one hardware-error event (they are in `BtStackIo`). A probe is
one of interface 0 followed, when that fails, by one of interface 1, as the USB
core does it.

### BtMetabuffer

`PushEvent` and `BulkIn` store a packet of the interrupt and the bulk pipe,
`FopsRead` takes bytes, `Empty` is what open, close, probe and disconnect do.
Each is one spin-lock section. A byte is a tag that goes round in the order of
arrival; where the order matters `Tags` exceeds the size of the ring, so no two
bytes in it look alike.
A packet is stored with its two copies and the unsigned length of the second;
`stray` records a copy outside the ring, after which the model stops.
`KeepsUp` says that the bulk pipe never finds the ring full. The code does not
see to that: see "Disagreements met".

### BtStackIo

The character device while the device comes and goes. It extends
`BtMetabuffer`: a step of the device either is a step of the ring or leaves it
alone.

| code | actions |
| --- | --- |
| `btmtk_usb_intr_complete`, `btmtk_usb_bulk_in_complete` | `IntrComplete`, `BulkInComplete`: store, then wake the readers or not |
| `btmtk_usb_fops_poll` | `PollEnter`, `PollReturns`; the kernel's side `PollSleeps`, `PollAgain` |
| `btmtk_usb_fops_read` | `ReadBegin`, `ReadHwErr`, `ReadRing`, `ReadNothing`, `ReadOn` |
| `btmtk_usb_fops_write`, `btmtk_usb_send_data` | `WriteBegin`, `WriteLock`, `WriteSpin`, `WriteSubmit`; `TxComplete` |
| `open`, `close` | `Open`, `OpenFails`, `Close` |
| `disconnect`, `probe`, `L0_probe` | `DisconnectBegin`, `DisconnectEnd`; `ProbeBegin`, `ProbeEnd` or `ProbeFails`, `L0ProbeEnd` |

A poll registers on `inq` in its first pass only, and only if the ring is empty
then (main.c:5984); outside WORKING its mask is nothing at all. A blocking read
waits for data alone. An event is stored whatever the state but wakes readers
in WORKING only. Readers who can be told of no error are called `Deaf`: a poll
that found data outside WORKING, and a blocking read. The opens that race with
a disconnect are in `BtLifecycle`; here an open is one step. System sleep is
left out: it freezes the stack outside of a read or write, and a frozen poll
starts anew. Two transfers can be in flight at once, if a sender sleeps over a
disconnect and a probe; nothing comes of it.

The senders are alike: `queue` counts those that wait for `wr_mtx`, `wr` is the
place of the one that has it, up to `Writers` in all. A transfer whose own
allocation or submission fails with the device present (2142, 2149, 2169) leaves
`meta_tx` set, as the code does; `starved` records that, and it ends where
`meta_tx` is cleared: at a disconnect, a probe or another completion.

### IpiRing and AdspIpiSend

| code | actions |
| --- | --- |
| `adsp_ipi_send`, `scp_send_msg_to_queue` | `CallSend`, `Enter`, `PushMsg`, `Woken` or `Timeout` or `Interrupted`, `GetResult`; refused: `ResetW`, `ResetR` |
| `scp_process_msg_thread`, `send_msg_by_spi`, `is_ipi_busy` | `Get`, `SendFails`, `SendCopy`, `Retrigger`, `SpinDone`, `NotifyElement`, `PopMsg` |
| watchdog notifiers, load | `WdtFlag`, `WdtResetW`, `WdtResetR`, `WdtClear`, `WdtLoad`, `WdtUnflag` |
| the DSP (external) | `DspTake`, `DspUp`, `Hang`; `Reload` |

What holds `queue_lock` is one step. The ring is emptied without the lock in two
stores, `idx_w` then `idx_r`; one that falls between the load and the store of
an increment under the lock is undone by it, which is the second disjunct of
`EmptyW` and `EmptyR`. `torn` becomes TRUE when the ring was emptied under a
message, and what is said of the messages stops there. `adsp_is_ready` stays
cached over a reload as in the code. A call that is refused at once (a watchdog
is handled) changes nothing and is no step. The thread's wait for the DSP has no
bound, nor has it in the code. The notifiers run in the order of their
priorities: `adsp_ipi_get_wdt_status`, the log dump, the reset, and last the
sound driver.

### AudioIpi

| code | actions |
| --- | --- |
| `send_message` | `SendMessage`, `CleanAck`, `Doze`, `Proceed`, `Interrupted` |
| `process_message_in_queue` | `HandOver`, `Told`, `Acknowledged`, `CheckAck`, `TakeAck`, `TimedOut`, `ClearAck`, `PopMessage`, `WakeNext` |
| dispatcher, `send_message_ack` | `AckBack`, `CopyPart` |

One scene, as scenes share nothing but the mailbox below, which is one step
that may fail (`Told`). A message sent with `DIRECT_SEND` does not enter the
ring. The queue is never disabled: that, and its flush, belong to the exit of a
built-in driver and have no other caller. The acknowledgement has no lock, so it
is copied in three parts (magic, id, rest) in any order. `torn` and `stale`
record what the pairing by message id cannot stand: a read during the copy, and
an acknowledgement that comes when its sender has stopped waiting.

### DspLife

| code | actions |
| --- | --- |
| `load_image_to_dsp_and_run` and its callback | `Fetched`, `Written`, `PowerOn`, `SetRunStatus`, `WdtEnable`, `WaitDspReady` or `ReadyTimeout`, `DspInit`; `GivesUp` |
| failures | `Hang`, `SpiTimeout`, `Reload` |
| their way to user space | `DspWdtWork`, `Daemon` |
| notifiers | `DbgNotify`, `NotifyRst`, `PcmWdtEvent` |
| suspend, resume | `WdtSuspend`, `LoadSuspend`, `LoadResume`, `WdtResume` |

Every load is a work of its own and may run beside another. By the device tree
the watchdog's device is the first to suspend and the last to resume. `spoilt`
becomes TRUE when the world is worse than the recovery is made for: a failure
during a recovery, firmware that cannot be loaded, a DSP slower than the driver
waits. The properties speak of what is not spoilt.

### AdfRingbuf

One action per operation. `_adfRingbuf_checkDrop` is `DropLen` (what is dropped
of the old) and `KeptLen` (what is kept of the new). `Write` copies, so what it
cannot keep never enters the buffer; behind `Add` and `Apply` stands hardware
that has put all the bytes already (`Put` lays them round the ring from `wp`),
and the code moves `wp` by what `_adfRingbuf_checkDrop` leaves, less than was put
or even back. Nothing keeps the pointers in the buffer: `rp` may pass the limit,
`wp` come before the base, and the model goes on with them (`At` is where the
hardware's wp then is). Only `stray` ends it: a copy outside the buffer or of a
negative length (`Inside`), or the division by a zero drop unit in
`adfRingbuf_reserve`. `Valid` is `adfRingbuf_checkValid`: both pointers in the
buffer. What is said of the bytes is said of steps between such states, with a
drop unit that fits into the ring (`Sane`). One bound is of the data: no length
is as long as the ring (`Lens`).

In `AdfStream` a `reserve` that comes to exactly `Size` bytes is a flush: the
full ring is an empty one. `Overrun` and `Overlay` name the two ways in which
bytes are lost uncounted.

## 3. What TLC checks

| run | constants | states | shows |
| --- | --- | --- | --- |
| `bt_lifecycle` | this platform: no early suspend; faults without a bound | 1.7 million | all safety properties of the life, `Stirring` among them |
| `bt_early` | early suspend; three faults | 1.0 million | `DumpEnds` beside the early-suspend thread |
| `bt_recovery` | two faults, pin works, chip not for ever busy; fair | 52 thousand | `Recovers` |
| `meta_stream` | ring of 5, events 1 or 2, ACL data 0, 1 or 2 (oversized), reads 1, 2, 4; `KeepsUp` | 986 thousand | `StreamSpec`, `PatientReset`, `StraysAtTheEnd` |
| `stack_io` | ring of 4, reads 2 and 4, two senders, two faults; fair | 409 thousand | `Roused`, `EventWhole`, `WriterReturns`, `NoticeTaken` |
| `ipi_send` | ring of 2, two senders, three messages, one hang or reload | 2.0 million | `Kept`, `OwnResult`, `OnceInOrder` |
| `ipi_live` | ring of 3, one sender, lost interrupts, signals; fair | 211 thousand | `SenderReturns`, `Answered` |
| `audio_ipi` | ring of 3, two senders, three messages of one id, signals; fair | 135 thousand | `Turn`, `OwnAck`, `HeadServed`, `InOrder`, `LeftForGood`, `Served` |
| `audio_stuck` | the same | violated | `SenderReturns` |
| `dsp_life` | three loads at once, three failures; fair | 401 thousand | `NothingForgotten`, `Watched`, `Recovers` |
| `adf_ring` | ring of 4, word of 2, drop units 0, 1, 2, 3, 5 | 285 thousand | `StreamSpec`, `PointersStay` |
| `adf_lost` | the same | violated | `DropCounted` |

Each property is stated in words above its definition. `Serving` and
`StackTold` of the life are about the instants when no handler is in the middle
of its work; `StackTold` excludes two races that lose the notice, and names
them.

Bounds. The state of `BtLifecycle` is finite without any bound on faults
(`BoundFaults = FALSE`), so `bt_lifecycle` covers every behaviour of the
model. With the early-suspend thread `MaxFaults = 3` keeps the run short; early
suspend, a crash and a write of the stack each count as one. `LateRetries = 1`
stands for ten: one is enough to run the loop and its end. A ring of four or
five cells lets every packet wrap at every offset and lets the ring be empty,
full, and one short of full; the header of one byte and the data limit of one
stand for 4 and 1021, `FullTimes = 2` for 100. In `stack_io` reads of two and
four take the error event of four bytes in one or two parts; two senders are one
that waits behind another; two faults are a device lost during the recovery from
another fault, or behind a transfer that failed by itself; each full ring resets
the chip (`FullTimes = 1`), since the counting is `meta_stream`'s; bytes look
alike, since their order is `meta_stream`'s too, and the theorem `RingBehaves`
carries both over. With `KeepsUp = FALSE` and one fault TLC finds nothing either
(416 thousand states). In `adf_ring` the drop units divide the ring (1, 2), do
not (3), exceed it (5), or there is none (0).
Two senders on a ring of two fill it, wait for its slots and find them used
again; the third message gives a slot its second use. One id for all audio
messages is the worst case of the pairing. Three loads are one more than any two
that disturb each other. `MaxTries`, `MaxSignals` and `RetryLimit` stand for
1500, 20 and `IPC_RETRY_LIMIT`; the loops they bound do nothing but count.
`Senders` is a symmetry set in `ipi_send`, which has no liveness property.

Deadlock is not checked: every model may stop for good. A chip is never offered
again, a bound is used up, a copy has gone astray, senders have nothing left to
send, or a sender is never woken (`audio_stuck`). What must not stop is said by
the liveness properties and by `Stirring`, `HeadServed` and `Roused`.

Fairness, and what justifies it:

* `bt_recovery`: the kernel runs its timers, the USB core's work and the open of
  a process that has begun; a crashed firmware sends the packets of its dump; a
  pulsed chip leaves the bus (`PinReliable`); the stack opens a working device,
  reads an error it is told of, closes and opens again. The last two are what
  the driver relies on: it has no means of its own to recover a device nobody
  opens. Nothing is assumed of unplugging, crashing, sleeping, writing, or
  closing without an error.
* `stack_io`: the same of the USB core and the chip; the USB core ends the
  transfers of a lost device; the reading thread goes on polling and reading; a
  sender that has begun goes on (`wr_mtx` is a semaphore whose waiters are served
  in order, so that each comes to its turn). Nothing of opening, closing,
  beginning to send, or receiving.
* `ipi_live`: senders run and their timers run out, the kernel thread runs, a
  DSP that is up handles its interrupt, a started one comes up, user space
  answers the uevent. `SenderReturns` needs the first only.
* `audio_ipi`, `audio_stuck`: senders that can go on do. Nothing of the DSP: the
  waits for it have time-outs.
* `dsp_life`: works run, the daemon answers each uevent, a started DSP comes up
  and its message arrives, a suspend that has begun ends in a resume.

### Disagreements met

With a run:

1. `adf_lost`: a write is to "flush dpsz bytes old data and accumulate it into
   dropped size count" (adf_ringbuf.c:222). One of exactly the free length
   rounds what it must drop down to nothing (lines 40-41), `wp` meets `rp`, and
   the full ring is an empty one, with `drop` still 0. `StreamSpec` says that
   nothing else goes wrong with a drop unit, and `LossesCounted`, which is
   proved, when exactly this does: when what is too much for the ring comes to
   whole drop units. Its other case is disagreement 8.
2. `audio_stuck`: `send_message` is to "wait until processed, and then send
   message to scp" (audio_ipi_queue.c:378). A sender that gives up after signals
   returns (405) and leaves its message in the ring with nobody to take it out;
   all who come later wait behind it. `Served` says that nothing else stops
   them.

Met earlier, without a run of their own now; each is reproduced by a cfg of the
stated constants, with the property alone:

3. `PulseMonitored` (`BtLifecycle`, two faults): a failed probe pulses the pin
   and starts the timer "to monitor disconnect event happen or not"
   (main.c:1121); the probe of interface 1 that follows deletes it (6516).
   `PulseWatched`, which is proved, is what is left of it.
4. `OneFirstPacket` (`BtLifecycle`, two faults): the test for "the first BULK_IN
   packet of FW dump" (4770) forgets `SUSPEND_FW_DUMP`.
5. `WorkingBound` (`BtLifecycle`, early suspend): early suspend overwrites
   DISCONNECT, and late resume, which means to "ignore and set to disconnect
   state" (4594), makes it WORKING.
6. `StreamSpec` (`BtMetabuffer`, `KeepsUp = FALSE`): the bulk completion notices
   "no enough space to store the received data" (4858) and stores it.
7. `CopiesInside` (`BtMetabuffer`, ACL data of 0 and 2): the rest of an
   oversized ACL packet that ends one short of the end of the ring gives the
   second copy the length -1 (4912). `StraysAtTheEnd`, checked by `meta_stream`
   and proved, says that this is the only way.
8. `DropCounted` without its premise `dropunit > 0` (`AdfRingbuf`, drop unit 0):
   of `adfRingbuf_add` it is said that "the write data cannot be cutted"
   (adf_ringbuf.c:262) and that what it returns "should be always equal to the
   expected add size" (268; 293 says the same of `adfRingbuf_apply`). In a ring that never
   drops, an add without room is cut to the free length less four (49): the
   hardware has written over the oldest bytes, `wp` moves by less than was put,
   or goes back if less than four bytes were free, even before the base, and
   nothing is counted. `Overlay` in `AdfStream` says what is in the ring then.
9. `Valid` (`AdfRingbuf`, drop unit 3 or 5): a drop unit that does not divide
   the ring, which `adfRingbuf_init` does not ask for, can take `rp` out of the
   buffer, as `_adfRingbuf_checkDrop` rounds up (40) to more bytes than there
   are. With a ring of 8 and a drop unit of 5, `rp` 7 and `wp` 6, a put of 7
   drops 10 and leaves `rp` at 9. `adfRingbuf_checkValid` calls such a ring
   invalid. `PointersStay`, checked and proved, says that this and 8 are the only
   ways, and `AdfStaysValid` that a drop unit that divides the ring is safe.
10. `WriterReturns` without `starved` (`BtStackIo`): a sender whose transfer
   cannot be allocated or submitted returns an error (2142-2154, 2169-2173) and
   leaves `meta_tx` set, which it set itself (2140), with no completion to come.
   The next sender spins (2136) holding `wr_mtx`, and those behind it wait, until
   the device is lost: no timer and no return ends it. With memory for each
   transfer, and in every case when the device itself was lost, senders return.

## 4. What is proved

TLAPS checks the theorems for all values of the constants; the only assumptions
are the named ones beside the constants (`ConstantsAssumption`,
`MetabufferAssumption`, `StackIoAssumption`, `IpiRingAssumption`, ...) and the
hypotheses a theorem states.

`BtLifecycleProofs`: the following `IInv` is inductive for any number of faults
and retries, with and without early suspend, and from it follow `TypeCorrect`,
`ResetsMonitored`, `DumpsEnd`, `DumpsWatched`, `SuspendsCounted`,
`UrbsAlwaysMarked`, `PulsesWatched`, and, assuming no early suspend,
`WorkingIsBound`.

* `TypeOK`, in six parts so that each step disturbs few.
* `Sleeping`: what the place of the hub's thread says of the bus, of `bound`
  and of the counts. `SuspendCounted` is not inductive alone: a disconnect in
  sleep leaves the count behind, and only the next probe's reset of it, before
  `bound` holds again, makes it right.
* `NoLateThread`: without early suspend its thread never starts.
* `Watched`: `ResetMonitored` and `DumpEnds` must hold already from the probe's
  entry, when the driver is not yet bound, as a reset can be claimed then; and a
  diagnostic reset pending must imply a reset claimed, or
  `btmtk_usb_toggle_rst_pin` could delete the dump watchdog and skip the reset.
* `UrbsMarked`, inductive with the types.
* `Claimed`, upon `IInv`, for `PulsesWatched`: a pulse on a bound device or
  during its probe belongs to a claimed reset, which `Watched` has monitored.

`BtSessionProofs`, for a kernel without early suspend and any number of faults:

* `ServesOn` (`Serving`), from `SessionInv`, which follows one open of the
  device: `OpenPhase` through the steps of `btmtk_usb_fops_open`, `OpenedPhase`
  through every number of system sleeps, for each place of the hub's thread. It
  speaks of a session in which nothing has happened to the chip (`Sound`): each
  error path crashes the chip, takes it off the bus or claims a reset, and
  none of these ends before a disconnect ends the session. That a skipped
  `btmtk_usb_toggle_rst_pin` is no way out is `Watched`'s part.
* `StackIsTold` (`StackTold`), from `NoticeInv`: the notice of a disconnect is
  set, has been read, or is still to come from `L0_probe` (`Coming`), which a
  claimed reset has hooked (`Hooked`). The theorem needs `WorkingIsBound`: a
  driver that works has been probed since.

* `AlwaysStirring` (`Stirring`), from `StirInv`: no deadlock but by the choice
  of the user. What makes it hard are the resumes that fail: a chip that sleeps
  has no URB (`Silent`), so a resume that cannot submit has either claimed a
  reset or asked for a crash with a URB in place to hear of it (`Helped`). That
  the pulse of a failed probe is still there, with a reliable pin, is
  `PinWorks`. The run has an unreliable pin, so for that case it is the theorem
  that counts.

`BtMetabufferProofs`, for a ring of any size, any packets and any reads:

* `RingTypeCorrect`, with no hypothesis.
* `ImplementsStream`, if the reader keeps up (disagreement 6 shows that it
  must), and without that `OnlyOverrunsBreakStream`: each step is one of the
  queue or a bulk packet stored with no room.
* `RingStraysAtTheEnd` and `RingCopiesInside`: where a copy can leave the ring,
  and that none does when no packet is oversized. Neither needs a reader that
  keeps up.

The argument of the first two: `Contents` are the `Used` cells from `read_p` on,
over the end of the ring (`ContentsBytes`, which also gives
`RoomLeft = Size - 1 - Used`); a packet that fits is laid in the cells `Behind`
`write_p` whichever way it is cut (`StoreCells`) and so extends the contents
(`StoreAppends`); a read is a prefix of the contents whichever way it is cut
(`ReadCells`, `ReadTakes`). `ResetsPatient` needs no hypothesis but
`FullTimes > 1`: the invariant `Counted` says that a counter that stands above
zero belongs to a pipe whose last packet found the ring full.

`BtStackIoProofs`: `RingBehaves`, that every step of the character device is a
step of the ring or none, which brings `IoImplementsStream` (if the reader keeps
up) and `IoResetsPatient`. `IoInv` is inductive and gives `ReadersRoused`
and `EventsWhole`; with the types, `IoTypeCorrect`. `Roused` is not inductive
alone: that an event stored outside WORKING does no harm rests on the place of
the USB core (`Place`): packets come only from a device that was probed, and
WORKING is entered from PROBE with an empty ring; and an error noted without a
wake-up (by a disconnect) is followed by the wake-up of the probe that ends in
WORKING. `EventWhole` needs that a read that tells the error still finds it set
(`ReaderPlace`), though the flag is copied outside the mutex. `WayUnderway`
(`Underway`) is the safety part of `WriterReturns`: what a spinning sender waits
for is on its way, unless the transfer that set `meta_tx` failed by itself.

`AdspIpiSendProofs`: `IpiTypeCorrect`; `IpiKept` and `IpiOnceInOrder` from
`QueueInv` (until the ring is emptied under a message, it holds the last ones
pushed in their order, and all of them but perhaps the front one lack a result;
while it is half emptied the thread holds nothing); `IpiOwnResult`, from
`Counted` (a slot's `queue_counter` is the number of its message), `Holding` and
`Signalled`, as long as fewer messages are sent than `queue_counter` has values.
`IpiInHand` is the safety part of `Answered`: by `MissedOnly` the interrupt is
down under a waiting thread only when the DSP missed it each time, and by
`Recovering` a DSP that does not run is about to be loaded.

`AudioIpiProofs`: types, `AudioTurn`, `AudioWoken` and `AudioInOrder` from
`RingInv`, whose parts tie each sender to its slot, see the head of the module.
`Woken` is inductive only with `InFront`: who popped the head is on its way to
wake. With `Gone` (who has returned has nothing in the ring) it gives
`AudioHeadServed`; `AudioLeftForGood` is disagreement 2 for every number of
senders: what is left at the head stays there, and the scene stands still.

`AudioOwnAck` is from `AckInv` upon `RingInv`. Only one sender is at the DSP
(`OneFront`), so an acknowledgement that comes in time is being copied for that
sender (`CopyWanted`), `ipi_msg_ack` is clear when nobody has been answered
(`AckWanted`), and once its payload is copied it is the answer to that sender's
message (`AckOwn`). It is the turn at the DSP, not the check of the message id,
that keeps the answers apart.

`DspLifeProofs`: `DspTypeCorrect`, `DspNothingForgotten` and `DspWatched`, for
any number of loads and failures, from `Good`: until spoilt, a failure stands in
exactly one place on its way (`Single`), each step of a recovery finds what the
step before left (`Steps`), and between recoveries the DSP serves or will
(`Rest`).

`AdfRingbufProofs`, for any size of ring and word and any drop unit:
`AdfTypeCorrect`, with no hypothesis; `AdfImplementsStream`, of all steps with
the pointers in the buffer and a drop unit that fits into it (`Sane`). A put lays
its bytes behind the contents (`PutBytes`), a move of `rp` drops their front
(`MovedOn`). What the argument needs of `%` is proved there too: a size rounded
over drop units leaves its remainder (`WholeUnits`).
`AdfLossesCounted` (`LossesCounted`) bounds disagreements 1 and 8: the uncounted
losses are the put that fills the ring, `Brim`, and the add to a never-drop ring
without room, `CutAdd`, and no other. `AdfPointersStay` (`PointersStay`) bounds 8
and 9, and `AdfStaysValid` turns it round: if every drop unit divides the ring,
both pointers stay in the buffer for good.

Only model-checked: the liveness properties (`Recovers` of both, `SenderReturns`,
`Answered`, `Served`, `WriterReturns`, `NoticeTaken`), which are out of the
prover's reach. The safety a good part of them rests on is proved: `Stirring`,
`InHand`, `HeadServed`, `Underway`, `Roused`, which say that nobody waits for
something that is not to come. Every invariant and every action property of a
run is stated by a theorem. `PulseWatched`, `WorkingBound`, `InHand`,
`Underway`, `CopiesInside`, `LossesCounted` and the `Valid` of `AdfStaysValid`
have a theorem and no run; TLC finds nothing against them
with the constants of their component's runs, `CopiesInside` with ACL data of 0
and 1, `Valid` with drop units 1 and 2.

Why `WriterReturns` holds is worth a word: a sender that is still in the driver
when the device goes spins until `meta_tx` is clear. The disconnect clears it
(main.c:6805), but a sender that had the semaphore may set it again after that
and fail to submit; what frees the next is the clearing in the probe (6585).
Where there is no probe to come, the device being there, nothing frees it:
disagreement 10.

## 5. Not modelled

* Power commands, rom patch download: sequences of commands to the chip whose
  answers decide alone. `BtLifecycle` has every outcome, the lasting
  POWERING_ON included; their loops read the event pipe byte by byte and would
  be a model of the chip.
* SCO and the isochronous pipe, firmware log, dump file writer: data paths
  beside the ones modelled, with kernel queues and files at their ends.
* The assembly of a packet from two writes, and what is in a packet: the packet
  type that survives an error (main.c:5348) is visible only in the data.
* The far-field DSP's receive queue: one producer and one consumer of the ring
  of `IpiRing`, with nobody who waits. Its PCM, compress and shared-memory
  streams: their other end is firmware that is not in the repository.
* The framework's log and debug: a poll of a ring and printing.
* `WLAN`, SDIO, kernel, boot loader, libraries, packages: third-party, or not
  built for this platform. What they do to the modelled parts is in the
  external actions.
