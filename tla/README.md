# DAHDI in TLA+

DAHDI is the Linux kernel's interface to telephony boards. A board is a *span*; a span has *channels*; a channel
carries eight bytes of telephone signal per millisecond in each direction (a *chunk*) and a signalling state. User programs open
the channels as device files and read, write and control them. The board's interrupt calls
`dahdi_receive()` and `dahdi_transmit()` for each chunk of a span; the span that is the *timing master* also runs, in
the same interrupt, everything that belongs to no span: pseudo channels, conferences, timers.

All of that is one file, `src/linux/drivers/dahdi/dahdi-base.c` (8342 lines, called *base.c* below), with its
data structures in `src/linux/include/dahdi/kernel.h` and its user interface in `user.h`. The project models this core first: it is
the code that every board, every protocol stack and every user depends on, and the one in which interrupts, several user
threads and several locks meet. Around it stand three more components with state machines of their own: the transcoder
interface (`dahdi_transcode.c`), the driver of the transcoder card (`wctc4xxp/base.c`, called *wctc4xxp* below) and the spans that
live in a network (`dahdi_dynamic.c`, called *dynamic* below).

Contents: [inventory](#inventory), [plan](#plan), [modules and code](#modules-and-code), [runs](#runs),
[proofs](#proofs), [disagreements](#disagreements-between-code-and-comments), [limits](#what-is-not-modelled-and-what-is-only-model-checked).

## Inventory

### Who runs, and under which lock

* **Interrupts** of spans: `dahdi_receive` and `dahdi_transmit`, for each channel under `chan->lock`; the master's
  `process_masterspan` under `bigzaplock`. They interrupt users at any moment and run on other processors at the same time.
* **User threads** in `read`, `write`, `poll` and `ioctl` of a channel. They hold `chan->lock` for short sections and give
  it up for copies to and from user space and for sleeping.
* **The control device** `/dev/dahdi/ctl`. Its ioctls run under the big kernel lock, so one at a time.
* **Board drivers** that register and unregister spans and report alarms and hook states at any moment.
* **The transcoder card**: threads that hold `chansem` and sleep for answers of its DTE processor, deferred work, a watchdog timer and an interrupt.
* **Dynamic spans**: receivers of packets, a tasklet, a timer and the clock, under `dlock` for parts of their work.

`schluffen()` (base.c:861) is how a thread sleeps: it joins a wait queue and sleeps *without* looking at its condition again.

### Components

| component | state | operations | interacts with | hard behaviours | correct means |
|---|---|---|---|---|---|
| **transmit ring** | `inwritebuf`, `outwritebuf`, `writen`, `writeidx`, `writebuf`, `txbufpolicy`, `txdisable` | `write`, rotation in `__dahdi_getbuf_chunk`, SYNC, IOMUX, FLUSH, ONHOOK, SET_BUFINFO | users, interrupt, events | copy without the lock; sleep after unlock; full and empty as sentinels; MTP2's repeated frame | a queue of whole frames; a full ring runs; sleepers are woken |
| **receive ring** | `inreadbuf`, `outreadbuf`, `readn`, `readidx`, `infcs`, `rxhdlc` | `read`, `__putbuf_chunk`, `dahdi_hdlc_putbuf/finish/abort`, FLUSH, ONHOOK, SET_BUFINFO | interrupt or framer driver, users | the same, and overruns, bad frames, resets in the middle of a frame | frames read are frames of the line, whole, in order, once |
| **conferences** | `confna`, `confmode`, `_confn`, `confalias`, `confrev`, `maxconfs`, three sets of sums, `conflast*`, `conf_links` | SETCONF, CONFLINK, open, close, `dahdi_chan_unreg`, `process_masterspan` | all channels of all spans | membership and sums under different locks; `maxchans` counted up again while members are looked for; rotation; accumulators that are given back | each listener hears every other member once and itself never |
| **spans and timing master** | `spans`, `maxspans`, `master`, `alarms`, `maintstat`, `mainttimer` | `dahdi_register`, `dahdi_unregister`, STARTUP, SHUTDOWN, MAINT, `dahdi_alarm_notify` | drivers, interrupts | no lock at all ("FIXME: locking"); signals during MAINT | the master is registered, and healthy if possible |
| **slave channels** | `master`, `nextslave` | CHANCONFIG, `recalc_slaves` | interrupts of the span | lists are relinked while they are followed | lists end, share nothing, hold the slaves |
| **hook states, RBS signalling** | `txstate`, `txhooksig`, `otimer`, `rxhooksig`, `itimer`, `gotgs`, pulse counters, digits to dial | HOOK, DIAL, timers in `dahdi_receive/transmit`, `dahdi_hooksig`, open, close | far end, users, events | one state machine driven from three sides; timers against late answers | the line shows the state; states end; reports are true |
| channel event queue, IOMUX | `eventbuf`, `eventinidx`, `eventoutidx`, `iomask` | `__qevent`, GETEVENT, FLUSH, IOMUX, poll | every part that reports | full queue, one mask for several threads | events in order, none lost but the newest of a full queue |
| **channel lifecycle** | `chans`, `maxchans`, flags OPEN and REGISTERED, `file` | open, SPECIFY, pseudo channels, release, registration | all of the above | release by number, failure half way through open | a channel has one user; nothing leaks |
| **tones and tone zones** | `tone_zones`, `refcount`, `curzone`, tone position | load and free zone, SETTONEZONE, SENDTONE | channel lifecycle | counts through failing opens | no zone in use is freed |
| **echo canceller attachment** | `ecfactory_list`, `ec_factory`, `ec_current`, `ec_state` | register, attach, enable, close | module references | early returns, unregister while attached | references balance |
| timers | `zaptimers`, `ms`, `pos`, `tripped`, `ping` | open, TIMERCONFIG, TIMERACK, PING, tick | master's interrupt | tick against configuration | each period is counted once |
| **dynamic spans** | `dspans`, `alarm`, `master`, `hasmaster`, `rxjif`, `taskletpending` | create, destroy, `dahdi_dynamic_receive`, `checkmaster`, `check_for_red_alarm`, `__ztdynamic_run` | network, clock | packets, timer and list change under different locks; the clock runs spans only without a master | one master, the best; spans are served when it falls silent |
| **transcoder interface** | `active_list`, `busy`, `built`, `built_fmts`, `private_data` | ALLOCATE, close, register, unregister | files, card | flags of one channel under two locks, or none | a channel has one user; a pair is built as a whole |
| **transcoder card** | descriptor rings, `cmd_list`, `waiting_for_response_list`, `chansem`, `open_channels` | sending, `service_dte`, watchdog, create and destroy pairs | DTE processor, interface | full ring, late and repeated answers, four threads over one command | commands end, are not lost and not taken for another |
| voicebus | descriptor rings, buffers | `voicebus/voicebus.c` | PCI controller | ownership bits, underruns | each buffer has one owner |
| Astribank (xpp) | xbus state, frame queues and pools | `xpp/` | USB | disconnect at any moment, pools at their limit | frames are not lost or freed twice |
| board drivers | hardware registers | `wct4xxp/`, `wctdm*`, `wcte*`, `wcb4xxp/`, `tor2.c`, ... | core | hardware timing | not decidable from the source |
| signal processing | filter coefficients | `dahdi_echocan_*.c`, `adt_lec.c`, `tones.h` | channels | none | numerical quality |
| tools | none | `src/tools/` | ioctls | none | parse files, call ioctls |

`PROJECT.json` lists the same parts with their status, and under `hazards` the places in the code where these behaviours bite most, with the properties that would notice, or the reason why none does.

## Plan

| order | modules | composed with | abstract specification | status |
|---|---|---|---|---|
| 1 | `TxRing`, `TxRingProofs` | - | `FrameQueue` | done |
| 2 | `RxRing`, `RxRingProofs` | - | `FrameReceiver` | done |
| 3 | `Conferences`, `ConferenceMixing`, `ConferenceProofs` | mixing on membership | the sum of the other voices, as an operator | done |
| 4 | `Spans`, `Hyperchannels`, `SpanProofs` | channels on spans | - | done |
| 5 | `RbsSignalling`, `RbsProofs` | - | - | done |
| 6 | `DteCommands`, `DteProofs` | - | - | done |
| 7 | `Transcoder`, `TranscoderProofs` | on the promise of `DteCommands` that commands end | - | done |
| 8 | `DynamicSpans`, `DynamicProofs` | - | - | done |
| 9 | `ChannelFiles`, `SpanProofs` | files, tone zones and echo cancellers on `Hyperchannels` | `Hyperchannels`, which it extends | done; pseudo channels later |
| 10 | event queue with IOMUX and poll, timers | channel, master's tick | a bounded queue that drops the newest; counters | later |
| 11 | voicebus descriptor rings, `xframe_queue` | - | queues | later |

Every safety and action property of the passing runs is a theorem; rows 10 and 11 come with their own.
A module with theorems uses no RECURSIVE operator; where the code loops over a list the models use a recursive function, or one step per round.

## Modules and code

Names of variables are those of the code. In every module, code under one lock that nothing else interrupts is one action; where the code gives
a lock up, an action ends. Operators whose names end in a suffix such as `Following_NoWrap` are *mutants*: plausible mistakes in the operator
that follows them. Nothing uses them; they stand beside it to show which property notices which mistake.

### `TxRing` - the transmit ring (implements `FrameQueue`)

Two threads: a *writer* (write, SET_BUFINFO) and a *waiter* (SYNC, IOMUX). `pc` says where each stands; `res` is the writer's local copy of `inwritebuf`.
Who empties the ring is the span's interrupt or, on a channel with `framer` (DAHDI_FLAG_NOSTDTXRX), the driver of a framer chip.

| actions | code |
|---|---|
| `BeginWrite`, `WriteEvent`, `WriteFull`, `WriteStart` | `dahdi_chan_write` up to the copy; `WriteFull` and then `Sleep` are the unlock and `schluffen` |
| `WriteCopied`, `WriteFault`, `WriteCommit` | the copy without the lock, its failure, and the rotation under the lock |
| `SendChunk`, `FinishBuffer` | what is sent goes on within a frame, or ends one and rotates; the wake-ups are `RotationWakes` |
| `GetbufChunk`, `HdlcGetbuf` | the same two in a round of `__dahdi_getbuf_chunk` and in a call of `dahdi_hdlc_getbuf`, which does not look at `txdisable` |
| `BeginWait`, `WaitCheck`, `Sleep` | SYNC and IOMUX |
| `Flush`, `Hangup`, `SetPolicy`, `Realloc`, `ReallocFails`, `QEvent`, `DrainEvents`, `Signal` | FLUSH, `dahdi_hangup`, the two parts of SET_BUFINFO, events, signals |

Frames have lengths in chunks (0, 1 and more than 1 are what the code tells apart) and a value that stands for their bytes; a copy that fails leaves the value `Torn`.

### `RxRing` - the receive ring (implements `FrameReceiver`)

One reader; the line sends bytes and ends frames well or badly. Four modes of channels: blocks of audio, HDLC with check sequence in
software, the same with MTP2's suppression of repeated messages, and a framer chip. `Sizes` and `Ops` give each mode its numbers of buffers and the operations that meet it. `infcs` abstracts the check sequence to what it has seen (nothing, exactly the
frame, something else), `searching` the deframer to whether it waits for a flag. `AudioByte`, `LineByte`, `LineFlag` are `__putbuf_chunk`;
`HdlcPutbuf`, `HdlcFinish`, `HdlcAbort` the functions of that name; `ReadEmpty`, `ReadStart`, `ReadFault`, `ReadDone` are `dahdi_chan_read`.

### `Conferences` and `ConferenceMixing`

`Conferences` has the membership and the accumulators (*aliases*): `SetConf` is DAHDI_SETCONF under `bigzaplock`; open and close are two steps
each, since their `dahdi_check_conf` looks for members and clears the alias without that lock. Nothing makes callers take turns.
When a pseudo channel is freed, `Unregister` takes it out of `chans` and sets `maxchans` to 0, and `PassBy` and `FreeWatcher` are the rounds of the loop in `dahdi_chan_unreg`, which counts `maxchans` up again and
calls `dahdi_check_conf` with the number of the channel for each one that monitored it. Every `dahdi_check_conf` sees the channels below `maxchans` as it is at that moment.
A conference can so lose its accumulator with members in it, in two ways (`Record`): somebody joins between the look for members and the clearing, or `maxchans` reaches none of the members. `torn` is the set of these conferences, until they are empty again.
`ConferenceMixing` adds what is heard: `Tick` is one run of `process_masterspan` in the order the code numbers its steps (lines into the sums, rotation, users into the next sums, links, listeners). As long as nothing clips,
the sums are linear, so it is enough to follow one voice and to count how often it is in each sum; a voice is the line or the user of a channel. Any one may speak once nothing is left of the one before.
They are also sums sample by sample, so it is enough to follow one sample of the chunk; `half` says in which half of it that is, because SETCONF clears no more than the first half of `conflast`, `conflast1` and `conflast2`. Opening and closing clear all.

### `Spans` and `Hyperchannels`

`Spans` has the span table, the master, alarms and maintenance. `Unregister`, `ChooseMaster` and `CommitMaster` are the three parts of `dahdi_unregister`, between which anything can happen that does not itself take the big kernel lock.
`Hyperchannels` adds the channels: `ChanConfig`, `Detach`, `Relink`, `Attach` are CHANCONFIG, with one step for each assignment to a list in `recalc_slaves`. `Served(head)` is what the loop in `dahdi_transmit` visits from a master.

### `ChannelFiles` - files, tone zones and echo cancellers on `Hyperchannels`

`FilesNext` adds to each action of `Hyperchannels` what it does to the table `chans`, and adds the actions of files. A file keeps the number of its channel, `unit`, and looks the channel up at each call (`Chan`); `at` says how far its open or close has come.

| actions | code |
|---|---|
| `RegisterFiles`, `UnregisterFiles` | `dahdi_chan_reg`, `dahdi_chan_unreg`: numbers are given out and taken back, the attached canceller's module is put |
| `Open`, `InitializeChannel`, `InitializeFails`, `SetDefault`, `DriverOpens`, `DriverFails` | `dahdi_specchan_open`: the bit, `initialize_channel` up to the zone it takes, the driver's `open`, and what each does on failure |
| `Release`, `ClearOpen` | `dahdi_specchan_release`: `close_channel`, then the bit |
| `ChooseZone`, `LoadZone`, `SetDefaultZone`, `FreeZone` | SETTONEZONE, LOADZONE, DEFAULTZONE, FREEZONE; `SetToneZone` is `set_tone_zone` under `zone_lock` |
| `AttachEchocan`, `BeginEchocancel`, `EchocanCreated`, `EchocanFails`, `EchocanOff` | ATTACH_ECHOCAN; ECHOCANCEL before and after it sleeps to make a canceller; ECHOCANCEL without taps and AUDIOMODE off |
| `LoadFactory`, `UnloadFactory` | modules with a canceller come, and go when nobody has a reference |

`ec_current` of the model is `ec_current` of the code as long as the channel has an `ec_state`, and `None` otherwise: `initialize_channel` clears only the latter. `lost` counts, besides the references, those that nobody will ever give back: what a channel had when its span went and its structure was used again,
and the canceller that is overwritten when two threads make one at once. `yanked` remembers that a span went while one of its channels was open.

### `RbsSignalling`

Each case of `__rbs_otimer_expire` is an action, named for what it does (`RingerOn` ... `DigitSent`), as is each kind of signalling in `__dahdi_hooksig_pvt` (`TrunkOffHook` ... `PhoneOnHook`), each timer of `dahdi_receive` and each operation of DAHDI_HOOK. A DAHDI_HOOK takes the lock twice: `BeginHook` stops dialling,
then, some steps later, `SetOnHook`, `SetWink` and so on set the hook, or `RefuseHook` returns an error. `call` is the user in between, or asleep in a wink or flash.
A timer is only *running or not*: it may expire at any moment. The model therefore covers all lengths that
DAHDI_SET_PARAMS can set, and relies on none. `event` holds the events the last step queued; `hasty` remembers that a user has cut a settling time short (see below).

### `DteCommands` - commands to the transcoder card's processor

The card takes commands and voice frames from one ring of descriptors. A *tcb* is on that ring, on `cmd_list` (the ring was full), in the hands of a thread, or waiting for its answer. Four threads of control meet over it, `pc` says where each is and `cur` what it has in hand:
the *user*, who holds `chansem` and sleeps until his command is over; a *writer* of voice frames; the deferred *work* that the interrupt calls; the watchdog (*dog*).

| actions | code (*wctc4xxp*) |
|---|---|
| `SendCommand`, `Return`, `EndOperation` | `wctc4xxp_transmit_cmd_and_wait`, `free_cmd`: one command after another in the same tcb |
| `Write` | `wctc4xxp_write`: a voice frame (or an acknowledgement) on its way to `wctc4xxp_transmit_cmd` |
| `Enlist`, `Submit`, `Requeue` | `wctc4xxp_transmit_cmd`: onto the waiting list, into a descriptor or -EBUSY, onto `cmd_list`; each under a lock of its own |
| `ReadHead`, `Retrieve`, `Complete`, `PullQueued` | `service_tx_ring` and `wctc4xxp_retrieve`: the head is read outside the lock under which the descriptor is taken |
| `StartWork`, `Splice`, `Receive`, `MatchResponse` | `deferred_work_func`, `service_rx_ring`, `do_rx_response_packet`: take over what was received, drop duplicates, find the waiting command |
| `FireWatchdog`, `Scan`, `Resend` | `wctc4xxp_watchdog`, `wctc4xxp_send_commands`: serve the ring, collect what is past its time, send it again or give up |
| `Send`, `Answer`, `TimePasses` | the adapter and the DTE processor, which are external, and the clock |

Time is two flags, a command past its time and a watchdog that is due, so that all lengths are covered. The DTE may answer late, never, or again.

### `Transcoder` - the transcoder interface and the card's channels (composed on `DteCommands`)

Files allocate and close channels of the card; `pc[f]` is the place of the thread that is in the interface on file `f`. `GetFreeChannel`, `Take` are `dahdi_tc_allocate` and `get_free_channel` under `translock`; `Allocate`, `EnablePolling`, `LookIfBuilt`, `DownToBuild`, `CreateChannelPair`, `MarkBuilt`, `MarkComplementBuilt` are
`wctc4xxp_operation_allocate` and `do_channel_allocate`; `Close`, `Release`, `DownToRelease`, `DisablePolling`, `LookAtComplement`, `DestroyChannelPair`, `ClearBuilt`, `ClearComplementBuilt`, `ClearBusy` the way back. `busy` is set under `translock`, `built` under `chansem`, and each is read without the other.
Commands to the DTE are single steps here that may fail: `WaitingEnds` of `DteCommands` is what makes that right, and `DteStranded` is the case in which it is not.

### `DynamicSpans`

`ReceiveAlarm`, `CheckReceived`, `Stamp` are `dahdi_dynamic_receive`, which changes alarms and `rxjif` without `dlock`; `Link`, `CheckCreated`, `Unlink`, `CheckFreed` are creation and destruction, whose `checkmaster` comes after the lock was given up; `StartRun`, `SendMessage`, `EndRun` are `__ztdynamic_run` in the tasklet, one step per span, the list unlocked in between;
`RaiseAlarms`, `CheckRaised` are `check_for_red_alarm`; `Tick` is the external clock. `CheckMaster` is `checkmaster` whole: it runs under `dlock`.

## Runs

Every run is exhaustive for its bounds.

| run | question | bounds, and why they are enough |
|---|---|---|
| `TxRingFifo` | Is the ring a queue of whole frames under flush, hangup, reallocation, signals and faults in the middle of a write, served by an interrupt or a framer? `TypeOK`, `RingSound` (a full ring runs, no writer stomps on what is sent, whole frames), `ImplementsFrameQueue` | 2 to 3 buffers: next, previous and own index are different from three on, and two is the code's minimum; empty frames and frames of two chunks |
| `TxRingService` | Do the policies hold back and start, are sleepers woken, does a full ring get room? `FramesGather`, `SleepersWoken` (whose last part is `RoomAgain`) | 2 to 4 buffers, so that half full differs from full and from one; operations that reset the ring are off, as they override the policy (see disagreements) |
| `TxRingLostWakeup` | violation: the window between unlock and `schluffen` | smallest ring |
| `RxRing` | Are frames read frames of the line, and is the sleeping reader woken? `TypeOK`, `HeadStaysPut`, `ImplementsFrameReceiver`, `AcceptsOnlyNew`, `SleepingReaderWoken` | buffers of 2 bytes and frames up to 3, check sequence included, so frames that fit, fill and overrun a buffer all occur; 2 values of bytes; 2 and 3 buffers, with reallocation between them. By hand also buffers of 3 bytes, and frames of 4 |
| `ConfMixing` | Who hears whom? `MixTypeOK`, `AccumulatorsApart` (an alias and its conference name each other, and who is in a conference that was not torn sums in that conference's accumulator, so that no two such conferences share one), `HearsRight` (`HearsOthers` for the line, `NoUserEcho` for the user), `FreedWithLastMember` | Real channels 1 and 3 and pseudo channel 2, so that a conference with the number of the freed pseudo channel (the first empty one, 2) may have its member above the watcher; 2 accumulators; two slots for links; four calls of users (`MaxCalls`: SETCONF, CONFLINK, open and close; enough for two conferences, a watcher and a pseudo channel that is closed and freed, or for two conferences, one torn, that share an accumulator); four modes, with a channel opened, closed and freed. Sums are linear, so one voice that speaks in one chunk before all is silent (`MaxSpoken`) stands for all |
| `SpanConfig` | Is the master sound, do slave lists end and hold the slaves, has a channel one file, is what is in use kept? `FilesTypeOK`, `NoDeadMaster`, `ChainsEnd`, `SlaveLists`, `OneFile`, `UsedIsKept`, `HealthyMaster` | 2 spans with 3 channels and 1: a list with a middle, slaves across spans, a span to succeed; `Busy` keeps reports, configurations, zones and echo cancellers apart, as they share only the table; 2 files for 2 units, so that both may want the same; 2 zones, so that one is left for the other; 2 threads in ECHOCANCEL for one canceller (with two cancellers by hand), one reference lost at a time (`MaxLost`). Files, cancellers and threads are symmetric |
| `RbsHooks` | Does the hook state machine show, end and report what it should? `SigTypeOK`, `LineMatchesState`, `NothingStalls`, `ReportsTrue`, `OffHookHeard`, `Settles` | all 7 signalling types; digits of 1 and 2 pulses and 2 digits: a last pulse and one that is not, a last digit and one that is not; 2 pulses from the far end |
| `DteCommands` | Is any command or frame lost, freed too early or answered by another's answer? `DteTypeOK`, `NothingLost`, `FinishedIsReleased`, `AnswersTakenOnce`, `WaitingEnds` | one descriptor, so that every second tcb finds the ring full; two commands of the same function to the supervisor, so that an old answer fits the new command; one frame; one retry. By hand two frames, with one and with two descriptors |
| `DteStranded` | violation: a full ring that is emptied before the command is on `cmd_list` | two descriptors, two frames, one command |
| `Transcoder` | Who has which channel, and do halves agree? `TcTypeOK`, `OneUser`, `PairTogether`, `OpenCount`, `CallsReturn` | 3 files for the 2 halves of a pair, so that one is refused or waits; 2 formats; a threshold at which polling starts with the second channel. By hand two pairs with two files, and with three files and one format |
| `TranscoderFormats` | violation: a channel of other formats | 2 files, 2 formats |
| `DynamicSpans` | Is the best source the master, is every span served when the network is silent? `DynTypeOK`, `MasterElected`, `SpansServed` | 2 spans of different timing that come, go and fall silent. By hand also 3 spans, two equals and one without timing (safety) |

Deadlock is checked in every run but `TxRingLostWakeup`, in which everyone may end up asleep (that is what it shows), `DteCommands` and `DteStranded`, where the board stops for good after its shutdown, and `Transcoder` and `TranscoderFormats`, where nothing is left to do once the card is removed.

Conditions that properties carry, and why:

* `AccumulatorsApart` leaves out the conferences in `torn`, which lost their accumulator with members in them (see disagreements). Their members go on summing in an accumulator that may by then be another conference's; the members of that one still sum in their own.
* `HearsRight` is, for the line, stated for a conference that has its accumulator to itself and had at the last rotation: not while members of a torn conference sum in it, and not in the first chunk, in which a stale sum may be heard. It is also stated for links that form no chain, because links of links depend on the order of slots, and while the last slot is empty (see disagreements). For the user of `realandpseudo` it is stated from the second chunk after a change of any membership: what is taken out of the sum until then may have been put into another one.
* `FreedWithLastMember` leaves out two steps, the opening and the freeing of a channel that is in the conference (see disagreements). It can be in it only because somebody else put it there while it was closed or closing.
* `SlaveLists` is, as to who is on a list, for slaves tied to earlier channels of their own span that are no slaves themselves; that lists end and share nothing is for everything users can configure.
* `OffHookHeard` is for channels on which no user has cut a debounce or battery drop short. Without the condition it fails (see disagreements).
* `AcceptsOnlyNew` is for numbers of buffers that are powers of two. `HeadStaysPut` is for channels that nothing resets while somebody reads. `ImplementsFrameReceiver` is for modes with a check sequence in software: the others have no way to tell a whole frame.
* `AnswersTakenOnce` is for commands to the supervisor. Others carry no sequence number the code would look at.
* `FramesGather` is for channels, with and without a framer, whose ring nothing resets and whose policy nothing overrides.
* `OneFile` is until a span is unregistered while one of its channels is open: from then on a file may close a channel that another has opened under the same number. `UsedIsKept` holds on, with what is lost counted in `lost`.
* `OpenCount` is for a board that runs and a driver that stays; `CallsReturn` for a board that runs.
* `SpansServed` is for the time when all spans are silent; while one is heard and fast enough the network is the clock.

### Fairness

* `TxRing`: weak fairness of the interrupt (the line's clock does not stop), of the writer's and of the waiter's next step (the scheduler runs threads). No user has to call, hang up or send a signal.
* `RxRing`: weak fairness of the arrival of bytes on an audio channel, which come whatever they carry, and of the reader. Nothing makes frames arrive. `SleepingReaderWoken` assumes that users do not hang up forever.
* `RbsSignalling`: weak fairness of the expiry of `otimer`, which each chunk of the span counts down. `Settles` assumes that users stop acting; the far end may go on.
* `DteCommands`: weak fairness of the sleeping and running threads, of the deferred work once it is called, of the watchdog once it is armed and due, of the clock, and of the adapter's taking of descriptors. The DTE need never answer.
* `Transcoder`: weak fairness of each thread's next step, strong fairness of `down()`, as a semaphore's queue is served in turn. Nobody has to call.
* `DynamicSpans`: weak fairness of packets that are being handled, of creation and destruction that have begun, of the tasklet and the timer; strong fairness of the clock's tick, which comes a thousand times a second, while a master comes and goes with packets and once-a-second alarms. Nobody has to send a packet.
* `Spans`, `ChannelFiles`, `Conferences`: safety only; `FreedWithLastMember` and `HealthyMaster` are action properties.

## Proofs

All theorems are proved with TLAPS for every value of the constants that the modules' `ASSUME`s allow.

**`TxRingProofs`** - for any number of buffers, lengths, policies, with and without framers: `TypeCorrect` (`TypeOK`), `RingIsSound` (`RingSound`), whose parts are `FullRingAlwaysRuns`, `NeverStomps`, `SendsWholeFrames`, `RefinesQueue` (`ImplementsFrameQueue`) and, where no operation resets the ring or overrides its policy (`PolicyKept`: no FLUSH, hangup, SET_BUFINFO or wait for an empty ring, as in the run), `PoliciesGather` (`FramesGather`). None of the first is inductive alone.
That a full ring runs needs that the two indices differ whenever both are numbers (else a ring of one frame looks full); that a writer does not stomp needs that its `res` still names the buffer at `inwritebuf` while it copies, unless the ring was reset, which the code's second
look notices; whole frames need that the buffer a copy has just filled is not torn when it is committed. The invariant is
`TypeOK /\ FullRingRuns /\ IndicesDiffer /\ WriterHolds /\ ReadyToCommit /\ WholeFrames`, with one lemma per action. Arithmetic modulo `numbufs` is put into lemmas about `Following`.
The refinement reads the queue off the ring, `Filled` buffers from `outwritebuf` on (`Contents`), and maps each step: a commit is `Put`, a round of the interrupt `SendChunk` or `FinishFrame`, a reset `Clear`, anything else a stutter, above all the copy, which touches no frame of the queue (`NoStomp`). That the rotated frames are the tail of the queue, or all of it for the last frame of an MTP2 channel, and that the next frame starts at its first chunk (`WholeFrames`), is arithmetic of places (`Behind`, `Ahead`). For the policies, the interrupt drains the ring and holds back in one step, and of the steps that enable the transmitter only a commit is left.

**`RxRingProofs`** - for any number of buffers (2 to 32), any lengths and any mix of modes: `TypeCorrect` (`TypeOK`), `CopyIsSafe` (`HeadStaysPut`), and for channels whose ring is not reset under the check sequence (`NeverReset`: no FLUSH and no reallocation in the modes "fcs" and "mtp2", as in the run; after a reset in the middle of a frame its tail passes for a frame, see disagreements)
`RefinesReceiver` (`ImplementsFrameReceiver`, for the modes "fcs" and "mtp2") and `NoMessageTwice` (`AcceptsOnlyNew`).
`RingInv` is about indices: they differ whenever both are numbers, and a reader that copies has the one that is read next, which the interrupt does not fill. `FrameInv` is about contents: what the reader has left behind is empty (`FreeClean`), so is the buffer in which nothing has begun (`Fresh`), and a buffer over whose bytes the check sequence ran is the frame on the line (`Whole`).
`LastInv` is for repeated messages: the last frame that was accepted stands in the slot before the one being filled, read or not, as nothing else writes there before the interrupt has moved on. The refinement maps each step: a frame that checks and is no repeat is `Receive`, any other end of a frame `Lose`, what the reader gives back is `Take`, and everything else is a byte of the line or a stutter.

**`SpanProofs`** - for any number of spans, channels and configurations: `TypeCorrect` (`HyperTypeOK`), `SlaveListsEnd` (`ChainsEnd`), `MastersNeverDead` (`NoDeadMaster`), whose parts are `MasterIsRegistered` and `MastersArePresent`, `MasterIsHealthy` (`HealthyMaster`) and `ListsAreSlaves` (`SlaveLists`).
The invariant adds what holds in the middle of `dahdi_unregister` (the chosen successor is registered, or is none because nothing is) and of CHANCONFIG (both channels and the head of the list are registered). A list ends because `nextslave` of a channel never points before the channel itself, at every single
assignment of `recalc_slaves`: the loop starts behind the head and only moves on. A span that is registered lies below `maxspans` at every moment, also while another is taken out, so that a report that changes an alarm state finds every healthy span there is.
For who is on a list `ListInv` says what a link is worth in the middle of `recalc_slaves`: it leads to a slave from its master or from another slave of that master (`LinksTied`), or to the channel just detached, until the loop has passed it; no two links lead to the same channel (`OneLink`), for what the loop is about to link has no link from elsewhere (`Progress`:
before `last` links stay before `last`, behind it there is no slave up to `x`); and as long as users are plain every slave has a link or is still ahead of the loop (`SlavesLinked`). `Served` is a recursive function of the list; `Reached` says of each of its rounds that it is closed up to a position, and a first channel that is on two lists, or on the wrong one, has one before it (`FirstPlace`).

Of files, for any number of files, zones, modules and callers besides: `FilesExtendSpans` (every step of `FilesSpec` is one of `Spec` or leaves the spans alone, so that the theorems of `SpanProofs` hold of the whole), `FilesTypes` (`FilesTypeOK`), `OneFileEach` (`OneFile`), `UsedStaysKept` (`UsedIsKept`).
For `OneFile` the invariant `TableInv` adds that a number leads to a channel of a registered span, and that a file on its way in or out has a channel (`Placed`), as nothing is unregistered under it. `UsedIsKept` is about sums, references against uses. `Count` of a table that changes in one place is a lemma (`CountUpdate`), `Tracks`
says that references and entries changed alike, and `CountsFollow` that they do whenever an entry moves and one reference with it: that is every step of set_tone_zone, close_channel, ATTACH_ECHOCAN and ECHOCANCEL. A zone that is let go is not freed because its count is what its users are; whoever waits for a canceller
has a channel that is open (`CallsInv`), so that nothing is made for a channel that is gone.

**`RbsProofs`** - for any digit strings, all seven signalling types: `TypeCorrect` (`SigTypeOK`), `LineAlwaysMatches` (`LineMatchesState`: `LineIsTrue` and `RingerHasZone`), `NothingEverStalls` (`NothingStalls`: `TimerRuns`, `DialingNeverStalls`, `SleeperIsWoken`), `PhonesAreReportedTrue` (`ReportsTrue`), `PhonesAreHeard` (`OffHookHeard`).
The invariants support each other: the last digit of a string leaves the line off hook only because the line follows the state, and a state has a timer. The strengthening is `NothingDialled`: between the two
critical sections of DAHDI_HOOK nothing is being dialled (so that a `SetRingOff` cannot leave `dialing` in a state without pulses), digits wait only while dialling is under way, and nobody is inside a closed channel. Types are grouped by the variables that steps leave alone together, so that each lemma shows the groups its actions touch and cites one lemma for each other group. The two action properties rest on `ReportsOwed`: while a phone is off hook neither `itimer` runs nor does a battery drop owe a report, and `gotgs` is set with the phone on hook only as long as `itimer` will reset it or a settling time goes on; a user who ends one is `hasty`.

**`TranscoderProofs`** - for any number of files, pairs, formats and any threshold: `TcTypeCorrect` (`TcTypeOK`), `ChannelHasOneUser` (`OneUser`), `HalvesAgree` (`PairTogether`), `CountIsRight` (`OpenCount`).
`Owned` joins the types and `OneUser` with what a place says of its thread: a thread between `down` and `up` is the holder of `chansem` (`Semaphore`), a thread that builds or releases has a channel that has formats (`Asked`, `PlaceOK`). `Paired` says of every pair of which no half is being worked on that it is whole or not there (`Whole`),
that only the holder of `chansem` works on one (`AtWork`), and how far it has got (`HalfDone`). That `Complement` is its own inverse is a lemma over the arithmetic of timeslots. `OpenCount` follows from `Owned`: a place says whether its file is counted, and `MoveKeepsCount` covers every step but the one that counts and the one that counts back.

**`DteProofs`** - for any length of the ring, any sequence of commands, any limit of retries and any number of frames: `CommandTypes` (`DteTypeOK`), `NothingIsLost` (`NothingLost`), `FinishedAndReleased` (`FinishedIsReleased`), `AnswersAreNew` (`AnswersTakenOnce`).
The argument counts places: the ring, `cmd_list`, `to_retry` and the four threads' hands. A frame is in one of them as long as it is not freed, and in none after (`FrameInv`); a command whose sender still waits is in one, or has been sent and waits for its answer on the waiting list, and is nowhere once the sender has been told (`PendingInv`, `OverInv`),
so that nothing that is on its way belongs to somebody who has gone on. `ThreadInv` says what each thread has in hand where it stands. For the answers, `OrderInv`: they arrive, are taken over and are looked at in the order of the commands they answer, which is why it is enough that the code keeps the sequence number of the last one
from the supervisor. `NothingLost` and the others hold for every interleaving of the four threads without the fairness the run assumes.

**`DynamicProofs`** - for any spans, whatever timing each of them offers: `DynamicTypes` (`DynTypeOK`), `BestIsMaster` (`MasterElected`).
The invariant adds that a master gives timing and has been listed (`MastersAreSources`), and that two listed spans are never both master, not even while a `checkmaster` is owed (`OneMaster`); when none is owed the master is the first of the best in the list (`Elected`). That `checkmaster` finds it is a lemma about the least element of a set of places.

**`ConferenceProofs`** - for any channels, conference numbers, modes and any number of links: `ConfTypes` (`TypeOK`), `TablesMirror` (`AliasPairs`), `ConferencesApart` (`AccumulatorsApart`) and `LastMemberFrees` (`FreedWithLastMember`);
`MixingFollowsMembership` (the mixer's steps are steps of `Conferences` or leave membership alone, so that these theorems hold of the mixer), `MixTypes` (`MixTypeOK`) and `EverybodyHearsRight` (`HearsRight`). None of them assumes anything of callers: opens, closes, SETCONFs and the freeing of pseudo channels overlap as they like.
`TablesInv` says that the two tables mirror each other and that `maxconfs` bounds what is in use. `MembersInv` says that members are registered and their conferences numbered. That a member's conference has an accumulator and that `_confn` names it (`OwnAccumulator`) needs that a conference which somebody is about to clear is empty or `torn` (`NobodyLeft`):
whoever joins it makes it torn, and so does a look for members that `maxchans` keeps from all of them.
What is heard rests on three invariants. `ClosingInv`: no chunk is mixed while a close is about to clear an accumulator. `AheadInv`: of a conference that had its accumulator at the last tick, the next sum holds what its users put in ahead and nothing else. `EchoInv`: when nothing was moved for two ticks, what a user put in is what is kept to be taken out of the sum again.
The loop over the links is a recursive function. That it exists and ends is shown with a least counterexample (`LeastNumber`) in place of induction; that each source is added once (`LinkedSum`) because links are distinct and, in the property, sources have no sources. The run has one link in a slot that is served, the theorem any number.

Not provable with the installed provers, and left to TLC: liveness (`SleepersWoken`, `SleepingReaderWoken`, `Settles`, `WaitingEnds`, `CallsReturn`, `SpansServed`). Recursive functions (the loops over slaves and over links) are dealt with by least counterexamples, as the induction theorems of the library cannot be applied.

## Disagreements between code and comments

With a run that shows them:

* `TxRingLostWakeup`: a comment at base.c:6202 says that waking at every emptied buffer makes up for a missed wake-up. It does not if the whole ring drains in the window.
* `DteStranded`: a comment at wctc4xxp/base.c:1720 says that what goes to `cmd_list` is taken from there as room is made. It is not if all the room was made before it got there; its sender sleeps with `chansem` held.
* `TranscoderFormats`: a comment at dahdi_transcode.c:206 says that a built channel must support the formats asked for. While its other half is being built it is not looked at.

Met while modelling, without a run of their own. The first four are stated in the modules and fail when they are put into a run: `ClearsOnlyEmpty` (`Conferences`), `OnlyThisChunk` (`ConferenceMixing`), the refinement of `RxRing` for the mode "hard", `DiscardsOnlyRepeats` (`RxRing`, mode "mtp2").

* base.c:809: "If we get here, nobody is in the conference anymore" is not so (`ClearsOnlyEmpty`). Open and close (base.c:2522, 1237) look for members without the lock of SETCONF, so that somebody may have joined by the time the alias is cleared.
* base.c:1922: `dahdi_chan_unreg` has set `maxchans` to 0 (1902) and counts it up as it goes (1905); the `dahdi_check_conf` it calls for a watcher of the freed pseudo channel sees only the channels up to the watcher (798). The conference that has the number of the freed channel loses its accumulator with members of higher numbers in it.
  This needs no two callers at once. In both cases the members keep `_confn`, the accumulator goes to the next conference, and the two hear each other. (The number that is checked is that of a channel; a conference has nothing to do with it.)
* base.c:4717: SETCONF means to "clear last added info" and clears DAHDI_MAX_CHUNKSIZE bytes of arrays of as many shorts: the second half stays, and is taken out of the new conference's sum for the user of `realandpseudo`. (For the line it is overwritten before it is used.)
* base.c:745: `recalc_maxlinks` begins one below the last slot CONFLINK uses (4812); a link there is served only when the slot before it has one.
* base.c:2521: "release conference resource if any" looks for members while the channel that is opened is one: a conference it was put into while it was closed keeps its accumulator with nobody in it. A pseudo channel put into a conference while it closes takes the accumulator along when it is freed; nothing looks at that conference.
* base.c:455: accumulators of conferences that went away are not cleared and sound in the next conference that gets them.
* base.c:7457: `dahdi_hdlc_putbuf` forgets that a frame that did not fit is to be dropped; its tail is delivered as a frame.
* base.c:7282: "Our messages are the same" is concluded from a comparison that ignores the length of the earlier message.
* base.c:7527: `left <= *size` compares an `int` with an `unsigned`: a framer's frame shorter than its two bytes of check sequence never ends. `dahdi_hdlc_getbuf` does not look at `txdisable`, so WHEN_FULL and HALF_FULL do not hold a framer back.
* base.c:2674: release looks its channel up by number; after the span was unregistered and another registered under an open file it closes that one, whoever has it open (the first half of `OneFile` without its condition shows two files with one channel).
* base.c:5069: two threads in ECHOCANCEL on one channel both make a canceller; the first is overwritten, and neither it nor its module's reference is given back.
* base.c:1882: `dahdi_chan_unreg` gives back `ec_factory` and leaves the pointer. A driver that registers the same structure again has a channel with a factory nobody counts.
* base.c:2776: a pseudo channel whose open fails half way is not freed. base.c:5530: SPECIFY refuses numbers above DAHDI_MAX_CHANNELS, and takes the number itself, for which `chans` has no entry.
* base.c:2425: `dahdi_hangup` empties the rings and wakes nobody; a writer asleep on the full ring sleeps over the empty one. FLUSH does wake.
* base.c:4531: FLUSH and hangup leave `txdisable` as it was, so a WHEN_FULL ring flushed while it is sent does not hold back the next frames.
* base.c:4517: a reset of the receive ring in the middle of a frame keeps the check sequence; the tail of the frame passes for a frame. base.c:2018: read() that races FLUSH gives back a buffer of the new ring.
* base.c:7280: the index of the previous buffer is found with a mask that is right for powers of two only.
* base.c:3386: "Switch to other master if current master in alarm" switches to the first healthy span also if the master is healthy.
* base.c:3874: a slave in another span or before its master is accepted and not served.
* base.c:3954: STARTUP returns 0 when the driver's `startup` failed.
* base.c:6580: "if asserting ring, stop it" tests for a state in which phones are not rung; an answered phone rings until the user stops it.
* base.c:6604: a phone that is put down during a debounce or battery drop which the user cuts short is not heard when it is lifted again (`gotgs` stays set). `OffHookHeard` without its last condition shows it.
* base.c:6319, "otherwise, its definitely off hook": after a debounce `itimer` is started for every signalling because the far end is *on* hook; for E&M and FXS the report is then wrong.
* base.c:3281: DIAL with REPLACE during a pulse's break drops the digits and reports DIALCOMPLETE.
* wctc4xxp/base.c:2298: a late answer to a command that has timed out is taken for that to the next command of the same function. A command's retries are not reset when its tcb is used again, so the next one may get none.
* wctc4xxp/base.c:3331: the watchdog's shutdown leaves whoever sleeps for a command asleep with `chansem` held, and stops the DMA with `msleep` in a timer.
* wctc4xxp/base.c:1031: with three or more descriptors a head that was read before the lock can be put back, after which the ring stalls. wctc4xxp/base.c:2318: `complete()` is called under a lock inside the tcb that the one it wakes may free.
* wctc4xxp/base.c:2014: the release of one half looks at the other half without `translock`: the pair may be destroyed under a new owner of that half. Two halves released at once each see the other busy and leave the pair built for nobody; a failed destroy leaves it built.
* dahdi_transcode.c:284: `open_channels` is decremented without having been incremented when `try_module_get` fails. dahdi_transcode.c:119: a transcoder unregistered while in use leaves its files with its memory.
* dahdi_dynamic.c:243-247: the tasklet uses a span after it may have been freed; dahdi_dynamic.c:564: two creations of the same address may both pass the check for duplicates, as a comment there says; dahdi_dynamic.c:368: a mask of `0xff` where the four signalling bits ask for `0xf`.

## What is not modelled, and what is only model-checked

Within modelled parts: frames sent by tones; frames of a framer shorter than its check sequence (a bound of `TxRing`); CONFMON, CONFANNMON, DIGITALMON, pre-echo monitors and DACS; muting and dialling members, clipping; more than one user thread per channel and direction;
the unlock-to-sleep window of WINK and FLASH (shorter than the shortest wink); timer lengths of 0; CAS, SF tones, tone dialling; concurrent unregistering, and unregistering during a CHANCONFIG (spans come and go under the big kernel lock or at module load);
pseudo channels, SPECIFY and `/dev/dahdi/channel`; unregistering a span while one of its channels is being opened or closed or gets an echo canceller, and more than once under an open file; a channel structure that is registered twice; the echo cancellers a span brings along;
booting the transcoder card and its polling timer; frames from the transcoder to files, mmap, O_NONBLOCK and several cards; concurrent ioctls on one transcoder file; the contents of dynamic spans' packets, their reference counts (`usecount`) and the drivers below them;
a dynamic span destroyed between its listing and the call of `checkmaster` in its creation (dahdi_dynamic.c:676-678; the ioctls that create and destroy run under the big kernel lock);
a canceller's factory that returns 0 and no state, after which `ioctl_echocancel` keeps the reference to its module (base.c:5057-5062; no factory in the tree does this).

In `Conferences` one search of `dahdi_check_conf` is a single look at the channels, whoever joins while it runs is taken to come after it; what `dahdi_chan_unreg` does for one watcher is that look, with the watcher's leaving, and the clearing.
SETCONF is one step also where it works on a pseudo channel that is being freed. Turning AUDIOMODE off, which leaves a conference as a close does (base.c:5190-5222), and the flag `__DAHDI_SIG_DACS`, with which a channel keeps `confna`, are left out.

Parts without a module: the rows of the inventory whose names are not bold. The event queue, timers and voicebus are planned above. Board drivers depend on hardware that is not in the repository; the echo cancellers and tone generators are numerical;
`oct612x` is the vendored interface of a chip; `xpp` needs the protocol of the device's firmware to say what is right; the tools are sequential programs.
`CONFIG_DAHDI_NET`, `CONFIG_DAHDI_PPP`, `CONFIG_DAHDI_WATCHDOG`, `CONFIG_DAHDI_CORE_TIMER`, EMFLASH, EMPULSE and FXSFLASH are off in the default build and left out; RINGBEGIN is on.
