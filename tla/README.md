# A TLA+ model of udcap-server

udcap-server is a Linux user-space driver for the UDCAP hand-tracking gloves. It opens the USB
receivers, parses their byte stream, keeps one "core" per receiver that calibrates a hand and
computes its skeleton, publishes both hands in a shared-memory segment, and serves a SteamVR driver
and a control app through that segment. This directory models the parts of it that can go wrong by
ordering, timing and failure, checks them with TLC on small instances, and proves the central ones
with TLAPS for every value of their constants.

Abbreviations for source lines below: **S** `src/server/udcap_server.cpp`, **V** `src/src/UdCapV1Core.cpp`,
**shm** `src/shm/udcap_shm.h`, **PA** `src/serial-reborn/src/PortAccessor.cpp`, **BH**
`src/serial-reborn/src/BoostHelper.hpp`, **diag** `src/test/diag.cpp`.

    tlc   -config X.cfg MCX.tla      model-check a run (the MC module of each run is in the table below)
    tlapm SegmentLifeProofs.tla      check the proofs of a module

## 1. Inventory

### Threads and locks

| thread | started by | does |
|---|---|---|
| main | process | startup calibration, then the server loop (S 780-964): haptics, commands, power tap, auto-calibration tick, 500 ms watchdog |
| rx event thread, one per port | `PortAccessor` | hands queued bytes to the callback that parses packets (PA 18-62, V 312-933) |
| tx thread, one per port | `PortAccessor` | writes queued commands (PA 64-104, 373-392) |
| continuous-read thread, one per port | `startContinuousRead` | reads under a 700 ms deadline, serves requested resets (PA 433-550) |
| event loop, one per core | `UdCapV1Core` | pops `packetQueue`, calls the server's listener (V 209-277, S 545-697) |
| USB event thread | `UsbEnumerate` | hotplug callbacks; reopens a dead port (PA 105-119) |
| drivers and app | other processes | read hand slots; write haptic requests and commands into the segment |

Locks are taken in the order {`PA.queueMutex`, `PA.ioMutex`} → `PA.callbackMutex` → `core.callbackMutex`;
`hotPlugMutex` → `PA.ioMutex`; `DeadlineSocket.ioMutex` innermost. The order has no cycle. A read
holds `DeadlineSocket.ioMutex` for up to its deadline, so a write waits for the read (this matters in
`Watchdog`). No lock covers: `caliStat`, the three references, `joystickCaliStat` and the stick's range
(main thread and rx thread), `isOpenFlag`/`isDead` (all threads of a port), `txQueue` in `writeData`
(PA 349-371), the haptic parameters of a slot.

### Components

| component | state | operations | talks to | properties that make it correct |
|---|---|---|---|---|
| hand slot (shm 157-257, 317-348; S 97-108; `steamvr/src/shm_reader.h`) | `seq`, payload, the listener's shadow | `publish`, `snapshot` | listener writes; drivers read | no torn or stale copy; an atomic register; readers get through |
| command channel (shm 281-286; S 781-836) | `cmd_seq/code/ack`, `last_cmd` | post, poll, execute, acknowledge | app ↔ main thread | each command once, in order, acknowledged after it is done |
| haptic mailbox (shm 185-196; S 799-820; V 979-1023) | `haptic_seq`, parameters, `last_haptic` | ask, poll, send | drivers → main → core → port | the last request is taken in full; bytes in range |
| core link (V 209-540; S 545-697) | `udState`, target, module version and firmware, `packetQueue`, shadow H, record R | link packets, data frames, firmware answers; listener callbacks | rx thread → queue → event loop | the listener's views follow the core; the module's generation is sticky within a link |
| hand calibration (V 560-794, 1097-1315) | `caliStat`, three references | run, capture, clear, complete; a frame | client thread ∥ rx thread | a completed calibration rests on one run's captures and does not move |
| stick calibration (V 780-860, 1265-1366; S 229-270) | `joystickCaliStat`, range | centre, range start, range stop; a frame | main ∥ rx thread | never normalised with a point; the circled range is the one used |
| server calibration (S 193-365, 734-778, 838-849) | `calib_state`, `g_autocal_*`, `g_power_tap` | seven commands, tap, tick, startup | app, taps, cores | own captures only; an auto-calibration ends and settles its hands |
| serial port (PA, BH) | descriptor, `io_context`, `isOpenFlag`, `isDead`, `resetRequested` | read, write, reset, hotplug reopen | read, tx, hotplug threads; watchdog | no descriptor left open behind a dead port; resets are served |
| packet framing (V 24-31, 76-163) | two matchers | one byte | read bytes → parser | exactly the frames of the stream |
| watchdog (S 851-961) | `wd_active`, ages, port | tick, nudge, reset | core, port, receiver | a watched hand comes back; a reset does not cut short another's search |
| preferences (V 1045-1079, 1448-1770) | files, controller numbers, offsets | load, save, setters | diag, offset tool; next process | offsets follow the glove; numbers come back under their name |
| receiver probe (`UdCapProbe.cpp`; V 229-261; S 511-541) | which wait it is in, once-raw and data callbacks, helper, start count | open, ask, wait twice, stop, hand on or drop | main ∥ read, tx, rx and hotplug threads of the port | found only with its answer; the port is handed on idle; it ends |
| pairing and channel (S 193-228, 545-560, 580-588, 875-893) | `pair_state`, `channel` | pair, unpair, set and ask channel; answers | main ∥ event loop ∥ receiver | SUCCESS is this search's; a stop is final; the channel is the receiver's |
| segment life cycle (S 110-136, 967-977; `shm_reader.h`) | magic, pid, the slots | create, map, clear at the end, die, restart | servers one after the other ∥ mapped readers | only reads that met two writers or the wipe may be torn; nobody is left spinning |
| USB enumeration (`UsbEnumerate.cpp`) | device list, listeners | hotplug events | libusb → ports | listeners are called for their own device |
| skeleton (AR1Linear*, quaternions) | weights | regression | rx thread | numeric |
| SteamVR driver (`steamvr/src`) | poses, inputs | per-frame update | slots, haptics | uses a snapshot only when valid |
| command-line tools (`udcap_offset`, `udcap_shmdump`, diag, test) | none | print, set a field | segment, core | — |

`PROJECT.json` lists under "hazards" forty places where this code is hard to test, each with the
properties that cover it or the reason none does yet.

## 2. What is modelled, and how it maps to the code

Every definition that models code is listed in `PROJECT.json` "map" with its lines. In general: an
action is one handler or one step of a handler between two points at which another thread can see or
change its state; the environment (gloves, device, file system, drivers, app) is a disjunct of its own,
marked external; histories (`run`, `own`, `stable`, `executed`, …) are variables the code does not have
and no guard reads, except for named bounds. A definition named `X_Y` marked "mutant" is a wrong version
of `X` that the specification does not use; each property is known to fail when its mutant is put in.

* **HandRegister**, **HandSlot** – the seqlock. `WriteBeginLoad`/`Store`, `CopyWord`, `WriteEndLoad`/`Store`
  are `udcap_write_begin`, the `memcpy` word by word, `udcap_write_end`; `seq + 1` is a load and a store.
  `ReadBegin`, `ReadWord`, `ReadDone`, `Accept`/`Retry` are the loop of `shm_reader.h`. HandSlot implements
  HandRegister, an atomic register, under `payload <- stable` (the payload of the last finished publish).
* **SegmentLife** – that slot over the lives of servers. The main thread clears the slot at the end
  (S 967-972) while the event loop may still publish; a server dies at any step and leaves `seq` as it is;
  the next one's `shm_setup` wipes word by word under readers that stay mapped and never look at magic
  again. `disturbed` and `spoiled` are histories: they name the reads that met two writers or the wipe.
  Every other read is still one of HandRegister, over all servers (`ImplementsLifeRegister`).
* **CommandQueue**, **CommandChannel** – the mailbox of the app, shown to implement a queue that holds one
  command at a time. `TakeOver` is S 784-786, `Poll`/`ReadCode`/`Execute`/`Acknowledge` S 822-836. The app
  does what shm 46-50 asks: it waits for the acknowledgement, and its first command waits for the loop.
* **HapticMailbox** – the requests of the drivers, which wait for nothing; torn reads of two requests; and
  the conversion to the messages of both module generations with its clamps.
* **ServerLoop** – composes the two by INSTANCE: one main thread alternates between them; its fairness is
  that of the one thread, not one assumption per mailbox.
* **CoreLink** – `parsePacket`'s link states, module detection, firmware poll and answer, each with the
  events it queues, and `Deliver`, the listener's callback for one event. A send may throw, which ends the
  handler where it stood (`DataFrameThrows`). `missed` and `stray` are histories: news that the listener did not
  take, and module news that came between two links or as a late answer, which the core forgets without an event.
* **ReceiverRecord** – CoreLink's core with the record of its receiver. The main thread sends a command and
  writes `pair_state` or `channel` after it (`PairStart`/`PairStarted`, `PairStopLooks`/`PairStopped`,
  `SetChannel`/`ChannelSet`); the receiver answers in order, refuses, or loses; the event loop writes the same
  fields (`RecordDeliver`). `search` and `doubt` are histories that say what the code could have known.
* **HandCalibration** – the client's calls against the frame of the rx thread that has checked `caliStat`
  and is still reading references. References carry the run they were captured in.
* **StickCalibration** – the software capture of the original module, with the frame's check and store
  apart, so that the two threads' writes of the range interleave.
* **CoreCalibration** – the two on the threads that run them: the main thread makes one call at a time, and
  one frame checks `caliStat` at its head, emits the skeleton and goes on to the stick without a second check.
* **ServerCalibration** – the main thread's use of those calls: per core a status and the poses captured,
  per command one call on each core in any order, each of which may throw and be skipped.
* **PortAccessor** – three threads, two mutexes, an `io_context` that can be stopped, a descriptor that can
  be closed under an operation. A stopped context runs no handler and `waitForResult` (BH 74-98) then spins.
  `openPort` asks whether the port is open before it takes `ioMutex` (PA 142-143), so that check and the opening
  are steps of their own (`OpenPort`, `OpenLocks`), for hotplug and for the main thread.
* **ProbedPort** – the life of such a port: `probe()` opens it, starts its read thread, asks and waits twice
  without a predicate; the core opens and starts the same port and stops it at the end, or the server drops
  it. Adds the main thread, the rx thread with the probe's callbacks, and the queue between them. `overtaken` and
  `startedDead` are histories: an open that found the port opened by another while it waited for the lock has
  marked it dead; the core was started on a port that the probe's last read had left dead.
* **PacketRealign** – both matchers, byte by byte, beside `GloveFramesFrom`/`ModuleFramesFrom`, reference
  definitions that cut the whole stream with recursive functions. The code has one vector for both matchers'
  packets; `packets` and `a6Packets` keep each one's order and leave out that of the two.
* **Watchdog** – the 500 ms block of the main loop with ages that count ticks, the port as far as the watchdog meets it, and
  a receiver that is ready, live, stalled or deaf.
* **Preferences** – load, save (open truncates, write may fail), setters, over restarts in which gloves may
  change receivers.

### Which module composes which

    ServerLoop ─── INSTANCE HapticMailbox, CommandChannel ──implements── CommandQueue
    SegmentLife ── EXTENDS HandSlot ──implements── HandRegister; SegmentLife implements HandRegister itself
    ReceiverRecord ── EXTENDS CoreLink                       (CoreImplemented: RecordSpec => Spec)
    CoreCalibration ─ EXTENDS HandCalibration, INSTANCE StickCalibration
                                                             (HandImplemented, StickImplemented)
    ProbedPort ─── EXTENDS PortAccessor
    ServerCalibration abstracts each core's HandCalibration to [stat, captured]
    Watchdog abstracts PortAccessor to portOpen, silentFor, requested

The last two are abstractions by hand, not checked refinements; see the plan.

## 3. Runs

| run | cfg of module | what it asks | instance | distinct states |
|---|---|---|---|---|
| SegmentLife | MCSegmentLife | `UnspoiledSnapshot`, `LifeInv`, `ImplementsLifeRegister`, `ReadersFreed` | one reader, two words of two values, `seq` modulo 4 | 515,000 |
| ServerLoop | MCServerLoop | `ImplementsQueue`, `LastRequestTaken`, `MessageInRange`, `RequestsTaken` | one hand, three requests of four kinds, three commands of two codes, sequence numbers modulo 3 | 667,000 |
| ReceiverRecord | MCReceiverRecord | `LinkView`, `ModuleView`, `StickyModule`, `SuccessIsOfThisSearch`, `SearchIsReported`, `StopIsFinal`, `ChannelIsTheReceivers` | one hand, two queued events, two commands to answer, bytes of one bit | 2,400,000 |
| CoreCalibration | MCCoreCalibration | `CompletedFromOneRun`, `UndisturbedFrame`, `CoreInv`, `StickDividesByRange`, `StickCircledIsUsed`, `FrozenWhenCompleted` | two runs of hand calibration | 3,080,000 |
| ServerCalibration | MCServerCalibration | `CalibratedFromOwnCaptures`, `AutoSettles`, `AutoEnds` | one core, all seven commands | 364,000 |
| PacketRealign | MCPacketRealign | `PacketsAreFrames`, `ModulePacketsAreFrames` | all streams of four chunks out of twelve | 126,000 |
| Watchdog | MCWatchdog | `Recovers`, `LeftToAcquire` | one hand, the code's own times in ticks of 500 ms | 11,000 |
| Preferences | MCPreferences | `FollowsGlove` | two receivers, two gloves, three saves, offsets -46, 0, 45 | 308,000 |
| ProbedPort | MCProbedPort | `FoundHasAnswer`, `HandedOnClean`, `ServedIsInService`, `ProbeEnds`, `ServedResetEnds` | two items in the receive queue | 166,000 |
| SegmentStop | MCSegmentLife | violated: `OddMeansWriting` | as SegmentLife | |
| PreferencesStick | MCPreferences | violated: `ControllerRestored` | as Preferences | |
| PortAccessorReset | MCPortAccessor | violated: `ResetIsServed` | no constants | |

A run that does not list its module's type invariant has it inside an invariant it checks (`LifeInv` and
`CoreInv`) or proved (`RecordTypes`). HandSlot, CoreLink, HandCalibration, StickCalibration,
CommandChannel, HapticMailbox and PortAccessor have no run of their own: each is run inside the module that
composes it, where it meets everything it met alone. ReceiverRecord, CoreCalibration and ServerLoop are the
longest, one to two minutes.

Deadlock checking is off in two runs. PacketRealign's stream ends after `MaxChunks` chunks. In ProbedPort a
server stops, or an exception ends it, and nothing happens after that.

### Bounds, and why they are enough

* SegmentLife: two words are the least that can be torn, two values the least that tell them apart, and the
  two shadows published differ in both. One of the two words is cleared at the end, so that a clearing and a
  publish mix. `seq` modulo 4 wraps after two publishes. A reader that sleeps through a whole turn of `seq` (2^31
  publishes) would accept a torn copy; `NoReaderLapped` keeps the writers from it, in the run and in the
  proofs. The proofs hold for any number of readers, which do not meet each other; so one is enough here.
* ServerLoop: three posts or requests with sequence numbers modulo 3 take them once round. `NotLapped` keeps
  a driver from a whole turn of `haptic_seq` while the server looks away (2^32 requests).
  Two pulses and two forces make a mixture of two requests distinct from either, and lie outside the ranges.
* ReceiverRecord: `MaxQueue` 2 lets a link event wait behind or before any other and makes the handlers that
  queue two wait; `MaxAsked` 2 has a command answered while the next is on its way. One hand, because the
  views do not depend on which it is. A byte has two values and a word three, the third being "unknown", so a
  channel can be sent as another than is recorded. `Uses` splits the behaviours in those of pairing and those
  of the channel, whose fields do not meet; the theorems have all commands together, with any bounds.
* CoreCalibration: two runs give a finished and a restarted calibration, with captures of both. A reference
  alternates its sign, so two captures in one run differ. The theorems have any number of runs.
* ServerCalibration: the theorems have any cores. In the run, cores meet only in what the main thread keeps, and
  no call's result changes that, so one core is enough. Two cores pass as well, with `AppUses` limited to AUTO
  (615,485 states) or to AUTO and CANCEL (1,552,374 states).
* PacketRealign: the chunks are a good glove frame with header bytes as data, one with the module's header
  as data, one with a bad checksum, one of length zero, a cut one, a good and a damaged module frame, an
  oversized one, and the single bytes 170, 85, 166, 0. `WordMod` 65536 stands for 2^32: `remainedLength`
  starts from one byte and must only be able to wrap.
* Watchdog: ages are capped where nothing reads them any more. 5, 3, 12, 16 ticks are 2.5 s, 1.5 s, 6 s, 8 s
  of S 903-961; the 700 ms deadline is two ticks; a reset is served before four ticks and a receiver
  finds its glove within three: these two are assumptions about the device, chosen below the throttle.
* Preferences: three saves are enough for a save before a load, a half-written one, and one by another
  core. Files come from `savePref` alone. Gloves change receivers only between processes.
* ProbedPort: `MaxRx` 2 holds the raw data and the packet of one read, the most that one read hands on; the
  read thread waits where the code would queue more. With 3 the same properties hold. A condition wakes only when
  it is notified; see section 5.

### Fairness

* SegmentLife: each thread of a live server, the setup of a new one and each reader that has begun are weakly
  fair; the operating system schedules them and they wait for no lock there. Nobody has to publish, stop, die or
  start. `ReadersFreed` therefore says what it assumes: a server that comes up, stays and is quiet.
* ServerLoop (CommandChannel, HapticMailbox): weak fairness of the main thread alone; none of drivers or app.
* ServerCalibration: the main thread is weakly fair; `TickDue` is strongly fair because the clock passes the
  tick's time in the end, however often the loop finds it early.
* ProbedPort: the main, read and hotplug threads are strongly fair, since each waits for a mutex others hold
  now and again; a write under way and the rx thread are weakly fair; the two waits run out. Nothing is assumed of
  the device, of hotplug events or of the watchdog. `ProbeEnds` leaves out a port one of whose threads spins on a
  stopped `io_context` (`Spinning`): the join then never returns. PortAccessorReset has the same strong fairness.
* Watchdog: main loop and read deadline weakly fair. Strong fairness of `ServeReset`, `Link(TRUE)` and
  `Trickle(TRUE)` says: if resets are requested again and again, one succeeds in the end; a receiver
  that is ready again and again while its glove is on links in the end; nudges that are written again and
  again start a stalled stream. The first is not unconditional in the code: PortAccessorReset shows a
  read thread that spins and never serves a reset. So `Recovers` holds of a port that is not in that state.

## 4. Proofs

Every invariant, action property and refinement that a passing run checks is also a theorem of its specification,
for every value of the constants that the named assumptions allow. A proof module EXTENDS the module it is
about; eight of them hold all theorems, so some hold those of two components.

`SegmentLifeProofs`, first the slot by itself (from `Zero \in Vals` and an even `SeqMod`): for any readers, words,
values and modulus,

* `Invariance`: `IInv` is inductive. Snapshot alone is not: that a copy equals the published payload needs
  to know that each word copied so far does (`ReaderInv`, for a reader that `seq` has not moved under), that
  `seq` is odd exactly while words move, and that the slot equals the published payload outside that
  (`WriterInv`), and that `laps`, the history of moves of `seq`, is the distance on the circle from `start`.
  The last, with `NoReaderLapped`, turns "the same `seq`" into "no publish in between".
* `SnapshotConsistent`, `WritesBracketed`: consequences. `RegisterImplemented`: every step maps to
  a step of HandRegister or a stutter; finishing a publish is `Publish`, accepting a copy is `Read`.

Then over the lives of servers (also from `Cleared \subseteq Words`): `LifeInvariance`. `LifeInv` splits by who is in the
slot: while nothing disturbs it, one writer, event loop or main thread, keeps the protocol (`Orderly`), and a
server that died left it there; while the wipe runs, what it has reached is zero (`Making`); and a reader that
is not spoiled has met neither (`Unspoiled`). `UnspoiledConsistent` follows, and `LifeRegisterImplemented`: the
closes of both writers and the end of setup are `Publish`, everything else reads or stutters.

`ServerLoopProofs`, first the mailboxes (from the constants' shapes and a modulus above 1): `Invariance`. For the
haptic requests `LastRequestTaken` needs to know what a torn read has read so far: a driver's slot holds what the
driver asks for in the parts it has written (`Written`), and while no bump is outstanding, what the main thread
has read is of the request last bumped (`Halfway`); a driver that bumps under the read leaves a bump outstanding. `Types`,
`LastTaken` and `MessagesInRange` follow; the last rests on the conversion's clamps (`MessagesFit`) and no bound of the
requests. For the commands, `CommandInv` says for each place of the main thread how far `executed` and `cmd_ack` are
behind `posted` and `cmd_seq`; with it `QueueImplemented`: the loop takes only steps of CommandQueue.

Then the watchdog (from the times' shapes and `ServeTicks + AcquireTicks <= ThrottleTicks`, which is what S 949
means): `WatchdogTypes`, and `GivenTime`, the action property `LeftToAcquire`. The watchdog does not know when its request is
served. `ThrottleInvariance` has what relates the two: a request that waits is as old as `resetAgo` says
(`RequestIsLast`), and while a receiver that was reset looks for its glove, `resetAgo` and what is left of the search
together stay below the throttle (`StillCovered`).

`ReceiverRecordProofs`, first CoreLink (from `NoHand \notin Hands`, `MaxQueue \in Nat`): `ViewsFollowCore`, i.e. LinkView
and ModuleView, which is VersionView and JoyFwView for what the core has found of the module and ForgottenView for
what it has forgotten. Each says that if the queue holds news of its kind the last of it agrees with the core, and
otherwise the listener's copy does. They are inductive together with TypeOK and `Strays`: what the core knows of a
module between two links, or of a firmware without having seen a 2.0 module, is stray news. So a core that forgets
anything else does it with the event of the lost link. The argument is in the lemmas about the queue: pushing other
news changes nothing (`PushOther`), pushing news makes it the last (`PushNews`), popping moves it to the listener (`Pop`).

Then the record (also from the sizes of byte and word and `MaxAsked \in Nat`): `CoreImplemented`, every step is
a step of CoreLink or leaves it alone, so `RecordViews`, `ModuleFollows` and `ModuleSticks` carry over; `RecordTypes`; and
`SuccessOfThisSearch`, `SearchReported`, `StoppedIsFinal`, `ChannelOfReceiver`. Their strengthenings follow one
piece of news on its way: the LINKED event that a found search has in the queue until it is in the record, the
answer to PAIR_START between receiver, queue and record, the last answer about the channel.

`CoreCalibrationProofs`, first the hand's calibration (from `MaxRuns \in Nat`): `Invariance`, and from it `FromOneRun`,
`FrameUndisturbed`, `Frozen`. The strengthening `Whole` adds that a reference not waiting to be zeroed is zero or of the
last run, and that a frame from the current run cannot be there while captures are being taken.

Then the core: `HandImplemented` and `StickImplemented` (each step of the composition is one of either
component or a stutter), and with them `CoreInvariance`, `HandPromises`, `CoreFrozen`, `StickDivides`, `StickCircled`. The
stick's strengthening, `StickInv`, ties the main thread's place in a capture to what the range holds, and says what
a frame that has checked but not stored may still do to it.

`ServerCalibrationProofs` (from `AppUses \subseteq AppCodes`): `Invariance`, `Types`, `OwnCaptures`, `EndSettles`. `Own` ties what a
core has captured to its last start. `OnCourse` follows an auto-calibration: after tick n a hand that stayed linked and was
left alone has the poses of ticks 1 to n, also when its START was refused because a run of before was still on; so COMPLETE
is accepted at the end. `Jobs` says who can be calling when; without it an app's command could be taken for a tick.

`ProbedPortProofs`: `FoundAnswered` and `HandsOnClean`. What ends the first wait either uses up the callback for raw
data or is the answer, so what ends the second is the answer (`Answered`). The read thread queues raw data
before the packet it holds, so the answer never reaches the main thread with that callback still
registered (`RawFirst`, `RawGone`); and the place of the probe tells what of the port is started (`ProbeStage`).
`ServedInService`: a descriptor that is open behind flags that say otherwise is about to be closed or put in service, and
`Behind` names the thread that will; and a mark of death on an open port is about to be taken off, or is one of
those that `startedDead` and `overtaken` name. That is inductive only with `Holders`: whoever opens the descriptor or
is about to count it as open holds `ioMutex`, and a reset has closed what it opens. Hotplug and the main thread ask
whether the port is open before they have the lock, so a reset or the other of them can overtake them there; the send
thread, which holds no such lock, is among those `Behind` names. `ProbedTypes` also needs how often the port has been started
where it is stopped (`Counts`).

`PreferencesProofs` (from `Nobody \notin Gloves`, angles that are integers with 0 among them): `OffsetsFollow`. Neither a file
nor a save knows whose offsets it holds. A core has learnt the serial number of its own glove or none (`OwnSerial`), so a save
under way has cut off that glove's file or the nameless one (`SaveUnderway`), and what stands under the name of a glove
was set for it (`FilesOwn`), which restarts do not change. `Types`; and `LoadedController`, what the thirteen assignments of
`loadPref` come to for any numbers: two members of the controller from the trackpad's range, no other restored.

`PacketRealignProofs` (from `WordMod > 255`, `MaxChunks \in Nat`, chunks of bytes): `GloveFraming` and `ModuleFraming`. For every
stream, every cut into chunks and any word size, each matcher has handed up exactly the frames that its
reference finds in the stream. A matcher is a machine over prefixes, the reference a recursion from the end of the whole
stream; the invariant that relates them speaks of every stream that begins with the bytes so far (`Extensions`): its
frames are those handed up, then those from where the frame that is held began (`Answered`, `A6Answered`). At a byte that
ends or spoils a frame the reference is unfolded once at that place (`GlovePass`, `GloveWhole`, `ModulePass`, `ModuleWhole`); at any other
nothing moves. `Begun`, `A6Begun` and `AsFar` say that what is held is what stands there and how far in its frame it is. `Types`
has from this that the module's buffer stays below 518 bytes on any stream. That the recursive functions have a solution
(`GloveUnfold`, `ModuleUnfold`) is shown by induction downward from the end of the stream; the library's induction
theorems take an operator that no prover here instantiates, so it is done with sets: a set of naturals has a least
element (`DownToOne`, `BackwardInduction`, `BackwardRecursion`).

Only model-checked: what needs fairness (`ReadersFreed`, `RequestsTaken`, the liveness part of `ImplementsQueue`, `AutoEnds`,
`ProbeEnds`, `ServedResetEnds`, `Recovers`), since the proof system has neither liveness under fairness nor ENABLED; and
that nothing deadlocks. The three violations are counterexamples and stay with TLC. No module declares a RECURSIVE operator.

## 5. What the work showed about the code

With a counterexample (runs that end in a violation):

* `PreferencesStick`: `loadPref` stores all controller numbers in `xCenterData` and `yCenterData` (V 1558-1570),
  so after a load the stick's centre is the trackpad's thresholds.
* `SegmentStop`: at shutdown the main thread clears each slot with the seqlock helpers (S 967-972) before it stops the
  event loops (S 974-976), so two writers load and store `seq` over each other: a slot is left odd with
  nobody writing (shm 7, 159), or even over a mixture. `UnspoiledSnapshot` leaves such reads out.
* `PortAccessorReset`: a failure on one thread stops the `io_context` (PA 386, 500); the other thread's
  `waitForResult` (BH 74-98) then spins in `run_one`, and a requested reset is never taken up.

Read in the code and left without a run, because no document of the repository contradicts them, or
because what they concern is not modelled:

* A command posted before the loop begins is acknowledged and not executed (S 784-786).
* A firmware answer that arrives after its link is gone is kept beside whatever module comes next (V 296-310).
* A data frame between two links, or a late firmware answer, is told to the listener as usual; the core forgets it on
  the next link-state 0 and, being unconnected already, sends no event (V 355-363), or on finding another module
  (V 522). The listener, which clears the module with the event of a lost link alone (S 575-579), goes on publishing
  it. `ForgottenView` names these cases by `stray` and excludes every other.
* `remainedLength` of a frame of length zero wraps to 2^32 - 1 and the parser swallows what follows (V 128, 144); and in
  170-170-85 the second 170 is not taken for a header (V 110-120). `GloveLast` and `GloveFramesFrom`, the reference that
  `PacketsAreFrames` compares with, have both as the code does: the property describes them and does not exclude them.
* `hasLast` is never set: `tryRestore` (V 1317-1338) can never succeed, although diag 314-327 offers it.
* The stick's range is only widened in frames of a calibrated hand (V 560, 794), which the server's range
  command (S 241-257) does not ask for: STOP then falls back to the defaults.
* A frame that widens the stick's range while the main thread writes it stores over that write (V 794-806 against
  V 1302-1314, 1340-1366): the properties of StickCalibration are stated for captures without that race (`raced`).
* A calibrated hand is also the condition under which buttons are decoded (V 560, 869-883), so the power tap of a hand under
  auto-calibration cannot cancel it (S 838-848).
* `calib_state` DONE is set whether or not a core accepted (S 286-301).
* The target of a core is the first glove's for the life of the process (V 327; contrast shm 267).
* A frame that overlaps `runCalibration` can publish a skeleton from half-zeroed references as calibrated
  (V 1107-1113, 560, 677; S 659; shm 162). `UndisturbedFrame` says when it cannot.
* The tx thread can close a socket that a reset has just opened (PA 385), although PortAccessor.h:94 calls the read
  thread its sole owner; `ServedIsInService` is what survives.
* Hotplug that has passed `isOpen()` (PA 106, 142) waits for the lock while a reset reopens the port; its own open then
  throws on the open socket (157) and the catch marks the port dead (115): open, in service, and dead for every
  thread. Nothing takes the mark off but another ADD event or a reset. `ServedIsInService` names the case by
  `overtaken`, and `ServedResetEnds` has that a reset which is asked for and served ends it.
* The core's own open, overtaken by hotplug in the same way, throws in its constructor and ends the server (V 241).
* The SteamVR driver reads its slots without asking whether the server is live (`glove_device.cpp:235`), so a frame
  hangs in `udcap_read_begin` on an odd `seq` left by a server that died, until the next server's memset;
  `server_pid` stays set after a crash, and a reader never looks at magic and version again.
* After the clearing at the end the event loop may publish once more, with `present` set again.
* PAIR_START writes SEARCHING after the send: a glove that links between the two has its SUCCESS overwritten. PAIR_STOP
  before the answer to PAIR_START has been delivered leaves SEARCHING for ever, since the answer writes it (S 547-550) and
  the one to PAIR_STOP, with pairing false, writes nothing. The event loop may lag a second, as its check
  of the queue and its wait are not one step. A LINKED event of an earlier link reports SUCCESS for a new search
  (S 586-587 say "a glove just bound"). The histories `search` and `doubt` name these cases.
* SET_CHANNEL records `cmd_arg2` as it is and sends one byte of it (S 216-219); refused and answered before the record is
  written, or lost, it leaves a channel that the receiver does not have, and nothing asks again.
* The probe's waits have no predicate. A notification that comes between the write and the wait, or two
  before the second wait, are lost: the receiver answered and counts as none (diag 186 prints that there was
  no 'UD' reply). A spurious wakeup, which the model leaves out, could take a silent device for a receiver.
* The probe's last read may end in the join, past its deadline, and leave `isDead` set: the core opens and starts the
  port, but its read thread idles until a hotplug event or a reset (`startedDead`).
* Exceptions in the probe's own catch, in the core's constructor and destructor end the server: main has no try.
* `continuousReadStartCount` can fall to -1 (PA `stopContinuousRead` in the probe's catch, before any start).
* The send thread holds `queueMutex` for as long as a write lasts, so the read and rx threads wait for it.
* `clearJoystickData` in the range capture leaves a point as the range with status OK; the server never calls it then.
* `setHandOffset` checks x angles only; `savePref` truncates before it writes, ignores the write's failure and
  returns true; cores that do not know their serial share the file ".json" (`FollowsGlove` leaves out
  what is loaded from it).
* An open port that is silent for 700 ms is given up as dead, well before the first nudge at 2.5 s; the soft nudge
  thus helps only a receiver that still sends something.

## 6. Not modelled, and why

* Skeleton, AR1 weights, vector and quaternion arithmetic, bone poses: real numbers.
* OpenVR calls, console output, formatting of tools: no state of this system.
* The data race of `writeData` on `txQueue` (PA 349-371): undefined, with no set of outcomes to choose from.
* Memory orders weaker than the fences of shm 317-348 give: the model interleaves.
* What a port's detached rx and tx threads do after the port is destroyed: they use an object that is gone.
* HID devices; two receivers of the same hand (the last one bound wins); servers of another version, two at once.
* Packets that only carry a value to the shadow (battery, firmware, serial numbers, angles): no control depends on them.
* Restoring a saved calibration: `tryRestore` never applies one in this code (section 5).
* Listing and identifying devices (`UsbEnumerate.cpp`): platform I/O; only what an ADD event does to a port is there.
* What section 7 lists.

## 7. Plan

Done: the modules of section 2, with their runs, and the theorems of section 4, among them every safety
property of a passing run.

Left, in this order:

1. Theorems about the abstractions by hand: ServerCalibration's core as a refinement of HandCalibration, and the port
   of Watchdog as one that PortAccessor's behaviours allow, which would make precise when `ServeReset` is fair.
2. **UsbHotplug** – the event queue of `UsbEnumerate` and its listeners, for several ports.
3. Two servers at once, and two receivers of one hand, in SegmentLife and Watchdog.
