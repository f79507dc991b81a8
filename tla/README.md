# SliverOS: models and proofs

SliverOS is firmware for an ESP32-S3 (`os/`) - a cooperative executive with a
scheduler, an event bus, memory services, a fault log, a small flash file
system and four applications - and a browser page (`flasher/`) that flashes the
device and talks to it over USB with the SLVR/1 protocol. This directory holds
TLA+ modules translated from that code, TLC configurations that check them on
small instances, and TLAPS proofs of the central facts for every value of the
constants. Paths below are relative to the repository.

`PROJECT.json` relates every definition to the lines it was translated from
(`map`), lists the components, the runs, the hazards of the code and the
properties aimed at each, the theorems, and for every property one faulty
variant of a definition (`Bad...` in the modules) under which it fails.

## Components

| Component | Code | State it keeps | Operations | Module |
|---|---|---|---|---|
| Scheduler | `os/kernel/scheduler.c` | TCB table, tick, round-robin cursor | register, select, iterate, tick, set state | `Scheduler` |
| Event bus | `os/kernel/event_bus.c` | ring, head, tail, count, statistics | post, pop, peek, statistics | `EventBus` |
| Fault manager | `os/kernel/fault_manager.c` | ring of records, write index, total | record, latest, at(offset) | `FaultLog` |
| Arena allocator | `os/kernel/memory_manager.c` | block headers in the arena, statistics | `my_malloc`, `my_free` | `Arena` |
| Block pools | `os/kernel/memory_pool.c` | nodes, free lists, statistics | `mk_pool_alloc`, `mk_pool_free` | `Pool` |
| File system | `os/vfs/vfs.c`, `vfs_block.c`, `vfs_log.c` | superblock in RAM and on flash, data sectors, open files | mount, open, read, write, close, delete, log | `Vfs` |
| SLVR/1 framing | `os/protocol/host_protocol.c`, `flasher/src/protocol/host_protocol.js` | firmware parser state; browser receive buffer | encode, feed | `Framing`, `Link` |
| Kernel lifecycle | `os/kernel/kernel.c`, `state_machine.c`, `os/main/main.c` | kernel state, application states | boot sequence, transitions, run | `Executive` |
| Host service | `os/protocol/protocol_service.c` | connected flag, sequence, telemetry ticks | command handlers, telemetry | `Session` |
| SLVR/1 client | `flasher/src/protocol/sliver_client.js` | connection, pending handshake, caches | connect, disconnect, commands, read loop | `Session` |
| Firmware installer | `flasher/src/serial/*`, `flashing/*`, `device/*`, the install button of `main.js` | port and receive buffer, step of the installation, detected chip | open, reset, sync, detect, write, verify | `Flasher` |
| Wi-Fi monitor | `os/hal/hal_wifi.c`, `os/apps/wifi_diagnostics` | receive ring, counters, channel | receive callback, start, stop, drain | `WifiRing` |
| Macro player | `os/apps/ble_hid`, advertising of `hal_ble.c` | task state, parser with its buffers, open file | start, stop, one report a slice | `MacroPlayer` |
| Network scan | `os/apps/network_diagnostics` | state, target, results | set target, start, stop, one probe a slice | `NetScan` |
| Micro-Lander | `os/apps/retro_games` | position, speed, fuel, status | start, stop, one frame a slice | `Lander` |
| Page, simulator, build | `flasher/src/ui`, `main.js`, `simulator.js`, `scripts/` | DOM, test double | - | buttons in `Session` and `Flasher` |

How they interact: `app_main` initialises the parts, registers the tasks and
enters `mk_kernel_run`, which iterates the scheduler for ever. Tasks are
functions called from that loop, so between the return of one call and the
next nothing else of the firmware runs, except driver callbacks (Wi-Fi
promiscuous receive, BLE events, the event bus's producers) that interrupt or
run on another core. Every kernel part records faults in the one fault log.
The macro player and the Wi-Fi diagnostics use the file system, the host
service reads all of them and changes application states on command. The two
ends of SLVR/1 share only the byte stream between them.

Where it is hard, and the properties that answer it:

* *Scheduler.* Selection, wake-up and rescheduling are three functions that
  must agree about ticks (`OnTime`, `NoInversion`, `ReleasesServed`); an entry
  may change task states while it runs (`BlockHolds`); one cursor serves all
  priorities (`RoundRobinFair`); ticks wrap (`StarvationFree`).
* *Event bus.* Callbacks and the kernel task share an unprotected counter; the
  ring is full or empty with the same head and tail (`FifoSpec`, `StatsAddUp`,
  `CountMatchesRing`).
* *Memory.* Headers of merged blocks stay behind in memory that is handed out
  again, and second frees look at them (`AcceptsOnlyHeld`); coalescing in any
  order (`Tiled`, `GapsServed`); splitting at the smallest rest (`Exclusive`);
  a class at its limit and second frees (`FreeListsExact`,
  `AccountsExact`).
* *File system.* Power failures between flash commands (`MountRestores`,
  `MountedIntact`), reuse of inodes and sectors (`DirectorySound`,
  `ContentsKept`), every path of a call must write the directory (`Synced`);
  power failures and failed writes between the erase and the programming of a
  sector must not touch other files (`LossConfined`, `ContentsKept`).
* *Link.* Frames cut short by a full USB buffer, log output between frames,
  chunks that end anywhere (`InOrder`, `HostLosesNothing`,
  `HostBufferBounded`, `DeviceResyncs`).
* *Executive.* Boot steps, host commands and two transition matrices that must
  fit one another (`BootFaultless`, `AppsServe`, `LaunchedIsActive`).
* *Client.* Time-outs, disconnects, a pulled cable and restarts of the device
  racing the answers a call waits for, across awaits (`ConnectEnds`,
  `ConnectedMeansOpen`, `UnplugDisconnects`, `ViewAgrees`).
* *Installer.* Answers that come late, twice or never, and are not compared
  with their commands; installations interrupted half way and repeated
  (`AnswersMatch`, `DoneMeansWritten`, `TargetOnly`, `FlasherEnds`,
  `SupportedAccepted`).
* *Applications.* A callback in the middle of a pop (`RingFaithful`); a parser
  whose buffers are as long as its words and whose reads may fail
  (`TypesMacro`, `PlaysOut`); scans restarted half way (`ReportFresh`); 16-bit
  integers at their ends (`FlightSound`).

## The modules

**`Scheduler`** (`MCScheduler`, `SchedulerProofs`). `task`, `tick` and `cursor`
are the fields of `mk_kernel_t` and `s_rr_cursor`. One call of
`mk_scheduler_run_iteration` is `Dispatch`, then any `SetState` made by the
entry it calls, then `Finish`; or `Idle` when nothing can run, which is the
only place where the code advances the tick. `TickMod` stands for 2^32.
`wrapped` remembers that a release time was computed past the wrap: from then
on the code itself may wake a task early, and `OnTime` says no more.

**`EventBus`** implements **`BoundedFifo`** (`MCEventBus`, `EventBusProofs`).
Post and pop of the kernel task are split at the load and the store of
`s_count`, the only variable both contexts modify; a callback's post runs
whole. `Preempt` says whether callbacks strike inside those calls.

**`FaultLog`** implements **`RecentFaults`**. **`Arena`** and **`Pool`** extend
`FaultLog`; **`Memory`** (`MCMemory`, `MemoryProofs`) puts them together. `Arena` keeps what
would be read as a header at *every* address, stale headers included, because
`my_free` trusts whatever it finds in front of the pointer. Callers may free
any aligned address at any time and overwrite all they were given. `Pool`
callers free what they were given, once or twice.

**`Vfs`** (`MCVfs`, `VfsProofs`). A call changes RAM at once and leaves its flash commands
in `todo`; `Execute` performs the next one, and `PowerFails` may strike before
any of them (with `Torn`, also in the middle of a program). `written` and
`synced` are history: what callers wrote, and the directory when the latest
call returned. The one flash command whose result `vfs_write` looks at may fail
(`WriteFails`). `forfeit` is history, too: the inodes that callers misused (a
second writer, a truncation while open) or that a write failed on; the code does
all it does to them, and the properties expect nothing of their data, but
everything of the others'.

**`Framing`** holds the frame format and both parsers, **`Link`** (`MCLink`, `LinkProofs`)
one direction of the stream with its damage; which parser is at the end is
chosen initially. The firmware's parser state is the part of a frame it has
seen; `feed()` of the browser is one function over its buffer. Octets stand for
whole fields where neither parser looks inside.

**`Executive`** is the boot sequence of `app_main` (`stage` is the step that
comes next), the two matrices and the commands that move applications.
**`Session`** (`MCSession`, `SessionProofs`) extends it with the protocol
service at one end of the cable and `SliverClient` at the other. Each call of
`requestDeviceAndConnect` or `disconnect` is a process whose `pc` is the await it
waits at; what the code does between two awaits is one action. `client` records
the flags and which of `reader`, `writer` and `port` are not null. Frames are
whole (`Link` is about their bytes); only those are kept that change what either
end does next or which application the page shows. The Web Serial port is
modelled from how the client uses it: `open` fails unless the port is closed,
`close` fails while a stream is held, on a lost port everything fails at once,
and after `reader.cancel()` the read loop may or may not find a readable stream
again. When it does, it takes a new reader; `disconnect` then drops its
reference to that reader, the stream stays locked and the port stays open, so
that the next connect fails. The properties hold with both outcomes.

**`WifiRing`**, **`MacroPlayer`**, **`NetScan`** and **`Lander`** are the
applications, **`Apps`** (`MCApps`, `AppsProofs`) their composition: they share nothing but
the file system and are never inside a call at the same time, so a behaviour of
`Apps` follows one of them, the `subject`. In `WifiRing` a pop of the task is
`Pop`, which loads `s_count`, and `Popped`, which stores it; `Receive` is the
callback, which on the device may come between the two. `hit` remembers that it
did: the increment is then lost, frames may be read out of order or twice, and
`RingFaithful` promises only that no more are reported than were captured. In
`MacroPlayer` a macro is a sequence of lines of cells (`IsLine` says of what
form); each branch of
`macro_parser_next_event` is a function from the unread cells to an event and
what is left, `Reference` says independently what the lines of a macro mean, and
`TypesMacro` compares it with the reports sent. `ReadFails` cuts what is unread
at a multiple of the buffer's size, where a refill would fail. `Lander` keeps
height, speed and fuel in the widths of their fields.

**`Flasher`** (`MCFlasher`, `FlasherProofs`) is an installation from the click to its end: `step`
is the command (or reset, or download) it is at, `sent` whether it waits for the
answer. `Taken` and `Thrown` are what an answer and an exception come to at each
step: this is where `esp_loader.js` catches some exceptions and lets others end
the installation. `rx` is the receive buffer as `readUntil` is going to cut it.
The device's side is external, the ROM loader: it takes commands in order,
answers with success or a refusal, and is as slow as it likes. Four histories
serve the properties: `mishaps` (commands lost, and MD5 answers not awaited),
`trouble` (anything that went wrong outside the page), `leftover` (answers or
commands of the installation before survived the reset, because the buffer is
drained before it) and `clicks`.

Definitions named `Bad...` stand before the definition they are a faulty
variant of. No specification uses them; they record which mistake each property
would catch.

## The runs

| Run | Checks | Bounds | Result |
|---|---|---|---|
| `scheduler` | `TypeOK OnTime NoInversion ReleasesServed BlockHolds StarvationFree RoundRobinFair` | 3 slots, periods 0, 1, 2, two priorities (one clamped), tick modulo 5 | holds |
| `event_bus` | `StatsAddUp FifoSpec` | 3 slots, 2 events, counters modulo 5, no preemption of calls | holds |
| `event_bus_isr` | `CountMatchesRing` | the same with preemption | violated |
| `memory` | `Tiled AcceptsOnlyHeld Exclusive GapsServed FreeListsExact AccountsExact LogSpec` | arena of 10 units with headers of 2, requests 1, 2, 4; pools of 2 and 1 blocks; log of 2 | holds |
| `vfs` | `DirectorySound Synced ContentsKept MountRestores LossConfined` | 3 names, 2 inodes, 2 descriptors, sectors of 2 writes, 1 forfeit at a time | holds |
| `vfs_torn_superblock` | `MountedIntact` | the same with torn programming | violated |
| `link` | `InOrder HostLosesNothing HostBufferBounded DeviceResyncs` | 4 frames, 2 damages, payloads of 0 and 2 octets, chunks of 1, 5, 13 | holds |
| `session` | `BootFaultless AppsServe LaunchedIsActive ConnectedMeansOpen ConnectEnds ViewAgrees` | 2 applications, 2 calls at a time, 2 frames in each buffer, 4 acts of user, cable and power | holds |
| `session_unplug` | `UnplugDisconnects` | the same | violated |
| `apps` | `RingFaithful TypesMacro ReportFresh PlaysOut FlightSound` | ring of 2, 2 frames a slice, 7 frames; every macro of up to 3 of 7 lines, with and without a last newline, buffers of 3 cells; 2 targets; fuel modulo 8, heights modulo 64 | holds |
| `flasher` | `TargetOnly DoneMeansWritten AnswersMatch FlasherEnds` | 6 devices, 2 images of 1 block, 2 attempts to sync, 2 installations, 2 mishaps | holds |
| `flasher_slip` | `SupportedAccepted` | one device with framed answers, 3 images, 10 attempts, no mishap | violated |

Why the bounds are enough. Three tasks are the fewest with two contending at
one priority and one at another, and a tick of five values wraps while tasks of
period 1 and 2 sleep. Three slots let the ring wrap with something left in it.
Ten units hold up to three blocks, so that every kind of coalescing, both
kinds of split, exhaustion and every overlap of a stale header with a new block
happen. As many inodes as default files make creation fail until something is
deleted and make inodes be reused. Four frames leave two undamaged ones after
two damages, or three after one: one more than the firmware's parser needs to
get back in step. Two calls let a disconnect or a second connect overtake
a connect; four acts are enough for connect, launch, restart or unplug, and
connect again (five were run once, with the same result). Seven frames fill a ring of
two and wrap it twice; three lines hold any command between two others. Two
images make the answers to one available to the other, and two mishaps are the
number at which a refused block does go unnoticed: without `mishaps < 2`, and
without `~leftover`, TLC finds `DoneMeansWritten` violated, and without
`~leftover` `AnswersMatch`. The streams of `link`
end when all frames are sent, and a session comes to rest when the acts are
used up, which is why these runs do not look for deadlock; no other disables
it.

The runs expected to fail show where the code departs from its documents:

* `event_bus_isr`: `event_bus.h:30` calls post safe from interrupts;
  `s_count++` and `s_count--` are unprotected, and after one lost update the
  count disagrees with the ring for good.
* `vfs_torn_superblock`: `docs/VFS.md:51` says a failed CRC leads to a reformat;
  `vfs_init` compares only the magic.
* `session_unplug`: `docs/HARDWARE_VALIDATION.md:47` says that unplugging
  returns the page cleanly to DISCONNECTED; when it happens while
  `requestDeviceAndConnect` waits for the handshake, the waiting call goes on
  and declares the connection established.
* `flasher_slip`: `docs/FLASHING.md:31-32` says the installer synchronises over
  SLIP framing and confirms the ESP32-S3; `readUntil` returns what is received
  up to the first 0xC0, which is an empty packet when the device opens its
  frames with 0xC0 as the page does (`esp_protocol.js:35`). Every read then gets
  the answer to an earlier command or none, and the chip is refused. A ROM that
  answers a SYNC more than once has the same effect (`echoes`).

Departures met while modelling that no run is about, because a property of the
code as it is covers the same lines or because nothing executes them:

* `docs/SCHEDULER.md` section 2 draws every round as starting with the advance
  of the tick; the code advances it only when nothing is ready, so one task of
  period 0 stops time for all sleeping tasks (no task of the firmware has
  period 0). `StarvationFree` makes that exception and no other.
* `docs/QUEUE_POLICIES.md:14` says that a full Wi-Fi ring drops the oldest
  frame; it drops the one that arrives (`FrameDropped`).
* The fuel of the lander wraps to a full tank when two buttons are pressed on
  its last unit (`retro_games.c:68-80`): the exception in `FlightSound`.
* `docs/FLASHING.md` promises an MD5 check of the written blocks;
  `verifyFlashMD5` is called without a digest to compare and treats every failure
  as success. `main.js` constructs `FirmwareManager` with production mode off,
  so that test images are not rejected.
* On the device `s_ble_connected` is never set: the macro player stays at
  `wait` there. Its other states are reached on the host build only.

`HOST_PROTOCOL.md:60` says EXIT_APP stops the active application. The handler
asks for READY, which the matrix refuses to an ACTIVE application: it stays
ACTIVE, and each EXIT_APP leaves a fault. `AppsServe` and `LaunchedIsActive`
hold because of that refusal; launching a second application leaves both
ACTIVE. And a restart clears `s_connected` while the client, which does not
notice, never says CONNECT again: the broadcasts are gone until the user
reconnects. `ViewAgrees` holds thanks to the poll alone.

One more was met while modelling and is described by a property that holds
rather than by a violation: the firmware's parser drops an "S" it meets in
states MAGIC_2, MAGIC_3 and VERSION instead of starting again with it, so noise
that ends in "SL" costs the frame behind it. `DeviceResyncs` therefore excuses
exactly the noises that contain "SL" (`Deceptive`).

**Fairness.** `Scheduler`, `Session`, `Apps` and `Flasher` have liveness properties. `WF_vars(Start)`:
`app_main` always calls `mk_kernel_run` after registering. `WF_vars(Iterate)`:
that function loops for ever, and entries return - none blocks, each loop in
them is bounded, and the hardware watchdog resets the device otherwise. Nothing
is assumed of `SetState`. `StarvationFree` excuses tasks only while a task of
period 0 is live. In `Session`: `WF` of the device's steps (the kernel's loop
does not stop), of the read loop, the poll timer and the disconnect event (the
browser's event loop does not either), and `SF` of each call's steps, because
writes wait for room in the order they were made and a poll cannot keep a
waiting one out for ever. Nothing is assumed of the user - who may leave the
device picker open - nor of the cable and the power. In `Apps`: `WF` of the
macro player's task, which the scheduler calls again and again (that is
`StarvationFree`; the task has period 1). In `Flasher`: `WF` of the page's steps,
because every read of `readUntil` is limited by a timer; nothing is assumed of
the device, which may never answer.

## The proofs

Each `...Proofs` module proves `Spec => []Inv` for an inductive invariant of
its component and takes the properties from it. Assumptions on constants are
named (`SchedulerAssumption`, `BusAssumption`, ...) and evaluated by TLC on every
instance. Some theorems have a further hypothesis, named in the table and explained
below.

| Module | Theorems | Hypothesis |
|---|---|---|
| `SchedulerProofs` | `TypeCorrect OneRunningHolds OnTimeHolds NoInversionHolds ReleasesServedHolds WakesOnTimeHolds` | `NoResume` |
| | `BlockHoldsAlways` | |
| `EventBusProofs` | `BusTypeCorrect Refinement StatsAddUpHolds` | `Preempt = FALSE` |
| `SessionProofs` | `SessionImplementsExecutive BootFaultlessHolds AppsServeHolds LaunchedIsActiveHolds ConnectedMeansOpenHolds` | |
| `MemoryProofs` | `LogSpecHolds ArenaInvHolds TiledHolds AcceptsOnlyHeldHolds ExclusiveHolds GapsServedHolds FreeListsExactHolds AccountsExactHolds` | |
| `VfsProofs` | `DirectorySoundHolds SyncedHolds ContentsKeptHolds MountRestoresHolds LossConfinedHolds` | `Torn = FALSE` |
| `AppsProofs` | `RingFaithfulHolds TypesMacroHolds ReportFreshHolds FlightSoundHolds` | |
| `FlasherProofs` | `TargetOnlyHolds` | |
| | `DoneMeansWrittenHolds AnswersMatchHolds` | `MaxMishaps >= 2` |
| `LinkProofs` | `InOrderHolds HostLosesNothingHolds HostBufferBoundedHolds` | |
| | `DeviceResyncsHolds` | `Unmistakable` |

**Scheduler.** None of the properties is inductive alone. `IInv` adds
`Lifecycle`: a slot that is ready, running or sleeping was registered, a sleeper
has a positive period, a ready slot is due whether or not times have wrapped,
and nothing is running before the kernel is. The heart is `Idle`: because a
ready slot is always due, an idle iteration has no registered slot ready, so
advancing the tick by one can bring no ready task out of step, and a sleeper
whose release tick is greater than the old tick is woken exactly at it. The
theorems assume `NoResume`: entries do not pass READY, RUNNING or SLEEPING to
`mk_task_set_state`. The code accepts them - a SLEEPING task made READY early has
`next_run_tick` ahead of the tick and falsifies `OnTime` - but nothing in the
firmware calls `mk_task_set_state` at all; the instance checked by TLC passes
BLOCKED. `BlockHolds` needs no such assumption: its invariant `BlockInv` only
says that nothing runs before the kernel does.

**Event bus.** With preemption the refinement is false (`event_bus_isr`), so it
is assumed away. `RingInv` says that the head is the tail plus the number of
events, counting the one in transit in a call, modulo the capacity, and that
the slots between them hold events. A task's post refines `Put` when it stores
the count, its pop refines `Take` when it steps the tail, a callback's post is
one `Put`. `StatsInv` states the difference of the wrapping counters without the
remainder, as the number of events or that minus the counters' width, which is
what each step preserves.

**Memory.** `FaultLog` refines `RecentFaults` because `Readable`, the log as a
sequence, always is the ring read backwards from the last index
(`RecordAppends`). The arena's invariant is `ArenaInv`. `Listed` is what makes the
headers a list of blocks: each is linked to the one at its end and back, a
block ends before any later one begins, and every address belongs to a block;
`Apart` forbids free neighbours; `AcceptsOnlyHeld` is part of the invariant
because `my_free` trusts any header: without it a stale one could be released.
Listing by position, `Tiled` alone is not inductive: nothing in it keeps a
chain block out of the middle of another. `SplitListed`, `AbsorbListed` and
`ReleaseListed` are the three edits of the list. `Exclusive` and `GapsServed`
follow from the invariant alone: a stretch no caller holds lies in one block,
since the blocks at its ends would otherwise be free neighbours. The pools'
`PoolInv` says that the links from each head list the idle blocks of the class
one by one (`FreeList`); taking the head, pushing a block and relinking another
class's block are lemmas. `AccountsExact` needs a theory of sums over finite sets,
which `MemoryProofs` builds from the definition of `MapThenSumSet`
(`SumAdds`: the sum does not depend on the order in which it is taken); with it,
`UsedInv` and `PoolInv` follow the two counters call by call, and show that the
guards against negative counts never bite.

**File system.** `VfsInv` has five parts. `QueueOK` says what is in the sector of
the superblock and that a call in progress will leave the directory of the RAM
there. `FdsOK` says that a descriptor that writes to a file nobody misused is the
only one and stands at its end: this is why a write appends and loses nothing.
`FilesOK` says of each file that what its sector *will* hold when the commands in
`todo` are done (`Settled`) is what was written to it; `ContentsKept` is its case
of an empty `todo`, and not inductive without it. `LossOK` says that a call in
progress is about one inode, one name and one sector, or formats: from it come
`LossConfined` and, with `QueueOK`, `MountRestores`. The calls are one lemma each.
`Torn = FALSE` says that programming the superblock is not itself interrupted;
with torn programming the code gives no such promise (`vfs_torn_superblock`).

**Executive and session.** Every step of `Session` is a step of `Executive` or
leaves it alone (`SessionImplementsExecutive`), and `Executive` keeps
`BootFaultless`, `AppsServe` and `LaunchedIsActive`, hence so does the session,
for every set of applications, buffer and number of calls. The invariant
`ExecInv` says for every boot stage which states the stages before it have left;
in the loop, that each application is READY or ACTIVE - so a launch always finds
a legal transition or an application that is already ACTIVE, and an exit is
always refused. `ConnectedMeansOpen` needs `CallInv`: at which await a call may
wait in which state of the port, its streams and the client's references
(`Backed`); that without `raced` a connect that waits is the only call under way
and the page not connected (`Alone`), and a page whose disconnect waits does not
call itself connected (`HungUp`).

**Applications.** `WifiInv` is the invariant of a ring buffer with one pop in
transit, `ScanInv` says of each phase of a scan which probes have been made for
the current target, `LanderInv` bounds what the 16-bit fields hold. `Apps` lets
one of them move at a time, so each theorem of `Apps` comes from the
component's.

`TypesMacro` compares two readings of a macro, the parser's from cell to cell
and `Reference`'s from line to line. `MacroInv` joins them: the keys that have been
sent, followed by those that what is pending and unread still asks for (`Left`),
are the keys of the macro (`Progress`), and a report of a key is open exactly in
the state `"release"`. `Ahead` says what may be unread: the remainder of a line
without a command - the parser drops a cell with a word that is too long, and
reads on in the middle of it - and whole lines, of which a flash that fails may
have cut the end (`Begins`). Each event types what is first of what is left and
leaves the others (`EventRight`, with one lemma for each kind of line). The sizes
of the buffers of words and strings do not matter, nor where the text is cut.
`FlattenSeq`, which joins the lines, is recursive: what is needed of it
(`FlattenAppend`, `FlattenCons`, `FlattenMap`) comes from the fact that it is a
function at all (`FlattenExists`), by the least counterexample over the natural
numbers (`Least`). `MacroAssumption` says that the lines are well formed. Without
it the two readings do differ: `STRING` or `DELAY` without an argument takes the
next line for it.

**Installer.** `TargetOnly` needs that neither the inbox of another chip nor a
page that talks to it is ever at a flash command (`Spared`). `DoneMeansWritten` and
`AnswersMatch` share one invariant, `FlasherInv`. `Asking`: the answer that names
the ESP32-S3 can only be that to the last question asked, so no late answer gets
past the detection. `Installing`: with no mishap each answer is the one waited
for (`InStep`); after one, an MD5 answer not awaited, each is that of the command
before (`Lagging`), and then all blocks are written but the latest (`Written(1)`),
which the last answer of an image still covers. `MaxMishaps >= 2` is about the
bound of the model, not about the code: with less the second mishap would happen
without being counted.

**Link.** `LinkInv` is about one sequence: the octets a parser keeps, followed
by those under way. `Sane` says that the CRCs in it come in the order of the
frames they were computed for, all behind the frames handed on, and that where
the octets before a CRC are those it was computed from, the frame was sent whole
(a frame cut short has no CRC, one that was changed does not match). Whatever a
parser then takes for a frame, wherever it starts looking, is the next one or a
later one of those sent: this gives `InOrder` for both. `Lossless` says that the
frames not handed on lie whole in the sequence. It survives a chunk because of
what `Scan` returns (`Scanned`): no frame that begins before the position kept is
passed over. That is an induction over the positions of the buffer, from its end
on (`ScanScanned`), done on the least counterexample; `Apart` is its core: a frame
taken for one whose CRC matches ends before the next one that was written begins,
since only the last octet of a frame is a CRC of anything. Here the abstraction
of the CRC counts: a payload may contain the magic and a false header, and
nothing is lost, but not a CRC that matches them. That
`scan` is a function at all on every buffer is `ScanExists`. The proofs need that
payloads are no longer than `MaxPayload` and octets are numbers
(`LinkAssumption`).

`DeviceResyncs` is not true of all payloads: the firmware's parser does not look
back, so a payload that contains the magic can lead it into a false frame, out of
that into the payload of the next frame, and so on. `Unmistakable` excludes this:
behind its magic no frame has the first two bytes of the magic in a row, and no
noise begins with the second (an `S` that ends the octets before would make it a
start); `MCLink` assumes it, so TLC evaluates it on the instance. `SyncInv` is
about the states the parser is going to have as it reads what is under way
(`Trace`): each owed frame has been handed on or completes at one of them, and at
the end of them the parser is in no frame, or in a false one that is longer than
what was sent since the damage. As no frame is longer than `MaxFrameLen`, a sender
that was undisturbed for that long finds it in no frame (`SeenShort`), and then
the next frame arrives (`FrameGot`). What is put on the wire later only extends the
trace (`TraceJoin`), a read takes its first state away (`SteadyReads`).

**Only model-checked.** The liveness properties `StarvationFree`,
`RoundRobinFair`, `ConnectEnds`, `ViewAgrees`, `PlaysOut` and `FlasherEnds`: TLAPS
proves no liveness here. The four properties of the runs that expect a violation are
false. The type invariants of the modules that no run lists (`BusTypeOK`,
`VfsTypeOK`, ...) state the types for readers and proofs.

## What is left out

* Telemetry that no decision reads: execution times and counts, peaks, failure
  counters, `free_bytes`. The last drifts: a split does not subtract the header
  it costs, a merge adds it back, so the figure exceeds the capacity after a few
  malloc/free pairs.
* `s_total_faults` and the tick of fault records: the log is empty to readers
  again after 2^32 faults.
* In `Vfs`: failing flash commands whose results nothing looks at, descriptors
  left open across a delete (they refer to whatever file reuses the inode),
  names of 31 characters or more (stored cut, never found again, so that each
  open creates another file). No caller in the firmware does any of it.
  Overwriting the middle of a file loses the data behind the write; it takes two
  writers or a truncation under an open descriptor, and makes the inode forfeit.
  The contents of a file are *not* safe across a power failure - the sector is
  erased before it is programmed - and no property says they are.
* `vfs_record_format` and `vfs_record_validate`, which only tests call. The audit
  log is filled by `vfs_write` like any file; at the end of its sector every
  further line is refused, and the callers ignore that.
* In `WifiRing`: what the statistics say of a frame, the clock of the channel
  hops (an input), the audit line. In `MacroPlayer`: `ble_hid_handle_event`, which
  nothing calls; a command without its argument, which takes the next line for
  it; starting the player while it runs, which would forget the open file. In
  `NetScan`: `network_terminal.c`, which nothing calls, and the audit line. In
  `Lander`: the horizontal position (whether the craft is over the pad is an
  input), the score, and where the buttons come from (the page's byte or
  `hal_gpio.c` with its debounce).
* In `Flasher`: the bytes of packets but for what decides (opcode, status, the
  register values), time (a read may time out at any moment), the checks of the
  manifest and of the SHA-256 (their outcome is an input), a second click while
  an installation runs (the port is taken), and the awaits inside `close`.
* In `Link`: damage that the CRC-16 does not detect.
* In `Session`: the clock of the broadcasts and of the time-outs (a time-out may
  come at any time), game input and the terminal's texts, leaked poll timers of
  raced connects. Whether a connect and a disconnect waited together is recorded
  (`raced`); `ConnectedMeansOpen` says nothing then, because the code checks
  nothing then.
* Compile-time matters: several calls in `hal.c` pass four arguments to
  `mk_fault_record_full`; the static assertion of `memory_pool.c:21` expects a
  header size that 32-bit pointers do not give. The models take the functions
  as their definitions are written.
* `my_malloc` and `mk_pool_alloc` have no callers in the firmware except the
  tests; the models let any caller do anything their headers allow.

## Plan

1. Done: scheduler, event bus, memory services with the fault log, file system
   with failing writes, framing and link, executive and session, applications,
   installer; proofs for the scheduler, the event bus and the executive.
2. Done: proofs for the memory services, the file system, the applications and
   the installer, `StatsAddUp` of the event bus, `BlockHolds` of the scheduler and
   `ConnectedMeansOpen` of the session.
3. Done: proofs for the link and the macro player.
4. Not planned: the DOM, the device simulator (a test double of the firmware),
   build scripts.

Checks run with `tlc -config MCx.cfg MCx` and `tlapm XProofs.tla` in this
directory.
