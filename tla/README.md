# Dragonball-evolved: a TLA+ verification project

TLA+ models of the vmm's own logic, TLC configurations that model-check them,
and TLAPS proofs of what matters most. Every module is written from the
sources under `src/`; `PROJECT.json` maps each definition to its lines.

## The system

Dragonball-evolved is a microVM monitor in Rust: `src/src/` is the binary,
`src/crates/` its libraries. It is being rebuilt piece by piece. The device
manager, the block and serial devices, the logger, the API types and the
transport are there; the request handler of the main loop is `todo!()`, and no
code opens a KVM file descriptor yet.

| Part | Source | State it keeps | Operations |
| --- | --- | --- | --- |
| process entry | `src/main.rs`, `src/init.rs` | its `VmmClient`, the log flush guard | set up, spawn the signal task, join the vmm |
| vmm main loop | `crates/vmm/src/lib.rs` | request channel, `Step::Stop`'s reply | `select!`, `handle_request`, wind down |
| vmm clients | `crates/vmm/src/vmm_server.rs`, `api/src/helpers/reply.rs` | sender clones, the one join handle | `call`, `call_timeout`, `call_async`, join, drop |
| device manager | `crates/vmm/src/devices/mod.rs` | `running`, exit channel, `Stop` watch | `spawn`, `next_exit`, `quiesce` |
| virtio-block loop | `devices/virtio/block.rs`, `virtio/mod.rs` | queue cursors, `resume_at`, kick eventfd | `run`, `serve`, `drain`, activation |
| virtio-block requests | `devices/virtio/block.rs` | the image, the staging buffer | `complete`, `transfer`, `payload`, `Disk` |
| guest interrupt | `devices/virtio/interrupt.rs` | status word, irqfd | `trigger` |
| token bucket | `devices/rate_limiter.rs` | tokens, `refilled_at` | `consume`, `refill`, `resume_at` |
| async descriptors | `devices/async_fd.rs` | the reactor's readiness and its tick | `read` |
| serial device | `devices/legacy/` | its buffer, the UART FIFO behind a lock, a `Notify` permit | `run`, guest I/O |
| log rate limiter | `crates/logger/` | one packed `AtomicU64` a callsite | `check`, the logging macros |
| log backend | `crates/logger-backend/` | bounded queue, `DROPPED`, `LOG_FD`, `CRASH_FOLLOWS_LOG`, crash descriptor, sink | `log`, `update`, `flush`, writer thread |
| line rendering | `logger-backend` `entry.rs`, `buf.rs`, `time.rs` | none | formatting |
| hyper-uds transport | `crates/hyper-uds/` | a connection, what is half read or written, descriptors in transit | `send_request`, `serve_connection` |
| configuration | `src/config.rs`, `src/cli.rs`, `api` helpers | the files being loaded, the bindings' tree | build, load, merge, parse, patch |
| API types, schema generator | `crates/api/`, `crates/api-schema/` | none | derive macros, code generation |

**How they interact.** The vmm thread runs one current-thread runtime: the main
task and all device tasks take turns at awaits. Clients on other threads reach
it only through the request channel and get answers through one-shot replies.
A device task reaches the manager through the exit channel and hears from it
through the `Stop` watch. The guest runs on vcpu threads and meets a device in
shared memory (avail and used rings, the no-notify flag), through the kick
eventfd and through the interrupt. Any thread may log: it meets the writer
thread in a bounded queue, and `update()` moves the crash log's descriptor on
the caller's thread while the log's sink moves on the writer's.

**What is hard.** Suppressed kicks and interrupts against a guest that runs on
(virtio's lost wake-ups), a rate limit that ends a drain half way, shutting
down in the right order with tasks that end by themselves or panic, a decision
published by compare-and-swap long after the clock was read, a queue at its
limit, reconfiguration in several unlocked steps, and I/O that breaks off in
the middle of a request. `PROJECT.json` lists each of these hazards at its
line with the properties that watch it.

**What makes each part correct.** The block device serves every request once,
in order, and tells the guest. A request writes exactly what it should and
says how it went. The vmm answers a shutdown when all devices have stopped, and
nobody waits on it for ever. The limiter keeps its rate, and its count but for
calls that ran out of swaps. The log backend loses no count, writes where it was
told at that point of the queue, and `flush()` is a barrier. Input for the guest arrives, whole and in order. A
call over a connection gets the answer to its own request, descriptors arrive
with their message, and what one end agrees to send the other accepts. A
configuration is what its chain of files says, each setting from the nearest
source that decides it, and every field of it is a command or is refused.

## The modules

| Module | Models | Checked by | Proved in |
| --- | --- | --- | --- |
| `VirtioBlock` | block device task and guest driver | `VirtioBlock.cfg` | `VirtioBlock_proofs` |
| `BlockService` | what a block device promises (abstract) | as `ServiceFairSpec` of `VirtioBlock` | `Implementation` |
| `BlockRequest` | requests: header, payload, status | `BlockRequest.cfg` | `BlockRequest_proofs` |
| `VmmMain` | main loop, device manager, clients | `VmmMain.cfg`, `VmmPanic.cfg` | `VmmMain_proofs` |
| `VmmProcess` | `main()` and the signal task around `VmmMain` | `VmmProcess.cfg` | `VmmMain_proofs` |
| `LogRateLimiter` | one rate-limited callsite | `LogRateLimiter.cfg`, `LogLimiterNotice.cfg` | `LogRateLimiter_proofs` |
| `LogBackend` | log queue, reconfiguration, writer | `LogBackend.cfg`, `LogCrashRace.cfg` | `LogBackend_proofs` |
| `Serial` | serial receive path, `AsyncInput` | `Serial.cfg` | `Serial_proofs` |
| `HyperMessage` | framing rules of hyper-uds | as part of `HyperUds` | `HyperUds_proofs` |
| `HyperUds` | client and server on one connection | `MCHyperUds`, `HyperUds.cfg` | `HyperUds_proofs` |
| `RpcExchange` | what a connection promises (abstract) | as `RpcSpec` of `HyperUds` | `CallsImplementExchange` |
| `ConfigBindings` | operations bound to configuration paths | as part of `Configuration` | `Configuration_proofs` |
| `Configuration` | from files and arguments to settings and commands | `MCConfiguration`, `Configuration.cfg` | `Configuration_proofs` |
| `ConfigDocuments` | how documents merge at any depth, the schema | `MCConfiguration`, `Configuration.cfg` | |

`VmmProcess` composes `main()`, the signal task and `VmmMain`; `VirtioBlock`
refines `BlockService`; `HyperUds` puts two tasks that follow `HyperMessage` on
one socket pair and refines `RpcExchange`; `Configuration` loads documents that
`ConfigBindings` reads, and merges them by an operator `Merge` that
`ConfigDocuments` defines. `VmmMain` knows of a device only that its task ends when
it is asked to, which is `StopEnds` of `VirtioBlock`. Definitions commented
"MUTANT of X" are deliberate bugs, not part of a specification: each property
is known to fail when one of them replaces X.

### VirtioBlock

One action is one access the task makes to guest memory, to an eventfd or to
the interrupt; the guest moves between any two. `dev` is the place in `run`
(`inactive`), in `serve` (`serving`) or in `drain` (the rest). `stop` moves only
while the task is parked in a `select!`, because `quiesce()` shares its thread;
the `select!`s are biased, so a raised stop disables the other arms.
`DisableNotification`, `PopChain`, `EnableNotification` and `RecheckAvail` are
the suppression protocol, each with its own access; `Throttle` puts the popped
chain back and leaves notifications off until `Resume`. `SetStatus` and
`RaiseIrq` are the two halves of `trigger()`. `Fault` is any `?` of `serve` and
`drain`. `Publish`, `CheckFlag`, `Kick`, `TakeIrq`, `AckStatus` and `ScanUsed`
are the guest's driver, which is not in this repository: the virtio protocol
the code relies on. Requests are numbered by the order of publication, so the
avail ring is a number; what a request does is `BlockRequest`.

*Run `virtio_block`*: a limited device with faults; the same behaviours contain
those of one that is unlimited for as long as its tokens last, and the faultless
ones. `UsedInOrder`: once each, in order, after the data. `NoLostKick` and
`NoLostInterrupt`: whoever sleeps is woken. `StopStartsNothing` and `StopEnds`:
a stop starts nothing more and ends the task. `ServiceFairSpec`: the refinement
of `BlockService`, with its liveness. Bounds: four requests over a queue of
three and two tokens. A wrap of the queue's occupancy, a throttle in the middle
of a drain, one at its start and one after an earlier resume all fit; the
protocol's flags have no memory that a longer run could add to.

*Fairness*: weak, on the device task (the runtime polls a ready task), on time
(`Refill`), on the driver's started kick and on the interrupt handler (vcpus
run). None on publishing, on the stop, on activation or on faults.

### BlockRequest

One chain after another over an image and a staging buffer that persist.
`Header` has `complete`'s and `transfer`'s early returns in their order,
`Payload` one turn of its loop with an arm for each request kind and a disjunct
for each way it can break off, `Finish` the status descriptor. Bytes carry
their provenance, so that the properties can say whose bytes are where.

*Run `block_request`*: three chains of any kind, with bad headers, bad or
unmapped status descriptors, descriptors of the wrong direction or in no
memory, and I/O errors at any byte. `WritesExact`, `GuestSeesOnlyItsOwn`,
`UsedLengthCounts`, `OutcomeReported`. Bounds: sectors of two bytes, an image of
five (so its last partial sector exists), addresses up to seven (so that both
`checked_mul` and `checked_add` overflow), payload lengths 0, 1 and 3 (empty,
unaligned, over a sector's end). Three requests let a buffer be dirtied, reused
and checked.
`read_only` is chosen at the start. A behaviour may end anywhere, so deadlock is
not checked here, nor elsewhere: every system below may come to rest.

### VmmMain and VmmProcess

`phase` is where `vmm_main` stands; device tasks (`Exit`, `TaskPanic`) move only
while it awaits. `NextRequest`, `ClientsGone` and `DeviceExit` are the biased
arms. A handler may spawn devices and then do anything its signature allows:
`HandlerContinues`, `HandlerStops`, `HandlerPanics`; today's `todo!()` is
`HandlerSteps = {"panic"}`, which is what `VmmProcess.cfg` uses. `BeginQuiesce`,
`QuiesceExit` and `Answer` are the wind-down; `ThreadEnds` drops what the thread
still owned. A call's number stands for its one-shot channel.

*Run `vmm_main`*: two clients, two devices that may panic, three calls, every
handler outcome. `RunningCounts` (the manager's books), `ShutdownMeansStopped`,
`StopAnsweredLast`, `EveryCallReturns`, `WindsDown`. Three calls are enough for
one in hand, one queued and one made during `quiesce()`; two devices for one
exit queued while the other runs or panics.

*Fairness*: weak on the main loop, on a device that was asked to stop, and on
receiving what has arrived. This takes for granted that a handler ends. Clients
need not call, give up or drop their handles, and devices need not end unasked.

*Run `vmm_panic`* (finding): `quiesce()` counts exits, a panicked task sends
none. *Run `vmm_process`* (finding): after a signal nothing stops the vmm, which
`NothingStopsVmm` proves of every behaviour of the process.

### LogRateLimiter

A thread reads the clock (`Call`), loads the word (`Load`), and swaps (`Admit`,
`Deny`, `SwapFails`), so both may be stale. `compare_exchange_weak` may fail for
nothing, and `GiveUp` is a last try that fails. `Mark` is not in the code: it
restarts a count of admissions at any instant, which turns the rate over every
window into the invariant `BurstBound`. `denied` has every call `check()` denied
since the last `Emit`, `outraced` those of them that gave up. `SuppressedExact`:
the counter is the difference, up to saturation. So the count that an `Emit`
hands out is not of every denied call, as `rate_limited.rs:53-54` has it: the
calls that gave up (line 158) are missing, and no others.

*Run `log_rate_limiter`*: two threads, five calls, `MAX_SUPPRESSED` of two, so
saturation and a race at it are reached; two tries for the sixteen of the code.
The clock stops at 3, under one refill window of 4 but past one period of 2.
*Run `log_limiter_notice`* (finding): a notice at level Warn may be filtered
with its count already cleared.

### LogBackend

`Claim`, then `TrySend` or `Refused`, are `Frontend::log`. `Update` and the
`Split` steps are `update()` with one action for each shared word or descriptor
it moves, up to the blocking `Send`; `OpenFails` and the second disjunct of
`Remember` are its errors. `Handle` is one message of the writer, `Idle` the
flush before it blocks, `WriteLine` the `BufWriter`. The histories `accepted`,
`owed`, `want`, `own` and `before` exist for the properties.

*Run `log_backend`*: two loggers, one updater, one flusher, one file and stderr,
a queue of two. `DropsAccounted`, `FlushBarrier`, `RightTarget`,
`CrashTracksLog`, `SettlesOnDisk`. One update suffices for sequences of them:
`Init` takes any configuration, and `CrashTracksLog` says that what an update
leaves behind is one of those again. Three records fill the queue and find it
full. *Run `log_crash_race`* (finding): two updates that overlap.

*Fairness*: weak on the writer and on every thread inside a call. A slot of the
queue is not owed to one sender rather than another: calls are bounded, and once
they stop all get through.

### Serial

`at` is the place in `run()` and, within its read, in `AsyncInput::read`. The
reactor is three facts: an event queued by the edge-triggered registration
(`edge`), the readiness it has cached (`ready`), and whether an event has come
since the task's guard was taken (`current`, tokio's tick). `Readable`, one of
`ReadSome`, `ReadNothing`, `ReadFails` and `WouldBlock`, then `ClearReady` are one
turn of `try_io`, so that a write may fall anywhere between them. The UART's
lock is held for `CheckCapacity` and again for `Enqueue`; the guest runs between
the two, and between `Capacity = 0` and the wait. `GuestReads` and
`GuestReadsEmpty` leave a permit as `notify_one` does, and the permit may be
stale. `GuestLeaves` may poison the lock. The UART's loopback and its other
registers are vm-superio's and not modelled; nor is an interrupt trigger that fails
in `enqueue()`, which ends the task with an error as a poisoned lock does.

*Run `serial`*: a FIFO of two, a buffer of three and five bytes, so that input
takes more than one buffer, a buffer more than one FIFO, and a short enqueue
leaves a rest. `BytesInOrder`: nothing lost, doubled or reordered, whatever is
in hand at a close. `NoLostWakeup`: neither the cached readiness nor the permit
lets the task sleep on what has happened. `Arrives`: input reaches a guest that
goes on reading, and a stop ends a task that waits for room.

*Fairness*: weak on the reactor and on the task, which share a runtime that
polls what is ready, and on a guest that listens and has a byte announced. None
on the host, on errors, on the stop, on reads of an empty FIFO.

### HyperMessage and HyperUds

`HyperMessage` has what a side puts into a head (`PreparedRequest`,
`PreparedResponse`, each empty when the code refuses) and what the other makes
of one (`HeadRefused`, `IncomingLengths`), written from the two halves of
`proto.rs` apart. A message keeps what these rules tell apart: the values of
`Content-Length`, `X-FD`, `Host` and `Connection`, its status, how many other
headers it has, the size of its body, its descriptors. Sizes are in units: one
for the start line, one a header, and the body's.

In `HyperUds` each side is one task, `at` its await. `Send` writes any prefix that
fits, the descriptors with the first unit (one `sendmsg`); `ReadHead` and
`ReadBody` take any prefix of what is there with the descriptors of at most one
`sendmsg`, as `recvmsg` does, into a buffer that grows as `Grown` says.
`Call` prepares, `Complete` is the end of an exchange on either side, `Break` any
`?`: the connection is dropped, and whatever it had not read becomes the other
side's `ECONNRESET`. `Cancel` drops the future of a call at any of its awaits,
`DropClient` the client, `ServiceFails` is a service that returns an error. In
place of the client there may be a raw peer that knows the format only: it
pipelines, attaches descriptors late or to a body, sends more than it said,
names what it did not send, forgets the host, or never ends its head.

*Run `hyper_uds`*: three calls over one connection with requests and responses
on both sides of each rule, and seven raw peers. `ServesWholeRequests`: however
a stream is cut into reads, the service sees whole messages with their own
descriptors. `AcceptsWhatItPrepares`: the two halves of the framing rules are the
same rules. `ReusedOnlyClean`: no call starts on what a cancelled or failed one
left. `ServerEnds`: a server whose client is gone does not wait on.
`RpcSpec`: the refinement of `RpcExchange` with its liveness (every call ends).
Only an intact delivery counts as served or answered there, so the refinement
also says that an answer is the caller's own. Bounds: heads of at most four
headers and five units, bodies of two, two descriptors, a first read of two and
sockets of three units, so that a head grows its buffer to the limit, a body
spans reads and a send is cut short. Three calls are a first one, one on a
reused connection and one after a failure.

*Fairness*: weak on each side's `Progress` (its socket is ready, the runtime polls
it) and on the service, which is taken to return. None on callers and peers.

### ConfigBindings, Configuration and ConfigDocuments

`ConfigBindings` has the list of operations with the paths they are bound to:
`validate()` (`Valid`), `node_count()` (`NodeCount`), the tree `new()` builds
in an array of that length (`Bind`, `AddChild`) and `parse()` (`Parses`,
`Commands`). A node has the path it stands for, as in the code. `Reached` gives
the value `collect()` has at each node, from the node before it that leads there,
so that the walk is a function over the array and needs no recursive operator.
Beside them stands what the paths mean, computed from the list without a tree:
`Instructs` and `Instructions`.

`Configuration` builds the tree one operation a step (`BindOp`, `Built`), then
loads. `LoadFile` is `load_config_value()` up to its recursive call, which the
`stack` and the set `visited` stand for; a file's content is chosen when it is
first read, so the run needs no enumeration of whole disks. `Return` merges on
the way back, with the constant `Merge`. `Parse` splits the document into settings and commands, and
`IntoConfig` is `patch_config` and `apply_defaults`. `Canonical` resolves a path
as written in a directory, symbolic links included.

`ConfigDocuments` defines what recurs over a document: `merge_value()`
(`MergeValue`, the value of `Merge` in the run) against a whole stack of files
combined at once (`Combined`), and `node_schema()` (`NodeSchema`) against what a
schema admits (`Conforms`).

*Run `configuration`*: `BindingsAgree` compares the tree with the paths, over all
lists of up to three out of eleven operations (shared prefixes, one path a
prefix of another, one that is only a prefix of a name, reserved and malformed
segments) and some fifty documents. `ChainResolved` compares loading with a
chain followed file by file; `Layered` each setting with the nearest source that
decides it; `DocumentsAgree` what was merged in pairs with all files at once,
and the schema with the parser. Three files in two directories, one reached
through a link, hold chains of every length, every cycle and both meanings of
one relative path; nulls, sections replaced by something else and refused
fields occur at each level. The programs run are the crate's own list of
operations and one whose bindings share a prefix.

The program ends, so deadlock is not checked. Files are JSON: a TOML file has no
null. A section written as an array is left out, which serde would take field
by field. clap's parsing is external: `CommandLines` are its results.

## What is proved

For every value of the constants (their assumptions are the named `ASSUME`s of
each module):

- `VirtioBlock_proofs`: `TypeCorrect`, `Order` (`UsedInOrder`), `KickSafety`
  (`NoLostKick`), `InterruptSafety` (`NoLostInterrupt`), `StopSafety`
  (`StopStartsNothing`) and `Implementation` (`Spec => ServiceSpec`: initial
  states map to initial states, each step to a step or a stutter). `NoLostKick`
  alone is not inductive: what makes a task safe to park is built up earlier, in
  `recheck`, where the flag is already clear, and while no limit holds the
  notifications off. `KickInv` says so, `HandInv` which chain is in hand,
  `StopInv` that a stop is raised only while the task is parked.
- `VmmMain_proofs`: `TypeCorrect`, `RunningCorrect` (`RunningCounts`),
  `ShutdownSafety` (`ShutdownMeansStopped`), `AnsweredLast`
  (`StopAnsweredLast`), for any number of clients, devices and calls and any
  handler. The argument is a count: `running` is the length of the exit queue
  plus the number of tasks that have not reported (`CountInv`), so at zero there
  are none, which is what `StoppedInv` carries through the end of the thread.
- `VmmMain_proofs`, of `VmmProcess`: `NothingStopsVmm` (`main()` holds a client
  while it joins, so in no behaviour does the vmm ever leave its `select!`).
- `LogRateLimiter_proofs`: `TypeCorrect`, `RateBound` (`BurstBound`),
  `SuppressedCount` (`SuppressedExact`: only calls that ran out of swaps go
  uncounted), for any number of threads, burst, window and retry limit. `TatInv` is the reason: `tat` is at most one window
  ahead of the clock, and every admission since the mark has pushed it one
  period past the mark, however stale the admitting thread's own clock.
- `Serial_proofs`: `TypeCorrect`, `InOrder` (`BytesInOrder`), `WakeSafety`
  (`NoLostWakeup`), for any FIFO, buffer and amount of input. `OrderInv` says of
  each sequence of the pipeline where its run of numbers begins, so that a step
  moves a border and the concatenation is only looked at in the end. `WakeInv`
  adds that readiness, once seen, lasts until the task itself clears it.
- `BlockRequest_proofs`: `TypeCorrect`, `WritesAreExact` (`WritesExact`),
  `GuestGetsOnlyItsOwn` (`GuestSeesOnlyItsOwn`), `UsedLengthIsWritten`
  (`UsedLengthCounts`), `OutcomeIsReported` (`OutcomeReported`), for any image,
  sector size, descriptor lengths and number of requests. Each property needs to
  know where a request stands: its offset is as far from its first sector as
  bytes have moved, and what was written so far is what the guest was given
  (`PlaceInv`). `ImageInv` adds that the image never differs from the one before
  the request outside the sectors of a disk that may be written, `CountInv` that
  only a read that was cut short gave the guest less than it had room for.
- `LogBackend_proofs`: `TypeCorrect`, `EveryDropIsCounted` (`DropsAccounted`),
  `FlushIsABarrier` (`FlushBarrier`), `LinesGoWhereAsked` (`RightTarget`), for
  any number of threads, records and updates, any set of targets and any depth
  of the queue. `OrderInv` says that records pass queue, buffer and target
  without overtaking, `CoverInv` that each one accepted is in one of the three,
  `FlushInv` that a flush in the queue has all it waits for ahead of it,
  `TargetInv` that a record's target is what the updates queued ahead of it
  make of the sink. `DropsAccounted` is a sum over the threads and one over the
  queue; that a sum changes by what one of its terms does is shown by the
  smallest set for which it would not.
  `CrashLogTracks` proves `CrashTracksLog` for behaviours in which no two
  updates overlap (`UpdatesApart`): with an overlap it is false, as run
  `log_crash_race` shows. `CrashLogTracksOne` has no such proviso where one
  thread alone reconfigures. `Standing` says for each place in `split` what an
  update has moved by then, so that wherever it fails the next one starts from
  descriptors that agree.
- `HyperUds_proofs`, for any requests, responses, raw peers, limits, buffer and
  socket sizes and number of calls: `FdsStayFormed` (what the other proofs take
  from `Fds`), `TypeCorrect`, `CallsStartClean` (`ReusedOnlyClean`),
  `PreparedIsAccepted` (`AcceptsWhatItPrepares`), `OnlyWholeRequests`
  (`ServesWholeRequests`) and `CallsImplementExchange` (`Spec => Rpc!Spec`, the
  safety of `RpcSpec`). `SideInv` is what one side knows of its own reads
  whoever is at the other end. For two sides of hyper-uds `Net` says what is on
  its way: requests and responses take turns (`CountInv`), what a side has read
  and has still to read is a prefix of the one message due to it, as long as
  its sender has written (`FlowInv`), and nothing else is on the connection.
  That a prepared message is within the reader's limits, lengths and names
  (`PreparedSendable`) is a lemma about `HyperMessage` alone. A raw peer has no
  turns: `RawInv` says which stretch of its stream the server holds, and that
  every request served ended before it began. For the refinement, `StepMoves`
  sorts the steps into those `RpcExchange` sees, and `Tally` counts: what was
  served is each request of the client as it was prepared, and what was
  answered is each response.

- `Configuration_proofs`: `TreesRead` (`BindingsAgree`), for any operations and
  documents; `ChainsResolve` (`ChainResolved`) and `SettingsLayered` (`Layered`),
  for any files, links, contents, operations and command lines. Three arguments:
  - The tree. `Linked` says what the array is: each node's path is its parent's and
    its own name, no path occurs twice, and the links run through the children
    newest first, so that a search by name finds the one child there is
    (`ChildFound`). `TreeInv` says that between two turns of the loop the paths
    are the prefixes of the operations placed so far, and the array is as long as
    `node_count()` has counted for these: so there is always room for a new node,
    and an assertion fails only where `Valid` does (`BindStep`). On the whole tree
    `collect()` has at each node the value at the node's path (`ReachedLookup`).
  - The chain. While files load, those on the stack are the beginning of the only
    chain there can be (`OneChain`), `ChainInv`; a file that is met again, or is
    refused, shows that this chain does not end. On the way back the value is the
    combination of the layers not on the stack any more.
  - The settings. A layer laid over others has the settings it decides and lets
    theirs show through elsewhere, so that by induction over the number of layers
    the combination has each setting as its nearest deciding layer does
    (`CombinationDecides`), and that is what `ProcessConfig` reads (`ProcessSeen`).
    `LayerInv` carries this through the command line and the defaults.

  Each induction is over a number and is done by its least counterexample (`Least`).

**Assumptions.** What the `ASSUME`s ask is what the code gives: lengths and
limits are numbers, a queue has room for one entry, the sets of threads and
devices are finite, targets differ from the words `Keep` and `SameAsLog`.
`HyperAssumption` asks that callers and services hand over descriptors as `Fds`
forms them, which `FdsStayFormed` proves of its operations. `RawAssumption` is
about labels, not about behaviour: a unit of a raw peer's stream is numbered as
the message the server reads it as. Of `Configuration`, `ListsAssumption` is the type of
operations, `FilesAssumption` that there are finitely many files and that links
resolve to them, and `MergeAssumption` what `merge_value()` does at the objects
above the settings and at the settings: one unfolding of `MergeValue`, which TLC
evaluates. `SocketBytes` and `QUEUE_DEPTH` are the
system's; the bounds on calls, records, updates and requests are arbitrary
naturals.

**Only model-checked**: everything that must eventually happen (`StopEnds`,
`EveryCallReturns`, `WindsDown`, `SettlesOnDisk`, `Arrives`, `ServerEnds`, the
fairness of `ServiceFairSpec` and `RpcSpec`), since temporal reasoning with
fairness and `ENABLED` is out of the prover's reach; and `DocumentsAgree`, since a
document is a tree of any depth, the operators of `ConfigDocuments` are recursive,
and their results for every tree would need an induction over trees that the
prover has no rule for. The types of `Serial` are proved and not checked by its
run.

## Findings

1. A device task that panics leaves `quiesce()` waiting for ever
   (`devices/mod.rs:134`; run `vmm_panic`).
2. SIGINT and SIGTERM do not shut the vmm down (`main.rs:60`; `vmm_process`).
3. The suppression notice of `error!` is lost when the level is Error
   (`logger/src/lib.rs:98`; `log_limiter_notice`).
4. Overlapping `update()`s part the crash log from the log it should follow
   (`logger-backend/src/lib.rs:284`; `log_crash_race`).

## What is not modelled

- A drain that never ends because the guest never stops publishing: `drain()` has
  no await, so one unlimited device can hold the vmm thread. `StopEnds` holds
  because a behaviour has `MaxRequests` of them.
- A guest that rewrites a chain while the device walks it, or publishes an
  available index out of range, which the queue's iterator refuses; a second
  activation, which is queued and never read.
- Ancillary data of a raw peer that is not descriptors: `transport.rs` refuses the
  message as it refuses too many descriptors.
- A log format written as `{"text": null}`, which serde takes for `"text"`: the
  model refuses any object there.
- Of the logger: the text of lines, failed writes (swallowed by the code), a
  failed `dup3`, calls before `init()`, the signal handler's formatting, a panic
  on the writer thread (its hook would flush through itself), `tat_ms` after 34
  years.
- The token bucket's arithmetic is in `f64`: in `VirtioBlock` it is a number of
  tokens that time raises, and `Resume` may find it still empty, as rounding may
  make it.
- The rendering of log lines (`entry.rs`, `buf.rs`, `time.rs`): pure formatting, whose
  unit tests enumerate what a model would.
- Routes of the API: a path and a method for a server that does not exist yet.
  The derive macros declare types.
- The descriptor hand-over of a live upgrade: a struct with one test descriptor and
  no caller. How descriptors travel is in `HyperUds`.
- The schema generator (`api-schema/src/main.rs`): it runs once, on one thread, and
  writes a file.
- Setup in `init.rs` and `main.rs`: straight-line system calls.

## Plan

Done, in this order: the block device with its abstract service, the main loop,
the log limiter, the log backend, requests, and the proofs above; then the
serial device, the transport with its abstract exchange, and configuration.
Then the proofs of requests, of the log backend, of the transport with the
safety of its refinement, of the process around the main loop, and of
configuration, whose recursive parts went into `ConfigDocuments` for it. Every
invariant a passing run checks is now a theorem (`CrashTracksLog` with its
proviso), `DocumentsAgree` excepted.

What is left, most telling first:

1. `VirtioBlock` and `Serial`: safety facts that the liveness checks rest on, such
   as that some step of the task is possible whenever it owes one.
2. `ConfigDocuments`: documents of bounded depth as nested functions, for which
   merging could be proved level by level.
