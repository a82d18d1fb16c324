# A formal model of the Microchip CAN BUS Analyzer driver

TLA+ specifications of the Windows (KMDF) driver in `src/mcba`, model-checked
with TLC on small instances and proved with TLAPS for every instance (safety and
refinement). All line numbers refer to files of `src/mcba`.

## The system

| Component | State it keeps | Operations | Interacts with |
|---|---|---|---|
| USB request pool (`Device.c` 1423-1656) | stack of free indices, its height, a counting semaphore, the number of requests | Init, Uninit, Alloc, Free, Reuse | used by every sender; created and deleted by the power transitions |
| Write path (`Queue.c` 170-206, 613-896) | batch headers (pending count, statuses, indices), list of recycled headers, USB requests in flight | EvtIoWrite, commands of EvtIoDeviceControl, completion routines, finalization | pool; runs on dispatch threads and, concurrently, in completion routines |
| Read queue (`Device.c` 1013-1117, 1700-1721; `Queue.c` 212-308) | per file: queued frames and their number, loss counter, the read that waits | McbaRead, adding a frame, cancel callback | framework cancellation; bus reader; free list of message buffers |
| Power transitions (`Device.c` 254-283, 778-1006; `Queue.c` 446-471) | whether pool and pipes exist | D0Entry, firmware requests, EvtIoStop, D0Exit | pool, write path, framework queues |
| Open files (`Device.c` 705-772) | list of files, FilesLock, a ReadLock per file | create, cleanup, broadcast of a frame | read queues, bus reader |
| Bus reader (`Device.c` 1213-1321) | none | dispatch of the messages of a transfer | files, device status |
| Message buffers (`Device.c` 1325-1372) | free list, pages | add a page, free all | read queues, files, device creation |
| Device status (`Device.c` 1171-1211; `Queue.c` 335-400) | bit rate, versions, statistics | keep-alive handlers; get, clear | bus reader, control codes |
| Frame codec (`Device.c` 125-147, 1131-1161, 1374-1419) | none | format, parse | write path, bus reader |
| Driver and device creation (`Driver.c`, `Device.c` 285-703) | device context, pipes | DriverEntry, EvtDeviceAdd, EvtDevicePrepareHardware | framework; message buffers; power transitions |
| Test program (`src/exe`) | none | sequential client | driver interface |

What makes the driver hard to test is that nearly everything runs concurrently: both
I/O queues dispatch in parallel, transfers complete on any processor while the
thread that sent them still works on the same header, the framework cancels a read
between any two calls the driver makes for it, two transfers from the bus are
handled at once while programs open and close files, and power transitions start and
end around all of it. `PROJECT.json` lists each of these hazards with its line and
the properties that cover it.

What makes each component correct: the *pool* never hands out an index twice and
blocks callers for good only if they ask for more than it has (as writes in the
driver may); a *write* is completed once, when nothing of it is in flight, with a
true report, and gives everything back; a *read* misses no frame, sees them in
order, and is completed once, also when cancelled; a *power transition* deletes
nothing that is in use, ends, and enters D0 only with the pipes of the current
configuration; every *open file* gets every frame of a transfer once, and closing it
leaves nothing behind; *keep-alive messages* add up as far as they do not meet,
never to more than they say, and report the rate that was set; a *frame* is read as
it was written, whatever the byte order of the hosts.

## Modules

| Module | What it models |
|---|---|
| `UsbRequestPool` | The pool's promise to callers that free what they were given. `Alloc` is three steps (check of `Count`, which may refuse, one wait per permit, locked pop) and `Free` two (locked push, release), as the code lets other threads see. |
| `UsbRequestPoolProofs` | The theorems about it. |
| `WritePath` | Extends the pool with its callers: dispatching threads and completion contexts with a program counter each. One action per access to shared memory: send, store of the status, check, settlement, count-down, finalization, push, release, recycling. |
| `DeviceSetup` | DriverEntry, McbaCreateDevice and EvtDevicePrepareHardware, step by step with every failure, and restarts of the device. A pipe is the number of the start that configured it. |
| `DevicePower` | Extends the write path and the set-up with the power thread: pipes, creation of the pool, the two firmware requests and their completion routine, every failure exit of D0Entry, queue stop, D0Exit. |
| `ReadQueue` | One file: `McbaRead`, `McbaAddCanMessageToFileReadQueue` split at its framework calls, the cancel callback, and the framework's request states. |
| `FrameQueue` | What that promises, in one page: a bounded queue that loses its oldest frames, counts them, and hands out the others in order. `ReadQueue` implements it (`ImplementsFrameQueue`). |
| `OpenFiles` | Create, cleanup, the list and its lock, the ReadLocks, the queue items all files share; a file's queue is only its length, and a read only its beginning, end and cancellation. |
| `BusReader` | Extends it with the completion routine of the continuous reader, on several processors: dispatch, FilesLock over a whole transfer, the walk along the list. |
| `CanCodec` | Pure operators: byte order, bit fields of a frame, its length, bit rates. No state. |
| `DeviceStatus` | Extends it with what keep-alive messages change, one action per access to shared memory, against the control codes. |
| `CanLoopback` | Extends that with frames that go from program to program through two drivers of either byte order, and from other senders. Frames and status share no state, so each behaviour follows one of them (`at`). |
| `CanCodecProofs` | The theorems about the last three. |
| `WritePathProofs`, `ReadQueueProofs`, `BusReaderProofs` | The theorems about writes, about a file's queue and about open files, each with its inductive invariant. |
| `DevicePowerProofs` | The theorems about set-up and power transitions; extends `WritePathProofs`, whose invariant it carries over. |
| `MC*` | Constants for TLC. |

Variables have the source's names (`FreeIndexEnd`, `Availabe`, `Pending`,
`PendingReadOffset`, ...). Variables without a counterpart are control state
(`stage`, `pc`, `local`, `power`, `adding`), the framework's state (`usb`, `wdf`),
or history that only properties read (`outcome`, `late`, `raced`, `outstanding`,
`result[r].waitedAt`, `log`, `torn`, `asked`, `certain`, `losses`, ...). Definitions
commented "Fault:" are not part of the specification: each is a plausible bug for
one definition, and shows that a property would notice it.

Abstractions: a message is a position in its batch and a frame its number of
arrival; a status is a Boolean; contents (except in `CanCodec` and `CanLoopback`,
where data bytes alone are left out) and trace output are left out. What a getter
returns is the value of the variable at that time. `Garbage` is what a new batch
header's statuses may be (memory the driver does not clear) and `Results` how a
transfer may end; where no report is in question a run takes one of each. `Reread`
stands for what the compiler makes of a field that one thread reads and another
writes without synchronization (`Queue.c` 761). A section under a spin lock is one
action when it makes no framework call. Completing a request right after unlocking
is part of the locked step where no other step can tell. In `OpenFiles` a section
under a ReadLock is two steps, since FilesLock is held around it, and taking
FilesLock to change the list is one step with the change. In `BusReader` a message
is a frame or not (`NoFrame`): `DeviceStatus` has the keep-alive messages. Of the
five statistics `RxLost` is kept, the only one of two bytes, whose order is
converted; the others are single bytes, added in the same way. A completion
routine's value that is stored and read again comes from memory or a register, as
the compiler likes (`CompareRate`, `ScaleRate`). A pool refuses more requests than
it has (`AllocRefused`, and `TakeAndPutBack` of `StartBatch`); with `Count = N >=
MaxAlloc`, as in the driver, writes do not meet that.

Environment: the framework's contract, marked external in `PROJECT.json`. In
particular `WdfRequestUnmarkCancelable` fails exactly if the cancel callback has
been or will be called; `WdfRequestMarkCancelableEx` of a cancelled request
fails and leads to no callback; `WdfIoTargetStop(..., WdfIoTargetCancelSentIo)`
returns after the completion routines of everything sent; D0Exit is called when
every request of the power-managed queue is completed and its dispatch has
returned; a failed D0Entry is final for the device object, as is a failed start. A
device keeps its endpoints over restarts: with fewer, McbaSelectInterfaces would
accept the pipe of the start before (`Device.c` 672). Cleanup of a file may find a
read waiting, or one still in its call. What the framework does with the mark of a request
that cleanup has completed is undefined: a frame or the callback may complete it again
(`pending` is then "twice"), or not.

## Runs

| Run | Result | What it shows |
|---|---|---|
| `pool` (3 679 states) | pass | Two allocating threads and a completion context, allocations of one to three from three; when callers wait for each other for ever they ask for too much (`DeadlockNeedsDemand`). |
| `write` (388 298) | pass | Two writes of one or two messages, two completion contexts, any outcome of each send and transfer. Includes that the write path implements `PoolSpec`. |
| `write_live` (226 994) | pass | Every write completes when the writes together cannot exhaust the pool (2 * (2 - 1) < 3). |
| `late_status` | `ReportIsTrue` violated | The status of a send is stored after the transfer's own, so a failed message is reported as sent. |
| `hold_and_wait` | `NoHoldAndWait` violated | Two batches as large as the pool wait for each other for ever. |
| `read` (437 608) | pass | Two reads in all modes, cancelled at any time, against five frames and a queue of two. Includes that the queue implements `FrameQueue`, and so counts what it loses. |
| `orphan` | `NoOrphan` violated | A read cancelled between unmark and re-mark is never completed. |
| `slots` | `SlotsFilled` violated | The offset of a waiting read is applied twice. |
| `power` (1 162 915) | pass | Creation and two starts, two entries into D0 around two users' writes of up to as many messages as the pool has requests (two). The device leaves D0 unless a read waits or the writes have locked each other out; D0Entry never takes part in that. |
| `failed_entry` | `StackWithinCount` violated | D0Entry deletes the requests while the first firmware request is in flight. |
| `bus` (4 659 086) | pass | Two transfers of up to two messages, two processors, two files that are opened, read and closed at any time, one queued frame each and two pages of one item. |
| `codec` (1 592 180) | pass | Frames with each address bit alone and around the borders of fields, all combinations of flags, every kind of length; other senders' messages with unused bits set; every bit rate, three keep-alive messages on two processors with losses that differ in their bytes' order, and clears at any time. |

Where the code breaks a property, a second one states how far it still holds and
is checked in the passing run: `ReportIsTrueUnlessLate`, `OwnedUnlessRaced`,
`SlotsFilledFromStart`, `RequestsOutliveUse`, `ReadLockExcludes` (outside `torn`),
`BitrateComesBack` (outside `rateRaced`), `DeadlockNeedsDemand` and
`PowerDownCompletes` (which names the deadlock of writes as the other end), and
`StatsBounded` (which says what is left of the sum). Some of these conditions show
hazards of the code no line of the repository speaks about:

- a frame that comes while a file is being opened can take the ReadLock before
  create initializes it (`Device.c` 725, 727), and a second thread then enters;
- two keep-alive messages handled at once can scale the rate twice
  (`Device.c` 1181-1188), and between store and scale `BITRATE_GET` returns it in
  kbit/s;
- a keep-alive message that meets STATS_CLEAR brings the cleared sum back, and of two
  that meet one may not be counted (`Device.c` 1191, `Queue.c` 373).

Three more disagreements can be shown by changing one line of a .cfg:
`WritePath.cfg` with `Reread = TRUE` violates `NoReuseInFlight` (a build that loads
the status again after storing it takes a failed transfer for a failed send);
`CallbackOwnsPending` as an INVARIANT of `ReadQueue.cfg` is violated (a frame that
meets a cancellation clears the pending read, against the assertion at
`Device.c` 1713); `NoReadAtCleanup` as a PROPERTY of `BusReader.cfg` is violated (the
last handle is closed while a read waits, against the assertion at `Device.c` 752).

Bounds. In `write` and `write_live` a pool of 3 with allocations of up to 2 has the
two cases that matter: callers contend (2 + 2 > 3) and cannot starve each other
(2 * (2 - 1) < 3); a pool as large as the largest allocation, as the driver's, is
one where they can (`pool`, `hold_and_wait`, `power`). In `power` the result of a
transfer and a new header's old statuses have one value each: they decide only
reports, which `write` checks with all values. A batch of 2 has a first and a last
message, and fails on either; two headers serve two batches, or one twice. Two
completion contexts are what two writes need to race to the last count-down. For
reads, a queue of 2 with items cut 2 from a page and 5 frames fills, overflows
and allocates again; a read of 3 takes some and waits for more than one frame, so
that it is marked again. Two entries into D0 show that a second one finds the
state the first exit left, two starts that the second one's pipes replace the
first's. In `bus`, two transfers of two messages on two processors are what it takes
to interleave broadcasts; two files, to be at different places of the list, and
one to go while the other stays; one queue place makes both a full queue and an
empty free list frequent. `MaxReports = 3` lets two messages race and a third one
heal, or a clear come between; losses of 1 and of 256 are each other's bytes swapped.

Symmetry is used only for safety properties, over sets of which the
specification treats all members alike.

Fairness. `WritePath`: each thread that can step does (the scheduler), and each
transfer completes (the USB stack completes or cancels every request). Arrival
of requests is not fair. `ReadQueue`: cancel callbacks and the reader's code go
on, but frames need never come and users need never cancel. `DevicePower`: the
power thread goes on as well; that the framework ever stops the device, and that
a frame ever ends the waiting read, are not assumed. `BusReader` and `CanLoopback`
are checked for safety only: no code in them waits for anything but a lock, and
`LocksHaveHolders` gives the order that excludes a cycle. Weak fairness is enough:
with it a thread waits for permits only while others hold them.
`CHECK_DEADLOCK` is off for `ReadQueue`, where all reads may be completed
and all frames have come, for `BusReader`, where all files may be closed and
all transfers done, and for `pool` and `power`, where callers may wait for each
other for ever: their properties say when.

## Proofs

`UsbRequestPoolProofs` proves, for every `N`, every `MaxAlloc <= N` and all finite
sets of threads, that `PoolSpec` implies `[]IInv` and from it every invariant of
the run `pool`.

`IInv` is `TypeOK`, `IndicesPartitioned` and `PermitsBackedByIndices` with two
parts they need to be inductive: `StageOK` (what `want` and `permits` may be in
each stage of a call) and `OffIsQuiescent` (nobody is inside the pool while it
does not exist, as its callers start and stop it only when it is not in use).

The argument: each free index is backed by exactly one permit, held by the semaphore
or by a thread. Permits are counted as a set of tokens, one pair `<<thread, k>>` for
each `k` up to the thread's `permits`, so a wait adds one token, a push adds `n`,
and a pop or release removes all of one thread; lemmas about cardinalities give the
sums. `PopWithinStack` follows because a caller's tokens are some of all,
`ReleaseWithinLimit` because the height is at most `N`. `DeadlockNeedsDemand` needs
no assumption on the sizes: when all wait for each other the semaphore is empty and
nothing is out, so all `N` permits are with callers, each short of at least one, and
are among those counted as their demand. With `MaxAlloc = N = 16` and parallel
dispatch, as in the driver, two writes can ask for that much; `hold_and_wait` shows
that they do lock each other out.

`CanCodecProofs` proves every property of the run `codec` for all 2^29 addresses,
every Dlc, every message another sender can put on the bus, any set of readers and
any number of keep-alive messages; the only assumptions are that the constants are
in the ranges of their fields (`LoopbackAssumption`, `StatusAssumption`). Three
invariants carry it:

- `FrameInv`: the frame and the message are proper, a message a program sent is
  `McbaFormatCanMessage` of its frame, and a frame that was read is one its receiver
  would read again (`Received(f) = f`). The last part is what makes
  `PassedOnUnchanged` hold also for messages with unused bits set. The codec itself is
  proved with it by taking an address apart into its three fields and a word into its
  two bytes: `WordArrives` and `FrameArrives` say what a pair of hosts makes of both.
- `RateInv`: unless two readers have met on the rate, the one that is between store
  and scale has memory and register to itself and both have the reported rate in
  kbit/s; when no one is, memory has it scaled. That, and that no rate of
  `MCBA_BITRATE` is lost in kbit/s (`RateComesBack`), gives `BitrateComesBack`, which
  alone says nothing of the step before it.
- `StatsInv`: the sum, and whatever a reader between load and store has loaded of it, is
  at least what readers that met nobody have added since the last clear and at most
  what all have added since a clear that met no reader; and of two readers between load and
  store each has noticed the other, so that neither counts as alone. The two bytes of
  a message mean the same on hosts of either order (`LossesRead`).

`WritePathProofs` proves every property of the run `write` for any finite sets of
callers, processors and headers and every `MaxAlloc <= N`. The assumption is
`~Reread`: that the compiled code checks the status it has just stored rather than load it
again (without it TLC refutes `NoReuseInFlight`, see above). `NothingLeaked`
also needs a caller: without one, nothing is finished and the pool may never have
been created. `WriteIInv` says

- of a thread, where it is in the pool and what it knows (`ThreadOK`, `StageMatches`);
- of a header, that one that is in use has a thread or a transfer that will see to
  it, and at most one thread that prepares, sends or ends it (`UseOK`); that
  `Pending` is what flies, what has still to be counted down and what is still to
  be sent (`PendingOK`); whose it is (`BatchOK`, `RequestsOK`); and that what flies
  has its place in it (`FlightOK`);
- of a USB request that is out of the pool, that it is in exactly one place: with a
  thread, with a standalone transfer, or at one position of one armed header
  (`PlacesOK`, `AllPlaced`, `AloneOK`, `SentFlies`);
- unless a status was stored late, that statuses and reports tell the truth
  (`StatusOK`, `ReportOK`).

The delicate part is a caller that has sent the last message and does not know yet
that the batch has ended, its header recycled and taken by another: `Sends` stops
with the last send, not with the loop. Exclusive headers alone are not inductive:
that the count-down ends a batch once follows only from the sum in `PendingOK`, and that
the indices read from a header are still its own only from `PlacesOK`. With
that, each step is one `UsbRequestPool` allows (`WritePathImplementsPool`), so what is
proved of the pool alone holds under the writes (`WriteDeadlockNeedsDemand`).

`ReadQueueProofs` proves every safety property of the run `read`, for any reads, any
number of frames and any limit, and that the queue implements `FrameQueue` step by
step. `IInv` adds to the properties what the driver's context says of the read that
waits (`PendingOK`: the count it needs, how far its buffer is filled), that the read
about to be completed is full (`CompletingOK`), what each framework state implies
(`RequestsOK`), and, until a frame has met a cancellation, who owns what
(`OwnersOK`). No lost wakeup (`WaitsOnlyWhenEmpty`) is inductive only with
`PendingOK`: a read waits for at least one more frame. `CompletedIsFinal` is proved
as an action property.

`BusReaderProofs` proves every property of the run `bus`, for any files, processors,
limits and transfers. `BusIInv` ties the list to the files' states (`ListOK`), the
holder of FilesLock to what it saw (`HolderOK`), the threads inside a file to the
step they are at (`InsideOK`), and the history to transfers: what was sent of one is
in one piece (`SentOK`), and each file's log is what was sent from the end of one
transfer on to where the walk is (`LogsOK`). `BroadcastWhole` follows only from the
last: of a walk that is under way, files behind it have the frame and those before
it do not.

`DevicePowerProofs` proves every safety property of the run `power`, for any users,
processors, headers, pool size and numbers of starts and entries, again assuming `~Reread`;
`ReadyInD0` needs only `SetupInvariant`, which follows the pipes through set-up. The
theorems about writes are not inherited from `WritePathProofs`: the power thread
creates and deletes the pool under them and sends requests of its own. So `WriteIInv`
has two parameters, the indices somebody else has (`apart`) and the threads whose time
in the pool is not a write's (`guests`); each lemma there holds for all of them, and
`WriteSpec` is the case of none. `PowerIInv` says

- that the writes' invariant holds with the power thread as guest and the firmware
  requests that are not sent yet apart (`WritesOK`, `ToSend`); those are out of the
  pool, not in flight and held by no other thread (`ToSendOK`);
- that before D0 and after it no thread works and nothing flies, but for at most one
  firmware request, in flight or being freed (`CalmOK`), with the counts and stages
  that go with it (`CountOK`, `PowerInPool`, `SentOK`);
- that the pool's own `IInv` holds, except after an entry that failed between the
  two firmware requests (`EntryFailed`). Then it does not, for D0Entry has deleted
  the pool under the first (`failed_entry`); what is left is that this request is
  the only one and finds an empty stack and room for its permits, so that types at
  least stay right (`StragglerOK`).

`CalmOK` is what makes deletion safe: D0Exit comes when writes are completed, but a
completed write's transfer may still be freeing its request, and only the stop of
the pipes ends that. From `PowerIInv` also follow, with every interleaving of power
and firmware requests and even after a failed entry, `NoReuseInFlight`,
`CompletedWhenSettled`, `ReportIsTrueUnlessLate` and `HeadersExclusive`, which the
run `write` checks for writes alone; and `DeadlockOnlyOfWrites`
(`PowerDeadlockOnlyOfWrites`) of the run `power`: the firmware's two requests are
taken while nobody else takes any, so a deadlock is one of writes, in D0 or while
its queues are stopped, whose demand is at least the pool.

Every safety property of every passing run is thus proved. Only model-checked: liveness
(`EveryWriteCompletes`, `CancelledReadCompletes`, `PowerDownCompletes`), which is beyond
the prover, and, in the runs that expect a violation, the violations.

## Not modelled

- The test program, a sequential client.
- What two unlocked changes of one list leave of it: cleanup empties a file's queue
  without its ReadLock, so a read still in its call may change it at the same time.
  `torn` marks these behaviours, and the properties about queue items leave them
  out. Of a read that cleanup completes only the driver's pointer is kept, and that
  it may be completed twice; what the second completion does to the framework is
  not.
- The removal of the device: the driver has no callback for it, and the pages of
  message buffers are then never freed.
- Trace output, time stamps (kept, never used to decide anything) and data bytes.

## Plan

Proofs that are left: a counterpart of `NothingLeaked` for a device that stays in
D0. `Finished` counts the power thread among the callers, so under `DevicePower` it
says nothing; what is proved there is `AllReturnedAtExit`.
