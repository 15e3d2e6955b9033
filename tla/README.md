# Verification of libfcd

libfcd is a C library for the FUNcube dongle, a USB radio receiver that is
controlled through HID reports.  It consists of its own request/response layer
(`lib/`), two programs (`src/`: `fcd`, which prints what the dongles report, and
`fcd-flash`, which reads, writes and verifies their firmware) and a bundled copy
of hidapi (`hidapi/`) with one implementation per operating system.  This
directory holds TLA+ models of its stateful parts, the TLC configurations that
check them, and proofs that TLAPS checks.

## Inventory

| component | its state | its operations | talks to |
|---|---|---|---|
| hidapi session, libusb (`hidapi/hid-libusb.c`) | handle, queue of input reports, one asynchronous transfer, flags `shutdown_thread` and `blocking`, mutex, condition, barrier, read thread | open, read (blocking, timed, non-blocking), write, feature reports, set nonblocking, close; the transfer's callback | libusb by calls and callbacks; clients' threads through mutex and condition |
| hidapi session, Mac OS X (`hidapi/hid-macosx.c`) | the same, with a run loop, a run loop source and `disconnected` instead of the transfer, and two barriers made of a mutex, a condition and a count | the same; callbacks for a report, for the removal, for the source | IOKit and CFRunLoop by calls and callbacks |
| hidapi session, Windows (`hidapi/hid-windows.c`) | handle, one overlapped read and its buffer, `read_pending` | the same, with no thread of its own | Win32 overlapped I/O |
| device enumeration and path search (all three; modelled for libusb) | the list of devices (a snapshot), libusb handles, claimed interfaces, the library's context | `hid_enumerate`, `hid_open`, `hid_open_path`, `hid_init`, `hid_exit` | the bus, the kernel's drivers, other processes |
| request/response layer (`lib/fcd_common.c`: `fcd_io`, `fcd_get`, `fcd_set`, `fcd_open`, `fcd_query`) | none beyond a path; a handle lives for one call | open, write a request, read one reply, compare its command and status, close | a hidapi session |
| discovery and reset (`lib/fcd_common.c`: `fcd_for_each`, `fcd_reset_*`) | a snapshot of paths | call a function on each; send a reset to each and sleep | enumeration, `fcd_io` |
| bootloader commands (`lib/fcd_bootloader.c`) | the loop's address; the address the dongle keeps | erase, set address, get range, read and write block, write and verify loops | `fcd_io` |
| application commands (`lib/fcd_application.c`) | none | range checks and little endian conversions around `fcd_io` | `fcd_io` |
| `fcd-flash` (`src/flash.c`) | requested actions, image, exit status | reset all to the bootloader, erase, write, verify, read each, reset back | all of the above |
| `fcd` (`src/main.c`) | none | print what each dongle reports | queries |

Hard behaviours, and what makes each component correct:

* **Sessions.** Clients, the read thread and callbacks share a queue and flags
  that are partly read and written without the mutex; handles are torn down while
  the device leaves.  Correct means: no reader sleeps through a report or the end
  of the read thread; reports come out in order, and only the oldest are lost; a
  read fails only when the device is gone; `hid_close` returns, and frees only
  what nobody else uses.
* **Flashing.** A dongle that fails, is unplugged, or answers with a nonsensical
  range in the middle of erase/write/verify; two addresses (the program's and the
  bootloader's) that must move together without ever being compared; unsigned
  arithmetic on an address range the dongle chose.  Correct means: the image
  buffer is never left, a dongle that is reported done holds the image, one that
  failed is the only damaged one and the exit status tells, and dongles end up
  back in their application.
* **Opening.** Several calls into libusb, each of which may fail, on a device that
  other processes try to open too and that may leave between any two of them, by
  a path that was made when the devices were listed.  Correct means: an open that
  fails leaves nothing open or claimed, a handle is on the device that was asked
  for, and an open nobody disturbs succeeds.
* **Requests.** A reply carries nothing but its command to match it with its
  request; `hid_read` has no timeout; a reset has no reply; numbers are cut to the width of
  a field on their way to the dongle.

PROJECT.json lists every component and every hazard at its line, with the
properties that cover it.

## Modules

| module | what it is |
|---|---|
| `HidChannel` | abstract: a bounded FIFO of reports that loses only the oldest, and whose reads fail only after the disconnect (and, unless `EagerErrors`, only once empty) |
| `HidLibusb` | one handle of `hid-libusb.c`; implements `HidChannel` |
| `HidLibusbProofs` | its theorems |
| `HidMac` | one handle of `hid-macosx.c`; implements `HidChannel` with `EagerErrors` |
| `HidMacProofs` | its theorems |
| `ReportRuns` | lemmas about queues of reports that `HidLibusbProofs` and `HidMacProofs` share |
| `HidWindows` | one handle of `hid-windows.c` and the driver's side of it |
| `HidWindowsProofs` | its theorems |
| `HidTree` | `hid_enumerate`, `hid_open`, `hid_open_path`, `hid_close` of `hid-libusb.c` and their callers, by several processes on several devices |
| `HidTreeProofs` | its theorems |
| `FcdDongle` | abstract: a dongle as a set of registers that hold numbers, each call carried out at most once and answered at most once |
| `FcdIo` | the calls of `fcd_application.c` through `fcd_io`, `fcd_open`, `fcd_close`, by several programs on one dongle; implements `FcdDongle` |
| `FcdIoProofs` | its theorems |
| `FcdFlash` | `fcd-flash` with `fcd_for_each`, the resets and the bootloader commands, over several dongles |
| `FcdFlashProofs` | its theorems |
| `MCHidLibusb`, `MCHidTree`, `MCFcdIo`, `MCFcdFlash` | instances for TLC: symmetry, devices and buses, arguments, address ranges |

### HidLibusb

`pc[c]` is a client thread's place in the hid_* call it makes, `rpc` the read
thread's, `cb` that of the running `read_callback`, which runs on whichever thread
handles libusb's events: the read thread, or a client inside the synchronous
transfer of `hid_write`.  `transfer` is what libusb knows of the one input
transfer.  A critical section of `dev->mutex` that does not wait is one step,
since nothing it touches is seen by others without the mutex, apart from
`shutdown_thread`, which no such section writes.  The reader's section that does
wait is split between the tests and `pthread_cond_wait` (`pc = "wait"` holds the
mutex), which is where wakeups get lost.  A report is its number; `taken` counts
those a transfer received and `got` is the number handed out last, so "in order"
and "nothing repeated" are statements about numbers.  libusb's part (who may
handle events, when a cancellation fails, what completions exist) is modelled
from how the code calls it and marked external in the map.

The faults are a constant: `create` (pthread_create fails), `submit`, `transfer`,
`interrupt` (libusb_handle_events comes back with nothing done) and `fatal` (it
fails in a way the loop does not tolerate).  Unplugging and replugging, spurious
wakeups, expired timeouts and libusb's 5 s transfer timeout are always there.

### HidMac

The same design with `rpc` following the run loop: `"run"` is inside
CFRunLoopRunInMode, where `Report`, `RemovalCallback` and `SignalCallback` are the
callbacks it can make; `"report"` is inside `hid_report_callback` before the
mutex.  The two barriers are modelled by what the code does, `count[b]` and a wait
without a loop, and not as barriers; the fault `spurious` wakes up such a wait.
Who wakes up so goes on without the other thread: `hid_close` may then find
`dev->source` and `dev->run_loop` still NULL (`HidCloseCrash`, `CloseCrash`), signal a
source whose loop has ended, which loses the signal, or wake up a run loop that is
gone.
`hid_close` takes the device off the run loop in its first step, so `Scheduled`
follows from `session`.  Differences from libusb that the model shows: every
report is signalled (`OneAwakePerReport` holds here and would not hold there), a
woken reader looks at the flags before the queue, and a removal ends every read.

### HidWindows

The handle has neither a thread nor a lock, so one thread calls and `pc` is its
place; what runs beside it is the driver.  `io`, `buf` and `event` are the
OVERLAPPED structure, the buffer and the auto-reset event that outlive a read that
timed out, and `read_pending` is what the next read believes of them.  `Held` is
everything on its way to the caller: the report fetched and not picked up, and the
driver's ring (external, 32 reports, the oldest is pushed out).  A report that a
timed out read has fetched is safe from the ring's overflow, so this handle may
lose the second oldest report and does not implement `HidChannel`; `Accounted` says
what it does promise.

### HidTree

`HidLibusb` begins with a handle; `HidTree` is how one comes to be.  An opener is a
process.  Its `pc` is idle, between two callbacks of `fcd_for_each` (`"each"`), in
one of the calls of `hid_open_path` that other processes can come between
(`libusb_open`, the test for a kernel driver, its detachment, the claim), or it has
the handle (`"open"`) or the NULL (`"null"`) that call returned.  `opened`, `claims`
and `threads` count what an opener owns in the kernel and in libusb, `drivers` is
where a kernel driver is bound.  `hid_enumerate` is one step: it changes nothing
that others see, and a device that leaves meanwhile is one that cannot be opened
(`denied`).  It may also fail as a whole (`Failed`), which its callers cannot tell
from an empty bus; `hid_open_path` does not test for that failure and walks an
uninitialized pointer (`NoDeviceList`).  A path is what `make_path` makes of a bus
address and an interface.  Any free address may be given to any device that comes, so
a path goes stale and may come to name another device, which `hid_open_path` opens
without notice; `gone` says that the handle being opened, or open, is one of a device
that has left, whoever has its address now.  Between the choice of a record in
`hid_open` and the opening of its path (`"found"`) the bus may change.  The callers are `hid_open`, `fcd_open` with
and without a path, `fcd_io`, which opens its path for every request, and
`fcd_for_each`.  `steady` and `calm` are history variables: the addresses
whose device was seen by the enumeration and has not left since, and that nobody
interfered with an opening.  A libusb that tells usbfs from a kernel driver is
assumed, as those since 2012 do.

A HID interface has one setting (`ConstantsAssumption`, true of the dongles).  Without it the code is wrong: the walk goes on after a match, the
second setting has the same path, `libusb_open` overwrites the handle in use, the
claim fails, and `hid_open_path` returns NULL and leaves a claimed interface and a
read thread on a freed `hid_device` (hazard `hid-libusb.c:795`; with two settings of
one interface in `MCHidTree` and without the assumption `NullLeavesNothing` fails).

### FcdIo

Each program is at most inside one call of `fcd_open` or of `fcd_application.c`
(`Set` and `Get` begin one, `Rejected` is one that ends before `fcd_io`; `Open`,
`Write`, `Read`, `Close` are the steps of `fcd_io`, each a hid_* call).  What a
caller passes is a tuple of numbers.  `Correction` is the structure
`fcd_application.c` fills, whose fields cut numbers to 16 bits, `Overflow` its
comparison with the arguments, `Words` what crosses the bus and `Numbers` what a
reply is turned into; `Given` is what `fcd_set_bias_tee` makes of its argument.
`Half` stands for 2^15.  The little endian conversion changes nothing on a little
endian host, and its 32 bit branch for others does not compile (a parenthesis is
missing), so it is left out.  A handle is exclusive while it lasts (the interface is
claimed under libusb, seized under Mac OS X, not shared for writing under Windows).
The dongle has room for one request and one reply, and both outlive the program
that sent the request: that is where replies left over come from.  Faults: the
dongle refuses (status 0), `hid_write` times out although the dongle has or gets the
request, a program is killed, the dongle is unplugged.  `FcdDongle` says the same
of the callers' numbers, without words, replies and handles: `Set`, `Get`, `Effect`,
`Refusal`, `Reject`, `Succeed`, `Fail`, `Restart`, `Lose` and `Replug` are what a
caller may conclude.

### FcdFlash

The program is one thread; `ForEach` walks the snapshot `Enumerate` took, `Open`
to `VerifyBlock` are `funcube_flash` and the loops of `fcd_bootloader.c`, and a
dongle is its mode (`application`, `bootloader`, or on its way back to the bus)
with its flash contents and its own address.  `fcd_io` is one step with the
outcomes the callers can tell apart, and the one they cannot: carried out, but the
reply lost (`NotCarriedOut`, `Replies`).  Addresses are unsigned ints modulo
`Word`; the file size may exceed `Word`, and `SizeArg` is what `unsigned int size`
keeps of it.  The data of a block is the offset it has in the image, all the
properties need.

The fault `fcd` is the other program of the repository, run at the wrong moment:
while it has a dongle open the calls of `fcd-flash` on that dongle fail (`Fails`),
and in between it sets the bootloader's address and reads a block itself
(`FcdSetsAddress`, `FcdReadsBlock`), which moves the pointer `fcd-flash` relies on.
fcd_common.c:84 knows of it ("simultaneously open devices are not entirely process
safe").  `Alone` is the absence of this fault.  `PointerInStep`,
`PassedIsProgrammed` and `OneAtATime` need it: with `fcd` about, blocks land in the
wrong place and the program cannot tell.  `PassedHasAllBlocks`, the bounds and the
termination do not.

## What the runs check

Passing runs (every property has a mutant of the code that breaks it):

* `libusb_session`: `TypeOK`; `NoSleeperLeft` (after the read thread's last
  broadcast nobody sleeps), `QueueIsNewestRun` (order, no repetition, only the
  oldest lost), `OpenIsReady` (the startup barrier),
  `FreeIsExclusive` (hid_close frees what nobody uses), and the refinement
  `ImplementsChannel`.  Two clients, three reports, `QLimit` 0, failing
  submissions and transfers, interrupted event handling.
* `libusb_live`: `CloseReturns`, `ReadReturns` under `FairSpec`, with fatal event
  errors and failing thread creation, too.
* `mac`: the same safety questions for Mac OS X, with `OneAwakePerReport`,
  `RunLoopAlive` (when hid_close signals and wakes up the run loop, its thread is
  there, unless a spurious wakeup let one of the two pass a barrier alone), and
  `ImplementsChannel`; and `CloseReturns`, `DisconnectEndsRead` under `FairSpec`.
  Barriers may wake up spuriously throughout; `CloseReturns` says that `hid_close` then
  returns or crashes, and never hangs.
* `windows`: `TypeOK`; `Accounted` (every report is returned once, on its way, or
  dropped by the driver, and in order), `ZeroMeansNothing` (a timed read says "no
  data" only when nothing is there to pick up), `ReadReturns` under `FairSpec`.
* `tree`: `TypeOK`; `NullLeavesNothing` (whatever fails, an opener without a handle
  has nothing open, claimed or running), `HandleIsPath` (a handle is on the
  interface its path names, and has the claim to it), `AskedFor` (it is a device of
  the product and serial number asked for, as long as the device listed at that
  address has not left), `AloneSucceeds` (NULL only for a reason), `VisitsAll`
  (`fcd_for_each` leaves out no dongle that was listed and stays, not even one it has
  no right to open).
* `io`: `TypeOK`; `OwnReply` (a call that succeeds got the reply to its own
  request, as long as no call has been given up on), `ImplementsDongle` (with calls
  given up on, the dongle is still a set of registers, answered late; numbers out of
  range are refused, and those that are set are those that are got), `CallReturns`
  under `FairSpec`.
* `flash`: `TypeOK`, `InBounds` (no block access past the image), `PointerInStep`
  (program and bootloader address agree whenever a block is transferred),
  `PassedIsProgrammed` (a dongle the program reports as done holds the whole
  image), `OneAtATime` (at most one dongle is half flashed, and then the exit
  status is a failure).
* `flash_restart`: `Restarted` (with `-r` and working resets, every dongle still on
  the bus is back in its application when the program ends, after a failure
  too), `PassedHasAllBlocks` (a dongle the program reports as done was written in
  every block of the range, even if `fcd` moved some of them) and `Terminates`, all
  of them with `fcd` run at any moment.

Violation runs, each a disagreement of the code with its own words (details under
"findings" in PROJECT.json):

* `libusb_join`: hid_close and the read thread cancel the same transfer, the loser
  does not wait for the completion, and a transfer in flight is freed.
* `libusb_unplug`: a device that leaves before the first submission leaves a
  blocking read asleep.
* `libusb_signal`: two reports in quick succession wake up one of two sleeping
  readers; the other sleeps on beside the second report (`WaitsForData`).
* `libusb_limit`: the queue keeps two reports more than the 30 of its comment
  (`WithinLimit`; `hid-macosx.c` has the same comment and the same test).  The capacity
  of `HidChannel` is what the code does, `QLimit + 2`.

Four findings have no run of their own.  `fcd_get_value` succeeds and leaves the
caller's variable as it was (`GetStores`, which `GetsStore` proves of every other get).
A path does not identify a device once its address may have been given to another one,
and `fcd_for_each` returns 0 when the devices could not be listed: the conditions in
`AskedFor` and `VisitsAll` are there for these two.

The fourth is left as an assumption of the model: a fatal error of
`libusb_handle_events` ends the read thread without setting `shutdown_thread`, so the
broadcast that ends it wakes readers that go back to sleep for ever.  With `fatal`
in `Faults` TLC finds `NoSleeperLeft` violated; `libusb_session` and the theorem
`NoSleeper` exclude it, and `ReadReturns` excuses it by name (`GaveUp`).

### Bounds, and why they are enough

`MaxReports` (3 or 4; 1 or 2 for liveness) with `QLimit` 0 lets the queue reach its
capacity `QLimit + 2` and overflow; the limit is only ever compared with a length,
so the value 30 adds states and no case.  Two clients give every race between two
readers, a reader and a writer, a reader and a closer; the proofs lift what the runs say of
readers to any number.  Sessions are not bounded: a handle is
closed and opened again as often as TLC likes.  The flash runs have two dongles
(the first may fail before, while or after the other is worked on) and image sizes
of two blocks and a bit and of more than the range; `Word` is 160 so that a
file size and an address range wrap within a few blocks; ranges include empty,
reversed and full ones and one that is no multiple of a block long.  `flash_restart`
has a range of two blocks and one that is no multiple of 48 bytes long and wraps
(`Word` is 144), a file that is larger, and the two programs interleaved; every call
may find the dongle in use, or be carried out and lose its reply.  Dongles are
pulled in `flash` only: here a dongle that is gone would answer as one in use does.  The `windows` run sends four reports to a ring of two:
one in the buffer, two in the ring, one too many.  The `io` run has two programs and
`MaxCalls` 3: a call that is given up on, one that meets what it left, and one of the
other program; one register with two values, since replies are matched by command
alone; with `Half` 1 a 16 bit field holds -1 and 0, or 0 and 1, and `WordArgs` has
arguments in range and ones out of range in either place.  The `tree` run has two
processes that race for the same paths, a dongle with two HID interfaces and a
device of another product and serial number, one of whose paths differs from one of the
dongle's in the bus only; a device that leaves may come back at either address, the
one the other device had before among them.
All sets are small because every further element repeats a case: the proofs below
lift the safety results of every passing run to all values.

### Fairness

Nothing obliges a client to call, a device to send, a wakeup to be spurious, a
transfer or the run loop's 1000 s to expire.  `HidLibusb!FairSpec` asks that a
thread inside a call takes its next step and gets the mutex it competes for (the
scheduler and the mutex are fair enough, strong fairness since a mutex is taken
away again), that a deadline passes, and that an event that is pending whenever
`libusb_handle_events` is called is handled.  `HidMac!FairSpec` asks the same of
its threads and that the run loop makes the callback of what is pending; it gives
no fairness to the 1000 s, so that `CloseReturns` says that the signalled source
really stops the loop.  `HidWindows!FairSpec` asks that the caller goes on inside a read,
that a deadline passes and that the driver fails the pending read of a device that
is gone.  `FcdIo!FairSpec` asks that programs inside a call go on and that the dongle
carries out the requests it has, since `hid_read` waits for it without a timeout.
`FcdFlash!FairSpec` asks that the program goes on and that `fcd_io` returns.

## What is proved

`HidLibusbProofs` proves for any set of clients, any number of reports, any limit
and any faults:

* `TypeCorrect`, `QueueOrder`, `Ready` and `ExclusiveFree`: `Spec => []TypeOK`,
  `[]QueueIsNewestRun`, `[]OpenIsReady`, `[]FreeIsExclusive`;
* `NoSleeper`: `"fatal" \notin Faults` gives `Spec => []NoSleeperLeft` (the
  assumption is needed, see above);
* `Refinement`: `Spec => ImplementsChannel`.

None of these is inductive alone.  Their conjunction with what carries them is:
`PhaseInv` ties the four phases of a handle to the places of its threads (and
makes opening and closing exclusive), `CallbackInv` says a callback runs only on
a thread that handles events and with its transfer idle, `ShutdownInv` that a
device seen to be gone delivers nothing more, `QueueInv` keeps the counters, the
queue and the capacity in step, and `EndInv` that the read thread ends with a shutdown to show and
nobody asleep.  The refinement has one step per action: `QueueReport` is `Arrive`
(or `ArriveTooLate` while the handle closes), a step that sets `shutdown_thread`
is `Disconnect`, the three outcomes of a read are the three read actions, all the
others stutter.

`FcdFlashProofs` proves for any dongles, ranges, sizes, word width and faults:
`TypeCorrect`, `BlocksInBounds` and `VerifiedHasAllBlocks` (`[]PassedHasAllBlocks`),
and under the assumption `Alone` `PointersInStep`, `PassedHoldsImage` and
`OneDongleAtATime`. The parts of the inductive invariant: `PlaceInv` (what the
program's place says of the list and the current dongle), `RangeInv` (a range that
passed the checks fits the image, which is why the unsigned loop cannot wrap),
`LoopInv` (where the program's address is in a loop) and `VerifyInv` (what has been
verified by then), and, if `Alone`, `BlockInv` (during the loops the dongle's address
is the program's and what lies below it is written or verified) and `WholeInv` (every
dongle other than the current one is whole, or the program has failed).

`HidMacProofs` proves for any finite set of clients, any number of reports, any limit
and any faults (the spurious wakeups of the barriers among them): `TypeCorrect`,
`NoSleeper` (`[]NoSleeperLeft`), `AwakeForEach` (`[]OneAwakePerReport`), `QueueOrder`
(`[]QueueIsNewestRun`) and `Refinement` (`ImplementsChannel`). The parts of the
invariant have the tasks of those of `HidLibusb`: `PhaseInv`, `EndInv` and `QueueInv`;
`WaitInv` says that one goes to sleep only on an empty queue, `FlagInv` that the run
loop has stopped for a reason the readers can see, which is why, unlike under libusb,
`NoSleeper` needs no hypothesis. `OneAwakePerReport` counts: it compares the number of
readers on their way with the length of the queue, so its proof follows both through
each signal, timeout and wakeup (`OneMore`, `OneLess`), and needs the set of clients
to be finite. `RunLoopThere` (`[]RunLoopAlive`) assumes `"spurious" \notin Faults`
(what it says with them, the `mac` run checks). It rests on `MeetInv`: `count` is 1
exactly while one of the two threads sleeps at the barrier, so they meet.

`FcdFlashProofs` also proves `RestartsAll` (`[]Restarted`) under `"slow" \notin Faults`: a
dongle that reconnects after the program's delay is not in the list that `-r` goes
through.  `RestartInv` carries it: no dongle is between its modes while dongles are
flashed, and after that every dongle in its bootloader is still to be restarted, or
its request was missed.

`FcdIoProofs` proves for any programs, any number of calls, any registers, arguments and
width of a word, and any faults: `TypeCorrect` and `Own` (`[]OwnReply`), and, under
`ByteValues = {}`, `Refinement` (`ImplementsDongle`) and `GetsStore` (`GetStores`).
`ByteValues` are the registers that are got with `fcd_get_value`, whose callers get
nothing; both are false with one.  `OwnReply` is about a
reply that carries nothing to match it with, so the invariant must account for all
that is on its way: `OwnerInv` says whose the handle is and that nothing is kept for a
handle without a dongle, `NumberInv` that a request is in one place at a time (with its
program, in the dongle, or answered and on its way back), `TurnInv` that write and
read alternate as long as no call is given up, `ResultInv` that a result of 0 means
a valid reply.  `CallInv` and `WordsInv` say which numbers a request may carry and how
many words each register takes.  The refinement needs, besides, that a number in its
documented range is not changed by the cut to 16 bits, the wire and the two's
complement (`SignedTrip`, `UnsignedTrip`, `RoundTrip`), and that the comparison in
`fcd_application.c` lets no other numbers pass (`InRange`).  The abstract dongle's
registers are the numbers the words stand for (`Holding`); its answers are the replies in
the dongle, in the handle's transfer, and with a program that has read one and not
yet returned (`Answers`); its undone requests are those in the dongle, whether or not the
caller still waits, and those not yet written (`Undone`).

`HidWindowsProofs` proves for any ring and any number of reports `TypeCorrect`,
`ReportsAccounted` (`[]Accounted`) and `NoDataMeansNothing` (`ZeroMeansNothing`).
`Accounted` is not inductive: `PlaceInv` says that a call that waits has a read to wait
for, `ReadInv` that a read is pending only while the ring is empty, `EventInv` that
the event is set exactly when the read is over, until a call takes the signal;
`OrderInv` and `PartInv` are `Accounted` itself, said of the buffer and the ring one by
one (`InvImpliesAccounted` puts them together).

`HidTreeProofs` proves for any processes, devices, buses and interfaces all six
invariants of the `tree` run: `TypeCorrect`, `NothingIsLeft`, `HandleFits`,
`OpensAskedFor`, `AloneIsEnough` and `AllVisited`.  The invariant is said of one
opener (`OpenerInv`): `SearchInv` that every path it knows, whether kept, still to
visit or being opened, names an interface of a device that fits what was asked for as
long as its address is `steady` (`Fits`; an address that loses its device ceases to be, so
it does not matter who is given it next), `WalkInv` what the walk has yet to see, `HoldInv` what it owns at each place,
`CalmInv` what it may rely on while nobody disturbs it, and `VisitInv` that what was
there all the time is visited or still to be.  `Frame` is what a step of one opener
leaves to the others: at most it detaches a driver from the path it is opening.
`FrameKeeps` shows once that this is enough for theirs, so each action is proved for
its own opener only.  `AloneIsEnough` is the one that looks at two openers: a claim
in the way belongs to somebody who is busy with the same path (`CalmIsFree`).

The assumptions are the named ASSUMEs of the modules: numbers are naturals, fault
sets are subsets, there is a client (under Mac OS X, finitely many), the arguments of
the calls are of the types `fcd.h` declares (two integers for a correction, one unsigned
number for the rest).  TLC evaluates them in
every run.

Only model-checked: the liveness properties `CloseReturns`, `ReadReturns`,
`DisconnectEndsRead`, `CallReturns` and `Terminates` (liveness under fairness and ENABLED
are out of the prover's reach).  Every invariant, refinement and action property of a
passing run is a theorem, some under the hypotheses given above.  Induction over data and
recursive operators are avoided in the modules.

## What is not modelled

* String descriptors, locale conversion, `hid_error`, report descriptors
  (`get_usage`): text handling without state of its own.
* The contents of a report, and results of writes: the session moves them
  unchanged.
* A second handle on the same libusb context: its read thread may run our
  callbacks, as the clients' threads of the model already do.
* What `fcd` (`src/main.c`) prints, and its exit status; option parsing and messages
  of `fcd-flash`.
* `hid_exit`, the `hid_device` that `hid_open_path` leaks when `hid_init` fails
  (`hid-libusb.c:789-792`), and the kernel driver it detaches and never re-attaches.
* What a failed `hid_open_path` of `hid-windows.c` leaks (the event, the error string).
* Memory allocation failures: the code does not test for them, nor does the
  model have them.
* The Mac OS X main run loop, to which hid_close hands the device, and
  whatever callbacks come after the handle is freed.
* What a callback, or a driver with a cancelled read, does with a handle after
  `hid_close` has freed it (`hid-windows.c:786`, `hid-macosx.c:1016`): the answer is
  in the operating system, not in `src/`.
* Lengths of requests and replies, and the byte order of another host.

## Plan

Done in this order: `HidLibusb` with `HidChannel`, its proofs, `FcdFlash`, its
proofs, `HidMac`, `FcdIo` with `FcdDongle`, `HidWindows`, the application layer in
`FcdIo`, `fcd` beside `fcd-flash`, `HidTree`, the proofs about `HidWindows`,
`HidTree`, `HidMac` and `FcdIo`, and `Restarted`.  Next:

1. Properties of steps, as theorems: what a read may return and when (`HidMac`,
   `HidWindows`), which block `fcd-flash` may touch next.
2. An abstract handle that `HidWindows` implements, too: a channel that may lose
   the second oldest report.
3. Two handles on one libusb context: the read thread of one as a host of the
   other's callbacks.
