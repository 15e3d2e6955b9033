------------------------------- MODULE HidMac -------------------------------
(***************************************************************************)
(* One HID device handle of hidapi/hid-macosx.c: the threads that open,    *)
(* read and close it, the read thread that runs the handle's run loop, the *)
(* callbacks that loop makes, the two hand-made barriers and the device.   *)
(* A step is what a thread does between two points where another thread    *)
(* can see a difference.                                                   *)
(*                                                                         *)
(* A report is its number in the order the device sent it.  hid_write and  *)
(* the feature reports change nothing of this state and are left out.      *)
(***************************************************************************)
EXTENDS Integers, Sequences, FiniteSets

CONSTANTS Clients,      \* threads that call the API on the handle
          MaxReports,   \* bound: reports the device sends
          QLimit,       \* the 30 of hid_report_callback
          Faults        \* which of AllFaults may happen

AllFaults == {"create",     \* pthread_create fails
              "spurious",   \* a wait of a barrier wakes up spuriously
              "finished"}   \* CFRunLoopRunInMode has nothing left to run

ASSUME MacAssumption ==
  /\ MaxReports \in Nat
  /\ QLimit \in Nat
  /\ Faults \subseteq AllFaults
  /\ Clients # {} /\ IsFiniteSet(Clients)

VARIABLES
  session,          \* the handle: "closed", "opening", "open" or "closing"; or
                    \* "crashed", and the program with it
  pc,               \* pc[c]: where client c is
  ms,               \* ms[c]: the milliseconds argument of c's read
  ret,              \* what the latest read returned (-1, 0 or a report), 0
                    \* once another has begun
  got,              \* the report handed out last
  rpc,              \* where the read thread is
  count,            \* count of dev->barrier and of dev->shutdown_barrier
  signalled,        \* dev->source is signalled
  input_reports,    \* dev->input_reports
  shutdown_thread,  \* dev->shutdown_thread
  disconnected,     \* dev->disconnected
  blocking,         \* dev->blocking
  plugged,          \* the device of this handle is there
  sent,             \* reports 1..sent were sent by the device
  taken             \* reports 1..taken were given to hid_report_callback

readVars == <<ms, ret, got>>
flagVars == <<shutdown_thread, disconnected, blocking>>
deviceVars == <<plugged, sent>>
vars == <<session, pc, readVars, rpc, count, signalled, input_reports,
          flagVars, deviceVars, taken>>

\* What a step leaves alone that moves one thread and does nothing else.
OnlyPc == UNCHANGED <<session, readVars, rpc, count, signalled, input_reports,
                      flagVars, deviceVars, taken>>
OnlyRpc == UNCHANGED <<session, pc, readVars, count, signalled, input_reports,
                       flagVars, deviceVars, taken>>

Reading(c) == pc[c] \in {"lock", "wait", "asleep", "woken", "expired"}

Barriers == {"start", "shutdown"}

TypeOK ==
  /\ session \in {"closed", "opening", "open", "closing", "crashed"}
  /\ pc \in [Clients -> {"idle", "start", "startWait", "lock", "wait", "asleep",
                         "woken", "expired", "signal", "wakeup", "shutdown",
                         "shutdownWait", "join", "free", "crashed"}]
  /\ ms \in [Clients -> {-1, 0, 1}]
  /\ ret \in -1..MaxReports
  /\ rpc \in {"none", "setup", "start", "startWait", "loop", "run", "report",
              "stopped", "wake", "shutdown", "shutdownWait", "ending",
              "done"}
  /\ count \in [Barriers -> 0..1]
  /\ input_reports \in Seq(1..MaxReports)
  /\ signalled \in BOOLEAN /\ shutdown_thread \in BOOLEAN
  /\ disconnected \in BOOLEAN /\ blocking \in BOOLEAN /\ plugged \in BOOLEAN
  /\ sent \in 0..MaxReports /\ taken \in 0..MaxReports /\ got \in 0..MaxReports

Init ==
  /\ session = "closed"
  /\ pc = [c \in Clients |-> "idle"]
  /\ ms = [c \in Clients |-> 0] /\ ret = 0 /\ got = 0
  /\ rpc = "none"
  /\ count = [b \in Barriers |-> 0]
  /\ input_reports = <<>>
  /\ signalled = FALSE /\ shutdown_thread = FALSE /\ disconnected = FALSE
  /\ blocking = TRUE /\ plugged = TRUE
  /\ sent = 0 /\ taken = 0

----------------------------------------------------------------------------
(* dev->mutex and dev->condition: the mutex is held from one step to the   *)
(* next only between the tests and pthread_cond_wait.                      *)

MutexFree == \A c \in Clients : pc[c] # "wait"

Asleep == {c \in Clients : pc[c] = "asleep"}

Wake(S) == pc' = [c \in Clients |-> IF c \in S THEN "woken" ELSE pc[c]]

\* pthread_cond_signal
Signal == IF Asleep = {} THEN UNCHANGED pc ELSE \E c \in Asleep : Wake({c})

----------------------------------------------------------------------------
(* pthread_barrier_wait, made of a mutex, a condition and a count.  Its    *)
(* wait is not in a loop, so a spurious wakeup passes the barrier.         *)

Sleep == [start |-> "startWait", shutdown |-> "shutdownWait"]
ClientAfter == [start |-> "idle", shutdown |-> "join"]
ReaderAfter == [start |-> "loop", shutdown |-> "ending"]

\* hid_open_path returns the handle when its thread has passed the barrier.
SessionAfter(b) == IF b = "start" THEN "open" ELSE session

\* The first to come sleeps, the second wakes it up and both go on.
ClientBarrier(c, b) ==
  /\ pc[c] = b
  /\ \/ /\ count[b] = 0
        /\ count' = [count EXCEPT ![b] = 1]
        /\ pc' = [pc EXCEPT ![c] = Sleep[b]]
        /\ UNCHANGED <<session, rpc>>
     \/ /\ count[b] = 1
        /\ count' = [count EXCEPT ![b] = 0]
        /\ pc' = [pc EXCEPT ![c] = ClientAfter[b]]
        /\ rpc' = IF rpc = Sleep[b] THEN ReaderAfter[b] ELSE rpc
        /\ session' = SessionAfter(b)
  /\ UNCHANGED <<readVars, signalled, input_reports, flagVars, deviceVars, taken>>

\* Mutant: the count is not set back to 0.
ReaderBarrier_NoReset(b) ==
  /\ rpc = b
  /\ count' = [count EXCEPT ![b] = count[b] + 1]
  /\ \/ count[b] = 0 /\ rpc' = Sleep[b] /\ UNCHANGED <<session, pc>>
     \/ /\ count[b] # 0
        /\ rpc' = ReaderAfter[b]
        /\ pc' = [c \in Clients |->
                    IF pc[c] = Sleep[b] THEN ClientAfter[b] ELSE pc[c]]
        /\ session' = SessionAfter(b)
  /\ UNCHANGED <<readVars, signalled, input_reports, flagVars, deviceVars, taken>>

ReaderBarrier(b) ==
  /\ rpc = b
  /\ \/ /\ count[b] = 0
        /\ count' = [count EXCEPT ![b] = 1]
        /\ rpc' = Sleep[b]
        /\ UNCHANGED <<session, pc>>
     \/ /\ count[b] = 1
        /\ count' = [count EXCEPT ![b] = 0]
        /\ rpc' = ReaderAfter[b]
        /\ pc' = [c \in Clients |->
                    IF pc[c] = Sleep[b] THEN ClientAfter[b] ELSE pc[c]]
        /\ session' = IF \E c \in Clients : pc[c] = Sleep[b]
                      THEN SessionAfter(b) ELSE session
  /\ UNCHANGED <<readVars, signalled, input_reports, flagVars, deviceVars, taken>>

\* Who wakes up spuriously goes on and leaves its arrival counted.
SpuriousClient(c, b) ==
  /\ "spurious" \in Faults /\ pc[c] = Sleep[b]
  /\ pc' = [pc EXCEPT ![c] = ClientAfter[b]]
  /\ session' = SessionAfter(b)
  /\ UNCHANGED <<readVars, rpc, count, signalled, input_reports, flagVars,
                 deviceVars, taken>>

SpuriousReader(b) ==
  /\ "spurious" \in Faults /\ rpc = Sleep[b]
  /\ rpc' = ReaderAfter[b]
  /\ OnlyRpc

\* One thread has passed the barrier so, and the other has yet to come.
Skipped(b) ==
  count[b] = 1 /\ rpc # Sleep[b] /\ \A c \in Clients : pc[c] # Sleep[b]

----------------------------------------------------------------------------
(* hid_open_path, on the path whose device it can open.                    *)

Open(c) ==
  /\ session = "closed" /\ plugged
  /\ session' = "opening"
  /\ pc' = [pc EXCEPT ![c] = "start"]
  /\ \/ rpc' = "setup"
     \/ "create" \in Faults /\ rpc' = "none"
  /\ count' = [b \in Barriers |-> 0]
  /\ signalled' = FALSE /\ shutdown_thread' = FALSE
  /\ disconnected' = FALSE /\ blocking' = TRUE
  /\ UNCHANGED <<readVars, input_reports, deviceVars, taken>>

----------------------------------------------------------------------------
(* The read thread, and the callbacks of its run loop.                     *)

\* The device and the source join the run loop, and dev->run_loop is set.
ReadThreadStart ==
  /\ rpc = "setup" /\ rpc' = "start"
  /\ OnlyRpc

Loop ==
  /\ rpc = "loop"
  /\ rpc' = IF shutdown_thread \/ disconnected THEN "wake" ELSE "run"
  /\ OnlyRpc

\* hid_close takes the device off the run loop in its first step.  (A read
\* thread that starts only after that, which takes a spurious wakeup of the
\* opener, would put it back.)
Scheduled == session # "closing"

\* hid_report_callback is called, and takes the mutex.
Report ==
  /\ rpc = "run" /\ Scheduled /\ taken < sent
  /\ rpc' = "report"
  /\ taken' = taken + 1
  /\ UNCHANGED <<session, pc, readVars, count, signalled, input_reports,
                 flagVars, deviceVars>>

\* Mutant: a full queue refuses the new report.
Enqueue_RefuseNew(q, r) ==
  IF q # <<>> /\ Len(q) - 1 > QLimit THEN q ELSE Append(q, r)

\* A list of n reports has n - 1 links to count.
Enqueue(q, r) ==
  IF q # <<>> /\ Len(q) - 1 > QLimit THEN Tail(Append(q, r)) ELSE Append(q, r)

\* Mutant: the signal of hid-libusb.c, for the first report in the queue only.
QueueReport_SignalFirst ==
  /\ rpc = "report" /\ MutexFree
  /\ rpc' = "run"
  /\ input_reports' = Enqueue(input_reports, taken)
  /\ IF input_reports = <<>> THEN Signal ELSE UNCHANGED pc
  /\ UNCHANGED <<session, readVars, count, signalled, flagVars, deviceVars, taken>>

QueueReport ==
  /\ rpc = "report" /\ MutexFree
  /\ rpc' = "run"
  /\ input_reports' = Enqueue(input_reports, taken)
  /\ Signal
  /\ UNCHANGED <<session, readVars, count, signalled, flagVars, deviceVars, taken>>

\* Mutant: the removal does not stop the run loop.
RemovalCallback_NoStop ==
  /\ rpc = "run" /\ Scheduled /\ ~plugged /\ ~disconnected
  /\ disconnected' = TRUE
  /\ UNCHANGED <<session, pc, readVars, rpc, count, signalled, input_reports,
                 shutdown_thread, blocking, deviceVars, taken>>

\* hid_device_removal_callback
RemovalCallback ==
  /\ rpc = "run" /\ Scheduled /\ ~plugged
  /\ disconnected' = TRUE
  /\ rpc' = "stopped"
  /\ UNCHANGED <<session, pc, readVars, count, signalled, input_reports,
                 shutdown_thread, blocking, deviceVars, taken>>

\* perform_signal_callback
SignalCallback ==
  /\ rpc = "run" /\ signalled
  /\ signalled' = FALSE
  /\ rpc' = "stopped"
  /\ UNCHANGED <<session, pc, readVars, count, input_reports, flagVars,
                 deviceVars, taken>>

\* CFRunLoopRunInMode returns kCFRunLoopRunStopped.
RunStopped ==
  /\ rpc = "stopped" /\ rpc' = "wake"
  /\ shutdown_thread' = TRUE
  /\ UNCHANGED <<session, pc, readVars, count, signalled, input_reports,
                 disconnected, blocking, deviceVars, taken>>

\* kCFRunLoopRunFinished
RunFinished ==
  /\ "finished" \in Faults
  /\ rpc = "run" /\ rpc' = "wake"
  /\ disconnected' = TRUE
  /\ UNCHANGED <<session, pc, readVars, count, signalled, input_reports,
                 shutdown_thread, blocking, deviceVars, taken>>

\* kCFRunLoopRunTimedOut, after 1000 s
RunTimedOut ==
  /\ rpc = "run" /\ rpc' = "loop"
  /\ OnlyRpc

\* Mutants: the broadcast without the mutex; no wait for hid_close after it.
WakeReaders_NoMutex ==
  /\ rpc = "wake" /\ rpc' = "shutdown"
  /\ Wake(Asleep)
  /\ UNCHANGED <<session, readVars, count, signalled, input_reports, flagVars,
                 deviceVars, taken>>
WakeReaders_NoBarrier ==
  /\ rpc = "wake" /\ rpc' = "done" /\ MutexFree
  /\ Wake(Asleep)
  /\ UNCHANGED <<session, readVars, count, signalled, input_reports, flagVars,
                 deviceVars, taken>>

WakeReaders ==
  /\ rpc = "wake" /\ rpc' = "shutdown"
  /\ MutexFree
  /\ Wake(Asleep)
  /\ UNCHANGED <<session, readVars, count, signalled, input_reports, flagVars,
                 deviceVars, taken>>

\* The read thread returns: its run loop is gone.
ReadThreadEnd ==
  /\ rpc = "ending" /\ rpc' = "done"
  /\ OnlyRpc

----------------------------------------------------------------------------
(* hid_read_timeout and hid_read.                                          *)

Calls(c, to) ==
  /\ session = "open" /\ pc[c] = "idle"
  /\ pc' = [pc EXCEPT ![c] = to]

BeginRead(c, milliseconds) ==
  /\ Calls(c, "lock")
  /\ ms' = [ms EXCEPT ![c] = milliseconds]
  /\ ret' = 0
  /\ UNCHANGED <<session, got, rpc, count, signalled, input_reports,
                 flagVars, deviceVars, taken>>

HidReadTimeout(c) == \E milliseconds \in {-1, 0, 1} : BeginRead(c, milliseconds)

HidRead(c) == BeginRead(c, IF blocking THEN -1 ELSE 0)

Return(c, bytes_read) ==
  /\ pc' = [pc EXCEPT ![c] = "idle"]
  /\ ms' = [ms EXCEPT ![c] = 0]
  /\ ret' = bytes_read

\* return_data
ReturnData(c) ==
  /\ input_reports # <<>>
  /\ Return(c, Head(input_reports))
  /\ got' = Head(input_reports)
  /\ input_reports' = Tail(input_reports)

Fails(c) == Return(c, -1) /\ UNCHANGED <<got, input_reports>>

Waits(c) ==
  /\ pc' = [pc EXCEPT ![c] = "wait"]
  /\ UNCHANGED <<ms, ret, got, input_reports>>

OnlyRead == UNCHANGED <<session, rpc, count, signalled, flagVars, deviceVars,
                        taken>>

Stopping == shutdown_thread \/ disconnected

\* On entry: a report first, then the flags, then the kind of read.
ReadLocked(c) ==
  /\ pc[c] = "lock" /\ MutexFree
  /\ \/ ReturnData(c)
     \/ input_reports = <<>> /\ Stopping /\ Fails(c)
     \/ /\ input_reports = <<>> /\ ~Stopping /\ ms[c] = 0
        /\ Return(c, 0) /\ UNCHANGED <<got, input_reports>>
     \/ input_reports = <<>> /\ ~Stopping /\ ms[c] # 0 /\ Waits(c)
  /\ OnlyRead

\* cond_wait and cond_timedwait on waking up: the flags first.
ReadWoken(c) ==
  /\ pc[c] = "woken" /\ MutexFree
  /\ \/ Stopping /\ Fails(c)
     \/ ~Stopping /\ ReturnData(c)
     \/ ~Stopping /\ input_reports = <<>> /\ Waits(c)
  /\ OnlyRead

\* pthread_cond_wait and pthread_cond_timedwait: release the mutex and sleep.
CondWait(c) ==
  /\ pc[c] = "wait"
  /\ pc' = [pc EXCEPT ![c] = "asleep"]
  /\ OnlyPc

SpuriousWakeup(c) ==
  /\ c \in Asleep
  /\ Wake({c})
  /\ OnlyPc

\* ETIMEDOUT: the sleeper leaves the wait set before it has the mutex back.
Timeout(c) ==
  /\ c \in Asleep /\ ms[c] > 0
  /\ pc' = [pc EXCEPT ![c] = "expired"]
  /\ OnlyPc

\* The result is 0, whatever has arrived in the meantime.
ReadExpired(c) ==
  /\ pc[c] = "expired" /\ MutexFree
  /\ Return(c, 0) /\ UNCHANGED <<got, input_reports>>
  /\ OnlyRead

HidSetNonblocking(c) ==
  /\ session = "open" /\ pc[c] = "idle"
  /\ blocking' = ~blocking
  /\ UNCHANGED <<session, pc, readVars, rpc, count, signalled, input_reports,
                 shutdown_thread, disconnected, deviceVars, taken>>

----------------------------------------------------------------------------
(* hid_close.  It frees the handle, so no call may be under way.           *)

\* dev->source and dev->run_loop are set, by the read thread.
HasRunLoop == rpc \notin {"none", "setup"}

\* The program dies in a call of hid_close.
Crash(c) ==
  /\ session' = "crashed" /\ rpc' = "none"
  /\ pc' = [pc EXCEPT ![c] = "crashed"]
  /\ UNCHANGED <<readVars, count, signalled, input_reports, flagVars, deviceVars,
                 taken>>

\* The device leaves the run loop (see Scheduled), the flag is set.
HidClose(c) ==
  /\ session = "open" /\ \A d \in Clients : pc[d] = "idle"
  /\ session' = "closing"
  /\ pc' = [pc EXCEPT ![c] = "signal"]
  /\ shutdown_thread' = TRUE
  /\ UNCHANGED <<readVars, rpc, count, signalled, input_reports, disconnected,
                 blocking, deviceVars, taken>>

\* IOKit is to take the device off a run loop that is NULL (if it does not
\* mind, hid_close goes on).
HidCloseCrash(c) ==
  /\ session = "open" /\ \A d \in Clients : pc[d] = "idle"
  /\ ~disconnected /\ ~HasRunLoop
  /\ Crash(c)

\* Mutant: the source is not signalled.
CloseSignal_Forgotten(c) ==
  /\ pc[c] = "signal"
  /\ pc' = [pc EXCEPT ![c] = "wakeup"]
  /\ OnlyPc

\* CFRunLoopSourceSignal: lost on a source whose run loop has ended.
CloseSignal(c) ==
  /\ pc[c] = "signal" /\ HasRunLoop
  /\ pc' = [pc EXCEPT ![c] = "wakeup"]
  /\ signalled' = (rpc # "done")
  /\ UNCHANGED <<session, readVars, rpc, count, input_reports, flagVars,
                 deviceVars, taken>>

\* CFRunLoopWakeUp
CloseWakeUp(c) ==
  /\ pc[c] = "wakeup"
  /\ pc' = [pc EXCEPT ![c] = "shutdown"]
  /\ OnlyPc

\* The source to signal is NULL, or the run loop to wake up is gone with its
\* thread (in which case CFRunLoopWakeUp may come back, too).
CloseCrash(c) ==
  /\ \/ pc[c] = "signal" /\ ~HasRunLoop
     \/ pc[c] = "wakeup" /\ rpc = "done"
  /\ Crash(c)

\* pthread_join
CloseJoin(c) ==
  /\ pc[c] = "join" /\ rpc = "done"
  /\ pc' = [pc EXCEPT ![c] = "free"]
  /\ OnlyPc

\* Mutant: the queue of the handle is not emptied.
CloseFree_KeepQueue(c) ==
  /\ pc[c] = "free"
  /\ pc' = [pc EXCEPT ![c] = "idle"]
  /\ session' = "closed" /\ rpc' = "none"
  /\ UNCHANGED <<readVars, count, signalled, input_reports, flagVars, deviceVars,
                 taken>>

\* IOHIDDeviceClose unless disconnected; the queue and the handle are freed.
CloseFree(c) ==
  /\ pc[c] = "free"
  /\ pc' = [pc EXCEPT ![c] = "idle"]
  /\ session' = "closed" /\ rpc' = "none"
  /\ input_reports' = <<>>
  /\ UNCHANGED <<readVars, count, signalled, flagVars, deviceVars, taken>>

----------------------------------------------------------------------------
(* The device.                                                             *)

DeviceSend ==
  /\ plugged /\ sent < MaxReports
  /\ sent' = sent + 1
  /\ UNCHANGED <<session, pc, readVars, rpc, count, signalled, input_reports,
                 flagVars, plugged, taken>>

Unplug ==
  /\ plugged /\ plugged' = FALSE
  /\ UNCHANGED <<session, pc, readVars, rpc, count, signalled, input_reports,
                 flagVars, sent, taken>>

\* A device that comes back is a new device: it answers no old handle.
Replug ==
  /\ session = "closed" /\ ~plugged
  /\ plugged' = TRUE
  /\ UNCHANGED <<session, pc, readVars, rpc, count, signalled, input_reports,
                 flagVars, sent, taken>>

----------------------------------------------------------------------------

RunLoopEvent == Report \/ RemovalCallback \/ SignalCallback

ReadThreadStep ==
  \/ ReadThreadStart \/ Loop \/ QueueReport \/ RunStopped \/ WakeReaders
  \/ ReadThreadEnd \/ \E b \in Barriers : ReaderBarrier(b)

\* What the read thread may do and need not: see FairSpec.
ReadThreadFault ==
  \/ RunFinished \/ RunTimedOut
  \/ \E b \in Barriers : SpuriousReader(b)

InsideCall(c) ==
  \/ \E b \in Barriers : ClientBarrier(c, b)
  \/ ReadLocked(c) \/ CondWait(c) \/ ReadWoken(c) \/ ReadExpired(c)
  \/ CloseSignal(c) \/ CloseWakeUp(c) \/ CloseCrash(c) \/ CloseJoin(c)
  \/ CloseFree(c)

ClientStep(c) ==
  \/ Open(c) \/ HidReadTimeout(c) \/ HidRead(c) \/ HidSetNonblocking(c)
  \/ HidClose(c) \/ HidCloseCrash(c) \/ InsideCall(c)
  \/ SpuriousWakeup(c) \/ Timeout(c) \/ \E b \in Barriers : SpuriousClient(c, b)

DeviceStep == DeviceSend \/ Unplug \/ Replug

Next ==
  \/ RunLoopEvent \/ ReadThreadStep \/ ReadThreadFault \/ DeviceStep
  \/ \E c \in Clients : ClientStep(c)

Spec == Init /\ [][Next]_vars

----------------------------------------------------------------------------
(* Safety.                                                                 *)

\* Once the read thread has sent its last broadcast no reader is left asleep,
\* not even one that was about to sleep when the run loop stopped
\* (read_thread, "Wake any threads which are waiting on data").
NoSleeperLeft ==
  rpc \in {"shutdown", "shutdownWait", "ending", "done"} => Asleep = {}

\* hid_report_callback signals for every report: while somebody sleeps, there
\* is a reader on its way for each report in the queue.
OneAwakePerReport ==
  ~Stopping /\ Asleep # {} =>
    Len(input_reports) <= Cardinality({c \in Clients : pc[c] = "woken"})

\* Reports queued so far: the one a callback holds is not yet among them.
Arrived == IF rpc = "report" THEN taken - 1 ELSE taken

\* The queue is the unbroken run of the newest reports, none of them handed
\* out before: hid_report_callback drops only the oldest.
QueueIsNewestRun ==
  LET n == Len(input_reports) IN
  \A i \in 1..n : /\ input_reports[i] = Arrived - n + i
                  /\ got < input_reports[i]

\* When hid_close signals the source and wakes up the run loop, the thread
\* they belong to has made them and has not ended: "This thread still needs
\* to be valid when that function is called on the other thread."  It takes a
\* spurious wakeup at a barrier the other thread never came to for them to be
\* missing; then hid_close crashes, or its signal is lost.
RunLoopAlive ==
  \A c \in Clients : pc[c] \in {"signal", "wakeup"} =>
    (HasRunLoop /\ rpc # "done") \/ \E b \in Barriers : Skipped(b)

\* Open from the moment one of the two threads has passed the barrier.
Opened ==
  \/ session = "open"
  \/ session = "opening" /\ rpc \notin {"none", "setup", "start", "startWait"}

\* The handle is a lossy FIFO whose reads may fail before it is empty.  It
\* keeps two reports more than "Pop one off if we've reached 30 in the queue"
\* promises, as in HidLibusb (see WithinLimit there).
Channel == INSTANCE HidChannel WITH
  Capacity <- QLimit + 2, EagerErrors <- TRUE,
  open <- Opened,
  up <- Opened /\ ~Stopping,
  queue <- IF Opened THEN input_reports ELSE <<>>,
  arrived <- Arrived

\* Every behaviour of the handle is one HidChannel allows: reads return the
\* reports in order, and a read fails only after the disconnect, after which
\* nothing more arrives.
ImplementsChannel == Channel!Spec

----------------------------------------------------------------------------
(* Liveness.  A thread inside a call and the read thread go on to their    *)
(* next step and get the mutex they wait for, and the run loop makes the   *)
(* callback of whatever is pending (the bound on the reports keeps them    *)
(* from starving the other two).  Nothing forces a client to call, the     *)
(* device to send, a timeout to expire or the run loop's 1000 s to pass.   *)

FairSpec ==
  /\ Spec
  /\ SF_vars(ReadThreadStep) /\ SF_vars(RunLoopEvent)
  /\ \A c \in Clients : SF_vars(InsideCall(c))

\* hid_close returns, without the run loop's 1000 s having to pass: the
\* signalled source stops a run loop that starts only after it was signalled,
\* and no count that a spurious wakeup leaves in a barrier makes the two
\* threads miss each other.  (After such a wakeup it may crash instead: see
\* RunLoopAlive.)
CloseReturns == session = "closing" ~> session \in {"closed", "crashed"}

\* A read ends when the device is gone, whoever else is reading: the removal
\* callback or the failed run loop reaches every sleeper.  (A handle without
\* a read thread is returned if pthread_create fails and the opener's barrier
\* then wakes up spuriously; nothing ends a read of it.)
DisconnectEndsRead ==
  \A c \in Clients : Reading(c) /\ ~plugged /\ rpc # "none" ~> ~Reading(c)

=============================================================================
