------------------------------ MODULE HidLibusb ------------------------------
(***************************************************************************)
(* One HID device handle of hidapi/hid-libusb.c: the threads that call     *)
(* hid_open_path, hid_read, hid_read_timeout, hid_write,                   *)
(* hid_set_nonblocking and hid_close on it, the read thread the handle     *)
(* owns, the callback of its one asynchronous input transfer, and the      *)
(* device.  A step is what a thread does between two points where another  *)
(* thread can see a difference: a critical section of dev->mutex that does *)
(* not wait is one step, and so is a call into libusb or pthread.          *)
(*                                                                         *)
(* A report is its number in the order the device sent it.  The report     *)
(* bytes, the descriptors and the result of a write are left out.          *)
(***************************************************************************)
EXTENDS Integers, Sequences

CONSTANTS Clients,      \* threads that call the API on the handle
          MaxReports,   \* bound: reports the device sends
          QLimit,       \* the 30 of read_callback
          Faults        \* which of AllFaults may happen

AllFaults == {"create",     \* pthread_create fails
              "submit",     \* libusb_submit_transfer fails on a present device
              "transfer",   \* a transfer completes with an error status
              "interrupt",  \* libusb_handle_events returns, nothing handled
              "fatal"}      \* libusb_handle_events fails for good

ASSUME ConstantsAssumption ==
  /\ MaxReports \in Nat
  /\ QLimit \in Nat
  /\ Faults \subseteq AllFaults
  /\ Clients # {} /\ "none" \notin Clients /\ "read" \notin Clients

VARIABLES
  session,          \* the handle: "closed", "opening", "open" or "closing"
  pc,               \* pc[c]: where client c is
  ms,               \* ms[c]: the milliseconds argument of c's read
  ret,              \* what the latest read returned (-1, 0 or a report), 0
                    \* once another has begun
  rpc,              \* where the read thread is
  cb,               \* the running read_callback: its host thread and its step
  transfer,         \* state of dev->transfer
  input_reports,    \* dev->input_reports
  shutdown_thread,  \* dev->shutdown_thread
  blocking,         \* dev->blocking
  plugged,          \* the device of this handle is on the bus
  sent,             \* reports 1..sent were sent by the device
  taken,            \* reports 1..taken were received by a transfer
  got               \* the report handed out last

clientVars == <<pc, ms, ret, got>>
deviceVars == <<plugged, sent>>
vars == <<session, pc, ms, ret, rpc, cb, transfer, input_reports,
          shutdown_thread, blocking, plugged, sent, taken, got>>

\* What a step leaves alone that moves one thread and does nothing else.
OnlyPc == UNCHANGED <<session, ms, ret, got, rpc, cb, transfer, input_reports,
                      shutdown_thread, blocking, taken, deviceVars>>
OnlyRpc == UNCHANGED <<session, clientVars, cb, transfer, input_reports,
                       shutdown_thread, blocking, taken, deviceVars>>

Reading(c) == pc[c] \in {"lock", "wait", "asleep", "woken", "expired"}
InFlight == transfer \in {"submitted", "cancelling", "expiring"}

TypeOK ==
  /\ session \in {"closed", "opening", "open", "closing"}
  /\ pc \in [Clients -> {"idle", "barrier", "writing", "lock", "wait", "asleep",
                         "woken", "expired", "cancel", "join", "free"}]
  /\ ms \in [Clients -> {-1, 0, 1}]
  /\ ret \in -1..MaxReports
  /\ rpc \in {"none", "start", "barrier", "loop", "events", "cancel", "drain",
              "wake", "done"}
  /\ cb \in [host : {"none", "read"} \cup Clients,
             step : {"none", "queue", "resubmit"}]
  /\ transfer \in {"none", "idle", "submitted", "cancelling", "expiring"}
  /\ input_reports \in Seq(1..MaxReports)
  /\ shutdown_thread \in BOOLEAN /\ blocking \in BOOLEAN /\ plugged \in BOOLEAN
  /\ sent \in 0..MaxReports /\ taken \in 0..MaxReports /\ got \in 0..MaxReports

NoCallback == [host |-> "none", step |-> "none"]

Init ==
  /\ session = "closed"
  /\ pc = [c \in Clients |-> "idle"]
  /\ ms = [c \in Clients |-> 0]
  /\ ret = 0
  /\ rpc = "none"
  /\ cb = NoCallback
  /\ transfer = "none"
  /\ input_reports = <<>>
  /\ shutdown_thread = FALSE
  /\ blocking = TRUE
  /\ plugged = TRUE
  /\ sent = 0 /\ taken = 0 /\ got = 0

----------------------------------------------------------------------------
(* dev->mutex and dev->condition.  The mutex is held from one step to the  *)
(* next only between the test of the wait loop and pthread_cond_wait.      *)

MutexFree == \A c \in Clients : pc[c] # "wait"

Asleep == {c \in Clients : pc[c] = "asleep"}

Wake(S) == pc' = [c \in Clients |-> IF c \in S THEN "woken" ELSE pc[c]]

\* pthread_cond_signal; further sleepers may wake as spurious wakeups do.
Signal ==
  IF Asleep = {} THEN UNCHANGED pc ELSE \E c \in Asleep : Wake({c})

Broadcast == Wake(Asleep)

----------------------------------------------------------------------------
(* libusb_cancel_transfer: 0 if the transfer was in progress; an error if  *)
(* it is not in progress, completed already, or cancelled already (by the  *)
(* other thread, or by libusb itself when the 5 s timeout expired).        *)

CancelOK == transfer = "submitted" /\ transfer' = "cancelling"

CancelFails ==
  /\ transfer # "submitted" \/ taken < sent \/ ~plugged
  /\ UNCHANGED transfer

SubmitFails == ~plugged \/ "submit" \in Faults

----------------------------------------------------------------------------
(* hid_open_path, on the path that finds the device and claims it.         *)

Open(c) ==
  /\ session = "closed" /\ plugged
  /\ session' = "opening"
  /\ pc' = [pc EXCEPT ![c] = "barrier"]
  /\ \/ rpc' = "start"
     \/ "create" \in Faults /\ rpc' = "none"
  /\ shutdown_thread' = FALSE
  /\ blocking' = TRUE
  /\ UNCHANGED <<ms, ret, got, cb, transfer, input_reports, taken, deviceVars>>

\* The read thread allocates and submits the transfer; it does not look at
\* the result of the submission.
ReadThreadStart ==
  /\ rpc = "start"
  /\ rpc' = "barrier"
  /\ \/ plugged /\ transfer' = "submitted"
     \/ SubmitFails /\ transfer' = "idle"
  /\ UNCHANGED <<session, clientVars, cb, input_reports, shutdown_thread,
                 blocking, taken, deviceVars>>

\* Mutant: hid_open_path does not wait for the read thread.
BarrierRelease_NoWait(c) ==
  /\ pc[c] = "barrier" /\ pc' = [pc EXCEPT ![c] = "idle"]
  /\ session' = "open"
  /\ UNCHANGED <<ms, ret, got, rpc, cb, transfer, input_reports,
                 shutdown_thread, blocking, taken, deviceVars>>

\* pthread_barrier_wait of both threads: neither passes before the other.
BarrierRelease(c) ==
  /\ pc[c] = "barrier" /\ rpc = "barrier"
  /\ pc' = [pc EXCEPT ![c] = "idle"]
  /\ rpc' = "loop"
  /\ session' = "open"
  /\ UNCHANGED <<ms, ret, got, cb, transfer, input_reports, shutdown_thread,
                 blocking, taken, deviceVars>>

----------------------------------------------------------------------------
(* The read thread after the barrier.                                      *)

ReadThread(from, to) == rpc = from /\ rpc' = to

\* Mutant: while (1).
Loop_Forever ==
  /\ ReadThread("loop", "events")
  /\ OnlyRpc

Loop ==
  /\ ReadThread("loop", IF shutdown_thread THEN "cancel" ELSE "events")
  /\ OnlyRpc

\* libusb_handle_events returns: something was handled, its 60 s passed, or
\* it failed in one of the four ways the loop tolerates.
EventsReturn ==
  /\ ReadThread("events", "loop")
  /\ cb.host # "read"
  /\ OnlyRpc

EventsFatal ==
  /\ "fatal" \in Faults
  /\ ReadThread("events", "cancel")
  /\ cb.host # "read"
  /\ OnlyRpc

CancelOwn ==
  /\ \/ ReadThread("cancel", "drain") /\ CancelOK
     \/ ReadThread("cancel", "wake") /\ CancelFails
  /\ UNCHANGED <<session, clientVars, cb, input_reports, shutdown_thread,
                 blocking, taken, deviceVars>>

\* The single libusb_handle_events after the cancellation.  It comes back
\* without the completion if it failed, or handled a client's write instead.
DrainReturn ==
  /\ ReadThread("drain", "wake")
  /\ cb.host # "read"
  /\ \/ transfer # "cancelling"
     \/ Faults \cap {"interrupt", "fatal"} # {}
     \/ \E c \in Clients : pc[c] = "writing"
  /\ OnlyRpc

\* Mutant: broadcast without the mutex.
WakeReaders_NoMutex ==
  /\ ReadThread("wake", "done")
  /\ Broadcast
  /\ UNCHANGED <<session, ms, ret, got, cb, transfer, input_reports,
                 shutdown_thread, blocking, taken, deviceVars>>

WakeReaders ==
  /\ ReadThread("wake", "done")
  /\ MutexFree
  /\ Broadcast
  /\ UNCHANGED <<session, ms, ret, got, cb, transfer, input_reports,
                 shutdown_thread, blocking, taken, deviceVars>>

----------------------------------------------------------------------------
(* read_callback.  It runs on the thread that handles events: the read     *)
(* thread, or a client inside a synchronous transfer.  libusb lets one     *)
(* thread handle events at a time.                                         *)

Handles(h) ==
  /\ cb = NoCallback
  /\ \/ h = "read" /\ rpc \in {"events", "drain"}
     \/ h \in Clients /\ pc[h] = "writing"

Hosts == {"read"} \cup Clients

\* LIBUSB_TRANSFER_COMPLETED
Completed(h) ==
  /\ Handles(h)
  /\ transfer = "submitted" /\ taken < sent
  /\ transfer' = "idle"
  /\ taken' = taken + 1
  /\ cb' = [host |-> h, step |-> "queue"]
  /\ UNCHANGED <<session, clientVars, rpc, input_reports, shutdown_thread,
                 blocking, deviceVars>>

\* LIBUSB_TRANSFER_CANCELLED and LIBUSB_TRANSFER_NO_DEVICE
Stopped(h) ==
  /\ Handles(h)
  /\ \/ transfer = "cancelling"
     \/ InFlight /\ ~plugged
  /\ transfer' = "idle"
  /\ shutdown_thread' = TRUE
  /\ UNCHANGED <<session, clientVars, rpc, cb, input_reports, blocking, taken,
                 deviceVars>>

\* LIBUSB_TRANSFER_TIMED_OUT, or an error status
NotReceived(h) ==
  /\ Handles(h)
  /\ \/ transfer = "expiring"
     \/ transfer = "submitted" /\ "transfer" \in Faults
  /\ transfer' = "idle"
  /\ cb' = [host |-> h, step |-> "resubmit"]
  /\ UNCHANGED <<session, clientVars, rpc, input_reports, shutdown_thread,
                 blocking, taken, deviceVars>>

\* Mutants: a full queue refuses the new report; the limit is one lower.
Enqueue_RefuseNew(q, r) ==
  IF q # <<>> /\ Len(q) - 1 > QLimit THEN q ELSE Append(q, r)
Enqueue_Early(q, r) ==
  IF q # <<>> /\ Len(q) > QLimit THEN Tail(Append(q, r)) ELSE Append(q, r)

\* A list of n reports has n - 1 links to count.
Enqueue(q, r) ==
  IF q # <<>> /\ Len(q) - 1 > QLimit THEN Tail(Append(q, r)) ELSE Append(q, r)

QueueReport ==
  /\ cb.step = "queue" /\ MutexFree
  /\ input_reports' = Enqueue(input_reports, taken)
  /\ IF input_reports = <<>> THEN Signal ELSE UNCHANGED pc
  /\ cb' = [cb EXCEPT !.step = "resubmit"]
  /\ UNCHANGED <<session, ms, ret, got, rpc, transfer, shutdown_thread,
                 blocking, taken, deviceVars>>

\* Mutant: the callback ends without submitting the transfer again.
Resubmit_Forgotten ==
  /\ cb.step = "resubmit" /\ cb' = NoCallback
  /\ UNCHANGED <<session, clientVars, rpc, transfer, input_reports,
                 shutdown_thread, blocking, taken, deviceVars>>

Resubmit ==
  /\ cb.step = "resubmit"
  /\ \/ plugged /\ transfer' = "submitted" /\ UNCHANGED shutdown_thread
     \/ SubmitFails /\ shutdown_thread' = TRUE /\ UNCHANGED transfer
  /\ cb' = NoCallback
  /\ UNCHANGED <<session, clientVars, rpc, input_reports, blocking, taken,
                 deviceVars>>

----------------------------------------------------------------------------
(* hid_read_timeout and hid_read.                                          *)

Calls(c, to) ==
  /\ session = "open" /\ pc[c] = "idle"
  /\ pc' = [pc EXCEPT ![c] = to]

BeginRead(c, milliseconds) ==
  /\ Calls(c, "lock")
  /\ ms' = [ms EXCEPT ![c] = milliseconds]
  /\ ret' = 0
  /\ UNCHANGED <<session, got, rpc, cb, transfer, input_reports,
                 shutdown_thread, blocking, taken, deviceVars>>

HidReadTimeout(c) == \E milliseconds \in {-1, 0, 1} : BeginRead(c, milliseconds)

HidRead(c) == BeginRead(c, IF blocking THEN -1 ELSE 0)

\* Mutant: the report ID byte is taken off the result, even of an error.
Return_WithoutId(c, bytes_read) ==
  /\ pc' = [pc EXCEPT ![c] = "idle"]
  /\ ms' = [ms EXCEPT ![c] = 0]
  /\ ret' = bytes_read - 1

Return(c, bytes_read) ==
  /\ pc' = [pc EXCEPT ![c] = "idle"]
  /\ ms' = [ms EXCEPT ![c] = 0]
  /\ ret' = bytes_read

\* return_data
ReturnData(c) ==
  /\ input_reports # <<>>
  /\ Return(c, Head(input_reports))
  /\ got' = Head(input_reports)
  /\ input_reports' = Tail(input_reports)

\* With the mutex, on entry or on waking up: a report first, then the
\* shutdown, then the kind of read.
ReadLocked(c) ==
  /\ pc[c] \in {"lock", "woken"} /\ MutexFree
  /\ \/ ReturnData(c)
     \/ /\ input_reports = <<>>
        /\ \/ shutdown_thread /\ Return(c, -1)
           \/ ~shutdown_thread /\ ms[c] = 0 /\ Return(c, 0)
           \/ /\ ~shutdown_thread /\ ms[c] # 0
              /\ pc' = [pc EXCEPT ![c] = "wait"]
              /\ UNCHANGED <<ms, ret>>
        /\ UNCHANGED <<got, input_reports>>
  /\ UNCHANGED <<session, rpc, cb, transfer, shutdown_thread, blocking, taken,
                 deviceVars>>

\* pthread_cond_wait and pthread_cond_timedwait: release the mutex and sleep.
CondWait(c) ==
  /\ pc[c] = "wait"
  /\ pc' = [pc EXCEPT ![c] = "asleep"]
  /\ OnlyPc

SpuriousWakeup(c) ==
  /\ c \in Asleep
  /\ Wake({c})
  /\ OnlyPc

\* ETIMEDOUT: the sleeper leaves the wait set before it has the mutex back.
Timeout(c) ==
  /\ c \in Asleep /\ ms[c] > 0
  /\ pc' = [pc EXCEPT ![c] = "expired"]
  /\ OnlyPc

\* The result is 0, whatever has arrived in the meantime.
ReadExpired(c) ==
  /\ pc[c] = "expired" /\ MutexFree
  /\ Return(c, 0)
  /\ UNCHANGED <<session, got, rpc, cb, transfer, input_reports,
                 shutdown_thread, blocking, taken, deviceVars>>

----------------------------------------------------------------------------
(* hid_write (and the feature reports): a synchronous libusb transfer      *)
(* handles the events of the input transfer while it waits for its own.    *)

HidWrite(c) ==
  /\ Calls(c, "writing")
  /\ OnlyPc

HidWriteReturn(c) ==
  /\ pc[c] = "writing" /\ cb.host # c
  /\ pc' = [pc EXCEPT ![c] = "idle"]
  /\ OnlyPc

HidSetNonblocking(c) ==
  /\ session = "open" /\ pc[c] = "idle"
  /\ blocking' = ~blocking
  /\ UNCHANGED <<session, clientVars, rpc, cb, transfer, input_reports,
                 shutdown_thread, taken, deviceVars>>

----------------------------------------------------------------------------
(* hid_close.  It frees the handle, so no call may be under way.           *)

HidClose(c) ==
  /\ session = "open" /\ \A d \in Clients : pc[d] = "idle"
  /\ session' = "closing"
  /\ shutdown_thread' = TRUE
  /\ pc' = [pc EXCEPT ![c] = "cancel"]
  /\ UNCHANGED <<ms, ret, got, rpc, cb, transfer, input_reports, blocking,
                 taken, deviceVars>>

CloseCancel(c) ==
  /\ pc[c] = "cancel"
  /\ CancelOK \/ CancelFails
  /\ pc' = [pc EXCEPT ![c] = "join"]
  /\ UNCHANGED <<session, ms, ret, got, rpc, cb, input_reports,
                 shutdown_thread, blocking, taken, deviceVars>>

\* Mutant: the read thread is detached instead of joined.
CloseJoin_Detach(c) ==
  /\ pc[c] = "join"
  /\ pc' = [pc EXCEPT ![c] = "free"]
  /\ OnlyPc

\* pthread_join
CloseJoin(c) ==
  /\ pc[c] = "join" /\ rpc = "done"
  /\ pc' = [pc EXCEPT ![c] = "free"]
  /\ OnlyPc

\* The transfer and its buffer are freed first, the queue and the handle last.
CloseFree(c) ==
  /\ pc[c] = "free"
  /\ pc' = [pc EXCEPT ![c] = "idle"]
  /\ session' = "closed" /\ rpc' = "none"
  /\ transfer' = "none" /\ input_reports' = <<>>
  /\ UNCHANGED <<ms, ret, got, cb, shutdown_thread, blocking, taken, deviceVars>>

----------------------------------------------------------------------------
(* The device and libusb's own timeout of the input transfer.              *)

DeviceSend ==
  /\ plugged /\ sent < MaxReports
  /\ sent' = sent + 1
  /\ UNCHANGED <<session, clientVars, rpc, cb, transfer, input_reports,
                 shutdown_thread, blocking, plugged, taken>>

Unplug ==
  /\ plugged /\ plugged' = FALSE
  /\ UNCHANGED <<session, clientVars, rpc, cb, transfer, input_reports,
                 shutdown_thread, blocking, sent, taken>>

\* A device that comes back is a new device: it answers no old handle.
Replug ==
  /\ session = "closed" /\ ~plugged
  /\ plugged' = TRUE
  /\ UNCHANGED <<session, clientVars, rpc, cb, transfer, input_reports,
                 shutdown_thread, blocking, sent, taken>>

Expire ==
  /\ transfer = "submitted"
  /\ transfer' = "expiring"
  /\ UNCHANGED <<session, clientVars, rpc, cb, input_reports, shutdown_thread,
                 blocking, taken, deviceVars>>

----------------------------------------------------------------------------

Callback == QueueReport \/ Resubmit

ReadThreadStep ==
  \/ ReadThreadStart \/ Loop \/ EventsReturn \/ EventsFatal \/ CancelOwn
  \/ DrainReturn \/ WakeReaders

EventStep(h) == Completed(h) \/ Stopped(h) \/ NotReceived(h)

ClientStep(c) ==
  \/ Open(c) \/ BarrierRelease(c)
  \/ HidReadTimeout(c) \/ HidRead(c) \/ ReadLocked(c) \/ CondWait(c)
  \/ SpuriousWakeup(c) \/ Timeout(c) \/ ReadExpired(c)
  \/ HidWrite(c) \/ HidWriteReturn(c) \/ HidSetNonblocking(c)
  \/ HidClose(c) \/ CloseCancel(c) \/ CloseJoin(c) \/ CloseFree(c)

DeviceStep == DeviceSend \/ Unplug \/ Replug \/ Expire

Next ==
  \/ Callback \/ ReadThreadStep \/ DeviceStep
  \/ \E h \in Hosts : EventStep(h)
  \/ \E c \in Clients : ClientStep(c)

Spec == Init /\ [][Next]_vars

----------------------------------------------------------------------------
(* Safety.                                                                 *)

\* When the read thread has ended, no reader is left asleep: the broadcast
\* under the mutex reaches even a reader that was about to go to sleep when
\* the shutdown was noticed (read_thread, "Wake any threads").
NoSleeperLeft == rpc = "done" => Asleep = {}

\* Reports queued so far: the one a callback holds is not yet among them.
Arrived == IF cb.step = "queue" THEN taken - 1 ELSE taken

\* The queue is the unbroken run of the newest reports, none of them handed
\* out before: read_callback never reorders, repeats or skips, it drops only
\* the oldest.
QueueIsNewestRun ==
  LET n == Len(input_reports) IN
  \A i \in 1..n : /\ input_reports[i] = Arrived - n + i
                  /\ got < input_reports[i]

\* A handle that hid_open_path has returned has its transfer and its read
\* thread, so that no call finds dev->transfer unset.
OpenIsReady ==
  session \in {"open", "closing"} =>
    transfer # "none" /\ rpc \notin {"none", "start", "barrier"}

\* When hid_close starts to free, nobody else touches the handle: the read
\* thread has ended, no callback runs on any thread, no client is in a call.
FreeIsExclusive ==
  \A c \in Clients : pc[c] = "free" =>
    /\ rpc = "done" /\ cb = NoCallback
    /\ \A d \in Clients \ {c} : pc[d] = "idle"

\* The handle is a lossy FIFO: see HidChannel.  Its capacity is the one of the
\* code, two above the limit that the code's comment names (see WithinLimit).
Channel == INSTANCE HidChannel WITH
  Capacity <- QLimit + 2, EagerErrors <- FALSE,
  open <- session = "open",
  up <- session = "open" /\ ~shutdown_thread,
  queue <- IF session = "open" THEN input_reports ELSE <<>>,
  arrived <- Arrived

\* Every behaviour of the handle is one HidChannel allows: reads return the
\* reports in order, a read fails only after the disconnect and with the
\* queue read empty, and once a read has failed no report turns up any more.
ImplementsChannel == Channel!Spec

----------------------------------------------------------------------------
(* The inductive invariant behind these properties (HidLibusbProofs).      *)

\* What the four phases of a handle have in common with its threads.
PhaseInv ==
  /\ session = "closed" =>
       rpc = "none" /\ transfer = "none" /\ \A c \in Clients : pc[c] = "idle"
  /\ session = "opening" =>
       /\ ~shutdown_thread
       /\ rpc \in {"none", "start", "barrier"}
       /\ rpc = "barrier" => transfer # "none"
       /\ \A c \in Clients : pc[c] \in {"idle", "barrier"}
  /\ session = "open" =>
       /\ rpc \notin {"none", "start", "barrier"} /\ transfer # "none"
       /\ \A c \in Clients : pc[c] \notin {"barrier", "cancel", "join", "free"}
  /\ session = "closing" =>
       /\ rpc \notin {"none", "start", "barrier"} /\ transfer # "none"
       /\ shutdown_thread
       /\ \A c \in Clients : pc[c] \in {"idle", "cancel", "join", "free"}
  /\ session \in {"opening", "closing"} =>
       \A c, d \in Clients : pc[c] # "idle" /\ pc[d] # "idle" => c = d
  /\ \A c \in Clients : pc[c] = "free" => rpc = "done"

\* A callback runs on a thread that handles events, with its transfer idle.
CallbackInv ==
  \/ cb = NoCallback
  \/ /\ cb.step # "none" /\ transfer = "idle"
     /\ \/ cb.host = "read" /\ rpc \in {"events", "drain"}
        \/ cb.host \in Clients /\ pc[cb.host] = "writing"

\* A device seen to be gone sends nothing more through this handle.
ShutdownInv ==
  session = "open" /\ shutdown_thread => cb = NoCallback /\ ~InFlight

\* Reports are counted, queued and handed out in step.
QueueInv ==
  /\ taken <= sent /\ got <= Arrived
  /\ cb.step = "queue" => taken > 0
  /\ session \in {"closed", "opening"} => input_reports = <<>>
  /\ Len(input_reports) <= QLimit + 2
  /\ QueueIsNewestRun

\* From the end of its loop on, the read thread has the shutdown to show.
EndInv ==
  /\ rpc \in {"cancel", "drain", "wake", "done"} => shutdown_thread
  /\ rpc = "done" => \A c \in Clients : pc[c] \notin {"wait", "asleep"}

----------------------------------------------------------------------------
(* What comments of the code say and the code does not do.                 *)

\* "In both cases the objects can be safely cleaned up after the call to
\* pthread_join()": the transfer is no longer in flight when it is freed.
TransferIdleAtFree == \A c \in Clients : pc[c] = "free" => ~InFlight

\* "Pop one off if we've reached 30 in the queue": no more than that are kept.
WithinLimit == Len(input_reports) <= QLimit

\* "In blocking mode, hid_read() will wait (block) until there is data to read
\* before returning." (hidapi.h): a reader does not sleep on beside a report
\* that stays in the queue, however many readers and reports there are.
WaitsForData ==
  \A c \in Clients :
    Reading(c) /\ input_reports # <<>> ~> ~Reading(c) \/ input_reports = <<>>

\* "This means the device has been disconnected. An error code of -1 should
\* be returned.": a read does not outlast the device.
DisconnectEndsRead == \A c \in Clients : Reading(c) /\ ~plugged ~> ~Reading(c)

----------------------------------------------------------------------------
(* Liveness.  A thread inside a call goes on to its next step (a thread is *)
(* sequential, so one SF for its steps says it of each), it gets the mutex *)
(* it waits for, a deadline passes, an event that is pending whenever      *)
(* libusb_handle_events is called is handled by some call, and no call     *)
(* that has handled one goes on for ever.  Nothing forces a client to call,*)
(* the device to send, a wakeup to be spurious or a transfer to expire.    *)

ReadThreadFairness ==
  /\ SF_vars(ReadThreadStep)
  /\ SF_vars(Callback)
  /\ SF_vars(Completed("read"))
  /\ SF_vars(Stopped("read") \/ NotReceived("read"))

InsideCall(c) ==
  \/ BarrierRelease(c) \/ ReadLocked(c) \/ CondWait(c) \/ ReadExpired(c)
  \/ HidWriteReturn(c) \/ CloseCancel(c) \/ CloseJoin(c) \/ CloseFree(c)

ClientFairness(c) == SF_vars(InsideCall(c)) /\ SF_vars(Timeout(c))

FairSpec ==
  Spec /\ ReadThreadFairness /\ \A c \in Clients : ClientFairness(c)

\* hid_close returns: the read thread notices the shutdown whatever it is
\* doing, and its transfer never keeps it from ending.
CloseReturns ==
  \A c \in Clients : pc[c] \in {"cancel", "join", "free"} ~> pc[c] = "idle"

\* The input transfer is in flight, in its callback, or given up for good.
Armed == InFlight \/ cb.step # "none" \/ shutdown_thread

\* libusb_handle_events failed for good and the read thread gave up: see
\* NoSleeperLeft for what that does to readers.
GaveUp == rpc \in {"cancel", "drain", "wake", "done"} /\ ~shutdown_thread

\* A blocking read of a handle with one client returns once a report or the
\* disconnect is there for it, and a timed read returns in any case: the
\* chain of resubmissions from read_callback never breaks in silence.
ReadReturns ==
  \A c \in Clients :
    /\ Reading(c)
    /\ ms[c] # -1 \/ (Armed /\ (~plugged \/ taken < sent))
    ~> ~Reading(c) \/ GaveUp

=============================================================================
