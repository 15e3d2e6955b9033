----------------------------- MODULE HidWindows -----------------------------
(***************************************************************************)
(* One HID device handle of hidapi/hid-windows.c.  There is no read thread *)
(* and no lock: the handle has one overlapped read with its buffer, event  *)
(* and read_pending flag, and a read that times out leaves it running for  *)
(* the next call to pick up.  One thread calls; what runs beside it is the *)
(* HID class driver, which keeps a ring of reports for the handle, fills   *)
(* the buffer, and sets the event, at any moment.                          *)
(*                                                                         *)
(* A report is its number in the order the device sent it.  The report ID  *)
(* byte, feature reports' contents and the result of a write are left out. *)
(***************************************************************************)
EXTENDS Integers, Sequences, SequencesExt

CONSTANTS MaxReports,   \* bound: reports the device sends
          RingSize,     \* reports the driver keeps for a handle (32)
          Faults        \* which of AllFaults may happen

AllFaults == {"begin",      \* ReadFile fails on a present device
              "complete"}   \* a pending read fails on a present device

ASSUME ConstantsAssumption ==
  /\ MaxReports \in Nat
  /\ RingSize \in Nat \ {0}
  /\ Faults \subseteq AllFaults

VARIABLES
  pc,             \* "closed", "idle", or the place in hid_read_timeout, hid_write
  ms,             \* the milliseconds argument of the read
  ret,            \* what the last read returned (-1, 0 or a report)
  read_pending,   \* dev->read_pending
  blocking,       \* dev->blocking
  io,             \* dev->ol: "none", "pending", "done" or "failed"
  buf,            \* the report in dev->read_buf (0: none)
  event,          \* dev->ol.hEvent is signalled
  ring,           \* the driver's reports for this handle
  plugged,        \* the device is on the bus
  sent,           \* reports 1..sent were sent by the device
  delivered,      \* reports reads have returned
  lost            \* reports the driver dropped, or nobody had the device open for

handleVars == <<read_pending, io, buf, event>>
driverVars == <<ring, plugged, sent, lost>>
vars == <<pc, ms, ret, blocking, delivered, handleVars, driverVars>>

TypeOK ==
  /\ pc \in {"closed", "idle", "wait", "result", "writing"}
  /\ ms \in {-1, 0, 1}
  /\ ret \in -1..MaxReports
  /\ read_pending \in BOOLEAN /\ blocking \in BOOLEAN
  /\ io \in {"none", "pending", "done", "failed"}
  /\ buf \in 0..MaxReports
  /\ event \in BOOLEAN
  /\ ring \in Seq(1..MaxReports) /\ Len(ring) <= RingSize
  /\ plugged \in BOOLEAN /\ sent \in 0..MaxReports
  /\ delivered \subseteq 1..sent /\ lost \subseteq 1..sent

Init ==
  /\ pc = "closed" /\ ms = 0 /\ ret = 0
  /\ read_pending = FALSE /\ blocking = TRUE
  /\ io = "none" /\ buf = 0 /\ event = FALSE
  /\ ring = <<>> /\ plugged = TRUE /\ sent = 0
  /\ delivered = {} /\ lost = {}

\* The report the overlapped read has fetched and no call has picked up.
Fetched == IF read_pending /\ io = "done" THEN <<buf>> ELSE <<>>

\* Everything on its way to the caller, oldest first.
Held == Fetched \o ring

----------------------------------------------------------------------------
(* hid_open_path and hid_close.  An open that fails returns NULL and is no  *)
(* action: the handle is freed.  (The event and the error string made for  *)
(* it are not, a leak no state here shows.)                                *)

HidOpenPath ==
  /\ pc = "closed" /\ plugged
  /\ pc' = "idle"
  /\ read_pending' = FALSE /\ blocking' = TRUE
  /\ io' = "none" /\ buf' = 0 /\ event' = FALSE
  /\ UNCHANGED <<ms, ret, delivered, driverVars>>

\* CancelIo, CloseHandle and free; the ring goes with the handle.
HidClose ==
  /\ pc = "idle"
  /\ pc' = "closed"
  /\ read_pending' = FALSE
  /\ io' = "none" /\ buf' = 0 /\ event' = FALSE
  /\ ring' = <<>> /\ lost' = lost \cup ToSet(Held)
  /\ UNCHANGED <<ms, ret, blocking, delivered, plugged, sent>>

----------------------------------------------------------------------------
(* hid_read_timeout and hid_read.                                          *)

\* Mutant: a failed read is one byte shorter, too.
Return_WithoutId(bytes_read) ==
  /\ pc' = "idle"
  /\ ms' = 0
  /\ ret' = bytes_read - 1

Return(bytes_read) ==
  /\ pc' = "idle"
  /\ ms' = 0
  /\ ret' = bytes_read

\* Mutant: the event is reset when the read has been started.
ReadFile_ThenReset ==
  /\ read_pending' = TRUE
  /\ event' = FALSE
  /\ IF ring # <<>>
     THEN io' = "done" /\ buf' = Head(ring) /\ ring' = Tail(ring)
     ELSE io' = "pending" /\ buf' = 0 /\ UNCHANGED ring

\* ResetEvent and ReadFile, which finds a report in the ring or stays pending.
ReadFile ==
  /\ read_pending' = TRUE
  /\ event' = (ring # <<>>)
  /\ IF ring # <<>>
     THEN io' = "done" /\ buf' = Head(ring) /\ ring' = Tail(ring)
     ELSE io' = "pending" /\ buf' = 0 /\ UNCHANGED ring

\* ReadFile fails: CancelIo, and the read is over.
ReadFileFails ==
  /\ ~plugged \/ "begin" \in Faults
  /\ read_pending' = FALSE
  /\ event' = FALSE /\ buf' = 0 /\ io' = "failed"
  /\ Return(-1)

\* A read that is pending already is joined, another one is started.
ReadTimeout(milliseconds) ==
  /\ pc = "idle"
  /\ \/ /\ read_pending \/ plugged
        /\ IF read_pending THEN UNCHANGED <<handleVars, ring>> ELSE ReadFile
        /\ pc' = IF milliseconds >= 0 THEN "wait" ELSE "result"
        /\ ms' = milliseconds
        /\ UNCHANGED ret
     \/ ~read_pending /\ ReadFileFails /\ UNCHANGED ring
  /\ UNCHANGED <<blocking, delivered, plugged, sent, lost>>

HidReadTimeout == \E milliseconds \in {-1, 0, 1} : ReadTimeout(milliseconds)

HidRead == ReadTimeout(IF blocking THEN -1 ELSE 0)

\* WaitForSingleObject takes the signal of the auto-reset event.
WaitReturns ==
  /\ pc = "wait" /\ event
  /\ event' = FALSE
  /\ pc' = "result"
  /\ UNCHANGED <<ms, ret, blocking, delivered, read_pending, io, buf, driverVars>>

\* Mutant: the timeout is not told from the event.
WaitTimesOut_GoesOn ==
  /\ pc = "wait" /\ ~event
  /\ pc' = "result"
  /\ UNCHANGED <<ms, ret, blocking, delivered, handleVars, driverVars>>

\* The overlapped read goes on.
WaitTimesOut ==
  /\ pc = "wait" /\ ~event
  /\ Return(0)
  /\ UNCHANGED <<blocking, delivered, handleVars, driverVars>>

\* Mutant: the read that is over still counts as pending.
GetOverlappedResult_StillPending ==
  /\ pc = "result" /\ io # "pending"
  /\ IF io = "done" THEN Return(buf) /\ delivered' = delivered \cup {buf}
                    ELSE Return(-1) /\ UNCHANGED delivered
  /\ UNCHANGED <<blocking, handleVars, driverVars>>

\* GetOverlappedResult waits for the read to be over, however it ends.
GetOverlappedResult ==
  /\ pc = "result" /\ io # "pending"
  /\ read_pending' = FALSE
  /\ IF io = "done" THEN Return(buf) /\ delivered' = delivered \cup {buf}
                    ELSE Return(-1) /\ UNCHANGED delivered
  /\ UNCHANGED <<blocking, io, buf, event, driverVars>>

----------------------------------------------------------------------------
(* The other calls: a write or a feature report waits for its own transfer *)
(* while the read it knows nothing of goes on.                             *)

HidWrite ==
  /\ pc = "idle" /\ pc' = "writing"
  /\ UNCHANGED <<ms, ret, blocking, delivered, handleVars, driverVars>>

HidWriteReturns ==
  /\ pc = "writing" /\ pc' = "idle"
  /\ UNCHANGED <<ms, ret, blocking, delivered, handleVars, driverVars>>

HidSetNonblocking ==
  /\ pc = "idle"
  /\ blocking' = ~blocking
  /\ UNCHANGED <<pc, ms, ret, delivered, handleVars, driverVars>>

----------------------------------------------------------------------------
(* The driver and the device.                                              *)

\* The pending read is over; its event is set.
Complete(how, report) ==
  /\ io = "pending"
  /\ io' = how /\ buf' = report /\ event' = TRUE
  /\ UNCHANGED read_pending

\* A report goes to the pending read, or into the ring, where it may push
\* out the oldest.  With no handle there is nowhere to keep it.
DeviceSend ==
  /\ plugged /\ sent < MaxReports
  /\ sent' = sent + 1
  /\ \/ Complete("done", sent + 1) /\ UNCHANGED <<ring, lost>>
     \/ /\ io # "pending" /\ pc # "closed"
        /\ IF Len(ring) < RingSize
           THEN ring' = Append(ring, sent + 1) /\ UNCHANGED lost
           ELSE /\ ring' = Append(Tail(ring), sent + 1)
                /\ lost' = lost \cup {Head(ring)}
        /\ UNCHANGED handleVars
     \/ /\ pc = "closed" /\ lost' = lost \cup {sent + 1}
        /\ UNCHANGED <<ring, handleVars>>
  /\ UNCHANGED <<pc, ms, ret, blocking, delivered, plugged>>

\* The ring goes with the device, a report already fetched stays.
Unplug ==
  /\ plugged /\ plugged' = FALSE
  /\ ring' = <<>> /\ lost' = lost \cup ToSet(ring)
  /\ UNCHANGED <<pc, ms, ret, blocking, delivered, handleVars, sent>>

ReadFails ==
  /\ ~plugged \/ "complete" \in Faults
  /\ Complete("failed", 0)
  /\ UNCHANGED <<pc, ms, ret, blocking, delivered, driverVars>>

\* A device that comes back answers no old handle.
Replug ==
  /\ pc = "closed" /\ ~plugged
  /\ plugged' = TRUE
  /\ UNCHANGED <<pc, ms, ret, blocking, delivered, handleVars, ring, sent, lost>>

----------------------------------------------------------------------------

InsideRead == WaitReturns \/ WaitTimesOut \/ GetOverlappedResult

Next ==
  \/ HidOpenPath \/ HidClose \/ HidReadTimeout \/ HidRead \/ InsideRead
  \/ HidWrite \/ HidWriteReturns \/ HidSetNonblocking
  \/ DeviceSend \/ Unplug \/ ReadFails \/ Replug

\* Inside a read the caller goes on, a deadline passes, and the driver ends
\* the pending read of a device that is gone.
FairSpec ==
  /\ Init /\ [][Next]_vars
  /\ WF_vars(InsideRead)
  /\ WF_vars(~plugged /\ ReadFails)

----------------------------------------------------------------------------

\* Every report is in one place: returned, on its way (older than those still
\* to come and newer than those returned), or dropped by the driver.  A read
\* that gives up, joins a pending one, fails or is closed in between neither
\* loses a report nor returns it twice.
Accounted ==
  /\ \A i, j \in 1..Len(Held) : i < j => Held[i] < Held[j]
  /\ \A r \in delivered, s \in ToSet(Held) : r < s
  /\ 1..sent = delivered \cup ToSet(Held) \cup lost
  /\ lost \cap (delivered \cup ToSet(Held)) = {}

\* A timed or non-blocking read says "no data" only when nothing is there:
\* no report fetched or in the ring, and no failure to report (the event is
\* never lost between two calls).
ZeroMeansNothing ==
  [][pc = "wait" /\ pc' = "idle" => Held = <<>> /\ io = "pending"]_vars

\* A read returns: a timed one in any case, a blocking one when a report is
\* there for it or the device is gone.
ReadReturns ==
  /\ pc = "wait" ~> pc = "idle"
  /\ pc = "result" /\ (Held # <<>> \/ ~plugged) ~> pc = "idle"
=============================================================================
