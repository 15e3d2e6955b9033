----------------------------- MODULE HidChannel -----------------------------
(***************************************************************************)
(* What an open hidapi handle promises the programs that read from it: a   *)
(* bounded FIFO of input reports that loses only the oldest reports, only  *)
(* when it is full, and that fails a read only when the link is down and,  *)
(* unless EagerErrors, everything received has been handed out.  What      *)
(* hidapi/hid-libusb.c (HidLibusb, HidLibusbProofs) and hid-macosx.c       *)
(* (HidMac, HidMacProofs) implement.                                       *)
(***************************************************************************)
EXTENDS Integers, Sequences

CONSTANTS Capacity,   \* reports the queue holds before it starts to drop
          EagerErrors \* a read may fail although reports are queued

VARIABLES open,       \* the handle is open
          up,         \* the device has not been seen to go away
          queue,      \* reports received and not yet read, oldest first
          arrived,    \* number of reports received so far, in device order
          got,        \* the report the latest successful read returned
          ret         \* the result of the latest read: -1 error, 0 none

vars == <<open, up, queue, arrived, got, ret>>

Init ==
  /\ ~open /\ ~up
  /\ queue = <<>>
  /\ arrived = 0 /\ got = 0
  /\ ret = 0

Open ==
  /\ ~open
  /\ open' /\ up'
  /\ UNCHANGED <<queue, arrived, got, ret>>

\* The next report arrives; a full queue loses its oldest report.
Arrive ==
  /\ open /\ up
  /\ arrived' = arrived + 1
  /\ queue' = IF Len(queue) < Capacity THEN Append(queue, arrived + 1)
              ELSE Tail(Append(queue, arrived + 1))
  /\ UNCHANGED <<open, up, got, ret>>

\* A report that reaches a handle being closed is lost.
ArriveTooLate ==
  /\ ~open
  /\ arrived' = arrived + 1
  /\ UNCHANGED <<open, up, queue, got, ret>>

\* From here on nothing more arrives.
Disconnect ==
  /\ open /\ ~up'
  /\ UNCHANGED <<open, queue, arrived, got, ret>>

\* A read takes the oldest report.
ReadReport ==
  /\ open /\ queue # <<>>
  /\ queue' = Tail(queue)
  /\ got' = Head(queue)
  /\ ret' = Head(queue)
  /\ UNCHANGED <<open, up, arrived>>

\* A read has no result while it waits, and a non-blocking or timed one may
\* come back empty-handed.
ReadNothing ==
  /\ open
  /\ ret' = 0
  /\ UNCHANGED <<open, up, queue, arrived, got>>

\* A read fails only after the disconnect, with no report left to return.
ReadFails ==
  /\ open /\ ~up /\ (queue = <<>> \/ EagerErrors)
  /\ ret' = -1
  /\ UNCHANGED <<open, up, queue, arrived, got>>

Close ==
  /\ open
  /\ ~open' /\ ~up'
  /\ queue' = <<>>
  /\ UNCHANGED <<arrived, got, ret>>

Next ==
  \/ Open \/ Arrive \/ ArriveTooLate \/ Disconnect \/ Close
  \/ ReadReport \/ ReadNothing \/ ReadFails

Spec == Init /\ [][Next]_vars
=============================================================================
