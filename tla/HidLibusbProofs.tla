--------------------------- MODULE HidLibusbProofs ---------------------------
(***************************************************************************)
(* Proofs about HidLibusb for every number of clients and reports, every   *)
(* queue limit and every set of faults.                                    *)
(***************************************************************************)
EXTENDS HidLibusb, ReportRuns, TLAPS

USE ConstantsAssumption DEF ConstantsAssumption, AllFaults

----------------------------------------------------------------------------
(* The queue.                                                              *)

\* Adding a report keeps the type of the queue and its bound.
LEMMA EnqueueType ==
  ASSUME NEW q \in Seq(1..MaxReports), NEW r \in 1..MaxReports,
         Len(q) <= QLimit + 2
  PROVE  /\ Enqueue(q, r) \in Seq(1..MaxReports)
         /\ Len(Enqueue(q, r)) <= QLimit + 2
<1>1. /\ Append(q, r) \in Seq(1..MaxReports)
      /\ Len(Append(q, r)) = Len(q) + 1
      /\ Append(q, r) # <<>>
  OBVIOUS
<1>2. /\ Tail(Append(q, r)) \in Seq(1..MaxReports)
      /\ Len(Tail(Append(q, r))) = Len(q)
  BY <1>1
<1>3. Len(q) \in Nat /\ (q = <<>> => Len(q) = 0)
  OBVIOUS
<1>4. CASE q # <<>> /\ Len(q) - 1 > QLimit
  BY <1>2, <1>4 DEF Enqueue
<1>5. CASE q = <<>>
  BY <1>1, <1>3, <1>5 DEF Enqueue
<1>6. CASE ~(Len(q) - 1 > QLimit)
  BY <1>1, <1>3, <1>6 DEF Enqueue
<1>. QED
  BY <1>4, <1>5, <1>6

----------------------------------------------------------------------------
(* Type correctness.                                                       *)

\* Every step of the session keeps the types.
LEMMA TypeStep == TypeOK /\ QueueInv /\ CallbackInv /\ [Next]_vars => TypeOK'
<1> SUFFICES ASSUME TypeOK, QueueInv, CallbackInv, [Next]_vars PROVE TypeOK'
  OBVIOUS
<1>. USE DEF TypeOK
<1>1. CASE QueueReport
  <2>1. taken \in 1..MaxReports
    BY <1>1 DEF QueueReport, QueueInv
  <2>2. input_reports' \in Seq(1..MaxReports)
    BY <1>1, <2>1, EnqueueType DEF QueueReport, QueueInv
  <2>3. pc' \in [Clients -> {"idle", "barrier", "writing", "lock", "wait",
                   "asleep", "woken", "expired", "cancel", "join", "free"}]
    BY <1>1 DEF QueueReport, Signal, Wake
  <2>4. cb' \in [host : {"none", "read"} \cup Clients,
                 step : {"none", "queue", "resubmit"}]
    BY <1>1 DEF QueueReport
  <2>. QED
    BY <1>1, <2>2, <2>3, <2>4 DEF QueueReport, deviceVars
<1>2. CASE Resubmit
  BY <1>2 DEF Resubmit, NoCallback, clientVars, deviceVars
<1>3. CASE ReadThreadStep
  <2>1. CASE ReadThreadStart
    BY <2>1 DEF ReadThreadStart, clientVars, deviceVars
  <2>2. CASE Loop \/ EventsReturn \/ EventsFatal \/ DrainReturn
    BY <2>2 DEF Loop, EventsReturn, EventsFatal, DrainReturn, ReadThread,
       OnlyRpc, clientVars, deviceVars
  <2>3. CASE CancelOwn
    BY <2>3 DEF CancelOwn, ReadThread, CancelOK, CancelFails, clientVars, deviceVars
  <2>4. CASE WakeReaders
    BY <2>4 DEF WakeReaders, ReadThread, Broadcast, Wake, deviceVars
  <2>. QED
    BY <1>3, <2>1, <2>2, <2>3, <2>4 DEF ReadThreadStep
<1>4. CASE DeviceStep
  <2>1. CASE DeviceSend
    <3>1. sent' \in 0..MaxReports
      BY <2>1 DEF DeviceSend
    <3>2. UNCHANGED <<session, clientVars, rpc, cb, transfer, input_reports,
                      shutdown_thread, blocking, plugged, taken>>
      BY <2>1 DEF DeviceSend
    <3>. QED
      BY <3>1, <3>2 DEF clientVars
  <2>2. CASE Unplug
    <3>1. plugged' \in BOOLEAN
      BY <2>2 DEF Unplug
    <3>2. UNCHANGED <<session, clientVars, rpc, cb, transfer, input_reports,
                      shutdown_thread, blocking, sent, taken>>
      BY <2>2 DEF Unplug
    <3>. QED
      BY <3>1, <3>2 DEF clientVars
  <2>3. CASE Replug
    <3>1. plugged' \in BOOLEAN
      BY <2>3 DEF Replug
    <3>2. UNCHANGED <<session, clientVars, rpc, cb, transfer, input_reports,
                      shutdown_thread, blocking, sent, taken>>
      BY <2>3 DEF Replug
    <3>. QED
      BY <3>1, <3>2 DEF clientVars
  <2>4. CASE Expire
    BY <2>4 DEF Expire, clientVars, deviceVars
  <2>. QED
    BY <1>4, <2>1, <2>2, <2>3, <2>4 DEF DeviceStep
<1>5. ASSUME NEW h \in Hosts, EventStep(h) PROVE TypeOK'
  <2>1. CASE Completed(h)
    BY <2>1 DEF Completed, Hosts, clientVars, deviceVars
  <2>2. CASE Stopped(h)
    BY <2>2 DEF Stopped, clientVars, deviceVars
  <2>3. CASE NotReceived(h)
    BY <2>3 DEF NotReceived, Hosts, clientVars, deviceVars
  <2>. QED
    BY <1>5, <2>1, <2>2, <2>3 DEF EventStep
<1>6. ASSUME NEW c \in Clients, ClientStep(c) PROVE TypeOK'
  <2>1. CASE Open(c)
    BY <2>1 DEF Open, deviceVars
  <2>2. CASE BarrierRelease(c)
    BY <2>2 DEF BarrierRelease, deviceVars
  <2>3. CASE HidReadTimeout(c)
    BY <2>3 DEF HidReadTimeout, BeginRead, Calls, deviceVars
  <2>4. CASE HidRead(c)
    BY <2>4 DEF HidRead, BeginRead, Calls, deviceVars
  <2>5. CASE ReadLocked(c)
    <3>1. CASE ReturnData(c)
      <4>1. /\ Head(input_reports) \in 1..MaxReports
            /\ Tail(input_reports) \in Seq(1..MaxReports)
        BY <3>1 DEF ReturnData
      <4>. QED
        BY <2>5, <3>1, <4>1 DEF ReadLocked, ReturnData, Return, deviceVars
    <3>2. CASE Return(c, -1) /\ UNCHANGED <<got, input_reports>>
      BY <2>5, <3>2 DEF ReadLocked, Return, deviceVars
    <3>3. CASE Return(c, 0) /\ UNCHANGED <<got, input_reports>>
      BY <2>5, <3>3 DEF ReadLocked, Return, deviceVars
    <3>4. CASE /\ pc' = [pc EXCEPT ![c] = "wait"]
               /\ UNCHANGED <<ms, ret, got, input_reports>>
      BY <2>5, <3>4 DEF ReadLocked, deviceVars
    <3>. QED
      BY <2>5, <3>1, <3>2, <3>3, <3>4 DEF ReadLocked
  <2>6. CASE CondWait(c)
    BY <2>6 DEF CondWait, OnlyPc, deviceVars
  <2>7. CASE SpuriousWakeup(c)
    BY <2>7 DEF SpuriousWakeup, Wake, OnlyPc, deviceVars
  <2>8. CASE Timeout(c)
    BY <2>8 DEF Timeout, OnlyPc, deviceVars
  <2>9. CASE ReadExpired(c)
    BY <2>9 DEF ReadExpired, Return, deviceVars
  <2>10. CASE HidWrite(c)
    BY <2>10 DEF HidWrite, Calls, OnlyPc, deviceVars
  <2>11. CASE HidWriteReturn(c)
    BY <2>11 DEF HidWriteReturn, OnlyPc, deviceVars
  <2>12. CASE HidSetNonblocking(c)
    BY <2>12 DEF HidSetNonblocking, clientVars, deviceVars
  <2>13. CASE HidClose(c)
    BY <2>13 DEF HidClose, deviceVars
  <2>14. CASE CloseCancel(c)
    BY <2>14 DEF CloseCancel, CancelOK, CancelFails, deviceVars
  <2>15. CASE CloseJoin(c)
    BY <2>15 DEF CloseJoin, OnlyPc, deviceVars
  <2>16. CASE CloseFree(c)
    BY <2>16 DEF CloseFree, deviceVars
  <2>. QED
    BY <1>6, <2>1, <2>2, <2>3, <2>4, <2>5, <2>6, <2>7, <2>8, <2>9, <2>10,
       <2>11, <2>12, <2>13, <2>14, <2>15, <2>16 DEF ClientStep
<1>7. CASE UNCHANGED vars
  BY <1>7 DEF vars
<1>. QED
  BY <1>1, <1>2, <1>3, <1>4, <1>5, <1>6, <1>7 DEF Next, Callback

----------------------------------------------------------------------------
(* Waking up.                                                              *)

\* Waking the sleepers in S moves them to "woken" and nobody else.
LEMMA WakeEffect ==
  ASSUME NEW S \in SUBSET Asleep, Wake(S), NEW c \in Clients
  PROVE  \/ c \notin S /\ pc'[c] = pc[c]
         \/ c \in S /\ pc[c] = "asleep" /\ pc'[c] = "woken"
BY DEF Wake, Asleep

\* pthread_cond_signal wakes one sleeper if there is one.
LEMMA SignalEffect ==
  ASSUME Signal \/ UNCHANGED pc, NEW c \in Clients
  PROVE  pc'[c] = pc[c] \/ (pc[c] = "asleep" /\ pc'[c] = "woken")
<1>1. CASE UNCHANGED pc
  BY <1>1
<1>2. CASE Signal
  <2>1. CASE Asleep = {}
    BY <1>2, <2>1 DEF Signal
  <2>2. CASE \E d \in Asleep : Wake({d})
    <3>1. PICK d \in Asleep : Wake({d})
      BY <2>2
    <3>. QED
      BY <3>1, WakeEffect
  <2>. QED
    BY <1>2, <2>1, <2>2 DEF Signal
<1>. QED
  BY <1>1, <1>2

----------------------------------------------------------------------------
(* The phases of a handle.                                                 *)

\* Every step keeps the phases of the handle and its threads together.
LEMMA PhaseStep == TypeOK /\ PhaseInv /\ CallbackInv /\ [Next]_vars => PhaseInv'
<1> SUFFICES ASSUME TypeOK, PhaseInv, CallbackInv, [Next]_vars PROVE PhaseInv'
  OBVIOUS
<1>. USE DEF PhaseInv
<1>1. CASE QueueReport
  <2>1. \A c \in Clients :
          pc'[c] = pc[c] \/ (pc[c] = "asleep" /\ pc'[c] = "woken")
    <3>1. Signal \/ UNCHANGED pc
      BY <1>1 DEF QueueReport
    <3>. QED
      BY <3>1, SignalEffect
  <2>2. UNCHANGED <<session, rpc, transfer, shutdown_thread>>
    BY <1>1 DEF QueueReport
  <2>. QED
    BY <2>1, <2>2
<1>2. CASE Resubmit
  <2>1. session \notin {"closed", "opening"}
    BY <1>2 DEF Resubmit, CallbackInv, NoCallback
  <2>2. transfer' # "none" /\ UNCHANGED <<session, pc, rpc>>
    BY <1>2, <2>1 DEF TypeOK, Resubmit, clientVars
  <2>3. session = "closing" => shutdown_thread'
    BY <1>2 DEF Resubmit
  <2>. QED
    BY <2>1, <2>2, <2>3
<1>3. CASE ReadThreadStep
  <2>1. CASE ReadThreadStart
    BY <2>1 DEF ReadThreadStart, clientVars
  <2>2. CASE Loop \/ EventsReturn \/ EventsFatal \/ DrainReturn
    BY <2>2 DEF Loop, EventsReturn, EventsFatal, DrainReturn, ReadThread,
       OnlyRpc, clientVars
  <2>3. CASE CancelOwn
    BY <2>3 DEF CancelOwn, ReadThread, CancelOK, CancelFails, clientVars
  <2>4. CASE WakeReaders
    BY <2>4 DEF WakeReaders, ReadThread, Broadcast, Wake, Asleep
  <2>. QED
    BY <1>3, <2>1, <2>2, <2>3, <2>4 DEF ReadThreadStep
<1>4. CASE DeviceStep
  <2>1. /\ UNCHANGED <<session, pc, rpc, shutdown_thread>>
        /\ \/ transfer' = transfer
           \/ transfer = "submitted" /\ transfer' = "expiring"
    BY <1>4 DEF DeviceStep, DeviceSend, Unplug, Replug, Expire, clientVars
  <2>. QED
    BY <2>1
<1>5. ASSUME NEW h \in Hosts, EventStep(h) PROVE PhaseInv'
  <2>1. session \notin {"closed", "opening"}
    BY <1>5 DEF EventStep, Completed, Stopped, NotReceived, Handles
  <2>2. /\ transfer' = "idle" /\ UNCHANGED <<session, pc, rpc>>
        /\ shutdown_thread' = TRUE \/ UNCHANGED shutdown_thread
    BY <1>5 DEF EventStep, Completed, Stopped, NotReceived, clientVars
  <2>. QED
    BY <2>1, <2>2
<1>6. ASSUME NEW c \in Clients, ClientStep(c) PROVE PhaseInv'
  <2>1. CASE Open(c)
    BY <2>1 DEF TypeOK, Open
  <2>2. CASE BarrierRelease(c)
    BY <2>2 DEF TypeOK, BarrierRelease
  <2>3. CASE HidReadTimeout(c) \/ HidRead(c)
    BY <2>3 DEF TypeOK, HidReadTimeout, HidRead, BeginRead, Calls
  <2>4. CASE ReadLocked(c)
    <3>1. /\ pc' = [pc EXCEPT ![c] = "idle"] \/ pc' = [pc EXCEPT ![c] = "wait"]
          /\ UNCHANGED <<session, rpc, transfer, shutdown_thread>>
      BY <2>4 DEF TypeOK, ReadLocked, ReturnData, Return
    <3>. QED
      BY <2>4, <3>1 DEF TypeOK, ReadLocked
  <2>5. CASE CondWait(c) \/ SpuriousWakeup(c) \/ Timeout(c) \/ ReadExpired(c)
    BY <2>5 DEF TypeOK, CondWait, SpuriousWakeup, Timeout, ReadExpired, Return, Wake,
       Asleep, OnlyPc
  <2>6. CASE HidWrite(c) \/ HidWriteReturn(c) \/ HidSetNonblocking(c)
    BY <2>6 DEF TypeOK, HidWrite, HidWriteReturn, HidSetNonblocking, Calls, OnlyPc,
       clientVars
  <2>7. CASE HidClose(c)
    BY <2>7 DEF TypeOK, HidClose
  <2>8. CASE CloseCancel(c)
    BY <2>8 DEF TypeOK, CloseCancel, CancelOK, CancelFails
  <2>9. CASE CloseJoin(c)
    BY <2>9 DEF TypeOK, CloseJoin, OnlyPc
  <2>10. CASE CloseFree(c)
    BY <2>10 DEF TypeOK, CloseFree
  <2>. QED
    BY <1>6, <2>1, <2>2, <2>3, <2>4, <2>5, <2>6, <2>7, <2>8, <2>9, <2>10
    DEF ClientStep
<1>7. CASE UNCHANGED vars
  BY <1>7 DEF vars
<1>. QED
  BY <1>1, <1>2, <1>3, <1>4, <1>5, <1>6, <1>7 DEF Next, Callback
----------------------------------------------------------------------------
(* The callback and its host.                                              *)

\* Every step keeps a running callback on a thread that handles events.
LEMMA CallbackStep ==
  TypeOK /\ PhaseInv /\ CallbackInv /\ [Next]_vars => CallbackInv'
<1> SUFFICES ASSUME TypeOK, PhaseInv, CallbackInv, [Next]_vars
             PROVE  CallbackInv'
  OBVIOUS
\* A step that leaves the callback, its transfer and its host alone.
<1>0. ASSUME UNCHANGED <<cb, transfer>>,
             cb.host = "read" => UNCHANGED rpc,
             cb.host \in Clients => pc'[cb.host] = pc[cb.host]
      PROVE  CallbackInv'
  BY <1>0 DEF CallbackInv
<1>1. CASE QueueReport
  <2>1. cb' = [host |-> cb.host, step |-> "resubmit"]
    BY <1>1 DEF QueueReport, TypeOK
  <2>2. cb # NoCallback /\ transfer = "idle"
    BY <1>1 DEF QueueReport, CallbackInv, NoCallback
  <2>3. cb.host \in Clients => pc'[cb.host] = "writing"
    <3>1. Signal \/ UNCHANGED pc
      BY <1>1 DEF QueueReport
    <3>2. cb.host \in Clients => pc[cb.host] = "writing"
      BY <2>2 DEF CallbackInv, ConstantsAssumption
    <3>. QED
      BY <3>1, <3>2, SignalEffect
  <2>4. UNCHANGED <<transfer, rpc>>
    BY <1>1 DEF QueueReport
  <2>. QED
    BY <2>1, <2>2, <2>3, <2>4 DEF CallbackInv
<1>2. CASE Resubmit
  BY <1>2 DEF Resubmit, CallbackInv
<1>3. CASE ReadThreadStep
  <2>1. CASE ReadThreadStart
    <3>1. cb = NoCallback
      BY <2>1 DEF ReadThreadStart, PhaseInv, CallbackInv, TypeOK
    <3>. QED
      BY <2>1, <3>1 DEF ReadThreadStart, CallbackInv
  <2>2. CASE Loop \/ EventsReturn \/ EventsFatal \/ DrainReturn
    BY <1>0, <2>2 DEF Loop, EventsReturn, EventsFatal, DrainReturn, ReadThread,
       OnlyRpc, clientVars, CallbackInv, NoCallback
  <2>3. CASE CancelOwn
    <3>1. CASE cb = NoCallback
      BY <2>3, <3>1 DEF CancelOwn, CallbackInv
    <3>2. CASE cb # NoCallback
      <4>1. cb.host # "read" /\ transfer # "submitted"
        BY <2>3, <3>2 DEF CancelOwn, ReadThread, CallbackInv
      <4>. QED
        BY <1>0, <2>3, <4>1 DEF CancelOwn, CancelOK, CancelFails, clientVars
    <3>. QED
      BY <3>1, <3>2
  <2>4. CASE WakeReaders
    <3>1. \A d \in Clients : pc'[d] = pc[d] \/ pc[d] = "asleep"
      BY <2>4, WakeEffect DEF WakeReaders, Broadcast
    <3>. QED
      BY <2>4, <3>1 DEF WakeReaders, ReadThread, CallbackInv, NoCallback
  <2>. QED
    BY <1>3, <2>1, <2>2, <2>3, <2>4 DEF ReadThreadStep
<1>4. CASE DeviceStep
  <2>1. CASE Expire
    BY <2>1 DEF Expire, CallbackInv
  <2>2. CASE DeviceSend \/ Unplug \/ Replug
    BY <1>0, <2>2 DEF DeviceSend, Unplug, Replug, clientVars
  <2>. QED
    BY <1>4, <2>1, <2>2 DEF DeviceStep
<1>5. ASSUME NEW h \in Hosts, EventStep(h) PROVE CallbackInv'
  BY <1>5 DEF EventStep, Completed, Stopped, NotReceived, Handles, Hosts,
     CallbackInv, clientVars
<1>6. ASSUME NEW c \in Clients, ClientStep(c) PROVE CallbackInv'
  \* Outside the phase "open", no callback can be running on a client.
  <2>1. CASE Open(c)
    <3>1. cb = NoCallback
      BY <2>1 DEF Open, PhaseInv, CallbackInv
    <3>. QED
      BY <2>1, <3>1 DEF Open, CallbackInv
  <2>2. CASE BarrierRelease(c)
    BY <2>2 DEF BarrierRelease, PhaseInv, CallbackInv, TypeOK, NoCallback
  <2>3. CASE HidReadTimeout(c) \/ HidRead(c) \/ HidWrite(c)
    BY <1>0, <2>3 DEF HidReadTimeout, HidRead, HidWrite, BeginRead, Calls, OnlyPc,
       TypeOK, CallbackInv, NoCallback
  <2>4. CASE ReadLocked(c)
    <3>1. /\ pc' = [pc EXCEPT ![c] = "idle"] \/ pc' = [pc EXCEPT ![c] = "wait"]
          /\ UNCHANGED <<cb, transfer, rpc>>
      BY <2>4 DEF ReadLocked, ReturnData, Return
    <3>. QED
      BY <1>0, <2>4, <3>1 DEF ReadLocked, TypeOK, CallbackInv, NoCallback
  <2>5. CASE CondWait(c) \/ SpuriousWakeup(c) \/ Timeout(c) \/ ReadExpired(c)
    BY <1>0, <2>5 DEF CondWait, SpuriousWakeup, Timeout, ReadExpired, Return,
       Wake, Asleep, OnlyPc, TypeOK, CallbackInv, NoCallback
  <2>6. CASE HidWriteReturn(c) \/ HidSetNonblocking(c)
    BY <1>0, <2>6 DEF HidWriteReturn, HidSetNonblocking, OnlyPc, clientVars,
       TypeOK
  <2>7. CASE HidClose(c) \/ CloseJoin(c)
    BY <1>0, <2>7 DEF HidClose, CloseJoin, OnlyPc, TypeOK, CallbackInv, NoCallback
  <2>8. CASE CloseCancel(c)
    BY <1>0, <2>8 DEF CloseCancel, CancelOK, CancelFails, TypeOK, CallbackInv,
       NoCallback
  <2>9. CASE CloseFree(c)
    <3>1. cb = NoCallback
      BY <2>9 DEF CloseFree, PhaseInv, CallbackInv, TypeOK
    <3>. QED
      BY <2>9, <3>1 DEF CloseFree, CallbackInv
  <2>. QED
    BY <1>6, <2>1, <2>2, <2>3, <2>4, <2>5, <2>6, <2>7, <2>8, <2>9 DEF ClientStep
<1>7. CASE UNCHANGED vars
  BY <1>7, <1>0 DEF vars
<1>. QED
  BY <1>1, <1>2, <1>3, <1>4, <1>5, <1>6, <1>7 DEF Next, Callback
----------------------------------------------------------------------------
(* After the shutdown.                                                     *)

\* Once shutdown_thread is set nothing is in flight any more.
LEMMA ShutdownStep ==
  TypeOK /\ PhaseInv /\ CallbackInv /\ ShutdownInv /\ [Next]_vars => ShutdownInv'
<1> SUFFICES ASSUME TypeOK, PhaseInv, CallbackInv, ShutdownInv, [Next]_vars
             PROVE  ShutdownInv'
  OBVIOUS
<1>. USE DEF ShutdownInv, InFlight
<1>1. CASE QueueReport
  BY <1>1 DEF QueueReport, NoCallback
<1>2. CASE Resubmit
  <2>1. ~(session = "open" /\ shutdown_thread) /\ UNCHANGED session
    BY <1>2 DEF Resubmit, NoCallback
  <2>2. CASE UNCHANGED shutdown_thread
    BY <2>1, <2>2
  <2>3. CASE UNCHANGED transfer
    BY <1>2, <2>3 DEF Resubmit, CallbackInv, NoCallback
  <2>. QED
    BY <1>2, <2>2, <2>3 DEF Resubmit
<1>3. CASE ReadThreadStep
  <2>1. CASE ReadThreadStart
    BY <2>1 DEF ReadThreadStart, PhaseInv
  <2>2. CASE ~ReadThreadStart
    BY <1>3, <2>2 DEF ReadThreadStep, Loop, EventsReturn, EventsFatal,
       DrainReturn, CancelOwn, CancelOK, CancelFails, WakeReaders, OnlyRpc
  <2>. QED
    BY <2>1, <2>2
<1>4. CASE DeviceStep
  BY <1>4 DEF DeviceStep, DeviceSend, Unplug, Replug, Expire
<1>5. ASSUME NEW h \in Hosts, EventStep(h) PROVE ShutdownInv'
  BY <1>5 DEF EventStep, Completed, Stopped, NotReceived, Handles
<1>6. ASSUME NEW c \in Clients, ClientStep(c) PROVE ShutdownInv'
  <2>1. CASE Open(c) \/ HidClose(c) \/ CloseFree(c)
    BY <2>1 DEF Open, HidClose, CloseFree
  <2>2. CASE BarrierRelease(c)
    BY <2>2 DEF BarrierRelease, PhaseInv, TypeOK
  <2>3. CASE CloseCancel(c)
    BY <2>3 DEF CloseCancel, CancelOK, CancelFails, PhaseInv
  <2>4. CASE UNCHANGED <<session, shutdown_thread, cb, transfer>>
    BY <2>4
  <2>5. \/ Open(c) \/ HidClose(c) \/ CloseFree(c) \/ BarrierRelease(c)
        \/ CloseCancel(c) \/ UNCHANGED <<session, shutdown_thread, cb, transfer>>
    BY <1>6 DEF ClientStep, HidReadTimeout, HidRead, BeginRead, ReadLocked,
       CondWait, SpuriousWakeup, Timeout, ReadExpired, HidWrite, HidWriteReturn,
       HidSetNonblocking, CloseJoin, OnlyPc
  <2>. QED
    BY <2>1, <2>2, <2>3, <2>4, <2>5
<1>7. CASE UNCHANGED vars
  BY <1>7 DEF vars
<1>. QED
  BY <1>1, <1>2, <1>3, <1>4, <1>5, <1>6, <1>7 DEF Next, Callback

----------------------------------------------------------------------------
(* Who goes to sleep.                                                      *)

\* A client comes to wait only from the test that finds the queue empty and
\* no shutdown, with the mutex; it comes to sleep only from there.
LEMMA SleepSteps ==
  ASSUME TypeOK, [Next]_vars, NEW c \in Clients
  PROVE  /\ pc'[c] = "wait" =>
              \/ pc[c] = "wait"
              \/ input_reports = <<>> /\ ~shutdown_thread
         /\ pc'[c] = "asleep" => pc[c] \in {"asleep", "wait"}
<1>. DEFINE Goal == /\ pc'[c] = "wait" => \/ pc[c] = "wait"
                                          \/ input_reports = <<>> /\ ~shutdown_thread
                    /\ pc'[c] = "asleep" => pc[c] \in {"asleep", "wait"}
<1>1. CASE UNCHANGED pc
  BY <1>1
<1>2. CASE QueueReport
  <2>1. Signal \/ UNCHANGED pc
    BY <1>2 DEF QueueReport
  <2>. QED
    BY <2>1, SignalEffect
<1>3. CASE WakeReaders
  BY <1>3, WakeEffect DEF WakeReaders, Broadcast
<1>4. ASSUME NEW d \in Clients, ReadLocked(d) PROVE Goal
  BY <1>4 DEF ReadLocked, ReturnData, Return, TypeOK
<1>5. ASSUME NEW d \in Clients, ClientStep(d), ~ReadLocked(d) PROVE Goal
  <2>1. CASE pc' = [pc EXCEPT ![d] = pc'[d]] /\ pc'[d] \notin {"wait", "asleep"}
    BY <2>1 DEF TypeOK
  <2>2. CASE CondWait(d)
    BY <2>2 DEF CondWait, TypeOK
  <2>3. CASE SpuriousWakeup(d)
    BY <2>3, WakeEffect DEF SpuriousWakeup
  <2>4. CASE HidSetNonblocking(d)
    BY <2>4 DEF HidSetNonblocking, clientVars
  <2>5. CASE ~CondWait(d) /\ ~SpuriousWakeup(d) /\ ~HidSetNonblocking(d)
    <3>1. \E to \in {"idle", "barrier", "writing", "lock", "expired", "cancel",
                     "join", "free"} : pc' = [pc EXCEPT ![d] = to]
      BY <1>5, <2>5 DEF ClientStep, Open, BarrierRelease, HidReadTimeout, HidRead,
         BeginRead, Calls, Timeout, ReadExpired, Return, HidWrite,
         HidWriteReturn, HidClose, CloseCancel, CloseJoin, CloseFree
    <3>. QED
      BY <3>1 DEF TypeOK
  <2>. QED
    BY <2>2, <2>3, <2>4, <2>5
<1>6. CASE ReadThreadStep /\ ~WakeReaders
  BY <1>6 DEF ReadThreadStep, ReadThreadStart, Loop, EventsReturn, EventsFatal,
     CancelOwn, DrainReturn, OnlyRpc, clientVars
<1>7. CASE DeviceStep \/ Resubmit
  BY <1>7 DEF DeviceStep, DeviceSend, Unplug, Replug, Expire, Resubmit, clientVars
<1>8. ASSUME NEW h \in Hosts, EventStep(h) PROVE UNCHANGED pc
  BY <1>8 DEF EventStep, Completed, Stopped, NotReceived, clientVars
<1>. QED
  BY <1>1, <1>2, <1>3, <1>4, <1>5, <1>6, <1>7, <1>8 DEF Next, Callback, vars

----------------------------------------------------------------------------
(* The end of the read thread, when no event loop fails for good.          *)

\* Without fatal errors the loop ends only on shutdown_thread.
LEMMA EndStep ==
  ASSUME "fatal" \notin Faults
  PROVE  TypeOK /\ PhaseInv /\ EndInv /\ [Next]_vars => EndInv'
<1> SUFFICES ASSUME TypeOK, PhaseInv, EndInv, [Next]_vars PROVE EndInv'
  OBVIOUS
<1>1. rpc' \in {"cancel", "drain", "wake", "done"} => shutdown_thread'
  <2>1. CASE ReadThreadStep
    BY <2>1 DEF ReadThreadStep, ReadThreadStart, Loop, EventsReturn, EventsFatal,
       CancelOwn, DrainReturn, WakeReaders, ReadThread, OnlyRpc, EndInv
  <2>2. CASE Callback \/ DeviceStep
    BY <2>2 DEF Callback, QueueReport, Resubmit, DeviceStep, DeviceSend, Unplug,
       Replug, Expire, EndInv
  <2>3. ASSUME NEW h \in Hosts, EventStep(h)
        PROVE  UNCHANGED rpc /\ (shutdown_thread' \/ UNCHANGED shutdown_thread)
    BY <2>3 DEF EventStep, Completed, Stopped, NotReceived
  <2>4. ASSUME NEW c \in Clients, ClientStep(c)
        PROVE  \/ rpc' \in {"start", "none", "loop"}
               \/ UNCHANGED rpc /\ (shutdown_thread' \/ UNCHANGED shutdown_thread)
    BY <2>4 DEF ClientStep, Open, BarrierRelease, HidReadTimeout, HidRead,
       BeginRead, ReadLocked, CondWait, SpuriousWakeup, Timeout, ReadExpired,
       HidWrite, HidWriteReturn, HidSetNonblocking, HidClose, CloseCancel,
       CloseJoin, CloseFree, OnlyPc
  <2>5. CASE UNCHANGED vars
    BY <2>5 DEF vars, EndInv
  <2>. QED
    BY <2>1, <2>2, <2>3, <2>4, <2>5 DEF Next, EndInv
<1>2. rpc' = "done" => \A c \in Clients : pc'[c] \notin {"wait", "asleep"}
  <2>1. CASE WakeReaders
    BY <2>1, WakeEffect DEF WakeReaders, Broadcast, MutexFree, Asleep
  <2>2. CASE ~WakeReaders
    <3>1. rpc' = "done" => rpc = "done"
      <4>1. CASE ReadThreadStep
        BY <2>2, <4>1 DEF ReadThreadStep, ReadThreadStart, Loop, EventsReturn,
           EventsFatal, CancelOwn, DrainReturn, ReadThread
      <4>2. CASE Callback \/ DeviceStep
        BY <4>2 DEF Callback, QueueReport, Resubmit, DeviceStep, DeviceSend,
           Unplug, Replug, Expire
      <4>3. ASSUME NEW h \in Hosts, EventStep(h) PROVE UNCHANGED rpc
        BY <4>3 DEF EventStep, Completed, Stopped, NotReceived
      <4>4. ASSUME NEW c \in Clients, ClientStep(c)
            PROVE  rpc' \in {"start", "none", "loop"} \/ UNCHANGED rpc
        BY <4>4 DEF ClientStep, Open, BarrierRelease, HidReadTimeout, HidRead,
           BeginRead, ReadLocked, CondWait, SpuriousWakeup, Timeout, ReadExpired,
           HidWrite, HidWriteReturn, HidSetNonblocking, HidClose, CloseCancel,
           CloseJoin, CloseFree, OnlyPc
      <4>. QED
        BY <4>1, <4>2, <4>3, <4>4 DEF Next, vars
    <3>2. rpc = "done" => shutdown_thread
      BY DEF EndInv
    <3>. QED
      BY <3>1, <3>2, SleepSteps DEF EndInv
  <2>. QED
    BY <2>1, <2>2
<1>. QED
  BY <1>1, <1>2 DEF EndInv

----------------------------------------------------------------------------
(* The queue is the newest run of reports.                                 *)

\* Every step keeps the reports in step.
LEMMA QueueStep ==
  TypeOK /\ PhaseInv /\ CallbackInv /\ QueueInv /\ [Next]_vars => QueueInv'
<1> SUFFICES ASSUME TypeOK, PhaseInv, CallbackInv, QueueInv, [Next]_vars
             PROVE  QueueInv'
  OBVIOUS
\* A step that leaves the reports alone.
<1>0. ASSUME UNCHANGED <<input_reports, taken, got, sent>>,
             cb' = cb \/ (cb'.step # "queue" /\ cb.step # "queue"),
             session' = session \/ session' \notin {"closed", "opening"}
               \/ session = "closed"
      PROVE  QueueInv'
  BY <1>0 DEF QueueInv, QueueIsNewestRun, Arrived
<1>1. CASE QueueReport
  <2>1. /\ taken \in 1..MaxReports /\ cb.step = "queue"
        /\ input_reports' = Enqueue(input_reports, taken)
        /\ UNCHANGED <<taken, got, sent, session>>
    BY <1>1 DEF QueueReport, QueueInv, TypeOK, deviceVars
  <2>2. cb'.step = "resubmit"
    BY <1>1 DEF QueueReport, TypeOK
  <2>3. got < taken /\ got \in Nat /\ taken <= sent
    BY <2>1 DEF QueueInv, Arrived, TypeOK
  <2>4. session \notin {"closed", "opening"}
    BY <2>1 DEF PhaseInv, CallbackInv, NoCallback
  <2>5. \A i \in 1..Len(input_reports) :
          /\ input_reports[i] = (taken - 1) - Len(input_reports) + i
          /\ got < input_reports[i]
    BY <2>1 DEF QueueInv, QueueIsNewestRun, Arrived
  <2>6. /\ Len(input_reports') <= QLimit + 2
        /\ \A i \in 1..Len(input_reports') :
             /\ input_reports'[i] = taken - Len(input_reports') + i
             /\ got < input_reports'[i]
    <3>1. input_reports \in Seq(1..MaxReports) /\ Len(input_reports) <= QLimit + 2
      BY DEF TypeOK, QueueInv
    <3>2. Len(Enqueue(input_reports, taken)) <= QLimit + 2
      BY <2>1, <3>1, EnqueueType
    <3>3. \A i \in 1..Len(Enqueue(input_reports, taken)) :
            /\ Enqueue(input_reports, taken)[i]
                 = taken - Len(Enqueue(input_reports, taken)) + i
            /\ got < Enqueue(input_reports, taken)[i]
      <4>1. \/ Enqueue(input_reports, taken) = Append(input_reports, taken)
            \/ Enqueue(input_reports, taken) = Tail(Append(input_reports, taken))
        BY DEF Enqueue
      <4>. QED
        BY <2>1, <2>3, <2>5, <3>1, <4>1, ArrivalRun
    <3>. QED
      BY <2>1, <3>2, <3>3
  <2>7. Arrived' = taken
    BY <2>1, <2>2 DEF Arrived
  <2>8. QueueIsNewestRun'
    BY <2>1, <2>6, <2>7 DEF QueueIsNewestRun
  <2>. QED
    BY <2>1, <2>2, <2>3, <2>4, <2>6, <2>7, <2>8 DEF QueueInv
<1>2. CASE Resubmit
  BY <1>0, <1>2 DEF Resubmit, NoCallback, clientVars, deviceVars
<1>3. CASE ReadThreadStep
  BY <1>0, <1>3 DEF ReadThreadStep, ReadThreadStart, Loop, EventsReturn, EventsFatal,
     CancelOwn, DrainReturn, WakeReaders, OnlyRpc, clientVars, deviceVars
<1>4. CASE DeviceStep
  <2>1. CASE DeviceSend
    BY <2>1 DEF DeviceSend, clientVars, TypeOK, QueueInv, QueueIsNewestRun, Arrived
  <2>2. CASE Unplug \/ Replug \/ Expire
    BY <1>0, <2>2 DEF Unplug, Replug, Expire, clientVars, deviceVars
  <2>. QED
    BY <1>4, <2>1, <2>2 DEF DeviceStep
<1>5. ASSUME NEW h \in Hosts, EventStep(h) PROVE QueueInv'
  <2>1. CASE Completed(h)
    <3>1. /\ cb.step # "queue" /\ cb'.step = "queue" /\ taken < sent
          /\ taken' = taken + 1
          /\ UNCHANGED <<input_reports, got, sent, session>>
      BY <2>1 DEF Completed, Handles, NoCallback, clientVars, deviceVars
    <3>2. Arrived' = Arrived /\ taken' <= sent' /\ taken' > 0
      BY <3>1 DEF Arrived, TypeOK
    <3>. QED
      BY <3>1, <3>2 DEF QueueInv, QueueIsNewestRun
  <2>2. CASE Stopped(h) \/ NotReceived(h)
    BY <1>0, <2>2 DEF Stopped, NotReceived, Handles, NoCallback, clientVars, deviceVars
  <2>. QED
    BY <1>5, <2>1, <2>2 DEF EventStep
<1>6. ASSUME NEW c \in Clients, ClientStep(c) PROVE QueueInv'
  <2>1. CASE ReadLocked(c) /\ ReturnData(c)
    <3>1. /\ input_reports # <<>> /\ got' = Head(input_reports)
          /\ input_reports' = Tail(input_reports)
          /\ UNCHANGED <<cb, taken, sent, session>>
      BY <2>1 DEF ReadLocked, ReturnData, deviceVars
    <3>2. Arrived \in Nat /\ Arrived' = Arrived
      BY <3>1 DEF Arrived, TypeOK, QueueInv
    <3>3. /\ \A i \in 1..Len(input_reports) :
               input_reports[i] = Arrived - Len(input_reports) + i
          /\ input_reports \in Seq(1..MaxReports)
      BY DEF QueueInv, QueueIsNewestRun, TypeOK
    <3>4. /\ got' <= Arrived
          /\ Len(input_reports') = Len(input_reports) - 1
          /\ \A i \in 1..Len(input_reports') :
               input_reports'[i] = Arrived - Len(input_reports') + i
               /\ got' < input_reports'[i]
      BY <3>1, <3>2, <3>3, TailRun
    <3>5. Len(input_reports) \in Nat
      BY <3>3
    <3>6. session \notin {"closed", "opening"}
      BY <3>1 DEF QueueInv
    <3>7. QueueIsNewestRun'
      BY <3>2, <3>4 DEF QueueIsNewestRun
    <3>. QED
      BY <3>1, <3>2, <3>4, <3>5, <3>6, <3>7 DEF QueueInv
  <2>2. CASE CloseFree(c)
    <3>1. /\ input_reports' = <<>>
          /\ UNCHANGED <<cb, taken, got, sent>>
      BY <2>2 DEF CloseFree, deviceVars
    <3>. QED
      BY <3>1 DEF QueueInv, QueueIsNewestRun, Arrived
  <2>3. CASE ~(ReadLocked(c) /\ ReturnData(c)) /\ ~CloseFree(c)
    <3>1. UNCHANGED <<cb, input_reports, taken, got, sent>>
      BY <1>6, <2>3 DEF ClientStep, Open, BarrierRelease, HidReadTimeout, HidRead,
         BeginRead, ReadLocked, CondWait, SpuriousWakeup, Timeout, ReadExpired,
         HidWrite, HidWriteReturn, HidSetNonblocking, HidClose, CloseCancel,
         CloseJoin, OnlyPc, clientVars, deviceVars
    <3>2. \/ session' = session \/ session' \notin {"closed", "opening"}
          \/ session = "closed"
      BY <1>6, <2>3 DEF ClientStep, Open, BarrierRelease, HidReadTimeout, HidRead,
         BeginRead, ReadLocked, CondWait, SpuriousWakeup, Timeout, ReadExpired,
         HidWrite, HidWriteReturn, HidSetNonblocking, HidClose, CloseCancel,
         CloseJoin, OnlyPc
    <3>. QED
      BY <1>0, <3>1, <3>2
  <2>. QED
    BY <2>1, <2>2, <2>3
<1>7. CASE UNCHANGED vars
  BY <1>0, <1>7 DEF vars
<1>. QED
  BY <1>1, <1>2, <1>3, <1>4, <1>5, <1>6, <1>7 DEF Next, Callback

----------------------------------------------------------------------------
(* Safety.                                                                 *)

IInv == /\ TypeOK /\ PhaseInv /\ CallbackInv /\ ShutdownInv
        /\ QueueInv

\* The session starts in the invariant.
LEMMA InitInv == Init => IInv /\ EndInv
<1> SUFFICES ASSUME Init PROVE IInv /\ EndInv
  OBVIOUS
<1>1. TypeOK
  <2>1. input_reports \in Seq(1..MaxReports)
    BY DEF Init
  <2>2. /\ plugged \in BOOLEAN /\ blocking \in BOOLEAN
        /\ shutdown_thread \in BOOLEAN
    BY DEF Init
  <2>3. ret \in -1..MaxReports /\ ms \in [Clients -> {-1, 0, 1}]
    BY DEF Init
  <2>. QED
    BY <2>1, <2>2, <2>3 DEF Init, TypeOK, NoCallback
<1>2. PhaseInv /\ CallbackInv /\ ShutdownInv /\ EndInv
  BY DEF Init, PhaseInv, CallbackInv, ShutdownInv, EndInv
<1>3. QueueInv
  BY DEF Init, QueueInv, QueueIsNewestRun, Arrived, NoCallback
<1>. QED
  BY <1>1, <1>2, <1>3 DEF IInv

\* The inductive invariant of a handle holds throughout.
THEOREM Invariant == Spec => []IInv
<1>1. Init => IInv
  BY InitInv
<1>2. IInv /\ [Next]_vars => IInv'
  BY TypeStep, PhaseStep, CallbackStep, ShutdownStep, QueueStep DEF IInv
<1>. QED
  BY <1>1, <1>2, PTL DEF Spec

\* Type correctness of HidLibusb.
THEOREM TypeCorrect == Spec => []TypeOK
<1>1. IInv => TypeOK
  BY DEF IInv
<1>. QED
  BY <1>1, Invariant, PTL

\* read_callback and return_data keep the queue the run of the newest
\* reports, and no report is handed out twice or out of order.
THEOREM QueueOrder == Spec => []QueueIsNewestRun
<1>1. IInv => QueueIsNewestRun
  BY DEF IInv, QueueInv
<1>. QED
  BY <1>1, Invariant, PTL

\* A handle that hid_open_path has returned has its transfer and its thread.
THEOREM Ready == Spec => []OpenIsReady
<1>1. IInv => OpenIsReady
  BY DEF IInv, PhaseInv, OpenIsReady
<1>. QED
  BY <1>1, Invariant, PTL

\* hid_close frees the handle when nobody else uses it: the callback, whose
\* host would be the read thread or a writing client, is over as well.
THEOREM ExclusiveFree == Spec => []FreeIsExclusive
<1>1. IInv => FreeIsExclusive
  <2> SUFFICES ASSUME IInv, NEW c \in Clients, pc[c] = "free"
               PROVE  /\ rpc = "done" /\ cb = NoCallback
                      /\ \A d \in Clients \ {c} : pc[d] = "idle"
    BY DEF FreeIsExclusive
  <2>1. rpc = "done" /\ session = "closing"
    BY DEF IInv, PhaseInv, TypeOK
  <2>2. \A d \in Clients \ {c} : pc[d] = "idle"
    BY <2>1 DEF IInv, PhaseInv
  <2>3. cb = NoCallback
    BY <2>1, <2>2 DEF IInv, CallbackInv
  <2>. QED
    BY <2>1, <2>2, <2>3
<1>. QED
  BY <1>1, Invariant, PTL

\* Unless libusb_handle_events fails for good, the end of the read thread
\* leaves no reader asleep.
THEOREM NoSleeper ==
  ASSUME "fatal" \notin Faults
  PROVE  Spec => []NoSleeperLeft
<1>1. Init => EndInv
  BY InitInv
<1>2. IInv /\ EndInv /\ [Next]_vars => EndInv'
  BY EndStep DEF IInv
<1>3. EndInv => NoSleeperLeft
  BY DEF EndInv, NoSleeperLeft, Asleep
<1>. QED
  BY <1>1, <1>2, <1>3, Invariant, PTL DEF Spec

----------------------------------------------------------------------------
(* The handle implements the lossy FIFO of HidChannel.                     *)

\* The handle starts as a closed channel.
LEMMA ChannelInit == Init => Channel!Init
BY DEF Init, Channel!Init, Arrived, NoCallback

\* A step that changes nothing the channel shows.
LEMMA ChannelStutter ==
  ASSUME UNCHANGED <<got, ret>>, Arrived' = Arrived,
         \/ UNCHANGED <<session, shutdown_thread, input_reports>>
         \/ session # "open" /\ session' # "open"
  PROVE  UNCHANGED Channel!vars
BY DEF Channel!vars

\* The device is seen to be gone.
LEMMA ChannelShutdown ==
  ASSUME UNCHANGED <<got, ret, session, input_reports>>, Arrived' = Arrived,
         shutdown_thread' = TRUE
  PROVE  [Channel!Next]_Channel!vars
<1>1. CASE session = "open"
  <2>1. Channel!Disconnect
    BY <1>1 DEF Channel!Disconnect
  <2>. QED
    BY <2>1 DEF Channel!Next
<1>2. CASE session # "open"
  BY <1>2, ChannelStutter
<1>. QED
  BY <1>1, <1>2

\* Every step of the session is one of the channel, or changes nothing it shows.
LEMMA ChannelStep == IInv /\ [Next]_vars => [Channel!Next]_Channel!vars
<1> SUFFICES ASSUME IInv, [Next]_vars PROVE [Channel!Next]_Channel!vars
  OBVIOUS
<1>. USE DEF IInv
<1>1. CASE QueueReport
  <2>1. /\ Arrived + 1 = taken /\ Arrived' = taken
        /\ input_reports' = Enqueue(input_reports, Arrived + 1)
        /\ UNCHANGED <<session, got, ret, shutdown_thread>>
    BY <1>1 DEF QueueReport, Arrived, TypeOK
  <2>2. cb # NoCallback
    BY <1>1 DEF QueueReport, NoCallback
  <2>3. CASE session = "open"
    <3>1. ~shutdown_thread
      BY <2>2, <2>3 DEF ShutdownInv
    <3>2. /\ Len(input_reports) \in Nat
          /\ input_reports = <<>> => Len(input_reports) = 0
      BY DEF TypeOK
    <3>3. Enqueue(input_reports, Arrived + 1) =
            IF Len(input_reports) < QLimit + 2
            THEN Append(input_reports, Arrived + 1)
            ELSE Tail(Append(input_reports, Arrived + 1))
      BY <3>2 DEF Enqueue
    <3>4. Channel!Arrive
      BY <2>1, <2>3, <3>1, <3>3 DEF Channel!Arrive
    <3>. QED
      BY <3>4 DEF Channel!Next
  <2>4. CASE session # "open"
    <3>1. Channel!ArriveTooLate
      BY <2>1, <2>4 DEF Channel!ArriveTooLate
    <3>. QED
      BY <3>1 DEF Channel!Next
  <2>. QED
    BY <2>3, <2>4
<1>2. CASE Resubmit
  <2>1. /\ UNCHANGED <<got, ret, session, input_reports>> /\ Arrived' = Arrived
        /\ UNCHANGED shutdown_thread \/ shutdown_thread' = TRUE
    BY <1>2 DEF Resubmit, Arrived, NoCallback, clientVars
  <2>. QED
    BY <2>1, ChannelStutter, ChannelShutdown
<1>3. CASE ReadThreadStep
  <2>1. /\ UNCHANGED <<got, ret, session, input_reports, shutdown_thread>>
        /\ Arrived' = Arrived
    BY <1>3 DEF ReadThreadStep, ReadThreadStart, Loop, EventsReturn, EventsFatal,
       CancelOwn, DrainReturn, WakeReaders, OnlyRpc, clientVars, Arrived
  <2>. QED
    BY <2>1, ChannelStutter
<1>4. CASE DeviceStep
  <2>1. /\ UNCHANGED <<got, ret, session, input_reports, shutdown_thread>>
        /\ Arrived' = Arrived
    BY <1>4 DEF DeviceStep, DeviceSend, Unplug, Replug, Expire, clientVars, Arrived
  <2>. QED
    BY <2>1, ChannelStutter
<1>5. ASSUME NEW h \in Hosts, EventStep(h) PROVE [Channel!Next]_Channel!vars
  <2>1. UNCHANGED <<got, ret, session, input_reports>>
    BY <1>5 DEF EventStep, Completed, Stopped, NotReceived, clientVars
  <2>2. Arrived' = Arrived
    BY <1>5 DEF EventStep, Completed, Stopped, NotReceived, Handles, NoCallback,
       Arrived, TypeOK
  <2>3. UNCHANGED shutdown_thread \/ shutdown_thread' = TRUE
    BY <1>5 DEF EventStep, Completed, Stopped, NotReceived
  <2>. QED
    BY <2>1, <2>2, <2>3, ChannelStutter, ChannelShutdown
<1>6. ASSUME NEW c \in Clients, ClientStep(c) PROVE [Channel!Next]_Channel!vars
  <2>1. CASE BarrierRelease(c)
    <3>1. session = "opening" /\ ~shutdown_thread /\ input_reports = <<>>
      BY <2>1 DEF BarrierRelease, PhaseInv, QueueInv, TypeOK
    <3>2. Channel!Open
      BY <2>1, <3>1 DEF BarrierRelease, Channel!Open, Arrived
    <3>. QED
      BY <3>2 DEF Channel!Next
  <2>2. CASE ReadLocked(c)
    <3>1. session = "open"
      BY <2>2 DEF ReadLocked, PhaseInv, TypeOK
    <3>2. UNCHANGED <<session, shutdown_thread>> /\ Arrived' = Arrived
      BY <2>2 DEF ReadLocked, Arrived
    <3>3. CASE ReturnData(c)
      <4>1. Channel!ReadReport
        BY <3>1, <3>2, <3>3 DEF ReturnData, Return, Channel!ReadReport
      <4>. QED
        BY <4>1 DEF Channel!Next
    <3>4. CASE Return(c, -1) /\ shutdown_thread /\ input_reports = <<>>
               /\ UNCHANGED <<got, input_reports>>
      <4>1. Channel!ReadFails
        BY <3>1, <3>2, <3>4 DEF Return, Channel!ReadFails
      <4>. QED
        BY <4>1 DEF Channel!Next
    <3>5. CASE Return(c, 0) /\ UNCHANGED <<got, input_reports>>
      <4>1. Channel!ReadNothing
        BY <3>1, <3>2, <3>5 DEF Return, Channel!ReadNothing
      <4>. QED
        BY <4>1 DEF Channel!Next
    <3>6. CASE UNCHANGED <<ret, got, input_reports>>
      BY <3>2, <3>6, ChannelStutter
    <3>. QED
      BY <2>2, <3>3, <3>4, <3>5, <3>6 DEF ReadLocked
  <2>3. CASE ReadExpired(c)
    <3>1. session = "open"
      BY <2>3 DEF ReadExpired, PhaseInv, TypeOK
    <3>2. Channel!ReadNothing
      BY <2>3, <3>1 DEF ReadExpired, Return, Channel!ReadNothing, Arrived
    <3>. QED
      BY <3>2 DEF Channel!Next
  <2>4. CASE HidClose(c)
    <3>1. Channel!Close
      BY <2>4 DEF HidClose, Channel!Close, Arrived
    <3>. QED
      BY <3>1 DEF Channel!Next
  <2>5. CASE Open(c) \/ CloseFree(c)
    <3>1. session # "open" /\ session' # "open"
      BY <2>5 DEF Open, CloseFree, PhaseInv
    <3>2. UNCHANGED <<got, ret>> /\ Arrived' = Arrived
      BY <2>5 DEF Open, CloseFree, Arrived
    <3>. QED
      BY <3>1, <3>2, ChannelStutter
  <2>6. CASE HidReadTimeout(c) \/ HidRead(c)
    <3>1. PICK milliseconds : BeginRead(c, milliseconds)
      BY <2>6 DEF HidReadTimeout, HidRead
    <3>2. Channel!ReadNothing
      BY <3>1 DEF BeginRead, Calls, Channel!ReadNothing, Arrived
    <3>. QED
      BY <3>2 DEF Channel!Next
  <2>7. CASE /\ ~BarrierRelease(c) /\ ~ReadLocked(c) /\ ~ReadExpired(c)
             /\ ~HidClose(c) /\ ~Open(c) /\ ~CloseFree(c)
             /\ ~HidReadTimeout(c) /\ ~HidRead(c)
    <3>1. /\ UNCHANGED <<got, ret, session, input_reports, shutdown_thread>>
          /\ Arrived' = Arrived
      BY <1>6, <2>7 DEF ClientStep, CondWait, SpuriousWakeup, Timeout,
         HidWrite, HidWriteReturn, HidSetNonblocking, CloseCancel, CloseJoin, OnlyPc, clientVars, Arrived
    <3>. QED
      BY <3>1, ChannelStutter
  <2>. QED
    BY <2>1, <2>2, <2>3, <2>4, <2>5, <2>6, <2>7
<1>7. CASE UNCHANGED vars
  BY <1>7, ChannelStutter DEF vars, Arrived
<1>. QED
  BY <1>1, <1>2, <1>3, <1>4, <1>5, <1>6, <1>7 DEF Next, Callback

\* hid-libusb.c implements the channel: reports come out in order, a read
\* fails only after the disconnect and with nothing left to return, and no
\* report turns up after that; only a full queue loses reports.
THEOREM Refinement == Spec => ImplementsChannel
<1>1. Init => Channel!Init
  BY ChannelInit
<1>2. IInv /\ [Next]_vars => [Channel!Next]_Channel!vars
  BY ChannelStep
<1>. QED
  BY <1>1, <1>2, Invariant, PTL DEF Spec, ImplementsChannel, Channel!Spec
=============================================================================
