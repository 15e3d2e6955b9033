---------------------------- MODULE HidMacProofs ----------------------------
(***************************************************************************)
(* Proofs about HidMac for every finite set of clients, any number of      *)
(* reports, every queue limit and every set of faults.                     *)
(***************************************************************************)
EXTENDS HidMac, ReportRuns, FiniteSetTheorems, TLAPS

USE MacAssumption DEF MacAssumption, AllFaults

----------------------------------------------------------------------------
(* The inductive invariant.                                                *)

\* A client in hid_open_path, in a read and in hid_close.
Opens == {"start", "startWait"}
Reads == {"lock", "wait", "asleep", "woken", "expired"}
Closes == {"signal", "wakeup", "shutdown", "shutdownWait", "join", "free"}

\* Where the read thread is before its run loop and after it.
Starts == {"none", "setup", "start", "startWait"}
Runs == {"loop", "run", "report"}
Ended == {"shutdown", "shutdownWait", "ending", "done"}

Alone(c) == \A d \in Clients \ {c} : pc[d] = "idle"

\* What the handle is doing, and who may be in which call.
PhaseInv ==
  /\ session = "closed" => rpc = "none"
  /\ \A c \in Clients :
       /\ pc[c] \in Opens => session = "opening" /\ Alone(c)
       /\ pc[c] \in Reads => session = "open"
       /\ pc[c] \in Closes => session = "closing" /\ Alone(c)
       /\ pc[c] = "free" => rpc = "done"
       /\ pc[c] = "crashed" => session = "crashed"

\* The flags and the run loop: while it runs for a handle that is not being
\* closed no flag is set, and once it has stopped one is.
FlagInv ==
  /\ session \in {"opening", "open"} /\ rpc \in Starts \cup Runs => ~Stopping
  /\ rpc \in {"wake"} \cup Ended => Stopping

\* Who is about to sleep holds the mutex and has seen an empty queue.
WaitInv == \A c \in Clients : pc[c] = "wait" => input_reports = <<>>

\* After its broadcast the read thread finds nobody asleep or about to sleep.
EndInv == rpc \in Ended => \A c \in Clients : pc[c] \notin {"wait", "asleep"}

\* The queue between the reports given to the callback and those handed out.
QueueInv ==
  /\ taken <= sent
  /\ rpc = "report" => taken > 0
  /\ got <= Arrived
  /\ Len(input_reports) <= QLimit + 2
  /\ input_reports # <<>> => Opened \/ session \in {"closing", "crashed"}
  /\ QueueIsNewestRun

IInv == /\ TypeOK /\ PhaseInv /\ FlagInv /\ WaitInv /\ EndInv /\ QueueInv
        /\ OneAwakePerReport

\* Without spurious wakeups: who sleeps at a barrier is counted there, and
\* the two threads have met at the first barrier while the handle is open,
\* and at the second one only when it is being closed.
Meets == Runs \cup {"stopped", "wake", "shutdown", "shutdownWait"}

MeetInv ==
  /\ \A b \in Barriers :
       /\ rpc = Sleep[b] => count[b] = 1 /\ \A c \in Clients : pc[c] # Sleep[b]
       /\ \A c \in Clients : pc[c] = Sleep[b] => count[b] = 1
       /\ count[b] = 1 => rpc = Sleep[b] \/ \E c \in Clients : pc[c] = Sleep[b]
  /\ session = "opening" => rpc \in Starts
  /\ session = "open" => rpc \in Meets
  /\ \A c \in Clients :
       pc[c] \in {"signal", "wakeup", "shutdown", "shutdownWait"} => rpc \in Meets

----------------------------------------------------------------------------
(* The queue.                                                              *)

\* Adding a report keeps the type of the queue and its bound.
LEMMA EnqueueType ==
  ASSUME NEW q \in Seq(1..MaxReports), NEW r \in 1..MaxReports,
         Len(q) <= QLimit + 2
  PROVE  /\ Enqueue(q, r) \in Seq(1..MaxReports)
         /\ Len(Enqueue(q, r)) <= QLimit + 2
         /\ Len(Enqueue(q, r)) <= Len(q) + 1
<1>1. /\ Append(q, r) \in Seq(1..MaxReports)
      /\ Len(Append(q, r)) = Len(q) + 1
      /\ Append(q, r) # <<>>
  OBVIOUS
<1>2. /\ Tail(Append(q, r)) \in Seq(1..MaxReports)
      /\ Len(Tail(Append(q, r))) = Len(q)
  BY <1>1
<1>3. Len(q) \in Nat /\ (q = <<>> => Len(q) = 0)
  OBVIOUS
<1>4. CASE q # <<>> /\ Len(q) - 1 > QLimit
  <2>1. Enqueue(q, r) = Tail(Append(q, r))
    BY <1>4 DEF Enqueue
  <2>2. Enqueue(q, r) \in Seq(1..MaxReports) /\ Len(Enqueue(q, r)) = Len(q)
    BY <1>2, <2>1
  <2>. QED
    BY <1>3, <2>2
<1>5. CASE q = <<>>
  BY <1>1, <1>3, <1>5 DEF Enqueue
<1>6. CASE ~(Len(q) - 1 > QLimit)
  BY <1>1, <1>3, <1>6 DEF Enqueue
<1>. QED
  BY <1>4, <1>5, <1>6

----------------------------------------------------------------------------
(* The types, by what the provers can treat together.                      *)

PlacesOK ==
  /\ session \in {"closed", "opening", "open", "closing", "crashed"}
  /\ pc \in [Clients -> {"idle", "start", "startWait", "lock", "wait", "asleep",
                         "woken", "expired", "signal", "wakeup", "shutdown",
                         "shutdownWait", "join", "free", "crashed"}]
  /\ rpc \in {"none", "setup", "start", "startWait", "loop", "run", "report",
              "stopped", "wake", "shutdown", "shutdownWait", "ending",
              "done"}
  /\ count \in [Barriers -> 0..1]

ReportsOK ==
  /\ ms \in [Clients -> {-1, 0, 1}]
  /\ ret \in -1..MaxReports
  /\ input_reports \in Seq(1..MaxReports)
  /\ sent \in 0..MaxReports /\ taken \in 0..MaxReports /\ got \in 0..MaxReports

FlagsOK ==
  /\ signalled \in BOOLEAN /\ shutdown_thread \in BOOLEAN
  /\ disconnected \in BOOLEAN /\ blocking \in BOOLEAN /\ plugged \in BOOLEAN

\* TypeOK is the three of them.
LEMMA TypeParts == TypeOK <=> PlacesOK /\ ReportsOK /\ FlagsOK
BY Zenon DEF TypeOK, PlacesOK, ReportsOK, FlagsOK

----------------------------------------------------------------------------
(* Waking up, and the barriers.                                            *)

\* Waking the sleepers in S moves them to "woken" and nobody else.
LEMMA WakeEffect ==
  ASSUME NEW S \in SUBSET Asleep, Wake(S), NEW c \in Clients
  PROVE  \/ c \notin S /\ pc'[c] = pc[c]
         \/ c \in S /\ pc[c] = "asleep" /\ pc'[c] = "woken"
BY DEF Wake, Asleep

\* pthread_cond_signal wakes one sleeper if there is one.
LEMMA SignalEffect ==
  ASSUME Signal, NEW c \in Clients
  PROVE  pc'[c] = pc[c] \/ (pc[c] = "asleep" /\ pc'[c] = "woken")
<1>1. CASE Asleep = {}
  BY <1>1 DEF Signal
<1>2. CASE Asleep # {}
  <2>1. PICK d \in Asleep : Wake({d})
    BY <1>2 DEF Signal
  <2>. QED
    BY <2>1, WakeEffect
<1>. QED
  BY <1>1, <1>2

\* A thread at barrier b comes, sleeps there, or goes on from there.
BarrierStep(b) ==
  \/ ReaderBarrier(b) \/ SpuriousReader(b)
  \/ \E c \in Clients : ClientBarrier(c, b) \/ SpuriousClient(c, b)

\* Where the barriers put a thread.
LEMMA BarrierPlaces ==
  /\ Sleep["start"] = "startWait" /\ Sleep["shutdown"] = "shutdownWait"
  /\ ClientAfter["start"] = "idle" /\ ClientAfter["shutdown"] = "join"
  /\ ReaderAfter["start"] = "loop" /\ ReaderAfter["shutdown"] = "ending"
  /\ SessionAfter("start") = "open" /\ SessionAfter("shutdown") = session
BY DEF Sleep, ClientAfter, ReaderAfter, SessionAfter

\* What a step at a barrier does to a client: it goes from the barrier to its
\* sleep there or past it.
ClientMoves(d) ==
  \/ pc'[d] = pc[d]
  \/ pc[d] = "start" /\ pc'[d] = "startWait"
  \/ pc[d] \in Opens /\ pc'[d] = "idle" /\ session' = "open"
  \/ pc[d] = "shutdown" /\ pc'[d] = "shutdownWait"
  \/ pc[d] \in {"shutdown", "shutdownWait"} /\ pc'[d] = "join"

\* The same for the read thread.
ReaderMoves ==
  \/ rpc' = rpc
  \/ rpc = "start" /\ rpc' = "startWait"
  \/ rpc \in {"start", "startWait"} /\ rpc' = "loop"
  \/ rpc = "shutdown" /\ rpc' = "shutdownWait"
  \/ rpc \in {"shutdown", "shutdownWait"} /\ rpc' = "ending"

\* A step at a barrier moves the threads, and the handle is open from the
\* moment its opener passes.
LEMMA BarrierEffect ==
  ASSUME PlacesOK, NEW b \in Barriers, BarrierStep(b)
  PROVE  /\ UNCHANGED <<readVars, signalled, input_reports, flagVars,
                        deviceVars, taken>>
         /\ ReaderMoves
         /\ \A d \in Clients : ClientMoves(d)
         /\ \/ session' = session
            \/ session' = "open" /\ \E d \in Clients : pc[d] \in Opens
                                                       /\ pc'[d] = "idle"
         /\ PlacesOK'
<1>. DEFINE Goal ==
       /\ ReaderMoves
       /\ \A d \in Clients : ClientMoves(d)
       /\ \/ session' = session
          \/ session' = "open" /\ \E d \in Clients : pc[d] \in Opens
                                                     /\ pc'[d] = "idle"
<1>1. UNCHANGED <<readVars, signalled, input_reports, flagVars, deviceVars, taken>>
  BY DEF BarrierStep, ReaderBarrier, SpuriousReader, ClientBarrier,
     SpuriousClient, OnlyRpc
<1>2. b = "start" \/ b = "shutdown"
  BY DEF Barriers
<1>. USE BarrierPlaces DEF PlacesOK, ReaderMoves, ClientMoves, Opens
<1>3. ASSUME ReaderBarrier(b) PROVE Goal /\ PlacesOK'
  <2>1. CASE b = "start"
    BY <1>3, <2>1 DEF ReaderBarrier
  <2>2. CASE b = "shutdown"
    BY <1>3, <2>2 DEF ReaderBarrier
  <2>. QED
    BY <1>2, <2>1, <2>2
<1>4. ASSUME SpuriousReader(b) PROVE Goal /\ PlacesOK'
  <2>1. Goal
    BY <1>2, <1>4 DEF SpuriousReader, OnlyRpc
  <2>2. PlacesOK'
    BY <1>2, <1>4 DEF SpuriousReader, OnlyRpc
  <2>. QED
    BY <2>1, <2>2
<1>5. ASSUME NEW c \in Clients, ClientBarrier(c, b) PROVE Goal /\ PlacesOK'
  <2>1. CASE b = "start"
    BY <1>5, <2>1 DEF ClientBarrier
  <2>2. CASE b = "shutdown"
    BY <1>5, <2>2 DEF ClientBarrier
  <2>. QED
    BY <1>2, <2>1, <2>2
<1>6. ASSUME NEW c \in Clients, SpuriousClient(c, b) PROVE Goal /\ PlacesOK'
  <2>1. CASE b = "start"
    BY <1>6, <2>1 DEF SpuriousClient
  <2>2. CASE b = "shutdown"
    BY <1>6, <2>2 DEF SpuriousClient
  <2>. QED
    BY <1>2, <2>1, <2>2
<1>7. Goal /\ PlacesOK'
  BY <1>3, <1>4, <1>5, <1>6 DEF BarrierStep
<1>. QED
  BY <1>1, <1>7

----------------------------------------------------------------------------
(* Type correctness.                                                       *)

\* Which part of a step does what: every step is at a barrier, in the run
\* loop, of the device or of one client.
LEMMA NextSteps ==
  ASSUME [Next]_vars
  PROVE  \/ \E b \in Barriers : BarrierStep(b)
         \/ Report \/ RemovalCallback \/ SignalCallback
         \/ ReadThreadStart \/ Loop \/ RunStopped \/ ReadThreadEnd
         \/ RunFinished \/ RunTimedOut
         \/ QueueReport \/ WakeReaders
         \/ DeviceSend \/ Unplug \/ Replug
         \/ \E c \in Clients :
              \/ Open(c) \/ HidReadTimeout(c) \/ HidRead(c) \/ HidSetNonblocking(c)
              \/ ReadLocked(c) \/ ReadWoken(c) \/ ReadExpired(c)
              \/ CondWait(c) \/ SpuriousWakeup(c) \/ Timeout(c)
              \/ HidClose(c) \/ CloseSignal(c) \/ CloseWakeUp(c) \/ CloseJoin(c)
              \/ CloseFree(c) \/ HidCloseCrash(c) \/ CloseCrash(c)
         \/ UNCHANGED vars
BY Zenon DEF Next, RunLoopEvent, ReadThreadStep, ReadThreadFault, DeviceStep, ClientStep,
   InsideCall, BarrierStep

\* The flags stay booleans.
LEMMA FlagsStep ==
  ASSUME PlacesOK, FlagsOK, [Next]_vars
  PROVE  FlagsOK'
<1>. USE DEF FlagsOK
<1>1. ASSUME NEW b \in Barriers, BarrierStep(b) PROVE FlagsOK'
  BY <1>1, BarrierEffect, Zenon DEF flagVars, deviceVars
<1>2. CASE Report \/ RemovalCallback \/ SignalCallback \/ QueueReport
  BY <1>2, Zenon DEF Report, RemovalCallback, SignalCallback, QueueReport, flagVars, deviceVars
<1>3. CASE ReadThreadStart \/ Loop \/ RunStopped \/ ReadThreadEnd
           \/ RunFinished \/ RunTimedOut \/ WakeReaders
  BY <1>3, Zenon DEF ReadThreadStart, Loop, RunStopped, ReadThreadEnd, RunFinished,
     RunTimedOut, WakeReaders, OnlyRpc, flagVars, deviceVars
<1>4. CASE DeviceSend \/ Unplug \/ Replug
  BY <1>4, Zenon DEF DeviceSend, Unplug, Replug, flagVars
<1>5. ASSUME NEW c \in Clients,
             \/ Open(c) \/ HidReadTimeout(c) \/ HidRead(c)
             \/ ReadLocked(c) \/ ReadWoken(c) \/ ReadExpired(c)
             \/ CondWait(c) \/ SpuriousWakeup(c) \/ Timeout(c)
      PROVE  FlagsOK'
  BY <1>5, Zenon DEF Open, HidReadTimeout, HidRead, BeginRead, ReadLocked, ReadWoken,
     ReadExpired, CondWait, SpuriousWakeup, Timeout, OnlyRead, OnlyPc, flagVars,
     deviceVars
<1>6. ASSUME NEW c \in Clients,
             \/ HidSetNonblocking(c) \/ HidClose(c) \/ CloseSignal(c)
             \/ CloseWakeUp(c) \/ CloseJoin(c) \/ CloseFree(c)
             \/ HidCloseCrash(c) \/ CloseCrash(c)
      PROVE  FlagsOK'
  <2>1. CASE CloseSignal(c)
    <3>1. signalled' \in BOOLEAN /\ UNCHANGED <<flagVars, plugged>>
      BY <2>1, Zenon DEF CloseSignal, deviceVars
    <3>. QED
      BY <3>1, Zenon DEF flagVars
  <2>2. CASE ~CloseSignal(c)
    BY <1>6, <2>2, Zenon DEF HidSetNonblocking, HidClose, CloseWakeUp, CloseJoin,
       CloseFree, HidCloseCrash, CloseCrash, Crash, OnlyPc, flagVars, deviceVars
  <2>. QED
    BY <2>1, <2>2
<1>7. CASE UNCHANGED vars
  BY <1>7, Zenon DEF vars, flagVars, deviceVars
<1>. QED
  BY <1>1, <1>2, <1>3, <1>4, <1>5, <1>6, <1>7, NextSteps, Zenon

\* The threads stay in their places.
LEMMA PlacesStep ==
  ASSUME PlacesOK, [Next]_vars
  PROVE  PlacesOK'
<1>1. ASSUME NEW b \in Barriers, BarrierStep(b) PROVE PlacesOK'
  BY <1>1, BarrierEffect
<1>. USE DEF PlacesOK
<1>2. CASE Report \/ RemovalCallback \/ SignalCallback \/ ReadThreadStart \/ Loop
           \/ RunStopped \/ ReadThreadEnd \/ RunFinished \/ RunTimedOut
  BY <1>2 DEF Report, RemovalCallback, SignalCallback, ReadThreadStart, Loop,
     RunStopped, ReadThreadEnd, RunFinished, RunTimedOut, OnlyRpc
<1>3. CASE QueueReport \/ WakeReaders
  BY <1>3 DEF QueueReport, WakeReaders, Signal, Wake
<1>4. CASE DeviceSend \/ Unplug \/ Replug \/ UNCHANGED vars
  BY <1>4 DEF DeviceSend, Unplug, Replug, vars
<1>5. ASSUME NEW c \in Clients,
             \/ Open(c) \/ HidReadTimeout(c) \/ HidRead(c) \/ HidSetNonblocking(c)
             \/ HidClose(c) \/ CloseSignal(c) \/ CloseWakeUp(c) \/ CloseJoin(c)
             \/ CloseFree(c) \/ HidCloseCrash(c) \/ CloseCrash(c)
      PROVE  PlacesOK'
  BY <1>5 DEF Open, HidReadTimeout, HidRead, BeginRead, Calls, HidSetNonblocking,
     HidClose, CloseSignal, CloseWakeUp, CloseJoin, CloseFree, HidCloseCrash,
     CloseCrash, Crash, OnlyPc
<1>6. ASSUME NEW c \in Clients,
             \/ ReadLocked(c) \/ ReadWoken(c) \/ ReadExpired(c)
             \/ CondWait(c) \/ SpuriousWakeup(c) \/ Timeout(c)
      PROVE  PlacesOK'
  BY <1>6 DEF ReadLocked, ReadWoken, ReadExpired, ReturnData, Fails, Return, Waits,
     CondWait, SpuriousWakeup, Timeout, Wake, OnlyRead, OnlyPc
<1>. QED
  BY <1>1, <1>2, <1>3, <1>4, <1>5, <1>6, NextSteps

\* Reports, and what reads return, stay in their range.
LEMMA ReportsStep ==
  ASSUME PlacesOK, ReportsOK, QueueInv, [Next]_vars
  PROVE  ReportsOK'
<1>. USE DEF ReportsOK, readVars, deviceVars
<1>1. ASSUME NEW b \in Barriers, BarrierStep(b) PROVE ReportsOK'
  BY <1>1, BarrierEffect
<1>2. CASE Report \/ RemovalCallback \/ SignalCallback \/ ReadThreadStart \/ Loop
           \/ RunStopped \/ ReadThreadEnd \/ RunFinished \/ RunTimedOut \/ WakeReaders
  BY <1>2 DEF Report, RemovalCallback, SignalCallback, ReadThreadStart, Loop,
     RunStopped, ReadThreadEnd, RunFinished, RunTimedOut, WakeReaders, OnlyRpc
<1>3. CASE QueueReport
  <2>1. taken \in 1..MaxReports
    BY <1>3 DEF QueueReport, QueueInv
  <2>2. input_reports' \in Seq(1..MaxReports)
    BY <1>3, <2>1, EnqueueType DEF QueueReport, QueueInv
  <2>. QED
    BY <1>3, <2>2 DEF QueueReport
<1>4. CASE DeviceSend \/ Unplug \/ Replug \/ UNCHANGED vars
  BY <1>4 DEF DeviceSend, Unplug, Replug, vars
<1>5. ASSUME NEW c \in Clients,
             \/ Open(c) \/ HidReadTimeout(c) \/ HidRead(c) \/ HidSetNonblocking(c)
             \/ HidClose(c) \/ CloseSignal(c) \/ CloseWakeUp(c) \/ CloseJoin(c)
             \/ CloseFree(c) \/ HidCloseCrash(c) \/ CloseCrash(c)
             \/ CondWait(c) \/ SpuriousWakeup(c) \/ Timeout(c)
      PROVE  ReportsOK'
  <2>1. CASE HidReadTimeout(c) \/ HidRead(c)
    <3>1. PICK milliseconds \in {-1, 0, 1} : BeginRead(c, milliseconds)
      BY <2>1 DEF HidReadTimeout, HidRead
    <3>. QED
      BY <3>1 DEF BeginRead
  <2>2. CASE Open(c) \/ HidSetNonblocking(c) \/ HidClose(c)
    BY <2>2 DEF Open, HidSetNonblocking, HidClose
  <2>3. CASE CloseSignal(c) \/ CloseWakeUp(c) \/ CloseJoin(c) \/ CondWait(c)
             \/ SpuriousWakeup(c) \/ Timeout(c)
    BY <2>3 DEF CloseSignal, CloseWakeUp, CloseJoin, CondWait, SpuriousWakeup,
       Timeout, OnlyPc
  <2>4. CASE CloseFree(c)
    <3>1. <<>> \in Seq(1..MaxReports)
      OBVIOUS
    <3>. QED
      BY <2>4, <3>1 DEF CloseFree
  <2>5. CASE HidCloseCrash(c) \/ CloseCrash(c)
    BY <2>5 DEF HidCloseCrash, CloseCrash, Crash
  <2>. QED
    BY <1>5, <2>1, <2>2, <2>3, <2>4, <2>5
<1>6. ASSUME NEW c \in Clients, ReadLocked(c) \/ ReadWoken(c) \/ ReadExpired(c)
      PROVE  ReportsOK'
  <2>1. CASE ReturnData(c)
    <3>1. /\ Head(input_reports) \in 1..MaxReports
          /\ Tail(input_reports) \in Seq(1..MaxReports)
      BY <2>1, TailIndex DEF ReturnData
    <3>. QED
      BY <1>6, <2>1, <3>1 DEF ReadLocked, ReadWoken, ReadExpired, ReturnData, Return,
         OnlyRead
  <2>2. CASE (Return(c, -1) \/ Return(c, 0)) /\ UNCHANGED <<got, input_reports>>
    BY <1>6, <2>2 DEF ReadLocked, ReadWoken, ReadExpired, Return, OnlyRead
  <2>3. CASE Waits(c)
    BY <1>6, <2>3 DEF ReadLocked, ReadWoken, ReadExpired, Waits, OnlyRead
  <2>. QED
    BY <1>6, <2>1, <2>2, <2>3 DEF ReadLocked, ReadWoken, ReadExpired, Fails
<1>. QED
  BY <1>1, <1>2, <1>3, <1>4, <1>5, <1>6, NextSteps

\* Every step of the handle keeps the types.
LEMMA TypeStep == TypeOK /\ QueueInv /\ [Next]_vars => TypeOK'
BY TypeParts, PlacesStep, ReportsStep, FlagsStep, PTL

----------------------------------------------------------------------------
(* The phases of a handle.                                                 *)

\* Who crashes was alone in a call, and the read thread held no report.
LEMMA CrashEffect ==
  ASSUME PlacesOK, PhaseInv, NEW c \in Clients, HidCloseCrash(c) \/ CloseCrash(c)
  PROVE  /\ session \in {"open", "closing"} /\ session' = "crashed"
         /\ rpc \in {"none", "setup", "done"} /\ rpc' = "none"
         /\ pc[c] \in {"idle", "signal", "wakeup"}
         /\ \A d \in Clients : pc'[d] = IF d = c THEN "crashed" ELSE "idle"
         /\ UNCHANGED <<readVars, count, signalled, input_reports, flagVars,
                        deviceVars, taken>>
BY DEF HidCloseCrash, CloseCrash, Crash, HasRunLoop, PlacesOK, PhaseInv, Closes, Alone

\* Every step keeps the phases of the handle and its threads together.
LEMMA PhaseStep == PlacesOK /\ PhaseInv /\ [Next]_vars => PhaseInv'
<1> SUFFICES ASSUME PlacesOK, PhaseInv, [Next]_vars PROVE PhaseInv'
  OBVIOUS
<1>. USE DEF PhaseInv, Alone, Opens, Reads, Closes
<1>1. ASSUME NEW b \in Barriers, BarrierStep(b) PROVE PhaseInv'
  <2>1. /\ ReaderMoves /\ \A d \in Clients : ClientMoves(d)
        /\ \/ session' = session
           \/ session' = "open" /\ \E d \in Clients : pc[d] \in Opens
                                                      /\ pc'[d] = "idle"
    BY <1>1, BarrierEffect
  <2>2. session' = "closed" => rpc' = "none"
    BY <2>1 DEF ReaderMoves
  <2>. SUFFICES ASSUME NEW c \in Clients
                PROVE  /\ pc'[c] \in Opens => session' = "opening" /\ Alone(c)'
                       /\ pc'[c] \in Reads => session' = "open"
                       /\ pc'[c] \in Closes => session' = "closing" /\ Alone(c)'
                       /\ pc'[c] = "free" => rpc' = "done"
                       /\ pc'[c] = "crashed" => session' = "crashed"
    BY <2>2
  <2>3. ClientMoves(c)
    BY <2>1
  <2>4. ASSUME NEW d \in Clients, pc[d] \in Opens, d # c
        PROVE  pc[c] = "idle" /\ pc'[c] = "idle"
    BY <2>3, <2>4 DEF ClientMoves
  <2>5. Alone(c) => Alone(c)'
    BY <2>1 DEF ClientMoves
  <2>6. CASE session' = session
    BY <2>1, <2>3, <2>5, <2>6 DEF ClientMoves, ReaderMoves
  <2>7. CASE session' # session
    <3>1. PICK d \in Clients : pc[d] \in Opens /\ pc'[d] = "idle"
      BY <2>1, <2>7
    <3>2. pc'[c] = "idle"
      BY <2>4, <3>1
    <3>. QED
      BY <3>2
  <2>. QED
    BY <2>6, <2>7
<1>. USE DEF PlacesOK
<1>2. CASE Report \/ RemovalCallback \/ SignalCallback \/ ReadThreadStart \/ Loop
           \/ RunStopped \/ ReadThreadEnd \/ RunFinished \/ RunTimedOut
  BY <1>2 DEF Report, RemovalCallback, SignalCallback, ReadThreadStart, Loop,
     RunStopped, ReadThreadEnd, RunFinished, RunTimedOut, OnlyRpc
<1>3. CASE QueueReport
  <2>1. \A c \in Clients :
          pc'[c] = pc[c] \/ (pc[c] = "asleep" /\ pc'[c] = "woken")
    BY <1>3, SignalEffect DEF QueueReport
  <2>. QED
    BY <1>3, <2>1 DEF QueueReport
<1>4. CASE WakeReaders
  BY <1>4 DEF WakeReaders, Wake, Asleep
<1>5. CASE DeviceSend \/ Unplug \/ Replug \/ UNCHANGED vars
  BY <1>5 DEF DeviceSend, Unplug, Replug, vars
<1>6. ASSUME NEW c \in Clients,
             \/ Open(c) \/ HidReadTimeout(c) \/ HidRead(c) \/ HidSetNonblocking(c)
             \/ HidClose(c) \/ CloseSignal(c) \/ CloseWakeUp(c) \/ CloseJoin(c)
             \/ CloseFree(c)
      PROVE  PhaseInv'
  <2>1. CASE Open(c)
    \* A closed handle has nobody in a call.
    <3>1. /\ session = "closed" /\ session' = "opening"
          /\ pc' = [pc EXCEPT ![c] = "start"]
      BY <2>1 DEF Open
    <3>2. \A d \in Clients : pc[d] \notin Opens \cup Reads \cup Closes \cup {"crashed"}
      BY <3>1
    <3>3. \A d \in Clients : pc[d] = "idle"
      BY <3>2
    <3>. QED
      BY <3>1, <3>3
  <2>2. CASE HidReadTimeout(c) \/ HidRead(c) \/ HidSetNonblocking(c)
    BY <2>2 DEF HidReadTimeout, HidRead, BeginRead, Calls, HidSetNonblocking
  <2>3. CASE HidClose(c)
    BY <2>3 DEF HidClose
  <2>4. CASE CloseSignal(c) \/ CloseWakeUp(c) \/ CloseJoin(c)
    BY <2>4 DEF CloseSignal, CloseWakeUp, CloseJoin, OnlyPc
  <2>5. CASE CloseFree(c)
    BY <2>5 DEF CloseFree
  <2>. QED
    BY <1>6, <2>1, <2>2, <2>3, <2>4, <2>5
<1>7. ASSUME NEW c \in Clients,
             \/ ReadLocked(c) \/ ReadWoken(c) \/ ReadExpired(c)
             \/ CondWait(c) \/ SpuriousWakeup(c) \/ Timeout(c)
      PROVE  PhaseInv'
  <2>1. /\ pc[c] \in Reads /\ UNCHANGED <<session, rpc>>
        /\ \E to \in {"idle", "wait", "asleep", "woken", "expired"} :
             pc' = [pc EXCEPT ![c] = to]
    BY <1>7 DEF ReadLocked, ReadWoken, ReadExpired, ReturnData, Fails, Return, Waits,
     CondWait, SpuriousWakeup, Timeout, Wake, Asleep, OnlyRead, OnlyPc
  <2>. QED
    BY <2>1
<1>8. ASSUME NEW c \in Clients, HidCloseCrash(c) \/ CloseCrash(c) PROVE PhaseInv'
  <2>1. session' = "crashed" /\ \A d \in Clients : pc'[d] \in {"crashed", "idle"}
    BY <1>8, CrashEffect
  <2>. QED
    BY <2>1
<1>. QED
  BY <1>1, <1>2, <1>3, <1>4, <1>5, <1>6, <1>7, <1>8, NextSteps

----------------------------------------------------------------------------
(* The flags.                                                              *)

\* Every step keeps the flags and the read thread together.
LEMMA FlagStep == PlacesOK /\ PhaseInv /\ FlagInv /\ [Next]_vars => FlagInv'
<1> SUFFICES ASSUME PlacesOK, PhaseInv, FlagInv, [Next]_vars PROVE FlagInv'
  OBVIOUS
<1>. USE DEF FlagInv, Stopping, Starts, Runs, Ended
<1>1. ASSUME NEW b \in Barriers, BarrierStep(b) PROVE FlagInv'
  <2>1. /\ ReaderMoves /\ UNCHANGED Stopping
        /\ session' \in {"opening", "open"} => session \in {"opening", "open"}
    BY <1>1, BarrierEffect DEF PhaseInv, Opens, flagVars
  <2>. QED
    BY <2>1 DEF ReaderMoves
<1>2. CASE Report \/ RemovalCallback \/ SignalCallback \/ ReadThreadStart \/ Loop
           \/ RunStopped \/ ReadThreadEnd \/ RunFinished \/ RunTimedOut
  BY <1>2 DEF Report, RemovalCallback, SignalCallback, ReadThreadStart, Loop,
     RunStopped, ReadThreadEnd, RunFinished, RunTimedOut, OnlyRpc, flagVars
<1>3. CASE QueueReport \/ WakeReaders
  BY <1>3 DEF QueueReport, WakeReaders, flagVars
<1>4. CASE DeviceSend \/ Unplug \/ Replug \/ UNCHANGED vars
  BY <1>4 DEF DeviceSend, Unplug, Replug, vars, flagVars
<1>5. ASSUME NEW c \in Clients,
             \/ Open(c) \/ HidClose(c) \/ CloseFree(c)
             \/ HidCloseCrash(c) \/ CloseCrash(c)
      PROVE  FlagInv'
  BY <1>5 DEF Open, HidClose, CloseFree, HidCloseCrash, CloseCrash, Crash, flagVars
<1>6. ASSUME NEW c \in Clients,
             \/ HidReadTimeout(c) \/ HidRead(c) \/ HidSetNonblocking(c)
             \/ CloseSignal(c) \/ CloseWakeUp(c) \/ CloseJoin(c)
             \/ ReadLocked(c) \/ ReadWoken(c) \/ ReadExpired(c)
             \/ CondWait(c) \/ SpuriousWakeup(c) \/ Timeout(c)
      PROVE  FlagInv'
  <2>1. UNCHANGED <<session, rpc, shutdown_thread, disconnected>>
    BY <1>6 DEF HidReadTimeout, HidRead, BeginRead, HidSetNonblocking, CloseSignal,
       CloseWakeUp, CloseJoin, ReadLocked, ReadWoken, ReadExpired, CondWait,
       SpuriousWakeup, Timeout, OnlyRead, OnlyPc, flagVars
  <2>. QED
    BY <2>1
<1>. QED
  BY <1>1, <1>2, <1>3, <1>4, <1>5, <1>6, NextSteps

----------------------------------------------------------------------------
(* Which steps touch the queue, and who is awake then.                     *)

\* Only the callback adds to the queue; reads and hid_close shorten it.
LEMMA QueueSteps ==
  ASSUME PlacesOK, [Next]_vars
  PROVE  \/ QueueReport
         \/ UNCHANGED input_reports
         \/ \E c \in Clients : /\ ReadLocked(c) \/ ReadWoken(c)
                               /\ ReturnData(c)
         \/ \E c \in Clients : CloseFree(c)
<1>1. ASSUME NEW b \in Barriers, BarrierStep(b) PROVE UNCHANGED input_reports
  BY <1>1, BarrierEffect
<1>2. CASE Report \/ RemovalCallback \/ SignalCallback \/ ReadThreadStart \/ Loop
           \/ RunStopped \/ ReadThreadEnd \/ RunFinished \/ RunTimedOut \/ WakeReaders
  BY <1>2 DEF Report, RemovalCallback, SignalCallback, ReadThreadStart, Loop,
     RunStopped, ReadThreadEnd, RunFinished, RunTimedOut, WakeReaders, OnlyRpc
<1>3. CASE DeviceSend \/ Unplug \/ Replug \/ UNCHANGED vars
  BY <1>3 DEF DeviceSend, Unplug, Replug, vars
<1>4. ASSUME NEW c \in Clients,
             \/ Open(c) \/ HidReadTimeout(c) \/ HidRead(c) \/ HidSetNonblocking(c)
             \/ HidClose(c) \/ CloseSignal(c) \/ CloseWakeUp(c) \/ CloseJoin(c)
             \/ CondWait(c) \/ SpuriousWakeup(c) \/ Timeout(c)
             \/ HidCloseCrash(c) \/ CloseCrash(c)
      PROVE  UNCHANGED input_reports
  BY <1>4 DEF Open, HidReadTimeout, HidRead, BeginRead, HidSetNonblocking,
     HidClose, CloseSignal, CloseWakeUp, CloseJoin, CondWait, SpuriousWakeup,
     Timeout, HidCloseCrash, CloseCrash, Crash, OnlyPc
<1>5. ASSUME NEW c \in Clients, ReadLocked(c) \/ ReadWoken(c) \/ ReadExpired(c)
      PROVE  \/ UNCHANGED input_reports
             \/ (ReadLocked(c) \/ ReadWoken(c)) /\ ReturnData(c)
  BY <1>5 DEF ReadLocked, ReadWoken, ReadExpired, Fails, Waits
<1>. QED
  BY <1>1, <1>2, <1>3, <1>4, <1>5, NextSteps

\* A step of a thread that is not in a read leaves the readers where they
\* are, and lets nobody in but to the mutex.
OutsideReads ==
  \A d \in Clients :
    \/ pc'[d] = pc[d]
    \/ pc[d] \notin Reads /\ pc'[d] \notin Reads \ {"lock"}

\* Which steps move the readers.
LEMMA ReadSteps ==
  ASSUME PlacesOK, PhaseInv, [Next]_vars
  PROVE  \/ OutsideReads
         \/ QueueReport \/ WakeReaders
         \/ \E c \in Clients :
              \/ ReadLocked(c) \/ ReadWoken(c) \/ ReadExpired(c)
              \/ CondWait(c) \/ SpuriousWakeup(c) \/ Timeout(c)
<1>. USE DEF OutsideReads
<1>1. ASSUME NEW b \in Barriers, BarrierStep(b) PROVE OutsideReads
  BY <1>1, BarrierEffect DEF ClientMoves, Opens, Reads
<1>2. CASE Report \/ RemovalCallback \/ SignalCallback \/ ReadThreadStart \/ Loop
           \/ RunStopped \/ ReadThreadEnd \/ RunFinished \/ RunTimedOut
           \/ DeviceSend \/ Unplug \/ Replug \/ UNCHANGED vars
  <2>1. UNCHANGED pc
    BY <1>2 DEF Report, RemovalCallback, SignalCallback, ReadThreadStart, Loop,
     RunStopped, ReadThreadEnd, RunFinished, RunTimedOut, OnlyRpc, DeviceSend,
     Unplug, Replug, vars
  <2>. QED
    BY <2>1
<1>3. ASSUME NEW c \in Clients,
             \/ Open(c) \/ HidReadTimeout(c) \/ HidRead(c) \/ HidSetNonblocking(c)
             \/ HidClose(c) \/ CloseSignal(c) \/ CloseWakeUp(c) \/ CloseJoin(c)
             \/ CloseFree(c)
      PROVE  OutsideReads
  <2>1. CASE Open(c)
    BY <2>1 DEF Open, PlacesOK, PhaseInv, Reads
  <2>2. CASE HidReadTimeout(c) \/ HidRead(c) \/ HidSetNonblocking(c) \/ HidClose(c)
             \/ CloseSignal(c) \/ CloseWakeUp(c) \/ CloseJoin(c) \/ CloseFree(c)
    BY <2>2 DEF HidReadTimeout, HidRead, BeginRead, Calls, HidSetNonblocking,
       HidClose, CloseSignal, CloseWakeUp, CloseJoin, CloseFree, OnlyPc, PlacesOK,
       Reads
  <2>. QED
    BY <1>3, <2>1, <2>2
<1>4. ASSUME NEW c \in Clients, HidCloseCrash(c) \/ CloseCrash(c) PROVE OutsideReads
  BY <1>4 DEF HidCloseCrash, CloseCrash, Crash, PlacesOK, Reads
<1>. QED
  BY <1>1, <1>2, <1>3, <1>4, NextSteps

\* A client comes to wait only from the test that finds the queue empty and
\* no flag set, with the mutex; it comes to sleep only from there.
LEMMA SleepSteps ==
  ASSUME PlacesOK, PhaseInv, [Next]_vars, NEW c \in Clients
  PROVE  /\ pc'[c] = "wait" =>
              \/ pc[c] = "wait"
              \/ input_reports = <<>> /\ ~Stopping
         /\ pc'[c] = "asleep" => pc[c] \in {"asleep", "wait"}
<1>. DEFINE Goal == /\ pc'[c] = "wait" => \/ pc[c] = "wait"
                                          \/ input_reports = <<>> /\ ~Stopping
                    /\ pc'[c] = "asleep" => pc[c] \in {"asleep", "wait"}
<1>1. CASE OutsideReads
  BY <1>1 DEF OutsideReads, Reads
<1>2. CASE QueueReport
  BY <1>2, SignalEffect DEF QueueReport
<1>3. CASE WakeReaders
  BY <1>3, WakeEffect DEF WakeReaders
<1>4. ASSUME NEW d \in Clients, ReadLocked(d) \/ ReadWoken(d) \/ ReadExpired(d)
      PROVE  Goal
  BY <1>4 DEF ReadLocked, ReadWoken, ReadExpired, ReturnData, Fails, Return, Waits,
     PlacesOK
<1>5. ASSUME NEW d \in Clients, CondWait(d) \/ Timeout(d) PROVE Goal
  BY <1>5 DEF CondWait, Timeout, PlacesOK
<1>6. ASSUME NEW d \in Clients, SpuriousWakeup(d) PROVE Goal
  BY <1>6, WakeEffect DEF SpuriousWakeup
<1>. QED
  BY <1>1, <1>2, <1>3, <1>4, <1>5, <1>6, ReadSteps

\* A reader on its way to sleep has seen an empty queue, and it stays empty.
LEMMA WaitStep == PlacesOK /\ PhaseInv /\ WaitInv /\ [Next]_vars => WaitInv'
<1> SUFFICES ASSUME PlacesOK, PhaseInv, WaitInv, [Next]_vars,
                    NEW c \in Clients, pc'[c] = "wait"
             PROVE  input_reports' = <<>>
  BY DEF WaitInv
<1>1. pc[c] = "wait" \/ input_reports = <<>>
  BY SleepSteps
<1>2. CASE QueueReport
  <2>1. MutexFree /\ Signal
    BY <1>2 DEF QueueReport
  <2>2. pc'[c] # "wait"
    BY <2>1, SignalEffect DEF MutexFree
  <2>. QED
    BY <2>2
<1>3. ASSUME NEW d \in Clients, ReadLocked(d) \/ ReadWoken(d), ReturnData(d)
      PROVE  input_reports' = <<>>
  BY <1>3 DEF ReadLocked, ReadWoken, ReturnData, Return, MutexFree, PlacesOK
<1>4. ASSUME NEW d \in Clients, CloseFree(d)
      PROVE  input_reports' = <<>>
  BY <1>4 DEF CloseFree
<1>5. CASE UNCHANGED input_reports
  BY <1>1, <1>5 DEF WaitInv
<1>. QED
  BY <1>2, <1>3, <1>4, <1>5, QueueSteps

\* Which steps bring the read thread past its broadcast.
LEMMA EndedSteps ==
  ASSUME PlacesOK, [Next]_vars, rpc' \in Ended
  PROVE  rpc \in Ended \/ WakeReaders
<1>. USE DEF Ended
<1>1. ASSUME NEW b \in Barriers, BarrierStep(b) PROVE rpc \in Ended
  BY <1>1, BarrierEffect DEF ReaderMoves
<1>2. CASE Report \/ RemovalCallback \/ SignalCallback \/ ReadThreadStart \/ Loop
           \/ RunStopped \/ ReadThreadEnd \/ RunFinished \/ RunTimedOut
           \/ QueueReport
  BY <1>2 DEF Report, RemovalCallback, SignalCallback, ReadThreadStart, Loop,
     RunStopped, ReadThreadEnd, RunFinished, RunTimedOut, QueueReport
<1>3. CASE DeviceSend \/ Unplug \/ Replug \/ UNCHANGED vars
  BY <1>3 DEF DeviceSend, Unplug, Replug, vars
<1>4. ASSUME NEW c \in Clients,
             \/ Open(c) \/ HidReadTimeout(c) \/ HidRead(c) \/ HidSetNonblocking(c)
             \/ ReadLocked(c) \/ ReadWoken(c) \/ ReadExpired(c)
             \/ CondWait(c) \/ SpuriousWakeup(c) \/ Timeout(c)
             \/ HidClose(c) \/ CloseSignal(c) \/ CloseWakeUp(c) \/ CloseJoin(c)
             \/ CloseFree(c) \/ HidCloseCrash(c) \/ CloseCrash(c)
      PROVE  rpc \in Ended
  BY <1>4 DEF HidCloseCrash, CloseCrash, Crash, Open, HidReadTimeout, HidRead, BeginRead, HidSetNonblocking,
     ReadLocked, ReadWoken, ReadExpired, CondWait, SpuriousWakeup, Timeout,
     HidClose, CloseSignal, CloseWakeUp, CloseJoin, CloseFree, OnlyRead, OnlyPc
<1>. QED
  BY <1>1, <1>2, <1>3, <1>4, NextSteps

\* The broadcast wakes every sleeper, and with a flag set nobody goes to
\* sleep after it.
LEMMA EndStep == PlacesOK /\ PhaseInv /\ FlagInv /\ EndInv /\ [Next]_vars => EndInv'
<1> SUFFICES ASSUME PlacesOK, PhaseInv, FlagInv, EndInv, [Next]_vars, rpc' \in Ended,
                    NEW c \in Clients
             PROVE  pc'[c] \notin {"wait", "asleep"}
  BY DEF EndInv
<1>1. CASE rpc \in Ended
  BY <1>1, SleepSteps DEF FlagInv, EndInv
<1>2. CASE WakeReaders
  BY <1>2, WakeEffect DEF WakeReaders, MutexFree, Asleep
<1>. QED
  BY <1>1, <1>2, EndedSteps

----------------------------------------------------------------------------
(* One reader awake for each report while others sleep.                    *)

Woken == {c \in Clients : pc[c] = "woken"}

\* The readers on their way can be counted.
LEMMA WokenFinite ==
  /\ IsFiniteSet(Woken) /\ Cardinality(Woken) \in Nat
  /\ IsFiniteSet(Woken') /\ Cardinality(Woken') \in Nat
<1>1. Woken \subseteq Clients /\ Woken' \subseteq Clients
  BY DEF Woken
<1>. QED
  BY <1>1, FS_Subset, FS_CardinalityType

\* Where a reader joins those on their way there is one more of them.
LEMMA OneMore ==
  ASSUME NEW c \in Clients, Woken' = Woken \cup {c}, c \notin Woken
  PROVE  Cardinality(Woken') = Cardinality(Woken) + 1
BY WokenFinite, FS_AddElement

\* Where one of them arrives there is one less.
LEMMA OneLess ==
  ASSUME NEW c \in Woken, Woken' = Woken \ {c}
  PROVE  Cardinality(Woken') = Cardinality(Woken) - 1
BY WokenFinite, FS_RemoveElement

\* A step that only lets readers in, or sleepers out, and queues nothing.
LEMMA AwakeFrame ==
  ASSUME OneAwakePerReport, ReportsOK,
         ~Stopping' => ~Stopping,
         Asleep' \subseteq Asleep,
         Woken \subseteq Woken',
         UNCHANGED input_reports
  PROVE  OneAwakePerReport'
<1> SUFFICES ASSUME ~Stopping', Asleep' # {}
             PROVE  Len(input_reports') <= Cardinality(Woken')
  BY DEF OneAwakePerReport, Woken
<1>1. Len(input_reports) <= Cardinality(Woken)
  BY DEF OneAwakePerReport, Woken
<1>2. Cardinality(Woken) <= Cardinality(Woken')
  BY WokenFinite, FS_Subset
<1>3. Len(input_reports) \in Nat
  BY DEF ReportsOK
<1>. QED
  BY <1>1, <1>2, <1>3, WokenFinite

\* Only hid_open_path takes the flags back.
LEMMA FlagSteps ==
  ASSUME PlacesOK, [Next]_vars
  PROVE  (~Stopping' => ~Stopping) \/ \E c \in Clients : Open(c)
<1>. USE DEF Stopping, flagVars
<1>1. ASSUME NEW b \in Barriers, BarrierStep(b) PROVE UNCHANGED Stopping
  BY <1>1, BarrierEffect
<1>2. CASE Report \/ RemovalCallback \/ SignalCallback \/ ReadThreadStart \/ Loop
           \/ RunStopped \/ ReadThreadEnd \/ RunFinished \/ RunTimedOut
           \/ QueueReport \/ WakeReaders
  BY <1>2 DEF Report, RemovalCallback, SignalCallback, ReadThreadStart, Loop,
     RunStopped, ReadThreadEnd, RunFinished, RunTimedOut, OnlyRpc, QueueReport,
     WakeReaders
<1>3. CASE DeviceSend \/ Unplug \/ Replug \/ UNCHANGED vars
  BY <1>3 DEF DeviceSend, Unplug, Replug, vars
<1>4. ASSUME NEW c \in Clients,
             \/ HidReadTimeout(c) \/ HidRead(c) \/ HidSetNonblocking(c)
             \/ ReadLocked(c) \/ ReadWoken(c) \/ ReadExpired(c)
             \/ CondWait(c) \/ SpuriousWakeup(c) \/ Timeout(c)
             \/ HidClose(c) \/ CloseSignal(c) \/ CloseWakeUp(c) \/ CloseJoin(c)
             \/ CloseFree(c) \/ HidCloseCrash(c) \/ CloseCrash(c)
      PROVE  ~Stopping' => ~Stopping
  BY <1>4 DEF HidCloseCrash, CloseCrash, Crash, HidReadTimeout, HidRead, BeginRead, HidSetNonblocking, ReadLocked,
     ReadWoken, ReadExpired, CondWait, SpuriousWakeup, Timeout, HidClose,
     CloseSignal, CloseWakeUp, CloseJoin, CloseFree, OnlyRead, OnlyPc
<1>. QED
  BY <1>1, <1>2, <1>3, <1>4, NextSteps

\* Every step leaves a reader on its way for each queued report.
LEMMA AwakeStep ==
  /\ PlacesOK /\ ReportsOK /\ PhaseInv /\ WaitInv /\ QueueInv
  /\ OneAwakePerReport /\ [Next]_vars
  => OneAwakePerReport'
<1> SUFFICES ASSUME PlacesOK, ReportsOK, PhaseInv, WaitInv, QueueInv,
                    OneAwakePerReport, [Next]_vars
             PROVE  OneAwakePerReport'
  OBVIOUS
<1>0. Len(input_reports) \in Nat
  BY DEF ReportsOK
<1>1. ASSUME NEW c \in Clients, Open(c) PROVE OneAwakePerReport'
  \* Nobody can be asleep before the handle is open.
  <2>1. \A d \in Clients : pc'[d] # "asleep"
    BY <1>1 DEF Open, PhaseInv, PlacesOK, Reads
  <2>. QED
    BY <2>1 DEF OneAwakePerReport, Asleep
<1>2. ASSUME NEW c \in Clients, CloseFree(c) PROVE OneAwakePerReport'
  <2>1. session = "closing"
    BY <1>2 DEF CloseFree, PhaseInv, Closes
  <2>2. \A d \in Clients : pc'[d] # "asleep"
    BY <1>2, <2>1 DEF CloseFree, PhaseInv, PlacesOK, Reads
  <2>. QED
    BY <2>2 DEF OneAwakePerReport, Asleep
\* Other than these two, no step takes a flag back.
<1>3. \/ \E c \in Clients : Open(c) \/ CloseFree(c)
      \/ ~Stopping' => ~Stopping
  BY FlagSteps
<1> SUFFICES ASSUME ~Stopping' => ~Stopping, \A c \in Clients : ~CloseFree(c)
             PROVE  OneAwakePerReport'
  BY <1>1, <1>2, <1>3
<1>4. CASE OutsideReads
  <2>1. Asleep' = Asleep /\ Woken' = Woken
    BY <1>4 DEF OutsideReads, Asleep, Woken, Reads
  <2>2. ASSUME NEW c \in Clients, ReadLocked(c) \/ ReadWoken(c), ReturnData(c)
        PROVE  FALSE
    BY <1>4, <2>2 DEF OutsideReads, ReadLocked, ReadWoken, ReturnData, Return,
       PlacesOK, Reads
  <2>3. CASE UNCHANGED input_reports
    BY <2>1, <2>3, AwakeFrame
  <2>4. CASE QueueReport /\ Asleep # {}
    \* A step that signals moves a sleeper.
    <3>1. PICK d \in Asleep : Wake({d})
      BY <2>4 DEF QueueReport, Signal
    <3>2. d \in Asleep' /\ pc'[d] = "woken"
      BY <2>1, <3>1, WakeEffect DEF Asleep
    <3>. QED
      BY <3>2 DEF Asleep
  <2>5. CASE QueueReport /\ Asleep = {}
    BY <2>1, <2>5 DEF OneAwakePerReport
  <2>. QED
    BY <2>2, <2>3, <2>4, <2>5, QueueSteps
<1>5. CASE QueueReport
  <2>1. CASE Asleep = {}
    <3>1. Asleep' = {}
      BY <1>5, <2>1 DEF QueueReport, Signal, Asleep
    <3>. QED
      BY <3>1 DEF OneAwakePerReport
  <2>2. CASE Asleep # {}
    <3>1. PICK d \in Asleep : Wake({d})
      BY <1>5, <2>2 DEF QueueReport, Signal
    <3>2. d \in Clients /\ d \notin Woken /\ Woken' = Woken \cup {d}
      <4>1. d \in Clients /\ pc[d] = "asleep"
        BY DEF Asleep
      <4>2. \A c \in Clients : pc'[c] = "woken" <=> (pc[c] = "woken" \/ c = d)
        BY <3>1, <4>1, WakeEffect
      <4>. QED
        BY <4>1, <4>2 DEF Woken
    <3>3. Cardinality(Woken') = Cardinality(Woken) + 1
      BY <3>2, OneMore
    <3>4. taken \in 1..MaxReports
      BY <1>5 DEF QueueReport, QueueInv, ReportsOK
    <3>5. Len(input_reports') <= Len(input_reports) + 1
          /\ Len(input_reports') \in Nat
      BY <1>5, <3>4, EnqueueType DEF QueueReport, QueueInv, ReportsOK
    <3>6. ~Stopping => Len(input_reports) <= Cardinality(Woken)
      BY <2>2 DEF OneAwakePerReport, Woken
    <3>7. ~Stopping => Len(input_reports') <= Cardinality(Woken')
      BY <1>0, <3>3, <3>5, <3>6, WokenFinite
    <3>. QED
      BY <3>7 DEF OneAwakePerReport, Woken
  <2>. QED
    BY <2>1, <2>2
<1>6. CASE WakeReaders
  <2>1. \A d \in Clients : pc'[d] # "asleep"
    BY <1>6, WakeEffect DEF WakeReaders, Asleep
  <2>. QED
    BY <2>1 DEF OneAwakePerReport, Asleep
<1>7. ASSUME NEW c \in Clients, ReadLocked(c) \/ ReadWoken(c), ReturnData(c)
      PROVE  OneAwakePerReport'
  <2>1. /\ input_reports # <<>>
        /\ input_reports' = Tail(input_reports)
        /\ pc' = [pc EXCEPT ![c] = "idle"]
    BY <1>7 DEF ReturnData, Return
  <2>2. Asleep' = Asleep
    BY <1>7, <2>1 DEF Asleep, ReadLocked, ReadWoken, PlacesOK
  <2>3. /\ Len(input_reports') = Len(input_reports) - 1
        /\ Len(input_reports) > 0
    BY <2>1, TailIndex DEF ReportsOK
  <2>4. Cardinality(Woken') >= Cardinality(Woken) - 1
    <3>1. CASE pc[c] = "woken"
      <4>1. c \in Woken /\ Woken' = Woken \ {c}
        BY <2>1, <3>1 DEF Woken, PlacesOK
      <4>. QED
        BY <4>1, OneLess, WokenFinite
    <3>2. CASE pc[c] # "woken"
      <4>1. Woken' = Woken
        BY <2>1, <3>2 DEF Woken, PlacesOK
      <4>. QED
        BY <4>1, WokenFinite
    <3>. QED
      BY <3>1, <3>2
  <2>5. ~Stopping /\ Asleep # {} => Len(input_reports) <= Cardinality(Woken)
    BY DEF OneAwakePerReport, Woken
  <2>6. ~Stopping /\ Asleep # {} => Len(input_reports') <= Cardinality(Woken')
    BY <1>0, <2>3, <2>4, <2>5, WokenFinite
  <2>. QED
    BY <2>2, <2>6 DEF OneAwakePerReport, Woken
<1>8. ASSUME NEW c \in Clients, ReadLocked(c) \/ ReadWoken(c), ~ReturnData(c)
      PROVE  OneAwakePerReport'
  <2>1. UNCHANGED input_reports
    BY <1>8 DEF ReadLocked, ReadWoken, Fails, Waits
  <2>2. Stopping' = Stopping
    BY <1>8 DEF ReadLocked, ReadWoken, OnlyRead, Stopping, flagVars
  <2>3. CASE pc[c] # "woken"
    <3>1. Asleep' = Asleep /\ Woken' = Woken
      BY <1>8, <2>3 DEF ReadLocked, ReadWoken, Fails, Waits, Return, Asleep,
         Woken, PlacesOK
    <3>. QED
      BY <2>1, <3>1, AwakeFrame
  <2>4. CASE pc[c] = "woken" /\ ~Stopping
    \* The queue was empty, and still is.
    <3>1. input_reports = <<>>
      BY <1>8, <2>4 DEF ReadLocked, ReadWoken
    <3>2. Len(input_reports') = 0
      BY <2>1, <3>1
    <3>. QED
      BY <3>2, WokenFinite DEF OneAwakePerReport, Woken
  <2>5. CASE Stopping
    BY <2>2, <2>5 DEF OneAwakePerReport
  <2>. QED
    BY <2>3, <2>4, <2>5
<1>9. ASSUME NEW c \in Clients, ReadExpired(c) \/ Timeout(c) \/ SpuriousWakeup(c)
      PROVE  OneAwakePerReport'
  <2>1. UNCHANGED input_reports
    BY <1>9 DEF ReadExpired, Timeout, SpuriousWakeup, OnlyPc
  <2>2. Asleep' \subseteq Asleep /\ Woken \subseteq Woken'
    BY <1>9 DEF ReadExpired, Timeout, SpuriousWakeup, Return, Wake, Asleep, Woken,
       PlacesOK
  <2>. QED
    BY <2>1, <2>2, AwakeFrame
<1>10. ASSUME NEW c \in Clients, CondWait(c) PROVE OneAwakePerReport'
  <2>1. input_reports' = <<>>
    BY <1>10 DEF CondWait, OnlyPc, WaitInv
  <2>2. Len(input_reports') = 0
    BY <2>1
  <2>. QED
    BY <2>2, WokenFinite DEF OneAwakePerReport, Woken
<1>. QED
  BY <1>4, <1>5, <1>6, <1>7, <1>8, <1>9, <1>10, ReadSteps

----------------------------------------------------------------------------
(* When the handle is open.                                                *)

\* The handle opens when a thread passes the first barrier, and closes in
\* hid_close's first step.
LEMMA OpenedSteps ==
  ASSUME PlacesOK, PhaseInv, [Next]_vars
  PROVE  \/ Opened' <=> Opened
         \/ /\ \E b \in Barriers : BarrierStep(b)
            /\ ~Opened /\ Opened' /\ session = "opening" /\ rpc \in Starts
         \/ \E c \in Clients : HidClose(c) \/ HidCloseCrash(c)
<1>. USE DEF Opened, Starts
<1>1. ASSUME NEW b \in Barriers, BarrierStep(b)
      PROVE  \/ Opened' <=> Opened
             \/ ~Opened /\ Opened' /\ session = "opening" /\ rpc \in Starts
  <2>1. /\ ReaderMoves
        /\ session' = session \/ (session' = "open" /\ session = "opening")
    BY <1>1, BarrierEffect DEF PhaseInv, Opens
  <2>. QED
    BY <2>1 DEF ReaderMoves
<1>2. CASE Report \/ RemovalCallback \/ SignalCallback \/ ReadThreadStart \/ Loop
           \/ RunStopped \/ ReadThreadEnd \/ RunFinished \/ RunTimedOut
           \/ QueueReport \/ WakeReaders
  BY <1>2 DEF Report, RemovalCallback, SignalCallback, ReadThreadStart, Loop,
     RunStopped, ReadThreadEnd, RunFinished, RunTimedOut, OnlyRpc, QueueReport,
     WakeReaders
<1>3. CASE DeviceSend \/ Unplug \/ Replug \/ UNCHANGED vars
  BY <1>3 DEF DeviceSend, Unplug, Replug, vars
<1>4. ASSUME NEW c \in Clients,
             \/ HidReadTimeout(c) \/ HidRead(c) \/ HidSetNonblocking(c)
             \/ ReadLocked(c) \/ ReadWoken(c) \/ ReadExpired(c)
             \/ CondWait(c) \/ SpuriousWakeup(c) \/ Timeout(c)
             \/ CloseSignal(c) \/ CloseWakeUp(c) \/ CloseJoin(c)
      PROVE  UNCHANGED <<session, rpc>>
  BY <1>4 DEF HidReadTimeout, HidRead, BeginRead, HidSetNonblocking, ReadLocked,
     ReadWoken, ReadExpired, CondWait, SpuriousWakeup, Timeout, CloseSignal,
     CloseWakeUp, CloseJoin, OnlyRead, OnlyPc
<1>5. ASSUME NEW c \in Clients, Open(c) \/ CloseFree(c)
      PROVE  Opened' <=> Opened
  BY <1>5 DEF Open, CloseFree, PhaseInv, Closes
<1>6. ASSUME NEW c \in Clients, CloseCrash(c)
      PROVE  Opened' <=> Opened
  BY <1>6 DEF CloseCrash, Crash, PhaseInv, Closes
<1>. QED
  BY <1>1, <1>2, <1>3, <1>4, <1>5, <1>6, NextSteps

----------------------------------------------------------------------------
(* The queue is the newest run of reports.                                 *)

\* Every step keeps the reports in step.
LEMMA QueueStep ==
  PlacesOK /\ ReportsOK /\ PhaseInv /\ QueueInv /\ [Next]_vars => QueueInv'
<1> SUFFICES ASSUME PlacesOK, ReportsOK, PhaseInv, QueueInv, [Next]_vars
             PROVE  QueueInv'
  OBVIOUS
<1>. USE DEF readVars, deviceVars
<1>. DEFINE MayHold == Opened \/ session \in {"closing", "crashed"}
\* A handle that may hold reports goes on to hold them until they are freed.
<1>1. CASE \E c \in Clients : CloseFree(c)
  <2>1. PICK c \in Clients : CloseFree(c)
    BY <1>1
  <2>2. /\ input_reports' = <<>> /\ UNCHANGED <<taken, got, sent>>
        /\ rpc' = "none" /\ rpc = "done"
    BY <2>1 DEF CloseFree, PhaseInv
  <2>. QED
    BY <2>2 DEF QueueInv, QueueIsNewestRun, Arrived
<1>2. ASSUME ~\E c \in Clients : CloseFree(c), MayHold PROVE MayHold'
  <2>1. session \in {"closing", "crashed"} => session' \in {"closing", "crashed"}
    <3>1. ASSUME NEW b \in Barriers, BarrierStep(b), session \in {"closing", "crashed"}
          PROVE  session' = session
      BY <3>1, BarrierEffect DEF PhaseInv, Opens
    <3>2. ASSUME NEW c \in Clients, HidCloseCrash(c) \/ CloseCrash(c)
          PROVE  session' = "crashed"
      BY <3>2, CrashEffect
    <3>3. ASSUME session \in {"closing", "crashed"}, ~\E b \in Barriers : BarrierStep(b),
                 ~\E c \in Clients : HidCloseCrash(c) \/ CloseCrash(c)
          PROVE  session' = session
      BY <1>2, <3>3, NextSteps DEF Report, RemovalCallback, SignalCallback, ReadThreadStart,
         Loop, RunStopped, ReadThreadEnd, RunFinished, RunTimedOut, OnlyRpc,
         QueueReport, WakeReaders, DeviceSend, Unplug, Replug, Open,
         HidReadTimeout, HidRead, BeginRead, Calls, HidSetNonblocking, ReadLocked,
         ReadWoken, ReadExpired, CondWait, SpuriousWakeup, Timeout, HidClose,
         CloseSignal, CloseWakeUp, CloseJoin, OnlyRead, OnlyPc, vars
    <3>. QED
      BY <3>1, <3>2, <3>3
  <2>2. ASSUME NEW c \in Clients, HidClose(c) \/ HidCloseCrash(c)
        PROVE  session' \in {"closing", "crashed"}
    BY <2>2 DEF HidClose, HidCloseCrash, Crash
  <2>. QED
    BY <1>2, <2>1, <2>2, OpenedSteps
\* A step that leaves the reports alone.
<1>3. ASSUME UNCHANGED <<input_reports, taken, got, sent>>,
             rpc' = "report" <=> rpc = "report",
             ~\E c \in Clients : CloseFree(c)
      PROVE  QueueInv'
  <2>1. Arrived' = Arrived
    BY <1>3 DEF Arrived
  <2>2. input_reports' # <<>> => MayHold'
    BY <1>2, <1>3 DEF QueueInv
  <2>. QED
    BY <1>3, <2>1, <2>2 DEF QueueInv, QueueIsNewestRun
<1> SUFFICES ASSUME ~\E c \in Clients : CloseFree(c) PROVE QueueInv'
  BY <1>1
<1>4. ASSUME NEW b \in Barriers, BarrierStep(b) PROVE QueueInv'
  <2>1. UNCHANGED <<input_reports, taken, got, sent>> /\ ReaderMoves
    BY <1>4, BarrierEffect
  <2>. QED
    BY <1>3, <2>1 DEF ReaderMoves
<1>5. CASE Report
  <2>1. /\ taken < sent /\ taken' = taken + 1 /\ rpc = "run" /\ rpc' = "report"
        /\ UNCHANGED <<input_reports, got, sent>>
    BY <1>5 DEF Report
  <2>2. Arrived' = Arrived /\ taken' <= sent' /\ taken' > 0
    BY <2>1 DEF Arrived, ReportsOK
  <2>3. input_reports' # <<>> => MayHold'
    BY <1>2, <2>1 DEF QueueInv
  <2>. QED
    BY <2>1, <2>2, <2>3 DEF QueueInv, QueueIsNewestRun
<1>6. CASE RemovalCallback \/ SignalCallback \/ ReadThreadStart \/ Loop
           \/ RunStopped \/ ReadThreadEnd \/ RunFinished \/ RunTimedOut
           \/ WakeReaders
  BY <1>3, <1>6 DEF RemovalCallback, SignalCallback, ReadThreadStart, Loop,
     RunStopped, ReadThreadEnd, RunFinished, RunTimedOut, OnlyRpc, WakeReaders
<1>7. CASE QueueReport
  <2>1. /\ taken \in 1..MaxReports /\ rpc = "report" /\ rpc' = "run"
        /\ input_reports' = Enqueue(input_reports, taken)
        /\ UNCHANGED <<taken, got, sent, session>>
    BY <1>7 DEF QueueReport, QueueInv, ReportsOK
  <2>2. got < taken /\ got \in Nat /\ taken <= sent /\ Arrived' = taken
    BY <2>1 DEF QueueInv, Arrived, ReportsOK
  <2>3. MayHold'
    BY <2>1 DEF PhaseInv, PlacesOK, Opened
  <2>4. \A i \in 1..Len(input_reports) :
          /\ input_reports[i] = (taken - 1) - Len(input_reports) + i
          /\ got < input_reports[i]
    BY <2>1 DEF QueueInv, QueueIsNewestRun, Arrived
  <2>5. Len(input_reports') <= QLimit + 2
    BY <2>1, EnqueueType DEF ReportsOK, QueueInv
  <2>6. \A i \in 1..Len(input_reports') :
          /\ input_reports'[i] = taken - Len(input_reports') + i
          /\ got < input_reports'[i]
    <3>1. \/ Enqueue(input_reports, taken) = Append(input_reports, taken)
          \/ Enqueue(input_reports, taken) = Tail(Append(input_reports, taken))
      BY DEF Enqueue
    <3>2. input_reports \in Seq(1..MaxReports)
      BY DEF ReportsOK
    <3>3. \A i \in 1..Len(Enqueue(input_reports, taken)) :
            /\ Enqueue(input_reports, taken)[i]
                 = taken - Len(Enqueue(input_reports, taken)) + i
            /\ got < Enqueue(input_reports, taken)[i]
      BY <2>1, <2>2, <2>4, <3>1, <3>2, ArrivalRun
    <3>. QED
      BY <2>1, <3>3
  <2>7. QueueIsNewestRun'
    BY <2>1, <2>2, <2>6 DEF QueueIsNewestRun
  <2>. QED
    BY <2>1, <2>2, <2>3, <2>5, <2>7 DEF QueueInv
<1>8. CASE DeviceSend
  <2>1. /\ UNCHANGED <<input_reports, taken, got, rpc, session>>
        /\ taken' <= sent'
    BY <1>8 DEF DeviceSend, ReportsOK, QueueInv
  <2>. QED
    BY <2>1 DEF QueueInv, QueueIsNewestRun, Arrived, Opened
<1>9. CASE Unplug \/ Replug \/ UNCHANGED vars
  BY <1>3, <1>9 DEF Unplug, Replug, vars
<1>10. ASSUME NEW c \in Clients, ReadLocked(c) \/ ReadWoken(c), ReturnData(c)
       PROVE  QueueInv'
  <2>1. /\ input_reports # <<>> /\ got' = Head(input_reports)
        /\ input_reports' = Tail(input_reports)
        /\ UNCHANGED <<rpc, taken, sent, session>>
    BY <1>10 DEF ReadLocked, ReadWoken, ReturnData, OnlyRead
  <2>2. Arrived \in Nat /\ Arrived' = Arrived
    BY <2>1 DEF Arrived, ReportsOK, QueueInv
  <2>3. \A i \in 1..Len(input_reports) :
          input_reports[i] = Arrived - Len(input_reports) + i
    BY DEF QueueInv, QueueIsNewestRun
  <2>4. /\ got' <= Arrived
        /\ Len(input_reports') = Len(input_reports) - 1
        /\ \A i \in 1..Len(input_reports') :
             input_reports'[i] = Arrived - Len(input_reports') + i
             /\ got' < input_reports'[i]
    BY <2>1, <2>2, <2>3, TailRun DEF ReportsOK
  <2>5. Len(input_reports) \in Nat
    BY DEF ReportsOK
  <2>6. MayHold'
    BY <1>2, <2>1 DEF QueueInv
  <2>7. QueueIsNewestRun'
    BY <2>2, <2>4 DEF QueueIsNewestRun
  <2>. QED
    BY <2>1, <2>2, <2>4, <2>5, <2>6, <2>7 DEF QueueInv
<1>11. ASSUME NEW c \in Clients,
              \/ ~ReturnData(c) /\ (ReadLocked(c) \/ ReadWoken(c))
              \/ ReadExpired(c) \/ CondWait(c) \/ SpuriousWakeup(c) \/ Timeout(c)
       PROVE  QueueInv'
  <2>1. UNCHANGED <<input_reports, taken, got, sent, rpc>>
    BY <1>11 DEF ReadLocked, ReadWoken, ReadExpired, Fails, Waits, CondWait,
       SpuriousWakeup, Timeout, OnlyRead, OnlyPc
  <2>. QED
    BY <1>3, <2>1
<1>12. ASSUME NEW c \in Clients,
             \/ HidReadTimeout(c) \/ HidRead(c) \/ HidSetNonblocking(c)
             \/ HidClose(c) \/ CloseSignal(c) \/ CloseWakeUp(c) \/ CloseJoin(c)
       PROVE  QueueInv'
  <2>1. UNCHANGED <<input_reports, taken, got, sent, rpc>>
    BY <1>12 DEF HidReadTimeout, HidRead, BeginRead, HidSetNonblocking,
       HidClose, CloseSignal, CloseWakeUp, CloseJoin, OnlyPc
  <2>. QED
    BY <1>3, <2>1
<1>13. ASSUME NEW c \in Clients, Open(c) PROVE QueueInv'
  <2>1. /\ UNCHANGED <<input_reports, taken, got, sent>>
        /\ rpc = "none" /\ rpc' # "report"
    BY <1>13 DEF Open, PhaseInv
  <2>. QED
    BY <1>3, <2>1
<1>14. ASSUME NEW c \in Clients, HidCloseCrash(c) \/ CloseCrash(c) PROVE QueueInv'
  <2>1. /\ UNCHANGED <<input_reports, taken, got, sent>>
        /\ rpc # "report" /\ rpc' # "report"
    BY <1>14, CrashEffect
  <2>. QED
    BY <1>3, <2>1
<1>. QED
  BY <1>4, <1>5, <1>6, <1>7, <1>8, <1>9, <1>10, <1>11, <1>12, <1>13, <1>14, NextSteps

----------------------------------------------------------------------------
(* Safety.                                                                 *)

\* The handle starts in the invariant.
LEMMA InitInv == Init => IInv
<1> SUFFICES ASSUME Init PROVE IInv
  OBVIOUS
<1>1. PlacesOK
  BY DEF Init, PlacesOK
<1>2. ReportsOK
  BY DEF Init, ReportsOK
<1>3. FlagsOK
  BY Zenon DEF Init, FlagsOK
<1>4. PhaseInv /\ FlagInv /\ WaitInv /\ EndInv
  BY DEF Init, PhaseInv, Opens, Reads, Closes, FlagInv, Stopping, Ended, WaitInv, EndInv
<1>5. QueueInv
  BY DEF Init, QueueInv, QueueIsNewestRun, Arrived
<1>6. OneAwakePerReport
  BY DEF Init, OneAwakePerReport, Asleep
<1>. QED
  BY <1>1, <1>2, <1>3, <1>4, <1>5, <1>6, TypeParts DEF IInv

\* The inductive invariant of a handle holds throughout.
THEOREM Invariant == Spec => []IInv
<1>1. Init => IInv
  BY InitInv
<1>2. IInv /\ [Next]_vars => IInv'
  BY TypeParts, TypeStep, PhaseStep, FlagStep, WaitStep, EndStep, QueueStep,
     AwakeStep DEF IInv
<1>. QED
  BY <1>1, <1>2, PTL DEF Spec

\* Type correctness of HidMac.
THEOREM TypeCorrect == Spec => []TypeOK
<1>1. IInv => TypeOK
  BY DEF IInv
<1>. QED
  BY <1>1, Invariant, PTL

\* Whatever faults there are, the broadcast at the end of read_thread leaves no
\* reader asleep, and none goes to sleep after it.
THEOREM NoSleeper == Spec => []NoSleeperLeft
<1>1. IInv => NoSleeperLeft
  BY DEF IInv, EndInv, Ended, NoSleeperLeft, Asleep
<1>. QED
  BY <1>1, Invariant, PTL

\* hid_report_callback, the reads and their timeouts never leave fewer readers
\* on their way than reports are queued, as long as another reader sleeps.
THEOREM AwakeForEach == Spec => []OneAwakePerReport
<1>1. IInv => OneAwakePerReport
  BY DEF IInv
<1>. QED
  BY <1>1, Invariant, PTL

\* hid_report_callback and return_data keep the queue the run of the newest
\* reports, and no report is handed out twice or out of order.
THEOREM QueueOrder == Spec => []QueueIsNewestRun
<1>1. IInv => QueueIsNewestRun
  BY DEF IInv, QueueInv
<1>. QED
  BY <1>1, Invariant, PTL

----------------------------------------------------------------------------
(* The run loop is there for hid_close, when no barrier is passed by a     *)
(* spurious wakeup.                                                        *)

\* What a step at a barrier does when nobody wakes up spuriously: one thread
\* comes and sleeps, or comes to the other and both go on.
LEMMA MeetEffect ==
  ASSUME "spurious" \notin Faults, PlacesOK, PhaseInv, MeetInv,
         NEW b \in Barriers, BarrierStep(b)
  PROVE  MeetInv'
<1>. USE BarrierPlaces DEF PlacesOK
<1>0. b = "start" \/ b = "shutdown"
  BY DEF Barriers
<1>1. Barriers = {"start", "shutdown"}
  BY DEF Barriers
<1>2. CASE ReaderBarrier(b)
  <2>1. CASE b = "start"
    BY <1>1, <1>2, <2>1 DEF ReaderBarrier, MeetInv, Meets, Runs, Starts, PhaseInv,
       Opens, Reads, Closes, Alone
  <2>2. CASE b = "shutdown"
    BY <1>1, <1>2, <2>2 DEF ReaderBarrier, MeetInv, Meets, Runs, Starts, PhaseInv,
       Opens, Reads, Closes, Alone
  <2>. QED
    BY <1>0, <2>1, <2>2
<1>3. ASSUME NEW c \in Clients, ClientBarrier(c, b) PROVE MeetInv'
  <2>1. CASE b = "start"
    BY <1>1, <1>3, <2>1 DEF ClientBarrier, MeetInv, Meets, Runs, Starts, PhaseInv,
       Opens, Reads, Closes, Alone
  <2>2. CASE b = "shutdown"
    BY <1>1, <1>3, <2>2 DEF ClientBarrier, MeetInv, Meets, Runs, Starts, PhaseInv,
       Opens, Reads, Closes, Alone
  <2>. QED
    BY <1>0, <2>1, <2>2
<1>. QED
  BY <1>2, <1>3 DEF BarrierStep, SpuriousReader, SpuriousClient

\* Every step keeps the two threads meeting at the barriers.
LEMMA MeetStep ==
  ASSUME "spurious" \notin Faults
  PROVE  PlacesOK /\ PhaseInv /\ MeetInv /\ [Next]_vars => MeetInv'
<1> SUFFICES ASSUME PlacesOK, PhaseInv, MeetInv, [Next]_vars PROVE MeetInv'
  OBVIOUS
<1>1. ASSUME NEW b \in Barriers, BarrierStep(b) PROVE MeetInv'
  BY <1>1, MeetEffect
<1>. USE BarrierPlaces DEF PlacesOK, Barriers
\* A step that moves no thread at a barrier and no phase.
<1>2. ASSUME UNCHANGED <<session, count>>,
             rpc' = rpc \/ (rpc \in Meets \ {"shutdownWait"} /\ rpc' \in Meets \ {"shutdownWait"})
             \/ (rpc \in Starts \ {"startWait"} /\ rpc' \in Starts \ {"startWait"})
             \/ (rpc = "ending" /\ rpc' = "done"),
             \A c \in Clients :
               \/ pc'[c] = pc[c]
               \/ pc'[c] \notin {"startWait", "signal", "wakeup", "shutdown",
                                 "shutdownWait"}
                  /\ pc[c] \notin {"startWait", "shutdownWait"}
               \/ pc[c] = "signal" /\ pc'[c] = "wakeup"
               \/ pc[c] = "wakeup" /\ pc'[c] = "shutdown"
      PROVE  MeetInv'
  BY <1>2 DEF MeetInv, Meets, Runs, Starts
<1>3. CASE Report \/ RemovalCallback \/ SignalCallback \/ ReadThreadStart \/ Loop
           \/ RunStopped \/ ReadThreadEnd \/ RunFinished \/ RunTimedOut
  BY <1>2, <1>3 DEF Report, RemovalCallback, SignalCallback, ReadThreadStart, Loop,
     RunStopped, ReadThreadEnd, RunFinished, RunTimedOut, OnlyRpc, Meets, Runs,
     Starts
<1>4. CASE QueueReport
  BY <1>2, <1>4, SignalEffect DEF QueueReport, Meets, Runs
<1>5. CASE WakeReaders
  BY <1>2, <1>5, WakeEffect DEF WakeReaders, Meets
<1>6. CASE DeviceSend \/ Unplug \/ Replug \/ UNCHANGED vars
  BY <1>2, <1>6 DEF DeviceSend, Unplug, Replug, vars
<1>7. ASSUME NEW c \in Clients,
             \/ HidReadTimeout(c) \/ HidRead(c) \/ HidSetNonblocking(c)
             \/ ReadLocked(c) \/ ReadWoken(c) \/ ReadExpired(c)
             \/ CondWait(c) \/ SpuriousWakeup(c) \/ Timeout(c)
      PROVE  MeetInv'
  <2>1. /\ UNCHANGED <<session, count, rpc>>
        /\ \/ UNCHANGED pc
           \/ /\ pc[c] \in Reads \cup {"idle"}
              /\ \E to \in Reads \cup {"idle"} : pc' = [pc EXCEPT ![c] = to]
    BY <1>7 DEF HidReadTimeout, HidRead, BeginRead, Calls, HidSetNonblocking, ReadLocked,
       ReadWoken, ReadExpired, ReturnData, Fails, Return, Waits, CondWait,
       SpuriousWakeup, Timeout, Wake, Asleep, OnlyRead, OnlyPc, Reads
  <2>. QED
    BY <1>2, <2>1 DEF Reads
<1>8. ASSUME NEW c \in Clients, CloseSignal(c) \/ CloseWakeUp(c) \/ CloseJoin(c)
      PROVE  MeetInv'
  BY <1>2, <1>8 DEF CloseSignal, CloseWakeUp, CloseJoin, OnlyPc
<1>9. ASSUME NEW c \in Clients, Open(c) PROVE MeetInv'
  BY <1>9 DEF Open, MeetInv, Starts, PhaseInv, Opens, Closes
<1>10. ASSUME NEW c \in Clients, HidClose(c) PROVE MeetInv'
  BY <1>10 DEF HidClose, MeetInv
<1>11. ASSUME NEW c \in Clients, CloseFree(c) PROVE MeetInv'
  \* The read thread has ended and the others are idle: nobody is counted.
  <2>1. /\ rpc = "done" /\ session' = "closed" /\ rpc' = "none"
        /\ \A d \in Clients : pc[d] \notin {"startWait", "shutdownWait"} /\ pc'[d] = "idle"
        /\ UNCHANGED count
    BY <1>11 DEF CloseFree, PhaseInv, Closes, Alone
  <2>. QED
    BY <2>1 DEF MeetInv
<1>12. ASSUME NEW c \in Clients, HidCloseCrash(c) \/ CloseCrash(c) PROVE FALSE
  \* The read thread has met the opener, and hid_close has not met it again.
  <2>1. rpc \in Meets
    BY <1>12 DEF HidCloseCrash, CloseCrash, MeetInv, PhaseInv, Closes
  <2>. QED
    BY <1>12, <2>1 DEF HidCloseCrash, CloseCrash, HasRunLoop, Meets, Runs
<1>. QED
  BY <1>1, <1>3, <1>4, <1>5, <1>6, <1>7, <1>8, <1>9, <1>10, <1>11, <1>12, NextSteps

\* Unless a barrier is passed by a spurious wakeup, the run loop that hid_close
\* signals has been made and has not ended.
THEOREM RunLoopThere ==
  ASSUME "spurious" \notin Faults
  PROVE  Spec => []RunLoopAlive
<1>1. Init => MeetInv
  BY BarrierPlaces DEF Init, MeetInv, Barriers
<1>2. IInv /\ MeetInv /\ [Next]_vars => MeetInv'
  BY MeetStep, TypeParts DEF IInv
<1>3. MeetInv => RunLoopAlive
  BY DEF MeetInv, Meets, Runs, RunLoopAlive, HasRunLoop
<1>. QED
  BY <1>1, <1>2, <1>3, Invariant, PTL DEF Spec

----------------------------------------------------------------------------
(* The handle implements the lossy FIFO of HidChannel.                     *)

\* The handle starts as a closed channel.
LEMMA ChannelInit == Init => Channel!Init
BY DEF Init, Channel!Init, Opened, Arrived

\* A step that changes nothing the channel shows.
LEMMA ChannelStutter ==
  ASSUME UNCHANGED <<got, ret>>, Arrived' = Arrived, Opened' <=> Opened,
         \/ ~Opened
         \/ (Stopping' <=> Stopping) /\ UNCHANGED input_reports
  PROVE  UNCHANGED Channel!vars
<1>1. (IF Opened THEN input_reports ELSE <<>>)' =
        (IF Opened THEN input_reports ELSE <<>>)
  OBVIOUS
<1>2. (Opened /\ ~Stopping)' = (Opened /\ ~Stopping) /\ Opened' = Opened
  OBVIOUS
<1>. QED
  BY <1>1, <1>2 DEF Channel!vars

\* The device is seen to be gone, or the run loop has stopped.
LEMMA ChannelDown ==
  ASSUME UNCHANGED <<got, ret, input_reports>>, Arrived' = Arrived,
         Opened' <=> Opened, Stopping'
  PROVE  [Channel!Next]_Channel!vars
<1>1. CASE Opened
  <2>1. Channel!Disconnect
    BY <1>1 DEF Channel!Disconnect
  <2>. QED
    BY <2>1 DEF Channel!Next
<1>2. CASE ~Opened
  BY <1>2, ChannelStutter
<1>. QED
  BY <1>1, <1>2

\* A report the callback queues arrives, or comes too late to be read.
LEMMA ChannelQueue ==
  ASSUME IInv, QueueReport
  PROVE  [Channel!Next]_Channel!vars
<1>0. PlacesOK /\ ReportsOK /\ PhaseInv /\ FlagInv
  BY TypeParts DEF IInv
<1>1. /\ Arrived + 1 = taken /\ Arrived' = taken
      /\ input_reports' = Enqueue(input_reports, Arrived + 1)
      /\ UNCHANGED <<session, got, ret, shutdown_thread, disconnected>>
      /\ rpc = "report" /\ rpc' = "run"
  BY <1>0 DEF QueueReport, Arrived, ReportsOK, readVars, flagVars
<1>2. Opened' <=> Opened
  BY <1>1 DEF Opened
<1>3. CASE Opened
  <2>1. ~Stopping /\ ~Stopping'
    BY <1>0, <1>1, <1>3 DEF FlagInv, Opened, Runs, Stopping
  <2>2. /\ Len(input_reports) \in Nat
        /\ input_reports = <<>> => Len(input_reports) = 0
    BY <1>0 DEF ReportsOK
  <2>3. Enqueue(input_reports, Arrived + 1) =
          IF Len(input_reports) < QLimit + 2
          THEN Append(input_reports, Arrived + 1)
          ELSE Tail(Append(input_reports, Arrived + 1))
    BY <2>2 DEF Enqueue
  <2>4. Channel!Arrive
    BY <1>1, <1>2, <1>3, <2>1, <2>3 DEF Channel!Arrive
  <2>. QED
    BY <2>4 DEF Channel!Next
<1>4. CASE ~Opened
  <2>1. Channel!ArriveTooLate
    BY <1>1, <1>2, <1>4 DEF Channel!ArriveTooLate
  <2>. QED
    BY <2>1 DEF Channel!Next
<1>. QED
  BY <1>3, <1>4

\* What a read returns the channel may return.
LEMMA ChannelRead ==
  ASSUME IInv, NEW c \in Clients, ReadLocked(c) \/ ReadWoken(c) \/ ReadExpired(c)
  PROVE  [Channel!Next]_Channel!vars
<1>1. session = "open" /\ Opened
  BY DEF ReadLocked, ReadWoken, ReadExpired, IInv, PhaseInv, Reads, Opened
<1>2. UNCHANGED <<session, rpc, taken, shutdown_thread, disconnected>>
  BY DEF ReadLocked, ReadWoken, ReadExpired, OnlyRead, flagVars
<1>3. (Opened' <=> Opened) /\ Arrived' = Arrived /\ (Stopping' <=> Stopping)
  BY <1>2 DEF Opened, Arrived, Stopping
<1>4. CASE ReturnData(c)
  <2>1. Channel!ReadReport
    BY <1>1, <1>3, <1>4 DEF ReturnData, Return, Channel!ReadReport
  <2>. QED
    BY <2>1 DEF Channel!Next
<1>5. CASE Stopping /\ Fails(c)
  <2>1. Channel!ReadFails
    BY <1>1, <1>3, <1>5 DEF Fails, Return, Channel!ReadFails
  <2>. QED
    BY <2>1 DEF Channel!Next
<1>6. CASE Return(c, 0) /\ UNCHANGED <<got, input_reports>>
  <2>1. Channel!ReadNothing
    BY <1>1, <1>3, <1>6 DEF Return, Channel!ReadNothing
  <2>. QED
    BY <2>1 DEF Channel!Next
<1>7. CASE Waits(c)
  BY <1>3, <1>7, ChannelStutter DEF Waits
<1>. QED
  BY <1>4, <1>5, <1>6, <1>7 DEF ReadLocked, ReadWoken, ReadExpired

\* A thread at a barrier opens the channel, or changes nothing it shows.
LEMMA ChannelBarrier ==
  ASSUME IInv, [Next]_vars, NEW b \in Barriers, BarrierStep(b)
  PROVE  [Channel!Next]_Channel!vars
<1>0. PlacesOK /\ ReportsOK /\ PhaseInv /\ FlagInv /\ QueueInv
  BY TypeParts DEF IInv
<1>1. /\ UNCHANGED <<ret, got, input_reports, taken, shutdown_thread, disconnected>>
      /\ ReaderMoves
  BY <1>0, BarrierEffect DEF readVars, flagVars
<1>2. Arrived' = Arrived /\ (Stopping' <=> Stopping)
  BY <1>1 DEF ReaderMoves, Arrived, Stopping
<1>3. CASE Opened' <=> Opened
  BY <1>1, <1>2, <1>3, ChannelStutter
<1>4. CASE ~(Opened' <=> Opened)
  <2>1. ~\E c \in Clients : HidClose(c) \/ HidCloseCrash(c)
    BY <1>0, BarrierEffect DEF HidClose, HidCloseCrash, Crash, PhaseInv, Opens
  <2>2. ~Opened /\ Opened' /\ session = "opening" /\ rpc \in Starts
    BY <1>0, <1>4, <2>1, OpenedSteps
  <2>3. ~Stopping /\ input_reports = <<>>
    BY <1>0, <2>2 DEF FlagInv, QueueInv
  <2>4. Channel!Open
    BY <1>1, <1>2, <2>2, <2>3 DEF Channel!Open
  <2>. QED
    BY <2>4 DEF Channel!Next
<1>. QED
  BY <1>3, <1>4

\* Every step of the handle is one of the channel, or changes nothing it shows.
LEMMA ChannelStep == IInv /\ [Next]_vars => [Channel!Next]_Channel!vars
<1> SUFFICES ASSUME IInv, [Next]_vars PROVE [Channel!Next]_Channel!vars
  OBVIOUS
<1>0. PlacesOK /\ ReportsOK /\ PhaseInv
  BY TypeParts DEF IInv
<1>1. ASSUME NEW b \in Barriers, BarrierStep(b) PROVE [Channel!Next]_Channel!vars
  BY <1>1, ChannelBarrier
<1>2. CASE QueueReport
  BY <1>2, ChannelQueue
<1>3. ASSUME NEW c \in Clients, ReadLocked(c) \/ ReadWoken(c) \/ ReadExpired(c)
      PROVE  [Channel!Next]_Channel!vars
  BY <1>3, ChannelRead
<1>4. CASE RemovalCallback \/ RunStopped \/ RunFinished
  <2>1. /\ UNCHANGED <<got, ret, input_reports>> /\ Arrived' = Arrived
        /\ (Opened' <=> Opened) /\ Stopping'
    BY <1>4 DEF RemovalCallback, RunStopped, RunFinished, readVars, Arrived, Opened,
       Stopping
  <2>. QED
    BY <2>1, ChannelDown
<1>5. CASE Report \/ SignalCallback \/ ReadThreadStart \/ Loop \/ ReadThreadEnd
           \/ RunTimedOut \/ WakeReaders
  <2>1. /\ UNCHANGED <<session, got, ret, input_reports, shutdown_thread,
                       disconnected>>
        /\ (Opened' <=> Opened)
    BY <1>5 DEF Report, SignalCallback, ReadThreadStart, Loop, ReadThreadEnd,
       RunTimedOut, WakeReaders, OnlyRpc, readVars, flagVars, Opened
  <2>2. Arrived' = Arrived
    BY <1>0, <1>5 DEF Report, SignalCallback, ReadThreadStart, Loop, ReadThreadEnd,
       RunTimedOut, WakeReaders, OnlyRpc, Arrived, ReportsOK
  <2>3. Stopping' <=> Stopping
    BY <2>1 DEF Stopping
  <2>. QED
    BY <2>1, <2>2, <2>3, ChannelStutter
<1>6. CASE DeviceSend \/ Unplug \/ Replug \/ UNCHANGED vars
  <2>1. UNCHANGED <<session, rpc, got, ret, input_reports, shutdown_thread,
                    disconnected, taken>>
    BY <1>6 DEF DeviceSend, Unplug, Replug, vars, readVars, flagVars
  <2>2. (Opened' <=> Opened) /\ Arrived' = Arrived /\ (Stopping' <=> Stopping)
    BY <2>1 DEF Opened, Arrived, Stopping
  <2>. QED
    BY <2>1, <2>2, ChannelStutter
<1>7. ASSUME NEW c \in Clients,
             \/ HidSetNonblocking(c) \/ CondWait(c) \/ SpuriousWakeup(c) \/ Timeout(c)
             \/ CloseSignal(c) \/ CloseWakeUp(c) \/ CloseJoin(c)
      PROVE  [Channel!Next]_Channel!vars
  <2>1. UNCHANGED <<session, rpc, got, ret, input_reports, shutdown_thread,
                    disconnected, taken>>
    BY <1>7 DEF HidSetNonblocking, CondWait, SpuriousWakeup, Timeout, CloseSignal,
       CloseWakeUp, CloseJoin, OnlyPc, readVars, flagVars
  <2>2. (Opened' <=> Opened) /\ Arrived' = Arrived /\ (Stopping' <=> Stopping)
    BY <2>1 DEF Opened, Arrived, Stopping
  <2>. QED
    BY <2>1, <2>2, ChannelStutter
<1>8. ASSUME NEW c \in Clients, HidReadTimeout(c) \/ HidRead(c)
      PROVE  [Channel!Next]_Channel!vars
  <2>1. /\ session = "open" /\ ret' = 0
        /\ UNCHANGED <<session, rpc, got, input_reports, shutdown_thread,
                       disconnected, taken>>
    BY <1>8 DEF HidReadTimeout, HidRead, BeginRead, Calls, flagVars
  <2>2. Opened /\ Opened' /\ Arrived' = Arrived /\ (Stopping' <=> Stopping)
    BY <2>1 DEF Opened, Arrived, Stopping
  <2>3. Channel!ReadNothing
    BY <2>1, <2>2 DEF Channel!ReadNothing
  <2>. QED
    BY <2>3 DEF Channel!Next
<1>10. ASSUME NEW c \in Clients, HidClose(c) PROVE [Channel!Next]_Channel!vars
  <2>1. Channel!Close
    BY <1>10 DEF HidClose, Channel!Close, Opened, Arrived, readVars
  <2>. QED
    BY <2>1 DEF Channel!Next
<1>11. ASSUME NEW c \in Clients, HidCloseCrash(c) \/ CloseCrash(c)
       PROVE  [Channel!Next]_Channel!vars
  <2>1. /\ session \in {"open", "closing"} /\ ~Opened'
        /\ UNCHANGED <<got, ret>> /\ Arrived' = Arrived
    BY <1>0, <1>11, CrashEffect DEF Opened, Arrived, readVars
  <2>2. CASE session = "open"
    <3>1. Channel!Close
      BY <2>1, <2>2 DEF Channel!Close, Opened
    <3>. QED
      BY <3>1 DEF Channel!Next
  <2>3. CASE session = "closing"
    BY <2>1, <2>3, ChannelStutter DEF Opened
  <2>. QED
    BY <2>1, <2>2, <2>3
<1>9. ASSUME NEW c \in Clients, Open(c) \/ CloseFree(c)
      PROVE  [Channel!Next]_Channel!vars
  <2>1. ~Opened /\ ~Opened'
    BY <1>0, <1>9 DEF Open, CloseFree, Opened, PhaseInv, Closes
  <2>2. UNCHANGED <<got, ret>> /\ Arrived' = Arrived
    BY <1>0, <1>9 DEF Open, CloseFree, Arrived, readVars, PhaseInv
  <2>. QED
    BY <2>1, <2>2, ChannelStutter
<1>. QED
  BY <1>1, <1>2, <1>3, <1>4, <1>5, <1>6, <1>7, <1>8, <1>9, <1>10, <1>11, NextSteps

\* hid-macosx.c implements the channel too, with reads that may fail early:
\* reports come out in order, a read fails only after the disconnect, and no
\* report turns up after that; only a full queue loses reports.
THEOREM Refinement == Spec => ImplementsChannel
<1>1. Init => Channel!Init
  BY ChannelInit
<1>2. IInv /\ [Next]_vars => [Channel!Next]_Channel!vars
  BY ChannelStep
<1>. QED
  BY <1>1, <1>2, Invariant, PTL DEF Spec, ImplementsChannel, Channel!Spec
=============================================================================
