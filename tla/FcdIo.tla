-------------------------------- MODULE FcdIo --------------------------------
(***************************************************************************)
(* lib/fcd_application.c's calls that set and get, and lib/fcd_common.c's  *)
(* fcd_io, fcd_open and fcd_close: several programs that each open the     *)
(* same dongle, write a request, read a reply and close it.  What a        *)
(* program passes is a tuple of numbers, what crosses the bus a tuple of   *)
(* words.  The dongle takes one request and keeps one reply; a reply       *)
(* nobody reads stays in it from one handle to the next.  hid_open_path    *)
(* gives a device to one handle at a time.  Requests are numbered, which   *)
(* the program cannot see.                                                 *)
(***************************************************************************)
EXTENDS Integers, Sequences, SequencesExt

CONSTANTS Callers,    \* programs that use the dongle
          Registers,  \* "dc", "iq", "frequency", "bias_tee" and other bytes
          ByteValues, \* of these, the ones fcd_get_value asks for
          Args,       \* Args[r]: what programs try to set register r to
          Half,       \* half of what an int16_t can hold (2^15 in the code)
          MaxCalls,   \* bound: calls of fcd_io
          Faults      \* which of AllFaults may happen

AllFaults == {"refuse",   \* the dongle answers with status 0
              "timeout",  \* hid_write gives up, whatever the dongle got
              "crash",    \* a program is killed
              "unplug"}   \* the dongle leaves the bus

ASSUME IoAssumption ==
  /\ MaxCalls \in Nat
  /\ Half \in Nat \ {0}
  /\ ByteValues \subseteq Registers
  /\ \A r \in Registers :
       Args[r] \subseteq IF r \in {"dc", "iq"} THEN [1..2 -> Int] ELSE [1..1 -> Nat]
  /\ Faults \subseteq AllFaults
  /\ "nobody" \notin Callers

VARIABLES
  pc,       \* pc[p]: where p is in fcd_open or fcd_io
  dev,      \* dev[p]: p has an FCD
  call,     \* call[p]: the request p is asking fcd_io for
  result,   \* result[p]: result of fcd_io
  got,      \* got[p]: the reply fcd_io took last
  out,      \* out[p]: the variables p wants the numbers in
  owner,    \* the program that has the dongle open
  alive,    \* the dongle of this handle is still there
  input,    \* the handle's queue of input reports
  plugged,  \* the dongle is on the bus
  rx,       \* the request the dongle holds, if any
  tx,       \* the reply the dongle holds, if any
  value,    \* the words in the dongle's registers
  nth,      \* number of calls so far
  spoiled   \* a call was given up between its write and its reply

callVars == <<dev, call, nth>>
resultVars == <<result, got, out>>
handleVars == <<owner, alive, input>>
dongleVars == <<plugged, rx, tx, value>>
vars == <<pc, callVars, resultVars, handleVars, dongleVars, spoiled>>

----------------------------------------------------------------------------
(* Numbers and words; convert_le changes nothing on a little endian host.  *)

\* The types of the numbers a register holds.  Frequencies and bytes have
\* the width of the argument.
Format(reg) ==
  CASE reg = "dc" -> <<"int16_t", "int16_t">>
    [] reg = "iq" -> <<"int16_t", "uint16_t">>
    [] OTHER -> <<"argument">>

Assigned(type, n) ==
  CASE type = "int16_t" -> ((n + Half) % (2 * Half)) - Half
    [] type = "uint16_t" -> n % (2 * Half)
    [] type = "argument" -> n

\* What the fields of correction hold when they are assigned these numbers:
\* the arguments on the way out, the words of the reply on the way back.
Correction(reg, numbers) ==
  [i \in DOMAIN numbers |-> Assigned(Format(reg)[i], numbers[i])]

\* Mutant: only the first number is compared.
Overflow_FirstOnly(reg, numbers) == Correction(reg, numbers)[1] # numbers[1]

Overflow(reg, numbers) == Correction(reg, numbers) # numbers

\* The bytes that are sent, two's complement.
Words(reg, numbers) ==
  [i \in DOMAIN numbers |->
     IF Format(reg)[i] = "argument" THEN numbers[i] ELSE numbers[i] % (2 * Half)]

Numbers(reg, words) == Correction(reg, words)

\* fcd_set_bias_tee sends 1 for any state but 0.
Given(reg, numbers) ==
  IF reg = "bias_tee" THEN [i \in {1} |-> IF numbers[1] = 0 THEN 0 ELSE 1]
  ELSE numbers

\* All registers hold 0 at power-up.
Zeros(reg) == [i \in DOMAIN Format(reg) |-> 0]

----------------------------------------------------------------------------

None == [n |-> 0, op |-> "none", reg |-> "none", arg |-> <<>>]
NoReply == [n |-> 0, op |-> "none", reg |-> "none", ok |-> FALSE, data |-> <<>>]

Requests == [n : 1..MaxCalls, op : {"get", "set"}, reg : Registers,
             arg : Seq(Int)]
Replies == [n : 1..MaxCalls, op : {"get", "set"}, reg : Registers, ok : BOOLEAN,
            data : Seq(Nat)]

TypeOK ==
  /\ pc \in [Callers -> {"idle", "check", "checked", "open", "write", "read",
                         "close"}]
  /\ dev \in [Callers -> BOOLEAN]
  /\ call \in [Callers -> Requests \cup {None}]
  /\ result \in [Callers -> {-1, 0}]
  /\ got \in [Callers -> Replies \cup {NoReply}]
  /\ out \in [Callers -> Seq(Int)]
  /\ owner \in Callers \cup {"nobody"}
  /\ alive \in BOOLEAN /\ plugged \in BOOLEAN /\ spoiled \in BOOLEAN
  /\ input \in Seq(Replies)
  /\ rx \in Seq(Requests) /\ Len(rx) <= 1
  /\ tx \in Seq(Replies) /\ Len(tx) <= 1
  /\ value \in [Registers -> Seq(Nat)]
  /\ nth \in 0..MaxCalls

Init ==
  /\ pc = [p \in Callers |-> "idle"] /\ dev = [p \in Callers |-> FALSE]
  /\ call = [p \in Callers |-> None] /\ nth = 0
  /\ result = [p \in Callers |-> -1] /\ got = [p \in Callers |-> NoReply]
  /\ out = [p \in Callers |-> <<>>]
  /\ owner = "nobody" /\ alive = FALSE /\ input = <<>>
  /\ plugged = TRUE /\ rx = <<>> /\ tx = <<>>
  /\ value = [r \in Registers |-> Zeros(r)]
  /\ spoiled = FALSE

Goto(p, place) == pc' = [pc EXCEPT ![p] = place]
Return(p) == Goto(p, "idle") /\ call' = [call EXCEPT ![p] = None]

----------------------------------------------------------------------------
(* fcd_open and fcd_close.                                                 *)

\* hid_open_path gives p the dongle.
Opens(p) ==
  /\ plugged /\ owner = "nobody"
  /\ owner' = p /\ alive' = TRUE /\ input' = <<>>

CannotOpen == (~plugged \/ owner # "nobody") /\ UNCHANGED handleVars

\* hid_close: the reports in the handle's queue are lost.
Closes ==
  /\ owner' = "nobody" /\ alive' = FALSE /\ input' = <<>>

\* fcd_open(path) tries the path.
FcdOpen(p) ==
  /\ pc[p] = "idle" /\ ~dev[p] /\ Goto(p, "check")
  /\ UNCHANGED <<callVars, resultVars, handleVars, dongleVars, spoiled>>

FcdOpenCheck(p) ==
  /\ pc[p] = "check"
  /\ \/ Opens(p) /\ Goto(p, "checked") /\ dev' = [dev EXCEPT ![p] = TRUE]
     \/ CannotOpen /\ Goto(p, "idle") /\ UNCHANGED dev
  /\ UNCHANGED <<call, nth, resultVars, dongleVars, spoiled>>

FcdOpenClose(p) ==
  /\ pc[p] = "checked" /\ Goto(p, "idle")
  /\ Closes
  /\ UNCHANGED <<callVars, resultVars, dongleVars, spoiled>>

\* fcd_open(NULL) takes the first path of the enumeration, and does not try it.
FcdOpenFirst(p) ==
  /\ pc[p] = "idle" /\ ~dev[p] /\ plugged
  /\ dev' = [dev EXCEPT ![p] = TRUE]
  /\ UNCHANGED <<pc, call, nth, resultVars, handleVars, dongleVars, spoiled>>

FcdClose(p) ==
  /\ pc[p] = "idle" /\ dev[p]
  /\ dev' = [dev EXCEPT ![p] = FALSE]
  /\ UNCHANGED <<pc, call, nth, resultVars, handleVars, dongleVars, spoiled>>

----------------------------------------------------------------------------
(* fcd_io.                                                                 *)

Calls(p, r) ==
  /\ pc[p] = "idle" /\ dev[p] /\ nth < MaxCalls
  /\ Goto(p, "open")
  /\ call' = [call EXCEPT ![p] = r] /\ nth' = r.n
  /\ result' = [result EXCEPT ![p] = -1]
  /\ UNCHANGED <<dev, got, out, handleVars, dongleVars, spoiled>>

Set(p) ==
  \E reg \in Registers : \E arg \in Args[reg] :
    /\ ~Overflow(reg, arg)
    /\ Calls(p, [n |-> nth + 1, op |-> "set", reg |-> reg, arg |-> Given(reg, arg)])

Get(p) ==
  \E reg \in Registers :
    Calls(p, [n |-> nth + 1, op |-> "get", reg |-> reg, arg |-> <<>>])

\* No FCD, a number out of range, or a value that is not in FCD_VALUE_ENUM.
Rejected(p) ==
  /\ pc[p] = "idle"
  /\ \/ ~dev[p]
     \/ \E reg \in Registers : \E arg \in Args[reg] : Overflow(reg, arg)
     \/ ByteValues # {}
  /\ result' = [result EXCEPT ![p] = -1]
  /\ UNCHANGED <<pc, callVars, got, out, handleVars, dongleVars, spoiled>>

Open(p) ==
  /\ pc[p] = "open"
  /\ \/ Opens(p) /\ Goto(p, "write") /\ UNCHANGED call
     \/ CannotOpen /\ Return(p)
  /\ UNCHANGED <<dev, nth, resultVars, dongleVars, spoiled>>

\* The request reaches the dongle.
Sent(p) ==
  /\ alive /\ rx = <<>>
  /\ rx' = <<[call[p] EXCEPT !.arg = Words(call[p].reg, @)]>>

\* Mutants: the reply to a set, which has no data, is not read; the result
\* of hid_write is not looked at.
Write_SetAndClose(p) ==
  /\ pc[p] = "write"
  /\ Sent(p)
  /\ IF call[p].op = "set"
     THEN Goto(p, "close") /\ result' = [result EXCEPT ![p] = 0]
     ELSE Goto(p, "read") /\ UNCHANGED result
  /\ UNCHANGED <<callVars, got, out, handleVars, plugged, tx, value, spoiled>>
Write_Unchecked(p) ==
  /\ pc[p] = "write" /\ Goto(p, "read")
  /\ \/ Sent(p)
     \/ (~alive \/ "timeout" \in Faults) /\ UNCHANGED rx
  /\ UNCHANGED <<callVars, resultVars, handleVars, plugged, tx, value, spoiled>>

\* hid_write fails when the dongle has left; when it times out, the dongle
\* may have the request all the same.
Write(p) ==
  /\ pc[p] = "write"
  /\ \/ Sent(p) /\ Goto(p, "read") /\ UNCHANGED spoiled
     \/ ~alive /\ Goto(p, "close") /\ UNCHANGED <<rx, spoiled>>
     \/ /\ "timeout" \in Faults /\ Goto(p, "close")
        /\ \/ Sent(p) /\ spoiled' = TRUE
           \/ UNCHANGED <<rx, spoiled>>
  /\ UNCHANGED <<callVars, resultVars, handleVars, plugged, tx, value>>

\* Mutant: the command of the reply is not compared.
Valid_StatusOnly(r, a) == a.ok

Valid(r, a) == a.op = r.op /\ a.reg = r.reg /\ a.ok

\* Mutant: the length of the reply is returned instead of 0.
Read_Length(p) ==
  /\ pc[p] = "read" /\ Goto(p, "close")
  /\ input # <<>> /\ input' = Tail(input)
  /\ result' = [result EXCEPT ![p] = 2 + Len(input)]
  /\ UNCHANGED <<callVars, got, out, owner, alive, dongleVars, spoiled>>

\* The first report in the queue is the reply, or there is none.
Read(p) ==
  /\ pc[p] = "read" /\ Goto(p, "close")
  /\ \/ /\ input # <<>> /\ input' = Tail(input)
        /\ LET a == Head(input) IN
           IF Valid(call[p], a)
           THEN /\ result' = [result EXCEPT ![p] = 0]
                /\ got' = [got EXCEPT ![p] = a]
           ELSE UNCHANGED <<result, got>>
     \/ input = <<>> /\ ~alive /\ UNCHANGED <<input, result, got>>
  /\ UNCHANGED <<callVars, out, owner, alive, dongleVars, spoiled>>

\* fcd_get_dc_correction and its like store what they got where the caller
\* wants it.  fcd_get_value had fcd_io store it in its own parameter.
Stored(p) ==
  IF result[p] = 0 /\ call[p].op = "get" /\ call[p].reg \notin ByteValues
  THEN out' = [out EXCEPT ![p] = Numbers(call[p].reg, got[p].data)]
  ELSE UNCHANGED out

\* A reply that has not come by the time a failed call closes stays behind.
Close(p) ==
  /\ pc[p] = "close" /\ Return(p)
  /\ Closes /\ Stored(p)
  /\ got' = [got EXCEPT ![p] = NoReply]
  /\ UNCHANGED <<dev, nth, result, dongleVars, spoiled>>

\* The operating system closes the handle of a program that is killed; the
\* next program starts afresh.
Crash(p) ==
  /\ "crash" \in Faults /\ pc[p] # "idle"
  /\ Return(p) /\ dev' = [dev EXCEPT ![p] = FALSE]
  /\ IF owner = p THEN Closes ELSE UNCHANGED handleVars
  /\ result' = [result EXCEPT ![p] = -1]
  /\ got' = [got EXCEPT ![p] = NoReply] /\ out' = [out EXCEPT ![p] = <<>>]
  /\ spoiled' = (spoiled \/ pc[p] = "read")
  /\ UNCHANGED <<nth, dongleVars>>

----------------------------------------------------------------------------
(* The dongle.                                                             *)

Answer(r, ok, data) ==
  [n |-> r.n, op |-> r.op, reg |-> r.reg, ok |-> ok, data |-> data]

Execute ==
  /\ plugged /\ rx # <<>> /\ tx = <<>>
  /\ LET r == Head(rx) IN
     \/ /\ value' = IF r.op = "set" THEN [value EXCEPT ![r.reg] = r.arg] ELSE value
        /\ tx' = <<Answer(r, TRUE, IF r.op = "get" THEN value[r.reg] ELSE <<>>)>>
     \/ /\ "refuse" \in Faults
        /\ tx' = <<Answer(r, FALSE, <<>>)>> /\ UNCHANGED value
  /\ rx' = <<>>
  /\ UNCHANGED <<pc, callVars, resultVars, handleVars, plugged, spoiled>>

\* The input transfer of an open handle takes the reply.
Deliver ==
  /\ alive /\ tx # <<>>
  /\ input' = Append(input, Head(tx)) /\ tx' = <<>>
  /\ UNCHANGED <<pc, callVars, resultVars, owner, alive, plugged, rx, value,
                 spoiled>>

Unplug ==
  /\ "unplug" \in Faults /\ plugged
  /\ plugged' = FALSE /\ alive' = FALSE
  /\ rx' = <<>> /\ tx' = <<>>
  /\ UNCHANGED <<pc, callVars, resultVars, owner, input, value, spoiled>>

Replug ==
  /\ ~plugged
  /\ plugged' = TRUE
  /\ value' = [r \in Registers |-> Zeros(r)]
  /\ UNCHANGED <<pc, callVars, resultVars, handleVars, rx, tx, spoiled>>

----------------------------------------------------------------------------

InsideCall(p) ==
  \/ FcdOpenCheck(p) \/ FcdOpenClose(p)
  \/ Open(p) \/ Write(p) \/ Read(p) \/ Close(p)

Next ==
  \/ Execute \/ Deliver \/ Unplug \/ Replug
  \/ \E p \in Callers :
       \/ FcdOpen(p) \/ FcdOpenFirst(p) \/ FcdClose(p)
       \/ Set(p) \/ Get(p) \/ Rejected(p)
       \/ InsideCall(p) \/ Crash(p)

Spec == Init /\ [][Next]_vars

----------------------------------------------------------------------------
(* Properties.                                                             *)

\* A successful call has the reply to its own request, unless some call was
\* given up before: nothing but the command byte ties a reply to a request,
\* and it is the strict alternation of write and read that makes this enough.
OwnReply ==
  \A p \in Callers :
    pc[p] = "close" /\ result[p] = 0 => got[p].n = call[p].n \/ spoiled

\* The numbers fcd.h documents: "(-32768..32767)" and "(0..65535)".
Documented(reg) ==
  CASE reg = "dc" -> ((-Half)..(Half - 1)) \X ((-Half)..(Half - 1))
    [] reg = "iq" -> ((-Half)..(Half - 1)) \X (0..(2 * Half - 1))
    [] OTHER -> {Given(reg, a) : a \in Args[reg]}

\* The dongle and what is on its way, as FcdDongle sees it: words are the
\* numbers they stand for, and a call ends when fcd_io has closed.
InCall(p) == pc[p] \in {"open", "write", "read", "close"}
Taken == {got[p] : p \in {q \in Callers : pc[q] = "close" /\ result[q] = 0}}
RequestOf(r) == [r EXCEPT !.arg = Numbers(r.reg, @)]
AnswerOf(a) == [a EXCEPT !.data = Numbers(a.reg, @)]

Holding == [r \in Registers |-> Numbers(r, value[r])]
Asking == [p \in Callers |-> IF InCall(p) THEN call[p] ELSE None]
Undone == {RequestOf(r) : r \in ToSet(rx)}
          \cup {call[p] : p \in {q \in Callers : pc[q] \in {"open", "write"}}}
Answers == {AnswerOf(a) : a \in ToSet(tx) \cup ToSet(input) \cup Taken}
Outcome == [p \in Callers |-> IF InCall(p) THEN -1 ELSE result[p]]

Dongle == INSTANCE FcdDongle WITH
  Contents <- [r \in Registers |-> Documented(r)],
  PowerUp <- [r \in Registers |-> Zeros(r)],
  value <- Holding, calls <- Asking, undone <- Undone, answers <- Answers,
  result <- Outcome

\* Whatever is lost, refused, timed out or killed, a call that succeeds has
\* the answer to its own request or one that an earlier call of the same
\* command was given up without, no request takes effect twice, and the
\* numbers in and out are those the registers hold: none is cut short.
ImplementsDongle == Dongle!Spec

\* A program goes on inside a call, the dongle carries out requests and its
\* replies are taken in.  Nothing makes a program call, nor the dongle leave.
FairSpec ==
  /\ Spec
  /\ WF_vars(Execute) /\ WF_vars(Deliver)
  /\ \A p \in Callers : WF_vars(InsideCall(p))

\* fcd.h of fcd_get_value: "value new value".  A get that returns 0 has stored
\* the numbers it was answered where the caller wants them.
GetStores ==
  [][\A p \in Callers :
       /\ pc[p] = "close" /\ result[p] = 0 /\ call[p].op = "get"
       /\ pc'[p] = "idle" /\ dev'[p]
       => out'[p] = Numbers(call[p].reg, got[p].data)]_vars

\* fcd_io returns, although hid_read waits without a timeout: it reads only
\* after a write that succeeded, and then a reply comes, if not its own.
CallReturns == \A p \in Callers : pc[p] # "idle" ~> pc[p] = "idle"

=============================================================================
