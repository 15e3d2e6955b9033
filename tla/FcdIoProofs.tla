----------------------------- MODULE FcdIoProofs -----------------------------
(***************************************************************************)
(* Proofs about FcdIo for every number of programs and calls, any set of   *)
(* registers and arguments, every width of a word and every set of faults. *)
(***************************************************************************)
EXTENDS FcdIo, SequenceTheorems, TLAPS

USE IoAssumption DEF IoAssumption, AllFaults

----------------------------------------------------------------------------
(* The inductive invariant.                                                *)

\* Requests as programs make them: numbers within what is documented to set,
\* none to get.
Asked == {r \in Requests : IF r.op = "set" THEN r.arg \in Documented(r.reg)
                           ELSE r.arg = <<>>}

CallInv ==
  \A p \in Callers : IF InCall(p) THEN call[p] \in Asked ELSE call[p] = None

\* The handle belongs to the program that is between its opening and closing;
\* a dongle that left keeps nothing for the handle it left.
OwnerInv ==
  /\ \A p \in Callers : pc[p] \in {"checked", "write", "read", "close"} <=> owner = p
  /\ owner = "nobody" => ~alive /\ input = <<>>
  /\ ~plugged \/ (owner # "nobody" /\ ~alive) => ~alive /\ rx = <<>> /\ tx = <<>>

\* The result is -1 until a valid reply has been read.
Succeeds(p) == pc[p] = "close" /\ result[p] = 0

ResultInv ==
  /\ \A p \in Callers : pc[p] \in {"open", "write", "read"} => result[p] = -1
  /\ \A p \in Callers : Succeeds(p) => got[p] \in Replies /\ Valid(call[p], got[p])

\* A register holds as many words as its numbers take, and so does what sets it
\* and what is answered to those who get it.
WordsOf(reg) == [DOMAIN Format(reg) -> Nat]

WordsInv ==
  /\ \A reg \in Registers : value[reg] \in WordsOf(reg)
  /\ \A r \in ToSet(rx) : r.op = "set" => r.arg \in WordsOf(r.reg)
  /\ \A a \in ToSet(tx) \cup ToSet(input) :
       a.op = "get" /\ a.ok => a.data \in WordsOf(a.reg)
  /\ \A p \in Callers : Succeeds(p) /\ call[p].op = "get" =>
       got[p].data \in WordsOf(call[p].reg)

\* A request is in one place: with its program until it is written, in the
\* dongle, or, answered, on its way back.
Nums(s) == {s[i].n : i \in DOMAIN s}
Underway == Nums(rx) \cup Nums(tx) \cup Nums(input)
Distinct(s) == \A i, j \in DOMAIN s : s[i].n = s[j].n => i = j

NumberInv ==
  /\ \A p \in Callers : InCall(p) => call[p].n <= nth
  /\ \A k \in Underway : k <= nth
  /\ \A p, q \in Callers : InCall(p) /\ InCall(q) /\ p # q => call[p].n # call[q].n
  /\ \A p \in Callers : pc[p] \in {"open", "write"} => call[p].n \notin Underway
  /\ \A p \in Callers : Succeeds(p) => got[p].n \notin Underway
  /\ Distinct(input)
  /\ Nums(rx) \cap Nums(tx) = {}
  /\ (Nums(rx) \cup Nums(tx)) \cap Nums(input) = {}

\* As long as no call is given up in between, write and read alternate: nothing
\* is on its way but the request, or the reply, of the program that reads.
TurnInv ==
  ~spoiled =>
    /\ (\A p \in Callers : pc[p] # "read") => rx = <<>> /\ tx = <<>> /\ input = <<>>
    /\ \A p \in Callers : pc[p] = "read" => Underway \subseteq {call[p].n}

IInv == /\ TypeOK /\ CallInv /\ OwnerInv /\ ResultInv /\ WordsInv /\ NumberInv
        /\ TurnInv /\ OwnReply

----------------------------------------------------------------------------
(* Numbers and words.                                                      *)

\* The formats of the registers.
LEMMA FormatOf ==
  ASSUME NEW reg
  PROVE  /\ reg = "dc" => Format(reg) = <<"int16_t", "int16_t">>
         /\ reg = "iq" => Format(reg) = <<"int16_t", "uint16_t">>
         /\ reg \notin {"dc", "iq"} => Format(reg) = <<"argument">>
BY DEF Format

\* A signed word is not changed by its way over the bus.
LEMMA SignedTrip ==
  ASSUME NEW n \in (-Half)..(Half - 1)
  PROVE  /\ n % (2 * Half) \in Nat
         /\ Assigned("int16_t", n % (2 * Half)) = n
<1>. DEFINE H == Half
<1>0. H \in Nat \ {0} /\ n \in Int
  OBVIOUS
<1>1. Assigned("int16_t", n % (2 * H)) = (((n % (2 * H)) + H) % (2 * H)) - H
  BY DEF Assigned
<1>2. CASE n >= 0
  <2>1. n % (2 * H) = n
    BY <1>0, <1>2
  <2>2. n + H \in 0..(2 * H - 1)
    BY <1>0, <1>2
  <2>3. (n + H) % (2 * H) = n + H
    BY <1>0, <2>2
  <2>. QED
    BY <1>0, <1>1, <1>2, <2>1, <2>3
<1>3. CASE n < 0
  <2>1. n % (2 * H) = n + 2 * H
    BY <1>0, <1>3
  <2>2. n + 2 * H + H \in (2 * H)..(4 * H - 1)
    BY <1>0, <1>3
  <2>3. (n + 2 * H + H) % (2 * H) = n + H
    <3>. DEFINE b == 2 * H  m == n + 2 * H + H
    <3>1. b \in Nat \ {0} /\ m \in b..(2 * b - 1) /\ m - b = n + H
      BY <1>0, <2>2
    <3>. HIDE DEF b, m
    <3>2. m % b = m - b
      BY <3>1
    <3>. QED
      BY <3>1, <3>2 DEF b, m
  <2>. QED
    BY <1>0, <1>1, <1>3, <2>1, <2>3
<1>. QED
  BY <1>0, <1>2, <1>3

\* Nor is an unsigned one.
LEMMA UnsignedTrip ==
  ASSUME NEW n \in 0..(2 * Half - 1)
  PROVE  /\ n % (2 * Half) \in Nat
         /\ Assigned("uint16_t", n % (2 * Half)) = n
<1>. DEFINE H == Half
<1>1. n % (2 * H) = n
  OBVIOUS
<1>. QED
  BY <1>1 DEF Assigned

\* What an assignment to an int16_t or uint16_t leaves alone is in its range.
LEMMA AssignedRange ==
  ASSUME NEW n \in Int
  PROVE  /\ Assigned("int16_t", n) = n => n \in (-Half)..(Half - 1)
         /\ Assigned("uint16_t", n) = n => n \in 0..(2 * Half - 1)
<1>. DEFINE H == Half
<1>1. H \in Nat \ {0}
  OBVIOUS
<1>2. (n + H) % (2 * H) \in 0..(2 * H - 1) /\ n % (2 * H) \in 0..(2 * H - 1)
  BY <1>1
<1>. QED
  BY <1>1, <1>2 DEF Assigned

\* A tuple of one or two numbers is a sequence.
LEMMA TupleSeq ==
  ASSUME NEW S, NEW k \in Nat, NEW t \in [1..k -> S]
  PROVE  t \in Seq(S)
BY SeqDef

\* The words of a register are a sequence, and so are the numbers they stand for.
LEMMA WordsType ==
  ASSUME NEW reg, NEW w \in WordsOf(reg)
  PROVE  w \in Seq(Nat) /\ Numbers(reg, w) \in Seq(Int)
<1>1. \A n \in Nat : /\ Assigned("int16_t", n) \in Int
                     /\ Assigned("uint16_t", n) \in Int
                     /\ Assigned("argument", n) \in Int
  <2>1. ASSUME NEW n \in Nat
        PROVE  (n + Half) % (2 * Half) \in Int /\ n % (2 * Half) \in Int
    OBVIOUS
  <2>. QED
    BY <2>1 DEF Assigned
<1>2. CASE reg = "dc"
  <2>1. w \in [1..2 -> Nat]
    BY <1>2, FormatOf DEF WordsOf
  <2>2. Numbers(reg, w) = [i \in 1..2 |-> Assigned("int16_t", w[i])]
    BY <1>2, <2>1, FormatOf DEF Numbers, Correction
  <2>3. Numbers(reg, w) \in [1..2 -> Int]
    BY <1>1, <2>1, <2>2
  <2>. QED
    BY <2>1, <2>3, TupleSeq
<1>3. CASE reg = "iq"
  <2>1. w \in [1..2 -> Nat]
    BY <1>3, FormatOf DEF WordsOf
  <2>2. Numbers(reg, w) = [i \in 1..2 |-> Assigned(<<"int16_t", "uint16_t">>[i], w[i])]
    BY <1>3, <2>1, FormatOf DEF Numbers, Correction
  <2>3. Numbers(reg, w) \in [1..2 -> Int]
    BY <1>1, <2>1, <2>2
  <2>. QED
    BY <2>1, <2>3, TupleSeq
<1>4. CASE reg \notin {"dc", "iq"}
  <2>1. w \in [1..1 -> Nat]
    BY <1>4, FormatOf DEF WordsOf
  <2>2. Numbers(reg, w) = [i \in 1..1 |-> Assigned("argument", w[i])]
    BY <1>4, <2>1, FormatOf DEF Numbers, Correction
  <2>3. Numbers(reg, w) \in [1..1 -> Int]
    BY <1>1, <2>1, <2>2
  <2>. QED
    BY <2>1, <2>3, TupleSeq
<1>. QED
  BY <1>2, <1>3, <1>4

\* The documented numbers, as functions.
LEMMA DocumentedShape ==
  ASSUME NEW reg \in Registers, NEW a \in Documented(reg)
  PROVE  /\ reg = "dc" => a \in [1..2 -> (-Half)..(Half - 1)]
         /\ reg = "iq" => /\ a \in [1..2 -> Int]
                          /\ a[1] \in (-Half)..(Half - 1)
                          /\ a[2] \in 0..(2 * Half - 1)
         /\ reg \notin {"dc", "iq"} => a \in [1..1 -> Nat]
         /\ a \in Seq(Int)
<1>1. CASE reg = "dc"
  <2>1. PICK x \in (-Half)..(Half - 1), y \in (-Half)..(Half - 1) : a = <<x, y>>
    BY <1>1 DEF Documented
  <2>. QED
    BY <1>1, <2>1
<1>2. CASE reg = "iq"
  <2>1. PICK x \in (-Half)..(Half - 1), y \in 0..(2 * Half - 1) : a = <<x, y>>
    BY <1>2 DEF Documented
  <2>. QED
    BY <1>2, <2>1
<1>3. CASE reg \notin {"dc", "iq"}
  <2>1. PICK b \in Args[reg] : a = Given(reg, b)
    BY <1>3 DEF Documented
  <2>2. b \in [1..1 -> Nat]
    BY <1>3
  <2>3. a \in [1..1 -> Nat]
    BY <2>1, <2>2 DEF Given
  <2>4. a \in [1..1 -> Int]
    BY <2>3
  <2>. QED
    BY <1>3, <2>3, <2>4, TupleSeq
<1>. QED
  BY <1>1, <1>2, <1>3

\* Documented numbers come back from the bus as they were.
LEMMA RoundTrip ==
  ASSUME NEW reg \in Registers, NEW a \in Documented(reg)
  PROVE  /\ Words(reg, a) \in WordsOf(reg)
         /\ Numbers(reg, Words(reg, a)) = a
<1>. DEFINE w == Words(reg, a)
<1>1. CASE reg = "dc"
  <2>1. a \in [1..2 -> (-Half)..(Half - 1)]
    BY <1>1, DocumentedShape
  <2>2. w = [i \in 1..2 |-> a[i] % (2 * Half)]
    BY <1>1, <2>1, FormatOf DEF Words
  <2>3. \A i \in 1..2 : a[i] % (2 * Half) \in Nat
                        /\ Assigned("int16_t", a[i] % (2 * Half)) = a[i]
    BY <2>1, SignedTrip
  <2>4. w \in [1..2 -> Nat]
    BY <2>2, <2>3
  <2>5. Numbers(reg, w) = [i \in 1..2 |-> Assigned("int16_t", w[i])]
    BY <1>1, <2>4, FormatOf DEF Numbers, Correction
  <2>6. Numbers(reg, w) = a
    BY <2>1, <2>2, <2>3, <2>5
  <2>. QED
    BY <1>1, <2>4, <2>6, FormatOf DEF WordsOf
<1>2. CASE reg = "iq"
  <2>1. /\ a \in [1..2 -> Int]
        /\ a[1] \in (-Half)..(Half - 1) /\ a[2] \in 0..(2 * Half - 1)
    BY <1>2, DocumentedShape
  <2>2. w = [i \in 1..2 |-> a[i] % (2 * Half)]
    BY <1>2, <2>1, FormatOf DEF Words
  <2>3. /\ a[1] % (2 * Half) \in Nat /\ Assigned("int16_t", a[1] % (2 * Half)) = a[1]
        /\ a[2] % (2 * Half) \in Nat /\ Assigned("uint16_t", a[2] % (2 * Half)) = a[2]
    BY <2>1, SignedTrip, UnsignedTrip
  <2>4. w \in [1..2 -> Nat]
    BY <2>2, <2>3
  <2>5. Numbers(reg, w) = [i \in 1..2 |-> Assigned(<<"int16_t", "uint16_t">>[i], w[i])]
    BY <1>2, <2>4, FormatOf DEF Numbers, Correction
  <2>6. \A i \in 1..2 : Assigned(<<"int16_t", "uint16_t">>[i], w[i]) = a[i]
    BY <2>2, <2>3
  <2>7. Numbers(reg, w) = a
    BY <2>1, <2>5, <2>6
  <2>. QED
    BY <1>2, <2>4, <2>7, FormatOf DEF WordsOf
<1>3. CASE reg \notin {"dc", "iq"}
  <2>1. a \in [1..1 -> Nat]
    BY <1>3, DocumentedShape
  <2>2. w = a
    BY <1>3, <2>1, FormatOf DEF Words
  <2>3. Numbers(reg, a) = a
    BY <1>3, <2>1, FormatOf DEF Numbers, Correction, Assigned
  <2>. QED
    BY <1>3, <2>1, <2>2, <2>3, FormatOf DEF WordsOf
<1>. QED
  BY <1>1, <1>2, <1>3

\* The header's ranges are exactly what the overflow tests let through, and a
\* program that asks to set something else is refused.
LEMMA InRange ==
  ASSUME NEW reg \in Registers, NEW a \in Args[reg], ~Overflow(reg, a)
  PROVE  Given(reg, a) \in Documented(reg)
<1>1. CASE reg = "dc"
  <2>1. a \in [1..2 -> Int]
    BY <1>1
  <2>2. \A i \in 1..2 : Assigned("int16_t", a[i]) = a[i]
    BY <1>1, <2>1, FormatOf DEF Overflow, Correction
  <2>3. a[1] \in (-Half)..(Half - 1) /\ a[2] \in (-Half)..(Half - 1)
    BY <2>1, <2>2, AssignedRange
  <2>4. a = <<a[1], a[2]>>
    BY <2>1
  <2>. QED
    BY <1>1, <2>3, <2>4 DEF Given, Documented
<1>2. CASE reg = "iq"
  <2>1. a \in [1..2 -> Int]
    BY <1>2
  <2>2. Assigned("int16_t", a[1]) = a[1] /\ Assigned("uint16_t", a[2]) = a[2]
    BY <1>2, <2>1, FormatOf DEF Overflow, Correction
  <2>3. a[1] \in (-Half)..(Half - 1) /\ a[2] \in 0..(2 * Half - 1)
    BY <2>1, <2>2, AssignedRange
  <2>4. a = <<a[1], a[2]>>
    BY <2>1
  <2>. QED
    BY <1>2, <2>3, <2>4 DEF Given, Documented
<1>3. CASE reg \notin {"dc", "iq"}
  BY <1>3 DEF Documented
<1>. QED
  BY <1>1, <1>2, <1>3

\* The numbers of a register at power-up are zeros.
LEMMA ZeroNumbers ==
  ASSUME NEW reg \in Registers
  PROVE  /\ Zeros(reg) \in WordsOf(reg) /\ Zeros(reg) \in Seq(Nat)
         /\ Numbers(reg, Zeros(reg)) = Zeros(reg)
<1>1. Assigned("int16_t", 0) = 0 /\ Assigned("uint16_t", 0) = 0
      /\ Assigned("argument", 0) = 0
  <2>1. 0 % (2 * Half) = 0 /\ 0 \in (-Half)..(Half - 1)
    OBVIOUS
  <2>. QED
    BY <2>1, SignedTrip DEF Assigned
<1>2. CASE reg = "dc" \/ reg = "iq"
  <2>1. Zeros(reg) = [i \in 1..2 |-> 0]
    BY <1>2, FormatOf DEF Zeros
  <2>2. Numbers(reg, Zeros(reg)) = Zeros(reg)
    BY <1>1, <1>2, <2>1, FormatOf DEF Numbers, Correction
  <2>. QED
    BY <1>2, <2>1, <2>2, TupleSeq, FormatOf DEF WordsOf
<1>3. CASE reg \notin {"dc", "iq"}
  <2>1. Zeros(reg) = [i \in 1..1 |-> 0]
    BY <1>3, FormatOf DEF Zeros
  <2>2. Numbers(reg, Zeros(reg)) = Zeros(reg)
    BY <1>1, <1>3, <2>1, FormatOf DEF Numbers, Correction
  <2>. QED
    BY <1>3, <2>1, <2>2, TupleSeq, FormatOf DEF WordsOf
<1>. QED
  BY <1>2, <1>3

\* No numbers make no words.
LEMMA NoNumbers ==
  ASSUME NEW reg
  PROVE  Words(reg, <<>>) = <<>> /\ Numbers(reg, <<>>) = <<>>
BY DEF Words, Numbers, Correction

----------------------------------------------------------------------------
(* Requests, replies and where they are.                                   *)

\* What a request is.
LEMMA RequestShape ==
  ASSUME NEW r \in Requests
  PROVE  /\ r.n \in 1..MaxCalls /\ r.n # 0 /\ r.op \in {"get", "set"}
         /\ r.reg \in Registers /\ r.arg \in Seq(Int) /\ r # None
BY DEF Requests, None

\* What a reply is.
LEMMA ReplyShape ==
  ASSUME NEW a \in Replies
  PROVE  /\ a.n \in 1..MaxCalls /\ a.op \in {"get", "set"}
         /\ a.reg \in Registers /\ a.ok \in BOOLEAN /\ a.data \in Seq(Nat)
BY DEF Replies

\* Natural numbers are integers, also in a row.
LEMMA NatSeq == ASSUME NEW s \in Seq(Nat) PROVE s \in Seq(Int)
<1>1. PICK k \in Nat : s \in [1..k -> Nat]
  BY SeqDef
<1>2. s \in [1..k -> Int]
  BY <1>1
<1>. QED
  BY <1>2, TupleSeq

\* A request on the wire is the one that was asked for, its words in place of
\* its numbers; the words stand for those numbers.
LEMMA Wired ==
  ASSUME NEW r \in Asked
  PROVE  LET m == [r EXCEPT !.arg = Words(r.reg, @)] IN
         /\ m \in Requests /\ m.n = r.n /\ m.reg = r.reg /\ m.op = r.op
         /\ m.op = "set" => m.arg \in WordsOf(m.reg)
         /\ [m EXCEPT !.arg = Numbers(m.reg, @)] = r
<1>. DEFINE m == [r EXCEPT !.arg = Words(r.reg, @)]
<1>1. r \in Requests /\ r.reg \in Registers /\ r.op \in {"get", "set"}
  BY RequestShape DEF Asked
<1>2. /\ r.op = "set" => Words(r.reg, r.arg) \in WordsOf(r.reg)
      /\ Words(r.reg, r.arg) \in Seq(Nat)
      /\ Numbers(r.reg, Words(r.reg, r.arg)) = r.arg
  <2>1. CASE r.op = "set"
    BY <1>1, <2>1, RoundTrip, WordsType DEF Asked
  <2>2. CASE r.op # "set"
    <3>1. r.arg = <<>>
      BY <2>2 DEF Asked
    <3>2. Words(r.reg, <<>>) = <<>> /\ Numbers(r.reg, <<>>) = <<>>
      BY NoNumbers
    <3>3. <<>> \in Seq(Nat)
      OBVIOUS
    <3>. QED
      BY <2>2, <3>1, <3>2, <3>3
  <2>. QED
    BY <2>1, <2>2
<1>3. Words(r.reg, r.arg) \in Seq(Int)
  BY <1>2, NatSeq
<1>4. m = [n |-> r.n, op |-> r.op, reg |-> r.reg, arg |-> Words(r.reg, r.arg)]
  BY <1>1 DEF Requests
<1>5. m \in Requests
  BY <1>1, <1>3, <1>4 DEF Requests
<1>6. [m EXCEPT !.arg = Numbers(m.reg, @)] =
        [n |-> r.n, op |-> r.op, reg |-> r.reg, arg |-> r.arg]
  <2>. DEFINE w == Words(r.reg, r.arg)
              l == [n |-> r.n, op |-> r.op, reg |-> r.reg, arg |-> w]
  <2>1. Numbers(r.reg, w) = r.arg
    BY <1>2
  <2>. HIDE DEF w, m
  <2>2. m = l
    BY <1>4 DEF w
  <2>3. [l EXCEPT !.arg = Numbers(l.reg, @)] =
          [n |-> r.n, op |-> r.op, reg |-> r.reg, arg |-> r.arg]
    BY <2>1
  <2>. QED
    BY <2>2, <2>3
<1>7. r = [n |-> r.n, op |-> r.op, reg |-> r.reg, arg |-> r.arg]
  BY <1>1 DEF Requests
<1>. QED
  BY <1>2, <1>4, <1>5, <1>6, <1>7

\* A slot is empty or holds one.
LEMMA Slot ==
  ASSUME NEW S, NEW s \in Seq(S), Len(s) <= 1
  PROVE  \/ s = <<>>
         \/ s # <<>> /\ Head(s) \in S /\ s = <<Head(s)>>
<1>. SUFFICES ASSUME s # <<>> PROVE Head(s) \in S /\ s = <<Head(s)>>
  OBVIOUS
<1>1. Len(s) = 1 /\ Head(s) \in S /\ Head(s) = s[1]
  <2>1. Len(s) \in Nat /\ Len(s) # 0 /\ Head(s) \in S
    OBVIOUS
  <2>2. Head(s) = s[1]
    OBVIOUS
  <2>3. \A k \in Nat : k <= 1 /\ k # 0 => k = 1
    OBVIOUS
  <2>4. Len(s) = 1
    BY <2>1, <2>3
  <2>. QED
    BY <2>1, <2>2, <2>4
<1>2. s = [i \in 1..1 |-> s[i]]
  BY <1>1
<1>3. <<Head(s)>> = [i \in 1..1 |-> s[i]]
  BY <1>1
<1>. QED
  BY <1>1, <1>2, <1>3

\* The numbers, and the members, of a queue that is empty or has one member.
LEMMA Members ==
  /\ Nums(<<>>) = {} /\ ToSet(<<>>) = {}
  /\ \A x : Nums(<<x>>) = {x.n} /\ ToSet(<<x>>) = {x}
BY DEF Nums, ToSet

\* Those of a queue that has grown.
LEMMA MembersAppend ==
  ASSUME NEW S, NEW q \in Seq(S), NEW x \in S
  PROVE  /\ Nums(Append(q, x)) = Nums(q) \cup {x.n}
         /\ ToSet(Append(q, x)) = ToSet(q) \cup {x}
<1>1. /\ DOMAIN q = 1..Len(q) /\ DOMAIN Append(q, x) = 1..(Len(q) + 1)
      /\ \A i \in 1..Len(q) : Append(q, x)[i] = q[i]
      /\ Append(q, x)[Len(q) + 1] = x
      /\ Len(q) \in Nat
  OBVIOUS
<1>2. 1..(Len(q) + 1) = 1..Len(q) \cup {Len(q) + 1}
  BY <1>1
<1>. QED
  BY <1>1, <1>2 DEF Nums, ToSet

\* And those of one whose first is taken.
LEMMA MembersTail ==
  ASSUME NEW S, NEW q \in Seq(S), q # <<>>
  PROVE  /\ Head(q) \in S /\ Tail(q) \in Seq(S)
         /\ Nums(q) = {Head(q).n} \cup Nums(Tail(q))
         /\ ToSet(q) = {Head(q)} \cup ToSet(Tail(q))
<1>1. /\ Head(q) \in S /\ Tail(q) \in Seq(S) /\ Head(q) = q[1]
      /\ Len(q) \in Nat /\ Len(q) > 0
      /\ DOMAIN q = 1..Len(q) /\ DOMAIN Tail(q) = 1..(Len(q) - 1)
      /\ \A i \in 1..(Len(q) - 1) : Tail(q)[i] = q[i + 1]
  OBVIOUS
<1>2. \A i \in 1..Len(q) : i = 1 \/ \E j \in 1..(Len(q) - 1) : i = j + 1
  <2>. SUFFICES ASSUME NEW i \in 1..Len(q), i # 1
                PROVE  i - 1 \in 1..(Len(q) - 1) /\ i = (i - 1) + 1
    OBVIOUS
  <2>. QED
    BY <1>1
<1>. DEFINE t == Tail(q)
<1>3. /\ DOMAIN q = 1..Len(q) /\ DOMAIN t = 1..(Len(q) - 1)
      /\ \A i \in 1..(Len(q) - 1) : t[i] = q[i + 1] /\ i + 1 \in 1..Len(q)
      /\ q[1] = Head(q) /\ 1 \in 1..Len(q)
  BY <1>1
<1>. HIDE DEF t
<1>4. \A i \in DOMAIN q : q[i] = Head(q) \/ \E j \in DOMAIN t : q[i] = t[j]
  BY <1>2, <1>3
<1>5. \A j \in DOMAIN t : \E i \in DOMAIN q : t[j] = q[i]
  BY <1>3
<1>6. Nums(q) = {Head(q).n} \cup Nums(t)
  <2>1. \A k \in Nums(q) : k \in {Head(q).n} \cup Nums(t)
    BY <1>4 DEF Nums
  <2>2. Head(q).n \in Nums(q)
    BY <1>3 DEF Nums
  <2>3. \A k \in Nums(t) : k \in Nums(q)
    BY <1>5 DEF Nums
  <2>. QED
    BY <2>1, <2>2, <2>3
<1>7. ToSet(q) = {Head(q)} \cup ToSet(t)
  <2>1. \A k \in ToSet(q) : k \in {Head(q)} \cup ToSet(t)
    BY <1>4 DEF ToSet
  <2>2. Head(q) \in ToSet(q)
    BY <1>3 DEF ToSet
  <2>3. \A k \in ToSet(t) : k \in ToSet(q)
    BY <1>5 DEF ToSet
  <2>. QED
    BY <2>1, <2>2, <2>3
<1>. QED
  BY <1>1, <1>6, <1>7 DEF t

----------------------------------------------------------------------------
(* The steps.                                                              *)

\* A program asks for what may be asked for, under the next number.
LEMMA CallSteps ==
  ASSUME nth \in 0..MaxCalls, NEW p \in Callers, Set(p) \/ Get(p)
  PROVE  \E r \in Asked :
           /\ r.n = nth + 1 /\ Calls(p, r)
           /\ r.op = "set" => \E reg \in Registers : \E arg \in Documented(reg) :
                r = [n |-> nth + 1, op |-> "set", reg |-> reg, arg |-> arg]
           /\ r.op = "get" => \E reg \in Registers :
                r = [n |-> nth + 1, op |-> "get", reg |-> reg, arg |-> <<>>]
<1>1. CASE Set(p)
  <2>0. PICK reg \in Registers : \E a \in Args[reg] :
          /\ ~Overflow(reg, a)
          /\ Calls(p, [n |-> nth + 1, op |-> "set", reg |-> reg, arg |-> Given(reg, a)])
    BY <1>1 DEF Set
  <2>1. PICK a \in Args[reg] :
          /\ ~Overflow(reg, a)
          /\ Calls(p, [n |-> nth + 1, op |-> "set", reg |-> reg, arg |-> Given(reg, a)])
    BY <2>0
  <2>. DEFINE r == [n |-> nth + 1, op |-> "set", reg |-> reg, arg |-> Given(reg, a)]
  <2>2. Given(reg, a) \in Documented(reg) /\ Given(reg, a) \in Seq(Int)
    BY <2>1, InRange, DocumentedShape
  <2>3. nth + 1 \in 1..MaxCalls
    BY <2>1 DEF Calls
  <2>4. r \in Requests
    BY <2>2, <2>3 DEF Requests
  <2>5. r \in Asked
    BY <2>2, <2>4 DEF Asked
  <2>. QED
    BY <2>1, <2>2, <2>5
<1>2. CASE Get(p)
  <2>1. PICK reg \in Registers :
          Calls(p, [n |-> nth + 1, op |-> "get", reg |-> reg, arg |-> <<>>])
    BY <1>2 DEF Get
  <2>. DEFINE r == [n |-> nth + 1, op |-> "get", reg |-> reg, arg |-> <<>>]
  <2>2. nth + 1 \in 1..MaxCalls /\ <<>> \in Seq(Int)
    BY <2>1 DEF Calls
  <2>3. r \in Requests
    BY <2>2 DEF Requests
  <2>4. r \in Asked
    BY <2>3 DEF Asked
  <2>. QED
    BY <2>1, <2>4
<1>. QED
  BY <1>1, <1>2

\* Every step is one of the dongle, the bus or one program.
LEMMA NextSteps ==
  ASSUME [Next]_vars
  PROVE  \/ Execute \/ Deliver \/ Unplug \/ Replug
         \/ \E p \in Callers :
              \/ FcdOpen(p) \/ FcdOpenFirst(p) \/ FcdClose(p) \/ Rejected(p)
              \/ FcdOpenCheck(p) \/ FcdOpenClose(p)
              \/ Set(p) \/ Get(p)
              \/ Open(p) \/ Write(p) \/ Read(p) \/ Close(p) \/ Crash(p)
         \/ UNCHANGED vars
BY Zenon DEF Next, InsideCall

----------------------------------------------------------------------------
(* Type correctness.                                                       *)

\* The types, by what the provers can treat together.
ThreadsOK ==
  /\ pc \in [Callers -> {"idle", "check", "checked", "open", "write", "read",
                         "close"}]
  /\ call \in [Callers -> Requests \cup {None}]
  /\ result \in [Callers -> {-1, 0}]
  /\ owner \in Callers \cup {"nobody"}
  /\ nth \in 0..MaxCalls

WiresOK ==
  /\ got \in [Callers -> Replies \cup {NoReply}]
  /\ out \in [Callers -> Seq(Int)]
  /\ input \in Seq(Replies)
  /\ rx \in Seq(Requests) /\ Len(rx) <= 1
  /\ tx \in Seq(Replies) /\ Len(tx) <= 1
  /\ value \in [Registers -> Seq(Nat)]

BoolsOK ==
  /\ dev \in [Callers -> BOOLEAN]
  /\ alive \in BOOLEAN /\ plugged \in BOOLEAN /\ spoiled \in BOOLEAN

\* TypeOK is the three of them.
LEMMA TypeParts == TypeOK <=> ThreadsOK /\ WiresOK /\ BoolsOK
BY Zenon DEF TypeOK, ThreadsOK, WiresOK, BoolsOK

\* The flags stay booleans.
LEMMA BoolsStep == BoolsOK /\ [Next]_vars => BoolsOK'
<1> SUFFICES ASSUME BoolsOK, [Next]_vars PROVE BoolsOK'
  OBVIOUS
<1>1. dev' \in [Callers -> BOOLEAN]
  <2>. USE DEF BoolsOK, callVars
  <2>1. CASE Execute \/ Deliver \/ Unplug \/ Replug \/ UNCHANGED vars
    BY <2>1 DEF Execute, Deliver, Unplug, Replug, vars
  <2>2. ASSUME NEW p \in Callers,
               \/ FcdOpen(p) \/ FcdOpenFirst(p) \/ FcdClose(p) \/ Rejected(p)
               \/ FcdOpenCheck(p) \/ FcdOpenClose(p) \/ Set(p) \/ Get(p)
        PROVE  dev' \in [Callers -> BOOLEAN]
    BY <2>2 DEF FcdOpen, FcdOpenFirst, FcdClose, Rejected, FcdOpenCheck,
       FcdOpenClose, Set, Get, Calls
  <2>3. ASSUME NEW p \in Callers,
               \/ Open(p) \/ Write(p) \/ Read(p) \/ Close(p) \/ Crash(p)
        PROVE  dev' \in [Callers -> BOOLEAN]
    BY <2>3 DEF Open, Write, Read, Close, Crash
  <2>. QED
    BY <2>1, <2>2, <2>3, NextSteps
<1>2. alive' \in BOOLEAN /\ plugged' \in BOOLEAN /\ spoiled' \in BOOLEAN
  <2>. USE DEF BoolsOK, handleVars, dongleVars
  <2>1. CASE Execute \/ Deliver \/ Unplug \/ Replug \/ UNCHANGED vars
    BY <2>1, Zenon DEF Execute, Deliver, Unplug, Replug, vars
  <2>2. ASSUME NEW p \in Callers,
               \/ FcdOpen(p) \/ FcdOpenFirst(p) \/ FcdClose(p) \/ Rejected(p)
               \/ FcdOpenCheck(p) \/ FcdOpenClose(p) \/ Set(p) \/ Get(p)
        PROVE  alive' \in BOOLEAN /\ plugged' \in BOOLEAN /\ spoiled' \in BOOLEAN
    BY <2>2, Zenon DEF FcdOpen, FcdOpenFirst, FcdClose, Rejected, FcdOpenCheck,
       FcdOpenClose, Set, Get, Calls, Opens, Closes, CannotOpen
  <2>3. ASSUME NEW p \in Callers,
               \/ Open(p) \/ Write(p) \/ Read(p) \/ Close(p) \/ Crash(p)
        PROVE  alive' \in BOOLEAN /\ plugged' \in BOOLEAN /\ spoiled' \in BOOLEAN
    BY <2>3, Zenon DEF Open, Write, Read, Close, Crash, Opens, Closes, CannotOpen
  <2>. QED
    BY <2>1, <2>2, <2>3, NextSteps
<1>. QED
  BY <1>1, <1>2, Zenon DEF BoolsOK

\* The programs stay in their places.
LEMMA ThreadsStep == ThreadsOK /\ [Next]_vars => ThreadsOK'
<1> SUFFICES ASSUME ThreadsOK, [Next]_vars PROVE ThreadsOK'
  OBVIOUS
<1>. USE DEF ThreadsOK, callVars, resultVars, handleVars, Goto
<1>1. CASE Execute \/ Deliver \/ Unplug \/ Replug \/ UNCHANGED vars
  BY <1>1 DEF Execute, Deliver, Unplug, Replug, vars
<1>2. ASSUME NEW p \in Callers,
             \/ FcdOpen(p) \/ FcdOpenFirst(p) \/ FcdClose(p) \/ Rejected(p)
      PROVE  ThreadsOK'
  BY <1>2 DEF FcdOpen, FcdOpenFirst, FcdClose, Rejected
<1>3. ASSUME NEW p \in Callers, FcdOpenCheck(p) \/ FcdOpenClose(p)
      PROVE  ThreadsOK'
  BY <1>3 DEF FcdOpenCheck, FcdOpenClose, Opens, Closes, CannotOpen
<1>4. ASSUME NEW p \in Callers, Set(p) \/ Get(p) PROVE ThreadsOK'
  <2>1. PICK r \in Asked : r.n = nth + 1 /\ Calls(p, r)
    BY <1>4, CallSteps
  <2>2. r \in Requests
    BY DEF Asked
  <2>. QED
    BY <2>1, <2>2 DEF Calls
<1>5. ASSUME NEW p \in Callers, Open(p) PROVE ThreadsOK'
  BY <1>5 DEF Open, Opens, CannotOpen, Return
<1>6. ASSUME NEW p \in Callers, Write(p) \/ Read(p) PROVE ThreadsOK'
  BY <1>6 DEF Write, Read
<1>7. ASSUME NEW p \in Callers, Close(p) \/ Crash(p) PROVE ThreadsOK'
  BY <1>7 DEF Close, Crash, Closes, Return
<1>. QED
  BY <1>1, <1>2, <1>3, <1>4, <1>5, <1>6, <1>7, NextSteps

\* What a write that reaches the dongle puts there.
LEMMA SentEffect ==
  ASSUME ThreadsOK, CallInv, NEW p \in Callers, pc[p] = "write", Sent(p)
  PROVE  /\ alive /\ rx = <<>> /\ call[p] \in Asked
         /\ \E m \in Requests :
              /\ rx' = <<m>> /\ m.n = call[p].n
              /\ m.op = "set" => m.arg \in WordsOf(m.reg)
              /\ [m EXCEPT !.arg = Numbers(m.reg, @)] = call[p]
<1>1. call[p] \in Asked
  BY DEF CallInv, InCall
<1>. DEFINE m == [call[p] EXCEPT !.arg = Words(call[p].reg, @)]
<1>2. /\ m \in Requests /\ m.n = call[p].n
      /\ m.op = "set" => m.arg \in WordsOf(m.reg)
      /\ [m EXCEPT !.arg = Numbers(m.reg, @)] = call[p]
  BY <1>1, Wired
<1>3. rx' = <<m>> /\ alive /\ rx = <<>>
  BY DEF Sent
<1>. HIDE DEF m
<1>. QED
  BY <1>1, <1>2, <1>3

\* What the dongle does when it executes a request.
LEMMA ExecuteEffect ==
  ASSUME WiresOK, WordsInv, Execute
  PROVE  /\ Head(rx) \in Requests /\ rx = <<Head(rx)>>
         /\ Head(rx).op = "set" => Head(rx).arg \in WordsOf(Head(rx).reg)
         /\ rx' = <<>> /\ tx = <<>>
         /\ \/ /\ value' = IF Head(rx).op = "set"
                           THEN [value EXCEPT ![Head(rx).reg] = Head(rx).arg]
                           ELSE value
               /\ tx' = <<Answer(Head(rx), TRUE,
                                 IF Head(rx).op = "get" THEN value[Head(rx).reg]
                                 ELSE <<>>)>>
            \/ UNCHANGED value /\ tx' = <<Answer(Head(rx), FALSE, <<>>)>>
         /\ UNCHANGED <<pc, callVars, resultVars, handleVars, plugged, spoiled>>
<1>1. rx # <<>> /\ rx \in Seq(Requests) /\ Len(rx) <= 1
  BY DEF Execute, WiresOK
<1>2. Head(rx) \in Requests /\ rx = <<Head(rx)>>
  BY <1>1, Slot
<1>3. Head(rx) \in ToSet(rx)
  BY <1>2, Members
<1>4. Head(rx).op = "set" => Head(rx).arg \in WordsOf(Head(rx).reg)
  BY <1>3 DEF WordsInv
<1>5. /\ rx' = <<>> /\ tx = <<>>
      /\ UNCHANGED <<pc, callVars, resultVars, handleVars, plugged, spoiled>>
  BY DEF Execute
<1>. QED
  BY <1>2, <1>4, <1>5 DEF Execute

\* An answer is a reply.
LEMMA AnswerType ==
  ASSUME NEW r \in Requests, NEW ok \in BOOLEAN, NEW data \in Seq(Nat)
  PROVE  Answer(r, ok, data) \in Replies
BY RequestShape DEF Answer, Replies

\* Requests, replies and the contents of the registers keep their types.
LEMMA WiresStep ==
  ASSUME ThreadsOK, WiresOK, CallInv, ResultInv, WordsInv, [Next]_vars
  PROVE  WiresOK'
<1>. USE DEF callVars, resultVars, handleVars, dongleVars
\* A step that adds nothing to a queue and nothing to the registers.
<1>0. ASSUME input' = input \/ input' = <<>>,
             rx' = rx \/ rx' = <<>>, tx' = tx \/ tx' = <<>>,
             got' \in [Callers -> Replies \cup {NoReply}],
             out' \in [Callers -> Seq(Int)],
             value' \in [Registers -> Seq(Nat)]
      PROVE  WiresOK'
  <2>0. /\ input \in Seq(Replies) /\ rx \in Seq(Requests) /\ tx \in Seq(Replies)
        /\ Len(rx) <= 1 /\ Len(tx) <= 1
    BY DEF WiresOK
  <2>1. input' \in Seq(Replies)
    <3>1. <<>> \in Seq(Replies)
      OBVIOUS
    <3>. QED
      BY <1>0, <2>0, <3>1
  <2>2. rx' \in Seq(Requests) /\ Len(rx') <= 1
    <3>1. <<>> \in Seq(Requests) /\ Len(<<>>) <= 1
      OBVIOUS
    <3>. QED
      BY <1>0, <2>0, <3>1
  <2>3. tx' \in Seq(Replies) /\ Len(tx') <= 1
    <3>1. <<>> \in Seq(Replies) /\ Len(<<>>) <= 1
      OBVIOUS
    <3>. QED
      BY <1>0, <2>0, <3>1
  <2>. QED
    BY <1>0, <2>1, <2>2, <2>3 DEF WiresOK
<1>00. /\ got \in [Callers -> Replies \cup {NoReply}]
       /\ out \in [Callers -> Seq(Int)]
       /\ value \in [Registers -> Seq(Nat)]
  BY DEF WiresOK
<1>1. CASE Execute
  <2>1. PICK r \in Requests :
          /\ r.op = "set" => r.arg \in WordsOf(r.reg)
          /\ rx' = <<>>
          /\ \/ /\ value' = IF r.op = "set" THEN [value EXCEPT ![r.reg] = r.arg]
                            ELSE value
                /\ tx' = <<Answer(r, TRUE, IF r.op = "get" THEN value[r.reg]
                                          ELSE <<>>)>>
             \/ UNCHANGED value /\ tx' = <<Answer(r, FALSE, <<>>)>>
    BY <1>1, ExecuteEffect
  <2>2. /\ r.reg \in Registers /\ <<>> \in Seq(Nat)
        /\ r.op = "set" => r.arg \in Seq(Nat)
    BY <2>1, RequestShape, WordsType
  <2>3. value[r.reg] \in Seq(Nat)
    BY <1>00, <2>2
  <2>4. \E a \in Replies : tx' = <<a>>
    <3>. DEFINE data == IF r.op = "get" THEN value[r.reg] ELSE <<>>
    <3>1. data \in Seq(Nat)
      BY <2>2, <2>3
    <3>. HIDE DEF data
    <3>2. Answer(r, TRUE, data) \in Replies /\ Answer(r, FALSE, <<>>) \in Replies
      BY <2>2, <3>1, AnswerType
    <3>. QED
      BY <2>1, <3>2 DEF data
  <2>5. tx' \in Seq(Replies) /\ Len(tx') <= 1
    BY <2>4
  <2>6. value' \in [Registers -> Seq(Nat)]
    BY <1>00, <2>1, <2>2
  <2>7. rx' \in Seq(Requests) /\ Len(rx') <= 1
    BY <2>1
  <2>8. UNCHANGED <<got, out, input>>
    BY <1>1 DEF Execute
  <2>. QED
    BY <2>5, <2>6, <2>7, <2>8 DEF WiresOK
<1>2. CASE Deliver
  <2>1. tx \in Seq(Replies) /\ Len(tx) <= 1 /\ tx # <<>>
    BY <1>2 DEF Deliver, WiresOK
  <2>2. Head(tx) \in Replies
    BY <2>1, Slot
  <2>3. input' \in Seq(Replies)
    BY <1>2, <2>2 DEF Deliver, WiresOK
  <2>4. tx' \in Seq(Replies) /\ Len(tx') <= 1
    BY <1>2 DEF Deliver
  <2>5. UNCHANGED <<got, out, rx, value>>
    BY <1>2 DEF Deliver
  <2>. QED
    BY <2>3, <2>4, <2>5 DEF WiresOK
<1>3. CASE Unplug \/ Replug \/ UNCHANGED vars
  <2>1. value' \in [Registers -> Seq(Nat)]
    BY <1>00, <1>3, ZeroNumbers DEF Unplug, Replug, vars
  <2>. QED
    BY <1>0, <1>00, <1>3, <2>1 DEF Unplug, Replug, vars
<1>4. ASSUME NEW p \in Callers,
             \/ FcdOpen(p) \/ FcdOpenFirst(p) \/ FcdClose(p) \/ Rejected(p)
             \/ FcdOpenCheck(p) \/ FcdOpenClose(p) \/ Set(p) \/ Get(p) \/ Open(p)
      PROVE  WiresOK'
  <2>1. /\ UNCHANGED <<got, out, rx, tx, value>>
        /\ input' = input \/ input' = <<>>
    BY <1>4 DEF FcdOpen, FcdOpenFirst, FcdClose, Rejected, FcdOpenCheck,
       FcdOpenClose, Set, Get, Calls, Open, Opens, Closes, CannotOpen
  <2>. QED
    BY <1>0, <1>00, <2>1
<1>5. ASSUME NEW p \in Callers, Write(p) PROVE WiresOK'
  <2>1. UNCHANGED <<got, out, input, tx, value>>
    BY <1>5 DEF Write
  <2>2. CASE Sent(p)
    <3>1. PICK m \in Requests : rx' = <<m>>
      BY <1>5, <2>2, SentEffect DEF Write
    <3>2. rx' \in Seq(Requests) /\ Len(rx') <= 1
      BY <3>1
    <3>. QED
      BY <2>1, <3>2 DEF WiresOK
  <2>3. CASE UNCHANGED rx
    BY <1>0, <1>00, <2>1, <2>3
  <2>. QED
    BY <1>5, <2>2, <2>3 DEF Write
<1>6. ASSUME NEW p \in Callers, Read(p) PROVE WiresOK'
  <2>1. UNCHANGED <<out, rx, tx, value>>
    BY <1>6 DEF Read
  <2>2. CASE input # <<>> /\ input' = Tail(input)
    <3>1. Head(input) \in Replies /\ Tail(input) \in Seq(Replies)
      BY <2>2, MembersTail DEF WiresOK
    <3>2. got' = got \/ got' = [got EXCEPT ![p] = Head(input)]
      BY <1>6, <2>2 DEF Read
    <3>3. got' \in [Callers -> Replies \cup {NoReply}]
      BY <1>00, <3>1, <3>2
    <3>. QED
      BY <2>1, <2>2, <3>1, <3>3 DEF WiresOK
  <2>3. CASE UNCHANGED <<input, got>>
    BY <1>0, <1>00, <2>1, <2>3
  <2>. QED
    BY <1>6, <2>2, <2>3 DEF Read
<1>7. ASSUME NEW p \in Callers, Close(p) PROVE WiresOK'
  <2>1. /\ input' = <<>> /\ UNCHANGED <<rx, tx, value>>
        /\ got' = [got EXCEPT ![p] = NoReply]
    BY <1>7 DEF Close, Closes
  <2>2. out' \in [Callers -> Seq(Int)]
    <3>1. CASE Succeeds(p)
      <4>1. call[p].op = "get" => got[p].data \in WordsOf(call[p].reg)
        BY <3>1 DEF WordsInv
      <4>2. call[p].op = "get" => Numbers(call[p].reg, got[p].data) \in Seq(Int)
        BY <4>1, WordsType
      <4>. QED
        BY <1>7, <1>00, <4>2 DEF Close, Stored
    <3>2. CASE ~Succeeds(p)
      BY <1>7, <1>00, <3>2 DEF Close, Stored, Succeeds
    <3>. QED
      BY <3>1, <3>2
  <2>. QED
    BY <1>0, <1>00, <2>1, <2>2
<1>8. ASSUME NEW p \in Callers, Crash(p) PROVE WiresOK'
  <2>1. /\ input' = <<>> \/ UNCHANGED input
        /\ got' = [got EXCEPT ![p] = NoReply] /\ out' = [out EXCEPT ![p] = <<>>]
        /\ UNCHANGED <<rx, tx, value>>
    BY <1>8 DEF Crash, Closes
  <2>2. out' \in [Callers -> Seq(Int)]
    BY <1>00, <2>1
  <2>. QED
    BY <1>0, <1>00, <2>1, <2>2
<1>. QED
  BY <1>1, <1>2, <1>3, <1>4, <1>5, <1>6, <1>7, <1>8, NextSteps

----------------------------------------------------------------------------
(* What programs ask for, whose the handle is and what succeeded.          *)

\* The types, the requests of the programs and their results.
LEMMA TypeStep ==
  ASSUME TypeOK, CallInv, ResultInv, WordsInv, [Next]_vars
  PROVE  TypeOK'
<1>1. ThreadsOK /\ WiresOK /\ BoolsOK
  BY TypeParts
<1>2. ThreadsOK' /\ WiresOK' /\ BoolsOK'
  BY <1>1, ThreadsStep, WiresStep, BoolsStep
<1>3. (ThreadsOK /\ WiresOK /\ BoolsOK)' => TypeOK'
  BY Zenon DEF TypeOK, ThreadsOK, WiresOK, BoolsOK
<1>. QED
  BY <1>2, <1>3

\* A program in a call asks for something a program may ask for.
LEMMA CallStep ==
  ASSUME ThreadsOK, CallInv, [Next]_vars
  PROVE  CallInv'
<1>. USE DEF callVars, resultVars, handleVars, Goto, CallInv, InCall
<1>0. /\ pc \in [Callers -> {"idle", "check", "checked", "open", "write", "read",
                            "close"}]
      /\ DOMAIN call = Callers
  BY DEF ThreadsOK
<1>1. CASE Execute \/ Deliver \/ Unplug \/ Replug \/ UNCHANGED vars
  BY <1>1 DEF Execute, Deliver, Unplug, Replug, vars
<1>2. ASSUME NEW p \in Callers,
             \/ FcdOpen(p) \/ FcdOpenFirst(p) \/ FcdClose(p) \/ Rejected(p)
      PROVE  CallInv'
  BY <1>0, <1>2 DEF FcdOpen, FcdOpenFirst, FcdClose, Rejected
<1>3. ASSUME NEW p \in Callers, FcdOpenCheck(p) \/ FcdOpenClose(p)
      PROVE  CallInv'
  BY <1>0, <1>3 DEF FcdOpenCheck, FcdOpenClose
<1>4. ASSUME NEW p \in Callers, Set(p) \/ Get(p) PROVE CallInv'
  <2>1. PICK r \in Asked : r.n = nth + 1 /\ Calls(p, r)
    BY <1>4, CallSteps DEF ThreadsOK
  <2>. QED
    BY <1>0, <2>1 DEF Calls
<1>5. ASSUME NEW p \in Callers, Open(p) PROVE CallInv'
  BY <1>0, <1>5 DEF Open, Return
<1>6. ASSUME NEW p \in Callers, Write(p) \/ Read(p) PROVE CallInv'
  BY <1>0, <1>6 DEF Write, Read
<1>7. ASSUME NEW p \in Callers, Close(p) \/ Crash(p) PROVE CallInv'
  BY <1>0, <1>7 DEF Close, Crash, Return
<1>. QED
  BY <1>1, <1>2, <1>3, <1>4, <1>5, <1>6, <1>7, NextSteps

\* Who has the handle, when it is nobody's and what a gone dongle keeps.
Holder == \A p \in Callers : pc[p] \in {"checked", "write", "read", "close"} <=> owner = p
Released == owner = "nobody" => ~alive /\ input = <<>>
Gone == ~plugged \/ (owner # "nobody" /\ ~alive) => ~alive /\ rx = <<>> /\ tx = <<>>

\* A program comes by the handle by opening it and loses it by closing it.
LEMMA HolderStep ==
  ASSUME ThreadsOK, Holder, [Next]_vars
  PROVE  Holder'
<1>. USE DEF callVars, resultVars, handleVars, Goto, Holder
<1>0. /\ pc \in [Callers -> {"idle", "check", "checked", "open", "write", "read",
                            "close"}]
      /\ owner \in Callers \cup {"nobody"} /\ "nobody" \notin Callers
  BY DEF ThreadsOK
<1>1. CASE Execute \/ Deliver \/ Unplug \/ Replug \/ UNCHANGED vars
  BY <1>1 DEF Execute, Deliver, Unplug, Replug, vars
<1>2. ASSUME NEW p \in Callers,
             \/ FcdOpen(p) \/ FcdOpenFirst(p) \/ FcdClose(p) \/ Rejected(p)
      PROVE  Holder'
  BY <1>0, <1>2 DEF FcdOpen, FcdOpenFirst, FcdClose, Rejected
<1>3. ASSUME NEW p \in Callers, FcdOpenCheck(p) \/ FcdOpenClose(p)
      PROVE  Holder'
  BY <1>0, <1>3 DEF FcdOpenCheck, FcdOpenClose, Opens, CannotOpen, Closes
<1>4. ASSUME NEW p \in Callers, Set(p) \/ Get(p) PROVE Holder'
  BY <1>0, <1>4 DEF Set, Get, Calls
<1>5. ASSUME NEW p \in Callers, Open(p) PROVE Holder'
  BY <1>0, <1>5 DEF Open, Return, Opens, CannotOpen
<1>6. ASSUME NEW p \in Callers, Write(p) \/ Read(p) PROVE Holder'
  BY <1>0, <1>6 DEF Write, Read
<1>7. ASSUME NEW p \in Callers, Close(p) \/ Crash(p) PROVE Holder'
  BY <1>0, <1>7 DEF Close, Crash, Return, Closes
<1>. QED
  BY <1>1, <1>2, <1>3, <1>4, <1>5, <1>6, <1>7, NextSteps

\* A program inside the handle keeps it from being nobody's.
LEMMA Held ==
  ASSUME Holder, NEW p \in Callers, pc[p] \in {"checked", "write", "read", "close"}
  PROVE  owner = p /\ owner # "nobody"
BY DEF Holder

\* A handle that is nobody's is not alive and has no reports.
LEMMA ReleasedStep ==
  ASSUME Holder, Released, [Next]_vars
  PROVE  Released'
<1>. USE DEF callVars, resultVars, handleVars, dongleVars, Released
<1>1. CASE Execute \/ Unplug \/ Replug \/ UNCHANGED vars
  BY <1>1, Zenon DEF Execute, Unplug, Replug, vars
<1>2. CASE Deliver
  BY <1>2, Zenon DEF Deliver
<1>3. ASSUME NEW p \in Callers,
             \/ FcdOpen(p) \/ FcdOpenFirst(p) \/ FcdClose(p) \/ Rejected(p)
             \/ Set(p) \/ Get(p)
      PROVE  Released'
  BY <1>3, Zenon DEF FcdOpen, FcdOpenFirst, FcdClose, Rejected, Set, Get, Calls
<1>4. ASSUME NEW p \in Callers, Opens(p) \/ CannotOpen \/ Closes PROVE Released'
  <2>1. p # "nobody"
    OBVIOUS
  <2>. QED
    BY <1>4, <2>1, Zenon DEF Opens, CannotOpen, Closes
<1>5. ASSUME NEW p \in Callers,
             FcdOpenCheck(p) \/ FcdOpenClose(p) \/ Open(p) \/ Close(p)
      PROVE  Released'
  BY <1>4, <1>5, Zenon DEF FcdOpenCheck, FcdOpenClose, Open, Close
<1>6. ASSUME NEW p \in Callers, Write(p) PROVE Released'
  BY <1>6, Zenon DEF Write
<1>7. ASSUME NEW p \in Callers, Read(p) PROVE Released'
  <2>1. owner # "nobody"
    BY <1>7, Held DEF Read
  <2>. QED
    BY <1>7, <2>1, Zenon DEF Read
<1>8. ASSUME NEW p \in Callers, Crash(p) PROVE Released'
  BY <1>4, <1>8, Zenon DEF Crash
<1>. QED
  BY <1>1, <1>2, <1>3, <1>5, <1>6, <1>7, <1>8, NextSteps

\* A dongle that has left is not alive and holds nothing for its old handle.
LEMMA GoneStep ==
  ASSUME Holder, Released, Gone, [Next]_vars
  PROVE  Gone'
<1>. USE DEF callVars, resultVars, handleVars, dongleVars, Gone
<1>1. CASE Unplug \/ Replug \/ UNCHANGED vars
  BY <1>1, Zenon DEF Unplug, Replug, vars
<1>2. CASE Execute
  BY <1>2, Zenon DEF Execute
<1>3. CASE Deliver
  BY <1>3, Zenon DEF Deliver
<1>4. ASSUME NEW p \in Callers,
             \/ FcdOpen(p) \/ FcdOpenFirst(p) \/ FcdClose(p) \/ Rejected(p)
             \/ Set(p) \/ Get(p) \/ Read(p)
      PROVE  Gone'
  BY <1>4, Zenon DEF FcdOpen, FcdOpenFirst, FcdClose, Rejected, Set, Get, Calls, Read
<1>5. ASSUME NEW p \in Callers, Opens(p) \/ CannotOpen \/ Closes,
             UNCHANGED dongleVars
      PROVE  Gone'
  BY <1>5, Zenon DEF Opens, CannotOpen, Closes
<1>6. ASSUME NEW p \in Callers,
             FcdOpenCheck(p) \/ FcdOpenClose(p) \/ Open(p) \/ Close(p)
      PROVE  Gone'
  BY <1>5, <1>6, Zenon DEF FcdOpenCheck, FcdOpenClose, Open, Close
<1>7. ASSUME NEW p \in Callers, Write(p) PROVE Gone'
  BY <1>7, Zenon DEF Write, Sent
<1>8. ASSUME NEW p \in Callers, Crash(p) PROVE Gone'
  BY <1>5, <1>8, Zenon DEF Crash
<1>. QED
  BY <1>1, <1>2, <1>3, <1>4, <1>6, <1>7, <1>8, NextSteps

\* The three together.
LEMMA OwnerStep ==
  ASSUME ThreadsOK, OwnerInv, [Next]_vars
  PROVE  OwnerInv'
<1>1. Holder /\ Released /\ Gone
  BY Zenon DEF OwnerInv, Holder, Released, Gone
<1>2. Holder' /\ Released' /\ Gone'
  BY <1>1, HolderStep, ReleasedStep, GoneStep
<1>. QED
  BY <1>2, Zenon DEF OwnerInv, Holder, Released, Gone

\* A result of 0 comes with a valid reply.
LEMMA ResultStep ==
  ASSUME ThreadsOK, WiresOK, ResultInv, [Next]_vars
  PROVE  ResultInv'
<1>. USE DEF callVars, resultVars, Goto, ResultInv, Succeeds
<1>0. /\ pc \in [Callers -> {"idle", "check", "checked", "open", "write", "read",
                            "close"}]
      /\ DOMAIN call = Callers /\ result \in [Callers -> {-1, 0}]
      /\ DOMAIN got = Callers
  BY DEF ThreadsOK, WiresOK
<1>1. CASE Execute \/ Deliver \/ Unplug \/ Replug \/ UNCHANGED vars
  BY <1>1 DEF Execute, Deliver, Unplug, Replug, vars
<1>2. ASSUME NEW p \in Callers,
             \/ FcdOpen(p) \/ FcdOpenFirst(p) \/ FcdClose(p) \/ Rejected(p)
      PROVE  ResultInv'
  BY <1>0, <1>2 DEF FcdOpen, FcdOpenFirst, FcdClose, Rejected
<1>3. ASSUME NEW p \in Callers, FcdOpenCheck(p) \/ FcdOpenClose(p)
      PROVE  ResultInv'
  BY <1>0, <1>3 DEF FcdOpenCheck, FcdOpenClose
<1>4. ASSUME NEW p \in Callers, Set(p) \/ Get(p) PROVE ResultInv'
  BY <1>0, <1>4 DEF Set, Get, Calls
<1>5. ASSUME NEW p \in Callers, Open(p) PROVE ResultInv'
  BY <1>0, <1>5 DEF Open, Return
<1>6. ASSUME NEW p \in Callers, Write(p) PROVE ResultInv'
  BY <1>0, <1>6 DEF Write
<1>7. ASSUME NEW p \in Callers, Read(p) PROVE ResultInv'
  <2>1. /\ pc' = [pc EXCEPT ![p] = "close"] /\ pc[p] = "read" /\ call' = call
        /\ result[p] = -1
    BY <1>7 DEF Read
  <2>2. CASE /\ input # <<>> /\ Valid(call[p], Head(input))
             /\ result' = [result EXCEPT ![p] = 0]
             /\ got' = [got EXCEPT ![p] = Head(input)]
    <3>1. Head(input) \in Replies
      BY <2>2, MembersTail DEF WiresOK
    <3>2. /\ \A q \in Callers \ {p} : /\ pc'[q] = pc[q] /\ result'[q] = result[q]
                                      /\ got'[q] = got[q]
          /\ pc'[p] = "close" /\ result'[p] = 0 /\ got'[p] = Head(input)
      BY <1>0, <2>1, <2>2
    <3>. QED
      BY <2>1, <2>2, <3>1, <3>2
  <2>3. CASE UNCHANGED <<result, got>>
    BY <1>0, <2>1, <2>3
  <2>. QED
    BY <1>7, <2>2, <2>3 DEF Read
<1>8. ASSUME NEW p \in Callers, Close(p) \/ Crash(p) PROVE ResultInv'
  BY <1>0, <1>8 DEF Close, Crash, Return
<1>. QED
  BY <1>1, <1>2, <1>3, <1>4, <1>5, <1>6, <1>7, <1>8, NextSteps

\* The words of a register fit it.
LEMMA WordsStep ==
  ASSUME ThreadsOK, WiresOK, CallInv, ResultInv, WordsInv, [Next]_vars
  PROVE  WordsInv'
<1>. DEFINE Fits(a) == a.op = "get" /\ a.ok => a.data \in WordsOf(a.reg)
            Words1 == \A reg \in Registers : value[reg] \in WordsOf(reg)
            Words2 == \A r \in ToSet(rx) : r.op = "set" => r.arg \in WordsOf(r.reg)
            Words3 == \A a \in ToSet(tx) \cup ToSet(input) : Fits(a)
            Words4 == \A p \in Callers : Succeeds(p) /\ call[p].op = "get" =>
                        got[p].data \in WordsOf(call[p].reg)
<1>. USE DEF callVars, resultVars, handleVars, dongleVars, Goto
<1>a. Words1 /\ Words2 /\ Words3 /\ Words4
  BY DEF WordsInv
<1>b. Words1' /\ Words2' /\ Words3' /\ Words4' => WordsInv'
  BY DEF WordsInv
<1>c. ToSet(<<>>) = {}
  BY Members
<1>d. /\ pc \in [Callers -> {"idle", "check", "checked", "open", "write", "read",
                            "close"}]
      /\ DOMAIN call = Callers /\ result \in [Callers -> {-1, 0}]
      /\ DOMAIN got = Callers /\ DOMAIN value = Registers
  BY DEF ThreadsOK, WiresOK
\* The registers.
<1>1. Words1'
  <2>1. CASE Execute
    <3>1. /\ Head(rx) \in Requests
          /\ Head(rx).op = "set" => Head(rx).arg \in WordsOf(Head(rx).reg)
          /\ \/ value' = value
             \/ /\ Head(rx).op = "set"
                /\ value' = [value EXCEPT ![Head(rx).reg] = Head(rx).arg]
      BY <2>1, ExecuteEffect
    <3>. QED
      BY <1>a, <1>d, <3>1
  <2>2. CASE Replug
    BY <2>2, ZeroNumbers DEF Replug
  <2>3. CASE Deliver \/ Unplug \/ UNCHANGED vars
    BY <1>a, <2>3 DEF Deliver, Unplug, vars
  <2>4. ASSUME NEW p \in Callers,
               \/ FcdOpen(p) \/ FcdOpenFirst(p) \/ FcdClose(p) \/ Rejected(p)
               \/ FcdOpenCheck(p) \/ FcdOpenClose(p) \/ Set(p) \/ Get(p)
               \/ Open(p) \/ Write(p) \/ Read(p) \/ Close(p) \/ Crash(p)
        PROVE  Words1'
    <3>1. value' = value
      BY <2>4, Zenon DEF FcdOpen, FcdOpenFirst, FcdClose, Rejected, FcdOpenCheck,
         FcdOpenClose, Set, Get, Calls, Open, Write, Read, Close, Crash
    <3>. QED
      BY <1>a, <3>1
  <2>. QED
    BY <2>1, <2>2, <2>3, <2>4, NextSteps
\* The request in the dongle.
<1>2. Words2'
  <2>1. rx' = rx \/ rx' = <<>> \/ \E p \in Callers : pc[p] = "write" /\ Sent(p)
    <3>1. CASE Execute \/ Deliver \/ Unplug \/ Replug \/ UNCHANGED vars
      BY <3>1, Zenon DEF Execute, Deliver, Unplug, Replug, vars
    <3>2. ASSUME NEW p \in Callers,
                 \/ FcdOpen(p) \/ FcdOpenFirst(p) \/ FcdClose(p) \/ Rejected(p)
                 \/ FcdOpenCheck(p) \/ FcdOpenClose(p) \/ Set(p) \/ Get(p)
                 \/ Open(p) \/ Read(p) \/ Close(p) \/ Crash(p)
          PROVE  rx' = rx
      BY <3>2, Zenon DEF FcdOpen, FcdOpenFirst, FcdClose, Rejected, FcdOpenCheck,
         FcdOpenClose, Set, Get, Calls, Open, Read, Close, Crash
    <3>3. ASSUME NEW p \in Callers, Write(p)
          PROVE  rx' = rx \/ (pc[p] = "write" /\ Sent(p))
      BY <3>3, Zenon DEF Write
    <3>. QED
      BY <3>1, <3>2, <3>3, NextSteps
  <2>2. ASSUME NEW p \in Callers, pc[p] = "write", Sent(p) PROVE Words2'
    <3>1. PICK m : rx' = <<m>> /\ (m.op = "set" => m.arg \in WordsOf(m.reg))
      BY <2>2, SentEffect
    <3>2. ToSet(rx') = {m}
      BY <3>1, Members
    <3>. QED
      BY <3>1, <3>2
  <2>. QED
    BY <1>a, <1>c, <2>1, <2>2
\* The replies.
<1>3. Words3'
  <2>1. CASE Execute
    <3>1. PICK a \in Replies : tx' = <<a>> /\ (Fits(a))
      <4>. DEFINE r == Head(rx)
                  data == IF r.op = "get" THEN value[r.reg] ELSE <<>>
      <4>1. r \in Requests /\ r.reg \in Registers
        BY <2>1, ExecuteEffect, RequestShape
      <4>2. tx' = <<Answer(r, TRUE, data)>> \/ tx' = <<Answer(r, FALSE, <<>>)>>
        BY <2>1, ExecuteEffect
      <4>3. /\ data \in Seq(Nat) /\ <<>> \in Seq(Nat)
            /\ r.op = "get" => data \in WordsOf(r.reg)
        BY <1>a, <4>1, WordsType
      <4>. HIDE DEF data, r
      <4>4. Answer(r, TRUE, data) \in Replies /\ Answer(r, FALSE, <<>>) \in Replies
        BY <4>1, <4>3, AnswerType
      <4>5. Fits(Answer(r, TRUE, data)) /\ Fits(Answer(r, FALSE, <<>>))
        BY <4>3 DEF Answer
      <4>. QED
        BY <4>2, <4>4, <4>5
    <3>2. ToSet(tx') = {a} /\ input' = input
      BY <2>1, <3>1, Members DEF Execute
    <3>. QED
      BY <1>a, <3>1, <3>2
  <2>2. CASE Deliver
    <3>1. tx # <<>> /\ tx' = <<>> /\ input' = Append(input, Head(tx))
      BY <2>2 DEF Deliver
    <3>2. /\ Head(tx) \in Replies /\ Head(tx) \in ToSet(tx)
          /\ input \in Seq(Replies)
      BY <3>1, MembersTail DEF WiresOK
    <3>3. ToSet(input') = ToSet(input) \cup {Head(tx)}
      BY <3>1, <3>2, MembersAppend
    <3>. QED
      BY <1>a, <1>c, <3>1, <3>2, <3>3
  <2>3. CASE Unplug \/ Replug \/ UNCHANGED vars
    BY <1>a, <1>c, <2>3 DEF Unplug, Replug, vars
  <2>4. ASSUME NEW p \in Callers,
               \/ FcdOpen(p) \/ FcdOpenFirst(p) \/ FcdClose(p) \/ Rejected(p)
               \/ FcdOpenCheck(p) \/ FcdOpenClose(p) \/ Set(p) \/ Get(p)
               \/ Open(p) \/ Write(p) \/ Close(p) \/ Crash(p)
        PROVE  Words3'
    <3>1. tx' = tx /\ (input' = input \/ input' = <<>>)
      BY <2>4, Zenon DEF FcdOpen, FcdOpenFirst, FcdClose, Rejected, FcdOpenCheck,
         FcdOpenClose, Set, Get, Calls, Open, Write, Close, Crash, Opens, Closes,
         CannotOpen
    <3>. QED
      BY <1>a, <1>c, <3>1
  <2>5. ASSUME NEW p \in Callers, Read(p) PROVE Words3'
    <3>1. tx' = tx /\ (input' = input \/ (input # <<>> /\ input' = Tail(input)))
      BY <2>5, Zenon DEF Read
    <3>2. input # <<>> => ToSet(Tail(input)) \subseteq ToSet(input)
      BY MembersTail DEF WiresOK
    <3>. QED
      BY <1>a, <3>1, <3>2
  <2>. QED
    BY <2>1, <2>2, <2>3, <2>4, <2>5, NextSteps
\* The reply a program took.
<1>4. Words4'
  <2>. USE DEF Succeeds
  <2>1. CASE Execute \/ Deliver \/ Unplug \/ Replug \/ UNCHANGED vars
    BY <1>a, <2>1 DEF Execute, Deliver, Unplug, Replug, vars
  <2>2. ASSUME NEW p \in Callers,
               \/ FcdOpen(p) \/ FcdOpenFirst(p) \/ FcdClose(p) \/ Rejected(p)
        PROVE  Words4'
    BY <1>a, <1>d, <2>2 DEF FcdOpen, FcdOpenFirst, FcdClose, Rejected
  <2>3. ASSUME NEW p \in Callers, FcdOpenCheck(p) \/ FcdOpenClose(p)
        PROVE  Words4'
    BY <1>a, <1>d, <2>3 DEF FcdOpenCheck, FcdOpenClose
  <2>4. ASSUME NEW p \in Callers, Set(p) \/ Get(p) PROVE Words4'
    BY <1>a, <1>d, <2>4 DEF Set, Get, Calls
  <2>5. ASSUME NEW p \in Callers, Open(p) PROVE Words4'
    BY <1>a, <1>d, <2>5 DEF Open, Return
  <2>6. ASSUME NEW p \in Callers, Write(p) PROVE Words4'
    BY <1>a, <1>d, <2>6 DEF Write, ResultInv
  <2>7. ASSUME NEW p \in Callers, Read(p) PROVE Words4'
    <3>1. /\ pc' = [pc EXCEPT ![p] = "close"] /\ call' = call /\ result[p] = -1
      BY <2>7 DEF Read, ResultInv
    <3>2. CASE /\ input # <<>> /\ Valid(call[p], Head(input))
               /\ result' = [result EXCEPT ![p] = 0]
               /\ got' = [got EXCEPT ![p] = Head(input)]
      <4>1. Head(input) \in ToSet(input)
        BY <3>2, MembersTail DEF WiresOK
      <4>2. /\ Head(input).op = call[p].op /\ Head(input).reg = call[p].reg
            /\ Head(input).ok
        BY <3>2, Zenon DEF Valid
      <4>3. Fits(Head(input))
        BY <1>a, <4>1
      <4>4. call[p].op = "get" => Head(input).data \in WordsOf(call[p].reg)
        BY <4>2, <4>3
      <4>. QED
        BY <1>a, <1>d, <3>1, <3>2, <4>4
    <3>3. CASE UNCHANGED <<result, got>>
      BY <1>a, <1>d, <3>1, <3>3
    <3>. QED
      BY <2>7, <3>2, <3>3 DEF Read
  <2>8. ASSUME NEW p \in Callers, Close(p) \/ Crash(p) PROVE Words4'
    BY <1>a, <1>d, <2>8 DEF Close, Crash, Return
  <2>. QED
    BY <2>1, <2>2, <2>3, <2>4, <2>5, <2>6, <2>7, <2>8, NextSteps
<1>. QED
  BY <1>b, <1>1, <1>2, <1>3, <1>4

----------------------------------------------------------------------------
(* Where a request is.                                                     *)

\* A queue with no numbers is empty.
LEMMA NoNums ==
  ASSUME NEW S, NEW q \in Seq(S), Nums(q) = {}
  PROVE  q = <<>>
<1>. SUFFICES ASSUME q # <<>> PROVE FALSE
  OBVIOUS
<1>1. Nums(q) = {Head(q).n} \cup Nums(Tail(q))
  BY MembersTail
<1>. QED
  BY <1>1

\* A queue of distinct numbers stays one when a new number is appended.
LEMMA DistinctAppend ==
  ASSUME NEW S, NEW q \in Seq(S), NEW x \in S, Distinct(q), x.n \notin Nums(q)
  PROVE  Distinct(Append(q, x))
<1>. DEFINE a == Append(q, x)  l == Len(q)
<1>1. /\ l \in Nat /\ DOMAIN a = 1..(l + 1) /\ DOMAIN q = 1..l
      /\ \A i \in 1..l : a[i] = q[i]
      /\ a[l + 1] = x
  OBVIOUS
<1>. HIDE DEF a, l
<1>2. \A i \in 1..l : q[i].n \in Nums(q)
  BY <1>1 DEF Nums
<1>3. \A i \in 1..(l + 1) : i \in 1..l \/ i = l + 1
  BY <1>1
<1>4. ASSUME NEW i \in DOMAIN a, NEW j \in DOMAIN a, a[i].n = a[j].n PROVE i = j
  <2>1. CASE i \in 1..l /\ j \in 1..l
    BY <1>1, <1>4, <2>1 DEF Distinct
  <2>2. CASE i \in 1..l /\ j = l + 1
    BY <1>1, <1>2, <1>4, <2>2
  <2>3. CASE i = l + 1 /\ j \in 1..l
    BY <1>1, <1>2, <1>4, <2>3
  <2>. QED
    BY <1>1, <1>3, <2>1, <2>2, <2>3
<1>5. Distinct(a)
  BY <1>4 DEF Distinct
<1>. QED
  BY <1>5 DEF a

\* The first of them is not among the others.
LEMMA DistinctTail ==
  ASSUME NEW S, NEW q \in Seq(S), q # <<>>, Distinct(q)
  PROVE  Distinct(Tail(q)) /\ Head(q).n \notin Nums(Tail(q))
<1>. DEFINE t == Tail(q)  l == Len(q)
<1>1. /\ l \in Nat /\ l > 0 /\ DOMAIN q = 1..l /\ DOMAIN t = 1..(l - 1)
      /\ \A i \in 1..(l - 1) : t[i] = q[i + 1]
      /\ Head(q) = q[1]
  OBVIOUS
<1>. HIDE DEF t, l
<1>2. \A i \in 1..(l - 1) : i + 1 \in 1..l /\ i + 1 # 1
  BY <1>1
<1>3. 1 \in 1..l
  BY <1>1
<1>4. ASSUME NEW i \in DOMAIN t, NEW j \in DOMAIN t, t[i].n = t[j].n PROVE i = j
  <2>0. /\ i + 1 \in DOMAIN q /\ j + 1 \in DOMAIN q
        /\ t[i] = q[i + 1] /\ t[j] = q[j + 1]
    BY <1>1, <1>2
  <2>1. i + 1 = j + 1
    BY <1>4, <2>0, Zenon DEF Distinct
  <2>. QED
    BY <1>1, <2>1
<1>5. ASSUME NEW i \in DOMAIN t PROVE t[i].n # Head(q).n
  BY <1>1, <1>2, <1>3, <1>5 DEF Distinct
<1>. QED
  BY <1>4, <1>5 DEF Distinct, Nums, t

\* Nobody's calls begin and nothing is sent: requests and replies can only get
\* lost, and calls end.
Waning ==
  /\ UNCHANGED nth /\ rx' \in {rx, <<>>} /\ tx' \in {tx, <<>>} /\ input' \in {input, <<>>}
  /\ \A q \in Callers :
       /\ InCall(q)' => InCall(q) /\ call'[q] = call[q]
       /\ pc'[q] \in {"open", "write"} => pc[q] \in {"open", "write"}
       /\ Succeeds(q)' => Succeeds(q) /\ got'[q] = got[q]

\* Which steps these are.
LEMMA WaningSteps ==
  ASSUME ThreadsOK, WiresOK, ResultInv
  PROVE  /\ Unplug \/ Replug \/ UNCHANGED vars => Waning
         /\ \A p \in Callers :
              \/ FcdOpen(p) \/ FcdOpenFirst(p) \/ FcdClose(p) \/ Rejected(p)
              \/ FcdOpenCheck(p) \/ FcdOpenClose(p) \/ Open(p) \/ Close(p) \/ Crash(p)
              \/ (Write(p) /\ UNCHANGED rx /\ ~Sent(p))
              => Waning
<1>. USE DEF callVars, resultVars, handleVars, dongleVars, Goto, InCall, Succeeds
<1>d. /\ pc \in [Callers -> {"idle", "check", "checked", "open", "write", "read",
                            "close"}]
      /\ DOMAIN call = Callers /\ result \in [Callers -> {-1, 0}]
      /\ DOMAIN got = Callers
  BY DEF ThreadsOK, WiresOK
<1>1. CASE Unplug \/ Replug \/ UNCHANGED vars
  BY <1>1 DEF Waning, Unplug, Replug, vars
<1>2. ASSUME NEW p \in Callers,
             FcdOpen(p) \/ FcdOpenFirst(p) \/ FcdClose(p) \/ Rejected(p)
      PROVE  Waning
  BY <1>d, <1>2 DEF Waning, FcdOpen, FcdOpenFirst, FcdClose, Rejected
<1>3. ASSUME NEW p \in Callers, FcdOpenCheck(p) \/ FcdOpenClose(p) PROVE Waning
  BY <1>d, <1>3 DEF Waning, FcdOpenCheck, FcdOpenClose, Opens, Closes, CannotOpen
<1>4. ASSUME NEW p \in Callers, Open(p) PROVE Waning
  BY <1>d, <1>4 DEF Waning, Open, Opens, CannotOpen, Return
<1>5. ASSUME NEW p \in Callers, Close(p) \/ Crash(p) PROVE Waning
  BY <1>d, <1>5 DEF Waning, Close, Crash, Closes, Return
<1>6. ASSUME NEW p \in Callers, Write(p), UNCHANGED rx, ~Sent(p) PROVE Waning
  <2>1. /\ pc[p] = "write" /\ result[p] = -1 /\ pc' = [pc EXCEPT ![p] = "close"]
        /\ UNCHANGED <<call, nth, got, result, input, tx>>
    BY <1>6 DEF Write, ResultInv
  <2>. QED
    BY <1>d, <1>6, <2>1 DEF Waning
<1>. QED
  BY <1>1, <1>2, <1>3, <1>4, <1>5, <1>6

\* A request keeps its number and its place.
LEMMA NumberStep ==
  ASSUME ThreadsOK, WiresOK, CallInv, WordsInv, OwnerInv, ResultInv, NumberInv, [Next]_vars
  PROVE  NumberInv'
<1>. USE DEF callVars, resultVars, handleVars, dongleVars, Goto
<1>d. /\ pc \in [Callers -> {"idle", "check", "checked", "open", "write", "read",
                            "close"}]
      /\ DOMAIN call = Callers /\ result \in [Callers -> {-1, 0}]
      /\ DOMAIN got = Callers /\ nth \in Nat
  BY DEF ThreadsOK, WiresOK
<1>n. \A q \in Callers : InCall(q) => call[q].n \in Nat
  BY RequestShape DEF CallInv, Asked
<1>e. Nums(<<>>) = {} /\ Distinct(<<>>)
  BY Members DEF Distinct
\* Requests and replies get lost.
<1>1. ASSUME Waning PROVE NumberInv'
  <2>1. /\ Nums(rx') \subseteq Nums(rx) /\ Nums(tx') \subseteq Nums(tx)
        /\ Nums(input') \subseteq Nums(input) /\ Distinct(input')
    BY <1>1, <1>e DEF Waning, NumberInv
  <2>2. Underway' \subseteq Underway
    BY <2>1 DEF Underway
  <2>3. nth' = nth
    BY <1>1 DEF Waning
  <2>4. \A q \in Callers :
          /\ InCall(q)' => InCall(q) /\ call'[q] = call[q]
          /\ pc'[q] \in {"open", "write"} => pc[q] \in {"open", "write"}
          /\ Succeeds(q)' => Succeeds(q) /\ got'[q] = got[q]
    BY <1>1 DEF Waning
  <2>5. \A q \in Callers : pc[q] \in {"open", "write"} => InCall(q)
    BY DEF InCall
  <2>6. \A q \in Callers : pc'[q] \in {"open", "write"} => InCall(q)'
    BY DEF InCall
  <2>. QED
    BY <2>1, <2>2, <2>3, <2>4, <2>5, <2>6 DEF NumberInv
\* A call begins.
<1>2. ASSUME NEW p \in Callers, Set(p) \/ Get(p) PROVE NumberInv'
  <2>1. PICK r \in Asked : r.n = nth + 1 /\ Calls(p, r)
    BY <1>2, CallSteps DEF ThreadsOK
  <2>2. /\ pc' = [pc EXCEPT ![p] = "open"] /\ pc[p] = "idle"
        /\ call' = [call EXCEPT ![p] = r] /\ nth' = nth + 1
        /\ result' = [result EXCEPT ![p] = -1]
        /\ UNCHANGED <<got, rx, tx, input>>
    BY <2>1 DEF Calls
  <2>3. /\ call'[p].n = nth + 1 /\ pc'[p] = "open"
        /\ \A q \in Callers \ {p} : call'[q] = call[q] /\ pc'[q] = pc[q]
                                    /\ result'[q] = result[q]
    BY <1>d, <2>1, <2>2
  <2>4. Underway' = Underway
    BY <2>2 DEF Underway
  <2>5. \A k \in Underway : k <= nth /\ k \in Int /\ k # nth + 1
    <3>1. Underway \subseteq Int
      BY RequestShape, ReplyShape DEF WiresOK, Underway, Nums
    <3>2. \A k \in Int : k <= nth => k # nth + 1
      BY <1>d
    <3>. QED
      BY <3>1, <3>2 DEF NumberInv
  <2>6. \A k \in Int : k <= nth => k <= nth + 1 /\ k # nth + 1
    BY <1>d
  <2>7. nth + 1 <= nth + 1
    BY <1>d
  <2>8. \A q \in Callers \ {p} : /\ InCall(q)' <=> InCall(q)
                                 /\ Succeeds(q)' <=> Succeeds(q)
                                 /\ call'[q] = call[q] /\ got'[q] = got[q]
    BY <2>2, <2>3 DEF InCall, Succeeds
  <2>9. ~Succeeds(p)'
    BY <2>3 DEF Succeeds
  <2>10. \A q \in Callers : InCall(q)' => call'[q].n <= nth'
    BY <1>n, <2>2, <2>3, <2>6, <2>7, <2>8 DEF NumberInv
  <2>11. \A k \in Underway' : k <= nth'
    BY <2>2, <2>4, <2>5, <2>6
  <2>12. \A q, s \in Callers : InCall(q)' /\ InCall(s)' /\ q # s
                                => call'[q].n # call'[s].n
    BY <1>n, <2>3, <2>6, <2>8 DEF NumberInv
  <2>13. \A q \in Callers : pc'[q] \in {"open", "write"} => call'[q].n \notin Underway'
    BY <2>3, <2>4, <2>5 DEF NumberInv
  <2>14. \A q \in Callers : Succeeds(q)' => got'[q].n \notin Underway'
    BY <2>4, <2>8, <2>9 DEF NumberInv
  <2>15. /\ Distinct(input') /\ Nums(rx') \cap Nums(tx') = {}
         /\ (Nums(rx') \cup Nums(tx')) \cap Nums(input') = {}
    BY <2>2 DEF NumberInv
  <2>. QED
    BY <2>10, <2>11, <2>12, <2>13, <2>14, <2>15 DEF NumberInv
\* A request reaches the dongle.
<1>3. ASSUME NEW p \in Callers, Write(p), Sent(p) PROVE NumberInv'
  <2>1. PICK m \in Requests : rx' = <<m>> /\ m.n = call[p].n
    BY <1>3, SentEffect DEF Write
  <2>2. /\ pc' \in {[pc EXCEPT ![p] = "read"], [pc EXCEPT ![p] = "close"]}
        /\ pc[p] = "write" /\ rx = <<>> /\ result[p] = -1
        /\ UNCHANGED <<call, nth, result, got, tx, input>>
    BY <1>3 DEF Write, Sent, ResultInv
  <2>3. Nums(rx') = {call[p].n} /\ Nums(rx) = {}
    BY <1>e, <2>1, <2>2, Members
  <2>4. call[p].n \notin Underway /\ InCall(p)
    BY <2>2 DEF NumberInv, InCall
  <2>5. Underway' = Underway \cup {call[p].n}
    BY <2>2, <2>3 DEF Underway
  <2>6. \A q \in Callers \ {p} : pc'[q] = pc[q]
    BY <1>d, <2>2
  <2>7. pc'[p] \in {"read", "close"} /\ InCall(p)'
    BY <1>d, <2>2 DEF InCall
  <2>8. \A q \in Callers : InCall(q)' => InCall(q)
    BY <2>4, <2>6 DEF InCall
  <2>9. \A q \in Callers : pc'[q] \in {"open", "write"} =>
          q # p /\ pc[q] \in {"open", "write"} /\ InCall(q)
    BY <2>6, <2>7 DEF InCall
  <2>10. \A q \in Callers : Succeeds(q)' => q # p /\ Succeeds(q) /\ InCall(q)
    BY <2>2, <2>6 DEF Succeeds, InCall
  <2>11. \A q \in Callers : InCall(q) /\ q # p => call[q].n # call[p].n
    BY <2>4 DEF NumberInv
  <2>12. \A q \in Callers : Succeeds(q)' => got[q].n # call[p].n
    \* A program that has taken a reply has the handle, and p has it.
    <3>1. ASSUME NEW q \in Callers, Succeeds(q)' PROVE FALSE
      <4>1. q # p /\ pc[q] = "close"
        BY <2>10, <3>1 DEF Succeeds
      <4>. QED
        BY <2>2, <4>1 DEF OwnerInv
    <3>. QED
      BY <3>1
  <2>13. /\ Distinct(input') /\ Nums(rx') \cap Nums(tx') = {}
         /\ (Nums(rx') \cup Nums(tx')) \cap Nums(input') = {}
    BY <2>2, <2>3, <2>4 DEF NumberInv, Underway
  <2>. QED
    BY <2>2, <2>4, <2>5, <2>8, <2>9, <2>10, <2>11, <2>12, <2>13 DEF NumberInv
\* It is taken.
<1>4. ASSUME NEW p \in Callers, Read(p), input # <<>>, input' = Tail(input)
      PROVE  NumberInv'
  <2>1. /\ Nums(input) = {Head(input).n} \cup Nums(Tail(input))
        /\ Distinct(Tail(input)) /\ Head(input).n \notin Nums(Tail(input))
    BY <1>4, MembersTail, DistinctTail DEF NumberInv, WiresOK
  <2>2. /\ pc' = [pc EXCEPT ![p] = "close"] /\ pc[p] = "read"
        /\ UNCHANGED <<call, nth, rx, tx>>
        /\ \/ UNCHANGED <<result, got>>
           \/ got' = [got EXCEPT ![p] = Head(input)]
              /\ result' = [result EXCEPT ![p] = 0]
    BY <1>4 DEF Read
  <2>3. /\ result[p] = -1 /\ pc'[p] = "close"
        /\ \A q \in Callers \ {p} : /\ pc'[q] = pc[q] /\ result'[q] = result[q]
                                    /\ got'[q] = got[q]
    BY <1>d, <2>2 DEF ResultInv
  <2>4. Underway' \subseteq Underway /\ Head(input).n \notin Underway'
    BY <1>4, <2>1, <2>2 DEF NumberInv, Underway
  <2>5. \A q \in Callers : InCall(q)' => InCall(q)
    BY <2>2, <2>3 DEF InCall
  <2>6. \A q \in Callers : pc'[q] \in {"open", "write"} => pc[q] \in {"open", "write"}
    BY <2>3
  <2>7. \A q \in Callers : Succeeds(q)' => got'[q].n \notin Underway'
    <3>1. ASSUME NEW q \in Callers, q # p, Succeeds(q)' PROVE got'[q].n \notin Underway'
      BY <2>3, <2>4, <3>1 DEF Succeeds, NumberInv
    <3>2. ASSUME Succeeds(p)' PROVE got'[p].n \notin Underway'
      <4>1. got' = [got EXCEPT ![p] = Head(input)]
        BY <2>2, <2>3, <3>2 DEF Succeeds
      <4>2. got'[p] = Head(input)
        BY <1>d, <4>1
      <4>. QED
        BY <2>4, <4>2
    <3>. QED
      BY <3>1, <3>2
  <2>8. /\ Distinct(input') /\ Nums(rx') \cap Nums(tx') = {}
        /\ (Nums(rx') \cup Nums(tx')) \cap Nums(input') = {}
    BY <1>4, <2>1, <2>2 DEF NumberInv
  <2>. QED
    BY <2>2, <2>4, <2>5, <2>6, <2>7, <2>8 DEF NumberInv
\* There is none.
<1>5. ASSUME NEW p \in Callers, Read(p), UNCHANGED <<input, result, got>>
      PROVE  NumberInv'
  <2>1. /\ pc' = [pc EXCEPT ![p] = "close"] /\ pc[p] = "read" /\ result[p] = -1
        /\ UNCHANGED <<call, nth, rx, tx>>
    BY <1>5 DEF Read, ResultInv
  <2>2. Waning
    BY <1>5, <1>d, <2>1 DEF Waning, InCall, Succeeds
  <2>. QED
    BY <1>1, <2>2
\* It is answered.
<1>6. CASE Execute
  <2>1. /\ rx = <<Head(rx)>> /\ rx' = <<>> /\ tx = <<>>
        /\ \E a : tx' = <<a>> /\ a.n = Head(rx).n
        /\ UNCHANGED <<pc, call, nth, result, got, input>>
    BY <1>6, ExecuteEffect DEF Answer
  <2>2. Nums(rx) = {Head(rx).n} /\ Nums(rx') = {} /\ Nums(tx) = {}
        /\ Nums(tx') = {Head(rx).n}
    BY <1>e, <2>1, Members
  <2>3. Underway' = Underway
    BY <2>1, <2>2 DEF Underway
  <2>4. /\ Distinct(input') /\ Nums(rx') \cap Nums(tx') = {}
        /\ (Nums(rx') \cup Nums(tx')) \cap Nums(input') = {}
    BY <2>1, <2>2 DEF NumberInv
  <2>. QED
    BY <2>1, <2>3, <2>4 DEF NumberInv, InCall, Succeeds
\* The answer comes in.
<1>7. CASE Deliver
  <2>1. /\ tx # <<>> /\ tx' = <<>> /\ input' = Append(input, Head(tx))
        /\ UNCHANGED <<pc, call, nth, result, got, rx>>
    BY <1>7 DEF Deliver
  <2>2. /\ tx = <<Head(tx)>> /\ Head(tx) \in Replies /\ input \in Seq(Replies)
    BY <2>1, Slot DEF WiresOK
  <2>3. Nums(tx) = {Head(tx).n} /\ Nums(tx') = {}
        /\ Nums(input') = Nums(input) \cup {Head(tx).n}
    BY <1>e, <2>1, <2>2, Members, MembersAppend
  <2>4. Head(tx).n \notin Nums(input) /\ Distinct(input)
    BY <2>3 DEF NumberInv
  <2>5. Distinct(input')
    BY <2>1, <2>2, <2>4, DistinctAppend
  <2>6. Underway' = Underway
    BY <2>1, <2>3 DEF Underway
  <2>7. /\ Nums(rx') \cap Nums(tx') = {}
        /\ (Nums(rx') \cup Nums(tx')) \cap Nums(input') = {}
    BY <2>1, <2>3 DEF NumberInv
  <2>. QED
    BY <2>1, <2>5, <2>6, <2>7 DEF NumberInv, InCall, Succeeds
<1>8. ASSUME NEW p \in Callers, Write(p) \/ Read(p) PROVE NumberInv'
  <2>1. Write(p) => Sent(p) \/ UNCHANGED rx
    BY Zenon DEF Write
  <2>2. Read(p) => \/ input # <<>> /\ input' = Tail(input)
                   \/ UNCHANGED <<input, result, got>>
    BY Zenon DEF Read
  <2>. QED
    BY <1>1, <1>3, <1>4, <1>5, <1>8, <2>1, <2>2, WaningSteps
<1>9. ASSUME NEW p \in Callers,
             \/ FcdOpen(p) \/ FcdOpenFirst(p) \/ FcdClose(p) \/ Rejected(p)
             \/ FcdOpenCheck(p) \/ FcdOpenClose(p) \/ Open(p) \/ Close(p) \/ Crash(p)
      PROVE  NumberInv'
  BY <1>1, <1>9, WaningSteps
<1>10. CASE Unplug \/ Replug \/ UNCHANGED vars
  BY <1>1, <1>10, WaningSteps
<1>. QED
  BY <1>2, <1>6, <1>7, <1>8, <1>9, <1>10, NextSteps

----------------------------------------------------------------------------
(* Taking turns.                                                           *)

\* Nothing is on its way.
Quiet == rx = <<>> /\ tx = <<>> /\ input = <<>>

\* There are no numbers on their way when nothing is, and the other way round.
LEMMA QuietNums == WiresOK => (Quiet <=> Underway = {})
<1>. SUFFICES ASSUME WiresOK PROVE Quiet <=> Underway = {}
  OBVIOUS
<1>1. Quiet => Underway = {}
  BY Members DEF Quiet, Underway
<1>2. Underway = {} => Nums(rx) = {} /\ Nums(tx) = {} /\ Nums(input) = {}
  BY DEF Underway
<1>3. Nums(rx) = {} => rx = <<>>
  BY NoNums DEF WiresOK
<1>4. Nums(tx) = {} => tx = <<>>
  BY NoNums DEF WiresOK
<1>5. Nums(input) = {} => input = <<>>
  BY NoNums DEF WiresOK
<1>. QED
  BY <1>1, <1>2, <1>3, <1>4, <1>5 DEF Quiet

\* Only one program reads at a time, and it has the handle.
LEMMA OneReader ==
  ASSUME OwnerInv, NEW p \in Callers, pc[p] \in {"checked", "write", "read", "close"}
  PROVE  \A q \in Callers : pc[q] = "read" => q = p
BY DEF OwnerInv

\* The alternation, without the case that it was broken.
Turns ==
  /\ (\A p \in Callers : pc[p] # "read") => Quiet
  /\ \A p \in Callers : pc[p] = "read" => Underway \subseteq {call[p].n}

\* Write and read alternate, until a call is given up in between.
LEMMA TurnStep ==
  ASSUME ThreadsOK, WiresOK, WiresOK', CallInv, WordsInv, OwnerInv, ResultInv,
         NumberInv, TurnInv, [Next]_vars
  PROVE  TurnInv'
<1>. USE DEF callVars, resultVars, handleVars, dongleVars, Goto
<1>d. /\ pc \in [Callers -> {"idle", "check", "checked", "open", "write", "read",
                            "close"}]
      /\ DOMAIN call = Callers
  BY DEF ThreadsOK
<1>a. (spoiled \/ Turns) /\ (spoiled' \/ Turns' => TurnInv')
  BY Zenon DEF TurnInv, Turns, Quiet
<1>q. (Quiet <=> Underway = {}) /\ (Quiet' <=> Underway' = {})
  <2>1. WiresOK' => (Quiet <=> Underway = {})'
    BY QuietNums, PTL
  <2>. QED
    BY <2>1, QuietNums
\* Requests and replies can only get lost, and no read begins or ends.
<1>1. ASSUME Waning, Turns,
             \A q \in Callers : pc'[q] = "read" <=> pc[q] = "read"
      PROVE  Turns'
  <2>1. Underway' \subseteq Underway
    <3>1. Nums(<<>>) = {}
      BY Members
    <3>. QED
      BY <1>1, <3>1 DEF Waning, Underway
  <2>2. \A q \in Callers : pc'[q] = "read" => call'[q] = call[q]
    BY <1>1 DEF Waning, InCall
  <2>. QED
    BY <1>1, <1>q, <2>1, <2>2 DEF Turns
\* No turn changes, nor what is on its way.
<1>2. ASSUME Turns, Underway' = Underway,
             \A q \in Callers : pc'[q] = "read" <=> pc[q] = "read",
             \A q \in Callers : pc[q] = "read" => call'[q] = call[q]
      PROVE  Turns'
  BY <1>2, <1>q DEF Turns
<1>3. ASSUME Turns, Execute \/ Deliver PROVE Turns'
  <2>1. CASE Execute
    <3>1. /\ rx = <<Head(rx)>> /\ rx' = <<>> /\ tx = <<>>
          /\ \E a : tx' = <<a>> /\ a.n = Head(rx).n
          /\ UNCHANGED <<pc, call, input>>
      BY <2>1, ExecuteEffect DEF Answer
    <3>2. Nums(rx) = {Head(rx).n} /\ Nums(rx') = {} /\ Nums(tx) = {}
          /\ Nums(tx') = {Head(rx).n}
      BY <3>1, Members
    <3>. QED
      BY <1>2, <1>3, <3>1, <3>2 DEF Underway
  <2>2. CASE Deliver
    <3>1. /\ tx # <<>> /\ tx' = <<>> /\ input' = Append(input, Head(tx))
          /\ UNCHANGED <<pc, call, rx>>
      BY <2>2 DEF Deliver
    <3>2. /\ tx = <<Head(tx)>> /\ Head(tx) \in Replies /\ input \in Seq(Replies)
      BY <3>1, Slot DEF WiresOK
    <3>3. Nums(tx) = {Head(tx).n} /\ Nums(tx') = {}
          /\ Nums(input') = Nums(input) \cup {Head(tx).n}
      BY <3>1, <3>2, Members, MembersAppend
    <3>. QED
      BY <1>2, <1>3, <3>1, <3>3 DEF Underway
  <2>. QED
    BY <1>3, <2>1, <2>2
<1>4. ASSUME Turns, Unplug \/ Replug \/ UNCHANGED vars PROVE Turns'
  <2>1. Waning
    BY <1>4, WaningSteps
  <2>2. pc' = pc
    BY <1>4 DEF Unplug, Replug, vars
  <2>. QED
    BY <1>1, <1>4, <2>1, <2>2
<1>5. ASSUME Turns, NEW p \in Callers,
             \/ FcdOpen(p) \/ FcdOpenFirst(p) \/ FcdClose(p) \/ Rejected(p)
             \/ FcdOpenCheck(p) \/ FcdOpenClose(p) \/ Open(p) \/ Close(p)
             \/ (Crash(p) /\ pc[p] # "read")
      PROVE  Turns'
  <2>1. Waning
    BY <1>5, WaningSteps
  <2>2. \A q \in Callers : pc'[q] = "read" <=> pc[q] = "read"
    BY <1>d, <1>5 DEF FcdOpen, FcdOpenFirst, FcdClose, Rejected, FcdOpenCheck,
       FcdOpenClose, Open, Close, Crash, Return
  <2>. QED
    BY <1>1, <1>5, <2>1, <2>2
<1>6. ASSUME Turns, NEW p \in Callers, Set(p) \/ Get(p) PROVE Turns'
  <2>1. PICK r \in Asked : Calls(p, r)
    BY <1>6, CallSteps DEF ThreadsOK
  <2>2. /\ pc' = [pc EXCEPT ![p] = "open"] /\ pc[p] = "idle"
        /\ call' = [call EXCEPT ![p] = r] /\ UNCHANGED <<rx, tx, input>>
    BY <2>1 DEF Calls
  <2>3. Underway' = Underway
    BY <2>2 DEF Underway
  <2>4. \A q \in Callers : /\ pc'[q] = "read" <=> pc[q] = "read"
                           /\ pc[q] = "read" => call'[q] = call[q]
    BY <1>d, <2>2
  <2>. QED
    BY <1>2, <1>6, <2>3, <2>4
\* A program that writes finds nothing on its way.
<1>7. ASSUME Turns, NEW p \in Callers, Write(p) PROVE spoiled' \/ Turns'
  <2>1. pc[p] = "write" /\ UNCHANGED <<call, tx, input>>
    BY <1>7 DEF Write
  <2>2. \A q \in Callers : pc[q] # "read"
    BY <2>1, OneReader
  <2>3. Quiet /\ Underway = {}
    BY <1>7, <1>q, <2>2 DEF Turns
  <2>4. CASE Sent(p) /\ pc' = [pc EXCEPT ![p] = "read"]
    <3>1. PICK m \in Requests : rx' = <<m>> /\ m.n = call[p].n
      BY <2>1, <2>4, SentEffect
    <3>2. Nums(rx') = {call[p].n}
      BY <3>1, Members
    <3>3. Underway' = {call[p].n}
      BY <2>1, <2>3, <3>2 DEF Underway
    <3>4. pc'[p] = "read" /\ \A q \in Callers : pc'[q] = "read" => q = p
      BY <1>d, <2>2, <2>4
    <3>. QED
      BY <2>1, <3>3, <3>4 DEF Turns
  <2>5. CASE UNCHANGED rx /\ pc' = [pc EXCEPT ![p] = "close"]
    <3>1. \A q \in Callers : pc'[q] # "read"
      BY <1>d, <2>2, <2>5
    <3>2. Quiet'
      BY <2>1, <2>3, <2>5 DEF Quiet
    <3>. QED
      BY <3>1, <3>2 DEF Turns
  <2>6. \/ Sent(p) /\ pc' = [pc EXCEPT ![p] = "read"]
        \/ UNCHANGED rx /\ pc' = [pc EXCEPT ![p] = "close"]
        \/ spoiled'
    BY <1>7, Zenon DEF Write
  <2>. QED
    BY <2>4, <2>5, <2>6
\* A program that has read leaves nothing on its way.
<1>8. ASSUME Turns, NEW p \in Callers, Read(p) PROVE Turns'
  <2>1. /\ pc[p] = "read" /\ pc' = [pc EXCEPT ![p] = "close"]
        /\ UNCHANGED <<owner, alive, rx, tx>>
    BY <1>8 DEF Read
  <2>2. \A q \in Callers : pc'[q] # "read"
    <3>1. \A q \in Callers : pc[q] = "read" => q = p
      BY <2>1, OneReader
    <3>. QED
      BY <1>d, <2>1, <3>1
  <2>3. Underway \subseteq {call[p].n}
    BY <1>8, <2>1 DEF Turns
  <2>4. CASE input # <<>> /\ input' = Tail(input)
    <3>1. /\ Nums(input) = {Head(input).n} \cup Nums(Tail(input))
          /\ Head(input).n \notin Nums(Tail(input))
      BY <2>4, MembersTail, DistinctTail DEF NumberInv, WiresOK
    <3>2. Nums(Tail(input)) = {} /\ Nums(rx) = {} /\ Nums(tx) = {}
      BY <2>3, <3>1 DEF NumberInv, Underway
    <3>3. Underway' = {}
      BY <2>1, <2>4, <3>2 DEF Underway
    <3>. QED
      BY <1>q, <2>2, <3>3 DEF Turns
  <2>5. CASE input = <<>> /\ ~alive /\ UNCHANGED input
    <3>1. owner # "nobody"
      BY <2>1 DEF OwnerInv
    <3>2. rx = <<>> /\ tx = <<>>
      BY <2>5, <3>1, Zenon DEF OwnerInv
    <3>3. Quiet'
      BY <2>1, <2>5, <3>2 DEF Quiet
    <3>. QED
      BY <2>2, <3>3 DEF Turns
  <2>6. \/ input # <<>> /\ input' = Tail(input)
        \/ input = <<>> /\ ~alive /\ UNCHANGED input
    BY <1>8, Zenon DEF Read
  <2>. QED
    BY <2>4, <2>5, <2>6
\* Once it is broken, it stays broken.
<1>9. spoiled => spoiled'
  <2>1. CASE Execute \/ Deliver \/ Unplug \/ Replug \/ UNCHANGED vars
    BY <2>1, Zenon DEF Execute, Deliver, Unplug, Replug, vars
  <2>2. ASSUME NEW p \in Callers,
               \/ FcdOpen(p) \/ FcdOpenFirst(p) \/ FcdClose(p) \/ Rejected(p)
               \/ FcdOpenCheck(p) \/ FcdOpenClose(p) \/ Set(p) \/ Get(p)
               \/ Open(p) \/ Write(p) \/ Read(p) \/ Close(p) \/ Crash(p)
        PROVE  spoiled => spoiled'
    BY <2>2, Zenon DEF FcdOpen, FcdOpenFirst, FcdClose, Rejected, FcdOpenCheck,
       FcdOpenClose, Set, Get, Calls, Open, Write, Read, Close, Crash
  <2>. QED
    BY <2>1, <2>2, NextSteps, Zenon
<1>10. ASSUME Turns, NEW p \in Callers, Crash(p) PROVE spoiled' \/ Turns'
  <2>1. CASE pc[p] = "read"
    BY <1>10, <2>1, Zenon DEF Crash
  <2>2. CASE pc[p] # "read"
    BY <1>5, <1>10, <2>2
  <2>. QED
    BY <2>1, <2>2
<1>11. ASSUME Turns PROVE spoiled' \/ Turns'
  BY <1>3, <1>4, <1>5, <1>6, <1>7, <1>8, <1>10, <1>11, NextSteps, Zenon
<1>. QED
  BY <1>a, <1>9, <1>11, Zenon

\* The reply that a program takes is its own while turns are taken.
LEMMA OwnStep ==
  ASSUME ThreadsOK, WiresOK, OwnerInv, ResultInv, TurnInv, OwnReply, [Next]_vars
  PROVE  OwnReply'
<1>. USE DEF callVars, resultVars, handleVars, dongleVars, Goto
<1>d. /\ pc \in [Callers -> {"idle", "check", "checked", "open", "write", "read",
                            "close"}]
      /\ DOMAIN call = Callers /\ result \in [Callers -> {-1, 0}]
      /\ DOMAIN got = Callers
  BY DEF ThreadsOK, WiresOK
\* Of the steps that end no read, none makes a program succeed.
<1>1. ASSUME spoiled => spoiled',
             \A q \in Callers : pc'[q] = "close" /\ result'[q] = 0 =>
               /\ pc[q] = "close" /\ result[q] = 0
               /\ call'[q] = call[q] /\ got'[q] = got[q]
      PROVE  OwnReply'
  BY <1>1, Zenon DEF OwnReply
<1>2. CASE Execute \/ Deliver \/ Unplug \/ Replug \/ UNCHANGED vars
  <2>1. UNCHANGED <<pc, call, result, got>>
    BY <1>2 DEF Execute, Deliver, Unplug, Replug, vars
  <2>2. spoiled => spoiled'
    BY <1>2, Zenon DEF Execute, Deliver, Unplug, Replug, vars
  <2>. QED
    BY <1>1, <2>1, <2>2
<1>3. ASSUME NEW p \in Callers,
             \/ FcdOpen(p) \/ FcdOpenFirst(p) \/ FcdClose(p) \/ Rejected(p)
             \/ FcdOpenCheck(p) \/ FcdOpenClose(p) \/ Set(p) \/ Get(p)
             \/ Open(p) \/ Write(p) \/ Close(p) \/ Crash(p)
      PROVE  OwnReply'
  <2>1. spoiled => spoiled'
    BY <1>3, Zenon DEF FcdOpen, FcdOpenFirst, FcdClose, Rejected, FcdOpenCheck,
       FcdOpenClose, Set, Get, Calls, Open, Write, Close, Crash
  <2>. DEFINE Goal == \A q \in Callers : pc'[q] = "close" /\ result'[q] = 0 =>
               /\ pc[q] = "close" /\ result[q] = 0
               /\ call'[q] = call[q] /\ got'[q] = got[q]
  <2>2. CASE FcdOpen(p) \/ FcdOpenFirst(p) \/ FcdClose(p) \/ Rejected(p)
    <3>1. Goal
      BY <1>d, <2>2 DEF FcdOpen, FcdOpenFirst, FcdClose, Rejected
    <3>. QED
      BY <1>1, <2>1, <3>1
  <2>3. CASE FcdOpenCheck(p) \/ FcdOpenClose(p) \/ Set(p) \/ Get(p)
    <3>1. Goal
      BY <1>d, <2>3 DEF FcdOpenCheck, FcdOpenClose, Set, Get, Calls
    <3>. QED
      BY <1>1, <2>1, <3>1
  <2>4. CASE Open(p) \/ Close(p) \/ Crash(p)
    <3>1. Goal
      BY <1>d, <2>4 DEF Open, Close, Crash, Return
    <3>. QED
      BY <1>1, <2>1, <3>1
  <2>5. CASE Write(p)
    <3>1. Goal
      BY <1>d, <2>5 DEF Write, ResultInv
    <3>. QED
      BY <1>1, <2>1, <3>1
  <2>. QED
    BY <1>3, <2>2, <2>3, <2>4, <2>5
<1>4. ASSUME NEW p \in Callers, Read(p) PROVE OwnReply'
  <2>1. /\ pc[p] = "read" /\ pc' = [pc EXCEPT ![p] = "close"] /\ call' = call
        /\ result[p] = -1
    BY <1>4 DEF Read, ResultInv
  <2>2. spoiled' = spoiled
    BY <1>4 DEF Read
  <2>3. CASE UNCHANGED <<result, got>>
    <3>1. \A q \in Callers : pc'[q] = "close" /\ result'[q] = 0 =>
               /\ pc[q] = "close" /\ result[q] = 0
               /\ call'[q] = call[q] /\ got'[q] = got[q]
      BY <1>d, <2>1, <2>3
    <3>. QED
      BY <1>1, <2>2, <3>1
  <2>4. CASE input # <<>> /\ got' = [got EXCEPT ![p] = Head(input)]
             /\ result' = [result EXCEPT ![p] = 0]
    <3>1. Head(input).n \in Underway
      <4>1. Nums(input) = {Head(input).n} \cup Nums(Tail(input))
        BY <2>4, MembersTail DEF WiresOK
      <4>. QED
        BY <4>1 DEF Underway
    <3>2. spoiled \/ Head(input).n = call[p].n
      <4>1. spoiled \/ Underway \subseteq {call[p].n}
        BY <2>1, Zenon DEF TurnInv
      <4>. QED
        BY <3>1, <4>1
    <3>3. got'[p].n = call'[p].n \/ spoiled'
      BY <1>d, <2>1, <2>2, <2>4, <3>2
    <3>4. ASSUME NEW q \in Callers, q # p, pc'[q] = "close", result'[q] = 0
          PROVE  got'[q].n = call'[q].n \/ spoiled'
      <4>1. /\ pc[q] = "close" /\ result[q] = 0 /\ got'[q] = got[q]
            /\ call'[q] = call[q]
        BY <1>d, <2>1, <2>4, <3>4
      <4>. QED
        BY <2>2, <4>1, Zenon DEF OwnReply
    <3>. QED
      BY <3>3, <3>4, Zenon DEF OwnReply
  <2>. QED
    BY <1>4, <2>3, <2>4, Zenon DEF Read
<1>. QED
  BY <1>2, <1>3, <1>4, NextSteps

----------------------------------------------------------------------------
(* The invariant and what follows from it.                                 *)

\* It holds before any program has started.
LEMMA InitInv == Init => IInv
<1>. SUFFICES ASSUME Init PROVE IInv
  OBVIOUS
<1>1. \A p \in Callers : pc[p] = "idle"
  BY DEF Init
<1>2. /\ rx = <<>> /\ tx = <<>> /\ input = <<>> /\ ToSet(<<>>) = {}
      /\ Underway = {} /\ Nums(rx) = {} /\ Nums(tx) = {} /\ Nums(input) = {}
  BY Members DEF Init, Underway
<1>3. \A reg \in Registers : value[reg] \in WordsOf(reg) /\ value[reg] \in Seq(Nat)
  BY ZeroNumbers DEF Init
<1>4. TypeOK
  <2>1. ThreadsOK
    BY DEF Init, ThreadsOK
  <2>2. /\ input \in Seq(Replies) /\ rx \in Seq(Requests) /\ Len(rx) <= 1
        /\ tx \in Seq(Replies) /\ Len(tx) <= 1
    BY <1>2
  <2>3. /\ got \in [Callers -> Replies \cup {NoReply}]
        /\ out \in [Callers -> Seq(Int)]
        /\ value \in [Registers -> Seq(Nat)]
    BY <1>3 DEF Init
  <2>4. BoolsOK
    BY DEF Init, BoolsOK
  <2>. QED
    BY <2>1, <2>2, <2>3, <2>4, TypeParts DEF WiresOK
<1>5. CallInv
  BY <1>1 DEF CallInv, InCall, Init
<1>6. OwnerInv
  <2>1. owner = "nobody" /\ ~alive /\ plugged
    BY Zenon DEF Init
  <2>2. Holder
    BY <1>1, <2>1 DEF Holder
  <2>. QED
    BY <1>2, <2>1, <2>2, Zenon DEF OwnerInv, Holder
<1>7. ResultInv
  BY <1>1 DEF ResultInv, Succeeds
<1>8. WordsInv
  BY <1>1, <1>2, <1>3 DEF WordsInv, Succeeds
<1>9. NumberInv
  BY <1>1, <1>2 DEF NumberInv, InCall, Succeeds, Distinct
<1>10. TurnInv
  BY <1>1, <1>2 DEF TurnInv
<1>11. OwnReply
  BY <1>1 DEF OwnReply
<1>. QED
  BY <1>4, <1>5, <1>6, <1>7, <1>8, <1>9, <1>10, <1>11 DEF IInv

\* Every step keeps it.
LEMMA StepInv == IInv /\ [Next]_vars => IInv'
<1>. SUFFICES ASSUME IInv, [Next]_vars PROVE IInv'
  OBVIOUS
<1>1. ThreadsOK /\ WiresOK /\ BoolsOK
  BY TypeParts DEF IInv
<1>2. /\ TypeOK /\ CallInv /\ OwnerInv /\ ResultInv /\ WordsInv /\ NumberInv
      /\ TurnInv /\ OwnReply
  BY DEF IInv
<1>3. TypeOK' /\ CallInv' /\ OwnerInv' /\ ResultInv' /\ WordsInv'
  BY <1>1, <1>2, TypeStep, CallStep, OwnerStep, ResultStep, WordsStep
<1>4. WiresOK'
  BY <1>1, <1>2, WiresStep
<1>5. NumberInv' /\ OwnReply'
  BY <1>1, <1>2, NumberStep, OwnStep
<1>6. TurnInv'
  BY <1>1, <1>2, <1>4, TurnStep
<1>. QED
  BY <1>3, <1>5, <1>6 DEF IInv

\* Whatever the programs, the bus and the dongle do, the invariant holds.
THEOREM Invariant == Spec => []IInv
BY InitInv, StepInv, PTL DEF Spec

\* What programs hand to fcd_io and what comes back from the dongle has the
\* form the calls of lib/fcd_application.c give it.
THEOREM TypeCorrect == Spec => []TypeOK
<1>1. IInv => TypeOK
  BY DEF IInv
<1>. QED
  BY <1>1, Invariant, PTL

\* A call that succeeds has the reply to its own request, unless some call was
\* given up between its write and its reply.
THEOREM Own == Spec => []OwnReply
<1>1. IInv => OwnReply
  BY DEF IInv
<1>. QED
  BY <1>1, Invariant, PTL

----------------------------------------------------------------------------
(* FcdIo implements FcdDongle.                                             *)

\* A request is known by its number, and so is an answer.
LEMMA SameNumber ==
  /\ \A r \in Requests : RequestOf(r).n = r.n /\ RequestOf(r).op = r.op
                         /\ RequestOf(r).reg = r.reg
                         /\ RequestOf(r).arg = Numbers(r.reg, r.arg)
  /\ \A a \in Replies : AnswerOf(a).n = a.n
BY DEF RequestOf, AnswerOf, Requests, Replies

\* What an answer is, in numbers.
LEMMA AnswerNumbers ==
  ASSUME NEW r, NEW ok, NEW d
  PROVE  AnswerOf(Answer(r, ok, d)) =
           [n |-> r.n, op |-> r.op, reg |-> r.reg, ok |-> ok,
            data |-> Numbers(r.reg, d)]
<1>. DEFINE l == [n |-> r.n, op |-> r.op, reg |-> r.reg, ok |-> ok, data |-> d]
            num == Numbers(r.reg, d)
<1>1. l.reg = r.reg /\ l.data = d
  OBVIOUS
<1>2. Numbers(l.reg, l.data) = num
  BY <1>1
<1>. HIDE DEF num
<1>3. [l EXCEPT !.data = num] =
        [n |-> r.n, op |-> r.op, reg |-> r.reg, ok |-> ok, data |-> num]
  OBVIOUS
<1>4. AnswerOf(l) = [l EXCEPT !.data = Numbers(l.reg, l.data)]
  BY Zenon DEF AnswerOf
<1>5. Answer(r, ok, d) = l
  BY Zenon DEF Answer
<1>. HIDE DEF l
<1>6. AnswerOf(Answer(r, ok, d)) = [l EXCEPT !.data = num]
  BY <1>2, <1>4, <1>5, Zenon
<1>. QED
  BY <1>3, <1>6, Zenon DEF num

\* What is in a queue has its number there.
LEMMA NumberThere == \A s : \A x \in ToSet(s) : x.n \in Nums(s)
BY DEF ToSet, Nums

\* The initial state.
LEMMA DongleInit == Init => Dongle!Init
<1>. SUFFICES ASSUME Init PROVE Dongle!Init
  OBVIOUS
<1>1. \A p \in Callers : pc[p] = "idle" /\ result[p] = -1
  BY DEF Init
<1>2. Holding = [r \in Registers |-> Zeros(r)]
  BY ZeroNumbers DEF Init, Holding
<1>3. Asking = [p \in Callers |-> None]
  BY <1>1 DEF Asking, InCall
<1>4. Undone = {} /\ Answers = {}
  BY <1>1, Members DEF Init, Undone, Answers, Taken
<1>5. Outcome = [p \in Callers |-> -1]
  BY <1>1 DEF Outcome, InCall
<1>. QED
  BY <1>2, <1>3, <1>4, <1>5 DEF Init, Dongle!Init, None, Dongle!None

\* When requests and replies only get lost, the dongle forgets.
LEMMA Forgets == ASSUME Waning PROVE Dongle!Forget /\ UNCHANGED nth
<1>1. ToSet(rx') \subseteq ToSet(rx) /\ ToSet(tx') \subseteq ToSet(tx)
      /\ ToSet(input') \subseteq ToSet(input)
  BY Members DEF Waning
<1>2. Undone' \subseteq Undone
  <2>1. \A q \in Callers : pc'[q] \in {"open", "write"} =>
          pc[q] \in {"open", "write"} /\ call'[q] = call[q]
    BY DEF Waning, InCall
  <2>. QED
    BY <1>1, <2>1 DEF Undone
<1>3. Answers' \subseteq Answers
  <2>1. Taken' \subseteq Taken
    BY DEF Waning, Taken, Succeeds
  <2>. QED
    BY <1>1, <2>1 DEF Answers
<1>. QED
  BY <1>2, <1>3 DEF Dongle!Forget, Waning

\* When nothing else changes either, that is all.
LEMMA DongleLoses ==
  ASSUME Waning, UNCHANGED <<Holding, Asking, Outcome, out>>
  PROVE  Dongle!Next
BY Forgets DEF Dongle!Next, Dongle!Lose

\* Where a program is and what it has, to the dongle.
LEMMA AskingUnless ==
  ASSUME NEW p \in Callers,
         \A q \in Callers \ {p} : pc'[q] = pc[q] /\ call'[q] = call[q]
                                  /\ result'[q] = result[q]
  PROVE  /\ ~InCall(p)' => Asking' = [Asking EXCEPT ![p] = None]
         /\ InCall(p)' => Asking' = [Asking EXCEPT ![p] = call'[p]]
         /\ ~InCall(p)' => Outcome' = [Outcome EXCEPT ![p] = result'[p]]
         /\ InCall(p)' => Outcome' = [Outcome EXCEPT ![p] = -1]
<1>1. \A q \in Callers \ {p} : InCall(q)' <=> InCall(q)
  BY DEF InCall
<1>. QED
  BY <1>1 DEF Asking, Outcome

\* A program begins a call.
LEMMA DongleCall ==
  ASSUME IInv, NEW p \in Callers, Set(p) \/ Get(p)
  PROVE  Dongle!Next
<1>1. PICK r \in Asked :
           /\ r.n = nth + 1 /\ Calls(p, r)
           /\ r.op = "set" => \E reg \in Registers : \E arg \in Documented(reg) :
                r = [n |-> nth + 1, op |-> "set", reg |-> reg, arg |-> arg]
           /\ r.op = "get" => \E reg \in Registers :
                r = [n |-> nth + 1, op |-> "get", reg |-> reg, arg |-> <<>>]
  BY CallSteps DEF IInv, TypeOK
<1>2. /\ pc' = [pc EXCEPT ![p] = "open"] /\ pc[p] = "idle"
      /\ call' = [call EXCEPT ![p] = r] /\ nth' = nth + 1
      /\ result' = [result EXCEPT ![p] = -1]
      /\ UNCHANGED <<got, out, rx, tx, input, value>>
  BY <1>1 DEF Calls, Goto, handleVars, dongleVars
<1>3. DOMAIN pc = Callers /\ DOMAIN call = Callers /\ DOMAIN result = Callers
  BY DEF IInv, TypeOK
<1>4. /\ pc'[p] = "open" /\ call'[p] = r
      /\ \A q \in Callers \ {p} : pc'[q] = pc[q] /\ call'[q] = call[q]
                                  /\ result'[q] = result[q]
  BY <1>2, <1>3
<1>5. Asking[p] = None /\ Asking' = [Asking EXCEPT ![p] = r]
      /\ Outcome' = [Outcome EXCEPT ![p] = -1]
  <2>1. InCall(p)' /\ ~InCall(p)
    BY <1>2, <1>4 DEF InCall
  <2>2. Asking[p] = None
    BY <2>1 DEF Asking
  <2>. QED
    BY <1>4, <2>1, <2>2, AskingUnless
<1>6. Undone' = Undone \cup {r}
  BY <1>2, <1>4 DEF Undone
<1>7. Answers' = Answers /\ Holding' = Holding
  <2>1. Taken' = Taken
    BY <1>2, <1>4 DEF Taken
  <2>. QED
    BY <1>2, <2>1 DEF Answers, Holding
<1>8. Dongle!Call(p, r)
  BY <1>1, <1>2, <1>5, <1>6, <1>7 DEF Dongle!Call, None, Dongle!None
<1>9. r.op \in {"get", "set"}
  BY RequestShape DEF Asked
<1>10. CASE r.op = "set"
  <2>1. PICK reg \in Registers : \E arg \in Documented(reg) :
          r = [n |-> nth + 1, op |-> "set", reg |-> reg, arg |-> arg]
    BY <1>1, <1>10
  <2>2. PICK arg \in Documented(reg) :
          r = [n |-> nth + 1, op |-> "set", reg |-> reg, arg |-> arg]
    BY <2>1
  <2>3. Dongle!Set(p, reg, arg)
    BY <1>8, <2>2 DEF Dongle!Set
  <2>. QED
    BY <2>2, <2>3 DEF Dongle!Next
<1>11. CASE r.op = "get"
  <2>1. PICK reg \in Registers :
          r = [n |-> nth + 1, op |-> "get", reg |-> reg, arg |-> <<>>]
    BY <1>1, <1>11
  <2>2. Dongle!Get(p, reg)
    BY <1>8, <2>1 DEF Dongle!Get
  <2>. QED
    BY <2>2 DEF Dongle!Next
<1>. QED
  BY <1>9, <1>10, <1>11

\* The dongle carries out, or refuses, the request it holds.
LEMMA DongleExecute ==
  ASSUME IInv, Execute
  PROVE  Dongle!Next
<1>. DEFINE h == Head(rx)
            r == RequestOf(h)
            data == IF h.op = "get" THEN value[h.reg] ELSE <<>>
<1>0. /\ WiresOK /\ WordsInv /\ NumberInv
  BY TypeParts DEF IInv
<1>1. /\ h \in Requests /\ rx = <<h>> /\ rx' = <<>> /\ tx = <<>>
      /\ h.op = "set" => h.arg \in WordsOf(h.reg)
      /\ \/ /\ value' = IF h.op = "set" THEN [value EXCEPT ![h.reg] = h.arg]
                        ELSE value
            /\ tx' = <<Answer(h, TRUE, data)>>
         \/ UNCHANGED value /\ tx' = <<Answer(h, FALSE, <<>>)>>
      /\ UNCHANGED <<pc, call, nth, result, got, out, input>>
  BY <1>0, ExecuteEffect DEF callVars, resultVars, handleVars
<1>2. /\ ToSet(rx) = {h} /\ ToSet(rx') = {} /\ ToSet(tx) = {} /\ h.n \in Nums(rx)
      /\ \A x : tx' = <<x>> => ToSet(tx') = {x}
  BY <1>1, Members
<1>3. /\ r.n = h.n /\ r.op = h.op /\ r.reg = h.reg /\ r.arg = Numbers(h.reg, h.arg)
      /\ h.reg \in Registers
  BY <1>1, SameNumber, RequestShape
<1>. HIDE DEF r, h
<1>4. r \in Undone /\ Undone' = Undone \ {r}
  <2>1. \A p \in Callers : pc[p] \in {"open", "write"} => call[p] # r
    BY <1>0, <1>2, <1>3 DEF NumberInv, Underway
  <2>. QED
    BY <1>1, <1>2, <2>1 DEF Undone, r
<1>5. UNCHANGED <<Asking, Outcome, out, nth, Taken>>
  BY <1>1 DEF Asking, Outcome, InCall, Taken
<1>6. \A x : tx' = <<x>> => Answers' = Answers \cup {AnswerOf(x)}
  BY <1>1, <1>2, <1>5 DEF Answers
<1>7. AnswerOf(Answer(h, FALSE, <<>>)) =
        [n |-> r.n, op |-> r.op, reg |-> r.reg, ok |-> FALSE, data |-> <<>>]
  <2>. DEFINE none == <<>>
  <2>1. Numbers(h.reg, none) = none
    BY NoNumbers
  <2>. HIDE DEF none
  <2>2. AnswerOf(Answer(h, FALSE, none)) =
          [n |-> h.n, op |-> h.op, reg |-> h.reg, ok |-> FALSE,
           data |-> Numbers(h.reg, none)]
    BY AnswerNumbers
  <2>3. AnswerOf(Answer(h, FALSE, none)) =
          [n |-> r.n, op |-> r.op, reg |-> r.reg, ok |-> FALSE, data |-> none]
    BY <1>3, <2>1, <2>2
  <2>. QED
    BY <2>3, Zenon DEF none
<1>8. AnswerOf(Answer(h, TRUE, data)) =
        [n |-> r.n, op |-> r.op, reg |-> r.reg, ok |-> TRUE,
         data |-> IF r.op = "get" THEN Holding[r.reg] ELSE <<>>]
  <2>1. Numbers(h.reg, data) = IF r.op = "get" THEN Holding[r.reg] ELSE <<>>
    BY <1>3, NoNumbers DEF Holding
  <2>. HIDE DEF data
  <2>2. AnswerOf(Answer(h, TRUE, data)) =
          [n |-> h.n, op |-> h.op, reg |-> h.reg, ok |-> TRUE,
           data |-> Numbers(h.reg, data)]
    BY AnswerNumbers
  <2>. QED
    BY <1>3, <2>1, <2>2
<1>9. CASE /\ value' = IF h.op = "set" THEN [value EXCEPT ![h.reg] = h.arg]
                       ELSE value
           /\ tx' = <<Answer(h, TRUE, data)>>
  <2>1. Holding' = IF r.op = "set" THEN [Holding EXCEPT ![r.reg] = r.arg] ELSE Holding
    <3>1. DOMAIN value = Registers
      BY <1>0 DEF WiresOK
    <3>. QED
      BY <1>3, <1>9, <3>1 DEF Holding
  <2>2. Dongle!Effect(r)
    BY <1>4, <1>5, <1>6, <1>8, <1>9, <2>1 DEF Dongle!Effect
  <2>. QED
    BY <1>4, <2>2 DEF Dongle!Next
<1>10. CASE UNCHANGED value /\ tx' = <<Answer(h, FALSE, <<>>)>>
  <2>1. Holding' = Holding
    BY <1>10 DEF Holding
  <2>2. Dongle!Refusal(r)
    BY <1>4, <1>5, <1>6, <1>7, <1>10, <2>1 DEF Dongle!Refusal
  <2>. QED
    BY <1>4, <2>2 DEF Dongle!Next
<1>. QED
  BY <1>1, <1>9, <1>10

\* A program is given up on, or ends.
LEMMA DongleFails ==
  ASSUME Waning, NEW p \in Callers, Asking[p] # None,
         Asking' = [Asking EXCEPT ![p] = None], UNCHANGED <<Holding, Outcome, out>>
  PROVE  Dongle!Next
<1>1. Dongle!Fail(p)
  BY Forgets DEF Dongle!Fail, None, Dongle!None
<1>. QED
  BY <1>1 DEF Dongle!Next

\* In a call, a program asks for something.
LEMMA AsksIn ==
  ASSUME CallInv, NEW p \in Callers, InCall(p)
  PROVE  Asking[p] = call[p] /\ Asking[p] # None
BY RequestShape DEF CallInv, Asking, Asked

\* An EXCEPT that changes nothing.
LEMMA SameAgain ==
  ASSUME NEW f, NEW p \in Callers, f = [q \in Callers |-> f[q]]
  PROVE  [f EXCEPT ![p] = f[p]] = f
OBVIOUS

\* A call closes, successful or not.
LEMMA DongleClose ==
  ASSUME ByteValues = {}, IInv, NEW p \in Callers, Close(p)
  PROVE  Dongle!Next
<1>0. /\ ThreadsOK /\ WiresOK /\ CallInv /\ OwnerInv /\ ResultInv /\ NumberInv
  BY TypeParts DEF IInv
<1>1. /\ pc[p] = "close" /\ pc' = [pc EXCEPT ![p] = "idle"]
      /\ call' = [call EXCEPT ![p] = None] /\ got' = [got EXCEPT ![p] = NoReply]
      /\ input' = <<>> /\ UNCHANGED <<nth, result, plugged, rx, tx, value>>
  BY DEF Close, Return, Goto, Closes, dongleVars
<1>2. /\ DOMAIN pc = Callers /\ DOMAIN call = Callers /\ result \in [Callers -> {-1, 0}]
      /\ DOMAIN got = Callers
  BY <1>0 DEF ThreadsOK, WiresOK
<1>3. /\ pc'[p] = "idle"
      /\ \A q \in Callers \ {p} : pc'[q] = pc[q] /\ call'[q] = call[q]
                                  /\ result'[q] = result[q]
  BY <1>1, <1>2
<1>4. Asking' = [Asking EXCEPT ![p] = None] /\ Outcome' = [Outcome EXCEPT ![p] = result[p]]
  <2>1. ~InCall(p)'
    BY <1>3 DEF InCall
  <2>. QED
    BY <1>1, <1>3, <2>1, AskingUnless
<1>5. InCall(p) /\ Asking[p] = call[p] /\ Asking[p] # None
  BY <1>0, <1>1, AsksIn DEF InCall
<1>6. Holding' = Holding
  BY <1>1 DEF Holding
<1>7. CASE result[p] = 0
  <2>. DEFINE a == AnswerOf(got[p])
  <2>1. /\ got[p] \in Replies /\ Valid(call[p], got[p]) /\ Succeeds(p)
    BY <1>0, <1>1, <1>7 DEF ResultInv, Succeeds
  <2>2. /\ a.ok /\ a.op = call[p].op /\ a.reg = call[p].reg /\ a.n = got[p].n
        /\ a.data = Numbers(call[p].reg, got[p].data)
    <3>1. /\ a.n = got[p].n /\ a.op = got[p].op /\ a.reg = got[p].reg
          /\ a.ok = got[p].ok /\ a.data = Numbers(got[p].reg, got[p].data)
      BY <2>1 DEF AnswerOf, Replies
    <3>2. got[p].op = call[p].op /\ got[p].reg = call[p].reg /\ got[p].ok
      BY <2>1, Zenon DEF Valid
    <3>. HIDE DEF a
    <3>. QED
      BY <3>1, <3>2
  <2>3. a \in Answers
    BY <1>1, <1>7 DEF Answers, Taken
  <2>4. Answers' \subseteq Answers \ {a}
    <3>1. Taken' = {}
      <4>1. \A q \in Callers : pc[q] = "close" => q = p
        BY <1>0, <1>1 DEF OwnerInv
      <4>. QED
        BY <1>1, <1>3, <4>1 DEF Taken
    <3>2. ToSet(input') = {} /\ tx' = tx
      BY <1>1, Members
    <3>3. Answers' = {AnswerOf(x) : x \in ToSet(tx)}
      BY <3>1, <3>2 DEF Answers
    <3>4. \A x \in ToSet(tx) : AnswerOf(x) # a
      <4>1. SUFFICES ASSUME NEW x \in ToSet(tx) PROVE AnswerOf(x) # a
        OBVIOUS
      <4>2. x \in Replies
        <5>1. \A i \in DOMAIN tx : tx[i] \in Replies
          BY <1>0 DEF WiresOK
        <5>. QED
          BY <5>1 DEF ToSet
      <4>3. AnswerOf(x).n \in Underway
        BY <4>2, SameNumber, NumberThere DEF Underway
      <4>4. a.n \notin Underway
        BY <1>0, <2>1, <2>2 DEF NumberInv
      <4>. QED
        BY <4>3, <4>4
    <3>. QED
      BY <3>3, <3>4 DEF Answers
  <2>. HIDE DEF a
  <2>5. Undone' = Undone
    <3>1. \A q \in Callers : /\ pc'[q] \in {"open", "write"} <=> pc[q] \in {"open", "write"}
                             /\ pc[q] \in {"open", "write"} => call'[q] = call[q]
      BY <1>1, <1>3
    <3>. QED
      BY <1>1, <3>1 DEF Undone
  <2>6. out' = IF a.op = "get" THEN [out EXCEPT ![p] = a.data] ELSE out
    BY <1>7, <2>2 DEF Close, Stored
  <2>7. Dongle!Succeed(p, a)
    BY <1>1, <1>4, <1>5, <1>6, <1>7, <2>2, <2>4, <2>5, <2>6
       DEF Dongle!Succeed, None, Dongle!None
  <2>. QED
    BY <2>3, <2>7 DEF Dongle!Next
<1>8. CASE result[p] # 0
  <2>1. result[p] = -1 /\ Outcome[p] = -1
    BY <1>2, <1>5, <1>8 DEF Outcome
  <2>2. Outcome' = Outcome /\ out' = out
    <3>1. Outcome = [q \in Callers |-> Outcome[q]]
      BY DEF Outcome
    <3>2. [Outcome EXCEPT ![p] = -1] = Outcome
      BY <2>1, <3>1, SameAgain
    <3>. QED
      BY <1>4, <1>8, <2>1, <3>2 DEF Close, Stored
  <2>3. Waning
    BY <1>0, WaningSteps
  <2>. QED
    BY <1>4, <1>5, <1>6, <2>2, <2>3, DongleFails
<1>. QED
  BY <1>7, <1>8

\* A program opens the handle, or cannot.
LEMMA DongleOpen ==
  ASSUME IInv, NEW p \in Callers, Open(p)
  PROVE  Dongle!Next
<1>0. ThreadsOK /\ WiresOK /\ CallInv /\ ResultInv
  BY TypeParts DEF IInv
<1>1. /\ Waning /\ pc[p] = "open" /\ UNCHANGED <<result, out, value>>
      /\ \/ pc' = [pc EXCEPT ![p] = "write"] /\ call' = call
         \/ /\ pc' = [pc EXCEPT ![p] = "idle"]
            /\ call' = [call EXCEPT ![p] = None]
  BY <1>0, WaningSteps DEF Open, Goto, Return, resultVars, dongleVars
<1>2. /\ DOMAIN pc = Callers /\ DOMAIN call = Callers /\ result[p] = -1
  BY <1>0, <1>1 DEF ThreadsOK, ResultInv
<1>3. \A q \in Callers \ {p} : pc'[q] = pc[q] /\ call'[q] = call[q]
                               /\ result'[q] = result[q]
  BY <1>1, <1>2
<1>4. Asking[p] = call[p] /\ Asking[p] # None /\ Outcome[p] = -1 /\ Holding' = Holding
  <2>1. InCall(p)
    BY <1>1 DEF InCall
  <2>. QED
    BY <1>0, <1>1, <2>1, AsksIn DEF Outcome, Holding
<1>5. /\ Asking = [q \in Callers |-> Asking[q]]
      /\ Outcome = [q \in Callers |-> Outcome[q]]
  BY DEF Asking, Outcome
<1>6. [Outcome EXCEPT ![p] = -1] = Outcome /\ [Asking EXCEPT ![p] = call[p]] = Asking
  BY <1>4, <1>5, SameAgain
<1>7. CASE pc' = [pc EXCEPT ![p] = "write"] /\ call' = call
  <2>1. InCall(p)'
    BY <1>2, <1>7 DEF InCall
  <2>2. Asking' = Asking /\ Outcome' = Outcome
    BY <1>3, <1>6, <1>7, <2>1, AskingUnless
  <2>. QED
    BY <1>1, <1>4, <2>2, DongleLoses
<1>8. CASE pc' = [pc EXCEPT ![p] = "idle"]
  <2>1. ~InCall(p)'
    BY <1>2, <1>8 DEF InCall
  <2>2. Asking' = [Asking EXCEPT ![p] = None] /\ Outcome' = Outcome
    BY <1>1, <1>2, <1>3, <1>6, <2>1, AskingUnless
  <2>. QED
    BY <1>1, <1>4, <2>2, DongleFails
<1>. QED
  BY <1>1, <1>7, <1>8

\* A program is killed.
LEMMA DongleCrash ==
  ASSUME IInv, NEW p \in Callers, Crash(p)
  PROVE  Dongle!Next
<1>0. ThreadsOK /\ WiresOK /\ ResultInv
  BY TypeParts DEF IInv
<1>1. /\ Waning /\ pc' = [pc EXCEPT ![p] = "idle"]
      /\ call' = [call EXCEPT ![p] = None] /\ result' = [result EXCEPT ![p] = -1]
      /\ out' = [out EXCEPT ![p] = <<>>] /\ UNCHANGED value
  BY <1>0, WaningSteps DEF Crash, Goto, Return, dongleVars
<1>2. DOMAIN pc = Callers /\ DOMAIN call = Callers /\ DOMAIN result = Callers
  BY <1>0 DEF ThreadsOK
<1>3. /\ pc'[p] = "idle" /\ result'[p] = -1
      /\ \A q \in Callers \ {p} : pc'[q] = pc[q] /\ call'[q] = call[q]
                                  /\ result'[q] = result[q]
  BY <1>1, <1>2
<1>4. Asking' = [Asking EXCEPT ![p] = None] /\ Outcome' = [Outcome EXCEPT ![p] = -1]
  <2>1. ~InCall(p)'
    BY <1>3 DEF InCall
  <2>. QED
    BY <1>3, <2>1, AskingUnless
<1>5. Holding' = Holding
  BY <1>1 DEF Holding
<1>6. Dongle!Restart(p)
  BY <1>1, <1>4, <1>5, Forgets DEF Dongle!Restart, None, Dongle!None
<1>. QED
  BY <1>6 DEF Dongle!Next

\* A call with numbers out of range is refused.
LEMMA DongleReject ==
  ASSUME IInv, NEW p \in Callers, Rejected(p)
  PROVE  Dongle!Next
<1>1. /\ pc[p] = "idle" /\ result' = [result EXCEPT ![p] = -1]
      /\ UNCHANGED <<pc, call, nth, got, out, input, rx, tx, value>>
  BY DEF Rejected, callVars, handleVars, dongleVars
<1>2. DOMAIN result = Callers
  BY DEF IInv, TypeOK
<1>3. /\ ~InCall(p) /\ ~InCall(p)' /\ Asking[p] = None /\ result'[p] = -1
  BY <1>1, <1>2 DEF InCall, Asking
<1>4. \A q \in Callers \ {p} : pc'[q] = pc[q] /\ call'[q] = call[q]
                               /\ result'[q] = result[q]
  BY <1>1, <1>2
<1>5. Outcome' = [Outcome EXCEPT ![p] = -1]
  BY <1>3, <1>4, AskingUnless
<1>6. UNCHANGED <<Asking, Undone, Answers, Holding>>
  <2>1. Taken' = Taken
    <3>1. \A q \in Callers : (pc'[q] = "close" /\ result'[q] = 0)
                              <=> (pc[q] = "close" /\ result[q] = 0)
      BY <1>1, <1>4
    <3>. QED
      BY <1>1, <3>1 DEF Taken
  <2>. QED
    BY <1>1, <2>1 DEF Asking, InCall, Undone, Answers, Holding
<1>7. Dongle!Reject(p)
  BY <1>1, <1>3, <1>5, <1>6 DEF Dongle!Reject, None, Dongle!None
<1>. QED
  BY <1>7 DEF Dongle!Next

\* A request is sent, or is not.
LEMMA DongleWrite ==
  ASSUME IInv, NEW p \in Callers, Write(p)
  PROVE  [Dongle!Next]_Dongle!vars
<1>0. ThreadsOK /\ WiresOK /\ CallInv /\ ResultInv
  BY TypeParts DEF IInv
<1>1. /\ pc[p] = "write"
      /\ pc' \in {[pc EXCEPT ![p] = "read"], [pc EXCEPT ![p] = "close"]}
      /\ UNCHANGED <<call, nth, result, got, out, input, tx, value>>
      /\ Sent(p) \/ UNCHANGED rx
  BY DEF Write, Goto, callVars, resultVars, handleVars
<1>2. /\ DOMAIN pc = Callers /\ result[p] = -1
  BY <1>0, <1>1 DEF ThreadsOK, ResultInv
<1>3. /\ pc'[p] \in {"read", "close"}
      /\ \A q \in Callers \ {p} : pc'[q] = pc[q]
  BY <1>1, <1>2
<1>4. \A q \in Callers : InCall(q)' <=> InCall(q)
  BY <1>1, <1>3 DEF InCall
<1>5. UNCHANGED <<Asking, Outcome, Holding>>
  BY <1>1, <1>4 DEF Asking, Outcome, Holding
<1>6. CASE Sent(p)
  <2>1. PICK m : rx' = <<m>> /\ RequestOf(m) = call[p] /\ rx = <<>>
    BY <1>0, <1>1, <1>6, SentEffect DEF RequestOf
  <2>2. ToSet(rx') = {m} /\ ToSet(rx) = {}
    BY <2>1, Members
  <2>3. Undone' = Undone
    <3>1. \A x : x \in Undone <=> \E q \in Callers : pc[q] \in {"open", "write"}
                                                      /\ x = call[q]
      BY <2>2 DEF Undone
    <3>2. \A x : x \in Undone' <=>
                   \/ x = call[p]
                   \/ \E q \in Callers : pc'[q] \in {"open", "write"} /\ x = call[q]
      BY <1>1, <2>1, <2>2 DEF Undone
    <3>3. \A x : x \in Undone <=> x \in Undone'
      BY <1>1, <1>3, <3>1, <3>2
    <3>. QED
      BY <3>3 DEF Undone
  <2>4. Answers' = Answers
    <3>1. \A q \in Callers : (pc'[q] = "close" /\ result'[q] = 0)
                              <=> (pc[q] = "close" /\ result[q] = 0)
      BY <1>1, <1>2, <1>3
    <3>2. Taken' = Taken
      BY <1>1, <3>1 DEF Taken
    <3>. QED
      BY <1>1, <3>2 DEF Answers
  <2>. QED
    BY <1>1, <1>5, <2>3, <2>4 DEF Dongle!vars
<1>7. CASE UNCHANGED rx /\ ~Sent(p)
  <2>1. Waning
    BY <1>0, <1>7, WaningSteps
  <2>. QED
    BY <1>1, <1>5, <2>1, DongleLoses
<1>. QED
  BY <1>1, <1>6, <1>7

\* A reply is taken: to a valid one nothing happens before the call closes,
\* another is lost.
LEMMA DongleRead ==
  ASSUME IInv, NEW p \in Callers, Read(p)
  PROVE  [Dongle!Next]_Dongle!vars
<1>0. ThreadsOK /\ WiresOK /\ CallInv /\ ResultInv
  BY TypeParts DEF IInv
<1>1. /\ pc[p] = "read" /\ pc' = [pc EXCEPT ![p] = "close"]
      /\ UNCHANGED <<call, nth, out, rx, tx, value>>
      /\ \/ /\ input # <<>> /\ input' = Tail(input)
            /\ \/ /\ result' = [result EXCEPT ![p] = 0]
                  /\ got' = [got EXCEPT ![p] = Head(input)]
               \/ UNCHANGED <<result, got>>
         \/ UNCHANGED <<input, result, got>>
  BY DEF Read, Goto, callVars, dongleVars
<1>2. /\ DOMAIN pc = Callers /\ DOMAIN got = Callers /\ result[p] = -1
      /\ DOMAIN result = Callers
  BY <1>0, <1>1 DEF ThreadsOK, WiresOK, ResultInv
<1>3. /\ pc'[p] = "close"
      /\ \A q \in Callers \ {p} : /\ pc'[q] = pc[q] /\ result'[q] = result[q]
                                  /\ got'[q] = got[q]
  BY <1>1, <1>2
<1>4. \A q \in Callers : InCall(q)' <=> InCall(q)
  BY <1>1, <1>3 DEF InCall
<1>5. UNCHANGED <<Asking, Outcome, Holding>>
  <2>1. InCall(p)
    BY <1>1 DEF InCall
  <2>. QED
    BY <1>1, <1>3, <1>4, <2>1 DEF Asking, Outcome, Holding
<1>6. Undone' = Undone
  <2>1. \A q \in Callers : pc'[q] \in {"open", "write"} <=> pc[q] \in {"open", "write"}
    BY <1>1, <1>3
  <2>. QED
    BY <1>1, <2>1 DEF Undone
<1>7. input # <<>> => ToSet(input) = {Head(input)} \cup ToSet(Tail(input))
  BY <1>0, MembersTail DEF WiresOK
<1>8. CASE /\ input # <<>> /\ input' = Tail(input)
           /\ result' = [result EXCEPT ![p] = 0]
           /\ got' = [got EXCEPT ![p] = Head(input)]
  <2>1. result'[p] = 0 /\ got'[p] = Head(input)
    BY <1>2, <1>8
  <2>2. Taken' = Taken \cup {Head(input)}
    <3>1. \A x : x \in Taken' <=> \E q \in Callers : pc'[q] = "close" /\ result'[q] = 0
                                                      /\ x = got'[q]
      BY DEF Taken
    <3>2. \A x : x \in Taken <=> \E q \in Callers : pc[q] = "close" /\ result[q] = 0
                                                     /\ x = got[q]
      BY DEF Taken
    <3>3. \A x : x \in Taken' <=> x \in Taken \/ x = Head(input)
      BY <1>1, <1>3, <2>1, <3>1, <3>2
    <3>. QED
      BY <3>3
  <2>3. Answers' = Answers
    BY <1>1, <1>7, <1>8, <2>2 DEF Answers
  <2>. QED
    BY <1>1, <1>5, <1>6, <2>3 DEF Dongle!vars
<1>9. CASE /\ UNCHANGED <<result, got>>
           /\ input' = input \/ (input # <<>> /\ input' = Tail(input))
  <2>1. \A q \in Callers : (pc'[q] = "close" /\ result'[q] = 0)
                            <=> (pc[q] = "close" /\ result[q] = 0)
    BY <1>1, <1>2, <1>3, <1>9
  <2>2. Taken' = Taken
    BY <1>9, <2>1 DEF Taken
  <2>3. Answers' \subseteq Answers
    BY <1>1, <1>7, <1>9, <2>2 DEF Answers
  <2>4. Dongle!Lose
    BY <1>1, <1>5, <1>6, <2>3 DEF Dongle!Lose, Dongle!Forget
  <2>. QED
    BY <2>4 DEF Dongle!Next
<1>. QED
  BY <1>1, <1>8, <1>9

\* The other steps of a program, the bus and the dongle.
LEMMA DongleRest ==
  ASSUME IInv,
         \/ Deliver \/ Unplug \/ Replug \/ UNCHANGED vars
         \/ \E p \in Callers : \/ FcdOpen(p) \/ FcdOpenFirst(p) \/ FcdClose(p)
                               \/ FcdOpenCheck(p) \/ FcdOpenClose(p)
  PROVE  [Dongle!Next]_Dongle!vars
<1>0. ThreadsOK /\ WiresOK /\ CallInv /\ ResultInv
  BY TypeParts DEF IInv
<1>. USE DEF callVars, resultVars, handleVars, dongleVars
<1>1. CASE Deliver
  <2>1. /\ tx # <<>> /\ tx' = <<>> /\ input' = Append(input, Head(tx))
        /\ UNCHANGED <<pc, call, nth, result, got, out, rx, value>>
    BY <1>1 DEF Deliver
  <2>2. /\ tx = <<Head(tx)>> /\ Head(tx) \in Replies /\ input \in Seq(Replies)
    BY <1>0, <2>1, Slot DEF WiresOK
  <2>3. /\ ToSet(tx) = {Head(tx)} /\ ToSet(tx') = {}
        /\ ToSet(input') = ToSet(input) \cup {Head(tx)}
    BY <2>1, <2>2, Members, MembersAppend
  <2>4. Taken' = Taken
    BY <2>1 DEF Taken
  <2>5. Answers' = Answers
    BY <2>3, <2>4 DEF Answers
  <2>6. UNCHANGED <<Asking, Outcome, Holding, Undone>>
    BY <2>1 DEF Asking, Outcome, Holding, Undone, InCall
  <2>. QED
    BY <2>1, <2>5, <2>6 DEF Dongle!vars
<1>2. CASE Unplug \/ UNCHANGED vars
  <2>1. Waning /\ UNCHANGED <<pc, call, result, value, out>>
    BY <1>0, <1>2, WaningSteps DEF Unplug, vars
  <2>2. UNCHANGED <<Asking, Outcome, Holding>>
    BY <2>1 DEF Asking, Outcome, Holding, InCall
  <2>. QED
    BY <2>1, <2>2, DongleLoses
<1>3. CASE Replug
  <2>1. /\ value' = [r \in Registers |-> Zeros(r)]
        /\ UNCHANGED <<pc, call, nth, result, got, out, input, rx, tx>>
    BY <1>3 DEF Replug
  <2>2. Holding' = [r \in Registers |-> Zeros(r)]
    BY <2>1, ZeroNumbers DEF Holding
  <2>3. UNCHANGED <<Asking, Outcome, Undone, Answers>>
    BY <2>1 DEF Asking, Outcome, Undone, Answers, Taken, InCall
  <2>4. Dongle!Replug
    BY <2>1, <2>2, <2>3 DEF Dongle!Replug
  <2>. QED
    BY <2>4 DEF Dongle!Next
<1>4. ASSUME NEW p \in Callers,
             \/ FcdOpen(p) \/ FcdOpenFirst(p) \/ FcdClose(p)
             \/ FcdOpenCheck(p) \/ FcdOpenClose(p)
      PROVE  [Dongle!Next]_Dongle!vars
  <2>1. Waning
    BY <1>0, <1>4, WaningSteps
  <2>2. /\ UNCHANGED <<call, result, value, out>>
        /\ \A q \in Callers : InCall(q)' <=> InCall(q)
    <3>1. UNCHANGED <<call, result, value, out>>
      BY <1>4 DEF FcdOpen, FcdOpenFirst, FcdClose, FcdOpenCheck, FcdOpenClose
    <3>2. DOMAIN pc = Callers
      BY <1>0 DEF ThreadsOK
    <3>3. \A q \in Callers : InCall(q)' <=> InCall(q)
      BY <1>4, <3>2 DEF FcdOpen, FcdOpenFirst, FcdClose, FcdOpenCheck, FcdOpenClose,
         Goto, InCall
    <3>. QED
      BY <3>1, <3>3
  <2>3. UNCHANGED <<Asking, Outcome, Holding>>
    BY <2>2 DEF Asking, Outcome, Holding
  <2>. QED
    BY <2>1, <2>2, <2>3, DongleLoses
<1>. QED
  BY <1>1, <1>2, <1>3, <1>4

\* Whatever is lost, refused, timed out or killed, the calls that set and get
\* (but for fcd_get_value, which stores nothing: GetStores) keep what fcd.h
\* promises of a dongle: no request takes effect twice, no answer serves two
\* calls, and the numbers a program sets are the numbers a program gets.
THEOREM Refinement == ASSUME ByteValues = {} PROVE Spec => ImplementsDongle
<1>1. Init => Dongle!Init
  BY DongleInit
<1>2. IInv /\ [Next]_vars => [Dongle!Next]_Dongle!vars
  <2>. SUFFICES ASSUME IInv, [Next]_vars PROVE [Dongle!Next]_Dongle!vars
    OBVIOUS
  <2>1. CASE Execute
    BY <2>1, DongleExecute
  <2>2. CASE \/ Deliver \/ Unplug \/ Replug \/ UNCHANGED vars
    BY <2>2, DongleRest
  <2>3. ASSUME NEW p \in Callers,
               \/ FcdOpen(p) \/ FcdOpenFirst(p) \/ FcdClose(p)
               \/ FcdOpenCheck(p) \/ FcdOpenClose(p)
        PROVE  [Dongle!Next]_Dongle!vars
    BY <2>3, DongleRest
  <2>4. ASSUME NEW p \in Callers,
               \/ Set(p) \/ Get(p) \/ Rejected(p) \/ Open(p) \/ Write(p)
               \/ Read(p) \/ Close(p) \/ Crash(p)
        PROVE  [Dongle!Next]_Dongle!vars
    BY <2>4, DongleCall, DongleReject, DongleOpen, DongleWrite, DongleRead,
       DongleClose, DongleCrash
  <2>. QED
    BY <2>1, <2>2, <2>3, <2>4, NextSteps
<1>. QED
  BY <1>1, <1>2, Invariant, PTL DEF Spec, ImplementsDongle, Dongle!Spec

\* A get that returns 0 has stored what it was answered: fcd_get_value is the
\* only call of which this is not so.
THEOREM GetsStore == ASSUME ByteValues = {} PROVE Spec => GetStores
<1>1. IInv /\ [Next]_vars =>
        [\A p \in Callers :
           /\ pc[p] = "close" /\ result[p] = 0 /\ call[p].op = "get"
           /\ pc'[p] = "idle" /\ dev'[p]
           => out'[p] = Numbers(call[p].reg, got[p].data)]_vars
  <2>. SUFFICES ASSUME IInv, [Next]_vars, NEW p \in Callers,
                       pc[p] = "close", result[p] = 0, call[p].op = "get",
                       pc'[p] = "idle", dev'[p]
                PROVE  out'[p] = Numbers(call[p].reg, got[p].data)
    OBVIOUS
  <2>0. DOMAIN pc = Callers /\ DOMAIN out = Callers
    BY DEF IInv, TypeOK
  <2>1. CASE Close(p)
    BY <2>0, <2>1 DEF Close, Stored
  <2>2. CASE Crash(p)
    <3>1. dev' = [dev EXCEPT ![p] = FALSE] /\ dev \in [Callers -> BOOLEAN]
      BY <2>2 DEF Crash, IInv, TypeOK
    <3>2. ~dev'[p]
      BY <3>1
    <3>. QED
      BY <3>2
  \* No other step ends a call that has its reply.
  <2>3. ASSUME NEW q \in Callers,
               \/ FcdOpen(q) \/ FcdOpenFirst(q) \/ FcdClose(q) \/ Rejected(q)
               \/ FcdOpenCheck(q) \/ FcdOpenClose(q) \/ Set(q) \/ Get(q)
        PROVE  pc'[p] = "close"
    BY <2>0, <2>3 DEF FcdOpen, FcdOpenFirst, FcdClose, Rejected, FcdOpenCheck,
       FcdOpenClose, Set, Get, Calls, Goto
  <2>4. ASSUME NEW q \in Callers,
               \/ Open(q) \/ Write(q) \/ Read(q)
               \/ (q # p /\ (Close(q) \/ Crash(q)))
        PROVE  pc'[p] = "close"
    BY <2>0, <2>4 DEF Open, Write, Read, Close, Crash, Goto, Return
  <2>5. CASE Execute \/ Deliver \/ Unplug \/ Replug \/ UNCHANGED vars
    BY <2>5 DEF Execute, Deliver, Unplug, Replug, vars
  <2>. QED
    BY <2>1, <2>2, <2>3, <2>4, <2>5, NextSteps
<1>. QED
  BY <1>1, Invariant, PTL DEF Spec, GetStores
=============================================================================
