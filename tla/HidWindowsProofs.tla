-------------------------- MODULE HidWindowsProofs --------------------------
(***************************************************************************)
(* Proofs about HidWindows, for any number of reports, any size of the     *)
(* driver's ring and any faults.                                           *)
(***************************************************************************)
EXTENDS HidWindows, TLAPS

Increasing(s) == \A i, j \in 1..Len(s) : i < j => s[i] < s[j]

\* A call that waits has a read to wait for; a closed handle keeps nothing.
PlaceInv ==
  /\ pc \in {"wait", "result"} => read_pending
  /\ pc = "closed" => ~read_pending /\ ring = <<>>

\* A read is pending only while the driver has nothing for it.
ReadInv ==
  /\ io = "pending" => read_pending /\ ring = <<>>
  /\ read_pending => io # "none"

\* Until a call takes it, the signal of the event says that the read is over.
EventInv == read_pending /\ pc # "result" => (event <=> io # "pending")

HasReport == read_pending /\ io = "done"

\* Accounted, said of the buffer and the ring one by one.
OrderInv ==
  /\ Increasing(ring)
  /\ \A r \in delivered, s \in ToSet(ring) : r < s
  /\ HasReport => /\ buf \in 1..sent
                  /\ \A s \in ToSet(ring) : buf < s
                  /\ \A r \in delivered : r < buf

PartInv ==
  /\ 1..sent = delivered \cup ToSet(ring) \cup lost
                 \cup (IF HasReport THEN {buf} ELSE {})
  /\ lost \cap (delivered \cup ToSet(ring)) = {}
  /\ HasReport => buf \notin lost

\* The two halves of TypeOK.
Flags == /\ read_pending \in BOOLEAN /\ blocking \in BOOLEAN
         /\ event \in BOOLEAN /\ plugged \in BOOLEAN

Values ==
  /\ pc \in {"closed", "idle", "wait", "result", "writing"}
  /\ ms \in {-1, 0, 1} /\ ret \in -1..MaxReports
  /\ io \in {"none", "pending", "done", "failed"}
  /\ buf \in 0..MaxReports /\ sent \in 0..MaxReports
  /\ ring \in Seq(1..MaxReports) /\ Len(ring) <= RingSize
  /\ delivered \subseteq 1..sent /\ lost \subseteq 1..sent

IInv == TypeOK /\ PlaceInv /\ ReadInv /\ EventInv /\ OrderInv /\ PartInv

----------------------------------------------------------------------------
(* Sequences *)

LEMMA EmptyFacts == ToSet(<<>>) = {} /\ Increasing(<<>>) /\ Len(<<>>) = 0
BY DEF ToSet, Increasing

LEMMA TailFacts ==
  ASSUME NEW s \in Seq(Nat), s # <<>>
  PROVE  /\ Head(s) \in Nat /\ Tail(s) \in Seq(Nat)
         /\ Len(s) \in Nat \ {0} /\ Len(Tail(s)) = Len(s) - 1
         /\ ToSet(s) = {Head(s)} \cup ToSet(Tail(s))
         /\ Increasing(s) => /\ Increasing(Tail(s))
                             /\ \A x \in ToSet(Tail(s)) : Head(s) < x
<1>1. /\ Len(s) \in Nat \ {0} /\ Len(Tail(s)) = Len(s) - 1
      /\ Head(s) = s[1] /\ Head(s) \in Nat /\ Tail(s) \in Seq(Nat)
  OBVIOUS
<1>2. \A i \in 1..Len(Tail(s)) : Tail(s)[i] = s[i + 1] /\ i + 1 \in 1..Len(s)
  BY <1>1
<1>3. \A i \in 1..Len(s) : i = 1 \/ i - 1 \in 1..Len(Tail(s))
  BY <1>1
<1>4. \A i \in 1..Len(s) : i # 1 => Tail(s)[i - 1] = s[i]
  BY <1>1, <1>2, <1>3
<1>5. DOMAIN s = 1..Len(s) /\ DOMAIN Tail(s) = 1..Len(Tail(s))
  BY <1>1
<1>6. ToSet(s) = {Head(s)} \cup ToSet(Tail(s))
  <2>1. ToSet(s) \subseteq {Head(s)} \cup ToSet(Tail(s))
    <3>1. SUFFICES ASSUME NEW i \in 1..Len(s), s[i] # Head(s)
                   PROVE  s[i] \in ToSet(Tail(s))
      BY <1>5 DEF ToSet
    <3>2. i # 1 /\ i - 1 \in 1..Len(Tail(s)) /\ Tail(s)[i - 1] = s[i]
      BY <1>1, <1>3, <1>4, <3>1
    <3> QED BY <1>5, <3>2 DEF ToSet
  <2>2. {Head(s)} \cup ToSet(Tail(s)) \subseteq ToSet(s)
    BY <1>1, <1>2, <1>5 DEF ToSet
  <2> QED BY <2>1, <2>2
<1>7. ASSUME Increasing(s)
      PROVE  Increasing(Tail(s)) /\ \A x \in ToSet(Tail(s)) : Head(s) < x
  <2>1. Increasing(Tail(s))
    BY <1>1, <1>2, <1>7 DEF Increasing
  <2>2. \A i \in 1..Len(Tail(s)) : Head(s) < Tail(s)[i]
    BY <1>1, <1>2, <1>7 DEF Increasing
  <2> QED BY <1>5, <2>1, <2>2 DEF ToSet
<1> QED BY <1>1, <1>6, <1>7

LEMMA AppendFacts ==
  ASSUME NEW s \in Seq(Nat), NEW r \in Nat
  PROVE  /\ Append(s, r) \in Seq(Nat) /\ Len(Append(s, r)) = Len(s) + 1
         /\ ToSet(Append(s, r)) = ToSet(s) \cup {r}
         /\ Increasing(s) /\ (\A x \in ToSet(s) : x < r) => Increasing(Append(s, r))
<1> DEFINE a == Append(s, r)
<1>1. /\ Len(s) \in Nat /\ a \in Seq(Nat) /\ Len(a) = Len(s) + 1
      /\ \A i \in 1..Len(s) : a[i] = s[i] /\ i \in 1..Len(a)
      /\ a[Len(s) + 1] = r /\ Len(s) + 1 \in 1..Len(a)
  OBVIOUS
<1>2. DOMAIN s = 1..Len(s) /\ DOMAIN a = 1..Len(a)
  BY <1>1
<1>3. \A i \in 1..Len(a) : i \in 1..Len(s) \/ i = Len(s) + 1
  BY <1>1
<1> HIDE DEF a
<1>4. ToSet(a) = ToSet(s) \cup {r}
  <2>1. ToSet(a) \subseteq ToSet(s) \cup {r}
    BY <1>1, <1>2, <1>3 DEF ToSet
  <2>2. ToSet(s) \cup {r} \subseteq ToSet(a)
    BY <1>1, <1>2 DEF ToSet
  <2> QED BY <2>1, <2>2
<1>5. ASSUME Increasing(s), \A x \in ToSet(s) : x < r
      PROVE  Increasing(a)
  <2>1. \A i \in 1..Len(s) : s[i] < r
    BY <1>2, <1>5 DEF ToSet
  <2>2. SUFFICES ASSUME NEW i \in 1..Len(a), NEW j \in 1..Len(a), i < j
                 PROVE  a[i] < a[j]
    BY DEF Increasing
  <2>3. i \in 1..Len(s)
    BY <1>1, <2>2
  <2>4. CASE j \in 1..Len(s)
    BY <1>1, <1>5, <2>2, <2>3, <2>4 DEF Increasing
  <2>5. CASE j = Len(s) + 1
    BY <1>1, <2>1, <2>3, <2>5
  <2> QED BY <1>3, <2>2, <2>4, <2>5
<1> QED BY <1>1, <1>4, <1>5 DEF a

\* Held is the ring, with the fetched report before it.
LEMMA HeldFacts ==
  ASSUME TypeOK
  PROVE  /\ ring \in Seq(Nat)
         /\ ~HasReport => Held = ring
         /\ HasReport => /\ Len(Held) = Len(ring) + 1
                         /\ Held[1] = buf
                         /\ \A i \in 1..Len(ring) : Held[i + 1] = ring[i]
                         /\ Held \in Seq(Nat)
<1>1. ring \in Seq(Nat) /\ buf \in Nat
  BY ConstantsAssumption DEF TypeOK
<1>2. ~HasReport => Held = ring
  BY <1>1 DEF Held, Fetched, HasReport
<1>3. HasReport => Held = <<buf>> \o ring
  BY DEF Held, Fetched, HasReport
<1>4. /\ <<buf>> \o ring \in Seq(Nat)
      /\ Len(<<buf>> \o ring) = Len(ring) + 1
      /\ (<<buf>> \o ring)[1] = buf
      /\ \A i \in 1..Len(ring) : (<<buf>> \o ring)[i + 1] = ring[i]
  BY <1>1
<1> QED BY <1>1, <1>2, <1>3, <1>4

LEMMA HeldSet ==
  ASSUME TypeOK
  PROVE  ToSet(Held) = ToSet(ring) \cup (IF HasReport THEN {buf} ELSE {})
<1>1. CASE ~HasReport
  BY <1>1, HeldFacts
<1>2. CASE HasReport
  <2>1. /\ ring \in Seq(Nat) /\ Held \in Seq(Nat) /\ Len(ring) \in Nat
        /\ Len(Held) = Len(ring) + 1 /\ Held[1] = buf
        /\ \A i \in 1..Len(ring) : Held[i + 1] = ring[i]
    BY <1>2, HeldFacts
  <2>2. DOMAIN Held = 1..Len(Held) /\ DOMAIN ring = 1..Len(ring)
    BY <2>1
  <2>3. ToSet(Held) \subseteq ToSet(ring) \cup {buf}
    <3>1. SUFFICES ASSUME NEW i \in 1..Len(Held), Held[i] # buf
                   PROVE  Held[i] \in ToSet(ring)
      BY <2>2 DEF ToSet
    <3> DEFINE k == i - 1
    <3>2. k \in 1..Len(ring) /\ i = k + 1
      BY <2>1, <3>1
    <3>3. Held[k + 1] = ring[k]
      BY <2>1, <3>2
    <3> QED BY <2>2, <3>2, <3>3 DEF ToSet
  <2>4. ToSet(ring) \cup {buf} \subseteq ToSet(Held)
    <3>1. buf \in ToSet(Held)
      BY <2>1, <2>2 DEF ToSet
    <3>2. ASSUME NEW i \in 1..Len(ring) PROVE ring[i] \in ToSet(Held)
      <4>1. i + 1 \in 1..Len(Held) /\ Held[i + 1] = ring[i]
        BY <2>1
      <4> QED BY <2>2, <4>1 DEF ToSet
    <3> QED BY <2>2, <3>1, <3>2 DEF ToSet
  <2> QED BY <1>2, <2>3, <2>4
<1> QED BY <1>1, <1>2

\* The parts of the invariant say what Accounted says.
LEMMA InvImpliesAccounted == IInv => Accounted
<1> SUFFICES ASSUME IInv PROVE Accounted
  OBVIOUS
<1> USE DEF IInv
<1>1. \A i, j \in 1..Len(Held) : i < j => Held[i] < Held[j]
  <2>1. CASE ~HasReport
    BY <2>1, HeldFacts DEF OrderInv, Increasing
  <2>2. CASE HasReport
    <3>1. /\ ring \in Seq(Nat) /\ Len(ring) \in Nat
          /\ Len(Held) = Len(ring) + 1 /\ Held[1] = buf
          /\ \A i \in 1..Len(ring) : Held[i + 1] = ring[i]
      BY <2>2, HeldFacts
    <3>2. \A i \in 1..Len(ring) : buf < ring[i]
      BY <2>2, <3>1 DEF OrderInv, ToSet
    <3>3. \A i \in 1..Len(Held) : i = 1 \/ (i - 1 \in 1..Len(ring) /\ Held[i] = ring[i - 1])
      BY <3>1
    <3>4. SUFFICES ASSUME NEW i \in 1..Len(Held), NEW j \in 1..Len(Held), i < j
                   PROVE  Held[i] < Held[j]
      OBVIOUS
    <3>5. j - 1 \in 1..Len(ring) /\ Held[j] = ring[j - 1]
      BY <3>3, <3>4
    <3>6. CASE i = 1
      BY <3>1, <3>2, <3>5, <3>6
    <3>7. CASE i - 1 \in 1..Len(ring) /\ Held[i] = ring[i - 1]
      <4>1. i - 1 < j - 1
        BY <3>4
      <4> QED BY <3>5, <3>7, <4>1 DEF OrderInv, Increasing
    <3> QED BY <3>3, <3>4, <3>6, <3>7
  <2> QED BY <2>1, <2>2
<1>2. \A r \in delivered, s \in ToSet(Held) : r < s
  BY HeldSet DEF OrderInv
<1>3. 1..sent = delivered \cup ToSet(Held) \cup lost
  BY HeldSet DEF PartInv
<1>4. lost \cap (delivered \cup ToSet(Held)) = {}
  BY HeldSet DEF PartInv
<1> QED BY <1>1, <1>2, <1>3, <1>4 DEF Accounted

----------------------------------------------------------------------------
(* What each step does to the parts of the invariant.                      *)

\* Starting or joining a read, whoever asks for it.
LEMMA ReadTimeoutStep ==
  ASSUME IInv, NEW milliseconds \in {-1, 0, 1}, ReadTimeout(milliseconds)
  PROVE  IInv'
<1> USE DEF IInv, handleVars, driverVars
<1>0. blocking' = blocking /\ delivered' = delivered /\ plugged' = plugged
      /\ sent' = sent /\ lost' = lost /\ pc = "idle"
  BY DEF ReadTimeout
<1>1. CASE /\ read_pending /\ UNCHANGED <<handleVars, ring, ret>>
           /\ pc' = (IF milliseconds >= 0 THEN "wait" ELSE "result")
           /\ ms' = milliseconds
  <2>1. TypeOK'
    BY <1>0, <1>1 DEF TypeOK
  <2>2. PlaceInv' /\ ReadInv' /\ EventInv'
    BY <1>0, <1>1 DEF PlaceInv, ReadInv, EventInv
  <2>3. OrderInv' /\ PartInv'
    BY <1>0, <1>1 DEF OrderInv, PartInv, HasReport, ToSet, Increasing
  <2> QED BY <2>1, <2>2, <2>3
<1>2. CASE /\ ~read_pending /\ ReadFile /\ UNCHANGED ret
           /\ pc' = (IF milliseconds >= 0 THEN "wait" ELSE "result")
           /\ ms' = milliseconds
  <2>1. CASE ring = <<>>
    <3>1. /\ read_pending' = TRUE /\ event' = FALSE /\ io' = "pending"
          /\ buf' = 0 /\ ring' = <<>>
      BY <1>2, <2>1 DEF ReadFile
    <3>2. TypeOK'
      <4>1. Flags'
        BY <1>0, <1>2, <2>1, <3>1, ConstantsAssumption DEF Flags, TypeOK
      <4>2. Values'
        BY <1>0, <1>2, <2>1, <3>1, ConstantsAssumption DEF Values, TypeOK
      <4> QED BY <4>1, <4>2 DEF TypeOK, Flags, Values
    <3>3. PlaceInv' /\ ReadInv' /\ EventInv'
      BY <1>0, <1>2, <3>1 DEF PlaceInv, ReadInv, EventInv
    <3>4. ring' = ring /\ ~HasReport /\ ~HasReport'
      BY <1>2, <2>1, <3>1 DEF HasReport
    <3>5. OrderInv' /\ PartInv'
      BY <1>0, <3>4 DEF OrderInv, PartInv
    <3> QED BY <3>2, <3>3, <3>5
  <2>2. CASE ring # <<>>
    <3>1. /\ read_pending' = TRUE /\ event' = TRUE /\ io' = "done"
          /\ buf' = Head(ring) /\ ring' = Tail(ring)
      BY <1>2, <2>2 DEF ReadFile
    <3>2. /\ Head(ring) \in 1..MaxReports /\ Tail(ring) \in Seq(1..MaxReports)
          /\ Len(Tail(ring)) <= RingSize
      BY <2>2, ConstantsAssumption DEF TypeOK
    <3>3. /\ ToSet(ring) = {Head(ring)} \cup ToSet(Tail(ring))
          /\ Increasing(Tail(ring))
          /\ \A x \in ToSet(Tail(ring)) : Head(ring) < x
      BY <2>2, HeldFacts, TailFacts DEF OrderInv
    <3>4. TypeOK'
      BY <1>0, <1>2, <3>1, <3>2, ConstantsAssumption DEF TypeOK
    <3>5. PlaceInv' /\ ReadInv' /\ EventInv'
      BY <1>0, <1>2, <3>1 DEF PlaceInv, ReadInv, EventInv
    <3>6. ~HasReport /\ HasReport' /\ sent \in Nat
      BY <1>2, <3>1, ConstantsAssumption DEF HasReport, TypeOK
    <3>7. Head(ring) \in 1..sent /\ Head(ring) \notin lost
      BY <3>3 DEF PartInv
    <3>8. OrderInv'
      BY <1>0, <3>1, <3>3, <3>6, <3>7 DEF OrderInv
    <3>9. PartInv'
      BY <1>0, <3>1, <3>3, <3>6, <3>7 DEF PartInv
    <3> QED BY <3>4, <3>5, <3>8, <3>9
  <2> QED BY <2>1, <2>2
<1>3. CASE ~read_pending /\ ReadFileFails /\ UNCHANGED ring
  <2>1. TypeOK'
    <3>1. Flags'
      BY <1>0, <1>3, ConstantsAssumption DEF Flags, TypeOK, ReadFileFails, Return
    <3>2. Values'
      BY <1>0, <1>3, ConstantsAssumption DEF Values, TypeOK, ReadFileFails, Return
    <3> QED BY <3>1, <3>2 DEF TypeOK, Flags, Values
  <2>2. PlaceInv' /\ ReadInv' /\ EventInv'
    BY <1>0, <1>3 DEF PlaceInv, ReadInv, EventInv, ReadFileFails, Return
  <2>3. ~HasReport /\ ~HasReport'
    BY <1>3 DEF HasReport, ReadFileFails
  <2>4. OrderInv' /\ PartInv'
    BY <1>0, <1>3, <2>3 DEF OrderInv, PartInv
  <2> QED BY <2>1, <2>2, <2>4
<1> QED BY <1>1, <1>2, <1>3 DEF ReadTimeout

LEMMA OpenCloseStep ==
  ASSUME IInv, HidOpenPath \/ HidClose
  PROVE  IInv'
<1> USE DEF IInv, handleVars, driverVars
<1>1. CASE HidOpenPath
  <2>1. TypeOK'
    <3>1. Flags'
      BY <1>1, ConstantsAssumption DEF Flags, TypeOK, HidOpenPath
    <3>2. Values'
      BY <1>1, ConstantsAssumption DEF Values, TypeOK, HidOpenPath
    <3> QED BY <3>1, <3>2 DEF TypeOK, Flags, Values
  <2>2. PlaceInv' /\ ReadInv' /\ EventInv'
    BY <1>1 DEF PlaceInv, ReadInv, EventInv, HidOpenPath
  <2>3. ~HasReport /\ ~HasReport'
    BY <1>1 DEF HasReport, PlaceInv, HidOpenPath
  <2>4. OrderInv' /\ PartInv'
    BY <1>1, <2>3 DEF OrderInv, PartInv, HidOpenPath
  <2> QED BY <2>1, <2>2, <2>4
<1>2. CASE HidClose
  <2>1. lost' = lost \cup ToSet(ring) \cup (IF HasReport THEN {buf} ELSE {})
    BY <1>2, HeldSet DEF HidClose
  <2>2. /\ pc' = "closed" /\ read_pending' = FALSE /\ io' = "none" /\ buf' = 0
        /\ event' = FALSE /\ ring' = <<>> /\ delivered' = delivered
        /\ sent' = sent /\ plugged' = plugged /\ UNCHANGED <<ms, ret, blocking>>
    BY <1>2 DEF HidClose
  <2>3. lost' \subseteq 1..sent /\ sent \in Nat
    BY <2>1, ConstantsAssumption DEF PartInv, TypeOK
  <2>4. TypeOK'
    <3>1. Flags'
      BY <2>2, <2>3 DEF Flags, TypeOK
    <3>2. ring' \in Seq(1..MaxReports) /\ Len(ring') <= RingSize
      BY <2>2, ConstantsAssumption
    <3>3. Values'
      BY <2>2, <2>3, <3>2, ConstantsAssumption DEF Values, TypeOK
    <3> QED BY <3>1, <3>3 DEF TypeOK, Flags, Values
  <2>5. PlaceInv' /\ ReadInv' /\ EventInv'
    BY <2>2 DEF PlaceInv, ReadInv, EventInv
  <2>6. ~HasReport'
    BY <2>2 DEF HasReport
  <2>7. OrderInv'
    BY <2>2, <2>6, EmptyFacts DEF OrderInv
  <2>8. lost' \cap delivered = {}
    <3>1. delivered \subseteq 1..sent
      BY DEF TypeOK
    <3>2. \A r \in delivered : r \notin ToSet(ring)
      BY <3>1, <2>3 DEF OrderInv
    <3>3. HasReport => buf \notin delivered
      BY <3>1, <2>3 DEF OrderInv
    <3> QED BY <2>1, <3>2, <3>3 DEF PartInv
  <2>9. PartInv'
    BY <2>1, <2>2, <2>6, <2>8, EmptyFacts DEF PartInv
  <2> QED BY <2>4, <2>5, <2>7, <2>9
<1> QED BY <1>1, <1>2

LEMMA WaitStep ==
  ASSUME IInv, WaitReturns \/ WaitTimesOut
  PROVE  IInv'
<1> USE DEF IInv, handleVars, driverVars
<1>1. TypeOK'
  <2>1. Flags'
    BY ConstantsAssumption DEF Flags, TypeOK, WaitReturns, WaitTimesOut, Return
  <2>2. /\ UNCHANGED <<blocking, delivered, read_pending, io, buf, driverVars>>
        /\ \/ pc' = "result" /\ UNCHANGED <<ms, ret>>
           \/ pc' = "idle" /\ ms' = 0 /\ ret' = 0
    BY DEF WaitReturns, WaitTimesOut, Return
  <2>3. Values'
    BY <2>2, ConstantsAssumption DEF Values, TypeOK
  <2> QED BY <2>1, <2>3 DEF TypeOK, Flags, Values
<1>2. PlaceInv' /\ ReadInv' /\ EventInv'
  BY DEF PlaceInv, ReadInv, EventInv, WaitReturns, WaitTimesOut, Return
<1>3. UNCHANGED <<read_pending, io, buf, ring, sent, delivered, lost>>
  BY DEF WaitReturns, WaitTimesOut
<1>4. OrderInv' /\ PartInv'
  BY <1>3 DEF OrderInv, PartInv, HasReport
<1> QED BY <1>1, <1>2, <1>4

LEMMA ResultStep ==
  ASSUME IInv, GetOverlappedResult
  PROVE  IInv'
<1> USE DEF IInv, handleVars, driverVars
<1>1. /\ pc = "result" /\ pc' = "idle" /\ read_pending /\ read_pending' = FALSE
      /\ ms' = 0 /\ io # "pending"
      /\ UNCHANGED <<blocking, io, buf, event, ring, plugged, sent, lost>>
  BY DEF GetOverlappedResult, PlaceInv, Return
<1>2. ~HasReport'
  BY <1>1 DEF HasReport
<1>3. PlaceInv' /\ ReadInv' /\ EventInv'
  BY <1>1 DEF PlaceInv, ReadInv, EventInv
<1>4. CASE io = "done"
  <2>1. HasReport /\ ret' = buf /\ delivered' = delivered \cup {buf}
    BY <1>1, <1>4 DEF HasReport, GetOverlappedResult, Return
  <2>2. TypeOK'
    <3>1. Flags'
      BY <1>1, <2>1, ConstantsAssumption DEF Flags, TypeOK, OrderInv
    <3>2. Values'
      BY <1>1, <2>1, ConstantsAssumption DEF Values, TypeOK, OrderInv
    <3> QED BY <3>1, <3>2 DEF TypeOK, Flags, Values
  <2>3. OrderInv' /\ PartInv'
    BY <1>1, <1>2, <2>1 DEF OrderInv, PartInv
  <2> QED BY <1>3, <2>2, <2>3
<1>5. CASE io # "done"
  <2>1. ~HasReport /\ ret' = -1 /\ delivered' = delivered
    BY <1>5 DEF HasReport, GetOverlappedResult, Return
  <2>2. TypeOK'
    <3>1. Flags'
      BY <1>1, <2>1, ConstantsAssumption DEF Flags, TypeOK
    <3>2. Values'
      BY <1>1, <2>1, ConstantsAssumption DEF Values, TypeOK
    <3> QED BY <3>1, <3>2 DEF TypeOK, Flags, Values
  <2>3. OrderInv' /\ PartInv'
    BY <1>1, <1>2, <2>1 DEF OrderInv, PartInv
  <2> QED BY <1>3, <2>2, <2>3
<1> QED BY <1>4, <1>5

LEMMA OtherCallStep ==
  ASSUME IInv, HidWrite \/ HidWriteReturns \/ HidSetNonblocking
  PROVE  IInv'
<1> USE DEF IInv, handleVars, driverVars
<1>1. TypeOK'
  BY DEF TypeOK, HidWrite, HidWriteReturns, HidSetNonblocking
<1>2. PlaceInv' /\ ReadInv' /\ EventInv'
  BY DEF PlaceInv, ReadInv, EventInv, HidWrite, HidWriteReturns, HidSetNonblocking
<1>3. UNCHANGED <<read_pending, io, buf, ring, sent, delivered, lost>>
  BY DEF HidWrite, HidWriteReturns, HidSetNonblocking
<1>4. OrderInv' /\ PartInv'
  BY <1>3 DEF OrderInv, PartInv, HasReport
<1> QED BY <1>1, <1>2, <1>4

\* A new report is newer than any other.
LEMMA DeviceSendStep ==
  ASSUME IInv, DeviceSend
  PROVE  IInv'
<1> USE DEF IInv, handleVars, driverVars
<1> DEFINE r == sent + 1
<1>0. /\ sent \in Nat /\ sent' = r /\ r \in 1..MaxReports
      /\ 1..sent' = 1..sent \cup {r} /\ r \notin 1..sent
      /\ UNCHANGED <<pc, ms, ret, blocking, delivered, plugged>>
      /\ ring \in Seq(Nat) /\ Len(ring) \in Nat
  <2>1. ring \in Seq(Nat) /\ Len(ring) \in Nat
    BY HeldFacts
  <2>2. sent \in Nat /\ sent' = r /\ r \in 1..MaxReports
    BY ConstantsAssumption DEF TypeOK, DeviceSend
  <2>3. UNCHANGED <<pc, ms, ret, blocking, delivered, plugged>>
    BY DEF DeviceSend
  <2> QED BY <2>1, <2>2, <2>3
<1>1. /\ ToSet(ring) \subseteq 1..sent /\ delivered \subseteq 1..sent
      /\ lost \subseteq 1..sent
  BY DEF PartInv
<1>2. \A x \in 1..sent : x < r /\ x # r
  BY <1>0
<1>3. CASE Complete("done", r) /\ UNCHANGED <<ring, lost>>
  <2>1. /\ io = "pending" /\ io' = "done" /\ buf' = r /\ event' = TRUE
        /\ read_pending /\ read_pending' /\ ring = <<>> /\ ring' = <<>>
        /\ lost' = lost
    BY <1>3 DEF Complete, ReadInv
  <2>2. TypeOK'
    BY <1>0, <1>1, <2>1, ConstantsAssumption DEF TypeOK
  <2>3. PlaceInv' /\ ReadInv' /\ EventInv'
    BY <1>0, <2>1 DEF PlaceInv, ReadInv, EventInv
  <2>4. ~HasReport /\ HasReport'
    BY <2>1 DEF HasReport
  <2>5. OrderInv'
    BY <1>0, <1>1, <1>2, <2>1, <2>4, EmptyFacts DEF OrderInv
  <2>6. PartInv'
    BY <1>0, <1>1, <1>2, <2>1, <2>4, EmptyFacts DEF PartInv
  <2> QED BY <2>2, <2>3, <2>5, <2>6
<1>4. CASE /\ io # "pending" /\ pc # "closed" /\ Len(ring) < RingSize
           /\ ring' = Append(ring, r) /\ UNCHANGED <<lost, handleVars>>
  <2>1. /\ ToSet(ring') = ToSet(ring) \cup {r} /\ Len(ring') = Len(ring) + 1
        /\ Increasing(ring')
    BY <1>0, <1>1, <1>2, <1>4, AppendFacts DEF OrderInv
  <2>2. ring' \in Seq(1..MaxReports)
    BY <1>0, <1>4 DEF TypeOK
  <2>3. TypeOK'
    BY <1>0, <1>1, <1>4, <2>1, <2>2, ConstantsAssumption DEF TypeOK
  <2>4. PlaceInv' /\ ReadInv' /\ EventInv'
    BY <1>0, <1>4 DEF PlaceInv, ReadInv, EventInv, HasReport
  <2>5. HasReport' = HasReport /\ buf' = buf
    BY <1>4 DEF HasReport
  <2>6. OrderInv'
    BY <1>0, <1>1, <1>2, <2>1, <2>5 DEF OrderInv
  <2>7. PartInv'
    BY <1>0, <1>1, <1>2, <1>4, <2>1, <2>5 DEF PartInv, OrderInv
  <2> QED BY <2>3, <2>4, <2>6, <2>7
<1>5. CASE /\ io # "pending" /\ pc # "closed" /\ ~(Len(ring) < RingSize)
           /\ ring' = Append(Tail(ring), r) /\ lost' = lost \cup {Head(ring)}
           /\ UNCHANGED handleVars
  <2>1. ring # <<>>
    BY <1>5, ConstantsAssumption, EmptyFacts
  <2>2. /\ Tail(ring) \in Seq(Nat) /\ Len(Tail(ring)) = Len(ring) - 1
        /\ ToSet(ring) = {Head(ring)} \cup ToSet(Tail(ring))
        /\ Increasing(Tail(ring)) /\ \A x \in ToSet(Tail(ring)) : Head(ring) < x
    BY <1>0, <2>1, TailFacts DEF OrderInv
  <2>3. /\ ToSet(ring') = ToSet(Tail(ring)) \cup {r}
        /\ Len(ring') = Len(Tail(ring)) + 1 /\ Increasing(ring')
    <3>1. \A x \in ToSet(Tail(ring)) : x < r
      BY <1>1, <1>2, <2>2
    <3>2. /\ ToSet(Append(Tail(ring), r)) = ToSet(Tail(ring)) \cup {r}
          /\ Len(Append(Tail(ring), r)) = Len(Tail(ring)) + 1
          /\ Increasing(Append(Tail(ring), r))
      <4>1. r \in Nat /\ Tail(ring) \in Seq(Nat) /\ Increasing(Tail(ring))
        BY <1>0, <2>2
      <4> HIDE DEF r
      <4> QED BY <3>1, <4>1, AppendFacts
    <3> QED BY <1>5, <3>2
  <2>4. ring' \in Seq(1..MaxReports)
    BY <1>0, <1>5, <2>1 DEF TypeOK
  <2>5. Head(ring) \in 1..sent /\ Head(ring) \notin ToSet(Tail(ring))
    BY <1>0, <1>1, <2>2
  <2>6. TypeOK'
    <3>1. Flags'
      BY <1>0, <1>1, <1>5, <2>2, <2>3, <2>4, <2>5, ConstantsAssumption DEF Flags, TypeOK
    <3>2. Len(ring') <= RingSize
      BY <1>0, <2>2, <2>3 DEF TypeOK
    <3>3. lost' \subseteq 1..sent' /\ delivered' \subseteq 1..sent'
      BY <1>0, <1>1, <1>5, <2>5
    <3>4. Values'
      BY <1>0, <1>5, <2>4, <3>2, <3>3, ConstantsAssumption DEF Values, TypeOK
    <3> QED BY <3>1, <3>4 DEF TypeOK, Flags, Values
  <2>7. PlaceInv' /\ ReadInv' /\ EventInv'
    BY <1>0, <1>5 DEF PlaceInv, ReadInv, EventInv, HasReport
  <2>8. HasReport' = HasReport /\ buf' = buf
    BY <1>5 DEF HasReport
  <2>9. OrderInv'
    BY <1>0, <1>1, <1>2, <2>2, <2>3, <2>8 DEF OrderInv
  <2>10. /\ Head(ring) \notin delivered
         /\ HasReport => Head(ring) # buf /\ r # buf
    BY <1>0, <1>1, <1>2, <2>2 DEF OrderInv
  <2>11. PartInv'
    BY <1>0, <1>1, <1>2, <1>5, <2>2, <2>3, <2>5, <2>8, <2>10 DEF PartInv
  <2> QED BY <2>6, <2>7, <2>9, <2>11
<1>6. CASE pc = "closed" /\ lost' = lost \cup {r} /\ UNCHANGED <<ring, handleVars>>
  <2>1. TypeOK'
    BY <1>0, <1>1, <1>6, ConstantsAssumption DEF TypeOK
  <2>2. PlaceInv' /\ ReadInv' /\ EventInv'
    BY <1>0, <1>6 DEF PlaceInv, ReadInv, EventInv, HasReport
  <2>3. ~HasReport /\ ~HasReport'
    BY <1>6 DEF HasReport, PlaceInv
  <2>4. OrderInv'
    BY <1>0, <1>6, <2>3 DEF OrderInv
  <2>5. PartInv'
    BY <1>0, <1>1, <1>2, <1>6, <2>3 DEF PartInv
  <2> QED BY <2>1, <2>2, <2>4, <2>5
<1> QED BY <1>3, <1>4, <1>5, <1>6 DEF DeviceSend

LEMMA BusStep ==
  ASSUME IInv, Unplug \/ ReadFails \/ Replug
  PROVE  IInv'
<1> USE DEF IInv, handleVars, driverVars
<1>1. CASE Unplug
  <2>1. /\ ring' = <<>> /\ lost' = lost \cup ToSet(ring) /\ plugged' = FALSE
        /\ UNCHANGED <<pc, ms, ret, blocking, delivered, handleVars, sent>>
    BY <1>1 DEF Unplug
  <2>2. sent \in Nat /\ lost' \subseteq 1..sent /\ delivered \subseteq 1..sent
    BY <2>1, ConstantsAssumption DEF PartInv, TypeOK
  <2>3. TypeOK'
    <3>1. Flags'
      BY <2>1, <2>2, ConstantsAssumption DEF Flags, TypeOK
    <3>2. Values'
      BY <2>1, <2>2, ConstantsAssumption DEF Values, TypeOK
    <3> QED BY <3>1, <3>2 DEF TypeOK, Flags, Values
  <2>4. PlaceInv' /\ ReadInv' /\ EventInv'
    BY <2>1 DEF PlaceInv, ReadInv, EventInv
  <2>5. HasReport' = HasReport /\ buf' = buf
    BY <2>1 DEF HasReport
  <2>6. OrderInv'
    BY <2>1, <2>5, EmptyFacts DEF OrderInv
  <2>7. /\ \A r \in delivered : r \notin ToSet(ring)
        /\ HasReport => buf \notin ToSet(ring)
    BY <2>2 DEF OrderInv
  <2>8. PartInv'
    BY <2>1, <2>5, <2>7, EmptyFacts DEF PartInv
  <2> QED BY <2>3, <2>4, <2>6, <2>8
<1>2. CASE ReadFails
  <2>1. /\ io = "pending" /\ io' = "failed" /\ buf' = 0 /\ event' = TRUE
        /\ read_pending /\ read_pending' = read_pending
        /\ UNCHANGED <<pc, ms, ret, blocking, delivered, driverVars>>
    BY <1>2 DEF ReadFails, Complete, ReadInv
  <2>2. TypeOK'
    BY <2>1, ConstantsAssumption DEF TypeOK
  <2>3. PlaceInv' /\ ReadInv' /\ EventInv'
    BY <2>1 DEF PlaceInv, ReadInv, EventInv
  <2>4. ~HasReport /\ ~HasReport'
    BY <2>1 DEF HasReport
  <2>5. OrderInv' /\ PartInv'
    BY <2>1, <2>4 DEF OrderInv, PartInv
  <2> QED BY <2>2, <2>3, <2>5
<1>3. CASE Replug
  <2>1. TypeOK' /\ PlaceInv' /\ ReadInv' /\ EventInv'
    BY <1>3 DEF Replug, TypeOK, PlaceInv, ReadInv, EventInv
  <2>2. UNCHANGED <<read_pending, io, buf, ring, sent, delivered, lost>>
    BY <1>3 DEF Replug
  <2>3. OrderInv' /\ PartInv'
    BY <2>2 DEF OrderInv, PartInv, HasReport
  <2> QED BY <2>1, <2>3
<1> QED BY <1>1, <1>2, <1>3

LEMMA InitInv == Init => IInv
<1> SUFFICES ASSUME Init PROVE IInv
  OBVIOUS
<1>1. TypeOK
  <2>1. Flags
    BY ConstantsAssumption, EmptyFacts DEF Flags, Init, TypeOK
  <2>2. Values
    BY ConstantsAssumption, EmptyFacts DEF Values, Init, TypeOK
  <2> QED BY <2>1, <2>2 DEF TypeOK, Flags, Values
<1>2. PlaceInv /\ ReadInv /\ EventInv
  BY DEF Init, PlaceInv, ReadInv, EventInv
<1>3. OrderInv /\ PartInv
  BY EmptyFacts DEF Init, OrderInv, PartInv, HasReport
<1> QED BY <1>1, <1>2, <1>3 DEF IInv

LEMMA InvStep == IInv /\ [Next]_vars => IInv'
<1> SUFFICES ASSUME IInv, [Next]_vars PROVE IInv'
  OBVIOUS
<1>1. CASE HidReadTimeout
  BY <1>1, ReadTimeoutStep DEF HidReadTimeout
<1>2. CASE HidRead
  BY <1>2, ReadTimeoutStep DEF HidRead
<1>3. CASE UNCHANGED vars
  <2>1. UNCHANGED <<pc, ms, ret, blocking, delivered, read_pending, io, buf,
                    event, ring, plugged, sent, lost>>
    BY <1>3 DEF vars, handleVars, driverVars
  <2>2. TypeOK' /\ PlaceInv' /\ ReadInv' /\ EventInv'
    BY <2>1 DEF IInv, TypeOK, PlaceInv, ReadInv, EventInv
  <2>3. OrderInv' /\ PartInv'
    BY <2>1 DEF IInv, OrderInv, PartInv, HasReport
  <2> QED BY <2>2, <2>3 DEF IInv
<1> QED BY <1>1, <1>2, <1>3, OpenCloseStep, WaitStep, ResultStep, OtherCallStep,
           DeviceSendStep, BusStep DEF Next, InsideRead

----------------------------------------------------------------------------

\* The invariant the theorems below rest on.
THEOREM Invariant == FairSpec => []IInv
BY InitInv, InvStep, PTL DEF FairSpec

\* Type correctness of hid-windows.c's handle: the ring's size included, and
\* the value a read returns.
THEOREM TypeCorrect == FairSpec => []TypeOK
<1>1. IInv => TypeOK
  BY DEF IInv
<1> QED BY <1>1, Invariant, PTL

\* Reads that time out, fail, join a pending read or are cut off by hid_close
\* neither lose a report nor return one twice or out of order.
THEOREM ReportsAccounted == FairSpec => []Accounted
BY Invariant, InvImpliesAccounted, PTL

\* hid_read_timeout returns 0 only when the read is pending and the driver
\* has nothing for it, because the event's signal survives between calls.
THEOREM NoDataMeansNothing == FairSpec => ZeroMeansNothing
<1>1. IInv /\ [Next]_vars =>
        [pc = "wait" /\ pc' = "idle" => Held = <<>> /\ io = "pending"]_vars
  <2> SUFFICES ASSUME IInv, Next, pc = "wait", pc' = "idle"
               PROVE  Held = <<>> /\ io = "pending"
    OBVIOUS
  <2>1. WaitTimesOut
    BY DEF Next, InsideRead, HidOpenPath, HidClose, HidReadTimeout, HidRead,
           ReadTimeout, WaitReturns, GetOverlappedResult, HidWrite,
           HidWriteReturns, HidSetNonblocking, DeviceSend, Unplug, ReadFails,
           Replug
  <2>2. read_pending /\ io = "pending" /\ ring = <<>>
    BY <2>1 DEF WaitTimesOut, IInv, PlaceInv, EventInv, ReadInv
  <2>3. Held = ring
    BY <2>2, HeldFacts DEF IInv, HasReport
  <2> QED BY <2>2, <2>3
<1> QED BY <1>1, Invariant, PTL DEF FairSpec, ZeroMeansNothing
=============================================================================
