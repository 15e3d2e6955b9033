----------------------------- MODULE ReportRuns -----------------------------
(***************************************************************************)
(* Lemmas about the queue of a hidapi handle, for the proofs about both    *)
(* HidLibusb and HidMac.  A run is a sequence of numbers without a gap: a  *)
(* queue that holds the reports up to the last one.                        *)
(***************************************************************************)
EXTENDS Integers, Sequences, TLAPS

\* What the first element and the tail of a queue are.
LEMMA TailIndex ==
  ASSUME NEW N \in Nat, NEW q \in Seq(1..N), q # <<>>
  PROVE  /\ Len(q) \in Nat /\ Len(q) > 0
         /\ Head(q) = q[1] /\ Head(q) \in 1..N
         /\ Tail(q) \in Seq(1..N)
         /\ Len(Tail(q)) = Len(q) - 1
         /\ \A i \in 1..Len(q) - 1 : Tail(q)[i] = q[i + 1]
OBVIOUS

\* Taking the oldest element leaves the run of those after it.
LEMMA TailRun ==
  ASSUME NEW N \in Nat, NEW q \in Seq(1..N), q # <<>>, NEW last \in Nat,
         \A i \in 1..Len(q) : q[i] = last - Len(q) + i
  PROVE  /\ Head(q) \in 1..N /\ Head(q) <= last
         /\ Tail(q) \in Seq(1..N) /\ Len(Tail(q)) = Len(q) - 1
         /\ \A i \in 1..Len(Tail(q)) :
              Tail(q)[i] = last - Len(Tail(q)) + i /\ Head(q) < Tail(q)[i]
<1>1. Len(q) \in Nat /\ Len(q) > 0 /\ Head(q) = q[1] /\ Head(q) \in 1..N
  BY TailIndex
<1>2. Head(q) = last - Len(q) + 1
  BY <1>1
<1>3. /\ Tail(q) \in Seq(1..N) /\ Len(Tail(q)) = Len(q) - 1
      /\ \A i \in 1..Len(Tail(q)) : Tail(q)[i] = q[i + 1]
  BY <1>1, TailIndex
<1>. QED
  BY <1>1, <1>2, <1>3

\* With a run up to r - 1 in the queue, adding r extends the run to r, whether
\* or not the oldest element is dropped.
LEMMA ArrivalRun ==
  ASSUME NEW N \in Nat, NEW q \in Seq(1..N), NEW r \in 1..N, NEW g \in Nat,
         g < r,
         \A i \in 1..Len(q) : q[i] = (r - 1) - Len(q) + i /\ g < q[i],
         NEW p, p = Append(q, r) \/ p = Tail(Append(q, r))
  PROVE  \A i \in 1..Len(p) : p[i] = r - Len(p) + i /\ g < p[i]
<1>. DEFINE a == Append(q, r)
<1>1. /\ a \in Seq(1..N) /\ Len(a) = Len(q) + 1 /\ a # <<>>
      /\ \A i \in 1..Len(a) : a[i] = r - Len(a) + i /\ g < a[i]
  <2>1. /\ a \in Seq(1..N) /\ Len(a) = Len(q) + 1 /\ a # <<>>
        /\ Len(q) \in Nat /\ a[Len(q) + 1] = r
    OBVIOUS
  <2>2. \A i \in 1..Len(q) : a[i] = q[i]
    OBVIOUS
  <2>3. \A i \in 1..Len(q) : a[i] = r - (Len(q) + 1) + i /\ g < a[i]
    <3>. SUFFICES ASSUME NEW i \in 1..Len(q)
                  PROVE  a[i] = r - (Len(q) + 1) + i /\ g < a[i]
      OBVIOUS
    <3>1. a[i] = q[i] /\ q[i] = (r - 1) - Len(q) + i /\ g < q[i]
      BY <2>2
    <3>. QED
      BY <2>1, <3>1
  <2>. HIDE DEF a
  <2>4. ASSUME NEW i \in 1..Len(a) PROVE a[i] = r - Len(a) + i /\ g < a[i]
    <3>1. i \in 1..Len(q) \/ i = Len(q) + 1
      BY <2>1
    <3>2. CASE i \in 1..Len(q)
      <4>1. a[i] = r - (Len(q) + 1) + i /\ g < a[i]
        BY <2>3, <3>2
      <4>. QED
        BY <2>1, <4>1
    <3>3. CASE i = Len(q) + 1
      BY <2>1, <3>3
    <3>. QED
      BY <3>1, <3>2, <3>3
  <2>. QED
    BY <2>1, <2>4
<1>2. p = a \/ p = Tail(a)
  OBVIOUS
<1>. HIDE DEF a
<1>3. ASSUME p = Tail(a), NEW i \in 1..Len(p)
      PROVE  p[i] = r - Len(p) + i /\ g < p[i]
  <2>1. /\ Len(a) \in Nat /\ Len(a) > 0 /\ Len(p) = Len(a) - 1
        /\ \A j \in 1..Len(a) - 1 : p[j] = a[j + 1]
    BY <1>1, <1>3, TailIndex
  <2>2. i + 1 \in 1..Len(a)
    BY <2>1
  <2>3. a[i + 1] = r - Len(a) + (i + 1) /\ g < a[i + 1]
    BY <1>1, <2>2
  <2>. QED
    BY <2>1, <2>3
<1>. QED
  BY <1>1, <1>2, <1>3

=============================================================================
