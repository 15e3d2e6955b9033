--------------------------- MODULE FcdFlashProofs ---------------------------
(***************************************************************************)
(* Proofs about FcdFlash, for any number of dongles, any ranges and sizes, *)
(* any width of an unsigned int and any set of faults.                     *)
(***************************************************************************)
EXTENDS FcdFlash, TLAPS

IInv == /\ TypeOK /\ PlaceInv /\ RangeInv /\ LoopInv /\ VerifyInv
        /\ PassedHasAllBlocks
        /\ Alone => BlockInv /\ WholeInv /\ PassedIsProgrammed

\* What the size and the ranges are, spelled out.
LEMMA Numbers ==
  ASSUME TypeOK, NEW d \in Dongles
  PROVE  /\ range[d][1] \in 0..(Word - 1) /\ range[d][2] \in 0..(Word - 1)
         /\ SizeArg \in 0..(Word - 1) /\ SizeArg <= size /\ size \in Nat
<1>1. range[d] \in (0..(Word - 1)) \X (0..(Word - 1))
  BY FlashAssumption DEF TypeOK
<1>2. size \in Nat /\ Word \in Nat \ {0}
  BY FlashAssumption DEF TypeOK
<1>3. size % Word \in 0..(Word - 1) /\ size % Word <= size
  BY <1>2
<1> QED BY <1>1, <1>2, <1>3 DEF SizeArg

\* The result, the place and the history a part of funcube_flash leaves.
LEMMA ContinueType ==
  ASSUME TypeOK, NEW j, Continue(j)
  PROVE  /\ pc' \in {"next", "erase", "range"} /\ phase' = phase
         /\ job' \in {"open", "erase", "write", "verify"}
         /\ result' \in -6..1 /\ passed' \subseteq Dongles
BY DEF TypeOK, Continue, Begin, Finish, outcome

LEMMA FinishType ==
  ASSUME TypeOK, NEW r \in -6..1, Finish(r)
  PROVE  /\ pc' = "next" /\ phase' = phase /\ job' = job
         /\ result' \in -6..1 /\ passed' \subseteq Dongles
BY DEF TypeOK, Finish

\* The contents of the flash keep their type when one dongle gets new ones.
LEMMA FlashType ==
  ASSUME TypeOK, NEW d \in Dongles,
         NEW new \in [Blocks(range[d]) ->
                      Blocks(range[d]) \cup {Old, Blank, Junk}],
         range' = range, flash' = [flash EXCEPT ![d] = new]
  PROVE  /\ \A e \in Dongles : flash'[e] \in
              [Blocks(range'[e]) -> Blocks(range'[e]) \cup {Old, Blank, Junk}]
         /\ flash' = [e \in Dongles |-> flash'[e]]
BY DEF TypeOK

\* Every step keeps the types.
LEMMA TypeStep ==
  ASSUME TypeOK, RangeInv, LoopInv, [Next]_vars
  PROVE  TypeOK'
<1> USE DEF args, place, list, locals, outcome, bus, memory, Flashing
<1> DEFINE LocalsOK == {start', end', addr'} \subseteq 0..(Word - 1)
<1>0. ASSUME \/ Dropped \/ UNCHANGED locals
             \/ addr' \in 0..(Word - 1) /\ UNCHANGED <<start, end>>
      PROVE  LocalsOK
  BY <1>0, FlashAssumption DEF TypeOK, Dropped
<1>1. CASE Enumerate
  BY <1>1 DEF TypeOK, Enumerate, Present
<1>2. CASE ForEach
  BY <1>2 DEF TypeOK, ForEach, Present
<1>3. CASE ForEachReturn
  BY <1>3 DEF TypeOK, ForEachReturn, AfterFlash, Present
<1>4. CASE Reset
  BY <1>4 DEF TypeOK, Reset, Leave, Present
<1>5. CASE Sleep
  BY <1>5 DEF TypeOK, Sleep, Present
<1>6. CASE Open
  <2>1. CASE Continue("open")
    BY <1>6, <2>1, ContinueType DEF TypeOK, Open, Present
  <2>2. CASE Finish(-1)
    BY <1>6, <2>2, FinishType DEF TypeOK, Open, Present
  <2> QED BY <1>6, <2>1, <2>2 DEF Open
<1>7. CASE Erase
  <2>1. /\ pc' \in {"next", "erase", "range"} /\ phase' = phase
        /\ job' \in {"open", "erase", "write", "verify"}
        /\ result' \in -6..1 /\ passed' \subseteq Dongles
    BY <1>7, ContinueType, FinishType DEF Erase, TypeOK
  <2>2. /\ \A e \in Dongles : flash'[e] \in
              [Blocks(range'[e]) -> Blocks(range'[e]) \cup {Old, Blank, Junk}]
        /\ flash' = [e \in Dongles |-> flash'[e]]
    <3>1. CASE UNCHANGED flash
      BY <1>7, <3>1 DEF TypeOK, Erase
    <3>2. CASE flash' = [flash EXCEPT ![cur] = Filled(range[cur], Blank)]
      <4>1. Filled(range[cur], Blank) \in
              [Blocks(range[cur]) -> Blocks(range[cur]) \cup {Old, Blank, Junk}]
        BY DEF Filled
      <4>2. cur \in Dongles /\ range' = range
        BY <1>7 DEF TypeOK, Erase
      <4> QED BY <3>2, <4>1, <4>2, FlashType
    <3> QED BY <1>7, <3>1, <3>2 DEF Erase
  <2> QED BY <1>7, <2>1, <2>2 DEF TypeOK, Erase, Present
<1>8. CASE GetRange
  <2>1. /\ start' \in 0..(Word - 1) /\ end' \in 0..(Word - 1) /\ addr' = addr
    BY <1>8, Numbers DEF TypeOK, GetRange
  <2>2. /\ pc' \in {"next", "address"} /\ phase' = phase
        /\ job' \in {"open", "erase", "write", "verify"}
        /\ result' \in -6..1 /\ passed' \subseteq Dongles
    <3>1. \/ Finish(-1) \/ Finish(-2) \/ Finish(-3)
          \/ pc' = "address" /\ UNCHANGED <<phase, job, outcome>>
      BY <1>8 DEF GetRange
    <3>2. ASSUME NEW r \in -6..1, Finish(r)
          PROVE  /\ pc' = "next" /\ phase' = phase
                 /\ job' \in {"open", "erase", "write", "verify"}
                 /\ result' \in -6..1 /\ passed' \subseteq Dongles
      BY <3>2, FinishType DEF TypeOK
    <3> QED BY <3>1, <3>2 DEF TypeOK
  <2> QED BY <1>8, <2>1, <2>2 DEF TypeOK, GetRange, Present
<1>9. CASE SetAddress
  <2>1. /\ pc' \in {"next", "block"} /\ phase' = phase
        /\ job' \in {"open", "erase", "write", "verify"}
        /\ result' \in -6..1 /\ passed' \subseteq Dongles
    <3>1. \/ Finish(-4)
          \/ pc' = "block" /\ UNCHANGED <<phase, job, outcome>>
      BY <1>9 DEF SetAddress
    <3>2. ASSUME NEW r \in -6..1, Finish(r)
          PROVE  /\ pc' = "next" /\ phase' = phase
                 /\ job' \in {"open", "erase", "write", "verify"}
                 /\ result' \in -6..1 /\ passed' \subseteq Dongles
      BY <3>2, FinishType DEF TypeOK
    <3> QED BY <3>1, <3>2 DEF TypeOK
  <2>2. pointer' \in [Dongles -> 0..(Word - 1)] /\ LocalsOK
    <3>1. Dropped \/ (addr' \in 0..(Word - 1) /\ UNCHANGED <<start, end>>)
      BY <1>9 DEF SetAddress, TypeOK
    <3>2. pointer' \in [Dongles -> 0..(Word - 1)]
      BY <1>9 DEF SetAddress, TypeOK
    <3> QED BY <1>0, <3>1, <3>2
  <2> QED BY <1>9, <2>1, <2>2 DEF TypeOK, SetAddress, Present
<1>10. CASE LoopEnd
  <2>1. LocalsOK
    BY <1>0, <1>10 DEF LoopEnd
  <2> QED BY <1>10, <2>1, ContinueType DEF TypeOK, LoopEnd, Present
<1>11. ASSUME NEW n \in 0..(Word - 1)
       PROVE  (n + 48) % Word \in 0..(Word - 1)
  BY FlashAssumption
<1>12. CASE WriteBlock
  <2>1. /\ pc' \in {"next", "block"} /\ phase' = phase
        /\ job' \in {"open", "erase", "write", "verify"}
        /\ result' \in -6..1 /\ passed' \subseteq Dongles
    <3>1. \/ Finish(-5)
          \/ pc' = "block" /\ UNCHANGED <<phase, job, outcome>>
      BY <1>12 DEF WriteBlock, NextBlock
    <3>2. ASSUME NEW r \in -6..1, Finish(r)
          PROVE  /\ pc' = "next" /\ phase' = phase
                 /\ job' \in {"open", "erase", "write", "verify"}
                 /\ result' \in -6..1 /\ passed' \subseteq Dongles
      BY <3>2, FinishType DEF TypeOK
    <3> QED BY <3>1, <3>2 DEF TypeOK
  <2>2. pointer' \in [Dongles -> 0..(Word - 1)] /\ LocalsOK
    <3>1. (addr + 48) % Word \in 0..(Word - 1)
      BY <1>11 DEF TypeOK
    <3>2. (pointer[cur] + 48) % Word \in 0..(Word - 1)
      BY <1>11 DEF TypeOK
    <3>3. Dropped \/ (addr' \in 0..(Word - 1) /\ UNCHANGED <<start, end>>)
      BY <1>12, <3>1 DEF WriteBlock, NextBlock
    <3>4. pointer' \in [Dongles -> 0..(Word - 1)]
      BY <1>12, <3>2 DEF WriteBlock, Advance, TypeOK
    <3> QED BY <1>0, <3>3, <3>4
  <2>3. /\ \A e \in Dongles : flash'[e] \in
              [Blocks(range'[e]) -> Blocks(range'[e]) \cup {Old, Blank, Junk}]
        /\ flash' = [e \in Dongles |-> flash'[e]]
    <3> DEFINE p == pointer[cur]
    <3>1. CASE UNCHANGED flash
      BY <1>12, <3>1 DEF TypeOK, WriteBlock
    <3>2. CASE /\ p \in Blocks(range[cur])
               /\ \E c \in Programmed(flash[cur][p], addr) :
                    flash' = [flash EXCEPT ![cur][p] = c]
      <4>1. p \in Blocks(range[cur]) /\ cur \in Dongles /\ range' = range
        BY <1>12, <3>2 DEF WriteBlock, TypeOK
      <4>2. PICK c \in Programmed(flash[cur][p], addr) :
                 flash' = [flash EXCEPT ![cur][p] = c]
        BY <3>2
      <4>3. c \in Blocks(range[cur]) \cup {Old, Blank, Junk}
        <5>1. addr \in Blocks(range[cur])
          BY <1>12, Numbers DEF WriteBlock, More, RangeInv, LoopInv, Blocks, TypeOK
        <5> QED BY <4>2, <5>1 DEF Programmed
      <4>4. [flash[cur] EXCEPT ![p] = c] \in
              [Blocks(range[cur]) -> Blocks(range[cur]) \cup {Old, Blank, Junk}]
        BY <4>1, <4>3 DEF TypeOK
      <4>5. flash' = [flash EXCEPT ![cur] = [flash[cur] EXCEPT ![p] = c]]
        BY <4>2
      <4> QED BY <4>1, <4>4, <4>5, FlashType
    <3> QED BY <1>12, <3>1, <3>2 DEF WriteBlock
  <2> QED BY <1>12, <2>1, <2>2, <2>3 DEF TypeOK, WriteBlock, Present
<1>13. CASE VerifyBlock
  <2>1. /\ pc' \in {"next", "block"} /\ phase' = phase
        /\ job' \in {"open", "erase", "write", "verify"}
        /\ result' \in -6..1 /\ passed' \subseteq Dongles
    <3>1. \/ Finish(-6) \/ Finish(1)
          \/ pc' = "block" /\ UNCHANGED <<phase, job, outcome>>
      BY <1>13 DEF VerifyBlock, NextBlock
    <3>2. ASSUME NEW r \in -6..1, Finish(r)
          PROVE  /\ pc' = "next" /\ phase' = phase
                 /\ job' \in {"open", "erase", "write", "verify"}
                 /\ result' \in -6..1 /\ passed' \subseteq Dongles
      BY <3>2, FinishType DEF TypeOK
    <3> QED BY <3>1, <3>2 DEF TypeOK
  <2>2. pointer' \in [Dongles -> 0..(Word - 1)] /\ LocalsOK
    <3>1. (addr + 48) % Word \in 0..(Word - 1)
      BY <1>11 DEF TypeOK
    <3>2. (pointer[cur] + 48) % Word \in 0..(Word - 1)
      BY <1>11 DEF TypeOK
    <3>3. Dropped \/ (addr' \in 0..(Word - 1) /\ UNCHANGED <<start, end>>)
      BY <1>13, <3>1 DEF VerifyBlock, NextBlock
    <3>4. pointer' \in [Dongles -> 0..(Word - 1)]
      BY <1>13, <3>2 DEF VerifyBlock, Advance, TypeOK
    <3> QED BY <1>0, <3>3, <3>4
  <2> QED BY <1>13, <2>1, <2>2 DEF TypeOK, VerifyBlock, Present
<1>14. ASSUME NEW d \in Dongles, Reconnect(d)
       PROVE  TypeOK'
  BY <1>14, FlashAssumption DEF TypeOK, Reconnect, Reconnecting, Present
<1>15. ASSUME NEW d \in Dongles, Unplug(d)
       PROVE  TypeOK'
  BY <1>15 DEF TypeOK, Unplug, Leave, Present
<1>16. CASE FcdSetsAddress \/ FcdReadsBlock
  <2>1. pointer' \in [Dongles -> 0..(Word - 1)]
    BY <1>11, <1>16, Numbers DEF TypeOK, FcdSetsAddress, FcdReadsBlock, Advance
  <2> QED BY <1>16, <2>1 DEF TypeOK, FcdSetsAddress, FcdReadsBlock, Present
<1>17. CASE UNCHANGED vars
  BY <1>17 DEF TypeOK, vars, Present
<1> QED
  BY <1>1, <1>2, <1>3, <1>4, <1>5, <1>6, <1>7, <1>8, <1>9, <1>10, <1>12,
     <1>13, <1>14, <1>15, <1>16, <1>17 DEF Next, ProgramStep, Exited

\* Once part j of the flashing succeeded, the place is in order again.
LEMMA PlaceContinue ==
  ASSUME TypeOK, PlaceInv, pc = "open" \/ Working, NEW j, Continue(j),
         UNCHANGED <<acts, list>>
  PROVE  PlaceInv'
<1> USE DEF PlaceInv, Working, list, outcome
<1>1. ASSUME NEW k \in {"erase", "write", "verify"}, k \in acts, Begin(k)
      PROVE  PlaceInv'
  BY <1>1 DEF Begin
<1>2. CASE Finish(0)
  BY <1>2 DEF Finish
<1> QED BY <1>1, <1>2 DEF Continue

\* The same when a part failed.
LEMMA PlaceFinish ==
  ASSUME TypeOK, PlaceInv, pc = "open" \/ Working, NEW r \in -6..1, Finish(r),
         UNCHANGED <<acts, list>>
  PROVE  PlaceInv'
BY DEF PlaceInv, Working, list, outcome, Finish

\* Every step keeps the places in order.
LEMMA PlaceStep ==
  ASSUME TypeOK, PlaceInv, [Next]_vars
  PROVE  PlaceInv'
<1> USE DEF args, place, list, locals, outcome, bus, memory, Flashing
<1>1. CASE Enumerate
  BY <1>1 DEF PlaceInv, Working, Enumerate
<1>2. CASE ForEach
  BY <1>2 DEF PlaceInv, Working, ForEach, Break
<1>3. CASE ForEachReturn
  BY <1>3 DEF PlaceInv, Working, ForEachReturn, AfterFlash
<1>4. CASE Reset
  BY <1>4 DEF PlaceInv, Working, Reset
<1>5. CASE Sleep
  BY <1>5 DEF PlaceInv, Working, Sleep
<1>6. ASSUME pc = "open" \/ Working, UNCHANGED <<acts, list>>,
             \/ \E j \in {"open", "erase", "write", "verify"} : Continue(j)
             \/ \E r \in -6..1 : Finish(r)
      PROVE  PlaceInv'
  BY <1>6, PlaceContinue, PlaceFinish
<1>7. CASE Open
  <2>1. Continue("open") \/ Finish(-1)
    BY <1>7 DEF Open
  <2> QED BY <1>6, <1>7, <2>1 DEF Open
<1>8. CASE Erase
  <2>1. Continue("erase") \/ Finish(-1)
    BY <1>8 DEF Erase
  <2> QED BY <1>6, <1>8, <2>1 DEF Erase, Working
<1>9. CASE GetRange
  <2>1. \/ Finish(-1) \/ Finish(-2) \/ Finish(-3)
        \/ pc' = "address" /\ UNCHANGED <<phase, job, outcome>>
    BY <1>9 DEF GetRange
  <2>2. CASE pc' = "address" /\ UNCHANGED <<phase, job, outcome>>
    BY <1>9, <2>2 DEF GetRange, PlaceInv, Working
  <2> QED BY <1>6, <1>9, <2>1, <2>2 DEF GetRange, Working
<1>10. CASE SetAddress
  <2>1. Finish(-4) \/ (pc' = "block" /\ UNCHANGED <<phase, job, outcome>>)
    BY <1>10 DEF SetAddress
  <2>2. CASE pc' = "block" /\ UNCHANGED <<phase, job, outcome>>
    BY <1>10, <2>2 DEF SetAddress, PlaceInv, Working
  <2> QED BY <1>6, <1>10, <2>1, <2>2 DEF SetAddress, Working
<1>11. CASE LoopEnd
  BY <1>6, <1>11 DEF LoopEnd, Working, TypeOK
<1>12. CASE WriteBlock
  <2>1. Finish(-5) \/ UNCHANGED <<place, outcome>>
    BY <1>12 DEF WriteBlock, NextBlock
  <2>2. CASE UNCHANGED <<place, outcome>>
    BY <1>12, <2>2 DEF WriteBlock, PlaceInv, Working
  <2> QED BY <1>6, <1>12, <2>1, <2>2 DEF WriteBlock, Working
<1>13. CASE VerifyBlock
  <2>1. Finish(-6) \/ Finish(1) \/ UNCHANGED <<place, outcome>>
    BY <1>13 DEF VerifyBlock, NextBlock
  <2>2. CASE UNCHANGED <<place, outcome>>
    BY <1>13, <2>2 DEF VerifyBlock, PlaceInv, Working
  <2> QED BY <1>6, <1>13, <2>1, <2>2 DEF VerifyBlock, Working
<1>14. ASSUME NEW d \in Dongles, Reconnect(d)
       PROVE  PlaceInv'
  BY <1>14 DEF Reconnect, PlaceInv, Working
<1>15. ASSUME NEW d \in Dongles, Unplug(d)
       PROVE  PlaceInv'
  BY <1>15 DEF Unplug, PlaceInv, Working
<1>16. CASE FcdSetsAddress \/ FcdReadsBlock
  BY <1>16 DEF FcdSetsAddress, FcdReadsBlock, PlaceInv, Working
<1>17. CASE UNCHANGED vars
  BY <1>17 DEF vars, PlaceInv, Working
<1> QED
  BY <1>1, <1>2, <1>3, <1>4, <1>5, <1>7, <1>8, <1>9, <1>10, <1>11, <1>12,
     <1>13, <1>14, <1>15, <1>16, <1>17 DEF Next, ProgramStep, Exited

\* A part of funcube_flash that goes on or returns leaves both loops.
LEMMA Leaves ==
  ASSUME NEW j, NEW r, Continue(j) \/ Finish(r)
  PROVE  pc' \in {"next", "erase", "range"}
BY DEF Continue, Begin, Finish

\* Every step keeps what is known of the range.
LEMMA RangeStep ==
  ASSUME TypeOK, RangeInv, [Next]_vars
  PROVE  RangeInv'
<1> USE DEF args, place, list, locals, outcome, bus, memory, Flashing
<1>1. ASSUME pc' \notin {"address", "block"}
      PROVE  RangeInv'
  BY <1>1 DEF RangeInv
<1>2. ASSUME pc \in {"address", "block"}, UNCHANGED <<cur, range, size, start, end>>
      PROVE  RangeInv'
  BY <1>2 DEF RangeInv, SizeArg
<1>3. CASE Enumerate \/ ForEach \/ Reset
  BY <1>1, <1>3 DEF Enumerate, ForEach, Reset
<1>4. CASE ForEachReturn \/ Sleep
  BY <1>1, <1>4 DEF ForEachReturn, AfterFlash, Sleep
<1>5. CASE Open \/ Erase \/ LoopEnd
  <2>1. (\E j : Continue(j)) \/ (\E r : Finish(r))
    BY <1>5 DEF Open, Erase, LoopEnd
  <2> QED BY <1>1, <2>1, Leaves
<1>6. CASE GetRange
  <2>1. CASE \E r : Finish(r)
    BY <1>1, <2>1, Leaves
  <2>2. CASE /\ start' = range[cur][1] /\ end' = range[cur][2]
             /\ Sane(range[cur]) /\ range[cur][2] <= SizeArg
    BY <1>6, <2>2 DEF GetRange, RangeInv, Sane, SizeArg
  <2> QED BY <1>6, <2>1, <2>2 DEF GetRange
<1>7. CASE SetAddress
  <2>1. (\E r : Finish(r)) \/ UNCHANGED <<start, end>>
    BY <1>7 DEF SetAddress
  <2> QED BY <1>1, <1>2, <1>7, <2>1, Leaves DEF SetAddress
<1>8. CASE WriteBlock \/ VerifyBlock
  <2>1. (\E r : Finish(r)) \/ NextBlock
    BY <1>8 DEF WriteBlock, VerifyBlock
  <2>2. CASE NextBlock
    BY <1>2, <1>8, <2>2 DEF WriteBlock, VerifyBlock, NextBlock
  <2> QED BY <1>1, <2>1, <2>2, Leaves
<1>9. CASE FcdSetsAddress \/ FcdReadsBlock
  BY <1>2, <1>9 DEF FcdSetsAddress, FcdReadsBlock, Beside
<1>10. ASSUME NEW d \in Dongles, Reconnect(d) \/ Unplug(d)
       PROVE  RangeInv'
  BY <1>10 DEF Reconnect, Unplug, RangeInv, SizeArg
<1>11. CASE UNCHANGED vars
  BY <1>11 DEF vars, RangeInv, SizeArg
<1> QED
  BY <1>3, <1>4, <1>5, <1>6, <1>7, <1>8, <1>9, <1>10, <1>11
  DEF Next, ProgramStep, Exited

\* One turn of a loop: addr is a block of the dongle, the next one is at most
\* the end, and no addition wraps.
LEMMA OneBlock ==
  ASSUME TypeOK, RangeInv, LoopInv, pc = "block", More
  PROVE  /\ addr \in Blocks(range[cur])
         /\ (addr + 48) % Word = addr + 48
         /\ addr + 48 <= end
         /\ (addr + 48 - start) % 48 = 0
         /\ \A a \in Blocks(range[cur]) : a < addr + 48 => a <= addr
<1>1. /\ start \in Nat /\ end \in Nat /\ addr \in Nat /\ Word \in Nat \ {0}
      /\ end < Word /\ cur \in Dongles
  BY FlashAssumption DEF TypeOK
<1>2. /\ (end - start) % 48 = 0 /\ (addr - start) % 48 = 0
      /\ start <= addr /\ addr < end
      /\ start = range[cur][1] /\ end = range[cur][2]
  BY DEF RangeInv, LoopInv, More
<1>3. addr + 48 <= end
  BY <1>1, <1>2
<1>4. (addr + 48 - start) % 48 = 0
  BY <1>1, <1>2
<1>5. addr \in Blocks(range[cur])
  BY <1>1, <1>2 DEF Blocks
<1>6. (addr + 48) % Word = addr + 48
  BY <1>1, <1>3
<1>7. ASSUME NEW a \in Blocks(range[cur]), a < addr + 48
      PROVE  a <= addr
  <2>1. a \in Nat /\ (a - start) % 48 = 0
    BY <1>1, <1>2, <1>7 DEF Blocks
  <2> QED BY <1>1, <1>2, <1>7, <2>1
<1> QED BY <1>3, <1>4, <1>5, <1>6, <1>7

\* Every step keeps addr on a block, and within the range.
LEMMA LoopStep ==
  ASSUME TypeOK, TypeOK', RangeInv, LoopInv, [Next]_vars
  PROVE  LoopInv'
<1> USE DEF args, place, list, locals, outcome, bus, memory, Flashing
<1>1. ASSUME pc' # "block"
      PROVE  LoopInv'
  BY <1>1 DEF LoopInv
<1>2. ASSUME pc' = pc, UNCHANGED locals
      PROVE  LoopInv'
  BY <1>2 DEF LoopInv
<1>3. ASSUME pc = "block", More, NextBlock
      PROVE  LoopInv'
  <2>1. addr' = addr + 48 /\ UNCHANGED <<start, end>>
    BY <1>3, OneBlock DEF NextBlock
  <2>2. addr \in Nat /\ start \in Nat /\ start <= addr
    BY <1>3 DEF TypeOK, LoopInv
  <2> QED BY <1>3, <2>1, <2>2, OneBlock DEF LoopInv
<1>4. CASE Enumerate \/ ForEach \/ Reset \/ ForEachReturn \/ Sleep
  BY <1>1, <1>4 DEF Enumerate, ForEach, Reset, ForEachReturn, AfterFlash, Sleep
<1>5. CASE Open \/ Erase \/ LoopEnd
  <2>1. (\E j : Continue(j)) \/ (\E r : Finish(r))
    BY <1>5 DEF Open, Erase, LoopEnd
  <2> QED BY <1>1, <2>1, Leaves
<1>6. CASE GetRange
  <2>1. (\E r : Finish(r)) \/ pc' = "address"
    BY <1>6 DEF GetRange
  <2> QED BY <1>1, <2>1, Leaves
<1>7. CASE SetAddress
  <2>1. CASE \E r : Finish(r)
    BY <1>1, <2>1, Leaves
  <2>2. CASE addr' = start /\ UNCHANGED <<start, end>> /\ pc = "address"
    <3>1. start \in Nat /\ end \in Nat /\ start < end
      BY <2>2 DEF TypeOK, RangeInv
    <3> QED BY <2>2, <3>1 DEF LoopInv
  <2> QED BY <1>7, <2>1, <2>2 DEF SetAddress
<1>8. CASE WriteBlock \/ VerifyBlock
  <2>1. (\E r : Finish(r)) \/ (NextBlock /\ pc = "block" /\ More)
    BY <1>8 DEF WriteBlock, VerifyBlock
  <2> QED BY <1>1, <1>3, <2>1, Leaves
<1>9. CASE FcdSetsAddress \/ FcdReadsBlock
  BY <1>2, <1>9 DEF FcdSetsAddress, FcdReadsBlock
<1>10. ASSUME NEW d \in Dongles, Reconnect(d) \/ Unplug(d)
       PROVE  LoopInv'
  BY <1>2, <1>10 DEF Reconnect, Unplug
<1>11. CASE UNCHANGED vars
  BY <1>2, <1>11 DEF vars
<1> QED
  BY <1>4, <1>5, <1>6, <1>7, <1>8, <1>9, <1>10, <1>11
  DEF Next, ProgramStep, Exited

\* Every step keeps the blocks verification went past somewhere in the flash,
\* wherever the bootloader's pointer is: the flash stays as it is meanwhile.
LEMMA VerifyStep ==
  ASSUME TypeOK, RangeInv, LoopInv, VerifyInv, [Next]_vars
  PROVE  VerifyInv'
<1> USE DEF args, place, list, locals, outcome, bus, memory, Flashing
<1>1. ASSUME pc' # "block" \/ job' # "verify"
      PROVE  VerifyInv'
  BY <1>1 DEF VerifyInv
<1>2. ASSUME pc' = pc, job' = job, UNCHANGED <<addr, cur, range, flash>>
      PROVE  VerifyInv'
  BY <1>2 DEF VerifyInv, Held
<1>3. CASE Enumerate \/ ForEach \/ Reset \/ ForEachReturn \/ Sleep
  BY <1>1, <1>3 DEF Enumerate, ForEach, Reset, ForEachReturn, AfterFlash, Sleep
<1>4. CASE Open \/ Erase \/ LoopEnd
  <2>1. (\E j : Continue(j)) \/ (\E r : Finish(r))
    BY <1>4 DEF Open, Erase, LoopEnd
  <2> QED BY <1>1, <2>1, Leaves
<1>5. CASE GetRange
  <2>1. (\E r : Finish(r)) \/ pc' = "address"
    BY <1>5 DEF GetRange
  <2> QED BY <1>1, <2>1, Leaves
<1>6. CASE SetAddress
  <2>1. CASE \E r : Finish(r)
    BY <1>1, <2>1, Leaves
  <2>2. CASE addr' = start /\ UNCHANGED <<cur, range>> /\ pc = "address"
    <3>1. start \in Nat /\ start = range[cur][1] /\ end \in Nat /\ end = range[cur][2]
      BY <2>2 DEF TypeOK, RangeInv
    <3>2. \A a \in Blocks(range[cur]) : ~(a < start)
      BY <3>1 DEF Blocks
    <3> QED BY <2>2, <3>2 DEF VerifyInv
  <2> QED BY <1>6, <2>1, <2>2 DEF SetAddress
<1>7. CASE WriteBlock
  <2>1. (\E r : Finish(r)) \/ UNCHANGED place
    BY <1>7 DEF WriteBlock, NextBlock
  <2>2. job = "write"
    BY <1>7 DEF WriteBlock
  <2> QED BY <1>1, <2>1, <2>2, Leaves
<1>8. CASE VerifyBlock
  <2>1. CASE \E r : Finish(r)
    BY <1>1, <2>1, Leaves
  <2>2. CASE NextBlock /\ Matches /\ UNCHANGED flash
    <3>1. /\ pc = "block" /\ job = "verify" /\ More /\ addr' = addr + 48
          /\ UNCHANGED <<cur, range, flash>> /\ addr \in Nat
      BY <1>8, <2>2, OneBlock DEF VerifyBlock, NextBlock, TypeOK
    <3>2. Held(cur, addr)
      BY <2>2 DEF Matches, Held
    <3>3. ASSUME NEW a \in Blocks(range[cur]), a < addr + 48
          PROVE  Held(cur, a)
      <4>1. a \in Int
        BY DEF Blocks
      <4>2. a = addr \/ a < addr
        BY <3>1, <3>3, <4>1, OneBlock
      <4> QED BY <3>1, <3>2, <4>2 DEF VerifyInv
    <3>4. \A a : Held(cur, a)' <=> Held(cur, a)
      BY <3>1 DEF Held
    <3> QED BY <3>1, <3>3, <3>4 DEF VerifyInv
  <2> QED BY <1>8, <2>1, <2>2 DEF VerifyBlock
<1>9. CASE FcdSetsAddress \/ FcdReadsBlock
  BY <1>2, <1>9 DEF FcdSetsAddress, FcdReadsBlock
<1>10. ASSUME NEW d \in Dongles, Reconnect(d) \/ Unplug(d)
       PROVE  VerifyInv'
  BY <1>2, <1>10 DEF Reconnect, Unplug
<1>11. CASE UNCHANGED vars
  BY <1>2, <1>11 DEF vars
<1> QED
  BY <1>3, <1>4, <1>5, <1>6, <1>7, <1>8, <1>9, <1>10, <1>11
  DEF Next, ProgramStep, Exited

\* Without fcd, every step keeps what is known of the loops.
LEMMA BlockStep ==
  ASSUME Alone, TypeOK, TypeOK', PlaceInv, RangeInv, LoopInv, BlockInv, WholeInv,
         [Next]_vars
  PROVE  BlockInv'
<1> USE DEF args, place, list, locals, outcome, bus, memory, Flashing
<1>1. ASSUME pc' # "block"
      PROVE  BlockInv'
  BY <1>1 DEF BlockInv
<1>2. CASE Enumerate \/ ForEach \/ Reset
  BY <1>1, <1>2 DEF Enumerate, ForEach, Reset
<1>3. CASE ForEachReturn \/ Sleep
  BY <1>1, <1>3 DEF ForEachReturn, AfterFlash, Sleep
<1>4. CASE Open \/ Erase \/ LoopEnd
  <2>1. (\E j : Continue(j)) \/ (\E r : Finish(r))
    BY <1>4 DEF Open, Erase, LoopEnd
  <2> QED BY <1>1, <2>1, Leaves
<1>5. CASE GetRange
  <2>1. (\E r : Finish(r)) \/ pc' = "address"
    BY <1>5 DEF GetRange
  <2> QED BY <1>1, <2>1, Leaves
<1>6. CASE SetAddress
  <2>1. CASE \E r : Finish(r)
    BY <1>1, <2>1, Leaves
  <2>2. CASE /\ pointer' = [pointer EXCEPT ![cur] = start]
             /\ addr' = start /\ pc' = "block"
             /\ UNCHANGED <<phase, job, outcome>>
    <3>1. /\ pc = "address" /\ UNCHANGED <<acts, cur, range, flash, paths>>
      BY <1>6 DEF SetAddress
    <3>2. /\ start \in Nat /\ cur \in Dongles /\ start < end
          /\ start = range[cur][1] /\ end \in Nat
      BY <3>1 DEF TypeOK, RangeInv
    <3>3. \A a \in Blocks(range[cur]) : ~(a < start)
      BY <3>2 DEF Blocks
    <3>4. pointer'[cur] = start
      BY <2>2, <3>2 DEF TypeOK
    <3>5. job = "write" /\ "erase" \in acts =>
            \A a \in Blocks(range[cur]) : flash[cur][a] = Blank
      BY <3>1 DEF WholeInv, PlaceInv, Working, Filled
    <3> QED BY <2>2, <3>1, <3>2, <3>3, <3>4, <3>5 DEF BlockInv
  <2> QED BY <1>6, <2>1, <2>2 DEF SetAddress
<1>7. CASE WriteBlock
  <2>1. CASE \E r : Finish(r)
    BY <1>1, <2>1, Leaves
  <2>2. CASE NextBlock /\ Accepts
    <3>1. /\ pc = "block" /\ job = "write" /\ More /\ cur \in paths
          /\ pc' = "block" /\ job' = "write" /\ addr' = addr + 48
          /\ UNCHANGED <<acts, cur, range, start, end, paths>>
      BY <1>7, <2>2, OneBlock DEF WriteBlock, NextBlock, Accepts
    <3>2. /\ pointer[cur] = addr /\ cur \in Dongles
          /\ addr \in Nat /\ addr \in Blocks(range[cur])
      BY <3>1, OneBlock DEF TypeOK, BlockInv
    <3>3. pointer'[cur] = addr + 48
      BY <1>7, <2>2, <3>1, <3>2, OneBlock DEF WriteBlock, Advance, TypeOK, Finish
    <3>4. PICK c \in Programmed(flash[cur][addr], addr) :
                flash' = [flash EXCEPT ![cur][addr] = c]
      BY <1>7, <2>2, <3>1, <3>2 DEF WriteBlock, Finish
    <3>5. "erase" \in acts => c = addr
      BY <3>1, <3>2, <3>4 DEF Programmed, BlockInv
    <3>6. \A a \in Blocks(range[cur]) :
            flash'[cur][a] = IF a = addr THEN c ELSE flash[cur][a]
      BY <3>2, <3>4 DEF TypeOK
    <3>7. \A a \in Blocks(range[cur]) : a \in Int
      BY DEF Blocks
    <3>8. "erase" \in acts => \A a \in Blocks(range[cur]) :
            a < addr + 48 => flash'[cur][a] = a
      <4> SUFFICES ASSUME "erase" \in acts, NEW a \in Blocks(range[cur]),
                          a < addr + 48
                   PROVE  flash'[cur][a] = a
        OBVIOUS
      <4>1. a = addr \/ a < addr
        <5>1. a \in Int /\ addr \in Int
          BY <3>2, <3>7
        <5>2. a <= addr
          BY <3>1, OneBlock
        <5> QED BY <5>1, <5>2
      <4> QED BY <3>1, <3>5, <3>6, <4>1 DEF BlockInv
    <3>9. "erase" \in acts => \A a \in Blocks(range[cur]) :
            a >= addr + 48 => flash'[cur][a] = Blank
      <4> SUFFICES ASSUME "erase" \in acts, NEW a \in Blocks(range[cur]),
                          a >= addr + 48
                   PROVE  flash'[cur][a] = Blank
        OBVIOUS
      <4>1. a # addr /\ a >= addr
        <5>1. a \in Int
          BY <3>7
        <5>2. addr \in Nat
          BY <3>2
        <5> QED BY <5>1, <5>2
      <4> QED BY <3>1, <3>6, <4>1 DEF BlockInv
    <3>10. cur' \in paths' => pointer'[cur'] = addr'
      BY <3>1, <3>3
    <3>11. "erase" \in acts' => \A a \in Blocks(range'[cur']) :
             /\ a < addr' => flash'[cur'][a] = a
             /\ a >= addr' => flash'[cur'][a] = Blank
      BY <3>1, <3>8, <3>9
    <3> QED BY <3>1, <3>10, <3>11 DEF BlockInv
  <2> QED BY <1>7, <2>1, <2>2 DEF WriteBlock
<1>8. CASE VerifyBlock
  <2>1. CASE \E r : Finish(r)
    BY <1>1, <2>1, Leaves
  <2>2. CASE NextBlock /\ Accepts /\ Matches /\ Advance /\ UNCHANGED flash
    <3>1. /\ pc = "block" /\ job = "verify" /\ More /\ cur \in paths
          /\ pc' = "block" /\ job' = "verify" /\ addr' = addr + 48
          /\ UNCHANGED <<acts, cur, range, start, end, paths, flash>>
      BY <1>8, <2>2, OneBlock DEF VerifyBlock, NextBlock, Accepts
    <3>2. /\ pointer[cur] = addr /\ cur \in Dongles
          /\ addr \in Nat /\ addr \in Blocks(range[cur])
      BY <3>1, OneBlock DEF TypeOK, BlockInv
    <3>3. pointer'[cur] = addr + 48
      BY <2>2, <3>1, <3>2, OneBlock DEF Advance, TypeOK
    <3>4. flash[cur][addr] = addr
      BY <2>2, <3>2 DEF Matches
    <3>5. \A a \in Blocks(range[cur]) : a < addr + 48 => flash[cur][a] = a
      <4> SUFFICES ASSUME NEW a \in Blocks(range[cur]), a < addr + 48
                   PROVE  flash[cur][a] = a
        OBVIOUS
      <4>1. a \in Int
        BY DEF Blocks
      <4>2. a = addr \/ a < addr
        BY <3>1, <3>2, <4>1, OneBlock
      <4> QED BY <3>1, <3>4, <4>2 DEF BlockInv
    <3>6. cur' \in paths' => pointer'[cur'] = addr'
      BY <3>1, <3>3
    <3>7. \A a \in Blocks(range'[cur']) : a < addr' => flash'[cur'][a] = a
      BY <3>1, <3>5
    <3> QED BY <3>1, <3>6, <3>7 DEF BlockInv
  <2> QED BY <1>8, <2>1, <2>2 DEF VerifyBlock
<1>9. ASSUME NEW d \in Dongles, Reconnect(d)
      PROVE  BlockInv'
  <2>1. cur \in paths => pointer'[cur] = pointer[cur]
    BY <1>9 DEF TypeOK, Reconnect, Reconnecting, Present
  <2> QED BY <1>9, <2>1 DEF Reconnect, BlockInv
<1>10. ASSUME NEW d \in Dongles, Unplug(d)
       PROVE  BlockInv'
  BY <1>10 DEF Unplug, Leave, BlockInv
<1>11. CASE UNCHANGED vars
  BY <1>11 DEF vars, BlockInv
<1>12. ~FcdSetsAddress /\ ~FcdReadsBlock
  BY DEF FcdSetsAddress, FcdReadsBlock, Beside, Alone
<1> QED
  BY <1>2, <1>3, <1>4, <1>5, <1>6, <1>7, <1>8, <1>9, <1>10, <1>11, <1>12
  DEF Next, ProgramStep, Exited

\* A step of funcube_flash touches no dongle but the current one, so that no
\* other can be half flashed.
LEMMA OthersWhole ==
  ASSUME PlaceInv, WholeInv, pc = "open" \/ Working,
         {"erase", "write"} \subseteq acts,
         UNCHANGED <<acts, range, cur>>,
         \A d \in Dongles \ {cur} : flash'[d] = flash[d]
  PROVE  /\ \A d \in Dongles \ {cur} : Whole(d)'
         /\ \A d \in Damaged' : d = cur
<1>1. \A d \in Dongles \ {cur} : Whole(d)
  BY DEF PlaceInv, WholeInv, Working
<1>2. \A d \in Dongles \ {cur} : Whole(d)'
  BY <1>1 DEF Whole
<1> QED BY <1>2 DEF Whole, Damaged

\* A part that fails leaves the current dongle, and only it, as it may be.
LEMMA WholeFinish ==
  ASSUME PlaceInv, WholeInv, pc = "open" \/ Working,
         NEW r \in Int \ {0}, Finish(r), UNCHANGED <<acts, range, cur>>,
         \A d \in Dongles \ {cur} : flash'[d] = flash[d]
  PROVE  WholeInv'
<1>1. CASE {"erase", "write"} \subseteq acts
  <2>1. \A d \in Damaged' : d = cur
    BY <1>1, OthersWhole
  <2>2. pc' = "next" /\ result' # 0
    BY DEF Finish
  <2> QED BY <2>1, <2>2 DEF WholeInv, Working
<1>2. CASE ~({"erase", "write"} \subseteq acts)
  BY <1>2 DEF WholeInv
<1> QED BY <1>1, <1>2

\* When the write loop ends, or the verify loop, the whole image is there.
LEMMA LoopDone ==
  ASSUME TypeOK, RangeInv, LoopInv, BlockInv, pc = "block", ~More,
         job = "verify" \/ "erase" \in acts
  PROVE  flash[cur] = Image(range[cur])
<1>1. /\ start \in Nat /\ end \in Nat /\ addr \in Nat /\ cur \in Dongles
      /\ end = range[cur][2] /\ addr <= end
  BY DEF TypeOK, RangeInv, LoopInv
<1>2. addr = end
  BY <1>1 DEF More
<1>3. \A a \in Blocks(range[cur]) : a < addr
  BY <1>1, <1>2, Numbers DEF Blocks
<1>4. \A a \in Blocks(range[cur]) : flash[cur][a] = a
  BY <1>3 DEF BlockInv
<1>5. flash[cur] \in [Blocks(range[cur]) -> Blocks(range[cur]) \cup {Old, Blank, Junk}]
  BY <1>1 DEF TypeOK
<1> QED BY <1>4, <1>5 DEF Image

\* Every step keeps all dongles whole but the one in progress.
LEMMA WholeStep ==
  ASSUME Alone, TypeOK, PlaceInv, RangeInv, LoopInv, BlockInv, WholeInv, [Next]_vars
  PROVE  WholeInv'
<1> USE DEF args, place, list, locals, outcome, bus, memory, Flashing
<1>1. SUFFICES ASSUME {"erase", "write"} \subseteq acts
               PROVE  WholeInv'
  <2>1. acts' = acts
    BY DEF Next, ProgramStep, Exited, vars, Enumerate, ForEach, ForEachReturn,
       Reset, Sleep, Open, Erase, GetRange, SetAddress, LoopEnd, WriteBlock,
       VerifyBlock, Reconnect, Unplug, FcdSetsAddress, FcdReadsBlock
  <2> QED BY <1>1, <2>1 DEF WholeInv
<1>2. ASSUME ~Working, ~Working', UNCHANGED <<acts, range, flash, result>>
      PROVE  WholeInv'
  <2>1. \A d \in Dongles : Whole(d)' <=> Whole(d)
    BY <1>2 DEF Whole
  <2>2. Damaged' = Damaged
    BY <1>2 DEF Damaged
  <2> QED BY <1>1, <1>2, <2>1, <2>2 DEF WholeInv, Working
<1>3. ASSUME Working, Working', UNCHANGED <<acts, range, cur, flash, result, job>>,
             \/ pc' = pc
             \/ pc = "range" /\ pc' = "address"
             \/ pc = "address" /\ pc' = "block"
      PROVE  WholeInv'
  <2>1. \A d \in Dongles : Whole(d)' <=> Whole(d)
    BY <1>3 DEF Whole
  <2>2. Damaged' = Damaged
    BY <1>3 DEF Damaged
  <2>3. cur \in Dongles
    BY DEF TypeOK
  <2> QED BY <1>1, <1>3, <2>1, <2>2, <2>3 DEF WholeInv, Working
<1>4. CASE Enumerate
  BY <1>2, <1>4 DEF Enumerate, Working
<1>5. CASE ForEach
  BY <1>2, <1>5 DEF ForEach, Working
<1>6. CASE ForEachReturn
  BY <1>2, <1>6 DEF ForEachReturn, AfterFlash, Working
<1>7. CASE Reset \/ Sleep
  BY <1>2, <1>7 DEF Reset, Sleep, Working
<1>8. CASE Open
  <2>1. pc = "open" /\ UNCHANGED <<acts, range, cur, flash>>
    BY <1>8 DEF Open
  <2>2. CASE Continue("open")
    <3>1. pc' = "erase" /\ job' = "erase" /\ result' = result
      BY <1>1, <2>2 DEF Continue, Later, Begin
    <3>2. result = 0 /\ ~Working
      BY <2>1 DEF PlaceInv, Working
    <3>3. \A d \in Dongles : Whole(d)'
      BY <1>1, <2>1, <3>2 DEF WholeInv, Whole
    <3>4. Damaged' = {}
      BY <3>3 DEF Damaged, Whole
    <3>5. cur' \in Dongles
      BY <2>1 DEF TypeOK
    <3> QED BY <3>1, <3>3, <3>4, <3>5 DEF WholeInv
  <2>3. CASE Finish(-1)
    BY <2>1, <2>3, WholeFinish
  <2> QED BY <1>8, <2>2, <2>3 DEF Open
<1>9. CASE Erase
  <2>1. /\ Working /\ UNCHANGED <<acts, range, cur>> /\ cur \in Dongles
        /\ \A d \in Dongles \ {cur} : flash'[d] = flash[d]
    BY <1>9 DEF Erase, Working, TypeOK
  <2>2. CASE Finish(-1)
    BY <2>1, <2>2, WholeFinish
  <2>3. CASE Continue("erase") /\ flash' = [flash EXCEPT ![cur] = Filled(range[cur], Blank)]
    <3>1. pc' = "range" /\ job' = "write"
      BY <1>1, <2>3 DEF Continue, Later, Begin
    <3>2. flash'[cur] = Filled(range[cur], Blank)
      BY <2>1, <2>3 DEF TypeOK
    <3> QED BY <1>1, <2>1, <3>1, <3>2, OthersWhole DEF WholeInv, Working
  <2> QED BY <1>9, <2>2, <2>3 DEF Erase
<1>10. CASE GetRange
  <2>1. Working /\ UNCHANGED <<acts, range, cur, flash>>
    BY <1>10 DEF GetRange, Working
  <2>2. CASE Finish(-1) \/ Finish(-2) \/ Finish(-3)
    BY <2>1, <2>2, WholeFinish
  <2>3. CASE pc' = "address" /\ UNCHANGED <<phase, job, outcome>>
    BY <1>3, <1>10, <2>1, <2>3 DEF GetRange, Working
  <2> QED BY <1>10, <2>2, <2>3 DEF GetRange
<1>11. CASE SetAddress
  <2>1. Working /\ UNCHANGED <<acts, range, cur, flash>>
    BY <1>11 DEF SetAddress, Working
  <2>2. CASE Finish(-4)
    BY <2>1, <2>2, WholeFinish
  <2>3. CASE pc' = "block" /\ UNCHANGED <<phase, job, outcome>>
    BY <1>3, <1>11, <2>1, <2>3 DEF SetAddress, Working
  <2> QED BY <1>11, <2>2, <2>3 DEF SetAddress
<1>12. CASE LoopEnd
  <2>1. /\ Working /\ UNCHANGED <<acts, range, cur, flash>> /\ cur \in Dongles
        /\ job \in {"write", "verify"}
    BY <1>12 DEF LoopEnd, Working, TypeOK, PlaceInv
  <2>2. flash'[cur] = Image(range[cur])
    BY <1>1, <1>12, <2>1, LoopDone DEF LoopEnd
  <2>3. /\ \A d \in Dongles \ {cur} : Whole(d)'
        /\ \A d \in Damaged' : d = cur
    BY <1>1, <2>1, OthersWhole
  <2>4. Whole(cur)'
    BY <2>1, <2>2 DEF Whole
  <2>5. \/ pc' = "range" /\ job' = "verify"
        \/ pc' = "next"
    BY <1>12, <2>1 DEF LoopEnd, Continue, Later, Begin, Finish
  <2> QED BY <2>1, <2>2, <2>3, <2>4, <2>5 DEF WholeInv, Working
<1>13. CASE WriteBlock
  <2>1. /\ Working /\ UNCHANGED <<acts, range, cur>> /\ cur \in Dongles
        /\ \A d \in Dongles \ {cur} : flash'[d] = flash[d]
        /\ pc = "block" /\ job = "write"
    BY <1>13 DEF WriteBlock, Working, TypeOK
  <2>2. CASE Finish(-5)
    BY <2>1, <2>2, WholeFinish
  <2>3. CASE NextBlock
    <3>1. pc' = "block" /\ job' = "write"
      BY <2>1, <2>3 DEF NextBlock
    <3> QED BY <1>1, <2>1, <3>1, OthersWhole DEF WholeInv, Working
  <2> QED BY <1>13, <2>2, <2>3 DEF WriteBlock
<1>14. CASE VerifyBlock
  <2>1. Working /\ UNCHANGED <<acts, range, cur, flash>> /\ pc = "block"
    BY <1>14 DEF VerifyBlock, Working
  <2>2. CASE Finish(-6) \/ Finish(1)
    BY <2>1, <2>2, WholeFinish
  <2>3. CASE NextBlock
    BY <1>3, <2>1, <2>3 DEF NextBlock, Working
  <2> QED BY <1>14, <2>2, <2>3 DEF VerifyBlock
<1>15. ASSUME UNCHANGED <<acts, range, cur, flash, result, job, pc>>
       PROVE  WholeInv'
  BY <1>2, <1>3, <1>15 DEF Working
<1>16. ASSUME \/ \E d \in Dongles : Reconnect(d) \/ Unplug(d)
              \/ FcdSetsAddress \/ FcdReadsBlock
       PROVE  WholeInv'
  BY <1>15, <1>16 DEF Reconnect, Unplug, FcdSetsAddress, FcdReadsBlock
<1>17. CASE UNCHANGED vars
  BY <1>15, <1>17 DEF vars
<1> QED
  BY <1>4, <1>5, <1>6, <1>7, <1>8, <1>9, <1>10, <1>11, <1>12, <1>13, <1>14,
     <1>16, <1>17 DEF Next, ProgramStep, Exited

\* Every step keeps the dongles that passed as they are, and one that passes
\* holds the image.
LEMMA PassedStep ==
  ASSUME Alone, TypeOK, PlaceInv, RangeInv, LoopInv, BlockInv, PassedIsProgrammed,
         [Next]_vars
  PROVE  PassedIsProgrammed'
<1> USE DEF args, place, list, locals, outcome, bus, memory, Flashing
<1>1. ASSUME UNCHANGED <<acts, range>>, passed' \subseteq passed,
             \A d \in passed : flash'[d] = flash[d]
      PROVE  PassedIsProgrammed'
  BY <1>1 DEF PassedIsProgrammed
<1>2. ASSUME UNCHANGED <<acts, range>>, NEW r \in Int \ {0}, Finish(r),
             \A d \in passed : flash'[d] = flash[d]
      PROVE  PassedIsProgrammed'
  BY <1>1, <1>2 DEF Finish
<1>3. CASE Enumerate \/ ForEach
  BY <1>1, <1>3 DEF Enumerate, ForEach
<1>4. CASE ForEachReturn \/ Reset \/ Sleep
  BY <1>1, <1>4 DEF ForEachReturn, AfterFlash, Reset, Sleep
<1>5. CASE Open
  <2>1. UNCHANGED <<acts, range, flash>>
    BY <1>5 DEF Open
  <2>2. CASE Continue("open")
    <3>1. CASE UNCHANGED passed
      BY <1>1, <2>1, <3>1
    <3>2. CASE Finish(0) /\ acts \cap {"erase", "write", "verify"} = {}
      BY <2>1, <3>2 DEF PassedIsProgrammed
    <3> QED BY <2>2, <3>1, <3>2 DEF Continue, Later, Begin
  <2>3. CASE Finish(-1)
    BY <1>2, <2>1, <2>3
  <2> QED BY <1>5, <2>2, <2>3 DEF Open
<1>6. CASE Erase
  <2>1. /\ UNCHANGED <<acts, range>> /\ cur \in Dongles \ passed
        /\ \A d \in passed : flash'[d] = flash[d]
    BY <1>6 DEF Erase, PlaceInv, Working, TypeOK
  <2>2. CASE Continue("erase")
    <3>1. CASE UNCHANGED passed
      BY <1>1, <2>1, <3>1
    <3>2. CASE Finish(0) /\ acts \cap {"write", "verify"} = {}
      BY <2>1, <3>2 DEF PassedIsProgrammed
    <3> QED BY <2>2, <3>1, <3>2 DEF Continue, Later, Begin
  <2>3. CASE Finish(-1)
    BY <1>2, <2>1, <2>3
  <2> QED BY <1>6, <2>2, <2>3 DEF Erase
<1>7. CASE GetRange
  <2>1. UNCHANGED <<acts, range, flash>>
    BY <1>7 DEF GetRange
  <2>2. CASE Finish(-1) \/ Finish(-2) \/ Finish(-3)
    BY <1>2, <2>1, <2>2
  <2>3. CASE UNCHANGED passed
    BY <1>1, <2>1, <2>3
  <2> QED BY <1>7, <2>2, <2>3 DEF GetRange
<1>8. CASE SetAddress
  <2>1. UNCHANGED <<acts, range, flash>>
    BY <1>8 DEF SetAddress
  <2>2. CASE Finish(-4)
    BY <1>2, <2>1, <2>2
  <2>3. CASE UNCHANGED passed
    BY <1>1, <2>1, <2>3
  <2> QED BY <1>8, <2>2, <2>3 DEF SetAddress
<1>9. CASE LoopEnd
  <2>1. /\ UNCHANGED <<acts, range, flash, cur>> /\ job \in {"write", "verify"}
        /\ cur \in Dongles
    BY <1>9 DEF LoopEnd, TypeOK, PlaceInv, Working
  <2>2. CASE UNCHANGED passed
    BY <1>1, <2>1, <2>2
  <2>3. CASE Finish(0) /\ ("verify" \in acts => job = "verify")
    <3>1. SUFFICES ASSUME "verify" \in acts \/ {"erase", "write"} \subseteq acts
                   PROVE  flash[cur] = Image(range[cur])
      BY <2>1, <2>3, <3>1 DEF PassedIsProgrammed, Finish
    <3> QED BY <1>9, <2>3, <3>1, LoopDone DEF LoopEnd
  <2> QED BY <1>9, <2>1, <2>2, <2>3 DEF LoopEnd, Continue, Later, Begin
<1>10. CASE WriteBlock
  <2>1. /\ UNCHANGED <<acts, range>> /\ cur \in Dongles \ passed
        /\ \A d \in passed : flash'[d] = flash[d]
    BY <1>10 DEF WriteBlock, PlaceInv, Working, TypeOK
  <2>2. CASE Finish(-5)
    BY <1>2, <2>1, <2>2
  <2>3. CASE UNCHANGED passed
    BY <1>1, <2>1, <2>3
  <2> QED BY <1>10, <2>2, <2>3 DEF WriteBlock, NextBlock
<1>11. CASE VerifyBlock
  <2>1. UNCHANGED <<acts, range, flash>>
    BY <1>11 DEF VerifyBlock
  <2>2. CASE Finish(-6) \/ Finish(1)
    BY <1>2, <2>1, <2>2
  <2>3. CASE UNCHANGED passed
    BY <1>1, <2>1, <2>3
  <2> QED BY <1>11, <2>2, <2>3 DEF VerifyBlock, NextBlock
<1>12. ASSUME \/ \E d \in Dongles : Reconnect(d) \/ Unplug(d)
              \/ FcdSetsAddress \/ FcdReadsBlock
       PROVE  PassedIsProgrammed'
  BY <1>1, <1>12 DEF Reconnect, Unplug, FcdSetsAddress, FcdReadsBlock
<1>13. CASE UNCHANGED vars
  BY <1>1, <1>13 DEF vars
<1> QED
  BY <1>3, <1>4, <1>5, <1>6, <1>7, <1>8, <1>9, <1>10, <1>11, <1>12, <1>13
  DEF Next, ProgramStep, Exited

\* The same of the blocks of the dongles that passed verification, whatever
\* fcd does.
LEMMA AllBlocksStep ==
  ASSUME TypeOK, PlaceInv, RangeInv, LoopInv, VerifyInv, PassedHasAllBlocks,
         [Next]_vars
  PROVE  PassedHasAllBlocks'
<1> USE DEF args, place, list, locals, outcome, bus, memory, Flashing
<1>1. ASSUME UNCHANGED <<acts, range>>, passed' \subseteq passed,
             \A d \in passed : flash'[d] = flash[d]
      PROVE  PassedHasAllBlocks'
  BY <1>1 DEF PassedHasAllBlocks
<1>2. ASSUME UNCHANGED <<acts, range, flash>>,
             \/ UNCHANGED outcome
             \/ \E r \in Int \ {0} : Finish(r)
      PROVE  PassedHasAllBlocks'
  BY <1>1, <1>2 DEF Finish
<1>3. CASE Enumerate \/ ForEach \/ ForEachReturn \/ Reset \/ Sleep
  BY <1>2, <1>3 DEF Enumerate, ForEach, ForEachReturn, AfterFlash, Reset, Sleep
<1>4. CASE Open
  <2>1. UNCHANGED <<acts, range, flash>>
    BY <1>4 DEF Open
  <2>2. CASE passed' \subseteq passed
    BY <1>1, <2>1, <2>2
  <2>3. CASE "verify" \notin acts
    BY <2>1, <2>3 DEF PassedHasAllBlocks
  <2> QED BY <1>4, <2>2, <2>3 DEF Open, Continue, Later, Begin, Finish
<1>5. CASE Erase
  <2>1. /\ UNCHANGED <<acts, range>> /\ cur \in Dongles \ passed
        /\ \A d \in passed : flash'[d] = flash[d]
    BY <1>5 DEF Erase, PlaceInv, Working, TypeOK
  <2>2. CASE passed' \subseteq passed
    BY <1>1, <2>1, <2>2
  <2>3. CASE "verify" \notin acts
    BY <2>1, <2>3 DEF PassedHasAllBlocks
  <2> QED BY <1>5, <2>2, <2>3 DEF Erase, Continue, Later, Begin, Finish
<1>6. CASE GetRange
  <2>1. \/ Finish(-1) \/ Finish(-2) \/ Finish(-3) \/ UNCHANGED outcome
    BY <1>6 DEF GetRange
  <2> QED BY <1>2, <1>6, <2>1 DEF GetRange
<1>7. CASE SetAddress
  <2>1. Finish(-4) \/ UNCHANGED outcome
    BY <1>7 DEF SetAddress
  <2> QED BY <1>2, <1>7, <2>1 DEF SetAddress
<1>8. CASE LoopEnd
  <2>1. /\ UNCHANGED <<acts, range, flash, cur>> /\ job \in {"write", "verify"}
        /\ pc = "block" /\ ~More /\ cur \in Dongles
    BY <1>8 DEF LoopEnd, TypeOK, PlaceInv, Working
  <2>2. CASE passed' \subseteq passed
    BY <1>1, <2>1, <2>2
  <2>3. CASE "verify" \notin acts
    BY <2>1, <2>3 DEF PassedHasAllBlocks
  <2>4. CASE Finish(0) /\ job = "verify"
    <3>1. /\ start \in Nat /\ end \in Nat /\ addr \in Nat
          /\ end = range[cur][2] /\ addr <= end
      BY <2>1 DEF TypeOK, RangeInv, LoopInv
    <3>2. \A a \in Blocks(range[cur]) : a < addr
      BY <2>1, <3>1, Numbers DEF More, Blocks
    <3>3. \A a \in Blocks(range[cur]) : Held(cur, a)
      BY <2>1, <2>4, <3>2 DEF VerifyInv
    <3> QED BY <2>1, <2>4, <3>3 DEF Held, Finish, PassedHasAllBlocks
  <2> QED BY <1>8, <2>1, <2>2, <2>3, <2>4
          DEF LoopEnd, Continue, Later, Begin, Finish
<1>9. CASE WriteBlock
  <2>1. /\ UNCHANGED <<acts, range>> /\ cur \in Dongles \ passed
        /\ \A d \in passed : flash'[d] = flash[d]
    BY <1>9 DEF WriteBlock, PlaceInv, Working, TypeOK
  <2>2. passed' \subseteq passed
    <3>1. Finish(-5) \/ NextBlock
      BY <1>9 DEF WriteBlock
    <3> QED BY <3>1 DEF Finish, NextBlock
  <2> QED BY <1>1, <2>1, <2>2
<1>10. CASE VerifyBlock
  <2>1. UNCHANGED <<acts, range, flash>>
    BY <1>10 DEF VerifyBlock
  <2>2. Finish(-6) \/ Finish(1) \/ NextBlock
    BY <1>10 DEF VerifyBlock
  <2> QED BY <1>2, <2>1, <2>2 DEF NextBlock
<1>11. ASSUME \/ \E d \in Dongles : Reconnect(d) \/ Unplug(d)
              \/ FcdSetsAddress \/ FcdReadsBlock
       PROVE  PassedHasAllBlocks'
  BY <1>2, <1>11 DEF Reconnect, Unplug, FcdSetsAddress, FcdReadsBlock
<1>12. CASE UNCHANGED vars
  BY <1>2, <1>12 DEF vars
<1> QED
  BY <1>3, <1>4, <1>5, <1>6, <1>7, <1>8, <1>9, <1>10, <1>11, <1>12
  DEF Next, ProgramStep, Exited

\* The program starts in the invariant.
LEMMA InitInv == Init => IInv
<1> SUFFICES ASSUME Init PROVE IInv
  OBVIOUS
<1>1. \A d \in Dongles : Whole(d)
  BY DEF Init, Whole
<1>2. TypeOK
  <2>1. \A d \in Dongles : flash[d] \in
          [Blocks(range[d]) -> Blocks(range[d]) \cup {Old, Blank, Junk}]
    BY <1>1 DEF Whole, Image, Filled
  <2>2. flash = [d \in Dongles |-> flash[d]]
    BY DEF Init
  <2>3. /\ size \in Sizes \cup {0} /\ 0 \in 0..(Word - 1)
        /\ pointer \in [Dongles -> 0..(Word - 1)]
    BY FlashAssumption DEF Init
  <2>4. /\ mode \in [Dongles -> {"application", "bootloader", "entering",
                                 "leaving", "gone"}]
        /\ range \in [Dongles -> Ranges]
    BY DEF Init
  <2> QED BY <2>1, <2>2, <2>3, <2>4 DEF Init, TypeOK
<1>3. /\ PlaceInv /\ RangeInv /\ LoopInv /\ VerifyInv /\ PassedHasAllBlocks
      /\ BlockInv /\ PassedIsProgrammed
  BY DEF Init, PlaceInv, RangeInv, LoopInv, VerifyInv, PassedHasAllBlocks,
     BlockInv, PassedIsProgrammed, Working
<1>4. WholeInv
  <2>1. Damaged = {}
    BY <1>1 DEF Damaged, Whole
  <2> QED BY <1>1, <2>1 DEF Init, WholeInv, Working
<1> QED BY <1>2, <1>3, <1>4 DEF IInv

\* Every step keeps what is known of the restart, when no dongle is slow.
LEMMA RestartStep ==
  ASSUME "slow" \notin Faults, TypeOK, PlaceInv, RestartInv, [Next]_vars
  PROVE  RestartInv'
<1> USE DEF args, place, list, locals, outcome, bus, memory, Flashing
<1>0. /\ mode \in [Dongles -> {"application", "bootloader", "entering", "leaving",
                               "gone"}]
      /\ phase \in {"enter", "flash", "leave"}
      /\ pc \in {"list", "next", "reset", "sleep", "open", "erase", "range",
                 "address", "block", "exit"}
  BY DEF TypeOK
<1>1. CASE Enumerate
  BY <1>0, <1>1 DEF RestartInv, Enumerate, Present, Reconnecting
<1>2. CASE ForEach
  BY <1>0, <1>2 DEF RestartInv, ForEach, Reconnecting
<1>3. CASE ForEachReturn
  <2>1. CASE phase = "leave"
    BY <1>0, <1>3, <2>1 DEF RestartInv, ForEachReturn, Break, Reconnecting
  <2>2. CASE phase # "leave"
    BY <1>0, <1>3, <2>2 DEF RestartInv, ForEachReturn, AfterFlash, Reconnecting
  <2> QED BY <2>1, <2>2
<1>4. CASE Reset
  <2>1. cur \in Dongles /\ pc = "reset" /\ pc' = "next" /\ phase # "flash"
    BY <1>4 DEF Reset, TypeOK, PlaceInv
  <2>2. CASE UNCHANGED mode
    BY <1>0, <1>4, <2>1, <2>2 DEF RestartInv, Reset
  <2>3. CASE /\ mode' = [mode EXCEPT ![cur] = IF phase = "enter" THEN "entering"
                                              ELSE "leaving"]
             /\ UNCHANGED missed
    BY <1>0, <1>4, <2>1, <2>3 DEF RestartInv, Reset
  <2> QED BY <1>4, <2>2, <2>3 DEF Reset
<1>5. CASE Sleep
  <2>1. Reconnecting = {}
    BY <1>5 DEF Sleep
  <2> QED BY <1>0, <1>5, <2>1 DEF RestartInv, Sleep, Reconnecting, PlaceInv
\* While a dongle is flashed, none leaves its mode.
<1>6. ASSUME pc = "open" \/ Working, UNCHANGED <<acts, phase, mode>>, pc' # "exit"
      PROVE  RestartInv'
  <2>1. phase = "flash"
    BY <1>6 DEF PlaceInv
  <2> QED BY <1>6, <2>1 DEF RestartInv, Reconnecting
<1>7. CASE \/ Open \/ Erase \/ GetRange \/ SetAddress \/ LoopEnd
           \/ WriteBlock \/ VerifyBlock
  <2>1. (pc = "open" \/ Working) /\ UNCHANGED <<acts, mode>>
    BY <1>7 DEF Open, Erase, GetRange, SetAddress, LoopEnd, WriteBlock, VerifyBlock,
       Working
  <2>2. phase' = phase /\ pc' # "exit"
    <3>1. \/ \E j : Continue(j)
          \/ \E r : Finish(r)
          \/ pc' \in {"address", "block"} /\ UNCHANGED phase
          \/ UNCHANGED place /\ pc = "block"
      BY <1>7 DEF Open, Erase, GetRange, SetAddress, LoopEnd, WriteBlock, VerifyBlock,
         NextBlock
    <3> QED BY <3>1 DEF Continue, Begin, Finish
  <2> QED BY <1>6, <2>1, <2>2
<1>8. ASSUME NEW d \in Dongles, Reconnect(d)
      PROVE  RestartInv'
  <2>1. /\ UNCHANGED <<acts, place, list, missed>> /\ d \in Reconnecting
        /\ mode' = [mode EXCEPT ![d] = IF @ = "entering" THEN "bootloader"
                                       ELSE "application"]
    BY <1>8 DEF Reconnect
  <2>2. Reconnecting' \subseteq Reconnecting
    BY <1>0, <2>1 DEF Reconnecting
  <2>3. phase = "leave" => mode' = [mode EXCEPT ![d] = "application"]
    BY <1>0, <2>1 DEF RestartInv
  <2> QED BY <1>0, <2>1, <2>2, <2>3 DEF RestartInv
<1>9. ASSUME NEW d \in Dongles, Unplug(d)
      PROVE  RestartInv'
  <2>1. /\ UNCHANGED <<acts, place, list, missed>>
        /\ mode' = [mode EXCEPT ![d] = "gone"]
    BY <1>9 DEF Unplug
  <2>2. Reconnecting' \subseteq Reconnecting
    BY <1>0, <2>1 DEF Reconnecting
  <2> QED BY <1>0, <2>1, <2>2 DEF RestartInv
<1>10. CASE FcdSetsAddress \/ FcdReadsBlock \/ UNCHANGED vars
  BY <1>10 DEF FcdSetsAddress, FcdReadsBlock, vars, RestartInv, Reconnecting
<1> QED
  BY <1>1, <1>2, <1>3, <1>4, <1>5, <1>7, <1>8, <1>9, <1>10 DEF Next, ProgramStep,
     Exited

----------------------------------------------------------------------------
(* The theorems.                                                           *)

\* The inductive invariant holds of every run of fcd-flash.
THEOREM Invariant == Spec => []IInv
<1>1. Init => IInv
  BY InitInv
<1>2. IInv /\ [Next]_vars => IInv'
  <2> SUFFICES ASSUME IInv, [Next]_vars PROVE IInv'
    OBVIOUS
  <2>1. TypeOK' /\ PlaceInv' /\ RangeInv'
    BY TypeStep, PlaceStep, RangeStep DEF IInv
  <2>2. LoopInv' /\ VerifyInv' /\ PassedHasAllBlocks'
    BY <2>1, LoopStep, VerifyStep, AllBlocksStep DEF IInv
  <2>3. Alone => BlockInv' /\ WholeInv' /\ PassedIsProgrammed'
    BY <2>1, BlockStep, WholeStep, PassedStep DEF IInv
  <2> QED BY <2>1, <2>2, <2>3 DEF IInv, Alone
<1> QED BY <1>1, <1>2, PTL DEF Spec

\* Type correctness of the flashing program's state (src/flash.c).
THEOREM TypeCorrect == Spec => []TypeOK
<1>1. IInv => TypeOK
  BY DEF IInv
<1> QED BY <1>1, Invariant, PTL

\* No block operation of the write and verify loops reaches past the image
\* buffer, whatever range the bootloader reports and however the file size
\* is cut to an unsigned int (fcd_bootloader.c:99-121, 135-162).
THEOREM BlocksInBounds == Spec => []InBounds
<1>1. IInv => InBounds
  <2> SUFFICES ASSUME IInv, pc = "block" PROVE InBounds
    BY DEF InBounds
  <2>1. (addr - start) % 48 = 0 /\ start <= addr /\ addr <= end
    BY DEF IInv, LoopInv
  <2>2. ASSUME addr < end
        PROVE  addr + 48 <= size
    <3>1. addr + 48 <= end
      BY <2>2, OneBlock DEF IInv, More
    <3>2. end <= SizeArg
      BY DEF IInv, RangeInv
    <3>3. cur \in Dongles /\ addr \in Int /\ end \in Int
      BY DEF IInv, TypeOK
    <3>4. SizeArg \in Int /\ SizeArg <= size /\ size \in Int
      BY <3>3, Numbers DEF IInv
    <3> QED BY <3>1, <3>2, <3>3, <3>4
  <2> QED BY <2>1, <2>2 DEF InBounds
<1> QED BY <1>1, Invariant, PTL

\* A dongle reported as verified holds every block of the image, also when
\* fcd moves the bootloader's pointer meanwhile (src/main.c:56-57).
THEOREM VerifiedHasAllBlocks == Spec => []PassedHasAllBlocks
<1>1. IInv => PassedHasAllBlocks
  BY DEF IInv
<1> QED BY <1>1, Invariant, PTL

\* The program's address and the bootloader's agree throughout the loops,
\* which send no address, when nobody runs fcd (fcd_bootloader.c:110-121,
\* 146-162).
THEOREM PointersInStep ==
  ASSUME Alone PROVE Spec => []PointerInStep
<1>1. IInv => PointerInStep
  BY DEF IInv, BlockInv, PointerInStep
<1> QED BY <1>1, Invariant, PTL

\* A dongle reported as done holds the image, when nobody runs fcd
\* (flash.c:230-256).
THEOREM PassedHoldsImage ==
  ASSUME Alone PROVE Spec => []PassedIsProgrammed
<1>1. IInv => PassedIsProgrammed
  BY DEF IInv
<1> QED BY <1>1, Invariant, PTL

\* At most one dongle is half flashed, and then the exit status tells, when
\* nobody runs fcd
\* (fcd_common.c:172-177, flash.c:445-448).
THEOREM OneDongleAtATime ==
  ASSUME Alone PROVE Spec => []OneAtATime
<1>1. IInv => OneAtATime
  <2> SUFFICES ASSUME IInv, {"erase", "write"} \subseteq acts PROVE OneAtATime
    BY DEF OneAtATime
  <2>1. \A d, e \in Damaged : d = e
    BY DEF IInv, WholeInv
  <2>2. ASSUME NEW d \in Damaged, result = 0
        PROVE  phase = "flash" /\ Working /\ d = cur
    <3>1. ~Whole(d) /\ d \in Dongles
      BY DEF Whole, Damaged
    <3>2. d = cur /\ Working
      BY <2>2, <3>1 DEF IInv, WholeInv
    <3> QED BY <3>2 DEF IInv, PlaceInv
  <2> QED BY <2>1, <2>2 DEF OneAtATime
<1> QED BY <1>1, Invariant, PTL

\* After -r no dongle that is still there stays in the bootloader, but for those
\* whose own request was missed, when no dongle is slower to reconnect than the
\* delay (flash.c:424-452).
THEOREM RestartsAll ==
  ASSUME "slow" \notin Faults PROVE Spec => []Restarted
<1>1. Init => RestartInv
  BY DEF Init, RestartInv, Reconnecting
<1>2. IInv /\ RestartInv /\ [Next]_vars => RestartInv'
  BY RestartStep DEF IInv
<1>3. IInv /\ RestartInv => Restarted
  <2> SUFFICES ASSUME IInv, RestartInv, pc = "exit", "reset" \in acts,
                      NEW d \in Dongles \ missed
               PROVE  mode[d] \in {"application", "gone"}
    BY DEF Restarted
  <2>1. mode[d] \in {"application", "bootloader", "entering", "leaving", "gone"}
    BY DEF IInv, TypeOK
  <2> QED BY <2>1 DEF RestartInv, Reconnecting
<1> QED BY <1>1, <1>2, <1>3, Invariant, PTL DEF Spec
=============================================================================
