------------------------------ MODULE FcdFlash ------------------------------
(***************************************************************************)
(* fcd-flash (src/flash.c) over the library's fcd_for_each, fcd_reset and  *)
(* fcd_bl_* calls: put every dongle into its bootloader, erase, write and  *)
(* verify each in turn, and restart them all.  A fcd_io call is one step,  *)
(* with the outcomes its caller can tell apart; that it returns at all is  *)
(* assumed here.  fcd (src/main.c) may be run beside it, any number of     *)
(* times: it looks at the same dongles.                                    *)
(*                                                                         *)
(* A byte of the image is its offset, and a 48-byte block of data is the   *)
(* offset of its first byte: a flash block holding the image block that    *)
(* belongs there holds its own address.  A path is the dongle it leads to, *)
(* while that dongle has not left the bus since it was enumerated.         *)
(***************************************************************************)
EXTENDS Integers

CONSTANTS Dongles,   \* FUNcube dongles of the machine
          Ranges,    \* <<start, end>> pairs a bootloader may report
          Sizes,     \* image file sizes
          Word,      \* values of an unsigned int (2^32)
          Faults     \* which of AllFaults may happen

AllFaults == {"lost",      \* fcd_io fails before the dongle has the request
              "noreply",   \* fcd_io fails after the dongle carried it out
              "unplug",    \* a dongle leaves the bus for good
              "slow",      \* a dongle reconnects later than the delay
              "fcd"}       \* somebody runs fcd meanwhile

ASSUME FlashAssumption ==
  /\ Word \in Nat \ {0}
  /\ Ranges \subseteq (0..(Word - 1)) \X (0..(Word - 1))
  /\ Sizes \subseteq Nat
  /\ Faults \subseteq AllFaults

VARIABLES
  acts,     \* context.actions
  size,     \* context.size (an unsigned long)
  phase,    \* which fcd_for_each: "enter", "flash" or "leave"
  pc,       \* where in it
  job,      \* the part of funcube_flash done last or in progress
  todo,     \* rest of the list hid_enumerate returned
  cur,      \* the dongle of the current path
  start, end, addr,  \* locals of fcd_bl_flash_write and fcd_bl_flash_verify
  result,   \* result of the flash fcd_for_each
  passed,   \* dongles funcube_flash returned 0 for
  paths,    \* dongles whose enumerated path still leads to them
  mode,     \* mode[d]: what dongle d runs, or where it is going
  missed,   \* dongles the request to restart did not get to
  range,    \* range[d]: the address range d reports
  pointer,  \* pointer[d]: the byte address the bootloader of d works at
  flash     \* flash[d]: what each block of d holds

args == <<acts, size, range>>
place == <<phase, pc, job>>
locals == <<start, end, addr>>
list == <<todo, cur>>
outcome == <<result, passed>>
bus == <<paths, mode, missed>>
memory == <<pointer, flash>>
vars == <<args, place, list, locals, outcome, bus, memory>>

Old == -1     \* a block of the application the dongle came with
Blank == -2   \* an erased block
Junk == -3    \* a block written without being erased first

Blocks(r) == {a \in r[1]..(r[2] - 1) : (a - r[1]) % 48 = 0}
Filled(r, c) == [a \in Blocks(r) |-> c]
Image(r) == [a \in Blocks(r) |-> a]

Present == {d \in Dongles : mode[d] \in {"application", "bootloader"}}

TypeOK ==
  /\ acts \in SUBSET {"reset", "erase", "write", "verify"}
  /\ size \in Sizes \cup {0}
  /\ phase \in {"enter", "flash", "leave"}
  /\ pc \in {"list", "next", "reset", "sleep", "open", "erase", "range",
             "address", "block", "exit"}
  /\ job \in {"open", "erase", "write", "verify"}
  /\ todo \subseteq Dongles /\ cur \in Dongles
  /\ start \in 0..(Word - 1) /\ end \in 0..(Word - 1) /\ addr \in 0..(Word - 1)
  /\ result \in -6..1
  /\ passed \subseteq Dongles
  /\ paths \subseteq Present /\ missed \subseteq Dongles
  /\ mode \in [Dongles -> {"application", "bootloader", "entering", "leaving",
                           "gone"}]
  /\ range \in [Dongles -> Ranges]
  /\ pointer \in [Dongles -> 0..(Word - 1)]
  /\ \A d \in Dongles : flash[d] \in
       [Blocks(range[d]) -> Blocks(range[d]) \cup {Old, Blank, Junk}]
  /\ flash = [d \in Dongles |-> flash[d]]

\* The command line was accepted and the image read.
Init ==
  /\ acts \in SUBSET {"reset", "erase", "write", "verify"} /\ acts # {}
  /\ size \in IF acts \cap {"write", "verify"} = {} THEN {0} ELSE Sizes
  /\ phase = IF "reset" \in acts THEN "enter" ELSE "flash"
  /\ pc = "list" /\ job = "open"
  /\ todo = {} /\ cur \in Dongles
  /\ start = 0 /\ end = 0 /\ addr = 0
  /\ result = 0 /\ passed = {} /\ paths = {} /\ missed = {}
  /\ mode \in [Dongles -> {"application", "bootloader"}]
  /\ range \in [Dongles -> Ranges]
  /\ pointer = [d \in Dongles |-> 0]
  /\ flash \in {[d \in Dongles |-> IF d \in S THEN Image(range[d])
                                   ELSE Filled(range[d], Old)] :
                S \in SUBSET Dongles}

----------------------------------------------------------------------------
(* fcd_for_each, with fcd_reset (phases "enter", "leave") or funcube_flash *)

Enumerate ==
  /\ pc = "list"
  /\ pc' = "next" /\ todo' = Present /\ paths' = Present
  /\ UNCHANGED <<args, phase, job, cur, locals, outcome, mode, missed, memory>>

\* Mutant: the loop goes on after a failed call.
Break_Never == FALSE

\* "abort on first error"
Break == result # 0 /\ phase = "flash"

ForEach ==
  /\ pc = "next" /\ todo # {} /\ ~Break
  /\ cur' \in todo /\ todo' = todo \ {cur'}
  /\ pc' = IF phase = "flash" THEN "open" ELSE "reset"
  /\ job' = "open"
  /\ UNCHANGED <<args, phase, locals, outcome, bus, memory>>

\* Mutant: no restart after a failure.
AfterFlash_OnlyOnSuccess ==
  IF "reset" \in acts /\ result = 0 THEN phase' = "leave" /\ pc' = "list"
  ELSE pc' = "exit" /\ UNCHANGED phase

\* main, once the flash loop is over: restart all dongles, or exit.
AfterFlash ==
  IF "reset" \in acts THEN phase' = "leave" /\ pc' = "list"
  ELSE pc' = "exit" /\ UNCHANGED phase

ForEachReturn ==
  /\ pc = "next" /\ (todo = {} \/ Break)
  /\ IF phase = "flash" THEN AfterFlash ELSE pc' = "sleep" /\ UNCHANGED phase
  /\ todo' = {}
  /\ UNCHANGED <<args, job, cur, locals, outcome, bus, memory>>

\* Mutant: the path of a dongle stays good when it comes back.
Leave_SamePath(d) == paths

\* What paths are good once d has left the bus: a path holds the address the
\* bus gave the dongle, and it gets another one when it comes back.
Leave(d) == paths \ {d}

\* Any call may fail when the dongle does not get the request, or while fcd
\* has the dongle open.
Fails == Faults \cap {"lost", "fcd"} # {}

\* fcd_reset: whatever happens it returns 0; the dongle that takes the
\* command leaves the bus, and its path is void from then on.
Reset ==
  /\ pc = "reset" /\ pc' = "next"
  /\ LET from == IF phase = "enter" THEN "application" ELSE "bootloader" IN
     \/ /\ cur \notin paths \/ mode[cur] # from \/ Fails
        /\ missed' = IF phase = "leave" /\ mode[cur] = "bootloader"
                     THEN missed \cup {cur} ELSE missed
        /\ UNCHANGED <<paths, mode>>
     \/ /\ cur \in paths /\ mode[cur] = from
        /\ mode' = [mode EXCEPT ![cur] = IF phase = "enter" THEN "entering"
                                         ELSE "leaving"]
        /\ paths' = Leave(cur) /\ UNCHANGED missed
  /\ UNCHANGED <<args, phase, job, list, locals, outcome, memory>>

Reconnecting == {d \in Dongles : mode[d] \in {"entering", "leaving"}}

\* ms_sleep(delay_ms) is over.
Sleep ==
  /\ pc = "sleep" /\ (Reconnecting = {} \/ "slow" \in Faults)
  /\ IF phase = "enter" THEN phase' = "flash" /\ pc' = "list"
     ELSE pc' = "exit" /\ UNCHANGED phase
  /\ UNCHANGED <<args, job, list, locals, outcome, bus, memory>>

----------------------------------------------------------------------------
(* fcd_io on the current path.  Only a bootloader accepts the commands.    *)

Accepts == cur \in paths /\ mode[cur] = "bootloader"

NotCarriedOut == ~Accepts \/ Fails

\* Whether the call succeeds when the dongle carries the request out.
Replies == IF "noreply" \in Faults THEN BOOLEAN ELSE {TRUE}

\* funcube_flash returns r.
Finish(r) ==
  /\ pc' = "next" /\ result' = r
  /\ passed' = IF r = 0 THEN passed \cup {cur} ELSE passed
  /\ UNCHANGED <<phase, job>>

Begin(j) ==
  /\ pc' = (IF j = "erase" THEN "erase" ELSE "range") /\ job' = j
  /\ UNCHANGED <<phase, outcome>>

Later(j) == CASE j = "open" -> {"erase", "write", "verify"}
              [] j = "erase" -> {"write", "verify"}
              [] j = "write" -> {"verify"}
              [] j = "verify" -> {}

\* funcube_flash goes on after part j succeeded.
Continue(j) ==
  LET left == acts \cap Later(j) IN
  \/ "erase" \in left /\ Begin("erase")
  \/ "erase" \notin left /\ "write" \in left /\ Begin("write")
  \/ left = {"verify"} /\ Begin("verify")
  \/ left = {} /\ Finish(0)

Flashing == UNCHANGED <<args, list, bus>>

\* fcd_open opens the path to check it.
Open ==
  /\ pc = "open"
  /\ \/ cur \in paths /\ Continue("open")
     \/ (cur \notin paths \/ Fails) /\ Finish(-1)
  /\ Flashing /\ UNCHANGED <<locals, memory>>

\* fcd_bl_erase_application
Erase ==
  /\ pc = "erase"
  /\ \/ NotCarriedOut /\ Finish(-1) /\ UNCHANGED flash
     \/ /\ Accepts
        /\ flash' = [flash EXCEPT ![cur] = Filled(range[cur], Blank)]
        /\ \E ok \in Replies : IF ok THEN Continue("erase") ELSE Finish(-1)
  /\ Flashing /\ UNCHANGED <<locals, pointer>>

----------------------------------------------------------------------------
(* fcd_bl_flash_write and fcd_bl_flash_verify.                             *)

\* The size argument is an unsigned int.
SizeArg == size % Word

\* Mutant: any non-empty range passes.
Sane_AnyLength(r) == r[1] < r[2]

Sane(r) == r[1] < r[2] /\ (r[2] - r[1]) % 48 = 0

\* fcd_bl_get_address_range and the checks on what it returned
GetRange ==
  /\ pc = "range"
  /\ \/ NotCarriedOut /\ Finish(-1) /\ UNCHANGED locals
     \/ Accepts /\ FALSE \in Replies /\ Finish(-1) /\ UNCHANGED locals
     \/ /\ Accepts
        /\ LET r == range[cur] IN
           \/ ~Sane(r) /\ Finish(-2) /\ UNCHANGED locals
           \/ Sane(r) /\ r[2] > SizeArg /\ Finish(-3) /\ UNCHANGED locals
           \/ /\ Sane(r) /\ r[2] <= SizeArg
              /\ start' = r[1] /\ end' = r[2] /\ UNCHANGED addr
              /\ pc' = "address" /\ UNCHANGED <<phase, job, outcome>>
  /\ Flashing /\ UNCHANGED memory

\* The locals are gone when fcd_bl_flash_write or fcd_bl_flash_verify returns.
Dropped == start' = 0 /\ end' = 0 /\ addr' = 0

\* fcd_bl_set_address(dev, start) and addr = start
SetAddress ==
  /\ pc = "address"
  /\ \/ NotCarriedOut /\ Finish(-4) /\ Dropped /\ UNCHANGED pointer
     \/ /\ Accepts /\ pointer' = [pointer EXCEPT ![cur] = start]
        /\ \/ FALSE \in Replies /\ Finish(-4) /\ Dropped
           \/ /\ addr' = start /\ pc' = "block"
              /\ UNCHANGED <<phase, job, outcome, start, end>>
  /\ Flashing /\ UNCHANGED flash

\* The bootloader moves on to the next block after it read or wrote one; it
\* keeps 32 bits of address as well.
Advance == pointer' = [pointer EXCEPT ![cur] = (@ + 48) % Word]

\* Mutant: the last block is left out.
More_ButLast == addr + 48 < end

\* The loop condition
More == addr < end

\* Mutant: the next block is a whole report away.
NextBlock_Report ==
  /\ addr' = (addr + 64) % Word
  /\ UNCHANGED <<place, outcome, start, end>>

NextBlock ==
  /\ addr' = (addr + 48) % Word
  /\ UNCHANGED <<place, outcome, start, end>>

LoopEnd ==
  /\ pc = "block" /\ ~More
  /\ Continue(job) /\ Dropped
  /\ Flashing /\ UNCHANGED memory

\* What a block holding c holds once block a of the image is written to it:
\* only an erased block is sure to take the data.
Programmed(c, a) == IF c \in {Blank, a} THEN {a} ELSE {a, Junk}

WriteBlock ==
  /\ pc = "block" /\ job = "write" /\ More
  /\ \/ NotCarriedOut /\ Finish(-5) /\ Dropped /\ UNCHANGED memory
     \/ /\ Accepts /\ Advance
        /\ IF pointer[cur] \in Blocks(range[cur])
           THEN \E c \in Programmed(flash[cur][pointer[cur]], addr) :
                  flash' = [flash EXCEPT ![cur][pointer[cur]] = c]
           ELSE UNCHANGED flash
        /\ \/ NextBlock
           \/ FALSE \in Replies /\ Finish(-5) /\ Dropped
  /\ Flashing

Matches == /\ pointer[cur] \in Blocks(range[cur])
           /\ flash[cur][pointer[cur]] = addr

VerifyBlock ==
  /\ pc = "block" /\ job = "verify" /\ More
  /\ \/ NotCarriedOut /\ Finish(-6) /\ Dropped /\ UNCHANGED memory
     \/ /\ Accepts /\ Advance /\ UNCHANGED flash
        /\ \/ Matches /\ NextBlock
           \/ ~Matches /\ Finish(1) /\ Dropped
           \/ FALSE \in Replies /\ Finish(-6) /\ Dropped
  /\ Flashing

----------------------------------------------------------------------------
(* The dongles (external).                                                 *)

Reconnect(d) ==
  /\ d \in Reconnecting
  /\ mode' = [mode EXCEPT ![d] = IF @ = "entering" THEN "bootloader"
                                 ELSE "application"]
  /\ pointer' = [pointer EXCEPT ![d] = 0]
  /\ UNCHANGED <<args, place, list, locals, outcome, paths, missed, flash>>

Unplug(d) ==
  /\ "unplug" \in Faults /\ d \in Present
  /\ mode' = [mode EXCEPT ![d] = "gone"] /\ paths' = Leave(d)
  /\ UNCHANGED <<args, place, list, locals, outcome, missed, memory>>

----------------------------------------------------------------------------
(* fcd.  Of its calls, two move the bootloader's pointer; where it is only *)
(* matters between two blocks of fcd-flash, which sets the address before. *)

Beside ==
  "fcd" \in Faults /\ pc = "block" /\ mode[cur] = "bootloader"

FcdSetsAddress ==
  /\ Beside
  /\ pointer' = [pointer EXCEPT ![cur] = range[cur][1]]
  /\ UNCHANGED <<args, place, list, locals, outcome, bus, flash>>

FcdReadsBlock ==
  /\ Beside /\ Advance
  /\ UNCHANGED <<args, place, list, locals, outcome, bus, flash>>

----------------------------------------------------------------------------
ProgramStep ==
  \/ Enumerate \/ ForEach \/ ForEachReturn \/ Reset \/ Sleep
  \/ Open \/ Erase \/ GetRange \/ SetAddress \/ LoopEnd
  \/ WriteBlock \/ VerifyBlock

Exited == pc = "exit" /\ UNCHANGED vars

Next ==
  \/ ProgramStep
  \/ \E d \in Dongles : Reconnect(d)
  \/ \E d \in Dongles : Unplug(d)
  \/ FcdSetsAddress \/ FcdReadsBlock
  \/ Exited

Spec == Init /\ [][Next]_vars

\* The program runs until it exits, each library call returns, and a dongle
\* that resets comes back.
FairSpec == Spec /\ WF_vars(ProgramStep)
                 /\ \A d \in Dongles : WF_vars(Reconnect(d))

----------------------------------------------------------------------------
(* Properties.                                                             *)

\* Every block the loops touch lies inside the image buffer, although size
\* was cut to 32 bits and addr can wrap: data+addr to data+addr+47 is read
\* by write_block and memcmp (fcd_bootloader.c:117, 158).
InBounds ==
  pc = "block" => /\ (addr - start) % 48 = 0 /\ start <= addr /\ addr <= end
                  /\ addr < end => addr + 48 <= size

\* The address is sent once, before the loop; the program's addr and the
\* bootloader's own pointer stay in step although either side may miss an
\* exchange (fcd_bootloader.c:110-121, 146-162).  This and the next two hold
\* when nobody runs fcd, which moves the pointer behind the program's back.
PointerInStep == pc = "block" /\ cur \in paths => pointer[cur] = addr

\* A dongle funcube_flash returned 0 for holds the whole image when it was
\* verified, or erased and written (flash.c:230-256).
PassedIsProgrammed ==
  "verify" \in acts \/ {"erase", "write"} \subseteq acts
    => \A d \in passed : flash[d] = Image(range[d])

Working == pc \in {"erase", "range", "address", "block"}

\* Dongles whose flash is neither as it came nor the whole image.
Damaged == {d \in Dongles :
              flash[d] \notin {Image(range[d]), Filled(range[d], Old)}}

\* With -ew at most one dongle is half flashed at any time: the one in
\* progress, or the one the failure was reported for.  Exit status 0 then
\* means that none is, and a failure that one is at most ("Terminates on the
\* first call to fn that fails", fcd.h:122).
OneAtATime ==
  {"erase", "write"} \subseteq acts =>
    /\ \A d, e \in Damaged : d = e
    /\ \A d \in Damaged : result # 0 \/ (phase = "flash" /\ Working /\ d = cur)

\* A dongle that passed verification holds every block of the image, also
\* when fcd moves the bootloader's pointer in the middle of it; the blocks
\* need not be in their places, for the write was open to the same.
PassedHasAllBlocks ==
  "verify" \in acts =>
    \A d \in passed : \A a \in Blocks(range[d]) :
      \E b \in Blocks(range[d]) : flash[d][b] = a

\* After -r no dongle that is still there stays in the bootloader, however
\* the flashing ended ("restart all FUNcube dongles", flash.c:450), but for
\* those whose own request to restart was lost or found the dongle in use;
\* provided that none is slow.
Restarted ==
  pc = "exit" /\ "reset" \in acts
    => \A d \in Dongles \ missed : mode[d] \in {"application", "gone"}

\* The program ends: no loop over the list or the blocks runs for ever,
\* whatever range a bootloader reports.
Terminates == <>(pc = "exit")

----------------------------------------------------------------------------
(* The parts of the inductive invariant (FcdFlashProofs).                  *)

Whole(d) == flash[d] \in {Image(range[d]), Filled(range[d], Old)}

\* Where the program is, and what it has yet to do there.
PlaceInv ==
  /\ pc = "open" \/ Working => phase = "flash" /\ result = 0
  /\ phase = "enter" => result = 0 /\ passed = {}
  /\ phase = "flash" => pc \notin {"reset", "sleep"}
  /\ phase = "flash" /\ pc = "list" => result = 0 /\ passed = {}
  /\ pc = "erase" <=> Working /\ job = "erase"
  /\ Working => job \in acts
  /\ phase = "flash" => passed \cap todo = {}
  /\ pc = "open" \/ Working => cur \notin todo \cup passed

\* What is known once the range passed the checks.
RangeInv ==
  pc \in {"address", "block"} =>
    /\ start = range[cur][1] /\ end = range[cur][2]
    /\ start < end /\ (end - start) % 48 = 0 /\ end <= SizeArg

\* The two loops go from block to block and stop at the end.
LoopInv ==
  pc = "block" => (addr - start) % 48 = 0 /\ start <= addr /\ addr <= end

\* Block a of the image is in dongle d, in its place or not.
Held(d, a) == \E b \in Blocks(range[d]) : flash[d][b] = a

VerifyInv ==
  pc = "block" /\ job = "verify" =>
    \A a \in Blocks(range[cur]) : a < addr => Held(cur, a)

\* What holds when nobody runs fcd: what is behind addr is done, and with -e
\* what lies ahead of it is still blank.
Alone == "fcd" \notin Faults

BlockInv ==
  pc = "block" =>
    /\ cur \in paths => pointer[cur] = addr
    /\ job = "verify" \/ "erase" \in acts =>
         \A a \in Blocks(range[cur]) : a < addr => flash[cur][a] = a
    /\ job = "write" /\ "erase" \in acts =>
         \A a \in Blocks(range[cur]) : a >= addr => flash[cur][a] = Blank

\* With -ew, what the dongles hold at each point.
WholeInv ==
  {"erase", "write"} \subseteq acts =>
    /\ \A d \in Dongles : d # cur \/ ~Working => Whole(d) \/ result # 0
    /\ \A d, e \in Damaged : d = e
    /\ pc = "erase" => Whole(cur)
    /\ job = "write" /\ pc \in {"range", "address"}
         => flash[cur] = Filled(range[cur], Blank)
    /\ job = "verify" /\ Working => flash[cur] = Image(range[cur])

\* Nothing reconnects while dongles are flashed; after that, a dongle in the
\* bootloader is still to be restarted, or its request to restart was missed.
RestartInv ==
  /\ pc = "exit" /\ "reset" \in acts => phase = "leave" /\ Reconnecting = {}
  /\ phase = "flash" \/ (phase = "leave" /\ pc = "list") => Reconnecting = {}
  /\ phase = "leave" => \A d \in Dongles : mode[d] # "entering"
  /\ phase = "leave" /\ pc \in {"sleep", "exit"} => todo = {}
  /\ phase = "leave" /\ pc # "list" =>
       \A d \in Dongles \ missed : mode[d] = "bootloader" =>
         d \in todo \/ (pc = "reset" /\ d = cur)
=============================================================================
