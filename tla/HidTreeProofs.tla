---------------------------- MODULE HidTreeProofs ----------------------------
(***************************************************************************)
(* Proofs about HidTree, for any number of processes, devices, buses and   *)
(* interfaces.                                                             *)
(***************************************************************************)
EXTENDS HidTree, TLAPS

Wants == [product : Wanted, serial : Serials \cup {Null}]

\* As long as the device at path p has not left since the enumeration, it is
\* what o asked for.
Fits(o, p) ==
  /\ p \in Paths /\ want[o] \in Wants
  /\ p[1] \in steady[o] =>
       /\ Product[device[p[1]]] = want[o].product
       /\ want[o].serial \in {Null, Serial[device[p[1]]]}

\* What the callers know are paths of what they asked for.
SearchInv(o) ==
  /\ pc[o] \in {"idle", "found"} => caller[o] = "idle"
  /\ pc[o] = "each" => caller[o] = "each"
  /\ caller[o] = "idle" => devs[o] = {}
  /\ path[o] # Null => Fits(o, path[o])
  /\ Busy(o) => Fits(o, path[o])
  /\ \A p \in devs[o] : Fits(o, p)

\* The walk has yet to see the one setting with the path.
WalkInv(o) ==
  /\ pc[o] # "walk" => todo[o] = {}
  /\ \A e \in todo[o] : <<e[1], e[2][1]>> = path[o]
  /\ \A e, f \in todo[o] : e = f

Opened(o) == \A a \in Addresses : opened[o][a] = IF a = path[o][1] THEN 1 ELSE 0
NoClaims(o) == \A c \in claims : c[1] # o

Clean(o) == /\ \A a \in Addresses : opened[o][a] = 0
            /\ threads[o] = 0 /\ NoClaims(o)

Owns(o) ==
  /\ handle[o] = path[o] /\ Opened(o) /\ threads[o] = 1
  /\ \A c \in claims : c[1] = o => <<c[2], c[3]>> = path[o]
  /\ ~gone[o] => <<o, path[o][1], path[o][2]>> \in claims

\* What an opener owns at each place.
HoldInv(o) ==
  /\ ~Busy(o) => Clean(o)
  /\ pc[o] = "walk" /\ ~good_open[o] => Clean(o)
  /\ pc[o] = "walk" /\ good_open[o] => Owns(o) /\ todo[o] = {}
  /\ pc[o] \in {"driver", "detach", "claim"} =>
       /\ handle[o] = path[o] /\ Opened(o) /\ threads[o] = 0 /\ NoClaims(o)
       /\ good_open[o]
  /\ pc[o] = "open" => Owns(o)

\* What an opener nobody disturbed can rely on.
CalmInv(o) ==
  /\ pc[o] \in {"idle", "found", "each", "crashed"} => ~gone[o] /\ ~calm[o]
  /\ pc[o] = "null" => ~calm[o]
  /\ calm[o] => /\ path[o][1] \in configured /\ ~gone[o]
                /\ \A r \in Openers \ {o} : Busy(r) => path[r] # path[o]
  /\ calm[o] /\ pc[o] = "walk" /\ ~good_open[o] => todo[o] # {}
  /\ calm[o] /\ pc[o] = "detach" => path[o] \in drivers
  /\ calm[o] /\ pc[o] = "claim" => path[o] \notin drivers

\* The paths of what has been there all the time are visited or still to be.
VisitInv(o) ==
  /\ steady[o] \subseteq present
  /\ caller[o] = "each" =>
       \A a \in steady[o] : Product[device[a]] = want[o].product =>
         \A s \in Settings[device[a]] : <<a, s[1]>> \in visited[o] \cup devs[o]

OpenerInv(o) ==
  SearchInv(o) /\ WalkInv(o) /\ HoldInv(o) /\ CalmInv(o) /\ VisitInv(o)

IInv == TypeOK /\ \A o \in Openers : OpenerInv(o)

----------------------------------------------------------------------------
(* What a step of opener q leaves to the others.                           *)

Frame(q) ==
  /\ UNCHANGED busVars
  /\ drivers' \subseteq drivers /\ drivers \ {path[q]} \subseteq drivers'
  /\ drivers' # drivers => Busy(q)
  /\ \A o \in Openers \ {q} :
       /\ pc'[o] = pc[o] /\ caller'[o] = caller[o] /\ want'[o] = want[o]
       /\ path'[o] = path[o] /\ devs'[o] = devs[o] /\ visited'[o] = visited[o]
       /\ todo'[o] = todo[o] /\ good_open'[o] = good_open[o]
       /\ handle'[o] = handle[o] /\ steady'[o] = steady[o] /\ gone'[o] = gone[o]
       /\ opened'[o] = opened[o] /\ threads'[o] = threads[o]
       /\ \A c \in claims \cup claims' : c[1] = o => (c \in claims' <=> c \in claims)
       /\ calm'[o] => /\ calm[o]
                      /\ Busy(q)' => \/ path'[q] # path[o]
                                     \/ Busy(q) /\ path'[q] = path[q]

LEMMA FrameKeeps ==
  ASSUME IInv, NEW q \in Openers, Frame(q), NEW o \in Openers \ {q}
  PROVE  OpenerInv(o)'
<1> USE DEF busVars
<1>0. OpenerInv(o) /\ o \in Openers
  BY DEF IInv
<1>1. /\ pc'[o] = pc[o] /\ caller'[o] = caller[o] /\ want'[o] = want[o]
      /\ path'[o] = path[o] /\ devs'[o] = devs[o] /\ visited'[o] = visited[o]
      /\ todo'[o] = todo[o] /\ good_open'[o] = good_open[o]
      /\ handle'[o] = handle[o] /\ steady'[o] = steady[o] /\ gone'[o] = gone[o]
      /\ opened'[o] = opened[o] /\ threads'[o] = threads[o]
      /\ UNCHANGED <<device, present, configured>>
  BY DEF Frame, present
<1>2. SearchInv(o)'
  <2>1. \A p : Fits(o, p) => Fits(o, p)'
    BY <1>1 DEF Fits
  <2> QED BY <1>0, <1>1, <2>1 DEF OpenerInv, SearchInv, Busy
<1>3. WalkInv(o)'
  BY <1>0, <1>1 DEF OpenerInv, WalkInv
<1>4. \A c \in claims \cup claims' : c[1] = o => (c \in claims' <=> c \in claims)
  BY DEF Frame
<1>5. (Clean(o) => Clean(o)') /\ (NoClaims(o) => NoClaims(o)') /\ (Opened(o) => Opened(o)')
  BY <1>1, <1>4 DEF Clean, NoClaims, Opened
<1>6. Owns(o) => Owns(o)'
  <2>1. SUFFICES ASSUME Owns(o) PROVE Owns(o)'
    OBVIOUS
  <2>2. \A c \in claims' : c[1] = o => <<c[2], c[3]>> = path'[o]
    BY <1>1, <1>4, <2>1 DEF Owns
  <2>3. ~gone'[o] => <<o, path'[o][1], path'[o][2]>> \in claims'
    <3>1. <<o, path[o][1], path[o][2]>>[1] = o
      OBVIOUS
    <3> QED BY <1>1, <1>4, <2>1, <3>1 DEF Owns
  <2> QED BY <1>1, <1>5, <2>1, <2>2, <2>3 DEF Owns
<1>7. HoldInv(o)'
  BY <1>0, <1>1, <1>5, <1>6 DEF OpenerInv, HoldInv, Busy
<1>8. CalmInv(o)'
  <2>1. calm'[o] => calm[o]
    BY DEF Frame
  <2>2. ASSUME calm'[o], NEW r \in Openers \ {o}, Busy(r)'
        PROVE  path'[r] # path'[o]
    <3>1. CASE r = q
      BY <1>0, <1>1, <2>2, <3>1 DEF Frame, OpenerInv, CalmInv
    <3>2. CASE r # q
      <4>1. Busy(r) /\ path'[r] = path[r]
        BY <2>2, <3>2 DEF Frame, Busy
      <4> QED BY <1>0, <1>1, <2>1, <2>2, <4>1 DEF OpenerInv, CalmInv
    <3> QED BY <3>1, <3>2
  <2>3. calm'[o] => (path[o] \in drivers => path[o] \in drivers')
    <3>1. calm[o] /\ Busy(q) => path[q] # path[o]
      BY <1>0 DEF OpenerInv, CalmInv
    <3> QED BY <2>1, <3>1 DEF Frame
  <2>4. drivers' \subseteq drivers
    BY DEF Frame
  <2> QED BY <1>0, <1>1, <2>1, <2>2, <2>3, <2>4 DEF OpenerInv, CalmInv
<1>9. VisitInv(o)'
  BY <1>0, <1>1 DEF OpenerInv, VisitInv
<1> QED BY <1>2, <1>3, <1>7, <1>8, <1>9 DEF OpenerInv

\* So a step of q keeps the invariant if it keeps it for q.
LEMMA OwnStepSuffices ==
  ASSUME IInv, NEW q \in Openers, Frame(q), TypeOK', OpenerInv(q)'
  PROVE  IInv'
<1>1. \A o \in Openers : OpenerInv(o)'
  BY FrameKeeps
<1> QED BY <1>1 DEF IInv

----------------------------------------------------------------------------
(* Enumeration                                                             *)

\* A record is that of a listed setting of a device of the product.
LEMMA RecordFacts ==
  ASSUME TypeOK, NEW product \in Wanted, NEW found \in hid_enumerate(product),
         NEW r \in found.records
  PROVE  /\ r.path \in Paths /\ r.path[1] \in present
         /\ Product[device[r.path[1]]] = product
         /\ r.serial \in {Null, Serial[device[r.path[1]]]}
<1>1. PICK denied \in SUBSET present : r \in Records(product, denied)
  BY DEF hid_enumerate, Failed
<1>2. PICK e \in ListedOf(product) : r = Record(e, e[1] \notin denied)
  BY <1>1 DEF Records
<1>3. /\ e \in present \X UNION {Settings[d] : d \in Devices}
      /\ e[2] \in Settings[device[e[1]]] /\ Product[device[e[1]]] = product
  BY <1>2 DEF ListedOf, Listed
<1>4. e[1] \in present /\ e[1] \in Addresses /\ device[e[1]] \in Devices
  BY <1>3 DEF TypeOK, present
<1>5. e[2][1] \in Interfaces
  BY <1>3, <1>4 DEF Interfaces
<1>6. /\ r.path = <<e[1], e[2][1]>>
      /\ r.serial \in {Null, Serial[device[e[1]]]}
  BY <1>2 DEF Record, make_path
<1>7. r.path \in Paths
  BY <1>4, <1>5, <1>6 DEF Paths
<1> QED BY <1>3, <1>4, <1>6, <1>7

\* If hid_enumerate had a list, it has a record of every setting of every
\* device of the product.
LEMMA ListFacts ==
  ASSUME TypeOK, NEW product \in Wanted, NEW found \in hid_enumerate(product),
         NEW seen, seen = found.seen \cup {r.path[1] : r \in found.records}
  PROVE  /\ seen \subseteq present
         /\ \A a \in seen : Product[device[a]] = product =>
              \A s \in Settings[device[a]] : \E r \in found.records : r.path = <<a, s[1]>>
<1>1. CASE found = Failed
  <2>1. seen = {}
    BY <1>1 DEF Failed
  <2> QED BY <2>1
<1>2. CASE \E denied \in SUBSET present :
             found = [records |-> Records(product, denied), seen |-> Fitting(product)]
  <2>1. PICK denied \in SUBSET present :
          found.records = Records(product, denied) /\ found.seen = Fitting(product)
    BY <1>2
  <2>2. \A r \in found.records : r.path[1] \in present
    BY RecordFacts
  <2>3. seen \subseteq present
    BY <2>1, <2>2 DEF Fitting
  <2>4. ASSUME NEW a \in seen, Product[device[a]] = product, NEW s \in Settings[device[a]]
        PROVE  \E r \in found.records : r.path = <<a, s[1]>>
    <3>1. a \in present /\ device[a] \in Devices
      BY <2>3, <2>4 DEF TypeOK, present
    <3>2. <<a, s>> \in ListedOf(product)
      BY <2>4, <3>1 DEF ListedOf, Listed
    <3>3. Record(<<a, s>>, a \notin denied) \in found.records
      BY <2>1, <3>2 DEF Records
    <3>4. Record(<<a, s>>, a \notin denied).path = <<a, s[1]>>
      BY DEF Record, make_path
    <3> QED BY <3>3, <3>4
  <2> QED BY <2>3, <2>4
<1> QED BY <1>1, <1>2 DEF hid_enumerate

\* So the paths of the records that fit are paths of what was asked for.
LEMMA AskFacts ==
  ASSUME IInv, NEW q \in Openers, NEW product \in Wanted,
         NEW serial \in Serials \cup {Null}, NEW found \in hid_enumerate(product),
         Ask(q, product, serial, found), device' = device
  PROVE  /\ want' \in [Openers -> Wants \cup {Null}]
         /\ want'[q] = [product |-> product, serial |-> serial]
         /\ steady' \in [Openers -> SUBSET Addresses]
         /\ steady'[q] = found.seen \cup {r.path[1] : r \in found.records}
         /\ steady'[q] \subseteq present'
         /\ \A o \in Openers \ {q} : want'[o] = want[o] /\ steady'[o] = steady[o]
         /\ \A r \in found.records :
              r.path \in Paths /\ (serial \in {Null, r.serial} => Fits(q, r.path)')
<1> DEFINE w == [product |-> product, serial |-> serial]
           seen == found.seen \cup {r.path[1] : r \in found.records}
<1>1. TypeOK /\ want \in [Openers -> Wants \cup {Null}]
  BY DEF IInv, TypeOK, Wants
<1>2. w \in Wants /\ w.product = product /\ w.serial = serial
  BY DEF Wants
<1>3. seen \subseteq present
  BY <1>1, ListFacts
<1>4. want' = [want EXCEPT ![q] = w] /\ steady' = [steady EXCEPT ![q] = seen]
  BY DEF Ask
<1>5. present' = present /\ present \subseteq Addresses
  BY DEF present
<1>6. w = [product |-> product, serial |-> serial]
      /\ seen = found.seen \cup {r.path[1] : r \in found.records}
  OBVIOUS
<1> HIDE DEF w, seen
<1>7. /\ want' \in [Openers -> Wants \cup {Null}] /\ want'[q] = w
      /\ steady' \in [Openers -> SUBSET Addresses] /\ steady'[q] = seen
      /\ \A o \in Openers \ {q} : want'[o] = want[o] /\ steady'[o] = steady[o]
  BY <1>1, <1>2, <1>3, <1>4, <1>5 DEF TypeOK
<1>8. ASSUME NEW r \in found.records, serial \in {Null, r.serial}
      PROVE  Fits(q, r.path)'
  <2>1. /\ r.path \in Paths /\ Product[device[r.path[1]]] = product
        /\ r.serial \in {Null, Serial[device[r.path[1]]]}
    BY <1>1, RecordFacts
  <2>2. serial \in {Null, Serial[device[r.path[1]]]}
    BY <1>8, <2>1
  <2> QED BY <1>2, <1>7, <2>1, <2>2 DEF Fits
<1>9. \A r \in found.records : r.path \in Paths
  BY <1>1, RecordFacts
<1> QED BY <1>3, <1>5, <1>6, <1>7, <1>8, <1>9

----------------------------------------------------------------------------
(* The steps of the callers that open nothing                              *)

Places == {"idle", "found", "each", "walk", "driver", "detach", "claim", "open",
           "null", "crashed"}
Outside == {"idle", "found", "each", "crashed"}

LEMMA GoToStep ==
  ASSUME IInv, NEW q \in Openers, pc[q] \in Outside,
         NEW where \in Outside, NEW p \in Paths \cup {Null},
         GoTo(q, where, p),
         want' \in [Openers -> Wants \cup {Null}],
         caller' \in [Openers -> {"idle", "each"}],
         devs' \in [Openers -> SUBSET Paths],
         visited' \in [Openers -> SUBSET Paths],
         steady' \in [Openers -> SUBSET Addresses],
         \A o \in Openers \ {q} :
           /\ want'[o] = want[o] /\ caller'[o] = caller[o] /\ devs'[o] = devs[o]
           /\ visited'[o] = visited[o] /\ steady'[o] = steady[o],
         SearchInv(q)', VisitInv(q)'
  PROVE  IInv'
<1>1. /\ UNCHANGED <<calm, gone, todo, good_open, handle, device, present, configured,
                     drivers, opened, claims, threads>>
      /\ pc' = [pc EXCEPT ![q] = where] /\ path' = [path EXCEPT ![q] = p]
  BY DEF GoTo, walkVars, busVars, kernelVars, present
<1>2. /\ TypeOK /\ OpenerInv(q) /\ ~Busy(q) /\ pc[q] # "walk"
      /\ pc \in [Openers -> Places] /\ path \in [Openers -> Paths \cup {Null}]
  BY DEF IInv, Busy, TypeOK, Places, Outside
<1>3. /\ pc'[q] = where /\ pc'[q] # "walk" /\ ~Busy(q)'
      /\ \A o \in Openers \ {q} : pc'[o] = pc[o] /\ path'[o] = path[o]
  BY <1>1, <1>2 DEF Busy, Outside
<1>4. TypeOK'
  <2>1. pc' \in [Openers -> Places] /\ path' \in [Openers -> Paths \cup {Null}]
    BY <1>1, <1>2 DEF Places, Outside
  <2> QED BY <1>1, <1>2, <2>1 DEF TypeOK, Wants, Places
<1>5. Frame(q)
  BY <1>1, <1>3 DEF Frame, busVars
<1>6. WalkInv(q)'
  BY <1>1, <1>2, <1>3 DEF OpenerInv, WalkInv
<1>7. HoldInv(q)'
  <2>1. Clean(q)'
    BY <1>1, <1>2 DEF OpenerInv, HoldInv, Clean, NoClaims
  <2> QED BY <1>3, <2>1 DEF HoldInv, Outside
<1>8. CalmInv(q)'
  <2>1. ~gone'[q] /\ ~calm'[q]
    BY <1>1, <1>2 DEF OpenerInv, CalmInv, Outside
  <2> QED BY <2>1 DEF CalmInv
<1>9. OpenerInv(q)'
  BY <1>6, <1>7, <1>8 DEF OpenerInv
<1> QED BY <1>4, <1>5, <1>9, OwnStepSuffices

\* The path is forgotten: hid_open and fcd_open found nothing, the process
\* was ended, fcd_for_each is over.
LEMMA ForgetKeeps ==
  ASSUME IInv, NEW q \in Openers, pc[q] \in Outside,
         NEW where \in {"idle", "crashed"}, Forget(q, where),
         caller' \in [Openers -> {"idle", "each"}], caller'[q] = "idle",
         devs' \in [Openers -> SUBSET Paths], devs'[q] = {},
         visited' \in [Openers -> SUBSET Paths],
         \A o \in Openers \ {q} : /\ caller'[o] = caller[o] /\ devs'[o] = devs[o]
                                  /\ visited'[o] = visited[o]
  PROVE  IInv'
<1>1. /\ want' = [want EXCEPT ![q] = Null] /\ steady' = [steady EXCEPT ![q] = {}]
      /\ GoTo(q, where, Null)
      /\ pc' = [pc EXCEPT ![q] = where] /\ path' = [path EXCEPT ![q] = Null]
  BY DEF Forget, GoTo
<1>2. TypeOK
  BY DEF IInv
<1>3. /\ want' \in [Openers -> Wants \cup {Null}]
      /\ steady' \in [Openers -> SUBSET Addresses] /\ steady'[q] = {}
      /\ \A o \in Openers \ {q} : want'[o] = want[o] /\ steady'[o] = steady[o]
  BY <1>1, <1>2 DEF TypeOK, Wants
<1>4. pc'[q] = where /\ path'[q] = Null
  BY <1>1, <1>2 DEF TypeOK
<1>5. SearchInv(q)' /\ VisitInv(q)'
  BY <1>3, <1>4 DEF SearchInv, VisitInv, Busy
<1>6. where \in Outside /\ Null \in Paths \cup {Null}
  BY DEF Outside
<1> QED BY <1>1, <1>3, <1>5, <1>6, GoToStep

\* hid_open and fcd_open keep the path of a record that fits.
LEMMA ChooseKeeps ==
  ASSUME IInv, NEW q \in Openers, pc[q] = "idle", NEW product \in Wanted,
         NEW serial \in Serials \cup {Null}, NEW found \in hid_enumerate(product),
         Ask(q, product, serial, found),
         NEW r \in found.records, serial \in {Null, r.serial},
         NEW where \in {"idle", "found"}, GoTo(q, where, r.path),
         UNCHANGED <<caller, devs, visited>>
  PROVE  IInv'
<1>1. /\ device' = device
      /\ pc' = [pc EXCEPT ![q] = where] /\ path' = [path EXCEPT ![q] = r.path]
  BY DEF GoTo, busVars
<1>2. /\ want' \in [Openers -> Wants \cup {Null}]
      /\ steady' \in [Openers -> SUBSET Addresses] /\ steady'[q] \subseteq present'
      /\ \A o \in Openers \ {q} : want'[o] = want[o] /\ steady'[o] = steady[o]
      /\ r.path \in Paths /\ Fits(q, r.path)'
  BY <1>1, AskFacts
<1>3. TypeOK /\ caller[q] = "idle" /\ devs[q] = {}
  BY DEF IInv, OpenerInv, SearchInv
<1>4. pc'[q] = where /\ path'[q] = r.path
  BY <1>1, <1>3 DEF TypeOK
<1>5. SearchInv(q)'
  BY <1>2, <1>3, <1>4 DEF SearchInv, Busy
<1>6. VisitInv(q)'
  BY <1>2, <1>3 DEF VisitInv
<1>7. pc[q] \in Outside /\ where \in Outside /\ r.path \in Paths \cup {Null}
  BY <1>2 DEF Outside
<1>8. /\ caller' \in [Openers -> {"idle", "each"}]
      /\ devs' \in [Openers -> SUBSET Paths] /\ visited' \in [Openers -> SUBSET Paths]
  BY <1>3 DEF TypeOK
<1> QED BY <1>2, <1>5, <1>6, <1>7, <1>8, GoToStep

LEMMA HidOpenKeeps ==
  ASSUME IInv, NEW q \in Openers, NEW product \in Wanted,
         NEW serial \in Serials \cup {Null}, HidOpen(q, product, serial)
  PROVE  IInv'
<1>1. PICK found \in hid_enumerate(product) :
        LET fit == {r \in found.records : serial = Null \/ r.serial = serial}
        IN \/ /\ Ask(q, product, serial, found)
              /\ \E r \in fit : GoTo(q, "found", r.path)
           \/ fit = {} /\ Forget(q, "idle")
           \/ /\ serial # Null /\ \E r \in found.records : r.serial = Null
              /\ Forget(q, "crashed")
  BY DEF HidOpen
<1>2. pc[q] = "idle" /\ UNCHANGED <<caller, devs, visited>>
  BY DEF HidOpen
<1>3. TypeOK /\ caller[q] = "idle" /\ devs[q] = {}
  BY <1>2 DEF IInv, OpenerInv, SearchInv
<1>4. CASE \E where \in {"idle", "crashed"} : Forget(q, where)
  BY <1>2, <1>3, <1>4, ForgetKeeps DEF TypeOK, Outside
<1>5. CASE /\ Ask(q, product, serial, found)
           /\ \E r \in found.records : serial \in {Null, r.serial} /\ GoTo(q, "found", r.path)
  BY <1>2, <1>5, ChooseKeeps
<1> QED BY <1>1, <1>4, <1>5

LEMMA FcdOpenFirstKeeps ==
  ASSUME IInv, NEW q \in Openers, NEW product \in Wanted, FcdOpenFirst(q, product)
  PROVE  IInv'
<1>1. PICK found \in hid_enumerate(product) :
        \/ /\ Ask(q, product, Null, found)
           /\ \E r \in found.records : GoTo(q, "idle", r.path)
        \/ found.records = {} /\ Forget(q, "idle")
  BY DEF FcdOpenFirst
<1>2. pc[q] = "idle" /\ UNCHANGED <<caller, devs, visited>>
  BY DEF FcdOpenFirst
<1>3. TypeOK /\ caller[q] = "idle" /\ devs[q] = {}
  BY <1>2 DEF IInv, OpenerInv, SearchInv
<1>4. CASE Forget(q, "idle")
  BY <1>2, <1>3, <1>4, ForgetKeeps DEF TypeOK, Outside
<1>5. CASE Ask(q, product, Null, found) /\ \E r \in found.records : GoTo(q, "idle", r.path)
  BY <1>2, <1>5, ChooseKeeps
<1> QED BY <1>1, <1>4, <1>5

LEMMA FcdForEachKeeps ==
  ASSUME IInv, NEW q \in Openers, NEW product \in Wanted, FcdForEach(q, product)
  PROVE  IInv'
<1>1. PICK found \in hid_enumerate(product) :
        /\ Ask(q, product, Null, found)
        /\ devs' = [devs EXCEPT ![q] = {r.path : r \in found.records}]
  BY DEF FcdForEach
<1> DEFINE all == {r.path : r \in found.records}
<1>2. /\ pc[q] = "idle" /\ device' = device /\ present' = present
      /\ caller' = [caller EXCEPT ![q] = "each"]
      /\ visited' = [visited EXCEPT ![q] = {}]
      /\ pc' = [pc EXCEPT ![q] = "each"] /\ path' = [path EXCEPT ![q] = Null]
      /\ GoTo(q, "each", Null)
  BY DEF FcdForEach, GoTo, busVars, present
<1>3. /\ want' \in [Openers -> Wants \cup {Null}]
      /\ want'[q] = [product |-> product, serial |-> Null]
      /\ steady' \in [Openers -> SUBSET Addresses]
      /\ steady'[q] = found.seen \cup {r.path[1] : r \in found.records}
      /\ steady'[q] \subseteq present'
      /\ \A o \in Openers \ {q} : want'[o] = want[o] /\ steady'[o] = steady[o]
      /\ \A r \in found.records : r.path \in Paths /\ Fits(q, r.path)'
  BY <1>1, <1>2, AskFacts
<1>4. TypeOK
  BY DEF IInv
<1>5. \A a \in steady'[q] : Product[device[a]] = product =>
        \A s \in Settings[device[a]] : <<a, s[1]>> \in all
  <2> DEFINE seen == found.seen \cup {r.path[1] : r \in found.records}
  <2>1. \A a \in seen : Product[device[a]] = product =>
          \A s \in Settings[device[a]] : \E r \in found.records : r.path = <<a, s[1]>>
    BY <1>4, ListFacts
  <2>2. steady'[q] = seen
    BY <1>3
  <2> HIDE DEF seen
  <2> QED BY <2>1, <2>2
<1>6. /\ devs' = [devs EXCEPT ![q] = all] /\ all \in SUBSET Paths
      /\ \A p \in all : Fits(q, p)'
  BY <1>1, <1>3
<1>7. want'[q].product = product
  BY <1>3
<1> HIDE DEF all
<1>8. /\ caller' \in [Openers -> {"idle", "each"}]
      /\ devs' \in [Openers -> SUBSET Paths] /\ visited' \in [Openers -> SUBSET Paths]
  BY <1>2, <1>4, <1>6 DEF TypeOK
<1>9. /\ caller'[q] = "each" /\ devs'[q] = all /\ visited'[q] = {}
      /\ pc'[q] = "each" /\ path'[q] = Null
      /\ \A o \in Openers \ {q} :
           caller'[o] = caller[o] /\ devs'[o] = devs[o] /\ visited'[o] = visited[o]
  BY <1>2, <1>4, <1>6 DEF TypeOK
<1>10. SearchInv(q)'
  BY <1>6, <1>9 DEF SearchInv, Busy
<1>11. VisitInv(q)'
  BY <1>2, <1>3, <1>5, <1>7, <1>9 DEF VisitInv
<1>12. pc[q] \in Outside /\ "each" \in Outside /\ Null \in Paths \cup {Null}
  BY <1>2 DEF Outside
<1> QED BY <1>2, <1>3, <1>8, <1>9, <1>10, <1>11, <1>12, GoToStep

LEMMA EachOverKeeps ==
  ASSUME IInv, NEW q \in Openers, pc[q] \in {"each", "crashed"}, EachOver(q)
  PROVE  IInv'
<1>1. /\ Forget(q, "idle")
      /\ caller' = [caller EXCEPT ![q] = "idle"]
      /\ devs' = [devs EXCEPT ![q] = {}]
      /\ visited' = [visited EXCEPT ![q] = {}]
  BY DEF EachOver
<1>2. TypeOK
  BY DEF IInv
<1>3. /\ caller' \in [Openers -> {"idle", "each"}] /\ caller'[q] = "idle"
      /\ devs' \in [Openers -> SUBSET Paths] /\ devs'[q] = {}
      /\ visited' \in [Openers -> SUBSET Paths]
      /\ \A o \in Openers \ {q} : /\ caller'[o] = caller[o] /\ devs'[o] = devs[o]
                                  /\ visited'[o] = visited[o]
  BY <1>1, <1>2 DEF TypeOK
<1>4. pc[q] \in Outside /\ "idle" \in {"idle", "crashed"}
  BY DEF Outside
<1> QED BY <1>1, <1>3, <1>4, ForgetKeeps

----------------------------------------------------------------------------
(* hid_open_path begins, for whichever caller, with a path that fits.      *)

\* The settings with path p among those the walk is given.
Match(p) == {e \in Listed : e[1] \in configured /\ make_path(e[1], e[2][1]) = p}

\* They are one setting at most.
LEMMA MatchFacts ==
  ASSUME TypeOK, NEW p
  PROVE  /\ Match(p) \subseteq Addresses \X (Nat \X Nat)
         /\ \A e \in Match(p) : <<e[1], e[2][1]>> = p /\ e[1] \in configured
         /\ \A e, f \in Match(p) : e = f
<1>1. ASSUME NEW e \in Match(p)
      PROVE  /\ e = <<e[1], e[2]>> /\ e[1] \in Addresses /\ e[1] \in configured
             /\ device[e[1]] \in Devices /\ e[2] \in Settings[device[e[1]]]
             /\ e[2] \in Nat \X Nat /\ <<e[1], e[2][1]>> = p
  <2>1. /\ e \in present \X UNION {Settings[d] : d \in Devices}
        /\ e[2] \in Settings[device[e[1]]]
        /\ e[1] \in configured /\ make_path(e[1], e[2][1]) = p
    BY <1>1 DEF Match, Listed
  <2>2. e[1] \in Addresses /\ device[e[1]] \in Devices
    BY <2>1 DEF TypeOK, present
  <2> QED BY <2>1, <2>2, ConstantsAssumption DEF make_path
<1>2. ASSUME NEW e \in Match(p), NEW f \in Match(p) PROVE e = f
  <2>1. e[1] = f[1] /\ e[2][1] = f[2][1]
    BY <1>1
  <2>2. e[2] = f[2]
    BY <1>1, <2>1, ConstantsAssumption
  <2> QED BY <1>1, <2>1, <2>2
<1>3. Match(p) \subseteq Addresses \X (Nat \X Nat)
  BY <1>1
<1> QED BY <1>1, <1>2, <1>3

LEMMA OpenPathStep ==
  ASSUME IInv, NEW q \in Openers, pc[q] \in {"idle", "found", "each"},
         NEW p, Fits(q, p), hid_open_path(q, p),
         want' = want, caller' = caller, steady' = steady,
         visited' \in [Openers -> SUBSET Paths],
         devs' \in [Openers -> SUBSET Paths],
         \A o \in Openers \ {q} : devs'[o] = devs[o] /\ visited'[o] = visited[o],
         devs'[q] \subseteq devs[q],
         visited[q] \cup devs[q] \subseteq visited'[q] \cup devs'[q]
  PROVE  IInv'
<1> USE DEF busVars, kernelVars, walkVars
<1>0. /\ TypeOK /\ OpenerInv(q) /\ ~Busy(q) /\ Clean(q) /\ todo[q] = {}
      /\ pc[q] # "walk" /\ ~gone[q] /\ p \in Paths /\ pc[q] \in Outside
  BY DEF IInv, OpenerInv, HoldInv, WalkInv, CalmInv, Busy, Fits, Outside
<1>1. UNCHANGED <<gone, handle, device, present, configured, drivers, opened, claims,
                  threads>>
  BY DEF hid_open_path, Begin, NoContext, NoDeviceList, GoTo, present
<1>2. \A x : Fits(q, x) => Fits(q, x)'
  BY <1>1 DEF Fits
<1>3. VisitInv(q)'
  BY <1>0, <1>1 DEF OpenerInv, VisitInv
<1>4. /\ pc \in [Openers -> Places] /\ path \in [Openers -> Paths \cup {Null}]
      /\ calm \in [Openers -> BOOLEAN] /\ good_open \in [Openers -> BOOLEAN]
      /\ todo \in [Openers -> SUBSET (Addresses \X (Nat \X Nat))]
  BY <1>0 DEF TypeOK, Places
<1>5. CASE NoDeviceList(q)
  <2>1. /\ GoTo(q, "crashed", Null) /\ pc'[q] = "crashed" /\ path'[q] = Null
        /\ "crashed" \in Outside /\ Null \in Paths \cup {Null}
    BY <1>4, <1>5 DEF NoDeviceList, GoTo, Outside
  <2>2. SearchInv(q)'
    BY <1>0, <1>2, <2>1 DEF OpenerInv, SearchInv, Busy
  <2>3. /\ want' \in [Openers -> Wants \cup {Null}]
        /\ caller' \in [Openers -> {"idle", "each"}]
        /\ steady' \in [Openers -> SUBSET Addresses]
    BY <1>0 DEF TypeOK, Wants
  <2> QED BY <1>0, <1>3, <2>1, <2>2, <2>3, GoToStep
<1>6. CASE Begin(q, p) \/ NoContext(q, p)
  <2>1. /\ path' = [path EXCEPT ![q] = p]
        /\ \/ /\ pc' = [pc EXCEPT ![q] = "walk"]
              /\ todo' = [todo EXCEPT ![q] = Match(p)]
              /\ good_open' = [good_open EXCEPT ![q] = FALSE]
              /\ calm' = [r \in Openers |->
                   IF r = q
                   THEN /\ Match(p) # {}
                        /\ \A o \in Openers \ {q} : ~(Busy(o) /\ path[o] = p)
                   ELSE calm[r] /\ path[r] # p]
           \/ /\ pc' = [pc EXCEPT ![q] = "null"]
              /\ calm' = [calm EXCEPT ![q] = FALSE]
              /\ todo' = todo /\ good_open' = good_open
    BY <1>6 DEF Begin, NoContext, Match
  <2>2. /\ Match(p) \subseteq Addresses \X (Nat \X Nat)
        /\ \A e \in Match(p) : <<e[1], e[2][1]>> = p /\ e[1] \in configured
        /\ \A e, f \in Match(p) : e = f
    BY <1>0, MatchFacts
  <2>3. /\ pc' \in [Openers -> Places] /\ path' \in [Openers -> Paths \cup {Null}]
        /\ calm' \in [Openers -> BOOLEAN] /\ good_open' \in [Openers -> BOOLEAN]
        /\ todo' \in [Openers -> SUBSET (Addresses \X (Nat \X Nat))]
    <3>1. pc' \in [Openers -> Places] /\ path' \in [Openers -> Paths \cup {Null}]
      BY <1>0, <1>4, <2>1 DEF Places
    <3>2. calm' \in [Openers -> BOOLEAN] /\ good_open' \in [Openers -> BOOLEAN]
      BY <1>4, <2>1
    <3>3. todo' = todo \/ todo' = [todo EXCEPT ![q] = Match(p)]
      BY <2>1
    <3> QED BY <1>4, <2>2, <3>1, <3>2, <3>3
  <2>4. TypeOK'
    BY <1>0, <1>1, <2>3 DEF TypeOK, Places
  <2>5. Frame(q)
    <3>1. \A o \in Openers \ {q} :
            /\ pc'[o] = pc[o] /\ path'[o] = path[o] /\ todo'[o] = todo[o]
            /\ good_open'[o] = good_open[o]
      BY <1>4, <2>1
    <3>2. ASSUME NEW o \in Openers \ {q}, calm'[o]
          PROVE  calm[o] /\ (Busy(q)' => path'[q] # path[o])
      BY <1>4, <2>1, <3>2 DEF Busy
    <3> QED BY <1>1, <3>1, <3>2 DEF Frame
  <2>6. /\ path'[q] = p
        /\ \/ /\ pc'[q] = "walk" /\ todo'[q] = Match(p) /\ ~good_open'[q]
              /\ calm'[q] => /\ Match(p) # {}
                             /\ \A o \in Openers \ {q} : ~(Busy(o) /\ path[o] = p)
           \/ pc'[q] = "null" /\ ~calm'[q] /\ todo'[q] = {}
    BY <1>0, <1>4, <2>1
  <2>7. SearchInv(q)'
    <3>1. Fits(q, p)'
      BY <1>2
    <3> QED BY <1>0, <1>2, <2>6, <3>1 DEF OpenerInv, SearchInv
  <2>8. WalkInv(q)'
    BY <2>2, <2>6 DEF WalkInv
  <2>9. HoldInv(q)'
    <3>1. Clean(q)'
      BY <1>0, <1>1 DEF Clean, NoClaims
    <3> QED BY <2>6, <3>1 DEF HoldInv
  <2>10. CalmInv(q)'
    <3>1. \A o \in Openers \ {q} : Busy(o)' = Busy(o) /\ path'[o] = path[o]
      BY <2>5 DEF Frame, Busy
    <3>2. ASSUME NEW e \in Match(p) PROVE p[1] \in configured
      BY <2>2
    <3> QED BY <1>0, <1>1, <2>6, <3>1, <3>2 DEF CalmInv
  <2>11. OpenerInv(q)'
    BY <1>3, <2>7, <2>8, <2>9, <2>10 DEF OpenerInv
  <2> QED BY <2>4, <2>5, <2>11, OwnStepSuffices
<1> QED BY <1>5, <1>6 DEF hid_open_path

LEMMA OpenKnownKeeps ==
  ASSUME IInv, NEW q \in Openers, pc[q] \in {"idle", "found", "each"}, OpenKnown(q)
  PROVE  IInv'
<1>1. /\ path[q] # Null /\ hid_open_path(q, path[q])
      /\ UNCHANGED <<want, caller, devs, visited, steady>>
  BY DEF OpenKnown, loopVars
<1>2. /\ Fits(q, path[q])
      /\ devs \in [Openers -> SUBSET Paths] /\ visited \in [Openers -> SUBSET Paths]
  BY <1>1 DEF IInv, TypeOK, OpenerInv, SearchInv
<1> QED BY <1>1, <1>2, OpenPathStep

LEMMA ForEachCallKeeps ==
  ASSUME IInv, NEW q \in Openers, ForEachCall(q)
  PROVE  IInv'
<1>1. PICK p \in devs[q] :
        /\ devs' = [devs EXCEPT ![q] = @ \ {p}]
        /\ visited' = [visited EXCEPT ![q] = @ \cup {p}]
        /\ hid_open_path(q, p)
  BY DEF ForEachCall
<1>2. pc[q] = "each" /\ UNCHANGED <<want, caller, steady>>
  BY DEF ForEachCall
<1>3. /\ devs \in [Openers -> SUBSET Paths] /\ visited \in [Openers -> SUBSET Paths]
      /\ Fits(q, p) /\ p \in Paths
  BY <1>1 DEF IInv, TypeOK, OpenerInv, SearchInv, Fits
<1>4. /\ devs'[q] = devs[q] \ {p} /\ visited'[q] = visited[q] \cup {p}
      /\ \A o \in Openers \ {q} : devs'[o] = devs[o] /\ visited'[o] = visited[o]
      /\ devs' \in [Openers -> SUBSET Paths] /\ visited' \in [Openers -> SUBSET Paths]
  BY <1>1, <1>3
<1> QED BY <1>1, <1>2, <1>3, <1>4, OpenPathStep

----------------------------------------------------------------------------
(* The steps of hid_open_path and hid_close                                *)

WalkTypes ==
  /\ todo \in [Openers -> SUBSET (Addresses \X (Nat \X Nat))]
  /\ good_open \in [Openers -> BOOLEAN]
  /\ gone \in [Openers -> BOOLEAN] /\ calm \in [Openers -> BOOLEAN]
  /\ handle \in [Openers -> Paths \cup {Null}]
  /\ opened \in [Openers -> [Addresses -> 0..1]]
  /\ threads \in [Openers -> 0..1]
  /\ claims \subseteq Openers \X Addresses \X Interfaces

\* What such a step of q leaves alone.
OthersKept(q) ==
  /\ \A o \in Openers \ {q} :
       /\ todo'[o] = todo[o] /\ good_open'[o] = good_open[o] /\ calm'[o] = calm[o]
       /\ handle'[o] = handle[o] /\ opened'[o] = opened[o] /\ threads'[o] = threads[o]
       /\ gone'[o] = gone[o]
  /\ \A c \in claims \cup claims' : c[1] # q => (c \in claims' <=> c \in claims)
  /\ drivers' \subseteq drivers /\ drivers \ {path[q]} \subseteq drivers'

LEMMA WalkStep ==
  ASSUME IInv, NEW q \in Openers, Busy(q) \/ (pc[q] = "null" /\ drivers' = drivers),
         UNCHANGED <<busVars, want, path, loopVars>>, WalkTypes', OthersKept(q),
         NEW where, pc' = [pc EXCEPT ![q] = where],
         \/ /\ where \in {"walk", "driver", "detach", "claim", "open"}
            /\ Busy(q)
         \/ where \in {"null", caller[q]},
         WalkInv(q)', HoldInv(q)', CalmInv(q)'
  PROVE  IInv'
<1>1. UNCHANGED <<device, present, configured, want, path, caller, devs, visited, steady>>
  BY DEF busVars, loopVars, present
<1>2. /\ TypeOK /\ SearchInv(q) /\ VisitInv(q) /\ caller[q] \in {"idle", "each"}
      /\ pc \in [Openers -> Places]
  BY DEF IInv, OpenerInv, TypeOK, Places
<1>3. pc'[q] = where /\ \A o \in Openers \ {q} : pc'[o] = pc[o]
  BY <1>2
<1>4. TypeOK'
  <2>1. pc' \in [Openers -> Places]
    BY <1>2 DEF Places
  <2>2. drivers' \subseteq Paths
    BY <1>2 DEF TypeOK, OthersKept
  <2> QED BY <1>1, <1>2, <2>1, <2>2 DEF TypeOK, WalkTypes, Places
<1>5. Frame(q)
  <2>1. Busy(q)' => Busy(q)
    BY <1>2, <1>3 DEF Busy
  <2>2. drivers' # drivers => Busy(q)
    OBVIOUS
  <2> QED BY <1>1, <1>3, <2>1, <2>2 DEF Frame, OthersKept, busVars
<1>6. SearchInv(q)'
  <2>1. \A p : Fits(q, p) => Fits(q, p)'
    BY <1>1 DEF Fits
  <2>2. Busy(q)' => Busy(q)
    BY <1>2, <1>3 DEF Busy
  <2> QED BY <1>1, <1>2, <1>3, <2>1, <2>2 DEF SearchInv
<1>7. VisitInv(q)'
  BY <1>1, <1>2 DEF VisitInv
<1>8. OpenerInv(q)'
  BY <1>6, <1>7 DEF OpenerInv
<1> QED BY <1>4, <1>5, <1>8, OwnStepSuffices

LEMMA OpenedStep ==
  ASSUME TypeOK, NEW q \in Openers, NEW a \in Addresses, NEW n, n = 0 \/ n = 1,
         opened' = [opened EXCEPT ![q][a] = n]
  PROVE  /\ opened' \in [Openers -> [Addresses -> 0..1]]
         /\ \A o \in Openers \ {q} : opened'[o] = opened[o]
         /\ opened'[q][a] = n
         /\ \A b \in Addresses \ {a} : opened'[q][b] = opened[q][b]
<1>1. opened \in [Openers -> [Addresses -> 0..1]]
  BY DEF TypeOK
<1>2. opened' = [opened EXCEPT ![q] = [opened[q] EXCEPT ![a] = n]]
  OBVIOUS
<1>3. [opened[q] EXCEPT ![a] = n] \in [Addresses -> 0..1]
  BY <1>1
<1> QED BY <1>1, <1>2, <1>3

\* What an opener inside hid_open_path, or with a handle, is looking at.
LEMMA BusyFacts ==
  ASSUME IInv, NEW q \in Openers, Busy(q)
  PROVE  /\ TypeOK /\ WalkTypes /\ OpenerInv(q) /\ Fits(q, path[q])
         /\ path[q][1] \in Addresses /\ path[q][2] \in Interfaces
         /\ path[q] = <<path[q][1], path[q][2]>> /\ path[q] \in Paths
         /\ pc[q] # "walk" => todo[q] = {}
         /\ WalkInv(q) /\ HoldInv(q) /\ CalmInv(q)
<1>1. TypeOK /\ OpenerInv(q)
  BY DEF IInv
<1>2. WalkTypes
  BY <1>1 DEF TypeOK, WalkTypes
<1>3. Fits(q, path[q])
  BY <1>1 DEF OpenerInv, SearchInv
<1>4. path[q] \in Addresses \X Interfaces
  BY <1>3 DEF Fits, Paths
<1> QED BY <1>1, <1>2, <1>3, <1>4 DEF OpenerInv, WalkInv, Paths

LEMMA LibusbOpenKeeps ==
  ASSUME IInv, NEW q \in Openers, LibusbOpen(q)
  PROVE  IInv'
<1>1. pc[q] = "walk" /\ Busy(q) /\ OnlyWalk
  BY DEF LibusbOpen, Busy
<1>2. /\ UNCHANGED <<drivers, claims, threads, path, present, configured, device, gone>>
  BY DEF LibusbOpen, OnlyWalk, busVars, present
<1> DEFINE Found(e) ==
      /\ opened' = [opened EXCEPT ![q][e[1]] = @ + 1]
      /\ todo' = [todo EXCEPT ![q] = @ \ {e}]
      /\ handle' = [handle EXCEPT ![q] = <<e[1], e[2][1]>>]
      /\ good_open' = [good_open EXCEPT ![q] = TRUE]
      /\ pc' = [pc EXCEPT ![q] = "driver"]
      /\ UNCHANGED calm
    Refuses(e) ==
      /\ Skip(q, e)
      /\ calm' = [calm EXCEPT ![q] = FALSE]
      /\ UNCHANGED <<pc, opened, handle, good_open>>
<1>3. PICK e \in todo[q] : Found(e) \/ Refuses(e)
  BY DEF LibusbOpen
<1>4. /\ TypeOK /\ WalkTypes /\ OpenerInv(q) /\ WalkInv(q) /\ HoldInv(q)
      /\ CalmInv(q) /\ path[q] \in Paths /\ path[q][1] \in Addresses
  BY <1>1, BusyFacts
<1>5. /\ <<e[1], e[2][1]>> = path[q] /\ e[1] = path[q][1]
      /\ ~good_open[q] /\ Clean(q)
  BY <1>1, <1>3, <1>4 DEF WalkInv, HoldInv
<1>6. ASSUME Found(e) PROVE IInv'
  <2>1. opened[q][e[1]] = 0 /\ opened' = [opened EXCEPT ![q][e[1]] = 1]
    <3>1. opened[q][e[1]] = 0
      BY <1>4, <1>5 DEF Clean
    <3>2. opened' = [opened EXCEPT ![q][e[1]] = opened[q][e[1]] + 1]
      BY <1>6
    <3> QED BY <3>1, <3>2
  <2>2. /\ opened' \in [Openers -> [Addresses -> 0..1]]
        /\ \A o \in Openers \ {q} : opened'[o] = opened[o]
        /\ opened'[q][e[1]] = 1
        /\ \A b \in Addresses \ {e[1]} : opened'[q][b] = opened[q][b]
    BY <1>4, <1>5, <2>1, OpenedStep
  <2>3. todo[q] \ {e} = {}
    BY <1>3, <1>4 DEF WalkInv
  <2>4. todo' = [todo EXCEPT ![q] = {}]
    BY <1>6, <2>3
  <2>5. /\ todo'[q] = {} /\ handle'[q] = path[q] /\ good_open'[q] /\ pc'[q] = "driver"
        /\ \A o \in Openers \ {q} :
             /\ todo'[o] = todo[o] /\ handle'[o] = handle[o]
             /\ good_open'[o] = good_open[o] /\ pc'[o] = pc[o]
    BY <1>4, <1>5, <1>6, <2>4 DEF TypeOK
  <2>6. todo' \in [Openers -> SUBSET (Addresses \X (Nat \X Nat))]
        /\ good_open' \in [Openers -> BOOLEAN]
        /\ handle' \in [Openers -> Paths \cup {Null}]
    BY <1>4, <1>5, <1>6, <2>4 DEF WalkTypes
  <2>7. WalkTypes'
    BY <1>2, <1>4, <1>6, <2>2, <2>6 DEF WalkTypes
  <2>8. OthersKept(q)
    BY <1>2, <1>6, <2>2, <2>5 DEF OthersKept
  <2>9. WalkInv(q)'
    BY <2>5 DEF WalkInv
  <2>10. HoldInv(q)'
    <3>1. Opened(q)'
      BY <1>2, <1>5, <2>2 DEF Clean, Opened
    <3>2. threads'[q] = 0 /\ NoClaims(q)'
      BY <1>2, <1>5 DEF Clean, NoClaims
    <3> QED BY <1>2, <2>5, <3>1, <3>2 DEF HoldInv, Busy
  <2>11. CalmInv(q)'
    <3>1. \A r \in Openers \ {q} : Busy(r)' => Busy(r)
      BY <2>5 DEF Busy
    <3> QED BY <1>2, <1>4, <1>6, <2>5, <3>1 DEF CalmInv
  <2> QED BY <1>1, <1>6, <2>7, <2>8, <2>9, <2>10, <2>11, WalkStep DEF OnlyWalk
<1>7. ASSUME Refuses(e) PROVE IInv'
  <2> DEFINE rest == {f \in todo[q] : <<f[1], f[2][1]>> # <<e[1], e[2][1]>>}
  <2>1. rest \subseteq todo[q] /\ todo' = [todo EXCEPT ![q] = rest]
    BY <1>7 DEF Skip
  <2> HIDE DEF rest
  <2>2. /\ todo'[q] = rest /\ ~calm'[q] /\ pc' = [pc EXCEPT ![q] = "walk"]
        /\ \A o \in Openers \ {q} : todo'[o] = todo[o] /\ calm'[o] = calm[o]
    BY <1>1, <1>4, <1>7, <2>1 DEF TypeOK
  <2>3. todo' \in [Openers -> SUBSET (Addresses \X (Nat \X Nat))]
        /\ calm' \in [Openers -> BOOLEAN]
    BY <1>4, <1>7, <2>1 DEF WalkTypes
  <2>4. WalkTypes'
    BY <1>2, <1>4, <1>7, <2>3 DEF WalkTypes
  <2>5. OthersKept(q)
    BY <1>2, <1>7, <2>2 DEF OthersKept
  <2>6. WalkInv(q)'
    BY <1>1, <1>2, <1>4, <1>7, <2>1, <2>2 DEF WalkInv
  <2>7. HoldInv(q)'
    <3>1. Clean(q)'
      BY <1>2, <1>5, <1>7 DEF Clean, NoClaims
    <3> QED BY <1>1, <1>5, <1>7, <3>1 DEF HoldInv, Busy
  <2>8. CalmInv(q)'
    BY <1>1, <1>7, <2>2 DEF CalmInv
  <2> QED BY <1>1, <2>2, <2>4, <2>5, <2>6, <2>7, <2>8, WalkStep DEF OnlyWalk
<1> QED BY <1>3, <1>6, <1>7

LEMMA TestDriverKeeps ==
  ASSUME IInv, NEW q \in Openers, TestDriver(q)
  PROVE  IInv'
<1>1. /\ pc[q] = "driver" /\ Busy(q) /\ OnlyWalk
      /\ UNCHANGED <<drivers, opened, claims, threads, todo, good_open, handle, calm,
                     path, present, configured, device, gone>>
      /\ pc' = [pc EXCEPT ![q] = IF Bound(q) THEN "detach" ELSE "claim"]
  BY DEF TestDriver, Busy, OnlyWalk, busVars, kernelVars, walkVars, present
<1>2. /\ TypeOK /\ WalkTypes /\ OpenerInv(q) /\ WalkInv(q) /\ HoldInv(q)
      /\ CalmInv(q) /\ todo[q] = {}
  BY <1>1, BusyFacts
<1>3. PICK where \in {"detach", "claim"} :
        /\ pc' = [pc EXCEPT ![q] = where]
        /\ where = "detach" <=> Bound(q)
  BY <1>1
<1>4. pc'[q] = where /\ \A o \in Openers \ {q} : pc'[o] = pc[o]
  BY <1>2, <1>3 DEF TypeOK
<1>5. WalkTypes'
  BY <1>1, <1>2 DEF WalkTypes
<1>6. OthersKept(q)
  BY <1>1 DEF OthersKept
<1>7. WalkInv(q)'
  BY <1>1, <1>2 DEF WalkInv
<1>8. handle[q] = path[q] /\ Opened(q) /\ threads[q] = 0 /\ NoClaims(q) /\ good_open[q]
  BY <1>1, <1>2 DEF HoldInv
<1>9. HoldInv(q)'
  <2>1. Opened(q)' /\ NoClaims(q)'
    BY <1>1, <1>8 DEF Opened, NoClaims
  <2> QED BY <1>1, <1>4, <1>8, <2>1 DEF HoldInv, Busy
<1>10. CalmInv(q)'
  <2>1. \A r \in Openers \ {q} : Busy(r)' => Busy(r)
    BY <1>4 DEF Busy
  <2> QED BY <1>1, <1>2, <1>3, <1>4, <1>8, <2>1 DEF CalmInv, Bound
<1> QED BY <1>1, <1>3, <1>5, <1>6, <1>7, <1>9, <1>10, WalkStep DEF OnlyWalk

\* The error paths close what was opened.
LEMMA GiveUpKeeps ==
  ASSUME IInv, NEW q \in Openers, pc[q] \in {"detach", "claim"}, ~calm[q], GiveUp(q),
         UNCHANGED <<drivers, claims, threads, calm>>, OnlyWalk
  PROVE  IInv'
<1> DEFINE rest == {f \in todo[q] : <<f[1], f[2][1]>> # handle[q]}
<1>1. /\ Busy(q)
      /\ opened' = [opened EXCEPT ![q][handle[q][1]] = opened[q][handle[q][1]] - 1]
      /\ good_open' = [good_open EXCEPT ![q] = FALSE]
      /\ todo' = [todo EXCEPT ![q] = rest]
      /\ pc' = [pc EXCEPT ![q] = "walk"]
      /\ UNCHANGED <<handle, path, present, configured, device, gone>>
  BY DEF GiveUp, Busy, OnlyWalk, busVars, present
<1>2. /\ TypeOK /\ WalkTypes /\ WalkInv(q) /\ HoldInv(q) /\ CalmInv(q)
      /\ todo[q] = {} /\ path[q][1] \in Addresses
  BY <1>1, BusyFacts
<1>3. handle[q] = path[q] /\ Opened(q) /\ threads[q] = 0 /\ NoClaims(q)
  BY <1>1, <1>2 DEF HoldInv
<1>4. rest = {}
  BY <1>2
<1> HIDE DEF rest
<1>5. opened' = [opened EXCEPT ![q][path[q][1]] = 0]
  <2>1. opened[q][path[q][1]] = 1
    BY <1>2, <1>3 DEF Opened
  <2>2. opened' = [opened EXCEPT ![q][path[q][1]] = opened[q][path[q][1]] - 1]
    BY <1>1, <1>3
  <2>3. opened[q][path[q][1]] - 1 = 0
    BY <2>1
  <2> QED BY <2>2, <2>3
<1>6. /\ opened' \in [Openers -> [Addresses -> 0..1]]
      /\ \A o \in Openers \ {q} : opened'[o] = opened[o]
      /\ opened'[q][path[q][1]] = 0
      /\ \A b \in Addresses \ {path[q][1]} : opened'[q][b] = opened[q][b]
  BY <1>2, <1>5, OpenedStep
<1>7. /\ todo'[q] = {} /\ ~good_open'[q] /\ pc'[q] = "walk"
      /\ \A o \in Openers \ {q} : /\ todo'[o] = todo[o] /\ pc'[o] = pc[o]
                                  /\ good_open'[o] = good_open[o]
  BY <1>1, <1>2, <1>4 DEF TypeOK
<1>8. todo' \in [Openers -> SUBSET (Addresses \X (Nat \X Nat))]
      /\ good_open' \in [Openers -> BOOLEAN]
  BY <1>1, <1>2, <1>4 DEF WalkTypes
<1>9. WalkTypes'
  BY <1>1, <1>2, <1>6, <1>8 DEF WalkTypes
<1>10. OthersKept(q)
  BY <1>1, <1>6, <1>7 DEF OthersKept
<1>11. WalkInv(q)'
  BY <1>7 DEF WalkInv
<1>12. Clean(q)'
  <2>1. \A a \in Addresses : opened'[q][a] = 0
    BY <1>2, <1>3, <1>6 DEF Opened
  <2> QED BY <1>3, <2>1 DEF Clean, NoClaims
<1>13. HoldInv(q)'
  BY <1>7, <1>12 DEF HoldInv, Busy
<1>14. CalmInv(q)'
  BY <1>7 DEF CalmInv
<1> QED BY <1>1, <1>9, <1>10, <1>11, <1>13, <1>14, WalkStep DEF OnlyWalk

LEMMA DetachDriverKeeps ==
  ASSUME IInv, NEW q \in Openers, DetachDriver(q)
  PROVE  IInv'
<1>1. /\ pc[q] = "detach" /\ Busy(q) /\ OnlyWalk
      /\ UNCHANGED <<claims, threads, calm, path, present, configured, device, gone>>
  BY DEF DetachDriver, Busy, OnlyWalk, busVars, present
<1>2. /\ TypeOK /\ WalkTypes /\ WalkInv(q) /\ HoldInv(q) /\ CalmInv(q)
      /\ todo[q] = {}
  BY <1>1, BusyFacts
<1>3. /\ handle[q] = path[q] /\ Opened(q) /\ threads[q] = 0 /\ NoClaims(q)
      /\ good_open[q]
  BY <1>1, <1>2 DEF HoldInv
<1>4. CASE ~Bound(q)
  <2>1. ~calm[q]
    BY <1>1, <1>2, <1>3, <1>4 DEF CalmInv, Bound
  <2>2. GiveUp(q) /\ UNCHANGED drivers
    BY <1>4 DEF DetachDriver
  <2> QED BY <1>1, <2>1, <2>2, GiveUpKeeps
<1>5. CASE Bound(q)
  <2>1. /\ drivers' = drivers \ {path[q]} /\ pc' = [pc EXCEPT ![q] = "claim"]
        /\ UNCHANGED <<opened, todo, good_open, handle>>
    BY <1>3, <1>5 DEF DetachDriver, walkVars
  <2>2. pc'[q] = "claim" /\ \A o \in Openers \ {q} : pc'[o] = pc[o]
    BY <1>2, <2>1 DEF TypeOK
  <2>3. WalkTypes'
    BY <1>1, <1>2, <2>1 DEF WalkTypes
  <2>4. OthersKept(q)
    BY <1>1, <2>1 DEF OthersKept
  <2>5. WalkInv(q)'
    BY <1>2, <2>1 DEF WalkInv
  <2>6. HoldInv(q)'
    <3>1. Opened(q)' /\ NoClaims(q)'
      BY <1>1, <1>3, <2>1 DEF Opened, NoClaims
    <3> QED BY <1>1, <1>3, <2>1, <2>2, <3>1 DEF HoldInv, Busy
  <2>7. CalmInv(q)'
    <3>1. \A r \in Openers \ {q} : Busy(r)' => Busy(r)
      BY <2>2 DEF Busy
    <3> QED BY <1>1, <1>2, <2>1, <2>2, <3>1 DEF CalmInv
  <2> QED BY <1>1, <2>1, <2>3, <2>4, <2>5, <2>6, <2>7, WalkStep DEF OnlyWalk
<1> QED BY <1>4, <1>5

\* Nobody but q, which is calm, is near its interface.
LEMMA CalmIsFree ==
  ASSUME IInv, NEW q \in Openers, pc[q] = "claim", calm[q]
  PROVE  Free(q)
<1>1. /\ TypeOK /\ HoldInv(q) /\ CalmInv(q)
  BY BusyFacts DEF Busy
<1>2. /\ ~gone[q] /\ handle[q] = path[q] /\ path[q] \notin drivers /\ NoClaims(q)
      /\ \A r \in Openers \ {q} : Busy(r) => path[r] # path[q]
  BY <1>1 DEF CalmInv, HoldInv, TypeOK
<1>3. ASSUME NEW c \in claims PROVE <<c[2], c[3]>> # path[q]
  <2>1. PICK r \in Openers : c[1] = r
    BY <1>1 DEF TypeOK
  <2>2. r # q
    BY <1>2, <2>1 DEF NoClaims
  <2>3. HoldInv(r) /\ ~NoClaims(r)
    BY <2>1 DEF IInv, OpenerInv, NoClaims
  <2>4. Busy(r) /\ Owns(r)
    <3>1. Busy(r)
      BY <2>3 DEF HoldInv, Clean
    <3> QED BY <2>3, <3>1 DEF HoldInv, Clean, Busy
  <2> QED BY <1>2, <2>1, <2>2, <2>4 DEF Owns
<1> QED BY <1>2, <1>3 DEF Free

LEMMA ClaimKeeps ==
  ASSUME IInv, NEW q \in Openers, Claim(q)
  PROVE  IInv'
<1>1. /\ pc[q] = "claim" /\ Busy(q) /\ OnlyWalk
      /\ UNCHANGED <<drivers, calm, path, present, configured, device, gone>>
  BY DEF Claim, Busy, OnlyWalk, busVars, present
<1>2. /\ TypeOK /\ WalkTypes /\ WalkInv(q) /\ HoldInv(q) /\ CalmInv(q)
      /\ todo[q] = {} /\ path[q][1] \in Addresses /\ path[q][2] \in Interfaces
      /\ path[q] = <<path[q][1], path[q][2]>>
  BY <1>1, BusyFacts
<1>3. /\ handle[q] = path[q] /\ Opened(q) /\ threads[q] = 0 /\ NoClaims(q)
      /\ good_open[q]
  BY <1>1, <1>2 DEF HoldInv
<1>4. CASE ~Free(q)
  <2>1. ~calm[q]
    BY <1>1, <1>4, CalmIsFree
  <2>2. GiveUp(q) /\ UNCHANGED <<claims, threads>>
    BY <1>4 DEF Claim
  <2> QED BY <1>1, <2>1, <2>2, GiveUpKeeps
<1>5. CASE Free(q)
  <2> DEFINE mine == <<q, path[q][1], path[q][2]>>
  <2>1. /\ claims' = claims \cup {mine}
        /\ threads' = [threads EXCEPT ![q] = threads[q] + 1]
        /\ pc' = [pc EXCEPT ![q] = "walk"]
        /\ UNCHANGED <<opened, todo, good_open, handle>>
    BY <1>3, <1>5 DEF Claim, walkVars
  <2>2. /\ pc'[q] = "walk" /\ \A o \in Openers \ {q} : pc'[o] = pc[o]
        /\ threads' = [threads EXCEPT ![q] = 1]
    BY <1>2, <1>3, <2>1 DEF TypeOK
  <2>3. /\ threads'[q] = 1 /\ \A o \in Openers \ {q} : threads'[o] = threads[o]
        /\ threads' \in [Openers -> 0..1]
    BY <1>2, <2>2 DEF WalkTypes
  <2>4. /\ mine \in Openers \X Addresses \X Interfaces
        /\ mine[1] = q /\ <<mine[2], mine[3]>> = path[q]
    BY <1>2
  <2> HIDE DEF mine
  <2>5. WalkTypes'
    <3>1. claims' \subseteq Openers \X Addresses \X Interfaces
      BY <1>2, <2>1, <2>4 DEF WalkTypes
    <3> QED BY <1>1, <1>2, <2>1, <2>3, <3>1 DEF WalkTypes
  <2>6. OthersKept(q)
    <3>1. \A c \in claims \cup claims' : c[1] # q => (c \in claims' <=> c \in claims)
      BY <2>1, <2>4
    <3> QED BY <1>1, <2>1, <2>3, <3>1 DEF OthersKept
  <2>7. WalkInv(q)'
    BY <1>2, <2>1 DEF WalkInv
  <2>8. Owns(q)'
    <3>1. Opened(q)'
      BY <1>1, <1>3, <2>1 DEF Opened
    <3>2. \A c \in claims' : c[1] = q => <<c[2], c[3]>> = path'[q]
      BY <1>1, <1>3, <2>1, <2>4 DEF NoClaims
    <3>3. <<q, path'[q][1], path'[q][2]>> \in claims'
      BY <1>1, <2>1 DEF mine
    <3> QED BY <1>1, <1>3, <2>1, <2>3, <3>1, <3>2, <3>3 DEF Owns
  <2>9. HoldInv(q)'
    BY <1>2, <1>3, <2>1, <2>2, <2>8 DEF HoldInv, Busy
  <2>10. CalmInv(q)'
    <3>1. \A r \in Openers \ {q} : Busy(r)' => Busy(r)
      BY <2>2 DEF Busy
    <3> QED BY <1>1, <1>2, <1>3, <2>1, <2>2, <3>1 DEF CalmInv
  <2> QED BY <1>1, <2>1, <2>5, <2>6, <2>7, <2>9, <2>10, WalkStep DEF OnlyWalk
<1> QED BY <1>4, <1>5

LEMMA WalkEndKeeps ==
  ASSUME IInv, NEW q \in Openers, WalkEnd(q)
  PROVE  IInv'
<1>1. /\ pc[q] = "walk" /\ todo[q] = {} /\ Busy(q) /\ OnlyWalk
      /\ UNCHANGED <<drivers, opened, claims, threads, todo, calm, path, present,
                     configured, device, gone>>
      /\ good_open' = [good_open EXCEPT ![q] = FALSE]
  BY DEF WalkEnd, Busy, OnlyWalk, busVars, kernelVars, present
<1>2. /\ TypeOK /\ WalkTypes /\ WalkInv(q) /\ HoldInv(q) /\ CalmInv(q)
  BY <1>1, BusyFacts
<1>3. /\ good_open' \in [Openers -> BOOLEAN]
      /\ \A o \in Openers \ {q} : good_open'[o] = good_open[o]
  BY <1>1, <1>2 DEF WalkTypes
<1>4. WalkInv(q)'
  BY <1>1, <1>2 DEF WalkInv
<1>5. CASE good_open[q]
  <2>1. Owns(q) /\ handle' = [handle EXCEPT ![q] = handle[q]]
        /\ pc' = [pc EXCEPT ![q] = "open"]
    BY <1>1, <1>2, <1>5 DEF WalkEnd, HoldInv
  <2>2. handle' = handle /\ pc'[q] = "open" /\ \A o \in Openers \ {q} : pc'[o] = pc[o]
    BY <1>2, <2>1 DEF TypeOK
  <2>3. WalkTypes' /\ OthersKept(q)
    BY <1>1, <1>2, <1>3, <2>2 DEF WalkTypes, OthersKept
  <2>4. Owns(q)'
    BY <1>1, <2>1, <2>2 DEF Owns, Opened
  <2>5. HoldInv(q)'
    BY <2>2, <2>4 DEF HoldInv, Busy
  <2>6. CalmInv(q)'
    <3>1. \A r \in Openers \ {q} : Busy(r)' => Busy(r)
      BY <2>2 DEF Busy
    <3> QED BY <1>1, <1>2, <2>2, <3>1 DEF CalmInv
  <2> QED BY <1>1, <1>4, <2>1, <2>3, <2>5, <2>6, WalkStep DEF OnlyWalk
<1>6. CASE ~good_open[q]
  <2>1. Clean(q) /\ ~calm[q]
    BY <1>1, <1>2, <1>6 DEF HoldInv, CalmInv
  <2>2. handle' = [handle EXCEPT ![q] = Null] /\ pc' = [pc EXCEPT ![q] = "null"]
    BY <1>6 DEF WalkEnd
  <2>3. /\ handle' \in [Openers -> Paths \cup {Null}] /\ pc'[q] = "null"
        /\ \A o \in Openers \ {q} : pc'[o] = pc[o] /\ handle'[o] = handle[o]
    BY <1>2, <2>2 DEF TypeOK
  <2>4. WalkTypes' /\ OthersKept(q)
    BY <1>1, <1>2, <1>3, <2>3 DEF WalkTypes, OthersKept
  <2>5. Clean(q)'
    BY <1>1, <2>1 DEF Clean, NoClaims
  <2>6. HoldInv(q)'
    BY <2>3, <2>5 DEF HoldInv
  <2>7. CalmInv(q)'
    BY <1>1, <2>1, <2>3 DEF CalmInv
  <2> QED BY <1>1, <1>4, <2>2, <2>4, <2>6, <2>7, WalkStep DEF OnlyWalk
<1> QED BY <1>5, <1>6

LEMMA RefusedKeeps ==
  ASSUME IInv, NEW q \in Openers, Refused(q)
  PROVE  IInv'
<1>1. /\ pc[q] = "null" /\ ~Busy(q) /\ UNCHANGED <<busVars, want, path, loopVars>>
      /\ UNCHANGED <<drivers, opened, claims, threads, todo, good_open, handle>>
      /\ pc' = [pc EXCEPT ![q] = caller[q]]
      /\ gone' = [gone EXCEPT ![q] = FALSE] /\ calm' = [calm EXCEPT ![q] = FALSE]
  BY DEF Refused, Return, Busy, kernelVars, walkVars
<1>2. /\ TypeOK /\ WalkInv(q) /\ HoldInv(q) /\ caller[q] \in {"idle", "each"}
  BY DEF IInv, OpenerInv, TypeOK
<1>3. todo[q] = {} /\ Clean(q)
  BY <1>1, <1>2 DEF WalkInv, HoldInv
<1>4. /\ pc'[q] = caller[q] /\ ~calm'[q] /\ ~gone'[q]
      /\ calm' \in [Openers -> BOOLEAN] /\ gone' \in [Openers -> BOOLEAN]
      /\ \A o \in Openers \ {q} : calm'[o] = calm[o] /\ gone'[o] = gone[o]
  BY <1>1, <1>2 DEF TypeOK
<1>5. WalkTypes' /\ OthersKept(q)
  BY <1>1, <1>2, <1>4 DEF TypeOK, WalkTypes, OthersKept
<1>6. WalkInv(q)'
  BY <1>1, <1>3 DEF WalkInv
<1>7. HoldInv(q)'
  <2>1. Clean(q)'
    BY <1>1, <1>3 DEF Clean, NoClaims
  <2> QED BY <1>2, <1>4, <2>1 DEF HoldInv
<1>8. CalmInv(q)'
  BY <1>4 DEF CalmInv
<1> QED BY <1>1, <1>5, <1>6, <1>7, <1>8, WalkStep

LEMMA CloseKeeps ==
  ASSUME IInv, NEW q \in Openers, hid_close(q)
  PROVE  IInv'
<1>1. /\ pc[q] = "open" /\ Busy(q) /\ UNCHANGED <<busVars, want, path, loopVars>>
      /\ UNCHANGED <<drivers, todo, good_open, path, present, configured, device>>
      /\ pc' = [pc EXCEPT ![q] = caller[q]]
      /\ threads' = [threads EXCEPT ![q] = threads[q] - 1]
      /\ opened' = [opened EXCEPT ![q][handle[q][1]] = opened[q][handle[q][1]] - 1]
      /\ handle' = [handle EXCEPT ![q] = Null]
      /\ gone' = [gone EXCEPT ![q] = FALSE] /\ calm' = [calm EXCEPT ![q] = FALSE]
  BY DEF hid_close, Return, Busy, busVars, present
<1>2. /\ TypeOK /\ WalkTypes /\ WalkInv(q) /\ HoldInv(q)
      /\ todo[q] = {} /\ path[q][1] \in Addresses /\ path[q][2] \in Interfaces
      /\ caller[q] \in {"idle", "each"}
  BY <1>1, BusyFacts DEF TypeOK
<1>3. Owns(q)
  BY <1>1, <1>2 DEF HoldInv
<1>4. /\ threads[q] = 1 /\ opened[q][path[q][1]] = 1 /\ handle[q] = path[q]
  BY <1>2, <1>3 DEF Owns, Opened
<1>5. opened' = [opened EXCEPT ![q][path[q][1]] = 0] /\ threads' = [threads EXCEPT ![q] = 0]
  <2>1. opened[q][path[q][1]] - 1 = 0 /\ threads[q] - 1 = 0
    BY <1>4
  <2>2. opened' = [opened EXCEPT ![q][path[q][1]] = opened[q][path[q][1]] - 1]
    BY <1>1, <1>4
  <2> QED BY <1>1, <2>1, <2>2
<1>6. /\ opened' \in [Openers -> [Addresses -> 0..1]]
      /\ \A o \in Openers \ {q} : opened'[o] = opened[o]
      /\ opened'[q][path[q][1]] = 0
      /\ \A b \in Addresses \ {path[q][1]} : opened'[q][b] = opened[q][b]
  BY <1>2, <1>5, OpenedStep
<1>7. /\ threads' \in [Openers -> 0..1] /\ threads'[q] = 0
      /\ handle' \in [Openers -> Paths \cup {Null}]
      /\ calm' \in [Openers -> BOOLEAN] /\ ~calm'[q]
      /\ gone' \in [Openers -> BOOLEAN] /\ ~gone'[q]
      /\ \A o \in Openers \ {q} : /\ threads'[o] = threads[o] /\ handle'[o] = handle[o]
                                  /\ calm'[o] = calm[o] /\ gone'[o] = gone[o]
  BY <1>1, <1>2, <1>5 DEF WalkTypes
<1> DEFINE mine == <<q, path[q][1], path[q][2]>>
<1>8. claims' = claims \ {mine} /\ mine[1] = q
  BY <1>4 DEF hid_close
<1>9. \A c \in claims : c[1] = q => c = mine
  <2> SUFFICES ASSUME NEW c \in claims, c[1] = q PROVE c = mine
    OBVIOUS
  <2>1. c \in Openers \X Addresses \X Interfaces
    BY <1>2 DEF WalkTypes
  <2>2. c = <<c[1], c[2], c[3]>>
    BY <2>1
  <2>3. <<c[2], c[3]>> = path[q]
    BY <1>3 DEF Owns
  <2> QED BY <2>2, <2>3
<1> HIDE DEF mine
<1>10. WalkTypes'
  BY <1>1, <1>2, <1>6, <1>7, <1>8 DEF WalkTypes
<1>11. OthersKept(q)
  <2>1. \A c \in claims \cup claims' : c[1] # q => (c \in claims' <=> c \in claims)
    BY <1>8
  <2> QED BY <1>1, <1>6, <1>7, <2>1 DEF OthersKept
<1>12. WalkInv(q)'
  BY <1>1, <1>2 DEF WalkInv
<1>13. pc'[q] = caller[q]
  BY <1>1, <1>2 DEF TypeOK
<1>14. HoldInv(q)'
  <2>1. \A a \in Addresses : opened'[q][a] = 0
    BY <1>3, <1>6 DEF Owns, Opened
  <2>2. NoClaims(q)'
    BY <1>8, <1>9 DEF NoClaims
  <2>3. Clean(q)'
    BY <1>7, <2>1, <2>2 DEF Clean
  <2> QED BY <1>2, <1>13, <2>3 DEF HoldInv
<1>15. CalmInv(q)'
  BY <1>7 DEF CalmInv
<1> QED BY <1>1, <1>10, <1>11, <1>12, <1>14, <1>15, WalkStep

----------------------------------------------------------------------------
(* The bus                                                                 *)

LEMMA PlugKeeps ==
  ASSUME IInv, NEW d \in Devices, Plug(d)
  PROVE  IInv'
<1>1. /\ UNCHANGED <<pc, want, path, caller, devs, visited, steady, todo, good_open,
                     handle, opened, threads, claims, gone, calm>>
  BY DEF Plug, OnlyBus, walkVars
<1>2. PICK a \in Addresses \ present :
        /\ device' = [device EXCEPT ![a] = d]
        /\ \/ /\ configured' = configured \cup {a}
              /\ drivers' = drivers \cup ({a} \X {s[1] : s \in Settings[d]})
           \/ configured' = configured /\ drivers' = drivers
  BY DEF Plug
<1>3. /\ TypeOK /\ device \in [Addresses -> Devices \cup {Null}]
      /\ configured \subseteq present /\ drivers \subseteq Paths
  BY DEF IInv, TypeOK
<1>4. /\ device' \in [Addresses -> Devices \cup {Null}] /\ device'[a] = d
      /\ \A b \in Addresses \ {a} : device'[b] = device[b]
  BY <1>2, <1>3
<1>5. present' = present \cup {a}
  BY <1>2, <1>4, ConstantsAssumption DEF present
<1>6. /\ configured' \subseteq present' /\ configured \subseteq configured'
      /\ \A b \in present : b # a /\ b \in Addresses /\ device'[b] = device[b]
  BY <1>2, <1>3, <1>4, <1>5 DEF present
<1>7. TypeOK'
  <2>1. {a} \X {s[1] : s \in Settings[d]} \subseteq Paths
    BY <1>2 DEF Paths, Interfaces
  <2>2. drivers' \subseteq Paths
    BY <1>2, <1>3, <2>1
  <2> QED BY <1>1, <1>3, <1>4, <1>6, <2>2 DEF TypeOK
<1>8. ASSUME NEW o \in Openers PROVE OpenerInv(o)'
  <2>1. OpenerInv(o) /\ steady[o] \subseteq present
    BY DEF IInv, OpenerInv, VisitInv
  <2>2. \A p : Fits(o, p) => Fits(o, p)'
    BY <1>1, <1>6, <2>1 DEF Fits
  <2>3. SearchInv(o)'
    BY <1>1, <2>1, <2>2 DEF OpenerInv, SearchInv, Busy
  <2>4. WalkInv(o)'
    BY <1>1, <2>1 DEF OpenerInv, WalkInv
  <2>5. HoldInv(o)'
    BY <1>1, <2>1 DEF OpenerInv, HoldInv, Busy, Clean, NoClaims, Opened, Owns
  <2>6. CalmInv(o)'
    <3>1. drivers \subseteq drivers' /\ \A p : p \in drivers' \ drivers => p[1] = a
      BY <1>2
    <3>2. calm[o] => path[o] \notin drivers' \ drivers
      BY <1>3, <1>6, <2>1, <3>1 DEF OpenerInv, CalmInv
    <3> QED BY <1>1, <1>6, <2>1, <3>1, <3>2 DEF OpenerInv, CalmInv, Busy
  <2>7. VisitInv(o)'
    BY <1>1, <1>5, <1>6, <2>1 DEF OpenerInv, VisitInv
  <2> QED BY <2>3, <2>4, <2>5, <2>6, <2>7 DEF OpenerInv
<1> QED BY <1>7, <1>8 DEF IInv

LEMMA UnplugKeeps ==
  ASSUME IInv, NEW a \in Addresses, Unplug(a)
  PROVE  IInv'
<1>1. /\ UNCHANGED <<pc, want, path, caller, devs, visited, todo, good_open,
                     handle, opened, threads>>
      /\ device' = [device EXCEPT ![a] = Null] /\ configured' = configured \ {a}
      /\ drivers' = drivers \ Of(a)
      /\ claims' = {c \in claims : c[2] # a}
      /\ gone' = [o \in Openers |-> gone[o] \/ (Busy(o) /\ path[o][1] = a)]
      /\ steady' = [o \in Openers |-> steady[o] \ {a}]
      /\ calm' = [o \in Openers |-> calm[o] /\ path[o][1] # a]
  BY DEF Unplug, OnlyBus, walkVars
<1>2. TypeOK /\ device \in [Addresses -> Devices \cup {Null}]
  BY DEF IInv, TypeOK
<1>3. /\ drivers' \subseteq drivers /\ \A p : p \in drivers \ drivers' => p[1] = a
      /\ claims' \subseteq claims
  BY <1>1 DEF Of
<1>4. /\ device' \in [Addresses -> Devices \cup {Null}] /\ device'[a] = Null
      /\ \A b \in Addresses \ {a} : device'[b] = device[b]
  BY <1>1, <1>2
<1>5. present' = present \ {a}
  BY <1>4 DEF present
<1>6. TypeOK'
  <2>1. /\ steady' \in [Openers -> SUBSET Addresses] /\ calm' \in [Openers -> BOOLEAN]
        /\ gone' \in [Openers -> BOOLEAN]
    BY <1>1, <1>2 DEF TypeOK
  <2>2. configured' \subseteq present'
    BY <1>1, <1>2, <1>5 DEF TypeOK
  <2> QED BY <1>1, <1>2, <1>3, <1>4, <2>1, <2>2 DEF TypeOK
<1>7. ASSUME NEW o \in Openers PROVE OpenerInv(o)'
  <2>1. /\ OpenerInv(o) /\ steady[o] \subseteq present /\ present \subseteq Addresses
        /\ steady'[o] = steady[o] \ {a}
        /\ \A b \in steady'[o] : device'[b] = device[b]
    BY <1>1, <1>4 DEF IInv, OpenerInv, VisitInv, present
  <2>2. \A r \in Openers : Busy(r)' = Busy(r)
    BY <1>1 DEF Busy
  <2>3. \A p : Fits(o, p) => Fits(o, p)'
    BY <1>1, <2>1 DEF Fits
  <2>4. SearchInv(o)'
    BY <1>1, <2>1, <2>2, <2>3 DEF OpenerInv, SearchInv
  <2>5. WalkInv(o)'
    BY <1>1, <2>1 DEF OpenerInv, WalkInv
  <2>6. (Clean(o) => Clean(o)') /\ (NoClaims(o) => NoClaims(o)') /\ (Opened(o) => Opened(o)')
    BY <1>1, <1>3 DEF Clean, NoClaims, Opened
  <2>7. Owns(o) /\ Busy(o) => Owns(o)'
    <3> SUFFICES ASSUME Owns(o), Busy(o) PROVE Owns(o)'
      OBVIOUS
    <3>1. \A c \in claims' : c[1] = o => <<c[2], c[3]>> = path'[o]
      BY <1>1, <1>3 DEF Owns
    <3>2. ~gone'[o] => <<o, path'[o][1], path'[o][2]>> \in claims'
      <4>1. ~gone'[o] => ~gone[o] /\ path[o][1] # a
        BY <1>1
      <4>2. <<o, path[o][1], path[o][2]>>[2] = path[o][1]
        OBVIOUS
      <4> QED BY <1>1, <4>1, <4>2 DEF Owns
    <3> QED BY <1>1, <2>6, <3>1, <3>2 DEF Owns
  <2>8. HoldInv(o)'
    BY <1>1, <2>1, <2>2, <2>6, <2>7 DEF OpenerInv, HoldInv, Busy
  <2>9. CalmInv(o)'
    <3>1. calm'[o] => calm[o] /\ path[o][1] # a
      BY <1>1
    <3>2. gone'[o] => gone[o] \/ (Busy(o) /\ path[o][1] = a)
      BY <1>1
    <3>3. calm'[o] => path[o][1] \in configured' /\ ~gone'[o]
      BY <1>1, <2>1, <3>1, <3>2 DEF OpenerInv, CalmInv
    <3>4. calm'[o] => (path[o] \in drivers' <=> path[o] \in drivers)
      BY <1>3, <3>1
    <3>5. pc'[o] \in {"idle", "found", "each", "crashed"} => ~gone'[o]
      BY <1>1, <2>1, <3>2 DEF OpenerInv, CalmInv, Busy
    <3> QED BY <1>1, <2>1, <2>2, <3>1, <3>3, <3>4, <3>5 DEF OpenerInv, CalmInv
  <2>10. VisitInv(o)'
    BY <1>1, <1>5, <2>1 DEF OpenerInv, VisitInv
  <2> QED BY <2>4, <2>5, <2>8, <2>9, <2>10 DEF OpenerInv
<1> QED BY <1>6, <1>7 DEF IInv

----------------------------------------------------------------------------
LEMMA InitHolds == Init => IInv
<1> SUFFICES ASSUME Init PROVE IInv
  OBVIOUS
<1>1. TypeOK
  BY DEF Init, TypeOK
<1>2. ASSUME NEW o \in Openers PROVE OpenerInv(o)
  <2>1. SearchInv(o) /\ WalkInv(o)
    BY DEF Init, SearchInv, WalkInv, Busy
  <2>2. HoldInv(o)
    BY DEF Init, HoldInv, Clean, NoClaims, Busy
  <2>3. CalmInv(o) /\ VisitInv(o)
    BY DEF Init, CalmInv, VisitInv
  <2> QED BY <2>1, <2>2, <2>3 DEF OpenerInv
<1> QED BY <1>1, <1>2 DEF IInv

LEMMA StepKeeps == IInv /\ [Next]_vars => IInv'
<1> SUFFICES ASSUME IInv, [Next]_vars PROVE IInv'
  OBVIOUS
<1>1. CASE UNCHANGED vars
  BY <1>1 DEF vars, busVars, kernelVars, loopVars, walkVars, IInv, TypeOK, present,
     OpenerInv, SearchInv, Fits, WalkInv, HoldInv, Clean, NoClaims, Opened, Owns,
     CalmInv, VisitInv, Busy
<1>2. ASSUME NEW q \in Openers, OpenerStep(q) PROVE IInv'
  <2>1. CASE \E product \in Wanted : \E serial \in Serials \cup {Null} :
               HidOpen(q, product, serial)
    BY <2>1, HidOpenKeeps
  <2>2. CASE \E product \in Wanted : FcdOpenFirst(q, product)
    BY <2>2, FcdOpenFirstKeeps
  <2>3. CASE \E product \in Wanted : FcdForEach(q, product)
    BY <2>3, FcdForEachKeeps
  <2>4. CASE Restart(q) \/ ForEachReturn(q)
    BY <2>4, EachOverKeeps DEF Restart, ForEachReturn
  <2>5. CASE HidOpenFound(q) \/ FcdIo(q)
    BY <2>5, OpenKnownKeeps DEF HidOpenFound, FcdIo
  <2>6. CASE ForEachCall(q)
    BY <2>6, ForEachCallKeeps
  <2>7. CASE LibusbOpen(q)
    BY <2>7, LibusbOpenKeeps
  <2>8. CASE TestDriver(q)
    BY <2>8, TestDriverKeeps
  <2>9. CASE DetachDriver(q)
    BY <2>9, DetachDriverKeeps
  <2>10. CASE Claim(q)
    BY <2>10, ClaimKeeps
  <2>11. CASE WalkEnd(q)
    BY <2>11, WalkEndKeeps
  <2>12. CASE Refused(q)
    BY <2>12, RefusedKeeps
  <2>13. CASE hid_close(q)
    BY <2>13, CloseKeeps
  <2> QED BY <1>2, <2>1, <2>2, <2>3, <2>4, <2>5, <2>6, <2>7, <2>8, <2>9, <2>10,
             <2>11, <2>12, <2>13 DEF OpenerStep
<1>3. ASSUME NEW d \in Devices, Plug(d) PROVE IInv'
  BY <1>3, PlugKeeps
<1>4. ASSUME NEW a \in Addresses, Unplug(a) PROVE IInv'
  BY <1>4, UnplugKeeps
<1> QED BY <1>1, <1>2, <1>3, <1>4 DEF Next

\* The invariant the theorems below rest on: what each opener knows is a path
\* of what it asked for as long as that stays, and what it holds is what its
\* place calls for (hid-libusb.c:747-910, hid_open_path).
THEOREM Invariant == Spec => []IInv
<1>1. Init => IInv
  BY InitHolds
<1>2. IInv /\ [Next]_vars => IInv'
  BY StepKeeps
<1> QED BY <1>1, <1>2, PTL DEF Spec

\* The variables keep their types; no handle is opened twice and no second
\* read thread is started.
THEOREM TypeCorrect == Spec => []TypeOK
<1>1. IInv => TypeOK
  BY DEF IInv
<1> QED BY <1>1, Invariant, PTL

\* However a call ended, when hid_open_path has returned NULL or hid_close
\* has returned, nothing is left open, claimed or running.
THEOREM NothingIsLeft == Spec => []NullLeavesNothing
<1>1. IInv => NullLeavesNothing
  BY DEF IInv, OpenerInv, HoldInv, Clean, NoClaims, NullLeavesNothing
<1> QED BY <1>1, Invariant, PTL

\* A handle hid_open_path returned is on the interface its path names, and
\* has the only read thread and, until the device leaves, the claim.
THEOREM HandleFits == Spec => []HandleIsPath
<1>1. IInv => HandleIsPath
  <2> SUFFICES ASSUME IInv, NEW o \in Openers, pc[o] = "open"
               PROVE  /\ make_path(handle[o][1], handle[o][2]) = path[o]
                      /\ \A a \in Addresses : opened[o][a] = IF a = handle[o][1] THEN 1 ELSE 0
                      /\ threads[o] = 1
                      /\ ~gone[o] => <<o, handle[o][1], handle[o][2]>> \in claims
    BY DEF HandleIsPath
  <2>1. HoldInv(o) /\ path[o] = <<path[o][1], path[o][2]>>
    BY BusyFacts DEF Busy
  <2>2. Owns(o)
    BY <2>1 DEF HoldInv
  <2> QED BY <2>1, <2>2 DEF Owns, Opened, make_path
<1> QED BY <1>1, Invariant, PTL

\* The path of a device that has not left since it was enumerated opens a
\* device of the product and the serial number asked for, however many
\* processes enumerate, open and close meanwhile and whatever else comes and
\* goes.  Nothing is said of a path whose device has left: its address may
\* have been given to any other.
THEOREM OpensAskedFor == Spec => []AskedFor
<1>1. IInv => AskedFor
  <2> SUFFICES ASSUME IInv, NEW o \in Openers, pc[o] = "open", handle[o][1] \in steady[o]
               PROVE  /\ Product[device[handle[o][1]]] = want[o].product
                      /\ want[o].serial \in {Null, Serial[device[handle[o][1]]]}
    BY DEF AskedFor
  <2>1. HoldInv(o) /\ Fits(o, path[o])
    BY BusyFacts DEF Busy
  <2>2. handle[o] = path[o]
    BY <2>1 DEF HoldInv, Owns
  <2> QED BY <2>1, <2>2 DEF Fits
<1> QED BY <1>1, Invariant, PTL

\* hid_open_path of an interface nobody else is after, on a device that stays
\* and lets us in, does not fail.
THEOREM AloneIsEnough == Spec => []AloneSucceeds
<1>1. IInv => AloneSucceeds
  BY DEF IInv, OpenerInv, CalmInv, AloneSucceeds
<1> QED BY <1>1, Invariant, PTL

\* fcd_for_each misses no wanted device that its hid_enumerate could list and
\* that has been there since, whether the device can be opened or not.
THEOREM AllVisited == Spec => []VisitsAll
<1>1. IInv => VisitsAll
  <2> SUFFICES ASSUME IInv, NEW o \in Openers, pc[o] = "each", devs[o] = {},
                      NEW a \in steady[o], Product[device[a]] = want[o].product,
                      NEW s \in Settings[device[a]]
               PROVE  make_path(a, s[1]) \in visited[o]
    BY DEF VisitsAll
  <2>1. SearchInv(o) /\ VisitInv(o)
    BY DEF IInv, OpenerInv
  <2>2. caller[o] = "each"
    BY <2>1 DEF SearchInv
  <2> QED BY <2>1, <2>2 DEF VisitInv, make_path
<1> QED BY <1>1, Invariant, PTL
=============================================================================
