------------------------------ MODULE HidTree ------------------------------
(***************************************************************************)
(* How hidapi/hid-libusb.c finds and opens a device: hid_enumerate,        *)
(* hid_open, hid_open_path and hid_close, called by several processes      *)
(* while devices come and go, with their callers in lib/fcd_common.c:      *)
(* fcd_for_each, fcd_open and fcd_io, which opens its path again for every *)
(* request.  What happens on the handle between opening and closing it is  *)
(* HidLibusb.                                                              *)
(*                                                                         *)
(* A bus address is a bus and a number; the kernel gives out any number    *)
(* that is free, so a path that is kept may come to name another device.   *)
(* Every device setting that hid_open_path looks at is an element of       *)
(* Settings[d]: the number of a HID interface and of an alternate setting  *)
(* of it.  The order of the device list is left open.                      *)
(***************************************************************************)
EXTENDS Integers

CONSTANTS Openers,     \* processes that use the library
          Devices,
          Addresses,   \* bus addresses, <<bus, number>>
          Product,     \* Product[d]: vendor and product id of d
          Serial,      \* Serial[d]: the serial number string of d
          Settings,    \* Settings[d]: <<interface, alternate setting>> pairs
          Wanted,      \* products the callers ask for
          Null         \* the null pointer

Interfaces == {s[1] : s \in UNION {Settings[d] : d \in Devices}}
Serials == {Serial[d] : d \in Devices}

ASSUME ConstantsAssumption ==
  /\ Null \notin Devices
  /\ Addresses \subseteq Nat \X Nat
  /\ \A d \in Devices : Settings[d] \subseteq Nat \X Nat
  /\ \A d \in Devices : Serial[d] # Null
  \* A HID interface has one setting.
  /\ \A d \in Devices : \A s, t \in Settings[d] : s[1] = t[1] => s = t

VARIABLES
  device,      \* device[a]: the device at address a, or Null
  configured,  \* addresses whose device has an active configuration
  drivers,     \* <<address, interface>> pairs a kernel driver is bound to
  opened,      \* opened[o][a]: libusb handles o has open on a
  claims,      \* <<opener, address, interface>>: claimed interfaces
  threads,     \* threads[o]: read threads of o
  pc,          \* pc[o]: where o is
  caller,      \* caller[o]: the pc o goes back to, "idle" or "each"
  want,        \* want[o]: the product and serial number asked for
  path,        \* path[o]: the path o knows (FCD.path), or Null
  devs,        \* devs[o]: paths fcd_for_each has still to visit
  visited,     \* visited[o]: paths it has called back with
  todo,        \* todo[o]: settings the walk of hid_open_path has yet to see
  good_open,   \* good_open[o]
  handle,      \* handle[o]: dev->device_handle and dev->interface
  gone,        \* gone[o]: the device o is opening, or has open, has left
  steady,      \* history: addresses at which hid_enumerate saw a device of
               \* the product o wants, or of which it returned a path, as
               \* long as that device stays
  calm         \* history: nothing has disturbed o's hid_open_path

busVars == <<device, configured>>
kernelVars == <<drivers, opened, claims, threads>>
loopVars == <<caller, devs, visited, steady>>
walkVars == <<todo, good_open, handle>>
vars == <<busVars, kernelVars, pc, want, path, loopVars, walkVars, gone, calm>>

\* Addresses whose device is on the bus.
present == {a \in Addresses : device[a] # Null}

Paths == Addresses \X Interfaces

\* Inside hid_open_path, or with the handle it returned.
Busy(o) == pc[o] \in {"walk", "driver", "detach", "claim", "open"}

TypeOK ==
  /\ device \in [Addresses -> Devices \cup {Null}]
  /\ configured \subseteq present
  /\ drivers \subseteq Paths
  /\ opened \in [Openers -> [Addresses -> 0..1]]
  /\ claims \subseteq Openers \X Addresses \X Interfaces
  /\ threads \in [Openers -> 0..1]
  /\ pc \in [Openers -> {"idle", "found", "each", "walk", "driver", "detach",
                         "claim", "open", "null", "crashed"}]
  /\ caller \in [Openers -> {"idle", "each"}]
  /\ want \in [Openers -> [product : Wanted, serial : Serials \cup {Null}] \cup {Null}]
  /\ path \in [Openers -> Paths \cup {Null}]
  /\ devs \in [Openers -> SUBSET Paths] /\ visited \in [Openers -> SUBSET Paths]
  /\ todo \in [Openers -> SUBSET (Addresses \X (Nat \X Nat))]
  /\ good_open \in [Openers -> BOOLEAN]
  /\ handle \in [Openers -> Paths \cup {Null}]
  /\ steady \in [Openers -> SUBSET Addresses]
  /\ gone \in [Openers -> BOOLEAN] /\ calm \in [Openers -> BOOLEAN]

Init ==
  /\ device = [a \in Addresses |-> Null]
  /\ configured = {} /\ drivers = {} /\ claims = {}
  /\ opened = [o \in Openers |-> [a \in Addresses |-> 0]]
  /\ threads = [o \in Openers |-> 0]
  /\ pc = [o \in Openers |-> "idle"] /\ caller = [o \in Openers |-> "idle"]
  /\ want = [o \in Openers |-> Null] /\ path = [o \in Openers |-> Null]
  /\ devs = [o \in Openers |-> {}] /\ visited = [o \in Openers |-> {}]
  /\ todo = [o \in Openers |-> {}]
  /\ good_open = [o \in Openers |-> FALSE]
  /\ handle = [o \in Openers |-> Null]
  /\ steady = [o \in Openers |-> {}]
  /\ gone = [o \in Openers |-> FALSE] /\ calm = [o \in Openers |-> FALSE]

----------------------------------------------------------------------------
(* Paths and hid_enumerate                                                 *)

make_path(a, i) == <<a, i>>

\* The settings libusb lists; e is an address and one of its settings.
Listed == {e \in present \X UNION {Settings[d] : d \in Devices} :
             e[2] \in Settings[device[e[1]]]}

\* The record hid_enumerate makes; without a libusb handle it has no strings.
Record(e, readable) ==
  [path |-> make_path(e[1], e[2][1]),
   serial |-> IF readable THEN Serial[device[e[1]]] ELSE Null]

ListedOf(product) == {e \in Listed : Product[device[e[1]]] = product}

\* What it has to return when libusb_open fails for the devices in denied.
Records(product, denied) == {Record(e, e[1] \notin denied) : e \in ListedOf(product)}

Fitting(product) == {a \in present : Product[device[a]] = product}

\* hid_init or libusb_get_device_list fails: the caller is returned NULL, as
\* it is when nothing was found.
Failed == [records |-> {}, seen |-> {}]

\* Mutant: a device that cannot be opened is left out.
hid_enumerate_Readable(product) ==
  {[records |-> {r \in Records(product, denied) : r.serial # Null},
    seen |-> Fitting(product)] : denied \in SUBSET present} \cup {Failed}

\* What hid_enumerate may return, and the addresses of what it has seen.
hid_enumerate(product) ==
  {[records |-> Records(product, denied), seen |-> Fitting(product)] :
     denied \in SUBSET present} \cup {Failed}

----------------------------------------------------------------------------
(* The callers: hid_open, fcd_open, fcd_io and fcd_for_each                *)

\* hid_open_path lists the devices; only settings with the path matter.
Begin(o, p) ==
  LET found == {e \in Listed : e[1] \in configured /\ make_path(e[1], e[2][1]) = p}
  IN /\ todo' = [todo EXCEPT ![o] = found]
     /\ calm' = [q \in Openers |->
          IF q = o
          THEN found # {} /\ \A r \in Openers \ {o} : ~(Busy(r) /\ path[r] = p)
          ELSE calm[q] /\ path[q] # p]
     /\ pc' = [pc EXCEPT ![o] = "walk"]
     /\ path' = [path EXCEPT ![o] = p]
     /\ good_open' = [good_open EXCEPT ![o] = FALSE]
     /\ UNCHANGED <<handle, gone, busVars, kernelVars>>

\* hid_init fails and hid_open_path returns NULL at once.
NoContext(o, p) ==
  /\ pc' = [pc EXCEPT ![o] = "null"]
  /\ path' = [path EXCEPT ![o] = p]
  /\ calm' = [calm EXCEPT ![o] = FALSE]
  /\ UNCHANGED <<walkVars, gone, busVars, kernelVars>>

\* A step of o that opens nothing.
GoTo(o, where, p) ==
  /\ pc' = [pc EXCEPT ![o] = where]
  /\ path' = [path EXCEPT ![o] = p]
  /\ UNCHANGED <<calm, walkVars, gone, busVars, kernelVars>>

\* libusb_get_device_list fails, which hid_open_path does not test: the list
\* it walks is whatever devs happens to point to.
NoDeviceList(o) == GoTo(o, "crashed", Null)

hid_open_path(o, p) == Begin(o, p) \/ NoContext(o, p) \/ NoDeviceList(o)

\* A caller of hid_enumerate is after a product and, unless it is Null, a
\* serial number.
Ask(o, product, serial, found) ==
  /\ want' = [want EXCEPT ![o] = [product |-> product, serial |-> serial]]
  /\ steady' = [steady EXCEPT ![o] = found.seen \cup {r.path[1] : r \in found.records}]

Forget(o, where) ==
  /\ want' = [want EXCEPT ![o] = Null]
  /\ steady' = [steady EXCEPT ![o] = {}]
  /\ GoTo(o, where, Null)

\* Mutant: the serial number is not compared.
HidOpen_AnySerial(o, product, serial) ==
  /\ pc[o] = "idle"
  /\ \E found \in hid_enumerate(product) :
       \/ /\ Ask(o, product, serial, found)
          /\ \E r \in found.records : GoTo(o, "found", r.path)
       \/ found.records = {} /\ Forget(o, "idle")
  /\ UNCHANGED <<caller, devs, visited>>

\* hid_open chooses the first record that fits.  wcscmp of a record without a
\* serial number ends the process.
HidOpen(o, product, serial) ==
  /\ pc[o] = "idle"
  /\ \E found \in hid_enumerate(product) :
       LET fit == {r \in found.records : serial = Null \/ r.serial = serial}
       IN \/ /\ Ask(o, product, serial, found)
             /\ \E r \in fit : GoTo(o, "found", r.path)
          \/ fit = {} /\ Forget(o, "idle")
          \/ /\ serial # Null /\ \E r \in found.records : r.serial = Null
             /\ Forget(o, "crashed")
  /\ UNCHANGED <<caller, devs, visited>>

\* fcd_open(NULL) keeps the path of the first record and opens nothing yet.
FcdOpenFirst(o, product) ==
  /\ pc[o] = "idle"
  /\ \E found \in hid_enumerate(product) :
       \/ /\ Ask(o, product, Null, found)
          /\ \E r \in found.records : GoTo(o, "idle", r.path)
       \/ found.records = {} /\ Forget(o, "idle")
  /\ UNCHANGED <<caller, devs, visited>>

OpenKnown(o) ==
  /\ path[o] # Null
  /\ hid_open_path(o, path[o])
  /\ UNCHANGED <<want, loopVars>>

\* hid_open opens the path it has chosen.
HidOpenFound(o) == pc[o] = "found" /\ OpenKnown(o)

\* fcd_io, and fcd_open of a given path, open the path they know.
FcdIo(o) == pc[o] \in {"idle", "each"} /\ OpenKnown(o)

FcdForEach(o, product) ==
  /\ pc[o] = "idle"
  /\ \E found \in hid_enumerate(product) :
       /\ Ask(o, product, Null, found)
       /\ devs' = [devs EXCEPT ![o] = {r.path : r \in found.records}]
  /\ caller' = [caller EXCEPT ![o] = "each"]
  /\ visited' = [visited EXCEPT ![o] = {}]
  /\ GoTo(o, "each", Null)

\* The callback is given the next path and opens it (fcd_open).
ForEachCall(o) ==
  /\ pc[o] = "each"
  /\ \E p \in devs[o] :
       /\ devs' = [devs EXCEPT ![o] = @ \ {p}]
       /\ visited' = [visited EXCEPT ![o] = @ \cup {p}]
       /\ hid_open_path(o, p)
  /\ UNCHANGED <<want, caller, steady>>

EachOver(o) ==
  /\ caller' = [caller EXCEPT ![o] = "idle"]
  /\ devs' = [devs EXCEPT ![o] = {}]
  /\ visited' = [visited EXCEPT ![o] = {}]
  /\ Forget(o, "idle")

\* All paths were visited, or the callback returned an error.
ForEachReturn(o) ==
  /\ pc[o] = "each" /\ (devs[o] = {} \/ visited[o] # {})
  /\ EachOver(o)

Restart(o) == pc[o] = "crashed" /\ EachOver(o)

----------------------------------------------------------------------------
(* The walk of hid_open_path over the settings with its path               *)

OnlyWalk == UNCHANGED <<busVars, gone, want, path, loopVars>>

\* break leaves the alternate settings of this interface.
Skip(o, e) == todo' = [todo EXCEPT ![o] = {f \in @ : <<f[1], f[2][1]>> # <<e[1], e[2][1]>>}]

\* libusb_open: a device that has gone, or one we have no rights to, fails.
LibusbOpen(o) ==
  /\ pc[o] = "walk"
  /\ \E e \in todo[o] :
       \/ /\ ~gone[o]
          /\ opened' = [opened EXCEPT ![o][e[1]] = @ + 1]
          /\ todo' = [todo EXCEPT ![o] = @ \ {e}]
          /\ handle' = [handle EXCEPT ![o] = <<e[1], e[2][1]>>]
          /\ good_open' = [good_open EXCEPT ![o] = TRUE]
          /\ pc' = [pc EXCEPT ![o] = "driver"]
          /\ UNCHANGED calm
       \/ /\ Skip(o, e)
          /\ calm' = [calm EXCEPT ![o] = FALSE]
          /\ UNCHANGED <<pc, opened, handle, good_open>>
  /\ UNCHANGED <<drivers, claims, threads>>
  /\ OnlyWalk

\* A kernel driver has the interface.  The handle of a device that has gone
\* stands for that device still, whatever has its address by now.
Bound(o) == ~gone[o] /\ handle[o] \in drivers

\* libusb_kernel_driver_active
TestDriver(o) ==
  /\ pc[o] = "driver"
  /\ pc' = [pc EXCEPT ![o] = IF Bound(o) THEN "detach" ELSE "claim"]
  /\ UNCHANGED <<kernelVars, walkVars, calm>>
  /\ OnlyWalk

\* Mutant: the handle stays open.
GiveUp_NoClose(o) ==
  /\ good_open' = [good_open EXCEPT ![o] = FALSE]
  /\ todo' = [todo EXCEPT ![o] = {f \in @ : <<f[1], f[2][1]>> # handle[o]}]
  /\ pc' = [pc EXCEPT ![o] = "walk"]
  /\ UNCHANGED <<opened, handle>>

\* Mutant: good_open is not taken back.
GiveUp_StaysGood(o) ==
  /\ opened' = [opened EXCEPT ![o][handle[o][1]] = @ - 1]
  /\ todo' = [todo EXCEPT ![o] = {f \in @ : <<f[1], f[2][1]>> # handle[o]}]
  /\ pc' = [pc EXCEPT ![o] = "walk"]
  /\ UNCHANGED <<handle, good_open>>

\* The error paths of detach and claim.
GiveUp(o) ==
  /\ opened' = [opened EXCEPT ![o][handle[o][1]] = @ - 1]
  /\ good_open' = [good_open EXCEPT ![o] = FALSE]
  /\ todo' = [todo EXCEPT ![o] = {f \in @ : <<f[1], f[2][1]>> # handle[o]}]
  /\ pc' = [pc EXCEPT ![o] = "walk"]
  /\ UNCHANGED handle

DetachDriver(o) ==
  /\ pc[o] = "detach"
  /\ \/ /\ Bound(o)
        /\ drivers' = drivers \ {handle[o]}
        /\ pc' = [pc EXCEPT ![o] = "claim"]
        /\ UNCHANGED <<opened, walkVars>>
     \/ /\ ~Bound(o)
        /\ GiveUp(o)
        /\ UNCHANGED drivers
  /\ UNCHANGED <<claims, threads, calm>>
  /\ OnlyWalk

Free(o) ==
  /\ ~gone[o] /\ handle[o] \notin drivers
  /\ \A c \in claims : <<c[2], c[3]>> # handle[o]

\* libusb_claim_interface, and the read thread of a handle that has it.
Claim(o) ==
  /\ pc[o] = "claim"
  /\ \/ /\ Free(o)
        /\ claims' = claims \cup {<<o, handle[o][1], handle[o][2]>>}
        /\ threads' = [threads EXCEPT ![o] = @ + 1]
        /\ pc' = [pc EXCEPT ![o] = "walk"]
        /\ UNCHANGED <<opened, walkVars>>
     \/ /\ ~Free(o)
        /\ GiveUp(o)
        /\ UNCHANGED <<claims, threads>>
  /\ UNCHANGED <<drivers, calm>>
  /\ OnlyWalk

\* The end of hid_open_path.
WalkEnd(o) ==
  /\ pc[o] = "walk" /\ todo[o] = {}
  /\ pc' = [pc EXCEPT ![o] = IF good_open[o] THEN "open" ELSE "null"]
  /\ handle' = [handle EXCEPT ![o] = IF good_open[o] THEN @ ELSE Null]
  /\ good_open' = [good_open EXCEPT ![o] = FALSE]
  /\ UNCHANGED <<kernelVars, todo, calm>>
  /\ OnlyWalk

\* The call is over.
Return(o) ==
  /\ pc' = [pc EXCEPT ![o] = caller[o]]
  /\ gone' = [gone EXCEPT ![o] = FALSE] /\ calm' = [calm EXCEPT ![o] = FALSE]
  /\ UNCHANGED <<busVars, want, path, loopVars>>

\* The caller takes note of the NULL it was returned.
Refused(o) ==
  /\ pc[o] = "null"
  /\ Return(o)
  /\ UNCHANGED <<kernelVars, walkVars>>

\* Mutant: the handle is not closed, and the claim stays with it.
hid_close_NoClose(o) ==
  /\ pc[o] = "open"
  /\ Return(o)
  /\ threads' = [threads EXCEPT ![o] = @ - 1]
  /\ handle' = [handle EXCEPT ![o] = Null]
  /\ UNCHANGED <<drivers, opened, claims, todo, good_open>>

hid_close(o) ==
  /\ pc[o] = "open"
  /\ Return(o)
  /\ threads' = [threads EXCEPT ![o] = @ - 1]
  /\ claims' = claims \ {<<o, handle[o][1], handle[o][2]>>}
  /\ opened' = [opened EXCEPT ![o][handle[o][1]] = @ - 1]
  /\ handle' = [handle EXCEPT ![o] = Null]
  /\ UNCHANGED <<drivers, todo, good_open>>

----------------------------------------------------------------------------
(* The bus.  The kernel binds a driver to every HID interface it finds in  *)
(* the active configuration, and takes all claims from a device that goes. *)

Of(a) == {a} \X {s[1] : s \in Settings[device[a]]}

OnlyBus == UNCHANGED <<pc, want, path, caller, devs, visited, walkVars, opened, threads>>

Plug(d) ==
  /\ d \notin {device[a] : a \in present}
  /\ \E a \in Addresses \ present :
       /\ device' = [device EXCEPT ![a] = d]
       /\ \/ configured' = configured \cup {a}
             /\ drivers' = drivers \cup ({a} \X {s[1] : s \in Settings[d]})
          \/ UNCHANGED <<configured, drivers>>
  /\ UNCHANGED <<claims, gone, steady, calm>>
  /\ OnlyBus

Unplug(a) ==
  /\ a \in present
  /\ device' = [device EXCEPT ![a] = Null]
  /\ configured' = configured \ {a}
  /\ drivers' = drivers \ Of(a)
  /\ claims' = {c \in claims : c[2] # a}
  /\ gone' = [o \in Openers |-> gone[o] \/ (Busy(o) /\ path[o][1] = a)]
  /\ steady' = [o \in Openers |-> steady[o] \ {a}]
  /\ calm' = [o \in Openers |-> calm[o] /\ path[o][1] # a]
  /\ OnlyBus

----------------------------------------------------------------------------
OpenerStep(o) ==
  \/ \E product \in Wanted :
       \/ \E serial \in Serials \cup {Null} : HidOpen(o, product, serial)
       \/ FcdOpenFirst(o, product) \/ FcdForEach(o, product)
  \/ Restart(o) \/ HidOpenFound(o) \/ FcdIo(o) \/ ForEachCall(o) \/ ForEachReturn(o)
  \/ LibusbOpen(o) \/ TestDriver(o) \/ DetachDriver(o) \/ Claim(o)
  \/ WalkEnd(o) \/ Refused(o) \/ hid_close(o)

Next ==
  \/ \E o \in Openers : OpenerStep(o)
  \/ \E d \in Devices : Plug(d)
  \/ \E a \in Addresses : Unplug(a)

Spec == Init /\ [][Next]_vars

----------------------------------------------------------------------------
(* hid_open_path returns NULL, or hid_close returns: nothing the call      *)
(* opened, claimed or started is left, however it ended.                   *)
NullLeavesNothing ==
  \A o \in Openers : ~Busy(o) =>
    /\ \A a \in Addresses : opened[o][a] = 0
    /\ threads[o] = 0
    /\ \A c \in claims : c[1] # o

(* A handle hid_open_path returns is open, is on the interface its path    *)
(* names, has the only read thread, and has the claim to that interface as *)
(* long as the device is there.                                            *)
HandleIsPath ==
  \A o \in Openers : pc[o] = "open" =>
    /\ make_path(handle[o][1], handle[o][2]) = path[o]
    /\ \A a \in Addresses : opened[o][a] = IF a = handle[o][1] THEN 1 ELSE 0
    /\ threads[o] = 1
    /\ ~gone[o] => <<o, handle[o][1], handle[o][2]>> \in claims

(* hid_open opens, and a path of fcd_open or fcd_for_each goes on opening, *)
(* a device of the product and the serial number that were asked for, as   *)
(* long as the device at the address has not left since the enumeration.   *)
(* (Once it has, the path may open any device that is given the address:   *)
(* hid_open_path compares nothing else.)                                   *)
AskedFor ==
  \A o \in Openers : pc[o] = "open" /\ handle[o][1] \in steady[o] =>
    LET d == device[handle[o][1]]
    IN /\ Product[d] = want[o].product
       /\ want[o].serial \in {Null, Serial[d]}

(* hid_open_path returns NULL only for a reason: the device went away, has *)
(* no such interface, no configuration or no access, or somebody else was  *)
(* opening or holding the same path meanwhile.                             *)
AloneSucceeds == \A o \in Openers : pc[o] = "null" => ~calm[o]

(* When fcd_for_each has visited all it found, it has called back with     *)
(* every wanted device that was there all the time, readable or not, if    *)
(* hid_enumerate had a list to go through.  (If it had none, fcd_for_each  *)
(* has called nobody and returns 0 all the same.)                          *)
VisitsAll ==
  \A o \in Openers : pc[o] = "each" /\ devs[o] = {} =>
    \A a \in steady[o] : Product[device[a]] = want[o].product =>
      \A s \in Settings[device[a]] : make_path(a, s[1]) \in visited[o]
=============================================================================
