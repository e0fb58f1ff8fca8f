-------------------------- MODULE UsbInstancesProofs --------------------------
(***************************************************************************)
(* Safety of UsbInstances for any subtypes, modes, profiles and number of  *)
(* loads: its tables are well formed, a host that stays connected has what *)
(* it enumerated, and one that is dropped was dropped for a reason.        *)
(*                                                                         *)
(* During a load a host has read the last load's table, not the one that   *)
(* is being built.  InstancesInv says how the two are related: each device *)
(* is the one that was at its place (Origin), or nothing there could have  *)
(* been taken over for it.  SubsInv says that without an Xbox One device   *)
(* a table's devices are the profiles on USB, in their order, so that two  *)
(* tables that look the same are for the same profiles.                    *)
(***************************************************************************)
EXTENDS MCLoads, ConfigFlashProofs, FiniteSetTheorems, WellFoundedInduction, TLAPS

-----------------------------------------------------------------------------
(* Tables of interfaces *)

AllSubs == {"gamepad", "guitar", "keyboard", "mic"}
AllModes == {"hid", "x360", "xone", "ps3"}
Loads == {"profiles", "config", "security", "end"}

Devices ==
    [kind : Kinds, mode : AllModes \union {None}, sub : AllSubs \union {None}, at : Nat,
     before : [Counters -> Nat], as : Identities \union {None}, new : BOOLEAN, opened : BOOLEAN]

\* What a device's kind says of its identity
PlainDevice(o) ==
    /\ o.kind = "pad" => o.mode # "xone" /\ o.sub \in AllSubs \ {"mic"}
    /\ o.kind = "xone" => o.mode = "xone" /\ o.sub = "gamepad"
    /\ o.kind = "mic" => o.sub = IF o.mode = "xone" THEN "gamepad" ELSE "mic"
    /\ o.kind \in {"config", "security"} => o.sub = None
    /\ o.kind = "config" => o.mode = None
    /\ o.kind # "xone" => o.as = None

Unused == [c \in Counters |-> 0]
Used(t) == IF t = << >> THEN Unused ELSE AllocAfter(t[Len(t)])
UsedBefore(t, i) == IF i = 1 THEN Unused ELSE AllocAfter(t[i - 1])

\* Where a device's first interface is, and a microphone's second
First(t, i) == t[i].at = i /\ t[i].before = UsedBefore(t, i)
Second(t, i) == i > 1 /\ t[i].at = i - 1 /\ t[i].kind = "mic" /\ t[i] = t[i - 1]

Disjoint(t) ==
    \A i, j \in DOMAIN t : t[i].at < t[j].at => \A c \in Counters : AllocAfter(t[i])[c] <= t[j].before[c]

Table(t) ==
    /\ t \in Seq(Devices)
    /\ \A i \in DOMAIN t :
           /\ PlainDevice(t[i])
           /\ First(t, i) \/ Second(t, i)
           /\ t[i].kind = "mic" /\ t[i].at = i => i + 1 \in DOMAIN t /\ t[i + 1] = t[i]
           /\ \A c \in Counters : AllocAfter(t[i])[c] <= Used(t)[c]
    /\ Disjoint(t)

\* Its load is over
Settled(t) == \A i \in DOMAIN t : ~t[i].new /\ (t[i].kind = "xone" => t[i].as # None)

-----------------------------------------------------------------------------
(* The invariant of a load *)

InstanceTypes ==
    /\ stage \in Loads \union {"main", "undefined"}
    /\ Table(slot) /\ Table(prev) /\ (stage = "main" => prev = << >>)
    /\ alloc \in [Counters -> Nat]
    /\ emulated \in [{"xone", "ps3"} -> Nat \union {None}]
    /\ subs \in Seq(Subs) /\ lastSubs \in Seq(Subs)
    /\ players \in Seq([sub : Subs, held : BOOLEAN])
    /\ {mode, requested, detected} \subseteq Modes
    /\ {forced, reinitStack, battery, hadBattery, windows, receiver, wasReceiver, aloneInHid, up} \subseteq BOOLEAN

\* The interface that comes next is one the last load had
WasThere(o, i) ==
    /\ i \in DOMAIN prev /\ battery = hadBattery
    /\ prev[i].kind # "config" /\ prev[i].at = i
    /\ prev[i].mode = o.mode /\ prev[i].sub = o.sub /\ prev[i].before = o.before

ConfigOpened == \E i \in DOMAIN prev : prev[i].kind = "config" /\ prev[i].opened

\* Where each device of a load came from
Origin(o, i) ==
    /\ o.kind = "config" => ~o.new /\ o.opened = ConfigOpened
    /\ o.kind # "config" /\ ~o.new => i \in DOMAIN prev /\ o = prev[i]
    /\ o.new /\ o.at = i => ~WasThere(o, i)

\* What the host has read, of the last load's table
LastRead ==
    [faces |-> [i \in DOMAIN prev |-> Face(prev[i], hadBattery)],
     receiver |-> wasReceiver /\ ~HasXboxOne(prev)]

NoConfig(t) == \A i \in DOMAIN t : t[i].kind # "config"

LoadInv ==
    /\ Settled(prev) /\ alloc = Used(slot) /\ receiver = wasReceiver
    /\ \A i \in DOMAIN slot : Origin(slot[i], i)
    /\ stage \in {"profiles", "config"} => NoConfig(slot)
    /\ \A i, j \in DOMAIN slot : slot[i].kind = "config" /\ slot[j].kind = "config" => i = j
    /\ \A i \in DOMAIN slot : slot[i].kind = "xone" => slot[i].as # None \/ emulated["xone"] = i
    /\ emulated["xone"] # None =>
           /\ emulated["xone"] \in DOMAIN slot
           /\ slot[emulated["xone"]].kind = "xone" => slot[emulated["xone"]].as # None \/ players # << >>
    /\ read # None => read = LastRead /\ \A i \in DOMAIN prev : prev[i].opened

MainInv ==
    /\ Settled(slot)
    /\ read # None => read = Descriptors /\ \A i \in DOMAIN slot : slot[i].opened

InstancesInv ==
    /\ InstanceTypes
    /\ stage \in Loads => LoadInv
    /\ stage = "main" => MainInv

-----------------------------------------------------------------------------
(* Which profiles a table is for, where there is no Xbox One device *)

SubOf(o) == IF o.kind = "mic" THEN "mic" ELSE o.sub
Starts(t) == {i \in DOMAIN t : t[i].at = i /\ t[i].kind \in {"pad", "mic"}}
Rank(t, i) == Cardinality({j \in Starts(t) : j <= i})

Matches(t, ss) ==
    /\ Len(ss) = Cardinality(Starts(t))
    /\ \A k \in DOMAIN ss : \E i \in Starts(t) : Rank(t, i) = k /\ ss[k] = SubOf(t[i])

SubsInv ==
    /\ stage = "main" /\ ~HasXboxOne(slot) => Matches(slot, subs)
    /\ stage \in Loads /\ ~HasXboxOne(slot) /\ emulated["xone"] = None => Matches(slot, subs)
    /\ stage \in Loads /\ ~HasXboxOne(prev) => Matches(prev, lastSubs)

-----------------------------------------------------------------------------
(* Placing a device *)

\* What a device takes is never less than what was taken before it
LEMMA CountersTaken ==
    ASSUME NEW o, o.kind \in Kinds, o.before \in [Counters -> Nat]
    PROVE  /\ AllocAfter(o) \in [Counters -> Nat]
           /\ \A c \in Counters : o.before[c] <= AllocAfter(o)[c]
<1>1. Takes(o.kind) \in [Counters -> Nat]
    BY DEF Takes, Counters, Kinds
<1>2. \A c \in Counters : AllocAfter(o)[c] = o.before[c] + Takes(o.kind)[c]
    BY DEF AllocAfter
<1>3. AllocAfter(o) = [c \in Counters |-> o.before[c] + Takes(o.kind)[c]]
    BY DEF AllocAfter
<1> QED
    BY <1>1, <1>2, <1>3

\* What a device takes doesn't depend on what is known of it later
LEMMA AfterSame ==
    ASSUME NEW o, NEW p, o.kind = p.kind, o.before = p.before
    PROVE  AllocAfter(o) = AllocAfter(p)
    BY DEF AllocAfter

\* Joining a device's interfaces to a table leaves what is in it
LEMMA Joined ==
    ASSUME NEW t \in Seq(Devices), NEW o \in Devices
    PROVE  /\ t \o Interfaces(o) \in Seq(Devices)
           /\ Len(t \o Interfaces(o)) = Len(t) + IF o.kind = "mic" THEN 2 ELSE 1
           /\ \A i \in DOMAIN t : i \in DOMAIN (t \o Interfaces(o)) /\ (t \o Interfaces(o))[i] = t[i]
           /\ \A i \in DOMAIN (t \o Interfaces(o)) \ DOMAIN t : (t \o Interfaces(o))[i] = o
           /\ Len(t) + 1 \in DOMAIN (t \o Interfaces(o)) \ DOMAIN t
<1>1. CASE o.kind = "mic"
  <2>1. Interfaces(o) = <<o, o>>
      BY <1>1 DEF Interfaces
  <2>2. <<o, o>> \in Seq(Devices) /\ Len(<<o, o>>) = 2 /\ <<o, o>>[1] = o /\ <<o, o>>[2] = o
      OBVIOUS
  <2> QED
      BY <1>1, <2>1, <2>2
<1>2. CASE o.kind # "mic"
  <2>1. Interfaces(o) = <<o>>
      BY <1>2 DEF Interfaces
  <2>2. <<o>> \in Seq(Devices) /\ Len(<<o>>) = 1 /\ <<o>>[1] = o
      OBVIOUS
  <2> QED
      BY <1>2, <2>1, <2>2
<1> QED
    BY <1>1, <1>2

\* A device placed at the end of a table makes a table
LEMMA Placed ==
    ASSUME NEW t, Table(t), NEW o \in Devices, PlainDevice(o), o.at = Len(t) + 1, o.before = Used(t)
    PROVE  Table(t \o Interfaces(o)) /\ Used(t \o Interfaces(o)) = AllocAfter(o)
<1> DEFINE u == t \o Interfaces(o)
<1>0. t \in Seq(Devices) /\ o.kind \in Kinds /\ o.before \in [Counters -> Nat]
    BY DEF Table, Devices
<1>1. /\ u \in Seq(Devices) /\ Len(u) = Len(t) + IF o.kind = "mic" THEN 2 ELSE 1
      /\ \A i \in DOMAIN t : i \in DOMAIN u /\ u[i] = t[i]
      /\ \A i \in DOMAIN u \ DOMAIN t : u[i] = o
    BY <1>0, Joined
<1> HIDE DEF u
<1>2. DOMAIN u = 1..Len(u) /\ DOMAIN t = 1..Len(t) /\ Len(t) \in Nat /\ Len(u) \in Nat
    BY <1>0, <1>1
<1>3. u[Len(u)] = o /\ u # << >>
    BY <1>1, <1>2
<1>4. Used(u) = AllocAfter(o)
    BY <1>3 DEF Used
<1>5. \A c \in Counters : Used(t)[c] <= AllocAfter(o)[c] /\ Used(t)[c] \in Nat /\ AllocAfter(o)[c] \in Nat
    BY <1>0, CountersTaken
<1>6. \A i \in DOMAIN t : AllocAfter(t[i]) \in [Counters -> Nat]
  <2> TAKE i \in DOMAIN t
  <2>1. t[i] \in Devices
      BY <1>0
  <2>2. t[i].kind \in Kinds /\ t[i].before \in [Counters -> Nat]
      BY <2>1 DEF Devices
  <2> QED
      BY <2>2, CountersTaken
<1>7. ASSUME NEW i \in DOMAIN u
      PROVE  /\ PlainDevice(u[i])
             /\ First(u, i) \/ Second(u, i)
             /\ u[i].kind = "mic" /\ u[i].at = i => i + 1 \in DOMAIN u /\ u[i + 1] = u[i]
             /\ \A c \in Counters : AllocAfter(u[i])[c] <= Used(u)[c]
  <2>1. CASE i \in DOMAIN t
    <3>1. u[i] = t[i] /\ (i > 1 => u[i - 1] = t[i - 1]) /\ (i + 1 \in DOMAIN t => u[i + 1] = t[i + 1] /\ i + 1 \in DOMAIN u)
        BY <1>1, <1>2, <2>1
    <3>2. /\ PlainDevice(t[i])
          /\ First(t, i) \/ Second(t, i)
          /\ t[i].kind = "mic" /\ t[i].at = i => i + 1 \in DOMAIN t /\ t[i + 1] = t[i]
          /\ \A c \in Counters : AllocAfter(t[i])[c] <= Used(t)[c]
        BY <2>1 DEF Table
    <3>3. First(u, i) \/ Second(u, i)
        BY <1>2, <2>1, <3>1, <3>2 DEF First, Second, UsedBefore
    <3>4. \A c \in Counters : AllocAfter(u[i])[c] <= Used(u)[c]
        BY <1>4, <1>5, <1>6, <2>1, <3>1, <3>2
    <3> QED
        BY <3>1, <3>2, <3>3, <3>4
  <2>2. CASE i = Len(t) + 1
    <3>1. u[i] = o /\ (Len(t) > 0 => u[i - 1] = t[Len(t)])
        BY <1>1, <1>2, <2>2
    <3>2. UsedBefore(u, i) = Used(t)
        BY <1>0, <1>2, <2>2, <3>1 DEF UsedBefore, Used
    <3>3. First(u, i)
        BY <2>2, <3>1, <3>2 DEF First
    <3>4. u[i].kind = "mic" => i + 1 \in DOMAIN u /\ u[i + 1] = u[i]
        BY <1>1, <1>2, <2>2, <3>1
    <3> QED
        BY <1>4, <1>5, <3>1, <3>3, <3>4
  <2>3. CASE i \notin DOMAIN t /\ i # Len(t) + 1
    <3>1. o.kind = "mic" /\ i = Len(t) + 2 /\ u[i] = o /\ u[i - 1] = o
        BY <1>1, <1>2, <2>3
    <3>2. Second(u, i)
        BY <1>2, <3>1 DEF Second
    <3> QED
        BY <1>2, <1>4, <1>5, <3>1, <3>2
  <2> QED
      BY <2>1, <2>2, <2>3
<1>8. \A i \in DOMAIN t : t[i].at <= Len(t) /\ t[i].at \in Nat
  <2> TAKE i \in DOMAIN t
  <2>1. t[i] \in Devices /\ (t[i].at = i \/ t[i].at = i - 1)
      BY <1>0 DEF Table, First, Second
  <2> QED
      BY <1>2, <2>1
<1>9. Disjoint(u)
  <2> SUFFICES ASSUME NEW i \in DOMAIN u, NEW j \in DOMAIN u, u[i].at < u[j].at, NEW c \in Counters
               PROVE  AllocAfter(u[i])[c] <= u[j].before[c]
      BY DEF Disjoint
  <2>1. i \in DOMAIN t
    <3>1. ASSUME i \notin DOMAIN t PROVE FALSE
      <4>1. u[i].at = Len(t) + 1
          BY <1>1, <3>1
      <4>2. u[j].at <= Len(t) + 1 /\ u[j].at \in Nat
          BY <1>1, <1>2, <1>8
      <4> QED
          BY <1>2, <4>1, <4>2
    <3> QED
        BY <3>1
  <2>2. CASE j \in DOMAIN t
      BY <1>1, <2>1, <2>2 DEF Table, Disjoint
  <2>3. CASE j \notin DOMAIN t
      BY <1>1, <2>1, <2>3 DEF Table
  <2> QED
      BY <2>2, <2>3
<1>10. Table(u)
    BY <1>1, <1>7, <1>9 DEF Table
<1> QED
    BY <1>4, <1>10 DEF u

\* Opening devices, and what the end of a load does to them, leaves a table
LEMMA Changed ==
    ASSUME NEW t, Table(t), NEW u \in Seq(Devices), Len(u) = Len(t),
           \A i \in DOMAIN t : /\ u[i].kind = t[i].kind /\ u[i].mode = t[i].mode /\ u[i].sub = t[i].sub
                               /\ u[i].at = t[i].at /\ u[i].before = t[i].before
                               /\ t[i].kind # "xone" => u[i].as = t[i].as,
           \A i \in DOMAIN t : i > 1 /\ t[i] = t[i - 1] => u[i] = u[i - 1]
    PROVE  Table(u) /\ Used(u) = Used(t)
<1>0. t \in Seq(Devices) /\ DOMAIN u = 1..Len(t) /\ DOMAIN t = 1..Len(t) /\ Len(t) \in Nat
    BY DEF Table
<1>1. \A i \in DOMAIN t : AllocAfter(u[i]) = AllocAfter(t[i])
    BY AfterSame
<1>2. Used(u) = Used(t)
  <2>1. CASE t = << >>
      BY <1>0, <2>1 DEF Used
  <2>2. CASE t # << >>
    <3>1. Len(t) \in DOMAIN t /\ u # << >>
        BY <1>0, <2>2
    <3> QED
        BY <1>1, <2>2, <3>1 DEF Used
  <2> QED
      BY <2>1, <2>2
<1>3. \A i \in DOMAIN t : UsedBefore(u, i) = UsedBefore(t, i)
  <2> TAKE i \in DOMAIN t
  <2>1. i # 1 => i - 1 \in DOMAIN t
      BY <1>0
  <2> QED
      BY <1>1, <2>1 DEF UsedBefore
<1>4. ASSUME NEW i \in DOMAIN u
      PROVE  /\ PlainDevice(u[i])
             /\ First(u, i) \/ Second(u, i)
             /\ u[i].kind = "mic" /\ u[i].at = i => i + 1 \in DOMAIN u /\ u[i + 1] = u[i]
             /\ \A c \in Counters : AllocAfter(u[i])[c] <= Used(u)[c]
  <2>0. i \in DOMAIN t
      BY <1>0
  <2>1. /\ PlainDevice(t[i])
        /\ First(t, i) \/ Second(t, i)
        /\ t[i].kind = "mic" /\ t[i].at = i => i + 1 \in DOMAIN t /\ t[i + 1] = t[i]
        /\ \A c \in Counters : AllocAfter(t[i])[c] <= Used(t)[c]
      BY <2>0 DEF Table
  <2>2. PlainDevice(u[i])
      BY <2>0, <2>1 DEF PlainDevice
  <2>3. First(u, i) \/ Second(u, i)
      BY <1>0, <1>3, <2>0, <2>1 DEF First, Second
  <2>4. u[i].kind = "mic" /\ u[i].at = i => i + 1 \in DOMAIN u /\ u[i + 1] = u[i]
    <3>1. (i + 1) - 1 = i /\ i \in Nat /\ i + 1 > 1
        BY <1>0
    <3> QED
        BY <1>0, <2>0, <2>1, <3>1
  <2> QED
      BY <1>1, <1>2, <2>0, <2>1, <2>2, <2>3, <2>4
<1>5. Disjoint(u)
    BY <1>0, <1>1 DEF Table, Disjoint
<1> QED
    BY <1>2, <1>4, <1>5 DEF Table

-----------------------------------------------------------------------------
(* What a load places *)

\* A device that is made or taken over is the one asked for, at the place it is for
LEMMA TakenOrMade ==
    ASSUME InstancesAssumption, InstanceTypes, Settled(prev), alloc = Used(slot),
           NEW kind \in Kinds \ {"config"}, NEW m \in AllModes, NEW sub \in AllSubs \union {None},
           PlainDevice(Device(kind, m, sub)), kind = "security" <=> sub = None,
           NEW o, o = Instance(kind, m, sub)
    PROVE  /\ o \in Devices /\ PlainDevice(o) /\ o.at = Len(slot) + 1 /\ o.before = Used(slot)
           /\ Origin(o, Len(slot) + 1)
           /\ o.mode = m /\ o.sub = sub /\ o.kind # "config" /\ (o.new => o.kind = kind)
           /\ o.kind = "xone" => o.as # None \/ o.new
           /\ m # "xone" \/ sub = None => o.kind = kind
<1>0. Len(slot) + 1 \in Nat /\ slot \in Seq(Devices) /\ prev \in Seq(Devices) /\ alloc \in [Counters -> Nat]
    BY DEF InstanceTypes, Table
<1>1. CASE SameDevice(m, sub)
  <2>1. /\ o = prev[Len(slot) + 1] /\ Len(slot) + 1 \in DOMAIN prev /\ battery = hadBattery
        /\ o.kind # "config" /\ o.at = Len(slot) + 1 /\ o.mode = m /\ o.sub = sub /\ o.before = alloc
      BY <1>0, <1>1 DEF SameDevice, Instance
  <2>2. o \in Devices /\ PlainDevice(o)
      BY <1>0, <2>1 DEF InstanceTypes, Table
  <2>3. ~o.new /\ (o.kind = "xone" => o.as # None)
      BY <2>1 DEF Settled
  <2>4. Origin(o, Len(slot) + 1)
      BY <2>1, <2>3 DEF Origin
  <2>5. m # "xone" \/ sub = None => o.kind = kind
    <3>1. o.kind \in Kinds
        BY <2>2 DEF Devices
    <3>2. None \notin AllSubs
        BY DEF InstancesAssumption, AllSubs
    <3>3. /\ Device(kind, m, sub).kind = kind /\ Device(kind, m, sub).mode = m /\ Device(kind, m, sub).sub = sub
        BY DEF Device
    <3>4. CASE sub = None
        BY <2>1, <2>2, <3>1, <3>2, <3>4 DEF PlainDevice, Kinds, AllSubs
    <3>5. CASE m # "xone" /\ sub # None
      <4>1. o.kind = IF sub = "mic" THEN "mic" ELSE "pad"
          BY <2>1, <2>2, <3>1, <3>5 DEF PlainDevice, Kinds, AllSubs
      <4>2. kind = IF sub = "mic" THEN "mic" ELSE "pad"
          BY <3>3, <3>5 DEF PlainDevice, Kinds, AllSubs
      <4> QED
          BY <4>1, <4>2
    <3> QED
        BY <3>4, <3>5
  <2> QED
      BY <2>1, <2>2, <2>3, <2>4, <2>5
<1>2. CASE ~SameDevice(m, sub)
  <2>1. o = Device(kind, m, sub)
      BY <1>2 DEF Instance
  <2>2. o \in Devices
      BY <1>0, <2>1 DEF Device, Devices
  <2>3. /\ o.kind = kind /\ o.mode = m /\ o.sub = sub /\ o.at = Len(slot) + 1 /\ o.before = alloc /\ o.new
      BY <2>1 DEF Device
  <2>4. ~WasThere(o, Len(slot) + 1)
      BY <1>0, <1>2, <2>3 DEF WasThere, SameDevice
  <2>5. Origin(o, Len(slot) + 1)
      BY <2>3, <2>4 DEF Origin
  <2> QED
      BY <2>1, <2>2, <2>3, <2>5
<1> QED
    BY <1>1, <1>2

\* The config device is the one there always is
LEMMA ConfigDevicePlain ==
    ASSUME InstanceTypes, alloc = Used(slot), NEW o, o = ConfigDevice
    PROVE  /\ o \in Devices /\ PlainDevice(o) /\ o.at = Len(slot) + 1 /\ o.before = Used(slot)
           /\ Origin(o, Len(slot) + 1) /\ o.kind = "config"
<1>0. Len(slot) + 1 \in Nat /\ slot \in Seq(Devices) /\ prev \in Seq(Devices) /\ alloc \in [Counters -> Nat]
    BY DEF InstanceTypes, Table
<1>1. o = [kind |-> "config", mode |-> None, sub |-> None, at |-> Len(slot) + 1, before |-> alloc,
           as |-> None, new |-> FALSE, opened |-> ConfigOpened]
    BY DEF ConfigDevice, Device, ConfigOpened
<1>2. ConfigOpened \in BOOLEAN
    BY DEF ConfigOpened
<1>3. o \in Devices
    BY <1>0, <1>1, <1>2 DEF Devices, Kinds
<1> QED
    BY <1>1, <1>3 DEF PlainDevice, Origin

\* Placing a device leaves the others as they are
LEMMA PlaceKeeps ==
    ASSUME InstanceTypes, \A i \in DOMAIN slot : Origin(slot[i], i),
           NEW o \in Devices, PlainDevice(o), o.at = Len(slot) + 1, o.before = Used(slot),
           Origin(o, Len(slot) + 1), Place(o), UNCHANGED <<prev, battery, hadBattery>>
    PROVE  /\ Table(slot') /\ alloc' = Used(slot') /\ alloc' \in [Counters -> Nat]
           /\ (\A i \in DOMAIN slot : Origin(slot[i], i))'
           /\ \A i \in DOMAIN slot : i \in DOMAIN slot' /\ slot'[i] = slot[i]
           /\ \A i \in DOMAIN slot' \ DOMAIN slot : slot'[i] = o
           /\ Len(slot) + 1 \in DOMAIN slot' \ DOMAIN slot
           /\ Len(slot') = Len(slot) + IF o.kind = "mic" THEN 2 ELSE 1
<1>0. /\ slot \in Seq(Devices) /\ prev \in Seq(Devices) /\ Table(slot) /\ Table(prev)
      /\ o.kind \in Kinds /\ o.before \in [Counters -> Nat]
    BY DEF InstanceTypes, Table, Devices
<1>1. Table(slot') /\ alloc' = Used(slot') /\ alloc' \in [Counters -> Nat]
    BY <1>0, Placed, CountersTaken DEF Place
<1>2. /\ \A i \in DOMAIN slot : i \in DOMAIN slot' /\ slot'[i] = slot[i]
      /\ \A i \in DOMAIN slot' \ DOMAIN slot : slot'[i] = o
      /\ Len(slot) + 1 \in DOMAIN slot' \ DOMAIN slot
      /\ Len(slot') = Len(slot) + IF o.kind = "mic" THEN 2 ELSE 1
    BY <1>0, Joined DEF Place
<1>3. DOMAIN slot' = 1..Len(slot') /\ DOMAIN slot = 1..Len(slot) /\ Len(slot) \in Nat
    BY <1>0, <1>1 DEF Table
<1>4. ASSUME NEW i \in DOMAIN slot'
      PROVE  Origin(slot'[i], i)
  <2>1. CASE i \in DOMAIN slot
      BY <1>2, <2>1
  <2>2. CASE i = Len(slot) + 1
      BY <1>2, <2>2
  <2>3. CASE i \notin DOMAIN slot /\ i # Len(slot) + 1
    <3>1. o.kind = "mic" /\ i = Len(slot) + 2 /\ slot'[i] = o
        BY <1>2, <1>3, <2>3
    <3>2. o.at # i
        BY <1>3, <3>1
    <3>3. ~o.new => i \in DOMAIN prev /\ o = prev[i]
      <4>1. SUFFICES ASSUME ~o.new PROVE i \in DOMAIN prev /\ o = prev[i]
          OBVIOUS
      <4>2. Len(slot) + 1 \in DOMAIN prev /\ prev[Len(slot) + 1] = o
          BY <3>1, <4>1 DEF Origin
      <4>3. (Len(slot) + 1) + 1 \in DOMAIN prev /\ prev[(Len(slot) + 1) + 1] = prev[Len(slot) + 1]
          BY <1>0, <3>1, <4>2 DEF Table
      <4>4. (Len(slot) + 1) + 1 = i
          BY <1>3, <3>1
      <4> QED
          BY <4>2, <4>3, <4>4
    <3> QED
        BY <3>1, <3>2, <3>3 DEF Origin
  <2> QED
      BY <2>1, <2>2, <2>3
<1>5. (\A i \in DOMAIN slot : Origin(slot[i], i))'
    BY <1>4 DEF Origin, WasThere, ConfigOpened
<1> QED
    BY <1>1, <1>2, <1>5

-----------------------------------------------------------------------------
(* Between loads *)

\* Devices the host opens, or closes, are the same
LEMMA OpenedSame ==
    ASSUME InstanceTypes, Settled(slot), NEW open \in BOOLEAN, slot' = WithOpened(open)
    PROVE  /\ Table(slot') /\ Settled(slot') /\ \A i \in DOMAIN slot' : slot'[i].opened = open
           /\ HasXboxOne(slot') = HasXboxOne(slot)
           /\ \A powered : [i \in DOMAIN slot' |-> Face(slot'[i], powered)]
                               = [i \in DOMAIN slot |-> Face(slot[i], powered)]
<1>0. slot \in Seq(Devices) /\ DOMAIN slot = 1..Len(slot) /\ Len(slot) \in Nat /\ Table(slot)
    BY DEF InstanceTypes, Table
<1>1. ASSUME NEW i \in DOMAIN slot PROVE [slot[i] EXCEPT !.opened = open] \in Devices
  <2>1. slot[i] \in Devices
      BY <1>0
  <2> QED
      BY <2>1 DEF Devices
<1>2. slot' = [i \in 1..Len(slot) |-> [slot[i] EXCEPT !.opened = open]]
    BY <1>0 DEF WithOpened
<1>3. slot' \in Seq(Devices) /\ Len(slot') = Len(slot) /\ DOMAIN slot' = DOMAIN slot
    BY <1>0, <1>1, <1>2
<1>4. ASSUME NEW i \in DOMAIN slot
      PROVE  /\ slot'[i].kind = slot[i].kind /\ slot'[i].mode = slot[i].mode /\ slot'[i].sub = slot[i].sub
             /\ slot'[i].at = slot[i].at /\ slot'[i].before = slot[i].before /\ slot'[i].as = slot[i].as
             /\ slot'[i].new = slot[i].new /\ slot'[i].opened = open
  <2>1. slot[i] \in Devices /\ slot'[i] = [slot[i] EXCEPT !.opened = open]
      BY <1>0, <1>2
  <2> QED
      BY <2>1 DEF Devices
<1>5. ASSUME NEW i \in DOMAIN slot, i > 1, slot[i] = slot[i - 1] PROVE slot'[i] = slot'[i - 1]
  <2>1. i - 1 \in 1..Len(slot) /\ i \in 1..Len(slot)
      BY <1>0, <1>5
  <2> QED
      BY <1>2, <1>5, <2>1
<1>6. Table(slot')
    BY <1>0, <1>3, <1>4, <1>5, Changed
<1>7. Settled(slot')
    BY <1>3, <1>4 DEF Settled
<1>8. HasXboxOne(slot') = HasXboxOne(slot)
    BY <1>3, <1>4 DEF HasXboxOne, Range
<1>9. \A powered : [i \in DOMAIN slot' |-> Face(slot'[i], powered)]
                       = [i \in DOMAIN slot |-> Face(slot[i], powered)]
    BY <1>3, <1>4 DEF Face
<1> QED
    BY <1>3, <1>4, <1>6, <1>7, <1>8, <1>9

\* Between loads no table is built, and opening devices or closing them is all that happens to one
LEMMA BetweenKeeps ==
    ASSUME InstancesAssumption, InstancesInv,
           \/ Reattach \/ Enumerate \/ BusReset \/ SeeWindows \/ \E m \in Modes \ {"hid"} : HostDetected(m)
           \/ RestartStack \/ RequestReinit \/ MicProcess
    PROVE  InstancesInv'
<1>0. stage = "main" /\ stage' = "main" /\ UNCHANGED <<prev, alloc, emulated, subs, lastSubs, players, battery, hadBattery, receiver, wasReceiver>>
    BY DEF Between, Reattach, Enumerate, BusReset, SeeWindows, HostDetected, RestartStack, RequestReinit,
           MicProcess, tableVars, deviceVars
<1>1. InstanceTypes /\ MainInv /\ Settled(slot) /\ stage' \notin Loads
    BY <1>0 DEF InstancesInv, MainInv, Loads
<1>2. /\ {mode', requested', detected'} \subseteq Modes
      /\ {forced', reinitStack', windows', aloneInHid', up'} \subseteq BOOLEAN
    BY <1>1 DEF InstanceTypes, Reattach, Enumerate, BusReset, SeeWindows, HostDetected, RestartStack, RequestReinit,
           MicProcess, modeVars, deviceVars, hostVars
<1>3. \/ UNCHANGED <<slot, read>>
      \/ slot' = WithOpened(TRUE) /\ read' = Descriptors
      \/ slot' = WithOpened(FALSE) /\ read' = None
    BY DEF Reattach, Enumerate, BusReset, SeeWindows, HostDetected, RestartStack, RequestReinit,
           MicProcess, tableVars, hostVars
<1>4. Table(slot') /\ MainInv'
  <2>1. CASE UNCHANGED <<slot, read>>
      BY <1>0, <1>1, <2>1 DEF InstanceTypes, MainInv, Descriptors, Settled, HasXboxOne, Face
  <2>2. CASE slot' = WithOpened(TRUE) /\ read' = Descriptors
    <3>1. /\ Table(slot') /\ Settled(slot') /\ \A i \in DOMAIN slot' : slot'[i].opened = TRUE
          /\ HasXboxOne(slot') = HasXboxOne(slot)
          /\ [i \in DOMAIN slot' |-> Face(slot'[i], battery)] = [i \in DOMAIN slot |-> Face(slot[i], battery)]
        BY <1>1, <2>2, OpenedSame
    <3>2. Descriptors' = Descriptors
        BY <1>0, <3>1 DEF Descriptors, Face, HasXboxOne
    <3>3. Settled(slot)'
        BY <3>1 DEF Settled
    <3> QED
        BY <2>2, <3>1, <3>2, <3>3 DEF MainInv
  <2>3. CASE slot' = WithOpened(FALSE) /\ read' = None
    <3>1. Table(slot') /\ Settled(slot')
        BY <1>1, <2>3, OpenedSame
    <3>2. Settled(slot)'
        BY <3>1 DEF Settled
    <3> QED
        BY <2>3, <3>1, <3>2 DEF MainInv
  <2> QED
      BY <1>3, <2>1, <2>2, <2>3
<1>5. InstanceTypes'
  <2>1. Table(slot)' /\ Table(prev)' /\ (stage = "main" => prev = << >>)'
      BY <1>0, <1>1, <1>4 DEF InstanceTypes, Table, Disjoint, First, Second, Used, UsedBefore
  <2> QED
      BY <1>0, <1>1, <1>2, <2>1 DEF InstanceTypes
<1> QED
    BY <1>0, <1>1, <1>4, <1>5 DEF InstancesInv

-----------------------------------------------------------------------------
(* The steps of a load *)

\* Before the first load there is no device
LEMMA InitHolds == ASSUME InstancesAssumption PROVE UsbInit => InstancesInv
<1> SUFFICES ASSUME UsbInit PROVE InstancesInv
    OBVIOUS
<1>1. << >> \in Seq(Devices) /\ << >> \in Seq(Subs) /\ << >> \in Seq([sub : Subs, held : BOOLEAN])
      /\ DOMAIN << >> = {}
    OBVIOUS
<1>2. Table(<< >>) /\ Settled(<< >>)
    BY <1>1 DEF Table, Disjoint, Settled
<1>3. alloc \in [Counters -> Nat]
    BY DEF UsbInit
<1>4. emulated \in [{"xone", "ps3"} -> Nat \union {None}]
    BY DEF UsbInit, NoEmulated
<1>5. InstanceTypes
    BY <1>1, <1>2, <1>3, <1>4 DEF UsbInit, InstanceTypes, InstancesAssumption
<1> QED
    BY <1>2, <1>5 DEF UsbInit, InstancesInv, MainInv, Loads

\* What the host read of the devices becomes the last load's
LEMMA BeginKeeps ==
    ASSUME InstancesAssumption, InstancesInv, Begin
    PROVE  InstancesInv'
<1>0. stage = "main" /\ InstanceTypes /\ MainInv
    BY DEF Begin, Between, InstancesInv
<1>1. /\ stage' = "profiles" /\ prev' = slot /\ slot' = << >> /\ alloc' = Unused /\ emulated' = NoEmulated
      /\ lastSubs' = subs /\ subs' = << >> /\ players' = << >> /\ hadBattery' = battery /\ wasReceiver' = receiver
      /\ UNCHANGED <<mode, detected, reinitStack, receiver, aloneInHid, windows, up, read>>
    BY DEF Begin, hostVars, Unused
<1>2. forced' \in BOOLEAN /\ requested' \in Modes /\ battery' \in BOOLEAN
    BY <1>0 DEF Begin, InstanceTypes
<1>3. << >> \in Seq(Devices) /\ << >> \in Seq(Subs) /\ << >> \in Seq([sub : Subs, held : BOOLEAN])
      /\ DOMAIN << >> = {}
    OBVIOUS
<1>4. Table(slot)' /\ Table(prev)'
  <2>1. Table(<< >>)
      BY <1>3 DEF Table, Disjoint
  <2>2. Table(slot') /\ Table(prev')
      BY <1>0, <1>1, <2>1 DEF InstanceTypes
  <2> QED
      BY <2>2 DEF Table, Disjoint, First, Second, Used, UsedBefore
<1>5. alloc' \in [Counters -> Nat] /\ emulated' \in [{"xone", "ps3"} -> Nat \union {None}]
    BY <1>1 DEF Unused, NoEmulated
<1>6. InstanceTypes'
    BY <1>0, <1>1, <1>2, <1>3, <1>4, <1>5 DEF InstanceTypes, Loads
<1>7. emulated'["xone"] = None /\ alloc' = Used(slot')
    BY <1>1, <1>3 DEF NoEmulated, Used
<1>8. read' # None => read' = LastRead' /\ \A i \in DOMAIN prev' : prev'[i].opened
    BY <1>0, <1>1 DEF MainInv, Descriptors, LastRead, Face, HasXboxOne
<1>9. LoadInv'
  <2>1. Settled(prev)'
      BY <1>0, <1>1 DEF MainInv, Settled
  <2>2. (alloc = Used(slot))'
      BY <1>7 DEF Used
  <2> QED
      BY <1>1, <1>3, <1>7, <1>8, <2>1, <2>2 DEF LoadInv, NoConfig
<1> QED
    BY <1>1, <1>6, <1>9 DEF InstancesInv, Loads

\* What a step of a load that leaves the last load's table alone has to show
LEMMA LoadStep ==
    ASSUME InstancesInv, stage \in Loads, stage' \in Loads,
           UNCHANGED <<prev, lastSubs, mode, detected, reinitStack, battery, hadBattery, receiver, wasReceiver,
                       aloneInHid, windows, up, read>>,
           forced' \in BOOLEAN, requested' \in Modes, subs' \in Seq(Subs),
           players' \in Seq([sub : Subs, held : BOOLEAN]),
           emulated' \in [{"xone", "ps3"} -> Nat \union {None}],
           Table(slot'), alloc' = Used(slot'), alloc' \in [Counters -> Nat],
           (\A i \in DOMAIN slot : Origin(slot[i], i))',
           stage' \in {"profiles", "config"} => NoConfig(slot'),
           \A i, j \in DOMAIN slot' : slot'[i].kind = "config" /\ slot'[j].kind = "config" => i = j,
           \A i \in DOMAIN slot' : slot'[i].kind = "xone" => slot'[i].as # None \/ emulated'["xone"] = i,
           emulated'["xone"] # None =>
               /\ emulated'["xone"] \in DOMAIN slot'
               /\ slot'[emulated'["xone"]].kind = "xone" =>
                      slot'[emulated'["xone"]].as # None \/ players' # << >>
    PROVE  InstancesInv'
<1>0. InstanceTypes /\ LoadInv /\ stage' # "main"
    BY DEF InstancesInv, Loads
<1>1. Table(slot)' /\ Table(prev)'
  <2>1. Table(prev')
      BY <1>0 DEF InstanceTypes
  <2> QED
      BY <2>1 DEF Table, Disjoint, First, Second, Used, UsedBefore
<1>2. InstanceTypes'
    BY <1>0, <1>1 DEF InstanceTypes
<1>3. Settled(prev)' /\ (alloc = Used(slot))' /\ (receiver = wasReceiver)'
    BY <1>0 DEF LoadInv, Settled, Used
<1>4. (read # None => read = LastRead /\ \A i \in DOMAIN prev : prev[i].opened)'
    BY <1>0 DEF LoadInv, LastRead, Face, HasXboxOne
<1>5. (stage \in {"profiles", "config"} => NoConfig(slot))'
    BY DEF NoConfig
<1>6. LoadInv'
    BY <1>3, <1>4, <1>5 DEF LoadInv
<1> QED
    BY <1>0, <1>2, <1>6 DEF InstancesInv

\* and one that places a device
LEMMA PlaceStep ==
    ASSUME InstancesInv, stage \in {"profiles", "config", "security"}, stage' \in Loads,
           stage' \in {"profiles", "config"} => stage = "profiles",
           UNCHANGED <<prev, lastSubs, mode, detected, reinitStack, battery, hadBattery, receiver, wasReceiver,
                       aloneInHid, windows, up, read>>,
           forced' \in BOOLEAN, requested' \in Modes, subs' \in Seq(Subs),
           players' \in Seq([sub : Subs, held : BOOLEAN]), players' = players \/ players' # << >>,
           NEW o \in Devices, PlainDevice(o), o.at = Len(slot) + 1, o.before = Used(slot),
           Origin(o, Len(slot) + 1), Place(o),
           o.kind = "config" => stage = "config",
           emulated' \in [{"xone", "ps3"} -> Nat \union {None}],
           o.kind = "xone" => o.as # None \/ emulated'["xone"] = Len(slot) + 1,
           \/ emulated'["xone"] = emulated["xone"]
           \/ /\ emulated["xone"] = None /\ emulated'["xone"] = Len(slot) + 1
              /\ o.kind = "xone" => o.as # None \/ players' # << >>,
           None \notin Nat
    PROVE  InstancesInv'
<1>0. InstanceTypes /\ LoadInv /\ stage \in Loads
    BY DEF InstancesInv, Loads
<1>1. /\ Table(slot') /\ alloc' = Used(slot') /\ alloc' \in [Counters -> Nat]
      /\ (\A i \in DOMAIN slot : Origin(slot[i], i))'
      /\ \A i \in DOMAIN slot : i \in DOMAIN slot' /\ slot'[i] = slot[i]
      /\ \A i \in DOMAIN slot' \ DOMAIN slot : slot'[i] = o
      /\ Len(slot) + 1 \in DOMAIN slot' \ DOMAIN slot
      /\ Len(slot') = Len(slot) + IF o.kind = "mic" THEN 2 ELSE 1
    BY <1>0, PlaceKeeps DEF LoadInv
<1>2. DOMAIN slot' = 1..Len(slot') /\ DOMAIN slot = 1..Len(slot) /\ Len(slot) \in Nat
  <2>1. slot \in Seq(Devices)
      BY <1>0 DEF InstanceTypes, Table
  <2>2. slot' \in Seq(Devices)
      BY <1>1 DEF Table
  <2> QED
      BY <2>1, <2>2
<1>3. o.kind # "mic" => \A i \in DOMAIN slot' \ DOMAIN slot : i = Len(slot) + 1
    BY <1>1, <1>2
<1>4. stage' \in {"profiles", "config"} => NoConfig(slot')
    BY <1>0, <1>1 DEF LoadInv, NoConfig
<1>5. ASSUME NEW i \in DOMAIN slot', NEW j \in DOMAIN slot', slot'[i].kind = "config", slot'[j].kind = "config"
      PROVE  i = j
  <2>1. CASE o.kind = "config"
    <3>1. NoConfig(slot)
        BY <1>0, <2>1 DEF LoadInv
    <3>2. i \notin DOMAIN slot /\ j \notin DOMAIN slot
        BY <1>1, <1>5, <3>1 DEF NoConfig
    <3> QED
        BY <1>3, <2>1, <3>2
  <2>2. CASE o.kind # "config"
    <3>1. i \in DOMAIN slot /\ j \in DOMAIN slot
        BY <1>1, <1>5, <2>2
    <3> QED
        BY <1>0, <1>1, <1>5, <3>1 DEF LoadInv
  <2> QED
      BY <2>1, <2>2
<1>6. ASSUME NEW i \in DOMAIN slot', slot'[i].kind = "xone"
      PROVE  slot'[i].as # None \/ emulated'["xone"] = i
  <2>1. CASE i \in DOMAIN slot
    <3>1. slot[i].as # None \/ emulated["xone"] = i
        BY <1>0, <1>1, <1>6, <2>1 DEF LoadInv
    <3>2. i # None
        BY <1>2, <2>1
    <3> QED
        BY <1>1, <2>1, <3>1, <3>2
  <2>2. CASE i \notin DOMAIN slot
      BY <1>1, <1>3, <1>6, <2>2
  <2> QED
      BY <2>1, <2>2
<1>7. ASSUME emulated'["xone"] # None
      PROVE  /\ emulated'["xone"] \in DOMAIN slot'
             /\ slot'[emulated'["xone"]].kind = "xone" =>
                    slot'[emulated'["xone"]].as # None \/ players' # << >>
  <2>1. CASE emulated'["xone"] = emulated["xone"]
    <3>1. /\ emulated["xone"] \in DOMAIN slot
          /\ slot[emulated["xone"]].kind = "xone" => slot[emulated["xone"]].as # None \/ players # << >>
        BY <1>0, <1>7, <2>1 DEF LoadInv
    <3> QED
        BY <1>1, <2>1, <3>1
  <2>2. CASE /\ emulated["xone"] = None /\ emulated'["xone"] = Len(slot) + 1
             /\ o.kind = "xone" => o.as # None \/ players' # << >>
      BY <1>1, <2>2
  <2> QED
      BY <2>1, <2>2
<1> QED
    BY <1>0, <1>1, <1>4, <1>5, <1>6, <1>7, LoadStep

\* Steps that leave the table alone
LEMMA TableKeeps ==
    ASSUME InstancesInv, stage \in Loads, stage' \in Loads,
           stage' \in {"profiles", "config"} => stage \in {"profiles", "config"},
           UNCHANGED <<prev, lastSubs, mode, detected, reinitStack, battery, hadBattery, receiver, wasReceiver,
                       aloneInHid, windows, up, read, slot, alloc, emulated>>,
           forced' \in BOOLEAN, requested' \in Modes, subs' \in Seq(Subs),
           players' \in Seq([sub : Subs, held : BOOLEAN]), players' = players \/ players' # << >>
    PROVE  InstancesInv'
<1>0. InstanceTypes /\ LoadInv
    BY DEF InstancesInv
<1>1. /\ Table(slot') /\ alloc' = Used(slot') /\ alloc' \in [Counters -> Nat]
      /\ emulated' \in [{"xone", "ps3"} -> Nat \union {None}]
    BY <1>0 DEF InstanceTypes, LoadInv
<1>2. (\A i \in DOMAIN slot : Origin(slot[i], i))'
    BY <1>0 DEF LoadInv, Origin, WasThere, ConfigOpened
<1>3. stage' \in {"profiles", "config"} => NoConfig(slot')
    BY <1>0 DEF LoadInv
<1>4. /\ \A i, j \in DOMAIN slot' : slot'[i].kind = "config" /\ slot'[j].kind = "config" => i = j
      /\ \A i \in DOMAIN slot' : slot'[i].kind = "xone" => slot'[i].as # None \/ emulated'["xone"] = i
      /\ emulated'["xone"] # None =>
             /\ emulated'["xone"] \in DOMAIN slot'
             /\ slot'[emulated'["xone"]].kind = "xone" => slot'[emulated'["xone"]].as # None \/ players' # << >>
    BY <1>0 DEF LoadInv
<1> QED
    BY <1>1, <1>2, <1>3, <1>4, LoadStep

\* An Xbox One device takes an identity of its own, a controller's
LEMMA KindPlain ==
    ASSUME InstancesAssumption, NEW m \in AllModes, NEW sub \in Subs
    PROVE  /\ KindOf(m, sub) \in Kinds \ {"config", "security"} /\ ReloadSub(m, sub) \in AllSubs
           /\ PlainDevice(Device(KindOf(m, sub), m, ReloadSub(m, sub)))
    BY DEF InstancesAssumption, KindOf, ReloadSub, Kinds, AllSubs, PlainDevice, Device

\* A profile that isn't on USB leaves the table alone
LEMMA ElsewhereKeeps ==
    ASSUME InstancesAssumption, InstancesInv, AssignElsewhere
    PROVE  InstancesInv'
<1>0. InstanceTypes /\ stage = "profiles" /\ stage \in Loads /\ stage' = stage
    BY DEF AssignElsewhere, InstancesInv, Loads
<1>1. PICK force \in Modes : Forces(force) /\ requested' = force
    BY DEF AssignElsewhere
<1>2. forced' \in BOOLEAN
    BY <1>0, <1>1 DEF Forces, InstanceTypes
<1>3. UNCHANGED <<prev, lastSubs, mode, detected, reinitStack, battery, hadBattery, receiver, wasReceiver,
                  aloneInHid, windows, up, read, slot, alloc, emulated, subs, players>>
    BY DEF AssignElsewhere, tableVars, deviceVars, hostVars
<1>4. subs' \in Seq(Subs) /\ players' \in Seq([sub : Subs, held : BOOLEAN])
    BY <1>0, <1>3 DEF InstanceTypes
<1> QED
    BY <1>0, <1>1, <1>2, <1>3, <1>4, TableKeeps

\* One that is adds a device, shares one, or is refused
LEMMA AssignKeeps ==
    ASSUME InstancesAssumption, InstancesInv,
           NEW force \in Modes \union {None}, NEW sub \in Subs, NEW xinput \in BOOLEAN, NEW held \in BOOLEAN,
           AssignUsb(force, sub, xinput, held)
    PROVE  InstancesInv'
<1> DEFINE m == ModeFor(requested', sub, xinput)
           player == [sub |-> sub, held |-> held]
           o == Instance(KindOf(m, sub), m, ReloadSub(m, sub))
<1>0. InstanceTypes /\ LoadInv /\ stage = "profiles" /\ stage \in Loads /\ stage' = stage
    BY DEF AssignUsb, InstancesInv, Loads
<1>1. /\ UNCHANGED <<prev, lastSubs, mode, detected, reinitStack, battery, hadBattery, receiver, wasReceiver,
                     aloneInHid, windows, up, read>>
      /\ Forces(force)
      /\ requested' = IF sub = "keyboard" THEN "hid" ELSE IF force = None THEN requested ELSE force
    BY DEF AssignUsb, deviceVars, hostVars
<1>2. forced' \in BOOLEAN /\ requested' \in Modes /\ m \in AllModes
    BY <1>0, <1>1 DEF Forces, InstanceTypes, InstancesAssumption, ModeFor, AllModes
<1>3. player \in [sub : Subs, held : BOOLEAN] /\ None \notin Nat
    BY DEF InstancesAssumption
<1>4. \/ UNCHANGED <<slot, alloc, emulated, subs, players>>
      \/ /\ subs' = Append(subs, sub)
         /\ \/ Attach(sub, held)
            \/ ~(m = "xone" /\ sub # "mic" /\ emulated["xone"] # None) /\ Place(o) /\ Emulate(m, sub, held)
    BY DEF AssignUsb, AddDevice
<1> HIDE DEF m
<1>5. CASE UNCHANGED <<slot, alloc, emulated, subs, players>>
    BY <1>0, <1>1, <1>2, <1>5, TableKeeps DEF InstanceTypes
<1>6. CASE subs' = Append(subs, sub) /\ Attach(sub, held)
  <2>1. /\ UNCHANGED <<slot, alloc, emulated>> /\ subs' \in Seq(Subs)
        /\ players' \in Seq([sub : Subs, held : BOOLEAN]) /\ players' # << >>
      BY <1>0, <1>3, <1>6 DEF Attach, InstanceTypes
  <2> QED
      BY <1>0, <1>1, <1>2, <2>1, TableKeeps
<1>7. CASE /\ subs' = Append(subs, sub) /\ Place(o) /\ Emulate(m, sub, held)
           /\ ~(m = "xone" /\ sub # "mic" /\ emulated["xone"] # None)
  <2>1. Settled(prev) /\ alloc = Used(slot)
      BY <1>0 DEF LoadInv
  <2>2. /\ KindOf(m, sub) \in Kinds \ {"config", "security"} /\ ReloadSub(m, sub) \in AllSubs
        /\ PlainDevice(Device(KindOf(m, sub), m, ReloadSub(m, sub)))
      BY <1>2, KindPlain
  <2>3. ReloadSub(m, sub) # None
      BY <2>2 DEF InstancesAssumption, AllSubs
  <2>4. /\ o \in Devices /\ PlainDevice(o) /\ o.at = Len(slot) + 1 /\ o.before = Used(slot)
        /\ Origin(o, Len(slot) + 1)
        /\ o.kind # "config" /\ (o.new => o.kind = KindOf(m, sub))
        /\ o.kind = "xone" => o.as # None \/ o.new
      BY <1>0, <1>2, <2>1, <2>2, <2>3, TakenOrMade
  <2> HIDE DEF o
  <2>5. /\ emulated' \in [{"xone", "ps3"} -> Nat \union {None}]
        /\ players' \in Seq([sub : Subs, held : BOOLEAN])
        /\ players' = players \/ players' # << >>
        /\ subs' \in Seq(Subs)
    <3>1. Len(slot) + 1 \in Nat /\ emulated \in [{"xone", "ps3"} -> Nat \union {None}]
          /\ players \in Seq([sub : Subs, held : BOOLEAN]) /\ subs \in Seq(Subs)
        BY <1>0 DEF InstanceTypes, Table
    <3>2. <<player>> \in Seq([sub : Subs, held : BOOLEAN]) /\ <<player>> # << >>
        BY <1>3
    <3>3. subs' \in Seq(Subs)
        BY <1>7, <3>1
    <3> QED
        BY <1>7, <3>1, <3>2, <3>3 DEF Emulate
  <2>6. \/ emulated'["xone"] = emulated["xone"] /\ (m # "xone" \/ sub = "mic")
        \/ /\ emulated["xone"] = None /\ emulated'["xone"] = Len(slot) + 1 /\ players' # << >>
           /\ m = "xone" /\ sub # "mic"
    <3>1. emulated \in [{"xone", "ps3"} -> Nat \union {None}]
        BY <1>0 DEF InstanceTypes
    <3> QED
        BY <1>7, <3>1 DEF Emulate
  <2>7. o.kind = "xone" => o.as # None \/ emulated'["xone"] = Len(slot) + 1
      BY <2>4, <2>6 DEF KindOf
  <2> QED
      BY <1>0, <1>1, <1>2, <1>3, <1>7, <2>4, <2>5, <2>6, <2>7, PlaceStep
<1> QED
    BY <1>4, <1>5, <1>6, <1>7

\* The adapter that is kept is the one that was there
LEMMA AdapterKeeps ==
    ASSUME InstancesAssumption, InstancesInv, KeepAdapter
    PROVE  InstancesInv'
<1>0. InstanceTypes /\ LoadInv /\ stage = "profiles" /\ stage \in Loads /\ stage' = "config" /\ stage' \in Loads
    BY DEF KeepAdapter, InstancesInv, Loads
<1>1. UNCHANGED <<prev, lastSubs, mode, detected, reinitStack, battery, hadBattery, receiver, wasReceiver,
                  aloneInHid, windows, up, read, subs, players, forced, requested>>
    BY DEF KeepAdapter, deviceVars, hostVars, modeVars
<1>2. /\ forced' \in BOOLEAN /\ requested' \in Modes /\ subs' \in Seq(Subs)
      /\ players' \in Seq([sub : Subs, held : BOOLEAN])
    BY <1>0, <1>1 DEF InstanceTypes
<1>3. CASE UNCHANGED <<slot, alloc, emulated>>
    BY <1>0, <1>1, <1>2, <1>3, TableKeeps
<1>4. CASE /\ emulated["xone"] = None /\ SameDevice("xone", "gamepad")
           /\ Place(prev[Len(slot) + 1]) /\ emulated' = [emulated EXCEPT !["xone"] = Len(slot) + 1]
  <2> DEFINE o == prev[Len(slot) + 1]
  <2>1. Settled(prev) /\ alloc = Used(slot)
      BY <1>0 DEF LoadInv
  <2>2. o = Instance("xone", "xone", "gamepad")
      BY <1>4 DEF Instance
  <2>3. /\ PlainDevice(Device("xone", "xone", "gamepad")) /\ "xone" \in Kinds \ {"config"} /\ "xone" \in AllModes
        /\ "gamepad" \in AllSubs /\ "gamepad" # None /\ None \notin Nat
      BY DEF PlainDevice, Device, Kinds, AllModes, AllSubs, InstancesAssumption
  <2>4. /\ o \in Devices /\ PlainDevice(o) /\ o.at = Len(slot) + 1 /\ o.before = Used(slot)
        /\ Origin(o, Len(slot) + 1) /\ o.kind # "config"
      BY <1>0, <2>1, <2>2, <2>3, TakenOrMade
  <2>5. o.kind = "xone" => o.as # None
    <3>1. Len(slot) + 1 \in DOMAIN prev
      <4>1. Len(slot) + 1 \in Nat /\ Len(slot) + 1 > 0 /\ prev \in Seq(Devices)
          BY <1>0 DEF InstanceTypes, Table
      <4> QED
          BY <1>4, <4>1 DEF SameDevice
    <3> QED
        BY <2>1, <3>1 DEF Settled
  <2>6. /\ emulated' \in [{"xone", "ps3"} -> Nat \union {None}] /\ emulated'["xone"] = Len(slot) + 1
    <3>1. emulated \in [{"xone", "ps3"} -> Nat \union {None}] /\ Len(slot) + 1 \in Nat
        BY <1>0 DEF InstanceTypes, Table
    <3> QED
        BY <1>4, <3>1
  <2>7. Place(o)
      BY <1>4
  <2> HIDE DEF o
  <2> QED
      BY <1>0, <1>1, <1>2, <1>4, <2>3, <2>4, <2>5, <2>6, <2>7, PlaceStep
<1> QED
    BY <1>3, <1>4 DEF KeepAdapter

\* The config device comes but once
LEMMA ConfigKeeps ==
    ASSUME InstancesAssumption, InstancesInv, AddConfig
    PROVE  InstancesInv'
<1>0. InstanceTypes /\ LoadInv /\ stage = "config" /\ stage \in Loads /\ stage' = "security" /\ stage' \in Loads
    BY DEF AddConfig, InstancesInv, Loads
<1>1. UNCHANGED <<prev, lastSubs, mode, detected, reinitStack, battery, hadBattery, receiver, wasReceiver,
                  aloneInHid, windows, up, read, subs, players, emulated, forced, requested>>
    BY DEF AddConfig, deviceVars, hostVars, modeVars
<1>2. /\ forced' \in BOOLEAN /\ requested' \in Modes /\ subs' \in Seq(Subs)
      /\ players' \in Seq([sub : Subs, held : BOOLEAN])
      /\ emulated' \in [{"xone", "ps3"} -> Nat \union {None}] /\ None \notin Nat
    BY <1>0, <1>1 DEF InstanceTypes, InstancesAssumption
<1>3. CASE UNCHANGED <<slot, alloc>>
    BY <1>0, <1>1, <1>2, <1>3, TableKeeps
<1>4. CASE Place(ConfigDevice)
  <2> DEFINE o == ConfigDevice
  <2>1. /\ o \in Devices /\ PlainDevice(o) /\ o.at = Len(slot) + 1 /\ o.before = Used(slot)
        /\ Origin(o, Len(slot) + 1) /\ o.kind = "config"
      BY <1>0, ConfigDevicePlain DEF LoadInv
  <2>2. Place(o)
      BY <1>4
  <2> HIDE DEF o
  <2> QED
      BY <1>0, <1>1, <1>2, <2>1, <2>2, PlaceStep
<1> QED
    BY <1>3, <1>4 DEF AddConfig

\* The security interface is taken over as any other device
LEMMA SecurityKeeps ==
    ASSUME InstancesAssumption, InstancesInv, AddSecurity
    PROVE  InstancesInv'
<1>0. InstanceTypes /\ LoadInv /\ stage = "security" /\ stage \in Loads /\ stage' = "end" /\ stage' \in Loads
    BY DEF AddSecurity, InstancesInv, Loads
<1>1. UNCHANGED <<prev, lastSubs, mode, detected, reinitStack, battery, hadBattery, receiver, wasReceiver,
                  aloneInHid, windows, up, read, subs, players, emulated, forced, requested>>
    BY DEF AddSecurity, deviceVars, hostVars, modeVars
<1>2. /\ forced' \in BOOLEAN /\ requested' \in Modes /\ subs' \in Seq(Subs)
      /\ players' \in Seq([sub : Subs, held : BOOLEAN])
      /\ emulated' \in [{"xone", "ps3"} -> Nat \union {None}] /\ None \notin Nat
      /\ requested \in AllModes
    BY <1>0, <1>1 DEF InstanceTypes, InstancesAssumption, AllModes
<1>3. CASE UNCHANGED <<slot, alloc>>
    BY <1>0, <1>1, <1>2, <1>3, TableKeeps
<1>4. CASE Place(Instance("security", requested, None))
  <2> DEFINE o == Instance("security", requested, None)
  <2>1. Settled(prev) /\ alloc = Used(slot)
      BY <1>0 DEF LoadInv
  <2>2. PlainDevice(Device("security", requested, None)) /\ "security" \in Kinds \ {"config"}
      BY DEF PlainDevice, Device, Kinds
  <2>3. /\ o \in Devices /\ PlainDevice(o) /\ o.at = Len(slot) + 1 /\ o.before = Used(slot)
        /\ Origin(o, Len(slot) + 1) /\ o.kind = "security"
      BY <1>0, <1>2, <2>1, <2>2, TakenOrMade
  <2>4. Place(o)
      BY <1>4
  <2> HIDE DEF o
  <2> QED
      BY <1>0, <1>1, <1>2, <2>3, <2>4, PlaceStep
<1> QED
    BY <1>3, <1>4 DEF AddSecurity

-----------------------------------------------------------------------------
(* The end of a load *)

\* The same objects as before are the same to the host
LEMMA SameTables ==
    ASSUME InstancesInv, stage = "end", SameObjects
    PROVE  /\ DOMAIN slot = DOMAIN prev
           /\ \A i \in DOMAIN slot :
                  /\ slot[i].kind = prev[i].kind /\ (slot[i].kind = "xone" => slot[i].as # None)
                  /\ prev[i].opened => slot[i].opened
                  /\ \A powered : Face(slot[i], powered) = Face(prev[i], powered)
<1>0. InstanceTypes /\ LoadInv /\ Table(slot) /\ Table(prev) /\ slot \in Seq(Devices) /\ prev \in Seq(Devices)
    BY DEF InstancesInv, InstanceTypes, Table, Loads
<1>1. DOMAIN slot = DOMAIN prev /\ DOMAIN slot = 1..Len(slot) /\ Len(slot) \in Nat
    BY <1>0 DEF SameObjects
<1>2. \A i \in DOMAIN slot : slot[i].kind = prev[i].kind /\ ~slot[i].new
    BY DEF SameObjects
<1>3. \A i \in DOMAIN slot : slot[i].kind # "config" => slot[i] = prev[i]
    BY <1>0, <1>2 DEF LoadInv, Origin
<1>4. ASSUME NEW i \in DOMAIN slot
      PROVE  /\ slot[i].kind = "xone" => slot[i].as # None
             /\ prev[i].opened => slot[i].opened
             /\ \A powered : Face(slot[i], powered) = Face(prev[i], powered)
  <2>1. CASE slot[i].kind # "config"
    <3>1. slot[i] = prev[i]
        BY <1>3, <2>1
    <3>2. slot[i].kind = "xone" => prev[i].as # None
        BY <1>0, <1>1, <3>1 DEF LoadInv, Settled
    <3> QED
        BY <3>1, <3>2
  <2>2. CASE slot[i].kind = "config"
    <3>1. prev[i].kind = "config"
        BY <1>2, <2>2
    <3>2. slot[i].opened = ConfigOpened
        BY <1>0, <2>2 DEF LoadInv, Origin
    <3>3. prev[i].opened => slot[i].opened
        BY <1>1, <3>1, <3>2 DEF ConfigOpened
    <3>4. /\ PlainDevice(slot[i]) /\ PlainDevice(prev[i]) /\ First(slot, i) /\ First(prev, i)
        BY <1>0, <1>1, <2>2, <3>1 DEF Table, Second
    <3>5. UsedBefore(slot, i) = UsedBefore(prev, i)
      <4>1. CASE i = 1
          BY <4>1 DEF UsedBefore
      <4>2. CASE i # 1
        <5>1. i - 1 \in DOMAIN slot /\ i - 1 # i
            BY <1>1, <4>2
        <5>2. slot[i - 1].kind # "config"
            BY <1>0, <2>2, <5>1 DEF LoadInv
        <5>3. slot[i - 1] = prev[i - 1]
            BY <1>3, <5>1, <5>2
        <5> QED
            BY <4>2, <5>3 DEF UsedBefore
      <4> QED
          BY <4>1, <4>2
    <3>6. slot[i].at = prev[i].at /\ slot[i].before = prev[i].before
        BY <3>4, <3>5 DEF First
    <3>7. slot[i].mode = prev[i].mode /\ slot[i].sub = prev[i].sub /\ slot[i].as = prev[i].as
        BY <2>2, <3>1, <3>4 DEF PlainDevice
    <3>8. \A powered : Face(slot[i], powered) = Face(prev[i], powered)
        BY <1>2, <3>6, <3>7 DEF Face
    <3> QED
        BY <2>2, <3>3, <3>8
  <2> QED
      BY <2>1, <2>2
<1> QED
    BY <1>1, <1>2, <1>4

\* Whether the host has to enumerate again
Restart(changed) == reinitStack \/ battery # hadBattery \/ requested # mode \/ ~SameObjects \/ changed

\* The table a load leaves
LEMMA Finished ==
    ASSUME slot \in Seq(Devices), NEW changed \in BOOLEAN,
           NEW devices \in Seq(Devices), Len(devices) = Len(slot),
           \A i \in DOMAIN slot : devices[i] = [slot[i] EXCEPT !.as = devices[i].as],
           Finish(changed, devices)
    PROVE  /\ stage' = "main" /\ prev' = << >> /\ mode' = requested /\ reinitStack' = FALSE
           /\ up' = (up /\ ~Restart(changed)) /\ read' = IF Restart(changed) THEN None ELSE read
           /\ receiver' = windows /\ players' = << >> /\ lastSubs' = << >> /\ hadBattery' = battery
           /\ wasReceiver' = receiver'
           /\ UNCHANGED <<alloc, emulated, subs, requested, detected, forced, battery, aloneInHid, windows>>
           /\ slot' \in Seq(Devices) /\ Len(slot') = Len(slot) /\ DOMAIN slot' = DOMAIN slot
           /\ \A i \in DOMAIN slot :
                  /\ slot'[i].kind = slot[i].kind /\ slot'[i].mode = slot[i].mode /\ slot'[i].sub = slot[i].sub
                  /\ slot'[i].at = slot[i].at /\ slot'[i].before = slot[i].before /\ slot'[i].as = devices[i].as
                  /\ ~slot'[i].new /\ slot'[i].opened = (slot[i].opened /\ ~Restart(changed))
           /\ \A i, j \in DOMAIN slot : devices[i] = devices[j] => slot'[i] = slot'[j]
<1> DEFINE restart == reinitStack \/ battery # hadBattery \/ requested # mode \/ ~SameObjects \/ changed
<1>0. DOMAIN slot = 1..Len(slot) /\ DOMAIN devices = 1..Len(slot) /\ Len(slot) \in Nat
    OBVIOUS
<1>1. slot' = [i \in DOMAIN devices |-> [devices[i] EXCEPT !.new = FALSE, !.opened = @ /\ ~restart]]
    BY DEF Finish
<1>2. restart = Restart(changed)
    BY DEF Restart
<1> HIDE DEF restart
<1>3. ASSUME NEW i \in DOMAIN slot
      PROVE  /\ slot'[i] \in Devices
             /\ slot'[i].kind = slot[i].kind /\ slot'[i].mode = slot[i].mode /\ slot'[i].sub = slot[i].sub
             /\ slot'[i].at = slot[i].at /\ slot'[i].before = slot[i].before /\ slot'[i].as = devices[i].as
             /\ ~slot'[i].new /\ slot'[i].opened = (slot[i].opened /\ ~restart)
  <2>1. devices[i] \in Devices /\ slot[i] \in Devices /\ devices[i] = [slot[i] EXCEPT !.as = devices[i].as]
      BY <1>0
  <2>2. /\ devices[i].kind = slot[i].kind /\ devices[i].mode = slot[i].mode /\ devices[i].sub = slot[i].sub
        /\ devices[i].at = slot[i].at /\ devices[i].before = slot[i].before /\ devices[i].opened = slot[i].opened
      BY <2>1 DEF Devices
  <2>3. slot'[i] = [devices[i] EXCEPT !.new = FALSE, !.opened = @ /\ ~restart]
      BY <1>0, <1>1
  <2> QED
      BY <2>1, <2>2, <2>3 DEF Devices
<1>4. slot' \in Seq(Devices) /\ Len(slot') = Len(slot) /\ DOMAIN slot' = DOMAIN slot
  <2>1. slot' = [i \in 1..Len(slot) |-> slot'[i]]
      BY <1>0, <1>1
  <2> QED
      BY <1>0, <1>3, <2>1
<1>5. \A i, j \in DOMAIN slot : devices[i] = devices[j] => slot'[i] = slot'[j]
    BY <1>0, <1>1
<1>6. /\ stage' = "main" /\ prev' = << >> /\ mode' = requested /\ reinitStack' = FALSE
      /\ up' = (up /\ ~restart) /\ read' = IF restart THEN None ELSE read
      /\ receiver' = windows /\ players' = << >> /\ lastSubs' = << >> /\ hadBattery' = battery
      /\ wasReceiver' = receiver'
      /\ UNCHANGED <<alloc, emulated, subs, requested, detected, forced, battery, aloneInHid, windows>>
    BY DEF Finish, ForgetLast, restart
<1> QED
    BY <1>2, <1>3, <1>4, <1>5, <1>6

\* Whether there is an Xbox One device is a matter of the kinds
LEMMA SameXboxOne ==
    ASSUME NEW t, NEW u, DOMAIN u = DOMAIN t, \A i \in DOMAIN t : u[i].kind = t[i].kind
    PROVE  HasXboxOne(u) = HasXboxOne(t)
<1>1. HasXboxOne(t) <=> \E i \in DOMAIN t : t[i].kind = "xone"
    BY DEF HasXboxOne, Range
<1>2. HasXboxOne(u) <=> \E i \in DOMAIN u : u[i].kind = "xone"
    BY DEF HasXboxOne, Range
<1> QED
    BY <1>1, <1>2 DEF HasXboxOne

\* A load that ends has the host enumerate again, or leaves it what it read
LEMMA FinishKeeps ==
    ASSUME InstancesAssumption, InstancesInv, stage = "end", NEW changed \in BOOLEAN,
           NEW devices \in Seq(Devices), Len(devices) = Len(slot),
           \A i \in DOMAIN slot :
               /\ devices[i] = [slot[i] EXCEPT !.as = devices[i].as]
               /\ slot[i].kind = "xone" => devices[i].as # None
               /\ slot[i].kind # "xone" => devices[i].as = slot[i].as
               /\ ~changed /\ slot[i].as # None => Announced(devices[i].as) = Announced(slot[i].as),
           ~changed /\ ~HasXboxOne(slot) => windows = wasReceiver,
           Finish(changed, devices)
    PROVE  InstancesInv'
<1>0. /\ InstanceTypes /\ LoadInv /\ Table(slot) /\ slot \in Seq(Devices)
      /\ DOMAIN slot = 1..Len(slot) /\ Len(slot) \in Nat
    BY DEF InstancesInv, InstanceTypes, Table, Loads
<1>1. /\ stage' = "main" /\ prev' = << >> /\ mode' = requested /\ reinitStack' = FALSE
      /\ up' = (up /\ ~Restart(changed)) /\ read' = IF Restart(changed) THEN None ELSE read
      /\ receiver' = windows /\ players' = << >> /\ lastSubs' = << >> /\ hadBattery' = battery
      /\ wasReceiver' = receiver'
      /\ UNCHANGED <<alloc, emulated, subs, requested, detected, forced, battery, aloneInHid, windows>>
    BY <1>0, Finished
<1>2. \A i \in DOMAIN slot :
          /\ slot'[i].kind = slot[i].kind /\ slot'[i].mode = slot[i].mode /\ slot'[i].sub = slot[i].sub
          /\ slot'[i].at = slot[i].at /\ slot'[i].before = slot[i].before /\ slot'[i].as = devices[i].as
          /\ ~slot'[i].new /\ slot'[i].opened = (slot[i].opened /\ ~Restart(changed))
    BY <1>0, Finished
<1>3. /\ slot' \in Seq(Devices) /\ Len(slot') = Len(slot) /\ DOMAIN slot' = DOMAIN slot
      /\ \A i, j \in DOMAIN slot : devices[i] = devices[j] => slot'[i] = slot'[j]
    BY <1>0, Finished
<1>4. ASSUME NEW i \in DOMAIN slot, i > 1, slot[i] = slot[i - 1] PROVE slot'[i] = slot'[i - 1]
  <2>1. i - 1 \in DOMAIN slot
      BY <1>0, <1>4
  <2>2. slot[i].kind = "mic"
    <3>1. slot[i - 1].at = i - 1 \/ slot[i - 1].at = (i - 1) - 1
        BY <1>0, <2>1 DEF Table, First, Second
    <3>2. slot[i].at # i
        BY <1>0, <1>4, <3>1
    <3> QED
        BY <1>0, <3>2 DEF Table, First, Second
  <2>3. devices[i] = devices[i - 1]
    <3>1. devices[i].as = slot[i].as /\ devices[i - 1].as = slot[i - 1].as
        BY <1>4, <2>1, <2>2
    <3>2. /\ devices[i] = [slot[i] EXCEPT !.as = devices[i].as]
          /\ devices[i - 1] = [slot[i - 1] EXCEPT !.as = devices[i - 1].as]
        BY <2>1
    <3> QED
        BY <1>4, <3>1, <3>2
  <2> QED
      BY <1>3, <2>1, <2>3
<1>5. Table(slot')
  <2>1. \A i \in DOMAIN slot : /\ slot'[i].kind = slot[i].kind /\ slot'[i].mode = slot[i].mode
                               /\ slot'[i].sub = slot[i].sub
                               /\ slot'[i].at = slot[i].at /\ slot'[i].before = slot[i].before
                               /\ slot[i].kind # "xone" => slot'[i].as = slot[i].as
      BY <1>2
  <2> QED
      BY <1>0, <1>3, <1>4, <2>1, Changed
<1>6. Settled(slot)'
    BY <1>2, <1>3 DEF Settled
<1>7. ASSUME read' # None
      PROVE  read' = Descriptors' /\ \A i \in DOMAIN slot' : slot'[i].opened
  <2>1. ~Restart(changed) /\ read' = read /\ read = LastRead /\ \A i \in DOMAIN prev : prev[i].opened
      BY <1>0, <1>1, <1>7 DEF LoadInv
  <2>2. battery = hadBattery /\ SameObjects /\ ~changed
      BY <2>1 DEF Restart
  <2>3. /\ DOMAIN slot = DOMAIN prev
        /\ \A i \in DOMAIN slot :
               /\ slot[i].kind = prev[i].kind /\ (slot[i].kind = "xone" => slot[i].as # None)
               /\ prev[i].opened => slot[i].opened
               /\ \A powered : Face(slot[i], powered) = Face(prev[i], powered)
      BY <2>2, SameTables
  <2>4. ASSUME NEW i \in DOMAIN slot
        PROVE  Face(slot'[i], battery) = Face(prev[i], hadBattery)
    <3>1. Announced(devices[i].as) = Announced(slot[i].as)
      <4>1. CASE slot[i].kind = "xone"
          BY <2>2, <2>3, <4>1
      <4>2. CASE slot[i].kind # "xone"
          BY <4>2
      <4> QED
          BY <4>1, <4>2
    <3>2. Face(slot'[i], battery) = Face(slot[i], battery)
        BY <1>2, <3>1 DEF Face
    <3> QED
        BY <2>2, <2>3, <3>2
  <2>5. HasXboxOne(slot') = HasXboxOne(slot) /\ HasXboxOne(slot) = HasXboxOne(prev)
    <3>1. DOMAIN slot' = DOMAIN slot /\ \A i \in DOMAIN slot : slot'[i].kind = slot[i].kind
        BY <1>2, <1>3
    <3>2. DOMAIN slot = DOMAIN prev /\ \A i \in DOMAIN slot : slot[i].kind = prev[i].kind
        BY <2>3
    <3> QED
        BY <3>1, <3>2, SameXboxOne
  <2>6. (receiver' /\ ~HasXboxOne(slot')) = (wasReceiver /\ ~HasXboxOne(prev))
    <3>1. CASE HasXboxOne(slot)
        BY <2>5, <3>1
    <3>2. CASE ~HasXboxOne(slot)
      <4>1. receiver' = wasReceiver
          BY <1>1, <2>2, <3>2
      <4>2. HasXboxOne(slot') = HasXboxOne(prev)
          BY <2>5
      <4> QED
          BY <4>1, <4>2
    <3> QED
        BY <3>1, <3>2
  <2>7. Descriptors' = [faces |-> [i \in DOMAIN slot' |-> Face(slot'[i], battery)],
                   receiver |-> receiver' /\ ~HasXboxOne(slot')]
      BY <1>1 DEF Descriptors, Face, HasXboxOne
  <2>8. [i \in DOMAIN slot' |-> Face(slot'[i], battery)] = [i \in DOMAIN prev |-> Face(prev[i], hadBattery)]
      BY <1>3, <2>3, <2>4
  <2> QED
      BY <1>2, <1>3, <2>1, <2>3, <2>6, <2>7, <2>8 DEF LastRead
<1>8. InstanceTypes'
  <2>1. << >> \in Seq(Devices) /\ << >> \in Seq(Subs) /\ << >> \in Seq([sub : Subs, held : BOOLEAN])
        /\ DOMAIN << >> = {}
      OBVIOUS
  <2>2. Table(<< >>)
      BY <2>1 DEF Table, Disjoint
  <2>3. Table(slot)' /\ Table(prev)'
    <3>1. Table(slot') /\ Table(prev')
        BY <1>1, <1>5, <2>2
    <3> QED
        BY <3>1 DEF Table, Disjoint, First, Second, Used, UsedBefore
  <2>4. up' \in BOOLEAN
      BY <1>1
  <2> QED
      BY <1>0, <1>1, <2>1, <2>3, <2>4 DEF InstanceTypes
<1>9. MainInv'
    BY <1>6, <1>7 DEF MainInv
<1> QED
    BY <1>1, <1>8, <1>9 DEF InstancesInv, Loads

\* A set of numbers that isn't empty has a least
LEMMA Least ==
    ASSUME NEW T, T \subseteq Nat, T # {}
    PROVE  Min(T) \in T
<1> DEFINE R == {ss \in Nat \X Nat : ss[1] < ss[2]}
<1>1. IsWellFoundedOn(R, Nat)
    BY NatLessThanWellFounded DEF OpToRel
<1>2. PICK x \in T : \A y \in T : ~ (<<y, x>> \in R)
    <2> HIDE DEF R
    <2> QED BY <1>1, WFMin
<1>3. \A y \in T : ~(y < x)
    BY <1>2
<1>4. \A y \in T : x <= y
    BY <1>3
<1> QED
    BY <1>4 DEF Min

\* The elements of a sequence are of its type
LEMMA ElementsTyped ==
    ASSUME NEW S, NEW s \in Seq(S), NEW i \in DOMAIN s
    PROVE  s[i] \in S
    OBVIOUS

\* What an Xbox One device is to announce
LEMMA IdentityTyped ==
    ASSUME InstancesAssumption, InstanceTypes, NEW o \in Devices, NEW always \in BOOLEAN,
           o.as # None \/ players # << >>
    PROVE  Identity(o, always) \in Identities
<1>0. players \in Seq([sub : Subs, held : BOOLEAN]) /\ DOMAIN players = 1..Len(players) /\ Len(players) \in Nat
      /\ o.as \in Identities \union {None}
    BY DEF InstanceTypes, Devices
<1>1. \A i \in DOMAIN players : players[i].sub \in Subs
  <2> TAKE i \in DOMAIN players
  <2>1. players[i] \in [sub : Subs, held : BOOLEAN]
      BY <1>0, ElementsTyped
  <2> QED
      BY <2>1
<1>2. CASE Reporting # {}
  <2>1. Reporting \subseteq Nat /\ Reporting \subseteq DOMAIN players
      BY <1>0 DEF Reporting
  <2>2. Min(Reporting) \in DOMAIN players
      BY <1>2, <2>1, Least
  <2> QED
      BY <1>1, <1>2, <2>2 DEF Identity, Identities
<1>3. CASE Reporting = {} /\ players # << >>
  <2>1. 1 \in DOMAIN players
      BY <1>0, <1>3
  <2> QED
      BY <1>1, <1>3, <2>1 DEF Identity, Identities
<1>4. CASE Reporting = {} /\ players = << >>
  <2>1. o.as \in Identities
      BY <1>0, <1>4
  <2> QED
      BY <1>4, <2>1 DEF Identity, Identities
<1> QED
    BY <1>2, <1>3, <1>4

\* An identity that doesn't differ is announced as the one before
LEMMA SameAnnounced ==
    ASSUME NEW o \in Devices, NEW identity \in Identities, o.as # None, None \notin Identities,
           ~IdentityDiffers(o, identity)
    PROVE  Announced(identity) = Announced(o.as)
<1>1. o.as \in Identities /\ identity # None
    BY DEF Devices
<1>2. identity.legacy = o.as.legacy /\ (identity.legacy \/ identity.native = o.as.native)
    BY DEF IdentityDiffers
<1>3. o.as = [legacy |-> o.as.legacy, native |-> o.as.native]
      /\ identity = [legacy |-> identity.legacy, native |-> identity.native]
    BY <1>1 DEF Identities
<1> QED
    BY <1>1, <1>2, <1>3 DEF Announced

\* Without an Xbox One device the devices stay as they were made
LEMMA EndKeeps ==
    ASSUME InstancesAssumption, InstancesInv, EndLoad
    PROVE  InstancesInv'
<1>0. /\ InstanceTypes /\ LoadInv /\ stage = "end" /\ emulated["xone"] = None /\ slot \in Seq(Devices)
      /\ Finish(TypesChanged, slot) /\ DOMAIN slot = 1..Len(slot) /\ Len(slot) \in Nat /\ None \notin Nat
    BY DEF EndLoad, InstancesInv, InstanceTypes, Table, Loads, InstancesAssumption
<1>1. ASSUME NEW i \in DOMAIN slot
      PROVE  /\ slot[i] = [slot[i] EXCEPT !.as = slot[i].as]
             /\ slot[i].kind = "xone" => slot[i].as # None
  <2>1. slot[i] \in Devices /\ i # None
      BY <1>0
  <2>2. slot[i] = [slot[i] EXCEPT !.as = slot[i].as]
      BY <2>1 DEF Devices
  <2> QED
      BY <1>0, <2>1, <2>2 DEF LoadInv
<1>2. TypesChanged \in BOOLEAN /\ (~TypesChanged => windows = wasReceiver)
    BY DEF TypesChanged, IsPrefix
<1> QED
    BY <1>0, <1>1, <1>2, FinishKeeps

\* A load that ends with an Xbox One device: the others stay as they are
XboxOneEnds(changed, devices) ==
    /\ Len(devices) = Len(slot)
    /\ \A i \in DOMAIN slot :
           /\ devices[i] = [slot[i] EXCEPT !.as = devices[i].as]
           /\ slot[i].kind = "xone" => devices[i].as # None
           /\ slot[i].kind # "xone" => devices[i].as = slot[i].as
           /\ ~changed /\ slot[i].as # None => Announced(devices[i].as) = Announced(slot[i].as)
    /\ Finish(changed, devices)
    /\ changed => \E n \in DOMAIN slot :
                      /\ slot[n].kind = "xone" /\ slot[n].as # None
                      /\ devices[n].as \in Identities /\ IdentityDiffers(slot[n], devices[n].as)

\* Every end of a load with an Xbox One device is one of these
LEMMA XboxOneFinishes ==
    ASSUME InstancesAssumption, InstancesInv, EndXboxOneLoad
    PROVE  /\ stage = "end" /\ emulated["xone"] # None /\ HasXboxOne(slot)
           /\ \E changed \in BOOLEAN, devices \in Seq(Devices) : XboxOneEnds(changed, devices)
<1> DEFINE n == emulated["xone"]
<1>0. /\ InstanceTypes /\ LoadInv /\ stage = "end" /\ n # None /\ slot \in Seq(Devices) /\ slot[n].kind = "xone"
      /\ DOMAIN slot = 1..Len(slot) /\ Len(slot) \in Nat /\ None \notin Nat /\ None \notin Identities
    BY DEF EndXboxOneLoad, InstancesInv, InstanceTypes, Table, Loads, InstancesAssumption
<1>1. n \in DOMAIN slot /\ slot[n] \in Devices /\ (slot[n].as # None \/ players # << >>) /\ HasXboxOne(slot)
  <2>1. n \in DOMAIN slot
      BY <1>0 DEF LoadInv
  <2> QED
      BY <1>0, <2>1 DEF LoadInv, HasXboxOne, Range
<1>2. PICK always \in BOOLEAN :
          LET identity == Identity(slot[n], always)
              differs == IdentityDiffers(slot[n], identity)
          IN \/ Finish(differs, [slot EXCEPT ![n].as = identity])
             \/ differs /\ ~forced /\ Finish(FALSE, slot)
    BY DEF EndXboxOneLoad
<1> DEFINE identity == Identity(slot[n], always)
           differs == IdentityDiffers(slot[n], identity)
<1>3. identity \in Identities /\ identity # None
    BY <1>0, <1>1, IdentityTyped
<1>4. differs \in BOOLEAN
    BY DEF IdentityDiffers
<1>5. \/ Finish(differs, [slot EXCEPT ![n].as = identity])
      \/ differs /\ Finish(FALSE, slot)
    BY <1>2
<1>6. ASSUME NEW i \in DOMAIN slot
      PROVE  /\ slot[i] \in Devices /\ slot[i] = [slot[i] EXCEPT !.as = slot[i].as]
             /\ slot[i].kind = "xone" => slot[i].as # None \/ i = n
  <2>1. slot[i] \in Devices
      BY <1>0
  <2>2. slot[i] = [slot[i] EXCEPT !.as = slot[i].as]
      BY <2>1 DEF Devices
  <2> QED
      BY <1>0, <2>1, <2>2 DEF LoadInv
<1>7. ~differs /\ slot[n].as # None => Announced(identity) = Announced(slot[n].as)
    BY <1>0, <1>1, <1>3, SameAnnounced
<1>8. differs => slot[n].as # None
    BY DEF IdentityDiffers
<1> HIDE DEF identity, differs, n
<1>9. ASSUME Finish(differs, [slot EXCEPT ![n].as = identity])
      PROVE  \E changed \in BOOLEAN, devices \in Seq(Devices) : XboxOneEnds(changed, devices)
  <2> DEFINE with == [slot EXCEPT ![n].as = identity]
  <2>1. [slot[n] EXCEPT !.as = identity] \in Devices
      BY <1>1, <1>3 DEF Devices
  <2>2. with = [slot EXCEPT ![n] = [slot[n] EXCEPT !.as = identity]]
      OBVIOUS
  <2>3. with \in Seq(Devices) /\ Len(with) = Len(slot)
      BY <1>0, <1>1, <2>1, <2>2
  <2>4. with[n] = [slot[n] EXCEPT !.as = identity] /\ with[n].as = identity
      BY <1>0, <1>1 DEF Devices
  <2>5. \A i \in DOMAIN slot : i # n => with[i] = slot[i]
      OBVIOUS
  <2> HIDE DEF with
  <2>6. \A i \in DOMAIN slot :
            /\ with[i] = [slot[i] EXCEPT !.as = with[i].as]
            /\ slot[i].kind = "xone" => with[i].as # None
            /\ slot[i].kind # "xone" => with[i].as = slot[i].as
            /\ ~differs /\ slot[i].as # None => Announced(with[i].as) = Announced(slot[i].as)
    <3> TAKE i \in DOMAIN slot
    <3>1. CASE i = n
        BY <1>0, <1>3, <1>7, <2>4, <3>1 DEF n
    <3>2. CASE i # n
        BY <1>6, <2>5, <3>2
    <3> QED
        BY <3>1, <3>2
  <2>7. Finish(differs, with)
      BY <1>9 DEF with
  <2> QED
      BY <1>0, <1>1, <1>3, <1>4, <1>8, <2>3, <2>4, <2>6, <2>7 DEF XboxOneEnds, differs
<1>10. ASSUME differs /\ Finish(FALSE, slot)
       PROVE  \E changed \in BOOLEAN, devices \in Seq(Devices) : XboxOneEnds(changed, devices)
  <2>1. \A i \in DOMAIN slot :
            /\ slot[i] = [slot[i] EXCEPT !.as = slot[i].as]
            /\ slot[i].kind = "xone" => slot[i].as # None
      BY <1>6, <1>8, <1>10
  <2> QED
      BY <1>0, <1>10, <2>1 DEF XboxOneEnds
<1>11. \E changed \in BOOLEAN, devices \in Seq(Devices) : XboxOneEnds(changed, devices)
    BY <1>5, <1>9, <1>10
<1> QED
    BY <1>0, <1>1, <1>11 DEF n

\* With one, no other device changes
LEMMA XboxOneKeeps ==
    ASSUME InstancesAssumption, InstancesInv, EndXboxOneLoad
    PROVE  InstancesInv'
<1>1. stage = "end" /\ HasXboxOne(slot)
    BY XboxOneFinishes
<1>2. PICK changed \in BOOLEAN, devices \in Seq(Devices) : XboxOneEnds(changed, devices)
    BY XboxOneFinishes
<1> QED
    BY <1>1, <1>2, FinishKeeps DEF XboxOneEnds

\* Nothing is said of what follows the wrong cast
LEMMA UndefinedKeeps ==
    ASSUME InstancesInv, Undefined
    PROVE  InstancesInv'
<1>1. InstanceTypes /\ stage' = "undefined"
    BY DEF Undefined, InstancesInv, Loads
<1>2. UNCHANGED <<tableVars, modeVars, deviceVars, hostVars>>
    BY DEF Undefined
<1>3. Table(slot)' /\ Table(prev)'
    BY <1>1, <1>2 DEF InstanceTypes, tableVars, Table, Disjoint, First, Second, Used, UsedBefore
<1>4. InstanceTypes'
    BY <1>1, <1>2, <1>3 DEF InstanceTypes, tableVars, modeVars, deviceVars, hostVars
<1> QED
    BY <1>1, <1>4 DEF InstancesInv, Loads

-----------------------------------------------------------------------------
(* HostServed *)

\* One lemma per kind of step, above
LEMMA InstancesKept ==
    ASSUME InstancesAssumption, InstancesInv, [UsbNext]_usbVars
    PROVE  InstancesInv'
<1>1. CASE \/ Reattach \/ Enumerate \/ BusReset \/ SeeWindows \/ \E m \in Modes \ {"hid"} : HostDetected(m)
           \/ RestartStack \/ RequestReinit \/ MicProcess
    BY <1>1, BetweenKeeps
<1>2. CASE \E force \in Modes \union {None}, sub \in Subs, xinput, held \in BOOLEAN :
               AssignUsb(force, sub, xinput, held)
    BY <1>2, AssignKeeps
<1>3. CASE Begin \/ AssignElsewhere \/ KeepAdapter \/ AddConfig \/ AddSecurity
    BY <1>3, BeginKeeps, ElsewhereKeeps, AdapterKeeps, ConfigKeeps, SecurityKeeps
<1>4. CASE EndLoad \/ EndXboxOneLoad \/ Undefined
    BY <1>4, EndKeeps, XboxOneKeeps, UndefinedKeeps
<1>5. CASE UNCHANGED usbVars
  <2>1. Table(slot)' /\ Table(prev)'
      BY <1>5 DEF InstancesInv, usbVars, tableVars, InstanceTypes, Table, Disjoint, First, Second, Used, UsedBefore
  <2>2. InstanceTypes'
      BY <1>5, <2>1 DEF usbVars, tableVars, modeVars, hostVars, deviceVars, InstancesInv, InstanceTypes
  <2>3. LoadInv' = LoadInv
      BY <1>5 DEF usbVars, tableVars, modeVars, hostVars, deviceVars, LoadInv, Settled, Used, Origin, WasThere,
                  ConfigOpened, NoConfig, LastRead, HasXboxOne, Face
  <2>4. MainInv' = MainInv
      BY <1>5 DEF usbVars, tableVars, modeVars, hostVars, deviceVars, MainInv, Settled, Descriptors, HasXboxOne, Face
  <2> QED
      BY <1>5, <2>2, <2>3, <2>4 DEF usbVars, InstancesInv
<1> QED
    BY <1>1, <1>2, <1>3, <1>4, <1>5 DEF UsbNext, Load

\* What the invariant is for
LEMMA ServedByInv == InstancesInv => HostServed /\ UsbTypeOK
<1> SUFFICES ASSUME InstancesInv PROVE HostServed /\ UsbTypeOK
    OBVIOUS
<1>1. InstanceTypes /\ Table(slot) /\ Table(prev)
    BY DEF InstancesInv, InstanceTypes
<1>2. HostServed
  <2>1. EndpointsDisjoint
      BY <1>1 DEF Table, Disjoint, EndpointsDisjoint
  <2>2. Between /\ read # None => read = Descriptors /\ \A o \in Range(slot) : o.opened
      BY DEF InstancesInv, MainInv, Between, Range
  <2> QED
      BY <2>1, <2>2 DEF HostServed
<1>3. ASSUME NEW t, Table(t), NEW o \in Range(t)
      PROVE  o.kind \in Kinds /\ o.at \in 1..Len(t)
  <2>1. PICK i \in DOMAIN t : o = t[i]
      BY <1>3 DEF Range
  <2>2. t \in Seq(Devices) /\ (First(t, i) \/ Second(t, i))
      BY <1>3 DEF Table
  <2>3. o \in Devices /\ i \in 1..Len(t) /\ Len(t) \in Nat
      BY <2>1, <2>2
  <2> QED
      BY <2>1, <2>2, <2>3 DEF Devices, First, Second
<1>4. \A o \in Range(slot) \union Range(prev) : o.kind \in Kinds /\ o.at \in 1..(Len(slot) + Len(prev))
  <2>1. Len(slot) \in Nat /\ Len(prev) \in Nat
      BY <1>1 DEF Table
  <2> QED
      BY <1>1, <1>3, <2>1
<1>5. Range(subs) \union Range(lastSubs) \subseteq Subs
    BY <1>1 DEF InstanceTypes, Range
<1>6. UsbTypeOK
    BY <1>1, <1>4, <1>5 DEF UsbTypeOK, InstanceTypes, Loads
<1> QED
    BY <1>2, <1>6

\* What the host enumerated is what the device has, whatever is loaded in
\* between, for any profiles and number of loads
THEOREM HostAlwaysServed == UsbSpec => []HostServed
<1>1. UsbInit => InstancesInv
    BY InitHolds, UsbAssumption
<1>2. InstancesInv /\ [UsbNext]_usbVars => InstancesInv'
    BY InstancesKept, UsbAssumption
<1> QED
    BY <1>1, <1>2, ServedByInv, PTL DEF UsbSpec

\* and its tables are always well formed
THEOREM InstancesTyped == UsbSpec => []UsbTypeOK
<1>1. UsbInit => InstancesInv
    BY InitHolds, UsbAssumption
<1>2. InstancesInv /\ [UsbNext]_usbVars => InstancesInv'
    BY InstancesKept, UsbAssumption
<1> QED
    BY <1>1, <1>2, ServedByInv, PTL DEF UsbSpec

-----------------------------------------------------------------------------
(* Which profiles a table is for: its devices are as many, and in their order *)

\* A table has finitely many starts
LEMMA StartsFinite ==
    ASSUME NEW t \in Seq(Devices)
    PROVE  /\ Starts(t) \subseteq 1..Len(t) /\ IsFiniteSet(Starts(t)) /\ Cardinality(Starts(t)) \in Nat
           /\ \A i : IsFiniteSet({j \in Starts(t) : j <= i}) /\ Rank(t, i) \in Nat
<1>1. Starts(t) \subseteq 1..Len(t) /\ Len(t) \in Nat
    BY DEF Starts
<1>2. IsFiniteSet(1..Len(t))
    BY <1>1, FS_Interval
<1>3. IsFiniteSet(Starts(t))
    BY <1>1, <1>2, FS_Subset
<1>4. \A i : IsFiniteSet({j \in Starts(t) : j <= i})
  <2> TAKE i
  <2>1. {j \in Starts(t) : j <= i} \subseteq Starts(t)
      OBVIOUS
  <2> QED
      BY <1>3, <2>1, FS_Subset
<1> QED
    BY <1>1, <1>3, <1>4, FS_CardinalityType DEF Rank

\* The same starts have the same profiles
LEMMA MatchesSame ==
    ASSUME NEW t, NEW u, NEW ss, Matches(t, ss), Starts(u) = Starts(t),
           \A i \in Starts(t) : SubOf(u[i]) = SubOf(t[i])
    PROVE  Matches(u, ss)
    BY DEF Matches, Rank

\* An empty table is for no profiles
LEMMA MatchesNone == Matches(<< >>, << >>)
<1>1. Starts(<< >>) = {} /\ DOMAIN << >> = {} /\ Len(<< >>) = 0
    BY DEF Starts
<1> QED
    BY <1>1, FS_EmptySet DEF Matches

\* One more device is one more profile
LEMMA MatchesAdd ==
    ASSUME NEW t \in Seq(Devices), NEW u \in Seq(Devices), NEW ss \in Seq(Subs), NEW sub \in Subs,
           Matches(t, ss), Starts(u) = Starts(t) \union {Len(t) + 1},
           \A i \in Starts(t) : u[i] = t[i], SubOf(u[Len(t) + 1]) = sub
    PROVE  Matches(u, Append(ss, sub))
<1> DEFINE n == Len(t) + 1
           rr == Append(ss, sub)
<1>0. n \in Nat /\ Starts(t) \subseteq 1..Len(t) /\ n \notin Starts(t) /\ Len(t) \in Nat
    BY StartsFinite
<1>1. Cardinality(Starts(u)) = Cardinality(Starts(t)) + 1
    BY <1>0, StartsFinite, FS_AddElement
<1>2. Len(ss) = Cardinality(Starts(t)) /\ Len(ss) \in Nat
    BY StartsFinite DEF Matches
<1>3. /\ Len(rr) = Len(ss) + 1 /\ DOMAIN rr = DOMAIN ss \union {Len(ss) + 1}
      /\ \A k \in DOMAIN ss : rr[k] = ss[k]
      /\ rr[Len(ss) + 1] = sub
    BY <1>2
<1> HIDE DEF rr
<1>4. ASSUME NEW k \in DOMAIN rr
      PROVE  \E i \in Starts(u) : Rank(u, i) = k /\ rr[k] = SubOf(u[i])
  <2>1. CASE k \in DOMAIN ss
    <3>1. PICK i \in Starts(t) : Rank(t, i) = k /\ ss[k] = SubOf(t[i])
        BY <2>1 DEF Matches
    <3>2. {j \in Starts(u) : j <= i} = {j \in Starts(t) : j <= i}
        BY <1>0
    <3>3. Rank(u, i) = k
        BY <3>1, <3>2 DEF Rank
    <3> QED
        BY <1>3, <2>1, <3>1, <3>3
  <2>2. CASE k = Len(ss) + 1
    <3>1. {j \in Starts(u) : j <= n} = Starts(u)
        BY <1>0
    <3>2. Rank(u, n) = k
        BY <1>1, <1>2, <2>2, <3>1 DEF Rank
    <3> QED
        BY <1>3, <2>2, <3>2
  <2> QED
      BY <1>3, <2>1, <2>2
<1>5. Len(rr) = Cardinality(Starts(u))
    BY <1>1, <1>2, <1>3
<1> QED
    BY <1>4, <1>5 DEF Matches, rr

\* Two starts have different ranks
LEMMA RanksDiffer ==
    ASSUME NEW t \in Seq(Devices), NEW i \in Starts(t), NEW k \in Starts(t), i < k
    PROVE  Rank(t, i) < Rank(t, k)
<1> DEFINE A == {j \in Starts(t) : j <= i}
           B == {j \in Starts(t) : j <= k}
<1>0. Starts(t) \subseteq Nat /\ i \in Nat /\ k \in Nat
    BY StartsFinite
<1>1. k \notin A /\ A \union {k} \subseteq B
    BY <1>0
<1>2. IsFiniteSet(A) /\ IsFiniteSet(B) /\ Rank(t, i) = Cardinality(A) /\ Rank(t, k) = Cardinality(B)
      /\ Cardinality(A) \in Nat /\ Cardinality(B) \in Nat
    BY StartsFinite DEF Rank
<1> HIDE DEF A, B
<1>3. Cardinality(A \union {k}) = Cardinality(A) + 1
    BY <1>1, <1>2, FS_AddElement
<1>4. Cardinality(A \union {k}) <= Cardinality(B)
    BY <1>1, <1>2, FS_Subset
<1> QED
    BY <1>2, <1>3, <1>4

\* so tables with the same starts are for the same profiles
LEMMA MatchesOne ==
    ASSUME NEW t \in Seq(Devices), NEW u, NEW ss \in Seq(Subs), NEW rr \in Seq(Subs),
           Matches(t, ss), Matches(u, rr), Starts(u) = Starts(t),
           \A i \in Starts(t) : SubOf(u[i]) = SubOf(t[i])
    PROVE  ss = rr
<1>1. Matches(t, rr)
    BY MatchesSame
<1>2. Len(ss) = Len(rr)
    BY <1>1 DEF Matches
<1>3. ASSUME NEW k \in 1..Len(ss)
      PROVE  ss[k] = rr[k]
  <2>1. PICK i \in Starts(t) : Rank(t, i) = k /\ ss[k] = SubOf(t[i])
      BY DEF Matches
  <2>2. PICK j \in Starts(t) : Rank(t, j) = k /\ rr[k] = SubOf(t[j])
      BY <1>1, <1>2 DEF Matches
  <2>3. i \in Nat /\ j \in Nat /\ k \in Nat
      BY StartsFinite
  <2>4. i = j
    <3>1. ~(i < j) /\ ~(j < i)
        BY <2>1, <2>2, <2>3, RanksDiffer
    <3> QED
        BY <2>3, <3>1
  <2> QED
      BY <2>1, <2>2, <2>4
<1> QED
    BY <1>2, <1>3

\* Steps after which the table is for the same profiles
LEMMA SubsSame ==
    ASSUME SubsInv, NEW t \in Seq(Devices), t = slot, DOMAIN slot' = DOMAIN t,
           \A i \in DOMAIN t : /\ slot'[i].kind = t[i].kind /\ slot'[i].at = t[i].at
                               /\ slot'[i].sub = t[i].sub
    PROVE  /\ Matches(slot, subs) => Matches(slot', subs)
           /\ HasXboxOne(slot') = HasXboxOne(slot)
<1>1. Starts(slot') = Starts(t)
    BY DEF Starts
<1>2. \A i \in Starts(t) : SubOf(slot'[i]) = SubOf(t[i])
    BY DEF SubOf, Starts
<1>3. HasXboxOne(slot') = HasXboxOne(t)
    BY DEF HasXboxOne, Range
<1> QED
    BY <1>1, <1>2, <1>3, MatchesSame

\* Placing a device: an Xbox One device, or one profile more, or none
LEMMA SubsPlaced ==
    ASSUME InstanceTypes, LoadInv, Matches(slot, subs) \/ HasXboxOne(slot),
           NEW o \in Devices, PlainDevice(o), o.at = Len(slot) + 1, o.before = Used(slot),
           Origin(o, Len(slot) + 1), Place(o), UNCHANGED <<prev, battery, hadBattery>>
    PROVE  /\ o.kind = "xone" \/ HasXboxOne(slot) => HasXboxOne(slot')
           /\ o.kind \in {"config", "security"} => Matches(slot', subs) \/ HasXboxOne(slot')
           /\ o.kind \in {"pad", "mic"} /\ SubOf(o) \in Subs =>
                  Matches(slot', Append(subs, SubOf(o))) \/ HasXboxOne(slot')
<1>1. /\ Table(slot') /\ \A i \in DOMAIN slot : i \in DOMAIN slot' /\ slot'[i] = slot[i]
      /\ \A i \in DOMAIN slot' \ DOMAIN slot : slot'[i] = o
      /\ Len(slot) + 1 \in DOMAIN slot' \ DOMAIN slot
    BY PlaceKeeps DEF LoadInv
<1>2. slot \in Seq(Devices) /\ subs \in Seq(Subs)
    BY DEF InstanceTypes, Table
<1>3. slot' \in Seq(Devices)
    BY <1>1 DEF Table
<1>4. o.kind = "xone" \/ HasXboxOne(slot) => HasXboxOne(slot')
    BY <1>1 DEF HasXboxOne, Range
<1>5. ASSUME o.kind \in {"config", "security"}, Matches(slot, subs)
      PROVE  Matches(slot', subs)
  <2>1. Starts(slot') = Starts(slot)
      BY <1>1, <1>5 DEF Starts
  <2>2. \A i \in Starts(slot) : SubOf(slot'[i]) = SubOf(slot[i])
      BY <1>1 DEF Starts
  <2> QED
      BY <1>5, <2>1, <2>2, MatchesSame
<1>6. ASSUME o.kind \in {"pad", "mic"}, SubOf(o) \in Subs, Matches(slot, subs)
      PROVE  Matches(slot', Append(subs, SubOf(o)))
  <2>1. Starts(slot') = Starts(slot) \union {Len(slot) + 1}
      BY <1>1, <1>6 DEF Starts
  <2>2. \A i \in Starts(slot) : slot'[i] = slot[i]
      BY <1>1 DEF Starts
  <2>3. SubOf(slot'[Len(slot) + 1]) = SubOf(o)
      BY <1>1
  <2> QED
      BY <1>2, <1>3, <1>6, <2>1, <2>2, <2>3, MatchesAdd
<1> QED
    BY <1>4, <1>5, <1>6

\* Between loads profiles stay what they are
LEMMA SubsBetween ==
    ASSUME InstancesInv, SubsInv,
           \/ Reattach \/ Enumerate \/ BusReset \/ SeeWindows \/ \E m \in Modes \ {"hid"} : HostDetected(m)
           \/ RestartStack \/ RequestReinit \/ MicProcess
    PROVE  SubsInv'
<1>0. stage = "main" /\ stage' = "main" /\ stage' \notin Loads /\ subs' = subs
    BY DEF Between, Reattach, Enumerate, BusReset, SeeWindows, HostDetected, RestartStack, RequestReinit,
           MicProcess, tableVars, deviceVars, Loads
<1>1. slot' = slot \/ slot' = WithOpened(TRUE) \/ slot' = WithOpened(FALSE)
    BY DEF Reattach, Enumerate, BusReset, SeeWindows, HostDetected, RestartStack, RequestReinit,
           MicProcess, tableVars, hostVars
<1>2. slot \in Seq(Devices)
    BY DEF InstancesInv, InstanceTypes, Table
<1>3. /\ DOMAIN slot' = DOMAIN slot
      /\ \A i \in DOMAIN slot : /\ slot'[i].kind = slot[i].kind /\ slot'[i].at = slot[i].at
                                /\ slot'[i].sub = slot[i].sub
  <2>1. CASE slot' = slot
      BY <2>1
  <2>2. ASSUME NEW open \in BOOLEAN, slot' = WithOpened(open)
        PROVE  /\ DOMAIN slot' = DOMAIN slot
               /\ \A i \in DOMAIN slot : /\ slot'[i].kind = slot[i].kind /\ slot'[i].at = slot[i].at
                                         /\ slot'[i].sub = slot[i].sub
    <3>1. DOMAIN slot' = DOMAIN slot
        BY <2>2 DEF WithOpened
    <3>2. ASSUME NEW i \in DOMAIN slot
          PROVE  /\ slot'[i].kind = slot[i].kind /\ slot'[i].at = slot[i].at
                 /\ slot'[i].sub = slot[i].sub
      <4>1. slot[i] \in Devices /\ slot'[i] = [slot[i] EXCEPT !.opened = open]
          BY <1>2, <2>2 DEF WithOpened
      <4> QED
          BY <4>1 DEF Devices
    <3> QED
        BY <3>1, <3>2
  <2> QED
      BY <1>1, <2>1, <2>2
<1>4. /\ Matches(slot, subs) => Matches(slot', subs)
      /\ HasXboxOne(slot') = HasXboxOne(slot)
    BY <1>2, <1>3, SubsSame
<1>5. ~HasXboxOne(slot') => Matches(slot', subs')
    BY <1>0, <1>4 DEF SubsInv
<1> QED
    BY <1>0, <1>5 DEF SubsInv, HasXboxOne, Range, Matches, Starts, Rank

\* What the invariant is, over the state that is next
LEMMA SubsPrimed ==
    ASSUME stage' = "main" /\ ~HasXboxOne(slot') => Matches(slot', subs'),
           stage' \in Loads /\ ~HasXboxOne(slot') /\ emulated'["xone"] = None => Matches(slot', subs'),
           stage' \in Loads /\ ~HasXboxOne(prev') => Matches(prev', lastSubs')
    PROVE  SubsInv'
    BY DEF SubsInv, HasXboxOne, Range, Matches, Starts, Rank

\* and become the last load's when one begins
LEMMA SubsBegin ==
    ASSUME InstancesInv, SubsInv, Begin
    PROVE  SubsInv'
<1>1. stage = "main" /\ stage' = "profiles" /\ prev' = slot /\ slot' = << >> /\ subs' = << >> /\ lastSubs' = subs
    BY DEF Begin, Between
<1>2. ~HasXboxOne(slot) => Matches(slot, subs)
    BY <1>1 DEF SubsInv
<1> QED
    BY <1>1, <1>2, MatchesNone, SubsPrimed DEF Loads

\* Steps of a load that leave the table and its profiles alone, and those that
\* have an Xbox One device
LEMMA SubsLoad ==
    ASSUME SubsInv, stage \in Loads, stage' \in Loads, UNCHANGED <<prev, lastSubs>>,
           \/ UNCHANGED <<slot, subs, emulated>>
           \/ emulated'["xone"] # None
           \/ Matches(slot', subs') \/ HasXboxOne(slot')
    PROVE  SubsInv'
<1>1. stage' # "main" /\ stage # "main"
    BY DEF Loads
<1> QED
    BY <1>1, SubsPrimed DEF SubsInv

\* A profile assigned to USB is the next one's device, or the Xbox One device's
LEMMA SubsAssign ==
    ASSUME InstancesAssumption, InstancesInv, SubsInv,
           NEW force \in Modes \union {None}, NEW sub \in Subs, NEW xinput \in BOOLEAN, NEW held \in BOOLEAN,
           AssignUsb(force, sub, xinput, held)
    PROVE  SubsInv'
<1> DEFINE m == ModeFor(requested', sub, xinput)
           o == Instance(KindOf(m, sub), m, ReloadSub(m, sub))
<1>0. /\ InstanceTypes /\ LoadInv /\ stage = "profiles" /\ stage \in Loads /\ stage' \in Loads
      /\ UNCHANGED <<prev, lastSubs, battery, hadBattery>> /\ Settled(prev) /\ alloc = Used(slot)
    BY DEF AssignUsb, InstancesInv, Loads, deviceVars, LoadInv
<1>1. /\ Forces(force)
      /\ requested' = IF sub = "keyboard" THEN "hid" ELSE IF force = None THEN requested ELSE force
    BY DEF AssignUsb
<1>2. m \in AllModes
    BY <1>0, <1>1 DEF Forces, InstanceTypes, InstancesAssumption, ModeFor, AllModes
<1>3. \/ UNCHANGED <<slot, emulated, subs>>
      \/ /\ subs' = Append(subs, sub)
         /\ \/ emulated["xone"] # None /\ Attach(sub, held)
            \/ Place(o) /\ Emulate(m, sub, held)
    BY DEF AssignUsb, AddDevice
<1> HIDE DEF m
<1>4. CASE UNCHANGED <<slot, emulated, subs>>
    BY <1>0, <1>4, SubsLoad
<1>5. CASE emulated["xone"] # None /\ Attach(sub, held)
    BY <1>0, <1>5, SubsLoad DEF Attach
<1>6. CASE subs' = Append(subs, sub) /\ Place(o) /\ Emulate(m, sub, held)
  <2>1. /\ KindOf(m, sub) \in Kinds \ {"config", "security"} /\ ReloadSub(m, sub) \in AllSubs
        /\ PlainDevice(Device(KindOf(m, sub), m, ReloadSub(m, sub)))
      BY <1>2, KindPlain
  <2>2. ReloadSub(m, sub) # None
      BY <2>1 DEF InstancesAssumption, AllSubs
  <2>3. /\ o \in Devices /\ PlainDevice(o) /\ o.at = Len(slot) + 1 /\ o.before = Used(slot)
        /\ Origin(o, Len(slot) + 1) /\ o.kind # "config"
        /\ o.mode = m /\ o.sub = ReloadSub(m, sub)
        /\ m # "xone" => o.kind = KindOf(m, sub)
      BY <1>0, <1>2, <2>1, <2>2, TakenOrMade
  <2> HIDE DEF o
  <2>4. emulated \in [{"xone", "ps3"} -> Nat \union {None}] /\ Len(slot) + 1 \in Nat /\ None \notin Nat
      BY <1>0 DEF InstanceTypes, Table, InstancesAssumption
  <2>5. m = "xone" /\ sub # "mic" => emulated'["xone"] # None
      BY <1>6, <2>4 DEF Emulate
  <2>6. emulated["xone"] # None => emulated'["xone"] # None
      BY <1>6, <2>4 DEF Emulate
  <2>7. CASE emulated'["xone"] # None
      BY <1>0, <2>7, SubsLoad
  <2>8. CASE emulated'["xone"] = None
    <3>1. Matches(slot, subs) \/ HasXboxOne(slot)
        BY <1>0, <2>6, <2>8 DEF SubsInv
    <3>2. o.kind = "xone" \/ (o.kind \in {"pad", "mic"} /\ SubOf(o) = sub)
      <4>1. CASE m = "xone"
        <5>1. sub = "mic" /\ o.sub = "gamepad"
            BY <2>3, <2>5, <2>8, <4>1 DEF ReloadSub
        <5>2. o.kind \in {"xone", "mic"}
          <6>1. o.kind \in Kinds /\ None # "gamepad"
              BY <2>3 DEF Devices, InstancesAssumption
          <6> QED
              BY <2>3, <4>1, <5>1, <6>1 DEF PlainDevice, Kinds
        <5> QED
            BY <5>1, <5>2 DEF SubOf
      <4>2. CASE m # "xone"
          BY <2>3, <4>2 DEF KindOf, ReloadSub, SubOf
      <4> QED
          BY <4>1, <4>2
    <3>3. Matches(slot', subs') \/ HasXboxOne(slot')
        BY <1>0, <1>6, <2>3, <3>1, <3>2, SubsPlaced
    <3> QED
        BY <1>0, <3>3, SubsLoad
  <2> QED
      BY <2>7, <2>8
<1> QED
    BY <1>3, <1>4, <1>5, <1>6

\* Nothing else of a load has a profile
LEMMA SubsRest ==
    ASSUME InstancesAssumption, InstancesInv, SubsInv, AssignElsewhere \/ KeepAdapter \/ AddConfig \/ AddSecurity
    PROVE  SubsInv'
<1>0. /\ InstanceTypes /\ LoadInv /\ stage \in Loads /\ stage' \in Loads
      /\ UNCHANGED <<prev, lastSubs, subs, battery, hadBattery>> /\ Settled(prev) /\ alloc = Used(slot)
  <2>1. stage \in Loads /\ stage' \in Loads /\ UNCHANGED <<prev, lastSubs, subs, battery, hadBattery>>
      BY DEF AssignElsewhere, KeepAdapter, AddConfig, AddSecurity, Loads, deviceVars, tableVars
  <2> QED
      BY <2>1 DEF InstancesInv, LoadInv
<1>1. CASE AssignElsewhere
    BY <1>0, <1>1, SubsLoad DEF AssignElsewhere, tableVars
<1>2. CASE KeepAdapter
  <2>1. emulated \in [{"xone", "ps3"} -> Nat \union {None}] /\ Len(slot) + 1 \in Nat /\ None \notin Nat
      BY <1>0 DEF InstanceTypes, Table, InstancesAssumption
  <2>2. UNCHANGED <<slot, subs, emulated>> \/ emulated'["xone"] # None
      BY <1>2, <2>1, <1>0 DEF KeepAdapter
  <2> QED
      BY <1>0, <2>2, SubsLoad
<1>3. ASSUME NEW o, o \in Devices, PlainDevice(o), o.at = Len(slot) + 1, o.before = Used(slot),
             Origin(o, Len(slot) + 1), o.kind \in {"config", "security"}, Place(o), emulated' = emulated
      PROVE  SubsInv'
  <2>1. CASE emulated["xone"] # None
      BY <1>0, <1>3, <2>1, SubsLoad
  <2>2. CASE emulated["xone"] = None
    <3>1. Matches(slot, subs) \/ HasXboxOne(slot)
        BY <1>0, <2>2 DEF SubsInv
    <3>2. Matches(slot', subs) \/ HasXboxOne(slot')
        BY <1>0, <1>3, <3>1, SubsPlaced
    <3> QED
        BY <1>0, <3>2, SubsLoad
  <2> QED
      BY <2>1, <2>2
<1>4. CASE AddConfig
  <2>1. emulated' = emulated /\ (UNCHANGED slot \/ Place(ConfigDevice))
      BY <1>4 DEF AddConfig
  <2>2. CASE UNCHANGED slot
      BY <1>0, <2>1, <2>2, SubsLoad
  <2>3. CASE Place(ConfigDevice)
      BY <1>0, <1>3, <2>1, <2>3, ConfigDevicePlain
  <2> QED
      BY <2>1, <2>2, <2>3
<1>5. CASE AddSecurity
  <2>1. emulated' = emulated /\ (UNCHANGED slot \/ Place(Instance("security", requested, None)))
      BY <1>5 DEF AddSecurity
  <2>2. CASE UNCHANGED slot
      BY <1>0, <2>1, <2>2, SubsLoad
  <2>3. CASE Place(Instance("security", requested, None))
    <3> DEFINE o == Instance("security", requested, None)
    <3>1. PlainDevice(Device("security", requested, None)) /\ "security" \in Kinds \ {"config"}
        BY DEF PlainDevice, Device, Kinds
    <3>2. requested \in AllModes
        BY <1>0 DEF InstanceTypes, InstancesAssumption, AllModes
    <3>3. /\ o \in Devices /\ PlainDevice(o) /\ o.at = Len(slot) + 1 /\ o.before = Used(slot)
          /\ Origin(o, Len(slot) + 1) /\ o.kind = "security"
        BY <1>0, <3>1, <3>2, TakenOrMade
    <3>4. Place(o)
        BY <2>3
    <3> HIDE DEF o
    <3> QED
        BY <1>3, <2>1, <3>3, <3>4
  <2> QED
      BY <2>1, <2>2, <2>3
<1> QED
    BY <1>1, <1>2, <1>4, <1>5

\* The end of a load leaves the table's devices as they are
LEMMA SubsFinish ==
    ASSUME InstancesAssumption, InstancesInv, SubsInv, EndLoad \/ EndXboxOneLoad \/ Undefined
    PROVE  SubsInv'
<1>0. slot \in Seq(Devices) /\ DOMAIN slot = 1..Len(slot)
    BY DEF InstancesInv, InstanceTypes, Table
<1>1. CASE EndLoad
  <2>1. stage = "end" /\ emulated["xone"] = None /\ Finish(TypesChanged, slot) /\ TypesChanged \in BOOLEAN
      BY <1>1 DEF EndLoad, TypesChanged, IsPrefix
  <2>2. \A i \in DOMAIN slot : slot[i] = [slot[i] EXCEPT !.as = slot[i].as]
    <3> TAKE i \in DOMAIN slot
    <3>1. slot[i] \in Devices
        BY <1>0
    <3> QED
        BY <3>1 DEF Devices
  <2>3. /\ stage' = "main" /\ subs' = subs /\ DOMAIN slot' = DOMAIN slot
        /\ \A i \in DOMAIN slot : /\ slot'[i].kind = slot[i].kind /\ slot'[i].at = slot[i].at
                                  /\ slot'[i].sub = slot[i].sub
      BY <1>0, <2>1, <2>2, Finished
  <2>4. ~HasXboxOne(slot) => Matches(slot, subs)
      BY <2>1 DEF SubsInv, Loads
  <2>5. ~HasXboxOne(slot') => Matches(slot', subs')
      BY <1>0, <2>3, <2>4, SubsSame
  <2> QED
      BY <2>3, <2>5, SubsPrimed DEF Loads
<1>2. CASE EndXboxOneLoad
  <2>1. HasXboxOne(slot)
      BY <1>2, XboxOneFinishes
  <2>2. PICK changed \in BOOLEAN, devices \in Seq(Devices) : XboxOneEnds(changed, devices)
      BY <1>2, XboxOneFinishes
  <2>3. /\ stage' = "main" /\ DOMAIN slot' = DOMAIN slot
        /\ \A i \in DOMAIN slot : slot'[i].kind = slot[i].kind
      BY <1>0, <2>2, Finished DEF XboxOneEnds
  <2>4. HasXboxOne(slot')
      BY <2>1, <2>3 DEF HasXboxOne, Range
  <2> QED
      BY <2>3, <2>4, SubsPrimed DEF Loads
<1>3. CASE Undefined
  <2>1. stage' = "undefined"
      BY <1>3 DEF Undefined
  <2> QED
      BY <2>1, SubsPrimed DEF Loads
<1> QED
    BY <1>1, <1>2, <1>3

\* There are no profiles to begin with
LEMMA SubsStart == UsbInit => SubsInv
<1> SUFFICES ASSUME UsbInit PROVE SubsInv
    OBVIOUS
<1>1. stage = "main" /\ slot = << >> /\ subs = << >>
    BY DEF UsbInit
<1> QED
    BY <1>1, MatchesNone DEF SubsInv, Loads

\* One lemma per kind of step, above
LEMMA SubsKept ==
    ASSUME InstancesAssumption, InstancesInv, SubsInv, [UsbNext]_usbVars
    PROVE  SubsInv'
<1>1. CASE \/ Reattach \/ Enumerate \/ BusReset \/ SeeWindows \/ \E m \in Modes \ {"hid"} : HostDetected(m)
           \/ RestartStack \/ RequestReinit \/ MicProcess
    BY <1>1, SubsBetween
<1>2. CASE \E force \in Modes \union {None}, sub \in Subs, xinput, held \in BOOLEAN :
               AssignUsb(force, sub, xinput, held)
    BY <1>2, SubsAssign
<1>3. CASE Begin \/ AssignElsewhere \/ KeepAdapter \/ AddConfig \/ AddSecurity
    BY <1>3, SubsBegin, SubsRest
<1>4. CASE EndLoad \/ EndXboxOneLoad \/ Undefined
    BY <1>4, SubsFinish
<1>5. CASE UNCHANGED usbVars
    BY <1>5 DEF usbVars, tableVars, SubsInv, HasXboxOne, Range, Matches, Starts, Rank
<1> QED
    BY <1>1, <1>2, <1>3, <1>4, <1>5 DEF UsbNext, Load

-----------------------------------------------------------------------------
(* RestartsOnlyForCause *)

\* A load whose devices all look as the last one's made none of them anew
LEMMA SameFaces ==
    ASSUME InstancesInv, stage = "end", battery = hadBattery, DOMAIN slot = DOMAIN prev,
           \A i \in DOMAIN slot :
               /\ slot[i].kind = prev[i].kind /\ slot[i].mode = prev[i].mode /\ slot[i].sub = prev[i].sub
               /\ slot[i].at = prev[i].at /\ slot[i].before = prev[i].before
    PROVE  SameObjects
<1>0. /\ LoadInv /\ Table(slot) /\ slot \in Seq(Devices) /\ prev \in Seq(Devices)
      /\ DOMAIN slot = 1..Len(slot) /\ Len(slot) \in Nat /\ DOMAIN prev = 1..Len(prev) /\ Len(prev) \in Nat
    BY DEF InstancesInv, InstanceTypes, Table, Loads
<1>1. Len(slot) = Len(prev)
  <2>1. ~(Len(slot) < Len(prev))
    <3>1. Len(slot) < Len(prev) => Len(prev) \in 1..Len(prev) /\ Len(prev) \notin 1..Len(slot)
        BY <1>0
    <3> QED
        BY <1>0, <3>1
  <2>2. ~(Len(prev) < Len(slot))
    <3>1. Len(prev) < Len(slot) => Len(slot) \in 1..Len(slot) /\ Len(slot) \notin 1..Len(prev)
        BY <1>0
    <3> QED
        BY <1>0, <3>1
  <2>3. Len(slot) \in Nat /\ Len(prev) \in Nat
      BY <1>0
  <2> QED
      BY <2>1, <2>2, <2>3
<1>2. ASSUME NEW i \in DOMAIN slot, slot[i].at = i
      PROVE  ~slot[i].new
  <2>1. CASE slot[i].kind = "config"
      BY <1>0, <2>1 DEF LoadInv, Origin
  <2>2. CASE slot[i].kind # "config"
    <3>1. WasThere(slot[i], i)
        BY <1>2, <2>2 DEF WasThere
    <3> QED
        BY <1>0, <1>2, <3>1 DEF LoadInv, Origin
  <2> QED
      BY <2>1, <2>2
<1>3. ASSUME NEW i \in DOMAIN slot
      PROVE  ~slot[i].new
  <2>1. CASE First(slot, i)
      BY <1>2, <2>1 DEF First
  <2>2. CASE Second(slot, i)
    <3>1. i - 1 \in DOMAIN slot /\ slot[i - 1] = slot[i] /\ slot[i - 1].at = i - 1
        BY <1>0, <2>2 DEF Second
    <3> QED
        BY <1>2, <3>1
  <2> QED
      BY <1>0, <2>1, <2>2 DEF Table
<1> QED
    BY <1>1, <1>3 DEF SameObjects

\* What the host read is what it would read now
LEMMA SameLayout ==
    ASSUME InstancesInv, stage = "end", slot' \in Seq(Devices), DOMAIN slot' = DOMAIN slot,
           read # None, Descriptors' = read
    PROVE  /\ DOMAIN slot = DOMAIN prev
           /\ \A i \in DOMAIN slot :
                  /\ slot'[i].kind = prev[i].kind /\ slot'[i].mode = prev[i].mode
                  /\ slot'[i].sub = prev[i].sub /\ slot'[i].at = prev[i].at
                  /\ slot'[i].before = prev[i].before /\ Announced(slot'[i].as) = Announced(prev[i].as)
<1>1. read = LastRead
    BY DEF InstancesInv, LoadInv, Loads
<1> DEFINE now == [i \in DOMAIN slot' |-> Face(slot'[i], battery')]
           then == [i \in DOMAIN prev |-> Face(prev[i], hadBattery)]
<1>2. Descriptors'.faces = now
    BY DEF Descriptors, Face
<1>3. now = then
    BY <1>1, <1>2 DEF LastRead
<1>4. DOMAIN now = DOMAIN slot' /\ DOMAIN then = DOMAIN prev
    OBVIOUS
<1>5. DOMAIN slot = DOMAIN prev
    BY <1>3, <1>4
<1>6. ASSUME NEW i \in DOMAIN slot
      PROVE  Face(slot'[i], battery') = Face(prev[i], hadBattery)
  <2>1. now[i] = then[i]
      BY <1>3
  <2> QED
      BY <1>5, <2>1
<1> HIDE DEF now, then
<1> QED
    BY <1>5, <1>6 DEF Face

\* With nothing else changed, the profiles are the ones there were
LEMMA SameTypes ==
    ASSUME InstancesInv, SubsInv, stage = "end", ~HasXboxOne(slot), emulated["xone"] = None,
           windows = wasReceiver, DOMAIN slot = DOMAIN prev,
           \A i \in DOMAIN slot :
               slot[i].kind = prev[i].kind /\ slot[i].at = prev[i].at /\ slot[i].sub = prev[i].sub
    PROVE  ~TypesChanged
<1>0. slot \in Seq(Devices) /\ prev \in Seq(Devices) /\ subs \in Seq(Subs) /\ lastSubs \in Seq(Subs)
    BY DEF InstancesInv, InstanceTypes, Table
<1>1. ~HasXboxOne(prev)
    BY DEF HasXboxOne, Range
<1>2. Matches(slot, subs) /\ Matches(prev, lastSubs)
    BY <1>1 DEF SubsInv, Loads
<1>3. Starts(prev) = Starts(slot) /\ \A i \in Starts(slot) : SubOf(prev[i]) = SubOf(slot[i])
    BY DEF Starts, SubOf
<1>4. subs = lastSubs
    BY <1>0, <1>2, <1>3, MatchesOne
<1> QED
    BY <1>0, <1>4 DEF TypesChanged, IsPrefix

\* An identity that is announced as the one before doesn't differ
LEMMA AnnouncedSame ==
    ASSUME NEW o \in Devices, NEW identity \in Identities, o.as # None, None \notin Identities,
           Announced(identity) = Announced(o.as)
    PROVE  ~IdentityDiffers(o, identity)
<1>1. o.as \in Identities /\ identity # None
    BY DEF Devices
<1>2. \A as \in Identities : /\ Announced(as).legacy = as.legacy
                             /\ ~as.legacy => Announced(as).native = as.native
    BY DEF Announced, Identities
<1> QED
    BY <1>1, <1>2 DEF IdentityDiffers, Identities

\* A load that ends with a restart has a cause for it: were there none, its devices would look as the
\* last one's, so be the same objects, for the same profiles and with the same identity
LEMMA RestartsForCause ==
    ASSUME InstancesAssumption, InstancesInv, SubsInv, UsbNext, stage = "end", read # None, read' = None
    PROVE  \/ Descriptors' # read
           \/ emulated["xone"] = None /\ HasXboxOne(slot)
           \/ mode' # mode \/ reinitStack \/ battery # hadBattery \/ receiver' # wasReceiver
<1> SUFFICES ASSUME Descriptors' = read, ~(emulated["xone"] = None /\ HasXboxOne(slot)),
                    mode' = mode, ~reinitStack, battery = hadBattery, receiver' = wasReceiver
             PROVE  FALSE
    OBVIOUS
<1>0. /\ InstanceTypes /\ LoadInv /\ slot \in Seq(Devices) /\ prev \in Seq(Devices)
      /\ DOMAIN slot = 1..Len(slot) /\ Len(slot) \in Nat
    BY DEF InstancesInv, InstanceTypes, Table, Loads
<1>1. EndLoad \/ EndXboxOneLoad
    BY DEF UsbNext, Load, Between, Reattach, Enumerate, BusReset, SeeWindows, HostDetected, RestartStack,
           RequestReinit, MicProcess, Begin, AssignElsewhere, AssignUsb, KeepAdapter, AddConfig, AddSecurity,
           Undefined, hostVars
<1>2. ASSUME NEW changed \in BOOLEAN, NEW devices \in Seq(Devices), Len(devices) = Len(slot),
             \A i \in DOMAIN slot : devices[i] = [slot[i] EXCEPT !.as = devices[i].as],
             Finish(changed, devices)
      PROVE  /\ changed /\ SameObjects /\ windows = wasReceiver /\ DOMAIN slot = DOMAIN prev
             /\ \A i \in DOMAIN slot :
                    /\ slot[i].kind = prev[i].kind /\ slot[i].at = prev[i].at /\ slot[i].sub = prev[i].sub
                    /\ Announced(devices[i].as) = Announced(prev[i].as)
  <2>1. /\ mode' = requested /\ read' = (IF Restart(changed) THEN None ELSE read) /\ receiver' = windows
        /\ slot' \in Seq(Devices) /\ DOMAIN slot' = DOMAIN slot
        /\ \A i \in DOMAIN slot :
               /\ slot'[i].kind = slot[i].kind /\ slot'[i].mode = slot[i].mode /\ slot'[i].sub = slot[i].sub
               /\ slot'[i].at = slot[i].at /\ slot'[i].before = slot[i].before
               /\ slot'[i].as = devices[i].as
      BY <1>0, <1>2, Finished
  <2>2. /\ DOMAIN slot = DOMAIN prev
        /\ \A i \in DOMAIN slot :
               /\ slot'[i].kind = prev[i].kind /\ slot'[i].mode = prev[i].mode
               /\ slot'[i].sub = prev[i].sub /\ slot'[i].at = prev[i].at
               /\ slot'[i].before = prev[i].before /\ Announced(slot'[i].as) = Announced(prev[i].as)
      BY <2>1, SameLayout
  <2>3. SameObjects
      BY <2>1, <2>2, SameFaces
  <2>4. Restart(changed)
      BY <2>1
  <2>5. changed
      BY <2>1, <2>3, <2>4 DEF Restart
  <2> QED
      BY <2>1, <2>2, <2>3, <2>5
<1>3. CASE EndLoad
  <2>1. emulated["xone"] = None /\ ~HasXboxOne(slot) /\ Finish(TypesChanged, slot) /\ TypesChanged \in BOOLEAN
      BY <1>3 DEF EndLoad, TypesChanged, IsPrefix
  <2>2. \A i \in DOMAIN slot : slot[i] = [slot[i] EXCEPT !.as = slot[i].as]
    <3> TAKE i \in DOMAIN slot
    <3>1. slot[i] \in Devices
        BY <1>0
    <3> QED
        BY <3>1 DEF Devices
  <2>3. /\ TypesChanged /\ windows = wasReceiver /\ DOMAIN slot = DOMAIN prev
        /\ \A i \in DOMAIN slot :
               slot[i].kind = prev[i].kind /\ slot[i].at = prev[i].at /\ slot[i].sub = prev[i].sub
      BY <1>0, <1>2, <2>1, <2>2
  <2> QED
      BY <2>1, <2>3, SameTypes
<1>4. CASE EndXboxOneLoad
  <2>1. PICK changed \in BOOLEAN, devices \in Seq(Devices) : XboxOneEnds(changed, devices)
      BY <1>4, XboxOneFinishes
  <2>2. /\ changed /\ SameObjects
        /\ \A i \in DOMAIN slot : Announced(devices[i].as) = Announced(prev[i].as)
      BY <1>2, <2>1 DEF XboxOneEnds
  <2>3. PICK n \in DOMAIN slot : /\ slot[n].kind = "xone" /\ slot[n].as # None
                                 /\ devices[n].as \in Identities /\ IdentityDiffers(slot[n], devices[n].as)
      BY <2>1, <2>2 DEF XboxOneEnds
  <2>4. slot[n] = prev[n]
      BY <1>0, <2>2, <2>3 DEF LoadInv, Origin, SameObjects
  <2>5. Announced(devices[n].as) = Announced(slot[n].as) /\ slot[n] \in Devices
      BY <1>0, <2>2, <2>4
  <2> QED
      BY <2>3, <2>5, AnnouncedSame DEF InstancesAssumption
<1> QED
    BY <1>1, <1>3, <1>4

\* A load drops the host's connection only for something the host sees or was
\* to see, for any profiles and number of loads
THEOREM RestartsAlwaysForCause == UsbSpec => RestartsOnlyForCause
<1>1. UsbInit => InstancesInv /\ SubsInv
    BY InitHolds, SubsStart, UsbAssumption
<1>2. InstancesInv /\ SubsInv /\ [UsbNext]_usbVars => (InstancesInv /\ SubsInv)'
    BY InstancesKept, SubsKept, UsbAssumption
<1>3. InstancesInv /\ SubsInv /\ [UsbNext]_usbVars =>
          [stage = "end" /\ read # None /\ read' = None =>
               \/ Descriptors' # read
               \/ emulated["xone"] = None /\ HasXboxOne(slot)
               \/ mode' # mode \/ reinitStack \/ battery # hadBattery \/ receiver' # wasReceiver]_usbVars
    BY RestartsForCause, UsbAssumption
<1> QED
    BY <1>1, <1>2, <1>3, PTL DEF UsbSpec, RestartsOnlyForCause

-----------------------------------------------------------------------------
(* Both parts of a load together *)

\* Exploring each part by itself adds nothing to either: a behaviour of
\* MCLoads is one of ConfigSystem on any flash and one of UsbInstances
THEOREM PartsAreWhole == PartsSpec => SpecFresh /\ UsbSpec
<1>1. PartsInit => InitFresh /\ UsbInit
    BY DEF PartsInit
<1>2. [PartsNext]_<<part, vars, usbVars>> => [Next]_vars /\ [UsbNext]_usbVars
    BY DEF PartsNext
<1> QED
    BY <1>1, <1>2, PTL DEF PartsSpec, SpecFresh, UsbSpec

\* Whatever flash holds, and whatever the loads before it made, what a load
\* reads and what it builds keep their types
THEOREM LoadsTyped == PartsSpec => []TypesOK
<1>1. PartsSpec => []TypeOK /\ []UsbTypeOK
    BY PartsAreWhole, TypeAlwaysCorrect, InstancesTyped, PTL
<1>2. TypeOK /\ UsbTypeOK => TypesOK
    BY DEF TypesOK
<1> QED
    BY <1>1, <1>2, PTL
=============================================================================
