--------------------------- MODULE ControllersProofs ---------------------------
(***************************************************************************)
(* Real controllers: who has the console's authentication and who gets its *)
(* responses, for any controllers on the USB host and any auth chips; and  *)
(* that every classic Bluetooth connection is known by its own cid, that   *)
(* the hosts there are are those of the connected, and that their keys are *)
(* kept, for any controllers and any numbers of connections and slots.     *)
(* The argument of the second: an entry under a cid, pending or in a slot, *)
(* is removed in the step that gives the cid back to BTstack, though its   *)
(* slot is only freed by the next pass of btc_tick.                        *)
(***************************************************************************)
EXTENDS MCControllers, WellFoundedInduction, TLAPS

\* What the owners' bookkeeping needs to know of its types
ProviderTypes ==
    /\ plugged \in [Hosts -> {"gone", "linking", "identified"}]
    /\ ready \subseteq Chips
    /\ registered \subseteq Providers

OwnerInv == ProviderTypes /\ OwnersKept

\* Nobody takes the place of a provider that is there
LEMMA ClaimKeepsOwner ==
    ASSUME NEW p \in Providers, Claim(p), registered \subseteq Providers,
           registered = IF handler = None THEN {} ELSE {handler}
    PROVE  /\ registered' \subseteq Providers
           /\ registered' = IF handler' = None THEN {} ELSE {handler'}
           /\ registered' \subseteq registered \union {p}
BY AuthAssumption DEF Claim, Providers

\* A provider that leaves takes its own handler along, and only that
LEMMA ReleaseKeepsOwner ==
    ASSUME NEW ps, Release(ps), registered \subseteq Providers,
           registered = IF handler = None THEN {} ELSE {handler}
    PROVE  /\ registered' \subseteq Providers
           /\ registered' = IF handler' = None THEN {} ELSE {handler'}
           /\ registered' = registered \ ps
<1>1. CASE handler = None
    BY <1>1 DEF Release
<1>2. CASE handler # None /\ handler \in ps
    BY <1>2 DEF Release
<1>3. CASE handler # None /\ handler \notin ps
    BY <1>3 DEF Release
<1> QED
    BY <1>1, <1>2, <1>3

LEMMA InitialOwners == Init => OwnerInv
BY DEF Init, OwnerInv, ProviderTypes, OwnersKept

\* A gamepad that is replaced registers its handler before the old one
\* unregisters its own
LEMMA RepliesFollow == ASSUME responder = live, NEW new PROVE Replies(new) = new
BY DEF Replies

LEMMA OwnersStay == OwnerInv /\ [Next]_vars => OwnerInv'
<1> SUFFICES ASSUME OwnerInv, [Next]_vars
             PROVE  OwnerInv'
    OBVIOUS
<1> USE DEF OwnerInv, ProviderTypes, OwnersKept
<1>1. ASSUME NEW h \in Hosts, Plug(h)
      PROVE  OwnerInv'
    BY <1>1 DEF Plug, gamepadVars
<1>2. ASSUME NEW h \in Hosts, Identify(h)
      PROVE  OwnerInv'
  <2>1. /\ h \in Providers /\ Claim(h)
        /\ plugged' = [plugged EXCEPT ![h] = "identified"]
        /\ UNCHANGED <<ready, live, responder>>
      BY <1>2 DEF Identify, Providers, gamepadVars
  <2>2. /\ registered' \subseteq Providers
        /\ registered' = IF handler' = None THEN {} ELSE {handler'}
        /\ registered' \subseteq registered \union {h}
      BY <2>1, ClaimKeepsOwner
  <2>3. \A g \in registered' \intersect Hosts : plugged'[g] = "identified"
      BY <2>1, <2>2
  <2> QED
      BY <2>1, <2>2, <2>3
<1>3. ASSUME NEW h \in Hosts, Unplug(h)
      PROVE  OwnerInv'
  <2>1. /\ Release({h})
        /\ plugged' = [plugged EXCEPT ![h] = "gone"]
        /\ UNCHANGED <<ready, live, responder>>
      BY <1>3 DEF Unplug, gamepadVars
  <2>2. /\ registered' \subseteq Providers
        /\ registered' = IF handler' = None THEN {} ELSE {handler'}
        /\ registered' = registered \ {h}
      BY <2>1, ReleaseKeepsOwner
  <2>3. \A g \in registered' \intersect Hosts : plugged'[g] = "identified"
      BY <2>1, <2>2
  <2> QED
      BY <2>1, <2>2, <2>3
<1>4. CASE Console
    BY <1>4 DEF Console, Open, Start, Auth, Reset, providerVars
<1>5. CASE RequestReload
    BY <1>5 DEF RequestReload, providerVars, gamepadVars
<1>6. ASSUME NEW c \in Chips, ChipReady(c)
      PROVE  OwnerInv'
    BY <1>6 DEF ChipReady, gamepadVars
<1>7. CASE Serve \/ NotDue \/ Writing
    BY <1>7 DEF Serve, NotDue, Writing, providerVars, gamepadVars
<1>8. ASSUME NEW new \in Gamepads \union {None}, Load(new)
      PROVE  OwnerInv'
  <2>1. /\ Release(Chips) /\ ready' = {} /\ plugged' = plugged
        /\ live' = new /\ responder' = Replies(new)
      BY <1>8 DEF Load
  <2>2. /\ registered' \subseteq Providers
        /\ registered' = IF handler' = None THEN {} ELSE {handler'}
        /\ registered' = registered \ Chips
      BY <2>1, ReleaseKeepsOwner
  <2>3. responder' = live'
      BY <2>1, RepliesFollow
  <2> QED
      BY <2>1, <2>2, <2>3
<1>9. CASE UpdateDevices
  <2>1. UNCHANGED <<plugged, ready, live, responder>>
      BY <1>9 DEF UpdateDevices, gamepadVars
  <2>2. CASE ready \ registered = {}
      BY <1>9, <2>1, <2>2 DEF UpdateDevices
  <2>3. CASE ready \ registered # {}
    <3>1. PICK c \in ready \ registered : Claim(c)
        BY <1>9, <2>3 DEF UpdateDevices
    <3>2. c \in Providers /\ c \notin Hosts
        BY <3>1, AuthAssumption DEF Providers
    <3>3. /\ registered' \subseteq Providers
          /\ registered' = IF handler' = None THEN {} ELSE {handler'}
          /\ registered' \subseteq registered \union {c}
        BY <3>1, <3>2, ClaimKeepsOwner
    <3> QED
        BY <2>1, <3>2, <3>3
  <2> QED
      BY <2>2, <2>3
<1>10. CASE Process
    BY <1>10 DEF Process, providerVars
<1>11. CASE UNCHANGED vars
    BY <1>11 DEF vars, providerVars, gamepadVars
<1> QED
    BY <1>1, <1>2, <1>3, <1>4, <1>5, <1>6, <1>7, <1>8, <1>9, <1>10, <1>11
       DEF Next, UsbHost, Loading, Loop

(* Each end of the broker has one owner, for any number of controllers and  *)
(* chips (register_auth_handler, Replies)                                   *)
THEOREM OneOwnerEach == Spec => []OwnersKept
<1>1. OwnerInv => OwnersKept
    BY DEF OwnerInv
<1> QED
    BY <1>1, InitialOwners, OwnersStay, PTL DEF Spec

-----------------------------------------------------------------------------
(* Classic Bluetooth *)

Known == {"opening", "failing", "open", "closing"}

ConnTypes ==
    /\ conn \in [Bt!Cid -> Bt!Conns \union {Bt!NoConn}]
    /\ pending \in [Bt!Cid -> Controllers \union {Nobody}]
    /\ slots \in [Bt!Slot -> Bt!Slots \union {Free}]
    /\ sdp \in Controllers \union {Nobody} /\ wake \in Controllers \union {Nobody}

\* What is to be freed by the next pass has no cid any more
Freed == \A s \in Bt!Used : slots[s].action = "disconnected" => slots[s].cid = 0

KnownInv == ConnTypes /\ ConnectionsKnown /\ Freed

\* A set of numbers has a least one: what the search of bt_slot_alloc rests on
LEMMA Least ==
    ASSUME NEW T, T \subseteq Nat, T # {}
    PROVE  \E x \in T : \A y \in T : x <= y
<1> DEFINE R == {ss \in Nat \X Nat : ss[1] < ss[2]}
<1>1. IsWellFoundedOn(R, Nat)
    BY NatLessThanWellFounded DEF OpToRel
<1>2. PICK x \in T : \A y \in T : ~ (<<y, x>> \in R)
    <2> HIDE DEF R
    <2> QED BY <1>1, WFMin
<1>3. \A y \in T : ~(y < x)
    BY <1>2
<1> QED
    BY <1>3

\* bt_slot_alloc finds a slot if there is one
LEMMA SlotFound ==
    ASSUME Bt!ClassicAssumption, ConnTypes, Bt!Used # Bt!Slot
    PROVE  Bt!NewSlot \in Bt!Slot \ Bt!Used
<1> DEFINE T == {s \in Bt!Slot : slots[s] = Free}
<1>1. T # {} /\ T \subseteq Nat
    BY DEF Bt!Used, Bt!Slot, Bt!ClassicAssumption
<1>2. PICK s \in T : \A t \in T : s <= t
    <2> HIDE DEF T
    <2> QED BY <1>1, Least
<1>3. \A t \in 1..s - 1 : slots[t] # Free
    BY <1>2 DEF Bt!Slot, Bt!ClassicAssumption
<1>4. \E n \in Bt!Slot : slots[n] = Free /\ \A t \in 1..n - 1 : slots[t] # Free
    BY <1>2, <1>3
<1> QED
    BY <1>4 DEF Bt!NewSlot, Bt!Used

-----------------------------------------------------------------------------
(* Steps that connections, pending entries or slots take.  Each lemma is about what is left of    *)
(* KnownInv when sdp and wake keep their types                                                     *)

\* A new connection has a cid that nothing knows yet
LEMMA AttemptKeeps ==
    ASSUME Bt!ClassicAssumption, KnownInv, NEW a \in Controllers, NEW fresh \in BOOLEAN,
           Bt!Connectable(a), Bt!Attempt(a, fresh), UNCHANGED slots
    PROVE  /\ conn' \in [Bt!Cid -> Bt!Conns \union {Bt!NoConn}]
           /\ pending' \in [Bt!Cid -> Controllers \union {Nobody}]
           /\ ConnectionsKnown' /\ Freed'
<1> DEFINE n == Bt!NextCid
           new == [addr |-> a, phase |-> "opening", fresh |-> fresh]
<1>1. n \in Bt!Cid /\ conn[n] = Bt!NoConn
    BY DEF Bt!Connectable, Bt!NextCid
<1> HIDE DEF n
<1>2. conn' = [conn EXCEPT ![n] = new] /\ pending' = [pending EXCEPT ![n] = a]
    BY DEF Bt!Attempt, n
<1>3. new \in Bt!Conns /\ new.addr = a /\ new.phase = "opening"
    BY DEF Bt!Conns
<1> HIDE DEF new
<1>4. \A c \in Bt!Cid : conn'[c] = (IF c = n THEN new ELSE conn[c])
                     /\ pending'[c] = (IF c = n THEN a ELSE pending[c])
    BY <1>1, <1>2 DEF KnownInv, ConnTypes
<1>5. Bt!SlotOf(n) = {}
    BY <1>1 DEF KnownInv, ConnectionsKnown, Bt!ConnectionsKnown, Bt!NoConn
<1>6. ConnectionsKnown'
    BY <1>1, <1>3, <1>4, <1>5
    DEF KnownInv, ConnectionsKnown, Bt!ConnectionsKnown, Bt!SlotOf, Bt!Used
<1>7. Freed'
    BY DEF KnownInv, Freed, Bt!Used
<1> QED
    BY <1>1, <1>2, <1>3, <1>6, <1>7 DEF KnownInv, ConnTypes

\* What BTstack may turn down
LEMMA ConnectKeeps ==
    ASSUME Bt!ClassicAssumption, KnownInv, NEW a \in Controllers, NEW fresh \in BOOLEAN,
           Bt!Connect(a, fresh), UNCHANGED slots
    PROVE  /\ conn' \in [Bt!Cid -> Bt!Conns \union {Bt!NoConn}]
           /\ pending' \in [Bt!Cid -> Controllers \union {Nobody}]
           /\ ConnectionsKnown' /\ Freed'
<1>1. CASE Bt!Connectable(a) /\ Bt!Attempt(a, fresh)
    BY <1>1, AttemptKeeps
<1>2. CASE UNCHANGED <<conn, pending>>
    BY <1>2 DEF KnownInv, ConnTypes, ConnectionsKnown, Bt!ConnectionsKnown, Freed, Bt!SlotOf, Bt!Used
<1> QED
    BY <1>1, <1>2 DEF Bt!Connect

\* An attempt that a controller refuses goes on failing until BTstack ends it
LEMMA AuthFailsKeeps ==
    ASSUME Bt!ClassicAssumption, KnownInv, NEW a \in Controllers, Bt!AuthFails(a)
    PROVE  KnownInv'
<1>1. /\ conn' = [c \in Bt!Cid |-> IF c \in Bt!ConnOf(a) THEN [conn[c] EXCEPT !.phase = "failing"]
                                  ELSE conn[c]]
      /\ \A c \in Bt!ConnOf(a) : c \in Bt!Cid /\ conn[c].phase = "opening"
      /\ UNCHANGED <<pending, slots, sdp, wake>>
    BY DEF Bt!AuthFails, Bt!Unauthenticated, Bt!ConnOf
<1>2. \A c \in Bt!ConnOf(a) : /\ conn[c] \in Bt!Conns
                             /\ [conn[c] EXCEPT !.phase = "failing"] \in Bt!Conns
                             /\ [conn[c] EXCEPT !.phase = "failing"].addr = conn[c].addr
                             /\ [conn[c] EXCEPT !.phase = "failing"].phase = "failing"
    BY <1>1 DEF KnownInv, ConnTypes, Bt!Conns, Bt!NoConn
<1>3. /\ conn' \in [Bt!Cid -> Bt!Conns \union {Bt!NoConn}]
      /\ \A d \in Bt!Cid : conn'[d].addr = conn[d].addr
                          /\ conn'[d].phase = (IF d \in Bt!ConnOf(a) THEN "failing" ELSE conn[d].phase)
    BY <1>1, <1>2 DEF KnownInv, ConnTypes
<1>4. ConnectionsKnown' /\ Freed'
    BY <1>1, <1>3 DEF KnownInv, ConnectionsKnown, Bt!ConnectionsKnown, Freed, Bt!SlotOf, Bt!Used
<1> QED
    BY <1>1, <1>3, <1>4 DEF KnownInv, ConnTypes

\* An attempt that ends has no slot, and nothing pending after it
LEMMA OpenFailedKeeps ==
    ASSUME Bt!ClassicAssumption, KnownInv, NEW c \in Bt!Cid, NEW refused \in BOOLEAN,
           Bt!OpenFailed(c, refused)
    PROVE  KnownInv'
<1>1. /\ conn' = [conn EXCEPT ![c] = Bt!NoConn] /\ conn[c].phase \in {"opening", "failing"}
      /\ pending' = [pending EXCEPT ![c] = Nobody]
      /\ UNCHANGED <<slots, sdp, wake>>
    BY DEF Bt!OpenFailed
<1>2. Bt!SlotOf(c) = {}
    BY <1>1 DEF KnownInv, ConnectionsKnown, Bt!ConnectionsKnown
<1>3. \A d \in Bt!Cid : conn'[d] = (IF d = c THEN Bt!NoConn ELSE conn[d])
                     /\ pending'[d] = (IF d = c THEN Nobody ELSE pending[d])
    BY <1>1 DEF KnownInv, ConnTypes
<1>4. ConnectionsKnown' /\ Freed'
    BY <1>1, <1>2, <1>3
    DEF KnownInv, ConnectionsKnown, Bt!ConnectionsKnown, Freed, Bt!SlotOf, Bt!Used, Bt!NoConn
<1> QED
    BY <1>1, <1>4 DEF KnownInv, ConnTypes

\* A connection that opens takes a free slot, or is closed for want of one
LEMMA OpenedKeeps ==
    ASSUME Bt!ClassicAssumption, KnownInv, NEW c \in Bt!Cid, Bt!Opened(c)
    PROVE  KnownInv'
<1>1. /\ conn[c].phase = "opening" /\ pending[c] = conn[c].addr /\ conn[c] \in Bt!Conns
      /\ Bt!SlotOf(c) = {} /\ UNCHANGED <<sdp, wake>>
    BY DEF Bt!Opened, KnownInv, ConnTypes, ConnectionsKnown, Bt!ConnectionsKnown, Bt!NoConn
<1>2. ASSUME NEW phase \in {"open", "closing"}, conn' = [conn EXCEPT ![c].phase = phase]
      PROVE  /\ conn' \in [Bt!Cid -> Bt!Conns \union {Bt!NoConn}]
             /\ \A d \in Bt!Cid : conn'[d].addr = conn[d].addr
                               /\ conn'[d].phase = (IF d = c THEN phase ELSE conn[d].phase)
    BY <1>1, <1>2 DEF KnownInv, ConnTypes, Bt!Conns
<1>3. CASE /\ Bt!Used # Bt!Slot
           /\ slots' = [slots EXCEPT ![Bt!NewSlot] = Bt!SlotFor(c)]
           /\ conn' = [conn EXCEPT ![c].phase = "open"]
           /\ pending' = [pending EXCEPT ![c] = Nobody]
    <2> DEFINE n == Bt!NewSlot
               new == Bt!SlotFor(c)
    <2>1. n \in Bt!Slot /\ n \notin Bt!Used
        BY <1>3, SlotFound DEF KnownInv
    <2>2. /\ new \in Bt!Slots /\ new # Free /\ new.cid = c /\ new.addr = conn[c].addr
          /\ new.action = "none"
        <3>1. c \in 0..MaxConns /\ conn[c].addr \in Controllers
            BY <1>1 DEF Bt!Conns, Bt!Cid, Bt!ClassicAssumption
        <3>2. new \in Bt!Slots
            BY <3>1 DEF Bt!SlotFor, Bt!Slots, Bt!Actions
        <3> QED
            BY <3>2 DEF Bt!SlotFor, Bt!ClassicAssumption
    <2> HIDE DEF n, new
    <2>3. \A s \in Bt!Slot : slots'[s] = (IF s = n THEN new ELSE slots[s])
        BY <1>3, <2>1 DEF KnownInv, ConnTypes, n, new
    <2>4. \A d \in Bt!Cid : pending'[d] = (IF d = c THEN Nobody ELSE pending[d])
        BY <1>3 DEF KnownInv, ConnTypes
    <2>5. Bt!Used' = Bt!Used \union {n}
        BY <2>1, <2>2, <2>3 DEF Bt!Used
    <2>6. \A d \in Bt!Cid : Bt!SlotOf(d)' = (IF d = c THEN {n} ELSE Bt!SlotOf(d))
        BY <1>1, <2>1, <2>2, <2>3, <2>5 DEF Bt!SlotOf, Bt!Used
    <2>7. ConnectionsKnown'
        <3> SUFFICES ASSUME NEW d \in Bt!Cid
                     PROVE  /\ conn'[d].phase \in {"opening", "failing"} => pending'[d] = conn'[d].addr
                            /\ conn'[d].phase = "open" =>
                                   \E s \in Bt!Used' : Bt!SlotOf(d)' = {s} /\ slots'[s].addr = conn'[d].addr
                            /\ pending'[d] # Nobody =>
                                   /\ pending'[d] = conn'[d].addr
                                   /\ conn'[d].phase \in {"opening", "failing", "closing"}
                            /\ \A s \in Bt!SlotOf(d)' :
                                   /\ conn'[d].phase \in {"open", "closing"}
                                   /\ slots'[s].addr = conn'[d].addr
            BY DEF ConnectionsKnown, Bt!ConnectionsKnown
        <3>1. CASE d = c
            BY <1>2, <1>3, <2>1, <2>2, <2>3, <2>4, <2>5, <2>6, <3>1
        <3>2. CASE d # c
            <4>1. \A s \in Bt!SlotOf(d) : s # n
                BY <2>1 DEF Bt!SlotOf
            <4> QED
                BY <1>2, <1>3, <2>1, <2>3, <2>4, <2>5, <2>6, <3>2, <4>1
                DEF KnownInv, ConnectionsKnown, Bt!ConnectionsKnown, Bt!SlotOf, Bt!Used
        <3> QED
            BY <3>1, <3>2
    <2>8. Freed'
        BY <2>1, <2>2, <2>3, <2>5 DEF KnownInv, Freed, Bt!Used
    <2>9. slots' \in [Bt!Slot -> Bt!Slots \union {Free}]
        BY <1>3, <2>1, <2>2 DEF KnownInv, ConnTypes, new
    <2> QED
        BY <1>1, <1>2, <1>3, <2>7, <2>8, <2>9 DEF KnownInv, ConnTypes
<1>4. CASE /\ conn' = [conn EXCEPT ![c].phase = "closing"] /\ UNCHANGED <<slots, pending>>
    <2>1. ConnectionsKnown' /\ Freed'
        BY <1>1, <1>2, <1>4
        DEF KnownInv, ConnectionsKnown, Bt!ConnectionsKnown, Freed, Bt!SlotOf, Bt!Used
    <2> QED
        BY <1>1, <1>2, <1>4, <2>1 DEF KnownInv, ConnTypes
<1> QED
    BY <1>3, <1>4 DEF Bt!Opened

\* The slot of a connection that ends, until the next pass frees it
LEMMA DetachedSlots ==
    ASSUME Bt!ClassicAssumption, ConnTypes, NEW c \in Bt!Cid
    PROVE  /\ Bt!Detached(c) \in [Bt!Slot -> Bt!Slots \union {Free}]
           /\ \A s \in Bt!Slot :
                 IF s \in Bt!SlotOf(c)
                 THEN /\ Bt!Detached(c)[s] \in Bt!Slots /\ Bt!Detached(c)[s].cid = 0
                      /\ Bt!Detached(c)[s].host = slots[s].host
                      /\ Bt!Detached(c)[s].needsHost = slots[s].needsHost
                 ELSE Bt!Detached(c)[s] = slots[s]
<1> DEFINE Off(s) == [slots[s] EXCEPT !.cid = 0, !.action = "disconnected"]
<1>1. \A s \in Bt!SlotOf(c) :
          /\ Off(s) \in Bt!Slots /\ Off(s).cid = 0
          /\ Off(s).host = slots[s].host /\ Off(s).needsHost = slots[s].needsHost
    <2>1. 0 \in 0..MaxConns
        BY DEF Bt!ClassicAssumption
    <2>2. \A s \in Bt!SlotOf(c) : slots[s] \in Bt!Slots
        BY DEF ConnTypes, Bt!SlotOf, Bt!Used
    <2> QED
        BY <2>1, <2>2 DEF Bt!Slots, Bt!Actions
<1>2. Bt!Detached(c) = [s \in Bt!Slot |-> IF s \in Bt!SlotOf(c) THEN Off(s) ELSE slots[s]]
    BY DEF Bt!Detached
<1> HIDE DEF Off
<1> QED
    BY <1>1, <1>2 DEF ConnTypes

\* A connection that ends gives its cid back, and takes it off its slot
LEMMA EndKeeps ==
    ASSUME Bt!ClassicAssumption, KnownInv, NEW c \in Bt!Cid,
           conn' = [conn EXCEPT ![c] = Bt!NoConn], pending' = [pending EXCEPT ![c] = Nobody],
           slots' = Bt!Detached(c) \/ (slots' = slots /\ conn[c].phase \notin {"open", "closing"}),
           UNCHANGED sdp, wake' \in Controllers \union {Nobody}
    PROVE  KnownInv'
<1>1. \A d \in Bt!Cid : conn'[d] = (IF d = c THEN Bt!NoConn ELSE conn[d])
                     /\ pending'[d] = (IF d = c THEN Nobody ELSE pending[d])
    BY DEF KnownInv, ConnTypes
<1>2. \A s \in Bt!SlotOf(c) : slots[s] \in Bt!Slots /\ s \in Bt!Slot
    BY DEF KnownInv, ConnTypes, Bt!SlotOf, Bt!Used
<1>3. /\ slots' \in [Bt!Slot -> Bt!Slots \union {Free}]
      /\ \A s \in Bt!Slot :
            IF s \in Bt!SlotOf(c)
            THEN slots'[s] \in Bt!Slots /\ slots'[s].cid = 0
            ELSE slots'[s] = slots[s]
    <2>1. CASE slots' = Bt!Detached(c)
        BY <2>1, DetachedSlots DEF KnownInv
    <2>2. CASE slots' = slots /\ conn[c].phase \notin {"open", "closing"}
        BY <2>2 DEF KnownInv, ConnTypes, ConnectionsKnown, Bt!ConnectionsKnown
    <2> QED
        BY <2>1, <2>2
<1>4. Bt!Used' = Bt!Used
    BY <1>2, <1>3 DEF Bt!Used, Bt!ClassicAssumption, Bt!SlotOf
<1>5. \A d \in Bt!Cid : Bt!SlotOf(d)' = (IF d = c THEN {} ELSE Bt!SlotOf(d))
    BY <1>2, <1>3, <1>4 DEF Bt!SlotOf, Bt!Used, Bt!Cid, Bt!ClassicAssumption
<1>6. \A d \in Bt!Cid : d # c => \A s \in Bt!SlotOf(d) : slots'[s] = slots[s]
    BY <1>3 DEF Bt!SlotOf, Bt!Used
<1>7. ConnectionsKnown'
    BY <1>1, <1>4, <1>5, <1>6
    DEF KnownInv, ConnectionsKnown, Bt!ConnectionsKnown, Bt!NoConn, Bt!SlotOf
<1>8. Freed'
    BY <1>3, <1>4 DEF KnownInv, Freed, Bt!Used
<1> QED
    BY <1>1, <1>3, <1>7, <1>8 DEF KnownInv, ConnTypes

\* What is left to do for a slot, and what its host is, are nothing to its connection
LEMMA SlotChangeKeeps ==
    ASSUME Bt!ClassicAssumption, KnownInv, UNCHANGED <<conn, pending, sdp, wake>>,
           slots' \in [Bt!Slot -> Bt!Slots \union {Free}], Bt!Used' = Bt!Used,
           \A s \in Bt!Used : slots'[s].cid = slots[s].cid /\ slots'[s].addr = slots[s].addr,
           Freed'
    PROVE  KnownInv'
<1>1. \A d \in Bt!Cid : Bt!SlotOf(d)' = Bt!SlotOf(d)
    BY DEF Bt!SlotOf
<1>2. ConnectionsKnown'
    BY <1>1 DEF KnownInv, ConnectionsKnown, Bt!ConnectionsKnown, Bt!SlotOf
<1> QED
    BY <1>2 DEF KnownInv, ConnTypes

\* What comes over a connection
LEMMA ReportKeeps ==
    ASSUME Bt!ClassicAssumption, KnownInv, NEW c \in Bt!Cid,
           Bt!DescriptorAvailable(c) \/ Bt!Report(c) \/ Bt!SetProtocolResponse(c)
    PROVE  KnownInv'
<1>1. PICK s \in Bt!SlotOf(c), action \in {"descriptor", "init"} :
          /\ slots' = [slots EXCEPT ![s].action = action]
          /\ UNCHANGED <<conn, pending, sdp, wake>>
    BY DEF Bt!DescriptorAvailable, Bt!Report, Bt!SetProtocolResponse, Bt!stackVars
<1> DEFINE new == [slots[s] EXCEPT !.action = action]
<1>2. s \in Bt!Slot /\ s \in Bt!Used /\ slots[s] \in Bt!Slots /\ slots[s].cid = c
    BY DEF KnownInv, ConnTypes, Bt!SlotOf, Bt!Used
<1>3. /\ new \in Bt!Slots /\ new.cid = slots[s].cid /\ new.addr = slots[s].addr
      /\ new.action # "disconnected"
    BY <1>2 DEF Bt!Slots, Bt!Actions
<1>4. slots' = [slots EXCEPT ![s] = new]
    BY <1>1, <1>2 DEF KnownInv, ConnTypes
<1> HIDE DEF new
<1>5. \A t \in Bt!Slot : slots'[t] = (IF t = s THEN new ELSE slots[t])
    BY <1>4 DEF KnownInv, ConnTypes
<1>6. new # Free
    BY <1>3 DEF Bt!ClassicAssumption
<1>7. Bt!Used' = Bt!Used
    BY <1>2, <1>5, <1>6 DEF Bt!Used
<1>8. Freed' /\ \A t \in Bt!Used : slots'[t].cid = slots[t].cid /\ slots'[t].addr = slots[t].addr
    BY <1>3, <1>5, <1>7 DEF KnownInv, Freed, Bt!Used
<1> QED
    BY <1>1, <1>2, <1>3, <1>4, <1>7, <1>8, SlotChangeKeeps DEF KnownInv, ConnTypes

\* A slot that a pass leaves to its connection
LEMMA AfterTickOf ==
    ASSUME Bt!ClassicAssumption, KnownInv, NEW s \in Bt!Used, NEW turn \in Bt!Turns
    PROVE  IF slots[s].action = "disconnected" THEN Bt!AfterTick(s, turn) = Free
           ELSE /\ Bt!AfterTick(s, turn) \in Bt!Slots
                /\ Bt!AfterTick(s, turn).cid = slots[s].cid
                /\ Bt!AfterTick(s, turn).addr = slots[s].addr
                /\ Bt!AfterTick(s, turn).action = "none"
                /\ ~Bt!AfterTick(s, turn).needsHost
                /\ Bt!AfterTick(s, turn).host = IF Bt!Upgrades(s, turn) THEN 2 ELSE Bt!HostNow(s)
<1>1. slots[s] \in Bt!Slots
    BY DEF KnownInv, ConnTypes, Bt!Used
<1>2. Bt!HostNow(s) \in 0..2
    BY <1>1 DEF Bt!HostNow, Bt!Slots
<1>3. CASE slots[s].action = "disconnected"
    BY <1>3 DEF Bt!AfterTick
<1>4. CASE slots[s].action # "disconnected"
    <2> DEFINE host == IF Bt!Upgrades(s, turn) THEN 2 ELSE Bt!HostNow(s)
    <2>1. host \in 0..2
        BY <1>2
    <2>2. Bt!AfterTick(s, turn) =
              [slots[s] EXCEPT !.needsHost = FALSE, !.action = "none", !.host = host]
        BY <1>4 DEF Bt!AfterTick
    <2> HIDE DEF host
    <2>3. /\ Bt!AfterTick(s, turn) \in Bt!Slots
          /\ Bt!AfterTick(s, turn).cid = slots[s].cid /\ Bt!AfterTick(s, turn).addr = slots[s].addr
          /\ Bt!AfterTick(s, turn).action = "none" /\ Bt!AfterTick(s, turn).host = host
          /\ Bt!AfterTick(s, turn).needsHost = FALSE
        BY <1>1, <2>1, <2>2 DEF Bt!Slots, Bt!Actions
    <2> QED
        BY <1>4, <2>3 DEF host
<1> QED
    BY <1>3, <1>4

\* A pass of btc_tick frees no slot of a connection
LEMMA TickKeeps ==
    ASSUME Bt!ClassicAssumption, KnownInv, NEW turns \in [Bt!Used -> Bt!Turns], Bt!Ticked(turns),
           UNCHANGED <<conn, pending, sdp, wake>>
    PROVE  KnownInv'
<1>1. /\ slots' = [s \in Bt!Slot |-> IF s \in Bt!Used THEN Bt!AfterTick(s, turns[s]) ELSE Free]
      /\ \A s \in Bt!Slot : slots'[s] = IF s \in Bt!Used THEN Bt!AfterTick(s, turns[s]) ELSE Free
    BY DEF Bt!Ticked
<1>2. \A s \in Bt!Used : s \in Bt!Slot /\ turns[s] \in Bt!Turns
    BY DEF Bt!Used
<1>3. \A s \in Bt!Used :
          IF slots[s].action = "disconnected" THEN slots'[s] = Free
          ELSE /\ slots'[s] \in Bt!Slots /\ slots'[s] # Free
               /\ slots'[s].cid = slots[s].cid /\ slots'[s].addr = slots[s].addr
               /\ slots'[s].action = "none"
    BY <1>1, <1>2, AfterTickOf DEF Bt!ClassicAssumption
<1>4. Bt!Used' = {s \in Bt!Used : slots[s].action # "disconnected"}
    BY <1>1, <1>2, <1>3 DEF Bt!Used
<1>5. \A d \in Bt!Cid : Bt!SlotOf(d)' = Bt!SlotOf(d)
    BY <1>3, <1>4 DEF KnownInv, Freed, Bt!SlotOf, Bt!Cid, Bt!ClassicAssumption
<1>6. \A d \in Bt!Cid : \A s \in Bt!SlotOf(d) : slots'[s].addr = slots[s].addr
    BY <1>3, <1>4, <1>5 DEF Bt!SlotOf
<1>7. ConnectionsKnown'
    BY <1>4, <1>5, <1>6 DEF KnownInv, ConnectionsKnown, Bt!ConnectionsKnown, Bt!SlotOf
<1>8. Freed'
    BY <1>3, <1>4 DEF Freed
<1>9. slots' \in [Bt!Slot -> Bt!Slots \union {Free}]
    BY <1>1, <1>3
<1> QED
    BY <1>7, <1>8, <1>9 DEF KnownInv, ConnTypes

\* The device asks BTstack to end connections that are open
LEMMA ClosingKeeps ==
    ASSUME Bt!ClassicAssumption, KnownInv, NEW cids, conn' = Bt!Closing(cids),
           UNCHANGED <<pending, slots, sdp, wake>>
    PROVE  KnownInv'
<1>1. \A d \in Bt!Cid :
          /\ conn'[d] \in Bt!Conns \union {Bt!NoConn} /\ conn'[d].addr = conn[d].addr
          /\ \/ conn'[d].phase = conn[d].phase
             \/ conn[d].phase = "open" /\ conn'[d].phase = "closing"
    <2> SUFFICES ASSUME NEW d \in Bt!Cid
                 PROVE  /\ conn'[d] \in Bt!Conns \union {Bt!NoConn} /\ conn'[d].addr = conn[d].addr
                        /\ \/ conn'[d].phase = conn[d].phase
                           \/ conn[d].phase = "open" /\ conn'[d].phase = "closing"
        OBVIOUS
    <2>1. conn[d] \in Bt!Conns \union {Bt!NoConn}
        BY DEF KnownInv, ConnTypes
    <2>2. CASE d \in cids /\ conn[d].phase = "open"
        <3>1. conn'[d] = [conn[d] EXCEPT !.phase = "closing"]
            BY <2>2 DEF Bt!Closing
        <3>2. conn[d] \in Bt!Conns
            BY <2>1, <2>2 DEF Bt!NoConn
        <3> QED
            BY <2>2, <3>1, <3>2 DEF Bt!Conns
    <2>3. CASE ~(d \in cids /\ conn[d].phase = "open")
        BY <2>1, <2>3 DEF Bt!Closing
    <2> QED
        BY <2>2, <2>3
<1>2. conn' \in [Bt!Cid -> Bt!Conns \union {Bt!NoConn}]
    BY <1>1 DEF Bt!Closing
<1>3. ConnectionsKnown' /\ Freed'
    BY <1>1 DEF KnownInv, ConnectionsKnown, Bt!ConnectionsKnown, Freed, Bt!SlotOf, Bt!Used
<1> QED
    BY <1>2, <1>3 DEF KnownInv, ConnTypes

\* Steps of neither connections nor slots
LEMMA StillKeeps ==
    ASSUME KnownInv, UNCHANGED <<conn, pending, slots>>,
           sdp' \in Controllers \union {Nobody}, wake' \in Controllers \union {Nobody}
    PROVE  KnownInv'
BY DEF KnownInv, ConnTypes, ConnectionsKnown, Bt!ConnectionsKnown, Freed, Bt!SlotOf, Bt!Used

-----------------------------------------------------------------------------
\* Discovery asks what it found, connects to it, or leaves it
LEMMA DiscoveredKeeps ==
    ASSUME Bt!ClassicAssumption, KnownInv, NEW a \in Controllers, NEW i, NEW active,
           Bt!ConnectDiscovered(a, i, active), UNCHANGED <<slots, wake>>
    PROVE  KnownInv'
<1>1. CASE Bt!Connectable(a) /\ Bt!Attempt(a, TRUE) /\ sdp' = sdp
    BY <1>1, AttemptKeeps DEF KnownInv, ConnTypes
<1>2. CASE UNCHANGED <<conn, pending>> /\ sdp' \in {a, sdp}
    BY <1>2, StillKeeps DEF KnownInv, ConnTypes
<1> QED
    BY <1>1, <1>2 DEF Bt!ConnectDiscovered

LEMMA SearchKeeps ==
    ASSUME Bt!ClassicAssumption, KnownInv,
           \/ Bt!InquiryComplete
           \/ \E a \in Controllers, known \in BOOLEAN : Bt!NameComplete(a, known)
    PROVE  KnownInv'
<1>1. CASE UNCHANGED <<conn, pending, sdp, slots, wake>>
    BY <1>1, StillKeeps DEF KnownInv, ConnTypes
<1>2. CASE \E a \in Controllers, i \in {"idle", inquiry}, active \in {FALSE, searching} :
               Bt!ConnectDiscovered(a, i, active) /\ UNCHANGED <<slots, wake>>
    BY <1>2, DiscoveredKeeps
<1>3. CASE Bt!InquiryComplete
    BY <1>1, <1>2, <1>3 DEF Bt!InquiryComplete
<1>4. CASE \E a \in Controllers, known \in BOOLEAN : Bt!NameComplete(a, known)
    <2>1. PICK a \in Controllers, known \in BOOLEAN : Bt!NameComplete(a, known)
        BY <1>4
    <2> QED
        BY <1>1, <1>2, <2>1 DEF Bt!NameComplete
<1> QED
    BY <1>3, <1>4

\* Attempts at controllers that have been asked, dropped their link, or call
LEMMA AttemptsKeep ==
    ASSUME Bt!ClassicAssumption, KnownInv,
           \/ Bt!SdpComplete \/ Bt!SyncReconnect
           \/ \E a \in Controllers : Bt!IncomingConnection(a)
    PROVE  KnownInv'
<1>1. CASE Bt!SdpComplete
    <2>1. sdp \in Controllers /\ Bt!Connect(sdp, TRUE) /\ sdp' = Nobody /\ UNCHANGED <<slots, wake>>
        BY <1>1 DEF Bt!SdpComplete, KnownInv, ConnTypes
    <2> QED
        BY <2>1, ConnectKeeps DEF KnownInv, ConnTypes
<1>2. CASE Bt!SyncReconnect
    <2>1. /\ UNCHANGED <<slots, sdp>> /\ wake' \in {wake, Nobody}
          /\ \/ UNCHANGED <<conn, pending>>
             \/ wake \in Controllers /\ Bt!Connect(wake, FALSE)
        BY <1>2 DEF Bt!SyncReconnect, KnownInv, ConnTypes
    <2>2. CASE UNCHANGED <<conn, pending>>
        BY <2>1, <2>2, StillKeeps DEF KnownInv, ConnTypes
    <2>3. CASE wake \in Controllers /\ Bt!Connect(wake, FALSE)
        BY <2>1, <2>3, ConnectKeeps DEF KnownInv, ConnTypes
    <2> QED
        BY <2>1, <2>2, <2>3
<1>3. CASE \E a \in Controllers : Bt!IncomingConnection(a)
    <2>1. PICK a \in Controllers : Bt!IncomingConnection(a)
        BY <1>3
    <2> QED
        BY <2>1, AttemptKeeps DEF Bt!IncomingConnection, KnownInv, ConnTypes
<1> QED
    BY <1>1, <1>2, <1>3

\* Connections that end by themselves or with their link
LEMMA EndsKeep ==
    ASSUME Bt!ClassicAssumption, KnownInv, NEW c \in Bt!Cid, Bt!Closed(c) \/ Bt!LinkLost(c)
    PROVE  KnownInv'
<1>1. CASE Bt!Closed(c)
    BY <1>1, EndKeeps DEF Bt!Closed, KnownInv, ConnTypes
<1>2. CASE Bt!LinkLost(c)
    <2>1. conn[c].addr \in Controllers
        BY <1>2 DEF Bt!LinkLost, KnownInv, ConnTypes, Bt!Conns, Bt!NoConn
    <2>2. wake' \in Controllers \union {Nobody}
        BY <1>2, <2>1 DEF Bt!LinkLost, Bt!LinkDropped, KnownInv, ConnTypes
    <2> QED
        BY <1>2, <2>2, EndKeeps DEF Bt!LinkLost
<1> QED
    BY <1>1, <1>2

\* The rest of what BTstack tells
LEMMA QuietEventsKeep ==
    ASSUME Bt!ClassicAssumption, KnownInv,
           \/ Bt!ScanTimeout
           \/ \E a \in Controllers :
                 \/ \E state \in {"request", "fetched"} : Bt!InquiryResult(a, state)
                 \/ Bt!LinkUp(a) \/ Bt!LinkDown(a) \/ Bt!Authenticates(a) \/ Bt!KeyStored(a)
           \/ \E c \in Bt!Cid : Bt!FeatureReport(c)
    PROVE  KnownInv'
<1>1. UNCHANGED <<conn, pending, slots, sdp>>
    BY DEF Bt!ScanTimeout, Bt!InquiryResult, Bt!LinkUp, Bt!LinkDown, Bt!Authenticates, Bt!KeyStored,
           Bt!FeatureReport, Bt!stackVars
<1>2. wake' \in Controllers \union {Nobody}
    BY DEF Bt!ScanTimeout, Bt!InquiryResult, Bt!LinkUp, Bt!LinkDown, Bt!LinkDropped,
           Bt!Authenticates, Bt!KeyStored, Bt!FeatureReport, KnownInv, ConnTypes
<1> QED
    BY <1>1, <1>2, StillKeeps DEF KnownInv, ConnTypes

LEMMA EventsKeep == ASSUME Bt!ClassicAssumption, KnownInv, Bt!Events PROVE KnownInv'
<1>1. ASSUME NEW c \in Bt!Cid,
             \/ \E refused \in BOOLEAN : Bt!OpenFailed(c, refused)
             \/ Bt!Opened(c)
             \/ Bt!DescriptorAvailable(c) \/ Bt!Report(c) \/ Bt!SetProtocolResponse(c)
      PROVE  KnownInv'
    BY <1>1, OpenFailedKeeps, OpenedKeeps, ReportKeeps
<1> QED
    BY <1>1, AuthFailsKeeps, SearchKeeps, AttemptsKeep, EndsKeep, QuietEventsKeep DEF Bt!Events

LEMMA LoopKeepsKnown == ASSUME Bt!ClassicAssumption, KnownInv, Bt!Loop PROVE KnownInv'
<1>1. CASE Bt!Tick
    BY <1>1, TickKeeps DEF Bt!Tick, Bt!stackVars
<1>2. CASE Bt!UpdateHosts
    BY <1>2, StillKeeps DEF Bt!UpdateHosts, Bt!stackVars, KnownInv, ConnTypes
<1> QED
    BY <1>1, <1>2 DEF Bt!Loop

LEMMA PeopleKeep == ASSUME Bt!ClassicAssumption, KnownInv, Bt!People PROVE KnownInv'
<1>1. CASE Bt!StartDiscovery
    BY <1>1, StillKeeps DEF Bt!StartDiscovery, KnownInv, ConnTypes
<1>2. ASSUME NEW a \in Controllers, Bt!PowerOff(a) \/ Bt!Forget(a) PROVE KnownInv'
    BY <1>2, ClosingKeeps DEF Bt!PowerOff, Bt!Forget
<1>3. ASSUME NEW a \in Controllers, Bt!EnterPairing(a) PROVE KnownInv'
    BY <1>3, StillKeeps DEF Bt!EnterPairing, Bt!stackVars, KnownInv, ConnTypes
<1> QED
    BY <1>1, <1>2, <1>3 DEF Bt!People

LEMMA StepKeepsKnown ==
    ASSUME Bt!ClassicAssumption, KnownInv, [Bt!Next]_(Bt!vars)
    PROVE  KnownInv'
<1>1. CASE UNCHANGED Bt!vars
    BY <1>1, StillKeeps DEF Bt!vars, Bt!stackVars, KnownInv, ConnTypes
<1> QED
    BY <1>1, EventsKeep, LoopKeepsKnown, PeopleKeep DEF Bt!Next

LEMMA KnownAtFirst == ASSUME Bt!ClassicAssumption, Bt!Init PROVE KnownInv
<1>1. Bt!Used = {}
    BY DEF Bt!Init, Bt!Used
<1>2. \A c \in Bt!Cid : conn[c] = Bt!NoConn /\ pending[c] = Nobody /\ Bt!SlotOf(c) = {}
    BY <1>1 DEF Bt!Init, Bt!SlotOf
<1>3. ConnectionsKnown /\ Freed
    BY <1>1, <1>2 DEF ConnectionsKnown, Bt!ConnectionsKnown, Freed, Bt!NoConn
<1> QED
    BY <1>3 DEF KnownInv, ConnTypes, Bt!Init

(* Whatever BTstack connects is known by its cid, under its controller, and *)
(* nothing else is, whatever fails, is lost, forgotten or still to be freed *)
(* (s_pending_connections and s_bt_slots)                                   *)
THEOREM ConnectionsAlwaysKnown == Bt!Spec => []ConnectionsKnown
<1>1. Bt!Init => KnownInv
    BY KnownAtFirst, ControllersAssumption
<1>2. KnownInv /\ [Bt!Next]_(Bt!vars) => KnownInv'
    BY StepKeepsKnown, ControllersAssumption
<1>3. KnownInv => ConnectionsKnown
    BY DEF KnownInv
<1> QED
    BY <1>1, <1>2, <1>3, PTL DEF Bt!Spec

-----------------------------------------------------------------------------
(* The hosts of the slots.  Beside HostsAreConnected: a slot whose host is to be created has none  *)

HostInv ==
    /\ HostsAreConnected
    /\ \A s \in Bt!Used : slots[s].needsHost => slots[s].host = 0

\* Steps that leave hosts to themselves
LEMMA HostsStay ==
    ASSUME HostInv, UNCHANGED <<waiting, assignable>>, Bt!Used' = Bt!Used,
           \A s \in Bt!Used :
               slots'[s].host = slots[s].host /\ slots'[s].needsHost = slots[s].needsHost
    PROVE  HostInv'
<1>1. {<<s, slots'[s].host>> : s \in {t \in Bt!Used : slots'[t].host # 0}}
        = {<<s, slots[s].host>> : s \in {t \in Bt!Used : slots[t].host # 0}}
    OBVIOUS
<1> QED
    BY <1>1 DEF HostInv, HostsAreConnected, Bt!HostsAreConnected

LEMMA SlotsStay ==
    ASSUME HostInv, UNCHANGED <<slots, waiting, assignable>>
    PROVE  HostInv'
BY HostsStay DEF Bt!Used

\* Hosts that are registered only move from one list to the other
LEMMA RegisteredHosts ==
    ASSUME HostInv, UNCHANGED slots, NEW hosts \in SUBSET waiting,
           waiting' = waiting \ hosts, assignable' = assignable \union hosts
    PROVE  HostInv'
<1>1. waiting' \union assignable' = waiting \union assignable /\ waiting' \intersect assignable' = {}
    BY DEF HostInv, HostsAreConnected, Bt!HostsAreConnected
<1> QED
    BY <1>1 DEF HostInv, HostsAreConnected, Bt!HostsAreConnected, Bt!Used

\* A connection that opens has no host yet
LEMMA OpenedHosts ==
    ASSUME Bt!ClassicAssumption, KnownInv, HostInv, NEW c \in Bt!Cid, Bt!Opened(c)
    PROVE  HostInv'
<1>1. CASE UNCHANGED slots
    BY <1>1, SlotsStay DEF Bt!Opened, Bt!hostVars
<1>2. CASE Bt!Used # Bt!Slot /\ slots' = [slots EXCEPT ![Bt!NewSlot] = Bt!SlotFor(c)]
    <2> DEFINE n == Bt!NewSlot
               new == Bt!SlotFor(c)
    <2>1. n \in Bt!Slot /\ n \notin Bt!Used
        BY <1>2, SlotFound DEF KnownInv
    <2>2. new.needsHost = TRUE /\ new.host = 0
        BY DEF Bt!SlotFor
    <2> HIDE DEF n, new
    <2>3. \A s \in Bt!Slot : slots'[s] = (IF s = n THEN new ELSE slots[s])
        BY <1>2, <2>1 DEF KnownInv, ConnTypes, n, new
    <2>4. Bt!Used' \ {n} = Bt!Used /\ Bt!Used' \subseteq Bt!Slot
        BY <2>1, <2>3 DEF Bt!Used
    <2>5. {t \in Bt!Used' : slots'[t].host # 0} = {t \in Bt!Used : slots[t].host # 0}
        BY <2>1, <2>2, <2>3, <2>4
    <2>6. {<<s, slots'[s].host>> : s \in {t \in Bt!Used' : slots'[t].host # 0}}
            = {<<s, slots[s].host>> : s \in {t \in Bt!Used : slots[t].host # 0}}
        BY <2>1, <2>3, <2>4, <2>5
    <2>7. UNCHANGED <<waiting, assignable>>
        BY DEF Bt!Opened, Bt!hostVars
    <2>8. \A s \in Bt!Used' : slots'[s].needsHost <=> slots'[s].host = 0
        BY <2>1, <2>2, <2>3, <2>4 DEF HostInv, HostsAreConnected, Bt!HostsAreConnected
    <2> QED
        BY <2>6, <2>7, <2>8 DEF HostInv, HostsAreConnected, Bt!HostsAreConnected
<1> QED
    BY <1>1, <1>2 DEF Bt!Opened

\* A connection that ends leaves its host to the next pass
LEMMA EndedHosts ==
    ASSUME Bt!ClassicAssumption, KnownInv, HostInv, NEW c \in Bt!Cid, Bt!Closed(c) \/ Bt!LinkLost(c)
    PROVE  HostInv'
<1>1. UNCHANGED <<waiting, assignable>>
    BY DEF Bt!Closed, Bt!LinkLost, Bt!hostVars
<1>2. CASE slots' = Bt!Detached(c)
    <2>1. \A s \in Bt!Slot :
             IF s \in Bt!SlotOf(c)
             THEN /\ slots'[s] \in Bt!Slots
                  /\ slots'[s].host = slots[s].host /\ slots'[s].needsHost = slots[s].needsHost
             ELSE slots'[s] = slots[s]
        BY <1>2, DetachedSlots DEF KnownInv
    <2>2. Bt!Used' = Bt!Used
        BY <2>1 DEF Bt!Used, Bt!ClassicAssumption, Bt!SlotOf
    <2> QED
        BY <1>1, <2>1, <2>2, HostsStay DEF Bt!Used
<1>3. CASE slots' = slots
    BY <1>1, <1>3, SlotsStay
<1> QED
    BY <1>2, <1>3 DEF Bt!Closed, Bt!LinkLost

\* What comes over a connection doesn't touch its host
LEMMA ReportHosts ==
    ASSUME Bt!ClassicAssumption, KnownInv, HostInv, NEW c \in Bt!Cid,
           Bt!DescriptorAvailable(c) \/ Bt!Report(c) \/ Bt!SetProtocolResponse(c)
    PROVE  HostInv'
<1>1. PICK s \in Bt!SlotOf(c), action \in {"descriptor", "init"} :
          /\ slots' = [slots EXCEPT ![s].action = action]
          /\ UNCHANGED <<waiting, assignable>>
    BY DEF Bt!DescriptorAvailable, Bt!Report, Bt!SetProtocolResponse, Bt!hostVars
<1> DEFINE new == [slots[s] EXCEPT !.action = action]
<1>2. s \in Bt!Slot /\ s \in Bt!Used /\ slots[s] \in Bt!Slots
    BY DEF KnownInv, ConnTypes, Bt!SlotOf, Bt!Used
<1>3. new \in Bt!Slots /\ new.host = slots[s].host /\ new.needsHost = slots[s].needsHost
    BY <1>2 DEF Bt!Slots, Bt!Actions
<1>4. slots' = [slots EXCEPT ![s] = new]
    BY <1>1, <1>2 DEF KnownInv, ConnTypes
<1> HIDE DEF new
<1>5. \A t \in Bt!Slot : slots'[t] = (IF t = s THEN new ELSE slots[t])
    BY <1>4 DEF KnownInv, ConnTypes
<1>6. new # Free
    BY <1>3 DEF Bt!ClassicAssumption
<1>7. Bt!Used' = Bt!Used
    BY <1>2, <1>5, <1>6 DEF Bt!Used
<1> QED
    BY <1>1, <1>3, <1>5, <1>7, HostsStay DEF Bt!Used

-----------------------------------------------------------------------------
\* The host of a slot, if it has one
Own(s) == IF slots[s].host = 0 THEN {} ELSE {<<s, slots[s].host>>}

\* What a pass does about the host of one slot
LEMMA TickedHost ==
    ASSUME Bt!ClassicAssumption, KnownInv, HostInv, NEW s \in Bt!Used, NEW turn \in Bt!Turns
    PROVE  /\ (Own(s) \union Bt!Created(s) \union Bt!New(s, turn)) \ Bt!Gone(s, turn)
                = IF slots[s].action = "disconnected" THEN {}
                  ELSE {<<s, Bt!AfterTick(s, turn).host>>}
           /\ slots[s].action # "disconnected" => Bt!AfterTick(s, turn).host # 0
           /\ \A h \in Own(s) \union Bt!Created(s) \union Bt!New(s, turn) \union Bt!Gone(s, turn) :
                  h[1] = s
           /\ Bt!Created(s) \intersect Own(s) = {}
<1>1. /\ slots[s] \in Bt!Slots /\ slots[s].host \in 0..2 /\ slots[s].needsHost \in BOOLEAN
      /\ slots[s].needsHost <=> slots[s].host = 0
    BY DEF KnownInv, ConnTypes, Bt!Used, Bt!Slots, HostInv, HostsAreConnected, Bt!HostsAreConnected
<1>2. CASE slots[s].action = "disconnected"
    <2>1. Bt!Created(s) = {} /\ Bt!New(s, turn) = {} /\ Bt!Gone(s, turn) = {<<s, slots[s].host>>}
        BY <1>2 DEF Bt!Created, Bt!Creates, Bt!New, Bt!Gone, Bt!Upgrades, Bt!BecomesReady,
                    Bt!TakesDescriptor
    <2> QED
        BY <1>2, <2>1 DEF Own
<1>3. CASE slots[s].action # "disconnected"
    <2>1. /\ Bt!Creates(s) = slots[s].needsHost
          /\ Bt!HostNow(s) = IF slots[s].needsHost THEN 1 ELSE slots[s].host
          /\ Bt!HostNow(s) \in {1, 2}
        BY <1>1, <1>3 DEF Bt!Creates, Bt!HostNow
    <2>2. /\ Own(s) \union Bt!Created(s) = {<<s, Bt!HostNow(s)>>}
          /\ Bt!Created(s) \intersect Own(s) = {}
        BY <1>1, <2>1 DEF Own, Bt!Created
    <2>3. CASE Bt!Upgrades(s, turn)
        <3>1. /\ Bt!HostNow(s) = 1 /\ Bt!AfterTick(s, turn).host = 2
              /\ Bt!New(s, turn) = {<<s, 2>>} /\ Bt!Gone(s, turn) = {<<s, 1>>}
            BY <1>3, <2>3, AfterTickOf DEF Bt!New, Bt!Gone, Bt!Upgrades, Bt!BecomesReady
        <3>2. ({<<s, 1>>} \union {<<s, 2>>}) \ {<<s, 1>>} = {<<s, 2>>}
            OBVIOUS
        <3> QED
            BY <1>3, <2>2, <3>1, <3>2
    <2>4. CASE ~Bt!Upgrades(s, turn)
        <3>1. /\ Bt!AfterTick(s, turn).host = Bt!HostNow(s)
              /\ Bt!New(s, turn) \subseteq {<<s, Bt!HostNow(s)>>} /\ Bt!Gone(s, turn) = {}
            BY <1>3, <2>4, AfterTickOf DEF Bt!New, Bt!Gone
        <3> QED
            BY <1>3, <2>1, <2>2, <3>1
    <2> QED
        BY <2>3, <2>4
<1> QED
    BY <1>2, <1>3

\* A pass creates, registers, upgrades and removes hosts with their slots
LEMMA TickHosts ==
    ASSUME Bt!ClassicAssumption, KnownInv, HostInv, NEW turns \in [Bt!Used -> Bt!Turns],
           Bt!Ticked(turns)
    PROVE  HostInv'
<1> DEFINE created == UNION {Bt!Created(s) : s \in Bt!Used}
           new == UNION {Bt!New(s, turns[s]) : s \in Bt!Used}
           gone == UNION {Bt!Gone(s, turns[s]) : s \in Bt!Used}
           own == UNION {Own(s) : s \in Bt!Used}
           after == UNION {IF slots[s].action = "disconnected" THEN {}
                           ELSE {<<s, Bt!AfterTick(s, turns[s]).host>>} : s \in Bt!Used}
<1>1. \A s \in Bt!Used : turns[s] \in Bt!Turns
    OBVIOUS
<1>2. /\ waiting' = (waiting \union created) \ ((new \ assignable) \union gone)
      /\ assignable' = (assignable \union (new \ assignable)) \ gone
      /\ slots' = [s \in Bt!Slot |-> IF s \in Bt!Used THEN Bt!AfterTick(s, turns[s]) ELSE Free]
    BY DEF Bt!Ticked
<1>3. waiting \intersect assignable = {} /\ waiting \union assignable = own
    BY DEF HostInv, HostsAreConnected, Bt!HostsAreConnected, Own
<1>4. (own \union created \union new) \ gone = after
    BY <1>1, TickedHost
<1>5. created \intersect own = {}
    BY <1>1, TickedHost
<1>6. Bt!Used' = {s \in Bt!Used : slots[s].action # "disconnected"}
    <2>1. \A s \in Bt!Used : slots[s].action # "disconnected" <=> Bt!AfterTick(s, turns[s]) # Free
        BY <1>1, AfterTickOf DEF Bt!ClassicAssumption
    <2> QED
        BY <1>2, <2>1 DEF Bt!Used
<1>7. \A s \in Bt!Used' :
          /\ slots'[s] = Bt!AfterTick(s, turns[s]) /\ slots'[s].host # 0 /\ ~slots'[s].needsHost
    <2>1. \A s \in Bt!Used' : s \in Bt!Used /\ slots'[s] = Bt!AfterTick(s, turns[s])
        BY <1>2, <1>6 DEF Bt!Used
    <2> QED
        BY <1>1, <1>6, <2>1, TickedHost, AfterTickOf
<1>8. {<<s, slots'[s].host>> : s \in {t \in Bt!Used' : slots'[t].host # 0}} = after
    BY <1>6, <1>7
<1> HIDE DEF created, new, gone, own, after
<1>9. waiting' \intersect assignable' = {} /\ waiting' \union assignable' = after
    BY <1>2, <1>3, <1>4, <1>5
<1> QED
    BY <1>7, <1>8, <1>9 DEF HostInv, HostsAreConnected, Bt!HostsAreConnected

LEMMA LoopKeepsHosts ==
    ASSUME Bt!ClassicAssumption, KnownInv, HostInv,
           Bt!Loop \/ \E c \in Bt!Cid : Bt!FeatureReport(c)
    PROVE  HostInv'
<1>1. CASE Bt!Tick
    BY <1>1, TickHosts DEF Bt!Tick
<1>2. CASE Bt!UpdateHosts
    BY <1>2, RegisteredHosts DEF Bt!UpdateHosts, Bt!Registered
<1>3. CASE \E c \in Bt!Cid : Bt!FeatureReport(c)
    <2>1. UNCHANGED slots
        BY <1>3 DEF Bt!FeatureReport
    <2>2. CASE UNCHANGED <<waiting, assignable>>
        BY <2>1, <2>2, SlotsStay
    <2>3. CASE \E host \in waiting : waiting' = waiting \ {host} /\ assignable' = assignable \union {host}
        BY <2>1, <2>3, RegisteredHosts
    <2> QED
        BY <1>3, <2>2, <2>3 DEF Bt!FeatureReport, Bt!Registered
<1> QED
    BY <1>1, <1>2, <1>3 DEF Bt!Loop

\* Every other step leaves slots and hosts as they are
LEMMA StepKeepsHosts ==
    ASSUME Bt!ClassicAssumption, KnownInv, HostInv, [Bt!Next]_(Bt!vars)
    PROVE  HostInv'
<1>1. CASE \E c \in Bt!Cid : Bt!Opened(c)
    BY <1>1, OpenedHosts
<1>2. CASE \E c \in Bt!Cid : Bt!Closed(c) \/ Bt!LinkLost(c)
    BY <1>2, EndedHosts
<1>3. CASE \E c \in Bt!Cid :
               Bt!DescriptorAvailable(c) \/ Bt!Report(c) \/ Bt!SetProtocolResponse(c)
    BY <1>3, ReportHosts
<1>4. CASE Bt!Loop \/ \E c \in Bt!Cid : Bt!FeatureReport(c)
    BY <1>4, LoopKeepsHosts
<1>5. CASE Bt!People \/ UNCHANGED Bt!vars
    <2>1. UNCHANGED <<slots, waiting, assignable>>
        BY <1>5 DEF Bt!People, Bt!StartDiscovery, Bt!PowerOff, Bt!Forget, Bt!EnterPairing,
                    Bt!hostVars, Bt!vars
    <2> QED
        BY <2>1, SlotsStay
<1>6. ASSUME NEW a \in Controllers,
             \/ \E state \in {"request", "fetched"} : Bt!InquiryResult(a, state)
             \/ \E known \in BOOLEAN : Bt!NameComplete(a, known)
             \/ Bt!LinkUp(a) \/ Bt!LinkDown(a) \/ Bt!IncomingConnection(a)
             \/ Bt!Authenticates(a) \/ Bt!KeyStored(a) \/ Bt!AuthFails(a)
      PROVE  HostInv'
    <2>1. UNCHANGED <<slots, waiting, assignable>>
        BY <1>6 DEF Bt!InquiryResult, Bt!NameComplete, Bt!LinkUp, Bt!LinkDown, Bt!IncomingConnection,
                    Bt!Authenticates, Bt!KeyStored, Bt!AuthFails, Bt!hostVars
    <2> QED
        BY <2>1, SlotsStay
<1>7. CASE \/ \E c \in Bt!Cid, refused \in BOOLEAN : Bt!OpenFailed(c, refused)
           \/ Bt!InquiryComplete \/ Bt!SdpComplete \/ Bt!ScanTimeout \/ Bt!SyncReconnect
    <2>1. UNCHANGED <<slots, waiting, assignable>>
        BY <1>7 DEF Bt!OpenFailed, Bt!InquiryComplete, Bt!SdpComplete, Bt!ScanTimeout,
                    Bt!SyncReconnect, Bt!hostVars
    <2> QED
        BY <2>1, SlotsStay
<1> QED
    BY <1>1, <1>2, <1>3, <1>4, <1>5, <1>6, <1>7 DEF Bt!Next, Bt!Events

(* The hosts that wait to be registered or can be picked are those of the   *)
(* slots, each in one of the lists, for any number of slots that a pass of  *)
(* btc_tick finds changed at once (bt_host_add_interface and                *)
(* bt_host_remove_interface)                                                *)
THEOREM HostsAlwaysConnected == Bt!Spec => []HostsAreConnected
<1>1. Bt!Init => KnownInv /\ HostInv
    BY KnownAtFirst, ControllersAssumption
    DEF Bt!Init, HostInv, HostsAreConnected, Bt!HostsAreConnected, Bt!Used
<1>2. KnownInv /\ HostInv /\ [Bt!Next]_(Bt!vars) => KnownInv' /\ HostInv'
    BY StepKeepsKnown, StepKeepsHosts, ControllersAssumption
<1>3. HostInv => HostsAreConnected
    BY DEF HostInv
<1> QED
    BY <1>1, <1>2, <1>3, PTL DEF Bt!Spec

(* Both beside the other part, as the controllers run explores them         *)
COROLLARY ClassicBesideAuth == PartsSafe => [](ConnectionsKnown /\ HostsAreConnected)
<1>1. PartsInit => Bt!Init
    BY DEF PartsInit
<1>2. [PartsNext]_<<part, vars, btVars>> => [Bt!Next]_(Bt!vars)
    BY DEF PartsNext, btVars, Bt!vars, Bt!stackVars, Bt!linkVars, Bt!searchVars, Bt!hostVars, Bt!keyVars
<1>3. PartsSafe => Bt!Spec
    BY <1>1, <1>2, PTL DEF PartsSafe, Bt!Spec
<1> QED
    BY <1>3, ConnectionsAlwaysKnown, HostsAlwaysConnected, PTL
-----------------------------------------------------------------------------
(* The keys of the connected.  Beside KeysKept: a controller has one         *)
(* connection, so that what is done about one that is being set up is        *)
(* nothing to one that is open; a key that a pairing has is as good as       *)
(* BTstack's; a connection opens over a link that is let in and ends with    *)
(* it; and the key of an authenticated link is BTstack's until it is dropped *)

KeyTypes ==
    /\ paired \subseteq Controllers
    /\ pairKey \in [Controllers -> Bt!Key] /\ stackKey \in [Controllers -> Bt!Key]
Alone == \A c, d \in Bt!Cid : conn[c].addr = conn[d].addr /\ conn[c].addr # Nobody => c = d
KeysPaired ==
    \A a \in Controllers :
        /\ pairKey[a] # "none" => a \in paired
        /\ pairKey[a] = "stale" => stackKey[a] # "good"
Connected(s) == slots[s].cid # 0 /\ slots[s].addr \notin forgotten
LinkKeys ==
    /\ up \subseteq Controllers /\ authenticated \subseteq up
    /\ \A c \in Bt!Cid : conn[c].phase \in {"open", "closing"} => conn[c].addr \in Bt!LetIn
    /\ \A a \in authenticated : a \in forgotten \/ stackKey[a] = "good"
KeyInv == KeyTypes /\ Alone /\ KeysPaired /\ LinkKeys /\ KeysKept

\* The slots of a connected controller are those of its connection
LEMMA SlotConnection ==
    ASSUME Bt!ClassicAssumption, KnownInv, NEW s \in Bt!Used, slots[s].cid # 0
    PROVE  /\ slots[s].cid \in Bt!Cid /\ slots[s].addr \in Controllers
           /\ conn[slots[s].cid].phase \in {"open", "closing"}
           /\ conn[slots[s].cid].addr = slots[s].addr
<1>1. slots[s] \in Bt!Slots
    BY DEF KnownInv, ConnTypes, Bt!Used
<1>2. slots[s].cid \in Bt!Cid /\ slots[s].addr \in Controllers
    BY <1>1 DEF Bt!Slots, Bt!Cid, Bt!ClassicAssumption
<1>3. s \in Bt!SlotOf(slots[s].cid)
    BY DEF Bt!SlotOf
<1> QED
    BY <1>2, <1>3 DEF KnownInv, ConnectionsKnown, Bt!ConnectionsKnown

\* and its key is BTstack's, unless it has none or it was dropped
LEMMA ConnectedKey ==
    ASSUME Bt!ClassicAssumption, KnownInv, LinkKeys, NEW s \in Bt!Used, slots[s].cid # 0
    PROVE  /\ slots[s].addr \in Bt!LetIn
           /\ slots[s].addr \notin forgotten \union Keyless => stackKey[slots[s].addr] = "good"
BY SlotConnection DEF LinkKeys, Bt!LetIn

\* One whose connection is being set up has no slot under a cid yet
LEMMA SetUpUnconnected ==
    ASSUME Bt!ClassicAssumption, KnownInv, Alone, NEW a \in Controllers,
           \/ Bt!ConnOf(a) = {}
           \/ \E c \in Bt!Cid : conn[c].addr = a /\ conn[c].phase \in {"opening", "failing"}
    PROVE  \A s \in Bt!Used : slots[s].cid # 0 => slots[s].addr # a
<1> SUFFICES ASSUME NEW s \in Bt!Used, slots[s].cid # 0, slots[s].addr = a
             PROVE  FALSE
    OBVIOUS
<1>1. /\ slots[s].cid \in Bt!Cid /\ conn[slots[s].cid].phase \in {"open", "closing"}
      /\ conn[slots[s].cid].addr = a
    BY SlotConnection
<1> QED
    BY <1>1 DEF Alone, Bt!ConnOf, Bt!ClassicAssumption

\* A host that can be picked is that of its slot
LEMMA PickedSlot ==
    ASSUME HostInv, NEW h \in assignable
    PROVE  h[1] \in Bt!Used /\ h = <<h[1], slots[h[1]].host>> /\ slots[h[1]].host # 0
<1>1. PICK s \in Bt!Used : slots[s].host # 0 /\ h = <<s, slots[s].host>>
    BY DEF HostInv, HostsAreConnected, Bt!HostsAreConnected
<1> QED
    BY <1>1

\* Connections that end, or go on under their controllers
LEMMA AloneStays ==
    ASSUME Alone, \A d \in Bt!Cid : conn'[d].addr \in {conn[d].addr, Nobody}
    PROVE  Alone'
BY DEF Alone

\* A new one is for a controller that has none
LEMMA AloneAttempt ==
    ASSUME Bt!ClassicAssumption, KnownInv, Alone, NEW a, NEW fresh, Bt!Connectable(a), Bt!Attempt(a, fresh)
    PROVE  Alone'
<1> DEFINE n == Bt!NextCid
           new == [addr |-> a, phase |-> "opening", fresh |-> fresh]
<1>1. n \in Bt!Cid /\ new.addr = a
    BY DEF Bt!Connectable, Bt!NextCid
<1>2. conn' = [conn EXCEPT ![n] = new]
    BY DEF Bt!Attempt
<1> HIDE DEF n, new
<1>3. \A c \in Bt!Cid : conn'[c] = (IF c = n THEN new ELSE conn[c])
    BY <1>1, <1>2 DEF KnownInv, ConnTypes
<1> QED
    BY <1>1, <1>3 DEF Alone, Bt!Connectable, Bt!ConnOf

LEMMA AloneConnect ==
    ASSUME Bt!ClassicAssumption, KnownInv, Alone, NEW a, NEW fresh, Bt!Connect(a, fresh)
    PROVE  Alone'
<1>1. CASE UNCHANGED conn
    BY <1>1 DEF Alone
<1> QED
    BY <1>1, AloneAttempt DEF Bt!Connect

\* Steps that end no link, and open connections over links that are let in
LEMMA LinksGrow ==
    ASSUME LinkKeys, up \subseteq up', up' \subseteq Controllers,
           authenticated \subseteq authenticated', authenticated' \subseteq up',
           \A c \in Bt!Cid : conn'[c].phase \in {"open", "closing"} => conn'[c].addr \in Bt!LetIn,
           \A a \in authenticated' : a \in forgotten' \/ stackKey'[a] = "good"
    PROVE  LinkKeys'
BY DEF LinkKeys, Bt!LetIn

\* Those that leave links and open connections alone, and keys but for one whose
\* link, if it is authenticated, is remembered as forgotten
LEMMA LinksStay ==
    ASSUME KeyTypes, LinkKeys, UNCHANGED <<up, authenticated>>, forgotten \subseteq forgotten',
           \A c \in Bt!Cid : conn'[c].phase \in {"open", "closing"} =>
               conn[c].phase \in {"open", "closing"} /\ conn'[c].addr = conn[c].addr,
           \/ UNCHANGED stackKey
           \/ \E a \in Controllers, key \in Bt!Key :
                 /\ stackKey' = [stackKey EXCEPT ![a] = key]
                 /\ a \notin authenticated \/ a \in forgotten'
    PROVE  LinkKeys'
<1>1. \A c \in Bt!Cid : conn'[c].phase \in {"open", "closing"} => conn'[c].addr \in Bt!LetIn
    BY DEF LinkKeys
<1>2. \A a \in authenticated' : a \in forgotten' \/ stackKey'[a] = "good"
    BY DEF LinkKeys, KeyTypes
<1> QED
    BY <1>1, <1>2, LinksGrow DEF LinkKeys

\* A new connection isn't open yet
LEMMA LinksAttempt ==
    ASSUME Bt!ClassicAssumption, KnownInv, NEW a, NEW fresh, Bt!Connect(a, fresh)
    PROVE  \A c \in Bt!Cid : conn'[c].phase \in {"open", "closing"} =>
               conn[c].phase \in {"open", "closing"} /\ conn'[c].addr = conn[c].addr
<1>1. CASE Bt!Connectable(a) /\ Bt!Attempt(a, fresh)
  <2> DEFINE n == Bt!NextCid
             new == [addr |-> a, phase |-> "opening", fresh |-> fresh]
  <2>1. new.phase = "opening" /\ conn' = [conn EXCEPT ![n] = new]
      BY <1>1 DEF Bt!Attempt
  <2> HIDE DEF n, new
  <2>2. \A c \in Bt!Cid : conn'[c] = (IF c = n THEN new ELSE conn[c])
      BY <2>1 DEF KnownInv, ConnTypes
  <2> QED
      BY <2>1, <2>2
<1> QED
    BY <1>1 DEF Bt!Connect

\* Discovery drops the key of what it found
LEMMA DiscoveredLinks ==
    ASSUME Bt!ClassicAssumption, KnownInv, KeyTypes, LinkKeys, NEW a \in Controllers, NEW i, NEW active,
           Bt!ConnectDiscovered(a, i, active), UNCHANGED <<up, authenticated>>
    PROVE  LinkKeys'
<1>1. /\ stackKey' = [stackKey EXCEPT ![a] = "none"] /\ "none" \in Bt!Key
      /\ forgotten \subseteq forgotten' /\ (a \notin authenticated \/ a \in forgotten')
    BY DEF Bt!ConnectDiscovered, Bt!KeyDropped, Bt!LetIn, Bt!Key
<1>2. conn' = conn \/ Bt!Connect(a, TRUE)
    BY DEF Bt!ConnectDiscovered, Bt!Connect
<1>3. \A c \in Bt!Cid : conn'[c].phase \in {"open", "closing"} =>
          conn[c].phase \in {"open", "closing"} /\ conn'[c].addr = conn[c].addr
    BY <1>2, LinksAttempt
<1> QED
    BY <1>1, <1>3, LinksStay

\* Discovery, and attempts
LEMMA AttemptLinks ==
    ASSUME Bt!ClassicAssumption, KnownInv, KeyTypes, LinkKeys,
           \/ Bt!InquiryComplete \/ Bt!SdpComplete \/ Bt!SyncReconnect
           \/ \E a \in Controllers : \/ \E known \in BOOLEAN : Bt!NameComplete(a, known)
                                     \/ Bt!IncomingConnection(a)
    PROVE  LinkKeys'
<1>1. CASE Bt!InquiryComplete \/ \E a \in Controllers, known \in BOOLEAN : Bt!NameComplete(a, known)
  <2>1. UNCHANGED <<up, authenticated>>
      BY <1>1 DEF Bt!InquiryComplete, Bt!NameComplete, Bt!linkVars
  <2>2. \/ UNCHANGED <<conn, stackKey, forgotten>>
        \/ \E a \in Controllers, i \in {"idle", inquiry}, active \in {FALSE, searching} :
              Bt!ConnectDiscovered(a, i, active)
    <3>1. CASE Bt!InquiryComplete
        BY <3>1 DEF Bt!InquiryComplete
    <3>2. CASE \E a \in Controllers, known \in BOOLEAN : Bt!NameComplete(a, known)
        BY <3>2 DEF Bt!NameComplete
    <3> QED
        BY <1>1, <3>1, <3>2
  <2>3. CASE UNCHANGED <<conn, stackKey, forgotten>>
      BY <2>1, <2>3, LinksStay
  <2> QED
      BY <2>1, <2>2, <2>3, DiscoveredLinks
<1>2. CASE Bt!SdpComplete \/ \E a \in Controllers : Bt!IncomingConnection(a)
  <2>1. UNCHANGED <<up, authenticated, stackKey, forgotten>> /\ \E a, fresh : Bt!Connect(a, fresh)
      BY <1>2 DEF Bt!SdpComplete, Bt!IncomingConnection, Bt!Connect, Bt!linkVars, Bt!keyVars
  <2> QED
      BY <2>1, LinksAttempt, LinksStay
<1>3. CASE Bt!SyncReconnect
  <2>1. /\ UNCHANGED <<up, authenticated, forgotten>> /\ stackKey' = Bt!Seeded
        /\ conn' = conn \/ \E a, fresh : Bt!Connect(a, fresh)
      BY <1>3 DEF Bt!SyncReconnect, Bt!linkVars
  <2>2. \A c \in Bt!Cid : conn'[c].phase \in {"open", "closing"} =>
            conn[c].phase \in {"open", "closing"} /\ conn'[c].addr = conn[c].addr
      BY <2>1, LinksAttempt
  <2>3. \A a \in Controllers : stackKey[a] = "good" => stackKey'[a] = "good"
      BY <2>1 DEF Bt!Seeded
  <2> QED
      BY <2>1, <2>2, <2>3, LinksGrow DEF LinkKeys
<1> QED
    BY <1>1, <1>2, <1>3

\* A link that is authenticated has BTstack's key
LEMMA AuthenticatedLinks ==
    ASSUME KnownInv, KeyTypes, LinkKeys, NEW a \in Controllers,
           Bt!Authenticates(a) \/ Bt!KeyStored(a) \/ Bt!AuthFails(a)
    PROVE  LinkKeys'
<1>1. CASE Bt!Authenticates(a) \/ Bt!KeyStored(a)
  <2>1. /\ up' = up \union {a} /\ authenticated' = authenticated \union {a} /\ UNCHANGED <<conn, forgotten>>
        /\ \/ stackKey' = stackKey /\ stackKey[a] = "good"
           \/ stackKey' = [stackKey EXCEPT ![a] = "good"]
      BY <1>1 DEF Bt!Authenticates, Bt!KeyStored, Bt!keyVars
  <2>2. \A b \in authenticated' : b \in forgotten' \/ stackKey'[b] = "good"
      BY <2>1 DEF LinkKeys, KeyTypes
  <2> QED
      BY <2>1, <2>2, LinksGrow DEF LinkKeys
<1>2. CASE Bt!AuthFails(a)
  <2>1. /\ UNCHANGED <<up, authenticated, forgotten>> /\ a \notin authenticated
        /\ stackKey' = [stackKey EXCEPT ![a] = "none"] /\ "none" \in Bt!Key
        /\ conn' = [c \in Bt!Cid |-> IF c \in Bt!ConnOf(a) THEN [conn[c] EXCEPT !.phase = "failing"]
                                     ELSE conn[c]]
        /\ \A c \in Bt!ConnOf(a) : conn[c].phase = "opening"
      BY <1>2 DEF Bt!AuthFails, Bt!Unauthenticated, Bt!linkVars, Bt!Key
  <2>2. \A c \in Bt!Cid : conn'[c].phase \in {"open", "closing"} => c \notin Bt!ConnOf(a)
    <3>1. \A c \in Bt!ConnOf(a) : c \in Bt!Cid /\ conn'[c] = [conn[c] EXCEPT !.phase = "failing"]
        BY <2>1 DEF Bt!ConnOf
    <3>2. \A c \in Bt!ConnOf(a) : conn'[c].phase = "failing"
      <4>1. \A c \in Bt!Cid : conn[c].phase = "opening" =>
                [conn[c] EXCEPT !.phase = "failing"].phase = "failing"
          BY DEF KnownInv, ConnTypes, Bt!Conns, Bt!NoConn
      <4> QED
          BY <2>1, <3>1, <4>1
    <3> QED
        BY <3>2
  <2>3. \A c \in Bt!Cid : conn'[c].phase \in {"open", "closing"} =>
            conn[c].phase \in {"open", "closing"} /\ conn'[c].addr = conn[c].addr
      BY <2>1, <2>2
  <2> QED
      BY <2>1, <2>3, LinksStay
<1> QED
    BY <1>1, <1>2

\* A link that goes has no connection any more
LEMMA DroppedLinks ==
    ASSUME Bt!ClassicAssumption, KnownInv, KeyTypes, Alone, LinkKeys,
           \/ \E a \in Controllers : Bt!LinkDown(a)
           \/ \E c \in Bt!Cid : Bt!LinkLost(c)
    PROVE  LinkKeys'
<1>1. PICK a : /\ up' = up \ {a} /\ authenticated' = authenticated \ {a} /\ forgotten' = forgotten \ {a}
               /\ UNCHANGED stackKey
               /\ \A c \in Bt!Cid : conn'[c].phase \in {"open", "closing"} =>
                     /\ conn[c].phase \in {"open", "closing"}
                     /\ conn'[c].addr = conn[c].addr /\ conn[c].addr # a
  <2>1. CASE \E a \in Controllers : Bt!LinkDown(a)
    <3>1. PICK a \in Controllers : Bt!LinkDown(a)
        BY <2>1
    <3> QED
        BY <3>1 DEF Bt!LinkDown, Bt!LinkDropped, Bt!ConnOf, Bt!keyVars
  <2>2. CASE \E c \in Bt!Cid : Bt!LinkLost(c)
    <3>1. PICK c \in Bt!Cid : Bt!LinkLost(c)
        BY <2>2
    <3>2. /\ conn' = [conn EXCEPT ![c] = Bt!NoConn] /\ conn[c].phase # "none"
          /\ up' = up \ {conn[c].addr} /\ authenticated' = authenticated \ {conn[c].addr}
          /\ forgotten' = forgotten \ {conn[c].addr} /\ UNCHANGED stackKey
        BY <3>1 DEF Bt!LinkLost, Bt!LinkDropped, Bt!keyVars
    <3>3. conn[c].addr # Nobody
        BY <3>2 DEF KnownInv, ConnTypes, Bt!Conns, Bt!NoConn, Bt!ClassicAssumption
    <3>4. \A d \in Bt!Cid : IF d = c THEN conn'[d].phase = "none"
                            ELSE conn'[d] = conn[d] /\ conn[d].addr # conn[c].addr
        BY <3>2, <3>3 DEF KnownInv, ConnTypes, Bt!NoConn, Alone
    <3> QED
        BY <3>2, <3>4
  <2> QED
      BY <2>1, <2>2
<1> QED
    BY <1>1 DEF LinkKeys, Bt!LetIn

\* Connections that open, fail or end
LEMMA ConnectionLinks ==
    ASSUME Bt!ClassicAssumption, KnownInv, KeyTypes, LinkKeys, NEW c \in Bt!Cid,
           \/ Bt!Opened(c) \/ Bt!Closed(c) \/ \E refused \in BOOLEAN : Bt!OpenFailed(c, refused)
    PROVE  LinkKeys'
<1>1. CASE Bt!Opened(c)
  <2>1. /\ UNCHANGED <<up, authenticated, forgotten, stackKey>> /\ conn[c].addr \in Bt!LetIn
        /\ \E phase \in {"open", "closing"} : conn' = [conn EXCEPT ![c].phase = phase]
      BY <1>1 DEF Bt!Opened, Bt!linkVars, Bt!keyVars
  <2>2. \A d \in Bt!Cid : conn'[d].addr = conn[d].addr /\ (d # c => conn'[d] = conn[d])
      BY <1>1, <2>1 DEF KnownInv, ConnTypes, Bt!Conns, Bt!NoConn, Bt!Opened
  <2> QED
      BY <2>1, <2>2, LinksGrow DEF LinkKeys
<1>2. CASE Bt!Closed(c) \/ \E refused \in BOOLEAN : Bt!OpenFailed(c, refused)
  <2>1. conn' = [conn EXCEPT ![c] = Bt!NoConn] /\ UNCHANGED <<up, authenticated>>
      BY <1>2 DEF Bt!Closed, Bt!OpenFailed, Bt!linkVars
  <2>2. \A d \in Bt!Cid : conn'[d].phase \in {"open", "closing"} =>
            conn[d].phase \in {"open", "closing"} /\ conn'[d].addr = conn[d].addr
      BY <2>1 DEF KnownInv, ConnTypes, Bt!NoConn
  <2>3. CASE UNCHANGED <<stackKey, forgotten>>
      BY <2>1, <2>2, <2>3, LinksStay
  <2>4. CASE /\ stackKey' = [stackKey EXCEPT ![conn[c].addr] = "none"] /\ Bt!KeyDropped(conn[c].addr)
             /\ conn[c].phase \in {"opening", "failing"}
    <3>1. conn[c].addr \in Controllers
        BY <2>4 DEF KnownInv, ConnTypes, Bt!Conns, Bt!NoConn
    <3> QED
        BY <2>1, <2>2, <2>4, <3>1, LinksStay DEF Bt!KeyDropped, Bt!LetIn, Bt!Key
  <2> QED
      BY <1>2, <2>3, <2>4 DEF Bt!Closed, Bt!OpenFailed, Bt!keyVars
<1> QED
    BY <1>1, <1>2

\* People drop keys, and end connections
LEMMA PeopleLinks ==
    ASSUME KnownInv, KeyTypes, LinkKeys, Bt!People
    PROVE  LinkKeys'
<1>1. CASE Bt!StartDiscovery
    BY <1>1, LinksStay DEF Bt!StartDiscovery, Bt!linkVars, Bt!keyVars
<1>2. \A cids : conn' = Bt!Closing(cids) => \A c \in Bt!Cid : conn'[c].phase \in {"open", "closing"} =>
          conn[c].phase \in {"open", "closing"} /\ conn'[c].addr = conn[c].addr
    BY DEF Bt!Closing, KnownInv, ConnTypes, Bt!Conns, Bt!NoConn
<1>3. ASSUME NEW a \in Controllers, Bt!PowerOff(a)
      PROVE  LinkKeys'
    BY <1>2, <1>3, LinksStay DEF Bt!PowerOff, Bt!linkVars, Bt!keyVars
<1>4. ASSUME NEW a \in Controllers, Bt!Forget(a)
      PROVE  LinkKeys'
  <2>1. /\ stackKey' = [stackKey EXCEPT ![a] = "none"] /\ UNCHANGED <<up, authenticated>>
        /\ forgotten' = forgotten \union ({a} \intersect Bt!LetIn)
      BY <1>4 DEF Bt!Forget, Bt!KeyDropped, Bt!linkVars
  <2> QED
      BY <1>2, <1>4, <2>1, LinksStay DEF Bt!Forget, Bt!LetIn, Bt!Key
<1>5. ASSUME NEW a \in Controllers, Bt!EnterPairing(a)
      PROVE  LinkKeys'
  <2>1. /\ stackKey' = [stackKey EXCEPT ![a] = IF stackKey[a] = "good" THEN "stale" ELSE stackKey[a]]
        /\ UNCHANGED <<up, authenticated, forgotten, conn>> /\ a \notin up
      BY <1>5 DEF Bt!EnterPairing, KeyTypes
  <2>2. (IF stackKey[a] = "good" THEN "stale" ELSE stackKey[a]) \in Bt!Key
      BY DEF KeyTypes, Bt!Key
  <2> QED
      BY <2>1, <2>2, LinksStay DEF LinkKeys
<1> QED
    BY <1>1, <1>3, <1>4, <1>5 DEF Bt!People

LEMMA StepKeepsLinks ==
    ASSUME Bt!ClassicAssumption, KnownInv, KeyTypes, Alone, LinkKeys, [Bt!Next]_(Bt!vars)
    PROVE  LinkKeys'
<1>1. CASE \/ Bt!ScanTimeout \/ Bt!Loop \/ UNCHANGED Bt!vars
           \/ \E a \in Controllers, state \in {"request", "fetched"} : Bt!InquiryResult(a, state)
           \/ \E c \in Bt!Cid : \/ Bt!DescriptorAvailable(c) \/ Bt!Report(c) \/ Bt!SetProtocolResponse(c)
                                \/ Bt!FeatureReport(c)
  <2>1. UNCHANGED <<conn, up, authenticated, forgotten, stackKey>>
      BY <1>1 DEF Bt!ScanTimeout, Bt!Loop, Bt!Tick, Bt!UpdateHosts, Bt!vars, Bt!InquiryResult,
           Bt!DescriptorAvailable, Bt!Report, Bt!SetProtocolResponse, Bt!FeatureReport,
           Bt!stackVars, Bt!linkVars, Bt!keyVars
  <2> QED
      BY <2>1, LinksStay
<1>2. ASSUME NEW a \in Controllers, Bt!LinkUp(a)
      PROVE  LinkKeys'
  <2>1. up' = up \union {a} /\ UNCHANGED <<conn, authenticated, forgotten, stackKey>>
      BY <1>2 DEF Bt!LinkUp, Bt!keyVars
  <2> QED
      BY <2>1, LinksGrow DEF LinkKeys
<1> QED
    BY <1>1, <1>2, AttemptLinks, AuthenticatedLinks, DroppedLinks, ConnectionLinks, PeopleLinks
       DEF Bt!Next, Bt!Events

\* Steps that change no key: connections end, and slots lose their cids or are freed
LEMMA KeysUntouched ==
    ASSUME KeyInv, HostInv', Alone', LinkKeys',
           UNCHANGED <<paired, pairKey, stackKey>>, assignable' \subseteq assignable,
           Bt!Used' \subseteq Bt!Used,
           \A s \in Bt!Used' : slots'[s].addr = slots[s].addr /\ (Connected(s)' => Connected(s))
    PROVE  KeyInv'
<1>1. KeyTypes' /\ KeysPaired'
    BY DEF KeyInv, KeyTypes, KeysPaired
<1>2. \A h \in assignable' : h[1] \in Bt!Used'
  <2>1. \A h \in assignable' : \E s \in Bt!Used' : h = <<s, slots'[s].host>>
      BY DEF HostInv, HostsAreConnected, Bt!HostsAreConnected
  <2> QED
      BY <2>1
<1>3. KeysKept'
    BY <1>2 DEF KeyInv, KeysKept, Bt!KeysKept, Connected
<1> QED
    BY <1>1, <1>3 DEF KeyInv

\* Steps that change the keys of one controller, which isn't connected or is forgotten
LEMMA OnesKeysChange ==
    ASSUME KeyInv, HostInv, Alone', LinkKeys', NEW a \in Controllers, NEW j \in Bt!Key, NEW k \in Bt!Key,
           UNCHANGED <<slots, assignable>>,
           pairKey' = [pairKey EXCEPT ![a] = j], stackKey' = [stackKey EXCEPT ![a] = k],
           paired' \in {paired, paired \ {a}}, forgotten \subseteq forgotten',
           j # "none" => a \in paired', j = "stale" => k # "good",
           \A s \in Bt!Used : Connected(s)' => slots[s].addr # a
    PROVE  KeyInv'
<1>1. \A b \in Controllers : /\ pairKey'[b] = (IF b = a THEN j ELSE pairKey[b])
                             /\ stackKey'[b] = (IF b = a THEN k ELSE stackKey[b])
    BY DEF KeyInv, KeyTypes
<1>2. KeyTypes'
    BY DEF KeyInv, KeyTypes
<1>3. KeysPaired'
    BY <1>1 DEF KeyInv, KeysPaired
<1>4. KeysKept'
  <2> SUFFICES ASSUME NEW h \in assignable, slots[h[1]].cid # 0, slots[h[1]].addr \notin forgotten'
               PROVE  /\ slots[h[1]].addr \in paired'
                      /\ slots[h[1]].addr \notin Keyless =>
                             pairKey'[slots[h[1]].addr] = "good" /\ stackKey'[slots[h[1]].addr] = "good"
      BY DEF KeysKept, Bt!KeysKept
  <2>1. h[1] \in Bt!Used /\ Connected(h[1])'
      BY PickedSlot DEF Connected
  <2>2. slots[h[1]].addr # a
      BY <2>1
  <2>3. /\ slots[h[1]].addr \in paired
        /\ slots[h[1]].addr \notin Keyless =>
               pairKey[slots[h[1]].addr] = "good" /\ stackKey[slots[h[1]].addr] = "good"
      BY DEF KeyInv, KeysKept, Bt!KeysKept
  <2> QED
      BY <1>1, <2>2, <2>3 DEF KeyInv, KeyTypes
<1> QED
    BY <1>2, <1>3, <1>4 DEF KeyInv

\* A step that changes neither keys nor slots nor hosts
LEMMA KeysStay ==
    ASSUME KeyInv, HostInv, Alone', LinkKeys',
           UNCHANGED <<paired, pairKey, stackKey, forgotten, slots, waiting, assignable>>
    PROVE  KeyInv'
BY KeysUntouched, SlotsStay DEF Bt!Used, Connected

\* Controllers that discovery connects to have no connection of theirs
LEMMA DiscoveredKeys ==
    ASSUME Bt!ClassicAssumption, KnownInv, HostInv, KeyInv, LinkKeys',
           NEW a \in Controllers, NEW i, NEW active,
           ~Bt!ConnectedOrPending(a), Bt!ConnectDiscovered(a, i, active),
           UNCHANGED <<slots, assignable, paired, pairKey>>
    PROVE  KeyInv'
<1>1. Alone'
  <2>1. CASE UNCHANGED conn
      BY <2>1 DEF KeyInv, Alone
  <2> QED
      BY <2>1, AloneAttempt DEF KeyInv, Bt!ConnectDiscovered
<1>2. \A s \in Bt!Used : slots[s].addr # a
    BY DEF Bt!ConnectedOrPending
<1>3. /\ pairKey[a] \in Bt!Key /\ pairKey' = [pairKey EXCEPT ![a] = pairKey[a]]
      /\ stackKey' = [stackKey EXCEPT ![a] = "none"] /\ (pairKey[a] # "none" => a \in paired)
      /\ forgotten \subseteq forgotten'
    BY DEF KeyInv, KeyTypes, KeysPaired, Bt!ConnectDiscovered, Bt!KeyDropped
<1> QED
    BY <1>1, <1>2, <1>3, OnesKeysChange DEF Bt!Key

LEMMA SearchKeys ==
    ASSUME Bt!ClassicAssumption, KnownInv, HostInv, KeyInv, LinkKeys',
           \/ Bt!InquiryComplete
           \/ \E a \in Controllers, known \in BOOLEAN : Bt!NameComplete(a, known)
    PROVE  KeyInv'
<1>1. UNCHANGED <<slots, waiting, assignable, paired, pairKey>>
    BY DEF Bt!InquiryComplete, Bt!NameComplete, Bt!hostVars
<1>2. \/ UNCHANGED <<conn, stackKey, forgotten>>
      \/ \E a \in Controllers, i \in {"idle", inquiry}, active \in {FALSE, searching} :
            ~Bt!ConnectedOrPending(a) /\ Bt!ConnectDiscovered(a, i, active)
  <2>1. CASE Bt!InquiryComplete
      BY <2>1 DEF Bt!InquiryComplete
  <2>2. CASE \E a \in Controllers, known \in BOOLEAN : Bt!NameComplete(a, known)
      BY <2>2 DEF Bt!NameComplete
  <2> QED
      BY <2>1, <2>2
<1>3. CASE UNCHANGED <<conn, stackKey, forgotten>>
    BY <1>1, <1>3, KeysStay DEF KeyInv, Alone
<1> QED
    BY <1>1, <1>2, <1>3, DiscoveredKeys

\* Attempts: a key that BTstack has lost is that of the pairing again
LEMMA AttemptKeys ==
    ASSUME Bt!ClassicAssumption, KnownInv, HostInv, KeyInv, LinkKeys',
           \/ Bt!SdpComplete \/ Bt!SyncReconnect
           \/ \E a \in Controllers : Bt!IncomingConnection(a)
    PROVE  KeyInv'
<1>1. Alone'
  <2>1. CASE UNCHANGED conn
      BY <2>1 DEF KeyInv, Alone
  <2>2. CASE \E a, fresh : Bt!Connect(a, fresh)
      BY <2>2, AloneConnect DEF KeyInv
  <2>3. CASE \E a \in Controllers : Bt!IncomingConnection(a)
      BY <2>3, AloneAttempt DEF KeyInv, Bt!IncomingConnection
  <2> QED
      BY <2>1, <2>2, <2>3 DEF Bt!SdpComplete, Bt!SyncReconnect
<1>2. CASE Bt!SdpComplete \/ \E a \in Controllers : Bt!IncomingConnection(a)
  <2>1. UNCHANGED <<paired, pairKey, stackKey, forgotten, slots, waiting, assignable>>
      BY <1>2 DEF Bt!SdpComplete, Bt!IncomingConnection, Bt!hostVars, Bt!keyVars
  <2> QED
      BY <1>1, <2>1, KeysStay
<1>3. CASE Bt!SyncReconnect
  <2>1. /\ stackKey' = Bt!Seeded
        /\ UNCHANGED <<paired, pairKey, forgotten, slots, waiting, assignable>>
      BY <1>3 DEF Bt!SyncReconnect, Bt!hostVars
  <2>2. \A a \in Controllers :
           stackKey'[a] = IF a \in paired /\ stackKey[a] = "none" THEN pairKey[a] ELSE stackKey[a]
      BY <2>1 DEF Bt!Seeded
  <2>3. KeyTypes'
      BY <2>1 DEF KeyInv, KeyTypes, Bt!Seeded
  <2>4. KeysPaired'
      BY <2>1, <2>2 DEF KeyInv, KeysPaired
  <2>5. \A a \in Controllers : stackKey[a] = "good" => stackKey'[a] = "good"
      BY <2>2
  <2>6. KeysKept'
    <3> SUFFICES ASSUME NEW h \in assignable, slots[h[1]].cid # 0, slots[h[1]].addr \notin forgotten
                 PROVE  /\ slots[h[1]].addr \in paired
                        /\ slots[h[1]].addr \notin Keyless =>
                               pairKey[slots[h[1]].addr] = "good" /\ stackKey'[slots[h[1]].addr] = "good"
        BY <2>1 DEF KeysKept, Bt!KeysKept
    <3>1. slots[h[1]].addr \in Controllers
        BY PickedSlot, SlotConnection
    <3> QED
        BY <2>5, <3>1 DEF KeyInv, KeysKept, Bt!KeysKept
  <2> QED
      BY <1>1, <2>3, <2>4, <2>6 DEF KeyInv
<1> QED
    BY <1>2, <1>3

\* What a controller and BTstack settle before a connection is open
LEMMA SetUpKeys ==
    ASSUME Bt!ClassicAssumption, KnownInv, HostInv, KeyInv, LinkKeys', NEW a \in Controllers,
           \/ Bt!KeyStored(a) \/ Bt!AuthFails(a)
           \/ \E c \in Bt!Cid, refused \in BOOLEAN : conn[c].addr = a /\ Bt!OpenFailed(c, refused)
    PROVE  KeyInv'
<1>1. /\ UNCHANGED <<slots, waiting, assignable, paired>> /\ forgotten \subseteq forgotten'
      /\ \/ Bt!ConnOf(a) = {}
         \/ \E c \in Bt!Cid : conn[c].addr = a /\ conn[c].phase \in {"opening", "failing"}
    BY DEF Bt!KeyStored, Bt!AuthFails, Bt!Unauthenticated, Bt!OpenFailed, Bt!KeyDropped, Bt!ConnOf,
           Bt!hostVars
<1>2. Alone'
  <2>1. \A d \in Bt!Cid : conn'[d].addr \in {conn[d].addr, Nobody}
    <3>1. CASE UNCHANGED conn
        BY <3>1
    <3>2. CASE \E c \in Bt!Cid : conn' = [conn EXCEPT ![c] = Bt!NoConn]
        BY <3>2 DEF KnownInv, ConnTypes, Bt!NoConn
    <3>3. CASE conn' = [c \in Bt!Cid |-> IF c \in Bt!ConnOf(a) THEN [conn[c] EXCEPT !.phase = "failing"]
                                       ELSE conn[c]]
        BY <3>3 DEF KnownInv, ConnTypes, Bt!Conns, Bt!NoConn
    <3> QED
        BY <3>1, <3>2, <3>3 DEF Bt!KeyStored, Bt!AuthFails, Bt!OpenFailed
  <2> QED
      BY <2>1, AloneStays DEF KeyInv
<1>3. \A s \in Bt!Used : Connected(s)' => slots[s].addr # a
    BY <1>1, SetUpUnconnected DEF KeyInv, Connected
<1>4. pairKey[a] \in Bt!Key /\ stackKey[a] \in Bt!Key /\ (pairKey[a] # "none" => a \in paired)
      /\ (pairKey[a] = "stale" => stackKey[a] # "good")
    BY DEF KeyInv, KeyTypes, KeysPaired
<1>5. PICK j \in Bt!Key, k \in Bt!Key :
         /\ pairKey' = [pairKey EXCEPT ![a] = j] /\ stackKey' = [stackKey EXCEPT ![a] = k]
         /\ (j # "none" => a \in paired) /\ (j = "stale" => k # "good")
  <2>1. CASE Bt!KeyStored(a)
    <3>1. /\ stackKey' = [stackKey EXCEPT ![a] = "good"]
          /\ pairKey' = IF a \in paired THEN [pairKey EXCEPT ![a] = "good"] ELSE pairKey
        BY <2>1 DEF Bt!KeyStored
    <3>2. pairKey = [pairKey EXCEPT ![a] = pairKey[a]]
        BY DEF KeyInv, KeyTypes
    <3>3. CASE a \in paired
        BY <3>1, <3>3 DEF Bt!Key
    <3>4. CASE a \notin paired
        BY <1>4, <3>1, <3>2, <3>4 DEF Bt!Key
    <3> QED
        BY <3>3, <3>4
  <2>2. CASE Bt!AuthFails(a)
      BY <2>2 DEF Bt!AuthFails, Bt!Key
  <2>3. CASE \E c \in Bt!Cid, refused \in BOOLEAN : conn[c].addr = a /\ Bt!OpenFailed(c, refused)
    <3>1. pairKey = [pairKey EXCEPT ![a] = pairKey[a]] /\ stackKey = [stackKey EXCEPT ![a] = stackKey[a]]
        BY DEF KeyInv, KeyTypes
    <3>2. \/ pairKey' = pairKey /\ stackKey' = stackKey
          \/ pairKey' = [pairKey EXCEPT ![a] = "none"] /\ stackKey' = [stackKey EXCEPT ![a] = "none"]
        BY <2>3 DEF Bt!OpenFailed
    <3>3. CASE pairKey' = pairKey /\ stackKey' = stackKey
        BY <1>4, <3>1, <3>3
    <3>4. CASE pairKey' = [pairKey EXCEPT ![a] = "none"] /\ stackKey' = [stackKey EXCEPT ![a] = "none"]
        BY <3>4 DEF Bt!Key
    <3> QED
        BY <3>2, <3>3, <3>4
  <2> QED
      BY <2>1, <2>2, <2>3
<1> QED
    BY <1>1, <1>2, <1>3, <1>5, OnesKeysChange

\* People forget controllers, turn them off, and put them into pairing mode
LEMMA PeopleKeys ==
    ASSUME Bt!ClassicAssumption, KnownInv, HostInv, KeyInv, LinkKeys', Bt!People
    PROVE  KeyInv'
<1>1. CASE Bt!StartDiscovery
    BY <1>1, KeysStay DEF Bt!StartDiscovery, Bt!hostVars, Bt!keyVars, KeyInv, Alone
<1>2. ASSUME NEW cids, conn' = Bt!Closing(cids)
      PROVE  Alone'
  <2>1. \A d \in Bt!Cid : conn'[d].addr = conn[d].addr
      BY <1>2 DEF Bt!Closing, KnownInv, ConnTypes, Bt!Conns, Bt!NoConn
  <2> QED
      BY <2>1, AloneStays DEF KeyInv
<1>3. ASSUME NEW a \in Controllers, Bt!PowerOff(a)
      PROVE  KeyInv'
    BY <1>2, <1>3, KeysStay DEF Bt!PowerOff, Bt!hostVars, Bt!keyVars
<1>4. ASSUME NEW a \in Controllers, Bt!Forget(a)
      PROVE  KeyInv'
  <2>1. /\ pairKey' = [pairKey EXCEPT ![a] = "none"] /\ stackKey' = [stackKey EXCEPT ![a] = "none"]
        /\ paired' = paired \ {a} /\ forgotten' = forgotten \union ({a} \intersect Bt!LetIn)
        /\ UNCHANGED <<slots, assignable>> /\ Alone'
      BY <1>2, <1>4 DEF Bt!Forget, Bt!KeyDropped, Bt!hostVars
  <2>2. \A s \in Bt!Used : Connected(s)' => slots[s].addr # a
      BY <2>1, ConnectedKey DEF KeyInv, Connected
  <2> QED
      BY <2>1, <2>2, OnesKeysChange DEF Bt!Key
<1>5. ASSUME NEW a \in Controllers, Bt!EnterPairing(a)
      PROVE  KeyInv'
  <2> DEFINE Outdated(key) == IF key = "good" THEN "stale" ELSE key
  <2>1. /\ pairKey' = [pairKey EXCEPT ![a] = Outdated(pairKey[a])]
        /\ stackKey' = [stackKey EXCEPT ![a] = Outdated(stackKey[a])]
        /\ Bt!ConnOf(a) = {} /\ UNCHANGED <<conn, slots, assignable, paired, forgotten>>
      BY <1>5 DEF Bt!EnterPairing, Bt!stackVars, Bt!hostVars, KeyInv, KeyTypes
  <2>2. /\ Outdated(pairKey[a]) \in Bt!Key /\ Outdated(stackKey[a]) \in Bt!Key
        /\ Outdated(stackKey[a]) # "good" /\ (Outdated(pairKey[a]) # "none" => a \in paired)
      BY DEF KeyInv, KeyTypes, KeysPaired, Bt!Key
  <2>3. \A s \in Bt!Used : Connected(s)' => slots[s].addr # a
      BY <2>1, SetUpUnconnected DEF KeyInv, Connected
  <2>4. Alone'
      BY <2>1 DEF KeyInv, Alone
  <2> QED
      BY <2>1, <2>2, <2>3, <2>4, OnesKeysChange
<1> QED
    BY <1>1, <1>3, <1>4, <1>5 DEF Bt!People

\* Events of connections that are open
LEMMA OpenKeys ==
    ASSUME Bt!ClassicAssumption, KnownInv, HostInv, HostInv', KeyInv, LinkKeys', NEW c \in Bt!Cid,
           \/ Bt!Closed(c) \/ Bt!LinkLost(c)
           \/ Bt!DescriptorAvailable(c) \/ Bt!Report(c) \/ Bt!SetProtocolResponse(c)
    PROVE  KeyInv'
<1>1. UNCHANGED <<assignable, paired, pairKey, stackKey>>
    BY DEF Bt!Closed, Bt!LinkLost, Bt!DescriptorAvailable, Bt!Report, Bt!SetProtocolResponse,
           Bt!hostVars, Bt!keyVars
<1>2. Alone'
  <2>1. CASE UNCHANGED conn
      BY <2>1 DEF KeyInv, Alone
  <2>2. CASE conn' = [conn EXCEPT ![c] = Bt!NoConn]
    <3>1. \A d \in Bt!Cid : conn'[d].addr \in {conn[d].addr, Nobody}
        BY <2>2 DEF KnownInv, ConnTypes, Bt!NoConn
    <3> QED
        BY <3>1, AloneStays DEF KeyInv
  <2> QED
      BY <2>1, <2>2 DEF Bt!Closed, Bt!LinkLost, Bt!DescriptorAvailable, Bt!Report,
                        Bt!SetProtocolResponse, Bt!stackVars
<1>3. /\ Bt!Used' \subseteq Bt!Used
      /\ \A s \in Bt!Used' : slots'[s].addr = slots[s].addr /\ slots'[s].cid \in {0, slots[s].cid}
  <2>1. CASE UNCHANGED slots
      BY <2>1 DEF Bt!Used
  <2>2. CASE slots' = Bt!Detached(c)
    <3>1. \A s \in Bt!SlotOf(c) : s \in Bt!Used /\ slots[s] \in Bt!Slots
        BY DEF KnownInv, ConnTypes, Bt!SlotOf, Bt!Used
    <3>2. \A s \in Bt!Slot :
             IF s \in Bt!SlotOf(c)
             THEN slots'[s].addr = slots[s].addr /\ slots'[s].cid = 0
             ELSE slots'[s] = slots[s]
        BY <2>2, <3>1 DEF Bt!Detached, Bt!Slots
    <3> QED
        BY <3>1, <3>2 DEF Bt!Used
  <2>3. CASE \E s \in Bt!SlotOf(c), action \in {"descriptor", "init"} :
                 slots' = [slots EXCEPT ![s].action = action]
    <3>1. PICK s \in Bt!SlotOf(c), action \in {"descriptor", "init"} :
                 slots' = [slots EXCEPT ![s].action = action]
        BY <2>3
    <3>2. s \in Bt!Used /\ s \in Bt!Slot /\ slots[s] \in Bt!Slots
        BY DEF KnownInv, ConnTypes, Bt!SlotOf, Bt!Used
    <3>3. \A t \in Bt!Slot :
             IF t = s THEN slots'[t].addr = slots[t].addr /\ slots'[t].cid = slots[t].cid
             ELSE slots'[t] = slots[t]
        BY <3>1, <3>2 DEF KnownInv, ConnTypes, Bt!Slots
    <3> QED
        BY <3>2, <3>3 DEF Bt!Used
  <2> QED
      BY <2>1, <2>2, <2>3 DEF Bt!Closed, Bt!LinkLost, Bt!DescriptorAvailable, Bt!Report,
                              Bt!SetProtocolResponse
<1>4. ASSUME NEW s \in Bt!Used', Connected(s)'
      PROVE  Connected(s)
  <2>1. s \in Bt!Used /\ slots[s].cid # 0 /\ slots'[s].cid = slots[s].cid /\ slots'[s].addr = slots[s].addr
      BY <1>3, <1>4 DEF Connected
  <2>2. CASE UNCHANGED forgotten
      BY <1>4, <2>1, <2>2 DEF Connected
  <2>3. CASE Bt!LinkLost(c)
    <3>1. /\ conn[c].phase # "none" /\ forgotten' = forgotten \ {conn[c].addr}
          /\ slots' = Bt!Detached(c) \/ conn[c].phase \notin {"open", "closing"}
        BY <2>3 DEF Bt!LinkLost, Bt!LinkDropped
    <3>2. slots[s].addr # conn[c].addr
      <4> SUFFICES ASSUME slots[s].addr = conn[c].addr
                   PROVE  FALSE
          OBVIOUS
      <4>1. slots[s].cid = c /\ conn[c].phase \in {"open", "closing"}
          BY <2>1, SlotConnection DEF KeyInv, Alone, Bt!ClassicAssumption
      <4>2. s \in Bt!SlotOf(c) /\ s \in Bt!Slot
          BY <2>1, <4>1 DEF Bt!SlotOf, Bt!Used
      <4>3. slots'[s].cid = 0
          BY <3>1, <4>1, <4>2, DetachedSlots DEF KnownInv
      <4> QED
          BY <2>1, <4>3
    <3> QED
        BY <1>4, <2>1, <3>1, <3>2 DEF Connected
  <2> QED
      BY <2>2, <2>3 DEF Bt!Closed, Bt!DescriptorAvailable, Bt!Report, Bt!SetProtocolResponse
<1> QED
    BY <1>1, <1>2, <1>3, <1>4, KeysUntouched

\* A connection that opens has no host yet that could be picked
LEMMA OpenedKeys ==
    ASSUME Bt!ClassicAssumption, KnownInv, HostInv, HostInv', KeyInv, LinkKeys', NEW c \in Bt!Cid,
           Bt!Opened(c)
    PROVE  KeyInv'
<1>1. conn[c].phase = "opening" /\ UNCHANGED <<waiting, assignable, paired, pairKey, stackKey, forgotten>>
    BY DEF Bt!Opened, Bt!hostVars, Bt!keyVars
<1>2. Alone'
  <2>1. \A d \in Bt!Cid : conn'[d].addr = conn[d].addr
      BY <1>1 DEF Bt!Opened, KnownInv, ConnTypes, Bt!Conns, Bt!NoConn
  <2> QED
      BY <2>1, AloneStays DEF KeyInv
<1>3. CASE UNCHANGED slots
    BY <1>1, <1>2, <1>3, KeysStay
<1>4. CASE Bt!Used # Bt!Slot /\ slots' = [slots EXCEPT ![Bt!NewSlot] = Bt!SlotFor(c)]
  <2> DEFINE n == Bt!NewSlot
  <2>1. n \in Bt!Slot /\ n \notin Bt!Used
      BY <1>4, SlotFound DEF KnownInv
  <2>2. \A s \in Bt!Used : slots'[s] = slots[s]
      BY <1>4, <2>1 DEF KnownInv, ConnTypes, Bt!Used
  <2>3. KeysKept'
      BY <1>1, <2>2, PickedSlot DEF KeyInv, KeysKept, Bt!KeysKept
  <2> QED
      BY <1>1, <1>2, <2>3 DEF KeyInv, KeyTypes, KeysPaired
<1> QED
    BY <1>3, <1>4 DEF Bt!Opened

-----------------------------------------------------------------------------
\* Hosts that are registered save their pairings with BTstack's keys
LEMMA SavedKeys ==
    ASSUME Bt!ClassicAssumption, KnownInv, KeyInv, NEW addrs \in SUBSET Controllers, Bt!Saved(addrs),
           UNCHANGED stackKey
    PROVE  /\ KeyTypes' /\ KeysPaired' /\ paired \subseteq paired' /\ addrs \subseteq paired'
           /\ \A a \in Controllers : pairKey[a] = "good" => pairKey'[a] = "good"
           /\ \A a \in addrs : stackKey[a] = "good" => pairKey'[a] = "good"
<1>1. /\ paired' = paired \union addrs
      /\ \A a \in Controllers :
            pairKey'[a] = IF a \in addrs /\ pairKey[a] = "none" THEN stackKey[a] ELSE pairKey[a]
    BY DEF Bt!Saved
<1>2. KeyTypes'
    BY <1>1 DEF Bt!Saved, KeyInv, KeyTypes
<1>3. KeysPaired'
    BY <1>1 DEF KeyInv, KeysPaired
<1>4. \A a \in addrs : stackKey[a] = "good" => pairKey'[a] = "good"
  <2>1. \A a \in addrs : pairKey[a] \in {"none", "good", "stale"}
      BY DEF KeyInv, KeyTypes, Bt!Key
  <2> QED
      BY <1>1, <2>1 DEF KeyInv, KeysPaired
<1> QED
    BY <1>1, <1>2, <1>3, <1>4

\* Hosts that become pickable are those of slots whose controllers are saved
LEMMA PickedKeys ==
    ASSUME Bt!ClassicAssumption, KnownInv, HostInv, HostInv', KeyInv, LinkKeys',
           NEW addrs \in SUBSET Controllers, Bt!Saved(addrs),
           UNCHANGED <<conn, stackKey, forgotten>>, Bt!Used' \subseteq Bt!Used,
           \A s \in Bt!Used' : slots'[s].addr = slots[s].addr /\ slots'[s].cid = slots[s].cid,
           \A h \in assignable' :
               (\E g \in assignable : g[1] = h[1]) \/ slots[h[1]].addr \in addrs
    PROVE  KeyInv'
<1>1. Alone'
    BY DEF KeyInv, Alone
<1>2. \A s \in Bt!Used' : s \in Bt!Used /\ (Connected(s)' => Connected(s)) /\ slots'[s].addr = slots[s].addr
    BY DEF Connected
<1>3. \A h \in assignable' : h[1] \in Bt!Used'
  <2>1. \A h \in assignable' : \E s \in Bt!Used' : h = <<s, slots'[s].host>>
      BY DEF HostInv, HostsAreConnected, Bt!HostsAreConnected
  <2> QED
      BY <2>1
<1>4. KeysKept'
  <2> SUFFICES ASSUME NEW h \in assignable', Connected(h[1])'
               PROVE  /\ slots'[h[1]].addr \in paired'
                      /\ slots'[h[1]].addr \notin Keyless =>
                             pairKey'[slots'[h[1]].addr] = "good" /\ stackKey'[slots'[h[1]].addr] = "good"
      BY DEF KeysKept, Bt!KeysKept, Connected
  <2> PICK s : s = h[1]
      OBVIOUS
  <2>1. s \in Bt!Used /\ Connected(s) /\ slots'[s].addr = slots[s].addr
      BY <1>2, <1>3
  <2>2. /\ slots[s].addr \in Controllers
        /\ slots[s].addr \notin Keyless => stackKey[slots[s].addr] = "good"
      BY <2>1, SlotConnection, ConnectedKey DEF KeyInv, Connected
  <2>3. CASE \E g \in assignable : g[1] = s
    <3>1. /\ slots[s].addr \in paired
          /\ slots[s].addr \notin Keyless => pairKey[slots[s].addr] = "good"
        BY <2>1, <2>3 DEF KeyInv, KeysKept, Bt!KeysKept, Connected
    <3> QED
        BY <2>1, <2>2, <3>1, SavedKeys
  <2>4. CASE slots[s].addr \in addrs
      BY <2>1, <2>2, <2>4, SavedKeys
  <2> QED
      BY <2>3, <2>4
<1> QED
    BY <1>1, <1>4, SavedKeys DEF KeyInv

\* The addresses of hosts are those of controllers
LEMMA HostAddrs ==
    ASSUME KnownInv, NEW hosts, \A h \in hosts : h[1] \in Bt!Used
    PROVE  Bt!AddrsOf(hosts) \in SUBSET Controllers
           /\ \A h \in hosts : slots[h[1]].addr \in Bt!AddrsOf(hosts)
<1>1. \A s \in Bt!Used : slots[s].addr \in Controllers
    BY DEF KnownInv, ConnTypes, Bt!Used, Bt!Slots
<1> QED
    BY <1>1 DEF Bt!AddrsOf

LEMMA WaitingSlot == ASSUME HostInv, NEW h \in waiting PROVE h[1] \in Bt!Used
BY DEF HostInv, HostsAreConnected, Bt!HostsAreConnected

LEMMA RegisteredKeys ==
    ASSUME Bt!ClassicAssumption, KnownInv, HostInv, HostInv', KeyInv, LinkKeys',
           NEW hosts \in SUBSET waiting, Bt!Registered(hosts),
           UNCHANGED <<conn, slots, stackKey, forgotten>>
    PROVE  KeyInv'
<1> PICK addrs : addrs = Bt!AddrsOf(hosts)
    OBVIOUS
<1>1. /\ addrs \in SUBSET Controllers /\ Bt!Saved(addrs) /\ assignable' = assignable \union hosts
      /\ \A h \in hosts : slots[h[1]].addr \in addrs
    BY WaitingSlot, HostAddrs DEF Bt!Registered
<1>2. \A h \in assignable' : (\E g \in assignable : g[1] = h[1]) \/ slots[h[1]].addr \in addrs
    BY <1>1
<1> QED
    BY <1>1, <1>2, PickedKeys DEF Bt!Used

\* A pass of btc_tick
LEMMA TickedKeys ==
    ASSUME Bt!ClassicAssumption, KnownInv, HostInv, HostInv', KeyInv, LinkKeys',
           NEW turns \in [Bt!Used -> Bt!Turns], Bt!Ticked(turns),
           UNCHANGED <<conn, stackKey, forgotten>>
    PROVE  KeyInv'
<1> PICK new : new = (UNION {Bt!New(s, turns[s]) : s \in Bt!Used}) \ assignable
    OBVIOUS
<1> PICK addrs : addrs = Bt!AddrsOf(new)
    OBVIOUS
<1>1. \A s \in Bt!Used : turns[s] \in Bt!Turns /\ s \in Bt!Slot
    BY DEF Bt!Used
<1>2. /\ slots' = [s \in Bt!Slot |-> IF s \in Bt!Used THEN Bt!AfterTick(s, turns[s]) ELSE Free]
      /\ assignable' \subseteq assignable \union new /\ Bt!Saved(addrs)
    BY DEF Bt!Ticked
<1>3. \A s \in Bt!Used : IF slots[s].action = "disconnected" THEN slots'[s] = Free
                         ELSE slots'[s].addr = slots[s].addr /\ slots'[s].cid = slots[s].cid
    BY <1>1, <1>2, AfterTickOf
<1>4. /\ Bt!Used' \subseteq Bt!Used
      /\ \A s \in Bt!Used' : slots'[s].addr = slots[s].addr /\ slots'[s].cid = slots[s].cid
    BY <1>2, <1>3 DEF Bt!Used
<1>5. \A h \in new : h[1] \in Bt!Used
    BY <1>1, TickedHost
<1>6. addrs \in SUBSET Controllers /\ \A h \in new : slots[h[1]].addr \in addrs
    BY <1>5, HostAddrs
<1>7. \A h \in assignable' : (\E g \in assignable : g[1] = h[1]) \/ slots[h[1]].addr \in addrs
    BY <1>2, <1>6
<1> QED
    BY <1>2, <1>4, <1>6, <1>7, PickedKeys

LEMMA LoopKeys ==
    ASSUME Bt!ClassicAssumption, KnownInv, HostInv, HostInv', KeyInv, LinkKeys',
           Bt!Loop \/ \E c \in Bt!Cid : Bt!FeatureReport(c)
    PROVE  KeyInv'
<1>1. UNCHANGED <<conn, stackKey, forgotten>>
    BY DEF Bt!Loop, Bt!Tick, Bt!UpdateHosts, Bt!FeatureReport, Bt!stackVars
<1>2. CASE Bt!Tick
    BY <1>1, <1>2, TickedKeys DEF Bt!Tick
<1>3. CASE Bt!UpdateHosts
    BY <1>1, <1>3, RegisteredKeys DEF Bt!UpdateHosts
<1>4. CASE \E c \in Bt!Cid : Bt!FeatureReport(c)
  <2>1. UNCHANGED slots
      BY <1>4 DEF Bt!FeatureReport
  <2>2. CASE \E h \in waiting : Bt!Registered({h})
      BY <1>1, <2>1, <2>2, RegisteredKeys
  <2>3. CASE \E h \in assignable : Bt!Saved({slots[h[1]].addr}) /\ UNCHANGED assignable
    <3>1. PICK h \in assignable : Bt!Saved({slots[h[1]].addr}) /\ UNCHANGED assignable
        BY <2>3
    <3>2. {slots[h[1]].addr} \in SUBSET Controllers
        BY PickedSlot DEF KnownInv, ConnTypes, Bt!Used, Bt!Slots
    <3> QED
        BY <1>1, <2>1, <3>1, <3>2, PickedKeys DEF Bt!Used
  <2> QED
    <3> PICK c \in Bt!Cid : Bt!FeatureReport(c)
        BY <1>4
    <3>1. PICK s \in Bt!SlotOf(c) :
              LET host == <<s, slots[s].host>>
              IN  \/ host \in waiting /\ Bt!Registered({host})
                  \/ /\ host \in assignable /\ Bt!Saved({slots[s].addr})
                     /\ UNCHANGED <<waiting, assignable>>
        BY DEF Bt!FeatureReport
    <3> PICK host : host = <<s, slots[s].host>>
        OBVIOUS
    <3> QED
        BY <2>2, <2>3, <3>1
<1> QED
    BY <1>2, <1>3, <1>4 DEF Bt!Loop

\* A link that goes had no connection any more
LEMMA LinkDownKeys ==
    ASSUME Bt!ClassicAssumption, KnownInv, HostInv, KeyInv, LinkKeys', NEW a \in Controllers, Bt!LinkDown(a)
    PROVE  KeyInv'
<1>1. /\ UNCHANGED <<conn, paired, pairKey, stackKey, slots, waiting, assignable>>
      /\ forgotten' = forgotten \ {a} /\ Bt!ConnOf(a) = {}
    BY DEF Bt!LinkDown, Bt!LinkDropped, Bt!hostVars, Bt!keyVars
<1>2. \A s \in Bt!Used : Connected(s)' => Connected(s)
    BY <1>1, SetUpUnconnected DEF KeyInv, Connected
<1> QED
    BY <1>1, <1>2, SlotsStay, KeysUntouched DEF Bt!Used, KeyInv, Alone

LEMMA StepKeepsKeys ==
    ASSUME Bt!ClassicAssumption, KnownInv, HostInv, KeyInv, [Bt!Next]_(Bt!vars)
    PROVE  KeyInv'
<1>1. HostInv' /\ LinkKeys'
    BY StepKeepsHosts, StepKeepsLinks DEF KeyInv
<1>2. CASE Bt!People \/ Bt!Loop \/ \E c \in Bt!Cid : Bt!FeatureReport(c)
    BY <1>1, <1>2, PeopleKeys, LoopKeys
<1>3. CASE \E c \in Bt!Cid :
              \/ Bt!Opened(c) \/ Bt!Closed(c) \/ Bt!LinkLost(c)
              \/ Bt!DescriptorAvailable(c) \/ Bt!Report(c) \/ Bt!SetProtocolResponse(c)
    BY <1>1, <1>3, OpenKeys, OpenedKeys
<1>4. CASE \/ \E a \in Controllers : Bt!KeyStored(a) \/ Bt!AuthFails(a)
           \/ \E c \in Bt!Cid, refused \in BOOLEAN : Bt!OpenFailed(c, refused)
  <2>1. \A c \in Bt!Cid : \A refused \in BOOLEAN : Bt!OpenFailed(c, refused) => conn[c].addr \in Controllers
      BY DEF Bt!OpenFailed, KnownInv, ConnTypes, Bt!Conns, Bt!NoConn
  <2> QED
      BY <1>1, <1>4, <2>1, SetUpKeys
<1>5. CASE \/ Bt!InquiryComplete \/ Bt!SdpComplete \/ Bt!SyncReconnect
           \/ \E a \in Controllers : \/ \E known \in BOOLEAN : Bt!NameComplete(a, known)
                                     \/ Bt!IncomingConnection(a)
    BY <1>1, <1>5, SearchKeys, AttemptKeys
<1>6. CASE \/ Bt!ScanTimeout \/ UNCHANGED Bt!vars
           \/ \E a \in Controllers : \/ \E state \in {"request", "fetched"} : Bt!InquiryResult(a, state)
                                     \/ Bt!LinkUp(a) \/ Bt!Authenticates(a)
  <2>1. UNCHANGED <<conn, paired, pairKey, stackKey, forgotten, slots, waiting, assignable>>
      BY <1>6 DEF Bt!ScanTimeout, Bt!InquiryResult, Bt!LinkUp, Bt!Authenticates, Bt!vars, Bt!stackVars,
                  Bt!hostVars, Bt!keyVars
  <2> QED
      BY <1>1, <2>1, KeysStay DEF KeyInv, Alone
<1>7. CASE \E a \in Controllers : Bt!LinkDown(a)
    BY <1>1, <1>7, LinkDownKeys
<1> QED
    BY <1>2, <1>3, <1>4, <1>5, <1>6, <1>7 DEF Bt!Next, Bt!Events

LEMMA KeysAtFirst == ASSUME Bt!ClassicAssumption, Bt!Init PROVE KeyInv
<1>1. Bt!Used = {} /\ \A c \in Bt!Cid : conn[c].addr = Nobody /\ conn[c].phase = "none"
    BY DEF Bt!Init, Bt!Used, Bt!NoConn
<1> QED
    BY <1>1 DEF Bt!Init, KeyInv, KeyTypes, Alone, KeysPaired, LinkKeys, KeysKept, Bt!KeysKept,
                Bt!Key, Bt!ClassicAssumption

(* A connected controller that can be picked has its pairing, with the key  *)
(* that BTstack authenticates it with, whatever is found, connected to,     *)
(* forgotten or put into pairing mode meanwhile (bt_host_save_pairing,      *)
(* store_tag and bt_forget_pairing)                                         *)
THEOREM KeysAlwaysKept == Bt!Spec => []KeysKept
<1>1. Bt!Init => KnownInv /\ HostInv /\ KeyInv
    BY KnownAtFirst, KeysAtFirst, ControllersAssumption
    DEF Bt!Init, HostInv, HostsAreConnected, Bt!HostsAreConnected, Bt!Used
<1>2. KnownInv /\ HostInv /\ KeyInv /\ [Bt!Next]_(Bt!vars) => KnownInv' /\ HostInv' /\ KeyInv'
    BY StepKeepsKnown, StepKeepsHosts, StepKeepsKeys, ControllersAssumption
<1>3. KeyInv => KeysKept
    BY DEF KeyInv
<1> QED
    BY <1>1, <1>2, <1>3, PTL DEF Bt!Spec

-----------------------------------------------------------------------------
(* The types of both *)

SearchTypes ==
    /\ inquiry \in {"idle", "running", "stopping"}
    /\ found \in [Controllers -> {"none", "request", "inquired", "fetched"}]
    /\ scanPhase \in {"idle", "giac", "liac"}
    /\ searching \in BOOLEAN /\ scanTimer \in BOOLEAN /\ retry \in BOOLEAN
LinkTypes ==
    /\ up \subseteq Controllers /\ naming \subseteq Controllers /\ links \subseteq Controllers
    /\ bonded \subseteq Controllers /\ forgotten \subseteq Controllers
RestTypes == SearchTypes /\ LinkTypes /\ btLeft \in 0..BtMoves

LEMMA ClassicTyped ==
    ASSUME KnownInv, HostInv, KeyInv, RestTypes
    PROVE  Bt!TypeOK
<1>1. waiting \subseteq Bt!Host /\ assignable \subseteq Bt!Host
  <2>1. \A s \in Bt!Used : s \in Bt!Slot /\ (slots[s].host # 0 => slots[s].host \in {1, 2})
      BY DEF KnownInv, ConnTypes, Bt!Used, Bt!Slots
  <2>2. \A h \in waiting \union assignable : \E s \in Bt!Used : h = <<s, slots[s].host>> /\ slots[s].host # 0
      BY DEF HostInv, HostsAreConnected, Bt!HostsAreConnected
  <2> QED
      BY <2>1, <2>2 DEF Bt!Host
<1> QED
    BY <1>1 DEF Bt!TypeOK, KnownInv, ConnTypes, KeyInv, KeyTypes, LinkKeys, RestTypes, SearchTypes, LinkTypes

LEMMA SearchTypesStay ==
    ASSUME Bt!ClassicAssumption, RestTypes, [Bt!Next]_(Bt!vars)
    PROVE  SearchTypes'
<1> USE DEF RestTypes, SearchTypes
<1>1. CASE Bt!InquiryComplete \/ \E a \in Controllers, known \in BOOLEAN : Bt!NameComplete(a, known)
  <2>1. found' \in [Controllers -> {"none", "request", "inquired", "fetched"}]
    <3>1. CASE Bt!InquiryComplete
        BY <3>1 DEF Bt!InquiryComplete, Bt!NothingFound, Bt!StartInquiry
    <3>2. CASE \E a \in Controllers, known \in BOOLEAN : Bt!NameComplete(a, known)
        BY <3>2 DEF Bt!NameComplete
    <3> QED
        BY <1>1, <3>1, <3>2
  <2>2. \A a, i, active : /\ Bt!ConnectDiscovered(a, i, active)
                         /\ i \in {"idle", "running", "stopping"} /\ active \in {FALSE, searching} =>
            /\ inquiry' \in {"idle", "running", "stopping"} /\ scanPhase' \in {"idle", scanPhase}
            /\ searching' \in {FALSE, searching} /\ scanTimer' \in {FALSE, scanTimer} /\ retry' \in {TRUE, retry}
      BY DEF Bt!ConnectDiscovered, Bt!StopDiscovery
  <2>3. CASE \E a \in Controllers, i \in {"idle", inquiry}, active \in {FALSE, searching} :
                 Bt!ConnectDiscovered(a, i, active)
      BY <2>1, <2>2, <2>3
  <2>4. CASE UNCHANGED <<searching, scanPhase, scanTimer, retry, inquiry>>
      BY <2>1, <2>4
  <2>5. CASE searching' = FALSE /\ inquiry' = "idle" /\ UNCHANGED <<scanPhase, scanTimer, retry>>
      BY <2>1, <2>5
  <2>6. CASE Bt!NothingFound
      BY <2>1, <2>6 DEF Bt!NothingFound, Bt!StartInquiry, Bt!StopDiscovery
  <2> QED
      BY <1>1, <2>3, <2>4, <2>5, <2>6 DEF Bt!InquiryComplete, Bt!NameComplete
<1>2. CASE Bt!StartDiscovery \/ Bt!ScanTimeout
    BY <1>2 DEF Bt!StartDiscovery, Bt!ScanTimeout, Bt!StartInquiry, Bt!StopDiscovery
<1>3. CASE \E a \in Controllers, state \in {"request", "fetched"} : Bt!InquiryResult(a, state)
    BY <1>3 DEF Bt!InquiryResult, Bt!stackVars
<1>4. CASE UNCHANGED <<inquiry, found, scanPhase, searching, scanTimer>> /\ retry' \in {TRUE, FALSE, retry}
    BY <1>4
<1>5. CASE \/ Bt!SdpComplete \/ Bt!SyncReconnect \/ Bt!Loop \/ UNCHANGED Bt!vars
           \/ \E a \in Controllers : Bt!LinkUp(a) \/ Bt!IncomingConnection(a)
                                     \/ Bt!Authenticates(a) \/ Bt!KeyStored(a) \/ Bt!AuthFails(a)
                                     \/ Bt!PowerOff(a) \/ Bt!Forget(a) \/ Bt!EnterPairing(a)
    BY <1>4, <1>5 DEF Bt!SdpComplete, Bt!SyncReconnect, Bt!Loop, Bt!Tick, Bt!UpdateHosts, Bt!vars,
         Bt!LinkUp, Bt!IncomingConnection, Bt!Authenticates, Bt!KeyStored, Bt!AuthFails,
         Bt!PowerOff, Bt!Forget, Bt!EnterPairing,
         Bt!stackVars, Bt!searchVars
<1>6. CASE \E a \in Controllers : Bt!LinkDown(a)
  <2>1. retry' \in BOOLEAN
      BY <1>6 DEF Bt!LinkDown
  <2> QED
      BY <1>6, <2>1 DEF Bt!LinkDown, Bt!searchVars
<1>7. ASSUME NEW c \in Bt!Cid,
             \/ \E refused \in BOOLEAN : Bt!OpenFailed(c, refused)
             \/ Bt!Opened(c) \/ Bt!Closed(c) \/ Bt!LinkLost(c) \/ Bt!DescriptorAvailable(c)
             \/ Bt!Report(c) \/ Bt!SetProtocolResponse(c) \/ Bt!FeatureReport(c)
      PROVE  SearchTypes'
    BY <1>4, <1>7 DEF Bt!OpenFailed, Bt!Opened, Bt!Closed, Bt!LinkLost,
         Bt!DescriptorAvailable, Bt!Report, Bt!SetProtocolResponse, Bt!FeatureReport,
         Bt!stackVars, Bt!searchVars
<1> QED
    BY <1>1, <1>2, <1>3, <1>5, <1>6, <1>7 DEF Bt!Next, Bt!Events, Bt!People

LEMMA LinkTypesStay ==
    ASSUME Bt!ClassicAssumption, KnownInv, RestTypes, [Bt!Next]_(Bt!vars)
    PROVE  LinkTypes' /\ btLeft' \in 0..BtMoves
<1> USE DEF RestTypes, LinkTypes
<1>1. btLeft' \in 0..BtMoves
  <2>1. btLeft' = btLeft \/ Bt!Move
      BY DEF Bt!Next, Bt!Events, Bt!Loop, Bt!People, Bt!vars, Bt!StartDiscovery, Bt!ScanTimeout,
         Bt!InquiryResult, Bt!InquiryComplete, Bt!NameComplete, Bt!SdpComplete, Bt!SyncReconnect,
         Bt!LinkUp, Bt!LinkDown, Bt!IncomingConnection, Bt!Authenticates, Bt!KeyStored, Bt!AuthFails, Bt!OpenFailed,
         Bt!Opened, Bt!Closed, Bt!LinkLost, Bt!DescriptorAvailable, Bt!Report,
         Bt!SetProtocolResponse, Bt!FeatureReport, Bt!Tick, Bt!UpdateHosts, Bt!PowerOff, Bt!Forget,
         Bt!EnterPairing
  <2> QED
      BY <2>1 DEF Bt!Move, Bt!ClassicAssumption
<1>2. forgotten' \subseteq Controllers /\ naming' \subseteq Controllers
  <2>1. \A a \in Controllers : Bt!KeyDropped(a) => forgotten' \subseteq Controllers
      BY DEF Bt!KeyDropped
  <2>2. CASE \E a \in Controllers, known \in BOOLEAN : Bt!NameComplete(a, known)
    <3>1. PICK a \in Controllers, known \in BOOLEAN : Bt!NameComplete(a, known)
        BY <2>2
    <3>2. forgotten' = forgotten \/ Bt!KeyDropped(a)
        BY <3>1 DEF Bt!NameComplete, Bt!ConnectDiscovered
    <3>3. naming' \subseteq Controllers
        BY <3>1 DEF Bt!NameComplete
    <3> QED
        BY <2>1, <3>2, <3>3
  <2>3. CASE Bt!InquiryComplete
    <3>1. forgotten' = forgotten \/ \E a \in Controllers : Bt!KeyDropped(a)
        BY <2>3 DEF Bt!InquiryComplete, Bt!ConnectDiscovered
    <3>2. naming' \subseteq Controllers
        BY <2>3 DEF Bt!InquiryComplete
    <3> QED
        BY <2>1, <3>1, <3>2
  <2>4. CASE \E a \in Controllers : Bt!Forget(a)
      BY <2>1, <2>4 DEF Bt!Forget
  <2>5. CASE \E c \in Bt!Cid, refused \in BOOLEAN : Bt!OpenFailed(c, refused)
    <3>1. \A c \in Bt!Cid : conn[c].phase \in {"opening", "failing"} => conn[c].addr \in Controllers
        BY DEF KnownInv, ConnTypes, Bt!Conns, Bt!NoConn
    <3>2. UNCHANGED naming /\ (UNCHANGED forgotten \/ \E a \in Controllers : Bt!KeyDropped(a))
      <4> PICK c \in Bt!Cid, refused \in BOOLEAN : Bt!OpenFailed(c, refused)
          BY <2>5
      <4>1. /\ naming' = naming /\ conn[c].phase \in {"opening", "failing"}
            /\ UNCHANGED forgotten \/ Bt!KeyDropped(conn[c].addr)
          BY DEF Bt!OpenFailed
      <4> QED
          BY <3>1, <4>1
    <3> QED
        BY <2>1, <3>2
  <2>6. CASE \/ \E a \in Controllers : Bt!LinkDown(a)
             \/ \E c \in Bt!Cid : Bt!LinkLost(c)
      BY <2>6 DEF Bt!LinkDown, Bt!LinkLost, Bt!LinkDropped
  <2>7. \/ UNCHANGED <<forgotten, naming>> \/ Bt!InquiryComplete
        \/ \E a \in Controllers : \/ Bt!Forget(a) \/ Bt!LinkDown(a)
                                  \/ \E known \in BOOLEAN : Bt!NameComplete(a, known)
        \/ \E c \in Bt!Cid : Bt!LinkLost(c) \/ \E refused \in BOOLEAN : Bt!OpenFailed(c, refused)
      BY DEF Bt!Next, Bt!Events, Bt!Loop, Bt!People, Bt!vars, Bt!stackVars, Bt!StartDiscovery,
         Bt!ScanTimeout, Bt!InquiryResult, Bt!SdpComplete, Bt!SyncReconnect,
         Bt!LinkUp, Bt!IncomingConnection, Bt!Authenticates, Bt!KeyStored, Bt!AuthFails,
         Bt!Opened, Bt!Closed, Bt!DescriptorAvailable, Bt!Report,
         Bt!SetProtocolResponse, Bt!FeatureReport, Bt!Tick, Bt!UpdateHosts, Bt!PowerOff,
         Bt!EnterPairing
  <2> QED
      BY <2>2, <2>3, <2>4, <2>5, <2>6, <2>7
<1>3. up' \subseteq Controllers /\ bonded' \subseteq Controllers /\ links' \subseteq Controllers
  <2>1. CASE \E a \in Controllers : \/ Bt!LinkUp(a) \/ Bt!LinkDown(a) \/ Bt!Authenticates(a)
                                     \/ Bt!KeyStored(a) \/ Bt!EnterPairing(a)
      BY <2>1 DEF Bt!LinkUp, Bt!LinkDown, Bt!LinkDropped, Bt!Authenticates, Bt!KeyStored, Bt!EnterPairing
  <2>2. CASE \E c \in Bt!Cid : Bt!LinkLost(c)
      BY <2>2 DEF Bt!LinkLost, Bt!LinkDropped
  <2>3. \/ UNCHANGED <<up, bonded, links>>
        \/ \E a \in Controllers : \/ Bt!LinkUp(a) \/ Bt!LinkDown(a) \/ Bt!Authenticates(a)
                                  \/ Bt!KeyStored(a) \/ Bt!EnterPairing(a)
        \/ \E c \in Bt!Cid : Bt!LinkLost(c)
      BY DEF Bt!Next, Bt!Events, Bt!Loop, Bt!People, Bt!vars, Bt!stackVars, Bt!linkVars,
         Bt!StartDiscovery, Bt!ScanTimeout, Bt!InquiryResult, Bt!InquiryComplete, Bt!NameComplete,
         Bt!SdpComplete, Bt!SyncReconnect, Bt!IncomingConnection, Bt!AuthFails, Bt!OpenFailed,
         Bt!Opened, Bt!Closed, Bt!DescriptorAvailable, Bt!Report,
         Bt!SetProtocolResponse, Bt!FeatureReport, Bt!Tick, Bt!UpdateHosts, Bt!PowerOff, Bt!Forget
  <2> QED
      BY <2>1, <2>2, <2>3
<1> QED
    BY <1>1, <1>2, <1>3

LEMMA RestAtFirst == ASSUME Bt!ClassicAssumption, Bt!Init PROVE RestTypes
<1>1. SearchTypes /\ LinkTypes
    BY DEF Bt!Init, Bt!ClassicAssumption, SearchTypes, LinkTypes
<1>2. btLeft \in 0..BtMoves
    BY DEF Bt!Init, Bt!ClassicAssumption
<1> QED
    BY <1>1, <1>2 DEF RestTypes

\* The authentication's, its flags apart
AuthFlags ==
    /\ opened \in BOOLEAN /\ poweredOn \in BOOLEAN /\ seen \in BOOLEAN /\ completed \in BOOLEAN
    /\ packetSeen \in BOOLEAN /\ reload \in BOOLEAN /\ restart \in BOOLEAN
    /\ changed \in BOOLEAN /\ lost \in BOOLEAN
AuthPlaces ==
    /\ plugged \in [Hosts -> {"gone", "linking", "identified"}]
    /\ ready \subseteq Chips /\ registered \subseteq Providers
    /\ handler \in Providers \union {None}
    /\ live \in Gamepads \union {None} /\ responder \in Gamepads \union {None}
    /\ driver \in {"announce", "auth", "done"}
    /\ pc \in {"tud", "tuh", "reload", "devices", "process"}

LEMMA AuthFlagsStay == ASSUME AuthFlags, [Next]_vars PROVE AuthFlags'
<1> USE DEF AuthFlags
<1>1. CASE Open
    BY <1>1, Zenon DEF Open, managerVars
<1>2. CASE Start
    BY <1>2, Zenon DEF Start, managerVars
<1>3. CASE Auth
    BY <1>3, Zenon DEF Auth, managerVars
<1>4. CASE Process
  <2>1. /\ seen' \in BOOLEAN /\ reload' \in BOOLEAN /\ restart' \in BOOLEAN /\ lost' \in BOOLEAN
        /\ completed' \in BOOLEAN
    <3>1. CASE NoticeProvider /\ (completed' = TRUE \/ completed' = completed)
        BY <3>1, Zenon DEF NoticeProvider
    <3>2. CASE UNCHANGED <<seen, reload, restart, lost, completed>>
        BY <3>2, Zenon
    <3> QED
        BY <1>4, <3>1, <3>2, Zenon DEF Process
  <2> QED
      BY <1>4, <2>1, Zenon DEF Process
<1>5. CASE Loading
  <2>1. PICK new \in Gamepads \union {None} : Load(new)
      BY <1>5 DEF Loading
  <2>2. /\ reload' = FALSE /\ restart' = FALSE /\ opened' \in BOOLEAN /\ lost' \in BOOLEAN
        /\ UNCHANGED <<changed, poweredOn, completed, packetSeen>>
      BY <2>1, Zenon DEF Load
  <2>3. seen' \in BOOLEAN
    <3>1. seen' = seen \/ seen' = (handler' # None)
        BY <2>1, Zenon DEF Load
    <3> QED
        BY <3>1, Zenon
  <2> QED
      BY <2>2, <2>3, Zenon
<1>6. CASE UpdateDevices
    BY <1>6, Zenon DEF UpdateDevices, gamepadVars
<1>7. CASE UsbHost \/ RequestReload \/ \E c \in Chips : ChipReady(c)
  <2>1. ASSUME NEW h \in Hosts, Plug(h) PROVE AuthFlags'
      BY <2>1, Zenon DEF Plug, gamepadVars, managerVars
  <2>2. ASSUME NEW h \in Hosts, Identify(h) \/ Unplug(h) PROVE AuthFlags'
      BY <2>2, Zenon DEF Identify, Unplug, gamepadVars
  <2>3. ASSUME NEW c \in Chips, ChipReady(c) PROVE AuthFlags'
      BY <2>3, Zenon DEF ChipReady, gamepadVars, managerVars
  <2>4. CASE RequestReload
      BY <2>4, Zenon DEF RequestReload, gamepadVars
  <2> QED
      BY <1>7, <2>1, <2>2, <2>3, <2>4, Zenon DEF UsbHost
<1>8. CASE Serve \/ NotDue \/ Writing \/ Reset \/ UNCHANGED vars
    BY <1>8, Zenon DEF Serve, NotDue, Writing, Reset, vars, gamepadVars, managerVars
<1> QED
    BY <1>1, <1>2, <1>3, <1>4, <1>5, <1>6, <1>7, <1>8 DEF Next, Console, Loop

LEMMA AuthPlacesStay == ASSUME AuthPlaces, [Next]_vars PROVE AuthPlaces'
<1> USE DEF AuthPlaces, Providers
<1>1. CASE Console
    BY <1>1 DEF Console, Open, Start, Auth, Reset, providerVars
<1>2. CASE UsbHost
  <2>1. ASSUME NEW h \in Hosts, Plug(h) PROVE AuthPlaces'
      BY <2>1 DEF Plug, gamepadVars
  <2>2. ASSUME NEW h \in Hosts, Identify(h) PROVE AuthPlaces'
      BY <2>2 DEF Identify, Claim, gamepadVars
  <2>3. ASSUME NEW h \in Hosts, Unplug(h) PROVE AuthPlaces'
      BY <2>3 DEF Unplug, Release, gamepadVars
  <2> QED
      BY <1>2, <2>1, <2>2, <2>3 DEF UsbHost
<1>3. CASE Loading
    BY <1>3 DEF Loading, Load, Release, Replies
<1>4. CASE UpdateDevices
    BY <1>4 DEF UpdateDevices, Claim, gamepadVars
<1>5. CASE Process
    BY <1>5 DEF Process, providerVars
<1>6. CASE RequestReload \/ Serve \/ NotDue \/ Writing \/ UNCHANGED vars
    BY <1>6 DEF RequestReload, Serve, NotDue, Writing, vars, providerVars, gamepadVars
<1>7. ASSUME NEW c \in Chips, ChipReady(c) PROVE AuthPlaces'
    BY <1>7 DEF ChipReady, gamepadVars
<1> QED
    BY <1>1, <1>2, <1>3, <1>4, <1>5, <1>6, <1>7 DEF Next, Loop

LEMMA AuthTypesStay == ASSUME TypeOK, [Next]_vars PROVE TypeOK'
<1>1. left' \in 0..Moves
  <2>1. left' = left \/ Move
      BY DEF Next, Console, Open, Start, Auth, Reset, UsbHost, Plug, Identify, Unplug, RequestReload,
             ChipReady, Loop, Serve, NotDue, Writing, Loading, Load, UpdateDevices, Process, vars
  <2> QED
      BY <2>1, AuthAssumption DEF Move, TypeOK
<1>2. AuthFlags' /\ AuthPlaces'
    BY AuthFlagsStay, AuthPlacesStay DEF TypeOK, AuthFlags, AuthPlaces
<1> QED
    BY <1>1, <1>2 DEF TypeOK, AuthFlags, AuthPlaces

(* The variables of both keep their types, those of BTstack's connections,   *)
(* the hosts' lists and the authentication's owners among them               *)
THEOREM ControllersTyped == PartsSafe => []TypesOK
<1> DEFINE AllInv == TypeOK /\ KnownInv /\ HostInv /\ KeyInv /\ RestTypes
<1> USE ControllersAssumption DEF ControllersAssumption
<1>1. PartsInit => AllInv
  <2>1. Init => TypeOK
    <3> SUFFICES ASSUME Init
                 PROVE  TypeOK
        OBVIOUS
    <3>1. AuthPlaces
        BY DEF Init, AuthPlaces, Gamepads
    <3>2. AuthFlags
        BY DEF Init, AuthFlags
    <3>3. left \in 0..Moves
        BY AuthAssumption DEF Init
    <3> QED
        BY <3>1, <3>2, <3>3 DEF TypeOK, AuthFlags, AuthPlaces
  <2> QED
      BY <2>1, KnownAtFirst, KeysAtFirst, RestAtFirst
      DEF PartsInit, Bt!Init, HostInv, HostsAreConnected, Bt!HostsAreConnected, Bt!Used
<1>2. AllInv /\ [PartsNext]_<<part, vars, btVars>> => AllInv'
  <2> SUFFICES ASSUME AllInv, [PartsNext]_<<part, vars, btVars>>
               PROVE  AllInv'
      OBVIOUS
  <2>1. [Next]_vars /\ [Bt!Next]_(Bt!vars)
      BY DEF PartsNext, btVars, Bt!vars, Bt!stackVars, Bt!linkVars, Bt!searchVars, Bt!hostVars, Bt!keyVars
  <2>2. TypeOK' /\ KnownInv' /\ HostInv' /\ KeyInv'
      BY <2>1, AuthTypesStay, StepKeepsKnown, StepKeepsHosts, StepKeepsKeys
  <2>3. RestTypes'
      BY <2>1, SearchTypesStay, LinkTypesStay DEF RestTypes
  <2> QED
      BY <2>2, <2>3
<1>3. AllInv => TypesOK
    BY ClassicTyped DEF TypesOK
<1> QED
    BY <1>1, <1>2, <1>3, PTL DEF PartsSafe

-----------------------------------------------------------------------------
(***************************************************************************)
(* What is waited for is on its way: the safe halves of WakeEnds and        *)
(* AuthRestartsIfNoticed.  That timers fire and the loop comes round takes  *)
(* fairness, and is the run's.                                              *)
(***************************************************************************)

\* Discovery and the timer that pages controllers: one of them is always there to
\* go on with what was put off for the other
PageInv ==
    /\ wake # Nobody => retry \/ scanTimer
    /\ searching => scanTimer
    /\ scanPhase # "idle" <=> scanTimer

(* A Switch controller that dropped its link has the timer set that pages it, *)
(* or that of the discovery that stopped it; and what the page is put off    *)
(* for ends: a search with discovery's timer, an attempt with BTstack's word *)
PageComes ==
    wake # Nobody =>
        /\ retry \/ scanTimer
        /\ searching => scanTimer
        /\ \A c \in Bt!Cid : pending[c] # Nobody => conn[c].phase \in {"opening", "failing", "closing"}

LEMMA PageKeeps ==
    ASSUME RestTypes, PageInv, [Bt!Next]_(Bt!vars)
    PROVE  PageInv'
<1> USE DEF PageInv
<1>1. ASSUME NEW i, Bt!StopDiscovery(i)
      PROVE  PageInv'
    BY <1>1 DEF Bt!StopDiscovery
<1>2. CASE UNCHANGED <<wake, retry, scanTimer, scanPhase>> /\ searching' \in {FALSE, searching}
  <2>1. searching' => searching
      BY <1>2, Zenon
  <2> QED
      BY <1>2, <2>1
<1>3. CASE retry' = TRUE /\ UNCHANGED <<searching, scanTimer, scanPhase>>
    BY <1>3
<1>4. CASE Bt!InquiryComplete \/ \E a \in Controllers, known \in BOOLEAN : Bt!NameComplete(a, known)
  <2>1. wake' = wake
      BY <1>4 DEF Bt!InquiryComplete, Bt!NameComplete
  <2>2. CASE \E a \in Controllers, i \in {"idle", inquiry}, active \in {FALSE, searching} :
                 Bt!ConnectDiscovered(a, i, active)
      BY <1>1, <1>2, <2>1, <2>2 DEF Bt!ConnectDiscovered
  <2>3. CASE UNCHANGED <<scanPhase, scanTimer, retry>> /\ searching' \in {FALSE, searching}
      BY <1>2, <2>1, <2>3
  <2>4. CASE Bt!NothingFound
    <3>1. CASE scanPhase = "giac" /\ scanPhase' = "liac" /\ UNCHANGED scanTimer
        BY <2>1, <3>1
    <3>2. CASE scanPhase = "liac" /\ Bt!StopDiscovery("idle")
        BY <1>1, <3>2
    <3>3. CASE searching' = FALSE /\ UNCHANGED <<scanPhase, scanTimer, retry>>
        BY <2>3, <3>3
    <3> QED
        BY <2>4, <3>1, <3>2, <3>3 DEF Bt!NothingFound
  <2> QED
      BY <1>4, <2>2, <2>3, <2>4 DEF Bt!InquiryComplete, Bt!NameComplete
<1>5. CASE Bt!StartDiscovery \/ Bt!ScanTimeout
  <2>1. CASE Bt!StartDiscovery
      BY <2>1 DEF Bt!StartDiscovery, Bt!StartInquiry
  <2>2. CASE Bt!ScanTimeout
      BY <1>1, <2>2 DEF Bt!ScanTimeout
  <2> QED
      BY <1>5, <2>1, <2>2
<1>6. CASE Bt!SyncReconnect
  <2>1. wake' = Nobody \/ UNCHANGED <<wake, retry>>
      BY <1>6 DEF Bt!SyncReconnect
  <2> QED
      BY <1>6, <2>1 DEF Bt!SyncReconnect, Bt!searchVars
<1>7. ASSUME NEW a \in Controllers, Bt!LinkDown(a)
      PROVE  PageInv'
  <2>1. wake' = wake \/ retry'
      BY <1>7, Zenon DEF Bt!LinkDown
  <2>2. retry => retry'
      BY <1>7, Zenon DEF Bt!LinkDown
  <2>3. UNCHANGED <<searching, scanTimer, scanPhase>>
      BY <1>7 DEF Bt!LinkDown, Bt!searchVars
  <2> QED
      BY <2>1, <2>2, <2>3
<1>8. CASE \/ Bt!SdpComplete \/ Bt!Loop \/ UNCHANGED Bt!vars
           \/ \E a \in Controllers, state \in {"request", "fetched"} : Bt!InquiryResult(a, state)
           \/ \E a \in Controllers : Bt!LinkUp(a) \/ Bt!IncomingConnection(a)
                                     \/ Bt!Authenticates(a) \/ Bt!KeyStored(a) \/ Bt!AuthFails(a)
                                     \/ Bt!PowerOff(a) \/ Bt!Forget(a) \/ Bt!EnterPairing(a)
  <2>1. UNCHANGED <<wake, retry, scanTimer, scanPhase, searching>>
      BY <1>8 DEF Bt!SdpComplete, Bt!Loop, Bt!Tick, Bt!UpdateHosts, Bt!vars, Bt!InquiryResult, Bt!LinkUp,
           Bt!IncomingConnection, Bt!Authenticates, Bt!KeyStored, Bt!AuthFails, Bt!PowerOff, Bt!Forget,
           Bt!EnterPairing, Bt!stackVars, Bt!searchVars
  <2> QED
      BY <1>2, <2>1
<1>9. ASSUME NEW c \in Bt!Cid,
             \/ \E refused \in BOOLEAN : Bt!OpenFailed(c, refused)
             \/ Bt!Opened(c) \/ Bt!Closed(c) \/ Bt!LinkLost(c) \/ Bt!DescriptorAvailable(c)
             \/ Bt!Report(c) \/ Bt!SetProtocolResponse(c) \/ Bt!FeatureReport(c)
      PROVE  PageInv'
  <2>1. /\ UNCHANGED <<searching, scanTimer, scanPhase>>
        /\ retry' = TRUE \/ UNCHANGED <<wake, retry>>
      BY <1>9 DEF Bt!OpenFailed, Bt!Opened, Bt!Closed, Bt!LinkLost,
           Bt!DescriptorAvailable, Bt!Report, Bt!SetProtocolResponse, Bt!FeatureReport,
           Bt!stackVars, Bt!searchVars
  <2> QED
      BY <1>2, <1>3, <2>1
<1> QED
    BY <1>4, <1>5, <1>6, <1>7, <1>8, <1>9 DEF Bt!Next, Bt!Events, Bt!People

(* The page of a Switch controller is never lost to a discovery that begins  *)
(* or ends, to a connection that fails, or to another link that drops        *)
(* (s_classic_reconnect_timer, bt_discovery_stop, s_switch_wake_pending)     *)
THEOREM PageAlwaysComes == Bt!Spec => []PageComes
<1> DEFINE AllInv == KnownInv /\ RestTypes /\ PageInv
<1> USE ControllersAssumption DEF ControllersAssumption
<1>1. Bt!Init => AllInv
  <2>1. Bt!Init => PageInv
      BY DEF Bt!Init, PageInv
  <2> QED
      BY <2>1, KnownAtFirst, RestAtFirst
<1>2. AllInv /\ [Bt!Next]_(Bt!vars) => AllInv'
    BY StepKeepsKnown, SearchTypesStay, LinkTypesStay, PageKeeps DEF RestTypes
<1>3. AllInv => PageComes
    BY DEF KnownInv, ConnectionsKnown, Bt!ConnectionsKnown, PageInv, PageComes
<1> QED
    BY <1>1, <1>2, <1>3, PTL DEF Bt!Spec

-----------------------------------------------------------------------------
\* A console that skipped authentication started the gamepad, and one that the
\* gamepad has seen a provider for has its restart asked for
NoticedInv ==
    /\ driver # "announce" => poweredOn
    /\ Skipped /\ ~lost /\ seen => reload /\ restart
    /\ opened => live # None

(* With a provider there, a console that skipped authentication has its      *)
(* restart asked for, or the next look of the gamepad finds the provider to  *)
(* have come, and asks                                                        *)
RestartComes ==
    Skipped /\ handler # None /\ ~lost =>
        \/ reload /\ restart
        \/ ~seen /\ Unauthenticated /\ live # None

LEMMA NoticedStays ==
    ASSUME AuthFlags, NoticedInv, [Next]_vars
    PROVE  NoticedInv'
<1> USE DEF NoticedInv, Skipped
<1>1. CASE Open
    BY <1>1 DEF Open, Serviced
<1>2. CASE Start
  <2>1. /\ poweredOn' = TRUE /\ UNCHANGED <<live, opened, seen>>
        /\ driver' = "auth" \/ (driver' = "done" /\ lost' = seen)
      BY <1>2 DEF Start
  <2> QED
      BY <2>1
<1>3. CASE Auth
  <2>1. /\ UNCHANGED <<live, opened, poweredOn, seen, lost, reload, restart>> /\ driver # "announce"
        /\ completed' = TRUE \/ UNCHANGED <<driver, completed>>
      BY <1>3 DEF Auth, managerVars
  <2> QED
      BY <2>1
<1>4. CASE Reset
    BY <1>4 DEF Reset
<1>5. CASE RequestReload \/ UpdateDevices
  <2>1. /\ UNCHANGED <<live, opened, driver, completed, poweredOn, seen, lost, restart>>
        /\ reload' = TRUE \/ reload' = reload
      BY <1>5 DEF RequestReload, UpdateDevices, gamepadVars
  <2> QED
      BY <2>1
<1>6. ASSUME NEW new \in Gamepads \union {None}, Load(new)
      PROVE  NoticedInv'
  <2>1. UNCHANGED <<driver, poweredOn, completed>> /\ live' = new
      BY <1>6 DEF Load
  <2>2. CASE restart \/ new # live
      BY <1>6, <2>1, <2>2 DEF Load
  <2>3. CASE ~(restart \/ new # live)
    <3>1. UNCHANGED <<opened, lost, seen, live>>
        BY <1>6, <2>1, <2>3 DEF Load
    <3> QED
        BY <2>1, <2>3, <3>1
  <2> QED
      BY <2>2, <2>3
<1>7. CASE Process
  <2>1. UNCHANGED <<live, opened, poweredOn>>
      BY <1>7 DEF Process
  <2>2. CASE UNCHANGED <<seen, reload, restart, lost, driver, completed>>
      BY <2>1, <2>2
  <2>3. CASE /\ NoticeProvider
             /\ \/ StartTimedOut /\ driver' = "done" /\ completed' = TRUE
                \/ UNCHANGED <<driver, completed>>
    <3>1. driver' # "announce" => poweredOn'
        BY <2>1, <2>3 DEF StartTimedOut
    <3>2. ASSUME Skipped', ~lost', seen'
          PROVE  reload' /\ restart'
      <4>1. driver = "done" /\ ~completed /\ opened /\ poweredOn
          BY <2>1, <2>3, <3>2
      <4>2. handler # None
          BY <2>3, <3>2, Zenon DEF NoticeProvider
      <4>3. CASE seen
          BY <2>3, <3>2, <4>1, <4>3 DEF NoticeProvider
      <4>4. CASE ~seen
          BY <2>3, <3>2, <4>1, <4>2, <4>4 DEF NoticeProvider, Unauthenticated
      <4> QED
          BY <4>3, <4>4
    <3> QED
        BY <2>1, <3>1, <3>2
  <2> QED
      BY <1>7, <2>2, <2>3 DEF Process
<1>8. CASE UsbHost \/ Serve \/ NotDue \/ Writing \/ UNCHANGED vars \/ \E c \in Chips : ChipReady(c)
  <2>1. UNCHANGED <<live, opened, driver, completed, poweredOn, seen, lost, reload, restart>>
      BY <1>8 DEF UsbHost, Plug, Identify, Unplug, Serve, NotDue, Writing, vars, ChipReady, gamepadVars,
                  managerVars
  <2> QED
      BY <2>1
<1> QED
    BY <1>1, <1>2, <1>3, <1>4, <1>5, <1>6, <1>7, <1>8 DEF Next, Console, Loading, Loop

(* Whatever providers come and go and whatever is reloaded, a console that   *)
(* skipped authentication isn't left to itself by a gamepad that has looked  *)
(* at the provider and done nothing - unless its coming went unnoticed       *)
(* (process_auth_device_connection)                                          *)
THEOREM RestartAlwaysComes == Spec => []RestartComes
<1> DEFINE AllInv == AuthFlags /\ NoticedInv
<1>1. Init => AllInv
  <2>1. Init => AuthFlags
      BY DEF Init, AuthFlags
  <2>2. Init => NoticedInv
      BY AuthAssumption DEF Init, NoticedInv, Skipped
  <2> QED
      BY <2>1, <2>2
<1>2. AllInv /\ [Next]_vars => AllInv'
    BY AuthFlagsStay, NoticedStays
<1>3. AllInv => RestartComes
    BY DEF NoticedInv, RestartComes, Skipped, Unauthenticated
<1> QED
    BY <1>1, <1>2, <1>3, PTL DEF Spec
=============================================================================
