------------------------------ MODULE BtClassic ------------------------------
(***************************************************************************)
(* Classic Bluetooth controllers: discovery (src/src/devices/bluetooth.cpp), *)
(* the connections to them (src/src/devices/bt/bt_classic_rx.cpp) and the  *)
(* hosts that read them (src/src/devices/bt/bt_host.cpp).                  *)
(*                                                                         *)
(* BTstack's events and the main loop take turns: every handler holds      *)
(* BTstack's lock, or runs from its loop.  A handler may run at any time   *)
(* between two passes of btc_tick, which creates and destroys the hosts.   *)
(*                                                                         *)
(* A HID connection comes up over a link and goes down before it.  Time is *)
(* left out: a timer that is set fires some time later.                    *)
(***************************************************************************)
EXTENDS Integers, FiniteSets

CONSTANTS
    Controllers,
    Switches,     \* the Switch controllers among them
    Keyless,      \* the DS3s, which are paired with over USB and never authenticate
    Stored,       \* those paired with when the device starts
    MaxConns,     \* connections BTstack makes, MAX_NR_HID_HOST_CONNECTIONS
    MaxSlots,     \* MAX_BT_CLASSIC_CONNECTIONS
    MaxDevices,   \* MAX_DEVICES an inquiry keeps
    Nobody, Free,
    Moves         \* what people and controllers do of their own accord

Cid == 1..MaxConns
Slot == 1..MaxSlots
Key == {"none", "good", "stale"}   \* against the one the controller has
Host == Slot \X {1, 2}             \* of a connection: created for it, or what that was upgraded to

VARIABLES
    conn,         \* BTstack's HID connections
    up,           \* the controllers with a link
    authenticated, \* those whose link is
    bonded,       \* those that know the device, and may connect to it by themselves
    inquiry,      \* BTstack's inquiry
    naming,       \* controllers whose name has been asked for
    found, searching, scanPhase, scanTimer,   \* devices, s_inquiry_active, s_scan_phase, s_scan_timer
    sdp,          \* s_pnp_sdp: whom it asks
    pending,      \* s_pending_connections by cid
    slots,        \* s_bt_slots
    retry,        \* s_classic_reconnect_timer_active
    wake,         \* s_switch_wake_addr, while s_switch_wake_pending
    links,        \* s_switch_links
    waiting, assignable,          \* bt_pending_interfaces, bt_assignable_interfaces
    paired, pairKey, stackKey,    \* pairings, their link keys, and those BTstack has stored
    forgotten,    \* history: those whose key or pairing was dropped while they had a link that was let in
    left

linkVars == <<up, authenticated, bonded>>
stackVars == <<conn, linkVars, inquiry, naming>>
searchVars == <<found, searching, scanPhase, scanTimer>>
hostVars == <<waiting, assignable>>
keyVars == <<paired, pairKey, stackKey>>
vars == <<stackVars, searchVars, sdp, pending, slots, retry, wake, links, hostVars, keyVars,
          forgotten, left>>

NoConn == [addr |-> Nobody, phase |-> "none", fresh |-> FALSE]
Conns == [addr : Controllers, phase : {"opening", "failing", "open", "closing"}, fresh : BOOLEAN]
Actions == {"none", "descriptor", "init", "disconnected"}
Slots == [cid : 0..MaxConns, addr : Controllers, needsHost : BOOLEAN, action : Actions,
          host : 0..2]

\* What the constants may be
ClassicAssumption ==
    /\ Switches \subseteq Controllers /\ Stored \subseteq Controllers
    /\ Keyless \subseteq Controllers \ Switches
    /\ Nobody \notin Controllers /\ Free \notin Slots
    /\ MaxConns \in Nat \ {0} /\ MaxSlots \in Nat \ {0} /\ MaxDevices \in Nat \ {0}
    /\ Moves \in Nat

\* The type invariant
TypeOK ==
    /\ conn \in [Cid -> Conns \union {NoConn}] /\ up \subseteq Controllers
    /\ authenticated \subseteq up /\ bonded \subseteq Controllers
    /\ inquiry \in {"idle", "running", "stopping"} /\ naming \subseteq Controllers
    /\ found \in [Controllers -> {"none", "request", "inquired", "fetched"}]
    /\ scanPhase \in {"idle", "giac", "liac"}
    /\ sdp \in Controllers \union {Nobody} /\ wake \in Controllers \union {Nobody}
    /\ pending \in [Cid -> Controllers \union {Nobody}]
    /\ slots \in [Slot -> Slots \union {Free}]
    /\ links \subseteq Controllers
    /\ waiting \subseteq Host /\ assignable \subseteq Host
    /\ paired \subseteq Controllers
    /\ pairKey \in [Controllers -> Key] /\ stackKey \in [Controllers -> Key]
    /\ forgotten \subseteq Controllers
    /\ \A b \in {searching, scanTimer, retry} : b \in BOOLEAN
    /\ left \in 0..Moves

\* BTstack is working, and no controller has come back yet
Init ==
    /\ conn = [c \in Cid |-> NoConn] /\ up = {} /\ authenticated = {} /\ bonded = Stored
    /\ inquiry = "idle" /\ naming = {}
    /\ found = [a \in Controllers |-> "none"] /\ searching = FALSE
    /\ scanPhase = "idle" /\ scanTimer = FALSE
    /\ sdp = Nobody /\ pending = [c \in Cid |-> Nobody] /\ slots = [s \in Slot |-> Free]
    /\ retry = FALSE /\ wake = Nobody /\ links = {}
    /\ waiting = {} /\ assignable = {}
    /\ paired = Stored
    /\ pairKey = [a \in Controllers |-> IF a \in Stored \ Keyless THEN "good" ELSE "none"]
    /\ stackKey = pairKey
    /\ forgotten = {} /\ left = Moves

Move == left > 0 /\ left' = left - 1

-----------------------------------------------------------------------------
(* Lookups and connection attempts *)

Used == {s \in Slot : slots[s] # Free}
SlotOf(c) == {s \in Used : slots[s].cid = c}
ConnOf(a) == {c \in Cid : conn[c].addr = a}
ConnectedOrPending(a) ==
    \/ \E s \in Used : slots[s].addr = a
    \/ \E c \in Cid : pending[c] = a
    \/ sdp = a
StoredSwitch(a) == a \in paired /\ a \in Switches

\* Links on which HID needs no authentication, or no more
LetIn == authenticated \union (up \intersect Keyless)

\* History: a link stays as it is when its key is dropped
KeyDropped(a) == forgotten' = forgotten \union ({a} \intersect LetIn)

Connectable(a) == ConnOf(a) = {} /\ \E c \in Cid : conn[c] = NoConn
NextCid == CHOOSE c \in Cid : conn[c] = NoConn

\* BTstack has a connection to set up, and it is kept as pending
Attempt(a, fresh) ==
    /\ conn' = [conn EXCEPT ![NextCid] = [addr |-> a, phase |-> "opening", fresh |-> fresh]]
    /\ pending' = [pending EXCEPT ![NextCid] = a]

\* hid_host_connect, which BTstack may turn down
Connect(a, fresh) ==
    \/ Connectable(a) /\ Attempt(a, fresh)
    \/ ~Connectable(a) /\ UNCHANGED <<conn, pending>>

-----------------------------------------------------------------------------
(* Discovery *)

\* Mutant: reconnecting, which waited for the end of the search, isn't scheduled again
StopDiscoveryForGood(i) ==
    /\ scanTimer' = FALSE /\ scanPhase' = "idle" /\ searching' = FALSE /\ UNCHANGED retry
    /\ inquiry' = IF i = "running" THEN "stopping" ELSE i

\* bt_discovery_stop, with BTstack's inquiry in state i
StopDiscovery(i) ==
    /\ scanTimer' = FALSE /\ scanPhase' = "idle" /\ searching' = FALSE /\ retry' = TRUE
    /\ inquiry' = IF i = "running" THEN "stopping" ELSE i

\* btc_start_scan: BTstack won't start an inquiry while it is stopping one
StartInquiry(i) ==
    /\ searching' = TRUE /\ retry' = FALSE /\ found' = [a \in Controllers |-> "none"]
    /\ inquiry' = IF i = "idle" THEN "running" ELSE "stopping"

\* start_discovery, which stops what is left of the last one first
StartDiscovery ==
    /\ Move
    /\ scanTimer' = TRUE /\ scanPhase' = "giac" /\ StartInquiry(inquiry)
    /\ UNCHANGED <<conn, linkVars, naming, sdp, pending, slots, wake, links, hostVars, keyVars, forgotten>>

ScanTimeout ==
    /\ scanTimer /\ StopDiscovery(inquiry)
    /\ UNCHANGED <<conn, linkVars, naming, found, sdp, pending, slots, wake, links, hostVars, keyVars,
                   forgotten, left>>

\* Controllers are only found in pairing mode, not knowing the device or having forgotten it
InquiryResult(a, state) ==
    /\ inquiry = "running" /\ found[a] = "none"
    /\ a \notin up \union bonded \union Keyless
    /\ Cardinality({b \in Controllers : found[b] # "none"}) < MaxDevices
    /\ found' = [found EXCEPT ![a] = state]
    /\ UNCHANGED <<stackVars, searching, scanPhase, scanTimer, sdp, pending, slots, retry, wake,
                   links, hostVars, keyVars, forgotten, left>>

(* connect_to_discovered_device: ask what it is first, or connect to it     *)
(* when that can't be asked.  The inquiry is in state i by then, and the    *)
(* search goes on as it was if BTstack turns the connection down            *)
ConnectDiscovered(a, i, active) ==
    /\ stackKey' = [stackKey EXCEPT ![a] = "none"] /\ KeyDropped(a)
    /\ \/ sdp = Nobody /\ sdp' = a /\ StopDiscovery(i) /\ UNCHANGED <<conn, pending>>
       \/ Connectable(a) /\ Attempt(a, TRUE) /\ StopDiscovery(i) /\ UNCHANGED sdp
       \/ /\ ~Connectable(a) /\ inquiry' = i /\ searching' = active
          /\ UNCHANGED <<conn, pending, sdp, scanTimer, scanPhase, retry>>

\* bt_classic_on_inquiry_complete_empty: look for limited discoverable ones too, then stop
NothingFound ==
    \/ scanPhase = "giac" /\ scanPhase' = "liac" /\ StartInquiry("idle") /\ UNCHANGED scanTimer
    \/ scanPhase = "liac" /\ StopDiscovery("idle") /\ UNCHANGED found
    \/ /\ scanPhase = "idle" /\ inquiry' = "idle" /\ searching' = FALSE
       /\ UNCHANGED <<scanPhase, scanTimer, retry, found>>

\* GAP_EVENT_INQUIRY_COMPLETE, also after an inquiry was stopped
InquiryComplete ==
    LET asked == [a \in Controllers |-> IF found[a] = "inquired" THEN "request" ELSE found[a]]
        unnamed == {a \in Controllers : asked[a] = "request"}
        new == {a \in Controllers : found[a] # "none" /\ ~ConnectedOrPending(a)}
    IN  /\ inquiry # "idle"
        /\ \/ \E a \in unnamed :
                 /\ found' = [asked EXCEPT ![a] = "inquired"] /\ naming' = naming \union {a}
                 /\ searching' = FALSE /\ inquiry' = "idle"
                 /\ UNCHANGED <<conn, pending, sdp, scanPhase, scanTimer, retry, stackKey, forgotten>>
           \/ /\ unnamed = {} /\ \E a \in new : ConnectDiscovered(a, "idle", FALSE)
              /\ UNCHANGED <<found, naming>>
           \/ /\ unnamed = {} /\ new = {} /\ NothingFound
              /\ UNCHANGED <<conn, pending, sdp, naming, stackKey, forgotten>>
        /\ UNCHANGED <<linkVars, slots, wake, links, hostVars, paired, pairKey, left>>

\* HCI_EVENT_REMOTE_NAME_REQUEST_COMPLETE, whether it has the name or not
NameComplete(a, known) ==
    LET named == [found EXCEPT ![a] = IF known /\ @ # "none" THEN "fetched" ELSE @]
        unnamed == {b \in Controllers : named[b] = "request"}
        connects == found[a] # "none" /\ ~ConnectedOrPending(a)
    IN  /\ a \in naming
        /\ \/ connects /\ ConnectDiscovered(a, inquiry, searching) /\ found' = named /\ naming' = naming \ {a}
           \/ \E b \in unnamed :
                 /\ ~connects
                 /\ found' = [named EXCEPT ![b] = "inquired"]
                 /\ naming' = (naming \ {a}) \union {b}
                 /\ UNCHANGED <<conn, pending, sdp, inquiry, searching, scanPhase, scanTimer,
                                retry, stackKey, forgotten>>
           \/ /\ ~connects /\ unnamed = {} /\ found' = named /\ naming' = naming \ {a}
              /\ UNCHANGED <<conn, pending, sdp, inquiry, searching, scanPhase, scanTimer,
                             retry, stackKey, forgotten>>
        /\ UNCHANGED <<linkVars, slots, wake, links, hostVars, paired, pairKey, left>>

\* SDP_EVENT_QUERY_COMPLETE
SdpComplete ==
    /\ sdp # Nobody /\ sdp' = Nobody /\ Connect(sdp, TRUE)
    /\ UNCHANGED <<linkVars, inquiry, naming, searchVars, slots, retry, wake, links, hostVars, keyVars,
                   forgotten, left>>

-----------------------------------------------------------------------------
(* Reconnecting *)

\* Keys BTstack has lost are stored again from the pairings
Seeded ==
    [a \in Controllers |->
        IF a \in paired /\ stackKey[a] = "none" THEN pairKey[a] ELSE stackKey[a]]

Busy == searching \/ sdp # Nobody \/ \E c \in Cid : pending[c] # Nobody

\* btc_sync_reconnect, from its timer
SyncReconnect ==
    /\ retry /\ stackKey' = Seeded
    /\ \/ /\ wake = Nobody \/ ConnectedOrPending(wake)
          /\ wake' = Nobody /\ retry' = FALSE /\ UNCHANGED <<conn, pending>>
       \/ /\ wake # Nobody /\ ~ConnectedOrPending(wake) /\ Busy
          /\ UNCHANGED <<retry, wake, conn, pending>>
       \/ /\ wake # Nobody /\ ~ConnectedOrPending(wake) /\ ~Busy
          /\ wake' = Nobody /\ retry' = FALSE /\ Connect(wake, FALSE)
    /\ UNCHANGED <<linkVars, inquiry, naming, searchVars, sdp, slots, links, hostVars, paired, pairKey,
                   forgotten, left>>

\* HCI_EVENT_CONNECTION_COMPLETE of a link a controller made by itself
LinkUp(a) ==
    /\ Move /\ a \in bonded \ up /\ up' = up \union {a}
    /\ links' = IF StoredSwitch(a) /\ ~ConnectedOrPending(a) THEN links \union {a} ELSE links
    /\ UNCHANGED <<conn, inquiry, naming, searchVars, sdp, pending, slots, retry, wake, hostVars,
                   keyVars, forgotten, authenticated, bonded>>

(* What HCI_EVENT_DISCONNECTION_COMPLETE does once BTstack has closed what   *)
(* was on the link: page a Switch controller that never got HID             *)
LinkDropped(a, wasPending) ==
    LET dropped == a \in links /\ ~\E s \in Used : slots[s].addr = a
    IN  /\ up' = up \ {a} /\ authenticated' = authenticated \ {a} /\ UNCHANGED bonded
        /\ forgotten' = forgotten \ {a} /\ links' = links \ {a}
        /\ wake' = IF dropped /\ ~wasPending THEN a ELSE wake

\* The link goes down after the connection on it
LinkDown(a) ==
    /\ a \in up /\ ConnOf(a) = {}
    /\ LinkDropped(a, ConnectedOrPending(a))
    /\ retry' = (retry \/ (wake' # wake))
    /\ UNCHANGED <<conn, inquiry, naming, searchVars, sdp, pending, slots, hostVars, keyVars,
                   left>>

-----------------------------------------------------------------------------
(* Connections *)

\* HID_SUBEVENT_INCOMING_CONNECTION, once BTstack has let it in: a DS3 without
\* authentication, if it is known by then (hid_incoming_security_level)
IncomingConnection(a) ==
    /\ Move /\ a \in LetIn /\ (a \in Keyless => a \in paired)
    /\ Connectable(a) /\ Attempt(a, FALSE)
    /\ UNCHANGED <<linkVars, inquiry, naming, searchVars, sdp, slots, retry, wake, links, hostVars,
                   keyVars, forgotten>>

(* BTstack authenticates a link once, for the first HID connection on it or *)
(* because it is asked to (gap_request_security_level), and one of its own  *)
(* making as it is set up                                                   *)
Unauthenticated(a) ==
    /\ a \notin authenticated \union Keyless
    /\ a \in up \/ \E c \in ConnOf(a) : conn[c].phase = "opening"
    /\ \A c \in ConnOf(a) : conn[c].phase = "opening"

\* with the key it has
Authenticates(a) ==
    /\ Unauthenticated(a) /\ stackKey[a] = "good"
    /\ up' = up \union {a} /\ authenticated' = authenticated \union {a}
    /\ UNCHANGED <<conn, bonded, inquiry, naming, searchVars, sdp, pending, slots, retry, wake, links,
                   hostVars, keyVars, forgotten, left>>

\* Mutant: the pairing isn't told of the new key
KeyStoredInStackOnly(a) ==
    /\ Unauthenticated(a) /\ stackKey[a] = "none"
    /\ up' = up \union {a} /\ authenticated' = authenticated \union {a} /\ bonded' = bonded \union {a}
    /\ stackKey' = [stackKey EXCEPT ![a] = "good"]
    /\ UNCHANGED <<conn, inquiry, naming, searchVars, sdp, pending, slots, retry, wake, links, hostVars,
                   paired, pairKey, forgotten, left>>

\* or pairs, and stores the key: store_tag tells the pairing, if there is one
KeyStored(a) ==
    /\ Unauthenticated(a) /\ stackKey[a] = "none"
    /\ up' = up \union {a} /\ authenticated' = authenticated \union {a} /\ bonded' = bonded \union {a}
    /\ stackKey' = [stackKey EXCEPT ![a] = "good"]
    /\ pairKey' = IF a \in paired THEN [pairKey EXCEPT ![a] = "good"] ELSE pairKey
    /\ UNCHANGED <<conn, inquiry, naming, searchVars, sdp, pending, slots, retry, wake, links, hostVars,
                   paired, forgotten, left>>

\* HCI_EVENT_AUTHENTICATION_COMPLETE_EVENT with a key the controller doesn't have
AuthFails(a) ==
    /\ Unauthenticated(a) /\ stackKey[a] = "stale"
    /\ conn' = [c \in Cid |-> IF c \in ConnOf(a) THEN [conn[c] EXCEPT !.phase = "failing"] ELSE conn[c]]
    /\ stackKey' = [stackKey EXCEPT ![a] = "none"]
    /\ pairKey' = [pairKey EXCEPT ![a] = "none"]
    /\ UNCHANGED <<linkVars, inquiry, naming, searchVars, sdp, pending, slots, retry, wake, links,
                   hostVars, paired, forgotten, left>>

\* Mutant: an attempt that failed stays pending
OpenFailedStillPending(c, refused) ==
    /\ conn[c].phase \in {"opening", "failing"} /\ conn' = [conn EXCEPT ![c] = NoConn]
    /\ retry' = TRUE /\ UNCHANGED <<pending, stackKey, pairKey>>
    /\ UNCHANGED <<linkVars, inquiry, naming, searchVars, sdp, slots, wake, links, hostVars, paired,
                   forgotten, left>>

(* HID_SUBEVENT_CONNECTION_OPENED with an error; one that refuses a Wii      *)
(* controller's key drops it                                                *)
OpenFailed(c, refused) ==
    LET a == conn[c].addr
        Kept(keys) == IF refused THEN [keys EXCEPT ![a] = "none"] ELSE keys
    IN  /\ conn[c].phase \in {"opening", "failing"}
        /\ refused => a \notin Switches \union Keyless
        /\ conn' = [conn EXCEPT ![c] = NoConn] /\ pending' = [pending EXCEPT ![c] = Nobody]
        /\ stackKey' = Kept(stackKey) /\ pairKey' = Kept(pairKey) /\ retry' = TRUE
        /\ IF refused THEN KeyDropped(a) ELSE UNCHANGED forgotten
        /\ UNCHANGED <<linkVars, inquiry, naming, searchVars, sdp, slots, wake, links, hostVars, paired,
                       left>>

NewSlot == CHOOSE s \in Slot : slots[s] = Free /\ \A t \in 1..s - 1 : slots[t] # Free
SlotFor(c) ==
    [cid |-> c, addr |-> conn[c].addr, needsHost |-> TRUE, action |-> "none", host |-> 0]

\* HID_SUBEVENT_CONNECTION_OPENED on a link that is let in, whatever has become
\* of its key since: its host is left to btc_tick
Opened(c) ==
    /\ conn[c].phase = "opening" /\ conn[c].addr \in LetIn /\ pending[c] # Nobody
    /\ \/ /\ Used # Slot
          /\ slots' = [slots EXCEPT ![NewSlot] = SlotFor(c)]
          /\ conn' = [conn EXCEPT ![c].phase = "open"]
          /\ pending' = [pending EXCEPT ![c] = Nobody] /\ retry' = TRUE
       \/ /\ Used = Slot /\ conn' = [conn EXCEPT ![c].phase = "closing"]
          /\ UNCHANGED <<slots, pending, retry>>
    /\ UNCHANGED <<linkVars, inquiry, naming, searchVars, sdp, wake, links, hostVars, keyVars, forgotten,
                   left>>

\* Mutant: the slot keeps the cid until the host is destroyed
DetachedKeepingCid(c) ==
    [s \in Slot |-> IF s \in SlotOf(c) THEN [slots[s] EXCEPT !.action = "disconnected"] ELSE slots[s]]

Detached(c) ==
    [s \in Slot |-> IF s \in SlotOf(c) THEN [slots[s] EXCEPT !.cid = 0, !.action = "disconnected"]
                    ELSE slots[s]]

\* HID_SUBEVENT_CONNECTION_CLOSED, by the controller or once the device has asked for it
Closed(c) ==
    /\ \/ conn[c].phase = "open" /\ Move
       \/ conn[c].phase = "closing" /\ UNCHANGED left
    /\ conn' = [conn EXCEPT ![c] = NoConn] /\ slots' = Detached(c)
    /\ pending' = [pending EXCEPT ![c] = Nobody] /\ retry' = TRUE
    /\ UNCHANGED <<linkVars, inquiry, naming, searchVars, sdp, wake, links, hostVars, keyVars, forgotten>>

\* A link that is lost takes its connection with it, in one pass of BTstack
LinkLost(c) ==
    LET a == conn[c].addr
    IN  /\ conn[c].phase # "none" /\ a \in up /\ Move
        /\ conn' = [conn EXCEPT ![c] = NoConn]
        /\ slots' = IF conn[c].phase \in {"open", "closing"} THEN Detached(c) ELSE slots
        /\ pending' = [pending EXCEPT ![c] = Nobody] /\ retry' = TRUE
        /\ LinkDropped(a, sdp = a)
        /\ UNCHANGED <<inquiry, naming, searchVars, sdp, hostVars, keyVars>>

\* HID_SUBEVENT_DESCRIPTOR_AVAILABLE
DescriptorAvailable(c) ==
    /\ conn[c].phase = "open"
    /\ \E s \in SlotOf(c) : slots' = [slots EXCEPT ![s].action = "descriptor"]
    /\ UNCHANGED <<stackVars, searchVars, sdp, pending, retry, wake, links, hostVars, keyVars,
                   forgotten, left>>

\* HID_SUBEVENT_REPORT of a host that hasn't sent its init packets
Report(c) ==
    /\ Move
    /\ \E s \in SlotOf(c) :
          /\ slots[s].host # 0 /\ slots[s].action = "none"
          /\ slots' = [slots EXCEPT ![s].action = "init"]
    /\ UNCHANGED <<stackVars, searchVars, sdp, pending, retry, wake, links, hostVars, keyVars,
                   forgotten>>

\* HID_SUBEVENT_SET_PROTOCOL_RESPONSE, over whatever the tick has to do yet
SetProtocolResponse(c) ==
    /\ Move
    /\ \E s \in SlotOf(c) : slots' = [slots EXCEPT ![s].action = "init"]
    /\ UNCHANGED <<stackVars, searchVars, sdp, pending, retry, wake, links, hostVars, keyVars,
                   forgotten>>

-----------------------------------------------------------------------------
(* Hosts *)

\* bt_host_save_pairing
Saved(addrs) ==
    /\ paired' = paired \union addrs
    /\ pairKey' = [a \in Controllers |->
                      IF a \in addrs /\ pairKey[a] = "none" THEN stackKey[a] ELSE pairKey[a]]

AddrsOf(hosts) == {slots[h[1]].addr : h \in hosts}

\* Hosts registered once they are ready, or have taken too long to be
Registered(hosts) ==
    /\ waiting' = waiting \ hosts /\ assignable' = assignable \union hosts
    /\ Saved(AddrsOf(hosts))

\* HID_SUBEVENT_GET_REPORT_RESPONSE: what it says may make the host ready
FeatureReport(c) ==
    /\ \E s \in SlotOf(c) :
          LET host == <<s, slots[s].host>>
          IN  \/ host \in waiting /\ Registered({host})
              \/ /\ host \in assignable /\ Saved({slots[s].addr})
                 /\ UNCHANGED <<waiting, assignable>>
    /\ UNCHANGED <<stackVars, searchVars, sdp, pending, slots, retry, wake, links, stackKey,
                   forgotten, left>>

\* bt_host_update_interfaces, the hosts
UpdateHosts ==
    /\ waiting # {}
    /\ UNCHANGED <<left, stackVars, searchVars, sdp, pending, slots, retry, wake, links, stackKey, forgotten>>
    /\ \E hosts \in SUBSET waiting : hosts # {} /\ Registered(hosts)

\* What a pass of btc_tick finds for a slot: its host is ready, or is another one
Turns == {"plain", "ready", "upgrade"}
Creates(s) == slots[s].needsHost /\ slots[s].action # "disconnected"
\* Mutant: a host that is ready at once is registered before it is there
HostBefore(s) == slots[s].host
HostNow(s) == IF Creates(s) THEN 1 ELSE slots[s].host
TakesDescriptor(s) == slots[s].action = "descriptor" /\ HostNow(s) # 0
Upgrades(s, turn) == TakesDescriptor(s) /\ turn = "upgrade" /\ HostNow(s) = 1
BecomesReady(s, turn) == turn = "ready" /\ (Creates(s) \/ TakesDescriptor(s))

\* Mutant: the host that was upgraded stays in the lists
GoneKeepingUpgraded(s, turn) ==
    IF slots[s].action = "disconnected" THEN {<<s, slots[s].host>>} ELSE {}

\* Hosts a pass of btc_tick takes out of the lists and puts into them
Gone(s, turn) ==
    CASE slots[s].action = "disconnected" -> {<<s, slots[s].host>>}
      [] Upgrades(s, turn) -> {<<s, 1>>}
      [] OTHER -> {}
New(s, turn) ==
    CASE Upgrades(s, turn) -> {<<s, 2>>}
      [] BecomesReady(s, turn) -> {<<s, HostNow(s)>>}
      [] OTHER -> {}
Created(s) == IF Creates(s) THEN {<<s, 1>>} ELSE {}
AfterTick(s, turn) ==
    IF slots[s].action = "disconnected" THEN Free
    ELSE [slots[s] EXCEPT
            !.needsHost = FALSE, !.action = "none",
            !.host = IF Upgrades(s, turn) THEN 2 ELSE HostNow(s)]

Ticked(turns) ==
    LET gone == UNION {Gone(s, turns[s]) : s \in Used}
        new == (UNION {New(s, turns[s]) : s \in Used}) \ assignable
    IN  /\ slots' = [s \in Slot |-> IF s \in Used THEN AfterTick(s, turns[s]) ELSE Free]
        /\ waiting' = (waiting \union UNION {Created(s) : s \in Used}) \ (new \union gone)
        /\ assignable' = (assignable \union new) \ gone
        /\ Saved(AddrsOf(new))

Tick ==
    /\ \E s \in Used : slots[s].needsHost \/ slots[s].action # "none"
    /\ UNCHANGED <<left, stackVars, searchVars, sdp, pending, retry, wake, links, stackKey, forgotten>>
    /\ \E turns \in [Used -> Turns] :
          /\ \A s \in Used : turns[s] # "plain" => Creates(s) \/ TakesDescriptor(s)
          /\ Ticked(turns)

-----------------------------------------------------------------------------
(* People *)

Closing(cids) ==
    [c \in Cid |-> IF c \in cids /\ conn[c].phase = "open" THEN [conn[c] EXCEPT !.phase = "closing"]
                   ELSE conn[c]]
HostConns(a) ==
    {slots[h[1]].cid : h \in {g \in waiting \union assignable : slots[g[1]].addr = a}}

\* bt_host_power_off, when a controller is turned off or has been idle
PowerOff(a) ==
    /\ Move /\ \E h \in assignable : slots[h[1]].addr = a
    /\ conn' = Closing(HostConns(a))
    /\ UNCHANGED <<linkVars, inquiry, naming, searchVars, sdp, pending, slots, retry, wake, links,
                   hostVars, keyVars, forgotten>>

\* bt_forget_pairing
Forget(a) ==
    /\ Move /\ a \in paired
    /\ conn' = Closing(HostConns(a))
    /\ stackKey' = [stackKey EXCEPT ![a] = "none"] /\ pairKey' = [pairKey EXCEPT ![a] = "none"]
    /\ paired' = paired \ {a} /\ KeyDropped(a)
    /\ UNCHANGED <<linkVars, inquiry, naming, searchVars, sdp, pending, slots, retry, wake, links,
                   hostVars>>

\* A controller put into pairing mode forgets the key it had
EnterPairing(a) ==
    LET Outdated(keys) == [keys EXCEPT ![a] = IF @ = "good" THEN "stale" ELSE @]
    IN  /\ Move /\ a \in bonded \ (up \union Keyless) /\ ConnOf(a) = {} /\ sdp # a
        /\ stackKey' = Outdated(stackKey) /\ pairKey' = Outdated(pairKey) /\ bonded' = bonded \ {a}
        /\ UNCHANGED <<conn, up, authenticated, inquiry, naming, searchVars, sdp, pending, slots, retry,
                       wake, links, hostVars, paired, forgotten>>

-----------------------------------------------------------------------------
Events ==
    \/ \E a \in Controllers :
          \/ \E state \in {"request", "fetched"} : InquiryResult(a, state)
          \/ \E known \in BOOLEAN : NameComplete(a, known)
          \/ LinkUp(a) \/ LinkDown(a) \/ IncomingConnection(a)
          \/ Authenticates(a) \/ KeyStored(a) \/ AuthFails(a)
    \/ \E c \in Cid :
          \/ \E refused \in BOOLEAN : OpenFailed(c, refused)
          \/ Opened(c)
          \/ Closed(c) \/ LinkLost(c) \/ DescriptorAvailable(c) \/ Report(c)
          \/ SetProtocolResponse(c) \/ FeatureReport(c)
    \/ InquiryComplete \/ SdpComplete \/ ScanTimeout \/ SyncReconnect
Loop == Tick \/ UpdateHosts
People ==
    \/ StartDiscovery
    \/ \E a \in Controllers : PowerOff(a) \/ Forget(a) \/ EnterPairing(a)

Next == Events \/ Loop \/ People
Spec == Init /\ [][Next]_vars

Ends(c) == Opened(c) \/ OpenFailed(c, FALSE)
(* Timers fire, BTstack ends what it has been asked for, and the loop runs *)
LiveSpec ==
    /\ Spec
    /\ WF_vars(SyncReconnect) /\ WF_vars(ScanTimeout) /\ WF_vars(SdpComplete)
    /\ WF_vars(InquiryComplete)
    /\ \A c \in Cid : WF_vars(Ends(c)) /\ WF_vars(Closed(c) /\ conn[c].phase = "closing")
    /\ WF_vars(Tick) /\ WF_vars(UpdateHosts)
-----------------------------------------------------------------------------
(* Whatever BTstack connects is known by the cid it has, under its           *)
(* controller: pending while it is being set up or closed for want of a     *)
(* slot, and in one slot once it is open.  Cids are given out again at       *)
(* once, before btc_tick frees the slot of the last connection on one; and  *)
(* nothing is left of an attempt that failed, which would keep its          *)
(* controller from being connected to, and Switch controllers from being    *)
(* paged                                                                    *)
ConnectionsKnown ==
    \A c \in Cid :
        /\ conn[c].phase \in {"opening", "failing"} => pending[c] = conn[c].addr
        /\ conn[c].phase = "open" => \E s \in Used : SlotOf(c) = {s} /\ slots[s].addr = conn[c].addr
        /\ pending[c] # Nobody =>
               pending[c] = conn[c].addr /\ conn[c].phase \in {"opening", "failing", "closing"}
        /\ \A s \in SlotOf(c) :
               conn[c].phase \in {"open", "closing"} /\ slots[s].addr = conn[c].addr

(* The hosts that wait or can be picked are those of the slots, each in one  *)
(* of the lists: none is left of a controller that went, or of what was     *)
(* upgraded, and events before btc_tick don't keep one from being created   *)
HostsAreConnected ==
    /\ waiting \intersect assignable = {}
    /\ waiting \union assignable = {<<s, slots[s].host>> : s \in {t \in Used : slots[t].host # 0}}
    /\ \A s \in Used : slots[s].host = 0 => slots[s].needsHost

(* A connected controller that can be picked has its pairing, and but for a *)
(* DS3 the key BTstack authenticates it with, in both places, which is all  *)
(* there is after a restart - unless they were dropped while its link was   *)
(* let in already: forgotten by the user, or refused or found by discovery  *)
(* on a link that stays authenticated                                       *)
KeysKept ==
    \A h \in assignable :
        LET slot == slots[h[1]]
        IN  slot.cid # 0 /\ slot.addr \notin forgotten =>
                /\ slot.addr \in paired
                /\ slot.addr \notin Keyless => pairKey[slot.addr] = "good" /\ stackKey[slot.addr] = "good"

(* A Switch controller that dropped its link is paged in the end, or is back *)
(* by itself: discovery, which stops the timer, and the attempts that it is *)
(* put off for don't lose it                                                *)
WakeEnds == wake # Nobody ~> wake = Nobody

(* A controller found by discovery has forgotten any key it had, and isn't   *)
(* offered that.  Doesn't hold                                              *)
NoStaleKeyOffered ==
    /\ sdp # Nobody => stackKey[sdp] # "stale"
    /\ \A c \in Cid : conn[c].fresh => stackKey[conn[c].addr] # "stale"
=============================================================================
