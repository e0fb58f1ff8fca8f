----------------------------- MODULE ConsoleAuth -----------------------------
(***************************************************************************)
(* Xbox One console authentication (src/src/usb/auth_broker.cpp,           *)
(* src/src/emulation/usb/xone_device.cpp, src/src/devices/xbox_one_auth.cpp *)
(* and src/src/devices/usb/host/xone_host.cpp).  The console authenticates *)
(* the emulated gamepad; a provider, a real controller on the USB host or  *)
(* an auth chip, answers through the broker.  A console that started the   *)
(* gamepad before any provider came has skipped authentication, and the    *)
(* gamepad has to be enumerated again once one is there.                   *)
(*                                                                         *)
(* Everything runs in the main loop, and pc is where it is: the console is *)
(* serviced first, at "tud" (and while a tool is told of a reload), then   *)
(* the USB host at "tuh", then the reload and the update of the devices.   *)
(***************************************************************************)
EXTENDS Integers, FiniteSets

CONSTANTS
    Hosts,   \* controllers on the USB host
    Chips,   \* auth chips
    None,    \* no provider, no gamepad
    Moves    \* how often controllers, the console and the user act

ASSUME AuthAssumption ==
    /\ Hosts \intersect Chips = {} /\ None \notin Hosts \union Chips
    /\ Moves \in Nat

Providers == Hosts \union Chips
Gamepads == {1, 2}   \* emulated ones: a reload may replace one by another

VARIABLES
    plugged,     \* each controller: gone, linking, or identified
    ready,       \* the chips that have answered
    registered,  \* the providers that hold m_auth_registered or m_registered
    handler,     \* handlers[ModeXboxOne]: the provider it calls
    live,        \* the emulated gamepad in ProfileManager
    responder,   \* response_handler_owners[ModeXboxOne]
    opened,      \* the console has enumerated it
    driver,      \* xboneDriverState
    poweredOn,   \* xbox_one_powered_on
    seen,        \* auth_handler_connected
    completed,   \* auth_completed of the broker: the console's own
    packetSeen,  \* auth_packet_seen
    reload,      \* m_reinit_time is set
    restart,     \* m_reinitialize_device_stack
    changed,     \* m_devices_changed is set
    pc,
    lost,        \* history: the provider's coming went unnoticed
    left

providerVars == <<plugged, ready, registered, handler>>
gamepadVars == <<live, responder, opened, driver, poweredOn, seen, completed, packetSeen>>
managerVars == <<reload, restart, changed>>
vars == <<providerVars, gamepadVars, managerVars, pc, lost, left>>

\* The type invariant
TypeOK ==
    /\ plugged \in [Hosts -> {"gone", "linking", "identified"}]
    /\ ready \subseteq Chips /\ registered \subseteq Providers
    /\ handler \in Providers \union {None}
    /\ live \in Gamepads \union {None} /\ responder \in Gamepads \union {None}
    /\ opened \in BOOLEAN /\ driver \in {"announce", "auth", "done"}
    /\ poweredOn \in BOOLEAN /\ seen \in BOOLEAN /\ completed \in BOOLEAN
    /\ packetSeen \in BOOLEAN
    /\ reload \in BOOLEAN /\ restart \in BOOLEAN /\ changed \in BOOLEAN
    /\ pc \in {"tud", "tuh", "reload", "devices", "process"}
    /\ lost \in BOOLEAN /\ left \in 0..Moves

Init ==
    /\ plugged = [h \in Hosts |-> "gone"] /\ ready = {} /\ registered = {} /\ handler = None
    /\ live = 1 /\ responder = 1 /\ opened = FALSE /\ driver = "announce"
    /\ poweredOn = FALSE /\ seen = FALSE /\ completed = FALSE /\ packetSeen = FALSE
    /\ reload = FALSE /\ restart = FALSE /\ changed = FALSE
    /\ pc = "tud" /\ lost = FALSE /\ left = Moves

Move == left > 0 /\ left' = left - 1

-----------------------------------------------------------------------------
(* Providers *)

\* Mutant: whoever is there already is replaced
ClaimAnyway(p) ==
    /\ registered' = registered \union {p}
    /\ handler' = p

\* register_auth_handler, and the chip's in update: never over another's
Claim(p) ==
    IF handler = None
    THEN registered' = registered \union {p} /\ handler' = p
    ELSE UNCHANGED <<registered, handler>>

\* disconnect, and the chip's end
Release(ps) ==
    /\ registered' = registered \ ps
    /\ handler' = IF ps \intersect registered # {} THEN None ELSE handler

Plug(h) ==
    /\ pc = "tuh" /\ Move
    /\ plugged[h] = "gone" /\ plugged' = [plugged EXCEPT ![h] = "linking"]
    /\ UNCHANGED <<ready, registered, handler, gamepadVars, managerVars, pc, lost>>

\* xone_on_device_descriptor_wrapper: it registers this once
Identify(h) ==
    /\ pc = "tuh"
    /\ plugged[h] = "linking" /\ plugged' = [plugged EXCEPT ![h] = "identified"]
    /\ Claim(h)
    /\ changed' = TRUE
    /\ UNCHANGED <<ready, gamepadVars, reload, restart, pc, lost, left>>

Unplug(h) ==
    /\ pc = "tuh"
    /\ plugged[h] # "gone" /\ plugged' = [plugged EXCEPT ![h] = "gone"]
    /\ Release({h})
    /\ changed' = TRUE
    /\ UNCHANGED <<ready, gamepadVars, reload, restart, pc, lost, left>>

-----------------------------------------------------------------------------
(* The console *)

Serviced == pc \in {"tud", "reload"} /\ live # None

\* XboxOneGamepadDevice::open
Open ==
    /\ Serviced /\ ~opened
    /\ opened' = TRUE /\ driver' = "announce" /\ completed' = FALSE /\ poweredOn' = FALSE
    /\ seen' = (handler # None)
    /\ UNCHANGED <<providerVars, live, responder, packetSeen, managerVars, pc, lost, left>>

\* GIP_STATE_START: without a provider there is nothing to relay to
Start ==
    /\ Serviced /\ opened /\ driver = "announce"
    /\ poweredOn' = TRUE
    /\ IF handler # None
       THEN driver' = "auth" /\ packetSeen' = FALSE /\ UNCHANGED lost
       ELSE driver' = "done" /\ lost' = seen /\ UNCHANGED packetSeen
    /\ UNCHANGED <<providerVars, live, responder, opened, seen, completed, managerVars, pc, left>>

\* GIP_AUTH: the console's challenge is relayed; it ends with the console's own word
Auth ==
    /\ Serviced /\ opened /\ driver # "announce" /\ ~(packetSeen /\ completed)
    /\ packetSeen' = TRUE
    /\ \/ driver' = "done" /\ completed' = TRUE
       \/ UNCHANGED <<driver, completed>>
    /\ UNCHANGED <<providerVars, live, responder, opened, poweredOn, seen, managerVars, pc, lost,
                   left>>

\* GIP_STATE_RESET
Reset ==
    /\ Serviced /\ opened /\ driver # "announce" /\ Move
    /\ driver' = "announce" /\ completed' = FALSE
    /\ UNCHANGED <<providerVars, live, responder, opened, poweredOn, seen, packetSeen,
                   managerVars, pc, lost>>

-----------------------------------------------------------------------------
(* Reloads *)

RequestReload ==
    /\ pc \in {"tud", "reload", "devices"} /\ ~reload /\ Move
    /\ reload' = TRUE
    /\ UNCHANGED <<providerVars, gamepadVars, restart, changed, pc, lost>>

\* No reload is due: none is scheduled, or the millisecond of the request isn't over
NotDue ==
    /\ pc = "reload" /\ pc' = "devices"
    /\ UNCHANGED <<providerVars, gamepadVars, managerVars, lost, left>>

\* A config is being written: nothing is reloaded or updated
Writing ==
    /\ pc = "reload" /\ pc' = "tud"
    /\ UNCHANGED <<providerVars, gamepadVars, managerVars, lost, left>>

\* The constructor registers its response handler before the old one's destructor
\* unregisters the one it owns
Replies(new) ==
    LET constructed == IF new \in {live, None} THEN responder ELSE new
    IN  IF new # live /\ constructed = live THEN None ELSE constructed

\* The gamepad is reused, replaced, or there is none in another mode.  Chips are
\* built anew, controllers stay
Load(new) ==
    /\ pc = "reload" /\ reload /\ pc' = "tud"
    /\ reload' = FALSE /\ restart' = FALSE
    /\ Release(Chips) /\ ready' = {}
    /\ live' = new /\ responder' = Replies(new)
    /\ IF restart \/ new # live
       THEN opened' = FALSE /\ lost' = FALSE
       ELSE UNCHANGED <<opened, lost>>
    /\ seen' = IF new \in {live, None} THEN seen ELSE handler' # None
    /\ UNCHANGED <<plugged, driver, poweredOn, completed, packetSeen, changed, left>>

-----------------------------------------------------------------------------
(* update: the devices first, then the gamepad *)

\* The chip has answered since it was begun
ChipReady(c) ==
    /\ pc = "devices" /\ c \notin ready
    /\ ready' = ready \union {c}
    /\ UNCHANGED <<plugged, registered, handler, gamepadVars, managerVars, pc, lost, left>>

\* XboxOneAuthDevice::update, and USBHostHardwareDevice::update's reload
UpdateDevices ==
    /\ pc = "devices" /\ pc' = "process"
    /\ IF ready \ registered # {} THEN \E c \in ready \ registered : Claim(c)
       ELSE UNCHANGED <<registered, handler>>
    /\ \/ changed /\ changed' = FALSE /\ reload' = TRUE
       \/ UNCHANGED <<changed, reload>>
    /\ UNCHANGED <<plugged, ready, gamepadVars, restart, lost, left>>

\* Mutant: what START skipped counts as well
UnauthenticatedAnyhow == driver # "done" /\ poweredOn

\* The console's authentication has to be restarted
Unauthenticated == ~completed /\ poweredOn

\* process_auth_device_connection: when a provider comes, the stack is restarted -
\* and when a reload is scheduled already, it isn't
NoticeProvider ==
    /\ seen' = (handler # None)
    /\ IF handler # None /\ ~seen /\ Unauthenticated
       THEN IF reload
            THEN lost' = TRUE /\ UNCHANGED <<reload, restart>>
            ELSE reload' = TRUE /\ restart' = TRUE /\ UNCHANGED lost
       ELSE UNCHANGED <<reload, restart, lost>>

\* AUTH_START_TIMEOUT: a host that never starts
StartTimedOut == driver = "auth" /\ ~packetSeen

Process ==
    /\ pc = "process" /\ pc' = "tud"
    /\ IF opened /\ live # None
       THEN /\ NoticeProvider
            /\ \/ StartTimedOut /\ driver' = "done" /\ completed' = TRUE
               \/ UNCHANGED <<driver, completed>>
       ELSE UNCHANGED <<seen, reload, restart, lost, driver, completed>>
    /\ UNCHANGED <<providerVars, live, responder, opened, poweredOn, packetSeen, changed, left>>

-----------------------------------------------------------------------------
Serve ==
    /\ \/ pc = "tud" /\ pc' = "tuh"
       \/ pc = "tuh" /\ pc' = "reload"
    /\ UNCHANGED <<providerVars, gamepadVars, managerVars, lost, left>>

Console == Open \/ Start \/ Auth \/ Reset
UsbHost == \E h \in Hosts : Plug(h) \/ Identify(h) \/ Unplug(h)
Loading == \E new \in Gamepads \union {None} : Load(new)
Loop == Serve \/ NotDue \/ Writing \/ Loading \/ UpdateDevices \/ Process

Next == Console \/ UsbHost \/ RequestReload \/ (\E c \in Chips : ChipReady(c)) \/ Loop

Spec == Init /\ [][Next]_vars

\* The loop comes round, no config is written for ever, a reload comes due, and a
\* console that sees a gamepad enumerates and starts it
Fairness ==
    /\ WF_vars(Loop) /\ SF_vars(NotDue) /\ SF_vars(Loading)
    /\ SF_vars(Open) /\ SF_vars(Start)

LiveSpec == Spec /\ Fairness

-----------------------------------------------------------------------------
(* The broker's two ends have one owner each.  One provider has the         *)
(* console's authentication and knows that it has: one that left has no     *)
(* handler behind it, and none that comes or leaves takes another's ("never *)
(* take over from another provider").  Responses go to the gamepad the      *)
(* console has, in whatever order the old and the new one are built and     *)
(* destroyed ("the replacement device registers before the old one is       *)
(* destroyed, so this must not remove its handler", auth_broker.h:80).      *)
OwnersKept ==
    /\ registered = IF handler = None THEN {} ELSE {handler}
    /\ \A h \in registered \intersect Hosts : plugged[h] = "identified"
    /\ responder = live

Skipped == opened /\ driver = "done" /\ ~completed

(* "START before the controller is ready skips auth ... When the controller *)
(* then shows up, the device has to re-enumerate so the console             *)
(* authenticates again" (tests/host/gip/xone_device_test.cpp:1088): it      *)
(* does, whatever providers and reloads come and go, unless the provider's  *)
(* coming went unnoticed, with a reload scheduled already, or when another  *)
(* provider was there when the gamepad last looked.                         *)
AuthRestartsIfNoticed ==
    (Skipped /\ handler # None /\ ~lost) ~> (~Skipped \/ handler = None \/ lost)

=============================================================================
