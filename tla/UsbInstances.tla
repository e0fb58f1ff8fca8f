---------------------------- MODULE UsbInstances ----------------------------
(***************************************************************************)
(* The USB devices that a load of the config builds, or takes over from    *)
(* the load before (ConfigLoader::apply, InstanceFactory::create_instance, *)
(* ProfileManager).  The host must not be disturbed by a load that leaves  *)
(* what it enumerated as it was, and must enumerate again after any other. *)
(*                                                                         *)
(* "ps3" stands for the modes that take one controller, and the profiles'  *)
(* assignments to anything but USB only for the mode they force.           *)
(***************************************************************************)
EXTENDS Naturals, Sequences, SequencesExt

CONSTANTS
    None,
    Subs,         \* the profiles' subtypes
    Modes,        \* the console modes
    MaxProfiles,  \* profiles a load assigns to USB
    MaxLoads,
    MaxMoves      \* how often the host, the battery or a forced mode changes things

\* What an Xbox One device announces itself as: the legacy adapter or a subtype
Identities == [legacy : BOOLEAN, native : Subs]

\* What the constants are
InstancesAssumption ==
    /\ Subs \subseteq {"gamepad", "guitar", "keyboard", "mic"}
    /\ {"hid"} \subseteq Modes /\ Modes \subseteq {"hid", "x360", "xone", "ps3"}
    /\ MaxProfiles \in Nat /\ MaxLoads \in Nat /\ MaxMoves \in Nat
    /\ None \notin Nat \union {"gamepad", "guitar", "keyboard", "mic"} /\ None \notin Identities

ASSUME UsbAssumption == InstancesAssumption

VARIABLES
    stage,              \* "main" between loads, or how far the load is
    slot, prev,         \* m_usb_instances, m_previous_usb_instances, with their reload identities
    alloc,              \* UsbDevice::m_last_epin, m_last_epout, m_last_strid
    emulated,           \* m_emulated_devices, by interface, of the modes that ask for it
    subs, lastSubs,     \* m_current_subtypes, m_last_subtypes
    players,            \* the profiles of the Xbox One device
    mode, requested, detected,   \* m_current_mode, m_requested_mode, m_detected_mode
    forced,             \* m_mode_from_profile
    reinitStack,        \* m_reinitialize_device_stack
    battery, hadBattery, \* BatteryManager
    windows,            \* UsbDetectionState::host_is_windows
    receiver, wasReceiver,       \* m_xinput_receiver, m_was_xinput_receiver
    aloneInHid,         \* UsbMicDevice::s_alone_in_hid
    up, read,           \* the device stack, and what the host enumerated
    loads, moves        \* the bounds: loads so far, and moves left

tableVars == <<slot, prev, alloc, emulated, subs, lastSubs, players>>
modeVars == <<mode, requested, detected, forced, reinitStack>>
hostVars == <<windows, up, read>>
deviceVars == <<battery, hadBattery, receiver, wasReceiver, aloneInHid>>
boundVars == <<loads, moves>>
usbVars == <<stage, tableVars, modeVars, hostVars, deviceVars, boundVars>>

Counters == {"in", "out", "str"}
NoEmulated == [m \in {"xone", "ps3"} |-> None]

-----------------------------------------------------------------------------
(* Devices *)

\* What the initialize() of a device takes of the endpoints and strings
Takes(kind) ==
    CASE kind = "mic" -> [in |-> 1, out |-> 0, str |-> 3]
      [] kind = "security" -> [in |-> 0, out |-> 0, str |-> 1]
      [] kind \in {"xone", "config"} -> [in |-> 1, out |-> 1, str |-> 0]
      [] OTHER -> [in |-> 1, out |-> 1, str |-> 1]

\* UsbReloadIdentity::after
AllocAfter(o) == [c \in Counters |-> o.before[c] + Takes(o.kind)[c]]

Kinds == {"pad", "xone", "mic", "config", "security"}

\* create_usb_instance's choice
KindOf(m, sub) == IF sub = "mic" THEN "mic" ELSE IF m = "xone" THEN "xone" ELSE "pad"

\* reload_subtype
ReloadSub(m, sub) == IF m = "xone" THEN "gamepad" ELSE sub

\* A device takes interface_count() interfaces
Interfaces(o) == IF o.kind = "mic" THEN <<o, o>> ELSE <<o>>

\* A device that is made is another object than any there is
Device(kind, m, sub) ==
    [kind |-> kind, mode |-> m, sub |-> sub, at |-> Len(slot) + 1, before |-> alloc, as |-> None,
     new |-> TRUE, opened |-> FALSE]

Place(o) == slot' = slot \o Interfaces(o) /\ alloc' = AllocAfter(o)

-----------------------------------------------------------------------------
(* Taking a device over (reuse_usb_instance) *)

\* Mutant: whatever the devices before it take by now
SameDeviceAnywhere(m, sub) ==
    LET id == Len(slot) + 1
    IN /\ id <= Len(prev) /\ battery = hadBattery
       /\ prev[id].kind # "config" /\ prev[id].at = id
       /\ prev[id].mode = m /\ prev[id].sub = sub

\* The one the next interface had has the same identity, and would have the
\* same endpoints and strings.  (A microphone's second interface has no
\* identity, nor has the config device.)
SameDevice(m, sub) ==
    LET id == Len(slot) + 1
    IN /\ id <= Len(prev) /\ battery = hadBattery
       /\ prev[id].kind # "config" /\ prev[id].at = id
       /\ prev[id].mode = m /\ prev[id].sub = sub /\ prev[id].before = alloc

\* The device that comes next: the same one as before, or a new one
Instance(kind, m, sub) ==
    IF SameDevice(m, sub) THEN prev[Len(slot) + 1] ELSE Device(kind, m, sub)

\* HIDConfigDevice::instance, always the same object
ConfigDevice ==
    [Device("config", None, None) EXCEPT
        !.new = FALSE,
        !.opened = \E i \in DOMAIN prev : prev[i].kind = "config" /\ prev[i].opened]

-----------------------------------------------------------------------------
(* What the host reads: each interface, with what the device announces      *)

\* The adapter is the same whatever its players are
Announced(as) == IF as # None /\ as.legacy THEN [as EXCEPT !.native = "gamepad"] ELSE as

Face(o, powered) ==
    [kind |-> o.kind, mode |-> o.mode, sub |-> o.sub, at |-> o.at, before |-> o.before,
     as |-> Announced(o.as), battery |-> powered /\ o.kind = "pad"]

HasXboxOne(table) == \E o \in Range(table) : o.kind = "xone"

\* Beside an Xbox One device the receiver isn't looked at (changed_types)
Descriptors ==
    [faces |-> [i \in DOMAIN slot |-> Face(slot[i], battery)],
     receiver |-> receiver /\ ~HasXboxOne(slot)]

-----------------------------------------------------------------------------
UsbInit ==
    /\ stage = "main" /\ slot = << >> /\ prev = << >>
    /\ alloc = [c \in Counters |-> 0]
    /\ emulated = NoEmulated
    /\ subs = << >> /\ lastSubs = << >> /\ players = << >>
    /\ mode = "hid" /\ requested = "hid" /\ detected = "hid" /\ forced = FALSE /\ reinitStack = FALSE
    /\ battery = FALSE /\ hadBattery = FALSE /\ receiver = FALSE /\ wasReceiver = FALSE
    /\ aloneInHid = FALSE
    /\ windows = FALSE /\ up = FALSE /\ read = None
    /\ loads = 0 /\ moves = MaxMoves

(* The host, and what runs between loads *)

Between == stage = "main"
Move == moves > 0 /\ moves' = moves - 1

\* initialize_device_stack
Reattach ==
    /\ Between /\ loads > 0 /\ ~up /\ up' = TRUE
    /\ UNCHANGED <<stage, tableVars, modeVars, deviceVars, windows, read, boundVars>>

\* The table with every device opened, or none
WithOpened(open) == [i \in DOMAIN slot |-> [slot[i] EXCEPT !.opened = open]]

Enumerate ==
    /\ Between /\ up /\ read = None
    /\ read' = Descriptors /\ slot' = WithOpened(TRUE)
    /\ UNCHANGED <<stage, prev, alloc, emulated, subs, lastSubs, players, modeVars, deviceVars, windows, up, boundVars>>

\* The host resets the bus, and enumerates again
BusReset ==
    /\ Between /\ Move /\ read # None
    /\ read' = None /\ slot' = WithOpened(FALSE)
    /\ UNCHANGED <<stage, prev, alloc, emulated, subs, lastSubs, players, modeVars, deviceVars, windows, up, loads>>

\* mark_windows_xb1_seen and mark_windows_string_seen: a load keeps both
SeeWindows ==
    /\ Between /\ Move /\ read # None /\ ~windows
    /\ windows' = TRUE
    /\ UNCHANGED <<stage, tableVars, modeVars, deviceVars, up, read, loads>>

\* host_detected, from what only a host of that kind does
HostDetected(m) ==
    /\ Between /\ Move /\ read # None
    /\ mode = "hid" \/ (mode = "x360" /\ m = "x360")
    /\ ~(m = detected /\ mode # m)
    /\ detected' = m /\ requested' = m
    /\ UNCHANGED <<stage, tableVars, mode, forced, reinitStack, deviceVars, hostVars, loads>>

\* take_device_stack_restart
RestartStack ==
    /\ Between /\ Move /\ read # None
    /\ up' = FALSE /\ read' = None /\ slot' = WithOpened(FALSE)
    /\ UNCHANGED <<stage, prev, alloc, emulated, subs, lastSubs, players, modeVars, deviceVars, windows, loads>>

\* process_auth_device_connection wants the console to start again
RequestReinit ==
    /\ Between /\ Move /\ read # None /\ "xone" \in {mode, requested} /\ ~reinitStack
    /\ reinitStack' = TRUE
    /\ UNCHANGED <<stage, tableVars, mode, requested, detected, forced, deviceVars, hostVars, loads>>

\* UsbMicDevice::process: it is the only device with a profile
MicProcess ==
    /\ Between /\ mode = "hid"
    /\ \E i \in DOMAIN slot :
           /\ slot[i].kind = "mic"
           /\ aloneInHid' = \A j \in DOMAIN slot : slot[j].at # slot[i].at => slot[j].kind \in {"config", "security"}
    /\ UNCHANGED <<stage, tableVars, modeVars, battery, hadBattery, receiver, wasReceiver, hostVars, boundVars>>

-----------------------------------------------------------------------------
(* A load (ConfigLoader::apply).  Nothing else runs until it ends.          *)

\* Up to prepare_for_config_reload: a mode a profile forced is taken back
\* unless the tool may be open; the devices decide about the battery
Begin ==
    /\ Between /\ loads < MaxLoads /\ loads' = loads + 1
    /\ stage' = "profiles"
    /\ \/ forced /\ forced' = FALSE /\ requested' = detected
       \/ UNCHANGED <<forced, requested>>
    /\ hadBattery' = battery
    /\ UNCHANGED <<battery, moves>> \/ (battery' = ~battery /\ Move)
    /\ wasReceiver' = receiver
    /\ prev' = slot /\ slot' = << >> /\ alloc' = [c \in Counters |-> 0]
    /\ emulated' = NoEmulated
    /\ lastSubs' = subs /\ subs' = << >> /\ players' = << >>
    /\ UNCHANGED <<mode, detected, reinitStack, receiver, aloneInHid, hostVars>>

\* A profile matches: the mode it forces, if any (with the tool open it is deferred)
Forces(force) ==
    IF force = None
    THEN UNCHANGED <<forced, moves>>
    ELSE forced' = TRUE /\ Move

\* and it is assigned to something else than USB
AssignElsewhere ==
    /\ stage = "profiles"
    /\ \E force \in Modes : Forces(force) /\ requested' = force
    /\ UNCHANGED <<stage, tableVars, mode, detected, reinitStack, deviceVars, hostVars, loads>>

\* The mode a profile's device is made for (usb_mode_for_subtype, uses_xinput_on_windows)
ModeFor(asked, sub, xinput) ==
    IF asked = "hid" /\ windows /\ xinput /\ sub \notin {"keyboard", "mic"} THEN "x360" ELSE asked

\* There is no place for it: a microphone beside a controller, or a second controller
Refused(m, sub) ==
    \/ sub = "mic" /\ m \in {"x360", "xone"} /\ ~aloneInHid
    \/ sub # "mic" /\ m = "ps3" /\ emulated["ps3"] # None

\* It shares the Xbox One device
Attach(sub, held) ==
    /\ players' = Append(players, [sub |-> sub, held |-> held])
    /\ UNCHANGED <<slot, alloc, emulated>>

\* A new or reused device becomes the mode's controller, and has this profile only
Emulate(m, sub, held) ==
    IF m \in DOMAIN emulated /\ sub # "mic"
    THEN /\ emulated' = [emulated EXCEPT ![m] = Len(slot) + 1]
         /\ players' = IF m = "xone" THEN <<[sub |-> sub, held |-> held]>> ELSE players
    ELSE UNCHANGED <<emulated, players>>

AddDevice(m, sub, held) ==
    Place(Instance(KindOf(m, sub), m, ReloadSub(m, sub))) /\ Emulate(m, sub, held)

\* or to USB (create_instance)
AssignUsb(force, sub, xinput, held) ==
    /\ stage = "profiles" /\ Len(subs) < MaxProfiles
    /\ Forces(force)
    /\ requested' = IF sub = "keyboard" THEN "hid" ELSE IF force = None THEN requested ELSE force
    /\ LET m == ModeFor(requested', sub, xinput)
       IN IF Refused(m, sub)
          THEN UNCHANGED <<slot, alloc, emulated, subs, players>>
          ELSE /\ subs' = Append(subs, sub)
               /\ IF m = "xone" /\ sub # "mic" /\ emulated["xone"] # None
                  THEN Attach(sub, held)
                  ELSE AddDevice(m, sub, held)
    /\ UNCHANGED <<stage, prev, lastSubs, mode, detected, reinitStack, deviceVars, hostVars, loads>>

\* The config keeps an Xbox One adapter that no player is on, if there is one
KeepAdapter ==
    /\ stage = "profiles" /\ stage' = "config"
    /\ \/ /\ requested = "xone" /\ ~forced /\ emulated["xone"] = None
          /\ SameDevice("xone", "gamepad")
          /\ Place(prev[Len(slot) + 1]) /\ emulated' = [emulated EXCEPT !["xone"] = Len(slot) + 1]
       \/ UNCHANGED <<slot, alloc, emulated>>
    /\ UNCHANGED <<prev, subs, lastSubs, players, modeVars, deviceVars, hostVars, boundVars>>

\* A 360 sees nothing but its microphone
Microphone360 == requested = "x360" /\ subs # << >> /\ Range(subs) = {"mic"}

\* No USB device, and nothing stands in for one.  (Whether a profile matched
\* for anything but USB is left open.)
NoneOnUsb == subs = << >> /\ ~(requested = "xone" /\ emulated["xone"] # None)

AddConfig ==
    /\ stage = "config" /\ stage' = "security"
    /\ \/ /\ NoneOnUsb \/ requested = "hid" \/ (requested = "x360" /\ ~Microphone360)
          /\ Place(ConfigDevice)
       \/ /\ requested # "hid" /\ (requested = "x360" => Microphone360)
          /\ UNCHANGED <<slot, alloc>>
    /\ UNCHANGED <<prev, emulated, subs, lastSubs, players, modeVars, deviceVars, hostVars, boundVars>>

\* Mutant: the security interface is always made again
AddNewSecurity ==
    /\ stage = "security" /\ stage' = "end"
    /\ IF requested \in {"hid", "x360"} /\ ~Microphone360
       THEN Place(Device("security", requested, None))
       ELSE UNCHANGED <<slot, alloc>>
    /\ UNCHANGED <<prev, emulated, subs, lastSubs, players, modeVars, deviceVars, hostVars, boundVars>>

AddSecurity ==
    /\ stage = "security" /\ stage' = "end"
    /\ IF requested \in {"hid", "x360"} /\ ~Microphone360
       THEN Place(Instance("security", requested, None))
       ELSE UNCHANGED <<slot, alloc>>
    /\ UNCHANGED <<prev, emulated, subs, lastSubs, players, modeVars, deviceVars, hostVars, boundVars>>

-----------------------------------------------------------------------------
(* The end of a load *)

Reporting == {i \in DOMAIN players : ~players[i].held}
Instruments == \A i \in Reporting : players[i].sub = "guitar"

\* update_identity: what the Xbox One device is to announce; always is
\* whether the config asks for the adapter
Identity(o, always) ==
    [legacy |-> ~forced /\ (always \/ Cardinality(Reporting) > 1 \/ (Instruments /\ o.as # None /\ o.as.legacy)),
     native |-> IF Reporting # {} THEN players[Min(Reporting)].sub
                ELSE IF players # << >> THEN players[1].sub ELSE o.as.native]

IdentityDiffers(o, identity) ==
    /\ o.as # None
    /\ identity.legacy # o.as.legacy \/ (~identity.legacy /\ identity.native # o.as.native)

\* changed_types, but for the Xbox One device's
TypesChanged ==
    \/ ~IsPrefix(subs, lastSubs) \/ Len(subs) < Len(lastSubs)
    \/ windows # wasReceiver

\* The same objects as before (changed_types)
SameObjects ==
    /\ Len(slot) = Len(prev)
    /\ \A i \in DOMAIN slot : slot[i].kind = prev[i].kind /\ ~slot[i].new

\* Mutant: the last load's devices are kept
KeepLast == UNCHANGED prev

\* finish_config_reload
ForgetLast == prev' = << >>

\* The stack is restarted, or goes on, and then the last load's devices are
\* gone and the new ones there; with the Xbox One device as it is to be.
\* What only a load looks at is forgotten with it.
Finish(changed, devices) ==
    LET restart == reinitStack \/ battery # hadBattery \/ requested # mode \/ ~SameObjects \/ changed
    IN /\ stage' = "main" /\ ForgetLast
       /\ mode' = requested /\ reinitStack' = FALSE
       /\ slot' = [i \in DOMAIN devices |->
                      [devices[i] EXCEPT !.new = FALSE, !.opened = @ /\ ~restart]]
       /\ up' = (up /\ ~restart) /\ read' = IF restart THEN None ELSE read
       /\ receiver' = windows
       /\ players' = << >> /\ lastSubs' = << >> /\ hadBattery' = battery /\ wasReceiver' = receiver'
       /\ UNCHANGED <<alloc, emulated, subs, requested, detected, forced, battery, aloneInHid, windows, boundVars>>

EndLoad ==
    /\ stage = "end" /\ emulated["xone"] = None
    /\ Finish(TypesChanged, slot)

\* With an Xbox One device its identity is all that counts, which is left
\* as it is if nothing could authenticate for another
EndXboxOneLoad ==
    /\ stage = "end" /\ emulated["xone"] # None
    /\ LET i == emulated["xone"]
       IN /\ slot[i].kind = "xone"
          /\ \E always \in BOOLEAN :
                LET identity == Identity(slot[i], always)
                    differs == IdentityDiffers(slot[i], identity)
                IN \/ Finish(differs, [slot EXCEPT ![i].as = identity])
                   \/ differs /\ ~forced /\ Finish(FALSE, slot)

\* Another class's object taken for an XboxOneGamepadDevice: anything may
\* follow, and what does isn't modelled
Undefined ==
    /\ stage = "end" /\ emulated["xone"] # None
    /\ slot[emulated["xone"]].kind # "xone"
    /\ stage' = "undefined"
    /\ UNCHANGED <<tableVars, modeVars, deviceVars, hostVars, boundVars>>

Load ==
    \/ Begin \/ AssignElsewhere
    \/ \E force \in Modes \union {None}, sub \in Subs, xinput, held \in BOOLEAN :
           AssignUsb(force, sub, xinput, held)
    \/ KeepAdapter \/ AddConfig \/ AddSecurity \/ EndLoad \/ EndXboxOneLoad \/ Undefined

UsbNext ==
    \/ Reattach \/ Enumerate \/ BusReset \/ SeeWindows \/ (\E m \in Modes \ {"hid"} : HostDetected(m))
    \/ RestartStack \/ RequestReinit \/ MicProcess
    \/ Load

UsbSpec == UsbInit /\ [][UsbNext]_usbVars

-----------------------------------------------------------------------------
(* Correctness *)

UsbTypeOK ==
    /\ stage \in {"main", "profiles", "config", "security", "end", "undefined"}
    /\ stage = "main" => prev = << >>
    /\ \A o \in Range(slot) \union Range(prev) : o.kind \in Kinds /\ o.at \in 1..(Len(slot) + Len(prev))
    /\ alloc \in [Counters -> Nat]
    /\ Range(subs) \union Range(lastSubs) \subseteq Subs
    /\ {mode, requested, detected} \subseteq Modes
    /\ {forced, reinitStack, battery, hadBattery, windows, receiver, wasReceiver, aloneInHid, up} \subseteq BOOLEAN

\* No two devices of a load have an endpoint or a string in common, however
\* many of them were taken over from the load before (reuse_usb_instance
\* restores the allocation as it was after the device).
EndpointsDisjoint ==
    \A i, j \in DOMAIN slot : slot[i].at < slot[j].at =>
        \A c \in Counters : AllocAfter(slot[i])[c] <= slot[j].before[c]

\* What the host enumerated is what the device has: after every load that
\* leaves the device stack running, each interface is the one the host read,
\* with the same descriptors, and is open to it.  (A load that goes on with
\* other devices or another identity leaves the host with endpoints nobody
\* serves: ConfigLoader::apply, changed_types, update_xbox_one_identity.)
HostServed ==
    /\ EndpointsDisjoint
    /\ Between /\ read # None => read = Descriptors /\ \A o \in Range(slot) : o.opened

\* A load drops the host's connection only when something the host knows
\* changes: what it would read, the mode, the battery or the kind of host, or
\* when an authentication asked for it.  A config that is applied again, or
\* an edited one with the same devices, leaves the host alone.  (An Xbox One
\* device taken over as a microphone is left out: see
\* MicrophoneNeverController.)
RestartsOnlyForCause ==
    [][stage = "end" /\ read # None /\ read' = None =>
           \/ Descriptors' # read
           \/ emulated["xone"] = None /\ HasXboxOne(slot)
           \/ mode' # mode \/ reinitStack \/ battery # hadBattery \/ receiver' # wasReceiver]_usbVars

\* The microphone is never the Xbox One mode's emulated controller, as
\* create_usb_instance says of it.  update_xbox_one_identity takes the
\* controller for an XboxOneGamepadDevice.
MicrophoneNeverController ==
    emulated["xone"] # None => slot[emulated["xone"]].kind = "xone"
=============================================================================
