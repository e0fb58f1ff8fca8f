----------------------------- MODULE DeviceWatch -----------------------------
(***************************************************************************)
(* What makes the device load its configuration again by itself: a gate,   *)
(* the pin that tells whether a device's connector is plugged in           *)
(* (src/src/config/device_gate.cpp), and the presence of a USB host        *)
(* (src/include/emulation/usb/usb_host_presence.hpp), both watched by the  *)
(* main loop (src/src/main.cpp), and the reload they schedule              *)
(* (src/src/managers/config_manager.cpp).                                  *)
(*                                                                         *)
(* The clock is millis(), which wraps; a pass of the loop reads it once.   *)
(***************************************************************************)
EXTENDS Integers

CONSTANTS
    Wrap,       \* the clock's range, 2^32 in the code
    Settle,     \* SETTLE_MS
    Absent,     \* ABSENT_MS
    NoVbus,     \* NO_VBUS_MS
    MaxLag,     \* the longest a pass takes
    VbusKnown,  \* vbus_present knows
    Moves       \* how often pins, hosts and the tool change

WatchAssumption ==
    /\ Settle \in Nat \ {0} /\ Absent \in Nat \ {0} /\ NoVbus \in 1..Absent
    /\ MaxLag \in Nat \ {0}
    /\ Wrap \in Nat /\ Wrap > Settle + MaxLag /\ Wrap > Absent + MaxLag
    /\ VbusKnown \in BOOLEAN /\ Moves \in Nat

VARIABLES
    now,         \* millis()
    pin,         \* what the gate's pin reads as
    open,        \* DeviceGateState::open, and since when the pin has read otherwise
    changing, changedSince,
    reloadDue,   \* m_reload_due
    built,       \* whether the load built the gated device
    host, vbus,  \* a host is active on the bus, and supplies it
    hostSeen, raw, rawSince, present,   \* UsbHostPresence
    used,        \* whether the profiles were picked with a host
    reinitTime,  \* m_reinit_time: 0 is none
    working,     \* m_working
    pc,
    differs,     \* history: passes in a row that found the pin otherwise
    unseen,      \* history: milliseconds in a row without a host seen
    dropped,     \* history: a reload that was due was dropped
    left

gateVars == <<open, changing, changedSince, reloadDue>>
presenceVars == <<hostSeen, raw, rawSince, present>>
loadVars == <<built, used>>
worldVars == <<pin, host, vbus>>
vars == <<now, worldVars, gateVars, presenceVars, loadVars, reinitTime, working, pc,
          differs, unseen, dropped, left>>

Time == 0..Wrap - 1
Since(t) == (now - t) % Wrap   \* unsigned

\* The type invariant
TypeOK ==
    /\ now \in Time /\ changedSince \in Time /\ rawSince \in Time /\ reinitTime \in Time
    /\ \A b \in {pin, open, changing, reloadDue, built, host, vbus, hostSeen, raw,
                 present, used, working, dropped} : b \in BOOLEAN
    /\ pc \in {"presence", "gates", "reload", "load"}
    /\ differs \in 0..Settle + 1 /\ unseen \in 0..Absent /\ left \in 0..Moves

\* The device has loaded, some time after power on
Init ==
    /\ now = 1 /\ pin = FALSE /\ open = pin /\ changing = FALSE /\ changedSince = 0
    /\ reloadDue = FALSE /\ built = pin
    /\ host = FALSE /\ vbus = TRUE
    /\ hostSeen = FALSE /\ raw = TRUE /\ rawSince = 0 /\ present = TRUE /\ used = TRUE
    /\ reinitTime = 0 /\ working = FALSE /\ pc = "presence"
    /\ differs = 0 /\ unseen = 0 /\ dropped = FALSE /\ left = Moves

Move == left > 0 /\ left' = left - 1

-----------------------------------------------------------------------------
(* The world *)

Plug ==
    /\ Move /\ pin' = ~pin
    /\ UNCHANGED <<now, host, vbus, gateVars, presenceVars, loadVars, reinitTime, working, pc,
                   differs, unseen, dropped>>

\* A host needs VBUS; asleep it suspends the bus
Host ==
    /\ Move /\ \E h, v \in BOOLEAN : <<h, v>> # <<host, vbus>> /\ (h => v) /\ host' = h /\ vbus' = v
    /\ UNCHANGED <<now, pin, gateVars, presenceVars, loadVars, reinitTime, working, pc,
                   differs, unseen, dropped>>

\* reload(): millis() may be 0, which is none
ScheduledAt(t) == reinitTime' = t

BeginUpload ==
    /\ pc = "presence" /\ ~working /\ Move /\ working' = TRUE
    /\ UNCHANGED <<now, worldVars, gateVars, presenceVars, loadVars, reinitTime, pc, differs,
                   unseen, dropped>>

\* An upload that is complete asks for a reload, one that is aborted doesn't
EndUpload ==
    /\ pc = "presence" /\ working /\ working' = FALSE
    /\ ScheduledAt(now) \/ UNCHANGED reinitTime
    /\ dropped' = (dropped \/ (now = 0))
    /\ UNCHANGED <<now, worldVars, gateVars, presenceVars, loadVars, pc, differs, unseen, left>>

-----------------------------------------------------------------------------
(* update_usb_host_presence *)

NoHost == VbusKnown /\ ~vbus

\* It is given time to turn up, or to come back
GoneBriefly == ~raw' /\ (now' - rawSince') % Wrap < IF NoHost THEN NoVbus ELSE Absent

\* The loop comes round, and time has passed; a reload that waits when the clock
\* wraps is ahead of it again
Pass(lag) ==
    /\ pc = "presence" /\ pc' = "gates"
    /\ now' = (now + lag) % Wrap
    /\ hostSeen' = IF NoHost THEN FALSE ELSE hostSeen \/ host
    /\ unseen' = CASE hostSeen' -> 0
                   [] ~hostSeen' /\ unseen + lag > Absent -> Absent
                   [] OTHER -> unseen + lag
    /\ raw' = hostSeen'
    /\ rawSince' = IF hostSeen' # raw THEN now' ELSE rawSince
    /\ IF raw' = present \/ GoneBriefly
       THEN UNCHANGED <<present, reinitTime>>
       ELSE present' = raw' /\ ScheduledAt(now')
    /\ dropped' = (dropped \/ (now' < now /\ reinitTime # 0) \/ (now' = 0 /\ present' # present))
    /\ UNCHANGED <<worldVars, gateVars, loadVars, working, differs, left>>

-----------------------------------------------------------------------------
(* update_device_gates *)

\* Mutant: bouncing back doesn't start over
UpdateGateKeeping ==
    /\ changing' = (changing \/ pin # open)
    /\ changedSince' = IF pin # open /\ ~changing THEN now ELSE changedSince
    /\ reloadDue' = (pin # open /\ Since(changedSince') >= Settle)

\* DeviceGateState::update
UpdateGate ==
    /\ changing' = (pin # open)
    /\ changedSince' = IF pin # open /\ ~changing THEN now ELSE changedSince
    /\ reloadDue' = (pin # open /\ Since(changedSince') >= Settle)

Poll ==
    /\ pc = "gates" /\ pc' = "reload"
    /\ IF reloadDue
       THEN UNCHANGED <<gateVars, reinitTime, differs, dropped>>
       ELSE /\ UpdateGate
            /\ differs' = IF pin # open THEN (IF differs <= Settle THEN differs + 1 ELSE differs) ELSE 0
            /\ IF reloadDue' THEN ScheduledAt(now) ELSE UNCHANGED reinitTime
            /\ dropped' = (dropped \/ (reloadDue' /\ now = 0))
            /\ UNCHANGED open
    /\ UNCHANGED <<now, worldVars, presenceVars, loadVars, working, unseen, left>>

-----------------------------------------------------------------------------
(* reload_config *)

\* should_reinit
Due == reinitTime # 0 /\ now > reinitTime

NotDue ==
    /\ pc = "reload" /\ (working \/ ~Due) /\ pc' = "presence"
    /\ UNCHANGED <<now, worldVars, gateVars, presenceVars, loadVars, reinitTime, working,
                   differs, unseen, dropped, left>>

\* An upload that begins while the tool is told of the reload: there is nothing to
\* load, and the reload counts as done
LoadUnreadable ==
    /\ pc = "reload" /\ ~working /\ Due /\ pc' = "presence"
    /\ Move /\ working' = TRUE
    /\ reinitTime' = 0 /\ dropped' = TRUE
    /\ UNCHANGED <<now, worldVars, gateVars, presenceVars, loadVars, differs, unseen>>

\* DeviceGates::clear, and the first to ask reads the pin again
ForgetReadings == open' = pin /\ changing' = FALSE /\ reloadDue' = FALSE

\* begin_reinit, and collect_device_id over the config
BeginLoad ==
    /\ pc = "reload" /\ ~working /\ Due /\ pc' = "load"
    /\ reinitTime' = 0
    /\ ForgetReadings
    /\ differs' = 0 /\ dropped' = FALSE
    /\ UNCHANGED <<now, worldVars, changedSince, presenceVars, built, used, working, unseen, left>>

\* Mutant: each pass over the config reads the pin
CheckAgain == pin

\* DeviceGates::check, the second time
Check == open

\* load_device, and the triggers that match with a host only
Build ==
    /\ pc = "load" /\ pc' = "presence"
    /\ built' = Check
    /\ used' = present
    /\ UNCHANGED <<now, worldVars, gateVars, presenceVars, reinitTime, working, differs,
                   unseen, dropped, left>>

-----------------------------------------------------------------------------
Loop == (\E lag \in 0..MaxLag : Pass(lag)) \/ Poll \/ NotDue \/ BeginLoad \/ LoadUnreadable \/ Build
World == Plug \/ Host \/ BeginUpload \/ EndUpload

Next == World \/ Loop

Spec == Init /\ [][Next]_vars

\* The loop comes round and the clock goes on; an upload ends
Fairness ==
    /\ WF_vars(Loop) /\ SF_vars(\E lag \in 1..MaxLag : Pass(lag))
    /\ SF_vars(BeginLoad) /\ SF_vars(EndUpload)

LiveSpec == Spec /\ Fairness

-----------------------------------------------------------------------------
(* What only bounced doesn't have the config loaded: a pin has to read      *)
(* otherwise at every look for SETTLE_MS ("Rides out the contacts bouncing  *)
(* as a connector goes in or out"), and a host that isn't seen for a moment *)
(* only, because VBUS bounced or it is asleep, keeps its profiles.          *)
OnlySettledReloads ==
    [][/\ reloadDue' /\ ~reloadDue => differs' * MaxLag > Settle
       /\ present /\ ~present' => unseen' >= IF NoHost THEN NoVbus ELSE Absent]_vars

(* What was plugged in or out is loaded in the end, with the profiles of    *)
(* the host that is there, however it bounces, whatever uploads come        *)
(* between, and though it changes between a load's two passes over the      *)
(* config ("Read once per load, so every pass over the config sees the      *)
(* same") - unless a reload was dropped.                                    *)
LoadsCatchUp ==
    ((pin # built \/ present # used) /\ ~dropped) ~> ((pin = built /\ present = used) \/ dropped)
=============================================================================
