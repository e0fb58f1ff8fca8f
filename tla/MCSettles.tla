------------------------------ MODULE MCSettles ------------------------------
(***************************************************************************)
(* What ConfigSystem and SecondaryPico come to in the end, for checking    *)
(* with TLC.  The two share no state, so each is explored by itself: a     *)
(* behaviour is one of either, as Init picks, and the other stays at one   *)
(* initial state.  The fairness is each one's own, and guarded so that it  *)
(* asks nothing of the one that stays.                                     *)
(***************************************************************************)
EXTENDS MCConfigSystem

CONSTANTS
    p, q, Pins, NoPin, NSlots, QueueMax, ReadMax, NChunks, HostTries, MaxUpdates, SlowReboot,
    Moves, MaxMoves   \* SecondaryPico

VARIABLES
    part,   \* the one explored
    inputs, owners, view, picoPc, handling, connected, checked, dirty, failed, silence, ota, stage,
    offset, updates, target, hostOta, hostCmd, hostNext, tries, back, transfer, phase, configBuf,
    rxEvents, rxVersion, up, version, config, last, queue, buffer, pending, taking, slot, phys, lost,
    dropped, movesLeft

Pico == INSTANCE SecondaryPico WITH pc <- picoPc, left <- movesLeft

ASSUME SettlesAssumption == Pico!PicoAssumption

picoVars == <<inputs, owners, view, picoPc, handling, connected, checked, dirty, failed, silence, ota,
              stage, offset, updates, target, hostOta, hostCmd, hostNext, tries, back, transfer, phase,
              configBuf, rxEvents, rxVersion, up, version, config, last, queue, buffer, pending,
              taking, slot, phys, lost, dropped, movesLeft>>

PartsInit ==
    /\ part \in {"config", "pico"} /\ Init /\ Pico!Init
    /\ part = "config" => version = "ours" /\ inputs[1].pin = p
    /\ part = "pico" => flash = Layout(EmptyImage)

PartsNext ==
    \/ part = "config" /\ Next /\ UNCHANGED <<part, picoVars>>
    \/ part = "pico" /\ Pico!Next /\ UNCHANGED <<part, vars>>

Config == part = "config"
OfPico == part = "pico"

PartsSpec ==
    /\ PartsInit /\ [][PartsNext]_<<part, vars, picoVars>>
    /\ WF_vars(Config /\ (Loop \/ Flash))
    /\ SF_vars(Config /\ ReloadDue) /\ SF_vars(Config /\ UploadStalled) /\ SF_vars(Config /\ CommitDue)
    /\ WF_picoVars(OfPico /\ (\/ Pico!NothingInFlight \/ Pico!InFlight \/ Pico!Complete
                              \/ Pico!Reconnected \/ Pico!HandleReconnected))
    /\ WF_picoVars(OfPico /\ (Pico!OtaStep \/ Pico!SendConfig \/ Pico!Poll \/ Pico!NotNow))
    /\ SF_picoVars(OfPico /\ (Pico!OtaStep \/ Pico!SendConfig \/ Pico!Poll))
    /\ WF_picoVars(OfPico /\ (\/ Pico!HostWait \/ Pico!HostSend \/ Pico!HostSent \/ Pico!HostRetry
                              \/ Pico!HostFailed))
    /\ WF_picoVars(OfPico /\ Pico!HostGone)
    /\ WF_picoVars(OfPico /\ (Pico!Arrive \/ Pico!Miss)) /\ WF_picoVars(OfPico /\ Pico!Slave)
    /\ WF_picoVars(OfPico /\ Pico!Silence) /\ WF_picoVars(OfPico /\ Pico!Booted)

-----------------------------------------------------------------------------
\* The property of SecondaryPico, for the behaviours that explore it; it is commented there
ConfigSettles == OfPico => Pico!ConfigSettles
=============================================================================
