---------------------------- MODULE MCControllers ----------------------------
(***************************************************************************)
(* Real controllers, on the USB host and over classic Bluetooth, for       *)
(* checking with TLC.  ConsoleAuth and BtClassic share no state, so each   *)
(* is explored by itself: a behaviour is one of either, as Init picks, and *)
(* the other stays at its initial state.  The fairness is each one's own,  *)
(* and guarded so that it asks nothing of the one that stays.              *)
(***************************************************************************)
EXTENDS ConsoleAuth

CONSTANTS
    gip1, gip2, chip,   \* controllers on the USB host, and an auth chip
    pro, pad, ds3,      \* controllers over Bluetooth: a Switch Pro Controller, another, and a DS3
    Controllers, Switches, Keyless, Stored, MaxConns, MaxSlots, MaxDevices, Nobody, Free, BtMoves

VARIABLES
    part,   \* the one explored
    conn, up, authenticated, bonded, inquiry, naming, found, searching, scanPhase, scanTimer, sdp,
    pending, slots, retry, wake, links, waiting, assignable, paired, pairKey, stackKey, forgotten, btLeft

Bt == INSTANCE BtClassic WITH Moves <- BtMoves, left <- btLeft

ASSUME ControllersAssumption == Bt!ClassicAssumption

btVars == <<conn, up, authenticated, bonded, inquiry, naming, found, searching, scanPhase, scanTimer,
            sdp, pending, slots, retry, wake, links, waiting, assignable, paired, pairKey, stackKey,
            forgotten, btLeft>>

PartsInit == part \in {"auth", "bt"} /\ Init /\ Bt!Init

PartsNext ==
    \/ part = "auth" /\ Next /\ UNCHANGED <<part, btVars>>
    \/ part = "bt" /\ Bt!Next /\ UNCHANGED <<part, vars>>

\* The safety of both
PartsSafe == PartsInit /\ [][PartsNext]_<<part, vars, btVars>>

PartsSpec ==
    /\ PartsSafe
    /\ WF_vars(part = "auth" /\ Loop)
    /\ SF_vars(part = "auth" /\ NotDue) /\ SF_vars(part = "auth" /\ Loading)
    /\ SF_vars(part = "auth" /\ Open) /\ SF_vars(part = "auth" /\ Start)
    /\ WF_btVars(part = "bt" /\ Bt!SyncReconnect) /\ WF_btVars(part = "bt" /\ Bt!ScanTimeout)
    /\ WF_btVars(part = "bt" /\ Bt!SdpComplete) /\ WF_btVars(part = "bt" /\ Bt!InquiryComplete)
    /\ \A n \in 1..MaxConns :
          /\ WF_btVars(part = "bt" /\ Bt!Ends(n))
          /\ WF_btVars(part = "bt" /\ Bt!Closed(n) /\ conn[n].phase = "closing")
    /\ WF_btVars(part = "bt" /\ Bt!Tick) /\ WF_btVars(part = "bt" /\ Bt!UpdateHosts)

-----------------------------------------------------------------------------
\* The type invariants of both
TypesOK == TypeOK /\ Bt!TypeOK

\* The properties of BtClassic, named for the configuration; each is commented there
ConnectionsKnown == Bt!ConnectionsKnown
HostsAreConnected == Bt!HostsAreConnected
KeysKept == Bt!KeysKept
WakeEnds == Bt!WakeEnds
NoStaleKeyOffered == Bt!NoStaleKeyOffered
=============================================================================
