------------------------------- MODULE MCLoads -------------------------------
(***************************************************************************)
(* What a reload takes its config from, and what it makes of it on USB,    *)
(* for checking with TLC.  ConfigSystem on any flash, blank or cut off in  *)
(* a write, and UsbInstances share no state, so each is explored by        *)
(* itself: a behaviour is one of either, as Init picks, and the other      *)
(* stays at one initial state.                                             *)
(***************************************************************************)
EXTENDS MCConfigSystem, UsbInstances

VARIABLE part   \* the one explored

PartsInit ==
    /\ part \in {"config", "usb"} /\ InitFresh /\ UsbInit
    /\ part = "usb" => flash = BlankArea

PartsNext ==
    \/ part = "config" /\ Next /\ UNCHANGED <<part, usbVars>>
    \/ part = "usb" /\ UsbNext /\ UNCHANGED <<part, vars>>

PartsSpec == PartsInit /\ [][PartsNext]_<<part, vars, usbVars>>

-----------------------------------------------------------------------------
\* The type invariants of both
TypesOK == TypeOK /\ UsbTypeOK
=============================================================================
