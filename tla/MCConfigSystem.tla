--------------------------- MODULE MCConfigSystem ---------------------------
(* Sizes for checking ConfigSystem with TLC: two sectors of two units. *)
EXTENDS ConfigSystem, TLC

CONSTANTS small, large, empty, p0, p1, p2

MCMainSize == empty :> 0 @@ small :> 1 @@ large :> 2
\* Every aux block fits beside every other one behind either config
MCAuxSize == p0 :> 0 @@ p1 :> 1 @@ p2 :> 1
\* and here one is too big to be built beside a config that has another
MCWideAuxSize == p0 :> 0 @@ p1 :> 1 @@ p2 :> 2

-----------------------------------------------------------------------------
(* The stored image is the one flash holds, or the one a write that has     *)
(* started ends with; the pairings it is to have next are the cached ones   *)
(* as long as their commit waits.                                           *)
Stored ==
    CASE pc = "write" /\ job.live -> Footer(cache)
      [] pc = "write" /\ ~job.live /\ job # NoJob -> job.image
      [] OTHER -> Footer(flash)

Store == INSTANCE ConfigStore WITH
    saved <- Stored,
    kept <- IF commit = "none" THEN memory ELSE Footer(cache).aux

(* However uploads, saves, pairings, reloads, aborts, delayed commits and   *)
(* restarts meet, the user sees a stored config that changes as a whole,    *)
(* and only by a save of a config that was asked for or by the device's     *)
(* pairings (config.cpp, config_storage.cpp and FlashPROM.cpp together).    *)
ImplementsConfigStore == Store!Spec
=============================================================================
