----------------------------- MODULE ConfigStore -----------------------------
(***************************************************************************)
(* What the firmware promises of its stored config, without the cache, the *)
(* delays and the sectors it keeps the promise with: one stored image that *)
(* changes as a whole; whose main config is one the user had saved since   *)
(* the last one, or the one the device runs; whose pairings are the        *)
(* device's; and that the device starts from again.  ConfigSystem          *)
(* implements it (module MCConfigSystem).                                  *)
(***************************************************************************)
CONSTANTS Mains, Pairings

VARIABLES
    saved,     \* the stored image: its main config and its pairings
    running,   \* the main config the device runs
    memory,    \* the pairings the device has
    kept,      \* the pairings the next image is to have
    asked      \* the stored main config and those a save was asked for since

vars == <<saved, running, memory, kept, asked>>

Init ==
    /\ saved \in [main : Mains, aux : Pairings]
    /\ running = saved.main
    /\ memory = saved.aux
    /\ kept = memory
    /\ asked = {saved.main}

\* A config that was uploaded is tried out
Preview ==
    /\ running' \in Mains
    /\ UNCHANGED <<saved, memory, kept, asked>>

\* A controller is paired or forgotten, and stored at once or when it can be
Pair ==
    /\ memory' \in Pairings
    /\ kept' \in {kept, memory'}
    /\ UNCHANGED <<saved, running, asked>>

\* A save is asked for, to be carried out when it can be
Ask ==
    /\ \E main \in Mains : asked' = asked \union {main}
    /\ UNCHANGED <<saved, running, memory, kept>>

Save ==
    /\ \E main \in asked \union {running} :
           /\ saved' = [main |-> main, aux |-> memory]
           /\ asked' = asked \union {main}
    /\ kept' = memory
    /\ UNCHANGED <<running, memory>>

\* The requests before a save are void once it is done
Forget ==
    /\ asked' = {saved.main}
    /\ UNCHANGED <<saved, running, memory, kept>>

\* The pairings are stored on their own
StorePairings ==
    /\ saved' = [saved EXCEPT !.aux = kept]
    /\ kept' = memory
    /\ UNCHANGED <<running, memory, asked>>

\* Power goes: what wasn't stored is forgotten
Restart ==
    /\ running' = saved.main
    /\ memory' = saved.aux
    /\ kept' = memory'
    /\ asked' = {saved.main}
    /\ UNCHANGED saved

Next == Preview \/ Pair \/ Ask \/ Save \/ Forget \/ StorePairings \/ Restart

Spec == Init /\ [][Next]_vars
=============================================================================
