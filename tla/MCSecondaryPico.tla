-------------------------- MODULE MCSecondaryPico --------------------------
(* Sizes for checking SecondaryPico with TLC *)
EXTENDS SecondaryPico, TLC

CONSTANTS p, q
=============================================================================
