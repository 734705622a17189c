----------------------------- MODULE MCReverse -----------------------------
(* Reverse for TLC.                                                          *)
EXTENDS Reverse

CONSTANTS b1, b2, b3
MCBrokers == {b1, b2, b3}
MCUnlimited == -1
=============================================================================
