---------------------------- MODULE MCConnection ----------------------------
(* Connection for TLC: two sessions, two units of every kind.                *)
EXTENDS Connection

MCUnits == {"CONNECT", "BARE", "EMPTY", "STRAY", "RESET", "OTHER"}
MCUnlimited == -1
=============================================================================
