-------------------------- MODULE MCCheckBundle ---------------------------
(* CheckBundle for TLC: one agent that creates and one that creates and      *)
(* overwrites.                                                               *)
EXTENDS CheckBundle

CONSTANTS a1, a2
MCAgents == {a1, a2}
MCUpdating == {a2}
=============================================================================
