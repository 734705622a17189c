------------------------------ MODULE MCStatsd ------------------------------
(* StatsdServer for TLC: model values for the clients and processors.        *)
EXTENDS StatsdServer

CONSTANTS c1, c2, c3, p1, p2
=============================================================================
