---------------------------- MODULE MCCollection ----------------------------
(* Collection for TLC: model values for the requests and the sources, and    *)
(* the symmetry of the requests.                                             *)
EXTENDS Collection, TLC

CONSTANTS r1, r2, p1, k1

Symmetry == Permutations({r1, r2})
=============================================================================
