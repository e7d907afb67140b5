-------------------------------- MODULE MCAsk ---------------------------------
(***************************************************************************)
(* Small instances of Ask for TLC.                                         *)
(***************************************************************************)
EXTENDS Ask, TLC

CONSTANTS s1, s2, c1, c2, r1, r2

Symmetry ==
    Permutations({s1, s2}) \cup Permutations({c1, c2}) \cup Permutations({r1, r2})
===============================================================================
