------------------------------ MODULE MCThrottle -------------------------------
(***************************************************************************)
(* A small instance of Throttle for TLC.                                   *)
(***************************************************************************)
EXTENDS Throttle

CONSTANTS r1, r2
================================================================================
