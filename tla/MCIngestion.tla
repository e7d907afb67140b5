------------------------------ MODULE MCIngestion -----------------------------
(***************************************************************************)
(* Small instances of Ingestion for TLC.                                   *)
(***************************************************************************)
EXTENDS Ingestion, TLC

Symmetry == Permutations(Run) \cup Permutations(Id)
===============================================================================
