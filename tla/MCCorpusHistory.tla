--------------------------- MODULE MCCorpusHistory ----------------------------
(***************************************************************************)
(* A small instance of CorpusHistory for TLC.                              *)
(***************************************************************************)
EXTENDS CorpusHistory, TLC

CONSTANTS s1, s2, c1, c2

\* Nothing is claimed of publications out of order: do not explore beyond one.
InOrder == ordered

Symmetry == Permutations({s1, s2}) \cup Permutations({c1, c2})
===============================================================================
