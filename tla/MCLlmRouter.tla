----------------------------- MODULE MCLlmRouter -------------------------------
(***************************************************************************)
(* A small instance of LlmRouter for TLC.                                  *)
(***************************************************************************)
EXTENDS LlmRouter

\* Role, text, text with the finish reason, finish, usage on a chunk without
\* choices, and usage on one with.
Kind(choice, text, end, use) ==
    [choice |-> choice, text |-> text, finish |-> end, usage |-> use]

Kinds == {Kind(TRUE, FALSE, FALSE, FALSE), Kind(TRUE, TRUE, FALSE, FALSE),
          Kind(TRUE, TRUE, TRUE, FALSE),   Kind(TRUE, FALSE, TRUE, FALSE),
          Kind(FALSE, FALSE, FALSE, TRUE), Kind(TRUE, FALSE, TRUE, TRUE)}
================================================================================
