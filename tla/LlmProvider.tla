------------------------------ MODULE LlmProvider ------------------------------
(***************************************************************************)
(* What the LlmProvider interface promises: complete() answers or fails,   *)
(* stream() gives deltas of one source only, in order, until it ends,      *)
(* fails or is stopped by the caller, and nothing changes after.  A single *)
(* provider promises it, and so does the router that walks a chain.        *)
(***************************************************************************)
EXTENDS Naturals, Sequences

CONSTANTS Source,
          Position      \* where in a source's output a delta may be: numbers

VARIABLES answering,   \* the sources that have answered: none yet, or one
          deltas,      \* what the caller holds
          phase        \* "open", or how it ended

providerVars == <<answering, deltas, phase>>

ProviderInit ==
    /\ answering = {}
    /\ deltas = <<>>
    /\ phase = "open"

\* A source answers, with a delta or with nothing; no other does after it.
Answers(s) ==
    /\ phase = "open"
    /\ answering \subseteq {s}
    /\ answering' = {s}
    /\ \/ \E n \in Position :
             /\ \A k \in DOMAIN deltas : deltas[k].chunk < n
             /\ deltas' = Append(deltas, [link |-> s, chunk |-> n])
       \/ UNCHANGED deltas
    /\ UNCHANGED phase

\* complete() resolves.
Completes(s) ==
    /\ phase = "open" /\ answering = {}
    /\ answering' = {s}
    /\ phase' = "answered"
    /\ UNCHANGED deltas

\* An end is an answer; a failure need not be one.
Ends(how) ==
    /\ phase = "open"
    /\ how = "ended" => answering # {}
    /\ phase' = how
    /\ UNCHANGED <<answering, deltas>>

ProviderNext ==
    \/ \E s \in Source : Answers(s) \/ Completes(s)
    \/ \E how \in {"ended", "failed", "stopped"} : Ends(how)

ProviderSpec == ProviderInit /\ [][ProviderNext]_providerVars
================================================================================
