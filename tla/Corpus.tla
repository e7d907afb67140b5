-------------------------------- MODULE Corpus --------------------------------
(***************************************************************************)
(* What the answering side of docent may rely on about the ingestion side: *)
(* a source is either hidden or ready, only ready sources are retrieved    *)
(* from, and the content of a source never changes while it is ready.      *)
(* Ingestion.tla is shown to implement this specification; Ask.tla and     *)
(* CorpusHistory.tla are built on it.                                      *)
(*                                                                         *)
(* The corpus version the answer cache is keyed by (CorpusVersion.current) *)
(* is defined here, over the stamps (sources.updated_at, in milliseconds)  *)
(* of the ready sources.                                                   *)
(***************************************************************************)
EXTENDS Naturals, FiniteSets

CONSTANTS Source,   \* rows of the sources table that exist at some time
          Chunk,    \* what a source may contain
          Hidden,   \* the stamp of a source that is not ready
          TxMax,    \* longest time between a transaction's now() and its commit
          MaxTime   \* bound on the clock

ASSUME CorpusAssumption ==
    /\ IsFiniteSet(Source)
    /\ Hidden \notin Nat
    /\ TxMax \in Nat
    /\ MaxTime \in Nat

VARIABLES now,      \* the database clock
          content,  \* content[s]: the chunks stored for source s
          stamp     \* stamp[s]: updated_at of a ready source, else Hidden

corpusVars == <<now, content, stamp>>

(***************************************************************************)
(* now() is the time the transaction started, so a row that becomes        *)
(* visible at now may carry an earlier stamp.                              *)
(***************************************************************************)
Stamps == {t \in 0..now : now <= t + TxMax}

Ready(f) == {s \in DOMAIN f : f[s] # Hidden}

\* mutant: min(updated_at)
Earliest(f) ==
    {f[s] : s \in {m \in Ready(f) : \A s \in Ready(f) : f[s] >= f[m]}}

\* max(updated_at) over the ready sources; {} is the 'none' of an empty corpus.
Latest(f) ==
    {f[s] : s \in {m \in Ready(f) : \A s \in Ready(f) : f[s] <= f[m]}}

\* mutant: the newest stamp alone
VersionByNewest(f) == Latest(f)

\* CorpusVersion.current: `${count}-${max(updated_at)}` over the ready sources.
VersionOf(f) == <<Cardinality(Ready(f)), Latest(f)>>

version == VersionOf(stamp)

\* The chunks a retrieval query can return: its WHERE keeps ready sources only.
Visible == UNION {content[s] : s \in Ready(stamp)}

CorpusTypeOK ==
    /\ now \in Nat
    /\ content \in [Source -> SUBSET Chunk]
    /\ stamp \in [Source -> Nat \cup {Hidden}]

CorpusInit ==
    /\ now = 0
    /\ content = [s \in Source |-> {}]
    /\ stamp = [s \in Source |-> Hidden]

Tick ==
    /\ now < MaxTime
    /\ now' = now + 1
    /\ UNCHANGED <<content, stamp>>

\* A run replaces or extends what is stored for a source nobody reads.
Rewrite(s, S) ==
    /\ stamp[s] = Hidden
    /\ content' = [content EXCEPT ![s] = S]
    /\ UNCHANGED <<now, stamp>>

\* markReady
Publish(s, t) ==
    /\ stamp[s] = Hidden
    /\ t \in Stamps
    /\ stamp' = [stamp EXCEPT ![s] = t]
    /\ UNCHANGED <<now, content>>

\* A new run claims the source, or a finished one is marked failed after all.
Withdraw(s) ==
    /\ stamp[s] # Hidden
    /\ stamp' = [stamp EXCEPT ![s] = Hidden]
    /\ UNCHANGED <<now, content>>

\* DELETE /sources/:id; the content goes with the row (ON DELETE CASCADE).
Remove(s) ==
    /\ content' = [content EXCEPT ![s] = {}]
    /\ stamp' = [stamp EXCEPT ![s] = Hidden]
    /\ UNCHANGED now

CorpusNext ==
    \/ Tick
    \/ \E s \in Source :
          \/ \E S \in SUBSET Chunk : Rewrite(s, S)
          \/ \E t \in Stamps : Publish(s, t)
          \/ Withdraw(s)
          \/ Remove(s)

CorpusSpec == CorpusInit /\ [][CorpusNext]_corpusVars
===============================================================================
