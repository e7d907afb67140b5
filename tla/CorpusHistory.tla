---------------------------- MODULE CorpusHistory -----------------------------
(***************************************************************************)
(* Is the corpus version a safe key for cached answers?                    *)
(*                                                                         *)
(* The version is a count and a maximum, not a digest of the corpus, so    *)
(* two corpora may well have the same one.  This module follows Corpus and *)
(* remembers every corpus that was ever current; what has to hold is that  *)
(* no two of them share a version.  The comment on IngestionRepository     *)
(* names the condition: a newly ready source's timestamp exceeds that of   *)
(* every source that became ready before it, which one database clock      *)
(* gives runs that end one after another, in different milliseconds.       *)
(***************************************************************************)
EXTENDS Corpus

VARIABLES seen,     \* the corpora that have been current
          mark,     \* above every stamp published so far
          ordered   \* has every publication been stamped above the earlier ones?

history == <<seen, mark, ordered>>
historyVars == <<corpusVars, history>>

\* What retrieval can see: the contents and the stamps of the ready sources.
Masked(c, f) == [s \in Source |-> IF f[s] = Hidden THEN {} ELSE c[s]]
corpus == [content |-> Masked(content, stamp), stamp |-> stamp]

HistoryInit ==
    /\ CorpusInit
    /\ seen = {corpus}
    /\ mark = 0
    /\ ordered = TRUE

\* Every step but a publication leaves the order of publications alone.
HistoryUnpublished ==
    /\ \/ Tick
       \/ \E s \in Source :
             \/ \E S \in SUBSET Chunk : Rewrite(s, S)
             \/ Withdraw(s)
             \/ Remove(s)
    /\ seen' = seen \cup {corpus'}
    /\ UNCHANGED <<mark, ordered>>

HistoryPublish ==
    \E s \in Source, t \in Stamps :
        /\ Publish(s, t)
        /\ seen' = seen \cup {corpus'}
        /\ ordered' = (ordered /\ mark <= t)
        /\ mark' = IF mark <= t THEN t + 1 ELSE mark

HistoryNext == HistoryUnpublished \/ HistoryPublish

HistorySpec == HistoryInit /\ [][HistoryNext]_historyVars

HistoryTypeOK ==
    /\ CorpusTypeOK
    /\ seen \subseteq [content : [Source -> SUBSET Chunk],
                       stamp : [Source -> Nat \cup {Hidden}]]
    /\ mark \in Nat
    /\ ordered \in BOOLEAN

\* While sources become ready in the order of their stamps, a version names one
\* corpus: a key computed today never meets an answer filed under another corpus,
\* whatever was withdrawn, removed and published in between.
VersionIdentifiesCorpus ==
    ordered => \A C, D \in seen : VersionOf(C.stamp) = VersionOf(D.stamp) => C = D

(***************************************************************************)
(* Why: a source that is ready now with a stamp no higher than the highest *)
(* of an earlier corpus was ready then too, with what it has now.          *)
(***************************************************************************)
ReadySinceThen ==
    \A C \in seen : \A t \in Latest(C.stamp) :
        \A s \in Ready(stamp) : stamp[s] <= t =>
            C.stamp[s] = stamp[s] /\ C.content[s] = content[s]

StampsBelowMark ==
    \A C \in seen : \A s \in Ready(C.stamp) : C.stamp[s] < mark

SeenIsMasked ==
    \A C \in seen : \A s \in Source : C.stamp[s] = Hidden => C.content[s] = {}

HistoryInv ==
    /\ HistoryTypeOK
    /\ SeenIsMasked
    /\ corpus \in seen
    /\ ordered => ReadySinceThen /\ StampsBelowMark
    /\ VersionIdentifiesCorpus
===============================================================================
