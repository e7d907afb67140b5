------------------------- MODULE CorpusHistoryProofs --------------------------
(***************************************************************************)
(* A corpus version names one corpus, for any finite number of sources,    *)
(* while sources become ready in the order of their stamps.                *)
(***************************************************************************)
EXTENDS CorpusHistory, CorpusProofs

\* What a corpus records: the stamps, and the chunks of the ready sources.
LEMMA CorpusType ==
    ASSUME CorpusTypeOK
    PROVE  /\ corpus \in [content : [Source -> SUBSET Chunk],
                          stamp : [Source -> Nat \cup {Hidden}]]
           /\ corpus.stamp = stamp
           /\ \A s \in Source : stamp[s] = Hidden => corpus.content[s] = {}
           /\ \A s \in Ready(stamp) : s \in Source /\ corpus.content[s] = content[s]
BY DEF CorpusTypeOK, corpus, Masked, Ready

\* A corpus of before with the version of the corpus of now is the corpus of now.
PresentIsKnown ==
    HistoryTypeOK /\ SeenIsMasked /\ ReadySinceThen /\ StampsBelowMark
    /\ corpus \in seen
    => \A C \in seen : VersionOf(C.stamp) = VersionOf(stamp) => C = corpus

\* If the invariant holds, two corpora of one version are one corpus.
LEMMA SameVersionSameCorpus == PresentIsKnown
<1> SUFFICES ASSUME HistoryTypeOK, SeenIsMasked, ReadySinceThen, StampsBelowMark,
                    corpus \in seen,
                    NEW C \in seen, VersionOf(C.stamp) = VersionOf(stamp)
             PROVE  C = corpus
    BY DEF PresentIsKnown
<1>1. /\ C \in [content : [Source -> SUBSET Chunk],
                stamp : [Source -> Nat \cup {Hidden}]]
      /\ stamp \in [Source -> Nat \cup {Hidden}]
    BY DEF HistoryTypeOK, CorpusTypeOK
<1>2. /\ Cardinality(Ready(C.stamp)) = Cardinality(Ready(stamp))
      /\ Latest(C.stamp) = Latest(stamp)
    BY DEF VersionOf
<1>3. /\ IsFiniteSet(Ready(C.stamp)) /\ Ready(C.stamp) \subseteq Source
      /\ IsFiniteSet(Ready(stamp)) /\ Ready(stamp) \subseteq Source
    BY <1>1, CorpusAssumption, FS_Subset DEF Ready
<1>4. \A s \in Ready(stamp) :
          C.stamp[s] = stamp[s] /\ C.content[s] = content[s]
    <2>1. SUFFICES ASSUME Ready(stamp) # {}
                   PROVE  \A s \in Ready(stamp) :
                              C.stamp[s] = stamp[s] /\ C.content[s] = content[s]
        OBVIOUS
    <2>2. \A s \in Ready(stamp) : stamp[s] < mark
        BY CorpusType DEF StampsBelowMark, HistoryTypeOK
    <2>3. PICK t : t \in Latest(stamp)
        BY <1>1, <2>1, <2>2, HighestStamp DEF HistoryTypeOK
    <2>4. \A s \in Ready(stamp) : stamp[s] <= t
        BY <1>1, <2>3, OneHighest
    <2> QED BY <1>2, <2>3, <2>4 DEF ReadySinceThen
<1>5. Ready(stamp) = Ready(C.stamp)
    <2>1. Ready(stamp) \subseteq Ready(C.stamp)
        BY <1>1, <1>4 DEF Ready
    <2> QED BY <1>2, <1>3, <2>1, FS_Subset
<1>6. C.stamp = stamp
    BY <1>1, <1>4, <1>5 DEF Ready
<1>7. C.content = corpus.content
    <2>1. \A s \in Source : C.content[s] = corpus.content[s]
        BY <1>1, <1>3, <1>4, <1>6, CorpusType
           DEF Ready, SeenIsMasked, HistoryTypeOK
    <2> QED BY <1>1, <2>1, CorpusType DEF HistoryTypeOK
<1> QED BY <1>1, <1>6, <1>7, CorpusType DEF HistoryTypeOK

-------------------------------------------------------------------------------
(* The invariant *)

\* The empty corpus is all that has been seen.
LEMMA HistoryInitially == HistoryInit => HistoryInv
<1> SUFFICES ASSUME HistoryInit
             PROVE  HistoryInv
    OBVIOUS
<1>1. CorpusTypeOK
    BY CorpusAssumption DEF HistoryInit, CorpusInit, CorpusTypeOK
<1>2. /\ seen = {corpus}
      /\ Ready(stamp) = {}
      /\ corpus.stamp = stamp
    BY <1>1, CorpusType DEF HistoryInit, CorpusInit, Ready
<1>3. HistoryTypeOK /\ SeenIsMasked
    BY <1>1, <1>2, CorpusType DEF HistoryTypeOK, SeenIsMasked, HistoryInit
<1>4. ReadySinceThen /\ StampsBelowMark
    BY <1>2 DEF ReadySinceThen, StampsBelowMark
<1>5. VersionIdentifiesCorpus
    BY <1>2 DEF VersionIdentifiesCorpus
<1> QED BY <1>2, <1>3, <1>4, <1>5 DEF HistoryInv

\* The corpora remembered stay well-typed, whatever happens.
LEMMA HistoryTypeStep ==
    ASSUME HistoryTypeOK, SeenIsMasked, HistoryNext
    PROVE  HistoryTypeOK' /\ SeenIsMasked' /\ corpus' \in seen'
           /\ seen' = seen \cup {corpus'}
<1>1. CorpusTypeOK'
    <2> USE DEF HistoryTypeOK, CorpusTypeOK
    <2>1. CASE Tick
        BY <2>1 DEF Tick
    <2>2. ASSUME NEW s \in Source, NEW S \in SUBSET Chunk, Rewrite(s, S)
          PROVE  CorpusTypeOK'
        BY <2>2 DEF Rewrite
    <2>3. ASSUME NEW s \in Source, Withdraw(s) \/ Remove(s)
          PROVE  CorpusTypeOK'
        BY <2>3 DEF Withdraw, Remove
    <2>4. ASSUME NEW s \in Source, NEW t \in Stamps, Publish(s, t)
          PROVE  CorpusTypeOK'
        BY <2>4 DEF Publish, Stamps
    <2> QED BY <2>1, <2>2, <2>3, <2>4
            DEF HistoryNext, HistoryUnpublished, HistoryPublish
<1>2. seen' = seen \cup {corpus'}
    BY DEF HistoryNext, HistoryUnpublished, HistoryPublish
<1>3. mark' \in Nat /\ ordered' \in BOOLEAN
    <2>1. mark' \in Nat
        BY CorpusAssumption DEF HistoryNext, HistoryUnpublished, HistoryPublish,
           HistoryTypeOK, CorpusTypeOK, Stamps
    <2>2. ordered' \in BOOLEAN
        BY ZenonT(30) DEF HistoryNext, HistoryUnpublished, HistoryPublish,
           HistoryTypeOK
    <2> QED BY <2>1, <2>2
<1>4. /\ corpus' \in [content : [Source -> SUBSET Chunk],
                      stamp : [Source -> Nat \cup {Hidden}]]
      /\ \A s \in Source : corpus'.stamp[s] = Hidden => corpus'.content[s] = {}
    BY <1>1 DEF CorpusTypeOK, corpus, Masked
<1>5. HistoryTypeOK'
    BY <1>1, <1>2, <1>3, <1>4 DEF HistoryTypeOK
<1>6. SeenIsMasked'
    BY <1>2, <1>4 DEF SeenIsMasked
<1> QED BY <1>2, <1>5, <1>6

\* Nobody becomes ready below a stamp seen before, and what is ready stays as it is.
LEMMA OrderStep ==
    ASSUME HistoryTypeOK, SeenIsMasked, HistoryNext, corpus \in seen, ordered',
           ordered => ReadySinceThen /\ StampsBelowMark
    PROVE  ReadySinceThen' /\ StampsBelowMark'
<1>1. ordered /\ ReadySinceThen /\ StampsBelowMark
    BY DEF HistoryNext, HistoryUnpublished, HistoryPublish
<1>2. HistoryTypeOK' /\ seen' = seen \cup {corpus'}
    BY HistoryTypeStep
<1>3. /\ corpus'.stamp = stamp'
      /\ \A s \in Ready(stamp') : corpus'.content[s] = content'[s]
    BY <1>2 DEF HistoryTypeOK, CorpusTypeOK, corpus, Masked, Ready
<1>4. corpus.stamp = stamp
    BY CorpusType DEF HistoryTypeOK
<1>5. CASE HistoryUnpublished
    <2>1. \A s \in Ready(stamp') :
              s \in Ready(stamp) /\ stamp'[s] = stamp[s] /\ content'[s] = content[s]
        BY <1>2, <1>5 DEF HistoryUnpublished, Tick, Rewrite, Withdraw, Remove,
           Ready, HistoryTypeOK, CorpusTypeOK
    <2>2. mark' = mark
        BY <1>5 DEF HistoryUnpublished
    <2>3. ReadySinceThen'
        BY <1>1, <1>2, <1>3, <2>1 DEF ReadySinceThen
    <2>4. StampsBelowMark'
        BY <1>1, <1>2, <1>3, <1>4, <2>1, <2>2 DEF StampsBelowMark
    <2> QED BY <2>3, <2>4
<1>6. CASE HistoryPublish
    <2>1. PICK s \in Source, t \in Stamps :
              /\ Publish(s, t)
              /\ ordered' = (ordered /\ mark <= t)
              /\ mark' = IF mark <= t THEN t + 1 ELSE mark
        BY <1>6 DEF HistoryPublish
    <2>2. t \in Nat /\ mark \in Nat /\ mark <= t /\ mark' = t + 1
        <3>1. mark <= t
            BY <2>1
        <3>2. t \in Nat /\ mark \in Nat
            BY DEF Stamps, HistoryTypeOK, CorpusTypeOK
        <3> QED BY <2>1, <3>1, <3>2
    <2>3. /\ stamp'[s] = t
          /\ \A u \in Ready(stamp') : u # s =>
                u \in Ready(stamp) /\ stamp'[u] = stamp[u] /\ content'[u] = content[u]
        BY <2>1 DEF Publish, Ready, HistoryTypeOK, CorpusTypeOK
    <2>4. \A C \in seen : \A b \in Latest(C.stamp) : b \in Nat /\ b < mark
        BY <1>1 DEF StampsBelowMark, Latest, Ready, HistoryTypeOK
    <2>5. ReadySinceThen'
        <3>1. ASSUME NEW C \in seen, NEW b \in Latest(C.stamp),
                     NEW u \in Ready(stamp'), stamp'[u] <= b
              PROVE  C.stamp[u] = stamp'[u] /\ C.content[u] = content'[u]
            BY <1>1, <2>2, <2>3, <2>4, <3>1 DEF ReadySinceThen
        <3> QED BY <1>2, <1>3, <3>1 DEF ReadySinceThen
    <2>6. StampsBelowMark'
        <3>1. \A C \in seen : \A u \in Ready(C.stamp) :
                  C.stamp[u] \in Nat /\ C.stamp[u] < mark
            BY <1>1 DEF StampsBelowMark, Ready, HistoryTypeOK
        <3>2. \A u \in Ready(stamp') : stamp'[u] \in Nat /\ stamp'[u] < mark'
            BY <1>4, <2>2, <2>3, <3>1
        <3> QED BY <1>2, <1>3, <2>2, <3>1, <3>2 DEF StampsBelowMark
    <2> QED BY <2>5, <2>6
<1> QED BY <1>5, <1>6 DEF HistoryNext

\* No step of the corpus or of its history breaks it.
LEMMA HistoryStep ==
    ASSUME HistoryInv, [HistoryNext]_historyVars
    PROVE  HistoryInv'
<1>1. CASE HistoryNext
    <2>1. /\ HistoryTypeOK' /\ SeenIsMasked' /\ corpus' \in seen'
          /\ seen' = seen \cup {corpus'}
        BY <1>1, HistoryTypeStep DEF HistoryInv
    <2>2. ordered' => ReadySinceThen' /\ StampsBelowMark'
        BY <1>1, OrderStep DEF HistoryInv
    <2>3. VersionIdentifiesCorpus'
        <3>1. SUFFICES ASSUME ordered'
                       PROVE  \A C, D \in seen' :
                                  VersionOf(C.stamp) = VersionOf(D.stamp) => C = D
            BY DEF VersionIdentifiesCorpus
        <3>2. ordered
            BY <1>1, <3>1 DEF HistoryNext, HistoryUnpublished, HistoryPublish
        <3>3. corpus'.stamp = stamp'
            BY DEF corpus
        <3>4. \A C \in seen' : VersionOf(C.stamp) = VersionOf(stamp') => C = corpus'
            <4>1. PresentIsKnown'
                BY SameVersionSameCorpus, PTL
            <4> QED BY <2>1, <2>2, <3>1, <4>1 DEF PresentIsKnown
        <3> QED BY <2>1, <3>2, <3>3, <3>4
                DEF HistoryInv, VersionIdentifiesCorpus
    <2> QED BY <2>1, <2>2, <2>3 DEF HistoryInv
<1>2. CASE UNCHANGED historyVars
    BY <1>2 DEF HistoryInv, HistoryTypeOK, CorpusTypeOK, SeenIsMasked,
       ReadySinceThen, StampsBelowMark, VersionIdentifiesCorpus, corpus, Masked,
       Ready, historyVars, corpusVars, history
<1> QED BY <1>1, <1>2

\* The invariant holds in every behaviour.
THEOREM HistoryInvariance == HistorySpec => []HistoryInv
BY HistoryInitially, HistoryStep, PTL DEF HistorySpec

\* A key computed from the corpus of today (CorpusVersion.current) is that of no
\* other corpus there ever was, while sources become ready in stamp order.
THEOREM VersionsIdentifyCorpora == HistorySpec => []VersionIdentifiesCorpus
<1>1. HistoryInv => VersionIdentifiesCorpus
    BY DEF HistoryInv
<1> QED BY <1>1, HistoryInvariance, PTL
===============================================================================
