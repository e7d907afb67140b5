----------------------------- MODULE CorpusProofs -----------------------------
(***************************************************************************)
(* What a corpus version says, for any finite number of sources.           *)
(***************************************************************************)
EXTENDS Corpus, FiniteSetTheorems, TLAPS

\* A bounded set of stamps that is not empty has a highest one.
LEMMA HighestStamp ==
    ASSUME NEW f \in [Source -> Nat \cup {Hidden}], NEW m \in Nat,
           \A s \in Ready(f) : f[s] < m,
           Ready(f) # {}
    PROVE  \E s \in Ready(f) : f[s] \in Latest(f)
<1> DEFINE Above(s) == f[s]..m
           T == {Above(s) : s \in Ready(f)}
<1>1. \A s \in Ready(f) : f[s] \in Nat
    BY DEF Ready
<1>2. T \subseteq FiniteSubsetsOf(0..m) /\ T # {}
    BY <1>1, FS_Interval, FS_FiniteSubsetsOfFinite
<1>3. PICK x \in T : \A y \in T : ~(<<y, x>> \in StrictSubsetOrdering(0..m))
    <2>1. IsWellFoundedOn(StrictSubsetOrdering(0..m), FiniteSubsetsOf(0..m))
        BY FS_StrictSubsetOrderingWellFounded
    <2> HIDE DEF T
    <2> QED BY <1>2, <2>1, WFMin
<1>4. PICK s \in Ready(f) : x = Above(s)
    OBVIOUS
<1>5. ASSUME NEW u \in Ready(f)
      PROVE  f[u] <= f[s]
    <2>1. SUFFICES ASSUME f[s] < f[u]
                   PROVE  FALSE
        BY <1>1, <1>5
    <2>2. Above(u) \subseteq Above(s) /\ f[s] \in Above(s) /\ f[s] \notin Above(u)
        BY <1>1, <1>5, <2>1
    <2>3. Above(u) \in SUBSET (0..m) /\ Above(s) \in SUBSET (0..m)
        BY <1>1, <1>5
    <2> QED BY <1>3, <1>4, <1>5, <2>2, <2>3 DEF StrictSubsetOrdering
<1> QED BY <1>1, <1>5 DEF Latest

\* There is only one highest stamp.
LEMMA OneHighest ==
    ASSUME NEW f \in [Source -> Nat \cup {Hidden}], NEW t \in Latest(f)
    PROVE  /\ t \in Nat
           /\ \A s \in Ready(f) : f[s] <= t
           /\ Latest(f) = {t}
BY DEF Latest, Ready

\* The version and what is visible have their types.
LEMMA VersionTyped ==
  ASSUME CorpusTypeOK
  PROVE  version \in Nat \X SUBSET Nat /\ Visible \subseteq Chunk
<1>1. IsFiniteSet(Ready(stamp))
  BY CorpusAssumption, FS_Subset DEF Ready, CorpusTypeOK
<1>2. Cardinality(Ready(stamp)) \in Nat
  BY <1>1, FS_CardinalityType
<1>3. Latest(stamp) \in SUBSET Nat
  BY DEF Latest, Ready, CorpusTypeOK
<1> QED BY <1>2, <1>3 DEF version, VersionOf, Visible, Ready, CorpusTypeOK

\* If each source that is ready in g, and stamped no later than f, was ready in f just
\* as it is in g, then f and g have the same version only if they are the same.
LEMMA SameVersionSameStamps ==
  ASSUME NEW f \in [Source -> Nat \cup {Hidden}], NEW g \in [Source -> Nat \cup {Hidden}],
         NEW m \in Nat, \A s \in Ready(g) : g[s] < m,
         \A s \in Ready(g), t \in Ready(f) : g[s] <= f[t] => s \in Ready(f) /\ f[s] = g[s],
         VersionOf(f) = VersionOf(g)
  PROVE  Ready(f) = Ready(g) /\ f = g
<1>1. /\ Cardinality(Ready(f)) = Cardinality(Ready(g))
      /\ Latest(f) = Latest(g)
  BY DEF VersionOf
<1>2. IsFiniteSet(Ready(f)) /\ IsFiniteSet(Ready(g))
  BY CorpusAssumption, FS_Subset DEF Ready
<1>3. Ready(g) \subseteq Ready(f) /\ \A s \in Ready(g) : f[s] = g[s]
  <2>1. SUFFICES ASSUME Ready(g) # {}
                 PROVE  Ready(g) \subseteq Ready(f) /\ \A s \in Ready(g) : f[s] = g[s]
    OBVIOUS
  <2>2. PICK h \in Latest(g) : TRUE
    BY <2>1, HighestStamp
  <2>3. \A s \in Ready(g) : g[s] <= h
    BY OneHighest
  <2>4. PICK t \in Ready(f) : f[t] = h
    BY <1>1, <2>2 DEF Latest
  <2> QED BY <2>3, <2>4
<1>4. Ready(f) = Ready(g)
  BY <1>1, <1>2, <1>3, FS_Subset
<1> QED BY <1>3, <1>4 DEF Ready

===============================================================================
