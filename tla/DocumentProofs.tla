---------------------------- MODULE DocumentProofs ----------------------------
(***************************************************************************)
(* Theorems about Document, for any pages, any tokenizer and any limits.   *)
(***************************************************************************)
EXTENDS Document, FiniteSetTheorems, TLAPS

-------------------------------------------------------------------------------
(***************************************************************************)
(* Least elements, and what they give: the n-th of a set of positions, and *)
(* the first contribution with the most tokens.                            *)
(***************************************************************************)
LEMMA LeastElement ==
  ASSUME NEW S, IsFiniteSet(S), S # {}, \A m \in S : m \in Int
  PROVE  \E n \in S : \A m \in S : n <= m
<1> DEFINE Below(n) == {m \in S : m < n}
           T == {Below(n) : n \in S}
<1>1. T \subseteq FiniteSubsetsOf(S) /\ T # {}
  <2>1. FiniteSubsetsOf(S) = SUBSET S
    BY FS_FiniteSubsetsOfFinite
  <2>2. \A n \in S : Below(n) \subseteq S
    OBVIOUS
  <2> HIDE DEF Below
  <2> QED BY <2>1, <2>2
<1>2. PICK x \in T : \A y \in T : ~(<<y, x>> \in StrictSubsetOrdering(S))
  <2>1. IsWellFoundedOn(StrictSubsetOrdering(S), FiniteSubsetsOf(S))
    BY FS_StrictSubsetOrderingWellFounded
  <2> HIDE DEF T
  <2> QED BY <1>1, <2>1, WFMin
<1>3. PICK n \in S : x = Below(n)
  OBVIOUS
<1>4. ASSUME NEW m \in S, m < n
      PROVE  FALSE
  <2>1. Below(m) \subseteq Below(n) /\ m \in Below(n) /\ m \notin Below(m)
    BY <1>4
  <2>2. Below(m) \in SUBSET S /\ Below(n) \in SUBSET S /\ Below(m) \in T
    OBVIOUS
  <2> HIDE DEF Below, T
  <2> QED BY <1>2, <1>3, <2>1, <2>2 DEF StrictSubsetOrdering
<1> QED BY <1>4

\* There is an n-th position for every n up to their number.
LEMMA NthExists ==
  ASSUME NEW N \in Nat, NEW P, \A j \in P : j \in 1..N,
         NEW n \in 1..Cardinality(P)
  PROVE  Nth(P, n) \in P /\ Cardinality({j \in P : j <= Nth(P, n)}) = n
<1> DEFINE upTo(k) == {j \in P : j <= k}
           T == {k \in 0..N : Cardinality(upTo(k)) >= n}
<1>1. IsFiniteSet(P) /\ Cardinality(P) \in Nat
  <2>1. P \in SUBSET (1..N) /\ IsFiniteSet(1..N)
    BY FS_Interval
  <2> QED BY <2>1, FS_Subset, FS_CardinalityType
<1>2. \A k \in 0..N : /\ IsFiniteSet(upTo(k))
                      /\ Cardinality(upTo(k)) \in Nat
  <2>1. \A k \in 0..N : upTo(k) \in SUBSET P
    OBVIOUS
  <2> HIDE DEF upTo
  <2> QED BY <1>1, <2>1, FS_Subset, FS_CardinalityType
<1>3. N \in T
  <2>1. upTo(N) = P
    OBVIOUS
  <2> QED BY <1>1, <2>1
<1>4. PICK k \in T : \A m \in T : k <= m
  <2>1. IsFiniteSet(T)
    <3>1. T \in SUBSET (0..N) /\ IsFiniteSet(0..N)
      BY FS_Interval
    <3> HIDE DEF T
    <3> QED BY <3>1, FS_Subset
  <2>2. \A m \in T : m \in Int
    OBVIOUS
  <2> HIDE DEF T
  <2> QED BY <1>3, <2>1, <2>2, LeastElement
<1>5. k # 0
  <2>1. upTo(0) = {}
    OBVIOUS
  <2>2. Cardinality(upTo(0)) = 0
    BY <2>1, FS_EmptySet
  <2> QED BY <2>2
<1>6. k - 1 \in 0..N /\ k - 1 \notin T
  <2>1. k \in 0..N
    OBVIOUS
  <2>2. k - 1 \in 0..N /\ ~(k <= k - 1)
    BY <1>5, <2>1
  <2> HIDE DEF T
  <2> QED BY <1>4, <2>2
<1>7. n \in Nat /\ Cardinality(upTo(k - 1)) < n
  BY <1>1, <1>2, <1>6
<1>8. upTo(k) = IF k \in P THEN upTo(k - 1) \cup {k} ELSE upTo(k - 1)
  <2>1. \A j \in P : j <= k <=> j <= k - 1 \/ j = k
    OBVIOUS
  <2> QED BY <2>1
<1>9. k \in P /\ Cardinality(upTo(k)) = n
  <2>1. k \in 0..N /\ Cardinality(upTo(k)) >= n
    OBVIOUS
  <2>2. k \in P
    BY <1>2, <1>6, <1>7, <1>8, <2>1
  <2>3. Cardinality(upTo(k)) <= Cardinality(upTo(k - 1)) + 1
    <3>1. upTo(k) = upTo(k - 1) \cup {k}
      BY <1>8, <2>2
    <3>2. \/ Cardinality(upTo(k)) = Cardinality(upTo(k - 1))
          \/ Cardinality(upTo(k)) = Cardinality(upTo(k - 1)) + 1
      <4> HIDE DEF upTo
      <4> QED BY <1>2, <1>6, <3>1, FS_AddElement
    <3> HIDE DEF upTo
    <3> QED BY <1>2, <1>6, <3>2
  <2> HIDE DEF upTo
  <2> QED BY <1>2, <1>6, <1>7, <2>1, <2>2, <2>3
<1> QED BY <1>9 DEF Nth

\* An element of a sequence.
LEMMA ElementOf ==
  ASSUME NEW T, NEW s \in Seq(T), NEW k \in DOMAIN s
  PROVE  s[k] \in T
OBVIOUS

\* Sequences of one element and of none.
LEMMA Singletons ==
  ASSUME NEW T, NEW e \in T
  PROVE  <<e>> \in Seq(T) /\ <<>> \in Seq(T)
OBVIOUS

\* What appending does to the positions.
LEMMA AppendElements ==
  ASSUME NEW T, NEW s \in Seq(T), NEW e \in T
  PROVE  /\ Append(s, e) \in Seq(T) /\ Append(s, e) # <<>>
         /\ DOMAIN Append(s, e) = DOMAIN s \cup {Len(s) + 1}
         /\ \A k \in DOMAIN s : k < Len(s) + 1 /\ Append(s, e)[k] = s[k]
         /\ Append(s, e)[Len(s) + 1] = e
OBVIOUS

\* The first n elements of a sequence.
LEMMA FrontElements ==
  ASSUME NEW T, NEW s \in Seq(T), NEW n \in 0..Len(s)
  PROVE  /\ SubSeq(s, 1, n) \in Seq(T)
         /\ Len(SubSeq(s, 1, n)) = n /\ DOMAIN SubSeq(s, 1, n) = 1..n
         /\ \A k \in DOMAIN SubSeq(s, 1, n) :
               k \in 1..n /\ k \in DOMAIN s /\ SubSeq(s, 1, n)[k] = s[k]
<1>1. n \in Nat /\ Len(s) \in Nat /\ n <= Len(s)
  OBVIOUS
<1>2. SubSeq(s, 1, n) = [k \in 1..n |-> s[k]]
  BY <1>1
<1>3. \A k \in 1..n : k \in DOMAIN s /\ s[k] \in T
  BY <1>1
<1> QED BY <1>1, <1>2, <1>3

\* Some elements of a sequence, in order, are a sequence of such elements.
LEMMA SubsequenceTyped ==
  ASSUME NEW T, NEW s \in Seq(T), NEW P \in SUBSET DOMAIN s
  PROVE  Subsequence(s, P) \in Seq(T)
<1>1. Len(s) \in Nat /\ \A j \in P : j \in 1..Len(s)
  OBVIOUS
<1>2. IsFiniteSet(P) /\ Cardinality(P) \in Nat
  <2>1. P \in SUBSET (1..Len(s)) /\ IsFiniteSet(1..Len(s))
    BY <1>1, FS_Interval
  <2> QED BY <2>1, FS_Subset, FS_CardinalityType
<1>3. \A n \in 1..Cardinality(P) : Nth(P, n) \in P
  BY <1>1, NthExists
<1>4. \A n \in 1..Cardinality(P) : s[Nth(P, n)] \in T
  BY <1>3
<1> QED BY <1>2, <1>4 DEF Subsequence

\* The first contribution with the most tokens exists: of the contributions that
\* outdo another, some contribution has none.
LEMMA DominantPathChosen ==
  ASSUME NEW T, NEW parts \in Seq([path : T, tokens : Nat]), parts # <<>>
  PROVE  \E k \in DOMAIN parts :
            /\ DominantPath(parts) = parts[k].path /\ parts[k].path \in T
            /\ \A j \in DOMAIN parts : parts[j].tokens <= parts[k].tokens
<1> DEFINE D == DOMAIN parts
           Better(j, k) == \/ parts[j].tokens > parts[k].tokens
                           \/ parts[j].tokens = parts[k].tokens /\ j < k
           Above(k) == {j \in D : Better(j, k)}
           A == {Above(k) : k \in D}
<1>1. /\ IsFiniteSet(D) /\ D # {}
      /\ \A k \in D : k \in Int /\ parts[k].tokens \in Nat
  <2>1. Len(parts) \in Nat /\ Len(parts) > 0 /\ D = 1..Len(parts)
    OBVIOUS
  <2>2. \A k \in D : parts[k] \in [path : T, tokens : Nat]
    BY ElementOf
  <2>3. IsFiniteSet(1..Len(parts))
    BY <2>1, FS_Interval
  <2>4. 1 \in D /\ \A k \in D : k \in Int
    BY <2>1
  <2> HIDE DEF D
  <2> QED BY <2>1, <2>2, <2>3, <2>4
<1>2. A \subseteq FiniteSubsetsOf(D) /\ A # {}
  <2>1. FiniteSubsetsOf(D) = SUBSET D
    BY <1>1, FS_FiniteSubsetsOfFinite
  <2>2. \A k \in D : Above(k) \subseteq D
    OBVIOUS
  <2> HIDE DEF Above, D
  <2> QED BY <1>1, <2>1, <2>2
<1>3. PICK x \in A : \A y \in A : ~(<<y, x>> \in StrictSubsetOrdering(D))
  <2>1. IsWellFoundedOn(StrictSubsetOrdering(D), FiniteSubsetsOf(D))
    BY FS_StrictSubsetOrderingWellFounded
  <2> HIDE DEF A
  <2> QED BY <1>2, <2>1, WFMin
<1>4. PICK k \in D : x = Above(k)
  OBVIOUS
<1>5. ASSUME NEW j \in D, Better(j, k)
      PROVE  FALSE
  <2>1. \A i \in D : Better(i, j) => Better(i, k)
    BY <1>1, <1>5
  <2>2. j \in Above(k) /\ j \notin Above(j)
    BY <1>1, <1>5
  <2>3. Above(j) \subseteq Above(k) /\ Above(j) \in SUBSET D /\ Above(k) \in SUBSET D
    BY <2>1
  <2>4. Above(j) \in A
    OBVIOUS
  <2> HIDE DEF Above, A, D
  <2> QED BY <1>3, <1>4, <2>2, <2>3, <2>4 DEF StrictSubsetOrdering
<1>6. \A j \in D : /\ parts[j].tokens <= parts[k].tokens
                   /\ j < k => parts[j].tokens < parts[k].tokens
  BY <1>1, <1>5
<1>7. \A i \in D : parts[i].path \in T
  <2>1. \A i \in D : parts[i] \in [path : T, tokens : Nat]
    BY ElementOf
  <2> HIDE DEF D
  <2> QED BY <2>1
<1> QED BY <1>6, <1>7 DEF DominantPath

\* Its path is a path.
LEMMA DominantPathTyped ==
  ASSUME NEW T, NEW parts \in Seq([path : T, tokens : Nat]), parts # <<>>
  PROVE  DominantPath(parts) \in T
BY DominantPathChosen

\* Converting a table yields lines.
LEMMA ConvertTyped ==
  ASSUME NEW t \in Seq(Line)
  PROVE  Convert(t) \in Seq(Line)
<1> DEFINE rows  == {k \in DOMAIN t : TableRow(t[k])}
           heads == {k \in rows : HeaderRow(t[k])}
           items == [k \in DOMAIN t |-> AsItem(t[k])]
           cells == [k \in DOMAIN t |-> AsRow(t[k])]
<1>1. /\ \A l \in Line : AsItem(l) \in Line /\ AsRow(l) \in Line
      /\ Separator \in Line
  BY DEF Line, Kinds, AsItem, AsRow, Separator
<1>2. items \in Seq(Line) /\ cells \in Seq(Line)
  BY <1>1
<1>3. Subsequence(items, rows) \in Seq(Line)
  <2>1. rows \in SUBSET DOMAIN items
    OBVIOUS
  <2> HIDE DEF items, rows
  <2> QED BY <1>2, <2>1, SubsequenceTyped
<1>4. Subsequence(cells, rows \ heads) \in Seq(Line)
  <2>1. rows \ heads \in SUBSET DOMAIN cells
    OBVIOUS
  <2> HIDE DEF cells, rows, heads
  <2> QED BY <1>2, <2>1, SubsequenceTyped
<1>5. ASSUME heads # {}
      PROVE  t[Nth(heads, 1)] \in Line
  <2>1. Len(t) \in Nat /\ \A k \in heads : k \in 1..Len(t)
    OBVIOUS
  <2>2. IsFiniteSet(heads) /\ Cardinality(heads) \in Nat
    <3>1. heads \in SUBSET (1..Len(t)) /\ IsFiniteSet(1..Len(t))
      BY <2>1, FS_Interval
    <3> HIDE DEF heads
    <3> QED BY <3>1, FS_Subset, FS_CardinalityType
  <2>3. 1 \in 1..Cardinality(heads)
    <3> HIDE DEF heads
    <3> QED BY <1>5, <2>2, FS_EmptySet
  <2>4. Nth(heads, 1) \in heads
    <3> HIDE DEF heads
    <3> QED BY <2>1, <2>3, NthExists
  <2> QED BY <2>4
<1>6. heads # {} => <<AsRow(t[Nth(heads, 1)]), Separator>> \in Seq(Line)
  <2> HIDE DEF heads
  <2> QED BY <1>1, <1>5
<1>7. Convert(t) = IF rows = {} THEN t
                   ELSE IF heads = {} THEN Subsequence(items, rows)
                   ELSE <<AsRow(t[Nth(heads, 1)]), Separator>> \o
                        Subsequence(cells, rows \ heads)
  BY DEF Convert
<1> HIDE DEF rows, heads, items, cells
<1> QED BY <1>3, <1>4, <1>6, <1>7

-------------------------------------------------------------------------------
(* Type correctness *)

\* What the tokenizer returns is a number.
Tokenizes ==
  \A document \in Seq(Line) : \A S \in SUBSET (1..Len(document)) :
     CountTokens(document, S) \in Nat

\* A step of the cleaner.
LEMMA CleanTyped ==
  ASSUME CleanTypeOK, skippingSwitchBranch => insideFence, CleanNext
  PROVE  CleanTypeOK' /\ (skippingSwitchBranch => insideFence)'
<1> USE DEF CleanTypeOK
<1>1. ASSUME Reading
      PROVE  NextRaw \in Line /\ read + 1 \in 0..Len(raw)
  <2>1. read + 1 \in DOMAIN raw
    BY <1>1 DEF Reading
  <2> QED BY <2>1, ElementOf DEF NextRaw
<1>2. CASE ReadFence
  BY <1>1, <1>2 DEF ReadFence, ReadOn, SkippingAfterFence
<1>3. CASE SkipLine
  BY <1>1, <1>3 DEF SkipLine, ReadOn, StillSkipping
<1>4. CASE ReadTable
  <2> DEFINE t == Append(tableBuffer, NextRaw)
             c == Convert(t)
  <2>1. t \in Seq(Line)
    BY <1>1, <1>4 DEF ReadTable, PastSkipping
  <2>2. c \in Seq(Line)
    <3> HIDE DEF t
    <3> QED BY <2>1, ConvertTyped
  <2>3. tableBuffer' \in Seq(Line) /\ output' \in Seq(Line)
    <3>1. \/ tableBuffer' = <<>> /\ output' = output \o c
          \/ tableBuffer' = t /\ output' = output
      BY <1>4 DEF ReadTable, Accumulate
    <3>2. output \o c \in Seq(Line)
      <4> HIDE DEF c
      <4> QED BY <2>2
    <3>3. CASE tableBuffer' = <<>> /\ output' = output \o c
      <4> HIDE DEF c
      <4> QED BY <3>2, <3>3
    <3>4. CASE tableBuffer' = t /\ output' = output
      <4> HIDE DEF t
      <4> QED BY <2>1, <3>4
    <3> QED BY <3>1, <3>3, <3>4
  <2> QED BY <1>1, <1>4, <2>3 DEF ReadTable, PastSkipping, ReadOn
<1>5. CASE ReadFilename
  BY <1>1, <1>5 DEF ReadFilename, PastTables, PastSkipping, ReadOn
<1>6. CASE ReadSwitch
  BY <1>1, <1>6 DEF ReadSwitch, PastTables, PastSkipping, ReadOn
<1>7. CASE ReadText
  BY <1>1, <1>7 DEF ReadText, PastTables, PastSkipping, ReadOn
<1>8. CASE EndOfRaw
  <2>1. Remainder \in Seq(Line)
    BY DEF Remainder
  <2>2. Collapsed(Remainder) \in Seq(Line)
    <3> DEFINE goes(k) == /\ 2 < k /\ k < Len(Remainder)
                          /\ Blank(Remainder[k]) /\ Blank(Remainder[k - 1])
               kept == {k \in DOMAIN Remainder : ~goes(k)}
    <3>1. Collapsed(Remainder) = Subsequence(Remainder, kept)
      BY DEF Collapsed
    <3>2. kept \in SUBSET DOMAIN Remainder
      OBVIOUS
    <3> HIDE DEF kept
    <3> QED BY <2>1, <3>1, <3>2, SubsequenceTyped
  <2> QED BY <1>8, <2>2 DEF EndOfRaw
<1> QED
  BY <1>2, <1>3, <1>4, <1>5, <1>6, <1>7, <1>8 DEF CleanNext

\* The folds keep to lists of what they were given.
LEMMA FoldShortTyped ==
  ASSUME NEW T, NEW bs \in Seq(SUBSET T)
  PROVE  FoldShortTrailing(bs) \in Seq(SUBSET T)
<1>1. CASE Len(bs) < 2
  BY <1>1 DEF FoldShortTrailing
<1>2. CASE ~(Len(bs) < 2)
  <2>1. /\ Len(bs) \in Nat /\ Len(bs) - 1 \in DOMAIN bs /\ Len(bs) \in DOMAIN bs
        /\ Len(bs) - 2 \in 0..Len(bs)
    BY <1>2
  <2>2. bs[Len(bs) - 1] \in SUBSET T /\ Last(bs) \in SUBSET T
    BY <2>1, ElementOf DEF Last
  <2>3. SubSeq(bs, 1, Len(bs) - 2) \in Seq(SUBSET T)
    BY <2>1
  <2>4. Append(SubSeq(bs, 1, Len(bs) - 2), bs[Len(bs) - 1] \cup Last(bs)) \in Seq(SUBSET T)
    BY <2>2, <2>3
  <2> QED BY <2>4 DEF FoldShortTrailing
<1> QED BY <1>1, <1>2

\* foldTrailingShortfallBackward: its groups have the type of groups, and parts.
LEMMA FoldTrailingTyped ==
  ASSUME NEW gs \in Seq(Groups), \A g \in DOMAIN gs : gs[g].parts # <<>>
  PROVE  /\ FoldTrailing(gs) \in Seq(Groups)
         /\ \A g \in DOMAIN FoldTrailing(gs) : FoldTrailing(gs)[g].parts # <<>>
<1>1. CASE Len(gs) < 2
  BY <1>1 DEF FoldTrailing
<1>2. CASE ~(Len(gs) < 2)
  <2> DEFINE before == gs[Len(gs) - 1]
             front  == SubSeq(gs, 1, Len(gs) - 2)
             joined == [lines |-> before.lines \cup Last(gs).lines,
                        parts |-> before.parts \o Last(gs).parts]
  <2>1. /\ Len(gs) \in Nat /\ Len(gs) - 1 \in DOMAIN gs /\ Len(gs) \in DOMAIN gs
        /\ Len(gs) - 2 \in 0..Len(gs)
    BY <1>2
  <2>2. before \in Groups /\ Last(gs) \in Groups /\ before.parts # <<>>
    BY <2>1, ElementOf DEF Last
  <2>3. joined \in Groups /\ joined.parts # <<>>
    <3> HIDE DEF before
    <3> QED BY <2>2 DEF Groups
  <2>4. /\ front \in Seq(Groups) /\ Len(front) = Len(gs) - 2
        /\ \A g \in DOMAIN front : g \in DOMAIN gs /\ front[g] = gs[g]
    BY <2>1, FrontElements
  <2>5. \A g \in DOMAIN front : front[g].parts # <<>>
    BY <2>4
  <2>6. /\ Append(front, joined) \in Seq(Groups)
        /\ \A g \in DOMAIN Append(front, joined) : Append(front, joined)[g].parts # <<>>
    <3> HIDE DEF joined, front
    <3> QED BY <2>3, <2>4, <2>5, AppendElements
  <2>7. FoldTrailing(gs) = gs \/ FoldTrailing(gs) = Append(front, joined)
    BY DEF FoldTrailing
  <2> HIDE DEF front, joined
  <2> QED BY <2>6, <2>7
<1> QED BY <1>1, <1>2

\* The trackers.
LEMMA TrackersTyped ==
  ASSUME ChunkTypeOK, NEW i \in Position, NEW n \in Nat, NEW may
  PROVE  /\ FenceAfter(fence, content[i]) \in [inside : BOOLEAN, depth : Nat]
         /\ TableAfter(table, content[i], n, may)
               \in [inside : BOOLEAN, depth : Nat, tokens : Nat]
         /\ RowsAfter(mdTable, content[i], n, may) \in [inside : BOOLEAN, tokens : Nat]
         /\ TableOpened(table, content[i], may)
               \in [inside : BOOLEAN, depth : Nat, tokens : Nat]
         /\ RowsOpened(mdTable, content[i], may) \in [inside : BOOLEAN, tokens : Nat]
<1>1. content[i] \in Line
  <2>1. i \in DOMAIN content
    BY DEF ChunkTypeOK, Position
  <2> QED BY <2>1, ElementOf DEF ChunkTypeOK
<1>2. content[i].depth \in Nat
  BY <1>1 DEF Line
<1>3. FenceAfter(fence, content[i]) \in [inside : BOOLEAN, depth : Nat]
  BY <1>2 DEF ChunkTypeOK, FenceAfter
<1>4. TableOpened(table, content[i], may) \in [inside : BOOLEAN, depth : Nat, tokens : Nat]
  BY <1>2 DEF ChunkTypeOK, TableOpened
<1>5. TableAfter(table, content[i], n, may) \in [inside : BOOLEAN, depth : Nat, tokens : Nat]
  <2> DEFINE o == TableOpened(table, content[i], may)
  <2>1. /\ o \in [inside : BOOLEAN, depth : Nat, tokens : Nat]
        /\ TableClose(content[i]) \in BOOLEAN
    BY <1>4 DEF TableClose
  <2>2. [o EXCEPT !.tokens = @ + n, !.inside = ~TableClose(content[i])]
          \in [inside : BOOLEAN, depth : Nat, tokens : Nat]
    <3> DEFINE more == o.tokens + n
               open == ~TableClose(content[i])
    <3>1. more \in Nat /\ open \in BOOLEAN
      <4> HIDE DEF o
      <4> QED BY <2>1
    <3> HIDE DEF o, more, open
    <3>2. [o EXCEPT !.tokens = more, !.inside = open]
            \in [inside : BOOLEAN, depth : Nat, tokens : Nat]
      BY <2>1, <3>1
    <3> QED BY <3>2 DEF more, open
  <2>3. TableAfter(table, content[i], n, may) =
          IF o.inside THEN [o EXCEPT !.tokens = @ + n, !.inside = ~TableClose(content[i])]
                      ELSE o
    BY DEF TableAfter
  <2> HIDE DEF o
  <2> QED BY <2>1, <2>2, <2>3
<1>6. RowsOpened(mdTable, content[i], may) \in [inside : BOOLEAN, tokens : Nat]
  BY DEF ChunkTypeOK, RowsOpened, MdRow
<1>7. RowsAfter(mdTable, content[i], n, may) \in [inside : BOOLEAN, tokens : Nat]
  BY <1>6 DEF RowsAfter
<1> QED BY <1>3, <1>4, <1>5, <1>6, <1>7

\* Tokens of positions of the content, and a body that may be blank.
LEMMA TokensTyped ==
  ASSUME Tokenizes, ChunkTypeOK, NEW S \in SUBSET Position
  PROVE  /\ Tokens(S) \in Nat
         /\ Body(S) \in Seq(SUBSET Position)
         /\ Trimmed(S) \in SUBSET Position
<1>1. Tokens(S) \in Nat
  <2>1. content \in Seq(Line) /\ S \in SUBSET (1..Len(content))
    BY DEF ChunkTypeOK, Position
  <2> QED BY <2>1 DEF Tokenizes, Tokens
<1>2. Body(S) \in Seq(SUBSET Position)
  <2>1. <<S>> \in Seq(SUBSET Position) /\ <<>> \in Seq(SUBSET Position)
    BY Singletons
  <2> QED BY <2>1 DEF Body
<1>3. Trimmed(S) \in SUBSET Position
  BY DEF Trimmed
<1> QED BY <1>1, <1>2, <1>3

\* flush() of the second scan, on whatever it holds.
LEMMA ConcatBody ==
  ASSUME Tokenizes, ChunkTypeOK,
         NEW bs \in Seq(SUBSET Position), NEW S \in SUBSET Position
  PROVE  bs \o Body(S) \in Seq(SUBSET Position)
<1>1. Body(S) \in Seq(SUBSET Position)
  BY TokensTyped
<1> QED BY <1>1

\* A step that leaves the content alone leaves the types alone.
LEMMA SameContent ==
  ASSUME content' = content
  PROVE  Position' = Position /\ Sections' = Sections /\ Groups' = Groups
BY DEF Position, Sections, Groups

\* splitIntoSections.
LEMMA SplitTyped ==
  ASSUME ChunkTypeOK, ReadPage \/ ReadSection \/ ReadBody \/ EndOfContent
  PROVE  ChunkTypeOK'
<1> USE DEF ChunkTypeOK, splitVars, mergeVars, cutVars
<1>1. content' = content
  BY DEF ReadPage, ReadSection, ReadBody, ReadNext, EndOfContent
<1>2. Position' = Position /\ Sections' = Sections /\ Groups' = Groups
  BY <1>1, SameContent
<1>3. Flushed \in Seq(Sections)
  BY DEF Flushed
<1>4. ASSUME ReadNext
      PROVE  /\ line + 1 \in Position /\ line + 1 \in 0..Len(content)
             /\ FenceAfter(fence, NextLine) \in [inside : BOOLEAN, depth : Nat]
  <2>1. line + 1 \in Position /\ line + 1 \in 0..Len(content)
    BY <1>4 DEF ReadNext, Position
  <2> QED BY <2>1, TrackersTyped DEF NextLine
<1>5. CASE ReadPage
  <2>1. Section(<<line + 1>>, {}) \in Sections
    BY <1>4, <1>5 DEF ReadPage, Section, Sections
  <2> QED BY <1>1, <1>2, <1>3, <1>4, <1>5, <2>1 DEF ReadPage, ReadNext
<1>6. CASE ReadSection
  <2>1. current' \in Sections
    <3> DEFINE path == IF pageTitle = 0 THEN <<line + 1>> ELSE <<pageTitle, line + 1>>
    <3>1. path \in Seq(Position)
      <4>1. line + 1 \in Position /\ (pageTitle = 0 \/ pageTitle \in Position)
        BY <1>4, <1>6 DEF ReadSection, Position
      <4> HIDE DEF ChunkTypeOK
      <4>2. CASE pageTitle = 0
        BY <4>1, <4>2
      <4>3. CASE pageTitle # 0
        BY <4>1, <4>3
      <4> QED BY <4>2, <4>3
    <3>2. current' = Section(path, {})
      BY <1>6 DEF ReadSection
    <3> HIDE DEF path
    <3> QED BY <3>1, <3>2 DEF Section, Sections
  <2> QED BY <1>1, <1>2, <1>3, <1>4, <1>6, <2>1 DEF ReadSection, ReadNext
<1>7. CASE ReadBody
  <2>1. current' \in Sections
    BY <1>4, <1>7 DEF ReadBody, Sections
  <2> QED BY <1>1, <1>2, <1>4, <1>7, <2>1 DEF ReadBody, ReadNext
<1>8. CASE EndOfContent
  BY <1>1, <1>2, <1>3, <1>8 DEF EndOfContent
<1> QED BY <1>5, <1>6, <1>7, <1>8

\* mergeUndersizedSections.
LEMMA MergeTyped ==
  ASSUME Tokenizes, ChunkTypeOK, \A g \in DOMAIN groups : groups[g].parts # <<>>,
         GroupSection \/ FinishGroups
  PROVE  ChunkTypeOK' /\ (\A g \in DOMAIN groups : groups[g].parts # <<>>)'
<1> USE DEF ChunkTypeOK, splitVars, mergeVars, cutVars
<1>1. content' = content
  BY DEF GroupSection, FinishGroups
<1>2. Position' = Position /\ Sections' = Sections /\ Groups' = Groups
  BY <1>1, SameContent
<1>3. CASE GroupSection
  <2> DEFINE s == sections[taken + 1]
             grown == Grown(s)
  <2>1. s \in Sections /\ taken + 1 \in 0..Len(sections)
    <3>1. taken + 1 \in DOMAIN sections /\ taken + 1 \in 0..Len(sections)
      BY <1>3 DEF GroupSection
    <3> QED BY <3>1, ElementOf
  <2>2. s.lines \in SUBSET Position /\ s.path \in Seq(Position)
    <3> HIDE DEF s
    <3> QED BY <2>1 DEF Sections
  <2>3. Tokens(s.lines) \in Nat
    <3> HIDE DEF s
    <3> QED BY <2>2, TokensTyped
  <2>4. grown \in Groups /\ grown.parts # <<>>
    <3> DEFINE part == [path |-> s.path, tokens |-> Tokens(s.lines)]
               P == [path : Seq(Position), tokens : Nat]
    <3>1. part \in P
      <4> HIDE DEF s
      <4> QED BY <2>2, <2>3
    <3>2. pending.parts \in Seq(P) /\ pending.lines \in SUBSET Position
      BY DEF Groups
    <3>3. Append(pending.parts, part) \in Seq(P) /\ Append(pending.parts, part) # <<>>
      <4> HIDE DEF ChunkTypeOK, s, part, P
      <4> QED BY <3>1, <3>2, AppendElements
    <3>4. pending.lines \cup s.lines \in SUBSET Position
      <4> HIDE DEF s
      <4> QED BY <2>2, <3>2
    <3>5. grown = [lines |-> pending.lines \cup s.lines,
                   parts |-> Append(pending.parts, part)]
      BY DEF Grown
    <3>6. Groups = [lines : SUBSET Position, parts : Seq(P)]
      BY DEF Groups
    <3> HIDE DEF grown, part, s, P
    <3> QED BY <3>3, <3>4, <3>5, <3>6
  <2>5. NoGroup \in Groups
    BY DEF NoGroup, Groups
  <2>6. \/ groups' = Append(groups, grown) /\ pending' = NoGroup
        \/ groups' = groups /\ pending' = grown
    BY <1>3 DEF GroupSection
  <2>7. /\ groups' \in Seq(Groups) /\ pending' \in Groups
        /\ \A g \in DOMAIN groups' : groups'[g].parts # <<>>
    <3>1. CASE groups' = Append(groups, grown) /\ pending' = NoGroup
      <4> HIDE DEF grown
      <4> QED BY <2>4, <2>5, <3>1, AppendElements
    <3>2. CASE groups' = groups /\ pending' = grown
      <4> HIDE DEF grown
      <4> QED BY <2>4, <3>2
    <3> QED BY <2>6, <3>1, <3>2
  <2>8. taken' \in 0..Len(sections) /\ stage = "merging"
    BY <1>3, <2>1 DEF GroupSection
  <2> QED BY <1>1, <1>2, <1>3, <2>7, <2>8 DEF GroupSection
<1>4. CASE FinishGroups
  <2>1. Grouped \in Seq(Groups) /\ \A g \in DOMAIN Grouped : Grouped[g].parts # <<>>
    <3>1. CASE pending.parts = <<>>
      BY <3>1 DEF Grouped
    <3>2. CASE pending.parts # <<>>
      BY <3>2, AppendElements DEF Grouped
    <3> QED BY <3>1, <3>2
  <2> DEFINE folded == FoldTrailing(Grouped)
  <2>2. folded \in Seq(Groups) /\ \A g \in DOMAIN folded : folded[g].parts # <<>>
    BY <2>1, FoldTrailingTyped
  <2>3. ASSUME NEW k \in DOMAIN folded
        PROVE  Section(DominantPath(folded[k].parts), folded[k].lines) \in Sections
    <3>1. folded[k] \in Groups
      <4> HIDE DEF folded
      <4> QED BY <2>2, <2>3, ElementOf
    <3>2. /\ folded[k].lines \in SUBSET Position
          /\ folded[k].parts \in Seq([path : Seq(Position), tokens : Nat])
      <4> HIDE DEF folded
      <4> QED BY <3>1 DEF Groups
    <3>3. DominantPath(folded[k].parts) \in Seq(Position)
      <4> HIDE DEF folded
      <4> QED BY <2>2, <2>3, <3>2, DominantPathTyped
    <3> HIDE DEF folded
    <3> QED BY <3>2, <3>3 DEF Section, Sections
  <2>4. merged' \in Seq(Sections)
    <3>1. merged' = [k \in DOMAIN folded |->
                        Section(DominantPath(folded[k].parts), folded[k].lines)]
      BY <1>4 DEF FinishGroups
    <3>2. Len(folded) \in Nat /\ DOMAIN folded = 1..Len(folded)
      <4> HIDE DEF folded
      <4> QED BY <2>2
    <3> HIDE DEF folded
    <3> QED BY <2>3, <3>1, <3>2
  <2>5. taken' = 0 /\ stage' = "splitting" /\ 0 \in 0..Len(merged')
    BY <1>4, <2>4 DEF FinishGroups
  <2> QED BY <1>1, <1>2, <1>4, <2>4, <2>5 DEF FinishGroups
<1> QED BY <1>3, <1>4

\* splitOversizedSection.
LEMMA CutTyped ==
  ASSUME Tokenizes, ChunkTypeOK,
         \/ KeepWhole \/ BeginCut \/ EndCut
         \/ \E i \in rest : CutAtomicLine(i) \/ CutPlainLine(i)
  PROVE  ChunkTypeOK'
<1> USE DEF ChunkTypeOK, splitVars, mergeVars
<1>1. /\ content' = content /\ taken' = taken
      /\ sections' = sections /\ merged' = merged
  BY DEF KeepWhole, BeginCut, EndCut, CutAtomicLine, CutPlainLine, CutNext
<1>2. Position' = Position /\ Sections' = Sections /\ Groups' = Groups
  BY <1>1, SameContent
<1>3. ASSUME Splitting
      PROVE  NextSection.lines \in SUBSET Position
  <2>1. taken + 1 \in DOMAIN merged
    BY <1>3 DEF Splitting
  <2>2. NextSection \in Sections
    BY <2>1, ElementOf DEF NextSection
  <2> QED BY <2>2 DEF Sections
<1>4. CASE KeepWhole
  <2>1. bodies' \in Seq(SUBSET Position)
    BY <1>3, <1>4, Singletons DEF KeepWhole
  <2>2. pushed' = 0 /\ 0 \in 0..Len(bodies')
    BY <1>4, <2>1 DEF KeepWhole, Splitting
  <2>3. taken < Len(merged)
    BY <1>4 DEF KeepWhole, Splitting
  <2> QED BY <1>1, <1>2, <1>4, <2>1, <2>2, <2>3 DEF KeepWhole, Splitting
<1>5. CASE BeginCut
  <2>1. /\ rest' \in SUBSET Position /\ buffer' = {} /\ bodies' = <<>>
        /\ taken < Len(merged) /\ stage = "splitting"
    BY <1>3, <1>5 DEF BeginCut, Splitting
  <2>2. /\ NoFence \in [inside : BOOLEAN, depth : Nat]
        /\ NoTable \in [inside : BOOLEAN, depth : Nat, tokens : Nat]
        /\ NoRows \in [inside : BOOLEAN, tokens : Nat]
    BY DEF NoFence, NoTable, NoRows
  <2> QED BY <1>1, <1>2, <1>5, <2>1, <2>2 DEF BeginCut
<1>6. CASE EndCut
  <2>1. Body(buffer) \in Seq(SUBSET Position)
    BY TokensTyped
  <2>2. bodies \o Body(buffer) \in Seq(SUBSET Position)
    <3> HIDE DEF ChunkTypeOK
    <3>1. bodies \in Seq(SUBSET Position)
      BY DEF ChunkTypeOK
    <3> QED BY <2>1, <3>1
  <2>3. bodies' \in Seq(SUBSET Position)
    BY <1>6, <2>2, FoldShortTyped DEF EndCut
  <2>4. pushed' = 0 /\ 0 \in 0..Len(bodies')
    BY <1>6, <2>3 DEF EndCut
  <2> QED BY <1>1, <1>2, <1>6, <2>3, <2>4 DEF EndCut
<1>7. ASSUME NEW i \in rest, CutAtomicLine(i) \/ CutPlainLine(i)
      PROVE  ChunkTypeOK'
  <2>1. i \in Position /\ {i} \in SUBSET Position
    OBVIOUS
  <2>2. CutNext(i)
    BY <1>7 DEF CutAtomicLine, CutPlainLine
  <2>3. /\ fence' \in [inside : BOOLEAN, depth : Nat]
        /\ table' \in [inside : BOOLEAN, depth : Nat, tokens : Nat]
        /\ mdTable' \in [inside : BOOLEAN, tokens : Nat]
    <3>1. Tokens({i}) \in Nat
      BY <2>1, TokensTyped
    <3> HIDE DEF ChunkTypeOK
    <3> QED BY <2>1, <2>2, <3>1, TrackersTyped DEF CutNext, FenceNow
  <2>4. /\ BodiesAt(i) \in Seq(SUBSET Position)
        /\ BufferAt(i) \in SUBSET Position
    BY ConcatBody DEF BodiesAt, BufferAt
  <2>5. bodies' \in Seq(SUBSET Position) /\ buffer' \in SUBSET Position
    <3>1. CASE CutAtomicLine(i)
      BY <2>1, <2>4, <3>1 DEF CutAtomicLine
    <3>2. CASE CutPlainLine(i)
      <4> DEFINE before == IF Overfull(i) THEN BodiesAt(i) \o Body(BufferAt(i))
                                          ELSE BodiesAt(i)
                 full   == (IF Overfull(i) THEN {} ELSE BufferAt(i)) \cup {i}
      <4>1. full \in SUBSET Position
        BY <2>1, <2>4
      <4>2. before \in Seq(SUBSET Position)
        BY <2>4, ConcatBody
      <4>3. before \o Body(full) \in Seq(SUBSET Position)
        <5> HIDE DEF before, full
        <5> QED BY <4>1, <4>2, ConcatBody
      <4>4. /\ bodies' = before \o Body(full) \/ bodies' = before
            /\ buffer' = {} \/ buffer' = full
        BY <3>2 DEF CutPlainLine
      <4> HIDE DEF before, full
      <4> QED BY <4>1, <4>2, <4>3, <4>4
    <3> QED BY <1>7, <3>1, <3>2
  <2>6. rest' \in SUBSET Position /\ pushed' = 0 /\ stage' = stage /\ stage = "cutting"
    BY <2>2 DEF CutNext
  <2> QED BY <1>1, <1>2, <2>2, <2>3, <2>5, <2>6 DEF CutNext
<1> QED BY <1>4, <1>5, <1>6, <1>7

\* The chunks.
LEMMA PushTyped ==
  ASSUME Tokenizes, ChunkTypeOK, PushChunk \/ SectionDone \/ Return
  PROVE  ChunkTypeOK'
<1> USE DEF ChunkTypeOK, splitVars, mergeVars, cutVars
<1>1. content' = content
  BY DEF PushChunk, SectionDone, Return
<1>2. Position' = Position /\ Sections' = Sections /\ Groups' = Groups
  BY <1>1, SameContent
<1>3. CASE PushChunk
  <2>1. NextSection.path \in Seq(Position)
    <3>1. taken + 1 \in DOMAIN merged
      BY <1>3 DEF PushChunk
    <3>2. NextSection \in Sections
      BY <3>1, ElementOf DEF NextSection
    <3> QED BY <3>2 DEF Sections
  <2>2. bodies[pushed + 1] \in SUBSET Position /\ pushed + 1 \in 0..Len(bodies)
    <3>1. pushed + 1 \in DOMAIN bodies /\ pushed + 1 \in 0..Len(bodies)
      BY <1>3 DEF PushChunk
    <3> QED BY <3>1, ElementOf
  <2> DEFINE trimmed == Trimmed(bodies[pushed + 1])
             C == [lines : SUBSET Position, path : Seq(Position), tokens : Nat]
             chunk == [lines |-> trimmed, path |-> NextSection.path,
                       tokens |-> Tokens(trimmed)]
  <2>3. trimmed \in SUBSET Position
    <3> HIDE DEF ChunkTypeOK
    <3> QED BY <2>2, TokensTyped
  <2>4. chunk \in C
    <3>1. Tokens(trimmed) \in Nat
      <4> HIDE DEF ChunkTypeOK, trimmed
      <4> QED BY <2>3, TokensTyped
    <3> HIDE DEF ChunkTypeOK, trimmed
    <3> QED BY <2>1, <2>3, <3>1
  <2>5. chunks \in Seq(C) /\ (chunks' = chunks \/ chunks' = Append(chunks, chunk))
    BY <1>3 DEF PushChunk
  <2>6. chunks' \in Seq(C)
    <3> HIDE DEF ChunkTypeOK, C, chunk
    <3> QED BY <2>4, <2>5
  <2> QED BY <1>1, <1>2, <1>3, <2>2, <2>6 DEF PushChunk
<1>4. CASE SectionDone
  BY <1>1, <1>2, <1>4 DEF SectionDone
<1>5. CASE Return
  BY <1>1, <1>2, <1>5 DEF Return
<1> QED BY <1>3, <1>4, <1>5

\* The chunker before its first step, whatever the content.
LEMMA FreshTyped ==
  ASSUME ChunkInit, output \in Seq(Line)
  PROVE  /\ ChunkTypeOK
         /\ StartChunking => ChunkTypeOK'
<1>1. /\ NoFence \in [inside : BOOLEAN, depth : Nat]
      /\ NoTable \in [inside : BOOLEAN, depth : Nat, tokens : Nat]
      /\ NoRows \in [inside : BOOLEAN, tokens : Nat]
      /\ NoGroup \in Groups /\ Section(<<>>, {}) \in Sections
  BY DEF NoFence, NoTable, NoRows, NoGroup, Section, Groups, Sections
<1>2. ChunkTypeOK
  BY <1>1 DEF ChunkInit, ChunkTypeOK
<1>3. ASSUME StartChunking
      PROVE  ChunkTypeOK'
  <2>1. NoGroup \in Groups' /\ Section(<<>>, {}) \in Sections'
    BY DEF NoGroup, Section, Groups, Sections
  <2> QED BY <1>1, <1>3, <2>1
      DEF StartChunking, ChunkMarkdown, ChunkInit, ChunkTypeOK, splitVars, mergeVars, cutVars
<1> QED BY <1>2, <1>3

\* The types hold at first,
LEMMA TypeInit ==
  ASSUME Init
  PROVE  TypeInv
<1>1. CleanTypeOK
  <2>1. raw \in Seq(Line)
    BY DocumentAssumption DEF Init
  <2>2. 0 \in 0..Len(raw) /\ <<>> \in Seq(Line)
    BY <2>1
  <2> QED BY <2>1, <2>2 DEF Init, CleanInit, CleanTypeOK
<1>2. ChunkTypeOK
  BY <1>1, FreshTyped DEF Init, CleanTypeOK
<1> QED BY <1>1, <1>2 DEF Init, CleanInit, ChunkInit, TypeOK, TypeInv

\* and every step of cleaning and of chunking keeps them.
LEMMA TypeStep ==
  ASSUME Tokenizes, TypeInv, [Next]_vars
  PROVE  TypeInv'
<1> USE DEF TypeInv, TypeOK
<1>1. CASE Clean
  <2>1. CleanTypeOK' /\ (skippingSwitchBranch => insideFence)'
    BY <1>1, CleanTyped DEF Clean
  <2>2. ~cleaned /\ stage = "waiting"
    BY <1>1 DEF Clean, CleanNext, ReadFence, SkipLine, ReadTable, ReadFilename,
                ReadSwitch, ReadText, PastTables, PastSkipping, Reading, EndOfRaw
  <2>3. ChunkTypeOK' /\ ChunkInit' /\ stage' = "waiting" /\ groups' = groups
    BY <1>1, <2>2 DEF Clean, chunkVars, splitVars, mergeVars, cutVars,
                      ChunkTypeOK, ChunkInit, Position, Sections, Groups
  <2> QED BY <2>1, <2>3
<1>2. CASE StartChunking
  <2>1. ChunkTypeOK' /\ groups' = groups
    BY <1>2, FreshTyped DEF StartChunking, ChunkMarkdown, CleanTypeOK, mergeVars
  <2>2. CleanTypeOK' /\ (skippingSwitchBranch => insideFence)'
    BY <1>2 DEF StartChunking, cleanVars, CleanTypeOK
  <2> QED BY <1>2, <2>1, <2>2 DEF StartChunking, ChunkMarkdown, cleanVars
<1>3. CASE Chunk
  <2>1. CleanTypeOK' /\ (skippingSwitchBranch => insideFence)' /\ output' = output
        /\ cleaned' = cleaned
    BY <1>3 DEF Chunk, cleanVars, CleanTypeOK
  <2>2. ChunkTypeOK' /\ (\A g \in DOMAIN groups : groups[g].parts # <<>>)'
    <3>1. CASE ReadPage \/ ReadSection \/ ReadBody \/ EndOfContent
      BY <3>1, SplitTyped DEF ReadPage, ReadSection, ReadBody, ReadNext, EndOfContent,
                              mergeVars
    <3>2. CASE GroupSection \/ FinishGroups
      BY <3>2, MergeTyped
    <3>3. CASE \/ KeepWhole \/ BeginCut \/ EndCut
               \/ \E i \in rest : CutAtomicLine(i) \/ CutPlainLine(i)
      BY <3>3, CutTyped DEF KeepWhole, BeginCut, EndCut, CutAtomicLine, CutPlainLine,
                            CutNext, mergeVars
    <3>4. CASE PushChunk \/ SectionDone \/ Return
      BY <3>4, PushTyped DEF PushChunk, SectionDone, Return, mergeVars
    <3> QED BY <1>3, <3>1, <3>2, <3>3, <3>4 DEF Chunk, ChunkNext
  <2>3. stage # "waiting" /\ stage' # "waiting" /\ content' = content
    BY <1>3 DEF Chunk, ChunkNext, ReadPage, ReadSection, ReadBody, ReadNext, EndOfContent,
                GroupSection, FinishGroups, KeepWhole, BeginCut, Splitting, EndCut,
                CutAtomicLine, CutPlainLine, CutNext, PushChunk, SectionDone, Return
  <2> QED BY <2>1, <2>2, <2>3
<1>4. CASE ParseFails
  <2>1. /\ NoFence \in [inside : BOOLEAN, depth : Nat]
        /\ NoTable \in [inside : BOOLEAN, depth : Nat, tokens : Nat]
        /\ NoRows \in [inside : BOOLEAN, tokens : Nat]
        /\ NoGroup \in Groups' /\ Section(<<>>, {}) \in Sections'
    BY DEF NoFence, NoTable, NoRows, NoGroup, Section, Groups, Sections
  <2>2. ChunkTypeOK'
    BY <1>4, <2>1 DEF ParseFails, ChunkTypeOK
  <2>3. CleanTypeOK' /\ (skippingSwitchBranch => insideFence)'
    BY <1>4 DEF ParseFails, cleanVars, CleanTypeOK
  <2> QED BY <1>4, <2>2, <2>3 DEF ParseFails, cleanVars
<1>5. CASE UNCHANGED vars
  BY <1>5 DEF vars, cleanVars, chunkVars, splitVars, mergeVars, cutVars, CleanTypeOK,
              ChunkTypeOK, ChunkInit, Position, Sections, Groups
<1> QED BY <1>1, <1>2, <1>3, <1>4, <1>5 DEF Next

\* With a tokenizer that counts, every variable stays in its type, whatever the pages
\* and the limits: no list is read past its end, and the chunker works on what the
\* cleaner returned.
THEOREM TypeCorrect == Tokenizes => (Spec => []TypeOK)
<1> SUFFICES ASSUME Tokenizes
             PROVE  Spec => []TypeOK
  OBVIOUS
<1>1. Init => TypeInv
  BY TypeInit
<1>2. TypeInv /\ [Next]_vars => TypeInv'
  BY TypeStep
<1>3. TypeInv => TypeOK
  BY DEF TypeInv
<1> QED BY <1>1, <1>2, <1>3, PTL DEF Spec

-------------------------------------------------------------------------------
(***************************************************************************)
(* No line is lost: DocumentInv is inductive, stage by stage.              *)
(***************************************************************************)

\* Appending what comes later keeps the order.
LEMMA AppendInOrder ==
  ASSUME NEW T, NEW s \in Seq(T), NEW e \in T,
         InOrder(s), \A k \in DOMAIN s : Before(s[k].lines, e.lines)
  PROVE  InOrder(Append(s, e))
<1>1. \A k \in DOMAIN s : ~(Len(s) + 1 < k)
  OBVIOUS
<1>2. ~(Len(s) + 1 < Len(s) + 1)
  OBVIOUS
<1> QED BY <1>1, <1>2, AppendElements DEF InOrder

\* The same for a list of sets.
LEMMA AppendSetsInOrder ==
  ASSUME NEW T, NEW s \in Seq(T), NEW e \in T,
         SetsInOrder(s), \A k \in DOMAIN s : Before(s[k], e)
  PROVE  SetsInOrder(Append(s, e))
<1>1. \A k \in DOMAIN s : ~(Len(s) + 1 < k)
  OBVIOUS
<1>2. ~(Len(s) + 1 < Len(s) + 1)
  OBVIOUS
<1> QED BY <1>1, <1>2, AppendElements DEF SetsInOrder

\* A list from its first element on, from an element on, and past its last.
LEMMA FromFirst ==
  ASSUME NEW T, NEW s \in Seq(T)
  PROVE  From(s, 0 + 1) = DOMAIN s
<1>1. Len(s) \in Nat /\ \A k \in DOMAIN s : k \in Nat /\ k >= 0 + 1
  OBVIOUS
<1> QED BY <1>1 DEF From

\* What is left of a list from a place on, one step later.
LEMMA FromNext ==
  ASSUME NEW T, NEW s \in Seq(T), NEW n \in Nat
  PROVE  /\ n < Len(s) => /\ n + 1 \in DOMAIN s
                          /\ n + 1 \in From(s, n + 1)
                          /\ \A k \in From(s, n + 1) : k = n + 1 \/ k \in From(s, n + 2)
         /\ \A k \in From(s, n + 2) : n + 1 < k /\ k \in DOMAIN s /\ k \in From(s, n + 1)
         /\ n + 2 = (n + 1) + 1
         /\ From(s, Len(s) + 1) = {}
<1>1. Len(s) \in Nat /\ DOMAIN s = 1..Len(s)
  OBVIOUS
<1> QED BY <1>1 DEF From

\* What a step of the chunker leaves alone.
LEMMA SameCounts ==
  ASSUME content' = content
  PROVE  Position' = Position /\ Counts' = Counts
BY DEF Position, Counts

\* splitIntoSections: a section is closed.
LEMMA FlushedInv ==
  ASSUME ChunkTypeOK, SectionsInv
  PROVE  /\ Flushed \in Seq(Sections)
         /\ InOrder(Flushed)
         /\ \A k \in DOMAIN Flushed : Flushed[k].lines \subseteq 1..line
         /\ \A i \in Counts \cap 1..line : \E k \in DOMAIN Flushed : i \in Flushed[k].lines
<1>1. sections \in Seq(Sections) /\ current \in Sections
  BY DEF ChunkTypeOK
<1>2. CASE HasText(current.lines)
  <2>1. Flushed = Append(sections, current)
    BY <1>2 DEF Flushed
  <2>2. InOrder(Append(sections, current))
    BY <1>1, AppendInOrder DEF SectionsInv
  <2> QED BY <1>1, <2>1, <2>2, AppendElements DEF SectionsInv
<1>3. CASE ~HasText(current.lines)
  <2>1. Flushed = sections
    BY <1>3 DEF Flushed
  <2>2. \A i \in Counts : i \notin current.lines
    BY <1>3 DEF HasText, Counts
  <2> QED BY <1>1, <2>1, <2>2 DEF SectionsInv
<1> QED BY <1>2, <1>3

\* splitIntoSections.
LEMMA SplitInv ==
  ASSUME TypeInv, DocumentInv, ReadPage \/ ReadSection \/ ReadBody \/ EndOfContent
  PROVE  DocumentInv'
<1>1. /\ ChunkTypeOK /\ SectionsInv /\ stage = "sections" /\ taken = 0
      /\ pending = NoGroup /\ groups = <<>> /\ merged = <<>> /\ bodies = <<>> /\ chunks = <<>>
  BY DEF ReadPage, ReadSection, ReadBody, ReadNext, EndOfContent, TypeInv, TypeOK,
         DocumentInv, ChunkTypeOK
<1>2. /\ content' = content /\ Counts' = Counts
      /\ pending' = pending /\ groups' = groups /\ bodies' = bodies /\ chunks' = chunks
      /\ taken' = taken /\ stage' # "done"
  BY <1>1, SameCounts DEF ReadPage, ReadSection, ReadBody, ReadNext, EndOfContent,
                          mergeVars, cutVars
<1>3. line \in Nat /\ Len(content) \in Nat /\ line <= Len(content)
  BY <1>1 DEF ChunkTypeOK
<1>4. 1..(line + 1) = 1..line \cup {line + 1} /\ \A i \in 1..line : i < line + 1
  BY <1>3
<1>5. ASSUME ReadPage \/ ReadSection
      PROVE  SectionsInv'
  <2>1. sections' = Flushed /\ current'.lines = {} /\ line' = line + 1
    BY <1>5 DEF ReadPage, ReadSection, ReadNext, Section
  <2>2. line + 1 \notin Counts
    BY <1>5 DEF ReadPage, ReadSection, Heading, NextLine, Counts
  <2>3. InOrder(sections')
    BY <1>1, <2>1, FlushedInv
  <2>4. \A k \in DOMAIN sections' : sections'[k].lines \subseteq 1..(line + 1)
    BY <1>1, <1>4, <2>1, FlushedInv
  <2>5. \A i \in Counts \cap 1..(line + 1) : \E k \in DOMAIN sections' : i \in sections'[k].lines
    BY <1>1, <1>4, <2>1, <2>2, FlushedInv
  <2> QED BY <1>2, <2>1, <2>3, <2>4, <2>5 DEF SectionsInv, InOrder, Before
<1>6. ASSUME ReadBody
      PROVE  SectionsInv'
  <2>1. sections' = sections /\ current'.lines = current.lines \cup {line + 1}
        /\ line' = line + 1
    BY <1>1, <1>6 DEF ReadBody, ReadNext, ChunkTypeOK, Sections
  <2>2. \A k \in DOMAIN sections : Before(sections[k].lines, current'.lines)
    BY <1>1, <1>4, <2>1 DEF SectionsInv, Before
  <2> QED BY <1>1, <1>2, <1>4, <2>1, <2>2 DEF SectionsInv, InOrder
<1>7. CASE ReadPage \/ ReadSection \/ ReadBody
  <2>1. SectionsInv' /\ stage' = "sections" /\ merged' = merged
    BY <1>1, <1>5, <1>6, <1>7 DEF ReadPage, ReadSection, ReadBody, ReadNext, mergeVars
  <2> QED BY <1>1, <1>2, <2>1 DEF DocumentInv, EveryLineOnceInOrder
<1>8. CASE EndOfContent
  <2>1. sections' = Flushed /\ line = Len(content)
    BY <1>8 DEF EndOfContent
  <2>2. Counts \subseteq 1..line
    BY <2>1 DEF Counts, Position
  <2>3. Flushed \in Seq(Sections) /\ InOrder(Flushed)
    BY <1>1, FlushedInv
  <2>4. \A i \in Counts : \E k \in DOMAIN Flushed : i \in Flushed[k].lines
    BY <1>1, <2>2, FlushedInv
  <2>5. From(Flushed, 0 + 1) = DOMAIN Flushed
    BY <2>3, FromFirst
  <2>6. CASE stage' = "splitting" /\ merged' = Flushed
    <3>1. MergedInv(taken + 1)'
      BY <1>1, <1>2, <2>3, <2>6 DEF MergedInv, InOrder
    <3>2. From(merged, taken + 1)' = DOMAIN Flushed
      BY <1>1, <1>2, <2>5, <2>6 DEF From
    <3>3. SplittingInv'
      BY <1>2, <2>4, <2>6, <3>1, <3>2 DEF SplittingInv
    <3> QED BY <1>1, <1>2, <2>6, <3>3 DEF DocumentInv, EveryLineOnceInOrder
  <2>7. CASE stage' = "merging"
    <3>1. From(sections, taken + 1)' = DOMAIN Flushed
      BY <1>1, <1>2, <2>1, <2>5 DEF From
    <3>2. MergingInv'
      BY <1>1, <1>2, <2>1, <2>3, <2>4, <3>1 DEF MergingInv, InOrder, Before, NoGroup
    <3> QED BY <1>1, <1>2, <2>7, <3>2 DEF DocumentInv, EveryLineOnceInOrder
  <2> QED BY <1>8, <2>6, <2>7 DEF EndOfContent
<1> QED BY <1>7, <1>8

\* groupByMinimum.
LEMMA GroupInv ==
  ASSUME Tokenizes, TypeInv, DocumentInv, GroupSection
  PROVE  DocumentInv'
<1> DEFINE s == sections[taken + 1]
           grown == Grown(s)
<1>1. /\ ChunkTypeOK /\ MergingInv /\ bodies = <<>> /\ chunks = <<>>
      /\ stage' = "merging" /\ content' = content /\ Counts' = Counts
      /\ sections' = sections /\ bodies' = bodies /\ chunks' = chunks
      /\ taken \in Nat /\ taken < Len(sections) /\ taken' = taken + 1
  BY SameCounts DEF GroupSection, TypeInv, TypeOK, DocumentInv, ChunkTypeOK, splitVars, cutVars
<1>2. sections \in Seq(Sections) /\ groups \in Seq(Groups)
  BY <1>1 DEF ChunkTypeOK
<1>3. /\ taken + 1 \in DOMAIN sections /\ taken + 1 \in From(sections, taken + 1)
      /\ \A k \in From(sections, taken + 1) : k = taken + 1 \/ k \in From(sections, taken + 2)
      /\ \A k \in From(sections, taken + 2) :
            taken + 1 < k /\ k \in DOMAIN sections /\ k \in From(sections, taken + 1)
      /\ From(sections, taken + 1)' = From(sections, taken + 2)
  <2>1. taken + 2 = (taken + 1) + 1
    BY <1>1
  <2>2. From(sections, taken + 1)' = From(sections, taken + 2)
    BY <1>1, <2>1 DEF From
  <2> QED BY <1>1, <1>2, <2>2, FromNext
<1>4. grown.lines = pending.lines \cup s.lines /\ grown.parts # <<>>
  <2>1. ChunkTypeOK' /\ (\A g \in DOMAIN groups : groups[g].parts # <<>>)'
    BY MergeTyped DEF TypeInv, TypeOK
  <2>2. pending.parts \in Seq([path : Seq(Position), tokens : Nat])
    BY <1>1 DEF ChunkTypeOK, Groups
  <2> DEFINE P == [path : Seq(Position), tokens : Nat]
             part == [path |-> s.path, tokens |-> Tokens(s.lines)]
  <2>3. grown = [lines |-> pending.lines \cup s.lines, parts |-> Append(pending.parts, part)]
    BY DEF Grown
  <2>4. Append(pending.parts, part) # <<>>
    <3> HIDE DEF part, P
    <3> QED BY <2>2
  <2> HIDE DEF grown, s, part
  <2> QED BY <2>3, <2>4
<1>5. \A g \in DOMAIN groups : Before(groups[g].lines, grown.lines)
  <2> HIDE DEF grown
  <2> QED BY <1>1, <1>3, <1>4 DEF MergingInv, Before
<1>6. \A k \in From(sections, taken + 2) :
         /\ Before(grown.lines, sections[k].lines)
         /\ \A g \in DOMAIN groups : Before(groups[g].lines, sections[k].lines)
  <2> HIDE DEF grown
  <2> QED BY <1>1, <1>3, <1>4 DEF MergingInv, InOrder, Before
<1>7. \A i \in Counts : \/ i \in grown.lines
                        \/ \E g \in DOMAIN groups : i \in groups[g].lines
                        \/ \E k \in From(sections, taken + 2) : i \in sections[k].lines
  <2> HIDE DEF grown
  <2> QED BY <1>1, <1>3, <1>4 DEF MergingInv
<1>8. \/ groups' = Append(groups, grown) /\ pending' = NoGroup
      \/ groups' = groups /\ pending' = grown
  BY DEF GroupSection
<1>9. MergingInv'
  <2>1. CASE groups' = Append(groups, grown) /\ pending' = NoGroup
    <3>1. grown \in Groups
      <4>1. ChunkTypeOK' /\ Groups' = Groups
        BY <1>1, MergeTyped, SameContent DEF TypeInv, TypeOK
      <4>2. groups' \in Seq(Groups) /\ Len(groups) + 1 \in DOMAIN groups'
        <5> HIDE DEF grown
        <5> QED BY <1>2, <2>1, <4>1 DEF ChunkTypeOK
      <4>3. groups'[Len(groups) + 1] = grown
        <5> HIDE DEF grown
        <5> QED BY <1>2, <2>1
      <4> HIDE DEF grown
      <4> QED BY <4>2, <4>3, ElementOf
    <3>2. InOrder(groups')
      <4> HIDE DEF grown
      <4> QED BY <1>1, <1>2, <1>5, <2>1, <3>1, AppendInOrder DEF MergingInv
    <3>3. /\ DOMAIN groups' = DOMAIN groups \cup {Len(groups) + 1}
          /\ \A k \in DOMAIN groups : groups'[k] = groups[k]
          /\ groups'[Len(groups) + 1] = grown
      <4> HIDE DEF grown
      <4> QED BY <1>2, <2>1, <3>1, AppendElements
    <3> HIDE DEF grown
    <3> QED BY <1>1, <1>3, <1>6, <1>7, <2>1, <3>2, <3>3
        DEF MergingInv, InOrder, NoGroup, Before
  <2>2. CASE groups' = groups /\ pending' = grown
    <3> HIDE DEF grown
    <3> QED BY <1>1, <1>3, <1>4, <1>5, <1>6, <1>7, <2>2 DEF MergingInv, InOrder
  <2> QED BY <1>8, <2>1, <2>2
<1> QED BY <1>1, <1>9 DEF DocumentInv, EveryLineOnceInOrder

\* foldTrailing joins the last two groups, and nothing else.
LEMMA FoldTrailingKeeps ==
  ASSUME NEW gs \in Seq(Groups), InOrder(gs)
  PROVE  /\ InOrder(FoldTrailing(gs))
         /\ \A i : (\E g \in DOMAIN gs : i \in gs[g].lines)
                   => \E g \in DOMAIN FoldTrailing(gs) : i \in FoldTrailing(gs)[g].lines
<1>1. CASE Len(gs) < 2
  BY <1>1 DEF FoldTrailing
<1>2. CASE ~(Len(gs) < 2)
  <2> DEFINE n      == Len(gs) - 1
             front  == SubSeq(gs, 1, Len(gs) - 2)
             joined == [lines |-> gs[n].lines \cup Last(gs).lines,
                        parts |-> gs[n].parts \o Last(gs).parts]
  <2>1. /\ Len(gs) \in Nat /\ n \in DOMAIN gs /\ Len(gs) \in DOMAIN gs /\ n < Len(gs)
        /\ Len(gs) - 2 \in 0..Len(gs)
        /\ \A g \in DOMAIN gs : g \in 1..(Len(gs) - 2) \/ g = n \/ g = Len(gs)
        /\ \A g \in 1..(Len(gs) - 2) : g < n /\ g < Len(gs)
    BY <1>2
  <2>2. gs[n] \in Groups /\ Last(gs) \in Groups
    BY <2>1, ElementOf DEF Last
  <2>3. joined \in Groups
    <3> HIDE DEF n
    <3> QED BY <2>2 DEF Groups
  <2>4. /\ front \in Seq(Groups) /\ Len(front) = Len(gs) - 2
        /\ DOMAIN front = 1..(Len(gs) - 2)
        /\ \A g \in DOMAIN front : g \in DOMAIN gs /\ front[g] = gs[g]
    <3> DEFINE m == Len(gs) - 2
    <3>1. m \in 0..Len(gs)
      BY <2>1
    <3> HIDE DEF m
    <3>2. /\ SubSeq(gs, 1, m) \in Seq(Groups) /\ Len(SubSeq(gs, 1, m)) = m
          /\ DOMAIN SubSeq(gs, 1, m) = 1..m
          /\ \A k \in DOMAIN SubSeq(gs, 1, m) :
                k \in DOMAIN gs /\ SubSeq(gs, 1, m)[k] = gs[k]
      BY <3>1, FrontElements
    <3> QED BY <3>2 DEF m
  <2>5. joined.lines = gs[n].lines \cup gs[Len(gs)].lines
    BY DEF Last
  <2>6. InOrder(front) /\ \A g \in DOMAIN front : Before(front[g].lines, joined.lines)
    <3> HIDE DEF front, joined, n
    <3> QED BY <2>1, <2>4, <2>5 DEF InOrder, Before
  <2>7. InOrder(Append(front, joined))
    <3> HIDE DEF front, joined, n
    <3> QED BY <2>3, <2>4, <2>6, AppendInOrder
  <2>8. \A i : (\E g \in DOMAIN gs : i \in gs[g].lines)
               => \E g \in DOMAIN Append(front, joined) : i \in Append(front, joined)[g].lines
    <3>1. /\ DOMAIN Append(front, joined) = DOMAIN front \cup {Len(front) + 1}
          /\ \A g \in DOMAIN front : Append(front, joined)[g] = front[g]
          /\ Append(front, joined)[Len(front) + 1] = joined
      <4> HIDE DEF front, joined, n
      <4> QED BY <2>3, <2>4, AppendElements
    <3> HIDE DEF front, joined, n
    <3> QED BY <2>1, <2>4, <2>5, <3>1
  <2>9. FoldTrailing(gs) = gs \/ FoldTrailing(gs) = Append(front, joined)
    BY DEF FoldTrailing
  <2> HIDE DEF front, joined, n
  <2> QED BY <2>7, <2>8, <2>9
<1> QED BY <1>1, <1>2

\* mergeUndersizedSections returns.
LEMMA FinishInv ==
  ASSUME Tokenizes, TypeInv, DocumentInv, FinishGroups
  PROVE  DocumentInv'
<1> DEFINE folded == FoldTrailing(Grouped)
<1>1. /\ ChunkTypeOK /\ MergingInv /\ chunks = <<>> /\ bodies = <<>>
      /\ stage' = "splitting" /\ taken' = 0 /\ content' = content /\ Counts' = Counts
      /\ chunks' = chunks /\ bodies' = bodies /\ taken = Len(sections)
      /\ merged' = [k \in DOMAIN folded |->
                       Section(DominantPath(folded[k].parts), folded[k].lines)]
  BY SameCounts DEF FinishGroups, TypeInv, TypeOK, DocumentInv, cutVars
<1>2. groups \in Seq(Groups) /\ pending \in Groups /\ sections \in Seq(Sections)
  BY <1>1 DEF ChunkTypeOK
<1>3. From(sections, taken + 1) = {}
  <2>1. 0 \in Nat
    OBVIOUS
  <2> QED BY <1>1, <1>2, <2>1, FromNext
<1>4. /\ Grouped \in Seq(Groups) /\ InOrder(Grouped)
      /\ \A i \in Counts : \E g \in DOMAIN Grouped : i \in Grouped[g].lines
  <2>1. CASE pending.parts = <<>>
    BY <1>1, <1>2, <1>3, <2>1 DEF Grouped, MergingInv
  <2>2. CASE pending.parts # <<>>
    <3>1. Grouped = Append(groups, pending)
      BY <2>2 DEF Grouped
    <3>2. InOrder(Grouped)
      BY <1>1, <1>2, <3>1, AppendInOrder DEF MergingInv
    <3> QED BY <1>1, <1>2, <1>3, <3>1, <3>2, AppendElements DEF MergingInv
  <2> QED BY <2>1, <2>2
<1>5. /\ InOrder(folded)
      /\ \A i \in Counts : \E g \in DOMAIN folded : i \in folded[g].lines
  BY <1>4, FoldTrailingKeeps
<1>6. /\ DOMAIN merged' = DOMAIN folded
      /\ \A k \in DOMAIN folded : merged'[k].lines = folded[k].lines
  <2> HIDE DEF folded
  <2> QED BY <1>1 DEF Section
<1>7. From(merged, taken + 1)' = DOMAIN merged'
  <2>1. merged' \in Seq(Sections') /\ taken' = 0
    BY <1>1, MergeTyped DEF TypeInv, TypeOK, ChunkTypeOK
  <2>2. From(merged', 0 + 1) = DOMAIN merged'
    BY <2>1, FromFirst
  <2> QED BY <2>1, <2>2 DEF From
<1>8. SplittingInv'
  <2>1. MergedInv(taken + 1)'
    <3> HIDE DEF folded
    <3> QED BY <1>1, <1>5, <1>6 DEF MergedInv, InOrder
  <2> HIDE DEF folded
  <2> QED BY <1>1, <1>5, <1>6, <1>7, <2>1 DEF SplittingInv
<1> QED BY <1>1, <1>8 DEF DocumentInv, EveryLineOnceInOrder

\* flush() in splitOversizedSection: a body takes what the buffer holds.
LEMMA BodyInv ==
  ASSUME NEW bs \in Seq(SUBSET Position), NEW buf \in SUBSET Position, NEW left,
         CutInto(bs, buf, left)
  PROVE  CutInto(bs \o Body(buf), {}, left)
<1>1. CASE HasText(buf)
  <2>1. bs \o Body(buf) = Append(bs, buf)
    <3>1. bs \o <<buf>> = Append(bs, buf)
      OBVIOUS
    <3> QED BY <1>1, <3>1 DEF Body
  <2>2. SetsInOrder(Append(bs, buf))
    BY AppendSetsInOrder DEF CutInto
  <2>3. /\ DOMAIN Append(bs, buf) = DOMAIN bs \cup {Len(bs) + 1}
        /\ \A b \in DOMAIN bs : Append(bs, buf)[b] = bs[b]
        /\ Append(bs, buf)[Len(bs) + 1] = buf
    BY AppendElements
  <2>4. CutInto(Append(bs, buf), {}, left)
    BY <2>2, <2>3 DEF CutInto, Before
  <2> QED BY <2>1, <2>4
<1>2. CASE ~HasText(buf)
  <2>1. bs \o Body(buf) = bs
    <3>1. bs \o <<>> = bs
      OBVIOUS
    <3> QED BY <1>2, <3>1 DEF Body
  <2>2. \A i \in Counts : i \notin buf
    BY <1>2 DEF HasText, Counts
  <2>3. CutInto(bs, {}, left)
    BY <2>2 DEF CutInto, Before
  <2> QED BY <2>1, <2>3
<1> QED BY <1>1, <1>2

\* The next line of the section joins the buffer.
LEMMA TakeInv ==
  ASSUME NEW bs, NEW buf, NEW left \in SUBSET Position, NEW i \in left,
         \A j \in left : i <= j, CutInto(bs, buf, left)
  PROVE  CutInto(bs, buf \cup {i}, left \ {i})
<1>1. \A j \in left : j \in Int
  BY DEF Position
<1>2. \A j \in left \ {i} : i < j
  BY <1>1
<1>3. Before(buf \cup {i}, left \ {i})
  BY <1>2 DEF CutInto, Before
<1>4. \A b \in DOMAIN bs : Before(bs[b], buf \cup {i})
  BY DEF CutInto, Before
<1> QED BY <1>3, <1>4 DEF CutInto, Before

\* foldShortTrailing joins the last two bodies, and nothing else.
LEMMA FoldShortKeeps ==
  ASSUME NEW bs \in Seq(SUBSET Position), CutInto(bs, {}, {})
  PROVE  CutInto(FoldShortTrailing(bs), {}, {})
<1>1. CASE Len(bs) < 2
  BY <1>1 DEF FoldShortTrailing
<1>2. CASE ~(Len(bs) < 2)
  <2> DEFINE n      == Len(bs) - 1
             front  == SubSeq(bs, 1, Len(bs) - 2)
             joined == bs[n] \cup Last(bs)
  <2>1. /\ Len(bs) \in Nat /\ n \in DOMAIN bs /\ Len(bs) \in DOMAIN bs /\ n < Len(bs)
        /\ Len(bs) - 2 \in 0..Len(bs)
        /\ \A b \in DOMAIN bs : b \in 1..(Len(bs) - 2) \/ b = n \/ b = Len(bs)
        /\ \A b \in 1..(Len(bs) - 2) : b < n /\ b < Len(bs)
    BY <1>2
  <2>2. bs[n] \in SUBSET Position /\ Last(bs) \in SUBSET Position
    BY <2>1, ElementOf DEF Last
  <2>3. joined \in SUBSET Position
    <3> HIDE DEF n
    <3> QED BY <2>2
  <2>4. /\ front \in Seq(SUBSET Position) /\ Len(front) = Len(bs) - 2
        /\ DOMAIN front = 1..(Len(bs) - 2)
        /\ \A b \in DOMAIN front : b \in DOMAIN bs /\ front[b] = bs[b]
    <3> DEFINE m == Len(bs) - 2
    <3>1. m \in 0..Len(bs)
      BY <2>1
    <3> HIDE DEF m
    <3>2. /\ SubSeq(bs, 1, m) \in Seq(SUBSET Position) /\ Len(SubSeq(bs, 1, m)) = m
          /\ DOMAIN SubSeq(bs, 1, m) = 1..m
          /\ \A k \in DOMAIN SubSeq(bs, 1, m) :
                k \in DOMAIN bs /\ SubSeq(bs, 1, m)[k] = bs[k]
      BY <3>1, FrontElements
    <3> QED BY <3>2 DEF m
  <2>5. joined = bs[n] \cup bs[Len(bs)]
    BY DEF Last
  <2>6. SetsInOrder(front) /\ \A b \in DOMAIN front : Before(front[b], joined)
    <3> HIDE DEF front, joined, n
    <3> QED BY <2>1, <2>4, <2>5 DEF CutInto, SetsInOrder, Before
  <2>7. SetsInOrder(Append(front, joined))
    <3> HIDE DEF front, joined, n
    <3> QED BY <2>3, <2>4, <2>6, AppendSetsInOrder
  <2>8. /\ DOMAIN Append(front, joined) = DOMAIN front \cup {Len(front) + 1}
        /\ \A b \in DOMAIN front : Append(front, joined)[b] = front[b]
        /\ Append(front, joined)[Len(front) + 1] = joined
    <3> HIDE DEF front, joined, n
    <3> QED BY <2>3, <2>4, AppendElements
  <2>9. CutInto(Append(front, joined), {}, {})
    <3> HIDE DEF front, joined, n
    <3> QED BY <2>1, <2>4, <2>5, <2>7, <2>8 DEF CutInto, Before
  <2>10. FoldShortTrailing(bs) = bs \/ FoldShortTrailing(bs) = Append(front, joined)
    BY DEF FoldShortTrailing
  <2> HIDE DEF front, joined, n
  <2> QED BY <2>9, <2>10
<1> QED BY <1>1, <1>2

\* A step that leaves merged sections and chunks where they are.
LEMMA SameMerged ==
  ASSUME content' = content, merged' = merged, taken' = taken, chunks' = chunks
  PROVE  /\ Counts' = Counts /\ NextSection' = NextSection
         /\ SplittingInv => SplittingInv'
         /\ \A n : MergedInv(n) => MergedInv(n)'
<1>1. Counts' = Counts /\ NextSection' = NextSection
  BY SameCounts DEF NextSection
<1>2. \A n : MergedInv(n) => MergedInv(n)'
  BY DEF MergedInv, InOrder, From, Before
<1>3. SplittingInv => SplittingInv'
  BY <1>1, <1>2 DEF SplittingInv, From
<1> QED BY <1>1, <1>2, <1>3

\* splitOversizedSection: a section is left whole, or its cutting begins.
LEMMA BeginInv ==
  ASSUME TypeInv, DocumentInv, KeepWhole \/ BeginCut
  PROVE  DocumentInv'
<1> DEFINE S == NextSection.lines
<1>1. /\ ChunkTypeOK /\ SplittingInv /\ taken < Len(merged) /\ taken \in Nat /\ pushed = 0
      /\ content' = content /\ merged' = merged /\ taken' = taken /\ chunks' = chunks
      /\ pushed' = pushed
  <2>1. /\ stage = "splitting" /\ taken < Len(merged)
        /\ content' = content /\ merged' = merged /\ taken' = taken /\ chunks' = chunks
        /\ pushed' = pushed
    BY DEF KeepWhole, BeginCut, Splitting, mergeVars
  <2>2. ChunkTypeOK /\ SplittingInv
    BY <2>1 DEF TypeInv, TypeOK, DocumentInv
  <2>3. taken \in Nat /\ pushed = 0
    BY <2>1, <2>2 DEF ChunkTypeOK
  <2> QED BY <2>1, <2>2, <2>3
<1>2. Counts' = Counts /\ NextSection' = NextSection /\ SplittingInv'
  BY <1>1, SameMerged
<1>3. merged \in Seq(Sections)
  BY <1>1 DEF ChunkTypeOK
<1>4. /\ taken + 1 \in From(merged, taken + 1) /\ NextSection = merged[taken + 1]
      /\ \A k \in From(merged, taken + 1) : k = taken + 1 \/ k \in From(merged, taken + 2)
      /\ \A k \in From(merged, taken + 2) : k \in From(merged, taken + 1)
  BY <1>1, <1>3, FromNext DEF NextSection
<1>5. CASE KeepWhole
  <2>1. bodies' = <<S>> /\ stage' = "pushing" /\ pushed' = 0
    BY <1>1, <1>5 DEF KeepWhole
  <2>2. /\ DOMAIN bodies' = {1} /\ bodies'[1] = S /\ From(bodies', pushed' + 1) = {1}
    BY <2>1 DEF From
  <2>3. MergedInv(taken + 2)'
    <3>1. MergedInv(taken + 2)
      BY <1>1, <1>4 DEF SplittingInv, MergedInv
    <3> QED BY <1>1, <3>1 DEF MergedInv, InOrder, From, Before
  <2>4. \A c \in DOMAIN chunks : Before(chunks[c].lines, S)
    BY <1>1, <1>4 DEF SplittingInv, MergedInv
  <2>5. \A i \in Counts : \/ \E c \in DOMAIN chunks : i \in chunks[c].lines
                          \/ i \in S
                          \/ \E k \in From(merged, taken + 2) : i \in merged[k].lines
    BY <1>1, <1>4 DEF SplittingInv
  <2>6. From(merged, taken + 2)' = From(merged, taken + 2)
        /\ From(bodies, pushed + 1)' = {1}
    BY <1>1, <2>2 DEF From
  <2>7. SetsInOrder(bodies)'
    BY <2>2 DEF SetsInOrder
  <2> HIDE DEF S
  <2>8. PushingInv'
    BY <1>1, <1>2, <2>2, <2>3, <2>4, <2>5, <2>6, <2>7 DEF PushingInv, Before, S
  <2> QED BY <2>1, <2>8 DEF DocumentInv, EveryLineOnceInOrder
<1>6. CASE BeginCut
  <2>1. rest' = S /\ buffer' = {} /\ bodies' = <<>> /\ stage' = "cutting"
    BY <1>6 DEF BeginCut
  <2>2. CutInto(bodies', buffer', rest')
    BY <2>1 DEF CutInto, SetsInOrder, Before
  <2>3. CuttingInv'
    BY <1>2, <2>2 DEF CuttingInv, CutInto, SetsInOrder, Before
  <2> QED BY <2>1, <2>3 DEF DocumentInv, EveryLineOnceInOrder
<1> QED BY <1>5, <1>6

\* splitOversizedSection: a line is read.
LEMMA CutInv ==
  ASSUME Tokenizes, TypeInv, DocumentInv,
         NEW i \in rest, CutAtomicLine(i) \/ CutPlainLine(i)
  PROVE  DocumentInv'
<1>1. CutNext(i)
  BY DEF CutAtomicLine, CutPlainLine
<1>2. /\ ChunkTypeOK /\ SplittingInv /\ CutInto(bodies, buffer, rest)
      /\ content' = content /\ merged' = merged /\ taken' = taken /\ chunks' = chunks
      /\ rest' = rest \ {i} /\ \A j \in rest : i <= j /\ stage' = "cutting"
  BY <1>1 DEF CutNext, TypeInv, TypeOK, DocumentInv, CuttingInv, mergeVars
<1>3. Counts' = Counts /\ NextSection' = NextSection /\ SplittingInv'
  BY <1>2, SameMerged
<1>4. /\ bodies \in Seq(SUBSET Position) /\ buffer \in SUBSET Position
      /\ rest \in SUBSET Position /\ i \in Position
  BY <1>2 DEF ChunkTypeOK
<1>5. /\ BodiesAt(i) \in Seq(SUBSET Position) /\ BufferAt(i) \in SUBSET Position
      /\ CutInto(BodiesAt(i), BufferAt(i), rest)
  BY <1>2, <1>4, BodyInv, ConcatBody DEF BodiesAt, BufferAt
<1>6. CASE CutAtomicLine(i)
  <2>1. CutInto(BodiesAt(i), BufferAt(i) \cup {i}, rest \ {i})
    BY <1>2, <1>4, <1>5, TakeInv
  <2>2. CutInto(bodies', buffer', rest')
    BY <1>2, <1>6, <2>1 DEF CutAtomicLine
  <2> QED BY <1>2, <1>3, <2>2
      DEF DocumentInv, EveryLineOnceInOrder, CuttingInv, CutInto, SetsInOrder, Before
<1>7. CASE CutPlainLine(i)
  <2> DEFINE before == IF Overfull(i) THEN BodiesAt(i) \o Body(BufferAt(i)) ELSE BodiesAt(i)
             base   == IF Overfull(i) THEN {} ELSE BufferAt(i)
             full   == base \cup {i}
  <2>1. /\ before \in Seq(SUBSET Position) /\ base \in SUBSET Position
        /\ CutInto(before, base, rest)
    BY <1>2, <1>5, BodyInv, ConcatBody
  <2>2. full \in SUBSET Position
    BY <1>4, <2>1
  <2>3. CutInto(before, full, rest \ {i})
    <3> HIDE DEF before, base
    <3> QED BY <1>2, <1>4, <2>1, TakeInv
  <2>4. CutInto(before \o Body(full), {}, rest \ {i})
    <3> HIDE DEF before, full
    <3> QED BY <2>1, <2>2, <2>3, BodyInv
  <2>5. \/ bodies' = before \o Body(full) /\ buffer' = {}
        \/ bodies' = before /\ buffer' = full
    BY <1>7 DEF CutPlainLine
  <2>6. CutInto(bodies', buffer', rest')
    <3> HIDE DEF before, full
    <3> QED BY <1>2, <2>3, <2>4, <2>5
  <2> QED BY <1>2, <1>3, <2>6
      DEF DocumentInv, EveryLineOnceInOrder, CuttingInv, CutInto, SetsInOrder, Before
<1> QED BY <1>6, <1>7

\* splitOversizedSection returns.
LEMMA EndInv ==
  ASSUME Tokenizes, TypeInv, DocumentInv, EndCut
  PROVE  DocumentInv'
<1>1. /\ ChunkTypeOK /\ SplittingInv /\ CutInto(bodies, buffer, {})
      /\ taken < Len(merged) /\ taken \in Nat
      /\ content' = content /\ merged' = merged /\ taken' = taken /\ chunks' = chunks
      /\ pushed' = 0 /\ stage' = "pushing"
      /\ bodies' = FoldShortTrailing(bodies \o Body(buffer))
  BY DEF EndCut, TypeInv, TypeOK, DocumentInv, CuttingInv, ChunkTypeOK, mergeVars
<1>2. Counts' = Counts /\ NextSection' = NextSection
  BY <1>1, SameMerged
<1>3. merged \in Seq(Sections)
  BY <1>1 DEF ChunkTypeOK
<1>4. /\ taken + 1 \in From(merged, taken + 1) /\ NextSection = merged[taken + 1]
      /\ \A k \in From(merged, taken + 1) : k = taken + 1 \/ k \in From(merged, taken + 2)
      /\ \A k \in From(merged, taken + 2) : k \in From(merged, taken + 1)
  BY <1>1, <1>3, FromNext DEF NextSection
<1>5. bodies' \in Seq(SUBSET Position) /\ CutInto(bodies', {}, {})
  <2>1. bodies \in Seq(SUBSET Position) /\ buffer \in SUBSET Position
    BY <1>1 DEF ChunkTypeOK
  <2>2. bodies \o Body(buffer) \in Seq(SUBSET Position)
    BY <1>1, <2>1, ConcatBody
  <2>3. CutInto(bodies \o Body(buffer), {}, {})
    BY <1>1, <2>1, BodyInv
  <2> QED BY <1>1, <2>2, <2>3, FoldShortTyped, FoldShortKeeps
<1>6. From(merged, taken + 2)' = From(merged, taken + 2)
      /\ From(bodies, pushed + 1)' = DOMAIN bodies'
  <2>1. From(bodies', 0 + 1) = DOMAIN bodies'
    BY <1>5, FromFirst
  <2> QED BY <1>1, <2>1 DEF From
<1>7. MergedInv(taken + 2)'
  <2>1. MergedInv(taken + 2)
    BY <1>1, <1>4 DEF SplittingInv, MergedInv
  <2> QED BY <1>1, <2>1 DEF MergedInv, InOrder, From, Before
<1>8. \A c \in DOMAIN chunks : Before(chunks[c].lines, NextSection.lines)
  BY <1>1, <1>4 DEF SplittingInv, MergedInv
<1>9. \A i \in Counts : \/ \E c \in DOMAIN chunks : i \in chunks[c].lines
                        \/ i \in NextSection.lines
                        \/ \E k \in From(merged, taken + 2) : i \in merged[k].lines
  BY <1>1, <1>4 DEF SplittingInv
<1>10. PushingInv'
  BY <1>1, <1>2, <1>5, <1>6, <1>7, <1>8, <1>9 DEF PushingInv, CutInto, SetsInOrder, Before
<1> QED BY <1>1, <1>10 DEF DocumentInv, EveryLineOnceInOrder

\* A chunk takes what is left of a body when the blank lines around it are gone.
LEMMA PushInv ==
  ASSUME Tokenizes, TypeInv, DocumentInv, PushChunk
  PROVE  DocumentInv'
<1> DEFINE B == bodies[pushed + 1]
           trimmed == Trimmed(B)
           C == [lines : SUBSET Position, path : Seq(Position), tokens : Nat]
           chunk == [lines |-> trimmed, path |-> NextSection.path, tokens |-> Tokens(trimmed)]
<1>1. /\ stage = "pushing" /\ stage' = "pushing" /\ pushed < Len(bodies)
      /\ content' = content /\ merged' = merged /\ taken' = taken /\ bodies' = bodies
      /\ pushed' = pushed + 1
      /\ IF trimmed = {} THEN chunks' = chunks ELSE chunks' = Append(chunks, chunk)
  BY DEF PushChunk, mergeVars, cutVars
<1>2. /\ ChunkTypeOK /\ PushingInv /\ pushed \in Nat
      /\ taken \in Nat /\ taken < Len(merged)
      /\ merged \in Seq(Sections) /\ bodies \in Seq(SUBSET Position) /\ chunks \in Seq(C)
      /\ ChunkTypeOK' /\ Counts' = Counts /\ Position' = Position
  <2>1. ChunkTypeOK /\ PushingInv
    BY <1>1 DEF TypeInv, TypeOK, DocumentInv
  <2>2. ChunkTypeOK' /\ Counts' = Counts /\ Position' = Position
    BY <1>1, <2>1, PushTyped, SameCounts
  <2>3. pushed \in Nat /\ taken \in Nat /\ taken < Len(merged)
    BY <1>1, <2>1 DEF ChunkTypeOK
  <2>4. merged \in Seq(Sections) /\ bodies \in Seq(SUBSET Position) /\ chunks \in Seq(C)
    BY <2>1 DEF ChunkTypeOK
  <2> HIDE DEF C
  <2> QED BY <2>1, <2>2, <2>3, <2>4
<1>3. /\ pushed + 1 \in From(bodies, pushed + 1) /\ pushed + 1 \in DOMAIN bodies
      /\ \A b \in From(bodies, pushed + 1) : b = pushed + 1 \/ b \in From(bodies, pushed + 2)
      /\ \A b \in From(bodies, pushed + 2) :
            pushed + 1 < b /\ b \in DOMAIN bodies /\ b \in From(bodies, pushed + 1)
      /\ From(bodies, pushed + 1)' = From(bodies, pushed + 2)
  <2>1. pushed + 2 = (pushed + 1) + 1
    BY <1>2
  <2>2. From(bodies, pushed + 1)' = From(bodies, pushed + 2)
    BY <1>1, <2>1 DEF From
  <2> HIDE DEF C, B
  <2> QED BY <1>1, <1>2, <2>2, FromNext
<1>4. /\ taken + 1 \in DOMAIN merged /\ NextSection = merged[taken + 1]
      /\ \A k \in From(merged, taken + 2) : taken + 1 < k /\ k \in DOMAIN merged
      /\ From(merged, taken + 2)' = From(merged, taken + 2)
      /\ NextSection' = NextSection
  <2> HIDE DEF C, B
  <2>1. From(merged, taken + 2)' = From(merged, taken + 2) /\ NextSection' = NextSection
    BY <1>1 DEF From, NextSection
  <2> QED BY <1>1, <1>2, <2>1, FromNext DEF NextSection
<1>5. trimmed \subseteq B /\ \A i \in Counts \cap B : i \in trimmed
  <2>1. \A i \in Counts : i \in Int /\ i <= i
    BY DEF Counts, Position
  <2> HIDE DEF B
  <2> QED BY <2>1 DEF Trimmed, Counts
<1>6. /\ B \subseteq NextSection.lines
      /\ \A c \in DOMAIN chunks : Before(chunks[c].lines, B)
      /\ \A b \in From(bodies, pushed + 2) : Before(B, bodies[b])
      /\ \A k \in From(merged, taken + 2) : Before(B, merged[k].lines)
  <2>1. /\ B \subseteq NextSection.lines
        /\ \A c \in DOMAIN chunks : Before(chunks[c].lines, B)
        /\ \A b \in From(bodies, pushed + 2) : Before(B, bodies[b])
    BY <1>2, <1>3 DEF PushingInv, SetsInOrder
  <2>2. \A k \in From(merged, taken + 2) : Before(NextSection.lines, merged[k].lines)
    BY <1>2, <1>4 DEF PushingInv, MergedInv, InOrder
  <2> HIDE DEF B
  <2> QED BY <2>1, <2>2 DEF Before
<1>7. /\ InOrder(chunks')
      /\ \A c \in DOMAIN chunks' :
            \/ c \in DOMAIN chunks /\ chunks'[c] = chunks[c]
            \/ chunks'[c].lines = trimmed
      /\ \A c \in DOMAIN chunks : c \in DOMAIN chunks' /\ chunks'[c] = chunks[c]
      /\ trimmed # {} => \E c \in DOMAIN chunks' : chunks'[c].lines = trimmed
  <2>1. CASE trimmed = {}
    <3> HIDE DEF trimmed, chunk
    <3> QED BY <1>1, <1>2, <2>1 DEF PushingInv, MergedInv
  <2>2. CASE trimmed # {}
    <3>1. chunks' = Append(chunks, chunk) /\ chunk.lines = trimmed
      BY <1>1, <2>2
    <3>2. chunk \in C
      <4>1. chunks' \in Seq(C) /\ Len(chunks) + 1 \in DOMAIN chunks'
        <5> HIDE DEF chunk, C, B
        <5>1. chunks' \in Seq(C)
          BY <1>2 DEF ChunkTypeOK, C
        <5> QED BY <1>2, <3>1, <5>1
      <4>2. chunks'[Len(chunks) + 1] = chunk
        <5> HIDE DEF chunk, C, B
        <5> QED BY <1>2, <3>1
      <4> HIDE DEF chunk, C, B
      <4> QED BY <4>1, <4>2, ElementOf
    <3>3. \A c \in DOMAIN chunks : Before(chunks[c].lines, trimmed)
      <4> HIDE DEF B, trimmed
      <4> QED BY <1>5, <1>6 DEF Before
    <3> HIDE DEF trimmed, chunk, C
    <3>4. InOrder(chunks')
      BY <1>2, <3>1, <3>2, <3>3, AppendInOrder DEF PushingInv, MergedInv
    <3> QED BY <1>2, <3>1, <3>2, <3>4, AppendElements
  <2> QED BY <2>1, <2>2
<1> HIDE DEF B, trimmed, chunk, C
<1>8. MergedInv(taken + 2)'
  <2>1. \A c \in DOMAIN chunks', k \in From(merged, taken + 2) :
           Before(chunks'[c].lines, merged[k].lines)
    BY <1>2, <1>5, <1>6, <1>7 DEF PushingInv, MergedInv, Before
  <2>2. InOrder(merged)' /\ InOrder(chunks)'
    BY <1>1, <1>2, <1>7 DEF PushingInv, MergedInv, InOrder
  <2> QED BY <1>1, <1>4, <2>1, <2>2 DEF MergedInv, Before
<1>9. \A c \in DOMAIN chunks', b \in From(bodies, pushed + 2) :
         Before(chunks'[c].lines, bodies[b])
  BY <1>2, <1>3, <1>5, <1>6, <1>7 DEF PushingInv, Before
<1>10. \A i \in Counts :
          \/ \E c \in DOMAIN chunks' : i \in chunks'[c].lines
          \/ \E b \in From(bodies, pushed + 2) : i \in bodies[b]
          \/ \E k \in From(merged, taken + 2) : i \in merged[k].lines
  BY <1>2, <1>3, <1>5, <1>7 DEF PushingInv, B
<1>11. PushingInv'
  BY <1>1, <1>2, <1>3, <1>4, <1>8, <1>9, <1>10 DEF PushingInv, SetsInOrder, Before
<1> QED BY <1>1, <1>11 DEF DocumentInv, EveryLineOnceInOrder

\* The chunks of a section are all pushed.
LEMMA DoneInv ==
  ASSUME TypeInv, DocumentInv, SectionDone
  PROVE  DocumentInv'
<1>1. /\ stage = "pushing" /\ stage' = "splitting" /\ pushed = Len(bodies)
      /\ content' = content /\ merged' = merged /\ taken' = taken + 1 /\ chunks' = chunks
      /\ bodies' = <<>>
  BY DEF SectionDone
<1>2. /\ ChunkTypeOK /\ PushingInv /\ taken \in Nat
      /\ bodies \in Seq(SUBSET Position)
  BY <1>1 DEF TypeInv, TypeOK, DocumentInv, ChunkTypeOK
<1>3. From(bodies, pushed + 1) = {}
  <2>1. 0 \in Nat
    OBVIOUS
  <2> QED BY <1>1, <1>2, <2>1, FromNext
<1>4. Counts' = Counts /\ taken' + 1 = taken + 2
  BY <1>1, <1>2, SameCounts
<1>5. From(merged, taken + 1)' = From(merged, taken + 2)
  BY <1>1, <1>4 DEF From
<1>6. MergedInv(taken + 1)'
  BY <1>1, <1>2, <1>5 DEF PushingInv, MergedInv, InOrder, Before
<1>7. SplittingInv'
  BY <1>1, <1>2, <1>3, <1>4, <1>5, <1>6 DEF PushingInv, SplittingInv
<1> QED BY <1>1, <1>7 DEF DocumentInv, EveryLineOnceInOrder

\* chunkMarkdown returns.
LEMMA ReturnInv ==
  ASSUME TypeInv, DocumentInv, Return
  PROVE  DocumentInv'
<1>1. /\ stage = "splitting" /\ stage' = "done" /\ taken = Len(merged)
      /\ content' = content /\ chunks' = chunks
  BY DEF Return
<1>2. /\ SplittingInv /\ merged \in Seq(Sections) /\ DOMAIN content = Position
  BY <1>1 DEF TypeInv, TypeOK, DocumentInv, ChunkTypeOK, Position
<1>3. From(merged, taken + 1) = {}
  <2>1. 0 \in Nat
    OBVIOUS
  <2> QED BY <1>1, <1>2, <2>1, FromNext
<1>4. \A i \in Counts : \E c \in DOMAIN chunks : i \in chunks[c].lines
  BY <1>2, <1>3 DEF SplittingInv
<1>5. EveryLineOnceInOrder'
  BY <1>1, <1>2, <1>4 DEF EveryLineOnceInOrder, Counts, SplittingInv, MergedInv, InOrder, Before
<1> QED BY <1>1, <1>5 DEF DocumentInv

\* The invariant of the stages holds at first,
LEMMA DocumentInvInit ==
  ASSUME Init
  PROVE  DocumentInv
BY DEF Init, ChunkInit, DocumentInv, EveryLineOnceInOrder

\* and every step keeps it.
LEMMA DocumentInvStep ==
  ASSUME Tokenizes, TypeInv, DocumentInv, [Next]_vars
  PROVE  DocumentInv'
<1>1. CASE Clean
  <2>1. stage' = "waiting"
    BY <1>1 DEF Clean, chunkVars, TypeInv, TypeOK, CleanNext, ReadFence, SkipLine, ReadTable,
                ReadFilename, ReadSwitch, ReadText, PastTables, PastSkipping, Reading, EndOfRaw
  <2> QED BY <2>1 DEF DocumentInv, EveryLineOnceInOrder
<1>2. CASE StartChunking
  <2>1. ChunkInit
    BY <1>2 DEF StartChunking, ChunkMarkdown, TypeInv
  <2>2. /\ line' = 0 /\ sections' = <<>> /\ current' = Section(<<>>, {})
        /\ pending' = NoGroup /\ groups' = <<>> /\ merged' = <<>>
        /\ bodies' = <<>> /\ chunks' = <<>> /\ stage' = "sections"
    BY <1>2, <2>1 DEF StartChunking, ChunkMarkdown, ChunkInit, splitVars, mergeVars, cutVars
  <2>3. SectionsInv'
    BY <2>2 DEF SectionsInv, InOrder, Section
  <2> QED BY <2>2, <2>3 DEF DocumentInv, EveryLineOnceInOrder
<1>3. CASE Chunk
  <2>1. CASE ReadPage \/ ReadSection \/ ReadBody \/ EndOfContent
    BY <2>1, SplitInv
  <2>2. CASE GroupSection
    BY <2>2, GroupInv
  <2>3. CASE FinishGroups
    BY <2>3, FinishInv
  <2>4. CASE KeepWhole \/ BeginCut
    BY <2>4, BeginInv
  <2>5. ASSUME NEW i \in rest, CutAtomicLine(i) \/ CutPlainLine(i)
        PROVE  DocumentInv'
    BY <2>5, CutInv
  <2>6. CASE EndCut
    BY <2>6, EndInv
  <2>7. CASE PushChunk
    BY <2>7, PushInv
  <2>8. CASE SectionDone
    BY <2>8, DoneInv
  <2>9. CASE Return
    BY <2>9, ReturnInv
  <2> QED BY <1>3, <2>1, <2>2, <2>3, <2>4, <2>5, <2>6, <2>7, <2>8, <2>9 DEF Chunk, ChunkNext
<1>4. CASE ParseFails
  <2>1. stage' = "skipped"
    BY <1>4 DEF ParseFails
  <2> QED BY <2>1 DEF DocumentInv, EveryLineOnceInOrder
<1>5. CASE UNCHANGED vars
  BY <1>5 DEF vars, chunkVars, splitVars, mergeVars, cutVars, DocumentInv,
              EveryLineOnceInOrder, SectionsInv, MergingInv, SplittingInv, CuttingInv, PushingInv,
              MergedInv, CutInto, InOrder, SetsInOrder, Before, From, Counts, Position,
              NextSection
<1> QED BY <1>1, <1>2, <1>3, <1>4, <1>5 DEF Next

\* With a tokenizer that counts, every line of the cleaned document that is neither blank
\* nor a heading is in a chunk, and the chunks follow the order of the document, so that
\* no line is in two: whatever the pages, and whatever the target, the maximum, the
\* minimum and the table bound.
THEOREM NothingLost == Tokenizes => (Spec => []EveryLineOnceInOrder)
<1> SUFFICES ASSUME Tokenizes
             PROVE  Spec => []EveryLineOnceInOrder
  OBVIOUS
<1> DEFINE IInv == TypeInv /\ DocumentInv
<1>1. Init => IInv
  BY TypeInit, DocumentInvInit
<1>2. IInv /\ [Next]_vars => IInv'
  BY TypeStep, DocumentInvStep
<1>3. IInv => EveryLineOnceInOrder
  BY DEF DocumentInv
<1> HIDE DEF IInv
<1> QED BY <1>1, <1>2, <1>3, PTL DEF Spec

-------------------------------------------------------------------------------
(***************************************************************************)
(* Headings: MergersInv is inductive, stage by stage.                      *)
(***************************************************************************)

\* A tokenizer for which more lines are not fewer tokens.
Weighs ==
  /\ Tokenizes
  /\ \A document \in Seq(Line) : \A T \in SUBSET (1..Len(document)) : \A S \in SUBSET T :
        CountTokens(document, S) <= CountTokens(document, T)

LEMMA TokensGrow ==
  ASSUME Weighs, ChunkTypeOK, NEW T \in SUBSET Position, NEW S \in SUBSET T
  PROVE  /\ Tokens(S) \in Nat /\ Tokens(T) \in Nat
         /\ Tokens(S) <= Tokens(T)
<1>1. content \in Seq(Line) /\ T \in SUBSET (1..Len(content)) /\ S \in SUBSET (1..Len(content))
  BY DEF ChunkTypeOK, Position
<1> QED BY <1>1 DEF Weighs, Tokenizes, Tokens

\* What a step that leaves content and sections alone leaves alone.
LEMMA SameSections ==
  ASSUME content' = content, sections' = sections
  PROVE  /\ \A S : HasText(S)' = HasText(S) /\ Tokens(S)' = Tokens(S)
         /\ \A lines, parts : MadeOf(lines, parts)' = MadeOf(lines, parts)
         /\ \A lines, path : FittingPath(lines, path)' = FittingPath(lines, path)
BY DEF HasText, Tokens, MadeOf, FittingPath, Contribution

\* Lines that come one after another are in one section only.
LEMMA Disjoint ==
  ASSUME NEW T, NEW s \in Seq(T), InOrder(s), NEW j \in DOMAIN s, NEW k \in DOMAIN s,
         NEW i \in Int, i \in s[j].lines, i \in s[k].lines
  PROVE  j = k
<1>1. j \in Int /\ k \in Int
  OBVIOUS
<1>2. ~(i < i)
  OBVIOUS
<1>3. CASE j < k
  BY <1>2, <1>3 DEF InOrder, Before
<1>4. CASE k < j
  BY <1>2, <1>4 DEF InOrder, Before
<1> QED BY <1>1, <1>3, <1>4

\* groupByMinimum: a section joins the group that is being built.
LEMMA GrownMadeOf ==
  ASSUME ChunkTypeOK, InOrder(sections), NEW k \in DOMAIN sections,
         MadeOf(pending.lines, pending.parts)
  PROVE  MadeOf(Grown(sections[k]).lines, Grown(sections[k]).parts)
<1> DEFINE s     == sections[k]
           lines == pending.lines \cup s.lines
           P     == [path : Seq(Position), tokens : Nat]
           part  == Contribution(k)
           parts == Append(pending.parts, part)
<1>1. Grown(s).lines = lines /\ Grown(s).parts = parts
  BY DEF Grown, Contribution
<1>2. pending.parts \in Seq(P) /\ sections \in Seq(Sections)
  BY DEF ChunkTypeOK, Groups
<1>3. /\ DOMAIN parts = DOMAIN pending.parts \cup {Len(pending.parts) + 1}
      /\ \A p \in DOMAIN pending.parts : parts[p] = pending.parts[p]
      /\ parts[Len(pending.parts) + 1] = part
  <2> HIDE DEF part, P
  <2> QED BY <1>2
<1>4. ASSUME NEW p \in DOMAIN parts
      PROVE  \E j \in DOMAIN sections : sections[j].lines \subseteq lines /\ parts[p] = Contribution(j)
  <2> HIDE DEF parts
  <2>1. CASE p \in DOMAIN pending.parts
    BY <1>3, <2>1 DEF MadeOf
  <2>2. CASE p = Len(pending.parts) + 1
    BY <1>3, <2>2
  <2> QED BY <1>3, <1>4, <2>1, <2>2
<1>5. ASSUME NEW j \in DOMAIN sections, sections[j].lines \cap lines # {}
      PROVE  \E p \in DOMAIN parts : parts[p] = Contribution(j)
  <2>1. CASE sections[j].lines \cap pending.lines # {}
    <3> HIDE DEF parts
    <3> QED BY <1>3, <2>1 DEF MadeOf
  <2>2. CASE sections[j].lines \cap s.lines # {}
    <3>1. PICK i : i \in sections[j].lines /\ i \in s.lines
      BY <2>2
    <3>2. s \in Sections
      BY <1>2, ElementOf
    <3>3. i \in Int
      <4>1. s.lines \subseteq Position
        <5> HIDE DEF s
        <5> QED BY <3>2 DEF Sections
      <4> QED BY <3>1, <4>1 DEF Position
    <3>4. j = k
      BY <1>2, <3>1, <3>3, Disjoint
    <3> HIDE DEF parts
    <3> QED BY <1>3, <3>4
  <2> QED BY <1>5, <2>1, <2>2
<1> HIDE DEF lines, parts, s, part
<1>6. MadeOf(lines, parts)
  BY <1>4, <1>5 DEF MadeOf
<1> QED BY <1>1, <1>6 DEF s

\* Two groups joined.
LEMMA JoinedMadeOf ==
  ASSUME NEW P, NEW l1, NEW p1 \in Seq(P), MadeOf(l1, p1),
         NEW l2, NEW p2 \in Seq(P), MadeOf(l2, p2)
  PROVE  MadeOf(l1 \cup l2, p1 \o p2)
<1> DEFINE p == p1 \o p2
<1>1. /\ \A n \in DOMAIN p : \/ n \in DOMAIN p1 /\ p[n] = p1[n]
                             \/ n - Len(p1) \in DOMAIN p2 /\ p[n] = p2[n - Len(p1)]
      /\ \A n \in DOMAIN p1 : n \in DOMAIN p /\ p[n] = p1[n]
      /\ \A n \in DOMAIN p2 : n + Len(p1) \in DOMAIN p /\ p[n + Len(p1)] = p2[n]
  OBVIOUS
<1> HIDE DEF p
<1>2. ASSUME NEW n \in DOMAIN p
      PROVE  \E k \in DOMAIN sections :
                sections[k].lines \subseteq l1 \cup l2 /\ p[n] = Contribution(k)
  <2>1. CASE n \in DOMAIN p1 /\ p[n] = p1[n]
    BY <2>1 DEF MadeOf
  <2>2. CASE n - Len(p1) \in DOMAIN p2 /\ p[n] = p2[n - Len(p1)]
    BY <2>2 DEF MadeOf
  <2> QED BY <1>1, <2>1, <2>2
<1>3. ASSUME NEW k \in DOMAIN sections, sections[k].lines \cap (l1 \cup l2) # {}
      PROVE  \E n \in DOMAIN p : p[n] = Contribution(k)
  <2>1. CASE sections[k].lines \cap l1 # {}
    BY <1>1, <2>1 DEF MadeOf
  <2>2. CASE sections[k].lines \cap l2 # {}
    BY <1>1, <2>2 DEF MadeOf
  <2> QED BY <1>3, <2>1, <2>2
<1>4. MadeOf(l1 \cup l2, p)
  BY <1>2, <1>3 DEF MadeOf
<1> QED BY <1>4 DEF p

\* dominantHeadingPath.
LEMMA DominantPathFits ==
  ASSUME NEW T, NEW parts \in Seq([path : T, tokens : Nat]), parts # <<>>,
         NEW lines, MadeOf(lines, parts)
  PROVE  FittingPath(lines, DominantPath(parts))
<1>1. PICK p \in DOMAIN parts :
         /\ DominantPath(parts) = parts[p].path
         /\ \A j \in DOMAIN parts : parts[j].tokens <= parts[p].tokens
  BY DominantPathChosen
<1>2. PICK k \in DOMAIN sections :
         sections[k].lines \subseteq lines /\ parts[p] = Contribution(k)
  BY DEF MadeOf
<1>3. parts[p].path = sections[k].path /\ parts[p].tokens = Tokens(sections[k].lines)
  BY <1>2 DEF Contribution
<1>4. ASSUME NEW j \in DOMAIN sections, sections[j].lines \cap lines # {}
      PROVE  Tokens(sections[j].lines) <= Tokens(sections[k].lines)
  <2>1. PICK n \in DOMAIN parts : parts[n] = Contribution(j)
    BY <1>4 DEF MadeOf
  <2>2. parts[n].tokens = Tokens(sections[j].lines)
    BY <2>1 DEF Contribution
  <2> QED BY <1>1, <1>3, <2>1, <2>2
<1> QED BY <1>1, <1>2, <1>3, <1>4 DEF FittingPath

\* foldTrailingShortfallBackward: its groups are made of the same sections, and if they
\* are two or more, none is below the minimum.
LEMMA FoldTrailingFits ==
  ASSUME Weighs, ChunkTypeOK, NEW gs \in Seq(Groups),
         \A g \in DOMAIN gs : MadeOf(gs[g].lines, gs[g].parts),
         \A g \in DOMAIN gs : g < Len(gs) => Tokens(gs[g].lines) >= MinTokens
  PROVE  LET folded == FoldTrailing(gs)
         IN  /\ \A g \in DOMAIN folded : MadeOf(folded[g].lines, folded[g].parts)
             /\ \/ Len(folded) <= 1
                \/ \A g \in DOMAIN folded : Tokens(folded[g].lines) >= MinTokens
<1>1. CASE Len(gs) < 2
  BY <1>1 DEF FoldTrailing
<1>2. CASE ~(Len(gs) < 2) /\ Tokens(Last(gs).lines) >= MinTokens
  <2>1. Len(gs) \in Nat /\ \A g \in DOMAIN gs : g < Len(gs) \/ g = Len(gs)
    OBVIOUS
  <2>2. FoldTrailing(gs) = gs /\ Last(gs) = gs[Len(gs)]
    BY <1>2 DEF FoldTrailing, Last
  <2>3. \A g \in DOMAIN gs : Tokens(gs[g].lines) >= MinTokens
    BY <1>2, <2>1, <2>2
  <2> QED BY <2>2, <2>3
<1>3. CASE ~(Len(gs) < 2) /\ ~(Tokens(Last(gs).lines) >= MinTokens)
  <2> DEFINE n      == Len(gs) - 1
             front  == SubSeq(gs, 1, Len(gs) - 2)
             joined == [lines |-> gs[n].lines \cup Last(gs).lines,
                        parts |-> gs[n].parts \o Last(gs).parts]
             folded == Append(front, joined)
  <2>1. /\ Len(gs) \in Nat /\ n \in DOMAIN gs /\ Len(gs) \in DOMAIN gs /\ n < Len(gs)
        /\ \A g \in 1..(Len(gs) - 2) : g < Len(gs)
    BY <1>3
  <2>2. gs[n] \in Groups /\ Last(gs) \in Groups /\ Last(gs) = gs[Len(gs)]
    BY <2>1, ElementOf DEF Last
  <2>3. joined \in Groups
    <3> HIDE DEF n
    <3> QED BY <2>2 DEF Groups
  <2>4. /\ front \in Seq(Groups)
        /\ \A g \in DOMAIN front : g \in 1..(Len(gs) - 2) /\ g \in DOMAIN gs /\ front[g] = gs[g]
    <3> DEFINE m == Len(gs) - 2
    <3>1. m \in 0..Len(gs)
      BY <1>3, <2>1
    <3> HIDE DEF m
    <3>2. /\ SubSeq(gs, 1, m) \in Seq(Groups)
          /\ \A k \in DOMAIN SubSeq(gs, 1, m) :
                k \in 1..m /\ k \in DOMAIN gs /\ SubSeq(gs, 1, m)[k] = gs[k]
      BY <3>1, FrontElements
    <3> QED BY <3>2 DEF m
  <2>5. MadeOf(joined.lines, joined.parts)
    <3> DEFINE P == [path : Seq(Position), tokens : Nat]
    <3>1. gs[n].parts \in Seq(P) /\ Last(gs).parts \in Seq(P)
      <4> HIDE DEF n
      <4> QED BY <2>2 DEF Groups
    <3>2. MadeOf(gs[n].lines, gs[n].parts) /\ MadeOf(Last(gs).lines, Last(gs).parts)
      <4> HIDE DEF n
      <4> QED BY <2>1, <2>2
    <3>3. MadeOf(gs[n].lines \cup Last(gs).lines, gs[n].parts \o Last(gs).parts)
      <4> HIDE DEF n, joined, P
      <4> QED BY <3>1, <3>2, JoinedMadeOf
    <3>4. /\ joined.lines = gs[n].lines \cup Last(gs).lines
          /\ joined.parts = gs[n].parts \o Last(gs).parts
      OBVIOUS
    <3> HIDE DEF n, joined
    <3> QED BY <3>3, <3>4
  <2>6. Tokens(joined.lines) >= MinTokens
    <3>1. joined.lines \in SUBSET Position /\ gs[n].lines \in SUBSET joined.lines
      <4>1. joined.lines = gs[n].lines \cup Last(gs).lines
        OBVIOUS
      <4> HIDE DEF n, joined
      <4> QED BY <2>3, <4>1 DEF Groups
    <3>2. Tokens(gs[n].lines) >= MinTokens
      <4> HIDE DEF n
      <4> QED BY <2>1
    <3>3. Tokens(gs[n].lines) \in Nat /\ Tokens(joined.lines) \in Nat
          /\ Tokens(gs[n].lines) <= Tokens(joined.lines)
      <4> HIDE DEF n, joined
      <4> QED BY <3>1, TokensGrow
    <3> HIDE DEF n, joined
    <3> QED BY <3>2, <3>3, ChunkerAssumption
  <2>7. FoldTrailing(gs) = folded
    BY <1>3 DEF FoldTrailing
  <2>8. /\ DOMAIN folded = DOMAIN front \cup {Len(front) + 1}
        /\ \A g \in DOMAIN front : folded[g] = front[g]
        /\ folded[Len(front) + 1] = joined
    <3> HIDE DEF front, joined
    <3> QED BY <2>3, <2>4, AppendElements
  <2>9. /\ \A g \in DOMAIN folded : MadeOf(folded[g].lines, folded[g].parts)
        /\ \A g \in DOMAIN folded : Tokens(folded[g].lines) >= MinTokens
    <3> HIDE DEF front, joined, folded, n
    <3> QED BY <2>1, <2>4, <2>5, <2>6, <2>8
  <2> HIDE DEF folded
  <2> QED BY <2>7, <2>9
<1> QED BY <1>1, <1>2, <1>3

\* A step after the merging that leaves what it made alone.
LEMMA MergersKept ==
  ASSUME MergersInv, stage \in {"splitting", "cutting", "pushing"},
         stage' \in {"splitting", "cutting", "pushing", "done"},
         content' = content, sections' = sections, merged' = merged, chunks' = chunks
  PROVE  MergersInv'
<1>1. \A k \in DOMAIN sections' : HasText(sections[k].lines)'
  BY SameSections DEF MergersInv
<1>2. MergedFit'
  BY SameSections DEF MergersInv, MergedFit, InOrder, Before
<1>3. ChunksFit'
  BY SameSections DEF MergersInv, ChunksFit
<1> QED BY <1>1, <1>2, <1>3 DEF MergersInv

\* flush() of splitIntoSections.
LEMMA FlushedHasText ==
  ASSUME ChunkTypeOK, MergersInv
  PROVE  \A k \in DOMAIN Flushed : HasText(Flushed[k].lines)
<1>1. sections \in Seq(Sections) /\ current \in Sections
  BY DEF ChunkTypeOK
<1>2. CASE HasText(current.lines)
  BY <1>1, <1>2, AppendElements DEF Flushed, MergersInv
<1>3. CASE ~HasText(current.lines)
  BY <1>3 DEF Flushed, MergersInv
<1> QED BY <1>2, <1>3

\* splitIntoSections: with a minimum of 0 or less every section is as it was read.
LEMMA SplitMergers ==
  ASSUME Tokenizes, TypeInv, DocumentInv, MergersInv,
         ReadPage \/ ReadSection \/ ReadBody \/ EndOfContent
  PROVE  MergersInv'
<1>1. /\ ChunkTypeOK /\ SectionsInv /\ stage = "sections"
      /\ pending = NoGroup /\ groups = <<>> /\ chunks = <<>>
      /\ content' = content /\ pending' = pending /\ groups' = groups /\ chunks' = chunks
  BY DEF ReadPage, ReadSection, ReadBody, ReadNext, EndOfContent, TypeInv, TypeOK,
         DocumentInv, mergeVars
<1>2. (\A k \in DOMAIN sections : HasText(sections[k].lines))'
  <2>1. sections' = sections \/ sections' = Flushed
    BY DEF ReadPage, ReadSection, ReadBody, EndOfContent
  <2>2. \A S : HasText(S)' = HasText(S)
    BY <1>1 DEF HasText
  <2>3. \A k \in DOMAIN sections' : HasText(sections'[k].lines)
    BY <1>1, <2>1, FlushedHasText DEF MergersInv
  <2> QED BY <2>2, <2>3
<1>3. CASE ReadPage \/ ReadSection \/ ReadBody
  <2>1. stage' = "sections"
    BY <1>1, <1>3 DEF ReadPage, ReadSection, ReadBody, ReadNext
  <2> QED BY <1>2, <2>1 DEF MergersInv
<1>4. CASE EndOfContent
  <2>1. sections' = Flushed
    BY <1>4 DEF EndOfContent
  <2>2. CASE stage' = "merging"
    <3>1. MadeOf(pending.lines, pending.parts)'
      BY <1>1 DEF MadeOf, NoGroup
    <3> QED BY <1>1, <1>2, <2>2, <3>1 DEF MergersInv
  <2>3. CASE MinTokens <= 0 /\ stage' = "splitting" /\ merged' = Flushed
    <3>1. Flushed \in Seq(Sections) /\ InOrder(Flushed)
      BY <1>1, FlushedInv
    <3>2. ASSUME NEW m \in DOMAIN Flushed
          PROVE  /\ Flushed[m].lines \in SUBSET Position
                 /\ Tokens(Flushed[m].lines) \in Nat /\ Tokens(Flushed[m].lines) >= MinTokens
      <4>1. Flushed[m] \in Sections
        BY <3>1, ElementOf
      <4>2. Flushed[m].lines \in SUBSET Position
        BY <4>1 DEF Sections
      <4>3. Tokens(Flushed[m].lines) \in Nat
        BY <1>1, <4>2, TokensTyped
      <4> QED BY <2>3, <4>2, <4>3, ChunkerAssumption
    <3>3. ASSUME NEW m \in DOMAIN merged'
          PROVE  FittingPath(merged[m].lines, merged[m].path)'
      <4>1. ASSUME NEW j \in DOMAIN Flushed, Flushed[j].lines \cap Flushed[m].lines # {}
            PROVE  j = m
        <5>1. PICK i : i \in Flushed[j].lines /\ i \in Flushed[m].lines
          BY <4>1
        <5>2. i \in Int
          BY <2>3, <3>2, <5>1 DEF Position
        <5> QED BY <2>3, <3>1, <4>1, <5>1, <5>2, Disjoint
      <4>2. \A j \in DOMAIN Flushed : Flushed[j].lines \cap Flushed[m].lines # {} =>
               Tokens(Flushed[j].lines) <= Tokens(Flushed[m].lines)
        BY <2>3, <3>2, <4>1
      <4> QED BY <1>1, <2>1, <2>3, <4>2 DEF FittingPath, Tokens
    <3>4. \A m \in DOMAIN merged' : Tokens(merged[m].lines)' >= MinTokens
      BY <1>1, <2>3, <3>2 DEF Tokens
    <3>5. InOrder(merged)'
      BY <2>3, <3>1 DEF InOrder, Before
    <3>6. MergedFit' /\ ChunksFit'
      BY <1>1, <3>3, <3>4, <3>5 DEF MergedFit, ChunksFit
    <3> QED BY <1>2, <2>3, <3>6 DEF MergersInv
  <2> QED BY <1>4, <2>2, <2>3 DEF EndOfContent
<1> QED BY <1>3, <1>4

\* groupByMinimum.
LEMMA GroupMergers ==
  ASSUME Tokenizes, TypeInv, DocumentInv, MergersInv, GroupSection
  PROVE  MergersInv'
<1> DEFINE grown == Grown(sections[taken + 1])
<1>1. /\ ChunkTypeOK /\ MergingInv /\ stage = "merging" /\ stage' = "merging"
      /\ content' = content /\ sections' = sections
      /\ groups \in Seq(Groups) /\ groups' \in Seq(Groups) /\ taken + 1 \in DOMAIN sections
  <2>1. ChunkTypeOK /\ ChunkTypeOK' /\ MergingInv
    BY MergeTyped DEF GroupSection, TypeInv, TypeOK, DocumentInv
  <2>2. content' = content /\ sections' = sections /\ taken + 1 \in DOMAIN sections
        /\ stage = "merging" /\ stage' = "merging"
    BY <2>1 DEF GroupSection, ChunkTypeOK, splitVars
  <2>3. groups' \in Seq(Groups')
    BY <2>1 DEF ChunkTypeOK
  <2> QED BY <2>1, <2>2, <2>3, SameContent DEF ChunkTypeOK
<1>2. MadeOf(grown.lines, grown.parts)
  BY <1>1, GrownMadeOf DEF MergingInv, MergersInv
<1>3. MadeOf({}, <<>>)
  BY DEF MadeOf
<1>4. \/ groups' = Append(groups, grown) /\ pending' = NoGroup
         /\ Tokens(grown.lines) >= MinTokens
      \/ groups' = groups /\ pending' = grown
  BY DEF GroupSection
<1> HIDE DEF grown
<1>5. /\ MadeOf(pending'.lines, pending'.parts)
      /\ \A g \in DOMAIN groups' : /\ MadeOf(groups'[g].lines, groups'[g].parts)
                                   /\ Tokens(groups'[g].lines) >= MinTokens
  <2>1. CASE groups' = Append(groups, grown) /\ pending' = NoGroup
             /\ Tokens(grown.lines) >= MinTokens
    <3>1. /\ DOMAIN groups' = DOMAIN groups \cup {Len(groups) + 1}
          /\ \A k \in DOMAIN groups : groups'[k] = groups[k]
          /\ groups'[Len(groups) + 1] = grown
      BY <1>1, <2>1
    <3> QED BY <1>1, <1>2, <1>3, <2>1, <3>1 DEF MergersInv, NoGroup
  <2>2. CASE groups' = groups /\ pending' = grown
    BY <1>1, <1>2, <2>2 DEF MergersInv
  <2> QED BY <1>4, <2>1, <2>2
<1>6. /\ MadeOf(pending.lines, pending.parts)'
      /\ \A g \in DOMAIN groups' : /\ MadeOf(groups[g].lines, groups[g].parts)'
                                   /\ Tokens(groups[g].lines)' >= MinTokens
  BY <1>1, <1>5, SameSections
<1>7. \A k \in DOMAIN sections' : HasText(sections[k].lines)'
  BY <1>1, SameSections DEF MergersInv
<1> QED BY <1>1, <1>6, <1>7 DEF MergersInv

\* mergeUndersizedSections returns.
LEMMA FinishMergers ==
  ASSUME Weighs, TypeInv, DocumentInv, MergersInv, FinishGroups
  PROVE  MergersInv'
<1> DEFINE folded == FoldTrailing(Grouped)
           P == [path : Seq(Position), tokens : Nat]
<1>1. /\ ChunkTypeOK /\ MergingInv /\ chunks = <<>> /\ stage = "merging"
      /\ stage' = "splitting" /\ content' = content /\ sections' = sections
      /\ chunks' = chunks
      /\ merged' = [k \in DOMAIN folded |->
                       Section(DominantPath(folded[k].parts), folded[k].lines)]
  BY DEF FinishGroups, TypeInv, TypeOK, DocumentInv, splitVars
<1>2. groups \in Seq(Groups) /\ pending \in Groups
  BY <1>1 DEF ChunkTypeOK
<1>3. /\ Grouped \in Seq(Groups) /\ InOrder(Grouped)
      /\ \A g \in DOMAIN Grouped : /\ MadeOf(Grouped[g].lines, Grouped[g].parts)
                                   /\ Grouped[g].parts # <<>>
                                   /\ g < Len(Grouped) => Tokens(Grouped[g].lines) >= MinTokens
  <2>1. CASE pending.parts = <<>>
    BY <1>1, <1>2, <2>1 DEF Grouped, MergingInv, MergersInv, TypeInv
  <2>2. CASE pending.parts # <<>>
    <3>1. Grouped = Append(groups, pending)
      BY <2>2 DEF Grouped
    <3>2. InOrder(Grouped)
      BY <1>1, <1>2, <3>1, AppendInOrder DEF MergingInv
    <3>3. Len(Grouped) = Len(groups) + 1
      BY <1>2, <3>1
    <3> QED BY <1>1, <1>2, <2>2, <3>1, <3>2, <3>3, AppendElements DEF MergersInv, TypeInv
  <2> QED BY <2>1, <2>2
<1>4. /\ folded \in Seq(Groups) /\ \A k \in DOMAIN folded : folded[k].parts # <<>>
      /\ InOrder(folded)
      /\ \A g \in DOMAIN folded : MadeOf(folded[g].lines, folded[g].parts)
      /\ \/ Len(folded) <= 1
         \/ \A g \in DOMAIN folded : Tokens(folded[g].lines) >= MinTokens
  BY <1>1, <1>3, FoldTrailingTyped, FoldTrailingKeeps, FoldTrailingFits
<1> HIDE DEF folded
<1>5. DOMAIN merged' = DOMAIN folded /\ Len(merged') = Len(folded)
  BY <1>1, <1>4
<1>6. ASSUME NEW m \in DOMAIN folded
      PROVE  /\ merged'[m].lines = folded[m].lines
             /\ merged'[m].path = DominantPath(folded[m].parts)
             /\ FittingPath(folded[m].lines, DominantPath(folded[m].parts))
  <2>1. folded[m] \in Groups
    BY <1>4, ElementOf
  <2>2. folded[m].parts \in Seq(P) /\ folded[m].parts # <<>>
    BY <1>4, <2>1 DEF Groups
  <2>3. FittingPath(folded[m].lines, DominantPath(folded[m].parts))
    BY <1>4, <2>2, DominantPathFits
  <2> QED BY <1>1, <2>3 DEF Section
<1>7. MergedFit'
  <2>1. InOrder(merged)'
    BY <1>4, <1>5, <1>6 DEF InOrder, Before
  <2>2. \A m \in DOMAIN merged' : FittingPath(merged'[m].lines, merged'[m].path)
    BY <1>5, <1>6
  <2>3. \A m \in DOMAIN merged' : FittingPath(merged[m].lines, merged[m].path)'
    BY <1>1, <2>2, SameSections
  <2>4. Len(merged') <= 1 \/ \A m \in DOMAIN merged' : Tokens(merged[m].lines)' >= MinTokens
    BY <1>1, <1>4, <1>5, <1>6, SameSections
  <2> QED BY <2>1, <2>3, <2>4 DEF MergedFit
<1>8. ChunksFit'
  BY <1>1 DEF ChunksFit
<1>9. (\A k \in DOMAIN sections : HasText(sections[k].lines))'
  BY <1>1, SameSections DEF MergersInv
<1> QED BY <1>1, <1>7, <1>8, <1>9 DEF MergersInv

\* A chunk has the lines and the heading of its merged section.
LEMMA PushMergers ==
  ASSUME Tokenizes, TypeInv, DocumentInv, MergersInv, PushChunk
  PROVE  MergersInv'
<1> DEFINE B == bodies[pushed + 1]
           trimmed == Trimmed(B)
           C == [lines : SUBSET Position, path : Seq(Position), tokens : Nat]
           chunk == [lines |-> trimmed, path |-> NextSection.path, tokens |-> Tokens(trimmed)]
<1>1. /\ stage = "pushing" /\ stage' = "pushing" /\ pushed < Len(bodies)
      /\ content' = content /\ sections' = sections /\ merged' = merged
      /\ IF trimmed = {} THEN chunks' = chunks ELSE chunks' = Append(chunks, chunk)
  BY DEF PushChunk, mergeVars, splitVars
<1>2. /\ ChunkTypeOK /\ PushingInv /\ pushed \in Nat /\ taken + 1 \in DOMAIN merged
      /\ bodies \in Seq(SUBSET Position) /\ pushed + 1 \in DOMAIN bodies
      /\ chunks \in Seq(C) /\ ChunkTypeOK' /\ Position' = Position
  <2>1. ChunkTypeOK /\ PushingInv
    BY <1>1 DEF TypeInv, TypeOK, DocumentInv
  <2>2. ChunkTypeOK' /\ Position' = Position
    BY <1>1, <2>1, PushTyped, SameContent
  <2>3. /\ pushed \in Nat /\ taken + 1 \in DOMAIN merged
        /\ bodies \in Seq(SUBSET Position) /\ pushed + 1 \in DOMAIN bodies
    <3>1. taken \in Nat /\ taken < Len(merged) /\ merged \in Seq(Sections)
      BY <1>1, <2>1 DEF ChunkTypeOK
    <3>2. pushed \in Nat /\ bodies \in Seq(SUBSET Position)
      BY <2>1 DEF ChunkTypeOK
    <3> QED BY <1>1, <3>1, <3>2
  <2>4. chunks \in Seq(C)
    BY <2>1 DEF ChunkTypeOK
  <2> HIDE DEF C
  <2> QED BY <2>1, <2>2, <2>3, <2>4
<1>3. trimmed \subseteq merged[taken + 1].lines
  <2>1. trimmed \subseteq B
    BY DEF Trimmed
  <2>2. B \subseteq NextSection.lines
    BY <1>2 DEF PushingInv
  <2> QED BY <2>1, <2>2 DEF NextSection
<1>4. trimmed # {} => HasText(trimmed)
  <2> HIDE DEF B
  <2>1. ASSUME NEW i \in trimmed
        PROVE  HasText(trimmed)
    <3>1. B \in SUBSET Int
      <4>1. B \in SUBSET Position
        BY <1>2, ElementOf DEF B
      <4> QED BY <4>1 DEF Position
    <3>2. PICK j \in B : ~Blank(content[j])
      BY DEF Trimmed
    <3>3. j <= j
      BY <3>1
    <3>4. j \in trimmed
      BY <3>2, <3>3 DEF Trimmed
    <3> QED BY <3>2, <3>4 DEF HasText
  <2> QED BY <2>1
<1>5. \A c \in DOMAIN chunks' :
         /\ HasText(chunks'[c].lines)
         /\ \E m \in DOMAIN merged : /\ chunks'[c].lines \subseteq merged[m].lines
                                     /\ chunks'[c].path = merged[m].path
  <2>1. ChunksFit
    BY <1>1 DEF MergersInv
  <2>2. CASE trimmed = {}
    BY <1>1, <2>1, <2>2 DEF ChunksFit
  <2>3. CASE trimmed # {}
    <3>1. chunk.lines = trimmed /\ chunk.path = merged[taken + 1].path
      BY DEF NextSection
    <3>3. chunk \in C
      <4>1. chunks' \in Seq(C) /\ Len(chunks) + 1 \in DOMAIN chunks'
        <5> HIDE DEF chunk, C, B
        <5>1. chunks' \in Seq(C)
          BY <1>2 DEF ChunkTypeOK, C
        <5> QED BY <1>1, <1>2, <2>3, <5>1
      <4>2. chunks'[Len(chunks) + 1] = chunk
        <5> HIDE DEF chunk, C, B
        <5> QED BY <1>1, <1>2, <2>3
      <4> HIDE DEF chunk, C, B
      <4> QED BY <4>1, <4>2, ElementOf
    <3> HIDE DEF chunk, trimmed, C
    <3>4. chunks' = Append(chunks, chunk) /\ chunks \in Seq(C)
      BY <1>1, <1>2, <2>3
    <3>2. /\ DOMAIN chunks' = DOMAIN chunks \cup {Len(chunks) + 1}
          /\ \A c \in DOMAIN chunks : chunks'[c] = chunks[c]
          /\ chunks'[Len(chunks) + 1] = chunk
      BY <3>3, <3>4, AppendElements
    <3> QED BY <1>2, <1>3, <1>4, <2>1, <2>3, <3>1, <3>2 DEF ChunksFit
  <2> QED BY <2>2, <2>3
<1> HIDE DEF chunk, trimmed, C, B
<1>6. ChunksFit'
  <2>1. \A S : HasText(S)' = HasText(S)
    BY <1>1, SameSections
  <2>2. \A c \in DOMAIN chunks' : HasText(chunks[c].lines)'
    BY <1>1, <1>5, SameSections
  <2> QED BY <1>1, <1>5, <2>2 DEF ChunksFit
<1>7. (\A k \in DOMAIN sections : HasText(sections[k].lines))'
  BY <1>1, SameSections DEF MergersInv
<1>8. MergedFit'
  BY <1>1, SameSections DEF MergersInv, MergedFit, InOrder, Before
<1> QED BY <1>1, <1>6, <1>7, <1>8 DEF MergersInv

\* The headings fit at first,
LEMMA MergersInit ==
  ASSUME Init
  PROVE  MergersInv
BY DEF Init, ChunkInit, MergersInv

\* and every step keeps them fitting.
LEMMA MergersStep ==
  ASSUME Weighs, TypeInv, DocumentInv, MergersInv, [Next]_vars
  PROVE  MergersInv'
<1>1. CASE Clean
  <2>1. stage' = "waiting" /\ sections' = sections /\ content' = content
    BY <1>1 DEF Clean, chunkVars, splitVars, TypeInv, TypeOK, CleanNext, ReadFence, SkipLine,
                ReadTable, ReadFilename, ReadSwitch, ReadText, PastTables, PastSkipping,
                Reading, EndOfRaw
  <2>2. (\A k \in DOMAIN sections : HasText(sections[k].lines))'
    BY <2>1, SameSections DEF MergersInv
  <2> QED BY <2>1, <2>2 DEF MergersInv
<1>2. CASE StartChunking
  <2>1. sections' = <<>> /\ stage' = "sections"
    BY <1>2 DEF StartChunking, ChunkMarkdown, ChunkInit, TypeInv, splitVars
  <2> QED BY <2>1 DEF MergersInv
<1>3. CASE Chunk
  <2>1. CASE ReadPage \/ ReadSection \/ ReadBody \/ EndOfContent
    BY <2>1, SplitMergers DEF Weighs
  <2>2. CASE GroupSection
    BY <2>2, GroupMergers DEF Weighs
  <2>3. CASE FinishGroups
    BY <2>3, FinishMergers
  <2>4. CASE \/ KeepWhole \/ BeginCut \/ EndCut \/ SectionDone \/ Return
             \/ \E i \in rest : CutAtomicLine(i) \/ CutPlainLine(i)
    <3>1. /\ stage \in {"splitting", "cutting", "pushing"}
          /\ stage' \in {"splitting", "cutting", "pushing", "done"}
          /\ content' = content /\ sections' = sections /\ merged' = merged /\ chunks' = chunks
      BY <2>4 DEF KeepWhole, BeginCut, Splitting, EndCut, SectionDone, Return, CutAtomicLine,
                  CutPlainLine, CutNext, splitVars, mergeVars
    <3> QED BY <3>1, MergersKept
  <2>5. CASE PushChunk
    BY <2>5, PushMergers DEF Weighs
  <2> QED BY <1>3, <2>1, <2>2, <2>3, <2>4, <2>5 DEF Chunk, ChunkNext
<1>4. CASE ParseFails
  BY <1>4 DEF ParseFails, MergersInv
<1>5. CASE UNCHANGED vars
  <2>1. /\ stage' = stage /\ content' = content /\ sections' = sections /\ merged' = merged
        /\ chunks' = chunks /\ pending' = pending /\ groups' = groups
    BY <1>5 DEF vars, chunkVars, splitVars, mergeVars
  <2>2. MergedFit => MergedFit'
    BY <2>1, SameSections DEF MergedFit, InOrder, Before
  <2>3. ChunksFit => ChunksFit'
    BY <2>1, SameSections DEF ChunksFit
  <2> QED BY <2>1, <2>2, <2>3, SameSections DEF MergersInv
<1> QED BY <1>1, <1>2, <1>3, <1>4, <1>5 DEF Next

\* What a merged section or a section has of text is in its trimmed lines.
LEMMA TextIsTrimmed ==
  ASSUME NEW S \in SUBSET Int, NEW T \in SUBSET S, HasText(T)
  PROVE  \E i \in T : i \in Trimmed(S)
<1>1. PICK i \in T : ~Blank(content[i])
  BY DEF HasText
<1>2. i <= i /\ i \in S
  OBVIOUS
<1> QED BY <1>1, <1>2 DEF Trimmed

\* A lonely merged section makes all the chunks, and if one of them is the whole of it
\* then that is all of them.
LEMMA StraySectionsMergeInv ==
  ASSUME TypeInv, DocumentInv, MergersInv
  PROVE  StraySectionsMerge
<1> SUFFICES ASSUME stage = "done", NEW c \in DOMAIN chunks, NEW k \in DOMAIN merged,
                    chunks[c].lines = Trimmed(merged[k].lines),
                    ~(Tokens(merged[k].lines) >= MinTokens)
             PROVE  Len(chunks) = 1
  BY DEF StraySectionsMerge
<1>1. ChunkTypeOK /\ MergedFit /\ ChunksFit /\ InOrder(chunks)
  BY DEF TypeInv, TypeOK, MergersInv, DocumentInv, EveryLineOnceInOrder, InOrder
<1> DEFINE C == [lines : SUBSET Position, path : Seq(Position), tokens : Nat]
<1>2. merged \in Seq(Sections) /\ chunks \in Seq(C)
  BY <1>1 DEF ChunkTypeOK
<1>3. \A m \in DOMAIN merged : m = k
  <2>1. Len(merged) <= 1
    BY <1>1 DEF MergedFit
  <2> QED BY <1>2, <2>1
<1>4. merged[k].lines \in SUBSET Int
  <2>1. merged[k] \in Sections
    BY <1>2, ElementOf
  <2> QED BY <2>1 DEF Sections, Position
<1>5. ASSUME NEW d \in DOMAIN chunks
      PROVE  d = c
  <2>1. chunks[d].lines \in SUBSET merged[k].lines /\ HasText(chunks[d].lines)
    BY <1>1, <1>3 DEF ChunksFit
  <2>2. PICK i \in chunks[d].lines : i \in Trimmed(merged[k].lines)
    BY <1>4, <2>1, TextIsTrimmed
  <2>3. i \in Int /\ i \in chunks[c].lines
    BY <1>4, <2>1, <2>2
  <2> HIDE DEF C
  <2> QED BY <1>1, <1>2, <2>2, <2>3, Disjoint
<1> HIDE DEF C
<1>6. Len(chunks) \in Nat /\ c \in 1..Len(chunks) /\ DOMAIN chunks = 1..Len(chunks)
  BY <1>2
<1>7. 1 \in DOMAIN chunks /\ Len(chunks) \in DOMAIN chunks
  BY <1>6
<1> QED BY <1>5, <1>6, <1>7

\* A chunk that is the whole of a merged section bears its heading, which fits.
LEMMA LabelledInv ==
  ASSUME TypeInv, DocumentInv, MergersInv
  PROVE  LabelledByLargestPart
<1> DEFINE Parts(S) == {k \in DOMAIN sections : sections[k].lines \cap S # {}}
<1> SUFFICES ASSUME stage = "done", NEW c \in DOMAIN chunks, WholeSection(chunks[c].lines)
             PROVE  \E k \in Parts(chunks[c].lines) :
                       /\ sections[k].path = chunks[c].path
                       /\ \A j \in Parts(chunks[c].lines) :
                             Tokens(sections[j].lines) <= Tokens(sections[k].lines)
  BY DEF LabelledByLargestPart
<1>1. ChunkTypeOK /\ MergedFit /\ ChunksFit
  BY DEF TypeInv, TypeOK, MergersInv
<1>2. merged \in Seq(Sections)
  BY <1>1 DEF ChunkTypeOK
<1>3. PICK m \in DOMAIN merged : chunks[c].lines = Trimmed(merged[m].lines)
  BY DEF WholeSection
<1>4. PICK n \in DOMAIN merged : chunks[c].lines \subseteq merged[n].lines
                                 /\ chunks[c].path = merged[n].path
  BY <1>1 DEF ChunksFit
<1>5. merged[m].lines \in SUBSET Int
  <2>1. merged[m] \in Sections
    BY <1>2, ElementOf
  <2> QED BY <2>1 DEF Sections, Position
<1>6. chunks[c].lines \subseteq merged[m].lines
  BY <1>3 DEF Trimmed
<1>7. m = n
  <2>1. PICK i \in chunks[c].lines : ~Blank(content[i])
    BY <1>1 DEF ChunksFit, HasText
  <2>2. i \in Int /\ i \in merged[m].lines /\ i \in merged[n].lines
    BY <1>4, <1>5, <1>6, <2>1
  <2> QED BY <1>1, <1>2, <2>2, Disjoint DEF MergedFit
<1>8. PICK k \in DOMAIN sections :
         /\ sections[k].lines \subseteq merged[m].lines
         /\ sections[k].path = merged[m].path
         /\ \A j \in DOMAIN sections :
               sections[j].lines \cap merged[m].lines # {} =>
                   Tokens(sections[j].lines) <= Tokens(sections[k].lines)
  BY <1>1 DEF MergedFit, FittingPath
<1>9. k \in Parts(chunks[c].lines)
  <2>1. HasText(sections[k].lines)
    BY DEF MergersInv
  <2>2. PICK i \in sections[k].lines : i \in Trimmed(merged[m].lines)
    BY <1>5, <1>8, <2>1, TextIsTrimmed
  <2> QED BY <1>3, <2>2
<1>10. \A j \in Parts(chunks[c].lines) : Tokens(sections[j].lines) <= Tokens(sections[k].lines)
  BY <1>6, <1>8
<1> HIDE DEF Parts
<1> QED BY <1>4, <1>7, <1>8, <1>9, <1>10

\* If more lines are never fewer tokens, then a section below the minimum is merged until
\* it is not, or until nothing is left to merge it with: whatever the pages and the limits.
THEOREM StraySectionsAreMerged == Weighs => (Spec => []StraySectionsMerge)
<1> SUFFICES ASSUME Weighs
             PROVE  Spec => []StraySectionsMerge
  OBVIOUS
<1> DEFINE IInv == TypeInv /\ DocumentInv /\ MergersInv
<1>1. Init => IInv
  BY TypeInit, DocumentInvInit, MergersInit
<1>2. IInv /\ [Next]_vars => IInv'
  BY TypeStep, DocumentInvStep, MergersStep DEF Weighs
<1>3. IInv => StraySectionsMerge
  BY StraySectionsMergeInv
<1> HIDE DEF IInv
<1> QED BY <1>1, <1>2, <1>3, PTL DEF Spec

\* A chunk that is not a piece of a longer section bears the heading of the longest
\* section in it, with any such tokenizer: the label survives grouping, folding and
\* trimming, whatever the pages and the limits.
THEOREM LabelsAreLargestParts == Weighs => (Spec => []LabelledByLargestPart)
<1> SUFFICES ASSUME Weighs
             PROVE  Spec => []LabelledByLargestPart
  OBVIOUS
<1> DEFINE IInv == TypeInv /\ DocumentInv /\ MergersInv
<1>1. Init => IInv
  BY TypeInit, DocumentInvInit, MergersInit
<1>2. IInv /\ [Next]_vars => IInv'
  BY TypeStep, DocumentInvStep, MergersStep DEF Weighs
<1>3. IInv => LabelledByLargestPart
  BY LabelledInv
<1> HIDE DEF IInv
<1> QED BY <1>1, <1>2, <1>3, PTL DEF Spec

-------------------------------------------------------------------------------
(***************************************************************************)
(* Sizes: SizesInv is inductive.                                           *)
(***************************************************************************)
\* A tokenizer for which joining lines costs no more than the newlines between them.
Joins ==
  \A document \in Seq(Line) :
     /\ CountTokens(document, {}) = 0
     /\ \A S \in SUBSET (1..Len(document)) : \A i \in 1..Len(document) :
           CountTokens(document, S \cup {i})
              <= CountTokens(document, S) + CountTokens(document, {i}) + NewlineTokens

\* What a step that leaves the content alone leaves alone.
LEMMA SameSizes ==
  ASSUME content' = content
  PROVE  /\ \A S : HasFence(S)' = HasFence(S) /\ HasTable(S)' = HasTable(S)
         /\ \A S : WithinCeiling(S)' = WithinCeiling(S)
         /\ \A S : BodyWithinCeiling(S)' = BodyWithinCeiling(S)
         /\ \A n, S : TargetAnd(n, S)' = TargetAnd(n, S)
BY DEF HasFence, HasTable, WithinCeiling, BodyWithinCeiling, TargetAnd, Tokens, TableLimit,
       Newlines

\* Sets of positions are finite, and each line costs a newline.
LEMMA NewlinesGrow ==
  ASSUME ChunkTypeOK, NEW S \in SUBSET Position
  PROVE  /\ IsFiniteSet(S) /\ Cardinality(S) \in Nat /\ Newlines(S) \in Nat
         /\ \A i \in S : Newlines(S) = Newlines(S \ {i}) + NewlineTokens
<1>1. \A T \in SUBSET Position : /\ IsFiniteSet(T) /\ Cardinality(T) \in Nat
                                 /\ Newlines(T) \in Nat
  <2>1. Len(content) \in Nat
    BY DEF ChunkTypeOK
  <2>2. IsFiniteSet(Position)
    BY <2>1, FS_Interval DEF Position
  <2>3. \A T \in SUBSET Position : IsFiniteSet(T) /\ Cardinality(T) \in Nat
    BY <2>2, FS_Subset, FS_CardinalityType
  <2>4. \A n \in Nat : NewlineTokens * n \in Nat
    BY ChunkerAssumption
  <2> QED BY <2>3, <2>4 DEF Newlines
<1>2. ASSUME NEW i \in S
      PROVE  Newlines(S) = Newlines(S \ {i}) + NewlineTokens
  <2>1. Cardinality(S \ {i}) = Cardinality(S) - 1 /\ Cardinality(S) \in Nat
    BY <1>1, FS_RemoveElement
  <2>2. Cardinality(S \ {i}) \in Nat
    BY <1>1
  <2>3. \A n \in Nat : NewlineTokens * (n + 1) = NewlineTokens * n + NewlineTokens
    BY ChunkerAssumption
  <2>4. Cardinality(S) = Cardinality(S \ {i}) + 1
    BY <2>1, <2>2
  <2> QED BY <2>2, <2>3, <2>4 DEF Newlines
<1> QED BY <1>1, <1>2

\* A line joins a buffer.
LEMMA LineJoins ==
  ASSUME Weighs, Joins, ChunkTypeOK, NEW S \in SUBSET Position, NEW i \in Position
  PROVE  /\ Tokens({}) = 0 /\ Tokens({i}) \in Nat /\ Tokens(S) \in Nat
         /\ Tokens(S \cup {i}) \in Nat
         /\ Tokens(S \cup {i}) <= Tokens(S) + Tokens({i}) + NewlineTokens
<1>1. content \in Seq(Line) /\ S \in SUBSET (1..Len(content)) /\ i \in 1..Len(content)
      /\ {i} \in SUBSET (1..Len(content)) /\ S \cup {i} \in SUBSET (1..Len(content))
  BY DEF ChunkTypeOK, Position
<1> QED BY <1>1 DEF Weighs, Tokenizes, Joins, Tokens

\* If a buffer has less than the target and n more, then with a line it has less than the
\* target, n and that line more.
LEMMA TargetAndLine ==
  ASSUME Weighs, Joins, ChunkTypeOK, NEW S \in SUBSET Position, NEW i \in Position,
         NEW n \in Nat, TargetAnd(n, S)
  PROVE  TargetAnd(n + Tokens({i}), S \cup {i})
<1>1. CASE HasFence(S)
  BY <1>1 DEF TargetAnd, HasFence
<1>2. CASE \A U \in SUBSET S : Tokens(U) < TargetTokens + n + Newlines(U)
  <2>1. ASSUME NEW U \in SUBSET (S \cup {i})
        PROVE  Tokens(U) < TargetTokens + (n + Tokens({i})) + Newlines(U)
    <3>1. U \in SUBSET Position /\ U \ {i} \in SUBSET Position /\ U \ {i} \in SUBSET S
      OBVIOUS
    <3>2. /\ Tokens(U) \in Nat /\ Tokens(U \ {i}) \in Nat /\ Tokens({i}) \in Nat
          /\ Newlines(U) \in Nat /\ Newlines(U \ {i}) \in Nat
          /\ TargetTokens \in Nat /\ NewlineTokens \in Nat
      BY <3>1, LineJoins, NewlinesGrow, ChunkerAssumption
    <3>3. Tokens(U \ {i}) < TargetTokens + n + Newlines(U \ {i})
      BY <1>2, <3>1
    <3>4. CASE i \in U
      <4>1. Newlines(U) = Newlines(U \ {i}) + NewlineTokens
        BY <3>1, <3>4, NewlinesGrow
      <4>2. (U \ {i}) \cup {i} = U
        BY <3>4
      <4>3. Tokens(U) <= Tokens(U \ {i}) + Tokens({i}) + NewlineTokens
        BY <3>1, <4>2, LineJoins
      <4> QED BY <3>2, <3>3, <4>1, <4>3
    <3>5. CASE i \notin U
      <4>1. U \ {i} = U
        BY <3>5
      <4>2. Tokens(U) < TargetTokens + n + Newlines(U)
        BY <3>3, <4>1
      <4> QED BY <3>2, <4>2
    <3> QED BY <3>4, <3>5
  <2> QED BY <2>1 DEF TargetAnd
<1> QED BY <1>1, <1>2 DEF TargetAnd

\* A buffer below the target.
LEMMA BelowTarget ==
  ASSUME Weighs, ChunkTypeOK, NEW S \in SUBSET Position, Tokens(S) < TargetTokens
  PROVE  TargetAnd(0, S)
<1>1. ASSUME NEW U \in SUBSET S
      PROVE  Tokens(U) < TargetTokens + 0 + Newlines(U)
  <2>1. U \in SUBSET Position
    OBVIOUS
  <2>2. Tokens(U) \in Nat /\ Tokens(S) \in Nat /\ Tokens(U) <= Tokens(S)
    BY TokensGrow
  <2>3. Newlines(U) \in Nat /\ TargetTokens \in Nat
    BY <2>1, NewlinesGrow, ChunkerAssumption
  <2> QED BY <2>2, <2>3
<1> QED BY <1>1 DEF TargetAnd

\* A table within the bound, and its next line.
LEMMA TableLineFits ==
  ASSUME Weighs, ChunkTypeOK, NEW S \in SUBSET Position, NEW i \in Position,
         Before(S, {i}), NEW n \in Nat, n <= TableBound, TargetAnd(n, S), HasTable(S \cup {i})
  PROVE  BodyWithinCeiling(S \cup {i})
<1>1. CASE HasFence(S)
  BY <1>1 DEF BodyWithinCeiling, HasFence
<1>2. CASE \A U \in SUBSET S : Tokens(U) < TargetTokens + n + Newlines(U)
  <2>1. /\ \A j \in S : j < i /\ j \in Int
        /\ i \in Int
    BY DEF Before, Position
  <2>2. (S \cup {i}) \ {i} = S /\ \A j \in S \cup {i} : j <= i
    BY <2>1
  <2>3. ASSUME NEW U \in SUBSET S
        PROVE  Tokens(U) < TableLimit(U)
    <3>1. Tokens(U) < TargetTokens + n + Newlines(U)
      BY <1>2
    <3>2. Newlines(U) \in Nat /\ TargetTokens \in Nat /\ TableBound \in Nat
      <4>1. U \in SUBSET Position
        OBVIOUS
      <4> QED BY <4>1, NewlinesGrow, ChunkerAssumption
    <3>3. TargetTokens + n + Newlines(U) <= TargetTokens + TableBound + Newlines(U)
      BY <3>2
    <3>4. Tokens(U) \in Nat /\ TableLimit(U) = TargetTokens + TableBound + Newlines(U)
      BY TokensGrow DEF TableLimit
    <3> QED BY <3>1, <3>2, <3>3, <3>4
  <2>4. \E last \in S \cup {i} :
           /\ \A j \in S \cup {i} : j <= last
           /\ \A U \in SUBSET ((S \cup {i}) \ {last}) : Tokens(U) < TableLimit(U)
    BY <2>2, <2>3
  <2> QED BY <2>4 DEF BodyWithinCeiling
<1> QED BY <1>1, <1>2 DEF TargetAnd

\* What the buffer holds when a line is read: a table that is open has not been flushed,
\* and one that opens finds a buffer below the target.
LEMMA OpenTableFits ==
  ASSUME Weighs, Joins, ChunkTypeOK, SizesInv, stage = "cutting", NEW i \in Position
  PROVE  LET o == TableOpened(table, content[i], MayOpenTable(i))
             r == RowsOpened(mdTable, content[i], MayOpenRows(i))
         IN  /\ BufferAt(i) \in SUBSET Position
             /\ FenceNow(i).inside /\ ~FenceMarker(content[i]) => HasFence(BufferAt(i))
             /\ o.inside => /\ o.tokens \in 0..TableBound /\ TargetAnd(o.tokens, BufferAt(i))
                            /\ HasTable(BufferAt(i) \cup {i})
             /\ r.inside => /\ r.tokens \in 0..TableBound /\ TargetAnd(r.tokens, BufferAt(i))
                            /\ HasTable(BufferAt(i) \cup {i})
<1> DEFINE o == TableOpened(table, content[i], MayOpenTable(i))
           r == RowsOpened(mdTable, content[i], MayOpenRows(i))
<1>1. /\ buffer \in SUBSET Position /\ BufferAt(i) \in SUBSET Position
      /\ TargetTokens \in Nat \ {0} /\ TableBound \in Nat
      /\ table \in [inside : BOOLEAN, depth : Nat, tokens : Nat]
      /\ mdTable \in [inside : BOOLEAN, tokens : Nat]
  BY ChunkerAssumption DEF ChunkTypeOK, BufferAt
<1>2. ~Opens(i) => BufferAt(i) = buffer
  BY DEF BufferAt, FlushFirst
<1>3. Opens(i) => TargetAnd(0, BufferAt(i))
  <2>1. Tokens({}) = 0 /\ Tokens(buffer) \in Nat
    BY <1>1, LineJoins
  <2>2. ASSUME Opens(i)
        PROVE  Tokens(BufferAt(i)) < TargetTokens
    BY <1>1, <2>1, <2>2 DEF BufferAt, FlushFirst
  <2> QED BY <1>1, <2>2, BelowTarget
<1>4. FenceNow(i).inside /\ ~FenceMarker(content[i]) => HasFence(BufferAt(i))
  <2>1. ASSUME FenceNow(i).inside, ~FenceMarker(content[i])
        PROVE  HasFence(BufferAt(i))
    <3>1. fence.inside
      BY <2>1 DEF FenceNow, FenceAfter, ChunkTypeOK
    <3>2. ~Opens(i)
      BY <2>1 DEF Opens, MayOpenTable, MayOpenRows
    <3> QED BY <1>2, <3>1, <3>2 DEF SizesInv
  <2> QED BY <2>1
<1>5. MdRow(content[i]) => ~TableOpen(content[i])
  BY DEF MdRow, TableOpen
<1>6. ASSUME o.inside
      PROVE  /\ o.tokens \in 0..TableBound /\ TargetAnd(o.tokens, BufferAt(i))
             /\ HasTable(BufferAt(i) \cup {i})
  <2>1. \/ table.inside /\ ~PastBound(table) /\ o.tokens = table.tokens
        \/ MayOpenTable(i) /\ TableOpen(content[i]) /\ o.tokens = 0
    BY <1>1, <1>6 DEF TableOpened
  <2>2. CASE table.inside /\ ~PastBound(table) /\ o.tokens = table.tokens
    <3>1. ~Opens(i)
      BY <2>2 DEF Opens, MayOpenTable, MayOpenRows
    <3>2. table.tokens \in 0..TableBound
      BY <1>1, <2>2 DEF PastBound
    <3> HIDE DEF o
    <3> QED BY <1>2, <2>2, <3>1, <3>2 DEF SizesInv, HasTable
  <2>3. CASE MayOpenTable(i) /\ TableOpen(content[i]) /\ o.tokens = 0
    <3> HIDE DEF o
    <3> QED BY <1>1, <1>3, <2>3 DEF Opens, HasTable
  <2> HIDE DEF o
  <2> QED BY <2>1, <2>2, <2>3
<1>7. ASSUME r.inside
      PROVE  /\ r.tokens \in 0..TableBound /\ TargetAnd(r.tokens, BufferAt(i))
             /\ HasTable(BufferAt(i) \cup {i})
  <2>1. \/ mdTable.inside /\ ~PastBound(mdTable) /\ MdRow(content[i]) /\ r.tokens = mdTable.tokens
        \/ MayOpenRows(i) /\ MdRow(content[i]) /\ r.tokens = 0
    BY <1>1, <1>7 DEF RowsOpened
  <2>2. CASE /\ mdTable.inside /\ ~PastBound(mdTable) /\ MdRow(content[i])
             /\ r.tokens = mdTable.tokens
    <3>1. ~Opens(i)
      BY <2>2 DEF Opens, MayOpenTable, MayOpenRows
    <3>2. mdTable.tokens \in 0..TableBound
      BY <1>1, <2>2 DEF PastBound
    <3> HIDE DEF r
    <3> QED BY <1>2, <2>2, <3>1, <3>2 DEF SizesInv, HasTable
  <2>3. CASE MayOpenRows(i) /\ MdRow(content[i]) /\ r.tokens = 0
    <3> HIDE DEF r
    <3> QED BY <1>1, <1>3, <2>3 DEF Opens, HasTable
  <2> HIDE DEF r
  <2> QED BY <2>1, <2>2, <2>3
<1> HIDE DEF o, r
<1>8. /\ BufferAt(i) \in SUBSET Position
      /\ FenceNow(i).inside /\ ~FenceMarker(content[i]) => HasFence(BufferAt(i))
      /\ o.inside => /\ o.tokens \in 0..TableBound /\ TargetAnd(o.tokens, BufferAt(i))
                     /\ HasTable(BufferAt(i) \cup {i})
      /\ r.inside => /\ r.tokens \in 0..TableBound /\ TargetAnd(r.tokens, BufferAt(i))
                     /\ HasTable(BufferAt(i) \cup {i})
  BY <1>1, <1>4, <1>6, <1>7
<1> QED BY <1>8 DEF o, r

\* A body is appended, unless it is blank.
LEMMA BodyKeepsSizes ==
  ASSUME NEW bs \in Seq(SUBSET Position), NEW S \in SUBSET Position,
         \A b \in DOMAIN bs : BodyWithinCeiling(bs[b]), BodyWithinCeiling(S)
  PROVE  \A b \in DOMAIN (bs \o Body(S)) : BodyWithinCeiling((bs \o Body(S))[b])
<1>1. CASE HasText(S)
  <2>1. bs \o Body(S) = Append(bs, S)
    <3>1. bs \o <<S>> = Append(bs, S)
      OBVIOUS
    <3> QED BY <1>1, <3>1 DEF Body
  <2>2. /\ DOMAIN Append(bs, S) = DOMAIN bs \cup {Len(bs) + 1}
        /\ \A b \in DOMAIN bs : Append(bs, S)[b] = bs[b]
        /\ Append(bs, S)[Len(bs) + 1] = S
    BY AppendElements
  <2> QED BY <2>1, <2>2
<1>2. CASE ~HasText(S)
  <2>1. bs \o <<>> = bs
    OBVIOUS
  <2> QED BY <1>2, <2>1 DEF Body
<1> QED BY <1>1, <1>2

\* The buffer a line finds, and the bodies flushed before it.
LEMMA SizesAt ==
  ASSUME Weighs, Joins, ChunkTypeOK, SizesInv, stage = "cutting", NEW i \in Position
  PROVE  /\ BodiesAt(i) \in Seq(SUBSET Position) /\ BufferAt(i) \in SUBSET Position
         /\ BodyWithinCeiling(BufferAt(i)) /\ BodyWithinCeiling({})
         /\ \A b \in DOMAIN BodiesAt(i) : BodyWithinCeiling(BodiesAt(i)[b])
<1>1. bodies \in Seq(SUBSET Position) /\ buffer \in SUBSET Position
  BY DEF ChunkTypeOK
<1>2. BodyWithinCeiling({})
  <2>1. Tokens({}) = 0 /\ MaxTokens \in Nat
    BY <1>1, LineJoins, ChunkerAssumption
  <2> QED BY <2>1 DEF BodyWithinCeiling
<1>3. BodyWithinCeiling(buffer) /\ \A b \in DOMAIN bodies : BodyWithinCeiling(bodies[b])
  BY DEF SizesInv
<1> QED BY <1>1, <1>2, <1>3, BodyKeepsSizes, ConcatBody DEF BodiesAt, BufferAt, Weighs

\* splitOversizedSection: a line of a fence or of a table is read.
LEMMA AtomicSizes ==
  ASSUME Weighs, Joins, TypeInv, DocumentInv, SizesInv,
         NEW i \in rest, CutAtomicLine(i)
  PROVE  SizesInv'
<1> DEFINE o == TableOpened(table, content[i], MayOpenTable(i))
           r == RowsOpened(mdTable, content[i], MayOpenRows(i))
           n == Tokens({i})
           full == BufferAt(i) \cup {i}
<1>1. /\ stage = "cutting" /\ stage' = "cutting" /\ content' = content /\ chunks' = chunks
      /\ fence' = FenceNow(i) /\ Atomic(i)
      /\ table' = TableAfter(table, content[i], n, MayOpenTable(i))
      /\ mdTable' = RowsAfter(mdTable, content[i], n, MayOpenRows(i))
      /\ bodies' = BodiesAt(i) /\ buffer' = full
  BY DEF CutAtomicLine, CutNext
<1>2. ChunkTypeOK /\ i \in Position /\ Before(buffer, {i})
  BY <1>1 DEF TypeInv, TypeOK, DocumentInv, CuttingInv, CutInto, ChunkTypeOK, Before
<1>3. /\ BufferAt(i) \in SUBSET Position
      /\ FenceNow(i).inside /\ ~FenceMarker(content[i]) => HasFence(BufferAt(i))
      /\ o.inside => /\ o.tokens \in 0..TableBound /\ TargetAnd(o.tokens, BufferAt(i))
                     /\ HasTable(full)
      /\ r.inside => /\ r.tokens \in 0..TableBound /\ TargetAnd(r.tokens, BufferAt(i))
                     /\ HasTable(full)
  <2> HIDE DEF o, r, full
  <2> QED BY <1>1, <1>2, OpenTableFits DEF o, r, full
<1>4. /\ table'.inside => o.inside /\ table'.tokens = o.tokens + n
      /\ mdTable'.inside => r.inside /\ mdTable'.tokens = r.tokens + n
  <2>1. /\ o \in [inside : BOOLEAN, depth : Nat, tokens : Nat]
        /\ r \in [inside : BOOLEAN, tokens : Nat]
    <3>1. n \in Nat
      BY <1>2, LineJoins
    <3> HIDE DEF n, o, r
    <3> QED BY <1>2, <3>1, TrackersTyped DEF o, r
  <2>2. /\ TableAfter(table, content[i], n, MayOpenTable(i))
             = IF o.inside THEN [o EXCEPT !.tokens = @ + n, !.inside = ~TableClose(content[i])]
               ELSE o
        /\ RowsAfter(mdTable, content[i], n, MayOpenRows(i))
             = IF r.inside THEN [r EXCEPT !.tokens = @ + n] ELSE r
    BY DEF TableAfter, RowsAfter
  <2> HIDE DEF o, r, n
  <2> QED BY <1>1, <2>1, <2>2
<1>5. Before(BufferAt(i), {i})
  BY <1>2 DEF BufferAt, Before
<1> HIDE DEF o, r
<1>6. /\ FenceNow(i).inside => HasFence(full)
      /\ table'.inside => HasTable(full) /\ TargetAnd(table'.tokens, full)
      /\ mdTable'.inside => HasTable(full) /\ TargetAnd(mdTable'.tokens, full)
  <2>1. FenceNow(i).inside => HasFence(full)
    BY <1>3 DEF HasFence
  <2>2. \A k \in 0..TableBound : TargetAnd(k, BufferAt(i)) => TargetAnd(k + n, full)
    <3>1. \A k \in 0..TableBound : k \in Nat
      OBVIOUS
    <3> QED BY <1>2, <1>3, <3>1, TargetAndLine
  <2> HIDE DEF full, n
  <2> QED BY <1>3, <1>4, <2>1, <2>2
<1>7. BodyWithinCeiling(full)
  <2>1. CASE FenceMarker(content[i]) \/ FenceNow(i).inside
    <3>1. HasFence(full)
      BY <1>6, <2>1 DEF HasFence
    <3> QED BY <3>1 DEF BodyWithinCeiling
  <2>2. CASE o.inside
    <3>1. o.tokens \in Nat /\ o.tokens <= TableBound
      BY <1>3, <2>2
    <3> QED BY <1>2, <1>3, <1>5, <2>2, <3>1, TableLineFits
  <2>3. CASE r.inside
    <3>1. r.tokens \in Nat /\ r.tokens <= TableBound
      BY <1>3, <2>3
    <3> QED BY <1>2, <1>3, <1>5, <2>3, <3>1, TableLineFits
  <2> QED BY <1>1, <2>1, <2>2, <2>3 DEF Atomic, InTable, o, r
<1>8. \A b \in DOMAIN BodiesAt(i) : BodyWithinCeiling(BodiesAt(i)[b])
  BY <1>1, <1>2, SizesAt
<1> HIDE DEF full, n
<1>9. /\ BodyWithinCeiling(buffer)'
      /\ fence'.inside => HasFence(buffer)'
      /\ table'.inside => HasTable(buffer)' /\ TargetAnd(table.tokens, buffer)'
      /\ mdTable'.inside => HasTable(buffer)' /\ TargetAnd(mdTable.tokens, buffer)'
      /\ \A b \in DOMAIN bodies' : BodyWithinCeiling(bodies[b])'
      /\ \A c \in DOMAIN chunks' : WithinCeiling(chunks[c].lines)'
  BY <1>1, <1>6, <1>7, <1>8, SameSizes DEF SizesInv
<1> QED BY <1>1, <1>9 DEF SizesInv

\* splitOversizedSection: a line of prose is read; the buffer before it becomes a body when
\* the two are above the maximum, and with it when it is blank.
LEMMA PlainSizes ==
  ASSUME Weighs, Joins, TypeInv, DocumentInv, SizesInv,
         NEW i \in rest, CutPlainLine(i)
  PROVE  SizesInv'
<1> DEFINE before == IF Overfull(i) THEN BodiesAt(i) \o Body(BufferAt(i)) ELSE BodiesAt(i)
           full   == (IF Overfull(i) THEN {} ELSE BufferAt(i)) \cup {i}
           n      == Tokens({i})
<1>1. /\ stage = "cutting" /\ stage' = "cutting" /\ content' = content /\ chunks' = chunks
      /\ fence' = FenceNow(i) /\ ~Atomic(i)
      /\ table' = TableAfter(table, content[i], n, MayOpenTable(i))
      /\ mdTable' = RowsAfter(mdTable, content[i], n, MayOpenRows(i))
      /\ \/ bodies' = before \o Body(full) /\ buffer' = {}
         \/ bodies' = before /\ buffer' = full
  BY DEF CutPlainLine, CutNext
<1>2. ChunkTypeOK /\ i \in Position
  BY <1>1 DEF TypeInv, TypeOK, ChunkTypeOK
<1>3. ~fence'.inside /\ ~table'.inside /\ ~mdTable'.inside
  BY <1>1 DEF Atomic, InTable, TableAfter, RowsAfter
<1>4. /\ BodiesAt(i) \in Seq(SUBSET Position) /\ BufferAt(i) \in SUBSET Position
      /\ BodyWithinCeiling(BufferAt(i)) /\ BodyWithinCeiling({})
      /\ \A b \in DOMAIN BodiesAt(i) : BodyWithinCeiling(BodiesAt(i)[b])
  BY <1>1, <1>2, SizesAt
<1>5. before \in Seq(SUBSET Position) /\ full \in SUBSET Position
  BY <1>2, <1>4, ConcatBody DEF Weighs
<1>6. \A b \in DOMAIN before : BodyWithinCeiling(before[b])
  BY <1>4, BodyKeepsSizes
<1>7. BodyWithinCeiling(full)
  <2>1. CASE full = {i}
    <3> HIDE DEF full
    <3> QED BY <2>1 DEF BodyWithinCeiling
  <2>2. CASE full # {i}
    <3>1. full = BufferAt(i) \cup {i} /\ BufferAt(i) # {} /\ ~Overfull(i)
      BY <2>2
    <3>2. ~(Tokens(full) > MaxTokens)
      <4> HIDE DEF full
      <4> QED BY <3>1 DEF Overfull
    <3>3. Tokens(full) \in Nat /\ MaxTokens \in Nat
      <4> HIDE DEF full
      <4> QED BY <1>2, <1>5, LineJoins, ChunkerAssumption
    <3>4. Tokens(full) <= MaxTokens
      <4> HIDE DEF full
      <4> QED BY <3>2, <3>3
    <3> HIDE DEF full
    <3> QED BY <3>4 DEF BodyWithinCeiling
  <2> QED BY <2>1, <2>2
<1> HIDE DEF before, full, n
<1>8. BodyWithinCeiling(buffer') /\ \A b \in DOMAIN bodies' : BodyWithinCeiling(bodies'[b])
  BY <1>1, <1>4, <1>5, <1>6, <1>7, BodyKeepsSizes
<1>9. /\ BodyWithinCeiling(buffer)'
      /\ \A b \in DOMAIN bodies' : BodyWithinCeiling(bodies[b])'
      /\ \A c \in DOMAIN chunks' : WithinCeiling(chunks[c].lines)'
  BY <1>1, <1>8, SameSizes DEF SizesInv
<1> QED BY <1>1, <1>3, <1>9 DEF SizesInv

\* The last body and the one before it are joined only under the maximum.
LEMMA FoldShortSizes ==
  ASSUME Weighs, ChunkTypeOK, NEW bs \in Seq(SUBSET Position),
         \A b \in DOMAIN bs : BodyWithinCeiling(bs[b])
  PROVE  \A b \in DOMAIN FoldShortTrailing(bs) : BodyWithinCeiling(FoldShortTrailing(bs)[b])
<1> DEFINE n      == Len(bs) - 1
           front  == SubSeq(bs, 1, Len(bs) - 2)
           joined == bs[n] \cup Last(bs)
<1>1. CASE \/ Len(bs) < 2
           \/ Tokens(Last(bs)) >= MinTokens
           \/ Tokens(joined) > MaxTokens
  BY <1>1 DEF FoldShortTrailing
<1>2. CASE /\ ~(Len(bs) < 2) /\ ~(Tokens(Last(bs)) >= MinTokens)
           /\ ~(Tokens(joined) > MaxTokens)
  <2>1. Len(bs) \in Nat /\ n \in DOMAIN bs /\ Len(bs) \in DOMAIN bs /\ Len(bs) - 2 \in 0..Len(bs)
    BY <1>2
  <2>2. joined \in SUBSET Position
    <3>1. bs[n] \in SUBSET Position /\ Last(bs) \in SUBSET Position
      BY <2>1, ElementOf DEF Last
    <3> HIDE DEF n
    <3> QED BY <3>1
  <2>3. /\ front \in Seq(SUBSET Position)
        /\ \A g \in DOMAIN front : g \in DOMAIN bs /\ front[g] = bs[g]
    <3> DEFINE m == Len(bs) - 2
    <3>1. m \in 0..Len(bs)
      BY <2>1
    <3> HIDE DEF m
    <3>2. /\ SubSeq(bs, 1, m) \in Seq(SUBSET Position)
          /\ \A k \in DOMAIN SubSeq(bs, 1, m) :
                k \in DOMAIN bs /\ SubSeq(bs, 1, m)[k] = bs[k]
      BY <3>1, FrontElements
    <3> QED BY <3>2 DEF m
  <2>4. BodyWithinCeiling(joined)
    <3>1. Tokens(joined) \in Nat /\ MaxTokens \in Nat
      <4> HIDE DEF joined
      <4> QED BY <2>2, TokensGrow, ChunkerAssumption
    <3> HIDE DEF joined
    <3> QED BY <1>2, <3>1 DEF BodyWithinCeiling
  <2>5. FoldShortTrailing(bs) = Append(front, joined)
    BY <1>2 DEF FoldShortTrailing
  <2>6. /\ DOMAIN Append(front, joined) = DOMAIN front \cup {Len(front) + 1}
        /\ \A g \in DOMAIN front : Append(front, joined)[g] = front[g]
        /\ Append(front, joined)[Len(front) + 1] = joined
    <3> HIDE DEF front, joined
    <3> QED BY <2>2, <2>3, AppendElements
  <2> HIDE DEF front, joined, n
  <2> QED BY <2>3, <2>4, <2>5, <2>6
<1> QED BY <1>1, <1>2

\* splitOversizedSection returns, and so it does for a section under the maximum.
LEMMA EndSizes ==
  ASSUME Weighs, Joins, TypeInv, DocumentInv, SizesInv, KeepWhole \/ BeginCut \/ EndCut
  PROVE  SizesInv'
<1>1. /\ ChunkTypeOK /\ content' = content /\ chunks' = chunks
      /\ bodies \in Seq(SUBSET Position) /\ buffer \in SUBSET Position
  BY DEF KeepWhole, BeginCut, EndCut, TypeInv, TypeOK, ChunkTypeOK
<1>2. BodyWithinCeiling({})
  <2>1. {} \in SUBSET Position /\ Tokens({}) = 0 /\ MaxTokens \in Nat
    <3>1. content \in Seq(Line)
      BY <1>1 DEF ChunkTypeOK
    <3> QED BY <3>1, ChunkerAssumption DEF Joins, Tokens
  <2> QED BY <2>1 DEF BodyWithinCeiling
<1>3. \A c \in DOMAIN chunks' : WithinCeiling(chunks[c].lines)'
  BY <1>1, SameSizes DEF SizesInv
<1>4. CASE KeepWhole
  <2>1. bodies' = <<NextSection.lines>> /\ stage' = "pushing"
        /\ Tokens(NextSection.lines) <= MaxTokens
    BY <1>4 DEF KeepWhole
  <2>2. \A b \in DOMAIN bodies' : BodyWithinCeiling(bodies'[b])
    BY <2>1 DEF BodyWithinCeiling
  <2>3. \A b \in DOMAIN bodies' : BodyWithinCeiling(bodies[b])'
    BY <1>1, <2>2, SameSizes
  <2> QED BY <1>3, <2>1, <2>3 DEF SizesInv
<1>5. CASE BeginCut
  <2>1. bodies' = <<>> /\ buffer' = {} /\ stage' = "cutting"
        /\ ~fence'.inside /\ ~table'.inside /\ ~mdTable'.inside
    BY <1>5 DEF BeginCut, NoFence, NoTable, NoRows
  <2>2. BodyWithinCeiling(buffer)'
    BY <1>1, <1>2, <2>1, SameSizes
  <2> QED BY <1>3, <2>1, <2>2 DEF SizesInv
<1>6. CASE EndCut
  <2>1. stage = "cutting" /\ stage' = "pushing"
        /\ bodies' = FoldShortTrailing(bodies \o Body(buffer))
    BY <1>6 DEF EndCut
  <2>2. bodies \o Body(buffer) \in Seq(SUBSET Position)
    BY <1>1, ConcatBody DEF Weighs
  <2>3. \A b \in DOMAIN (bodies \o Body(buffer)) : BodyWithinCeiling((bodies \o Body(buffer))[b])
    BY <1>1, <2>1, BodyKeepsSizes DEF SizesInv
  <2>4. \A b \in DOMAIN bodies' : BodyWithinCeiling(bodies'[b])
    BY <1>1, <2>1, <2>2, <2>3, FoldShortSizes
  <2>5. \A b \in DOMAIN bodies' : BodyWithinCeiling(bodies[b])'
    BY <1>1, <2>4, SameSizes
  <2> QED BY <1>3, <2>1, <2>5 DEF SizesInv
<1> QED BY <1>4, <1>5, <1>6

\* A set of positions that is not empty has a last one.
LEMMA GreatestElement ==
  ASSUME NEW N \in Nat, NEW S \in SUBSET (1..N), S # {}
  PROVE  \E n \in S : \A m \in S : m <= n
<1> DEFINE T == {k \in 0..N : N - k \in S}
<1>1. IsFiniteSet(T)
  <2>1. T \in SUBSET (0..N) /\ IsFiniteSet(0..N)
    BY FS_Interval
  <2> HIDE DEF T
  <2> QED BY <2>1, FS_Subset
<1>2. T # {} /\ \A t \in T : t \in Int
  <2>1. PICK m \in S : TRUE
    OBVIOUS
  <2>2. N - m \in 0..N /\ N - (N - m) = m
    OBVIOUS
  <2>3. N - m \in T
    BY <2>2
  <2>4. \A t \in T : t \in Int
    OBVIOUS
  <2> HIDE DEF T
  <2> QED BY <2>3, <2>4
<1>3. PICK t \in T : \A u \in T : t <= u
  <2> HIDE DEF T
  <2> QED BY <1>1, <1>2, LeastElement
<1>4. N - t \in S /\ t \in 0..N
  OBVIOUS
<1>5. ASSUME NEW m \in S
      PROVE  m <= N - t
  <2>1. N - m \in 0..N /\ N - (N - m) = m
    OBVIOUS
  <2>2. t <= N - m
    BY <1>3, <2>1
  <2> QED BY <1>4, <2>1, <2>2
<1> QED BY <1>4, <1>5

\* A body within the ceiling is within it when the blank lines around it are gone.
LEMMA TrimmedCeiling ==
  ASSUME Weighs, ChunkTypeOK, NEW S \in SUBSET Position, BodyWithinCeiling(S),
         Trimmed(S) # {}
  PROVE  WithinCeiling(Trimmed(S))
<1> DEFINE T == Trimmed(S)
<1>1. /\ T \in SUBSET S /\ T \in SUBSET Position /\ S \in SUBSET Int
      /\ \A i \in S : ~Blank(content[i]) => i \in T
  <2>1. S \in SUBSET Int /\ \A i \in S : i <= i
    BY DEF Position
  <2> QED BY <2>1 DEF Trimmed
<1> HIDE DEF T
<1>2. HasFence(S) => HasFence(T)
  BY <1>1 DEF HasFence, FenceMarker, Blank
<1>3. HasTable(S) => HasTable(T)
  BY <1>1 DEF HasTable, TableOpen, MdRow, Blank
<1>4. CASE Tokens(S) <= MaxTokens
  <2>1. Tokens(T) \in Nat /\ Tokens(S) \in Nat /\ Tokens(T) <= Tokens(S) /\ MaxTokens \in Nat
    BY <1>1, TokensGrow, ChunkerAssumption
  <2> QED BY <1>4, <2>1 DEF WithinCeiling, T
<1>5. CASE \E i \in S : S = {i}
  <2>1. \E i \in T : T = {i}
    BY <1>1, <1>5 DEF T
  <2> QED BY <2>1 DEF WithinCeiling, T
<1>6. CASE HasFence(S)
  BY <1>2, <1>6 DEF WithinCeiling, T
<1>7. ASSUME HasTable(S), NEW last \in S, \A j \in S : j <= last,
             \A U \in SUBSET (S \ {last}) : Tokens(U) < TableLimit(U)
      PROVE  WithinCeiling(T)
  <2>1. Len(content) \in Nat /\ T \in SUBSET (1..Len(content)) /\ T # {}
    BY <1>1 DEF ChunkTypeOK, Position, T
  <2>2. PICK m \in T : \A j \in T : j <= m
    BY <2>1, GreatestElement
  <2>3. T \ {m} \in SUBSET (S \ {last})
    <3>1. last \in T => last = m
      <4>1. m \in Int /\ last \in Int /\ m <= last
        BY <1>1, <1>7
      <4> QED BY <2>2, <4>1
    <3> QED BY <1>1, <3>1
  <2>4. Tokens(T \ {m}) < TableLimit(T \ {m})
    BY <1>7, <2>3
  <2> QED BY <1>3, <1>7, <2>2, <2>4 DEF WithinCeiling
<1> QED BY <1>4, <1>5, <1>6, <1>7 DEF BodyWithinCeiling, T

\* A chunk is a body within the ceiling, trimmed.
LEMMA PushSizes ==
  ASSUME Weighs, TypeInv, SizesInv, PushChunk
  PROVE  SizesInv'
<1> DEFINE B == bodies[pushed + 1]
           trimmed == Trimmed(B)
           C == [lines : SUBSET Position, path : Seq(Position), tokens : Nat]
           chunk == [lines |-> trimmed, path |-> NextSection.path, tokens |-> Tokens(trimmed)]
<1>1. /\ stage = "pushing" /\ stage' = "pushing" /\ content' = content /\ bodies' = bodies
      /\ IF trimmed = {} THEN chunks' = chunks ELSE chunks' = Append(chunks, chunk)
  BY DEF PushChunk, cutVars
<1>2. /\ ChunkTypeOK /\ ChunkTypeOK' /\ Position' = Position
      /\ B \in SUBSET Position /\ BodyWithinCeiling(B)
  <2>1. ChunkTypeOK /\ ChunkTypeOK' /\ Position' = Position
    BY <1>1, PushTyped, SameContent DEF TypeInv, TypeOK, Weighs
  <2>2. pushed + 1 \in DOMAIN bodies /\ bodies \in Seq(SUBSET Position)
    <3>1. pushed \in Nat /\ bodies \in Seq(SUBSET Position) /\ pushed < Len(bodies)
      BY <2>1 DEF PushChunk, ChunkTypeOK
    <3> QED BY <3>1
  <2>3. B \in SUBSET Position
    BY <2>2, ElementOf
  <2> QED BY <1>1, <2>1, <2>2, <2>3 DEF SizesInv
<1>3. trimmed # {} => WithinCeiling(trimmed)
  <2> HIDE DEF B
  <2> QED BY <1>2, TrimmedCeiling
<1>4. \A c \in DOMAIN chunks' : WithinCeiling(chunks'[c].lines)
  <2>1. CASE trimmed = {}
    BY <1>1, <2>1 DEF SizesInv
  <2>2. CASE trimmed # {}
    <3>1. chunks \in Seq(C) /\ chunks' \in Seq(C) /\ chunk.lines = trimmed
      <4>1. chunks \in Seq(C)
        BY <1>2 DEF ChunkTypeOK
      <4>2. chunks' \in Seq(C)
        <5> HIDE DEF chunk, B, trimmed
        <5> QED BY <1>2 DEF ChunkTypeOK
      <4> HIDE DEF C, B, trimmed
      <4> QED BY <4>1, <4>2
    <3> HIDE DEF chunk, trimmed, C, B
    <3>2. chunks' = Append(chunks, chunk)
      BY <1>1, <2>2
    <3>3. chunk \in C
      <4>1. Len(chunks) + 1 \in DOMAIN chunks' /\ chunks'[Len(chunks) + 1] = chunk
        BY <3>1, <3>2
      <4> QED BY <3>1, <4>1, ElementOf
    <3> QED BY <1>3, <2>2, <3>1, <3>2, <3>3, AppendElements DEF SizesInv
  <2> QED BY <2>1, <2>2
<1>5. /\ \A c \in DOMAIN chunks' : WithinCeiling(chunks[c].lines)'
      /\ \A b \in DOMAIN bodies' : BodyWithinCeiling(bodies[b])'
  BY <1>1, <1>4, SameSizes DEF SizesInv
<1> QED BY <1>1, <1>5 DEF SizesInv

\* The sizes are right at first,
LEMMA SizesInit ==
  ASSUME Init
  PROVE  SizesInv
BY DEF Init, ChunkInit, SizesInv

\* and every step keeps them right.
LEMMA SizesStep ==
  ASSUME Weighs, Joins, TypeInv, DocumentInv, SizesInv, [Next]_vars
  PROVE  SizesInv'
<1>1. CASE Clean \/ StartChunking
  <2>1. chunks' = <<>> /\ stage' \notin {"cutting", "pushing"}
    BY <1>1 DEF Clean, StartChunking, ChunkMarkdown, ChunkInit, chunkVars, TypeInv, TypeOK,
                CleanNext, ReadFence, SkipLine, ReadTable, ReadFilename, ReadSwitch, ReadText,
                PastTables, PastSkipping, Reading, EndOfRaw
  <2> QED BY <2>1 DEF SizesInv
<1>2. CASE Chunk
  <2>1. CASE \/ ReadPage \/ ReadSection \/ ReadBody \/ EndOfContent
             \/ GroupSection \/ FinishGroups \/ SectionDone \/ Return
    <3>1. /\ content' = content /\ chunks' = chunks /\ stage' \notin {"cutting", "pushing"}
      BY <2>1 DEF ReadPage, ReadSection, ReadBody, ReadNext, EndOfContent, GroupSection,
                  FinishGroups, SectionDone, Return
    <3>2. \A c \in DOMAIN chunks' : WithinCeiling(chunks[c].lines)'
      BY <3>1, SameSizes DEF SizesInv
    <3> QED BY <3>1, <3>2 DEF SizesInv
  <2>2. CASE KeepWhole \/ BeginCut \/ EndCut
    BY <2>2, EndSizes
  <2>3. ASSUME NEW i \in rest, CutAtomicLine(i) \/ CutPlainLine(i)
        PROVE  SizesInv'
    BY <2>3, AtomicSizes, PlainSizes
  <2>4. CASE PushChunk
    BY <2>4, PushSizes
  <2> QED BY <1>2, <2>1, <2>2, <2>3, <2>4 DEF Chunk, ChunkNext
<1>3. CASE ParseFails
  BY <1>3 DEF ParseFails, SizesInv
<1>4. CASE UNCHANGED vars
  <2>1. /\ stage' = stage /\ content' = content /\ buffer' = buffer /\ bodies' = bodies
        /\ fence' = fence /\ table' = table /\ mdTable' = mdTable /\ chunks' = chunks
    BY <1>4 DEF vars, chunkVars, cutVars
  <2> QED BY <2>1, SameSizes DEF SizesInv
<1> QED BY <1>1, <1>2, <1>3, <1>4 DEF Next

\* If more lines are never fewer tokens, and joining lines costs no more than the newlines
\* between them, then a chunk above the maximum is one line, or holds a fence, or a table
\* that brought in no more than the bound: whatever the pages and the limits.
THEOREM CeilingsHold == Weighs /\ Joins => (Spec => []CeilingHolds)
<1> SUFFICES ASSUME Weighs, Joins
             PROVE  Spec => []CeilingHolds
  OBVIOUS
<1> DEFINE IInv == TypeInv /\ DocumentInv /\ SizesInv
<1>1. Init => IInv
  BY TypeInit, DocumentInvInit, SizesInit
<1>2. IInv /\ [Next]_vars => IInv'
  BY TypeStep, DocumentInvStep, SizesStep DEF Weighs
<1>3. IInv => CeilingHolds
  BY DEF SizesInv, CeilingHolds
<1> HIDE DEF IInv
<1> QED BY <1>1, <1>2, <1>3, PTL DEF Spec

-------------------------------------------------------------------------------
\* Induction: a set of naturals that holds with a number the one before it is empty.
LEMMA NoneIsFirst ==
  ASSUME NEW N \in Nat, NEW B \in SUBSET (0..N), \A m \in B : m # 0 /\ m - 1 \in B
  PROVE  B = {}
<1>1. SUFFICES ASSUME B # {}
               PROVE  FALSE
  OBVIOUS
<1>2. IsFiniteSet(B) /\ \A m \in B : m \in Int
  <2>1. B \in SUBSET (0..N) /\ IsFiniteSet(0..N)
    BY FS_Interval
  <2>2. IsFiniteSet(B)
    BY <2>1, FS_Subset
  <2> QED BY <2>2
<1>3. PICK n \in B : \A m \in B : n <= m
  BY <1>1, <1>2, LeastElement
<1>4. n - 1 \in B /\ ~(n <= n - 1)
  BY <1>2
<1> QED BY <1>3, <1>4

(***************************************************************************)
(* The tokens of lines, each counted by itself: a recursive sum exists,    *)
(* and grows with the lines.                                               *)
(***************************************************************************)
\* What is the sum of some lines up to the n-th.
Sums(f, S) ==
  /\ f[0] = 0
  /\ \A n \in Position : f[n] = f[n - 1] + (IF n \in S THEN Tokens({n}) ELSE 0)

LEMMA LineTokensSum ==
  ASSUME Tokenizes, ChunkTypeOK, NEW S
  PROVE  \E f \in [0..Len(content) -> Nat] : Sums(f, S) /\ LineTokens(S) = f[Len(content)]
<1> DEFINE N == Len(content)
           w(n) == IF n \in S THEN Tokens({n}) ELSE 0
           Partial(m) == \E g \in [0..m -> Nat] :
                            /\ g[0] = 0
                            /\ \A n \in 1..m : g[n] = g[n - 1] + w(n)
           None == {m \in 0..N : ~Partial(m)}
           next(g, n) == IF n = 0 THEN 0 ELSE g[n - 1] + w(n)
           sum[n \in 0..N] == IF n = 0 THEN 0 ELSE sum[n - 1] + w(n)
<1>1. N \in Nat /\ Position = 1..N
  BY DEF ChunkTypeOK, Position
<1>2. \A n \in 1..N : w(n) \in Nat
  BY <1>1, TokensTyped
<1>3. None = {}
  <2>1. SUFFICES ASSUME None # {}
                 PROVE  FALSE
    OBVIOUS
  <2>2. ASSUME NEW m \in None
        PROVE  m # 0 /\ m - 1 \in None
    <3>1. m \in 0..N /\ ~Partial(m)
      OBVIOUS
    <3>2. m # 0
      <4>1. [n \in 0..0 |-> 0] \in [0..0 -> Nat] /\ [n \in 0..0 |-> 0][0] = 0 /\ 1..0 = {}
        OBVIOUS
      <4>2. Partial(0)
        <5> HIDE DEF w
        <5> QED BY <4>1
      <4> HIDE DEF Partial
      <4> QED BY <3>1, <4>2
    <3>3. ASSUME Partial(m - 1)
          PROVE  FALSE
      <4>1. m - 1 \in 0..N /\ m \in 1..N
        BY <1>1, <3>1, <3>2
      <4>2. PICK g \in [0..(m - 1) -> Nat] :
               g[0] = 0 /\ \A n \in 1..(m - 1) : g[n] = g[n - 1] + w(n)
        <5> HIDE DEF w
        <5> QED BY <3>3
      <4> DEFINE h == [n \in 0..m |-> IF n = m THEN g[m - 1] + w(m) ELSE g[n]]
      <4>3. h \in [0..m -> Nat] /\ h[0] = 0
        <5>1. g[m - 1] \in Nat /\ w(m) \in Nat
          BY <1>2, <4>1
        <5>2. \A n \in 0..m : n = m \/ n \in 0..(m - 1)
          BY <4>1
        <5> HIDE DEF w
        <5> QED BY <3>2, <4>1, <4>2, <5>1, <5>2
      <4>4. \A n \in 1..m : h[n] = h[n - 1] + w(n)
        <5>1. \A n \in 1..m : /\ n \in 0..m /\ n - 1 \in 0..m /\ n - 1 # m
                              /\ n = m \/ n \in 1..(m - 1)
          BY <4>1
        <5> HIDE DEF w
        <5> QED BY <4>2, <5>1
      <4>5. Partial(m)
        <5> HIDE DEF w, h
        <5> QED BY <4>3, <4>4
      <4> QED BY <3>1, <4>5
    <3>4. m - 1 \in 0..N
      BY <1>1, <3>1, <3>2
    <3> HIDE DEF Partial
    <3> QED BY <3>2, <3>3, <3>4
  <2>3. None \in SUBSET (0..N)
    OBVIOUS
  <2> HIDE DEF None
  <2> QED BY <1>1, <2>1, <2>2, <2>3, NoneIsFirst
<1>4. PICK g \in [0..N -> Nat] : g[0] = 0 /\ \A n \in 1..N : g[n] = g[n - 1] + w(n)
  <2>1. Partial(N)
    <3> HIDE DEF Partial
    <3> QED BY <1>1, <1>3
  <2> HIDE DEF w
  <2> QED BY <2>1
<1>5. g = [n \in 0..N |-> next(g, n)]
  <2>1. \A n \in 0..N : n = 0 \/ n \in 1..N
    BY <1>1
  <2> HIDE DEF w
  <2> QED BY <1>4, <2>1
<1>6. sum = [n \in 0..N |-> next(sum, n)]
  <2> HIDE DEF w
  <2> QED BY <1>5 DEF sum
<1>7. Sums(sum, S)
  <2>1. \A n \in 0..N : sum[n] = next(sum, n)
    <3> HIDE DEF sum, next
    <3> QED BY <1>6
  <2>2. \A n \in 1..N : n \in 0..N /\ n # 0
    BY <1>1
  <2>3. 0 \in 0..N
    BY <1>1
  <2> HIDE DEF sum, w
  <2>4. \A n \in Position : sum[n] = sum[n - 1] + w(n)
    BY <1>1, <2>1, <2>2
  <2> QED BY <2>1, <2>3, <2>4 DEF Sums, w
<1>8. sum \in [0..N -> Nat]
  <2> DEFINE Bad == {n \in 0..N : sum[n] \notin Nat}
  <2>1. sum = [n \in 0..N |-> sum[n]]
    <3> HIDE DEF sum, next
    <3> QED BY <1>6
  <2>2. ASSUME NEW m \in Bad
        PROVE  m # 0 /\ m - 1 \in Bad
    <3> HIDE DEF sum, w
    <3>1. m \in 0..N /\ sum[m] \notin Nat
      OBVIOUS
    <3>2. m # 0
      BY <1>7, <3>1 DEF Sums
    <3>3. m \in 1..N /\ m - 1 \in 0..N
      BY <1>1, <3>1, <3>2
    <3>4. sum[m] = sum[m - 1] + w(m)
      BY <1>1, <1>7, <3>3 DEF Sums, w
    <3> QED BY <1>2, <3>1, <3>2, <3>3, <3>4
  <2>3. Bad = {}
    <3>1. Bad \in SUBSET (0..N)
      OBVIOUS
    <3> HIDE DEF Bad
    <3> QED BY <1>1, <2>2, <3>1, NoneIsFirst
  <2> HIDE DEF sum
  <2> QED BY <2>1, <2>3
<1>9. LineTokens(S) = sum[N]
  BY DEF LineTokens, sum
<1> HIDE DEF sum
<1> QED BY <1>7, <1>8, <1>9

\* More lines are not fewer tokens, and a line more adds its own.
LEMMA LineTokensGrow ==
  ASSUME Tokenizes, ChunkTypeOK, NEW S, NEW T, S \subseteq T
  PROVE  /\ LineTokens(S) \in Nat /\ LineTokens(T) \in Nat
         /\ LineTokens(S) <= LineTokens(T)
         /\ \A i \in Position : i \in T /\ i \notin S =>
               LineTokens(S) + Tokens({i}) <= LineTokens(T)
<1> DEFINE N == Len(content)
           w(n, U) == IF n \in U THEN Tokens({n}) ELSE 0
<1>1. N \in Nat /\ Position = 1..N /\ N \in 0..N
  BY DEF ChunkTypeOK, Position
<1>2. PICK f \in [0..N -> Nat] : Sums(f, S) /\ LineTokens(S) = f[N]
  BY LineTokensSum
<1>3. PICK g \in [0..N -> Nat] : Sums(g, T) /\ LineTokens(T) = g[N]
  BY LineTokensSum
<1>4. \A n \in 1..N : Tokens({n}) \in Nat
  BY <1>1, TokensTyped
<1>5. ASSUME NEW n \in 1..N
      PROVE  /\ n - 1 \in 0..N /\ n \in 0..N
             /\ f[n] \in Nat /\ g[n] \in Nat /\ f[n - 1] \in Nat /\ g[n - 1] \in Nat
             /\ f[n] = f[n - 1] + w(n, S) /\ g[n] = g[n - 1] + w(n, T)
             /\ w(n, S) \in Nat /\ w(n, T) \in Nat /\ w(n, S) <= w(n, T)
  <2>1. n - 1 \in 0..N /\ n \in 0..N
    BY <1>1
  <2>2. f[n] = f[n - 1] + w(n, S) /\ g[n] = g[n - 1] + w(n, T)
    BY <1>1, <1>2, <1>3 DEF Sums
  <2>3. w(n, S) \in Nat /\ w(n, T) \in Nat /\ w(n, S) <= w(n, T)
    BY <1>4
  <2> HIDE DEF w
  <2> QED BY <2>1, <2>2, <2>3
<1>6. f[0] = 0 /\ g[0] = 0
  BY <1>2, <1>3 DEF Sums
<1>7. \A n \in 0..N : f[n] <= g[n]
  <2> DEFINE Bad == {n \in 0..N : ~(f[n] <= g[n])}
  <2>1. ASSUME NEW m \in Bad
        PROVE  m # 0 /\ m - 1 \in Bad
    <3>1. m \in 0..N /\ ~(f[m] <= g[m]) /\ m # 0
      BY <1>6
    <3>2. m \in 1..N
      BY <1>1, <3>1
    <3> HIDE DEF w
    <3> QED BY <1>5, <3>1, <3>2
  <2>2. Bad = {}
    <3>1. Bad \in SUBSET (0..N)
      OBVIOUS
    <3> HIDE DEF Bad
    <3> QED BY <1>1, <2>1, <3>1, NoneIsFirst
  <2> QED BY <2>2
<1>8. ASSUME NEW i \in Position, i \in T, i \notin S
      PROVE  f[N] + Tokens({i}) <= g[N]
  <2> DEFINE Bad == {n \in 0..N : i <= n /\ ~(f[n] + Tokens({i}) <= g[n])}
  <2>1. i \in 1..N /\ Tokens({i}) \in Nat
    BY <1>1, <1>4
  <2>2. ASSUME NEW m \in Bad
        PROVE  m # 0 /\ m - 1 \in Bad
    <3>1. m \in 1..N /\ i <= m /\ ~(f[m] + Tokens({i}) <= g[m])
      BY <1>1, <2>1
    <3>2. m # i
      <4>1. w(i, S) = 0 /\ w(i, T) = Tokens({i})
        BY <1>8
      <4>2. f[i] = f[i - 1] + 0 /\ g[i] = g[i - 1] + Tokens({i}) /\ f[i - 1] <= g[i - 1]
        <5> HIDE DEF w
        <5> QED BY <1>5, <1>7, <2>1, <4>1
      <4>3. f[i - 1] \in Nat /\ g[i - 1] \in Nat
        BY <1>5, <2>1
      <4> QED BY <2>1, <3>1, <4>2, <4>3
    <3>3. i <= m - 1
      BY <2>1, <3>1, <3>2
    <3>4. /\ m - 1 \in 0..N
          /\ f[m] \in Nat /\ g[m] \in Nat /\ f[m - 1] \in Nat /\ g[m - 1] \in Nat
          /\ f[m] = f[m - 1] + w(m, S) /\ g[m] = g[m - 1] + w(m, T)
          /\ w(m, S) \in Nat /\ w(m, T) \in Nat /\ w(m, S) <= w(m, T)
      <4> HIDE DEF w
      <4> QED BY <1>5, <3>1
    <3> HIDE DEF w
    <3>5. ~(f[m - 1] + Tokens({i}) <= g[m - 1])
      BY <2>1, <3>1, <3>4
    <3> QED BY <3>1, <3>3, <3>4, <3>5
  <2>3. Bad = {}
    <3>1. Bad \in SUBSET (0..N)
      OBVIOUS
    <3> HIDE DEF Bad
    <3> QED BY <1>1, <2>2, <3>1, NoneIsFirst
  <2>4. i <= N
    BY <1>1, <2>1
  <2> QED BY <1>1, <2>3, <2>4
<1>9. f[N] \in Nat /\ g[N] \in Nat /\ f[N] <= g[N]
  BY <1>1, <1>7
<1> QED BY <1>2, <1>3, <1>8, <1>9

-------------------------------------------------------------------------------
(***************************************************************************)
(* The trackers: what they say of a line they say of the next one too,     *)
(* once they have consumed it.                                             *)
(***************************************************************************)

\* A marker is counted, and nothing else is.
LEMMA TopFencesGrow ==
  ASSUME NEW s, NEW k \in Nat, k > 0
  PROVE  /\ TopFences(s, 0) = 0 /\ TopFences(s, k - 1) \in Nat /\ TopFences(s, k) \in Nat
         /\ TopFences(s, k) = TopFences(s, k - 1) + (IF TopFence(s[k]) THEN 1 ELSE 0)
         /\ \A j \in 0..(k - 1) : TopFences(s, j) \in Nat /\ TopFences(s, j) <= TopFences(s, k - 1)
<1> DEFINE upTo(n) == {j \in 1..n : TopFence(s[j])}
<1>1. \A n \in Nat : IsFiniteSet(upTo(n)) /\ Cardinality(upTo(n)) \in Nat
  <2> SUFFICES ASSUME NEW n \in Nat
               PROVE  IsFiniteSet(upTo(n)) /\ Cardinality(upTo(n)) \in Nat
    OBVIOUS
  <2>1. upTo(n) \in SUBSET (1..n) /\ IsFiniteSet(1..n)
    BY FS_Interval
  <2> HIDE DEF upTo
  <2> QED BY <2>1, FS_Subset, FS_CardinalityType
<1>2. \A n : TopFences(s, n) = Cardinality(upTo(n))
  BY DEF TopFences
<1>3. upTo(k) = IF TopFence(s[k]) THEN upTo(k - 1) \cup {k} ELSE upTo(k - 1)
  <2>1. 1..k = (1..(k - 1)) \cup {k}
    OBVIOUS
  <2> QED BY <2>1
<1>4. k \notin upTo(k - 1) /\ k - 1 \in Nat
  OBVIOUS
<1>5. \A j \in 0..(k - 1) : j \in Nat /\ upTo(j) \in SUBSET upTo(k - 1)
  <2>1. \A j \in 0..(k - 1) : j \in Nat /\ \A m \in 1..j : m \in 1..(k - 1)
    OBVIOUS
  <2> QED BY <2>1
<1>6. upTo(0) = {}
  OBVIOUS
<1> HIDE DEF upTo
<1>7. TopFences(s, 0) = 0
  BY <1>2, <1>6, FS_EmptySet
<1>8. TopFences(s, k) = TopFences(s, k - 1) + (IF TopFence(s[k]) THEN 1 ELSE 0)
  <2>1. Cardinality(upTo(k - 1) \cup {k}) = Cardinality(upTo(k - 1)) + 1
    BY <1>1, <1>4, FS_AddElement
  <2> QED BY <1>1, <1>2, <1>3, <1>4, <2>1
<1>9. \A j \in 0..(k - 1) : TopFences(s, j) \in Nat /\ TopFences(s, j) <= TopFences(s, k - 1)
  BY <1>1, <1>2, <1>4, <1>5, FS_Subset
<1> QED BY <1>1, <1>2, <1>4, <1>7, <1>8, <1>9

\* The count of the markers is odd within a fence.
LEMMA FencedNext ==
  ASSUME NEW i \in Nat, i > 0
  PROVE  /\ ~Fenced(0)
         /\ Fenced(i) <=> (Fenced(i - 1) <=> ~TopFence(content[i]))
<1>1. /\ TopFences(content, 0) = 0 /\ TopFences(content, i - 1) \in Nat
      /\ TopFences(content, i) = TopFences(content, i - 1)
                                   + (IF TopFence(content[i]) THEN 1 ELSE 0)
  BY TopFencesGrow
<1>2. CASE TopFence(content[i])
  BY <1>1, <1>2 DEF Fenced
<1>3. CASE ~TopFence(content[i])
  BY <1>1, <1>3 DEF Fenced
<1> QED BY <1>2, <1>3

Trackers == [inside : BOOLEAN, depth : Nat]

\* A fence of the page is open behind a line as in the count of the markers.
LEMMA TopInNext ==
  ASSUME NEW f \in Trackers, NEW l \in Line
  PROVE  /\ FenceAfter(f, l) \in Trackers
         /\ TopIn(FenceAfter(f, l)) <=> (TopIn(f) <=> ~TopFence(l))
         /\ ~FenceMarker(l) /\ f.inside /\ l.depth >= f.depth =>
               FenceAfter(f, l).inside /\ FenceAfter(f, l).depth = f.depth
         /\ ~FenceMarker(l) /\ FenceAfter(f, l).inside =>
               f.inside /\ l.depth >= f.depth /\ FenceAfter(f, l).depth = f.depth
         /\ FenceMarker(l) /\ f.inside /\ l.depth = f.depth => ~FenceAfter(f, l).inside
<1>1. l.depth \in Nat /\ f.depth \in Nat /\ f.inside \in BOOLEAN
  BY DEF Trackers, Line
<1>2. CASE ~FenceMarker(l)
  <2>1. ~TopFence(l)
    BY <1>2 DEF FenceMarker, TopFence
  <2>2. /\ FenceAfter(f, l) = [f EXCEPT !.inside = f.inside /\ ~(l.depth < f.depth)]
    BY <1>2 DEF FenceAfter
  <2>3. /\ FenceAfter(f, l).inside <=> f.inside /\ ~(l.depth < f.depth)
        /\ FenceAfter(f, l).depth = f.depth
        /\ FenceAfter(f, l) \in Trackers
    BY <1>1, <2>2 DEF Trackers
  <2> QED BY <1>1, <1>2, <2>1, <2>3 DEF TopIn
<1>3. CASE FenceMarker(l) /\ ~(f.inside /\ ~(l.depth < f.depth))
  <2>1. FenceAfter(f, l) = [inside |-> TRUE, depth |-> l.depth]
    BY <1>3 DEF FenceAfter
  <2>2. TopFence(l) <=> l.depth = 0
    BY <1>3 DEF FenceMarker, TopFence
  <2>3. ~TopIn(f)
    BY <1>1, <1>3 DEF TopIn
  <2> QED BY <1>1, <1>3, <2>1, <2>2, <2>3 DEF TopIn, Trackers
<1>4. CASE FenceMarker(l) /\ f.inside /\ ~(l.depth < f.depth)
  <2>1. FenceAfter(f, l) = [f EXCEPT !.inside = (l.depth # f.depth)]
    BY <1>4 DEF FenceAfter
  <2>2. TopFence(l) <=> l.depth = 0
    BY <1>4 DEF FenceMarker, TopFence
  <2>3. /\ FenceAfter(f, l).inside <=> l.depth # f.depth
        /\ FenceAfter(f, l).depth = f.depth
        /\ FenceAfter(f, l) \in Trackers
    BY <1>1, <2>1 DEF Trackers
  <2> QED BY <1>1, <1>4, <2>2, <2>3 DEF TopIn
<1> QED BY <1>2, <1>3, <1>4

\* The lines of the content.
LEMMA ContentLines ==
  ASSUME ChunkTypeOK
  PROVE  /\ Len(content) \in Nat /\ Position = 1..Len(content) /\ DOMAIN content = Position
         /\ \A k \in Position : /\ content[k] \in Line /\ content[k].depth \in Nat
                                 /\ k \in Nat /\ k > 0
<1>1. /\ Len(content) \in Nat /\ Position = 1..Len(content) /\ DOMAIN content = Position
      /\ \A k \in Position : content[k] \in Line
  BY DEF ChunkTypeOK, Position
<1>2. \A l \in Line : l.depth \in Nat
  BY DEF Line
<1> QED BY <1>1, <1>2

\* The markers among some lines.
LEMMA MarkersFinite ==
  ASSUME NEW s, NEW i \in Int, NEW j \in Int
  PROVE  IsFiniteSet(Markers(s, i, j)) /\ Cardinality(Markers(s, i, j)) \in Nat
<1>1. Markers(s, i, j) \in SUBSET (i..j)
  BY DEF Markers
<1>2. IsFiniteSet(i..j)
  BY FS_Interval
<1> QED BY <1>1, <1>2, FS_Subset, FS_CardinalityType

\* A pair of markers has no other between them, and its first is not the second of
\* another: the markers of the quote before it are even in number.
LEMMA PairsApart ==
  ASSUME ChunkTypeOK, NEW x \in Position, NEW n \in Position, QuotePair(x, n)
  PROVE  /\ x < n /\ content[x].depth > 0 /\ FenceMarker(content[x]) /\ FenceMarker(content[n])
         /\ content[n].depth = content[x].depth
         /\ \A k \in Position : x < k /\ k < n =>
               ~FenceMarker(content[k]) /\ content[k].depth >= content[x].depth
         /\ \A m \in Position : ~QuotePair(m, x)
<1>1. /\ Position = 1..Len(content) /\ Len(content) \in Nat
      /\ \A k \in Position : content[k] \in Line /\ content[k].depth \in Nat
  BY ContentLines
<1>2. PICK p \in 1..x : QuotedPair(content, p, x, n)
  BY DEF QuotePair
<1>3. ASSUME NEW k \in Position, x < k, k < n
      PROVE  ~FenceMarker(content[k]) /\ content[k].depth >= content[x].depth
  <2>1. k \in (x + 1)..(n - 1) /\ k \in p..n
    BY <1>1, <1>2, <1>3
  <2> QED BY <1>2, <2>1 DEF QuotedPair, Markers
<1>4. ASSUME NEW m \in Position, QuotePair(m, x)
      PROVE  FALSE
  <2>1. PICK q \in 1..m : QuotedPair(content, q, m, x)
    BY <1>4 DEF QuotePair
  <2>2. /\ q <= m /\ m < x /\ p <= x /\ x < n /\ content[m].depth = content[x].depth
        /\ \A k \in q..x : content[k].depth >= content[m].depth
        /\ \A k \in p..n : content[k].depth >= content[x].depth
        /\ p = 1 \/ content[p - 1].depth < content[x].depth
        /\ q = 1 \/ content[q - 1].depth < content[m].depth
    BY <1>2, <2>1 DEF QuotedPair
  <2>3. p = q
    <3>1. ~(p < q)
      <4>1. p < q => q # 1 /\ q - 1 \in p..n /\ q - 1 \in Position
        BY <1>1, <2>2
      <4> QED BY <1>1, <2>2, <4>1
    <3>2. ~(q < p)
      <4>1. q < p => p # 1 /\ p - 1 \in q..x /\ p - 1 \in Position
        BY <1>1, <2>2
      <4> QED BY <1>1, <2>2, <4>1
    <3> QED BY <3>1, <3>2
  <2> DEFINE before == Markers(content, q, m - 1)
  <2>4. Markers(content, q, x - 1) = before \cup {m} /\ m \notin before
    <3>1. \A k \in q..(x - 1) : k \in q..(m - 1) \/ k = m \/ k \in (m + 1)..(x - 1)
      BY <1>1, <2>2
    <3>2. /\ m \in q..(x - 1) /\ m \notin q..(m - 1)
          /\ \A k \in q..(m - 1) : k \in q..(x - 1)
      BY <1>1, <2>2
    <3>3. FenceMarker(content[m]) /\ Markers(content, m + 1, x - 1) = {}
      BY <2>1 DEF QuotedPair
    <3> QED BY <3>1, <3>2, <3>3 DEF Markers
  <2>5. IsFiniteSet(before) /\ Cardinality(before) \in Nat
    BY <1>1, MarkersFinite
  <2>6. Cardinality(before) % 2 = 0 /\ Cardinality(Markers(content, q, x - 1)) % 2 = 0
    BY <1>2, <2>1, <2>3 DEF QuotedPair
  <2> HIDE DEF before
  <2>7. Cardinality(Markers(content, q, x - 1)) = Cardinality(before) + 1
    BY <2>4, <2>5, FS_AddElement
  <2> QED BY <2>5, <2>6, <2>7
<1> QED BY <1>2, <1>3, <1>4 DEF QuotedPair

\* A quote reaches on over a heading, a blank line, and a line that is as deep.
LEMMA ReachesOn ==
  ASSUME NEW i \in Nat, NEW m \in 1..(i - 1), Reaches(m, i - 1),
         Blank(content[i]) \/ Heading(content[i]) \/ content[i].depth >= content[m].depth
  PROVE  Reaches(m, i)
<1>1. \A k \in (m + 1)..i : k = i \/ k \in (m + 1)..(i - 1)
  OBVIOUS
<1> QED BY <1>1 DEF Reaches

\* The fence tracker consumes a line.
LEMMA FenceConsumes ==
  ASSUME ChunkTypeOK, NEW i \in Position, NEW f \in Trackers, FenceSays(i, f)
  PROVE  FenceSays(i + 1, FenceAfter(f, content[i]))
<1> DEFINE l == content[i]
           g == FenceAfter(f, l)
           stays == f.inside /\ ~(l.depth < f.depth)
<1>1. /\ Position = 1..Len(content) /\ Len(content) \in Nat /\ i \in Nat /\ i > 0
      /\ l \in Line /\ l.depth \in Nat
      /\ \A k \in Position : content[k].depth \in Nat
  BY ContentLines
<1>2. /\ f.inside \in BOOLEAN /\ f.depth \in Nat /\ g.inside \in BOOLEAN /\ g.depth \in Nat
      /\ TopIn(g) <=> (TopIn(f) <=> ~TopFence(l))
      /\ ~FenceMarker(l) /\ f.inside /\ l.depth >= f.depth => g.inside /\ g.depth = f.depth
      /\ ~FenceMarker(l) /\ g.inside =>
            f.inside /\ l.depth >= f.depth /\ g.depth = f.depth
      /\ FenceMarker(l) /\ f.inside /\ l.depth = f.depth => ~g.inside
  BY <1>1, TopInNext DEF Trackers
<1>3. /\ TopIn(f) <=> Fenced(i - 1)
      /\ f.inside /\ f.depth > 0 => QuoteOpen(i, f)
      /\ \A x, n \in Position : QuotePair(x, n) /\ Quiet(x) /\ x < i /\ i <= n =>
            f.inside /\ f.depth = content[x].depth
  BY DEF FenceSays
<1>4. (TopIn(g) <=> Fenced(i)) /\ (i + 1) - 1 = i
  BY <1>1, <1>2, <1>3, FencedNext
<1>5. /\ stays => g.depth = f.depth
      /\ FenceMarker(l) /\ ~stays => g = [inside |-> TRUE, depth |-> l.depth]
  BY <1>2 DEF FenceAfter, Trackers
<1>6. \A k : FenceMarker(content[k]) => ~Blank(content[k]) /\ ~Heading(content[k])
  BY DEF FenceMarker, Blank, Heading, PageHeading, SectionHeading
<1> HIDE DEF g, l
<1>7. ASSUME g.inside, g.depth > 0
      PROVE  QuoteOpen(i + 1, g)
  <2>1. CASE stays
    <3>1. g.depth = f.depth /\ (FenceMarker(l) => l.depth # f.depth) /\ l.depth >= f.depth
      BY <1>1, <1>2, <1>5, <1>7, <2>1
    <3>2. QuoteOpen(i, f)
      BY <1>3, <1>7, <2>1, <3>1
    <3>3. ASSUME NEW x \in Position, NEW n \in Position, QuotePair(x, n), x < i, i <= n,
                 f.depth = content[x].depth
          PROVE  QuoteOpen(i + 1, g)
      <4>1. i # n
        BY <3>1, <3>3, PairsApart DEF l
      <4>2. x < i + 1 /\ i + 1 <= n
        BY <1>1, <3>3, <4>1
      <4> QED BY <3>1, <3>3, <4>2 DEF QuoteOpen
    <3>4. ASSUME NEW m \in 1..(i - 1), Loose(m), Reaches(m, i - 1),
                 content[m].depth <= f.depth
          PROVE  QuoteOpen(i + 1, g)
      <4>1. m \in Position /\ m \in 1..((i + 1) - 1)
        BY <1>1
      <4>2. content[i].depth >= content[m].depth
        BY <1>1, <1>2, <3>1, <3>4, <4>1 DEF l
      <4>3. Reaches(m, (i + 1) - 1)
        BY <1>1, <1>4, <3>4, <4>2, ReachesOn
      <4> QED BY <3>1, <3>4, <4>1, <4>3 DEF QuoteOpen
    <3> QED BY <3>2, <3>3, <3>4 DEF QuoteOpen
  <2>2. CASE ~stays
    <3>1. FenceMarker(l) /\ g.depth = l.depth
      BY <1>1, <1>2, <1>5, <1>7, <2>2
    <3>2. ~Fenced(i) /\ l.depth > 0
      BY <1>4, <1>7, <3>1 DEF TopIn
    <3>3. CASE Loose(i)
      <4>1. i \in 1..((i + 1) - 1) /\ (i + 1)..((i + 1) - 1) = {}
        BY <1>1
      <4>2. Reaches(i, (i + 1) - 1) /\ content[i].depth <= g.depth
        BY <1>1, <3>1, <4>1 DEF Reaches, l
      <4> QED BY <3>3, <4>1, <4>2 DEF QuoteOpen
    <3>4. ASSUME NEW n \in Position, QuotePair(i, n)
          PROVE  QuoteOpen(i + 1, g)
      <4>1. i < i + 1 /\ i + 1 <= n
        BY <1>1, <3>4, PairsApart
      <4> QED BY <3>1, <3>4, <4>1 DEF QuoteOpen, l
    <3>5. ASSUME NEW n \in Position, QuotePair(n, i)
          PROVE  QuoteOpen(i + 1, g)
      <4>1. /\ n < i /\ content[n].depth = l.depth /\ FenceMarker(content[n])
            /\ \A k \in Position : n < k /\ k < i => content[k].depth >= content[n].depth
        BY <3>5, PairsApart DEF l
      <4>2. ~Quiet(n)
        <5>1. Quiet(n) => f.inside /\ f.depth = l.depth
          BY <1>1, <1>3, <3>5, <4>1
        <5> QED BY <1>1, <2>2, <5>1
      <4>3. PICK m \in 1..(n - 1) : Loose(m) /\ Reaches(m, n)
        BY <4>2 DEF Quiet
      <4>4. m \in Position /\ n \in (m + 1)..n /\ m \in 1..((i + 1) - 1)
        BY <1>1, <4>1
      <4>5. content[n].depth >= content[m].depth
        BY <1>6, <4>1, <4>3, <4>4 DEF Reaches
      <4>6. ASSUME NEW k \in (m + 1)..i
            PROVE  Blank(content[k]) \/ Heading(content[k])
                      \/ content[k].depth >= content[m].depth
        <5>1. k \in Position /\ (k \in (m + 1)..n \/ (n < k /\ k < i) \/ k = i)
          BY <1>1, <4>4
        <5>2. n < k /\ k <= i => content[k].depth >= content[n].depth
          BY <1>1, <4>1, <5>1 DEF l
        <5>3. n < k /\ k <= i => content[k].depth >= content[m].depth
          BY <1>1, <4>4, <4>5, <5>1, <5>2
        <5> QED BY <1>1, <4>1, <4>3, <5>1, <5>3 DEF Reaches
      <4>7. Reaches(m, (i + 1) - 1)
        BY <1>4, <4>6 DEF Reaches
      <4> QED BY <3>1, <4>1, <4>3, <4>4, <4>5, <4>7 DEF QuoteOpen
    <3> QED BY <3>1, <3>2, <3>3, <3>4, <3>5 DEF Loose, l
  <2> QED BY <2>1, <2>2
<1>8. ASSUME NEW x \in Position, NEW n \in Position,
             QuotePair(x, n), Quiet(x), x < i + 1, i + 1 <= n
      PROVE  g.inside /\ g.depth = content[x].depth
  <2>1. x \in Nat /\ n \in Nat /\ i < n /\ content[x].depth > 0
    BY <1>1, <1>8, PairsApart
  <2>2. CASE x < i
    <3>1. f.inside /\ f.depth = content[x].depth
      BY <1>1, <1>3, <1>8, <2>1, <2>2
    <3>2. ~FenceMarker(l) /\ l.depth >= content[x].depth
      BY <1>8, <2>1, <2>2, PairsApart DEF l
    <3> QED BY <1>2, <3>1, <3>2
  <2>3. CASE x = i
    <3>1. FenceMarker(l) /\ l.depth > 0 /\ ~Fenced(i)
      BY <1>8, <2>3, PairsApart DEF QuotePair, l
    <3>2. ~Fenced(i - 1)
      <4>1. ~TopFence(l)
        BY <1>1, <3>1 DEF TopFence
      <4> QED BY <1>1, <3>1, <4>1, FencedNext DEF l
    <3>3. ~stays
      <4>1. SUFFICES ASSUME f.inside, ~(l.depth < f.depth)
                     PROVE  FALSE
        OBVIOUS
      <4>2. QuoteOpen(i, f)
        BY <1>2, <1>3, <3>2, <4>1 DEF TopIn
      <4>3. ASSUME NEW y \in Position, NEW m \in Position, QuotePair(y, m), y < i, i <= m
            PROVE  FALSE
        <5>1. m = i
          <6>1. ~(i < m)
            BY <3>1, <4>3, PairsApart DEF l
          <6> QED BY <1>1, <4>3, <6>1
        <5> QED BY <1>8, <2>3, <4>3, <5>1, PairsApart
      <4>4. ASSUME NEW m \in 1..(i - 1), Loose(m), Reaches(m, i - 1),
                   content[m].depth <= f.depth
            PROVE  FALSE
        <5>1. m \in Position
          BY <1>1
        <5>2. content[i].depth >= content[m].depth
          BY <1>1, <1>2, <4>1, <4>4, <5>1 DEF l
        <5>3. Reaches(m, i)
          BY <1>1, <4>4, <5>2, ReachesOn
        <5> QED BY <1>8, <2>3, <4>4, <5>3 DEF Quiet
      <4> QED BY <4>2, <4>3, <4>4 DEF QuoteOpen
    <3>4. g = [inside |-> TRUE, depth |-> l.depth]
      BY <1>5, <3>1, <3>3
    <3> QED BY <2>3, <3>4 DEF l
  <2> QED BY <1>1, <1>8, <2>1, <2>2, <2>3
<1>9. \A x, n \in Position : QuotePair(x, n) /\ Quiet(x) /\ x < i + 1 /\ i + 1 <= n =>
         g.inside /\ g.depth = content[x].depth
  BY <1>8
<1>10. FenceSays(i + 1, g)
  BY <1>4, <1>7, <1>9 DEF FenceSays
<1> QED BY <1>10 DEF g, l

TableTrackers == [inside : BOOLEAN, depth : Nat, tokens : Nat]
RowTrackers   == [inside : BOOLEAN, tokens : Nat]

\* What a tag table and a row say of the lines they consist of.
LEMMA TagTableLines ==
  ASSUME ChunkTypeOK, NEW q \in Position, NEW r \in Position, TagTable(q, r),
         NEW i \in Position, q <= i, i <= r
  PROVE  /\ i < r => ~TableClose(content[i])
         /\ ~TopFence(content[i]) /\ ~Heading(content[i])
         /\ content[i].depth >= content[q].depth
         /\ FenceMarker(content[i]) => content[q].depth = 0
<1>1. /\ Position = 1..Len(content) /\ Len(content) \in Nat
  BY ContentLines
<1>2. i \in q..r /\ (i < r => i \in q..(r - 1))
  BY <1>1
<1> QED BY <1>2 DEF TagTable

\* The tokens of a table up to some line are within the bound.
LEMMA TagTableTokens ==
  ASSUME Tokenizes, ChunkTypeOK,
         NEW q \in Position, NEW r \in Position, TagTable(q, r),
         NEW i \in Position, q <= i, i <= r
  PROVE  /\ LineTokens(q..(i - 1)) \in Nat /\ LineTokens(q..i) \in Nat
         /\ LineTokens(q..i) <= TableBound
         /\ Tokens({i}) \in Nat
         /\ LineTokens(q..(i - 1)) + Tokens({i}) <= LineTokens(q..i)
<1>1. /\ Position = 1..Len(content) /\ Len(content) \in Nat
  BY ContentLines
<1>2. q..(i - 1) \subseteq q..i /\ q..i \subseteq q..r
  BY <1>1
<1>3. i \in q..i /\ i \notin q..(i - 1)
  BY <1>1
<1>4. /\ LineTokens(q..(i - 1)) \in Nat /\ LineTokens(q..i) \in Nat
      /\ LineTokens(q..(i - 1)) + Tokens({i}) <= LineTokens(q..i)
  BY <1>2, <1>3, LineTokensGrow
<1>5. LineTokens(q..r) \in Nat /\ LineTokens(q..i) <= LineTokens(q..r)
  BY <1>2, LineTokensGrow
<1>6. LineTokens(q..r) <= TableBound /\ TableBound \in Nat
  BY ChunkerAssumption DEF TagTable
<1>7. Tokens({i}) \in Nat
  BY TokensTyped
<1> QED BY <1>4, <1>5, <1>6, <1>7

\* An open table stays open on a line.
TableStays(t, l) == t.inside /\ ~(l.depth < t.depth) /\ ~PastBound(t)

\* The tracker of HTML tables, in fields.
LEMMA TableFields ==
  ASSUME NEW t \in TableTrackers, NEW l, NEW n \in Nat, NEW may \in BOOLEAN
  PROVE  LET stays == TableStays(t, l)
             o     == TableOpened(t, l, may)
             u     == TableAfter(t, l, n, may)
         IN  /\ o.inside <=> stays \/ (may /\ TableOpen(l))
             /\ u.inside <=> o.inside /\ ~TableClose(l)
             /\ stays => u.depth = t.depth /\ u.tokens = t.tokens + n
             /\ ~stays /\ may /\ TableOpen(l) => u.depth = l.depth /\ u.tokens = n
<1> DEFINE stays == TableStays(t, l)
           o     == TableOpened(t, l, may)
           u     == TableAfter(t, l, n, may)
<1>1. t.inside \in BOOLEAN /\ t.tokens \in Nat
  BY DEF TableTrackers
<1>2. CASE ~stays /\ may /\ TableOpen(l)
  <2>1. o = [inside |-> TRUE, depth |-> l.depth, tokens |-> 0]
    BY <1>2 DEF TableOpened, TableStays
  <2>2. u = [o EXCEPT !.tokens = @ + n, !.inside = ~TableClose(l)]
    BY <2>1 DEF TableAfter
  <2>3. u.inside = ~TableClose(l) /\ u.depth = l.depth /\ u.tokens = n /\ o.inside
    <3>1. 0 + n = n
      OBVIOUS
    <3> HIDE DEF o, u
    <3> QED BY <2>1, <2>2, <3>1
  <2> QED BY <1>2, <2>3
<1>3. CASE ~(~stays /\ may /\ TableOpen(l))
  <2>1. o = [t EXCEPT !.inside = stays]
    BY <1>3 DEF TableOpened, TableStays
  <2>2. /\ o.inside = stays
        /\ stays => o.depth = t.depth /\ o.tokens = t.tokens
    BY <1>1, <2>1 DEF TableTrackers, TableStays
  <2>3. CASE stays
    <3>1. u = [o EXCEPT !.tokens = @ + n, !.inside = ~TableClose(l)]
      BY <2>2, <2>3 DEF TableAfter
    <3>2. o = [inside |-> TRUE, depth |-> t.depth, tokens |-> t.tokens]
      BY <2>1, <2>3 DEF TableTrackers, TableStays
    <3>3. u.inside = ~TableClose(l) /\ u.depth = t.depth /\ u.tokens = t.tokens + n
      <4> HIDE DEF o, u, stays
      <4> QED BY <3>1, <3>2
    <3> QED BY <1>3, <2>2, <2>3, <3>3
  <2>4. CASE ~stays
    <3>1. u = o
      BY <2>2, <2>4 DEF TableAfter
    <3> QED BY <1>3, <2>2, <2>4, <3>1
  <2> QED BY <2>3, <2>4
<1> QED BY <1>2, <1>3

\* The tracker of pipe tables, in fields.
LEMMA RowFields ==
  ASSUME NEW t \in RowTrackers, NEW l, NEW n \in Nat, NEW may \in BOOLEAN
  PROVE  LET stays == t.inside /\ ~PastBound(t)
             o     == RowsOpened(t, l, may)
             u     == RowsAfter(t, l, n, may)
         IN  /\ o.inside <=> MdRow(l) /\ (stays \/ may)
             /\ u.inside <=> o.inside
             /\ stays /\ u.inside => u.tokens = t.tokens + n
             /\ ~stays /\ u.inside => u.tokens = n
<1> DEFINE stays == t.inside /\ ~PastBound(t)
           o     == RowsOpened(t, l, may)
           u     == RowsAfter(t, l, n, may)
<1>1. t.inside \in BOOLEAN /\ t.tokens \in Nat /\ MdRow(l) \in BOOLEAN
  BY DEF RowTrackers, MdRow
<1>2. CASE ~stays /\ may /\ MdRow(l)
  <2>1. o = [inside |-> TRUE, tokens |-> 0]
    BY <1>2 DEF RowsOpened
  <2>2. u = [o EXCEPT !.tokens = @ + n]
    BY <2>1 DEF RowsAfter
  <2>3. u.inside /\ u.tokens = n /\ o.inside
    <3>1. 0 + n = n
      OBVIOUS
    <3> HIDE DEF o, u
    <3> QED BY <2>1, <2>2, <3>1
  <2> QED BY <1>2, <2>3
<1>3. CASE ~(~stays /\ may /\ MdRow(l))
  <2>1. o = [t EXCEPT !.inside = stays /\ MdRow(l)]
    BY <1>3 DEF RowsOpened
  <2>2. o.inside = (stays /\ MdRow(l)) /\ o.tokens = t.tokens
    BY <1>1, <2>1 DEF RowTrackers
  <2>3. u = IF o.inside THEN [o EXCEPT !.tokens = @ + n] ELSE o
    BY DEF RowsAfter
  <2>4. o \in RowTrackers
    BY <1>1, <2>1 DEF RowTrackers
  <2>5. u.inside = o.inside /\ (o.inside => u.tokens = o.tokens + n)
    <3> HIDE DEF o, u
    <3> QED BY <2>3, <2>4 DEF RowTrackers
  <2> QED BY <1>1, <1>3, <2>2, <2>5
<1> QED BY <1>2, <1>3

\* The table tracker consumes a line.
LEMMA TableConsumes ==
  ASSUME Tokenizes, ChunkTypeOK, NEW i \in Position,
         NEW f \in Trackers, NEW t \in TableTrackers, NEW may \in BOOLEAN,
         FenceSays(i, f), TableSays(i, f, t),
         may /\ TableOpen(content[i]) <=>
            ~FenceAfter(f, content[i]).inside /\ ~t.inside /\ TableOpen(content[i])
  PROVE  TableSays(i + 1, FenceAfter(f, content[i]),
                   TableAfter(t, content[i], Tokens({i}), may))
<1> DEFINE l == content[i]
           g == FenceAfter(f, l)
           n == Tokens({i})
           u == TableAfter(t, l, n, may)
           stays == TableStays(t, l)
<1>1. /\ Position = 1..Len(content) /\ Len(content) \in Nat /\ i \in Nat /\ i > 0
      /\ l \in Line /\ l.depth \in Nat
  BY ContentLines
<1>2. /\ f.inside \in BOOLEAN /\ f.depth \in Nat /\ g.inside \in BOOLEAN /\ g.depth \in Nat
      /\ ~FenceMarker(l) /\ f.inside /\ l.depth >= f.depth => g.inside /\ g.depth = f.depth
      /\ ~FenceMarker(l) /\ g.inside =>
            f.inside /\ l.depth >= f.depth /\ g.depth = f.depth
  BY <1>1, TopInNext DEF Trackers
<1>3. TopIn(g) <=> Fenced(i)
  <2>1. FenceSays(i + 1, g)
    BY FenceConsumes
  <2>2. (i + 1) - 1 = i
    BY <1>1
  <2> QED BY <2>1, <2>2 DEF FenceSays
<1>4. /\ n \in Nat /\ t.inside \in BOOLEAN /\ t.depth \in Nat /\ t.tokens \in Nat
      /\ TableBound \in Nat
  BY TokensTyped, ChunkerAssumption DEF TableTrackers
<1>5. /\ u.inside <=> (stays \/ (may /\ TableOpen(l))) /\ ~TableClose(l)
      /\ stays => u.depth = t.depth /\ u.tokens = t.tokens + n
      /\ ~stays /\ may /\ TableOpen(l) => u.depth = l.depth /\ u.tokens = n
  <2> DEFINE o == TableOpened(t, l, may)
  <2>1. /\ o.inside <=> stays \/ (may /\ TableOpen(l))
        /\ u.inside <=> o.inside /\ ~TableClose(l)
        /\ stays => u.depth = t.depth /\ u.tokens = t.tokens + n
        /\ ~stays /\ may /\ TableOpen(l) => u.depth = l.depth /\ u.tokens = n
    <3>1. \A nn \in Nat, mm \in BOOLEAN :
            LET st == TableStays(t, l)
                oo == TableOpened(t, l, mm)
                uu == TableAfter(t, l, nn, mm)
            IN  /\ oo.inside <=> st \/ (mm /\ TableOpen(l))
                /\ uu.inside <=> oo.inside /\ ~TableClose(l)
                /\ st => uu.depth = t.depth /\ uu.tokens = t.tokens + nn
                /\ ~st /\ mm /\ TableOpen(l) => uu.depth = l.depth /\ uu.tokens = nn
      <4> HIDE DEF n, l
      <4> QED BY TableFields
    <3> HIDE DEF n, l
    <3> QED BY <1>4, <3>1
  <2> HIDE DEF o, u, stays
  <2> QED BY <2>1
<1>6. /\ t.inside => TagOpenBefore(i)
      /\ \A q, r \in Position : TagTable(q, r) /\ q < i /\ i <= r =>
            \/ /\ t.inside /\ t.depth = content[q].depth
               /\ t.tokens <= LineTokens(q..(i - 1))
            \/ f.inside /\ 0 < f.depth /\ f.depth <= content[q].depth
  BY DEF TableSays
<1>7. may /\ TableOpen(l) <=> ~g.inside /\ ~t.inside /\ TableOpen(l)
  OBVIOUS
<1> HIDE DEF g, n, u
<1>8. ASSUME u.inside
      PROVE  TagOpenBefore(i + 1)
  <2>1. (i + 1) - 1 = i
    BY <1>1
  <2>2. CASE t.inside
    <3>1. PICK q \in 1..(i - 1) : /\ TableOpen(content[q]) /\ ~Fenced(q)
                                  /\ \A k \in q..(i - 1) : ~TableClose(content[k])
      BY <1>6, <2>2 DEF TagOpenBefore
    <3>2. q \in 1..i /\ \A k \in q..i : k = i \/ k \in q..(i - 1)
      BY <1>1
    <3> QED BY <1>5, <1>8, <2>1, <3>1, <3>2 DEF TagOpenBefore
  <2>3. CASE ~t.inside
    <3>1. TableOpen(l) /\ ~g.inside /\ ~TableClose(l)
      <4>1. ~stays
        BY <2>3 DEF TableStays
      <4> HIDE DEF stays
      <4> QED BY <1>5, <1>7, <1>8, <4>1
    <3>2. ~Fenced(i) /\ i \in 1..i /\ \A k \in i..i : k = i
      BY <1>1, <1>3, <3>1 DEF TopIn
    <3> QED BY <2>1, <3>1, <3>2 DEF TagOpenBefore
  <2> QED BY <2>2, <2>3
<1>9. ASSUME NEW q \in Position, NEW r \in Position, TagTable(q, r), q < i + 1, i + 1 <= r
      PROVE  \/ /\ u.inside /\ u.depth = content[q].depth
                /\ u.tokens <= LineTokens(q..i)
             \/ g.inside /\ 0 < g.depth /\ g.depth <= content[q].depth
  <2>1. q \in Nat /\ r \in Nat /\ q <= i /\ i < r /\ i <= r /\ (q < i \/ q = i) /\ content[q].depth \in Nat
    BY <1>1, <1>9, ContentLines
  <2>2. /\ ~TableClose(l) /\ l.depth >= content[q].depth
        /\ FenceMarker(l) => content[q].depth = 0
    BY <1>9, <2>1, TagTableLines
  <2>3. /\ LineTokens(q..(i - 1)) \in Nat /\ LineTokens(q..i) \in Nat
        /\ LineTokens(q..i) <= TableBound
        /\ LineTokens(q..(i - 1)) + n <= LineTokens(q..i)
    BY <1>9, <2>1, TagTableTokens DEF n
  <2>4. CASE q < i
    <3>1. CASE t.inside /\ t.depth = content[q].depth /\ t.tokens <= LineTokens(q..(i - 1))
      <4>1. stays
        BY <1>1, <1>4, <2>1, <2>2, <2>3, <3>1 DEF PastBound, TableStays
      <4>2. u.inside /\ u.depth = content[q].depth /\ u.tokens = t.tokens + n
        BY <1>5, <2>2, <3>1, <4>1
      <4>3. t.tokens + n <= LineTokens(q..i)
        BY <1>4, <2>3, <3>1
      <4> QED BY <4>2, <4>3
    <3>2. CASE f.inside /\ 0 < f.depth /\ f.depth <= content[q].depth
      <4>1. ~FenceMarker(l) /\ l.depth >= f.depth
        BY <1>1, <1>2, <2>1, <2>2, <3>2
      <4> QED BY <1>2, <3>2, <4>1
    <3> QED BY <1>6, <1>9, <2>1, <2>4, <3>1, <3>2
  <2>5. CASE q = i
    <3>1. TableOpen(l) /\ ~Fenced(i) /\ ~t.inside /\ ~FenceMarker(l)
      BY <1>6, <1>9, <2>5 DEF TagTable, TableOpen, FenceMarker
    <3>2. CASE ~g.inside
      <4>1. u.inside /\ u.depth = l.depth /\ u.tokens = n
        BY <1>5, <1>7, <2>2, <3>1, <3>2 DEF TableStays
      <4>2. n <= LineTokens(q..i)
        BY <1>4, <2>3
      <4> QED BY <2>5, <4>1, <4>2
    <3>3. CASE g.inside
      <4>1. g.depth > 0
        BY <1>2, <1>3, <3>1, <3>3 DEF TopIn
      <4> QED BY <1>1, <1>2, <2>5, <3>1, <3>3, <4>1
    <3> QED BY <3>2, <3>3
  <2> QED BY <2>1, <2>4, <2>5
<1>10. TableSays(i + 1, g, u)
  <2>1. (i + 1) - 1 = i
    BY <1>1
  <2> QED BY <1>8, <1>9, <2>1 DEF TableSays
<1> QED BY <1>10 DEF g, n, u, l

\* Where rows are tied no fence and no tag is open.
LEMMA RowTiedOpen ==
  ASSUME ChunkTypeOK, NEW i \in Position, NEW f \in Trackers, NEW t \in TableTrackers,
         FenceSays(i, f), TableSays(i, f, t), MdRow(content[i]), ~Fenced(i), ~TagOpenBefore(i)
  PROVE  ~FenceAfter(f, content[i]).inside /\ ~t.inside
<1> DEFINE l == content[i]
           g == FenceAfter(f, l)
<1>1. l \in Line /\ i \in Nat /\ l.depth = 0 /\ ~FenceMarker(l)
  BY ContentLines DEF MdRow, FenceMarker
<1>2. /\ g \in Trackers
      /\ g.inside => f.inside /\ l.depth >= f.depth /\ g.depth = f.depth
  BY <1>1, TopInNext
<1>3. TopIn(g) <=> Fenced(i)
  <2>1. FenceSays(i + 1, g)
    BY FenceConsumes
  <2>2. (i + 1) - 1 = i
    BY <1>1
  <2> QED BY <2>1, <2>2 DEF FenceSays
<1>4. ~g.inside
  <2> HIDE DEF g
  <2> QED BY <1>1, <1>2, <1>3 DEF TopIn, Trackers
<1>5. ~t.inside
  BY DEF TableSays
<1> QED BY <1>4, <1>5

\* The tokens of the rows up to some line are within the bound.
LEMMA RowTokens ==
  ASSUME Tokenizes, ChunkTypeOK, NEW i \in Position, MdRow(content[i])
  PROVE  LET before == {k \in 1..(i - 1) : MdRow(content[k])}
             upTo   == {k \in 1..i : MdRow(content[k])}
         IN  /\ LineTokens(before) \in Nat /\ LineTokens(upTo) \in Nat
             /\ LineTokens(before) + Tokens({i}) <= LineTokens(upTo)
             /\ RowsWithinBound => LineTokens(before) <= TableBound
             /\ Tokens({i}) \in Nat /\ TableBound \in Nat
<1> DEFINE before == {k \in 1..(i - 1) : MdRow(content[k])}
           upTo   == {k \in 1..i : MdRow(content[k])}
           all    == {k \in DOMAIN content : MdRow(content[k])}
<1>1. /\ Position = 1..Len(content) /\ Len(content) \in Nat /\ i \in Nat /\ i > 0
      /\ DOMAIN content = Position
  BY ContentLines
<1>2. before \subseteq upTo /\ before \subseteq all /\ i \in upTo /\ i \notin before
  <2>1. i \in 1..i /\ i \notin 1..(i - 1) /\ \A k \in 1..(i - 1) : k \in 1..i /\ k \in Position
    BY <1>1
  <2> QED BY <1>1, <2>1
<1>3. /\ LineTokens(before) \in Nat /\ LineTokens(upTo) \in Nat
      /\ LineTokens(before) + Tokens({i}) <= LineTokens(upTo)
  <2> HIDE DEF before, upTo
  <2> QED BY <1>2, LineTokensGrow
<1>4. LineTokens(before) <= LineTokens(all) /\ LineTokens(all) \in Nat
  <2> HIDE DEF before, all
  <2> QED BY <1>2, LineTokensGrow
<1>5. Tokens({i}) \in Nat /\ TableBound \in Nat
  BY TokensTyped, ChunkerAssumption
<1>6. RowsWithinBound => LineTokens(all) <= TableBound
  BY DEF RowsWithinBound
<1> HIDE DEF all
<1> QED BY <1>3, <1>4, <1>5, <1>6

\* The row tracker consumes a line.
LEMMA RowsConsume ==
  ASSUME Tokenizes, ChunkTypeOK, NEW i \in Position,
         NEW f \in Trackers, NEW t \in TableTrackers, NEW m \in RowTrackers,
         NEW may \in BOOLEAN,
         FenceSays(i, f), TableSays(i, f, t), RowsSay(i, m),
         may <=> ~FenceAfter(f, content[i]).inside /\ ~t.inside /\ ~m.inside
  PROVE  RowsSay(i + 1, RowsAfter(m, content[i], Tokens({i}), may))
<1> DEFINE l == content[i]
           n == Tokens({i})
           u == RowsAfter(m, l, n, may)
           stays == m.inside /\ ~PastBound(m)
           before == {k \in 1..(i - 1) : MdRow(content[k])}
           upTo   == {k \in 1..i : MdRow(content[k])}
<1>1. /\ Position = 1..Len(content) /\ Len(content) \in Nat /\ i \in Nat /\ i > 0
      /\ (i + 1) - 1 = i
  BY ContentLines
<1>2. n \in Nat /\ m.inside \in BOOLEAN /\ m.tokens \in Nat
  BY TokensTyped DEF RowTrackers
<1>3. /\ u.inside <=> MdRow(l) /\ (stays \/ may)
      /\ stays /\ u.inside => u.tokens = m.tokens + n
      /\ ~stays /\ u.inside => u.tokens = n
  BY <1>2, RowFields
<1>4. m.inside => m.tokens <= LineTokens(before)
  BY DEF RowsSay
<1>5. MdRow(l) => /\ LineTokens(before) \in Nat /\ LineTokens(upTo) \in Nat
                  /\ LineTokens(before) + n <= LineTokens(upTo)
                  /\ RowsWithinBound => LineTokens(before) <= TableBound
                  /\ TableBound \in Nat
  BY RowTokens
<1> HIDE DEF n, u, before, upTo
<1>6. u.inside => u.tokens <= LineTokens(upTo)
  BY <1>2, <1>3, <1>4, <1>5
<1>7. ASSUME RowTied(i + 1)
      PROVE  u.inside
  <2>1. /\ MdRow(l) /\ MdRow(content[i + 1]) /\ ~Fenced(i + 1) /\ ~TagOpenBefore(i + 1)
        /\ RowsWithinBound
    BY <1>1, <1>7 DEF RowTied
  <2>2. ~Fenced(i)
    <3>1. ~TopFence(content[i + 1])
      BY <2>1 DEF MdRow, TopFence
    <3> QED BY <1>1, <2>1, <3>1, FencedNext
  <2>3. ~TagOpenBefore(i)
    <3>1. SUFFICES ASSUME TagOpenBefore(i)
                   PROVE  FALSE
      OBVIOUS
    <3>2. PICK q \in 1..(i - 1) : /\ TableOpen(content[q]) /\ ~Fenced(q)
                                  /\ \A k \in q..(i - 1) : ~TableClose(content[k])
      BY <3>1 DEF TagOpenBefore
    <3>3. q \in 1..i /\ \A k \in q..i : k = i \/ k \in q..(i - 1)
      BY <1>1
    <3>4. ~TableClose(l)
      BY <2>1 DEF MdRow, TableClose
    <3> QED BY <1>1, <2>1, <3>2, <3>3, <3>4 DEF TagOpenBefore
  <2>4. ~FenceAfter(f, content[i]).inside /\ ~t.inside
    BY <2>1, <2>2, <2>3, RowTiedOpen
  <2>5. CASE m.inside
    <3>1. stays
      BY <1>2, <1>4, <1>5, <2>1, <2>5 DEF PastBound
    <3> QED BY <1>3, <2>1, <3>1
  <2>6. CASE ~m.inside
    BY <1>3, <2>1, <2>4, <2>6
  <2> QED BY <2>5, <2>6
<1>8. RowsSay(i + 1, u)
  BY <1>1, <1>6, <1>7 DEF RowsSay, upTo
<1> QED BY <1>8 DEF u, n

\* A line that no tracker looks at leaves what they say as it is.
Unseen(l) ==
  /\ Blank(l) \/ Heading(l)
  /\ ~FenceMarker(l) /\ ~TableOpen(l) /\ ~TableClose(l) /\ ~MdRow(l)

LEMMA UnseenLine ==
  ASSUME Tokenizes, ChunkTypeOK, NEW i \in Position,
         NEW f \in Trackers, NEW t \in TableTrackers, NEW m \in RowTrackers,
         Say(i, f, t, m), Unseen(content[i])
  PROVE  Say(i + 1, f, t, m)
<1>1. /\ Position = 1..Len(content) /\ Len(content) \in Nat /\ i \in Nat /\ i > 0
      /\ (i + 1) - 1 = i
  BY ContentLines
<1>2. FenceSays(i, f) /\ TableSays(i, f, t) /\ RowsSay(i, m)
  BY DEF Say
<1>3. FenceSays(i + 1, f)
  <2>1. TopIn(f) <=> Fenced(i)
    <3>1. ~TopFence(content[i])
      BY DEF Unseen, FenceMarker, TopFence
    <3> QED BY <1>1, <1>2, <3>1, FencedNext DEF FenceSays
  <2>2. ASSUME f.inside, f.depth > 0
        PROVE  QuoteOpen(i + 1, f)
    <3>1. QuoteOpen(i, f)
      BY <1>2, <2>2 DEF FenceSays
    <3>2. ASSUME NEW x \in Position, NEW n \in Position, QuotePair(x, n), x < i, i <= n,
                 f.depth = content[x].depth
          PROVE  QuoteOpen(i + 1, f)
      <4>1. n # i
        BY <3>2, PairsApart DEF Unseen
      <4>2. x < i + 1 /\ i + 1 <= n
        BY <1>1, <3>2, <4>1
      <4> QED BY <3>2, <4>2 DEF QuoteOpen
    <3>3. ASSUME NEW k \in 1..(i - 1), Loose(k), Reaches(k, i - 1), content[k].depth <= f.depth
          PROVE  QuoteOpen(i + 1, f)
      <4>1. k \in 1..((i + 1) - 1) /\ Reaches(k, (i + 1) - 1)
        BY <1>1, <3>3, ReachesOn DEF Unseen
      <4> QED BY <3>3, <4>1 DEF QuoteOpen
    <3> QED BY <3>1, <3>2, <3>3 DEF QuoteOpen
  <2>3. ASSUME NEW x \in Position, NEW n \in Position,
               QuotePair(x, n), Quiet(x), x < i + 1, i + 1 <= n
        PROVE  f.inside /\ f.depth = content[x].depth
    <3>1. x # i
      BY <2>3, PairsApart DEF Unseen
    <3>2. x < i /\ i <= n
      BY <1>1, <2>3, <3>1
    <3> QED BY <1>2, <2>3, <3>2 DEF FenceSays
  <2>4. \A x, n \in Position : QuotePair(x, n) /\ Quiet(x) /\ x < i + 1 /\ i + 1 <= n =>
           f.inside /\ f.depth = content[x].depth
    BY <2>3
  <2> QED BY <1>1, <2>1, <2>2, <2>4 DEF FenceSays
<1>4. TableSays(i + 1, f, t)
  <2>1. ASSUME t.inside
        PROVE  TagOpenBefore(i + 1)
    <3>1. PICK q \in 1..(i - 1) : /\ TableOpen(content[q]) /\ ~Fenced(q)
                                  /\ \A k \in q..(i - 1) : ~TableClose(content[k])
      BY <1>2, <2>1 DEF TableSays, TagOpenBefore
    <3>2. q \in 1..i /\ \A k \in q..i : k = i \/ k \in q..(i - 1)
      BY <1>1
    <3> QED BY <1>1, <3>1, <3>2 DEF TagOpenBefore, Unseen
  <2>2. ASSUME NEW q \in Position, NEW r \in Position, TagTable(q, r), q < i + 1, i + 1 <= r
        PROVE  \/ /\ t.inside /\ t.depth = content[q].depth
                  /\ t.tokens <= LineTokens(q..i)
               \/ f.inside /\ 0 < f.depth /\ f.depth <= content[q].depth
    <3>1. q # i
      BY <2>2 DEF TagTable, Unseen
    <3>2. q < i /\ i <= r /\ q <= i
      BY <1>1, <2>2, <3>1
    <3>3. /\ LineTokens(q..(i - 1)) \in Nat /\ LineTokens(q..i) \in Nat
          /\ LineTokens(q..(i - 1)) + Tokens({i}) <= LineTokens(q..i) /\ Tokens({i}) \in Nat
      BY <2>2, <3>2, TagTableTokens
    <3>4. t.tokens \in Nat
      BY DEF TableTrackers
    <3>5. t.tokens <= LineTokens(q..(i - 1)) => t.tokens <= LineTokens(q..i)
      BY <3>3, <3>4
    <3> QED BY <1>2, <2>2, <3>2, <3>5 DEF TableSays
  <2> QED BY <1>1, <2>1, <2>2 DEF TableSays
<1>5. RowsSay(i + 1, m)
  <2> DEFINE before == {k \in 1..(i - 1) : MdRow(content[k])}
             upTo   == {k \in 1..i : MdRow(content[k])}
  <2>1. upTo = before
    <3>1. \A k \in 1..i : k = i \/ k \in 1..(i - 1)
      BY <1>1
    <3>2. \A k \in 1..(i - 1) : k \in 1..i
      BY <1>1
    <3> QED BY <3>1, <3>2 DEF Unseen
  <2>2. ~RowTied(i + 1)
    BY <1>1 DEF RowTied, Unseen
  <2> HIDE DEF before, upTo
  <2>3. m.inside => m.tokens <= LineTokens(upTo)
    BY <1>2, <2>1 DEF RowsSay, before
  <2> QED BY <1>1, <2>2, <2>3 DEF RowsSay, upTo
<1> QED BY <1>3, <1>4, <1>5 DEF Say

\* And so do any number of them.
LEMMA UnseenLines ==
  ASSUME Tokenizes, ChunkTypeOK, NEW p \in Nat, NEW q \in Position, 0 < p, p <= q,
         NEW f \in Trackers, NEW t \in TableTrackers, NEW m \in RowTrackers,
         Say(p, f, t, m), \A k \in Position : p <= k /\ k < q => Unseen(content[k])
  PROVE  Say(q, f, t, m)
<1> DEFINE Bad == {k \in 0..q : p <= k /\ ~Say(k, f, t, m)}
<1>1. Position = 1..Len(content) /\ Len(content) \in Nat /\ q \in Nat
  BY ContentLines
<1>2. ASSUME NEW k \in Bad
      PROVE  k # 0 /\ k - 1 \in Bad
  <2>1. k \in 0..q /\ p <= k /\ ~Say(k, f, t, m) /\ k # p
    OBVIOUS
  <2>2. k - 1 \in 0..q /\ p <= k - 1 /\ k - 1 < q /\ k - 1 \in Position /\ (k - 1) + 1 = k
    BY <1>1, <2>1
  <2>3. Say(k - 1, f, t, m) => Say(k, f, t, m)
    BY <2>2, UnseenLine
  <2> QED BY <2>1, <2>2, <2>3
<1>3. Bad = {}
  <2>1. Bad \in SUBSET (0..q)
    OBVIOUS
  <2> HIDE DEF Bad
  <2> QED BY <1>1, <1>2, <2>1, NoneIsFirst
<1>4. q \in 0..q
  BY <1>1
<1> QED BY <1>3, <1>4

(***************************************************************************)
(* Ties and the scan: before a tied line nothing is cut.                   *)
(***************************************************************************)
LEMMA TrackerTypes ==
  ASSUME Tokenizes, ChunkTypeOK, NEW i \in Position
  PROVE  /\ fence \in Trackers /\ table \in TableTrackers /\ mdTable \in RowTrackers
         /\ MayOpenTable(i) \in BOOLEAN /\ MayOpenRows(i) \in BOOLEAN
         /\ MayOpenTable(i) /\ TableOpen(content[i]) <=>
               ~FenceNow(i).inside /\ ~table.inside /\ TableOpen(content[i])
         /\ Tokens({i}) \in Nat
<1>1. fence \in Trackers /\ table \in TableTrackers /\ mdTable \in RowTrackers
  BY DEF ChunkTypeOK, Trackers, TableTrackers, RowTrackers
<1>2. MayOpenTable(i) \in BOOLEAN /\ MayOpenRows(i) \in BOOLEAN
  BY DEF MayOpenTable, MayOpenRows
<1>3. TableOpen(content[i]) => ~MdRow(content[i])
  BY DEF TableOpen, MdRow
<1>4. Tokens({i}) \in Nat
  BY TokensTyped
<1> QED BY <1>1, <1>2, <1>3, <1>4 DEF MayOpenTable

\* The trackers consume a line.
LEMMA Consumes ==
  ASSUME Tokenizes, ChunkTypeOK, NEW i \in Position, TrackersAt(i)
  PROVE  Say(i + 1, FenceNow(i),
                TableAfter(table, content[i], Tokens({i}), MayOpenTable(i)),
                RowsAfter(mdTable, content[i], Tokens({i}), MayOpenRows(i)))
<1>1. FenceSays(i, fence) /\ TableSays(i, fence, table) /\ RowsSay(i, mdTable)
  BY DEF TrackersAt, Say
<1>2. /\ fence \in Trackers /\ table \in TableTrackers /\ mdTable \in RowTrackers
      /\ MayOpenTable(i) \in BOOLEAN /\ MayOpenRows(i) \in BOOLEAN
      /\ MayOpenTable(i) /\ TableOpen(content[i]) <=>
            ~FenceNow(i).inside /\ ~table.inside /\ TableOpen(content[i])
  BY TrackerTypes
<1>3. FenceSays(i + 1, FenceNow(i))
  BY <1>1, <1>2, FenceConsumes DEF FenceNow
<1>4. TableSays(i + 1, FenceNow(i),
                TableAfter(table, content[i], Tokens({i}), MayOpenTable(i)))
  BY <1>1, <1>2, TableConsumes DEF FenceNow
<1>5. RowsSay(i + 1, RowsAfter(mdTable, content[i], Tokens({i}), MayOpenRows(i)))
  <2>1. MayOpenRows(i) <=>
           ~FenceAfter(fence, content[i]).inside /\ ~table.inside /\ ~mdTable.inside
    BY DEF MayOpenRows, FenceNow
  <2> QED BY <1>1, <1>2, <2>1, RowsConsume
<1> QED BY <1>3, <1>4, <1>5 DEF Say

\* A line that is tied to the one before it is no place to break, and opens no table.
LEMMA TiedIsAtomic ==
  ASSUME Tokenizes, ChunkTypeOK, NEW i \in Position, TrackersAt(i), Tied(i)
  PROVE  Atomic(i) /\ ~Opens(i)
<1> DEFINE l == content[i]
           g == FenceNow(i)
           n == Tokens({i})
<1>1. FenceSays(i, fence) /\ TableSays(i, fence, table) /\ RowsSay(i, mdTable)
  BY DEF TrackersAt, Say
<1>2. /\ fence \in Trackers /\ table \in TableTrackers /\ mdTable \in RowTrackers
      /\ MayOpenTable(i) \in BOOLEAN /\ MayOpenRows(i) \in BOOLEAN /\ n \in Nat
  BY TrackerTypes
<1>3. l \in Line /\ l.depth \in Nat /\ Position = 1..Len(content) /\ Len(content) \in Nat
  BY ContentLines
<1>4. ASSUME FenceMarker(l) \/ g.inside
      PROVE  Atomic(i) /\ ~Opens(i)
  <2>1. FenceMarker(l) => ~TableOpen(l) /\ ~MdRow(l)
    BY DEF FenceMarker, TableOpen, MdRow
  <2> QED BY <1>4, <2>1 DEF Atomic, Opens, MayOpenTable, MayOpenRows
<1>5. ~FenceMarker(l) /\ fence.inside /\ l.depth >= fence.depth => g.inside
  BY <1>2, <1>3, TopInNext DEF FenceNow
<1>6. CASE Fenced(i - 1)
  <2>1. fence.inside /\ fence.depth = 0
    BY <1>1, <1>6 DEF FenceSays, TopIn
  <2> QED BY <1>3, <1>4, <1>5, <2>1
<1>7. CASE RowTied(i)
  <2>1. MdRow(l) /\ ~Fenced(i) /\ ~TagOpenBefore(i) /\ RowsWithinBound
    BY <1>7 DEF RowTied
  <2>2. ~g.inside /\ ~table.inside
    BY <1>1, <1>2, <2>1, RowTiedOpen DEF FenceNow
  <2>3. mdTable.inside /\ mdTable.tokens <= LineTokens({k \in 1..(i - 1) : MdRow(content[k])})
    BY <1>1, <1>7 DEF RowsSay
  <2>4. ~PastBound(mdTable)
    <3> DEFINE before == {k \in 1..(i - 1) : MdRow(content[k])}
    <3>1. /\ LineTokens(before) \in Nat /\ LineTokens(before) <= TableBound
          /\ TableBound \in Nat
      BY <2>1, RowTokens
    <3>2. mdTable.tokens \in Nat
      BY <1>2 DEF RowTrackers
    <3> HIDE DEF before
    <3>3. mdTable.tokens <= LineTokens(before)
      BY <2>3 DEF before
    <3> QED BY <3>1, <3>2, <3>3 DEF PastBound
  <2>5. RowsOpened(mdTable, l, MayOpenRows(i)).inside
    BY <1>2, <2>1, <2>3, <2>4, RowFields
  <2>6. ~TableOpen(l)
    BY <2>1 DEF MdRow, TableOpen
  <2> QED BY <2>3, <2>5, <2>6 DEF Atomic, InTable, Opens, MayOpenRows
<1>8. ASSUME NEW q \in Position, NEW r \in Position, TagTable(q, r), q < i, i <= r
      PROVE  Atomic(i) /\ ~Opens(i)
  <2>1. q <= i /\ content[q].depth \in Nat
    BY <1>3, <1>8, ContentLines
  <2>2. l.depth >= content[q].depth /\ (FenceMarker(l) => content[q].depth = 0)
    BY <1>8, <2>1, TagTableLines
  <2>3. CASE table.inside /\ table.depth = content[q].depth
             /\ table.tokens <= LineTokens(q..(i - 1))
    <3>1. /\ LineTokens(q..(i - 1)) \in Nat /\ LineTokens(q..i) \in Nat
          /\ LineTokens(q..i) <= TableBound
          /\ LineTokens(q..(i - 1)) + n <= LineTokens(q..i)
      BY <1>8, <2>1, TagTableTokens
    <3>2. table.tokens \in Nat /\ TableBound \in Nat
      BY <1>2, ChunkerAssumption DEF TableTrackers
    <3>3. ~PastBound(table)
      <4> HIDE DEF n
      <4> QED BY <1>2, <2>3, <3>1, <3>2 DEF PastBound
    <3>4. TableStays(table, l)
      BY <1>3, <2>1, <2>2, <2>3, <3>3 DEF TableStays
    <3>5. TableOpened(table, l, MayOpenTable(i)).inside
      BY <1>2, <3>4, TableFields
    <3> QED BY <2>3, <3>5 DEF Atomic, InTable, Opens, MayOpenTable, MayOpenRows
  <2>4. CASE fence.inside /\ 0 < fence.depth /\ fence.depth <= content[q].depth
    <3>1. fence.depth \in Nat
      BY <1>2 DEF Trackers
    <3>2. ~FenceMarker(l) /\ l.depth >= fence.depth
      BY <1>3, <2>1, <2>2, <2>4, <3>1
    <3> QED BY <1>4, <1>5, <2>4, <3>2
  <2> QED BY <1>1, <1>8, <2>3, <2>4 DEF TableSays
<1>9. ASSUME NEW x \in Position, NEW n2 \in Position,
             QuotePair(x, n2), Quiet(x), x < i, i <= n2
      PROVE  Atomic(i) /\ ~Opens(i)
  <2>1. fence.inside /\ fence.depth = content[x].depth
    BY <1>1, <1>9 DEF FenceSays
  <2>2. i = n2 \/ i < n2
    BY <1>3, <1>9
  <2>3. FenceMarker(l) \/ l.depth >= content[x].depth
    BY <1>9, <2>2, PairsApart
  <2> QED BY <1>4, <1>5, <2>1, <2>3
<1> QED BY <1>6, <1>7, <1>8, <1>9 DEF Tied

\* What is tied to a line binds that one.
LEMMA TiedToAtomic ==
  ASSUME Tokenizes, ChunkTypeOK, NEW i \in Position, TrackersAt(i), Tied(i + 1)
  PROVE  Atomic(i)
<1> DEFINE l == content[i]
           g == FenceNow(i)
           t == TableAfter(table, l, Tokens({i}), MayOpenTable(i))
           m == RowsAfter(mdTable, l, Tokens({i}), MayOpenRows(i))
<1>1. FenceSays(i + 1, g) /\ TableSays(i + 1, g, t) /\ RowsSay(i + 1, m)
  BY Consumes DEF Say
<1>2. /\ fence \in Trackers /\ table \in TableTrackers /\ mdTable \in RowTrackers
      /\ MayOpenTable(i) \in BOOLEAN /\ MayOpenRows(i) \in BOOLEAN /\ Tokens({i}) \in Nat
  BY TrackerTypes
<1>3. t.inside => TableOpened(table, l, MayOpenTable(i)).inside
  BY <1>2, TableFields
<1>4. m.inside => RowsOpened(mdTable, l, MayOpenRows(i)).inside
  BY <1>2, RowFields
<1>5. g.inside \/ t.inside \/ m.inside => Atomic(i)
  <2> HIDE DEF g, t, m
  <2> QED BY <1>3, <1>4 DEF Atomic, InTable, g
<1> HIDE DEF g, t, m
<1>6. CASE Fenced((i + 1) - 1)
  BY <1>1, <1>5, <1>6 DEF FenceSays, TopIn
<1>7. CASE RowTied(i + 1)
  BY <1>1, <1>5, <1>7 DEF RowsSay
<1>8. ASSUME NEW q \in Position, NEW r \in Position, TagTable(q, r), q < i + 1, i + 1 <= r
      PROVE  Atomic(i)
  BY <1>1, <1>5, <1>8 DEF TableSays
<1>9. ASSUME NEW x \in Position, NEW n \in Position,
             QuotePair(x, n), Quiet(x), x < i + 1, i + 1 <= n
      PROVE  Atomic(i)
  BY <1>1, <1>5, <1>9 DEF FenceSays
<1> QED BY <1>6, <1>7, <1>8, <1>9 DEF Tied

\* Where no line is tied, nothing is open.
LEMMA NothingIsOpen ==
  ASSUME Tokenizes, ChunkTypeOK, NEW p \in Position, ~Tied(p)
  PROVE  Say(p, NoFence, NoTable, NoRows)
<1>1. ~NoFence.inside /\ ~NoTable.inside /\ ~NoRows.inside
  BY DEF NoFence, NoTable, NoRows
<1>2. /\ ~Fenced(p - 1) /\ ~RowTied(p)
      /\ ~\E q, r \in Position : TagTable(q, r) /\ q < p /\ p <= r
      /\ ~\E x, n \in Position : QuotePair(x, n) /\ Quiet(x) /\ x < p /\ p <= n
  BY DEF Tied
<1>3. FenceSays(p, NoFence)
  BY <1>1, <1>2 DEF FenceSays, TopIn
<1>4. TableSays(p, NoFence, NoTable)
  BY <1>1, <1>2 DEF TableSays
<1>5. RowsSay(p, NoRows)
  BY <1>1, <1>2 DEF RowsSay
<1> QED BY <1>3, <1>4, <1>5 DEF Say

\* The first line is tied to none, and neither is a heading, nor a line to a heading.
LEMMA HeadingsUntied ==
  ASSUME ChunkTypeOK, NEW z \in Position, Heading(content[z]), ~Fenced(z)
  PROVE  ~Tied(z) /\ ~Tied(z + 1)
<1>1. /\ Position = 1..Len(content) /\ Len(content) \in Nat /\ z \in Nat /\ z > 0
      /\ (z + 1) - 1 = z
  BY ContentLines
<1>2. /\ ~FenceMarker(content[z]) /\ ~MdRow(content[z]) /\ content[z].depth = 0
      /\ ~TopFence(content[z]) /\ ~TableOpen(content[z])
  BY DEF Heading, PageHeading, SectionHeading, FenceMarker, MdRow, TopFence, TableOpen
<1>3. ~Fenced(z - 1)
  BY <1>1, <1>2, FencedNext
<1>4. ~RowTied(z) /\ ~RowTied(z + 1)
  BY <1>1, <1>2 DEF RowTied
<1>5. \A q, r \in Position : TagTable(q, r) => ~(q <= z /\ z <= r)
  BY TagTableLines
<1>6. \A x, n \in Position : QuotePair(x, n) => ~(x <= z /\ z <= n)
  <2> SUFFICES ASSUME NEW x \in Position, NEW n \in Position,
                      QuotePair(x, n), x <= z, z <= n
               PROVE  FALSE
    OBVIOUS
  <2>1. content[x].depth > 0 /\ FenceMarker(content[x]) /\ FenceMarker(content[n])
        /\ (x < z /\ z < n => content[z].depth >= content[x].depth)
    BY PairsApart
  <2>2. x # z /\ z # n
    BY <1>2, <2>1
  <2>3. content[x].depth \in Nat
    BY ContentLines
  <2> QED BY <1>1, <1>2, <2>1, <2>2, <2>3
<1>7. \A q, r \in Position : /\ q < z /\ z <= r => q <= z /\ z <= r
                             /\ q < z + 1 /\ z + 1 <= r => q <= z /\ z <= r
  BY <1>1
<1> QED BY <1>1, <1>3, <1>4, <1>5, <1>6, <1>7 DEF Tied

\* What is tied depends on the content alone.
LEMMA SameTies ==
  ASSUME content' = content
  PROVE  /\ Position' = Position
         /\ \A z : Tied(z)' <=> Tied(z)
         /\ \A i, f, t, m : Say(i, f, t, m)' <=> Say(i, f, t, m)
         /\ \A S, n : ClosedUpTo(S, n)' <=> ClosedUpTo(S, n)
         /\ \A S : Closed(S)' <=> Closed(S)
         /\ \A L : TrimmedOf(L)' <=> TrimmedOf(L)
         /\ \A k : Fenced(k)' <=> Fenced(k)
<1>1. \A S : LineTokens(S)' = LineTokens(S)
  BY DEF LineTokens, Tokens
<1>2. \A k : Fenced(k)' <=> Fenced(k)
  BY DEF Fenced, TopFences
<1>3. \A p : TagOpenBefore(p)' <=> TagOpenBefore(p)
  BY <1>2 DEF TagOpenBefore
<1>4. RowsWithinBound' <=> RowsWithinBound
  BY <1>1 DEF RowsWithinBound
<1>5. \A z : RowTied(z)' <=> RowTied(z)
  BY <1>2, <1>3, <1>4 DEF RowTied
<1>6. \A q, r : TagTable(q, r)' <=> TagTable(q, r)
  BY <1>1, <1>2, <1>3 DEF TagTable
<1>7. \A x, n : QuotePair(x, n)' <=> QuotePair(x, n)
  <2>1. \A i, j : Markers(content, i, j)' = Markers(content, i, j)
    BY DEF Markers
  <2>2. \A p, x, n : QuotedPair(content, p, x, n)' <=> QuotedPair(content, p, x, n)
    BY <2>1 DEF QuotedPair
  <2> QED BY <1>2, <2>2 DEF QuotePair
<1>8. (\A m : Loose(m)' <=> Loose(m)) /\ \A m, p : Reaches(m, p)' <=> Reaches(m, p)
  BY <1>2, <1>7 DEF Loose, Reaches, Position
<1>9. \A p : Quiet(p)' <=> Quiet(p)
  BY <1>8 DEF Quiet
<1>10. \A z : Tied(z)' <=> Tied(z)
  BY <1>2, <1>5, <1>6, <1>7, <1>9 DEF Tied, Position
<1>11. \A S, n : ClosedUpTo(S, n)' <=> ClosedUpTo(S, n)
  BY <1>10 DEF ClosedUpTo
<1>12. \A S : Closed(S)' <=> Closed(S)
  BY <1>11 DEF Closed
<1>13. \A L : TrimmedOf(L)' <=> TrimmedOf(L)
  BY <1>12 DEF TrimmedOf, Trimmed, Position
<1>14. \A i, f : QuoteOpen(i, f)' <=> QuoteOpen(i, f)
  BY <1>7, <1>8 DEF QuoteOpen, Position
<1>15. \A i, f : FenceSays(i, f)' <=> FenceSays(i, f)
  BY <1>2, <1>7, <1>9, <1>14 DEF FenceSays, Position
<1>16. \A i, f, t : TableSays(i, f, t)' <=> TableSays(i, f, t)
  BY <1>1, <1>3, <1>6 DEF TableSays, Position
<1>17. \A i, t : RowsSay(i, t)' <=> RowsSay(i, t)
  BY <1>1, <1>5 DEF RowsSay
<1>18. \A i, f, t, m : Say(i, f, t, m)' <=> Say(i, f, t, m)
  BY <1>15, <1>16, <1>17 DEF Say
<1> QED BY <1>2, <1>10, <1>11, <1>12, <1>13, <1>18 DEF Position

\* All or none of the lines tied together: two such sets make one.
LEMMA ClosedUnion ==
  ASSUME NEW S, NEW T, Closed(S), Closed(T)
  PROVE  Closed(S \cup T)
BY DEF Closed, ClosedUpTo

LEMMA NothingClosed == Closed({}) /\ \A n : ClosedUpTo({}, n)
BY DEF Closed, ClosedUpTo

\* Before a line that is not tied, such a set may be cut.
LEMMA CutApart ==
  ASSUME ChunkTypeOK, NEW S \in SUBSET Position, NEW T \in SUBSET Position, NEW p \in Nat,
         Closed(S \cup T), ~Tied(p), \A i \in S : i < p, \A j \in T : p <= j
  PROVE  Closed(S) /\ Closed(T)
<1>1. Position = 1..Len(content) /\ Len(content) \in Nat
  BY ContentLines
<1>2. ASSUME NEW z \in 2..Len(content), Tied(z)
      PROVE  (z - 1 \in S <=> z \in S) /\ (z - 1 \in T <=> z \in T)
  <2>1. z - 1 \in S \cup T <=> z \in S \cup T
    BY <1>2 DEF Closed, ClosedUpTo
  <2>2. z # p
    BY <1>2
  <2>3. z \in Nat /\ ~(z - 1 \in S /\ z \in T) /\ ~(z - 1 \in T /\ z \in S)
    BY <1>1, <2>2
  <2>4. ~(z \in S /\ z \in T) /\ ~(z - 1 \in S /\ z - 1 \in T)
    BY <1>1
  <2> QED BY <2>1, <2>3, <2>4
<1> QED BY <1>2 DEF Closed, ClosedUpTo

\* The first line of such a set is not tied.
LEMMA FirstUntied ==
  ASSUME ChunkTypeOK, NEW S \in SUBSET Position, Closed(S),
         NEW i \in S, \A j \in S : i <= j
  PROVE  ~Tied(i)
<1>1. Position = 1..Len(content) /\ Len(content) \in Nat /\ i \in Position
  BY ContentLines
<1>2. CASE i = 1
  <2>1. ~Fenced(1 - 1)
    <3>1. 1 - 1 = 0 /\ 1 \in Nat /\ 1 > 0
      OBVIOUS
    <3> QED BY <3>1, FencedNext
  <2>2. ~RowTied(1)
    BY DEF RowTied
  <2>3. \A q \in Position : ~(q < 1)
    BY <1>1
  <2> QED BY <1>2, <2>1, <2>2, <2>3 DEF Tied
<1>3. CASE i # 1
  <2>1. i \in 2..Len(content) /\ ~(i <= i - 1)
    BY <1>1, <1>3
  <2> QED BY <2>1 DEF Closed, ClosedUpTo
<1> QED BY <1>2, <1>3

\* flush() in both scans.
LEMMA BodyClosed ==
  ASSUME NEW bs \in Seq(SUBSET Position), NEW S \in SUBSET Position,
         \A b \in DOMAIN bs : Closed(bs[b]), Closed(S)
  PROVE  \A b \in DOMAIN (bs \o Body(S)) : Closed((bs \o Body(S))[b])
<1>1. CASE HasText(S)
  <2>1. bs \o Body(S) = Append(bs, S)
    <3>1. bs \o <<S>> = Append(bs, S)
      OBVIOUS
    <3> QED BY <1>1, <3>1 DEF Body
  <2> QED BY <2>1, AppendElements
<1>2. CASE ~HasText(S)
  <2>1. bs \o Body(S) = bs
    <3>1. bs \o <<>> = bs
      OBVIOUS
    <3> QED BY <1>2, <3>1 DEF Body
  <2> QED BY <2>1
<1> QED BY <1>1, <1>2

LEMMA FlushedClosed ==
  ASSUME ChunkTypeOK, \A k \in DOMAIN sections : Closed(sections[k].lines),
         Closed(current.lines)
  PROVE  \A k \in DOMAIN Flushed : Closed(Flushed[k].lines)
<1>1. sections \in Seq(Sections) /\ current \in Sections
  BY DEF ChunkTypeOK
<1> QED BY <1>1, AppendElements DEF Flushed

\* The two folds.
LEMMA FoldTrailingClosed ==
  ASSUME NEW gs \in Seq(Groups), \A g \in DOMAIN gs : Closed(gs[g].lines)
  PROVE  \A g \in DOMAIN FoldTrailing(gs) : Closed(FoldTrailing(gs)[g].lines)
<1>1. CASE Len(gs) < 2
  BY <1>1 DEF FoldTrailing
<1>2. CASE ~(Len(gs) < 2)
  <2> DEFINE n      == Len(gs) - 1
             front  == SubSeq(gs, 1, Len(gs) - 2)
             joined == [lines |-> gs[n].lines \cup Last(gs).lines,
                        parts |-> gs[n].parts \o Last(gs).parts]
  <2>1. n \in DOMAIN gs /\ Len(gs) \in DOMAIN gs /\ Len(gs) - 2 \in 0..Len(gs)
    BY <1>2
  <2>2. gs[n] \in Groups /\ Last(gs) \in Groups
    BY <2>1, ElementOf DEF Last
  <2>3. joined \in Groups
    <3> HIDE DEF n
    <3> QED BY <2>2 DEF Groups
  <2>4. /\ front \in Seq(Groups)
        /\ \A g \in DOMAIN front : g \in DOMAIN gs /\ front[g] = gs[g]
    <3> DEFINE m == Len(gs) - 2
    <3>1. m \in 0..Len(gs)
      BY <2>1
    <3> HIDE DEF m
    <3>2. /\ SubSeq(gs, 1, m) \in Seq(Groups)
          /\ \A k \in DOMAIN SubSeq(gs, 1, m) :
                k \in DOMAIN gs /\ SubSeq(gs, 1, m)[k] = gs[k]
      BY <3>1, FrontElements
    <3> QED BY <3>2 DEF m
  <2>5. Closed(joined.lines)
    <3>1. Closed(gs[n].lines) /\ Closed(Last(gs).lines)
      <4> HIDE DEF n
      <4> QED BY <2>1 DEF Last
    <3>2. joined.lines = gs[n].lines \cup Last(gs).lines
      OBVIOUS
    <3> HIDE DEF joined, n
    <3> QED BY <3>1, <3>2, ClosedUnion
  <2>6. /\ DOMAIN Append(front, joined) = DOMAIN front \cup {Len(front) + 1}
        /\ \A g \in DOMAIN front : Append(front, joined)[g] = front[g]
        /\ Append(front, joined)[Len(front) + 1] = joined
    <3> HIDE DEF front, joined
    <3> QED BY <2>3, <2>4, AppendElements
  <2>7. FoldTrailing(gs) = gs \/ FoldTrailing(gs) = Append(front, joined)
    BY DEF FoldTrailing
  <2> HIDE DEF front, joined, n
  <2> QED BY <2>4, <2>5, <2>6, <2>7
<1> QED BY <1>1, <1>2

LEMMA FoldShortClosed ==
  ASSUME NEW bs \in Seq(SUBSET Position), \A b \in DOMAIN bs : Closed(bs[b])
  PROVE  \A b \in DOMAIN FoldShortTrailing(bs) : Closed(FoldShortTrailing(bs)[b])
<1>1. CASE Len(bs) < 2
  BY <1>1 DEF FoldShortTrailing
<1>2. CASE ~(Len(bs) < 2)
  <2> DEFINE n      == Len(bs) - 1
             front  == SubSeq(bs, 1, Len(bs) - 2)
             joined == bs[n] \cup Last(bs)
  <2>1. n \in DOMAIN bs /\ Len(bs) \in DOMAIN bs /\ Len(bs) - 2 \in 0..Len(bs)
    BY <1>2
  <2>2. bs[n] \in SUBSET Position /\ Last(bs) \in SUBSET Position
    BY <2>1, ElementOf DEF Last
  <2>3. joined \in SUBSET Position
    <3> HIDE DEF n
    <3> QED BY <2>2
  <2>4. /\ front \in Seq(SUBSET Position)
        /\ \A b \in DOMAIN front : b \in DOMAIN bs /\ front[b] = bs[b]
    <3> DEFINE m == Len(bs) - 2
    <3>1. m \in 0..Len(bs)
      BY <2>1
    <3> HIDE DEF m
    <3>2. /\ SubSeq(bs, 1, m) \in Seq(SUBSET Position)
          /\ \A k \in DOMAIN SubSeq(bs, 1, m) :
                k \in DOMAIN bs /\ SubSeq(bs, 1, m)[k] = bs[k]
      BY <3>1, FrontElements
    <3> QED BY <3>2 DEF m
  <2>5. Closed(joined)
    <3>1. Closed(bs[n]) /\ Closed(Last(bs))
      <4> HIDE DEF n
      <4> QED BY <2>1 DEF Last
    <3> HIDE DEF n
    <3> QED BY <3>1, ClosedUnion
  <2>6. /\ DOMAIN Append(front, joined) = DOMAIN front \cup {Len(front) + 1}
        /\ \A b \in DOMAIN front : Append(front, joined)[b] = front[b]
        /\ Append(front, joined)[Len(front) + 1] = joined
    <3> HIDE DEF front, joined
    <3> QED BY <2>3, <2>4, AppendElements
  <2>7. FoldShortTrailing(bs) = bs \/ FoldShortTrailing(bs) = Append(front, joined)
    BY DEF FoldShortTrailing
  <2> HIDE DEF front, joined, n
  <2> QED BY <2>4, <2>5, <2>6, <2>7
<1> QED BY <1>1, <1>2

(***************************************************************************)
(* The chunker keeps tied lines together.                                  *)
(***************************************************************************)
\* splitIntoSections.
LEMMA SplitWhole ==
  ASSUME TypeInv, DocumentInv, WholeInv, ReadPage \/ ReadSection \/ ReadBody \/ EndOfContent
  PROVE  WholeInv'
<1> DEFINE z == line + 1
<1>1. /\ ChunkTypeOK /\ SectionsInv /\ stage = "sections" /\ chunks = <<>> /\ groups = <<>>
      /\ pending = NoGroup
  BY DEF ReadPage, ReadSection, ReadBody, ReadNext, EndOfContent, TypeInv, TypeOK, DocumentInv
<1>2. /\ \A k \in DOMAIN sections : Closed(sections[k].lines)
      /\ TopIn(fence) <=> Fenced(line)
      /\ ClosedUpTo(current.lines, line)
      /\ 0 < line /\ line < Len(content) /\ Tied(line + 1) => line \in current.lines
  BY <1>1 DEF WholeInv
<1>3. /\ content' = content /\ chunks' = <<>>
  BY <1>1 DEF ReadPage, ReadSection, ReadBody, ReadNext, EndOfContent
<1>4. /\ \A y : Tied(y)' <=> Tied(y)
      /\ \A S, n : ClosedUpTo(S, n)' <=> ClosedUpTo(S, n)
      /\ \A S : Closed(S)' <=> Closed(S)
      /\ \A k : Fenced(k)' <=> Fenced(k)
  BY <1>3, SameTies
<1>5. /\ line \in Nat /\ Len(content) \in Nat /\ line <= Len(content)
      /\ Position = 1..Len(content) /\ current.lines \subseteq 1..line /\ fence \in Trackers
  BY <1>1, ContentLines DEF ChunkTypeOK, SectionsInv, Trackers
<1>6. ASSUME ReadNext
      PROVE  /\ z \in Position /\ z > 0 /\ z \in Nat /\ z - 1 = line /\ line' = z
             /\ fence' = FenceAfter(fence, content[z]) /\ content[z] \in Line
             /\ TopIn(fence)' <=> Fenced(z)
             /\ stage' = stage
  <2>1. /\ line < Len(content) /\ line' = z /\ fence' = FenceAfter(fence, content[z])
        /\ stage' = stage
    BY <1>6 DEF ReadNext, NextLine
  <2>2. z \in Position /\ z > 0 /\ z \in Nat /\ z - 1 = line
    BY <1>5, <2>1
  <2>3. content[z] \in Line
    BY <1>1, <2>2, ContentLines
  <2>4. TopIn(FenceAfter(fence, content[z])) <=> (TopIn(fence) <=> ~TopFence(content[z]))
    BY <1>5, <2>3, TopInNext
  <2>5. Fenced(z) <=> (Fenced(line) <=> ~TopFence(content[z]))
    BY <2>2, FencedNext
  <2>6. TopIn(fence)' <=> TopIn(FenceAfter(fence, content[z]))
    BY <2>1 DEF TopIn
  <2> HIDE DEF z
  <2> QED BY <1>2, <2>1, <2>2, <2>3, <2>4, <2>5, <2>6
<1>7. ASSUME ~Tied(line + 1) \/ line = Len(content)
      PROVE  Closed(current.lines)
  <2>1. ASSUME NEW y \in 2..Len(content), Tied(y)
        PROVE  y - 1 \in current.lines <=> y \in current.lines
    <3>1. y # line + 1
      BY <1>5, <1>7, <2>1
    <3>2. CASE y <= line
      <4>1. y \in 2..line
        BY <3>2
      <4> QED BY <1>2, <2>1, <4>1 DEF ClosedUpTo
    <3>3. CASE ~(y <= line)
      <4>1. y - 1 \notin 1..line /\ y \notin 1..line
        BY <1>5, <3>1, <3>3
      <4> QED BY <1>5, <4>1
    <3> QED BY <3>2, <3>3
  <2> QED BY <2>1 DEF Closed, ClosedUpTo
<1>8. CASE ReadPage \/ ReadSection
  <2>1. ReadNext /\ Structural /\ Heading(content[z]) /\ sections' = Flushed /\ current'.lines = {}
    BY <1>8 DEF ReadPage, ReadSection, NextLine, Heading, Section
  <2>2. ~FenceAfter(fence, content[z]).inside
    BY <2>1 DEF Structural, NextLine
  <2>3. ~Fenced(z)
    <3>1. ~TopIn(fence)'
      BY <1>6, <2>1, <2>2 DEF TopIn
    <3> QED BY <1>6, <2>1, <3>1
  <2>4. ~Tied(z) /\ ~Tied(z + 1)
    BY <1>1, <1>6, <2>1, <2>3, HeadingsUntied
  <2>5. \A k \in DOMAIN Flushed : Closed(Flushed[k].lines)
    <3>1. Closed(current.lines)
      BY <1>7, <2>4
    <3> QED BY <1>1, <1>2, <3>1, FlushedClosed
  <2>6. /\ (\A k \in DOMAIN sections : Closed(sections[k].lines))'
        /\ (TopIn(fence) <=> Fenced(line))'
        /\ ClosedUpTo(current.lines, line)'
        /\ ~Tied(line + 1)'
    <3>1. (\A k \in DOMAIN sections : Closed(sections[k].lines))'
      BY <1>4, <2>1, <2>5
    <3>2. (TopIn(fence) <=> Fenced(line))'
      BY <1>4, <1>6, <2>1
    <3>3. ClosedUpTo(current.lines, line)'
      BY <1>4, <2>1, NothingClosed
    <3>4. ~Tied(line + 1)'
      BY <1>4, <1>6, <2>1, <2>4
    <3> QED BY <3>1, <3>2, <3>3, <3>4
  <2>7. stage' = "sections"
    BY <1>1, <1>6, <2>1
  <2> QED BY <1>3, <2>6, <2>7 DEF WholeInv
<1>9. CASE ReadBody
  <2>1. ReadNext /\ sections' = sections /\ current'.lines = current.lines \cup {z}
    BY <1>1, <1>9 DEF ReadBody, ChunkTypeOK, Sections
  <2>2. ClosedUpTo(current.lines \cup {z}, z)
    <3>1. SUFFICES ASSUME NEW y \in 2..z, Tied(y)
                   PROVE  y - 1 \in current.lines \cup {z} <=> y \in current.lines \cup {z}
      BY DEF ClosedUpTo
    <3>2. CASE y = z
      <4>1. 0 < line /\ line < Len(content)
        BY <1>5, <1>6, <2>1, <3>2
      <4> QED BY <1>2, <1>6, <2>1, <3>1, <3>2, <4>1
    <3>3. CASE y # z
      <4>1. y \in 2..line /\ y - 1 # z
        BY <1>5, <3>3
      <4>2. y - 1 \in current.lines <=> y \in current.lines
        BY <1>2, <3>1, <4>1 DEF ClosedUpTo
      <4> QED BY <3>3, <4>1, <4>2
    <3> QED BY <3>2, <3>3
  <2>3. /\ (\A k \in DOMAIN sections : Closed(sections[k].lines))'
        /\ (TopIn(fence) <=> Fenced(line))'
        /\ ClosedUpTo(current.lines, line)'
        /\ line' \in current'.lines
    <3>1. (\A k \in DOMAIN sections : Closed(sections[k].lines))'
      BY <1>2, <1>4, <2>1
    <3>2. (TopIn(fence) <=> Fenced(line))'
      BY <1>4, <1>6, <2>1
    <3>3. ClosedUpTo(current.lines, line)'
      BY <1>4, <1>6, <2>1, <2>2
    <3>4. line' \in current'.lines
      BY <1>6, <2>1
    <3> QED BY <3>1, <3>2, <3>3, <3>4
  <2>4. stage' = "sections"
    BY <1>1, <1>6, <2>1
  <2> QED BY <1>3, <2>3, <2>4 DEF WholeInv
<1>10. CASE EndOfContent
  <2>1. /\ line = Len(content) /\ sections' = Flushed
        /\ \/ stage' = "splitting" /\ merged' = Flushed
           \/ stage' = "merging"
        /\ pending' = pending /\ groups' = groups
    BY <1>10 DEF EndOfContent
  <2>2. /\ (\A k \in DOMAIN sections : Closed(sections[k].lines))'
        /\ stage' = "splitting" => (\A k \in DOMAIN merged : Closed(merged[k].lines))'
    <3>1. Closed(current.lines)
      BY <1>7, <2>1
    <3>2. \A k \in DOMAIN Flushed : Closed(Flushed[k].lines)
      BY <1>1, <1>2, <3>1, FlushedClosed
    <3> QED BY <1>4, <2>1, <3>2
  <2>3. pending'.lines = {} /\ groups' = <<>> /\ Closed(pending.lines)'
    <3>1. pending'.lines = {} /\ groups' = <<>>
      BY <1>1, <2>1 DEF NoGroup
    <3> QED BY <1>4, <3>1, NothingClosed
  <2> QED BY <1>3, <2>1, <2>2, <2>3 DEF WholeInv
<1> QED BY <1>8, <1>9, <1>10

\* mergeUndersizedSections.
LEMMA GroupWhole ==
  ASSUME Tokenizes, TypeInv, DocumentInv, WholeInv, GroupSection
  PROVE  WholeInv'
<1> DEFINE grown == Grown(sections[taken + 1])
<1>1. /\ ChunkTypeOK /\ stage = "merging" /\ stage' = "merging" /\ content' = content
      /\ sections' = sections /\ chunks' = chunks /\ chunks = <<>>
      /\ taken \in Nat /\ taken < Len(sections)
  BY DEF GroupSection, TypeInv, TypeOK, DocumentInv, ChunkTypeOK, splitVars
<1>2. /\ \A k \in DOMAIN sections : Closed(sections[k].lines)
      /\ Closed(pending.lines)
      /\ \A g \in DOMAIN groups : Closed(groups[g].lines)
  BY <1>1 DEF WholeInv
<1>3. \A S : Closed(S)' <=> Closed(S)
  BY <1>1, SameTies
<1>4. sections \in Seq(Sections) /\ groups \in Seq(Groups) /\ taken + 1 \in DOMAIN sections
  BY <1>1, FromNext DEF ChunkTypeOK
<1>5. Closed(grown.lines)
  <2>1. grown.lines = pending.lines \cup sections[taken + 1].lines
    BY DEF Grown
  <2> HIDE DEF grown
  <2> QED BY <1>2, <1>4, <2>1, ClosedUnion
<1>6. \/ groups' = Append(groups, grown) /\ pending' = NoGroup
      \/ groups' = groups /\ pending' = grown
  BY DEF GroupSection
<1>7. /\ Closed(pending.lines)'
      /\ (\A g \in DOMAIN groups : Closed(groups[g].lines))'
  <2>1. CASE groups' = Append(groups, grown) /\ pending' = NoGroup
    <3>1. grown \in Groups
      <4>1. ChunkTypeOK' /\ Groups' = Groups
        BY <1>1, MergeTyped, SameContent DEF TypeInv, TypeOK
      <4>2. groups' \in Seq(Groups) /\ Len(groups) + 1 \in DOMAIN groups'
        <5> HIDE DEF grown
        <5> QED BY <1>4, <2>1, <4>1 DEF ChunkTypeOK
      <4>3. groups'[Len(groups) + 1] = grown
        <5> HIDE DEF grown
        <5> QED BY <1>4, <2>1
      <4> HIDE DEF grown
      <4> QED BY <4>2, <4>3, ElementOf
    <3>2. /\ DOMAIN groups' = DOMAIN groups \cup {Len(groups) + 1}
          /\ \A k \in DOMAIN groups : groups'[k] = groups[k]
          /\ groups'[Len(groups) + 1] = grown
      <4> HIDE DEF grown
      <4> QED BY <1>4, <2>1, <3>1, AppendElements
    <3>3. pending'.lines = {}
      BY <2>1 DEF NoGroup
    <3> HIDE DEF grown
    <3> QED BY <1>2, <1>3, <1>5, <3>2, <3>3, NothingClosed
  <2>2. CASE groups' = groups /\ pending' = grown
    <3> HIDE DEF grown
    <3> QED BY <1>2, <1>3, <1>5, <2>2
  <2> QED BY <1>6, <2>1, <2>2
<1>8. (\A k \in DOMAIN sections : Closed(sections[k].lines))'
  BY <1>1, <1>2, <1>3
<1> QED BY <1>1, <1>7, <1>8 DEF WholeInv

LEMMA FinishWhole ==
  ASSUME Tokenizes, TypeInv, DocumentInv, WholeInv, FinishGroups
  PROVE  WholeInv'
<1> DEFINE folded == FoldTrailing(Grouped)
<1>1. /\ ChunkTypeOK /\ stage = "merging" /\ stage' = "splitting" /\ content' = content
      /\ chunks' = chunks /\ chunks = <<>>
      /\ merged' = [k \in DOMAIN folded |->
                       Section(DominantPath(folded[k].parts), folded[k].lines)]
  BY DEF FinishGroups, TypeInv, TypeOK, DocumentInv
<1>2. /\ Closed(pending.lines)
      /\ \A g \in DOMAIN groups : Closed(groups[g].lines)
  BY <1>1 DEF WholeInv
<1>3. groups \in Seq(Groups) /\ pending \in Groups
  BY <1>1 DEF ChunkTypeOK
<1>4. Grouped \in Seq(Groups) /\ \A g \in DOMAIN Grouped : Closed(Grouped[g].lines)
  BY <1>2, <1>3, AppendElements DEF Grouped
<1>5. \A g \in DOMAIN folded : Closed(folded[g].lines)
  BY <1>4, FoldTrailingClosed
<1>6. /\ DOMAIN merged' = DOMAIN folded
      /\ \A k \in DOMAIN folded : merged'[k].lines = folded[k].lines
  <2> HIDE DEF folded
  <2> QED BY <1>1 DEF Section
<1>7. (\A k \in DOMAIN merged : Closed(merged[k].lines))'
  <2>1. \A S : Closed(S)' <=> Closed(S)
    BY <1>1, SameTies
  <2> HIDE DEF folded
  <2> QED BY <1>5, <1>6, <2>1
<1> QED BY <1>1, <1>7 DEF WholeInv

\* What a step leaves of merged sections and chunks.
LEMMA SameWhole ==
  ASSUME content' = content, merged' = merged, chunks' = chunks,
         stage \in {"splitting", "cutting", "pushing"}, WholeInv
  PROVE  /\ \A S : Closed(S)' <=> Closed(S)
         /\ (\A k \in DOMAIN merged : Closed(merged[k].lines))'
         /\ (\A c \in DOMAIN chunks : TrimmedOf(chunks[c].lines))'
<1>1. (\A S : Closed(S)' <=> Closed(S)) /\ (\A L : TrimmedOf(L)' <=> TrimmedOf(L))
  BY SameTies
<1>2. /\ \A k \in DOMAIN merged : Closed(merged[k].lines)
      /\ \A c \in DOMAIN chunks : TrimmedOf(chunks[c].lines)
  BY DEF WholeInv
<1>3. (\A k \in DOMAIN merged : Closed(merged[k].lines))'
  BY <1>1, <1>2
<1>4. (\A c \in DOMAIN chunks : TrimmedOf(chunks[c].lines))'
  BY <1>1, <1>2
<1> QED BY <1>1, <1>3, <1>4

\* splitOversizedSection: a section is left whole, or its cutting begins.
LEMMA BeginWhole ==
  ASSUME Tokenizes, TypeInv, WholeInv, KeepWhole \/ BeginCut
  PROVE  WholeInv'
<1> DEFINE S == NextSection.lines
<1>1. /\ stage = "splitting" /\ taken < Len(merged)
      /\ content' = content /\ merged' = merged /\ chunks' = chunks
  BY DEF KeepWhole, BeginCut, Splitting, mergeVars
<1>2. /\ ChunkTypeOK /\ merged \in Seq(Sections) /\ taken \in Nat
  BY <1>1 DEF TypeInv, TypeOK, ChunkTypeOK
<1>3. taken + 1 \in DOMAIN merged
  BY <1>1, <1>2, FromNext
<1>4. Closed(S) /\ S \in SUBSET Position
  <2>1. merged[taken + 1] \in Sections
    BY <1>2, <1>3, ElementOf
  <2> QED BY <1>1, <1>3, <2>1 DEF WholeInv, NextSection, Sections
<1>5. /\ \A T : Closed(T)' <=> Closed(T)
      /\ (\A k \in DOMAIN merged : Closed(merged[k].lines))'
      /\ (\A c \in DOMAIN chunks : TrimmedOf(chunks[c].lines))'
  BY <1>1, SameWhole
<1> HIDE DEF S
<1>6. CASE KeepWhole
  <2>1. bodies' = <<S>> /\ stage' = "pushing"
    BY <1>6 DEF KeepWhole, S
  <2>2. DOMAIN bodies' = {1} /\ bodies'[1] = S
    BY <2>1
  <2>3. (\A b \in DOMAIN bodies : Closed(bodies[b]))'
    BY <1>4, <1>5, <2>2
  <2> QED BY <1>5, <2>1, <2>3 DEF WholeInv
<1>7. CASE BeginCut
  <2>1. /\ rest' = S /\ buffer' = {} /\ bodies' = <<>> /\ stage' = "cutting"
        /\ fence' = NoFence /\ table' = NoTable /\ mdTable' = NoRows
    BY <1>7 DEF BeginCut, S
  <2>2. Closed(buffer \cup rest)'
    <3>1. buffer' \cup rest' = S
      BY <2>1
    <3> QED BY <1>4, <1>5, <3>1
  <2>3. ASSUME NEW i \in rest', \A j \in rest' : i <= j
        PROVE  Say(i, fence, table, mdTable)'
    <3>1. ~Tied(i) /\ i \in Position
      BY <1>2, <1>4, <2>1, <2>3, FirstUntied
    <3>2. Say(i, NoFence, NoTable, NoRows)
      BY <1>2, <3>1, NothingIsOpen
    <3>3. \A f, t, m : Say(i, f, t, m)' <=> Say(i, f, t, m)
      BY <1>1, SameTies
    <3> QED BY <2>1, <3>2, <3>3
  <2>4. (\A i \in rest : (\A j \in rest : i <= j) => TrackersAt(i))'
    BY <2>3 DEF TrackersAt
  <2>5. DOMAIN bodies' = {}
    BY <2>1
  <2> QED BY <1>5, <2>1, <2>2, <2>4, <2>5 DEF WholeInv
<1> QED BY <1>6, <1>7

\* splitOversizedSection returns.
LEMMA EndWhole ==
  ASSUME Tokenizes, TypeInv, WholeInv, EndCut
  PROVE  WholeInv'
<1>1. /\ stage = "cutting" /\ rest = {} /\ stage' = "pushing"
      /\ content' = content /\ merged' = merged /\ chunks' = chunks
      /\ bodies' = FoldShortTrailing(bodies \o Body(buffer))
  BY DEF EndCut, mergeVars
<1>2. ChunkTypeOK /\ bodies \in Seq(SUBSET Position) /\ buffer \in SUBSET Position
  BY DEF TypeInv, TypeOK, ChunkTypeOK
<1>3. Closed(buffer) /\ \A b \in DOMAIN bodies : Closed(bodies[b])
  <2>1. Closed(buffer \cup rest) /\ buffer \cup rest = buffer
    BY <1>1 DEF WholeInv
  <2>2. \A b \in DOMAIN bodies : Closed(bodies[b])
    BY <1>1 DEF WholeInv
  <2> QED BY <2>1, <2>2
<1>4. /\ bodies \o Body(buffer) \in Seq(SUBSET Position)
      /\ \A b \in DOMAIN (bodies \o Body(buffer)) : Closed((bodies \o Body(buffer))[b])
  BY <1>2, <1>3, BodyClosed, ConcatBody
<1>5. \A b \in DOMAIN bodies' : Closed(bodies'[b])
  <2> DEFINE bs == bodies \o Body(buffer)
  <2>1. \A b \in DOMAIN FoldShortTrailing(bs) : Closed(FoldShortTrailing(bs)[b])
    <3> HIDE DEF bs
    <3> QED BY <1>4, FoldShortClosed DEF bs
  <2> QED BY <1>1, <2>1
<1>6. /\ \A T : Closed(T)' <=> Closed(T)
      /\ (\A k \in DOMAIN merged : Closed(merged[k].lines))'
      /\ (\A c \in DOMAIN chunks : TrimmedOf(chunks[c].lines))'
  BY <1>1, SameWhole
<1>7. (\A b \in DOMAIN bodies : Closed(bodies[b]))'
  BY <1>5, <1>6
<1> QED BY <1>1, <1>6, <1>7 DEF WholeInv

\* A chunk takes what is left of a body when the blank lines around it are gone.
LEMMA PushWhole ==
  ASSUME Tokenizes, TypeInv, WholeInv, PushChunk
  PROVE  WholeInv'
<1> DEFINE S       == bodies[pushed + 1]
           trimmed == Trimmed(S)
           chunk   == [lines |-> trimmed, path |-> NextSection.path, tokens |-> Tokens(trimmed)]
<1>1. /\ stage = "pushing" /\ stage' = "pushing" /\ pushed < Len(bodies)
      /\ content' = content /\ merged' = merged /\ bodies' = bodies
      /\ chunks' = chunks \/ chunks' = Append(chunks, chunk)
  BY DEF PushChunk, mergeVars, cutVars
<1>2. /\ ChunkTypeOK /\ bodies \in Seq(SUBSET Position) /\ pushed \in Nat
      /\ chunks \in Seq([lines : SUBSET Position, path : Seq(Position), tokens : Nat])
  BY DEF TypeInv, TypeOK, ChunkTypeOK
<1>3. pushed + 1 \in DOMAIN bodies
  BY <1>1, <1>2, FromNext
<1>4. /\ \A b \in DOMAIN bodies : Closed(bodies[b])
      /\ \A k \in DOMAIN merged : Closed(merged[k].lines)
      /\ \A c \in DOMAIN chunks : TrimmedOf(chunks[c].lines)
  BY <1>1 DEF WholeInv
<1>5. TrimmedOf(trimmed)
  <2>1. Closed(S) /\ S \in SUBSET Position
    BY <1>2, <1>3, <1>4, ElementOf
  <2> QED BY <2>1 DEF TrimmedOf
<1>6. \A c \in DOMAIN chunks' : TrimmedOf(chunks'[c].lines)
  <2>1. CASE chunks' = chunks
    BY <1>4, <2>1
  <2>2. CASE chunks' = Append(chunks, chunk)
    <3>1. /\ \A c \in DOMAIN chunks' : c \in DOMAIN chunks \/ c = Len(chunks) + 1
          /\ \A c \in DOMAIN chunks : chunks'[c] = chunks[c]
          /\ chunks'[Len(chunks) + 1] = chunk
      <4> HIDE DEF chunk
      <4> QED BY <1>2, <2>2
    <3>2. chunk.lines = trimmed
      OBVIOUS
    <3> HIDE DEF chunk, trimmed
    <3> QED BY <1>4, <1>5, <3>1, <3>2
  <2> QED BY <1>1, <2>1, <2>2
<1>7. (\A S2 : Closed(S2)' <=> Closed(S2)) /\ (\A L : TrimmedOf(L)' <=> TrimmedOf(L))
  BY <1>1, SameTies
<1>8. /\ (\A b \in DOMAIN bodies : Closed(bodies[b]))'
      /\ (\A k \in DOMAIN merged : Closed(merged[k].lines))'
  BY <1>1, <1>4, <1>7
<1>9. (\A c \in DOMAIN chunks : TrimmedOf(chunks[c].lines))'
  BY <1>6, <1>7
<1> QED BY <1>1, <1>8, <1>9 DEF WholeInv

\* Between two lines of a section that follow each other there are headings and blank
\* lines only.
LEMMA NoGap ==
  ASSUME TypeInv, CuttingInv, stage = "cutting",
         NEW i \in rest, \A j \in rest : i <= j,
         NEW p \in rest, \A j \in rest \ {i} : p <= j,
         NEW k \in Position, i < k, k < p
  PROVE  Unseen(content[k])
<1>1. /\ ChunkTypeOK /\ taken \in Nat /\ taken < Len(merged) /\ merged \in Seq(Sections)
      /\ rest \in SUBSET Position
  BY DEF TypeInv, TypeOK, ChunkTypeOK
<1>2. /\ taken + 1 \in From(merged, taken + 1) /\ NextSection = merged[taken + 1]
      /\ \A m \in From(merged, taken + 1) : m = taken + 1 \/ m \in From(merged, taken + 2)
      /\ \A m \in From(merged, taken + 2) : taken + 1 < m /\ m \in DOMAIN merged
      /\ taken + 1 \in DOMAIN merged
  BY <1>1, FromNext DEF NextSection
<1>3. /\ SplittingInv /\ CutInto(bodies, buffer, rest)
      /\ i \in NextSection.lines /\ p \in NextSection.lines
  BY DEF CuttingInv, CutInto
<1>4. i \in Int /\ k \in Int /\ p \in Int /\ ~(k < i) /\ ~(p < k)
  BY <1>1 DEF Position
<1>5. k \notin rest
  BY <1>4
<1>6. k \notin Counts
  <2>1. SUFFICES ASSUME k \in Counts
                 PROVE  FALSE
    OBVIOUS
  <2>2. ASSUME NEW c \in DOMAIN chunks, k \in chunks[c].lines
        PROVE  FALSE
    BY <1>2, <1>3, <1>4, <2>2 DEF SplittingInv, MergedInv, Before
  <2>3. ASSUME NEW m \in From(merged, taken + 2), k \in merged[m].lines
        PROVE  FALSE
    BY <1>2, <1>3, <1>4, <2>3 DEF SplittingInv, MergedInv, InOrder, Before
  <2>4. ASSUME k \in NextSection.lines
        PROVE  FALSE
    <3>1. k \in buffer \/ \E b \in DOMAIN bodies : k \in bodies[b]
      BY <1>3, <1>5, <2>1, <2>4 DEF CutInto
    <3> QED BY <1>3, <1>4, <3>1 DEF CutInto, Before
  <2> QED BY <1>2, <1>3, <2>1, <2>2, <2>3, <2>4 DEF SplittingInv
<1>7. Blank(content[k]) \/ Heading(content[k])
  BY <1>6 DEF Counts
<1> QED BY <1>7 DEF Unseen, Blank, Heading, PageHeading, SectionHeading, FenceMarker,
                    TableOpen, TableClose, MdRow

\* splitOversizedSection: a line is read.
LEMMA CutWhole ==
  ASSUME Tokenizes, TypeInv, DocumentInv, WholeInv,
         NEW i \in rest, CutAtomicLine(i) \/ CutPlainLine(i)
  PROVE  WholeInv'
<1> DEFINE B == BodiesAt(i)
           F == BufferAt(i)
<1>1. CutNext(i)
  BY DEF CutAtomicLine, CutPlainLine
<1>2. /\ ChunkTypeOK /\ CuttingInv /\ CutInto(bodies, buffer, rest)
      /\ content' = content /\ merged' = merged /\ chunks' = chunks
      /\ rest' = rest \ {i} /\ \A j \in rest : i <= j
      /\ stage = "cutting" /\ stage' = "cutting"
      /\ fence' = FenceNow(i)
      /\ table' = TableAfter(table, content[i], Tokens({i}), MayOpenTable(i))
      /\ mdTable' = RowsAfter(mdTable, content[i], Tokens({i}), MayOpenRows(i))
  BY <1>1 DEF CutNext, TypeInv, TypeOK, DocumentInv, CuttingInv, mergeVars
<1>3. /\ bodies \in Seq(SUBSET Position) /\ buffer \in SUBSET Position
      /\ rest \in SUBSET Position /\ i \in Position /\ i \in Nat
      /\ B \in Seq(SUBSET Position) /\ F \in SUBSET Position
  <2>1. /\ bodies \in Seq(SUBSET Position) /\ buffer \in SUBSET Position
        /\ rest \in SUBSET Position /\ i \in Position
    BY <1>2 DEF ChunkTypeOK
  <2>2. B \in Seq(SUBSET Position) /\ F \in SUBSET Position
    BY <1>2, <2>1, ConcatBody DEF BodiesAt, BufferAt
  <2> QED BY <2>1, <2>2 DEF Position
<1>4. /\ Closed(buffer \cup rest) /\ \A b \in DOMAIN bodies : Closed(bodies[b])
      /\ TrackersAt(i)
  BY <1>2 DEF WholeInv
<1>5. /\ Tied(i) => Atomic(i) /\ ~Opens(i)
      /\ Tied(i + 1) => Atomic(i)
  BY <1>2, <1>3, <1>4, TiedIsAtomic, TiedToAtomic
<1>6. \A j \in buffer : j < i
  BY <1>2 DEF CutInto, Before
<1>7. /\ Closed(F \cup rest) /\ \A b \in DOMAIN B : Closed(B[b])
      /\ \A j \in F : j < i
  <2>1. CASE ~FlushFirst(i)
    BY <1>4, <1>6, <2>1 DEF BodiesAt, BufferAt
  <2>2. CASE FlushFirst(i)
    <3>1. ~Tied(i)
      BY <1>5, <2>2 DEF FlushFirst
    <3>2. Closed(buffer) /\ Closed(rest)
      BY <1>2, <1>3, <1>4, <1>6, <3>1, CutApart
    <3>3. B = bodies \o Body(buffer) /\ F = {} /\ F \cup rest = rest
      BY <2>2 DEF BodiesAt, BufferAt
    <3>4. \A b \in DOMAIN B : Closed(B[b])
      BY <1>3, <1>4, <3>2, <3>3, BodyClosed
    <3> QED BY <3>2, <3>3, <3>4
  <2> QED BY <2>1, <2>2
<1> HIDE DEF B, F
<1>8. Closed(buffer' \cup rest') /\ \A b \in DOMAIN bodies' : Closed(bodies'[b])
  <2>1. CASE CutAtomicLine(i)
    <3>1. bodies' = B /\ buffer' = F \cup {i}
      BY <2>1 DEF CutAtomicLine, B, F
    <3>2. buffer' \cup rest' = F \cup rest
      BY <1>2, <3>1
    <3> QED BY <1>7, <3>1, <3>2
  <2>2. CASE CutPlainLine(i)
    <3> DEFINE before == IF Overfull(i) THEN B \o Body(F) ELSE B
               base   == IF Overfull(i) THEN {} ELSE F
               full   == base \cup {i}
    <3>1. ~Tied(i) /\ ~Tied(i + 1)
      BY <1>5, <2>2 DEF CutPlainLine
    <3>2. /\ before \in Seq(SUBSET Position) /\ base \in SUBSET Position
          /\ Closed(base \cup rest) /\ \A b \in DOMAIN before : Closed(before[b])
          /\ \A j \in base : j < i
      <4>1. CASE ~Overfull(i)
        BY <1>3, <1>7, <4>1
      <4>2. CASE Overfull(i)
        <5>1. Closed(F) /\ Closed(rest)
          BY <1>2, <1>3, <1>7, <3>1, CutApart
        <5>2. before = B \o Body(F) /\ base = {} /\ base \cup rest = rest
          BY <4>2
        <5>3. B \o Body(F) \in Seq(SUBSET Position)
          BY <1>2, <1>3, ConcatBody
        <5>4. \A b \in DOMAIN (B \o Body(F)) : Closed((B \o Body(F))[b])
          BY <1>3, <1>7, <5>1, BodyClosed
        <5> HIDE DEF before, base
        <5> QED BY <5>1, <5>2, <5>3, <5>4
      <4> QED BY <4>1, <4>2
    <3> HIDE DEF before, base
    <3>3. /\ full \in SUBSET Position /\ full \cup rest' = base \cup rest
          /\ \A j \in full : j < i + 1
          /\ rest' \in SUBSET Position /\ \A j \in rest' : i + 1 <= j
      <4>1. \A j \in base : j \in Nat
        BY <3>2 DEF Position
      <4>2. \A j \in rest : j \in Nat
        BY <1>3 DEF Position
      <4> QED BY <1>2, <1>3, <3>2, <4>1, <4>2
    <3>4. \/ bodies' = before \o Body(full) /\ buffer' = {}
          \/ bodies' = before /\ buffer' = full
      BY <2>2 DEF CutPlainLine, before, base, B, F
    <3>5. Closed(full \cup rest')
      BY <3>2, <3>3
    <3>6. Closed(full) /\ Closed(rest')
      <4> DEFINE p == i + 1
      <4>1. p \in Nat /\ ~Tied(p) /\ (\A j \in full : j < p) /\ \A j \in rest' : p <= j
        BY <1>3, <3>1, <3>3
      <4> HIDE DEF p, full
      <4> QED BY <1>2, <3>3, <3>5, <4>1, CutApart
    <3> HIDE DEF full
    <3>7. \A b \in DOMAIN (before \o Body(full)) : Closed((before \o Body(full))[b])
      BY <3>2, <3>3, <3>6, BodyClosed
    <3>8. CASE bodies' = before \o Body(full) /\ buffer' = {}
      <4>1. buffer' \cup rest' = rest'
        BY <3>8
      <4> QED BY <3>6, <3>7, <3>8, <4>1
    <3>9. CASE bodies' = before /\ buffer' = full
      BY <3>2, <3>5, <3>9
    <3> QED BY <3>4, <3>8, <3>9
  <2> QED BY <2>1, <2>2
<1>9. ASSUME NEW p \in rest', \A j \in rest' : p <= j
      PROVE  Say(p, fence, table, mdTable)'
  <2>1. p \in rest /\ p \in Position /\ i + 1 <= p /\ i + 1 \in Nat /\ 0 < i + 1
    <3>1. p \in Nat /\ p # i /\ i <= p
      BY <1>2, <1>3, <1>9 DEF Position
    <3> QED BY <1>2, <1>3, <1>9, <3>1
  <2>2. Say(i + 1, fence', table', mdTable')
    BY <1>2, <1>3, <1>4, Consumes
  <2>3. fence' \in Trackers /\ table' \in TableTrackers /\ mdTable' \in RowTrackers
    BY <1>2, <1>3, TrackersTyped, TrackerTypes DEF Trackers, TableTrackers, RowTrackers, FenceNow
  <2>4. \A k \in Position : i + 1 <= k /\ k < p => Unseen(content[k])
    <3>1. \A k \in Position : i + 1 <= k => i < k
      BY <1>3 DEF Position
    <3> QED BY <1>2, <1>9, <2>1, <3>1, NoGap
  <2>5. Say(p, fence', table', mdTable')
    <3> DEFINE q == i + 1
    <3> HIDE DEF q
    <3> QED BY <1>2, <2>1, <2>2, <2>3, <2>4, UnseenLines DEF q
  <2>6. \A f, t, m : Say(p, f, t, m)' <=> Say(p, f, t, m)
    BY <1>2, SameTies
  <2> QED BY <2>5, <2>6
<1>10. (\A j \in rest : (\A k \in rest : j <= k) => TrackersAt(j))'
  BY <1>9 DEF TrackersAt
<1>11. /\ \A T : Closed(T)' <=> Closed(T)
       /\ (\A k \in DOMAIN merged : Closed(merged[k].lines))'
       /\ (\A c \in DOMAIN chunks : TrimmedOf(chunks[c].lines))'
  BY <1>2, SameWhole
<1>12. Closed(buffer \cup rest)' /\ (\A b \in DOMAIN bodies : Closed(bodies[b]))'
  BY <1>8, <1>11
<1> QED BY <1>2, <1>10, <1>11, <1>12 DEF WholeInv

\* Steps that leave the lists alone.
LEMMA SettledWhole ==
  ASSUME WholeInv, SectionDone \/ Return
  PROVE  WholeInv'
<1>1. /\ stage \in {"splitting", "pushing"} /\ stage' \in {"splitting", "done"}
      /\ content' = content /\ merged' = merged /\ chunks' = chunks
  BY DEF SectionDone, Return, mergeVars
<1>2. /\ (\A k \in DOMAIN merged : Closed(merged[k].lines))'
      /\ (\A c \in DOMAIN chunks : TrimmedOf(chunks[c].lines))'
  BY <1>1, SameWhole
<1> QED BY <1>1, <1>2 DEF WholeInv

\* Nothing is apart at first,
LEMMA WholeInit ==
  ASSUME Init
  PROVE  WholeInv
BY DEF Init, ChunkInit, WholeInv

\* and no step tears tied lines apart.
LEMMA WholeStep ==
  ASSUME Tokenizes, TypeInv, DocumentInv, WholeInv, [Next]_vars
  PROVE  WholeInv'
<1>1. CASE Clean
  <2>1. chunks' = <<>> /\ stage' = "waiting"
    BY <1>1 DEF Clean, ChunkInit, chunkVars, TypeInv, TypeOK,
                CleanNext, ReadFence, SkipLine, ReadTable, ReadFilename, ReadSwitch, ReadText,
                PastTables, PastSkipping, Reading, EndOfRaw
  <2> QED BY <2>1 DEF WholeInv
<1>2. CASE StartChunking
  <2>1. ChunkInit
    BY <1>2 DEF StartChunking, ChunkMarkdown, TypeInv
  <2>2. /\ line' = 0 /\ sections' = <<>> /\ current' = Section(<<>>, {}) /\ fence' = NoFence
        /\ chunks' = <<>> /\ stage' = "sections"
    BY <1>2, <2>1 DEF StartChunking, ChunkMarkdown, ChunkInit, splitVars
  <2>3. ClosedUpTo(current.lines, line)' /\ ~(0 < line')
    BY <2>2 DEF ClosedUpTo, Section
  <2>4. (TopIn(fence) <=> Fenced(line))'
    <3>1. ~TopIn(fence)'
      BY <2>2 DEF TopIn, NoFence
    <3>2. ~Fenced(line)'
      <4>1. {j \in 1..0 : TopFence(content'[j])} = {}
        OBVIOUS
      <4>2. Cardinality({j \in 1..0 : TopFence(content'[j])}) = 0
        BY <4>1, FS_EmptySet
      <4> QED BY <2>2, <4>2 DEF Fenced, TopFences
    <3> QED BY <3>1, <3>2
  <2>5. (\A k \in DOMAIN sections : Closed(sections[k].lines))'
    BY <2>2
  <2>6. (\A c \in DOMAIN chunks : TrimmedOf(chunks[c].lines))'
    BY <2>2
  <2> QED BY <2>2, <2>3, <2>4, <2>5, <2>6 DEF WholeInv
<1>3. CASE Chunk
  <2>1. CASE ReadPage \/ ReadSection \/ ReadBody \/ EndOfContent
    BY <2>1, SplitWhole
  <2>2. CASE GroupSection
    BY <2>2, GroupWhole
  <2>3. CASE FinishGroups
    BY <2>3, FinishWhole
  <2>4. CASE KeepWhole \/ BeginCut
    BY <2>4, BeginWhole
  <2>5. ASSUME NEW i \in rest, CutAtomicLine(i) \/ CutPlainLine(i)
        PROVE  WholeInv'
    BY <2>5, CutWhole
  <2>6. CASE EndCut
    BY <2>6, EndWhole
  <2>7. CASE PushChunk
    BY <2>7, PushWhole
  <2>8. CASE SectionDone \/ Return
    BY <2>8, SettledWhole
  <2> QED BY <1>3, <2>1, <2>2, <2>3, <2>4, <2>5, <2>6, <2>7, <2>8 DEF Chunk, ChunkNext
<1>4. CASE ParseFails
  BY <1>4 DEF ParseFails, WholeInv
<1>5. CASE UNCHANGED vars
  <2>1. /\ stage' = stage /\ content' = content /\ line' = line /\ fence' = fence
        /\ current' = current /\ sections' = sections /\ pending' = pending
        /\ groups' = groups /\ merged' = merged /\ rest' = rest /\ buffer' = buffer
        /\ bodies' = bodies /\ table' = table /\ mdTable' = mdTable /\ chunks' = chunks
    BY <1>5 DEF vars, chunkVars, splitVars, mergeVars, cutVars
  <2> QED BY <2>1, SameTies DEF WholeInv, TrackersAt, TopIn
<1> QED BY <1>1, <1>2, <1>3, <1>4, <1>5 DEF Next

(***************************************************************************)
(* Lines of the content that are tied, each to the one before it, lie in   *)
(* one chunk.                                                              *)
(***************************************************************************)
\* A set that holds one of them holds all.
LEMMA TiedRun ==
  ASSUME ChunkTypeOK, NEW S \in SUBSET Position, Closed(S),
         NEW i \in Position, NEW j \in Position, i <= j,
         \A z \in Position : i < z /\ z <= j => Tied(z)
  PROVE  /\ j \in S => \A k \in Position : i <= k /\ k <= j => k \in S
         /\ i \in S => \A k \in Position : i <= k /\ k <= j => k \in S
<1>1. Position = 1..Len(content) /\ Len(content) \in Nat
  BY ContentLines
<1>2. ASSUME NEW k \in Position, i < k, k <= j
      PROVE  k - 1 \in S <=> k \in S
  <2>1. k \in 2..Len(content)
    BY <1>1, <1>2
  <2> QED BY <1>2, <2>1 DEF Closed, ClosedUpTo
<1>3. ASSUME i \in S
      PROVE  \A k \in Position : i <= k /\ k <= j => k \in S
  <2> DEFINE Out == {k \in 0..j : i <= k /\ k \notin S}
  <2>1. ASSUME NEW k \in Out
        PROVE  k # 0 /\ k - 1 \in Out
    <3>1. k \in 0..j /\ i <= k /\ k \notin S /\ k # i
      BY <1>3
    <3>2. k \in Position /\ i < k /\ k <= j /\ k - 1 \in 0..j /\ i <= k - 1 /\ k # 0
      BY <1>1, <3>1
    <3> QED BY <1>2, <3>1, <3>2
  <2>2. Out = {}
    <3>1. Out \in SUBSET (0..j) /\ j \in Nat
      BY <1>1
    <3> HIDE DEF Out
    <3> QED BY <2>1, <3>1, NoneIsFirst
  <2>3. \A k \in Position : k <= j => k \in 0..j
    BY <1>1
  <2> QED BY <2>2, <2>3
<1>4. ASSUME j \in S
      PROVE  i \in S
  <2> DEFINE Out == {k \in 0..(j - i) : j - k \notin S}
  <2>1. ASSUME NEW k \in Out
        PROVE  k # 0 /\ k - 1 \in Out
    <3>1. k \in 0..(j - i) /\ j - k \notin S
      OBVIOUS
    <3>2. k # 0
      <4>1. j - 0 = j
        BY <1>1
      <4> QED BY <1>4, <3>1, <4>1
    <3>3. /\ j - (k - 1) \in Position /\ i < j - (k - 1) /\ j - (k - 1) <= j
          /\ (j - (k - 1)) - 1 = j - k /\ k - 1 \in 0..(j - i)
      BY <1>1, <3>1, <3>2
    <3>4. j - (k - 1) \notin S
      BY <1>2, <3>1, <3>3
    <3> QED BY <3>2, <3>3, <3>4
  <2>2. Out = {}
    <3>1. Out \in SUBSET (0..(j - i)) /\ j - i \in Nat
      BY <1>1
    <3> HIDE DEF Out
    <3> QED BY <2>1, <3>1, NoneIsFirst
  <2>3. j - i \in 0..(j - i) /\ j - (j - i) = i
    BY <1>1
  <2> QED BY <2>2, <2>3
<1> QED BY <1>3, <1>4

\* If no two tied lines are parted, all between two lines of the content are in one chunk.
LEMMA TiedLinesInOneChunk ==
  ASSUME TypeInv, DocumentInv, WholeInv, stage = "done",
         NEW c \in DOMAIN chunks, NEW d \in DOMAIN chunks,
         NEW i \in chunks[c].lines, NEW j \in chunks[d].lines, i <= j,
         \A z \in Position : i < z /\ z <= j => Tied(z)
  PROVE  c = d
<1>1. /\ ChunkTypeOK
      /\ chunks \in Seq([lines : SUBSET Position, path : Seq(Position), tokens : Nat])
  BY DEF TypeInv, TypeOK, ChunkTypeOK
<1>2. Position = 1..Len(content) /\ Len(content) \in Nat
  BY <1>1, ContentLines
<1>3. /\ \A a, b \in DOMAIN chunks : a < b => Before(chunks[a].lines, chunks[b].lines)
      /\ \A a \in DOMAIN chunks : TrimmedOf(chunks[a].lines)
      /\ DOMAIN chunks = 1..Len(chunks) /\ Len(chunks) \in Nat
  BY <1>1 DEF DocumentInv, EveryLineOnceInOrder, WholeInv
<1>4. PICK S \in SUBSET Position : Closed(S) /\ chunks[c].lines = Trimmed(S)
  BY <1>3 DEF TrimmedOf
<1>5. PICK T \in SUBSET Position : Closed(T) /\ chunks[d].lines = Trimmed(T)
  BY <1>3 DEF TrimmedOf
<1>6. i \in S /\ j \in T /\ i \in Position /\ j \in Position
  BY <1>4, <1>5 DEF Trimmed
<1>7. \A k \in Position : i <= k /\ k <= j => k \in S
  BY <1>1, <1>4, <1>6, TiedRun
<1>8. ~(d < c)
  <2>1. SUFFICES ASSUME d < c
                 PROVE  FALSE
    OBVIOUS
  <2>2. j < i
    BY <1>3, <2>1 DEF Before
  <2> QED BY <1>2, <1>6, <2>2
<1>9. ~(c < d)
  <2>1. SUFFICES ASSUME c < d
                 PROVE  FALSE
    OBVIOUS
  <2>2. PICK k \in T : k <= j /\ ~Blank(content[k])
    BY <1>5 DEF Trimmed
  <2>3. k \in Nat /\ k <= k /\ k \in Position
    BY <1>2, <2>2
  <2>4. k \in chunks[d].lines
    BY <1>5, <2>2, <2>3 DEF Trimmed
  <2>5. i < k
    BY <1>3, <2>1, <2>4 DEF Before
  <2>6. k \in S
    BY <1>2, <1>6, <1>7, <2>2, <2>3, <2>5
  <2>7. k \in chunks[c].lines
    BY <1>4, <2>2, <2>3, <2>6 DEF Trimmed
  <2>8. k < k
    BY <1>3, <2>1, <2>4, <2>7 DEF Before
  <2> QED BY <2>3, <2>8
<1> QED BY <1>3, <1>8, <1>9
===============================================================================
