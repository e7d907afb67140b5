---------------------------- MODULE CleaningProofs ----------------------------
(***************************************************************************)
(* Theorems about the cleaner of Document, for any pages: what it drops    *)
(* and what it may not drop (CleanerInv is inductive, branch by branch),   *)
(* and where the lines it keeps come to stand (PlacedInv is inductive).    *)
(* With what DocumentProofs says of the chunker: regions stay whole.       *)
(***************************************************************************)
EXTENDS DocumentProofs

-------------------------------------------------------------------------------
(* Subsequences: each chosen element is there, and they are in their order. *)

\* How many of the positions lie up to one of them; it grows with the position.
LEMMA Ranks ==
  ASSUME NEW N \in Nat, NEW P \in SUBSET (1..N)
  PROVE  /\ IsFiniteSet(P) /\ Cardinality(P) \in Nat
         /\ \A k \in P : Cardinality({j \in P : j <= k}) \in 1..Cardinality(P)
         /\ \A k, m \in P : k < m =>
               Cardinality({j \in P : j <= k}) < Cardinality({j \in P : j <= m})
<1> DEFINE upTo(k) == {j \in P : j <= k}
<1>1. IsFiniteSet(P) /\ Cardinality(P) \in Nat
  <2>1. IsFiniteSet(1..N)
    BY FS_Interval
  <2> QED BY <2>1, FS_Subset, FS_CardinalityType
<1>2. \A k \in P : /\ upTo(k) \in SUBSET P /\ k \in upTo(k)
                   /\ IsFiniteSet(upTo(k)) /\ Cardinality(upTo(k)) \in Nat
                   /\ Cardinality(upTo(k)) <= Cardinality(P)
  <2>1. \A k \in P : upTo(k) \in SUBSET P /\ k \in upTo(k)
    OBVIOUS
  <2> HIDE DEF upTo
  <2> QED BY <1>1, <2>1, FS_Subset, FS_CardinalityType
<1>3. \A k \in P : Cardinality(upTo(k)) # 0
  <2> HIDE DEF upTo
  <2> QED BY <1>2, FS_EmptySet
<1>4. ASSUME NEW k \in P, NEW m \in P, k < m
      PROVE  Cardinality(upTo(k)) < Cardinality(upTo(m))
  <2>1. upTo(k) \in SUBSET upTo(m) /\ m \in upTo(m) /\ m \notin upTo(k)
    <3>1. k \in Int /\ m \in Int /\ \A j \in P : j \in Int
      OBVIOUS
    <3>2. \A j \in P : j <= k => j <= m
      BY <1>4, <3>1
    <3>3. m <= m /\ ~(m <= k)
      BY <1>4, <3>1
    <3> QED BY <3>2, <3>3
  <2>2. upTo(k) # upTo(m)
    <3> HIDE DEF upTo
    <3> QED BY <2>1
  <2> HIDE DEF upTo
  <2> QED BY <1>2, <2>1, <2>2, FS_Subset
<1>5. \A k \in P : Cardinality(upTo(k)) \in 1..Cardinality(P)
  <2> HIDE DEF upTo
  <2> QED BY <1>1, <1>2, <1>3
<1> QED BY <1>1, <1>4, <1>5

\* Every position is the n-th for some n, and they grow with n.
LEMMA NthInOrder ==
  ASSUME NEW N \in Nat, NEW P \in SUBSET (1..N)
  PROVE  /\ Cardinality(P) \in Nat
         /\ \A n \in 1..Cardinality(P) : Nth(P, n) \in P
         /\ \A k \in P : \E n \in 1..Cardinality(P) : Nth(P, n) = k
         /\ \A n, m \in 1..Cardinality(P) : n < m => Nth(P, n) < Nth(P, m)
<1> DEFINE rank(k) == Cardinality({j \in P : j <= k})
<1>1. /\ Cardinality(P) \in Nat
      /\ \A k \in P : k \in Int /\ rank(k) \in 1..Cardinality(P)
      /\ \A k, m \in P : k < m => rank(k) < rank(m)
  <2>1. \A k \in P : k \in Int
    OBVIOUS
  <2> QED BY <2>1, Ranks
<1>2. \A n \in 1..Cardinality(P) : Nth(P, n) \in P /\ rank(Nth(P, n)) = n
  BY NthExists
<1> HIDE DEF rank
<1>3. \A k, m \in P : rank(k) = rank(m) => k = m
  <2> SUFFICES ASSUME NEW k \in P, NEW m \in P, rank(k) = rank(m)
               PROVE  k = m
    OBVIOUS
  <2>1. ~(k < m) /\ ~(m < k)
    BY <1>1
  <2> QED BY <1>1, <2>1
<1>4. ASSUME NEW k \in P
      PROVE  \E n \in 1..Cardinality(P) : Nth(P, n) = k
  <2>1. rank(k) \in 1..Cardinality(P)
    BY <1>1
  <2> QED BY <1>2, <1>3, <2>1
<1>5. ASSUME NEW n \in 1..Cardinality(P), NEW m \in 1..Cardinality(P), n < m
      PROVE  Nth(P, n) < Nth(P, m)
  <2> DEFINE k == Nth(P, n)
             l == Nth(P, m)
  <2>1. k \in P /\ l \in P /\ rank(k) = n /\ rank(l) = m
    BY <1>2
  <2> HIDE DEF k, l
  <2>2. ~(l < k) /\ l # k
    BY <1>1, <1>5, <2>1
  <2>3. k < l
    BY <1>1, <2>1, <2>2
  <2> QED BY <2>3 DEF k, l
<1> QED BY <1>1, <1>2, <1>4, <1>5

\* A subsequence has the chosen elements, and no other, in their order.
LEMMA SubsequenceElements ==
  ASSUME NEW T, NEW s \in Seq(T), NEW P \in SUBSET DOMAIN s
  PROVE  LET c == Subsequence(s, P)
         IN  /\ c \in Seq(T)
             /\ \A n \in DOMAIN c : \E p \in P : c[n] = s[p]
             /\ \A p \in P : \E n \in DOMAIN c : c[n] = s[p]
             /\ \A n, m \in DOMAIN c : n < m =>
                   \E p, q \in P : p < q /\ c[n] = s[p] /\ c[m] = s[q]
<1> DEFINE c == Subsequence(s, P)
<1>1. c \in Seq(T)
  BY SubsequenceTyped
<1>2. Len(s) \in Nat /\ P \in SUBSET (1..Len(s))
  OBVIOUS
<1>3. /\ DOMAIN c = 1..Cardinality(P)
      /\ \A n \in 1..Cardinality(P) : c[n] = s[Nth(P, n)]
  BY DEF Subsequence
<1> HIDE DEF c
<1>4. /\ \A n \in DOMAIN c : \E p \in P : c[n] = s[p]
      /\ \A p \in P : \E n \in DOMAIN c : c[n] = s[p]
      /\ \A n, m \in DOMAIN c : n < m =>
            \E p, q \in P : p < q /\ c[n] = s[p] /\ c[m] = s[q]
  <2>1. /\ \A n \in DOMAIN c : Nth(P, n) \in P /\ c[n] = s[Nth(P, n)]
        /\ \A k \in P : \E n \in DOMAIN c : Nth(P, n) = k
        /\ \A n, m \in DOMAIN c : n < m => Nth(P, n) < Nth(P, m)
    BY <1>2, <1>3, NthInOrder
  <2> QED BY <2>1
<1> QED BY <1>1, <1>4 DEF c

\* The elements of a list with another behind it.
LEMMA ConcatElements ==
  ASSUME NEW T, NEW s \in Seq(T), NEW t \in Seq(T)
  PROVE  LET c == s \o t
         IN  /\ c \in Seq(T)
             /\ \A n \in DOMAIN c :
                   \/ n \in DOMAIN s /\ c[n] = s[n]
                   \/ n > Len(s) /\ n - Len(s) \in DOMAIN t /\ c[n] = t[n - Len(s)]
             /\ \A k \in DOMAIN s : k \in DOMAIN c /\ c[k] = s[k]
             /\ \A k \in DOMAIN t : k + Len(s) \in DOMAIN c /\ c[k + Len(s)] = t[k]
OBVIOUS

\* It has the lines of both.
LEMMA ConcatLines ==
  ASSUME NEW s \in Seq(Line), NEW t \in Seq(Line)
  PROVE  /\ \A i : HasLine(s \o t, i) <=> HasLine(s, i) \/ HasLine(t, i)
         /\ WithoutJs(s) /\ WithoutJs(t) => WithoutJs(s \o t)
<1> DEFINE c == s \o t
<1>1. /\ \A n \in DOMAIN c : \/ n \in DOMAIN s /\ c[n] = s[n]
                             \/ n - Len(s) \in DOMAIN t /\ c[n] = t[n - Len(s)]
      /\ \A k \in DOMAIN s : k \in DOMAIN c /\ c[k] = s[k]
      /\ \A k \in DOMAIN t : k + Len(s) \in DOMAIN c /\ c[k + Len(s)] = t[k]
  BY ConcatElements
<1> HIDE DEF c
<1>2. \A i : HasLine(c, i) <=> HasLine(s, i) \/ HasLine(t, i)
  BY <1>1 DEF HasLine
<1>3. WithoutJs(s) /\ WithoutJs(t) => WithoutJs(c)
  BY <1>1 DEF WithoutJs
<1> QED BY <1>2, <1>3 DEF c

\* And it is in order if what is behind comes later.
LEMMA ConcatIncreasing ==
  ASSUME NEW s \in Seq(Line), NEW t \in Seq(Line), Increasing(s), Increasing(t),
         \A k \in DOMAIN s, m \in DOMAIN t : t[m].text # 0 => s[k].text < t[m].text
  PROVE  Increasing(s \o t)
<1> DEFINE c == s \o t
<1>1. /\ \A n \in DOMAIN c : n \in Int
      /\ \A n \in DOMAIN c :
            \/ n \in DOMAIN s /\ c[n] = s[n]
            \/ n > Len(s) /\ n - Len(s) \in DOMAIN t /\ c[n] = t[n - Len(s)]
      /\ Len(s) \in Nat /\ \A n \in DOMAIN s : n <= Len(s)
  <2>1. \A n \in DOMAIN c : n \in Int
    OBVIOUS
  <2>2. Len(s) \in Nat /\ \A n \in DOMAIN s : n <= Len(s)
    OBVIOUS
  <2> HIDE DEF c
  <2> QED BY <2>1, <2>2, ConcatElements DEF c
<1> HIDE DEF c
<1>2. ASSUME NEW k \in DOMAIN c, NEW m \in DOMAIN c, k < m, c[m].text # 0
      PROVE  c[k].text < c[m].text
  <2>1. CASE m \in DOMAIN s /\ c[m] = s[m]
    <3>1. k \in DOMAIN s /\ c[k] = s[k]
      BY <1>1, <1>2, <2>1
    <3> QED BY <1>2, <2>1, <3>1 DEF Increasing
  <2>2. CASE m > Len(s) /\ m - Len(s) \in DOMAIN t /\ c[m] = t[m - Len(s)]
    <3>1. CASE k \in DOMAIN s /\ c[k] = s[k]
      BY <1>2, <2>2, <3>1
    <3>2. CASE k > Len(s) /\ k - Len(s) \in DOMAIN t /\ c[k] = t[k - Len(s)]
      <4>1. k - Len(s) < m - Len(s)
        BY <1>1, <1>2
      <4> QED BY <1>2, <2>2, <3>2, <4>1 DEF Increasing
    <3> QED BY <1>1, <3>1, <3>2
  <2> QED BY <1>1, <2>1, <2>2
<1> QED BY <1>2 DEF Increasing, c

-------------------------------------------------------------------------------
(* convertHtmlTable *)

\* Rows and items are not blank, and keep their text; the separator has none.
LEMMA RowsAndItems ==
  ASSUME NEW l \in Line
  PROVE  /\ AsRow(l) \in Line /\ AsRow(l).text = l.text /\ ~Blank(AsRow(l))
         /\ AsItem(l) \in Line /\ AsItem(l).text = l.text /\ ~Blank(AsItem(l))
         /\ Separator \in Line /\ Separator.text = 0 /\ ~Blank(Separator)
BY DEF AsRow, AsItem, Separator, Line, Kinds, Blank

\* What is left of the lines of a table, in a list of some of its rows.
LEMMA RowsKept ==
  ASSUME NEW t \in Seq(Line), Increasing(t), \A k \in DOMAIN t : t[k].text # 0,
         NEW u \in Seq(Line), DOMAIN u = DOMAIN t,
         \A k \in DOMAIN t : u[k].text = t[k].text /\ ~Blank(u[k]),
         NEW P \in SUBSET DOMAIN t
  PROVE  LET c == Subsequence(u, P)
         IN  /\ c \in Seq(Line)
             /\ \A n \in DOMAIN c : \E k \in P : c[n].text = t[k].text /\ ~Blank(c[n])
             /\ \A k \in P : HasLine(c, t[k].text)
             /\ Increasing(c)
<1> DEFINE c == Subsequence(u, P)
<1>1. /\ c \in Seq(Line)
      /\ \A n \in DOMAIN c : \E p \in P : c[n] = u[p]
      /\ \A p \in P : \E n \in DOMAIN c : c[n] = u[p]
      /\ \A n, m \in DOMAIN c : n < m => \E p, q \in P : p < q /\ c[n] = u[p] /\ c[m] = u[q]
  <2>1. P \in SUBSET DOMAIN u
    OBVIOUS
  <2> QED BY <2>1, SubsequenceElements
<1> HIDE DEF c
<1>2. \A n \in DOMAIN c : \E k \in P : c[n].text = t[k].text /\ ~Blank(c[n])
  BY <1>1
<1>3. \A k \in P : HasLine(c, t[k].text)
  BY <1>1 DEF HasLine
<1>4. Increasing(c)
  <2> SUFFICES ASSUME NEW n \in DOMAIN c, NEW m \in DOMAIN c, n < m
               PROVE  c[n].text < c[m].text
    BY DEF Increasing
  <2>1. PICK p \in P, q \in P : p < q /\ c[n] = u[p] /\ c[m] = u[q]
    BY <1>1
  <2>2. t[p].text < t[q].text
    BY <2>1 DEF Increasing
  <2> QED BY <2>1, <2>2
<1> QED BY <1>1, <1>2, <1>3, <1>4 DEF c

\* A line of a table is left, unless the table has rows and the line is none of them, or
\* another header row stands before it; if every header row stands before all other rows,
\* then the lines left are in their order.
LEMMA ConvertKeeps ==
  ASSUME NEW t \in Seq(Line), Increasing(t), \A k \in DOMAIN t : t[k].text # 0
  PROVE  LET c == Convert(t)
         IN  /\ c \in Seq(Line)
             /\ \A n \in DOMAIN c :
                   \/ c[n].text = 0 /\ ~Blank(c[n])
                   \/ \E k \in DOMAIN t : /\ c[n].text = t[k].text
                                          /\ c[n] = t[k] \/ ~Blank(c[n])
             /\ \A k \in DOMAIN t :
                   \/ HasLine(c, t[k].text)
                   \/ /\ \E r \in DOMAIN t : TableRow(t[r])
                      /\ TableRow(t[k]) =>
                            HeaderRow(t[k]) /\ \E h \in DOMAIN t : h < k /\ HeaderRow(t[h])
             /\ (\A h, r \in DOMAIN t : HeaderRow(t[h]) /\ r < h => ~TableRow(t[r]))
                   => Increasing(c)
<1> DEFINE rows  == {k \in DOMAIN t : TableRow(t[k])}
           heads == {k \in rows : HeaderRow(t[k])}
           items == [k \in DOMAIN t |-> AsItem(t[k])]
           cells == [k \in DOMAIN t |-> AsRow(t[k])]
           list  == Subsequence(items, rows)
           body  == Subsequence(cells, rows \ heads)
           first == Nth(heads, 1)
           top   == <<AsRow(t[first]), Separator>>
           c     == Convert(t)
<1>1. \A k \in DOMAIN t : t[k] \in Line
  BY ElementOf
<1>2. /\ items \in Seq(Line) /\ DOMAIN items = DOMAIN t
      /\ cells \in Seq(Line) /\ DOMAIN cells = DOMAIN t
      /\ \A k \in DOMAIN t : items[k].text = t[k].text /\ ~Blank(items[k])
      /\ \A k \in DOMAIN t : cells[k].text = t[k].text /\ ~Blank(cells[k])
  <2>1. \A k \in DOMAIN t : AsItem(t[k]) \in Line /\ AsRow(t[k]) \in Line
    BY <1>1, RowsAndItems
  <2>2. items \in Seq(Line) /\ cells \in Seq(Line)
    BY <2>1
  <2> QED BY <1>1, <2>2, RowsAndItems
<1>3. rows \in SUBSET DOMAIN t /\ heads \in SUBSET rows /\ (rows \ heads) \in SUBSET DOMAIN t
  OBVIOUS
<1>4. c = IF rows = {} THEN t ELSE IF heads = {} THEN list ELSE top \o body
  BY DEF Convert
<1>5. c \in Seq(Line)
  BY ConvertTyped
<1>6. \A k \in rows : TableRow(t[k]) /\ k \in DOMAIN t
  OBVIOUS
<1>7. \A k \in DOMAIN t : TableRow(t[k]) => k \in rows
  OBVIOUS
<1>8. \A k \in rows : HeaderRow(t[k]) => k \in heads
  OBVIOUS
<1>9. \A k \in heads : HeaderRow(t[k])
  OBVIOUS
<1>10. \A h \in DOMAIN t : HeaderRow(t[h]) => h \in heads
  BY DEF HeaderRow, TableRow
<1> HIDE DEF rows, heads, items, cells, c
<1>11. CASE rows = {}
  <2>1. c = t
    BY <1>4, <1>11
  <2>2. \A k \in DOMAIN t : HasLine(t, t[k].text)
    BY DEF HasLine
  <2> QED BY <1>5, <2>1, <2>2 DEF c
<1>12. CASE rows # {} /\ heads = {}
  <2>1. c = list
    BY <1>4, <1>12
  <2>2. /\ \A n \in DOMAIN list : \E k \in rows : list[n].text = t[k].text /\ ~Blank(list[n])
        /\ \A k \in rows : HasLine(list, t[k].text)
        /\ Increasing(list)
    BY <1>2, <1>3, RowsKept
  <2> HIDE DEF list
  <2>3. \A n \in DOMAIN c : \E k \in DOMAIN t : c[n].text = t[k].text /\ ~Blank(c[n])
    BY <1>3, <2>1, <2>2
  <2>4. \A k \in DOMAIN t : HasLine(c, t[k].text) \/ ~TableRow(t[k])
    BY <1>7, <2>1, <2>2
  <2>5. \E r \in DOMAIN t : TableRow(t[r])
    BY <1>6, <1>12
  <2> QED BY <1>5, <2>1, <2>2, <2>3, <2>4, <2>5 DEF c
<1>13. CASE rows # {} /\ heads # {}
  <2>1. first \in heads /\ \A h \in heads : first <= h
    <3>1. Len(t) \in Nat /\ heads \in SUBSET (1..Len(t))
      BY <1>3
    <3>2. /\ Cardinality(heads) \in Nat
          /\ \A n \in 1..Cardinality(heads) : Nth(heads, n) \in heads
          /\ \A k \in heads : \E n \in 1..Cardinality(heads) : Nth(heads, n) = k
          /\ \A n, m \in 1..Cardinality(heads) : n < m => Nth(heads, n) < Nth(heads, m)
      BY <3>1, NthInOrder
    <3>3. 1 \in 1..Cardinality(heads)
      BY <1>13, <3>2
    <3>4. ASSUME NEW h \in heads
          PROVE  first <= h
      <4>1. PICK n \in 1..Cardinality(heads) : Nth(heads, n) = h
        BY <3>2
      <4>2. n = 1 \/ 1 < n
        BY <3>2
      <4>3. h \in Int /\ first \in Int
        <5>1. \A k \in heads : k \in Int
          BY <3>1
        <5>2. first \in heads
          BY <3>2, <3>3
        <5> HIDE DEF first
        <5> QED BY <5>1, <5>2
      <4> QED BY <3>2, <3>3, <4>1, <4>2, <4>3
    <3> QED BY <3>2, <3>3, <3>4
  <2> HIDE DEF first
  <2>2. first \in DOMAIN t /\ t[first] \in Line /\ first \in rows
    BY <1>1, <1>3, <2>1
  <2>3. /\ top \in Seq(Line) /\ DOMAIN top = {1, 2} /\ Len(top) = 2
        /\ top[1].text = t[first].text /\ ~Blank(top[1])
        /\ top[2].text = 0 /\ ~Blank(top[2])
    <3>1. AsRow(t[first]) \in Line /\ Separator \in Line
      BY <2>2, RowsAndItems
    <3>2. top \in Seq(Line) /\ DOMAIN top = {1, 2} /\ Len(top) = 2
      BY <3>1
    <3> QED BY <2>2, <3>2, RowsAndItems
  <2>4. /\ body \in Seq(Line)
        /\ \A n \in DOMAIN body :
              \E k \in rows \ heads : body[n].text = t[k].text /\ ~Blank(body[n])
        /\ \A k \in rows \ heads : HasLine(body, t[k].text)
        /\ Increasing(body)
    BY <1>2, <1>3, RowsKept
  <2> HIDE DEF top, body
  <2>5. c = top \o body
    BY <1>4, <1>13
  <2>6. \A n \in DOMAIN c : \/ n \in DOMAIN top /\ c[n] = top[n]
                            \/ n - Len(top) \in DOMAIN body /\ c[n] = body[n - Len(top)]
    <3>2. top \in Seq(Line) /\ body \in Seq(Line)
      BY <2>3, <2>4
    <3>1. \A n \in DOMAIN (top \o body) :
             \/ n \in DOMAIN top /\ (top \o body)[n] = top[n]
             \/ n - Len(top) \in DOMAIN body /\ (top \o body)[n] = body[n - Len(top)]
      BY <3>2, ConcatElements
    <3> QED BY <2>5, <3>1
  <2>7. \A n \in DOMAIN c : \/ c[n].text = 0 /\ ~Blank(c[n])
                            \/ \E k \in DOMAIN t : c[n].text = t[k].text /\ ~Blank(c[n])
    <3> SUFFICES ASSUME NEW n \in DOMAIN c
                 PROVE  \/ c[n].text = 0 /\ ~Blank(c[n])
                        \/ \E k \in DOMAIN t : c[n].text = t[k].text /\ ~Blank(c[n])
      OBVIOUS
    <3>1. CASE n \in DOMAIN top /\ c[n] = top[n]
      BY <2>2, <2>3, <3>1
    <3>2. CASE n - Len(top) \in DOMAIN body /\ c[n] = body[n - Len(top)]
      BY <1>3, <2>4, <3>2
    <3> QED BY <2>6, <3>1, <3>2
  <2>8. \A i : HasLine(c, i) <=> HasLine(top, i) \/ HasLine(body, i)
    BY <2>3, <2>4, <2>5, ConcatLines
  <2>9. HasLine(top, t[first].text)
    BY <2>3 DEF HasLine
  <2>10. ASSUME NEW k \in DOMAIN t, TableRow(t[k]), ~HasLine(c, t[k].text)
         PROVE  HeaderRow(t[k]) /\ \E h \in DOMAIN t : h < k /\ HeaderRow(t[h])
    <3>1. k \in rows /\ k \notin rows \ heads /\ k # first
      BY <1>7, <2>4, <2>8, <2>9, <2>10
    <3>2. k \in heads /\ first < k
      <4>1. k \in heads
        BY <3>1
      <4>2. k \in Int /\ first \in Int
        BY <2>2
      <4> QED BY <2>1, <3>1, <4>1, <4>2
    <3> QED BY <1>9, <2>1, <2>2, <3>2
  <2>11. ASSUME \A h, r \in DOMAIN t : HeaderRow(t[h]) /\ r < h => ~TableRow(t[r])
         PROVE  Increasing(c)
    <3>1. \A r \in rows \ heads : first < r
      <4> SUFFICES ASSUME NEW r \in rows \ heads
                   PROVE  first < r
        OBVIOUS
      <4>1. r \in DOMAIN t /\ TableRow(t[r]) /\ HeaderRow(t[first]) /\ r # first
        BY <1>6, <1>9, <2>1
      <4>2. ~(r < first)
        BY <2>2, <2>11, <4>1
      <4>3. r \in Int /\ first \in Int
        BY <2>2, <4>1
      <4> QED BY <4>1, <4>2, <4>3
    <3>2. \A r \in rows \ heads : t[first].text < t[r].text /\ 0 < t[r].text
      <4> SUFFICES ASSUME NEW r \in rows \ heads
                   PROVE  t[first].text < t[r].text /\ 0 < t[r].text
        OBVIOUS
      <4>1. r \in DOMAIN t /\ first < r
        BY <1>6, <3>1
      <4>2. t[r].text # 0 /\ t[r].text \in Nat
        BY <1>1, <4>1 DEF Line
      <4> QED BY <2>2, <4>1, <4>2 DEF Increasing
    <3>3. Increasing(top)
      BY <2>3 DEF Increasing
    <3>4. \A k \in DOMAIN top, m \in DOMAIN body : top[k].text < body[m].text
      BY <2>3, <2>4, <3>2
    <3> QED BY <2>3, <2>4, <2>5, <3>3, <3>4, ConcatIncreasing
  <2>12. \E r \in DOMAIN t : TableRow(t[r])
    BY <1>6, <1>13
  <2> QED BY <1>5, <2>7, <2>10, <2>11, <2>12 DEF c
<1> QED BY <1>11, <1>12, <1>13

\* Collapsing blank lines keeps every other line, and the order.
LEMMA CollapsedKeeps ==
  ASSUME NEW s \in Seq(Line)
  PROVE  LET c == Collapsed(s)
         IN  /\ c \in Seq(Line)
             /\ \A n \in DOMAIN c : \E k \in DOMAIN s : c[n] = s[k]
             /\ \A k \in DOMAIN s : Blank(s[k]) \/ HasLine(c, s[k].text)
             /\ Increasing(s) => Increasing(c)
             /\ WithoutJs(s) => WithoutJs(c)
<1> DEFINE P == {k \in DOMAIN s : ~(2 < k /\ k < Len(s) /\ Blank(s[k]) /\ Blank(s[k - 1]))}
           c == Subsequence(s, P)
<1>1. P \in SUBSET DOMAIN s /\ \A k \in DOMAIN s : Blank(s[k]) \/ k \in P
  OBVIOUS
<1>2. Collapsed(s) = c
  BY DEF Collapsed
<1> HIDE DEF P
<1>3. /\ c \in Seq(Line)
      /\ \A n \in DOMAIN c : \E p \in P : c[n] = s[p]
      /\ \A p \in P : \E n \in DOMAIN c : c[n] = s[p]
      /\ \A n, m \in DOMAIN c : n < m => \E p, q \in P : p < q /\ c[n] = s[p] /\ c[m] = s[q]
  BY <1>1, SubsequenceElements
<1> HIDE DEF c
<1>4. \A k \in DOMAIN s : Blank(s[k]) \/ HasLine(c, s[k].text)
  BY <1>1, <1>3 DEF HasLine
<1>5. ASSUME Increasing(s)
      PROVE  Increasing(c)
  <2> SUFFICES ASSUME NEW n \in DOMAIN c, NEW m \in DOMAIN c, n < m, c[m].text # 0
               PROVE  c[n].text < c[m].text
    BY DEF Increasing
  <2>1. PICK p \in P, q \in P : p < q /\ c[n] = s[p] /\ c[m] = s[q]
    BY <1>3
  <2> QED BY <1>1, <1>5, <2>1 DEF Increasing
<1>6. WithoutJs(s) => WithoutJs(c)
  BY <1>1, <1>3 DEF WithoutJs
<1>7. \A n \in DOMAIN c : \E k \in DOMAIN s : c[n] = s[k]
  BY <1>1, <1>3
<1> QED BY <1>2, <1>3, <1>4, <1>5, <1>6, <1>7

-------------------------------------------------------------------------------
(* The flags of the loop *)

\* The page does not change, and neither does what is said of it.
LEMMA SameRaw ==
  ASSUME raw' = raw
  PROVE  /\ \A i : (InFence(i)' <=> InFence(i)) /\ (JsHalf(i)' <=> JsHalf(i))
                   /\ (MayGo(i)' <=> MayGo(i))
                   /\ (OpenTableBefore(i)' <=> OpenTableBefore(i))
         /\ \A a, i : OpenTable(a, i)' <=> OpenTable(a, i)
         /\ \A s : WithoutJs(s)' <=> WithoutJs(s)
         /\ NoneOvertakes' <=> NoneOvertakes
<1>1. \A i : Fences(i)' = Fences(i)
  BY DEF Fences
<1>2. \A i : InFence(i)' <=> InFence(i)
  BY <1>1 DEF InFence
<1>3. \A a, i : OpenTable(a, i)' <=> OpenTable(a, i)
  BY <1>2 DEF OpenTable
<1>4. \A i : OpenTableBefore(i)' <=> OpenTableBefore(i)
  BY <1>3 DEF OpenTableBefore
<1>5. \A i, kinds : Directive(i, kinds)' <=> Directive(i, kinds)
  BY <1>2, <1>4 DEF Directive
<1>6. \A i : JsHalf(i)' <=> JsHalf(i)
  BY <1>1, <1>2, <1>5 DEF JsHalf
<1>7. \A a, b : TableAt(a, b)' <=> TableAt(a, b)
  BY <1>2 DEF TableAt
<1>8. \A i : MayGo(i)' <=> MayGo(i)
  BY <1>5, <1>6, <1>7 DEF MayGo
<1>9. \A i : Overtakes(i)' <=> Overtakes(i)
  BY <1>3 DEF Overtakes
<1>10. \A s : WithoutJs(s)' <=> WithoutJs(s)
  BY <1>6 DEF WithoutJs
<1>11. NoneOvertakes' <=> NoneOvertakes
  BY <1>9 DEF NoneOvertakes
<1> QED BY <1>2, <1>3, <1>4, <1>6, <1>8, <1>10, <1>11

\* A marker is counted, and nothing else is.
LEMMA FencesGrow ==
  ASSUME raw \in Seq(Line), NEW i \in DOMAIN raw
  PROVE  /\ Fences(i - 1) \in Nat
         /\ Fences(i) = IF TopFence(raw[i]) THEN Fences(i - 1) + 1 ELSE Fences(i - 1)
         /\ \A j \in 1..(i - 1) : Fences(j) \in Nat /\ Fences(j) <= Fences(i - 1)
         /\ InFence(i) <=> (InFence(i - 1) <=> ~TopFence(raw[i]))
<1> DEFINE upTo(n) == {j \in 1..n : TopFence(raw[j])}
<1>1. i \in Nat /\ i >= 1 /\ i \in 1..Len(raw) /\ i - 1 \in Nat
  OBVIOUS
<1>2. \A n \in Nat : IsFiniteSet(upTo(n)) /\ Cardinality(upTo(n)) \in Nat
  <2> SUFFICES ASSUME NEW n \in Nat
               PROVE  IsFiniteSet(upTo(n)) /\ Cardinality(upTo(n)) \in Nat
    OBVIOUS
  <2>1. upTo(n) \in SUBSET (1..n) /\ IsFiniteSet(1..n)
    BY FS_Interval
  <2> HIDE DEF upTo
  <2> QED BY <2>1, FS_Subset, FS_CardinalityType
<1>3. \A n : Fences(n) = Cardinality(upTo(n))
  BY DEF Fences
<1>4. upTo(i) = IF TopFence(raw[i]) THEN upTo(i - 1) \cup {i} ELSE upTo(i - 1)
  <2>1. 1..i = (1..(i - 1)) \cup {i}
    BY <1>1
  <2> QED BY <2>1
<1>5. i \notin upTo(i - 1)
  BY <1>1
<1>6. \A j \in 1..(i - 1) : j \in Nat /\ upTo(j) \in SUBSET upTo(i - 1)
  <2>1. \A j \in 1..(i - 1) : j \in Nat /\ \A k \in 1..j : k \in 1..(i - 1)
    BY <1>1
  <2> QED BY <2>1
<1> HIDE DEF upTo
<1>7. Fences(i - 1) \in Nat
  BY <1>1, <1>2, <1>3
<1>8. Fences(i) = IF TopFence(raw[i]) THEN Fences(i - 1) + 1 ELSE Fences(i - 1)
  <2>1. Cardinality(upTo(i - 1) \cup {i}) = Cardinality(upTo(i - 1)) + 1
    BY <1>1, <1>2, <1>5, FS_AddElement
  <2> QED BY <1>3, <1>4, <2>1
<1>9. \A j \in 1..(i - 1) : Fences(j) \in Nat /\ Fences(j) <= Fences(i - 1)
  BY <1>1, <1>2, <1>3, <1>6, FS_Subset
<1>10. InFence(i) <=> (InFence(i - 1) <=> ~TopFence(raw[i]))
  <2>1. CASE TopFence(raw[i])
    BY <1>7, <1>8, <2>1 DEF InFence
  <2>2. CASE ~TopFence(raw[i])
    BY <1>7, <1>8, <2>2 DEF InFence
  <2> QED BY <2>1, <2>2
<1> QED BY <1>7, <1>8, <1>9, <1>10

\* Which tables are open behind a line.
LEMMA OpenTableNext ==
  ASSUME raw \in Seq(Line), NEW i \in DOMAIN raw
  PROVE  /\ \A a \in 1..(i - 1) : OpenTable(a, i + 1) <=> OpenTable(a, i) /\ ~TableClose(raw[i])
         /\ OpenTable(i, i + 1) <=> OpensTable(raw[i]) /\ ~InFence(i) /\ ~TableClose(raw[i])
         /\ OpenTableBefore(i + 1) <=> /\ ~TableClose(raw[i])
                                       /\ \/ OpenTableBefore(i)
                                          \/ OpensTable(raw[i]) /\ ~InFence(i)
<1>1. i \in Nat /\ i >= 1
  OBVIOUS
<1>2. ASSUME NEW a \in 1..(i - 1)
      PROVE  OpenTable(a, i + 1) <=> OpenTable(a, i) /\ ~TableClose(raw[i])
  <2>1. a..((i + 1) - 1) = a..(i - 1) \cup {i}
    BY <1>1
  <2> QED BY <2>1 DEF OpenTable
<1>3. OpenTable(i, i + 1) <=> OpensTable(raw[i]) /\ ~InFence(i) /\ ~TableClose(raw[i])
  <2>1. i..((i + 1) - 1) = {i}
    BY <1>1
  <2> QED BY <2>1 DEF OpenTable
<1>4. 1..((i + 1) - 1) = 1..(i - 1) \cup {i}
  BY <1>1
<1>5. OpenTableBefore(i + 1) <=> /\ ~TableClose(raw[i])
                                 /\ \/ OpenTableBefore(i)
                                    \/ OpensTable(raw[i]) /\ ~InFence(i)
  BY <1>2, <1>3, <1>4 DEF OpenTableBefore
<1> QED BY <1>2, <1>3, <1>5

\* Where the JavaScript half is at a line.
LEMMA JsHalfNext ==
  ASSUME raw \in Seq(Line), NEW i \in DOMAIN raw
  PROVE  /\ TopFence(raw[i]) => ~JsHalf(i)
         /\ ~TopFence(raw[i]) =>
               (JsHalf(i) <=> JsHalf(i - 1) \/ Directive(i, {"switch"}))
<1>1. i \in Nat /\ i >= 1 /\ 1..i = 1..(i - 1) \cup {i}
  OBVIOUS
<1>2. /\ Fences(i - 1) \in Nat
      /\ Fences(i) = IF TopFence(raw[i]) THEN Fences(i - 1) + 1 ELSE Fences(i - 1)
      /\ \A j \in 1..(i - 1) : Fences(j) \in Nat /\ Fences(j) <= Fences(i - 1)
      /\ InFence(i) <=> (InFence(i - 1) <=> ~TopFence(raw[i]))
  BY FencesGrow
<1>3. CASE TopFence(raw[i])
  <2>1. \A j \in 1..(i - 1) : Fences(j) # Fences(i)
    BY <1>2, <1>3
  <2>2. ~Directive(i, {"switch"})
    BY <1>3 DEF Directive, TopFence
  <2> QED BY <1>1, <1>3, <2>1, <2>2 DEF JsHalf
<1>4. CASE ~TopFence(raw[i])
  <2>1. Fences(i) = Fences(i - 1) /\ (InFence(i) <=> InFence(i - 1))
    BY <1>2, <1>4
  <2>2. Directive(i, {"switch"}) => InFence(i)
    BY DEF Directive
  <2> QED BY <1>1, <1>4, <2>1, <2>2 DEF JsHalf
<1> QED BY <1>3, <1>4

ReadsLine == ReadFence \/ SkipLine \/ ReadTable \/ ReadFilename \/ ReadSwitch \/ ReadText

\* What the flags say of the line that is read next.
LEMMA FlagsNow ==
  ASSUME CleanTypeOK, FlagsInv, Reading
  PROVE  /\ read \in Nat /\ read + 1 \in DOMAIN raw /\ NextRaw = raw[read + 1] /\ NextRaw \in Line
         /\ InFence(read + 1) <=> (insideFence <=> ~TopFence(NextRaw))
         /\ TopFence(NextRaw) => ~JsHalf(read + 1)
         /\ ~TopFence(NextRaw) =>
               (JsHalf(read + 1) <=> \/ skippingSwitchBranch
                                     \/ Directive(read + 1, {"switch"}))
         /\ \A kinds : Directive(read + 1, kinds) <=>
               InFence(read + 1) /\ NextRaw.kind \in kinds /\ tableBuffer = <<>>
         /\ OpenTableBefore((read + 1) + 1) <=>
               /\ ~TableClose(NextRaw)
               /\ \/ tableBuffer # <<>>
                  \/ OpensTable(NextRaw) /\ ~InFence(read + 1)
<1>1. /\ read \in Nat /\ raw \in Seq(Line) /\ read + 1 \in DOMAIN raw
      /\ NextRaw = raw[read + 1] /\ (read + 1) - 1 = read
  BY DEF CleanTypeOK, Reading, NextRaw
<1>2. NextRaw \in Line
  BY <1>1, ElementOf
<1>3. InFence(read + 1) <=> (insideFence <=> ~TopFence(NextRaw))
  BY <1>1, FencesGrow DEF FlagsInv
<1>4. /\ TopFence(NextRaw) => ~JsHalf(read + 1)
      /\ ~TopFence(NextRaw) =>
            (JsHalf(read + 1) <=> \/ skippingSwitchBranch
                                  \/ Directive(read + 1, {"switch"}))
  BY <1>1, JsHalfNext DEF FlagsInv
<1>5. \A kinds : Directive(read + 1, kinds) <=>
         InFence(read + 1) /\ NextRaw.kind \in kinds /\ tableBuffer = <<>>
  BY <1>1 DEF Directive, FlagsInv
<1>6. OpenTableBefore((read + 1) + 1) <=>
         /\ ~TableClose(NextRaw)
         /\ \/ tableBuffer # <<>>
            \/ OpensTable(NextRaw) /\ ~InFence(read + 1)
  BY <1>1, OpenTableNext DEF FlagsInv
<1> QED BY <1>1, <1>2, <1>3, <1>4, <1>5, <1>6

\* The table with the line that is read, if there is one.
LEMMA TableGrows ==
  ASSUME CleanTypeOK, FlagsInv, BufferInv, \A i \in DOMAIN raw : raw[i].text = i,
         ReadTable
  PROVE  LET grown == Append(tableBuffer, NextRaw)
         IN  /\ grown \in Seq(Line) /\ grown # <<>>
             /\ \A k \in DOMAIN grown : /\ grown[k].text \in 1..(read + 1)
                                        /\ grown[k] = raw[grown[k].text]
                                        /\ grown[1].text <= grown[k].text
             /\ \A k \in DOMAIN grown : \/ k \in DOMAIN tableBuffer /\ grown[k] = tableBuffer[k]
                                        \/ grown[k] = NextRaw
             /\ Increasing(grown)
             /\ OpenTable(grown[1].text, read + 1)
             /\ \A i : HasLine(grown, i) <=> HasLine(tableBuffer, i) \/ i = read + 1
<1> DEFINE grown == Append(tableBuffer, NextRaw)
<1>1. /\ Reading /\ ~TopFence(NextRaw) /\ ~skippingSwitchBranch
      /\ tableBuffer # <<>> \/ (~insideFence /\ OpensTable(NextRaw))
  BY DEF ReadTable, PastSkipping
<1>2. /\ read \in Nat /\ read + 1 \in DOMAIN raw /\ NextRaw = raw[read + 1] /\ NextRaw \in Line
      /\ InFence(read + 1) <=> (insideFence <=> ~TopFence(NextRaw))
  BY <1>1, FlagsNow
<1>3. NextRaw.text = read + 1
  BY <1>2
<1>4. tableBuffer \in Seq(Line)
  BY DEF CleanTypeOK
<1>5. /\ grown \in Seq(Line) /\ grown # <<>>
      /\ DOMAIN grown = DOMAIN tableBuffer \cup {Len(tableBuffer) + 1}
      /\ \A k \in DOMAIN tableBuffer : grown[k] = tableBuffer[k]
      /\ grown[Len(tableBuffer) + 1] = NextRaw
  BY <1>2, <1>4, AppendElements
<1>6. /\ Len(tableBuffer) \in Nat
      /\ \A k \in DOMAIN tableBuffer : k \in Int /\ k < Len(tableBuffer) + 1
      /\ tableBuffer = <<>> => Len(tableBuffer) = 0
      /\ tableBuffer # <<>> => 1 \in DOMAIN tableBuffer
  BY <1>4
<1> HIDE DEF grown
<1>7. \A k \in DOMAIN grown : \/ k \in DOMAIN tableBuffer /\ grown[k] = tableBuffer[k]
                              \/ grown[k] = NextRaw /\ k = Len(tableBuffer) + 1
  BY <1>5
<1>8. \A k \in DOMAIN grown : /\ grown[k].text \in 1..(read + 1)
                              /\ grown[k] = raw[grown[k].text]
  <2>1. \A k \in DOMAIN tableBuffer : /\ tableBuffer[k].text \in 1..(read + 1)
                                      /\ tableBuffer[k] = raw[tableBuffer[k].text]
    BY <1>2 DEF BufferInv
  <2>2. NextRaw.text \in 1..(read + 1) /\ NextRaw = raw[NextRaw.text]
    BY <1>2, <1>3
  <2> QED BY <1>7, <2>1, <2>2
<1>9. Increasing(grown)
  <2> SUFFICES ASSUME NEW k \in DOMAIN grown, NEW m \in DOMAIN grown, k < m, grown[m].text # 0
               PROVE  grown[k].text < grown[m].text
    BY DEF Increasing
  <2>1. k \in DOMAIN tableBuffer /\ grown[k] = tableBuffer[k]
    BY <1>6, <1>7
  <2>2. CASE m \in DOMAIN tableBuffer /\ grown[m] = tableBuffer[m]
    BY <2>1, <2>2 DEF BufferInv, Increasing
  <2>3. CASE grown[m] = NextRaw
    BY <1>2, <1>3, <2>1, <2>3 DEF BufferInv
  <2> QED BY <1>7, <2>2, <2>3
<1>10. 1 \in DOMAIN grown /\ \A k \in DOMAIN grown : k \in Int /\ (k = 1 \/ 1 < k)
  <2>1. grown \in Seq(Line) /\ grown # <<>>
    BY <1>5
  <2>2. Len(grown) \in Nat /\ DOMAIN grown = 1..Len(grown) /\ Len(grown) # 0
    BY <2>1
  <2> QED BY <2>2
<1>11. \A k \in DOMAIN grown : grown[1].text <= grown[k].text
  <2> SUFFICES ASSUME NEW k \in DOMAIN grown
               PROVE  grown[1].text <= grown[k].text
    OBVIOUS
  <2>1. grown[1].text \in 1..(read + 1) /\ grown[k].text \in 1..(read + 1)
    BY <1>8, <1>10
  <2>2. CASE k = 1
    BY <2>1, <2>2
  <2>3. CASE 1 < k
    BY <1>9, <1>10, <2>1, <2>3 DEF Increasing
  <2> QED BY <1>10, <2>2, <2>3
<1>12. OpenTable(grown[1].text, read + 1)
  <2>1. CASE tableBuffer # <<>>
    BY <1>5, <1>6, <2>1 DEF BufferInv
  <2>2. CASE tableBuffer = <<>>
    <3>1. grown[1].text = read + 1
      BY <1>3, <1>5, <1>6, <2>2
    <3>2. OpensTable(NextRaw) /\ ~InFence(read + 1)
      BY <1>1, <1>2, <2>2
    <3>3. (read + 1)..((read + 1) - 1) = {}
      BY <1>2
    <3> QED BY <1>2, <3>1, <3>2, <3>3 DEF OpenTable
  <2> QED BY <2>1, <2>2
<1>13. \A i : HasLine(grown, i) <=> HasLine(tableBuffer, i) \/ i = read + 1
  BY <1>3, <1>5 DEF HasLine
<1> QED BY <1>5, <1>7, <1>8, <1>9, <1>11, <1>12, <1>13 DEF grown

\* The flags follow the page.
LEMMA FlagsStep ==
  ASSUME CleanTypeOK, skippingSwitchBranch => insideFence, FlagsInv, ReadsLine
  PROVE  FlagsInv'
<1>1. Reading /\ raw' = raw /\ read' = read + 1
  BY DEF ReadsLine, ReadFence, SkipLine, ReadTable, ReadFilename, ReadSwitch, ReadText,
         PastTables, PastSkipping, ReadOn
<1>2. InFence(read + 1) <=> (insideFence <=> ~TopFence(NextRaw))
  BY <1>1, FlagsNow
<1>3. /\ TopFence(NextRaw) => ~JsHalf(read + 1)
      /\ ~TopFence(NextRaw) =>
            (JsHalf(read + 1) <=> \/ skippingSwitchBranch
                                  \/ Directive(read + 1, {"switch"}))
  BY <1>1, FlagsNow
<1>4. Directive(read + 1, {"switch"}) <=>
         InFence(read + 1) /\ NextRaw.kind = "switch" /\ tableBuffer = <<>>
  <2>1. Directive(read + 1, {"switch"}) <=>
           InFence(read + 1) /\ NextRaw.kind \in {"switch"} /\ tableBuffer = <<>>
    BY <1>1, FlagsNow
  <2> QED BY <2>1
<1>5. OpenTableBefore((read + 1) + 1) <=>
            /\ ~TableClose(NextRaw)
            /\ tableBuffer # <<>> \/ (OpensTable(NextRaw) /\ ~InFence(read + 1))
  BY <1>1, FlagsNow
<1>6. /\ skippingSwitchBranch => tableBuffer = <<>> /\ insideFence
      /\ tableBuffer \in Seq(Line) /\ insideFence \in BOOLEAN /\ skippingSwitchBranch \in BOOLEAN
  BY DEF FlagsInv, CleanTypeOK
<1>7. /\ insideFence' <=> InFence(read + 1)
      /\ skippingSwitchBranch' <=> JsHalf(read + 1)
      /\ skippingSwitchBranch' => tableBuffer' = <<>>
      /\ tableBuffer' # <<>> <=> OpenTableBefore((read + 1) + 1)
  <2>1. CASE ReadFence
    <3>1. ~TableClose(NextRaw) /\ ~OpensTable(NextRaw) /\ TopFence(NextRaw)
      BY <2>1 DEF ReadFence, TopFence, TableClose, OpensTable
    <3>2. /\ insideFence' = ~insideFence
          /\ skippingSwitchBranch' <=> skippingSwitchBranch /\ ~insideFence
          /\ tableBuffer' = tableBuffer
      BY <2>1 DEF ReadFence, SkippingAfterFence
    <3>3. ~skippingSwitchBranch'
      BY <1>6, <3>2
    <3>4. insideFence' <=> InFence(read + 1)
      BY <1>2, <3>1, <3>2
    <3>5. ~JsHalf(read + 1)
      BY <1>3, <3>1
    <3>6. tableBuffer' # <<>> <=> OpenTableBefore((read + 1) + 1)
      BY <1>5, <3>1, <3>2
    <3> QED BY <3>3, <3>4, <3>5, <3>6
  <2>2. CASE SkipLine
    BY <1>2, <1>6, <1>3, <1>5, <2>2 DEF SkipLine, StillSkipping
  <2>3. CASE ReadTable
    <3>1. /\ ~TopFence(NextRaw) /\ ~skippingSwitchBranch
          /\ tableBuffer # <<>> \/ (~insideFence /\ OpensTable(NextRaw))
          /\ insideFence' = insideFence /\ skippingSwitchBranch' = skippingSwitchBranch
      BY <2>3 DEF ReadTable, PastSkipping
    <3>2. IF TableClose(NextRaw) THEN tableBuffer' = <<>>
                                 ELSE tableBuffer' = Append(tableBuffer, NextRaw)
      BY <2>3 DEF ReadTable, Accumulate
    <3>3. Append(tableBuffer, NextRaw) # <<>>
      BY <1>6
    <3>4. insideFence' <=> InFence(read + 1)
      BY <1>2, <3>1
    <3>5. ~JsHalf(read + 1)
      <4>1. NextRaw.kind = "switch" => ~OpensTable(NextRaw)
        BY DEF OpensTable
      <4>2. InFence(read + 1) <=> insideFence
        BY <1>2, <3>1
      <4>3. ~Directive(read + 1, {"switch"})
        BY <1>4, <3>1, <4>1, <4>2
      <4> QED BY <1>3, <3>1, <4>3
    <3>6. tableBuffer' # <<>> <=> ~TableClose(NextRaw)
      BY <3>2, <3>3
    <3>7. OpenTableBefore((read + 1) + 1) <=> ~TableClose(NextRaw)
      <4>1. tableBuffer # <<>> \/ (OpensTable(NextRaw) /\ ~InFence(read + 1))
        BY <1>2, <3>1
      <4> QED BY <1>5, <4>1
    <3>8. ~skippingSwitchBranch'
      BY <3>1
    <3> QED BY <3>4, <3>5, <3>6, <3>7, <3>8
  <2>4. CASE ReadFilename
    <3>1. NextRaw.kind = "filename"
      BY <2>4 DEF ReadFilename
    <3> QED BY <1>2, <1>6, <1>3, <1>4, <1>5, <2>4, <3>1 DEF ReadFilename, PastTables, PastSkipping
  <2>5. CASE ReadSwitch
    <3>1. NextRaw.kind = "switch" /\ ~TableClose(NextRaw)
      BY <2>5 DEF ReadSwitch, TableClose
    <3> QED BY <1>2, <1>6, <1>3, <1>4, <1>5, <2>5, <3>1 DEF ReadSwitch, PastTables, PastSkipping
  <2>6. CASE ReadText
    BY <1>2, <1>6, <1>3, <1>4, <1>5, <2>6 DEF ReadText, PastTables, PastSkipping
  <2> QED BY <2>1, <2>2, <2>3, <2>4, <2>5, <2>6 DEF ReadsLine
<1>8. /\ insideFence' <=> InFence(read)'
      /\ skippingSwitchBranch' <=> JsHalf(read)'
      /\ tableBuffer' # <<>> <=> OpenTableBefore(read + 1)'
  BY <1>1, <1>7, SameRaw
<1> QED BY <1>7, <1>8 DEF FlagsInv

\* The buffer holds the lines of the table that is open.
LEMMA BufferStep ==
  ASSUME CleanTypeOK, FlagsInv, BufferInv, \A i \in DOMAIN raw : raw[i].text = i, ReadsLine
  PROVE  BufferInv'
<1>1. /\ Reading /\ raw' = raw /\ read' = read + 1 /\ raw \in Seq(Line) /\ read \in Nat
      /\ read + 1 \in DOMAIN raw /\ (read + 1) - 1 = read
  BY DEF ReadsLine, ReadFence, SkipLine, ReadTable, ReadFilename, ReadSwitch, ReadText,
         PastTables, PastSkipping, Reading, ReadOn, CleanTypeOK
<1> DEFINE grown == Append(tableBuffer, NextRaw)
<1>2. \/ tableBuffer' = tableBuffer /\ (tableBuffer = <<>> \/ TopFence(NextRaw))
      \/ ReadTable /\ tableBuffer' = grown /\ ~TableClose(NextRaw)
      \/ tableBuffer' = <<>>
  <2>1. CASE ReadTable
    BY <2>1 DEF ReadTable, Accumulate
  <2>2. CASE ReadFence \/ SkipLine \/ ReadFilename \/ ReadSwitch \/ ReadText
    BY <2>2 DEF ReadFence, SkipLine, ReadFilename, ReadSwitch, ReadText, PastTables, FlagsInv
  <2> QED BY <2>1, <2>2 DEF ReadsLine
<1>3. CASE tableBuffer' = tableBuffer /\ tableBuffer # <<>> /\ TopFence(NextRaw)
  <2>1. tableBuffer[1].text \in 1..read /\ OpenTable(tableBuffer[1].text, read + 1)
    <3>1. 1 \in DOMAIN tableBuffer
      BY <1>3 DEF CleanTypeOK
    <3> QED BY <1>3, <3>1 DEF BufferInv
  <2>2. ~TableClose(raw[read + 1])
    BY <1>3 DEF NextRaw, TopFence, TableClose
  <2>3. OpenTable(tableBuffer[1].text, (read + 1) + 1)
    BY <1>1, <2>1, <2>2, OpenTableNext
  <2>4. OpenTable(tableBuffer[1].text, read + 1)'
    BY <1>1, <1>3, <2>3, SameRaw
  <2>5. \A k \in DOMAIN tableBuffer : /\ tableBuffer[k].text \in 1..(read + 1)
                                      /\ tableBuffer[k] = raw[tableBuffer[k].text]
    BY <1>1 DEF BufferInv
  <2> QED BY <1>1, <1>3, <2>4, <2>5 DEF BufferInv, Increasing
<1>4. CASE ReadTable /\ tableBuffer' = grown /\ ~TableClose(NextRaw)
  <2>1. /\ grown \in Seq(Line) /\ grown # <<>>
        /\ \A k \in DOMAIN grown : /\ grown[k].text \in 1..(read + 1)
                                   /\ grown[k] = raw[grown[k].text]
        /\ Increasing(grown)
        /\ OpenTable(grown[1].text, read + 1)
    BY <1>4, TableGrows
  <2> HIDE DEF grown
  <2>2. grown[1].text \in 1..(read + 1)
    <3>1. 1 \in DOMAIN grown
      BY <2>1
    <3> QED BY <2>1, <3>1
  <2>3. OpenTable(grown[1].text, (read + 1) + 1)
    <3>1. CASE grown[1].text \in 1..read
      BY <1>1, <1>4, <2>1, <3>1, OpenTableNext DEF NextRaw
    <3>2. CASE grown[1].text = read + 1
      <4>1. OpensTable(raw[read + 1]) /\ ~InFence(read + 1) /\ ~TableClose(raw[read + 1])
        BY <1>4, <2>1, <3>2 DEF OpenTable, NextRaw
      <4> QED BY <1>1, <3>2, <4>1, OpenTableNext
    <3> QED BY <1>1, <2>2, <3>1, <3>2
  <2>4. OpenTable(tableBuffer[1].text, read + 1)'
    BY <1>1, <1>4, <2>3, SameRaw
  <2> QED BY <1>1, <1>4, <2>1, <2>4 DEF BufferInv, Increasing
<1>5. CASE tableBuffer' = <<>>
  BY <1>5 DEF BufferInv, Increasing
<1> QED BY <1>2, <1>3, <1>4, <1>5

\* The page does not change, and neither does what of its lines is kept.
LEMMA SameKept ==
  ASSUME raw' = raw
  PROVE  /\ \A out, buf, n : LinesKept(out, buf, n)' <=> LinesKept(out, buf, n)
         /\ \A out : ContentKept(out)' <=> ContentKept(out)
<1>1. /\ \A i : MayGo(i)' <=> MayGo(i)
      /\ \A s : WithoutJs(s)' <=> WithoutJs(s)
      /\ NoneOvertakes' <=> NoneOvertakes
  BY SameRaw
<1>2. \A out, buf, n : LinesKept(out, buf, n)' <=> LinesKept(out, buf, n)
  BY <1>1 DEF LinesKept
<1>3. \A out : ContentKept(out)' <=> ContentKept(out)
  BY <1>1 DEF ContentKept
<1> QED BY <1>2, <1>3

\* A line that is output is kept; while a table is open it overtakes.
LEMMA LineOutput ==
  ASSUME CleanTypeOK, LinesKept(output, tableBuffer, read), Reading,
         \A i \in DOMAIN raw : raw[i].text = i,
         ~JsHalf(read + 1), NoneOvertakes => tableBuffer = <<>>
  PROVE  LinesKept(Append(output, NextRaw), tableBuffer, read + 1)
<1> DEFINE out == Append(output, NextRaw)
<1>1. /\ read \in Nat /\ read + 1 \in DOMAIN raw /\ NextRaw = raw[read + 1] /\ NextRaw \in Line
      /\ NextRaw.text = read + 1
  <2>1. /\ read \in Nat /\ raw \in Seq(Line) /\ read + 1 \in DOMAIN raw
        /\ NextRaw = raw[read + 1]
    BY DEF CleanTypeOK, Reading, NextRaw
  <2> QED BY <2>1, ElementOf
<1>2. /\ output \in Seq(Line)
      /\ DOMAIN out = DOMAIN output \cup {Len(output) + 1}
      /\ \A k \in DOMAIN output : k < Len(output) + 1 /\ out[k] = output[k]
      /\ out[Len(output) + 1] = NextRaw
  BY <1>1, AppendElements DEF CleanTypeOK
<1>3. /\ Len(output) \in Nat /\ \A k \in DOMAIN output : k \in Int
  BY <1>2
<1> HIDE DEF out
<1>4. \A k \in DOMAIN out : \/ k \in DOMAIN output /\ out[k] = output[k]
                            \/ out[k] = NextRaw /\ k = Len(output) + 1
  BY <1>2
<1>5. \A k \in DOMAIN output : output[k].text \in 0..read
  BY DEF LinesKept
<1>6. \A k \in DOMAIN out : /\ out[k].text \in 0..(read + 1)
                            /\ Blank(out[k]) => out[k].text # 0 /\ Blank(raw[out[k].text])
  <2> SUFFICES ASSUME NEW k \in DOMAIN out
               PROVE  /\ out[k].text \in 0..(read + 1)
                      /\ Blank(out[k]) => out[k].text # 0 /\ Blank(raw[out[k].text])
    OBVIOUS
  <2>1. CASE k \in DOMAIN output /\ out[k] = output[k]
    <3>1. Blank(output[k]) => output[k].text # 0 /\ Blank(raw[output[k].text])
      BY <2>1 DEF LinesKept
    <3> QED BY <1>1, <1>5, <2>1, <3>1
  <2>2. CASE out[k] = NextRaw
    BY <1>1, <2>2
  <2> QED BY <1>4, <2>1, <2>2
<1>7. \A i \in 1..(read + 1) : MayGo(i) \/ HasLine(out, i) \/ HasLine(tableBuffer, i)
  <2> SUFFICES ASSUME NEW i \in 1..(read + 1)
               PROVE  MayGo(i) \/ HasLine(out, i) \/ HasLine(tableBuffer, i)
    OBVIOUS
  <2>1. CASE i = read + 1
    BY <1>1, <1>2, <2>1 DEF HasLine
  <2>2. CASE i \in 1..read
    <3>1. HasLine(output, i) => HasLine(out, i)
      BY <1>2 DEF HasLine
    <3> QED BY <2>2, <3>1 DEF LinesKept
  <2> QED BY <1>1, <2>1, <2>2
<1>8. WithoutJs(out) /\ WithoutJs(tableBuffer)
  BY <1>1, <1>4 DEF LinesKept, WithoutJs
<1>9. ASSUME NoneOvertakes
      PROVE  /\ Increasing(out)
             /\ \A k \in DOMAIN out, m \in DOMAIN tableBuffer : out[k].text < tableBuffer[m].text
  <2>1. tableBuffer = <<>> /\ Increasing(output)
    BY <1>9 DEF LinesKept
  <2>2. Increasing(out)
    <3> SUFFICES ASSUME NEW k \in DOMAIN out, NEW m \in DOMAIN out, k < m, out[m].text # 0
                 PROVE  out[k].text < out[m].text
      BY DEF Increasing
    <3>1. k \in DOMAIN output /\ out[k] = output[k]
      BY <1>2, <1>3, <1>4
    <3>2. CASE m \in DOMAIN output /\ out[m] = output[m]
      BY <2>1, <3>1, <3>2 DEF Increasing
    <3>3. CASE out[m] = NextRaw
      BY <1>1, <1>5, <3>1, <3>3
    <3> QED BY <1>4, <3>2, <3>3
  <2> QED BY <2>1, <2>2
<1> QED BY <1>6, <1>7, <1>8, <1>9 DEF LinesKept, out

\* A line that may go is dropped.
LEMMA LineGone ==
  ASSUME CleanTypeOK, LinesKept(output, tableBuffer, read), MayGo(read + 1)
  PROVE  LinesKept(output, tableBuffer, read + 1)
<1>1. read \in Nat
  BY DEF CleanTypeOK
<1>2. \A n \in 0..read : n \in 0..(read + 1)
  BY <1>1
<1>3. \A i \in 1..(read + 1) : i \in 1..read \/ i = read + 1
  BY <1>1
<1> QED BY <1>2, <1>3 DEF LinesKept

\* A line of a table is in the buffer, behind all that is output.
LEMMA LineBuffered ==
  ASSUME CleanTypeOK, LinesKept(output, tableBuffer, read), Reading,
         \A i \in DOMAIN raw : raw[i].text = i, ~JsHalf(read + 1)
  PROVE  LinesKept(output, Append(tableBuffer, NextRaw), read + 1)
<1> DEFINE grown == Append(tableBuffer, NextRaw)
<1>1. /\ read \in Nat /\ NextRaw \in Line /\ NextRaw.text = read + 1
  <2>1. /\ read \in Nat /\ raw \in Seq(Line) /\ read + 1 \in DOMAIN raw
        /\ NextRaw = raw[read + 1]
    BY DEF CleanTypeOK, Reading, NextRaw
  <2> QED BY <2>1, ElementOf
<1>2. /\ \A k \in DOMAIN tableBuffer : k \in DOMAIN grown /\ grown[k] = tableBuffer[k]
      /\ Len(tableBuffer) + 1 \in DOMAIN grown /\ grown[Len(tableBuffer) + 1] = NextRaw
      /\ \A k \in DOMAIN grown : \/ k \in DOMAIN tableBuffer /\ grown[k] = tableBuffer[k]
                                 \/ grown[k] = NextRaw
  BY <1>1, AppendElements DEF CleanTypeOK
<1> HIDE DEF grown
<1>3. \A n \in 0..read : n \in 0..(read + 1) /\ n < read + 1
  BY <1>1
<1>4. \A i \in 1..(read + 1) : i \in 1..read \/ i = read + 1
  BY <1>1
<1>5. \A i : HasLine(tableBuffer, i) \/ i = read + 1 => HasLine(grown, i)
  BY <1>1, <1>2 DEF HasLine
<1>6. WithoutJs(tableBuffer) => WithoutJs(grown)
  BY <1>1, <1>2 DEF WithoutJs
<1>7. ASSUME \A k \in DOMAIN output, m \in DOMAIN tableBuffer :
                output[k].text < tableBuffer[m].text,
             \A k \in DOMAIN output : output[k].text \in 0..read
      PROVE  \A k \in DOMAIN output, m \in DOMAIN grown : output[k].text < grown[m].text
  BY <1>1, <1>2, <1>3, <1>7
<1> QED BY <1>3, <1>4, <1>5, <1>6, <1>7 DEF LinesKept, grown

\* Of a table whose last line has been read, converting drops only lines that may go,
\* and those left keep their order unless one overtakes the table.
LEMMA TableConverted ==
  ASSUME raw \in Seq(Line), output \in Seq(Line), NEW n \in DOMAIN raw,
         NEW t \in Seq(Line), t # <<>>, Increasing(t),
         \A k \in DOMAIN t : /\ t[k].text \in 1..n /\ t[k] = raw[t[k].text]
                             /\ t[1].text <= t[k].text,
         TableAt(t[1].text, n), LinesKept(output, t, n)
  PROVE  LinesKept(output \o Convert(t), <<>>, n)
<1> DEFINE c == Convert(t)
           a == t[1].text
<1>1. /\ n \in Nat /\ n \in 1..Len(raw) /\ Len(raw) \in Nat
      /\ \A k \in DOMAIN t : k \in Int /\ t[k].text # 0
  <2>1. n \in Nat /\ n \in 1..Len(raw) /\ Len(raw) \in Nat
    OBVIOUS
  <2>2. \A k \in DOMAIN t : k \in Int
    OBVIOUS
  <2>3. \A k \in DOMAIN t : t[k].text # 0
    BY <2>1
  <2> QED BY <2>1, <2>2, <2>3
<1>2. a \in 1..n
  <2>1. 1 \in DOMAIN t
    OBVIOUS
  <2> QED BY <2>1
<1>3. /\ c \in Seq(Line)
      /\ \A m \in DOMAIN c :
            \/ c[m].text = 0 /\ ~Blank(c[m])
            \/ \E k \in DOMAIN t : /\ c[m].text = t[k].text
                                   /\ c[m] = t[k] \/ ~Blank(c[m])
      /\ \A k \in DOMAIN t :
            \/ HasLine(c, t[k].text)
            \/ /\ \E r \in DOMAIN t : TableRow(t[r])
               /\ TableRow(t[k]) =>
                     HeaderRow(t[k]) /\ \E h \in DOMAIN t : h < k /\ HeaderRow(t[h])
      /\ (\A h, r \in DOMAIN t : HeaderRow(t[h]) /\ r < h => ~TableRow(t[r])) => Increasing(c)
  BY <1>1, ConvertKeeps
<1> HIDE DEF c
<1>4. \A k \in DOMAIN output :
         /\ output[k].text \in 0..n
         /\ Blank(output[k]) => output[k].text # 0 /\ Blank(raw[output[k].text])
  BY DEF LinesKept
<1>5. \A k \in DOMAIN c :
         /\ c[k].text \in 0..n
         /\ Blank(c[k]) => c[k].text # 0 /\ Blank(raw[c[k].text])
  <2> SUFFICES ASSUME NEW m \in DOMAIN c
               PROVE  /\ c[m].text \in 0..n
                      /\ Blank(c[m]) => c[m].text # 0 /\ Blank(raw[c[m].text])
    OBVIOUS
  <2>1. CASE c[m].text = 0 /\ ~Blank(c[m])
    BY <1>1, <2>1
  <2>2. CASE \E k \in DOMAIN t : c[m].text = t[k].text /\ (c[m] = t[k] \/ ~Blank(c[m]))
    <3>1. PICK k \in DOMAIN t : c[m].text = t[k].text /\ (c[m] = t[k] \/ ~Blank(c[m]))
      BY <2>2
    <3>2. t[k].text \in 1..n /\ t[k] = raw[t[k].text]
      OBVIOUS
    <3>3. t[k].text \in 0..n /\ t[k].text # 0
      BY <1>1, <3>2
    <3> QED BY <3>1, <3>2, <3>3
  <2> QED BY <1>3, <2>1, <2>2
<1>6. \A k \in DOMAIN (output \o c) :
         /\ (output \o c)[k].text \in 0..n
         /\ Blank((output \o c)[k]) => /\ (output \o c)[k].text # 0
                                       /\ Blank(raw[(output \o c)[k].text])
  <2>1. \A k \in DOMAIN (output \o c) :
           \/ k \in DOMAIN output /\ (output \o c)[k] = output[k]
           \/ k - Len(output) \in DOMAIN c /\ (output \o c)[k] = c[k - Len(output)]
    BY <1>3, ConcatElements
  <2> QED BY <1>4, <1>5, <2>1
\* The lines that are gone
<1>7. \A i \in 1..n : MayGo(i) \/ HasLine(output \o c, i)
  <2>1. \A i : HasLine(output \o c, i) <=> HasLine(output, i) \/ HasLine(c, i)
    BY <1>3, ConcatLines
  <2>2. ASSUME NEW k \in DOMAIN t, ~HasLine(c, t[k].text)
        PROVE  MayGo(t[k].text)
    <3> DEFINE i == t[k].text
    <3>1. i \in 1..n /\ t[k] = raw[i] /\ a \in 1..i /\ n \in i..Len(raw)
      <4>1. i \in 1..n /\ t[k] = raw[i] /\ a <= i
        OBVIOUS
      <4> QED BY <1>1, <1>2, <4>1
    <3>2. PICK r \in DOMAIN t : TableRow(t[r])
      BY <1>3, <2>2
    <3>3. t[r].text \in a..n /\ TableRow(raw[t[r].text])
      <4>1. t[r].text \in 1..n /\ t[r] = raw[t[r].text] /\ a <= t[r].text
        OBVIOUS
      <4> QED BY <1>1, <1>2, <3>2, <4>1
    <3>4. TableRow(raw[i]) =>
             /\ HeaderRow(raw[i])
             /\ \E h \in a..(i - 1) : HeaderRow(raw[h])
      <4> SUFFICES ASSUME TableRow(raw[i])
                   PROVE  /\ HeaderRow(raw[i])
                          /\ \E h \in a..(i - 1) : HeaderRow(raw[h])
        OBVIOUS
      <4>1. HeaderRow(t[k]) /\ \E h \in DOMAIN t : h < k /\ HeaderRow(t[h])
        BY <1>3, <2>2, <3>1
      <4>2. PICK h \in DOMAIN t : h < k /\ HeaderRow(t[h])
        BY <4>1
      <4>3. t[h].text < i /\ t[h].text \in 1..n /\ t[h] = raw[t[h].text] /\ a <= t[h].text
        BY <1>1, <4>2 DEF Increasing
      <4>4. t[h].text \in a..(i - 1)
        BY <1>1, <1>2, <3>1, <4>3
      <4> QED BY <3>1, <4>1, <4>2, <4>3, <4>4
    <3> HIDE DEF i
    <3>5. MayGo(i)
      BY <3>1, <3>3, <3>4 DEF MayGo
    <3> QED BY <3>5 DEF i
  <2>3. \A i \in 1..n : MayGo(i) \/ HasLine(output, i) \/ HasLine(t, i)
    BY DEF LinesKept
  <2>4. \A i : HasLine(t, i) => MayGo(i) \/ HasLine(c, i)
    <3> SUFFICES ASSUME NEW i, HasLine(t, i)
                 PROVE  MayGo(i) \/ HasLine(c, i)
      OBVIOUS
    <3>1. PICK k \in DOMAIN t : t[k].text = i
      BY DEF HasLine
    <3> QED BY <2>2, <3>1
  <2> QED BY <2>1, <2>3, <2>4
<1>8. WithoutJs(output \o c) /\ WithoutJs(<<>>)
  <2>1. WithoutJs(output) /\ WithoutJs(t)
    BY DEF LinesKept
  <2>2. WithoutJs(c)
    BY <1>3, <2>1 DEF WithoutJs
  <2> QED BY <1>3, <2>1, <2>2, ConcatLines DEF WithoutJs
\* The order of those left
<1>9. ASSUME NoneOvertakes
      PROVE  Increasing(output \o c)
  <2>1. \A h, r \in DOMAIN t : HeaderRow(t[h]) /\ r < h => ~TableRow(t[r])
    <3> SUFFICES ASSUME NEW h \in DOMAIN t, NEW r \in DOMAIN t,
                        HeaderRow(t[h]), r < h, TableRow(t[r])
                 PROVE  FALSE
      OBVIOUS
    <3>1. /\ t[h].text \in 1..n /\ t[h] = raw[t[h].text]
          /\ t[r].text \in 1..n /\ t[r] = raw[t[r].text] /\ a <= t[r].text
          /\ t[r].text < t[h].text
      BY <1>1 DEF Increasing
    <3>2. /\ a \in 1..(t[h].text - 1) /\ t[r].text \in a..(t[h].text - 1)
          /\ t[h].text \in DOMAIN raw
          /\ \A k \in a..(t[h].text - 1) : k \in a..(n - 1)
      BY <1>1, <1>2, <3>1
    <3>3. OpenTable(a, t[h].text)
      BY <3>2 DEF TableAt, OpenTable
    <3>4. Overtakes(t[h].text)
      BY <3>1, <3>2, <3>3 DEF Overtakes
    <3> QED BY <1>9, <3>2, <3>4 DEF NoneOvertakes
  <2>2. Increasing(output) /\ \A k \in DOMAIN output, m \in DOMAIN t : output[k].text < t[m].text
    BY <1>9 DEF LinesKept
  <2>3. \A k \in DOMAIN output, m \in DOMAIN c : c[m].text # 0 => output[k].text < c[m].text
    BY <1>3, <2>2
  <2> QED BY <1>3, <2>1, <2>2, <2>3, ConcatIncreasing
<1>10. DOMAIN <<>> = {}
  OBVIOUS
<1> QED BY <1>6, <1>7, <1>8, <1>9, <1>10 DEF LinesKept, c

\* Each branch of the loop keeps the line it reads, or may drop it.
LEMMA KeptStep ==
  ASSUME CleanTypeOK, skippingSwitchBranch => insideFence, FlagsInv, BufferInv,
         LinesKept(output, tableBuffer, read), \A i \in DOMAIN raw : raw[i].text = i,
         ReadsLine
  PROVE  LinesKept(output, tableBuffer, read)'
<1>1. Reading /\ raw' = raw /\ read' = read + 1
  BY DEF ReadsLine, ReadFence, SkipLine, ReadTable, ReadFilename, ReadSwitch, ReadText,
         PastTables, PastSkipping, ReadOn
<1>2. /\ read \in Nat /\ raw \in Seq(Line) /\ output \in Seq(Line)
      /\ read + 1 \in DOMAIN raw /\ NextRaw = raw[read + 1]
  BY <1>1, FlagsNow DEF CleanTypeOK
<1>3. InFence(read + 1) <=> (insideFence <=> ~TopFence(NextRaw))
  BY <1>1, FlagsNow
<1>4. /\ TopFence(NextRaw) => ~JsHalf(read + 1)
      /\ ~TopFence(NextRaw) =>
            (JsHalf(read + 1) <=> \/ skippingSwitchBranch
                                  \/ Directive(read + 1, {"switch"}))
  BY <1>1, FlagsNow
<1>5. \A kinds : Directive(read + 1, kinds) <=>
         InFence(read + 1) /\ NextRaw.kind \in kinds /\ tableBuffer = <<>>
  BY <1>1, FlagsNow
<1>6. LinesKept(output', tableBuffer', read + 1)
  <2>1. CASE ReadFence
    <3>1. TopFence(NextRaw) /\ output' = Append(output, NextRaw) /\ tableBuffer' = tableBuffer
      BY <2>1 DEF ReadFence
    <3>2. NoneOvertakes => tableBuffer = <<>>
      <4>1. OpenTableBefore(read + 1) => Overtakes(read + 1)
        BY <1>2, <3>1 DEF OpenTableBefore, Overtakes
      <4> QED BY <1>2, <4>1 DEF FlagsInv, NoneOvertakes
    <3>3. LinesKept(Append(output, NextRaw), tableBuffer, read + 1)
      BY <1>1, <1>4, <3>1, <3>2, LineOutput
    <3> QED BY <3>1, <3>3
  <2>2. CASE SkipLine
    <3>1. /\ ~TopFence(NextRaw) /\ skippingSwitchBranch
          /\ output' = output /\ tableBuffer' = tableBuffer
      BY <2>2 DEF SkipLine
    <3>2. MayGo(read + 1)
      BY <1>4, <3>1 DEF MayGo
    <3> QED BY <3>1, <3>2, LineGone
  <2>3. CASE ReadTable
    <3> DEFINE t == Append(tableBuffer, NextRaw)
    <3>1. /\ ~TopFence(NextRaw) /\ ~skippingSwitchBranch
          /\ tableBuffer # <<>> \/ (~insideFence /\ OpensTable(NextRaw))
          /\ IF TableClose(NextRaw)
               THEN tableBuffer' = <<>> /\ output' = output \o Convert(t)
               ELSE tableBuffer' = t /\ output' = output
      BY <2>3 DEF ReadTable, PastSkipping, Accumulate
    <3>2. ~JsHalf(read + 1)
      <4>1. NextRaw.kind = "switch" => ~OpensTable(NextRaw)
        BY DEF OpensTable
      <4>2. InFence(read + 1) <=> insideFence
        BY <1>3, <3>1
      <4>3. Directive(read + 1, {"switch"}) =>
               InFence(read + 1) /\ NextRaw.kind \in {"switch"} /\ tableBuffer = <<>>
        BY <1>5
      <4>4. ~Directive(read + 1, {"switch"})
        BY <3>1, <4>1, <4>2, <4>3
      <4> QED BY <1>4, <3>1, <4>4
    <3>3. LinesKept(output, t, read + 1)
      BY <1>1, <3>2, LineBuffered
    <3>4. CASE TableClose(NextRaw)
      <4>1. /\ t \in Seq(Line) /\ t # <<>>
            /\ \A k \in DOMAIN t : /\ t[k].text \in 1..(read + 1)
                                   /\ t[k] = raw[t[k].text]
                                   /\ t[1].text <= t[k].text
            /\ Increasing(t)
            /\ OpenTable(t[1].text, read + 1)
        BY <2>3, TableGrows
      <4> HIDE DEF t
      <4>2. TableAt(t[1].text, read + 1)
        BY <1>2, <3>4, <4>1 DEF TableAt, OpenTable
      <4>3. LinesKept(output \o Convert(t), <<>>, read + 1)
        BY <1>2, <3>3, <4>1, <4>2, TableConverted
      <4> QED BY <3>1, <3>4, <4>3
    <3>5. CASE ~TableClose(NextRaw)
      BY <3>1, <3>3, <3>5
    <3> QED BY <3>4, <3>5
  <2>4. CASE ReadFilename
    <3>1. /\ ~TopFence(NextRaw) /\ insideFence /\ NextRaw.kind \in {"filename"}
          /\ tableBuffer = <<>> /\ output' = output /\ tableBuffer' = tableBuffer
      BY <2>4 DEF ReadFilename, PastTables, PastSkipping
    <3>2. MayGo(read + 1)
      BY <1>3, <1>5, <3>1 DEF MayGo
    <3> QED BY <3>1, <3>2, LineGone
  <2>5. CASE ReadSwitch
    <3>1. /\ ~TopFence(NextRaw) /\ insideFence /\ NextRaw.kind \in {"switch"}
          /\ tableBuffer = <<>> /\ output' = output /\ tableBuffer' = tableBuffer
      BY <2>5 DEF ReadSwitch, PastTables, PastSkipping
    <3>2. Directive(read + 1, {"switch"})
      BY <1>3, <1>5, <3>1
    <3>3. MayGo(read + 1)
      BY <1>4, <3>1, <3>2 DEF MayGo
    <3> QED BY <3>1, <3>3, LineGone
  <2>6. CASE ReadText
    <3>1. /\ ~TopFence(NextRaw) /\ ~skippingSwitchBranch /\ tableBuffer = <<>>
          /\ insideFence => NextRaw.kind # "switch"
          /\ output' = Append(output, NextRaw) /\ tableBuffer' = tableBuffer
      BY <2>6 DEF ReadText, PastTables, PastSkipping
    <3>2. ~JsHalf(read + 1)
      <4>1. InFence(read + 1) <=> insideFence
        BY <1>3, <3>1
      <4>2. Directive(read + 1, {"switch"}) =>
               InFence(read + 1) /\ NextRaw.kind \in {"switch"}
        BY <1>5
      <4>3. ~Directive(read + 1, {"switch"})
        BY <3>1, <4>1, <4>2
      <4> QED BY <1>4, <3>1, <4>3
    <3>3. LinesKept(Append(output, NextRaw), tableBuffer, read + 1)
      BY <1>1, <3>1, <3>2, LineOutput
    <3> QED BY <3>1, <3>3
  <2> QED BY <2>1, <2>2, <2>3, <2>4, <2>5, <2>6 DEF ReadsLine
<1> QED BY <1>1, <1>6, SameKept

\* At the end a table that was never closed is output as found, and runs of blank lines
\* are collapsed.
LEMMA EndKept ==
  ASSUME CleanTypeOK, BufferInv, LinesKept(output, tableBuffer, read), EndOfRaw
  PROVE  ContentKept(output)'
<1>1. /\ raw' = raw /\ raw \in Seq(Line) /\ output \in Seq(Line) /\ tableBuffer \in Seq(Line)
      /\ read = Len(raw) /\ DOMAIN raw = 1..read
      /\ output' = Collapsed(output \o tableBuffer)
  BY DEF EndOfRaw, CleanTypeOK, Remainder
<1> DEFINE s == output \o tableBuffer
           c == Collapsed(s)
<1>2. /\ s \in Seq(Line)
      /\ \A k \in DOMAIN s : \/ k \in DOMAIN output /\ s[k] = output[k]
                             \/ /\ k - Len(output) \in DOMAIN tableBuffer
                                /\ s[k] = tableBuffer[k - Len(output)]
      /\ \A i : HasLine(s, i) <=> HasLine(output, i) \/ HasLine(tableBuffer, i)
      /\ WithoutJs(output) /\ WithoutJs(tableBuffer) => WithoutJs(s)
  BY <1>1, ConcatElements, ConcatLines
<1> HIDE DEF s
<1>3. /\ \A n \in DOMAIN c : \E k \in DOMAIN s : c[n] = s[k]
      /\ \A k \in DOMAIN s : Blank(s[k]) \/ HasLine(c, s[k].text)
      /\ Increasing(s) => Increasing(c)
      /\ WithoutJs(s) => WithoutJs(c)
  BY <1>2, CollapsedKeeps
<1> HIDE DEF c
<1>4. \A k \in DOMAIN tableBuffer : /\ tableBuffer[k].text \in 1..read
                                    /\ tableBuffer[k].text # 0
                                    /\ tableBuffer[k] = raw[tableBuffer[k].text]
  <2>1. read \in Nat
    BY DEF CleanTypeOK
  <2> QED BY <2>1 DEF BufferInv
<1>5. \A k \in DOMAIN s : Blank(s[k]) => s[k].text # 0 /\ Blank(raw[s[k].text])
  <2>1. \A k \in DOMAIN output : Blank(output[k]) =>
                                    output[k].text # 0 /\ Blank(raw[output[k].text])
    BY DEF LinesKept
  <2> QED BY <1>2, <1>4, <2>1
<1>6. \A n \in DOMAIN c : Blank(c[n]) => c[n].text # 0 /\ Blank(raw[c[n].text])
  BY <1>3, <1>5
<1>7. ASSUME NEW i \in DOMAIN raw
      PROVE  MayGo(i) \/ HasLine(c, i)
  <2>1. MayGo(i) \/ HasLine(s, i)
    BY <1>1, <1>2 DEF LinesKept
  <2>2. ASSUME HasLine(s, i)
        PROVE  MayGo(i) \/ HasLine(c, i)
    <3>1. PICK k \in DOMAIN s : s[k].text = i
      BY <2>2 DEF HasLine
    <3>2. Blank(s[k]) => Blank(raw[i])
      BY <1>5, <3>1
    <3> QED BY <1>3, <3>1, <3>2 DEF MayGo
  <2> QED BY <2>1, <2>2
<1>8. ASSUME NoneOvertakes
      PROVE  Increasing(c)
  <2>1. Increasing(output) /\ \A k \in DOMAIN output, m \in DOMAIN tableBuffer :
                                 output[k].text < tableBuffer[m].text
    BY <1>8 DEF LinesKept
  <2>2. Increasing(tableBuffer)
    BY DEF BufferInv
  <2>3. Increasing(s)
    BY <1>1, <2>1, <2>2, ConcatIncreasing DEF s
  <2> QED BY <1>3, <2>3
<1>9. WithoutJs(c)
  BY <1>2, <1>3 DEF LinesKept
<1>10. ContentKept(c)
  BY <1>6, <1>7, <1>8, <1>9 DEF ContentKept
<1> QED BY <1>1, <1>10, SameKept DEF c, s

\* The cleaner's types and what is kept hold before the first line,
LEMMA CleanerInit ==
  ASSUME Init
  PROVE  CleanTypeOK /\ (skippingSwitchBranch => insideFence) /\ CleanerInv
<1>1. /\ raw \in Seq(Line) /\ \A i \in DOMAIN raw : raw[i].text = i
      /\ read = 0 /\ insideFence = FALSE /\ skippingSwitchBranch = FALSE
      /\ tableBuffer = <<>> /\ output = <<>> /\ cleaned = FALSE
  BY DocumentAssumption DEF Init, CleanInit
<1>2. CleanTypeOK /\ (skippingSwitchBranch => insideFence)
  BY TypeInit DEF TypeInv, TypeOK
<1>3. 1..0 = {} /\ DOMAIN <<>> = {} /\ 1..((0 + 1) - 1) = {}
  OBVIOUS
<1>4. FlagsInv
  <2>1. Fences(0) = 0
    <3>1. {j \in 1..0 : TopFence(raw[j])} = {}
      BY <1>3
    <3> QED BY <3>1, FS_EmptySet DEF Fences
  <2>2. ~InFence(0)
    BY <2>1 DEF InFence
  <2>3. ~JsHalf(0)
    BY <2>2 DEF JsHalf
  <2>4. ~OpenTableBefore(0 + 1)
    BY <1>3 DEF OpenTableBefore
  <2> QED BY <1>1, <2>2, <2>3, <2>4 DEF FlagsInv
<1>5. BufferInv
  BY <1>1, <1>3 DEF BufferInv, Increasing
<1>6. LinesKept(output, tableBuffer, read)
  BY <1>1, <1>3 DEF LinesKept, Increasing, WithoutJs
<1> QED BY <1>1, <1>2, <1>4, <1>5, <1>6 DEF CleanerInv

\* and every step keeps them.
LEMMA CleanerStep ==
  ASSUME CleanTypeOK, skippingSwitchBranch => insideFence, CleanerInv, [Next]_vars
  PROVE  CleanTypeOK' /\ (skippingSwitchBranch => insideFence)' /\ CleanerInv'
<1>1. CASE CleanNext
  <2>1. CleanTypeOK' /\ (skippingSwitchBranch => insideFence)'
    BY <1>1, CleanTyped
  <2>2. ~cleaned /\ raw' = raw
    BY <1>1 DEF CleanNext, ReadFence, SkipLine, ReadTable, ReadFilename, ReadSwitch,
                ReadText, PastTables, PastSkipping, Reading, ReadOn, EndOfRaw
  <2>3. /\ \A i \in DOMAIN raw : raw[i].text = i
        /\ FlagsInv /\ BufferInv /\ LinesKept(output, tableBuffer, read)
    BY <2>2 DEF CleanerInv
  <2>4. CASE ReadsLine
    <3>1. cleaned' = cleaned
      BY <2>4 DEF ReadsLine, ReadFence, SkipLine, ReadTable, ReadFilename, ReadSwitch,
                  ReadText, ReadOn
    <3>2. FlagsInv' /\ BufferInv' /\ LinesKept(output, tableBuffer, read)'
      BY <2>3, <2>4, FlagsStep, BufferStep, KeptStep
    <3> QED BY <2>1, <2>2, <2>3, <3>1, <3>2 DEF CleanerInv
  <2>5. CASE EndOfRaw
    <3>1. cleaned' = TRUE
      BY <2>5 DEF EndOfRaw
    <3>2. ContentKept(output)'
      BY <2>3, <2>5, EndKept
    <3> QED BY <2>1, <2>2, <2>3, <3>1, <3>2 DEF CleanerInv
  <2> QED BY <1>1, <2>4, <2>5 DEF CleanNext, ReadsLine
<1>2. CASE UNCHANGED cleanVars
  <2>1. /\ raw' = raw /\ read' = read /\ insideFence' = insideFence
        /\ skippingSwitchBranch' = skippingSwitchBranch /\ tableBuffer' = tableBuffer
        /\ output' = output /\ cleaned' = cleaned
    BY <1>2 DEF cleanVars
  <2>2. CleanTypeOK' /\ (skippingSwitchBranch => insideFence)'
    BY <2>1 DEF CleanTypeOK
  <2>3. FlagsInv' <=> FlagsInv
    BY <2>1, SameRaw DEF FlagsInv
  <2>4. BufferInv' <=> BufferInv
    BY <2>1, SameRaw DEF BufferInv, Increasing
  <2>5. /\ LinesKept(output, tableBuffer, read)' <=> LinesKept(output, tableBuffer, read)
        /\ ContentKept(output)' <=> ContentKept(output)
    BY <2>1, SameKept
  <2> QED BY <2>1, <2>2, <2>3, <2>4, <2>5 DEF CleanerInv
<1> QED BY <1>1, <1>2 DEF Next, Clean, StartChunking, Chunk, ParseFails, vars

-------------------------------------------------------------------------------
(***************************************************************************)
(* Where fences come to stand.                                             *)
(***************************************************************************)
\* The markers of the page, counted like those of any list.
LEMMA FencesOfRaw == \A i : Fences(i) = TopFences(raw, i)
BY DEF Fences, TopFences

\* The count never falls, and rises behind a marker.
LEMMA CountsGrow ==
  ASSUME NEW s, NEW i \in Nat, NEW j \in Nat, i <= j
  PROVE  /\ TopFences(s, i) \in Nat /\ TopFences(s, j) \in Nat
         /\ TopFences(s, i) <= TopFences(s, j)
         /\ i < j /\ TopFence(s[j]) => /\ TopFences(s, i) < TopFences(s, j)
                                       /\ TopFences(s, j) = TopFences(s, j - 1) + 1
<1>1. CASE i = j
  <2>1. /\ j + 1 > 0 /\ j + 1 \in Nat /\ (j + 1) - 1 = j
    OBVIOUS
  <2>2. TopFences(s, (j + 1) - 1) \in Nat
    BY <2>1, TopFencesGrow
  <2> QED BY <1>1, <2>1, <2>2
<1>2. CASE i < j
  <2>1. j > 0 /\ i \in 0..(j - 1)
    BY <1>2
  <2>2. /\ TopFences(s, j - 1) \in Nat /\ TopFences(s, j) \in Nat
        /\ TopFences(s, j) = TopFences(s, j - 1) + (IF TopFence(s[j]) THEN 1 ELSE 0)
        /\ TopFences(s, i) \in Nat /\ TopFences(s, i) <= TopFences(s, j - 1)
    BY <2>1, TopFencesGrow
  <2>3. CASE TopFence(s[j])
    BY <2>2, <2>3
  <2>4. CASE ~TopFence(s[j])
    BY <2>2, <2>4
  <2> QED BY <2>3, <2>4
<1> QED BY <1>1, <1>2

\* Lists that have the same markers have the same counts, and a list without more.
LEMMA SameMarkers ==
  ASSUME NEW s, NEW t, NEW n \in Nat, \A j \in 1..n : TopFence(s[j]) <=> TopFence(t[j])
  PROVE  \A k \in 0..n : TopFences(s, k) = TopFences(t, k)
<1> SUFFICES ASSUME NEW k \in 0..n
             PROVE  TopFences(s, k) = TopFences(t, k)
  OBVIOUS
<1>1. \A j \in 1..k : j \in 1..n
  OBVIOUS
<1>2. {j \in 1..k : TopFence(s[j])} = {j \in 1..k : TopFence(t[j])}
  BY <1>1
<1> QED BY <1>2 DEF TopFences

LEMMA NoMoreFences ==
  ASSUME NEW s, NEW n \in Nat, NEW m \in Nat, n <= m,
         \A j \in (n + 1)..m : ~TopFence(s[j])
  PROVE  TopFences(s, m) = TopFences(s, n)
<1>1. \A j \in 1..m : j \in 1..n \/ j \in (n + 1)..m
  OBVIOUS
<1>2. \A j \in 1..n : j \in 1..m
  OBVIOUS
<1>3. {j \in 1..m : TopFence(s[j])} = {j \in 1..n : TopFence(s[j])}
  BY <1>1, <1>2
<1> QED BY <1>3 DEF TopFences

\* A list with a line behind it, and with lines that are no markers.
LEMMA AppendFences ==
  ASSUME NEW s \in Seq(Line), NEW l \in Line
  PROVE  /\ \A k \in 0..Len(s) : TopFences(Append(s, l), k) = TopFences(s, k)
         /\ Len(Append(s, l)) = Len(s) + 1
         /\ TopFences(s, Len(s)) \in Nat
         /\ TopFences(Append(s, l), Len(s) + 1) =
               TopFences(s, Len(s)) + (IF TopFence(l) THEN 1 ELSE 0)
<1> DEFINE c == Append(s, l)
<1>1. Len(s) \in Nat /\ Len(c) = Len(s) + 1 /\ (Len(s) + 1) - 1 = Len(s)
  OBVIOUS
<1>2. c[Len(s) + 1] = l /\ \A j \in 1..Len(s) : c[j] = s[j]
  BY AppendElements
<1> HIDE DEF c
<1>3. \A k \in 0..Len(s) : TopFences(c, k) = TopFences(s, k)
  <2>1. \A j \in 1..Len(s) : TopFence(c[j]) <=> TopFence(s[j])
    BY <1>2
  <2> QED BY <1>1, <2>1, SameMarkers
<1>4. /\ TopFences(c, (Len(s) + 1) - 1) \in Nat
      /\ TopFences(c, Len(s) + 1) =
            TopFences(c, (Len(s) + 1) - 1) + (IF TopFence(c[Len(s) + 1]) THEN 1 ELSE 0)
  <2>1. Len(s) + 1 \in Nat /\ Len(s) + 1 > 0
    BY <1>1
  <2> QED BY <2>1, TopFencesGrow
<1>5. Len(s) \in 0..Len(s)
  BY <1>1
<1> QED BY <1>1, <1>2, <1>3, <1>4, <1>5 DEF c

LEMMA ConcatFences ==
  ASSUME NEW s \in Seq(Line), NEW t \in Seq(Line), \A k \in DOMAIN t : ~TopFence(t[k])
  PROVE  /\ \A k \in 0..Len(s) : TopFences(s \o t, k) = TopFences(s, k)
         /\ Len(s \o t) = Len(s) + Len(t)
         /\ \A k \in Len(s)..(Len(s) + Len(t)) : TopFences(s \o t, k) = TopFences(s, Len(s))
<1> DEFINE c == s \o t
<1>1. Len(s) \in Nat /\ Len(t) \in Nat /\ Len(c) = Len(s) + Len(t)
  OBVIOUS
<1>2. \A j \in 1..Len(s) : c[j] = s[j]
  BY ConcatElements
<1>3. \A j \in (Len(s) + 1)..(Len(s) + Len(t)) : ~TopFence(c[j])
  <2> SUFFICES ASSUME NEW j \in (Len(s) + 1)..(Len(s) + Len(t))
               PROVE  ~TopFence(c[j])
    OBVIOUS
  <2>1. j - Len(s) \in DOMAIN t /\ (j - Len(s)) + Len(s) = j
    BY <1>1
  <2>2. c[(j - Len(s)) + Len(s)] = t[j - Len(s)]
    BY <2>1, ConcatElements
  <2> QED BY <2>1, <2>2
<1> HIDE DEF c
<1>4. \A k \in 0..Len(s) : TopFences(c, k) = TopFences(s, k)
  <2>1. \A j \in 1..Len(s) : TopFence(c[j]) <=> TopFence(s[j])
    BY <1>2
  <2> QED BY <1>1, <2>1, SameMarkers
<1>5. ASSUME NEW k \in Len(s)..(Len(s) + Len(t))
      PROVE  TopFences(c, k) = TopFences(s, Len(s))
  <2>1. k \in Nat /\ Len(s) <= k /\ \A j \in (Len(s) + 1)..k : j \in (Len(s) + 1)..(Len(s) + Len(t))
    BY <1>1
  <2>2. TopFences(c, k) = TopFences(c, Len(s))
    BY <1>1, <1>3, <2>1, NoMoreFences
  <2>3. Len(s) \in 0..Len(s)
    BY <1>1
  <2> QED BY <1>4, <2>2, <2>3
<1> QED BY <1>1, <1>4, <1>5 DEF c

\* In a subsequence that leaves out no marker the counts are as they were.
LEMMA SubsequenceFences ==
  ASSUME NEW s \in Seq(Line), NEW P \in SUBSET DOMAIN s,
         \A k \in DOMAIN s \ P : ~TopFence(s[k])
  PROVE  LET c == Subsequence(s, P)
         IN  \A n \in DOMAIN c : /\ Nth(P, n) \in P /\ c[n] = s[Nth(P, n)]
                                 /\ TopFences(c, n) = TopFences(s, Nth(P, n))
<1> DEFINE c == Subsequence(s, P)
<1>1. Len(s) \in Nat /\ P \in SUBSET (1..Len(s))
  OBVIOUS
<1>2. /\ Cardinality(P) \in Nat
      /\ \A n \in 1..Cardinality(P) : Nth(P, n) \in P
      /\ \A k \in P : \E n \in 1..Cardinality(P) : Nth(P, n) = k
      /\ \A n, m \in 1..Cardinality(P) : n < m => Nth(P, n) < Nth(P, m)
  BY <1>1, NthInOrder
<1>3. /\ DOMAIN c = 1..Cardinality(P)
      /\ \A n \in 1..Cardinality(P) : c[n] = s[Nth(P, n)]
  BY DEF Subsequence
<1> HIDE DEF c
<1>4. \A k \in P : k \in Int /\ k >= 1 /\ k \in DOMAIN s
  BY <1>1
<1>5. ASSUME NEW n \in 1..Cardinality(P)
      PROVE  TopFences(c, n) = TopFences(s, Nth(P, n))
  <2> DEFINE p == Nth(P, n)
             A == {j \in 1..n : TopFence(c[j])}
             B == {j \in 1..p : TopFence(s[j])}
             f == [j \in A |-> Nth(P, j)]
  <2>1. p \in P /\ p \in Int /\ \A j \in 1..n : j \in 1..Cardinality(P) /\ j \in Int /\ j <= n
    BY <1>2, <1>4
  <2>2. \A j \in 1..n : Nth(P, j) \in 1..p
    <3> SUFFICES ASSUME NEW j \in 1..n
                 PROVE  Nth(P, j) \in 1..p
      OBVIOUS
    <3>1. j = n \/ j < n
      BY <2>1
    <3>2. Nth(P, j) \in Int /\ Nth(P, j) >= 1
      BY <1>2, <1>4, <2>1
    <3>3. Nth(P, j) = p \/ Nth(P, j) < p
      BY <1>2, <2>1, <3>1
    <3> HIDE DEF p
    <3> QED BY <2>1, <3>2, <3>3
  <2>3. \A k \in B : \E j \in A : Nth(P, j) = k
    <3> SUFFICES ASSUME NEW k \in B
                 PROVE  \E j \in A : Nth(P, j) = k
      OBVIOUS
    <3>1. k \in 1..p /\ TopFence(s[k])
      OBVIOUS
    <3>2. k \in DOMAIN s
      <4> HIDE DEF p
      <4> QED BY <1>1, <2>1, <3>1
    <3>3. k \in P
      BY <3>1, <3>2
    <3>4. PICK j \in 1..Cardinality(P) : Nth(P, j) = k
      BY <1>2, <3>3
    <3>5. ~(n < j)
      <4>1. n < j => p < k
        BY <1>2, <3>4
      <4>2. k <= p
        <5> HIDE DEF p
        <5> QED BY <2>1, <3>1
      <4>3. k \in Int
        BY <1>4, <3>3
      <4> HIDE DEF p
      <4> QED BY <2>1, <4>1, <4>2, <4>3
    <3>6. j \in 1..n
      BY <1>2, <3>5
    <3>7. TopFence(c[j])
      BY <1>3, <3>1, <3>4
    <3> QED BY <3>4, <3>6, <3>7
  <2>4. \A j \in A : j \in 1..n /\ Nth(P, j) \in B
    BY <1>3, <2>1, <2>2
  <2>5. \A j, k \in A : Nth(P, j) = Nth(P, k) => j = k
    <3> SUFFICES ASSUME NEW j \in A, NEW k \in A, Nth(P, j) = Nth(P, k)
                 PROVE  j = k
      OBVIOUS
    <3>1. j \in 1..Cardinality(P) /\ k \in 1..Cardinality(P) /\ j \in Int /\ k \in Int
      BY <2>1
    <3>2. Nth(P, j) \in Int
      BY <1>2, <1>4, <3>1
    <3>3. ~(j < k) /\ ~(k < j)
      BY <1>2, <3>1, <3>2
    <3> QED BY <3>1, <3>3
  <2>6. IsFiniteSet(A)
    <3>1. A \in SUBSET (1..n) /\ IsFiniteSet(1..n)
      BY <1>2, FS_Interval
    <3> HIDE DEF A
    <3> QED BY <3>1, FS_Subset
  <2>7. TopFences(c, n) = Cardinality(A) /\ TopFences(s, p) = Cardinality(B)
    BY DEF TopFences
  <2> HIDE DEF A, B, p
  <2>8. f \in Bijection(A, B)
    <3>1. f \in [A -> B]
      BY <2>4
    <3>2. \A j, k \in A : f[j] = f[k] => j = k
      BY <2>5
    <3>3. \A k \in B : \E j \in A : f[j] = k
      BY <2>3
    <3> HIDE DEF f
    <3> QED BY <3>1, <3>2, <3>3 DEF Bijection, Injection, Surjection, IsInjective
  <2>9. ExistsBijection(A, B)
    BY <2>8 DEF ExistsBijection
  <2>10. Cardinality(A) = Cardinality(B)
    BY <2>6, <2>9, FS_Bijection
  <2> QED BY <2>7, <2>10 DEF p
<1> QED BY <1>2, <1>3, <1>5 DEF c

\* What a line of a converted table is: the separator, a row of the table as a row of a
\* pipe table or an item of a list, or, in a table without rows, the line itself.
LEMMA ConvertElements ==
  ASSUME NEW t \in Seq(Line)
  PROVE  LET c == Convert(t)
         IN  /\ c \in Seq(Line)
             /\ (\A r \in DOMAIN t : ~TableRow(t[r])) => c = t
             /\ t # <<>> => c # <<>>
             /\ (\E r \in DOMAIN t : TableRow(t[r])) => \A n \in DOMAIN c :
                   \/ /\ c[n] = Separator
                      /\ \E h \in DOMAIN t : HeaderRow(t[h])
                      /\ n > 1 /\ \E k \in DOMAIN t : TableRow(t[k]) /\ c[n - 1] = AsRow(t[k])
                   \/ \E k \in DOMAIN t :
                         /\ TableRow(t[k])
                         /\ \/ c[n] = AsRow(t[k]) /\ \E h \in DOMAIN t : HeaderRow(t[h])
                            \/ c[n] = AsItem(t[k]) /\ \A h \in DOMAIN t : ~HeaderRow(t[h])
<1> DEFINE rows  == {k \in DOMAIN t : TableRow(t[k])}
           heads == {k \in rows : HeaderRow(t[k])}
           items == [k \in DOMAIN t |-> AsItem(t[k])]
           cells == [k \in DOMAIN t |-> AsRow(t[k])]
           list  == Subsequence(items, rows)
           body  == Subsequence(cells, rows \ heads)
           first == Nth(heads, 1)
           top   == <<AsRow(t[first]), Separator>>
           c     == Convert(t)
<1>1. \A k \in DOMAIN t : t[k] \in Line
  BY ElementOf
<1>2. /\ items \in Seq(Line) /\ DOMAIN items = DOMAIN t
      /\ cells \in Seq(Line) /\ DOMAIN cells = DOMAIN t
      /\ \A k \in DOMAIN t : items[k] = AsItem(t[k]) /\ cells[k] = AsRow(t[k])
  <2>1. \A k \in DOMAIN t : AsItem(t[k]) \in Line /\ AsRow(t[k]) \in Line
    BY <1>1, RowsAndItems
  <2>2. items \in Seq(Line) /\ cells \in Seq(Line)
    BY <2>1
  <2> QED BY <2>2
<1>3. rows \in SUBSET DOMAIN t /\ heads \in SUBSET rows /\ (rows \ heads) \in SUBSET DOMAIN t
  OBVIOUS
<1>4. c = IF rows = {} THEN t ELSE IF heads = {} THEN list ELSE top \o body
  BY DEF Convert
<1>5. c \in Seq(Line)
  BY ConvertTyped
<1>6. /\ \A k \in DOMAIN t : k \in rows <=> TableRow(t[k])
      /\ \A k \in DOMAIN t : k \in heads <=> HeaderRow(t[k])
  BY DEF HeaderRow, TableRow
<1> HIDE DEF rows, heads, items, cells, c
<1>7. CASE rows = {}
  BY <1>4, <1>5, <1>6, <1>7 DEF c
<1>8. CASE rows # {} /\ heads = {}
  <2>1. c = list
    BY <1>4, <1>8
  <2>2. /\ \A n \in DOMAIN list : \E p \in rows : list[n] = items[p]
        /\ \A p \in rows : \E n \in DOMAIN list : list[n] = items[p]
    <3>1. rows \in SUBSET DOMAIN items
      BY <1>2, <1>3
    <3> QED BY <1>2, <3>1, SubsequenceElements
  <2> HIDE DEF list
  <2>3. ASSUME NEW n \in DOMAIN c
        PROVE  \E k \in DOMAIN t : TableRow(t[k]) /\ c[n] = AsItem(t[k])
    <3>1. PICK p \in rows : list[n] = items[p]
      BY <2>1, <2>2
    <3> QED BY <1>2, <1>3, <1>6, <2>1, <3>1
  <2>4. \A h \in DOMAIN t : ~HeaderRow(t[h])
    BY <1>6, <1>8
  <2>5. ~\A r \in DOMAIN t : ~TableRow(t[r])
    BY <1>3, <1>6, <1>8
  <2>6. c # <<>>
    BY <1>8, <2>1, <2>2
  <2> QED BY <1>5, <2>3, <2>4, <2>5, <2>6 DEF c
<1>9. CASE rows # {} /\ heads # {}
  <2>1. c = top \o body
    BY <1>4, <1>9
  <2>2. /\ body \in Seq(Line)
        /\ \A n \in DOMAIN body : \E p \in rows \ heads : body[n] = cells[p]
    <3>1. (rows \ heads) \in SUBSET DOMAIN cells
      BY <1>2, <1>3
    <3> QED BY <1>2, <3>1, SubsequenceElements
  <2>3. first \in heads
    <3>1. Len(t) \in Nat /\ heads \in SUBSET (1..Len(t))
      BY <1>3
    <3>2. /\ Cardinality(heads) \in Nat
          /\ \A n \in 1..Cardinality(heads) : Nth(heads, n) \in heads
          /\ \A k \in heads : \E n \in 1..Cardinality(heads) : Nth(heads, n) = k
      BY <3>1, NthInOrder
    <3>3. 1 \in 1..Cardinality(heads)
      BY <1>9, <3>2
    <3> QED BY <3>2, <3>3
  <2> HIDE DEF first, body
  <2>4. first \in DOMAIN t /\ TableRow(t[first]) /\ HeaderRow(t[first]) /\ t[first] \in Line
    BY <1>1, <1>3, <1>6, <2>3
  <2>5. /\ top \in Seq(Line) /\ DOMAIN top = {1, 2} /\ Len(top) = 2
        /\ top[1] = AsRow(t[first]) /\ top[2] = Separator
    <3>1. AsRow(t[first]) \in Line /\ Separator \in Line
      BY <2>4, RowsAndItems
    <3> QED BY <3>1
  <2> HIDE DEF top
  <2>6. ASSUME NEW n \in DOMAIN c
        PROVE  \/ /\ c[n] = Separator
                  /\ n > 1 /\ \E k \in DOMAIN t : TableRow(t[k]) /\ c[n - 1] = AsRow(t[k])
               \/ \E k \in DOMAIN t : TableRow(t[k]) /\ c[n] = AsRow(t[k])
    <3>1. \A m \in DOMAIN (top \o body) :
             \/ m \in DOMAIN top /\ (top \o body)[m] = top[m]
             \/ m - Len(top) \in DOMAIN body /\ (top \o body)[m] = body[m - Len(top)]
      <4>1. top \in Seq(Line) /\ body \in Seq(Line)
        BY <2>2, <2>5
      <4> QED BY <4>1, ConcatElements
    <3>2. \/ n \in DOMAIN top /\ c[n] = top[n]
          \/ n - Len(top) \in DOMAIN body /\ c[n] = body[n - Len(top)]
      BY <2>1, <3>1
    <3>3. CASE n \in DOMAIN top /\ c[n] = top[n]
      <4>1. c[1] = AsRow(t[first])
        <5>1. 1 \in DOMAIN top /\ top \in Seq(Line) /\ body \in Seq(Line)
          BY <2>2, <2>5
        <5>2. (top \o body)[1] = top[1]
          BY <5>1, ConcatElements
        <5> QED BY <2>1, <2>5, <5>2
      <4>2. CASE n = 1
        BY <2>4, <4>1, <4>2
      <4>3. CASE n = 2
        BY <2>4, <2>5, <3>3, <4>1, <4>3
      <4> QED BY <2>5, <3>3, <4>2, <4>3
    <3>4. CASE n - Len(top) \in DOMAIN body /\ c[n] = body[n - Len(top)]
      <4>1. PICK p \in rows \ heads : c[n] = cells[p]
        BY <2>2, <3>4
      <4> QED BY <1>2, <1>3, <1>6, <4>1
    <3> QED BY <3>2, <3>3, <3>4
  <2>7. \E h \in DOMAIN t : HeaderRow(t[h])
    BY <2>4
  <2>8. ~\A r \in DOMAIN t : ~TableRow(t[r])
    BY <2>4
  <2>9. c # <<>>
    <3>1. 1 \in DOMAIN top /\ top \in Seq(Line) /\ body \in Seq(Line)
      BY <2>2, <2>5
    <3>2. 1 \in DOMAIN (top \o body)
      BY <3>1, ConcatElements
    <3> QED BY <2>1, <3>2
  <2> QED BY <1>5, <2>6, <2>7, <2>8, <2>9 DEF c
<1> QED BY <1>7, <1>8, <1>9

-------------------------------------------------------------------------------
(***************************************************************************)
(* When a line is output.                                                  *)
(***************************************************************************)
\* The end tag that closes the table a line stands in is the first behind it.
LEMMA ClosingIs ==
  ASSUME raw \in Seq(Line), NEW i \in DOMAIN raw
  PROVE  /\ Closing(i) \in i..(Len(raw) + 1)
         /\ Closing(i) <= Len(raw) => TableClose(raw[Closing(i)])
         /\ \A k \in i..(Closing(i) - 1) : ~TableClose(raw[k])
<1> DEFINE Ends(c) == /\ c <= Len(raw) => TableClose(raw[c])
                      /\ \A k \in i..(c - 1) : ~TableClose(raw[k])
           S == {c \in i..(Len(raw) + 1) : c <= Len(raw) => TableClose(raw[c])}
<1>1. Len(raw) \in Nat /\ i \in Nat /\ i <= Len(raw) /\ i >= 1
  OBVIOUS
<1>2. PICK c \in S : \A m \in S : c <= m
  <2>1. S \in SUBSET (i..(Len(raw) + 1)) /\ IsFiniteSet(i..(Len(raw) + 1))
    BY <1>1, FS_Interval
  <2>2. IsFiniteSet(S) /\ \A m \in S : m \in Int
    BY <1>1, <2>1, FS_Subset
  <2>3. Len(raw) + 1 \in S
    BY <1>1
  <2>4. S # {}
    BY <2>3
  <2> HIDE DEF S
  <2> QED BY <2>2, <2>4, LeastElement
<1>3. c \in i..(Len(raw) + 1) /\ Ends(c)
  <2>1. c \in i..(Len(raw) + 1) /\ (c <= Len(raw) => TableClose(raw[c])) /\ c \in Int
    BY <1>1
  <2>2. ASSUME NEW k \in i..(c - 1)
        PROVE  ~TableClose(raw[k])
    <3>1. k \in i..(Len(raw) + 1) /\ ~(c <= k)
      BY <1>1, <2>1
    <3>2. k \notin S
      BY <1>2, <3>1
    <3> QED BY <3>1, <3>2
  <2> QED BY <2>1, <2>2
<1>4. Closing(i) = CHOOSE m \in i..(Len(raw) + 1) : Ends(m)
  BY DEF Closing
<1> HIDE DEF Ends
<1>5. Closing(i) \in i..(Len(raw) + 1) /\ Ends(Closing(i))
  BY <1>3, <1>4
<1> QED BY <1>5 DEF Ends

\* Whatever is such a line is that line.
LEMMA ClosingAt ==
  ASSUME raw \in Seq(Line), NEW i \in DOMAIN raw, NEW n \in i..(Len(raw) + 1),
         n <= Len(raw) => TableClose(raw[n]), \A k \in i..(n - 1) : ~TableClose(raw[k])
  PROVE  Closing(i) = n
<1> DEFINE c == Closing(i)
<1>1. /\ c \in i..(Len(raw) + 1) /\ (c <= Len(raw) => TableClose(raw[c]))
      /\ \A k \in i..(c - 1) : ~TableClose(raw[k])
  BY ClosingIs
<1> HIDE DEF c
<1>2. Len(raw) \in Nat /\ i \in Nat
  OBVIOUS
<1>3. ~(c < n)
  BY <1>1, <1>2
<1>4. ~(n < c)
  BY <1>1, <1>2
<1> QED BY <1>1, <1>2, <1>3, <1>4 DEF c

\* A line is output when it is read or later.
LEMMA OutputLater ==
  ASSUME raw \in Seq(Line), NEW i \in DOMAIN raw
  PROVE  OutputAt(i) \in i..(Len(raw) + 1)
<1>1. i \in i..(Len(raw) + 1)
  OBVIOUS
<1> QED BY <1>1, ClosingIs DEF OutputAt

\* Of a table: it holds all lines that wait for line n, an end tag or the end of the page.
Waiting(t, n) ==
  /\ t # <<>>
  /\ \A k \in DOMAIN t : /\ t[k].text \in DOMAIN raw /\ t[k].text <= n
                         /\ t[k] = raw[t[k].text]
                         /\ t[1].text <= t[k].text /\ ~TopFence(t[k])
  /\ Increasing(t)
  /\ OpenTable(t[1].text, n) /\ ~OpenTableBefore(t[1].text)
  /\ \A i \in DOMAIN raw : t[1].text <= i /\ i <= n => TopFence(raw[i]) \/ HasLine(t, i)

LEMMA WaitingLines ==
  ASSUME raw \in Seq(Line), NEW n \in 1..(Len(raw) + 1), n <= Len(raw) => TableClose(raw[n]),
         NEW t \in Seq(Line), Waiting(t, n)
  PROVE  /\ \A k \in DOMAIN t : /\ Held(t[k].text) /\ Closing(t[k].text) = n
                                /\ TableRow(t[k]) => OpenTableBefore(t[k].text)
         /\ \A h \in DOMAIN raw : Held(h) /\ Closing(h) = n => HasLine(t, h)
<1> DEFINE a == t[1].text
<1>1. /\ a \in DOMAIN raw /\ a <= n /\ OpensTable(raw[a]) /\ ~InFence(a)
      /\ \A m \in a..(n - 1) : ~TableClose(raw[m])
      /\ ~OpenTableBefore(a) /\ OpenTable(a, n)
  <2>1. 1 \in DOMAIN t
    BY DEF Waiting
  <2> QED BY <2>1 DEF OpenTable, Waiting
<1>2. Len(raw) \in Nat /\ n \in Nat /\ DOMAIN raw = 1..Len(raw) /\ a \in Nat
  BY <1>1
<1>3. \A i \in DOMAIN raw : HasLine(t, i) \/ TopFence(raw[i]) \/ i < a \/ n < i
  BY <1>1, <1>2 DEF Waiting
<1>4. \A k \in DOMAIN t : /\ t[k].text \in DOMAIN raw /\ t[k].text <= n /\ a <= t[k].text
                          /\ t[k] = raw[t[k].text] /\ ~TopFence(t[k])
  BY DEF Waiting
<1> HIDE DEF a
<1>5. ASSUME NEW k \in DOMAIN t, t[k].text # a
      PROVE  OpenTableBefore(t[k].text)
  <2> DEFINE i == t[k].text
  <2>1. i \in DOMAIN raw /\ i <= n /\ a <= i /\ i # a
    BY <1>4, <1>5
  <2> HIDE DEF i
  <2>2. a \in 1..(i - 1) /\ \A m \in a..(i - 1) : m \in a..(n - 1)
    BY <1>1, <1>2, <2>1
  <2>3. OpenTable(a, i)
    BY <1>1, <2>2 DEF OpenTable
  <2>4. OpenTableBefore(i)
    BY <2>2, <2>3 DEF OpenTableBefore
  <2> QED BY <2>4 DEF i
<1>6. ASSUME NEW k \in DOMAIN t
      PROVE  /\ Held(t[k].text) /\ Closing(t[k].text) = n
             /\ TableRow(t[k]) => OpenTableBefore(t[k].text)
  <2> DEFINE i == t[k].text
  <2>1. i \in DOMAIN raw /\ i <= n /\ a <= i /\ t[k] = raw[i] /\ ~TopFence(raw[i])
    BY <1>4
  <2>2. i # a => OpenTableBefore(i)
    BY <1>5
  <2> HIDE DEF i
  <2>3. Held(i)
    BY <1>1, <2>1, <2>2 DEF Held, AtOnce
  <2>4. TableRow(raw[i]) => i # a
    BY <1>1 DEF TableRow, OpensTable
  <2>5. n \in i..(Len(raw) + 1) /\ \A m \in i..(n - 1) : m \in a..(n - 1)
    BY <1>2, <2>1
  <2>6. Closing(i) = n
    BY <1>1, <2>1, <2>5, ClosingAt
  <2> QED BY <2>1, <2>2, <2>3, <2>4, <2>6 DEF i
<1>7. ASSUME NEW h \in DOMAIN raw, Held(h), Closing(h) = n
      PROVE  HasLine(t, h)
  <2>1. h <= n /\ \A m \in h..(n - 1) : ~TableClose(raw[m])
    BY <1>2, <1>7, ClosingIs
  <2>2. ASSUME h < a
        PROVE  FALSE
    <3>1. PICK c \in 1..h : /\ OpensTable(raw[c]) /\ ~InFence(c)
                            /\ \A m \in c..(h - 1) : ~TableClose(raw[m])
      <4>1. CASE OpenTableBefore(h)
        <5>1. PICK c \in 1..(h - 1) : OpenTable(c, h)
          BY <4>1 DEF OpenTableBefore
        <5>2. c \in 1..h
          BY <1>2, <5>1
        <5> QED BY <5>1, <5>2 DEF OpenTable
      <4>2. CASE ~OpenTableBefore(h)
        <5>1. OpensTable(raw[h]) /\ ~InFence(h)
          BY <1>7, <4>2 DEF Held, AtOnce
        <5>2. h \in 1..h /\ h..(h - 1) = {}
          BY <1>2
        <5> QED BY <5>1, <5>2
      <4> QED BY <4>1, <4>2
    <3>2. c \in 1..(a - 1) /\ \A m \in c..(a - 1) : m \in c..(h - 1) \/ m \in h..(n - 1)
      BY <1>1, <1>2, <2>2
    <3>3. OpenTable(c, a)
      BY <2>1, <3>1, <3>2 DEF OpenTable
    <3> QED BY <1>1, <3>2, <3>3 DEF OpenTableBefore
  <2>3. ~TopFence(raw[h])
    BY <1>7 DEF Held
  <2> QED BY <1>2, <1>3, <2>1, <2>2, <2>3
<1> QED BY <1>6, <1>7

-------------------------------------------------------------------------------
(***************************************************************************)
(* Lines that are output together at line n.                               *)
(***************************************************************************)
Together(t, n) ==
  /\ \A k \in DOMAIN t :
        LET i == t[k].text
        IN  /\ ~TopFence(t[k])
            /\ i = 0 => /\ t[k] = Separator
                        /\ k > 1 /\ t[k - 1].text # 0 /\ TableRow(raw[t[k - 1].text])
            /\ i # 0 => /\ i \in DOMAIN raw /\ Held(i) /\ Closing(i) = n
                        /\ \/ t[k] = raw[i]
                           \/ /\ TableRow(raw[i]) /\ OpenTableBefore(i)
                              /\ t[k] \in {AsRow(raw[i]), AsItem(raw[i])}
            /\ i # 0 /\ n \in DOMAIN raw =>
                  /\ t[k] = raw[i] => HasLine(t, n)
                  /\ (\E h \in DOMAIN raw : Held(h) /\ Closing(h) = n /\ HeaderRow(raw[h]))
                        => MdRow(t[k])
  /\ \A j, k \in DOMAIN t :
        j < k /\ t[j].text # 0 /\ t[k].text # 0
          /\ t[j] = raw[t[j].text] /\ t[k] = raw[t[k].text] => t[j].text < t[k].text

\* A table that is closed, converted,
LEMMA ConvertedTogether ==
  ASSUME raw \in Seq(Line), NEW n \in DOMAIN raw, TableClose(raw[n]),
         NEW t \in Seq(Line), Waiting(t, n)
  PROVE  Together(Convert(t), n)
<1> DEFINE c == Convert(t)
<1>1. /\ \A k \in DOMAIN t : /\ Held(t[k].text) /\ Closing(t[k].text) = n
                             /\ TableRow(t[k]) => OpenTableBefore(t[k].text)
      /\ \A h \in DOMAIN raw : Held(h) /\ Closing(h) = n => HasLine(t, h)
  <2>1. n \in 1..(Len(raw) + 1)
    OBVIOUS
  <2> QED BY <2>1, WaitingLines
<1>2. \A k \in DOMAIN t : /\ t[k].text \in DOMAIN raw /\ t[k].text # 0
                          /\ t[k] = raw[t[k].text] /\ ~TopFence(t[k])
  <2>1. 0 \notin DOMAIN raw
    OBVIOUS
  <2> QED BY <2>1 DEF Waiting
<1>3. /\ c \in Seq(Line)
      /\ (\A r \in DOMAIN t : ~TableRow(t[r])) => c = t
      /\ (\E r \in DOMAIN t : TableRow(t[r])) => \A m \in DOMAIN c :
            \/ /\ c[m] = Separator
               /\ \E h \in DOMAIN t : HeaderRow(t[h])
               /\ m > 1 /\ \E k \in DOMAIN t : TableRow(t[k]) /\ c[m - 1] = AsRow(t[k])
            \/ \E k \in DOMAIN t :
                  /\ TableRow(t[k])
                  /\ \/ c[m] = AsRow(t[k]) /\ \E h \in DOMAIN t : HeaderRow(t[h])
                     \/ c[m] = AsItem(t[k]) /\ \A h \in DOMAIN t : ~HeaderRow(t[h])
  BY ConvertElements
<1> HIDE DEF c
<1>4. (\E h \in DOMAIN raw : Held(h) /\ Closing(h) = n /\ HeaderRow(raw[h]))
        => \E h \in DOMAIN t : HeaderRow(t[h])
  <2> SUFFICES ASSUME NEW h \in DOMAIN raw, Held(h), Closing(h) = n, HeaderRow(raw[h])
               PROVE  \E k \in DOMAIN t : HeaderRow(t[k])
    OBVIOUS
  <2>1. PICK k \in DOMAIN t : t[k].text = h
    BY <1>1 DEF HasLine
  <2> QED BY <1>2, <2>1
<1>5. CASE \A r \in DOMAIN t : ~TableRow(t[r])
  <2>1. \A h \in DOMAIN t : ~HeaderRow(t[h])
    BY <1>5 DEF HeaderRow, TableRow
  <2>2. HasLine(t, n)
    <3>1. t[1].text <= n /\ n <= n /\ ~TopFence(raw[n])
      <4>1. 1 \in DOMAIN t
        BY DEF Waiting
      <4>2. n <= n
        OBVIOUS
      <4> QED BY <4>1, <4>2 DEF Waiting, TableClose, TopFence
    <3> QED BY <3>1 DEF Waiting
  <2>3. \A j, k \in DOMAIN t : j < k => t[j].text < t[k].text
    BY <1>2 DEF Waiting, Increasing
  <2>4. Together(t, n)
    BY <1>1, <1>2, <1>4, <2>1, <2>2, <2>3 DEF Together
  <2> QED BY <1>3, <1>5, <2>4 DEF c
<1>6. CASE \E r \in DOMAIN t : TableRow(t[r])
  <2>1. ASSUME NEW m \in DOMAIN c
        PROVE  \/ /\ c[m] = Separator /\ c[m].text = 0
                  /\ m > 1 /\ c[m - 1].text # 0 /\ TableRow(raw[c[m - 1].text])
               \/ /\ c[m].text \in DOMAIN raw /\ c[m].text # 0
                  /\ Held(c[m].text) /\ Closing(c[m].text) = n
                  /\ TableRow(raw[c[m].text]) /\ OpenTableBefore(c[m].text)
                  /\ c[m] \in {AsRow(raw[c[m].text]), AsItem(raw[c[m].text])}
                  /\ (\E h \in DOMAIN t : HeaderRow(t[h])) => c[m] = AsRow(raw[c[m].text])
    <3>1. CASE c[m] = Separator /\ m > 1 /\ \E k \in DOMAIN t : TableRow(t[k]) /\ c[m - 1] = AsRow(t[k])
      <4>1. PICK k \in DOMAIN t : TableRow(t[k]) /\ c[m - 1] = AsRow(t[k])
        BY <3>1
      <4>2. c[m - 1].text = t[k].text /\ Separator.text = 0
        BY <4>1 DEF AsRow, Separator
      <4> QED BY <1>2, <3>1, <4>1, <4>2
    <3>2. ASSUME NEW k \in DOMAIN t, TableRow(t[k]),
                 \/ c[m] = AsRow(t[k]) /\ \E h \in DOMAIN t : HeaderRow(t[h])
                 \/ c[m] = AsItem(t[k]) /\ \A h \in DOMAIN t : ~HeaderRow(t[h])
          PROVE  /\ c[m].text \in DOMAIN raw /\ c[m].text # 0
                 /\ Held(c[m].text) /\ Closing(c[m].text) = n
                 /\ TableRow(raw[c[m].text]) /\ OpenTableBefore(c[m].text)
                 /\ c[m] \in {AsRow(raw[c[m].text]), AsItem(raw[c[m].text])}
                 /\ (\E h \in DOMAIN t : HeaderRow(t[h])) => c[m] = AsRow(raw[c[m].text])
      <4>1. c[m].text = t[k].text
        BY <3>2 DEF AsRow, AsItem
      <4>2. t[k] = raw[c[m].text] /\ t[k].text \in DOMAIN raw /\ t[k].text # 0
        BY <1>2, <4>1
      <4>3. Held(t[k].text) /\ Closing(t[k].text) = n /\ OpenTableBefore(t[k].text)
        BY <1>1, <3>2
      <4>4. c[m] \in {AsRow(t[k]), AsItem(t[k])} /\ ((\E h \in DOMAIN t : HeaderRow(t[h])) => c[m] = AsRow(t[k]))
        BY <3>2
      <4>5. TableRow(raw[c[m].text])
        BY <3>2, <4>2
      <4> QED BY <4>1, <4>2, <4>3, <4>4, <4>5
    <3> QED BY <1>3, <1>6, <3>1, <3>2
  <2>2. \A m \in DOMAIN c : /\ ~TopFence(c[m])
                            /\ c[m].text # 0 => c[m] # raw[c[m].text]
                            /\ c[m] = AsRow(raw[c[m].text]) => MdRow(c[m])
    BY <2>1 DEF TopFence, Separator, AsRow, AsItem, TableRow, MdRow
  <2>3. Together(c, n)
    BY <1>4, <2>1, <2>2 DEF Together
  <2> QED BY <2>3 DEF c
<1> QED BY <1>5, <1>6

\* and one that was never closed, as found.
LEMMA UnclosedTogether ==
  ASSUME raw \in Seq(Line), NEW t \in Seq(Line), Waiting(t, Len(raw) + 1)
  PROVE  Together(t, Len(raw) + 1)
<1>1. /\ Len(raw) + 1 \in 1..(Len(raw) + 1) /\ Len(raw) + 1 \notin DOMAIN raw
      /\ ~(Len(raw) + 1 <= Len(raw)) /\ 0 \notin DOMAIN raw
  OBVIOUS
<1>2. \A k \in DOMAIN t : Held(t[k].text) /\ Closing(t[k].text) = Len(raw) + 1
  BY <1>1, WaitingLines
<1>3. \A k \in DOMAIN t : /\ t[k].text \in DOMAIN raw /\ t[k].text # 0
                          /\ t[k] = raw[t[k].text] /\ ~TopFence(t[k])
  BY <1>1 DEF Waiting
<1>4. \A j, k \in DOMAIN t : j < k => t[j].text < t[k].text
  BY <1>3 DEF Waiting, Increasing
<1> QED BY <1>1, <1>2, <1>3, <1>4 DEF Together

\* What holds of the lines that are output.
Placed(out) ==
  Verbatim(out) /\ Sorted(out) /\ FencesKept(out) /\ TablesKept(out) /\ QuotesKept(out)

OutputBy(out, n) == \A k \in DOMAIN out : out[k].text # 0 => OutputAt(out[k].text) <= n

\* They may be output behind what was output before,
LEMMA TogetherOutput ==
  ASSUME raw \in Seq(Line), NEW s \in Seq(Line), NEW t \in Seq(Line), NEW n \in Nat,
         Placed(s), \A k \in DOMAIN s : s[k].text # 0 => OutputAt(s[k].text) < n,
         Together(t, n), n \in DOMAIN raw => TopFences(s, Len(s)) = Fences(n)
  PROVE  /\ Placed(s \o t) /\ OutputBy(s \o t, n)
         /\ TopFences(s \o t, Len(s \o t)) = TopFences(s, Len(s))
<1> DEFINE c == s \o t
           m(k) == k - Len(s)
<1>1. /\ \A k \in DOMAIN c : \/ k \in DOMAIN s /\ c[k] = s[k]
                             \/ k > Len(s) /\ m(k) \in DOMAIN t /\ c[k] = t[m(k)]
      /\ \A k \in DOMAIN s : k \in DOMAIN c /\ c[k] = s[k]
      /\ \A k \in DOMAIN t : k + Len(s) \in DOMAIN c /\ c[k + Len(s)] = t[k]
  BY ConcatElements
<1>2. /\ \A k \in DOMAIN s : k \in 0..Len(s)
      /\ Len(s) \in Nat /\ Len(t) \in Nat
      /\ DOMAIN s = 1..Len(s) /\ DOMAIN t = 1..Len(t)
      /\ \A k \in DOMAIN c : k \in Int
  OBVIOUS
<1>3. /\ \A k \in 0..Len(s) : TopFences(c, k) = TopFences(s, k)
      /\ Len(c) = Len(s) + Len(t)
      /\ \A k \in Len(s)..(Len(s) + Len(t)) : TopFences(c, k) = TopFences(s, Len(s))
  <2>1. \A k \in DOMAIN t : ~TopFence(t[k])
    BY DEF Together
  <2> QED BY <2>1, ConcatFences
<1> HIDE DEF c
<1>4. \A i : HasLine(s, i) \/ HasLine(t, i) => HasLine(c, i)
  BY <1>1 DEF HasLine
<1>5. /\ Verbatim(s) /\ Sorted(s) /\ FencesKept(s) /\ TablesKept(s) /\ QuotesKept(s)
  BY DEF Placed
<1>6. \A k \in DOMAIN t : t[k].text # 0 => /\ t[k].text \in DOMAIN raw /\ Held(t[k].text)
                                           /\ OutputAt(t[k].text) = n /\ Closing(t[k].text) = n
                                           /\ ~AtOnce(t[k].text)
  BY DEF Together, OutputAt, Held
<1>7. Verbatim(c)
  <2> SUFFICES ASSUME NEW k \in DOMAIN c
               PROVE  LET i == c[k].text
                      IN  IF i = 0 THEN c[k] = Separator
                          ELSE /\ i \in DOMAIN raw
                               /\ \/ c[k] = raw[i]
                                  \/ /\ TableRow(raw[i]) /\ OpenTableBefore(i)
                                     /\ c[k] \in {AsRow(raw[i]), AsItem(raw[i])}
    BY DEF Verbatim
  <2>1. CASE k \in DOMAIN s /\ c[k] = s[k]
    BY <1>5, <2>1 DEF Verbatim
  <2>2. CASE k > Len(s) /\ m(k) \in DOMAIN t /\ c[k] = t[m(k)]
    BY <2>2 DEF Together
  <2> QED BY <1>1, <2>1, <2>2
<1>8. Sorted(c)
  <2> SUFFICES ASSUME NEW j \in DOMAIN c, NEW k \in DOMAIN c, j < k,
                      c[j].text # 0, c[k].text # 0
               PROVE  \/ OutputAt(c[j].text) < OutputAt(c[k].text)
                      \/ /\ OutputAt(c[j].text) = OutputAt(c[k].text)
                         /\ c[j] = raw[c[j].text] /\ c[k] = raw[c[k].text] => c[j].text < c[k].text
    BY DEF Sorted
  <2>1. CASE k \in DOMAIN s /\ c[k] = s[k]
    <3>1. j \in DOMAIN s /\ c[j] = s[j]
      BY <1>1, <1>2, <2>1
    <3> QED BY <1>5, <2>1, <3>1 DEF Sorted
  <2>2. CASE k > Len(s) /\ m(k) \in DOMAIN t /\ c[k] = t[m(k)]
    <3>1. OutputAt(c[k].text) = n
      BY <1>6, <2>2
    <3>2. CASE j \in DOMAIN s /\ c[j] = s[j]
      BY <3>1, <3>2
    <3>3. CASE j > Len(s) /\ m(j) \in DOMAIN t /\ c[j] = t[m(j)]
      <4>1. OutputAt(c[j].text) = n /\ m(j) < m(k)
        BY <1>2, <1>6, <3>3
      <4> QED BY <2>2, <3>1, <3>3, <4>1 DEF Together
    <3> QED BY <1>1, <3>2, <3>3
  <2> QED BY <1>1, <2>1, <2>2
<1>9. FencesKept(c)
  <2> SUFFICES ASSUME NEW k \in DOMAIN c, c[k].text # 0, OutputAt(c[k].text) \in DOMAIN raw
               PROVE  TopFences(c, k) = Fences(OutputAt(c[k].text))
    BY DEF FencesKept
  <2>1. CASE k \in DOMAIN s /\ c[k] = s[k]
    BY <1>2, <1>3, <1>5, <2>1 DEF FencesKept
  <2>2. CASE k > Len(s) /\ m(k) \in DOMAIN t /\ c[k] = t[m(k)]
    <3>1. k \in Len(s)..(Len(s) + Len(t)) /\ OutputAt(c[k].text) = n
      BY <1>2, <1>6, <2>2
    <3> QED BY <1>3, <3>1
  <2> QED BY <1>1, <2>1, <2>2
<1>10. TablesKept(c)
  <2> SUFFICES ASSUME NEW k \in DOMAIN c
               PROVE  LET i == c[k].text
                      IN  /\ i # 0 /\ Held(i) /\ Closing(i) \in DOMAIN raw =>
                                /\ c[k] = raw[i] => HasLine(c, Closing(i))
                                /\ (\E h \in DOMAIN raw : Held(h) /\ Closing(h) = Closing(i)
                                                            /\ HeaderRow(raw[h])) => MdRow(c[k])
                          /\ i = 0 => /\ k > 1 /\ c[k - 1].text # 0
                                      /\ Held(c[k - 1].text) /\ TableRow(raw[c[k - 1].text])
    BY DEF TablesKept
  <2>1. CASE k \in DOMAIN s /\ c[k] = s[k]
    <3>1. k > 1 => c[k - 1] = s[k - 1]
      <4>1. k > 1 => k - 1 \in DOMAIN s
        BY <1>2, <2>1
      <4> QED BY <1>1, <4>1
    <3> QED BY <1>4, <1>5, <2>1, <3>1 DEF TablesKept
  <2>2. CASE k > Len(s) /\ m(k) \in DOMAIN t /\ c[k] = t[m(k)]
    <3>1. m(k) > 1 => k > 1 /\ c[k - 1] = t[m(k) - 1] /\ m(k) - 1 \in DOMAIN t
      <4>1. m(k) > 1 => m(k) - 1 \in DOMAIN t /\ (m(k) - 1) + Len(s) = k - 1 /\ k > 1
        <5>1. k \in Int /\ m(k) \in 1..Len(t) /\ Len(s) \in Nat /\ Len(t) \in Nat
          BY <1>2, <2>2
        <5>2. \A j \in Int, a \in Nat, b \in Nat :
                 j - a \in 1..b /\ j - a > 1 =>
                     (j - a) - 1 \in 1..b /\ ((j - a) - 1) + a = j - 1 /\ j > 1
          OBVIOUS
        <5> QED BY <1>2, <5>1, <5>2
      <4> QED BY <1>1, <4>1
    <3>2. CASE c[k].text = 0
      BY <1>6, <2>2, <3>1, <3>2 DEF Together
    <3>3. CASE c[k].text # 0
      BY <1>4, <1>6, <2>2, <3>3 DEF Together
    <3> QED BY <3>2, <3>3
  <2> QED BY <1>1, <2>1, <2>2
<1>11. QuotesKept(c)
  <2> SUFFICES ASSUME NEW k \in DOMAIN c, c[k].text > 1, AtOnce(c[k].text),
                      ~InFence(c[k].text), ~TopFence(raw[c[k].text])
               PROVE  k > 1 /\ (c[k - 1] = raw[c[k].text - 1] \/ c[k - 1].depth = 0)
    BY DEF QuotesKept
  <2>1. CASE k \in DOMAIN s /\ c[k] = s[k]
    <3>1. k > 1 => c[k - 1] = s[k - 1]
      <4>1. k > 1 => k - 1 \in DOMAIN s
        BY <1>2, <2>1
      <4> QED BY <1>1, <4>1
    <3> QED BY <1>5, <2>1, <3>1 DEF QuotesKept
  <2>2. CASE k > Len(s) /\ m(k) \in DOMAIN t /\ c[k] = t[m(k)]
    <3>1. c[k].text # 0
      OBVIOUS
    <3> QED BY <1>6, <2>2, <3>1
  <2> QED BY <1>1, <2>1, <2>2
<1>12. OutputBy(c, n)
  <2> SUFFICES ASSUME NEW k \in DOMAIN c, c[k].text # 0
               PROVE  OutputAt(c[k].text) <= n
    BY DEF OutputBy
  <2>1. CASE k \in DOMAIN s /\ c[k] = s[k]
    <3>1. c[k].text \in DOMAIN raw /\ OutputAt(c[k].text) < n
      BY <1>5, <2>1 DEF Verbatim
    <3>2. OutputAt(c[k].text) \in Int
      BY <3>1, OutputLater
    <3> QED BY <3>1, <3>2
  <2>2. CASE k > Len(s) /\ m(k) \in DOMAIN t /\ c[k] = t[m(k)]
    BY <1>6, <2>2
  <2> QED BY <1>1, <2>1, <2>2
<1>13. TopFences(c, Len(c)) = TopFences(s, Len(s))
  <2>1. Len(c) \in Len(s)..(Len(s) + Len(t))
    BY <1>2, <1>3
  <2> QED BY <1>3, <2>1
<1> QED BY <1>7, <1>8, <1>9, <1>10, <1>11, <1>12, <1>13 DEF c, Placed

\* and so may a line that is not held back.
LEMMA LinePlaced ==
  ASSUME raw \in Seq(Line), NEW s \in Seq(Line), NEW i \in DOMAIN raw, raw[i].text = i,
         Placed(s), OutputBy(s, i - 1), TopFences(s, Len(s)) = Fences(i - 1), ~Held(i),
         i > 1 /\ ~InFence(i) /\ ~TopFence(raw[i]) =>
            s # <<>> /\ (s[Len(s)] = raw[i - 1] \/ s[Len(s)].depth = 0)
  PROVE  /\ Placed(Append(s, raw[i])) /\ OutputBy(Append(s, raw[i]), i)
         /\ TopFences(Append(s, raw[i]), Len(Append(s, raw[i]))) = Fences(i)
<1> DEFINE l == raw[i]
           c == Append(s, l)
<1>1. l \in Line /\ l.text = i /\ i # 0 /\ i \in Nat
  BY ElementOf
<1>2. /\ Fences(i - 1) \in Nat
      /\ Fences(i) = IF TopFence(l) THEN Fences(i - 1) + 1 ELSE Fences(i - 1)
  BY FencesGrow
<1>3. OutputAt(i) = i
  BY DEF OutputAt
<1> HIDE DEF l
<1>4. /\ \A k \in 0..Len(s) : TopFences(c, k) = TopFences(s, k)
      /\ Len(c) = Len(s) + 1
      /\ TopFences(c, Len(s) + 1) = TopFences(s, Len(s)) + (IF TopFence(l) THEN 1 ELSE 0)
  BY <1>1, AppendFences
<1>5. /\ DOMAIN c = DOMAIN s \cup {Len(s) + 1}
      /\ \A k \in DOMAIN s : c[k] = s[k] /\ k \in 0..Len(s)
      /\ c[Len(s) + 1] = l
      /\ DOMAIN s = 1..Len(s) /\ Len(s) \in Nat
  <2>1. (\A k \in DOMAIN s : k \in 0..Len(s)) /\ DOMAIN s = 1..Len(s) /\ Len(s) \in Nat
    OBVIOUS
  <2> QED BY <1>1, <2>1, AppendElements
<1> HIDE DEF c
<1>6. TopFences(c, Len(c)) = Fences(i)
  BY <1>2, <1>4
<1>7. Verbatim(s) /\ Sorted(s) /\ FencesKept(s) /\ TablesKept(s) /\ QuotesKept(s)
  BY DEF Placed
<1>8. Verbatim(c)
  <2> SUFFICES ASSUME NEW k \in DOMAIN c
               PROVE  LET j == c[k].text
                      IN  IF j = 0 THEN c[k] = Separator
                          ELSE /\ j \in DOMAIN raw
                               /\ \/ c[k] = raw[j]
                                  \/ /\ TableRow(raw[j]) /\ OpenTableBefore(j)
                                     /\ c[k] \in {AsRow(raw[j]), AsItem(raw[j])}
    BY DEF Verbatim
  <2>1. CASE k \in DOMAIN s
    BY <1>5, <1>7, <2>1 DEF Verbatim
  <2>2. CASE k = Len(s) + 1
    BY <1>1, <1>5, <2>2 DEF l
  <2> QED BY <1>5, <2>1, <2>2
<1>9. \A k \in DOMAIN s : s[k].text # 0 => /\ OutputAt(s[k].text) <= i - 1
                                           /\ OutputAt(s[k].text) \in Nat
  <2>1. \A k \in DOMAIN s : s[k].text # 0 => s[k].text \in DOMAIN raw
    BY <1>7 DEF Verbatim
  <2>2. \A j \in DOMAIN raw : OutputAt(j) \in Nat
    <3> SUFFICES ASSUME NEW j \in DOMAIN raw
                 PROVE  OutputAt(j) \in Nat
      OBVIOUS
    <3>1. OutputAt(j) \in j..(Len(raw) + 1) /\ j \in Nat
      BY OutputLater
    <3> QED BY <3>1
  <2> QED BY <2>1, <2>2 DEF OutputBy
<1>10. OutputBy(c, i)
  <2> SUFFICES ASSUME NEW k \in DOMAIN c, c[k].text # 0
               PROVE  OutputAt(c[k].text) <= i
    BY DEF OutputBy
  <2>1. CASE k \in DOMAIN s
    BY <1>1, <1>5, <1>9, <2>1
  <2>2. CASE k = Len(s) + 1
    BY <1>1, <1>3, <1>5, <2>2
  <2> QED BY <1>5, <2>1, <2>2
<1>11. Sorted(c)
  <2> SUFFICES ASSUME NEW j \in DOMAIN c, NEW k \in DOMAIN c, j < k,
                      c[j].text # 0, c[k].text # 0
               PROVE  \/ OutputAt(c[j].text) < OutputAt(c[k].text)
                      \/ /\ OutputAt(c[j].text) = OutputAt(c[k].text)
                         /\ c[j] = raw[c[j].text] /\ c[k] = raw[c[k].text] => c[j].text < c[k].text
    BY DEF Sorted
  <2>0. j \in DOMAIN s /\ c[j] = s[j]
    BY <1>5
  <2>1. CASE k \in DOMAIN s
    BY <1>5, <1>7, <2>0, <2>1 DEF Sorted
  <2>2. CASE k = Len(s) + 1
    BY <1>1, <1>3, <1>5, <1>9, <2>0, <2>2
  <2> QED BY <1>5, <2>1, <2>2
<1>12. FencesKept(c)
  <2> SUFFICES ASSUME NEW k \in DOMAIN c, c[k].text # 0, OutputAt(c[k].text) \in DOMAIN raw
               PROVE  TopFences(c, k) = Fences(OutputAt(c[k].text))
    BY DEF FencesKept
  <2>1. CASE k \in DOMAIN s
    BY <1>4, <1>5, <1>7, <2>1 DEF FencesKept
  <2>2. CASE k = Len(s) + 1
    BY <1>1, <1>3, <1>4, <1>5, <1>6, <2>2
  <2> QED BY <1>5, <2>1, <2>2
<1>13. \A k \in DOMAIN s : k > 1 => c[k - 1] = s[k - 1]
  BY <1>5
<1>14. TablesKept(c)
  <2>1. \A j : HasLine(s, j) => HasLine(c, j)
    BY <1>5 DEF HasLine
  <2> SUFFICES ASSUME NEW k \in DOMAIN c
               PROVE  LET j == c[k].text
                      IN  /\ j # 0 /\ Held(j) /\ Closing(j) \in DOMAIN raw =>
                                /\ c[k] = raw[j] => HasLine(c, Closing(j))
                                /\ (\E h \in DOMAIN raw : Held(h) /\ Closing(h) = Closing(j)
                                                            /\ HeaderRow(raw[h])) => MdRow(c[k])
                          /\ j = 0 => /\ k > 1 /\ c[k - 1].text # 0
                                      /\ Held(c[k - 1].text) /\ TableRow(raw[c[k - 1].text])
    BY DEF TablesKept
  <2>2. CASE k \in DOMAIN s
    BY <1>5, <1>7, <1>13, <2>1, <2>2 DEF TablesKept
  <2>3. CASE k = Len(s) + 1
    BY <1>1, <1>5, <2>3
  <2> QED BY <1>5, <2>2, <2>3
<1>15. QuotesKept(c)
  <2> SUFFICES ASSUME NEW k \in DOMAIN c, c[k].text > 1, AtOnce(c[k].text),
                      ~InFence(c[k].text), ~TopFence(raw[c[k].text])
               PROVE  k > 1 /\ (c[k - 1] = raw[c[k].text - 1] \/ c[k - 1].depth = 0)
    BY DEF QuotesKept
  <2>1. CASE k \in DOMAIN s
    BY <1>5, <1>7, <1>13, <2>1 DEF QuotesKept
  <2>2. CASE k = Len(s) + 1
    <3>1. c[k].text = i /\ s # <<>> /\ (s[Len(s)] = raw[i - 1] \/ s[Len(s)].depth = 0)
      BY <1>1, <1>5, <2>2
    <3>2. Len(s) # 0 /\ k - 1 = Len(s) /\ Len(s) \in DOMAIN s
      <4>1. Len(s) # 0
        BY <3>1
      <4> QED BY <1>5, <2>2, <4>1
    <3> QED BY <1>5, <2>2, <3>1, <3>2
  <2> QED BY <1>5, <2>1, <2>2
<1> QED BY <1>6, <1>8, <1>10, <1>11, <1>12, <1>14, <1>15 DEF c, l, Placed

\* Of the chosen positions, the one before the n-th is the last before it.
LEMMA NeighboursKept ==
  ASSUME NEW N \in Nat, NEW P \in SUBSET (1..N), NEW n \in 1..Cardinality(P),
         NEW k \in P, k < Nth(P, n)
  PROVE  /\ n > 1 /\ n - 1 \in 1..Cardinality(P)
         /\ k <= Nth(P, n - 1) /\ Nth(P, n - 1) < Nth(P, n)
         /\ \A m \in P : ~(Nth(P, n - 1) < m /\ m < Nth(P, n))
<1>1. /\ Cardinality(P) \in Nat
      /\ \A m \in 1..Cardinality(P) : Nth(P, m) \in P
      /\ \A m \in P : \E j \in 1..Cardinality(P) : Nth(P, j) = m
      /\ \A j, m \in 1..Cardinality(P) : j < m => Nth(P, j) < Nth(P, m)
  BY NthInOrder
<1>2. \A m \in P : m \in Int
  OBVIOUS
<1>3. \A m \in P : m < Nth(P, n) => \E j \in 1..Cardinality(P) : Nth(P, j) = m /\ j < n
  <2> SUFFICES ASSUME NEW m \in P, m < Nth(P, n)
               PROVE  \E j \in 1..Cardinality(P) : Nth(P, j) = m /\ j < n
    OBVIOUS
  <2>1. PICK j \in 1..Cardinality(P) : Nth(P, j) = m
    BY <1>1
  <2>2. m \in Int /\ Nth(P, n) \in Int
    BY <1>1, <1>2
  <2>3. j # n /\ ~(n < j)
    <3>1. n < j => Nth(P, n) < m
      BY <1>1, <2>1
    <3> QED BY <2>1, <2>2, <3>1
  <2>4. j < n
    BY <1>1, <2>3
  <2> QED BY <2>1, <2>4
<1>4. n > 1 /\ n - 1 \in 1..Cardinality(P) /\ n \in Int
  BY <1>1, <1>3
<1>5. \A m \in P : m < Nth(P, n) => m <= Nth(P, n - 1)
  <2> SUFFICES ASSUME NEW m \in P, m < Nth(P, n)
               PROVE  m <= Nth(P, n - 1)
    OBVIOUS
  <2>1. PICK j \in 1..Cardinality(P) : Nth(P, j) = m /\ j < n
    BY <1>3
  <2>2. j = n - 1 \/ j < n - 1
    BY <1>1, <1>4, <2>1
  <2>3. m = Nth(P, n - 1) \/ m < Nth(P, n - 1)
    BY <1>1, <1>4, <2>1, <2>2
  <2>4. Nth(P, n - 1) \in Int
    BY <1>1, <1>2, <1>4
  <2> QED BY <1>2, <2>3, <2>4
<1>6. Nth(P, n - 1) < Nth(P, n)
  <2>1. n - 1 < n
    BY <1>4
  <2> QED BY <1>1, <1>4, <2>1
<1>7. Nth(P, n - 1) \in Int /\ Nth(P, n) \in Int
  BY <1>1, <1>2, <1>4
<1> QED BY <1>2, <1>4, <1>5, <1>6, <1>7

\* Collapsing blank lines leaves what is placed where it is.
LEMMA CollapsedPlaced ==
  ASSUME raw \in Seq(Line), \A i \in DOMAIN raw : Blank(raw[i]) => raw[i].depth = 0,
         NEW s \in Seq(Line), Placed(s)
  PROVE  Placed(Collapsed(s))
<1> DEFINE P == {k \in DOMAIN s : ~(2 < k /\ k < Len(s) /\ Blank(s[k]) /\ Blank(s[k - 1]))}
           c == Subsequence(s, P)
           q(n) == Nth(P, n)
<1>1. /\ P \in SUBSET DOMAIN s
      /\ \A k \in DOMAIN s : k \in P \/ (2 < k /\ Blank(s[k]) /\ Blank(s[k - 1]))
      /\ Collapsed(s) = c
  BY DEF Collapsed
<1> HIDE DEF P
<1>2. /\ Len(s) \in Nat /\ P \in SUBSET (1..Len(s)) /\ DOMAIN s = 1..Len(s)
      /\ \A k \in P : k \in Int /\ k \in DOMAIN s /\ k >= 1
  BY <1>1
<1>3. Verbatim(s) /\ Sorted(s) /\ FencesKept(s) /\ TablesKept(s) /\ QuotesKept(s)
  BY DEF Placed
<1>4. ASSUME NEW k \in DOMAIN s, Blank(s[k])
      PROVE  /\ s[k].text # 0 /\ s[k].text \in DOMAIN raw /\ s[k] = raw[s[k].text]
             /\ s[k].depth = 0 /\ ~TopFence(s[k])
  <2>1. ~Blank(Separator) /\ \A l : ~Blank(AsRow(l)) /\ ~Blank(AsItem(l))
    BY DEF Blank, Separator, AsRow, AsItem
  <2>2. s[k].text # 0 /\ s[k].text \in DOMAIN raw /\ s[k] = raw[s[k].text]
    BY <1>3, <1>4, <2>1 DEF Verbatim
  <2>3. s[k].depth = 0
    BY <1>4, <2>2
  <2> QED BY <1>4, <2>2, <2>3 DEF Blank, TopFence
<1>5. /\ \A n \in DOMAIN c : q(n) \in P /\ c[n] = s[q(n)] /\ TopFences(c, n) = TopFences(s, q(n))
      /\ DOMAIN c = 1..Cardinality(P)
  <2>1. \A k \in DOMAIN s \ P : ~TopFence(s[k])
    BY <1>1, <1>4
  <2> QED BY <1>1, <2>1, SubsequenceFences DEF Subsequence
<1>6. /\ \A k \in P : \E n \in DOMAIN c : q(n) = k
      /\ \A n, m \in DOMAIN c : n < m => q(n) < q(m)
  BY <1>2, <1>5, NthInOrder
<1>7. ASSUME NEW n \in DOMAIN c, NEW k \in P, k < q(n)
      PROVE  /\ n > 1 /\ n - 1 \in DOMAIN c /\ k <= q(n - 1) /\ q(n - 1) < q(n)
             /\ \A m \in P : ~(q(n - 1) < m /\ m < q(n))
  <2>1. n \in 1..Cardinality(P) /\ k < Nth(P, n)
    BY <1>5, <1>7
  <2> QED BY <1>2, <1>5, <2>1, NeighboursKept
<1> HIDE DEF c, q
<1>8. ASSUME NEW n \in DOMAIN c, q(n) - 1 \in P
      PROVE  n > 1 /\ c[n - 1] = s[q(n) - 1]
  <2>1. q(n) \in Int /\ q(n) - 1 < q(n)
    <3>1. q(n) \in Int
      BY <1>2, <1>5
    <3>2. \A x \in Int : x - 1 < x
      OBVIOUS
    <3> QED BY <3>1, <3>2
  <2>2. /\ n > 1 /\ n - 1 \in DOMAIN c /\ q(n) - 1 <= q(n - 1) /\ q(n - 1) < q(n)
    BY <1>7, <1>8, <2>1
  <2>3. q(n - 1) = q(n) - 1
    <3>1. q(n - 1) \in Int
      BY <1>2, <1>5, <2>2
    <3>2. \A x, y \in Int : x - 1 <= y /\ y < x => y = x - 1
      OBVIOUS
    <3> QED BY <2>1, <2>2, <3>1, <3>2
  <2> QED BY <1>5, <2>2, <2>3
<1>9. Verbatim(c)
  <2> SUFFICES ASSUME NEW k \in DOMAIN c
               PROVE  LET i == c[k].text
                      IN  IF i = 0 THEN c[k] = Separator
                          ELSE /\ i \in DOMAIN raw
                               /\ \/ c[k] = raw[i]
                                  \/ /\ TableRow(raw[i]) /\ OpenTableBefore(i)
                                     /\ c[k] \in {AsRow(raw[i]), AsItem(raw[i])}
    BY DEF Verbatim
  <2>1. q(k) \in DOMAIN s /\ c[k] = s[q(k)]
    BY <1>2, <1>5
  <2> QED BY <1>3, <2>1 DEF Verbatim
<1>10. Sorted(c)
  <2> SUFFICES ASSUME NEW j \in DOMAIN c, NEW k \in DOMAIN c, j < k,
                      c[j].text # 0, c[k].text # 0
               PROVE  \/ OutputAt(c[j].text) < OutputAt(c[k].text)
                      \/ /\ OutputAt(c[j].text) = OutputAt(c[k].text)
                         /\ c[j] = raw[c[j].text] /\ c[k] = raw[c[k].text] => c[j].text < c[k].text
    BY DEF Sorted
  <2>1. q(j) \in DOMAIN s /\ c[j] = s[q(j)] /\ q(k) \in DOMAIN s /\ c[k] = s[q(k)] /\ q(j) < q(k)
    BY <1>2, <1>5, <1>6
  <2> QED BY <1>3, <2>1 DEF Sorted
<1>11. FencesKept(c)
  <2> SUFFICES ASSUME NEW k \in DOMAIN c, c[k].text # 0, OutputAt(c[k].text) \in DOMAIN raw
               PROVE  TopFences(c, k) = Fences(OutputAt(c[k].text))
    BY DEF FencesKept
  <2>1. q(k) \in DOMAIN s /\ c[k] = s[q(k)] /\ TopFences(c, k) = TopFences(s, q(k))
    BY <1>2, <1>5
  <2> QED BY <1>3, <2>1 DEF FencesKept
<1>12. TablesKept(c)
  <2>1. ASSUME NEW i \in DOMAIN raw, ~Blank(raw[i]), HasLine(s, i)
        PROVE  HasLine(c, i)
    <3>1. PICK k \in DOMAIN s : s[k].text = i
      BY <2>1 DEF HasLine
    <3>2. k \in P
      BY <1>1, <1>4, <2>1, <3>1
    <3>3. PICK n \in DOMAIN c : q(n) = k
      BY <1>6, <3>2
    <3> QED BY <1>5, <3>1, <3>3 DEF HasLine
  <2> SUFFICES ASSUME NEW k \in DOMAIN c
               PROVE  LET i == c[k].text
                      IN  /\ i # 0 /\ Held(i) /\ Closing(i) \in DOMAIN raw =>
                                /\ c[k] = raw[i] => HasLine(c, Closing(i))
                                /\ (\E h \in DOMAIN raw : Held(h) /\ Closing(h) = Closing(i)
                                                            /\ HeaderRow(raw[h])) => MdRow(c[k])
                          /\ i = 0 => /\ k > 1 /\ c[k - 1].text # 0
                                      /\ Held(c[k - 1].text) /\ TableRow(raw[c[k - 1].text])
    BY DEF TablesKept
  <2>2. q(k) \in P /\ q(k) \in DOMAIN s /\ c[k] = s[q(k)]
    BY <1>2, <1>5
  <2>3. CASE c[k].text # 0
    <3>1. c[k].text \in DOMAIN raw
      BY <1>9, <2>3 DEF Verbatim
    <3>2. Closing(c[k].text) \in DOMAIN raw => ~Blank(raw[Closing(c[k].text)])
      <4>1. Closing(c[k].text) \in DOMAIN raw => Closing(c[k].text) <= Len(raw)
        OBVIOUS
      <4>2. Closing(c[k].text) \in DOMAIN raw => TableClose(raw[Closing(c[k].text)])
        BY <3>1, <4>1, ClosingIs
      <4> QED BY <4>2 DEF TableClose, Blank
    <3> QED BY <1>3, <2>1, <2>2, <2>3, <3>2 DEF TablesKept
  <2>4. CASE c[k].text = 0
    <3>1. /\ q(k) > 1 /\ s[q(k) - 1].text # 0
          /\ Held(s[q(k) - 1].text) /\ TableRow(raw[s[q(k) - 1].text])
      BY <1>3, <2>2, <2>4 DEF TablesKept
    <3>2. q(k) - 1 \in DOMAIN s
      BY <1>2, <2>2, <3>1
    <3>3. ~Blank(s[q(k) - 1])
      BY <1>4, <3>1, <3>2 DEF Blank, TableRow
    <3>4. q(k) - 1 \in P
      BY <1>1, <3>2, <3>3
    <3>5. k > 1 /\ c[k - 1] = s[q(k) - 1]
      BY <1>8, <3>4
    <3> QED BY <2>4, <3>1, <3>5
  <2> QED BY <2>3, <2>4
<1>13. QuotesKept(c)
  <2> SUFFICES ASSUME NEW k \in DOMAIN c, c[k].text > 1, AtOnce(c[k].text),
                      ~InFence(c[k].text), ~TopFence(raw[c[k].text])
               PROVE  k > 1 /\ (c[k - 1] = raw[c[k].text - 1] \/ c[k - 1].depth = 0)
    BY DEF QuotesKept
  <2>1. q(k) \in P /\ q(k) \in DOMAIN s /\ c[k] = s[q(k)] /\ q(k) \in Int
    BY <1>2, <1>5
  <2>2. q(k) > 1 /\ (s[q(k) - 1] = raw[c[k].text - 1] \/ s[q(k) - 1].depth = 0)
    BY <1>3, <2>1 DEF QuotesKept
  <2>3. CASE q(k) - 1 \in P
    <3>1. k > 1 /\ c[k - 1] = s[q(k) - 1]
      BY <1>8, <2>3
    <3> QED BY <2>2, <3>1
  <2>4. CASE q(k) - 1 \notin P
    <3>1. q(k) - 1 \in DOMAIN s
      BY <1>2, <2>1, <2>2
    <3>2. 1 \in P
      <4>1. 1 \in DOMAIN s /\ ~(2 < 1)
        BY <1>2, <2>1
      <4> QED BY <1>1, <4>1
    <3>3. /\ k > 1 /\ k - 1 \in DOMAIN c /\ q(k - 1) < q(k)
          /\ \A m \in P : ~(q(k - 1) < m /\ m < q(k))
      BY <1>7, <2>2, <3>2
    <3>4. q(k - 1) \in P /\ q(k - 1) \in DOMAIN s /\ c[k - 1] = s[q(k - 1)] /\ q(k - 1) \in Int
      BY <1>2, <1>5, <3>3
    <3>5. q(k - 1) # q(k) - 1
      BY <2>4, <3>4
    <3>6. /\ q(k - 1) + 1 \in DOMAIN s /\ q(k - 1) + 1 \notin P
          /\ (q(k - 1) + 1) - 1 = q(k - 1)
      <4>1. q(k - 1) < q(k - 1) + 1 /\ q(k - 1) + 1 < q(k)
        BY <2>1, <3>3, <3>4, <3>5
      <4> QED BY <1>2, <2>1, <3>3, <3>4, <4>1
    <3>7. Blank(s[q(k - 1)])
      BY <1>1, <3>6
    <3> QED BY <1>4, <3>3, <3>4, <3>7
  <2> QED BY <2>3, <2>4
<1> QED BY <1>1, <1>9, <1>10, <1>11, <1>12, <1>13 DEF Placed

-------------------------------------------------------------------------------
(***************************************************************************)
(* The steps of the cleaner.                                               *)
(***************************************************************************)
\* The page does not change, and neither does what is said of it.
LEMMA SamePlaced ==
  ASSUME raw' = raw
  PROVE  /\ \A i : (OutputAt(i)' = OutputAt(i)) /\ (InFence(i)' <=> InFence(i))
                   /\ (OpenTableBefore(i)' <=> OpenTableBefore(i))
         /\ \A s : Placed(s)' <=> Placed(s)
<1>1. \A i : Fences(i)' = Fences(i)
  BY DEF Fences
<1>2. \A i : (InFence(i)' <=> InFence(i)) /\ (OpenTableBefore(i)' <=> OpenTableBefore(i))
  BY SameRaw
<1>3. \A i : AtOnce(i)' <=> AtOnce(i)
  BY <1>2 DEF AtOnce
<1>4. \A i : (Held(i)' <=> Held(i)) /\ Closing(i)' = Closing(i)
  BY <1>3 DEF Held, Closing
<1>5. \A i : OutputAt(i)' = OutputAt(i)
  BY <1>4 DEF OutputAt
<1>6. \A s : Verbatim(s)' <=> Verbatim(s)
  BY <1>2 DEF Verbatim
<1>7. \A s : Sorted(s)' <=> Sorted(s)
  BY <1>5 DEF Sorted
<1>8. \A s : FencesKept(s)' <=> FencesKept(s)
  BY <1>1, <1>5 DEF FencesKept, TopFences
<1>9. \A s : TablesKept(s)' <=> TablesKept(s)
  BY <1>4 DEF TablesKept, HasLine
<1>10. \A s : QuotesKept(s)' <=> QuotesKept(s)
  BY <1>2, <1>3 DEF QuotesKept
<1> QED BY <1>2, <1>5, <1>6, <1>7, <1>8, <1>9, <1>10 DEF Placed

\* The table that grows waits for its end tag,
LEMMA GrownWaits ==
  ASSUME CleanTypeOK, FlagsInv, BufferInv, BufferWhole,
         \A i \in DOMAIN raw : raw[i].text = i, ReadTable
  PROVE  LET t == Append(tableBuffer, NextRaw)
         IN  /\ Waiting(t, read + 1)
             /\ \A k \in DOMAIN t : \/ k \in DOMAIN tableBuffer /\ t[k] = tableBuffer[k]
                                    \/ t[k] = NextRaw
<1> DEFINE t == Append(tableBuffer, NextRaw)
           n == read + 1
<1>1. Reading /\ ~TopFence(NextRaw)
  BY DEF ReadTable, PastSkipping
<1>2. /\ read \in Nat /\ n \in DOMAIN raw /\ NextRaw = raw[n] /\ NextRaw \in Line
      /\ raw \in Seq(Line) /\ tableBuffer \in Seq(Line)
  BY <1>1, FlagsNow DEF CleanTypeOK
<1>3. /\ t \in Seq(Line) /\ t # <<>>
      /\ \A k \in DOMAIN t : /\ t[k].text \in 1..n
                             /\ t[k] = raw[t[k].text]
                             /\ t[1].text <= t[k].text
      /\ \A k \in DOMAIN t : \/ k \in DOMAIN tableBuffer /\ t[k] = tableBuffer[k]
                             \/ t[k] = NextRaw
      /\ Increasing(t)
      /\ OpenTable(t[1].text, n)
      /\ \A i : HasLine(t, i) <=> HasLine(tableBuffer, i) \/ i = n
  BY TableGrows
<1>4. t[1] = IF tableBuffer = <<>> THEN NextRaw ELSE tableBuffer[1]
  <2>1. /\ DOMAIN t = DOMAIN tableBuffer \cup {Len(tableBuffer) + 1}
        /\ \A k \in DOMAIN tableBuffer : t[k] = tableBuffer[k]
        /\ t[Len(tableBuffer) + 1] = NextRaw
    BY <1>2, AppendElements
  <2>2. /\ tableBuffer = <<>> => Len(tableBuffer) + 1 = 1
        /\ tableBuffer # <<>> => 1 \in DOMAIN tableBuffer
    BY <1>2
  <2> HIDE DEF t
  <2> QED BY <2>1, <2>2
<1>5. \A k \in DOMAIN t : /\ t[k].text \in DOMAIN raw /\ t[k].text <= n
                          /\ ~TopFence(t[k])
  <2> SUFFICES ASSUME NEW k \in DOMAIN t
               PROVE  t[k].text \in DOMAIN raw /\ t[k].text <= n /\ ~TopFence(t[k])
    OBVIOUS
  <2>1. t[k].text \in 1..n
    BY <1>3
  <2>2. t[k].text \in DOMAIN raw /\ t[k].text <= n
    <3> HIDE DEF t
    <3> QED BY <1>2, <2>1
  <2>3. ~TopFence(t[k])
    <3>1. CASE k \in DOMAIN tableBuffer /\ t[k] = tableBuffer[k]
      BY <3>1 DEF BufferWhole
    <3>2. CASE t[k] = NextRaw
      BY <1>1, <3>2
    <3> HIDE DEF t
    <3> QED BY <1>3, <3>1, <3>2
  <2> QED BY <2>2, <2>3
<1> HIDE DEF t
<1>6. ~OpenTableBefore(t[1].text)
  <2>1. CASE tableBuffer = <<>>
    <3>1. t[1].text = n /\ ~OpenTableBefore(n)
      BY <1>2, <1>4, <2>1 DEF FlagsInv
    <3> QED BY <3>1
  <2>2. CASE tableBuffer # <<>>
    BY <1>4, <2>2 DEF BufferWhole
  <2> QED BY <2>1, <2>2
<1>7. ASSUME NEW i \in DOMAIN raw, t[1].text <= i, i <= n
      PROVE  TopFence(raw[i]) \/ HasLine(t, i)
  <2>1. CASE i = n
    BY <1>3, <2>1
  <2>2. CASE i # n
    <3>1. i \in Nat /\ i <= read
      BY <1>2, <1>7, <2>2
    <3>2. tableBuffer # <<>>
      BY <1>2, <1>4, <1>7, <2>2, <3>1
    <3>3. i \in tableBuffer[1].text..read
      <4>1. 1 \in DOMAIN tableBuffer
        BY <1>2, <3>2
      <4>2. tableBuffer[1].text \in 1..read
        BY <4>1 DEF BufferInv
      <4> QED BY <1>2, <1>4, <1>7, <3>1, <3>2, <4>2
    <3>4. TopFence(raw[i]) \/ HasLine(tableBuffer, i)
      BY <3>2, <3>3 DEF BufferWhole
    <3> QED BY <1>3, <3>4
  <2> QED BY <2>1, <2>2
<1>8. Waiting(t, n)
  BY <1>3, <1>5, <1>6, <1>7 DEF Waiting
<1> QED BY <1>3, <1>8 DEF t

\* and the one that is left at the end waits for it.
LEMMA BufferWaits ==
  ASSUME CleanTypeOK, BufferInv, BufferWhole, read = Len(raw), tableBuffer # <<>>
  PROVE  Waiting(tableBuffer, Len(raw) + 1)
<1> DEFINE n == Len(raw) + 1
           t == tableBuffer
<1>1. /\ raw \in Seq(Line) /\ t \in Seq(Line) /\ Len(raw) \in Nat /\ DOMAIN raw = 1..Len(raw)
      /\ 1 \in DOMAIN t /\ read + 1 = n
      /\ \A k \in DOMAIN t : k = 1 \/ 1 < k
  <2>1. raw \in Seq(Line) /\ t \in Seq(Line)
    BY DEF CleanTypeOK
  <2> QED BY <2>1
<1>2. /\ \A k \in DOMAIN t : t[k].text \in 1..read /\ t[k] = raw[t[k].text]
      /\ Increasing(t) /\ OpenTable(t[1].text, n)
  BY <1>1 DEF BufferInv
<1>3. \A k \in DOMAIN t : t[k].text \in DOMAIN raw /\ t[k].text <= n
  <2> SUFFICES ASSUME NEW k \in DOMAIN t
               PROVE  t[k].text \in DOMAIN raw /\ t[k].text <= n
    OBVIOUS
  <2>1. t[k].text \in 1..Len(raw)
    BY <1>2
  <2> HIDE DEF t
  <2> QED BY <1>1, <2>1
<1>4. \A k \in DOMAIN t : t[1].text <= t[k].text
  <2> SUFFICES ASSUME NEW k \in DOMAIN t
               PROVE  t[1].text <= t[k].text
    OBVIOUS
  <2>1. t[1].text \in Nat /\ t[k].text \in Nat /\ t[k].text # 0
    <3>1. t[1].text \in 1..Len(raw) /\ t[k].text \in 1..Len(raw)
      BY <1>1, <1>2
    <3> HIDE DEF t
    <3> QED BY <3>1
  <2>2. k = 1 \/ t[1].text < t[k].text
    BY <1>1, <1>2, <2>1 DEF Increasing
  <2> HIDE DEF t
  <2> QED BY <2>1, <2>2
<1>5. \A k \in DOMAIN t : ~TopFence(t[k])
  BY DEF BufferWhole
<1>6. ~OpenTableBefore(t[1].text)
  BY DEF BufferWhole
<1>7. ASSUME NEW i \in DOMAIN raw, t[1].text <= i
      PROVE  TopFence(raw[i]) \/ HasLine(t, i)
  <2>1. i \in t[1].text..read
    <3>1. t[1].text \in 1..read
      BY <1>1, <1>2
    <3> HIDE DEF t
    <3> QED BY <1>1, <1>7, <3>1
  <2> QED BY <2>1 DEF BufferWhole
<1> HIDE DEF n
<1>8. Waiting(t, n)
  BY <1>2, <1>3, <1>4, <1>5, <1>6, <1>7 DEF Waiting
<1> QED BY <1>8 DEF n

\* Each branch of the loop keeps what is said of the places,
LEMMA PlacedStep ==
  ASSUME CleanTypeOK, skippingSwitchBranch => insideFence, FlagsInv, BufferInv, PlacedInv,
         ~cleaned, \A i \in DOMAIN raw : raw[i].text = i, ReadsLine
  PROVE  PlacedInv'
<1> DEFINE n == read + 1
<1>1. Reading /\ raw' = raw /\ read' = n /\ cleaned' = cleaned
  BY DEF ReadsLine, ReadFence, SkipLine, ReadTable, ReadFilename, ReadSwitch, ReadText,
         PastTables, PastSkipping, ReadOn
<1>2. /\ read \in Nat /\ raw \in Seq(Line) /\ output \in Seq(Line) /\ tableBuffer \in Seq(Line)
      /\ n \in DOMAIN raw /\ n - 1 = read /\ n > 0 /\ n \in Nat
      /\ NextRaw = raw[n] /\ NextRaw \in Line /\ raw[n].text = n
      /\ InFence(n) <=> (insideFence <=> ~TopFence(NextRaw))
  BY <1>1, FlagsNow DEF CleanTypeOK
<1>3. /\ Fences(read) \in Nat
      /\ Fences(n) = IF TopFence(NextRaw) THEN Fences(read) + 1 ELSE Fences(read)
      /\ InFence(n) <=> (InFence(read) <=> ~TopFence(NextRaw))
  BY <1>2, FencesGrow
<1>4. /\ \A i \in DOMAIN raw : Blank(raw[i]) => raw[i].depth = 0
      /\ Placed(output) /\ BufferWhole /\ TopFences(output, Len(output)) = Fences(read)
      /\ OutputBy(output, read)
      /\ read > 0 /\ ~InFence(read) /\ tableBuffer = <<>> =>
            /\ output # <<>>
            /\ output[Len(output)] = raw[read] \/ output[Len(output)].depth = 0
  BY DEF PlacedInv, ReadInv, Placed, OutputBy
<1>5. tableBuffer # <<>> <=> OpenTableBefore(n)
  BY DEF FlagsInv
<1>6. \A k \in DOMAIN output : output[k].text # 0 =>
         OutputAt(output[k].text) < n /\ OutputAt(output[k].text) <= n
  <2> SUFFICES ASSUME NEW k \in DOMAIN output, output[k].text # 0
               PROVE  OutputAt(output[k].text) < n /\ OutputAt(output[k].text) <= n
    OBVIOUS
  <2>1. output[k].text \in DOMAIN raw
    BY <1>4 DEF Placed, Verbatim
  <2>2. OutputAt(output[k].text) \in Int /\ OutputAt(output[k].text) <= read
    BY <1>2, <1>4, <2>1, OutputLater DEF OutputBy
  <2> QED BY <1>2, <2>2
<1> HIDE DEF n
<1>7. /\ Placed(output')
      /\ TopFences(output', Len(output')) = Fences(n)
      /\ OutputBy(output', n)
      /\ \A k \in DOMAIN tableBuffer' : ~TopFence(tableBuffer'[k]) /\ ~TableClose(tableBuffer'[k])
      /\ tableBuffer' # <<>> =>
            /\ ~OpenTableBefore(tableBuffer'[1].text)
            /\ \A i \in tableBuffer'[1].text..n : TopFence(raw[i]) \/ HasLine(tableBuffer', i)
      /\ ~InFence(n) /\ tableBuffer' = <<>> =>
            /\ output' # <<>>
            /\ output'[Len(output')] = raw[n] \/ output'[Len(output')].depth = 0
  <2>1. CASE ReadFence \/ ReadText
    <3> DEFINE c == Append(output, raw[n])
    <3>1. output' = c /\ tableBuffer' = tableBuffer
      BY <1>2, <2>1 DEF ReadFence, ReadText
    <3>2. ~Held(n)
      <4>1. CASE ReadFence
        BY <1>2, <4>1 DEF ReadFence, Held
      <4>2. CASE ReadText
        <5>1. /\ tableBuffer = <<>> /\ ~TopFence(NextRaw)
              /\ insideFence \/ ~OpensTable(NextRaw)
          BY <4>2 DEF ReadText, PastTables, PastSkipping
        <5> QED BY <1>2, <1>5, <5>1 DEF Held, AtOnce
      <4> QED BY <2>1, <4>1, <4>2
    <3>3. n > 1 /\ ~InFence(n) /\ ~TopFence(raw[n]) =>
             output # <<>> /\ (output[Len(output)] = raw[n - 1] \/ output[Len(output)].depth = 0)
      <4>1. ReadText => tableBuffer = <<>>
        BY DEF ReadText, PastTables
      <4>2. ReadFence => TopFence(raw[n])
        BY <1>2 DEF ReadFence
      <4>3. n > 1 => read > 0
        BY <1>2
      <4> QED BY <1>2, <1>3, <1>4, <2>1, <4>1, <4>2, <4>3
    <3>4. Placed(c) /\ OutputBy(c, n) /\ TopFences(c, Len(c)) = Fences(n)
      <4>1. OutputBy(output, n - 1) /\ TopFences(output, Len(output)) = Fences(n - 1)
        BY <1>2, <1>4
      <4> QED BY <1>2, <1>4, <3>2, <3>3, <4>1, LinePlaced
    <3>5. c # <<>> /\ c[Len(c)] = raw[n]
      <4>1. Len(c) = Len(output) + 1 /\ c[Len(output) + 1] = raw[n]
        BY <1>2
      <4>2. c # <<>>
        BY <1>2
      <4> HIDE DEF c
      <4> QED BY <4>1, <4>2
    <3>6. tableBuffer # <<>> =>
             \A i \in tableBuffer[1].text..n : TopFence(raw[i]) \/ HasLine(tableBuffer, i)
      <4> SUFFICES ASSUME tableBuffer # <<>>, NEW i \in tableBuffer[1].text..n
                   PROVE  TopFence(raw[i]) \/ HasLine(tableBuffer, i)
        OBVIOUS
      <4>1. TopFence(raw[n])
        BY <1>2, <2>1 DEF ReadFence, ReadText, PastTables
      <4>2. i = n \/ i \in tableBuffer[1].text..read
        BY <1>2 DEF n
      <4> QED BY <1>4, <4>1, <4>2 DEF BufferWhole
    <3> HIDE DEF c
    <3> QED BY <1>4, <3>1, <3>4, <3>5, <3>6 DEF BufferWhole
  <2>2. CASE SkipLine \/ ReadFilename \/ ReadSwitch
    <3>1. output' = output /\ tableBuffer' = tableBuffer /\ ~TopFence(NextRaw)
          /\ tableBuffer = <<>> /\ insideFence
      BY <2>2 DEF SkipLine, ReadFilename, ReadSwitch, PastTables, PastSkipping, FlagsInv
    <3>2. InFence(n) /\ Fences(n) = Fences(read)
      BY <1>2, <1>3, <3>1
    <3>3. OutputBy(output, n)
      BY <1>6 DEF OutputBy
    <3> QED BY <1>4, <3>1, <3>2, <3>3
  <2>3. CASE ReadTable
    <3> DEFINE t == Append(tableBuffer, NextRaw)
               c == output \o Convert(t)
    <3>1. /\ ~TopFence(NextRaw)
          /\ IF TableClose(NextRaw)
               THEN tableBuffer' = <<>> /\ output' = c
               ELSE tableBuffer' = t /\ output' = output
      BY <2>3 DEF ReadTable, PastSkipping, Accumulate
    <3>2. Fences(n) = Fences(read)
      BY <1>3, <3>1
    <3>3. /\ Waiting(t, n)
          /\ \A k \in DOMAIN t : \/ k \in DOMAIN tableBuffer /\ t[k] = tableBuffer[k]
                                 \/ t[k] = NextRaw
      BY <1>4, <2>3, GrownWaits DEF n
    <3>4. t \in Seq(Line) /\ t # <<>> /\ t[Len(t)] = NextRaw /\ Len(t) \in DOMAIN t
      BY <1>2
    <3> HIDE DEF t
    <3>5. CASE TableClose(NextRaw)
      <4>1. Together(Convert(t), n)
        BY <1>2, <3>3, <3>4, <3>5, ConvertedTogether
      <4>2. /\ Convert(t) \in Seq(Line) /\ Convert(t) # <<>>
            /\ (\A r \in DOMAIN t : ~TableRow(t[r])) => Convert(t) = t
            /\ (\E r \in DOMAIN t : TableRow(t[r])) => \A m \in DOMAIN Convert(t) :
                  \/ Convert(t)[m] = Separator
                  \/ \E k \in DOMAIN t : \/ Convert(t)[m] = AsRow(t[k])
                                         \/ Convert(t)[m] = AsItem(t[k])
        BY <3>4, ConvertElements
      <4>3. /\ Placed(c) /\ OutputBy(c, n)
            /\ TopFences(c, Len(c)) = TopFences(output, Len(output))
        BY <1>2, <1>4, <1>6, <3>2, <4>1, <4>2, TogetherOutput
      <4>4. LET v == Convert(t)
            IN  v[Len(v)] = NextRaw \/ v[Len(v)].depth = 0
        <5> DEFINE v == Convert(t)
        <5>1. Len(v) \in DOMAIN v
          <6> HIDE DEF v
          <6> QED BY <4>2 DEF v
        <5>2. CASE \A r \in DOMAIN t : ~TableRow(t[r])
          BY <3>4, <4>2, <5>2
        <5>3. CASE \E r \in DOMAIN t : TableRow(t[r])
          <6> DEFINE last == v[Len(v)]
          <6>1. \/ last = Separator
                \/ \E k \in DOMAIN t : last = AsRow(t[k]) \/ last = AsItem(t[k])
            BY <4>2, <5>1, <5>3
          <6> HIDE DEF last
          <6>2. Separator.depth = 0 /\ \A l : AsRow(l).depth = 0 /\ AsItem(l).depth = 0
            BY DEF Separator, AsRow, AsItem
          <6>3. last.depth = 0
            BY <6>1, <6>2
          <6> QED BY <6>3 DEF last
        <5> QED BY <5>2, <5>3
      <4>5. c # <<>> /\ c[Len(c)] = Convert(t)[Len(Convert(t))]
        <5> DEFINE v == Convert(t)
        <5>1. v \in Seq(Line) /\ v # <<>>
          BY <4>2
        <5> HIDE DEF v
        <5>2. Len(v) \in DOMAIN v /\ Len(output) \in Nat /\ Len(v) \in Nat
          BY <1>2, <5>1
        <5>3. /\ Len(v) + Len(output) \in DOMAIN (output \o v)
              /\ (output \o v)[Len(v) + Len(output)] = v[Len(v)]
          BY <1>2, <5>1, <5>2, ConcatElements
        <5>4. Len(output \o v) = Len(v) + Len(output)
          BY <1>2, <5>1
        <5> QED BY <5>3, <5>4 DEF v
      <4>6. tableBuffer' = <<>> /\ output' = c
        BY <3>1, <3>5
      <4> HIDE DEF c
      <4>7. output' # <<>> /\ (output'[Len(output')] = raw[n] \/ output'[Len(output')].depth = 0)
        BY <1>2, <4>4, <4>5, <4>6
      <4>8. TopFences(output', Len(output')) = Fences(n)
        BY <1>4, <3>2, <4>3, <4>6
      <4> QED BY <4>3, <4>6, <4>7, <4>8
    <3>6. CASE ~TableClose(NextRaw)
      <4>1. tableBuffer' = t /\ output' = output
        BY <3>1, <3>6
      <4>2. \A k \in DOMAIN t : ~TopFence(t[k]) /\ ~TableClose(t[k])
        BY <1>4, <3>1, <3>3, <3>6 DEF BufferWhole
      <4>3. /\ ~OpenTableBefore(t[1].text)
            /\ \A i \in t[1].text..n : TopFence(raw[i]) \/ HasLine(t, i)
        <5>1. ~OpenTableBefore(t[1].text) /\ t[1].text \in DOMAIN raw
          <6>1. 1 \in DOMAIN t
            BY <3>4
          <6> QED BY <3>3, <6>1 DEF Waiting
        <5>2. \A i \in t[1].text..n : i \in DOMAIN raw /\ t[1].text <= i /\ i <= n
          BY <1>2, <5>1
        <5> QED BY <3>3, <5>1, <5>2 DEF Waiting
      <4>4. OutputBy(output, n)
        BY <1>6 DEF OutputBy
      <4> QED BY <1>4, <3>2, <3>4, <4>1, <4>2, <4>3, <4>4
    <3> QED BY <3>5, <3>6
  <2> QED BY <2>1, <2>2, <2>3 DEF ReadsLine
<1>8. TopFences(output, Len(output))' = Fences(read)'
  BY <1>1, <1>7 DEF TopFences, Fences
<1>9. BufferWhole'
  BY <1>1, <1>7, SamePlaced DEF BufferWhole, HasLine
<1>10. (\A k \in DOMAIN output : output[k].text # 0 => OutputAt(output[k].text) <= read)'
  BY <1>1, <1>7, SamePlaced DEF OutputBy
<1>11. read' > 0 /\ ~InFence(read)' /\ tableBuffer' = <<>> =>
          /\ output' # <<>>
          /\ output'[Len(output')] = raw'[read'] \/ output'[Len(output')].depth = 0
  BY <1>1, <1>7, SamePlaced
<1>12. Placed(output)'
  BY <1>1, <1>7, SamePlaced
<1>13. ReadInv'
  BY <1>8, <1>9, <1>10, <1>11 DEF ReadInv
<1> QED BY <1>1, <1>4, <1>12, <1>13 DEF PlacedInv, Placed

\* and so does the end.
LEMMA PlacedEnd ==
  ASSUME CleanTypeOK, BufferInv, PlacedInv, EndOfRaw
  PROVE  PlacedInv'
<1> DEFINE n == Len(raw) + 1
<1>1. /\ raw' = raw /\ raw \in Seq(Line) /\ output \in Seq(Line) /\ tableBuffer \in Seq(Line)
      /\ read = Len(raw) /\ read \in Nat /\ cleaned' = TRUE /\ ~cleaned
      /\ output' = Collapsed(output \o tableBuffer)
  BY DEF EndOfRaw, CleanTypeOK, Remainder
<1>2. n \in Nat /\ n \notin DOMAIN raw /\ read < n
  BY <1>1
<1>3. /\ \A i \in DOMAIN raw : Blank(raw[i]) => raw[i].depth = 0
      /\ Placed(output) /\ BufferWhole /\ OutputBy(output, read)
  BY <1>1 DEF PlacedInv, ReadInv, Placed, OutputBy
<1>4. \A k \in DOMAIN output : output[k].text # 0 => OutputAt(output[k].text) < n
  <2> SUFFICES ASSUME NEW k \in DOMAIN output, output[k].text # 0
               PROVE  OutputAt(output[k].text) < n
    OBVIOUS
  <2>1. output[k].text \in DOMAIN raw
    BY <1>3 DEF Placed, Verbatim
  <2>2. OutputAt(output[k].text) \in Int /\ OutputAt(output[k].text) <= read
    BY <1>1, <1>3, <2>1, OutputLater DEF OutputBy
  <2> QED BY <1>1, <1>2, <2>2
<1>5. Together(tableBuffer, n)
  <2>1. CASE tableBuffer = <<>>
    BY <2>1 DEF Together
  <2>2. CASE tableBuffer # <<>>
    BY <1>1, <1>3, <2>2, BufferWaits, UnclosedTogether
  <2> QED BY <2>1, <2>2
<1> HIDE DEF n
<1>6. Placed(output \o tableBuffer)
  BY <1>1, <1>2, <1>3, <1>4, <1>5, TogetherOutput
<1>7. output \o tableBuffer \in Seq(Line)
  BY <1>1
<1>8. Placed(output')
  BY <1>1, <1>3, <1>6, <1>7, CollapsedPlaced
<1>9. Placed(output)'
  BY <1>1, <1>8, SamePlaced
<1> QED BY <1>1, <1>3, <1>9 DEF PlacedInv, Placed

\* It holds before the first line, and whatever the step.
LEMMA PlacedInit ==
  ASSUME Init
  PROVE  PlacedInv
<1>1. /\ read = 0 /\ tableBuffer = <<>> /\ output = <<>> /\ cleaned = FALSE
      /\ \A i \in DOMAIN raw : Blank(raw[i]) => raw[i].depth = 0
  BY DocumentAssumption DEF Init, CleanInit
<1>2. TopFences(output, 0) = 0 /\ TopFences(raw, 0) = 0
  <2>1. 1 \in Nat /\ 1 > 0
    OBVIOUS
  <2> QED BY <2>1, TopFencesGrow
<1>3. Len(output) = 0 /\ Fences(0) = 0 /\ DOMAIN output = {}
  BY <1>1, <1>2, FencesOfRaw
<1> QED BY <1>1, <1>2, <1>3 DEF PlacedInv, ReadInv, BufferWhole, Verbatim, Sorted, FencesKept,
                                TablesKept, QuotesKept

LEMMA PlacedNextStep ==
  ASSUME CleanTypeOK, skippingSwitchBranch => insideFence, CleanerInv, PlacedInv, [Next]_vars
  PROVE  PlacedInv'
<1>1. CASE CleanNext
  <2>1. ~cleaned
    BY <1>1 DEF CleanNext, ReadFence, SkipLine, ReadTable, ReadFilename, ReadSwitch,
                ReadText, PastTables, PastSkipping, Reading, EndOfRaw
  <2>2. FlagsInv /\ BufferInv /\ \A i \in DOMAIN raw : raw[i].text = i
    BY <2>1 DEF CleanerInv
  <2>3. CASE ReadsLine
    BY <2>1, <2>2, <2>3, PlacedStep
  <2>4. CASE EndOfRaw
    BY <2>2, <2>4, PlacedEnd
  <2> QED BY <1>1, <2>3, <2>4 DEF CleanNext, ReadsLine
<1>2. CASE UNCHANGED cleanVars
  <2>1. raw' = raw /\ read' = read /\ tableBuffer' = tableBuffer /\ output' = output
        /\ cleaned' = cleaned
    BY <1>2 DEF cleanVars
  <2>2. TopFences(output, Len(output))' = TopFences(output, Len(output)) /\ Fences(read)' = Fences(read)
    BY <2>1 DEF TopFences, Fences
  <2>3. Placed(output)' <=> Placed(output)
    BY <2>1, SamePlaced
  <2>4. BufferWhole' <=> BufferWhole
    BY <2>1, SamePlaced DEF BufferWhole, HasLine
  <2>5. ReadInv' <=> ReadInv
    BY <2>1, <2>2, <2>4, SamePlaced DEF ReadInv
  <2> QED BY <2>1, <2>3, <2>5 DEF PlacedInv, Placed
<1> QED BY <1>1, <1>2 DEF Next, Clean, StartChunking, Chunk, ParseFails, vars

-------------------------------------------------------------------------------
(***************************************************************************)
(* From the page to the content: where the lines of a region stand.        *)
(***************************************************************************)
\* What is known of the content that cleaning returned.
Returned ==
  /\ raw \in Seq(Line) /\ content \in Seq(Line)
  /\ Placed(content)
  /\ \A i \in DOMAIN raw : MayGo(i) \/ HasLine(content, i)
  /\ \A i \in DOMAIN raw : Blank(raw[i]) => raw[i].depth = 0

LEMMA ReturnedContent ==
  ASSUME TypeOK, CleanerInv, PlacedInv, stage # "waiting"
  PROVE  Returned
<1>1. cleaned /\ content = output /\ raw \in Seq(Line) /\ content \in Seq(Line)
  BY DEF TypeOK, CleanTypeOK, ChunkTypeOK
<1>2. \A i \in DOMAIN raw : MayGo(i) \/ HasLine(content, i)
  BY <1>1 DEF CleanerInv, ContentKept
<1>3. /\ Placed(content)
      /\ \A i \in DOMAIN raw : Blank(raw[i]) => raw[i].depth = 0
  BY <1>1 DEF PlacedInv, Placed
<1> QED BY <1>1, <1>2, <1>3 DEF Returned

\* The lines of the content, and their order.
LEMMA ReturnedLines ==
  ASSUME Returned
  PROVE  /\ Position = DOMAIN content /\ Position = 1..Len(content) /\ Len(content) \in Nat
         /\ \A k \in Position : k \in Nat /\ k >= 1
         /\ DOMAIN raw = 1..Len(raw) /\ Len(raw) \in Nat
         /\ \A i \in DOMAIN raw : i \in Nat /\ i >= 1 /\ OutputAt(i) \in Nat /\ i <= OutputAt(i)
         /\ \A k \in Position : content[k].text # 0 => content[k].text \in DOMAIN raw
         /\ \A j, k \in Position : j < k /\ content[j].text # 0 /\ content[k].text # 0 =>
               /\ OutputAt(content[j].text) <= OutputAt(content[k].text)
               /\ /\ OutputAt(content[j].text) = OutputAt(content[k].text)
                  /\ content[j] = raw[content[j].text] /\ content[k] = raw[content[k].text]
                  => content[j].text < content[k].text
<1>1. /\ Position = DOMAIN content /\ Position = 1..Len(content) /\ Len(content) \in Nat
      /\ \A k \in Position : k \in Nat /\ k >= 1
      /\ DOMAIN raw = 1..Len(raw) /\ Len(raw) \in Nat
  BY DEF Returned, Position
<1>2. ASSUME NEW i \in DOMAIN raw
      PROVE  i \in Nat /\ i >= 1 /\ OutputAt(i) \in Nat /\ i <= OutputAt(i)
  <2>1. OutputAt(i) \in i..(Len(raw) + 1)
    BY OutputLater DEF Returned
  <2> QED BY <1>1, <2>1
<1>3. \A k \in Position : content[k].text # 0 => content[k].text \in DOMAIN raw
  BY <1>1 DEF Returned, Placed, Verbatim
<1>4. ASSUME NEW j \in Position, NEW k \in Position, j < k,
             content[j].text # 0, content[k].text # 0
      PROVE  /\ OutputAt(content[j].text) <= OutputAt(content[k].text)
             /\ /\ OutputAt(content[j].text) = OutputAt(content[k].text)
                /\ content[j] = raw[content[j].text] /\ content[k] = raw[content[k].text]
                => content[j].text < content[k].text
  <2>1. OutputAt(content[j].text) \in Nat /\ OutputAt(content[k].text) \in Nat
    BY <1>2, <1>3, <1>4
  <2>2. \/ OutputAt(content[j].text) < OutputAt(content[k].text)
        \/ /\ OutputAt(content[j].text) = OutputAt(content[k].text)
           /\ content[j] = raw[content[j].text] /\ content[k] = raw[content[k].text]
              => content[j].text < content[k].text
    BY <1>1, <1>4 DEF Returned, Placed, Sorted
  <2> QED BY <2>1, <2>2
<1> QED BY <1>1, <1>2, <1>3, <1>4

\* Only rows and separators are not as in the page.
LEMMA NotConverted ==
  ASSUME Returned, NEW k \in Position
  PROVE  /\ content[k].text = 0 => content[k] = Separator
         /\ content[k].kind \notin {"text", "row"} =>
               /\ content[k].text # 0 /\ content[k].text \in DOMAIN raw
               /\ content[k] = raw[content[k].text]
         /\ content[k].text # 0 =>
               /\ ~TableRow(raw[content[k].text]) => content[k] = raw[content[k].text]
               /\ ~OpenTableBefore(content[k].text) => content[k] = raw[content[k].text]
<1>1. k \in DOMAIN content
  BY ReturnedLines
<1>2. /\ Separator.kind \in {"text", "row"}
      /\ \A l : AsRow(l).kind \in {"text", "row"} /\ AsItem(l).kind \in {"text", "row"}
  BY DEF Separator, AsRow, AsItem
<1> QED BY <1>1, <1>2 DEF Returned, Placed, Verbatim

\* A line that is held back has a table open at it,
LEMMA HeldOpener ==
  ASSUME raw \in Seq(Line), NEW i \in DOMAIN raw, Held(i)
  PROVE  \E p \in 1..i : /\ OpensTable(raw[p]) /\ ~InFence(p)
                         /\ \A m \in p..(i - 1) : ~TableClose(raw[m])
<1>1. i \in Nat /\ i >= 1
  OBVIOUS
<1>2. CASE OpenTableBefore(i)
  <2>1. PICK p \in 1..(i - 1) : OpenTable(p, i)
    BY <1>2 DEF OpenTableBefore
  <2>2. p \in 1..i
    BY <1>1
  <2> QED BY <2>1, <2>2 DEF OpenTable
<1>3. CASE ~OpenTableBefore(i)
  <2>1. OpensTable(raw[i]) /\ ~InFence(i)
    BY <1>3 DEF Held, AtOnce
  <2>2. i \in 1..i /\ i..(i - 1) = {}
    BY <1>1
  <2> QED BY <2>1, <2>2
<1> QED BY <1>2, <1>3

\* and is output before the next line at which none is.
LEMMA ClosedBefore ==
  ASSUME raw \in Seq(Line), NEW a \in DOMAIN raw, ~OpenTableBefore(a),
         NEW i \in DOMAIN raw, Held(i), i < a
  PROVE  Closing(i) < a /\ Closing(i) \in DOMAIN raw
<1>1. /\ Closing(i) \in i..(Len(raw) + 1)
      /\ \A k \in i..(Closing(i) - 1) : ~TableClose(raw[k])
  BY ClosingIs
<1>2. i \in Nat /\ a \in Nat /\ i >= 1 /\ a <= Len(raw) /\ Len(raw) \in Nat
  OBVIOUS
<1>3. PICK p \in 1..i : /\ OpensTable(raw[p]) /\ ~InFence(p)
                        /\ \A m \in p..(i - 1) : ~TableClose(raw[m])
  BY HeldOpener
<1>4. ~(a <= Closing(i))
  <2>1. SUFFICES ASSUME a <= Closing(i)
                 PROVE  FALSE
    OBVIOUS
  <2>2. p \in 1..(a - 1) /\ \A m \in p..(a - 1) : m \in p..(i - 1) \/ m \in i..(Closing(i) - 1)
    BY <1>1, <1>2, <2>1
  <2>3. OpenTable(p, a)
    BY <1>1, <1>3, <2>2 DEF OpenTable
  <2> QED BY <2>2, <2>3 DEF OpenTableBefore
<1> QED BY <1>1, <1>2, <1>4

\* Between two lines of a region in which none is held back there are only its own.
LEMMA AtOnceBetween ==
  ASSUME Returned, NEW a \in DOMAIN raw, NEW b \in DOMAIN raw, ~OpenTableBefore(a),
         \A m \in a..b : AtOnce(m),
         NEW i \in Position, NEW j \in Position,
         content[i].text \in a..b, content[j].text \in a..b,
         NEW k \in i..j
  PROVE  /\ k \in Position /\ content[k].text \in a..b
         /\ content[k] = raw[content[k].text]
         /\ TopFences(content, k) = Fences(content[k].text)
<1>1. /\ \A m \in Position : m \in Nat /\ m >= 1
      /\ \A m \in DOMAIN raw : m \in Nat /\ m >= 1 /\ OutputAt(m) \in Nat /\ m <= OutputAt(m)
      /\ \A m \in Position : content[m].text # 0 => content[m].text \in DOMAIN raw
      /\ Position = 1..Len(content) /\ Len(content) \in Nat /\ Position = DOMAIN content
      /\ DOMAIN raw = 1..Len(raw) /\ Len(raw) \in Nat
  BY ReturnedLines
<1>2. \A m \in a..b : m \in DOMAIN raw /\ m # 0 /\ ~Held(m) /\ OutputAt(m) = m /\ ~OpenTableBefore(m)
  BY <1>1 DEF Held, OutputAt, AtOnce
<1>3. ASSUME NEW m \in Position, i <= m, m <= j, content[m].text # 0
      PROVE  content[m].text \in a..b
  <2> DEFINE t == content[m].text
  <2>1. t \in DOMAIN raw /\ t \in Nat /\ OutputAt(t) \in Nat /\ t <= OutputAt(t)
    BY <1>1, <1>3
  <2>2. a <= OutputAt(t)
    <3>1. CASE i = m
      BY <1>1, <1>2, <3>1
    <3>2. CASE i < m
      <4>1. OutputAt(content[i].text) <= OutputAt(t) /\ OutputAt(content[i].text) = content[i].text
        BY <1>2, <1>3, <3>2, ReturnedLines
      <4> HIDE DEF t
      <4> QED BY <1>1, <2>1, <4>1
    <3> QED BY <1>1, <1>3, <3>1, <3>2
  <2>3. OutputAt(t) <= b
    <3>1. CASE j = m
      BY <1>1, <1>2, <3>1
    <3>2. CASE m < j
      <4>1. OutputAt(t) <= OutputAt(content[j].text) /\ OutputAt(content[j].text) = content[j].text
        BY <1>2, <1>3, <3>2, ReturnedLines
      <4> HIDE DEF t
      <4> QED BY <1>1, <2>1, <4>1
    <3> QED BY <1>1, <1>3, <3>1, <3>2
  <2> HIDE DEF t
  <2>4. CASE Held(t)
    <3>1. OutputAt(t) = Closing(t)
      BY <2>4 DEF OutputAt
    <3>2. ~(a <= t)
      BY <1>1, <1>2, <2>1, <2>3, <2>4
    <3>3. t < a
      BY <1>1, <2>1, <3>2
    <3>4. Closing(t) < a
      BY <2>1, <2>4, <3>3, ClosedBefore DEF Returned
    <3> QED BY <1>1, <2>1, <2>2, <3>1, <3>4
  <2>5. CASE ~Held(t)
    <3>1. OutputAt(t) = t
      BY <2>5 DEF OutputAt
    <3>2. t \in a..b
      BY <1>1, <2>1, <2>2, <2>3, <3>1
    <3> QED BY <3>2 DEF t
  <2> QED BY <2>4, <2>5
<1>4. k \in Position /\ i <= k /\ k <= j
  BY <1>1
<1>5. content[k].text # 0
  <2>1. SUFFICES ASSUME content[k].text = 0
                 PROVE  FALSE
    OBVIOUS
  <2>2. k > 1 /\ content[k - 1].text # 0 /\ Held(content[k - 1].text)
    BY <1>1, <1>4, <2>1 DEF Returned, Placed, TablesKept
  <2>3. i # k
    BY <1>2, <2>1
  <2>4. k - 1 \in Position /\ i <= k - 1 /\ k - 1 <= j
    BY <1>1, <1>4, <2>2, <2>3
  <2>5. content[k - 1].text \in a..b
    BY <1>3, <2>2, <2>4
  <2> QED BY <1>2, <2>2, <2>5
<1>6. content[k].text \in a..b
  BY <1>3, <1>4, <1>5
<1>7. content[k] = raw[content[k].text]
  BY <1>2, <1>4, <1>5, <1>6, NotConverted
<1>8. TopFences(content, k) = Fences(content[k].text)
  BY <1>1, <1>2, <1>4, <1>5, <1>6 DEF Returned, Placed, FencesKept
<1> QED BY <1>4, <1>6, <1>7, <1>8

\* A table that is closed: its lines, and no others, are output with its end tag.
LEMMA TableHeld ==
  ASSUME raw \in Seq(Line), NEW a \in DOMAIN raw, NEW b \in DOMAIN raw, a <= b, TableAt(a, b),
         ~OpenTableBefore(a), \A m \in a..b : ~TopFence(raw[m])
  PROVE  /\ \A m \in a..b : /\ m \in DOMAIN raw /\ m # 0
                            /\ Held(m) /\ Closing(m) = b /\ OutputAt(m) = b
         /\ \A m \in DOMAIN raw : Held(m) /\ Closing(m) = b => m \in a..b
         /\ ~InFence(b)
<1>1. /\ DOMAIN raw = 1..Len(raw) /\ Len(raw) \in Nat /\ a \in Nat /\ b \in Nat /\ a >= 1
      /\ b <= Len(raw)
  OBVIOUS
<1>2. /\ OpensTable(raw[a]) /\ ~InFence(a) /\ TableClose(raw[b])
      /\ \A k \in a..(b - 1) : ~TableClose(raw[k])
  BY DEF TableAt
<1>3. ASSUME NEW m \in a..b
      PROVE  m \in DOMAIN raw /\ m # 0 /\ Held(m) /\ Closing(m) = b /\ OutputAt(m) = b
  <2>1. m \in DOMAIN raw /\ m \in Nat /\ m # 0 /\ a <= m /\ m <= b
    BY <1>1
  <2>2. ~AtOnce(m)
    <3>1. CASE m = a
      BY <1>2, <3>1 DEF AtOnce
    <3>2. CASE m # a
      <4>1. a \in 1..(m - 1) /\ \A k \in a..(m - 1) : k \in a..(b - 1)
        BY <1>1, <2>1, <3>2
      <4>2. OpenTable(a, m)
        BY <1>2, <4>1 DEF OpenTable
      <4> QED BY <4>1, <4>2 DEF OpenTableBefore, AtOnce
    <3> QED BY <3>1, <3>2
  <2>3. Held(m)
    BY <2>2 DEF Held
  <2>4. b \in m..(Len(raw) + 1) /\ \A k \in m..(b - 1) : k \in a..(b - 1)
    BY <1>1, <2>1
  <2>5. Closing(m) = b
    BY <1>2, <2>1, <2>4, ClosingAt
  <2> QED BY <2>1, <2>3, <2>5 DEF OutputAt
<1>4. ASSUME NEW m \in DOMAIN raw, Held(m), Closing(m) = b
      PROVE  m \in a..b
  <2>1. m <= b /\ m \in Nat
    BY <1>1, <1>4, ClosingIs
  <2>2. ~(m < a)
    BY <1>1, <1>4, ClosedBefore
  <2> QED BY <1>1, <2>1, <2>2
<1>5. ~InFence(b)
  <2>1. \A k \in (a + 1)..b : ~TopFence(raw[k])
    BY <1>1
  <2>2. Fences(b) = Fences(a)
    BY <1>1, <2>1, NoMoreFences, FencesOfRaw
  <2> QED BY <1>2, <2>2 DEF InFence
<1> QED BY <1>3, <1>4, <1>5

\* Between two of them there are only such lines, and separators; none is in a fence.
LEMMA TableBetween ==
  ASSUME Returned, NEW a \in DOMAIN raw, NEW b \in DOMAIN raw, a <= b, TableAt(a, b),
         ~OpenTableBefore(a), \A m \in a..b : ~TopFence(raw[m]),
         NEW i \in Position, NEW j \in Position,
         content[i].text \in a..b, content[j].text \in a..b,
         NEW k \in i..j
  PROVE  /\ k \in Position /\ ~Fenced(k)
         /\ content[k].text # 0 => content[k].text \in a..b
         /\ content[k].text = 0 => /\ content[k] = Separator
                                   /\ \E m \in a..b : TableRow(raw[m])
<1>1. /\ \A m \in Position : m \in Nat /\ m >= 1
      /\ \A m \in DOMAIN raw : m \in Nat /\ m >= 1 /\ OutputAt(m) \in Nat /\ m <= OutputAt(m)
      /\ \A m \in Position : content[m].text # 0 => content[m].text \in DOMAIN raw
      /\ Position = 1..Len(content) /\ Len(content) \in Nat /\ Position = DOMAIN content
      /\ DOMAIN raw = 1..Len(raw) /\ Len(raw) \in Nat
  BY ReturnedLines
<1>2. /\ \A m \in a..b : m \in DOMAIN raw /\ m # 0 /\ Held(m) /\ Closing(m) = b /\ OutputAt(m) = b
      /\ \A m \in DOMAIN raw : Held(m) /\ Closing(m) = b => m \in a..b
      /\ ~InFence(b)
  BY TableHeld DEF Returned
<1>3. ASSUME NEW m \in Position, i <= m, m <= j, content[m].text # 0
      PROVE  content[m].text \in a..b /\ OutputAt(content[m].text) = b
  <2> DEFINE t == content[m].text
  <2>1. t \in DOMAIN raw /\ t \in Nat /\ OutputAt(t) \in Nat /\ t <= OutputAt(t)
    BY <1>1, <1>3
  <2>2. b <= OutputAt(t)
    <3>1. CASE i = m
      BY <1>1, <1>2, <3>1
    <3>2. CASE i < m
      BY <1>2, <1>3, <3>2, ReturnedLines
    <3> QED BY <1>1, <1>3, <3>1, <3>2
  <2>3. OutputAt(t) <= b
    <3>1. CASE j = m
      BY <1>1, <1>2, <3>1
    <3>2. CASE m < j
      BY <1>2, <1>3, <3>2, ReturnedLines
    <3> QED BY <1>1, <1>3, <3>1, <3>2
  <2> HIDE DEF t
  <2>4. OutputAt(t) = b
    BY <1>1, <2>1, <2>2, <2>3
  <2>5. t \in a..b
    <3>1. CASE Held(t)
      BY <1>2, <2>1, <2>4, <3>1 DEF OutputAt
    <3>2. CASE ~Held(t)
      <4>1. t = b
        BY <2>4, <3>2 DEF OutputAt
      <4> QED BY <1>1, <4>1
    <3> QED BY <3>1, <3>2
  <2> QED BY <2>4, <2>5 DEF t
<1>4. k \in Position /\ i <= k /\ k <= j
  BY <1>1
<1>5. ASSUME NEW m \in Position, i <= m, m <= j, content[m].text # 0
      PROVE  ~Fenced(m)
  <2>1. TopFences(content, m) = Fences(b)
    BY <1>1, <1>3, <1>5 DEF Returned, Placed, FencesKept
  <2> QED BY <1>2, <2>1 DEF Fenced, InFence
<1>6. CASE content[k].text # 0
  BY <1>3, <1>4, <1>5, <1>6
<1>7. CASE content[k].text = 0
  <2>1. /\ k > 1 /\ content[k - 1].text # 0 /\ TableRow(raw[content[k - 1].text])
        /\ content[k] = Separator
    BY <1>1, <1>4, <1>7 DEF Returned, Placed, TablesKept, Verbatim
  <2>2. i # k
    BY <1>2, <1>7
  <2>3. k - 1 \in Position /\ i <= k - 1 /\ k - 1 <= j
    BY <1>1, <1>4, <2>1, <2>2
  <2>4. content[k - 1].text \in a..b /\ ~Fenced(k - 1)
    BY <1>3, <1>5, <2>1, <2>3
  <2>5. ~TopFence(content[k])
    BY <2>1 DEF TopFence, Separator
  <2>6. ~Fenced(k)
    BY <1>1, <1>4, <2>4, <2>5, FencedNext
  <2> QED BY <1>4, <1>7, <2>1, <2>4, <2>6
<1> QED BY <1>6, <1>7

\* A tag that stands before a region has found its end tag before it, if no table is open
\* there, and none that is one for the chunker only.
LEMMA TagsClosed ==
  ASSUME Returned, NEW a \in DOMAIN raw, ~OpenTableBefore(a), ~MistakenTableBefore(a),
         NEW i \in Position, content[i].text # 0, a <= OutputAt(content[i].text),
         NEW q \in Position, q < i, TableOpen(content[q]), ~Fenced(q), content[q].text < a
  PROVE  \E k \in q..(i - 1) : TableClose(content[k])
<1> DEFINE m == content[q].text
<1>1. /\ \A k \in Position : k \in Nat /\ k >= 1
      /\ \A k \in DOMAIN raw : k \in Nat /\ k >= 1 /\ OutputAt(k) \in Nat /\ k <= OutputAt(k)
      /\ \A k \in Position : content[k].text # 0 => content[k].text \in DOMAIN raw
      /\ Position = 1..Len(content) /\ Len(content) \in Nat /\ Position = DOMAIN content
      /\ DOMAIN raw = 1..Len(raw) /\ Len(raw) \in Nat
  BY ReturnedLines
<1>2. m # 0 /\ m \in DOMAIN raw /\ content[q] = raw[m]
  <2>1. content[q].kind \notin {"text", "row"}
    BY DEF TableOpen
  <2> QED BY <2>1, NotConverted
<1>3. \A k \in Position : TableClose(content[k]) =>
         /\ content[k].text # 0 /\ content[k].text \in DOMAIN raw
         /\ content[k] = raw[content[k].text]
  <2>1. \A k \in Position : TableClose(content[k]) => content[k].kind \notin {"text", "row"}
    BY DEF TableClose
  <2> QED BY <2>1, NotConverted
\* An end tag behind the tag, and before the region, stands there in the content too.
<1>4. ASSUME NEW k \in Position, TableClose(content[k]), m <= content[k].text,
             content[k].text < a, OutputAt(m) <= content[k].text
      PROVE  k \in q..(i - 1)
  <2> DEFINE t == content[k].text
  <2>1. t # 0 /\ t \in DOMAIN raw /\ content[k] = raw[t] /\ t \in Nat
    BY <1>1, <1>3, <1>4
  <2>2. OutputAt(t) = t
    <3>1. t \in t..(Len(raw) + 1) /\ t..(t - 1) = {} /\ TableClose(raw[t])
      BY <1>1, <1>4, <2>1
    <3>2. Closing(t) = t
      BY <2>1, <3>1, ClosingAt DEF Returned
    <3> QED BY <3>2 DEF OutputAt
  <2>3. ~(k < q)
    <3>1. SUFFICES ASSUME k < q
                   PROVE  FALSE
      OBVIOUS
    <3>2. OutputAt(t) <= OutputAt(m) /\ (OutputAt(t) = OutputAt(m) => t < m)
      BY <1>2, <2>1, <3>1, ReturnedLines
    <3>3. m \in Nat /\ OutputAt(m) \in Nat /\ m <= t /\ OutputAt(m) <= t
      BY <1>1, <1>2, <1>4
    <3> HIDE DEF t, m
    <3> QED BY <2>1, <2>2, <3>2, <3>3
  <2>4. ~(i < k)
    <3>1. SUFFICES ASSUME i < k
                   PROVE  FALSE
      OBVIOUS
    <3>2. OutputAt(content[i].text) <= OutputAt(t)
      BY <2>1, <3>1, ReturnedLines
    <3>3. OutputAt(content[i].text) \in Nat /\ a \in Nat /\ t < a
      BY <1>1, <1>4
    <3> HIDE DEF t
    <3> QED BY <2>1, <2>2, <3>2, <3>3
  <2>5. i # k
    BY <1>1, <1>4, <2>2
  <2> QED BY <1>1, <2>3, <2>4, <2>5
<1>5. CASE Held(m)
  <2> DEFINE c == Closing(m)
  <2>1. /\ c < a /\ c \in DOMAIN raw /\ OutputAt(m) = c /\ c \in Nat /\ m <= c
        /\ TableClose(raw[c])
    <3>1. c < a /\ c \in DOMAIN raw
      BY <1>2, <1>5, ClosedBefore DEF Returned
    <3>2. c <= Len(raw) /\ c \in Nat
      BY <1>1, <3>1
    <3>3. TableClose(raw[c]) /\ c \in m..(Len(raw) + 1)
      BY <1>2, <3>2, ClosingIs DEF Returned
    <3>4. m <= c
      BY <1>1, <1>2, <3>3
    <3> QED BY <1>5, <3>1, <3>2, <3>3, <3>4 DEF OutputAt
  <2>2. HasLine(content, c)
    BY <1>1, <1>2, <1>5, <2>1 DEF Returned, Placed, TablesKept
  <2> HIDE DEF c, m
  <2>3. PICK k \in Position : content[k].text = c
    BY <1>1, <2>2 DEF HasLine
  <2>4. content[k] = raw[c]
    <3>1. ~TableRow(raw[c]) /\ c # 0
      BY <1>1, <2>1 DEF TableClose, TableRow
    <3> QED BY <2>3, <3>1, NotConverted
  <2>5. c <= c
    BY <2>1
  <2>6. k \in q..(i - 1)
    BY <1>4, <2>1, <2>3, <2>4, <2>5
  <2> QED BY <2>1, <2>4, <2>6
<1>6. CASE ~Held(m)
  <2>1. ~TopFence(raw[m])
    BY <1>2 DEF TopFence, TableOpen
  <2>2. AtOnce(m) /\ OutputAt(m) = m
    BY <1>6, <2>1 DEF Held, OutputAt
  <2>3. TopFences(content, q) = Fences(m)
    BY <1>1, <1>2, <2>2 DEF Returned, Placed, FencesKept
  <2>4. ~InFence(m)
    BY <2>3 DEF Fenced, InFence
  <2>5. raw[m].kind = "mention"
    BY <1>2, <2>2, <2>4 DEF AtOnce, OpensTable, TableOpen
  <2>6. m \in 1..(a - 1) /\ HasLine(content, m)
    BY <1>1, <1>2 DEF HasLine
  <2> HIDE DEF m
  <2>7. PICK k \in DOMAIN content : content[k].text \in m..(a - 1) /\ TableClose(content[k])
    BY <2>4, <2>5, <2>6 DEF MistakenTableBefore
  <2>8. k \in Position /\ m <= content[k].text /\ content[k].text < a
    <3>1. m \in Nat /\ a \in Nat
      BY <1>1, <1>2
    <3> QED BY <1>1, <2>7, <3>1
  <2>9. k \in q..(i - 1)
    BY <1>4, <2>2, <2>7, <2>8
  <2> QED BY <2>7, <2>9
<1> QED BY <1>5, <1>6

-------------------------------------------------------------------------------
(***************************************************************************)
(* The lines of a region are tied.                                         *)
(***************************************************************************)
\* Rows, and a table that becomes rows: what stands between two of them is a row, and a
\* tag before them in the content stood before the region.
LEMMA RowsBetween ==
  ASSUME Returned, NEW a \in DOMAIN raw, NEW b \in DOMAIN raw, a <= b,
         RowsAt(a, b) \/ PipeTableAt(a, b), ~OpenTableBefore(a),
         NEW i \in Position, NEW j \in Position,
         content[i].text \in a..b, content[j].text \in a..b
  PROVE  /\ \A k \in i..j : k \in Position /\ MdRow(content[k]) /\ ~Fenced(k)
         /\ \A q \in Position : q < i /\ TableOpen(content[q]) => content[q].text < a
<1>1. /\ \A m \in Position : m \in Nat /\ m >= 1
      /\ \A m \in DOMAIN raw : m \in Nat /\ m >= 1 /\ OutputAt(m) \in Nat /\ m <= OutputAt(m)
      /\ \A m \in Position : content[m].text # 0 => content[m].text \in DOMAIN raw
      /\ Position = 1..Len(content) /\ Len(content) \in Nat /\ Position = DOMAIN content
      /\ DOMAIN raw = 1..Len(raw) /\ Len(raw) \in Nat
  BY ReturnedLines
<1>2. \A m \in a..b : m \in DOMAIN raw /\ m # 0
  BY <1>1
<1>3. ASSUME NEW q \in Position, q < i, TableOpen(content[q]),
             OutputAt(content[i].text) <= b, ~(content[q].text < a)
      PROVE  content[q].text \in a..b /\ content[q] = raw[content[q].text]
  <2> DEFINE t == content[q].text
  <2>1. content[q].kind \notin {"text", "row"}
    BY <1>3 DEF TableOpen
  <2>2. t # 0 /\ t \in DOMAIN raw /\ content[q] = raw[t]
    BY <2>1, NotConverted
  <2>3. OutputAt(t) <= OutputAt(content[i].text)
    BY <1>2, <1>3, <2>2, ReturnedLines
  <2>4. OutputAt(content[i].text) \in Nat
    BY <1>1, <1>2
  <2>5. t \in a..b
    <3> HIDE DEF t
    <3>1. t \in Nat /\ OutputAt(t) \in Nat /\ t <= OutputAt(t) /\ ~(t < a)
      BY <1>1, <1>3, <2>2 DEF t
    <3> QED BY <1>1, <1>3, <2>3, <2>4, <3>1
  <2> QED BY <2>2, <2>5
<1>4. CASE RowsAt(a, b)
  <2>1. \A m \in a..b : MdRow(raw[m]) /\ ~InFence(m)
    BY <1>4 DEF RowsAt
  <2>2. ASSUME NEW m \in a..b
        PROVE  AtOnce(m)
    <3>1. SUFFICES ASSUME NEW c \in 1..(m - 1), OpenTable(c, m)
                   PROVE  FALSE
      BY <2>1 DEF AtOnce, OpenTableBefore, MdRow, OpensTable
    <3>2. CASE c < a
      <4>1. c \in 1..(a - 1) /\ \A k \in c..(a - 1) : k \in c..(m - 1)
        BY <1>1, <3>2
      <4>2. OpenTable(c, a)
        BY <3>1, <4>1 DEF OpenTable
      <4> QED BY <4>1, <4>2 DEF OpenTableBefore
    <3>3. CASE a <= c
      <4>1. c \in a..b
        BY <1>1, <3>3
      <4> QED BY <2>1, <3>1, <4>1 DEF OpenTable, MdRow, OpensTable
    <3> QED BY <1>1, <3>2, <3>3
  <2>3. ASSUME NEW k \in i..j
        PROVE  k \in Position /\ MdRow(content[k]) /\ ~Fenced(k)
    <3>1. /\ k \in Position /\ content[k].text \in a..b /\ content[k] = raw[content[k].text]
          /\ TopFences(content, k) = Fences(content[k].text)
      BY <2>2, AtOnceBetween
    <3> QED BY <2>1, <3>1 DEF Fenced, InFence
  <2>4. ASSUME NEW q \in Position, q < i, TableOpen(content[q])
        PROVE  content[q].text < a
    <3>1. OutputAt(content[i].text) <= b
      <4>1. OutputAt(content[i].text) = content[i].text
        BY <2>2 DEF OutputAt, Held
      <4> QED BY <1>1, <4>1
    <3>2. ~(content[q].text < a) => MdRow(content[q])
      BY <1>3, <2>1, <2>4, <3>1
    <3> QED BY <2>4, <3>2 DEF MdRow, TableOpen
  <2> QED BY <2>3, <2>4
<1>5. CASE PipeTableAt(a, b)
  <2>1. TableAt(a, b) /\ (\A m \in a..b : ~TopFence(raw[m])) /\ \E h \in a..b : HeaderRow(raw[h])
    BY <1>5 DEF PipeTableAt
  <2>2. \A m \in a..b : m \in DOMAIN raw /\ m # 0 /\ Held(m) /\ Closing(m) = b /\ OutputAt(m) = b
    BY <2>1, TableHeld DEF Returned
  <2>3. PICK h \in DOMAIN raw : Held(h) /\ Closing(h) = b /\ HeaderRow(raw[h])
    BY <2>1, <2>2
  <2>4. ASSUME NEW k \in Position, content[k].text \in a..b
        PROVE  MdRow(content[k])
    <3>1. content[k].text # 0 /\ Held(content[k].text) /\ Closing(content[k].text) = b
      BY <2>2, <2>4
    <3> QED BY <1>1, <2>3, <3>1 DEF Returned, Placed, TablesKept
  <2>5. ASSUME NEW k \in i..j
        PROVE  k \in Position /\ MdRow(content[k]) /\ ~Fenced(k)
    <3>1. /\ k \in Position /\ ~Fenced(k)
          /\ content[k].text # 0 => content[k].text \in a..b
          /\ content[k].text = 0 => content[k] = Separator
      BY <2>1, TableBetween
    <3> QED BY <2>4, <3>1 DEF MdRow, Separator
  <2>6. ASSUME NEW q \in Position, q < i, TableOpen(content[q])
        PROVE  content[q].text < a
    <3>1. OutputAt(content[i].text) <= b
      BY <1>1, <2>2
    <3>2. ~(content[q].text < a) => MdRow(content[q])
      BY <1>3, <2>4, <2>6, <3>1
    <3> QED BY <2>6, <3>2 DEF MdRow, TableOpen
  <2> QED BY <2>5, <2>6
<1> QED BY <1>4, <1>5

LEMMA RowsTie ==
  ASSUME Returned, NEW a \in DOMAIN raw, NEW b \in DOMAIN raw, a <= b, RowsWithinBound,
         RowsAt(a, b) \/ PipeTableAt(a, b), ~OpenTableBefore(a), ~MistakenTableBefore(a),
         NEW i \in Position, NEW j \in Position,
         content[i].text \in a..b, content[j].text \in a..b,
         NEW z \in Position, i < z, z <= j
  PROVE  Tied(z)
<1>1. /\ \A m \in Position : m \in Nat /\ m >= 1
      /\ \A m \in DOMAIN raw : m \in Nat /\ m >= 1 /\ OutputAt(m) \in Nat /\ m <= OutputAt(m)
      /\ Position = 1..Len(content) /\ Len(content) \in Nat
      /\ DOMAIN raw = 1..Len(raw) /\ Len(raw) \in Nat
  BY ReturnedLines
<1>2. /\ \A k \in i..j : k \in Position /\ MdRow(content[k]) /\ ~Fenced(k)
      /\ \A q \in Position : q < i /\ TableOpen(content[q]) => content[q].text < a
  BY RowsBetween
<1>3. z \in i..j /\ z - 1 \in i..j /\ z > 1
  BY <1>1
<1>4. content[i].text # 0 /\ a <= OutputAt(content[i].text)
  <2>1. content[i].text \in DOMAIN raw /\ a <= content[i].text /\ content[i].text # 0
    BY <1>1
  <2>2. OutputAt(content[i].text) \in Nat /\ content[i].text <= OutputAt(content[i].text)
    BY <1>1, <2>1
  <2> QED BY <1>1, <2>1, <2>2
<1>5. ~TagOpenBefore(z)
  <2>1. SUFFICES ASSUME NEW q \in 1..(z - 1), TableOpen(content[q]), ~Fenced(q),
                        \A k \in q..(z - 1) : ~TableClose(content[k])
                 PROVE  FALSE
    BY DEF TagOpenBefore
  <2>2. q \in Position /\ q \in Nat
    BY <1>1
  <2>3. CASE q < i
    <3>1. PICK k \in q..(i - 1) : TableClose(content[k])
      BY <1>2, <1>4, <2>1, <2>2, <2>3, TagsClosed
    <3>2. k \in q..(z - 1)
      BY <1>1, <2>2
    <3> QED BY <2>1, <3>1, <3>2
  <2>4. CASE i <= q
    <3>1. q \in i..j
      BY <1>1, <2>2, <2>4
    <3> QED BY <1>2, <2>1, <3>1 DEF MdRow, TableOpen
  <2> QED BY <1>1, <2>2, <2>3, <2>4
<1>6. RowTied(z)
  BY <1>2, <1>3, <1>5 DEF RowTied
<1> QED BY <1>6 DEF Tied

\* A table that stays as it is.
LEMMA TagTableTies ==
  ASSUME Tokenizes, ChunkTypeOK, Returned,
         NEW a \in DOMAIN raw, NEW b \in DOMAIN raw, a <= b,
         TagTableAt(a, b), WithinBound(a, b), ~OpenTableBefore(a), ~MistakenTableBefore(a),
         NEW i \in Position, NEW j \in Position,
         content[i].text \in a..b, content[j].text \in a..b,
         NEW z \in Position, i < z, z <= j
  PROVE  Tied(z)
<1>1. /\ \A m \in Position : m \in Nat /\ m >= 1
      /\ \A m \in DOMAIN raw : m \in Nat /\ m >= 1 /\ OutputAt(m) \in Nat /\ m <= OutputAt(m)
      /\ \A m \in Position : content[m].text # 0 => content[m].text \in DOMAIN raw
      /\ Position = 1..Len(content) /\ Len(content) \in Nat /\ Position = DOMAIN content
      /\ DOMAIN raw = 1..Len(raw) /\ Len(raw) \in Nat
  BY ReturnedLines
<1>2. /\ TableAt(a, b) /\ OpensTable(raw[a]) /\ ~InFence(a) /\ TableClose(raw[b])
      /\ \A k \in a..(b - 1) : ~TableClose(raw[k])
      /\ \A k \in a..b : /\ ~TableRow(raw[k]) /\ ~TopFence(raw[k]) /\ ~Heading(raw[k])
                         /\ raw[k].depth >= raw[a].depth
                         /\ FenceMarker(raw[k]) => raw[a].depth = 0
  BY DEF TagTableAt, TableAt
<1>3. /\ \A m \in a..b : m \in DOMAIN raw /\ m # 0 /\ Held(m) /\ Closing(m) = b /\ OutputAt(m) = b
      /\ \A m \in DOMAIN raw : Held(m) /\ Closing(m) = b => m \in a..b
  BY <1>2, TableHeld DEF Returned
<1>4. a \in a..b /\ b \in a..b
  BY <1>1
<1>5. HasLine(content, a)
  <2>1. MayGo(a) \/ HasLine(content, a)
    BY DEF Returned
  <2>2. ~Blank(raw[a]) /\ ~Directive(a, {"filename"}) /\ ~JsHalf(a)
    BY <1>2 DEF Blank, OpensTable, Directive, JsHalf
  <2>3. ASSUME NEW c \in 1..a, NEW d \in a..Len(raw), TableAt(c, d),
               NEW r \in c..d, TableRow(raw[r])
        PROVE  FALSE
    <3>1. /\ OpensTable(raw[c]) /\ ~InFence(c) /\ TableClose(raw[d])
          /\ \A k \in c..(d - 1) : ~TableClose(raw[k])
      BY <2>3 DEF TableAt
    <3>2. c = a
      <4>1. SUFFICES ASSUME c # a
                     PROVE  FALSE
        OBVIOUS
      <4>2. c \in 1..(a - 1) /\ \A k \in c..(a - 1) : k \in c..(d - 1)
        BY <1>1, <4>1
      <4>3. OpenTable(c, a)
        BY <3>1, <4>2 DEF OpenTable
      <4> QED BY <4>2, <4>3 DEF OpenTableBefore
    <3>3. ~(b < d)
      <4>1. b < d => b \in c..(d - 1)
        BY <1>1, <3>2
      <4> QED BY <1>2, <3>1, <4>1
    <3>4. r \in a..b
      BY <1>1, <3>2, <3>3
    <3> QED BY <1>2, <2>3, <3>4
  <2>4. ~MayGo(a)
    BY <2>2, <2>3 DEF MayGo
  <2> QED BY <2>1, <2>4
<1>6. PICK q \in Position : content[q].text = a
  BY <1>1, <1>5 DEF HasLine
<1>7. ASSUME NEW k \in q..j
      PROVE  /\ k \in Position /\ ~Fenced(k) /\ content[k].text \in a..b
             /\ content[k] = raw[content[k].text]
  <2>1. /\ k \in Position /\ ~Fenced(k)
        /\ content[k].text # 0 => content[k].text \in a..b
        /\ content[k].text = 0 => \E m \in a..b : TableRow(raw[m])
    BY <1>2, <1>4, <1>6, TableBetween
  <2>2. content[k].text \in a..b
    BY <1>2, <2>1
  <2>3. content[k] = raw[content[k].text]
    BY <1>2, <1>3, <2>1, <2>2, NotConverted
  <2> QED BY <2>1, <2>2, <2>3
\* Its lines are in order.
<1>8. ASSUME NEW k \in Position, NEW m \in Position, k < m,
             content[k].text \in a..b, content[m].text \in a..b
      PROVE  content[k].text < content[m].text
  <2>1. content[k] = raw[content[k].text] /\ content[m] = raw[content[m].text]
    BY <1>2, <1>3, <1>8, NotConverted
  <2> QED BY <1>3, <1>8, <2>1, ReturnedLines
<1>9. q <= i /\ q < z /\ q \in q..j
  <2>1. ~(i < q)
    <3>1. i < q => content[i].text < a
      BY <1>4, <1>6, <1>8
    <3> QED BY <1>1, <3>1
  <2> QED BY <1>1, <2>1
<1>10. TableOpen(content[q]) /\ ~Fenced(q) /\ content[q] = raw[a]
  BY <1>2, <1>6, <1>7, <1>9 DEF TableOpen, OpensTable
<1>11. ~TagOpenBefore(q)
  <2>1. SUFFICES ASSUME NEW p \in 1..(q - 1), TableOpen(content[p]), ~Fenced(p),
                        \A k \in p..(q - 1) : ~TableClose(content[k])
                 PROVE  FALSE
    BY DEF TagOpenBefore
  <2>2. p \in Position /\ p < q
    BY <1>1
  <2>3. content[p].text < a
    <3> DEFINE t == content[p].text
    <3>1. content[p].kind \notin {"text", "row"}
      BY <2>1 DEF TableOpen
    <3>2. t # 0 /\ t \in DOMAIN raw
      BY <2>2, <3>1, NotConverted
    <3>3. OutputAt(t) <= OutputAt(content[q].text) /\ OutputAt(content[q].text) = b
      BY <1>3, <1>4, <1>6, <2>2, <3>2, ReturnedLines
    <3>4. t \in Nat /\ OutputAt(t) \in Nat /\ t <= OutputAt(t)
      BY <1>1, <3>2
    <3>5. t \in a..b => t < a
      BY <1>4, <1>6, <1>8, <2>2
    <3> HIDE DEF t
    <3>6. t < a
      BY <1>1, <3>3, <3>4, <3>5
    <3> QED BY <3>6 DEF t
  <2>4. content[q].text # 0 /\ a <= OutputAt(content[q].text)
    BY <1>1, <1>6
  <2>5. \E k \in p..(q - 1) : TableClose(content[k])
    BY <2>1, <2>2, <2>3, <2>4, TagsClosed
  <2> QED BY <2>1, <2>5
<1>12. ASSUME NEW k \in q..(j - 1)
       PROVE  ~TableClose(content[k])
  <2>1. k \in q..j /\ k < j
    BY <1>1
  <2>2. content[k].text \in a..b /\ content[k] = raw[content[k].text] /\ k \in Position
    BY <1>7, <2>1
  <2>3. content[k].text < content[j].text
    BY <1>8, <2>1, <2>2
  <2>4. content[k].text \in a..(b - 1)
    BY <1>1, <2>2, <2>3
  <2> QED BY <1>2, <2>2, <2>4
<1>13. \A k \in q..j : /\ ~TopFence(content[k]) /\ ~Heading(content[k])
                       /\ content[k].depth >= content[q].depth
                       /\ FenceMarker(content[k]) => content[q].depth = 0
  BY <1>2, <1>7, <1>10
<1>14. LineTokens(q..j) <= TableBound
  <2> DEFINE S == q..j
             T == {k \in DOMAIN content : content[k].text \in a..b}
  <2>1. S \subseteq T
    BY <1>1, <1>7
  <2>2. LineTokens(T) <= TableBound
    BY DEF WithinBound
  <2>3. TableBound \in Nat
    BY ChunkerAssumption
  <2> HIDE DEF S, T
  <2>4. LineTokens(S) \in Nat /\ LineTokens(T) \in Nat /\ LineTokens(S) <= LineTokens(T)
    BY <2>1, LineTokensGrow
  <2>5. LineTokens(S) <= TableBound
    BY <2>2, <2>3, <2>4
  <2> QED BY <2>5 DEF S
<1>15. TagTable(q, j)
  BY <1>10, <1>11, <1>12, <1>13, <1>14 DEF TagTable
<1> QED BY <1>9, <1>15 DEF Tied

\* The lines of a fence, but for the marker that ends it, are inside; and where no table
\* was open before it, none is.
LEMMA FenceLines ==
  ASSUME raw \in Seq(Line), NEW a \in DOMAIN raw, NEW b \in DOMAIN raw, FenceAt(a, b),
         ~OpenTableBefore(a), NEW k \in a..b
  PROVE  /\ Fences(a) \in Nat /\ Fences(a) % 2 = 1
         /\ Fences(k) = IF k = b THEN Fences(a) + 1 ELSE Fences(a)
         /\ AtOnce(k) /\ ~OpenTableBefore(k)
<1>1. raw \in Seq(Line) /\ a \in Nat /\ b \in Nat /\ a >= 1
  OBVIOUS
<1>2. /\ TopFence(raw[a]) /\ TopFence(raw[b]) /\ InFence(a)
      /\ Fences(b) = Fences(a) + 1
  BY DEF FenceAt
<1>3. Fences(a) \in Nat /\ Fences(a) % 2 = 1
  BY <1>1, <1>2, FencesOfRaw, CountsGrow DEF InFence
<1>4. ASSUME NEW m \in a..b
      PROVE  Fences(m) = IF m = b THEN Fences(a) + 1 ELSE Fences(a)
  <2>1. CASE m = b
    BY <1>2, <2>1
  <2>2. CASE m < b
    <3>1. m \in Nat /\ a <= m /\ m <= b - 1 /\ b - 1 \in Nat /\ m < b
      BY <1>1, <2>2
    <3>2. /\ TopFences(raw, m) \in Nat
          /\ TopFences(raw, m) <= TopFences(raw, b - 1) /\ TopFences(raw, b - 1) \in Nat
      BY <3>1, CountsGrow
    <3>3. TopFences(raw, a) <= TopFences(raw, m)
      BY <1>1, <3>1, CountsGrow
    <3>4. TopFences(raw, b) = TopFences(raw, b - 1) + 1
      BY <1>1, <1>2, <3>1, CountsGrow
    <3>5. Fences(m) = Fences(a)
      BY <1>2, <1>3, <3>2, <3>3, <3>4, FencesOfRaw
    <3> QED BY <3>1, <3>5
  <2> QED BY <1>1, <2>1, <2>2
<1>5. ASSUME NEW m \in a..b, m # b
      PROVE  InFence(m)
  BY <1>3, <1>4, <1>5 DEF InFence
<1>6. ~OpenTableBefore(k)
  <2>1. SUFFICES ASSUME NEW c \in 1..(k - 1), OpenTable(c, k)
                 PROVE  FALSE
    BY DEF OpenTableBefore
  <2>2. CASE c < a
    <3>1. c \in 1..(a - 1) /\ \A m \in c..(a - 1) : m \in c..(k - 1)
      BY <1>1, <2>2
    <3>2. OpenTable(c, a)
      BY <2>1, <3>1 DEF OpenTable
    <3> QED BY <3>1, <3>2 DEF OpenTableBefore
  <2>3. CASE a <= c
    <3>1. c \in a..b /\ c # b
      BY <1>1, <2>3
    <3> QED BY <1>5, <2>1, <3>1 DEF OpenTable
  <2> QED BY <1>1, <2>2, <2>3
<1>7. AtOnce(k)
  <2>1. k = b => ~OpensTable(raw[k])
    BY <1>2 DEF TopFence, OpensTable
  <2> QED BY <1>5, <1>6, <2>1 DEF AtOnce
<1> QED BY <1>3, <1>4, <1>6, <1>7

\* So they are tied together in the content.
LEMMA FenceTies ==
  ASSUME Returned,
         NEW a \in DOMAIN raw, NEW b \in DOMAIN raw, FenceAt(a, b), ~OpenTableBefore(a),
         NEW i \in Position, NEW j \in Position,
         content[i].text \in a..b, content[j].text \in a..b,
         NEW z \in Position, i < z, z <= j
  PROVE  Tied(z)
<1> DEFINE F == Fences(a)
           Count(k) == TopFences(content, k)
<1>1. /\ raw \in Seq(Line) /\ content \in Seq(Line) /\ FencesKept(content)
      /\ a \in Nat /\ b \in Nat /\ a >= 1
  BY DEF Returned, Placed
<1>2. Position = DOMAIN content /\ \A k \in Position : k \in Nat /\ k > 0
  BY ReturnedLines
<1>3. ASSUME NEW k \in Position, content[k].text \in a..b
      PROVE  Count(k) = IF content[k].text = b THEN F + 1 ELSE F
  <2> DEFINE t == content[k].text
  <2>1. AtOnce(t) /\ Fences(t) = IF t = b THEN F + 1 ELSE F
    BY <1>1, <1>3, FenceLines
  <2>2. t # 0 /\ t \in DOMAIN raw /\ OutputAt(t) = t
    BY <1>1, <1>3, <2>1 DEF OutputAt, Held
  <2> QED BY <1>1, <1>2, <2>1, <2>2 DEF FencesKept
<1>4. F \in Nat /\ F % 2 = 1
  <2>1. content[i].text \in a..b
    OBVIOUS
  <2> QED BY <1>1, <2>1, FenceLines
<1>5. ASSUME NEW k \in Position, content[k].text = b
      PROVE  TopFence(content[k])
  <2>1. TopFence(raw[b]) /\ b # 0
    BY <1>1 DEF FenceAt
  <2>2. ~TableRow(raw[b])
    BY <2>1 DEF TopFence, TableRow
  <2> QED BY <1>5, <2>1, <2>2, NotConverted
<1> HIDE DEF F
<1>6. i < j /\ i <= z - 1 /\ z - 1 <= j - 1 /\ z - 1 \in Nat /\ j - 1 \in Nat
      /\ i \in Nat /\ j \in Nat /\ j - 1 <= j
  BY <1>2
<1>7. /\ Count(i) \in Nat /\ Count(j) \in Nat /\ Count(z - 1) \in Nat /\ Count(j - 1) \in Nat
      /\ Count(i) <= Count(z - 1) /\ Count(z - 1) <= Count(j - 1) /\ Count(j - 1) <= Count(j)
      /\ TopFence(content[j]) => Count(j) = Count(j - 1) + 1
  <2>1. /\ Count(i) \in Nat /\ Count(z - 1) \in Nat /\ Count(i) <= Count(z - 1)
    BY <1>6, CountsGrow
  <2>2. Count(j - 1) \in Nat /\ Count(z - 1) <= Count(j - 1)
    BY <1>6, CountsGrow
  <2>3. Count(j) \in Nat /\ Count(j - 1) <= Count(j)
    BY <1>6, CountsGrow
  <2>4. TopFence(content[j]) => Count(j) = Count(j - 1) + 1
    BY <1>6, CountsGrow
  <2> QED BY <2>1, <2>2, <2>3, <2>4
<1>8. Count(z - 1) = F
  <2>1. /\ Count(i) = IF content[i].text = b THEN F + 1 ELSE F
        /\ Count(j) = IF content[j].text = b THEN F + 1 ELSE F
    BY <1>3
  <2>2. content[j].text = b => TopFence(content[j])
    BY <1>5
  <2> HIDE DEF Count
  <2> QED BY <1>4, <1>7, <2>1, <2>2
<1>9. Fenced(z - 1)
  BY <1>4, <1>8 DEF Fenced
<1> QED BY <1>9 DEF Tied

\* What QuotedFenceAt says of the line with which the quote begins.
QuotedFrom(q, a, b) == /\ QuotedPair(raw, q, a, b)
                       /\ ~InFence(q) /\ ~OpenTableBefore(q)
                       /\ \A k \in q..b : ~OpensTable(raw[k])

\* The lines of a quote with a fence: none is held back, or in a fence of the cleaner's.
LEMMA QuoteLines ==
  ASSUME raw \in Seq(Line), NEW a \in DOMAIN raw, NEW b \in DOMAIN raw, NEW q \in 1..a,
         QuotedFrom(q, a, b), NEW m \in q..b
  PROVE  /\ m \in DOMAIN raw /\ m # 0 /\ raw[m].depth > 0 /\ raw[m].depth >= raw[a].depth
         /\ ~TopFence(raw[m]) /\ ~InFence(m) /\ AtOnce(m) /\ ~OpenTableBefore(m)
<1>1. /\ DOMAIN raw = 1..Len(raw) /\ Len(raw) \in Nat /\ a \in Nat /\ b \in Nat /\ a >= 1
      /\ b <= Len(raw) /\ q \in Nat /\ q >= 1 /\ q <= a
  OBVIOUS
<1>2. /\ ~InFence(q) /\ ~OpenTableBefore(q) /\ 0 < raw[a].depth
      /\ \A k \in q..b : raw[k].depth >= raw[a].depth
      /\ \A k \in q..b : ~OpensTable(raw[k])
  BY DEF QuotedFrom, QuotedPair
<1>3. \A k \in DOMAIN raw : raw[k].depth \in Nat
  <2>1. \A l \in Line : l.depth \in Nat
    BY DEF Line
  <2> QED BY <2>1, ElementOf
<1>4. \A k \in q..b : k \in DOMAIN raw /\ k # 0 /\ raw[k].depth > 0 /\ raw[k].depth >= raw[a].depth
  <2> SUFFICES ASSUME NEW k \in q..b
               PROVE  k \in DOMAIN raw /\ k # 0 /\ raw[k].depth > 0 /\ raw[k].depth >= raw[a].depth
    OBVIOUS
  <2>1. k \in DOMAIN raw /\ k # 0
    BY <1>1
  <2>2. raw[k].depth >= raw[a].depth
    BY <1>2
  <2> QED BY <1>2, <1>3, <2>1, <2>2
<1>5. \A k \in q..b : ~TopFence(raw[k])
  BY <1>4 DEF TopFence
<1>6. ~InFence(m)
  <2>1. \A k \in (q + 1)..m : ~TopFence(raw[k])
    BY <1>1, <1>5
  <2>2. Fences(m) = Fences(q)
    BY <1>1, <2>1, NoMoreFences, FencesOfRaw
  <2> QED BY <1>2, <2>2 DEF InFence
<1>7. ~OpenTableBefore(m)
  <2>1. SUFFICES ASSUME NEW c \in 1..(m - 1), OpenTable(c, m)
                 PROVE  FALSE
    BY DEF OpenTableBefore
  <2>2. CASE c < q
    <3>1. c \in 1..(q - 1) /\ \A k \in c..(q - 1) : k \in c..(m - 1)
      BY <1>1, <2>2
    <3>2. OpenTable(c, q)
      BY <2>1, <3>1 DEF OpenTable
    <3> QED BY <1>2, <3>1, <3>2 DEF OpenTableBefore
  <2>3. CASE q <= c
    <3>1. c \in q..b
      BY <1>1, <2>3
    <3> QED BY <1>2, <2>1, <3>1 DEF OpenTable
  <2> QED BY <1>1, <2>2, <2>3
<1>8. AtOnce(m)
  <2>1. ~OpensTable(raw[m])
    BY <1>2
  <2> QED BY <1>7, <2>1 DEF AtOnce
<1> QED BY <1>4, <1>5, <1>6, <1>7, <1>8

\* A line that is not held back, and not of a table, stands in one place, and before it
\* there are earlier lines only.
LEMMA OnePlace ==
  ASSUME Returned, NEW k \in Position, NEW m \in Position, content[k].text # 0,
         content[m].text # 0, AtOnce(content[m].text), k < m
  PROVE  content[k].text < content[m].text
<1> DEFINE t == content[k].text
           u == content[m].text
<1>1. /\ t \in DOMAIN raw /\ u \in DOMAIN raw /\ t \in Nat /\ u \in Nat
      /\ OutputAt(t) \in Nat /\ t <= OutputAt(t)
      /\ OutputAt(t) <= OutputAt(u)
      /\ OutputAt(t) = OutputAt(u) /\ content[k] = raw[t] /\ content[m] = raw[u] => t < u
  BY ReturnedLines
<1>2. OutputAt(u) = u
  BY DEF OutputAt, Held
<1>3. t # u
  <2>1. SUFFICES ASSUME t = u
                 PROVE  FALSE
    OBVIOUS
  <2>2. ~OpenTableBefore(u)
    BY DEF AtOnce
  <2>3. content[k] = raw[t] /\ content[m] = raw[u]
    BY <2>1, <2>2, NotConverted
  <2> HIDE DEF t, u
  <2> QED BY <1>1, <2>1, <2>3
<1> HIDE DEF t, u
<1>4. t < u
  BY <1>1, <1>2, <1>3
<1> QED BY <1>4 DEF t, u

\* The lines of the quote up to the end of the fence stand in the content, in their order
\* and with nothing between them.
LEMMA QuoteCopied ==
  ASSUME Returned, NEW a \in DOMAIN raw, NEW b \in DOMAIN raw, NEW q \in 1..a,
         QuotedFrom(q, a, b)
  PROVE  /\ \A m \in q..b : \E k \in Position : content[k].text = m
         /\ \A k, m \in Position :
               k < m /\ content[k].text \in q..b /\ content[m].text \in q..b =>
                  content[k].text < content[m].text
         /\ \A i, j \in Position :
               content[i].text \in q..b /\ content[j].text \in q..b =>
                  \A k \in i..j : /\ k \in Position /\ content[k].text \in q..b
                                  /\ content[k] = raw[content[k].text]
                                  /\ TopFences(content, k) = Fences(content[k].text)
<1>1. /\ \A m \in Position : m \in Nat /\ m >= 1
      /\ \A m \in DOMAIN raw : m \in Nat /\ m >= 1
      /\ Position = 1..Len(content) /\ Len(content) \in Nat /\ Position = DOMAIN content
      /\ DOMAIN raw = 1..Len(raw) /\ Len(raw) \in Nat
  BY ReturnedLines
<1>2. ~OpenTableBefore(q) /\ \A k \in q..b : ~OpensTable(raw[k])
  BY DEF QuotedFrom
<1>3. \A m \in q..b : /\ m \in DOMAIN raw /\ m # 0 /\ raw[m].depth > 0
                      /\ ~TopFence(raw[m]) /\ ~InFence(m) /\ AtOnce(m) /\ ~OpenTableBefore(m)
  BY QuoteLines DEF Returned
<1>4. q \in DOMAIN raw
  BY <1>1
<1>5. ASSUME NEW m \in q..b
      PROVE  \E k \in Position : content[k].text = m
  <2>1. MayGo(m) \/ HasLine(content, m)
    BY <1>3 DEF Returned
  <2>2. ~Blank(raw[m])
    <3>1. raw[m].depth # 0
      BY <1>3
    <3> QED BY <1>3, <3>1 DEF Returned
  <2>3. ~Directive(m, {"filename"}) /\ ~JsHalf(m)
    BY <1>3 DEF Directive, JsHalf
  <2>4. ASSUME NEW c \in 1..m, NEW d \in m..Len(raw), TableAt(c, d)
        PROVE  FALSE
    <3>1. /\ OpensTable(raw[c]) /\ ~InFence(c)
          /\ \A k \in c..(d - 1) : ~TableClose(raw[k])
      BY <2>4 DEF TableAt
    <3>2. CASE c < q
      <4>1. c \in 1..(q - 1) /\ \A k \in c..(q - 1) : k \in c..(d - 1)
        BY <1>1, <3>2
      <4>2. OpenTable(c, q)
        BY <3>1, <4>1 DEF OpenTable
      <4> QED BY <1>2, <4>1, <4>2 DEF OpenTableBefore
    <3>3. CASE q <= c
      <4>1. c \in q..b
        BY <1>1, <3>3
      <4> QED BY <1>2, <3>1, <4>1
    <3> QED BY <1>1, <3>2, <3>3
  <2>5. ~MayGo(m)
    BY <2>2, <2>3, <2>4 DEF MayGo
  <2> QED BY <1>1, <2>1, <2>5 DEF HasLine
<1>6. ASSUME NEW k \in Position, NEW m \in Position, k < m,
             content[k].text \in q..b, content[m].text \in q..b
      PROVE  content[k].text < content[m].text
  <2>1. content[k].text # 0 /\ content[m].text # 0 /\ AtOnce(content[m].text)
    BY <1>3, <1>6
  <2> QED BY <1>6, <2>1, OnePlace
<1>7. ASSUME NEW i \in Position, NEW j \in Position,
             content[i].text \in q..b, content[j].text \in q..b, NEW k \in i..j
      PROVE  /\ k \in Position /\ content[k].text \in q..b
             /\ content[k] = raw[content[k].text]
             /\ TopFences(content, k) = Fences(content[k].text)
  BY <1>2, <1>3, <1>4, <1>7, AtOnceBetween
<1> QED BY <1>5, <1>6, <1>7

\* It is a quoted fence of the content too.
LEMMA QuoteStands ==
  ASSUME Returned, NEW a \in DOMAIN raw, NEW b \in DOMAIN raw, QuotedFenceAt(a, b)
  PROVE  \E x, n \in Position : /\ content[x].text = a /\ content[n].text = b
                                /\ QuotePair(x, n)
<1>1. /\ \A m \in Position : m \in Nat /\ m >= 1
      /\ \A m \in DOMAIN raw : m \in Nat /\ m >= 1 /\ OutputAt(m) \in Nat /\ m <= OutputAt(m)
      /\ \A m \in Position : content[m].text # 0 => content[m].text \in DOMAIN raw
      /\ Position = 1..Len(content) /\ Len(content) \in Nat /\ Position = DOMAIN content
      /\ DOMAIN raw = 1..Len(raw) /\ Len(raw) \in Nat
  BY ReturnedLines
<1>2. PICK q \in 1..a : QuotedFrom(q, a, b)
  BY DEF QuotedFenceAt, QuotedFrom
<1>3. /\ q <= a /\ a < b /\ (q = 1 \/ raw[q - 1].depth < raw[a].depth)
      /\ \A k \in q..b : raw[k].depth >= raw[a].depth
      /\ FenceMarker(raw[a]) /\ FenceMarker(raw[b])
      /\ 0 < raw[a].depth /\ raw[b].depth = raw[a].depth
      /\ Markers(raw, a + 1, b - 1) = {}
      /\ \A k \in Markers(raw, q, a - 1) : raw[k].depth = raw[a].depth
      /\ Cardinality(Markers(raw, q, a - 1)) % 2 = 0
  BY <1>2 DEF QuotedFrom, QuotedPair
<1>4. /\ q \in q..b /\ a \in q..b /\ b \in q..b /\ q \in Nat /\ q >= 1 /\ q \in DOMAIN raw
      /\ a \in Nat /\ b \in Nat
  BY <1>1, <1>3
<1>5. \A m \in q..b : /\ m \in DOMAIN raw /\ m # 0 /\ ~InFence(m) /\ AtOnce(m)
                      /\ ~TopFence(raw[m]) /\ OutputAt(m) = m
  <2> SUFFICES ASSUME NEW m \in q..b
               PROVE  /\ m \in DOMAIN raw /\ m # 0 /\ ~InFence(m) /\ AtOnce(m)
                      /\ ~TopFence(raw[m]) /\ OutputAt(m) = m
    OBVIOUS
  <2>1. m \in DOMAIN raw /\ m # 0 /\ ~InFence(m) /\ AtOnce(m) /\ ~TopFence(raw[m])
    BY <1>2, QuoteLines DEF Returned
  <2> QED BY <2>1 DEF OutputAt, Held
<1>6. /\ \A m \in q..b : \E k \in Position : content[k].text = m
      /\ \A k, m \in Position :
            k < m /\ content[k].text \in q..b /\ content[m].text \in q..b =>
               content[k].text < content[m].text
      /\ \A i, j \in Position :
            content[i].text \in q..b /\ content[j].text \in q..b =>
               \A k \in i..j : /\ k \in Position /\ content[k].text \in q..b
                               /\ content[k] = raw[content[k].text]
                               /\ TopFences(content, k) = Fences(content[k].text)
  BY <1>2, QuoteCopied
<1>7. PICK p \in Position : content[p].text = q
  BY <1>4, <1>6
<1>8. PICK x \in Position : content[x].text = a
  BY <1>4, <1>6
<1>9. PICK n \in Position : content[n].text = b
  BY <1>4, <1>6
<1> DEFINE N == Len(content)
<1>10. p \in 1..N /\ x \in 1..N /\ n \in 1..N /\ N \in Nat
  BY <1>1
<1> HIDE DEF N
\* Positions of the quote are in the order of its lines.
<1>11. ASSUME NEW k \in Position, NEW m \in Position,
              content[k].text \in q..b, content[m].text \in q..b
       PROVE  /\ content[k].text < content[m].text => k < m
              /\ content[k].text = content[m].text => k = m
  <2>1. /\ k < m => content[k].text < content[m].text
        /\ m < k => content[m].text < content[k].text
    BY <1>6, <1>11
  <2>2. k \in Nat /\ m \in Nat
    BY <1>1
  <2>3. content[k].text \in Int /\ content[m].text \in Int
    BY <1>11
  <2> QED BY <2>1, <2>2, <2>3
<1>12. p <= x /\ x < n
  <2>1. a < b => x < n
    BY <1>4, <1>8, <1>9, <1>11
  <2>2. (q < a => p < x) /\ (q = a => p = x)
    BY <1>4, <1>7, <1>8, <1>11
  <2> QED BY <1>3, <1>4, <1>10, <2>1, <2>2
<1>13. ASSUME NEW k \in p..n
       PROVE  /\ k \in Position /\ content[k].text \in q..b
              /\ content[k] = raw[content[k].text]
              /\ TopFences(content, k) = Fences(content[k].text)
  BY <1>4, <1>6, <1>7, <1>9
<1>14. p \in p..n /\ x \in p..n /\ n \in p..n /\ p \in 1..x
  BY <1>12, <1>10
<1>15. /\ content[x] = raw[a] /\ content[n] = raw[b] /\ content[p] = raw[q]
       /\ ~Fenced(x)
  <2>1. /\ content[x] = raw[a] /\ content[n] = raw[b] /\ content[p] = raw[q]
        /\ TopFences(content, x) = Fences(a)
    BY <1>7, <1>8, <1>9, <1>13, <1>14
  <2> QED BY <1>4, <1>5, <2>1 DEF Fenced, InFence
<1>16. p = 1 \/ content[p - 1].depth < content[x].depth
  <2> SUFFICES ASSUME p # 1
               PROVE  content[p - 1].depth < content[x].depth
    OBVIOUS
  <2>1. p - 1 \in Position /\ p > 1 /\ p - 1 < p
    <3>1. p - 1 \in 1..N /\ p > 1 /\ p - 1 < p
      BY <1>10
    <3> QED BY <1>1, <3>1 DEF N
  <2>2. CASE q = 1
    <3>1. content[p - 1].text = 0
      <4>1. SUFFICES ASSUME content[p - 1].text # 0
                     PROVE  FALSE
        OBVIOUS
      <4> DEFINE t == content[p - 1].text
      <4>2. t \in DOMAIN raw /\ t < q
        BY <1>1, <1>4, <1>5, <1>7, <2>1, <4>1, OnePlace
      <4>3. t \in Nat /\ t >= 1
        BY <1>1, <4>2
      <4> HIDE DEF t
      <4> QED BY <2>2, <4>2, <4>3
    <3>2. content[p - 1].depth = 0
      <4>1. content[p - 1] = Separator
        BY <2>1, <3>1, NotConverted
      <4> QED BY <4>1 DEF Separator
    <3> QED BY <1>3, <1>15, <3>2
  <2>3. CASE q # 1
    <3>1. q > 1 /\ raw[q - 1].depth < raw[a].depth
      BY <1>3, <1>4, <2>3
    <3>2. content[p - 1] = raw[q - 1] \/ content[p - 1].depth = 0
      BY <1>1, <1>4, <1>5, <1>7, <3>1 DEF Returned, Placed, QuotesKept
    <3> QED BY <1>3, <1>15, <3>1, <3>2
  <2> QED BY <2>2, <2>3
<1>17. \A k \in p..n : content[k].depth >= content[x].depth
  BY <1>3, <1>13, <1>15
<1>18. Markers(content, x + 1, n - 1) = {}
  <2>1. SUFFICES ASSUME NEW k \in (x + 1)..(n - 1), FenceMarker(content[k])
                 PROVE  FALSE
    BY DEF Markers
  <2>2. k \in p..n /\ x < k /\ k < n
    BY <1>12, <1>10
  <2>3. k \in Position /\ content[k].text \in q..b /\ content[k] = raw[content[k].text]
    BY <1>13, <2>2
  <2>4. a < content[k].text /\ content[k].text < b
    BY <1>4, <1>6, <1>8, <1>9, <2>2, <2>3
  <2>5. content[k].text \in (a + 1)..(b - 1)
    BY <1>4, <2>3, <2>4
  <2>6. content[k].text \in Markers(raw, a + 1, b - 1)
    BY <2>1, <2>3, <2>5 DEF Markers
  <2> QED BY <1>3, <2>6
\* The markers before the fence are those of the page.
<1> DEFINE A == Markers(content, p, x - 1)
           B == Markers(raw, q, a - 1)
           f == [k \in A |-> content[k].text]
<1>19. ASSUME NEW k \in A
       PROVE  /\ k \in Position /\ content[k].text \in q..b /\ content[k].text \in B
              /\ content[k] = raw[content[k].text]
  <2>1. k \in p..(x - 1) /\ FenceMarker(content[k])
    BY <1>19 DEF Markers
  <2>2. k \in p..n /\ k < x
    BY <1>12, <1>10, <2>1
  <2>3. k \in Position /\ content[k].text \in q..b /\ content[k] = raw[content[k].text]
    BY <1>13, <2>2
  <2>4. content[k].text < a
    BY <1>4, <1>6, <1>8, <2>2, <2>3
  <2>5. content[k].text \in q..(a - 1)
    BY <1>4, <2>3, <2>4
  <2>6. content[k].text \in B
    BY <2>1, <2>3, <2>5 DEF Markers
  <2> QED BY <2>3, <2>6
<1>20. ASSUME NEW m \in B
       PROVE  \E k \in A : content[k].text = m
  <2>1. m \in q..(a - 1) /\ FenceMarker(raw[m])
    BY <1>20 DEF Markers
  <2>2. m \in q..b /\ m < a /\ q <= m
    BY <1>3, <1>4, <2>1
  <2>3. PICK k \in Position : content[k].text = m
    BY <1>6, <2>2
  <2>4. k < x
    BY <1>4, <1>8, <1>11, <2>2, <2>3
  <2>5. (q < m => p < k) /\ (q = m => p = k)
    BY <1>4, <1>7, <1>11, <2>2, <2>3
  <2>6. k \in p..(x - 1) /\ k \in p..n
    <3>1. k \in Nat /\ m \in Int
      BY <1>1, <2>1
    <3>2. p <= k
      BY <1>4, <1>10, <2>2, <2>5, <3>1
    <3> QED BY <1>12, <1>10, <2>4, <3>1, <3>2
  <2>7. content[k] = raw[m]
    BY <1>13, <2>3, <2>6
  <2>8. k \in A
    BY <2>1, <2>6, <2>7 DEF Markers
  <2> QED BY <2>3, <2>8
<1>21. Cardinality(A) = Cardinality(B)
  <2>1. IsFiniteSet(A)
    <3>1. p \in Int /\ x - 1 \in Int
      BY <1>10
    <3> QED BY <3>1, MarkersFinite
  <2>2. f \in [A -> B]
    BY <1>19
  <2>3. \A k, m \in A : f[k] = f[m] => k = m
    BY <1>11, <1>19
  <2>4. \A m \in B : \E k \in A : f[k] = m
    BY <1>20
  <2> HIDE DEF A, B, f
  <2>5. f \in Bijection(A, B)
    BY <2>2, <2>3, <2>4 DEF Bijection, Injection, Surjection, IsInjective
  <2>6. ExistsBijection(A, B)
    BY <2>5 DEF ExistsBijection
  <2> QED BY <2>1, <2>6, FS_Bijection
<1>22. \A k \in A : content[k].depth = content[x].depth
  BY <1>3, <1>15, <1>19
<1>23. QuotedPair(content, p, x, n)
  BY <1>3, <1>12, <1>15, <1>16, <1>17, <1>18, <1>21, <1>22 DEF QuotedPair
<1>24. QuotePair(x, n)
  BY <1>14, <1>15, <1>23 DEF QuotePair
<1> QED BY <1>8, <1>9, <1>24

\* A line that ends a quote of the page behind line t ends that of the content.
LEMMA QuoteEnds ==
  ASSUME Returned, NEW m \in Position, NEW x \in Position,
         content[m].text # 0, content[x].text # 0, FenceMarker(content[m]), content[m].depth > 0,
         NEW k \in (content[m].text + 1)..content[x].text, EndsQuote(k, raw[content[m].text].depth)
  PROVE  ~Reaches(m, x)
<1> DEFINE t == content[m].text
<1>1. /\ \A i \in Position : i \in Nat /\ i >= 1
      /\ DOMAIN raw = 1..Len(raw) /\ Len(raw) \in Nat
      /\ t \in DOMAIN raw /\ content[x].text \in DOMAIN raw
      /\ Position = DOMAIN content
      /\ \A i \in DOMAIN raw : i \in Nat /\ i >= 1
  BY ReturnedLines
<1>2. content[m] = raw[t]
  <2>1. content[m].kind \notin {"text", "row"}
    BY DEF FenceMarker
  <2> QED BY <2>1, NotConverted
<1>3. k \in DOMAIN raw /\ t < k /\ k <= content[x].text /\ k # 0
  <2> DEFINE u == content[x].text
  <2>1. k \in (t + 1)..u
    OBVIOUS
  <2>2. t \in Nat /\ t >= 1 /\ u \in 1..Len(raw) /\ Len(raw) \in Nat
    BY <1>1
  <2> HIDE DEF t, u
  <2>3. k \in 1..Len(raw) /\ t < k /\ k <= u /\ k # 0
    BY <2>1, <2>2
  <2> QED BY <1>1, <2>3 DEF u
<1>4. AtOnce(k) /\ ~OpenTableBefore(k) /\ ~MayGo(k) /\ ~Heading(raw[k]) /\ raw[k].depth < raw[t].depth
  BY DEF EndsQuote, AtOnce
<1>5. PICK s \in Position : content[s].text = k
  BY <1>1, <1>3, <1>4 DEF Returned, HasLine
<1>6. content[s] = raw[k] /\ ~Blank(raw[k])
  <2>1. content[s] = raw[k]
    BY <1>3, <1>4, <1>5, NotConverted
  <2> QED BY <1>4, <2>1 DEF MayGo
<1>7. m < s
  <2>1. m # s
    BY <1>1, <1>3, <1>5
  <2>2. ~(s < m)
    <3> SUFFICES ASSUME s < m
                 PROVE  FALSE
      OBVIOUS
    <3>1. CASE AtOnce(t)
      <4>1. k < t
        BY <1>3, <1>5, <3>1, OnePlace
      <4> QED BY <1>1, <1>3, <4>1
    <3>2. CASE ~AtOnce(t)
      <4>1. Held(t)
        BY <1>2, <3>2 DEF Held, TopFence
      <4>2. Closing(t) < k /\ Closing(t) \in DOMAIN raw
        <5> HIDE DEF t
        <5> QED BY <1>1, <1>3, <1>4, <4>1, ClosedBefore DEF Returned
      <4>3. OutputAt(t) = Closing(t) /\ OutputAt(k) = k
        BY <1>4, <4>1 DEF OutputAt, Held
      <4>4. OutputAt(k) <= OutputAt(t)
        BY <1>3, <1>5, ReturnedLines
      <4> QED BY <1>1, <1>3, <4>2, <4>3, <4>4
    <3> QED BY <3>1, <3>2
  <2> QED BY <1>1, <2>1, <2>2
<1>8. ~(x < s)
  <2>1. x < s => content[x].text < k
    BY <1>3, <1>4, <1>5, OnePlace
  <2> QED BY <1>1, <1>3, <2>1
<1>9. s \in (m + 1)..x
  BY <1>1, <1>7, <1>8
<1>10. ~(content[s].depth >= content[m].depth)
  <2>1. raw[k].depth \in Nat /\ raw[t].depth \in Nat
    <3>1. \A l \in Line : l.depth \in Nat
      BY DEF Line
    <3>2. raw[k] \in Line /\ raw[t] \in Line
      <4> HIDE DEF t
      <4> QED BY <1>1, <1>3, ElementOf DEF Returned
    <3> QED BY <3>1, <3>2
  <2> QED BY <1>2, <1>4, <1>6, <2>1
<1> QED BY <1>4, <1>6, <1>9, <1>10 DEF Reaches

\* If no marker before it in the page is loose, none in the content reaches it.
LEMMA QuotesQuiet ==
  ASSUME Returned, NEW a \in DOMAIN raw, AtOnce(a), ~LooseFenceBefore(a),
         NEW x \in Position, content[x].text = a
  PROVE  Quiet(x)
<1>1. /\ \A m \in Position : m \in Nat /\ m >= 1
      /\ \A m \in DOMAIN raw : m \in Nat /\ m >= 1 /\ OutputAt(m) \in Nat /\ m <= OutputAt(m)
      /\ Position = 1..Len(content) /\ Len(content) \in Nat /\ Position = DOMAIN content
      /\ DOMAIN raw = 1..Len(raw) /\ Len(raw) \in Nat
  BY ReturnedLines
<1> SUFFICES ASSUME NEW m \in 1..(x - 1), Loose(m), Reaches(m, x)
             PROVE  FALSE
  BY DEF Quiet
<1>2. /\ FenceMarker(content[m]) /\ content[m].depth > 0 /\ ~Fenced(m)
      /\ ~\E n \in Position : QuotePair(m, n) \/ QuotePair(n, m)
  BY DEF Loose
<1> DEFINE t == content[m].text
<1>3. m \in Position /\ m < x
  BY <1>1
<1>4. t # 0 /\ t \in DOMAIN raw /\ content[m] = raw[t]
  <2>1. content[m].kind \notin {"text", "row"}
    BY <1>2 DEF FenceMarker
  <2> QED BY <1>3, <2>1, NotConverted
<1>5. t \in 1..(a - 1)
  <2>1. a # 0
    BY <1>1
  <2>2. t < a
    BY <1>3, <1>4, <2>1, OnePlace
  <2> HIDE DEF t
  <2> QED BY <1>1, <1>4, <2>2
<1>6. FenceMarker(raw[t]) /\ raw[t].depth > 0
  BY <1>2, <1>4
<1>7. OpenTableBefore(t) \/ ~InFence(t)
  <2>1. SUFFICES ASSUME ~OpenTableBefore(t)
                 PROVE  ~InFence(t)
    OBVIOUS
  <2>2. AtOnce(t)
    BY <1>6, <2>1 DEF AtOnce, FenceMarker, OpensTable
  <2>3. TopFences(content, m) = Fences(t)
    <3>1. OutputAt(t) = t
      BY <2>2 DEF OutputAt, Held
    <3> QED BY <1>1, <1>3, <1>4, <3>1 DEF Returned, Placed, FencesKept
  <2> QED BY <1>2, <2>3 DEF Fenced, InFence
<1>8. \A k \in (t + 1)..a : ~EndsQuote(k, raw[t].depth)
  <2>1. a # 0
    BY <1>1
  <2> QED BY <1>2, <1>3, <1>4, <2>1, QuoteEnds
<1>9. PICK n \in DOMAIN raw : QuotedFenceAt(t, n) \/ QuotedFenceAt(n, t)
  <2> HIDE DEF t
  <2> QED BY <1>5, <1>6, <1>7, <1>8 DEF LooseFenceBefore
<1>10. PICK p \in Position, r \in Position :
         /\ QuotePair(p, r)
         /\ \/ QuotedFenceAt(t, n) /\ content[p].text = t
            \/ QuotedFenceAt(n, t) /\ content[r].text = t
  <2>1. CASE QuotedFenceAt(t, n)
    BY <1>4, <2>1, QuoteStands
  <2>2. CASE QuotedFenceAt(n, t)
    BY <1>4, <2>2, QuoteStands
  <2> QED BY <1>9, <2>1, <2>2
<1>11. AtOnce(t)
  <2>1. CASE QuotedFenceAt(t, n)
    <3>1. PICK q \in 1..t : QuotedFrom(q, t, n)
      BY <2>1 DEF QuotedFenceAt, QuotedFrom
    <3>2. t < n
      BY <3>1 DEF QuotedFrom, QuotedPair
    <3>3. t \in q..n
      <4>1. t \in Nat /\ n \in Nat /\ q \in 1..t
        BY <1>1, <1>4
      <4> HIDE DEF t
      <4> QED BY <3>2, <4>1
    <3> QED BY <1>4, <3>1, <3>3, QuoteLines DEF Returned
  <2>2. CASE QuotedFenceAt(n, t)
    <3>1. PICK q \in 1..n : QuotedFrom(q, n, t)
      BY <2>2 DEF QuotedFenceAt, QuotedFrom
    <3>2. n < t
      BY <3>1 DEF QuotedFrom, QuotedPair
    <3>3. t \in q..t
      <4>1. t \in Nat /\ n \in Nat /\ q \in 1..n
        BY <1>1, <1>4
      <4> HIDE DEF t
      <4> QED BY <3>2, <4>1
    <3> QED BY <1>4, <3>1, <3>3, QuoteLines DEF Returned
  <2> QED BY <1>9, <2>1, <2>2
<1>12. ~(t < t)
  <2>1. t \in Nat
    BY <1>1, <1>4
  <2> HIDE DEF t
  <2> QED BY <2>1
<1>13. \A k \in Position : content[k].text = t => k = m
  <2> SUFFICES ASSUME NEW k \in Position, content[k].text = t
               PROVE  k = m
    OBVIOUS
  <2>1. ~(k < m)
    <3>1. k < m => t < t
      BY <1>3, <1>4, <1>11, OnePlace
    <3> QED BY <1>12, <3>1
  <2>2. ~(m < k)
    <3>1. m < k => t < t
      BY <1>3, <1>4, <1>11, OnePlace
    <3> QED BY <1>12, <3>1
  <2> QED BY <1>1, <1>3, <2>1, <2>2
<1> QED BY <1>2, <1>10, <1>13

LEMMA QuoteTies ==
  ASSUME Returned, NEW a \in DOMAIN raw, NEW b \in DOMAIN raw, QuotedFenceAt(a, b),
         ~LooseFenceBefore(a),
         NEW i \in Position, NEW j \in Position,
         content[i].text \in a..b, content[j].text \in a..b,
         NEW z \in Position, i < z, z <= j
  PROVE  Tied(z)
<1>1. /\ \A m \in Position : m \in Nat /\ m >= 1
      /\ \A m \in DOMAIN raw : m \in Nat /\ m >= 1
      /\ DOMAIN raw = 1..Len(raw) /\ Len(raw) \in Nat
  BY ReturnedLines
<1>2. PICK q \in 1..a : QuotedFrom(q, a, b)
  BY DEF QuotedFenceAt, QuotedFrom
<1>3. a \in Nat /\ b \in Nat /\ a \in a..b /\ b \in a..b /\ \A m \in a..b : m \in q..b
  <2>1. a < b
    BY <1>2 DEF QuotedFrom, QuotedPair
  <2> QED BY <1>1, <2>1
<1>4. \A m \in a..b : AtOnce(m) /\ m # 0
  BY <1>2, <1>3, QuoteLines DEF Returned
<1>5. PICK x \in Position, n \in Position :
         content[x].text = a /\ content[n].text = b /\ QuotePair(x, n)
  BY QuoteStands
<1>6. Quiet(x)
  BY <1>3, <1>4, <1>5, QuotesQuiet
<1>7. ~(i < x)
  <2>1. i < x => content[i].text < a
    BY <1>3, <1>4, <1>5, OnePlace
  <2>2. ~(content[i].text < a)
    BY <1>3
  <2> QED BY <2>1, <2>2
<1>8. ~(n < j)
  <2>1. n < j => b < content[j].text
    BY <1>3, <1>4, <1>5, OnePlace
  <2>2. ~(b < content[j].text)
    BY <1>3
  <2> QED BY <2>1, <2>2
<1>9. x < z /\ z <= n
  BY <1>1, <1>7, <1>8
<1> QED BY <1>5, <1>6, <1>9 DEF Tied

-------------------------------------------------------------------------------
(* The theorems *)

\* CleanerInv is inductive; cleaning needs no tokenizer.
LEMMA CleaningKeeps == Spec => [](CleanTypeOK /\ CleanerInv)
<1>1. Init => CleanTypeOK /\ (skippingSwitchBranch => insideFence) /\ CleanerInv
  BY CleanerInit
<1>2. CleanTypeOK /\ (skippingSwitchBranch => insideFence) /\ CleanerInv /\ [Next]_vars
        => CleanTypeOK' /\ (skippingSwitchBranch => insideFence)' /\ CleanerInv'
  BY CleanerStep
<1> QED BY <1>1, <1>2, PTL DEF Spec

\* Whatever the pages, a line survives cleaning unless it may go (it is blank, a
\* directive, of the JavaScript half of an example, or stands in a table with rows and is
\* none of those kept), and the lines that do keep the order of the page, unless a marker
\* or a header row overtakes the table it stands in.
THEOREM LinesSurvive == Spec => []LinesSurviveCleaning
<1>1. CleanTypeOK /\ CleanerInv => LinesSurviveCleaning
  BY DEF CleanerInv, ContentKept, LinesSurviveCleaning, JustCleaned
<1> QED BY <1>1, CleaningKeeps, PTL

\* Whatever the pages, no line of the JavaScript half of an example is left: a second
\* @@switch, a heading or a table in it does not end it, only the end of the fence does.
THEOREM JavaScriptIsGone == Spec => []JavaScriptIsDropped
<1>1. CleanTypeOK /\ CleanerInv => JavaScriptIsDropped
  BY DEF CleanerInv, ContentKept, JavaScriptIsDropped, JustCleaned
<1> QED BY <1>1, CleaningKeeps, PTL

\* The pieces of a finished page that bear a line of it: a heading of the content, or a
\* line of a chunk.
Indexed(i) ==
    \E k \in DOMAIN content :
        /\ content[k].text = i
        /\ Heading(content[k]) \/ \E c \in DOMAIN chunks : k \in chunks[c].lines

\* From the page to its chunks: with a tokenizer that counts, a line that may not go is
\* a heading of the cleaned content or lies in a chunk.
THEOREM PagesAreIndexed ==
  Tokenizes => (Spec => [](stage = "done" => \A i \in DOMAIN raw : MayGo(i) \/ Indexed(i)))
<1> SUFFICES ASSUME Tokenizes
             PROVE  Spec => [](stage = "done" => \A i \in DOMAIN raw : MayGo(i) \/ Indexed(i))
  OBVIOUS
<1>1. TypeOK /\ CleanerInv /\ EveryLineOnceInOrder =>
         (stage = "done" => \A i \in DOMAIN raw : MayGo(i) \/ Indexed(i))
  <2> SUFFICES ASSUME TypeOK, CleanerInv, EveryLineOnceInOrder, stage = "done",
                      NEW i \in DOMAIN raw, ~MayGo(i)
               PROVE  Indexed(i)
    OBVIOUS
  <2>1. content = output /\ ContentKept(content)
    BY DEF TypeOK, CleanerInv
  <2>2. PICK k \in DOMAIN content : content[k].text = i
    BY <2>1 DEF ContentKept, HasLine
  <2>3. ~Blank(content[k])
    BY <2>1, <2>2 DEF ContentKept, MayGo
  <2>4. Heading(content[k]) \/ \E c \in DOMAIN chunks : k \in chunks[c].lines
    BY <2>3 DEF EveryLineOnceInOrder
  <2> QED BY <2>2, <2>4 DEF Indexed
<1>2. Spec => []TypeOK
  BY TypeCorrect
<1>3. Spec => []EveryLineOnceInOrder
  BY NothingLost
<1>4. Spec => [](CleanTypeOK /\ CleanerInv)
  BY CleaningKeeps
<1> QED BY <1>1, <1>2, <1>3, <1>4, PTL

\* The lines of a region lie in one chunk if any two of them are tied together.
LEMMA TiedRegion ==
  ASSUME TypeInv, DocumentInv, WholeInv, stage = "done",
         NEW a \in DOMAIN raw, NEW b \in DOMAIN raw,
         \A i, j, z \in Position :
            content[i].text \in a..b /\ content[j].text \in a..b /\ i < z /\ z <= j => Tied(z)
  PROVE  OneChunk(a, b)
<1>1. ChunkTypeOK
  BY DEF TypeInv, TypeOK
<1>2. /\ \A k \in Position : k \in Int
      /\ \A c \in DOMAIN chunks : chunks[c].lines \in SUBSET Position
  <2>1. \A k \in Position : k \in Int
    BY <1>1, ContentLines
  <2>2. chunks \in Seq([lines : SUBSET Position, path : Seq(Position), tokens : Nat])
    BY <1>1 DEF ChunkTypeOK
  <2>3. \A c \in DOMAIN chunks :
           chunks[c] \in [lines : SUBSET Position, path : Seq(Position), tokens : Nat]
    BY <2>2, ElementOf
  <2> QED BY <2>1, <2>3
<1>3. ASSUME NEW c \in DOMAIN chunks, NEW d \in DOMAIN chunks,
             NEW i \in chunks[c].lines, NEW j \in chunks[d].lines, i <= j,
             content[i].text \in a..b, content[j].text \in a..b
      PROVE  c = d
  <2>1. i \in Position /\ j \in Position
    BY <1>2
  <2>2. \A z \in Position : i < z /\ z <= j => Tied(z)
    BY <1>3, <2>1
  <2> QED BY <1>3, <2>2, TiedLinesInOneChunk
<1>4. ASSUME NEW c \in DOMAIN chunks, NEW d \in DOMAIN chunks,
             NEW i \in chunks[c].lines, NEW j \in chunks[d].lines,
             content[i].text \in a..b, content[j].text \in a..b
      PROVE  c = d
  <2>1. i \in Int /\ j \in Int
    BY <1>2
  <2>2. CASE i <= j
    BY <1>3, <1>4, <2>2
  <2>3. CASE j <= i
    BY <1>3, <1>4, <2>3
  <2> QED BY <2>1, <2>2, <2>3
<1> QED BY <1>4 DEF OneChunk

\* All that was found of the cleaner and of the chunker, together: it is inductive.
RegionInv == TypeInv /\ DocumentInv /\ WholeInv /\ CleanerInv /\ PlacedInv

LEMMA RegionsKeep == Tokenizes => (Spec => []RegionInv)
<1> SUFFICES ASSUME Tokenizes
             PROVE  Spec => []RegionInv
  OBVIOUS
<1>1. Init => RegionInv
  BY TypeInit, DocumentInvInit, WholeInit, CleanerInit, PlacedInit DEF RegionInv
<1>2. RegionInv /\ [Next]_vars => RegionInv'
  <2>1. TypeInv => CleanTypeOK /\ (skippingSwitchBranch => insideFence)
    BY DEF TypeInv, TypeOK
  <2> QED BY <2>1, TypeStep, DocumentInvStep, WholeStep, CleanerStep, PlacedNextStep
          DEF RegionInv
<1> QED BY <1>1, <1>2, PTL DEF Spec

\* Once the page is chunked, with a tokenizer that counts.
LEMMA RegionsDone ==
  ASSUME RegionInv, stage = "done"
  PROVE  Returned /\ ChunkTypeOK /\ TypeInv /\ DocumentInv /\ WholeInv
<1>1. TypeOK /\ TypeInv /\ DocumentInv /\ WholeInv /\ CleanerInv /\ PlacedInv
  BY DEF RegionInv, TypeInv
<1>2. Returned
  BY <1>1, ReturnedContent
<1> QED BY <1>1, <1>2 DEF TypeOK

\* Whatever the pages, with a tokenizer that counts: the lines of a fence of the page lie
\* in one chunk, unless a table before it was left open.  Cleaning moves no line into or
\* out of a fence and no fence marker, no heading in a fence begins a section, and no
\* flush, merger or cut parts its lines, however long it is.
THEOREM FencesAreWhole == Tokenizes => (Spec => []FencesStayWhole)
<1> SUFFICES ASSUME Tokenizes
             PROVE  Spec => []FencesStayWhole
  OBVIOUS
<1>1. RegionInv => FencesStayWhole
  <2> SUFFICES ASSUME RegionInv, stage = "done",
                      NEW a \in DOMAIN raw, NEW b \in DOMAIN raw,
                      FenceAt(a, b), ~OpenTableBefore(a)
               PROVE  OneChunk(a, b)
    BY DEF FencesStayWhole
  <2>1. Returned /\ TypeInv /\ DocumentInv /\ WholeInv
    BY RegionsDone
  <2>2. ASSUME NEW i \in Position, NEW j \in Position, NEW z \in Position,
               content[i].text \in a..b, content[j].text \in a..b, i < z, z <= j
        PROVE  Tied(z)
    BY <2>1, <2>2, FenceTies
  <2> QED BY <2>1, <2>2, TiedRegion
<1> QED BY <1>1, RegionsKeep, PTL

\* Whatever the pages, with a tokenizer that counts: the lines of a table lie in one
\* chunk, as tags, as rows or as the pipe table that cleaning makes of them, if they are
\* within the bound of a table and the tables before it were closed.
THEOREM TablesAreWhole == Tokenizes => (Spec => []TablesStayWhole)
<1> SUFFICES ASSUME Tokenizes
             PROVE  Spec => []TablesStayWhole
  OBVIOUS
<1>1. RegionInv => TablesStayWhole
  <2> SUFFICES ASSUME RegionInv, stage = "done",
                      NEW a \in DOMAIN raw, NEW b \in DOMAIN raw,
                      \/ RowsWithinBound /\ (RowsAt(a, b) \/ PipeTableAt(a, b))
                      \/ TagTableAt(a, b) /\ WithinBound(a, b),
                      ~OpenTableBefore(a), ~MistakenTableBefore(a)
               PROVE  OneChunk(a, b)
    BY DEF TablesStayWhole
  <2>1. Returned /\ ChunkTypeOK /\ TypeInv /\ DocumentInv /\ WholeInv
    BY RegionsDone
  <2>2. ASSUME NEW i \in Position, NEW j \in Position, NEW z \in Position,
               content[i].text \in a..b, content[j].text \in a..b, i < z, z <= j
        PROVE  Tied(z)
    <3>1. a <= b
      <4>1. a \in Int /\ b \in Int
        BY <2>1 DEF Returned
      <4> QED BY <2>2, <4>1
    <3>2. CASE RowsWithinBound /\ (RowsAt(a, b) \/ PipeTableAt(a, b))
      BY <2>1, <2>2, <3>1, <3>2, RowsTie
    <3>3. CASE TagTableAt(a, b) /\ WithinBound(a, b)
      BY <2>1, <2>2, <3>1, <3>3, TagTableTies
    <3> QED BY <3>2, <3>3
  <2> QED BY <2>1, <2>2, TiedRegion
<1> QED BY <1>1, RegionsKeep, PTL

\* Whatever the pages, with a tokenizer that counts: a fence in a blockquote, which the
\* cleaner does not see, lies in one chunk, after prose and other fences of the quote too.
\* The quote may hold no table before the end of the fence, and no marker deeper than its
\* own; and if a quoted marker before it has no counterpart, something must end the quote
\* of that marker: a line that survives cleaning, is less deep and is no heading.
THEOREM QuotedFencesAreWhole == Tokenizes => (Spec => []QuotedFencesStayWhole)
<1> SUFFICES ASSUME Tokenizes
             PROVE  Spec => []QuotedFencesStayWhole
  OBVIOUS
<1>1. RegionInv => QuotedFencesStayWhole
  <2> SUFFICES ASSUME RegionInv, stage = "done",
                      NEW a \in DOMAIN raw, NEW b \in DOMAIN raw,
                      QuotedFenceAt(a, b), ~LooseFenceBefore(a)
               PROVE  OneChunk(a, b)
    BY DEF QuotedFencesStayWhole
  <2>1. Returned /\ TypeInv /\ DocumentInv /\ WholeInv
    BY RegionsDone
  <2>2. ASSUME NEW i \in Position, NEW j \in Position, NEW z \in Position,
               content[i].text \in a..b, content[j].text \in a..b, i < z, z <= j
        PROVE  Tied(z)
    BY <2>1, <2>2, QuoteTies
  <2> QED BY <2>1, <2>2, TiedRegion
<1> QED BY <1>1, RegionsKeep, PTL

\* Whatever the pages, with a tokenizer that counts: from the raw page to its chunks, no
\* fence, table or quoted fence is torn apart, but for the exceptions the three name.
THEOREM RegionsAreWhole == Tokenizes => (Spec => []RegionsStayWhole)
<1> SUFFICES ASSUME Tokenizes
             PROVE  Spec => []RegionsStayWhole
  OBVIOUS
<1>1. FencesStayWhole /\ TablesStayWhole /\ QuotedFencesStayWhole => RegionsStayWhole
  BY DEF RegionsStayWhole
<1> QED BY <1>1, FencesAreWhole, TablesAreWhole, QuotedFencesAreWhole, PTL
===============================================================================
