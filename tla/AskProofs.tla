------------------------------- MODULE AskProofs ------------------------------
(***************************************************************************)
(* Theorems about Ask, for any number of requests, sources and chunks.     *)
(***************************************************************************)
EXTENDS Ask, CorpusProofs

-------------------------------------------------------------------------------
(* Type correctness *)

\* A change of the corpus leaves a corpus.
LEMMA CorpusTyped ==
  ASSUME CorpusTypeOK, mark \in Nat, born \subseteq Chunk, CorpusChanges
  PROVE  CorpusTypeOK' /\ mark' \in Nat /\ born' \subseteq Chunk
<1> USE DEF CorpusTypeOK
<1>1. CASE Tick /\ UNCHANGED <<born, mark>>
  BY <1>1 DEF Tick
<1>2. ASSUME NEW s \in Source, Rewrite(s, {}) /\ UNCHANGED <<born, mark>>
      PROVE  CorpusTypeOK' /\ mark' \in Nat /\ born' \subseteq Chunk
  BY <1>2 DEF Rewrite
<1>3. ASSUME NEW s \in Source, NEW c \in Chunk \ born,
             Rewrite(s, content[s] \cup {c}) /\ born' = born \cup {c} /\ UNCHANGED mark
      PROVE  CorpusTypeOK' /\ mark' \in Nat /\ born' \subseteq Chunk
  BY <1>3 DEF Rewrite
<1>4. ASSUME NEW s \in Source, NEW t \in Stamps,
             Publish(s, t) /\ mark' = t + 1 /\ UNCHANGED born
      PROVE  CorpusTypeOK' /\ mark' \in Nat /\ born' \subseteq Chunk
  <2>1. t \in Nat
    BY DEF Stamps
  <2> QED BY <1>4, <2>1 DEF Publish
<1>5. ASSUME NEW s \in Source, Withdraw(s) \/ Remove(s), UNCHANGED <<born, mark>>
      PROVE  CorpusTypeOK' /\ mark' \in Nat /\ born' \subseteq Chunk
  BY <1>5 DEF Withdraw, Remove
<1> QED BY <1>1, <1>2, <1>3, <1>4, <1>5 DEF CorpusChanges

Labels == {"idle", "version", "lookup", "embed", "search", "llm", "record", "retry",
           "cache"} \cup Ended
RowType == [request : Request, text : {None, "text"}, grounded : BOOLEAN,
            cites : SUBSET Chunk, cost : {None, "cached", "billed"}, retried : BOOLEAN]

\* The variables of the requests.
LEMMA LeaveTyped ==
  ASSUME TypeOK, NEW r \in Request, NEW label \in Labels, Leave(r, label)
  PROVE  /\ pc' \in [Request -> Labels]
         /\ kind' \in [Request -> {None, "json", "sse"}]
         /\ key' \in [Request -> {None} \cup Version]
         /\ byVector' \in [Request -> {None} \cup SUBSET Chunk]
         /\ byText' \in [Request -> {None} \cup SUBSET Chunk]
         /\ hit' \in [Request -> BOOLEAN]
BY DEF Leave, Goto, Labels, memory, TypeOK

\* What a client has been sent.
LEMMA SendTyped ==
  ASSUME TypeOK, NEW r \in Request,
         NEW events \in SUBSET {"citations", "token", "done", "error"}, Send(r, events)
  PROVE  sent' \in [Request -> SUBSET {"citations", "token", "done", "error"}]
BY DEF Send, TypeOK

\* What a request records.
LEMMA RowTyped ==
  ASSUME TypeOK, NEW r \in Request, NEW cites \in SUBSET Chunk, NEW retried \in BOOLEAN
  PROVE  Row(r, cites, retried) \in RowType
BY DEF TypeOK, Answer, Row, RowType, StoredText, CostOf

\* A step of a request leaves the corpus alone.
LEMMA CorpusStays ==
  ASSUME TypeOK, UNCHANGED corpus
  PROVE  CorpusTypeOK' /\ mark' \in Nat /\ born' \subseteq Chunk
BY DEF TypeOK, corpus, corpusVars, CorpusTypeOK

\* Every step keeps every variable in its type.
LEMMA TypeStep ==
  ASSUME AskInv, [Next]_vars
  PROVE  TypeOK'
<1> USE DEF TypeOK, locals, memory, Goto
<1>0. TypeOK
  BY DEF AskInv
<1>1. CASE CorpusChanges
  <2>1. CorpusTypeOK' /\ mark' \in Nat /\ born' \subseteq Chunk
    BY <1>0, <1>1, CorpusTyped
  <2>2. rows' \subseteq RowType
    BY <1>0, <1>1 DEF CorpusChanges, Cascade, RowType
  <2> QED BY <1>0, <1>1, <2>1, <2>2 DEF CorpusChanges, RowType
<1>2. ASSUME NEW e \in cache, Expire(e)
      PROVE  TypeOK'
  BY <1>0, <1>2, CorpusStays DEF Expire
<1>3. ASSUME NEW r \in Request, Arrive(r)
      PROVE  TypeOK'
  BY <1>0, <1>3, CorpusStays DEF Arrive
<1>4. ASSUME NEW r \in Request, ReadVersion(r)
      PROVE  TypeOK'
  BY <1>0, <1>4, CorpusStays, VersionTyped DEF ReadVersion, Version
<1>5. ASSUME NEW r \in Request, LookUpHits(r)
      PROVE  TypeOK'
  <2>1. PICK e \in cache : answer' = [answer EXCEPT ![r] = e.answer]
    BY <1>0, <1>5 DEF LookUpHits
  <2>2. e.answer \in Answer /\ (~e.answer.grounded => e.answer = NoAnswer)
    BY <1>0 DEF AskInv, EntryInv
  <2>3. /\ answer' \in [Request -> Answer]
        /\ \A q \in Request : ~answer'[q].grounded => answer'[q] = NoAnswer
    BY <1>0, <2>1, <2>2
  <2>4. sent' \in [Request -> SUBSET {"citations", "token", "done", "error"}]
    BY <1>0, <1>5 DEF LookUpHits, Send
  <2> QED BY <1>0, <1>5, <2>3, <2>4, CorpusStays DEF LookUpHits
<1>6. ASSUME NEW r \in Request, LookUpMisses(r) \/ Embed(r)
      PROVE  TypeOK'
  BY <1>0, <1>6, CorpusStays DEF LookUpMisses, Embed
<1>7. ASSUME NEW r \in Request, SearchByVector(r) \/ SearchByText(r)
      PROVE  TypeOK'
  <2>1. version \in Version /\ Visible \subseteq Chunk
    BY <1>0, VersionTyped DEF Version
  <2>2. /\ byVector' \in [Request -> {None} \cup SUBSET Chunk]
        /\ byText' \in [Request -> {None} \cup SUBSET Chunk]
    BY <1>0, <1>7, <2>1 DEF SearchByVector, SearchByText
  <2>3. ran' \in [Request -> SUBSET [version : Version, visible : SUBSET Chunk]]
    <3>1. Today \in [version : Version, visible : SUBSET Chunk]
      BY <2>1 DEF Today
    <3> QED BY <1>0, <1>7, <3>1 DEF SearchByVector, SearchByText
  <2> QED BY <1>0, <1>7, <2>2, <2>3, CorpusStays DEF SearchByVector, SearchByText
<1>8. ASSUME NEW r \in Request, Refuse(r)
      PROVE  TypeOK'
  BY <1>0, <1>8, CorpusStays DEF Refuse, Send, SearchReturns
<1>9. ASSUME NEW r \in Request, Ground(r)
      PROVE  TypeOK'
  <2>1. PICK C \in Fused(r) :
           answer' = [answer EXCEPT ![r] =
                         [text |-> "empty", grounded |-> TRUE, chunks |-> C]]
    BY <1>0, <1>9 DEF Ground
  <2>2. C \in SUBSET Chunk
    BY <1>0, <1>9, <2>1 DEF Fused, Ground, Searched
  <2>3. /\ answer' \in [Request -> Answer]
        /\ \A q \in Request : ~answer'[q].grounded => answer'[q] = NoAnswer
    BY <1>0, <2>1, <2>2 DEF Answer
  <2>4. /\ sent' \in [Request -> SUBSET {"citations", "token", "done", "error"}]
        /\ byVector' \in [Request -> {None} \cup SUBSET Chunk]
        /\ byText' \in [Request -> {None} \cup SUBSET Chunk]
    BY <1>0, <1>9 DEF Ground, Send, SearchReturns
  <2> QED BY <1>0, <1>9, <2>3, <2>4, CorpusStays DEF Ground, SearchReturns
<1>10. ASSUME NEW r \in Request, LlmAnswers(r) \/ LlmStreams(r)
       PROVE  TypeOK'
  <2>1. PICK t \in {"text", "empty"} :
           answer' = answer \/ answer' = [answer EXCEPT ![r].text = t]
    BY <1>0, <1>10 DEF LlmAnswers, LlmStreams
  <2>2. answer[r] \in Answer /\ answer[r].grounded
    BY <1>0, <1>10 DEF AskInv, ProgressInv, LlmAnswers, LlmStreams
  <2>3. /\ [answer[r] EXCEPT !.text = t] \in Answer
        /\ [answer[r] EXCEPT !.text = t].grounded
    BY <2>2 DEF Answer
  <2>4. /\ answer' \in [Request -> Answer]
        /\ \A q \in Request : ~answer'[q].grounded => answer'[q] = NoAnswer
    BY <1>0, <2>1, <2>2, <2>3
  <2>5. sent' \in [Request -> SUBSET {"citations", "token", "done", "error"}]
    BY <1>0, <1>10 DEF LlmAnswers, LlmStreams, Send
  <2> QED BY <1>0, <1>10, <2>4, <2>5, CorpusStays DEF LlmAnswers, LlmStreams
<1>12. ASSUME NEW r \in Request, Record(r) \/ RecordRefused(r) \/ RecordFails(r)
                                 \/ RecordBare(r) \/ BareFails(r)
       PROVE  TypeOK'
  <2>1. PICK label \in Labels : Leave(r, label)
    BY <1>0, <1>12
       DEF Record, RecordRefused, RecordFails, RecordBare, BareFails, Onward, Labels,
           Ended
  <2>2. rows' \subseteq RowType
    <3>1. Row(r, answer[r].chunks, FALSE) \in RowType /\ Row(r, {}, TRUE) \in RowType
      <4>1. answer[r].chunks \in SUBSET Chunk /\ {} \in SUBSET Chunk
        BY <1>0 DEF Answer
      <4> HIDE DEF TypeOK
      <4> QED BY <1>0, <4>1, RowTyped
    <3> QED BY <1>0, <1>12, <3>1
       DEF Record, RecordRefused, RecordFails, RecordBare, BareFails, RowType
  <2>3. UNCHANGED <<corpus, cache, answer, sent, view, ran>> /\ failed' \subseteq Request
    BY <1>0, <1>12 DEF Record, RecordRefused, RecordFails, RecordBare, BareFails
  <2> QED BY <1>0, <2>1, <2>2, <2>3, CorpusStays, LeaveTyped DEF RowType, Labels
<1>13. ASSUME NEW r \in Request, WriteCache(r)
       PROVE  TypeOK'
  <2>1. Leave(r, "done")
    BY <1>0, <1>13 DEF WriteCache
  <2>2. key[r] \in Version
    BY <1>0, <1>13 DEF AskInv, ProgressInv, WriteCache, Ended
  <2>3. cache' \subseteq [key : Version, answer : Answer, by : Request]
    BY <1>0, <1>13, <2>2 DEF WriteCache, FiledUnder
  <2> QED BY <1>0, <1>13, <2>1, <2>3, CorpusStays, LeaveTyped
     DEF WriteCache, Labels, Ended
<1>14. ASSUME NEW r \in Request, Fails(r) \/ Abandon(r)
       PROVE  TypeOK'
  <2>1. PICK label \in Labels : Leave(r, label)
    BY <1>0, <1>14 DEF Fails, Abandon, AfterCatch, Labels, Ended
  <2>2. sent' \in [Request -> SUBSET {"citations", "token", "done", "error"}]
    BY <1>0, <1>14 DEF Fails, Abandon
  <2> QED BY <1>0, <1>14, <2>1, <2>2, CorpusStays, LeaveTyped DEF Fails, Abandon, Labels
<1>15. CASE UNCHANGED vars
  BY <1>0, <1>15, CorpusStays DEF vars
<1> QED BY <1>0, <1>1, <1>2, <1>3, <1>4, <1>5, <1>6, <1>7, <1>8, <1>9, <1>10, <1>12,
           <1>13, <1>14, <1>15
       DEF Next, Advance, AwaitsCache, AwaitsOther

-------------------------------------------------------------------------------
(* What corpora there have been *)

\* What is ready stays as it was or is stamped later than anything before, and no chunk
\* that is gone comes back.
Continues ==
  /\ mark <= mark'
  /\ born \subseteq born'
  /\ Stored' \cap born \subseteq Stored
  /\ Stored' \subseteq born'
  /\ \A s \in Ready(stamp') :
        /\ stamp'[s] < mark'
        /\ \/ s \in Ready(stamp) /\ stamp'[s] = stamp[s] /\ content'[s] = content[s]
           \/ mark <= stamp'[s]

\* No change of the corpus does otherwise.
LEMMA CorpusContinues ==
  ASSUME TypeOK, CorpusInv, CorpusChanges
  PROVE  Continues
<1> USE DEF Continues, CorpusTypeOK, CorpusInv, Stored, Ready
<1>0. /\ now \in Nat /\ mark \in Nat /\ born \subseteq Chunk
      /\ content \in [Source -> SUBSET Chunk]
      /\ stamp \in [Source -> Nat \cup {Hidden}]
  BY DEF TypeOK
<1>1. CASE Tick /\ UNCHANGED <<born, mark>>
  BY <1>0, <1>1 DEF Tick
<1>2. ASSUME NEW s \in Source, Rewrite(s, {}) /\ UNCHANGED <<born, mark>>
      PROVE  Continues
  BY <1>0, <1>2 DEF Rewrite
<1>3. ASSUME NEW s \in Source, NEW c \in Chunk \ born,
             Rewrite(s, content[s] \cup {c}) /\ born' = born \cup {c} /\ UNCHANGED mark
      PROVE  Continues
  BY <1>0, <1>3 DEF Rewrite
<1>4. ASSUME NEW s \in Source, NEW t \in Stamps,
             mark <= t /\ Publish(s, t) /\ mark' = t + 1 /\ UNCHANGED born
      PROVE  Continues
  <2>1. t \in Nat /\ t < t + 1
    BY <1>0 DEF Stamps
  <2> QED BY <1>0, <1>4, <2>1 DEF Publish
<1>5. ASSUME NEW s \in Source, Withdraw(s) \/ Remove(s), UNCHANGED <<born, mark>>
      PROVE  Continues
  BY <1>0, <1>5 DEF Withdraw, Remove
<1> QED BY <1>1, <1>2, <1>3, <1>4, <1>5 DEF CorpusChanges

\* A corpus there has been is remembered whatever happens to the corpus.
LEMMA KnownStays ==
  ASSUME TypeOK, TypeOK', Continues, NEW k, NEW V, Known(k, V)
  PROVE  Known(k, V)'
<1> USE DEF TypeOK, CorpusTypeOK
<1>1. PICK f \in [Source -> (0..mark) \cup {Hidden}], c \in [Source -> SUBSET Chunk] :
        /\ VersionOf(f) = k
        /\ V = UNION {c[s] : s \in Ready(f)}
        /\ \A s \in Ready(f) : f[s] < mark
        /\ \A s \in Ready(stamp), t \in Ready(f) :
              stamp[s] <= f[t] => s \in Ready(f) /\ f[s] = stamp[s] /\ c[s] = content[s]
  BY DEF Known
<1>2. f \in [Source -> (0..mark') \cup {Hidden}]
  BY DEF Continues
<1>3. \A s \in Ready(f) : f[s] < mark' /\ f[s] \in Nat
  BY <1>1 DEF Continues, Ready
<1>4. stamp' \in [Source -> Nat \cup {Hidden}]
  OBVIOUS
<1>5. \A s \in Ready(stamp'), t \in Ready(f) :
         stamp'[s] <= f[t] => s \in Ready(f) /\ f[s] = stamp'[s] /\ c[s] = content'[s]
  <2> SUFFICES ASSUME NEW s \in Ready(stamp'), NEW t \in Ready(f), stamp'[s] <= f[t]
               PROVE  s \in Ready(f) /\ f[s] = stamp'[s] /\ c[s] = content'[s]
    OBVIOUS
  <2>1. CASE s \in Ready(stamp) /\ stamp'[s] = stamp[s] /\ content'[s] = content[s]
    BY <1>1, <2>1
  <2>2. ASSUME mark <= stamp'[s]
        PROVE  FALSE
    <3>1. f[t] \in Nat /\ mark \in Nat /\ f[t] < mark
      BY <1>1, <1>3
    <3>2. stamp'[s] \in Nat
      BY <1>4 DEF Ready
    <3> QED BY <2>2, <3>1, <3>2
  <2> QED BY <2>1, <2>2 DEF Continues
<1> QED BY <1>1, <1>2, <1>3, <1>5 DEF Known

\* The corpus there is.
LEMMA KnownNow ==
  ASSUME TypeOK, CorpusInv
  PROVE  Known(version, Visible)
<1>1. /\ stamp \in [Source -> (0..mark) \cup {Hidden}]
      /\ content \in [Source -> SUBSET Chunk]
  BY DEF TypeOK, CorpusTypeOK, CorpusInv, Ready
<1>2. \A s \in Ready(stamp) : stamp[s] < mark
  BY DEF CorpusInv
<1> QED BY <1>1, <1>2 DEF Known, version, Visible

\* Of the version there is, only one corpus is known.
LEMMA KnownAgrees ==
  ASSUME TypeOK, CorpusInv, NEW V, Known(version, V)
  PROVE  V = Visible
<1>1. PICK f \in [Source -> (0..mark) \cup {Hidden}], c \in [Source -> SUBSET Chunk] :
        /\ VersionOf(f) = version
        /\ V = UNION {c[s] : s \in Ready(f)}
        /\ \A s \in Ready(f) : f[s] < mark
        /\ \A s \in Ready(stamp), t \in Ready(f) :
              stamp[s] <= f[t] => s \in Ready(f) /\ f[s] = stamp[s] /\ c[s] = content[s]
  BY DEF Known
<1>2. /\ f \in [Source -> Nat \cup {Hidden}]
      /\ stamp \in [Source -> Nat \cup {Hidden}]
      /\ mark \in Nat
  BY DEF TypeOK, CorpusTypeOK
<1>3. Ready(f) = Ready(stamp) /\ f = stamp
  <2>1. \A s \in Ready(stamp) : stamp[s] < mark
    BY DEF CorpusInv
  <2>2. VersionOf(f) = VersionOf(stamp)
    BY <1>1 DEF version
  <2> QED BY <1>1, <1>2, <2>1, <2>2, SameVersionSameStamps
<1>4. \A s \in Ready(stamp) : c[s] = content[s]
  <2>1. \A s \in Ready(stamp) : stamp[s] <= stamp[s]
    BY <1>2 DEF Ready
  <2> QED BY <1>1, <1>3, <2>1
<1> QED BY <1>1, <1>3, <1>4 DEF Visible

-------------------------------------------------------------------------------
(* What a step leaves alone *)

\* What is known does not depend on the requests.
LEMMA KnownFrame ==
  ASSUME UNCHANGED corpus, NEW k, NEW V
  PROVE  Known(k, V)' <=> Known(k, V)
BY DEF Known, corpus, corpusVars

\* None is no version.
LEMMA NoneIsNoVersion == None \notin Version
BY AskAssumption DEF Version

\* What the invariant says of one request.
RequestInv(r) == ProgressInv(r) /\ RecordInv(r) /\ OriginInv(r)

\* Request q and its rows are as before.
Untouched(q) ==
  /\ pc'[q] = pc[q] /\ key'[q] = key[q] /\ hit'[q] = hit[q]
  /\ byVector'[q] = byVector[q] /\ byText'[q] = byText[q]
  /\ answer'[q] = answer[q] /\ sent'[q] = sent[q]
  /\ view'[q] = view[q] /\ ran'[q] = ran[q]
  /\ q \in failed' <=> q \in failed
  /\ RowsOf(q)' = RowsOf(q)

\* What is true of a request stays true while others move.
LEMMA UntouchedInv ==
  ASSUME UNCHANGED corpus, NEW q \in Request, Untouched(q), RequestInv(q)
  PROVE  RequestInv(q)'
<1>1. ProgressInv(q)'
  BY DEF RequestInv, ProgressInv, Untouched, corpus, corpusVars, Stored
<1>2. RecordInv(q)'
  BY DEF RequestInv, RecordInv, Untouched
<1>3. OriginInv(q)'
  BY KnownFrame DEF RequestInv, OriginInv, RetrievedBy, Untouched
<1> QED BY <1>1, <1>2, <1>3 DEF RequestInv

\* A request still under way owns no entry, so the entries there are stay as they are.
LEMMA EntriesFrame ==
  ASSUME AskInv, UNCHANGED corpus, NEW r \in Request, pc[r] # "done",
         \A q \in Request \ {r} : Untouched(q),
         NEW e \in cache
  PROVE  EntryInv(e)'
<1>1. e.by \in Request /\ EntryInv(e)
  BY DEF AskInv, TypeOK
<1>2. Untouched(e.by)
  BY <1>1 DEF EntryInv
<1>3. born' = born
  BY DEF corpus
<1> QED BY <1>1, <1>2, <1>3, KnownFrame DEF EntryInv, RetrievedBy, Untouched, NoAnswer

\* Nor do the rows, if the request has none or its answer stays.
LEMMA RowsFrame ==
  ASSUME AskInv, UNCHANGED corpus, NEW r \in Request,
         \A q \in Request \ {r} : Untouched(q),
         RowsOf(r) = {} \/ (answer'[r] = answer[r] /\ ran'[r] = ran[r]),
         NEW w \in rows
  PROVE  Served(w)'
<1>1. w.request \in Request /\ Served(w)
  BY DEF AskInv, TypeOK
<1>2. answer'[w.request] = answer[w.request] /\ ran'[w.request] = ran[w.request]
  BY <1>1 DEF RowsOf, Untouched
<1>3. Stored' = Stored
  BY DEF corpus, corpusVars, Stored
<1> QED BY <1>1, <1>2, <1>3 DEF Served

\* So a step of request r has only its own part of the invariant to restore.
LEMMA RequestStep ==
  ASSUME AskInv, TypeOK', UNCHANGED corpus, NEW r \in Request, pc[r] # "done",
         \A q \in Request \ {r} : Untouched(q),
         RowsOf(r) = {} \/ (answer'[r] = answer[r] /\ ran'[r] = ran[r]),
         \A w \in rows' \ rows : Served(w)',
         \A e \in cache' \ cache : EntryInv(e)',
         RequestInv(r)'
  PROVE  AskInv'
<1>1. CorpusInv'
  BY DEF AskInv, CorpusInv, corpus, corpusVars, Stored
<1>2. \A q \in Request : RequestInv(q)'
  BY UntouchedInv DEF AskInv, RequestInv
<1>3. \A w \in rows' : Served(w)'
  BY RowsFrame
<1>4. \A e \in cache' : EntryInv(e)'
  BY EntriesFrame
<1> QED BY <1>1, <1>2, <1>3, <1>4 DEF AskInv, RequestInv

-------------------------------------------------------------------------------
(* The steps of a request *)

\* A request arrives.
LEMMA ArriveInv ==
  ASSUME AskInv, TypeOK', NEW r \in Request, Arrive(r)
  PROVE  AskInv'
<1> USE DEF Goto, locals, memory, Asking, Ended
<1>1. TypeOK /\ CorpusInv /\ ProgressInv(r) /\ RecordInv(r) /\ OriginInv(r)
  BY DEF AskInv
<1>2. \A p \in Request \ {r} : Untouched(p)
  BY <1>1 DEF Arrive, Untouched, RowsOf, TypeOK
<1>3. ProgressInv(r)'
  BY <1>1 DEF Arrive, ProgressInv, TypeOK, Version, corpus
<1>4. RecordInv(r)'
  BY <1>1 DEF Arrive, RecordInv, RowsOf, TypeOK
<1>5. OriginInv(r)'
  BY <1>1, KnownFrame DEF Arrive, OriginInv, RetrievedBy, TypeOK, NoAnswer
<1>6. UNCHANGED <<corpus, cache, rows>> /\ pc[r] # "done" /\ RowsOf(r) = {}
  BY <1>1 DEF Arrive, RecordInv
<1> QED BY <1>2, <1>3, <1>4, <1>5, <1>6, RequestStep DEF RequestInv

\* It reads the version: the corpus there is becomes known under it.
LEMMA ReadVersionInv ==
  ASSUME AskInv, TypeOK', NEW r \in Request, ReadVersion(r)
  PROVE  AskInv'
<1> USE DEF Goto, locals, memory, Asking, Ended
<1>1. TypeOK /\ CorpusInv /\ ProgressInv(r) /\ RecordInv(r) /\ OriginInv(r)
  BY DEF AskInv
<1>2. \A p \in Request \ {r} : Untouched(p)
  BY <1>1 DEF ReadVersion, Untouched, RowsOf, TypeOK
<1>3. ProgressInv(r)'
  BY <1>1, VersionTyped DEF ReadVersion, ProgressInv, TypeOK, Version, corpus
<1>4. RecordInv(r)'
  BY <1>1 DEF ReadVersion, RecordInv, RowsOf, TypeOK
<1>5. OriginInv(r)'
  BY <1>1, KnownFrame, KnownNow
     DEF ReadVersion, OriginInv, RetrievedBy, TypeOK, NoAnswer
<1>6. UNCHANGED <<corpus, cache, rows>> /\ pc[r] # "done" /\ RowsOf(r) = {}
  BY <1>1 DEF ReadVersion, RecordInv
<1> QED BY <1>2, <1>3, <1>4, <1>5, <1>6, RequestStep DEF RequestInv

\* It finds nothing in the cache.
LEMMA LookUpMissesInv ==
  ASSUME AskInv, TypeOK', NEW r \in Request, LookUpMisses(r)
  PROVE  AskInv'
<1> USE DEF Goto, locals, memory, Asking, Ended
<1>1. TypeOK /\ CorpusInv /\ ProgressInv(r) /\ RecordInv(r) /\ OriginInv(r)
  BY DEF AskInv
<1>2. \A p \in Request \ {r} : Untouched(p)
  BY <1>1 DEF LookUpMisses, Untouched, RowsOf, TypeOK
<1>3. ProgressInv(r)'
  BY <1>1 DEF LookUpMisses, ProgressInv, TypeOK, Version, corpus
<1>4. RecordInv(r)'
  BY <1>1 DEF LookUpMisses, RecordInv, RowsOf, TypeOK
<1>5. OriginInv(r)'
  BY <1>1, KnownFrame DEF LookUpMisses, OriginInv, RetrievedBy, TypeOK, NoAnswer
<1>6. UNCHANGED <<corpus, cache, rows>> /\ pc[r] # "done" /\ RowsOf(r) = {}
  BY <1>1 DEF LookUpMisses, RecordInv
<1> QED BY <1>2, <1>3, <1>4, <1>5, <1>6, RequestStep DEF RequestInv

\* It has the vector of the question.
LEMMA EmbedInv ==
  ASSUME AskInv, TypeOK', NEW r \in Request, Embed(r)
  PROVE  AskInv'
<1> USE DEF Goto, locals, memory, Asking, Ended
<1>1. TypeOK /\ CorpusInv /\ ProgressInv(r) /\ RecordInv(r) /\ OriginInv(r)
  BY DEF AskInv
<1>2. \A p \in Request \ {r} : Untouched(p)
  BY <1>1 DEF Embed, Untouched, RowsOf, TypeOK
<1>3. ProgressInv(r)'
  BY <1>1 DEF Embed, ProgressInv, TypeOK, Version, corpus
<1>4. RecordInv(r)'
  BY <1>1 DEF Embed, RecordInv, RowsOf, TypeOK
<1>5. OriginInv(r)'
  BY <1>1, KnownFrame DEF Embed, OriginInv, RetrievedBy, TypeOK, NoAnswer
<1>6. UNCHANGED <<corpus, cache, rows>> /\ pc[r] # "done" /\ RowsOf(r) = {}
  BY <1>1 DEF Embed, RecordInv
<1> QED BY <1>2, <1>3, <1>4, <1>5, <1>6, RequestStep DEF RequestInv

\* It is refused.
LEMMA RefuseInv ==
  ASSUME AskInv, TypeOK', NEW r \in Request, Refuse(r)
  PROVE  AskInv'
<1> USE DEF Goto, locals, memory, Asking, Ended
<1>1. TypeOK /\ CorpusInv /\ ProgressInv(r) /\ RecordInv(r) /\ OriginInv(r)
  BY DEF AskInv
<1>2. \A p \in Request \ {r} : Untouched(p)
  BY <1>1 DEF Refuse, Searched, SearchReturns, Send, Untouched, RowsOf, TypeOK
<1>3. ProgressInv(r)'
  BY <1>1
     DEF Refuse, Searched, SearchReturns, Send, ProgressInv, TypeOK, Version, corpus
<1>4. RecordInv(r)'
  BY <1>1 DEF Refuse, Searched, SearchReturns, Send, RecordInv, RowsOf, TypeOK
<1>5. OriginInv(r)'
  BY <1>1, KnownFrame
     DEF Refuse, Searched, SearchReturns, Send, OriginInv, RetrievedBy, TypeOK,
         NoAnswer, ProgressInv
<1>6. UNCHANGED <<corpus, cache, rows>> /\ pc[r] # "done" /\ RowsOf(r) = {}
  BY <1>1 DEF Refuse, Searched, SearchReturns, Send, RecordInv
<1> QED BY <1>2, <1>3, <1>4, <1>5, <1>6, RequestStep DEF RequestInv

\* It is answered from the cache, with chunks that have had their ids.
LEMMA LookUpHitsInv ==
  ASSUME AskInv, TypeOK', NEW r \in Request, LookUpHits(r)
  PROVE  AskInv'
<1> USE DEF Goto, locals, memory, Asking, Ended
<1>1. TypeOK /\ CorpusInv /\ ProgressInv(r) /\ RecordInv(r) /\ OriginInv(r)
  BY DEF AskInv
<1>2. \A p \in Request \ {r} : Untouched(p)
  BY <1>1 DEF LookUpHits, Send, Untouched, RowsOf, TypeOK
<1>3. PICK e \in cache : answer'[r] = e.answer
  BY <1>1 DEF LookUpHits, TypeOK
<1>4. answer'[r].chunks \subseteq born
  BY <1>3 DEF AskInv, EntryInv
<1>5. "error" \notin sent'[r]
  BY <1>1 DEF LookUpHits, Send, ProgressInv, TypeOK
<1>6. ProgressInv(r)'
  BY <1>1, <1>4, <1>5 DEF LookUpHits, ProgressInv, TypeOK, Version, corpus
<1>7. RecordInv(r)'
  BY <1>1, <1>5 DEF LookUpHits, RecordInv, RowsOf, TypeOK
<1>8. OriginInv(r)'
  BY <1>1, KnownFrame DEF LookUpHits, OriginInv, RetrievedBy, ProgressInv, TypeOK
<1>9. UNCHANGED <<corpus, cache, rows>> /\ pc[r] # "done" /\ RowsOf(r) = {}
  BY <1>1 DEF LookUpHits, RecordInv
<1> QED BY <1>2, <1>6, <1>7, <1>8, <1>9, RequestStep DEF RequestInv

\* It runs one of its queries against the corpus there is.
LEMMA SearchInv ==
  ASSUME AskInv, TypeOK', NEW r \in Request, SearchByVector(r) \/ SearchByText(r)
  PROVE  AskInv'
<1> USE DEF Goto, locals, memory, Asking, Ended
<1>1. TypeOK /\ CorpusInv /\ ProgressInv(r) /\ RecordInv(r) /\ OriginInv(r)
  BY DEF AskInv
<1>2. \A p \in Request \ {r} : Untouched(p)
  BY <1>1 DEF SearchByVector, SearchByText, Untouched, RowsOf, TypeOK
<1>3. Visible \subseteq born
  BY <1>1 DEF CorpusInv, Stored, Visible, Ready, TypeOK, CorpusTypeOK
<1>4. PICK F \in SUBSET Visible :
         \/ byVector'[r] = F /\ byText'[r] = byText[r]
         \/ byText'[r] = F /\ byVector'[r] = byVector[r]
  BY <1>1 DEF SearchByVector, SearchByText, TypeOK
<1>5. ran'[r] = ran[r] \cup {Today} /\ ran'[r] # {}
  BY <1>1 DEF SearchByVector, SearchByText, TypeOK
<1>6. ProgressInv(r)'
  BY <1>1, <1>3, <1>4, <1>5
     DEF SearchByVector, SearchByText, ProgressInv, TypeOK, Version, corpus
<1>7. RecordInv(r)'
  BY <1>1 DEF SearchByVector, SearchByText, RecordInv, RowsOf, TypeOK
<1>8. OriginInv(r)'
  <2>1. /\ Today.visible = Visible
        /\ Known(Today.version, Today.visible)
    BY <1>1, KnownNow DEF Today
  <2>2. UNCHANGED corpus /\ pc'[r] = "search" /\ view'[r] = view[r] /\ key'[r] = key[r]
    BY <1>1 DEF SearchByVector, SearchByText
  <2>3. \A k \in ran'[r] : Known(k.version, k.visible)'
    BY <1>1, <1>5, <2>1, <2>2, KnownFrame DEF OriginInv
  <2>4. \A C \in SUBSET Visible : RetrievedBy(r, C)'
    BY <1>5, <2>1 DEF RetrievedBy
  <2>5. ASSUME NEW C, RetrievedBy(r, C)
        PROVE  RetrievedBy(r, C)'
    BY <1>5, <2>5 DEF RetrievedBy
  <2>6. byVector'[r] # None => RetrievedBy(r, byVector[r])'
    BY <1>1, <1>4, <2>4, <2>5 DEF OriginInv
  <2>7. byText'[r] # None => RetrievedBy(r, byText[r])'
    BY <1>1, <1>4, <2>4, <2>5 DEF OriginInv
  <2>8. key[r] # None => Known(key[r], view[r])'
    BY <1>1, <2>2, KnownFrame DEF OriginInv
  <2> QED BY <2>2, <2>3, <2>6, <2>7, <2>8 DEF OriginInv
<1>9. UNCHANGED <<corpus, cache, rows>> /\ pc[r] # "done" /\ RowsOf(r) = {}
  BY <1>1 DEF SearchByVector, SearchByText, RecordInv
<1> QED BY <1>2, <1>6, <1>7, <1>8, <1>9, RequestStep DEF RequestInv

\* Some of what it found is kept as the answer's citations.
LEMMA GroundInv ==
  ASSUME AskInv, TypeOK', NEW r \in Request, Ground(r)
  PROVE  AskInv'
<1> USE DEF Goto, locals, memory, Asking, Ended
<1>1. TypeOK /\ CorpusInv /\ ProgressInv(r) /\ RecordInv(r) /\ OriginInv(r)
  BY DEF AskInv
<1>2. \A p \in Request \ {r} : Untouched(p)
  BY <1>1 DEF Ground, SearchReturns, Send, Untouched, RowsOf, TypeOK
<1>3. /\ answer'[r].chunks \subseteq byVector[r] \cup byText[r]
      /\ answer'[r].grounded
  BY <1>1 DEF Ground, Fused, TypeOK
<1>4. byVector[r] # None /\ byText[r] # None
  BY DEF Ground, Searched
<1>5. "error" \notin sent'[r] /\ "done" \notin sent'[r]
  BY <1>1 DEF Ground, Send, ProgressInv, TypeOK
<1>6. ProgressInv(r)'
  BY <1>1, <1>3, <1>4, <1>5
     DEF Ground, SearchReturns, ProgressInv, TypeOK, Version, corpus
<1>7. RecordInv(r)'
  BY <1>1, <1>5 DEF Ground, RecordInv, RowsOf, TypeOK
<1>8. OriginInv(r)'
  <2>1. \A c \in byVector[r] \cup byText[r] : \E k \in ran[r] : c \in k.visible
    BY <1>1, <1>4 DEF OriginInv, RetrievedBy
  <2>2. RetrievedBy(r, answer[r].chunks)'
    BY <1>3, <2>1 DEF RetrievedBy, Ground, SearchReturns
  <2>3. /\ byVector'[r] = None /\ byText'[r] = None
        /\ key'[r] = key[r] /\ view'[r] = view[r]
        /\ key[r] # None => Known(key[r], view[r])'
        /\ \A k \in ran'[r] : Known(k.version, k.visible)'
    BY <1>1, KnownFrame DEF Ground, SearchReturns, OriginInv, TypeOK
  <2> QED BY <2>2, <2>3 DEF OriginInv
<1>9. UNCHANGED <<corpus, cache, rows>> /\ pc[r] # "done" /\ RowsOf(r) = {}
  BY <1>1 DEF Ground, RecordInv
<1> QED BY <1>2, <1>6, <1>7, <1>8, <1>9, RequestStep DEF RequestInv

\* The model writes some text, or comes to an end.
LEMMA LlmInv ==
  ASSUME AskInv, TypeOK', NEW r \in Request, LlmAnswers(r) \/ LlmStreams(r)
  PROVE  AskInv'
<1> USE DEF Goto, locals, memory, Asking, Ended
<1>1. TypeOK /\ CorpusInv /\ ProgressInv(r) /\ RecordInv(r) /\ OriginInv(r)
  BY DEF AskInv
<1>2. \A p \in Request \ {r} : Untouched(p)
  BY <1>1 DEF LlmAnswers, LlmStreams, Send, Untouched, RowsOf, TypeOK
<1>3. answer'[r].chunks = answer[r].chunks /\ answer'[r].grounded
  BY <1>1 DEF LlmAnswers, LlmStreams, ProgressInv, Answer, TypeOK
<1>4. "error" \notin sent'[r] /\ (pc'[r] = "llm" => "done" \notin sent'[r])
  BY <1>1 DEF LlmAnswers, LlmStreams, Send, ProgressInv, TypeOK
<1>5. pc[r] = "llm" /\ pc'[r] \in {"llm", "record"}
  BY <1>1 DEF LlmAnswers, LlmStreams, TypeOK
<1>6. ProgressInv(r)'
  BY <1>1, <1>3, <1>4, <1>5
     DEF LlmAnswers, LlmStreams, ProgressInv, TypeOK, Version, corpus
<1>7. RecordInv(r)'
  BY <1>1, <1>4, <1>5 DEF LlmAnswers, LlmStreams, RecordInv, RowsOf, TypeOK
<1>8. OriginInv(r)'
  BY <1>1, <1>3, <1>5, KnownFrame
     DEF LlmAnswers, LlmStreams, OriginInv, RetrievedBy, ProgressInv, TypeOK
<1>9. UNCHANGED <<corpus, cache, rows>> /\ RowsOf(r) = {}
  BY <1>1, <1>5 DEF LlmAnswers, LlmStreams, RecordInv
<1> QED BY <1>2, <1>5, <1>6, <1>7, <1>8, <1>9, RequestStep DEF RequestInv

-------------------------------------------------------------------------------
(* Recording, filing, and leaving *)

\* What a request that turns to its next step, or leaves, still holds.
LEMMA LeaveEffect ==
  ASSUME TypeOK, NEW r \in Request, NEW label \in Labels, Leave(r, label)
  PROVE  /\ pc'[r] = label
         /\ label \notin Ended => UNCHANGED memory
         /\ label \in Ended => /\ key'[r] = None /\ byVector'[r] = None
                               /\ byText'[r] = None /\ hit'[r] = FALSE
         /\ \A p \in Request \ {r} :
               /\ pc'[p] = pc[p] /\ key'[p] = key[p] /\ hit'[p] = hit[p]
               /\ byVector'[p] = byVector[p] /\ byText'[p] = byText[p]
BY DEF Leave, Goto, Labels, memory, TypeOK

\* The row a request leaves says what it answered.
LEMMA RowServed ==
  ASSUME AskInv, NEW r \in Request, pc[r] \in {"record", "retry"},
         NEW cites, NEW retried,
         \/ cites = answer[r].chunks \cap Stored
         \/ cites = {} /\ ~(answer[r].chunks \subseteq Stored)
  PROVE  Served(Row(r, cites, retried)) /\ Row(r, cites, retried).request = r
<1>1. hit[r] <=> ran[r] = {}
  BY DEF AskInv, ProgressInv
<1>2. None # "text" /\ None # "billed"
  BY AskAssumption
<1> QED BY <1>1, <1>2 DEF Row, Served, StoredText, CostOf

\* persist: at most one row is added, and none before a retry.
LEMMA PersistInv ==
  ASSUME AskInv, TypeOK', NEW r \in Request, pc[r] \in {"record", "retry"},
         UNCHANGED <<corpus, cache, answer, sent, view, ran>>,
         NEW w, Served(w), w.request = r,
         rows' = rows \/ rows' = rows \cup {w},
         \A p \in Request \ {r} : p \in failed' <=> p \in failed,
         NEW label \in {"retry", Onward(r)}, Leave(r, label),
         label = "retry" => rows' = rows /\ ~(answer[r].chunks \subseteq Stored),
         label # "retry" => rows' = rows \cup {w} \/ r \in failed'
  PROVE  AskInv'
<1> USE DEF Asking, Ended
<1>1. TypeOK /\ CorpusInv /\ ProgressInv(r) /\ RecordInv(r) /\ OriginInv(r)
  BY DEF AskInv
<1>2. label \in Labels /\ pc'[r] = label /\ label \in {"retry", "cache", "done"}
  BY <1>1, LeaveEffect DEF Labels, Onward
<1>3. \A p \in Request \ {r} : Untouched(p)
  <2>1. \A p \in Request \ {r} : RowsOf(p)' = RowsOf(p)
    BY DEF RowsOf
  <2> QED BY <1>1, <1>2, <2>1, LeaveEffect DEF Untouched
<1>4. RowsOf(r) = {} /\ "error" \notin sent[r]
  BY <1>1 DEF RecordInv, ProgressInv
<1>5. \/ rows' = rows /\ RowsOf(r)' = {}
      \/ rows' = rows \cup {w} /\ RowsOf(r)' = {w}
  BY <1>4 DEF RowsOf
<1>6. label # "done" => UNCHANGED memory
  BY <1>1, <1>2, LeaveEffect
<1>7. label = "done" => key'[r] = None /\ byVector'[r] = None /\ byText'[r] = None
  BY <1>1, <1>2, LeaveEffect
<1>8. label = "cache" => ~hit[r]
  BY DEF Onward
<1>9. Stored' = Stored /\ born' = born
  BY DEF corpus, corpusVars, Stored
<1>10. ProgressInv(r)'
  <2>1. CASE label = "done"
    BY <1>1, <1>2, <1>7, <1>9, <2>1 DEF ProgressInv
  <2>2. CASE label # "done"
    BY <1>1, <1>2, <1>4, <1>6, <1>8, <1>9, <2>2 DEF ProgressInv, memory
  <2> QED BY <2>1, <2>2
<1>11. RecordInv(r)'
  <2>1. \A u, v \in RowsOf(r)' : u = v
    BY <1>5
  <2>2. pc'[r] # "retry" => RowsOf(r)' # {} \/ r \in failed'
    <3>1. CASE RowsOf(r)' = {w}
      BY <3>1
    <3>2. CASE rows' = rows /\ RowsOf(r)' = {}
      <4>1. ASSUME rows' = rows \cup {w}
            PROVE  FALSE
        BY <3>2, <4>1 DEF RowsOf
      <4> QED BY <1>2, <4>1
    <3> QED BY <1>5, <3>1, <3>2
  <2>3. pc'[r] = "retry" => RowsOf(r)' = {}
    BY <1>2, <1>4 DEF RowsOf
  <2>4. "error" \notin sent'[r]
    BY <1>4
  <2> QED BY <1>2, <2>1, <2>2, <2>3, <2>4 DEF RecordInv
<1>12. OriginInv(r)'
  <2>1. CASE label = "done"
    BY <1>1, <1>2, <1>7, <2>1, KnownFrame DEF OriginInv
  <2>2. CASE label # "done"
    BY <1>1, <1>2, <1>6, <2>2, KnownFrame DEF OriginInv, RetrievedBy, memory
  <2> QED BY <2>1, <2>2
<1>13. \A v \in rows' \ rows : Served(v)'
  BY <1>9 DEF Served
<1> QED BY <1>3, <1>4, <1>10, <1>11, <1>12, <1>13, RequestStep DEF RequestInv

\* A request records itself, or fails to.
LEMMA RecordStepInv ==
  ASSUME AskInv, TypeOK', NEW r \in Request,
         Record(r) \/ RecordRefused(r) \/ RecordFails(r) \/ RecordBare(r) \/ BareFails(r)
  PROVE  AskInv'
<1>1. CASE Record(r) \/ RecordFails(r)
  <2> DEFINE w == Row(r, answer[r].chunks, FALSE)
  <2>1. CASE answer[r].chunks \subseteq Stored
    <3>1. answer[r].chunks = answer[r].chunks \cap Stored
      BY <2>1
    <3>2. pc[r] \in {"record", "retry"}
      BY <1>1 DEF Record, RecordFails
    <3>3. Served(w) /\ w.request = r
      BY <3>1, <3>2, RowServed
    <3>4. /\ Leave(r, Onward(r))
          /\ rows' = rows \/ rows' = rows \cup {w}
          /\ rows' = rows \cup {w} \/ r \in failed'
          /\ \A p \in Request \ {r} : p \in failed' <=> p \in failed
          /\ UNCHANGED <<corpus, cache, answer, sent, view, ran>>
      BY <1>1 DEF Record, RecordFails, Retries
    <3>5. Onward(r) # "retry"
      BY DEF Onward
    <3> HIDE DEF w
    <3> QED BY <3>2, <3>3, <3>4, <3>5, PersistInv
  <2>2. CASE ~(answer[r].chunks \subseteq Stored)
    <3> DEFINE v == Row(r, {}, FALSE)
    <3>1. pc[r] \in {"record", "retry"}
      BY <1>1 DEF Record, RecordFails
    <3>2. Served(v) /\ v.request = r
      BY <2>2, <3>1, RowServed
    <3>3. /\ Leave(r, Onward(r))
          /\ rows' = rows
          /\ r \in failed'
          /\ \A p \in Request \ {r} : p \in failed' <=> p \in failed
          /\ UNCHANGED <<corpus, cache, answer, sent, view, ran>>
      BY <1>1, <2>2 DEF Record, RecordFails, Retries
    <3>4. Onward(r) # "retry"
      BY DEF Onward
    <3> HIDE DEF v
    <3> QED BY <3>1, <3>2, <3>3, <3>4, PersistInv
  <2> QED BY <2>1, <2>2
<1>2. CASE RecordRefused(r)
  <2> DEFINE v == Row(r, {}, FALSE)
  <2>1. pc[r] \in {"record", "retry"} /\ ~(answer[r].chunks \subseteq Stored)
    BY <1>2 DEF RecordRefused
  <2>2. Served(v) /\ v.request = r
    BY <2>1, RowServed
  <2>3. /\ Leave(r, "retry")
        /\ UNCHANGED <<corpus, cache, rows, answer, sent, view, ran, failed>>
    BY <1>2, <2>1 DEF RecordRefused, Retries
  <2> HIDE DEF v
  <2> QED BY <2>1, <2>2, <2>3, PersistInv
<1>3. CASE RecordBare(r) \/ BareFails(r)
  <2> DEFINE w == Row(r, {}, TRUE)
  <2>1. pc[r] \in {"record", "retry"} /\ ~(answer[r].chunks \subseteq Stored)
    BY <1>3 DEF RecordBare, BareFails, AskInv, ProgressInv
  <2>2. Served(w) /\ w.request = r
    BY <2>1, RowServed
  <2>3. /\ Leave(r, Onward(r))
        /\ rows' = rows \/ rows' = rows \cup {w}
        /\ rows' = rows \cup {w} \/ r \in failed'
        /\ \A p \in Request \ {r} : p \in failed' <=> p \in failed
        /\ UNCHANGED <<corpus, cache, answer, sent, view, ran>>
    BY <1>3 DEF RecordBare, BareFails
  <2>4. Onward(r) # "retry"
    BY DEF Onward
  <2> HIDE DEF w
  <2> QED BY <2>1, <2>2, <2>3, <2>4, PersistInv
<1> QED BY <1>1, <1>2, <1>3

\* An answer is filed with all that is known of where it came from.
LEMMA WriteCacheInv ==
  ASSUME AskInv, TypeOK', NEW r \in Request, WriteCache(r)
  PROVE  AskInv'
<1> USE DEF Asking, Ended
<1>1. TypeOK /\ CorpusInv /\ ProgressInv(r) /\ RecordInv(r) /\ OriginInv(r)
  BY DEF AskInv
<1>2. pc[r] = "cache" /\ Leave(r, "done") /\ "done" \in Labels
      /\ UNCHANGED <<corpus, rows, answer, sent, failed, view, ran>>
  BY DEF WriteCache, Labels
<1>3. /\ pc'[r] = "done"
      /\ key'[r] = None /\ byVector'[r] = None /\ byText'[r] = None
  BY <1>1, <1>2, LeaveEffect
<1>4. \A p \in Request \ {r} : Untouched(p)
  BY <1>1, <1>2, LeaveEffect DEF Untouched, RowsOf
<1>5. ProgressInv(r)'
  BY <1>1, <1>2, <1>3 DEF ProgressInv, corpus
<1>6. RecordInv(r)'
  BY <1>1, <1>2, <1>3 DEF RecordInv, RowsOf, ProgressInv
<1>7. OriginInv(r)'
  BY <1>1, <1>2, <1>3, KnownFrame DEF OriginInv
<1>8. ASSUME NEW e \in cache' \ cache
      PROVE  EntryInv(e)'
  <2>1. e.key = key[r] /\ e.answer = answer[r] /\ e.by = r
    BY <1>8 DEF WriteCache, FiledUnder
  <2>2. /\ "error" \notin sent[r] /\ answer[r].chunks \subseteq born
        /\ key[r] # None /\ ~hit[r]
        /\ ~answer[r].grounded => answer[r] = NoAnswer
    <3>1. key[r] # None
      BY <1>1, <1>2, NoneIsNoVersion DEF ProgressInv
    <3> QED BY <1>1, <1>2, <3>1 DEF ProgressInv, TypeOK
  <2>3. Known(key[r], view[r]) /\ RetrievedBy(r, answer[r].chunks)
    BY <1>1, <1>2, <2>2 DEF OriginInv
  <2>4. born' = born
    BY <1>2 DEF corpus
  <2> QED BY <1>2, <1>3, <2>1, <2>2, <2>3, <2>4, KnownFrame
          DEF EntryInv, RetrievedBy, NoAnswer
<1>9. rows' \ rows = {} /\ answer'[r] = answer[r] /\ ran'[r] = ran[r]
  BY <1>2
<1> QED BY <1>2, <1>4, <1>5, <1>6, <1>7, <1>8, <1>9, RequestStep DEF RequestInv

\* A request that failed, or whose process died, leaves nothing.
LEMMA LeavesInv ==
  ASSUME AskInv, TypeOK', NEW r \in Request, Fails(r) \/ Abandon(r)
  PROVE  AskInv'
<1> USE DEF Asking, Ended
<1>1. TypeOK /\ CorpusInv /\ ProgressInv(r) /\ RecordInv(r) /\ OriginInv(r)
  BY DEF AskInv
<1>2. PICK label \in Ended : Leave(r, label) /\ (label = "done" => Fails(r))
  BY DEF Fails, Abandon, AfterCatch
<1>3. /\ pc[r] \notin Ended /\ UNCHANGED <<corpus, cache, rows, answer, failed, view, ran>>
      /\ Fails(r) => pc[r] \in Asking /\ "error" \in sent'[r]
  BY <1>1 DEF Fails, Abandon, Throws, TypeOK
<1>4. label \in Labels
  BY DEF Labels
<1>5. /\ pc'[r] = label
      /\ key'[r] = None /\ byVector'[r] = None /\ byText'[r] = None
  BY <1>1, <1>2, <1>4, LeaveEffect
<1>6. \A p \in Request \ {r} : Untouched(p)
  <2>1. \A p \in Request \ {r} : sent'[p] = sent[p]
    BY <1>1 DEF Fails, Abandon, TypeOK
  <2> QED BY <1>1, <1>2, <1>3, <1>4, <2>1, LeaveEffect DEF Untouched, RowsOf
<1>7. ProgressInv(r)'
  BY <1>1, <1>3, <1>5 DEF ProgressInv, corpus
<1>8. RecordInv(r)'
  <2>1. sent'[r] = sent[r] \/ Fails(r)
    BY DEF Fails, Abandon
  <2> QED BY <1>1, <1>2, <1>3, <1>5, <2>1 DEF RecordInv, RowsOf, ProgressInv
<1>9. OriginInv(r)'
  BY <1>1, <1>3, <1>5, KnownFrame DEF OriginInv
<1> QED BY <1>3, <1>6, <1>7, <1>8, <1>9, RequestStep DEF RequestInv

\* An entry expires; the others are as they were.
LEMMA ExpireInv ==
  ASSUME AskInv, TypeOK', NEW e \in cache, Expire(e)
  PROVE  AskInv'
<1>1. UNCHANGED <<corpus, rows, pc, answer, sent, failed, locals>> /\ cache' \subseteq cache
  BY DEF Expire
<1>2. \A q \in Request : Untouched(q)
  BY <1>1 DEF Untouched, RowsOf, locals, memory
<1>3. \A q \in Request : RequestInv(q)'
  BY <1>1, <1>2, UntouchedInv DEF AskInv, RequestInv
<1>4. \A w \in rows' : Served(w)'
  BY <1>1 DEF AskInv, Served, Stored, corpus, corpusVars, locals
<1>5. ASSUME NEW d \in cache'
      PROVE  EntryInv(d)'
  BY <1>1, KnownFrame DEF AskInv, EntryInv, RetrievedBy, NoAnswer, corpus, locals
<1>6. CorpusInv'
  BY <1>1 DEF AskInv, CorpusInv, corpus, corpusVars, Stored
<1> QED BY <1>3, <1>4, <1>5, <1>6 DEF AskInv, RequestInv

\* The rows lose the citations of the chunks that go, and nothing else.
LEMMA CascadeInv ==
  ASSUME AskInv, Continues, Cascade, UNCHANGED <<pc, answer, sent, failed, ran>>
  PROVE  /\ \A w \in rows' : Served(w)'
         /\ \A r \in Request : RecordInv(r)'
<1>1. rows' = {[w EXCEPT !.cites = @ \cap Stored'] : w \in rows}
  BY DEF Cascade
<1>2. rows \subseteq RowType
  BY DEF AskInv, TypeOK, RowType
<1>3. ASSUME NEW w \in rows'
      PROVE  Served(w)'
  <2>1. PICK v \in rows : w = [v EXCEPT !.cites = @ \cap Stored']
    BY <1>1
  <2>2. Served(v) /\ v \in RowType
    BY <1>2 DEF AskInv
  <2>3. answer[v.request].chunks \subseteq born
    BY <2>2 DEF AskInv, ProgressInv, RowType
  <2>4. answer[v.request].chunks \cap Stored' \subseteq Stored
    BY <2>3 DEF Continues
  <2>5. /\ w.request = v.request /\ w.grounded = v.grounded /\ w.text = v.text
        /\ w.cost = v.cost /\ w.cites = v.cites \cap Stored'
    BY <2>1, <2>2 DEF RowType
  <2>6. \/ w.cites = answer[v.request].chunks \cap Stored'
        \/ w.cites = {} /\ ~(answer[v.request].chunks \subseteq Stored')
    BY <2>2, <2>4, <2>5 DEF Served
  <2> QED BY <2>2, <2>5, <2>6 DEF Served
<1>4. ASSUME NEW r \in Request
      PROVE  RecordInv(r)'
  <2>1. RecordInv(r)
    BY DEF AskInv
  <2>2. RowsOf(r)' = {[w EXCEPT !.cites = @ \cap Stored'] : w \in RowsOf(r)}
    BY <1>1, <1>2 DEF RowsOf, RowType
  <2>3. RowsOf(r)' = {} <=> RowsOf(r) = {}
    BY <2>2
  <2>4. \A v, w \in RowsOf(r)' : v = w
    BY <2>1, <2>2 DEF RecordInv
  <2> QED BY <2>1, <2>3, <2>4 DEF RecordInv
<1> QED BY <1>3, <1>4

\* The corpus changes; what was known stays known.
LEMMA CorpusChangesInv ==
  ASSUME AskInv, TypeOK', CorpusChanges
  PROVE  AskInv'
<1>1. Cascade /\ UNCHANGED <<cache, pc, answer, sent, failed, locals>>
  BY DEF CorpusChanges
<1>2. Continues
  BY CorpusContinues DEF AskInv
<1>3. TypeOK
  BY DEF AskInv
<1>4. CorpusInv'
  BY <1>2 DEF Continues, CorpusInv
<1>5. (\A w \in rows' : Served(w)') /\ \A r \in Request : RecordInv(r)'
  BY <1>1, <1>2, CascadeInv DEF locals
<1>6. ran' = ran /\ \A r \in Request : \A C : RetrievedBy(r, C) => RetrievedBy(r, C)'
  BY <1>1 DEF locals, RetrievedBy
<1>7. ASSUME NEW r \in Request
      PROVE  ProgressInv(r)' /\ OriginInv(r)'
  <2>1. ProgressInv(r) /\ OriginInv(r)
    BY DEF AskInv
  <2>2. ~(answer[r].chunks \subseteq Stored) => ~(answer[r].chunks \subseteq Stored')
    BY <1>2, <2>1 DEF Continues, ProgressInv
  <2>3. ProgressInv(r)'
    BY <1>1, <1>2, <2>1, <2>2 DEF Continues, ProgressInv, locals, memory
  <2>4. key[r] # None => Known(key[r], view[r])'
    BY <1>1, <1>2, <1>3, <2>1, KnownStays DEF OriginInv, locals, memory
  <2>5. \A k \in ran[r] : Known(k.version, k.visible)'
    BY <1>2, <1>3, <2>1, KnownStays DEF OriginInv
  <2> QED BY <1>1, <1>6, <2>1, <2>3, <2>4, <2>5 DEF OriginInv, locals, memory
<1>8. ASSUME NEW e \in cache'
      PROVE  EntryInv(e)'
  <2>1. EntryInv(e) /\ e.by \in Request
    BY <1>1, <1>3 DEF AskInv, TypeOK
  <2>2. Known(e.key, view[e.by])'
    BY <1>1, <1>2, <1>3, <2>1, KnownStays DEF EntryInv, locals
  <2> QED BY <1>1, <1>2, <1>6, <2>1, <2>2 DEF Continues, EntryInv, locals, NoAnswer
<1> QED BY <1>4, <1>5, <1>7, <1>8 DEF AskInv

-------------------------------------------------------------------------------
(* The theorems *)

\* Every step of the system preserves the invariant.
LEMMA StepInv ==
  ASSUME AskInv, [Next]_vars
  PROVE  AskInv'
<1>1. TypeOK'
  BY TypeStep
<1>2. CASE UNCHANGED vars
  <2>1. UNCHANGED corpus /\ \A q \in Request : Untouched(q)
    BY <1>2 DEF vars, Untouched, RowsOf, locals, memory
  <2>2. \A q \in Request : RequestInv(q)'
    BY <2>1, UntouchedInv DEF AskInv, RequestInv
  <2>3. \A w \in rows' : Served(w)'
    BY <1>2 DEF vars, AskInv, Served, Stored, corpus, corpusVars, locals
  <2>4. ASSUME NEW d \in cache'
        PROVE  EntryInv(d)'
    BY <1>2, KnownFrame
       DEF vars, AskInv, EntryInv, RetrievedBy, NoAnswer, corpus, locals
  <2>5. CorpusInv'
    BY <2>1 DEF AskInv, CorpusInv, corpus, corpusVars, Stored
  <2> QED BY <1>1, <2>2, <2>3, <2>4, <2>5 DEF AskInv, RequestInv
<1>3. CASE CorpusChanges
  BY <1>1, <1>3, CorpusChangesInv
<1>4. ASSUME NEW e \in cache, Expire(e)
      PROVE  AskInv'
  BY <1>1, <1>4, ExpireInv
<1>5. ASSUME NEW r \in Request, Arrive(r) \/ ReadVersion(r)
      PROVE  AskInv'
  BY <1>1, <1>5, ArriveInv, ReadVersionInv
<1>6. ASSUME NEW r \in Request, LookUpHits(r) \/ LookUpMisses(r)
      PROVE  AskInv'
  BY <1>1, <1>6, LookUpHitsInv, LookUpMissesInv
<1>7. ASSUME NEW r \in Request,
             \/ Embed(r) \/ SearchByVector(r) \/ SearchByText(r) \/ Refuse(r) \/ Ground(r)
      PROVE  AskInv'
  BY <1>1, <1>7, EmbedInv, SearchInv, RefuseInv, GroundInv
<1>8. ASSUME NEW r \in Request, LlmAnswers(r) \/ LlmStreams(r)
      PROVE  AskInv'
  BY <1>1, <1>8, LlmInv
<1>9. ASSUME NEW r \in Request,
             Record(r) \/ RecordRefused(r) \/ RecordFails(r) \/ RecordBare(r) \/ BareFails(r)
      PROVE  AskInv'
  BY <1>1, <1>9, RecordStepInv
<1>10. ASSUME NEW r \in Request, WriteCache(r)
       PROVE  AskInv'
  BY <1>1, <1>10, WriteCacheInv
<1>11. ASSUME NEW r \in Request, Fails(r) \/ Abandon(r)
       PROVE  AskInv'
  BY <1>1, <1>11, LeavesInv
<1> QED BY <1>2, <1>3, <1>4, <1>5, <1>6, <1>7, <1>8, <1>9, <1>10, <1>11
        DEF Next, Advance, AwaitsCache, AwaitsOther

\* Before the first source is loaded and the first question asked.
LEMMA InitInv == Init => AskInv
<1> SUFFICES ASSUME Init
             PROVE  AskInv
  OBVIOUS
<1>1. TypeOK
  BY DEF Init, CorpusInit, TypeOK, CorpusTypeOK, NoAnswer, Answer
<1>2. CorpusInv
  BY DEF Init, CorpusInit, CorpusInv, Stored, Ready
<1>3. \A r \in Request : ProgressInv(r) /\ RecordInv(r) /\ OriginInv(r)
  BY DEF Init, ProgressInv, RecordInv, OriginInv, RowsOf, NoAnswer, Asking, Ended
<1> QED BY <1>1, <1>2, <1>3 DEF Init, AskInv

\* The invariant holds whatever the requests, the corpus and the failures do.
THEOREM Invariance == Spec => []AskInv
BY InitInv, StepInv, PTL DEF Spec

\* Type correctness of cache, tables and requests (ask.service.ts, ask.repository.ts).
THEOREM TypeCorrect == Spec => []TypeOK
<1>1. AskInv => TypeOK
  BY DEF AskInv
<1> QED BY <1>1, Invariance, PTL

\* However the transaction of persist ends, a request has at most one row.
THEOREM RecordedOnce == Spec => []RecordedAtMostOnce
<1>1. AskInv => RecordedAtMostOnce
  <2> SUFFICES ASSUME AskInv, NEW r \in Request
               PROVE  Cardinality(RowsOf(r)) <= 1
    BY DEF RecordedAtMostOnce
  <2>1. CASE RowsOf(r) = {}
    BY <2>1, FS_EmptySet
  <2>2. CASE RowsOf(r) # {}
    <3>1. PICK w : w \in RowsOf(r)
      BY <2>2
    <3>2. RowsOf(r) = {w}
      BY <3>1 DEF AskInv, RecordInv
    <3>3. Cardinality({w}) = 1
      BY FS_Singleton
    <3> QED BY <3>2, <3>3
  <2> QED BY <2>1, <2>2
<1> QED BY <1>1, Invariance, PTL

\* A row says what was served, and only a request that called a model is charged.
THEOREM RowsAreAsServed == Spec => []RecordedAsServed
<1>1. AskInv => RecordedAsServed
  <2> SUFFICES ASSUME AskInv, NEW r \in Request
               PROVE  /\ pc[r] = "done" /\ "error" \notin sent[r] /\ r \notin failed
                           => RowsOf(r) # {}
                      /\ \A w \in RowsOf(r) :
                            /\ w.grounded = answer[r].grounded
                            /\ w.text = "text" <=> answer[r].text = "text"
                            /\ \/ w.cites = answer[r].chunks \cap Stored
                               \/ w.cites = {} /\ ~(answer[r].chunks \subseteq Stored)
                            /\ w.cost = "billed" <=> w.grounded /\ ran[r] # {}
    BY DEF RecordedAsServed
  <2>1. RecordInv(r)
    BY DEF AskInv
  <2>2. \A w \in RowsOf(r) : w.request = r /\ Served(w)
    BY DEF AskInv, RowsOf
  <2> QED BY <2>1, <2>2 DEF RecordInv, Served
<1> QED BY <1>1, Invariance, PTL

\* A request whose stream or search broke leaves neither a row nor a cache entry.
THEOREM FailuresLeaveNoTrace == Spec => []FailuresLeaveNothing
<1>1. AskInv => FailuresLeaveNothing
  BY DEF AskInv, FailuresLeaveNothing, RecordInv, EntryInv
<1> QED BY <1>1, Invariance, PTL

\* The corpus an entry under the version of today was keyed by is the corpus of today,
\* and what the entry cites is there today, or was found by a query that ran after the
\* corpus had changed from the one of its key.
THEOREM EntriesStayCurrent == Spec => []EntriesAreCurrent
<1>1. AskInv => EntriesAreCurrent
  <2> SUFFICES ASSUME AskInv, NEW e \in cache, e.key = version
               PROVE  /\ view[e.by] = Visible
                      /\ \A c \in e.answer.chunks :
                            \/ c \in Visible
                            \/ \E k \in ran[e.by] : k.version # e.key /\ c \in k.visible
    BY DEF EntriesAreCurrent
  <2>1. TypeOK /\ CorpusInv /\ EntryInv(e) /\ e.by \in Request
    BY DEF AskInv, TypeOK
  <2>2. \A V : Known(version, V) => V = Visible
    BY <2>1, KnownAgrees
  <2>3. view[e.by] = Visible
    BY <2>1, <2>2 DEF EntryInv
  <2>4. ASSUME NEW c \in e.answer.chunks
        PROVE  \/ c \in Visible
               \/ \E k \in ran[e.by] : k.version # e.key /\ c \in k.visible
    <3>1. PICK k \in ran[e.by] : c \in k.visible
      BY <2>1 DEF EntryInv, RetrievedBy
    <3>2. Known(k.version, k.visible)
      BY <2>1, <3>1 DEF AskInv, OriginInv
    <3> QED BY <2>2, <3>1, <3>2
  <2> QED BY <2>3, <2>4
<1> QED BY <1>1, Invariance, PTL

\* Recording and filing come after 'done', and nothing they do reaches the client.
THEOREM DoneComesLast == Spec => DoneIsLast
<1>1. AskInv /\ [Next]_vars =>
         [\A r \in Request : "done" \in sent[r] => sent'[r] = sent[r]]_vars
  <2> SUFFICES ASSUME AskInv, Next, NEW r \in Request, "done" \in sent[r]
               PROVE  sent'[r] = sent[r]
    OBVIOUS
  <2>1. /\ pc[r] \notin Asking
        /\ sent \in [Request -> SUBSET {"citations", "token", "done", "error"}]
    BY DEF AskInv, ProgressInv, TypeOK
  <2>2. \/ UNCHANGED sent
        \/ \E q \in Request : /\ pc[q] \in Asking
                             /\ \A p \in Request \ {q} : sent'[p] = sent[p]
    <3>1. ASSUME NEW q \in Request,
                 \/ LookUpHits(q) \/ Refuse(q) \/ Ground(q) \/ LlmAnswers(q) \/ LlmStreams(q)
          PROVE  pc[q] \in Asking /\ \A p \in Request \ {q} : sent'[p] = sent[p]
      BY <2>1, <3>1 DEF LookUpHits, Refuse, Ground, LlmAnswers, LlmStreams, Send, Asking
    <3>2. ASSUME NEW q \in Request, Fails(q)
          PROVE  pc[q] \in Asking /\ \A p \in Request \ {q} : sent'[p] = sent[p]
      BY <2>1, <3>2 DEF Fails, Throws, Asking
    <3>3. ASSUME NEW q \in Request,
                 \/ Arrive(q) \/ ReadVersion(q) \/ LookUpMisses(q) \/ Embed(q)
                 \/ SearchByVector(q) \/ SearchByText(q) \/ WriteCache(q) \/ Abandon(q)
                 \/ Record(q) \/ RecordRefused(q) \/ RecordFails(q) \/ RecordBare(q)
                 \/ BareFails(q)
          PROVE  UNCHANGED sent
      BY <3>3
         DEF Arrive, ReadVersion, LookUpMisses, Embed, SearchByVector, SearchByText, 
                  WriteCache, Abandon, Record, RecordRefused, RecordFails, RecordBare,
                  BareFails
    <3>4. CorpusChanges \/ (\E e \in cache : Expire(e)) => UNCHANGED sent
      BY DEF CorpusChanges, Expire
    <3> QED BY <3>1, <3>2, <3>3, <3>4 DEF Next, Advance, AwaitsCache, AwaitsOther
  <2> QED BY <2>1, <2>2
<1> QED BY <1>1, Invariance, PTL DEF Spec, DoneIsLast
===============================================================================
