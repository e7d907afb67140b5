---------------------------------- MODULE Ask ---------------------------------
(***************************************************************************)
(* AskController and AskService: requests that ask one question over JSON  *)
(* or SSE, while the corpus changes under them.  A request reads the       *)
(* corpus version, looks the answer cache up under it, and on a miss runs  *)
(* the two retrieval queries, refuses or calls the model, records the      *)
(* answer and files it under the version it read at the top.  Every step   *)
(* but those on the cache may fail, and the process may die between two.   *)
(*                                                                         *)
(* Requests for other questions use other keys, and share nothing with     *)
(* these but the corpus.  Sources become ready in the order of their       *)
(* stamps, which CorpusHistory shows to be what the version needs.         *)
(***************************************************************************)
EXTENDS Corpus

CONSTANTS Request,   \* POST /ask and POST /ask/stream
          None

ASSUME AskAssumption ==
    /\ IsFiniteSet(Request)
    /\ None \notin Request \cup {"json", "sse", "text", "empty", "cached", "billed"}
    /\ None \notin Nat \X SUBSET Nat
    /\ \A C \in SUBSET Chunk : None # C

VARIABLES born,      \* chunk ids ever given out (gen_random_uuid)
          mark,      \* above every stamp published so far
          \* Redis and the tables
          cache,     \* answer cache: entries by key, with the request behind each
          rows,      \* queries, answers, citations, cost_ledger: one transaction each
          \* the requests
          pc, kind,
          key,       \* the corpus version read at the top
          byVector, byText,
          hit,       \* was the answer found in the cache?
          answer,    \* text, grounded, chunks
          sent,      \* what the client has been sent
          \* history
          view,      \* what could be retrieved when the version was read
          ran,       \* the corpora the queries ran against
          failed     \* requests the database failed while they recorded

corpus == <<corpusVars, born, mark>>
memory == <<kind, key, byVector, byText, hit>>
locals == <<memory, view, ran>>
vars == <<corpus, cache, rows, pc, answer, sent, failed, locals>>

Ended == {"done", "lost"}

\* The chunks there are to cite, whatever the status of their source.
Stored == UNION {content[s] : s \in Source}

\* mutant: the text is recorded verbatim
StoredVerbatim(text) == text

\* storedAnswer: an empty text is recorded as no text.
StoredText(text) == IF text = "text" THEN "text" ELSE None

NoAnswer == [text |-> None, grounded |-> FALSE, chunks |-> {}]

Init ==
    /\ CorpusInit
    /\ born = {}
    /\ mark = 0
    /\ cache = {}
    /\ rows = {}
    /\ pc = [r \in Request |-> "idle"]
    /\ kind = [r \in Request |-> None]
    /\ key = [r \in Request |-> None]
    /\ byVector = [r \in Request |-> None]
    /\ byText = [r \in Request |-> None]
    /\ hit = [r \in Request |-> FALSE]
    /\ answer = [r \in Request |-> NoAnswer]
    /\ sent = [r \in Request |-> {}]
    /\ view = [r \in Request |-> {}]
    /\ ran = [r \in Request |-> {}]
    /\ failed = {}

Goto(r, label) == pc' = [pc EXCEPT ![r] = label]

\* A request that ends, or dies, forgets its variables.
Leave(r, label) ==
    /\ Goto(r, label)
    /\ IF label \in Ended
         THEN /\ kind' = [kind EXCEPT ![r] = None]
              /\ key' = [key EXCEPT ![r] = None]
              /\ byVector' = [byVector EXCEPT ![r] = None]
              /\ byText' = [byText EXCEPT ![r] = None]
              /\ hit' = [hit EXCEPT ![r] = FALSE]
         ELSE UNCHANGED memory

Send(r, events) ==
    sent' = [sent EXCEPT ![r] = IF kind[r] = "sse" THEN @ \cup events ELSE @]

-------------------------------------------------------------------------------
(* The corpus *)

\* ON DELETE CASCADE takes the citations of deleted chunks along.
Cascade ==
    rows' = {[w EXCEPT !.cites = @ \cap Stored'] : w \in rows}

CorpusChanges ==
    /\ \/ Tick /\ UNCHANGED <<born, mark>>
       \/ \E s \in Source :
             \/ Rewrite(s, {}) /\ UNCHANGED <<born, mark>>
             \/ \E c \in Chunk \ born :
                   /\ Rewrite(s, content[s] \cup {c})
                   /\ born' = born \cup {c}
                   /\ UNCHANGED mark
             \/ \E t \in Stamps : /\ mark <= t
                                  /\ Publish(s, t)
                                  /\ mark' = t + 1
                                  /\ UNCHANGED born
             \/ Withdraw(s) /\ UNCHANGED <<born, mark>>
             \/ Remove(s) /\ UNCHANGED <<born, mark>>
    /\ Cascade
    /\ UNCHANGED <<cache, pc, answer, sent, failed, locals>>

-------------------------------------------------------------------------------
(* cachedAnswer *)

Arrive(r) ==
    /\ pc[r] = "idle"
    /\ \E k \in {"json", "sse"} : kind' = [kind EXCEPT ![r] = k]
    /\ Goto(r, "version")
    /\ UNCHANGED <<corpus, cache, rows, answer, sent, failed, key, byVector,
                   byText, hit, view, ran>>

ReadVersion(r) ==
    /\ pc[r] = "version"
    /\ key' = [key EXCEPT ![r] = version]
    /\ view' = [view EXCEPT ![r] = Visible]
    /\ Goto(r, "lookup")
    /\ UNCHANGED <<corpus, cache, rows, answer, sent, failed, kind, byVector,
                   byText, hit, ran>>

\* The whole text goes out as one token event, an empty one as none.
LookUpHits(r) ==
    /\ pc[r] = "lookup"
    /\ \E e \in cache :
          /\ e.key = key[r]
          /\ answer' = [answer EXCEPT ![r] = e.answer]
          /\ Send(r, {"citations", "done"} \cup
                     (IF e.answer.text = "text" THEN {"token"} ELSE {}))
    /\ hit' = [hit EXCEPT ![r] = TRUE]
    /\ Goto(r, "record")
    /\ UNCHANGED <<corpus, cache, rows, failed, kind, key, byVector, byText, view,
                   ran>>

\* Nothing under the key, or Redis does not answer (getJson fails open).
LookUpMisses(r) ==
    /\ pc[r] = "lookup"
    /\ Goto(r, "embed")
    /\ UNCHANGED <<corpus, cache, rows, answer, sent, failed, locals>>

-------------------------------------------------------------------------------
(* retrieveGrounded: the embedding, then two queries with a snapshot each *)

\* The question's vector comes from Redis, or from the provider and is left there.
\* Whichever it is, it is the same vector: its key names all it depends on.
Embed(r) ==
    /\ pc[r] = "embed"
    /\ Goto(r, "search")
    /\ UNCHANGED <<corpus, cache, rows, answer, sent, failed, locals>>

\* The corpus a query that runs now runs against.
Today == [version |-> version, visible |-> Visible]

SearchByVector(r) ==
    /\ pc[r] = "search"
    /\ byVector[r] = None
    /\ \E F \in SUBSET Visible : byVector' = [byVector EXCEPT ![r] = F]
    /\ ran' = [ran EXCEPT ![r] = @ \cup {Today}]
    /\ UNCHANGED <<corpus, cache, rows, pc, answer, sent, failed, kind, key,
                   byText, hit, view>>

SearchByText(r) ==
    /\ pc[r] = "search"
    /\ byText[r] = None
    /\ \E F \in SUBSET Visible : byText' = [byText EXCEPT ![r] = F]
    /\ ran' = [ran EXCEPT ![r] = @ \cup {Today}]
    /\ UNCHANGED <<corpus, cache, rows, pc, answer, sent, failed, kind, key,
                   byVector, hit, view>>

Searched(r) == byVector[r] # None /\ byText[r] # None

\* What fuseByRrf and topK may leave of the two lists: at least the best of them.
Fused(r) == SUBSET (byVector[r] \cup byText[r]) \ {{}}

\* search returns, and its lists go out of scope.
SearchReturns(r) ==
    /\ byVector' = [byVector EXCEPT ![r] = None]
    /\ byText' = [byText EXCEPT ![r] = None]
    /\ UNCHANGED <<kind, key, hit, view, ran>>

\* No chunk, or the nearest is too far: no model is called.
Refuse(r) ==
    /\ pc[r] = "search"
    /\ Searched(r)
    /\ Send(r, {"citations", "done"})
    /\ SearchReturns(r)
    /\ Goto(r, "record")
    /\ UNCHANGED <<corpus, cache, rows, answer, failed>>

\* The nearest chunk is near enough; what is kept of the fused lists is cited.
Ground(r) ==
    /\ pc[r] = "search"
    /\ Searched(r)
    /\ byVector[r] # {}
    /\ \E C \in Fused(r) :
          answer' = [answer EXCEPT ![r] =
                        [text |-> "empty", grounded |-> TRUE, chunks |-> C]]
    /\ Send(r, {"citations"})
    /\ SearchReturns(r)
    /\ Goto(r, "llm")
    /\ UNCHANGED <<corpus, cache, rows, failed>>

\* complete() returns, or the stream ends, with or without text.
LlmAnswers(r) ==
    /\ pc[r] = "llm"
    /\ \/ kind[r] = "json" /\ \E t \in {"text", "empty"} :
                                  answer' = [answer EXCEPT ![r].text = t]
       \/ kind[r] = "sse" /\ UNCHANGED answer
    /\ Send(r, {"done"})
    /\ Goto(r, "record")
    /\ UNCHANGED <<corpus, cache, rows, failed, locals>>

LlmStreams(r) ==
    /\ pc[r] = "llm"
    /\ kind[r] = "sse"
    /\ answer[r].text = "empty"
    /\ answer' = [answer EXCEPT ![r].text = "text"]
    /\ Send(r, {"token"})
    /\ UNCHANGED <<corpus, cache, rows, pc, failed, locals>>

-------------------------------------------------------------------------------
(* persist and writeCache *)

\* A hit has nothing left to cache.
Onward(r) == IF hit[r] THEN "done" ELSE "cache"

\* mutant: a hit is billed like the call it repeats
CostAlwaysBilled(r) == IF answer[r].grounded THEN "billed" ELSE None

\* buildCost for an answer of the model, cachedCost for a hit, none for a refusal.
CostOf(r) ==
    IF ~answer[r].grounded THEN None ELSE IF hit[r] THEN "cached" ELSE "billed"

Row(r, cites, retried) ==
    [request |-> r, text |-> StoredText(answer[r].text),
     grounded |-> answer[r].grounded, cites |-> cites, cost |-> CostOf(r),
     retried |-> retried]

\* mutant: any error is retried
RetriesAnyError(r, foreignKey) == answer[r].chunks # {}

\* The condition of persist's catch.
Retries(r, foreignKey) == answer[r].chunks # {} /\ foreignKey

Record(r) ==
    /\ pc[r] = "record"
    /\ answer[r].chunks \subseteq Stored
    /\ rows' = rows \cup {Row(r, answer[r].chunks, FALSE)}
    /\ Leave(r, Onward(r))
    /\ UNCHANGED <<corpus, cache, answer, sent, failed, view, ran>>

\* A cited chunk is gone: the foreign key refuses the whole transaction.
RecordRefused(r) ==
    /\ pc[r] = "record"
    /\ ~(answer[r].chunks \subseteq Stored)
    /\ Leave(r, IF Retries(r, TRUE) THEN "retry" ELSE Onward(r))
    /\ UNCHANGED <<corpus, cache, rows, answer, sent, failed, view, ran>>

\* Any other error, before the commit or after it (the reply is lost).
RecordFails(r) ==
    /\ pc[r] = "record"
    /\ \/ UNCHANGED rows
       \/ /\ answer[r].chunks \subseteq Stored
          /\ rows' = rows \cup {Row(r, answer[r].chunks, FALSE)}
    /\ failed' = failed \cup {r}
    /\ Leave(r, IF Retries(r, FALSE) THEN "retry" ELSE Onward(r))
    /\ UNCHANGED <<corpus, cache, answer, sent, view, ran>>

\* The retry, without citations.
RecordBare(r) ==
    /\ pc[r] = "retry"
    /\ rows' = rows \cup {Row(r, {}, TRUE)}
    /\ Leave(r, Onward(r))
    /\ UNCHANGED <<corpus, cache, answer, sent, failed, view, ran>>

BareFails(r) ==
    /\ pc[r] = "retry"
    /\ \/ UNCHANGED rows
       \/ rows' = rows \cup {Row(r, {}, TRUE)}
    /\ failed' = failed \cup {r}
    /\ Leave(r, Onward(r))
    /\ UNCHANGED <<corpus, cache, answer, sent, view, ran>>

\* mutant: the version is read again when the answer is filed
KeyReadAgain(r) == version

\* The version an answer is filed under.
FiledUnder(r) == key[r]

\* SET replaces what was there; Redis may fail (setJson fails open).
WriteCache(r) ==
    /\ pc[r] = "cache"
    /\ \/ cache' = {e \in cache : e.key # FiledUnder(r)} \cup
                     {[key |-> FiledUnder(r), answer |-> answer[r], by |-> r]}
       \/ UNCHANGED cache
    /\ Leave(r, "done")
    /\ UNCHANGED <<corpus, rows, answer, sent, failed, view, ran>>

\* The TTL ends, or Redis evicts the entry or is flushed.
Expire(e) ==
    /\ cache' = cache \ {e}
    /\ UNCHANGED <<corpus, rows, pc, answer, sent, failed, locals>>

-------------------------------------------------------------------------------
(* Failures *)

\* mutant: persist rethrows
ThrowsWhenRecordingToo == {"version", "embed", "search", "llm", "record"}

\* Where an exception reaches the controller.
Throws == {"version", "embed", "search", "llm"}

\* mutant: the catch of stream does not end the request
GoesOnToRecord == "record"

\* Where the catch leads.
AfterCatch == "done"

\* Postgres, the embedding provider or every model of the chain fails, the last
\* perhaps in the middle of a stream: a 503, or an error event.
Fails(r) ==
    /\ pc[r] \in Throws
    /\ sent' = [sent EXCEPT ![r] = @ \cup {"error"}]
    /\ Leave(r, AfterCatch)
    /\ UNCHANGED <<corpus, cache, rows, answer, failed, view, ran>>

\* The process dies.
Abandon(r) ==
    /\ pc[r] \notin Ended \cup {"idle"}
    /\ Leave(r, "lost")
    /\ UNCHANGED <<corpus, cache, rows, answer, sent, failed, view, ran>>

-------------------------------------------------------------------------------
\* The steps that wait for Redis, and those that wait for anything else.
AwaitsCache(r) ==
    \/ LookUpHits(r)
    \/ LookUpMisses(r)
    \/ Embed(r)
    \/ WriteCache(r)

AwaitsOther(r) ==
    \/ ReadVersion(r)
    \/ SearchByVector(r)
    \/ SearchByText(r)
    \/ Refuse(r)
    \/ Ground(r)
    \/ LlmAnswers(r)
    \/ LlmStreams(r)
    \/ Record(r)
    \/ RecordRefused(r)
    \/ RecordFails(r)
    \/ RecordBare(r)
    \/ BareFails(r)

Advance(r) == AwaitsCache(r) \/ AwaitsOther(r)

Next ==
    \/ CorpusChanges
    \/ \E e \in cache : Expire(e)
    \/ \E r \in Request :
          \/ Arrive(r)
          \/ Advance(r)
          \/ Fails(r)
          \/ Abandon(r)

Spec == Init /\ [][Next]_vars

\* Every query and call a request awaits returns or fails, but those to Redis, which
\* may keep a connection open and never answer.
FrozenRedisSpec == Spec /\ \A r \in Request : WF_vars(AwaitsOther(r))

-------------------------------------------------------------------------------
Version == Nat \X SUBSET Nat
Answer == [text : {None, "text", "empty"}, grounded : BOOLEAN,
           chunks : SUBSET Chunk]

\* Type correctness; only a grounded answer has a text or cites a chunk.
TypeOK ==
    /\ CorpusTypeOK
    /\ born \subseteq Chunk
    /\ mark \in Nat
    /\ cache \subseteq [key : Version, answer : Answer, by : Request]
    /\ rows \subseteq [request : Request, text : {None, "text"},
                       grounded : BOOLEAN, cites : SUBSET Chunk,
                       cost : {None, "cached", "billed"}, retried : BOOLEAN]
    /\ pc \in [Request -> {"idle", "version", "lookup", "embed", "search", "llm",
                           "record", "retry", "cache"} \cup Ended]
    /\ kind \in [Request -> {None, "json", "sse"}]
    /\ key \in [Request -> {None} \cup Version]
    /\ byVector \in [Request -> {None} \cup SUBSET Chunk]
    /\ byText \in [Request -> {None} \cup SUBSET Chunk]
    /\ hit \in [Request -> BOOLEAN]
    /\ answer \in [Request -> Answer]
    /\ \A r \in Request : ~answer[r].grounded => answer[r] = NoAnswer
    /\ sent \in [Request -> SUBSET {"citations", "token", "done", "error"}]
    /\ view \in [Request -> SUBSET Chunk]
    /\ ran \in [Request -> SUBSET [version : Version, visible : SUBSET Chunk]]
    /\ failed \subseteq Request

RowsOf(r) == {w \in rows : w.request = r}

\* Whatever was withdrawn, deleted, rewritten and published since an entry was filed,
\* if its key is the version of today then what could be retrieved when that key was
\* read is what can be retrieved today, and each chunk it cites is one of those, or
\* was found by a query that ran after the corpus had changed from that of the key.
\* Such a chunk may be stale (KeyNamesAnsweringCorpus): nothing else a hit cites is.
EntriesAreCurrent ==
    \A e \in cache : e.key = version =>
        /\ view[e.by] = Visible
        /\ \A c \in e.answer.chunks :
              \/ c \in Visible
              \/ \E k \in ran[e.by] : k.version # e.key /\ c \in k.visible

\* A request is recorded in one transaction at most, retries and lost replies
\* included, so no answer is counted twice by the ledger or the evaluation suite.
RecordedAtMostOnce == \A r \in Request : Cardinality(RowsOf(r)) <= 1

\* Unless the database failed it, what a request answered is recorded when it ends:
\* the text as served, the citations that still resolve (or none, if one did not
\* at the time), and a charge if and only if this very request called a model.
RecordedAsServed ==
    \A r \in Request :
        /\ pc[r] = "done" /\ "error" \notin sent[r] /\ r \notin failed
             => RowsOf(r) # {}
        /\ \A w \in RowsOf(r) :
              /\ w.grounded = answer[r].grounded
              /\ w.text = "text" <=> answer[r].text = "text"
              /\ \/ w.cites = answer[r].chunks \cap Stored
                 \/ w.cites = {} /\ ~(answer[r].chunks \subseteq Stored)
              /\ w.cost = "billed" <=> w.grounded /\ ran[r] # {}

\* A request that failed, in the middle of a stream perhaps, leaves no row and no
\* cache entry: half an answer is never served again as a whole one.
FailuresLeaveNothing ==
    \A r \in Request : "error" \in sent[r] =>
        RowsOf(r) = {} /\ \A e \in cache : e.by # r

\* Nothing is sent after 'done', so an answer the client was told is complete is
\* never taken back because recording or caching it failed.
DoneIsLast == [][\A r \in Request : "done" \in sent[r] => sent'[r] = sent[r]]_vars

\* What writeCache's comment says: the key an answer is stored under is the version
\* of the corpus that retrieval ran against.
KeyNamesAnsweringCorpus ==
    \A e \in cache : \A k \in ran[e.by] : k.version = e.key

\* What CacheService's comment says: a cache that does not answer is a miss, so no
\* request waits for it for ever.
CacheIsNoDependency ==
    \A r \in Request : pc[r] = "lookup" ~> pc[r] # "lookup"

-------------------------------------------------------------------------------
(***************************************************************************)
(* Why they hold: the invariant the theorems of AskProofs are drawn from.  *)
(***************************************************************************)

\* There has been a corpus of version k in which V could be retrieved.  A source that
\* is ready now, and stamped no later than that corpus, was ready in it as it is now.
Known(k, V) ==
    \E f \in [Source -> (0..mark) \cup {Hidden}], c \in [Source -> SUBSET Chunk] :
        /\ VersionOf(f) = k
        /\ V = UNION {c[s] : s \in Ready(f)}
        /\ \A s \in Ready(f) : f[s] < mark
        /\ \A s \in Ready(stamp), t \in Ready(f) :
              stamp[s] <= f[t] => s \in Ready(f) /\ f[s] = stamp[s] /\ c[s] = content[s]

\* Chunk ids are not used again, and stamps lie below the mark.
CorpusInv ==
    /\ Stored \subseteq born
    /\ \A s \in Ready(stamp) : stamp[s] < mark

Asking == {"idle", "version", "lookup", "embed", "search", "llm"}

\* How far a request has come, and what it holds and has sent by then.
ProgressInv(r) ==
    /\ pc[r] \in {"idle", "version"} \cup Ended \/ key[r] \in Version
    /\ pc[r] \in {"idle", "version", "lookup", "embed"} =>
          ran[r] = {} /\ byVector[r] = None /\ byText[r] = None
    /\ pc[r] \in Asking \ {"llm"} => answer[r] = NoAnswer
    /\ byVector[r] # None => ran[r] # {}
    /\ pc[r] = "llm" => answer[r].grounded
    /\ pc[r] \in {"llm", "record", "retry", "cache"} => (hit[r] <=> ran[r] = {})
    /\ pc[r] \in Asking \cup {"cache"} => ~hit[r]
    /\ pc[r] \in Asking => "done" \notin sent[r]
    /\ "error" \in sent[r] => pc[r] \in Ended
    /\ pc[r] = "retry" => ~(answer[r].chunks \subseteq Stored)
    /\ answer[r].chunks \subseteq born
    /\ byVector[r] # None => byVector[r] \subseteq born
    /\ byText[r] # None => byText[r] \subseteq born

\* A row is what its request answered, less the citations that are gone.
Served(w) ==
    LET r == w.request IN
    /\ w.grounded = answer[r].grounded
    /\ w.text = "text" <=> answer[r].text = "text"
    /\ \/ w.cites = answer[r].chunks \cap Stored
       \/ w.cites = {} /\ ~(answer[r].chunks \subseteq Stored)
    /\ w.cost = "billed" <=> w.grounded /\ ran[r] # {}

\* A request has no row before it has recorded itself, and one from then on.
RecordInv(r) ==
    /\ pc[r] \in Asking \cup {"record", "retry"} \/ "error" \in sent[r] => RowsOf(r) = {}
    /\ \A v, w \in RowsOf(r) : v = w
    /\ pc[r] \in {"cache", "done"} /\ "error" \notin sent[r] /\ r \notin failed
          => RowsOf(r) # {}

\* Each chunk of C was retrieved from a corpus request r ran a query against.
RetrievedBy(r, C) == \A c \in C : \E k \in ran[r] : c \in k.visible

OriginInv(r) ==
    /\ \A k \in ran[r] : Known(k.version, k.visible)
    /\ key[r] # None => Known(key[r], view[r])
    /\ byVector[r] # None => RetrievedBy(r, byVector[r])
    /\ byText[r] # None => RetrievedBy(r, byText[r])
    /\ pc[r] \in {"llm", "record", "retry", "cache"} /\ ~hit[r]
          => RetrievedBy(r, answer[r].chunks)

EntryInv(e) ==
    /\ pc[e.by] = "done"
    /\ "error" \notin sent[e.by]
    /\ ~e.answer.grounded => e.answer = NoAnswer
    /\ e.answer.chunks \subseteq born
    /\ Known(e.key, view[e.by])
    /\ RetrievedBy(e.by, e.answer.chunks)

AskInv ==
    /\ TypeOK
    /\ CorpusInv
    /\ \A r \in Request : ProgressInv(r) /\ RecordInv(r) /\ OriginInv(r)
    /\ \A w \in rows : Served(w)
    /\ \A e \in cache : EntryInv(e)
===============================================================================
