# A TLA+ model of docent

docent answers questions over a corpus of Markdown documents: it ingests
sources (git repositories or directories) into Postgres with embeddings,
retrieves chunks for a question, has a language model answer from them, and
keeps answers in Redis under a version of the corpus. This directory models
the parts of it in which several actors share state and the one algorithm whose
mistakes nobody would see, the cutting of pages into chunks; it checks them with
TLC, and proves what matters most with TLAPS.

## 1. Inventory

| Component | State | Operations | Talks to |
|---|---|---|---|
| Ingestion (`src/src/ingestion/ingestion.service.ts`, `ingestion.repository.ts`, `ingestion.controller.ts`) | rows of `sources`, `documents`, `chunks`; a heartbeat timer per run | `POST /ingest`, the CLI, `DELETE /sources/:id`; claim, clear, fetch, store, mark | Postgres, the embeddings provider, git |
| Corpus version (`common/cache/corpus-version.ts`) | none: a count and a maximum over `sources` | `current` | Postgres |
| Answering (`ask/ask.service.ts`, `ask.controller.ts`, `ask.repository.ts`) | rows of `queries`, `answers`, `citations`, `cost_ledger` | `POST /ask`, `POST /ask/stream` | everything below |
| Retrieval (`retrieval/*.ts`) | none | two ranked queries, fused by reciprocal rank | Postgres, the embedding cache and provider |
| Caches (`common/cache/*.ts`) | Redis keys with a TTL | `getJson`, `setJson`, `getVector`, `setVector`; all fail open | Redis |
| LLM router (`llm/llm.router.ts`) | the chain of providers; which one a stream chose | `complete`, `stream`, `outcome` | providers |
| Rate limiting (`common/throttling/*.ts`) | a counter with an expiry per client and bucket | `increment`, failing open after a second | Redis |
| Costs (`cost/*.ts`) | none of its own | price of an answer, `GET /costs` | Postgres |
| Cleaner and chunker (`ingestion/markdown-cleaner.ts`, `html-table.ts`, `chunker.ts`) | none between calls; flags, buffers and trackers within one | `cleanMarkdown`, `chunkMarkdown` | a tokenizer |
| Loader (`ingestion/markdown-loader.ts`) | none | walks the files of a source; `parseDocument` | files, the two above |
| Configuration, logging, health, modules, scripts, migrations | none that is shared | boot, shutdown, one-off tools | |

How they interact, and what is hard about it:

* Any number of **runs** (HTTP calls in any number of processes, and the CLI)
  write to the same source rows. Nothing but one conditional `UPDATE` keeps two
  of them apart, and it relies on a lease that a timer renews. A run may die, a
  `DELETE` may take the row away under it, a heartbeat may land late, and the
  clear transaction is two statements under READ COMMITTED.
  *Correct means*: one writer per source; a source that reads `ready` is what
  one finished run stored; deleted is deleted; nothing stays `processing` for
  ever.
* **Answering reads what ingestion writes**, without locks, in three separate
  queries (the version, two retrievals), and later writes rows that refer to
  chunks that may be gone. *Correct means*: a cached answer is served only
  while the corpus is the one it was answered from; an answer is recorded once,
  as it was served, and charged only if a model was called; half an answer is
  never kept.
* The **corpus version** ties the two together: it is not a digest, so that it
  never takes the same value for two corpora is a theorem about histories, not
  about states.
* **Redis** is shared by two caches and the limiter, none of which may become a
  dependency.
* A **page** is read line by line, twice, by code that keeps track of fences,
  blockquotes, tables and branches of examples with flags that outlive the line
  they are set at, and a section once merged is scanned afresh. *Correct means*:
  no line of the documentation is lost, repeated or moved; an example or a table
  is not torn in two; chunks have the size and the heading they should.
* The **router** may switch providers only before the first delta, and must
  close what it abandons without being held up by it.

`PROJECT.json` lists the hazards of this kind with the line where each bites
and the properties that cover it.

## 2. Modules

| Module | What it is |
|---|---|
| `Corpus` | What answering may rely on: hidden or ready sources, content that never changes while ready, and the version. Abstract specification of ingestion, base of the two below. |
| `Ingestion` | The runs, the rows, the heartbeat, `DELETE`. Implements `Corpus` (`ImplementsCorpus`). |
| `IngestionProofs` | Theorems about `Ingestion`. |
| `CorpusHistory` | `Corpus` with the set of all corpora there have been: when does a version identify one? |
| `CorpusHistoryProofs` | The theorem that answers it. |
| `CorpusProofs` | Lemmas about the version that it and `AskProofs` share. |
| `Markdown` | The kinds of lines the regular expressions of the next two tell apart. |
| `Cleaner` | `cleanMarkdown`, one step for each line. |
| `Chunker` | `chunkMarkdown`, one step for each line read, section taken or chunk pushed. |
| `Document` | `parseDocument`: the one after the other, and the properties of both. |
| `DocumentProofs` | Theorems about `Document`: types, the chunker, and the lines it never parts. |
| `CleaningProofs` | Theorems about `Document`: the cleaner, and the whole way from page to chunk, of lines and of fences and tables. |
| `Ask` | Requests from the version read to the cache write, over a changing `Corpus`. |
| `AskProofs` | Theorems about `Ask`. |
| `LlmProvider` | What the interface of that name promises its caller. Abstract specification of the router. |
| `LlmRouter` | One request through the chain of providers, pulled delta by delta. Implements `LlmProvider` (`ImplementsProvider`). |
| `LlmRouterProofs` | Theorems about `LlmRouter`. |
| `Throttle` | The requests of one client against their counters in Redis. |
| `ThrottleProofs` | Theorems about `Throttle`. |
| `MCIngestion`, `MCCorpusHistory`, `MCDocument`, `MCAsk`, `MCLlmRouter`, `MCThrottle` | Model values, symmetry, pages and chunk kinds for TLC. |

### Ingestion

A step is one statement or transaction with the local code up to the next
`await`. `pc[r]` is where run `r` is:

`idle` → `find` (findSourceByUri) → `create` (createSource; on the unique
violation → `refind`) or `clock` (databaseNow) → `claim` (claimForProcessing) →
`clear`, `clearing` (the DELETE and the UPDATE of deleteSourceContent) →
`fetch` (fetchSource, markProcessing, timer set) → `docs` (the loop) → `ready`
(markReady) → `done`. Anything the `try` of `runPipeline` awaits may throw:
`PipelineFails` → `fail` (markFailed) → `failed`. `refused` is the 409,
`errored` a 500, `lost` a run whose process died or whose query outside the
`try` failed.

* `status`, `uri`, `updatedAt`, `documentCount`, `documents` are the columns.
  A deleted id keeps the status `"deleted"`, since ids are not used again.
  Chunks live and die with their document and are not kept apart; `chunk_count`
  moves with `document_count` in every statement.
* `now()` is the time a transaction started, so a stamp may lag its commit by
  `TxMax`.
* The open clear transaction holds locks on the documents it deleted
  (`snapshot`): an insert of the same path waits (`Blocked`), a document stored
  meanwhile survives (`Cleared`), and a `DELETE` of the row deadlocks with it,
  which Postgres resolves by aborting one side. The model aborts the clear; if
  the `DELETE` is the victim nothing changes, which is a step not taken.
* A heartbeat has two steps, sent and landed, because `clearInterval` does not
  recall a query on its way.
* `beat`, `holder` and `markedBy` are history: when a run last renewed its claim,
  whose claim a row carries, and which run marked a row `ready` or `failed` that
  nobody claimed since. No guard but the clock's reads them.

`Gap` is the longest time a working run goes without a renewal (the heartbeat
interval plus whatever delays it), enforced by `Tick`. `Timely`, that is
`Gap + TxMax <= Lease` and no lost reply of `markReady`, is what
`DEFAULT_INGESTION_LEASE_CONFIG` (2 minutes against 15) is meant to give. `OneWriter`, `ReadyIsWhole` and `ImplementsCorpus` need it.

Without it a source is still not given away for no reason:
`TakenOnlyIfLapsedOrMarked` names the three there are (its run went unrenewed for the
lease; its run marked it and is done with it, or has lost the reply; another run,
itself overtaken, marked it), and the last is one that the comments of the code do
not reckon with (section 4, 15). `RefusedOnlyWhileRenewed` is the other side: whatever a
run left `processing` by dying, or by failing to clear or to mark, refuses nobody once
the lease is over.

### CorpusHistory

`seen` holds every corpus that was ever current. `VersionIdentifiesCorpus` says
that two of them with the same version are equal, **while sources become ready
in the order of their stamps** (`ordered`), the condition the comment on
`answerKey` (`cache.keys.ts`) discusses. The reason it holds: a source that is
ready now with a stamp no higher than the highest of an earlier corpus was
ready in that corpus, with the same content; so the ready sources of today are
a subset of those of then, and equal counts make them equal.

### Document

A page is a sequence of lines, and a line a kind (`Markdown!Kinds`), the number
of `>` before it, and where in the raw page it stood. The cleaner and the
chunker disagree about some kinds, which is why there are so many: the chunker's
`FENCE` sees a marker in a blockquote and the cleaner's does not; `<table>` in an
inline code span opens a table for the one and not for the other.

`Cleaner`: the actions from `ReadFence` to `ReadText` are the branches of the
loop of `cleanMarkdown`, in the order in which it tries them, `Accumulate` with
`Convert` the buffer and `convertHtmlTable`, and `EndOfRaw` what follows the
loop: a buffer that was never closed comes out as it went in, and runs of blank
lines are collapsed.

`Chunker`: `stage` is where `chunkMarkdown` stands:

`waiting` → `sections` (splitIntoSections) → `merging` (groupByMinimum,
foldTrailingShortfallBackward, dominantHeadingPath; not entered with a minimum of 0 or less) →
`splitting`, and from there for each merged section, either kept whole or →
`cutting` (splitOversizedSection) → `pushing` (its bodies become chunks) →
`splitting` … → `done`. `skipped` is a page whose parsing threw: `parseDocument`
catches and goes on without it (`ParseFails`).

* A body of text is the set of positions its lines have in the cleaned page.
  This is an abstraction only if a body is always in order, which
  `EveryLineOnceInOrder` includes: the code appends, and never sorts.
* `fence`, `table`, `mdTable` are the three trackers; `FenceAfter`, `TableOpened`,
  `TableAfter`, `RowsOpened`, `RowsAfter` are their `consume` before and after
  the tokens of a line are counted. As in the code, whether a table may open is
  decided from the trackers as they were before the line (`MayOpenTable`).
* The tokenizer is a constant, `CountTokens`, and so is `NewlineTokens`, what joining
  a line to others costs beyond its own tokens; what the theorems assume of
  them is in section 5.
* How a reader sees the raw page is defined apart from the cleaner's flags:
  `InFence` by the parity of the fence markers so far, `OpenTable` and `TableAt` by
  the tags, `Directive`, `JsHalf`, and with them `MayGo`, what cleaning may drop.
* A fence in a blockquote (`QuotedFenceAt`) may follow prose of the quote and other
  fences of the same depth, as in the admonition of `chunker.spec.ts:128`. Left out are
  quotes with a table before the fence ends, and with markers of different depths:
  in both the trackers take lines of the one for the other.

### Ask

`pc[r]`: `version` → `lookup` → on a miss `embed` → `search` (two queries, in
either order) → `llm` unless refused → `record` (→ `retry` without citations
after a foreign-key violation) → `cache` → `done`. A hit goes from `lookup` to
`record` and ends. The requests all ask one question: requests for others use other keys
and share only the corpus. An answer is its text (some, empty, or none),
whether it is grounded, and the chunks it cites; what the model writes and how
chunks rank is left open (the queries return any part of what is visible, the
fusion any part of that).

* `kind` is the transport. Over SSE `sent` collects the events; over JSON
  nothing is sent before the end, and a 503 is the `error`.
* `rows` has one record per committed recording transaction, whose citations
  are cascaded away with their chunks (`Cascade`). A transaction may fail
  before or after its commit.
* A client that disconnects changes nothing: `stream` goes on writing to the
  closed response and records the answer.
* Chunk ids are fresh (`born`), and publications are in stamp order (`mark`),
  which `CorpusHistory` shows to be what the version needs.
* `view`, `ran`, `failed` are history: what was visible when a request read the
  version, the corpora (version and what was visible) its two queries ran against,
  and the requests the database failed while they recorded.
* The end of the module states why the properties hold (`AskInv`, see Proofs).

### LlmRouter

`pc` is where the generator `deltas()` (or `complete()`) of one call stands:

`idle` → `complete` (awaiting the link at `at`) → `done`; or `idle` → `peek`
(awaiting the first result of a link) → `yield` (the caller holds a delta) →
`pull` (the loop's `iterator.next()`) → `yield` … → `close` (the `finally`:
`closeQuietly`) → `done`, or back to `peek` at the next link.

* `after` is what the generator was in the middle of when it reached `finally`:
  returning, throwing, or turning to the next link. A stop by the caller enters
  `finally` from `yield`.
* `conn[l]` is the response of a link: `unopened`, `open`, read to its end
  (`ended`), `broken` (refused, timed out, or failed while read), `released`
  by a close, or `lingering` when the close rejected or ran out of
  `CLOSE_TIMEOUT_MS`. A lingering one may be released later, by nobody's
  leave (`LateRelease`).
* `wire[l]` are the chunks that came. The provider's loop is part of `Reads`: a
  chunk without text is digested (its usage and finish reason kept) and the
  next one awaited; `finish[l]`, `usage[l]` hold the number of the chunk they
  came from.
* `reason` is `modelReason`: `unstarted` is 'not started', `fallback` is
  'fallback: ' with the failure of the link `blamed`, `exhausted` is 'every
  provider failed: ' with all.

### Throttle

Requests of one client, at any number of instances, since all they share is
Redis. `pc[r]` is `idle`, `waiting` in `increment`, or what the guard
made of the record: `admitted`, `refused` (with a `Retry-After`), `open` (let
through uncounted). `cmd[r]` is the request's command: sent, executed, none.

* The Lua script is one step (`Execute`), whoever still waits for it: a command
  that timed out counts all the same. ioredis sends an unanswered command again
  after a reconnect (`Resend`), so it may count twice.
* `Evict` and `LoseExpiry` are what may happen to a key behind the script's
  back, once for each bucket; `meddled` remembers it, and the properties that
  such a loss defeats exclude it.
* `since`, `ran`, `extra` are history: when a counter began, in which counter a
  request was last counted, and how many counts were second ones.

## 3. Runs

| Run | Instance | What it shows |
|---|---|---|
| `ingestion_timely` | 2 runs, 1 id, 2 paths; `Lease = Gap = 1`, `TxMax = 0`, clock to 2, fair | `TypeOK`, `OneWriter`, `ReadyIsWhole`, `DeleteIsFinal`, `SourcesSettle`, and the refinement `ImplementsCorpus` |
| `ingestion_late` | 3 runs, 1 id, no documents; `Lease = 1`, `Gap = 9`, lost replies, clock to 3 | with no timing assumption, when a source may change hands and a call be refused: `TakenOnlyIfLapsedOrMarked`, `RefusedOnlyWhileRenewed` |
| `ingestion_heartbeat` | as `ingestion_timely`, 2 ids, 1 path | violated: `HeartbeatExtendsHolder` |
| `ingestion_generations` | 2 ids, 2 paths; `Lease = 1`, `Gap = 9`, `TxMax = 1`, lost replies, clock to 2 | violated: `OneGeneration` |
| `corpus_history` | 2 sources, 2 chunks, `TxMax = 1`, clock to 3 | `VersionIdentifiesCorpus` |
| `document` | pages of up to 3 of 28 blocks of 1 to 9 lines; target 4, maximum 5, minimum 4 tokens, tables bounded at 8 | no line is lost, moved or repeated; fences and tables stay whole; sizes and headings |
| `ask_pair` | 2 requests, 1 source, 1 chunk, clock to 1 | everything about two requests that share a key |
| `ask_alone` | 1 request, 2 sources, 2 chunks, clock to 2 | `EntriesAreCurrent` against two sources, whose versions come back |
| `ask_key` | 1 request, 1 source | violated: `KeyNamesAnsweringCorpus` |
| `ask_frozen_redis` | as `ask_key`, every step but Redis' fair | violated: `CacheIsNoDependency` |
| `llm_router` | 3 links, 6 kinds of chunk, 2 chunks for each link, fair | one answer, its attribution, its closing, `EveryCallEnds`, and the refinement `ImplementsProvider` |
| `throttle` | 2 requests over both transports; `Limit = 1`, `Window = 2`, 2 ticks a second, clock to 5, fair | the budget holds over transports, instances and repeated commands; `CountedKeysExpire`, `EveryCheckEnds` |

**Why the bounds are enough to be interesting.** Two runs suffice for the races
of ingestion while leases are kept: each statement concerns one row, and what a run
can find there is the work of one other run or of a run now dead. Where they are not
kept, a run that was overtaken, the one that overtook it and one that profits from
the first one's mark make three. Two paths let one
document be skipped, stored or refused before another. One id is enough for what
holds: no statement is about two rows, and two of one uri meet only when a call
creates a row, which the unique constraint decides. (With two ids and one path, so
that a deleted source is created again, the properties of `ingestion_timely` were
found to hold as well; the two runs that look for a violation have two ids. That
`DeleteIsFinal` needs no assumption on timing is shown by its theorem,
`DeletesAreFinal`.) A clock that runs one tick past the lease
lets a claim expire and be taken (`updated_at < staleBefore` is strict). Where
`Gap = 9` exceeds the clock, a live run may be silent and overtaken throughout; a
claim in `ingestion_late` meets rows that lapsed, rows that are renewed, and rows
that their own run or an overtaken one has marked. Two sources and
three ticks let a version's count or maximum return to an earlier value. Two chunks let a citation list vanish in
part. The blocks of `document` are each there for a branch: fences that end,
that never end, that stand in a blockquote with and without an end, and that
hold a heading, a table, both directives and rows; tables with header rows,
without, without rows, around a heading, around a directive, never closed,
quoted, and of a size that is below the bound, above it, and kept only by it;
a quote of prose and two fences; quoted fences and quoted tables that reach into each
other; a pipe table, bare
fence markers, and prose that mentions `<table>`. Three of them in a row are one before and one after any
other, enough for a flag left standing by the first to harm the third, and to
exceed the minimum, the target, the maximum and the bound on tables, each of
which some page of two blocks stays below. The tokenizer of the run counts two
for a line of prose and one for any other, so that sections of equal length in
lines differ in tokens, and nothing for joining them (`NewlineTokens = 0`). Three links make one that has neighbours on both sides, so that the
quoted failure, the first and the last differ; two chunks let a link give a
delta and then another, break, or end with its usage. A
limit of one is reached by two requests, or by one whose command is sent
twice; the clock passes two windows. The proofs lift the bounds from
what they cover.

`corpus_history` carries the state constraint `InOrder`: nothing is claimed
once a publication was out of order, so behaviours are not followed past that.
The other runs have none. The inductive invariants of section 5 are not
properties of a run, being proved; each was checked by TLC first (`WholeInv` and
`PlacedInv`, which are slow to evaluate, on pages of up to two blocks, and the
latter also on all pages of four lines of any kind). Deadlock is not checked anywhere: when every run or
request has ended and the clock has reached its bound, the system is done.
Symmetry is used only in runs without liveness.

**Fairness.** `Ingestion!FairSpec` assumes that a query or a remote call that a run
awaits returns or fails (weak fairness of the steps of each), and that a heartbeat
in flight is answered or lost. The client of the embedding provider has a timeout
(`EMBEDDING_TIMEOUT_MS`); Postgres is assumed to answer or to drop the connection, and
to abort one side of a deadlock. Nothing is assumed of new calls, of
`DELETE`, of the clock, or of failures not happening. `Ask` promises no liveness: a
request ends if Postgres, the providers and Redis answer, and that Redis does is
nothing its client sees to. `FrozenRedisSpec` grants a request every step but those
that wait for Redis, and shows what then happens. `LlmRouter!FairSpec` assumes that a
link answers or fails (the client has `ANSWER_TIMEOUT_MS`; it bounds the wait for the
response, and a response that stalls in its middle is cut only by the body timeout of
the HTTP client below it), that the timer of a close fires, and that a caller given a delta pulls the next or stops; nothing of
`return()`, which may hang. `Throttle!FairSpec` assumes only that the timer of a
waiting request fires.

## 4. What the code does differently from its comments

1. `touchProcessing` is guarded by the row's status, not by who holds it. A
   heartbeat in flight while its run ends and another claims the row extends
   that other run's lease (`ingestion_heartbeat`).
2. A run that outlives its lease is not fenced off: it may store a document
   after the run that replaced it cleared the row, and the source becomes ready
   with documents of both (`ingestion_generations`).
3. An answer can be filed under the version of a corpus it was not retrieved
   from: the version is read once, but before retrieval, not with it
   (`ask_key`). What a hit may then serve that is stale is bounded: chunks that a
   query found after that change, and none else (`EntriesAreCurrent`).
4. The cache fails open on errors but has no timeout, so a Redis that hangs
   holds every question (`ask_frozen_redis`); the limiter on the same client
   has one.

Two more have no run, being about a comment's aside:

5. `redis-throttler.storage.ts:194` calls the fallback for a PTTL that is not
   positive unreachable. Redis keeps a key through the last millisecond of its
   life, in which PTTL is 0, so it is reachable; it errs to the full window,
   which `RetryAfterIsEnough` shows to be safe.
6. `llm.router.ts:136` names a disconnecting SSE client as a caller that stops
   early. `AskController.stream` never stops iterating when its client goes (see
   Ask above), so today nothing but an exception of its own does.

The chunker and the cleaner fall short of what their comments say on pages of
unusual shape. Each is an exception that a property of `Document` names, and
without which the run `document` finds the property violated:

7. A heading is no line of its section, and merging joins the lines of two
   sections without it (`chunker.ts:398`). A fence in a blockquote that ends with
   the quote and not with a marker is then followed directly by whatever came
   after the heading: if that is another quoted line, the second scan
   (`chunker.ts:467`) is still inside the fence where the first (`chunker.ts:292`)
   was not, and takes the next quoted fence for its end. `chunker.ts:73` says that
   a fence cannot outlive its blockquote, README.md:76 that fences are never
   split (`LooseFenceBefore` in `QuotedFencesStayWhole`, which excuses it only where no
   line but headings, blank ones and quotes stands between the two).
8. Whether a table may open at a line is read before the trackers consume it
   (`chunker.ts:499`), so the very line that ends an earlier table, because its
   blockquote or its bound is over, opens none: a `<table>` or a row there goes
   unprotected, and the table is cut after it (`OpenTableBefore` and
   `MistakenTableBefore` in `TablesStayWhole`). Runs of rows that merging joins by
   7 share one bound, so they are kept whole only on pages whose rows are within
   the bound together (`RowsWithinBound`).
9. `html-table.ts:1` shares `TABLE_OPEN` lest the chunker and the cleaner disagree
   about where a table begins; they do, on a line that mentions `<table>` in an
   inline code span, which the cleaner strips first (`markdown-cleaner.ts:100`) and
   the chunker does not (`chunker.ts:163`). The chunker then takes up to
   `UNCLOSED_TABLE_TOKEN_BOUND` of prose for a table (`TableOpen` in
   `CeilingHolds`), and by 8 may cut the pipe table in which that bound runs out.
10. A fence marker inside an open table is output at once, before the rows that
    the buffer holds (`markdown-cleaner.ts:73`), so it overtakes them
    (`Overtakes` in `LinesSurviveCleaning`), and its fence comes apart
    (`OpenTableBefore` in `FencesStayWhole`). A `@@switch` in an open table is a
    line of the table like any other, so no JavaScript half begins there
    (`Directive` in `JavaScriptIsDropped`).
11. `convertHtmlTable` writes the first header row first and drops the others
    (`html-table.ts:76`; `MayGo`, `Overtakes`).
12. `chunker.ts:349` says that a stray section never ships as its own chunk. Folded
    backward and cut again, it may, as a piece, and then bears the heading of what
    it was folded into: `StraySectionsMerge` is about the merged sections and their
    tokens before trimming, `LabelledByLargestPart` about chunks that are a
    `WholeSection`.
13. A heading inside an HTML table without rows ends its section and with it the
    table (`splitIntoSections` knows fences only; `TagTableAt`).
14. The cleaner's `FENCE` (`markdown-cleaner.ts:8`) sees no fence in a blockquote, the
    chunker's (`chunker.ts:30`) does, so directives in a quoted example stay and a
    quoted `<table>` example is converted (`QuotedFenceAt`). A quoted table that begins
    within such a fence and goes on behind it is a table for the cleaner only
    (`TagTableAt`).

One more of ingestion, about the reasons for which a source changes hands:

15. `markFailed` and `markReady` name the row and not the run
    (`ingestion.repository.ts:178-192`). A run that was overtaken, say because cloning
    took longer than the lease, for which no heartbeat is set yet, and then failed,
    marks the row `failed` under the run that works on it and renews it. The next
    call claims it at once, although `ingestion.repository.ts:143` says that it gets
    nothing if another live run holds the claim. It is the last of the three reasons in
    `TakenOnlyIfLapsedOrMarked`; without it, `ingestion_late` finds the property violated.

## 5. Proofs

`IngestionProofs`, for every finite set of ids and paths and any set of runs:

* `TypeCorrect`: `TypeOK`, which includes that no row is stamped in the future.
* `Invariance` (from `Timely`): `IngestionInv`. `OneWriter` is not inductive by
  itself: a claim succeeds when the stamp is older than the lease, so one needs
  that a working run is its row's `holder`, that its last renewal is at most
  `Gap` old and that the row's stamp is at most `TxMax` older than that
  (`RunsHoldTheirRows`), and that a claim's threshold was computed no later
  than now (`ClaimsAreDated`). `ReadyIsWhole` needs what a run finds in its row
  at each of its steps (`AsLeft`).
* `SingleWriter`, `ReadySourcesAreWhole`: `OneWriter` and `ReadyIsWhole`, from
  that invariant.
* `ReadersSeeACorpus`: `Ingestion` implements `Corpus` under the mapping
  `contentSeen`, `stampSeen`.
* `ClaimsNeedALapseOrAMark`, `RefusalsNeedARenewal`, `DeletesAreFinal`: without
  `Timely`, so for timers however late and replies lost. For the first, the stamp of a
  running row lags its holder's last renewal by at most `TxMax` (`RenewalsAreStamped`), and
  a row that is `ready` or `failed` bears the mark of a run that is done with it, or
  never learnt that it is (`MarksAreSigned`); for the second, no stamp is later than the last
  renewal of some run on the row (`StampsAreRenewals`).

`CorpusHistoryProofs`, for every finite set of sources:

* `VersionsIdentifyCorpora`, from `HistoryInvariance`: the invariant adds
  `ReadySinceThen` and `StampsBelowMark` to the property. The counting argument
  (`SameVersionSameStamps` of `CorpusProofs`) uses the library's facts on finite
  sets, and that a bounded set of stamps has a highest one.

`DocumentProofs`, for pages of any length, any limits and any tokenizer of which the
named hypothesis holds:

* `TypeCorrect` (`Tokenizes`: it counts in natural numbers): the positions the lists
  hold are positions of the page, every list is taken within its length, and a
  branch is skipped only inside a fence.
* `NothingLost` (`Tokenizes`): `EveryLineOnceInOrder`. Stage by stage, the lines that
  count are divided among the lists the stage works on, in the order of the page
  (`SectionsInv`, `MergingInv`, `SplittingInv`, `CuttingInv`, `PushingInv`): what
  is still to read comes after what is being built, and that after what is done.
  Merging, the two folds that look back, and cutting each keep this.
* `StraySectionsAreMerged`, `LabelsAreLargestParts` (`Weighs`: more lines are not
  fewer tokens): `StraySectionsMerge` and `LabelledByLargestPart`, from `MergersInv`.
  A group is `MadeOf` the sections its lines come from and of no others, each
  finished group has the minimum, so the last one, folded backward, leaves either
  one or none below it; and the first contribution that no other exceeds exists,
  so the path chosen is `FittingPath`. `TextIsTrimmed` turns a chunk that is the
  trim of a merged section into that section.
* `CeilingsHold` (`Weighs` and `Joins`: a line joined to others costs at most its own
  tokens and a newline's): `CeilingHolds`, from `SizesInv`. The code counts an open
  table line by line and the buffer as a whole, and nothing ties the two
  together; the invariant does: while a table is open, any part of the buffer has
  less than the target, the tokens counted for the table and a newline for
  each line (`TargetAnd`). It speaks of parts because a body is trimmed before it
  is pushed.

`CleaningProofs`, for pages of any length, with no hypothesis on the tokenizer but
where one is named:

* `LinesSurvive`, `JavaScriptIsGone`: `LinesSurviveCleaning` and
  `JavaScriptIsDropped`, from `CleanerInv`. Neither is inductive: what a branch
  does with a line depends on flags that were set lines ago, and both are about
  the page. `FlagsInv` says what the flags mean there (`insideFence` is the parity
  of the markers read, `skippingSwitchBranch` that the line read last is of a
  JavaScript half, a buffer that there is an open table); `BufferInv` that the
  buffer holds lines of that table unchanged; `LinesKept` that every line read may
  go, is output, or is in the buffer, and that output precedes buffer unless
  something overtakes. `ConvertKeeps` and `CollapsedKeeps` say what
  `convertHtmlTable` and the collapsing of blank lines leave of a list of lines.
* `PagesAreIndexed` (`Tokenizes`) puts this and `NothingLost` together: a line of the
  raw page that may not go is a heading of the content or lies in a chunk.
* `FencesAreWhole`, `TablesAreWhole`, `QuotedFencesAreWhole` (`Tokenizes`):
  `FencesStayWhole`, `TablesStayWhole` and `QuotedFencesStayWhole`, and with them
  `RegionsStayWhole` (`RegionsAreWhole`), the conjunction the run checks; from
  `RegionInv`, which joins `TypeInv`, `DocumentInv` and `CleanerInv` with two more,
  `WholeInv` and `PlacedInv`. The properties relate the lines of the raw page to the chunks, and between the two
  lie a cleaner that moves lines, a scan for headings, mergers, and a second
  scan whose trackers start anew in each section. The argument has two halves.
  * *In the chunker* (`DocumentProofs`): `Tied(z)` says, of the content alone,
    that line `z` may not be parted from the one before it: it follows a line
    in a fence, both are rows, or both are in one table or in one quoted fence that
    the quote of no marker without its counterpart reaches (`Quiet`).
    `WholeInv` says that whatever the stage, each section, group, body, chunk and
    buffer holds all or none of the lines tied together (`Closed`), and, while
    lines are scanned, that the trackers have what the next line needs:
    inside a fence if `Fenced`, inside a table with no more tokens counted than
    its lines have (`LineTokens`, which is where the bound comes in). That the scans
    agree although they start at different lines is the point: `HeadingsUntied` says
    that a heading the first scan takes for structure is tied on neither side,
    `NothingIsOpen` that trackers which start anew are right before a line that is
    not tied, and `TiedToAtomic` that the second scan does not take the line
    before a tied one for a place to break. A chunk's body is the
    `Trimmed` of a closed set, so tied lines with text between them are in one
    chunk (`TiedLinesInOneChunk`).
  * *In the cleaner* (`CleaningProofs`): `PlacedInv` says where the lines of the page
    are in what is output. `OutputAt(i)` is the line whose reading outputs line
    `i`: itself, or the end tag of the table it is held back with. The output is
    `Sorted` by that; a line is inside a fence of the output exactly if that line is
    inside one of the page (`FencesKept`); a table that closes comes out with its
    end tag, or as rows only (`TablesKept`); and the line before a quoted one is the
    one that was, or is not quoted (`QuotesKept`). None is inductive without
    `BufferWhole` (the buffer holds all lines of its table but the markers, so its
    conversion sees each header row), and `CollapsedPlaced` shows that dropping
    blank lines, which moves every position behind them, keeps them all.
  * `FenceTies`, `RowsTie`, `TagTableTies` and `QuoteTies` join the halves: what lies
    in the content between two lines of a region is tied. `QuoteStands` takes a quote
    from the page to the content, with the prose and the fences before the one in
    question, whose markers it counts there (an even number, as in the page), and
    `QuoteEnds` the line that ends a quote.

`AskProofs`, for any finite set of requests and sources and any chunks:

* `Invariance`: `AskInv`, in parts. `ProgressInv` says what a request holds and has
  sent by where it stands; `RecordInv` and `Served`, what its row is; `OriginInv` and
  `EntryInv`, where its chunks came from. For the last two the model has no
  history of all corpora, as `CorpusHistory` has: `Known(k, V)` says that there was a
  corpus of version `k` with visible chunks `V`, as far as the corpus of today
  still shows it: some stamping of the sources, all below the mark, that agrees
  with today's wherever today's is not newer. `KnownStays` shows that a change of
  the corpus does not undo this, `KnownAgrees` that for the version of today it
  leaves only the corpus of today, `KnownNow` that reading a version makes it
  true.
* `TypeCorrect`, `RecordedOnce`, `RowsAreAsServed`, `FailuresLeaveNoTrace`,
  `EntriesStayCurrent`, `DoneComesLast`: the properties of `ask_pair`, from it. The
  second needs that a transaction that is retried left nothing, which holds as
  only a foreign key's refusal leads to the retry.

`LlmRouterProofs`, for chains of every length, any kinds and numbers of chunks:

* `Invariance`: `RouterInv`, which adds to the types where the link at `at`
  stands by `pc` (`Stand`), that those before it broke and those after were
  never opened (`Others`), what `failures`, `reason` and `blamed` say
  (`Accounts`), and that what was given is the text of the chosen link's wire
  (`Deltas`). None of the properties is inductive alone: that a delta is of the
  chosen link needs `Stand`, the quoted failure needs that `failures` lists
  exactly the links passed, and an empty hand before a link is chosen needs
  that no chunk with text has come.
* `OneLinkAnswers`, `OutcomesNameTheirLinks`, `NothingIsLeftOpen`,
  `EndsAreTheLinks`, `AnswersAreFinal`: the properties of the run, from it.
* `OutcomesAreWhole`: `OutcomeIsWhole`, with `Reports`: for every link, `usage` and
  `finish` are the last chunk so far that had one.
* `RouterIsAProvider`: `LlmRouter` implements `LlmProvider`.

`ThrottleProofs`, for every finite set of requests, any routes, limit and window:

* `TypeCorrect`, with `ExpiriesAreNear`: a reply's PTTL is within the window
  because no expiry is further away than that.
* `CountedKeysAlwaysExpire`: from the same, for keys that were meddled with too.
* `Invariance`: `ThrottleInv`, about the counters nothing meddled with. A counter
  ends a window after it began (`CountersAreDated`), a count is of the counter
  there is or of one whose window was over when this one began
  (`CountsAreDated`), so two counters never share a window, and within one no
  two requests share a count (`CountsAreApart`).
* `NeverOverLimit`: the admitted requests of a window map one-to-one to
  `1..Limit` by their counts. `RetryAfterSuffices`: rounding up to whole seconds
  never falls short of the expiry the reply was computed from.
* `RefusalsAreOverLimit`: a counter is the number of the requests it counted and
  of the counts that were second ones (`Tallies`).

Assumptions: the named `ASSUME`s of `Corpus`, `Ask`, `Ingestion`, `LlmRouter`,
`Throttle`, `Chunker` and `Document`, which TLC evaluates in every run that uses
them, and `Timely`, `Tokenizes`, `Weighs` and `Joins` where a theorem states them. The
last two are what one expects of `gpt-tokenizer`'s `encode`, which first splits a
text into pieces that do not reach over a line break into the words behind it;
they are assumed of it, not proved. The run `document` satisfies all three: its
`Weight` is a sum of two cardinalities. That the target is not 0 is the code's
own constant (`chunker.ts`).

Every safety property of a passing run is proved. Only model-checked: all liveness,
which is out of the prover's reach under fairness. The one recursive function,
`LineTokens`, is shown to be a sum (`LineTokensSum`) without the library's induction
theorems: a set of naturals that holds with a number the one before it is
empty (`NoneIsFirst`).

## 6. Not modelled

Rank fusion and its tie-breaking (`Fused` allows any outcome); prices and the
cost report, whose two queries see two snapshots; the loader's walk of the
files; of the cleaner, the removal of figures and of banner components, and how a
cell is rendered (they change what a line says, not where it goes), and rows that
share a line or span several; what the embedding cache holds (its entries are
keyed by all they depend on, so `Embed` gets the same vector either way); parsing
of `LLM_CHAIN`; which address a request is counted under (express' trust proxy);
the question hash and the configuration fingerprint (fixed); schema columns no
property speaks of; boot, shutdown, logging, health. Row locks of the citation
insert are not modelled, so a deadlock between recording and a cascading delete
shows only as a failed transaction.

## 7. What could come next

1. `Ask` over the router: its `llm` step as an `INSTANCE` of `LlmProvider`, so
   that what is recorded of a half-given answer follows from the interface.
2. `Fusion`: reciprocal rank fusion against a reference definition over bounded
   lists.
