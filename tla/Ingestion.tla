------------------------------ MODULE Ingestion -------------------------------
(***************************************************************************)
(* IngestionService and IngestionRepository: runs that claim a source row, *)
(* clear what an earlier run stored, fetch the tree, store one document    *)
(* per transaction and mark the row ready or failed, while a timer renews  *)
(* the claim, other runs and DELETE /sources/:id act on the same rows, and *)
(* any run may die between two of its steps.                               *)
(*                                                                         *)
(* A step of a run is one statement or transaction of Postgres together    *)
(* with the local code up to the next one.  Every write stamps updated_at  *)
(* with now() of its own transaction, which may lag its commit by TxMax.   *)
(* The clear transaction is two steps because under READ COMMITTED its     *)
(* DELETE does not see what commits before its UPDATE.                     *)
(***************************************************************************)
EXTENDS Integers, FiniteSets

CONSTANTS Id,             \* values gen_random_uuid() may give a sources row
          Uri,
          Run,            \* calls of startIngestion or ingestInline
          Path,           \* document paths; loaded files are sorted by path
          None,
          Lease,          \* leaseMs
          Gap,            \* longest time a working run goes without a renewal
          TxMax,          \* longest time between a transaction's now() and its commit
          MayLoseReply,   \* can markReady commit and its caller see an error?
          MaxTime         \* bound on the clock

ASSUME IngestionAssumption ==
    /\ IsFiniteSet(Id)
    /\ None \notin Id \cup Int
    /\ None \notin Uri
    /\ None \notin Run
    /\ Path \subseteq Nat
    /\ IsFiniteSet(Path)
    /\ Lease \in Nat /\ Gap \in Nat /\ TxMax \in Nat /\ MaxTime \in Nat
    /\ MayLoseReply \in BOOLEAN

VARIABLES now,            \* the database clock
          \* the sources table, by id
          status, uri, updatedAt, documentCount,
          documents,      \* rows of documents, each with the run that stored it
          \* the runs
          pc,
          target,         \* the uri a run was asked to ingest
          id,             \* the row it works on
          staleBefore,    \* databaseNow() - leaseMs, as it computed it
          files,          \* documents the fetched tree holds
          todo,           \* those the loop has not come to yet
          skipped,        \* those that did not parse or gave no chunks
          snapshot,       \* rows the DELETE of its open clear transaction removed
          armed,          \* runs whose heartbeat timer is set
          inflight,       \* runs with a touchProcessing on its way to Postgres
          \* history
          beat,           \* when a run last renewed its claim
          holder,         \* the run that created or last claimed a row
          markedBy        \* the run whose mark a 'ready' or 'failed' row bears

vars == <<now, status, uri, updatedAt, documentCount, documents, pc, target, id,
          staleBefore, files, todo, skipped, snapshot, armed, inflight, beat,
          holder, markedBy>>

rowVars  == <<status, uri, updatedAt, documentCount, documents, holder, markedBy>>
timers   == <<armed, inflight>>
pipeline == <<files, todo, skipped, snapshot>>

Running == {"pending", "processing"}            \* RUNNING_STATUSES
Live    == Running \cup {"ready", "failed"}     \* the row is in the table
Statuses == Live \cup {"absent", "deleted"}

Claiming == {"find", "create", "refind", "clock", "claim"}
Pipeline == {"fetch", "docs", "ready"}         \* inside the try of runPipeline
Holding  == {"clear", "clearing", "fail"} \cup Pipeline
Ended    == {"done", "failed", "refused", "errored", "lost"}

Document == [source : Id, path : Path, run : Run]

Working(r) == pc[r] \in Holding
Exists(i)  == status[i] \in Live
DocumentsOf(i) == {d \in documents : d.source = i}
RowsFor(u) == {i \in Id : Exists(i) /\ uri[i] = u}

Init ==
    /\ now = 0
    /\ status = [i \in Id |-> "absent"]
    /\ uri = [i \in Id |-> None]
    /\ updatedAt = [i \in Id |-> 0]
    /\ documentCount = [i \in Id |-> 0]
    /\ documents = {}
    /\ pc = [r \in Run |-> "idle"]
    /\ target = [r \in Run |-> None]
    /\ id = [r \in Run |-> None]
    /\ staleBefore = [r \in Run |-> 0]
    /\ files = [r \in Run |-> {}]
    /\ todo = [r \in Run |-> {}]
    /\ skipped = [r \in Run |-> {}]
    /\ snapshot = [r \in Run |-> {}]
    /\ armed = {}
    /\ inflight = {}
    /\ beat = [r \in Run |-> 0]
    /\ holder = [i \in Id |-> None]
    /\ markedBy = [i \in Id |-> None]

-------------------------------------------------------------------------------
(***************************************************************************)
(* What the statements do to a row.  An UPDATE of a row that is gone       *)
(* matches nothing and is no error.                                        *)
(***************************************************************************)
\* mutant: an application clock that runs ahead of the database
StampsOfAnotherClock == {t \in 0..(now + 1) : now <= t + TxMax}

Stamps == {t \in 0..now : now <= t + TxMax}

Stamped(i, t) == IF Exists(i) THEN [updatedAt EXCEPT ![i] = t] ELSE updatedAt
\* mutant: the status moves on from 'pending' only
MarkedFromPending(i, s) ==
    IF status[i] = "pending" THEN [status EXCEPT ![i] = s] ELSE status

Marked(i, s)  == IF Exists(i) THEN [status EXCEPT ![i] = s] ELSE status
Counted(i, n) == IF Exists(i) THEN [documentCount EXCEPT ![i] = n]
                              ELSE documentCount
Signed(i, r) == IF Exists(i) THEN [markedBy EXCEPT ![i] = r] ELSE markedBy

Goto(r, label) == pc' = [pc EXCEPT ![r] = label]
Renew(r) == beat' = [beat EXCEPT ![r] = now]

\* databaseNow() - leaseMs
LeaseStart == now - Lease

\* mutant: read, then write without re-checking
AlwaysClaimable(i, before) == Exists(i)

\* mutant: a running row is never claimable, however old
ClaimableUnlessRunning(i, before) == Exists(i) /\ status[i] \notin Running

\* mutant: claimable as soon as the lease is reached
ClaimableAtLease(i, before) ==
    Exists(i) /\ (status[i] \notin Running \/ updatedAt[i] <= before)

\* The WHERE of claimForProcessing.
Claimable(i, before) ==
    /\ Exists(i)
    /\ status[i] \notin Running \/ updatedAt[i] < before

\* mutant: the guard on 'processing' is dropped
TouchableWheneverThere(i) == Exists(i)

\* The WHERE of touchProcessing.
Touchable(i) == status[i] = "processing"

\* mutant: only the counts are reset
ClearedCountsOnly(r) == documents

\* What the open transaction of deleteSourceContent leaves in documents.
Cleared(r) == documents \ snapshot[r]

\* mutant: documents.source_id without its foreign key
RefusedByPathOnly(i, p) == \E d \in DocumentsOf(i) : d.path = p

\* The INSERT is refused: the row is gone (foreign key) or has this path (unique).
Refused(i, p) == ~Exists(i) \/ \E d \in DocumentsOf(i) : d.path = p

\* The INSERT must wait for a transaction that is deleting the same path.
Blocked(i, p) ==
    \E q \in Run :
        /\ pc[q] = "clearing"
        /\ \E d \in snapshot[q] : d.source = i /\ d.path = p

\* The loop takes the documents in path order.
Due(r) == {p \in todo[r] : \A q \in todo[r] : p <= q}

-------------------------------------------------------------------------------
(* claimSource and reuse *)

Start(r) ==
    /\ pc[r] = "idle"
    /\ \E u \in Uri : target' = [target EXCEPT ![r] = u]
    /\ Goto(r, "find")
    /\ UNCHANGED <<now, rowVars, id, staleBefore, pipeline, timers, beat>>

\* findSourceByUri: an existing row is reused, else the run does `otherwise`.
LookUp(r, otherwise) ==
    /\ IF RowsFor(target[r]) = {}
         THEN Goto(r, otherwise) /\ UNCHANGED id
         ELSE /\ \E i \in RowsFor(target[r]) : id' = [id EXCEPT ![r] = i]
              /\ Goto(r, "clock")
    /\ UNCHANGED <<now, rowVars, target, staleBefore, pipeline, timers, beat>>

FindSource(r) == pc[r] = "find" /\ LookUp(r, "create")

\* After the unique violation; a row that is gone again is a 500.
FindWinner(r) == pc[r] = "refind" /\ LookUp(r, "errored")

CreateSource(r) ==
    /\ pc[r] = "create"
    /\ RowsFor(target[r]) = {}
    /\ \E i \in Id, t \in Stamps :
          /\ status[i] = "absent"
          /\ status' = [status EXCEPT ![i] = "pending"]
          /\ uri' = [uri EXCEPT ![i] = target[r]]
          /\ updatedAt' = [updatedAt EXCEPT ![i] = t]
          /\ holder' = [holder EXCEPT ![i] = r]
          /\ id' = [id EXCEPT ![r] = i]
    /\ Goto(r, "fetch")
    /\ Renew(r)
    /\ UNCHANGED <<now, documentCount, documents, markedBy, target, staleBefore,
                   pipeline, timers>>

CreateLosesRace(r) ==
    /\ pc[r] = "create"
    /\ RowsFor(target[r]) # {}
    /\ Goto(r, "refind")
    /\ UNCHANGED <<now, rowVars, target, id, staleBefore, pipeline, timers, beat>>

ReadClock(r) ==
    /\ pc[r] = "clock"
    /\ staleBefore' = [staleBefore EXCEPT ![r] = LeaseStart]
    /\ Goto(r, "claim")
    /\ UNCHANGED <<now, rowVars, target, id, pipeline, timers, beat>>

\* claimForProcessing: one conditional UPDATE.
Claim(r) ==
    /\ pc[r] = "claim"
    /\ Claimable(id[r], staleBefore[r])
    /\ status' = [status EXCEPT ![id[r]] = "processing"]
    /\ \E t \in Stamps : updatedAt' = [updatedAt EXCEPT ![id[r]] = t]
    /\ holder' = [holder EXCEPT ![id[r]] = r]
    /\ markedBy' = [markedBy EXCEPT ![id[r]] = None]
    /\ Goto(r, "clear")
    /\ Renew(r)
    /\ UNCHANGED <<now, uri, documentCount, documents, target, id, staleBefore,
                   pipeline, timers>>

\* No row came back: 409, whatever the reason.
ClaimRefused(r) ==
    /\ pc[r] = "claim"
    /\ ~Claimable(id[r], staleBefore[r])
    /\ Goto(r, "refused")
    /\ UNCHANGED <<now, rowVars, target, id, staleBefore, pipeline, timers, beat>>

\* deleteSourceContent: the DELETE ...
BeginClear(r) ==
    /\ pc[r] = "clear"
    /\ snapshot' = [snapshot EXCEPT ![r] = DocumentsOf(id[r])]
    /\ Goto(r, "clearing")
    /\ UNCHANGED <<now, rowVars, target, id, staleBefore, files, todo, skipped,
                   timers, beat>>

\* ... and the UPDATE and COMMIT.
CommitClear(r) ==
    /\ pc[r] = "clearing"
    /\ documents' = Cleared(r)
    /\ documentCount' = Counted(id[r], 0)
    /\ \E t \in Stamps : updatedAt' = Stamped(id[r], t)
    /\ snapshot' = [snapshot EXCEPT ![r] = {}]
    /\ Goto(r, "fetch")
    /\ Renew(r)
    /\ UNCHANGED <<now, status, uri, holder, markedBy, target, id, staleBefore,
                   files, todo, skipped, timers>>

-------------------------------------------------------------------------------
(* runPipeline *)

\* fetchSource succeeded, with the documents F in the tree; markProcessing, and
\* the heartbeat timer is set.
MarkProcessing(r) ==
    /\ pc[r] = "fetch"
    /\ status' = Marked(id[r], "processing")
    /\ markedBy' = Signed(id[r], None)
    /\ \E t \in Stamps : updatedAt' = Stamped(id[r], t)
    /\ \E F \in SUBSET Path : /\ files' = [files EXCEPT ![r] = F]
                              /\ todo' = [todo EXCEPT ![r] = F]
    /\ armed' = armed \cup {r}
    /\ Goto(r, "docs")
    /\ Renew(r)
    /\ UNCHANGED <<now, uri, documentCount, documents, holder, target, id,
                   staleBefore, skipped, snapshot, inflight>>

\* A document that does not parse, or has no chunks.
SkipDocument(r) ==
    /\ pc[r] = "docs"
    /\ \E p \in Due(r) :
          /\ skipped' = [skipped EXCEPT ![r] = @ \cup {p}]
          /\ todo' = [todo EXCEPT ![r] = @ \ {p}]
    /\ UNCHANGED <<now, rowVars, pc, target, id, staleBefore, files, snapshot,
                   timers, beat>>

\* insertDocumentWithChunks
StoreDocument(r) ==
    /\ pc[r] = "docs"
    /\ \E p \in Due(r) :
          /\ ~Blocked(id[r], p)
          /\ ~Refused(id[r], p)
          /\ documents' = documents \cup
                            {[source |-> id[r], path |-> p, run |-> r]}
          /\ todo' = [todo EXCEPT ![r] = @ \ {p}]
    /\ documentCount' = Counted(id[r], documentCount[id[r]] + 1)
    /\ \E t \in Stamps : updatedAt' = Stamped(id[r], t)
    /\ Renew(r)
    /\ UNCHANGED <<now, status, uri, holder, markedBy, pc, target, id, staleBefore,
                   files, skipped, snapshot, timers>>

StoreRefused(r) ==
    /\ pc[r] = "docs"
    /\ \E p \in Due(r) : ~Blocked(id[r], p) /\ Refused(id[r], p)
    /\ Goto(r, "fail")
    /\ UNCHANGED <<now, rowVars, target, id, staleBefore, pipeline, timers, beat>>

RecordSkipped(r) ==
    /\ pc[r] = "docs"
    /\ todo[r] = {}
    /\ \E t \in Stamps : updatedAt' = Stamped(id[r], t)
    /\ Goto(r, "ready")
    /\ Renew(r)
    /\ UNCHANGED <<now, status, uri, documentCount, documents, holder, markedBy,
                   target, id, staleBefore, pipeline, timers>>

\* markReady; the timer is cleared on the way out.  Should the reply be lost, the
\* catch of runPipeline goes on to mark the row failed.
MarkReady(r) ==
    /\ pc[r] = "ready"
    /\ status' = Marked(id[r], "ready")
    /\ markedBy' = Signed(id[r], r)
    /\ \E t \in Stamps : updatedAt' = Stamped(id[r], t)
    /\ \/ Goto(r, "done") /\ armed' = armed \ {r}
       \/ MayLoseReply /\ Goto(r, "fail") /\ UNCHANGED armed
    /\ Renew(r)
    /\ UNCHANGED <<now, uri, documentCount, documents, holder, target, id,
                   staleBefore, pipeline, inflight>>

\* Anything the try of runPipeline awaits may throw, before or after its effect:
\* the fetch, reading the tree, the embedding provider, the database.
PipelineFails(r) ==
    /\ pc[r] \in Pipeline
    /\ Goto(r, "fail")
    /\ UNCHANGED <<now, rowVars, target, id, staleBefore, pipeline, timers, beat>>

\* The catch: markFailed by id, whoever holds the row.
MarkFailed(r) ==
    /\ pc[r] = "fail"
    /\ status' = Marked(id[r], "failed")
    /\ markedBy' = Signed(id[r], r)
    /\ \E t \in Stamps : updatedAt' = Stamped(id[r], t)
    /\ armed' = armed \ {r}
    /\ Goto(r, "failed")
    /\ Renew(r)
    /\ UNCHANGED <<now, uri, documentCount, documents, holder, target, id,
                   staleBefore, pipeline, inflight>>

\* The process dies, or a query outside the try (claimSource, reuse, markFailed)
\* fails; an open transaction is rolled back.
Abandon(r) ==
    /\ pc[r] \notin Ended \cup {"idle"}
    /\ Goto(r, "lost")
    /\ snapshot' = [snapshot EXCEPT ![r] = {}]
    /\ armed' = armed \ {r}
    /\ UNCHANGED <<now, rowVars, target, id, staleBefore, files, todo, skipped,
                   inflight, beat>>

-------------------------------------------------------------------------------
(* The heartbeat, DELETE /sources/:id and the clock *)

SendHeartbeat(r) ==
    /\ r \in armed \ inflight
    /\ inflight' = inflight \cup {r}
    /\ UNCHANGED <<now, rowVars, pc, target, id, staleBefore, pipeline, armed, beat>>

\* touchProcessing, which clearInterval does not recall.
LandHeartbeat(r) ==
    /\ r \in inflight
    /\ inflight' = inflight \ {r}
    /\ IF Touchable(id[r])
         THEN \E t \in Stamps : updatedAt' = [updatedAt EXCEPT ![id[r]] = t]
         ELSE UNCHANGED updatedAt
    /\ Renew(r)
    /\ UNCHANGED <<now, status, uri, documentCount, documents, holder, markedBy, pc,
                   target, id, staleBefore, pipeline, armed>>

\* A missed heartbeat is logged and otherwise ignored.
LoseHeartbeat(r) ==
    /\ r \in inflight
    /\ inflight' = inflight \ {r}
    /\ UNCHANGED <<now, rowVars, pc, target, id, staleBefore, pipeline, armed, beat>>

\* deleteSource, which cascades to documents.  A clear of the same row that has
\* deleted documents holds locks the cascade needs and needs the row lock the
\* DELETE holds.  Postgres finds the deadlock and aborts one of the two: here the
\* clear (a 500).  Where it aborts the DELETE, nothing has happened.
DeleteSource(i) ==
    /\ Exists(i)
    /\ status' = [status EXCEPT ![i] = "deleted"]
    /\ documents' = documents \ DocumentsOf(i)
    /\ LET victim(r) == pc[r] = "clearing" /\ id[r] = i /\ snapshot[r] # {}
       IN  /\ pc' = [r \in Run |-> IF victim(r) THEN "errored" ELSE pc[r]]
           /\ snapshot' = [r \in Run |-> IF victim(r) THEN {} ELSE snapshot[r]]
    /\ UNCHANGED <<now, uri, updatedAt, documentCount, holder, markedBy, target, id,
                   staleBefore, files, todo, skipped, timers, beat>>

\* Time does not pass while a working run would go longer than Gap unrenewed.
Tick ==
    /\ now < MaxTime
    /\ \A r \in Run : Working(r) => now < beat[r] + Gap
    /\ now' = now + 1
    /\ UNCHANGED <<rowVars, pc, target, id, staleBefore, pipeline, timers, beat>>

-------------------------------------------------------------------------------
\* What a run does unless something fails.
Advance(r) ==
    \/ FindSource(r)
    \/ CreateSource(r)
    \/ CreateLosesRace(r)
    \/ FindWinner(r)
    \/ ReadClock(r)
    \/ Claim(r)
    \/ ClaimRefused(r)
    \/ BeginClear(r)
    \/ CommitClear(r)
    \/ MarkProcessing(r)
    \/ SkipDocument(r)
    \/ StoreDocument(r)
    \/ StoreRefused(r)
    \/ RecordSkipped(r)
    \/ MarkReady(r)
    \/ MarkFailed(r)

Next ==
    \/ Tick
    \/ \E i \in Id : DeleteSource(i)
    \/ \E r \in Run :
          \/ Start(r)
          \/ Advance(r)
          \/ PipelineFails(r)
          \/ Abandon(r)
          \/ SendHeartbeat(r)
          \/ LandHeartbeat(r)
          \/ LoseHeartbeat(r)

Spec == Init /\ [][Next]_vars

\* An awaited query or computation ends: each run that can advance does.  A
\* request in flight is answered or lost.
Fairness ==
    \A r \in Run : /\ WF_vars(Advance(r))
                   /\ WF_vars(LandHeartbeat(r) \/ LoseHeartbeat(r))

FairSpec == Spec /\ Fairness

-------------------------------------------------------------------------------
(***************************************************************************)
(* What claimForProcessing and its lease are for needs the lease to outlast *)
(* the longest silence of a live run, and markReady's outcome to be known. *)
(***************************************************************************)
Timely == Gap + TxMax <= Lease /\ ~MayLoseReply

\* Type correctness; a run past its look-up has a row, and stamps come from the
\* database clock, so never from its future.
TypeOK ==
    /\ now \in Nat
    /\ status \in [Id -> Statuses]
    /\ uri \in [Id -> Uri \cup {None}]
    /\ updatedAt \in [Id -> Nat]
    /\ \A i \in Id : updatedAt[i] <= now
    /\ documentCount \in [Id -> Nat]
    /\ documents \subseteq Document
    /\ pc \in [Run -> Claiming \cup Holding \cup Ended \cup {"idle"}]
    /\ target \in [Run -> Uri \cup {None}]
    /\ id \in [Run -> Id \cup {None}]
    /\ \A r \in Run :
          (pc[r] \in {"clock", "claim"} \cup Holding \/ r \in armed \cup inflight)
            => id[r] \in Id
    /\ staleBefore \in [Run -> Int]
    /\ files \in [Run -> SUBSET Path]
    /\ todo \in [Run -> SUBSET Path]
    /\ skipped \in [Run -> SUBSET Path]
    /\ snapshot \in [Run -> SUBSET Document]
    /\ armed \subseteq Run
    /\ inflight \subseteq Run
    /\ beat \in [Run -> Nat]
    /\ holder \in [Id -> Run \cup {None}]
    /\ markedBy \in [Id -> Run \cup {None}]

\* What the run that holds a row has stored for it, and nothing else, is there.
Whole(i) ==
    LET r == holder[i]
    IN  /\ DocumentsOf(i) =
             {[source |-> i, path |-> p, run |-> r] : p \in files[r] \ skipped[r]}
        /\ documentCount[i] = Cardinality(files[r] \ skipped[r])

\* Two runs never work on one source at a time (the claim of reuse, and the
\* unique uri for a first run), as long as live runs renew within the lease.
OneWriter ==
    \A r, q \in Run : Working(r) /\ Working(q) /\ id[r] = id[q] => r = q

\* A source that reads 'ready' holds exactly the documents of one finished run,
\* every one that parsed, none of an earlier generation, and counts them right.
ReadyIsWhole ==
    \A i \in Id : status[i] = "ready" =>
        /\ holder[i] \in Run
        /\ pc[holder[i]] = "done"
        /\ Whole(i)

(***************************************************************************)
(* Why those two hold: the inductive invariant.                            *)
(***************************************************************************)

\* A working run is the one its row was last created or claimed by, has renewed
\* within Gap, and its row, unless deleted, is running with a stamp that recent.
RunsHoldTheirRows ==
    \A r \in Run : Working(r) =>
        /\ status[id[r]] # "absent"
        /\ holder[id[r]] = r
        /\ now <= beat[r] + Gap
        /\ Exists(id[r]) =>
              /\ status[id[r]] \in Running
              /\ r \in armed \cup inflight => status[id[r]] = "processing"
              /\ beat[r] <= updatedAt[id[r]] + TxMax

\* A run got the row it is about to claim from the table, dated the claim at least
\* a lease before now, and has no heartbeat yet.
ClaimsAreDated ==
    \A r \in Run :
        /\ beat[r] <= now
        /\ pc[r] \in {"clock", "claim"} => status[id[r]] # "absent"
        /\ pc[r] = "claim" => staleBefore[r] + Lease <= now
        /\ pc[r] \in Claiming \cup {"idle"} => r \notin armed \cup inflight

\* What run r finds in its row at each of its steps.
AsLeft(r) ==
    /\ pc[r] \in Claiming \cup {"idle", "clear", "clearing", "fetch"}
         => skipped[r] = {}
    /\ pc[r] = "clearing" => snapshot[r] = DocumentsOf(id[r])
    /\ pc[r] = "fetch" => /\ DocumentsOf(id[r]) = {}
                          /\ Exists(id[r]) => documentCount[id[r]] = 0
    /\ pc[r] \in {"docs", "ready"} =>
          /\ todo[r] \subseteq files[r] \ skipped[r]
          /\ Exists(id[r]) =>
                LET stored == (files[r] \ skipped[r]) \ todo[r]
                IN  /\ DocumentsOf(id[r]) =
                         {[source |-> id[r], path |-> p, run |-> r] : p \in stored}
                    /\ documentCount[id[r]] = Cardinality(stored)
    /\ pc[r] = "ready" => todo[r] = {}

RowsAreAsLeft ==
    /\ \A i \in Id : ~Exists(i) => DocumentsOf(i) = {}
    /\ \A i \in Id : status[i] = "absent" => documentCount[i] = 0
    /\ \A r \in Run : AsLeft(r)

IngestionInv ==
    /\ TypeOK
    /\ RunsHoldTheirRows
    /\ ClaimsAreDated
    /\ RowsAreAsLeft
    /\ ReadyIsWhole

\* However late timers are and whatever replies get lost, a source is claimed from
\* the run that holds it for one of three reasons only: that run went unrenewed for
\* leaseMs (give or take a transaction's length), it marked the row itself and is
\* done with it (or does not know it did), or another run, which held the row before
\* and goes on after it was overtaken, has marked the row under its hands.
TakenOnlyIfLapsedOrMarked ==
    [][\A i \in Id, r \in Run : holder[i] = r /\ holder'[i] # r =>
          \/ beat[r] + Lease <= now + TxMax
          \/ markedBy[i] = r /\ (pc[r] \in {"done", "failed"} \/ MayLoseReply)
          \/ markedBy[i] \in Run \ {r}]_vars

\* A call is refused only for a run that renewed its claim less than leaseMs before
\* the call looked at the clock: whatever a dead run, a failed clear or a failed
\* markFailed left 'processing' is free for the next call once the lease is over.
RefusedOnlyWhileRenewed ==
    [][\A r \in Run : ClaimRefused(r) /\ Exists(id[r]) =>
          \E q \in Run \ {r} : id[q] = id[r] /\ staleBefore[r] <= beat[q]]_vars

\* DELETE is final: nothing a run still working on the row does brings the row or
\* any document of it back.
DeleteIsFinal ==
    /\ [](\A i \in Id : ~Exists(i) => DocumentsOf(i) = {})
    /\ [][\A i \in Id : status[i] = "deleted" => status'[i] = "deleted"]_vars

\* A source does not stay 'pending' or 'processing' unless a run on it was lost.
SourcesSettle ==
    \A i \in Id : status[i] \in Running ~>
        \/ status[i] \notin Running
        \/ \E r \in Run : id[r] = i /\ pc[r] = "lost"

\* What touchProcessing's comment says: a heartbeat only ever extends the run that
\* still holds the source, never one that has finished or was reclaimed.
HeartbeatExtendsHolder ==
    [][\A r \in Run, i \in Id :
          LandHeartbeat(r) /\ updatedAt'[i] # updatedAt[i] => holder[i] = r]_vars

\* What deleteSourceContent's comment says: re-ingesting replaces the content, no
\* two generations compete in search.
OneGeneration ==
    \A i \in Id : status[i] = "ready" =>
        \A d, e \in DocumentsOf(i) : d.run = e.run

\* What the answering side reads of the rows: a source's documents, and the stamp
\* of a source whose status is 'ready'.
contentSeen == [i \in Id |-> {<<d.path, d.run>> : d \in DocumentsOf(i)}]
stampSeen == [i \in Id |-> IF status[i] = "ready" THEN updatedAt[i] ELSE None]

Readers == INSTANCE Corpus WITH
    Source  <- Id,
    Chunk   <- Path \X Run,
    Hidden  <- None,
    content <- contentSeen,
    stamp   <- stampSeen

\* Ingestion shows its readers what Corpus.tla promises them.
ImplementsCorpus == Readers!CorpusSpec
===============================================================================
