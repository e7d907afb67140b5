--------------------------- MODULE IngestionProofs ----------------------------
(***************************************************************************)
(* Proofs about Ingestion for every set of runs, rows, uris and paths and  *)
(* every value of the clocks: type correctness (with stamps never from the *)
(* future), then, when the lease outlasts the silence of live runs, that   *)
(* no source has two writers, that a ready source is whole, and that       *)
(* readers see no more than Corpus allows.                                 *)
(***************************************************************************)
EXTENDS Ingestion, FiniteSetTheorems, TLAPS

-------------------------------------------------------------------------------
(* Type correctness *)

\* The clock stamps with the present or the past.
LEMMA StampsType ==
    ASSUME TypeOK
    PROVE  \A t \in Stamps : t \in Nat /\ t <= now /\ now <= t + TxMax
BY IngestionAssumption DEF TypeOK, Stamps

\* An UPDATE of any row, there or not, keeps the columns well-typed.
LEMMA UpdateType ==
    ASSUME TypeOK, NEW i
    PROVE  /\ \A t \in Stamps : /\ Stamped(i, t) \in [Id -> Nat]
                                /\ \A j \in Id : Stamped(i, t)[j] <= now
           /\ \A s \in Statuses : Marked(i, s) \in [Id -> Statuses]
           /\ \A n \in Nat : Counted(i, n) \in [Id -> Nat]
           /\ \A q \in Run \cup {None} : Signed(i, q) \in [Id -> Run \cup {None}]
<1>1. ASSUME NEW t \in Stamps
      PROVE  /\ Stamped(i, t) \in [Id -> Nat]
             /\ \A j \in Id : Stamped(i, t)[j] <= now
    BY <1>1, StampsType DEF Stamped, TypeOK
<1>2. ASSUME NEW s \in Statuses PROVE Marked(i, s) \in [Id -> Statuses]
    BY DEF Marked, TypeOK
<1>3. ASSUME NEW n \in Nat PROVE Counted(i, n) \in [Id -> Nat]
    BY DEF Counted, TypeOK
<1>4. ASSUME NEW q \in Run \cup {None} PROVE Signed(i, q) \in [Id -> Run \cup {None}]
    BY <1>4 DEF Signed, TypeOK
<1> QED BY <1>1, <1>2, <1>3, <1>4

LEMMA TypeInit == Init => TypeOK
BY IngestionAssumption
   DEF Init, TypeOK, Statuses, Live, Running, Claiming, Holding, Pipeline, Ended

LEMMA TypeClaiming ==
    ASSUME TypeOK, NEW r \in Run,
           Start(r) \/ FindSource(r) \/ CreateLosesRace(r) \/ FindWinner(r)
             \/ ReadClock(r) \/ ClaimRefused(r)
    PROVE  TypeOK'
<1> USE IngestionAssumption
        DEF TypeOK, rowVars, pipeline, timers, Goto,
            Claiming, Holding, Pipeline, Ended
<1>1. CASE Start(r) BY <1>1 DEF Start
<1>2. CASE FindSource(r) BY <1>2 DEF FindSource, LookUp, RowsFor
<1>3. CASE CreateLosesRace(r) BY <1>3 DEF CreateLosesRace
<1>4. CASE FindWinner(r) BY <1>4 DEF FindWinner, LookUp, RowsFor
<1>5. CASE ReadClock(r) BY <1>5 DEF ReadClock, LeaseStart
<1>6. CASE ClaimRefused(r) BY <1>6 DEF ClaimRefused
<1> QED BY <1>1, <1>2, <1>3, <1>4, <1>5, <1>6

LEMMA TypeRow ==
    ASSUME TypeOK, NEW r \in Run,
           CreateSource(r) \/ Claim(r) \/ BeginClear(r) \/ CommitClear(r)
             \/ MarkProcessing(r)
    PROVE  TypeOK'
<1>u. /\ \A t \in Stamps : /\ Stamped(id[r], t) \in [Id -> Nat]
                            /\ \A j \in Id : Stamped(id[r], t)[j] <= now
      /\ \A s \in Statuses : Marked(id[r], s) \in [Id -> Statuses]
      /\ \A n \in Nat : Counted(id[r], n) \in [Id -> Nat]
      /\ \A q \in Run \cup {None} : Signed(id[r], q) \in [Id -> Run \cup {None}]
    BY UpdateType
<1>t. \A t \in Stamps : t \in Nat /\ t <= now
    BY StampsType
<1> USE IngestionAssumption
        DEF TypeOK, rowVars, pipeline, timers, Goto, Renew,
            Claiming, Holding, Pipeline, Ended, Statuses, Live, Running
<1>1. CASE CreateSource(r) BY <1>1, <1>u, <1>t DEF CreateSource
<1>2. CASE Claim(r) BY <1>2, <1>u, <1>t DEF Claim, Claimable
<1>3. CASE BeginClear(r) BY <1>3, <1>u, <1>t DEF BeginClear, DocumentsOf
<1>4. CASE CommitClear(r) BY <1>4, <1>u, <1>t DEF CommitClear, Cleared
<1>5. CASE MarkProcessing(r) BY <1>5, <1>u, <1>t DEF MarkProcessing
<1> QED BY <1>1, <1>2, <1>3, <1>4, <1>5

LEMMA TypePipeline ==
    ASSUME TypeOK, NEW r \in Run,
           SkipDocument(r) \/ StoreDocument(r) \/ StoreRefused(r)
             \/ RecordSkipped(r) \/ MarkReady(r) \/ PipelineFails(r)
             \/ MarkFailed(r) \/ Abandon(r)
    PROVE  TypeOK'
<1>u. /\ \A t \in Stamps : /\ Stamped(id[r], t) \in [Id -> Nat]
                            /\ \A j \in Id : Stamped(id[r], t)[j] <= now
      /\ \A s \in Statuses : Marked(id[r], s) \in [Id -> Statuses]
      /\ \A n \in Nat : Counted(id[r], n) \in [Id -> Nat]
      /\ \A q \in Run \cup {None} : Signed(id[r], q) \in [Id -> Run \cup {None}]
    BY UpdateType
<1>t. \A t \in Stamps : t \in Nat /\ t <= now
    BY StampsType
<1> USE IngestionAssumption
        DEF TypeOK, rowVars, pipeline, timers, Goto, Renew,
            Claiming, Holding, Pipeline, Ended, Statuses, Live, Running
<1>1. CASE SkipDocument(r) BY <1>1, <1>u, <1>t DEF SkipDocument, Due
<1>2. CASE StoreDocument(r)
    <2>1. PICK p \in Due(r) :
             /\ ~Refused(id[r], p)
             /\ documents' = documents \cup
                               {[source |-> id[r], path |-> p, run |-> r]}
             /\ todo' = [todo EXCEPT ![r] = @ \ {p}]
        BY <1>2 DEF StoreDocument
    <2>2. id[r] \in Id /\ p \in Path
        BY <1>2, <2>1 DEF StoreDocument, Due
    <2>3. documents' \subseteq Document
        BY <2>1, <2>2 DEF Document
    <2> QED BY <1>2, <1>u, <1>t, <2>1, <2>2, <2>3 DEF StoreDocument
<1>3. CASE StoreRefused(r) BY <1>3, <1>u, <1>t DEF StoreRefused
<1>4. CASE RecordSkipped(r) BY <1>4, <1>u, <1>t DEF RecordSkipped
<1>5. CASE MarkReady(r)
    <2>1. pc' \in [Run -> Claiming \cup Holding \cup Ended \cup {"idle"}]
        BY <1>5 DEF MarkReady
    <2>2. armed' \subseteq armed /\ inflight' = inflight /\ id' = id
        BY <1>5 DEF MarkReady
    <2>3. \A q \in Run : q # r => pc'[q] = pc[q]
        BY <1>5 DEF MarkReady
    <2>4. id[r] \in Id
        BY <1>5 DEF MarkReady
    <2>5. \A q \in Run :
             (pc'[q] \in {"clock", "claim"} \cup Holding
                \/ q \in armed' \cup inflight')
               => id'[q] \in Id
        BY <2>2, <2>3, <2>4
    <2> QED BY <1>5, <1>u, <2>1, <2>2, <2>5 DEF MarkReady
<1>6. CASE PipelineFails(r) BY <1>6, <1>u, <1>t DEF PipelineFails
<1>7. CASE MarkFailed(r) BY <1>7, <1>u, <1>t DEF MarkFailed
<1>8. CASE Abandon(r) BY <1>8, <1>u, <1>t DEF Abandon
<1> QED BY <1>1, <1>2, <1>3, <1>4, <1>5, <1>6, <1>7, <1>8

LEMMA TypeOthers ==
    ASSUME TypeOK,
           \/ Tick
           \/ \E i \in Id : DeleteSource(i)
           \/ \E r \in Run : SendHeartbeat(r) \/ LandHeartbeat(r) \/ LoseHeartbeat(r)
    PROVE  TypeOK'
<1> USE IngestionAssumption, StampsType
        DEF TypeOK, rowVars, pipeline, timers, Renew,
            Claiming, Holding, Pipeline, Ended, Statuses, Live, Running, Exists
<1>1. CASE Tick BY <1>1 DEF Tick
<1>2. CASE \E i \in Id : DeleteSource(i) BY <1>2 DEF DeleteSource
<1>3. ASSUME NEW r \in Run,
             SendHeartbeat(r) \/ LandHeartbeat(r) \/ LoseHeartbeat(r)
      PROVE  TypeOK'
    BY <1>3 DEF SendHeartbeat, LandHeartbeat, LoseHeartbeat, Touchable
<1> QED BY <1>1, <1>2, <1>3

LEMMA TypeNext == TypeOK /\ [Next]_vars => TypeOK'
<1> SUFFICES ASSUME TypeOK, [Next]_vars PROVE TypeOK'
    OBVIOUS
<1>1. CASE Next
    BY <1>1, TypeClaiming, TypeRow, TypePipeline, TypeOthers DEF Next, Advance
<1>2. CASE UNCHANGED vars
    BY <1>2 DEF vars, TypeOK
<1> QED BY <1>1, <1>2

\* Whatever the lease, the delays and the failures, every state is well-typed and
\* no row carries a stamp from the database clock's future.
THEOREM TypeCorrect == Spec => []TypeOK
BY TypeInit, TypeNext, PTL DEF Spec

-------------------------------------------------------------------------------
(***************************************************************************)
(* Claims: while live runs renew in time, a claim never succeeds on a row  *)
(* another run is working on, so the holder of a row is its only writer.   *)
(***************************************************************************)

LEMMA DatedInit == Init => ClaimsAreDated
BY DEF Init, ClaimsAreDated

\* The date of a claim only gets older, and rows never become absent again.
LEMMA DatedNext ==
    ASSUME TypeOK, TypeOK', ClaimsAreDated, Next
    PROVE  ClaimsAreDated'
<1> USE IngestionAssumption
        DEF ClaimsAreDated, rowVars, pipeline, timers, Goto, Renew, Claiming
<1>u. \A i, s : Marked(i, s) = status \/
                (Exists(i) /\ Marked(i, s) = [status EXCEPT ![i] = s])
    BY DEF Marked
<1>1. CASE Tick
    <2>1. now' = now + 1 /\ now \in Nat
        BY <1>1 DEF Tick, TypeOK
    <2>2. \A r \in Run : beat[r] \in Nat /\ staleBefore[r] \in Int
        BY DEF TypeOK
    <2> QED BY <1>1, <2>1, <2>2 DEF Tick
<1>2. ASSUME NEW i \in Id, DeleteSource(i) PROVE ClaimsAreDated'
    BY <1>2 DEF DeleteSource, TypeOK
<1>3. ASSUME NEW r \in Run,
             Start(r) \/ FindSource(r) \/ FindWinner(r) \/ CreateLosesRace(r)
               \/ ReadClock(r) \/ ClaimRefused(r)
      PROVE  ClaimsAreDated'
    <2>1. \A i \in Id : Exists(i) => status[i] # "absent"
        BY DEF Exists, Live, Running
    <2>2. now \in Nat
        BY DEF TypeOK
    <2> QED BY <1>3, <2>1, <2>2
            DEF Start, FindSource, FindWinner, LookUp, RowsFor, CreateLosesRace,
                ReadClock, ClaimRefused, LeaseStart, TypeOK
<1>4. ASSUME NEW r \in Run, CreateSource(r) \/ Claim(r) PROVE ClaimsAreDated'
    BY <1>4 DEF CreateSource, Claim, TypeOK
<1>5. ASSUME NEW r \in Run,
             BeginClear(r) \/ CommitClear(r) \/ SkipDocument(r)
               \/ StoreDocument(r) \/ StoreRefused(r) \/ RecordSkipped(r)
               \/ PipelineFails(r) \/ Abandon(r) \/ SendHeartbeat(r)
               \/ LandHeartbeat(r) \/ LoseHeartbeat(r)
      PROVE  ClaimsAreDated'
    BY <1>5 DEF BeginClear, CommitClear, SkipDocument, StoreDocument,
                StoreRefused, RecordSkipped, PipelineFails, Abandon,
                SendHeartbeat, LandHeartbeat, LoseHeartbeat, TypeOK
<1>6. ASSUME NEW r \in Run, MarkProcessing(r) \/ MarkReady(r) \/ MarkFailed(r)
      PROVE  ClaimsAreDated'
    BY <1>6, <1>u DEF MarkProcessing, MarkReady, MarkFailed, TypeOK
<1> QED BY <1>1, <1>2, <1>3, <1>4, <1>5, <1>6 DEF Next, Advance

LEMMA HoldInit == Init => RunsHoldTheirRows
BY DEF Init, RunsHoldTheirRows, Working, Holding, Pipeline

\* The holder of a row is the only run at work on it.
LEMMA HolderIsOnlyWriter == RunsHoldTheirRows => OneWriter
BY DEF RunsHoldTheirRows, OneWriter

\* A claim by r is refused while another run that renews in time works on the row.
LEMMA ClaimFindsNoWriter ==
    ASSUME Timely, TypeOK, RunsHoldTheirRows, ClaimsAreDated,
           NEW r \in Run, Claim(r), NEW q \in Run, Working(q), id[q] = id[r]
    PROVE  FALSE
<1>1. /\ Exists(id[r])
      /\ status[id[r]] \notin Running \/ updatedAt[id[r]] < staleBefore[r]
      /\ pc[r] = "claim"
    BY DEF Claim, Claimable
<1>2. /\ updatedAt[id[r]] < staleBefore[r]
      /\ beat[q] <= updatedAt[id[r]] + TxMax
      /\ now <= beat[q] + Gap
    BY <1>1 DEF RunsHoldTheirRows
<1>3. staleBefore[r] + Lease <= now
    BY <1>1 DEF ClaimsAreDated
<1>4. /\ updatedAt[id[r]] \in Nat /\ staleBefore[r] \in Int
      /\ beat[q] \in Nat /\ now \in Nat
    BY <1>1 DEF TypeOK
<1> QED BY <1>2, <1>3, <1>4, IngestionAssumption DEF Timely

\* Every step of a run, of a timer, of a DELETE and of the clock keeps each working
\* run the holder of its row, with a stamp that a claim finds too recent.
LEMMA HoldNext ==
    ASSUME Timely, TypeOK, TypeOK', RunsHoldTheirRows, ClaimsAreDated, Next
    PROVE  RunsHoldTheirRows'
<1> USE IngestionAssumption
        DEF RunsHoldTheirRows, Working, Exists, rowVars, pipeline, timers, Goto,
            Renew
<1>t. /\ now \in Nat
      /\ \A t \in Stamps : t \in Nat /\ t <= now /\ now <= t + TxMax
      /\ \A r \in Run : beat[r] \in Nat /\ beat[r] <= now
      /\ \A i \in Id : updatedAt[i] \in Nat
    BY StampsType DEF TypeOK, ClaimsAreDated
<1>1. CASE Tick
    <2>1. now' = now + 1 /\ \A r \in Run : Working(r) => now < beat[r] + Gap
        BY <1>1 DEF Tick
    <2>2. UNCHANGED <<status, updatedAt, holder, id, pc, beat>>
        BY <1>1 DEF Tick
    <2>3. UNCHANGED <<armed, inflight>>
        BY <1>1 DEF Tick
    <2> QED BY <1>t, <2>1, <2>2, <2>3
<1>2. ASSUME NEW i \in Id, DeleteSource(i) PROVE RunsHoldTheirRows'
    <2>1. \A r \in Run : Working(r)' => Working(r)
        BY <1>2 DEF DeleteSource, TypeOK, Holding, Pipeline
    <2>2. /\ UNCHANGED <<now, updatedAt, holder, id, beat, armed, inflight>>
          /\ \A j \in Id : \/ status'[j] = status[j]
                           \/ status'[j] = "deleted"
        BY <1>2 DEF DeleteSource, TypeOK
    <2>3. "deleted" \notin Live
        BY DEF Live, Running
    <2>4. \A r \in Run : Working(r) => id[r] \in Id
        BY DEF TypeOK
    <2> QED BY <2>1, <2>2, <2>3, <2>4
<1>3. ASSUME NEW r \in Run,
             Start(r) \/ FindSource(r) \/ FindWinner(r) \/ CreateLosesRace(r)
               \/ ReadClock(r) \/ ClaimRefused(r)
      PROVE  RunsHoldTheirRows'
    <2>1. /\ UNCHANGED <<now, status, updatedAt, holder, beat, armed, inflight>>
          /\ pc[r] \notin Holding /\ pc'[r] \notin Holding
          /\ \A q \in Run : q # r => pc'[q] = pc[q] /\ id'[q] = id[q]
        BY <1>3 DEF Start, FindSource, FindWinner, LookUp, CreateLosesRace,
                    ReadClock, ClaimRefused, TypeOK, Holding, Pipeline
    <2> QED BY <2>1
<1>4. ASSUME NEW r \in Run, CreateSource(r) PROVE RunsHoldTheirRows'
    <2>1. PICK i \in Id, t \in Stamps :
             /\ status[i] = "absent"
             /\ status' = [status EXCEPT ![i] = "pending"]
             /\ updatedAt' = [updatedAt EXCEPT ![i] = t]
             /\ holder' = [holder EXCEPT ![i] = r]
             /\ id' = [id EXCEPT ![r] = i]
        BY <1>4 DEF CreateSource
    <2>2. pc' = [pc EXCEPT ![r] = "fetch"] /\ beat' = [beat EXCEPT ![r] = now]
          /\ now' = now /\ UNCHANGED <<armed, inflight>>
          /\ r \notin armed \cup inflight
        BY <1>4 DEF CreateSource, ClaimsAreDated, Claiming
    <2>3. \A q \in Run : Working(q) => id[q] \in Id /\ id[q] # i
        BY <2>1 DEF TypeOK
    <2>4. "pending" \in Running /\ "pending" # "absent"
        BY DEF Running
    <2> QED BY <1>t, <2>1, <2>2, <2>3, <2>4 DEF TypeOK
<1>5. ASSUME NEW r \in Run, Claim(r) PROVE RunsHoldTheirRows'
    <2>1. PICK t \in Stamps : updatedAt' = [updatedAt EXCEPT ![id[r]] = t]
        BY <1>5 DEF Claim
    <2>2. /\ status' = [status EXCEPT ![id[r]] = "processing"]
          /\ holder' = [holder EXCEPT ![id[r]] = r]
          /\ pc' = [pc EXCEPT ![r] = "clear"] /\ beat' = [beat EXCEPT ![r] = now]
          /\ UNCHANGED <<now, id, armed, inflight>>
          /\ id[r] \in Id
        BY <1>5 DEF Claim, TypeOK
    <2>3. \A q \in Run : Working(q) => id[q] \in Id /\ id[q] # id[r]
        BY <1>5, ClaimFindsNoWriter DEF TypeOK
    <2>4. "processing" \in Running /\ "processing" # "absent"
        BY DEF Running
    <2> QED BY <1>t, <2>1, <2>2, <2>3, <2>4 DEF TypeOK
<1>6. ASSUME NEW r \in Run,
             BeginClear(r) \/ SkipDocument(r) \/ StoreRefused(r) \/ PipelineFails(r)
               \/ Abandon(r) \/ SendHeartbeat(r) \/ LoseHeartbeat(r)
      PROVE  RunsHoldTheirRows'
    <2>1. /\ UNCHANGED <<now, status, updatedAt, holder, id, beat>>
          /\ armed' \cup inflight' \subseteq armed \cup inflight
          /\ \A q \in Run : Working(q)' => Working(q)
        BY <1>6 DEF BeginClear, SkipDocument, StoreRefused, PipelineFails, Abandon,
                    SendHeartbeat, LoseHeartbeat, TypeOK, Holding, Pipeline
    <2> QED BY <2>1
<1>7. ASSUME NEW r \in Run,
             CommitClear(r) \/ StoreDocument(r) \/ RecordSkipped(r)
               \/ MarkProcessing(r)
      PROVE  RunsHoldTheirRows'
    <2>1. PICK t \in Stamps : updatedAt' = Stamped(id[r], t)
        BY <1>7 DEF CommitClear, StoreDocument, RecordSkipped, MarkProcessing
    <2>2. /\ UNCHANGED <<now, holder, id>>
          /\ Working(r)
          /\ id[r] \in Id
          /\ \A q \in Run : Working(q)' => Working(q)
          /\ beat' = [beat EXCEPT ![r] = now]
        BY <1>7 DEF CommitClear, StoreDocument, RecordSkipped, MarkProcessing,
                    TypeOK, Holding, Pipeline
    <2>3. /\ inflight' = inflight
          /\ \/ status' = status /\ armed' = armed
             \/ status' = Marked(id[r], "processing") /\ armed' = armed \cup {r}
        BY <1>7 DEF CommitClear, StoreDocument, RecordSkipped, MarkProcessing
    <2>4. "processing" \in Running /\ "processing" # "absent" /\ "absent" \notin Live
        BY DEF Running, Live
    <2> QED BY <1>t, <2>1, <2>2, <2>3, <2>4 DEF Stamped, Marked, TypeOK
<1>8. ASSUME NEW r \in Run, MarkReady(r) \/ MarkFailed(r) PROVE RunsHoldTheirRows'
    <2>1. PICK t \in Stamps : updatedAt' = Stamped(id[r], t)
        BY <1>8 DEF MarkReady, MarkFailed
    <2>2. PICK s \in {"ready", "failed"} : status' = Marked(id[r], s)
        BY <1>8 DEF MarkReady, MarkFailed
    <2>3. /\ UNCHANGED <<now, holder, id>>
          /\ Working(r) /\ ~Working(r)'
          /\ id[r] \in Id
          /\ \A q \in Run : q # r => pc'[q] = pc[q] /\ beat'[q] = beat[q]
          /\ armed' \cup inflight' \subseteq armed \cup inflight
        BY <1>8 DEF MarkReady, MarkFailed, TypeOK, Holding, Pipeline, Timely
    <2>4. \A q \in Run : Working(q)' =>
             Working(q) /\ q # r /\ id[q] \in Id /\ id[q] # id[r]
        BY <2>3 DEF TypeOK
    <2> QED BY <2>1, <2>2, <2>3, <2>4 DEF Stamped, Marked, TypeOK
<1>9. ASSUME NEW r \in Run, LandHeartbeat(r) PROVE RunsHoldTheirRows'
    <2>1. /\ UNCHANGED <<now, status, holder, id, pc, armed>>
          /\ beat' = [beat EXCEPT ![r] = now]
          /\ r \in inflight /\ inflight' = inflight \ {r}
        BY <1>9 DEF LandHeartbeat
    <2>2. \/ updatedAt' = updatedAt /\ ~Touchable(id[r])
          \/ \E t \in Stamps : updatedAt' = [updatedAt EXCEPT ![id[r]] = t]
        BY <1>9 DEF LandHeartbeat
    <2>3. Working(r) /\ Exists(id[r]) => Touchable(id[r])
        BY <2>1 DEF Touchable
    <2>4. \A q \in Run : Working(q)' =>
             /\ Working(q)
             /\ id[q] \in Id
             /\ beat'[q] \in {beat[q], now}
             /\ now <= beat[q] + Gap
        BY <1>t, <2>1 DEF TypeOK
    <2>5. ASSUME NEW q \in Run, Working(q), Exists(id[q])
          PROVE  beat'[q] <= updatedAt'[id[q]] + TxMax
        <3>1. CASE q = r
            <4>1. PICK t \in Stamps : updatedAt' = [updatedAt EXCEPT ![id[r]] = t]
                BY <2>2, <2>3, <2>5, <3>1
            <4> QED BY <1>t, <2>1, <2>4, <2>5, <3>1, <4>1 DEF TypeOK
        <3>2. CASE q # r
            <4>1. beat'[q] = beat[q]
                BY <2>1, <3>2 DEF TypeOK
            <4>2. /\ beat[q] <= updatedAt[id[q]] + TxMax
                  /\ id[q] \in Id /\ updatedAt \in [Id -> Nat]
                  /\ beat[q] \in Nat /\ beat[q] <= now
                BY <1>t, <2>4, <2>5 DEF TypeOK
            <4>3. ASSUME NEW t \in Stamps, updatedAt' = [updatedAt EXCEPT ![id[r]] = t]
                  PROVE  beat[q] <= updatedAt'[id[q]] + TxMax
                <5>1. updatedAt'[id[q]] \in {updatedAt[id[q]], t}
                    BY <4>2, <4>3
                <5> QED BY <1>t, <4>2, <5>1
            <4> QED BY <2>2, <4>1, <4>2, <4>3
        <3> QED BY <3>1, <3>2
    <2> QED BY <1>t, <2>1, <2>4, <2>5
<1> QED BY <1>1, <1>2, <1>3, <1>4, <1>5, <1>6, <1>7, <1>8, <1>9 DEF Next, Advance

\* While live runs renew within the lease, no source has two runs writing it.
THEOREM SingleWriter ==
    ASSUME Timely
    PROVE  Spec => []OneWriter
<1> DEFINE Inv == TypeOK /\ RunsHoldTheirRows /\ ClaimsAreDated
<1>1. Init => Inv
    BY TypeInit, HoldInit, DatedInit
<1>2. Inv /\ [Next]_vars => Inv'
    <2> SUFFICES ASSUME Inv, [Next]_vars PROVE Inv'
        OBVIOUS
    <2>1. TypeOK'
        BY TypeNext
    <2>2. CASE Next
        BY <2>1, <2>2, DatedNext, HoldNext, Timely
    <2>3. CASE UNCHANGED vars
        BY <2>1, <2>3
        DEF vars, RunsHoldTheirRows, ClaimsAreDated, Working, Exists
    <2> QED BY <2>2, <2>3
<1>3. Inv => OneWriter
    BY HolderIsOnlyWriter
<1> QED BY <1>1, <1>2, <1>3, PTL DEF Spec

-------------------------------------------------------------------------------
(***************************************************************************)
(* Contents: between the clear and markReady the rows of documents of a    *)
(* source are those its one writer put there.                              *)
(***************************************************************************)

RunStep(r) ==
    \/ Start(r) \/ Advance(r) \/ PipelineFails(r) \/ Abandon(r)
    \/ SendHeartbeat(r) \/ LandHeartbeat(r) \/ LoseHeartbeat(r)

\* Which rows of documents belong to i.
SameDocuments(i) == \A d : d.source = i => (d \in documents' <=> d \in documents)

\* A step of r changes the locals of no other run, and rows and documents of no
\* source but its own, the latter only while it is working.
LEMMA StepOfOneRun ==
    ASSUME TypeOK, RowsAreAsLeft, NEW r \in Run, RunStep(r)
    PROVE  /\ \A q \in Run : q # r =>
                 /\ pc'[q] = pc[q] /\ id'[q] = id[q] /\ snapshot'[q] = snapshot[q]
                 /\ files'[q] = files[q] /\ todo'[q] = todo[q]
                 /\ skipped'[q] = skipped[q]
           /\ pc[r] \in Ended => /\ pc'[r] = pc[r] /\ files'[r] = files[r]
                                 /\ skipped'[r] = skipped[r]
           /\ Working(r) => id'[r] = id[r]
           /\ ~Working(r) => UNCHANGED <<documents, documentCount>>
           /\ \A i \in Id : i # id'[r] =>
                 /\ SameDocuments(i)
                 /\ documentCount'[i] = documentCount[i]
                 /\ status'[i] = status[i]
                 /\ holder'[i] = holder[i]
<1>a. pc[r] = "clearing" => snapshot[r] = DocumentsOf(id[r])
    BY DEF RowsAreAsLeft, AsLeft
<1> USE DEF TypeOK, rowVars, pipeline, timers, Goto, Renew, Working, SameDocuments,
            Holding, Pipeline, Ended
<1>1. CASE Start(r) BY <1>1 DEF Start
<1>2. CASE FindSource(r) BY <1>2 DEF FindSource, LookUp
<1>3. CASE FindWinner(r) BY <1>3 DEF FindWinner, LookUp
<1>4. CASE CreateSource(r) BY <1>4 DEF CreateSource
<1>5. CASE CreateLosesRace(r) BY <1>5 DEF CreateLosesRace
<1>6. CASE ReadClock(r) BY <1>6 DEF ReadClock
<1>7. CASE Claim(r) BY <1>7 DEF Claim
<1>8. CASE ClaimRefused(r) BY <1>8 DEF ClaimRefused
<1>9. CASE BeginClear(r) BY <1>9 DEF BeginClear
<1>10. CASE CommitClear(r)
    <2>1. snapshot[r] = DocumentsOf(id[r])
        BY <1>10, <1>a DEF CommitClear
    <2> QED BY <1>10, <2>1 DEF CommitClear, Cleared, Counted, DocumentsOf
<1>11. CASE MarkProcessing(r) BY <1>11 DEF MarkProcessing, Marked
<1>12. CASE SkipDocument(r) BY <1>12 DEF SkipDocument
<1>13. CASE StoreDocument(r) BY <1>13 DEF StoreDocument, Counted
<1>14. CASE StoreRefused(r) BY <1>14 DEF StoreRefused
<1>15. CASE RecordSkipped(r) BY <1>15 DEF RecordSkipped
<1>16. CASE MarkReady(r) BY <1>16 DEF MarkReady, Marked
<1>17. CASE PipelineFails(r) BY <1>17 DEF PipelineFails
<1>18. CASE MarkFailed(r) BY <1>18 DEF MarkFailed, Marked
<1>19. CASE Abandon(r) BY <1>19 DEF Abandon
<1>20. CASE SendHeartbeat(r) \/ LandHeartbeat(r) \/ LoseHeartbeat(r)
    BY <1>20 DEF SendHeartbeat, LandHeartbeat, LoseHeartbeat
<1> QED BY <1>1, <1>2, <1>3, <1>4, <1>5, <1>6, <1>7, <1>8, <1>9, <1>10, <1>11,
           <1>12, <1>13, <1>14, <1>15, <1>16, <1>17, <1>18, <1>19, <1>20
        DEF RunStep, Advance

LEMMA RowsInit == Init => RowsAreAsLeft
BY DEF Init, RowsAreAsLeft, AsLeft, DocumentsOf, Exists

\* What a run finds in its row stays as it left it while others step elsewhere.
LEMMA AsLeftFrame ==
    ASSUME NEW q \in Run, AsLeft(q),
           pc'[q] = pc[q], id'[q] = id[q], files'[q] = files[q],
           todo'[q] = todo[q], skipped'[q] = skipped[q], snapshot'[q] = snapshot[q],
           Working(q) => /\ SameDocuments(id[q])
                         /\ documentCount'[id[q]] = documentCount[id[q]]
                         /\ Exists(id[q])' => Exists(id[q])
    PROVE  AsLeft(q)'
<1>1. Working(q) => DocumentsOf(id[q])' = DocumentsOf(id[q])
    BY DEF SameDocuments, DocumentsOf
<1>2. pc[q] \in {"clearing", "fetch", "docs", "ready"} => Working(q)
    BY DEF Working, Holding, Pipeline
<1> QED BY <1>1, <1>2 DEF AsLeft

\* A document stored for its row is counted once.
LEMMA StoredIsCounted ==
    ASSUME TypeOK, TypeOK', NEW r \in Run, AsLeft(r), StoreDocument(r)
    PROVE  AsLeft(r)'
<1>1. PICK p \in Due(r) :
         /\ ~Refused(id[r], p)
         /\ documents' = documents \cup
                           {[source |-> id[r], path |-> p, run |-> r]}
         /\ todo' = [todo EXCEPT ![r] = @ \ {p}]
    BY DEF StoreDocument
<1>2. /\ pc[r] = "docs" /\ id[r] \in Id
      /\ UNCHANGED <<pc, id, files, skipped, status>>
      /\ Exists(id[r])
      /\ documentCount' = [documentCount EXCEPT ![id[r]] = documentCount[id[r]] + 1]
    BY <1>1 DEF StoreDocument, Refused, Counted, TypeOK, Holding, Pipeline
<1> DEFINE stored == (files[r] \ skipped[r]) \ todo[r]
<1>3. /\ todo[r] \subseteq files[r] \ skipped[r]
      /\ DocumentsOf(id[r]) =
            {[source |-> id[r], path |-> x, run |-> r] : x \in stored}
      /\ documentCount[id[r]] = Cardinality(stored)
    BY <1>2 DEF AsLeft
<1>4. /\ todo'[r] = todo[r] \ {p}
      /\ stored' = stored \cup {p}
      /\ p \notin stored
    BY <1>1, <1>2, <1>3 DEF Due, TypeOK
<1>5. IsFiniteSet(stored)
    <2>1. stored \subseteq Path
        BY DEF TypeOK
    <2> QED BY <2>1, FS_Subset, IngestionAssumption
<1>6. Cardinality(stored') = Cardinality(stored) + 1
    BY <1>4, <1>5, FS_AddElement
<1>7. documentCount'[id'[r]] = Cardinality(stored')
    BY <1>2, <1>3, <1>6 DEF TypeOK
<1>8. DocumentsOf(id[r])' =
         {[source |-> id'[r], path |-> x, run |-> r] : x \in stored'}
    BY <1>1, <1>2, <1>3, <1>4 DEF DocumentsOf
<1> QED BY <1>2, <1>3, <1>4, <1>7, <1>8 DEF AsLeft, Claiming

\* Each step of a run leaves its row as its next step expects to find it.
LEMMA AsLeftStep ==
    ASSUME TypeOK, TypeOK', RowsAreAsLeft, NEW r \in Run, RunStep(r)
    PROVE  AsLeft(r)'
<1>a. AsLeft(r)
    BY DEF RowsAreAsLeft
<1>1. CASE StoreDocument(r)
    BY <1>1, <1>a, StoredIsCounted
<1>2. CASE CommitClear(r)
    <2>1. /\ snapshot[r] = DocumentsOf(id[r])
          /\ documents' = documents \ snapshot[r]
          /\ pc' = [pc EXCEPT ![r] = "fetch"]
          /\ documentCount' = Counted(id[r], 0)
          /\ UNCHANGED <<id, status, skipped>>
          /\ id[r] \in Id
          /\ skipped[r] = {}
        BY <1>2, <1>a DEF CommitClear, Cleared, Goto, AsLeft, TypeOK, Holding
    <2>2. DocumentsOf(id[r])' = {}
        BY <2>1 DEF DocumentsOf
    <2>3. Exists(id[r])' => documentCount'[id[r]] = 0
        BY <2>1 DEF Counted, Exists, TypeOK
    <2> QED BY <2>1, <2>2, <2>3 DEF AsLeft, TypeOK
<1>3. CASE CreateSource(r)
    <2>1. PICK i \in Id :
             /\ status[i] = "absent"
             /\ id' = [id EXCEPT ![r] = i]
        BY <1>3 DEF CreateSource
    <2>2. /\ UNCHANGED <<documents, documentCount, skipped>>
          /\ pc' = [pc EXCEPT ![r] = "fetch"]
          /\ pc[r] = "create"
        BY <1>3 DEF CreateSource, Goto, pipeline
    <2>3. DocumentsOf(i) = {} /\ documentCount[i] = 0
        BY <2>1 DEF RowsAreAsLeft, Exists, Live, Running
    <2> QED BY <1>a, <2>1, <2>2, <2>3 DEF AsLeft, DocumentsOf, TypeOK, Claiming
<1>4. CASE MarkProcessing(r)
    <2>1. /\ pc[r] = "fetch" /\ pc' = [pc EXCEPT ![r] = "docs"]
          /\ todo'[r] = files'[r]
          /\ UNCHANGED <<id, documents, documentCount, skipped>>
          /\ id[r] \in Id
          /\ Exists(id[r])' => Exists(id[r])
        BY <1>4 DEF MarkProcessing, Goto, Marked, TypeOK, Holding, Pipeline, Exists
    <2>2. /\ skipped[r] = {} /\ DocumentsOf(id[r]) = {}
          /\ Exists(id[r]) => documentCount[id[r]] = 0
        BY <1>a, <2>1 DEF AsLeft
    <2>3. Cardinality({}) = 0
        BY FS_EmptySet
    <2>4. (files'[r] \ skipped'[r]) \ todo'[r] = {}
        BY <2>1
    <2>5. pc'[r] = "docs" /\ DocumentsOf(id[r])' = {}
        BY <2>1, <2>2 DEF DocumentsOf, TypeOK
    <2>6. todo'[r] \subseteq files'[r] \ skipped'[r]
        BY <2>1, <2>2
    <2> QED BY <2>1, <2>2, <2>3, <2>4, <2>5, <2>6 DEF AsLeft, Claiming
<1>5. CASE SkipDocument(r)
    <2>1. PICK p \in Due(r) :
             /\ skipped' = [skipped EXCEPT ![r] = @ \cup {p}]
             /\ todo' = [todo EXCEPT ![r] = @ \ {p}]
        BY <1>5 DEF SkipDocument
    <2>2. /\ pc[r] = "docs" /\ p \in todo[r]
          /\ UNCHANGED <<pc, id, files, documents, documentCount, status>>
        BY <1>5, <2>1 DEF SkipDocument, rowVars, Due
    <2>3. todo[r] \subseteq files[r] \ skipped[r]
        BY <1>a, <2>2 DEF AsLeft
    <2>4. /\ skipped'[r] = skipped[r] \cup {p}
          /\ todo'[r] = todo[r] \ {p}
        BY <2>1 DEF TypeOK
    <2>5. /\ todo'[r] \subseteq files'[r] \ skipped'[r]
          /\ (files'[r] \ skipped'[r]) \ todo'[r] = (files[r] \ skipped[r]) \ todo[r]
        BY <2>2, <2>3, <2>4
    <2>6. DocumentsOf(id[r])' = DocumentsOf(id[r]) /\ (Exists(id[r])' <=> Exists(id[r]))
        BY <2>2 DEF DocumentsOf, Exists
    <2> QED BY <1>a, <2>2, <2>5, <2>6 DEF AsLeft, Claiming
<1>6. CASE RecordSkipped(r)
    <2>1. /\ pc[r] = "docs" /\ todo[r] = {}
          /\ pc' = [pc EXCEPT ![r] = "ready"]
          /\ UNCHANGED <<id, files, todo, skipped, documents, documentCount, status>>
        BY <1>6 DEF RecordSkipped, Goto, pipeline
    <2>2. DocumentsOf(id[r])' = DocumentsOf(id[r]) /\ (Exists(id[r])' <=> Exists(id[r]))
        BY <2>1 DEF DocumentsOf, Exists
    <2>3. pc'[r] = "ready"
        BY <2>1 DEF TypeOK
    <2> QED BY <1>a, <2>1, <2>2, <2>3 DEF AsLeft, Claiming
<1>7. CASE \/ Start(r) \/ FindSource(r) \/ FindWinner(r) \/ CreateLosesRace(r)
           \/ ReadClock(r) \/ Claim(r) \/ ClaimRefused(r) \/ BeginClear(r)
    <2>1. /\ pc[r] \in Claiming \cup {"idle", "clear"}
          /\ UNCHANGED <<skipped, documents>>
          /\ pc'[r] \in Claiming \cup {"clear", "clearing"} \cup Ended
          /\ pc'[r] = "clearing" =>
                snapshot'[r] = DocumentsOf(id[r]) /\ id' = id
        BY <1>7
        DEF Start, FindSource, FindWinner, LookUp, CreateLosesRace, ReadClock, Claim,
            ClaimRefused, BeginClear, rowVars, pipeline, Goto, Claiming, Ended, TypeOK
    <2> QED BY <1>a, <2>1 DEF AsLeft, DocumentsOf, Claiming, Ended
<1>8. CASE \/ MarkReady(r) \/ MarkFailed(r) \/ StoreRefused(r) \/ PipelineFails(r)
           \/ Abandon(r)
    <2>1. pc'[r] \in {"done", "fail", "failed", "lost"}
        BY <1>8 DEF MarkReady, MarkFailed, StoreRefused, PipelineFails, Abandon, Goto,
                    TypeOK
    <2> QED BY <2>1 DEF AsLeft, Claiming
<1>9. CASE SendHeartbeat(r) \/ LandHeartbeat(r) \/ LoseHeartbeat(r)
    <2>1. UNCHANGED <<pc, id, files, todo, skipped, snapshot, documents,
                      documentCount, status>>
        BY <1>9 DEF SendHeartbeat, LandHeartbeat, LoseHeartbeat, rowVars, pipeline
    <2> QED BY <1>a, <2>1, AsLeftFrame DEF SameDocuments, Exists
<1> QED BY <1>1, <1>2, <1>3, <1>4, <1>5, <1>6, <1>7, <1>8, <1>9 DEF RunStep, Advance

\* No step of one run disturbs what another finds, as rows have one writer.
LEMMA RowsStep ==
    ASSUME TypeOK, TypeOK', RunsHoldTheirRows, RowsAreAsLeft,
           NEW r \in Run, RunStep(r)
    PROVE  RowsAreAsLeft'
<1>a. /\ \A q \in Run : AsLeft(q)
      /\ \A i \in Id : ~Exists(i) => DocumentsOf(i) = {}
      /\ \A i \in Id : status[i] = "absent" => documentCount[i] = 0
    BY DEF RowsAreAsLeft
<1>s. /\ \A q \in Run : q # r =>
            /\ pc'[q] = pc[q] /\ id'[q] = id[q] /\ snapshot'[q] = snapshot[q]
            /\ files'[q] = files[q] /\ todo'[q] = todo[q] /\ skipped'[q] = skipped[q]
      /\ Working(r) => id'[r] = id[r]
      /\ ~Working(r) => UNCHANGED <<documents, documentCount>>
      /\ \A i \in Id : i # id'[r] => /\ SameDocuments(i)
                                     /\ documentCount'[i] = documentCount[i]
                                     /\ status'[i] = status[i]
    BY StepOfOneRun
<1>e. \A i \in Id : status[i] # "absent" =>
            /\ status'[i] # "absent"
            /\ Exists(i)' <=> Exists(i)
    BY DEF RunStep, Start, Advance, FindSource, FindWinner, LookUp, CreateSource,
           CreateLosesRace, ReadClock, Claim, ClaimRefused, Claimable, BeginClear,
           CommitClear, MarkProcessing, SkipDocument, StoreDocument, StoreRefused,
           RecordSkipped, MarkReady, MarkFailed, PipelineFails, Abandon,
           SendHeartbeat, LandHeartbeat, LoseHeartbeat, rowVars, Marked, Exists,
           Live, Running, TypeOK
<1>1. ASSUME NEW q \in Run PROVE AsLeft(q)'
    <2>1. CASE q = r
        BY <2>1, AsLeftStep
    <2>2. CASE q # r
        <3>1. ASSUME Working(q)
              PROVE  /\ SameDocuments(id[q])
                     /\ documentCount'[id[q]] = documentCount[id[q]]
                     /\ Exists(id[q])' => Exists(id[q])
            <4>1. id[q] \in Id /\ status[id[q]] # "absent" /\ holder[id[q]] = q
                BY <3>1 DEF RunsHoldTheirRows, TypeOK, Working
            <4>2. Working(r) => holder[id[r]] = r
                BY DEF RunsHoldTheirRows
            <4>3. Working(r) => id'[r] # id[q]
                BY <1>s, <2>2, <4>1, <4>2
            <4>4. Exists(id[q])' => Exists(id[q])
                BY <1>s, <1>e, <2>2, <4>1 DEF Exists
            <4> QED BY <1>s, <4>1, <4>3, <4>4 DEF SameDocuments
        <3> QED BY <1>a, <1>s, <2>2, <3>1, AsLeftFrame
    <2> QED BY <2>1, <2>2
<1>2. ASSUME NEW i \in Id, ~Exists(i)' PROVE DocumentsOf(i)' = {}
    <2>1. ~Exists(i)
        BY <1>2, <1>e DEF Exists, Live, Running
    <2>2. DocumentsOf(i) = {}
        BY <1>a, <2>1
    <2>3. CASE ~StoreDocument(r)
        <3>1. documents' \subseteq documents
            BY <2>3 DEF RunStep, Start, Advance, FindSource, FindWinner, LookUp,
               CreateSource, CreateLosesRace, ReadClock, Claim, ClaimRefused,
               BeginClear, CommitClear, Cleared, MarkProcessing, SkipDocument,
               StoreRefused, RecordSkipped, MarkReady, MarkFailed, PipelineFails,
               Abandon, SendHeartbeat, LandHeartbeat, LoseHeartbeat, rowVars
        <3> QED BY <2>2, <3>1 DEF DocumentsOf
    <2>4. CASE StoreDocument(r)
        <3>1. PICK p \in Due(r) :
                 /\ ~Refused(id[r], p)
                 /\ documents' = documents \cup
                                   {[source |-> id[r], path |-> p, run |-> r]}
            BY <2>4 DEF StoreDocument
        <3>2. id[r] # i
            BY <2>1, <3>1 DEF Refused
        <3> QED BY <2>2, <3>1, <3>2 DEF DocumentsOf
    <2> QED BY <2>3, <2>4
<1>3. ASSUME NEW i \in Id, status'[i] = "absent" PROVE documentCount'[i] = 0
    <2>1. status[i] = "absent" /\ documentCount[i] = 0
        BY <1>3, <1>e, <1>a
    <2>2. Working(r) => id'[r] # i
        BY <1>s, <2>1 DEF RunsHoldTheirRows
    <2> QED BY <1>s, <2>1, <2>2
<1> QED BY <1>1, <1>2, <1>3 DEF RowsAreAsLeft

\* DELETE takes the documents with the row and aborts a clear that holds any.
LEMMA RowsDelete ==
    ASSUME TypeOK, RowsAreAsLeft, NEW i \in Id, DeleteSource(i)
    PROVE  RowsAreAsLeft'
<1>1. /\ Exists(i)
      /\ status' = [status EXCEPT ![i] = "deleted"]
      /\ documents' = documents \ DocumentsOf(i)
      /\ UNCHANGED <<documentCount, id, files, todo, skipped>>
      /\ \A r \in Run :
            \/ pc'[r] = "errored"
            \/ /\ pc'[r] = pc[r] /\ snapshot'[r] = snapshot[r]
               /\ ~(pc[r] = "clearing" /\ id[r] = i /\ snapshot[r] # {})
    BY DEF DeleteSource, pipeline
<1>2. /\ ~Exists(i)'
      /\ \A j \in Id : j # i => status'[j] = status[j]
    BY <1>1 DEF TypeOK, Exists, Live, Running
<1>3. \A j : DocumentsOf(j)' = IF j = i THEN {} ELSE DocumentsOf(j)
    BY <1>1 DEF DocumentsOf
<1>4. ASSUME NEW r \in Run PROVE AsLeft(r)'
    <2>1. AsLeft(r)
        BY DEF RowsAreAsLeft
    <2>2. CASE pc'[r] = "errored"
        BY <2>2 DEF AsLeft, Claiming
    <2>3. CASE pc'[r] # "errored" /\ id[r] # i
        <3>1. Working(r) => id[r] \in Id
            BY DEF TypeOK, Working
        <3> QED BY <1>1, <1>2, <1>3, <2>1, <2>3, <3>1, AsLeftFrame
                DEF SameDocuments, Exists, DocumentsOf
    <2>4. CASE pc'[r] # "errored" /\ id[r] = i
        <3>1. /\ pc'[r] = pc[r] /\ snapshot'[r] = snapshot[r]
              /\ pc[r] = "clearing" => snapshot[r] = {}
              /\ DocumentsOf(id[r])' = {}
              /\ ~Exists(id[r])'
            BY <1>1, <1>2, <1>3, <2>4 DEF Exists
        <3> QED BY <1>1, <2>1, <3>1 DEF AsLeft
    <2> QED BY <2>2, <2>3, <2>4
<1> QED BY <1>1, <1>2, <1>3, <1>4 DEF RowsAreAsLeft, TypeOK, Exists

LEMMA ReadyInit == Init => ReadyIsWhole
BY DEF Init, ReadyIsWhole

\* A source becomes ready only as its writer's last step, and then stays as it is
\* until the next claim.
LEMMA ReadyStep ==
    ASSUME Timely, TypeOK, TypeOK', RunsHoldTheirRows, RowsAreAsLeft, ReadyIsWhole,
           NEW r \in Run, RunStep(r)
    PROVE  ReadyIsWhole'
<1>1. SUFFICES ASSUME NEW i \in Id, status'[i] = "ready"
               PROVE  /\ holder'[i] \in Run
                      /\ pc'[holder'[i]] = "done"
                      /\ Whole(i)'
    BY DEF ReadyIsWhole
<1>s. /\ \A q \in Run : q # r =>
            /\ pc'[q] = pc[q] /\ files'[q] = files[q] /\ skipped'[q] = skipped[q]
      /\ pc[r] \in Ended => /\ pc'[r] = pc[r] /\ files'[r] = files[r]
                            /\ skipped'[r] = skipped[r]
      /\ Working(r) => id'[r] = id[r]
      /\ ~Working(r) => UNCHANGED <<documents, documentCount>>
      /\ \A j \in Id : j # id'[r] => /\ SameDocuments(j)
                                     /\ documentCount'[j] = documentCount[j]
                                     /\ status'[j] = status[j]
                                     /\ holder'[j] = holder[j]
    BY StepOfOneRun
<1>2. CASE status[i] = "ready"
    <2>1. /\ holder[i] \in Run /\ pc[holder[i]] = "done" /\ Whole(i)
        BY <1>2 DEF ReadyIsWhole
    <2>2. Working(r) => id[r] # i
        BY <1>2 DEF RunsHoldTheirRows, Exists, Live, Running
    <2>3. holder'[i] = holder[i]
        <3>1. CASE CreateSource(r)
            BY <1>1, <1>2, <3>1 DEF CreateSource, TypeOK
        <3>2. CASE Claim(r)
            BY <1>1, <3>2 DEF Claim, TypeOK
        <3>3. CASE ~CreateSource(r) /\ ~Claim(r)
            BY <3>3 DEF RunStep, Start, Advance, FindSource, FindWinner, LookUp,
               CreateLosesRace, ReadClock, ClaimRefused, BeginClear, CommitClear,
               MarkProcessing, SkipDocument, StoreDocument, StoreRefused,
               RecordSkipped, MarkReady, MarkFailed, PipelineFails, Abandon,
               SendHeartbeat, LandHeartbeat, LoseHeartbeat, rowVars
        <3> QED BY <3>1, <3>2, <3>3
    <2>4. SameDocuments(i) /\ documentCount'[i] = documentCount[i]
        BY <1>s, <2>2 DEF SameDocuments
    <2>5. DocumentsOf(i)' = DocumentsOf(i)
        BY <2>4 DEF DocumentsOf, SameDocuments
    <2>6. LET h == holder[i]
          IN  pc'[h] = "done" /\ files'[h] = files[h] /\ skipped'[h] = skipped[h]
        BY <1>s, <2>1 DEF Ended
    <2> QED BY <2>1, <2>3, <2>4, <2>5, <2>6 DEF Whole
<1>3. CASE status[i] # "ready"
    <2>1. MarkReady(r) /\ id[r] = i /\ Exists(i)
        BY <1>1, <1>3 DEF RunStep, Start, Advance, FindSource, FindWinner, LookUp,
           CreateSource, CreateLosesRace, ReadClock, Claim, ClaimRefused, BeginClear,
           CommitClear, MarkProcessing, SkipDocument, StoreDocument, StoreRefused,
           RecordSkipped, MarkReady, MarkFailed, PipelineFails, Abandon,
           SendHeartbeat, LandHeartbeat, LoseHeartbeat, rowVars, Marked, TypeOK
    <2>2. /\ pc[r] = "ready" /\ pc'[r] = "done"
          /\ UNCHANGED <<documents, documentCount, holder, files, skipped>>
        BY <2>1 DEF MarkReady, Goto, Timely, TypeOK, pipeline
    <2>3. holder[i] = r
        BY <2>1, <2>2 DEF RunsHoldTheirRows, Working, Holding, Pipeline
    <2>4. /\ AsLeft(r) /\ todo[r] = {}
          /\ files[r] \ skipped[r] = (files[r] \ skipped[r]) \ todo[r]
        BY <2>2 DEF RowsAreAsLeft, AsLeft
    <2>5. /\ DocumentsOf(i) = {[source |-> i, path |-> p, run |-> r] :
                                 p \in files[r] \ skipped[r]}
          /\ documentCount[i] = Cardinality(files[r] \ skipped[r])
        BY <2>1, <2>2, <2>4 DEF AsLeft
    <2>6. DocumentsOf(i)' = DocumentsOf(i)
        BY <2>2 DEF DocumentsOf
    <2> QED BY <2>2, <2>3, <2>5, <2>6 DEF Whole
<1> QED BY <1>2, <1>3

\* The invariant is inductive, with the timing that claims rely on.
LEMMA InvariantNext ==
    ASSUME Timely, IngestionInv, [Next]_vars
    PROVE  IngestionInv'
<1>1. TypeOK'
    BY TypeNext DEF IngestionInv
<1>2. CASE UNCHANGED vars
    BY <1>1, <1>2
    DEF vars, IngestionInv, RunsHoldTheirRows, ClaimsAreDated, RowsAreAsLeft, AsLeft,
        ReadyIsWhole, Whole, Working, Exists, DocumentsOf
<1>3. CASE Next
    <2>1. RunsHoldTheirRows' /\ ClaimsAreDated'
        BY <1>1, <1>3, HoldNext, DatedNext DEF IngestionInv
    <2>2. CASE Tick
        <3>1. UNCHANGED <<status, documentCount, documents, holder, pc, id, files,
                          todo, skipped, snapshot>>
            BY <2>2 DEF Tick, rowVars, pipeline
        <3>2. \A i \in Id : /\ DocumentsOf(i)' = DocumentsOf(i)
                            /\ Exists(i)' <=> Exists(i)
            BY <3>1 DEF DocumentsOf, Exists
        <3>3. \A r \in Run : AsLeft(r)'
            BY <3>1, AsLeftFrame
            DEF IngestionInv, RowsAreAsLeft, SameDocuments, Exists
        <3>4. RowsAreAsLeft'
            BY <3>1, <3>2, <3>3 DEF IngestionInv, RowsAreAsLeft
        <3>5. ReadyIsWhole'
            BY <3>1, <3>2 DEF IngestionInv, ReadyIsWhole, Whole
        <3> QED BY <1>1, <2>1, <3>4, <3>5 DEF IngestionInv
    <2>3. ASSUME NEW i \in Id, DeleteSource(i)
          PROVE  RowsAreAsLeft' /\ ReadyIsWhole'
        <3>1. RowsAreAsLeft'
            BY <2>3, RowsDelete DEF IngestionInv
        <3>2. /\ UNCHANGED <<holder, files, skipped, documentCount>>
              /\ documents' = documents \ DocumentsOf(i)
              /\ status' = [status EXCEPT ![i] = "deleted"]
              /\ \A r \in Run : pc[r] = "done" => pc'[r] = "done"
            BY <2>3 DEF DeleteSource
        <3>3. \A j \in Id : status'[j] = "ready" =>
                  status[j] = "ready" /\ DocumentsOf(j)' = DocumentsOf(j)
            BY <3>2 DEF DocumentsOf, IngestionInv, TypeOK
        <3> QED BY <3>1, <3>2, <3>3 DEF IngestionInv, ReadyIsWhole, Whole
    <2>4. ASSUME NEW r \in Run, RunStep(r)
          PROVE  RowsAreAsLeft' /\ ReadyIsWhole'
        BY <1>1, <2>4, RowsStep, ReadyStep DEF IngestionInv
    <2> QED BY <1>1, <1>3, <2>1, <2>2, <2>3, <2>4 DEF Next, RunStep, IngestionInv
<1> QED BY <1>2, <1>3

\* With live runs renewing within the lease, the inductive invariant always holds.
THEOREM Invariance ==
    ASSUME Timely
    PROVE  Spec => []IngestionInv
<1>1. Init => IngestionInv
    BY TypeInit, HoldInit, DatedInit, RowsInit, ReadyInit DEF IngestionInv
<1>2. IngestionInv /\ [Next]_vars => IngestionInv'
    BY InvariantNext, Timely
<1> QED BY <1>1, <1>2, PTL DEF Spec

\* A source that reads 'ready' holds one finished run's documents, all and only.
THEOREM ReadySourcesAreWhole ==
    ASSUME Timely
    PROVE  Spec => []ReadyIsWhole
<1>1. IngestionInv => ReadyIsWhole
    BY DEF IngestionInv
<1> QED BY <1>1, Invariance, Timely, PTL

-------------------------------------------------------------------------------
(***************************************************************************)
(* Refinement: what readers see is Corpus.  Only markReady publishes, only *)
(* a claim or a DELETE withdraws, and contents change while hidden.        *)
(***************************************************************************)

LEMMA CorpusInitially == Init => Readers!CorpusInit
BY DEF Init, Readers!CorpusInit, contentSeen, stampSeen, DocumentsOf

\* A step of r that leaves documents alone, and its row hidden before and after, is
\* invisible.
LEMMA InvisibleStep ==
    ASSUME TypeOK, TypeOK', NEW i, UNCHANGED <<now, documents>>,
           i \in Id => status[i] # "ready" /\ status'[i] # "ready",
           \A j \in Id : j # i => status'[j] = status[j] /\ updatedAt'[j] = updatedAt[j]
    PROVE  UNCHANGED Readers!corpusVars
<1>1. contentSeen' = contentSeen
    BY DEF contentSeen, DocumentsOf
<1>2. stampSeen' = stampSeen
    BY DEF stampSeen
<1> QED BY <1>1, <1>2 DEF Readers!corpusVars

\* A step that changes the documents of a hidden row and no others.
LEMMA RewriteStep ==
    ASSUME TypeOK, TypeOK', NEW i \in Id, UNCHANGED <<now, status>>,
           status[i] # "ready",
           \A j \in Id : j # i => SameDocuments(j) /\ updatedAt'[j] = updatedAt[j]
    PROVE  Readers!CorpusNext
<1>1. stampSeen' = stampSeen /\ stampSeen[i] = None
    BY DEF stampSeen
<1>2. \A j \in Id : j # i => DocumentsOf(j)' = DocumentsOf(j)
    BY DEF SameDocuments, DocumentsOf
<1>3. contentSeen' = [contentSeen EXCEPT ![i] = contentSeen'[i]]
    BY <1>2 DEF contentSeen
<1>4. contentSeen'[i] \in SUBSET (Path \X Run)
    BY DEF contentSeen, DocumentsOf, TypeOK, Document
<1>5. Readers!Rewrite(i, contentSeen'[i])
    BY <1>1, <1>3 DEF Readers!Rewrite
<1> QED BY <1>4, <1>5 DEF Readers!CorpusNext

LEMMA CorpusRunStep ==
    ASSUME Timely, IngestionInv, IngestionInv', NEW r \in Run, RunStep(r)
    PROVE  Readers!CorpusNext \/ UNCHANGED Readers!corpusVars
<1>a. /\ TypeOK /\ TypeOK'
      /\ Working(r) => id[r] \in Id
      /\ Working(r) /\ Exists(id[r]) => status[id[r]] \in Running
    BY DEF IngestionInv, RunsHoldTheirRows, TypeOK, Working
<1>b. "ready" \notin Running /\ "ready" \in Live
    BY DEF Running, Live
<1>1. CASE \/ Start(r) \/ FindSource(r) \/ FindWinner(r) \/ CreateLosesRace(r)
           \/ ReadClock(r) \/ ClaimRefused(r) \/ BeginClear(r) \/ SkipDocument(r)
           \/ StoreRefused(r) \/ PipelineFails(r) \/ Abandon(r) \/ SendHeartbeat(r)
           \/ LoseHeartbeat(r)
    <2>1. UNCHANGED <<now, status, updatedAt, documents>>
        BY <1>1 DEF Start, FindSource, FindWinner, LookUp, CreateLosesRace, ReadClock,
           ClaimRefused, BeginClear, SkipDocument, StoreRefused, PipelineFails,
           Abandon, SendHeartbeat, LoseHeartbeat, rowVars
    <2> QED BY <2>1 DEF Readers!corpusVars, contentSeen, stampSeen, DocumentsOf
<1>2. CASE CreateSource(r)
    <2>1. PICK i \in Id, t \in Stamps :
             /\ status[i] = "absent"
             /\ status' = [status EXCEPT ![i] = "pending"]
             /\ updatedAt' = [updatedAt EXCEPT ![i] = t]
        BY <1>2 DEF CreateSource
    <2>2. UNCHANGED <<now, documents>>
        BY <1>2 DEF CreateSource
    <2>3. status[i] # "ready" /\ status'[i] # "ready"
        BY <1>a, <2>1 DEF TypeOK
    <2> QED BY <1>a, <2>1, <2>2, <2>3, InvisibleStep DEF TypeOK
<1>3. CASE Claim(r)
    <2>1. PICK t \in Stamps : updatedAt' = [updatedAt EXCEPT ![id[r]] = t]
        BY <1>3 DEF Claim
    <2>2. /\ status' = [status EXCEPT ![id[r]] = "processing"]
          /\ UNCHANGED <<now, documents>>
          /\ id[r] \in Id
        BY <1>3, <1>a DEF Claim, TypeOK
    <2>3. CASE status[id[r]] = "ready"
        <3>1. contentSeen' = contentSeen
            BY <2>2 DEF contentSeen, DocumentsOf
        <3>2. stampSeen' = [stampSeen EXCEPT ![id[r]] = None]
            BY <1>a, <2>1, <2>2 DEF stampSeen, TypeOK
        <3>3. stampSeen[id[r]] # None
            BY <1>a, <2>2, <2>3, IngestionAssumption DEF stampSeen, TypeOK
        <3>4. Readers!Withdraw(id[r])
            BY <2>2, <3>1, <3>2, <3>3 DEF Readers!Withdraw
        <3> QED BY <2>2, <3>4 DEF Readers!CorpusNext
    <2>4. CASE status[id[r]] # "ready"
        BY <1>a, <2>1, <2>2, <2>4, InvisibleStep DEF TypeOK
    <2> QED BY <2>3, <2>4
<1>4. CASE CommitClear(r) \/ StoreDocument(r)
    <2>1. /\ UNCHANGED <<now, status>>
          /\ Working(r) /\ id' = id
          /\ \E t \in Stamps : updatedAt' = Stamped(id[r], t)
        BY <1>4 DEF CommitClear, StoreDocument, Working, Holding, Pipeline
    <2>2. status[id[r]] # "ready"
        BY <1>a, <1>b, <2>1 DEF Exists
    <2>3. \A j \in Id : j # id[r] => SameDocuments(j) /\ updatedAt'[j] = updatedAt[j]
        BY <1>a, <2>1, StepOfOneRun DEF Stamped, TypeOK, IngestionInv
    <2> QED BY <1>a, <2>1, <2>2, <2>3, RewriteStep
<1>5. CASE MarkProcessing(r) \/ RecordSkipped(r) \/ MarkFailed(r)
    <2>1. /\ UNCHANGED <<now, documents>>
          /\ Working(r)
          /\ \E t \in Stamps : updatedAt' = Stamped(id[r], t)
          /\ \/ status' = status
             \/ \E s \in {"processing", "failed"} : status' = Marked(id[r], s)
        BY <1>5 DEF MarkProcessing, RecordSkipped, MarkFailed, Working, Holding,
                    Pipeline
    <2>2. status[id[r]] # "ready"
        BY <1>a, <1>b, <2>1 DEF Exists
    <2>3. status'[id[r]] # "ready"
        BY <1>a, <2>1, <2>2 DEF Marked, TypeOK
    <2>4. \A j \in Id : j # id[r] =>
             status'[j] = status[j] /\ updatedAt'[j] = updatedAt[j]
        BY <1>a, <2>1 DEF Marked, Stamped, TypeOK
    <2> QED BY <1>a, <2>1, <2>2, <2>3, <2>4, InvisibleStep
<1>6. CASE MarkReady(r)
    <2>1. PICK t \in Stamps : updatedAt' = Stamped(id[r], t)
        BY <1>6 DEF MarkReady
    <2>2. /\ UNCHANGED <<now, documents>>
          /\ Working(r) /\ id[r] \in Id
          /\ status' = Marked(id[r], "ready")
        BY <1>6, <1>a DEF MarkReady, Working, Holding, Pipeline
    <2>3. status[id[r]] # "ready"
        BY <1>a, <1>b, <2>2 DEF Exists
    <2>4. CASE Exists(id[r])
        <3>1. contentSeen' = contentSeen
            BY <2>2 DEF contentSeen, DocumentsOf
        <3>2. stampSeen' = [stampSeen EXCEPT ![id[r]] = t] /\ stampSeen[id[r]] = None
            BY <1>a, <2>1, <2>2, <2>3, <2>4 DEF stampSeen, Marked, Stamped, TypeOK
        <3>3. t \in Readers!Stamps
            BY DEF Stamps, Readers!Stamps
        <3>4. Readers!Publish(id[r], t)
            BY <2>2, <3>1, <3>2, <3>3 DEF Readers!Publish
        <3> QED BY <2>2, <3>3, <3>4 DEF Readers!CorpusNext
    <2>5. CASE ~Exists(id[r])
        BY <1>a, <2>1, <2>2, <2>3, <2>5, InvisibleStep DEF Marked, Stamped
    <2> QED BY <2>4, <2>5
<1>7. CASE LandHeartbeat(r)
    <2>1. UNCHANGED <<now, documents, status>> /\ id[r] \in Id
        BY <1>7, <1>a DEF LandHeartbeat, TypeOK
    <2>2. CASE Touchable(id[r])
        <3>1. \E t \in Stamps : updatedAt' = [updatedAt EXCEPT ![id[r]] = t]
            BY <1>7, <2>2 DEF LandHeartbeat
        <3>2. status[id[r]] # "ready" /\ status'[id[r]] # "ready"
            BY <2>1, <2>2 DEF Touchable
        <3> QED BY <1>a, <2>1, <3>1, <3>2, InvisibleStep DEF TypeOK
    <2>3. CASE ~Touchable(id[r])
        <3>1. updatedAt' = updatedAt
            BY <1>7, <2>3 DEF LandHeartbeat
        <3> QED BY <2>1, <3>1 DEF Readers!corpusVars, contentSeen, stampSeen, DocumentsOf
    <2> QED BY <2>2, <2>3
<1> QED BY <1>1, <1>2, <1>3, <1>4, <1>5, <1>6, <1>7 DEF RunStep, Advance

LEMMA CorpusStep ==
    ASSUME Timely, IngestionInv, IngestionInv', [Next]_vars
    PROVE  Readers!CorpusNext \/ UNCHANGED Readers!corpusVars
<1>1. CASE UNCHANGED vars
    BY <1>1 DEF vars, Readers!corpusVars, contentSeen, stampSeen, DocumentsOf
<1>2. CASE Tick
    <2>1. UNCHANGED <<contentSeen, stampSeen>>
        BY <1>2 DEF Tick, rowVars, contentSeen, stampSeen, DocumentsOf
    <2> QED BY <1>2, <2>1 DEF Tick, Readers!Tick, Readers!CorpusNext
<1>3. ASSUME NEW i \in Id, DeleteSource(i) PROVE Readers!CorpusNext
    <2>1. /\ status' = [status EXCEPT ![i] = "deleted"]
          /\ documents' = documents \ DocumentsOf(i)
          /\ UNCHANGED <<now, updatedAt>>
        BY <1>3 DEF DeleteSource
    <2>2. \A j \in Id : DocumentsOf(j)' = IF j = i THEN {} ELSE DocumentsOf(j)
        BY <2>1 DEF DocumentsOf
    <2>3. contentSeen' = [contentSeen EXCEPT ![i] = {}]
        BY <2>2 DEF contentSeen
    <2>4. stampSeen' = [stampSeen EXCEPT ![i] = None]
        BY <2>1 DEF stampSeen, IngestionInv, TypeOK
    <2>5. Readers!Remove(i)
        BY <2>1, <2>3, <2>4 DEF Readers!Remove
    <2> QED BY <2>5 DEF Readers!CorpusNext
<1>4. ASSUME NEW r \in Run, RunStep(r)
      PROVE  Readers!CorpusNext \/ UNCHANGED Readers!corpusVars
    BY <1>4, CorpusRunStep
<1> QED BY <1>1, <1>2, <1>3, <1>4 DEF Next, RunStep

\* With live runs renewing within the lease, ingestion shows readers a Corpus: no
\* ready source changes its content or its stamp under them.
THEOREM ReadersSeeACorpus ==
    ASSUME Timely
    PROVE  Spec => ImplementsCorpus
<1>1. Init => Readers!CorpusInit
    BY CorpusInitially
<1>2. IngestionInv /\ IngestionInv' /\ [Next]_vars
        => [Readers!CorpusNext]_Readers!corpusVars
    BY CorpusStep, Timely
<1> QED BY <1>1, <1>2, Invariance, Timely, PTL
        DEF Spec, ImplementsCorpus, Readers!CorpusSpec

-------------------------------------------------------------------------------
(***************************************************************************)
(* What holds however late timers are and whatever replies get lost.       *)
(***************************************************************************)

\* While a row is running, its stamp is as recent as its holder's last renewal.
RenewalsAreStamped ==
    /\ \A i \in Id : Exists(i) => holder[i] \in Run
    /\ \A i \in Id : holder[i] \in Run =>
          id[holder[i]] = i /\ pc[holder[i]] \notin Claiming \cup {"idle"}
    /\ \A i \in Id : status[i] \in Running =>
          beat[holder[i]] <= updatedAt[i] + TxMax
    /\ \A r \in armed \cup inflight : status[id[r]] \notin {"pending", "absent"}
    /\ \A r \in Run : pc[r] \in Holding => status[id[r]] # "absent"

LEMMA RenewalsInit == Init => RenewalsAreStamped
BY IngestionAssumption
   DEF Init, RenewalsAreStamped, Exists, Live, Running, Holding, Pipeline

LEMMA RenewalsNext ==
    ASSUME TypeOK, TypeOK', ClaimsAreDated, RenewalsAreStamped, Next
    PROVE  RenewalsAreStamped'
<1> USE IngestionAssumption DEF RenewalsAreStamped
<1>t. /\ now \in Nat
      /\ \A t \in Stamps : t \in Nat /\ t <= now /\ now <= t + TxMax
      /\ \A r \in Run : beat[r] \in Nat /\ beat[r] <= now
      /\ \A i \in Id : updatedAt[i] \in Nat
    BY StampsType DEF TypeOK, ClaimsAreDated
<1>r. Running = {"pending", "processing"} /\ Live = {"pending", "processing", "ready", "failed"}
    BY DEF Live, Running
<1>1. CASE Tick
    BY <1>1 DEF Tick, rowVars, timers, Exists
<1>2. ASSUME NEW i \in Id, DeleteSource(i) PROVE RenewalsAreStamped'
    <2>1. /\ status' = [status EXCEPT ![i] = "deleted"]
          /\ UNCHANGED <<updatedAt, holder, id, beat, armed, inflight>>
          /\ \A r \in Run : pc'[r] \in {pc[r], "errored"}
        BY <1>2 DEF DeleteSource, timers
    <2>2. /\ \A r \in armed \cup inflight : id[r] \in Id
          /\ \A r \in Run : pc'[r] \in Holding => pc[r] \in Holding /\ id[r] \in Id
        BY <2>1 DEF TypeOK, Holding, Pipeline
    <2> QED BY <1>r, <2>1, <2>2 DEF Exists, TypeOK, Claiming
<1>3. ASSUME NEW r \in Run,
             Start(r) \/ FindSource(r) \/ FindWinner(r) \/ CreateLosesRace(r)
               \/ ReadClock(r) \/ ClaimRefused(r)
      PROVE  RenewalsAreStamped'
    <2>1. /\ UNCHANGED <<status, updatedAt, holder, beat, armed, inflight>>
          /\ pc[r] \in Claiming \cup {"idle"}
          /\ \A q \in Run : q # r => pc'[q] = pc[q] /\ id'[q] = id[q]
          /\ pc'[r] \notin Holding
        BY <1>3 DEF Start, FindSource, FindWinner, LookUp, CreateLosesRace, ReadClock,
           ClaimRefused, rowVars, timers, Goto, TypeOK, Claiming, Holding, Pipeline
    <2>2. r \notin armed \cup inflight
        BY <2>1 DEF ClaimsAreDated
    <2>3. \A i \in Id : holder[i] # r
        BY <2>1
    <2> QED BY <2>1, <2>2, <2>3 DEF Exists, TypeOK
<1>4. ASSUME NEW r \in Run, CreateSource(r) PROVE RenewalsAreStamped'
    <2>1. PICK i \in Id, t \in Stamps :
             /\ status[i] = "absent"
             /\ status' = [status EXCEPT ![i] = "pending"]
             /\ updatedAt' = [updatedAt EXCEPT ![i] = t]
             /\ holder' = [holder EXCEPT ![i] = r]
             /\ id' = [id EXCEPT ![r] = i]
        BY <1>4 DEF CreateSource
    <2>2. /\ pc[r] = "create" /\ pc' = [pc EXCEPT ![r] = "fetch"]
          /\ beat' = [beat EXCEPT ![r] = now]
          /\ UNCHANGED <<armed, inflight>>
        BY <1>4 DEF CreateSource, Goto, Renew, timers
    <2>3. r \notin armed \cup inflight /\ \A j \in Id : holder[j] # r
        BY <2>2 DEF ClaimsAreDated, Claiming
    <2>4. /\ \A q \in armed \cup inflight : id[q] # i /\ id[q] \in Id
          /\ \A q \in Run : pc[q] \in Holding => id[q] # i /\ id[q] \in Id
        BY <2>1 DEF TypeOK
    <2> QED BY <1>t, <1>r, <2>1, <2>2, <2>3, <2>4 DEF Exists, TypeOK, Claiming
<1>5. ASSUME NEW r \in Run, Claim(r) PROVE RenewalsAreStamped'
    <2>1. PICK t \in Stamps : updatedAt' = [updatedAt EXCEPT ![id[r]] = t]
        BY <1>5 DEF Claim
    <2>2. /\ pc[r] = "claim" /\ pc' = [pc EXCEPT ![r] = "clear"]
          /\ status' = [status EXCEPT ![id[r]] = "processing"]
          /\ holder' = [holder EXCEPT ![id[r]] = r]
          /\ beat' = [beat EXCEPT ![r] = now]
          /\ UNCHANGED <<id, armed, inflight>>
          /\ id[r] \in Id
        BY <1>5 DEF Claim, Goto, Renew, timers, TypeOK
    <2>3. \A j \in Id : holder[j] # r
        BY <2>2 DEF Claiming
    <2>4. /\ \A q \in armed \cup inflight : id[q] \in Id
          /\ \A q \in Run : pc[q] \in Holding => id[q] \in Id
        BY DEF TypeOK
    <2> QED BY <1>t, <1>r, <2>1, <2>2, <2>3, <2>4 DEF Exists, TypeOK, Claiming
<1>6. ASSUME NEW r \in Run,
             BeginClear(r) \/ SkipDocument(r) \/ StoreRefused(r) \/ PipelineFails(r)
               \/ Abandon(r) \/ SendHeartbeat(r) \/ LoseHeartbeat(r)
      PROVE  RenewalsAreStamped'
    <2>1. /\ UNCHANGED <<status, updatedAt, holder, id, beat>>
          /\ armed' \cup inflight' \subseteq armed \cup inflight
          /\ \A q \in Run : pc[q] \notin Claiming \cup {"idle"}
                               => pc'[q] \notin Claiming \cup {"idle"}
          /\ \A q \in Run : pc'[q] \in Holding => pc[q] \in Holding
        BY <1>6 DEF BeginClear, SkipDocument, StoreRefused, PipelineFails, Abandon,
           SendHeartbeat, LoseHeartbeat, rowVars, timers, Goto, TypeOK, Claiming,
           Holding, Pipeline
    <2> QED BY <2>1 DEF Exists
<1>7. ASSUME NEW r \in Run,
             CommitClear(r) \/ StoreDocument(r) \/ RecordSkipped(r)
               \/ MarkProcessing(r) \/ MarkReady(r) \/ MarkFailed(r)
      PROVE  RenewalsAreStamped'
    <2>1. PICK t \in Stamps : updatedAt' = Stamped(id[r], t)
        BY <1>7 DEF CommitClear, StoreDocument, RecordSkipped, MarkProcessing,
                    MarkReady, MarkFailed
    <2>2. /\ UNCHANGED <<holder, id, inflight>>
          /\ id[r] \in Id
          /\ beat' = [beat EXCEPT ![r] = now]
          /\ \A q \in Run : pc[q] \notin Claiming \cup {"idle"}
                               => pc'[q] \notin Claiming \cup {"idle"}
        BY <1>7 DEF CommitClear, StoreDocument, RecordSkipped, MarkProcessing,
           MarkReady, MarkFailed, Goto, Renew, timers, TypeOK, Claiming, Holding,
           Pipeline
    <2>3. \/ status' = status /\ armed' = armed
          \/ status' = Marked(id[r], "processing") /\ armed' = armed \cup {r}
          \/ /\ \E s \in {"ready", "failed"} : status' = Marked(id[r], s)
             /\ armed' \subseteq armed
        BY <1>7 DEF CommitClear, StoreDocument, RecordSkipped, MarkProcessing,
           MarkReady, MarkFailed, timers
    <2>4. \A q \in armed \cup inflight : id[q] \in Id
        BY DEF TypeOK
    <2>5. \A j \in Id : Exists(j)' <=> Exists(j)
        BY <1>r, <2>3 DEF Exists, Marked, TypeOK
    <2>6. ASSUME NEW j \in Id, status'[j] \in Running
          PROVE  beat'[holder'[j]] <= updatedAt'[j] + TxMax
        <3>1. Exists(j) /\ holder[j] \in Run /\ id[holder[j]] = j
            BY <1>r, <2>5, <2>6 DEF Exists
        <3>2. CASE j = id[r]
            BY <1>t, <2>1, <2>2, <3>1, <3>2 DEF Stamped, TypeOK
        <3>3. CASE j # id[r]
            BY <2>1, <2>2, <2>3, <2>6, <3>1, <3>3 DEF Stamped, Marked, TypeOK
        <3> QED BY <3>2, <3>3
    <2>7. /\ pc[r] \in Holding
          /\ \A q \in Run : pc'[q] \in Holding => pc[q] \in Holding /\ id[q] \in Id
        BY <1>7 DEF CommitClear, StoreDocument, RecordSkipped, MarkProcessing,
           MarkReady, MarkFailed, Goto, TypeOK, Holding, Pipeline
    <2>8. \A j \in Id : status[j] # "absent" => status'[j] # "absent"
        BY <2>3 DEF Marked, TypeOK
    <2>9. \A q \in armed' \cup inflight' : status'[id'[q]] \notin {"pending", "absent"}
        <3>1. CASE status' = status /\ armed' = armed
            BY <2>2, <3>1
        <3>2. CASE status' = Marked(id[r], "processing") /\ armed' = armed \cup {r}
            BY <1>r, <2>2, <2>4, <2>7, <3>2 DEF Marked, Exists, TypeOK
        <3>3. CASE /\ \E s \in {"ready", "failed"} : status' = Marked(id[r], s)
                   /\ armed' \subseteq armed
            BY <2>2, <2>4, <3>3 DEF Marked, TypeOK
        <3> QED BY <2>3, <3>1, <3>2, <3>3
    <2> QED BY <2>2, <2>5, <2>6, <2>7, <2>8, <2>9
<1>8. ASSUME NEW r \in Run, LandHeartbeat(r) PROVE RenewalsAreStamped'
    <2>1. /\ UNCHANGED <<status, holder, id, pc, armed>>
          /\ r \in inflight /\ inflight' \subseteq inflight
          /\ beat' = [beat EXCEPT ![r] = now]
          /\ id[r] \in Id
          /\ status[id[r]] # "pending"
        BY <1>8 DEF LandHeartbeat, Renew, TypeOK
    <2>2. \/ updatedAt' = updatedAt /\ status[id[r]] # "processing"
          \/ \E t \in Stamps : updatedAt' = [updatedAt EXCEPT ![id[r]] = t]
        BY <1>8 DEF LandHeartbeat, Touchable
    <2>3. ASSUME NEW j \in Id, status[j] \in Running
          PROVE  beat'[holder[j]] <= updatedAt'[j] + TxMax
        <3>1. holder[j] \in Run /\ id[holder[j]] = j
            BY <1>r, <2>3 DEF Exists
        <3>2. CASE j = id[r]
            BY <1>t, <1>r, <2>1, <2>2, <2>3, <3>1, <3>2 DEF TypeOK
        <3>3. CASE j # id[r]
            BY <2>1, <2>2, <2>3, <3>1, <3>3 DEF TypeOK
        <3> QED BY <3>2, <3>3
    <2> QED BY <2>1, <2>3 DEF Exists
<1> QED BY <1>1, <1>2, <1>3, <1>4, <1>5, <1>6, <1>7, <1>8 DEF Next, Advance

\* A ready or failed row bears a mark, and its holder made it only if it is done with
\* the row, or never learnt that it is.
MarksAreSigned ==
    \A i \in Id : status[i] \in {"ready", "failed"} =>
        /\ markedBy[i] \in Run
        /\ pc[markedBy[i]] \in {"done", "failed"} \/ MayLoseReply

\* A row that has a holder was created.
HeldIsCreated == \A i \in Id : holder[i] \in Run => status[i] # "absent"

LEMMA HeldInit == Init => HeldIsCreated
BY IngestionAssumption DEF Init, HeldIsCreated

LEMMA HeldNext == TypeOK /\ HeldIsCreated /\ Next => HeldIsCreated'
<1> SUFFICES ASSUME TypeOK, HeldIsCreated, Next, NEW i \in Id
             PROVE  holder'[i] \in Run => status'[i] # "absent"
    BY DEF HeldIsCreated
<1>1. \/ holder'[i] = holder[i]
      \/ status'[i] \in {"pending", "processing"}
    BY DEF Next, DeleteSource, Tick, Start, Advance, FindSource, FindWinner, LookUp,
       CreateSource, CreateLosesRace, ReadClock, Claim, ClaimRefused, BeginClear,
       CommitClear, MarkProcessing, SkipDocument, StoreDocument, StoreRefused,
       RecordSkipped, MarkReady, MarkFailed, PipelineFails, Abandon, SendHeartbeat,
       LandHeartbeat, LoseHeartbeat, rowVars, TypeOK
<1>2. status[i] # "absent" => status'[i] # "absent"
    BY DEF Next, DeleteSource, Tick, Start, Advance, FindSource, FindWinner, LookUp,
       CreateSource, CreateLosesRace, ReadClock, Claim, ClaimRefused, BeginClear,
       CommitClear, MarkProcessing, SkipDocument, StoreDocument, StoreRefused,
       RecordSkipped, MarkReady, MarkFailed, PipelineFails, Abandon, SendHeartbeat,
       LandHeartbeat, LoseHeartbeat, rowVars, Marked, TypeOK
<1> QED BY <1>1, <1>2 DEF HeldIsCreated

LEMMA MarksInit == Init => MarksAreSigned
BY DEF Init, MarksAreSigned

LEMMA MarksNext ==
    ASSUME TypeOK, MarksAreSigned, Next
    PROVE  MarksAreSigned'
<1> USE DEF MarksAreSigned
<1>1. CASE Tick
    BY <1>1 DEF Tick, rowVars
<1>2. ASSUME NEW i \in Id, DeleteSource(i) PROVE MarksAreSigned'
    <2>1. /\ status' = [status EXCEPT ![i] = "deleted"]
          /\ markedBy' = markedBy
          /\ \A r \in Run : pc[r] # "clearing" => pc'[r] = pc[r]
        BY <1>2 DEF DeleteSource
    <2> QED BY <2>1 DEF TypeOK
<1>3. ASSUME NEW r \in Run, CreateSource(r) \/ Claim(r) PROVE MarksAreSigned'
    <2>1. PICK i \in Id : /\ \/ status' = [status EXCEPT ![i] = "pending"]
                             \/ status' = [status EXCEPT ![i] = "processing"]
                          /\ \A j \in Id : j # i => markedBy'[j] = markedBy[j]
        BY <1>3 DEF CreateSource, Claim, TypeOK
    <2>2. pc[r] \notin {"done", "failed"} /\ \A q \in Run : q # r => pc'[q] = pc[q]
        BY <1>3 DEF CreateSource, Claim, Goto, TypeOK
    <2> QED BY <2>1, <2>2 DEF TypeOK
<1>4. ASSUME NEW r \in Run,
             Start(r) \/ FindSource(r) \/ FindWinner(r) \/ CreateLosesRace(r)
               \/ ReadClock(r) \/ ClaimRefused(r) \/ BeginClear(r) \/ CommitClear(r)
               \/ SkipDocument(r) \/ StoreDocument(r) \/ StoreRefused(r)
               \/ RecordSkipped(r) \/ PipelineFails(r) \/ Abandon(r)
               \/ SendHeartbeat(r) \/ LandHeartbeat(r) \/ LoseHeartbeat(r)
      PROVE  MarksAreSigned'
    <2>1. UNCHANGED <<status, markedBy>>
        BY <1>4 DEF Start, FindSource, FindWinner, LookUp, CreateLosesRace, ReadClock,
           ClaimRefused, BeginClear, CommitClear, SkipDocument, StoreDocument,
           StoreRefused, RecordSkipped, PipelineFails, Abandon, SendHeartbeat,
           LandHeartbeat, LoseHeartbeat, rowVars
    <2>2. /\ \A q \in Run : q # r => pc'[q] = pc[q]
          /\ pc[r] \in {"done", "failed"} => pc'[r] = pc[r]
        BY <1>4 DEF Start, FindSource, FindWinner, LookUp, CreateLosesRace, ReadClock,
           ClaimRefused, BeginClear, CommitClear, SkipDocument, StoreDocument,
           StoreRefused, RecordSkipped, PipelineFails, Abandon, SendHeartbeat,
           LandHeartbeat, LoseHeartbeat, Goto, Ended, Pipeline, TypeOK
    <2> QED BY <2>1, <2>2 DEF TypeOK
<1>5. ASSUME NEW r \in Run, MarkProcessing(r) \/ MarkReady(r) \/ MarkFailed(r)
      PROVE  MarksAreSigned'
    <2>1. /\ id[r] \in Id
          /\ pc[r] \notin {"done", "failed"}
          /\ \A q \in Run : q # r => pc'[q] = pc[q]
        BY <1>5 DEF MarkProcessing, MarkReady, MarkFailed, Goto, TypeOK, Holding,
           Pipeline
    <2>2. \/ status' = Marked(id[r], "processing") /\ markedBy' = Signed(id[r], None)
          \/ /\ \E s \in {"ready", "failed"} : status' = Marked(id[r], s)
             /\ markedBy' = Signed(id[r], r)
             /\ pc'[r] \in {"done", "failed"} \/ MayLoseReply
        BY <1>5 DEF MarkProcessing, MarkReady, MarkFailed, Goto, TypeOK
    <2>3. \A j \in Id \ {id[r]} : status'[j] = status[j] /\ markedBy'[j] = markedBy[j]
        BY <2>2 DEF Marked, Signed, TypeOK
    <2>4. CASE ~Exists(id[r])
        <3>1. status[id[r]] \notin {"ready", "failed"}
            BY <2>4 DEF Exists, Live
        <3>2. status' = status /\ markedBy' = markedBy
            BY <2>2, <2>4 DEF Marked, Signed
        <3> QED BY <2>1, <3>2 DEF TypeOK
    <2>5. CASE Exists(id[r])
        BY <2>1, <2>2, <2>3, <2>5 DEF Marked, Signed, TypeOK
    <2> QED BY <2>4, <2>5
<1> QED BY <1>1, <1>2, <1>3, <1>4, <1>5 DEF Next, Advance

\* However late timers are and whatever replies get lost, a source is claimed from its
\* holder only after its lease, after its own mark, or after that of another run.
THEOREM ClaimsNeedALapseOrAMark == Spec => TakenOnlyIfLapsedOrMarked
<1> DEFINE Inv == /\ TypeOK /\ ClaimsAreDated /\ RenewalsAreStamped
                  /\ MarksAreSigned /\ HeldIsCreated
           Kept == \A i \in Id, r \in Run : holder[i] = r /\ holder'[i] # r =>
              \/ beat[r] + Lease <= now + TxMax
              \/ markedBy[i] = r /\ (pc[r] \in {"done", "failed"} \/ MayLoseReply)
              \/ markedBy[i] \in Run \ {r}
<1>1. Init => Inv
    BY TypeInit, DatedInit, RenewalsInit, MarksInit, HeldInit
<1>2. Inv /\ [Next]_vars => Inv'
    <2> SUFFICES ASSUME Inv, [Next]_vars PROVE Inv'
        OBVIOUS
    <2>1. TypeOK'
        BY TypeNext
    <2>2. CASE Next
        BY <2>1, <2>2, DatedNext, RenewalsNext, MarksNext, HeldNext
    <2>3. CASE UNCHANGED vars
        BY <2>1, <2>3 DEF vars, ClaimsAreDated, RenewalsAreStamped, MarksAreSigned,
           HeldIsCreated, Exists
    <2> QED BY <2>2, <2>3
<1>3. Inv /\ [Next]_vars => [Kept]_vars
    <2> SUFFICES ASSUME Inv, Next, NEW i \in Id, NEW r \in Run,
                        holder[i] = r, holder'[i] # r
                 PROVE  \/ beat[r] + Lease <= now + TxMax
                        \/ /\ markedBy[i] = r
                           /\ pc[r] \in {"done", "failed"} \/ MayLoseReply
                        \/ markedBy[i] \in Run \ {r}
        OBVIOUS
    <2>1. PICK q \in Run : (CreateSource(q) /\ status[i] = "absent")
                           \/ (Claim(q) /\ id[q] = i)
        BY DEF Next, DeleteSource, Tick, Start, Advance, FindSource, FindWinner, LookUp,
           CreateSource, CreateLosesRace, ReadClock, Claim, ClaimRefused, BeginClear,
           CommitClear, MarkProcessing, SkipDocument, StoreDocument, StoreRefused,
           RecordSkipped, MarkReady, MarkFailed, PipelineFails, Abandon,
           SendHeartbeat, LandHeartbeat, LoseHeartbeat, rowVars, TypeOK
    <2>2. status[i] # "absent"
        BY DEF HeldIsCreated
    <2>3. /\ Exists(i) /\ pc[q] = "claim"
          /\ status[i] \notin Running \/ updatedAt[i] < staleBefore[q]
          /\ staleBefore[q] + Lease <= now
        BY <2>1, <2>2 DEF Claim, Claimable, ClaimsAreDated
    <2>4. CASE status[i] \in Running
        <3>1. /\ beat[r] <= updatedAt[i] + TxMax
              /\ updatedAt[i] < staleBefore[q]
            BY <2>3, <2>4 DEF RenewalsAreStamped
        <3>2. /\ updatedAt[i] \in Nat /\ staleBefore[q] \in Int /\ now \in Nat
              /\ beat[r] \in Nat
            BY DEF TypeOK
        <3> QED BY <2>3, <3>1, <3>2, IngestionAssumption
    <2>5. CASE status[i] \in {"ready", "failed"}
        BY <2>5 DEF MarksAreSigned
    <2> QED BY <2>3, <2>4, <2>5 DEF Exists, Live
<1> QED BY <1>1, <1>2, <1>3, PTL DEF Spec, TakenOnlyIfLapsedOrMarked

\* A row bears no stamp later than the last renewal of some run that works, or worked,
\* on it.
StampsAreRenewals ==
    \A i \in Id : Exists(i) =>
        \E q \in Run : /\ id[q] = i
                       /\ pc[q] \notin Claiming \cup {"idle"}
                       /\ updatedAt[i] <= beat[q]

LEMMA RenewedInit == Init => StampsAreRenewals
BY DEF Init, StampsAreRenewals, Exists, Live, Running

\* A run that has come past its claim keeps its row, and its renewals only get later.
LEMMA RenewedStays ==
    ASSUME TypeOK, ClaimsAreDated, Next,
           NEW q \in Run, pc[q] \notin Claiming \cup {"idle"}
    PROVE  /\ id'[q] = id[q]
           /\ pc'[q] \notin Claiming \cup {"idle"}
           /\ beat[q] <= beat'[q]
<1> USE DEF Claiming, TypeOK
<1>1. beat[q] \in Nat /\ now \in Nat /\ beat[q] <= now
    BY DEF ClaimsAreDated
<1>2. id'[q] = id[q]
    BY DEF Next, DeleteSource, Tick, Start, Advance, FindSource, FindWinner,
       LookUp, CreateSource, CreateLosesRace, ReadClock, Claim, ClaimRefused, BeginClear,
       CommitClear, MarkProcessing, SkipDocument, StoreDocument, StoreRefused,
       RecordSkipped, MarkReady, MarkFailed, PipelineFails, Abandon, SendHeartbeat,
       LandHeartbeat, LoseHeartbeat
<1>3. pc'[q] \notin Claiming \cup {"idle"}
    BY DEF Next, DeleteSource, Tick, Start, Advance, FindSource, FindWinner,
       LookUp, CreateSource, CreateLosesRace, ReadClock, Claim, ClaimRefused, BeginClear,
       CommitClear, MarkProcessing, SkipDocument, StoreDocument, StoreRefused,
       RecordSkipped, MarkReady, MarkFailed, PipelineFails, Abandon, SendHeartbeat,
       LandHeartbeat, LoseHeartbeat, Goto
<1>4. beat'[q] \in {beat[q], now}
    BY DEF Next, DeleteSource, Tick, Start, Advance, FindSource, FindWinner,
       LookUp, CreateSource, CreateLosesRace, ReadClock, Claim, ClaimRefused, BeginClear,
       CommitClear, MarkProcessing, SkipDocument, StoreDocument, StoreRefused,
       RecordSkipped, MarkReady, MarkFailed, PipelineFails, Abandon, SendHeartbeat,
       LandHeartbeat, LoseHeartbeat, Renew
<1> QED BY <1>1, <1>2, <1>3, <1>4

\* A step that stamps a row is one of a run past its claim, which renews with it.
LEMMA RenewedNext ==
    ASSUME TypeOK, ClaimsAreDated, StampsAreRenewals, Next
    PROVE  StampsAreRenewals'
<1> DEFINE Kept(i) == Exists(i)' => Exists(i) /\ updatedAt'[i] = updatedAt[i]
           Renewing(r) == \E i \in Id :
                             /\ id'[r] = i /\ pc'[r] \notin Claiming \cup {"idle"}
                             /\ beat'[r] = now
                             /\ \E t \in Stamps : Exists(i)' => updatedAt'[i] = t
                             /\ \A j \in Id \ {i} : Kept(j)
<1>t. now \in Nat /\ \A t \in Stamps : t \in Nat /\ t <= now
    BY StampsType DEF TypeOK
<1>r. Live = {"pending", "processing", "ready", "failed"}
    BY DEF Live, Running
<1>m. ASSUME NEW i \in Id, NEW s
      PROVE  Marked(i, s)[i] \in Live => Exists(i)
    BY DEF Marked, Exists
<1>s. ASSUME NEW i \in Id, Kept(i), Exists(i)'
      PROVE  \E q \in Run : /\ id'[q] = i
                             /\ pc'[q] \notin Claiming \cup {"idle"}
                             /\ updatedAt'[i] <= beat'[q]
    <2>1. PICK q \in Run : /\ id[q] = i
                           /\ pc[q] \notin Claiming \cup {"idle"}
                           /\ updatedAt[i] <= beat[q]
        BY <1>s DEF StampsAreRenewals
    <2>2. id'[q] = id[q] /\ pc'[q] \notin Claiming \cup {"idle"} /\ beat[q] <= beat'[q]
        BY <2>1, RenewedStays
    <2>3. updatedAt'[i] = updatedAt[i]
        BY <1>s
    <2>4. updatedAt[i] \in Nat /\ beat[q] \in Nat /\ beat'[q] \in Nat
        BY TypeNext DEF TypeOK
    <2> QED BY <2>1, <2>2, <2>3, <2>4
<1>1. CASE \A i \in Id : Kept(i)
    BY <1>1, <1>s DEF StampsAreRenewals
<1>2. ASSUME NEW r \in Run, Renewing(r) PROVE StampsAreRenewals'
    BY <1>t, <1>2, <1>s DEF StampsAreRenewals
<1>3. ASSUME Tick \/ \E i \in Id : DeleteSource(i) PROVE \A i \in Id : Kept(i)
    BY <1>3, <1>r DEF Tick, DeleteSource, rowVars, Exists, TypeOK
<1>4. ASSUME NEW r \in Run,
             Start(r) \/ FindSource(r) \/ FindWinner(r) \/ CreateLosesRace(r)
               \/ ReadClock(r) \/ ClaimRefused(r) \/ BeginClear(r) \/ SkipDocument(r)
               \/ StoreRefused(r) \/ PipelineFails(r) \/ Abandon(r)
               \/ SendHeartbeat(r) \/ LoseHeartbeat(r)
      PROVE  \A i \in Id : Kept(i)
    <2>1. UNCHANGED <<status, updatedAt>>
        BY <1>4 DEF Start, FindSource, FindWinner, LookUp, CreateLosesRace, ReadClock,
           ClaimRefused, BeginClear, SkipDocument, StoreRefused, PipelineFails, Abandon,
           SendHeartbeat, LoseHeartbeat, rowVars
    <2> QED BY <2>1 DEF Exists
<1>5. ASSUME NEW r \in Run, CreateSource(r) \/ Claim(r) PROVE Renewing(r)
    <2>1. PICK i \in Id, t \in Stamps :
             /\ id'[r] = i
             /\ updatedAt' = [updatedAt EXCEPT ![i] = t]
             /\ \A j \in Id \ {i} : status'[j] = status[j]
        BY <1>5 DEF CreateSource, Claim, TypeOK
    <2>2. beat'[r] = now /\ pc'[r] \in {"fetch", "clear"}
        BY <1>5 DEF CreateSource, Claim, Renew, Goto, TypeOK
    <2> QED BY <2>1, <2>2 DEF Claiming, Exists, TypeOK
<1>6. ASSUME NEW r \in Run,
             CommitClear(r) \/ StoreDocument(r) \/ RecordSkipped(r)
               \/ MarkProcessing(r) \/ MarkReady(r) \/ MarkFailed(r)
      PROVE  Renewing(r)
    <2>1. /\ id' = id /\ id[r] \in Id
          /\ beat'[r] = now
          /\ pc'[r] \notin Claiming \cup {"idle"}
        BY <1>6 DEF CommitClear, StoreDocument, RecordSkipped, MarkProcessing,
           MarkReady, MarkFailed, Goto, Renew, TypeOK, Claiming, Holding, Pipeline
    <2>2. PICK t \in Stamps : updatedAt' = Stamped(id[r], t)
        BY <1>6 DEF CommitClear, StoreDocument, RecordSkipped, MarkProcessing,
           MarkReady, MarkFailed
    <2>3. status' = status \/ \E s : status' = Marked(id[r], s)
        BY <1>6 DEF CommitClear, StoreDocument, RecordSkipped, MarkProcessing,
           MarkReady, MarkFailed
    <2>4. Exists(id[r])' => Exists(id[r])
        BY <2>1, <2>3, <1>m DEF Exists
    <2>5. \A j \in Id \ {id[r]} :
             status'[j] = status[j] /\ updatedAt'[j] = updatedAt[j]
        BY <2>2, <2>3 DEF Marked, Stamped, TypeOK
    <2> QED BY <2>1, <2>2, <2>4, <2>5 DEF Stamped, Exists, TypeOK
<1>7. ASSUME NEW r \in Run, LandHeartbeat(r)
      PROVE  Renewing(r) \/ \A i \in Id : Kept(i)
    <2>1. /\ UNCHANGED <<status, id, pc>>
          /\ id[r] \in Id /\ r \in inflight
          /\ beat'[r] = now
          /\ \/ updatedAt' = updatedAt
             \/ \E t \in Stamps : updatedAt' = [updatedAt EXCEPT ![id[r]] = t]
        BY <1>7 DEF LandHeartbeat, Renew, TypeOK
    <2>2. pc[r] \notin Claiming \cup {"idle"}
        BY <2>1 DEF ClaimsAreDated
    <2> QED BY <2>1, <2>2 DEF Exists, TypeOK
<1> QED BY <1>1, <1>2, <1>3, <1>4, <1>5, <1>6, <1>7 DEF Next, Advance

\* However late timers are, a call that is refused finds a run that renewed its claim on
\* the source within the lease: a row with nobody behind it is claimed.
THEOREM RefusalsNeedARenewal == Spec => RefusedOnlyWhileRenewed
<1> DEFINE Inv == TypeOK /\ ClaimsAreDated /\ StampsAreRenewals
           Fresh == \A r \in Run : ClaimRefused(r) /\ Exists(id[r]) =>
                       \E q \in Run \ {r} :
                          id[q] = id[r] /\ staleBefore[r] <= beat[q]
<1>1. Init => Inv
    BY TypeInit, DatedInit, RenewedInit
<1>2. Inv /\ [Next]_vars => Inv'
    <2> SUFFICES ASSUME Inv, [Next]_vars PROVE Inv'
        OBVIOUS
    <2>1. TypeOK'
        BY TypeNext
    <2>2. CASE Next
        BY <2>1, <2>2, DatedNext, RenewedNext
    <2>3. CASE UNCHANGED vars
        BY <2>1, <2>3 DEF vars, ClaimsAreDated, StampsAreRenewals, Exists
    <2> QED BY <2>2, <2>3
<1>3. Inv /\ [Next]_vars => [Fresh]_vars
    <2> SUFFICES ASSUME Inv, NEW r \in Run, ClaimRefused(r), Exists(id[r])
                 PROVE  \E q \in Run \ {r} : id[q] = id[r] /\ staleBefore[r] <= beat[q]
        OBVIOUS
    <2>1. /\ pc[r] = "claim" /\ id[r] \in Id
          /\ ~(updatedAt[id[r]] < staleBefore[r])
        BY DEF ClaimRefused, Claimable, TypeOK
    <2>2. PICK q \in Run : /\ id[q] = id[r]
                           /\ pc[q] \notin Claiming \cup {"idle"}
                           /\ updatedAt[id[r]] <= beat[q]
        BY <2>1 DEF StampsAreRenewals
    <2>3. /\ q # r
          /\ updatedAt[id[r]] \in Nat /\ staleBefore[r] \in Int /\ beat[q] \in Nat
        BY <2>1, <2>2 DEF Claiming, TypeOK
    <2> QED BY <2>1, <2>2, <2>3
<1> QED BY <1>1, <1>2, <1>3, PTL DEF Spec, RefusedOnlyWhileRenewed

\* A deleted source stays deleted and nothing is ever stored for it again.
THEOREM DeletesAreFinal == Spec => DeleteIsFinal
<1> DEFINE Empty == \A i \in Id : ~Exists(i) => DocumentsOf(i) = {}
           Stay == \A i \in Id : status[i] = "deleted" => status'[i] = "deleted"
<1>r. Live = {"pending", "processing", "ready", "failed"}
    BY DEF Live, Running
<1>1. Init => TypeOK /\ Empty
    BY TypeInit DEF Init, DocumentsOf
<1>2. TypeOK /\ [Next]_vars => Stay
    BY <1>r DEF Next, DeleteSource, Tick, Start, Advance, FindSource, FindWinner,
       LookUp, CreateSource, CreateLosesRace, ReadClock, Claim, ClaimRefused, Claimable,
       BeginClear, CommitClear, MarkProcessing, SkipDocument, StoreDocument,
       StoreRefused, RecordSkipped, MarkReady, MarkFailed, PipelineFails, Abandon,
       SendHeartbeat, LandHeartbeat, LoseHeartbeat, rowVars, vars, Marked, Exists,
       TypeOK
<1>3. TypeOK /\ Empty /\ [Next]_vars => Empty'
    <2> SUFFICES ASSUME TypeOK, Empty, [Next]_vars, NEW i \in Id, ~Exists(i)'
                 PROVE  DocumentsOf(i)' = {}
        OBVIOUS
    <2>1. ASSUME NEW r \in Run, StoreDocument(r) PROVE DocumentsOf(i)' = {}
        <3>1. PICK p \in Due(r) :
                 /\ ~Refused(id[r], p)
                 /\ documents' = documents \cup
                                   {[source |-> id[r], path |-> p, run |-> r]}
            BY <2>1 DEF StoreDocument
        <3>2. status' = status
            BY <2>1 DEF StoreDocument
        <3>3. id[r] # i /\ DocumentsOf(i) = {}
            BY <3>1, <3>2 DEF Refused, Exists
        <3> QED BY <3>1, <3>3 DEF DocumentsOf
    <2>2. ASSUME NEW j \in Id, DeleteSource(j) PROVE DocumentsOf(i)' = {}
        <3>1. /\ documents' = documents \ DocumentsOf(j)
              /\ status' = [status EXCEPT ![j] = "deleted"]
            BY <2>2 DEF DeleteSource
        <3>2. i = j \/ DocumentsOf(i) = {}
            BY <3>1 DEF Exists, TypeOK
        <3> QED BY <3>1, <3>2 DEF DocumentsOf
    <2>3. CASE ~(\E r \in Run : StoreDocument(r)) /\ ~(\E j \in Id : DeleteSource(j))
        <3>1. documents' \subseteq documents
            BY <2>3 DEF Next, Tick, Start, Advance, FindSource, FindWinner, LookUp,
               CreateSource, CreateLosesRace, ReadClock, Claim, ClaimRefused,
               BeginClear, CommitClear, Cleared, MarkProcessing, SkipDocument,
               StoreRefused, RecordSkipped, MarkReady, MarkFailed, PipelineFails,
               Abandon, SendHeartbeat, LandHeartbeat, LoseHeartbeat, rowVars, vars
        <3>2. Exists(i) => Exists(i)'
            BY <2>3, <1>r DEF Next, Tick, Start, Advance, FindSource, FindWinner, LookUp,
               CreateSource, CreateLosesRace, ReadClock, Claim, ClaimRefused,
               BeginClear, CommitClear, MarkProcessing, SkipDocument, StoreRefused,
               RecordSkipped, MarkReady, MarkFailed, PipelineFails, Abandon,
               SendHeartbeat, LandHeartbeat, LoseHeartbeat, rowVars, vars, Marked,
               Exists, TypeOK
        <3> QED BY <3>1, <3>2 DEF DocumentsOf
    <2> QED BY <2>1, <2>2, <2>3
<1>4. TypeOK /\ [Next]_vars => TypeOK'
    BY TypeNext
<1>5. TypeOK /\ [Next]_vars => [Stay]_vars
    BY <1>2
<1> QED BY <1>1, <1>3, <1>4, <1>5, PTL DEF Spec, DeleteIsFinal
===============================================================================
