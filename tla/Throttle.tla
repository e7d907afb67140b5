------------------------------- MODULE Throttle --------------------------------
(***************************************************************************)
(* RedisThrottlerStorage under ThrottlerGuard: the requests of one client  *)
(* address, at any instance of the service, count themselves in Redis      *)
(* before their handlers run, and are refused once over the limit of their *)
(* bucket.  The counting script is one atomic step of Redis; its command   *)
(* may be late, lost, sent again by ioredis after a reconnect, or refused, *)
(* and its caller waits for REDIS_TIMEOUT_MS only.  Counters of other      *)
(* clients have other keys.                                                *)
(*                                                                         *)
(* A tick is a fraction of a second.  Redis keeps a key through the tick   *)
(* of its expiry, in which PTTL is 0.                                      *)
(***************************************************************************)
EXTENDS Integers, FiniteSets

CONSTANTS Request,
          Route,
          Limit,      \* throttleLimits, of every bucket alike
          Window,     \* ttl, MS_PER_MINUTE
          Second,     \* ticks of a second
          MaxTime     \* bound on the clock

ASSUME ThrottleAssumption ==
    /\ IsFiniteSet(Request)
    /\ {"ask", "stream"} \subseteq Route
    /\ Limit \in Nat \ {0} /\ Window \in Nat \ {0} /\ Second \in Nat \ {0}
    /\ MaxTime \in Nat \ {0}

VARIABLES now,
          \* Redis: a counter by bucket
          hits,        \* 0 when there is no key
          expireAt,    \* 0 when it has no expiry
          \* the requests
          pc, route,
          cmd,         \* their throttleIncrement command
          reply,       \* what the script returned
          resent,      \* has ioredis sent the command again?
          retryAt,     \* the time its 429 said to come back at
          \* history
          since,       \* when a counter began to count
          ran,         \* bucket's since when the script last counted the request
          extra,       \* counts of commands that had counted before
          meddled      \* buckets whose counter or expiry was lost

store   == <<hits, expireAt, since, meddled>>
request == <<pc, route, cmd, reply, resent, retryAt, ran, extra>>
vars    == <<now, store, request>>

Bucket == Route        \* a key is named for a route that has it

\* mutant: ThrottlerGuard's own key, one per handler
HandlerKey(r) == r

\* sharedBucketKey('ask') for both transports of a question, else the handler's.
KeyOf(r) == IF r = "stream" THEN "ask" ELSE r

Init ==
    /\ now = 1
    /\ hits = [b \in Bucket |-> 0] /\ expireAt = [b \in Bucket |-> 0]
    /\ since = [b \in Bucket |-> 0] /\ meddled = {}
    /\ pc = [r \in Request |-> "idle"]
    /\ route \in [Request -> Route]
    /\ cmd = [r \in Request |-> "none"]
    /\ reply = [r \in Request |-> [totalHits |-> 0, pttl |-> 0]]
    /\ resent = [r \in Request |-> FALSE]
    /\ retryAt = [r \in Request |-> 0]
    /\ ran = [r \in Request |-> 0]
    /\ extra = [b \in Bucket |-> 0]

--------------------------------------------------------------------------------
(***************************************************************************)
(* THROTTLE_INCREMENT_LUA.                                                 *)
(***************************************************************************)
Lapsed(b) == expireAt[b] # 0 /\ now > expireAt[b]
Alive(b)  == hits[b] > 0 /\ ~Lapsed(b)

\* INCR
Incremented(b) == IF Alive(b) THEN hits[b] + 1 ELSE 1

\* mutant: only the first hit sets the expiry
FirstHit(b) == ~Alive(b)

\* PTTL < 0: the key that INCR made or found has no expiry.
NoExpiry(b) == ~Alive(b) \/ expireAt[b] = 0

Expiry(b) == IF NoExpiry(b) THEN now + Window ELSE expireAt[b]

\* Redis runs the script for a request, whether or not anyone still waits for it.
Execute(r) ==
    LET b == KeyOf(route[r]) IN
    /\ cmd[r] = "sent"
    /\ hits' = [hits EXCEPT ![b] = Incremented(b)]
    /\ expireAt' = [expireAt EXCEPT ![b] = Expiry(b)]
    /\ reply' = [reply EXCEPT ![r] = [totalHits |-> Incremented(b),
                                      pttl |-> Expiry(b) - now]]
    /\ cmd' = [cmd EXCEPT ![r] = "executed"]
    /\ since' = [since EXCEPT ![b] = IF Alive(b) THEN @ ELSE now]
    /\ ran' = [ran EXCEPT ![r] = since'[b]]
    /\ extra' = [extra EXCEPT ![b] =
                    IF ~Alive(b) THEN 0
                    ELSE IF ran[r] = since[b] THEN @ + 1 ELSE @]
    /\ UNCHANGED <<now, meddled, pc, route, resent, retryAt>>

\* The key is evicted (allkeys-lru), or Redis comes back without it.
Evict(b) ==
    /\ Alive(b) /\ b \notin meddled        \* bound: once for a bucket
    /\ hits' = [hits EXCEPT ![b] = 0]
    /\ expireAt' = [expireAt EXCEPT ![b] = 0]
    /\ meddled' = meddled \cup {b}
    /\ UNCHANGED <<now, since, request>>

\* The counter survives something its expiry does not.
LoseExpiry(b) ==
    /\ Alive(b) /\ expireAt[b] # 0 /\ b \notin meddled
    /\ expireAt' = [expireAt EXCEPT ![b] = 0]
    /\ meddled' = meddled \cup {b}
    /\ UNCHANGED <<now, hits, since, request>>

--------------------------------------------------------------------------------
(***************************************************************************)
(* increment(), and what the guard makes of its record.                    *)
(***************************************************************************)
Arrive(r) ==
    /\ pc[r] = "idle"
    /\ pc' = [pc EXCEPT ![r] = "waiting"]
    /\ cmd' = [cmd EXCEPT ![r] = "sent"]
    /\ UNCHANGED <<now, store, route, reply, resent, retryAt, ran, extra>>

\* ioredis reconnects and sends again what it has had no reply to.
Resend(r) ==
    /\ cmd[r] \in {"sent", "executed"}
    /\ pc[r] \in {"waiting", "open"}
    /\ ~resent[r]
    /\ cmd' = [cmd EXCEPT ![r] = "sent"]
    /\ resent' = [resent EXCEPT ![r] = TRUE]
    /\ UNCHANGED <<now, store, pc, route, reply, retryAt, ran, extra>>

\* mutant: the limit itself is refused
BlockedAtLimit(n) == n >= Limit

IsBlocked(n) == n > Limit

\* mutant: whole seconds, rounded down
SecondsDown(ticks) == ticks \div Second

\* Math.ceil(timeToExpireMs / 1000)
Seconds(ticks) == (ticks + Second - 1) \div Second

TimeToExpire(pttl) == Seconds(IF pttl > 0 THEN pttl ELSE Window)

\* The reply arrives while increment() waits for it.
Reply(r) ==
    /\ pc[r] = "waiting" /\ cmd[r] = "executed"
    /\ cmd' = [cmd EXCEPT ![r] = "none"]
    /\ IF IsBlocked(reply[r].totalHits)
         THEN /\ pc' = [pc EXCEPT ![r] = "refused"]
              /\ retryAt' = [retryAt EXCEPT
                                ![r] = now + Second * TimeToExpire(reply[r].pttl)]
         ELSE /\ pc' = [pc EXCEPT ![r] = "admitted"]
              /\ UNCHANGED retryAt
    /\ UNCHANGED <<now, store, route, reply, resent, ran, extra>>

\* An error, of Redis or of the connection: OPEN.  The command may or may not run.
Fails(r) ==
    /\ pc[r] = "waiting"
    /\ pc' = [pc EXCEPT ![r] = "open"]
    /\ \E c \in {cmd[r], "none"} : cmd' = [cmd EXCEPT ![r] = c]
    /\ UNCHANGED <<now, store, route, reply, resent, retryAt, ran, extra>>

\* mutant: no withTimeout, as in CacheService
NoTimer(r) == FALSE

\* withTimeout's timer may fire, whatever the command is doing.
TimerRuns(r) == pc[r] = "waiting"

\* REDIS_TIMEOUT_MS pass: OPEN.  Nobody takes the command back.
TimesOut(r) ==
    /\ TimerRuns(r)
    /\ pc' = [pc EXCEPT ![r] = "open"]
    /\ UNCHANGED <<now, store, route, cmd, reply, resent, retryAt, ran, extra>>

Tick ==
    /\ now < MaxTime
    /\ now' = now + 1
    /\ UNCHANGED <<store, request>>

Next ==
    \/ \E r \in Request : \/ Arrive(r) \/ Execute(r) \/ Reply(r) \/ Fails(r)
                          \/ TimesOut(r) \/ Resend(r)
    \/ \E b \in Bucket : Evict(b) \/ LoseExpiry(b)
    \/ Tick

Spec == Init /\ [][Next]_vars

\* Nothing is assumed of Redis: only the timer of a waiting request fires.
FairSpec == Spec /\ \A r \in Request : WF_vars(TimesOut(r))

--------------------------------------------------------------------------------
(***************************************************************************)
(* Properties.                                                             *)
(***************************************************************************)
\* Every variable has its type; a reply's PTTL is neither negative nor more than
\* the window, and the clock stops at its bound.
TypeOK ==
    /\ now \in 1..MaxTime
    /\ hits \in [Bucket -> Nat] /\ extra \in [Bucket -> Nat]
    /\ expireAt \in [Bucket -> Nat] /\ since \in [Bucket -> Nat]
    /\ meddled \subseteq Bucket
    /\ pc \in [Request -> {"idle", "waiting", "admitted", "refused", "open"}]
    /\ route \in [Request -> Route]
    /\ cmd \in [Request -> {"none", "sent", "executed"}]
    /\ reply \in [Request -> [totalHits : Nat, pttl : 0..Window]]
    /\ resent \in [Request -> BOOLEAN]
    /\ retryAt \in [Request -> Nat] /\ ran \in [Request -> Nat]

\* The key of a request, and whether nothing but the service touched its counter.
Key(r) == KeyOf(route[r])
Untouched(r) == Key(r) \notin meddled

\* Both transports of a question spend one budget.
SameBudget(q, r) == route[q] = route[r] \/ {route[q], route[r]} = {"ask", "stream"}

\* While a client's counter runs, no more than the limit are admitted on its count,
\* over both transports and all instances; requests let through without a count
\* are not among them.
AdmittedWithinLimit ==
    \A r \in Request : pc[r] = "admitted" /\ Untouched(r) =>
        Cardinality({q \in Request :
            /\ pc[q] = "admitted" /\ Untouched(q) /\ SameBudget(q, r)
            /\ ran[q] \in ran[r]..(ran[r] + Window)}) <= Limit

\* A request is refused only after as many counts in its window as the limit allows,
\* of other requests or of commands that ioredis sent twice; a request that gave
\* up waiting may be among them.
RefusedOverLimit ==
    \A r \in Request : pc[r] = "refused" /\ Untouched(r) /\ ran[r] = since[Key(r)] =>
        Cardinality({q \in Request : Key(q) = Key(r) /\ ran[q] = ran[r]})
            + extra[Key(r)] > Limit

\* A client that comes back after the Retry-After of its 429 finds that the window
\* it was refused in is over, also if the answer came from the window's last tick.
RetryAfterIsEnough ==
    \A r \in Request : pc[r] = "refused" /\ Untouched(r) /\ now > retryAt[r] =>
        ~(Alive(Key(r)) /\ since[Key(r)] = ran[r])

\* Whatever happened to a counter's expiry before, once a request is counted the
\* counter ends within a window: no client stays refused for good.
CountedKeysExpire ==
    [][\A r \in Request : Execute(r) =>
          /\ hits'[Key(r)] > 0
          /\ expireAt'[Key(r)] # 0 /\ expireAt'[Key(r)] <= now + Window]_vars

\* Every request gets past the limiter, also with a Redis that never answers.
EveryCheckEnds ==
    \A r \in Request : (pc[r] = "waiting") ~> (pc[r] # "waiting")
================================================================================
