---------------------------- MODULE ThrottleProofs -----------------------------
(***************************************************************************)
(* Theorems about Throttle, for any number of requests and routes, any     *)
(* limit and any window.                                                   *)
(***************************************************************************)
EXTENDS Throttle, FiniteSetTheorems, TLAPS

\* An expiry is never further away than a window.
ExpiriesAreNear == \A b \in Bucket : expireAt[b] <= now + Window

\* Where nothing meddled, a counter has the expiry its first hit set, and there
\* has been no hit when there is no counter.
CountersAreDated ==
    \A b \in Bucket \ meddled :
        /\ since[b] <= now
        /\ hits[b] > 0 => since[b] > 0 /\ expireAt[b] = since[b] + Window
        /\ hits[b] = 0 => since[b] = 0

\* A command is on its way only for a request that waits or gave up waiting.
CommandsAreOwed ==
    \A r \in Request : pc[r] \notin {"waiting", "open"} => cmd[r] = "none"

\* What a reply that is waited for, or was acted on, says of the counter.
RepliesAreDated ==
    \A r \in Request : Untouched(r) =>
        /\ cmd[r] = "executed" => /\ ran[r] # 0 /\ reply[r].totalHits # 0
                                  /\ ran[r] + Window <= now + reply[r].pttl
        /\ pc[r] = "refused" => ran[r] + Window <= retryAt[r]
        /\ pc[r] = "admitted" => ran[r] # 0 /\ reply[r].totalHits \in 1..Limit

\* A count is of the counter there is now, and no higher than it, or of one whose
\* window was over when this one began.
CountsAreDated ==
    \A r \in Request : Untouched(r) /\ ran[r] # 0 =>
        \/ ran[r] = since[Key(r)] /\ reply[r].totalHits <= hits[Key(r)]
        \/ ran[r] + Window < since[Key(r)]

\* Two requests do not share a count, and two counters do not share a window.
CountsAreApart ==
    \A q, r \in Request :
        q # r /\ Untouched(r) /\ Key(q) = Key(r) /\ ran[q] # 0 /\ ran[r] # 0 =>
            \/ ran[q] = ran[r] /\ reply[q].totalHits # reply[r].totalHits
            \/ ran[q] + Window < ran[r]
            \/ ran[r] + Window < ran[q]

\* What the counters say, and what is said of them.
Counters == CountersAreDated /\ RepliesAreDated /\ CountsAreDated /\ CountsAreApart

ThrottleInv == TypeOK /\ ExpiriesAreNear /\ CommandsAreOwed /\ Counters

-------------------------------------------------------------------------------
(***************************************************************************)
(* Arithmetic and keys.                                                    *)
(***************************************************************************)
\* Whole seconds, rounded up, are no less than the time they stand for.
LEMMA SecondsRoundUp ==
  ASSUME NEW t \in Nat
  PROVE  Seconds(t) \in Nat /\ t <= Second * Seconds(t)
<1> DEFINE n == t + Second - 1
           q == n \div Second
<1>1. Second \in Nat \ {0} /\ n \in Nat
  BY ThrottleAssumption
<1>2. q \in Nat /\ n % Second < Second /\ n = Second * q + (n % Second)
        /\ n % Second \in Nat
  BY <1>1, Z3
<1>3. Second * q \in Nat
  BY <1>1, <1>2
<1> QED BY <1>1, <1>2, <1>3 DEF Seconds

LEMMA KeysAreBuckets ==
  ASSUME NEW r \in Request, route[r] \in Route
  PROVE  Key(r) \in Bucket
  BY ThrottleAssumption DEF Key, KeyOf, Bucket

-------------------------------------------------------------------------------
(***************************************************************************)
(* What the script leaves behind.                                          *)
(***************************************************************************)
LEMMA ExpiryFacts ==
  ASSUME TypeOK, ExpiriesAreNear, NEW b \in Bucket
  PROVE  /\ Expiry(b) \in Nat \ {0}
         /\ Expiry(b) - now \in 0..Window
         /\ Incremented(b) \in Nat \ {0}
<1>1. now \in Nat \ {0} /\ Window \in Nat \ {0} /\ expireAt[b] \in Nat
        /\ hits[b] \in Nat /\ expireAt[b] <= now + Window
  BY ThrottleAssumption DEF TypeOK, ExpiriesAreNear
<1>2. CASE NoExpiry(b)
  BY <1>1, <1>2 DEF Expiry, Incremented
<1>3. CASE ~NoExpiry(b)
  <2>1. expireAt[b] # 0 /\ expireAt[b] >= now /\ Expiry(b) = expireAt[b]
    BY <1>1, <1>3 DEF NoExpiry, Alive, Lapsed, Expiry
  <2> QED BY <1>1, <2>1 DEF Incremented
<1> QED BY <1>2, <1>3

-------------------------------------------------------------------------------
(***************************************************************************)
(* Type correctness, with the bound on expiries that a reply's PTTL needs. *)
(***************************************************************************)
LEMMA TypeInit == Init => TypeOK /\ ExpiriesAreNear
  BY ThrottleAssumption DEF Init, TypeOK, ExpiriesAreNear, Bucket

LEMMA TypeStep ==
  TypeOK /\ ExpiriesAreNear /\ [Next]_vars => TypeOK' /\ ExpiriesAreNear'
<1> SUFFICES ASSUME TypeOK, ExpiriesAreNear, [Next]_vars
             PROVE  TypeOK' /\ ExpiriesAreNear'
  OBVIOUS
<1> USE ThrottleAssumption
<1>1. ASSUME NEW r \in Request, Arrive(r)
      PROVE  TypeOK' /\ ExpiriesAreNear'
  BY <1>1 DEF Arrive, TypeOK, ExpiriesAreNear, store
<1>2. ASSUME NEW r \in Request, Execute(r)
      PROVE  TypeOK' /\ ExpiriesAreNear'
  <2> DEFINE b == Key(r)
  <2>1. b \in Bucket
    BY KeysAreBuckets DEF TypeOK
  <2>2. /\ Expiry(b) \in Nat \ {0} /\ Expiry(b) - now \in 0..Window
        /\ Incremented(b) \in Nat \ {0}
    BY <2>1, ExpiryFacts
  <2>3. /\ hits' = [hits EXCEPT ![b] = Incremented(b)]
        /\ expireAt' = [expireAt EXCEPT ![b] = Expiry(b)]
        /\ reply' = [reply EXCEPT ![r] = [totalHits |-> Incremented(b),
                                          pttl |-> Expiry(b) - now]]
        /\ cmd' = [cmd EXCEPT ![r] = "executed"]
        /\ since' = [since EXCEPT ![b] = IF Alive(b) THEN @ ELSE now]
        /\ ran' = [ran EXCEPT ![r] = since'[b]]
        /\ extra' = [extra EXCEPT ![b] =
                        IF ~Alive(b) THEN 0
                        ELSE IF ran[r] = since[b] THEN @ + 1 ELSE @]
        /\ UNCHANGED <<now, meddled, pc, route, resent, retryAt>>
    BY <1>2 DEF Execute, Key
  <2>4. hits' \in [Bucket -> Nat] /\ expireAt' \in [Bucket -> Nat]
    BY <2>1, <2>2, <2>3 DEF TypeOK
  <2>5. since' \in [Bucket -> Nat] /\ extra' \in [Bucket -> Nat]
    BY <2>1, <2>3 DEF TypeOK
  <2>6. /\ reply' \in [Request -> [totalHits : Nat, pttl : 0..Window]]
        /\ cmd' \in [Request -> {"none", "sent", "executed"}]
    BY <2>2, <2>3 DEF TypeOK
  <2>7. ran' \in [Request -> Nat]
    BY <2>1, <2>3, <2>5 DEF TypeOK
  <2>8. ExpiriesAreNear'
    <3> SUFFICES ASSUME NEW c \in Bucket PROVE expireAt'[c] <= now' + Window
      BY DEF ExpiriesAreNear, Bucket
    <3>1. expireAt'[c] = IF c = b THEN Expiry(b) ELSE expireAt[c]
      BY <2>1, <2>3 DEF TypeOK
    <3>2. now \in Nat /\ Window \in Nat
      BY DEF TypeOK
    <3> QED BY <2>2, <2>3, <3>1, <3>2 DEF ExpiriesAreNear
  <2> QED BY <2>3, <2>4, <2>5, <2>6, <2>7, <2>8 DEF TypeOK
<1>3. ASSUME NEW r \in Request, Reply(r)
      PROVE  TypeOK' /\ ExpiriesAreNear'
  <2> DEFINE t == IF reply[r].pttl > 0 THEN reply[r].pttl ELSE Window
  <2>1. t \in Nat /\ Second \in Nat /\ now \in Nat
    BY DEF TypeOK
  <2>2. TimeToExpire(reply[r].pttl) = Seconds(t)
    BY DEF TimeToExpire
  <2>3. Second * TimeToExpire(reply[r].pttl) \in Nat
    BY <2>1, <2>2, SecondsRoundUp
  <2>4. now + Second * TimeToExpire(reply[r].pttl) \in Nat
    BY <2>1, <2>3
  <2>5. retryAt' \in [Request -> Nat]
    BY <1>3, <2>4 DEF Reply, TypeOK
  <2> QED BY <1>3, <2>5 DEF Reply, TypeOK, ExpiriesAreNear, store
<1>4. ASSUME NEW r \in Request, Fails(r) \/ TimesOut(r) \/ Resend(r)
      PROVE  TypeOK' /\ ExpiriesAreNear'
  BY <1>4 DEF Fails, TimesOut, Resend, TypeOK, ExpiriesAreNear, store
<1>5. ASSUME NEW b \in Bucket, Evict(b) \/ LoseExpiry(b)
      PROVE  TypeOK' /\ ExpiriesAreNear'
  BY <1>5 DEF Evict, LoseExpiry, TypeOK, ExpiriesAreNear, request, Bucket
<1>6. CASE Tick
  BY <1>6 DEF Tick, TypeOK, ExpiriesAreNear, store, request, Bucket
<1>7. CASE UNCHANGED vars
  BY <1>7 DEF vars, store, request, TypeOK, ExpiriesAreNear
<1> QED BY <1>1, <1>2, <1>3, <1>4, <1>5, <1>6, <1>7 DEF Next

\* Every variable keeps its type, whatever becomes of commands and keys.
THEOREM TypeCorrect == Spec => []TypeOK
<1>1. Spec => [](TypeOK /\ ExpiriesAreNear)
  BY TypeInit, TypeStep, PTL DEF Spec
<1> QED BY <1>1, PTL

-------------------------------------------------------------------------------
(***************************************************************************)
(* The expiry of what is counted.                                          *)
(***************************************************************************)
\* A count always leaves its key with an expiry no more than a window away: the
\* script sets one whenever it finds none.
THEOREM CountedKeysAlwaysExpire == Spec => CountedKeysExpire
<1>1. TypeOK /\ ExpiriesAreNear /\ [Next]_vars =>
        [\A r \in Request : Execute(r) =>
            /\ hits'[Key(r)] > 0
            /\ expireAt'[Key(r)] # 0 /\ expireAt'[Key(r)] <= now + Window]_vars
  <2> SUFFICES ASSUME TypeOK, ExpiriesAreNear, NEW r \in Request, Execute(r)
               PROVE  /\ hits'[Key(r)] > 0
                      /\ expireAt'[Key(r)] # 0 /\ expireAt'[Key(r)] <= now + Window
    OBVIOUS
  <2> DEFINE b == Key(r)
  <2>1. b \in Bucket
    BY KeysAreBuckets DEF TypeOK
  <2>2. hits'[b] = Incremented(b) /\ expireAt'[b] = Expiry(b)
    BY <2>1 DEF Execute, Key, TypeOK
  <2>3. Incremented(b) > 0
    BY <2>1 DEF Incremented, TypeOK
  <2>4. Expiry(b) \in Nat \ {0} /\ Expiry(b) - now \in 0..Window
    BY <2>1, ExpiryFacts
  <2> QED BY <2>2, <2>3, <2>4, ThrottleAssumption DEF TypeOK
<1> QED BY <1>1, TypeInit, TypeStep, PTL DEF Spec, CountedKeysExpire

-------------------------------------------------------------------------------
(***************************************************************************)
(* The counters and what requests were told of them.                       *)
(***************************************************************************)
LEMMA OwedStep == TypeOK /\ CommandsAreOwed /\ [Next]_vars => CommandsAreOwed'
<1> SUFFICES ASSUME TypeOK, CommandsAreOwed, [Next]_vars,
                    NEW r \in Request, pc'[r] \notin {"waiting", "open"}
             PROVE  cmd'[r] = "none"
  BY DEF CommandsAreOwed
<1>1. ASSUME NEW q \in Request,
             \/ Arrive(q) \/ Execute(q) \/ Reply(q)
             \/ Fails(q) \/ TimesOut(q) \/ Resend(q)
      PROVE  cmd'[r] = "none"
  BY <1>1 DEF Arrive, Execute, Reply, Fails, TimesOut, Resend, TypeOK,
              CommandsAreOwed
<1>2. ASSUME NEW b \in Bucket, Evict(b) \/ LoseExpiry(b)
      PROVE  cmd'[r] = "none"
  BY <1>2 DEF Evict, LoseExpiry, request, CommandsAreOwed
<1>3. CASE Tick
  BY <1>3 DEF Tick, request, CommandsAreOwed
<1>4. CASE UNCHANGED vars
  BY <1>4 DEF vars, request, CommandsAreOwed
<1> QED BY <1>1, <1>2, <1>3, <1>4 DEF Next

LEMMA CountersInit == Init => CommandsAreOwed /\ Counters
  BY ThrottleAssumption, KeysAreBuckets
     DEF Init, CommandsAreOwed, Counters, CountersAreDated, RepliesAreDated,
         CountsAreDated, CountsAreApart, Bucket

\* What the script makes of an untouched counter: the next count of the same, or
\* the first of a new one, whose window begins after the other's end.
LEMMA CountFacts ==
  ASSUME TypeOK, CountersAreDated, NEW b \in Bucket, b \notin meddled,
         NEW s, s = IF Alive(b) THEN since[b] ELSE now
  PROVE  /\ s \in Nat \ {0} /\ s <= now
         /\ Expiry(b) = s + Window
         /\ Incremented(b) \in Nat \ {0}
         /\ \/ s = since[b] /\ Incremented(b) = hits[b] + 1
            \/ since[b] # 0 /\ since[b] + Window < s /\ Incremented(b) = 1
            \/ since[b] = 0 /\ Incremented(b) = 1
<1>1. now \in Nat \ {0} /\ Window \in Nat \ {0} /\ expireAt[b] \in Nat
        /\ hits[b] \in Nat /\ since[b] \in Nat
  BY ThrottleAssumption DEF TypeOK
<1>2. CASE Alive(b)
  <2>1. hits[b] > 0 /\ expireAt[b] = since[b] + Window /\ since[b] > 0
    BY <1>2 DEF Alive, CountersAreDated
  <2>2. ~NoExpiry(b)
    BY <1>1, <1>2, <2>1 DEF NoExpiry
  <2> QED BY <1>1, <1>2, <2>1, <2>2 DEF CountersAreDated, Expiry, Incremented
<1>3. CASE ~Alive(b)
  <2>1. NoExpiry(b) /\ s = now /\ Expiry(b) = s + Window /\ Incremented(b) = 1
    BY <1>3 DEF NoExpiry, Expiry, Incremented
  <2>2. CASE hits[b] = 0
    BY <1>1, <2>1, <2>2 DEF CountersAreDated
  <2>3. CASE hits[b] > 0
    <3>1. now > expireAt[b] /\ expireAt[b] = since[b] + Window /\ since[b] > 0
      BY <1>3, <2>3 DEF Alive, Lapsed, CountersAreDated
    <3> QED BY <1>1, <2>1, <3>1
  <2> QED BY <1>1, <2>2, <2>3
<1> QED BY <1>2, <1>3

\* The script counts a request.
LEMMA CountersExecute ==
  ASSUME TypeOK, ExpiriesAreNear, TypeOK', CommandsAreOwed, Counters,
         NEW e \in Request, Execute(e)
  PROVE  Counters'
<1> DEFINE b == Key(e)
           s == since'[b]
           n == Incremented(b)
<1>1. b \in Bucket /\ \A r \in Request : Key(r) \in Bucket
  BY KeysAreBuckets DEF TypeOK
<1>2. /\ hits' = [hits EXCEPT ![b] = n]
      /\ expireAt' = [expireAt EXCEPT ![b] = Expiry(b)]
      /\ reply' = [reply EXCEPT ![e] = [totalHits |-> n, pttl |-> Expiry(b) - now]]
      /\ cmd[e] = "sent" /\ cmd' = [cmd EXCEPT ![e] = "executed"]
      /\ since' = [since EXCEPT ![b] = IF Alive(b) THEN @ ELSE now]
      /\ ran' = [ran EXCEPT ![e] = s]
      /\ UNCHANGED <<now, meddled, pc, route, resent, retryAt>>
  BY DEF Execute, Key
<1>3. \A r \in Request : Key(r)' = Key(r) /\ Untouched(r)' = Untouched(r)
  BY <1>2 DEF Key, Untouched
<1>4. s = IF Alive(b) THEN since[b] ELSE now
  BY <1>1, <1>2 DEF TypeOK
<1>5. ASSUME b \notin meddled
      PROVE  /\ s \in Nat \ {0} /\ s <= now
             /\ Expiry(b) = s + Window
             /\ n \in Nat \ {0}
             /\ \/ s = since[b] /\ n = hits[b] + 1
                \/ since[b] # 0 /\ since[b] + Window < s /\ n = 1
                \/ since[b] = 0 /\ n = 1
  <2> HIDE DEF s, n, b
  <2>1. CountersAreDated
    BY DEF Counters
  <2> QED BY <1>1, <1>4, <1>5, <2>1, CountFacts DEF n
<1>6. /\ ran'[e] = s /\ reply'[e].totalHits = n /\ reply'[e].pttl = Expiry(b) - now
      /\ hits'[b] = n /\ expireAt'[b] = Expiry(b) /\ cmd'[e] = "executed"
      /\ \A r \in Request \ {e} :
            ran'[r] = ran[r] /\ reply'[r] = reply[r] /\ cmd'[r] = cmd[r]
      /\ \A c \in Bucket \ {b} :
            hits'[c] = hits[c] /\ expireAt'[c] = expireAt[c] /\ since'[c] = since[c]
  BY <1>1, <1>2 DEF TypeOK
<1>7. now \in Nat /\ Window \in Nat \ {0} /\ now' = now /\ meddled' = meddled
  BY <1>2, ThrottleAssumption DEF TypeOK
<1>8. \A r \in Request : ran[r] \in Nat /\ since[Key(r)] \in Nat /\ hits[Key(r)] \in Nat
                         /\ reply[r].totalHits \in Nat /\ reply[r].pttl \in Nat
  BY <1>1 DEF TypeOK
<1> HIDE DEF s, n, b
<1>9. CountersAreDated'
  <2> SUFFICES ASSUME NEW c \in Bucket, c \notin meddled
               PROVE  /\ since'[c] <= now
                      /\ hits'[c] > 0 => since'[c] > 0 /\ expireAt'[c] = since'[c] + Window
                      /\ hits'[c] = 0 => since'[c] = 0
    BY <1>7 DEF CountersAreDated, Bucket
  <2>1. CASE c = b
    BY <1>5, <1>6, <1>7, <2>1 DEF s
  <2>2. CASE c # b
    BY <1>6, <2>2 DEF Counters, CountersAreDated
  <2> QED BY <2>1, <2>2
<1>10. RepliesAreDated'
  <2> SUFFICES ASSUME NEW r \in Request, Untouched(r)
               PROVE  /\ cmd'[r] = "executed" =>
                            /\ ran'[r] # 0 /\ reply'[r].totalHits # 0
                            /\ ran'[r] + Window <= now + reply'[r].pttl
                      /\ pc[r] = "refused" => ran'[r] + Window <= retryAt[r]
                      /\ pc[r] = "admitted" => /\ ran'[r] # 0
                                               /\ reply'[r].totalHits \in 1..Limit
    BY <1>2, <1>3, <1>7 DEF RepliesAreDated
  <2>1. CASE r = e
    <3>1. pc[r] \notin {"refused", "admitted"}
      BY <1>2, <2>1 DEF CommandsAreOwed
    <3>2. b \notin meddled
      BY <2>1 DEF Untouched, b
    <3> QED BY <1>5, <1>6, <1>7, <2>1, <3>1, <3>2
  <2>2. CASE r # e
    BY <1>6, <2>2 DEF Counters, RepliesAreDated
  <2> QED BY <2>1, <2>2
<1>11. CountsAreDated'
  <2> SUFFICES ASSUME NEW r \in Request, Untouched(r), ran'[r] # 0
               PROVE  \/ /\ ran'[r] = since'[Key(r)]
                         /\ reply'[r].totalHits <= hits'[Key(r)]
                      \/ ran'[r] + Window < since'[Key(r)]
    BY <1>3 DEF CountsAreDated
  <2>1. CASE r = e
    <3>1. Key(r) = b /\ b \notin meddled
      BY <2>1 DEF Untouched, b
    <3>2. ran'[r] = since'[Key(r)] /\ reply'[r].totalHits = hits'[Key(r)]
      BY <1>6, <2>1, <3>1 DEF s
    <3>3. hits'[Key(r)] \in Nat
      BY <1>5, <1>6, <3>1
    <3> QED BY <3>2, <3>3
  <2>2. CASE r # e /\ Key(r) # b
    BY <1>1, <1>6, <2>2 DEF Counters, CountsAreDated
  <2>3. CASE r # e /\ Key(r) = b
    <3>1. b \notin meddled /\ ran'[r] = ran[r] /\ reply'[r] = reply[r]
      BY <1>6, <2>3 DEF Untouched
    <3>2. \/ ran[r] = since[b] /\ reply[r].totalHits <= hits[b]
          \/ ran[r] + Window < since[b]
      BY <2>3, <3>1 DEF Counters, CountsAreDated
    <3>3. since'[Key(r)] = s /\ hits'[Key(r)] = n
      BY <1>6, <2>3 DEF s
    <3> QED BY <1>5, <1>7, <1>8, <2>3, <3>1, <3>2, <3>3
  <2> QED BY <2>1, <2>2, <2>3
<1>12. CountsAreApart'
  <2>1. ASSUME NEW r \in Request, r # e, Untouched(r), Key(r) = b, ran[r] # 0
        PROVE  \/ ran[r] = s /\ reply[r].totalHits < n
               \/ ran[r] + Window < s
    <3>1. b \notin meddled
      BY <2>1 DEF Untouched
    <3>2. \/ ran[r] = since[b] /\ reply[r].totalHits <= hits[b]
          \/ ran[r] + Window < since[b]
      BY <2>1 DEF Counters, CountsAreDated
    <3> QED BY <1>5, <1>7, <1>8, <2>1, <3>1, <3>2
  <2> SUFFICES ASSUME NEW q \in Request, NEW r \in Request, q # r, Untouched(r),
                      Key(q) = Key(r), ran'[q] # 0, ran'[r] # 0
               PROVE  \/ /\ ran'[q] = ran'[r]
                         /\ reply'[q].totalHits # reply'[r].totalHits
                      \/ ran'[q] + Window < ran'[r]
                      \/ ran'[r] + Window < ran'[q]
    BY <1>3 DEF CountsAreApart
  <2>2. CASE q # e /\ r # e
    BY <1>6, <2>2 DEF Counters, CountsAreApart
  <2>3. CASE q = e
    <3>1. Key(r) = b
      BY <2>3 DEF b
    <3>2. b \notin meddled
      BY <3>1 DEF Untouched
    <3> QED BY <1>5, <1>6, <1>8, <2>1, <2>3, <3>1, <3>2
  <2>4. CASE r = e
    <3>1. Key(q) = b /\ Untouched(q) /\ b \notin meddled
      BY <2>4 DEF b, Untouched
    <3> QED BY <1>5, <1>6, <1>8, <2>1, <2>4, <3>1
  <2> QED BY <2>2, <2>3, <2>4
<1> QED BY <1>9, <1>10, <1>11, <1>12 DEF Counters

\* increment() acts on the reply.
LEMMA CountersReply ==
  ASSUME TypeOK, Counters, NEW a \in Request, Reply(a)
  PROVE  Counters'
<1>1. /\ pc[a] = "waiting" /\ cmd[a] = "executed"
      /\ UNCHANGED <<now, hits, expireAt, since, meddled, route, reply, ran>>
      /\ cmd' = [cmd EXCEPT ![a] = "none"]
  BY DEF Reply, store
<1>2. CountersAreDated' /\ CountsAreDated' /\ CountsAreApart'
  BY <1>1 DEF Counters, CountersAreDated, CountsAreDated, CountsAreApart, Untouched,
              Key
<1>3. RepliesAreDated'
  <2> SUFFICES ASSUME NEW r \in Request, Untouched(r)
               PROVE  /\ cmd'[r] = "executed" =>
                            /\ ran[r] # 0 /\ reply[r].totalHits # 0
                            /\ ran[r] + Window <= now + reply[r].pttl
                      /\ pc'[r] = "refused" => ran[r] + Window <= retryAt'[r]
                      /\ pc'[r] = "admitted" => /\ ran[r] # 0
                                                /\ reply[r].totalHits \in 1..Limit
    BY <1>1 DEF RepliesAreDated, Untouched, Key
  <2>1. CASE r # a
    BY <2>1 DEF Reply, Counters, RepliesAreDated, TypeOK
  <2>2. CASE r = a
    <3>1. /\ ran[r] # 0 /\ reply[r].totalHits # 0
          /\ ran[r] + Window <= now + reply[r].pttl
      BY <1>1, <2>2 DEF Counters, RepliesAreDated
    <3>2. /\ now \in Nat /\ ran[r] \in Nat /\ Window \in Nat \ {0}
          /\ Second \in Nat /\ Limit \in Nat
          /\ reply[r].pttl \in 0..Window /\ reply[r].totalHits \in Nat
      BY ThrottleAssumption DEF TypeOK
    <3>3. cmd'[r] = "none"
      BY <1>1, <2>2 DEF TypeOK
    <3>4. CASE IsBlocked(reply[r].totalHits)
      <4> DEFINE t == IF reply[r].pttl > 0 THEN reply[r].pttl ELSE Window
      <4>1. t \in Nat /\ reply[r].pttl <= t
        BY <3>2
      <4>2. t <= Second * Seconds(t) /\ Seconds(t) \in Nat
        BY <4>1, SecondsRoundUp
      <4>3. pc'[r] = "refused" /\ retryAt'[r] = now + Second * Seconds(t)
        BY <2>2, <3>4 DEF Reply, TypeOK, TimeToExpire
      <4>4. Second * Seconds(t) \in Nat
        BY <3>2, <4>2
      <4> HIDE DEF t
      <4>5. ran[r] + Window <= retryAt'[r]
        BY <3>1, <3>2, <4>1, <4>2, <4>3, <4>4
      <4> QED BY <3>3, <4>3, <4>5
    <3>5. CASE ~IsBlocked(reply[r].totalHits)
      <4>1. pc'[r] = "admitted"
        BY <2>2, <3>5 DEF Reply, TypeOK
      <4> QED BY <3>1, <3>2, <3>3, <3>5, <4>1 DEF IsBlocked
    <3> QED BY <3>4, <3>5
  <2> QED BY <2>1, <2>2
<1> QED BY <1>2, <1>3 DEF Counters

LEMMA CountersStep ==
  /\ TypeOK /\ TypeOK' /\ ExpiriesAreNear /\ CommandsAreOwed /\ Counters
  /\ [Next]_vars
  => Counters'
<1> SUFFICES ASSUME TypeOK, TypeOK', ExpiriesAreNear, CommandsAreOwed, Counters,
                    [Next]_vars
             PROVE  Counters'
  OBVIOUS
<1> USE DEF Counters, CountersAreDated, CountsAreDated, CountsAreApart, Untouched, Key
<1>1. ASSUME NEW r \in Request, Arrive(r) \/ Fails(r) \/ TimesOut(r) \/ Resend(r)
      PROVE  Counters'
  <2>1. /\ UNCHANGED <<now, store, route, reply, ran, retryAt>>
        /\ \A q \in Request :
              /\ cmd'[q] = "executed" => cmd[q] = "executed"
              /\ pc'[q] \in {"admitted", "refused"} => pc'[q] = pc[q]
    BY <1>1 DEF Arrive, Fails, TimesOut, TimerRuns, Resend, TypeOK
  <2>2. RepliesAreDated'
    BY <2>1 DEF RepliesAreDated, store
  <2> QED BY <2>1, <2>2 DEF store
<1>2. ASSUME NEW r \in Request, Execute(r)
      PROVE  Counters'
  BY <1>2, CountersExecute
<1>3. ASSUME NEW r \in Request, Reply(r)
      PROVE  Counters'
  BY <1>3, CountersReply
<1>4. ASSUME NEW b \in Bucket, Evict(b) \/ LoseExpiry(b)
      PROVE  Counters'
  <2>1. /\ UNCHANGED <<now, since, request>> /\ meddled' = meddled \cup {b}
        /\ \A c \in Bucket \ {b} : hits'[c] = hits[c] /\ expireAt'[c] = expireAt[c]
    BY <1>4 DEF Evict, LoseExpiry, TypeOK
  <2>2. CountersAreDated' /\ RepliesAreDated'
    BY <2>1 DEF RepliesAreDated, request, Bucket
  <2>3. \A r \in Request : Key(r) \in Bucket
    BY KeysAreBuckets DEF TypeOK
  <2>4. CountsAreDated' /\ CountsAreApart'
    BY <2>1, <2>3 DEF request
  <2> QED BY <2>2, <2>4
<1>5. CASE Tick
  <2>1. now' = now + 1 /\ UNCHANGED <<store, request>> /\ now \in Nat
    BY <1>5 DEF Tick, TypeOK
  <2>2. RepliesAreDated'
    <3> SUFFICES ASSUME NEW r \in Request, Untouched(r)
                 PROVE  cmd[r] = "executed" => ran[r] + Window <= now' + reply[r].pttl
      BY <2>1 DEF RepliesAreDated, store, request
    <3>1. reply[r].pttl \in Nat /\ ran[r] \in Nat /\ Window \in Nat
      BY ThrottleAssumption DEF TypeOK
    <3> QED BY <2>1, <3>1 DEF RepliesAreDated
  <2>3. CountersAreDated'
    <3>1. \A b \in Bucket : since[b] \in Nat
      BY DEF TypeOK
    <3> QED BY <2>1, <3>1 DEF store, Bucket
  <2> QED BY <2>1, <2>2, <2>3 DEF store, request
<1>6. CASE UNCHANGED vars
  BY <1>6 DEF vars, store, request, RepliesAreDated
<1> QED BY <1>1, <1>2, <1>3, <1>4, <1>5, <1>6 DEF Next

\* The inductive invariant.
THEOREM Invariance == Spec => []ThrottleInv
<1>1. Init => ThrottleInv
  BY TypeInit, CountersInit DEF ThrottleInv
<1>2. ThrottleInv /\ [Next]_vars => ThrottleInv'
  BY TypeStep, OwedStep, CountersStep DEF ThrottleInv
<1> QED BY <1>1, <1>2, PTL DEF Spec

-------------------------------------------------------------------------------
(***************************************************************************)
(* What a client may rely on.                                              *)
(***************************************************************************)
\* Nobody who waits out a Retry-After finds the window of its refusal still open.
THEOREM RetryAfterSuffices == Spec => []RetryAfterIsEnough
<1>1. ThrottleInv => RetryAfterIsEnough
  <2> SUFFICES ASSUME ThrottleInv, NEW r \in Request, pc[r] = "refused", Untouched(r),
                      now > retryAt[r], Alive(Key(r)), since[Key(r)] = ran[r]
               PROVE  FALSE
    BY DEF RetryAfterIsEnough
  <2>1. Key(r) \in Bucket
    BY KeysAreBuckets DEF ThrottleInv, TypeOK
  <2>2. ran[r] + Window <= retryAt[r]
    BY DEF ThrottleInv, Counters, RepliesAreDated
  <2>3. expireAt[Key(r)] = ran[r] + Window
    BY <2>1 DEF ThrottleInv, Counters, CountersAreDated, Alive, Untouched
  <2>4. now \in Nat /\ retryAt[r] \in Nat /\ ran[r] \in Nat /\ Window \in Nat \ {0}
    BY ThrottleAssumption DEF ThrottleInv, TypeOK
  <2>5. Lapsed(Key(r))
    BY <2>2, <2>3, <2>4 DEF Lapsed
  <2> QED BY <2>5 DEF Alive
<1> QED BY <1>1, Invariance, PTL

\* In no window are more requests admitted on a count than the limit: their counts
\* are distinct numbers up to it.
THEOREM NeverOverLimit == Spec => []AdmittedWithinLimit
<1>1. ThrottleInv => AdmittedWithinLimit
  <2> SUFFICES ASSUME ThrottleInv,
                      NEW r \in Request, pc[r] = "admitted", Untouched(r)
               PROVE  Cardinality({q \in Request :
                          /\ pc[q] = "admitted" /\ Untouched(q) /\ SameBudget(q, r)
                          /\ ran[q] \in ran[r]..(ran[r] + Window)}) <= Limit
    BY DEF AdmittedWithinLimit
  <2> DEFINE A == {q \in Request :
                      /\ pc[q] = "admitted" /\ Untouched(q) /\ SameBudget(q, r)
                      /\ ran[q] \in ran[r]..(ran[r] + Window)}
             f == [q \in A |-> reply[q].totalHits]
  <2>1. /\ Window \in Nat /\ Limit \in Nat /\ IsFiniteSet(Request)
        /\ \A q \in Request : ran[q] \in Nat
    BY ThrottleAssumption DEF ThrottleInv, TypeOK
  <2>2. \A q \in A : Key(q) = Key(r) /\ ran[q] # 0 /\ f[q] \in 1..Limit
    BY DEF SameBudget, Key, KeyOf, ThrottleInv, Counters, RepliesAreDated
  <2>3. \A q \in A : ran[q] = ran[r]
    <3> SUFFICES ASSUME NEW q \in A, ran[q] # ran[r] PROVE FALSE
      OBVIOUS
    <3>1. ran[q] + Window < ran[r] \/ ran[r] + Window < ran[q]
      BY <2>2 DEF ThrottleInv, Counters, CountsAreApart, RepliesAreDated
    <3>2. ran[r] <= ran[q] /\ ran[q] <= ran[r] + Window
      BY <2>1
    <3> QED BY <2>1, <3>1, <3>2
  <2>4. \A p, q \in A : p # q => f[p] # f[q]
    <3> SUFFICES ASSUME NEW p \in A, NEW q \in A, p # q PROVE f[p] # f[q]
      OBVIOUS
    <3>1. ran[p] = ran[q] /\ ran[p] \in Nat
      BY <2>1, <2>3
    <3> QED BY <2>1, <2>2, <3>1 DEF ThrottleInv, Counters, CountsAreApart
  <2>5. f \in Injection(A, 1..Limit)
    BY <2>2, <2>4 DEF Injection, IsInjective
  <2>6. IsFiniteSet(1..Limit) /\ Cardinality(1..Limit) = Limit
    BY <2>1, FS_Interval
  <2>7. Cardinality(A) <= Cardinality(1..Limit)
    BY <2>5, <2>6, FS_Injection
  <2> QED BY <2>6, <2>7
<1> QED BY <1>1, Invariance, PTL

-------------------------------------------------------------------------------
(***************************************************************************)
(* What a refusal rests on.                                                *)
(***************************************************************************)
\* The requests whose count is of the counter of bucket b that began at time s.
Counted(b, s) == {q \in Request : Key(q) = b /\ ran[q] = s}

\* A counter says how many requests it counted, and how often one twice.
Tallies ==
    \A b \in Bucket \ meddled :
        since[b] # 0 => hits[b] = Cardinality(Counted(b, since[b])) + extra[b]

\* A refused request was counted over the limit.
RefusalsAreDue ==
    \A r \in Request :
        pc[r] = "refused" /\ Untouched(r) => ran[r] # 0 /\ reply[r].totalHits > Limit

\* Counting one more request adds one to the tally.
LEMMA TalliesExecute ==
  ASSUME ThrottleInv, Tallies, NEW e \in Request, Execute(e),
         NEW b \in Bucket, b \notin meddled, since'[b] # 0
  PROVE  hits'[b] = Cardinality(Counted(b, since[b])') + extra'[b]
<1>1. /\ \A r \in Request : Key(r)' = Key(r) /\ Key(r) \in Bucket
      /\ \A r \in Request \ {e} : ran'[r] = ran[r]
      /\ ran'[e] = since'[Key(e)]
      /\ IsFiniteSet(Request)
  BY KeysAreBuckets, ThrottleAssumption DEF Execute, Key, ThrottleInv, TypeOK
<1>2. CASE b # Key(e)
  <2>1. hits'[b] = hits[b] /\ since'[b] = since[b] /\ extra'[b] = extra[b]
    BY <1>1, <1>2 DEF Execute, Key, ThrottleInv, TypeOK
  <2>2. Counted(b, since[b])' = Counted(b, since[b])
    BY <1>1, <1>2, <2>1 DEF Counted
  <2> QED BY <2>1, <2>2 DEF Tallies
<1>3. CASE b = Key(e)
  <2> DEFINE s == since[b]
             C == Counted(b, s)
  <2>1. /\ hits'[b] = Incremented(b)
        /\ since'[b] = IF Alive(b) THEN s ELSE now
        /\ extra'[b] = IF ~Alive(b) THEN 0
                       ELSE IF ran[e] = s THEN extra[b] + 1 ELSE extra[b]
    BY <1>3 DEF Execute, Key, ThrottleInv, TypeOK
  <2>2. /\ s \in Nat /\ hits[b] \in Nat /\ extra[b] \in Nat /\ now \in Nat
        /\ \A r \in Request : ran[r] \in Nat
        /\ Window \in Nat
    BY ThrottleAssumption DEF ThrottleInv, TypeOK
  <2>3. IsFiniteSet(C)
    BY <1>1, FS_Subset DEF Counted
  <2>4. CASE Alive(b)
    <3>1. s # 0 /\ since'[b] = s /\ hits'[b] = hits[b] + 1
      BY <2>1, <2>4 DEF Alive, Incremented, ThrottleInv, Counters, CountersAreDated
    <3>2. hits[b] = Cardinality(C) + extra[b]
      BY <3>1 DEF Tallies
    <3>3. Counted(b, since[b])' = C \cup {e}
      BY <1>1, <1>3, <3>1 DEF Counted
    <3>4. Cardinality(C) \in Nat
      BY <2>3, FS_CardinalityType
    <3>5. CASE ran[e] = s
      <4>1. C \cup {e} = C
        BY <1>3, <3>5 DEF Counted
      <4>2. extra'[b] = extra[b] + 1
        BY <2>1, <2>4, <3>5
      <4> HIDE DEF C, s
      <4> QED BY <2>2, <3>1, <3>2, <3>3, <3>4, <4>1, <4>2
    <3>6. CASE ran[e] # s
      <4>1. e \notin C
        BY <3>6 DEF Counted
      <4>2. Cardinality(C \cup {e}) = Cardinality(C) + 1
        BY <2>3, <4>1, FS_AddElement
      <4>3. extra'[b] = extra[b]
        BY <2>1, <2>4, <3>6
      <4> HIDE DEF C, s
      <4> QED BY <2>2, <3>1, <3>2, <3>3, <3>4, <4>2, <4>3
    <3> QED BY <3>5, <3>6
  <2>5. CASE ~Alive(b)
    <3>1. since'[b] = now /\ hits'[b] = 1 /\ extra'[b] = 0
      BY <2>1, <2>5 DEF Incremented
    <3>2. \A r \in Request : Key(r) = b => ran[r] # now
      <4>1. CountersAreDated
        BY DEF ThrottleInv, Counters
      <4>2. s < now
        <5>1. now # 0
          BY DEF ThrottleInv, TypeOK
        <5>2. CASE hits[b] = 0
          BY <2>2, <4>1, <5>1, <5>2 DEF CountersAreDated
        <5>3. CASE hits[b] > 0
          <6>1. now > expireAt[b] /\ expireAt[b] = s + Window
            BY <2>5, <4>1, <5>3 DEF Alive, Lapsed, CountersAreDated
          <6> QED BY <2>2, <6>1
        <5> QED BY <2>2, <5>2, <5>3
      <4>3. ASSUME NEW r \in Request, Key(r) = b, ran[r] # 0
            PROVE  ran[r] = s \/ ran[r] + Window < s
        BY <4>3 DEF ThrottleInv, Counters, CountsAreDated, Untouched
      <4>4. now # 0
        BY DEF ThrottleInv, TypeOK
      <4> HIDE DEF s
      <4> QED BY <2>2, <4>2, <4>3, <4>4
    <3>3. Counted(b, since[b])' = {e}
      BY <1>1, <1>3, <3>1, <3>2 DEF Counted
    <3>4. Cardinality({e}) = 1
      BY FS_Singleton
    <3> QED BY <3>1, <3>3, <3>4
  <2> QED BY <2>4, <2>5
<1> QED BY <1>2, <1>3

\* The steps that count nothing leave the tallies and the refusals as they are.
LEMMA TalliesStep ==
  ThrottleInv /\ TypeOK' /\ Tallies /\ RefusalsAreDue /\ [Next]_vars
  => Tallies' /\ RefusalsAreDue'
<1> SUFFICES ASSUME ThrottleInv, TypeOK', Tallies, RefusalsAreDue,
                    [Next]_vars
             PROVE  Tallies' /\ RefusalsAreDue'
  OBVIOUS
<1>t. TypeOK /\ CommandsAreOwed /\ RepliesAreDated /\ \A r \in Request : Key(r) \in Bucket
  BY KeysAreBuckets DEF ThrottleInv, TypeOK, Counters
<1>1. ASSUME NEW r \in Request,
             \/ Arrive(r) \/ Reply(r) \/ Fails(r) \/ TimesOut(r) \/ Resend(r)
      PROVE  Tallies' /\ RefusalsAreDue'
  <2>1. UNCHANGED <<now, store, route, reply, ran, extra>>
    BY <1>1 DEF Arrive, Reply, Fails, TimesOut, Resend
  <2>2. Tallies'
    BY <2>1 DEF Tallies, Counted, Key, store
  <2>3. \A q \in Request : Untouched(q)' = Untouched(q)
    BY <2>1 DEF Untouched, Key, store
  <2>4. \A q \in Request : pc'[q] = "refused" /\ Untouched(q) =>
                               ran[q] # 0 /\ reply[q].totalHits > Limit
    BY <1>t, <1>1
       DEF Arrive, Reply, Fails, TimesOut, Resend, TypeOK, RefusalsAreDue, IsBlocked,
           RepliesAreDated
  <2> QED BY <2>1, <2>2, <2>3, <2>4 DEF RefusalsAreDue
<1>2. ASSUME NEW e \in Request, Execute(e)
      PROVE  Tallies' /\ RefusalsAreDue'
  <2>1. Tallies'
    <3>1. meddled' = meddled
      BY <1>2 DEF Execute
    <3> QED BY <1>2, <3>1, TalliesExecute DEF Tallies, Bucket
  <2>2. pc[e] # "refused" /\ pc' = pc
    BY <1>t, <1>2 DEF Execute, CommandsAreOwed
  <2>3. \A q \in Request : Untouched(q)' = Untouched(q)
    BY <1>2 DEF Execute, Untouched, Key
  <2>4. \A q \in Request \ {e} : /\ ran'[q] = ran[q] /\ reply'[q] = reply[q]
    BY <1>t, <1>2 DEF Execute, TypeOK
  <2> QED BY <2>1, <2>2, <2>3, <2>4 DEF RefusalsAreDue
<1>3. ASSUME NEW b \in Bucket, Evict(b) \/ LoseExpiry(b)
      PROVE  Tallies' /\ RefusalsAreDue'
  <2>1. /\ UNCHANGED <<since, request>> /\ meddled' = meddled \cup {b}
        /\ \A c \in Bucket \ {b} : hits'[c] = hits[c]
    BY <1>t, <1>3 DEF Evict, LoseExpiry, TypeOK
  <2> QED BY <2>1 DEF Tallies, RefusalsAreDue, Counted, Key, request,
                      Untouched, Bucket
<1>4. CASE Tick \/ UNCHANGED vars
  BY <1>4 DEF Tick, vars, store, request, Tallies, RefusalsAreDue,
              Counted, Key, Untouched, Bucket
<1> QED BY <1>1, <1>2, <1>3, <1>4 DEF Next

\* Nobody is refused by a counter that has not counted more than the limit.
THEOREM RefusalsAreOverLimit == Spec => []RefusedOverLimit
<1>1. Init => Tallies /\ RefusalsAreDue
  BY DEF Init, Tallies, RefusalsAreDue, Bucket
<1>2. Spec => [](Tallies /\ RefusalsAreDue)
  BY <1>1, TalliesStep, Invariance, TypeCorrect, PTL DEF Spec
<1>3. ThrottleInv /\ Tallies /\ RefusalsAreDue => RefusedOverLimit
  <2> SUFFICES ASSUME ThrottleInv, Tallies, RefusalsAreDue,
                      NEW r \in Request, pc[r] = "refused", Untouched(r),
                      ran[r] = since[Key(r)]
               PROVE  Cardinality({q \in Request : Key(q) = Key(r) /\ ran[q] = ran[r]})
                          + extra[Key(r)] > Limit
    BY DEF RefusedOverLimit
  <2>1. ran[r] # 0 /\ reply[r].totalHits > Limit
    BY DEF RefusalsAreDue
  <2>2. Key(r) \in Bucket \ meddled
    BY KeysAreBuckets DEF ThrottleInv, TypeOK, Untouched
  <2>3. /\ ran[r] \in Nat /\ hits[Key(r)] \in Nat /\ reply[r].totalHits \in Nat
        /\ Window \in Nat \ {0} /\ Limit \in Nat
    BY <2>2, ThrottleAssumption DEF ThrottleInv, TypeOK
  <2>4. reply[r].totalHits <= hits[Key(r)]
    BY <2>1, <2>3 DEF ThrottleInv, Counters, CountsAreDated
  <2>5. hits[Key(r)] = Cardinality(Counted(Key(r), ran[r])) + extra[Key(r)]
    BY <2>1, <2>2 DEF Tallies
  <2> QED BY <2>1, <2>3, <2>4, <2>5 DEF Counted
<1> QED BY <1>2, <1>3, Invariance, PTL
================================================================================
