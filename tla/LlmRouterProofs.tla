--------------------------- MODULE LlmRouterProofs ----------------------------
(***************************************************************************)
(* Theorems about LlmRouter, for chains and responses of any length.       *)
(***************************************************************************)
EXTENDS LlmRouter, SequenceTheorems, TLAPS

\* Links 1 to n, in the order in which they failed.
Failed(n) == [l \in 1..n |-> l]

\* The link the router is at is the newest failure.
AtHasFailed ==
    \/ pc = "close" /\ after = "next"
    \/ pc = "done" /\ chosen = 0 /\ result = "failed"

\* What the link the router is at has come to, by where the generator stands.
Stand ==
    /\ pc = "idle" => /\ at = 1 /\ chosen = 0 /\ result = "pending"
                      /\ conn[at] = "unopened"
    /\ pc \in {"complete", "peek"} =>
          chosen = 0 /\ result = "pending" /\ conn[at] = "open"
    /\ pc \in {"pull", "yield"} =>
          chosen = at /\ result = "pending" /\ conn[at] = "open"
    /\ pc = "close" =>
          \/ /\ after = "next" /\ chosen = 0
             /\ result = "pending" /\ conn[at] = "broken"
          \/ /\ after = "throw" /\ chosen = at
             /\ result = "pending" /\ conn[at] = "broken"
          \/ /\ after = "return" /\ chosen = at
             /\ \/ result = "pending" /\ conn[at] = "ended"
                \/ result = "stopped" /\ conn[at] = "open"
    /\ pc = "done" =>
          \/ result = "stopped" /\ chosen = 0 /\ conn[at] = "unopened"
          \/ /\ result = "stopped" /\ chosen = at
             /\ conn[at] \in {"lingering", "released"}
          \/ result \in {"answered", "ended"} /\ chosen = at /\ conn[at] = "ended"
          \/ result = "failed" /\ chosen = at /\ conn[at] = "broken"
          \/ result = "failed" /\ chosen = 0 /\ conn[at] = "broken" /\ at = Links

\* The links before it failed, and those after it were never opened.
Others ==
    \A l \in Link : /\ l < at => conn[l] = "broken"
                    /\ l > at => conn[l] = "unopened"

Accounts ==
    /\ failures = Failed(IF AtHasFailed THEN at ELSE at - 1)
    /\ chosen = 0 => /\ blamed = 0
                     /\ \/ reason = "unstarted"
                        \/ /\ reason = "exhausted"
                           /\ pc = "done" /\ result = "failed"
    /\ chosen # 0 => /\ blamed = chosen - 1
                     /\ reason = IF chosen = 1 THEN "primary" ELSE "fallback"

\* What has been given is the text of one response, whole and in order.
Gives(g, w, l) ==
    /\ \A k \in 1..Len(g) : /\ g[k].link = l
                           /\ g[k].chunk \in 1..Len(w)
                           /\ w[g[k].chunk].text
                           /\ \A j \in 1..(k - 1) : g[j].chunk < g[k].chunk
    /\ \A n \in 1..Len(w) : w[n].text => \E k \in 1..Len(g) : g[k].chunk = n

Silent(w) == \A n \in 1..Len(w) : ~w[n].text

\* Nothing is given before a link is chosen, and nothing with text has come.
Deltas ==
    /\ chosen = 0 => given = <<>> /\ Silent(wire[at])
    /\ chosen # 0 => Gives(given, wire[chosen], chosen)
    /\ \A l \in Link : l > at => wire[l] = <<>>
    /\ \A l \in Link : Len(wire[l]) <= MaxChunks

RouterInv == TypeOK /\ Stand /\ Others /\ Accounts /\ Deltas

-------------------------------------------------------------------------------
(***************************************************************************)
(* Type correctness.                                                       *)
(***************************************************************************)
LEMMA LinkFacts == Link \subseteq Nat \ {0} /\ 1 \in Link /\ Links \in Link
  BY RouterAssumption DEF Link

\* Chunks are records with Boolean fields.
LEMMA ChunkFacts ==
  ASSUME NEW c \in Chunk
  PROVE  /\ c.text \in BOOLEAN
         /\ c.usage \in BOOLEAN
         /\ c.finish \in BOOLEAN
  BY RouterAssumption DEF ChunkType

LEMMA TypeInit == Init => TypeOK
  BY LinkFacts, RouterAssumption DEF Init, TypeOK

LEMMA TypeStep == TypeOK /\ [Next]_vars => TypeOK'
<1> SUFFICES ASSUME TypeOK, [Next]_vars PROVE TypeOK'
  OBVIOUS
<1> USE LinkFacts, RouterAssumption
<1>t. /\ at \in Nat \ {0} /\ at \in Link /\ chosen \in 0..Links
      /\ failures \in Seq(Link) /\ Blamed(failures) \in 0..Links
      /\ ReasonFor(failures) \in {"primary", "fallback"}
  <2>1. failures # <<>> => failures[Len(failures)] \in Link
    BY DEF TypeOK
  <2> QED BY <2>1 DEF TypeOK, Blamed, ReasonFor, Link
<1>n. HasNext => at + 1 \in Link
  BY <1>t DEF HasNext, Link
<1>l. \A l \in Link, how \in {"open", "ended", "broken", "lingering", "released"} :
          [conn EXCEPT ![l] = how] \in [Link -> {"unopened", "open", "ended",
                                      "broken", "lingering", "released"}]
  BY DEF TypeOK
<1>1. CASE CallComplete
  BY <1>1, <1>l DEF CallComplete, Open, TypeOK
<1>2. CASE Answered
  BY <1>2, <1>t, <1>l DEF Answered, Chosen, Drop, TypeOK, Link
<1>3. CASE Rejected
  <2>1. failures' \in Seq(Link)
    BY <1>3, <1>t DEF Rejected
  <2>2. CASE HasNext
    BY <1>3, <2>1, <2>2, <1>t, <1>n DEF Rejected, TypeOK
  <2>3. CASE ~HasNext
    <3>1. /\ pc' = "done" /\ result' = "failed" /\ at' = at
          /\ conn' = [conn EXCEPT ![at] = "broken"]
      BY <1>3, <2>3 DEF Rejected, Drop
    <3> QED BY <1>3, <2>1, <3>1, <1>t, <1>l DEF Rejected, TypeOK
  <2> QED BY <2>2, <2>3
<1>4. CASE CallStream
  BY <1>4, <1>l DEF CallStream, Open, TypeOK
<1>5. CASE NeverPulled
  BY <1>5 DEF NeverPulled, TypeOK, links
<1>6. CASE \E c \in Chunk : Reads(c)
  <2> PICK c \in Chunk : Reads(c)
    BY <1>6
  <2> DEFINE n == Len(wire[at]) + 1
  <2>1. wire[at] \in Seq(Chunk) /\ n \in Nat \ {0}
    BY <1>t DEF TypeOK
  <2>2. wire' \in [Link -> Seq(Chunk)]
    BY <2>1 DEF Reads, TypeOK
  <2>3. usage' \in [Link -> Nat] /\ finish' \in [Link -> Nat]
    BY <2>1, <1>t DEF Reads, Usage, Finish, TypeOK
  <2>4. given' \in Seq(DeltaType)
    <3>1. [link |-> at, chunk |-> n] \in DeltaType
      BY <2>1, <1>t DEF DeltaType
    <3>2. Append(given, [link |-> at, chunk |-> n]) \in Seq(DeltaType)
      BY <3>1 DEF TypeOK
    <3>3. given' = given \/ given' = Append(given, [link |-> at, chunk |-> n])
      BY DEF Reads, Given
    <3> QED BY <3>2, <3>3 DEF TypeOK
  <2>5. \/ Chosen
        \/ NothingChosen
    BY DEF Reads
  <2>6. /\ chosen' \in 0..Links /\ blamed' \in 0..Links
        /\ reason' \in {"primary", "fallback", reason}
    BY <1>t, <2>5 DEF Chosen, NothingChosen, TypeOK, Link
  <2>7. pc' \in {"yield", pc}
    BY DEF Reads
  <2> QED BY <2>2, <2>3, <2>4, <2>6, <2>7 DEF Reads, TypeOK
<1>7. CASE WireEnds
  <2>1. /\ chosen' \in 0..Links /\ blamed' \in 0..Links
        /\ reason' \in {"primary", "fallback", reason}
    BY <1>7, <1>t DEF WireEnds, Chosen, NothingChosen, TypeOK, Link
  <2> QED BY <1>7, <2>1, <1>t, <1>l DEF WireEnds, AfterEnd, Drop, TypeOK
<1>8. CASE WireBreaks
  <2>1. failures' \in Seq(Link)
    BY <1>8, <1>t DEF WireBreaks
  <2> QED BY <1>8, <2>1, <1>t, <1>l
          DEF WireBreaks, AfterBreak, NothingChosen, Drop, TypeOK
<1>9. CASE Pull
  BY <1>9 DEF Pull, TypeOK, links
<1>10. CASE Stop
  BY <1>10 DEF Stop, AfterStop, TypeOK, links
<1>11. CASE Close
  <2>1. \A how \in {"released", "lingering"} :
            /\ Left(how) \in [Link -> {"unopened", "open", "ended", "broken",
                                       "lingering", "released"}]
            /\ HasNext => [Left(how) EXCEPT ![at + 1] = "open"]
                  \in [Link -> {"unopened", "open", "ended", "broken",
                                "lingering", "released"}]
    BY <1>t, <1>n, <1>l DEF Left, TypeOK
  <2>2. PICK how \in {"released", "lingering"} : GoOn(Left(how))
    BY <1>11 DEF Close, CloseSettles, CloseRejects, CloseTimesOut
  <2>3. CASE after = "next" /\ HasNext
    BY <2>1, <2>2, <2>3, <1>t, <1>n DEF GoOn, NextLink, TypeOK
  <2>5. CASE after = "next" /\ ~HasNext
    <3>1. /\ pc' = "done" /\ reason' = "exhausted" /\ blamed' = 0
          /\ result' = "failed" /\ conn' = Left(how)
          /\ UNCHANGED <<at, chosen, failures, after, given, wire, finish, usage>>
      BY <2>2, <2>5 DEF GoOn, NextLink
    <3> QED BY <2>1, <3>1 DEF TypeOK
  <2>4. CASE after # "next"
    BY <2>1, <2>2, <2>4, <1>t DEF GoOn, Finished, TypeOK
  <2> QED BY <2>3, <2>4, <2>5
<1>12. CASE \E l \in Link : LateRelease(l)
  BY <1>12, <1>l DEF LateRelease, TypeOK, router
<1>13. CASE UNCHANGED vars
  BY <1>13 DEF vars, router, links, TypeOK
<1> QED BY <1>1, <1>2, <1>3, <1>4, <1>5, <1>6, <1>7, <1>8, <1>9, <1>10, <1>11,
           <1>12, <1>13 DEF Next, Caller, Upstream

\* Every variable of the router and of its providers keeps its type.
THEOREM TypeCorrect == Spec => []TypeOK
<1> QED BY TypeInit, TypeStep, PTL DEF Spec

-------------------------------------------------------------------------------
(***************************************************************************)
(* Where the router stands.                                                *)
(***************************************************************************)
LEMMA StandInit == Init => Stand /\ Others
  BY LinkFacts DEF Init, Stand, Others, Link

LEMMA StandStep == TypeOK /\ Stand /\ Others /\ [Next]_vars => Stand' /\ Others'
<1> SUFFICES ASSUME TypeOK, Stand, Others, [Next]_vars PROVE Stand' /\ Others'
  OBVIOUS
<1> USE LinkFacts, RouterAssumption
<1>t. /\ at \in Nat \ {0} /\ at \in Link /\ at <= Links /\ Links \in Nat
      /\ conn \in [Link -> {"unopened", "open", "ended", "broken", "lingering",
                            "released"}]
      /\ \A l \in Link : l \in Nat
  BY DEF TypeOK, Link
<1>1. CASE CallComplete
  BY <1>1, <1>t DEF CallComplete, Open, Stand, Others
<1>2. CASE Answered
  BY <1>2, <1>t DEF Answered, Chosen, Drop, Stand, Others
<1>3. CASE Rejected
  <2>1. CASE HasNext
    <3>1. /\ at' = at + 1 /\ pc' = "complete" /\ chosen' = 0 /\ result' = "pending"
          /\ conn' = [conn EXCEPT ![at] = "broken", ![at + 1] = "open"]
      BY <1>3, <2>1 DEF Rejected, Stand
    <3>2. at + 1 \in Link
      BY <2>1, <1>t DEF HasNext, Link
    <3>3. /\ conn'[at + 1] = "open" /\ conn'[at] = "broken"
          /\ \A l \in Link : l # at /\ l # at + 1 => conn'[l] = conn[l]
      BY <3>1, <3>2, <1>t
    <3> QED BY <3>1, <3>2, <3>3, <1>t DEF Stand, Others
  <2>2. CASE ~HasNext
    <3>1. /\ at' = at /\ pc' = "done" /\ chosen' = 0 /\ result' = "failed"
          /\ conn' = [conn EXCEPT ![at] = "broken"]
      BY <1>3, <2>2 DEF Rejected, Drop, Stand
    <3>2. at = Links
      BY <2>2, <1>t DEF HasNext
    <3> QED BY <3>1, <3>2, <1>t DEF Stand, Others
  <2> QED BY <2>1, <2>2
<1>4. CASE CallStream
  BY <1>4, <1>t DEF CallStream, Open, Stand, Others
<1>5. CASE NeverPulled
  BY <1>5, <1>t DEF NeverPulled, Stand, Others, links
<1>6. CASE \E c \in Chunk : Reads(c)
  <2> PICK c \in Chunk : Reads(c)
    BY <1>6
  <2>1. CASE c.text
    <3>1. /\ chosen' = at /\ pc' = "yield" /\ UNCHANGED <<at, after, result, conn>>
      BY <2>1 DEF Reads, Awaiting, Chosen, NothingChosen, Stand
    <3> QED BY <3>1, <1>t DEF Stand, Others, Reads, Awaiting
  <2>2. CASE ~c.text
    <3>1. UNCHANGED <<pc, chosen, at, after, result, conn>>
      BY <2>2 DEF Reads, NothingChosen
    <3> QED BY <3>1, <1>t DEF Stand, Others
  <2> QED BY <2>1, <2>2
<1>7. CASE WireEnds
  <2>1. /\ chosen' = at /\ pc' = "close" /\ after' = "return"
        /\ conn' = [conn EXCEPT ![at] = "ended"]
        /\ result = "pending" /\ UNCHANGED <<at, result>>
    BY <1>7 DEF WireEnds, Awaiting, AfterEnd, Chosen, NothingChosen, Drop, Stand
  <2> QED BY <2>1, <1>t DEF Stand, Others
<1>8. CASE WireBreaks
  <2>1. /\ pc' = "close" /\ conn' = [conn EXCEPT ![at] = "broken"]
        /\ result = "pending" /\ UNCHANGED <<at, chosen, result>>
        /\ \/ after' = "next" /\ chosen = 0
           \/ after' = "throw" /\ chosen = at
    BY <1>8 DEF WireBreaks, Awaiting, AfterBreak, NothingChosen, Drop, Stand
  <2> QED BY <2>1, <1>t DEF Stand, Others
<1>9. CASE Pull
  BY <1>9, <1>t DEF Pull, Stand, Others, links
<1>10. CASE Stop
  BY <1>10, <1>t DEF Stop, AfterStop, Stand, Others, links
<1>11. CASE Close
  <2> PICK how \in {"released", "lingering"} : GoOn(Left(how))
    BY <1>11 DEF Close, CloseSettles, CloseRejects, CloseTimesOut
  <2>1. CASE after = "next" /\ HasNext
    <3>1. /\ at' = at + 1 /\ pc' = "peek" /\ chosen' = 0 /\ result' = "pending"
          /\ conn' = [conn EXCEPT ![at + 1] = "open"] /\ conn[at] = "broken"
      BY <2>1, <1>t DEF GoOn, NextLink, Left, Stand
    <3>2. at + 1 \in Link
      BY <2>1, <1>t DEF HasNext, Link
    <3>3. /\ conn'[at + 1] = "open"
          /\ \A l \in Link : l # at + 1 => conn'[l] = conn[l]
      BY <3>1, <3>2, <1>t
    <3> QED BY <3>1, <3>2, <3>3, <1>t DEF Stand, Others
  <2>2. CASE after = "next" /\ ~HasNext
    <3>1. /\ pc' = "done" /\ chosen' = 0 /\ result' = "failed" /\ at' = at
          /\ conn' = conn /\ conn[at] = "broken"
      BY <2>2, <1>t DEF GoOn, NextLink, Left, Stand
    <3>2. at = Links
      BY <2>2, <1>t DEF HasNext
    <3> QED BY <3>1, <3>2, <1>t DEF Stand, Others
  <2>3. CASE after # "next"
    <3>1. /\ pc' = "done" /\ UNCHANGED <<at, chosen>> /\ chosen = at
          /\ conn' = Left(how)
          /\ result' = IF result = "stopped" THEN "stopped"
                       ELSE IF after = "throw" THEN "failed" ELSE "ended"
      BY <2>3 DEF GoOn, Finished, Stand
    <3>2. \/ result' = "stopped" /\ conn' = [conn EXCEPT ![at] = how]
          \/ result' = "failed" /\ conn' = conn /\ conn[at] = "broken"
          \/ result' = "ended" /\ conn' = conn /\ conn[at] = "ended"
      BY <2>3, <3>1 DEF GoOn, Left, Stand
    <3> QED BY <3>1, <3>2, <1>t DEF Stand, Others
  <2> QED BY <2>1, <2>2, <2>3
<1>12. CASE \E l \in Link : LateRelease(l)
  <2> PICK l \in Link : LateRelease(l)
    BY <1>12
  <2>1. l = at /\ pc = "done" /\ result = "stopped" /\ chosen = at
    <3>1. conn[l] = "lingering" /\ l = at
      BY <1>t DEF LateRelease, Others
    <3>2. pc \in {"idle", "complete", "peek", "pull", "yield", "close", "done"}
      BY DEF TypeOK
    <3> QED BY <3>1, <3>2 DEF Stand
  <2>2. /\ UNCHANGED <<at, pc, result, chosen, after>>
        /\ conn' = [conn EXCEPT ![at] = "released"]
    BY <2>1 DEF LateRelease, router
  <2> QED BY <2>1, <2>2, <1>t DEF Stand, Others
<1>13. CASE UNCHANGED vars
  BY <1>13 DEF vars, router, links, Stand, Others
<1> QED BY <1>1, <1>2, <1>3, <1>4, <1>5, <1>6, <1>7, <1>8, <1>9, <1>10, <1>11,
           <1>12, <1>13 DEF Next, Caller, Upstream

-------------------------------------------------------------------------------
(***************************************************************************)
(* Failures, and who answers.                                              *)
(***************************************************************************)
LEMMA FailedFacts ==
  ASSUME NEW n \in Nat
  PROVE  /\ Failed(n) \in Seq(Nat) /\ Len(Failed(n)) = n
         /\ Append(Failed(n), n + 1) = Failed(n + 1)
         /\ Blamed(Failed(n)) = n
         /\ ReasonFor(Failed(n)) = IF n = 0 THEN "primary" ELSE "fallback"
<1>1. Failed(n) \in Seq(Nat) /\ Len(Failed(n)) = n
  BY DEF Failed
<1>2. Append(Failed(n), n + 1) = Failed(n + 1)
  BY <1>1 DEF Failed
<1>3. Failed(n) = <<>> <=> n = 0
  BY <1>1
<1>4. n # 0 => Failed(n)[n] = n
  BY DEF Failed
<1> QED BY <1>1, <1>2, <1>3, <1>4 DEF Blamed, ReasonFor

LEMMA AccountsInit == Init => Accounts
  BY DEF Init, Accounts, Failed, AtHasFailed

LEMMA AccountsStep ==
  TypeOK /\ Stand /\ Accounts /\ [Next]_vars => Accounts'
<1> SUFFICES ASSUME TypeOK, Stand, Accounts, [Next]_vars PROVE Accounts'
  OBVIOUS
<1>t. /\ at \in Nat \ {0} /\ chosen \in Nat
      /\ at - 1 \in Nat /\ (at - 1) + 1 = at /\ (at + 1) - 1 = at
  BY LinkFacts, RouterAssumption DEF TypeOK, Link
<1>f. /\ Append(Failed(at - 1), at) = Failed(at)
      /\ Blamed(Failed(at - 1)) = at - 1
      /\ ReasonFor(Failed(at - 1)) = IF at = 1 THEN "primary" ELSE "fallback"
  <2>1. PICK m \in Nat : m = at - 1
    BY <1>t
  <2>2. /\ Append(Failed(m), m + 1) = Failed(m + 1)
        /\ Blamed(Failed(m)) = m
        /\ ReasonFor(Failed(m)) = IF m = 0 THEN "primary" ELSE "fallback"
    BY FailedFacts
  <2>3. m + 1 = at /\ (m = 0 <=> at = 1)
    BY <2>1, <1>t
  <2> QED BY <2>1, <2>2, <2>3
<1>1. CASE CallComplete
  BY <1>1, <1>t DEF CallComplete, Accounts, AtHasFailed, Stand
<1>2. CASE Answered
  BY <1>2, <1>t, <1>f DEF Answered, Chosen, Accounts, AtHasFailed, Stand
<1>3. CASE Rejected
  <2>1. failures' = Failed(at) /\ reason = "unstarted"
    BY <1>3, <1>f DEF Rejected, Accounts, AtHasFailed, Stand
  <2>2. CASE HasNext
    BY <1>3, <2>1, <2>2, <1>t DEF Rejected, Accounts, AtHasFailed, Stand
  <2>3. CASE ~HasNext
    BY <1>3, <2>1, <2>3, <1>t DEF Rejected, Accounts, AtHasFailed, Stand
  <2> QED BY <2>2, <2>3
<1>4. CASE CallStream
  BY <1>4, <1>t DEF CallStream, Accounts, AtHasFailed, Stand
<1>5. CASE NeverPulled
  BY <1>5, <1>t DEF NeverPulled, Accounts, AtHasFailed, Stand
<1>6. CASE \E c \in Chunk : Reads(c)
  <2> PICK c \in Chunk : Reads(c)
    BY <1>6
  <2>1. failures' = Failed(at - 1) /\ failures = Failed(at - 1) /\ at' = at
    BY DEF Reads, Awaiting, Accounts, AtHasFailed
  <2>2. CASE c.text /\ pc = "peek"
    BY <2>1, <2>2, <1>t, <1>f DEF Reads, Chosen, Accounts, AtHasFailed
  <2>3. CASE c.text /\ pc # "peek"
    BY <2>1, <2>3, <1>t DEF Reads, Awaiting, NothingChosen, Accounts, AtHasFailed,
                            Stand
  <2>4. CASE ~c.text
    BY <2>1, <2>4, <1>t DEF Reads, Awaiting, NothingChosen, Accounts, AtHasFailed,
                            Stand
  <2> QED BY <2>2, <2>3, <2>4
<1>7. CASE WireEnds
  <2>1. failures' = Failed(at - 1) /\ failures = Failed(at - 1) /\ at' = at
    BY <1>7 DEF WireEnds, Awaiting, Accounts, AtHasFailed
  <2>2. CASE pc = "peek"
    BY <1>7, <2>1, <2>2, <1>t, <1>f
       DEF WireEnds, AfterEnd, Chosen, Accounts, AtHasFailed
  <2>3. CASE pc = "pull"
    BY <1>7, <2>1, <2>3, <1>t
       DEF WireEnds, AfterEnd, NothingChosen, Accounts, AtHasFailed, Stand
  <2> QED BY <1>7, <2>2, <2>3 DEF WireEnds, Awaiting
<1>8. CASE WireBreaks
  <2>1. failures = Failed(at - 1) /\ at' = at
    BY <1>8 DEF WireBreaks, Awaiting, Accounts, AtHasFailed
  <2>2. CASE pc = "peek"
    BY <1>8, <2>1, <2>2, <1>t, <1>f
       DEF WireBreaks, AfterBreak, NothingChosen, Accounts, AtHasFailed, Stand
  <2>3. CASE pc = "pull"
    BY <1>8, <2>1, <2>3, <1>t
       DEF WireBreaks, AfterBreak, NothingChosen, Accounts, AtHasFailed, Stand
  <2> QED BY <1>8, <2>2, <2>3 DEF WireBreaks, Awaiting
<1>9. CASE Pull
  BY <1>9, <1>t DEF Pull, Accounts, AtHasFailed, Stand
<1>10. CASE Stop
  BY <1>10, <1>t DEF Stop, AfterStop, Accounts, AtHasFailed, Stand
<1>11. CASE Close
  <2> PICK how \in {"released", "lingering"} : GoOn(Left(how))
    BY <1>11 DEF Close, CloseSettles, CloseRejects, CloseTimesOut
  <2>1. CASE after = "next" /\ HasNext
    BY <2>1, <1>t DEF GoOn, NextLink, Accounts, AtHasFailed, Stand
  <2>2. CASE after = "next" /\ ~HasNext
    BY <2>2, <1>t DEF GoOn, NextLink, Accounts, AtHasFailed, Stand
  <2>3. CASE after # "next"
    BY <2>3, <1>t DEF GoOn, Finished, Accounts, AtHasFailed, Stand
  <2> QED BY <2>1, <2>2, <2>3
<1>12. CASE \E l \in Link : LateRelease(l)
  BY <1>12 DEF LateRelease, router, Accounts, AtHasFailed
<1>13. CASE UNCHANGED vars
  BY <1>13 DEF vars, router, Accounts, AtHasFailed
<1> QED BY <1>1, <1>2, <1>3, <1>4, <1>5, <1>6, <1>7, <1>8, <1>9, <1>10, <1>11,
           <1>12, <1>13 DEF Next, Caller, Upstream

-------------------------------------------------------------------------------
(***************************************************************************)
(* What the caller holds.                                                  *)
(***************************************************************************)
LEMMA SilentGivesNothing ==
  ASSUME NEW w \in Seq(Chunk), NEW l, Silent(w)
  PROVE  Gives(<<>>, w, l)
  BY DEF Silent, Gives

LEMMA SilentStaysSilent ==
  ASSUME NEW w \in Seq(Chunk), NEW c \in Chunk, Silent(w), ~c.text
  PROVE  Silent(Append(w, c))
  BY DEF Silent

LEMMA GivesWithoutText ==
  ASSUME NEW g \in Seq(DeltaType), NEW w \in Seq(Chunk), NEW l \in Link,
         NEW c \in Chunk, Gives(g, w, l), ~c.text
  PROVE  Gives(g, Append(w, c), l)
<1> DEFINE v == Append(w, c)
<1>1. /\ Len(v) = Len(w) + 1 /\ v[Len(w) + 1] = c
      /\ \A n \in 1..Len(w) : v[n] = w[n]
  OBVIOUS
<1>2. Len(w) \in Nat
  OBVIOUS
<1> HIDE DEF v
<1>3. \A k \in 1..Len(g) : /\ g[k].link = l
                           /\ g[k].chunk \in 1..Len(v)
                           /\ v[g[k].chunk].text
                           /\ \A j \in 1..(k - 1) : g[j].chunk < g[k].chunk
  BY <1>1, <1>2 DEF Gives
<1>4. ASSUME NEW n \in 1..Len(v), v[n].text
      PROVE  \E k \in 1..Len(g) : g[k].chunk = n
  <2>1. n # Len(w) + 1
    BY <1>1, <1>4
  <2>2. n \in 1..Len(w) /\ w[n].text
    BY <2>1, <1>1, <1>2, <1>4
  <2> QED BY <2>2 DEF Gives
<1>5. Gives(g, v, l)
  BY <1>3, <1>4 DEF Gives
<1> QED BY <1>5 DEF v

LEMMA GivesWithText ==
  ASSUME NEW g \in Seq(DeltaType), NEW w \in Seq(Chunk), NEW l \in Link,
         NEW c \in Chunk, Gives(g, w, l), c.text
  PROVE  Gives(Append(g, [link |-> l, chunk |-> Len(w) + 1]), Append(w, c), l)
<1> DEFINE v == Append(w, c)
           d == [link |-> l, chunk |-> Len(w) + 1]
           h == Append(g, d)
<1>1. /\ Len(v) = Len(w) + 1 /\ v[Len(w) + 1] = c
      /\ \A n \in 1..Len(w) : v[n] = w[n]
      /\ Len(w) \in Nat /\ Len(g) \in Nat
  OBVIOUS
<1>2. d \in DeltaType /\ d.link = l /\ d.chunk = Len(w) + 1
  BY DEF DeltaType
<1>3. /\ Len(h) = Len(g) + 1 /\ h[Len(g) + 1] = d
      /\ \A k \in 1..Len(g) : h[k] = g[k]
  BY <1>2
<1> HIDE DEF v, d, h
<1>4. \A k \in 1..Len(h) : /\ h[k].link = l
                           /\ h[k].chunk \in 1..Len(v)
                           /\ v[h[k].chunk].text
                           /\ \A j \in 1..(k - 1) : h[j].chunk < h[k].chunk
  <2> SUFFICES ASSUME NEW k \in 1..Len(h)
               PROVE  /\ h[k].link = l
                      /\ h[k].chunk \in 1..Len(v)
                      /\ v[h[k].chunk].text
                      /\ \A j \in 1..(k - 1) : h[j].chunk < h[k].chunk
    OBVIOUS
  <2>1. CASE k \in 1..Len(g)
    <3>1. h[k] = g[k] /\ \A j \in 1..(k - 1) : h[j] = g[j]
      BY <2>1, <1>1, <1>3
    <3>2. /\ g[k].link = l
          /\ g[k].chunk \in 1..Len(w) /\ w[g[k].chunk].text
          /\ \A j \in 1..(k - 1) : g[j].chunk < g[k].chunk
      BY <2>1 DEF Gives
    <3>3. g[k].chunk \in 1..Len(v) /\ v[g[k].chunk] = w[g[k].chunk]
      BY <3>2, <1>1
    <3> QED BY <3>1, <3>2, <3>3
  <2>2. CASE k = Len(g) + 1
    <3>1. \A j \in 1..(k - 1) : h[j] = g[j] /\ g[j].chunk \in 1..Len(w)
      BY <2>2, <1>1, <1>3 DEF Gives
    <3>2. h[k] = d
      BY <2>2, <1>3
    <3> QED BY <3>1, <3>2, <1>1, <1>2
  <2> QED BY <2>1, <2>2, <1>1, <1>3
<1>5. ASSUME NEW n \in 1..Len(v), v[n].text
      PROVE  \E k \in 1..Len(h) : h[k].chunk = n
  <2>1. CASE n \in 1..Len(w)
    <3>1. PICK k \in 1..Len(g) : g[k].chunk = n
      BY <2>1, <1>1, <1>5 DEF Gives
    <3>2. k \in 1..Len(h) /\ h[k].chunk = n
      BY <3>1, <1>1, <1>3
    <3> QED BY <3>2
  <2>2. CASE n = Len(w) + 1
    <3>1. Len(g) + 1 \in 1..Len(h) /\ h[Len(g) + 1].chunk = n
      BY <2>2, <1>1, <1>2, <1>3
    <3> QED BY <3>1
  <2> QED BY <2>1, <2>2, <1>1
<1>6. Gives(h, v, l)
  BY <1>4, <1>5 DEF Gives
<1> QED BY <1>6 DEF v, d, h

LEMMA DeltasInit == Init => Deltas
  BY LinkFacts, RouterAssumption DEF Init, Deltas, Silent

LEMMA DeltasStep == TypeOK /\ Stand /\ Deltas /\ [Next]_vars => Deltas'
<1> SUFFICES ASSUME TypeOK, Stand, Deltas, [Next]_vars PROVE Deltas'
  OBVIOUS
<1>t. /\ at \in Nat \ {0} /\ at \in Link /\ chosen \in Nat
      /\ wire \in [Link -> Seq(Chunk)] /\ wire[at] \in Seq(Chunk)
      /\ given \in Seq(DeltaType)
      /\ \A l \in Link : l \in Nat
  BY LinkFacts, RouterAssumption DEF TypeOK, Link
<1>n. HasNext => at + 1 \in Link /\ wire[at + 1] = <<>> /\ Silent(<<>>)
  BY <1>t, RouterAssumption DEF HasNext, Link, Deltas, Silent
<1>s. UNCHANGED <<wire, given, chosen, at>> => Deltas'
  BY DEF Deltas
<1>c. wire' = wire /\ given' = given /\ chosen = 0 /\ chosen' = at /\ at' = at => Deltas'
  BY <1>t, SilentGivesNothing DEF Deltas
<1>h. wire' = wire /\ given' = given /\ chosen = 0 /\ chosen' = 0 /\ at' = at + 1 /\ HasNext
        => Deltas'
  BY <1>t, <1>n DEF Deltas
<1>1. CASE CallComplete \/ CallStream \/ NeverPulled \/ Pull \/ Stop
  BY <1>1, <1>s DEF CallComplete, CallStream, NeverPulled, Pull, Stop, links
<1>2. CASE Answered
  BY <1>2, <1>c DEF Answered, Chosen, Stand
<1>3. CASE Rejected
  BY <1>3, <1>s, <1>h DEF Rejected, Stand
<1>4. CASE \E c \in Chunk : Reads(c)
  <2> PICK c \in Chunk : Reads(c)
    BY <1>4
  <2> DEFINE n == Len(wire[at]) + 1
             w == Append(wire[at], c)
             d == [link |-> at, chunk |-> n]
  <2>1. /\ at' = at /\ n <= MaxChunks /\ Len(w) = n
        /\ wire' = [wire EXCEPT ![at] = w] /\ wire'[at] = w
        /\ \A l \in Link : l # at => wire'[l] = wire[l]
    BY <1>t DEF Reads
  <2>2. /\ \A l \in Link : l > at' => wire'[l] = <<>>
        /\ \A l \in Link : Len(wire'[l]) <= MaxChunks
    BY <2>1, <1>t DEF Deltas
  <2>3. \/ pc = "peek" /\ chosen = 0 /\ given = <<>> /\ Silent(wire[at])
        \/ pc = "pull" /\ chosen = at /\ Gives(given, wire[at], at)
    BY <1>t DEF Reads, Awaiting, Stand, Deltas
  <2>4. CASE c.text
    <3>1. chosen' = at /\ given' = Append(given, d)
      BY <2>3, <2>4 DEF Reads, Given, Chosen, NothingChosen
    <3>2. Gives(given, wire[at], at)
      BY <2>3, <1>t, SilentGivesNothing
    <3>3. Gives(Append(given, d), w, at)
      BY <2>4, <3>2, <1>t, GivesWithText
    <3> QED BY <2>1, <2>2, <3>1, <3>3, <1>t DEF Deltas
  <2>5. CASE ~c.text
    <3>1. chosen' = chosen /\ given' = given
      BY <2>5 DEF Reads, NothingChosen
    <3>2. CASE pc = "peek"
      <4>1. Silent(w)
        BY <2>3, <2>5, <3>2, <1>t, SilentStaysSilent
      <4> QED BY <2>1, <2>2, <2>3, <3>1, <3>2, <4>1, <1>t DEF Deltas
    <3>3. CASE pc # "peek"
      <4>1. Gives(given, w, at)
        BY <2>3, <2>5, <3>3, <1>t, GivesWithoutText
      <4> QED BY <2>1, <2>2, <2>3, <3>1, <3>3, <4>1, <1>t DEF Deltas
    <3> QED BY <3>2, <3>3
  <2> QED BY <2>4, <2>5
<1>5. CASE WireEnds
  <2>1. CASE pc = "peek"
    BY <1>5, <2>1, <1>c DEF WireEnds, Chosen, Stand
  <2>2. CASE pc # "peek"
    BY <1>5, <2>2, <1>s DEF WireEnds, NothingChosen
  <2> QED BY <2>1, <2>2
<1>6. CASE WireBreaks
  BY <1>6, <1>s DEF WireBreaks, NothingChosen
<1>7. CASE Close
  <2> PICK how \in {"released", "lingering"} : GoOn(Left(how))
    BY <1>7 DEF Close, CloseSettles, CloseRejects, CloseTimesOut
  <2>1. CASE after = "next" /\ HasNext
    BY <2>1, <1>h DEF GoOn, NextLink, Stand
  <2>2. CASE ~(after = "next" /\ HasNext)
    BY <2>2, <1>s DEF GoOn, NextLink, Finished
  <2> QED BY <2>1, <2>2
<1>8. CASE \E l \in Link : LateRelease(l)
  BY <1>8, <1>s DEF LateRelease, router
<1>9. CASE UNCHANGED vars
  BY <1>9, <1>s DEF vars, router, links
<1> QED BY <1>1, <1>2, <1>3, <1>4, <1>5, <1>6, <1>7, <1>8, <1>9
        DEF Next, Caller, Upstream

-------------------------------------------------------------------------------
\* The inductive invariant: types, where the router stands, who failed and who
\* answered, and what was given.
THEOREM Invariance == Spec => []RouterInv
<1>1. Init => RouterInv
  BY TypeInit, StandInit, AccountsInit, DeltasInit DEF RouterInv
<1>2. RouterInv /\ [Next]_vars => RouterInv'
  BY TypeStep, StandStep, AccountsStep, DeltasStep DEF RouterInv
<1> QED BY <1>1, <1>2, PTL DEF Spec

\* The caller holds the text of one link's response, whole and in order, however
\* many links there are and however they fail.
THEOREM OneLinkAnswers == Spec => []OneAnswer
<1>1. RouterInv => OneAnswer
  BY DEF RouterInv, TypeOK, Deltas, Gives, OneAnswer
<1> QED BY <1>1, Invariance, PTL

\* The outcome names the link that answered, and every link before it failed.
THEOREM OutcomesNameTheirLinks == Spec => []OutcomeNamesItsLink
<1>1. ASSUME RouterInv PROVE OutcomeNamesItsLink
  <2>1. at \in Nat \ {0} /\ chosen \in Nat
    BY <1>1, LinkFacts DEF RouterInv, TypeOK, Link
  <2>2. pc \in {"idle", "complete", "peek", "pull", "yield", "close", "done"}
    BY <1>1 DEF RouterInv, TypeOK
  <2>3. chosen # 0 => chosen = at /\ ~AtHasFailed
    BY <1>1, <2>1, <2>2 DEF RouterInv, Stand, AtHasFailed
  <2>4. reason = "exhausted" => failures = Failed(Links)
    BY <1>1, <2>1, <2>3 DEF RouterInv, Stand, Accounts, AtHasFailed
  <2> QED BY <1>1, <2>1, <2>3, <2>4
          DEF RouterInv, Accounts, Failed, OutcomeNamesItsLink, Link
<1> QED BY <1>1, Invariance, PTL

\* No response is left open, by whichever way the router leaves its link.
THEOREM NothingIsLeftOpen == Spec => []NothingLeftOpen
<1>1. ASSUME RouterInv PROVE NothingLeftOpen
  <2>1. at \in Nat /\ \A l \in Link : l \in Nat
    BY <1>1, LinkFacts DEF RouterInv, TypeOK, Link
  <2> QED BY <1>1, <2>1 DEF RouterInv, Stand, Others, NothingLeftOpen
<1> QED BY <1>1, Invariance, PTL

\* The caller's end or failure is that of the link, however closing it went.
THEOREM EndsAreTheLinks == Spec => []EndIsTheLinksEnd
<1>1. ASSUME RouterInv PROVE EndIsTheLinksEnd
  <2>1. pc \in {"idle", "complete", "peek", "pull", "yield", "close", "done"}
        /\ at \in Nat \ {0}
    BY <1>1, LinkFacts DEF RouterInv, TypeOK
  <2> QED BY <1>1, <2>1 DEF RouterInv, Stand, EndIsTheLinksEnd
<1> QED BY <1>1, Invariance, PTL

-------------------------------------------------------------------------------
(***************************************************************************)
(* What the outcome reports.                                               *)
(***************************************************************************)
\* The last chunks of each response that named a usage and a finish reason.
LastUsage(w, n) ==
    /\ n \in 0..Len(w)
    /\ n # 0 => w[n].usage
    /\ \A m \in (n + 1)..Len(w) : ~w[m].usage

LastFinish(w, n) ==
    /\ n \in 0..Len(w)
    /\ n # 0 => w[n].finish
    /\ \A m \in (n + 1)..Len(w) : ~w[m].finish

Reports ==
    \A l \in Link : LastUsage(wire[l], usage[l]) /\ LastFinish(wire[l], finish[l])

\* One more chunk is the last, or leaves the last the last.
LEMMA LastOfAppend ==
  ASSUME NEW w \in Seq(Chunk), NEW c \in Chunk, NEW n \in Nat
  PROVE  /\ LastUsage(w, n) => LastUsage(Append(w, c), Usage(c, Len(w) + 1, n))
         /\ LastFinish(w, n) => LastFinish(Append(w, c), Finish(c, Len(w) + 1, n))
<1> DEFINE v == Append(w, c)
<1>1. /\ Len(w) \in Nat /\ Len(v) = Len(w) + 1
      /\ v[Len(v)] = c
      /\ \A m \in 1..Len(w) : v[m] = w[m]
  OBVIOUS
<1>2. \A m \in 1..Len(v) : m \in 1..Len(w) \/ m = Len(v)
  BY <1>1
<1> HIDE DEF v
<1>3. LastUsage(w, n) => LastUsage(v, Usage(c, Len(w) + 1, n))
  <2>1. CASE c.usage
    BY <1>1, <2>1 DEF LastUsage, Usage
  <2>2. CASE ~c.usage
    BY <1>1, <1>2, <2>2 DEF LastUsage, Usage
  <2> QED BY <2>1, <2>2
<1>4. LastFinish(w, n) => LastFinish(v, Finish(c, Len(w) + 1, n))
  <2>1. CASE c.finish
    BY <1>1, <2>1 DEF LastFinish, Finish
  <2>2. CASE ~c.finish
    BY <1>1, <1>2, <2>2 DEF LastFinish, Finish
  <2> QED BY <2>1, <2>2
<1> QED BY <1>3, <1>4 DEF v

\* No step but a chunk's changes what is reported, and a chunk's does it justice.
LEMMA ReportsStep == TypeOK /\ Reports /\ [Next]_vars => Reports'
<1> SUFFICES ASSUME TypeOK, Reports, [Next]_vars PROVE Reports'
  OBVIOUS
<1>1. CASE \E c \in Chunk : Reads(c)
  <2> PICK c \in Chunk : Reads(c)
    BY <1>1
  <2>1. /\ at \in Link /\ wire[at] \in Seq(Chunk)
        /\ finish[at] \in Nat /\ usage[at] \in Nat
    BY DEF TypeOK
  <2>2. /\ wire'[at] = Append(wire[at], c)
        /\ usage'[at] = Usage(c, Len(wire[at]) + 1, usage[at])
        /\ finish'[at] = Finish(c, Len(wire[at]) + 1, finish[at])
        /\ \A l \in Link \ {at} :
              wire'[l] = wire[l] /\ usage'[l] = usage[l] /\ finish'[l] = finish[l]
    BY <2>1 DEF Reads, TypeOK
  <2>3. LastUsage(wire'[at], usage'[at]) /\ LastFinish(wire'[at], finish'[at])
    BY <2>1, <2>2, LastOfAppend DEF Reports
  <2> QED BY <2>2, <2>3 DEF Reports
<1>2. CASE UNCHANGED <<wire, usage, finish>>
  BY <1>2 DEF Reports
<1> QED BY <1>1, <1>2
        DEF Next, Caller, Upstream, Close, vars, links, CallComplete, CallStream, NeverPulled,
            Pull, Stop, Answered, Rejected, WireEnds, WireBreaks, CloseSettles,
            CloseRejects, CloseTimesOut, GoOn, LateRelease

\* What the outcome of a stream read to its end reports is the last its link sent,
\* however many chunks came after it.
THEOREM OutcomesAreWhole == Spec => []OutcomeIsWhole
<1>1. Init => Reports
  BY DEF Init, Reports, LastUsage, LastFinish
<1>2. Spec => []Reports
  BY <1>1, ReportsStep, TypeCorrect, PTL DEF Spec
<1>3. ASSUME RouterInv, Reports, result = "ended"
      PROVE  /\ usage[chosen] = LastThat(wire[chosen], LAMBDA c : c.usage)
             /\ finish[chosen] = LastThat(wire[chosen], LAMBDA c : c.finish)
  <2>1. chosen \in Link
    BY <1>3 DEF RouterInv, TypeOK, Stand
  <2>2. LastUsage(wire[chosen], usage[chosen]) /\ LastFinish(wire[chosen], finish[chosen])
    BY <1>3, <2>1 DEF Reports
  <2>3. Len(wire[chosen]) \in Nat
    BY <1>3, <2>1 DEF RouterInv, TypeOK
  <2>4. \A n : LastUsage(wire[chosen], n) => n = usage[chosen]
    BY <2>2, <2>3 DEF LastUsage
  <2>5. \A n : LastFinish(wire[chosen], n) => n = finish[chosen]
    BY <2>2, <2>3 DEF LastFinish
  <2>6. usage[chosen] = CHOOSE n \in 0..Len(wire[chosen]) : LastUsage(wire[chosen], n)
    BY <2>2, <2>4 DEF LastUsage
  <2>7. finish[chosen] = CHOOSE n \in 0..Len(wire[chosen]) : LastFinish(wire[chosen], n)
    BY <2>2, <2>5 DEF LastFinish
  <2> QED BY <2>6, <2>7 DEF LastThat, LastUsage, LastFinish
<1>4. RouterInv /\ Reports => OutcomeIsWhole
  BY <1>3 DEF OutcomeIsWhole
<1> QED BY <1>2, <1>4, Invariance, PTL

\* Once a link has answered it stays the one, and no other is opened.
THEOREM AnswersAreFinal == Spec => AnswerIsFinal
<1> DEFINE Final == chosen # 0 =>
               /\ chosen' = chosen
               /\ \A l \in Link : conn'[l] = "open" => conn[l] = "open"
<1>1. ASSUME RouterInv, [Next]_vars PROVE Final
  <2> USE DEF RouterInv
  <2>t. /\ at \in Link /\ at # 0
        /\ conn \in [Link -> {"unopened", "open", "ended", "broken", "lingering",
                              "released"}]
    BY <1>1, LinkFacts DEF TypeOK
  <2>u. UNCHANGED <<chosen, conn>> => Final
    OBVIOUS
  <2>1. CASE CallComplete \/ CallStream \/ Answered \/ Rejected
    BY <1>1, <2>1 DEF CallComplete, CallStream, Answered, Rejected, Stand
  <2>2. CASE NeverPulled \/ Pull \/ Stop
    BY <2>2, <2>u DEF NeverPulled, Pull, Stop, links
  <2>3. CASE \E c \in Chunk : Reads(c)
    BY <1>1, <2>3 DEF Reads, Awaiting, Chosen, NothingChosen, Stand
  <2>4. CASE WireEnds \/ WireBreaks
    <3>1. \/ conn' = [conn EXCEPT ![at] = "ended"]
          \/ conn' = [conn EXCEPT ![at] = "broken"]
      BY <2>4 DEF WireEnds, WireBreaks, Drop
    <3>2. chosen # 0 => chosen' = chosen
      BY <1>1, <2>4 DEF WireEnds, WireBreaks, Awaiting, Chosen, NothingChosen, Stand
    <3> QED BY <3>1, <3>2, <2>t
  <2>5. CASE Close
    <3> PICK how \in {"released", "lingering"} : GoOn(Left(how))
      BY <2>5 DEF Close, CloseSettles, CloseRejects, CloseTimesOut
    <3>1. chosen # 0 => conn' = Left(how) /\ chosen' = chosen
      BY <1>1 DEF GoOn, NextLink, Finished, Stand
    <3>2. \A l \in Link : Left(how)[l] = "open" => conn[l] = "open"
      BY <2>t DEF Left
    <3> QED BY <3>1, <3>2
  <2>6. CASE \E l \in Link : LateRelease(l)
    BY <2>6, <2>t DEF LateRelease, router
  <2>7. CASE UNCHANGED vars
    BY <2>7, <2>u DEF vars, router, links
  <2> QED BY <1>1, <2>1, <2>2, <2>3, <2>4, <2>5, <2>6, <2>7 DEF Next, Caller, Upstream
<1>2. RouterInv /\ [Next]_vars => [Final]_vars
  BY <1>1
<1> QED BY <1>2, Invariance, PTL DEF Spec, AnswerIsFinal

-------------------------------------------------------------------------------
(***************************************************************************)
(* The router keeps the promise of LlmProvider.                            *)
(***************************************************************************)
LEMMA PromiseInit == Init => Promise!ProviderInit
  BY DEF Init, Promise!ProviderInit, answeringSeen, phaseSeen

LEMMA PromiseStep ==
  RouterInv /\ [Next]_vars => [Promise!ProviderNext]_(Promise!providerVars)
<1> SUFFICES ASSUME RouterInv, [Next]_vars
             PROVE  [Promise!ProviderNext]_(Promise!providerVars)
  OBVIOUS
<1> USE DEF RouterInv
<1>t. at \in Link /\ at # 0 /\ at \in Nat
  BY LinkFacts DEF TypeOK
<1>u. UNCHANGED <<chosen, given, result>> => UNCHANGED Promise!providerVars
  BY DEF Promise!providerVars, answeringSeen, phaseSeen
<1>e. ASSUME UNCHANGED <<chosen, given>>, result = "pending",
             \/ result' \in {"failed", "stopped"}
             \/ result' = "ended" /\ chosen # 0
      PROVE  Promise!ProviderNext
  <2>1. answeringSeen' = answeringSeen /\ phaseSeen = "open" /\ phaseSeen' = result'
    BY <1>e DEF answeringSeen, phaseSeen
  <2>2. result' = "ended" => answeringSeen # {}
    BY <1>e DEF answeringSeen
  <2>3. Promise!Ends(result')
    BY <1>e, <2>1, <2>2 DEF Promise!Ends
  <2> QED BY <1>e, <2>3 DEF Promise!ProviderNext
<1>a. ASSUME chosen \in {0, at}, chosen' = at, result = "pending", result' = result,
             \/ given' = given
             \/ \E n \in 1..MaxChunks :
                   /\ \A k \in DOMAIN given : given[k].chunk < n
                   /\ given' = Append(given, [link |-> at, chunk |-> n])
      PROVE  Promise!ProviderNext
  <2>1. /\ answeringSeen \subseteq {at} /\ answeringSeen' = {at}
        /\ phaseSeen = "open" /\ phaseSeen' = phaseSeen
    BY <1>a, <1>t DEF answeringSeen, phaseSeen
  <2>2. Promise!Answers(at)
    BY <1>a, <2>1 DEF Promise!Answers
  <2> QED BY <1>t, <2>2 DEF Promise!ProviderNext
<1>1. CASE CallComplete \/ CallStream \/ Pull
  BY <1>1, <1>u DEF CallComplete, CallStream, Pull
<1>2. CASE NeverPulled \/ Stop
  BY <1>2, <1>e DEF NeverPulled, Stop, Stand
<1>3. CASE Answered
  <2>1. /\ answeringSeen = {} /\ answeringSeen' = {at} /\ UNCHANGED given
        /\ phaseSeen = "open" /\ phaseSeen' = "answered"
    BY <1>3, <1>t DEF Answered, Chosen, Stand, answeringSeen, phaseSeen
  <2>2. Promise!Completes(at)
    BY <2>1 DEF Promise!Completes
  <2> QED BY <1>t, <2>2 DEF Promise!ProviderNext
<1>4. CASE Rejected
  BY <1>4, <1>u, <1>e DEF Rejected, Stand
<1>5. CASE \E c \in Chunk : Reads(c)
  <2> PICK c \in Chunk : Reads(c)
    BY <1>5
  <2>1. CASE c.text
    <3> DEFINE n == Len(wire[at]) + 1
    <3>1. /\ chosen \in {0, at} /\ chosen' = at /\ result = "pending"
          /\ result' = result
          /\ given' = Append(given, [link |-> at, chunk |-> n])
      BY <2>1 DEF Reads, Awaiting, Chosen, NothingChosen, Given, Stand
    <3>2. /\ wire[at] \in Seq(Chunk) /\ given \in Seq(DeltaType)
          /\ n \in 1..MaxChunks
      BY <1>t, RouterAssumption DEF Reads, TypeOK
    <3>3. \A k \in DOMAIN given : given[k].chunk < n
      <4>1. CASE chosen = 0
        BY <4>1 DEF Deltas
      <4>2. CASE chosen = at
        <5>1. \A k \in 1..Len(given) : given[k].chunk \in 1..Len(wire[at])
          BY <4>2, <1>t DEF Deltas, Gives
        <5>2. DOMAIN given = 1..Len(given) /\ Len(wire[at]) \in Nat
          BY <3>2
        <5> QED BY <5>1, <5>2
      <4> QED BY <3>1, <4>1, <4>2
    <3> HIDE DEF n
    <3> QED BY <3>1, <3>2, <3>3, <1>a
  <2>2. CASE ~c.text
    BY <2>2, <1>u DEF Reads, NothingChosen
  <2> QED BY <2>1, <2>2
<1>6. CASE WireEnds
  <2>1. /\ chosen \in {0, at} /\ chosen' = at /\ result = "pending"
        /\ result' = result /\ given' = given
    BY <1>6 DEF WireEnds, Awaiting, Chosen, NothingChosen, Stand
  <2> QED BY <2>1, <1>a
<1>7. CASE WireBreaks
  BY <1>7, <1>u DEF WireBreaks, NothingChosen
<1>8. CASE Close
  <2> PICK how \in {"released", "lingering"} : GoOn(Left(how))
    BY <1>8 DEF Close, CloseSettles, CloseRejects, CloseTimesOut
  <2>1. CASE after = "next" /\ HasNext
    BY <2>1, <1>u DEF GoOn, NextLink
  <2>2. CASE after = "next" /\ ~HasNext
    BY <2>2, <1>e DEF GoOn, NextLink, Stand
  <2>3. CASE after # "next" /\ result = "stopped"
    BY <2>3, <1>u DEF GoOn, Finished
  <2>4. CASE after # "next" /\ result # "stopped"
    <3>1. /\ UNCHANGED <<chosen, given>> /\ result = "pending" /\ chosen = at
          /\ result' \in {"failed", "ended"}
      BY <2>4 DEF GoOn, Finished, Stand
    <3> QED BY <3>1, <1>e, <1>t
  <2> QED BY <2>1, <2>2, <2>3, <2>4
<1>9. CASE \E l \in Link : LateRelease(l)
  BY <1>9, <1>u DEF LateRelease, router
<1>10. CASE UNCHANGED vars
  BY <1>10, <1>u DEF vars, router
<1> QED BY <1>1, <1>2, <1>3, <1>4, <1>5, <1>6, <1>7, <1>8, <1>9, <1>10
        DEF Next, Caller, Upstream

\* Called through LlmProvider, a chain of providers behaves as one of them does.
THEOREM RouterIsAProvider == Spec => ImplementsProvider
<1> QED BY PromiseInit, PromiseStep, Invariance, PTL
        DEF Spec, ImplementsProvider, Promise!ProviderSpec
===============================================================================
