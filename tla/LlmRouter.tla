------------------------------- MODULE LlmRouter -------------------------------
(***************************************************************************)
(* LlmRouter over OpenAiCompatibleProviders: one request, answered by the  *)
(* first link of the chain whose first result is not a failure.            *)
(*                                                                         *)
(* The caller pulls deltas from the router's generator, which pulls them   *)
(* from the generator of the link it is at, which reads chunks off the     *)
(* wire until one has text.  A link is left by closing its generator,      *)
(* which may hang or reject and is given CLOSE_TIMEOUT_MS.                 *)
(***************************************************************************)
EXTENDS Naturals, Sequences

CONSTANTS Links,       \* length of LLM_CHAIN
          Chunk,       \* what a provider may send, see ChunkType
          MaxChunks    \* bound on the chunks of one wire

\* choice: choices[0] is there; text: its delta has content; finish: it has a
\* finish_reason; usage: the chunk reports usage.
ChunkType ==
    {c \in [choice : BOOLEAN, text : BOOLEAN, finish : BOOLEAN, usage : BOOLEAN] :
        c.text \/ c.finish => c.choice}

ASSUME RouterAssumption ==
    /\ Links \in Nat \ {0}          \* parseLlmChain refuses an empty chain
    /\ Chunk \subseteq ChunkType
    /\ MaxChunks \in Nat

VARIABLES pc,         \* where the router's generator (or complete()) stands
          at,         \* the link it is at
          chosen,     \* the link that answers, 0 when none does yet
          reason,     \* modelReason: 'not started', 'primary', 'fallback: ...' or
                      \* 'every provider failed: ...'
          blamed,     \* the link whose failure it quotes, 0 for none
          failures,   \* links that failed, in order
          after,      \* what the generator does once the link is closed
          given,      \* the deltas the caller has been given
          result,     \* how it ended for the caller
          conn,       \* per link, its response
          wire,       \* per link, the chunks that came
          finish, usage     \* per link, finishReason and usage: the chunk they are from

router == <<pc, at, chosen, reason, blamed, failures, after, given, result>>
links  == <<conn, wire, finish, usage>>
vars   == <<router, links>>

Link == 1..Links

Init ==
    /\ pc = "idle" /\ at = 1
    /\ chosen = 0 /\ reason = "unstarted" /\ blamed = 0
    /\ failures = <<>>
    /\ after = "return"
    /\ given = <<>>
    /\ result = "pending"
    /\ conn = [l \in Link |-> "unopened"]
    /\ wire = [l \in Link |-> <<>>]
    /\ finish = [l \in Link |-> 0]
    /\ usage = [l \in Link |-> 0]

--------------------------------------------------------------------------------
(***************************************************************************)
(* Pieces of the steps.                                                    *)
(***************************************************************************)
\* mutant: quotes the first failure
BlamedFirst(fails) == IF fails = <<>> THEN 0 ELSE fails[1]

\* reasonFor: 0 stands for 'primary', a link for 'fallback: <its failure>'.
Blamed(fails) == IF fails = <<>> THEN 0 ELSE fails[Len(fails)]

ReasonFor(fails) == IF fails = <<>> THEN "primary" ELSE "fallback"

\* mutant: the loop runs one link too far
HasNextOffByOne == at <= Links

HasNext == at < Links

\* The link the router is at answers.
Chosen ==
    /\ chosen' = at
    /\ reason' = ReasonFor(failures)
    /\ blamed' = Blamed(failures)

NothingChosen == UNCHANGED <<chosen, reason, blamed>>

Open(l) == conn' = [conn EXCEPT ![l] = "open"]
Drop(how) == conn' = [conn EXCEPT ![at] = how]

\* mutant: usage is looked for after the guard on choices[0]
UsageIfChoice(c, n, old) == IF c.choice /\ c.usage THEN n ELSE old

\* The usage of a chunk is read whether or not it has a choice.
Usage(c, n, old) == IF c.usage THEN n ELSE old

Finish(c, n, old) == IF c.finish THEN n ELSE old

\* mutant: the peeked delta is dropped
GivenAfterPeek(l, n) ==
    IF pc = "peek" THEN given ELSE Append(given, [link |-> l, chunk |-> n])

\* yield of the delta that chunk n of link l carries
Given(l, n) == Append(given, [link |-> l, chunk |-> n])

\* mutant: an empty answer is a failure too
EmptyFallsThrough == IF pc = "peek" THEN "next" ELSE "return"

\* What follows when the wire ends: an empty answer is an answer.
AfterEnd == "return"

\* mutant: the next link takes over mid-stream
SpliceAfterBreak == "next"

\* mutant: the finally returns, which swallows the failure
BreakSwallowed == IF pc = "peek" THEN "next" ELSE "return"

\* What follows when the wire breaks: the next link only if nothing came yet.
AfterBreak == IF pc = "peek" THEN "next" ELSE "throw"

--------------------------------------------------------------------------------
(***************************************************************************)
(* complete(): each link in turn until one answers.                        *)
(***************************************************************************)
CallComplete ==
    /\ pc = "idle"
    /\ pc' = "complete"
    /\ Open(1)
    /\ UNCHANGED <<at, chosen, reason, blamed, failures, after, given, result,
                   wire, finish, usage>>

\* A response with text, be it the empty text.
Answered ==
    /\ pc = "complete"
    /\ Chosen
    /\ result' = "answered"
    /\ pc' = "done"
    /\ Drop("ended")
    /\ UNCHANGED <<at, failures, after, given, wire, finish, usage>>

\* An error, or a response without choices or with null content.
Rejected ==
    /\ pc = "complete"
    /\ failures' = Append(failures, at)
    /\ IF HasNext
         THEN /\ at' = at + 1
              /\ conn' = [conn EXCEPT ![at] = "broken", ![at + 1] = "open"]
              /\ UNCHANGED <<pc, result>>
         ELSE /\ pc' = "done"
              /\ result' = "failed"
              /\ Drop("broken")
              /\ UNCHANGED at
    /\ UNCHANGED <<chosen, reason, blamed, after, given, wire, finish, usage>>

--------------------------------------------------------------------------------
(***************************************************************************)
(* stream(): the first next() opens the first link.                        *)
(***************************************************************************)
CallStream ==
    /\ pc = "idle"
    /\ pc' = "peek"
    /\ Open(1)
    /\ UNCHANGED <<at, chosen, reason, blamed, failures, after, given, result,
                   wire, finish, usage>>

\* A caller may drop the stream before it pulls anything.
NeverPulled ==
    /\ pc = "idle"
    /\ pc' = "done"
    /\ result' = "stopped"
    /\ UNCHANGED <<at, chosen, reason, blamed, failures, after, given, links>>

Awaiting == pc \in {"peek", "pull"}       \* await iterator.next()

\* A chunk comes.  With text it is what iterator.next() resolves to, and the
\* router yields it; without, the provider reads on.
Reads(c) ==
    LET n == Len(wire[at]) + 1 IN
    /\ Awaiting
    /\ n <= MaxChunks
    /\ wire' = [wire EXCEPT ![at] = Append(@, c)]
    /\ usage' = [usage EXCEPT ![at] = Usage(c, n, @)]
    /\ finish' = [finish EXCEPT ![at] = Finish(c, n, @)]
    /\ IF c.text
         THEN /\ given' = Given(at, n)
              /\ IF pc = "peek" THEN Chosen ELSE NothingChosen
              /\ pc' = "yield"
         ELSE NothingChosen /\ UNCHANGED <<given, pc>>
    /\ UNCHANGED <<at, failures, after, result, conn>>

WireEnds ==
    /\ Awaiting
    /\ Drop("ended")
    /\ IF pc = "peek" THEN Chosen ELSE NothingChosen
    /\ pc' = "close"
    /\ after' = AfterEnd
    /\ UNCHANGED <<at, failures, given, result, wire, finish, usage>>

\* The request is refused or times out, or its response fails.
WireBreaks ==
    /\ Awaiting
    /\ Drop("broken")
    /\ failures' = IF pc = "peek" THEN Append(failures, at) ELSE failures
    /\ pc' = "close"
    /\ after' = AfterBreak
    /\ NothingChosen
    /\ UNCHANGED <<at, given, result, wire, finish, usage>>

Pull ==
    /\ pc = "yield"
    /\ pc' = "pull"
    /\ UNCHANGED <<at, chosen, reason, blamed, failures, after, given, result,
                   links>>

\* mutant: the caller's return() is not passed on to the link
StopUnforwarded == "done"

\* Where return() takes a generator suspended at its yield: into the finally.
AfterStop == "close"

\* The caller stops: return() on the router's generator runs its finally.
Stop ==
    /\ pc = "yield"
    /\ pc' = AfterStop
    /\ result' = "stopped"
    /\ after' = "return"
    /\ UNCHANGED <<at, chosen, reason, blamed, failures, given, links>>

--------------------------------------------------------------------------------
(***************************************************************************)
(* closeQuietly, and what the generator does after it.                     *)
(***************************************************************************)
\* The for loop turns to the next link, or every link has failed.
NextLink(left) ==
    /\ IF HasNext
         THEN /\ at' = at + 1
              /\ pc' = "peek"
              /\ conn' = [left EXCEPT ![at + 1] = "open"]
              /\ UNCHANGED <<reason, blamed, result>>
         ELSE /\ pc' = "done"
              /\ reason' = "exhausted"
              /\ blamed' = 0
              /\ result' = "failed"
              /\ conn' = left
              /\ UNCHANGED at
    /\ UNCHANGED chosen

\* The generator is done, with what it was in the middle of producing.
Finished(left) ==
    /\ pc' = "done"
    /\ conn' = left
    /\ result' = IF result = "stopped" THEN "stopped"
                 ELSE IF after = "throw" THEN "failed" ELSE "ended"
    /\ UNCHANGED <<at, chosen, reason, blamed>>

GoOn(left) ==
    /\ pc = "close"
    /\ IF after = "next" THEN NextLink(left) ELSE Finished(left)
    /\ UNCHANGED <<failures, after, given, wire, finish, usage>>

Left(how) == IF conn[at] = "open" THEN [conn EXCEPT ![at] = how] ELSE conn

\* The link's generator returns, or its return() rejects: logged and dropped.
CloseSettles == GoOn(Left("released"))
CloseRejects == conn[at] = "open" /\ GoOn(Left("lingering"))

\* mutant: closeQuietly waits for as long as it takes
CloseWaits(l) == conn[l] # "open"

\* CLOSE_TIMEOUT_MS pass, whatever return() is doing.
MayTimeOut(l) == TRUE

CloseTimesOut == pc = "close" /\ MayTimeOut(at) /\ GoOn(Left("lingering"))

\* A return() that was given up on settles late: nobody waits for it.
LateRelease(l) ==
    /\ conn[l] = "lingering"
    /\ conn' = [conn EXCEPT ![l] = "released"]
    /\ UNCHANGED <<router, wire, finish, usage>>

--------------------------------------------------------------------------------
Caller == CallComplete \/ CallStream \/ NeverPulled \/ Pull \/ Stop
Upstream == Answered \/ Rejected \/ WireEnds \/ WireBreaks \/ \E c \in Chunk : Reads(c)
Close == CloseSettles \/ CloseRejects \/ CloseTimesOut

Next == Caller \/ Upstream \/ Close \/ \E l \in Link : LateRelease(l)

Spec == Init /\ [][Next]_vars

\* A link answers or fails, the timer of a close fires, and a caller who was given
\* a delta asks for the next one or stops.
FairSpec ==
    /\ Spec
    /\ WF_vars(Upstream)
    /\ WF_vars(CloseTimesOut)
    /\ WF_vars(Pull \/ Stop)

--------------------------------------------------------------------------------
(***************************************************************************)
(* Properties.                                                             *)
(***************************************************************************)
DeltaType == [link : Link, chunk : Nat]

\* Every variable has its type, and a wire has no more chunks than it may.
TypeOK ==
    /\ pc \in {"idle", "complete", "peek", "pull", "yield", "close", "done"}
    /\ at \in Link
    /\ chosen \in 0..Links /\ blamed \in 0..Links
    /\ reason \in {"unstarted", "primary", "fallback", "exhausted"}
    /\ failures \in Seq(Link)
    /\ after \in {"return", "throw", "next"}
    /\ given \in Seq(DeltaType)
    /\ result \in {"pending", "answered", "ended", "failed", "stopped"}
    /\ conn \in [Link -> {"unopened", "open", "ended", "broken", "lingering",
                          "released"}]
    /\ wire \in [Link -> Seq(Chunk)]
    /\ finish \in [Link -> Nat] /\ usage \in [Link -> Nat]

\* The caller holds the text of one link and all of it that came, in order: no
\* delta is lost to the peek, and none is of a second link.
OneAnswer ==
    LET mine == IF chosen = 0 THEN <<>> ELSE wire[chosen] IN
    /\ \A k \in 1..Len(given) :
          /\ given[k].link = chosen
          /\ given[k].chunk \in 1..Len(mine)
          /\ mine[given[k].chunk].text
          /\ \A j \in 1..(k - 1) : given[j].chunk < given[k].chunk
    /\ \A n \in 1..Len(mine) :
          mine[n].text => \E k \in 1..Len(given) : given[k].chunk = n

\* The outcome names the link that answered and quotes the failure just before it,
\* and the links before it, and no others, had failed before they gave anything.
OutcomeNamesItsLink ==
    /\ chosen # 0 => /\ blamed = chosen - 1
                     /\ reason = IF chosen = 1 THEN "primary" ELSE "fallback"
                     /\ failures = [l \in 1..(chosen - 1) |-> l]
    /\ chosen = 0 => /\ blamed = 0
                     /\ reason \in {"unstarted", "exhausted"}
    /\ reason = "exhausted" => failures = [l \in Link |-> l]

\* No response but that of the link the router is at is open, and none is when the
\* router is done: every one it left was read to its end or told to close.
NothingLeftOpen ==
    \A l \in Link : conn[l] = "open" => l = at /\ pc \notin {"idle", "done"}

\* The caller sees an end exactly if the response of the link that answered was
\* read to its end, and a failure exactly if it broke or every link failed, however
\* the closing of links went.
EndIsTheLinksEnd ==
    /\ result \in {"ended", "answered"} => chosen # 0 /\ conn[chosen] = "ended"
    /\ result = "failed" => /\ conn[at] = "broken"
                            /\ IF chosen = 0 THEN at = Links ELSE chosen = at

\* The last place in s where Test holds, 0 if there is none.
LastThat(s, Test(_)) ==
    CHOOSE n \in 0..Len(s) :
        /\ n # 0 => Test(s[n])
        /\ \A m \in (n + 1)..Len(s) : ~Test(s[m])

\* What the outcome reports of a stream read to its end is the last that link sent
\* of each, also when it came on a chunk without choices.
OutcomeIsWhole ==
    result = "ended" =>
        /\ usage[chosen] = LastThat(wire[chosen], LAMBDA c : c.usage)
        /\ finish[chosen] = LastThat(wire[chosen], LAMBDA c : c.finish)

\* Once a link has answered, were it with nothing, no other is opened.
AnswerIsFinal ==
    [][chosen # 0 => /\ chosen' = chosen
                     /\ \A l \in Link : conn'[l] = "open" => conn[l] = "open"]_vars

\* A call comes to an end, though links fail and closing them may hang.
EveryCallEnds == (pc # "idle") ~> (pc = "done")

\* The router keeps the promise of the interface it is called through.
phaseSeen == IF result = "pending" THEN "open" ELSE result
answeringSeen == IF chosen = 0 THEN {} ELSE {chosen}

Promise == INSTANCE LlmProvider
    WITH Source <- Link, Position <- 1..MaxChunks,
         answering <- answeringSeen, deltas <- given, phase <- phaseSeen

ImplementsProvider == Promise!ProviderSpec
================================================================================
