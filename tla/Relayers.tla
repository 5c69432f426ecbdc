-------------------------------- MODULE Relayers --------------------------------
(***************************************************************************)
(* The SDK's RelayerRegistry and FailoverRelayerClient: a cache of what    *)
(* relayers answered to probes, and submissions that refresh the cache,    *)
(* rank the healthy relayers and ask them one after the other.  Calls of   *)
(* one client overlap at every await.                                      *)
(*                                                                         *)
(* A relayer may answer a request in any way at any time.  How old a cache *)
(* entry is counts only against the five minutes of refreshStale; a probe  *)
(* takes less.  What relayers cost and how fast they answer is left out:   *)
(* healthy relayers rank in any order.                                     *)
(***************************************************************************)
EXTENDS Naturals, Sequences, SequencesExt, FiniteSets, FiniteSetsExt

CONSTANTS
    Urls,            \* relayers, their URLs normalised
    InitialUrls,     \* those the client is constructed with
    MaxRetries,      \* options.maxRetries
    Operations,      \* deposits and withdrawals to submit
    Callers,         \* bound: calls of the client under way at once
    MaxSubmissions,  \* bound: how often an operation is submitted
    MaxRemovals      \* bound: how often a relayer is removed

ASSUME RelayersAssumption ==
    /\ IsFiniteSet(Urls) /\ InitialUrls \subseteq Urls
    /\ "registry" \notin Operations
    /\ MaxRetries \in Nat /\ MaxSubmissions \in Nat /\ MaxRemovals \in Nat

VARIABLES
    registry,     \* url -> what is known of the relayer
    stale,        \* urls in the registry last checked over five minutes ago
    clientCalls,  \* caller -> its call
    accepted,     \* url -> operation -> how often the relayer has queued it
    submissions,  \* operation -> how often it was submitted
    removals,     \* how often removeRelayer was called
    lostAnswers   \* history: operation -> answers of relayers that took it, lost

relayerVars == <<registry, stale, clientCalls, accepted, submissions, removals, lostAnswers>>

\* A call that probes urls, and such a call of a submission.  There current and absent are
\* history: the relayers it found healthy or other calls wrote since it began, and those
\* unknown when it began.
Probing(purpose, urls) ==
    [phase |-> "probing", purpose |-> purpose, probes |-> [u \in urls |-> "asked"]]

ProbedNow == UNION {DOMAIN clientCalls[c].probes :
                       c \in {d \in Callers : clientCalls[d].phase = "probing"}}

Refreshing(op, urls) ==
    [phase |-> "probing", purpose |-> op, probes |-> [u \in urls |-> "asked"],
     again |-> FALSE, current |-> {}, absent |-> Urls \ (DOMAIN registry \cup ProbedNow)]

NoCall == [phase |-> "none"]

IsSubmission(call) == call.phase # "none" /\ call.purpose \in Operations

Settled(call) ==
    call.phase = "probing" /\ \A u \in DOMAIN call.probes : call.probes[u] # "asked"

\* Every await of one caller leaves the other callers' calls where they are.
CallBecomes(c, call) == clientCalls' = [clientCalls EXCEPT ![c] = call]

-----------------------------------------------------------------------------
(***************************************************************************)
(* RelayerRegistry.                                                        *)
(***************************************************************************)
RelayersInit ==
    /\ registry = [u \in InitialUrls |-> "unhealthy"]
    /\ stale = InitialUrls
    /\ clientCalls = [c \in Callers |-> NoCall]
    /\ accepted = [u \in Urls |-> [op \in Operations |-> 0]]
    /\ submissions = [op \in Operations |-> 0]
    /\ removals = 0
    /\ lostAnswers = [op \in Operations |-> 0]

\* refreshAll, addRelayer, and refreshStale for getBestRelayer or getHealthyRelayers.
Probe(c) ==
    /\ clientCalls[c] = NoCall
    /\ \E urls \in {DOMAIN registry, stale} \cup {{u} : u \in Urls} :
           /\ urls # {}
           /\ CallBecomes(c, Probing("registry", urls))
    /\ UNCHANGED <<registry, stale, accepted, submissions, removals, lostAnswers>>

RemoveRelayer ==
    /\ removals < MaxRemovals
    /\ removals' = removals + 1
    /\ \E u \in DOMAIN registry :
           /\ registry' = [v \in DOMAIN registry \ {u} |-> registry[v]]
           /\ stale' = stale \ {u}
    /\ UNCHANGED <<clientCalls, accepted, submissions, lostAnswers>>

FiveMinutesPass ==
    /\ stale # DOMAIN registry
    /\ stale' = DOMAIN registry
    /\ UNCHANGED <<registry, clientCalls, accepted, submissions, removals, lostAnswers>>

\* probeRelayer of one url: the relayer answers /info and then /health, or one of the
\* requests fails, times out, or gets an answer of the wrong form.  Nothing is written in
\* between.
ProbeAnswered(c, u) ==
    /\ clientCalls[c].phase = "probing" /\ u \in DOMAIN clientCalls[c].probes
    /\ clientCalls[c].probes[u] = "asked"
    /\ \E info \in {"healthy", "unhealthy"} :
           clientCalls' = [clientCalls EXCEPT ![c].probes[u] = info]
    /\ UNCHANGED <<registry, stale, accepted, submissions, removals, lostAnswers>>

\* getHealthyFromCache; of its order, by fee and latency, nothing depends.
HealthyUrls(cache) == {u \in DOMAIN cache : cache[u] = "healthy"}

Rankings(cache) == SetToSeqs(HealthyUrls(cache))

\* The probes of a call are done: their results go into the registry, whatever became of
\* it meanwhile; other calls remember that for the history.
WithResults(cache, results) ==
    [u \in DOMAIN cache \cup DOMAIN results |->
        IF u \in DOMAIN results THEN results[u] ELSE cache[u]]

Shared(c, probes) ==
    [d \in Callers |->
        IF d # c /\ clientCalls[d].phase = "probing" /\ IsSubmission(clientCalls[d])
        THEN [clientCalls[d] EXCEPT !.current = @ \cup DOMAIN probes,
                                    !.absent = @ \ DOMAIN probes]
        ELSE clientCalls[d]]

ProbesSettle(c) ==
    /\ Settled(clientCalls[c])
    /\ clientCalls[c].purpose \notin Operations
    /\ LET probes == clientCalls[c].probes
       IN  /\ registry' = WithResults(registry, probes)
           /\ stale' = stale \ DOMAIN probes
           /\ clientCalls' = [Shared(c, probes) EXCEPT ![c] = NoCall]
    /\ UNCHANGED <<accepted, submissions, removals, lostAnswers>>

-----------------------------------------------------------------------------
(***************************************************************************)
(* FailoverRelayerClient.                                                  *)
(***************************************************************************)

\* submitDeposit or submitWithdrawal: refreshAll first; and a form that trusts the registry
\* but for its stale entries.
BeginsWithStale == stale

BeginsWith == DOMAIN registry

Submit(c, op) ==
    /\ clientCalls[c] = NoCall
    /\ submissions[op] < MaxSubmissions
    /\ submissions' = [submissions EXCEPT ![op] = @ + 1]
    /\ CallBecomes(c, Refreshing(op, BeginsWith))
    /\ UNCHANGED <<registry, stale, accepted, removals, lostAnswers>>

\* tryWithFailover goes on: entries that are stale by now are probed once more; then the
\* relayers are ranked and the first MaxRetries are to be asked, if there are any.
FirstOf(ranked) ==
    SubSeq(ranked, 1, IF Len(ranked) < MaxRetries THEN Len(ranked) ELSE MaxRetries)

Walk(call, ranked) ==
    IF FirstOf(ranked) = <<>> THEN NoCall
    ELSE [phase |-> "asking", purpose |-> call.purpose, todo |-> FirstOf(ranked),
          current |-> call.current \cap ToSet(ranked),
          absent |-> call.absent \cap ToSet(ranked)]

RefreshSettles(c) ==
    /\ Settled(clientCalls[c])
    /\ clientCalls[c].purpose \in Operations
    /\ LET probes == clientCalls[c].probes
           call == [clientCalls[c] EXCEPT !.current = @ \cup HealthyUrls(probes)]
           nowStale == stale \ DOMAIN probes
       IN  /\ registry' = WithResults(registry, probes)
           /\ stale' = nowStale
           /\ IF nowStale # {} /\ ~call.again
              THEN clientCalls' = [Shared(c, probes) EXCEPT ![c] =
                       [call EXCEPT !.probes = [u \in nowStale |-> "asked"],
                                    !.again = TRUE]]
              ELSE \E ranked \in Rankings(registry') :
                       clientCalls' = [Shared(c, probes) EXCEPT ![c] =
                                           Walk(call, ranked)]
    /\ UNCHANGED <<accepted, submissions, removals, lostAnswers>>

\* The next relayer on the list is asked after a failure; and a form that asks the same
\* again.
AskSame(call) == IF Len(call.todo) = 1 THEN NoCall ELSE call

AskNext(call) ==
    IF Len(call.todo) = 1 THEN NoCall ELSE [call EXCEPT !.todo = Tail(@)]

\* The answer of a relayer that took an operation, and what the client's schema takes for
\* a success: RelayerClient parses a txId.
AcceptedAnswer == [id |-> "an item of the relayer's queue"]

Understood(answer) == "txId" \in DOMAIN answer

\* The relayer queues the operation; its answer arrives or is lost.
RelayerTakes(c) ==
    /\ clientCalls[c].phase = "asking"
    /\ LET call == clientCalls[c]
       IN  /\ accepted' = [accepted EXCEPT ![Head(call.todo)][call.purpose] = @ + 1]
           /\ \/ /\ CallBecomes(c, IF Understood(AcceptedAnswer) THEN NoCall
                                   ELSE AskNext(call))
                 /\ UNCHANGED lostAnswers
              \/ /\ CallBecomes(c, AskNext(call))
                 /\ lostAnswers' = [lostAnswers EXCEPT ![call.purpose] = @ + 1]
    /\ UNCHANGED <<registry, stale, submissions, removals>>

\* The relayer refuses the operation, or its fee, or is not reached.
RelayerFails(c) ==
    /\ clientCalls[c].phase = "asking"
    /\ CallBecomes(c, AskNext(clientCalls[c]))
    /\ UNCHANGED <<registry, stale, accepted, submissions, removals, lostAnswers>>

RelayersNext ==
    \/ \E c \in Callers : \/ Probe(c)
                         \/ \E u \in Urls : ProbeAnswered(c, u)
                         \/ ProbesSettle(c)
                         \/ \E op \in Operations : Submit(c, op)
                         \/ RefreshSettles(c)
                         \/ RelayerTakes(c) \/ RelayerFails(c)
    \/ RemoveRelayer
    \/ FiveMinutesPass

RelayersSpec == RelayersInit /\ [][RelayersNext]_relayerVars

-----------------------------------------------------------------------------
(***************************************************************************)
(* Safety.                                                                 *)
(***************************************************************************)
Asking(c) == clientCalls[c].phase = "asking"

\* "The registry is refreshed once at the start of each call to ensure the health/rank data
\* is current", failover-client.ts:143: a relayer that is asked was found healthy by this
\* very submission, or written by a call that overlapped it, never taken from an old entry.
\* And none is asked that was neither registered nor being probed when the submission began,
\* unless such a call wrote it: a removal takes effect once the probes under way have ended.
AskedAreCurrent ==
    \A c \in Callers : Asking(c) =>
        /\ ToSet(clientCalls[c].todo) \subseteq clientCalls[c].current
        /\ ToSet(clientCalls[c].todo) \cap clientCalls[c].absent = {}

Copies(op) == MapThenSumSet(LAMBDA u : accepted[u][op], Urls)

\* "the client walks down the ranked list until one succeeds", failover-client.ts:6: a
\* submission leaves its operation with one relayer, and with another only if an answer was
\* lost.  But what a relayer answers on success is not what the client takes for one.
StopsAtSuccess ==
    \A op \in Operations : Copies(op) <= submissions[op] + lostAnswers[op]

-----------------------------------------------------------------------------
(***************************************************************************)
(* Liveness: a request is answered, or fails at its timeout or at the      *)
(* limit the runtime sets.                                                 *)
(***************************************************************************)
RelayersFairness ==
    \A c \in Callers :
        /\ WF_relayerVars(ProbesSettle(c) \/ RefreshSettles(c))
        /\ WF_relayerVars(RelayerTakes(c) \/ RelayerFails(c))
        /\ \A u \in Urls : WF_relayerVars(ProbeAnswered(c, u))

FairRelayersSpec == RelayersSpec /\ RelayersFairness

\* Every submission ends, with an answer or AllRelayersFailedError, and reaches each relayer
\* at most once on its way, however relayers are removed, added or probed again, answers
\* lost, and entries become stale meanwhile.
SubmissionsEnd ==
    /\ [](\A op \in Operations, u \in Urls : accepted[u][op] <= submissions[op])
    /\ \A c \in Callers : []<>(~IsSubmission(clientCalls[c]))
=============================================================================
