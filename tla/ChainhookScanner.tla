--------------------------- MODULE ChainhookScanner ---------------------------
(***************************************************************************)
(* The scanner in chainhook mode.  Chainhook posts the blocks the chain    *)
(* applies, in their order, and posts a payload again until the scanner    *)
(* has answered it.  The scanner hands every payment of a payload to the   *)
(* notification handlers, one after the other, and then answers; requests  *)
(* overlap when Chainhook does not wait for an answer any longer.          *)
(*                                                                         *)
(* A payload is told apart by the payments to the owner among its events.  *)
(* Blocks a payload rolls back are not read by the scanner.                *)
(***************************************************************************)
EXTENDS Naturals, Sequences, SequencesExt, FiniteSets

CONSTANTS
    PaymentTxs,  \* transactions that pay the owner
    Requests,    \* bound: requests the scanner handles at once
    MaxBlocks,   \* bound: blocks applied over the run
    MaxGivenUp,  \* bound: answers Chainhook does not wait for
    MaxExits     \* bound: how often the scanner's process ends

ASSUME ChainhookAssumption ==
    /\ IsFiniteSet(PaymentTxs)
    /\ {MaxBlocks, MaxGivenUp, MaxExits} \subseteq Nat

VARIABLES
    tipTxs,        \* payments in the last block, which the chain may replace
    olderTxs,      \* and in the blocks below
    blocksApplied, \* how many blocks were applied
    toPost,        \* payloads Chainhook has no answer to, oldest first
    requests,      \* request -> what its handler is doing
    givenUp,       \* how many answers Chainhook did not wait for
    receiver,      \* the scanner: up, stopping, or down
    exits,         \* how often its process ended
    inMemory,      \* InMemoryNotifier: txId -> acknowledged
    toldTxs,       \* history: payments the handlers have done with
    answeredTxs    \* history: payments of payloads the scanner has answered

hookChainVars == <<tipTxs, olderTxs, blocksApplied>>

chainhookVars == <<hookChainVars, toPost, requests, givenUp, receiver, exits, inMemory,
                   toldTxs, answeredTxs>>

Free == [phase |-> "free"]

AllFree == [r \in Requests |-> Free]

Awaited(r) == requests[r] # Free /\ requests[r].awaited

ChainhookInit ==
    /\ tipTxs = {} /\ olderTxs = {} /\ blocksApplied = 0
    /\ toPost = <<>> /\ requests = AllFree /\ givenUp = 0
    /\ receiver = "up" /\ exits = 0
    /\ inMemory = <<>> /\ toldTxs = {} /\ answeredTxs = {}

-----------------------------------------------------------------------------
(***************************************************************************)
(* The chain and Chainhook.                                                *)
(***************************************************************************)

\* A block is applied on the last one, or in its place.
BlockApplied ==
    /\ blocksApplied < MaxBlocks
    /\ blocksApplied' = blocksApplied + 1
    /\ olderTxs' \in {olderTxs, olderTxs \cup tipTxs}
    /\ \E txs \in SUBSET (PaymentTxs \ olderTxs') :
           /\ tipTxs' = txs
           /\ toPost' = Append(toPost, txs)
    /\ UNCHANGED <<requests, givenUp, receiver, exits, inMemory, toldTxs, answeredTxs>>

\* The oldest payload is posted, when no answer is awaited.  The handler parses it, and
\* finds the payments in it, in their order.
Posted(r) ==
    /\ receiver = "up" /\ toPost # <<>>
    /\ requests[r] = Free /\ \A other \in Requests : ~Awaited(other)
    /\ \E todo \in SetToSeqs(Head(toPost)) :
           requests' = [requests EXCEPT ![r] =
                           [phase |-> "notifying", todo |-> todo, payload |-> Head(toPost),
                            awaited |-> TRUE]]
    /\ UNCHANGED <<hookChainVars, toPost, givenUp, receiver, exits, inMemory, toldTxs,
                   answeredTxs>>

\* Chainhook waits no longer; the handler goes on.
GivenUp(r) ==
    /\ Awaited(r) /\ givenUp < MaxGivenUp
    /\ givenUp' = givenUp + 1
    /\ requests' = [requests EXCEPT ![r].awaited = FALSE]
    /\ UNCHANGED <<hookChainVars, toPost, receiver, exits, inMemory, toldTxs, answeredTxs>>

-----------------------------------------------------------------------------
(***************************************************************************)
(* The scanner.                                                            *)
(***************************************************************************)

\* The handlers have done with a payment, the webhook received or given up: what is left
\* to do; and a form that leaves the rest.
NothingLeft(todo) == <<>>

LeftAfter(todo) == Tail(todo)

PaymentHandled(r) ==
    /\ requests[r] # Free /\ requests[r].todo # <<>>
    /\ LET tx == Head(requests[r].todo)
       IN  /\ inMemory' = [other \in DOMAIN inMemory \cup {tx} |->
                              IF other = tx THEN FALSE ELSE inMemory[other]]
           /\ toldTxs' = toldTxs \cup {tx}
    /\ requests' = [requests EXCEPT ![r].todo = LeftAfter(@)]
    /\ UNCHANGED <<hookChainVars, toPost, givenUp, receiver, exits, answeredTxs>>

\* The request is answered, and the answer reaches Chainhook if it still waits.
PayloadAnswered(r) ==
    /\ requests[r] # Free /\ requests[r].todo = <<>>
    /\ requests' = [requests EXCEPT ![r] = Free]
    /\ answeredTxs' = answeredTxs \cup requests[r].payload
    /\ toPost' = IF requests[r].awaited THEN Tail(toPost) ELSE toPost
    /\ UNCHANGED <<hookChainVars, givenUp, receiver, exits, inMemory, toldTxs>>

\* The embedding program acknowledges a payment.
Acknowledge(tx) ==
    /\ tx \in DOMAIN inMemory /\ ~inMemory[tx]
    /\ inMemory' = [inMemory EXCEPT ![tx] = TRUE]
    /\ UNCHANGED <<hookChainVars, toPost, requests, givenUp, receiver, exits, toldTxs,
                   answeredTxs>>

\* stop: no new connection is taken; the process ends when the open ones have.
Stop ==
    /\ receiver = "up" /\ exits < MaxExits
    /\ receiver' = "stopping"
    /\ UNCHANGED <<hookChainVars, toPost, requests, givenUp, exits, inMemory, toldTxs,
                   answeredTxs>>

ProcessEnds ==
    /\ exits' = exits + 1
    /\ receiver' = "down" /\ requests' = AllFree /\ inMemory' = <<>>
    /\ UNCHANGED <<hookChainVars, toPost, givenUp, toldTxs, answeredTxs>>

StopEnds == receiver = "stopping" /\ requests = AllFree /\ ProcessEnds

CrashEnds == receiver # "down" /\ exits < MaxExits /\ ProcessEnds

StartAgain ==
    /\ receiver = "down"
    /\ receiver' = "up"
    /\ UNCHANGED <<hookChainVars, toPost, requests, givenUp, exits, inMemory, toldTxs,
                   answeredTxs>>

ChainhookNext ==
    \/ BlockApplied \/ Stop \/ StopEnds \/ CrashEnds \/ StartAgain
    \/ \E tx \in PaymentTxs : Acknowledge(tx)
    \/ \E r \in Requests : \/ Posted(r) \/ GivenUp(r)
                           \/ PaymentHandled(r) \/ PayloadAnswered(r)

ChainhookSpec == ChainhookInit /\ [][ChainhookNext]_chainhookVars

-----------------------------------------------------------------------------
\* A payload that was answered is never posted again, so by then the handlers have done
\* with every payment in it, whatever requests overlap, stop and crash.
AnsweredTold == answeredTxs \subseteq toldTxs

\* Payments of the chain that were not told are in a payload Chainhook will post.
NothingLost ==
    \A tx \in (olderTxs \cup tipTxs) \ toldTxs : \E i \in DOMAIN toPost : tx \in toPost[i]

\* The payments of blocks that can no more be replaced are told in the end, over crashes
\* and requests given up, because Chainhook posts what was not answered; and until then
\* none is lost.
PaymentsTold ==
    /\ [](AnsweredTold /\ NothingLost)
    /\ []<>(olderTxs \subseteq toldTxs)

ChainhookFairness ==
    /\ WF_chainhookVars(StartAgain)
    /\ WF_chainhookVars(StopEnds)
    /\ \A r \in Requests :
           /\ WF_chainhookVars(PaymentHandled(r))
           /\ WF_chainhookVars(Posted(r))
           /\ WF_chainhookVars(PayloadAnswered(r))

FairChainhookSpec == ChainhookSpec /\ ChainhookFairness
=============================================================================
