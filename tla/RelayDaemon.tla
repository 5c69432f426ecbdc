----------------------------- MODULE RelayDaemon -----------------------------
(***************************************************************************)
(* The relay daemon: clients post deposits and withdrawals, a timer hands  *)
(* the first pending item to the submitter, and the submission's outcome   *)
(* is recorded when the node's answer arrives.  Requests are served while  *)
(* a submission is awaited.  The process may crash at any moment, also     *)
(* while it writes the queue file, may be told to stop, and is started     *)
(* again.                                                                  *)
(*                                                                         *)
(* History variables remember how often the node took a transaction of an  *)
(* item, how many process ends may explain taking it again, and which      *)
(* accepted items a start did not find in the file.                        *)
(***************************************************************************)
EXTENDS RelayQueue

CONSTANTS
    NoTimer, NoItem,        \* no timer set, no submission awaited
    OfferedFees,            \* relayerFee values clients offer
    BaseFee,                \* feeConfig.baseFee
    PercentageFee,          \* floor of feePercentage * POOL_DENOMINATION
    MaxFee,                 \* feeConfig.maxFee
    SurchargeDepth,         \* 5: the depth from which each item costs a surcharge
    BatchDelay,             \* batchDelayMs, in steps of the clock
    MaxEnds                 \* bound: how often the process ends

ASSUME RelayAssumption ==
    /\ NoTimer \notin Nat /\ NoItem \notin Nat
    /\ OfferedFees \subseteq Nat
    /\ BaseFee \in Nat /\ PercentageFee \in Nat /\ MaxFee \in Nat
    /\ SurchargeDepth \in Nat /\ BatchDelay \in Nat /\ MaxEnds \in Nat

VARIABLES
    running,        \* the process is up
    stopping,       \* shutdown has been called
    timer,          \* steps until processorTimer fires, or NoTimer
    inFlight,       \* the item processNext has peeked and awaits, or NoItem
    handedOver,     \* the node has taken the transaction of inFlight
    sinceBroadcast, \* steps since the node last took a transaction, up to BatchDelay
    quote,          \* the last fee told to a client, and the depth it was told at
    ends,           \* how often the process has ended
    freshStart,     \* no transaction was taken since the process started
    broadcasts,     \* item id -> times the node took a transaction of the item
    excuses,        \* item id -> process ends that may lead to another one
    forgotten       \* accepted ids that a start did not find in the file

daemonVars == <<running, stopping, timer, inFlight, handedOver>>
clockVars == <<sinceBroadcast, freshStart>>
historyVars == <<ends, broadcasts, excuses, forgotten>>

vars == <<queueVars, daemonVars, clockVars, quote, historyVars>>

-----------------------------------------------------------------------------
(***************************************************************************)
(* FeeManager.                                                             *)
(***************************************************************************)
Larger(a, b) == IF a >= b THEN a ELSE b

Capped(fee) == IF fee > MaxFee THEN MaxFee ELSE fee

Surcharge(depth) ==
    IF depth > SurchargeDepth THEN (BaseFee * (depth - SurchargeDepth)) \div 10 ELSE 0

\* getCurrentFee, and a form that caps the fee before the surcharge.
CappedBeforeSurcharge(depth) == Capped(Larger(BaseFee, PercentageFee)) + Surcharge(depth)

CurrentFee(depth) == Capped(Larger(BaseFee, PercentageFee) + Surcharge(depth))

-----------------------------------------------------------------------------
(***************************************************************************)
(* The process.                                                            *)
(***************************************************************************)
Init ==
    /\ items = <<>> /\ file = <<>> /\ drawnIds = 0
    /\ running = FALSE /\ stopping = FALSE
    /\ timer = NoTimer /\ inFlight = NoItem /\ handedOver = FALSE
    /\ sinceBroadcast = BatchDelay
    /\ quote = [fee |-> CurrentFee(0), depth |-> 0]
    /\ ends = 0 /\ freshStart = TRUE
    /\ broadcasts = [id \in ItemIds |-> 0]
    /\ excuses = [id \in ItemIds |-> 0]
    /\ forgotten = {}
    /\ written = TRUE

\* The process starts: the constructor of the queue restores it, and startProcessor
\* sets the first timer to 0.
Start ==
    /\ ~running
    /\ running' = TRUE
    /\ items' = Restored
    /\ timer' = 0
    /\ freshStart' = TRUE
    /\ forgotten' = forgotten \cup ((0 .. drawnIds - 1) \ Ids(Restored))
    /\ written' = (file # Unreadable)
    /\ UNCHANGED <<file, drawnIds, stopping, inFlight, handedOver, sinceBroadcast,
                   quote, ends, broadcasts, excuses>>

\* POST /api/v1/deposit.
PostDeposit ==
    /\ running
    /\ Enqueue
    /\ UNCHANGED <<daemonVars, clockVars, quote, historyVars>>

\* POST /api/v1/withdraw; a fee below the current one is refused.
PostWithdrawal ==
    /\ running
    /\ \E fee \in OfferedFees : fee >= CurrentFee(PendingCount)
    /\ Enqueue
    /\ UNCHANGED <<daemonVars, clockVars, quote, historyVars>>

\* GET /api/v1/info, GET /api/v1/status, or a refused withdrawal.
TellFee ==
    /\ running
    /\ quote' = [fee |-> CurrentFee(PendingCount), depth |-> PendingCount]
    /\ UNCHANGED <<queueVars, daemonVars, clockVars, historyVars>>

\* The timer fires and finds an item, which the submitter is given; or finds none
\* and is set again.
Tick ==
    /\ running
    /\ timer = 0
    /\ IF PendingIn(items) = {}
       THEN timer' = BatchDelay /\ UNCHANGED inFlight
       ELSE timer' = NoTimer /\ inFlight' = items[PeekNext].id
    /\ UNCHANGED <<queueVars, running, stopping, handedOver, clockVars, quote,
                   historyVars>>

\* The node takes the transaction of the item in flight.
NodeTakes ==
    /\ running
    /\ inFlight # NoItem
    /\ ~handedOver
    /\ handedOver' = TRUE
    /\ broadcasts' = [broadcasts EXCEPT ![inFlight] = @ + 1]
    /\ sinceBroadcast' = 0
    /\ freshStart' = FALSE
    /\ UNCHANGED <<queueVars, running, stopping, timer, inFlight, quote,
                   ends, excuses, forgotten>>

\* The rest of processNext once the submitter is done, and the next timer.  The
\* alternatives set no delay, or set the timer only after a success.
NoDelay(status) == 0

TimerOnSuccess(status) == IF status = "submitted" THEN BatchDelay ELSE timer

TimerAfter(status) == BatchDelay

Finish(status) ==
    /\ Mark(inFlight, status)
    /\ inFlight' = NoItem
    /\ handedOver' = FALSE
    /\ timer' = TimerAfter(status)
    /\ UNCHANGED <<running, stopping, clockVars, quote, historyVars>>

\* The node's answer arrives and is a transaction id.
Submitted ==
    /\ running
    /\ inFlight # NoItem /\ handedOver
    /\ Finish("submitted")

\* The submitter throws: the transaction cannot be built, the node rejects it or is
\* not reached, or the answer of a node that took it is lost.  And a form that takes
\* the answer of the node for a success unread.
AnswerUnread ==
    /\ running
    /\ inFlight # NoItem
    /\ Finish("submitted")

SubmissionFails ==
    /\ running
    /\ inFlight # NoItem
    /\ Finish("failed")

\* SIGTERM or SIGINT, perhaps again.  clearTimeout stops the timer, but a submission
\* under way sets it again; meanwhile open connections are still served.
Shutdown ==
    /\ running
    /\ ends < MaxEnds
    /\ stopping' = TRUE
    /\ timer' = NoTimer
    /\ UNCHANGED <<queueVars, running, inFlight, handedOver, clockVars, quote,
                   historyVars>>

\* The memory of the process is gone.
Ends ==
    /\ running
    /\ ends < MaxEnds
    /\ ends' = ends + 1
    /\ running' = FALSE /\ stopping' = FALSE
    /\ timer' = NoTimer /\ inFlight' = NoItem /\ handedOver' = FALSE
    /\ items' = <<>>
    /\ excuses' = [id \in ItemIds |->
                      IF inFlight = id \/ ~written THEN excuses[id] + 1 ELSE excuses[id]]
    /\ UNCHANGED <<drawnIds, clockVars, quote, broadcasts, forgotten>>

\* process.exit, once connections are closed or after ten seconds.
Exit ==
    /\ stopping
    /\ Ends
    /\ UNCHANGED <<file, written>>

\* A crash, at rest or in the midst of a write.
Crash ==
    /\ Ends
    /\ file' \in {file, Unreadable}
    /\ written' = (written /\ file' = file)

\* Time passes, for the timer and since the last broadcast.
Clock ==
    /\ timer \in 1 .. BatchDelay \/ sinceBroadcast < BatchDelay
    /\ timer' = IF timer \in 1 .. BatchDelay THEN timer - 1 ELSE timer
    /\ sinceBroadcast' = IF sinceBroadcast < BatchDelay THEN sinceBroadcast + 1
                         ELSE sinceBroadcast
    /\ UNCHANGED <<queueVars, running, stopping, inFlight, handedOver, quote,
                   freshStart, historyVars>>

Next ==
    \/ Start \/ PostDeposit \/ PostWithdrawal \/ TellFee
    \/ Tick \/ NodeTakes \/ Submitted \/ SubmissionFails
    \/ Shutdown \/ Exit \/ Crash \/ Clock

Spec == Init /\ [][Next]_vars

-----------------------------------------------------------------------------
(***************************************************************************)
(* Safety.                                                                 *)
(***************************************************************************)
\* The file keeps up with the queue: unless the last write failed, it holds the
\* queue of a running process, and nothing a client was told is accepted is missing
\* from it but what an earlier failure lost.  One good write repairs all bad ones.
FileKeepsUp ==
    written =>
        /\ running => file = items
        /\ file # Unreadable
        /\ (0 .. drawnIds - 1) \ forgotten = Ids(file)

\* The node gets an item a second time only if the process ended while the item was
\* awaited, or while the file was behind; never because of a second tick, another
\* request, a failed submission or a shutdown.
RebroadcastsExplained ==
    \A id \in ItemIds : broadcasts[id] <= 1 + excuses[id]

\* What the relay says of an item is true of the node: a submitted item was taken,
\* and a pending one was not, unless it is in flight or the process ended badly.
StatusTruthful ==
    \A i \in DOMAIN items :
        LET id == items[i].id
        IN  /\ items[i].status = "submitted" => broadcasts[id] > 0
            /\ items[i].status = "pending" /\ broadcasts[id] > 0 =>
                   \/ inFlight = id
                   \/ excuses[id] > 0

\* Transactions go out in the order their items were accepted, and, as config.ts says of
\* batchDelayMs, with a "Minimum delay (ms) between successive transaction broadcasts",
\* as long as the process is not started in between.
SentInTurn ==
    [][\A i \in DOMAIN items : broadcasts'[items[i].id] # broadcasts[items[i].id] =>
           /\ freshStart \/ sinceBroadcast = BatchDelay
           /\ i \in PendingIn(items) /\ \A j \in PendingIn(items) : i <= j]_vars

\* A client that offers the fee it was told is refused only if the queue has grown
\* since, and no fee it is told exceeds the configured maximum.
QuoteHolds ==
    /\ PendingCount <= quote.depth => quote.fee >= CurrentFee(PendingCount)
    /\ quote.fee <= MaxFee

-----------------------------------------------------------------------------
(***************************************************************************)
(* Liveness.  Timers fire, a fetch answers or fails, a process told to     *)
(* stop exits, and someone starts the process again.                       *)
(***************************************************************************)
Fairness ==
    /\ WF_vars(Start) /\ WF_vars(Tick) /\ WF_vars(Clock) /\ WF_vars(Exit)
    /\ WF_vars(Submitted \/ SubmissionFails)

FairSpec == Spec /\ Fairness

\* Time and again every item accepted so far has been handed to the submitter and
\* its outcome is recorded, unless a bad write made the process forget it.
ItemsSettle ==
    []<>(\A id \in 0 .. drawnIds - 1 :
            \/ id \in forgotten
            \/ running /\ id \in Ids(items) /\ StatusOf(items, id) # "pending")
=============================================================================
