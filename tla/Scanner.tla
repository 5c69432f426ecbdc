------------------------------- MODULE Scanner -------------------------------
(***************************************************************************)
(* The scanner in polling mode.  A timer starts polls, also while earlier  *)
(* ones still await an answer; a poll reads the newest page of contract    *)
(* events, keeps the withdrawals from its cursor on, hands each payment of *)
(* its owner to the notification handlers, one after the other, and moves  *)
(* the cursor on.  The chain mines blocks, and may replace its last ones.  *)
(*                                                                         *)
(* An event is told apart by what the scanner makes of it: a payment to    *)
(* its owner, another withdrawal, or an event that is no withdrawal.       *)
(***************************************************************************)
EXTENDS Naturals, Sequences, SequencesExt

CONSTANTS
    PageSize,   \* 50, the limit of a request for events
    Polls,      \* bound: the polls that may be under way at once
    MaxHeight,  \* bound: the highest block
    MaxForks,   \* bound: how often the chain drops blocks
    MaxStarts   \* bound: how often the scanner starts

ASSUME ScannerAssumption ==
    /\ PageSize \in Nat \ {0}
    /\ MaxHeight \in Nat /\ MaxForks \in Nat /\ MaxStarts \in Nat

VARIABLES
    chainEvents,       \* the pool's events, newest first
    height,            \* the height of the chain
    forks,             \* how often it dropped blocks
    starts,            \* how often the scanner has started
    lastScannedBlock,  \* the cursor
    polls,             \* poll -> what it is doing
    notified,          \* payments the handlers have done with since the start
    highestSeen,       \* history: the highest block a finished poll has seen
    offPage,           \* history: payments that were not on the page of a poll
    reused             \* history: the heights of dropped blocks

chainVars == <<chainEvents, height, forks, reused>>
scannerVars == <<chainVars, starts, lastScannedBlock, polls, notified, highestSeen, offPage>>

Kinds == {"payment", "withdrawal", "other"}

Idle == [phase |-> "idle"]

\* Of a sequence of events the ones in a set, in their order.
Kept(found, event, wanted) == IF event \in wanted THEN Append(found, event) ELSE found

Filtered(events, wanted) ==
    LET filtered[i \in 0 .. Len(events)] ==
            IF i = 0 THEN <<>> ELSE Kept(filtered[i - 1], events[i], wanted)
    IN  filtered[Len(events)]

Payments(events) == Filtered(events, {event \in ToSet(events) : event.kind = "payment"})

Highest(blocks) == CHOOSE block \in blocks : \A other \in blocks : other <= block

\* The highest block a poll has seen.
MaxBlock(events) == Highest({0} \cup {event.block : event \in ToSet(events)})

-----------------------------------------------------------------------------
(***************************************************************************)
(* The chain.                                                              *)
(***************************************************************************)

\* A block with one event of the pool, or with two payments.
BlockMined ==
    /\ height < MaxHeight
    /\ height' = height + 1
    /\ \E kinds \in [{1} -> Kinds] \cup [{1, 2} -> {"payment"}] :
           chainEvents' = Reverse([i \in DOMAIN kinds |->
                              [txId |-> <<forks, height', i>>, kind |-> kinds[i],
                               block |-> height']]) \o chainEvents
    /\ UNCHANGED <<forks, reused, starts, lastScannedBlock, polls, notified, highestSeen,
                   offPage>>

\* The chain drops its last blocks, with their events.
BlocksDropped ==
    /\ forks < MaxForks
    /\ \E kept \in 0 .. height - 1 :
           /\ height' = kept
           /\ chainEvents' = Filtered(chainEvents,
                                      {event \in ToSet(chainEvents) : event.block <= kept})
           /\ reused' = reused \cup (kept + 1 .. height)
    /\ forks' = forks + 1
    /\ UNCHANGED <<starts, lastScannedBlock, polls, notified, highestSeen, offPage>>

-----------------------------------------------------------------------------
(***************************************************************************)
(* The scanner.                                                            *)
(***************************************************************************)
ScannerInit ==
    /\ chainEvents = <<>> /\ height = 0 /\ forks = 0 /\ reused = {}
    /\ starts = 1
    /\ lastScannedBlock = 0
    /\ polls = [p \in Polls |-> Idle]
    /\ notified = {} /\ highestSeen = 0 /\ offPage = {}

\* A new process: nothing of the old one is kept.  The history starts anew with it.
Restart ==
    /\ starts < MaxStarts
    /\ starts' = starts + 1
    /\ lastScannedBlock' = 0
    /\ polls' = [p \in Polls |-> Idle]
    /\ notified' = {} /\ highestSeen' = 0 /\ offPage' = {}
    /\ UNCHANGED chainVars

\* poll is called at the start and then by the interval timer, whatever polls are
\* under way.
StartPoll(p) ==
    /\ polls[p] = Idle
    /\ polls' = [polls EXCEPT ![p] = [phase |-> "asked", from |-> lastScannedBlock]]
    /\ UNCHANGED <<chainVars, starts, lastScannedBlock, notified, highestSeen, offPage>>

\* The newest events, and those of them a poll from a block on processes.  And a form
\* that leaves out the first block.
Page == SubSeq(chainEvents, 1, IF PageSize < Len(chainEvents) THEN PageSize
                               ELSE Len(chainEvents))

WithdrawalsAbove(from) ==
    Filtered(Page, {event \in ToSet(Page) : event.block > from /\ event.kind # "other"})

WithdrawalsFrom(from) ==
    Filtered(Page, {event \in ToSet(Page) : event.block >= from /\ event.kind # "other"})

\* How the cursor moves; and a form that may move it back.
CursorSet(cursor, maxBlock) == maxBlock + 1

CursorAfter(cursor, maxBlock) == IF maxBlock > cursor THEN maxBlock + 1 ELSE cursor

\* Poll p hands the next payment to the handlers, which start at once; or it moves the
\* cursor and ends.
Proceed(p, todo, maxBlock) ==
    IF todo # <<>>
    THEN /\ polls' = [polls EXCEPT ![p] = [phase |-> "notifying", todo |-> todo,
                                           attempt |-> 1, maxBlock |-> maxBlock]]
         /\ UNCHANGED <<lastScannedBlock, highestSeen>>
    ELSE /\ polls' = [polls EXCEPT ![p] = Idle]
         /\ lastScannedBlock' = CursorAfter(lastScannedBlock, maxBlock)
         /\ highestSeen' = Highest({highestSeen, maxBlock})

\* The API answers poll p.
Answered(p) ==
    /\ polls[p].phase = "asked"
    /\ LET events == WithdrawalsFrom(polls[p].from)
           due == {event \in ToSet(Payments(chainEvents)) : event.block >= polls[p].from}
       IN  /\ IF events = <<>>
              THEN /\ polls' = [polls EXCEPT ![p] = Idle]
                   /\ UNCHANGED <<lastScannedBlock, highestSeen>>
              ELSE Proceed(p, Payments(events), MaxBlock(events))
           /\ offPage' = offPage \cup
                  {event.txId : event \in due \ ToSet(Page)}
    /\ UNCHANGED <<chainVars, starts, notified>>

\* The API is not reached, or answers with an error or what is no JSON.
NotAnswered(p) ==
    /\ polls[p].phase = "asked"
    /\ polls' = [polls EXCEPT ![p] = Idle]
    /\ UNCHANGED <<chainVars, starts, lastScannedBlock, notified, highestSeen, offPage>>

\* The first try of the webhook fails: it is not received, or its answer is lost.
WebhookRetried(p) ==
    /\ polls[p].phase = "notifying"
    /\ polls[p].attempt = 1
    /\ polls' = [polls EXCEPT ![p].attempt = 2]
    /\ UNCHANGED <<chainVars, starts, lastScannedBlock, notified, highestSeen, offPage>>

\* The webhook is received and answered, or given up after the second try; the console
\* and the notifier in memory are long done.
HandlersDone(p) ==
    /\ polls[p].phase = "notifying"
    /\ notified' = notified \cup {Head(polls[p].todo).txId}
    /\ Proceed(p, Tail(polls[p].todo), polls[p].maxBlock)
    /\ UNCHANGED <<chainVars, starts, offPage>>

ScannerNext ==
    \/ BlockMined \/ BlocksDropped \/ Restart
    \/ \E p \in Polls : \/ StartPoll(p) \/ Answered(p) \/ NotAnswered(p)
                       \/ WebhookRetried(p) \/ HandlersDone(p)

ScannerSpec == ScannerInit /\ [][ScannerNext]_scannerVars

-----------------------------------------------------------------------------
(***************************************************************************)
(* Safety.                                                                 *)
(***************************************************************************)
\* What a payment that is not notified is excused by: it was not on the page of a poll
\* that was due to process it, or a block was dropped at its height.
Arrived(event) == event.txId \in notified \cup offPage \/ event.block \in reused

\* Whatever polls overlap and in whatever order they end, the cursor is never below the
\* highest block a finished poll has seen, never goes back, and passes no payment that the
\* handlers have not done with; only a full page, or a block mined where another had been,
\* can hide one.
CursorPlaced ==
    /\ []( /\ highestSeen <= lastScannedBlock
           /\ \A event \in ToSet(Payments(chainEvents)) :
                  event.block < lastScannedBlock => Arrived(event))
    /\ [][starts' = starts => lastScannedBlock' >= lastScannedBlock]_scannerVars

\* After a poll the cursor is past the highest block seen, so that no payment is notified
\* again and again: "Advance the scan cursor past the highest block we've seen", says
\* index.ts:262.  A block at the cursor itself does not move it.
CursorPastSeen == highestSeen > 0 => highestSeen < lastScannedBlock

-----------------------------------------------------------------------------
(***************************************************************************)
(* Liveness.  The timer starts polls, the API answers now and then, and a  *)
(* webhook's request succeeds or fails; restarts end, MaxStarts.           *)
(***************************************************************************)
ScannerFairness ==
    \A p \in Polls :
        /\ WF_scannerVars(StartPoll(p))
        /\ SF_scannerVars(Answered(p))
        /\ WF_scannerVars(WebhookRetried(p) \/ HandlersDone(p))

FairScannerSpec == ScannerSpec /\ ScannerFairness

\* Time and again every payment on the chain is notified or excused.
PaymentsArrive == []<>(\A event \in ToSet(Payments(chainEvents)) : Arrived(event))
=============================================================================
