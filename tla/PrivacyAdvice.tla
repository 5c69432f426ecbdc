----------------------------- MODULE PrivacyAdvice -----------------------------
(***************************************************************************)
(* The SDK's advice on when to deposit and when to withdraw: pool-stats    *)
(* reads the counts of the pool, in requests that run at the same time     *)
(* while the pool moves on; score.ts rates a withdrawal now; timing.ts     *)
(* tells how long a funded address should wait before its deposit.         *)
(*                                                                         *)
(* Heights and transfers are counted from the block of the user's funding, *)
(* or deposit.  Scores are rounded down.  What pool-stats reads and only   *)
(* passes on (balance, last blocks, the age made of them) is left out.     *)
(***************************************************************************)
EXTENDS Integers, FiniteSetsExt

CONSTANTS
    Capacity,                 \* MAX_LEAVES
    AvgBlockTimeMs,           \* AVG_BLOCK_TIME_MS
    BlocksPerDay,             \* BLOCKS_PER_DAY
    MinInterveningTransfers,  \* the TimingConfig in use
    MinDelayMs,
    MaxDelayMs,
    JitterMs,
    Counts,                   \* bound: numbers of deposits and of withdrawals
    Heights,                  \* bound: heights
    TransferCounts,           \* bound: numbers of transfers
    MaxFetches                \* bound: calls of fetchPoolStats over the run

ASSUME PrivacyAdviceAssumption ==
    /\ {Capacity, AvgBlockTimeMs, BlocksPerDay} \subseteq Nat \ {0}
    /\ {MinInterveningTransfers, MinDelayMs, MaxDelayMs, JitterMs, MaxFetches} \subseteq Nat
    /\ Counts \cup Heights \cup TransferCounts \subseteq Nat
    /\ 0 \in Counts \cap Heights \cap TransferCounts

VARIABLES
    sinceFunding,  \* blocks since the funding
    transfers,     \* transfers since the funding
    pool,          \* deposits and withdrawals ever made
    fetch,         \* the call of fetchPoolStats under way: the pool it began with and
                   \* what it has read, or NoFetch
    fetches,       \* how often it was called
    setSize,       \* anonymitySetSize it returned last, or none
    toldToWait     \* until when timing.ts told the user to wait, or 0

adviceVars == <<sinceFunding, transfers, pool, fetch, fetches, setSize, toldToWait>>

NoFetch == [reads |-> {}]

Reads == {"deposits", "withdrawals"}

CeilDiv(a, b) == (a + b - 1) \div b

-----------------------------------------------------------------------------
(***************************************************************************)
(* timing.ts.                                                              *)
(***************************************************************************)
Elapsed(blocks) == blocks * AvgBlockTimeMs

\* shouldDeposit.
ShouldDeposit(blocks, seen) ==
    \/ Elapsed(blocks) >= MaxDelayMs
    \/ seen >= MinInterveningTransfers /\ Elapsed(blocks) >= MinDelayMs

\* Its estimate when the minimum delay alone is missing; and a form rounded down.
RoundedDown(blocks) == (MinDelayMs - Elapsed(blocks)) \div AvgBlockTimeMs

BlocksRemaining(blocks) == CeilDiv(MinDelayMs - Elapsed(blocks), AvgBlockTimeMs)

\* calculateDepositDelay: of the jitter, the least and the most.
DepositDelays ==
    {Min({MinDelayMs + jitter, MaxDelayMs}) : jitter \in {0, Max({0, JitterMs - 1})}}

-----------------------------------------------------------------------------
(***************************************************************************)
(* score.ts.                                                               *)
(***************************************************************************)

\* ANONYMITY_BRACKETS: the last one has no end, and stays at its least score.
Brackets == {[from |-> 0, to |-> 10, least |-> 0, rating |-> "critical"],
             [from |-> 10, to |-> 50, least |-> 20, rating |-> "low"],
             [from |-> 50, to |-> 200, least |-> 40, rating |-> "moderate"],
             [from |-> 200, to |-> 1000, least |-> 60, rating |-> "good"]}

InBracket(size, bracket) == size \in bracket.from .. bracket.to - 1

BracketOf(size) == CHOOSE bracket \in Brackets : InBracket(size, bracket)

\* calculateBaseScore; and a form that starts every bracket at the next one's score.
BaseScoreShifted(size) ==
    IF \E bracket \in Brackets : InBracket(size, bracket)
    THEN BracketOf(size).least + 20 - (20 * (size - BracketOf(size).from)) \div
             (BracketOf(size).to - BracketOf(size).from)
    ELSE 80

BaseScore(size) ==
    IF \E bracket \in Brackets : InBracket(size, bracket)
    THEN BracketOf(size).least + (20 * (size - BracketOf(size).from)) \div
             (BracketOf(size).to - BracketOf(size).from)
    ELSE 80

Rating(size) ==
    IF \E bracket \in Brackets : InBracket(size, bracket)
    THEN BracketOf(size).rating ELSE "strong"

\* utilization below 5 %.
SparselyUsed(size) == 20 * size < Capacity

OverallScore(size, blocks, seen) ==
    Max({0, Min({100, BaseScore(size) + Min({5 * (blocks \div BlocksPerDay), 20})
                      + Min({seen \div 10, 10}) - (IF SparselyUsed(size) THEN 10 ELSE 0)})})

Warnings(size, blocks) ==
    {w \in {"small set", "same block", "low utilization", "linkable"} :
        \/ w = "small set" /\ size < 50
        \/ w = "same block" /\ blocks = 0
        \/ w = "low utilization" /\ SparselyUsed(size)
        \/ w = "linkable" /\ size = 0}

Recommendations(size, blocks, seen) ==
    {r \in {"more deposits", "a day", "more activity", "higher utilization", "favorable"} :
        \/ r = "more deposits" /\ size < 200
        \/ r = "a day" /\ blocks < BlocksPerDay
        \/ r = "more activity" /\ seen < 50
        \/ r = "higher utilization" /\ SparselyUsed(size)
        \/ r = "favorable" /\ size >= 200 /\ blocks >= BlocksPerDay /\ seen >= 50}

-----------------------------------------------------------------------------
(***************************************************************************)
(* The chain and the calls.                                                *)
(***************************************************************************)
AdviceInit ==
    /\ sinceFunding = 0 /\ transfers = 0
    /\ pool = [deposits |-> 0, withdrawals |-> 0]
    /\ fetch = NoFetch /\ fetches = 0 /\ setSize = {} /\ toldToWait = 0

BlocksPass ==
    /\ sinceFunding' \in {h \in Heights : h > sinceFunding}
    /\ UNCHANGED <<transfers, pool, fetch, fetches, setSize, toldToWait>>

TransfersHappen ==
    /\ transfers' \in {n \in TransferCounts : n > transfers}
    /\ UNCHANGED <<sinceFunding, pool, fetch, fetches, setSize, toldToWait>>

PoolMoves ==
    /\ \E deposits, withdrawals \in Counts :
           /\ deposits >= pool.deposits /\ withdrawals \in pool.withdrawals .. deposits
           /\ pool' = [deposits |-> deposits, withdrawals |-> withdrawals]
           /\ pool' # pool
    /\ UNCHANGED <<sinceFunding, transfers, fetch, fetches, setSize, toldToWait>>

FetchPoolStats ==
    /\ fetch = NoFetch /\ fetches < MaxFetches
    /\ fetches' = fetches + 1
    /\ fetch' = [reads |-> Reads, began |-> pool, count |-> pool]
    /\ UNCHANGED <<sinceFunding, transfers, pool, setSize, toldToWait>>

\* readUint of one of the counts is answered.
ReadAnswered(name) ==
    /\ name \in fetch.reads
    /\ fetch' = [fetch EXCEPT !.reads = @ \ {name}, !.count[name] = pool[name]]
    /\ UNCHANGED <<sinceFunding, transfers, pool, fetches, setSize, toldToWait>>

\* The set of two counts, as computeAnonymitySetSize and fetchPoolStats have it; and a
\* form that may go below zero.
Difference(deposits, withdrawals) == deposits - withdrawals

AnonymitySetSize(deposits, withdrawals) == Max({0, deposits - withdrawals})

FetchEnds ==
    /\ fetch # NoFetch /\ fetch.reads = {}
    /\ setSize' = {AnonymitySetSize(fetch.count.deposits, fetch.count.withdrawals)}
    /\ fetch' = NoFetch
    /\ UNCHANGED <<sinceFunding, transfers, pool, fetches, toldToWait>>

\* A request fails: fetchPoolStats throws.
FetchFails ==
    /\ fetch # NoFetch
    /\ fetch' = NoFetch
    /\ UNCHANGED <<sinceFunding, transfers, pool, fetches, setSize, toldToWait>>

\* The user plans the deposit with calculateDepositDelay at the funding, or asks
\* shouldDeposit, which has seen enough transfers and says how many blocks to wait.
AskWhen ==
    /\ toldToWait = 0 /\ ~ShouldDeposit(sinceFunding, transfers)
    /\ \/ /\ sinceFunding = 0
          /\ toldToWait' \in {CeilDiv(delay, AvgBlockTimeMs) : delay \in DepositDelays}
       \/ /\ transfers >= MinInterveningTransfers
          /\ toldToWait' = sinceFunding + BlocksRemaining(sinceFunding)
    /\ UNCHANGED <<sinceFunding, transfers, pool, fetch, fetches, setSize>>

AdviceNext ==
    \/ BlocksPass \/ TransfersHappen \/ PoolMoves
    \/ FetchPoolStats \/ FetchEnds \/ FetchFails \/ AskWhen
    \/ \E name \in Reads : ReadAnswered(name)

AdviceSpec == AdviceInit /\ [][AdviceNext]_adviceVars

-----------------------------------------------------------------------------
\* A user who waits as long as timing.ts said, from a delay or an estimate, and sees the
\* transfers wanted, is then told to deposit: the wait is not told anew. And, "to prevent
\* indefinite waiting on a low-activity chain", timing.ts:129, whoever was told to wait is
\* told to deposit in the end, by blocks alone, and it stays so.
WaitsEnd ==
    /\ [](toldToWait > 0 /\ sinceFunding >= toldToWait /\ transfers >= MinInterveningTransfers
            => ShouldDeposit(sinceFunding, transfers))
    /\ <>[](toldToWait > 0 => ShouldDeposit(sinceFunding, transfers))

\* "get-next-index" and "get-nullifier-count" are read at different moments of a pool that
\* moves: what is made of them is never below zero, and never more than the deposits now
\* beside the withdrawals when the reading began.
SetExplained ==
    setSize' # setSize =>
        \A size \in setSize' :
            size \in Max({0, fetch.began.deposits - pool.withdrawals})
                         .. (pool.deposits - fetch.began.withdrawals)

SetSizeExplained == [][SetExplained]_adviceVars

\* Waiting never lowers the score or withdraws a recommendation to go ahead: with a set
\* that is no smaller, more blocks and more transfers only add, over every bracket, bonus
\* and cap.
AdviceImproves ==
    \A size \in setSize, later \in setSize' : later >= size =>
        /\ OverallScore(later, sinceFunding', transfers')
               >= OverallScore(size, sinceFunding, transfers)
        /\ Warnings(later, sinceFunding') \subseteq Warnings(size, sinceFunding)
        /\ "favorable" \in Recommendations(size, sinceFunding, transfers)
               => "favorable" \in Recommendations(later, sinceFunding', transfers')
        /\ Rating(size) = "strong" => Rating(later) = "strong"

WaitingHelps == [][AdviceImproves]_adviceVars

AdviceFairness == WF_adviceVars(BlocksPass)

FairAdviceSpec == AdviceSpec /\ AdviceFairness
=============================================================================
