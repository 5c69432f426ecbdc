-------------------------- MODULE AccountTransactions --------------------------
(***************************************************************************)
(* The SDK's submitDeposit and submitWithdrawal of one account, with the   *)
(* node that takes their transactions: a deposit is an approval and a      *)
(* deposit transaction, with consecutive nonces when the caller gives one, *)
(* and else with what the node proposes for each.  A request may fail      *)
(* before or after the node took the transaction, and a caller may submit  *)
(* the same deposit again.                                                 *)
(***************************************************************************)
EXTENDS Naturals, FiniteSets

CONSTANTS
    Submissions,     \* bound: calls of the SDK over the run
    NoteCommitments, \* the commitments deposited
    Denomination,    \* POOL_DENOMINATION
    WithdrawalFees,  \* the relayer fees of withdrawals
    Funds,           \* denominations the account holds at first
    MaxDrops         \* bound: transactions the node drops

ASSUME AccountAssumption ==
    {Denomination, Funds, MaxDrops} \subseteq Nat /\ WithdrawalFees \subseteq Nat

VARIABLES
    submitted,     \* submission -> what its call is doing
    mempool,       \* nonce -> the transaction of the account that waits with it
    accountNonce,  \* nonce of the next transaction to be mined
    funds,         \* denominations the account holds
    deposited,     \* commitments in the pool
    approvals,     \* submissions whose approval was mined
    drops,         \* how many transactions were dropped
    displaced      \* history: transactions that were dropped, or replaced by one of
                   \* another submission

accountVars == <<submitted, mempool, accountNonce, funds, deposited, approvals, drops,
                 displaced>>

NoneGiven == {}

NotSubmitted == [phase |-> "none"]

\* A call, with the nonce its caller gave and that of its next transaction, if any; a
\* withdrawal has no commitment.
Begun(kind, commitments, given) ==
    [phase |-> kind, commitment |-> commitments, given |-> given, nonce |-> given]

FreeNonce ==
    CHOOSE n \in accountNonce .. accountNonce + Cardinality(DOMAIN mempool) :
        /\ n \notin DOMAIN mempool
        /\ accountNonce .. n - 1 \subseteq DOMAIN mempool

\* What makeContractCall takes for a nonce: the one it is given, or what the node answers,
\* which may not know of every transaction that waits.
NoncesFor(given) == IF given = NoneGiven THEN accountNonce .. FreeNonce ELSE given

\* The nonce of a deposit after an approval; and a form that leaves one out.
SkippedNonce(given) == {nonce + 2 : nonce \in given}

NonceAfter(given) == {nonce + 1 : nonce \in given}

-----------------------------------------------------------------------------
AccountInit ==
    /\ submitted = [i \in Submissions |-> NotSubmitted]
    /\ mempool = <<>> /\ accountNonce = 0
    /\ funds = Funds /\ deposited = {} /\ approvals = {}
    /\ drops = 0 /\ displaced = {}

\* submitDeposit; a caller that gives a nonce gives the next free one.
SubmitDeposit(i) ==
    /\ submitted[i] = NotSubmitted
    /\ \E commitment \in NoteCommitments, given \in {NoneGiven, {FreeNonce}} :
           submitted' = [submitted EXCEPT ![i] = Begun("approve", {commitment}, given)]
    /\ UNCHANGED <<mempool, accountNonce, funds, deposited, approvals, drops, displaced>>

\* submitWithdrawal of what buildWithdrawTx lets through.
BuildsWithdrawal(fee) == fee <= Denomination

SubmitWithdrawal(i) ==
    /\ submitted[i] = NotSubmitted
    /\ \E fee \in WithdrawalFees, given \in {NoneGiven, {FreeNonce}} :
           /\ BuildsWithdrawal(fee)
           /\ submitted' = [submitted EXCEPT ![i] = Begun("withdraw", {}, given)]
    /\ UNCHANGED <<mempool, accountNonce, funds, deposited, approvals, drops, displaced>>

\* The node takes a transaction with a nonce that is not mined yet; in the place of one
\* that waits with that nonce, if its fee is higher.
Taken(i, nonce) ==
    /\ nonce >= accountNonce
    /\ mempool' = [n \in DOMAIN mempool \cup {nonce} |->
                      IF n = nonce
                      THEN [by |-> i, kind |-> submitted[i].phase,
                            commitment |-> submitted[i].commitment]
                      ELSE mempool[n]]
    /\ displaced' = displaced \cup
           {tx \in {mempool[n] : n \in DOMAIN mempool \cap {nonce}} : tx.by # i}

\* broadcastTransaction of what call i has built: the node takes it and answers with its
\* id, and the call goes on; or it answers with an error, or the request fails, taken or
\* not, and the call throws.
Broadcast(i, kind, next) ==
    /\ submitted[i].phase = kind
    /\ \E nonce \in NoncesFor(submitted[i].nonce) :
           \/ /\ Taken(i, nonce)
              /\ submitted' = [submitted EXCEPT ![i] = next]
           \/ /\ Taken(i, nonce) \/ UNCHANGED <<mempool, displaced>>
              /\ submitted' = [submitted EXCEPT ![i].phase = "threw"]
    /\ UNCHANGED <<accountNonce, funds, deposited, approvals, drops>>

BroadcastApproval(i) ==
    Broadcast(i, "approve",
              [submitted[i] EXCEPT !.phase = "deposit",
                                   !.nonce = NonceAfter(submitted[i].nonce)])

BroadcastDeposit(i) ==
    Broadcast(i, "deposit", [submitted[i] EXCEPT !.phase = "returned"])

BroadcastWithdrawal(i) ==
    Broadcast(i, "withdraw", [submitted[i] EXCEPT !.phase = "returned"])

-----------------------------------------------------------------------------
(***************************************************************************)
(* The chain.                                                              *)
(***************************************************************************)

\* What deposit of pool-v1 asks; and a form that does not ask for the commitment.
HasFunds(commitment) == funds > 0

Deposits(commitment) == funds > 0 /\ commitment \notin deposited

\* The transaction with the next nonce is mined.  What a withdrawal does, or a deposit
\* that is refused, leaves the account as it is, but for the nonce.
Mined ==
    /\ accountNonce \in DOMAIN mempool
    /\ LET tx == mempool[accountNonce]
           paying == {c \in tx.commitment : tx.kind = "deposit" /\ Deposits(c)}
       IN  /\ funds' = funds - Cardinality(paying)
           /\ deposited' = deposited \cup paying
           /\ approvals' = IF tx.kind = "approve" THEN approvals \cup {tx.by} ELSE approvals
    /\ mempool' = [n \in DOMAIN mempool \ {accountNonce} |-> mempool[n]]
    /\ accountNonce' = accountNonce + 1
    /\ UNCHANGED <<submitted, drops, displaced>>

\* The node drops a transaction that waits.
Dropped ==
    /\ drops < MaxDrops
    /\ drops' = drops + 1
    /\ \E nonce \in DOMAIN mempool :
           /\ mempool' = [n \in DOMAIN mempool \ {nonce} |-> mempool[n]]
           /\ displaced' = displaced \cup {mempool[nonce]}
    /\ UNCHANGED <<submitted, accountNonce, funds, deposited, approvals>>

AccountNext ==
    \/ \E i \in Submissions : \/ SubmitDeposit(i) \/ SubmitWithdrawal(i)
                             \/ BroadcastApproval(i) \/ BroadcastDeposit(i)
                             \/ BroadcastWithdrawal(i)
    \/ Mined \/ Dropped

AccountSpec == AccountInit /\ [][AccountNext]_accountVars

-----------------------------------------------------------------------------
\* When the deposit of a call that was given a nonce is the next to be mined, its approval
\* was mined before it, unless another call's transaction took the approval's place.
ApprovedFirst ==
    accountNonce \in DOMAIN mempool =>
        LET tx == mempool[accountNonce]
        IN  tx.kind = "deposit" /\ submitted[tx.by].given # NoneGiven =>
                \/ tx.by \in approvals
                \/ \E other \in displaced : other.by = tx.by /\ other.kind = "approve"

\* A deposit submitted again after an error, with its first transaction taken all the
\* same, is paid for once: the account pays one denomination for every commitment.
PaidOnce == funds + Cardinality(deposited) = Funds

\* "the mempool will order them correctly given sequential nonces", deposit.ts:203: the
\* approval comes first, and no transaction waits for ever behind a nonce nobody uses,
\* unless one was dropped.
OrderedByNonces == []ApprovedFirst /\ []<>(mempool = <<>> \/ drops > 0)

AccountFairness == WF_accountVars(Mined)

FairAccountSpec == AccountSpec /\ AccountFairness
=============================================================================
