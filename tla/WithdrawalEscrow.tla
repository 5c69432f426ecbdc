--------------------------- MODULE WithdrawalEscrow ---------------------------
(***************************************************************************)
(* withdrawal-escrow: a withdrawal is posted with a bond, may be           *)
(* challenged for ChallengePeriod blocks, and is paid out when the period  *)
(* has passed.  The contract owner settles a challenge: upheld, it slashes *)
(* the withdrawal; rejected, it starts the period anew.                    *)
(*                                                                         *)
(* proof-hash, root and ephemeral-pubkey are stored for watchers only and  *)
(* are left out of the record.                                             *)
(***************************************************************************)
EXTENDS SbtcToken, NullifierRegistry, MerkleTree

CONSTANTS
    PoolDenomination,  \* POOL-DENOMINATION, the same in pool-v1
    ChallengePeriod,   \* CHALLENGE-PERIOD, 144 in the contract
    MinBond,           \* MIN-BOND
    MaxWithdrawals     \* bound: withdrawals submitted over the run

ASSUME EscrowAssumption ==
    /\ PoolDenomination \in Nat \ {0}
    /\ ChallengePeriod \in Nat
    /\ MinBond \in Nat \ {0}
    /\ MaxWithdrawals \in Nat

VARIABLES
    nextWithdrawalId,    \* the data var next-withdrawal-id
    pendingWithdrawals,  \* the map pending-withdrawals: id -> record
    reservedNullifiers,  \* the map reserved-nullifiers: nullifier -> id
    challenges           \* the map challenges: id -> record

escrowVars ==
    <<nextWithdrawalId, pendingWithdrawals, reservedNullifiers, challenges>>

PendingWithdrawal ==
    [nullifier   : Nullifiers,
     recipient   : Principals,
     relayer     : Principals,
     relayerFee  : Nat,
     bond        : Nat,
     submitBlock : Nat,
     status      : {"pending", "challenged", "finalized", "slashed"}]

Challenge ==
    [challenger     : Principals,
     challengerBond : Nat,
     challengeBlock : Nat,
     resolved       : BOOLEAN]

EscrowInit ==
    /\ nextWithdrawalId = 0
    /\ pendingWithdrawals = EmptyMap
    /\ reservedNullifiers = EmptyMap
    /\ challenges = EmptyMap

Status(id) == pendingWithdrawals[id].status

WithdrawalIds == DOMAIN pendingWithdrawals

\* is-nullifier-reserved, and a reservation map whose entries are never found.
NeverReserved(nullifier) == nullifier = ZeroNullifier /\ FALSE

IsNullifierReserved(nullifier) == nullifier \in DOMAIN reservedNullifiers

\* The test of finalize-withdrawal and challenge-withdrawal on the status, and one
\* that lets settled withdrawals through.
NotChallenged(w) == w.status # "challenged"

IsPending(w) == w.status = "pending"

\* What is left for the recipient, and a sum that forgets to deduct the fee.
FeeNotDeducted(fee) == PoolDenomination + 0 * fee

RecipientAmount(fee) == PoolDenomination - fee

\* Whether a pending withdrawal can still be challenged, or can be finalized; and
\* a reading that opens finalization one block early.
PeriodExpiredEarly(w) == stacksBlockHeight >= w.submitBlock + ChallengePeriod

PeriodExpired(w) == stacksBlockHeight > w.submitBlock + ChallengePeriod

PeriodActive(w) == stacksBlockHeight <= w.submitBlock + ChallengePeriod

\* What a rejected challenge makes of the withdrawal: pending again, with a new
\* challenge period; and the same without the new period.
PendingOnly(w) == [w EXCEPT !.status = "pending"]

PendingAgain(w) == [w EXCEPT !.status = "pending", !.submitBlock = stacksBlockHeight]

\* submit-withdrawal by tx-sender relayer, in a transaction that has left the
\* balances at bal before the call.
SubmitWithdrawal(bal, relayer, nullifier, root, recipient, fee, bond) ==
    /\ nextWithdrawalId < MaxWithdrawals
    /\ IsKnownRoot(root)
    /\ fee < PoolDenomination
    /\ ~IsNullifierUsed(nullifier)
    /\ ~IsNullifierReserved(nullifier)
    /\ bond >= MinBond
    /\ CanTransfer(bal, bond, relayer, EscrowContract)
    /\ balances' = AfterTransfer(bal, bond, relayer, EscrowContract)
    /\ reservedNullifiers' = MapSet(reservedNullifiers, nullifier, nextWithdrawalId)
    /\ pendingWithdrawals' =
           MapSet(pendingWithdrawals, nextWithdrawalId,
                  [nullifier |-> nullifier, recipient |-> recipient,
                   relayer |-> relayer, relayerFee |-> fee, bond |-> bond,
                   submitBlock |-> stacksBlockHeight, status |-> "pending"])
    /\ nextWithdrawalId' = nextWithdrawalId + 1
    /\ UNCHANGED <<stacksBlockHeight, registryVars, treeVars, challenges>>

\* finalize-withdrawal; anyone may call it.
FinalizeWithdrawal(id) ==
    /\ id \in WithdrawalIds
    /\ LET w == pendingWithdrawals[id]
           amount == RecipientAmount(w.relayerFee)
           paid == AfterTransfer(balances, amount, EscrowContract, w.recipient)
           feePaid == AfterFee(paid, w.relayerFee, EscrowContract, w.relayer)
       IN  /\ IsPending(w)
           /\ PeriodExpired(w)
           /\ MarkUsed(EscrowContract, w.nullifier)
           /\ CanTransfer(balances, amount, EscrowContract, w.recipient)
           /\ CanPayFee(paid, w.relayerFee, EscrowContract, w.relayer)
           /\ CanTransfer(feePaid, w.bond, EscrowContract, w.relayer)
           /\ balances' = AfterTransfer(feePaid, w.bond, EscrowContract, w.relayer)
    /\ pendingWithdrawals' = [pendingWithdrawals EXCEPT ![id].status = "finalized"]
    /\ UNCHANGED <<stacksBlockHeight, treeVars, nextWithdrawalId,
                   reservedNullifiers, challenges>>

\* challenge-withdrawal by tx-sender challenger.
ChallengeWithdrawal(challenger, id, challengerBond) ==
    /\ id \in WithdrawalIds
    /\ IsPending(pendingWithdrawals[id])
    /\ PeriodActive(pendingWithdrawals[id])
    /\ challengerBond >= MinBond
    /\ CanTransfer(balances, challengerBond, challenger, EscrowContract)
    /\ balances' = AfterTransfer(balances, challengerBond, challenger, EscrowContract)
    /\ pendingWithdrawals' = [pendingWithdrawals EXCEPT ![id].status = "challenged"]
    /\ challenges' = MapSet(challenges, id,
                            [challenger |-> challenger,
                             challengerBond |-> challengerBond,
                             challengeBlock |-> stacksBlockHeight,
                             resolved |-> FALSE])
    /\ UNCHANGED <<stacksBlockHeight, registryVars, treeVars, nextWithdrawalId,
                   reservedNullifiers>>

\* resolve-challenge with challenge-upheld true: both bonds go to the challenger,
\* the denomination to the contract owner, and the nullifier is free again.
UpholdChallenge(sender, id) ==
    /\ id \in WithdrawalIds /\ id \in DOMAIN challenges
    /\ sender = ContractOwner
    /\ Status(id) = "challenged"
    /\ LET w == pendingWithdrawals[id]
           c == challenges[id]
           slashed == AfterTransfer(balances, w.bond, EscrowContract, c.challenger)
           returned == AfterTransfer(slashed, c.challengerBond, EscrowContract, c.challenger)
       IN  /\ CanTransfer(balances, w.bond, EscrowContract, c.challenger)
           /\ CanTransfer(slashed, c.challengerBond, EscrowContract, c.challenger)
           /\ CanTransfer(returned, PoolDenomination, EscrowContract, ContractOwner)
           /\ balances' = AfterTransfer(returned, PoolDenomination,
                                        EscrowContract, ContractOwner)
           /\ reservedNullifiers' = MapDelete(reservedNullifiers, w.nullifier)
    /\ pendingWithdrawals' = [pendingWithdrawals EXCEPT ![id].status = "slashed"]
    /\ challenges' = [challenges EXCEPT ![id].resolved = TRUE]
    /\ UNCHANGED <<stacksBlockHeight, registryVars, treeVars, nextWithdrawalId>>

\* resolve-challenge with challenge-upheld false: both bonds go to the relayer
\* and the challenge period starts anew.
RejectChallenge(sender, id) ==
    /\ id \in WithdrawalIds /\ id \in DOMAIN challenges
    /\ sender = ContractOwner
    /\ Status(id) = "challenged"
    /\ LET w == pendingWithdrawals[id]
           c == challenges[id]
           forfeited == AfterTransfer(balances, c.challengerBond, EscrowContract, w.relayer)
       IN  /\ CanTransfer(balances, c.challengerBond, EscrowContract, w.relayer)
           /\ CanTransfer(forfeited, w.bond, EscrowContract, w.relayer)
           /\ balances' = AfterTransfer(forfeited, w.bond, EscrowContract, w.relayer)
    /\ pendingWithdrawals' =
           [pendingWithdrawals EXCEPT ![id] = PendingAgain(pendingWithdrawals[id])]
    /\ challenges' = [challenges EXCEPT ![id].resolved = TRUE]
    /\ UNCHANGED <<stacksBlockHeight, registryVars, treeVars, nextWithdrawalId,
                   reservedNullifiers>>

\* A block is mined.  The contracts compare the height with the end of a pending
\* withdrawal's challenge period and with nothing else, so a block that finds no
\* such period running is not told apart from the one before it.
NewBlock ==
    /\ stacksBlockHeight < MaxHeight
    /\ \E id \in WithdrawalIds :
           /\ Status(id) = "pending"
           /\ PeriodActive(pendingWithdrawals[id])
    /\ stacksBlockHeight' = stacksBlockHeight + 1
    /\ UNCHANGED <<balances, registryVars, treeVars, escrowVars>>
=============================================================================
