-------------------------------- MODULE PoolV1 --------------------------------
(***************************************************************************)
(* pool-v1: deposits of one denomination against a commitment, withdrawals *)
(* against a nullifier and a proof, and withdrawals handed to the escrow.  *)
(***************************************************************************)
EXTENDS WithdrawalEscrow

CONSTANTS
    Commitments,     \* the 32-byte commitments transactions mention
    ZeroCommitment,  \* ZERO-COMMITMENT
    VerifyProof(_, _, _, _)
        \* VerifyProof(nullifier, root, recipient, fee): some proof makes
        \* proof-verifier.verify-proof answer true for these public inputs

VARIABLE depositCommitments  \* the keys of deposit-commitments

PoolInit == depositCommitments = {}

\* deposit; its source must be tx-sender, so one principal plays both parts.
Deposit(source, commitment) ==
    /\ commitment # ZeroCommitment
    /\ commitment \notin depositCommitments
    /\ CanTransfer(balances, PoolDenomination, source, PoolContract)
    /\ balances' = AfterTransfer(balances, PoolDenomination, source, PoolContract)
    /\ AppendLeaf(PoolContract, commitment)
    /\ depositCommitments' = depositCommitments \cup {commitment}
    /\ UNCHANGED <<stacksBlockHeight, registryVars, escrowVars>>

\* withdraw by tx-sender relayer.
Withdraw(relayer, nullifier, root, recipient, fee) ==
    LET amount == RecipientAmount(fee)
        paid == AfterTransfer(balances, amount, PoolContract, recipient)
    IN  /\ fee < PoolDenomination
        /\ IsKnownRoot(root)
        /\ ~IsNullifierUsed(nullifier)
        /\ VerifyProof(nullifier, root, recipient, fee)
        /\ MarkUsed(PoolContract, nullifier)
        /\ CanTransfer(balances, amount, PoolContract, recipient)
        /\ CanPayFee(paid, fee, PoolContract, relayer)
        /\ balances' = AfterFee(paid, fee, PoolContract, relayer)
        /\ UNCHANGED <<stacksBlockHeight, treeVars, escrowVars, depositCommitments>>

\* withdraw-optimistic by tx-sender relayer: the denomination moves to the escrow,
\* which then takes the bond and records the withdrawal.
WithdrawOptimistic(relayer, nullifier, root, recipient, fee, bond) ==
    /\ fee < PoolDenomination
    /\ CanTransfer(balances, PoolDenomination, PoolContract, EscrowContract)
    /\ SubmitWithdrawal(
           AfterTransfer(balances, PoolDenomination, PoolContract, EscrowContract),
           relayer, nullifier, root, recipient, fee, bond)
    /\ UNCHANGED depositCommitments
=============================================================================
