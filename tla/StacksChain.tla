----------------------------- MODULE StacksChain -----------------------------
(***************************************************************************)
(* What the contracts take from the chain: principals and the block        *)
(* height.  A transaction is one atomic step; a public function that       *)
(* answers (err ...) rolls back everything the transaction wrote, so only  *)
(* transactions that answer (ok ...) are steps of the model.               *)
(***************************************************************************)
EXTENDS Integers

CONSTANTS
    Users,           \* ordinary principals: depositors, relayers, watchers
    ContractOwner,   \* CONTRACT-OWNER, the deployer of every contract
    PoolContract,    \* the principal of pool-v1
    EscrowContract,  \* the principal of withdrawal-escrow
    MaxHeight        \* bound: the last block height explored

ASSUME PrincipalsAssumption ==
    /\ ContractOwner \notin Users
    /\ PoolContract \notin Users \cup {ContractOwner}
    /\ EscrowContract \notin Users \cup {ContractOwner, PoolContract}

ASSUME MaxHeightAssumption == MaxHeight \in Nat

VARIABLE stacksBlockHeight

\* Who can sign a transaction, that is, be tx-sender at the outset.
Signers == Users \cup {ContractOwner}

Contracts == {PoolContract, EscrowContract}

Principals == Signers \cup Contracts
=============================================================================
