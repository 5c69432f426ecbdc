-------------------------- MODULE NullifierRegistry --------------------------
(***************************************************************************)
(* nullifier-registry: the set of spent nullifiers, written by the one     *)
(* contract that authorized-contract names, or by the deployer.            *)
(***************************************************************************)
EXTENDS StacksChain

CONSTANTS
    Nullifiers,    \* the 32-byte nullifiers transactions mention
    ZeroNullifier  \* ZERO-NULLIFIER

VARIABLES
    usedNullifiers,     \* the keys of used-nullifiers
    authorizedContract  \* the data var authorized-contract

registryVars == <<usedNullifiers, authorizedContract>>

RegistryInit ==
    /\ usedNullifiers = {}
    /\ authorizedContract = ContractOwner

IsNullifierUsed(nullifier) == nullifier \in usedNullifiers

\* An authorization test that knows only the deployer.
IsDeployer(caller) == caller = ContractOwner

IsAuthorizedCaller(caller) == caller \in {authorizedContract, ContractOwner}

\* A mark-used that answers (ok true) and stores nothing.
MarkUsedUnstored(caller, nullifier) ==
    /\ IsAuthorizedCaller(caller)
    /\ nullifier # ZeroNullifier
    /\ ~IsNullifierUsed(nullifier)
    /\ UNCHANGED registryVars

\* mark-used; caller is contract-caller, the contract or signer that calls it.
MarkUsed(caller, nullifier) ==
    /\ IsAuthorizedCaller(caller)
    /\ nullifier # ZeroNullifier
    /\ ~IsNullifierUsed(nullifier)
    /\ usedNullifiers' = usedNullifiers \cup {nullifier}
    /\ UNCHANGED authorizedContract

\* set-authorized-contract; only the deployer's own transaction passes its test.
SetAuthorizedContract(caller, newContract) ==
    /\ caller = ContractOwner
    /\ authorizedContract' = newContract
    /\ UNCHANGED usedNullifiers
=============================================================================
