------------------------------ MODULE PoolSystem ------------------------------
(***************************************************************************)
(* The contracts together: pool-v1, merkle-tree, nullifier-registry,       *)
(* withdrawal-escrow and the token, driven by every transaction a signer   *)
(* may send to them and by the passing of blocks.                          *)
(*                                                                         *)
(* Three history variables remember what the contracts do not: which       *)
(* nullifiers the pool paid out directly, which withdrawals the pool       *)
(* funded, and how often a withdrawal's bond went back to its relayer      *)
(* because a challenge was rejected.  No guard reads them, but for the     *)
(* bound MaxRejections.                                                    *)
(***************************************************************************)
EXTENDS PoolV1, FiniteSets

\* The inputs transactions take.
CONSTANTS
    Recipients,       \* recipients withdrawals name
    RelayerFees,      \* relayer fees withdrawals name
    Bonds,            \* bonds of withdrawals and challenges
    RegistryWriters,  \* contracts the deployer authorizes on the registry
    TreeWriters,      \* callers the deployer authorizes on the tree, or revokes
    DirectMarks,      \* nullifiers marked without a withdrawal
    DirectLeaves,     \* leaves appended without a deposit
    TransferAmounts,  \* amounts holders send by hand
    MaxRejections     \* bound: rejected challenges of one withdrawal

ASSUME InputsAssumption ==
    /\ Recipients \subseteq Principals
    /\ RelayerFees \subseteq Nat
    /\ Bonds \subseteq Nat
    /\ RegistryWriters \subseteq Principals
    /\ TreeWriters \subseteq Principals
    /\ DirectMarks \subseteq Nullifiers
    /\ TransferAmounts \subseteq Nat
    /\ MaxRejections \in Nat

VARIABLES
    directSpends,  \* nullifiers paid out by pool-v1.withdraw
    poolFunded,    \* withdrawals submitted by pool-v1.withdraw-optimistic
    rejections     \* withdrawal id -> challenges of it rejected so far

historyVars == <<directSpends, poolFunded, rejections>>

contractVars ==
    <<stacksBlockHeight, balances, registryVars, treeVars, escrowVars,
      depositCommitments>>

vars == <<contractVars, historyVars>>

Init ==
    /\ stacksBlockHeight = 0
    /\ balances = InitialBalances
    /\ RegistryInit
    /\ MerkleTreeInit
    /\ EscrowInit
    /\ PoolInit
    /\ directSpends = {}
    /\ poolFunded = {}
    /\ rejections = EmptyMap

-----------------------------------------------------------------------------
(***************************************************************************)
(* Transactions.                                                           *)
(***************************************************************************)
DepositTx ==
    \E source \in Signers, commitment \in Commitments :
        /\ Deposit(source, commitment)
        /\ UNCHANGED historyVars

WithdrawTx ==
    \E relayer \in Signers, nullifier \in Nullifiers, root \in knownRoots,
       recipient \in Recipients, fee \in RelayerFees :
        /\ Withdraw(relayer, nullifier, root, recipient, fee)
        /\ directSpends' = directSpends \cup {nullifier}
        /\ UNCHANGED <<poolFunded, rejections>>

WithdrawOptimisticTx ==
    \E relayer \in Signers, nullifier \in Nullifiers, root \in knownRoots,
       recipient \in Recipients, fee \in RelayerFees, bond \in Bonds :
        /\ WithdrawOptimistic(relayer, nullifier, root, recipient, fee, bond)
        /\ poolFunded' = poolFunded \cup {nextWithdrawalId}
        /\ rejections' = MapSet(rejections, nextWithdrawalId, 0)
        /\ UNCHANGED directSpends

\* submit-withdrawal is public: a signer may call it without the pool.
SubmitWithdrawalTx ==
    \E relayer \in Signers, nullifier \in Nullifiers, root \in knownRoots,
       recipient \in Recipients, fee \in RelayerFees, bond \in Bonds :
        /\ SubmitWithdrawal(balances, relayer, nullifier, root, recipient, fee, bond)
        /\ rejections' = MapSet(rejections, nextWithdrawalId, 0)
        /\ UNCHANGED <<depositCommitments, directSpends, poolFunded>>

FinalizeTx(id) ==
    /\ FinalizeWithdrawal(id)
    /\ UNCHANGED <<depositCommitments, historyVars>>

ChallengeTx(id) ==
    \E challenger \in Signers, challengerBond \in Bonds :
        /\ ChallengeWithdrawal(challenger, id, challengerBond)
        /\ UNCHANGED <<depositCommitments, historyVars>>

UpholdTx(id) ==
    \E sender \in Signers :
        /\ UpholdChallenge(sender, id)
        /\ UNCHANGED <<depositCommitments, historyVars>>

RejectTx(id) ==
    \E sender \in Signers :
        /\ RejectChallenge(sender, id)
        /\ rejections[id] < MaxRejections
        /\ rejections' = [rejections EXCEPT ![id] = @ + 1]
        /\ UNCHANGED <<depositCommitments, directSpends, poolFunded>>

SetAuthorizedContractTx ==
    \E sender \in Signers, newContract \in RegistryWriters :
        /\ SetAuthorizedContract(sender, newContract)
        /\ UNCHANGED <<stacksBlockHeight, balances, treeVars, escrowVars,
                       depositCommitments, historyVars>>

\* mark-used called by a signer: it answers (ok true) to the deployer, and to a
\* signer that authorized-contract names.
MarkUsedTx ==
    \E sender \in Signers, nullifier \in DirectMarks :
        /\ MarkUsed(sender, nullifier)
        /\ UNCHANGED <<stacksBlockHeight, balances, treeVars, escrowVars,
                       depositCommitments, historyVars>>

SetAuthorizedCallerTx ==
    \E sender \in Signers, caller \in TreeWriters, authorized \in BOOLEAN :
        /\ SetAuthorizedCaller(sender, caller, authorized)
        /\ UNCHANGED <<stacksBlockHeight, balances, registryVars, escrowVars,
                       depositCommitments, historyVars>>

\* append-leaf called by a signer that the tree authorizes.
AppendLeafTx ==
    \E sender \in Signers, leaf \in DirectLeaves :
        /\ AppendLeaf(sender, leaf)
        /\ UNCHANGED <<stacksBlockHeight, balances, registryVars, escrowVars,
                       depositCommitments, historyVars>>

TransferTx ==
    \E sender \in Signers, recipient \in Principals, amount \in TransferAmounts :
        /\ SbtcTransfer(sender, amount, recipient)
        /\ UNCHANGED <<stacksBlockHeight, registryVars, treeVars, escrowVars,
                       depositCommitments, historyVars>>

BlockMined ==
    /\ NewBlock
    /\ UNCHANGED <<depositCommitments, historyVars>>

EscrowTx(id) == FinalizeTx(id) \/ ChallengeTx(id) \/ UpholdTx(id) \/ RejectTx(id)

Next ==
    \/ DepositTx
    \/ WithdrawTx
    \/ WithdrawOptimisticTx
    \/ SubmitWithdrawalTx
    \/ \E id \in WithdrawalIds : EscrowTx(id)
    \/ SetAuthorizedContractTx
    \/ MarkUsedTx
    \/ SetAuthorizedCallerTx
    \/ AppendLeafTx
    \/ TransferTx
    \/ BlockMined

Spec == Init /\ [][Next]_vars

-----------------------------------------------------------------------------
(***************************************************************************)
(* Safety.                                                                 *)
(***************************************************************************)
TypeOK ==
    /\ stacksBlockHeight \in Nat
    /\ balances \in [Principals -> Nat]
    /\ usedNullifiers \subseteq Nullifiers
    /\ authorizedContract \in Principals
    /\ nextLeafIndex \in Nat
    /\ currentRoot \in knownRoots
    /\ authorizedCallers \subseteq Principals
    /\ nextWithdrawalId \in Nat
    /\ pendingWithdrawals \in [0 .. nextWithdrawalId - 1 -> PendingWithdrawal]
    /\ DOMAIN reservedNullifiers \subseteq Nullifiers
    /\ \A n \in DOMAIN reservedNullifiers : reservedNullifiers[n] \in WithdrawalIds
    /\ DOMAIN challenges \subseteq WithdrawalIds
    /\ challenges \in [DOMAIN challenges -> Challenge]
    /\ depositCommitments \subseteq Commitments
    /\ directSpends \subseteq Nullifiers
    /\ poolFunded \subseteq WithdrawalIds
    /\ rejections \in [WithdrawalIds -> 0 .. MaxRejections]

Finalized == {id \in WithdrawalIds : Status(id) = "finalized"}

Slashed == {id \in WithdrawalIds : Status(id) = "slashed"}

\* Pending or challenged: the withdrawal has a claim on the escrow.
Open == WithdrawalIds \ (Finalized \cup Slashed)

NullifierOf(id) == pendingWithdrawals[id].nullifier

\* reserved-nullifiers and pending-withdrawals agree: a reservation names the one
\* withdrawal of that nullifier that has not been slashed.  So no two withdrawals
\* of a nullifier are ever open, or open and finalized, at once, whatever order of
\* submissions, challenges and resolutions led there.
ReservationsMatch ==
    /\ \A n \in DOMAIN reservedNullifiers :
           /\ NullifierOf(reservedNullifiers[n]) = n
           /\ reservedNullifiers[n] \notin Slashed
    /\ \A id \in WithdrawalIds \ Slashed :
           /\ NullifierOf(id) \in DOMAIN reservedNullifiers
           /\ reservedNullifiers[NullifierOf(id)] = id

\* A nullifier is paid out at most once over both paths, pool-v1.withdraw and
\* finalize-withdrawal, although only mark-used ties the two together.
NullifierPaidOnce ==
    /\ \A id \in Finalized : NullifierOf(id) \notin directSpends
    /\ \A i, j \in Finalized : NullifierOf(i) = NullifierOf(j) => i = j

\* The challenges map and the status agree after any number of challenges of one
\* withdrawal: it is challenged exactly while its record is unresolved, a running
\* or ended challenge period starts no earlier than the last challenge, and a
\* challenge that is open or was upheld was made inside the period.
ChallengeRecordsMatch ==
    \A id \in WithdrawalIds :
        /\ Status(id) \in {"challenged", "slashed"} => id \in DOMAIN challenges
        /\ id \in DOMAIN challenges =>
            LET w == pendingWithdrawals[id]
                c == challenges[id]
            IN  /\ c.resolved <=> Status(id) # "challenged"
                /\ Status(id) \in {"pending", "finalized"} =>
                       c.challengeBlock <= w.submitBlock
                /\ Status(id) \in {"challenged", "slashed"} =>
                       c.challengeBlock \in
                           w.submitBlock .. w.submitBlock + ChallengePeriod

\* The pool holds the denomination of every deposit it has not paid out, be it to
\* a recipient or to the escrow.
PoolSolvent ==
    balances[PoolContract] + PoolDenomination *
            (Cardinality(directSpends) + Cardinality(poolFunded))
        >= PoolDenomination * Cardinality(depositCommitments)

\* What the escrow is to hold of a withdrawal: the pool's denomination if the pool funded
\* it and it is not settled, the bonds while it is open and while it is challenged, less
\* the bonds that went out once more because a challenge was rejected.
EscrowShare(id) ==
    LET w == pendingWithdrawals[id]
    IN  (IF id \in poolFunded THEN PoolDenomination ELSE 0)
            + (IF id \in Open THEN w.bond ELSE -PoolDenomination)
            + (IF Status(id) = "challenged" THEN challenges[id].challengerBond ELSE 0)
            - rejections[id] * w.bond

\* The escrow's balance is accounted for withdrawal by withdrawal: it holds their shares,
\* and more only where tokens were sent to it by hand or by a withdrawal from the pool.
EscrowAccounted ==
    LET shares[n \in 0 .. nextWithdrawalId] ==
            IF n = 0 THEN 0 ELSE shares[n - 1] + EscrowShare(n - 1)
    IN  balances[EscrowContract] >= shares[nextWithdrawalId]

\* A withdrawal moves only from pending to challenged or finalized and from
\* challenged to pending or slashed, and nothing but its status and the start of
\* its challenge period ever changes.
StatusOrder ==
    [][\A id \in WithdrawalIds :
           LET w == pendingWithdrawals[id]
               next == pendingWithdrawals'[id]
           IN  /\ <<w.status, next.status>> \in
                      {<<"pending", "challenged">>, <<"pending", "finalized">>,
                       <<"challenged", "pending">>, <<"challenged", "slashed">>}
                      \cup {<<s, s>> : s \in {"pending", "challenged",
                                              "finalized", "slashed"}}
               /\ next = [w EXCEPT !.status = next.status,
                                   !.submitBlock = next.submitBlock]]_vars

\* A withdrawal that was ever challenged is paid out only after that challenge is
\* resolved and a whole challenge period has gone by since it was made.
PayoutWaitsOutChallenges ==
    [][\A id \in WithdrawalIds \cap DOMAIN challenges :
           id \notin Finalized /\ pendingWithdrawals'[id].status = "finalized" =>
               /\ challenges[id].resolved
               /\ stacksBlockHeight > challenges[id].challengeBlock + ChallengePeriod]_vars

\* The five contracts implement the promise of the pool: a commitment is taken
\* once, a nullifier is claimed by one withdrawal at a time and paid once, and a
\* claim ends only in its payment or by an upheld challenge.
Shielded == INSTANCE ShieldedPool WITH
    deposited <- depositCommitments,
    claims    <- {NullifierOf(id) : id \in Open},
    paid      <- directSpends \cup {NullifierOf(id) : id \in Finalized}

ImplementsShieldedPool == Shielded!PoolSpec

-----------------------------------------------------------------------------
(***************************************************************************)
(* Liveness.  Blocks keep coming, someone calls finalize-withdrawal when   *)
(* it would succeed (anyone may, and the relayer's bond depends on it), and *)
(* the contract owner resolves every challenge one way or the other.       *)
(***************************************************************************)
Fairness ==
    /\ WF_vars(BlockMined)
    /\ \A id \in 0 .. MaxWithdrawals - 1 :
           /\ WF_vars(FinalizeTx(id))
           /\ WF_vars(UpholdTx(id) \/ RejectTx(id))

FairSpec == Spec /\ Fairness

\* The circumstances under which the code lets a withdrawal wait forever: the
\* registry does not authorize the escrow, the nullifier is spent already or is
\* zero, the recipient is the escrow itself, or the escrow is short of tokens
\* because it took on a withdrawal the pool did not fund or repaid a bond early.
MayBeStuck(id) ==
    \/ authorizedContract # EscrowContract
    \/ IsNullifierUsed(NullifierOf(id)) \/ NullifierOf(id) = ZeroNullifier
    \/ pendingWithdrawals[id].recipient = EscrowContract
    \/ poolFunded # WithdrawalIds
    \/ \E i \in WithdrawalIds : rejections[i] > 0

\* Outside those circumstances every submitted withdrawal is settled: paid out, or
\* slashed by an upheld challenge.
WithdrawalsSettle ==
    \A id \in 0 .. MaxWithdrawals - 1 :
        id \in WithdrawalIds ~>
            id \in WithdrawalIds /\ (id \notin Open \/ MayBeStuck(id))

-----------------------------------------------------------------------------
(***************************************************************************)
(* What comments of the contracts promise and the code does not keep.      *)
(***************************************************************************)

\* pool-v1, on the denomination it moves at submission: "The escrow will hold these
\* funds until finalization or slashing".
OpenWithdrawalsBacked ==
    poolFunded = WithdrawalIds =>
        balances[EscrowContract] >= PoolDenomination * Cardinality(Open)

\* withdrawal-escrow: "After the period expires without challenge, withdrawal
\* executes", here while the registry authorizes the pool, as its comment on
\* authorized-contract asks for, and the nullifier is not spent meanwhile.
UnchallengedExecutes ==
    \A id \in 0 .. MaxWithdrawals - 1 :
        id \in poolFunded /\ authorizedContract = PoolContract
            ~> \/ id \in Finalized \cup DOMAIN challenges
               \/ id \in WithdrawalIds /\ IsNullifierUsed(NullifierOf(id))

\* withdrawal-escrow: "Track reserved nullifiers to prevent concurrent claims on
\* the same nullifier."
NoConcurrentClaims ==
    \A id \in Open : NullifierOf(id) \notin directSpends
=============================================================================
