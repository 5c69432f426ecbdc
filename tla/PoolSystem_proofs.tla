-------------------------- MODULE PoolSystem_proofs --------------------------
(***************************************************************************)
(* Proofs that the invariants of PoolSystem hold for every set of users,   *)
(* nullifiers and commitments, every tree depth and every denomination,    *)
(* period and bond.                                                        *)
(***************************************************************************)
EXTENDS PoolSystem, TLAPS

-----------------------------------------------------------------------------
(***************************************************************************)
(* The operators the handlers are built from.                              *)
(***************************************************************************)

\* A transfer that ft-transfer? accepts leaves natural balances.
LEMMA TransferTyped ==
    ASSUME NEW bal \in [Principals -> Nat], NEW amount \in Int,
           NEW sender \in Principals, NEW recipient \in Principals,
           CanTransfer(bal, amount, sender, recipient)
    PROVE  AfterTransfer(bal, amount, sender, recipient) \in [Principals -> Nat]
BY DEF CanTransfer, AfterTransfer

\* So does the relayer fee, paid or skipped.
LEMMA FeeTyped ==
    ASSUME NEW bal \in [Principals -> Nat], NEW fee \in Nat,
           NEW sender \in Principals, NEW relayer \in Principals,
           CanPayFee(bal, fee, sender, relayer)
    PROVE  AfterFee(bal, fee, sender, relayer) \in [Principals -> Nat]
BY TransferTyped DEF CanPayFee, AfterFee

\* map-set adds one key and one value.
LEMMA MapSetTyped ==
    ASSUME NEW D, NEW S, NEW map \in [D -> S], NEW key, NEW value \in S
    PROVE  MapSet(map, key, value) \in [D \cup {key} -> S]
BY DEF MapSet

LEMMA PrincipalsTyped ==
    /\ Signers \subseteq Principals
    /\ ContractOwner \in Signers
    /\ PoolContract \in Principals /\ EscrowContract \in Principals
    /\ PoolContract \notin Signers /\ EscrowContract \notin Signers
    /\ PoolContract # EscrowContract
BY PrincipalsAssumption DEF Signers, Principals, Contracts
-----------------------------------------------------------------------------
(***************************************************************************)
(* Type correctness.  The escrow's part first, for the two transactions    *)
(* that submit a withdrawal.                                               *)
(***************************************************************************)
EscrowTypeOK ==
    /\ nextWithdrawalId \in Nat
    /\ pendingWithdrawals \in [0 .. nextWithdrawalId - 1 -> PendingWithdrawal]
    /\ DOMAIN reservedNullifiers \subseteq Nullifiers
    /\ \A n \in DOMAIN reservedNullifiers : reservedNullifiers[n] \in WithdrawalIds
    /\ DOMAIN challenges \subseteq WithdrawalIds
    /\ challenges \in [DOMAIN challenges -> Challenge]

LEMMA SubmitTyped ==
    ASSUME TypeOK,
           NEW bal \in [Principals -> Nat], NEW relayer \in Principals,
           NEW nullifier \in Nullifiers, NEW r, NEW recipient \in Principals,
           NEW fee \in Nat, NEW bond \in Nat,
           SubmitWithdrawal(bal, relayer, nullifier, r, recipient, fee, bond)
    PROVE  /\ balances' \in [Principals -> Nat]
           /\ EscrowTypeOK'
           /\ WithdrawalIds' = WithdrawalIds \cup {nextWithdrawalId}
           /\ nextWithdrawalId \notin WithdrawalIds
<1> DEFINE w == [nullifier |-> nullifier, recipient |-> recipient,
                 relayer |-> relayer, relayerFee |-> fee, bond |-> bond,
                 submitBlock |-> stacksBlockHeight, status |-> "pending"]
<1>1. balances' \in [Principals -> Nat]
  BY TransferTyped, PrincipalsTyped DEF SubmitWithdrawal
<1>2. w \in PendingWithdrawal
  BY DEF TypeOK, PendingWithdrawal
<1>3. pendingWithdrawals' \in
          [(0 .. nextWithdrawalId - 1) \cup {nextWithdrawalId} -> PendingWithdrawal]
  <2>1. pendingWithdrawals' = MapSet(pendingWithdrawals, nextWithdrawalId, w)
    BY DEF SubmitWithdrawal
  <2> HIDE DEF w
  <2> QED
    BY <1>2, <2>1, MapSetTyped DEF TypeOK
<1>4. /\ nextWithdrawalId' = nextWithdrawalId + 1
      /\ nextWithdrawalId' \in Nat
      /\ (0 .. nextWithdrawalId - 1) \cup {nextWithdrawalId} = 0 .. nextWithdrawalId' - 1
  BY DEF TypeOK, SubmitWithdrawal
<1>5. /\ WithdrawalIds = 0 .. nextWithdrawalId - 1
      /\ WithdrawalIds' = WithdrawalIds \cup {nextWithdrawalId}
      /\ nextWithdrawalId \notin WithdrawalIds
  BY <1>3 DEF TypeOK, WithdrawalIds
<1>6. /\ DOMAIN reservedNullifiers' \subseteq Nullifiers
      /\ \A n \in DOMAIN reservedNullifiers' : reservedNullifiers'[n] \in WithdrawalIds'
  BY <1>5 DEF TypeOK, SubmitWithdrawal, MapSet
<1>7. /\ DOMAIN challenges' \subseteq WithdrawalIds'
      /\ challenges' \in [DOMAIN challenges' -> Challenge]
  BY <1>5 DEF TypeOK, SubmitWithdrawal
<1> QED
  BY <1>1, <1>3, <1>4, <1>5, <1>6, <1>7 DEF EscrowTypeOK

LEMMA TypeInit == Init => TypeOK
<1> SUFFICES ASSUME Init PROVE TypeOK
  OBVIOUS
<1>1. /\ stacksBlockHeight \in Nat
      /\ balances \in [Principals -> Nat]
      /\ usedNullifiers \subseteq Nullifiers
      /\ authorizedContract \in Principals
  BY InitialBalancesAssumption, PrincipalsTyped DEF Init, RegistryInit
<1>2. /\ nextLeafIndex \in Nat
      /\ currentRoot \in knownRoots
      /\ authorizedCallers \subseteq Principals
  BY DEF Init, MerkleTreeInit
<1>3. EscrowTypeOK
  <2>1. 0 .. 0 - 1 = {}
    OBVIOUS
  <2> QED
    BY <2>1 DEF Init, EscrowInit, EscrowTypeOK, EmptyMap, WithdrawalIds
<1>4. /\ depositCommitments \subseteq Commitments
      /\ directSpends \subseteq Nullifiers
      /\ poolFunded \subseteq WithdrawalIds
      /\ rejections \in [WithdrawalIds -> 0 .. MaxRejections]
  BY DEF Init, PoolInit, EscrowInit, EmptyMap, WithdrawalIds
<1> QED
  BY <1>1, <1>2, <1>3, <1>4 DEF EscrowTypeOK, TypeOK

LEMMA TypeStep == TypeOK /\ [Next]_vars => TypeOK'
<1> SUFFICES ASSUME TypeOK, [Next]_vars PROVE TypeOK'
  OBVIOUS
<1> USE PrincipalsTyped
<1>1. CASE DepositTx
  <2>1. PICK source \in Signers, commitment \in Commitments :
            Deposit(source, commitment) /\ UNCHANGED historyVars
    BY <1>1 DEF DepositTx
  <2>2. balances' \in [Principals -> Nat]
    <3>1. PoolDenomination \in Int
      BY EscrowAssumption
    <3> QED
      BY <2>1, <3>1, TransferTyped DEF TypeOK, Deposit
  <2>3. /\ nextLeafIndex' \in Nat
        /\ currentRoot' \in knownRoots'
        /\ authorizedCallers' \subseteq Principals
    BY <2>1 DEF TypeOK, Deposit, AppendLeaf
  <2>4. UNCHANGED <<stacksBlockHeight, registryVars, escrowVars, historyVars>>
        /\ depositCommitments' \subseteq Commitments
    BY <2>1 DEF TypeOK, Deposit
  <2> QED
    BY <2>2, <2>3, <2>4
    DEF TypeOK, registryVars, escrowVars, historyVars, WithdrawalIds
<1>2. CASE WithdrawTx
  <2>1. PICK relayer \in Signers, nullifier \in Nullifiers, r \in knownRoots,
             recipient \in Recipients, fee \in RelayerFees :
            /\ Withdraw(relayer, nullifier, r, recipient, fee)
            /\ directSpends' = directSpends \cup {nullifier}
            /\ UNCHANGED <<poolFunded, rejections>>
    BY <1>2 DEF WithdrawTx
  <2> DEFINE amount == RecipientAmount(fee)
             paid == AfterTransfer(balances, amount, PoolContract, recipient)
  <2>2. /\ fee \in Nat /\ amount \in Int
        /\ recipient \in Principals /\ relayer \in Principals
    BY InputsAssumption, EscrowAssumption DEF RecipientAmount
  <2>3. /\ CanTransfer(balances, amount, PoolContract, recipient)
        /\ CanPayFee(paid, fee, PoolContract, relayer)
        /\ balances' = AfterFee(paid, fee, PoolContract, relayer)
    BY <2>1 DEF Withdraw
  <2>4. balances' \in [Principals -> Nat]
    <3> HIDE DEF amount
    <3>1. paid \in [Principals -> Nat]
      BY <2>2, <2>3, TransferTyped DEF TypeOK
    <3> HIDE DEF paid
    <3> QED
      BY <2>2, <2>3, <3>1, FeeTyped
  <2>5. /\ usedNullifiers' \subseteq Nullifiers
        /\ authorizedContract' \in Principals
    BY <2>1 DEF TypeOK, Withdraw, MarkUsed
  <2>6. UNCHANGED <<stacksBlockHeight, treeVars, escrowVars, depositCommitments>>
    BY <2>1 DEF Withdraw
  <2> QED
    BY <2>1, <2>4, <2>5, <2>6 DEF TypeOK, treeVars, escrowVars, WithdrawalIds
<1>3. CASE WithdrawOptimisticTx
  <2>1. PICK relayer \in Signers, nullifier \in Nullifiers, r \in knownRoots,
             recipient \in Recipients, fee \in RelayerFees, bond \in Bonds :
            /\ WithdrawOptimistic(relayer, nullifier, r, recipient, fee, bond)
            /\ poolFunded' = poolFunded \cup {nextWithdrawalId}
            /\ rejections' = MapSet(rejections, nextWithdrawalId, 0)
            /\ UNCHANGED directSpends
    BY <1>3 DEF WithdrawOptimisticTx
  <2> DEFINE bal == AfterTransfer(balances, PoolDenomination, PoolContract, EscrowContract)
  <2>2. /\ fee \in Nat /\ bond \in Nat
        /\ recipient \in Principals /\ relayer \in Principals
    BY InputsAssumption
  <2>3. /\ CanTransfer(balances, PoolDenomination, PoolContract, EscrowContract)
        /\ SubmitWithdrawal(bal, relayer, nullifier, r, recipient, fee, bond)
        /\ UNCHANGED depositCommitments
    BY <2>1 DEF WithdrawOptimistic
  <2>4. bal \in [Principals -> Nat]
    <3>1. PoolDenomination \in Int
      BY EscrowAssumption
    <3> QED
      BY <2>3, <3>1, TransferTyped DEF TypeOK
  <2>5. /\ balances' \in [Principals -> Nat]
        /\ EscrowTypeOK'
        /\ WithdrawalIds' = WithdrawalIds \cup {nextWithdrawalId}
    <3> HIDE DEF bal
    <3> QED
      BY <2>2, <2>3, <2>4, SubmitTyped
  <2>6. UNCHANGED <<stacksBlockHeight, registryVars, treeVars>>
    BY <2>3 DEF SubmitWithdrawal
  <2>7. rejections' \in [WithdrawalIds' -> 0 .. MaxRejections]
    <3>1. 0 \in 0 .. MaxRejections
      BY InputsAssumption
    <3> QED
      BY <2>1, <2>5, <3>1, MapSetTyped DEF TypeOK
  <2>8. poolFunded' \subseteq WithdrawalIds'
    BY <2>1, <2>5 DEF TypeOK
  <2> QED
    BY <2>1, <2>3, <2>5, <2>6, <2>7, <2>8 DEF TypeOK, EscrowTypeOK, registryVars, treeVars
<1>4. CASE SubmitWithdrawalTx
  <2>1. PICK relayer \in Signers, nullifier \in Nullifiers, r \in knownRoots,
             recipient \in Recipients, fee \in RelayerFees, bond \in Bonds :
            /\ SubmitWithdrawal(balances, relayer, nullifier, r, recipient, fee, bond)
            /\ rejections' = MapSet(rejections, nextWithdrawalId, 0)
            /\ UNCHANGED <<depositCommitments, directSpends, poolFunded>>
    BY <1>4 DEF SubmitWithdrawalTx
  <2>2. /\ fee \in Nat /\ bond \in Nat
        /\ recipient \in Principals /\ relayer \in Principals
    BY InputsAssumption
  <2>3. /\ balances' \in [Principals -> Nat]
        /\ EscrowTypeOK'
        /\ WithdrawalIds' = WithdrawalIds \cup {nextWithdrawalId}
    <3>1. balances \in [Principals -> Nat]
      BY DEF TypeOK
    <3> QED
      BY <2>1, <2>2, <3>1, SubmitTyped
  <2>4. UNCHANGED <<stacksBlockHeight, registryVars, treeVars>>
    BY <2>1 DEF SubmitWithdrawal
  <2>5. rejections' \in [WithdrawalIds' -> 0 .. MaxRejections]
    <3>1. 0 \in 0 .. MaxRejections
      BY InputsAssumption
    <3> QED
      BY <2>1, <2>3, <3>1, MapSetTyped DEF TypeOK
  <2> QED
    BY <2>1, <2>3, <2>4, <2>5 DEF TypeOK, EscrowTypeOK, registryVars, treeVars
<1>5. CASE \E id \in WithdrawalIds : EscrowTx(id)
  <2>1. PICK id \in WithdrawalIds : EscrowTx(id)
    BY <1>5
  <2> DEFINE w == pendingWithdrawals[id]
  <2>2. /\ w \in PendingWithdrawal
        /\ w.recipient \in Principals /\ w.relayer \in Principals
        /\ w.relayerFee \in Nat /\ w.bond \in Nat
        /\ RecipientAmount(w.relayerFee) \in Int
        /\ balances \in [Principals -> Nat]
    <3>1. w \in PendingWithdrawal
      <4>1. id \in 0 .. nextWithdrawalId - 1
        BY <2>1 DEF TypeOK, WithdrawalIds
      <4> QED
        BY <4>1 DEF TypeOK
    <3>2. balances \in [Principals -> Nat]
      BY DEF TypeOK
    <3> HIDE DEF w
    <3>3. w.relayerFee \in Nat
      BY <3>1 DEF PendingWithdrawal
    <3>4. RecipientAmount(w.relayerFee) \in Int
      BY <3>3, EscrowAssumption DEF RecipientAmount
    <3> QED
      BY <3>1, <3>2, <3>3, <3>4 DEF PendingWithdrawal
  <2>3. CASE FinalizeTx(id)
    <3> DEFINE amount == RecipientAmount(w.relayerFee)
               paid == AfterTransfer(balances, amount, EscrowContract, w.recipient)
               feePaid == AfterFee(paid, w.relayerFee, EscrowContract, w.relayer)
    <3>1. /\ MarkUsed(EscrowContract, w.nullifier)
          /\ CanTransfer(balances, amount, EscrowContract, w.recipient)
          /\ CanPayFee(paid, w.relayerFee, EscrowContract, w.relayer)
          /\ CanTransfer(feePaid, w.bond, EscrowContract, w.relayer)
          /\ balances' = AfterTransfer(feePaid, w.bond, EscrowContract, w.relayer)
          /\ pendingWithdrawals' = [pendingWithdrawals EXCEPT ![id].status = "finalized"]
          /\ UNCHANGED <<stacksBlockHeight, treeVars, nextWithdrawalId,
                         reservedNullifiers, challenges>>
          /\ UNCHANGED <<depositCommitments, historyVars>>
      BY <2>3 DEF FinalizeTx, FinalizeWithdrawal
    <3>2. balances' \in [Principals -> Nat]
      <4> HIDE DEF amount, w
      <4>1. paid \in [Principals -> Nat]
        BY <2>2, <3>1, TransferTyped DEF amount
      <4> HIDE DEF paid
      <4>2. feePaid \in [Principals -> Nat]
        BY <2>2, <3>1, <4>1, FeeTyped
      <4> HIDE DEF feePaid
      <4> QED
        BY <2>2, <3>1, <4>2, TransferTyped
    <3>3. pendingWithdrawals' \in [0 .. nextWithdrawalId' - 1 -> PendingWithdrawal]
      BY <3>1 DEF TypeOK, PendingWithdrawal
    <3>4. /\ usedNullifiers' \subseteq Nullifiers
          /\ authorizedContract' \in Principals
      BY <2>2, <3>1 DEF TypeOK, MarkUsed, PendingWithdrawal
    <3>5. WithdrawalIds' = WithdrawalIds
      BY <3>1 DEF WithdrawalIds
    <3> QED
      BY <3>1, <3>2, <3>3, <3>4, <3>5 DEF TypeOK, treeVars, historyVars
  <2>4. CASE ChallengeTx(id)
    <3>1. PICK challenger \in Signers, challengerBond \in Bonds :
              /\ ChallengeWithdrawal(challenger, id, challengerBond)
              /\ UNCHANGED <<depositCommitments, historyVars>>
      BY <2>4 DEF ChallengeTx
    <3> DEFINE c == [challenger |-> challenger, challengerBond |-> challengerBond,
                     challengeBlock |-> stacksBlockHeight, resolved |-> FALSE]
    <3>2. /\ challengerBond \in Nat
          /\ c \in Challenge
      BY InputsAssumption DEF TypeOK, Challenge
    <3>3. balances' \in [Principals -> Nat]
      BY <2>2, <3>1, <3>2, TransferTyped DEF ChallengeWithdrawal
    <3>4. /\ pendingWithdrawals' = [pendingWithdrawals EXCEPT ![id].status = "challenged"]
          /\ challenges' = MapSet(challenges, id, c)
          /\ UNCHANGED <<stacksBlockHeight, registryVars, treeVars, nextWithdrawalId,
                         reservedNullifiers>>
      BY <3>1 DEF ChallengeWithdrawal
    <3>5. pendingWithdrawals' \in [0 .. nextWithdrawalId' - 1 -> PendingWithdrawal]
      BY <3>4 DEF TypeOK, PendingWithdrawal
    <3>6. WithdrawalIds' = WithdrawalIds
      BY <3>4 DEF WithdrawalIds
    <3>7. /\ DOMAIN challenges' \subseteq WithdrawalIds'
          /\ challenges' \in [DOMAIN challenges' -> Challenge]
      <4> HIDE DEF c
      <4>1. challenges' \in [DOMAIN challenges \cup {id} -> Challenge]
        BY <3>2, <3>4, MapSetTyped DEF TypeOK
      <4> QED
        BY <3>6, <4>1 DEF TypeOK
    <3> QED
      BY <3>1, <3>3, <3>4, <3>5, <3>6, <3>7 DEF TypeOK, treeVars, registryVars, historyVars
  <2>5. CASE UpholdTx(id)
    <3>1. PICK sender \in Signers :
              UpholdChallenge(sender, id) /\ UNCHANGED <<depositCommitments, historyVars>>
      BY <2>5 DEF UpholdTx
    <3> DEFINE c == challenges[id]
               slashed == AfterTransfer(balances, w.bond, EscrowContract, c.challenger)
               returned == AfterTransfer(slashed, c.challengerBond, EscrowContract,
                                         c.challenger)
    <3>2. /\ id \in DOMAIN challenges
          /\ CanTransfer(balances, w.bond, EscrowContract, c.challenger)
          /\ CanTransfer(slashed, c.challengerBond, EscrowContract, c.challenger)
          /\ CanTransfer(returned, PoolDenomination, EscrowContract, ContractOwner)
          /\ balances' = AfterTransfer(returned, PoolDenomination,
                                       EscrowContract, ContractOwner)
          /\ reservedNullifiers' = MapDelete(reservedNullifiers, w.nullifier)
          /\ pendingWithdrawals' = [pendingWithdrawals EXCEPT ![id].status = "slashed"]
          /\ challenges' = [challenges EXCEPT ![id].resolved = TRUE]
          /\ UNCHANGED <<stacksBlockHeight, registryVars, treeVars, nextWithdrawalId>>
      BY <3>1 DEF UpholdChallenge
    <3>3. /\ c.challenger \in Principals /\ c.challengerBond \in Nat
          /\ PoolDenomination \in Int
      BY <3>2, EscrowAssumption DEF TypeOK, Challenge
    <3>4. balances' \in [Principals -> Nat]
      <4> HIDE DEF w, c
      <4>1. slashed \in [Principals -> Nat]
        BY <2>2, <3>2, <3>3, TransferTyped
      <4> HIDE DEF slashed
      <4>2. returned \in [Principals -> Nat]
        BY <3>2, <3>3, <4>1, TransferTyped
      <4> HIDE DEF returned
      <4> QED
        BY <3>2, <3>3, <4>2, TransferTyped
    <3>5. pendingWithdrawals' \in [0 .. nextWithdrawalId' - 1 -> PendingWithdrawal]
      BY <3>2 DEF TypeOK, PendingWithdrawal
    <3>6. WithdrawalIds' = WithdrawalIds
      BY <3>2 DEF WithdrawalIds
    <3>7. /\ DOMAIN reservedNullifiers' \subseteq Nullifiers
          /\ \A n \in DOMAIN reservedNullifiers' : reservedNullifiers'[n] \in WithdrawalIds'
      BY <3>2, <3>6 DEF TypeOK, MapDelete
    <3>8. /\ DOMAIN challenges' \subseteq WithdrawalIds'
          /\ challenges' \in [DOMAIN challenges' -> Challenge]
      BY <3>2, <3>6 DEF TypeOK, Challenge
    <3> QED
      BY <3>1, <3>2, <3>4, <3>5, <3>6, <3>7, <3>8
      DEF TypeOK, treeVars, registryVars, historyVars
  <2>6. CASE RejectTx(id)
    <3>1. PICK sender \in Signers :
              /\ RejectChallenge(sender, id)
              /\ rejections[id] < MaxRejections
              /\ rejections' = [rejections EXCEPT ![id] = @ + 1]
              /\ UNCHANGED <<depositCommitments, directSpends, poolFunded>>
      BY <2>6 DEF RejectTx
    <3> DEFINE c == challenges[id]
               forfeited == AfterTransfer(balances, c.challengerBond, EscrowContract,
                                          w.relayer)
    <3>2. /\ id \in DOMAIN challenges
          /\ CanTransfer(balances, c.challengerBond, EscrowContract, w.relayer)
          /\ CanTransfer(forfeited, w.bond, EscrowContract, w.relayer)
          /\ balances' = AfterTransfer(forfeited, w.bond, EscrowContract, w.relayer)
          /\ pendingWithdrawals' = [pendingWithdrawals EXCEPT ![id] = PendingAgain(w)]
          /\ challenges' = [challenges EXCEPT ![id].resolved = TRUE]
          /\ UNCHANGED <<stacksBlockHeight, registryVars, treeVars, nextWithdrawalId,
                         reservedNullifiers>>
      BY <3>1 DEF RejectChallenge
    <3>3. c.challengerBond \in Nat
      BY <3>2 DEF TypeOK, Challenge
    <3>4. balances' \in [Principals -> Nat]
      <4> HIDE DEF w, c
      <4>1. forfeited \in [Principals -> Nat]
        BY <2>2, <3>2, <3>3, TransferTyped
      <4> HIDE DEF forfeited
      <4> QED
        BY <2>2, <3>2, <4>1, TransferTyped
    <3>5. pendingWithdrawals' \in [0 .. nextWithdrawalId' - 1 -> PendingWithdrawal]
      <4>1. PendingAgain(w) \in PendingWithdrawal
        BY <2>2 DEF TypeOK, PendingAgain, PendingWithdrawal
      <4> QED
        BY <3>2, <4>1 DEF TypeOK
    <3>6. WithdrawalIds' = WithdrawalIds
      BY <3>2 DEF WithdrawalIds
    <3>7. /\ DOMAIN challenges' \subseteq WithdrawalIds'
          /\ challenges' \in [DOMAIN challenges' -> Challenge]
      BY <3>2, <3>6 DEF TypeOK, Challenge
    <3>8. rejections' \in [WithdrawalIds' -> 0 .. MaxRejections]
      BY <2>1, <3>1, <3>6, InputsAssumption DEF TypeOK
    <3> QED
      BY <3>1, <3>2, <3>4, <3>5, <3>6, <3>7, <3>8 DEF TypeOK, treeVars, registryVars
  <2> QED
    BY <2>1, <2>3, <2>4, <2>5, <2>6 DEF EscrowTx
<1>6. CASE SetAuthorizedContractTx
  BY <1>6, InputsAssumption
  DEF SetAuthorizedContractTx, SetAuthorizedContract, TypeOK, treeVars, escrowVars,
      historyVars, WithdrawalIds
<1>7. CASE MarkUsedTx
  BY <1>7, InputsAssumption
  DEF MarkUsedTx, MarkUsed, TypeOK, treeVars, escrowVars, historyVars, WithdrawalIds
<1>8. CASE SetAuthorizedCallerTx
  BY <1>8, InputsAssumption
  DEF SetAuthorizedCallerTx, SetAuthorizedCaller, TypeOK, registryVars, escrowVars,
      historyVars, WithdrawalIds
<1>9. CASE AppendLeafTx
  BY <1>9
  DEF AppendLeafTx, AppendLeaf, TypeOK, registryVars, escrowVars, historyVars,
      WithdrawalIds
<1>10. CASE TransferTx
  <2>1. PICK sender \in Signers, recipient \in Principals, amount \in TransferAmounts :
            /\ SbtcTransfer(sender, amount, recipient)
            /\ UNCHANGED <<stacksBlockHeight, registryVars, treeVars, escrowVars,
                           depositCommitments, historyVars>>
    BY <1>10 DEF TransferTx
  <2>2. amount \in Int
    BY InputsAssumption
  <2>3. balances' \in [Principals -> Nat]
    BY <2>1, <2>2, TransferTyped DEF SbtcTransfer, TypeOK
  <2> QED
    BY <2>1, <2>3 DEF TypeOK, registryVars, treeVars, escrowVars, historyVars, WithdrawalIds
<1>11. CASE BlockMined
  <2>1. /\ stacksBlockHeight' = stacksBlockHeight + 1
        /\ UNCHANGED <<balances, registryVars, treeVars, escrowVars,
                       depositCommitments, historyVars>>
    BY <1>11, Zenon DEF BlockMined, NewBlock
  <2> QED
    BY <2>1 DEF TypeOK, registryVars, treeVars, escrowVars, historyVars, WithdrawalIds
<1>12. CASE UNCHANGED vars
  BY <1>12
  DEF vars, contractVars, historyVars, registryVars, treeVars, escrowVars, TypeOK,
      WithdrawalIds
<1> QED
  BY <1>1, <1>2, <1>3, <1>4, <1>5, <1>6, <1>7, <1>8, <1>9, <1>10, <1>11, <1>12 DEF Next

\* Every variable keeps its type; in particular no balance ever goes below zero, so
\* no chain of transfers inside one transaction overdraws the pool or the escrow.
THEOREM TypeCorrect == Spec => []TypeOK
BY TypeInit, TypeStep, PTL DEF Spec
=============================================================================
