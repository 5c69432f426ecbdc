--------------------------- MODULE PoolFunds_proofs ---------------------------
(***************************************************************************)
(* Proofs that the pool and the escrow hold what they owe, for any number  *)
(* of deposits and withdrawals, any denomination and any bonds: the pool   *)
(* the denominations of the deposits, but for those paid out once each,    *)
(* and the escrow the shares of the withdrawals posted to it; and that it  *)
(* is therefore never short of tokens when one of them is to be settled.   *)
(***************************************************************************)
EXTENDS PoolSafety_proofs, Iteration_proofs, FiniteSetTheorems

\* A transfer lowers no balance but the sender's.
LEMMA TransferOthers ==
    ASSUME NEW bal \in [Principals -> Nat], NEW amount \in Int,
           NEW sender \in Principals, NEW recipient \in Principals,
           CanTransfer(bal, amount, sender, recipient),
           NEW p \in Principals, p # sender
    PROVE  AfterTransfer(bal, amount, sender, recipient)[p] >= bal[p]
BY DEF CanTransfer, AfterTransfer

LEMMA FeeOthers ==
    ASSUME NEW bal \in [Principals -> Nat], NEW fee \in Nat,
           NEW sender \in Principals, NEW relayer \in Principals,
           CanPayFee(bal, fee, sender, relayer),
           NEW p \in Principals, p # sender
    PROVE  AfterFee(bal, fee, sender, relayer)[p] >= bal[p]
BY TransferOthers DEF CanPayFee, AfterFee


\* The steps that leave the pool's ledger of deposits and payouts alone take
\* nothing from the pool.
LEMMA EscrowKeepsPool ==
    ASSUME TypeOK, NEW id \in WithdrawalIds, EscrowTx(id)
    PROVE  balances'[PoolContract] >= balances[PoolContract]
<1> USE PrincipalsTyped
<1> DEFINE w == pendingWithdrawals[id]
           c == challenges[id]
<1>1. /\ balances \in [Principals -> Nat]
      /\ w.recipient \in Principals /\ w.relayer \in Principals
      /\ w.relayerFee \in Nat /\ w.bond \in Nat
      /\ PoolDenomination \in Int
  <2>1. w \in PendingWithdrawal
    BY WithdrawalTyped
  <2> HIDE DEF w
  <2> QED
    BY <2>1, EscrowAssumption DEF TypeOK, PendingWithdrawal
<1>2. id \in DOMAIN challenges => c.challenger \in Principals /\ c.challengerBond \in Nat
  BY WithdrawalTyped DEF Challenge
<1> HIDE DEF w, c
<1>3. CASE FinalizeTx(id)
  <2> DEFINE amount == RecipientAmount(w.relayerFee)
             paid == AfterTransfer(balances, amount, EscrowContract, w.recipient)
             feePaid == AfterFee(paid, w.relayerFee, EscrowContract, w.relayer)
  <2>1. /\ CanTransfer(balances, amount, EscrowContract, w.recipient)
        /\ CanPayFee(paid, w.relayerFee, EscrowContract, w.relayer)
        /\ CanTransfer(feePaid, w.bond, EscrowContract, w.relayer)
        /\ balances' = AfterTransfer(feePaid, w.bond, EscrowContract, w.relayer)
    BY <1>3 DEF FinalizeTx, FinalizeWithdrawal, w
  <2>2. amount \in Int
    BY <1>1 DEF RecipientAmount
  <2> HIDE DEF amount
  <2>3. /\ paid \in [Principals -> Nat]
        /\ paid[PoolContract] >= balances[PoolContract]
    BY <1>1, <2>1, <2>2, TransferTyped, TransferOthers
  <2> HIDE DEF paid
  <2>4. /\ feePaid \in [Principals -> Nat]
        /\ feePaid[PoolContract] >= paid[PoolContract]
    BY <1>1, <2>1, <2>3, FeeTyped, FeeOthers
  <2> HIDE DEF feePaid
  <2>5. /\ balances' \in [Principals -> Nat]
        /\ balances'[PoolContract] >= feePaid[PoolContract]
    BY <1>1, <2>1, <2>4, TransferTyped, TransferOthers
  <2> QED
    BY <1>1, <2>3, <2>4, <2>5
<1>4. CASE ChallengeTx(id)
  <2>1. PICK challenger \in Signers, challengerBond \in Bonds :
            ChallengeWithdrawal(challenger, id, challengerBond)
    BY <1>4 DEF ChallengeTx
  <2>2. /\ CanTransfer(balances, challengerBond, challenger, EscrowContract)
        /\ balances' = AfterTransfer(balances, challengerBond, challenger, EscrowContract)
    BY <2>1 DEF ChallengeWithdrawal
  <2>3. challengerBond \in Int /\ challenger \in Principals /\ challenger # PoolContract
    BY InputsAssumption
  <2> QED
    BY <1>1, <2>2, <2>3, TransferOthers
<1>5. CASE UpholdTx(id)
  <2> DEFINE slashed == AfterTransfer(balances, w.bond, EscrowContract, c.challenger)
             returned == AfterTransfer(slashed, c.challengerBond, EscrowContract,
                                       c.challenger)
  <2>1. /\ id \in DOMAIN challenges
        /\ CanTransfer(balances, w.bond, EscrowContract, c.challenger)
        /\ CanTransfer(slashed, c.challengerBond, EscrowContract, c.challenger)
        /\ CanTransfer(returned, PoolDenomination, EscrowContract, ContractOwner)
        /\ balances' = AfterTransfer(returned, PoolDenomination,
                                     EscrowContract, ContractOwner)
    BY <1>5 DEF UpholdTx, UpholdChallenge, w, c
  <2>2. c.challenger \in Principals /\ c.challengerBond \in Nat
    BY <1>2, <2>1
  <2>3. /\ slashed \in [Principals -> Nat]
        /\ slashed[PoolContract] >= balances[PoolContract]
    BY <1>1, <2>1, <2>2, TransferTyped, TransferOthers
  <2> HIDE DEF slashed
  <2>4. /\ returned \in [Principals -> Nat]
        /\ returned[PoolContract] >= slashed[PoolContract]
    BY <1>1, <2>1, <2>2, <2>3, TransferTyped, TransferOthers
  <2> HIDE DEF returned
  <2>5. /\ balances' \in [Principals -> Nat]
        /\ balances'[PoolContract] >= returned[PoolContract]
    BY <1>1, <2>1, <2>4, TransferTyped, TransferOthers
  <2> QED
    BY <1>1, <2>3, <2>4, <2>5
<1>6. CASE RejectTx(id)
  <2> DEFINE forfeited == AfterTransfer(balances, c.challengerBond, EscrowContract,
                                        w.relayer)
  <2>1. /\ id \in DOMAIN challenges
        /\ CanTransfer(balances, c.challengerBond, EscrowContract, w.relayer)
        /\ CanTransfer(forfeited, w.bond, EscrowContract, w.relayer)
        /\ balances' = AfterTransfer(forfeited, w.bond, EscrowContract, w.relayer)
    BY <1>6 DEF RejectTx, RejectChallenge, w, c
  <2>2. c.challengerBond \in Nat
    BY <1>2, <2>1
  <2>3. /\ forfeited \in [Principals -> Nat]
        /\ forfeited[PoolContract] >= balances[PoolContract]
    BY <1>1, <2>1, <2>2, TransferTyped, TransferOthers
  <2> HIDE DEF forfeited
  <2>4. /\ balances' \in [Principals -> Nat]
        /\ balances'[PoolContract] >= forfeited[PoolContract]
    BY <1>1, <2>1, <2>3, TransferTyped, TransferOthers
  <2> QED
    BY <1>1, <2>3, <2>4
<1> QED
  BY <1>3, <1>4, <1>5, <1>6 DEF EscrowTx

-----------------------------------------------------------------------------
(***************************************************************************)
(* The pool's ledger: three finite sets that only grow, and the balance    *)
(* that must match them.                                                   *)
(***************************************************************************)
LedgerVars == <<directSpends, poolFunded, depositCommitments>>

SolvencyInv ==
    /\ IsFiniteSet(directSpends)
    /\ IsFiniteSet(poolFunded)
    /\ IsFiniteSet(depositCommitments)
    /\ PoolSolvent

\* PoolSolvent over numbers: what one more deposit, and one more payout, do to it.
LEMMA OneMoreDeposit ==
    ASSUME NEW balance \in Nat, NEW spent \in Nat, NEW deposits \in Nat, NEW d \in Nat,
           balance + d * spent >= d * deposits
    PROVE  (balance + d) + d * spent >= d * (deposits + 1)
<1>1. d * (deposits + 1) = d * deposits + d
  OBVIOUS
<1>2. d * spent \in Int /\ d * deposits \in Int
  OBVIOUS
<1> QED
  BY <1>1, <1>2

LEMMA OneMorePayout ==
    ASSUME NEW balance \in Nat, NEW spent \in Nat, NEW deposits \in Nat, NEW d \in Nat,
           NEW left \in Nat, left >= balance - d,
           balance + d * spent >= d * deposits
    PROVE  left + d * (spent + 1) >= d * deposits
<1>1. d * (spent + 1) = d * spent + d
  OBVIOUS
<1>2. d * spent \in Int /\ d * deposits \in Int
  OBVIOUS
<1> QED
  BY <1>1, <1>2

LEMMA NothingTaken ==
    ASSUME NEW balance \in Nat, NEW spent \in Nat, NEW deposits \in Nat, NEW d \in Nat,
           NEW left \in Nat, left >= balance,
           balance + d * spent >= d * deposits
    PROVE  left + d * spent >= d * deposits
<1>1. d * spent \in Int /\ d * deposits \in Int
  OBVIOUS
<1> QED
  BY <1>1

LEMMA SolvencyTyped ==
    ASSUME TypeOK, SolvencyInv
    PROVE  /\ balances \in [Principals -> Nat]
           /\ balances[PoolContract] \in Nat
           /\ PoolDenomination \in Nat
           /\ Cardinality(directSpends) \in Nat
           /\ Cardinality(poolFunded) \in Nat
           /\ Cardinality(depositCommitments) \in Nat
BY PrincipalsTyped, EscrowAssumption, FS_CardinalityType DEF TypeOK, SolvencyInv

LEMMA SolvencyInit == Init => SolvencyInv
<1> SUFFICES ASSUME Init PROVE SolvencyInv
  OBVIOUS
<1>1. IsFiniteSet({}) /\ Cardinality({}) = 0
  BY FS_EmptySet
<1>2. /\ directSpends = {} /\ poolFunded = {} /\ depositCommitments = {}
      /\ balances[PoolContract] \in Nat
  BY InitialBalancesAssumption, PrincipalsTyped DEF Init, PoolInit
<1>3. PoolDenomination * (0 + 0) = 0 /\ PoolDenomination * 0 = 0
  BY EscrowAssumption
<1> QED
  BY <1>1, <1>2, <1>3 DEF SolvencyInv, PoolSolvent

LEMMA SolvencyStep ==
    TypeOK /\ PayoutsMarked /\ SolvencyInv /\ [Next]_vars /\ TypeOK' => SolvencyInv'
<1> SUFFICES ASSUME TypeOK, PayoutsMarked, SolvencyInv, [Next]_vars, TypeOK'
             PROVE  SolvencyInv'
  OBVIOUS
<1> USE PrincipalsTyped
<1> DEFINE balance == balances[PoolContract]
           payouts == Cardinality(directSpends) + Cardinality(poolFunded)
           deposits == Cardinality(depositCommitments)
<1>0. /\ balance \in Nat /\ balance' \in Nat
      /\ payouts \in Nat /\ deposits \in Nat /\ PoolDenomination \in Nat
      /\ balance + PoolDenomination * payouts >= PoolDenomination * deposits
  <2>1. balance' \in Nat
    BY DEF TypeOK
  <2> QED
    BY <2>1, SolvencyTyped DEF SolvencyInv, PoolSolvent
<1>1. CASE UNCHANGED LedgerVars /\ balance' >= balance
  <2>1. balance' + PoolDenomination * payouts >= PoolDenomination * deposits
    <3>1. balance' >= balance
      BY <1>1
    <3> HIDE DEF balance, payouts, deposits
    <3> QED
      BY <1>0, <3>1, NothingTaken
  <2> QED
    BY <1>1, <2>1 DEF LedgerVars, SolvencyInv, PoolSolvent
<1>2. CASE DepositTx
  <2>1. PICK source \in Signers, commitment \in Commitments :
            Deposit(source, commitment) /\ UNCHANGED historyVars
    BY <1>2 DEF DepositTx
  <2>2. /\ commitment \notin depositCommitments
        /\ depositCommitments' = depositCommitments \cup {commitment}
        /\ CanTransfer(balances, PoolDenomination, source, PoolContract)
        /\ balances' = AfterTransfer(balances, PoolDenomination, source, PoolContract)
        /\ UNCHANGED <<directSpends, poolFunded>>
    BY <2>1 DEF Deposit, historyVars
  <2>3. balance' = balance + PoolDenomination
    BY <1>0, <2>2 DEF AfterTransfer, TypeOK
  <2>4. /\ IsFiniteSet(depositCommitments')
        /\ Cardinality(depositCommitments') = deposits + 1
    BY <2>2, FS_AddElement DEF SolvencyInv
  <2>5. balance' + PoolDenomination * payouts >= PoolDenomination * (deposits + 1)
    <3> HIDE DEF balance, payouts, deposits
    <3> QED
      BY <1>0, <2>3, OneMoreDeposit
  <2> QED
    BY <2>2, <2>4, <2>5 DEF SolvencyInv, PoolSolvent
<1>3. CASE WithdrawTx
  <2>1. PICK relayer \in Signers, nullifier \in Nullifiers, r \in knownRoots,
             recipient \in Recipients, fee \in RelayerFees :
            /\ Withdraw(relayer, nullifier, r, recipient, fee)
            /\ directSpends' = directSpends \cup {nullifier}
            /\ UNCHANGED <<poolFunded, rejections>>
    BY <1>3 DEF WithdrawTx
  <2> DEFINE amount == RecipientAmount(fee)
             paid == AfterTransfer(balances, amount, PoolContract, recipient)
  <2>2. /\ CanTransfer(balances, amount, PoolContract, recipient)
        /\ CanPayFee(paid, fee, PoolContract, relayer)
        /\ balances' = AfterFee(paid, fee, PoolContract, relayer)
        /\ nullifier \notin usedNullifiers
        /\ UNCHANGED depositCommitments
    BY <2>1 DEF Withdraw, IsNullifierUsed
  <2>3. /\ fee \in Nat /\ amount = PoolDenomination - fee /\ amount \in Int
        /\ recipient \in Principals /\ relayer \in Principals /\ relayer # PoolContract
    BY <1>0, InputsAssumption DEF RecipientAmount
  <2>4. balance' = balance - PoolDenomination
    <3> HIDE DEF amount
    <3>1. /\ paid \in [Principals -> Nat]
          /\ paid[PoolContract] = balance - amount
      <4>1. recipient # PoolContract
        BY <2>2 DEF CanTransfer
      <4> QED
        BY <2>2, <2>3, <4>1, TransferTyped DEF AfterTransfer, TypeOK
    <3> HIDE DEF paid
    <3>2. balances'[PoolContract] = paid[PoolContract] - fee
      <4>1. CASE fee > 0
        BY <2>2, <2>3, <3>1, <4>1 DEF AfterFee, AfterTransfer
      <4>2. CASE fee = 0
        BY <2>2, <2>3, <3>1, <4>2 DEF AfterFee
      <4> QED
        BY <2>3, <4>1, <4>2
    <3> QED
      BY <1>0, <2>3, <3>1, <3>2
  <2>5. /\ IsFiniteSet(directSpends')
        /\ Cardinality(directSpends') = Cardinality(directSpends) + 1
    <3>1. nullifier \notin directSpends
      BY <2>2 DEF PayoutsMarked
    <3> QED
      BY <2>1, <3>1, FS_AddElement DEF SolvencyInv
  <2>6. balance' + PoolDenomination * (payouts + 1) >= PoolDenomination * deposits
    <3> HIDE DEF balance, payouts, deposits
    <3> QED
      BY <1>0, <2>4, OneMorePayout
  <2>7. Cardinality(directSpends') + Cardinality(poolFunded') = payouts + 1
    BY <2>1, <2>5, SolvencyTyped
  <2> QED
    BY <2>1, <2>2, <2>5, <2>6, <2>7 DEF SolvencyInv, PoolSolvent
<1>4. CASE WithdrawOptimisticTx
  <2>1. PICK relayer \in Signers, nullifier \in Nullifiers, r \in knownRoots,
             recipient \in Recipients, fee \in RelayerFees, bond \in Bonds :
            /\ WithdrawOptimistic(relayer, nullifier, r, recipient, fee, bond)
            /\ poolFunded' = poolFunded \cup {nextWithdrawalId}
            /\ UNCHANGED directSpends
    BY <1>4, Zenon DEF WithdrawOptimisticTx
  <2> DEFINE bal == AfterTransfer(balances, PoolDenomination, PoolContract, EscrowContract)
  <2>2. /\ CanTransfer(balances, PoolDenomination, PoolContract, EscrowContract)
        /\ SubmitWithdrawal(bal, relayer, nullifier, r, recipient, fee, bond)
        /\ UNCHANGED depositCommitments
    BY <2>1, Zenon DEF WithdrawOptimistic
  <2>3. /\ bal \in [Principals -> Nat]
        /\ bal[PoolContract] = balance - PoolDenomination
    <3>1. balances \in [Principals -> Nat] /\ PoolDenomination \in Int
      BY <1>0 DEF TypeOK
    <3>2. bal \in [Principals -> Nat]
      BY <2>2, <3>1, TransferTyped
    <3>3. bal[PoolContract] = balances[PoolContract] - PoolDenomination
      BY <3>1 DEF AfterTransfer
    <3> QED
      BY <3>2, <3>3
  <2>4. bond \in Int /\ relayer \in Principals /\ relayer # PoolContract
    BY InputsAssumption
  <2>5. balance' >= balance - PoolDenomination
    <3>1. /\ CanTransfer(bal, bond, relayer, EscrowContract)
          /\ balances' = AfterTransfer(bal, bond, relayer, EscrowContract)
      BY <2>2 DEF SubmitWithdrawal
    <3> QED
      BY <2>3, <2>4, <3>1, TransferOthers
  <2>6. /\ IsFiniteSet(poolFunded')
        /\ Cardinality(poolFunded') = Cardinality(poolFunded) + 1
    <3>1. nextWithdrawalId \notin poolFunded
      BY DEF TypeOK, WithdrawalIds
    <3> QED
      BY <2>1, <3>1, FS_AddElement DEF SolvencyInv
  <2>7. balance' + PoolDenomination * (payouts + 1) >= PoolDenomination * deposits
    <3> HIDE DEF balance, payouts, deposits
    <3> QED
      BY <1>0, <2>5, OneMorePayout
  <2>8. Cardinality(directSpends') + Cardinality(poolFunded') = payouts + 1
    BY <2>1, <2>6, SolvencyTyped
  <2> QED
    BY <2>1, <2>2, <2>6, <2>7, <2>8 DEF SolvencyInv, PoolSolvent
<1>5. CASE SubmitWithdrawalTx
  <2>1. PICK relayer \in Signers, nullifier \in Nullifiers, r \in knownRoots,
             recipient \in Recipients, fee \in RelayerFees, bond \in Bonds :
            /\ SubmitWithdrawal(balances, relayer, nullifier, r, recipient, fee, bond)
            /\ UNCHANGED <<depositCommitments, directSpends, poolFunded>>
    BY <1>5, Zenon DEF SubmitWithdrawalTx
  <2>2. /\ CanTransfer(balances, bond, relayer, EscrowContract)
        /\ balances' = AfterTransfer(balances, bond, relayer, EscrowContract)
    BY <2>1 DEF SubmitWithdrawal
  <2>3. bond \in Int /\ relayer \in Principals /\ relayer # PoolContract
    BY InputsAssumption
  <2>4. balance' >= balance
    BY <2>2, <2>3, TransferOthers DEF TypeOK
  <2> QED
    BY <1>1, <2>1, <2>4 DEF LedgerVars
<1>6. CASE \E id \in WithdrawalIds : EscrowTx(id)
  <2>1. PICK id \in WithdrawalIds : EscrowTx(id)
    BY <1>6
  <2>2. UNCHANGED LedgerVars
    <3>1. UNCHANGED <<depositCommitments, directSpends, poolFunded>>
      <4>1. CASE FinalizeTx(id)
        BY <4>1 DEF FinalizeTx, historyVars
      <4>2. CASE ChallengeTx(id)
        BY <4>2 DEF ChallengeTx, historyVars
      <4>3. CASE UpholdTx(id)
        BY <4>3 DEF UpholdTx, historyVars
      <4>4. CASE RejectTx(id)
        BY <4>4 DEF RejectTx
      <4> QED
        BY <2>1, <4>1, <4>2, <4>3, <4>4 DEF EscrowTx
    <3> QED
      BY <3>1 DEF LedgerVars
  <2> QED
    BY <1>1, <2>1, <2>2, EscrowKeepsPool
<1>7. CASE TransferTx
  <2>1. PICK sender \in Signers, recipient \in Principals, amount \in TransferAmounts :
            /\ SbtcTransfer(sender, amount, recipient)
            /\ UNCHANGED <<depositCommitments, historyVars>>
    BY <1>7, Zenon DEF TransferTx
  <2>2. amount \in Int
    BY InputsAssumption
  <2>3. balance' >= balance
    BY <2>1, <2>2, TransferOthers DEF SbtcTransfer, TypeOK
  <2> QED
    BY <1>1, <2>1, <2>3 DEF LedgerVars, historyVars
<1>8. CASE \/ SetAuthorizedContractTx \/ MarkUsedTx \/ SetAuthorizedCallerTx
           \/ AppendLeafTx \/ BlockMined \/ UNCHANGED vars
  <2>1. UNCHANGED <<balances, depositCommitments, historyVars>>
    BY <1>8, Zenon
    DEF SetAuthorizedContractTx, MarkUsedTx, SetAuthorizedCallerTx, AppendLeafTx,
        BlockMined, NewBlock, vars, contractVars
  <2> QED
    BY <1>0, <1>1, <2>1 DEF LedgerVars, historyVars
<1> QED
  BY <1>2, <1>3, <1>4, <1>5, <1>6, <1>7, <1>8 DEF Next

\* Whatever the users, the deployer and the escrow do, the pool's balance covers
\* the deposits it has not paid out.
THEOREM PoolAlwaysSolvent == Spec => []PoolSolvent
<1>1. PayoutInv => PayoutsMarked
  BY DEF PayoutInv
<1>2. SolvencyInv => PoolSolvent
  BY DEF SolvencyInv
<1> QED
  BY <1>1, <1>2, TypeCorrect, PayoutInit, PayoutStep, SolvencyInit, SolvencyStep, PTL
  DEF Spec
-----------------------------------------------------------------------------
(***************************************************************************)
(* What the escrow holds, as the sum of the withdrawals' shares.  The sum  *)
(* the recursive definition gives is any function that IsSum, and a step   *)
(* adds one term to it or changes one.                                     *)
(***************************************************************************)
LEMMA TransferMoves ==
    ASSUME NEW bal \in [Principals -> Nat], NEW amount \in Int,
           NEW sender \in Principals, NEW recipient \in Principals,
           CanTransfer(bal, amount, sender, recipient)
    PROVE  /\ AfterTransfer(bal, amount, sender, recipient)[sender] = bal[sender] - amount
           /\ AfterTransfer(bal, amount, sender, recipient)[recipient]
                  = bal[recipient] + amount
BY DEF CanTransfer, AfterTransfer

LEMMA FeeMoves ==
    ASSUME NEW bal \in [Principals -> Nat], NEW fee \in Nat,
           NEW sender \in Principals, NEW relayer \in Principals,
           CanPayFee(bal, fee, sender, relayer)
    PROVE  AfterFee(bal, fee, sender, relayer)[sender] = bal[sender] - fee
<1>1. CASE fee > 0
  BY <1>1, TransferMoves DEF CanPayFee, AfterFee
<1>2. CASE fee = 0
  BY <1>2 DEF AfterFee
<1> QED
  BY <1>1, <1>2

\* EscrowShare by what it depends on: the record, the bond of its last challenge, whether
\* the pool funded it, and its rejected challenges.
ShareOf(w, challengerBond, funded, rejected) ==
    (IF funded THEN PoolDenomination ELSE 0)
        + (IF w.status \in {"finalized", "slashed"} THEN -PoolDenomination ELSE w.bond)
        + (IF w.status = "challenged" THEN challengerBond ELSE 0)
        - rejected * w.bond

Shares == [id \in 0 .. nextWithdrawalId - 1 |-> EscrowShare(id)]

SharesUnfold ==
    \A id \in WithdrawalIds :
        EscrowShare(id) = ShareOf(pendingWithdrawals[id], challenges[id].challengerBond,
                                  id \in poolFunded, rejections[id])

LEMMA SharesUnfolded == SharesUnfold
BY DEF SharesUnfold, EscrowShare, ShareOf, Open, Finalized, Slashed, Status

SharesTyped == Shares \in [0 .. nextWithdrawalId - 1 -> Int]

LEMMA ShareTyped ==
    ASSUME NEW w \in PendingWithdrawal, NEW challengerBond, NEW funded \in BOOLEAN,
           NEW rejected \in Nat, w.status = "challenged" => challengerBond \in Nat
    PROVE  ShareOf(w, challengerBond, funded, rejected) \in Int
<1>1. PoolDenomination \in Int /\ w.bond \in Int /\ rejected * w.bond \in Int
  BY EscrowAssumption DEF PendingWithdrawal
<1>2. (IF funded THEN PoolDenomination ELSE 0) \in Int
  BY <1>1
<1>3. (IF w.status \in {"finalized", "slashed"} THEN -PoolDenomination ELSE w.bond) \in Int
  BY <1>1
<1>4. (IF w.status = "challenged" THEN challengerBond ELSE 0) \in Int
  OBVIOUS
<1> QED
  BY <1>1, <1>2, <1>3, <1>4 DEF ShareOf

LEMMA AllSharesTyped == TypeOK /\ ChallengeInv => SharesTyped
<1> SUFFICES ASSUME TypeOK, ChallengeInv, NEW id \in 0 .. nextWithdrawalId - 1
             PROVE  EscrowShare(id) \in Int
  BY DEF SharesTyped, Shares
<1>1. id \in WithdrawalIds
  BY DEF TypeOK, WithdrawalIds
<1> DEFINE w == pendingWithdrawals[id]
           b == challenges[id].challengerBond
<1>2. w \in PendingWithdrawal /\ rejections[id] \in Nat
  BY <1>1, WithdrawalTyped, InputsAssumption DEF TypeOK
<1>3. w.status = "challenged" => b \in Nat
  BY <1>1, WithdrawalTyped DEF ChallengeInv, RecordsMatch, Status, Challenge
<1>4. (id \in poolFunded) \in BOOLEAN
  OBVIOUS
<1>5. EscrowShare(id) = ShareOf(w, b, id \in poolFunded, rejections[id])
  BY <1>1, SharesUnfolded DEF SharesUnfold
<1> HIDE DEF w, b
<1> QED
  BY <1>2, <1>3, <1>4, <1>5, ShareTyped

Accounted ==
    \E sum : /\ IsSum(sum, Shares, nextWithdrawalId)
             /\ balances[EscrowContract] >= sum[nextWithdrawalId]

LEMMA AccountedImplies == TypeOK /\ ChallengeInv /\ Accounted => EscrowAccounted
<1> SUFFICES ASSUME TypeOK, ChallengeInv, Accounted PROVE EscrowAccounted
  OBVIOUS
<1> DEFINE n == nextWithdrawalId
           chosen == CHOOSE s : s = [k \in 0 .. n |-> IF k = 0 THEN 0
                                                      ELSE s[k - 1] + EscrowShare(k - 1)]
           summed == CHOOSE s : s = [k \in 0 .. n |-> IF k = 0 THEN 0
                                                      ELSE s[k - 1] + Shares[k - 1]]
<1>1. n \in Nat /\ Shares \in [0 .. n - 1 -> Int]
  BY AllSharesTyped DEF TypeOK, SharesTyped
<1>2. chosen = summed
  <2>1. \A k \in 0 .. n : k # 0 => Shares[k - 1] = EscrowShare(k - 1)
    BY <1>1 DEF Shares
  <2>2. ASSUME NEW s
        PROVE  [k \in 0 .. n |-> IF k = 0 THEN 0 ELSE s[k - 1] + EscrowShare(k - 1)]
               = [k \in 0 .. n |-> IF k = 0 THEN 0 ELSE s[k - 1] + Shares[k - 1]]
    BY <2>1
  <2> QED
    BY <2>2
<1>3. IsSum(summed, Shares, n)
  BY <1>1, RecursiveSum, Zenon
<1>4. PICK sum : IsSum(sum, Shares, n) /\ balances[EscrowContract] >= sum[n]
  BY DEF Accounted
<1> HIDE DEF summed
<1>5. summed[n] = sum[n]
  <2> HIDE DEF n
  <2> QED
    BY <1>1, <1>3, <1>4, SumUnique
<1>6. balances[EscrowContract] >= chosen[n]
  BY <1>2, <1>4, <1>5
<1> QED
  BY <1>6 DEF EscrowAccounted

LEMMA AccountedInit == Init => Accounted
<1> SUFFICES ASSUME Init PROVE Accounted
  OBVIOUS
<1>1. nextWithdrawalId = 0 /\ balances[EscrowContract] \in Nat
  BY InitialBalancesAssumption, PrincipalsTyped DEF Init, EscrowInit
<1>2. IsSum([k \in 0 .. 0 |-> 0], Shares, 0)
  BY DEF IsSum
<1> QED
  BY <1>1, <1>2 DEF Accounted

\* A step that leaves the withdrawals alone takes nothing from the escrow.
LEMMA QuietAccounted ==
    ASSUME TypeOK, QuietStep
    PROVE  /\ UNCHANGED <<nextWithdrawalId, pendingWithdrawals, challenges,
                          poolFunded, rejections>>
           /\ balances'[EscrowContract] >= balances[EscrowContract]
<1> USE PrincipalsTyped
<1>0. balances \in [Principals -> Nat] /\ balances[EscrowContract] \in Nat
  BY DEF TypeOK
<1>1. CASE DepositTx
  <2>1. PICK source \in Signers, commitment \in Commitments :
            Deposit(source, commitment) /\ UNCHANGED historyVars
    BY <1>1 DEF DepositTx
  <2>2. /\ CanTransfer(balances, PoolDenomination, source, PoolContract)
        /\ balances' = AfterTransfer(balances, PoolDenomination, source, PoolContract)
        /\ UNCHANGED <<escrowVars, historyVars>>
    BY <2>1, Zenon DEF Deposit
  <2>3. balances'[EscrowContract] >= balances[EscrowContract]
    BY <1>0, <2>2, TransferOthers, EscrowAssumption
  <2> QED
    BY <2>2, <2>3 DEF escrowVars, historyVars
<1>2. CASE WithdrawTx
  <2>1. PICK relayer \in Signers, nullifier \in Nullifiers, r \in knownRoots,
             recipient \in Recipients, fee \in RelayerFees :
            /\ Withdraw(relayer, nullifier, r, recipient, fee)
            /\ UNCHANGED <<poolFunded, rejections>>
    BY <1>2 DEF WithdrawTx
  <2> DEFINE amount == RecipientAmount(fee)
             paid == AfterTransfer(balances, amount, PoolContract, recipient)
  <2>2. /\ CanTransfer(balances, amount, PoolContract, recipient)
        /\ CanPayFee(paid, fee, PoolContract, relayer)
        /\ balances' = AfterFee(paid, fee, PoolContract, relayer)
        /\ UNCHANGED escrowVars
    BY <2>1, Zenon DEF Withdraw
  <2>3. /\ fee \in Nat /\ amount \in Int
        /\ recipient \in Principals /\ relayer \in Principals
    BY InputsAssumption, EscrowAssumption DEF RecipientAmount
  <2> HIDE DEF amount
  <2>4. /\ paid \in [Principals -> Nat] /\ paid[EscrowContract] \in Nat
        /\ paid[EscrowContract] >= balances[EscrowContract]
    BY <1>0, <2>2, <2>3, TransferTyped, TransferOthers
  <2> HIDE DEF paid
  <2>5. /\ balances' \in [Principals -> Nat]
        /\ balances'[EscrowContract] >= paid[EscrowContract]
    BY <2>2, <2>3, <2>4, FeeTyped, FeeOthers
  <2>6. balances'[EscrowContract] >= balances[EscrowContract]
    BY <1>0, <2>4, <2>5
  <2> QED
    BY <2>1, <2>2, <2>6 DEF escrowVars
<1>3. CASE TransferTx
  <2>1. PICK sender \in Signers, recipient \in Principals, amount \in TransferAmounts :
            /\ SbtcTransfer(sender, amount, recipient)
            /\ UNCHANGED <<escrowVars, historyVars>>
    BY <1>3, Zenon DEF TransferTx
  <2>2. amount \in Int
    BY InputsAssumption
  <2>3. balances'[EscrowContract] >= balances[EscrowContract]
    BY <1>0, <2>1, <2>2, TransferOthers DEF SbtcTransfer
  <2> QED
    BY <2>1, <2>3 DEF escrowVars, historyVars
<1>4. CASE \/ SetAuthorizedContractTx \/ MarkUsedTx \/ SetAuthorizedCallerTx
           \/ AppendLeafTx \/ BlockMined \/ UNCHANGED vars
  <2>1. UNCHANGED <<balances, escrowVars, historyVars>>
    BY <1>4, Zenon
    DEF SetAuthorizedContractTx, MarkUsedTx, SetAuthorizedCallerTx, AppendLeafTx,
        BlockMined, NewBlock, vars, contractVars
  <2> QED
    BY <1>0, <2>1 DEF escrowVars, historyVars
<1> QED
  BY <1>1, <1>2, <1>3, <1>4 DEF QuietStep

\* A submission adds one share, and to the balance at least as much.
LEMMA SubmitAccounted ==
    ASSUME TypeOK, SubmitStep, NEW new, new = nextWithdrawalId
    PROVE  /\ nextWithdrawalId' = new + 1
           /\ \A id \in WithdrawalIds : EscrowShare(id)' = EscrowShare(id)
           /\ balances'[EscrowContract] >= balances[EscrowContract] + EscrowShare(new)'
<1> USE PrincipalsTyped
<1> DEFINE E == EscrowContract
<1>1. /\ balances \in [Principals -> Nat] /\ new \notin WithdrawalIds
      /\ PoolDenomination \in Nat
  BY EscrowAssumption DEF TypeOK, WithdrawalIds
<1>2. ASSUME NEW bal \in [Principals -> Nat], NEW relayer \in Signers, NEW nullifier, NEW r,
             NEW recipient, NEW fee, NEW bond \in Bonds,
             SubmitWithdrawal(bal, relayer, nullifier, r, recipient, fee, bond),
             rejections' = MapSet(rejections, new, 0),
             poolFunded \ {new} = poolFunded' \ {new}
      PROVE  /\ nextWithdrawalId' = new + 1
             /\ \A id \in WithdrawalIds : EscrowShare(id)' = EscrowShare(id)
             /\ EscrowShare(new)' = (IF new \in poolFunded' THEN PoolDenomination ELSE 0) + bond
             /\ balances'[E] = bal[E] + bond
  <2> DEFINE w == [nullifier |-> nullifier, recipient |-> recipient,
                   relayer |-> relayer, relayerFee |-> fee, bond |-> bond,
                   submitBlock |-> stacksBlockHeight, status |-> "pending"]
  <2>1. /\ nextWithdrawalId' = new + 1 /\ UNCHANGED challenges
        /\ pendingWithdrawals' = MapSet(pendingWithdrawals, new, w)
        /\ CanTransfer(bal, bond, relayer, E)
        /\ balances' = AfterTransfer(bal, bond, relayer, E)
    BY <1>2, Zenon DEF SubmitWithdrawal
  <2>2. w.status = "pending" /\ w.bond = bond
    OBVIOUS
  <2> HIDE DEF w
  <2>3. bond \in Nat
    BY InputsAssumption
  <2>4. balances'[E] = bal[E] + bond
    BY <2>1, <2>3, TransferMoves
  <2>5. /\ WithdrawalIds' = WithdrawalIds \cup {new} /\ pendingWithdrawals'[new] = w
        /\ \A id \in WithdrawalIds : pendingWithdrawals'[id] = pendingWithdrawals[id]
    BY <1>1, <2>1 DEF MapSet, WithdrawalIds
  <2>6. /\ DOMAIN rejections = WithdrawalIds /\ rejections'[new] = 0
        /\ \A id \in WithdrawalIds : rejections'[id] = rejections[id]
    BY <1>1, <1>2 DEF TypeOK, MapSet
  <2>7. \A id \in WithdrawalIds' :
            EscrowShare(id)' = ShareOf(pendingWithdrawals'[id], challenges'[id].challengerBond,
                                       id \in poolFunded', rejections'[id])
    BY DEF EscrowShare, ShareOf, Open, Finalized, Slashed, Status
  <2>8. \A id \in WithdrawalIds : EscrowShare(id)' = EscrowShare(id)
    <3> TAKE id \in WithdrawalIds
    <3>1. id # new /\ (id \in poolFunded' <=> id \in poolFunded)
      BY <1>1, <1>2
    <3>2. EscrowShare(id)' = ShareOf(pendingWithdrawals[id], challenges[id].challengerBond,
                                     id \in poolFunded', rejections[id])
      BY <2>1, <2>5, <2>6, <2>7
    <3> QED
      BY <3>1, <3>2, SharesUnfolded DEF SharesUnfold, ShareOf
  <2>9. EscrowShare(new)' = (IF new \in poolFunded' THEN PoolDenomination ELSE 0) + bond
    <3>1. EscrowShare(new)' = ShareOf(w, challenges[new].challengerBond,
                                      new \in poolFunded', 0)
      BY <2>1, <2>5, <2>6, <2>7
    <3> QED
      BY <1>1, <2>2, <2>3, <3>1 DEF ShareOf
  <2> QED
    BY <2>1, <2>4, <2>8, <2>9
<1>3. CASE WithdrawOptimisticTx
  <2>1. PICK relayer \in Signers, nullifier \in Nullifiers, r \in knownRoots,
             recipient \in Recipients, fee \in RelayerFees, bond \in Bonds :
            /\ WithdrawOptimistic(relayer, nullifier, r, recipient, fee, bond)
            /\ poolFunded' = poolFunded \cup {nextWithdrawalId}
            /\ rejections' = MapSet(rejections, nextWithdrawalId, 0)
    BY <1>3, Zenon DEF WithdrawOptimisticTx
  <2> DEFINE bal == AfterTransfer(balances, PoolDenomination, PoolContract, EscrowContract)
  <2>2. /\ CanTransfer(balances, PoolDenomination, PoolContract, EscrowContract)
        /\ SubmitWithdrawal(bal, relayer, nullifier, r, recipient, fee, bond)
    BY <2>1, Zenon DEF WithdrawOptimistic
  <2>3. bal \in [Principals -> Nat] /\ bal[E] = balances[E] + PoolDenomination
    BY <1>1, <2>2, TransferTyped, TransferMoves
  <2> HIDE DEF bal
  <2>4. /\ nextWithdrawalId' = new + 1
        /\ \A id \in WithdrawalIds : EscrowShare(id)' = EscrowShare(id)
        /\ EscrowShare(new)' = (IF new \in poolFunded' THEN PoolDenomination ELSE 0) + bond
        /\ balances'[E] = bal[E] + bond
    <3>1. poolFunded \ {new} = poolFunded' \ {new}
      BY <2>1
    <3> HIDE DEF E
    <3>2. rejections' = MapSet(rejections, new, 0)
      BY <2>1
    <3> QED
      BY <1>2, <2>1, <2>2, <2>3, <3>1, <3>2
  <2>5. balances[E] \in Int /\ bond \in Int
    BY <1>1, InputsAssumption
  <2> QED
    BY <1>1, <2>1, <2>3, <2>4, <2>5
<1>4. CASE SubmitWithdrawalTx
  <2>1. PICK relayer \in Signers, nullifier \in Nullifiers, r \in knownRoots,
             recipient \in Recipients, fee \in RelayerFees, bond \in Bonds :
            /\ SubmitWithdrawal(balances, relayer, nullifier, r, recipient, fee, bond)
            /\ rejections' = MapSet(rejections, nextWithdrawalId, 0)
            /\ UNCHANGED poolFunded
    BY <1>4, Zenon DEF SubmitWithdrawalTx
  <2>2. /\ nextWithdrawalId' = new + 1
        /\ \A id \in WithdrawalIds : EscrowShare(id)' = EscrowShare(id)
        /\ EscrowShare(new)' = (IF new \in poolFunded' THEN PoolDenomination ELSE 0) + bond
        /\ balances'[E] = balances[E] + bond
    <3>1. poolFunded \ {new} = poolFunded' \ {new}
      BY <2>1
    <3> HIDE DEF E
    <3>2. rejections' = MapSet(rejections, new, 0)
      BY <2>1
    <3> QED
      BY <1>1, <1>2, <2>1, <3>1, <3>2
  <2>3. balances[E] \in Int /\ bond \in Int /\ new \notin poolFunded'
    BY <1>1, <2>1, InputsAssumption DEF TypeOK
  <2> QED
    BY <2>2, <2>3
<1> QED
  BY <1>3, <1>4 DEF SubmitStep

\* What EscrowTx(id) moves, in tokens of the escrow and in the share of id.
LEMMA EscrowMoves ==
    ASSUME TypeOK, ChallengeInv, NEW id \in WithdrawalIds, EscrowTx(id)
    PROVE  EscrowShare(id)' - EscrowShare(id)
               = balances'[EscrowContract] - balances[EscrowContract]
<1> USE PrincipalsTyped
<1> DEFINE w == pendingWithdrawals[id]
           c == challenges[id]
           b == c.challengerBond
           funded == id \in poolFunded
           rejected == rejections[id]
           E == EscrowContract
           before == (IF funded THEN PoolDenomination ELSE 0) - rejected * w.bond
<1>1. /\ balances \in [Principals -> Nat] /\ balances[E] \in Nat
      /\ w \in PendingWithdrawal
      /\ w.recipient \in Principals /\ w.relayer \in Principals
      /\ w.relayerFee \in Nat /\ w.bond \in Nat
      /\ PoolDenomination \in Nat /\ rejected \in Nat
  <2>1. w \in PendingWithdrawal /\ rejected \in Nat
    BY WithdrawalTyped, InputsAssumption DEF TypeOK
  <2> HIDE DEF w, rejected
  <2> QED
    BY <2>1, EscrowAssumption DEF TypeOK, PendingWithdrawal
<1>2. w.status = "challenged" => id \in DOMAIN challenges
  BY DEF ChallengeInv, RecordsMatch, Status
<1>3. id \in DOMAIN challenges => c.challenger \in Principals /\ b \in Nat
  BY WithdrawalTyped DEF Challenge
<1>4. EscrowShare(id) = ShareOf(w, b, funded, rejected)
  BY SharesUnfolded DEF SharesUnfold
<1>5. id \in WithdrawalIds' =>
          EscrowShare(id)' = ShareOf(w', b', funded', rejected')
  BY DEF EscrowShare, ShareOf, Open, Finalized, Slashed, Status
<1>6. before \in Int /\ rejected * w.bond \in Int
  BY <1>1
<1>7. /\ w.status = "pending" => EscrowShare(id) = before + w.bond
      /\ w.status = "challenged" => EscrowShare(id) = before + w.bond + b
  <2>1. (IF funded THEN PoolDenomination ELSE 0) \in Int
    BY <1>1
  <2> HIDE DEF funded, rejected, w, b
  <2> QED
    BY <1>1, <1>2, <1>3, <1>4, <1>6, <2>1 DEF ShareOf
<1>8. CASE FinalizeTx(id)
  <2> DEFINE amount == RecipientAmount(w.relayerFee)
             paid == AfterTransfer(balances, amount, E, w.recipient)
             feePaid == AfterFee(paid, w.relayerFee, E, w.relayer)
  <2>1. /\ CanTransfer(balances, amount, E, w.recipient)
        /\ CanPayFee(paid, w.relayerFee, E, w.relayer)
        /\ CanTransfer(feePaid, w.bond, E, w.relayer)
        /\ balances' = AfterTransfer(feePaid, w.bond, E, w.relayer)
        /\ w.status = "pending"
        /\ pendingWithdrawals' = [pendingWithdrawals EXCEPT ![id].status = "finalized"]
        /\ UNCHANGED <<poolFunded, rejections>>
    BY <1>8 DEF FinalizeTx, FinalizeWithdrawal, IsPending, historyVars
  <2>2. amount \in Int /\ amount = PoolDenomination - w.relayerFee
    BY <1>1 DEF RecipientAmount
  <2>3. /\ id \in WithdrawalIds' /\ w'.status = "finalized" /\ w'.bond = w.bond
        /\ funded' = funded /\ rejected' = rejected
    BY <1>1, <2>1 DEF WithdrawalIds, PendingWithdrawal
  <2>4. EscrowShare(id)' = before - PoolDenomination
    <3>1. (IF funded THEN PoolDenomination ELSE 0) \in Int
      BY <1>1
    <3> HIDE DEF funded, rejected, w, b
    <3> QED
      BY <1>1, <1>5, <1>6, <2>3, <3>1 DEF ShareOf
  <2> HIDE DEF w, before, amount
  <2>5. paid \in [Principals -> Nat] /\ paid[E] = balances[E] - amount /\ paid[E] \in Nat
    BY <1>1, <2>1, <2>2, TransferTyped, TransferMoves
  <2> HIDE DEF paid
  <2>6. /\ feePaid \in [Principals -> Nat] /\ feePaid[E] = paid[E] - w.relayerFee
        /\ feePaid[E] \in Nat
    BY <1>1, <2>1, <2>5, FeeTyped, FeeMoves
  <2> HIDE DEF feePaid
  <2>7. balances'[E] = feePaid[E] - w.bond
    BY <1>1, <2>1, <2>6, TransferMoves
  <2> QED
    BY <1>1, <1>6, <1>7, <2>1, <2>2, <2>4, <2>5, <2>6, <2>7
<1>9. CASE ChallengeTx(id)
  <2>1. PICK challenger \in Signers, challengerBond \in Bonds :
            /\ ChallengeWithdrawal(challenger, id, challengerBond)
            /\ UNCHANGED <<poolFunded, rejections>>
    BY <1>9 DEF ChallengeTx, historyVars
  <2>2. /\ CanTransfer(balances, challengerBond, challenger, E)
        /\ balances' = AfterTransfer(balances, challengerBond, challenger, E)
        /\ w.status = "pending"
        /\ pendingWithdrawals' = [pendingWithdrawals EXCEPT ![id].status = "challenged"]
        /\ b' = challengerBond
    BY <2>1 DEF ChallengeWithdrawal, IsPending, MapSet
  <2>3. challengerBond \in Nat
    BY InputsAssumption
  <2>4. /\ id \in WithdrawalIds' /\ w'.status = "challenged" /\ w'.bond = w.bond
        /\ funded' = funded /\ rejected' = rejected
    BY <1>1, <2>1, <2>2 DEF WithdrawalIds, PendingWithdrawal
  <2>5. EscrowShare(id)' = before + w.bond + challengerBond
    <3>1. (IF funded THEN PoolDenomination ELSE 0) \in Int
      BY <1>1
    <3> HIDE DEF funded, rejected, w, b
    <3> QED
      BY <1>1, <1>5, <1>6, <2>2, <2>3, <2>4, <3>1 DEF ShareOf
  <2>6. balances'[E] = balances[E] + challengerBond
    BY <1>1, <2>2, <2>3, TransferMoves
  <2> HIDE DEF w, before
  <2> QED
    BY <1>1, <1>6, <1>7, <2>2, <2>3, <2>5, <2>6
<1>10. CASE UpholdTx(id)
  <2> DEFINE slashed == AfterTransfer(balances, w.bond, E, c.challenger)
             returned == AfterTransfer(slashed, b, E, c.challenger)
  <2>1. /\ id \in DOMAIN challenges
        /\ CanTransfer(balances, w.bond, E, c.challenger)
        /\ CanTransfer(slashed, b, E, c.challenger)
        /\ CanTransfer(returned, PoolDenomination, E, ContractOwner)
        /\ balances' = AfterTransfer(returned, PoolDenomination, E, ContractOwner)
        /\ w.status = "challenged"
        /\ pendingWithdrawals' = [pendingWithdrawals EXCEPT ![id].status = "slashed"]
        /\ UNCHANGED <<poolFunded, rejections>>
    BY <1>10 DEF UpholdTx, UpholdChallenge, Status, historyVars
  <2>2. c.challenger \in Principals /\ b \in Nat
    BY <1>3, <2>1
  <2>3. /\ id \in WithdrawalIds' /\ w'.status = "slashed" /\ w'.bond = w.bond
        /\ funded' = funded /\ rejected' = rejected
    BY <1>1, <2>1 DEF WithdrawalIds, PendingWithdrawal
  <2>4. EscrowShare(id)' = before - PoolDenomination
    <3>1. (IF funded THEN PoolDenomination ELSE 0) \in Int
      BY <1>1
    <3> HIDE DEF funded, rejected, w, b
    <3> QED
      BY <1>1, <1>5, <1>6, <2>3, <3>1 DEF ShareOf
  <2> HIDE DEF w, c, before
  <2>5. slashed \in [Principals -> Nat] /\ slashed[E] = balances[E] - w.bond
        /\ slashed[E] \in Nat
    BY <1>1, <2>1, <2>2, TransferTyped, TransferMoves
  <2> HIDE DEF slashed
  <2>6. returned \in [Principals -> Nat] /\ returned[E] = slashed[E] - b /\ returned[E] \in Nat
    BY <2>1, <2>2, <2>5, TransferTyped, TransferMoves
  <2> HIDE DEF returned
  <2>7. balances'[E] = returned[E] - PoolDenomination
    BY <1>1, <2>1, <2>6, TransferMoves
  <2> QED
    BY <1>1, <1>6, <1>7, <2>1, <2>2, <2>4, <2>5, <2>6, <2>7
<1>11. CASE RejectTx(id)
  <2> DEFINE forfeited == AfterTransfer(balances, b, E, w.relayer)
  <2>1. /\ id \in DOMAIN challenges
        /\ CanTransfer(balances, b, E, w.relayer)
        /\ CanTransfer(forfeited, w.bond, E, w.relayer)
        /\ balances' = AfterTransfer(forfeited, w.bond, E, w.relayer)
        /\ w.status = "challenged"
        /\ pendingWithdrawals' =
               [pendingWithdrawals EXCEPT ![id] = PendingAgain(pendingWithdrawals[id])]
        /\ rejections' = [rejections EXCEPT ![id] = @ + 1]
        /\ UNCHANGED poolFunded
    BY <1>11 DEF RejectTx, RejectChallenge, Status
  <2>2. b \in Nat
    BY <1>3, <2>1
  <2>3. /\ id \in WithdrawalIds' /\ w'.status = "pending" /\ w'.bond = w.bond
        /\ funded' = funded /\ rejected' = rejected + 1
    <3>1. id \in DOMAIN rejections
      BY DEF TypeOK
    <3> QED
      BY <1>1, <2>1, <3>1 DEF WithdrawalIds, PendingWithdrawal, PendingAgain
  <2>4. EscrowShare(id)' = before
    <3>1. (IF funded THEN PoolDenomination ELSE 0) \in Int
      BY <1>1
    <3> HIDE DEF funded, rejected, w, b
    <3>2. (rejected + 1) * w.bond = rejected * w.bond + w.bond
      BY <1>1
    <3>3. EscrowShare(id)' = (IF funded THEN PoolDenomination ELSE 0) + w.bond + 0
                                 - (rejected + 1) * w.bond
      BY <1>5, <2>3 DEF ShareOf
    <3> QED
      BY <1>1, <1>6, <3>1, <3>2, <3>3
  <2> HIDE DEF w, b, before
  <2>5. /\ forfeited \in [Principals -> Nat] /\ forfeited[E] = balances[E] - b
        /\ forfeited[E] \in Nat
    BY <1>1, <2>1, <2>2, TransferTyped, TransferMoves
  <2> HIDE DEF forfeited
  <2>6. balances'[E] = forfeited[E] - w.bond
    BY <1>1, <2>1, <2>5, TransferMoves
  <2> QED
    BY <1>1, <1>6, <1>7, <2>1, <2>2, <2>4, <2>5, <2>6
<1> QED
  BY <1>8, <1>9, <1>10, <1>11 DEF EscrowTx

\* The shares of the other withdrawals it leaves alone.
LEMMA OtherShares ==
    ASSUME TypeOK, ChallengeInv, NEW id \in WithdrawalIds, EscrowTx(id)
    PROVE  /\ UNCHANGED nextWithdrawalId
           /\ \A other \in WithdrawalIds \ {id} : EscrowShare(other)' = EscrowShare(other)
<1>1. PICK next \in PendingWithdrawal :
          /\ Changes(id, pendingWithdrawals[id], next)
          /\ pendingWithdrawals' = [pendingWithdrawals EXCEPT ![id] = next]
  BY EscrowEffect
<1>2. /\ UNCHANGED <<nextWithdrawalId, poolFunded>>
      /\ \A other \in WithdrawalIds \ {id} : rejections'[other] = rejections[other]
  <2>1. CASE FinalizeTx(id)
    BY <2>1 DEF FinalizeTx, FinalizeWithdrawal, historyVars
  <2>2. CASE ChallengeTx(id)
    BY <2>2 DEF ChallengeTx, ChallengeWithdrawal, historyVars
  <2>3. CASE UpholdTx(id)
    BY <2>3 DEF UpholdTx, UpholdChallenge, historyVars
  <2>4. CASE RejectTx(id)
    BY <2>4 DEF RejectTx, RejectChallenge, TypeOK
  <2> QED
    BY <2>1, <2>2, <2>3, <2>4 DEF EscrowTx
<1>3. \A other \in DOMAIN challenges \ {id} : challenges'[other] = challenges[other]
  BY <1>1 DEF Changes, MapSet
<1> SUFFICES ASSUME NEW other \in WithdrawalIds \ {id}
             PROVE  EscrowShare(other)' = EscrowShare(other)
  BY <1>2
<1>4. pendingWithdrawals'[other] = pendingWithdrawals[other] /\ other \in WithdrawalIds'
  BY <1>1 DEF WithdrawalIds
<1>5. pendingWithdrawals[other].status = "challenged" => other \in DOMAIN challenges
  BY DEF ChallengeInv, RecordsMatch, Status
<1>6. EscrowShare(other)' = ShareOf(pendingWithdrawals'[other],
                                    challenges'[other].challengerBond,
                                    other \in poolFunded', rejections'[other])
  BY <1>4 DEF EscrowShare, ShareOf, Open, Finalized, Slashed, Status
<1>7. EscrowShare(other) = ShareOf(pendingWithdrawals[other],
                                   challenges[other].challengerBond,
                                   other \in poolFunded, rejections[other])
  BY SharesUnfolded DEF SharesUnfold
<1> QED
  BY <1>2, <1>3, <1>4, <1>5, <1>6, <1>7 DEF ShareOf

LEMMA AccountedStep ==
    TypeOK /\ ChallengeInv /\ SharesTyped /\ Accounted /\ [Next]_vars
        /\ TypeOK' /\ SharesTyped' => Accounted'
<1> SUFFICES ASSUME TypeOK, ChallengeInv, SharesTyped, Accounted, [Next]_vars,
                    TypeOK', SharesTyped'
             PROVE  Accounted'
  OBVIOUS
<1> DEFINE n == nextWithdrawalId
           E == EscrowContract
<1>1. /\ n \in Nat /\ n' \in Nat /\ WithdrawalIds = 0 .. n - 1
      /\ Shares \in [0 .. n - 1 -> Int] /\ Shares' \in [0 .. n' - 1 -> Int]
      /\ balances[E] \in Nat /\ balances'[E] \in Nat
  BY PrincipalsTyped DEF TypeOK, SharesTyped, WithdrawalIds
<1>2. /\ \A id \in 0 .. n - 1 : Shares[id] = EscrowShare(id)
      /\ \A id \in 0 .. n' - 1 : Shares'[id] = EscrowShare(id)'
  BY DEF Shares
<1>3. PICK sum : IsSum(sum, Shares, n) /\ balances[E] >= sum[n]
  BY DEF Accounted
<1>4. PICK next : IsSum(next, Shares', n')
  <2> HIDE DEF n
  <2> QED
    BY <1>1, SumExists
<1>5. sum[n] \in Int
  BY <1>1, <1>3 DEF IsSum
<1>6. SUFFICES balances'[E] >= next[n']
  BY <1>4 DEF Accounted
<1>7. CASE QuietStep
  <2>1. /\ UNCHANGED <<nextWithdrawalId, pendingWithdrawals, challenges, poolFunded, rejections>>
        /\ balances'[E] >= balances[E]
    BY <1>7, QuietAccounted
  <2>2. Shares' = Shares
    BY <2>1 DEF Shares, EscrowShare, Open, Finalized, Slashed, Status, WithdrawalIds
  <2>3. next[n'] = sum[n]
    <3>1. n' = n
      BY <1>1, <2>1
    <3>2. IsSum(next, Shares, n)
      BY <1>4, <2>2, <3>1
    <3> HIDE DEF n
    <3>3. next[n] = sum[n]
      BY <1>1, <1>3, <3>2, SumUnique
    <3> QED
      BY <3>1, <3>3
  <2> QED
    BY <1>1, <1>3, <1>5, <2>1, <2>3
<1>8. CASE SubmitStep
  <2>1. PICK new : new = n
    OBVIOUS
  <2>2. /\ n' = new + 1 /\ new \in Nat
        /\ \A id \in WithdrawalIds : EscrowShare(id)' = EscrowShare(id)
        /\ balances'[E] >= balances[E] + EscrowShare(new)'
    BY <1>1, <1>8, <2>1, SubmitAccounted
  <2>3. \A id \in 0 .. new - 1 : Shares'[id] = Shares[id]
    BY <1>1, <1>2, <2>1, <2>2
  <2>4. next[new] = sum[new]
    <3>1. IsSum(next, Shares', new + 1) /\ IsSum(sum, Shares, new)
      BY <1>3, <1>4, <2>1, <2>2
    <3> HIDE DEF n
    <3> QED
      BY <2>2, <2>3, <3>1, SumOfOneMore
  <2>5. next[n'] = next[new] + EscrowShare(new)' /\ EscrowShare(new)' \in Int
    <3>1. n' \in 1 .. n' /\ n' - 1 = new /\ new \in 0 .. n' - 1
      BY <2>2
    <3> QED
      BY <1>1, <1>2, <1>4, <3>1 DEF IsSum
  <2> QED
    BY <1>1, <1>3, <1>5, <2>1, <2>2, <2>4, <2>5
<1>9. CASE \E id \in WithdrawalIds : EscrowTx(id)
  <2>1. PICK id \in WithdrawalIds : EscrowTx(id)
    BY <1>9
  <2> DEFINE d == balances'[E] - balances[E]
  <2>2. /\ UNCHANGED nextWithdrawalId
        /\ \A other \in WithdrawalIds \ {id} : EscrowShare(other)' = EscrowShare(other)
        /\ EscrowShare(id)' - EscrowShare(id) = d
    BY <2>1, EscrowMoves, OtherShares
  <2>3. /\ id \in 0 .. n - 1 /\ n' = n /\ d \in Int
        /\ Shares[id] \in Int /\ Shares'[id] \in Int
        /\ Shares'[id] - Shares[id] = d
        /\ \A k \in 0 .. n - 1 : k # id => Shares'[k] = Shares[k]
    BY <1>1, <1>2, <2>1, <2>2
  <2>4. next[n] = sum[n] + d
    <3>1. PICK m, moved : m = n /\ moved = d
      OBVIOUS
    <3>2. m \in Nat /\ IsSum(sum, Shares, m) /\ IsSum(next, Shares', m)
      BY <1>1, <1>3, <1>4, <2>3, <3>1
    <3>3. GrownAt(id, moved, Shares, Shares', m)
      BY <1>1, <2>3, <3>1 DEF GrownAt
    <3>4. next[m] = sum[m] + moved
      BY <3>2, <3>3, SumOfOneChanged
    <3> QED
      BY <3>1, <3>4
  <2> QED
    BY <1>1, <1>3, <1>5, <2>3, <2>4
<1> QED
  BY <1>7, <1>8, <1>9, StepKinds

\* However submissions, challenges, resolutions and payouts follow one another, and for any
\* number of withdrawals, the escrow's balance covers the sum of their shares: no call takes
\* out tokens that the records do not account for.
THEOREM EscrowAlwaysAccounted == Spec => []EscrowAccounted
BY AccountedInit, AccountedStep, AccountedImplies, AllSharesTyped, TypeCorrect,
   ChallengeInit, ChallengeStep, PTL DEF Spec
-----------------------------------------------------------------------------
(***************************************************************************)
(* Settlement.  The escrow refuses no call that would settle a withdrawal  *)
(* outside the circumstances MayBeStuck lists.  What the calls ask of the  *)
(* state beyond the status, the period and the caller: first the records   *)
(* they read.                                                              *)
(***************************************************************************)
PayableRecord(w) ==
    /\ w.recipient \in Principals /\ w.relayer \in Signers
    /\ w.relayerFee \in Nat /\ w.relayerFee < PoolDenomination
    /\ w.bond \in Nat /\ w.bond >= MinBond

PayableChallenge(c) ==
    /\ c.challenger \in Signers
    /\ c.challengerBond \in Nat /\ c.challengerBond >= MinBond

RecordsPayable ==
    /\ \A id \in WithdrawalIds : PayableRecord(pendingWithdrawals[id])
    /\ \A id \in DOMAIN challenges : PayableChallenge(challenges[id])

LEMMA SubmittedPayable ==
    ASSUME NEW bal, NEW relayer \in Signers, NEW nullifier, NEW r,
           NEW recipient \in Recipients, NEW fee \in RelayerFees, NEW bond \in Bonds,
           SubmitWithdrawal(bal, relayer, nullifier, r, recipient, fee, bond)
    PROVE  /\ UNCHANGED challenges
           /\ \E w : /\ PayableRecord(w)
                     /\ pendingWithdrawals' = MapSet(pendingWithdrawals, nextWithdrawalId, w)
<1> DEFINE w == [nullifier |-> nullifier, recipient |-> recipient,
                 relayer |-> relayer, relayerFee |-> fee, bond |-> bond,
                 submitBlock |-> stacksBlockHeight, status |-> "pending"]
<1>1. PayableRecord(w)
  BY InputsAssumption, PrincipalsTyped DEF SubmitWithdrawal, PayableRecord
<1>2. /\ pendingWithdrawals' = MapSet(pendingWithdrawals, nextWithdrawalId, w)
      /\ UNCHANGED challenges
  BY DEF SubmitWithdrawal
<1> HIDE DEF w
<1> QED
  BY <1>1, <1>2

LEMMA SubmitStepPayable ==
    ASSUME SubmitStep
    PROVE  /\ UNCHANGED challenges
           /\ \E w : /\ PayableRecord(w)
                     /\ pendingWithdrawals' = MapSet(pendingWithdrawals, nextWithdrawalId, w)
<1>1. CASE WithdrawOptimisticTx
  <2>1. PICK relayer \in Signers, nullifier \in Nullifiers, r \in knownRoots,
             recipient \in Recipients, fee \in RelayerFees, bond \in Bonds :
            WithdrawOptimistic(relayer, nullifier, r, recipient, fee, bond)
    BY <1>1, Zenon DEF WithdrawOptimisticTx
  <2>2. SubmitWithdrawal(
            AfterTransfer(balances, PoolDenomination, PoolContract, EscrowContract),
            relayer, nullifier, r, recipient, fee, bond)
    BY <2>1, Zenon DEF WithdrawOptimistic
  <2> QED
    BY <2>2, SubmittedPayable, Zenon
<1>2. CASE SubmitWithdrawalTx
  <2>1. PICK relayer \in Signers, nullifier \in Nullifiers, r \in knownRoots,
             recipient \in Recipients, fee \in RelayerFees, bond \in Bonds :
            SubmitWithdrawal(balances, relayer, nullifier, r, recipient, fee, bond)
    BY <1>2, Zenon DEF SubmitWithdrawalTx
  <2> QED
    BY <2>1, SubmittedPayable, Zenon
<1> QED
  BY <1>1, <1>2 DEF SubmitStep

LEMMA PayableInit == Init => RecordsPayable
BY DEF Init, EscrowInit, EmptyMap, RecordsPayable, WithdrawalIds

\* What the calls on a withdrawal leave of its record and its challenge.
LEMMA EscrowKeepsPayable ==
    ASSUME TypeOK, RecordsPayable, NEW id \in WithdrawalIds, EscrowTx(id)
    PROVE  /\ \E next \in PendingWithdrawal :
                  /\ PayableRecord(next)
                  /\ pendingWithdrawals' = [pendingWithdrawals EXCEPT ![id] = next]
           /\ \A i \in DOMAIN challenges' : PayableChallenge(challenges'[i])
<1> DEFINE w == pendingWithdrawals[id]
<1>1. PICK next \in PendingWithdrawal :
          /\ Changes(id, w, next)
          /\ pendingWithdrawals' = [pendingWithdrawals EXCEPT ![id] = next]
  BY EscrowEffect
<1>2. PayableRecord(next)
  <2>1. w \in PendingWithdrawal /\ PayableRecord(w)
    BY WithdrawalTyped DEF RecordsPayable
  <2> HIDE DEF w
  <2>2. /\ next.recipient = w.recipient /\ next.relayer = w.relayer
        /\ next.relayerFee = w.relayerFee /\ next.bond = w.bond
    BY <1>1, <2>1 DEF Changes, PendingWithdrawal
  <2> QED
    BY <2>1, <2>2 DEF PayableRecord
<1>3. \A i \in DOMAIN challenges' : PayableChallenge(challenges'[i])
  <2>1. CASE ChallengeTx(id)
    <3>1. PICK challenger \in Signers, challengerBond \in Bonds :
              ChallengeWithdrawal(challenger, id, challengerBond)
      BY <2>1 DEF ChallengeTx
    <3> DEFINE c == [challenger |-> challenger, challengerBond |-> challengerBond,
                     challengeBlock |-> stacksBlockHeight, resolved |-> FALSE]
    <3>2. challenges' = MapSet(challenges, id, c)
      BY <3>1 DEF ChallengeWithdrawal
    <3>3. PayableChallenge(c)
      BY <3>1, InputsAssumption DEF ChallengeWithdrawal, PayableChallenge
    <3> HIDE DEF c
    <3> QED
      BY <3>2, <3>3 DEF MapSet, RecordsPayable
  <2>2. CASE UNCHANGED challenges
    BY <2>2 DEF RecordsPayable
  <2>3. CASE challenges' = [challenges EXCEPT ![id].resolved = TRUE]
    <3> SUFFICES ASSUME NEW i \in DOMAIN challenges'
                 PROVE  PayableChallenge(challenges'[i])
      OBVIOUS
    <3>1. i \in DOMAIN challenges /\ challenges[i] \in Challenge
      BY <2>3 DEF TypeOK
    <3>2. /\ challenges'[i].challenger = challenges[i].challenger
          /\ challenges'[i].challengerBond = challenges[i].challengerBond
      BY <2>3, <3>1 DEF Challenge
    <3> QED
      BY <3>1, <3>2 DEF PayableChallenge, RecordsPayable
  <2> QED
    BY <2>1, <2>2, <2>3
    DEF EscrowTx, FinalizeTx, FinalizeWithdrawal, UpholdTx, UpholdChallenge,
        RejectTx, RejectChallenge
<1> QED
  BY <1>1, <1>2, <1>3

LEMMA PayableStep == TypeOK /\ RecordsPayable /\ [Next]_vars => RecordsPayable'
<1> SUFFICES ASSUME TypeOK, RecordsPayable, [Next]_vars PROVE RecordsPayable'
  OBVIOUS
<1>1. CASE QuietStep
  BY <1>1, QuietEffect DEF RecordsPayable, WithdrawalIds, PayableRecord, PayableChallenge
<1>2. CASE SubmitStep
  <2>1. PICK w : /\ PayableRecord(w)
                 /\ pendingWithdrawals' = MapSet(pendingWithdrawals, nextWithdrawalId, w)
    BY <1>2, SubmitStepPayable
  <2>2. UNCHANGED challenges
    BY <1>2, SubmitStepPayable
  <2>3. \A id \in WithdrawalIds' : PayableRecord(pendingWithdrawals'[id])
    BY <2>1 DEF MapSet, WithdrawalIds, RecordsPayable
  <2> QED
    BY <2>2, <2>3 DEF RecordsPayable, PayableRecord, PayableChallenge
<1>3. CASE \E id \in WithdrawalIds : EscrowTx(id)
  <2>1. PICK id \in WithdrawalIds : EscrowTx(id)
    BY <1>3
  <2>2. PICK next \in PendingWithdrawal :
            /\ PayableRecord(next)
            /\ pendingWithdrawals' = [pendingWithdrawals EXCEPT ![id] = next]
    BY <2>1, EscrowKeepsPayable
  <2>3. \A i \in DOMAIN challenges' : PayableChallenge(challenges'[i])
    BY <2>1, EscrowKeepsPayable
  <2>4. \A i \in WithdrawalIds' : PayableRecord(pendingWithdrawals'[i])
    BY <2>2 DEF WithdrawalIds, RecordsPayable
  <2> QED
    BY <2>3, <2>4 DEF RecordsPayable, PayableRecord, PayableChallenge
<1> QED
  BY <1>1, <1>2, <1>3, StepKinds
\* Where the pool funded every withdrawal and no bond went back early, the escrow holds
\* the share of each open withdrawal in full.
LEMMA OpenShareHeld ==
    ASSUME TypeOK, ChallengeInv, RecordsPayable, Accounted,
           poolFunded = WithdrawalIds, \A i \in WithdrawalIds : ~(rejections[i] > 0),
           NEW id \in Open
    PROVE  /\ Status(id) = "pending" =>
                  balances[EscrowContract] >= PoolDenomination + pendingWithdrawals[id].bond
           /\ Status(id) = "challenged" =>
                  balances[EscrowContract] >=
                      PoolDenomination + pendingWithdrawals[id].bond
                          + challenges[id].challengerBond
<1> DEFINE n == nextWithdrawalId
<1>1. /\ n \in Nat /\ WithdrawalIds = 0 .. n - 1 /\ Shares \in [0 .. n - 1 -> Int]
      /\ balances[EscrowContract] \in Nat
  BY AllSharesTyped, PrincipalsTyped DEF TypeOK, SharesTyped, WithdrawalIds
<1>2. ASSUME NEW i \in WithdrawalIds
      PROVE  /\ EscrowShare(i) >= 0
             /\ Status(i) = "pending" =>
                    EscrowShare(i) = PoolDenomination + pendingWithdrawals[i].bond
             /\ Status(i) = "challenged" =>
                    EscrowShare(i) = PoolDenomination + pendingWithdrawals[i].bond
                                         + challenges[i].challengerBond
  <2> DEFINE w == pendingWithdrawals[i]
             b == challenges[i].challengerBond
  <2>1. w \in PendingWithdrawal /\ PayableRecord(w) /\ Status(i) = w.status
    BY WithdrawalTyped DEF RecordsPayable, Status
  <2>2. w.status = "challenged" => b \in Nat
    BY DEF ChallengeInv, RecordsMatch, Status, RecordsPayable, PayableChallenge
  <2>3. rejections[i] = 0
    BY InputsAssumption DEF TypeOK
  <2>4. EscrowShare(i) = ShareOf(w, b, TRUE, 0)
    BY <2>3, SharesUnfolded DEF SharesUnfold
  <2> HIDE DEF w, b
  <2>5. w.bond \in Nat /\ PoolDenomination \in Nat /\ 0 * w.bond = 0
    BY <2>1, EscrowAssumption DEF PayableRecord
  <2>6. w.status \in {"pending", "challenged", "finalized", "slashed"}
    BY <2>1 DEF PendingWithdrawal
  <2>7. /\ EscrowShare(i) >= 0
        /\ w.status = "pending" => EscrowShare(i) = PoolDenomination + w.bond
        /\ w.status = "challenged" => EscrowShare(i) = PoolDenomination + w.bond + b
    BY <2>2, <2>4, <2>5, <2>6 DEF ShareOf
  <2> QED
    BY <2>1, <2>7 DEF w, b
<1>3. \A k \in 0 .. n - 1 : Shares[k] = EscrowShare(k) /\ Shares[k] >= 0
  BY <1>1, <1>2 DEF Shares
<1>4. PICK sum : IsSum(sum, Shares, n) /\ balances[EscrowContract] >= sum[n]
  BY DEF Accounted
<1>5. id \in 0 .. n - 1 /\ id \in WithdrawalIds
  BY <1>1 DEF Open
<1>6. sum[n] >= Shares[id] /\ sum[n] \in Int /\ Shares[id] \in Int
  <2>1. sum[n] \in Int
    BY <1>1, <1>4 DEF IsSum
  <2>2. sum[n] >= Shares[id]
    <3> HIDE DEF n
    <3> QED
      BY <1>1, <1>3, <1>4, <1>5, SumCovers
  <2> QED
    BY <1>1, <1>5, <2>1, <2>2
<1>7. balances[EscrowContract] >= EscrowShare(id) /\ EscrowShare(id) \in Int
  BY <1>1, <1>3, <1>4, <1>5, <1>6
<1> QED
  BY <1>2, <1>5, <1>7
\* What finalize-withdrawal asks of the state beyond that the withdrawal is pending and its
\* period has passed, and what it writes.
PayoutAccepted(id) ==
    LET w == pendingWithdrawals[id]
        amount == RecipientAmount(w.relayerFee)
        paid == AfterTransfer(balances, amount, EscrowContract, w.recipient)
        feePaid == AfterFee(paid, w.relayerFee, EscrowContract, w.relayer)
    IN  /\ IsAuthorizedCaller(EscrowContract)
        /\ w.nullifier # ZeroNullifier /\ ~IsNullifierUsed(w.nullifier)
        /\ CanTransfer(balances, amount, EscrowContract, w.recipient)
        /\ CanPayFee(paid, w.relayerFee, EscrowContract, w.relayer)
        /\ CanTransfer(feePaid, w.bond, EscrowContract, w.relayer)

PayoutWrites(id) ==
    LET w == pendingWithdrawals[id]
        paid == AfterTransfer(balances, RecipientAmount(w.relayerFee),
                              EscrowContract, w.recipient)
        feePaid == AfterFee(paid, w.relayerFee, EscrowContract, w.relayer)
    IN  /\ balances' = AfterTransfer(feePaid, w.bond, EscrowContract, w.relayer)
        /\ usedNullifiers' = usedNullifiers \cup {w.nullifier}
        /\ pendingWithdrawals' = [pendingWithdrawals EXCEPT ![id].status = "finalized"]
        /\ UNCHANGED <<authorizedContract, stacksBlockHeight, treeVars, nextWithdrawalId,
                       reservedNullifiers, challenges, depositCommitments, historyVars>>

\* The same of resolve-challenge, beyond that the owner calls it on a challenged withdrawal:
\* with the challenge upheld, and with it rejected.
SlashAccepted(id) ==
    LET w == pendingWithdrawals[id]
        c == challenges[id]
        slashed == AfterTransfer(balances, w.bond, EscrowContract, c.challenger)
        returned == AfterTransfer(slashed, c.challengerBond, EscrowContract, c.challenger)
    IN  /\ id \in DOMAIN challenges
        /\ CanTransfer(balances, w.bond, EscrowContract, c.challenger)
        /\ CanTransfer(slashed, c.challengerBond, EscrowContract, c.challenger)
        /\ CanTransfer(returned, PoolDenomination, EscrowContract, ContractOwner)

SlashWrites(id) ==
    LET w == pendingWithdrawals[id]
        c == challenges[id]
        slashed == AfterTransfer(balances, w.bond, EscrowContract, c.challenger)
        returned == AfterTransfer(slashed, c.challengerBond, EscrowContract, c.challenger)
    IN  /\ balances' = AfterTransfer(returned, PoolDenomination,
                                     EscrowContract, ContractOwner)
        /\ reservedNullifiers' = MapDelete(reservedNullifiers, w.nullifier)
        /\ pendingWithdrawals' = [pendingWithdrawals EXCEPT ![id].status = "slashed"]
        /\ challenges' = [challenges EXCEPT ![id].resolved = TRUE]
        /\ UNCHANGED <<stacksBlockHeight, registryVars, treeVars, nextWithdrawalId,
                       depositCommitments, historyVars>>

RejectionAccepted(id) ==
    LET w == pendingWithdrawals[id]
        c == challenges[id]
        forfeited == AfterTransfer(balances, c.challengerBond, EscrowContract, w.relayer)
    IN  /\ id \in DOMAIN challenges
        /\ CanTransfer(balances, c.challengerBond, EscrowContract, w.relayer)
        /\ CanTransfer(forfeited, w.bond, EscrowContract, w.relayer)

RejectionWrites(id) ==
    LET w == pendingWithdrawals[id]
        c == challenges[id]
        forfeited == AfterTransfer(balances, c.challengerBond, EscrowContract, w.relayer)
    IN  /\ balances' = AfterTransfer(forfeited, w.bond, EscrowContract, w.relayer)
        /\ pendingWithdrawals' = [pendingWithdrawals EXCEPT ![id] = PendingAgain(w)]
        /\ challenges' = [challenges EXCEPT ![id].resolved = TRUE]
        /\ rejections' = [rejections EXCEPT ![id] = @ + 1]
        /\ UNCHANGED <<stacksBlockHeight, registryVars, treeVars, nextWithdrawalId,
                       reservedNullifiers, depositCommitments, directSpends, poolFunded>>

\* That the lists are complete: a call that is accepted is a step.
LEMMA AcceptedPayoutIsStep ==
    ASSUME NEW id \in WithdrawalIds
    PROVE  FinalizeTx(id) <=> /\ Status(id) = "pending"
                              /\ PeriodExpired(pendingWithdrawals[id])
                              /\ PayoutAccepted(id) /\ PayoutWrites(id)
BY Zenon
DEF FinalizeTx, FinalizeWithdrawal, IsPending, Status, MarkUsed, PayoutAccepted, PayoutWrites

LEMMA AcceptedSlashIsStep ==
    ASSUME NEW id \in WithdrawalIds
    PROVE  UpholdTx(id) <=> /\ Status(id) = "challenged"
                            /\ SlashAccepted(id) /\ SlashWrites(id)
BY PrincipalsTyped DEF UpholdTx, UpholdChallenge, SlashAccepted, SlashWrites

LEMMA AcceptedRejectionIsStep ==
    ASSUME NEW id \in WithdrawalIds
    PROVE  RejectTx(id) <=> /\ Status(id) = "challenged" /\ rejections[id] < MaxRejections
                            /\ RejectionAccepted(id) /\ RejectionWrites(id)
BY PrincipalsTyped DEF RejectTx, RejectChallenge, RejectionAccepted, RejectionWrites

\* Whatever is open and may not be stuck can be settled: a pending withdrawal can be paid out
\* as soon as its period has passed, and a challenge can be resolved either way.
SettlementsAccepted ==
    \A id \in Open : ~MayBeStuck(id) =>
        \/ Status(id) = "pending" /\ PayoutAccepted(id)
        \/ Status(id) = "challenged" /\ SlashAccepted(id) /\ RejectionAccepted(id)

LEMMA AcceptedFollows ==
    TypeOK /\ ChallengeInv /\ RecordsPayable /\ Accounted => SettlementsAccepted
<1> SUFFICES ASSUME TypeOK, ChallengeInv, RecordsPayable, Accounted,
                    NEW id \in Open, ~MayBeStuck(id)
             PROVE  \/ Status(id) = "pending" /\ PayoutAccepted(id)
                    \/ /\ Status(id) = "challenged"
                       /\ SlashAccepted(id) /\ RejectionAccepted(id)
  BY DEF SettlementsAccepted
<1> USE PrincipalsTyped
<1> DEFINE w == pendingWithdrawals[id]
           c == challenges[id]
           b == c.challengerBond
           E == EscrowContract
<1>1. /\ id \in WithdrawalIds /\ w \in PendingWithdrawal /\ PayableRecord(w)
      /\ Status(id) = w.status
  BY WithdrawalTyped DEF Open, RecordsPayable, Status
<1>2. /\ authorizedContract = E /\ ~IsNullifierUsed(w.nullifier)
      /\ w.nullifier # ZeroNullifier /\ w.recipient # E
      /\ poolFunded = WithdrawalIds /\ \A i \in WithdrawalIds : ~(rejections[i] > 0)
  BY DEF MayBeStuck, NullifierOf
<1>3. /\ w.status = "pending" => balances[E] >= PoolDenomination + w.bond
      /\ w.status = "challenged" => balances[E] >= PoolDenomination + w.bond + b
  BY <1>1, <1>2, OpenShareHeld DEF Status
<1>4. /\ balances \in [Principals -> Nat] /\ balances[E] \in Nat
      /\ PoolDenomination \in Nat \ {0} /\ MinBond \in Nat \ {0}
  BY EscrowAssumption DEF TypeOK
<1>5. w.status \in {"pending", "challenged"}
  BY <1>1 DEF Open, Finalized, Slashed, PendingWithdrawal
<1>6. w.status = "challenged" => id \in DOMAIN challenges /\ PayableChallenge(c)
  BY <1>1 DEF ChallengeInv, RecordsMatch, Status, RecordsPayable
<1> HIDE DEF w, c
<1>7. /\ w.recipient \in Principals /\ w.relayer \in Principals /\ w.relayer # E
      /\ w.relayerFee \in Nat /\ w.relayerFee < PoolDenomination
      /\ w.bond \in Nat /\ w.bond > 0
  BY <1>1, <1>4 DEF PayableRecord
<1>8. CASE w.status = "pending"
  <2> DEFINE amount == RecipientAmount(w.relayerFee)
             paid == AfterTransfer(balances, amount, E, w.recipient)
             feePaid == AfterFee(paid, w.relayerFee, E, w.relayer)
  <2>1. amount \in Nat /\ amount > 0 /\ amount = PoolDenomination - w.relayerFee
    BY <1>4, <1>7 DEF RecipientAmount
  <2> HIDE DEF amount
  <2>2. CanTransfer(balances, amount, E, w.recipient)
    BY <1>2, <1>3, <1>4, <1>7, <1>8, <2>1 DEF CanTransfer
  <2>3. paid \in [Principals -> Nat] /\ paid[E] = balances[E] - amount
    BY <1>4, <1>7, <2>1, <2>2, TransferTyped, TransferMoves
  <2> HIDE DEF paid
  <2>4. paid[E] >= w.relayerFee + w.bond
    BY <1>3, <1>4, <1>7, <1>8, <2>1, <2>3
  <2>5. CanPayFee(paid, w.relayerFee, E, w.relayer)
    BY <1>7, <2>3, <2>4 DEF CanPayFee, CanTransfer
  <2>6. feePaid \in [Principals -> Nat] /\ feePaid[E] = paid[E] - w.relayerFee
    BY <1>7, <2>3, <2>5, FeeTyped, FeeMoves
  <2> HIDE DEF feePaid
  <2>7. CanTransfer(feePaid, w.bond, E, w.relayer)
    BY <1>7, <2>3, <2>4, <2>6 DEF CanTransfer
  <2>8. PayoutAccepted(id)
    BY <1>2, <2>2, <2>5, <2>7
    DEF PayoutAccepted, IsAuthorizedCaller, w, amount, paid, feePaid
  <2> QED
    BY <1>1, <1>8, <2>8
<1>9. CASE w.status = "challenged"
  <2>1. /\ id \in DOMAIN challenges /\ c.challenger \in Principals /\ c.challenger # E
        /\ b \in Nat /\ b > 0
    BY <1>4, <1>6, <1>9 DEF PayableChallenge
  <2> HIDE DEF b
  <2>2. SlashAccepted(id)
    <3> DEFINE slashed == AfterTransfer(balances, w.bond, E, c.challenger)
               returned == AfterTransfer(slashed, b, E, c.challenger)
    <3>1. CanTransfer(balances, w.bond, E, c.challenger)
      BY <1>3, <1>4, <1>7, <1>9, <2>1 DEF CanTransfer
    <3>2. slashed \in [Principals -> Nat] /\ slashed[E] = balances[E] - w.bond
      BY <1>4, <1>7, <2>1, <3>1, TransferTyped, TransferMoves
    <3> HIDE DEF slashed
    <3>3. CanTransfer(slashed, b, E, c.challenger)
      BY <1>3, <1>4, <1>7, <1>9, <2>1, <3>2 DEF CanTransfer
    <3>4. returned \in [Principals -> Nat] /\ returned[E] = slashed[E] - b
      BY <2>1, <3>2, <3>3, TransferTyped, TransferMoves
    <3> HIDE DEF returned
    <3>5. CanTransfer(returned, PoolDenomination, E, ContractOwner)
      BY <1>3, <1>4, <1>7, <1>9, <2>1, <3>2, <3>4 DEF CanTransfer
    <3> QED
      BY <2>1, <3>1, <3>3, <3>5 DEF SlashAccepted, w, c, b, slashed, returned
  <2>3. RejectionAccepted(id)
    <3> DEFINE forfeited == AfterTransfer(balances, b, E, w.relayer)
    <3>1. CanTransfer(balances, b, E, w.relayer)
      BY <1>3, <1>4, <1>7, <1>9, <2>1 DEF CanTransfer
    <3>2. forfeited \in [Principals -> Nat] /\ forfeited[E] = balances[E] - b
      BY <1>4, <1>7, <2>1, <3>1, TransferTyped, TransferMoves
    <3> HIDE DEF forfeited
    <3>3. CanTransfer(forfeited, w.bond, E, w.relayer)
      BY <1>3, <1>4, <1>7, <1>9, <2>1, <3>2 DEF CanTransfer
    <3> QED
      BY <2>1, <3>1, <3>3 DEF RejectionAccepted, w, c, b, forfeited
  <2> QED
    BY <1>1, <1>9, <2>2, <2>3
<1> QED
  BY <1>5, <1>8, <1>9

\* The escrow refuses no settlement: outside the circumstances of MayBeStuck, and for any
\* number of withdrawals, fees and bonds, every transfer of finalize-withdrawal and of
\* resolve-challenge finds its tokens, whatever the other withdrawals took out before.
THEOREM SettlementNeverRefused == Spec => []SettlementsAccepted
BY AcceptedFollows, PayableInit, PayableStep, AccountedInit, AccountedStep, AllSharesTyped,
   TypeCorrect, ChallengeInit, ChallengeStep, PTL DEF Spec
=============================================================================
