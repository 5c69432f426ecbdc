-------------------------- MODULE PoolSafety_proofs --------------------------
(***************************************************************************)
(* Proofs of the safety properties that relate a withdrawal's record, its  *)
(* reservation, its challenges and the spent nullifiers, and that the      *)
(* contracts implement ShieldedPool.                                       *)
(*                                                                         *)
(* Four lemmas first reduce the twelve kinds of step to what they do to    *)
(* that state: a step submits a withdrawal, changes the status of one, or  *)
(* leaves all withdrawals alone.                                           *)
(***************************************************************************)
EXTENDS PoolSystem_proofs

\* Steps of the pool, the registry, the tree, the token and the chain.
QuietStep ==
    \/ DepositTx \/ WithdrawTx
    \/ SetAuthorizedContractTx \/ MarkUsedTx
    \/ SetAuthorizedCallerTx \/ AppendLeafTx
    \/ TransferTx \/ BlockMined
    \/ UNCHANGED vars

SubmitStep == WithdrawOptimisticTx \/ SubmitWithdrawalTx

LEMMA StepKinds ==
    [Next]_vars => QuietStep \/ SubmitStep \/ \E id \in WithdrawalIds : EscrowTx(id)
BY DEF Next, QuietStep, SubmitStep

\* A quiet step changes no withdrawal, never turns the clock back or frees a
\* nullifier, and pays out directly only against a nullifier it marks itself.
LEMMA QuietEffect ==
    ASSUME TypeOK, QuietStep
    PROVE  /\ UNCHANGED <<pendingWithdrawals, reservedNullifiers, challenges>>
           /\ stacksBlockHeight' \in Nat /\ stacksBlockHeight' >= stacksBlockHeight
           /\ usedNullifiers \subseteq usedNullifiers'
           /\ directSpends' \subseteq directSpends \cup (usedNullifiers' \ usedNullifiers)
<1>1. CASE DepositTx
  <2>1. UNCHANGED <<stacksBlockHeight, registryVars, escrowVars, historyVars>>
    BY <1>1, Zenon DEF DepositTx, Deposit
  <2> QED
    BY <2>1 DEF TypeOK, registryVars, escrowVars, historyVars
<1>2. CASE WithdrawTx
  <2>1. PICK nullifier :
            /\ UNCHANGED <<stacksBlockHeight, treeVars, escrowVars, depositCommitments>>
            /\ MarkUsed(PoolContract, nullifier)
            /\ directSpends' = directSpends \cup {nullifier}
    BY <1>2, Zenon DEF WithdrawTx, Withdraw
  <2> QED
    BY <2>1 DEF TypeOK, MarkUsed, IsNullifierUsed, escrowVars
<1>3. CASE SetAuthorizedContractTx
  BY <1>3 DEF SetAuthorizedContractTx, SetAuthorizedContract, TypeOK, escrowVars, historyVars
<1>4. CASE MarkUsedTx
  BY <1>4 DEF MarkUsedTx, MarkUsed, TypeOK, escrowVars, historyVars
<1>5. CASE SetAuthorizedCallerTx
  BY <1>5 DEF SetAuthorizedCallerTx, TypeOK, registryVars, escrowVars, historyVars
<1>6. CASE AppendLeafTx
  BY <1>6 DEF AppendLeafTx, TypeOK, registryVars, escrowVars, historyVars
<1>7. CASE TransferTx
  BY <1>7 DEF TransferTx, TypeOK, registryVars, escrowVars, historyVars
<1>8. CASE BlockMined
  <2>1. /\ stacksBlockHeight' = stacksBlockHeight + 1
        /\ UNCHANGED <<registryVars, escrowVars, historyVars>>
    BY <1>8, Zenon DEF BlockMined, NewBlock
  <2> QED
    BY <2>1 DEF TypeOK, registryVars, escrowVars, historyVars
<1>9. CASE UNCHANGED vars
  BY <1>9 DEF vars, contractVars, TypeOK, registryVars, escrowVars, historyVars
<1> QED
  BY <1>1, <1>2, <1>3, <1>4, <1>5, <1>6, <1>7, <1>8, <1>9 DEF QuietStep

\* A submission adds one pending withdrawal, of a nullifier neither
\* reserved nor used.
Submits(w) ==
    /\ w.status = "pending" /\ w.submitBlock = stacksBlockHeight
    /\ w.nullifier \notin DOMAIN reservedNullifiers \cup usedNullifiers
    /\ nextWithdrawalId \notin WithdrawalIds
    /\ pendingWithdrawals' = MapSet(pendingWithdrawals, nextWithdrawalId, w)
    /\ reservedNullifiers' = MapSet(reservedNullifiers, w.nullifier, nextWithdrawalId)
    /\ UNCHANGED <<stacksBlockHeight, registryVars, challenges, directSpends>>

LEMMA SubmitWithdrawalSubmits ==
    ASSUME TypeOK, UNCHANGED directSpends,
           NEW bal, NEW relayer \in Signers, NEW nullifier \in Nullifiers, NEW r,
           NEW recipient \in Recipients, NEW fee \in RelayerFees, NEW bond \in Bonds,
           SubmitWithdrawal(bal, relayer, nullifier, r, recipient, fee, bond)
    PROVE  \E w \in PendingWithdrawal : Submits(w)
<1> DEFINE w == [nullifier |-> nullifier, recipient |-> recipient,
                 relayer |-> relayer, relayerFee |-> fee, bond |-> bond,
                 submitBlock |-> stacksBlockHeight, status |-> "pending"]
<1>1. w \in PendingWithdrawal
  BY PrincipalsTyped, InputsAssumption DEF TypeOK, PendingWithdrawal
<1>2. nextWithdrawalId \notin WithdrawalIds
  BY DEF TypeOK, WithdrawalIds
<1>3. /\ nullifier \notin DOMAIN reservedNullifiers \cup usedNullifiers
      /\ pendingWithdrawals' = MapSet(pendingWithdrawals, nextWithdrawalId, w)
      /\ reservedNullifiers' = MapSet(reservedNullifiers, nullifier, nextWithdrawalId)
      /\ UNCHANGED <<stacksBlockHeight, registryVars, challenges>>
  BY DEF SubmitWithdrawal, IsNullifierReserved, IsNullifierUsed
<1>4. /\ w.status = "pending" /\ w.submitBlock = stacksBlockHeight
      /\ w.nullifier = nullifier
  OBVIOUS
<1> HIDE DEF w
<1> QED
  BY <1>1, <1>2, <1>3, <1>4 DEF Submits

LEMMA SubmitEffect ==
    ASSUME TypeOK, SubmitStep
    PROVE  \E w \in PendingWithdrawal : Submits(w)
<1>1. CASE WithdrawOptimisticTx
  <2>1. PICK relayer \in Signers, nullifier \in Nullifiers, r \in knownRoots,
             recipient \in Recipients, fee \in RelayerFees, bond \in Bonds :
            /\ WithdrawOptimistic(relayer, nullifier, r, recipient, fee, bond)
            /\ UNCHANGED directSpends
    BY <1>1, Zenon DEF WithdrawOptimisticTx
  <2>2. SubmitWithdrawal(
            AfterTransfer(balances, PoolDenomination, PoolContract, EscrowContract),
            relayer, nullifier, r, recipient, fee, bond)
    BY <2>1, Zenon DEF WithdrawOptimistic
  <2> QED
    BY <2>1, <2>2, SubmitWithdrawalSubmits, Zenon
<1>2. CASE SubmitWithdrawalTx
  <2>1. PICK relayer \in Signers, nullifier \in Nullifiers, r \in knownRoots,
             recipient \in Recipients, fee \in RelayerFees, bond \in Bonds :
            /\ SubmitWithdrawal(balances, relayer, nullifier, r, recipient, fee, bond)
            /\ UNCHANGED <<depositCommitments, directSpends, poolFunded>>
    BY <1>2, Zenon DEF SubmitWithdrawalTx
  <2>2. UNCHANGED directSpends
    BY <2>1
  <2> QED
    BY <2>1, <2>2, SubmitWithdrawalSubmits, Zenon
<1> QED
  BY <1>1, <1>2 DEF SubmitStep

\* The status changes a call of finalize-withdrawal, challenge-withdrawal or
\* resolve-challenge may make, with what else each of them does.
Changes(id, w, next) ==
    \/ /\ w.status = "pending" /\ next = [w EXCEPT !.status = "finalized"]
       /\ stacksBlockHeight > w.submitBlock + ChallengePeriod
       /\ w.nullifier \notin usedNullifiers
       /\ usedNullifiers' = usedNullifiers \cup {w.nullifier}
       /\ UNCHANGED <<reservedNullifiers, challenges>>
    \/ /\ w.status = "pending" /\ next = [w EXCEPT !.status = "challenged"]
       /\ stacksBlockHeight <= w.submitBlock + ChallengePeriod
       /\ \E c \in Challenge :
              /\ c.challengeBlock = stacksBlockHeight /\ c.resolved = FALSE
              /\ challenges' = MapSet(challenges, id, c)
       /\ UNCHANGED <<reservedNullifiers, usedNullifiers>>
    \/ /\ w.status = "challenged" /\ next = [w EXCEPT !.status = "slashed"]
       /\ id \in DOMAIN challenges
       /\ challenges' = [challenges EXCEPT ![id].resolved = TRUE]
       /\ reservedNullifiers' = MapDelete(reservedNullifiers, w.nullifier)
       /\ UNCHANGED usedNullifiers
    \/ /\ w.status = "challenged"
       /\ next = [w EXCEPT !.status = "pending", !.submitBlock = stacksBlockHeight]
       /\ id \in DOMAIN challenges
       /\ challenges' = [challenges EXCEPT ![id].resolved = TRUE]
       /\ UNCHANGED <<reservedNullifiers, usedNullifiers>>

LEMMA EscrowEffect ==
    ASSUME TypeOK, NEW id \in WithdrawalIds, EscrowTx(id)
    PROVE  \E next \in PendingWithdrawal :
               /\ Changes(id, pendingWithdrawals[id], next)
               /\ pendingWithdrawals' = [pendingWithdrawals EXCEPT ![id] = next]
               /\ UNCHANGED <<stacksBlockHeight, directSpends>>
<1> DEFINE w == pendingWithdrawals[id]
<1>1. w \in PendingWithdrawal
  <2>1. id \in 0 .. nextWithdrawalId - 1
    BY DEF TypeOK, WithdrawalIds
  <2> QED
    BY <2>1 DEF TypeOK
<1>2. CASE FinalizeTx(id)
  <2> DEFINE next == [w EXCEPT !.status = "finalized"]
  <2>1. /\ w.status = "pending"
        /\ stacksBlockHeight > w.submitBlock + ChallengePeriod
        /\ MarkUsed(EscrowContract, w.nullifier)
        /\ pendingWithdrawals' = [pendingWithdrawals EXCEPT ![id] = next]
        /\ UNCHANGED <<stacksBlockHeight, reservedNullifiers, challenges, directSpends>>
    BY <1>2 DEF FinalizeTx, FinalizeWithdrawal, IsPending, PeriodExpired, historyVars
  <2>2. next \in PendingWithdrawal
    BY <1>1 DEF PendingWithdrawal
  <2>3. Changes(id, w, next)
    BY <2>1 DEF Changes, MarkUsed, IsNullifierUsed
  <2> QED
    BY <2>1, <2>2, <2>3
<1>3. CASE ChallengeTx(id)
  <2> DEFINE next == [w EXCEPT !.status = "challenged"]
  <2>1. PICK challenger \in Signers, challengerBond \in Bonds :
            /\ ChallengeWithdrawal(challenger, id, challengerBond)
            /\ UNCHANGED historyVars
    BY <1>3 DEF ChallengeTx
  <2> DEFINE c == [challenger |-> challenger, challengerBond |-> challengerBond,
                   challengeBlock |-> stacksBlockHeight, resolved |-> FALSE]
  <2>2. /\ w.status = "pending"
        /\ stacksBlockHeight <= w.submitBlock + ChallengePeriod
        /\ challenges' = MapSet(challenges, id, c)
        /\ pendingWithdrawals' = [pendingWithdrawals EXCEPT ![id] = next]
        /\ UNCHANGED <<stacksBlockHeight, reservedNullifiers, usedNullifiers, directSpends>>
    BY <2>1 DEF ChallengeWithdrawal, IsPending, PeriodActive, historyVars, registryVars
  <2>3. next \in PendingWithdrawal
    BY <1>1 DEF PendingWithdrawal
  <2>4. /\ c \in Challenge
        /\ c.challengeBlock = stacksBlockHeight /\ c.resolved = FALSE
    BY PrincipalsTyped, InputsAssumption DEF TypeOK, Challenge
  <2>5. Changes(id, w, next)
    <3> HIDE DEF c
    <3> QED
      BY <2>2, <2>4 DEF Changes
  <2> QED
    BY <2>2, <2>3, <2>5
<1>4. CASE UpholdTx(id)
  <2> DEFINE next == [w EXCEPT !.status = "slashed"]
  <2>1. /\ w.status = "challenged" /\ id \in DOMAIN challenges
        /\ challenges' = [challenges EXCEPT ![id].resolved = TRUE]
        /\ reservedNullifiers' = MapDelete(reservedNullifiers, w.nullifier)
        /\ pendingWithdrawals' = [pendingWithdrawals EXCEPT ![id] = next]
        /\ UNCHANGED <<stacksBlockHeight, usedNullifiers, directSpends>>
    BY <1>4 DEF UpholdTx, UpholdChallenge, Status, historyVars, registryVars
  <2>2. next \in PendingWithdrawal
    BY <1>1 DEF PendingWithdrawal
  <2>3. Changes(id, w, next)
    BY <2>1 DEF Changes
  <2> QED
    BY <2>1, <2>2, <2>3
<1>5. CASE RejectTx(id)
  <2> DEFINE next == [w EXCEPT !.status = "pending", !.submitBlock = stacksBlockHeight]
  <2>1. /\ w.status = "challenged" /\ id \in DOMAIN challenges
        /\ challenges' = [challenges EXCEPT ![id].resolved = TRUE]
        /\ pendingWithdrawals' = [pendingWithdrawals EXCEPT ![id] = next]
        /\ UNCHANGED <<stacksBlockHeight, reservedNullifiers, usedNullifiers, directSpends>>
    BY <1>5 DEF RejectTx, RejectChallenge, Status, PendingAgain, registryVars
  <2>2. next \in PendingWithdrawal
    BY <1>1 DEF TypeOK, PendingWithdrawal
  <2>3. Changes(id, w, next)
    BY <2>1 DEF Changes
  <2> QED
    BY <2>1, <2>2, <2>3
<1> QED
  BY <1>2, <1>3, <1>4, <1>5 DEF EscrowTx

-----------------------------------------------------------------------------
(***************************************************************************)
(* Reservations.  ReservationsMatch is inductive on typed states.          *)
(***************************************************************************)
LEMMA ReservationsInit == Init => ReservationsMatch
BY DEF Init, EscrowInit, EmptyMap, ReservationsMatch, WithdrawalIds

LEMMA ReservationsStep ==
    TypeOK /\ ReservationsMatch /\ [Next]_vars => ReservationsMatch'
<1> SUFFICES ASSUME TypeOK, ReservationsMatch, [Next]_vars PROVE ReservationsMatch'
  OBVIOUS
<1> USE DEF ReservationsMatch, NullifierOf, Slashed, Status, WithdrawalIds
<1>1. CASE QuietStep
  BY <1>1, QuietEffect
<1>2. CASE SubmitStep
  <2>1. PICK w \in PendingWithdrawal : Submits(w)
    BY <1>2, SubmitEffect
  <2>2. /\ \A id \in WithdrawalIds : pendingWithdrawals'[id] = pendingWithdrawals[id]
        /\ pendingWithdrawals'[nextWithdrawalId] = w
        /\ WithdrawalIds' = WithdrawalIds \cup {nextWithdrawalId}
        /\ nextWithdrawalId \notin WithdrawalIds /\ w.status = "pending"
    BY <2>1 DEF Submits, MapSet
  <2>3. /\ DOMAIN reservedNullifiers' = DOMAIN reservedNullifiers \cup {w.nullifier}
        /\ w.nullifier \notin DOMAIN reservedNullifiers
        /\ reservedNullifiers'[w.nullifier] = nextWithdrawalId
        /\ \A n \in DOMAIN reservedNullifiers :
               reservedNullifiers'[n] = reservedNullifiers[n]
    BY <2>1 DEF Submits, MapSet
  <2>4. \A n \in DOMAIN reservedNullifiers : reservedNullifiers[n] \in WithdrawalIds
    BY DEF TypeOK
  <2> QED
    BY <2>2, <2>3, <2>4
<1>3. CASE \E id \in WithdrawalIds : EscrowTx(id)
  <2>1. PICK id \in WithdrawalIds : EscrowTx(id)
    BY <1>3
  <2>2. PICK next \in PendingWithdrawal :
            /\ Changes(id, pendingWithdrawals[id], next)
            /\ pendingWithdrawals' = [pendingWithdrawals EXCEPT ![id] = next]
    BY <2>1, EscrowEffect
  <2>3. /\ WithdrawalIds' = WithdrawalIds
        /\ pendingWithdrawals'[id] = next
        /\ \A other \in WithdrawalIds \ {id} :
               pendingWithdrawals'[other] = pendingWithdrawals[other]
    BY <2>1, <2>2
  <2>4. \A n \in DOMAIN reservedNullifiers : reservedNullifiers[n] \in WithdrawalIds
    BY DEF TypeOK
  <2>5. pendingWithdrawals[id] \in PendingWithdrawal
    BY <2>1 DEF TypeOK
  <2>6. CASE next.status = "slashed"
    <3>1. /\ pendingWithdrawals[id].status = "challenged"
          /\ next.nullifier = pendingWithdrawals[id].nullifier
          /\ reservedNullifiers' =
                 MapDelete(reservedNullifiers, pendingWithdrawals[id].nullifier)
      BY <2>2, <2>5, <2>6 DEF Changes, PendingWithdrawal
    <3> QED
      BY <2>1, <2>3, <2>4, <2>6, <3>1 DEF MapDelete
  <2>7. CASE next.status # "slashed"
    <3>1. /\ pendingWithdrawals[id].status # "slashed"
          /\ next.nullifier = pendingWithdrawals[id].nullifier
          /\ UNCHANGED reservedNullifiers
      BY <2>2, <2>5, <2>7 DEF Changes, PendingWithdrawal
    <3> QED
      BY <2>1, <2>3, <2>4, <2>7, <3>1
  <2> QED
    BY <2>6, <2>7
<1> QED
  BY <1>1, <1>2, <1>3, StepKinds

\* reserved-nullifiers always names, for every nullifier, the one withdrawal that
\* is not slashed, however often withdrawals were challenged, slashed and posted
\* again.
THEOREM ReservationsAlwaysMatch == Spec => []ReservationsMatch
BY TypeCorrect, ReservationsInit, ReservationsStep, PTL DEF Spec

-----------------------------------------------------------------------------
(***************************************************************************)
(* Payouts.  That a nullifier is paid once is not inductive: it needs that *)
(* every payout, on either path, left its mark in the registry.            *)
(***************************************************************************)
PayoutsMarked ==
    /\ directSpends \subseteq usedNullifiers
    /\ \A id \in Finalized : NullifierOf(id) \in usedNullifiers

PayoutInv == PayoutsMarked /\ NullifierPaidOnce

LEMMA PayoutInit == Init => PayoutInv
BY DEF Init, EscrowInit, EmptyMap, PayoutInv, PayoutsMarked, NullifierPaidOnce,
       Finalized, WithdrawalIds

LEMMA PayoutStep == TypeOK /\ PayoutInv /\ [Next]_vars => PayoutInv'
<1> SUFFICES ASSUME TypeOK, PayoutInv, [Next]_vars PROVE PayoutInv'
  OBVIOUS
<1> USE DEF PayoutInv, PayoutsMarked, NullifierPaidOnce, NullifierOf, Finalized, Status,
            WithdrawalIds
<1>1. CASE QuietStep
  BY <1>1, QuietEffect
<1>2. CASE SubmitStep
  <2>1. PICK w \in PendingWithdrawal : Submits(w)
    BY <1>2, SubmitEffect
  <2>2. /\ \A id \in WithdrawalIds : pendingWithdrawals'[id] = pendingWithdrawals[id]
        /\ pendingWithdrawals'[nextWithdrawalId] = w
        /\ WithdrawalIds' = WithdrawalIds \cup {nextWithdrawalId}
        /\ w.status = "pending"
        /\ UNCHANGED <<usedNullifiers, directSpends>>
    BY <2>1 DEF Submits, MapSet, registryVars
  <2> QED
    BY <2>2
<1>3. CASE \E id \in WithdrawalIds : EscrowTx(id)
  <2>1. PICK id \in WithdrawalIds : EscrowTx(id)
    BY <1>3
  <2>2. PICK next \in PendingWithdrawal :
            /\ Changes(id, pendingWithdrawals[id], next)
            /\ pendingWithdrawals' = [pendingWithdrawals EXCEPT ![id] = next]
            /\ UNCHANGED directSpends
    BY <2>1, EscrowEffect
  <2>3. /\ WithdrawalIds' = WithdrawalIds
        /\ pendingWithdrawals'[id] = next
        /\ \A other \in WithdrawalIds \ {id} :
               pendingWithdrawals'[other] = pendingWithdrawals[other]
    BY <2>1, <2>2
  <2>4. pendingWithdrawals[id] \in PendingWithdrawal
    BY <2>1 DEF TypeOK
  <2>5. CASE next.status = "finalized"
    <3>1. /\ pendingWithdrawals[id].status = "pending"
          /\ next.nullifier = pendingWithdrawals[id].nullifier
          /\ next.nullifier \notin usedNullifiers
          /\ usedNullifiers' = usedNullifiers \cup {next.nullifier}
      BY <2>2, <2>4, <2>5 DEF Changes, PendingWithdrawal
    <3> QED
      BY <2>1, <2>2, <2>3, <2>5, <3>1
  <2>6. CASE next.status # "finalized"
    <3>1. UNCHANGED usedNullifiers
      BY <2>2, <2>4, <2>6 DEF Changes, PendingWithdrawal
    <3> QED
      BY <2>1, <2>2, <2>3, <2>6, <3>1
  <2> QED
    BY <2>5, <2>6
<1> QED
  BY <1>1, <1>2, <1>3, StepKinds

\* No interleaving of direct withdrawals, finalizations, direct marks and
\* reconfigurations of the registry pays a nullifier out twice.
THEOREM NullifierNeverPaidTwice == Spec => []NullifierPaidOnce
<1>1. PayoutInv => NullifierPaidOnce
  BY DEF PayoutInv
<1> QED
  BY <1>1, TypeCorrect, PayoutInit, PayoutStep, PTL DEF Spec

-----------------------------------------------------------------------------
(***************************************************************************)
(* Challenges.  The records of a challenge and the status stay together    *)
(* because no recorded block lies in the future.                           *)
(***************************************************************************)
BlocksPast ==
    /\ \A id \in WithdrawalIds : pendingWithdrawals[id].submitBlock <= stacksBlockHeight
    /\ \A id \in DOMAIN challenges : challenges[id].challengeBlock <= stacksBlockHeight

\* ChallengeRecordsMatch, of one withdrawal.
RecordsMatch(id) ==
    /\ Status(id) \in {"challenged", "slashed"} => id \in DOMAIN challenges
    /\ id \in DOMAIN challenges =>
        /\ challenges[id].resolved <=> Status(id) # "challenged"
        /\ Status(id) \in {"pending", "finalized"} =>
               challenges[id].challengeBlock <= pendingWithdrawals[id].submitBlock
        /\ Status(id) \in {"challenged", "slashed"} =>
               /\ pendingWithdrawals[id].submitBlock <= challenges[id].challengeBlock
               /\ challenges[id].challengeBlock
                      <= pendingWithdrawals[id].submitBlock + ChallengePeriod

ChallengeInv == BlocksPast /\ \A id \in WithdrawalIds : RecordsMatch(id)

LEMMA WithdrawalTyped ==
    ASSUME TypeOK, NEW id \in WithdrawalIds
    PROVE  /\ pendingWithdrawals[id] \in PendingWithdrawal
           /\ pendingWithdrawals[id].submitBlock \in Nat
           /\ id \in DOMAIN challenges => /\ challenges[id] \in Challenge
                                          /\ challenges[id].challengeBlock \in Nat
           /\ stacksBlockHeight \in Nat
           /\ ChallengePeriod \in Nat
BY EscrowAssumption DEF TypeOK, WithdrawalIds, PendingWithdrawal, Challenge

LEMMA RecordsAllMatch ==
    TypeOK => (ChallengeRecordsMatch <=> \A id \in WithdrawalIds : RecordsMatch(id))
<1> SUFFICES ASSUME TypeOK, NEW id \in WithdrawalIds, id \in DOMAIN challenges,
                    NEW c, c = challenges[id].challengeBlock,
                    NEW s, s = pendingWithdrawals[id].submitBlock
             PROVE  c \in s .. s + ChallengePeriod <=>
                        s <= c /\ c <= s + ChallengePeriod
  BY DEF ChallengeRecordsMatch, RecordsMatch
<1> QED
  BY WithdrawalTyped

LEMMA ChallengeInit == Init => ChallengeInv
BY DEF Init, EscrowInit, EmptyMap, ChallengeInv, BlocksPast, WithdrawalIds

LEMMA ChallengeStep == TypeOK /\ ChallengeInv /\ [Next]_vars => ChallengeInv'
<1> SUFFICES ASSUME TypeOK, ChallengeInv, [Next]_vars PROVE ChallengeInv'
  OBVIOUS
<1>0. \A id \in WithdrawalIds :
          /\ pendingWithdrawals[id] \in PendingWithdrawal
          /\ pendingWithdrawals[id].submitBlock \in Nat
          /\ id \in DOMAIN challenges => challenges[id].challengeBlock \in Nat
  BY WithdrawalTyped
<1>1. /\ DOMAIN challenges \subseteq WithdrawalIds
      /\ stacksBlockHeight \in Nat
      /\ ChallengePeriod \in Nat
  BY EscrowAssumption DEF TypeOK
<1>2. CASE QuietStep
  <2>1. /\ UNCHANGED <<pendingWithdrawals, reservedNullifiers, challenges>>
        /\ stacksBlockHeight' \in Nat /\ stacksBlockHeight' >= stacksBlockHeight
    BY <1>2, QuietEffect
  <2> QED
    BY <1>0, <1>1, <2>1 DEF ChallengeInv, BlocksPast, RecordsMatch, Status, WithdrawalIds
<1>3. CASE SubmitStep
  <2>1. PICK w \in PendingWithdrawal : Submits(w)
    BY <1>3, SubmitEffect
  <2>2. /\ \A id \in WithdrawalIds : pendingWithdrawals'[id] = pendingWithdrawals[id]
        /\ pendingWithdrawals'[nextWithdrawalId] = w
        /\ WithdrawalIds' = WithdrawalIds \cup {nextWithdrawalId}
        /\ nextWithdrawalId \notin WithdrawalIds
        /\ w.status = "pending" /\ w.submitBlock = stacksBlockHeight
        /\ UNCHANGED <<stacksBlockHeight, challenges>>
    BY <2>1 DEF Submits, MapSet, WithdrawalIds
  <2>3. BlocksPast'
    BY <1>0, <1>1, <2>2 DEF ChallengeInv, BlocksPast
  <2>4. \A id \in WithdrawalIds' : RecordsMatch(id)'
    BY <1>0, <1>1, <2>2 DEF ChallengeInv, RecordsMatch, Status
  <2> QED
    BY <2>3, <2>4 DEF ChallengeInv
<1>4. CASE \E id \in WithdrawalIds : EscrowTx(id)
  <2>1. PICK id \in WithdrawalIds : EscrowTx(id)
    BY <1>4
  <2> DEFINE w == pendingWithdrawals[id]
  <2>2. PICK next \in PendingWithdrawal :
            /\ Changes(id, w, next)
            /\ pendingWithdrawals' = [pendingWithdrawals EXCEPT ![id] = next]
            /\ UNCHANGED stacksBlockHeight
    BY <2>1, EscrowEffect
  <2>3. /\ WithdrawalIds' = WithdrawalIds
        /\ pendingWithdrawals'[id] = next
        /\ \A other \in WithdrawalIds \ {id} :
               pendingWithdrawals'[other] = pendingWithdrawals[other]
    BY <2>1, <2>2 DEF WithdrawalIds
  <2>4. w \in PendingWithdrawal /\ w.submitBlock \in Nat
    BY <1>0, <2>1
  <2>5. /\ RecordsMatch(id)
        /\ w.submitBlock <= stacksBlockHeight
        /\ id \in DOMAIN challenges => challenges[id].challengeBlock <= stacksBlockHeight
        /\ id \in DOMAIN challenges => challenges[id] \in Challenge
    BY <2>1, WithdrawalTyped DEF ChallengeInv, BlocksPast
  <2>6. /\ \A other \in DOMAIN challenges \ {id} :
               other \in DOMAIN challenges' /\ challenges'[other] = challenges[other]
        /\ DOMAIN challenges' \subseteq DOMAIN challenges \cup {id}
        /\ next.submitBlock \in Nat /\ next.submitBlock <= stacksBlockHeight
        /\ id \in DOMAIN challenges' =>
               challenges'[id].challengeBlock <= stacksBlockHeight
        /\ RecordsMatch(id)'
    <3>1. CASE next.status = "finalized"
      <4>1. /\ w.status = "pending" /\ UNCHANGED challenges
            /\ next.submitBlock = w.submitBlock
        BY <2>2, <2>4, <3>1 DEF Changes, PendingWithdrawal
      <4> QED
        BY <2>3, <2>4, <2>5, <3>1, <4>1 DEF RecordsMatch, Status
    <3>2. CASE next.status = "challenged"
      <4>1. /\ w.status = "pending" /\ next.submitBlock = w.submitBlock
            /\ stacksBlockHeight <= w.submitBlock + ChallengePeriod
        BY <2>2, <2>4, <3>2 DEF Changes, PendingWithdrawal
      <4>2. PICK c \in Challenge :
                /\ c.challengeBlock = stacksBlockHeight /\ c.resolved = FALSE
                /\ challenges' = MapSet(challenges, id, c)
        BY <2>2, <2>4, <3>2 DEF Changes, PendingWithdrawal
      <4>3. /\ DOMAIN challenges' = DOMAIN challenges \cup {id}
            /\ challenges'[id] = c
            /\ \A other \in DOMAIN challenges \ {id} : challenges'[other] = challenges[other]
        BY <4>2 DEF MapSet
      <4> QED
        BY <1>1, <2>2, <2>3, <2>4, <2>5, <3>2, <4>1, <4>2, <4>3 DEF RecordsMatch, Status
    <3>3. CASE next.status = "slashed"
      <4>1. /\ w.status = "challenged" /\ next.submitBlock = w.submitBlock
            /\ id \in DOMAIN challenges
            /\ challenges' = [challenges EXCEPT ![id].resolved = TRUE]
        BY <2>2, <2>4, <3>3 DEF Changes, PendingWithdrawal
      <4>2. /\ DOMAIN challenges' = DOMAIN challenges
            /\ challenges'[id].resolved = TRUE
            /\ challenges'[id].challengeBlock = challenges[id].challengeBlock
            /\ \A other \in DOMAIN challenges \ {id} : challenges'[other] = challenges[other]
        BY <2>5, <4>1 DEF Challenge
      <4> QED
        BY <2>3, <2>4, <2>5, <3>3, <4>1, <4>2 DEF RecordsMatch, Status
    <3>4. CASE next.status = "pending"
      <4>1. /\ w.status = "challenged" /\ next.submitBlock = stacksBlockHeight
            /\ id \in DOMAIN challenges
            /\ challenges' = [challenges EXCEPT ![id].resolved = TRUE]
        BY <2>2, <2>4, <3>4 DEF Changes, PendingWithdrawal
      <4>2. /\ DOMAIN challenges' = DOMAIN challenges
            /\ challenges'[id].resolved = TRUE
            /\ challenges'[id].challengeBlock = challenges[id].challengeBlock
            /\ \A other \in DOMAIN challenges \ {id} : challenges'[other] = challenges[other]
        BY <2>5, <4>1 DEF Challenge
      <4> QED
        BY <1>1, <2>3, <2>4, <2>5, <3>4, <4>1, <4>2 DEF RecordsMatch, Status
    <3> QED
      BY <2>2, <3>1, <3>2, <3>3, <3>4 DEF PendingWithdrawal
  <2>7. BlocksPast'
    BY <2>2, <2>3, <2>6 DEF ChallengeInv, BlocksPast
  <2>8. \A other \in WithdrawalIds' : RecordsMatch(other)'
    <3> TAKE other \in WithdrawalIds'
    <3>1. CASE other = id
      BY <2>6, <3>1
    <3>2. CASE other # id
      <4>1. other \in WithdrawalIds \ {id} /\ RecordsMatch(other)
        BY <2>3, <3>2 DEF ChallengeInv
      <4>2. /\ pendingWithdrawals'[other] = pendingWithdrawals[other]
            /\ other \in DOMAIN challenges' <=> other \in DOMAIN challenges
            /\ other \in DOMAIN challenges => challenges'[other] = challenges[other]
        BY <2>3, <2>6, <4>1
      <4> QED
        BY <4>1, <4>2 DEF RecordsMatch, Status
    <3> QED
      BY <3>1, <3>2
  <2> QED
    BY <2>7, <2>8 DEF ChallengeInv
<1> QED
  BY <1>2, <1>3, <1>4, StepKinds

LEMMA ChallengeInvariant == Spec => [](TypeOK /\ ChallengeInv)
BY TypeCorrect, ChallengeInit, ChallengeStep, PTL DEF Spec

\* A challenge's record and its withdrawal's status tell the same story in every
\* state, for any length of the challenge period and any number of challenges.
THEOREM ChallengeRecordsAlwaysMatch == Spec => []ChallengeRecordsMatch
<1>1. TypeOK /\ ChallengeInv => ChallengeRecordsMatch
  BY RecordsAllMatch DEF ChallengeInv
<1> QED
  BY <1>1, ChallengeInvariant, PTL

\* A withdrawal is not paid out while a challenge of it is open, nor within
\* ChallengePeriod blocks of the last one.
THEOREM PayoutsWait == Spec => PayoutWaitsOutChallenges
<1>1. TypeOK /\ ChallengeInv /\ [Next]_vars =>
          [\A id \in WithdrawalIds \cap DOMAIN challenges :
               id \notin Finalized /\ pendingWithdrawals'[id].status = "finalized" =>
                   /\ challenges[id].resolved
                   /\ stacksBlockHeight > challenges[id].challengeBlock + ChallengePeriod]_vars
  <2> SUFFICES ASSUME TypeOK, ChallengeInv, [Next]_vars,
                      NEW id \in WithdrawalIds, id \in DOMAIN challenges,
                      id \notin Finalized, pendingWithdrawals'[id].status = "finalized"
               PROVE  /\ challenges[id].resolved
                      /\ stacksBlockHeight > challenges[id].challengeBlock + ChallengePeriod
    OBVIOUS
  <2>1. pendingWithdrawals'[id].status # pendingWithdrawals[id].status
    BY DEF Finalized, Status
  <2>2. ~QuietStep
    BY <2>1, QuietEffect
  <2>3. ~SubmitStep
    <3> SUFFICES ASSUME SubmitStep PROVE FALSE
      OBVIOUS
    <3>1. PICK w \in PendingWithdrawal : Submits(w)
      BY SubmitEffect
    <3> QED
      BY <2>1, <3>1 DEF Submits, MapSet, WithdrawalIds
  <2>4. PICK other \in WithdrawalIds : EscrowTx(other)
    BY <2>2, <2>3, StepKinds
  <2>5. PICK next \in PendingWithdrawal :
            /\ Changes(other, pendingWithdrawals[other], next)
            /\ pendingWithdrawals' = [pendingWithdrawals EXCEPT ![other] = next]
    BY <2>4, EscrowEffect
  <2>6. other = id /\ next.status = "finalized"
    BY <2>1, <2>5 DEF WithdrawalIds
  <2>7. /\ pendingWithdrawals[id].status = "pending"
        /\ stacksBlockHeight > pendingWithdrawals[id].submitBlock + ChallengePeriod
    BY <2>5, <2>6, WithdrawalTyped DEF Changes, PendingWithdrawal
  <2>8. RecordsMatch(id)
    BY DEF ChallengeInv
  <2> QED
    BY <2>7, <2>8, WithdrawalTyped DEF RecordsMatch, Status
<1> QED
  BY <1>1, ChallengeInvariant, PTL DEF Spec, PayoutWaitsOutChallenges

-----------------------------------------------------------------------------
(***************************************************************************)
(* The order of statuses.                                                  *)
(***************************************************************************)
OrderKept(w, next) ==
    /\ <<w.status, next.status>> \in
           {<<"pending", "challenged">>, <<"pending", "finalized">>,
            <<"challenged", "pending">>, <<"challenged", "slashed">>}
           \cup {<<s, s>> : s \in {"pending", "challenged", "finalized", "slashed"}}
    /\ next = [w EXCEPT !.status = next.status, !.submitBlock = next.submitBlock]

LEMMA OrderKeptBySame ==
    ASSUME NEW w \in PendingWithdrawal
    PROVE  OrderKept(w, w)
BY DEF OrderKept, PendingWithdrawal

LEMMA OrderKeptByChange ==
    ASSUME NEW id, NEW w \in PendingWithdrawal, NEW next, Changes(id, w, next)
    PROVE  OrderKept(w, next)
<1>1. CASE next = [w EXCEPT !.status = "finalized"] /\ w.status = "pending"
  BY <1>1 DEF OrderKept, PendingWithdrawal
<1>2. CASE next = [w EXCEPT !.status = "challenged"] /\ w.status = "pending"
  BY <1>2 DEF OrderKept, PendingWithdrawal
<1>3. CASE next = [w EXCEPT !.status = "slashed"] /\ w.status = "challenged"
  BY <1>3 DEF OrderKept, PendingWithdrawal
<1>4. CASE /\ next = [w EXCEPT !.status = "pending", !.submitBlock = stacksBlockHeight]
           /\ w.status = "challenged"
  BY <1>4 DEF OrderKept, PendingWithdrawal
<1> QED
  BY <1>1, <1>2, <1>3, <1>4, Zenon DEF Changes

\* A settled withdrawal stays settled and its terms never change: no step of any
\* kind takes a withdrawal out of order or rewrites its record.
THEOREM StatusesInOrder == Spec => StatusOrder
<1>1. TypeOK /\ [Next]_vars =>
          [\A id \in WithdrawalIds :
               OrderKept(pendingWithdrawals[id], pendingWithdrawals'[id])]_vars
  <2> SUFFICES ASSUME TypeOK, [Next]_vars, NEW id \in WithdrawalIds
               PROVE  OrderKept(pendingWithdrawals[id], pendingWithdrawals'[id])
    OBVIOUS
  <2>1. pendingWithdrawals[id] \in PendingWithdrawal
    BY WithdrawalTyped
  <2>2. CASE QuietStep
    BY <2>1, <2>2, QuietEffect, OrderKeptBySame
  <2>3. CASE SubmitStep
    <3>1. PICK w \in PendingWithdrawal : Submits(w)
      BY <2>3, SubmitEffect
    <3>2. pendingWithdrawals'[id] = pendingWithdrawals[id]
      BY <3>1 DEF Submits, MapSet, WithdrawalIds
    <3> QED
      BY <2>1, <3>2, OrderKeptBySame
  <2>4. CASE \E other \in WithdrawalIds : EscrowTx(other)
    <3>1. PICK other \in WithdrawalIds : EscrowTx(other)
      BY <2>4
    <3>2. PICK next \in PendingWithdrawal :
              /\ Changes(other, pendingWithdrawals[other], next)
              /\ pendingWithdrawals' = [pendingWithdrawals EXCEPT ![other] = next]
      BY <3>1, EscrowEffect
    <3>3. CASE other = id
      <4>1. pendingWithdrawals'[id] = next
        BY <3>2, <3>3 DEF WithdrawalIds
      <4> QED
        BY <2>1, <3>2, <3>3, <4>1, OrderKeptByChange
    <3>4. CASE other # id
      <4>1. pendingWithdrawals'[id] = pendingWithdrawals[id]
        BY <3>2, <3>4 DEF WithdrawalIds
      <4> QED
        BY <2>1, <4>1, OrderKeptBySame
    <3> QED
      BY <3>3, <3>4
  <2> QED
    BY <2>2, <2>3, <2>4, StepKinds
<1> QED
  BY <1>1, TypeCorrect, PTL DEF Spec, StatusOrder, OrderKept

-----------------------------------------------------------------------------
(***************************************************************************)
(* The refinement: the initial states map to initial states, and every     *)
(* transaction maps to one step of the abstract pool or to a stutter.      *)
(***************************************************************************)
Claims == {NullifierOf(id) : id \in Open}

Paid == directSpends \cup {NullifierOf(id) : id \in Finalized}

\* A quiet step takes one commitment, or pays one nullifier at once, or does
\* nothing the abstract pool sees.
TakesCommitment(commitment) ==
    /\ commitment \notin depositCommitments
    /\ depositCommitments' = depositCommitments \cup {commitment}
    /\ UNCHANGED <<pendingWithdrawals, directSpends>>

PaysDirectly(nullifier) ==
    /\ nullifier \notin usedNullifiers
    /\ directSpends' = directSpends \cup {nullifier}
    /\ UNCHANGED <<pendingWithdrawals, depositCommitments>>

LEMMA QuietSteps ==
    ASSUME QuietStep
    PROVE  \/ \E commitment \in Commitments : TakesCommitment(commitment)
           \/ \E nullifier \in Nullifiers : PaysDirectly(nullifier)
           \/ UNCHANGED <<pendingWithdrawals, directSpends, depositCommitments>>
<1>1. CASE DepositTx
  <2>1. PICK commitment \in Commitments :
            /\ commitment \notin depositCommitments
            /\ depositCommitments' = depositCommitments \cup {commitment}
            /\ UNCHANGED <<escrowVars, historyVars>>
    BY <1>1, Zenon DEF DepositTx, Deposit
  <2> QED
    BY <2>1 DEF TakesCommitment, escrowVars, historyVars
<1>2. CASE WithdrawTx
  <2>1. PICK nullifier \in Nullifiers :
            /\ UNCHANGED <<escrowVars, depositCommitments>>
            /\ MarkUsed(PoolContract, nullifier)
            /\ directSpends' = directSpends \cup {nullifier}
    BY <1>2, Zenon DEF WithdrawTx, Withdraw
  <2> QED
    BY <2>1 DEF PaysDirectly, MarkUsed, IsNullifierUsed, escrowVars
<1>3. CASE SetAuthorizedContractTx
  BY <1>3 DEF SetAuthorizedContractTx, escrowVars, historyVars
<1>4. CASE MarkUsedTx
  BY <1>4 DEF MarkUsedTx, escrowVars, historyVars
<1>5. CASE SetAuthorizedCallerTx
  BY <1>5 DEF SetAuthorizedCallerTx, escrowVars, historyVars
<1>6. CASE AppendLeafTx
  BY <1>6 DEF AppendLeafTx, escrowVars, historyVars
<1>7. CASE TransferTx
  BY <1>7 DEF TransferTx, escrowVars, historyVars
<1>8. CASE BlockMined
  <2>1. UNCHANGED <<escrowVars, depositCommitments, historyVars>>
    BY <1>8, Zenon DEF BlockMined, NewBlock
  <2> QED
    BY <2>1 DEF escrowVars, historyVars
<1>9. CASE UNCHANGED vars
  BY <1>9 DEF vars, contractVars, escrowVars, historyVars
<1> QED
  BY <1>1, <1>2, <1>3, <1>4, <1>5, <1>6, <1>7, <1>8, <1>9 DEF QuietStep

\* Submissions and the escrow's own transactions take no commitment.
LEMMA EscrowKeepsDeposits ==
    ASSUME SubmitStep \/ \E id \in WithdrawalIds : EscrowTx(id)
    PROVE  UNCHANGED depositCommitments
<1>1. CASE WithdrawOptimisticTx
  BY <1>1, Zenon DEF WithdrawOptimisticTx, WithdrawOptimistic
<1>2. CASE SubmitWithdrawalTx
  BY <1>2, Zenon DEF SubmitWithdrawalTx
<1>3. CASE \E id \in WithdrawalIds : EscrowTx(id)
  BY <1>3, Zenon DEF EscrowTx, FinalizeTx, ChallengeTx, UpholdTx, RejectTx
<1> QED
  BY <1>1, <1>2, <1>3 DEF SubmitStep

-----------------------------------------------------------------------------
(***************************************************************************)
(* Steps.                                                                  *)
(***************************************************************************)
LEMMA ShieldedInit == Init => Shielded!PoolInit
<1> SUFFICES ASSUME Init PROVE Shielded!PoolInit
  OBVIOUS
<1>1. WithdrawalIds = {} /\ depositCommitments = {} /\ directSpends = {}
  BY DEF Init, PoolInit, EscrowInit, EmptyMap, WithdrawalIds
<1>2. Open = {} /\ Finalized = {}
  BY <1>1 DEF Open, Finalized
<1> QED
  BY <1>1, <1>2 DEF Shielded!PoolInit

LEMMA QuietMaps ==
    ASSUME PayoutInv, QuietStep
    PROVE  [Shielded!PoolNext]_(Shielded!poolVars)
<1> USE DEF Open, Finalized, Slashed, Status, NullifierOf, WithdrawalIds
<1>1. CASE \E commitment \in Commitments : TakesCommitment(commitment)
  <2>1. PICK commitment \in Commitments : TakesCommitment(commitment)
    BY <1>1
  <2>2. Shielded!PayIn(commitment)
    BY <2>1 DEF Shielded!PayIn, TakesCommitment
  <2> QED
    BY <2>1, <2>2 DEF Shielded!PoolNext
<1>2. CASE \E nullifier \in Nullifiers : PaysDirectly(nullifier)
  <2>1. PICK nullifier \in Nullifiers : PaysDirectly(nullifier)
    BY <1>2
  <2>2. nullifier \notin Paid
    BY <2>1 DEF Paid, PaysDirectly, PayoutInv, PayoutsMarked
  <2>3. Shielded!PayAtOnce(nullifier)
    BY <2>1, <2>2 DEF Shielded!PayAtOnce, PaysDirectly, Paid
  <2> QED
    BY <2>1, <2>3 DEF Shielded!PoolNext
<1>3. CASE UNCHANGED <<pendingWithdrawals, directSpends, depositCommitments>>
  BY <1>3 DEF Shielded!poolVars
<1> QED
  BY <1>1, <1>2, <1>3, QuietSteps

LEMMA SubmitMaps ==
    ASSUME TypeOK, ReservationsMatch, PayoutInv, SubmitStep
    PROVE  [Shielded!PoolNext]_(Shielded!poolVars)
<1>1. PICK w \in PendingWithdrawal : Submits(w)
  BY SubmitEffect
<1>2. /\ \A id \in WithdrawalIds : pendingWithdrawals'[id] = pendingWithdrawals[id]
      /\ pendingWithdrawals'[nextWithdrawalId] = w
      /\ WithdrawalIds' = WithdrawalIds \cup {nextWithdrawalId}
      /\ nextWithdrawalId \notin WithdrawalIds
      /\ w.status = "pending"
      /\ w.nullifier \notin DOMAIN reservedNullifiers \cup usedNullifiers
      /\ UNCHANGED <<directSpends, depositCommitments>>
  BY <1>1, EscrowKeepsDeposits DEF Submits, MapSet, WithdrawalIds
<1>3. w.nullifier \in Nullifiers
  BY DEF PendingWithdrawal
<1>4. /\ Finalized' = Finalized
      /\ Open' = Open \cup {nextWithdrawalId}
  BY <1>2 DEF Finalized, Open, Slashed, Status
<1>5. /\ Paid' = Paid
      /\ Claims' = Claims \cup {w.nullifier}
  BY <1>2, <1>4 DEF Paid, Claims, NullifierOf, Finalized, Open
<1>6. w.nullifier \notin Claims \cup Paid
  BY <1>2 DEF Claims, Paid, Open, PayoutInv, PayoutsMarked, ReservationsMatch
<1>7. Shielded!MakeClaim(w.nullifier)
  BY <1>2, <1>5, <1>6 DEF Shielded!MakeClaim, Claims, Paid
<1> QED
  BY <1>3, <1>7 DEF Shielded!PoolNext

LEMMA EscrowMaps ==
    ASSUME TypeOK, ReservationsMatch, PayoutInv,
           NEW id \in WithdrawalIds, EscrowTx(id)
    PROVE  [Shielded!PoolNext]_(Shielded!poolVars)
<1> DEFINE w == pendingWithdrawals[id]
<1>1. PICK next \in PendingWithdrawal :
          /\ Changes(id, w, next)
          /\ pendingWithdrawals' = [pendingWithdrawals EXCEPT ![id] = next]
          /\ UNCHANGED directSpends
  BY EscrowEffect
<1>2. /\ WithdrawalIds' = WithdrawalIds
      /\ pendingWithdrawals'[id] = next
      /\ \A other \in WithdrawalIds \ {id} :
             pendingWithdrawals'[other] = pendingWithdrawals[other]
      /\ UNCHANGED <<directSpends, depositCommitments>>
  BY <1>1, EscrowKeepsDeposits DEF WithdrawalIds
<1>3. w \in PendingWithdrawal
  BY DEF TypeOK, WithdrawalIds
<1>4. next.nullifier = w.nullifier /\ w.nullifier \in Nullifiers
  BY <1>1, <1>3 DEF Changes, PendingWithdrawal
<1>5. w.status \in {"pending", "challenged"}
  BY <1>1, <1>3 DEF Changes, PendingWithdrawal
<1>6. \A other \in Open \ {id} : NullifierOf(other) # w.nullifier
  BY <1>5 DEF Open, Slashed, Status, ReservationsMatch, NullifierOf
<1> HIDE DEF w
<1>7. CASE next.status = "finalized"
  <2>1. w.status = "pending" /\ w.nullifier \notin usedNullifiers
    BY <1>1, <1>3, <1>4, <1>7 DEF Changes, PendingWithdrawal
  <2>2. /\ Finalized' = Finalized \cup {id}
        /\ Open' = Open \ {id}
        /\ id \in Open
    BY <1>2, <1>7, <2>1 DEF Finalized, Open, Slashed, Status, w
  <2>3. /\ Paid' = Paid \cup {w.nullifier}
        /\ Claims' = Claims \ {w.nullifier}
        /\ w.nullifier \in Claims
    BY <1>2, <1>4, <1>6, <2>2 DEF Paid, Claims, NullifierOf, Finalized, Open, w
  <2>4. w.nullifier \notin Paid
    BY <2>1 DEF Paid, PayoutInv, PayoutsMarked
  <2>5. Shielded!PayClaim(w.nullifier)
    BY <1>2, <2>3, <2>4 DEF Shielded!PayClaim, Claims, Paid
  <2> QED
    BY <1>4, <2>5 DEF Shielded!PoolNext
<1>8. CASE next.status = "slashed"
  <2>1. w.status = "challenged"
    BY <1>1, <1>3, <1>8 DEF Changes, PendingWithdrawal
  <2>2. /\ Finalized' = Finalized
        /\ Open' = Open \ {id}
        /\ id \in Open
    BY <1>2, <1>8, <2>1 DEF Finalized, Open, Slashed, Status, w
  <2>3. /\ Paid' = Paid
        /\ Claims' = Claims \ {w.nullifier}
        /\ w.nullifier \in Claims
    BY <1>2, <1>4, <1>6, <2>1, <2>2 DEF Paid, Claims, NullifierOf, Finalized, Open, Status, w
  <2>4. Shielded!ReleaseClaim(w.nullifier)
    BY <1>2, <2>3 DEF Shielded!ReleaseClaim, Claims, Paid
  <2> QED
    BY <1>4, <2>4 DEF Shielded!PoolNext
<1>9. CASE next.status \notin {"finalized", "slashed"}
  <2>1. w.status \notin {"finalized", "slashed"}
    BY <1>1, <1>3, <1>9 DEF Changes, PendingWithdrawal
  <2>2. Finalized' = Finalized /\ Open' = Open
    BY <1>2, <1>9, <2>1 DEF Finalized, Open, Slashed, Status, w
  <2>3. Paid' = Paid /\ Claims' = Claims
    BY <1>2, <1>4, <2>2 DEF Paid, Claims, NullifierOf, Finalized, Open, w
  <2> QED
    BY <1>2, <2>3 DEF Shielded!poolVars, Claims, Paid
<1> QED
  BY <1>7, <1>8, <1>9

\* The contracts implement the abstract pool: whatever order their transactions
\* come in, a commitment is taken once, a nullifier is claimed by one withdrawal at
\* a time and paid once, and claims end by payment or by an upheld challenge.
THEOREM PoolImplementsShieldedPool == Spec => ImplementsShieldedPool
<1>1. TypeOK /\ ReservationsMatch /\ PayoutInv /\ [Next]_vars
          => [Shielded!PoolNext]_(Shielded!poolVars)
  BY QuietMaps, SubmitMaps, EscrowMaps, StepKinds
<1> QED
  BY <1>1, ShieldedInit, TypeCorrect, ReservationsAlwaysMatch, PayoutInit, PayoutStep, PTL
     DEF Spec, ImplementsShieldedPool, Shielded!PoolSpec
==============================================================================
