------------------------------ MODULE SbtcToken ------------------------------
(***************************************************************************)
(* sbtc-token: the SIP-010 token the pool and the escrow hold.  Each of    *)
(* their calls of transfer has the token's owner as tx-sender (the signer, *)
(* or the contract itself under as-contract), so the first authorization   *)
(* test of transfer succeeds and allowances play no part.                  *)
(*                                                                         *)
(* One transaction may transfer several times, so the effect of a transfer *)
(* is an operator on balances and the handlers chain its results.          *)
(***************************************************************************)
EXTENDS StacksChain

CONSTANT InitialBalances  \* what the principals hold when the pool is deployed

ASSUME InitialBalancesAssumption == InitialBalances \in [Principals -> Nat]

VARIABLE balances

\* A transfer that does not look at the sender's balance.
CanOverdraw(bal, amount, sender, recipient) ==
    /\ amount > 0
    /\ sender # recipient

\* ft-transfer? refuses a zero amount, a transfer to oneself and an overdraft.
CanTransfer(bal, amount, sender, recipient) ==
    /\ amount > 0
    /\ sender # recipient
    /\ bal[sender] >= amount

AfterTransfer(bal, amount, sender, recipient) ==
    [bal EXCEPT ![sender] = @ - amount, ![recipient] = @ + amount]

\* The contracts skip the transfer of a zero relayer fee.
CanPayFee(bal, fee, sender, relayer) ==
    fee > 0 => CanTransfer(bal, fee, sender, relayer)

AfterFee(bal, fee, sender, relayer) ==
    IF fee > 0 THEN AfterTransfer(bal, fee, sender, relayer) ELSE bal

\* A holder sends its own tokens, to another holder or to one of the contracts.
SbtcTransfer(sender, amount, recipient) ==
    /\ CanTransfer(balances, amount, sender, recipient)
    /\ balances' = AfterTransfer(balances, amount, sender, recipient)
=============================================================================
