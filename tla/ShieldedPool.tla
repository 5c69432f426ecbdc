----------------------------- MODULE ShieldedPool -----------------------------
(***************************************************************************)
(* What the pool promises, without its contracts: commitments come in once *)
(* each, nullifiers are paid once each.  A payment happens at once, or     *)
(* through a claim, which is held by one party at a time and ends in the   *)
(* payment or is released.                                                 *)
(***************************************************************************)
CONSTANTS Commitments, Nullifiers

VARIABLES
    deposited,  \* the commitments paid for
    claims,     \* the nullifiers with a claim that has not ended
    paid        \* the nullifiers paid out

poolVars == <<deposited, claims, paid>>

PoolInit ==
    /\ deposited = {}
    /\ claims = {}
    /\ paid = {}

PayIn(commitment) ==
    /\ commitment \notin deposited
    /\ deposited' = deposited \cup {commitment}
    /\ UNCHANGED <<claims, paid>>

PayAtOnce(nullifier) ==
    /\ nullifier \notin paid
    /\ paid' = paid \cup {nullifier}
    /\ UNCHANGED <<deposited, claims>>

MakeClaim(nullifier) ==
    /\ nullifier \notin claims \cup paid
    /\ claims' = claims \cup {nullifier}
    /\ UNCHANGED <<deposited, paid>>

PayClaim(nullifier) ==
    /\ nullifier \in claims \ paid
    /\ claims' = claims \ {nullifier}
    /\ paid' = paid \cup {nullifier}
    /\ UNCHANGED deposited

ReleaseClaim(nullifier) ==
    /\ nullifier \in claims
    /\ claims' = claims \ {nullifier}
    /\ UNCHANGED <<deposited, paid>>

PoolNext ==
    \/ \E commitment \in Commitments : PayIn(commitment)
    \/ \E nullifier \in Nullifiers :
           \/ PayAtOnce(nullifier)
           \/ MakeClaim(nullifier)
           \/ PayClaim(nullifier)
           \/ ReleaseClaim(nullifier)

PoolSpec == PoolInit /\ [][PoolNext]_poolVars
=============================================================================
