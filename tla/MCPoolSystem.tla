----------------------------- MODULE MCPoolSystem -----------------------------
(***************************************************************************)
(* Small instances of PoolSystem: a user and the deployer, who both sign   *)
(* transactions, and the two contracts.  The user can pay for two deposits *)
(* and three bonds; the deployer has the tokens it is paid as recipient or *)
(* on a slash, and can then be relayer or challenger beside the user.      *)
(***************************************************************************)
EXTENDS PoolSystem, TLC

MCInitialBalances ==
    [p \in Principals |-> IF p \in Users THEN 2 * PoolDenomination + 3 * MinBond
                          ELSE 0]

\* A proof is accepted for every nullifier but against the empty tree.
MCVerifyProof(nullifier, root, recipient, fee) == root # EmptyRoot

\* Nullifiers are interchangeable, and so are commitments.
MCSymmetry == Permutations(Nullifiers \ {ZeroNullifier}) \cup Permutations(Commitments)
=============================================================================
