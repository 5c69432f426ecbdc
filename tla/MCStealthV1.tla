----------------------------- MODULE MCStealthV1 -----------------------------
(***************************************************************************)
(* A small instance of StealthV1: two good keys, one of a wrong prefix and *)
(* one that is too short.                                                  *)
(***************************************************************************)
EXTENDS StealthV1, TLC

CONSTANT Users  \* the principals beside the deployer

MCPrincipals == Users \cup {ContractOwner}

MCPubkeys == {[length |-> 33, prefix |-> 2], [length |-> 33, prefix |-> 3],
              [length |-> 33, prefix |-> 4], [length |-> 32, prefix |-> 2]}

Symmetry == Permutations(Users) \cup Permutations(Names)
=============================================================================
