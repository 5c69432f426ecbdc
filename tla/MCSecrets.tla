------------------------------ MODULE MCSecrets ------------------------------
(***************************************************************************)
(* A small instance of what a user holds secrets for: the names and keys   *)
(* of the stealth registry, payments to them, the notes of the SDK and the *)
(* proofs made from them.  The four share no state and no step of one      *)
(* depends on another, so each run has one of them move, chosen at the     *)
(* start, while the others stay as they begin.                             *)
(***************************************************************************)
EXTENDS MCStealthV1, StealthAddress, NoteStore, MCProver

VARIABLE moving

secretsVars == <<moving, vars, paymentVars, noteVars, proverVars>>

\* Of the components that stay, one state each is enough.
SecretsInit ==
    /\ moving \in {"registry", "payments", "notes", "prover"}
    /\ Init /\ PaymentInit /\ NoteInit /\ ProverInit
    /\ moving # "payments" =>
           \A p \in Points : sha.viewKey[p] = p /\ sha.ofPoint[p] = 0

SecretsNext ==
    /\ UNCHANGED moving
    /\ \/ moving = "registry" /\ Next
       \/ moving = "payments" /\ PaymentNext
       \/ moving = "notes" /\ NoteNext
       \/ moving = "prover" /\ ProverNext
    /\ moving # "registry" => UNCHANGED vars
    /\ moving # "payments" => UNCHANGED paymentVars
    /\ moving # "notes" => UNCHANGED noteVars
    /\ moving # "prover" => UNCHANGED proverVars

SecretsSpec == SecretsInit /\ [][SecretsNext]_secretsVars
=============================================================================
