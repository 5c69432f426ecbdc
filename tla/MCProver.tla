------------------------------- MODULE MCProver -------------------------------
(***************************************************************************)
(* A small instance of Prover: two recipients, one address a prefix of the *)
(* other.                                                                  *)
(***************************************************************************)
EXTENDS Prover

MCRecipients == {<<Plain(83)>>, <<Plain(83), Plain(1)>>}
=============================================================================
