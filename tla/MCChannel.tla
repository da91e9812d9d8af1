----------------------------- MODULE MCChannel -----------------------------
(* Small instances of Channel for TLC. *)
EXTENDS Channel, TLC

\* Proposals differ only in their names.
ProposalSymmetry == Permutations(ProposalIds)
=============================================================================
