--------------------------- MODULE MCProposalFlow ---------------------------
(* Small instances of ProposalFlow. *)
EXTENDS ProposalFlow
=============================================================================
