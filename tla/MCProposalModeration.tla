------------------------ MODULE MCProposalModeration ------------------------
(* Instances of ProposalModeration for TLC. *)
EXTENDS ProposalModeration, TLC

Symmetry == Permutations(Proposal) \cup Permutations(User)
                \cup Permutations(Admin) \cup Permutations(Field)
=============================================================================
