------------------------------ MODULE MCIngest ------------------------------
(* An instance of IngestCompanies on which admins merge during a run.      *)
EXTENDS IngestCompanies, TLC

Symmetry == Permutations(Partner)
=============================================================================
