---------------------------- MODULE MCRepoIndex ----------------------------
(* Values of the constants of RepoIndex for the model checker.             *)
EXTENDS RepoIndex

=============================================================================
