---------------------------- MODULE MCRepoAnswers ----------------------------
(* An answer about a repository, from three sides.  Generations come and   *)
(* go while it is prepared (RepoIndex); or files are edited between two    *)
(* runs of the indexer and the graph of the generation is followed         *)
(* (CodeGraph); or hits are ranked, verified against the working tree and  *)
(* cut to a budget while files are edited (RepoSearch).                    *)
EXTENDS MCRepoIndex, MCCodeGraph, MCRepoSearch

VARIABLE view

AnswersInit ==
    /\ RepoInit /\ GraphInit /\ SearchRepoInit
    /\ view \in {"generations", "graph", "search"}
    /\ view # "graph" => texts = [f \in Sources |-> Absent]
    /\ view # "generations" => tree = [f \in Files |-> 1]
    /\ view # "search" => disk = [p \in SitePaths |-> 1]

AnswersNext ==
    \/ view = "generations" /\ RepoNext /\ UNCHANGED <<graphVars, searchRepoVars, view>>
    \/ view = "graph" /\ GraphNext /\ UNCHANGED <<repoVars, searchRepoVars, view>>
    \/ view = "search" /\ SearchRepoNext /\ UNCHANGED <<repoVars, graphVars, view>>

AnswersSpec == AnswersInit /\ [][AnswersNext]_<<repoVars, graphVars, searchRepoVars, view>>
=============================================================================
