-------------------------- MODULE MCPublishedSearch --------------------------
(* Values of the constants of PublishedSearch for the model checker.      *)
EXTENDS PublishedSearch

(* Memory is built once or twice at any time, around an ingestion or a     *)
(* failing call; a crash, rebuilds, a deletion and searches come at any    *)
(* time.                                                                   *)
MCPlans ==
    {<<"upload", "memory", "memory">>,
     <<"memory", "upload", "memory">>,
     <<"upload", "memory", "crash">>,
     <<"upload", "memory", "error", "memory">>,
     <<"upload", "memory", "rebuild">>,
     <<"upload", "rebuild", "memory">>,
     <<"upload", "memory", "delete">>,
     <<"upload", "memory", "search">>,
     <<"upload", "rebuild", "search">>}

=============================================================================
