----------------------------- MODULE MCRequests -----------------------------
(* One request for evidence seen from two sides.  Either the corpus that   *)
(* is searched changes meanwhile (PublishedSearch), or the services that   *)
(* search it and write the answer fail (Answering).  What a search         *)
(* validates against the database is the input of the other side.          *)
EXTENDS MCPublishedSearch, MCAnswering

VARIABLE side

RequestsInit ==
    /\ side \in {"corpus", "services"}
    /\ SearchInit /\ AnswerInit
    /\ side = "corpus" =>
         available /\ planned = 1 /\ setting = [mode |-> "global", denseInQdrant |-> TRUE,
                                               rows |-> {}, points |-> {}]
    /\ side = "services" => todo = <<"upload", "rebuild", "search">>

RequestsNext ==
    \/ side = "corpus"   /\ SearchNext /\ UNCHANGED <<allVars, side>>
    \/ side = "services" /\ AnswerNext /\ UNCHANGED <<searchVars, side>>

RequestsSpec == RequestsInit /\ [][RequestsNext]_<<searchVars, allVars, side>>
=============================================================================
