----------------------------- MODULE MCJobQueue -----------------------------
(* Values of the constants of JobQueue for the model checker.              *)
EXTENDS JobQueue

CONSTANTS d1, d2    \* two targets

Job(type, target) == [type |-> type, target |-> target]

(* Nothing, one job, or the two follow-ups of a fan-out.                   *)
MCBatches ==
    {<<>>, <<Job("parse", d1)>>,
     <<Job("parse", d1), Job("benchmark", d2)>>}

OneTargetBatches == {<<>>, <<Job("parse", d1)>>}
=============================================================================
