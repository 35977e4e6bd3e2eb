-------------------------- MODULE MCImportSession --------------------------
(* Values of the constants of ImportSession for the model checker: a batch *)
(* with two copies of one file and a batch with a third; or the second     *)
(* batch beside a folder with an excluded file, two copies of the same     *)
(* file and a file that vanishes before it is read.                        *)
EXTENDS ImportSession

CONSTANTS f, g

TwoBatches == <<<<f, f>>, <<f>>>>

FourCandidates ==
    <<[kind |-> "excluded", file |-> g], [kind |-> "file", file |-> f],
      [kind |-> "file", file |-> f], [kind |-> "vanished", file |-> g]>>

BatchesOrFolder ==
    {[batches |-> {1, 2}, folder |-> FALSE, results |-> {}],
     [batches |-> {2}, folder |-> TRUE, results |-> {"ready", "failed"}]}

=============================================================================
