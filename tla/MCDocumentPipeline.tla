------------------------- MODULE MCDocumentPipeline -------------------------
(* Values of the constants of DocumentPipeline for the model checker.      *)
EXTENDS DocumentPipeline

=============================================================================
