------------------------- MODULE MCDocumentPipeline -------------------------
(* An instance of DocumentPipeline for TLC.                                *)
EXTENDS DocumentPipeline, TLC

CONSTANTS r1, r2

TwoRequests == {r1, r2}
=============================================================================
