--------------------------- MODULE MCHelperSafety ---------------------------
(* Three requests reach a release in flight with a stop and a second start *)
(* behind it; one restart reaches a worker that dies at every stage.       *)
EXTENDS HelperSafety
=============================================================================
