--------------------------- MODULE MCDangerConfirm ---------------------------
(* DangerConfirm on small bounds.  Numbers chosen and changes are bounded  *)
(* together: two changes around one question, or one change and a second   *)
(* question, after the first or in its place.                              *)
EXTENDS DangerConfirm
Together == events + tally.chosen <= 3
TogetherSpec == Init /\ [][Next /\ Together']_vars
=============================================================================
