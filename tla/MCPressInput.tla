---------------------------- MODULE MCPressInput ----------------------------
(* PressInput with two elements that lie side by side; the cursor is over  *)
(* the one that can be dragged, beside both, or far from both.             *)
EXTENDS PressInput

CONSTANTS a, b

MCSpots == {[over |-> None, near |-> {}], [over |-> None, near |-> {a, b}],
            [over |-> a, near |-> {a, b}]}

\* At first b is an ordinary element; it may become a dangerous one.
PlainInit == PressInit /\ looks[b] = "plain"
PlainSpec == PlainInit /\ [][PressNext]_pressVars
=============================================================================
