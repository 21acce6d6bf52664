-------------------------- MODULE MCSwitchExecution --------------------------
(* SwitchExecution with two requests of the top document and two child      *)
(* frames that differ in nothing but their names.  The frames pressed in,   *)
(* the documents loaded and the worker's death are bounded together, and so *)
(* are the pauses and reports under way; after a restart a frame that no    *)
(* request names stays away.                                                *)
EXTENDS SwitchExecution, Functions, TLC

Alike == Permutations(Children)
Pressed == {calls[c].frame : c \in {d \in Calls : calls[d].kind = "press"}}
Loaded == {f \in Children : child[f].doc > 0}
Pauses == cancels + topPauses + SumFunction(childPauses)
Together == /\ Cardinality(Loaded) + restarts <= 1
            /\ Cardinality(Loaded) + restarts + Cardinality(Pressed) <= 2
            /\ restarts + Pauses <= 2 /\ Pauses + Cardinality(reporting) <= 2
            /\ restarts > 0 => Children \ Pressed \subseteq lost

MCSpec == Init /\ [][Next /\ Together']_vars
=============================================================================
