-------------------------- MODULE MCSwitchHandoff --------------------------
(* Two items a menu, one of them disabled on the practice panel; three     *)
(* boundaries take the ownership away, back and away again.                *)
EXTENDS SwitchHandoff

MCItemIds == {"move", "pause", "cancel", "status"}
MCPageItems == <<[id |-> "move", enabled |-> TRUE], [id |-> "pause", enabled |-> TRUE]>>
MCPracticeItems == <<[id |-> "cancel", enabled |-> TRUE], [id |-> "status", enabled |-> FALSE]>>
=============================================================================
