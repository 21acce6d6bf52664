--------------------------- MODULE MCStorageWriter ---------------------------
(* StorageWriter with one site and the settings entry.  Both keys start    *)
(* alike: no operation looks at two entries.                               *)
EXTENDS StorageWriter

CONSTANTS page, settings, disabled, rest

MCKeys == {page, settings}
MCFields == {disabled, rest}
MCForeign == {Absent, Corrupt, [Absent EXCEPT !.state = "entry", !.data = [f \in Fields |-> 1]]}

AlikeInit == WriterInit /\ store[page] = store[settings]
AlikeSpec == AlikeInit /\ [][WriterNext]_allVars /\ WF_allVars(WriterStep) /\ WF_allVars(TimePasses)
=============================================================================
