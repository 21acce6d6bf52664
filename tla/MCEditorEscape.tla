--------------------------- MODULE MCEditorEscape ---------------------------
(* EditorEscape as a top frame and as a child frame.  The watchdog runs with *)
(* the frames the browser draws: the tab is in view again in the end.        *)
EXTENDS EditorEscape
=============================================================================
