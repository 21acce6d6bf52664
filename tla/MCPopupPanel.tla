---------------------------- MODULE MCPopupPanel ----------------------------
(* PopupPanel with two presses, so that one overlaps, fails after or is     *)
(* overtaken by another, and a change made elsewhere in between.            *)
EXTENDS PopupPanel
=============================================================================
