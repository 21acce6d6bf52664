---------------------------- MODULE MCSiteSwitch ----------------------------
(* A frame and the card share the stored entries and the tab, and nothing  *)
(* else: a behaviour follows the one or the other.  Documents loaded and   *)
(* presses of the card are bounded together: two presses in one document,  *)
(* one on each side of a load, or two loads.                               *)
EXTENDS SiteSwitch
Apart == frame = NoFrame \/ popup = NoPopup
Together == documents + popup.pressed <= MaxDocuments
SiteInit == Init
SiteSpec == SiteInit /\ [][Next /\ Apart' /\ Together']_vars /\ Fairness
=============================================================================
