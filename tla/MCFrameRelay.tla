---------------------------- MODULE MCFrameRelay ----------------------------
(* Three frames, one of them not in the page yet; the frames are alike.    *)
(* The place of the top document among the reports matters to nothing.     *)
(* One change with a restart, or two changes.                              *)
EXTENDS FrameRelay, FiniteSets, TLC
Same == Permutations(Iframes)
Together == changes + restarts <= MaxChanges
SmallInit == /\ RelayInit /\ Cardinality(unused) = 1
             /\ \A f \in Live \ {Top} : <<Top, f>> \in earlier
SmallSpec == SmallInit /\ [][RelayNext /\ Together']_relayVars
=============================================================================
