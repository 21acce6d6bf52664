---------------------------- MODULE SwitchEngine ----------------------------
(***************************************************************************)
(* The one-switch state machine (core/switch-engine.ts): the reducer as    *)
(* operators on a state record, one per event.  The panel offers items one *)
(* after the other; a press of Space locks the item offered, the release   *)
(* selects it and the state waits for the result of that one action.       *)
(*                                                                         *)
(* Abstractions.  An item is its id and whether it has an action that is   *)
(* not disabled.  Time is two facts: "settled", the protection time since  *)
(* the last selection is over, and the call of Tick, which stands for a    *)
(* tick event at which the dwell time is over (any other tick changes      *)
(* nothing).  Events that are not a trusted Space leave no trace.  The     *)
(* draft is left out: no event but "compose" touches it.                   *)
(***************************************************************************)
EXTENDS Naturals, Sequences

Modes == {"ready", "groupScan", "itemScan", "composing", "confirming",
          "executing", "scrolling", "paused", "recovering"}
Scanning == {"groupScan", "itemScan", "composing", "confirming"}
Waking == {"ready", "paused", "recovering"}

\* Values of "pressed" that are no item
Nothing == "@nothing"
AtResume == "@resume"
AtStop == "@stop"

\* An action is known by its actionId (generation and number) and its item.
NoAction == [gen |-> 0, seq |-> 0, item |-> Nothing]

\* createSwitchState
CreateSwitchState ==
    [mode |-> "ready", resume |-> "groupScan", items |-> <<>>, scan |-> 0, cycle |-> 0,
     pressed |-> Nothing, pending |-> NoAction, gen |-> 0, seq |-> 0, settled |-> TRUE]

-----------------------------------------------------------------------------
(* Events *)

PauseKeepsPress(s) ==
    [s EXCEPT !.resume = IF s.mode = "scrolling" THEN "itemScan"
                         ELSE IF s.mode \in {"paused", "executing", "recovering"} THEN s.resume
                         ELSE s.mode,
              !.mode = "paused", !.pending = NoAction, !.gen = s.gen + 1]

Pause(s) ==
    [s EXCEPT !.resume = IF s.mode = "scrolling" THEN "itemScan"
                         ELSE IF s.mode \in {"paused", "executing", "recovering"} THEN s.resume
                         ELSE s.mode,
              !.mode = "paused", !.pressed = Nothing, !.pending = NoAction, !.gen = s.gen + 1]

\* start and setItems
SetItems(s, items, mode) ==
    [s EXCEPT !.items = items, !.pending = NoAction, !.mode = mode, !.resume = mode,
              !.scan = 0, !.cycle = 0, !.pressed = Nothing, !.gen = s.gen + 1]

Resumed(s) == IF s.resume = "ready" THEN "groupScan" ELSE s.resume

Resume(s) == [s EXCEPT !.mode = Resumed(s), !.scan = 0, !.cycle = 0, !.pressed = Nothing]

ActionResultKeepsPending(s, gen, seq, result) ==
    IF s.pending # NoAction /\ s.pending.gen = gen /\ s.pending.seq = seq
    THEN [s EXCEPT !.mode = IF result = "unknown" THEN "recovering" ELSE s.resume]
    ELSE s

\* The result of the outstanding action; of any other action, nothing.
ActionResult(s, gen, seq, result) ==
    IF s.pending # NoAction /\ s.pending.gen = gen /\ s.pending.seq = seq
    THEN [s EXCEPT !.pending = NoAction,
                   !.mode = IF result = "unknown" THEN "recovering" ELSE s.resume]
    ELSE s

\* The dwell time of the offered item is over; two silent rounds pause.
Advanced(s) ==
    LET next == (s.scan + 1) % Len(s.items)
    IN [s EXCEPT !.scan = next, !.cycle = IF next = 0 THEN s.cycle + 1 ELSE s.cycle]

Tick(s) ==
    IF s.pressed = Nothing /\ s.mode \in Scanning /\ s.items # <<>>
    THEN IF Advanced(s).cycle >= 2 THEN Pause(Advanced(s)) ELSE Advanced(s)
    ELSE s

\* The offered item, locked until the release
Offered(s) == IF s.mode \in Waking THEN AtResume
              ELSE IF s.mode = "scrolling" THEN AtStop
              ELSE IF s.scan < Len(s.items) THEN s.items[s.scan + 1].id
              ELSE Nothing

KeyDown(s) ==
    IF s.pressed = Nothing /\ s.pending = NoAction /\ s.settled
    THEN [s EXCEPT !.pressed = Offered(s)] ELSE s

\* The release runs the action of what is locked
Runs(s) == \/ s.pressed = AtStop
           \/ \E k \in 1..Len(s.items) : s.items[k].id = s.pressed /\ s.items[k].enabled
Selected(s) == [gen |-> s.gen, seq |-> s.seq + 1, item |-> s.pressed]

KeyUp(s) ==
    LET released == [s EXCEPT !.pressed = Nothing, !.settled = FALSE, !.cycle = 0]
    IN IF s.pressed = Nothing THEN s
       ELSE IF s.pressed = AtResume
            THEN [released EXCEPT !.mode = Resumed(s), !.scan = 0]
       ELSE IF Runs(s)
            THEN [released EXCEPT !.seq = s.seq + 1, !.pending = Selected(s),
                                  !.resume = s.mode, !.mode = "executing"]
       ELSE released

\* The actions a release hands to the caller
KeyUpActions(s) == IF s.pressed \notin {Nothing, AtResume} /\ Runs(s) THEN {Selected(s)} ELSE {}

=============================================================================
