----------------------------- MODULE PressInput -----------------------------
(***************************************************************************)
(* One frame's presses: the pipeline that lets a press of the pointer pass *)
(* or swallows it (pipeline.ts), the tremor filter, the magnet that        *)
(* catches an element near the cursor, pressing the caught one by pointer, *)
(* by Space or by dwelling, and dragging with two presses (content.ts).    *)
(*                                                                         *)
(* Abstractions.  The cursor is at a spot: which element it is over, and   *)
(* which are near enough to be caught.  `looks' is what the collector last *)
(* saw.  The dialog of DangerConfirm is open or not.  The interval of the  *)
(* filter, and the time of dwelling, pass at once.  Settings stay as they  *)
(* are; no field is being typed in, no switch drives the helper, and there *)
(* is one pointer.  pointerup, mouseup and click are one step.             *)
(***************************************************************************)
EXTENDS Naturals

CONSTANTS Items, None,
          Draggable,    \* the elements that can be dragged
          Spots,        \* the places of the cursor in this frame: [over, near]
          Outside,      \* the cursor is in another frame or window
          MaxEvents,    \* bound on changes of the page, the dialog and the switch
          MaxGestures   \* bound on presses of the button, of Space, and clicks by keyboard

ASSUME PressAssumption ==
    /\ None \notin Items /\ Draggable \subseteq Items /\ Outside \notin Spots
    /\ Spots \subseteq [over : Items \cup {None}, near : SUBSET Items]
    /\ \A s \in Spots : s.over \in s.near \cup {None}
    /\ MaxEvents \in Nat /\ MaxGestures \in Nat

VARIABLES enabled, dialog,
          twoPress,         \* the setting dragTwoPress
          looks,            \* collector.items()
          cursor, lastCursorPos,
          magnetEvalScheduled,
          target,           \* currentTargetId
          dwell,            \* the loop and its timer
          armed,            \* the element being dragged
          pressSwallowed, pendingPressExecute,
          filter,           \* what is too soon after the last accepted one
          swallowedSpace,   \* swallowedKeyCodes has Space
          bundle, space,    \* the pointer's button and the space bar
          events, gestures,
          executed, dwelt,  \* history: reservations executed; what dwelling has
                            \* pressed and the magnet not let go since
          did               \* what the last step did

page == <<enabled, dialog, twoPress, looks>>
mouse == <<cursor, lastCursorPos>>
magnet == <<magnetEvalScheduled, target, dwell, dwelt>>
press == <<pressSwallowed, pendingPressExecute, filter>>
keys == <<space, swallowedSpace>>
pressVars == <<page, mouse, magnet, armed, press, bundle, keys, events, gestures, executed, did>>

Looks == {"plain", "danger", "gone"}
Away == [over |-> None, near |-> {}]
NoDwell == [active |-> FALSE, tracked |-> None, waited |-> FALSE, fired |-> FALSE]
NoPending == [item |-> None, danger |-> FALSE, n |-> 0]
Released == [down |-> FALSE, seen |-> FALSE, steady |-> TRUE]
Nothing == [by |-> "nobody", item |-> None, click |-> FALSE, keyup |-> FALSE]

PressInit == /\ enabled = TRUE /\ dialog = FALSE /\ twoPress \in BOOLEAN
             /\ looks \in [Items -> {"plain", "danger"}]
             /\ cursor = Outside /\ lastCursorPos = Away /\ magnetEvalScheduled = FALSE
             /\ target = None /\ dwell = NoDwell /\ dwelt = None
             /\ armed = None
             /\ pressSwallowed = FALSE /\ pendingPressExecute = NoPending
             /\ filter = [tooSoon |-> FALSE, spaceTooSoon |-> FALSE]
             /\ bundle = Released /\ space = Released /\ swallowedSpace = FALSE
             /\ events = 0 /\ gestures = 0 /\ executed = {} /\ did = Nothing

Event == events < MaxEvents /\ events' = events + 1
Gesture == gestures < MaxGestures /\ gestures' = gestures + 1

-----------------------------------------------------------------------------
(* The magnet *)

\* pickTarget: a dangerous element only under the cursor, and then before all
\* others; of the others the nearest, or the caught one if it is about as near.
pickTarget(at) ==
    LET plain == {i \in at.near : looks'[i] = "plain"}
    IN IF at.over # None /\ looks'[at.over] = "danger" THEN {at.over}
       ELSE IF plain = {} THEN {None}
       ELSE IF at.over \in plain THEN {at.over} \cup ({target} \cap plain)
       ELSE plain

\* currentTargetId = id, with syncDwellLoop
Catch(id) == /\ target' = id
             /\ dwell' = IF enabled' /\ id # None THEN [dwell EXCEPT !.active = TRUE] ELSE NoDwell
             /\ dwelt' = IF id = dwelt THEN dwelt ELSE None
Keep == UNCHANGED <<target, dwell, dwelt>>

\* evaluateMagnet behind the dialog
EvaluateAlways(at) == IF ~enabled THEN Keep ELSE \E id \in pickTarget(at) : Catch(id)
evaluateMagnet(at) == IF ~enabled \/ dialog THEN Keep ELSE \E id \in pickTarget(at) : Catch(id)

PointerMoves(spot) ==
    /\ cursor' = spot
    /\ IF spot = Outside THEN UNCHANGED <<lastCursorPos, magnetEvalScheduled>>
       ELSE lastCursorPos' = spot /\ magnetEvalScheduled' = TRUE
    /\ did' = Nothing
    /\ UNCHANGED <<page, target, dwell, dwelt, armed, press, bundle, keys, events, gestures, executed>>

MagnetEvaluates ==
    /\ magnetEvalScheduled /\ magnetEvalScheduled' = FALSE
    /\ UNCHANGED page /\ evaluateMagnet(lastCursorPos)
    /\ did' = Nothing
    /\ UNCHANGED <<mouse, armed, press, bundle, keys, events, gestures, executed>>

\* The collector has looked again: what is caught stays caught while it is there.
Collected == IF target = None THEN evaluateMagnet(lastCursorPos')
             ELSE IF looks'[target] = "gone" THEN Catch(None) ELSE Keep

PageChanges(i, look) ==
    /\ Event /\ looks' = [looks EXCEPT ![i] = look]
    /\ UNCHANGED <<enabled, dialog, twoPress, mouse>>
    /\ Collected /\ did' = Nothing
    /\ UNCHANGED <<magnetEvalScheduled, armed, press, bundle, keys, gestures, executed>>

\* The page moves under the cursor.
PageScrolls(spot) ==
    /\ Event /\ cursor # Outside /\ cursor' = spot /\ lastCursorPos' = spot
    /\ UNCHANGED page
    /\ Collected /\ did' = Nothing
    /\ UNCHANGED <<magnetEvalScheduled, armed, press, bundle, keys, gestures, executed>>

-----------------------------------------------------------------------------
(* Pressing an element *)

\* The drag begins at i, or ends there (at the same element: is cancelled).
dragTwoPress(i) == IF armed # None THEN None ELSE IF i \in Draggable THEN i ELSE None

pressOrDrag(by, i, danger) ==
    /\ did' = [Nothing EXCEPT !.by = by, !.item = i]
    /\ armed' = IF ~twoPress \/ danger THEN armed ELSE dragTwoPress(i)

\* The timer of dwelling looks at what is caught.
DwellTimerForgets(d) == [d EXCEPT !.tracked = target, !.waited = d.waited /\ d.tracked = target, !.fired = FALSE]
DwellTimer(d) == IF d.tracked = target THEN d
                 ELSE [d EXCEPT !.tracked = target, !.waited = FALSE, !.fired = FALSE]

DwellTick ==
    /\ dwell.active
    /\ LET d == DwellTimer(dwell)
           fire == looks[target] # "danger" /\ d.waited /\ ~d.fired
       IN /\ dwell' = [d EXCEPT !.fired = d.fired \/ fire]
          /\ IF fire THEN pressOrDrag("dwell", target, FALSE) /\ dwelt' = target
                     ELSE did' = Nothing /\ UNCHANGED <<armed, dwelt>>
    /\ UNCHANGED <<page, mouse, magnetEvalScheduled, target, press, bundle, keys, events, gestures, executed>>

DwellTimePasses ==
    /\ dwell.tracked # None /\ ~dwell.waited /\ dwell' = [dwell EXCEPT !.waited = TRUE]
    /\ did' = Nothing
    /\ UNCHANGED <<page, mouse, magnetEvalScheduled, target, dwelt, armed, press, bundle, keys,
                   events, gestures, executed>>

IntervalPasses ==
    /\ filter.tooSoon \/ filter.spaceTooSoon
    /\ filter' = [tooSoon |-> FALSE, spaceTooSoon |-> FALSE]
    /\ did' = Nothing
    /\ UNCHANGED <<page, mouse, magnet, armed, pressSwallowed, pendingPressExecute, bundle, keys,
                   events, gestures, executed>>

-----------------------------------------------------------------------------
(* The pointer *)

\* Whether the press of the caught element i is left to the site
Passes(i) == i = None \/ (cursor.over = i /\ ~(twoPress /\ looks[i] # "danger" /\ (armed # None \/ i \in Draggable)))

\* pointerdown that leaves the state of the last press alone while the dialog is open
DownUnderDialog == UNCHANGED <<pressSwallowed, pendingPressExecute, filter>> /\ Keep
PassesDialog == /\ pressSwallowed' = FALSE /\ pendingPressExecute' = NoPending /\ UNCHANGED filter
                /\ Keep

\* The filter: too soon after the last accepted press, and at the same spot
Rejected == /\ filter.tooSoon /\ UNCHANGED filter
            /\ pressSwallowed' = TRUE /\ pendingPressExecute' = NoPending /\ Keep

Accepted == /\ filter' = [filter EXCEPT !.tooSoon = TRUE]
            /\ evaluateMagnet(cursor)
            /\ pressSwallowed' = ~Passes(target')
            /\ pendingPressExecute' =
                  IF Passes(target') THEN NoPending
                  ELSE [item |-> target', danger |-> looks[target'] = "danger", n |-> gestures']

PointerDown ==
    /\ Gesture /\ ~bundle.down /\ cursor # Outside
    /\ UNCHANGED page
    /\ CASE ~enabled -> UNCHANGED press /\ Keep
         [] enabled /\ dialog -> PassesDialog
         [] OTHER -> Rejected \/ Accepted
    /\ bundle' = [down |-> TRUE, seen |-> ~enabled \/ dialog \/ ~pressSwallowed', steady |-> TRUE]
    /\ did' = Nothing
    /\ UNCHANGED <<mouse, magnetEvalScheduled, armed, keys, events, executed>>

\* A click reaches the site unless the press is swallowed, and executes what
\* pointerdown has reserved.
ClickKeepsReservation == UNCHANGED pendingPressExecute
ClickEndsReservation == pendingPressExecute' = NoPending

Click ==
    IF enabled /\ pendingPressExecute # NoPending
    THEN /\ ClickEndsReservation
         /\ pressOrDrag("pointer", pendingPressExecute.item, pendingPressExecute.danger)
         /\ executed' = executed \cup {pendingPressExecute.n}
    ELSE /\ did' = [Nothing EXCEPT !.click = ~(enabled /\ pressSwallowed)]
         /\ UNCHANGED <<pendingPressExecute, armed, executed>>

\* The button comes up with a click, outside of the window, or the pointer is cancelled.
Release ==
    /\ bundle.down /\ bundle' = Released
    /\ \/ Click
       \/ did' = Nothing /\ UNCHANGED <<pendingPressExecute, armed, executed>>
       \/ /\ pendingPressExecute' = IF enabled THEN NoPending ELSE pendingPressExecute
          /\ did' = Nothing /\ UNCHANGED <<armed, executed>>
    /\ UNCHANGED <<page, mouse, magnet, pressSwallowed, filter, keys, events, gestures>>

\* A side button that leaves what is reserved alone
SideButtonKeepsReservation ==
    /\ Gesture /\ ~bundle.down /\ enabled
    /\ pressSwallowed' = FALSE /\ did' = Nothing
    /\ UNCHANGED <<page, mouse, magnet, armed, pendingPressExecute, filter, bundle, keys, events, executed>>

\* Another button than the left one, down and up, without a click
SideButton ==
    /\ Gesture /\ ~bundle.down /\ enabled
    /\ pressSwallowed' = FALSE /\ pendingPressExecute' = NoPending
    /\ did' = Nothing
    /\ UNCHANGED <<page, mouse, magnet, armed, filter, bundle, keys, events, executed>>

\* Enter on a button that has the focus
KeyboardClick ==
    /\ Gesture /\ ~bundle.down /\ ~(enabled /\ dialog) /\ Click
    /\ UNCHANGED <<page, mouse, magnet, pressSwallowed, filter, bundle, keys, events>>

-----------------------------------------------------------------------------
(* Space and Esc *)

SpaceDown ==
    /\ Gesture /\ ~space.down
    /\ LET accepted == enabled /\ ~dialog /\ ~filter.spaceTooSoon
           used == accepted /\ target # None
       IN /\ space' = [down |-> TRUE, steady |-> TRUE, seen |-> ~enabled \/ (accepted /\ ~used)]
          /\ swallowedSpace' = IF enabled /\ ~dialog THEN used \/ ~accepted ELSE swallowedSpace
          /\ filter' = IF accepted THEN [filter EXCEPT !.spaceTooSoon = TRUE] ELSE filter
          /\ IF used THEN pressOrDrag("space", target, looks[target] = "danger")
                     ELSE did' = Nothing /\ UNCHANGED armed
    /\ UNCHANGED <<page, mouse, magnet, pressSwallowed, pendingPressExecute, bundle, events, executed>>

\* The key repeats: the filter takes none of it.
SpaceRepeats ==
    /\ space.down /\ enabled /\ ~dialog
    /\ swallowedSpace' = TRUE /\ did' = Nothing
    /\ UNCHANGED <<page, mouse, magnet, armed, press, bundle, space, events, gestures, executed>>

\* The keyup of a key that the helper used, passing all the same
UpPasses == enabled /\ dialog
UpSwallowed == enabled /\ (dialog \/ swallowedSpace)

\* The key comes up, in this window or not.
SpaceUp ==
    /\ space.down /\ space' = Released
    /\ \/ /\ swallowedSpace' = IF enabled /\ ~dialog THEN FALSE ELSE swallowedSpace
          /\ did' = [Nothing EXCEPT !.keyup = ~UpSwallowed]
       \/ UNCHANGED swallowedSpace /\ did' = Nothing
    /\ UNCHANGED <<page, mouse, magnet, armed, press, bundle, events, gestures, executed>>

EscapeCancelsDrag ==
    /\ enabled /\ ~dialog /\ armed # None /\ armed' = None
    /\ did' = Nothing
    /\ UNCHANGED <<page, mouse, magnet, press, bundle, keys, events, gestures, executed>>

-----------------------------------------------------------------------------
(* The dialog and the switch.  A key or a press is steady while neither      *)
(* changes.                                                                  *)

Unsteady(key) == IF key.down THEN [key EXCEPT !.steady = FALSE] ELSE key

DialogOpens ==
    /\ Event /\ enabled /\ ~dialog /\ dialog' = TRUE
    /\ UNCHANGED <<enabled, twoPress, looks>> /\ Catch(None)
    /\ space' = Unsteady(space) /\ did' = Nothing
    /\ UNCHANGED <<mouse, magnetEvalScheduled, armed, press, bundle, swallowedSpace, gestures, executed>>

DialogCloses ==
    /\ dialog /\ dialog' = FALSE
    /\ space' = Unsteady(space) /\ did' = Nothing
    /\ UNCHANGED <<enabled, twoPress, looks, mouse, magnet, armed, press, bundle, swallowedSpace,
                   events, gestures, executed>>

\* applyEnabled(false) ends the drag
OffEndsDrag == armed' = None

SwitchOff ==
    /\ Event /\ enabled /\ enabled' = FALSE /\ dialog' = FALSE
    /\ UNCHANGED <<twoPress, looks>> /\ Catch(None) /\ OffEndsDrag
    /\ bundle' = Unsteady(bundle) /\ space' = Unsteady(space) /\ did' = Nothing
    /\ UNCHANGED <<mouse, magnetEvalScheduled, press, swallowedSpace, gestures, executed>>

SwitchOn ==
    /\ Event /\ ~enabled /\ enabled' = TRUE
    /\ bundle' = Unsteady(bundle) /\ space' = Unsteady(space) /\ did' = Nothing
    /\ UNCHANGED <<dialog, twoPress, looks, mouse, magnet, armed, press, swallowedSpace, gestures, executed>>

-----------------------------------------------------------------------------
PressNext == \/ \E spot \in Spots \cup {Outside} : PointerMoves(spot)
             \/ \E spot \in Spots : PageScrolls(spot)
             \/ \E i \in Items, look \in Looks : PageChanges(i, look)
             \/ MagnetEvaluates \/ DwellTick \/ DwellTimePasses \/ IntervalPasses
             \/ PointerDown \/ Release \/ SideButton \/ KeyboardClick
             \/ SpaceDown \/ SpaceRepeats \/ SpaceUp \/ EscapeCancelsDrag
             \/ DialogOpens \/ DialogCloses \/ SwitchOff \/ SwitchOn

PressSpec == PressInit /\ [][PressNext]_pressVars

-----------------------------------------------------------------------------
(* Properties *)

\* The type invariant.  What is reserved belongs to a swallowed press, and the
\* dwelling runs only for something caught.  (pipeline.ts:106-107, 407-460,
\* content.ts:314-360)
PressTypeOK ==
    /\ {enabled, dialog, twoPress, magnetEvalScheduled, pressSwallowed} \subseteq BOOLEAN
    /\ looks \in [Items -> Looks] /\ {target, armed, dwelt} \subseteq Items \cup {None}
    /\ cursor \in Spots \cup {Outside} /\ lastCursorPos \in Spots \cup {Away}
    /\ pendingPressExecute \in [item : Items \cup {None}, danger : BOOLEAN, n : 0..MaxGestures]
    /\ pendingPressExecute # NoPending => pressSwallowed
    /\ dwell.active => target # None
    /\ dwell.fired => dwell.waited
    /\ executed \subseteq 1..MaxGestures

\* A press of the pointer passes whole or is swallowed whole, whatever came
\* before it and whether the dialog opens or closes meanwhile, as long as the
\* switch is left alone: the site gets no click without its pointerdown, and
\* nothing else is pressed in place of a press that passed.  So with Space: no
\* keyup without its keydown, as long as neither the dialog nor the switch
\* changes while the key is down.  (pipeline.ts:272-279, 308-320, 383-502)
WholeOrNothing ==
    [][/\ bundle.down /\ ~bundle'.down /\ bundle.steady
            => (did'.click => bundle.seen) /\ (did'.by # "nobody" => ~bundle.seen)
       /\ did'.keyup /\ space.steady => space.seen]_pressVars

\* What pointerdown has reserved is executed at most once, however the bundle
\* ends and whatever clicks come later; and dwelling presses an element once,
\* until the magnet has let it go.
\* (pipeline.ts:431-434, 478-502, dwell-timer.ts:1-4, content.ts:319-330)
PressedOnce ==
    [][/\ did'.by = "pointer" => pendingPressExecute.n \notin executed
       /\ did'.by = "dwell" => did'.item # dwelt]_pressVars

\* Nothing is caught and no dwelling runs behind the dialog or while the helper
\* is off, and no drag survives the off switch, though evaluations of the magnet
\* and changes of the page still come in.  The state has its type throughout.
\* (content.ts:526-535, 644-662, 944-949)
AsleepWhenCovered == /\ PressTypeOK
                     /\ ~enabled \/ dialog => target = None /\ dwell = NoDwell
                     /\ ~enabled => armed = None
=============================================================================
