---------------------------- MODULE DangerConfirm ----------------------------
(***************************************************************************)
(* Pressing by number, and the question asked before a dangerous press     *)
(* (content.ts, confirm-guard.ts).  The top document numbers its own       *)
(* elements and those the child frames have reported, from a snapshot.     *)
(* Whether an element is dangerous may have changed since: its own frame   *)
(* refuses then, and the top document asks.  While the dialog is open the  *)
(* keys of every frame go to its guard, those of a child by message; it is *)
(* answered by a fresh Enter or by Space held for a second, both only      *)
(* after a second of protection.  Frames hear of the numbers and of the    *)
(* dialog by broadcasts, through the worker (relay.ts).                    *)
(*                                                                         *)
(* Abstractions.  One element of the top document and one of a child       *)
(* frame; the key of a number names its element.  The frames of the page   *)
(* are switched off and on together.  The ordinary keys of the page, the   *)
(* keys of a switch (SwitchExecution) and the tremor filter are left out.  *)
(* Messages keep their order and take less than half a second: when the    *)
(* second of protection of a dialog is over, the frames have heard of it,  *)
(* and what they sent before they had has arrived.                         *)
(***************************************************************************)
EXTENDS Naturals, Sequences

CONSTANTS MaxEvents,    \* bound on changes of the elements, the document, the switch
                        \* and the focus
          MaxChoices,   \* bound on numbers chosen
          MaxReadings,  \* bound on openings of the numbers under way
          MaxMessages   \* bound on messages under way, each direction

ASSUME BoundsAssumption == {MaxEvents, MaxChoices, MaxReadings, MaxMessages} \subseteq Nat

VARIABLES enabled,   \* the helper runs
          looks,     \* what each frame's collector says of its element
          doc,       \* the document of the child frame
          known,     \* the child's last report, as the top document has it
          top,       \* the numbers, the snapshot and the dialog of the top document
          child,     \* childHintsVisible and childConfirmOpen: the dialog it
                     \* knows of, 0 when none
          focus,     \* the frame that gets the keys
          held,      \* the keys that are down
          toTop, toChild,
          events,    \* changes so far
          tally      \* history: what was chosen, confirmed and pressed

page == <<enabled, looks, doc, known>>
user == <<focus, held>>
vars == <<page, top, child, user, toTop, toChild, events, tally>>

Targets == {"own", "framed"}
Looks == {"plain", "dangerous", "gone"}
Answers == {"confirm", "press"}
Frames == {"top", "child"}

\* dialog.born is the document in the frame when it opened, dialog.fresh the keys
\* pressed since.
NoDialog == [open |-> FALSE, target |-> "own", born |-> 0,
             armed |-> FALSE, hold |-> FALSE, fresh |-> {}]

Init == /\ enabled = TRUE
        /\ looks \in [Targets -> Looks]
        /\ doc = 0 /\ known = looks["framed"]
        /\ top = [hints |-> {}, readings |-> <<>>, shown |-> 0, dialog |-> NoDialog,
                  cache |-> [own |-> "gone", framed |-> "gone"]]
        /\ child = [hints |-> FALSE, dialog |-> 0]
        /\ focus = "top" /\ held = {}
        /\ toTop = <<>> /\ toChild = <<>>
        /\ events = 0
        /\ tally = [chosen |-> 0, pressed |-> 0, confirmed |-> 0, spent |-> 0]

-----------------------------------------------------------------------------
(* What a handler of the top document does: the state of the document, the *)
(* messages it sends and the press it makes, if any                        *)

Work == [top |-> top, out |-> <<>>, press |-> <<>>, chosen |-> 0, confirmed |-> 0]
Sending(w, m) == [w EXCEPT !.out = Append(@, m)]
ToTop(m) == Len(toTop) < MaxMessages /\ toTop' = Append(toTop, m)
Pressed(target, confirmed) == <<[target |-> target, confirmed |-> confirmed]>>

\* The state of the page after the press p, which may be none
Counted(p, chosen, confirmed) ==
    tally' = [chosen |-> tally.chosen + chosen, confirmed |-> tally.confirmed + confirmed,
              pressed |-> tally.pressed + Len(p),
              spent |-> IF p # <<>> /\ (p[1].confirmed \/ looks[p[1].target] = "dangerous")
                        THEN tally.spent + 1 ELSE tally.spent]
Done(w) == /\ tally.chosen + w.chosen <= MaxChoices /\ Len(w.top.readings) <= MaxReadings
           /\ Len(toChild \o w.out) <= MaxMessages
           /\ top' = w.top
           /\ toChild' = toChild \o w.out
           /\ Counted(w.press, w.chosen, w.confirmed)

closeHints(w) == Sending([w EXCEPT !.top.hints = {}], [type |-> "hints/state", on |-> FALSE])
\* closeConfirm with the guard of the closed dialog left where it is
CloseScreenOnly(w) == Sending([w EXCEPT !.top.dialog.open = FALSE], [type |-> "confirm/state", dialog |-> 0])
closeConfirm(w) == Sending([w EXCEPT !.top.dialog = NoDialog], [type |-> "confirm/state", dialog |-> 0])

\* The guard of the dialog it replaces is used on
OpenOverOld(w, target) ==
    Sending([w EXCEPT !.top.dialog = [@ EXCEPT !.open = TRUE, !.target = target, !.born = doc, !.fresh = {}],
                      !.top.shown = @ + 1],
            [type |-> "confirm/state", dialog |-> w.top.shown + 1])
openDangerConfirm(w, target) ==
    Sending([w EXCEPT !.top.dialog = [NoDialog EXCEPT !.open = TRUE, !.target = target, !.born = doc],
                      !.top.shown = @ + 1],
            [type |-> "confirm/state", dialog |-> w.top.shown + 1])

\* composeCurrentItems: the element of this document as it is, the frame's as reported
composeCurrentItems == [own |-> looks["own"], framed |-> known]

\* pressHintEntry trusting the snapshot
PressAsSeen(w, target, confirmed) ==
    CASE target = "framed" -> IF w.top.cache.framed = "gone" THEN w
                              ELSE Sending(w, [type |-> "press/request", confirmed |-> confirmed])
      [] OTHER -> IF looks["own"] = "gone" \/ ~enabled THEN w
                  ELSE [w EXCEPT !.press = Pressed("own", confirmed)]
pressHintEntry(w, target, confirmed) ==
    IF target = "framed"
    THEN IF w.top.cache.framed = "gone" THEN w
         ELSE Sending(w, [type |-> "press/request", confirmed |-> confirmed])
    ELSE IF looks["own"] = "dangerous" /\ ~confirmed THEN openDangerConfirm(w, "own")
    ELSE IF looks["own"] = "gone" \/ ~enabled THEN w
    ELSE [w EXCEPT !.press = Pressed("own", confirmed)]

\* openHints, up to the pins and presses it reads
openHints(w) ==
    LET numbered == {t \in Targets : composeCurrentItems[t] # "gone"}
        seen == [w EXCEPT !.top.cache = composeCurrentItems]
    IN IF numbered = {} THEN seen ELSE [seen EXCEPT !.top.readings = Append(@, numbered)]

\* A number: a dangerous element is not pressed before it is confirmed.
Choose(w, target) ==
    LET chosen == [w EXCEPT !.chosen = 1]
    IN IF target \notin w.top.hints THEN closeHints(w)
       ELSE IF w.top.cache[target] = "dangerous" THEN openDangerConfirm(closeHints(chosen), target)
       ELSE closeHints(pressHintEntry(chosen, target, FALSE))

handleTopHintKey(w, key) ==
    IF w.top.hints = {} THEN IF key = "toggle" THEN openHints(w) ELSE w
    ELSE CASE key \in {"toggle", "cancel"} -> closeHints(w)
           [] key \in Targets -> Choose(w, key)
           [] OTHER -> w

-----------------------------------------------------------------------------
(* The dialog: createConfirmGuard and finish *)

finish(w, result) ==
    LET d == w.top.dialog
    IN IF result = "cancel" THEN closeConfirm(w)
       ELSE pressHintEntry(closeConfirm([w EXCEPT !.confirmed = 1]), d.target, TRUE)

\* A key that is still down from before the dialog
HandleRepeats(w, kind, key, repeat) ==
    IF ~w.top.dialog.armed THEN w
    ELSE IF kind = "keyup" THEN IF key = "press" THEN [w EXCEPT !.top.dialog.hold = FALSE] ELSE w
    ELSE CASE key = "confirm" -> finish(w, "confirm")
           [] key = "cancel" -> finish(w, "cancel")
           [] key = "press" /\ ~repeat -> [w EXCEPT !.top.dialog.hold = TRUE]
           [] OTHER -> w
handle(w, kind, key, repeat) ==
    IF ~w.top.dialog.armed THEN w
    ELSE IF kind = "keyup" THEN IF key = "press" THEN [w EXCEPT !.top.dialog.hold = FALSE] ELSE w
    ELSE CASE key = "confirm" /\ ~repeat -> finish(w, "confirm")
           [] key = "cancel" -> finish(w, "cancel")
           [] key = "press" /\ ~repeat -> [w EXCEPT !.top.dialog.hold = TRUE]
           [] OTHER -> w

Event == events < MaxEvents /\ events' = events + 1
Still == UNCHANGED <<page, child, user, toTop, events>>

\* A second has passed: every frame has heard of the dialog, and what it sent
\* before it had has arrived.
GuardEnds ==
    /\ top.dialog.open /\ ~top.dialog.armed
    /\ \A i \in 1..Len(toChild) : toChild[i].type # "confirm/state"
    /\ \A i \in 1..Len(toTop) : toTop[i].type = "confirm/key" => toTop[i].dialog = top.shown
    /\ top' = [top EXCEPT !.dialog.armed = TRUE]
    /\ UNCHANGED <<toChild, tally>> /\ Still

\* The tick of the modal: Space has not come up for a second.
HoldEnds == top.dialog.hold /\ Done(finish(Work, "confirm")) /\ Still

ClickCancel == top.dialog.armed /\ Done(finish(Work, "cancel")) /\ Still

-----------------------------------------------------------------------------
(* Keys *)

Forward(kind, key, repeat) ==
    ToTop([type |-> "confirm/key", kind |-> kind, key |-> key, repeat |-> repeat,
           dialog |-> child.dialog])

\* A key of the top document
TopKey(w, kind, key, repeat) ==
    IF ~enabled THEN w
    ELSE IF w.top.dialog.open THEN handle(w, kind, key, repeat)
    ELSE IF kind = "keydown" /\ ~repeat THEN handleTopHintKey(w, key) ELSE w

\* A key of the child: all of them while it knows of the dialog (those that mean
\* nothing to it are left out); otherwise the key of the numbers, and while these
\* are shown the others that concern them
ChildKey(kind, key, repeat) ==
    CASE enabled /\ child.dialog # 0 ->
            IF key \in Answers \cup {"cancel"} THEN Forward(kind, key, repeat) ELSE UNCHANGED toTop
      [] enabled /\ child.dialog = 0 /\ kind = "keydown" /\ ~repeat
            /\ (key = "toggle" \/ (child.hints /\ key \in Targets \cup {"cancel"})) ->
            ToTop([type |-> "hints/key", key |-> key])
      [] OTHER -> UNCHANGED toTop

\* What the focused frame makes of a key
KeyEvent(kind, key, repeat) ==
    LET fresh == IF kind = "keydown" /\ ~repeat /\ top.dialog.open
                 THEN [Work EXCEPT !.top.dialog.fresh = @ \cup ({key} \cap Answers)] ELSE Work
    IN IF focus = "top" THEN Done(TopKey(fresh, kind, key, repeat)) /\ UNCHANGED toTop
                        ELSE Done(fresh) /\ ChildKey(kind, key, repeat)

KeyDown(key) == /\ key \notin held
                /\ held' = held \cup ({key} \cap Answers)
                /\ KeyEvent("keydown", key, FALSE)
                /\ UNCHANGED <<page, child, focus, events>>
Repeat(key) == /\ key \in held
               /\ KeyEvent("keydown", key, TRUE)
               /\ UNCHANGED <<page, child, user, events>>
KeyUp(key) == /\ key \in held
              /\ held' = held \ {key}
              /\ KeyEvent("keyup", key, FALSE)
              /\ UNCHANGED <<page, child, focus, events>>

\* releaseModalHold: a frame that loses the focus, or the whole window, which
\* then does not hear of keys coming up, lets go of Space.
NoRelease == UNCHANGED <<top, toTop, toChild, tally>>
releaseModalHold ==
    IF focus = "top"
    THEN /\ Done(IF top.dialog.open THEN handle(Work, "keyup", "press", FALSE) ELSE Work)
         /\ UNCHANGED toTop
    ELSE /\ Done(Work)
         /\ IF child.dialog # 0 THEN Forward("keyup", "press", FALSE) ELSE UNCHANGED toTop

WindowBlurs == Event /\ held' = {} /\ releaseModalHold /\ UNCHANGED <<page, child, focus>>
FocusMoves ==
    /\ Event /\ \E f \in Frames \ {focus} : focus' = f
    /\ releaseModalHold /\ UNCHANGED <<page, child, held>>

-----------------------------------------------------------------------------
(* The other steps of the top document *)

\* The pins and presses have been read.
HintsOpen ==
    /\ top.readings # <<>>
    /\ Done(Sending([Work EXCEPT !.top.hints = Head(top.readings), !.top.readings = Tail(@)],
                    [type |-> "hints/state", on |-> TRUE]))
    /\ Still

\* Off without a word to the frames about the dialog
OffUnheard(w) == [closeHints(w) EXCEPT !.top.dialog = NoDialog]
\* applyEnabled(false)
Off(w) == IF w.top.dialog.open THEN closeConfirm(closeHints(w)) ELSE closeHints(w)

SwitchOff == /\ Event /\ enabled /\ enabled' = FALSE
             /\ Done(Off(Work))
             /\ UNCHANGED <<looks, doc, known, child, user, toTop>>
SwitchOn == /\ Event /\ ~enabled /\ enabled' = TRUE
            /\ UNCHANGED <<looks, doc, known, top, child, user, toTop, toChild, tally>>

\* The collector has looked again; shown numbers follow.
TopChanges(look) ==
    /\ Event /\ looks' = [looks EXCEPT !["own"] = look]
    /\ top' = IF top.hints = {} THEN top
              ELSE [top EXCEPT !.cache = [composeCurrentItems EXCEPT !.own = look]]
    /\ UNCHANGED <<enabled, doc, known, child, user, toTop, toChild, tally>>

TopReceives ==
    /\ toTop # <<>>
    /\ toTop' = Tail(toTop)
    /\ LET m == Head(toTop)
       IN /\ known' = IF m.type = "frame/report" THEN m.look ELSE known
          /\ Done(CASE m.type = "hints/key" /\ enabled -> handleTopHintKey(Work, m.key)
                    [] m.type = "confirm/key" /\ top.dialog.open -> handle(Work, m.kind, m.key, m.repeat)
                    [] m.type = "press/refused" /\ top.cache.framed # "gone" -> openDangerConfirm(Work, "framed")
                    [] OTHER -> Work)
    /\ UNCHANGED <<enabled, looks, doc, child, user, events>>

-----------------------------------------------------------------------------
(* The child frame *)

Report(look) == [type |-> "frame/report", look |-> look]

ChildChanges(look) ==
    /\ Event /\ look # looks["framed"]
    /\ looks' = [looks EXCEPT !["framed"] = look]
    /\ ToTop(Report(look))
    /\ UNCHANGED <<enabled, doc, known, top, child, user, toChild, tally>>

\* Another document, whose elements are numbered from the start again.  What is
\* on its way to the frame meets either document or none.
ChildLoads(look) ==
    /\ Event /\ doc' = doc + 1
    /\ looks' = [looks EXCEPT !["framed"] = look]
    /\ child' = [hints |-> FALSE, dialog |-> 0]
    /\ ToTop(Report(look))
    /\ toChild' \in {toChild, <<>>}
    /\ UNCHANGED <<enabled, known, top, user, tally>>

\* The answer to press/request: the element is gone, or has become dangerous.
Refuses(m) == looks["framed"] = "gone" \/ (looks["framed"] = "dangerous" /\ ~m.confirmed)

ChildReceives ==
    /\ toChild # <<>>
    /\ toChild' = Tail(toChild)
    /\ LET m == Head(toChild)
       IN CASE m.type = "hints/state" ->
                 child' = [child EXCEPT !.hints = m.on] /\ UNCHANGED <<toTop, tally>>
            [] m.type = "confirm/state" ->
                 child' = [child EXCEPT !.dialog = m.dialog] /\ UNCHANGED <<toTop, tally>>
            [] m.type = "press/request" /\ Refuses(m) ->
                 /\ IF looks["framed"] = "gone" THEN UNCHANGED toTop ELSE ToTop([type |-> "press/refused"])
                 /\ UNCHANGED <<child, tally>>
            [] OTHER ->
                 /\ Counted(IF enabled THEN Pressed("framed", m.confirmed) ELSE <<>>, 0, 0)
                 /\ UNCHANGED <<child, toTop>>
    /\ UNCHANGED <<page, top, user, events>>

-----------------------------------------------------------------------------
Keys == Targets \cup {"toggle", "confirm", "cancel", "press"}

Next == \/ \E k \in Keys : KeyDown(k)
        \/ \E k \in Answers : Repeat(k) \/ KeyUp(k)
        \/ WindowBlurs \/ FocusMoves
        \/ GuardEnds \/ HoldEnds \/ ClickCancel
        \/ HintsOpen \/ SwitchOff \/ SwitchOn
        \/ TopReceives \/ ChildReceives
        \/ \E look \in Looks : TopChanges(look) \/ ChildChanges(look) \/ ChildLoads(look)

Spec == Init /\ [][Next]_vars

-----------------------------------------------------------------------------
(* Properties *)

Among(channel, type) == \E i \in 1..Len(channel) : channel[i].type = type

\* The type invariant; a closed dialog keeps nothing of the last one.
\* (content.ts:243-251, 785-797, 944-1009)
TypeOK ==
    /\ enabled \in BOOLEAN /\ looks \in [Targets -> Looks] /\ doc \in 0..MaxEvents
    /\ known \in Looks
    /\ top.hints \subseteq Targets /\ top.cache \in [own : Looks, framed : Looks]
    /\ top.dialog \in [open : BOOLEAN, target : Targets, born : 0..MaxEvents,
                       armed : BOOLEAN, hold : BOOLEAN, fresh : SUBSET Answers]
    /\ ~top.dialog.open => top.dialog = NoDialog
    /\ top.dialog.hold => top.dialog.armed
    /\ child \in [hints : BOOLEAN, dialog : 0..top.shown] /\ focus \in Frames /\ held \subseteq Answers

\* Each press of a dangerous element by number, and each press after the
\* question, uses up a confirmation of its own; and each press a choice of its
\* own.  Snapshot, report, refusal and dialog may come in any order.
\* (content.ts:398-424, 898-924, 944-979, 1041-1058)
ConsentPerPress == tally.spent <= tally.confirmed /\ tally.pressed <= tally.chosen

\* No question is confirmed before one of the keys that answer it has been pressed
\* since it appeared, in whichever frame: keys that were down, or on their way,
\* before it do not confirm, nor do their repeats.
\* (confirm-guard.ts:39-67, content.ts:462-480)
FreshConfirmation ==
    [][tally'.confirmed > tally.confirmed =>
          top.dialog.fresh \cup (IF focus = "top" THEN held' \ held ELSE {}) # {}]_vars

\* The dialog counts the seconds of Space only while the key is down or word of
\* its release is on the way, wherever the focus has gone - as long as the frame
\* keeps the document it had.  Nothing of a dialog outlives it.
\* (confirm-guard.ts:47-52, pipeline.ts:239-254)
HoldIsReal ==
    /\ TypeOK
    /\ top.dialog.hold /\ top.dialog.born = doc =>
        \/ "press" \in held
        \/ \E i \in 1..Len(toTop) : toTop[i].type = "confirm/key" /\ toTop[i].kind = "keyup"
                                     /\ toTop[i].key = "press"

\* A child that has heard everything gives its keys to the dialog exactly while
\* it is open, and to the numbers exactly while they are shown: no frame stays
\* locked.  (content.ts:435-480, 652-662, 789-797, 953-970)
ChildFollowsTop ==
    doc = 0 => /\ ~Among(toChild, "confirm/state") => child.dialog = IF top.dialog.open THEN top.shown ELSE 0
               /\ ~Among(toChild, "hints/state") => child.hints = (top.hints # {})

=============================================================================
