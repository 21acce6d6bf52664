---------------------------- MODULE EditorEscape ----------------------------
(***************************************************************************)
(* Leaving a document that is one big editor.  Esc in such a document      *)
(* moves the focus to an element of the helper's overlay, the focus sink,  *)
(* and marks the frame as escaped (mode.ts); while the mark stands nothing *)
(* is written and the helper's keys work, and it is lifted when the focus  *)
(* reaches another element or is found to have gone, by Esc, or by the off *)
(* switch (pipeline.ts).  The frame tells its mode to the top document     *)
(* through the worker (relay.ts), which shows it while the focus is in     *)
(* that frame (content.ts).                                                *)
(*                                                                         *)
(* Abstractions.  The document holds its editable body, a field and a      *)
(* button; "root" is the body with the focus, "body" the body that is the  *)
(* active element because nothing has it.  A key the tremor filter rejects *)
(* or a handler of the helper uses does nothing here and is left out, as   *)
(* are shortcuts that edit nothing.  A paste, a drop or a composition is a *)
(* character.  What one event tells is one message.  No dialog is open and *)
(* no switch drives the helper (PressInput has them, and keyup).           *)
(***************************************************************************)
EXTENDS Naturals, Sequences

CONSTANT MaxInbox   \* bound on mode reports under way
ASSUME InboxAssumption == MaxInbox \in Nat \ {0}

VARIABLES isTopFrame,
          currentEnabled, \* content.ts: this frame runs
          active,      \* deepActiveElement()
          focused,     \* this frame has the keyboard
          escaped,     \* escapedFromDocumentEditor
          escapedRoot, \* the body escaped from: none, in the document, or gone
          watchdog,    \* escapeWatchdogHandle # null
          told,        \* the mode this frame has set, or told the top, last
          inbox,       \* mode reports under way to the top
          known,       \* the worker has a report of this frame
          topEnabled, topFocus, topOwn, \* the top document: focus and own mode
          lastChildMode, shown,         \* what it has been told, and shows
          wrote,       \* did the last step write into the document
          unnoticed,   \* history: the focus fell out of the sink, with no mark
          untold       \* history: the top has not been told the mode of late

focus == <<active, focused>>
mark == <<escaped, escapedRoot, watchdog>>
word == <<told, inbox, unnoticed, untold>>
top == <<topEnabled, topFocus, topOwn, lastChildMode, shown>>
vars == <<isTopFrame, currentEnabled, focus, mark, word, known, top, wrote>>

Mode == {"typing", "helper"}
Elements == {"root", "body", "field", "button", "sink"}

IsDocumentEditingRoot(el) == el \in {"root", "body"}
IsTypingTarget(el) == el = "field" \/ IsDocumentEditingRoot(el)

\* currentMode, with el as the active element
ModeAt(el, marked) == IF IsTypingTarget(el) /\ ~(marked /\ IsDocumentEditingRoot(el))
                      THEN "typing" ELSE "helper"
CurrentMode == ModeAt(active, escaped)

\* refreshModeDisplay of the top document
Shows(place, own, childMode) == IF place # "own" /\ childMode # "none" THEN childMode ELSE own

Init == /\ isTopFrame \in BOOLEAN
        /\ currentEnabled = FALSE /\ active = "body" /\ focused = FALSE
        /\ escaped = FALSE /\ escapedRoot = "none" /\ watchdog = FALSE
        /\ told = "helper" /\ inbox = <<>> /\ known = TRUE
        /\ topEnabled = FALSE /\ topFocus = "own" /\ topOwn = "helper"
        /\ lastChildMode = "none" /\ shown = "helper"
        /\ wrote = FALSE /\ unnoticed = FALSE /\ untold = TRUE

Room == Len(inbox) < MaxInbox

-----------------------------------------------------------------------------
(* This frame tells its mode once the mark and the focus are set: the top    *)
(* frame shows it itself, any other sends it.                                *)

Says(m) == /\ told' = m
           /\ unnoticed' = FALSE
           /\ IF isTopFrame THEN UNCHANGED <<inbox, untold>>
              ELSE inbox' = Append(inbox, m) /\ untold' = FALSE

\* Told by the listener that runs before the mark is lifted
TellsEarly == Says(ModeAt(active', escaped))
Tells == Says(ModeAt(active', escaped'))

-----------------------------------------------------------------------------
(* Focus events                                                            *)

\* resumeDocumentEditor
Lift == escaped' = FALSE /\ escapedRoot' = "none"

\* The mark is lifted when an element other than the sink is reached.  A focusout
\* never lifts it: the sink is in a shadow tree, and a listener of the window is
\* told of the overlay's host.  Nothing that has no focus loses it.
FocusEvents(lift) ==
    /\ IF currentEnabled /\ escaped /\ lift THEN Lift ELSE UNCHANGED <<escaped, escapedRoot>>
    /\ IF currentEnabled THEN Tells ELSE UNCHANGED word

\* A click, Tab, or a script of the site
FocusMoves(to) ==
    /\ Room /\ focused /\ to \notin {"sink", "body", active}
    /\ active' = to /\ FocusEvents(TRUE)
    /\ IF isTopFrame THEN UNCHANGED top
       ELSE /\ topFocus' = "this" /\ topOwn' = "helper"
            /\ UNCHANGED <<topEnabled, lastChildMode, shown>>
    /\ wrote' = FALSE /\ UNCHANGED <<isTopFrame, currentEnabled, focused, watchdog, known>>

\* A blur(), or a click on nothing: a focusout and no focusin.
FocusDrops ==
    /\ Room /\ focused /\ active # "body"
    /\ active' = "body" /\ FocusEvents(FALSE)
    /\ wrote' = FALSE /\ UNCHANGED <<isTopFrame, currentEnabled, focused, watchdog, known, top>>

\* Tab in the sink with no target to follow, or the overlay torn out: no event
\* at all, and the top document may take the focus to be its own.
FocusFalls ==
    /\ active = "sink" /\ active' = "body"
    /\ unnoticed' = (unnoticed \/ ~escaped)
    /\ IF isTopFrame THEN UNCHANGED topFocus ELSE topFocus' \in {topFocus, "own"}
    /\ wrote' = FALSE
    /\ UNCHANGED <<isTopFrame, currentEnabled, focused, mark, told, inbox, untold, known,
                   topEnabled, topOwn, lastChildMode, shown>>

\* The keyboard goes to another window, frame or the top document's own
\* elements; the active element stays.  Whether the top document hears of it
\* is the browser's matter.
TopHears(place, own) ==
    /\ topFocus' = place /\ topOwn' = own
    /\ shown' \in {shown} \cup (IF topEnabled THEN {Shows(place, own, lastChildMode), own} ELSE {})
    /\ UNCHANGED <<topEnabled, lastChildMode>>

KeyboardLeaves ==
    /\ Room /\ focused /\ focused' = FALSE /\ UNCHANGED active
    /\ IF active = "body" THEN UNCHANGED <<escaped, escapedRoot, word>>
       ELSE FocusEvents(FALSE)
    /\ IF isTopFrame THEN UNCHANGED top
       ELSE \/ UNCHANGED top
            \/ TopHears("other", "helper")
            \/ \E own \in Mode : TopHears("own", own)
    /\ wrote' = FALSE /\ UNCHANGED <<isTopFrame, currentEnabled, watchdog, known>>

KeyboardReturns ==
    /\ Room /\ ~focused /\ focused' = TRUE /\ UNCHANGED active
    /\ IF active = "body"
       THEN untold' = TRUE /\ UNCHANGED <<escaped, escapedRoot, told, inbox, unnoticed>>
       ELSE FocusEvents(active # "sink")
    /\ IF isTopFrame THEN UNCHANGED top ELSE TopHears("this", "helper")
    /\ wrote' = FALSE /\ UNCHANGED <<isTopFrame, currentEnabled, watchdog, known>>

\* escapeWatchdogTick, when it finds the focus elsewhere or nothing to watch
WatchdogTick ==
    /\ watchdog /\ watchdog' = FALSE
    /\ IF currentEnabled /\ escaped THEN active # "sink" /\ Lift /\ UNCHANGED active /\ Tells
       ELSE UNCHANGED <<active, escaped, escapedRoot, word>>
    /\ wrote' = FALSE /\ UNCHANGED <<isTopFrame, currentEnabled, focused, known, top>>

-----------------------------------------------------------------------------
(* Keys                                                                    *)

\* escapeDocumentEditor; a sink that the site has torn out takes no focus.
EscapeUnwatched == /\ escaped' = TRUE /\ escapedRoot' = "here" /\ UNCHANGED watchdog
                   /\ active' \in {"sink", active}
EscapeDocumentEditor == /\ escaped' = TRUE /\ escapedRoot' = "here" /\ watchdog' = TRUE
                        /\ active' \in {"sink", active}

\* Esc while typing: out of the editor, or out of the field (blur)
EscapeTyping ==
    /\ Room /\ focused /\ currentEnabled /\ CurrentMode = "typing"
    /\ IF IsDocumentEditingRoot(active) THEN EscapeDocumentEditor
       ELSE active' = "body" /\ UNCHANGED mark
    /\ Tells
    /\ wrote' = FALSE /\ UNCHANGED <<isTopFrame, currentEnabled, focused, known, top>>

\* Esc again: back into the body that was left, if it is still there.
EscapeAgain ==
    /\ Room /\ focused /\ currentEnabled /\ escaped
    /\ IF escapedRoot = "here" THEN Lift /\ active' = "root"
       ELSE escapedRoot' = "none" /\ UNCHANGED <<active, escaped>>
    /\ Tells
    /\ wrote' = FALSE /\ UNCHANGED <<isTopFrame, currentEnabled, focused, watchdog, known, top>>

\* A key that edits, in the editor's own handler or by default, or a character
KeyKinds == {"editing", "character"}
ReachesAsUsual(kind) == kind = "character" => ~escaped
Reaches(kind) == currentEnabled => ~escaped

Writes(kind) ==
    /\ focused /\ Reaches(kind)
    /\ active \in Elements \ (IF kind = "editing" THEN {"button"} ELSE {"button", "sink"})
    /\ wrote' = TRUE
    /\ UNCHANGED <<isTopFrame, currentEnabled, focus, mark, word, known, top>>

\* The site puts another body in place of the one that was left.
BodyReplaced ==
    /\ escapedRoot = "here" /\ active = "sink" /\ escapedRoot' = "gone" /\ wrote' = FALSE
    /\ UNCHANGED <<isTopFrame, currentEnabled, focus, escaped, watchdog, word, known, top>>

-----------------------------------------------------------------------------
(* The off switch, a new instance of the helper, the worker                *)

\* The overlay of the top frame goes with the helper, and the sink with it.
Sinks(gone) == active' = IF gone /\ active = "sink" THEN "body" ELSE active

\* applyEnabled(false)
TurnsOff ==
    /\ currentEnabled /\ currentEnabled' = FALSE /\ Lift /\ Sinks(isTopFrame)
    /\ wrote' = FALSE
    /\ UNCHANGED <<isTopFrame, focused, watchdog, word, known, top>>

\* applyEnabled(true)
TurnsOn ==
    /\ Room /\ ~currentEnabled /\ currentEnabled' = TRUE
    /\ UNCHANGED <<focus, mark>> /\ Tells
    /\ wrote' = FALSE /\ UNCHANGED <<isTopFrame, known, top>>

\* cleanupOldHelper, and a new instance that is not switched on yet
Replaced ==
    /\ currentEnabled /\ currentEnabled' = FALSE /\ Lift /\ watchdog' = FALSE /\ Sinks(TRUE)
    /\ wrote' = FALSE /\ UNCHANGED <<isTopFrame, focused, word, known, top>>

TopSwitches ==
    /\ ~isTopFrame /\ topEnabled' = ~topEnabled
    /\ shown' = IF topEnabled' THEN Shows(topFocus, topOwn, lastChildMode) ELSE shown
    /\ wrote' = FALSE
    /\ UNCHANGED <<isTopFrame, currentEnabled, focus, mark, word, known, topFocus, topOwn,
                   lastChildMode>>

\* mode/report at the top, from this frame or another
TakesAnyReport(from, m) == /\ lastChildMode' = m
                           /\ shown' = IF topEnabled THEN Shows(topFocus, topOwn, m) ELSE shown
TakesReport(from, m) ==
    IF topFocus # from THEN UNCHANGED <<lastChildMode, shown>>
    ELSE /\ lastChildMode' = m
         /\ shown' = IF topEnabled THEN Shows(topFocus, topOwn, m) ELSE shown

ReportArrives ==
    /\ inbox # <<>> /\ inbox' = Tail(inbox)
    /\ IF known THEN TakesReport("this", Head(inbox)) ELSE UNCHANGED <<lastChildMode, shown>>
    /\ untold' = (untold \/ (Len(inbox) = 1 /\ (~known \/ topFocus # "this")))
    /\ wrote' = FALSE
    /\ UNCHANGED <<isTopFrame, currentEnabled, focus, mark, told, unnoticed, known,
                   topEnabled, topFocus, topOwn>>

\* Another frame's report, perhaps late
OtherFrameReports(m) ==
    /\ ~isTopFrame /\ TakesReport("other", m)
    /\ wrote' = FALSE
    /\ UNCHANGED <<isTopFrame, currentEnabled, focus, mark, word, known, topEnabled, topFocus,
                   topOwn>>

\* A new worker knows no frame; frames report themselves anew, not their modes.
WorkerRestart ==
    /\ ~isTopFrame /\ known /\ known' = FALSE
    /\ inbox' = <<>> /\ untold' = (untold \/ inbox # <<>>)
    /\ wrote' = FALSE
    /\ UNCHANGED <<isTopFrame, currentEnabled, focus, mark, told, unnoticed, top>>

FrameReportsAnew == /\ ~known /\ known' = TRUE /\ wrote' = FALSE
                    /\ UNCHANGED <<isTopFrame, currentEnabled, focus, mark, word, top>>

-----------------------------------------------------------------------------
Next == \/ \E to \in Elements : FocusMoves(to)
        \/ FocusDrops \/ FocusFalls \/ KeyboardLeaves \/ KeyboardReturns \/ WatchdogTick
        \/ EscapeTyping \/ EscapeAgain \/ \E kind \in KeyKinds : Writes(kind)
        \/ BodyReplaced \/ TurnsOff \/ TurnsOn \/ Replaced \/ TopSwitches
        \/ ReportArrives \/ \E m \in Mode : OtherFrameReports(m)
        \/ WorkerRestart \/ FrameReportsAnew

Spec == Init /\ [][Next]_vars
FairSpec == Spec /\ WF_vars(WatchdogTick)

-----------------------------------------------------------------------------
(* Properties                                                              *)

\* The type invariant; what Esc has left is remembered only while the mark
\* stands.  (mode.ts:54-112)
TypeOK ==
    /\ {isTopFrame, currentEnabled, focused, escaped, watchdog, known, topEnabled,
        wrote, unnoticed, untold} \subseteq BOOLEAN
    /\ active \in Elements /\ escapedRoot \in {"none", "here", "gone"}
    /\ {told, topOwn, shown} \subseteq Mode /\ lastChildMode \in Mode \cup {"none"}
    /\ topFocus \in {"this", "own", "other"}
    /\ inbox \in Seq(Mode) /\ Len(inbox) <= MaxInbox + 1
    /\ escapedRoot # "none" => escaped

\* Nothing is written into the document while the frame says "helper", by a
\* key, a paste or a composition, whatever happened to the focus and to the
\* window since; but for a child frame whose helper was switched off while the
\* sink had the focus, which keeps it without the mark.  (pipeline.ts:146-226,
\* 346-359, 526-562, content.ts:638-642)
NothingWrittenUnseen ==
    [][wrote' /\ currentEnabled =>
          \/ told = "typing"
          \/ ~isTopFrame /\ ((active = "sink" /\ ~escaped) \/ unnoticed)]_vars

\* What the frame has said last is its mode, although the browser moves the
\* focus without a word, the window loses the keyboard and listeners run before
\* the mark is lifted; with the same exception.  In the top frame the mark stands
\* as long as the sink has the focus, in any frame no mark outlives the helper, and
\* the focus is watched as long as it stands.
\* (pipeline.ts:146-226, content.ts:500-524, 638-642, 664-674, 704-717)
ModeIsKnown == /\ TypeOK
               /\ currentEnabled => told = CurrentMode \/ (~isTopFrame /\ unnoticed)
               /\ isTopFrame /\ active = "sink" => escaped
               /\ escaped => currentEnabled /\ watchdog

\* What the user sees is the mode of the frame that has the keyboard, once its
\* reports have arrived: no late report, other frame or switch in between
\* makes it stale.  (content.ts:450-459, 507-524, relay.ts:130-134)
ShownModeIsTrue ==
    /\ ~isTopFrame /\ currentEnabled /\ topEnabled /\ focused
    /\ topFocus = "this" /\ inbox = <<>> /\ ~untold
    => shown = told

\* A mark whose focus has gone is lifted in the end, though no event tells.
\* (pipeline.ts:196-226)
LostFocusIsNoticed == (escaped /\ active # "sink") ~> (~escaped \/ active = "sink")
=============================================================================
