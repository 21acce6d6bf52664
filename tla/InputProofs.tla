----------------------------- MODULE InputProofs -----------------------------
(***************************************************************************)
(* Theorems about the input of one frame.                                  *)
(*                                                                         *)
(* EditorEscape, for any bound on the mode reports under way.  What the    *)
(* frame has said last is inductive as it stands (ModeIsKnown), since      *)
(* every handler that moves the focus or the mark tells the mode           *)
(* afterwards.  What is shown is not: it takes what the last report under  *)
(* way says (LastWord) and what the top document remembers while it is off *)
(* or looks elsewhere (Heard).                                             *)
(*                                                                         *)
(* PressInput, for any number of elements, presses and changes.  What was  *)
(* decided when a button or the space bar went down is kept in flags that  *)
(* the next press, the dialog or the switch could overwrite: the invariant *)
(* says what the flags mean as long as neither has (SeenInv), whose        *)
(* reservation it is (ReservedInv), and what dwelling has pressed          *)
(* (MagnetInv).                                                            *)
(***************************************************************************)
EXTENDS EditorEscape, PressInput, TLAPS, SequenceTheorems

USE InboxAssumption

-----------------------------------------------------------------------------
(* EditorEscape: the inductive invariant *)

\* The last report under way says what the frame has said last.
LastWord == ~isTopFrame /\ ~untold /\ inbox # <<>> => inbox[Len(inbox)] = told

\* With no report under way the top document knows the mode.
Heard == /\ ~isTopFrame /\ ~untold /\ inbox = <<>>
         /\ currentEnabled /\ focused /\ topFocus = "this"
         => lastChildMode = told /\ (topEnabled => shown = told)

\* The watchdog speaks whether or not there is room, and then stops.
RoomForTheTick == watchdog => Len(inbox) <= MaxInbox

IInv == ModeIsKnown /\ LastWord /\ Heard /\ RoomForTheTick

InboxOK == inbox \in Seq(Mode) /\ Len(inbox) <= MaxInbox + 1

-----------------------------------------------------------------------------
(* Lemmas *)

\* A frame that tells its mode adds at most one report (Tells).
LEMMA TellsOnce ==
  ASSUME inbox \in Seq(Mode), Tells
  PROVE  inbox' \in Seq(Mode) /\ Len(inbox') <= Len(inbox) + 1
<1>1. ModeAt(active', escaped') \in Mode
  BY DEF ModeAt, Mode
<1>2. QED
  BY <1>1 DEF Tells, Says

\* What a report taken from the front leaves behind.
LEMMA FrontReport ==
  ASSUME NEW s \in Seq(Mode), s # <<>>
  PROVE  /\ Head(s) \in Mode /\ Tail(s) \in Seq(Mode)
         /\ Len(Tail(s)) = Len(s) - 1
         /\ Head(s) = s[1]
         /\ Tail(s) = <<>> => Len(s) = 1
<1>1. Len(s) \in Nat \ {0}
  BY EmptySeq
<1>2. Len(Tail(s)) = Len(s) - 1 /\ Head(s) \in Mode /\ Tail(s) \in Seq(Mode)
  BY HeadTailProperties
<1>3. Head(s) = s[1]
  BY <1>1
<1>4. Tail(s) = <<>> => Len(s) = 1
  BY <1>1, <1>2
<1>5. QED
  BY <1>2, <1>3, <1>4

\* The initial states satisfy the invariant (Init).
LEMMA InitOK == Init => IInv
<1> SUFFICES ASSUME Init PROVE IInv
  OBVIOUS
<1>1. <<>> \in Seq(Mode) /\ Len(<<>>) = 0
  BY EmptySeq
<1>2. TypeOK
  <2>1. Len(inbox) <= MaxInbox + 1 /\ inbox \in Seq(Mode)
    BY <1>1 DEF Init
  <2>2. QED
    BY <2>1 DEF Init, TypeOK, Mode, Elements
<1>3. LastWord /\ Heard /\ RoomForTheTick
  BY DEF Init, LastWord, Heard, RoomForTheTick
<1>4. QED
  BY <1>2, <1>3 DEF Init, IInv, ModeIsKnown

\* The top document takes a report of the frame (ReportArrives).
LEMMA ReportStep == IInv /\ ReportArrives => IInv'
<1> SUFFICES ASSUME IInv, ReportArrives PROVE IInv'
  OBVIOUS
<1> USE DEF IInv, ModeIsKnown
<1>1. inbox \in Seq(Mode) /\ inbox # <<>> /\ inbox' = Tail(inbox)
  BY DEF ReportArrives, TypeOK
<1>2. /\ Head(inbox) \in Mode /\ inbox' \in Seq(Mode)
      /\ Len(inbox') = Len(inbox) - 1
      /\ Head(inbox) = inbox[1]
      /\ inbox' = <<>> => Len(inbox) = 1
  BY <1>1, FrontReport
<1>3. InboxOK'
  BY <1>1, <1>2 DEF InboxOK, TypeOK
<1>4. lastChildMode' \in Mode \cup {"none"} /\ shown' \in Mode
  <2>1. TakesReport("this",
      Head(inbox)) => lastChildMode' \in Mode \cup {"none"} /\ shown' \in Mode
    BY <1>2 DEF TakesReport, Shows, TypeOK
  <2>2. QED
    BY <2>1 DEF ReportArrives, TypeOK
<1>5. TypeOK'
  BY <1>3, <1>4 DEF InboxOK, ReportArrives, TypeOK, focus, mark
<1>6. Heard'
  <2> SUFFICES ASSUME ~isTopFrame', ~untold', inbox' = <<>>, currentEnabled', focused',
      topFocus' = "this"
               PROVE  lastChildMode' = told' /\ (topEnabled' => shown' = told')
    BY DEF Heard
  <2>1. /\ known /\ ~untold /\ topFocus = "this" /\ told' = told
        /\ topEnabled' = topEnabled /\ isTopFrame' = isTopFrame
    BY <1>2 DEF ReportArrives
  <2>2. Head(inbox) = told
    BY <1>2, <2>1 DEF LastWord, ReportArrives
  <2>3. TakesReport("this", told)
    BY <2>1, <2>2 DEF ReportArrives
  <2>4. QED
    BY <2>1, <2>3 DEF TakesReport, Shows, TypeOK, Mode
<1>7. LastWord' /\ RoomForTheTick'
  BY <1>1, <1>2 DEF ReportArrives, LastWord, RoomForTheTick, TypeOK, mark
<1>8. /\ (currentEnabled => told = CurrentMode \/ (~isTopFrame /\ unnoticed))'
      /\ (isTopFrame /\ active = "sink" => escaped)'
      /\ (escaped => currentEnabled /\ watchdog)'
  BY DEF ReportArrives, CurrentMode, ModeAt, IsTypingTarget, IsDocumentEditingRoot,
     focus, mark
<1>9. QED
  BY <1>5, <1>6, <1>7, <1>8

-----------------------------------------------------------------------------
(* Every step preserves the invariant. *)

\* Every step keeps the invariant.
LEMMA NextOK == IInv /\ [Next]_vars => IInv'
<1> SUFFICES ASSUME IInv, [Next]_vars PROVE IInv'
  OBVIOUS
<1> USE DEF IInv, ModeIsKnown, vars, focus, mark, word, top,
            CurrentMode, ModeAt, IsTypingTarget, IsDocumentEditingRoot
<1> DEFINE Known == currentEnabled => told = CurrentMode \/ (~isTopFrame /\ unnoticed)
           Marked == isTopFrame /\ active = "sink" => escaped
           Watched == escaped => currentEnabled /\ watchdog
<1>1. ASSUME NEW to \in Elements, FocusMoves(to) PROVE IInv'
  <2>1. InboxOK'
    BY <1>1, TellsOnce DEF FocusMoves, FocusEvents, Lift, Room, InboxOK, TypeOK,
       RoomForTheTick
  <2>2. TypeOK'
    BY <1>1, <2>1 DEF FocusMoves, FocusEvents, Lift, Room, Tells, Says, TypeOK,
       InboxOK, Mode, Elements
  <2>3. Known' /\ Marked' /\ Watched'
    BY <1>1 DEF FocusMoves, FocusEvents, Lift, Room, Tells, Says, TypeOK
  <2>4. LastWord' /\ Heard'
    BY <1>1 DEF FocusMoves, FocusEvents, Lift, Room, Tells, Says, TypeOK, Mode,
       LastWord, Heard
  <2>5. RoomForTheTick'
    BY <1>1, <2>1 DEF FocusMoves, FocusEvents, Lift, Room, Tells, Says, TypeOK,
       InboxOK, RoomForTheTick
  <2>6. QED
    BY <2>2, <2>3, <2>4, <2>5
<1>2. CASE FocusFalls
  <2>1. InboxOK'
    BY <1>2, EmptySeq DEF FocusFalls, InboxOK, TypeOK
  <2>2. TypeOK'
    BY <1>2, <2>1 DEF FocusFalls, TypeOK, InboxOK, Mode, Elements
  <2>3. Known' /\ Marked' /\ Watched'
    BY <1>2 DEF FocusFalls, TypeOK
  <2>4. LastWord' /\ Heard'
    BY <1>2 DEF FocusFalls, TypeOK, Mode, LastWord, Heard
  <2>5. RoomForTheTick'
    BY <1>2, <2>1 DEF FocusFalls, TypeOK, InboxOK, RoomForTheTick
  <2>6. QED
    BY <2>2, <2>3, <2>4, <2>5
<1>3. CASE KeyboardLeaves
  <2>1. InboxOK'
    BY <1>3, TellsOnce DEF KeyboardLeaves, TopHears, FocusEvents, Lift, Room, Shows,
       InboxOK, TypeOK, RoomForTheTick
  <2>2. TypeOK'
    BY <1>3, <2>1 DEF KeyboardLeaves, TopHears, FocusEvents, Lift, Room, Shows, Tells,
       Says, TypeOK, InboxOK, Mode, Elements
  <2>3. Known' /\ Marked' /\ Watched'
    BY <1>3 DEF KeyboardLeaves, TopHears, FocusEvents, Lift, Room, Shows, Tells, Says,
       TypeOK
  <2>4. LastWord' /\ Heard'
    BY <1>3 DEF KeyboardLeaves, TopHears, FocusEvents, Lift, Room, Shows, Tells, Says,
       TypeOK, Mode, LastWord, Heard
  <2>5. RoomForTheTick'
    BY <1>3, <2>1 DEF KeyboardLeaves, TopHears, FocusEvents, Lift, Room, Shows, Tells,
       Says, TypeOK, InboxOK, RoomForTheTick
  <2>6. QED
    BY <2>2, <2>3, <2>4, <2>5
<1>4. CASE KeyboardReturns
  <2>1. InboxOK'
    BY <1>4, TellsOnce DEF KeyboardReturns, TopHears, FocusEvents, Lift, Room, Shows,
       InboxOK, TypeOK, RoomForTheTick
  <2>2. TypeOK'
    BY <1>4, <2>1 DEF KeyboardReturns, TopHears, FocusEvents, Lift, Room, Shows,
       Tells, Says, TypeOK, InboxOK, Mode, Elements
  <2>3. Known' /\ Marked' /\ Watched'
    BY <1>4 DEF KeyboardReturns, TopHears, FocusEvents, Lift, Room, Shows, Tells,
       Says, TypeOK
  <2>4. LastWord' /\ Heard'
    BY <1>4 DEF KeyboardReturns, TopHears, FocusEvents, Lift, Room, Shows, Tells,
       Says, TypeOK, Mode, LastWord, Heard
  <2>5. RoomForTheTick'
    BY <1>4, <2>1 DEF KeyboardReturns, TopHears, FocusEvents, Lift, Room, Shows,
       Tells, Says, TypeOK, InboxOK, RoomForTheTick
  <2>6. QED
    BY <2>2, <2>3, <2>4, <2>5
<1>5. CASE WatchdogTick
  <2>1. InboxOK'
    BY <1>5, TellsOnce DEF WatchdogTick, Lift, InboxOK, TypeOK, RoomForTheTick
  <2>2. TypeOK'
    BY <1>5, <2>1 DEF WatchdogTick, Lift, Tells, Says, TypeOK, InboxOK, Mode, Elements
  <2>3. Known' /\ Marked' /\ Watched'
    BY <1>5 DEF WatchdogTick, Lift, Tells, Says, TypeOK
  <2>4. LastWord' /\ Heard'
    BY <1>5 DEF WatchdogTick, Lift, Tells, Says, TypeOK, Mode, LastWord, Heard
  <2>5. RoomForTheTick'
    BY <1>5, <2>1 DEF WatchdogTick, Lift, Tells, Says, TypeOK, InboxOK, RoomForTheTick
  <2>6. QED
    BY <2>2, <2>3, <2>4, <2>5
<1>6. CASE EscapeTyping
  <2>1. InboxOK'
    BY <1>6, TellsOnce DEF EscapeTyping, EscapeDocumentEditor, Room, InboxOK, TypeOK,
       RoomForTheTick
  <2>2. TypeOK'
    BY <1>6, <2>1 DEF EscapeTyping, EscapeDocumentEditor, Room, Tells, Says, TypeOK,
       InboxOK, Mode, Elements
  <2>3. Known' /\ Marked' /\ Watched'
    BY <1>6 DEF EscapeTyping, EscapeDocumentEditor, Room, Tells, Says, TypeOK
  <2>4. LastWord' /\ Heard'
    BY <1>6 DEF EscapeTyping, EscapeDocumentEditor, Room, Tells, Says, TypeOK, Mode,
       LastWord, Heard
  <2>5. RoomForTheTick'
    BY <1>6, <2>1 DEF EscapeTyping, EscapeDocumentEditor, Room, Tells, Says, TypeOK,
       InboxOK, RoomForTheTick
  <2>6. QED
    BY <2>2, <2>3, <2>4, <2>5
<1>7. CASE EscapeAgain
  <2>1. InboxOK'
    BY <1>7, TellsOnce DEF EscapeAgain, Lift, Room, InboxOK, TypeOK, RoomForTheTick
  <2>2. TypeOK'
    BY <1>7, <2>1 DEF EscapeAgain, Lift, Room, Tells, Says, TypeOK, InboxOK, Mode, Elements
  <2>3. Known' /\ Marked' /\ Watched'
    BY <1>7 DEF EscapeAgain, Lift, Room, Tells, Says, TypeOK
  <2>4. LastWord' /\ Heard'
    BY <1>7 DEF EscapeAgain, Lift, Room, Tells, Says, TypeOK, Mode, LastWord, Heard
  <2>5. RoomForTheTick'
    BY <1>7, <2>1 DEF EscapeAgain, Lift, Room, Tells, Says, TypeOK, InboxOK, RoomForTheTick
  <2>6. QED
    BY <2>2, <2>3, <2>4, <2>5
<1>8. ASSUME NEW kind \in KeyKinds, Writes(kind) PROVE IInv'
  <2>1. InboxOK'
    BY <1>8, EmptySeq DEF Writes, InboxOK, TypeOK
  <2>2. TypeOK'
    BY <1>8, <2>1 DEF Writes, TypeOK, InboxOK, Mode, Elements
  <2>3. Known' /\ Marked' /\ Watched'
    BY <1>8 DEF Writes, TypeOK
  <2>4. LastWord' /\ Heard'
    BY <1>8 DEF Writes, TypeOK, Mode, LastWord, Heard
  <2>5. RoomForTheTick'
    BY <1>8, <2>1 DEF Writes, TypeOK, InboxOK, RoomForTheTick
  <2>6. QED
    BY <2>2, <2>3, <2>4, <2>5
<1>9. CASE BodyReplaced
  <2>1. InboxOK'
    BY <1>9, EmptySeq DEF BodyReplaced, InboxOK, TypeOK
  <2>2. TypeOK'
    BY <1>9, <2>1 DEF BodyReplaced, TypeOK, InboxOK, Mode, Elements
  <2>3. Known' /\ Marked' /\ Watched'
    BY <1>9 DEF BodyReplaced, TypeOK
  <2>4. LastWord' /\ Heard'
    BY <1>9 DEF BodyReplaced, TypeOK, Mode, LastWord, Heard
  <2>5. RoomForTheTick'
    BY <1>9, <2>1 DEF BodyReplaced, TypeOK, InboxOK, RoomForTheTick
  <2>6. QED
    BY <2>2, <2>3, <2>4, <2>5
<1>10. CASE TurnsOff
  <2>1. InboxOK'
    BY <1>10, EmptySeq DEF TurnsOff, Lift, Sinks, InboxOK, TypeOK
  <2>2. TypeOK'
    BY <1>10, <2>1 DEF TurnsOff, Lift, Sinks, TypeOK, InboxOK, Mode, Elements
  <2>3. Known' /\ Marked' /\ Watched'
    BY <1>10 DEF TurnsOff, Lift, Sinks, TypeOK
  <2>4. LastWord' /\ Heard'
    BY <1>10 DEF TurnsOff, Lift, Sinks, TypeOK, Mode, LastWord, Heard
  <2>5. RoomForTheTick'
    BY <1>10, <2>1 DEF TurnsOff, Lift, Sinks, TypeOK, InboxOK, RoomForTheTick
  <2>6. QED
    BY <2>2, <2>3, <2>4, <2>5
<1>11. CASE TurnsOn
  <2>1. InboxOK'
    BY <1>11, TellsOnce DEF TurnsOn, Room, InboxOK, TypeOK, RoomForTheTick
  <2>2. TypeOK'
    BY <1>11, <2>1 DEF TurnsOn, Room, Tells, Says, TypeOK, InboxOK, Mode, Elements
  <2>3. Known' /\ Marked' /\ Watched'
    BY <1>11 DEF TurnsOn, Room, Tells, Says, TypeOK
  <2>4. LastWord' /\ Heard'
    BY <1>11 DEF TurnsOn, Room, Tells, Says, TypeOK, Mode, LastWord, Heard
  <2>5. RoomForTheTick'
    BY <1>11, <2>1 DEF TurnsOn, Room, Tells, Says, TypeOK, InboxOK, RoomForTheTick
  <2>6. QED
    BY <2>2, <2>3, <2>4, <2>5
<1>12. CASE Replaced
  <2>1. InboxOK'
    BY <1>12, EmptySeq DEF Replaced, Lift, Sinks, InboxOK, TypeOK
  <2>2. TypeOK'
    BY <1>12, <2>1 DEF Replaced, Lift, Sinks, TypeOK, InboxOK, Mode, Elements
  <2>3. Known' /\ Marked' /\ Watched'
    BY <1>12 DEF Replaced, Lift, Sinks, TypeOK
  <2>4. LastWord' /\ Heard'
    BY <1>12 DEF Replaced, Lift, Sinks, TypeOK, Mode, LastWord, Heard
  <2>5. RoomForTheTick'
    BY <1>12, <2>1 DEF Replaced, Lift, Sinks, TypeOK, InboxOK, RoomForTheTick
  <2>6. QED
    BY <2>2, <2>3, <2>4, <2>5
<1>13. CASE TopSwitches
  <2>1. InboxOK'
    BY <1>13, EmptySeq DEF TopSwitches, Shows, InboxOK, TypeOK
  <2>2. TypeOK'
    BY <1>13, <2>1 DEF TopSwitches, Shows, TypeOK, InboxOK, Mode, Elements
  <2>3. Known' /\ Marked' /\ Watched'
    BY <1>13 DEF TopSwitches, Shows, TypeOK
  <2>4. LastWord' /\ Heard'
    BY <1>13 DEF TopSwitches, Shows, TypeOK, Mode, LastWord, Heard
  <2>5. RoomForTheTick'
    BY <1>13, <2>1 DEF TopSwitches, Shows, TypeOK, InboxOK, RoomForTheTick
  <2>6. QED
    BY <2>2, <2>3, <2>4, <2>5
<1>14. CASE ReportArrives
  BY <1>14, ReportStep
<1>15. ASSUME NEW m \in Mode, OtherFrameReports(m) PROVE IInv'
  <2>1. InboxOK'
    BY <1>15, EmptySeq DEF OtherFrameReports, TakesReport, Shows, InboxOK, TypeOK
  <2>2. TypeOK'
    BY <1>15, <2>1 DEF OtherFrameReports, TakesReport, Shows, TypeOK, InboxOK, Mode,
       Elements
  <2>3. Known' /\ Marked' /\ Watched'
    BY <1>15 DEF OtherFrameReports, TakesReport, Shows, TypeOK
  <2>4. LastWord' /\ Heard'
    BY <1>15 DEF OtherFrameReports, TakesReport, Shows, TypeOK, Mode, LastWord, Heard
  <2>5. RoomForTheTick'
    BY <1>15, <2>1 DEF OtherFrameReports, TakesReport, Shows, TypeOK, InboxOK,
       RoomForTheTick
  <2>6. QED
    BY <2>2, <2>3, <2>4, <2>5
<1>16. CASE WorkerRestart
  <2>1. InboxOK'
    BY <1>16, EmptySeq DEF WorkerRestart, InboxOK, TypeOK
  <2>2. TypeOK'
    BY <1>16, <2>1 DEF WorkerRestart, TypeOK, InboxOK, Mode, Elements
  <2>3. Known' /\ Marked' /\ Watched'
    BY <1>16 DEF WorkerRestart, TypeOK
  <2>4. LastWord' /\ Heard'
    BY <1>16 DEF WorkerRestart, TypeOK, Mode, LastWord, Heard
  <2>5. RoomForTheTick'
    BY <1>16, <2>1 DEF WorkerRestart, TypeOK, InboxOK, RoomForTheTick
  <2>6. QED
    BY <2>2, <2>3, <2>4, <2>5
<1>17. CASE FrameReportsAnew
  <2>1. InboxOK'
    BY <1>17, EmptySeq DEF FrameReportsAnew, InboxOK, TypeOK
  <2>2. TypeOK'
    BY <1>17, <2>1 DEF FrameReportsAnew, TypeOK, InboxOK, Mode, Elements
  <2>3. Known' /\ Marked' /\ Watched'
    BY <1>17 DEF FrameReportsAnew, TypeOK
  <2>4. LastWord' /\ Heard'
    BY <1>17 DEF FrameReportsAnew, TypeOK, Mode, LastWord, Heard
  <2>5. RoomForTheTick'
    BY <1>17, <2>1 DEF FrameReportsAnew, TypeOK, InboxOK, RoomForTheTick
  <2>6. QED
    BY <2>2, <2>3, <2>4, <2>5
<1>18. CASE FocusDrops
  <2>1. InboxOK'
    BY <1>18, TellsOnce DEF FocusDrops, FocusEvents, Room, InboxOK, TypeOK, RoomForTheTick
  <2>2. TypeOK'
    BY <1>18, <2>1 DEF FocusDrops, FocusEvents, Room, Tells, Says, TypeOK, InboxOK, Mode,
       Elements
  <2>3. Known' /\ Marked' /\ Watched'
    BY <1>18 DEF FocusDrops, FocusEvents, Room, Tells, Says, TypeOK
  <2>4. LastWord' /\ Heard'
    BY <1>18 DEF FocusDrops, FocusEvents, Room, Tells, Says, TypeOK, Mode, LastWord, Heard
  <2>5. RoomForTheTick'
    BY <1>18, <2>1 DEF FocusDrops, FocusEvents, Room, Tells, Says, TypeOK, InboxOK,
       RoomForTheTick
  <2>6. QED
    BY <2>2, <2>3, <2>4, <2>5
<1>19. CASE UNCHANGED vars
  BY <1>19 DEF TypeOK, LastWord, Heard, RoomForTheTick
<1>20. QED
  BY <1>1, <1>2, <1>3, <1>4, <1>5, <1>6, <1>7, <1>8, <1>9, <1>10,
     <1>11, <1>12, <1>13, <1>14, <1>15, <1>16, <1>17, <1>18, <1>19 DEF Next

-----------------------------------------------------------------------------
(* Theorems *)

\* What the frame has said last is its mode, every mark is watched, and the
\* state has its type (pipeline.ts, content.ts: sendModeReport, onModeChange).
THEOREM KnownMode == Spec => []ModeIsKnown
<1>1. IInv => ModeIsKnown
  BY DEF IInv
<1>2. QED
  BY InitOK, NextOK, <1>1, PTL DEF Spec

\* What the user sees is the mode of the frame that has the keyboard, once its
\* reports have arrived (content.ts: mode/report, refreshModeDisplay).
THEOREM TrueDisplay == Spec => []ShownModeIsTrue
<1>1. IInv => ShownModeIsTrue
  BY DEF IInv, Heard, ShownModeIsTrue
<1>2. QED
  BY InitOK, NextOK, <1>1, PTL DEF Spec

\* Nothing is written while the frame says "helper" (pipeline.ts: keydown,
\* beforeinput, paste).
THEOREM NoSilentWriting == Spec => NothingWrittenUnseen
<1> DEFINE Seen == wrote' /\ currentEnabled =>
                     \/ told = "typing"
                     \/ ~isTopFrame /\ ((active = "sink" /\ ~escaped) \/ unnoticed)
<1>1. IInv /\ [Next]_vars => [Seen]_vars
  <2> SUFFICES ASSUME IInv, Next PROVE Seen
    BY DEF vars
  <2>1. ASSUME NEW kind \in KeyKinds, Writes(kind) PROVE Seen
    BY <2>1 DEF Writes, Reaches, IInv, ModeIsKnown, TypeOK, Elements, CurrentMode, ModeAt,
                IsTypingTarget, IsDocumentEditingRoot
  <2>2. CASE ~wrote'
    BY <2>2
  <2>3. QED
    BY <2>1, <2>2 DEF Next, FocusMoves, FocusDrops, FocusFalls, KeyboardLeaves,
       KeyboardReturns, WatchdogTick, EscapeTyping, EscapeAgain, BodyReplaced, TurnsOff,
       TurnsOn, Replaced, TopSwitches, ReportArrives, OtherFrameReports, WorkerRestart,
       FrameReportsAnew
<1>2. QED
  BY InitOK, NextOK, <1>1, PTL DEF Spec, NothingWrittenUnseen

-----------------------------------------------------------------------------
(* PressInput: the inductive invariant *)

\* The magnet and the dwelling: nothing is caught, and none runs, behind the
\* dialog or while off; what dwelling has pressed is still the one it looks at.
MagnetInv ==
    /\ {enabled, dialog} \subseteq BOOLEAN
    /\ looks \in [Items -> Looks]
    /\ {target, dwelt} \subseteq Items \cup {None}
    /\ dwell \in [active : BOOLEAN, tracked : Items \cup {None}, waited : BOOLEAN,
        fired : BOOLEAN]
    /\ dwell.active => target # None
    /\ dwell.fired => dwell.waited
    /\ ~enabled \/ dialog => target = None /\ dwell = NoDwell
    /\ dwelt # None => dwelt = target /\ dwell.tracked = target /\ dwell.fired

\* The cursor is somewhere.
CursorInv == /\ cursor \in Spots \cup {Outside} /\ lastCursorPos \in Spots \cup {Away}
             /\ magnetEvalScheduled \in BOOLEAN

\* A drag runs only while the helper does.
DragInv == /\ twoPress \in BOOLEAN /\ armed \in Items \cup {None}
           /\ ~enabled => armed = None

\* What is reserved belongs to a swallowed press of its own number, which has
\* not been executed.
ReservedInv ==
    /\ pressSwallowed \in BOOLEAN
    /\ pendingPressExecute \in [item : Items \cup {None}, danger : BOOLEAN, n : Nat]
    /\ gestures \in 0..MaxGestures /\ executed \subseteq 1..gestures
    /\ pendingPressExecute.n <= gestures
    /\ pendingPressExecute # NoPending => /\ pressSwallowed
                                          /\ pendingPressExecute.n \in (1..gestures) \ executed

\* A button that is down, left alone by the switch, has been seen by the site
\* unless its press is swallowed; so the space bar, left alone by the dialog too.
SeenInv ==
    /\ {bundle, space} \subseteq [down : BOOLEAN, seen : BOOLEAN, steady : BOOLEAN]
    /\ swallowedSpace \in BOOLEAN
    /\ bundle.down /\ bundle.steady => bundle.seen = (~enabled \/ ~pressSwallowed)
    /\ space.down /\ space.steady =>
          (~enabled \/ (~dialog /\ ~swallowedSpace) => space.seen)

PressIInv == MagnetInv /\ CursorInv /\ DragInv /\ ReservedInv /\ SeenInv

-----------------------------------------------------------------------------
(* What a step leaves alone keeps its part of the invariant. *)

\* A step that moves neither the magnet nor the dialog, the switch or the page.
LEMMA MagnetRests ==
    ASSUME MagnetInv, UNCHANGED <<enabled, dialog, looks, target, dwell, dwelt>>
    PROVE  MagnetInv'
BY DEF MagnetInv

\* A step that leaves the cursor alone.
LEMMA CursorRests ==
    ASSUME CursorInv, UNCHANGED <<mouse, magnetEvalScheduled>>
    PROVE  CursorInv'
BY DEF CursorInv, mouse

\* A step that leaves the drag and the switch alone.
LEMMA DragRests ==
    ASSUME DragInv, UNCHANGED <<enabled, twoPress, armed>>
    PROVE  DragInv'
BY DEF DragInv

\* A step that leaves presses and reservations alone.
LEMMA ReservedRests ==
    ASSUME ReservedInv, UNCHANGED <<press, gestures, executed>>
    PROVE  ReservedInv'
BY DEF ReservedInv, press

\* A step that leaves the button, the space bar and what they depend on alone.
LEMMA SeenRests ==
    ASSUME SeenInv, UNCHANGED <<enabled, dialog, pressSwallowed, bundle, keys>>
    PROVE  SeenInv'
BY DEF SeenInv, keys

\* The magnet catches an element, or lets go of the one it has (Catch).
LEMMA CatchKeeps ==
    ASSUME MagnetInv, {enabled', dialog'} \subseteq BOOLEAN, looks' \in [Items -> Looks],
           NEW id \in Items \cup {None}, id # None => enabled' /\ ~dialog', Catch(id)
    PROVE  MagnetInv'
<1>1. target' = id /\ dwelt' \in {dwelt, None} /\ (dwelt' # None => dwelt' = id)
  BY DEF Catch
<1>2. CASE id = None
  BY <1>1, <1>2, PressAssumption DEF Catch, MagnetInv, NoDwell
<1>3. CASE id # None
  <2>1. dwell' = [dwell EXCEPT !.active = TRUE]
    BY <1>3 DEF Catch
  <2>2. QED
    BY <1>1, <1>3, <2>1 DEF MagnetInv
<1> QED BY <1>2, <1>3

\* An evaluation of the magnet (evaluateMagnet).
LEMMA EvaluationKeeps ==
    ASSUME MagnetInv, UNCHANGED <<enabled, dialog>>, looks' \in [Items -> Looks],
           NEW at \in Spots \cup {Away}, evaluateMagnet(at)
    PROVE  MagnetInv'
<1>1. at.over \in Items \cup {None} /\ at.near \subseteq Items
  BY PressAssumption DEF Away
<1>2. CASE ~enabled \/ dialog
  BY <1>2 DEF evaluateMagnet, Keep, MagnetInv
<1>3. CASE ~(~enabled \/ dialog)
  <2>1. PICK id \in pickTarget(at) : Catch(id)
    BY <1>3 DEF evaluateMagnet
  <2>2. id \in Items \cup {None}
    BY <1>1, <2>1 DEF pickTarget
  <2>3. {enabled', dialog'} \subseteq BOOLEAN
    BY DEF MagnetInv
  <2> QED BY <1>3, <2>1, <2>2, <2>3, CatchKeeps
<1> QED BY <1>2, <1>3

\* The collector has looked again (Collected).
LEMMA CollectionKeeps ==
    ASSUME MagnetInv, UNCHANGED <<enabled, dialog>>, looks' \in [Items -> Looks],
           lastCursorPos' \in Spots \cup {Away}, Collected
    PROVE  MagnetInv'
<1>1. CASE target = None
  BY <1>1, EvaluationKeeps DEF Collected
<1>2. CASE target # None /\ looks'[target] = "gone"
  <2>1. Catch(None) /\ {enabled', dialog'} \subseteq BOOLEAN
    BY <1>2 DEF Collected, MagnetInv
  <2> QED BY <2>1, CatchKeeps
<1>3. CASE target # None /\ looks'[target] # "gone"
  BY <1>3 DEF Collected, Keep, MagnetInv
<1> QED BY <1>1, <1>2, <1>3

\* A press that drags leaves something draggable in the hand, or nothing.
LEMMA PressKeepsDrag ==
    ASSUME DragInv, enabled, UNCHANGED <<enabled, twoPress>>,
           NEW by, NEW i \in Items \cup {None}, NEW danger, pressOrDrag(by, i, danger)
    PROVE  DragInv'
BY DEF DragInv, pressOrDrag, dragTwoPress

\* Nothing is reserved, and its number is none.
LEMMA NoReservation ==
    /\ NoPending \in [item : Items \cup {None}, danger : BOOLEAN, n : Nat]
    /\ NoPending.n = 0 /\ MaxGestures \in Nat
    /\ \A m \in 0..MaxGestures : m \in Nat /\ NoPending.n <= m
BY PressAssumption DEF NoPending

\* What a step may have done: nothing, a press, a click of the site, a key.
LEMMA Deeds ==
    /\ Nothing.by = "nobody" /\ Nothing.click = FALSE /\ Nothing.keyup = FALSE
    /\ \A by, i, danger : pressOrDrag(by, i, danger) =>
          did'.by = by /\ did'.item = i /\ did'.click = FALSE /\ did'.keyup = FALSE
    /\ \A b : did' = [Nothing EXCEPT !.click = b] =>
          did'.by = "nobody" /\ did'.click = b /\ did'.keyup = FALSE
    /\ \A b : did' = [Nothing EXCEPT !.keyup = b] =>
          did'.by = "nobody" /\ did'.click = FALSE /\ did'.keyup = b
BY DEF Nothing, pressOrDrag

\* A click presses what is reserved, or is the site's unless swallowed.
LEMMA ClickDoes ==
    ASSUME Click
    PROVE  /\ did'.keyup = FALSE
           /\ did'.by # "nobody" =>
                  did'.by = "pointer" /\ enabled /\ pendingPressExecute # NoPending
           /\ did'.click => ~enabled \/ ~pressSwallowed
<1>1. CASE enabled /\ pendingPressExecute # NoPending
  <2>1. pressOrDrag("pointer", pendingPressExecute.item, pendingPressExecute.danger)
    BY <1>1 DEF Click
  <2> QED BY <1>1, <2>1, Deeds
<1>2. CASE ~(enabled /\ pendingPressExecute # NoPending)
  <2>1. did' = [Nothing EXCEPT !.click = ~(enabled /\ pressSwallowed)]
    BY <1>2 DEF Click
  <2>2. did'.by = "nobody" /\ did'.click = (~(enabled /\ pressSwallowed)) /\ did'.keyup = FALSE
    BY <2>1, Deeds
  <2> QED BY <2>2
<1> QED BY <1>1, <1>2

-----------------------------------------------------------------------------
(* The steps of the pointer *)

\* pointerdown: passed under the dialog, rejected by the filter or accepted
LEMMA PointerDownKeeps ==
    ASSUME PressIInv, PointerDown
    PROVE  PressIInv'
<1> USE DEF PressIInv
<1>1. /\ UNCHANGED <<enabled, dialog, twoPress, looks, mouse, magnetEvalScheduled, armed,
                     keys, executed>>
      /\ gestures \in Nat /\ gestures' = gestures + 1 /\ gestures' \in 0..MaxGestures
      /\ cursor \in Spots
      /\ bundle' = [down |-> TRUE, seen |-> ~enabled \/ dialog \/ ~pressSwallowed',
          steady |-> TRUE]
  BY PressAssumption DEF PointerDown, Gesture, ReservedInv, CursorInv, page
<1>2. CursorInv' /\ DragInv'
  BY <1>1, CursorRests, DragRests
<1>3. executed' \subseteq 1..gestures'
  BY <1>1 DEF ReservedInv
<1>4. CASE ~enabled
  <2>1. UNCHANGED <<press, target, dwell, dwelt>>
    BY <1>4 DEF PointerDown, Keep
  <2>2. MagnetInv'
    BY <1>1, <2>1, MagnetRests
  <2>3. ReservedInv'
    BY <1>1, <1>3, <2>1 DEF ReservedInv, press
  <2>4. SeenInv'
    BY <1>1, <1>4, <2>1 DEF SeenInv, press, keys
  <2> QED BY <1>2, <2>2, <2>3, <2>4
<1>5. CASE enabled /\ dialog
  <2>1. PassesDialog
    BY <1>5 DEF PointerDown
  <2>2. MagnetInv'
    BY <1>1, <2>1, MagnetRests DEF PassesDialog, Keep
  <2>3. ReservedInv'
    BY <1>1, <1>3, <2>1, NoReservation DEF ReservedInv, PassesDialog
  <2>4. SeenInv'
    BY <1>1, <1>5, <2>1 DEF SeenInv, PassesDialog, keys, MagnetInv
  <2> QED BY <1>2, <2>2, <2>3, <2>4
<1>6. CASE enabled /\ ~dialog
  <2>0. Rejected \/ Accepted
    BY <1>6 DEF PointerDown
  <2>1. CASE Rejected
    <3>1. MagnetInv'
      BY <1>1, <2>1, MagnetRests DEF Rejected, Keep
    <3>2. ReservedInv'
      BY <1>1, <1>3, <2>1, NoReservation DEF ReservedInv, Rejected
    <3>3. SeenInv'
      BY <1>1, <1>6, <2>1 DEF SeenInv, Rejected, keys
    <3> QED BY <1>2, <3>1, <3>2, <3>3
  <2>2. CASE Accepted
    <3>1. MagnetInv'
      BY <1>1, <2>2, EvaluationKeeps DEF Accepted, MagnetInv
    <3>2. target' \in Items \cup {None}
      BY <3>1 DEF MagnetInv
    <3>3. pressSwallowed' \in BOOLEAN
      BY <2>2 DEF Accepted, Passes
    <3>4. CASE Passes(target')
      <4>1. pendingPressExecute' = NoPending
        BY <2>2, <3>4 DEF Accepted
      <4> QED BY <1>1, <1>2, <1>3, <1>6, <3>1, <3>3, <4>1 DEF ReservedInv, NoPending, SeenInv,
         keys
    <3>5. CASE ~Passes(target')
      <4>1. /\ pendingPressExecute' = [item |-> target', danger |-> looks[target'] = "danger",
                                         n |-> gestures']
            /\ pressSwallowed'
        BY <1>1, <2>2, <3>5 DEF Accepted
      <4>2. gestures' \notin executed' /\ gestures' \in 1..gestures'
        BY <1>1 DEF ReservedInv
      <4>3. (looks[target'] = "danger") \in BOOLEAN
        OBVIOUS
      <4>4. ReservedInv'
        BY <1>1, <1>3, <3>2, <3>3, <4>1, <4>2, <4>3 DEF ReservedInv
      <4>5. SeenInv'
        BY <1>1, <1>6, <3>3, <4>1 DEF SeenInv, keys
      <4> QED BY <1>2, <3>1, <4>4, <4>5
    <3> QED BY <3>4, <3>5
  <2> QED BY <2>0, <2>1, <2>2
<1> QED BY <1>4, <1>5, <1>6

\* A click executes what is reserved, and ends the reservation, or nothing.
LEMMA ClickKeeps ==
    ASSUME PressIInv, Click, UNCHANGED <<enabled, twoPress, pressSwallowed>>,
           gestures' \in {gestures, gestures + 1}, gestures' \in 0..MaxGestures
    PROVE  DragInv' /\ ReservedInv'
<1> USE DEF PressIInv
<1>1. CASE enabled /\ pendingPressExecute # NoPending
  <2>1. /\ pendingPressExecute' = NoPending
        /\ executed' = executed \cup {pendingPressExecute.n}
        /\ pressOrDrag("pointer", pendingPressExecute.item, pendingPressExecute.danger)
    BY <1>1 DEF Click, ClickEndsReservation
  <2>2. DragInv'
    BY <1>1, <2>1, PressKeepsDrag DEF ReservedInv
  <2>3. gestures \in Nat /\ gestures' \in Nat /\ gestures' >= gestures /\ NoPending.n <= gestures'
    BY NoReservation DEF ReservedInv
  <2>4. executed' \subseteq 1..gestures'
    <3>1. executed \subseteq 1..gestures /\ pendingPressExecute.n \in 1..gestures
      BY <1>1 DEF ReservedInv
    <3>2. 1..gestures \subseteq 1..gestures'
      BY <2>3
    <3> QED BY <2>1, <3>1, <3>2
  <2>5. ReservedInv'
    BY <2>1, <2>3, <2>4, NoReservation DEF ReservedInv
  <2> QED BY <2>2, <2>5
<1>2. CASE ~(enabled /\ pendingPressExecute # NoPending)
  <2>1. UNCHANGED <<pendingPressExecute, armed, executed>>
    BY <1>2 DEF Click
  <2> QED BY <2>1, PressAssumption DEF DragInv, ReservedInv
<1> QED BY <1>1, <1>2

\* The button comes up, with its click or without (swallowIfPressRejected, click).
LEMMA ReleaseKeeps ==
    ASSUME PressIInv, Release
    PROVE  PressIInv'
<1> USE DEF PressIInv
<1>1. /\ UNCHANGED <<enabled, dialog, twoPress, looks, mouse, magnetEvalScheduled, target,
                     dwell, dwelt, pressSwallowed, filter, keys, gestures>>
      /\ bundle' = [down |-> FALSE, seen |-> FALSE, steady |-> TRUE]
  BY DEF Release, page, magnet, Released
<1>2. MagnetInv' /\ CursorInv'
  BY <1>1, MagnetRests, CursorRests
<1>3. SeenInv'
  BY <1>1 DEF SeenInv, keys
<1>4. DragInv' /\ ReservedInv'
  <2>1. CASE Click
    BY <1>1, <2>1, ClickKeeps DEF ReservedInv
  <2>2. CASE /\ pendingPressExecute' \in {NoPending, pendingPressExecute}
             /\ UNCHANGED <<armed, executed>>
    BY <1>1, <2>2, NoReservation DEF DragInv, ReservedInv
  <2> QED BY <2>1, <2>2 DEF Release
<1> QED BY <1>2, <1>3, <1>4

\* Another button ends what the last press had reserved (pointerdown).
LEMMA SideButtonKeeps ==
    ASSUME PressIInv, SideButton
    PROVE  PressIInv'
<1> USE DEF PressIInv
<1>1. /\ UNCHANGED <<enabled, dialog, twoPress, looks, mouse, magnetEvalScheduled, target,
                     dwell, dwelt, armed, bundle, keys, executed>>
      /\ gestures' = gestures + 1 /\ gestures' \in 0..MaxGestures /\ ~bundle.down
      /\ pressSwallowed' = FALSE /\ pendingPressExecute' = NoPending
  BY PressAssumption DEF SideButton, Gesture, page, magnet, ReservedInv
<1>2. MagnetInv' /\ CursorInv' /\ DragInv'
  BY <1>1, MagnetRests, CursorRests, DragRests
<1>3. ReservedInv'
  <2>1. gestures \in Nat /\ gestures' \in Nat /\ NoPending.n <= gestures'
    BY <1>1, NoReservation DEF ReservedInv
  <2>2. executed' \subseteq 1..gestures'
    BY <1>1, <2>1 DEF ReservedInv
  <2> QED BY <1>1, <2>1, <2>2, NoReservation DEF ReservedInv
<1>4. SeenInv'
  BY <1>1 DEF SeenInv, keys
<1> QED BY <1>2, <1>3, <1>4

\* A click without a button may still execute a reservation (click).
LEMMA KeyboardClickKeeps ==
    ASSUME PressIInv, KeyboardClick
    PROVE  PressIInv'
<1> USE DEF PressIInv
<1>1. /\ UNCHANGED <<enabled, dialog, twoPress, looks, mouse, magnetEvalScheduled, target,
                     dwell, dwelt, pressSwallowed, bundle, keys>>
      /\ gestures' = gestures + 1 /\ gestures' \in 0..MaxGestures
      /\ Click
  BY PressAssumption DEF KeyboardClick, Gesture, page, magnet, ReservedInv
<1>2. MagnetInv' /\ CursorInv' /\ SeenInv'
  BY <1>1, MagnetRests, CursorRests, SeenRests
<1>3. DragInv' /\ ReservedInv'
  BY <1>1, ClickKeeps
<1> QED BY <1>2, <1>3

-----------------------------------------------------------------------------
(* The steps of the keys, the dialog and the switch *)

\* Space is used on what is caught, passed or swallowed (keydown).
LEMMA SpaceDownKeeps ==
    ASSUME PressIInv, SpaceDown
    PROVE  PressIInv'
<1> USE DEF PressIInv
<1> DEFINE accepted == enabled /\ ~dialog /\ ~filter.spaceTooSoon
           used == accepted /\ target # None
<1>1. /\ UNCHANGED <<enabled, dialog, twoPress, looks, mouse, magnetEvalScheduled, target,
                     dwell, dwelt, pressSwallowed, pendingPressExecute, bundle, executed>>
      /\ gestures' = gestures + 1 /\ gestures' \in 0..MaxGestures
  BY PressAssumption DEF SpaceDown, Gesture, page, magnet, ReservedInv
<1>2. MagnetInv' /\ CursorInv'
  BY <1>1, MagnetRests, CursorRests
<1>3. ReservedInv'
  BY <1>1, PressAssumption DEF ReservedInv
<1>4. /\ space' = [down |-> TRUE, steady |-> TRUE, seen |-> ~enabled \/ (accepted /\ ~used)]
      /\ swallowedSpace' = IF enabled /\ ~dialog THEN used \/ ~accepted ELSE swallowedSpace
      /\ IF used THEN pressOrDrag("space", target, looks[target] = "danger")
                 ELSE did' = Nothing /\ UNCHANGED armed
  BY DEF SpaceDown
<1>5. DragInv'
  <2>1. CASE used
    BY <1>1, <1>4, <2>1, PressKeepsDrag DEF MagnetInv
  <2>2. CASE ~used
    BY <1>1, <1>4, <2>2, DragRests
  <2> QED BY <2>1, <2>2
<1>6. SeenInv'
  <2>1. {accepted, used} \subseteq BOOLEAN
    BY DEF MagnetInv
  <2>2. swallowedSpace' \in BOOLEAN /\ space'.seen \in BOOLEAN
    BY <1>4, <2>1 DEF SeenInv, MagnetInv
  <2>3. space' \in [down : BOOLEAN, seen : BOOLEAN, steady : BOOLEAN]
    BY <1>4, <2>2
  <2>4. enabled /\ ~dialog /\ ~swallowedSpace' => accepted /\ ~used
    BY <1>4, <2>1
  <2>5. ~enabled \/ (~dialog /\ ~swallowedSpace') => space'.seen
    BY <1>4, <2>4
  <2> QED BY <1>1, <2>2, <2>3, <2>5 DEF SeenInv
<1> QED BY <1>2, <1>3, <1>5, <1>6

\* Space comes up, heard or not (keyup).
LEMMA SpaceUpKeeps ==
    ASSUME PressIInv, SpaceUp
    PROVE  PressIInv'
<1> USE DEF PressIInv
<1>1. /\ UNCHANGED <<enabled, dialog, twoPress, looks, mouse, magnetEvalScheduled, target,
                     dwell, dwelt, armed, press, pressSwallowed, bundle, gestures, executed>>
      /\ space' = [down |-> FALSE, seen |-> FALSE, steady |-> TRUE]
      /\ swallowedSpace' \in BOOLEAN
  BY DEF SpaceUp, page, magnet, press, Released, SeenInv
<1>2. MagnetInv' /\ CursorInv' /\ DragInv' /\ ReservedInv'
  BY <1>1, MagnetRests, CursorRests, DragRests, ReservedRests
<1>3. SeenInv'
  BY <1>1 DEF SeenInv
<1> QED BY <1>2, <1>3

\* A key that is down when the dialog or the switch changes is not steady.
LEMMA UnsteadyForm ==
    ASSUME NEW key \in [down : BOOLEAN, seen : BOOLEAN, steady : BOOLEAN]
    PROVE  /\ Unsteady(key) \in [down : BOOLEAN, seen : BOOLEAN, steady : BOOLEAN]
           /\ ~(Unsteady(key).down /\ Unsteady(key).steady)
BY DEF Unsteady

\* The dialog opens and the magnet lets go (openDangerConfirm).
LEMMA DialogOpensKeeps ==
    ASSUME PressIInv, DialogOpens
    PROVE  PressIInv'
<1> USE DEF PressIInv
<1>1. /\ UNCHANGED <<enabled, twoPress, looks, mouse, magnetEvalScheduled, armed, press,
                     pressSwallowed, bundle, swallowedSpace, gestures, executed>>
      /\ dialog' = TRUE /\ Catch(None) /\ space' = Unsteady(space)
  BY DEF DialogOpens, press
<1>2. MagnetInv'
  BY <1>1, CatchKeeps DEF MagnetInv
<1>3. CursorInv' /\ DragInv' /\ ReservedInv'
  BY <1>1, CursorRests, DragRests, ReservedRests
<1>4. SeenInv'
  BY <1>1, UnsteadyForm DEF SeenInv
<1> QED BY <1>2, <1>3, <1>4

\* The dialog closes; nothing was caught behind it (finish).
LEMMA DialogClosesKeeps ==
    ASSUME PressIInv, DialogCloses
    PROVE  PressIInv'
<1> USE DEF PressIInv
<1>1. /\ UNCHANGED <<enabled, twoPress, looks, mouse, magnetEvalScheduled, target, dwell,
                     dwelt, armed, press, pressSwallowed, bundle, swallowedSpace, gestures,
                     executed>>
      /\ dialog' = FALSE /\ space' = Unsteady(space)
  BY DEF DialogCloses, press, magnet
<1>2. MagnetInv'
  BY <1>1 DEF MagnetInv
<1>3. CursorInv' /\ DragInv' /\ ReservedInv'
  BY <1>1, CursorRests, DragRests, ReservedRests
<1>4. SeenInv'
  BY <1>1, UnsteadyForm DEF SeenInv
<1> QED BY <1>2, <1>3, <1>4

\* The switch ends the catch, the drag and the dialog (applyEnabled).
LEMMA SwitchOffKeeps ==
    ASSUME PressIInv, SwitchOff
    PROVE  PressIInv'
<1> USE DEF PressIInv
<1>1. /\ UNCHANGED <<twoPress, looks, mouse, magnetEvalScheduled, press, pressSwallowed,
                     swallowedSpace, gestures, executed>>
      /\ enabled' = FALSE /\ dialog' = FALSE /\ Catch(None) /\ armed' = None
      /\ bundle' = Unsteady(bundle) /\ space' = Unsteady(space)
  BY DEF SwitchOff, OffEndsDrag, press
<1>2. MagnetInv'
  BY <1>1, CatchKeeps DEF MagnetInv
<1>3. CursorInv' /\ DragInv' /\ ReservedInv'
  BY <1>1, CursorRests, ReservedRests DEF DragInv
<1>4. SeenInv'
  BY <1>1, UnsteadyForm DEF SeenInv
<1> QED BY <1>2, <1>3, <1>4

\* The switch finds nothing caught and nothing in the hand (applyEnabled).
LEMMA SwitchOnKeeps ==
    ASSUME PressIInv, SwitchOn
    PROVE  PressIInv'
<1> USE DEF PressIInv
<1>1. /\ UNCHANGED <<dialog, twoPress, looks, mouse, magnetEvalScheduled, target, dwell,
                     dwelt, armed, press, pressSwallowed, swallowedSpace, gestures, executed>>
      /\ enabled' = TRUE /\ bundle' = Unsteady(bundle) /\ space' = Unsteady(space)
  BY DEF SwitchOn, press, magnet
<1>2. MagnetInv'
  BY <1>1 DEF MagnetInv
<1>3. CursorInv' /\ DragInv' /\ ReservedInv'
  BY <1>1, CursorRests, ReservedRests DEF DragInv
<1>4. SeenInv'
  BY <1>1, UnsteadyForm DEF SeenInv
<1> QED BY <1>2, <1>3, <1>4

-----------------------------------------------------------------------------
(* The steps of the magnet and of dwelling *)

\* The timer fires for what it looked at, and has not fired yet.
LEMMA DwellTickKeeps ==
    ASSUME PressIInv, DwellTick
    PROVE  PressIInv'
<1> USE DEF PressIInv
<1> DEFINE d == DwellTimer(dwell)
           fire == looks[target] # "danger" /\ d.waited /\ ~d.fired
<1>1. /\ UNCHANGED <<enabled, dialog, twoPress, looks, mouse, magnetEvalScheduled, target,
                     press, pressSwallowed, bundle, keys, gestures, executed>>
      /\ dwell.active
      /\ dwell' = [d EXCEPT !.fired = d.fired \/ fire]
      /\ IF fire THEN pressOrDrag("dwell", target, FALSE) /\ dwelt' = target
                 ELSE did' = Nothing /\ UNCHANGED <<armed, dwelt>>
  BY DEF DwellTick, page, press
<1>2. enabled /\ ~dialog /\ target \in Items /\ target # None
  BY <1>1, PressAssumption DEF MagnetInv, NoDwell
<1>3. /\ d \in [active : BOOLEAN, tracked : Items \cup {None}, waited : BOOLEAN, fired : BOOLEAN]
      /\ d.active /\ d.tracked = target /\ (d.fired => d.waited)
      /\ dwelt # None => d = dwell
  BY <1>1, <1>2 DEF DwellTimer, MagnetInv
<1>4. fire \in BOOLEAN /\ (fire => d.waited)
  BY <1>3
<1>5. MagnetInv'
  <2>1. dwell' \in [active : BOOLEAN, tracked : Items \cup {None}, waited : BOOLEAN,
      fired : BOOLEAN]
    BY <1>1, <1>3, <1>4
  <2>2. dwell'.active /\ dwell'.tracked = target /\ (dwell'.fired => dwell'.waited)
    BY <1>1, <1>3, <1>4
  <2>3. CASE fire
    <3>1. dwelt' = target /\ dwell'.fired
      BY <1>1, <1>3, <1>4, <2>3
    <3> QED BY <1>1, <1>2, <2>1, <2>2, <3>1 DEF MagnetInv
  <2>4. CASE ~fire
    <3>1. dwelt' = dwelt /\ dwell'.fired = d.fired
      BY <1>1, <1>3, <1>4, <2>4
    <3> QED BY <1>1, <1>2, <1>3, <2>1, <2>2, <3>1 DEF MagnetInv
  <2> QED BY <2>3, <2>4
<1>6. DragInv'
  <2>1. CASE fire
    BY <1>1, <1>2, <2>1, PressKeepsDrag
  <2>2. CASE ~fire
    BY <1>1, <2>2, DragRests
  <2> QED BY <2>1, <2>2
<1>7. CursorInv' /\ ReservedInv' /\ SeenInv'
  BY <1>1, CursorRests, ReservedRests, SeenRests
<1> QED BY <1>5, <1>6, <1>7

\* The cursor moves, the page changes or moves under it, time passes.
LEMMA SurroundingsKeep ==
    ASSUME PressIInv,
           \/ \E spot \in Spots \cup {Outside} : PointerMoves(spot)
           \/ \E spot \in Spots : PageScrolls(spot)
           \/ \E i \in Items, look \in Looks : PageChanges(i, look)
           \/ MagnetEvaluates \/ DwellTimePasses \/ IntervalPasses
           \/ SpaceRepeats \/ EscapeCancelsDrag
    PROVE  PressIInv'
<1> USE DEF PressIInv
<1>1. ASSUME NEW spot \in Spots \cup {Outside}, PointerMoves(spot) PROVE PressIInv'
  <2>1. MagnetInv' /\ DragInv' /\ ReservedInv' /\ SeenInv'
    BY <1>1, MagnetRests, DragRests, ReservedRests, SeenRests DEF PointerMoves, page, press
  <2>2. CursorInv'
    BY <1>1 DEF PointerMoves, CursorInv
  <2> QED BY <2>1, <2>2
<1>2. ASSUME NEW spot \in Spots, PageScrolls(spot) PROVE PressIInv'
  <2>1. DragInv' /\ ReservedInv' /\ SeenInv'
    BY <1>2, DragRests, ReservedRests, SeenRests DEF PageScrolls, page, press
  <2>2. CursorInv'
    BY <1>2 DEF PageScrolls, CursorInv
  <2>3. MagnetInv'
    BY <1>2, CollectionKeeps DEF PageScrolls, page, MagnetInv
  <2> QED BY <2>1, <2>2, <2>3
<1>3. ASSUME NEW i \in Items, NEW look \in Looks, PageChanges(i, look) PROVE PressIInv'
  <2>1. CursorInv' /\ DragInv' /\ ReservedInv' /\ SeenInv'
    BY <1>3, CursorRests, DragRests, ReservedRests, SeenRests DEF PageChanges, press
  <2>2. looks' \in [Items -> Looks]
    BY <1>3 DEF PageChanges, MagnetInv
  <2>3. MagnetInv'
    BY <1>3, <2>2, CollectionKeeps DEF PageChanges, mouse, CursorInv
  <2> QED BY <2>1, <2>3
<1>4. CASE MagnetEvaluates
  <2>1. DragInv' /\ ReservedInv' /\ SeenInv'
    BY <1>4, DragRests, ReservedRests, SeenRests DEF MagnetEvaluates, page, press
  <2>2. CursorInv'
    BY <1>4 DEF MagnetEvaluates, CursorInv, mouse
  <2>3. MagnetInv'
    BY <1>4, EvaluationKeeps DEF MagnetEvaluates, page, MagnetInv, CursorInv
  <2> QED BY <2>1, <2>2, <2>3
<1>5. CASE DwellTimePasses
  <2>1. CursorInv' /\ DragInv' /\ ReservedInv' /\ SeenInv'
    BY <1>5, CursorRests, DragRests, ReservedRests, SeenRests DEF DwellTimePasses, page, press
  <2>2. MagnetInv'
    <3>1. /\ UNCHANGED <<enabled, dialog, looks, target, dwelt>> /\ dwell # NoDwell
          /\ dwell' = [dwell EXCEPT !.waited = TRUE]
      BY <1>5 DEF DwellTimePasses, page, NoDwell
    <3> QED BY <3>1 DEF MagnetInv
  <2> QED BY <2>1, <2>2
<1>6. CASE IntervalPasses
  <2>1. MagnetInv' /\ CursorInv' /\ DragInv' /\ SeenInv'
    BY <1>6, MagnetRests, CursorRests, DragRests, SeenRests DEF IntervalPasses, page, magnet
  <2>2. ReservedInv'
    BY <1>6 DEF IntervalPasses, ReservedInv
  <2> QED BY <2>1, <2>2
<1>7. CASE SpaceRepeats
  <2>1. MagnetInv' /\ CursorInv' /\ DragInv' /\ ReservedInv'
    BY <1>7, MagnetRests, CursorRests, DragRests, ReservedRests DEF SpaceRepeats, page, magnet
  <2>2. SeenInv'
    BY <1>7 DEF SpaceRepeats, SeenInv, page, press
  <2> QED BY <2>1, <2>2
<1>8. CASE EscapeCancelsDrag
  <2>1. MagnetInv' /\ CursorInv' /\ ReservedInv' /\ SeenInv'
    BY <1>8, MagnetRests, CursorRests, ReservedRests, SeenRests DEF EscapeCancelsDrag, page,
       magnet, press
  <2>2. DragInv'
    BY <1>8 DEF EscapeCancelsDrag, DragInv, page
  <2> QED BY <2>1, <2>2
<1> QED BY <1>1, <1>2, <1>3, <1>4, <1>5, <1>6, <1>7, <1>8

-----------------------------------------------------------------------------
(* The invariant *)

\* The initial states satisfy the invariant.
LEMMA PressStart == PressInit => PressIInv
<1> SUFFICES ASSUME PressInit PROVE PressIInv
  OBVIOUS
<1> USE PressAssumption DEF PressInit
<1>1. MagnetInv
  BY DEF MagnetInv, NoDwell, Looks
<1>2. CursorInv /\ DragInv
  BY DEF CursorInv, DragInv
<1>3. ReservedInv
  <2>1. gestures \in 0..MaxGestures /\ executed \subseteq 1..gestures
    OBVIOUS
  <2> QED BY <2>1, NoReservation DEF ReservedInv
<1>4. SeenInv
  <2>1. Released \in [down : BOOLEAN, seen : BOOLEAN, steady : BOOLEAN] /\ ~Released.down
    BY DEF Released
  <2> QED BY <2>1 DEF SeenInv
<1> QED BY <1>1, <1>2, <1>3, <1>4 DEF PressIInv

\* Every step keeps the invariant.
LEMMA PressSteps == PressIInv /\ [PressNext]_pressVars => PressIInv'
<1> SUFFICES ASSUME PressIInv, [PressNext]_pressVars PROVE PressIInv'
  OBVIOUS
<1>1. CASE UNCHANGED pressVars
  BY <1>1, MagnetRests, CursorRests, DragRests, ReservedRests, SeenRests
     DEF PressIInv, pressVars, page, magnet, press
<1>2. CASE PressNext
  BY <1>2, SurroundingsKeep, DwellTickKeeps, PointerDownKeeps, ReleaseKeeps, SideButtonKeeps,
     KeyboardClickKeeps, SpaceDownKeeps, SpaceUpKeeps, DialogOpensKeeps, DialogClosesKeeps,
     SwitchOffKeeps, SwitchOnKeeps DEF PressNext
<1> QED BY <1>1, <1>2

\* The invariant of the presses holds throughout.
LEMMA PressInvariance == PressSpec => []PressIInv
BY PressStart, PressSteps, PTL DEF PressSpec

-----------------------------------------------------------------------------
(* Theorems *)

\* Nothing is caught and no dwelling runs behind the dialog or while the helper
\* is off, and no drag survives the off switch.
\* (content.ts:526-535, 644-662, 944-949)
THEOREM Asleep == PressSpec => []AsleepWhenCovered
<1>1. PressIInv => AsleepWhenCovered
  <2> SUFFICES ASSUME PressIInv PROVE AsleepWhenCovered
    OBVIOUS
  <2>1. pendingPressExecute \in [item : Items \cup {None}, danger : BOOLEAN, n : 0..MaxGestures]
    BY PressAssumption DEF PressIInv, ReservedInv
  <2>2. executed \subseteq 1..MaxGestures
    BY PressAssumption DEF PressIInv, ReservedInv
  <2>3. PressTypeOK
    BY <2>1, <2>2 DEF PressIInv, PressTypeOK, MagnetInv, CursorInv, DragInv, ReservedInv
  <2> QED BY <2>3 DEF PressIInv, AsleepWhenCovered, MagnetInv, DragInv
<1> QED BY <1>1, PressInvariance, PTL

\* A press of the pointer passes whole or is swallowed whole while the switch is
\* left alone; and no keyup of Space passes without its keydown while neither the
\* dialog nor the switch changes.  (pipeline.ts:272-279, 308-320, 383-502)
THEOREM Whole == PressSpec => WholeOrNothing
<1> DEFINE Passing ==
        /\ bundle.down /\ ~bundle'.down /\ bundle.steady
               => (did'.click => bundle.seen) /\ (did'.by # "nobody" => ~bundle.seen)
        /\ did'.keyup /\ space.steady => space.seen
<1>1. PressIInv /\ [PressNext]_pressVars => [Passing]_pressVars
  <2> SUFFICES ASSUME PressIInv, PressNext PROVE Passing
    BY DEF pressVars
  <2> USE DEF PressIInv
  <2>1. CASE Release
    <3>1. bundle.down /\ bundle.steady => bundle.seen = (~enabled \/ ~pressSwallowed)
      BY DEF SeenInv
    <3>2. did'.keyup = FALSE /\ (did'.click => ~enabled \/ ~pressSwallowed)
      BY <2>1, ClickDoes, Deeds DEF Release
    <3>4. did'.by # "nobody" => enabled /\ pendingPressExecute # NoPending
      BY <2>1, ClickDoes, Deeds DEF Release
    <3>5. did'.by # "nobody" => enabled /\ pressSwallowed
      BY <3>4 DEF ReservedInv
    <3> QED BY <3>1, <3>2, <3>5 DEF SeenInv, MagnetInv, ReservedInv
  <2>2. CASE SpaceUp
    <3>1. bundle' = bundle
      BY <2>2 DEF SpaceUp
    <3>2. did'.keyup => space.down /\ (~enabled \/ (~dialog /\ ~swallowedSpace))
      <4>1. CASE did' = Nothing
        BY <4>1, Deeds
      <4>2. CASE did' = [Nothing EXCEPT !.keyup = ~UpSwallowed]
        <5>1. did'.keyup = ~UpSwallowed
          BY <4>2, Deeds
        <5> QED BY <2>2, <5>1 DEF SpaceUp, UpSwallowed
      <4> QED BY <2>2, <4>1, <4>2 DEF SpaceUp
    <3> QED BY <3>1, <3>2 DEF SeenInv
  <2>3. CASE ~Release /\ ~SpaceUp
    <3>1. bundle.down => bundle'.down
      BY <2>3 DEF PressNext, PointerMoves, PageScrolls, PageChanges, MagnetEvaluates, DwellTick,
            DwellTimePasses, IntervalPasses, PointerDown, SideButton, KeyboardClick, SpaceDown,
            SpaceRepeats, EscapeCancelsDrag, DialogOpens, DialogCloses, SwitchOff, SwitchOn,
            Unsteady, SeenInv
    <3>2. did'.keyup = FALSE
      BY <2>3, ClickDoes, Deeds DEF PressNext, PointerMoves, PageScrolls, PageChanges,
         MagnetEvaluates, DwellTick,
            DwellTimePasses, IntervalPasses, PointerDown, SideButton, KeyboardClick, SpaceDown,
            SpaceRepeats, EscapeCancelsDrag, DialogOpens, DialogCloses, SwitchOff, SwitchOn
    <3> QED BY <3>1, <3>2
  <2> QED BY <2>1, <2>2, <2>3
<1> QED BY <1>1, PressInvariance, PTL DEF PressSpec, WholeOrNothing

\* What pointerdown has reserved is executed at most once, and dwelling presses
\* an element once, until the magnet has let it go.
\* (pipeline.ts:431-434, 478-502, dwell-timer.ts:1-4, content.ts:319-330)
THEOREM Once == PressSpec => PressedOnce
<1> DEFINE Single == /\ did'.by = "pointer" => pendingPressExecute.n \notin executed
                     /\ did'.by = "dwell" => did'.item # dwelt
<1>1. PressIInv /\ [PressNext]_pressVars => [Single]_pressVars
  <2> SUFFICES ASSUME PressIInv, PressNext PROVE Single
    BY DEF pressVars
  <2> USE DEF PressIInv
  <2>1. CASE DwellTick
    <3> DEFINE d == DwellTimer(dwell)
               fire == looks[target] # "danger" /\ d.waited /\ ~d.fired
    <3>1. /\ dwell.active
          /\ IF fire THEN pressOrDrag("dwell", target, FALSE) /\ dwelt' = target
                     ELSE did' = Nothing /\ UNCHANGED <<armed, dwelt>>
      BY <2>1 DEF DwellTick
    <3>2. target # None
      BY <3>1 DEF MagnetInv
    <3>3. CASE fire
      <4>1. did' = [by |-> "dwell", item |-> target, click |-> FALSE, keyup |-> FALSE]
        BY <3>1, <3>3 DEF pressOrDrag, Nothing
      <4>2. dwelt = None
        BY <3>3 DEF DwellTimer, MagnetInv
      <4> QED BY <3>2, <4>1, <4>2
    <3>4. CASE ~fire
      BY <3>1, <3>4, Deeds
    <3> QED BY <3>3, <3>4
  <2>2. CASE Click
    BY <2>2, ClickDoes DEF ReservedInv
  <2>3. CASE ~DwellTick /\ ~Click
    <3>1. did'.by \notin {"pointer", "dwell"}
      BY <2>3, Deeds DEF PressNext, PointerMoves, PageScrolls, PageChanges, MagnetEvaluates,
            DwellTimePasses, IntervalPasses, PointerDown, Release, SideButton, KeyboardClick,
            SpaceDown, SpaceUp, SpaceRepeats, EscapeCancelsDrag, DialogOpens, DialogCloses,
            SwitchOff, SwitchOn
    <3> QED BY <3>1
  <2> QED BY <2>1, <2>2, <2>3
<1> QED BY <1>1, PressInvariance, PTL DEF PressSpec, PressedOnce

=============================================================================
