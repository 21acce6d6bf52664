--------------------------- MODULE SwitchExecution ---------------------------
(***************************************************************************)
(* How a selection becomes a click: the controller of the top document     *)
(* (switch-controller.ts), the worker's relay (switch-relay.ts) and the    *)
(* controllers of the child frames.  The request passes the worker, which  *)
(* checks the frame's report and asks the top document for permission.  A  *)
(* child accepts it once, one at a time, and asks again through the worker *)
(* before it acts; the top document acts on its own targets at once.       *)
(* Meanwhile the user may pause (Space during execution), a child may load *)
(* another document, the worker may die, every wait may run into its three *)
(* seconds.  A reload of the page is confirmed in a dialog and must not    *)
(* overtake unfinished work.                                               *)
(*                                                                         *)
(* Abstractions.  The dwell and protection times and the levels of the     *)
(* menu above "press" and "reload" are left out: any item of the menu may  *)
(* be the one offered, and the list a target was taken from may be as old  *)
(* as any document of its frame.  A press of Space is one step (its two    *)
(* halves are the matter of SwitchHandoff).  What is visible changes at    *)
(* will: a switch/frame-check may always fail, and a look that succeeds is *)
(* one step with the one that follows it.  A refusal is one step with its  *)
(* way back.  Counters that are only compared with a captured value are    *)
(* flags of the call that captured it.  Messages are not ordered, but for  *)
(* a request, which stays behind the cancellations sent before it.  Frames *)
(* stay where they are in the page.  A reload ends the top document, and   *)
(* with it the behaviour.                                                  *)
(***************************************************************************)
EXTENDS SwitchEngine, FiniteSets

CONSTANTS Children,     \* the child frames
          MaxCalls,     \* bound on requests of the top document
          MaxGen,       \* bound on the top document's mode generation
          MaxSeq,       \* bound on its selections
          MaxDocs,      \* bound on documents of a child frame
          MaxRestarts   \* bound on worker restarts

ASSUME ChildrenAssumption == "top" \notin Children
\* The first menu opens generation 1.
ASSUME BoundsAssumption == {MaxCalls, MaxGen, MaxSeq, MaxDocs, MaxRestarts} \subseteq Nat /\ MaxGen > 0

VARIABLES top,           \* the top controller's engine
          confirmation,  \* the reload dialog is open (navigationConfirmation)
          unresolved,    \* some result is unknown (unresolvedWork)
          inFlight,      \* the calls the top document waits for
          calls,         \* every request made, where it is and what it was told
          child,         \* each child frame: its document, and the call its gate holds
          report,        \* the relay's record of each frame's document
          reporting,     \* switch/report messages on their way to the worker
          cancels,       \* cancel-peers messages on their way to the worker
          childPauses,   \* switch/pause messages on their way to each child
          topPauses,     \* switch/pause messages on their way to the top document
          lost,          \* the frames that have not yet noticed the worker's death
          restarts,
          ran            \* history: the calls carried out, in order

controller == <<top, confirmation, unresolved, inFlight>>
channels == <<reporting, cancels, childPauses, topPauses>>
vars == <<controller, calls, child, report, channels, lost, restarts, ran>>

Calls == 1..MaxCalls
NoDocument == MaxDocs + 1
Frames == Children \cup {"top"}
\* The top document stays; those of a child are counted.
DocumentOf(f) == IF f = "top" THEN 0 ELSE child[f].doc

command(id) == [id |-> id, enabled |-> TRUE]
Root == <<command("press"), command("reload")>>
Dialog == <<command("cancel"), command("confirm")>>

Unused == [kind |-> "none", gen |-> 0, seq |-> 0, frame |-> "top", doc |-> 0,
           stage |-> "unused", ahead |-> 0, report |-> 0, valid |-> TRUE, local |-> TRUE,
           reply |-> "none", told |-> "none"]

Init == /\ top = SetItems(CreateSwitchState, Root, "groupScan")
        /\ confirmation = FALSE /\ unresolved = FALSE /\ inFlight = {}
        /\ calls = [c \in Calls |-> Unused]
        /\ child = [f \in Children |-> [doc |-> 0, pending |-> 0]]
        /\ report = [f \in Frames |-> 0]
        /\ reporting = {} /\ cancels = 0 /\ childPauses = [f \in Children |-> 0] /\ topPauses = 0
        /\ lost = {} /\ restarts = 0
        /\ ran = <<>>

-----------------------------------------------------------------------------
(* The top controller: pausing *)

\* A pause in a confirmation, or in what it started, returns to the root first.
Paused(t) == IF "confirming" \in {t.mode, t.resume} THEN Pause(SetItems(t, Root, "groupScan")) ELSE Pause(t)
Invalidated(t) == Paused(SetItems(t, Root, "groupScan"))

\* pause: cancel-peers leaves for the worker with every pause.
PauseTo(t) == /\ top' = t
              /\ confirmation' = FALSE
              /\ cancels' = cancels + 1
              /\ UNCHANGED <<unresolved, inFlight>>

\* Space while an action runs, a hidden or unfocused window, pagehide; a change
\* of the frames of the page invalidates.
PauseByUser ==
    /\ \E t \in {Paused(top), Invalidated(top)} : PauseTo(t)
    /\ UNCHANGED <<calls, child, report, reporting, childPauses, topPauses, lost, restarts, ran>>

\* switch/pause from the worker: the page has changed.
TopHearsPause ==
    /\ topPauses > 0
    /\ topPauses' = topPauses - 1
    /\ PauseTo(Invalidated(top))
    /\ UNCHANGED <<calls, child, report, reporting, childPauses, lost, restarts, ran>>

Wake == /\ top.mode \in Waking
        /\ top' = [KeyUp(KeyDown(top)) EXCEPT !.settled = TRUE]
        /\ UNCHANGED <<confirmation, unresolved, inFlight, calls, child, report, channels, lost, restarts, ran>>

\* Two silent rounds; out of the dialog they lead like a pause.
SilentRounds ==
    /\ top.mode \in Scanning
    /\ IF top.mode = "confirming"
       THEN PauseTo(Paused(SetItems(Pause(top), Root, "groupScan")))
       ELSE top' = Pause(top) /\ UNCHANGED <<confirmation, unresolved, inFlight, cancels>>
    /\ UNCHANGED <<calls, child, report, reporting, childPauses, topPauses, lost, restarts, ran>>

-----------------------------------------------------------------------------
(* The top controller: selecting *)

\* The press and release of Space while the item k of the menu is offered
Offering(k) == [top EXCEPT !.scan = k - 1]
Chosen(k) == [KeyUp(KeyDown(Offering(k))) EXCEPT !.scan = 0, !.settled = TRUE]
Offers(items, k) == top.items = items /\ top.mode \in Scanning /\ k \in 1..Len(items)

Fresh(c) == calls[c].stage = "unused" /\ \A d \in Calls : d < c => calls[d].stage # "unused"
Call(c, kind, f, doc) ==
    /\ calls' = [calls EXCEPT ![c] = [Unused EXCEPT !.kind = kind, !.gen = top'.gen, !.seq = top'.seq,
                                                    !.frame = f, !.doc = doc,
                                                    !.stage = "request", !.ahead = cancels]]
    /\ inFlight' = inFlight \cup {c}
Others == UNCHANGED <<child, report, channels, lost, restarts, ran>>

\* chooseTarget, a target that needs no confirmation
SelectPress(c, f, doc) ==
    /\ Offers(Root, 1) /\ Fresh(c) /\ doc <= DocumentOf(f)
    /\ top' = Chosen(1)
    /\ Call(c, "press", f, doc)
    /\ Others /\ UNCHANGED <<confirmation, unresolved>>

navigationBlocked == inFlight # {} \/ unresolved

SelectReload ==
    /\ Offers(Root, 2)
    /\ IF navigationBlocked
       THEN /\ top' = ActionResult(Chosen(2), top.gen, top.seq + 1, "refused")
            /\ UNCHANGED confirmation
       ELSE /\ top' = SetItems(Chosen(2), Dialog, "confirming")
            /\ confirmation' = TRUE
    /\ Others /\ UNCHANGED <<unresolved, inFlight, calls>>

SelectCancel ==
    /\ Offers(Dialog, 1)
    /\ top' = SetItems(Chosen(1), Root, "groupScan")
    /\ confirmation' = FALSE
    /\ Others /\ UNCHANGED <<unresolved, inFlight, calls>>

SelectConfirm(c) ==
    /\ Offers(Dialog, 2) /\ Fresh(c)
    /\ IF ~confirmation \/ navigationBlocked
       THEN /\ top' = ActionResult(Chosen(2), top.gen, top.seq + 1, "refused")
            /\ UNCHANGED <<calls, inFlight>>
       ELSE top' = Chosen(2) /\ Call(c, "reload", "top", 0)
    /\ Others /\ UNCHANGED <<confirmation, unresolved>>

-----------------------------------------------------------------------------
(* The top controller: results *)

\* Forgetting what becomes unknown after a pause
LearnForgetfully(c, result, thrown) ==
    LET current == top.gen = calls[c].gen
    IN /\ c \in inFlight
       /\ inFlight' = inFlight \ {c}
       /\ calls' = [calls EXCEPT ![c].told = result, ![c].reply = "none"]
       /\ unresolved' = (unresolved \/ (current /\ result = "unknown"))
       /\ cancels' = IF current /\ result = "unknown" THEN cancels + 1 ELSE cancels
       /\ confirmation' = (confirmation /\ (current /\ calls[c].kind = "reload" => thrown))
       /\ top' = IF ~current THEN top
                 ELSE IF calls[c].kind = "reload" /\ result = "refused"
                      THEN SetItems(top, Root, "groupScan")
                 ELSE ActionResult(top, calls[c].gen, calls[c].seq, result)
       /\ UNCHANGED <<child, report, reporting, childPauses, topPauses, lost, restarts, ran>>

\* The answer to a call, or the end of the wait for it (which is thrown, and
\* so leaves the dialog as it is).  A result that comes after a pause changes
\* nothing but what is known to be unresolved.
Learn(c, result, thrown) ==
    LET current == top.gen = calls[c].gen
    IN /\ c \in inFlight
       /\ inFlight' = inFlight \ {c}
       /\ calls' = [calls EXCEPT ![c].told = result, ![c].reply = "none"]
       /\ unresolved' = (unresolved \/ result = "unknown")
       /\ cancels' = IF current /\ result = "unknown" THEN cancels + 1 ELSE cancels
       /\ confirmation' = (confirmation /\ (current /\ calls[c].kind = "reload" => thrown))
       /\ top' = IF ~current THEN top
                 ELSE IF calls[c].kind = "reload" /\ result = "refused"
                      THEN SetItems(top, Root, "groupScan")
                 ELSE ActionResult(top, calls[c].gen, calls[c].seq, result)
       /\ UNCHANGED <<child, report, reporting, childPauses, topPauses, lost, restarts, ran>>

ReceiveReply(c) == calls[c].reply \notin {"none", "lost"} /\ Learn(c, calls[c].reply, FALSE)
TimeoutRefuses(c) == Learn(c, "refused", TRUE)
ReplyTimeout(c) == Learn(c, "unknown", TRUE)
ReplyLost(c) == calls[c].reply = "lost" /\ ReplyTimeout(c)

\* switch/action-check
Awaits(c) == /\ top.pending # NoAction
             /\ top.pending.gen = calls[c].gen /\ top.pending.seq = calls[c].seq
Permits(c) ==
    /\ top.mode = "executing" /\ top.gen = calls[c].gen /\ Awaits(c)
    /\ calls[c].kind = "reload" => /\ confirmation /\ ~unresolved
                                   /\ Cardinality(inFlight) = 1

-----------------------------------------------------------------------------
(* The relay: switch/execute and switch/action-check of a child *)

Moved(c, stage) == calls' = [calls EXCEPT ![c].stage = stage]
At(c, kind, stage) == calls[c].kind = kind /\ calls[c].stage = stage
\* The work on a call ends; an answer nobody waits for leaves no trace.
Ended(c, result) == [calls[c] EXCEPT !.stage = "ended", !.valid = TRUE, !.local = TRUE, !.report = 0,
                                     !.reply = IF @ = "none" /\ c \in inFlight THEN result ELSE @]
Answer(c, result) == calls' = [calls EXCEPT ![c] = Ended(c, result)]
Freed(c) == [child EXCEPT ![calls[c].frame].pending = IF @ = c THEN 0 ELSE @]
Unmoved == UNCHANGED <<controller, report, channels, lost, restarts>>

\* The call captures the report and the count of cancellations.
topReported == report["top"] # NoDocument
Captured(c, stage) == calls' = [calls EXCEPT ![c].stage = stage, ![c].valid = TRUE,
                                             ![c].report = report[calls[c].frame]]
Current(c) == calls[c].valid /\ topReported /\ report[calls[c].frame] = calls[c].report

\* switch/execute: the report of the target's document, all of it visible
ExecuteArrives(c) ==
    /\ At(c, "press", "request") /\ calls[c].ahead = 0
    /\ \/ report[calls[c].frame] = calls[c].doc /\ topReported /\ Moved(c, "authorize")
       \/ Answer(c, "refused")
    /\ Unmoved /\ UNCHANGED <<child, ran>>

ExecuteAuthorized(c) ==
    /\ At(c, "press", "authorize")
    /\ IF Permits(c) THEN Moved(c, "deliver") ELSE Answer(c, "refused")
    /\ Unmoved /\ UNCHANGED <<child, ran>>

\* switch/action-check of a child, up to the question to the top document
CheckArrives(c) ==
    /\ At(c, "press", "ask")
    /\ report[calls[c].frame] # NoDocument /\ topReported
    /\ Captured(c, "approve")
    /\ Unmoved /\ UNCHANGED <<child, ran>>

TopApproves(c) ==
    /\ At(c, "press", "approve")
    /\ IF Permits(c) THEN Moved(c, "recheck") /\ UNCHANGED child
                     ELSE Answer(c, "refused") /\ child' = Freed(c)
    /\ Unmoved /\ UNCHANGED ran

\* While the top document answered, a cancellation or another document of the
\* frame may have come.  (That the cancellation is looked at before and after
\* the last frame-check is one look here: it is never taken back.)
Recheck(c) ==
    /\ At(c, "press", "recheck")
    /\ Current(c) /\ Moved(c, "approved")
    /\ Unmoved /\ UNCHANGED <<child, ran>>

-----------------------------------------------------------------------------
(* A target of the top document: switch/execute, carried out at once *)

\* Acting on the question alone that the relay asked before
ActsUnasked(c) ==
    /\ At(c, "press", "deliver") /\ calls[c].frame = "top"
    /\ ran' = Append(ran, c) /\ Answer(c, "done")
    /\ Unmoved /\ UNCHANGED child
\* The message may find the top document paused, or waiting for another action.
ActsInTop(c) ==
    /\ At(c, "press", "deliver") /\ calls[c].frame = "top"
    /\ \/ Permits(c) /\ ran' = Append(ran, c) /\ Answer(c, "done")
       \/ Answer(c, "refused") /\ UNCHANGED ran
    /\ Unmoved /\ UNCHANGED child

-----------------------------------------------------------------------------
(* A child frame: switch/execute *)

Held == {"ask", "approve", "recheck", "approved"}

\* The gate without the one or the other of its guards
AcceptsAnyDocument(c) == child[calls[c].frame].pending = 0
AcceptsAnother(c) == child[calls[c].frame].doc = calls[c].doc
\* createActionGate: a call of this document, and no other at work in it.  (That
\* it has been seen before never happens: no message is delivered twice.)
Accepts(c) == child[calls[c].frame].doc = calls[c].doc /\ child[calls[c].frame].pending = 0

Deliver(c) ==
    /\ At(c, "press", "deliver") /\ calls[c].frame \in Children
    /\ \/ /\ Accepts(c)
          /\ calls' = [calls EXCEPT ![c].stage = "ask", ![c].local = TRUE]
          /\ child' = [child EXCEPT ![calls[c].frame].pending = c]
       \/ ~Accepts(c) /\ Answer(c, "refused") /\ UNCHANGED child
       \/ child[calls[c].frame].doc # calls[c].doc /\ Answer(c, "lost") /\ UNCHANGED child
    /\ Unmoved /\ UNCHANGED ran

\* The check is answered: the action runs unless the child paused meanwhile.
RunPress(c) ==
    /\ At(c, "press", "approved") /\ calls[c].local
    /\ ran' = Append(ran, c)
    /\ Answer(c, "done") /\ child' = Freed(c) /\ Unmoved

\* The relay refused the check (something was not visible), the child has paused,
\* or the target is not what it was.
DropPress(c) ==
    /\ calls[c].kind = "press" /\ calls[c].stage \in {"ask", "recheck", "approved"}
    /\ Answer(c, "refused") /\ child' = Freed(c) /\ Unmoved /\ UNCHANGED ran

\* The child's own three seconds are over.
CheckTimeout(c) ==
    /\ calls[c].kind = "press" /\ calls[c].stage \in Held
    /\ Answer(c, "unknown") /\ child' = Freed(c) /\ Unmoved /\ UNCHANGED ran

\* Every pause of a child makes the permission it asked for worthless.
HeldBy(f) == {c \in Calls : calls[c].frame = f /\ calls[c].stage \in Held}
PausedChild(f) == [c \in Calls |-> IF c \in HeldBy(f) THEN [calls[c] EXCEPT !.local = FALSE]
                                   ELSE calls[c]]

ChildHearsPause(f) ==
    /\ childPauses[f] > 0
    /\ childPauses' = [childPauses EXCEPT ![f] = @ - 1]
    /\ calls' = PausedChild(f)
    /\ UNCHANGED <<controller, child, report, reporting, cancels, topPauses, lost, restarts, ran>>

\* The frame loads another document; what the old one held is gone.
ChildLoads(f) ==
    /\ child[f].doc < MaxDocs
    /\ child' = [child EXCEPT ![f] = [doc |-> @.doc + 1, pending |-> 0]]
    /\ calls' = [c \in Calls |-> IF c \in HeldBy(f) THEN Ended(c, "unknown") ELSE calls[c]]
    /\ reporting' = reporting \cup {<<f, child[f].doc + 1>>}
    /\ lost' = lost \ {f}
    /\ UNCHANGED <<controller, report, cancels, childPauses, topPauses, restarts, ran>>

-----------------------------------------------------------------------------
(* The relay: switch/navigation *)

\* Not looking for a cancellation
AuthorizedOnce(c) == topReported
Authorized(c) == calls[c].valid /\ topReported

NavigationArrives(c) ==
    /\ At(c, "reload", "request") /\ calls[c].ahead = 0
    /\ IF topReported THEN Captured(c, "authorize") ELSE Answer(c, "refused")
    /\ Unmoved /\ UNCHANGED <<child, ran>>

\* The question is put to the top document before and after the tabs are read.
TopAnswers(c) ==
    /\ \E s \in {<<"authorize", "answered">>, <<"again", "confirmed">>} :
          /\ At(c, "reload", s[1])
          /\ IF Permits(c) THEN Moved(c, s[2]) ELSE Answer(c, "refused")
    /\ Unmoved /\ UNCHANGED <<child, ran>>

TabsRead(c) ==
    /\ At(c, "reload", "answered")
    /\ IF Authorized(c) THEN Moved(c, "again") ELSE Answer(c, "refused")
    /\ Unmoved /\ UNCHANGED <<child, ran>>

\* The tab may no longer be the active one, and the browser may fail.
Reload(c) ==
    /\ At(c, "reload", "confirmed")
    /\ \/ Authorized(c) /\ ran' = Append(ran, c) /\ Answer(c, "done")
       \/ Answer(c, "refused") /\ UNCHANGED ran
       \/ Authorized(c) /\ Answer(c, "unknown") /\ UNCHANGED ran
    /\ Unmoved /\ UNCHANGED child

-----------------------------------------------------------------------------
(* The relay: reports and cancellations; the worker's death *)

Stages(stages) == {c \in Calls : calls[c].stage \in stages}

\* switch/cancel-peers: the checks under way are void, the children pause.
Watched == {"approve", "recheck", "authorize", "answered", "again", "confirmed"}
CancelArrives ==
    /\ cancels > 0
    /\ cancels' = cancels - 1
    /\ calls' = [c \in Calls |-> [calls[c] EXCEPT !.valid = @ /\ calls[c].stage \notin Watched,
                                                !.ahead = IF @ > 0 THEN @ - 1 ELSE 0]]
    /\ childPauses' = [f \in Children |-> IF report[f] # NoDocument THEN childPauses[f] + 1
                                           ELSE childPauses[f]]
    /\ UNCHANGED <<controller, child, report, reporting, topPauses, lost, restarts, ran>>

\* switch/report: another document in a frame pauses the top document.
ReportArrives(f, doc) ==
    /\ <<f, doc>> \in reporting
    /\ reporting' = reporting \ {<<f, doc>>}
    /\ report' = [report EXCEPT ![f] = doc]
    /\ topPauses' = IF report[f] \notin {NoDocument, doc} THEN topPauses + 1 ELSE topPauses
    /\ UNCHANGED <<controller, calls, child, cancels, childPauses, lost, restarts, ran>>

\* A frame's items have changed: it reports again.  (Where the relay knows the
\* document, a second report only makes a look at it fail, which it may anyway.)
Republish(f) ==
    /\ report[f] # child[f].doc /\ <<f, child[f].doc>> \notin reporting
    /\ reporting' = reporting \cup {<<f, child[f].doc>>}
    /\ UNCHANGED <<controller, calls, child, report, cancels, childPauses, topPauses, lost, restarts, ran>>

\* What the worker was doing is gone, and with it every answer it owed; what
\* was on its way to a frame or to the worker arrives.
AtWorker == {"authorize", "approve", "recheck", "answered", "again", "confirmed"}
Underway == {"deliver", "ask", "approved"}
WorkerRestart ==
    /\ restarts < MaxRestarts
    /\ restarts' = restarts + 1
    /\ report' = [f \in Frames |-> NoDocument]
    /\ calls' = [c \in Calls |->
                   CASE calls[c].stage \in AtWorker -> Ended(c, "lost")
                     [] calls[c].stage \in Underway -> [Ended(c, "lost") EXCEPT !.stage = calls[c].stage,
                                                                              !.local = calls[c].local]
                     [] OTHER -> calls[c]]
    /\ child' = [f \in Children |-> IF child[f].pending \in Stages({"approve", "recheck"})
                                     THEN [child[f] EXCEPT !.pending = 0] ELSE child[f]]
    /\ lost' = Frames
    /\ UNCHANGED <<controller, channels, ran>>

\* The alive port is closed: the frame reconnects, pauses and reports again.
TopReconnects ==
    /\ "top" \in lost /\ lost' = lost \ {"top"}
    /\ PauseTo(Invalidated(top))
    /\ reporting' = reporting \cup {<<"top", 0>>}
    /\ UNCHANGED <<calls, child, report, childPauses, topPauses, restarts, ran>>

ChildReconnects(f) ==
    /\ f \in lost /\ lost' = lost \ {f}
    /\ calls' = PausedChild(f)
    /\ reporting' = reporting \cup {<<f, child[f].doc>>}
    /\ UNCHANGED <<controller, child, report, cancels, childPauses, topPauses, restarts, ran>>

-----------------------------------------------------------------------------
Reloaded == \E k \in 1..Len(ran) : calls[ran[k]].kind = "reload"

TopNext == \/ PauseByUser \/ TopHearsPause \/ Wake \/ SilentRounds \/ TopReconnects
           \/ SelectReload \/ SelectCancel
           \/ \E c \in Calls :
                 \/ SelectConfirm(c) \/ ReceiveReply(c) \/ ReplyTimeout(c) \/ ReplyLost(c)
                 \/ ActsInTop(c)
                 \/ \E f \in Frames, doc \in 0..MaxDocs : SelectPress(c, f, doc)
RelayNext == \/ CancelArrives \/ WorkerRestart
             \/ \E f \in Frames, doc \in 0..MaxDocs : ReportArrives(f, doc)
             \/ \E c \in Calls :
                   \/ ExecuteArrives(c) \/ ExecuteAuthorized(c)
                   \/ CheckArrives(c) \/ TopApproves(c) \/ Recheck(c)
                   \/ NavigationArrives(c) \/ TopAnswers(c) \/ TabsRead(c) \/ Reload(c)
ChildNext == \/ \E f \in Children : \/ ChildHearsPause(f) \/ ChildLoads(f)
                                   \/ Republish(f) \/ ChildReconnects(f)
             \/ \E c \in Calls : Deliver(c) \/ RunPress(c) \/ DropPress(c) \/ CheckTimeout(c)

Next == /\ ~Reloaded
        /\ (TopNext \/ RelayNext \/ ChildNext)
        /\ top'.gen <= MaxGen /\ top'.seq <= MaxSeq
Spec == Init /\ [][Next]_vars

-----------------------------------------------------------------------------
(* Properties *)

Results == {"done", "refused", "unknown"}

\* The type invariant.  The gate of a child is held by a call that is at
\* work on its document, and by no other; what waits at the top document is in
\* flight.  (switch-controller.ts:38-49, switch-relay.ts:5-10, switch-actions.ts)
TypeOK ==
    /\ top.mode \in Modes /\ top.gen \in 0..MaxGen /\ top.pressed = Nothing
    /\ confirmation \in BOOLEAN /\ unresolved \in BOOLEAN
    /\ inFlight = {c \in Calls : calls[c].kind # "none" /\ calls[c].told = "none"}
    /\ \A c \in Calls : /\ calls[c].told \in Results \cup {"none"}
                        /\ calls[c].reply \in Results \cup {"none", "lost"}
    /\ \A f \in Children : /\ child[f].doc \in 0..MaxDocs
                           /\ {c \in Calls : child[f].pending = c} = HeldBy(f)
    /\ report \in [Frames -> 0..MaxDocs \cup {NoDocument}]
    /\ reporting \subseteq Frames \X (0..MaxDocs)
    /\ lost \subseteq Frames

\* A press in a child frame acts only in the very document its target was taken
\* from, and as the one press that document has accepted, whatever the frame has
\* loaded while the request, the permission and the second question were on their
\* way.  (switch-actions.ts:6, switch-relay.ts:75-84)
PressMeetsItsDocument ==
    [][\A c \in Calls : ran' # ran /\ ran'[Len(ran')] = c /\ calls[c].frame \in Children
          => child[calls[c].frame] = [doc |-> calls[c].doc, pending |-> c]]_vars

\* Two presses that no gate holds apart, the one in a child frame
Ungated(c, d) == /\ calls[c].kind = "press" /\ calls[d].kind = "press"
                 /\ calls[c].frame \in Children \ {calls[d].frame}

\* What is carried out is carried out once, and nothing acts after what was
\* selected later: not within a frame, not in the top document, and no reload; but
\* a press in a child frame that the user has given up may act after a later press
\* in another frame or in the top document, since each document has a gate of its
\* own and the permission it was given may already be on its way.
\* (switch-actions.ts:5-10, switch-controller.ts:616-636)
InSelectionOrder ==
    \A i, j \in 1..Len(ran) : i < j =>
       ran[i] < ran[j] \/ (ran[j] < ran[i] /\ Ungated(ran[j], ran[i]))

\* What the user is told of an action is true: done means that it ran, refused
\* that it did not and never will; of what is unknown the page stays aware.  The
\* state has its type throughout.
\* (switch-controller.ts:40-49, 571-584, switch-relay.ts:115-127)
HonestResult ==
    /\ TypeOK
    /\ \A c \in Calls :
       LET done == \E k \in 1..Len(ran) : ran[k] = c
       IN /\ calls[c].told = "done" => done
          /\ calls[c].told = "refused" => ~done /\ calls[c].stage = "ended"
          /\ calls[c].told = "unknown" => unresolved

\* The page is reloaded only when every earlier action has a known end, and
\* nothing is left of it that could still act.  (A press selected after the
\* reload was withdrawn may be overtaken by it: WithdrawalIsUnderWay.)
\* (switch-controller.ts:170-174, 604-610, switch-relay.ts:128-161)
ReloadSparesOpenWork ==
    \A k \in 1..Len(ran) : calls[ran[k]].kind = "reload" =>
       \A c \in 1..(ran[k] - 1) : calls[c].told \in {"done", "refused"} /\ calls[c].stage = "ended"

\* What the top document no longer waits for runs only while word of that is on
\* its way: to the worker, or to the very frame that acts.  In the top document
\* itself it never runs.
\* (switch-controller.ts:104, 138, 153-160, 617-635, switch-relay.ts:88-92)
WordIsUnderWay(c) ==
    \/ calls[c].kind = "reload" /\ cancels > 0
    \/ /\ calls[c].frame \in Children
       /\ cancels > 0 \/ childPauses[calls[c].frame] > 0 \/ calls[c].frame \in lost
WithdrawalIsUnderWay ==
    [][\A c \in Calls : ran' # ran /\ ran'[Len(ran')] = c => Awaits(c) \/ WordIsUnderWay(c)]_vars

=============================================================================
