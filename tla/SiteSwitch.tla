----------------------------- MODULE SiteSwitch -----------------------------
(***************************************************************************)
(* Switching the helper off on one site: how a frame learns whether its    *)
(* site is off and keeps knowing it (entrypoints/content.ts), how the      *)
(* worker tells which site a tab shows (entrypoints/background.ts), and    *)
(* the popup's card that switches the site (entrypoints/popup/main.ts).    *)
(*                                                                         *)
(* The site is the origin of the top document.  A document without an      *)
(* address (about:) has inherited its origin: the worker knows it only     *)
(* from what the top document sends, forgets it when the tab begins to     *)
(* load or the worker restarts, and answers a child frame with nothing     *)
(* meanwhile.  A frame asks, reads, and only then listens for changes;     *)
(* what fails is tried again, with the helper off in the meantime.         *)
(*                                                                         *)
(* Abstractions.  One tab, and one frame of its document, top or child:    *)
(* frames share nothing but the worker.  An entry that does not parse      *)
(* reads as "not off", as an absent one does, and the writer's refusal to  *)
(* touch it is one of its refusals.  Loading ends in a new document.       *)
(* Reads of one page are answered in order, but in no order with change    *)
(* events.                                                                 *)
(***************************************************************************)
EXTENDS Naturals, Sequences

CONSTANTS Origins,       \* the sites
          NoOrigin,      \* an origin not known
          MaxDocuments,  \* bound on documents loaded after the first
          MaxChanges,    \* bound on changes made elsewhere
          MaxPresses,    \* bound on presses of the site card
          MaxRestarts    \* bound on worker restarts

ASSUME SiteAssumption == /\ NoOrigin \notin Origins
                         /\ MaxDocuments \in Nat /\ MaxChanges \in Nat
                         /\ MaxPresses \in Nat /\ MaxRestarts \in Nat

VARIABLES stored,    \* chrome.storage.sync: which sites are off
          changes,   \* changes made elsewhere so far
          tab,       \* the document in the tab: its origin, whether it has an address
          loading,   \* the tab has begun to load the next document
          documents, \* documents loaded so far
          topDocOrigin,  \* background.ts: topDocOrigins, for this tab
          restarts,  \* worker restarts so far
          unheard,   \* the top document, without an address, is yet to be heard
          overheard, \* history: what the document before it was recorded with, both
                     \* without an address, after this one had begun to load
          frame,     \* the content script of one frame
          news,      \* change events on their way to the frame
          popup,     \* the popup's site card
          popupNews, \* change events on their way to the popup
          job        \* the presses of the card, as the worker and the popup see them

storage == <<stored, changes>>
tabs == <<tab, loading, documents>>
worker == <<topDocOrigin, restarts, unheard, overheard>>
content == <<frame, news>>
card == <<popup, popupNews, job>>
vars == <<storage, tabs, worker, content, card>>

Presses == 1..MaxPresses
Documents == [about : BOOLEAN, origin : Origins]

\* A content script that has just started; the top one knows its own origin.
FreshFrame(top, origin) ==
    [top |-> top, phase |-> IF top THEN "read" ELSE "query",
     origin |-> IF top THEN origin ELSE NoOrigin,
     value |-> FALSE, siteDisabled |-> FALSE, siteState |-> "pending",
     listening |-> FALSE, cleanedUp |-> FALSE, missed |-> FALSE, early |-> FALSE]

\* The document has no content script, or none that is looked at.
NoFrame == [FreshFrame(TRUE, NoOrigin) EXCEPT !.phase = "ended", !.cleanedUp = TRUE]
Frames(origin) == {FreshFrame(TRUE, origin), FreshFrame(FALSE, origin), NoFrame}

NoPopup == [origin |-> NoOrigin, on |-> FALSE, reads |-> <<>>, listening |-> FALSE,
            pressed |-> 0, untold |-> FALSE]
NoJob == [stage |-> "none", off |-> FALSE, previous |-> FALSE, waiting |-> FALSE]

Init == /\ stored \in [Origins -> BOOLEAN] /\ changes = 0
        /\ tab \in Documents /\ loading = FALSE /\ documents = 0
        /\ topDocOrigin = NoOrigin /\ restarts = 0 /\ unheard = tab.about
        /\ overheard = NoOrigin
        /\ frame \in Frames(tab.origin)
        /\ news = <<>>
        /\ popup = NoPopup /\ popupNews = <<>>
        /\ job = [i \in Presses |-> NoJob]

\* An entry is written; a write that changes nothing fires no event.
Store(origin, off) ==
    /\ stored' = [stored EXCEPT ![origin] = off]
    /\ LET change == [origin |-> origin, off |-> off]
       IN IF stored[origin] = off THEN UNCHANGED <<news, popupNews>>
          ELSE /\ news' = IF frame = NoFrame THEN news ELSE Append(news, change)
               /\ popupNews' = IF popup.origin = NoOrigin THEN popupNews
                               ELSE Append(popupNews, change)

ChangedElsewhere == /\ changes < MaxChanges
                    /\ changes' = changes + 1
                    /\ \E origin \in Origins : Store(origin, ~stored[origin])
                    /\ UNCHANGED <<tabs, worker, frame, popup, job>>

-----------------------------------------------------------------------------
(* background.ts: which site the tab shows                                 *)

SiteOriginOfTab == IF tab.about THEN topDocOrigin ELSE tab.origin

\* A message of the top document is recorded while the tab has no address.
TopSpeaksAnywhere ==
    /\ topDocOrigin' = tab.origin
    /\ unheard' = FALSE
    /\ UNCHANGED <<storage, tabs, restarts, overheard, content, card>>
TopSpeaks ==
    /\ topDocOrigin' = IF tab.about THEN tab.origin ELSE topDocOrigin
    /\ unheard' = FALSE
    /\ UNCHANGED <<storage, tabs, restarts, overheard, content, card>>

\* tabs.onUpdated, status "loading": the old document is still there.
StartsLoading == /\ ~loading /\ documents < MaxDocuments
                 /\ loading' = TRUE
                 /\ topDocOrigin' = NoOrigin
                 /\ UNCHANGED <<storage, tab, documents, restarts, unheard, overheard, content,
                                card>>

Commits == /\ loading /\ loading' = FALSE
           /\ documents' = documents + 1
           /\ tab' \in Documents
           /\ frame' \in Frames(tab'.origin)
           /\ news' = <<>>
           /\ unheard' = tab'.about
           /\ overheard' = IF tab.about /\ tab'.about THEN topDocOrigin ELSE NoOrigin
           /\ UNCHANGED <<storage, topDocOrigin, restarts, card>>

\* The worker forgets; the reconnected top document reports again.
WorkerRestarts ==
    /\ restarts < MaxRestarts
    /\ restarts' = restarts + 1
    /\ topDocOrigin' = NoOrigin
    /\ unheard' = tab.about
    /\ job' = [i \in Presses |-> IF job[i].stage \in {"sent", "checked"}
                                 THEN [job[i] EXCEPT !.stage = "refused"] ELSE job[i]]
    /\ UNCHANGED <<storage, tabs, overheard, content, popup, popupNews>>

-----------------------------------------------------------------------------
(* content.ts: attemptReadSiteState and the listener it registers          *)

InFrame(f) == frame' = f /\ UNCHANGED <<storage, tabs, worker, news, card>>

\* handleSiteReadFailure: off, and once more later; a cleaned up frame does nothing.
ReadFailure == IF frame.cleanedUp THEN [frame EXCEPT !.phase = "ended"]
               ELSE [frame EXCEPT !.phase = "retry", !.siteState = "failed"]

Asked(answer) == /\ frame.phase = "query"
                 /\ InFrame([frame EXCEPT !.phase = "answer", !.origin = answer,
                                           !.early = unheard])
QueryAnswered == Asked(SiteOriginOfTab)
QueryLost == Asked(NoOrigin)

ReceiveAnswer ==
    /\ frame.phase = "answer"
    /\ InFrame(IF frame.cleanedUp \/ frame.origin = NoOrigin THEN ReadFailure
               ELSE [frame EXCEPT !.phase = "read"])

ServeRead == /\ frame.phase = "read"
             /\ InFrame([frame EXCEPT !.phase = "value", !.value = stored[frame.origin]])

ReadFails == frame.phase = "read" /\ InFrame(ReadFailure)

Known == [frame EXCEPT !.phase = "ended", !.siteDisabled = frame.value,
                       !.siteState = "known", !.listening = TRUE]
ReadEndsAnyway == /\ frame.phase = "value"
                  /\ InFrame(Known)
ReadEnds == /\ frame.phase = "value"
            /\ InFrame(IF frame.cleanedUp THEN [frame EXCEPT !.phase = "ended"] ELSE Known)

RetryOnceKnown == /\ frame.phase = "retry" /\ frame.origin # NoOrigin
                  /\ InFrame([frame EXCEPT !.phase = "read"])
Retry == /\ frame.phase = "retry"
         /\ InFrame([frame EXCEPT !.phase = IF frame.top THEN "read" ELSE "query"])

HeedsAnySite(change) == frame.listening
Heeds(change) == frame.listening /\ change.origin = frame.origin

\* A change that comes between the serving of the read and the listener is lost.
ReceiveChange ==
    /\ news # <<>>
    /\ news' = Tail(news)
    /\ frame' = [frame EXCEPT
           !.siteDisabled = IF Heeds(Head(news)) THEN Head(news).off ELSE frame.siteDisabled,
           !.missed = frame.missed \/ ( /\ frame.phase = "value" /\ Head(news).origin = frame.origin
                                      /\ Head(news).off # frame.value )]
    /\ UNCHANGED <<storage, tabs, worker, card>>

\* cleanupOldHelper: the extension was replaced or the document rewritten.
Cleanup == /\ ~frame.cleanedUp
           /\ InFrame([frame EXCEPT !.cleanedUp = TRUE, !.listening = FALSE,
                          !.phase = IF frame.phase = "retry" THEN "ended" ELSE frame.phase])

Reading == \/ QueryAnswered \/ QueryLost \/ ReceiveAnswer \/ ServeRead \/ ReadFails \/ ReadEnds
           \/ Retry \/ ReceiveChange \/ Cleanup

-----------------------------------------------------------------------------
(* popup/main.ts: the site card, and the worker's answer to it             *)

InPopup(p) == popup' = p /\ UNCHANGED <<storage, tabs, worker, content, popupNews, job>>

\* The card stands in the popup, still blank, before its first read ends.
OpenPopup == /\ popup.origin = NoOrigin
             /\ InPopup([NoPopup EXCEPT !.origin = tab.origin, !.reads = <<"asked">>])

ServeCardRead ==
    \E i \in DOMAIN popup.reads :
        /\ popup.reads[i] = "asked"
        /\ \A j \in 1..(i - 1) : popup.reads[j] # "asked"
        /\ InPopup([popup EXCEPT !.reads[i] = IF stored[popup.origin] THEN "off" ELSE "on"])

\* refreshSiteState: the first one is followed by the listener.
CardReadEnds ==
    /\ popup.reads # <<>> /\ Head(popup.reads) # "asked"
    /\ InPopup([popup EXCEPT !.reads = Tail(popup.reads),
                             !.on = Head(popup.reads) = "on",
                             !.untold = popup.untold /\ ~popup.listening,
                             !.listening = TRUE])

\* A first read that fails leaves the card blank and without a listener.
CardReadFails ==
    /\ popup.reads # <<>> /\ Head(popup.reads) = "asked"
    /\ InPopup([popup EXCEPT !.reads = Tail(popup.reads), !.untold = TRUE])

CardHearsWithoutReading ==
    /\ popupNews # <<>>
    /\ popupNews' = Tail(popupNews)
    /\ UNCHANGED <<storage, tabs, worker, content, popup, job>>

CardHears ==
    /\ popupNews # <<>>
    /\ popupNews' = Tail(popupNews)
    /\ popup' = IF Head(popupNews).origin # popup.origin THEN popup
                ELSE IF popup.listening
                THEN [popup EXCEPT !.reads = Append(popup.reads, "asked")]
                ELSE [popup EXCEPT !.untold = TRUE]
    /\ UNCHANGED <<storage, tabs, worker, content, job>>

PressCard ==
    LET n == popup.pressed + 1
    IN /\ popup.origin # NoOrigin /\ n \in Presses
       /\ popup' = [popup EXCEPT !.pressed = n, !.on = ~popup.on]
       /\ job' = [job EXCEPT ![n] = [stage |-> "sent", off |-> popup.on,
                                     previous |-> popup.on, waiting |-> TRUE]]
       /\ UNCHANGED <<storage, tabs, worker, content, popupNews>>

\* A refusal and three seconds of silence take the card back alike.
TakenBack(i) == [popup EXCEPT !.on = job[i].previous, !.untold = TRUE]
Settle(i) == job' = [job EXCEPT ![i].waiting = FALSE]

CardAnswered(i) ==
    /\ job[i].waiting /\ job[i].stage \in {"ok", "refused"}
    /\ Settle(i)
    /\ popup' = IF job[i].stage = "refused" THEN TakenBack(i) ELSE popup
    /\ UNCHANGED <<storage, tabs, worker, content, popupNews>>

CardTimesOut(i) ==
    /\ job[i].waiting
    /\ Settle(i)
    /\ popup' = TakenBack(i)
    /\ UNCHANGED <<storage, tabs, worker, content, popupNews>>

\* background.ts: only the site the tab shows now may be switched.
WorkerChecks(i) ==
    /\ job[i].stage = "sent" /\ \A j \in 1..(i - 1) : job[j].stage # "sent"
    /\ job' = [job EXCEPT ![i].stage = IF SiteOriginOfTab = popup.origin
                                       THEN "checked" ELSE "refused"]
    /\ UNCHANGED <<storage, tabs, worker, content, popup, popupNews>>

\* storage-writer.ts: presses that came in during a write are written as one
\* and answered alike (the first of them is written alone; taking it along as
\* well only adds behaviours).  A refusal is also a write that took and whose
\* worker died, and a press that was not written at all.
WorkerWrites(i) ==
    /\ job[i].stage = "checked"
    /\ \E result \in {"ok", "refused"} :
          /\ \/ Store(popup.origin, job[i].off)
             \/ result = "refused" /\ UNCHANGED <<stored, news, popupNews>>
          /\ job' = [j \in Presses |-> IF j <= i /\ job[j].stage = "checked"
                                       THEN [job[j] EXCEPT !.stage = result] ELSE job[j]]
    /\ UNCHANGED <<changes, tabs, worker, frame, popup>>

SwitchingSite == \/ OpenPopup \/ ServeCardRead \/ CardReadEnds \/ CardReadFails
                 \/ CardHears \/ PressCard
                 \/ \E i \in Presses : \/ CardAnswered(i) \/ CardTimesOut(i)
                                       \/ WorkerChecks(i) \/ WorkerWrites(i)

Next == \/ ChangedElsewhere
        \/ TopSpeaks \/ StartsLoading \/ Commits \/ WorkerRestarts
        \/ Reading
        \/ SwitchingSite

\* Loads end, a new top document is heard, a reconnected one too, calls within
\* a page go on, and the worker and the storage, asked again and again, answer.
Fairness == /\ WF_vars(unheard /\ TopSpeaks)
            /\ WF_vars(Commits)
            /\ WF_vars(ReceiveAnswer) /\ WF_vars(ReadEnds) /\ WF_vars(Retry)
            /\ SF_vars(QueryAnswered) /\ SF_vars(ServeRead)

Spec == Init /\ [][Next]_vars
FairSpec == Spec /\ Fairness

-----------------------------------------------------------------------------
(* Properties *)

\* The only site a frame ever takes for its own is the origin of the top
\* document of its tab, whatever an outgoing document still sends while the
\* next one loads; but where neither has an address, a child frame that asks
\* before its top document is heard may be told of the document before it.
\* (background.ts:144-149, WR-03 at 311-318)
OwnSite == \/ frame.origin \in {NoOrigin, tab.origin}
           \/ ~frame.top /\ frame.early /\ frame.origin = overheard

\* A frame that knows its site and has heard every change agrees with what is
\* stored for it (content.ts: site listener).  The change that fell between its
\* read and its listener is the exception: it is lost.  One that was cleaned up
\* while it waited for its site does not begin to listen when the answer comes
\* (cleanedUp is read again after the await).
FrameFollowsSite ==
    /\ /\ frame.siteState = "known" /\ ~frame.cleanedUp
       /\ news = <<>> /\ ~frame.missed
       => frame.siteDisabled = stored[frame.origin]
    /\ frame.cleanedUp => ~frame.listening

\* Failed reads, lost answers, a record the worker does not have yet or has
\* forgotten keep the helper off in a frame only for a time (content.ts:
\* scheduleSiteRetry).
EveryFrameLearns ==
    (frame.siteState # "known") ~> (frame.siteState = "known" \/ frame.cleanedUp)

\* Once answers and changes are in, the card says what is stored for its site,
\* unless since its last read a press was taken back, a read failed or a change
\* came before the listener.
CardFollowsSite ==
    /\ popup.reads = <<>> /\ popupNews = <<>>
    /\ popup.listening /\ ~popup.untold
    /\ \A i \in Presses : job[i].stage \notin {"sent", "checked"} /\ ~job[i].waiting
    => popup.on = ~stored[popup.origin]

=============================================================================
