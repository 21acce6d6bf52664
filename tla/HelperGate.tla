----------------------------- MODULE HelperGate -----------------------------
(***************************************************************************)
(* The pages' half of the off switch (content.ts), composed with the       *)
(* worker of HelperSafety.  A page runs the helper only while every source *)
(* it has allows it: the worker's runtime stop (asked for once, and again  *)
(* when the port is lost; broadcast at each change), the local safety key  *)
(* and the synchronised settings (each read once, then followed through    *)
(* storage.onChanged).  Answers, broadcasts and change events travel on    *)
(* separate channels, so an answer taken before a stop may arrive after    *)
(* the stop itself: revisions and read counters must drop it.              *)
(*                                                                         *)
(* Abstractions.  An answer that the page will drop because its read is no *)
(* longer the latest is taken off the channel when it becomes stale.  What *)
(* travels of a key is what the page makes of it: whether the value stops, *)
(* lifts, parses.  The two site flags of the gate are always allowing.     *)
(***************************************************************************)
EXTENDS HelperSafety, Integers

CONSTANTS Pages,      \* frames that hold a content script
          MaxEvents   \* bound: other computers wait while this many events travel

VARIABLES page,     \* state of each content script
          inbox,    \* helper/safety broadcasts on their way to a page
          asking,   \* a helper/state request is on its way to the worker
          answers,  \* the worker's answer, on its way back
          events    \* storage.onChanged events on their way to a page

Parsed == {"on", "off", "fail"}

channels == <<inbox, asking, answers, events>>
gate == <<page, channels>>
allVars == <<vars, gate>>

Messages == [off : BOOLEAN, revision : Nat, instance : 0..MaxRestarts]
StateMessage == [off |-> runtimeStopped, revision |-> safetyRevision, instance |-> safetyInstance]

\* A document as content.ts starts: closed until every source has answered.
FreshPage == [enabled |-> FALSE, port |-> "open",
              runtimeOff |-> TRUE, instance |-> 0, revision |-> -1,
              helperOff |-> TRUE, localRead |-> "asked",
              settingsLoaded |-> FALSE, settingsOn |-> TRUE, settingsRead |-> "asked"]

GateInit == /\ Init
            /\ page = [p \in Pages |-> FreshPage]
            /\ inbox = [p \in Pages |-> <<>>]
            /\ asking = [p \in Pages |-> TRUE]
            /\ answers = [p \in Pages |-> {}]
            /\ events = [p \in Pages |-> <<>>]

\* syncEnabled and applyEnabled
SyncEnabled(s) ==
    [s EXCEPT !.enabled = s.settingsLoaded /\ ~s.runtimeOff /\ ~s.helperOff /\ s.settingsOn]

Update(p, s) == page' = [page EXCEPT ![p] = s]
Take(channel, p) == [channel EXCEPT ![p] = Tail(@)]
Heed(s, m) == SyncEnabled([s EXCEPT !.runtimeOff = m.off, !.instance = m.instance,
                                    !.revision = m.revision])

-----------------------------------------------------------------------------
(* The runtime stop *)

\* A broadcast is newer than any answer on its way: the pending read is void.
ReceiveSafetyKeepsRead(p) ==
    /\ inbox[p] # <<>>
    /\ LET m == Head(inbox[p])
       IN IF m.instance = page[p].instance /\ m.revision < page[p].revision
          THEN UNCHANGED page
          ELSE Update(p, Heed(page[p], m))
    /\ inbox' = Take(inbox, p)
    /\ UNCHANGED <<vars, asking, answers, events>>

ReceiveSafety(p) ==
    /\ inbox[p] # <<>>
    /\ LET m == Head(inbox[p])
       IN IF m.instance = page[p].instance /\ m.revision < page[p].revision
          THEN UNCHANGED <<page, asking, answers>>
          ELSE /\ Update(p, Heed(page[p], m))
               /\ asking' = [asking EXCEPT ![p] = FALSE]
               /\ answers' = [answers EXCEPT ![p] = {}]
    /\ inbox' = Take(inbox, p)
    /\ UNCHANGED <<vars, events>>

\* The worker answers helper/state once its own start-up read has ended.
AnswerState(p) ==
    /\ asking[p] /\ initialRead
    /\ asking' = [asking EXCEPT ![p] = FALSE]
    /\ answers' = [answers EXCEPT ![p] = {StateMessage}]
    /\ UNCHANGED <<vars, page, inbox, events>>

ReceiveState(p) ==
    /\ \E m \in answers[p] : Update(p, Heed(page[p], m))
    /\ answers' = [answers EXCEPT ![p] = {}]
    /\ UNCHANGED <<vars, inbox, asking, events>>

ReconnectKeepsRead(p) ==
    /\ page[p].port = "lost"
    /\ Update(p, [page[p] EXCEPT !.port = "open"])
    /\ asking' = [asking EXCEPT ![p] = TRUE]
    /\ UNCHANGED <<vars, inbox, answers, events>>

\* The alive port was lost with the worker: reconnect and ask again.
Reconnect(p) ==
    /\ page[p].port = "lost"
    /\ Update(p, [page[p] EXCEPT !.port = "open"])
    /\ asking' = [asking EXCEPT ![p] = TRUE]
    /\ answers' = [answers EXCEPT ![p] = {}]
    /\ UNCHANGED <<vars, inbox, events>>

-----------------------------------------------------------------------------
(* The two storage keys *)

\* SettingsV1.safeParse
Parse(value) == CASE value = "enabled" -> "on" [] value = "disabled" -> "off" [] OTHER -> "fail"

ServeLocalRead(p) ==
    /\ page[p].localRead = "asked"
    /\ Update(p, [page[p] EXCEPT !.localRead = IF IsHelperSafetyOff(local) THEN "off" ELSE "on"])
    /\ UNCHANGED <<vars, channels>>

LocalReadEnds(p) ==
    /\ page[p].localRead \in {"off", "on"}
    /\ Update(p, SyncEnabled([page[p] EXCEPT !.localRead = "done",
                                             !.helperOff = page[p].localRead = "off"]))
    /\ UNCHANGED <<vars, channels>>

LocalReadFails(p) ==
    /\ page[p].localRead = "asked"
    /\ Update(p, SyncEnabled([page[p] EXCEPT !.localRead = "done", !.helperOff = TRUE]))
    /\ UNCHANGED <<vars, channels>>

ServeSettingsRead(p) ==
    /\ page[p].settingsRead = "asked"
    /\ Update(p, [page[p] EXCEPT !.settingsRead = Parse(settings)])
    /\ UNCHANGED <<vars, channels>>

\* Settings that do not parse leave the values the page had.
Adopt(s, value) == [s EXCEPT !.settingsRead = "done", !.settingsLoaded = TRUE,
                             !.settingsOn = IF value = "fail" THEN s.settingsOn
                                              ELSE value = "on"]

SettingsReadEnds(p) ==
    /\ page[p].settingsRead \in Parsed
    /\ Update(p, SyncEnabled(Adopt(page[p], page[p].settingsRead)))
    /\ UNCHANGED <<vars, channels>>

SettingsReadFails(p) ==
    /\ page[p].settingsRead = "asked"
    /\ Update(p, SyncEnabled([page[p] EXCEPT !.settingsRead = "done", !.settingsLoaded = FALSE]))
    /\ UNCHANGED <<vars, channels>>

\* handleSettingsStorageChange: a change outdates the start-up read of its key;
\* only an explicit "running" lifts the local stop, and a settings value that
\* does not parse changes no more than settingsLoaded.
StorageChangedKeepsRead(p) ==
    /\ events[p] # <<>>
    /\ LET e == Head(events[p])
           kept == [page[p] EXCEPT !.settingsLoaded = TRUE]
       IN Update(p, CASE e.key = "local" ->
                           SyncEnabled([page[p] EXCEPT !.localRead = "done",
                                                       !.helperOff = e.value = "off"])
                      [] e.key = "settings" /\ e.value # "fail" ->
                           SyncEnabled([kept EXCEPT !.settingsOn = e.value = "on"])
                      [] OTHER -> kept)
    /\ events' = Take(events, p)
    /\ UNCHANGED <<vars, inbox, asking, answers>>

StorageChanged(p) ==
    /\ events[p] # <<>>
    /\ LET e == Head(events[p])
       IN Update(p, CASE e.key = "local" ->
                           SyncEnabled([page[p] EXCEPT !.localRead = "done",
                                                       !.helperOff = e.value = "off"])
                      [] e.key = "settings" /\ e.value # "fail" -> SyncEnabled(Adopt(page[p], e.value))
                      [] OTHER -> Adopt(page[p], e.value))
    /\ events' = Take(events, p)
    /\ UNCHANGED <<vars, inbox, asking, answers>>

\* The frame loads a new document.
Load(p) ==
    /\ Update(p, FreshPage)
    /\ inbox' = [inbox EXCEPT ![p] = <<>>]
    /\ asking' = [asking EXCEPT ![p] = TRUE]
    /\ answers' = [answers EXCEPT ![p] = {}]
    /\ events' = [events EXCEPT ![p] = <<>>]
    /\ UNCHANGED vars

-----------------------------------------------------------------------------
(* The worker's steps, with what they put on the channels *)

Change(key, changed, value) == IF changed THEN <<[key |-> key, value |-> value]>> ELSE <<>>
PublishChanges ==
    events' = [p \in Pages |->
                 events[p] \o Change("local", local' # local, IF local' = "running" THEN "on" ELSE "off")
                           \o Change("settings", settings' # settings, Parse(settings'))]

\* notifySafety ends by sending the new state to every tab.
WorkerWorks ==
    /\ WorkerNext /\ safetyInstance' = safetyInstance
    /\ PublishChanges
    /\ inbox' = IF safetyRevision' = safetyRevision THEN inbox
                ELSE [p \in Pages |-> Append(inbox[p], StateMessage')]
    /\ UNCHANGED <<page, asking, answers>>

\* A dying worker takes its unanswered requests along and may leave a broadcast
\* unsent (the tabs are still being listed); every page loses its port.
WorkerDies ==
    /\ WorkerRestart
    /\ PublishChanges
    /\ \E sent \in BOOLEAN : inbox' = IF sent THEN inbox ELSE [p \in Pages |-> <<>>]
    /\ page' = [p \in Pages |-> [page[p] EXCEPT !.port = "lost"]]
    /\ asking' = [p \in Pages |-> FALSE]
    /\ UNCHANGED answers

OtherComputer ==
    /\ RemoteEdit
    /\ \A p \in Pages : Len(events[p]) < MaxEvents
    /\ PublishChanges
    /\ UNCHANGED <<page, inbox, asking, answers>>

PageNext(p) == \/ ReceiveSafety(p) \/ AnswerState(p) \/ ReceiveState(p) \/ Reconnect(p)
               \/ ServeLocalRead(p) \/ LocalReadEnds(p) \/ LocalReadFails(p)
               \/ ServeSettingsRead(p) \/ SettingsReadEnds(p) \/ SettingsReadFails(p)
               \/ StorageChanged(p) \/ Load(p)

GateNext == WorkerWorks \/ WorkerDies \/ OtherComputer \/ \E p \in Pages : PageNext(p)

\* The browser delivers broadcasts; nothing is assumed of any storage.
GateSpec == GateInit /\ [][GateNext]_allVars
GateFairSpec == GateSpec /\ \A p \in Pages : WF_allVars(ReceiveSafety(p))

-----------------------------------------------------------------------------
(* Properties *)

Reads == {"asked", "done"}

\* The shape of the pages and the channels; no answer is under way while
\* a request is.
GateTypeOK ==
    /\ TypeOK
    /\ page \in [Pages -> [enabled : BOOLEAN, port : {"open", "lost"},
                           runtimeOff : BOOLEAN, instance : 0..MaxRestarts, revision : Nat \cup {-1},
                           helperOff : BOOLEAN, localRead : Reads \cup {"off", "on"},
                           settingsLoaded : BOOLEAN, settingsOn : BOOLEAN,
                           settingsRead : Reads \cup Parsed]]
    /\ \A p \in Pages : /\ \A k \in 1..Len(inbox[p]) : inbox[p][k] \in Messages
                        /\ \A m \in answers[p] : m \in Messages /\ ~asking[p]

HeardWorker(p) == page[p].port = "open" /\ inbox[p] = <<>> /\ ~asking[p] /\ answers[p] = {}
HeardOf(p, key) == \A k \in 1..Len(events[p]) : events[p][k].key # key

\* A stop closes a page through either channel alone: once the page has taken
\* what the worker sent, or once it has read or been told the local key, it
\* does not run the helper, whichever answers were under way (content.ts: the
\* revision and read counters drop answers older than the stop).  The state has
\* its type throughout.
StopReachesThePage ==
    /\ GateTypeOK
    /\ \A p \in Pages, i \in Requests : Standing(i) =>
        /\ reply[i] \in {"waiting", "ok"} /\ HeardWorker(p) => ~page[p].enabled
        /\ reply[i] = "ok" /\ HeardOf(p, "local") /\ page[p].localRead = "done" => ~page[p].enabled

\* A page with nothing left to read or to receive runs the helper only if the
\* worker, the local key and the synchronised settings all allow it.
SettledPageIsAllowed ==
    \A p \in Pages :
        /\ page[p].enabled /\ HeardWorker(p)
        /\ HeardOf(p, "local") /\ HeardOf(p, "settings")
        /\ page[p].localRead = "done" /\ page[p].settingsRead = "done"
        => /\ page[p].instance = safetyInstance => ~runtimeStopped
           /\ local # "stopped"
           /\ settings # "disabled"

\* A stop closes every page in the end, even if no storage access ever ends,
\* unless the worker dies first or a later request is made.
StopClosesEveryPage ==
    \A p \in Pages, i \in Requests, life \in 0..MaxRestarts :
        (asked[i] = "off" /\ reply[i] = "waiting" /\ safetyInstance = life)
            ~> (~page[p].enabled \/ safetyInstance # life \/ enabledIntent > i)

=============================================================================
