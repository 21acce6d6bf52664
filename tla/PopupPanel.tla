----------------------------- MODULE PopupPanel -----------------------------
(***************************************************************************)
(* The popup's helper card, stop card and start card                       *)
(* (entrypoints/popup/main.ts).                                            *)
(*                                                                         *)
(* A press on the helper card or the stop card shows its outcome at once   *)
(* and asks the worker; the card is taken back when the worker refuses or  *)
(* does not answer in three seconds.  The same card is redrawn from two    *)
(* storage keys whenever one of them is read or changes, and at the end of *)
(* a start.  All of it overlaps: two presses, their answers, reads that    *)
(* were served before a change and arrive after it, and the five awaits of *)
(* a start, which the next press is to call off.                           *)
(*                                                                         *)
(* Abstractions.  A worker's request is "queued", "half" done (settings    *)
(* written, safety key not yet released) or "done"; HelperSafety has its   *)
(* stages.  A dying worker is a refusal after any part of the work.        *)
(* Stored settings that do not parse are left out (the popup keeps what it *)
(* last knew).  Storage reads and change events come in no fixed order.    *)
(* The text of a notice is left out, not which of the two notices stands.  *)
(***************************************************************************)
EXTENDS Naturals, Sequences

CONSTANTS MaxPresses,  \* bound on presses of the helper, stop and start card
          MaxChanges   \* bound on changes made elsewhere

ASSUME PopupBounds == MaxPresses \in Nat /\ MaxChanges \in Nat

VARIABLES stored,    \* the keys of chrome.storage: off (local), enabled (sync)
          events,    \* onChanged events on their way to the popup
          changes,   \* changes made elsewhere so far
          job,       \* what the worker has done of each request
          answer,    \* the worker's answers on their way
          view,      \* helperSafetyOff and settingsEnabled
          card,      \* helperCard: what it shows
          startable, \* startCard is not disabled
          intent,    \* helperToggleIntent
          press,     \* each press: what it asked, what a failure restores
          reads,     \* refreshHelperSafety: one read for the start, one per failure
          settingsRead, \* loadInitial
          blind,     \* history: the keys whose last read failed
          start,     \* where startActivity waits
          startIntent,   \* the intent startActivity remembers
          starts         \* starts so far

storage == <<stored, events, changes>>
worker == <<job, answer>>
starting == <<start, startIntent, starts>>
vars == <<storage, worker, view, card, startable, intent, press, reads, settingsRead, blind, starting>>

Presses == 1..MaxPresses
Keys == {"off", "enabled"}
Said(value) == IF value THEN "yes" ELSE "no"
NoPress == [next |-> FALSE, restores |-> {}, waiting |-> FALSE]

Effective(v) == v.enabled /\ ~v.off
Busy == start \notin {"idle", "closed"}
Open == start # "closed"

\* loadInitial and the first refreshHelperSafety have asked for their keys.
Init == /\ stored \in [Keys -> BOOLEAN]
        /\ events = <<>> /\ changes = 0
        /\ job = [i \in Presses |-> "none"]
        /\ answer = [i \in Presses |-> "none"]
        /\ view = [off |-> FALSE, enabled |-> TRUE]
        /\ card = TRUE /\ startable = TRUE
        /\ intent = 0
        /\ press = [i \in Presses |-> NoPress]
        /\ reads = [i \in 0..MaxPresses |-> IF i = 0 THEN "asked" ELSE "none"]
        /\ settingsRead = "asked"
        /\ blind = {}
        /\ start = "idle" /\ startIntent = 0 /\ starts = 0

\* renderEffectiveHelper, once the view is v
RenderWhile(v, busy) == /\ card' = Effective(v)
                        /\ startable' = (Effective(v) /\ ~busy)
RenderEffective(v) == view' = v /\ RenderWhile(v, Busy)

-----------------------------------------------------------------------------
(* Storage and the worker                                                  *)

Store(key, value) ==
    /\ stored' = [stored EXCEPT ![key] = value]
    /\ events' = IF stored[key] = value THEN events
                 ELSE Append(events, [key |-> key, value |-> value])

Ends(i, result) == /\ job' = [job EXCEPT ![i] = "done"]
                   /\ answer' = [answer EXCEPT ![i] = result]

\* A later request has been served: this one is superseded.
Overtaken(i) == \E j \in Presses : j > i /\ job[j] \notin {"none", "queued"}

popup == <<view, card, startable, intent, press, reads, settingsRead, blind, starting>>

WorkerStops(i) ==
    /\ job[i] = "queued" /\ ~press[i].next /\ ~Overtaken(i)
    /\ Store("off", TRUE)
    /\ \E result \in {"ok", "refused"} : Ends(i, result)
    /\ UNCHANGED <<changes, popup>>

\* The synchronised settings follow an acknowledged stop.
WorkerFollows(i) ==
    /\ job[i] = "done" /\ ~press[i].next /\ ~Overtaken(i) /\ stored.off
    /\ stored.enabled /\ Store("enabled", FALSE)
    /\ UNCHANGED <<changes, worker, popup>>

WorkerEnables(i) ==
    /\ job[i] = "queued" /\ press[i].next /\ ~Overtaken(i)
    /\ Store("enabled", TRUE)
    /\ job' = [job EXCEPT ![i] = "half"]
    /\ UNCHANGED <<answer, changes, popup>>

WorkerReleases(i) ==
    /\ job[i] = "half" /\ ~Overtaken(i)
    /\ Store("off", FALSE)
    /\ \E result \in {"ok", "refused"} : Ends(i, result)
    /\ UNCHANGED <<changes, popup>>

WorkerRefuses(i) ==
    /\ job[i] \in {"queued", "half"}
    /\ Ends(i, "refused")
    /\ UNCHANGED <<storage, popup>>

\* A page's own stop button, the options page, another computer.
ChangedElsewhere ==
    /\ changes < MaxChanges
    /\ changes' = changes + 1
    /\ \E key \in Keys : Store(key, ~stored[key])
    /\ UNCHANGED <<worker, popup>>

-----------------------------------------------------------------------------
(* Presses and their answers: toggleHelper, sendWithRevert                 *)

Toggle(next, restores) ==
    /\ intent + starts < MaxPresses
    /\ intent' = intent + 1
    /\ card' = next
    /\ press' = [press EXCEPT ![intent + 1] =
                    [next |-> next, restores |-> restores, waiting |-> TRUE]]
    /\ job' = [job EXCEPT ![intent + 1] = "queued"]
    /\ UNCHANGED <<storage, answer, view, startable, reads, settingsRead, blind, starting>>

PressHelper == Toggle(~card, {card})
PressStop == Toggle(FALSE, {})

Settle(i) == press' = [press EXCEPT ![i].waiting = FALSE, ![i].restores = {}]
TakesBack(i) == card' = IF press[i].restores = {} THEN card ELSE TRUE \in press[i].restores

\* Only the newest press is taken back, and what is stored is read again.
Fails(i) ==
    /\ Settle(i)
    /\ IF i = intent
       THEN TakesBack(i) /\ reads' = [reads EXCEPT ![i] = "asked"]
       ELSE UNCHANGED <<card, reads>>
    /\ UNCHANGED <<storage, job, view, startable, intent, settingsRead, blind, starting>>

Answered(i) ==
    /\ answer[i] # "none"
    /\ answer' = [answer EXCEPT ![i] = "none"]
    /\ IF press[i].waiting /\ answer[i] = "refused"
       THEN Fails(i)
       ELSE /\ Settle(i)
            /\ UNCHANGED <<storage, job, view, card, startable, intent, reads, settingsRead, blind, starting>>

TimesOut(i) == /\ press[i].waiting
               /\ Fails(i)
               /\ UNCHANGED answer

-----------------------------------------------------------------------------
(* Reads and change events                                                 *)

pressing == <<intent, press>>

ServeRead(i) == /\ reads[i] = "asked"
                /\ reads' = [reads EXCEPT ![i] = Said(stored.off)]
                /\ UNCHANGED <<storage, worker, view, card, startable, pressing, settingsRead, blind, starting>>

ReceiveRead(i) == /\ reads[i] \in {"yes", "no"}
                  /\ reads' = [reads EXCEPT ![i] = "none"]
                  /\ blind' = blind \ {"off"}
                  /\ RenderEffective([view EXCEPT !.off = (reads[i] = "yes")])
                  /\ UNCHANGED <<storage, worker, pressing, settingsRead, starting>>

\* The read is rejected: a notice is shown and the card stays as it is.
ReadFails(i) == /\ reads[i] = "asked"
                /\ reads' = [reads EXCEPT ![i] = "none"]
                /\ blind' = blind \cup {"off"}
                /\ UNCHANGED <<storage, worker, view, card, startable, pressing, settingsRead, starting>>

ServeSettings == /\ settingsRead = "asked"
                 /\ settingsRead' = Said(stored.enabled)
                 /\ UNCHANGED <<storage, worker, view, card, startable, pressing, reads, blind, starting>>

ReceiveSettings == /\ settingsRead \in {"yes", "no"}
                   /\ settingsRead' = "none"
                   /\ RenderEffective([view EXCEPT !.enabled = (settingsRead = "yes")])
                   /\ UNCHANGED <<storage, worker, pressing, reads, blind, starting>>

SettingsReadFails == /\ settingsRead = "asked"
                     /\ settingsRead' = "none"
                     /\ blind' = blind \cup {"enabled"}
                     /\ UNCHANGED <<storage, worker, view, card, startable, pressing, reads, starting>>

DropNothing(key) == UNCHANGED <<reads, settingsRead>>
\* A change makes every read of the same key stale: its answer is dropped.
DropReads(key) ==
    IF key = "off"
    THEN reads' = [i \in 0..MaxPresses |-> "none"] /\ UNCHANGED settingsRead
    ELSE settingsRead' = "none" /\ UNCHANGED reads
ReceiveEvent ==
    /\ events # <<>>
    /\ events' = Tail(events)
    /\ blind' = blind \ {Head(events).key}
    /\ RenderEffective([view EXCEPT ![Head(events).key] = Head(events).value])
    /\ DropReads(Head(events).key)
    /\ UNCHANGED <<stored, changes, worker, pressing, starting>>

-----------------------------------------------------------------------------
(* startActivity                                                           *)

others == <<storage, worker, pressing, reads, settingsRead, blind>>
Current == startIntent = intent /\ Effective(view)

PressStart == /\ start = "idle" /\ startable /\ intent + starts < MaxPresses
              /\ starts' = starts + 1
              /\ start' = "tab"
              /\ startIntent' = intent
              /\ startable' = FALSE
              /\ UNCHANGED <<others, view, card>>

Goes(from, to) == /\ start = from /\ start' = to
                  /\ UNCHANGED <<others, view, card, startable, startIntent, starts>>

\* Every way out redraws the cards, and does nothing else.
StartLeaves == /\ start' = "idle"
               /\ RenderWhile(view, FALSE)
               /\ UNCHANGED <<others, view, startIntent, starts>>

TabFound == Goes("tab", "connect")
Connected == Current /\ Goes("connect", "settings")
SettingsChanged == Current /\ Goes("settings", "activate")
TabActivated == Goes("activate", "begin")
BegunAnyway == Goes("begin", "closed")
Begun == Current /\ Goes("begin", "closed")

\* No tab, a page that cannot be helped, a refusal, or five seconds.
StartFails == Busy /\ StartLeaves
\* A press or a change overtook the start.
StartCalledOff == /\ start \in {"connect", "settings", "begin"} /\ ~Current
                  /\ StartLeaves

Starting == \/ PressStart \/ TabFound \/ Connected \/ SettingsChanged \/ TabActivated
            \/ Begun \/ StartFails \/ StartCalledOff

\* A popup that has closed leaves nothing to see.
Next == /\ Open
        /\ \/ \E i \in Presses : \/ WorkerStops(i) \/ WorkerFollows(i) \/ WorkerEnables(i)
                                 \/ WorkerReleases(i) \/ WorkerRefuses(i)
                                 \/ Answered(i) \/ TimesOut(i)
           \/ ChangedElsewhere
           \/ PressHelper \/ PressStop
           \/ \E i \in 0..MaxPresses : ServeRead(i) \/ ReceiveRead(i) \/ ReadFails(i)
           \/ ServeSettings \/ ReceiveSettings \/ SettingsReadFails
           \/ ReceiveEvent
           \/ Starting

Spec == Init /\ [][Next]_vars

-----------------------------------------------------------------------------
(* Properties *)

\* The popup has been told of every change, and no first read is missing.
Informed == /\ events = <<>> /\ blind = {} /\ settingsRead = "none"
            /\ \A i \in 0..MaxPresses : reads[i] = "none"
Answerless == \A i \in Presses : job[i] \in {"none", "done"} /\ ~press[i].waiting

\* Once the answers and the news are in, the helper card and the start card
\* say what is stored: no press that failed, no answer of an earlier press, no
\* read served before a change and no start leaves them untrue (main.ts,
\* WR-05: every refusal takes the screen back to the real state).
PanelIsTrue ==
    Open /\ Informed /\ Answerless =>
        card = Effective(stored) /\ startable = (Effective(stored) /\ ~Busy)

\* A start closes the popup over a running helper only: whatever was pressed
\* or changed during its five awaits, an informed popup that closed itself
\* left a helper that is on (startActivity: current()).
ClosesOverARunningHelper == start = "closed" /\ Informed => Effective(stored)

=============================================================================
