------------------------ MODULE SwitchExecutionProofs ------------------------
(***************************************************************************)
(* Theorems about the execution of selections, for any number of requests, *)
(* documents, pauses and restarts.                                         *)
(*                                                                         *)
(* Two things keep the order of selection. The top document vouches for    *)
(* its latest selection only, so a call that is older than another goes on *)
(* only where it needs no word of the top document any more (Released). A  *)
(* press that is there holds the gate of its frame, and no other press     *)
(* gets past it there; a press in another document may (Ungated). A reload *)
(* that is there has a cancellation behind it, and whatever was selected   *)
(* later stays behind that cancellation (Overtaken). The same cancellation *)
(* is what the withdrawal of a call leaves under way (Followed).           *)
(***************************************************************************)
EXTENDS SwitchExecution, TLAPS

-----------------------------------------------------------------------------
(* The inductive invariant *)

MenuIds == {"press", "reload", "cancel", "confirm"}
Menus == {Root, Dialog}
Locks == MenuIds \cup {Nothing, AtResume, AtStop}
Actions == [gen : Nat, seq : Nat, item : Locks]
TopStates == [mode : Modes, resume : Modes, items : Menus, scan : Nat, cycle : Nat,
              pressed : Locks, pending : Actions, gen : Nat, seq : Nat, settled : BOOLEAN]

\* Between two events nothing is pressed, and only a state that executes waits,
\* for its own last selection.
TopOK(t) == /\ t \in TopStates /\ t.pressed = Nothing /\ t.settled
            /\ t.mode # "ready" /\ t.resume \in Scanning
            /\ t.pending # NoAction => /\ t.mode = "executing"
                                       /\ t.pending.gen = t.gen /\ t.pending.seq = t.seq

PressStages == {"request", "authorize", "deliver", "ended"} \cup Held
ReloadStages == {"request", "authorize", "answered", "again", "confirmed", "ended"}
Answers == Results \cup {"none"}

CallRecords == [kind : {"none", "press", "reload"}, gen : Nat, seq : Nat,
                frame : Frames, doc : 0..MaxDocs,
                stage : {"unused"} \cup PressStages \cup ReloadStages, ahead : Nat, report : Nat,
                valid : BOOLEAN, local : BOOLEAN, reply : Answers \cup {"lost"}, told : Answers]

\* A call goes through the stages of its kind; it is answered truly at its end.
CallOK(call) == /\ call \in CallRecords
                /\ call.kind = "none" <=> call.stage = "unused"
                /\ call.kind = "press" => call.stage \in PressStages
                /\ call.kind = "reload" => call.stage \in ReloadStages /\ call.frame = "top"
                /\ {call.reply, call.told} \cap {"done", "refused"} # {} => call.stage = "ended"
                /\ call.kind = "none" => call.told = "none" /\ call.reply = "none"

ChildStates == [Children -> [doc : 0..MaxDocs, pending : Calls \cup {0}]]
Pauses == [Children -> Nat]
Reports == [Frames -> 0..MaxDocs \cup {NoDocument}]
ReportMessages == Frames \X (0..MaxDocs)

Typed == /\ TopOK(top) /\ top.gen <= MaxGen
         /\ calls \in [Calls -> CallRecords] /\ \A c \in Calls : CallOK(calls[c])
         /\ confirmation \in BOOLEAN /\ unresolved \in BOOLEAN
         /\ inFlight = {c \in Calls : calls[c].kind # "none" /\ calls[c].told = "none"}
         /\ child \in ChildStates /\ report \in Reports /\ reporting \subseteq ReportMessages
         /\ cancels \in Nat /\ childPauses \in Pauses /\ topPauses \in Nat
         /\ lost \subseteq Frames /\ ran \in Seq(Calls)

Used(c) == calls[c].stage # "unused"

\* Calls are numbered as they were selected; a call of the top document's
\* present generation that is in flight is the one it waits for.
Numbered ==
    \A c \in Calls :
        /\ Used(c) => calls[c].seq \in 1..top.seq /\ calls[c].gen <= top.gen
        /\ c \in inFlight /\ calls[c].gen = top.gen => Awaits(c)
        /\ \A d \in Calls : c < d /\ Used(d) => Used(c) /\ calls[c].seq < calls[d].seq

\* The gate of a child is held by the one call at work in it, on its document.
Gated ==
    \A c \in Calls :
        /\ calls[c].stage \in Held =>
              /\ calls[c].frame \in Children
              /\ child[calls[c].frame] = [doc |-> calls[c].doc, pending |-> c]
        /\ \A f \in Children : child[f].pending = c => calls[c].stage \in Held /\ calls[c].frame = f

\* What has been told is so.
HasRun(c) == \E k \in 1..Len(ran) : ran[k] = c
Truthful ==
    \A c \in Calls : /\ HasRun(c) => calls[c].stage = "ended"
                     /\ "done" \in {calls[c].reply, calls[c].told} => HasRun(c)
                     /\ "refused" \in {calls[c].reply, calls[c].told} => ~HasRun(c)
                     /\ calls[c].told = "unknown" => unresolved
                     /\ calls[c].kind = "reload" =>
                           \A d \in Calls : d < c => calls[d].told \in {"done", "refused"}

\* The call needs no further word of the top document.
Released(c) == \/ calls[c].stage = "approved"
               \/ calls[c].stage = "recheck"
               \/ calls[c].stage = "confirmed" /\ calls[c].valid

\* Of two calls the earlier one acts first or not at all, or no gate holds them apart.
Overtaken ==
    /\ InSelectionOrder
    /\ \A c, d \in Calls : c < d /\ Released(c) =>
          /\ HasRun(d) => Ungated(c, d)
          /\ calls[c].stage = "confirmed" /\ Used(d) => calls[d].stage = "request" /\ calls[d].ahead > 0

\* A call that is released and still wanted by no one is followed.
Followed ==
    \A c \in Calls :
        /\ calls[c].stage = "confirmed" /\ calls[c].valid => Awaits(c) \/ cancels > 0
        /\ /\ calls[c].local
           /\ calls[c].stage = "approved" \/ (calls[c].stage = "recheck" /\ calls[c].valid)
           => Awaits(c) \/ cancels > 0 \/ childPauses[calls[c].frame] > 0 \/ calls[c].frame \in lost
        /\ calls[c].local /\ calls[c].stage \in {"approve", "recheck", "approved"}
           => report[calls[c].frame] # NoDocument \/ calls[c].frame \in lost

IInv == Typed /\ Numbered /\ Gated /\ Truthful /\ Overtaken /\ Followed
-----------------------------------------------------------------------------
(* The engine of the top document *)

\* No action is an action like any other, numbered 0.
LEMMA NoActionType == NoAction \in Actions /\ NoAction.gen = 0 /\ NoAction.seq = 0
BY DEF NoAction, Actions, Locks

\* Both menus have two items that can be chosen, and that are no waking press.
LEMMA MenuType ==
  /\ Root # Dialog /\ Len(Root) = 2 /\ Len(Dialog) = 2
  /\ Root[1].enabled /\ Root[2].enabled /\ Dialog[1].enabled /\ Dialog[2].enabled
  /\ \A k \in 1..2 : /\ Root[k].id \in MenuIds \ {Nothing, AtResume, AtStop}
                     /\ Dialog[k].id \in MenuIds \ {Nothing, AtResume, AtStop}
BY DEF MenuIds, Root, Dialog, command, Nothing, AtResume, AtStop

\* A new menu ends the wait, in a new generation.
LEMMA SetItemsOK ==
  ASSUME NEW t, TopOK(t), NEW items \in Menus, NEW mode \in Scanning
  PROVE  /\ TopOK(SetItems(t, items, mode)) /\ SetItems(t, items, mode).pending = NoAction
         /\ SetItems(t, items, mode).gen = t.gen + 1 /\ SetItems(t, items, mode).seq = t.seq
<1>. DEFINE g == t.gen + 1
            none == NoAction
            nothing == Nothing
            u == [t EXCEPT !.items = items, !.pending = none, !.mode = mode, !.resume = mode]
            v == [u EXCEPT !.scan = 0, !.cycle = 0]
            k == SetItems(t, items, mode)
<1>1. k = [v EXCEPT !.pressed = nothing, !.gen = g]
  BY DEF SetItems
<1>2. /\ t \in TopStates /\ t.settled /\ g \in Nat /\ none \in Actions /\ nothing \in Locks
      /\ mode \in Modes
  BY NoActionType DEF TopOK, TopStates, Locks, Scanning, Modes
<1>. HIDE DEF g, none, nothing, k
<1>3. /\ u \in TopStates /\ u.pending = none /\ u.resume = mode /\ u.mode = mode
      /\ u.settled = t.settled /\ u.seq = t.seq
  BY <1>2 DEF TopStates
<1>. HIDE DEF u
<1>4. /\ v \in TopStates /\ v.pending = none /\ v.resume = mode /\ v.mode = mode
      /\ v.settled = t.settled /\ v.seq = t.seq
  BY <1>3 DEF TopStates
<1>. HIDE DEF v
<1>5. /\ k \in TopStates /\ k.pending = none /\ k.resume = mode /\ k.mode = mode /\ k.settled = t.settled
      /\ k.seq = t.seq /\ k.gen = g /\ k.pressed = nothing
  BY <1>1, <1>2, <1>4 DEF TopStates
<1>6. mode # "ready"
  BY DEF Scanning
<1>. QED BY <1>2, <1>5, <1>6 DEF TopOK, k, none, nothing, g

\* So does a pause.
LEMMA PauseOK ==
  ASSUME NEW t, TopOK(t)
  PROVE  /\ TopOK(Pause(t)) /\ Pause(t).pending = NoAction
         /\ Pause(t).gen = t.gen + 1 /\ Pause(t).seq = t.seq
<1>. DEFINE r == IF t.mode = "scrolling" THEN "itemScan"
                 ELSE IF t.mode \in {"paused", "executing", "recovering"} THEN t.resume
                 ELSE t.mode
            g == t.gen + 1
            none == NoAction
            nothing == Nothing
            k == Pause(t)
<1>1. k = [t EXCEPT !.resume = r, !.mode = "paused", !.pressed = nothing, !.pending = none, !.gen = g]
  BY DEF Pause
<1>2. /\ t \in TopStates /\ t.settled /\ g \in Nat /\ none \in Actions /\ nothing \in Locks
      /\ "paused" \in Modes /\ t.mode \in Modes
  BY NoActionType DEF TopOK, TopStates, Locks, Modes
<1>3. r \in Modes /\ r \in Scanning
  BY <1>2 DEF TopOK, Scanning, Modes
<1>. HIDE DEF r, g, none, nothing, k
<1>4. /\ k \in TopStates /\ k.pending = none /\ k.resume = r /\ k.mode = "paused" /\ k.settled = t.settled
      /\ k.seq = t.seq /\ k.gen = g /\ k.pressed = nothing
  BY <1>1, <1>2, <1>3 DEF TopStates
<1>. QED BY <1>2, <1>3, <1>4 DEF TopOK, k, none, nothing, g

\* Both in either order; the generation grows.
LEMMA PausedOK ==
  ASSUME NEW t, TopOK(t)
  PROVE  /\ TopOK(Paused(t)) /\ Paused(t).pending = NoAction
         /\ Paused(t).gen > t.gen /\ Paused(t).seq = t.seq
<1>1. t.gen \in Nat /\ "groupScan" \in Scanning /\ Root \in Menus
  BY DEF TopOK, TopStates, Scanning, Menus
<1>2. /\ TopOK(Pause(t)) /\ Pause(t).pending = NoAction
      /\ Pause(t).gen = t.gen + 1 /\ Pause(t).seq = t.seq
  BY PauseOK
<1>. DEFINE u == SetItems(t, Root, "groupScan")
<1>3. TopOK(u) /\ u.gen = t.gen + 1 /\ u.seq = t.seq
  BY <1>1, SetItemsOK
<1>4. Paused(t) = Pause(t) \/ Paused(t) = Pause(u)
  BY DEF Paused
<1>. HIDE DEF u
<1>5. /\ TopOK(Pause(u)) /\ Pause(u).pending = NoAction
      /\ Pause(u).gen = u.gen + 1 /\ Pause(u).seq = u.seq
  BY <1>3, PauseOK
<1>. QED BY <1>1, <1>2, <1>3, <1>4, <1>5

\* So does a change of the page.
LEMMA InvalidatedOK ==
  ASSUME NEW t, TopOK(t)
  PROVE  /\ TopOK(Invalidated(t)) /\ Invalidated(t).pending = NoAction
         /\ Invalidated(t).gen > t.gen /\ Invalidated(t).seq = t.seq
<1>. DEFINE u == SetItems(t, Root, "groupScan")
<1>1. t.gen \in Nat /\ "groupScan" \in Scanning /\ Root \in Menus
  BY DEF TopOK, TopStates, Scanning, Menus
<1>2. TopOK(u) /\ u.gen = t.gen + 1 /\ u.seq = t.seq
  BY <1>1, SetItemsOK
<1>3. Invalidated(t) = Paused(u)
  BY DEF Invalidated
<1>. HIDE DEF u
<1>4. /\ TopOK(Paused(u)) /\ Paused(u).pending = NoAction
      /\ Paused(u).gen > u.gen /\ Paused(u).seq = u.seq
  BY <1>2, PausedOK
<1>5. Paused(u).gen \in Nat
  BY <1>4 DEF TopOK, TopStates
<1>. QED BY <1>1, <1>2, <1>3, <1>4, <1>5

\* The press that wakes the panel selects nothing.
LEMMA WakeOK ==
  ASSUME NEW t, TopOK(t), t.mode \in Waking,
         NEW u, u = [KeyUp(KeyDown(t)) EXCEPT !.settled = TRUE]
  PROVE  TopOK(u) /\ u.pending = NoAction /\ u.gen = t.gen /\ u.seq = t.seq
<1>. DEFINE d == KeyDown(t)
            m == Resumed(d)
            nothing == Nothing
            none == NoAction
            r == [d EXCEPT !.pressed = nothing, !.settled = FALSE, !.cycle = 0]
            k == [r EXCEPT !.mode = m, !.scan = 0]
<1>1. /\ t \in TopStates /\ t.pending = none /\ t.pressed = Nothing /\ t.settled
      /\ t.resume \in Scanning
  BY DEF TopOK, Waking
<1>2. d = [t EXCEPT !.pressed = AtResume]
  BY <1>1 DEF KeyDown, Offered
<1>3. AtResume \in Locks /\ AtResume # Nothing
  BY DEF Locks, AtResume, Nothing
<1>. HIDE DEF d, none
<1>4. /\ d \in TopStates /\ d.pressed = AtResume /\ d.resume = t.resume /\ d.gen = t.gen
      /\ d.seq = t.seq /\ d.pending = none
  BY <1>1, <1>2, <1>3 DEF TopStates
<1>5. KeyUp(d) = k
  BY <1>3, <1>4 DEF KeyUp
<1>6. m \in Modes /\ m # "ready" /\ nothing \in Locks
  BY <1>1, <1>4 DEF Resumed, Scanning, Modes, Locks
<1>. HIDE DEF m, nothing
<1>7. /\ r \in TopStates /\ r.pressed = nothing /\ r.resume = t.resume /\ r.gen = t.gen
      /\ r.seq = t.seq /\ r.pending = none
  BY <1>1, <1>4, <1>6 DEF TopStates
<1>. HIDE DEF r
<1>8. /\ k \in TopStates /\ k.pressed = nothing /\ k.resume = t.resume /\ k.mode = m /\ k.gen = t.gen
      /\ k.seq = t.seq /\ k.pending = none
  BY <1>6, <1>7 DEF TopStates
<1>9. u = [k EXCEPT !.settled = TRUE]
  BY <1>5 DEF d
<1>. HIDE DEF k
<1>10. /\ u \in TopStates /\ u.pressed = nothing /\ u.resume = t.resume /\ u.mode = m /\ u.gen = t.gen
       /\ u.seq = t.seq /\ u.pending = none /\ u.settled
  BY <1>8, <1>9 DEF TopStates
<1>. QED BY <1>1, <1>6, <1>10 DEF TopOK, nothing, none

\* A press while item k is offered selects it: the engine waits for the result.
LEMMA ChosenOK ==
  ASSUME TopOK(top), NEW k \in 1..2, top.mode \in Scanning
  PROVE  /\ TopOK(Chosen(k)) /\ Chosen(k).pending # NoAction
         /\ Chosen(k).gen = top.gen /\ Chosen(k).seq = top.seq + 1
         /\ Chosen(k).pending.gen = top.gen /\ Chosen(k).pending.seq = top.seq + 1
<1>. DEFINE j == k - 1
            o == Offering(k)
            id == top.items[k].id
            d == KeyDown(o)
            nothing == Nothing
            n == top.seq + 1
            act == [gen |-> top.gen, seq |-> n, item |-> id]
            r == [d EXCEPT !.pressed = nothing, !.settled = FALSE, !.cycle = 0]
            was == top.mode
            u == [r EXCEPT !.seq = n, !.pending = act, !.resume = was, !.mode = "executing"]
<1>1. /\ top \in TopStates /\ top.pending = NoAction /\ top.pressed = Nothing /\ top.settled
      /\ top.gen \in Nat /\ top.seq \in Nat /\ top.items \in Menus /\ was \in Modes
  BY DEF TopOK, TopStates, Scanning
<1>2. /\ top.items[k].enabled /\ id \in MenuIds /\ id # Nothing /\ id # AtResume /\ id # AtStop
      /\ Len(top.items) = 2
  BY <1>1, MenuType DEF Menus
<1>3. o = [top EXCEPT !.scan = j] /\ j \in Nat /\ j < 2
  BY DEF Offering
<1>. HIDE DEF o, j
<1>4. /\ o \in TopStates /\ o.pending = NoAction /\ o.pressed = Nothing /\ o.settled
      /\ o.mode = was /\ o.items = top.items /\ o.scan = j /\ o.gen = top.gen /\ o.seq = top.seq
  BY <1>1, <1>3 DEF TopStates
<1>5. Offered(o) = id
  <2>1. o.mode \notin Waking /\ o.mode # "scrolling"
    BY <1>4 DEF Scanning, Waking
  <2>2. o.scan < Len(o.items)
    BY <1>2, <1>3, <1>4
  <2>3. o.scan + 1 = k
    BY <1>4 DEF j
  <2>. QED BY <1>4, <2>1, <2>2, <2>3 DEF Offered
<1>. HIDE DEF id
<1>6. d = [o EXCEPT !.pressed = id] /\ id \in Locks
  BY <1>2, <1>4, <1>5 DEF KeyDown, Locks
<1>. HIDE DEF d
<1>7. /\ d \in TopStates /\ d.pressed = id /\ d.mode = was /\ d.items = top.items
      /\ d.gen = top.gen /\ d.seq = top.seq
  BY <1>4, <1>6 DEF TopStates
<1>8. Runs(d)
  <2>1. k \in 1..Len(d.items) /\ d.items[k].id = d.pressed /\ d.items[k].enabled
    BY <1>2, <1>7 DEF id
  <2>. QED BY <2>1 DEF Runs
<1>9. Selected(d) = act
  BY <1>7 DEF Selected
<1>10. KeyUp(d) = u
  BY <1>2, <1>7, <1>8, <1>9 DEF KeyUp
<1>11. act \in Actions /\ act.gen = top.gen /\ act.seq = n /\ n \in Nat /\ nothing \in Locks
  BY <1>1, <1>6 DEF Actions, Locks
<1>12. act # NoAction
  BY <1>1, <1>11, NoActionType
<1>. HIDE DEF act, nothing, n, was
<1>13. r \in TopStates /\ r.pressed = nothing /\ r.gen = top.gen
  BY <1>7, <1>11 DEF TopStates
<1>. HIDE DEF r
<1>14. /\ u \in TopStates /\ u.pressed = nothing /\ u.gen = top.gen /\ u.seq = n
       /\ u.pending = act /\ u.resume = was /\ u.mode = "executing"
  BY <1>1, <1>11, <1>13 DEF TopStates, Modes
<1>15. Chosen(k) = [u EXCEPT !.scan = 0, !.settled = TRUE]
  BY <1>10 DEF Chosen, d, o
<1>. HIDE DEF u
<1>. DEFINE v == Chosen(k)
<1>16. v = [u EXCEPT !.scan = 0, !.settled = TRUE]
  BY <1>15
<1>. HIDE DEF v
<1>17. /\ v \in TopStates /\ v.pressed = nothing /\ v.gen = top.gen /\ v.seq = n
       /\ v.pending = act /\ v.resume = was /\ v.mode = "executing" /\ v.settled
  BY <1>14, <1>16 DEF TopStates
<1>18. TopOK(v)
  BY <1>11, <1>17 DEF TopOK, nothing, was
<1>. QED BY <1>11, <1>12, <1>17, <1>18 DEF v, n

\* The result of the action waited for ends the wait; any other changes nothing.
LEMMA ResultOK ==
  ASSUME NEW t, TopOK(t), NEW gen, NEW seq, NEW result
  PROVE  /\ TopOK(ActionResult(t, gen, seq, result))
         /\ ActionResult(t, gen, seq, result).gen = t.gen
         /\ ActionResult(t, gen, seq, result).seq = t.seq
         /\ t.pending.gen = gen /\ t.pending.seq = seq
               => ActionResult(t, gen, seq, result).pending = NoAction
         /\ ~(t.pending.gen = gen /\ t.pending.seq = seq)
               => ActionResult(t, gen, seq, result) = t
<1>. DEFINE u == [t EXCEPT !.pending = NoAction,
                           !.mode = IF result = "unknown" THEN "recovering" ELSE t.resume]
<1>1. t \in TopStates
  BY DEF TopOK
<1>2. ActionResult(t, gen, seq, result) = u \/ ActionResult(t, gen, seq, result) = t
  BY DEF ActionResult
<1>3. /\ u \in TopStates /\ u.pending = NoAction /\ u.gen = t.gen /\ u.seq = t.seq
      /\ u.pressed = t.pressed /\ u.settled = t.settled /\ u.resume = t.resume
      /\ u.mode # "ready"
  BY <1>1, NoActionType DEF TopOK, TopStates, Modes, Scanning
<1>4. TopOK(u)
  BY <1>3 DEF TopOK
<1>5. /\ t.pending.gen = gen /\ t.pending.seq = seq /\ t.pending # NoAction
            => ActionResult(t, gen, seq, result) = u
      /\ ~(t.pending.gen = gen /\ t.pending.seq = seq) => ActionResult(t, gen, seq, result) = t
      /\ t.pending = NoAction => ActionResult(t, gen, seq, result) = t
  BY DEF ActionResult
<1>. HIDE DEF u
<1>. QED BY <1>2, <1>3, <1>4, <1>5

-----------------------------------------------------------------------------
(* What the invariant says of the latest selection *)

\* The bounds and the names of calls are numbers.
LEMMA Bounds ==
  {MaxCalls, MaxGen, MaxSeq, MaxDocs, MaxRestarts} \subseteq Nat /\ MaxGen > 0 /\ Calls \subseteq Nat
BY BoundsAssumption DEF BoundsAssumption, Calls

\* Nothing has been selected after a call that is awaited.
LEMMA Latest ==
  ASSUME Typed, Numbered, NEW c \in Calls, Awaits(c), NEW d \in Calls, c < d
  PROVE  ~Used(d)
<1>. SUFFICES ASSUME Used(d) PROVE FALSE
  OBVIOUS
<1>1. top.pending.seq = top.seq /\ top.pending.seq = calls[c].seq
  BY DEF Awaits, Typed, TopOK
<1>2. calls[c].seq < calls[d].seq /\ calls[d].seq \in 1..top.seq /\ top.seq \in Nat
      /\ calls[c].seq \in Nat
  BY DEF Numbered, Typed, TopOK, TopStates, CallRecords
<1>. QED BY <1>1, <1>2

\* Only a call that was made has run; and it stays what it was.
LEMMA OrderKeeps ==
  ASSUME IInv, ran' = ran,
         \A d \in Calls : Used(d) => calls'[d].kind = calls[d].kind /\ calls'[d].frame = calls[d].frame
  PROVE  InSelectionOrder'
<1>. SUFFICES ASSUME NEW i \in 1..Len(ran), NEW j \in 1..Len(ran), i < j
              PROVE  ran[i] < ran[j] \/ (ran[j] < ran[i] /\ Ungated(ran[j], ran[i])')
  BY DEF InSelectionOrder, Ungated
<1>1. ran[i] \in Calls /\ ran[j] \in Calls /\ HasRun(ran[i]) /\ HasRun(ran[j])
  BY DEF IInv, Typed, HasRun
<1>2. Used(ran[i]) /\ Used(ran[j])
  BY <1>1 DEF IInv, Truthful, Used
<1>3. ran[i] < ran[j] \/ (ran[j] < ran[i] /\ Ungated(ran[j], ran[i]))
  BY DEF IInv, Overtaken, InSelectionOrder
<1>. QED BY <1>1, <1>2, <1>3 DEF Ungated

\* What is at work in a child holds its gate, on its document.
LEMMA GateHeld ==
  ASSUME IInv, NEW c \in Calls, calls[c].stage \in Held
  PROVE  /\ calls[c].frame \in Children
         /\ child[calls[c].frame].pending = c /\ child[calls[c].frame].doc = calls[c].doc
<1>1. /\ calls[c].frame \in Children
      /\ child[calls[c].frame] = [doc |-> calls[c].doc, pending |-> c]
  BY DEF IInv, Gated
<1>. QED BY <1>1

-----------------------------------------------------------------------------
(* Steps of the top document that leave the calls alone *)

\* The top document takes a step of its own, and what it no longer waits for is
\* followed by a cancellation.
LEMMA TopMoves ==
  ASSUME IInv, TopOK(top'), top'.gen <= MaxGen, top'.gen >= top.gen, top'.seq >= top.seq,
         UNCHANGED <<calls, inFlight, unresolved, child, report, ran>>,
         confirmation' \in BOOLEAN, reporting' \subseteq ReportMessages,
         cancels' \in Nat, cancels' >= cancels, childPauses' = childPauses, topPauses' \in Nat,
         lost' \subseteq Frames, \A f \in Children : f \in lost => f \in lost',
         \A c \in Calls : Awaits(c) => Awaits(c)' \/ cancels' > 0,
         \A c \in inFlight : calls[c].gen = top'.gen => Awaits(c)'
  PROVE  IInv'
<1>. USE DEF IInv
<1>1. /\ top.gen \in Nat /\ top.seq \in Nat /\ top'.gen \in Nat /\ top'.seq \in Nat
      /\ cancels \in Nat
      /\ \A c \in Calls : calls[c].seq \in Nat /\ calls[c].gen \in Nat
  BY DEF Typed, TopOK, TopStates, CallRecords
<1>2. Typed'
  BY DEF Typed
<1>3. Numbered'
  BY <1>1 DEF Numbered, Used
<1>4. Gated' /\ Truthful'
  BY DEF Gated, Truthful, HasRun
<1>5. Overtaken'
  <2>1. InSelectionOrder'
    BY OrderKeeps
  <2>. QED BY <2>1 DEF Overtaken, Ungated, Released, HasRun, Used
<1>6. Followed'
  <2>1. \A c \in Calls : calls[c].stage \in {"approve", "recheck", "approved"} => calls[c].frame \in Children
    BY DEF Gated, Held
  <2>. QED BY <1>1, <2>1 DEF Followed
<1>. QED BY <1>2, <1>3, <1>4, <1>5, <1>6

\* A boundary after which nothing is awaited.
LEMMA BoundaryKeeps ==
  ASSUME IInv, NEW t, top' = t, TopOK(t), t.pending = NoAction, t.gen <= MaxGen,
         t.gen > top.gen, t.seq >= top.seq,
         UNCHANGED <<calls, inFlight, unresolved, child, report, ran, childPauses>>,
         confirmation' \in BOOLEAN, reporting' \subseteq ReportMessages,
         cancels' = cancels + 1 \/ (cancels' = cancels /\ top.pending = NoAction), topPauses' \in Nat,
         lost' \subseteq Frames, \A f \in Children : f \in lost => f \in lost'
  PROVE  IInv'
<1>1. /\ top.gen \in Nat /\ top.seq \in Nat /\ t.gen \in Nat /\ t.seq \in Nat
      /\ cancels \in Nat
  BY DEF IInv, Typed, TopOK, TopStates
<1>2. \A c \in inFlight : calls[c].gen # t.gen
  <2>1. ASSUME NEW c \in inFlight PROVE calls[c].gen <= top.gen /\ calls[c].gen \in Nat
    BY DEF IInv, Typed, CallOK, CallRecords, Numbered, Used
  <2>. QED BY <1>1, <2>1
<1>3. \A c \in Calls : Awaits(c) => cancels' > 0
  BY <1>1 DEF Awaits
<1>. QED BY <1>1, <1>2, <1>3, TopMoves

\* A step after which nothing is awaited either, as nothing was.
LEMMA IdleKeeps ==
  ASSUME IInv, NEW t, top' = t, TopOK(t), t.pending = NoAction, t.gen <= MaxGen,
         t.gen >= top.gen, t.seq >= top.seq, top.pending = NoAction,
         UNCHANGED <<calls, inFlight, unresolved, child, report, ran, channels, lost>>,
         confirmation' \in BOOLEAN
  PROVE  IInv'
<1>1. /\ top.gen \in Nat /\ top.seq \in Nat /\ t.gen \in Nat /\ t.seq \in Nat
      /\ cancels \in Nat /\ topPauses \in Nat /\ lost \subseteq Frames /\ reporting \subseteq ReportMessages
  BY DEF IInv, Typed, TopOK, TopStates
<1>2. UNCHANGED <<reporting, cancels, childPauses, topPauses>>
  BY DEF channels
<1>3. \A c \in inFlight : calls[c].gen # t.gen
  <2>1. ASSUME NEW c \in inFlight PROVE calls[c].gen <= top.gen /\ calls[c].gen \in Nat
    BY DEF IInv, Typed, CallOK, CallRecords, Numbered, Used
  <2>2. ASSUME NEW c \in inFlight PROVE calls[c].gen # top.gen
    BY DEF IInv, Typed, Numbered, Awaits
  <2>. QED BY <1>1, <2>1, <2>2
<1>4. \A c \in Calls : ~Awaits(c)
  BY DEF Awaits
<1>. QED BY <1>1, <1>2, <1>3, <1>4, TopMoves

\* While the panel scans, nothing is awaited.
LEMMA ScanningIsIdle ==
  ASSUME TopOK(top), top.mode \in Scanning
  PROVE  top.pending = NoAction
BY DEF TopOK, Scanning

\* Every pause sends a cancellation after what was awaited.
LEMMA PausesKeep ==
  ASSUME IInv, top'.gen <= MaxGen, PauseByUser \/ TopHearsPause \/ TopReconnects
  PROVE  IInv'
<1>1. TopOK(top) /\ lost \subseteq Frames /\ topPauses \in Nat /\ reporting \subseteq ReportMessages
  BY DEF IInv, Typed
<1>2. PICK t \in {Paused(top), Invalidated(top)} : PauseTo(t)
  BY DEF PauseByUser, TopHearsPause, TopReconnects
<1>3. TopOK(t) /\ t.pending = NoAction /\ t.gen > top.gen /\ t.seq = top.seq
  BY <1>1, PausedOK, InvalidatedOK
<1>4. /\ top' = t /\ confirmation' = FALSE /\ cancels' = cancels + 1
      /\ UNCHANGED <<unresolved, inFlight>>
  BY <1>2 DEF PauseTo
<1>5. /\ UNCHANGED <<calls, child, report, ran, childPauses>>
      /\ reporting' \subseteq ReportMessages /\ topPauses' \in Nat /\ lost' \subseteq Frames
      /\ \A f \in Children : f \in lost => f \in lost'
  <2>1. CASE PauseByUser
    BY <1>1, <2>1 DEF PauseByUser
  <2>2. CASE TopHearsPause
    BY <1>1, <2>2 DEF TopHearsPause
  <2>3. CASE TopReconnects
    <3>1. "top" \notin Children /\ <<"top", 0>> \in ReportMessages
      BY ChildrenAssumption, Bounds DEF ChildrenAssumption, ReportMessages, Frames
    <3>. QED BY <1>1, <2>3, <3>1 DEF TopReconnects
  <2>. QED BY <2>1, <2>2, <2>3
<1>6. t.gen <= MaxGen /\ t.seq >= top.seq
  BY <1>1, <1>3, <1>4 DEF TopOK, TopStates
<1>. QED BY <1>3, <1>4, <1>5, <1>6, BoundaryKeeps

\* Two silent rounds pause a panel that waits for nothing.
LEMMA SilenceKeeps ==
  ASSUME IInv, top'.gen <= MaxGen, SilentRounds
  PROVE  IInv'
<1>1. /\ TopOK(top) /\ lost \subseteq Frames /\ topPauses \in Nat /\ reporting \subseteq ReportMessages
      /\ top.pending = NoAction /\ top.gen \in Nat /\ top.seq \in Nat /\ confirmation \in BOOLEAN
      /\ "groupScan" \in Scanning /\ Root \in Menus
  BY ScanningIsIdle DEF IInv, Typed, SilentRounds, Scanning, TopOK, TopStates, Menus
<1>2. TopOK(Pause(top)) /\ Pause(top).gen = top.gen + 1 /\ Pause(top).seq = top.seq
      /\ Pause(top).pending = NoAction
  BY <1>1, PauseOK
<1>. DEFINE u == SetItems(Pause(top), Root, "groupScan")
            t == Paused(u)
<1>3. TopOK(u) /\ u.gen = top.gen + 2 /\ u.seq = top.seq
  BY <1>1, <1>2, SetItemsOK
<1>. HIDE DEF u
<1>4. TopOK(t) /\ t.pending = NoAction /\ t.gen > u.gen /\ t.seq = u.seq
  BY <1>3, PausedOK
<1>5. t.gen \in Nat
  BY <1>4 DEF TopOK, TopStates
<1>6. /\ UNCHANGED <<calls, inFlight, unresolved, child, report, ran>>
      /\ UNCHANGED <<childPauses, reporting, topPauses, lost>>
      /\ \/ top' = t /\ cancels' = cancels + 1 /\ confirmation' = FALSE
         \/ top' = Pause(top) /\ cancels' = cancels /\ confirmation' = confirmation
  BY DEF SilentRounds, PauseTo, u
<1>. HIDE DEF t
<1>7. CASE top' = t /\ cancels' = cancels + 1 /\ confirmation' = FALSE
  <2>1. t.gen > top.gen /\ t.seq >= top.seq /\ t.gen <= MaxGen
    BY <1>1, <1>3, <1>4, <1>5, <1>7
  <2>. QED BY <1>1, <1>4, <1>6, <1>7, <2>1, BoundaryKeeps
<1>8. CASE top' = Pause(top) /\ cancels' = cancels /\ confirmation' = confirmation
  <2>. DEFINE p == Pause(top)
  <2>1. TopOK(p) /\ p.pending = NoAction /\ p.gen > top.gen /\ p.seq >= top.seq /\ p.gen <= MaxGen
        /\ top' = p
    BY <1>1, <1>2, <1>8
  <2>. HIDE DEF p
  <2>. QED BY <1>1, <1>6, <1>8, <2>1, BoundaryKeeps
<1>. QED BY <1>6, <1>7, <1>8

\* So does the press that wakes it.
LEMMA WakeKeeps ==
  ASSUME IInv, Wake
  PROVE  IInv'
<1>. DEFINE t == [KeyUp(KeyDown(top)) EXCEPT !.settled = TRUE]
<1>1. /\ TopOK(top) /\ top.mode \in Waking /\ top.pending = NoAction /\ confirmation \in BOOLEAN
      /\ top.gen \in Nat /\ top.seq \in Nat /\ top.gen <= MaxGen
  BY DEF IInv, Typed, Wake, Waking, TopOK, TopStates
<1>2. top' = t
  BY DEF Wake
<1>3. TopOK(t) /\ t.pending = NoAction /\ t.gen = top.gen /\ t.seq = top.seq
  BY <1>1, WakeOK
<1>4. UNCHANGED <<calls, inFlight, unresolved, child, report, ran, channels, lost, confirmation>>
  BY DEF Wake
<1>. HIDE DEF t
<1>. QED BY <1>1, <1>2, <1>3, <1>4, IdleKeeps

\* Selecting what starts no call
LEMMA MenuKeeps ==
  ASSUME IInv, top'.gen <= MaxGen,
         SelectReload \/ SelectCancel
         \/ \E c \in Calls : SelectConfirm(c) /\ (~confirmation \/ navigationBlocked)
  PROVE  IInv'
<1>1. /\ TopOK(top) /\ top.mode \in Scanning /\ top.pending = NoAction /\ confirmation \in BOOLEAN
      /\ top.gen \in Nat /\ top.seq \in Nat /\ top.gen <= MaxGen
      /\ {"groupScan", "confirming"} \subseteq Scanning /\ {Root, Dialog} \subseteq Menus
  BY ScanningIsIdle DEF IInv, Typed, SelectReload, SelectCancel, SelectConfirm, Offers, TopOK, TopStates,
     Scanning, Menus
<1>2. ASSUME NEW k \in 1..2
      PROVE  /\ TopOK(Chosen(k)) /\ Chosen(k).gen = top.gen /\ Chosen(k).seq = top.seq + 1
             /\ Chosen(k).pending.gen = top.gen /\ Chosen(k).pending.seq = top.seq + 1
  BY <1>1, ChosenOK
<1>. DEFINE refused == ActionResult(Chosen(2), top.gen, top.seq + 1, "refused")
            dialog == SetItems(Chosen(2), Dialog, "confirming")
            root == SetItems(Chosen(1), Root, "groupScan")
<1>3. /\ \/ top' = refused \/ top' = dialog \/ top' = root
      /\ UNCHANGED <<calls, inFlight, unresolved, child, report, ran, channels, lost>>
      /\ confirmation' \in BOOLEAN
  BY <1>1 DEF SelectReload, SelectCancel, SelectConfirm, Others
<1>4. TopOK(refused) /\ refused.pending = NoAction /\ refused.gen = top.gen /\ refused.seq = top.seq + 1
  BY <1>2, ResultOK
<1>5. /\ TopOK(dialog) /\ dialog.pending = NoAction /\ dialog.gen = top.gen + 1 /\ dialog.seq = top.seq + 1
      /\ TopOK(root) /\ root.pending = NoAction /\ root.gen = top.gen + 1 /\ root.seq = top.seq + 1
  BY <1>1, <1>2, SetItemsOK
<1>. HIDE DEF refused, dialog, root
<1>. DEFINE t == top'
<1>6. /\ TopOK(t) /\ t.pending = NoAction /\ t.gen >= top.gen /\ t.seq >= top.seq /\ t.gen <= MaxGen
      /\ top' = t
  BY <1>1, <1>3, <1>4, <1>5
<1>. HIDE DEF t
<1>. QED BY <1>1, <1>3, <1>6, IdleKeeps

-----------------------------------------------------------------------------
(* A new call *)

\* A call is selected after all others, when nothing is awaited; what is
\* released and was given up has its cancellation before it.
LEMMA NewCallKeeps ==
  ASSUME IInv, NEW c \in Calls, Fresh(c), NEW t, top' = t, TopOK(t), t.gen = top.gen,
         t.seq = top.seq + 1, t.pending # NoAction, top.pending = NoAction,
         NEW kind \in {"press", "reload"}, NEW frame \in Frames, NEW doc \in 0..MaxDocs,
         Call(c, kind, frame, doc),
         Others, UNCHANGED <<confirmation, unresolved>>,
         kind = "reload" => inFlight = {} /\ ~unresolved /\ frame = "top"
  PROVE  IInv'
<1>. DEFINE new == calls'[c]
<1>1. /\ top.gen \in Nat /\ top.seq \in Nat /\ t.gen \in Nat /\ t.seq \in Nat
      /\ calls \in [Calls -> CallRecords] /\ \A d \in Calls : CallOK(calls[d])
      /\ c \in Nat /\ 0 \in 0..MaxDocs
  BY Bounds DEF IInv, Typed, TopOK, TopStates
<1>2. /\ calls[c].stage = "unused" /\ calls[c].kind = "none" /\ calls[c].told = "none"
      /\ calls[c].reply = "none"
  BY <1>1 DEF Fresh, CallOK
<1>3. \A d \in Calls : /\ c < d => ~Used(d)
                       /\ d < c => Used(d)
  BY <1>2 DEF IInv, Numbered, Fresh, Used
<1>4. cancels \in Nat
  BY DEF IInv, Typed
<1>5. /\ new \in CallRecords /\ new.kind = kind /\ new.gen = t.gen /\ new.seq = t.seq /\ new.stage = "request"
      /\ new.frame = frame /\ new.ahead = cancels /\ new.told = "none" /\ new.reply = "none"
      /\ calls' \in [Calls -> CallRecords] /\ \A d \in Calls \ {c} : calls'[d] = calls[d]
  <2>. DEFINE r == [Unused EXCEPT !.kind = kind, !.gen = t.gen, !.seq = t.seq, !.frame = frame, !.doc = doc,
                                  !.stage = "request", !.ahead = cancels]
  <2>1. calls' = [calls EXCEPT ![c] = r]
    BY DEF Call
  <2>. DEFINE n == Unused
             u == [n EXCEPT !.kind = kind, !.gen = t.gen, !.seq = t.seq, !.frame = frame]
  <2>2. r = [u EXCEPT !.doc = doc, !.stage = "request", !.ahead = cancels]
    BY DEF Unused
  <2>3. n \in CallRecords /\ n.told = "none" /\ n.reply = "none"
    BY <1>1 DEF CallRecords, Unused, Answers, Frames
  <2>. HIDE DEF n
  <2>4. /\ u \in CallRecords /\ u.kind = kind /\ u.gen = t.gen /\ u.seq = t.seq /\ u.frame = frame
        /\ u.told = "none" /\ u.reply = "none"
    BY <1>1, <2>3 DEF CallRecords
  <2>. HIDE DEF u, r
  <2>5. /\ r \in CallRecords /\ r.kind = kind /\ r.gen = t.gen /\ r.seq = t.seq /\ r.told = "none"
        /\ r.reply = "none" /\ r.stage = "request" /\ r.ahead = cancels /\ r.frame = frame
    BY <1>4, <2>2, <2>4 DEF CallRecords, PressStages
  <2>6. new = r /\ calls' \in [Calls -> CallRecords] /\ \A d \in Calls \ {c} : calls'[d] = calls[d]
    BY <1>1, <2>1, <2>5
  <2>. HIDE DEF new
  <2>. QED BY <2>5, <2>6
<1>6. inFlight' = inFlight \cup {c}
  BY DEF Call
<1>. HIDE DEF new
<1>7. new = calls'[c]
  BY DEF new
<1>8. /\ UNCHANGED <<child, report, reporting, cancels, childPauses, topPauses, lost, ran>>
  BY DEF Others, channels
<1>9. \A d \in Calls : ~Awaits(d)
  BY DEF Awaits
<1>10. t.pending.gen = t.gen /\ t.pending.seq = t.seq
  BY DEF TopOK
<1>11. Awaits(c)'
  BY <1>5, <1>7, <1>10 DEF Awaits
<1>12. ~HasRun(c) /\ \A d \in Calls : HasRun(d)' = HasRun(d)
  BY <1>2, <1>8 DEF IInv, Truthful, HasRun
<1>13. CallOK(new)
  BY <1>5 DEF CallOK, PressStages, ReloadStages
<1>14. Typed'
  <2>1. \A d \in Calls : CallOK(calls'[d])
    BY <1>1, <1>5, <1>7, <1>13
  <2>2. inFlight' = {d \in Calls : calls'[d].kind # "none" /\ calls'[d].told = "none"}
    <3>1. inFlight = {d \in Calls : calls[d].kind # "none" /\ calls[d].told = "none"}
      BY DEF IInv, Typed
    <3>. QED BY <1>5, <1>6, <1>7, <3>1
  <2>. QED BY <1>1, <1>5, <1>8, <2>1, <2>2 DEF IInv, Typed
<1>15. Numbered'
  <2>. SUFFICES ASSUME NEW d \in Calls
                PROVE  /\ Used(d)' => calls'[d].seq \in 1..t.seq /\ calls'[d].gen <= t.gen
                       /\ d \in inFlight' /\ calls'[d].gen = t.gen => Awaits(d)'
                       /\ \A e \in Calls : d < e /\ Used(e)' => Used(d)' /\ calls'[d].seq < calls'[e].seq
    BY DEF Numbered
  <2>1. \A e \in Calls \ {c} : /\ Used(e)' = Used(e)
                               /\ Used(e) => calls[e].seq \in 1..top.seq /\ calls[e].gen <= top.gen
    BY <1>5 DEF Used, IInv, Numbered
  <2>2. Used(c)'
    BY <1>5, <1>7 DEF Used
  <2>3. CASE d = c
    <3>1. \A e \in Calls : c < e => ~Used(e)'
      BY <1>1, <1>3, <2>1
    <3>. QED BY <1>1, <1>5, <1>7, <1>11, <2>3, <3>1
  <2>4. CASE d # c
    <3>1. Used(d)' => calls'[d].seq \in 1..t.seq /\ calls'[d].gen <= t.gen
      <4>1. calls'[d] = calls[d] /\ calls[d].seq \in Nat /\ calls[d].gen \in Nat
        BY <1>1, <1>5, <2>4 DEF CallRecords
      <4>. QED BY <1>1, <2>1, <2>4, <4>1
    <3>2. d \in inFlight' => calls'[d].gen # t.gen
      BY <1>5, <1>6, <1>9, <2>4 DEF IInv, Numbered
    <3>3. ASSUME NEW e \in Calls, d < e, Used(e)' PROVE Used(d)' /\ calls'[d].seq < calls'[e].seq
      <4>1. CASE e = c
        <5>1. Used(d) /\ calls[d].seq \in 1..top.seq
          BY <1>3, <2>1, <2>4, <3>3, <4>1
        <5>2. Used(d)' /\ calls'[d].seq = calls[d].seq /\ calls'[e].seq = t.seq
          BY <1>5, <1>7, <2>1, <2>4, <4>1, <5>1
        <5>. QED BY <1>1, <5>1, <5>2
      <4>2. CASE e # c
        BY <1>5, <2>1, <2>4, <3>3, <4>2 DEF IInv, Numbered
      <4>. QED BY <4>1, <4>2
    <3>. QED BY <3>1, <3>2, <3>3
  <2>. QED BY <2>3, <2>4
<1>16. Gated'
  <2>1. "request" \notin Held /\ "unused" \notin Held
    BY DEF Held
  <2>2. calls[c].stage \notin Held /\ calls'[c].stage \notin Held
    BY <1>2, <1>5, <1>7, <2>1
  <2>3. Gated
    BY DEF IInv
  <2>4. \A f \in Children : child[f].pending # c
    BY <2>2, <2>3 DEF Gated
  <2>5. ASSUME NEW d \in Calls, d # c
        PROVE  calls'[d] = calls[d]
    BY <1>5, <2>5
  <2>. QED BY <1>8, <2>2, <2>3, <2>4, <2>5 DEF Gated
<1>17. Truthful'
  <2>1. /\ HasRun(c)' => new.stage = "ended"
        /\ "done" \in {new.reply, new.told} => HasRun(c)'
        /\ "refused" \in {new.reply, new.told} => ~HasRun(c)'
        /\ new.told = "unknown" => unresolved'
    BY <1>5, <1>12
  <2>2. new.kind = "reload" => \A d \in Calls : d < c => calls'[d].told \in {"done", "refused"}
    <3>. SUFFICES ASSUME kind = "reload", NEW d \in Calls, d < c
                  PROVE  calls[d].told \in {"done", "refused"}
      BY <1>1, <1>5
    <3>1. calls[d].kind # "none"
      BY <1>1, <1>3 DEF CallOK, Used
    <3>2. calls[d].told # "none"
      BY <3>1 DEF IInv, Typed
    <3>3. calls[d].told # "unknown"
      BY DEF IInv, Truthful
    <3>. QED BY <1>1, <3>2, <3>3 DEF CallRecords, Answers, Results
  <2>3. ASSUME NEW d \in Calls, d # c
        PROVE  /\ HasRun(d)' => calls'[d].stage = "ended"
               /\ "done" \in {calls'[d].reply, calls'[d].told} => HasRun(d)'
               /\ "refused" \in {calls'[d].reply, calls'[d].told} => ~HasRun(d)'
               /\ calls'[d].told = "unknown" => unresolved'
               /\ calls'[d].kind = "reload" =>
                     \A e \in Calls : e < d => calls'[e].told \in {"done", "refused"}
    <3>1. calls[d].kind = "reload" => ~ (c < d)
      BY <1>1, <1>3 DEF CallOK, Used
    <3>. QED BY <1>5, <1>12, <2>3, <3>1 DEF IInv, Truthful
  <2>. QED BY <1>7, <2>1, <2>2, <2>3 DEF Truthful
<1>18. Overtaken'
  <2>1. InSelectionOrder'
    BY <1>2, <1>5, <1>8, OrderKeeps DEF Used
  <2>4. \A e, d \in Calls \ {c} : Ungated(e, d)' = Ungated(e, d)
    BY <1>5 DEF Ungated
  <2>2. ~Released(c)' /\ \A d \in Calls \ {c} : Released(d)' = Released(d)
    BY <1>5, <1>7 DEF Released
  <2>3. ASSUME NEW e \in Calls, NEW d \in Calls, e < d, Released(e)'
        PROVE  /\ HasRun(d)' => Ungated(e, d)'
               /\ calls'[e].stage = "confirmed" /\ Used(d)'
                  => calls'[d].stage = "request" /\ calls'[d].ahead > 0
    <3>1. e # c /\ Released(e) /\ calls'[e] = calls[e]
      BY <1>5, <2>2, <2>3
    <3>2. CASE d = c
      <4>1. calls[e].stage = "confirmed" => cancels > 0
        BY <1>9, <3>1 DEF Released, IInv, Followed
      <4>. QED BY <1>5, <1>7, <1>12, <3>1, <3>2, <4>1
    <3>3. CASE d # c
      BY <1>5, <1>12, <2>3, <2>4, <3>1, <3>3 DEF IInv, Overtaken, Used
    <3>. QED BY <3>2, <3>3
  <2>. QED BY <2>1, <2>3 DEF Overtaken
<1>19. Followed'
  <2>2. calls'[c].stage = "request"
    BY <1>5, <1>7
  <2>1. ASSUME NEW d \in Calls \ {c}
        PROVE  calls'[d] = calls[d] /\ ~Awaits(d)
    BY <1>5, <1>9
  <2>. QED BY <1>8, <2>1, <2>2 DEF IInv, Followed
<1>. QED BY <1>14, <1>15, <1>16, <1>17, <1>18, <1>19 DEF IInv

\* A press is selected.
LEMMA SelectPressKeeps ==
  ASSUME IInv, top'.gen <= MaxGen, NEW c \in Calls, NEW f \in Frames, NEW doc \in 0..MaxDocs,
         SelectPress(c, f, doc)
  PROVE  IInv'
<1>1. /\ TopOK(top) /\ top.mode \in Scanning /\ top.pending = NoAction
      /\ Fresh(c) /\ Call(c, "press", f, doc) /\ Others /\ UNCHANGED <<confirmation, unresolved>>
  BY ScanningIsIdle DEF IInv, Typed, SelectPress, Offers
<1>. DEFINE t == Chosen(1)
<1>2. /\ TopOK(t) /\ t.gen = top.gen /\ t.seq = top.seq + 1 /\ t.pending # NoAction
  BY <1>1, ChosenOK
<1>3. top' = t
  BY DEF SelectPress
<1>. HIDE DEF t
<1>4. ("press" = "reload" => inFlight = {} /\ ~unresolved /\ f = "top") /\ "press" \in {"press", "reload"}
  OBVIOUS
<1>. QED BY <1>1, <1>2, <1>3, <1>4, NewCallKeeps

\* A reload is confirmed; the dialog has closed, or work is open, or nothing is left of
\* the calls before it.
LEMMA SelectConfirmKeeps ==
  ASSUME IInv, top'.gen <= MaxGen, NEW c \in Calls, SelectConfirm(c)
  PROVE  IInv'
<1>1. CASE ~confirmation \/ navigationBlocked
  BY <1>1, MenuKeeps
<1>2. CASE confirmation /\ ~navigationBlocked
  <2>1. /\ TopOK(top) /\ top.mode \in Scanning /\ top.pending = NoAction
        /\ Fresh(c) /\ Others /\ UNCHANGED <<confirmation, unresolved>>
    BY ScanningIsIdle DEF IInv, Typed, SelectConfirm, Offers
  <2>. DEFINE t == Chosen(2)
  <2>2. TopOK(t) /\ t.gen = top.gen /\ t.seq = top.seq + 1 /\ t.pending # NoAction
    BY <2>1, ChosenOK
  <2>3. top' = t /\ Call(c, "reload", "top", 0)
    BY <1>2 DEF SelectConfirm
  <2>. HIDE DEF t
  <2>4. inFlight = {} /\ ~unresolved
    BY <1>2 DEF navigationBlocked
  <2>5. 0 \in 0..MaxDocs /\ "top" \in Frames /\ "reload" \in {"press", "reload"}
    BY Bounds DEF Frames
  <2>. QED BY <2>1, <2>2, <2>3, <2>4, <2>5, NewCallKeeps
<1>. QED BY <1>1, <1>2

-----------------------------------------------------------------------------
(* The top document learns a result *)

\* A result is learnt: of an awaited call it ends the wait, of any other it changes no
\* wait.  What becomes unknown is followed by a cancellation.
LEMMA LearnKeeps ==
  ASSUME IInv, top'.gen <= MaxGen, NEW c \in Calls, NEW result \in {"done", "refused", "unknown"},
         NEW thrown \in BOOLEAN, Learn(c, result, thrown),
         result # "unknown" => calls[c].reply = result
  PROVE  IInv'
<1>. DEFINE current == top.gen = calls[c].gen
            new == calls'[c]
            t == top'
<1>1. /\ top.gen \in Nat /\ top.seq \in Nat /\ calls \in [Calls -> CallRecords] /\ cancels \in Nat
      /\ \A d \in Calls : CallOK(calls[d])
      /\ TopOK(top) /\ confirmation \in BOOLEAN /\ unresolved \in BOOLEAN
  BY DEF IInv, Typed, TopOK, TopStates
<1>2. c \in inFlight /\ calls[c].kind # "none" /\ calls[c].told = "none" /\ Used(c)
  BY <1>1 DEF Learn, IInv, Typed, CallOK, Used
<1>3. /\ new \in CallRecords /\ new.told = result /\ new.reply = "none"
      /\ \A d \in Calls : /\ calls'[d].kind = calls[d].kind /\ calls'[d].gen = calls[d].gen
                          /\ calls'[d].frame = calls[d].frame
                          /\ calls'[d].seq = calls[d].seq /\ calls'[d].doc = calls[d].doc
                          /\ calls'[d].stage = calls[d].stage
                          /\ calls'[d].valid = calls[d].valid /\ calls'[d].local = calls[d].local
                          /\ calls'[d].ahead = calls[d].ahead
      /\ calls' \in [Calls -> CallRecords] /\ \A d \in Calls \ {c} : calls'[d] = calls[d]
  <2>. DEFINE r == [calls[c] EXCEPT !.told = result, !.reply = "none"]
  <2>1. calls' = [calls EXCEPT ![c] = r]
    BY <1>1 DEF Learn
  <2>2. /\ r \in CallRecords /\ r.told = result /\ r.reply = "none" /\ r.kind = calls[c].kind
        /\ r.frame = calls[c].frame
        /\ r.gen = calls[c].gen /\ r.seq = calls[c].seq /\ r.doc = calls[c].doc
        /\ r.stage = calls[c].stage /\ r.valid = calls[c].valid /\ r.local = calls[c].local
        /\ r.ahead = calls[c].ahead
    BY <1>1 DEF CallRecords, Answers, Results
  <2>. HIDE DEF r
  <2>3. new = r /\ calls' \in [Calls -> CallRecords] /\ \A d \in Calls \ {c} : calls'[d] = calls[d]
    BY <1>1, <2>1, <2>2
  <2>. QED BY <2>2, <2>3
<1>. HIDE DEF new
<1>4. new = calls'[c]
  BY DEF new
<1>5. UNCHANGED <<child, report, reporting, childPauses, topPauses, lost, ran>>
  BY DEF Learn
<1>6. /\ inFlight' = inFlight \ {c} /\ confirmation' \in BOOLEAN /\ unresolved' \in BOOLEAN
      /\ (unresolved \/ result = "unknown") => unresolved'
      /\ unresolved' => (unresolved \/ result = "unknown")
      /\ cancels' = IF current /\ result = "unknown" THEN cancels + 1 ELSE cancels
  BY <1>1 DEF Learn
<1>7. /\ TopOK(t) /\ t.gen >= top.gen /\ t.seq = top.seq
      /\ \/ t = top /\ ~current
         \/ t.pending = NoAction /\ current
  <2>1. CASE ~current
    BY <1>1, <2>1 DEF Learn
  <2>2. CASE current
    <3>1. Awaits(c)
      BY <1>2, <2>2 DEF IInv, Numbered
    <3>. DEFINE s == SetItems(top, Root, "groupScan")
                a == ActionResult(top, calls[c].gen, calls[c].seq, result)
    <3>2. t = s \/ t = a
      BY <2>2 DEF Learn
    <3>3. "groupScan" \in Scanning /\ Root \in Menus
      BY DEF Scanning, Menus
    <3>4. TopOK(s) /\ s.pending = NoAction /\ s.gen = top.gen + 1 /\ s.seq = top.seq
      BY <1>1, <3>3, SetItemsOK
    <3>5. TopOK(a) /\ a.pending = NoAction /\ a.gen = top.gen /\ a.seq = top.seq
      BY <1>1, <3>1, ResultOK DEF Awaits
    <3>. HIDE DEF s, a, t
    <3>. QED BY <1>1, <2>2, <3>2, <3>4, <3>5
  <2>. QED BY <2>1, <2>2
<1>. HIDE DEF t
<1>8. top' = t /\ t.gen \in Nat /\ t.seq \in Nat /\ t.gen <= MaxGen
  BY <1>7 DEF t, TopOK, TopStates
<1>9. \A d \in Calls : d # c => (Awaits(d)' => Awaits(d))
  BY <1>3, <1>7, <1>8 DEF Awaits
<1>10. \A d \in Calls : HasRun(d)' = HasRun(d)
  BY <1>5 DEF HasRun
<1>11. {"done", "refused"} \cap {result} # {} => calls[c].stage = "ended"
  BY <1>1 DEF CallOK
<1>12. \A d \in Calls : Awaits(d) /\ Used(d) => \/ Awaits(d)'
                                               \/ cancels' > 0
                                               \/ (d = c /\ calls[c].stage = "ended")
  <2>. SUFFICES ASSUME NEW d \in Calls, Awaits(d), Used(d), ~Awaits(d)'
                PROVE  cancels' > 0 \/ (d = c /\ calls[c].stage = "ended")
    OBVIOUS
  <2>1. current
    BY <1>3, <1>7, <1>8 DEF Awaits
  <2>2. Awaits(c)
    BY <1>2, <2>1 DEF IInv, Numbered
  <2>3. ~(c < d) /\ ~(d < c)
    BY <1>2, <2>2, Latest DEF IInv
  <2>4. d = c
    BY <2>3, Bounds
  <2>5. result # "unknown" => calls[c].stage = "ended"
    BY <1>11
  <2>. QED BY <1>1, <1>6, <2>1, <2>4, <2>5
<1>13. Typed'
  <2>1. CallOK(new)
    BY <1>1, <1>3, <1>4, <1>11, <1>2 DEF CallOK
  <2>2. \A d \in Calls : CallOK(calls'[d])
    BY <1>1, <1>3, <1>4, <2>1
  <2>3. inFlight' = {d \in Calls : calls'[d].kind # "none" /\ calls'[d].told = "none"}
    <3>1. inFlight = {d \in Calls : calls[d].kind # "none" /\ calls[d].told = "none"}
      BY DEF IInv, Typed
    <3>. QED BY <1>3, <1>4, <1>6, <3>1
  <2>4. cancels' \in Nat
    BY <1>1, <1>6
  <2>. QED BY <1>3, <1>5, <1>6, <1>7, <1>8, <2>2, <2>3, <2>4 DEF IInv, Typed
<1>14. Numbered'
  <2>1. \A d \in Calls : Used(d)' = Used(d)
    BY <1>3 DEF Used
  <2>2. ASSUME NEW d \in Calls, d \in inFlight', calls'[d].gen = t.gen PROVE Awaits(d)'
    <3>1. d # c /\ d \in inFlight /\ calls[d].gen = t.gen /\ calls[d].gen <= top.gen
          /\ calls[d].gen \in Nat
      BY <1>1, <1>3, <1>6, <2>2 DEF IInv, Numbered, Typed, CallOK, CallRecords, Used
    <3>2. calls[d].gen = top.gen
      BY <1>1, <1>7, <1>8, <3>1
    <3>3. Awaits(d) /\ Used(d)
      BY <1>1, <3>1, <3>2 DEF IInv, Numbered, Typed, CallOK, Used
    <3>4. ~current
      <4>. SUFFICES ASSUME current PROVE FALSE
        OBVIOUS
      <4>1. Awaits(c)
        BY <1>2 DEF IInv, Numbered
      <4>2. ~(c < d) /\ ~(d < c)
        BY <1>2, <3>3, <4>1, Latest DEF IInv
      <4>. QED BY <3>1, <4>2, Bounds
    <3>. QED BY <1>3, <1>7, <1>8, <3>3, <3>4 DEF Awaits
  <2>3. ASSUME NEW d \in Calls, Used(d)'
        PROVE  calls'[d].seq \in 1..t.seq /\ calls'[d].gen <= t.gen
    <3>1. calls[d].seq \in 1..top.seq /\ calls[d].gen <= top.gen /\ calls[d].gen \in Nat
      BY <1>1, <2>1, <2>3 DEF IInv, Numbered, CallOK, CallRecords
    <3>. QED BY <1>1, <1>3, <1>7, <1>8, <3>1
  <2>. QED BY <1>3, <1>8, <2>1, <2>2, <2>3 DEF IInv, Numbered
<1>15. Gated'
  BY <1>3, <1>5 DEF IInv, Gated
<1>16. Truthful'
  <2>1. "done" \in {new.reply, new.told} => HasRun(c)
    BY <1>3 DEF IInv, Truthful
  <2>2. "refused" \in {new.reply, new.told} => ~HasRun(c)
    BY <1>3 DEF IInv, Truthful
  <2>3. new.told = "unknown" => unresolved'
    BY <1>3, <1>6
  <2>4. ASSUME NEW d \in Calls, d # c
        PROVE  /\ HasRun(d)' => calls'[d].stage = "ended"
               /\ "done" \in {calls'[d].reply, calls'[d].told} => HasRun(d)'
               /\ "refused" \in {calls'[d].reply, calls'[d].told} => ~HasRun(d)'
               /\ calls'[d].told = "unknown" => unresolved'
    BY <1>3, <1>6, <1>10, <2>4 DEF IInv, Truthful
  <2>5. ASSUME NEW d \in Calls, calls'[d].kind = "reload", NEW e \in Calls, e < d
        PROVE  calls'[e].told \in {"done", "refused"}
    <3>1. calls[e].told \in {"done", "refused"}
      BY <1>3, <2>5 DEF IInv, Truthful
    <3>2. e # c
      BY <1>2, <3>1
    <3>. QED BY <1>3, <3>1, <3>2
  <2>6. HasRun(c)' => new.stage = "ended"
    BY <1>3, <1>4, <1>10 DEF IInv, Truthful
  <2>. QED BY <1>4, <1>10, <2>1, <2>2, <2>3, <2>4, <2>5, <2>6 DEF Truthful
<1>17. Overtaken'
  <2>1. InSelectionOrder'
    BY <1>3, <1>5, OrderKeeps
  <2>2. \A e, d \in Calls : Ungated(e, d)' = Ungated(e, d)
    BY <1>3 DEF Ungated
  <2>. QED BY <1>3, <1>10, <2>1, <2>2 DEF IInv, Overtaken, Released, Used
<1>18. Followed'
  <2>1. ASSUME NEW d \in Calls, calls[d].stage \in {"confirmed", "approved", "recheck"}, Awaits(d)
        PROVE  Awaits(d)' \/ cancels' > 0
    BY <1>12, <2>1 DEF Used
  <2>2. cancels > 0 => cancels' > 0
    BY <1>1, <1>6
  <2>. QED BY <1>3, <1>5, <2>1, <2>2 DEF IInv, Followed
<1>. QED BY <1>13, <1>14, <1>15, <1>16, <1>17, <1>18 DEF IInv

-----------------------------------------------------------------------------
(* One call goes on *)

\* The gate a call finds when it is taken in, or is in
Holds(c) == /\ calls[c].frame \in Children
            /\ child[calls[c].frame].doc = calls[c].doc /\ child[calls[c].frame].pending \in {0, c}

\* The gates after a step of a call that holds one, or does not
GateGoes(c, held) ==
    /\ child' \in ChildStates
    /\ \A f \in Children :
          /\ child'[f].doc = child[f].doc
          /\ child'[f].pending = IF held /\ f = calls[c].frame THEN c
                                ELSE IF child[f].pending = c THEN 0 ELSE child[f].pending

\* The gates are in order after it.
LEMMA GatesKeep ==
  ASSUME IInv, NEW c \in Calls, calls'[c].frame = calls[c].frame, calls'[c].doc = calls[c].doc,
         \A d \in Calls \ {c} : calls'[d] = calls[d],
         GateGoes(c, calls'[c].stage \in Held), calls'[c].stage \in Held => Holds(c)
  PROVE  Gated'
<1>. SUFFICES ASSUME NEW d \in Calls
              PROVE  /\ calls'[d].stage \in Held =>
                           /\ calls'[d].frame \in Children
                           /\ child'[calls'[d].frame] = [doc |-> calls'[d].doc, pending |-> d]
                     /\ \A f \in Children : child'[f].pending = d
                                             => calls'[d].stage \in Held /\ calls'[d].frame = f
  BY DEF Gated
<1>1. c # 0 /\ d # 0
  BY Bounds DEF Calls
<1>2. \A f \in Children : child'[f] = [doc |-> child'[f].doc, pending |-> child'[f].pending]
  BY DEF GateGoes, ChildStates
<1>3. \A f \in Children : child[f].pending = d => calls[d].stage \in Held /\ calls[d].frame = f
  BY DEF IInv, Gated
<1>4. calls[d].stage \in Held => /\ calls[d].frame \in Children
                                 /\ child[calls[d].frame] = [doc |-> calls[d].doc, pending |-> d]
  BY DEF IInv, Gated
<1>5. CASE d = c
  <2>1. CASE calls'[c].stage \in Held
    <3>1. \A f \in Children : child[f].pending = c => f = calls[c].frame
      BY <1>3, <1>5
    <3>2. /\ calls[c].frame \in Children /\ child'[calls[c].frame].doc = calls[c].doc
          /\ child'[calls[c].frame].pending = c
      BY <2>1 DEF Holds, GateGoes
    <3>3. ASSUME NEW f \in Children, child'[f].pending = c PROVE f = calls[c].frame
      BY <1>1, <3>1, <3>3 DEF GateGoes
    <3>. QED BY <1>2, <1>5, <2>1, <3>2, <3>3
  <2>2. CASE calls'[c].stage \notin Held
    <3>1. \A f \in Children : child'[f].pending # c
      BY <1>1, <2>2 DEF GateGoes
    <3>. QED BY <1>5, <2>2, <3>1
  <2>. QED BY <2>1, <2>2
<1>6. CASE d # c
  <2>1. ASSUME NEW f \in Children PROVE child'[f].pending = d <=> child[f].pending = d
    <3>1. CASE calls'[c].stage \in Held /\ f = calls[c].frame
      <4>1. child[f].pending \in {0, c} /\ child'[f].pending = c
        BY <3>1 DEF Holds, GateGoes
      <4>. QED BY <1>1, <1>6, <4>1
    <3>2. CASE ~(calls'[c].stage \in Held /\ f = calls[c].frame)
      BY <1>1, <1>6, <3>2 DEF GateGoes
    <3>. QED BY <3>1, <3>2
  <2>2. \A f \in Children : child'[f].doc = child[f].doc
    BY DEF GateGoes
  <2>3. calls[d].stage \in Held => child'[calls[d].frame] = [doc |-> calls[d].doc, pending |-> d]
    BY <1>2, <1>4, <2>1, <2>2
  <2>. QED BY <1>3, <1>4, <1>6, <2>1, <2>3
<1>. QED BY <1>5, <1>6

\* A step that leaves the gates alone
LEMMA GateStays ==
  ASSUME IInv, NEW c \in Calls, child' = child
  PROVE  GateGoes(c, calls[c].stage \in Held) /\ (calls[c].stage \in Held => Holds(c))
<1>1. child \in ChildStates
  BY DEF IInv, Typed
<1>2. calls[c].stage \in Held => /\ calls[c].frame \in Children
                                 /\ child[calls[c].frame] = [doc |-> calls[c].doc, pending |-> c]
  BY DEF IInv, Gated
<1>3. \A f \in Children : child[f].pending = c => calls[c].stage \in Held /\ calls[c].frame = f
  BY DEF IInv, Gated
<1>4. GateGoes(c, calls[c].stage \in Held)
  BY <1>1, <1>2, <1>3 DEF GateGoes
<1>. QED BY <1>2, <1>4 DEF Holds

\* A call that ends leaves its gate.
LEMMA GateFreed ==
  ASSUME IInv, NEW c \in Calls, child' = Freed(c) \/ (child' = child /\ calls[c].stage \notin Held)
  PROVE  GateGoes(c, FALSE)
<1>1. child \in ChildStates
  BY DEF IInv, Typed
<1>2. \A f \in Children : child[f].pending = c => calls[c].stage \in Held /\ calls[c].frame = f
  BY DEF IInv, Gated
<1>3. CASE child' = child /\ calls[c].stage \notin Held
  BY <1>1, <1>2, <1>3 DEF GateGoes
<1>4. CASE child' = Freed(c)
  <2>1. CASE calls[c].frame \in Children
    <3>. DEFINE g == calls[c].frame
                y == IF child[g].pending = c THEN 0 ELSE child[g].pending
    <3>1. child' = [child EXCEPT ![g].pending = y]
      BY <1>4 DEF Freed
    <3>2. y \in Calls \cup {0} /\ child[g] \in [doc : 0..MaxDocs, pending : Calls \cup {0}]
      BY <1>1, <2>1 DEF ChildStates
    <3>3. child'[g].doc = child[g].doc /\ child'[g].pending = y
          /\ child'[g] \in [doc : 0..MaxDocs, pending : Calls \cup {0}]
          /\ \A f \in Children \ {g} : child'[f] = child[f]
      BY <1>1, <2>1, <3>1, <3>2 DEF ChildStates
    <3>4. child' \in ChildStates
      BY <1>1, <3>1, <3>3 DEF ChildStates
    <3>. QED BY <1>2, <3>3, <3>4 DEF GateGoes
  <2>2. CASE calls[c].frame \notin Children
    <3>1. child' = child
      BY <1>1, <1>4, <2>2 DEF Freed, ChildStates
    <3>. QED BY <1>1, <1>2, <2>2, <3>1 DEF GateGoes
  <2>. QED BY <2>1, <2>2
<1>. QED BY <1>3, <1>4

\* A call that is awaited may be released; of one that is not, what is released
\* stays so.  A request with a cancellation before it does not move.
LEMMA CallMoves ==
  ASSUME IInv, NEW c \in Calls, Used(c), calls[c].stage # "ended",
         calls[c].stage = "request" => calls[c].ahead = 0,
         NEW new \in CallRecords, CallOK(new), calls' = [calls EXCEPT ![c] = new],
         new.kind = calls[c].kind, new.gen = calls[c].gen, new.seq = calls[c].seq,
         new.frame = calls[c].frame, new.doc = calls[c].doc, new.told = calls[c].told,
         new.stage \notin {"unused", "request"},
         UNCHANGED <<controller, channels, lost, report, ran>>, GateGoes(c, new.stage \in Held),
         new.stage \in Held => Holds(c),
         new.reply # "done",
         new.stage = "confirmed" => Awaits(c),
         new.stage \in {"recheck", "approved"} =>
            \/ Awaits(c)
            \/ calls[c].stage = "recheck" /\ calls[c].valid /\ (new.local => calls[c].local),
         new.local /\ new.stage \in {"approve", "recheck", "approved"} =>
            \/ report[calls[c].frame] # NoDocument
            \/ calls[c].local /\ calls[c].stage \in {"approve", "recheck", "approved"}
  PROVE  IInv'
<1>1. /\ calls \in [Calls -> CallRecords] /\ \A d \in Calls : CallOK(calls[d])
      /\ TopOK(top) /\ top.gen \in Nat
  BY DEF IInv, Typed, TopOK, TopStates
<1>2. /\ calls' \in [Calls -> CallRecords] /\ calls'[c] = new /\ \A d \in Calls \ {c} : calls'[d] = calls[d]
  BY <1>1
<1>3. /\ UNCHANGED <<top, confirmation, unresolved, inFlight, reporting, cancels, childPauses, topPauses>>
      /\ UNCHANGED <<lost, report, ran>>
  BY DEF controller, channels
<1>4. \A d \in Calls : /\ Awaits(d)' = Awaits(d) /\ HasRun(d)' = HasRun(d) /\ Used(d)' = Used(d)
  <2>1. \A d \in Calls : calls'[d].gen = calls[d].gen /\ calls'[d].seq = calls[d].seq
    BY <1>2
  <2>. QED BY <1>2, <1>3, <2>1 DEF Awaits, HasRun, Used
<1>5. ~HasRun(c)
  BY DEF IInv, Truthful
<1>6. calls[c].kind # "none"
  BY <1>1 DEF CallOK, Used
<1>7. Typed'
  <2>1. \A d \in Calls : CallOK(calls'[d])
    BY <1>1, <1>2
  <2>2. inFlight = {d \in Calls : calls'[d].kind # "none" /\ calls'[d].told = "none"}
    <3>1. inFlight = {d \in Calls : calls[d].kind # "none" /\ calls[d].told = "none"}
      BY DEF IInv, Typed
    <3>. QED BY <1>2, <3>1
  <2>. QED BY <1>2, <1>3, <2>1, <2>2 DEF IInv, Typed, GateGoes
<1>8. Numbered'
  <2>1. \A d \in Calls : calls'[d].gen = calls[d].gen /\ calls'[d].seq = calls[d].seq
    BY <1>2
  <2>. QED BY <1>3, <1>4, <2>1 DEF IInv, Numbered
<1>9. Gated'
  BY <1>2, GatesKeep
<1>10. Truthful'
  <2>1. /\ new.told \notin {"done", "refused"} /\ (new.told = "unknown" => unresolved)
    BY <1>1 DEF CallOK, IInv, Truthful
  <2>2. ASSUME NEW d \in Calls, calls'[d].kind = "reload", NEW e \in Calls, e < d
        PROVE  calls'[e].told \in {"done", "refused"}
    BY <1>2, <2>2 DEF IInv, Truthful
  <2>3. ASSUME NEW d \in Calls, d # c
        PROVE  /\ HasRun(d)' => calls'[d].stage = "ended"
               /\ "done" \in {calls'[d].reply, calls'[d].told} => HasRun(d)'
               /\ "refused" \in {calls'[d].reply, calls'[d].told} => ~HasRun(d)'
               /\ calls'[d].told = "unknown" => unresolved'
    BY <1>2, <1>3, <1>4, <2>3 DEF IInv, Truthful
  <2>. QED BY <1>2, <1>3, <1>4, <1>5, <2>1, <2>2, <2>3 DEF Truthful
<1>11. Overtaken'
  <2>1. InSelectionOrder'
    BY <1>2, <1>3, OrderKeeps
  <2>4. \A e, d \in Calls : Ungated(e, d)' = Ungated(e, d)
    <3>1. \A d \in Calls : calls'[d].kind = calls[d].kind /\ calls'[d].frame = calls[d].frame
      BY <1>2
    <3>. QED BY <3>1 DEF Ungated
  <2>2. ASSUME NEW e \in Calls, NEW d \in Calls, e < d, Released(e)'
        PROVE  /\ HasRun(d) => Ungated(e, d)
               /\ calls'[e].stage = "confirmed" /\ Used(d)
                  => calls'[d].stage = "request" /\ calls'[d].ahead > 0
    <3>1. HasRun(d) => Used(d)
      BY DEF IInv, Truthful, Used
    <3>2. e # d
      BY <2>2, Bounds
    <3>3. CASE e = c
      <4>1. CASE Awaits(c)
        BY <2>2, <3>1, <3>3, <4>1, Latest DEF IInv
      <4>2. CASE ~Awaits(c)
        BY <1>2, <2>2, <3>3, <4>2 DEF Released, IInv, Overtaken
      <4>. QED BY <4>1, <4>2
    <3>4. CASE e # c
      <4>1. Released(e) /\ calls'[e] = calls[e]
        BY <1>2, <2>2, <3>4 DEF Released
      <4>2. /\ HasRun(d) => Ungated(e, d)
            /\ calls[e].stage = "confirmed" /\ Used(d)
               => calls[d].stage = "request" /\ calls[d].ahead > 0
        BY <2>2, <4>1 DEF IInv, Overtaken
      <4>3. d = c => calls[e].stage # "confirmed"
        BY <4>2
      <4>. QED BY <1>2, <4>1, <4>2, <4>3
    <3>. QED BY <3>3, <3>4
  <2>. QED BY <1>4, <2>1, <2>2, <2>4 DEF Overtaken
<1>12. Followed'
  <2>1. ASSUME NEW d \in Calls, d # c
        PROVE  calls'[d] = calls[d]
    BY <1>2, <2>1
  <2>2. /\ new.stage = "confirmed" /\ new.valid => Awaits(c) \/ cancels > 0
        /\ /\ new.local
           /\ new.stage = "approved" \/ (new.stage = "recheck" /\ new.valid)
           => Awaits(c) \/ cancels > 0 \/ childPauses[calls[c].frame] > 0 \/ calls[c].frame \in lost
        /\ new.local /\ new.stage \in {"approve", "recheck", "approved"}
           => report[calls[c].frame] # NoDocument \/ calls[c].frame \in lost
    BY DEF IInv, Followed
  <2>. QED BY <1>2, <1>3, <1>4, <2>1, <2>2 DEF IInv, Followed
<1>. QED BY <1>7, <1>8, <1>9, <1>10, <1>11, <1>12 DEF IInv

\* Where a call that is not at its end may go
Goes(call, stage) == /\ call.stage \notin {"unused", "ended"} /\ stage \notin {"unused", "request", "ended"}
                     /\ call.stage = "request" => call.ahead = 0
                     /\ call.kind = "press" => stage \in PressStages
                     /\ call.kind = "reload" => stage \in ReloadStages

\* A step of a call that changes its stage alone.
LEMMA MovedKeeps ==
  ASSUME IInv, NEW c \in Calls, NEW stage, Moved(c, stage), Goes(calls[c], stage),
         Unmoved, UNCHANGED <<child, ran>>,
         stage \in Held <=> calls[c].stage \in Held,
         stage = "confirmed" => Awaits(c),
         stage \in {"recheck", "approved"} => Awaits(c) \/ (calls[c].stage = "recheck" /\ calls[c].valid),
         stage \in {"approve", "recheck", "approved"} => calls[c].stage \in {"approve", "recheck", "approved"}
  PROVE  IInv'
<1>. DEFINE call == calls[c]
            new == [call EXCEPT !.stage = stage]
<1>1. /\ call \in CallRecords /\ CallOK(call) /\ calls \in [Calls -> CallRecords]
  BY DEF IInv, Typed
<1>2. call.kind \in {"press", "reload"}
  BY <1>1 DEF CallOK, CallRecords, Goes
<1>3. calls' = [calls EXCEPT ![c] = new]
  BY DEF Moved
<1>4. stage \in {"unused"} \cup PressStages \cup ReloadStages
  BY <1>2 DEF Goes
<1>5. /\ new \in CallRecords /\ new.kind = call.kind /\ new.gen = call.gen /\ new.seq = call.seq
      /\ new.frame = call.frame /\ new.doc = call.doc /\ new.told = call.told /\ new.reply = call.reply
      /\ new.stage = stage
      /\ new.local = call.local
  BY <1>1, <1>4 DEF CallRecords
<1>. HIDE DEF new
<1>6. call.reply # "done" /\ {call.reply, call.told} \cap {"done", "refused"} = {}
  BY <1>1 DEF CallOK, Goes
<1>7. CallOK(new)
  BY <1>1, <1>2, <1>5, <1>6 DEF CallOK, Goes
<1>8. /\ UNCHANGED <<controller, channels, lost, report, ran>> /\ child' = child
  BY DEF Unmoved
<1>9. GateGoes(c, calls[c].stage \in Held) /\ (calls[c].stage \in Held => Holds(c))
  BY <1>8, GateStays
<1>10. GateGoes(c, new.stage \in Held) /\ (new.stage \in Held => Holds(c))
  <2>1. new.stage \in Held <=> calls[c].stage \in Held
    BY <1>5
  <2>. QED BY <1>9, <2>1 DEF GateGoes
<1>11. new.local /\ new.stage \in {"approve", "recheck", "approved"} =>
            \/ report[calls[c].frame] # NoDocument
            \/ calls[c].local /\ calls[c].stage \in {"approve", "recheck", "approved"}
  BY <1>5
<1>12. new.stage \in {"recheck", "approved"} =>
            \/ Awaits(c)
            \/ calls[c].stage = "recheck" /\ calls[c].valid /\ (new.local => calls[c].local)
  BY <1>5
<1>13. /\ Used(c) /\ calls[c].stage # "ended" /\ (calls[c].stage = "request" => calls[c].ahead = 0)
       /\ new.stage \notin {"unused", "request"} /\ new.reply # "done"
       /\ (new.stage = "confirmed" => Awaits(c))
  BY <1>5, <1>6 DEF Goes, Used
<1>. QED BY <1>1, <1>3, <1>5, <1>7, <1>8, <1>9, <1>10, <1>11, <1>12, <1>13, CallMoves

\* A step of a call that captures the report.
LEMMA CapturedKeeps ==
  ASSUME IInv, NEW c \in Calls, NEW stage, Captured(c, stage), Goes(calls[c], stage),
         Unmoved, UNCHANGED <<child, ran>>,
         stage \in Held <=> calls[c].stage \in Held,
         stage \notin {"confirmed", "recheck", "approved"},
         stage = "approve" => report[calls[c].frame] # NoDocument
  PROVE  IInv'
<1>. DEFINE call == calls[c]
            new == [call EXCEPT !.stage = stage, !.valid = TRUE, !.report = report[call.frame]]
<1>1. /\ call \in CallRecords /\ CallOK(call) /\ calls \in [Calls -> CallRecords]
      /\ calls[c].frame \in Frames /\ report[calls[c].frame] \in Nat
  BY Bounds DEF IInv, Typed, NoDocument, CallRecords, Reports
<1>2. call.kind \in {"press", "reload"}
  BY <1>1 DEF CallOK, CallRecords, Goes
<1>3. calls' = [calls EXCEPT ![c] = new]
  BY <1>1 DEF Captured
<1>4. stage \in {"unused"} \cup PressStages \cup ReloadStages
  BY <1>2 DEF Goes
<1>5. /\ new \in CallRecords /\ new.kind = call.kind /\ new.gen = call.gen /\ new.seq = call.seq
      /\ new.frame = call.frame /\ new.doc = call.doc /\ new.told = call.told /\ new.reply = call.reply
      /\ new.stage = stage
      /\ new.local = call.local
  BY <1>1, <1>4 DEF CallRecords
<1>. HIDE DEF new
<1>6. call.reply # "done" /\ {call.reply, call.told} \cap {"done", "refused"} = {}
  BY <1>1 DEF CallOK, Goes
<1>7. CallOK(new)
  BY <1>1, <1>2, <1>5, <1>6 DEF CallOK, Goes
<1>8. /\ UNCHANGED <<controller, channels, lost, report, ran>> /\ child' = child
  BY DEF Unmoved
<1>9. GateGoes(c, calls[c].stage \in Held) /\ (calls[c].stage \in Held => Holds(c))
  BY <1>8, GateStays
<1>10. GateGoes(c, new.stage \in Held) /\ (new.stage \in Held => Holds(c))
  <2>1. new.stage \in Held <=> calls[c].stage \in Held
    BY <1>5
  <2>. QED BY <1>9, <2>1 DEF GateGoes
<1>11. new.local /\ new.stage \in {"approve", "recheck", "approved"} =>
            \/ report[calls[c].frame] # NoDocument
            \/ calls[c].local /\ calls[c].stage \in {"approve", "recheck", "approved"}
  BY <1>5
<1>12. new.stage \in {"recheck", "approved"} =>
            \/ Awaits(c)
            \/ calls[c].stage = "recheck" /\ calls[c].valid /\ (new.local => calls[c].local)
  BY <1>5
<1>13. /\ Used(c) /\ calls[c].stage # "ended" /\ (calls[c].stage = "request" => calls[c].ahead = 0)
       /\ new.stage \notin {"unused", "request"} /\ new.reply # "done"
       /\ (new.stage = "confirmed" => Awaits(c))
  BY <1>5, <1>6 DEF Goes, Used
<1>. QED BY <1>1, <1>3, <1>5, <1>7, <1>8, <1>9, <1>10, <1>11, <1>12, <1>13, CallMoves

\* What becomes of a call that ends
LEMMA EndedOK ==
  ASSUME NEW c \in Calls, calls[c] \in CallRecords, CallOK(calls[c]), Used(c),
         NEW result \in Answers \cup {"lost"}
  PROVE  /\ Ended(c, result) \in CallRecords /\ CallOK(Ended(c, result))
         /\ Ended(c, result).kind = calls[c].kind /\ Ended(c, result).gen = calls[c].gen
         /\ Ended(c, result).seq = calls[c].seq /\ Ended(c, result).doc = calls[c].doc
         /\ Ended(c, result).frame = calls[c].frame
         /\ Ended(c, result).told = calls[c].told /\ Ended(c, result).stage = "ended"
         /\ Ended(c, result).reply \in {calls[c].reply, result} /\ Ended(c, result).ahead = calls[c].ahead
<1>. DEFINE call == calls[c]
            y == IF call.reply = "none" /\ c \in inFlight THEN result ELSE call.reply
            u == [call EXCEPT !.stage = "ended", !.valid = TRUE, !.local = TRUE, !.report = 0]
            new == Ended(c, result)
<1>1. new = [u EXCEPT !.reply = y]
  BY DEF Ended
<1>. HIDE DEF u, new
<1>2. /\ u \in CallRecords /\ u.kind = call.kind /\ u.gen = call.gen /\ u.seq = call.seq
      /\ u.frame = call.frame /\ u.doc = call.doc /\ u.told = call.told /\ u.stage = "ended"
      /\ u.ahead = call.ahead
  BY DEF CallRecords, PressStages, u
<1>3. y \in Answers \cup {"lost"} /\ y \in {calls[c].reply, result}
  BY DEF CallRecords
<1>. HIDE DEF y
<1>4. /\ new \in CallRecords /\ new.kind = call.kind /\ new.gen = call.gen /\ new.seq = call.seq
      /\ new.frame = call.frame /\ new.doc = call.doc /\ new.told = call.told /\ new.stage = "ended"
      /\ new.ahead = call.ahead
      /\ new.reply = y
  BY <1>1, <1>2, <1>3 DEF CallRecords
<1>5. CallOK(new)
  BY <1>4 DEF CallOK, Used, PressStages, ReloadStages
<1>. QED BY <1>3, <1>4, <1>5 DEF new

\* A call ends without having run.
LEMMA AnswerKeeps ==
  ASSUME IInv, NEW c \in Calls, NEW result \in {"refused", "unknown", "lost"}, Answer(c, result),
         calls[c].stage \notin {"unused", "ended"}, calls[c].stage = "request" => calls[c].ahead = 0,
         Unmoved, ran' = ran, child' = Freed(c) \/ (child' = child /\ calls[c].stage \notin Held)
  PROVE  IInv'
<1>. DEFINE new == Ended(c, result)
<1>1. /\ calls[c] \in CallRecords /\ CallOK(calls[c]) /\ Used(c) /\ calls \in [Calls -> CallRecords]
      /\ result \in Answers \cup {"lost"}
  BY DEF IInv, Typed, Used, Answers, Results
<1>2. calls' = [calls EXCEPT ![c] = new]
  BY DEF Answer
<1>3. /\ new \in CallRecords /\ CallOK(new) /\ new.kind = calls[c].kind /\ new.gen = calls[c].gen
      /\ new.seq = calls[c].seq /\ new.frame = calls[c].frame /\ new.doc = calls[c].doc
      /\ new.told = calls[c].told /\ new.stage = "ended" /\ new.reply \in {calls[c].reply, result}
  BY <1>1, EndedOK
<1>. HIDE DEF new
<1>4. new.reply # "done"
  BY <1>1, <1>3 DEF CallOK
<1>5. "ended" \notin Held
  BY DEF Held
<1>6. UNCHANGED <<controller, channels, lost, report, ran>>
  BY DEF Unmoved
<1>7. GateGoes(c, FALSE)
  BY GateFreed
<1>8. GateGoes(c, new.stage \in Held)
  BY <1>3, <1>5, <1>7 DEF GateGoes
<1>. QED BY <1>1, <1>2, <1>3, <1>4, <1>5, <1>6, <1>8, CallMoves

-----------------------------------------------------------------------------
(* The steps of a press *)

\* switch/execute is taken up by the worker, or refused.
LEMMA ExecuteArrivesKeeps ==
  ASSUME IInv, NEW c \in Calls, ExecuteArrives(c)
  PROVE  IInv'
<1>1. /\ calls[c].kind = "press" /\ calls[c].stage = "request" /\ calls[c].ahead = 0
      /\ Unmoved /\ UNCHANGED <<child, ran>>
      /\ Moved(c, "authorize") \/ Answer(c, "refused")
  BY DEF ExecuteArrives, At
<1>2. CASE Moved(c, "authorize")
  <2>1. Goes(calls[c], "authorize") /\ "authorize" \notin Held /\ "request" \notin Held
    BY <1>1 DEF Goes, PressStages, Held
  <2>. QED BY <1>1, <1>2, <2>1, MovedKeeps
<1>3. CASE Answer(c, "refused")
  <2>1. child' = child /\ calls[c].stage \notin Held
    BY <1>1 DEF Held
  <2>. QED BY <1>1, <1>3, <2>1, AnswerKeeps
<1>. QED BY <1>1, <1>2, <1>3

\* The top document permits the request, or refuses it.
LEMMA ExecuteAuthorizedKeeps ==
  ASSUME IInv, NEW c \in Calls, ExecuteAuthorized(c)
  PROVE  IInv'
<1>1. /\ calls[c].kind = "press" /\ calls[c].stage = "authorize"
      /\ Unmoved /\ UNCHANGED <<child, ran>>
      /\ Moved(c, "deliver") \/ Answer(c, "refused")
  BY DEF ExecuteAuthorized, At
<1>2. CASE Moved(c, "deliver")
  <2>1. Goes(calls[c], "deliver") /\ "authorize" \notin Held /\ "deliver" \notin Held
    BY <1>1 DEF Goes, PressStages, Held
  <2>. QED BY <1>1, <1>2, <2>1, MovedKeeps
<1>3. CASE Answer(c, "refused")
  <2>1. child' = child /\ calls[c].stage \notin Held
    BY <1>1 DEF Held
  <2>. QED BY <1>1, <1>3, <2>1, AnswerKeeps
<1>. QED BY <1>1, <1>2, <1>3

\* The child takes the call into its gate, or refuses it.
LEMMA DeliverKeeps ==
  ASSUME IInv, NEW c \in Calls, Deliver(c)
  PROVE  IInv'
<1>1. calls[c].kind = "press" /\ calls[c].stage = "deliver" /\ Unmoved /\ ran' = ran
  BY DEF Deliver, At
<1>2. ASSUME NEW result \in {"refused", "lost"}, Answer(c, result), child' = child PROVE IInv'
  <2>1. child' = child /\ calls[c].stage \notin Held
    BY <1>1, <1>2 DEF Held
  <2>. QED BY <1>1, <1>2, <2>1, AnswerKeeps
<1>3. CASE /\ Accepts(c)
           /\ calls' = [calls EXCEPT ![c].stage = "ask", ![c].local = TRUE]
           /\ child' = [child EXCEPT ![calls[c].frame].pending = c]
  <2>. DEFINE call == calls[c]
              new == [call EXCEPT !.stage = "ask", !.local = TRUE]
  <2>1. /\ call \in CallRecords /\ CallOK(call) /\ calls \in [Calls -> CallRecords] /\ Used(c)
        /\ child \in ChildStates /\ calls[c].frame \in Children
    BY <1>1 DEF IInv, Typed, Used, Deliver
  <2>2. calls' = [calls EXCEPT ![c] = new]
    BY <1>3, <2>1
  <2>3. "ask" \in PressStages /\ "ask" \in Held
    BY DEF PressStages, Held
  <2>4. /\ new \in CallRecords /\ new.kind = call.kind /\ new.gen = call.gen /\ new.seq = call.seq
        /\ new.frame = call.frame
        /\ new.doc = call.doc /\ new.told = call.told /\ new.reply = call.reply /\ new.stage = "ask"
    BY <2>1, <2>3 DEF CallRecords
  <2>. HIDE DEF new
  <2>5. call.reply # "done" /\ {call.reply, call.told} \cap {"done", "refused"} = {}
    BY <1>1, <2>1 DEF CallOK
  <2>6. CallOK(new)
    BY <1>1, <2>3, <2>4, <2>5 DEF CallOK
  <2>7. UNCHANGED <<controller, channels, lost, report, ran>>
    BY <1>1 DEF Unmoved
  <2>8. GateGoes(c, TRUE) /\ Holds(c)
    <3>. DEFINE g == calls[c].frame
    <3>1. child[g].doc = calls[c].doc /\ child[g].pending = 0
      BY <1>3 DEF Accepts
    <3>2. child[g] \in [doc : 0..MaxDocs, pending : Calls \cup {0}]
      BY <2>1 DEF ChildStates
    <3>3. child' = [child EXCEPT ![g].pending = c]
      BY <1>3
    <3>4. /\ child'[g] \in [doc : 0..MaxDocs, pending : Calls \cup {0}]
          /\ child'[g].doc = child[g].doc /\ child'[g].pending = c
          /\ \A f \in Children \ {g} : child'[f] = child[f]
      BY <2>1, <3>2, <3>3 DEF ChildStates
    <3>5. child' \in ChildStates
      BY <2>1, <3>3, <3>4 DEF ChildStates
    <3>6. \A f \in Children : child[f].pending # c
      BY <1>1 DEF IInv, Gated, Held
    <3>. QED BY <2>1, <3>1, <3>4, <3>5, <3>6 DEF GateGoes, Holds
  <2>9. GateGoes(c, new.stage \in Held)
    BY <2>3, <2>4, <2>8 DEF GateGoes
  <2>. QED BY <1>1, <2>1, <2>2, <2>3, <2>4, <2>5, <2>6, <2>7, <2>8, <2>9, CallMoves
<1>. QED BY <1>2, <1>3 DEF Deliver

\* switch/action-check captures the report.
LEMMA CheckArrivesKeeps ==
  ASSUME IInv, NEW c \in Calls, CheckArrives(c)
  PROVE  IInv'
<1>1. /\ calls[c].kind = "press" /\ calls[c].stage = "ask" /\ report[calls[c].frame] # NoDocument
      /\ Captured(c, "approve") /\ Unmoved /\ UNCHANGED <<child, ran>>
  BY DEF CheckArrives, At
<1>2. Goes(calls[c], "approve") /\ "ask" \in Held /\ "approve" \in Held
  BY <1>1 DEF Goes, PressStages, Held
<1>. QED BY <1>1, <1>2, CapturedKeeps

\* Only a call that is awaited is approved.
LEMMA TopApprovesKeeps ==
  ASSUME IInv, NEW c \in Calls, TopApproves(c)
  PROVE  IInv'
<1>1. calls[c].kind = "press" /\ calls[c].stage = "approve" /\ Unmoved /\ ran' = ran
  BY DEF TopApproves, At
<1>2. CASE Permits(c)
  <2>1. Goes(calls[c], "recheck") /\ "recheck" \in Held /\ "approve" \in Held
    BY <1>1 DEF Goes, PressStages, Held
  <2>2. Moved(c, "recheck") /\ UNCHANGED child /\ Awaits(c)
    BY <1>2 DEF TopApproves, Permits
  <2>. QED BY <1>1, <2>1, <2>2, MovedKeeps
<1>3. CASE ~Permits(c)
  <2>1. Answer(c, "refused") /\ child' = Freed(c)
    BY <1>3 DEF TopApproves
  <2>. QED BY <1>1, <2>1, AnswerKeeps
<1>. QED BY <1>2, <1>3

\* Only a call that is still valid gets past the last look.
LEMMA RecheckKeeps ==
  ASSUME IInv, NEW c \in Calls, Recheck(c)
  PROVE  IInv'
<1>1. /\ calls[c].kind = "press" /\ calls[c].stage = "recheck" /\ calls[c].valid
      /\ Moved(c, "approved") /\ Unmoved /\ UNCHANGED <<child, ran>>
  BY DEF Recheck, At, Current
<1>2. Goes(calls[c], "approved") /\ "recheck" \in Held /\ "approved" \in Held
  BY <1>1 DEF Goes, PressStages, Held
<1>. QED BY <1>1, <1>2, MovedKeeps

\* A check that fails ends the call.
LEMMA DropPressKeeps ==
  ASSUME IInv, NEW c \in Calls, DropPress(c)
  PROVE  IInv'
<1>1. /\ calls[c].stage \in {"ask", "recheck", "approved"}
      /\ Answer(c, "refused") /\ child' = Freed(c) /\ Unmoved /\ ran' = ran
  BY DEF DropPress, At
<1>. QED BY <1>1, AnswerKeeps

\* So does the child's time limit.
LEMMA CheckTimeoutKeeps ==
  ASSUME IInv, NEW c \in Calls, CheckTimeout(c)
  PROVE  IInv'
<1>1. /\ calls[c].stage \notin {"unused", "ended", "request"}
      /\ Answer(c, "unknown") /\ child' = Freed(c) /\ Unmoved /\ ran' = ran
  BY DEF CheckTimeout, Held
<1>. QED BY <1>1, AnswerKeeps

-----------------------------------------------------------------------------
(* The steps of a reload *)

\* switch/navigation captures the count of cancellations.
LEMMA NavigationArrivesKeeps ==
  ASSUME IInv, NEW c \in Calls, NavigationArrives(c)
  PROVE  IInv'
<1>1. /\ calls[c].kind = "reload" /\ calls[c].stage = "request" /\ calls[c].ahead = 0
      /\ Unmoved /\ UNCHANGED <<child, ran>>
      /\ Captured(c, "authorize") \/ Answer(c, "refused")
  BY DEF NavigationArrives, At
<1>2. CASE Captured(c, "authorize")
  <2>1. Goes(calls[c], "authorize") /\ "authorize" \notin Held /\ "request" \notin Held
    BY <1>1 DEF Goes, ReloadStages, Held
  <2>. QED BY <1>1, <1>2, <2>1, CapturedKeeps
<1>3. CASE Answer(c, "refused")
  <2>1. child' = child /\ calls[c].stage \notin Held
    BY <1>1 DEF Held
  <2>. QED BY <1>1, <1>3, <2>1, AnswerKeeps
<1>. QED BY <1>1, <1>2, <1>3

\* Only a reload that is awaited is confirmed.
LEMMA TopAnswersKeeps ==
  ASSUME IInv, NEW c \in Calls, TopAnswers(c)
  PROVE  IInv'
<1>1. /\ calls[c].kind = "reload" /\ calls[c].stage \in {"authorize", "again"}
      /\ Unmoved /\ UNCHANGED <<child, ran>>
      /\ IF Permits(c) THEN Moved(c, "answered") \/ Moved(c, "confirmed") ELSE Answer(c, "refused")
  BY DEF TopAnswers, At
<1>2. CASE Permits(c)
  <2>1. ASSUME NEW stage \in {"answered", "confirmed"}, Moved(c, stage) PROVE IInv'
    <3>1. Goes(calls[c], stage) /\ stage \notin Held /\ calls[c].stage \notin Held /\ Awaits(c)
      BY <1>1, <1>2 DEF Goes, ReloadStages, Held, Permits
    <3>2. stage \notin {"approve", "recheck", "approved"}
      OBVIOUS
    <3>. QED BY <1>1, <2>1, <3>1, <3>2, MovedKeeps
  <2>. QED BY <1>1, <1>2, <2>1
<1>3. CASE ~Permits(c)
  <2>1. child' = child /\ calls[c].stage \notin Held /\ Answer(c, "refused")
    BY <1>1, <1>3 DEF Held
  <2>. QED BY <1>1, <2>1, AnswerKeeps
<1>. QED BY <1>2, <1>3

\* The tabs are read between the two questions.
LEMMA TabsReadKeeps ==
  ASSUME IInv, NEW c \in Calls, TabsRead(c)
  PROVE  IInv'
<1>1. /\ calls[c].kind = "reload" /\ calls[c].stage = "answered"
      /\ Unmoved /\ UNCHANGED <<child, ran>>
      /\ Moved(c, "again") \/ Answer(c, "refused")
  BY DEF TabsRead, At
<1>2. CASE Moved(c, "again")
  <2>1. Goes(calls[c], "again") /\ "again" \notin Held /\ "answered" \notin Held
    BY <1>1 DEF Goes, ReloadStages, Held
  <2>. QED BY <1>1, <1>2, <2>1, MovedKeeps
<1>3. CASE Answer(c, "refused")
  <2>1. child' = child /\ calls[c].stage \notin Held
    BY <1>1 DEF Held
  <2>. QED BY <1>1, <1>3, <2>1, AnswerKeeps
<1>. QED BY <1>1, <1>2, <1>3

-----------------------------------------------------------------------------
(* A call is carried out *)

\* A call that can act in this very step: one that is released, or a press that
\* the top document awaits in itself
Acts(c) == \/ Released(c)
           \/ At(c, "press", "deliver") /\ calls[c].frame = "top" /\ Awaits(c)

\* An earlier call can still act then only where no gate holds the two apart: an
\* earlier press would hold the gate, an earlier reload would hold back the
\* request, and before a reload everything has ended.
LEMMA NoneBefore ==
  ASSUME IInv, NEW c \in Calls, Acts(c), NEW e \in Calls, e < c, Released(e)
  PROVE  Ungated(e, c) /\ calls[e].stage # "confirmed"
<1>1. /\ CallOK(calls[c]) /\ CallOK(calls[e]) /\ Used(c) /\ calls[c].stage # "request"
      /\ calls[c] \in CallRecords /\ calls[e] \in CallRecords /\ e # c
  BY Bounds DEF IInv, Typed, Acts, At, Released, Used
<1>2. calls[c].kind # "reload"
  <2>. SUFFICES ASSUME calls[c].kind = "reload" PROVE FALSE
    OBVIOUS
  <2>1. calls[e].told \in {"done", "refused"}
    BY DEF IInv, Truthful
  <2>. QED BY <1>1, <2>1 DEF CallOK, Released
<1>3. calls[e].stage # "confirmed"
  BY <1>1 DEF IInv, Overtaken
<1>4. calls[c].kind = "press"
  BY <1>1, <1>2 DEF CallOK, CallRecords, Used
<1>5. calls[e].stage \in Held /\ calls[e].kind = "press"
  BY <1>1, <1>3 DEF CallOK, CallRecords, Released, Held, ReloadStages
<1>6. calls[e].frame \in Children /\ child[calls[e].frame].pending = e
  BY <1>5, GateHeld
<1>7. calls[e].frame # calls[c].frame
  <2>1. CASE calls[c].stage \in Held
    <3>1. child[calls[c].frame].pending = c
      BY <2>1, GateHeld
    <3>. QED BY <1>1, <1>6, <3>1
  <2>2. CASE calls[c].stage \notin Held
    <3>1. calls[c].frame = "top"
      BY <1>1, <1>4, <2>2 DEF Acts, Released, Held, CallOK, PressStages
    <3>. QED BY <1>6, <3>1, ChildrenAssumption DEF ChildrenAssumption
  <2>. QED BY <2>1, <2>2
<1>. QED BY <1>3, <1>4, <1>5, <1>6, <1>7 DEF Ungated

\* A later call has acted only where no gate holds the two apart.
LEMMA NoneAfter ==
  ASSUME IInv, NEW c \in Calls, Acts(c), NEW d \in Calls, c < d, HasRun(d)
  PROVE  Ungated(c, d)
<1>1. Used(d)
  BY DEF IInv, Truthful, Used
<1>2. ~Awaits(c)
  BY <1>1, Latest DEF IInv
<1>. QED BY <1>2 DEF Acts, IInv, Overtaken

\* A call acts: none before it can follow, unless no gate holds the two apart.
LEMMA RunKeeps ==
  ASSUME IInv, NEW c \in Calls, Acts(c), Answer(c, "done"), ran' = Append(ran, c), Unmoved,
         child' = Freed(c) \/ (child' = child /\ calls[c].stage \notin Held)
  PROVE  IInv'
<1>. DEFINE new == Ended(c, "done")
<1>1. /\ calls[c] \in CallRecords /\ CallOK(calls[c]) /\ Used(c) /\ calls \in [Calls -> CallRecords]
      /\ calls[c].stage # "ended"
      /\ ran \in Seq(Calls) /\ \A d \in Calls : CallOK(calls[d])
  BY DEF IInv, Typed, Used, Released, Acts, At
<1>2. /\ new \in CallRecords /\ CallOK(new) /\ new.kind = calls[c].kind /\ new.gen = calls[c].gen
      /\ new.seq = calls[c].seq /\ new.frame = calls[c].frame /\ new.doc = calls[c].doc
      /\ new.told = calls[c].told /\ new.stage = "ended" /\ new.reply \in {calls[c].reply, "done"}
  <2>1. "done" \in Answers \cup {"lost"}
    BY DEF Answers, Results
  <2>. QED BY <1>1, <2>1, EndedOK
<1>3. calls' = [calls EXCEPT ![c] = new]
  BY DEF Answer
<1>. HIDE DEF new
<1>4. /\ calls' \in [Calls -> CallRecords] /\ calls'[c] = new /\ \A d \in Calls \ {c} : calls'[d] = calls[d]
  BY <1>1, <1>2, <1>3
<1>5. /\ UNCHANGED <<top, confirmation, unresolved, inFlight, reporting, cancels, childPauses, topPauses>>
      /\ UNCHANGED <<lost, report>>
  BY DEF Unmoved, controller, channels
<1>6. \A d \in Calls : Awaits(d)' = Awaits(d) /\ Used(d)' = Used(d)
  <2>1. \A d \in Calls : calls'[d].gen = calls[d].gen /\ calls'[d].seq = calls[d].seq
    BY <1>2, <1>4
  <2>. QED BY <1>1, <1>2, <1>4, <1>5, <2>1 DEF Awaits, Used
<1>7. /\ Len(ran') = Len(ran) + 1 /\ ran' \in Seq(Calls) /\ ran'[Len(ran) + 1] = c
      /\ \A k \in 1..Len(ran) : ran'[k] = ran[k] /\ ran[k] \in Calls
      /\ Len(ran) \in Nat
  BY <1>1
<1>8. HasRun(c)' /\ ~HasRun(c) /\ \A d \in Calls \ {c} : HasRun(d)' = HasRun(d)
  <2>1. HasRun(c)'
    BY <1>7 DEF HasRun
  <2>2. ~HasRun(c)
    BY <1>1 DEF IInv, Truthful
  <2>3. ASSUME NEW d \in Calls \ {c}, HasRun(d) PROVE HasRun(d)'
    <3>1. PICK k \in 1..Len(ran) : ran[k] = d
      BY <2>3 DEF HasRun
    <3>2. k \in 1..Len(ran') /\ ran'[k] = d
      BY <1>7, <3>1
    <3>. QED BY <3>2 DEF HasRun
  <2>4. ASSUME NEW d \in Calls \ {c}, HasRun(d)' PROVE HasRun(d)
    <3>1. PICK k \in 1..Len(ran') : ran'[k] = d
      BY <2>4 DEF HasRun
    <3>2. k \in 1..Len(ran) /\ ran[k] = d
      BY <1>7, <3>1
    <3>. QED BY <3>2 DEF HasRun
  <2>5. \A d \in Calls : HasRun(d) \in BOOLEAN /\ HasRun(d)' \in BOOLEAN
    BY DEF HasRun
  <2>. QED BY <2>1, <2>2, <2>3, <2>4, <2>5
<1>9. "ended" \notin Held
  BY DEF Held
<1>10. GateGoes(c, FALSE) /\ child' \in ChildStates
  BY GateFreed DEF GateGoes
<1>11. Typed'
  <2>1. \A d \in Calls : CallOK(calls'[d])
    BY <1>1, <1>2, <1>4
  <2>2. inFlight = {d \in Calls : calls'[d].kind # "none" /\ calls'[d].told = "none"}
    <3>1. inFlight = {d \in Calls : calls[d].kind # "none" /\ calls[d].told = "none"}
      BY DEF IInv, Typed
    <3>. QED BY <1>2, <1>4, <3>1
  <2>. QED BY <1>4, <1>5, <1>7, <1>10, <2>1, <2>2 DEF IInv, Typed
<1>12. Numbered'
  <2>1. \A d \in Calls : calls'[d].gen = calls[d].gen /\ calls'[d].seq = calls[d].seq
    BY <1>2, <1>4
  <2>. QED BY <1>5, <1>6, <2>1 DEF IInv, Numbered
<1>13. Gated'
  <2>1. GateGoes(c, calls'[c].stage \in Held) /\ calls'[c].stage \notin Held
    BY <1>2, <1>4, <1>9, <1>10 DEF GateGoes
  <2>. QED BY <1>2, <1>4, <2>1, GatesKeep
<1>14. Truthful'
  <2>1. /\ new.told \notin {"done", "refused"} /\ new.reply # "refused"
        /\ new.told = "unknown" => unresolved
    <3>1. {calls[c].reply, calls[c].told} \cap {"done", "refused"} = {}
      BY <1>1 DEF CallOK
    <3>2. calls[c].told = "unknown" => unresolved
      BY DEF IInv, Truthful
    <3>. QED BY <1>2, <3>1, <3>2
  <2>2. ASSUME NEW d \in Calls, calls'[d].kind = "reload", NEW e \in Calls, e < d
        PROVE  calls'[e].told \in {"done", "refused"}
    BY <1>2, <1>4, <2>2 DEF IInv, Truthful
  <2>3. ASSUME NEW d \in Calls, d # c
        PROVE  /\ HasRun(d)' => calls'[d].stage = "ended"
               /\ "done" \in {calls'[d].reply, calls'[d].told} => HasRun(d)'
               /\ "refused" \in {calls'[d].reply, calls'[d].told} => ~HasRun(d)'
               /\ calls'[d].told = "unknown" => unresolved'
    BY <1>4, <1>5, <1>8, <2>3 DEF IInv, Truthful
  <2>. QED BY <1>2, <1>4, <1>5, <1>8, <2>1, <2>2, <2>3 DEF Truthful
<1>15. Overtaken'
  <2>10. \A d \in Calls : calls'[d].kind = calls[d].kind /\ calls'[d].frame = calls[d].frame
    BY <1>2, <1>4
  <2>0. \A e, d \in Calls : Ungated(e, d)' = Ungated(e, d)
    BY <2>10 DEF Ungated
  <2>1. ASSUME NEW i \in 1..Len(ran'), NEW j \in 1..Len(ran'), i < j
        PROVE  /\ ran'[i] \in Calls /\ ran'[j] \in Calls
               /\ ran'[i] < ran'[j] \/ (ran'[j] < ran'[i] /\ Ungated(ran'[j], ran'[i]))
    <3>1. i \in 1..Len(ran) /\ ran'[i] = ran[i] /\ ran[i] \in Calls
      BY <1>7, <2>1
    <3>2. CASE j \in 1..Len(ran)
      <4>1. ran[i] < ran[j] \/ (ran[j] < ran[i] /\ Ungated(ran[j], ran[i]))
        BY <2>1, <3>1, <3>2 DEF IInv, Overtaken, InSelectionOrder
      <4>2. ran'[j] = ran[j] /\ ran[j] \in Calls
        BY <1>7, <3>2
      <4>. QED BY <3>1, <4>1, <4>2
    <3>3. CASE j = Len(ran) + 1
      <4>1. HasRun(ran[i]) /\ ran[i] # c
        BY <1>8, <3>1 DEF HasRun
      <4>2. c < ran[i] => Ungated(c, ran[i])
        BY <3>1, <4>1, NoneAfter
      <4>3. ran'[j] = c
        BY <1>7, <3>3
      <4>4. ran[i] \in Nat /\ c \in Nat
        BY <3>1, Bounds
      <4>. QED BY <3>1, <4>1, <4>2, <4>3, <4>4
    <3>. QED BY <1>7, <3>2, <3>3
  <2>2. ASSUME NEW e \in Calls, NEW d \in Calls, e < d, Released(e)'
        PROVE  /\ HasRun(d)' => Ungated(e, d)'
               /\ calls'[e].stage = "confirmed" /\ Used(d)'
                  => calls'[d].stage = "request" /\ calls'[d].ahead > 0
    <3>1. e # c /\ Released(e) /\ calls'[e] = calls[e]
      BY <1>2, <1>4, <2>2 DEF Released
    <3>2. CASE d = c
      <4>1. Ungated(e, d) /\ calls[e].stage # "confirmed"
        BY <2>2, <3>1, <3>2, NoneBefore
      <4>. QED BY <2>0, <3>1, <4>1
    <3>3. CASE d # c
      BY <1>4, <1>6, <1>8, <2>0, <2>2, <3>1, <3>3 DEF IInv, Overtaken
    <3>. QED BY <3>2, <3>3
  <2>3. InSelectionOrder'
    BY <2>1, <2>10 DEF InSelectionOrder, Ungated
  <2>. QED BY <2>2, <2>3 DEF Overtaken
<1>16. Followed'
  <2>1. ASSUME NEW d \in Calls, d # c
        PROVE  calls'[d] = calls[d]
    BY <1>4, <2>1
  <2>2. calls'[c].stage = "ended"
    BY <1>2, <1>4
  <2>. QED BY <1>5, <1>6, <2>1, <2>2 DEF IInv, Followed
<1>. QED BY <1>11, <1>12, <1>13, <1>14, <1>15, <1>16 DEF IInv

\* The press acts in the child.
LEMMA RunPressKeeps ==
  ASSUME IInv, NEW c \in Calls, RunPress(c)
  PROVE  IInv'
<1>1. Acts(c) /\ Answer(c, "done") /\ ran' = Append(ran, c) /\ Unmoved /\ child' = Freed(c)
  BY DEF RunPress, At, Released, Acts
<1>. QED BY <1>1, RunKeeps

\* The press acts in the top document, or is refused.
LEMMA ActsInTopKeeps ==
  ASSUME IInv, NEW c \in Calls, ActsInTop(c)
  PROVE  IInv'
<1>1. /\ At(c, "press", "deliver") /\ calls[c].frame = "top" /\ Unmoved /\ child' = child
      /\ calls[c].stage \notin Held
      /\ \/ Permits(c) /\ ran' = Append(ran, c) /\ Answer(c, "done")
         \/ Answer(c, "refused") /\ ran' = ran
  BY DEF ActsInTop, At, Held
<1>2. CASE Permits(c) /\ ran' = Append(ran, c) /\ Answer(c, "done")
  <2>1. Acts(c)
    BY <1>1, <1>2 DEF Acts, Permits
  <2>. QED BY <1>1, <1>2, <2>1, RunKeeps
<1>3. CASE Answer(c, "refused") /\ ran' = ran
  BY <1>1, <1>3, AnswerKeeps DEF At
<1>. QED BY <1>1, <1>2, <1>3

\* The page is reloaded, or the reload fails.
LEMMA ReloadKeeps ==
  ASSUME IInv, NEW c \in Calls, Reload(c)
  PROVE  IInv'
<1>1. /\ calls[c].stage = "confirmed" /\ child' = child /\ calls[c].stage \notin Held /\ Unmoved
      /\ \/ Authorized(c) /\ ran' = Append(ran, c) /\ Answer(c, "done")
         \/ ran' = ran /\ \E result \in {"refused", "unknown"} : Answer(c, result)
  BY DEF Reload, At, Held
<1>2. CASE Authorized(c) /\ ran' = Append(ran, c) /\ Answer(c, "done")
  <2>1. Acts(c)
    BY <1>1, <1>2 DEF Acts, Released, Authorized
  <2>. QED BY <1>1, <1>2, <2>1, RunKeeps
<1>3. ASSUME ran' = ran, NEW result \in {"refused", "unknown"}, Answer(c, result) PROVE IInv'
  BY <1>1, <1>3, AnswerKeeps
<1>. QED BY <1>1, <1>2, <1>3

-----------------------------------------------------------------------------
(* All calls at once: cancellations, pauses and loads of the child, restarts *)

\* A call that stays what it is and where it is, or ends without having run
Keeps(d) ==
    /\ calls'[d].kind = calls[d].kind /\ calls'[d].gen = calls[d].gen /\ calls'[d].seq = calls[d].seq
    /\ calls'[d].frame = calls[d].frame
    /\ calls'[d].doc = calls[d].doc /\ calls'[d].told = calls[d].told
    /\ calls'[d].stage = calls[d].stage \/ (calls'[d].stage = "ended" /\ calls[d].stage # "unused")
    /\ calls'[d].reply \in {calls[d].reply, "lost", "unknown"}
    /\ Released(d)' => Released(d) /\ calls'[d].stage = calls[d].stage
    /\ calls[d].stage = "request" => calls'[d].stage = "request"

\* No call comes closer to acting.
LEMMA AllKeep ==
  ASSUME IInv, UNCHANGED <<controller, ran>>, calls' \in [Calls -> CallRecords],
         \A d \in Calls : CallOK(calls'[d]) /\ Keeps(d),
         \A e, d \in Calls : Released(e)' /\ calls'[e].stage = "confirmed" /\ calls[d].stage = "request"
                                => calls'[d].ahead = calls[d].ahead,
         child' \in ChildStates, report' \in Reports, reporting' \subseteq ReportMessages,
         cancels' \in Nat, childPauses' \in Pauses, topPauses' \in Nat, lost' \subseteq Frames,
         Gated', Followed'
  PROVE  IInv'
<1>1. UNCHANGED <<top, confirmation, unresolved, inFlight, ran>>
  BY DEF controller
<1>2. \A d \in Calls : Awaits(d)' = Awaits(d) /\ Used(d)' = Used(d) /\ HasRun(d)' = HasRun(d)
  <2>1. \A d \in Calls : calls'[d].gen = calls[d].gen /\ calls'[d].seq = calls[d].seq
    BY DEF Keeps
  <2>2. \A d \in Calls : calls'[d].stage = "unused" <=> calls[d].stage = "unused"
    BY DEF Keeps
  <2>. QED BY <1>1, <2>1, <2>2 DEF Awaits, Used, HasRun
<1>3. Typed'
  <2>1. inFlight = {d \in Calls : calls'[d].kind # "none" /\ calls'[d].told = "none"}
    <3>1. inFlight = {d \in Calls : calls[d].kind # "none" /\ calls[d].told = "none"}
      BY DEF IInv, Typed
    <3>. QED BY <3>1 DEF Keeps
  <2>. QED BY <1>1, <2>1 DEF IInv, Typed
<1>4. Numbered'
  <2>1. \A d \in Calls : calls'[d].gen = calls[d].gen /\ calls'[d].seq = calls[d].seq
    BY DEF Keeps
  <2>. QED BY <1>1, <1>2, <2>1 DEF IInv, Numbered
<1>5. Truthful'
  <2>1. ASSUME NEW d \in Calls
        PROVE  /\ HasRun(d)' => calls'[d].stage = "ended"
               /\ "done" \in {calls'[d].reply, calls'[d].told} => HasRun(d)'
               /\ "refused" \in {calls'[d].reply, calls'[d].told} => ~HasRun(d)'
               /\ calls'[d].told = "unknown" => unresolved'
    BY <1>1, <1>2 DEF Keeps, IInv, Truthful
  <2>2. ASSUME NEW d \in Calls, calls'[d].kind = "reload", NEW e \in Calls, e < d
        PROVE  calls'[e].told \in {"done", "refused"}
    BY <2>2 DEF Keeps, IInv, Truthful
  <2>. QED BY <2>1, <2>2 DEF Truthful
<1>6. Overtaken'
  <2>1. InSelectionOrder'
    BY <1>1, OrderKeeps DEF Keeps
  <2>2. ASSUME NEW e \in Calls, NEW d \in Calls, e < d, Released(e)'
        PROVE  /\ HasRun(d)' => Ungated(e, d)'
               /\ calls'[e].stage = "confirmed" /\ Used(d)'
                  => calls'[d].stage = "request" /\ calls'[d].ahead > 0
    <3>1. Released(e) /\ calls'[e].stage = calls[e].stage
      BY <2>2 DEF Keeps
    <3>2. /\ HasRun(d) => Ungated(e, d)
          /\ calls[e].stage = "confirmed" /\ Used(d)
             => calls[d].stage = "request" /\ calls[d].ahead > 0
      BY <2>2, <3>1 DEF IInv, Overtaken
    <3>3. calls[d].stage = "request" => calls'[d].stage = "request"
      BY DEF Keeps
    <3>4. Ungated(e, d)' = Ungated(e, d)
      BY DEF Keeps, Ungated
    <3>. QED BY <1>2, <2>2, <3>1, <3>2, <3>3, <3>4
  <2>. QED BY <2>1, <2>2 DEF Overtaken
<1>. QED BY <1>3, <1>4, <1>5, <1>6 DEF IInv

\* Where no call changes, nor a child
LEMMA NoneMoves ==
  ASSUME IInv, UNCHANGED <<controller, calls, child, ran, cancels, childPauses, lost>>,
         report' \in Reports, reporting' \subseteq ReportMessages, topPauses' \in Nat,
         \A f \in Frames : report[f] # NoDocument => report'[f] # NoDocument
  PROVE  IInv'
<1>1. /\ calls' \in [Calls -> CallRecords] /\ child' \in ChildStates
      /\ cancels' \in Nat /\ childPauses' \in Pauses /\ lost' \subseteq Frames
      /\ \A d \in Calls : CallOK(calls'[d])
  BY DEF IInv, Typed
<1>2. \A d \in Calls : Keeps(d)
  BY DEF Keeps, Released
<1>3. Gated'
  BY DEF IInv, Gated
<1>4. Followed'
  <2>1. \A d \in Calls : calls[d].frame \in Frames
    BY DEF IInv, Typed, CallRecords
  <2>. QED BY <2>1 DEF IInv, Followed, Awaits, controller
<1>. QED BY <1>1, <1>2, <1>3, <1>4, AllKeep

\* A report names another document of the frame at most.
LEMMA ReportArrivesKeeps ==
  ASSUME IInv, NEW f \in Frames, NEW doc \in 0..MaxDocs, ReportArrives(f, doc)
  PROVE  IInv'
<1>1. /\ report \in Reports /\ reporting \subseteq ReportMessages /\ topPauses \in Nat
      /\ NoDocument \notin 0..MaxDocs
  BY Bounds DEF IInv, Typed, NoDocument
<1>2. UNCHANGED <<controller, calls, child, ran, cancels, childPauses, lost>>
  BY DEF ReportArrives
<1>3. /\ reporting' \subseteq ReportMessages /\ topPauses' \in Nat
      /\ report' = [report EXCEPT ![f] = doc]
  BY <1>1 DEF ReportArrives
<1>4. report' \in Reports /\ \A g \in Frames : report'[g] = IF g = f THEN doc ELSE report[g]
  BY <1>1, <1>3 DEF Reports
<1>. QED BY <1>1, <1>2, <1>3, <1>4, NoneMoves

\* Reporting again changes nothing but what is on its way.
LEMMA RepublishKeeps ==
  ASSUME IInv, NEW f \in Children, Republish(f)
  PROVE  IInv'
<1>1. /\ report \in Reports /\ reporting \subseteq ReportMessages /\ topPauses \in Nat
      /\ <<f, child[f].doc>> \in ReportMessages
  BY DEF IInv, Typed, ChildStates, ReportMessages, Frames
<1>2. UNCHANGED <<controller, calls, child, ran, cancels, childPauses, lost, report, topPauses>>
  BY DEF Republish
<1>3. reporting' \subseteq ReportMessages
  BY <1>1 DEF Republish
<1>. QED BY <1>1, <1>2, <1>3, NoneMoves

\* A pause of a child takes back the permission of the call it holds.
LEMMA ChildPausesKeeps ==
  ASSUME IInv, NEW f \in Children, calls' = PausedChild(f),
         UNCHANGED <<controller, child, ran, report, cancels, topPauses>>,
         reporting' \subseteq ReportMessages, childPauses' \in Pauses, lost' \subseteq Frames,
         \A g \in Children \ {f} : childPauses'[g] = childPauses[g] /\ (g \in lost => g \in lost')
  PROVE  IInv'
<1>1. /\ calls \in [Calls -> CallRecords] /\ \A d \in Calls : CallOK(calls[d])
      /\ child' \in ChildStates /\ cancels' \in Nat /\ topPauses' \in Nat /\ report' \in Reports
  BY DEF IInv, Typed
<1>2. ASSUME NEW d \in Calls
      PROVE  /\ calls'[d] \in CallRecords /\ calls'[d].stage = calls[d].stage
             /\ calls'[d].kind = calls[d].kind /\ calls'[d].gen = calls[d].gen
             /\ calls'[d].seq = calls[d].seq /\ calls'[d].frame = calls[d].frame
             /\ calls'[d].doc = calls[d].doc
             /\ calls'[d].told = calls[d].told /\ calls'[d].reply = calls[d].reply
             /\ calls'[d].valid = calls[d].valid /\ calls'[d].ahead = calls[d].ahead
             /\ calls[d].stage \in Held /\ calls[d].frame = f => ~calls'[d].local
             /\ calls[d].frame # f => calls'[d] = calls[d]
  <2>. DEFINE new == [calls[d] EXCEPT !.local = FALSE]
  <2>1. calls'[d] = IF calls[d].frame = f /\ calls[d].stage \in Held THEN new ELSE calls[d]
    BY DEF PausedChild, HeldBy
  <2>2. /\ new \in CallRecords /\ new.stage = calls[d].stage
        /\ new.kind = calls[d].kind /\ new.gen = calls[d].gen
        /\ new.seq = calls[d].seq /\ new.frame = calls[d].frame /\ new.doc = calls[d].doc
        /\ new.told = calls[d].told /\ new.reply = calls[d].reply
        /\ new.valid = calls[d].valid /\ new.ahead = calls[d].ahead /\ ~new.local
    BY <1>1 DEF CallRecords
  <2>. HIDE DEF new
  <2>. QED BY <1>1, <2>1, <2>2
<1>3. calls' \in [Calls -> CallRecords]
  BY <1>2 DEF PausedChild
<1>4. \A d \in Calls : CallOK(calls'[d]) /\ Keeps(d)
  <2>. SUFFICES ASSUME NEW d \in Calls PROVE CallOK(calls'[d]) /\ Keeps(d)
    OBVIOUS
  <2>1. CallOK(calls'[d])
    BY <1>1, <1>2 DEF CallOK
  <2>2. Keeps(d)
    BY <1>2 DEF Keeps, Released
  <2>. QED BY <2>1, <2>2
<1>5. Gated'
  BY <1>2 DEF IInv, Gated
<1>6. Followed'
  <2>. SUFFICES ASSUME NEW d \in Calls
                PROVE  /\ calls'[d].stage = "confirmed" /\ calls'[d].valid => Awaits(d)' \/ cancels' > 0
                       /\ /\ calls'[d].local
                          /\ calls'[d].stage = "approved" \/ (calls'[d].stage = "recheck" /\ calls'[d].valid)
                          => Awaits(d)' \/ cancels' > 0 \/ childPauses'[calls'[d].frame] > 0
                             \/ calls'[d].frame \in lost'
                       /\ calls'[d].local /\ calls'[d].stage \in {"approve", "recheck", "approved"}
                          => report'[calls'[d].frame] # NoDocument \/ calls'[d].frame \in lost'
    BY DEF Followed
  <2>1. Awaits(d)' = Awaits(d)
    BY <1>2 DEF Awaits, controller
  <2>2. calls[d].stage \in Held => calls[d].frame \in Children
    BY DEF IInv, Gated
  <2>3. CASE calls[d].stage \in Held /\ calls[d].frame = f
    BY <1>2, <2>3 DEF Held
  <2>4. CASE calls[d].stage \in Held /\ calls[d].frame # f
    BY <1>2, <2>1, <2>2, <2>4 DEF IInv, Followed
  <2>5. CASE calls[d].stage \notin Held
    BY <1>2, <2>1, <2>5 DEF IInv, Followed, Held
  <2>. QED BY <2>3, <2>4, <2>5
<1>. QED BY <1>1, <1>2, <1>3, <1>4, <1>5, <1>6, AllKeep

\* switch/pause arrives, or the port to the worker is closed.
LEMMA ChildHearsPauseKeeps ==
  ASSUME IInv, NEW f \in Children, ChildHearsPause(f) \/ ChildReconnects(f)
  PROVE  IInv'
<1>1. /\ childPauses \in Pauses /\ lost \subseteq Frames /\ reporting \subseteq ReportMessages
      /\ <<f, child[f].doc>> \in ReportMessages
  BY DEF IInv, Typed, ReportMessages, Frames, ChildStates
<1>2. CASE ChildHearsPause(f)
  <2>1. /\ calls' = PausedChild(f) /\ UNCHANGED <<controller, child, ran, report, cancels, topPauses>>
        /\ reporting' \subseteq ReportMessages /\ lost' = lost
        /\ childPauses[f] > 0 /\ childPauses' = [childPauses EXCEPT ![f] = @ - 1]
    BY <1>1, <1>2 DEF ChildHearsPause
  <2>2. /\ childPauses' \in Pauses
        /\ \A g \in Children \ {f} : childPauses'[g] = childPauses[g] /\ (g \in lost => g \in lost')
    BY <1>1, <2>1 DEF Pauses
  <2>. QED BY <1>1, <2>1, <2>2, ChildPausesKeeps
<1>3. CASE ChildReconnects(f)
  <2>1. /\ calls' = PausedChild(f) /\ UNCHANGED <<controller, child, ran, report, cancels, topPauses>>
        /\ reporting' \subseteq ReportMessages /\ childPauses' = childPauses /\ lost' = lost \ {f}
    BY <1>1, <1>3 DEF ChildReconnects
  <2>2. /\ childPauses' \in Pauses
        /\ \A g \in Children \ {f} : childPauses'[g] = childPauses[g] /\ (g \in lost => g \in lost')
    BY <1>1, <2>1
  <2>. QED BY <1>1, <2>1, <2>2, ChildPausesKeeps
<1>. QED BY <1>2, <1>3

\* Another document: what the old one held ends, and the gate is free.
LEMMA ChildLoadsKeeps ==
  ASSUME IInv, NEW f \in Children, ChildLoads(f)
  PROVE  IInv'
<1>1. /\ calls \in [Calls -> CallRecords] /\ \A d \in Calls : CallOK(calls[d])
      /\ child \in ChildStates /\ MaxDocs \in Nat /\ child[f].doc \in 0..MaxDocs
  BY Bounds DEF IInv, Typed, ChildStates
<1>2. ASSUME NEW d \in Calls, d \notin HeldBy(f) PROVE calls'[d] = calls[d]
  BY <1>2 DEF ChildLoads
<1>3. ASSUME NEW d \in HeldBy(f)
      PROVE  /\ d \in Calls /\ calls'[d] \in CallRecords /\ CallOK(calls'[d])
             /\ calls'[d].kind = calls[d].kind /\ calls'[d].gen = calls[d].gen
             /\ calls'[d].seq = calls[d].seq /\ calls'[d].frame = calls[d].frame
             /\ calls'[d].doc = calls[d].doc
             /\ calls'[d].told = calls[d].told /\ calls'[d].stage = "ended"
             /\ calls'[d].reply \in {calls[d].reply, "unknown"}
  <2>1. /\ d \in Calls /\ calls[d] \in CallRecords /\ CallOK(calls[d]) /\ Used(d)
        /\ "unknown" \in Answers \cup {"lost"}
    BY <1>1, <1>3 DEF Used, Held, HeldBy, Answers, Results
  <2>2. calls'[d] = Ended(d, "unknown")
    BY <1>3, <2>1 DEF ChildLoads
  <2>. QED BY <2>1, <2>2, EndedOK
<1>4. calls' \in [Calls -> CallRecords]
  <2>1. \A d \in Calls : calls'[d] \in CallRecords
    BY <1>1, <1>2, <1>3
  <2>. QED BY <2>1 DEF ChildLoads
<1>5. \A d \in Calls : CallOK(calls'[d]) /\ Keeps(d)
  <2>. SUFFICES ASSUME NEW d \in Calls PROVE CallOK(calls'[d]) /\ Keeps(d)
    OBVIOUS
  <2>1. CASE d \notin HeldBy(f)
    BY <1>1, <1>2, <2>1 DEF Keeps, Released
  <2>2. CASE d \in HeldBy(f)
    BY <1>3, <2>2 DEF Keeps, Released, Held, HeldBy
  <2>. QED BY <2>1, <2>2
<1>6. /\ UNCHANGED <<controller, ran, report, cancels, childPauses, topPauses>>
      /\ child' = [child EXCEPT ![f] = [doc |-> child[f].doc + 1, pending |-> 0]]
      /\ child[f].doc < MaxDocs
      /\ reporting' = reporting \cup {<<f, child[f].doc + 1>>} /\ lost' = lost \ {f}
  BY DEF ChildLoads
<1>7. /\ child' \in ChildStates /\ child'[f].pending = 0
      /\ \A g \in Children \ {f} : child'[g] = child[g]
      /\ report' \in Reports /\ reporting' \subseteq ReportMessages
      /\ cancels' \in Nat /\ childPauses' \in Pauses /\ topPauses' \in Nat /\ lost' \subseteq Frames
  <2>1. /\ report \in Reports /\ reporting \subseteq ReportMessages
        /\ cancels \in Nat /\ childPauses \in Pauses /\ topPauses \in Nat /\ lost \subseteq Frames
    BY DEF IInv, Typed
  <2>2. child[f].doc + 1 \in 0..MaxDocs
    BY <1>1, <1>6
  <2>3. /\ child' \in ChildStates /\ child'[f].pending = 0
        /\ \A g \in Children \ {f} : child'[g] = child[g]
    BY <1>1, <1>6, <2>2 DEF ChildStates
  <2>4. reporting' \subseteq ReportMessages
    BY <1>6, <2>1, <2>2 DEF ReportMessages, Frames
  <2>. QED BY <1>6, <2>1, <2>3, <2>4
<1>8. \A d \in Calls : calls'[d].stage \in Held => /\ calls'[d] = calls[d] /\ calls[d].frame # f
                                                    /\ calls[d].frame \in Children
  <2>. SUFFICES ASSUME NEW d \in Calls, calls'[d].stage \in Held
                PROVE  calls'[d] = calls[d] /\ calls[d].frame # f /\ calls[d].frame \in Children
    OBVIOUS
  <2>1. d \notin HeldBy(f)
    BY <1>3 DEF Held
  <2>2. calls'[d] = calls[d]
    BY <1>2, <2>1
  <2>. QED BY <2>1, <2>2 DEF HeldBy, IInv, Gated
<1>9. Gated'
  <2>1. ASSUME NEW d \in Calls, NEW g \in Children, child'[g].pending = d
        PROVE  calls'[d].stage \in Held /\ calls'[d].frame = g
    <3>1. d # 0
      BY DEF Calls
    <3>2. g # f /\ child[g].pending = d
      BY <1>7, <2>1, <3>1
    <3>3. calls[d].stage \in Held /\ calls[d].frame = g
      BY <3>2 DEF IInv, Gated
    <3>. QED BY <1>2, <3>2, <3>3 DEF HeldBy
  <2>2. ASSUME NEW d \in Calls, calls'[d].stage \in Held
        PROVE  /\ calls'[d].frame \in Children
               /\ child'[calls'[d].frame] = [doc |-> calls'[d].doc, pending |-> d]
    BY <1>7, <1>8, <2>2 DEF IInv, Gated
  <2>. QED BY <2>1, <2>2 DEF Gated
<1>10. Followed'
  <2>. SUFFICES ASSUME NEW d \in Calls
                PROVE  /\ calls'[d].stage = "confirmed" /\ calls'[d].valid => Awaits(d)' \/ cancels' > 0
                       /\ /\ calls'[d].local
                          /\ calls'[d].stage = "approved" \/ (calls'[d].stage = "recheck" /\ calls'[d].valid)
                          => Awaits(d)' \/ cancels' > 0 \/ childPauses'[calls'[d].frame] > 0
                             \/ calls'[d].frame \in lost'
                       /\ calls'[d].local /\ calls'[d].stage \in {"approve", "recheck", "approved"}
                          => report'[calls'[d].frame] # NoDocument \/ calls'[d].frame \in lost'
    BY DEF Followed
  <2>1. CASE d \in HeldBy(f)
    BY <1>3, <2>1
  <2>2. CASE d \notin HeldBy(f)
    <3>1. calls'[d] = calls[d] /\ Awaits(d)' = Awaits(d)
      BY <1>2, <1>6, <2>2 DEF Awaits, controller
    <3>2. calls[d].stage \in {"approve", "recheck", "approved"} => calls[d].frame # f
      BY <2>2 DEF HeldBy, Held
    <3>. QED BY <1>6, <3>1, <3>2 DEF IInv, Followed
  <2>. QED BY <2>1, <2>2
<1>11. \A e, d \in Calls : Released(e)' /\ calls'[e].stage = "confirmed" /\ calls[d].stage = "request"
                              => calls'[d].ahead = calls[d].ahead
  BY <1>2 DEF Held, HeldBy
<1>12. UNCHANGED <<controller, ran>>
  BY <1>6
<1>. QED BY <1>4, <1>5, <1>7, <1>9, <1>10, <1>11, <1>12, AllKeep

\* The cancellation voids what the worker has under way, and the child pauses.
LEMMA CancelArrivesKeeps ==
  ASSUME IInv, CancelArrives
  PROVE  IInv'
<1>1. /\ calls \in [Calls -> CallRecords] /\ \A d \in Calls : CallOK(calls[d])
      /\ cancels \in Nat /\ childPauses \in Pauses
  BY DEF IInv, Typed
<1>2. ASSUME NEW d \in Calls
      PROVE  /\ calls'[d] \in CallRecords /\ calls'[d].stage = calls[d].stage
             /\ calls'[d].kind = calls[d].kind /\ calls'[d].gen = calls[d].gen
             /\ calls'[d].frame = calls[d].frame
             /\ calls'[d].seq = calls[d].seq /\ calls'[d].doc = calls[d].doc
             /\ calls'[d].told = calls[d].told /\ calls'[d].reply = calls[d].reply
             /\ calls'[d].local = calls[d].local
             /\ calls[d].stage \in Watched => ~calls'[d].valid
             /\ calls[d].stage \notin Watched => calls'[d].valid = calls[d].valid
  <2>. DEFINE v == calls[d].valid /\ calls[d].stage \notin Watched
              a == IF calls[d].ahead > 0 THEN calls[d].ahead - 1 ELSE 0
              new == [calls[d] EXCEPT !.valid = v, !.ahead = a]
  <2>1. calls'[d] = new
    BY <1>1 DEF CancelArrives, CallRecords
  <2>2. v \in BOOLEAN /\ a \in Nat /\ (calls[d].stage \in Watched => ~v)
        /\ (calls[d].stage \notin Watched => v = calls[d].valid)
    BY <1>1 DEF CallRecords
  <2>. HIDE DEF v, a
  <2>3. /\ new \in CallRecords /\ new.stage = calls[d].stage
        /\ new.kind = calls[d].kind /\ new.gen = calls[d].gen
        /\ new.frame = calls[d].frame
        /\ new.seq = calls[d].seq /\ new.doc = calls[d].doc
        /\ new.told = calls[d].told /\ new.reply = calls[d].reply
        /\ new.local = calls[d].local /\ new.valid = v
    BY <1>1, <2>2 DEF CallRecords
  <2>. HIDE DEF new
  <2>. QED BY <2>1, <2>2, <2>3
<1>3. calls' \in [Calls -> CallRecords]
  BY <1>2 DEF CancelArrives
<1>4. \A d \in Calls : CallOK(calls'[d]) /\ Keeps(d)
  <2>. SUFFICES ASSUME NEW d \in Calls PROVE CallOK(calls'[d]) /\ Keeps(d)
    OBVIOUS
  <2>1. CallOK(calls'[d])
    BY <1>1, <1>2 DEF CallOK
  <2>2. Keeps(d)
    BY <1>2 DEF Keeps, Released, Watched
  <2>. QED BY <2>1, <2>2
<1>5. /\ UNCHANGED <<controller, child, report, reporting, topPauses, lost, ran>>
      /\ cancels' \in Nat /\ childPauses' \in Pauses
      /\ \A f \in Children : report[f] # NoDocument => childPauses'[f] > 0
  <2>1. UNCHANGED <<controller, child, report, reporting, topPauses, lost, ran>>
    BY DEF CancelArrives
  <2>2. /\ cancels > 0 /\ cancels' = cancels - 1
        /\ childPauses' = [f \in Children |-> IF report[f] # NoDocument THEN childPauses[f] + 1
                                              ELSE childPauses[f]]
    BY DEF CancelArrives
  <2>. QED BY <1>1, <2>1, <2>2 DEF Pauses
<1>6. Gated'
  BY <1>2, <1>5 DEF IInv, Gated
<1>7. \A d \in Calls : calls'[d].stage = "confirmed" => ~calls'[d].valid
  BY <1>2 DEF Watched
<1>8. Followed'
  <2>. SUFFICES ASSUME NEW d \in Calls
                PROVE  /\ /\ calls'[d].local
                          /\ calls'[d].stage = "approved" \/ (calls'[d].stage = "recheck" /\ calls'[d].valid)
                          => Awaits(d)' \/ cancels' > 0 \/ childPauses'[calls'[d].frame] > 0
                             \/ calls'[d].frame \in lost'
                       /\ calls'[d].local /\ calls'[d].stage \in {"approve", "recheck", "approved"}
                          => report'[calls'[d].frame] # NoDocument \/ calls'[d].frame \in lost'
    BY <1>7 DEF Followed
  <2>1. calls[d].local /\ calls[d].stage \in {"approve", "recheck", "approved"}
        => report[calls[d].frame] # NoDocument \/ calls[d].frame \in lost
    BY DEF IInv, Followed
  <2>2. calls[d].stage \in {"approve", "recheck", "approved"} => calls[d].frame \in Children
    BY DEF IInv, Gated, Held
  <2>. QED BY <1>2, <1>5, <2>1, <2>2
<1>9. \A e, d \in Calls : Released(e)' /\ calls'[e].stage = "confirmed" /\ calls[d].stage = "request"
                             => calls'[d].ahead = calls[d].ahead
  BY <1>7 DEF Released
<1>10. /\ child' \in ChildStates /\ report' \in Reports /\ reporting' \subseteq ReportMessages
       /\ topPauses' \in Nat /\ lost' \subseteq Frames
  BY <1>5 DEF IInv, Typed
<1>. QED BY <1>3, <1>4, <1>5, <1>6, <1>8, <1>9, <1>10, AllKeep

\* What the worker was doing ends without an answer; every frame is to notice.
LEMMA WorkerRestartKeeps ==
  ASSUME IInv, WorkerRestart
  PROVE  IInv'
<1>1. /\ calls \in [Calls -> CallRecords] /\ \A d \in Calls : CallOK(calls[d])
      /\ child \in ChildStates
  BY DEF IInv, Typed
<1>2. ASSUME NEW d \in Calls, calls[d].stage \notin AtWorker, calls[d].stage \notin Underway
      PROVE  calls'[d] = calls[d]
  BY <1>2 DEF WorkerRestart
<1>3. ASSUME NEW d \in Calls, calls[d].stage \in AtWorker \cup Underway
      PROVE  /\ Ended(d, "lost") \in CallRecords /\ CallOK(Ended(d, "lost"))
             /\ Ended(d, "lost").kind = calls[d].kind /\ Ended(d, "lost").gen = calls[d].gen
             /\ Ended(d, "lost").frame = calls[d].frame
             /\ Ended(d, "lost").seq = calls[d].seq /\ Ended(d, "lost").doc = calls[d].doc
             /\ Ended(d, "lost").told = calls[d].told /\ Ended(d, "lost").stage = "ended"
             /\ Ended(d, "lost").reply \in {calls[d].reply, "lost"}
  <2>1. calls[d] \in CallRecords /\ CallOK(calls[d]) /\ Used(d) /\ "lost" \in Answers \cup {"lost"}
    BY <1>1, <1>3 DEF Used, AtWorker, Underway
  <2>. QED BY <2>1, EndedOK
<1>4. ASSUME NEW d \in Calls, calls[d].stage \in AtWorker PROVE calls'[d] = Ended(d, "lost")
  <2>1. calls[d].stage \notin Underway
    BY <1>4 DEF AtWorker, Underway
  <2>. QED BY <1>4, <2>1 DEF WorkerRestart
<1>5. ASSUME NEW d \in Calls, calls[d].stage \in Underway
      PROVE  /\ calls'[d] \in CallRecords /\ CallOK(calls'[d])
             /\ calls'[d].kind = calls[d].kind /\ calls'[d].gen = calls[d].gen
             /\ calls'[d].frame = calls[d].frame
             /\ calls'[d].seq = calls[d].seq /\ calls'[d].doc = calls[d].doc
             /\ calls'[d].told = calls[d].told /\ calls'[d].stage = calls[d].stage
             /\ calls'[d].reply \in {calls[d].reply, "lost"}
  <2>. DEFINE e == Ended(d, "lost")
              new == [e EXCEPT !.stage = calls[d].stage, !.local = calls[d].local]
  <2>1. calls[d].stage \notin AtWorker
    BY <1>5 DEF AtWorker, Underway
  <2>2. calls'[d] = new
    BY <1>5, <2>1 DEF WorkerRestart
  <2>. HIDE DEF e
  <2>3. /\ e \in CallRecords /\ e.kind = calls[d].kind /\ e.gen = calls[d].gen
        /\ e.frame = calls[d].frame
        /\ e.seq = calls[d].seq /\ e.doc = calls[d].doc
        /\ e.told = calls[d].told /\ e.reply \in {calls[d].reply, "lost"}
    BY <1>3, <1>5 DEF e
  <2>4. calls[d].stage \in {"unused"} \cup PressStages \cup ReloadStages /\ calls[d].local \in BOOLEAN
    BY <1>1 DEF CallRecords
  <2>5. /\ new \in CallRecords /\ new.kind = e.kind /\ new.gen = e.gen
        /\ new.frame = e.frame
        /\ new.seq = e.seq /\ new.doc = e.doc /\ new.stage = calls[d].stage
        /\ new.told = e.told /\ new.reply = e.reply
    BY <2>3, <2>4 DEF CallRecords
  <2>. HIDE DEF new
  <2>6. CallOK(new)
    <3>1. calls[d].stage \notin {"ended", "unused"} /\ CallOK(calls[d])
      BY <1>1, <1>5 DEF Underway
    <3>. QED BY <2>3, <2>5, <3>1 DEF CallOK
  <2>. QED BY <2>2, <2>3, <2>5, <2>6
<1>6. calls' \in [Calls -> CallRecords]
  <2>1. \A d \in Calls : calls'[d] \in CallRecords
    BY <1>1, <1>2, <1>3, <1>4, <1>5
  <2>. QED BY <2>1 DEF WorkerRestart
<1>7. \A d \in Calls : CallOK(calls'[d]) /\ Keeps(d)
  <2>. SUFFICES ASSUME NEW d \in Calls PROVE CallOK(calls'[d]) /\ Keeps(d)
    OBVIOUS
  <2>1. CASE calls[d].stage \notin AtWorker \cup Underway
    BY <1>1, <1>2, <2>1 DEF Keeps, Released
  <2>2. CASE calls[d].stage \in AtWorker
    BY <1>3, <1>4, <2>2 DEF Keeps, Released, AtWorker
  <2>3. CASE calls[d].stage \in Underway
    BY <1>5, <2>3 DEF Keeps, Released, Underway
  <2>. QED BY <2>1, <2>2, <2>3
<1>8. /\ UNCHANGED <<controller, ran, reporting, cancels, childPauses, topPauses>>
      /\ report' = [f \in Frames |-> NoDocument] /\ lost' = Frames
      /\ child' = [f \in Children |-> IF child[f].pending \in Stages({"approve", "recheck"})
                                      THEN [child[f] EXCEPT !.pending = 0] ELSE child[f]]
  BY DEF WorkerRestart, channels
<1>9. /\ child' \in ChildStates
      /\ \A f \in Children :
            /\ child'[f].doc = child[f].doc
            /\ child'[f].pending = IF child[f].pending \in Stages({"approve", "recheck"}) THEN 0
                                  ELSE child[f].pending
  BY <1>1, <1>8 DEF ChildStates
<1>10. /\ report' \in Reports /\ reporting' \subseteq ReportMessages
       /\ cancels' \in Nat /\ childPauses' \in Pauses /\ topPauses' \in Nat /\ lost' \subseteq Frames
  BY <1>8 DEF IInv, Typed, Reports
<1>11. Gated'
  <2>1. ASSUME NEW d \in Calls
        PROVE  /\ calls'[d].frame = calls[d].frame /\ calls'[d].doc = calls[d].doc
               /\ calls'[d].stage \in Held <=> calls[d].stage \in Held \ {"approve", "recheck"}
    <3>1. CASE calls[d].stage \notin AtWorker \cup Underway
      BY <1>2, <3>1 DEF AtWorker
    <3>2. CASE calls[d].stage \in AtWorker
      BY <1>3, <1>4, <3>2 DEF AtWorker, Held
    <3>3. CASE calls[d].stage \in Underway
      BY <1>5, <3>3 DEF Underway
    <3>. QED BY <3>1, <3>2, <3>3
  <2>2. ASSUME NEW d \in Calls, calls'[d].stage \in Held
        PROVE  /\ calls'[d].frame \in Children
               /\ child'[calls'[d].frame] = [doc |-> calls'[d].doc, pending |-> d]
    <3>. DEFINE g == calls[d].frame
    <3>1. calls[d].stage \in Held /\ calls[d].stage \notin {"approve", "recheck"}
      BY <2>1, <2>2
    <3>2. g \in Children /\ child[g] = [doc |-> calls[d].doc, pending |-> d]
      BY <3>1 DEF IInv, Gated
    <3>3. child'[g] = child[g]
      BY <1>8, <3>1, <3>2 DEF Stages
    <3>. QED BY <2>1, <3>2, <3>3
  <2>3. ASSUME NEW d \in Calls, NEW f \in Children, child'[f].pending = d
        PROVE  calls'[d].stage \in Held /\ calls'[d].frame = f
    <3>1. d # 0
      BY DEF Calls
    <3>2. child[f].pending = d /\ d \notin Stages({"approve", "recheck"})
      BY <1>9, <2>3, <3>1
    <3>3. calls[d].stage \in Held /\ calls[d].frame = f
      BY <3>2 DEF IInv, Gated
    <3>. QED BY <2>1, <3>2, <3>3 DEF Stages
  <2>. QED BY <2>2, <2>3 DEF Gated
<1>12. Followed'
  <2>1. \A d \in Calls : calls'[d].frame \in lost'
    BY <1>6, <1>8 DEF CallRecords
  <2>2. \A d \in Calls : calls'[d].stage # "confirmed"
    BY <1>2, <1>3, <1>4, <1>5 DEF AtWorker, Underway
  <2>. QED BY <2>1, <2>2 DEF Followed
<1>13. \A e, d \in Calls : Released(e)' /\ calls'[e].stage = "confirmed" /\ calls[d].stage = "request"
                              => calls'[d].ahead = calls[d].ahead
  BY <1>2 DEF AtWorker, Underway
<1>. QED BY <1>6, <1>7, <1>8, <1>9, <1>10, <1>11, <1>12, <1>13, AllKeep

-----------------------------------------------------------------------------
(* The invariant *)

\* The panel starts with the root menu, and no call.
LEMMA InitHolds == Init => IInv
<1>. SUFFICES ASSUME Init PROVE IInv
  OBVIOUS
<1>1. /\ top = SetItems(CreateSwitchState, Root, "groupScan")
      /\ confirmation = FALSE /\ unresolved = FALSE /\ inFlight = {}
      /\ calls = [c \in Calls |-> Unused] /\ child = [f \in Children |-> [doc |-> 0, pending |-> 0]]
      /\ report = [f \in Frames |-> 0] /\ reporting = {} /\ cancels = 0
      /\ childPauses = [f \in Children |-> 0] /\ topPauses = 0
      /\ lost = {} /\ ran = <<>>
  BY DEF Init
<1>2. 0 \in 0..MaxDocs /\ MaxGen \in Nat /\ MaxGen > 0
  BY Bounds
<1>3. TopOK(top) /\ top.gen = 1 /\ top.seq = 0 /\ top.pending = NoAction
  <2>. DEFINE none == NoAction
              nothing == Nothing
              root == Root
              empty == <<>>
              s == CreateSwitchState
              States == [mode : Modes, resume : Modes, items : {root, empty}, scan : Nat, cycle : Nat,
                         pressed : Locks, pending : Actions, gen : Nat, seq : Nat, settled : BOOLEAN]
              u == [s EXCEPT !.items = root, !.pending = none, !.mode = "groupScan", !.resume = "groupScan"]
              v == [u EXCEPT !.scan = 0, !.cycle = 0]
  <2>1. top = [v EXCEPT !.pressed = nothing, !.gen = 1]
    <3>1. s.gen + 1 = 1
      BY DEF CreateSwitchState
    <3>. QED BY <1>1, <3>1 DEF SetItems
  <2>2. /\ root \in Menus /\ none \in Actions /\ nothing \in Locks /\ {"ready", "groupScan"} \subseteq Modes
    BY NoActionType DEF Menus, Locks, Modes
  <2>3. s = [mode |-> "ready", resume |-> "groupScan", items |-> empty, scan |-> 0, cycle |-> 0,
             pressed |-> nothing, pending |-> none, gen |-> 0, seq |-> 0, settled |-> TRUE]
    BY DEF CreateSwitchState
  <2>. HIDE DEF none, nothing, root, empty, s
  <2>4. s \in States /\ s.seq = 0 /\ s.settled
    BY <2>2, <2>3
  <2>5. /\ u \in States /\ u.pending = none /\ u.seq = 0 /\ u.settled /\ u.mode = "groupScan"
        /\ u.resume = "groupScan" /\ u.items = root
    BY <2>2, <2>4
  <2>. HIDE DEF u
  <2>6. /\ v \in States /\ v.pending = none /\ v.seq = 0 /\ v.settled /\ v.mode = "groupScan"
        /\ v.resume = "groupScan" /\ v.items = root
    BY <2>5
  <2>. HIDE DEF v
  <2>7. /\ top \in TopStates /\ top.pending = none /\ top.seq = 0 /\ top.settled /\ top.mode = "groupScan"
        /\ top.resume = "groupScan" /\ top.gen = 1 /\ top.pressed = nothing
    BY <2>1, <2>2, <2>6 DEF TopStates
  <2>. QED BY <2>7 DEF TopOK, Scanning, none, nothing
<1>4. \A c \in Calls : /\ calls[c] = Unused /\ Unused.kind = "none" /\ Unused.stage = "unused"
                       /\ Unused.told = "none" /\ Unused.reply = "none"
  BY <1>1 DEF Unused
<1>5. Unused \in CallRecords /\ CallOK(Unused)
  <2>1. Unused \in CallRecords
    BY <1>2 DEF CallRecords, Unused, Answers, Frames
  <2>2. {Unused.reply, Unused.told} \cap {"done", "refused"} = {}
    BY DEF Unused
  <2>. QED BY <2>1, <2>2 DEF CallOK, Unused
<1>6. \A c \in Calls : ~HasRun(c) /\ ~Used(c) /\ ~Released(c)
  <2>1. Len(ran) = 0
    BY <1>1
  <2>. QED BY <1>4, <2>1 DEF HasRun, Used, Released
<1>7. Typed
  <2>1. ran \in Seq(Calls)
    BY <1>1
  <2>2. child \in ChildStates
    BY <1>1, <1>2 DEF ChildStates
  <2>3. calls \in [Calls -> CallRecords] /\ \A c \in Calls : CallOK(calls[c])
    BY <1>1, <1>5
  <2>4. inFlight = {c \in Calls : calls[c].kind # "none" /\ calls[c].told = "none"}
    BY <1>1, <1>4
  <2>5. /\ TopOK(top) /\ top.gen <= MaxGen
    BY <1>2, <1>3
  <2>6. /\ confirmation \in BOOLEAN /\ unresolved \in BOOLEAN
        /\ report \in Reports /\ reporting \subseteq ReportMessages
        /\ cancels \in Nat /\ childPauses \in Pauses /\ topPauses \in Nat /\ lost \subseteq Frames
    BY <1>1, <1>2 DEF Reports, Pauses
  <2>. QED BY <2>1, <2>2, <2>3, <2>4, <2>5, <2>6 DEF Typed
<1>8. Numbered
  BY <1>1, <1>6 DEF Numbered
<1>9. Gated
  BY <1>1, <1>4 DEF Gated, Held, Calls
<1>10. Truthful
  BY <1>4, <1>6 DEF Truthful
<1>11. Overtaken
  <2>1. InSelectionOrder
    <3>1. Len(ran) = 0
      BY <1>1
    <3>. QED BY <3>1 DEF InSelectionOrder
  <2>. QED BY <1>6, <2>1 DEF Overtaken
<1>12. Followed
  BY <1>4 DEF Followed
<1>. QED BY <1>7, <1>8, <1>9, <1>10, <1>11, <1>12 DEF IInv

\* The steps of the top document.
LEMMA TopSteps ==
  ASSUME IInv, top'.gen <= MaxGen, TopNext
  PROVE  IInv'
<1>1. CASE PauseByUser \/ TopHearsPause \/ TopReconnects
  BY <1>1, PausesKeep
<1>2. CASE Wake
  BY <1>2, WakeKeeps
<1>3. CASE SilentRounds
  BY <1>3, SilenceKeeps
<1>4. CASE SelectReload \/ SelectCancel
  BY <1>4, MenuKeeps
<1>5. ASSUME NEW c \in Calls, SelectConfirm(c) PROVE IInv'
  BY <1>5, SelectConfirmKeeps
<1>6. ASSUME NEW c \in Calls, ReceiveReply(c) PROVE IInv'
  <2>1. /\ calls[c].reply \in {"done", "refused", "unknown"} /\ Learn(c, calls[c].reply, FALSE)
        /\ FALSE \in BOOLEAN
    BY <1>6 DEF ReceiveReply, IInv, Typed, CallRecords, Answers, Results
  <2>. QED BY <2>1, LearnKeeps
<1>7. ASSUME NEW c \in Calls, ReplyTimeout(c) \/ ReplyLost(c) PROVE IInv'
  <2>1. Learn(c, "unknown", TRUE) /\ TRUE \in BOOLEAN /\ "unknown" \in {"done", "refused", "unknown"}
    BY <1>7 DEF ReplyTimeout, ReplyLost
  <2>. QED BY <2>1, LearnKeeps
<1>8. ASSUME NEW c \in Calls, NEW f \in Frames, NEW doc \in 0..MaxDocs, SelectPress(c, f, doc) PROVE IInv'
  BY <1>8, SelectPressKeeps
<1>9. ASSUME NEW c \in Calls, ActsInTop(c) PROVE IInv'
  BY <1>9, ActsInTopKeeps
<1>. QED BY <1>1, <1>2, <1>3, <1>4, <1>5, <1>6, <1>7, <1>8, <1>9 DEF TopNext

\* The steps of the worker.
LEMMA RelaySteps ==
  ASSUME IInv, RelayNext
  PROVE  IInv'
<1>1. CASE CancelArrives
  BY <1>1, CancelArrivesKeeps
<1>2. CASE WorkerRestart
  BY <1>2, WorkerRestartKeeps
<1>3. ASSUME NEW f \in Frames, NEW doc \in 0..MaxDocs, ReportArrives(f, doc) PROVE IInv'
  BY <1>3, ReportArrivesKeeps
<1>4. ASSUME NEW c \in Calls, ExecuteArrives(c) \/ ExecuteAuthorized(c) PROVE IInv'
  BY <1>4, ExecuteArrivesKeeps, ExecuteAuthorizedKeeps
<1>5. ASSUME NEW c \in Calls, CheckArrives(c) \/ TopApproves(c) \/ Recheck(c) PROVE IInv'
  BY <1>5, CheckArrivesKeeps, TopApprovesKeeps, RecheckKeeps
<1>6. ASSUME NEW c \in Calls, NavigationArrives(c) \/ TopAnswers(c) PROVE IInv'
  BY <1>6, NavigationArrivesKeeps, TopAnswersKeeps
<1>7. ASSUME NEW c \in Calls, TabsRead(c) \/ Reload(c) PROVE IInv'
  BY <1>7, TabsReadKeeps, ReloadKeeps
<1>. QED BY <1>1, <1>2, <1>3, <1>4, <1>5, <1>6, <1>7 DEF RelayNext

\* The steps of the child frames.
LEMMA ChildSteps ==
  ASSUME IInv, ChildNext
  PROVE  IInv'
<1>1. ASSUME NEW f \in Children, ChildHearsPause(f) \/ ChildReconnects(f) PROVE IInv'
  BY <1>1, ChildHearsPauseKeeps
<1>2. ASSUME NEW f \in Children, ChildLoads(f) PROVE IInv'
  BY <1>2, ChildLoadsKeeps
<1>3. ASSUME NEW f \in Children, Republish(f) PROVE IInv'
  BY <1>3, RepublishKeeps
<1>4. ASSUME NEW c \in Calls, Deliver(c) \/ RunPress(c) PROVE IInv'
  BY <1>4, DeliverKeeps, RunPressKeeps
<1>5. ASSUME NEW c \in Calls, DropPress(c) \/ CheckTimeout(c) PROVE IInv'
  BY <1>5, DropPressKeeps, CheckTimeoutKeeps
<1>. QED BY <1>1, <1>2, <1>3, <1>4, <1>5 DEF ChildNext

\* The invariant is inductive.
LEMMA StepHolds == IInv /\ [Next]_vars => IInv'
<1>. SUFFICES ASSUME IInv, [Next]_vars PROVE IInv'
  OBVIOUS
<1>1. CASE Next
  BY <1>1, TopSteps, RelaySteps, ChildSteps DEF Next
<1>2. CASE UNCHANGED vars
  <2>1. /\ UNCHANGED <<controller, calls, child, ran, cancels, childPauses, lost>>
        /\ UNCHANGED <<report, reporting, topPauses>>
    BY <1>2 DEF vars, channels
  <2>2. report \in Reports /\ reporting \subseteq ReportMessages /\ topPauses \in Nat
    BY DEF IInv, Typed
  <2>. QED BY <2>1, <2>2, NoneMoves
<1>. QED BY <1>1, <1>2

\* It holds throughout.
LEMMA Invariance == Spec => []IInv
BY InitHolds, StepHolds, PTL DEF Spec

-----------------------------------------------------------------------------
(* Theorems *)

\* What is carried out is carried out once, and nothing acts after what was
\* selected later, whatever was given up, paused, restarted or loaded in between;
\* but for a press in a child frame, after one in another frame or in the top
\* document, which no gate holds apart from it.
\* (switch-actions.ts:5-10, switch-controller.ts:616-636)
THEOREM SelectionOrder == Spec => []InSelectionOrder
<1>1. IInv => InSelectionOrder
  BY DEF IInv, Overtaken
<1>. QED BY <1>1, Invariance, PTL

\* The state has its type, and what the user is told of an action is true.
\* (switch-controller.ts:40-49, 571-584, switch-relay.ts:115-127)
THEOREM Honesty == Spec => []HonestResult
<1>1. IInv => TypeOK
  <2>. SUFFICES ASSUME IInv PROVE TypeOK
    OBVIOUS
  <2>1. /\ top.mode \in Modes /\ top.gen \in 0..MaxGen /\ top.pressed = Nothing
    BY Bounds DEF IInv, Typed, TopOK, TopStates
  <2>2. \A c \in Calls : /\ calls[c].told \in Results \cup {"none"}
                         /\ calls[c].reply \in Results \cup {"none", "lost"}
    BY DEF IInv, Typed, CallRecords, Answers
  <2>3. ASSUME NEW f \in Children
        PROVE  child[f].doc \in 0..MaxDocs /\ {c \in Calls : child[f].pending = c} = HeldBy(f)
    <3>1. child[f].doc \in 0..MaxDocs
      BY DEF IInv, Typed, ChildStates
    <3>2. ASSUME NEW c \in Calls PROVE child[f].pending = c <=> c \in HeldBy(f)
      <4>1. child[f].pending = c => calls[c].stage \in Held /\ calls[c].frame = f
        BY DEF IInv, Gated
      <4>2. calls[c].stage \in Held => child[calls[c].frame].pending = c
        BY GateHeld
      <4>. QED BY <4>1, <4>2 DEF HeldBy
    <3>3. HeldBy(f) \subseteq Calls
      BY DEF HeldBy
    <3>. QED BY <3>1, <3>2, <3>3
  <2>. QED BY <2>1, <2>2, <2>3 DEF IInv, Typed, TypeOK, Reports, ReportMessages
<1>2. IInv => HonestResult
  <2>. SUFFICES ASSUME IInv PROVE HonestResult
    OBVIOUS
  <2>1. ASSUME NEW c \in Calls
        PROVE  /\ calls[c].told = "done" => HasRun(c)
               /\ calls[c].told = "refused" => ~HasRun(c) /\ calls[c].stage = "ended"
               /\ calls[c].told = "unknown" => unresolved
    BY DEF IInv, Truthful, Typed, CallOK
  <2>. QED BY <1>1, <2>1 DEF HonestResult, HasRun
<1>. QED BY <1>2, Invariance, PTL

\* The page is reloaded only when every earlier action has a known end.
\* (switch-controller.ts:170-174, 604-610, switch-relay.ts:128-161)
THEOREM WorkIsSpared == Spec => []ReloadSparesOpenWork
<1>1. IInv => ReloadSparesOpenWork
  <2>. SUFFICES ASSUME IInv, NEW k \in 1..Len(ran), calls[ran[k]].kind = "reload", NEW c \in 1..(ran[k] - 1)
                PROVE  calls[c].told \in {"done", "refused"} /\ calls[c].stage = "ended"
    BY DEF ReloadSparesOpenWork
  <2>1. ran[k] \in Calls
    BY DEF IInv, Typed
  <2>2. c \in Calls /\ c < ran[k]
    BY <2>1, Bounds DEF Calls
  <2>3. calls[c].told \in {"done", "refused"}
    BY <2>1, <2>2 DEF IInv, Truthful
  <2>. QED BY <2>2, <2>3 DEF IInv, Typed, CallOK
<1>. QED BY <1>1, Invariance, PTL

\* Only these three steps carry something out.
LEMMA WhoActs ==
  ASSUME IInv, [Next]_vars, ran' # ran
  PROVE  \E c \in Calls : /\ ran'[Len(ran')] = c
                          /\ \/ RunPress(c)
                             \/ ActsInTop(c) /\ Awaits(c)
                             \/ Reload(c) /\ Released(c)
<1>1. Len(ran) \in Nat /\ ran \in Seq(Calls)
  BY DEF IInv, Typed
<1>2. ASSUME NEW c \in Calls, ran' = Append(ran, c) PROVE ran'[Len(ran')] = c
  BY <1>1, <1>2
<1>3. ASSUME NEW c \in Calls, RunPress(c)
      PROVE  ran' = Append(ran, c)
  BY <1>3 DEF RunPress
<1>4. ASSUME NEW c \in Calls, Reload(c)
      PROVE  ran' = Append(ran, c) /\ Released(c)
  BY <1>4 DEF Reload, At, Released, Authorized
<1>5. ASSUME NEW c \in Calls, ActsInTop(c)
      PROVE  ran' = Append(ran, c) /\ Awaits(c)
  BY <1>5 DEF ActsInTop, Permits
<1>6. Next
  BY DEF vars
<1>7. TopNext => \E c \in Calls : ActsInTop(c)
  BY DEF TopNext, PauseByUser, TopHearsPause, Wake, SilentRounds, TopReconnects, SelectReload, SelectCancel,
     SelectConfirm, ReceiveReply, ReplyTimeout, ReplyLost, Learn, SelectPress, Others
<1>8. RelayNext => \E c \in Calls : Reload(c)
  BY DEF RelayNext, CancelArrives, WorkerRestart, ReportArrives, ExecuteArrives, ExecuteAuthorized,
     CheckArrives, TopApproves, Recheck, NavigationArrives, TopAnswers, TabsRead
<1>9. ChildNext => \E c \in Calls : RunPress(c)
  BY DEF ChildNext, ChildHearsPause, ChildLoads, Republish, ChildReconnects, Deliver, DropPress, CheckTimeout
<1>10. \E c \in Calls : RunPress(c) \/ ActsInTop(c) \/ Reload(c)
  BY <1>6, <1>7, <1>8, <1>9 DEF Next
<1>. QED BY <1>2, <1>3, <1>4, <1>5, <1>10

\* A press in a child frame acts only in the document its target was taken from,
\* and holds its gate.
\* (switch-actions.ts:6, switch-relay.ts:75-84)
THEOREM PressDocument == Spec => PressMeetsItsDocument
<1>1. IInv /\ [Next]_vars =>
        [\A c \in Calls : ran' # ran /\ ran'[Len(ran')] = c /\ calls[c].frame \in Children
            => child[calls[c].frame] = [doc |-> calls[c].doc, pending |-> c]]_vars
  <2>. SUFFICES ASSUME IInv, [Next]_vars, ran' # ran, NEW c \in Calls, ran'[Len(ran')] = c,
                       calls[c].frame \in Children
                PROVE  child[calls[c].frame] = [doc |-> calls[c].doc, pending |-> c]
    OBVIOUS
  <2>1. calls[c].frame # "top"
    BY ChildrenAssumption DEF ChildrenAssumption
  <2>2. RunPress(c) \/ Reload(c)
    BY <2>1, WhoActs DEF ActsInTop
  <2>3. CASE RunPress(c)
    <3>1. calls[c].stage \in Held
      BY <2>3 DEF RunPress, At, Held
    <3>. QED BY <3>1 DEF IInv, Gated
  <2>4. CASE Reload(c)
    <3>1. calls[c].kind = "reload"
      BY <2>4 DEF Reload, At
    <3>2. calls[c].frame = "top"
      BY <3>1 DEF IInv, Typed, CallOK
    <3>. QED BY <2>1, <3>2
  <2>. QED BY <2>2, <2>3, <2>4
<1>. QED BY <1>1, Invariance, PTL DEF Spec, PressMeetsItsDocument

\* An action runs that nobody waits for any more only while word of its
\* withdrawal is on its way; in the top document it does not run at all.
\* (switch-controller.ts:104, 138, 153-160, 617-635, switch-relay.ts:88-92)
THEOREM Withdrawal == Spec => WithdrawalIsUnderWay
<1>1. IInv /\ [Next]_vars =>
        [\A c \in Calls : ran' # ran /\ ran'[Len(ran')] = c => Awaits(c) \/ WordIsUnderWay(c)]_vars
  <2>. SUFFICES ASSUME IInv, [Next]_vars, ran' # ran, NEW c \in Calls, ran'[Len(ran')] = c
                PROVE  Awaits(c) \/ WordIsUnderWay(c)
    OBVIOUS
  <2>1. RunPress(c) \/ Awaits(c) \/ (Reload(c) /\ Released(c))
    BY WhoActs
  <2>2. CASE RunPress(c)
    <3>1. calls[c].stage = "approved" /\ calls[c].local /\ calls[c].stage \in Held
      BY <2>2 DEF RunPress, At, Held
    <3>2. calls[c].frame \in Children
      BY <3>1 DEF IInv, Gated
    <3>. QED BY <3>1, <3>2 DEF IInv, Followed, WordIsUnderWay
  <2>3. CASE Reload(c) /\ Released(c)
    <3>1. calls[c].kind = "reload" /\ calls[c].stage = "confirmed" /\ calls[c].valid
      BY <2>3 DEF Reload, At, Released
    <3>. QED BY <3>1 DEF IInv, Followed, WordIsUnderWay
  <2>. QED BY <2>1, <2>2, <2>3
<1>. QED BY <1>1, Invariance, PTL DEF Spec, WithdrawalIsUnderWay
=============================================================================
