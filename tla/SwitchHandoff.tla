--------------------------- MODULE SwitchHandoff ---------------------------
(***************************************************************************)
(* One switch, two surfaces (core/switch-handoff.ts): the page and the     *)
(* practice panel each have a switch engine, one of them owns the key, and *)
(* ownership moves while presses are held and results are on their way.    *)
(* Every boundary (transfer, cancel, pause, stop, two silent rounds) opens *)
(* a new epoch: it pauses both engines, voids the outstanding action and   *)
(* makes a press that is still held harmless.                              *)
(*                                                                         *)
(* The class's methods are operators on a record of its fields, so that a  *)
(* caller which makes several calls in one step can compose them; below    *)
(* them is the state machine of a caller that makes any call at any time   *)
(* and answers any action it was ever given, as often as it likes.         *)
(* setDraft is left out: it touches the draft only.                        *)
(***************************************************************************)
EXTENDS SwitchEngine

CONSTANTS ItemIds,                   \* the ids of menu items
          PageItems, PracticeItems,  \* the menus, sequences of items
          MaxEpoch,                  \* bound on boundaries
          MaxSelections              \* bound on selections of one surface

Item == [id : ItemIds, enabled : BOOLEAN]
Locks == ItemIds \cup {Nothing, AtResume, AtStop}  \* what a press can lock

ASSUME ItemsAssumption ==
    /\ PageItems \in Seq(Item) /\ PracticeItems \in Seq(Item)
    /\ ItemIds \cap {Nothing, AtResume, AtStop} = {}
ASSUME LimitsAssumption == MaxEpoch \in Nat /\ MaxSelections \in Nat

VARIABLES flow,      \* the SwitchHandoff object
          issued,    \* history: the actions key() has returned
          accepted,  \* history: those complete() has accepted
          press      \* history: when the latest press began, the owner, the epoch,
                     \* the item offered and whether an action was outstanding

vars == <<flow, issued, accepted, press>>

Surfaces == {"page", "practice"}
NoOwner == "stopped"
Results == {"done", "refused", "unknown"}

\* A trusted event of Space; "unsafe" is composing or modified.
KeyEvents == [up : BOOLEAN, unsafe : BOOLEAN, repeat : BOOLEAN]

\* The constructor, given a page that is ready and a practice panel that scans
New == [owner |-> "page", epoch |-> 0, down |-> FALSE, stopOnRelease |-> FALSE, awaiting |-> FALSE,
        states |-> [s \in Surfaces |->
            IF s = "page" THEN [SetItems(CreateSwitchState, PageItems, "groupScan") EXCEPT !.mode = "ready"]
            ELSE Pause(SetItems(CreateSwitchState, PracticeItems, "groupScan"))]]

Init == /\ flow = New
        /\ issued = {}
        /\ accepted = {}
        /\ press = [owner |-> NoOwner, epoch |-> 0, offered |-> Nothing, busy |-> FALSE]

-----------------------------------------------------------------------------
(* Boundaries *)

Invalidate(f) ==
    [f EXCEPT !.epoch = f.epoch + 1, !.stopOnRelease = FALSE,
              !.awaiting = f.awaiting \/ f.down, !.down = FALSE,
              !.states = [s \in Surfaces |-> Pause(f.states[s])]]

Running(f) == f.owner # NoOwner
TransferAllowed(f, owner) == Running(f) /\ owner # f.owner
TransferSilently(f, owner) == [f EXCEPT !.owner = owner]
Transfer(f, owner) == [Invalidate(f) EXCEPT !.owner = owner]
CancelAnyway(f) == [Invalidate(f) EXCEPT !.owner = "page"]
Cancel(f) == IF Running(f) THEN [Invalidate(f) EXCEPT !.owner = "page"] ELSE f
PauseFlow(f) == IF Running(f) THEN Invalidate(f) ELSE f
StopFlow(f) == IF Running(f) THEN [Invalidate(f) EXCEPT !.owner = NoOwner] ELSE f

\* The owner's menu moves on; its pausing is a boundary like any other.
TickFlow(f) ==
    LET g == [f EXCEPT !.states[f.owner] = Tick(@)]
    IN IF ~Running(f) THEN f
       ELSE IF f.states[f.owner].mode # "paused" /\ g.states[f.owner].mode = "paused"
            THEN Invalidate(g) ELSE g

-----------------------------------------------------------------------------
(* key *)

Outstanding(f, s) == f.states[s].pending # NoAction

\* The release of a press that a boundary interrupted is swallowed, whoever asks.
Swallows(f, e) == e.up /\ f.awaiting

Ignores(f, s, e) == \/ s # f.owner
                    \/ ~e.unsafe /\ (f.awaiting \/ e.repeat \/ f.down # e.up)

UnsafeKey(f, e) ==
    LET g == IF f.down THEN PauseFlow(f) ELSE f
    IN IF e.up THEN [g EXCEPT !.awaiting = FALSE, !.down = FALSE] ELSE g

Press(f, s) == [f EXCEPT !.down = TRUE, !.stopOnRelease = Outstanding(f, s),
                         !.states[s] = KeyDown(@)]

\* A press that begins while an action is outstanding can only stop.
StopsAtPendingOnly(f, s) == Outstanding(f, s)
Stops(f, s) == f.stopOnRelease \/ Outstanding(f, s)

Release(f, s) ==
    IF Stops(f, s) THEN StopFlow([f EXCEPT !.down = FALSE, !.stopOnRelease = FALSE])
    ELSE [f EXCEPT !.down = FALSE, !.states[s] = KeyUp(@)]

Selecting(f, s, e) == ~Swallows(f, e) /\ ~Ignores(f, s, e) /\ ~e.unsafe /\ e.up /\ ~Stops(f, s)

Key(f, s, e) ==
    IF Swallows(f, e) THEN [f EXCEPT !.awaiting = FALSE, !.down = FALSE]
    ELSE IF Ignores(f, s, e) THEN f
    ELSE IF e.unsafe THEN UnsafeKey(f, e)
    ELSE IF e.up THEN Release(f, s) ELSE Press(f, s)

Owned(f, s, a) == [surface |-> s, epoch |-> f.epoch, gen |-> a.gen, seq |-> a.seq, item |-> a.item]
SelectionOf(f, s) == {Owned(f, s, a) : a \in KeyUpActions(f.states[s])}
KeyActions(f, s, e) == IF Selecting(f, s, e) THEN SelectionOf(f, s) ELSE {}

-----------------------------------------------------------------------------
(* complete *)

Accepts(f, a) ==
    /\ a.surface = f.owner /\ a.epoch = f.epoch
    /\ f.states[a.surface].pending = [gen |-> a.gen, seq |-> a.seq, item |-> a.item]
    /\ f.states[a.surface].gen = a.gen

Complete(f, a, result) ==
    IF Accepts(f, a) THEN [f EXCEPT !.states[a.surface] = ActionResult(@, a.gen, a.seq, result)] ELSE f

-----------------------------------------------------------------------------
(* A caller that makes any call at any time *)

Settled(f) == [f EXCEPT !.states = [s \in Surfaces |-> [f.states[s] EXCEPT !.settled = TRUE]]]

BeginsPress(f, s, e) == ~e.up /\ ~e.unsafe /\ ~Ignores(f, s, e)

LatestPress(f, s, e, p) ==
    IF BeginsPress(f, s, e)
    THEN [owner |-> s, epoch |-> f.epoch, offered |-> Offered(f.states[s]), busy |-> Outstanding(f, s)]
    ELSE p

CallKey(s, e) ==
    /\ flow' = Key(flow, s, e)
    /\ issued' = issued \cup KeyActions(flow, s, e)
    /\ press' = LatestPress(flow, s, e, press)
    /\ UNCHANGED accepted

Boundary(f) == flow' = f /\ UNCHANGED <<issued, accepted, press>>
CallTransfer(s) == TransferAllowed(flow, s) /\ Boundary(Transfer(flow, s))
CallCancel == Boundary(Cancel(flow))
CallPause == Boundary(PauseFlow(flow))
CallStop == Boundary(StopFlow(flow))
CallTick == Boundary(TickFlow(flow))
TimePasses == Boundary(Settled(flow))

CallComplete(a, result) ==
    /\ flow' = Complete(flow, a, result)
    /\ accepted' = IF Accepts(flow, a) THEN accepted \cup {a} ELSE accepted
    /\ UNCHANGED <<issued, press>>

WithinLimits == /\ flow.epoch < MaxEpoch
                /\ \A s \in Surfaces : flow.states[s].seq < MaxSelections

Next == /\ WithinLimits
        /\ \/ \E s \in Surfaces, e \in KeyEvents : CallKey(s, e)
           \/ \E s \in Surfaces : CallTransfer(s)
           \/ CallCancel \/ CallPause \/ CallStop \/ CallTick \/ TimePasses
           \/ \E a \in issued, result \in Results : CallComplete(a, result)

Spec == Init /\ [][Next]_vars

-----------------------------------------------------------------------------
(* Properties *)

Actions == [gen : Nat, seq : Nat, item : Locks]
OwnedActions == [surface : Surfaces, epoch : Nat, gen : Nat, seq : Nat, item : Locks]
States == [mode : Modes, resume : Modes, items : Seq(Item), scan : Nat, cycle : Nat,
           pressed : Locks, pending : Actions, gen : Nat, seq : Nat, settled : BOOLEAN]

Flows == [owner : Surfaces \cup {NoOwner}, epoch : Nat, down : BOOLEAN,
          stopOnRelease : BOOLEAN, awaiting : BOOLEAN, states : [Surfaces -> States]]
Presses == [owner : Surfaces \cup {NoOwner}, epoch : Nat, offered : Locks, busy : BOOLEAN]

\* The shape of the object; a key is held or its release awaited, never both.
TypeOK == /\ flow \in Flows
          /\ ~(flow.down /\ flow.awaiting)
          /\ issued \subseteq OwnedActions /\ accepted \subseteq issued
          /\ press \in Presses

Idle(s) == s.mode = "paused" /\ s.pressed = Nothing /\ s.pending = NoAction

\* Only the owner runs: the other surface is paused, holds no press and waits
\* for no result, so that no key and no answer can move it (switch-handoff.test:
\* the same event delivered to both roles executes only the owner).
OnlyTheOwnerRuns == \A s \in Surfaces : s # flow.owner => Idle(flow.states[s])

\* An engine that waits for a result waits for an action key() returned in this
\* epoch: the result can still be accepted, the wait is never for nothing.
WaitIsAnswerable ==
    \A s \in Surfaces : flow.states[s].mode = "executing" =>
        \E a \in issued : a.surface = s /\ Accepts(flow, a)

\* An action that was accepted is never accepted again, however often it is
\* answered and whatever happens in between (actionIds never repeat).
AcceptedOnce == \A a \in accepted : ~Accepts(flow, a)

\* An action is the outcome of one whole press: begun and ended under the same
\* owner in the same epoch, and it is of the item that was offered when the
\* press began, whatever was offered or interrupted since (switch-engine.test:
\* the item is locked on keydown; switch-handoff.test: a transfer during a held
\* press consumes its release).
WholePressSelects ==
    [][\A a \in issued' \ issued :
          a.surface = press.owner /\ a.epoch = press.epoch /\ a.item = press.offered]_vars

\* A press begun while an action was outstanding voids that action's epoch when
\* it ends, even if the result came in between (switch-handoff.test: "stop
\* intent survives a reply arriving between Space down and up").
PressWhileWaitingStops ==
    [][flow.down /\ press.busy /\ ~flow'.down => flow'.epoch # flow.epoch]_vars

\* Stop is final: no owner, no action, no accepted answer after it.
StopIsFinal == [][~Running(flow) => ~Running(flow') /\ UNCHANGED <<issued, accepted>>]_vars

=============================================================================
