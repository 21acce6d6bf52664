------------------------ MODULE SwitchHandoffProofs ------------------------
(***************************************************************************)
(* The properties of SwitchHandoff for every menu and every bound.  The    *)
(* inductive invariant is stated over an object f, the actions I it issued *)
(* and accepted (A), and the latest press p, so that each method is one    *)
(* lemma: Consistent(f, ...) implies Consistent of what it returns.        *)
(***************************************************************************)
EXTENDS SwitchHandoff, TLAPS

\* An engine: it waits exactly while an action of its own generation is
\* outstanding, and holds a press only while it does not.
Sound(s) == /\ s \in States
            /\ s.resume # "executing"
            /\ s.mode = "executing" <=> s.pending # NoAction
            /\ s.pressed # Nothing => s.pending = NoAction
            /\ s.pending # NoAction => s.pending.gen = s.gen /\ s.pending.seq \in 1..s.seq

\* A held key is the latest press, and the only one an engine can have locked.
Held(f, p) ==
    /\ f.down => /\ ~f.awaiting /\ Running(f)
                 /\ p.owner = f.owner /\ p.epoch = f.epoch /\ p.busy = f.stopOnRelease
    /\ \A s \in Surfaces : f.states[s].pressed # Nothing =>
          f.down /\ f.states[s].pressed = p.offered

\* What is outstanding was issued in this epoch; numbers only grow, and an
\* accepted action is not outstanding.
Accounted(f, I, A) ==
    /\ \A s \in Surfaces : Outstanding(f, s) => Owned(f, s, f.states[s].pending) \in I
    /\ \A a \in I : a.seq \in 1..f.states[a.surface].seq
    /\ \A a \in A : a.seq # f.states[a.surface].pending.seq

Typed(f, I, A, p) == f \in Flows /\ I \subseteq OwnedActions /\ A \subseteq I /\ p \in Presses

Consistent(f, I, A, p) ==
    /\ Typed(f, I, A, p)
    /\ \A s \in Surfaces : Sound(f.states[s])
    /\ \A s \in Surfaces : s # f.owner => Idle(f.states[s])
    /\ Held(f, p)
    /\ Accounted(f, I, A)

IInv == Consistent(flow, issued, accepted, press)

-----------------------------------------------------------------------------
(* The engine's events *)

\* The action that stands for none
LEMMA NoActionType == NoAction \in Actions /\ NoAction.gen = 0 /\ NoAction.seq = 0
  BY DEF NoAction, Actions, Locks

\* A pause keeps an engine sound.
LEMMA PauseSound ==
  ASSUME NEW s, Sound(s)
  PROVE  Sound(Pause(s)) /\ Idle(Pause(s)) /\ Pause(s).seq = s.seq
  <1> DEFINE r == IF s.mode = "scrolling" THEN "itemScan"
                  ELSE IF s.mode \in {"paused", "executing", "recovering"} THEN s.resume
                  ELSE s.mode
  <1>1. s \in States /\ s.resume # "executing"
    BY DEF Sound
  <1>2. r \in Modes /\ r # "executing"
    BY <1>1 DEF States, Modes
  <1> DEFINE g == s.gen + 1
  <1>3. g \in Nat /\ "paused" \in Modes /\ Nothing \in Locks
    BY <1>1 DEF States, Modes, Locks
  <1>4. Pause(s) = [s EXCEPT !.resume = r, !.mode = "paused", !.pressed = Nothing,
                             !.pending = NoAction, !.gen = g]
    BY DEF Pause
  <1> HIDE DEF r, g
  <1>5. Pause(s) \in States
    BY <1>1, <1>2, <1>3, <1>4, NoActionType DEF States
  <1>6. /\ Pause(s).resume = r /\ Pause(s).mode = "paused" /\ Pause(s).pressed = Nothing
        /\ Pause(s).pending = NoAction /\ Pause(s).seq = s.seq
    BY <1>1, <1>4 DEF States
  <1> QED
    BY <1>2, <1>5, <1>6 DEF Sound, Idle

\* A step of the scan keeps an engine sound.
LEMMA AdvancedSound ==
  ASSUME NEW s, Sound(s), s.items # <<>>
  PROVE  /\ Sound(Advanced(s)) /\ Advanced(s).seq = s.seq
         /\ Advanced(s).pressed = s.pressed /\ Advanced(s).pending = s.pending
  <1> DEFINE n == (s.scan + 1) % Len(s.items)
             c == IF n = 0 THEN s.cycle + 1 ELSE s.cycle
  <1>1. s \in States /\ s.scan \in Nat /\ s.cycle \in Nat /\ s.items \in Seq(Item)
    BY DEF Sound, States
  <1>2. Len(s.items) \in Nat \ {0}
    BY <1>1
  <1>3. n \in Nat /\ c \in Nat
    BY <1>1, <1>2
  <1>4. Advanced(s) = [s EXCEPT !.scan = n, !.cycle = c]
    BY DEF Advanced
  <1> HIDE DEF n, c
  <1>5. /\ Advanced(s) \in States
        /\ Advanced(s).seq = s.seq /\ Advanced(s).pressed = s.pressed
        /\ Advanced(s).pending = s.pending /\ Advanced(s).mode = s.mode
        /\ Advanced(s).resume = s.resume /\ Advanced(s).gen = s.gen
    BY <1>1, <1>3, <1>4 DEF States
  <1> QED
    BY <1>5 DEF Sound

\* A tick leaves an engine that holds a press or waits as it is.
LEMMA TickSound ==
  ASSUME NEW s, Sound(s)
  PROVE  /\ Sound(Tick(s)) /\ Tick(s).seq = s.seq
         /\ Tick(s).pressed = s.pressed /\ Tick(s).pending = s.pending
         /\ s.mode = "paused" => Tick(s) = s
  <1>1. CASE ~(s.pressed = Nothing /\ s.mode \in Scanning /\ s.items # <<>>)
    BY <1>1 DEF Tick
  <1>2. CASE s.pressed = Nothing /\ s.mode \in Scanning /\ s.items # <<>>
    <2>1. s.pending = NoAction /\ s.mode # "paused"
      BY <1>2 DEF Sound, Scanning
    <2>2. Sound(Advanced(s)) /\ Advanced(s).seq = s.seq
          /\ Advanced(s).pressed = s.pressed /\ Advanced(s).pending = s.pending
      BY <1>2, AdvancedSound
    <2>3. Sound(Pause(Advanced(s))) /\ Idle(Pause(Advanced(s))) /\ Pause(Advanced(s)).seq = s.seq
      BY <2>2, PauseSound
    <2> QED
      BY <1>2, <2>1, <2>2, <2>3 DEF Tick, Idle
  <1> QED
    BY <1>1, <1>2

\* What an engine offers is an action.
LEMMA OfferedType ==
  ASSUME NEW s, s \in States
  PROVE  Offered(s) \in Locks
  <1>1. ASSUME s.scan < Len(s.items) PROVE s.items[s.scan + 1] \in Item
    BY <1>1 DEF States
  <1> QED
    BY <1>1 DEF Offered, Item, Locks

\* A key-down keeps an engine sound.
LEMMA KeyDownSound ==
  ASSUME NEW s, Sound(s)
  PROVE  /\ Sound(KeyDown(s)) /\ KeyDown(s).seq = s.seq /\ KeyDown(s).pending = s.pending
         /\ KeyDown(s).pressed \in {s.pressed, Offered(s)}
  <1>1. Offered(s) \in Locks
    BY OfferedType DEF Sound
  <1> QED
    BY <1>1 DEF Sound, States, KeyDown

\* A release either waits for the action it selects or leaves nothing waiting.
LEMMA KeyUpSound ==
  ASSUME NEW s, Sound(s)
  PROVE  /\ Sound(KeyUp(s)) /\ KeyUp(s).pressed = Nothing
         /\ \/ /\ KeyUpActions(s) = {}
               /\ KeyUp(s).seq = s.seq /\ KeyUp(s).pending = s.pending
            \/ /\ KeyUpActions(s) = {Selected(s)}
               /\ s.pressed # Nothing
               /\ KeyUp(s).seq = s.seq + 1 /\ KeyUp(s).pending = Selected(s)
  <1>0. s \in States
    BY DEF Sound
  <1> DEFINE k == KeyUp(s)
  <1>1. CASE s.pressed = Nothing
    BY <1>1 DEF Sound, KeyUp, KeyUpActions
  <1>2. CASE s.pressed = AtResume
    <2> DEFINE m == Resumed(s)
    <2>1. s.pending = NoAction /\ m \in Modes /\ m # "executing"
      BY <1>2 DEF Sound, States, Resumed, Modes, AtResume, Nothing
    <2>2. k = [s EXCEPT !.pressed = Nothing, !.settled = FALSE, !.cycle = 0,
                               !.mode = m, !.scan = 0]
      BY <1>2 DEF KeyUp, AtResume, Nothing
    <2> HIDE DEF m, k
    <2>3. /\ k \in States
          /\ k.pressed = Nothing /\ k.mode = m /\ k.seq = s.seq
          /\ k.pending = s.pending /\ k.resume = s.resume
      BY <1>0, <2>1, <2>2 DEF States, Locks
    <2>4. KeyUpActions(s) = {}
      BY <1>2 DEF KeyUpActions
    <2> QED
      BY <2>1, <2>3, <2>4 DEF Sound, k
  <1>3. CASE s.pressed \notin {Nothing, AtResume} /\ Runs(s)
    <2> DEFINE a == Selected(s)
               n == s.seq + 1
               m == s.mode
    <2>1. a \in Actions /\ a.seq = n /\ a.gen = s.gen /\ n \in Nat /\ n # 0
      BY DEF Selected, Actions, Sound, States
    <2>2. a # NoAction
      BY <2>1, NoActionType
    <2>3. m # "executing" /\ m \in Modes /\ "executing" \in Modes
      BY <1>3 DEF Sound, States, Modes
    <2>4. k = [s EXCEPT !.pressed = Nothing, !.settled = FALSE, !.cycle = 0,
                               !.seq = n, !.pending = a, !.resume = m, !.mode = "executing"]
      BY <1>3 DEF KeyUp
    <2> HIDE DEF a, n, m, k
    <2>5. /\ k \in States
          /\ k.pressed = Nothing /\ k.mode = "executing" /\ k.seq = n
          /\ k.pending = a /\ k.resume = m /\ k.gen = s.gen
      BY <1>0, <2>1, <2>3, <2>4 DEF States, Locks
    <2>6. Sound(k)
      BY <2>1, <2>2, <2>3, <2>5 DEF Sound
    <2>7. KeyUpActions(s) = {a}
      BY <1>3 DEF KeyUpActions, a
    <2> QED
      BY <1>3, <2>5, <2>6, <2>7 DEF a, n, k
  <1>4. CASE s.pressed \notin {Nothing, AtResume} /\ ~Runs(s)
    <2>1. k = [s EXCEPT !.pressed = Nothing, !.settled = FALSE, !.cycle = 0]
      BY <1>4 DEF KeyUp
    <2> HIDE DEF k
    <2>2. /\ k \in States
          /\ k.pressed = Nothing /\ k.mode = s.mode /\ k.seq = s.seq
          /\ k.pending = s.pending /\ k.resume = s.resume
          /\ k.gen = s.gen
      BY <1>0, <2>1 DEF States, Locks
    <2>3. KeyUpActions(s) = {}
      BY <1>4 DEF KeyUpActions
    <2> QED
      BY <2>2, <2>3 DEF Sound, k
  <1> QED
    BY <1>1, <1>2, <1>3, <1>4

\* A result keeps an engine sound.
LEMMA ResultSound ==
  ASSUME NEW s, Sound(s), NEW result \in Results, s.pending # NoAction
  PROVE  LET t == ActionResult(s, s.pending.gen, s.pending.seq, result)
         IN Sound(t) /\ t.pending = NoAction /\ t.seq = s.seq /\ t.pressed = s.pressed
  BY NoActionType DEF ActionResult, Sound, States, Modes

-----------------------------------------------------------------------------
(* What keeps the invariant, without reference to the methods *)

Stopped == Surfaces \cup {NoOwner}

\* A boundary: both engines idle, no key held, any owner.
LEMMA BoundaryConsistent ==
  ASSUME NEW f, NEW I, NEW A, NEW p, Consistent(f, I, A, p),
         NEW g, g \in Flows, ~g.down,
         \A s \in Surfaces : /\ Sound(g.states[s]) /\ Idle(g.states[s])
                             /\ g.states[s].seq = f.states[s].seq
  PROVE  Consistent(g, I, A, p)
  <1>1. Typed(g, I, A, p)
    BY DEF Consistent, Typed
  <1>2. Held(g, p)
    BY DEF Held, Idle
  <1>3. \A a \in I : a \in OwnedActions /\ a.surface \in Surfaces
    BY DEF Consistent, Typed, OwnedActions
  <1>4. A \subseteq I
    BY DEF Consistent, Typed
  <1>5. Accounted(g, I, A)
    <2>1. \A s \in Surfaces : ~Outstanding(g, s)
      BY DEF Outstanding, Idle
    <2>2. \A a \in I : a.seq \in 1..g.states[a.surface].seq
      BY <1>3 DEF Consistent, Accounted
    <2>3. \A a \in A : g.states[a.surface].pending = NoAction
      BY <1>3, <1>4 DEF Idle
    <2>4. \A a \in A : a.seq # 0
      BY <2>2, <1>3, <1>4 DEF OwnedActions
    <2>5. \A a \in A : a.seq # g.states[a.surface].pending.seq
      BY <2>3, <2>4, NoActionType
    <2> QED
      BY <2>1, <2>2, <2>5 DEF Accounted
  <1> QED
    BY <1>1, <1>2, <1>5 DEF Consistent

\* A release that nothing held: only "awaiting" changes.
LEMMA UnheldConsistent ==
  ASSUME NEW f, NEW I, NEW A, NEW p, Consistent(f, I, A, p), ~f.down,
         NEW g, g \in Flows, ~g.down,
         g.owner = f.owner, g.epoch = f.epoch, g.states = f.states
  PROVE  Consistent(g, I, A, p)
  <1>1. Typed(g, I, A, p)
    BY DEF Consistent, Typed
  <1>2. Held(g, p)
    BY DEF Held, Consistent
  <1>3. Accounted(g, I, A)
    BY DEF Accounted, Consistent, Outstanding, Owned
  <1> QED
    BY <1>1, <1>2, <1>3 DEF Consistent

\* Engines move without selecting: what they wait for, if anything, is what
\* they waited for.
LEMMA MoveConsistent ==
  ASSUME NEW f, NEW I, NEW A, NEW p, NEW q, Consistent(f, I, A, p),
         NEW g, g \in Flows, q \in Presses, Held(g, q),
         g.owner = f.owner, g.epoch = f.epoch,
         \A r \in Surfaces : /\ Sound(g.states[r]) /\ g.states[r].seq = f.states[r].seq
                             /\ g.states[r].pending \in {f.states[r].pending, NoAction}
                             /\ r # f.owner => Idle(g.states[r])
  PROVE  Consistent(g, I, A, q)
  <1>1. Typed(g, I, A, q)
    BY DEF Consistent, Typed
  <1>2. \A a \in I : a.surface \in Surfaces /\ a.seq \in Nat
    BY DEF Consistent, Typed, OwnedActions
  <1>3. A \subseteq I
    BY DEF Consistent, Typed
  <1>4. Accounted(g, I, A)
    <2>1. \A r \in Surfaces : Outstanding(g, r) => Owned(g, r, g.states[r].pending) \in I
      BY DEF Consistent, Accounted, Outstanding, Owned
    <2>2. \A a \in I : a.seq \in 1..g.states[a.surface].seq
      BY <1>2 DEF Consistent, Accounted
    <2>3. \A a \in A : a.seq # 0 /\ a.seq # f.states[a.surface].pending.seq
      BY <1>2, <1>3 DEF Consistent, Accounted
    <2>4. \A a \in A : a.seq # g.states[a.surface].pending.seq
      BY <1>2, <1>3, <2>3, NoActionType
    <2> QED
      BY <2>1, <2>2, <2>4 DEF Accounted
  <1> QED
    BY <1>1, <1>4 DEF Consistent

\* The same, when nothing but the engines changes and no press does.
LEMMA QuietConsistent ==
  ASSUME NEW f, NEW I, NEW A, NEW p, Consistent(f, I, A, p),
         NEW t, t \in [Surfaces -> States], NEW g, g = [f EXCEPT !.states = t],
         \A r \in Surfaces : /\ Sound(t[r]) /\ t[r].seq = f.states[r].seq
                             /\ t[r].pending \in {f.states[r].pending, NoAction}
                             /\ t[r].pressed = f.states[r].pressed
                             /\ r # f.owner => Idle(t[r])
  PROVE  Consistent(g, I, A, p)
  <1>1. f \in Flows /\ p \in Presses
    BY DEF Consistent, Typed
  <1>2. /\ g \in Flows /\ g.states = t /\ g.owner = f.owner /\ g.epoch = f.epoch
        /\ g.down = f.down /\ g.awaiting = f.awaiting /\ g.stopOnRelease = f.stopOnRelease
    BY <1>1 DEF Flows
  <1>3. Held(g, p)
    BY <1>2 DEF Consistent, Held, Running
  <1>4. \A r \in Surfaces : /\ Sound(g.states[r]) /\ g.states[r].seq = f.states[r].seq
                            /\ g.states[r].pending \in {f.states[r].pending, NoAction}
                            /\ r # f.owner => Idle(g.states[r])
    BY <1>2
  <1> QED
    BY <1>1, <1>2, <1>3, <1>4, MoveConsistent

-----------------------------------------------------------------------------
(* The methods *)

\* Invalidating makes both engines idle and takes a new epoch.
LEMMA InvalidateFields ==
  ASSUME NEW f, f \in Flows, \A s \in Surfaces : Sound(f.states[s]),
         NEW g, g = Invalidate(f)
  PROVE  /\ g \in Flows /\ ~g.down
         /\ g.owner = f.owner /\ g.epoch = f.epoch + 1
         /\ \A s \in Surfaces : /\ Sound(g.states[s]) /\ Idle(g.states[s])
                                /\ g.states[s].seq = f.states[s].seq
  <1> DEFINE e == f.epoch + 1
             w == f.awaiting \/ f.down
             t == [s \in Surfaces |-> Pause(f.states[s])]
  <1>1. e \in Nat
    BY DEF Flows
  <1>2. w \in BOOLEAN
    OBVIOUS
  <1>3. \A s \in Surfaces : /\ Sound(t[s]) /\ Idle(t[s])
                            /\ t[s].seq = f.states[s].seq
    BY PauseSound
  <1>4. t \in [Surfaces -> States]
    BY <1>3 DEF Sound
  <1>5. g = [f EXCEPT !.epoch = e, !.stopOnRelease = FALSE, !.awaiting = w, !.down = FALSE,
                      !.states = t]
    BY DEF Invalidate
  <1> HIDE DEF e, w, t
  <1>6. /\ g \in Flows /\ g.owner = f.owner /\ g.epoch = e /\ g.states = t
    BY <1>1, <1>2, <1>4, <1>5 DEF Flows
  <1>7. ~g.down
    BY <1>5 DEF Flows
  <1> QED
    BY <1>3, <1>6, <1>7 DEF e

\* Invalidating both engines keeps the invariant.
LEMMA InvalidateConsistent ==
  ASSUME NEW f, NEW I, NEW A, NEW p, Consistent(f, I, A, p)
  PROVE  /\ Consistent(Invalidate(f), I, A, p)
         /\ ~Invalidate(f).down /\ Invalidate(f).epoch = f.epoch + 1
         /\ Invalidate(f).owner = f.owner
  <1> DEFINE g == Invalidate(f)
  <1>1. /\ g \in Flows /\ ~g.down
        /\ g.owner = f.owner /\ g.epoch = f.epoch + 1
        /\ \A s \in Surfaces : /\ Sound(g.states[s]) /\ Idle(g.states[s])
                               /\ g.states[s].seq = f.states[s].seq
    BY InvalidateFields DEF Consistent, Typed
  <1> HIDE DEF g
  <1>2. Consistent(g, I, A, p)
    BY <1>1, BoundaryConsistent
  <1> QED
    BY <1>1, <1>2 DEF g

\* A boundary that leaves the key to o
MovedTo(f, o) == [Invalidate(f) EXCEPT !.owner = o]

\* A transfer or a return keeps the invariant.
LEMMA OwnerChangeConsistent ==
  ASSUME NEW f, NEW I, NEW A, NEW p, Consistent(f, I, A, p),
         NEW o \in Surfaces \cup {NoOwner}, NEW h, h = MovedTo(f, o)
  PROVE  /\ Consistent(h, I, A, p)
         /\ h.owner = o /\ h.epoch = f.epoch + 1 /\ ~h.down
  <1> DEFINE g == Invalidate(f)
  <1>1. /\ g \in Flows /\ ~g.down
        /\ g.owner = f.owner /\ g.epoch = f.epoch + 1
        /\ \A s \in Surfaces : /\ Sound(g.states[s]) /\ Idle(g.states[s])
                               /\ g.states[s].seq = f.states[s].seq
    BY InvalidateFields DEF Consistent, Typed
  <1>2. h = [g EXCEPT !.owner = o]
    BY DEF MovedTo
  <1> HIDE DEF g
  <1>3. /\ h \in Flows /\ h.owner = o /\ h.epoch = g.epoch
        /\ h.states = g.states /\ h.down = g.down
    BY <1>1, <1>2 DEF Flows
  <1>4. Consistent(h, I, A, p)
    BY <1>1, <1>3, BoundaryConsistent
  <1> QED
    BY <1>1, <1>3, <1>4

\* A stop keeps the invariant.
LEMMA StopConsistent ==
  ASSUME NEW f, NEW I, NEW A, NEW p, Consistent(f, I, A, p), Running(f),
         NEW h, h = StopFlow(f)
  PROVE  /\ Consistent(h, I, A, p)
         /\ h.owner = NoOwner /\ h.epoch = f.epoch + 1 /\ ~h.down
  <1>1. h = MovedTo(f, NoOwner)
    BY DEF StopFlow, MovedTo
  <1> QED
    BY <1>1, OwnerChangeConsistent

\* A tick of the owner's engine keeps the invariant.
LEMMA TickConsistent ==
  ASSUME NEW f, NEW I, NEW A, NEW p, Consistent(f, I, A, p)
  PROVE  Consistent(TickFlow(f), I, A, p)
  <1> SUFFICES ASSUME Running(f) PROVE Consistent(TickFlow(f), I, A, p)
    BY DEF TickFlow
  <1>1. f \in Flows /\ f.owner \in Surfaces
    BY DEF Consistent, Typed, Flows, Running
  <1> DEFINE k == Tick(f.states[f.owner])
             t == [f.states EXCEPT ![f.owner] = k]
             g == [f EXCEPT !.states[f.owner] = Tick(@)]
  <1>2. /\ Sound(k) /\ k.seq = f.states[f.owner].seq
        /\ k.pressed = f.states[f.owner].pressed /\ k.pending = f.states[f.owner].pending
    BY <1>1, TickSound DEF Consistent
  <1>3. f.states \in [Surfaces -> States]
    BY <1>1 DEF Flows
  <1>4. g = [f EXCEPT !.states = t]
    BY <1>1 DEF Flows
  <1> HIDE DEF k, g
  <1>5. t \in [Surfaces -> States] /\ \A r \in Surfaces : t[r] = IF r = f.owner THEN k ELSE f.states[r]
    BY <1>2, <1>3 DEF Sound
  <1> HIDE DEF t
  <1>6. \A r \in Surfaces : /\ Sound(t[r]) /\ t[r].seq = f.states[r].seq
                            /\ t[r].pending \in {f.states[r].pending, NoAction}
                            /\ t[r].pressed = f.states[r].pressed
                            /\ r # f.owner => Idle(t[r])
    BY <1>2, <1>5 DEF Consistent
  <1>7. Consistent(g, I, A, p)
    BY <1>4, <1>5, <1>6, QuietConsistent
  <1>8. Consistent(Invalidate(g), I, A, p)
    BY <1>7, InvalidateConsistent
  <1> QED
    BY <1>7, <1>8 DEF TickFlow, g

\* A tick opens a new epoch or leaves the key as it is.
LEMMA TickEpoch ==
  ASSUME NEW f, NEW I, NEW A, NEW p, Consistent(f, I, A, p)
  PROVE  TickFlow(f).epoch = f.epoch + 1 \/ (f.down => TickFlow(f).down)
  <1>1. f \in Flows
    BY DEF Consistent, Typed
  <1> DEFINE k == Tick(f.states[f.owner])
             t == [f.states EXCEPT ![f.owner] = k]
             g == [f EXCEPT !.states[f.owner] = Tick(@)]
  <1>2. g = [f EXCEPT !.states = t]
    BY <1>1 DEF Flows
  <1>3. TickFlow(f) = f \/ TickFlow(f) = g \/ TickFlow(f) = Invalidate(g)
    BY DEF TickFlow
  <1> HIDE DEF t, g
  <1>4. g.epoch = f.epoch /\ g.down = f.down
    BY <1>1, <1>2 DEF Flows
  <1>5. Invalidate(g).epoch = f.epoch + 1
    <2> DEFINE e == g.epoch + 1
    <2>1. Invalidate(g).epoch = e
      BY <1>1, <1>2 DEF Invalidate, Flows
    <2> QED
      BY <1>4, <2>1
  <1> QED
    BY <1>3, <1>4, <1>5

\* The end of the protection time keeps the invariant.
LEMMA SettledConsistent ==
  ASSUME NEW f, NEW I, NEW A, NEW p, Consistent(f, I, A, p)
  PROVE  Consistent(Settled(f), I, A, p)
  <1> DEFINE t == [s \in Surfaces |-> [f.states[s] EXCEPT !.settled = TRUE]]
  <1>1. ASSUME NEW s \in Surfaces
        PROVE  /\ t[s] \in States /\ Sound(t[s]) /\ t[s].seq = f.states[s].seq
               /\ t[s].pending = f.states[s].pending /\ t[s].pressed = f.states[s].pressed
               /\ s # f.owner => Idle(t[s])
    <2> DEFINE u == f.states[s]
               v == t[s]
    <2>1. Sound(u) /\ u \in States /\ (s # f.owner => Idle(u))
      BY DEF Consistent, Sound
    <2>2. v = [u EXCEPT !.settled = TRUE]
      OBVIOUS
    <2> HIDE DEF u, v
    <2>3. /\ v \in States /\ v.mode = u.mode /\ v.resume = u.resume /\ v.pressed = u.pressed
          /\ v.pending = u.pending /\ v.gen = u.gen /\ v.seq = u.seq
      BY <2>1, <2>2 DEF States
    <2>4. Sound(v) /\ (s # f.owner => Idle(v))
      BY <2>1, <2>3 DEF Sound, Idle
    <2> QED
      BY <2>3, <2>4 DEF u, v
  <1>2. t \in [Surfaces -> States]
    BY <1>1
  <1>3. Settled(f) = [f EXCEPT !.states = t]
    BY DEF Settled
  <1> HIDE DEF t
  <1> QED
    BY <1>1, <1>2, <1>3, QuietConsistent

-----------------------------------------------------------------------------
(* key *)

\* A press nobody held before becomes the latest; the engine may lock what it offers.
LEMMA PressConsistent ==
  ASSUME NEW f, NEW I, NEW A, NEW p, Consistent(f, I, A, p),
         NEW s \in Surfaces, s = f.owner, ~f.down, ~f.awaiting,
         NEW g, g = Press(f, s),
         NEW q, q = [owner |-> s, epoch |-> f.epoch, offered |-> Offered(f.states[s]),
                     busy |-> Outstanding(f, s)]
  PROVE  Consistent(g, I, A, q)
  <1> DEFINE u == f.states[s]
             k == KeyDown(u)
             t == [f.states EXCEPT ![s] = k]
             w == Outstanding(f, s)
             x == Offered(u)
  <1>1. f \in Flows /\ Sound(u) /\ u \in States /\ f.states \in [Surfaces -> States]
    BY DEF Consistent, Typed, Flows, Sound
  <1>2. /\ Sound(k) /\ k \in States /\ k.seq = u.seq /\ k.pending = u.pending
        /\ k.pressed \in {u.pressed, x} /\ x \in Locks
    BY <1>1, KeyDownSound, OfferedType DEF Sound
  <1>3. w \in BOOLEAN
    BY DEF Outstanding
  <1>4. g = [f EXCEPT !.down = TRUE, !.stopOnRelease = w, !.states = t]
    BY <1>1 DEF Press, Flows
  <1>5. \A r \in Surfaces : f.states[r].pressed = Nothing
    BY DEF Consistent, Held
  <1>6. \A r \in Surfaces : Sound(f.states[r]) /\ (r # s => Idle(f.states[r]))
    BY DEF Consistent
  <1>7. q = [owner |-> s, epoch |-> f.epoch, offered |-> x, busy |-> w]
    OBVIOUS
  <1>8. u = f.states[s]
    OBVIOUS
  <1> HIDE DEF k, w, x, u
  <1>9. t \in [Surfaces -> States] /\ t[s] = k /\ \A r \in Surfaces \ {s} : t[r] = f.states[r]
    BY <1>1, <1>2
  <1> HIDE DEF t
  <1>10. /\ g \in Flows /\ g.states = t /\ g.owner = f.owner /\ g.epoch = f.epoch
         /\ g.stopOnRelease = w /\ g.awaiting = f.awaiting
    BY <1>1, <1>3, <1>4, <1>9 DEF Flows
  <1>11. g.down
    BY <1>1, <1>4 DEF Flows
  <1>12. /\ q \in Presses
         /\ q.owner = s /\ q.epoch = f.epoch /\ q.offered = x /\ q.busy = w
    BY <1>1, <1>2, <1>3, <1>7 DEF Presses, Flows
  <1>13. k.pressed # Nothing => k.pressed = x
    BY <1>2, <1>5, <1>8
  <1>14. Held(g, q)
    <2>1. Running(g)
      BY <1>10 DEF Running, Surfaces, NoOwner
    <2>2. \A r \in Surfaces : g.states[r].pressed # Nothing => r = s
      BY <1>5, <1>9, <1>10
    <2>3. \A r \in Surfaces : g.states[r].pressed # Nothing => g.states[r].pressed = q.offered
      BY <2>2, <1>9, <1>10, <1>12, <1>13
    <2> QED
      BY <2>1, <2>3, <1>10, <1>11, <1>12 DEF Held
  <1>15. \A r \in Surfaces :
            /\ Sound(g.states[r]) /\ g.states[r].seq = f.states[r].seq
            /\ g.states[r].pending \in {f.states[r].pending, NoAction}
            /\ r # f.owner => Idle(g.states[r])
    BY <1>2, <1>6, <1>8, <1>9, <1>10
  <1> QED
    BY <1>10, <1>12, <1>14, <1>15, MoveConsistent

\* A release that stops nothing: the selection, if there is one, is of what the
\* latest press locked.
LEMMA SelectConsistent ==
  ASSUME NEW f, NEW I, NEW A, NEW p, Consistent(f, I, A, p),
         NEW s \in Surfaces, s = f.owner, f.down, ~Stops(f, s),
         NEW g, g = Release(f, s),
         NEW N, N = SelectionOf(f, s)
  PROVE  /\ Consistent(g, I \cup N, A, p)
         /\ \A a \in N : a.surface = p.owner /\ a.epoch = p.epoch /\ a.item = p.offered
  <1> DEFINE u == f.states[s]
             k == KeyUp(u)
             t == [f.states EXCEPT ![s] = k]
  <1>1. f \in Flows /\ Sound(u) /\ u \in States /\ f.states \in [Surfaces -> States]
    BY DEF Consistent, Typed, Flows, Sound
  <1>2. /\ Sound(k) /\ k \in States /\ k.pressed = Nothing
        /\ \/ KeyUpActions(u) = {} /\ k.seq = u.seq /\ k.pending = u.pending
           \/ /\ KeyUpActions(u) = {Selected(u)} /\ u.pressed # Nothing
              /\ k.seq = u.seq + 1 /\ k.pending = Selected(u)
    BY <1>1, KeyUpSound DEF Sound
  <1>3. u.pending = NoAction
    BY DEF Stops, Outstanding
  <1>4. g = [f EXCEPT !.down = FALSE, !.states = t]
    BY <1>1 DEF Release, Flows
  <1>5. u = f.states[s]
    OBVIOUS
  <1> HIDE DEF k, u
  <1>6. t \in [Surfaces -> States] /\ t[s] = k /\ \A r \in Surfaces \ {s} : t[r] = f.states[r]
    BY <1>1, <1>2
  <1> HIDE DEF t
  <1>7. /\ g \in Flows /\ g.states = t /\ g.owner = f.owner /\ g.epoch = f.epoch
        /\ g.stopOnRelease = f.stopOnRelease /\ g.awaiting = f.awaiting
    BY <1>1, <1>4, <1>6 DEF Flows
  <1>8. ~g.down
    BY <1>1, <1>4 DEF Flows
  <1>9. \A r \in Surfaces : /\ Sound(g.states[r])
                            /\ r # s => g.states[r] = f.states[r] /\ Idle(g.states[r])
    BY <1>2, <1>6, <1>7 DEF Consistent
  <1>10. Held(g, p)
    BY <1>2, <1>6, <1>7, <1>8, <1>9 DEF Held, Idle
  <1>11. p \in Presses /\ A \subseteq I /\ I \subseteq OwnedActions
    BY DEF Consistent, Typed
  <1>12. CASE KeyUpActions(u) = {} /\ k.seq = u.seq /\ k.pending = u.pending
    <2>1. N = {} /\ I \cup N = I
      BY <1>12, <1>5 DEF SelectionOf
    <2>2. \A r \in Surfaces : /\ Sound(g.states[r]) /\ g.states[r].seq = f.states[r].seq
                              /\ g.states[r].pending \in {f.states[r].pending, NoAction}
                              /\ r # f.owner => Idle(g.states[r])
      BY <1>5, <1>6, <1>7, <1>9, <1>12
    <2>3. Consistent(g, I, A, p)
      BY <2>2, <1>7, <1>10, <1>11, MoveConsistent
    <2> QED
      BY <2>1, <2>3
  <1>13. CASE KeyUpActions(u) = {Selected(u)} /\ u.pressed # Nothing
              /\ k.seq = u.seq + 1 /\ k.pending = Selected(u)
    <2> DEFINE b == Owned(f, s, Selected(u))
    <2>1. N = {b}
      BY <1>13, <1>5 DEF SelectionOf
    <2>2. /\ b.surface = s /\ b.epoch = f.epoch /\ b.item = u.pressed
          /\ b.seq = u.seq + 1 /\ b.gen = u.gen
      BY DEF Owned, Selected
    <2>3. u.seq \in Nat /\ u.gen \in Nat /\ u.pressed \in Locks /\ f.epoch \in Nat
      BY <1>1 DEF States, Flows
    <2>4. b \in OwnedActions
      BY <2>3 DEF OwnedActions, Owned, Selected
    <2>5. b.surface = p.owner /\ b.epoch = p.epoch /\ b.item = p.offered
      BY <2>2, <1>13, <1>5 DEF Consistent, Held
    <2>6. Owned(g, s, g.states[s].pending) = b
      BY <1>6, <1>7, <1>13 DEF Owned
    <2>7. Selected(u).seq = u.seq + 1
      BY DEF Selected
    <2> HIDE DEF b
    <2>8. Typed(g, I \cup N, A, p)
      BY <2>1, <2>4, <1>7, <1>11 DEF Typed
    <2>9. \A r \in Surfaces : Outstanding(g, r) => Owned(g, r, g.states[r].pending) \in I \cup N
      BY <2>1, <2>6, <1>9 DEF Outstanding, Idle
    <2>10. \A a \in I : /\ a.surface \in Surfaces /\ a.seq \in Nat
                        /\ a.seq \in 1..f.states[a.surface].seq
      BY <1>11 DEF OwnedActions, Consistent, Accounted
    <2>11. \A a \in I : a.seq \in 1..g.states[a.surface].seq
      BY <2>10, <2>3, <1>5, <1>6, <1>7, <1>9, <1>13
    <2>12. b.seq \in 1..g.states[b.surface].seq
      BY <2>2, <2>3, <1>6, <1>7, <1>13
    <2>13. \A a \in A : a.seq # g.states[a.surface].pending.seq
      <3>1. ASSUME NEW a \in A, a.surface = s PROVE a.seq # g.states[a.surface].pending.seq
        BY <3>1, <2>3, <2>7, <2>10, <1>5, <1>6, <1>7, <1>11, <1>13
      <3>2. ASSUME NEW a \in A, a.surface # s PROVE a.seq # g.states[a.surface].pending.seq
        BY <3>2, <2>10, <1>9, <1>11, NoActionType DEF Idle
      <3> QED
        BY <3>1, <3>2
    <2>14. Accounted(g, I \cup N, A)
      BY <2>1, <2>9, <2>11, <2>12, <2>13 DEF Accounted
    <2>15. Consistent(g, I \cup N, A, p)
      BY <2>8, <2>14, <1>7, <1>9, <1>10 DEF Consistent
    <2> QED
      BY <2>1, <2>5, <2>15
  <1> QED
    BY <1>2, <1>12, <1>13

\* A release with the intent to stop is a stop.
LEMMA ReleaseStops ==
  ASSUME NEW f, NEW I, NEW A, NEW p, Consistent(f, I, A, p),
         NEW s \in Surfaces, s = f.owner, f.down, Stops(f, s),
         NEW g, g = Release(f, s)
  PROVE  Consistent(g, I, A, p) /\ g.epoch = f.epoch + 1 /\ g.owner = NoOwner
  <1> DEFINE h == [f EXCEPT !.down = FALSE, !.stopOnRelease = FALSE]
  <1>1. f \in Flows /\ \A r \in Surfaces : Sound(f.states[r])
    BY DEF Consistent, Typed
  <1>2. /\ h \in Flows /\ h.owner = f.owner /\ h.epoch = f.epoch /\ h.states = f.states
    BY <1>1 DEF Flows
  <1>3. g = StopFlow(h)
    BY DEF Release
  <1> HIDE DEF h
  <1>4. Running(h)
    BY <1>2 DEF Running, Surfaces, NoOwner
  <1> DEFINE i == Invalidate(h)
  <1>5. /\ i \in Flows /\ ~i.down /\ i.epoch = h.epoch + 1
        /\ \A r \in Surfaces : /\ Sound(i.states[r]) /\ Idle(i.states[r])
                               /\ i.states[r].seq = h.states[r].seq
    BY <1>1, <1>2, InvalidateFields
  <1>6. g = [i EXCEPT !.owner = NoOwner]
    BY <1>3, <1>4 DEF StopFlow
  <1> HIDE DEF i
  <1>7. /\ g \in Flows /\ g.owner = NoOwner /\ g.epoch = i.epoch
        /\ g.states = i.states /\ g.down = i.down
    BY <1>5, <1>6 DEF Flows
  <1>8. Consistent(g, I, A, p)
    BY <1>2, <1>5, <1>7, BoundaryConsistent
  <1> QED
    BY <1>2, <1>5, <1>7, <1>8

\* An unsafe key event invalidates, and keeps the invariant.
LEMMA UnsafeConsistent ==
  ASSUME NEW f, NEW I, NEW A, NEW p, Consistent(f, I, A, p),
         NEW e \in KeyEvents, f.owner \in Surfaces,
         NEW g, g = UnsafeKey(f, e)
  PROVE  /\ Consistent(g, I, A, p) /\ ~g.down
         /\ f.down => g.epoch = f.epoch + 1
  <1> DEFINE h == IF f.down THEN PauseFlow(f) ELSE f
  <1>1. Consistent(h, I, A, p) /\ ~h.down /\ (f.down => h.epoch = f.epoch + 1)
    BY InvalidateConsistent DEF PauseFlow, Running, Surfaces, NoOwner
  <1>2. g = IF e.up THEN [h EXCEPT !.awaiting = FALSE, !.down = FALSE] ELSE h
    BY DEF UnsafeKey
  <1> HIDE DEF h
  <1>3. CASE e.up
    <2>1. g = [h EXCEPT !.awaiting = FALSE, !.down = FALSE]
      BY <1>2, <1>3
    <2>2. h \in Flows
      BY <1>1 DEF Consistent, Typed
    <2>3. /\ g \in Flows /\ g.owner = h.owner /\ g.epoch = h.epoch /\ g.states = h.states
      BY <2>1, <2>2 DEF Flows
    <2>4. ~g.down
      BY <2>1, <2>2 DEF Flows
    <2>5. Consistent(g, I, A, p)
      BY <1>1, <2>3, <2>4, UnheldConsistent
    <2> QED
      BY <1>1, <2>3, <2>4, <2>5
  <1>4. CASE ~e.up
    BY <1>1, <1>2, <1>4
  <1> QED
    BY <1>3, <1>4

\* A call of key: whatever it does, what it newly issues is of the latest press,
\* and a press begun while an action was outstanding ends with its epoch.
LEMMA KeyConsistent ==
  ASSUME NEW f, NEW I, NEW A, NEW p, Consistent(f, I, A, p),
         NEW s \in Surfaces, NEW e \in KeyEvents,
         NEW g, g = Key(f, s, e), NEW N, N = KeyActions(f, s, e),
         NEW q, q = LatestPress(f, s, e, p)
  PROVE  /\ Consistent(g, I \cup N, A, q)
         /\ \A a \in N : a.surface = p.owner /\ a.epoch = p.epoch /\ a.item = p.offered
         /\ f.down /\ p.busy /\ ~g.down => g.epoch # f.epoch
         /\ ~Running(f) => ~Running(g) /\ N = {}
  <1>0. /\ f \in Flows /\ f.epoch \in Nat /\ f.down \in BOOLEAN /\ f.awaiting \in BOOLEAN
        /\ e.up \in BOOLEAN /\ e.unsafe \in BOOLEAN
    BY DEF Consistent, Typed, Flows, KeyEvents
  <1>1. f.epoch + 1 # f.epoch
    BY <1>0
  <1>2. CASE Swallows(f, e)
    <2>1. f.awaiting /\ e.up
      BY <1>2 DEF Swallows
    <2>2. ~f.down
      BY <2>1 DEF Consistent, Held
    <2>3. g = [f EXCEPT !.awaiting = FALSE, !.down = FALSE]
      BY <1>2 DEF Key
    <2>4. /\ g \in Flows /\ g.owner = f.owner /\ g.epoch = f.epoch /\ g.states = f.states
      BY <1>0, <2>3 DEF Flows
    <2>5. ~g.down
      BY <1>0, <2>3 DEF Flows
    <2>6. Consistent(g, I, A, p)
      BY <2>2, <2>4, <2>5, UnheldConsistent
    <2>7. N = {} /\ q = p
      BY <1>2, <2>1 DEF KeyActions, Selecting, LatestPress, BeginsPress
    <2>8. I \cup N = I
      BY <2>7
    <2> QED
      BY <2>2, <2>4, <2>6, <2>7, <2>8 DEF Running
  <1>3. CASE ~Swallows(f, e) /\ Ignores(f, s, e)
    <2>1. g = f /\ N = {} /\ q = p
      BY <1>3 DEF Key, KeyActions, Selecting, LatestPress, BeginsPress
    <2>2. I \cup N = I
      BY <2>1
    <2> QED
      BY <2>1, <2>2
  <1>4. CASE ~Swallows(f, e) /\ ~Ignores(f, s, e) /\ e.unsafe
    <2>1. s = f.owner /\ g = UnsafeKey(f, e)
      BY <1>4 DEF Key, Ignores
    <2>2. N = {} /\ q = p
      BY <1>4 DEF KeyActions, Selecting, LatestPress, BeginsPress
    <2>3. Consistent(g, I, A, p) /\ (f.down => g.epoch = f.epoch + 1)
      BY <2>1, UnsafeConsistent
    <2>4. Running(f) /\ I \cup N = I
      BY <2>1, <2>2 DEF Running, Surfaces, NoOwner
    <2> QED
      BY <2>2, <2>3, <2>4, <1>1
  <1>5. CASE ~Swallows(f, e) /\ ~Ignores(f, s, e) /\ ~e.unsafe /\ e.up
    <2>1. s = f.owner /\ f.down /\ g = Release(f, s) /\ q = p
      BY <1>5, <1>0 DEF Key, Ignores, LatestPress, BeginsPress
    <2>2. Running(f)
      BY <2>1 DEF Running, Surfaces, NoOwner
    <2>3. CASE Stops(f, s)
      <3>1. N = {} /\ I \cup N = I
        BY <2>3 DEF KeyActions, Selecting
      <3>2. Consistent(g, I, A, p) /\ g.epoch = f.epoch + 1
        BY <2>1, <2>3, ReleaseStops
      <3> QED
        BY <2>1, <2>2, <3>1, <3>2, <1>1
    <2>4. CASE ~Stops(f, s)
      <3>1. N = SelectionOf(f, s)
        BY <1>5, <2>4 DEF KeyActions, Selecting
      <3>2. /\ Consistent(g, I \cup N, A, p)
            /\ \A a \in N : a.surface = p.owner /\ a.epoch = p.epoch /\ a.item = p.offered
        BY <2>1, <2>4, <3>1, SelectConsistent
      <3>3. ~p.busy
        <4>1. ~f.stopOnRelease
          BY <2>4 DEF Stops
        <4>2. p.busy = f.stopOnRelease
          BY <2>1 DEF Consistent, Held
        <4> QED
          BY <4>1, <4>2
      <3> QED
        BY <2>1, <2>2, <3>2, <3>3
    <2> QED
      BY <2>3, <2>4
  <1>6. CASE ~Swallows(f, e) /\ ~Ignores(f, s, e) /\ ~e.unsafe /\ ~e.up
    <2>1. s = f.owner /\ ~f.down /\ ~f.awaiting /\ g = Press(f, s)
      BY <1>6, <1>0 DEF Key, Ignores
    <2>2. N = {} /\ I \cup N = I
      BY <1>6 DEF KeyActions, Selecting
    <2>3. q = [owner |-> s, epoch |-> f.epoch, offered |-> Offered(f.states[s]),
               busy |-> Outstanding(f, s)]
      BY <1>6 DEF LatestPress, BeginsPress
    <2>4. Consistent(g, I, A, q)
      BY <2>1, <2>3, PressConsistent
    <2>5. Running(f)
      BY <2>1 DEF Running, Surfaces, NoOwner
    <2> QED
      BY <2>1, <2>2, <2>4, <2>5
  <1> QED
    BY <1>0, <1>2, <1>3, <1>4, <1>5, <1>6

-----------------------------------------------------------------------------
(* complete *)

\* A result, accepted or not, keeps the invariant.
LEMMA CompleteConsistent ==
  ASSUME NEW f, NEW I, NEW A, NEW p, Consistent(f, I, A, p),
         NEW a \in I, Accepts(f, a), NEW result \in Results,
         NEW g, g = Complete(f, a, result)
  PROVE  /\ Consistent(g, I, A \cup {a}, p)
         /\ g.down = f.down /\ g.owner = f.owner /\ g.epoch = f.epoch
  <1> DEFINE s == a.surface
             u == f.states[s]
             k == ActionResult(u, a.gen, a.seq, result)
             t == [f.states EXCEPT ![s] = k]
  <1>1. /\ a.surface \in Surfaces /\ a.seq \in Nat /\ a.seq # 0
        /\ f \in Flows /\ f.states \in [Surfaces -> States] /\ Sound(u)
    BY DEF Consistent, Typed, OwnedActions, Flows, Accounted
  <1>2. s = f.owner /\ u.pending.gen = a.gen /\ u.pending.seq = a.seq
    BY DEF Accepts
  <1>3. u.pending # NoAction
    BY <1>1, <1>2, NoActionType
  <1>4. Sound(k) /\ k.pending = NoAction /\ k.seq = u.seq /\ k.pressed = u.pressed
    BY <1>1, <1>2, <1>3, ResultSound
  <1>5. g = [f EXCEPT !.states = t]
    BY <1>1 DEF Complete, Flows
  <1>6. u = f.states[s]
    OBVIOUS
  <1> HIDE DEF k, u
  <1>7. t \in [Surfaces -> States] /\ t[s] = k /\ \A r \in Surfaces \ {s} : t[r] = f.states[r]
    BY <1>1, <1>4 DEF Sound
  <1> HIDE DEF t
  <1>8. \A r \in Surfaces : /\ Sound(t[r]) /\ t[r].seq = f.states[r].seq
                            /\ t[r].pending \in {f.states[r].pending, NoAction}
                            /\ t[r].pressed = f.states[r].pressed
                            /\ r # f.owner => Idle(t[r])
    BY <1>2, <1>4, <1>6, <1>7 DEF Consistent
  <1>9. Consistent(g, I, A, p)
    BY <1>5, <1>7, <1>8, QuietConsistent
  <1>10. g.states = t /\ g.down = f.down /\ g.owner = f.owner /\ g.epoch = f.epoch
    BY <1>1, <1>5 DEF Flows
  <1>11. a.seq # g.states[a.surface].pending.seq
    BY <1>1, <1>4, <1>7, <1>10, NoActionType
  <1>12. Accounted(g, I, A \cup {a})
    BY <1>9, <1>11 DEF Consistent, Accounted
  <1>13. Typed(g, I, A \cup {a}, p)
    BY <1>9 DEF Consistent, Typed
  <1> QED
    BY <1>9, <1>10, <1>12, <1>13 DEF Consistent

-----------------------------------------------------------------------------
(* The state machine *)

\* New items keep an engine sound.
LEMMA SetItemsSound ==
  ASSUME NEW s \in States, NEW items \in Seq(Item), NEW mode \in Modes, mode # "executing",
         NEW k, k = SetItems(s, items, mode)
  PROVE  Sound(k) /\ k.pressed = Nothing /\ k.pending = NoAction /\ k.seq = s.seq
  <1> DEFINE g == s.gen + 1
  <1>1. g \in Nat
    BY DEF States
  <1>2. k = [s EXCEPT !.items = items, !.pending = NoAction, !.mode = mode, !.resume = mode,
                      !.scan = 0, !.cycle = 0, !.pressed = Nothing, !.gen = g]
    BY DEF SetItems
  <1> HIDE DEF g
  <1> DEFINE l == [s EXCEPT !.items = items, !.pending = NoAction, !.mode = mode, !.resume = mode]
  <1>3. k = [l EXCEPT !.scan = 0, !.cycle = 0, !.pressed = Nothing, !.gen = g]
    BY <1>2
  <1>4. NoAction \in Actions
    BY NoActionType
  <1> DEFINE a == NoAction
  <1>5. l \in States /\ l.pending = a /\ l.mode = mode /\ l.resume = mode /\ l.seq = s.seq
    <2>1. l = [s EXCEPT !.items = items, !.pending = a, !.mode = mode, !.resume = mode]
      OBVIOUS
    <2>2. a \in Actions
      BY <1>4
    <2> HIDE DEF a, l
    <2> QED
      BY <2>1, <2>2 DEF States
  <1> HIDE DEF l
  <1>6. /\ k \in States /\ k.pressed = Nothing /\ k.pending = NoAction
        /\ k.mode = mode /\ k.resume = mode /\ k.seq = s.seq
    <2>1. Nothing \in Locks
      BY DEF Locks
    <2> DEFINE n == Nothing
               m == [l EXCEPT !.scan = 0, !.cycle = 0]
    <2>2. n \in Locks /\ k = [m EXCEPT !.pressed = n, !.gen = g]
      BY <2>1, <1>3
    <2> HIDE DEF n, a
    <2>3. /\ m \in States /\ m.pending = a
          /\ m.mode = mode /\ m.resume = mode /\ m.seq = s.seq
      BY <1>5 DEF States
    <2> HIDE DEF m
    <2>4. k \in States /\ k.pressed = n /\ k.pending = a
      BY <1>1, <2>2, <2>3 DEF States
    <2>5. k.mode = mode /\ k.resume = mode /\ k.seq = s.seq
      BY <2>2, <2>3 DEF States
    <2> QED
      BY <2>4, <2>5 DEF n, a
  <1> QED
    BY <1>6 DEF Sound

\* The invariant holds at first.
LEMMA InitIInv == Init => IInv
  <1> SUFFICES ASSUME Init PROVE IInv
    OBVIOUS
  <1> DEFINE c == CreateSwitchState
             q == SetItems(c, PageItems, "groupScan")
             P == [q EXCEPT !.mode = "ready"]
             Q == SetItems(c, PracticeItems, "groupScan")
             t == [s \in Surfaces |-> IF s = "page" THEN P ELSE Pause(Q)]
  <1>1. PageItems \in Seq(Item) /\ PracticeItems \in Seq(Item)
    BY ItemsAssumption
  <1>2. c \in States /\ c.seq = 0
    BY NoActionType DEF CreateSwitchState, States, Modes, Locks
  <1>3. flow = [owner |-> "page", epoch |-> 0, down |-> FALSE, stopOnRelease |-> FALSE,
                awaiting |-> FALSE, states |-> t]
    BY DEF Init, New
  <1> HIDE DEF c
  <1>4. "groupScan" \in Modes /\ "ready" \in Modes
    BY DEF Modes
  <1>5. Sound(q) /\ q \in States /\ q.pressed = Nothing /\ q.pending = NoAction /\ q.seq = 0
    BY <1>1, <1>2, <1>4, SetItemsSound DEF Sound
  <1>6. Sound(Q) /\ Q.seq = 0
    BY <1>1, <1>2, <1>4, SetItemsSound
  <1>7. Sound(Pause(Q)) /\ Idle(Pause(Q))
    BY <1>6, PauseSound
  <1>8. P = [q EXCEPT !.mode = "ready"]
    OBVIOUS
  <1> HIDE DEF P, q, Q
  <1>9. /\ P \in States /\ P.mode = "ready" /\ P.pressed = Nothing /\ P.pending = NoAction
        /\ P.seq = 0 /\ P.resume = q.resume /\ P.gen = q.gen
    BY <1>4, <1>5, <1>8 DEF States
  <1>10. Sound(P)
    BY <1>5, <1>9 DEF Sound
  <1>11. \A s \in Surfaces : /\ Sound(t[s]) /\ t[s].pressed = Nothing /\ t[s].pending = NoAction
                             /\ s # "page" => Idle(t[s])
    BY <1>7, <1>9, <1>10 DEF Idle
  <1>12. t \in [Surfaces -> States]
    BY <1>11 DEF Sound
  <1> HIDE DEF t
  <1>13. flow \in Flows /\ flow.states = t /\ flow.owner = "page" /\ ~flow.down
    BY <1>3, <1>12 DEF Flows, Surfaces
  <1>14. Typed(flow, issued, accepted, press)
    BY <1>13 DEF Init, Typed, Presses, Locks
  <1>15. Held(flow, press)
    BY <1>11, <1>13 DEF Held
  <1>16. Accounted(flow, issued, accepted)
    BY <1>11, <1>13 DEF Accounted, Init, Outstanding
  <1> QED
    BY <1>11, <1>13, <1>14, <1>15, <1>16 DEF IInv, Consistent

\* What a step may do, besides keeping the invariant
Selects == \A a \in issued' \ issued :
              a.surface = press.owner /\ a.epoch = press.epoch /\ a.item = press.offered
Voids == flow.down /\ press.busy /\ ~flow'.down => flow'.epoch # flow.epoch
Final == ~Running(flow) => ~Running(flow') /\ UNCHANGED <<issued, accepted>>

\* A boundary opens a new epoch or leaves the key as it is.
LEMMA BoundaryStep ==
  ASSUME IInv, NEW f, Boundary(f), Consistent(f, issued, accepted, press),
         f.epoch = flow.epoch + 1 \/ (flow.down => f.down),
         ~Running(flow) => ~Running(f)
  PROVE  IInv' /\ Selects /\ Voids /\ Final
  <1>1. flow' = f /\ issued' = issued /\ accepted' = accepted /\ press' = press
    BY DEF Boundary
  <1>2. flow.epoch \in Nat
    BY DEF IInv, Consistent, Typed, Flows
  <1>3. IInv'
    BY <1>1 DEF IInv
  <1>4. Selects /\ Final
    BY <1>1 DEF Selects, Final
  <1>5. Voids
    BY <1>1, <1>2 DEF Voids
  <1> QED
    BY <1>3, <1>4, <1>5

\* Every step keeps the invariant.
LEMMA Step ==
  ASSUME IInv, Next
  PROVE  IInv' /\ Selects /\ Voids /\ Final
  <1>0. /\ Consistent(flow, issued, accepted, press)
        /\ flow \in Flows /\ flow.owner \in Surfaces \cup {NoOwner}
    BY DEF IInv, Consistent, Typed, Flows
  <1>1. ASSUME NEW s \in Surfaces, NEW e \in KeyEvents, CallKey(s, e)
        PROVE  IInv' /\ Selects /\ Voids /\ Final
    <2> DEFINE N == KeyActions(flow, s, e)
               q == LatestPress(flow, s, e, press)
               g == Key(flow, s, e)
    <2>1. flow' = g /\ issued' = issued \cup N /\ press' = q /\ accepted' = accepted
      BY <1>1 DEF CallKey
    <2>2. /\ Consistent(g, issued \cup N, accepted, q)
          /\ \A a \in N : a.surface = press.owner /\ a.epoch = press.epoch /\ a.item = press.offered
          /\ flow.down /\ press.busy /\ ~g.down => g.epoch # flow.epoch
          /\ ~Running(flow) => ~Running(g) /\ N = {}
      BY <1>0, KeyConsistent
    <2> HIDE DEF N, q, g
    <2>3. IInv'
      BY <2>1, <2>2 DEF IInv
    <2>4. Selects
      BY <2>1, <2>2 DEF Selects
    <2>5. Voids
      BY <2>1, <2>2 DEF Voids
    <2>6. Final
      <3>1. ASSUME ~Running(flow) PROVE issued' = issued /\ ~Running(flow')
        BY <3>1, <2>1, <2>2
      <3> QED
        BY <3>1, <2>1 DEF Final
    <2> QED
      BY <2>3, <2>4, <2>5, <2>6
  <1>2. ASSUME NEW s \in Surfaces, CallTransfer(s)
        PROVE  IInv' /\ Selects /\ Voids /\ Final
    <2> DEFINE f == Transfer(flow, s)
    <2>1. Boundary(f) /\ Running(flow)
      BY <1>2 DEF CallTransfer, TransferAllowed
    <2>2. f = MovedTo(flow, s) /\ s \in Surfaces \cup {NoOwner}
      BY DEF Transfer, MovedTo
    <2> HIDE DEF f
    <2>3. Consistent(f, issued, accepted, press) /\ f.epoch = flow.epoch + 1
      BY <1>0, <2>2, OwnerChangeConsistent
    <2> QED
      BY <2>1, <2>3, BoundaryStep
  <1>3. ASSUME CallCancel PROVE IInv' /\ Selects /\ Voids /\ Final
    <2> DEFINE f == Cancel(flow)
    <2>1. CASE Running(flow)
      <3>1. f = MovedTo(flow, "page") /\ "page" \in Surfaces \cup {NoOwner}
        BY <2>1 DEF Cancel, Surfaces, MovedTo
      <3>2. Boundary(f)
        BY <1>3 DEF CallCancel
      <3> HIDE DEF f
      <3>3. Consistent(f, issued, accepted, press) /\ f.epoch = flow.epoch + 1
        BY <1>0, <3>1, OwnerChangeConsistent
      <3> QED
        BY <2>1, <3>2, <3>3, BoundaryStep
    <2>2. CASE ~Running(flow)
      BY <1>0, <1>3, <2>2, BoundaryStep DEF CallCancel, Cancel
    <2> QED
      BY <2>1, <2>2
  <1>4. ASSUME CallPause PROVE IInv' /\ Selects /\ Voids /\ Final
    <2>1. CASE Running(flow)
      BY <1>0, <1>4, <2>1, InvalidateConsistent, BoundaryStep DEF CallPause, PauseFlow
    <2>2. CASE ~Running(flow)
      BY <1>0, <1>4, <2>2, BoundaryStep DEF CallPause, PauseFlow
    <2> QED
      BY <2>1, <2>2
  <1>5. ASSUME CallStop PROVE IInv' /\ Selects /\ Voids /\ Final
    <2>1. CASE Running(flow)
      BY <1>0, <1>5, <2>1, StopConsistent, BoundaryStep DEF CallStop
    <2>2. CASE ~Running(flow)
      BY <1>0, <1>5, <2>2, BoundaryStep DEF CallStop, StopFlow
    <2> QED
      BY <2>1, <2>2
  <1>6. ASSUME CallTick PROVE IInv' /\ Selects /\ Voids /\ Final
    <2> DEFINE f == TickFlow(flow)
    <2>1. Consistent(f, issued, accepted, press)
      BY <1>0, TickConsistent
    <2>2. f.epoch = flow.epoch + 1 \/ (flow.down => f.down)
      BY <1>0, TickEpoch
    <2>3. ~Running(flow) => ~Running(f)
      BY DEF TickFlow
    <2>4. Boundary(f)
      BY <1>6 DEF CallTick
    <2> HIDE DEF f
    <2> QED
      BY <2>1, <2>2, <2>3, <2>4, BoundaryStep
  <1>7. ASSUME TimePasses PROVE IInv' /\ Selects /\ Voids /\ Final
    <2> DEFINE f == Settled(flow)
               t == [s \in Surfaces |-> [flow.states[s] EXCEPT !.settled = TRUE]]
    <2>1. Consistent(f, issued, accepted, press)
      BY <1>0, SettledConsistent
    <2>2. f = [flow EXCEPT !.states = t]
      BY DEF Settled
    <2>3. Boundary(f)
      BY <1>7 DEF TimePasses
    <2> HIDE DEF f, t
    <2>4. f.owner = flow.owner /\ f.down = flow.down
      BY <1>0, <2>2 DEF Flows
    <2> QED
      BY <2>1, <2>3, <2>4, BoundaryStep DEF Running
  <1>8. ASSUME NEW a \in issued, NEW result \in Results, CallComplete(a, result)
        PROVE  IInv' /\ Selects /\ Voids /\ Final
    <2> DEFINE g == Complete(flow, a, result)
    <2>1. flow' = g /\ issued' = issued /\ press' = press
      BY <1>8 DEF CallComplete
    <2>2. CASE Accepts(flow, a)
      <3>1. /\ Consistent(g, issued, accepted \cup {a}, press)
            /\ g.down = flow.down /\ g.owner = flow.owner /\ g.epoch = flow.epoch
        BY <1>0, <2>2, CompleteConsistent
      <3>2. accepted' = accepted \cup {a}
        BY <1>8, <2>2 DEF CallComplete
      <3>3. Running(flow)
        <4>1. a.surface \in Surfaces
          BY <1>0 DEF Consistent, Typed, OwnedActions
        <4> QED
          BY <4>1, <2>2 DEF Accepts, Running, Surfaces, NoOwner
      <3> HIDE DEF g
      <3> QED
        BY <2>1, <3>1, <3>2, <3>3 DEF IInv, Selects, Voids, Final
    <2>3. CASE ~Accepts(flow, a)
      <3>1. flow' = flow /\ accepted' = accepted
        BY <1>8, <2>3 DEF CallComplete, Complete
      <3> QED
        BY <2>1, <3>1 DEF IInv, Selects, Voids, Final
    <2> QED
      BY <2>2, <2>3
  <1> QED
    BY <1>1, <1>2, <1>3, <1>4, <1>5, <1>6, <1>7, <1>8 DEF Next

\* The invariant always holds.
LEMMA Invariance == Spec => []IInv
  <1>1. ASSUME IInv, UNCHANGED vars PROVE IInv'
    BY <1>1 DEF IInv, vars
  <1>2. IInv /\ [Next]_vars => IInv'
    BY <1>1, Step
  <1> QED
    BY <1>2, InitIInv, PTL DEF Spec

\* The object, the issued and accepted actions and the latest press keep their
\* shape, and a key is never both held and awaited.
THEOREM TypeCorrect == Spec => []TypeOK
  <1>1. IInv => TypeOK
    BY DEF IInv, Consistent, Typed, Held, TypeOK
  <1> QED
    BY <1>1, Invariance, PTL

\* Whatever calls are made in whatever order, at most the owner's engine runs.
THEOREM SoleRunner == Spec => []OnlyTheOwnerRuns
  <1>1. IInv => OnlyTheOwnerRuns
    BY DEF IInv, Consistent, OnlyTheOwnerRuns
  <1> QED
    BY <1>1, Invariance, PTL

\* No engine ever waits for an action that complete() would refuse.
THEOREM AnswerableWait == Spec => []WaitIsAnswerable
  <1>1. ASSUME IInv, NEW s \in Surfaces, flow.states[s].mode = "executing"
        PROVE  \E a \in issued : a.surface = s /\ Accepts(flow, a)
    <2> DEFINE u == flow.states[s]
               b == Owned(flow, s, u.pending)
    <2>1. Sound(u) /\ u.pending # NoAction
      BY <1>1 DEF IInv, Consistent, Sound
    <2>2. s = flow.owner
      BY <1>1 DEF IInv, Consistent, Idle
    <2>3. b \in issued
      BY <1>1, <2>1 DEF IInv, Consistent, Accounted, Outstanding
    <2>4. /\ b.surface = s /\ b.epoch = flow.epoch /\ b.gen = u.pending.gen
          /\ b.seq = u.pending.seq /\ b.item = u.pending.item
      BY DEF Owned
    <2>5. u.pending \in Actions /\ u.pending.gen = u.gen
      BY <2>1 DEF Sound, States
    <2>6. u.pending = [gen |-> b.gen, seq |-> b.seq, item |-> b.item]
      BY <2>4, <2>5 DEF Actions
    <2>7. u = flow.states[s]
      OBVIOUS
    <2> HIDE DEF b, u
    <2>8. Accepts(flow, b)
      BY <2>2, <2>4, <2>5, <2>6, <2>7 DEF Accepts
    <2> QED
      BY <2>3, <2>4, <2>8
  <1>2. IInv => WaitIsAnswerable
    BY <1>1 DEF WaitIsAnswerable
  <1> QED
    BY <1>2, Invariance, PTL

\* No answer is accepted twice.
THEOREM SingleAcceptance == Spec => []AcceptedOnce
  <1>1. IInv => AcceptedOnce
    BY DEF IInv, Consistent, Accounted, AcceptedOnce, Accepts
  <1> QED
    BY <1>1, Invariance, PTL

\* Each selection is of the item its own press locked, in the same epoch.
THEOREM WholePress == Spec => WholePressSelects
  <1>1. ASSUME IInv, [Next]_vars
        PROVE  [\A a \in issued' \ issued :
                  a.surface = press.owner /\ a.epoch = press.epoch /\ a.item = press.offered]_vars
    BY <1>1, Step DEF Selects
  <1> QED
    BY <1>1, Invariance, PTL DEF Spec, WholePressSelects

\* A press meant to stop voids the epoch even if the result comes first.
THEOREM StopIntentSurvives == Spec => PressWhileWaitingStops
  <1>1. ASSUME IInv, [Next]_vars
        PROVE  [flow.down /\ press.busy /\ ~flow'.down => flow'.epoch # flow.epoch]_vars
    BY <1>1, Step DEF Voids
  <1> QED
    BY <1>1, Invariance, PTL DEF Spec, PressWhileWaitingStops

\* Nothing happens after a stop.
THEOREM FinalStop == Spec => StopIsFinal
  <1>1. ASSUME IInv, [Next]_vars
        PROVE  [~Running(flow) => ~Running(flow') /\ UNCHANGED <<issued, accepted>>]_vars
    BY <1>1, Step DEF Final
  <1> QED
    BY <1>1, Invariance, PTL DEF Spec, StopIsFinal

=============================================================================
