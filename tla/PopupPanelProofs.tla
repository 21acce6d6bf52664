-------------------------- MODULE PopupPanelProofs --------------------------
(***************************************************************************)
(* Theorems about the popup's cards, for any number of presses, changes    *)
(* and starts.                                                             *)
(*                                                                         *)
(* Two things are followed apart.  The popup's view of a key is behind the *)
(* storage only while an event or a read of that key is on its way, and    *)
(* the last event on its way tells the present value (Follows).  The card  *)
(* differs from an up-to-date view only while the newest press waits for a *)
(* worker who has not done what was pressed (Justified): once the worker   *)
(* has, either the storage has changed, and its event draws the card, or   *)
(* it was so before, and the card is right as it stands.                   *)
(***************************************************************************)
EXTENDS PopupPanel, SequenceTheorems, TLAPS

-----------------------------------------------------------------------------
(* The inductive invariant *)

Events == [key : Keys, value : BOOLEAN]
PressRecords == [next : BOOLEAN, restores : SUBSET BOOLEAN, waiting : BOOLEAN]
ReadStages == {"none", "asked", "yes", "no"}

Typed == /\ stored \in [Keys -> BOOLEAN] /\ events \in Seq(Events)
         /\ job \in [Presses -> {"none", "queued", "half", "done"}]
         /\ answer \in [Presses -> {"none", "ok", "refused"}]
         /\ view \in [Keys -> BOOLEAN] /\ card \in BOOLEAN /\ startable \in BOOLEAN
         /\ intent \in Nat /\ starts \in Nat /\ press \in [Presses -> PressRecords]
         /\ reads \in [0..MaxPresses -> ReadStages] /\ settingsRead \in ReadStages
         /\ blind \subseteq Keys

\* The worker answers what it has been asked, and only then.
Asked == /\ \A i \in Presses : i > intent => job[i] = "none"
         /\ \A i \in Presses : answer[i] # "none" => job[i] = "done"

NoWord(ev, key) == \A k \in 1..Len(ev) : ev[k].key # key

\* Of the events about a key the last one tells its present value.
Tells(ev, key, value) ==
    \A k \in 1..Len(ev) :
        ev[k].key = key /\ (\A l \in 1..Len(ev) : l > k => ev[l].key # key) => ev[k].value = value

\* What is read and no later event contradicts is so; and with no word of the
\* key on its way and no read, the view is what is stored.
Follows(key, ev, value, seen, rds, unread) ==
    /\ Tells(ev, key, value)
    /\ NoWord(ev, key) => /\ "yes" \in rds => value
                          /\ "no" \in rds => ~value
                          /\ rds \subseteq {"none"} /\ ~unread => seen = value

ReadsOff == {reads[i] : i \in 0..MaxPresses}
FollowsStorage ==
    /\ Follows("off", events, stored["off"], view["off"], ReadsOff, "off" \in blind)
    /\ Follows("enabled", events, stored["enabled"], view["enabled"], {settingsRead}, "enabled" \in blind)

\* An informed card differs from the view for a press that is under way only.
UnderWay(i) == \/ job[i] = "queued"
               \/ job[i] = "half" /\ press[i].next /\ stored["enabled"]
               \/ answer[i] = "refused"
Justified ==
    Informed /\ card # Effective(view) =>
        /\ intent \in Presses
        /\ press[intent].waiting /\ card = press[intent].next
        /\ UnderWay(intent)

Drawn == /\ Open => startable = (Effective(view) /\ ~Busy)
         /\ ~Open /\ Informed => Effective(view)

IInv == Typed /\ Asked /\ FollowsStorage /\ Justified /\ Drawn

-----------------------------------------------------------------------------
(* The events on their way *)

\* An event is put behind the others when the stored value changes: the last
\* event about each key keeps telling its value.
LEMMA FollowsStore ==
    ASSUME NEW ev \in Seq(Events), NEW k \in Keys, NEW old \in BOOLEAN, NEW v \in BOOLEAN,
           NEW seen \in BOOLEAN, NEW rds, NEW unread \in BOOLEAN,
           Follows(k, ev, old, seen, rds, unread)
    PROVE  Follows(k, IF old = v THEN ev ELSE Append(ev, [key |-> k, value |-> v]),
                   v, seen, rds, unread)
<1> DEFINE e == [key |-> k, value |-> v]
<1>1. CASE old = v
  BY <1>1
<1>2. CASE old # v
  <2>1. e \in Events /\ e.key = k /\ e.value = v
    BY DEF Events
  <2> HIDE DEF e
  <2> DEFINE new == Append(ev, e)
  <2>2. Len(new) = Len(ev) + 1 /\ Len(ev) \in Nat /\ new[Len(ev) + 1] = e
    BY <2>1
  <2> HIDE DEF new
  <2>3. Tells(new, k, v)
    BY <2>1, <2>2 DEF Tells
  <2>4. ~NoWord(new, k)
    BY <2>1, <2>2 DEF NoWord
  <2>5. Follows(k, new, v, seen, rds, unread)
    BY <2>3, <2>4 DEF Follows
  <2> QED BY <2>5, <1>2 DEF new, e
<1> QED BY <1>1, <1>2

\* An event about one key says nothing of another.
LEMMA FollowsOther ==
    ASSUME NEW ev \in Seq(Events), NEW k \in Keys, NEW e \in Events, e.key # k,
           NEW value \in BOOLEAN, NEW seen \in BOOLEAN, NEW rds, NEW unread \in BOOLEAN,
           Follows(k, ev, value, seen, rds, unread)
    PROVE  Follows(k, Append(ev, e), value, seen, rds, unread)
<1> DEFINE new == Append(ev, e)
<1>1. /\ Len(new) = Len(ev) + 1 /\ Len(ev) \in Nat /\ new[Len(ev) + 1] = e
      /\ \A j \in 1..Len(ev) : new[j] = ev[j]
  OBVIOUS
<1> HIDE DEF new
<1>2. ASSUME Tells(ev, k, value) PROVE Tells(new, k, value)
  <2> SUFFICES ASSUME NEW j \in 1..Len(new), new[j].key = k,
                      \A l \in 1..Len(new) : l > j => new[l].key # k
               PROVE  new[j].value = value
    BY DEF Tells
  <2>1. j \in 1..Len(ev)
    BY <1>1
  <2>2. \A l \in 1..Len(ev) : l > j => ev[l].key # k
    BY <1>1
  <2>3. new[j] = ev[j]
    BY <1>1, <2>1
  <2> QED BY <2>1, <2>2, <2>3, <1>2 DEF Tells
<1>3. NoWord(new, k) => NoWord(ev, k)
  BY <1>1 DEF NoWord
<1>4. Follows(k, new, value, seen, rds, unread)
  BY <1>2, <1>3 DEF Follows
<1> QED BY <1>4 DEF new

\* An event that arrives is the present value, or a later one is on its way.
LEMMA FollowsEvent ==
    ASSUME NEW ev \in Seq(Events), ev # <<>>, NEW k \in Keys,
           NEW value \in BOOLEAN, NEW seen \in BOOLEAN, NEW rds, NEW unread \in BOOLEAN,
           Follows(k, ev, value, seen, rds, unread)
    PROVE  /\ Head(ev).key = k => Follows(k, Tail(ev), value, Head(ev).value, {"none"}, FALSE)
           /\ Head(ev).key # k => Follows(k, Tail(ev), value, seen, rds, unread)
<1> DEFINE rest == Tail(ev)
<1>1. /\ Len(ev) \in Nat /\ Len(ev) > 0 /\ Len(rest) = Len(ev) - 1 /\ Head(ev) = ev[1]
      /\ \A j \in 1..Len(rest) : rest[j] = ev[j + 1]
  OBVIOUS
<1> HIDE DEF rest
<1>2. Tells(rest, k, value)
  <2> SUFFICES ASSUME NEW j \in 1..Len(rest), rest[j].key = k,
                      \A l \in 1..Len(rest) : l > j => rest[l].key # k
               PROVE  rest[j].value = value
    BY DEF Tells
  <2>1. j + 1 \in 1..Len(ev) /\ rest[j] = ev[j + 1]
    BY <1>1
  <2>2. ASSUME NEW l \in 1..Len(ev), l > j + 1 PROVE ev[l].key # k
    <3>1. l - 1 \in 1..Len(rest) /\ l - 1 > j /\ (l - 1) + 1 = l
      BY <1>1, <2>2
    <3>2. rest[l - 1] = ev[l]
      BY <3>1, <1>1
    <3> QED BY <3>1, <3>2
  <2>3. Tells(ev, k, value)
    BY DEF Follows
  <2> QED BY <2>1, <2>2, <2>3 DEF Tells
<1>3. ASSUME Head(ev).key = k, NoWord(rest, k) PROVE Head(ev).value = value
  <2>1. 1 \in 1..Len(ev) /\ ev[1].key = k
    BY <1>1, <1>3
  <2>2. ASSUME NEW l \in 1..Len(ev), l > 1 PROVE ev[l].key # k
    <3>1. l - 1 \in 1..Len(rest) /\ (l - 1) + 1 = l
      BY <1>1, <2>2
    <3>2. rest[l - 1] = ev[l]
      BY <3>1, <1>1
    <3> QED BY <3>1, <3>2, <1>3 DEF NoWord
  <2>3. Tells(ev, k, value)
    BY DEF Follows
  <2>4. ev[1].value = value
    BY <2>1, <2>2, <2>3 DEF Tells
  <2> QED BY <2>4, <1>1
<1>4. ASSUME Head(ev).key # k, NoWord(rest, k) PROVE NoWord(ev, k)
  <2> SUFFICES ASSUME NEW l \in 1..Len(ev) PROVE ev[l].key # k
    BY DEF NoWord
  <2>1. CASE l = 1
    BY <2>1, <1>1, <1>4
  <2>2. CASE l # 1
    <3>1. l - 1 \in 1..Len(rest) /\ (l - 1) + 1 = l
      BY <1>1, <2>2
    <3>2. rest[l - 1] = ev[l]
      BY <3>1, <1>1
    <3> QED BY <3>1, <3>2, <1>4 DEF NoWord
  <2> QED BY <2>1, <2>2
<1>5. Head(ev).key = k => Follows(k, rest, value, Head(ev).value, {"none"}, FALSE)
  BY <1>2, <1>3 DEF Follows
<1>6. Head(ev).key # k => Follows(k, rest, value, seen, rds, unread)
  BY <1>2, <1>4 DEF Follows
<1> QED BY <1>5, <1>6 DEF rest

-----------------------------------------------------------------------------
(* The parts of a step *)

\* An up-to-date view is what is stored.
LEMMA InformedView ==
    ASSUME Typed, FollowsStorage, Informed
    PROVE  view = stored /\ Effective(view) = Effective(stored)
<1>1. NoWord(events, "off") /\ NoWord(events, "enabled")
  BY Len(<<>>) = 0 DEF Informed, NoWord
<1>2. ReadsOff \subseteq {"none"} /\ {settingsRead} \subseteq {"none"} /\ blind = {}
  BY DEF Informed, ReadsOff
<1>3. view["off"] = stored["off"] /\ view["enabled"] = stored["enabled"]
  BY <1>1, <1>2 DEF FollowsStorage, Follows
<1>4. view = stored
  BY <1>3 DEF Typed, Keys
<1> QED BY <1>4

\* A store of either key leaves the popup behind by the event of it only; where
\* there was nothing to change, nothing happens.
LEMMA StoreKeeps ==
    ASSUME Typed, FollowsStorage, NEW k \in Keys, NEW v \in BOOLEAN, Store(k, v),
           UNCHANGED <<view, reads, settingsRead, blind>>
    PROVE  /\ stored' \in [Keys -> BOOLEAN] /\ events' \in Seq(Events)
           /\ FollowsStorage'
           /\ events' = <<>> => stored' = stored /\ stored[k] = v /\ events = <<>>
<1> DEFINE e == [key |-> k, value |-> v]
<1>1. e \in Events /\ e.key = k
  BY DEF Events
<1>2. events \in Seq(Events) /\ stored \in [Keys -> BOOLEAN] /\ view \in [Keys -> BOOLEAN]
  BY DEF Typed
<1>3. /\ stored' = [stored EXCEPT ![k] = v]
      /\ events' = IF stored[k] = v THEN events ELSE Append(events, e)
  BY DEF Store
<1>4. /\ ReadsOff' = ReadsOff /\ settingsRead' = settingsRead /\ view' = view /\ blind' = blind
  BY DEF ReadsOff
<1>5. stored' \in [Keys -> BOOLEAN] /\ stored'[k] = v
      /\ \A key \in Keys : key # k => stored'[key] = stored[key]
  BY <1>2, <1>3
<1>6. ASSUME NEW key \in Keys, NEW rds, Follows(key, events, stored[key], view[key], rds, key \in blind)
      PROVE  Follows(key, events', stored'[key], view[key], rds, key \in blind)
  <2>0. stored[key] \in BOOLEAN /\ view[key] \in BOOLEAN /\ (key \in blind) \in BOOLEAN
    BY <1>2
  <2>1. CASE key = k
    <3>1. Follows(key, IF stored[key] = v THEN events ELSE Append(events, [key |-> key, value |-> v]),
                  v, view[key], rds, key \in blind)
      BY <2>0, <1>2, <1>6, FollowsStore
    <3> QED BY <3>1, <2>1, <1>3, <1>5
  <2>2. CASE key # k
    <3>1. Follows(key, Append(events, e), stored[key], view[key], rds, key \in blind)
      <4>1. e.key # key /\ e \in Events
        BY <1>1, <2>2
      <4> DEFINE unread == key \in blind
      <4>2. unread \in BOOLEAN /\ Follows(key, events, stored[key], view[key], rds, unread)
        BY <1>6
      <4> HIDE DEF e, unread
      <4>3. Follows(key, Append(events, e), stored[key], view[key], rds, unread)
        BY <2>0, <1>2, <4>1, <4>2, FollowsOther
      <4> QED BY <4>3 DEF unread
    <3>2. stored'[key] = stored[key]
      BY <1>5, <2>2
    <3> QED BY <3>1, <3>2, <1>3, <1>6
  <2> QED BY <2>1, <2>2
<1>7. FollowsStorage'
  <2>1. Follows("off", events', stored'["off"], view["off"], ReadsOff, "off" \in blind)
    BY <1>6 DEF FollowsStorage, Keys
  <2>2. Follows("enabled", events', stored'["enabled"], view["enabled"], {settingsRead}, "enabled" \in blind)
    BY <1>6 DEF FollowsStorage, Keys
  <2> QED BY <2>1, <2>2, <1>4 DEF FollowsStorage
<1>8. events' \in Seq(Events)
  BY <1>1, <1>2, <1>3
<1>9. ASSUME events' = <<>> PROVE stored' = stored /\ stored[k] = v /\ events = <<>>
  <2>1. Append(events, e) # <<>>
    BY <1>1, <1>2
  <2>2. stored[k] = v
    BY <2>1, <1>3, <1>9
  <2>3. stored' = stored
    BY <2>2, <1>2, <1>3
  <2> QED BY <2>1, <2>2, <2>3, <1>3, <1>9
<1> QED BY <1>5, <1>7, <1>8, <1>9

\* Where neither storage nor what the popup reads changes, it stays as near to it.
LEMMA StorageLeft ==
    ASSUME FollowsStorage, UNCHANGED <<stored, events, view, reads, settingsRead, blind>>
    PROVE  FollowsStorage'
BY DEF FollowsStorage, ReadsOff, Follows, Tells, NoWord
-----------------------------------------------------------------------------
(* The worker *)

\* The worker's part of a request, whichever: what has been done of press i is
\* what the new stage says.
LEMMA WorkerMoves ==
    ASSUME IInv, Open, NEW k \in Keys, NEW v \in BOOLEAN, Store(k, v) \/ UNCHANGED <<stored, events>>,
           NEW i \in Presses, NEW stage \in {"half", "done"}, NEW result \in {"none", "ok", "refused"},
           job[i] \in {"queued", "half"}, job' = [job EXCEPT ![i] = stage],
           answer' = [answer EXCEPT ![i] = result], result # "none" => stage = "done",
           UNCHANGED <<changes, popup>>,
           Informed' /\ Informed /\ stored' = stored /\ card # Effective(view) /\ i = intent
               => UnderWay(i)'
    PROVE  IInv'
<1> USE DEF IInv
<1>0. /\ view' = view /\ card' = card /\ startable' = startable /\ intent' = intent /\ press' = press
      /\ reads' = reads /\ settingsRead' = settingsRead /\ blind' = blind
      /\ start' = start /\ starts' = starts
  BY DEF popup, starting
<1>1. /\ stored' \in [Keys -> BOOLEAN] /\ events' \in Seq(Events) /\ FollowsStorage'
      /\ events' = <<>> => stored' = stored /\ events = <<>>
  <2>1. CASE Store(k, v)
    BY <2>1, <1>0, StoreKeeps
  <2>2. CASE UNCHANGED <<stored, events>>
    <3>1. FollowsStorage'
      BY <2>2, <1>0, StorageLeft
    <3> QED BY <3>1, <2>2 DEF Typed
  <2> QED BY <2>1, <2>2
<1>2. Typed'
  <2>1. job' \in [Presses -> {"none", "queued", "half", "done"}]
    BY DEF Typed
  <2>2. answer' \in [Presses -> {"none", "ok", "refused"}]
    BY DEF Typed
  <2> QED BY <2>1, <2>2, <1>0, <1>1 DEF Typed
<1>3. Asked'
  BY <1>0 DEF Asked, Typed
<1>4. Justified'
  <2> SUFFICES ASSUME Informed', card # Effective(view)
               PROVE  intent \in Presses /\ press[intent].waiting /\ card = press[intent].next
                      /\ UnderWay(intent)'
    BY <1>0 DEF Justified
  <2>1. Informed /\ stored' = stored
    BY <1>0, <1>1 DEF Informed
  <2>2. intent \in Presses /\ press[intent].waiting /\ card = press[intent].next /\ UnderWay(intent)
    BY <2>1 DEF Justified
  <2>3. CASE i = intent
    BY <2>1, <2>2, <2>3, <1>0 DEF UnderWay
  <2>4. CASE i # intent
    <3>1. job'[intent] = job[intent] /\ answer'[intent] = answer[intent]
      BY <2>2, <2>4 DEF Typed
    <3> QED BY <3>1, <2>1, <2>2, <1>0 DEF UnderWay
  <2> QED BY <2>2, <2>3, <2>4
<1>5. Drawn'
  BY <1>0 DEF Drawn, Open, Busy
<1> QED BY <1>1, <1>2, <1>3, <1>4, <1>5

\* Each step of the worker.
LEMMA WorkerKeeps ==
    ASSUME IInv, Open, NEW i \in Presses,
           WorkerStops(i) \/ WorkerEnables(i) \/ WorkerReleases(i) \/ WorkerRefuses(i)
    PROVE  IInv'
<1>0. /\ "off" \in Keys /\ "enabled" \in Keys /\ TRUE \in BOOLEAN /\ FALSE \in BOOLEAN
      /\ Typed /\ FollowsStorage /\ Justified
  BY DEF Keys, IInv
<1>1. CASE WorkerStops(i)
  <2>1. PICK result \in {"ok", "refused"} : Ends(i, result)
    BY <1>1 DEF WorkerStops
  <2>2. /\ Store("off", TRUE) /\ job[i] = "queued" /\ ~press[i].next /\ UNCHANGED <<changes, popup>>
        /\ job' = [job EXCEPT ![i] = "done"] /\ answer' = [answer EXCEPT ![i] = result]
    BY <1>1, <2>1 DEF WorkerStops, Ends
  <2>3. ASSUME Informed', Informed, stored' = stored, card # Effective(view), i = intent
        PROVE  UnderWay(i)'
    <3>1. stored["off"]
      BY <2>2, <2>3, <1>0 DEF Store, Typed
    <3>2. ~Effective(view)
      BY <3>1, <2>3, <1>0, InformedView DEF Effective
    <3>3. card = press[i].next
      BY <2>3, <1>0 DEF Justified
    <3>4. press[i].next \in BOOLEAN
      BY <1>0 DEF Typed, PressRecords
    <3>5. card = FALSE /\ Effective(view) \in BOOLEAN
      BY <3>3, <3>4, <2>2 DEF Effective
    <3> QED BY <3>2, <3>5, <2>3
  <2> QED BY <2>2, <2>3, <1>0, WorkerMoves
<1>2. CASE WorkerEnables(i)
  <2>2. /\ Store("enabled", TRUE) /\ job[i] = "queued" /\ press[i].next /\ UNCHANGED <<changes, popup>>
        /\ job' = [job EXCEPT ![i] = "half"] /\ answer' = answer
    BY <1>2 DEF WorkerEnables
  <2>3. answer[i] \in {"none", "ok", "refused"} /\ (answer[i] # "none" => FALSE)
    BY <2>2 DEF IInv, Typed, Asked
  <2>4. answer' = [answer EXCEPT ![i] = "none"]
    BY <2>2, <2>3 DEF IInv, Typed
  <2>5. ASSUME Informed', Informed, stored' = stored, card # Effective(view), i = intent
        PROVE  UnderWay(i)'
    <3>1. stored'["enabled"] /\ job'[i] = "half" /\ press'[i].next
      BY <2>2, <1>0 DEF Store, Typed, popup
    <3> QED BY <3>1 DEF UnderWay
  <2> QED BY <2>2, <2>4, <2>5, <1>0, WorkerMoves
<1>3. CASE WorkerReleases(i)
  <2>1. PICK result \in {"ok", "refused"} : Ends(i, result)
    BY <1>3 DEF WorkerReleases
  <2>2. /\ Store("off", FALSE) /\ job[i] = "half" /\ UNCHANGED <<changes, popup>>
        /\ job' = [job EXCEPT ![i] = "done"] /\ answer' = [answer EXCEPT ![i] = result]
    BY <1>3, <2>1 DEF WorkerReleases, Ends
  <2>3. ASSUME Informed', Informed, stored' = stored, card # Effective(view), i = intent
        PROVE  UnderWay(i)'
    <3>1. ~stored["off"]
      BY <2>2, <2>3, <1>0 DEF Store, Typed
    <3>2. answer[i] = "none"
      BY <2>2 DEF IInv, Typed, Asked
    <3>3. stored["enabled"] /\ press[i].next /\ card = press[i].next
      BY <2>2, <2>3, <3>2, <1>0 DEF Justified, UnderWay
    <3>4. Effective(view)
      BY <3>1, <3>3, <2>3, <1>0, InformedView DEF Effective
    <3>5. press[i].next \in BOOLEAN
      BY <1>0 DEF Typed, PressRecords
    <3>6. FALSE
      BY <3>3, <3>4, <3>5, <2>3, <1>0 DEF Typed
    <3> QED BY <3>6
  <2> QED BY <2>2, <2>3, <1>0, WorkerMoves
<1>4. CASE WorkerRefuses(i)
  <2>1. /\ UNCHANGED <<stored, events>> /\ job[i] \in {"queued", "half"} /\ UNCHANGED <<changes, popup>>
        /\ job' = [job EXCEPT ![i] = "done"] /\ answer' = [answer EXCEPT ![i] = "refused"]
    BY <1>4 DEF WorkerRefuses, Ends, storage
  <2>2. answer'[i] = "refused"
    BY <2>1, <1>0 DEF Typed
  <2>3. UnderWay(i)'
    BY <2>2 DEF UnderWay
  <2> QED BY <2>1, <2>3, <1>0, WorkerMoves
<1> QED BY <1>1, <1>2, <1>3, <1>4

\* A store that no press waits for: the settings that follow a stop, and a change
\* made elsewhere.
LEMMA ElsewhereKeeps ==
    ASSUME IInv, NEW k \in Keys, NEW v \in BOOLEAN, Store(k, v), UNCHANGED <<worker, popup>>
    PROVE  IInv'
<1> USE DEF IInv
<1>0. /\ view' = view /\ card' = card /\ startable' = startable /\ intent' = intent /\ press' = press
      /\ reads' = reads /\ settingsRead' = settingsRead /\ blind' = blind
      /\ start' = start /\ starts' = starts /\ job' = job /\ answer' = answer
  BY DEF popup, starting, worker
<1>1. /\ stored' \in [Keys -> BOOLEAN] /\ events' \in Seq(Events) /\ FollowsStorage'
      /\ events' = <<>> => stored' = stored /\ events = <<>>
  BY <1>0, StoreKeeps
<1>2. Informed' => Informed /\ stored' = stored
  BY <1>0, <1>1 DEF Informed
<1>3. Typed' /\ Asked'
  BY <1>0, <1>1 DEF Typed, Asked
<1>4. Justified'
  BY <1>0, <1>2 DEF Justified, UnderWay
<1>5. Drawn'
  BY <1>0, <1>2 DEF Drawn, Open, Busy
<1> QED BY <1>1, <1>3, <1>4, <1>5

-----------------------------------------------------------------------------
(* Presses and their answers *)

\* What the popup asks and hears of the worker leaves storage and view alone.
LEMMA PressKeeps ==
    ASSUME IInv, PressHelper \/ PressStop
    PROVE  IInv'
<1> USE DEF IInv
<1>1. PICK next \in BOOLEAN, restores \in SUBSET BOOLEAN : Toggle(next, restores)
  <2>1. CASE PressHelper
    <3>1. (~card) \in BOOLEAN /\ {card} \in SUBSET BOOLEAN
      BY DEF Typed
    <3>2. Toggle(~card, {card})
      BY <2>1 DEF PressHelper
    <3> QED BY <3>1, <3>2, Zenon
  <2>2. CASE PressStop
    <3>1. FALSE \in BOOLEAN /\ {} \in SUBSET BOOLEAN
      OBVIOUS
    <3> QED BY <2>2, <3>1 DEF PressStop
  <2> QED BY <2>1, <2>2
<1>0. PICK i : i = intent + 1
  OBVIOUS
<1> DEFINE new == [next |-> next, restores |-> restores, waiting |-> TRUE]
<1>2. /\ intent' = i /\ card' = next /\ press' = [press EXCEPT ![i] = new]
      /\ job' = [job EXCEPT ![i] = "queued"]
      /\ stored' = stored /\ events' = events /\ answer' = answer /\ view' = view
      /\ startable' = startable /\ reads' = reads /\ settingsRead' = settingsRead
      /\ blind' = blind /\ start' = start /\ starts' = starts
  BY <1>0, <1>1 DEF Toggle, storage, starting
<1>3. i \in Presses /\ i \in Nat /\ i > intent
  BY <1>0, <1>1, PopupBounds DEF Toggle, Typed, Presses
<1>4. new \in PressRecords /\ new.waiting /\ new.next = next
  BY DEF PressRecords
<1> HIDE DEF new
<1>5. Typed'
  <2>1. press' \in [Presses -> PressRecords]
    BY <1>2, <1>4 DEF Typed
  <2>2. job' \in [Presses -> {"none", "queued", "half", "done"}]
    BY <1>2 DEF Typed
  <2> QED BY <2>1, <2>2, <1>2, <1>3 DEF Typed
<1>6. Asked'
  <2>1. job[i] = "none" /\ answer[i] = "none"
    BY <1>3 DEF Asked, Typed
  <2>2. \A j \in Presses : j # i => job'[j] = job[j]
    BY <1>2 DEF Typed
  <2>3. ASSUME NEW j \in Presses, j > intent' PROVE job'[j] = "none"
    <3>1. j > intent /\ j # i
      BY <2>3, <1>0, <1>2, <1>3 DEF Presses, Typed
    <3> QED BY <3>1, <2>2 DEF Asked
  <2> QED BY <2>1, <2>2, <2>3, <1>2 DEF Asked
<1>7. FollowsStorage'
  BY <1>2, StorageLeft
<1>8. Justified'
  <2>1. press'[i].waiting /\ press'[i].next = next /\ job'[i] = "queued"
    BY <1>2, <1>3, <1>4 DEF Typed
  <2>2. UnderWay(i)'
    BY <2>1, <1>2 DEF UnderWay
  <2>3. UnderWay(intent)'
    BY <2>2, <1>2 DEF UnderWay
  <2> QED BY <2>1, <2>3, <1>2, <1>3 DEF Justified
<1>9. Drawn'
  BY <1>2 DEF Drawn, Open, Busy, Informed
<1> QED BY <1>5, <1>6, <1>7, <1>8, <1>9

\* A settled press waits no more and has nothing to take back.
LEMMA Settles ==
    ASSUME press \in [Presses -> PressRecords], NEW i \in Presses, Settle(i)
    PROVE  /\ press' \in [Presses -> PressRecords]
           /\ \A j \in Presses : j # i => press'[j] = press[j]
<1> DEFINE waited == [press EXCEPT ![i].waiting = FALSE]
<1>1. press' = [waited EXCEPT ![i].restores = {}]
  BY DEF Settle
<1>2. waited \in [Presses -> PressRecords] /\ \A j \in Presses : j # i => waited[j] = press[j]
  BY DEF PressRecords
<1> HIDE DEF waited
<1>3. press' \in [Presses -> PressRecords] /\ \A j \in Presses : j # i => press'[j] = waited[j]
  BY <1>1, <1>2 DEF PressRecords
<1> QED BY <1>2, <1>3

\* A press that fails is taken back when it is the newest, and then read again.
LEMMA FailsKeeps ==
    ASSUME IInv, NEW i \in Presses, Fails(i),
           answer' = answer \/ answer' = [answer EXCEPT ![i] = "none"]
    PROVE  IInv'
<1> USE DEF IInv
<1>1. /\ Settle(i)
      /\ stored' = stored /\ events' = events /\ job' = job /\ view' = view /\ startable' = startable
      /\ intent' = intent /\ settingsRead' = settingsRead /\ blind' = blind
      /\ start' = start /\ starts' = starts
  BY DEF Fails, storage, starting
<1>2. press' \in [Presses -> PressRecords] /\ \A j \in Presses : j # i => press'[j] = press[j]
  BY <1>1, Settles DEF Typed
<1>3. /\ answer' \in [Presses -> {"none", "ok", "refused"}]
      /\ \A j \in Presses : answer'[j] = answer[j] \/ answer'[j] = "none"
      /\ \A j \in Presses : j # i => answer'[j] = answer[j]
  BY DEF Typed
<1>4. Asked'
  BY <1>1, <1>3 DEF Asked
<1>5. CASE i = intent
  <2>0. TakesBack(i) /\ reads' = [reads EXCEPT ![i] = "asked"]
    BY <1>5 DEF Fails
  <2>1. card' \in BOOLEAN /\ reads' = [reads EXCEPT ![i] = "asked"]
    <3>1. CASE press[i].restores = {}
      BY <2>0, <3>1 DEF TakesBack, Typed
    <3>2. CASE press[i].restores # {}
      <4>1. card' = (TRUE \in press[i].restores)
        BY <2>0, <3>2 DEF TakesBack
      <4> QED BY <4>1, <2>0
    <3> QED BY <3>1, <3>2
  <2>2. i \in 0..MaxPresses
    BY DEF Presses
  <2>3. reads' \in [0..MaxPresses -> ReadStages] /\ reads'[i] = "asked"
    BY <2>1, <2>2 DEF Typed, ReadStages
  <2>4. ~Informed'
    BY <2>2, <2>3 DEF Informed
  <2>5. Typed'
    BY <1>1, <1>2, <1>3, <2>1, <2>3 DEF Typed
  <2>6. /\ "asked" \in ReadsOff'
        /\ "yes" \in ReadsOff' => "yes" \in ReadsOff
        /\ "no" \in ReadsOff' => "no" \in ReadsOff
    BY <2>1, <2>2, <2>3 DEF ReadsOff, Typed
  <2>7. FollowsStorage'
    BY <2>6, <1>1 DEF FollowsStorage, Follows, Tells, NoWord
  <2>8. Justified' /\ Drawn'
    BY <2>4, <1>1 DEF Justified, Drawn, Open, Busy
  <2> QED BY <2>5, <2>7, <2>8, <1>4
<1>6. CASE i # intent
  <2>1. card' = card /\ reads' = reads
    BY <1>6 DEF Fails
  <2>2. Typed'
    BY <1>1, <1>2, <1>3, <2>1 DEF Typed
  <2>3. FollowsStorage'
    BY <1>1, <2>1, StorageLeft
  <2>4. intent \in Presses => press'[intent] = press[intent] /\ answer'[intent] = answer[intent]
    BY <1>2, <1>3, <1>6
  <2>5. Informed' = Informed
    BY <1>1, <2>1 DEF Informed
  <2>6. Justified' /\ Drawn'
    BY <1>1, <2>1, <2>4, <2>5 DEF Justified, Drawn, Open, Busy, UnderWay
  <2> QED BY <2>2, <2>3, <2>6, <1>4
<1> QED BY <1>5, <1>6

\* An answer settles its press; what was done as it was asked needs no drawing.
LEMMA AnswerKeeps ==
    ASSUME IInv, NEW i \in Presses, Answered(i)
    PROVE  IInv'
<1> USE DEF IInv
<1>0. answer' = [answer EXCEPT ![i] = "none"] /\ answer[i] # "none"
  BY DEF Answered
<1>1. CASE press[i].waiting /\ answer[i] = "refused"
  <2>1. Fails(i)
    BY <1>1 DEF Answered
  <2> QED BY <2>1, <1>0, FailsKeeps
<1>2. CASE ~(press[i].waiting /\ answer[i] = "refused")
  <2>1. /\ Settle(i)
        /\ stored' = stored /\ events' = events /\ job' = job /\ view' = view /\ card' = card
        /\ startable' = startable /\ intent' = intent /\ reads' = reads
        /\ settingsRead' = settingsRead /\ blind' = blind /\ start' = start /\ starts' = starts
    BY <1>2 DEF Answered, storage, starting
  <2>2. press' \in [Presses -> PressRecords] /\ \A j \in Presses : j # i => press'[j] = press[j]
    BY <2>1, Settles DEF Typed
  <2>3. /\ answer' \in [Presses -> {"none", "ok", "refused"}]
        /\ \A j \in Presses : answer'[j] = answer[j] \/ answer'[j] = "none"
        /\ \A j \in Presses : j # i => answer'[j] = answer[j]
    BY <1>0 DEF Typed
  <2>4. Typed' /\ Asked'
    BY <2>1, <2>2, <2>3 DEF Typed, Asked
  <2>5. FollowsStorage'
    BY <2>1, StorageLeft
  <2>6. Informed' = Informed
    BY <2>1 DEF Informed
  <2>7. ASSUME Informed, card # Effective(view)
        PROVE  i # intent
    <3>1. SUFFICES ASSUME i = intent PROVE FALSE
      OBVIOUS
    <3>2. press[i].waiting /\ UnderWay(i)
      BY <2>7, <3>1 DEF Justified
    <3>3. job[i] = "done" /\ answer[i] # "refused"
      BY <3>2, <1>0, <1>2 DEF Asked
    <3> QED BY <3>2, <3>3 DEF UnderWay
  <2>8. Justified'
    BY <2>1, <2>2, <2>3, <2>6, <2>7 DEF Justified, UnderWay
  <2>9. Drawn'
    BY <2>1, <2>6 DEF Drawn, Open, Busy
  <2> QED BY <2>4, <2>5, <2>8, <2>9
<1> QED BY <1>1, <1>2

-----------------------------------------------------------------------------
(* Reads and change events *)

\* Whatever draws the cards leaves the helper card and the start card true to
\* the view.
LEMMA Redraws ==
    ASSUME Open, card' = Effective(view'), startable' = (Effective(view') /\ ~Busy'), Open'
    PROVE  Justified' /\ Drawn'
BY DEF Justified, Drawn

\* A step of the reads and events that draws, or leaves the popup uninformed.
LEMMA ReadStep ==
    ASSUME IInv, Open, UNCHANGED <<stored, worker, pressing, starting>>,
           events' \in Seq(Events), view' \in [Keys -> BOOLEAN], blind' \subseteq Keys,
           reads' \in [0..MaxPresses -> ReadStages], settingsRead' \in ReadStages,
           FollowsStorage',
           \/ RenderEffective(view')
           \/ ~Informed' /\ UNCHANGED <<view, card, startable>>
    PROVE  IInv'
<1> USE DEF IInv
<1>0. /\ stored' = stored /\ job' = job /\ answer' = answer /\ intent' = intent /\ press' = press
      /\ start' = start /\ starts' = starts
  BY DEF worker, pressing, starting
<1>1. Asked'
  BY <1>0 DEF Asked
<1>2. Open' /\ Busy' = Busy
  BY <1>0 DEF Open, Busy
<1>3. CASE RenderEffective(view')
  <2>1. card' = Effective(view') /\ startable' = (Effective(view') /\ ~Busy)
    BY <1>3 DEF RenderEffective, RenderWhile
  <2>2. Justified' /\ Drawn'
    BY <2>1, <1>2, Redraws
  <2>3. card' \in BOOLEAN /\ startable' \in BOOLEAN
    BY <2>1 DEF Effective
  <2>4. Typed'
    BY <2>3, <1>0 DEF Typed
  <2> QED BY <2>2, <2>4, <1>1
<1>4. CASE ~Informed' /\ UNCHANGED <<view, card, startable>>
  <2>1. Typed'
    BY <1>0, <1>4 DEF Typed
  <2>2. Justified' /\ Drawn'
    BY <1>2, <1>4 DEF Justified, Drawn
  <2> QED BY <2>1, <2>2, <1>1
<1> QED BY <1>3, <1>4

\* Every read of the helper key, of the settings, and every event.
LEMMA ReadsKeep ==
    ASSUME IInv, Open, NEW i \in 0..MaxPresses, ServeRead(i) \/ ReceiveRead(i) \/ ReadFails(i)
    PROVE  IInv'
<1>0. Typed /\ FollowsStorage
  BY DEF IInv
<1>1. CASE ServeRead(i)
  <2>0. /\ reads[i] = "asked" /\ reads' = [reads EXCEPT ![i] = Said(stored.off)]
        /\ stored' = stored /\ events' = events /\ view' = view /\ settingsRead' = settingsRead
        /\ blind' = blind /\ UNCHANGED <<stored, worker, pressing, starting, view, card, startable>>
    BY <1>1 DEF ServeRead, storage
  <2>1. reads' \in [0..MaxPresses -> ReadStages] /\ reads'[i] # "none"
    BY <2>0, <1>0 DEF Typed, ReadStages, Said
  <2>2. ~Informed'
    BY <2>1 DEF Informed
  <2>3. /\ ~(ReadsOff' \subseteq {"none"})
        /\ "yes" \in ReadsOff' => "yes" \in ReadsOff \/ stored["off"]
        /\ "no" \in ReadsOff' => "no" \in ReadsOff \/ ~stored["off"]
    BY <2>0, <2>1, <1>0 DEF ReadsOff, Typed, Said
  <2>4. FollowsStorage'
    BY <2>0, <2>3, <1>0 DEF FollowsStorage, Follows, Tells, NoWord
  <2> QED BY <2>0, <2>1, <2>2, <2>4, <1>0, ReadStep DEF Typed
<1>2. CASE ReceiveRead(i)
  <2> DEFINE seen == [view EXCEPT !.off = (reads[i] = "yes")]
  <2>0. /\ reads[i] \in {"yes", "no"} /\ reads' = [reads EXCEPT ![i] = "none"]
        /\ stored' = stored /\ events' = events /\ settingsRead' = settingsRead
        /\ blind' = blind \ {"off"} /\ RenderEffective(seen)
        /\ UNCHANGED <<stored, worker, pressing, starting>>
    BY <1>2 DEF ReceiveRead, storage
  <2>1. reads' \in [0..MaxPresses -> ReadStages]
    BY <2>0, <1>0 DEF Typed, ReadStages
  <2>2. view' = seen
    BY <2>0 DEF RenderEffective
  <2>3. view' \in [Keys -> BOOLEAN] /\ view'["enabled"] = view["enabled"]
        /\ view'["off"] = (reads[i] = "yes")
    BY <2>2, <1>0 DEF Typed, Keys
  <2>4. reads[i] \in ReadsOff
    BY DEF ReadsOff
  <2>5. /\ "yes" \in ReadsOff' => "yes" \in ReadsOff
        /\ "no" \in ReadsOff' => "no" \in ReadsOff
    BY <2>0, <1>0 DEF ReadsOff, Typed
  <2>6. NoWord(events, "off") => view'["off"] = stored["off"]
    <3>1. stored["off"] \in BOOLEAN
      BY <1>0 DEF Typed, Keys
    <3> QED BY <3>1, <2>0, <2>3, <2>4, <1>0 DEF FollowsStorage, Follows
  <2>7. FollowsStorage'
    <3>1. Follows("off", events, stored["off"], view'["off"], ReadsOff', "off" \in blind')
      BY <2>5, <2>6, <1>0 DEF FollowsStorage, Follows
    <3>2. Follows("enabled", events, stored["enabled"], view'["enabled"], {settingsRead}, "enabled" \in blind')
      BY <2>0, <2>3, <1>0 DEF FollowsStorage, Follows
    <3> QED BY <3>1, <3>2, <2>0 DEF FollowsStorage
  <2>8. RenderEffective(view')
    BY <2>0, <2>2 DEF RenderEffective, RenderWhile
  <2>9. blind' \subseteq Keys /\ events' \in Seq(Events) /\ settingsRead' \in ReadStages
    BY <2>0, <1>0 DEF Typed
  <2> HIDE DEF seen
  <2> QED BY <2>0, <2>1, <2>3, <2>7, <2>8, <2>9, ReadStep
<1>3. CASE ReadFails(i)
  <2>0. /\ reads[i] = "asked" /\ reads' = [reads EXCEPT ![i] = "none"]
        /\ stored' = stored /\ events' = events /\ view' = view /\ settingsRead' = settingsRead
        /\ blind' = blind \cup {"off"}
        /\ UNCHANGED <<stored, worker, pressing, starting, view, card, startable>>
    BY <1>3 DEF ReadFails, storage
  <2>1. reads' \in [0..MaxPresses -> ReadStages]
    BY <2>0, <1>0 DEF Typed, ReadStages
  <2>2. ~Informed'
    BY <2>0 DEF Informed
  <2>3. /\ "yes" \in ReadsOff' => "yes" \in ReadsOff
        /\ "no" \in ReadsOff' => "no" \in ReadsOff
    BY <2>0, <1>0 DEF ReadsOff, Typed
  <2>4. FollowsStorage'
    BY <2>0, <2>3, <1>0 DEF FollowsStorage, Follows, Tells, NoWord
  <2>5. blind' \subseteq Keys
    BY <2>0, <1>0 DEF Typed, Keys
  <2> QED BY <2>0, <2>1, <2>2, <2>4, <2>5, <1>0, ReadStep DEF Typed
<1> QED BY <1>1, <1>2, <1>3

\* The one read of the settings.
LEMMA SettingsKeep ==
    ASSUME IInv, Open, ServeSettings \/ ReceiveSettings \/ SettingsReadFails
    PROVE  IInv'
<1>0. Typed /\ FollowsStorage
  BY DEF IInv
<1>1. CASE ServeSettings
  <2>0. /\ settingsRead = "asked" /\ settingsRead' = Said(stored.enabled)
        /\ stored' = stored /\ events' = events /\ view' = view /\ reads' = reads
        /\ blind' = blind /\ UNCHANGED <<stored, worker, pressing, starting, view, card, startable>>
    BY <1>1 DEF ServeSettings, storage
  <2>1. settingsRead' \in ReadStages /\ settingsRead' # "none"
        /\ (settingsRead' = "yes" => stored["enabled"]) /\ (settingsRead' = "no" => ~stored["enabled"])
    BY <2>0 DEF ReadStages, Said
  <2>2. ~Informed' /\ ReadsOff' = ReadsOff
    BY <2>0, <2>1 DEF Informed, ReadsOff
  <2>4. FollowsStorage'
    BY <2>0, <2>1, <2>2, <1>0 DEF FollowsStorage, Follows, Tells, NoWord
  <2> QED BY <2>0, <2>1, <2>2, <2>4, <1>0, ReadStep DEF Typed
<1>2. CASE ReceiveSettings
  <2> DEFINE seen == [view EXCEPT !.enabled = (settingsRead = "yes")]
  <2>0. /\ settingsRead \in {"yes", "no"} /\ settingsRead' = "none"
        /\ stored' = stored /\ events' = events /\ reads' = reads
        /\ blind' = blind /\ RenderEffective(seen)
        /\ UNCHANGED <<stored, worker, pressing, starting>>
    BY <1>2 DEF ReceiveSettings, storage
  <2>1. settingsRead' \in ReadStages /\ ReadsOff' = ReadsOff
    BY <2>0 DEF ReadStages, ReadsOff
  <2>2. view' = seen
    BY <2>0 DEF RenderEffective
  <2>3. view' \in [Keys -> BOOLEAN] /\ view'["off"] = view["off"]
        /\ view'["enabled"] = (settingsRead = "yes")
    BY <2>2, <1>0 DEF Typed, Keys
  <2>6. NoWord(events, "enabled") => view'["enabled"] = stored["enabled"]
    <3>1. stored["enabled"] \in BOOLEAN
      BY <1>0 DEF Typed, Keys
    <3> QED BY <3>1, <2>0, <2>3, <1>0 DEF FollowsStorage, Follows
  <2>7. FollowsStorage'
    <3>1. Follows("off", events, stored["off"], view'["off"], ReadsOff', "off" \in blind')
      BY <2>0, <2>1, <2>3, <1>0 DEF FollowsStorage
    <3>2. Follows("enabled", events, stored["enabled"], view'["enabled"], {settingsRead'}, "enabled" \in blind')
      BY <2>0, <2>6, <1>0 DEF FollowsStorage, Follows
    <3> QED BY <3>1, <3>2, <2>0 DEF FollowsStorage
  <2>8. RenderEffective(view')
    BY <2>0, <2>2 DEF RenderEffective, RenderWhile
  <2> HIDE DEF seen
  <2> QED BY <2>0, <2>1, <2>3, <2>7, <2>8, <1>0, ReadStep DEF Typed
<1>3. CASE SettingsReadFails
  <2>0. /\ settingsRead = "asked" /\ settingsRead' = "none"
        /\ stored' = stored /\ events' = events /\ view' = view /\ reads' = reads
        /\ blind' = blind \cup {"enabled"}
        /\ UNCHANGED <<stored, worker, pressing, starting, view, card, startable>>
    BY <1>3 DEF SettingsReadFails, storage
  <2>1. settingsRead' \in ReadStages /\ ReadsOff' = ReadsOff /\ ~Informed'
    BY <2>0 DEF ReadStages, ReadsOff, Informed
  <2>4. FollowsStorage'
    BY <2>0, <2>1, <1>0 DEF FollowsStorage, Follows, Tells, NoWord
  <2>5. blind' \subseteq Keys
    BY <2>0, <1>0 DEF Typed, Keys
  <2> QED BY <2>0, <2>1, <2>4, <2>5, <1>0, ReadStep DEF Typed
<1> QED BY <1>1, <1>2, <1>3

\* An event that arrives.
LEMMA EventKeeps ==
    ASSUME IInv, Open, ReceiveEvent
    PROVE  IInv'
<1>0. Typed /\ FollowsStorage
  BY DEF IInv
<1> DEFINE e == Head(events)
<1>1. events \in Seq(Events) /\ events # <<>> /\ e \in Events
  BY <1>0 DEF Typed, ReceiveEvent
<1>2. e.key \in Keys /\ e.value \in BOOLEAN
  BY <1>1 DEF Events
<1> DEFINE seen == [view EXCEPT ![e.key] = e.value]
<1>3. /\ events' = Tail(events) /\ blind' = blind \ {e.key} /\ RenderEffective(seen)
      /\ DropReads(e.key) /\ stored' = stored
      /\ UNCHANGED <<stored, worker, pressing, starting>>
  BY DEF ReceiveEvent
<1>4. view' = seen
  BY <1>3 DEF RenderEffective
<1> HIDE DEF e
<1>5. /\ view' \in [Keys -> BOOLEAN] /\ view'[e.key] = e.value
      /\ \A k \in Keys : k # e.key => view'[k] = view[k]
  BY <1>2, <1>4, <1>0 DEF Typed
<1>6. events' \in Seq(Events) /\ blind' \subseteq Keys
  BY <1>1, <1>3, <1>0 DEF Typed
<1>7. reads' \in [0..MaxPresses -> ReadStages] /\ settingsRead' \in ReadStages
  BY <1>3, <1>0 DEF DropReads, Typed, ReadStages
<1>8. Follows("off", events', stored["off"], view'["off"], ReadsOff', "off" \in blind')
  <2> DEFINE unread == "off" \in blind
  <2>1. /\ "off" \in Keys /\ stored["off"] \in BOOLEAN /\ view["off"] \in BOOLEAN /\ unread \in BOOLEAN
        /\ Follows("off", events, stored["off"], view["off"], ReadsOff, unread)
    BY <1>0 DEF Typed, Keys, FollowsStorage
  <2> HIDE DEF unread
  <2>2. /\ e.key = "off" => Follows("off", Tail(events), stored["off"], e.value, {"none"}, FALSE)
        /\ e.key # "off" => Follows("off", Tail(events), stored["off"], view["off"], ReadsOff, unread)
    BY <2>1, <1>1, FollowsEvent DEF e
  <2>3. CASE e.key = "off"
    <3>1. ReadsOff' \subseteq {"none"} /\ ~("off" \in blind')
      BY <1>3, <2>3 DEF DropReads, ReadsOff
    <3>2. ~("yes" \in ReadsOff') /\ ~("no" \in ReadsOff')
      BY <3>1
    <3>3. Follows("off", events', stored["off"], e.value, {"none"}, FALSE) /\ view'["off"] = e.value
      BY <2>2, <2>3, <1>3, <1>5
    <3> QED BY <3>1, <3>2, <3>3 DEF Follows
  <2>4. CASE e.key # "off"
    <3>1. reads' = reads /\ (("off" \in blind') <=> unread)
      BY <1>3, <2>4 DEF DropReads, unread
    <3>2. ReadsOff' = ReadsOff /\ view'["off"] = view["off"]
      BY <3>1, <1>5, <2>1, <2>4 DEF ReadsOff
    <3> QED BY <3>1, <3>2, <2>2, <2>4, <1>3 DEF Follows
  <2> QED BY <2>3, <2>4
<1>9. Follows("enabled", events', stored["enabled"], view'["enabled"], {settingsRead'}, "enabled" \in blind')
  <2> DEFINE unread == "enabled" \in blind
  <2>1. /\ "enabled" \in Keys /\ stored["enabled"] \in BOOLEAN /\ view["enabled"] \in BOOLEAN
        /\ unread \in BOOLEAN
        /\ Follows("enabled", events, stored["enabled"], view["enabled"], {settingsRead}, unread)
    BY <1>0 DEF Typed, Keys, FollowsStorage
  <2> HIDE DEF unread
  <2>2. /\ e.key = "enabled" => Follows("enabled", Tail(events), stored["enabled"], e.value, {"none"}, FALSE)
        /\ e.key # "enabled" => Follows("enabled", Tail(events), stored["enabled"], view["enabled"], {settingsRead}, unread)
    BY <2>1, <1>1, FollowsEvent DEF e
  <2>3. CASE e.key = "enabled"
    <3>1. settingsRead' = "none" /\ ~("enabled" \in blind')
      BY <1>3, <2>3 DEF DropReads
    <3>3. Follows("enabled", events', stored["enabled"], e.value, {"none"}, FALSE) /\ view'["enabled"] = e.value
      BY <2>2, <2>3, <1>3, <1>5
    <3> QED BY <3>1, <3>3 DEF Follows
  <2>4. CASE e.key # "enabled"
    <3>1. settingsRead' = settingsRead /\ (("enabled" \in blind') <=> unread)
      BY <1>2, <1>3, <2>4 DEF DropReads, unread, Keys
    <3>2. view'["enabled"] = view["enabled"]
      BY <1>5, <2>1, <2>4
    <3> QED BY <3>1, <3>2, <2>2, <2>4, <1>3 DEF Follows
  <2> QED BY <2>3, <2>4
<1>10. FollowsStorage'
  BY <1>8, <1>9, <1>3 DEF FollowsStorage
<1>11. RenderEffective(view')
  BY <1>3, <1>4 DEF RenderEffective, RenderWhile
<1> HIDE DEF seen
<1> QED BY <1>3, <1>5, <1>6, <1>7, <1>10, <1>11, ReadStep

-----------------------------------------------------------------------------
(* startActivity *)

\* A start draws the card on its way out, and closes over a running helper.
LEMMA StartKeeps ==
    ASSUME IInv, Open, Starting
    PROVE  IInv'
<1> USE DEF IInv
<1>0. /\ stored' = stored /\ events' = events /\ job' = job /\ answer' = answer /\ intent' = intent
      /\ press' = press /\ reads' = reads /\ settingsRead' = settingsRead /\ blind' = blind
      /\ view' = view
  BY DEF Starting, PressStart, TabFound, Connected, SettingsChanged, TabActivated, Begun,
         StartFails, StartCalledOff, StartLeaves, Goes, others, storage, worker, pressing
<1>1. Asked' /\ FollowsStorage' /\ Informed' = Informed
  <2>1. FollowsStorage'
    BY <1>0, StorageLeft
  <2> QED BY <1>0, <2>1 DEF Asked, Informed
<1>2. CASE StartLeaves
  <2>1. start' = "idle" /\ card' = Effective(view') /\ startable' = (Effective(view') /\ ~FALSE)
        /\ starts' = starts
    BY <1>0, <1>2 DEF StartLeaves, RenderWhile
  <2>2. Open' /\ ~Busy'
    BY <2>1 DEF Open, Busy
  <2>3. Justified' /\ Drawn'
    BY <2>1, <2>2, Redraws
  <2>4. card' \in BOOLEAN /\ startable' \in BOOLEAN
    BY <2>1 DEF Effective
  <2>5. Typed'
    BY <2>1, <2>4, <1>0 DEF Typed
  <2> QED BY <2>3, <2>5, <1>1
<1>3. CASE PressStart
  <2>1. card' = card /\ start' = "tab" /\ startable' = FALSE /\ starts' = starts + 1
    BY <1>3 DEF PressStart
  <2>2. Typed'
    <3>1. Typed /\ starts' \in Nat
      BY <2>1 DEF Typed
    <3>2. startable' \in BOOLEAN
      BY <2>1
    <3> QED BY <3>1, <3>2, <2>1, <1>0 DEF Typed
  <2>3. Justified'
    BY <2>1, <1>0, <1>1 DEF Justified, UnderWay
  <2>4. Open' /\ Busy'
    BY <2>1 DEF Open, Busy
  <2> QED BY <2>1, <2>2, <2>3, <2>4, <1>1 DEF Drawn
<1>4. CASE TabFound \/ Connected \/ SettingsChanged \/ TabActivated \/ Begun
  <2>1. card' = card /\ startable' = startable /\ starts' = starts /\ Busy
    BY <1>4 DEF TabFound, Connected, SettingsChanged, TabActivated, Begun, Goes, Busy
  <2>2. Typed'
    BY <2>1, <1>0 DEF Typed
  <2>3. Justified'
    BY <2>1, <1>0, <1>1 DEF Justified, UnderWay
  <2>4. ~Open' => Effective(view)
    BY <1>4 DEF TabFound, Connected, SettingsChanged, TabActivated, Begun, Goes, Current, Open
  <2>5. Open' => Busy'
    BY <1>4 DEF TabFound, Connected, SettingsChanged, TabActivated, Begun, Goes, Open, Busy
  <2>6. Drawn'
    BY <2>1, <2>4, <2>5, <1>0 DEF Drawn
  <2> QED BY <2>2, <2>3, <2>6, <1>1
<1> QED BY <1>2, <1>3, <1>4 DEF Starting, StartFails, StartCalledOff

-----------------------------------------------------------------------------
(* The theorems *)

\* The initial states.
LEMMA InitHolds == Init => IInv
<1> SUFFICES ASSUME Init PROVE IInv
  OBVIOUS
<1>1. view \in [Keys -> BOOLEAN] /\ Effective(view)
  <2>1. view = [off |-> FALSE, enabled |-> TRUE]
    BY DEF Init
  <2>2. view \in [off : BOOLEAN, enabled : BOOLEAN]
    BY <2>1
  <2>3. view \in [Keys -> BOOLEAN]
    BY <2>2 DEF Keys
  <2>4. Effective(view)
    BY <2>1 DEF Effective
  <2> QED BY <2>3, <2>4
<1>2. events \in Seq(Events) /\ Len(events) = 0
  BY DEF Init
<1>3. Typed
  <2>1. press \in [Presses -> PressRecords]
    BY DEF Init, PressRecords, NoPress
  <2>2. job \in [Presses -> {"none", "queued", "half", "done"}]
        /\ answer \in [Presses -> {"none", "ok", "refused"}]
    BY DEF Init
  <2>3. reads \in [0..MaxPresses -> ReadStages] /\ settingsRead \in ReadStages
    BY DEF Init, ReadStages
  <2> QED BY <2>1, <2>2, <2>3, <1>1, <1>2 DEF Init, Typed
<1>4. Asked
  BY DEF Init, Asked
<1>5. FollowsStorage
  <2>1. 0 \in 0..MaxPresses
    BY PopupBounds
  <2>2. "asked" \in ReadsOff /\ ~("yes" \in ReadsOff) /\ ~("no" \in ReadsOff)
    BY <2>1 DEF Init, ReadsOff
  <2>3. settingsRead = "asked"
    BY DEF Init
  <2>4. \A k, v : Tells(events, k, v)
    BY <1>2 DEF Tells
  <2>5. Follows("off", events, stored["off"], view["off"], ReadsOff, "off" \in blind)
    BY <2>2, <2>4 DEF Follows
  <2>6. Follows("enabled", events, stored["enabled"], view["enabled"], {settingsRead}, "enabled" \in blind)
    BY <2>3, <2>4 DEF Follows
  <2> QED BY <2>5, <2>6 DEF FollowsStorage
<1>6. Justified /\ Drawn
  BY <1>1 DEF Init, Justified, Drawn, Open, Busy
<1> QED BY <1>3, <1>4, <1>5, <1>6 DEF IInv

\* Every step keeps the invariant.
LEMMA StepKeeps == IInv /\ [Next]_vars => IInv'
<1> SUFFICES ASSUME IInv, [Next]_vars PROVE IInv'
  OBVIOUS
<1>1. CASE UNCHANGED vars
  <2>1. IInv' = IInv
    BY <1>1 DEF vars, storage, worker, starting, IInv, Typed, Asked, FollowsStorage, Justified, Drawn,
               Follows, Tells, NoWord, ReadsOff, UnderWay, Informed, Open, Busy, Effective
  <2> QED BY <2>1
<1>2. ASSUME Open, NEW i \in Presses,
             WorkerStops(i) \/ WorkerEnables(i) \/ WorkerReleases(i) \/ WorkerRefuses(i)
      PROVE  IInv'
  BY <1>2, WorkerKeeps
<1>3. ASSUME NEW i \in Presses, WorkerFollows(i) PROVE IInv'
  <2>1. "enabled" \in Keys /\ FALSE \in BOOLEAN /\ Store("enabled", FALSE) /\ UNCHANGED <<worker, popup>>
    BY <1>3 DEF Keys, WorkerFollows
  <2> QED BY <2>1, ElsewhereKeeps
<1>4. ASSUME NEW i \in Presses, Answered(i) PROVE IInv'
  BY <1>4, AnswerKeeps
<1>5. ASSUME NEW i \in Presses, TimesOut(i) PROVE IInv'
  <2>1. Fails(i) /\ answer' = answer
    BY <1>5 DEF TimesOut
  <2> QED BY <2>1, FailsKeeps
<1>6. ASSUME ChangedElsewhere PROVE IInv'
  <2>1. PICK k \in Keys : Store(k, ~stored[k]) /\ UNCHANGED <<worker, popup>>
    BY <1>6 DEF ChangedElsewhere
  <2>2. PICK v \in BOOLEAN : v = ~stored[k]
    OBVIOUS
  <2>3. Store(k, v)
    BY <2>1, <2>2
  <2> QED BY <2>1, <2>3, ElsewhereKeeps
<1>7. ASSUME PressHelper \/ PressStop PROVE IInv'
  BY <1>7, PressKeeps
<1>8. ASSUME Open, NEW i \in 0..MaxPresses, ServeRead(i) \/ ReceiveRead(i) \/ ReadFails(i) PROVE IInv'
  BY <1>8, ReadsKeep
<1>9. ASSUME Open, ServeSettings \/ ReceiveSettings \/ SettingsReadFails PROVE IInv'
  BY <1>9, SettingsKeep
<1>10. ASSUME Open, ReceiveEvent PROVE IInv'
  BY <1>10, EventKeeps
<1>11. ASSUME Open, Starting PROVE IInv'
  BY <1>11, StartKeeps
<1> QED
  BY <1>1, <1>2, <1>3, <1>4, <1>5, <1>6, <1>7, <1>8, <1>9, <1>10, <1>11 DEF Next

\* The popup's state has its type, every view that is behind has its news on the
\* way, and every card that differs has its press under way.
THEOREM PanelFollows == Spec => []IInv
<1>1. Init => IInv
  BY InitHolds
<1>2. IInv /\ [Next]_vars => IInv'
  BY StepKeeps
<1> QED BY <1>1, <1>2, PTL DEF Spec

\* Once the answers and the news are in, the cards say what is stored, whichever
\* presses failed, reads came late and starts went on in between (main.ts, WR-05).
THEOREM PanelTrue == Spec => []PanelIsTrue
<1>1. IInv => PanelIsTrue
  <2> SUFFICES ASSUME IInv, Open, Informed, Answerless
               PROVE  card = Effective(stored) /\ startable = (Effective(stored) /\ ~Busy)
    BY DEF PanelIsTrue
  <2>1. Effective(view) = Effective(stored)
    BY InformedView DEF IInv
  <2>2. card = Effective(view)
    BY DEF IInv, Justified, Answerless
  <2>3. startable = (Effective(view) /\ ~Busy)
    BY DEF IInv, Drawn
  <2> QED BY <2>1, <2>2, <2>3
<1> QED BY <1>1, PanelFollows, PTL

\* A start closes an informed popup over a helper that is on, whatever was pressed
\* or changed during its awaits (main.ts, startActivity).
THEOREM ClosesTrue == Spec => []ClosesOverARunningHelper
<1>1. IInv => ClosesOverARunningHelper
  <2> SUFFICES ASSUME IInv, start = "closed", Informed PROVE Effective(stored)
    BY DEF ClosesOverARunningHelper
  <2>1. Effective(view)
    BY DEF IInv, Drawn, Open
  <2> QED BY <2>1, InformedView DEF IInv
<1> QED BY <1>1, PanelFollows, PTL

=============================================================================
