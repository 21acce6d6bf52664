---------------------------- MODULE StorageWriter ----------------------------
(***************************************************************************)
(* The single writer of chrome.storage (worker/storage-writer.ts): every   *)
(* change of a stored entry is a task of one queue, which reads the entry, *)
(* waits for a slot under the browser's quota of synchronised writes and   *)
(* writes the entry back.  Switching a site off and on again quickly is    *)
(* merged, per site, in front of that queue.                               *)
(*                                                                         *)
(* Abstractions.  A key is a site or the settings entry; a patch of the    *)
(* settings changes one field.  A schema error, an item over 8 KB and a    *)
(* write the browser rejects are refusals that may happen at will.         *)
(* Turning the helper off and on is the matter of HelperSafety; here its   *)
(* writes are patches like others.  Time is one event, the oldest write of *)
(* the last minute drops out of it; the writer's list of slots is how many *)
(* of the last minute it remembers.  What is counted is the call of        *)
(* sync.set, which follows the slot at once.                               *)
(***************************************************************************)
EXTENDS AtomicStore, Sequences

CONSTANTS Settings,     \* the key of the settings entry
          SiteField,    \* the field of a site's entry that is changed
          SYNC_WRITE_LIMIT,
          MaxFaults     \* bound on worker restarts and edits by another computer

ASSUME WriterAssumption == /\ Settings \in Keys /\ SiteField \in Fields
                           /\ SYNC_WRITE_LIMIT \in Nat \ {0}
                           /\ MaxFaults \in Nat

VARIABLES queue,           \* the tasks, the first one running
          stage,           \* where the running task is
          base,            \* the entry it has read
          sites,           \* siteWriteQueues
          writeTimestamps, \* slots of the last minute that the writer remembers
          issued,          \* history: writes of the last minute
          restarts, edits

entries == <<store, seen>>
requests == <<asked, status>>
running == <<queue, stage, base>>
quota == <<writeTimestamps, issued>>
allVars == <<entries, requests, running, sites, quota, restarts, edits>>

Sites == Keys \ {Settings}
Task == [key : Keys, batch : SUBSET Requests]
NoSite == [pending |-> 0, writing |-> FALSE, waiters |-> {}]

WriterInit == /\ Init
              /\ queue = <<>> /\ stage = "read" /\ base = Absent
              /\ sites = [s \in Sites |-> NoSite]
              /\ writeTimestamps = 0 /\ issued = 0
              /\ restarts = 0 /\ edits = 0

-----------------------------------------------------------------------------
(* Requests *)

Requested(r, request) ==
    /\ status[r] = "idle" /\ \A q \in Requests : q < r => status[q] # "idle"
    /\ asked' = [asked EXCEPT ![r] = request]
    /\ status' = [status EXCEPT ![r] = "asked"]

\* setSiteDisabled: join the write that waits, or start one.
SetSiteDisabled(r, s, value) ==
    /\ Requested(r, [key |-> s, field |-> SiteField, value |-> value])
    /\ IF sites[s].writing
       THEN /\ sites' = [sites EXCEPT ![s].pending = r, ![s].waiters = @ \cup {r}]
            /\ UNCHANGED queue
       ELSE /\ sites' = [sites EXCEPT ![s].writing = TRUE]
            /\ queue' = Append(queue, [key |-> s, batch |-> {r}])
    /\ UNCHANGED <<entries, stage, base, quota, restarts, edits>>

UpdateSettings(r, field, value) ==
    /\ Requested(r, [key |-> Settings, field |-> field, value |-> value])
    /\ queue' = Append(queue, [key |-> Settings, batch |-> {r}])
    /\ UNCHANGED <<entries, stage, base, sites, quota, restarts, edits>>

-----------------------------------------------------------------------------
(* The running task *)

Running(s) == queue # <<>> /\ stage = s
Change == asked[Newest(Head(queue).batch)]

\* Keeping only the last of those who joined
JoinedLast(site) == {site.pending}
Joined(site) == site.waiters

\* The task ends; a site's writer goes on with what has joined meanwhile.
Finish(answer) ==
    LET task == Head(queue)
        site == sites[task.key]
    IN /\ Told(task.batch, answer)
       /\ IF task.key = Settings
          THEN queue' = Tail(queue) /\ UNCHANGED sites
          ELSE IF site.pending # 0
          THEN /\ sites' = [sites EXCEPT ![task.key] = [NoSite EXCEPT !.writing = TRUE]]
               /\ queue' = Append(Tail(queue), [key |-> task.key, batch |-> Joined(site)])
          ELSE /\ sites' = [sites EXCEPT ![task.key] = NoSite]
               /\ queue' = Tail(queue)
       /\ stage' = "read" /\ base' = Absent
       /\ UNCHANGED <<entries, asked, quota, restarts, edits>>

Goes(s) == stage' = s /\ UNCHANGED <<requests, queue, sites, restarts, edits>>

\* Starting from the defaults, whatever is stored
ReadDefaults ==
    /\ Running("read")
    /\ base' = [Absent EXCEPT !.state = "entry"] /\ Goes("slot") /\ UNCHANGED <<entries, quota>>

\* A corrupt entry is kept as it is; a missing settings entry is created first.
Read ==
    /\ Running("read") /\ store[Head(queue).key] # Corrupt
    /\ base' = store[Head(queue).key]
    /\ Goes(IF base' = Absent /\ Head(queue).key = Settings THEN "slotToCreate" ELSE "slot")
    /\ UNCHANGED <<entries, quota>>

\* waitForSyncWriteSlot
TakeSlot ==
    /\ Running("slot") \/ Running("slotToCreate")
    /\ writeTimestamps < SYNC_WRITE_LIMIT
    /\ writeTimestamps' = writeTimestamps + 1
    /\ issued' = issued + 1
    /\ Goes(IF stage = "slot" THEN "set" ELSE "create") /\ UNCHANGED <<entries, base>>

Put(entry) == /\ store' = [store EXCEPT ![Head(queue).key] = entry]
              /\ seen' = [seen EXCEPT ![Head(queue).key] = {entry}]

SetLands ==
    /\ Running("set")
    /\ Put(Changed(base, Change))
    /\ Goes("landed") /\ UNCHANGED <<base, quota>>

CreateLands ==
    /\ Running("create")
    /\ base' = [Absent EXCEPT !.state = "entry"] /\ Put(base')
    /\ \E next \in {"slot", "invalid"} : Goes(next)
    /\ UNCHANGED quota

Answer == Running("landed") /\ Finish("done")

\* A bad entry, a bad patch or an item too large; a write the browser rejects
Refusing == Running("read") \/ Running("invalid") \/ Running("set") \/ Running("create")
\* A rejected write leaves the site's writer for good.
RefusedUncaught ==
    /\ Refusing
    /\ IF Head(queue).key = Settings THEN Finish("refused")
       ELSE /\ queue' = Tail(queue) /\ stage' = "read" /\ base' = Absent
            /\ UNCHANGED <<entries, requests, sites, quota, restarts, edits>>
Refused == Refusing /\ Finish("refused")

-----------------------------------------------------------------------------
(* Around the writer *)

\* The worker dies; a write that was issued may still land.
WorkerRestart ==
    /\ restarts + edits < MaxFaults
    /\ restarts' = restarts + 1
    /\ Told(Waiting, "lost")
    /\ \/ UNCHANGED entries
       \/ Running("set") /\ Put(Changed(base, Change))
       \/ Running("create") /\ Put([Absent EXCEPT !.state = "entry"])
    /\ queue' = <<>> /\ stage' = "read" /\ base' = Absent
    /\ sites' = [s \in Sites |-> NoSite]
    /\ writeTimestamps' = 0
    /\ UNCHANGED <<asked, issued, edits>>

OtherComputer(k, entry) ==
    /\ restarts + edits < MaxFaults /\ edits' = edits + 1
    /\ RemoteEdit(k, entry)
    /\ UNCHANGED <<running, sites, quota, restarts>>

\* With the oldest slot all of them are dropped.
RememberedNone == 0
Remembered == IF writeTimestamps < issued THEN writeTimestamps ELSE issued - 1
TimePasses ==
    /\ issued > 0
    /\ writeTimestamps' = Remembered
    /\ issued' = issued - 1
    /\ UNCHANGED <<entries, requests, running, sites, restarts, edits>>

WriterStep == Read \/ TakeSlot \/ SetLands \/ CreateLands \/ Answer \/ Refused

WriterNext == \/ \E r \in Requests, value \in Values :
                    \/ \E s \in Sites : SetSiteDisabled(r, s, value)
                    \/ \E field \in Fields : UpdateSettings(r, field, value)
              \/ WriterStep \/ WorkerRestart \/ TimePasses
              \/ \E k \in Keys, entry \in Foreign : OtherComputer(k, entry)

WriterSpec == WriterInit /\ [][WriterNext]_allVars
WriterFairSpec == WriterSpec /\ WF_allVars(WriterStep) /\ WF_allVars(TimePasses)

-----------------------------------------------------------------------------
(* Properties *)

\* The type invariant.  A site's writer runs exactly while one task of the site
\* is queued, and every request not yet answered is in a task or has joined
\* the site.  (storage-writer.ts:160-165, 191-216, 364-380)
WriterTypeOK ==
    /\ store \in [Keys -> Entries]
    /\ queue \in Seq(Task)
    /\ stage \in {"read", "slotToCreate", "create", "slot", "invalid", "set", "landed"}
    /\ \A s \in Sites : /\ sites[s].writing = (\E i \in 1..Len(queue) : queue[i].key = s)
                        /\ (sites[s].pending # 0) = (sites[s].waiters # {})
    /\ Waiting = (UNION {queue[i].batch : i \in 1..Len(queue)}) \cup (UNION {sites[s].waiters : s \in Sites})

\* What the newest acknowledged request for a field asked is what is stored,
\* unless a later one may have changed it: nobody is told "done" for a value
\* that a merged, older or slower request has replaced.  (Edits by another
\* computer apart.)  Every request still unanswered is in a task or has joined
\* one.  (storage-writer.ts:158-159, 191-216, 276-296)
NewestWins ==
    /\ WriterTypeOK
    /\ edits = 0 => \A r \in Requests :
        status[r] = "done" /\ ~(\E q \in Requests : /\ q > r /\ status[q] # "idle"
                                                  /\ asked[q].key = asked[r].key
                                                  /\ asked[q].field = asked[r].field)
        => store[asked[r].key].data[asked[r].field] = asked[r].value

\* Every request is answered in the end: a full quota, a rejected write or a
\* bad entry keeps no later request waiting, for the same key or another.
\* (storage-writer.ts:76-84, 88-102, 199-215)
EveryRequestAnswered == \A r \in Requests : status[r] = "asked" ~> status[r] # "asked"

\* No more than the limit of writes are issued in one minute of one life of the
\* worker; the next life does not know of the writes of the last.
\* (storage-writer.ts:40-44, 86-102)
QuotaKept == restarts = 0 => issued <= SYNC_WRITE_LIMIT

\* The refinement: a batch is written when its write has landed.
InStore == IF Running("landed") THEN Head(queue).batch ELSE {}
Atomic == INSTANCE AtomicStore
          WITH status <- [r \in Requests |-> IF r \in InStore THEN "written" ELSE status[r]]

\* The writer keeps the promise of AtomicStore: no change is lost or taken
\* from a stale entry, none is written halfway, none overtakes another.
\* (storage-writer.ts:22-23, 76-84, 158-216, 276-296)
IsAtomic == Atomic!Spec

=============================================================================
