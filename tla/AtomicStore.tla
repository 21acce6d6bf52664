----------------------------- MODULE AtomicStore -----------------------------
(***************************************************************************)
(* What the single writer of synchronised storage promises (the comments   *)
(* at storage-writer.ts:22-23 and 158-159): each request to change one     *)
(* field of one stored entry takes effect at one moment or not at all,     *)
(* requests for the same key in the order they were made; requests may be  *)
(* merged, the newest of them counts, and all of them are told the same.   *)
(*                                                                         *)
(* Another computer may edit an entry at any moment.  A change may start   *)
(* from the entry as it was before such an edit, but never from one that   *)
(* an earlier change of this computer has replaced.                        *)
(***************************************************************************)
EXTENDS Naturals, FiniteSets

CONSTANTS Keys,         \* the stored entries
          Fields,       \* the fields of an entry
          Values,       \* what a field may hold
          Default,      \* the value of every field of a fresh entry
          Foreign,      \* what may be found, or be written by another computer
          MaxRequests   \* bound on requests

ASSUME StoreAssumption == Default \in Values /\ MaxRequests \in Nat

VARIABLES store,    \* chrome.storage.sync
          seen,     \* what each key has held since the last change made here
          asked,    \* the requests
          status    \* what each request was told

Requests == 1..MaxRequests
Request == [key : Keys, field : Fields, value : Values]

Absent == [state |-> "absent", data |-> [f \in Fields |-> Default]]
Corrupt == [state |-> "corrupt", data |-> [f \in Fields |-> Default]]
Entries == {Absent, Corrupt} \cup [state : {"entry"}, data : [Fields -> Values]]

ASSUME ForeignAssumption == Foreign \subseteq Entries

\* An entry with one field changed; a missing entry starts from the defaults.
Changed(entry, request) ==
    [state |-> "entry", data |-> [entry.data EXCEPT ![request.field] = request.value]]

Waiting == {r \in Requests : status[r] = "asked"}
InEffect == {r \in Requests : status[r] = "written"}
Oldest(batch) == CHOOSE r \in batch : \A q \in batch : r <= q
Newest(batch) == CHOOSE r \in batch : \A q \in batch : q <= r

Init == /\ store \in [Keys -> Foreign]
        /\ seen = [k \in Keys |-> {store[k]}]
        /\ asked = [r \in Requests |-> [key |-> "none", field |-> "none", value |-> Default]]
        /\ status = [r \in Requests |-> "idle"]

Ask(r, request) ==
    /\ status[r] = "idle" /\ \A q \in Requests : q < r => status[q] # "idle"
    /\ asked' = [asked EXCEPT ![r] = request]
    /\ status' = [status EXCEPT ![r] = "asked"]
    /\ UNCHANGED <<store, seen>>

\* The next requests of a key to be dealt with
Batch(k, batch) == /\ batch # {}
                   /\ batch \subseteq {r \in Waiting : asked[r].key = k}
                   /\ \A r \in batch, q \in Waiting \ batch : asked[q].key = k => r < q

Told(batch, answer) == status' = [r \in Requests |-> IF r \in batch THEN answer ELSE status[r]]

\* The store, and what has been seen, once the batch is in effect
Written(k, batch, base) ==
    /\ store' = [store EXCEPT ![k] = Changed(base, asked[Newest(batch)])]
    /\ seen' = [seen EXCEPT ![k] = {store'[k]}]

Commit(k, batch) ==
    /\ Batch(k, batch)
    /\ \E base \in seen[k] \ {Corrupt} : Written(k, batch, base)
    /\ Told(batch, "written")
    /\ UNCHANGED asked

Acknowledge(batch) ==
    /\ batch # {} /\ batch \subseteq InEffect /\ Told(batch, "done")
    /\ UNCHANGED <<store, seen, asked>>

\* A settings entry that is missing is created before the change.
Create(k) ==
    /\ Absent \in seen[k]
    /\ store' = [store EXCEPT ![k] = [Absent EXCEPT !.state = "entry"]]
    /\ seen' = [seen EXCEPT ![k] = {store'[k]}]
    /\ UNCHANGED <<asked, status>>

Refuse(k, batch) ==
    /\ Batch(k, batch) /\ Told(batch, "refused")
    /\ UNCHANGED <<store, seen, asked>>

\* The worker dies: nobody is told anything any more; the change being written
\* may have made it.
Lose ==
    /\ Told(Waiting \cup InEffect, "lost")
    /\ \/ UNCHANGED <<store, seen>>
       \/ \E k \in Keys : \E batch \in SUBSET Waiting : \E base \in seen[k] \ {Corrupt} :
             Batch(k, batch) /\ Written(k, batch, base)
       \/ \E k \in Keys : /\ Absent \in seen[k]
                          /\ store' = [store EXCEPT ![k] = [Absent EXCEPT !.state = "entry"]]
                          /\ seen' = [seen EXCEPT ![k] = {store'[k]}]
    /\ UNCHANGED asked

RemoteEdit(k, entry) ==
    /\ store' = [store EXCEPT ![k] = entry]
    /\ seen' = [seen EXCEPT ![k] = @ \cup {entry}]
    /\ UNCHANGED <<asked, status>>

Next == \/ \E r \in Requests, request \in Request : Ask(r, request)
        \/ \E k \in Keys : \/ \E batch \in SUBSET Waiting : Commit(k, batch) \/ Refuse(k, batch)
                           \/ Create(k)
                           \/ \E entry \in Foreign : RemoteEdit(k, entry)
        \/ \E batch \in SUBSET InEffect : Acknowledge(batch)
        \/ Lose

Spec == Init /\ [][Next]_<<store, seen, asked, status>>
=============================================================================
