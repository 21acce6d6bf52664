------------------------ MODULE StorageWriterProofs ------------------------
(***************************************************************************)
(* The writer of synchronised storage implements AtomicStore and keeps the *)
(* browser's quota, for any sets of keys, fields and values, any number of *)
(* requests, restarts and edits by another computer, and any limit.        *)
(***************************************************************************)
EXTENDS StorageWriter, TLAPS, SequenceTheorems, WellFoundedInduction

USE StoreAssumption, ForeignAssumption, WriterAssumption

-----------------------------------------------------------------------------
(* The inductive invariant *)

Status == {"idle", "asked", "done", "refused", "lost"}
Stage == {"read", "slotToCreate", "create", "slot", "invalid", "set", "landed"}
Site == [pending : Requests \cup {0}, writing : BOOLEAN, waiters : SUBSET Requests]
InQueue == 1..Len(queue)

\* A request; those for a site change one field only.
Proper(request) == /\ request \in Request
                   /\ request.key \in Sites => request.field = SiteField

TypeOK == /\ store \in [Keys -> Entries] /\ seen \in [Keys -> SUBSET Entries]
          /\ status \in [Requests -> Status] /\ DOMAIN asked = Requests
          /\ \A r \in Requests : status[r] # "idle" => Proper(asked[r])
          /\ queue \in Seq(Task) /\ stage \in Stage /\ base \in Entries
          /\ sites \in [Sites -> Site]

\* Requests are numbered in the order they are made.
InTurn == \A q, r \in Requests : q < r /\ status[r] # "idle" => status[q] # "idle"

\* A request not answered is in a task of its key or has joined its site, and in
\* no task or site is one that is answered.
Assigned ==
    /\ \A i \in InQueue : queue[i].batch # {}
    /\ \A i \in InQueue : \A r \in queue[i].batch : r \in Waiting /\ asked[r].key = queue[i].key
    /\ \A s \in Sites : \A r \in sites[s].waiters : r \in Waiting /\ asked[r].key = s
    /\ \A r \in Waiting : \/ \E i \in InQueue : r \in queue[i].batch
                          \/ \E s \in Sites : r \in sites[s].waiters

\* A site has one task while it is writing, and only then has joined requests.
Joining == \A s \in Sites : /\ sites[s].writing <=> \E i \in InQueue : queue[i].key = s
                            /\ \A i, j \in InQueue : queue[i].key = s /\ queue[j].key = s => i = j
                            /\ sites[s].waiters # {} => sites[s].writing
                            /\ sites[s].pending = 0 <=> sites[s].waiters = {}

\* A patch of the settings is a task of its own.
Single == \A i \in InQueue : queue[i].key = Settings => \A p, q \in queue[i].batch : p = q

\* The tasks of a key, and those who have joined behind them, are in order.
Ordered ==
    /\ \A i, j \in InQueue : i < j /\ queue[i].key = queue[j].key =>
          \A q \in queue[i].batch, r \in queue[j].batch : q < r
    /\ \A i \in InQueue : queue[i].key \in Sites =>
          \A q \in queue[i].batch, r \in sites[queue[i].key].waiters : q < r

\* The running task starts from an entry that nothing here has replaced since.
Based ==
    /\ \A k \in Keys : store[k] \in seen[k]
    /\ queue = <<>> => stage = "read"
    /\ queue # <<>> /\ stage \in {"slot", "set"} => base \in seen[Head(queue).key] \ {Corrupt}
    /\ queue # <<>> /\ stage \in {"slotToCreate", "create"} => Absent \in seen[Head(queue).key]

IInv == TypeOK /\ InTurn /\ Assigned /\ Joining /\ Single /\ Ordered /\ Based

-----------------------------------------------------------------------------
(* Lemmas on the queue *)

\* A task at the end of the queue
LEMMA Appended ==
  ASSUME NEW s \in Seq(Task), NEW t \in Task
  PROVE  /\ Append(s, t) \in Seq(Task) /\ Append(s, t) # <<>>
         /\ Len(s) \in Nat /\ Len(Append(s, t)) = Len(s) + 1
         /\ \A i \in 1..Len(s) : Append(s, t)[i] = s[i]
         /\ Append(s, t)[Len(s) + 1] = t
         /\ s # <<>> => Head(Append(s, t)) = Head(s)
<1>1. Len(s) \in Nat /\ (s # <<>> => Len(s) # 0)
  BY EmptySeq
<1>2. /\ Append(s, t) \in Seq(Task) /\ Len(Append(s, t)) = Len(s) + 1
      /\ \A i \in 1..Len(s) : Append(s, t)[i] = s[i]
      /\ Append(s, t)[Len(s) + 1] = t
  BY AppendProperties
<1>3. Append(s, t) # <<>>
  BY <1>1, <1>2
<1>4. ASSUME s # <<>> PROVE Head(Append(s, t)) = Head(s)
  <2>1. Head(s) = s[1] /\ Head(Append(s, t)) = Append(s, t)[1]
    BY <1>2, <1>3, <1>4
  <2>2. QED
    BY <1>1, <1>2, <1>4, <2>1
<1>5. QED
  BY <1>1, <1>2, <1>3, <1>4

\* The first task, and the queue behind it
LEMMA Taken ==
  ASSUME NEW s \in Seq(Task), s # <<>>
  PROVE  /\ Head(s) \in Task /\ Tail(s) \in Seq(Task)
         /\ Len(s) \in Nat \ {0} /\ Len(Tail(s)) = Len(s) - 1
         /\ Head(s) = s[1]
         /\ \A i \in 1..Len(Tail(s)) : Tail(s)[i] = s[i + 1]
<1>1. Len(s) \in Nat \ {0}
  BY EmptySeq
<1>2. Head(s) \in Task /\ Tail(s) \in Seq(Task) /\ Len(Tail(s)) = Len(s) - 1
  BY HeadTailProperties
<1>3. Head(s) = s[1] /\ \A i \in 1..Len(Tail(s)) : Tail(s)[i] = s[i + 1]
  BY <1>1, <1>2
<1>4. QED
  BY <1>1, <1>2, <1>3

\* The tasks of the queue, as what they are
LEMMA Tasks ==
  ASSUME TypeOK, NEW i \in InQueue
  PROVE  /\ queue[i] \in Task /\ queue[i].key \in Keys
         /\ queue[i].batch \in SUBSET Requests
<1>1. queue[i] \in Task
  BY ElementOfSeq DEF TypeOK, InQueue
<1>2. QED
  BY <1>1 DEF Task

-----------------------------------------------------------------------------
(* A new request *)

\* The newest of all requests waits, and nothing else has changed.
LEMMA RequestedIsNewest ==
  ASSUME IInv, NEW r \in Requests, NEW request, Proper(request), Requested(r, request)
  PROVE  /\ status' \in [Requests -> Status] /\ DOMAIN asked' = Requests
         /\ \A q \in Requests : status'[q] # "idle" => Proper(asked'[q])
         /\ asked'[r] = request /\ status[r] = "idle" /\ status'[r] = "asked"
         /\ \A q \in Requests \ {r} : asked'[q] = asked[q] /\ status'[q] = status[q]
         /\ Waiting' = Waiting \cup {r}
         /\ \A q \in Waiting : q < r
         /\ \A q \in Waiting : q \in Requests \ {r} /\ asked'[q] = asked[q]
         /\ InTurn'
<1>1. /\ status[r] = "idle" /\ \A q \in Requests : q < r => status[q] # "idle"
      /\ asked' = [asked EXCEPT ![r] = request] /\ status' = [status EXCEPT ![r] = "asked"]
      /\ status \in [Requests -> Status] /\ DOMAIN asked = Requests
  BY DEF Requested, IInv, TypeOK
<1>2. /\ status' \in [Requests -> Status] /\ status'[r] = "asked"
      /\ \A q \in Requests \ {r} : status'[q] = status[q]
  BY <1>1 DEF Status
<1>3. /\ DOMAIN asked' = Requests /\ asked'[r] = request
      /\ \A q \in Requests \ {r} : asked'[q] = asked[q]
  BY <1>1
<1>4. \A q \in Requests : status[q] # "idle" => q < r
  BY <1>1 DEF IInv, InTurn, Requests
<1>5. Waiting' = Waiting \cup {r} /\ \A q \in Waiting : q \in Requests /\ q < r
  BY <1>2, <1>4 DEF Waiting
<1>6. InTurn'
  <2> SUFFICES ASSUME NEW p \in Requests, NEW q \in Requests, p < q, status'[q] # "idle"
               PROVE  status'[p] # "idle"
    BY DEF InTurn
  <2>1. CASE q = r
    BY <1>1, <1>2, <2>1 DEF Requests
  <2>2. CASE q # r
    BY <1>2, <1>1, <2>2 DEF IInv, InTurn
  <2>3. QED
    BY <2>1, <2>2
<1>7. \A q \in Waiting : q \in Requests \ {r} /\ asked'[q] = asked[q]
  BY <1>1, <1>3, <1>5 DEF Waiting
<1>8. \A q \in Requests : status'[q] # "idle" => Proper(asked'[q])
  BY <1>2, <1>3 DEF IInv, TypeOK
<1>9. QED
  BY <1>1, <1>2, <1>3, <1>5, <1>6, <1>7, <1>8

\* The request joins the waiting ones.
NewRequest(r, k) ==
    /\ status' \in [Requests -> Status] /\ DOMAIN asked' = Requests
    /\ \A q \in Requests : status'[q] # "idle" => Proper(asked'[q])
    /\ Waiting' = Waiting \cup {r} /\ \A q \in Waiting : q < r
    /\ asked'[r].key = k /\ \A q \in Waiting : asked'[q] = asked[q]

\* The queue with one more task, of request r
Longer(r, k) ==
    /\ queue' \in Seq(Task) /\ queue' # <<>> /\ Len(queue') = Len(queue) + 1
    /\ \A i \in InQueue : queue'[i] = queue[i]
    /\ queue'[Len(queue) + 1].key = k /\ queue'[Len(queue) + 1].batch = {r}
    /\ queue # <<>> => Head(queue') = Head(queue)

\* The task's site, if it has one, is writing.
Writes(k) ==
    \A s \in Sites : /\ sites'[s].waiters = sites[s].waiters
                     /\ sites'[s].pending = sites[s].pending
                     /\ sites'[s].writing <=> sites[s].writing \/ s = k

\* A request with a task of its own keeps the invariant.
LEMMA EnqueueKeeps ==
  ASSUME IInv, NEW r \in Requests, NEW k \in Keys,
         NewRequest(r, k), InTurn', Longer(r, k),
         sites' \in [Sites -> Site], Writes(k),
         k \in Sites => ~sites[k].writing,
         UNCHANGED <<entries, stage, base>>
  PROVE  IInv'
<1> DEFINE n == Len(queue)
<1>2. n \in Nat /\ InQueue = 1..n /\ InQueue' = 1..(n + 1)
  BY DEF IInv, TypeOK, InQueue, Longer
<1> HIDE DEF n
<1>3. \A i \in 1..(n + 1) : i \in 1..n \/ i = n + 1
  BY <1>2
<1>1. /\ \A i \in 1..n : queue'[i] = queue[i]
      /\ queue'[n + 1].key = k /\ queue'[n + 1].batch = {r}
  BY <1>2 DEF Longer, n
<1>4. TypeOK'
  BY DEF IInv, TypeOK, entries, NewRequest, Longer
<1>5. Assigned'
  <2>1. ASSUME NEW i \in 1..(n + 1)
        PROVE  /\ queue'[i].batch # {}
               /\ \A q \in queue'[i].batch : q \in Waiting' /\ asked'[q].key = queue'[i].key
    <3>1. CASE i = n + 1
      BY <1>1, <3>1 DEF NewRequest
    <3>2. CASE i \in 1..n
      BY <1>1, <1>2, <3>2 DEF NewRequest, IInv, Assigned
    <3>3. QED
      BY <1>3, <3>1, <3>2
  <2>2. \A s \in Sites : \A q \in sites'[s].waiters : q \in Waiting' /\ asked'[q].key = s
    BY DEF NewRequest, Writes, IInv, Assigned
  <2>3. ASSUME NEW q \in Waiting'
        PROVE  \/ \E i \in 1..(n + 1) : q \in queue'[i].batch
               \/ \E s \in Sites : q \in sites'[s].waiters
    <3>1. n + 1 \in 1..(n + 1) /\ \A i \in 1..n : i \in 1..(n + 1)
      BY <1>2
    <3>2. CASE q = r
      BY <1>1, <3>1, <3>2
    <3>3. CASE q \in Waiting
      BY <1>1, <1>2, <3>1, <3>3 DEF IInv, Assigned, Writes
    <3>4. QED
      BY <2>3, <3>2, <3>3 DEF NewRequest
  <2>4. QED
    BY <1>2, <2>1, <2>2, <2>3 DEF Assigned
<1>6. Joining'
  <2>1. ASSUME NEW s \in Sites, s # k
        PROVE  /\ sites'[s].writing <=> \E i \in 1..(n + 1) : queue'[i].key = s
               /\ \A i, j \in 1..(n + 1) : queue'[i].key = s /\ queue'[j].key = s => i = j
    BY <1>1, <1>2, <1>3, <2>1 DEF IInv, Joining, Writes
  <2>2. ASSUME k \in Sites
        PROVE  /\ sites'[k].writing /\ \E i \in 1..(n + 1) : queue'[i].key = k
               /\ \A i, j \in 1..(n + 1) : queue'[i].key = k /\ queue'[j].key = k => i = j
    <3>1. \A i \in 1..n : queue'[i].key # k
      BY <1>1, <1>2, <2>2 DEF IInv, Joining
    <3>2. n + 1 \in 1..(n + 1)
      BY <1>2
    <3>3. QED
      BY <1>1, <1>2, <1>3, <2>2, <3>1, <3>2 DEF Writes
  <2>3. \A s \in Sites : /\ sites'[s].waiters # {} => sites'[s].writing
                         /\ sites'[s].pending = 0 <=> sites'[s].waiters = {}
    BY DEF IInv, Joining, Writes
  <2>4. QED
    BY <1>2, <2>1, <2>2, <2>3 DEF Joining
<1>a. Single'
  BY <1>1, <1>2, <1>3 DEF IInv, Single
<1>7. Ordered'

  <2>1. ASSUME NEW i \in 1..(n + 1), NEW j \in 1..(n + 1), i < j, queue'[i].key = queue'[j].key,
               NEW p \in queue'[i].batch, NEW q \in queue'[j].batch
        PROVE  p < q
    <3>1. i \in 1..n /\ queue'[i] = queue[i]
      BY <1>1, <1>2, <2>1
    <3>2. CASE j = n + 1
      BY <1>1, <1>2, <2>1, <3>1, <3>2 DEF IInv, Assigned, NewRequest
    <3>3. CASE j \in 1..n
      BY <1>1, <1>2, <2>1, <3>1, <3>3 DEF IInv, Ordered
    <3>4. QED
      BY <1>3, <3>2, <3>3
  <2>2. ASSUME NEW i \in 1..(n + 1), queue'[i].key \in Sites,
               NEW p \in queue'[i].batch, NEW q \in sites'[queue'[i].key].waiters
        PROVE  p < q
    <3>1. CASE i = n + 1
      BY <1>1, <2>2, <3>1 DEF Writes, IInv, Joining
    <3>2. CASE i \in 1..n
      BY <1>1, <1>2, <2>2, <3>2 DEF IInv, Ordered, Writes
    <3>3. QED
      BY <1>3, <3>1, <3>2
  <2>3. QED
    BY <1>2, <2>1, <2>2 DEF Ordered
<1>8. Based'
  BY DEF IInv, Based, entries, Longer
<1>9. QED
  BY <1>4, <1>5, <1>6, <1>a, <1>7, <1>8 DEF IInv

\* The request joins those who wait behind a site's write.
LEMMA JoinKeeps ==
  ASSUME IInv, NEW r \in Requests, NEW s \in Sites,
         NewRequest(r, s), InTurn',
         sites' = [sites EXCEPT ![s].pending = r, ![s].waiters = @ \cup {r}],
         sites[s].writing,
         UNCHANGED <<entries, stage, base, queue>>
  PROVE  IInv'
<1>1. /\ sites' \in [Sites -> Site]
      /\ sites'[s].waiters = sites[s].waiters \cup {r}
      /\ sites'[s].pending = r /\ sites'[s].writing
      /\ \A c \in Sites \ {s} : sites'[c] = sites[c]
  <2>1. [[sites[s] EXCEPT !.pending = r] EXCEPT !.waiters = sites[s].waiters \cup {r}] \in Site
    BY DEF IInv, TypeOK, Site
  <2>2. sites[s] \in Site
    BY DEF IInv, TypeOK
  <2>3. QED
    BY <2>1, <2>2 DEF IInv, TypeOK, Site
<1>2. InQueue' = InQueue /\ r # 0
  BY DEF InQueue, Requests
<1>3. TypeOK'
  BY <1>1 DEF IInv, TypeOK, entries, NewRequest
<1>4. Assigned'
  <2>1. \A i \in InQueue :
          /\ queue[i].batch # {}
          /\ \A q \in queue[i].batch : q \in Waiting' /\ asked'[q].key = queue[i].key
    BY DEF IInv, Assigned, NewRequest
  <2>2. \A c \in Sites : \A q \in sites'[c].waiters : q \in Waiting' /\ asked'[q].key = c
    BY <1>1 DEF IInv, Assigned, NewRequest
  <2>3. ASSUME NEW q \in Waiting'
        PROVE  \/ \E i \in InQueue : q \in queue[i].batch
               \/ \E c \in Sites : q \in sites'[c].waiters
    <3>1. CASE q = r
      BY <1>1, <3>1
    <3>2. CASE q \in Waiting
      <4>1. \A c \in Sites : sites[c].waiters \subseteq sites'[c].waiters
        BY <1>1
      <4>2. QED
        BY <3>2, <4>1 DEF IInv, Assigned
    <3>3. QED
      BY <2>3, <3>1, <3>2 DEF NewRequest
  <2>4. QED
    BY <1>2, <2>1, <2>2, <2>3 DEF Assigned
<1>5. Joining' /\ Single'
  BY <1>1, <1>2 DEF IInv, Joining, Single
<1>6. Ordered'
  <2>1. ASSUME NEW i \in InQueue, queue[i].key \in Sites,
               NEW p \in queue[i].batch, NEW q \in sites'[queue[i].key].waiters
        PROVE  p < q
    <3>1. CASE q = r
      BY <3>1 DEF IInv, Assigned, NewRequest
    <3>2. CASE q # r
      BY <1>1, <2>1, <3>2 DEF IInv, Ordered
    <3>3. QED
      BY <3>1, <3>2
  <2>2. QED
    BY <1>2, <2>1 DEF IInv, Ordered
<1>7. Based'
  BY DEF IInv, Based, entries
<1>8. QED
  BY <1>3, <1>4, <1>5, <1>6, <1>7 DEF IInv

\* A request made in turn is a new one of its key.
LEMMA RequestOK ==
  ASSUME IInv, NEW r \in Requests, NEW k \in Keys, NEW field \in Fields, NEW value \in Values,
         k \in Sites => field = SiteField,
         Requested(r, [key |-> k, field |-> field, value |-> value])
  PROVE  NewRequest(r, k) /\ InTurn'
<1> DEFINE request == [key |-> k, field |-> field, value |-> value]
<1>1. request.key = k /\ Requested(r, request) /\ Proper(request)
  BY DEF Proper, Request
<1> HIDE DEF request
<1>2. QED
  BY <1>1, RequestedIsNewest DEF NewRequest

\* The queue with the new request's task is one longer.
LEMMA EnqueueOK ==
  ASSUME IInv, NEW r \in Requests, NEW k \in Keys,
         queue' = Append(queue, [key |-> k, batch |-> {r}])
  PROVE  Longer(r, k)
<1> DEFINE t == [key |-> k, batch |-> {r}]
<1>1. t \in Task /\ t.key = k /\ t.batch = {r} /\ queue \in Seq(Task) /\ queue' = Append(queue, t)
  BY DEF Task, IInv, TypeOK
<1> HIDE DEF t
<1>2. QED
  BY <1>1, Appended DEF Longer, InQueue

\* Switching a site, whether it joins or starts a task, keeps the invariant.
LEMMA SetSiteDisabledOK ==
  ASSUME IInv, NEW r \in Requests, NEW s \in Sites, NEW value \in Values, SetSiteDisabled(r, s, value)
  PROVE  IInv'
<1>1. s \in Keys /\ NewRequest(r, s) /\ InTurn' /\ UNCHANGED <<entries, stage, base>>
  BY RequestOK DEF SetSiteDisabled, Sites
<1>2. CASE sites[s].writing
  BY <1>1, <1>2, JoinKeeps DEF SetSiteDisabled
<1>3. CASE ~sites[s].writing
  <2>1. /\ queue' = Append(queue, [key |-> s, batch |-> {r}])
        /\ sites' = [sites EXCEPT ![s].writing = TRUE]
    BY <1>3 DEF SetSiteDisabled
  <2>2. Longer(r, s)
    BY <1>1, <2>1, EnqueueOK
  <2>3. sites' \in [Sites -> Site] /\ Writes(s)
    BY <2>1 DEF IInv, TypeOK, Site, Writes
  <2>4. QED
    BY <1>1, <1>3, <2>2, <2>3, EnqueueKeeps
<1>4. QED
  BY <1>2, <1>3

\* So does a patch of the settings.
LEMMA UpdateSettingsOK ==
  ASSUME IInv, NEW r \in Requests, NEW field \in Fields, NEW value \in Values,
         UpdateSettings(r, field, value)
  PROVE  IInv'
<1>1. /\ Settings \in Keys \ Sites /\ NewRequest(r, Settings) /\ InTurn'
      /\ UNCHANGED <<entries, stage, base, sites>>
      /\ queue' = Append(queue, [key |-> Settings, batch |-> {r}])
  BY RequestOK DEF UpdateSettings, Sites
<1>2. Longer(r, Settings)
  BY <1>1, EnqueueOK
<1>3. sites' \in [Sites -> Site] /\ Writes(Settings)
  BY <1>1 DEF IInv, TypeOK, Writes
<1>4. QED
  BY <1>1, <1>2, <1>3, EnqueueKeeps

-----------------------------------------------------------------------------
(* The running task goes on *)

\* The entries the writer makes are entries.
LEMMA EntryTypes ==
  /\ Absent \in Entries /\ Corrupt \in Entries /\ Absent # Corrupt
  /\ [Absent EXCEPT !.state = "entry"] \in Entries \ {Corrupt}
  /\ [Absent EXCEPT !.state = "entry"].data = Absent.data
  /\ \A entry \in Entries, request \in Request :
        /\ Changed(entry, request) \in Entries \ {Corrupt}
        /\ Changed(entry, request).data[request.field] = request.value
        /\ \A f \in Fields : f # request.field => Changed(entry, request).data[f] = entry.data[f]
<1>1. /\ Absent \in Entries /\ Corrupt \in Entries /\ Absent # Corrupt
      /\ [Absent EXCEPT !.state = "entry"] \in Entries \ {Corrupt}
      /\ [Absent EXCEPT !.state = "entry"].data = Absent.data
  BY DEF Absent, Corrupt, Entries
<1>2. ASSUME NEW entry \in Entries, NEW request \in Request
      PROVE  /\ Changed(entry, request) \in Entries \ {Corrupt}
             /\ Changed(entry, request).data[request.field] = request.value
             /\ \A f \in Fields : f # request.field => Changed(entry, request).data[f] = entry.data[f]
  <2>1. /\ entry.data \in [Fields -> Values]
        /\ request.field \in Fields /\ request.value \in Values
    BY DEF Entries, Absent, Corrupt, Request
  <2>2. QED
    BY <2>1 DEF Entries, Corrupt, Changed
<1>3. QED
  BY <1>1, <1>2

\* There is a newest request.
LEMMA NewestIs ==
  ASSUME NEW batch \in SUBSET Requests, batch # {}
  PROVE  Newest(batch) \in batch /\ \A q \in batch : q <= Newest(batch)
<1> DEFINE before == {MaxRequests - r : r \in batch}
<1>1. before \subseteq Nat /\ before # {}
  <2>1. \A r \in batch : MaxRequests - r \in Nat
    BY DEF Requests
  <2>2. before # {}
    OBVIOUS
  <2>3. QED
    BY <2>1, <2>2
<1>2. PICK m \in before : \A n \in before : ~(<<n, m>> \in OpToRel(<, Nat))
  BY <1>1, NatLessThanWellFounded, WFMin
<1>3. PICK r \in batch : m = MaxRequests - r
  BY <1>2
<1>4. ASSUME NEW q \in batch
      PROVE  q <= r
  <2>1. ~(MaxRequests - q < m)
    BY <1>1, <1>2 DEF OpToRel
  <2>2. QED
    BY <1>3, <2>1 DEF Requests
<1>5. QED
  BY <1>4 DEF Newest

\* The request whose change the running task writes
LEMMA TheChange ==
  ASSUME IInv, queue # <<>>
  PROVE  /\ Head(queue).key \in Keys /\ Head(queue) = queue[1] /\ 1 \in InQueue
         /\ Head(queue).batch # {} /\ Head(queue).batch \subseteq Waiting
         /\ \A q \in Head(queue).batch : Proper(asked[q]) /\ asked[q].key = Head(queue).key
         /\ Newest(Head(queue).batch) \in Head(queue).batch
         /\ \A q \in Head(queue).batch : q <= Newest(Head(queue).batch)
         /\ Proper(Change) /\ Change \in Request /\ Change.key = Head(queue).key
<1> DEFINE task == Head(queue)
<1>1. task = queue[1] /\ 1 \in InQueue
  BY Taken DEF IInv, TypeOK, InQueue
<1>2. task.key \in Keys /\ task.batch \in SUBSET Requests
  BY <1>1, Tasks DEF IInv
<1>3. task.batch # {} /\ \A q \in task.batch : q \in Waiting /\ asked[q].key = task.key
  BY <1>1 DEF IInv, Assigned
<1>4. \A q \in task.batch : Proper(asked[q])
  BY <1>2, <1>3 DEF IInv, TypeOK, Waiting
<1>5. Newest(task.batch) \in task.batch /\ \A q \in task.batch : q <= Newest(task.batch)
  BY <1>2, <1>3, NewestIs
<1>6. Change = asked[Newest(task.batch)]
  BY DEF Change
<1>7. Proper(Change) /\ Change \in Request /\ Change.key = task.key
  BY <1>3, <1>4, <1>5, <1>6 DEF Proper
<1>8. QED
  BY <1>1, <1>2, <1>3, <1>4, <1>5, <1>7

\* A step that changes neither the requests nor the queue.
LEMMA ProgressKeeps ==
  ASSUME IInv, UNCHANGED <<requests, queue, sites>>,
         store' \in [Keys -> Entries], seen' \in [Keys -> SUBSET Entries],
         stage' \in Stage, base' \in Entries,
         Based'
  PROVE  IInv'
<1>1. Waiting' = Waiting /\ InQueue' = InQueue
  BY DEF Waiting, InQueue, requests
<1>2. TypeOK' /\ InTurn'
  BY DEF IInv, TypeOK, InTurn, requests
<1>3. Assigned' /\ Ordered' /\ Joining' /\ Single'
  BY <1>1 DEF IInv, Assigned, Ordered, Joining, Single, requests
<1>4. QED
  BY <1>2, <1>3 DEF IInv

\* Reading the entry keeps the invariant: what is read has been seen.
LEMMA ReadOK ==
  ASSUME IInv, Read
  PROVE  IInv'
<1>1. /\ queue # <<>> /\ base' = store[Head(queue).key] /\ base' # Corrupt
      /\ stage' = (IF base' = Absent /\ Head(queue).key = Settings THEN "slotToCreate" ELSE "slot")
      /\ UNCHANGED <<requests, queue, sites, entries>>
  BY DEF Read, Running, Goes
<1>2. Head(queue).key \in Keys
  BY <1>1, TheChange
<1>3. base' \in Entries /\ base' \in seen[Head(queue).key]
  BY <1>1, <1>2 DEF IInv, TypeOK, Based
<1>4. Based'
  BY <1>1, <1>2, <1>3 DEF IInv, Based, entries
<1>5. QED
  BY <1>1, <1>3, <1>4, ProgressKeeps DEF IInv, TypeOK, Stage, entries

\* Waiting for a slot changes nothing that the invariant speaks of but the stage.
LEMMA TakeSlotOK ==
  ASSUME IInv, TakeSlot
  PROVE  IInv'
<1>1. /\ queue # <<>> /\ stage \in {"slot", "slotToCreate"}
      /\ stage' = (IF stage = "slot" THEN "set" ELSE "create")
      /\ UNCHANGED <<requests, queue, sites, entries, base>>
  BY DEF TakeSlot, Running, Goes
<1>2. Based'
  BY <1>1 DEF IInv, Based, entries
<1>3. QED
  BY <1>1, <1>2, ProgressKeeps DEF IInv, TypeOK, Stage, entries

\* What the running task writes is then all that its key has held.
LEMMA PutOK ==
  ASSUME IInv, queue # <<>>, NEW entry \in Entries, Put(entry)
  PROVE  /\ store' = [store EXCEPT ![Head(queue).key] = entry]
         /\ store' \in [Keys -> Entries] /\ seen' \in [Keys -> SUBSET Entries]
         /\ store'[Head(queue).key] = entry /\ seen'[Head(queue).key] = {entry}
         /\ \A k \in Keys : store'[k] \in seen'[k]
BY TheChange DEF IInv, TypeOK, Based, Put

\* The write lands.
LEMMA SetLandsOK ==
  ASSUME IInv, SetLands
  PROVE  IInv'
<1>1. /\ queue # <<>> /\ Put(Changed(base, Change)) /\ stage' = "landed"
      /\ UNCHANGED <<requests, queue, sites, base>>
  BY DEF SetLands, Running, Goes
<1>2. Changed(base, Change) \in Entries
  BY <1>1, TheChange, EntryTypes DEF IInv, TypeOK
<1>3. /\ store' \in [Keys -> Entries] /\ seen' \in [Keys -> SUBSET Entries]
      /\ \A k \in Keys : store'[k] \in seen'[k]
  BY <1>1, <1>2, PutOK
<1>4. Based'
  BY <1>1, <1>3 DEF Based
<1>5. QED
  BY <1>1, <1>3, <1>4, ProgressKeeps DEF IInv, TypeOK, Stage

\* The missing settings entry is created.
LEMMA CreateLandsOK ==
  ASSUME IInv, CreateLands
  PROVE  IInv'
<1> DEFINE entry == [Absent EXCEPT !.state = "entry"]
<1>1. /\ queue # <<>> /\ base' = entry /\ Put(entry) /\ stage' \in {"slot", "invalid"}
      /\ UNCHANGED <<requests, queue, sites>>
  BY DEF CreateLands, Running, Goes
<1>2. entry \in Entries \ {Corrupt}
  BY EntryTypes
<1> HIDE DEF entry
<1>3. /\ store' \in [Keys -> Entries] /\ seen' \in [Keys -> SUBSET Entries]
      /\ seen'[Head(queue).key] = {entry}
      /\ \A k \in Keys : store'[k] \in seen'[k]
  BY <1>1, <1>2, PutOK
<1>4. Based'
  BY <1>1, <1>2, <1>3 DEF Based
<1>5. QED
  BY <1>1, <1>2, <1>3, <1>4, ProgressKeeps DEF Stage

-----------------------------------------------------------------------------
(* The running task ends *)

\* The requests of the task are answered, all others are as before.
Answers(answer) ==
    /\ queue # <<>>
    /\ status' = [r \in Requests |-> IF r \in Head(queue).batch THEN answer ELSE status[r]]
    /\ stage' = "read" /\ base' = Absent
    /\ UNCHANGED <<entries, asked>>

\* An answer keeps the types and the order, and the answered wait no more.
LEMMA AnswersKeeps ==
  ASSUME IInv, NEW answer \in {"done", "refused"}, Answers(answer)
  PROVE  /\ status' \in [Requests -> Status] /\ DOMAIN asked' = Requests
         /\ \A r \in Requests : status'[r] # "idle" => Proper(asked'[r])
         /\ Waiting' = Waiting \ queue[1].batch
         /\ InTurn' /\ Based' /\ base' \in Entries /\ stage' \in Stage
<1>1. /\ Head(queue) = queue[1] /\ status \in [Requests -> Status]
      /\ \A r \in Head(queue).batch : r \in Requests /\ status[r] = "asked"
  BY TheChange DEF IInv, TypeOK, Answers, Waiting
<1>2. \A r \in Requests : /\ status'[r] \in Status
                          /\ status'[r] = "idle" <=> status[r] = "idle"
                          /\ status'[r] = "asked" <=> status[r] = "asked" /\ r \notin queue[1].batch
  BY <1>1 DEF Answers, Status
<1>3. status' \in [Requests -> Status] /\ DOMAIN asked' = Requests
  BY <1>2 DEF Answers, IInv, TypeOK
<1>4. \A r \in Requests : status'[r] # "idle" => Proper(asked'[r])
  BY <1>2 DEF Answers, IInv, TypeOK
<1>5. Waiting' = Waiting \ queue[1].batch
  BY <1>2 DEF Waiting
<1>6. InTurn'
  BY <1>2 DEF IInv, InTurn
<1>7. Based'
  BY DEF Answers, IInv, Based, entries
<1>8. QED
  BY <1>3, <1>4, <1>5, <1>6, <1>7, EntryTypes DEF Answers, Stage

\* No request of the task is in another one or has joined a site.
LEMMA TaskApart ==
  ASSUME IInv, queue # <<>>
  PROVE  /\ \A i \in InQueue : i # 1 => \A q \in queue[i].batch : q \in Waiting \ queue[1].batch
         /\ \A s \in Sites : \A q \in sites[s].waiters : q \in Waiting \ queue[1].batch
<1>1. 1 \in InQueue /\ queue[1].batch \subseteq Requests /\ InQueue \subseteq Nat \ {0}
  BY TheChange, Tasks DEF IInv, InQueue
<1>2. ASSUME NEW i \in InQueue, i # 1, NEW q \in queue[i].batch
      PROVE  q \in Waiting \ queue[1].batch
  <2>1. q \in Waiting /\ asked[q].key = queue[i].key
    BY <1>2 DEF IInv, Assigned
  <2>2. ASSUME q \in queue[1].batch
        PROVE  FALSE
    <3>1. queue[1].key = queue[i].key
      BY <1>1, <2>1, <2>2 DEF IInv, Assigned
    <3>2. q < q /\ q \in Requests
      BY <1>1, <1>2, <2>1, <2>2, <3>1 DEF IInv, Ordered, Waiting
    <3>3. QED
      BY <3>2 DEF Requests
  <2>3. QED
    BY <2>1, <2>2
<1>3. ASSUME NEW s \in Sites, NEW q \in sites[s].waiters
      PROVE  q \in Waiting \ queue[1].batch
  <2>1. q \in Waiting /\ asked[q].key = s
    BY <1>3 DEF IInv, Assigned
  <2>2. ASSUME q \in queue[1].batch
        PROVE  FALSE
    <3>1. queue[1].key = s
      BY <1>1, <2>1, <2>2 DEF IInv, Assigned
    <3>2. q < q /\ q \in Requests
      BY <1>1, <1>3, <2>1, <2>2, <3>1 DEF IInv, Ordered, Waiting
    <3>3. QED
      BY <3>2 DEF Requests
  <2>3. QED
    BY <2>1, <2>2
<1>4. QED
  BY <1>2, <1>3

\* The queue without its first task
Shorter ==
    /\ queue' \in Seq(Task) /\ Len(queue') = Len(queue) - 1
    /\ \A i \in 1..(Len(queue) - 1) : queue'[i] = queue[i + 1]

\* The queue without its first task is shorter by one.
LEMMA TailOK ==
  ASSUME IInv, queue # <<>>, queue' = Tail(queue)
  PROVE  Shorter
BY Taken DEF IInv, TypeOK, Shorter

\* The task's site, if it has one, is done.
Leaves(k) ==
    \A s \in Sites : /\ sites'[s].waiters = sites[s].waiters
                     /\ sites'[s].pending = sites[s].pending
                     /\ sites'[s].writing <=> sites[s].writing /\ s # k

\* Nobody has joined meanwhile.
LEMMA LeaveKeeps ==
  ASSUME IInv, NEW answer \in {"done", "refused"}, Answers(answer), Shorter,
         sites' \in [Sites -> Site], Leaves(queue[1].key),
         queue[1].key \in Sites => sites[queue[1].key].waiters = {}
  PROVE  IInv'
<1> DEFINE n == Len(queue)
<1>0. n \in Nat \ {0} /\ queue # <<>>
  BY Taken DEF IInv, TypeOK, Answers
<1>1. /\ n \in Nat \ {0} /\ InQueue = 1..n /\ InQueue' = 1..(n - 1)
      /\ queue' \in Seq(Task) /\ \A i \in 1..(n - 1) : queue'[i] = queue[i + 1]
      /\ queue # <<>>
  BY <1>0 DEF Shorter, InQueue
<1> HIDE DEF n
<1>2. /\ \A i \in 1..(n - 1) : i + 1 \in 1..n /\ i + 1 # 1
      /\ \A i \in 1..n : i # 1 => i - 1 \in 1..(n - 1) /\ queue'[i - 1] = queue[i]
      /\ 1 \in 1..n
  BY <1>1
<1>3. /\ Waiting' = Waiting \ queue[1].batch /\ asked' = asked
      /\ InTurn' /\ Based'
  BY AnswersKeeps DEF Answers
<1>4. TypeOK'
  BY <1>1, AnswersKeeps DEF Answers, IInv, TypeOK, entries
<1>5. Assigned'
  <2>1. ASSUME NEW i \in 1..(n - 1)
        PROVE  /\ queue'[i].batch # {}
               /\ \A q \in queue'[i].batch : q \in Waiting' /\ asked[q].key = queue'[i].key
    <3>1. i + 1 \in InQueue /\ i + 1 # 1 /\ queue'[i] = queue[i + 1]
      BY <1>1, <1>2
    <3>2. \A q \in queue[i + 1].batch : q \in Waiting \ queue[1].batch
      BY <1>1, <3>1, TaskApart
    <3>3. QED
      BY <1>3, <3>1, <3>2 DEF IInv, Assigned
  <2>2. \A s \in Sites : \A q \in sites'[s].waiters : q \in Waiting' /\ asked[q].key = s
    BY <1>1, <1>3, TaskApart DEF IInv, Assigned, Leaves
  <2>3. ASSUME NEW q \in Waiting'
        PROVE  \/ \E i \in 1..(n - 1) : q \in queue'[i].batch
               \/ \E s \in Sites : q \in sites'[s].waiters
    <3>1. q \in Waiting /\ q \notin queue[1].batch
      BY <1>3, <2>3
    <3>2. CASE \E i \in 1..n : q \in queue[i].batch
      BY <1>2, <3>1, <3>2
    <3>3. CASE \E s \in Sites : q \in sites[s].waiters
      BY <3>3 DEF Leaves
    <3>4. QED
      BY <1>1, <3>1, <3>2, <3>3 DEF IInv, Assigned
  <2>4. QED
    BY <1>1, <1>3, <2>1, <2>2, <2>3 DEF Assigned
<1>6. Joining'
  <2>1. ASSUME NEW s \in Sites
        PROVE  /\ sites'[s].writing <=> \E i \in 1..(n - 1) : queue'[i].key = s
               /\ \A i, j \in 1..(n - 1) : queue'[i].key = s /\ queue'[j].key = s => i = j
    <3>1. CASE s = queue[1].key
      <4>1. \A i \in 1..n : queue[i].key = s => i = 1
        BY <1>1, <1>2, <3>1 DEF IInv, Joining
      <4>2. \A i \in 1..(n - 1) : queue'[i].key # s
        BY <1>1, <1>2, <4>1
      <4>3. QED
        BY <3>1, <4>2 DEF Leaves
    <3>2. CASE s # queue[1].key
      <4>1. sites[s].writing <=> \E i \in 1..n : queue[i].key = s
        BY <1>1 DEF IInv, Joining
      <4>2. (\E i \in 1..n : queue[i].key = s) <=> \E i \in 1..(n - 1) : queue'[i].key = s
        BY <1>1, <1>2, <3>2
      <4>3. ASSUME NEW i \in 1..(n - 1), NEW j \in 1..(n - 1), queue'[i].key = s, queue'[j].key = s
            PROVE  i = j
        <5>1. /\ i + 1 \in InQueue /\ queue[i + 1].key = s
              /\ j + 1 \in InQueue /\ queue[j + 1].key = s
          BY <1>1, <1>2, <4>3
        <5>2. i + 1 = j + 1
          BY <5>1 DEF IInv, Joining
        <5>3. QED
          BY <1>1, <5>2
      <4>4. QED
        BY <3>2, <4>1, <4>2, <4>3 DEF Leaves
    <3>3. QED
      BY <3>1, <3>2
  <2>2. \A s \in Sites : /\ sites'[s].waiters # {} => sites'[s].writing
                         /\ sites'[s].pending = 0 <=> sites'[s].waiters = {}
    <3>1. ASSUME NEW s \in Sites, sites[s].waiters # {}
          PROVE  s # queue[1].key
      BY <3>1
    <3>2. QED
      BY <3>1 DEF IInv, Joining, Leaves
  <2>3. QED
    BY <1>1, <2>1, <2>2 DEF Joining
<1>7. Single'
  <2>1. ASSUME NEW i \in 1..(n - 1), queue'[i].key = Settings,
               NEW p \in queue'[i].batch, NEW q \in queue'[i].batch
        PROVE  p = q
    <3>1. i + 1 \in InQueue /\ queue'[i] = queue[i + 1]
      BY <1>1, <1>2
    <3>2. QED
      BY <2>1, <3>1 DEF IInv, Single
  <2>2. QED
    BY <1>1, <2>1 DEF Single
<1>8. Ordered'
  <2>1. ASSUME NEW i \in 1..(n - 1), NEW j \in 1..(n - 1), i < j, queue'[i].key = queue'[j].key,
               NEW p \in queue'[i].batch, NEW q \in queue'[j].batch
        PROVE  p < q
    <3>1. i + 1 \in 1..n /\ j + 1 \in 1..n /\ i + 1 < j + 1
      BY <1>1, <2>1
    <3>2. QED
      BY <1>1, <2>1, <3>1 DEF IInv, Ordered
  <2>2. ASSUME NEW i \in 1..(n - 1), queue'[i].key \in Sites,
               NEW p \in queue'[i].batch, NEW q \in sites'[queue'[i].key].waiters
        PROVE  p < q
    <3>1. i + 1 \in InQueue /\ queue'[i] = queue[i + 1]
      BY <1>1, <1>2
    <3>2. QED
      BY <2>2, <3>1 DEF IInv, Ordered, Leaves
  <2>3. QED
    BY <1>1, <2>1, <2>2 DEF Ordered
<1>9. QED
  BY <1>3, <1>4, <1>5, <1>6, <1>7, <1>8 DEF IInv

\* Those who joined meanwhile are the site's next task.
Rejoins(s) ==
    /\ queue' \in Seq(Task) /\ Len(queue') = Len(queue)
    /\ \A i \in 1..(Len(queue) - 1) : queue'[i] = queue[i + 1]
    /\ queue'[Len(queue)].key = s /\ queue'[Len(queue)].batch = sites[s].waiters
    /\ sites' \in [Sites -> Site]
    /\ sites'[s].writing /\ sites'[s].waiters = {} /\ sites'[s].pending = 0
    /\ \A c \in Sites \ {s} : sites'[c] = sites[c]

\* Those who have joined meanwhile get a task of their own.
LEMMA RejoinKeeps ==
  ASSUME IInv, NEW answer \in {"done", "refused"}, Answers(answer),
         NEW s \in Sites, queue[1].key = s, sites[s].waiters # {}, Rejoins(s)
  PROVE  IInv'
<1> DEFINE n == Len(queue)
<1>0. n \in Nat \ {0} /\ queue # <<>>
  BY Taken DEF IInv, TypeOK, Answers
<1>1. /\ n \in Nat \ {0} /\ InQueue = 1..n /\ InQueue' = 1..n
      /\ \A i \in 1..(n - 1) : queue'[i] = queue[i + 1]
      /\ queue # <<>>
      /\ queue'[n].key = s /\ queue'[n].batch = sites[s].waiters
  BY <1>0 DEF Rejoins, InQueue
<1> HIDE DEF n
<1>2. /\ \A i \in 1..(n - 1) : i + 1 \in 1..n /\ i + 1 # 1 /\ i \in 1..n
      /\ \A i \in 1..n : i # 1 => i - 1 \in 1..(n - 1) /\ queue'[i - 1] = queue[i]
      /\ 1 \in 1..n /\ n \in 1..n
      /\ \A i \in 1..n : i \in 1..(n - 1) \/ i = n
  BY <1>1
<1>3. /\ Waiting' = Waiting \ queue[1].batch /\ asked' = asked
      /\ InTurn' /\ Based'
  BY AnswersKeeps DEF Answers
<1>4. TypeOK'
  BY AnswersKeeps DEF Rejoins, Answers, IInv, TypeOK, entries
<1>5. \A i \in 1..(n - 1) : queue'[i].key # s
  <2>1. ASSUME NEW i \in 1..(n - 1), queue'[i].key = s
        PROVE  FALSE
    <3>1. /\ i + 1 \in InQueue /\ i + 1 # 1 /\ queue[i + 1].key = s
          /\ 1 \in InQueue /\ queue[1].key = s
      BY <1>1, <1>2, <2>1
    <3>2. QED
      BY <3>1 DEF IInv, Joining
  <2>2. QED
    BY <2>1
<1>6. Assigned'
  <2>1. ASSUME NEW i \in 1..n
        PROVE  /\ queue'[i].batch # {}
               /\ \A q \in queue'[i].batch : q \in Waiting' /\ asked[q].key = queue'[i].key
    <3>1. CASE i \in 1..(n - 1)
      <4>1. i + 1 \in InQueue /\ i + 1 # 1 /\ queue'[i] = queue[i + 1]
        BY <1>1, <1>2, <3>1
      <4>2. \A q \in queue[i + 1].batch : q \in Waiting \ queue[1].batch
        BY <1>1, <4>1, TaskApart
      <4>3. QED
        BY <1>3, <4>1, <4>2 DEF IInv, Assigned
    <3>2. CASE i = n
      <4>1. \A q \in sites[s].waiters : q \in Waiting \ queue[1].batch /\ asked[q].key = s
        BY <1>1, TaskApart DEF IInv, Assigned
      <4>2. QED
        BY <1>1, <1>3, <3>2, <4>1
    <3>3. QED
      BY <1>2, <3>1, <3>2
  <2>2. ASSUME NEW c \in Sites, NEW q \in sites'[c].waiters
        PROVE  q \in Waiting' /\ asked[q].key = c
    <3>1. c # s /\ q \in sites[c].waiters
      BY <2>2 DEF Rejoins
    <3>2. QED
      BY <1>1, <1>3, <3>1, TaskApart DEF IInv, Assigned
  <2>3. ASSUME NEW q \in Waiting'
        PROVE  \/ \E i \in 1..n : q \in queue'[i].batch
               \/ \E c \in Sites : q \in sites'[c].waiters
    <3>1. q \in Waiting /\ q \notin queue[1].batch
      BY <1>3, <2>3
    <3>2. CASE \E i \in 1..n : q \in queue[i].batch
      <4>1. PICK i \in 1..n : q \in queue[i].batch
        BY <3>2
      <4>2. i - 1 \in 1..(n - 1) /\ q \in queue'[i - 1].batch
        BY <1>2, <3>1, <4>1
      <4>3. QED
        BY <1>2, <4>2
    <3>3. CASE \E c \in Sites : q \in sites[c].waiters
      BY <1>1, <1>2, <3>3 DEF Rejoins
    <3>4. QED
      BY <1>1, <3>1, <3>2, <3>3 DEF IInv, Assigned
  <2>4. QED
    BY <1>1, <1>3, <2>1, <2>2, <2>3 DEF Assigned
<1>7. Joining'
  <2>1. ASSUME NEW c \in Sites \ {s}
        PROVE  /\ sites'[c].writing <=> \E i \in 1..n : queue'[i].key = c
               /\ \A i, j \in 1..n : queue'[i].key = c /\ queue'[j].key = c => i = j
    <3>1. sites[c].writing <=> \E i \in 1..n : queue[i].key = c
      BY <1>1 DEF IInv, Joining
    <3>2. (\E i \in 1..n : queue[i].key = c) <=> \E i \in 1..(n - 1) : queue'[i].key = c
      BY <1>1, <1>2, <2>1
    <3>3. (\E i \in 1..(n - 1) : queue'[i].key = c) <=> \E i \in 1..n : queue'[i].key = c
      BY <1>1, <1>2, <2>1
    <3>4. ASSUME NEW i \in 1..n, NEW j \in 1..n, queue'[i].key = c, queue'[j].key = c
          PROVE  i = j
      <4>1. i \in 1..(n - 1) /\ j \in 1..(n - 1)
        BY <1>1, <1>2, <2>1, <3>4
      <4>2. /\ i + 1 \in InQueue /\ queue[i + 1].key = c
            /\ j + 1 \in InQueue /\ queue[j + 1].key = c
        BY <1>1, <1>2, <3>4, <4>1
      <4>3. i + 1 = j + 1
        BY <4>2 DEF IInv, Joining
      <4>4. QED
        BY <1>1, <4>3
    <3>5. sites'[c].writing = sites[c].writing
      BY DEF Rejoins
    <3>6. QED
      BY <3>1, <3>2, <3>3, <3>4, <3>5
  <2>2. /\ sites'[s].writing /\ \E i \in 1..n : queue'[i].key = s
        /\ \A i, j \in 1..n : queue'[i].key = s /\ queue'[j].key = s => i = j
    <3>1. \A i \in 1..n : queue'[i].key = s => i = n
      BY <1>2, <1>5
    <3>2. QED
      BY <1>1, <1>2, <3>1 DEF Rejoins
  <2>3. ASSUME NEW c \in Sites
        PROVE  /\ sites'[c].waiters # {} => sites'[c].writing
               /\ sites'[c].pending = 0 <=> sites'[c].waiters = {}
    BY DEF IInv, Joining, Rejoins
  <2>4. QED
    BY <1>1, <2>1, <2>2, <2>3 DEF Joining
<1>8. Single'
  <2>1. ASSUME NEW i \in 1..n, queue'[i].key = Settings,
               NEW p \in queue'[i].batch, NEW q \in queue'[i].batch
        PROVE  p = q
    <3>1. i \in 1..(n - 1)
      BY <1>1, <1>2, <2>1 DEF Sites
    <3>2. i + 1 \in InQueue /\ queue'[i] = queue[i + 1]
      BY <1>1, <1>2, <3>1
    <3>3. QED
      BY <2>1, <3>2 DEF IInv, Single
  <2>2. QED
    BY <1>1, <2>1 DEF Single
<1>9. Ordered'
  <2>1. ASSUME NEW i \in 1..n, NEW j \in 1..n, i < j, queue'[i].key = queue'[j].key,
               NEW p \in queue'[i].batch, NEW q \in queue'[j].batch
        PROVE  p < q
    <3>1. i \in 1..(n - 1)
      BY <1>1, <2>1
    <3>2. j \in 1..(n - 1)
      BY <1>1, <1>2, <1>5, <2>1, <3>1
    <3>3. i + 1 \in InQueue /\ j + 1 \in InQueue /\ i + 1 < j + 1
      BY <1>1, <2>1, <3>1, <3>2
    <3>4. queue'[i] = queue[i + 1] /\ queue'[j] = queue[j + 1]
      BY <1>1, <3>1, <3>2
    <3>5. QED
      BY <2>1, <3>3, <3>4 DEF IInv, Ordered
  <2>2. ASSUME NEW i \in 1..n, queue'[i].key \in Sites,
               NEW p \in queue'[i].batch, NEW q \in sites'[queue'[i].key].waiters
        PROVE  p < q
    <3>1. queue'[i].key # s /\ i \in 1..(n - 1)
      BY <1>1, <1>2, <2>2 DEF Rejoins
    <3>2. i + 1 \in InQueue /\ queue'[i] = queue[i + 1]
      BY <1>1, <1>2, <3>1
    <3>3. q \in sites[queue[i + 1].key].waiters
      BY <2>2, <3>1, <3>2 DEF Rejoins
    <3>4. QED
      BY <2>2, <3>2, <3>3 DEF IInv, Ordered
  <2>3. QED
    BY <1>1, <2>1, <2>2 DEF Ordered
<1>10. QED
  BY <1>3, <1>4, <1>6, <1>7, <1>8, <1>9 DEF IInv

\* However the task ends, the invariant is kept and its requests are told the same.
LEMMA FinishOK ==
  ASSUME IInv, queue # <<>>, NEW answer \in {"done", "refused"}, Finish(answer)
  PROVE  IInv' /\ Answers(answer)
<1> DEFINE k == Head(queue).key
<1>1. Answers(answer)
  BY DEF Finish, Told, Answers
<1>2. k = queue[1].key /\ queue[1].key \in Keys /\ sites \in [Sites -> Site]
  BY TheChange DEF IInv, TypeOK
<1>3. CASE k = Settings
  <2>1. queue' = Tail(queue) /\ sites' = sites
    BY <1>3 DEF Finish
  <2>2. Shorter /\ Leaves(queue[1].key)
    BY <1>2, <1>3, <2>1, TailOK DEF Leaves, Sites
  <2>3. QED
    BY <1>1, <1>2, <1>3, <2>1, <2>2, LeaveKeeps DEF Sites
<1>4. CASE k # Settings /\ sites[k].pending = 0
  <2>1. queue' = Tail(queue) /\ sites' = [sites EXCEPT ![k] = NoSite] /\ k \in Sites
    BY <1>2, <1>4 DEF Finish, Sites
  <2>2. NoSite \in Site /\ sites[k].waiters = {}
    BY <1>4, <2>1 DEF NoSite, Site, IInv, Joining
  <2>3. NoSite.waiters = {} /\ NoSite.pending = 0 /\ ~NoSite.writing
    BY DEF NoSite
  <2>4. sites' \in [Sites -> Site] /\ Leaves(queue[1].key)
    BY <1>2, <1>4, <2>1, <2>2, <2>3 DEF Leaves
  <2>5. Shorter
    BY <2>1, TailOK
  <2>6. QED
    BY <1>1, <1>2, <2>2, <2>4, <2>5, LeaveKeeps
<1>5. CASE k # Settings /\ sites[k].pending # 0
  <2> DEFINE t == [key |-> k, batch |-> Joined(sites[k])]
             again == [NoSite EXCEPT !.writing = TRUE]
  <2>1. queue' = Append(Tail(queue), t) /\ sites' = [sites EXCEPT ![k] = again] /\ k \in Sites
    BY <1>2, <1>5 DEF Finish, Sites
  <2>2. /\ again \in Site /\ again.writing /\ again.waiters = {} /\ again.pending = 0
    BY DEF NoSite, Site
  <2>3. sites[k].waiters # {} /\ sites[k].waiters \in SUBSET Requests
    BY <1>2, <1>5, <2>1 DEF IInv, Joining, Site
  <2>4. t \in Task /\ t.key = k /\ t.batch = sites[k].waiters
    BY <1>2, <2>3 DEF Task, Joined
  <2> HIDE DEF t, again
  <2>5. /\ Tail(queue) \in Seq(Task) /\ Len(queue) \in Nat \ {0} /\ Len(Tail(queue)) = Len(queue) - 1
        /\ \A i \in 1..Len(Tail(queue)) : Tail(queue)[i] = queue[i + 1]
    BY Taken DEF IInv, TypeOK
  <2>6. /\ queue' \in Seq(Task) /\ Len(queue') = Len(Tail(queue)) + 1
        /\ \A i \in 1..Len(Tail(queue)) : queue'[i] = Tail(queue)[i]
        /\ queue'[Len(Tail(queue)) + 1] = t
    BY <2>1, <2>4, <2>5, Appended
  <2>7. /\ Len(Tail(queue)) + 1 = Len(queue)
        /\ \A i \in 1..(Len(queue) - 1) : queue'[i] = queue[i + 1]
    BY <2>5, <2>6
  <2>8. /\ sites' \in [Sites -> Site] /\ sites'[k] = again
        /\ \A c \in Sites \ {k} : sites'[c] = sites[c]
    BY <1>2, <2>1, <2>2
  <2>9. Rejoins(k)
    BY <2>2, <2>4, <2>6, <2>7, <2>8 DEF Rejoins
  <2> HIDE DEF k
  <2>10. QED
    BY <1>1, <1>2, <2>1, <2>3, <2>9, RejoinKeeps
<1>6. QED
  BY <1>1, <1>3, <1>4, <1>5

\* The write has landed and is acknowledged.
LEMMA AnswerOK ==
  ASSUME IInv, Answer
  PROVE  IInv' /\ Answers("done") /\ stage = "landed"
BY FinishOK DEF Answer, Running

\* The task is refused.
LEMMA RefusedOK ==
  ASSUME IInv, Refused
  PROVE  IInv' /\ Answers("refused") /\ stage # "landed"
BY FinishOK DEF Refused, Refusing, Running

-----------------------------------------------------------------------------
(* Around the writer *)

\* What the store holds after the worker has died
Survives == \/ UNCHANGED entries
            \/ Running("set") /\ Put(Changed(base, Change))
            \/ Running("create") /\ Put([Absent EXCEPT !.state = "entry"])

\* Whatever survives the worker's death is an entry.
LEMMA SurvivesOK ==
  ASSUME IInv, Survives
  PROVE  /\ store' \in [Keys -> Entries] /\ seen' \in [Keys -> SUBSET Entries]
         /\ \A k \in Keys : store'[k] \in seen'[k]
<1>1. CASE UNCHANGED entries
  BY <1>1 DEF IInv, TypeOK, Based, entries
<1>2. CASE Running("set") /\ Put(Changed(base, Change))
  <2>1. queue # <<>> /\ Changed(base, Change) \in Entries
    BY <1>2, TheChange, EntryTypes DEF IInv, TypeOK, Running
  <2>2. QED
    BY <1>2, <2>1, PutOK
<1>3. CASE Running("create") /\ Put([Absent EXCEPT !.state = "entry"])
  BY <1>3, EntryTypes, PutOK DEF Running
<1>4. QED
  BY <1>1, <1>2, <1>3 DEF Survives

\* The worker's death keeps the invariant.
LEMMA RestartOK ==
  ASSUME IInv, WorkerRestart
  PROVE  IInv'
<1>1. /\ status' = [r \in Requests |-> IF r \in Waiting THEN "lost" ELSE status[r]]
      /\ queue' = <<>> /\ stage' = "read" /\ base' = Absent
      /\ sites' = [s \in Sites |-> NoSite] /\ asked' = asked /\ Survives
  BY DEF WorkerRestart, Told, Survives
<1>2. \A r \in Requests : /\ status'[r] \in Status
                          /\ status'[r] = "idle" <=> status[r] = "idle"
                          /\ status'[r] # "asked"
  BY <1>1 DEF IInv, TypeOK, Status, Waiting
<1>3. Waiting' = {} /\ InQueue' = {}
  BY <1>1, <1>2 DEF Waiting, InQueue
<1>4. \A s \in Sites : /\ sites'[s] \in Site /\ sites'[s].waiters = {} /\ sites'[s].pending = 0
                       /\ ~sites'[s].writing
  BY <1>1 DEF NoSite, Site
<1>5. TypeOK'
  <2>1. store' \in [Keys -> Entries] /\ seen' \in [Keys -> SUBSET Entries]
    BY <1>1, SurvivesOK
  <2>2. status' \in [Requests -> Status] /\ DOMAIN asked' = Requests
    BY <1>1, <1>2 DEF IInv, TypeOK
  <2>3. \A r \in Requests : status'[r] # "idle" => Proper(asked'[r])
    BY <1>1, <1>2 DEF IInv, TypeOK
  <2>4. queue' \in Seq(Task) /\ stage' \in Stage /\ base' \in Entries
    BY <1>1, EntryTypes DEF Stage
  <2>5. sites' \in [Sites -> Site]
    BY <1>1, <1>4
  <2>6. QED
    BY <2>1, <2>2, <2>3, <2>4, <2>5 DEF TypeOK
<1>6. InTurn'
  BY <1>2 DEF IInv, InTurn
<1>7. Assigned' /\ Joining' /\ Single' /\ Ordered'
  BY <1>3, <1>4 DEF Assigned, Joining, Single, Ordered
<1>8. Based'
  BY <1>1, SurvivesOK DEF Based
<1>9. QED
  BY <1>5, <1>6, <1>7, <1>8 DEF IInv

\* An edit by another computer adds to what has been seen.
LEMMA OtherComputerOK ==
  ASSUME IInv, NEW k \in Keys, NEW entry \in Foreign, OtherComputer(k, entry)
  PROVE  IInv'
<1>1. /\ store' = [store EXCEPT ![k] = entry] /\ seen' = [seen EXCEPT ![k] = seen[k] \cup {entry}]
      /\ UNCHANGED <<asked, status>> /\ UNCHANGED <<queue, stage, base>> /\ UNCHANGED sites
  BY DEF OtherComputer, RemoteEdit, running
<1>2. /\ store' \in [Keys -> Entries] /\ seen' \in [Keys -> SUBSET Entries]
      /\ \A c \in Keys : store'[c] \in seen'[c] /\ seen[c] \subseteq seen'[c]
  BY <1>1 DEF IInv, TypeOK, Based
<1>3. queue # <<>> => Head(queue).key \in Keys
  BY TheChange
<1>4. Based'
  BY <1>1, <1>2, <1>3 DEF IInv, Based
<1>5. QED
  BY <1>1, <1>2, <1>4, ProgressKeeps DEF requests, IInv, TypeOK

-----------------------------------------------------------------------------
(* Induction *)

\* The invariant holds at first ...
LEMMA InitOK == WriterInit => IInv
<1> SUFFICES ASSUME WriterInit PROVE IInv
  OBVIOUS
<1>1. /\ store \in [Keys -> Foreign] /\ seen = [k \in Keys |-> {store[k]}]
      /\ status = [r \in Requests |-> "idle"] /\ DOMAIN asked = Requests
      /\ queue = <<>> /\ stage = "read" /\ base = Absent
      /\ sites = [s \in Sites |-> NoSite]
  BY DEF WriterInit, Init
<1>2. Waiting = {} /\ InQueue = {}
  BY <1>1 DEF Waiting, InQueue
<1>3. \A s \in Sites : /\ sites[s] \in Site /\ sites[s].waiters = {} /\ sites[s].pending = 0
                       /\ ~sites[s].writing
  BY <1>1 DEF NoSite, Site
<1>4. TypeOK
  <2>1. store \in [Keys -> Entries] /\ seen \in [Keys -> SUBSET Entries]
    BY <1>1
  <2>2. status \in [Requests -> Status] /\ \A r \in Requests : status[r] = "idle"
    BY <1>1 DEF Status
  <2>3. queue \in Seq(Task) /\ stage \in Stage /\ base \in Entries
    BY <1>1, EntryTypes DEF Stage
  <2>4. sites \in [Sites -> Site]
    BY <1>1, <1>3
  <2>5. QED
    BY <1>1, <2>1, <2>2, <2>3, <2>4 DEF TypeOK
<1>5. InTurn
  BY <1>1 DEF InTurn
<1>6. Assigned /\ Joining /\ Single /\ Ordered
  BY <1>2, <1>3 DEF Assigned, Joining, Single, Ordered
<1>7. Based
  BY <1>1 DEF Based
<1>8. QED
  BY <1>4, <1>5, <1>6, <1>7 DEF IInv

\* ... is kept by every step ...
LEMMA NextOK == IInv /\ [WriterNext]_allVars => IInv'
<1> SUFFICES ASSUME IInv, [WriterNext]_allVars PROVE IInv'
  OBVIOUS
<1>1. ASSUME NEW r \in Requests, NEW value \in Values, NEW s \in Sites, SetSiteDisabled(r, s, value)
      PROVE  IInv'
  BY <1>1, SetSiteDisabledOK
<1>2. ASSUME NEW r \in Requests, NEW value \in Values, NEW field \in Fields, UpdateSettings(r, field, value)
      PROVE  IInv'
  BY <1>2, UpdateSettingsOK
<1>3. CASE WriterStep
  BY <1>3, ReadOK, TakeSlotOK, SetLandsOK, CreateLandsOK, AnswerOK, RefusedOK DEF WriterStep
<1>4. CASE WorkerRestart
  BY <1>4, RestartOK
<1>5. CASE UNCHANGED <<entries, requests, running, sites>>
  <2>1. Based'
    BY <1>5 DEF IInv, Based, entries, running
  <2>2. QED
    BY <1>5, <2>1, ProgressKeeps DEF IInv, TypeOK, entries, running
<1>6. ASSUME NEW k \in Keys, NEW entry \in Foreign, OtherComputer(k, entry)
      PROVE  IInv'
  BY <1>6, OtherComputerOK
<1>7. QED
  BY <1>1, <1>2, <1>3, <1>4, <1>5, <1>6 DEF WriterNext, TimePasses, allVars

\* ... and so always holds.
LEMMA Inductive == WriterSpec => []IInv
BY InitOK, NextOK, PTL DEF WriterSpec

-----------------------------------------------------------------------------
(* The refinement of AtomicStore *)

\* What each request was told, as AtomicStore sees it (the mapping of Atomic)
Shown == [r \in Requests |-> IF r \in InStore THEN "written" ELSE status[r]]

\* The requests in effect for AtomicStore are those of the task that has landed.
LEMMA ShownIs ==
  ASSUME IInv
  PROVE  /\ InStore \subseteq Waiting /\ Waiting \subseteq Requests
         /\ stage # "landed" => InStore = {}
         /\ queue # <<>> /\ stage = "landed" => InStore = Head(queue).batch
         /\ Atomic!Waiting = Waiting \ InStore
         /\ Atomic!InEffect = InStore
<1>1. InStore \subseteq Waiting /\ Waiting \subseteq Requests
  BY TheChange DEF InStore, Running, Waiting
<1>2. \A r \in Requests : status[r] # "written"
  BY DEF IInv, TypeOK, Status
<1>3. Atomic!Waiting = Waiting \ InStore
  BY <1>1 DEF Atomic!Waiting, Waiting, Atomic!Requests, Requests
<1>4. Atomic!InEffect = InStore
  BY <1>1, <1>2 DEF Atomic!InEffect, Atomic!Requests, Requests
<1>5. QED
  BY <1>1, <1>3, <1>4 DEF InStore, Running

\* What waits for the same key is behind the running task.
LEMMA Behind ==
  ASSUME IInv, queue # <<>>, NEW r \in queue[1].batch, NEW q \in Waiting \ queue[1].batch,
         asked[q].key = queue[1].key
  PROVE  r < q
<1>1. /\ queue[1].key \in Keys /\ 1 \in InQueue
  BY TheChange
<1>2. CASE \E i \in InQueue : q \in queue[i].batch
  <2>1. PICK i \in InQueue : q \in queue[i].batch
    BY <1>2
  <2>2. 1 < i /\ queue[i].key = queue[1].key
    BY <1>1, <2>1 DEF IInv, Assigned, InQueue
  <2>3. QED
    BY <1>1, <2>1, <2>2 DEF IInv, Ordered
<1>3. CASE \E s \in Sites : q \in sites[s].waiters
  <2>1. PICK s \in Sites : q \in sites[s].waiters
    BY <1>3
  <2>2. s = queue[1].key
    BY <2>1 DEF IInv, Assigned
  <2>3. QED
    BY <1>1, <2>1, <2>2 DEF IInv, Ordered
<1>4. QED
  BY <1>2, <1>3 DEF IInv, Assigned

\* The task at the head is a batch of AtomicStore.
LEMMA HeadIsBatch ==
  ASSUME IInv, queue # <<>>, stage # "landed"
  PROVE  /\ Head(queue).batch \in SUBSET Atomic!Waiting
         /\ Atomic!Batch(Head(queue).key, Head(queue).batch)
<1> DEFINE task == Head(queue)
<1>1. /\ task.key \in Keys /\ task = queue[1] /\ 1 \in InQueue /\ task.batch # {}
      /\ \A q \in task.batch : q \in Waiting /\ asked[q].key = task.key
  BY TheChange
<1>2. Atomic!Waiting = Waiting
  BY ShownIs
<1>3. \A r \in task.batch, q \in Waiting \ task.batch : asked[q].key = task.key => r < q
  BY <1>1, Behind
<1>4. QED
  BY <1>1, <1>2, <1>3 DEF Atomic!Batch

\* A request is a request.
LEMMA AskMaps ==
  ASSUME IInv, NEW r \in Requests, NEW request \in Request, Requested(r, request),
         InStore' = InStore, UNCHANGED entries
  PROVE  Atomic!Ask(r, request)
<1>1. r \notin InStore
  BY ShownIs DEF Requested, Waiting
<1>2. /\ status[r] = "idle" /\ \A q \in Requests : q < r => status[q] # "idle"
      /\ asked' = [asked EXCEPT ![r] = request] /\ status' = [status EXCEPT ![r] = "asked"]
      /\ status \in [Requests -> Status]
  BY DEF Requested, IInv, TypeOK
<1>3. Shown' = [Shown EXCEPT ![r] = "asked"]
  BY <1>1, <1>2 DEF Shown
<1>4. Shown[r] = "idle" /\ \A q \in Requests : q < r => Shown[q] # "idle"
  BY <1>1, <1>2 DEF Shown
<1>5. QED
  BY <1>2, <1>3, <1>4 DEF Atomic!Ask, Atomic!Requests, Requests, Shown, entries

\* A write that lands puts the task's requests into effect.
LEMMA CommitMaps ==
  ASSUME IInv, SetLands
  PROVE  \E batch \in SUBSET Atomic!Waiting : Atomic!Commit(Head(queue).key, batch)
<1> DEFINE task == Head(queue)
<1>1. /\ queue # <<>> /\ stage = "set" /\ Put(Changed(base, Change)) /\ stage' = "landed"
      /\ UNCHANGED <<status, asked, queue>>
  BY DEF SetLands, Running, Goes, requests
<1>2. base \in seen[task.key] \ {Corrupt}
  BY <1>1 DEF IInv, Based
<1>3. /\ task.batch \in SUBSET Atomic!Waiting /\ Atomic!Batch(task.key, task.batch)
  BY <1>1, HeadIsBatch
<1>4. Atomic!Written(task.key, task.batch, base)
  BY <1>1, TheChange DEF IInv, TypeOK, Put, Change, Atomic!Written, Atomic!Changed, Changed, Atomic!Newest, Newest
<1>5. Shown' = [r \in Requests |-> IF r \in task.batch THEN "written" ELSE Shown[r]]
  <2>1. InStore' = task.batch /\ InStore = {}
    BY <1>1 DEF InStore, Running
  <2>2. QED
    BY <1>1, <2>1 DEF Shown
<1>6. Atomic!Told(task.batch, "written")
  BY <1>5 DEF Atomic!Told, Shown, Atomic!Requests, Requests
<1>7. QED
  BY <1>1, <1>2, <1>3, <1>4, <1>6 DEF Atomic!Commit, Atomic!Corrupt, Corrupt

\* Creating the settings entry is AtomicStore's creation.
LEMMA CreateMaps ==
  ASSUME IInv, CreateLands
  PROVE  Head(queue).key \in Keys /\ Atomic!Create(Head(queue).key)
<1> DEFINE task == Head(queue)
<1>1. /\ queue # <<>> /\ stage = "create" /\ Put([Absent EXCEPT !.state = "entry"])
      /\ stage' \in {"slot", "invalid"} /\ UNCHANGED <<status, asked>>
  BY DEF CreateLands, Running, Goes, requests
<1>2. task.key \in Keys /\ Absent \in seen[task.key]
  BY <1>1, TheChange DEF IInv, Based
<1>3. InStore = {} /\ InStore' = {}
  BY <1>1 DEF InStore, Running
<1>4. Shown' = Shown
  BY <1>1, <1>3 DEF Shown
<1>5. /\ store' = [store EXCEPT ![task.key] = [Absent EXCEPT !.state = "entry"]]
      /\ seen' = [seen EXCEPT ![task.key] = {store'[task.key]}]
  BY <1>1, <1>2 DEF Put, IInv, TypeOK
<1>6. QED
  BY <1>1, <1>2, <1>4, <1>5 DEF Atomic!Create, Atomic!Absent, Absent, Shown, Atomic!Requests, Requests

\* The acknowledgement of a task is that of its batch.
LEMMA AnswerMaps ==
  ASSUME IInv, Answer
  PROVE  \E batch \in SUBSET Atomic!InEffect : Atomic!Acknowledge(batch)
<1> DEFINE batch == Head(queue).batch
<1>1. Answers("done") /\ stage = "landed"
  BY AnswerOK
<1>2. InStore = batch /\ InStore' = {} /\ batch # {} /\ Atomic!InEffect = batch
  BY <1>1, ShownIs, TheChange DEF Answers, InStore, Running
<1>3. Shown' = [r \in Requests |-> IF r \in batch THEN "done" ELSE Shown[r]]
  BY <1>1, <1>2 DEF Shown, Answers
<1>4. Atomic!Told(batch, "done")
  BY <1>3 DEF Atomic!Told, Shown, Atomic!Requests, Requests
<1>5. QED
  BY <1>1, <1>2, <1>4 DEF Atomic!Acknowledge, Answers, entries

\* A refusal is one of the whole batch.
LEMMA RefusedMaps ==
  ASSUME IInv, Refused
  PROVE  /\ Head(queue).key \in Keys
         /\ \E batch \in SUBSET Atomic!Waiting : Atomic!Refuse(Head(queue).key, batch)
<1> DEFINE batch == Head(queue).batch
<1>1. Answers("refused") /\ stage # "landed" /\ queue # <<>>
  BY RefusedOK DEF Answers
<1>2. /\ Head(queue).key \in Keys /\ batch \in SUBSET Atomic!Waiting
      /\ Atomic!Batch(Head(queue).key, batch)
  BY <1>1, HeadIsBatch, TheChange
<1>3. InStore = {} /\ InStore' = {}
  BY <1>1 DEF InStore, Running, Answers
<1>4. Shown' = [r \in Requests |-> IF r \in batch THEN "refused" ELSE Shown[r]]
  BY <1>1, <1>3 DEF Shown, Answers
<1>5. Atomic!Told(batch, "refused")
  BY <1>4 DEF Atomic!Told, Shown, Atomic!Requests, Requests
<1>6. QED
  BY <1>1, <1>2, <1>5 DEF Atomic!Refuse, Answers, entries

\* The worker's death loses what waits, and perhaps lands one write.
LEMMA RestartMaps ==
  ASSUME IInv, WorkerRestart
  PROVE  Atomic!Lose
<1>1. /\ status' = [r \in Requests |-> IF r \in Waiting THEN "lost" ELSE status[r]]
      /\ queue' = <<>> /\ asked' = asked /\ Survives
  BY DEF WorkerRestart, Told, Survives
<1>2. InStore' = {} /\ Atomic!Waiting \cup Atomic!InEffect = Waiting
  BY <1>1, ShownIs DEF InStore, Running
<1>3. Shown' = [r \in Requests |-> IF r \in Waiting THEN "lost" ELSE Shown[r]]
  BY <1>1, <1>2, ShownIs DEF Shown
<1>4. Atomic!Told(Atomic!Waiting \cup Atomic!InEffect, "lost")
  BY <1>2, <1>3 DEF Atomic!Told, Shown, Atomic!Requests, Requests
<1>5. CASE UNCHANGED entries
  BY <1>1, <1>4, <1>5 DEF Atomic!Lose, entries
<1>6. CASE Running("set") /\ Put(Changed(base, Change))
  <2>1. queue # <<>> /\ stage = "set"
    BY <1>6 DEF Running
  <2>2. /\ Head(queue).key \in Keys /\ Head(queue).batch \in SUBSET Atomic!Waiting
        /\ Atomic!Batch(Head(queue).key, Head(queue).batch)
    BY <2>1, HeadIsBatch, TheChange
  <2>3. base \in seen[Head(queue).key] \ {Corrupt}
    BY <2>1 DEF IInv, Based
  <2>4. Atomic!Written(Head(queue).key, Head(queue).batch, base)
    BY <1>6, <2>2 DEF IInv, TypeOK, Put, Change, Atomic!Written, Atomic!Changed, Changed,
                      Atomic!Newest, Newest
  <2>5. QED
    BY <1>1, <1>4, <2>2, <2>3, <2>4 DEF Atomic!Lose, Atomic!Corrupt, Corrupt
<1>7. CASE Running("create") /\ Put([Absent EXCEPT !.state = "entry"])
  <2>1. queue # <<>> /\ stage = "create"
    BY <1>7 DEF Running
  <2>2. Head(queue).key \in Keys /\ Absent \in seen[Head(queue).key]
    BY <2>1, TheChange DEF IInv, Based
  <2>3. /\ store' = [store EXCEPT ![Head(queue).key] = [Absent EXCEPT !.state = "entry"]]
        /\ seen' = [seen EXCEPT ![Head(queue).key] = {store'[Head(queue).key]}]
    BY <1>7, <2>2 DEF Put, IInv, TypeOK
  <2>4. QED
    BY <1>1, <1>4, <2>2, <2>3 DEF Atomic!Lose, Atomic!Absent, Absent
<1>8. QED
  BY <1>1, <1>5, <1>6, <1>7 DEF Survives

\* What changes neither the entries nor the requests is not seen.
LEMMA StuttersMap ==
  ASSUME IInv, UNCHANGED <<entries, requests>>, InStore' = InStore
  PROVE  UNCHANGED <<store, seen, asked, Shown>>
BY DEF entries, requests, Shown

\* A new request joins behind the running task.
LEMMA SiteRequest ==
  ASSUME NEW s \in Sites, NEW value \in Values
  PROVE  Proper([key |-> s, field |-> SiteField, value |-> value])
BY DEF Proper, Request, Sites

\* Switching a site puts nothing into effect.
LEMMA StoredAlike ==
  ASSUME IInv, NEW r \in Requests, NEW s \in Sites, NEW value \in Values, SetSiteDisabled(r, s, value)
  PROVE  InStore' = InStore
<1>1. stage' = stage
  BY DEF SetSiteDisabled
<1>2. CASE sites[s].writing
  BY <1>1, <1>2 DEF SetSiteDisabled, InStore, Running
<1>3. CASE ~sites[s].writing
  <2>1. queue' = Append(queue, [key |-> s, batch |-> {r}]) /\ s \in Keys
    BY <1>3 DEF SetSiteDisabled, Sites
  <2>2. Longer(r, s)
    BY <2>1, EnqueueOK
  <2>3. QED
    BY <1>1, <2>2 DEF Longer, InStore, Running, IInv, Based
<1>4. QED
  BY <1>2, <1>3

\* Nor does asking for a patch of the settings.
LEMMA PatchStoredAlike ==
  ASSUME IInv, NEW r \in Requests, NEW field \in Fields, NEW value \in Values,
         UpdateSettings(r, field, value)
  PROVE  InStore' = InStore
<1>1. stage' = stage /\ Longer(r, Settings)
  BY EnqueueOK DEF UpdateSettings
<1>2. QED
  BY <1>1 DEF Longer, InStore, Running, IInv, Based

\* Every step is one of AtomicStore, or changes nothing that it sees.
LEMMA StepMaps ==
  ASSUME IInv, [WriterNext]_allVars
  PROVE  Atomic!Next \/ UNCHANGED <<store, seen, asked, Shown>>
<1>1. ASSUME NEW r \in Requests, NEW value \in Values, NEW s \in Sites, SetSiteDisabled(r, s, value)
      PROVE  Atomic!Next
  <2> DEFINE request == [key |-> s, field |-> SiteField, value |-> value]
  <2>1. request \in Request /\ Requested(r, request) /\ UNCHANGED entries /\ stage' = stage
    BY <1>1 DEF SetSiteDisabled, Request, Sites
  <2>2. InStore' = InStore
    BY <1>1, StoredAlike
  <2> HIDE DEF request
  <2>3. Atomic!Ask(r, request)
    BY <2>1, <2>2, AskMaps
  <2>4. QED
    BY <2>1, <2>3 DEF Atomic!Next, Atomic!Requests, Requests, Atomic!Request, Request
<1>2. ASSUME NEW r \in Requests, NEW value \in Values, NEW field \in Fields, UpdateSettings(r, field, value)
      PROVE  Atomic!Next
  <2> DEFINE request == [key |-> Settings, field |-> field, value |-> value]
  <2>1. request \in Request /\ Requested(r, request) /\ UNCHANGED entries /\ stage' = stage
    BY <1>2 DEF UpdateSettings, Request
  <2>2. InStore' = InStore
    BY <1>2, PatchStoredAlike
  <2> HIDE DEF request
  <2>3. Atomic!Ask(r, request)
    BY <2>1, <2>2, AskMaps
  <2>4. QED
    BY <2>1, <2>3 DEF Atomic!Next, Atomic!Requests, Requests, Atomic!Request, Request
<1>3. CASE Read \/ TakeSlot
  <2>1. stage # "landed" /\ stage' # "landed" /\ UNCHANGED <<entries, requests>>
    BY <1>3 DEF Read, TakeSlot, Running, Goes
  <2>2. InStore' = InStore
    BY <2>1 DEF InStore, Running
  <2>3. QED
    BY <2>1, <2>2, StuttersMap
<1>4. CASE SetLands
  <2>1. Head(queue).key \in Keys
    BY <1>4, TheChange DEF SetLands, Running
  <2>2. QED
    BY <1>4, <2>1, CommitMaps DEF Atomic!Next
<1>5. CASE CreateLands
  BY <1>5, CreateMaps DEF Atomic!Next
<1>6. CASE Answer
  BY <1>6, AnswerMaps DEF Atomic!Next
<1>7. CASE Refused
  BY <1>7, RefusedMaps DEF Atomic!Next
<1>8. CASE WorkerRestart
  BY <1>8, RestartMaps DEF Atomic!Next
<1>9. ASSUME NEW k \in Keys, NEW entry \in Foreign, OtherComputer(k, entry)
      PROVE  Atomic!Next
  <2>1. RemoteEdit(k, entry) /\ UNCHANGED <<queue, stage>>
    BY <1>9 DEF OtherComputer, running
  <2>2. Shown' = Shown
    BY <2>1 DEF RemoteEdit, Shown, InStore, Running
  <2>3. Atomic!RemoteEdit(k, entry)
    BY <2>1, <2>2 DEF RemoteEdit, Atomic!RemoteEdit, Shown, Atomic!Requests, Requests
  <2>4. QED
    BY <2>3 DEF Atomic!Next
<1>10. CASE UNCHANGED <<entries, requests, running>>
  <2>1. InStore' = InStore
    BY <1>10 DEF InStore, Running, running
  <2>2. QED
    BY <1>10, <2>1, StuttersMap
<1>11. QED
  BY <1>1, <1>2, <1>3, <1>4, <1>5, <1>6, <1>7, <1>8, <1>9, <1>10
     DEF WriterNext, WriterStep, TimePasses, allVars

\* The initial states are initial states of AtomicStore.
LEMMA InitMaps == WriterInit => Atomic!Init
<1> SUFFICES ASSUME WriterInit PROVE Atomic!Init
  OBVIOUS
<1>1. InStore = {} /\ Init
  BY DEF WriterInit, InStore, Running
<1>2. Shown = [r \in Requests |-> "idle"]
  BY <1>1 DEF Init, Shown
<1>3. QED
  BY <1>1, <1>2 DEF Init, Atomic!Init, Shown, Atomic!Requests, Requests

\* The writer keeps the promise of AtomicStore, for any keys, fields and values,
\* any number of requests, restarts and edits: no change is lost, taken from a
\* stale entry, written halfway or overtaken by another.
\* (storage-writer.ts:22-23, 76-84, 158-216, 276-296)
THEOREM Implements == WriterSpec => IsAtomic
<1>1. IInv /\ [WriterNext]_allVars => [Atomic!Next]_<<store, seen, asked, Shown>>
  BY StepMaps
<1>2. QED
  BY <1>1, InitMaps, Inductive, PTL DEF WriterSpec, IsAtomic, Atomic!Spec, Shown

-----------------------------------------------------------------------------
(* The newest request counts *)

\* A later request may change the same field.
Overtaken(r) == \E q \in Requests : /\ q > r /\ status[q] # "idle"
                                    /\ asked[q].key = asked[r].key
                                    /\ asked[q].field = asked[r].field
Applied(r) == status[r] = "done" \/ r \in InStore
Holds(r) == store[asked[r].key].data[asked[r].field] = asked[r].value

\* Without edits elsewhere a key has held only what it holds, ...
Alone == \A k \in Keys : seen[k] = {store[k]}
\* ... a change written stays until a later one, ...
Kept == \A r \in Requests : Applied(r) /\ ~Overtaken(r) => Holds(r)
\* ... and what is done has been asked before what waits.
DoneFirst == \A r \in Requests : \A q \in Waiting :
                 status[r] = "done" /\ asked[q].key = asked[r].key => r < q

NInv == /\ edits \in Nat
        /\ edits = 0 => Alone /\ Kept /\ DoneFirst

\* A write by the running task: the change is there, the others' are kept.
LEMMA ChangeIsThere ==
  ASSUME IInv, Alone, Kept, DoneFirst, queue # <<>>, stage = "set", Put(Changed(base, Change))
  PROVE  /\ Alone'
         /\ \A r \in Requests : (status[r] = "done" \/ r \in Head(queue).batch) /\ ~Overtaken(r)
               => store'[asked[r].key].data[asked[r].field] = asked[r].value
<1> DEFINE k == Head(queue).key
           batch == Head(queue).batch
           newest == Newest(batch)
<1>1. /\ k \in Keys /\ batch \subseteq Waiting /\ newest \in batch /\ Change = asked[newest]
      /\ \A q \in batch : q <= newest /\ Proper(asked[q]) /\ asked[q].key = k
      /\ Change \in Request /\ Change.key = k /\ Head(queue) = queue[1] /\ 1 \in InQueue
  BY TheChange DEF Change
<1>2. base \in Entries /\ base = store[k]
  BY <1>1 DEF IInv, TypeOK, Based, Alone
<1>3. /\ Changed(base, Change) \in Entries
      /\ Changed(base, Change).data[Change.field] = Change.value
      /\ \A f \in Fields : f # Change.field => Changed(base, Change).data[f] = base.data[f]
  BY <1>1, <1>2, EntryTypes
<1>4. /\ store'[k] = Changed(base, Change) /\ seen'[k] = {store'[k]}
      /\ \A c \in Keys \ {k} : store'[c] = store[c] /\ seen'[c] = seen[c]
  BY <1>1, <1>3, PutOK DEF Put, IInv, TypeOK
<1>5. Alone'
  BY <1>4 DEF Alone
<1>6. \A r \in Requests : status[r] = "done" => Proper(asked[r])
  BY DEF IInv, TypeOK
<1> HIDE DEF k, batch, newest
<1>7. ASSUME NEW r \in Requests, status[r] = "done", ~Overtaken(r)
      PROVE  store'[asked[r].key].data[asked[r].field] = asked[r].value
  <2>1. Proper(asked[r]) /\ asked[r].key \in Keys /\ asked[r].field \in Fields
    BY <1>6, <1>7 DEF Proper, Request
  <2>2. Holds(r)
    BY <1>7 DEF Kept, Applied
  <2>3. CASE asked[r].key # k
    BY <1>4, <2>1, <2>2, <2>3 DEF Holds
  <2>4. CASE asked[r].key = k
    <3>1. newest \in Waiting /\ newest \in Requests /\ status[newest] # "idle" /\ asked[newest].key = k
      BY <1>1 DEF Waiting
    <3>2. r < newest
      BY <1>7, <2>4, <3>1 DEF DoneFirst
    <3>3. asked[newest].field # asked[r].field
      BY <1>7, <2>4, <3>1, <3>2 DEF Overtaken, Requests
    <3>4. QED
      BY <1>1, <1>2, <1>3, <1>4, <2>1, <2>2, <2>4, <3>3 DEF Holds
  <2>5. QED
    BY <2>3, <2>4
<1>8. ASSUME NEW r \in batch, r \in Requests, ~Overtaken(r)
      PROVE  store'[asked[r].key].data[asked[r].field] = asked[r].value
  <2>1. newest \in Requests /\ status[newest] # "idle" /\ r <= newest
    BY <1>1 DEF Waiting
  <2>2. r = newest
    <3>1. CASE k = Settings
      BY <1>1, <1>8, <3>1 DEF IInv, Single, k, batch
    <3>2. CASE k # Settings
      <4>1. asked[r].field = SiteField /\ asked[newest].field = SiteField
        BY <1>1, <1>8, <3>2 DEF Proper, Sites
      <4>2. asked[r].key = k /\ asked[newest].key = k
        BY <1>1, <1>8
      <4>3. ~(newest > r)
        BY <1>8, <2>1, <4>1, <4>2 DEF Overtaken
      <4>4. QED
        BY <1>8, <2>1, <4>3 DEF Requests
    <3>3. QED
      BY <3>1, <3>2
  <2>3. QED
    BY <1>1, <1>3, <1>4, <2>2
<1>9. QED
  BY <1>5, <1>7, <1>8 DEF batch

\* Creating the settings entry puts the defaults where they were in effect.
LEMMA DefaultsAreThere ==
  ASSUME IInv, Alone, Kept, queue # <<>>, stage = "create", Put([Absent EXCEPT !.state = "entry"])
  PROVE  /\ Alone'
         /\ \A r \in Requests : status[r] = "done" /\ ~Overtaken(r)
               => store'[asked[r].key].data[asked[r].field] = asked[r].value
<1> DEFINE k == Head(queue).key
           entry == [Absent EXCEPT !.state = "entry"]
<1>1. k \in Keys /\ store[k] = Absent
  BY TheChange DEF IInv, Based, Alone
<1>2. entry \in Entries /\ entry.data = Absent.data
  BY EntryTypes
<1>3. Put(entry)
  OBVIOUS
<1> HIDE DEF entry
<1>4. /\ store'[k] = entry /\ seen'[k] = {store'[k]}
      /\ \A c \in Keys \ {k} : store'[c] = store[c] /\ seen'[c] = seen[c]
  BY <1>1, <1>2, <1>3, PutOK DEF Put, IInv, TypeOK
<1> HIDE DEF k
<1>5. Alone'
  BY <1>4 DEF Alone
<1>6. \A c \in Keys : store'[c].data = store[c].data
  BY <1>1, <1>2, <1>4
<1>7. \A r \in Requests : status[r] = "done" => asked[r].key \in Keys
  BY DEF IInv, TypeOK, Proper, Request
<1>8. QED
  BY <1>5, <1>6, <1>7 DEF Kept, Applied, Holds

\* A request made now is behind all that are done or wait.
LEMMA AskKeepsNewest ==
  ASSUME IInv, Alone, Kept, DoneFirst, NEW r \in Requests, NEW request, Proper(request),
         Requested(r, request), InStore' = InStore, UNCHANGED entries
  PROVE  Alone' /\ Kept' /\ DoneFirst'
<1>1. /\ status[r] = "idle" /\ status'[r] = "asked" /\ Waiting' = Waiting \cup {r}
      /\ \A q \in Requests \ {r} : asked'[q] = asked[q] /\ status'[q] = status[q]
  BY RequestedIsNewest
<1>2. \A q \in Requests : status[q] # "idle" => q < r
  <2>1. \A q \in Requests : r < q => status[q] = "idle"
    BY <1>1 DEF IInv, InTurn
  <2>2. QED
    BY <1>1, <2>1 DEF Requests
<1>3. Alone'
  BY DEF Alone, entries
<1>4. r \notin InStore
  BY <1>1, ShownIs DEF Waiting
<1>5. ASSUME NEW q \in Requests, Applied(q)', ~Overtaken(q)'
      PROVE  Holds(q)'
  <2>1. q # r /\ Applied(q)
    BY <1>1, <1>4, <1>5 DEF Applied
  <2>2. ASSUME Overtaken(q)
        PROVE  FALSE
    <3>1. PICK p \in Requests : /\ p > q /\ status[p] # "idle"
                                /\ asked[p].key = asked[q].key /\ asked[p].field = asked[q].field
      BY <2>2 DEF Overtaken
    <3>2. p # r
      BY <1>1, <3>1
    <3>3. asked'[p] = asked[p] /\ asked'[q] = asked[q] /\ status'[p] # "idle"
      BY <1>1, <2>1, <3>1, <3>2
    <3>4. QED
      BY <1>5, <3>1, <3>3 DEF Overtaken
  <2>3. Holds(q)
    BY <2>1, <2>2 DEF Kept
  <2>4. QED
    BY <1>1, <2>1, <2>3 DEF Holds, entries
<1>6. Kept'
  BY <1>5 DEF Kept
<1>7. ASSUME NEW p \in Requests, NEW q \in Waiting', status'[p] = "done", asked'[q].key = asked'[p].key
      PROVE  p < q
  <2>1. p # r /\ status[p] = "done" /\ asked'[p] = asked[p]
    BY <1>1, <1>7
  <2>2. CASE q = r
    BY <1>2, <2>1, <2>2
  <2>3. CASE q # r
    BY <1>1, <1>7, <2>1, <2>3 DEF DoneFirst, Waiting
  <2>4. QED
    BY <2>2, <2>3
<1>8. DoneFirst'
  BY <1>7 DEF DoneFirst
<1>9. QED
  BY <1>3, <1>6, <1>8

\* An answer makes done what has been written, and nothing of its key before.
LEMMA AnswerKeepsNewest ==
  ASSUME IInv, Alone, Kept, DoneFirst, NEW answer \in {"done", "refused"}, Answers(answer),
         answer = "done" <=> stage = "landed"
  PROVE  Alone' /\ Kept' /\ DoneFirst'
<1> DEFINE batch == Head(queue).batch
<1>1. /\ batch = queue[1].batch /\ batch \subseteq Waiting /\ Head(queue) = queue[1]
      /\ \A q \in batch : asked[q].key = queue[1].key
  BY TheChange DEF Answers
<1>2. /\ UNCHANGED <<store, seen, asked>> /\ stage' = "read" /\ queue # <<>>
      /\ Waiting' = Waiting \ batch
      /\ \A r \in Requests : status'[r] = (IF r \in batch THEN answer ELSE status[r])
  BY <1>1, AnswersKeeps DEF Answers, entries
<1>3. InStore' = {} /\ (stage = "landed" => InStore = batch)
  BY <1>2 DEF InStore, Running
<1> HIDE DEF batch
<1>4. \A r \in Requests : status'[r] = "done" => Applied(r)
  BY <1>2, <1>3 DEF Applied
<1>5. \A r \in Requests : status'[r] # "idle" <=> status[r] # "idle"
  BY <1>1, <1>2 DEF Waiting
<1>6. \A r \in Requests : Overtaken(r)' <=> Overtaken(r)
  BY <1>2, <1>5 DEF Overtaken
<1>7. Kept'
  BY <1>2, <1>3, <1>4, <1>6 DEF Kept, Applied, Holds
<1>8. ASSUME NEW r \in Requests, NEW q \in Waiting', status'[r] = "done", asked'[q].key = asked'[r].key
      PROVE  r < q
  <2>1. q \in Waiting \ batch /\ asked[q].key = asked[r].key
    BY <1>2, <1>8
  <2>2. CASE r \notin batch
    BY <1>2, <1>8, <2>1, <2>2 DEF DoneFirst
  <2>3. CASE r \in batch
    BY <1>1, <1>2, <2>1, <2>3, Behind
  <2>4. QED
    BY <2>2, <2>3
<1>9. QED
  BY <1>2, <1>7, <1>8 DEF Alone, DoneFirst

\* Every step keeps the newest request's change.
LEMMA NewestNext ==
  ASSUME IInv, NInv, [WriterNext]_allVars
  PROVE  NInv'
<1>1. ASSUME NEW k \in Keys, NEW entry \in Foreign, OtherComputer(k, entry)
      PROVE  NInv'
  BY <1>1 DEF NInv, OtherComputer
<1>2. ASSUME edits' = edits, edits = 0 => Alone' /\ Kept' /\ DoneFirst'
      PROVE  NInv'
  BY <1>2 DEF NInv
<1>3. SUFFICES ASSUME edits' = edits, edits = 0, Alone, Kept, DoneFirst, WriterNext \/ UNCHANGED allVars
               PROVE  Alone' /\ Kept' /\ DoneFirst'
  <2>1. CASE \E k \in Keys, entry \in Foreign : OtherComputer(k, entry)
    BY <2>1, <1>1
  <2>2. CASE ~\E k \in Keys, entry \in Foreign : OtherComputer(k, entry)
    <3>1. edits' = edits
      BY <2>2 DEF WriterNext, SetSiteDisabled, UpdateSettings, WriterStep, Read, TakeSlot, SetLands,
                  CreateLands, Answer, Refused, Finish, Goes, WorkerRestart, TimePasses, allVars
    <3>2. QED
      BY <1>2, <1>3, <3>1 DEF NInv
  <2>3. QED
    BY <2>1, <2>2
<1>4. ASSUME NEW r \in Requests, NEW value \in Values, NEW s \in Sites, SetSiteDisabled(r, s, value)
      PROVE  Alone' /\ Kept' /\ DoneFirst'
  <2> DEFINE request == [key |-> s, field |-> SiteField, value |-> value]
  <2>1. s \in Keys /\ Requested(r, request) /\ UNCHANGED entries /\ stage' = stage
    BY <1>4 DEF SetSiteDisabled, Sites
  <2>2. Proper(request)
    BY <2>1, SiteRequest
  <2>3. InStore' = InStore
    BY <1>4, StoredAlike
  <2> HIDE DEF request
  <2>4. QED
    BY <1>3, <2>1, <2>2, <2>3, AskKeepsNewest
<1>5. ASSUME NEW r \in Requests, NEW value \in Values, NEW field \in Fields, UpdateSettings(r, field, value)
      PROVE  Alone' /\ Kept' /\ DoneFirst'
  <2> DEFINE request == [key |-> Settings, field |-> field, value |-> value]
  <2>1. Proper(request) /\ Requested(r, request) /\ UNCHANGED entries
    BY <1>5 DEF UpdateSettings, Proper, Request, Sites
  <2>2. InStore' = InStore
    BY <1>5, PatchStoredAlike
  <2> HIDE DEF request
  <2>3. QED
    BY <1>3, <2>1, <2>2, AskKeepsNewest
<1>6. CASE UNCHANGED <<entries, requests>> /\ InStore' = InStore
  <2>1. Waiting' = Waiting /\ \A r \in Requests : Overtaken(r)' <=> Overtaken(r)
    BY <1>6 DEF Waiting, Overtaken, requests
  <2>2. QED
    BY <1>3, <1>6, <2>1 DEF Alone, Kept, Applied, Holds, DoneFirst, entries, requests
<1>7. CASE Read \/ TakeSlot
  <2>1. UNCHANGED <<entries, requests>> /\ stage # "landed" /\ stage' # "landed"
    BY <1>7 DEF Read, TakeSlot, Running, Goes
  <2>2. InStore' = InStore
    BY <2>1 DEF InStore, Running
  <2>3. QED
    BY <1>6, <2>1, <2>2
<1>8. CASE SetLands
  <2>1. /\ queue # <<>> /\ stage = "set" /\ Put(Changed(base, Change)) /\ stage' = "landed"
        /\ UNCHANGED <<status, asked, queue>>
    BY <1>8 DEF SetLands, Running, Goes, requests
  <2>2. InStore' = Head(queue).batch
    BY <2>1 DEF InStore, Running
  <2>3. Waiting' = Waiting /\ \A r \in Requests : Overtaken(r)' <=> Overtaken(r)
    BY <2>1 DEF Waiting, Overtaken
  <2>4. /\ Alone'
        /\ \A r \in Requests : (status[r] = "done" \/ r \in Head(queue).batch) /\ ~Overtaken(r)
               => store'[asked[r].key].data[asked[r].field] = asked[r].value
    BY <1>3, <2>1, ChangeIsThere
  <2>5. Kept'
    BY <2>1, <2>2, <2>3, <2>4 DEF Kept, Applied, Holds
  <2>6. DoneFirst'
    BY <1>3, <2>1, <2>3 DEF DoneFirst
  <2>7. QED
    BY <2>4, <2>5, <2>6
<1>9. CASE CreateLands
  <2>1. /\ queue # <<>> /\ stage = "create" /\ Put([Absent EXCEPT !.state = "entry"])
        /\ stage' \in {"slot", "invalid"} /\ UNCHANGED <<status, asked>>
    BY <1>9 DEF CreateLands, Running, Goes, requests
  <2>2. InStore' = {}
    BY <2>1 DEF InStore, Running
  <2>3. Waiting' = Waiting /\ \A r \in Requests : Overtaken(r)' <=> Overtaken(r)
    BY <2>1 DEF Waiting, Overtaken
  <2>4. /\ Alone'
        /\ \A r \in Requests : status[r] = "done" /\ ~Overtaken(r)
               => store'[asked[r].key].data[asked[r].field] = asked[r].value
    BY <1>3, <2>1, DefaultsAreThere
  <2>5. Kept'
    BY <2>1, <2>2, <2>3, <2>4 DEF Kept, Applied, Holds
  <2>6. DoneFirst'
    BY <1>3, <2>1, <2>3 DEF DoneFirst
  <2>7. QED
    BY <2>4, <2>5, <2>6
<1>10. CASE Answer
  BY <1>3, <1>10, AnswerOK, AnswerKeepsNewest
<1>11. CASE Refused
  BY <1>3, <1>11, RefusedOK, AnswerKeepsNewest
<1>12. CASE WorkerRestart
  <2>1. /\ status' = [r \in Requests |-> IF r \in Waiting THEN "lost" ELSE status[r]]
        /\ queue' = <<>> /\ asked' = asked /\ Survives
    BY <1>12 DEF WorkerRestart, Told, Survives
  <2>2. \A r \in Requests : /\ status'[r] = "done" <=> status[r] = "done"
                            /\ status'[r] # "idle" <=> status[r] # "idle"
                            /\ status'[r] # "asked"
    BY <2>1 DEF Waiting
  <2>3. InStore' = {} /\ Waiting' = {} /\ DoneFirst'
    BY <2>1, <2>2 DEF InStore, Running, Waiting, DoneFirst
  <2>4. \A r \in Requests : Overtaken(r)' <=> Overtaken(r)
    BY <2>1, <2>2 DEF Overtaken
  <2>5. /\ Alone'
        /\ \A r \in Requests : status[r] = "done" /\ ~Overtaken(r)
               => store'[asked[r].key].data[asked[r].field] = asked[r].value
    <3>1. CASE UNCHANGED entries
      BY <1>3, <3>1 DEF Alone, Kept, Applied, Holds, entries
    <3>2. CASE Running("set") /\ Put(Changed(base, Change))
      BY <1>3, <3>2, ChangeIsThere DEF Running
    <3>3. CASE Running("create") /\ Put([Absent EXCEPT !.state = "entry"])
      BY <1>3, <3>3, DefaultsAreThere DEF Running
    <3>4. QED
      BY <2>1, <3>1, <3>2, <3>3 DEF Survives
  <2>6. Kept'
    BY <2>1, <2>2, <2>3, <2>4, <2>5 DEF Kept, Applied, Holds
  <2>7. QED
    BY <2>3, <2>5, <2>6
<1>13. CASE TimePasses \/ UNCHANGED allVars
  <2>1. UNCHANGED <<entries, requests, running>>
    BY <1>13 DEF TimePasses, allVars
  <2>2. InStore' = InStore
    BY <2>1 DEF InStore, Running, running
  <2>3. QED
    BY <1>6, <2>1, <2>2
<1>14. CASE \E k \in Keys, entry \in Foreign : OtherComputer(k, entry)
  <2>1. edits' # edits
    BY <1>3, <1>14 DEF OtherComputer
  <2>2. QED
    BY <1>3, <2>1
<1>15. QED
  BY <1>3, <1>4, <1>5, <1>7, <1>8, <1>9, <1>10, <1>11, <1>12, <1>13, <1>14 DEF WriterNext, WriterStep

\* The requests that wait are those in the tasks and those who have joined.
LEMMA TypesFollow ==
  ASSUME IInv
  PROVE  WriterTypeOK
<1>1. /\ store \in [Keys -> Entries] /\ queue \in Seq(Task) /\ stage \in Stage
      /\ InQueue = 1..Len(queue)
  BY DEF IInv, TypeOK, InQueue
<1>2. \A s \in Sites : /\ sites[s].writing = (\E i \in 1..Len(queue) : queue[i].key = s)
                       /\ (sites[s].pending # 0) = (sites[s].waiters # {})
  <2>1. \A s \in Sites : sites[s].writing \in BOOLEAN
    BY DEF IInv, TypeOK, Site
  <2>2. \A s \in Sites : sites[s].writing <=> \E i \in 1..Len(queue) : queue[i].key = s
    BY <1>1 DEF IInv, Joining
  <2>3. \A s \in Sites : sites[s].pending = 0 <=> sites[s].waiters = {}
    BY DEF IInv, Joining
  <2>4. QED
    BY <2>1, <2>2, <2>3, Zenon
<1>3. \A r \in Waiting : \/ \E i \in 1..Len(queue) : r \in queue[i].batch
                         \/ \E s \in Sites : r \in sites[s].waiters
  BY <1>1 DEF IInv, Assigned
<1>4. /\ \A i \in 1..Len(queue) : \A r \in queue[i].batch : r \in Waiting
      /\ \A s \in Sites : \A r \in sites[s].waiters : r \in Waiting
  BY <1>1 DEF IInv, Assigned
<1>5. Waiting = (UNION {queue[i].batch : i \in 1..Len(queue)}) \cup (UNION {sites[s].waiters : s \in Sites})
  BY <1>3, <1>4, Zenon
<1>6. QED
  BY <1>1, <1>2, <1>5 DEF WriterTypeOK, Stage

\* The newest acknowledged request for a field is what is stored, unless a later
\* one may have changed it, whatever the writer merged, refused or lost when it
\* died; every request not answered is in a task or has joined its site's writer.
\* (storage-writer.ts:158-159, 191-216, 276-296)
THEOREM TheNewestCounts == WriterSpec => []NewestWins
<1>1. WriterInit => NInv
  <2> SUFFICES ASSUME WriterInit PROVE NInv
    OBVIOUS
  <2>1. /\ edits = 0 /\ seen = [k \in Keys |-> {store[k]}]
        /\ status = [r \in Requests |-> "idle"] /\ InStore = {}
    BY DEF WriterInit, Init, InStore, Running
  <2>2. QED
    BY <2>1 DEF NInv, Alone, Kept, Applied, DoneFirst
<1>2. IInv /\ NInv /\ [WriterNext]_allVars => NInv'
  BY NewestNext
<1>3. IInv /\ NInv => NewestWins
  <2> SUFFICES ASSUME IInv, NInv PROVE NewestWins
    OBVIOUS
  <2>1. WriterTypeOK
    BY TypesFollow
  <2>2. QED
    BY <2>1 DEF NewestWins, NInv, Kept, Applied, Holds, Overtaken
<1>4. QED
  BY <1>1, <1>2, <1>3, Inductive, PTL DEF WriterSpec

-----------------------------------------------------------------------------
(* The quota *)

\* Until the worker dies it remembers every write of the last minute.
Counted == /\ restarts \in Nat /\ writeTimestamps \in Nat /\ issued \in Nat
           /\ restarts = 0 => writeTimestamps = issued
           /\ writeTimestamps <= SYNC_WRITE_LIMIT

\* In a worker's first life no more writes are issued in one minute than the
\* browser allows, whatever the limit and the number of requests waiting.
\* (storage-writer.ts:40-44, 86-102)
THEOREM WithinQuota == WriterSpec => []QuotaKept
<1>1. WriterInit => Counted
  BY DEF WriterInit, Counted
<1>2. Counted /\ [WriterNext]_allVars => Counted'
  <2> SUFFICES ASSUME Counted, [WriterNext]_allVars PROVE Counted'
    OBVIOUS
  <2>1. CASE TakeSlot
    BY <2>1 DEF Counted, TakeSlot, Goes
  <2>2. CASE TimePasses
    BY <2>2 DEF Counted, TimePasses, Remembered
  <2>3. CASE WorkerRestart
    BY <2>3 DEF Counted, WorkerRestart
  <2>4. CASE UNCHANGED <<writeTimestamps, issued, restarts>>
    BY <2>4 DEF Counted
  <2>5. ASSUME ~TakeSlot, ~TimePasses, ~WorkerRestart
        PROVE  UNCHANGED <<writeTimestamps, issued, restarts>>
    BY <2>5 DEF WriterNext, SetSiteDisabled, UpdateSettings, WriterStep, Read, SetLands, CreateLands,
                Answer, Refused, Finish, Goes, OtherComputer, allVars, quota
  <2>6. QED
    BY <2>1, <2>2, <2>3, <2>4, <2>5
<1>3. Counted => QuotaKept
  BY DEF Counted, QuotaKept
<1>4. QED
  BY <1>1, <1>2, <1>3, PTL DEF WriterSpec
=============================================================================
