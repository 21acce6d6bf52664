---------------------------- MODULE HelperProofs ----------------------------
(***************************************************************************)
(* Theorems about the off switch: the worker's half (HelperSafety), then   *)
(* the pages' half composed with it (HelperGate), for any number of pages, *)
(* requests, restarts and events.                                          *)
(*                                                                         *)
(* The worker.  Neither invariant is inductive: a request to turn the      *)
(* helper on that fails after an acknowledged stop makes that stop stand   *)
(* again.  The strengthening therefore says which later starts may have    *)
(* released the local key (ReleasedAfter), and Bookkeeping ties the two    *)
(* queues to the answers, so that no such start can fail.                  *)
(*                                                                         *)
(* The pages.  The worker's half is taken over: a step of the composition  *)
(* is a step of the worker or leaves it alone.  What is added says, of     *)
(* each page alone, how far behind the worker and the storage it may be:   *)
(* whatever it has not heard yet is under way, and of two words under way  *)
(* the later one is the newer (Current, Follows).  A stop is then the last *)
(* word on every channel until a later start reaches the disk (Stopping,   *)
(* LastWordOff).                                                           *)
(***************************************************************************)
EXTENDS HelperGate, TLAPS, SequenceTheorems

-----------------------------------------------------------------------------
(* The worker: the inductive invariant *)

Pending == waiting \cup (IF writing = NoWrite THEN {} ELSE {writing})

\* Requests not made yet have no history.
Fresh == \A i \in Requests : i > enabledIntent => asked[i] = "none" /\ reply[i] = "none"

\* A safety write belongs to an unanswered request of its kind; a release is
\* also the task at the head of the ordinary queue.
PendingOK == \A w \in Pending :
    /\ w.intent \in 1..enabledIntent
    /\ asked[w.intent] = IF w.off THEN "off" ELSE "on"
    /\ reply[w.intent] = "waiting"
    /\ ~w.off => /\ queue # <<>> /\ stage = "release"
                 /\ Head(queue) = [kind |-> "on", intent |-> w.intent]

WritingOK == /\ writing = NoWrite => waiting = {} /\ ~stored
             /\ writing \notin waiting
             /\ stored /\ writing.off => local = "stopped"

\* Starts in the ordinary queue are unanswered and distinct.
TaskOK(k) ==
    /\ queue[k].intent \in 1..enabledIntent
    /\ queue[k].kind = "on" => /\ asked[queue[k].intent] = "on"
                               /\ reply[queue[k].intent] = "waiting"
                               /\ \A l \in 1..Len(queue) :
                                    l # k /\ queue[l].kind = "on" => queue[l].intent # queue[k].intent
QueueOK == \A k \in 1..Len(queue) : TaskOK(k)

Noticed == \A i \in Requests : asked[i] = "off" /\ reply[i] = "waiting" => safetyRevision > 0

\* No release of an earlier start is left once a stop is acknowledged.
Passed == \A i \in Requests, w \in Pending :
    asked[i] = "off" /\ reply[i] = "ok" /\ ~w.off => w.intent > i

Bookkeeping == Fresh /\ PendingOK /\ WritingOK /\ QueueOK /\ Noticed /\ Passed

\* A later start whose release reached the disk, and so can no longer fail.
Released(j) == /\ asked[j] = "on"
               /\ \/ reply[j] \in {"ok", "superseded", "lost"}
                  \/ reply[j] = "waiting" /\ stored /\ writing = [off |-> FALSE, intent |-> j]
ReleasedAfter(i) == \E j \in Requests : j > i /\ Released(j)

Kept == \A i \in Requests :
    asked[i] = "off" /\ reply[i] = "ok" => local = "stopped" \/ ReleasedAfter(i)
Forced == \A i \in Requests :
    asked[i] = "off" /\ reply[i] \in {"waiting", "ok"} => runtimeStopped \/ ReleasedAfter(i)

IInv == TypeOK /\ Bookkeeping /\ Kept /\ Forced

-----------------------------------------------------------------------------
\* The invariant holds at first.
LEMMA InitIInv == Init => IInv
<1>. SUFFICES ASSUME Init PROVE IInv
  OBVIOUS
<1>1. TypeOK
  <2>1. safetyInstance \in 0..MaxRestarts /\ enabledIntent \in 0..MaxRequests
    BY BoundsAssumption DEF Init, BoundsAssumption
  <2>2. queue \in Seq(Tasks) /\ stage \in Stages
    BY DEF Init, Stages
  <2>3. asked \in [Requests -> {"none", "on", "off"}] /\ reply \in [Requests -> Replies]
    BY DEF Init, Replies
  <2>. QED BY <2>1, <2>2, <2>3 DEF Init, TypeOK
<1>2. Bookkeeping
  BY DEF Init, Bookkeeping, Fresh, PendingOK, WritingOK, QueueOK, Noticed, Passed, Pending, NoWrite
<1>3. Kept /\ Forced
  BY DEF Init, Kept, Forced
<1>. QED BY <1>1, <1>2, <1>3 DEF IInv

\* Requests are numbered one by one, each above every number in use.
LEMMA AskOffKeeps ==
  ASSUME TypeOK, Bookkeeping, AskOff
  PROVE  TypeOK' /\ Bookkeeping'
<1>. DEFINE n == enabledIntent + 1
            w == [off |-> TRUE, intent |-> n]
<1>. USE DEF AskOff, Ask
<1>1. n \in Requests /\ n \in 1..n /\ n \notin 1..enabledIntent /\ enabledIntent \in Nat
      /\ \A i \in 1..enabledIntent : i \in 1..n /\ i \in Requests
  BY BoundsAssumption DEF TypeOK, Requests, BoundsAssumption
<1>2. /\ asked' = [asked EXCEPT ![n] = "off"] /\ reply' = [reply EXCEPT ![n] = "waiting"]
      /\ enabledIntent' = n /\ UNCHANGED <<local, settings, queue, stage, stored, initialRead, safetyInstance>>
      /\ runtimeStopped' = TRUE /\ safetyRevision' = safetyRevision + 1
  BY DEF storage, NotifySafety, WriteSafety
<1>3. Pending' = Pending \cup {w} /\ w \notin Pending /\ w \in SafetyWrites /\ w # NoWrite
  <2>1. w \in SafetyWrites /\ w # NoWrite /\ w.intent = n
    BY <1>1 DEF SafetyWrites, NoWrite
  <2>2. w \notin Pending
    BY <1>1, <2>1 DEF Bookkeeping, PendingOK
  <2>3. Pending' = Pending \cup {w}
    BY <2>1 DEF Pending, WriteSafety, Bookkeeping, WritingOK
  <2>. QED BY <2>1, <2>2, <2>3
<1>4. TypeOK'
  <2>1. writing' \in SafetyWrites \cup {NoWrite} /\ waiting' \in SUBSET SafetyWrites
    BY <1>3 DEF WriteSafety, TypeOK
  <2>2. reply' \in [Requests -> Replies] /\ asked' \in [Requests -> {"none", "on", "off"}]
    BY <1>1, <1>2 DEF TypeOK, Replies
  <2>3. enabledIntent' \in 0..MaxRequests
    BY <1>1, <1>2, BoundsAssumption DEF Requests, BoundsAssumption
  <2>. QED BY <1>2, <2>1, <2>2, <2>3 DEF TypeOK
<1>5. Fresh'
  BY <1>1, <1>2 DEF Bookkeeping, Fresh, TypeOK, Requests
<1>6. PendingOK'
  BY <1>1, <1>2, <1>3 DEF Bookkeeping, PendingOK, TypeOK, Requests
<1>7. WritingOK'
  BY <1>2, <1>3 DEF Bookkeeping, WritingOK, WriteSafety, Pending
<1>8. QueueOK'
  BY <1>1, <1>2 DEF Bookkeeping, QueueOK, TaskOK, TypeOK, Requests
<1>9. Noticed'
  BY <1>1, <1>2 DEF Noticed, TypeOK
<1>10. Passed'
  BY <1>1, <1>2, <1>3 DEF Bookkeeping, Passed, TypeOK
<1>. QED BY <1>4, <1>5, <1>6, <1>7, <1>8, <1>9, <1>10 DEF Bookkeeping

\* Asking for a start keeps the invariant.
LEMMA AskOnKeeps ==
  ASSUME TypeOK, Bookkeeping, AskOn
  PROVE  TypeOK' /\ Bookkeeping'
<1>. DEFINE n == enabledIntent + 1
            t == [kind |-> "on", intent |-> n]
<1>. USE DEF AskOn, Ask
<1>1. n \in Requests /\ n \in 1..n /\ n \notin 1..enabledIntent /\ enabledIntent \in Nat
      /\ \A i \in 1..enabledIntent : i \in 1..n /\ i \in Requests
  BY BoundsAssumption DEF TypeOK, Requests, BoundsAssumption
<1>2. /\ asked' = [asked EXCEPT ![n] = "on"] /\ reply' = [reply EXCEPT ![n] = "waiting"]
      /\ enabledIntent' = n /\ queue' = Append(queue, t)
      /\ UNCHANGED <<local, settings, stage, writing, waiting, stored, initialRead,
                     runtimeStopped, safetyRevision, safetyInstance>>
  BY DEF storage, runtime
<1>3. t \in Tasks
  BY <1>1 DEF Tasks
<1>4. TypeOK'
  <2>1. queue' \in Seq(Tasks)
    BY <1>2, <1>3 DEF TypeOK
  <2>2. reply' \in [Requests -> Replies] /\ asked' \in [Requests -> {"none", "on", "off"}]
    BY <1>1, <1>2 DEF TypeOK, Replies
  <2>3. enabledIntent' \in 0..MaxRequests
    BY <1>1, <1>2, BoundsAssumption DEF Requests, BoundsAssumption
  <2>. QED BY <1>2, <2>1, <2>2, <2>3 DEF TypeOK
<1>5. Fresh'
  BY <1>1, <1>2 DEF Bookkeeping, Fresh, TypeOK, Requests
<1>6. Pending' = Pending
  BY <1>2 DEF Pending
<1>7. PendingOK'
  <2>1. queue # <<>> => queue' # <<>> /\ Head(queue') = Head(queue)
    BY <1>2, <1>3 DEF TypeOK
  <2>. SUFFICES ASSUME NEW w \in Pending
       PROVE  /\ w.intent \in 1..n
              /\ asked'[w.intent] = IF w.off THEN "off" ELSE "on"
              /\ reply'[w.intent] = "waiting"
              /\ ~w.off => /\ queue' # <<>> /\ stage' = "release"
                           /\ Head(queue') = [kind |-> "on", intent |-> w.intent]
    BY <1>2, <1>6 DEF PendingOK
  <2>2. w.intent \in 1..enabledIntent /\ w.intent # n /\ w.intent \in Requests
    BY <1>1 DEF Bookkeeping, PendingOK
  <2>3. asked'[w.intent] = asked[w.intent] /\ reply'[w.intent] = reply[w.intent]
    BY <1>2, <2>2 DEF TypeOK
  <2>. QED BY <1>1, <1>2, <2>1, <2>2, <2>3 DEF Bookkeeping, PendingOK
<1>8. WritingOK'
  BY <1>2 DEF Bookkeeping, WritingOK
<1>9. QueueOK'
  <2>1. Len(queue') = Len(queue) + 1 /\ queue'[Len(queue) + 1] = t
        /\ \A k \in 1..Len(queue) : queue'[k] = queue[k]
    BY <1>2, <1>3 DEF TypeOK
  <2>. SUFFICES ASSUME NEW k \in 1..Len(queue') PROVE TaskOK(k)'
    BY DEF QueueOK
  <2>. QED BY <1>1, <1>2, <2>1 DEF Bookkeeping, QueueOK, TaskOK, TypeOK, Requests
<1>10. Noticed'
  BY <1>1, <1>2 DEF Bookkeeping, Noticed, TypeOK
<1>11. Passed'
  BY <1>1, <1>2, <1>6 DEF Bookkeeping, Passed, TypeOK
<1>. QED BY <1>4, <1>5, <1>7, <1>8, <1>9, <1>10, <1>11 DEF Bookkeeping

\* The head of a queue leaves it: what holds of every task holds of the rest.
LEMMA TailKeeps ==
  ASSUME TypeOK, QueueOK, queue # <<>>, queue' = Tail(queue),
         UNCHANGED <<enabledIntent, asked>>, reply' \in [Requests -> Replies],
         \A i \in Requests : reply'[i] # reply[i] =>
             asked[i] = "off" \/ (Head(queue).kind = "on" /\ i = Intent)
  PROVE  queue' \in Seq(Tasks) /\ QueueOK'
<1>1. queue' \in Seq(Tasks) /\ Len(queue) \in Nat \ {0} /\ Len(queue') = Len(queue) - 1
      /\ \A k \in 1..Len(queue') : k + 1 \in 1..Len(queue) /\ queue'[k] = queue[k + 1]
      /\ 1 \in 1..Len(queue) /\ Head(queue) = queue[1]
  BY DEF TypeOK
<1>. SUFFICES ASSUME NEW k \in 1..Len(queue') PROVE TaskOK(k)'
  BY <1>1 DEF QueueOK
<1>2. TaskOK(k + 1) /\ TaskOK(1)
  BY <1>1 DEF QueueOK
<1>3. queue'[k].intent \in 1..enabledIntent'
  BY <1>1, <1>2 DEF TaskOK
<1>. SUFFICES ASSUME queue'[k].kind = "on"
     PROVE /\ asked'[queue'[k].intent] = "on" /\ reply'[queue'[k].intent] = "waiting"
           /\ \A l \in 1..Len(queue') : l # k /\ queue'[l].kind = "on"
                => queue'[l].intent # queue'[k].intent
  BY <1>3 DEF TaskOK
<1>4. queue'[k].intent \in Requests
  BY <1>3, BoundsAssumption DEF TypeOK, Requests, BoundsAssumption
<1>5. Head(queue).kind = "on" => queue'[k].intent # Intent
  <2>1. k + 1 # 1
    BY <1>1
  <2>. QED BY <1>1, <1>2, <2>1 DEF TaskOK, Intent
<1>6. asked'[queue'[k].intent] = "on" /\ reply'[queue'[k].intent] = "waiting"
  BY <1>1, <1>2, <1>4, <1>5 DEF TaskOK
<1>7. \A l \in 1..Len(queue') : l # k /\ queue'[l].kind = "on"
                => queue'[l].intent # queue'[k].intent
  <2>. TAKE l \in 1..Len(queue')
  <2>1. l # k => l + 1 # k + 1
    BY <1>1
  <2>. QED BY <1>1, <1>2, <2>1 DEF TaskOK
<1>. QED BY <1>6, <1>7

\* The head of the ordinary queue ends before it asked for a release.
LEMMA FinishKeeps ==
  ASSUME TypeOK, Bookkeeping, queue # <<>>, stage # "release",
         queue' = Tail(queue), stage' = "read", settings' \in SettingsValues, UNCHANGED safety,
         \/ UNCHANGED reply
         \/ Head(queue).kind = "on" /\ \E r \in {"superseded", "refused"} : reply' = [reply EXCEPT ![Intent] = r]
  PROVE  TypeOK' /\ Bookkeeping'
<1>. USE DEF safety
<1>1. /\ reply' \in [Requests -> Replies]
      /\ \A i \in Requests : reply'[i] # reply[i] =>
             /\ Head(queue).kind = "on" /\ i = Intent
             /\ reply'[i] \in {"superseded", "refused"}
  BY DEF TypeOK, Replies
<1>2. /\ queue' \in Seq(Tasks) /\ QueueOK'
  BY <1>1, TailKeeps DEF Bookkeeping
<1>3. UNCHANGED <<local, runtimeStopped, safetyRevision, safetyInstance, initialRead,
                  enabledIntent, writing, stored, waiting, asked>>
  BY DEF runtime
<1>4. TypeOK'
  BY <1>1, <1>2, <1>3 DEF TypeOK, Stages
<1>5. Pending' = Pending
  BY <1>3 DEF Pending
<1>6. \A w \in Pending : w.off
  BY DEF Bookkeeping, PendingOK, Pending, TypeOK, SafetyWrites, NoWrite
<1>7. Head(queue).kind = "on" => Intent \in 1..enabledIntent /\ asked[Intent] = "on"
  <2>1. 1 \in 1..Len(queue) /\ Head(queue) = queue[1]
    BY DEF TypeOK
  <2>. QED BY <2>1 DEF Bookkeeping, QueueOK, TaskOK, Intent
<1>11. Fresh'
  BY <1>1, <1>3, <1>7 DEF Bookkeeping, Fresh, TypeOK
<1>8. PendingOK' /\ Passed'
  <2>1. \A w \in Pending : w.intent \in Requests
    BY BoundsAssumption DEF Bookkeeping, PendingOK, TypeOK, Requests, BoundsAssumption
  <2>2. \A w \in Pending : reply'[w.intent] = reply[w.intent]
    BY <1>1, <1>6, <1>7, <2>1 DEF Bookkeeping, PendingOK
  <2>. QED BY <1>1, <1>3, <1>5, <1>6, <2>2 DEF Bookkeeping, PendingOK, Passed
<1>9. WritingOK'
  BY <1>3 DEF Bookkeeping, WritingOK
<1>10. Noticed'
  BY <1>1, <1>3 DEF Bookkeeping, Noticed
<1>. QED BY <1>2, <1>4, <1>8, <1>9, <1>10, <1>11 DEF Bookkeeping

\* The ordinary queue's head goes on to a stage before the release.
LEMMA AdvanceKeeps ==
  ASSUME TypeOK, Bookkeeping, stage # "release", stage' \in Stages,
         settings' \in SettingsValues, UNCHANGED <<queue, reply>>, UNCHANGED safety
  PROVE  TypeOK' /\ Bookkeeping'
<1>. USE DEF safety
<1>1. UNCHANGED <<local, runtimeStopped, safetyRevision, safetyInstance, initialRead,
                  enabledIntent, writing, stored, waiting, asked>>
  BY DEF runtime
<1>2. Pending' = Pending
  BY <1>1 DEF Pending
<1>3. TypeOK'
  BY <1>1 DEF TypeOK
<1>4. PendingOK' /\ Passed'
  BY <1>1, <1>2 DEF Bookkeeping, PendingOK, Passed
<1>5. Fresh' /\ WritingOK' /\ Noticed'
  BY <1>1 DEF Bookkeeping, Fresh, WritingOK, Noticed
<1>6. QueueOK'
  BY <1>1 DEF Bookkeeping, QueueOK, TaskOK
<1>. QED BY <1>3, <1>4, <1>5, <1>6 DEF Bookkeeping

\* The safety queue's write, made or skipped, keeps the invariant.
LEMMA WriteIfCurrentKeeps ==
  ASSUME TypeOK, Bookkeeping, NEW s \in Stages \ {"release"}, AtStage("on", s),
         WriteIfCurrent, settings' \in SettingsValues, UNCHANGED safety
  PROVE  TypeOK' /\ Bookkeeping'
<1>1. CASE Intent = enabledIntent
  BY <1>1, AdvanceKeeps DEF WriteIfCurrent, Advance, AtStage, Stages
<1>2. CASE Intent # enabledIntent
  BY <1>2, FinishKeeps DEF WriteIfCurrent, Finish, AtStage
<1>. QED BY <1>1, <1>2

\* The steps of the ordinary queue keep the invariant.
LEMMA QueueStepKeeps ==
  ASSUME TypeOK, Bookkeeping,
         \/ ReadSettingsForOn \/ WriteDefaultSettings \/ PreserveOriginal
         \/ RequestFails \/ CleanupReads \/ CleanupWrites
  PROVE  TypeOK' /\ Bookkeeping'
<1>0. settings \in SettingsValues /\ {"default", "notice", "write"} \subseteq Stages
      /\ "read" \in Stages \ {"release"} /\ "default" \in Stages \ {"release"}
      /\ "enabled" \in SettingsValues /\ "disabled" \in SettingsValues
  BY DEF TypeOK, Stages, SettingsValues
<1>1. CASE ReadSettingsForOn
  <2>1. settings' \in SettingsValues /\ AtStage("on", "read") /\ UNCHANGED safety
    BY <1>0, <1>1 DEF ReadSettingsForOn
  <2>2. CASE WriteIfCurrent
    BY <1>0, <2>1, <2>2, WriteIfCurrentKeeps
  <2>3. CASE Advance("default") \/ Advance("notice")
    BY <1>0, <2>1, <2>3, AdvanceKeeps DEF Advance, AtStage
  <2>. QED BY <1>1, <2>2, <2>3 DEF ReadSettingsForOn
<1>2. CASE WriteDefaultSettings
  BY <1>0, <1>2, WriteIfCurrentKeeps DEF WriteDefaultSettings
<1>3. CASE PreserveOriginal
  BY <1>0, <1>3, FinishKeeps DEF PreserveOriginal, Finish, AtStage
<1>4. CASE RequestFails
  BY <1>0, <1>4, FinishKeeps DEF RequestFails, Finish
<1>5. CASE CleanupReads
  <2>1. CASE Intent = enabledIntent /\ settings # "corrupt"
    BY <1>0, <1>5, <2>1, AdvanceKeeps DEF CleanupReads, AtStage, Advance
  <2>2. CASE ~(Intent = enabledIntent /\ settings # "corrupt")
    BY <1>0, <1>5, <2>2, FinishKeeps DEF CleanupReads, AtStage
  <2>. QED BY <2>1, <2>2
<1>6. CASE CleanupWrites
  BY <1>0, <1>6, FinishKeeps DEF CleanupWrites, AtStage
<1>. QED BY <1>1, <1>2, <1>3, <1>4, <1>5, <1>6

\* A start whose settings are written asks for its release, unless overtaken.
LEMMA WriteEnabledKeeps ==
  ASSUME TypeOK, Bookkeeping, WriteEnabled
  PROVE  TypeOK' /\ Bookkeeping'
<1>. DEFINE w == [off |-> FALSE, intent |-> Intent]
<1>0. AtStage("on", "write") /\ settings' \in SettingsValues
  BY DEF WriteEnabled, SettingsValues
<1>1. CASE Intent # enabledIntent
  BY <1>0, <1>1, FinishKeeps DEF WriteEnabled, Finish, AtStage, safety
<1>2. CASE Intent = enabledIntent
  <2>1. /\ stage' = "release" /\ WriteSafety(FALSE, Intent)
        /\ UNCHANGED <<queue, reply, local, enabledIntent, asked, stored>>
        /\ UNCHANGED <<runtimeStopped, safetyRevision, safetyInstance, initialRead>>
    BY <1>2 DEF WriteEnabled, Advance, WriteSafety, runtime
  <2>2. /\ queue # <<>> /\ stage # "release" /\ Intent \in 1..enabledIntent /\ Intent \in Requests
        /\ Head(queue) = [kind |-> "on", intent |-> Intent]
        /\ asked[Intent] = "on" /\ reply[Intent] = "waiting"
    <3>1. 1 \in 1..Len(queue) /\ Head(queue) = queue[1] /\ queue[1] \in Tasks
      BY <1>0 DEF TypeOK, AtStage
    <3>. QED BY <1>0, <3>1 DEF Bookkeeping, QueueOK, TaskOK, AtStage, Intent, Tasks
  <2>3. \A v \in Pending : v.off
    BY <2>2 DEF Bookkeeping, PendingOK, Pending, TypeOK, SafetyWrites, NoWrite
  <2>4. w \in SafetyWrites /\ w # NoWrite /\ ~w.off
    BY <2>2 DEF SafetyWrites, NoWrite
  <2>5. Pending' = Pending \cup {w} /\ w \notin Pending
    BY <2>1, <2>3, <2>4 DEF Pending, WriteSafety, Bookkeeping, WritingOK
  <2>6. writing' \in SafetyWrites \cup {NoWrite} /\ waiting' \in SUBSET SafetyWrites
    BY <2>1, <2>4 DEF WriteSafety, TypeOK
  <2>7. TypeOK'
    BY <1>0, <2>1, <2>6 DEF TypeOK, Stages
  <2>8. PendingOK'
    BY <2>1, <2>2, <2>3, <2>5 DEF Bookkeeping, PendingOK
  <2>9. WritingOK'
    <3>1. CASE writing = NoWrite
      BY <3>1, <2>1, <2>4 DEF Bookkeeping, WritingOK, WriteSafety
    <3>2. CASE writing # NoWrite
      BY <3>2, <2>1, <2>4, <2>5 DEF Bookkeeping, WritingOK, WriteSafety, Pending
    <3>. QED BY <3>1, <3>2
  <2>10. Passed'
    <3>. SUFFICES ASSUME NEW i \in Requests, NEW v \in Pending',
                         asked[i] = "off", reply[i] = "ok", ~v.off
         PROVE v.intent > i
      BY <2>1 DEF Passed
    <3>1. v = w
      BY <2>3, <2>5
    <3>2. i \in 1..enabledIntent /\ i # Intent
      BY <2>2 DEF Bookkeeping, Fresh, TypeOK, Requests
    <3>. QED BY <1>2, <3>1, <3>2, <2>2
  <2>11. Fresh' /\ QueueOK' /\ Noticed'
    BY <2>1 DEF Bookkeeping, Fresh, QueueOK, TaskOK, Noticed
  <2>. QED BY <2>7, <2>8, <2>9, <2>10, <2>11 DEF Bookkeeping
<1>. QED BY <1>1, <1>2

\* A start that enters the safety queue keeps the invariant.
LEMMA StoreSafetyKeeps ==
  ASSUME TypeOK, Bookkeeping, StoreSafety
  PROVE  TypeOK' /\ Bookkeeping'
<1>. USE DEF StoreSafety
<1>1. UNCHANGED <<settings, runtimeStopped, safetyRevision, safetyInstance, initialRead,
                  enabledIntent, queue, stage, writing, waiting, asked, reply>>
  BY DEF runtime, requests
<1>2. TypeOK'
  BY <1>1 DEF TypeOK, SafetyValue, LocalValues
<1>3. Pending' = Pending
  BY <1>1 DEF Pending
<1>4. PendingOK' /\ Passed'
  BY <1>1, <1>3 DEF Bookkeeping, PendingOK, Passed
<1>5. WritingOK'
  BY <1>1 DEF Bookkeeping, WritingOK, SafetyValue
<1>6. Fresh' /\ QueueOK' /\ Noticed'
  BY <1>1 DEF Bookkeeping, Fresh, QueueOK, TaskOK, Noticed
<1>. QED BY <1>2, <1>4, <1>5, <1>6 DEF Bookkeeping

\* The worker's death keeps the invariant.
LEMMA RestartKeeps ==
  ASSUME TypeOK, Bookkeeping, WorkerRestart
  PROVE  TypeOK' /\ Bookkeeping'
<1>. USE DEF WorkerRestart
<1>1. TypeOK'
  <2>1. local' \in LocalValues
    BY DEF TypeOK, Landing, SafetyValue, LocalValues
  <2>2. settings' \in SettingsValues
    BY DEF TypeOK, SyncLanding, SettingsValues
  <2>3. reply' \in [Requests -> Replies]
    BY DEF TypeOK, Replies
  <2>4. safetyInstance' \in 0..MaxRestarts
    BY BoundsAssumption DEF TypeOK, BoundsAssumption
  <2>5. queue' \in Seq(Tasks) /\ stage' \in Stages
    BY DEF Stages
  <2>. QED BY <2>1, <2>2, <2>3, <2>4, <2>5 DEF TypeOK
<1>2. Pending' = {} /\ queue' = <<>> /\ writing' = NoWrite /\ waiting' = {} /\ ~stored'
      /\ UNCHANGED <<asked, enabledIntent>>
  BY DEF Pending
<1>3. PendingOK' /\ Passed' /\ WritingOK' /\ QueueOK'
  BY <1>2 DEF PendingOK, Passed, WritingOK, QueueOK
<1>4. Fresh'
  BY <1>2 DEF Bookkeeping, Fresh
<1>5. Noticed'
  BY <1>2 DEF Noticed
<1>. QED BY <1>1, <1>3, <1>4, <1>5 DEF Bookkeeping

\* The start-up read and another computer's edits leave the queues alone.
LEMMA OutsideKeeps ==
  ASSUME TypeOK, Bookkeeping, InitialSafety \/ InitialSafetyFails \/ RemoteEdit \/ UNCHANGED vars
  PROVE  TypeOK' /\ Bookkeeping'
<1>1. UNCHANGED <<local, safetyRevision, safetyInstance, enabledIntent, queue, stage,
                  writing, stored, waiting, asked, reply>>
  BY DEF InitialSafety, InitialSafetyFails, RemoteEdit, vars, storage, runtime, writer, requests
<1>2. settings' \in SettingsValues /\ runtimeStopped' \in BOOLEAN /\ initialRead' \in BOOLEAN
  BY DEF InitialSafety, InitialSafetyFails, RemoteEdit, vars, storage, runtime, TypeOK,
         IsHelperSafetyOff
<1>3. TypeOK'
  BY <1>1, <1>2 DEF TypeOK
<1>4. Pending' = Pending
  BY <1>1 DEF Pending
<1>5. PendingOK' /\ Passed' /\ WritingOK'
  BY <1>1, <1>4 DEF Bookkeeping, PendingOK, Passed, WritingOK
<1>6. Fresh' /\ QueueOK' /\ Noticed'
  BY <1>1 DEF Bookkeeping, Fresh, QueueOK, TaskOK, Noticed
<1>. QED BY <1>3, <1>5, <1>6 DEF Bookkeeping

\* A safety write ends with answer r, and the next one that is still wanted
\* starts; the task whose release ended leaves the ordinary queue.
LEMMA SettleKeeps ==
  ASSUME TypeOK, Bookkeeping, writing # NoWrite, NextSafety,
         NEW r \in {"ok", "superseded", "refused"}, reply' = Answers(r),
         r = "ok" => stored /\ writing.intent = enabledIntent,
         stage' = StageAfterRelease,
         UNCHANGED <<storage, enabledIntent, asked, safetyInstance, initialRead>>,
         runtimeStopped' \in BOOLEAN, safetyRevision' \in Nat, safetyRevision' >= safetyRevision,
         \/ queue' = QueueAfterRelease
         \/ writing.off /\ queue' = Append(QueueAfterRelease, [kind |-> "cleanup", intent |-> writing.intent])
  PROVE  TypeOK' /\ Bookkeeping'
<1>. DEFINE popped == ~writing.off \/ \E w \in Skipped : ~w.off
<1>0. UNCHANGED <<local, settings>>
  BY DEF storage
<1>1. /\ writing \in Pending /\ writing.intent \in 1..enabledIntent /\ writing.intent \in Requests
      /\ writing \in SafetyWrites /\ waiting \subseteq Pending /\ waiting \subseteq SafetyWrites
      /\ \A w \in Pending : w.intent \in 1..enabledIntent /\ w.intent \in Requests
  BY BoundsAssumption DEF Pending, Bookkeeping, PendingOK, TypeOK, Requests, BoundsAssumption
<1>2. Pending' \subseteq Live
  BY DEF NextSafety, Pending
<1>3. Live \subseteq waiting /\ Skipped \subseteq waiting
  BY DEF Live, Skipped
<1>4. popped => /\ queue # <<>> /\ stage = "release" /\ Head(queue).kind = "on"
                /\ \A w \in Pending : ~w.off => w.intent = Intent
                /\ \A w \in Live : w.off
  <2>. SUFFICES ASSUME popped
       PROVE /\ queue # <<>> /\ stage = "release" /\ Head(queue).kind = "on"
             /\ \A w \in Pending : ~w.off => w.intent = Intent
             /\ \A w \in Live : w.off
    OBVIOUS
  <2>1. PICK p \in Pending : ~p.off /\ (p = writing \/ (p \in waiting /\ p.intent # enabledIntent))
    BY <1>1, <1>3 DEF Skipped, Live
  <2>2. \A w \in Pending : ~w.off => Head(queue) = [kind |-> "on", intent |-> w.intent]
    BY DEF Bookkeeping, PendingOK
  <2>3. \A w \in Pending : ~w.off => w.intent = Intent
    BY <2>2 DEF Intent
  <2>4. ASSUME NEW w \in Live, ~w.off PROVE FALSE
    <3>1. w.intent = p.intent /\ w.intent = enabledIntent /\ w \in waiting
      BY <2>1, <2>3, <2>4, <1>1, <1>3 DEF Live
    <3>2. w = p
      <4>1. w \in SafetyWrites /\ p \in SafetyWrites
        BY <1>1, <2>1, <3>1
      <4>2. w.off = FALSE /\ p.off = FALSE
        BY <2>1, <2>4, <4>1 DEF SafetyWrites
      <4>3. w = [off |-> w.off, intent |-> w.intent] /\ p = [off |-> p.off, intent |-> p.intent]
        BY <4>1 DEF SafetyWrites
      <4>. QED BY <3>1, <4>2, <4>3
    <3>. QED BY <2>1, <3>1, <3>2 DEF Bookkeeping, WritingOK
  <2>. QED BY <2>1, <2>2, <2>3, <2>4 DEF Bookkeeping, PendingOK
<1>5. reply' \in [Requests -> Replies]
      /\ \A i \in Requests : reply'[i] # reply[i] =>
            /\ \E w \in Pending : w.intent = i /\ (~w.off => popped)
            /\ reply'[i] # "waiting"
            /\ reply'[i] = "ok" => r = "ok" /\ i = writing.intent
  BY <1>1, <1>3 DEF Answers, TypeOK, Replies
<1>6. \A i \in Requests : reply'[i] # reply[i] =>
            asked[i] = "off" \/ (popped /\ i = Intent)
  BY <1>4, <1>5 DEF Bookkeeping, PendingOK
<1>7. QueueAfterRelease \in Seq(Tasks)
      /\ \A k \in 1..Len(QueueAfterRelease) : QueueAfterRelease[k].intent \in 1..enabledIntent
  BY <1>4 DEF TypeOK, QueueAfterRelease, Bookkeeping, QueueOK, TaskOK
<1>8. queue' \in Seq(Tasks) /\ QueueOK'
  <2>. DEFINE q == QueueAfterRelease
  <2>1. \A k \in 1..Len(q) : q[k].kind = "on" =>
           /\ asked[q[k].intent] = "on" /\ reply'[q[k].intent] = "waiting"
           /\ \A l \in 1..Len(q) : l # k /\ q[l].kind = "on" => q[l].intent # q[k].intent
    <3>1. CASE popped
      <4>1. q = Tail(queue) /\ Len(queue) \in Nat \ {0} /\ Len(q) = Len(queue) - 1
            /\ 1 \in 1..Len(queue) /\ Head(queue) = queue[1]
            /\ \A k \in 1..Len(q) : k + 1 \in 1..Len(queue) /\ q[k] = queue[k + 1]
                                    /\ k + 1 # 1 /\ q[k].intent \in Requests
        BY <3>1, <1>4, BoundsAssumption DEF QueueAfterRelease, TypeOK, Bookkeeping, QueueOK, TaskOK,
           Requests, BoundsAssumption
      <4>2. ASSUME NEW k \in 1..Len(q), q[k].kind = "on"
            PROVE asked[q[k].intent] = "on" /\ reply'[q[k].intent] = "waiting"
        <5>1. TaskOK(1) /\ TaskOK(k + 1)
          BY <4>1 DEF Bookkeeping, QueueOK
        <5>2. q[k].intent # Intent
          BY <5>1, <4>1, <4>2, <1>4, <3>1 DEF TaskOK, Intent
        <5>. QED BY <5>1, <5>2, <4>1, <4>2, <1>6 DEF TaskOK
      <4>3. ASSUME NEW k \in 1..Len(q), NEW l \in 1..Len(q), q[k].kind = "on", q[l].kind = "on", l # k
            PROVE q[l].intent # q[k].intent
        <5>1. TaskOK(k + 1) /\ l + 1 # k + 1
          BY <4>1, <4>3 DEF Bookkeeping, QueueOK
        <5>. QED BY <5>1, <4>1, <4>3 DEF TaskOK
      <4>. QED BY <4>2, <4>3
    <3>2. CASE ~popped
      <4>1. q = queue
        BY <3>2 DEF QueueAfterRelease
      <4>2. \A k \in 1..Len(queue) : queue[k].intent \in Requests
        BY BoundsAssumption DEF TypeOK, Bookkeeping, QueueOK, TaskOK, Requests, BoundsAssumption
      <4>. QED BY <4>1, <4>2, <3>2, <1>6 DEF Bookkeeping, QueueOK, TaskOK
    <3>. QED BY <3>1, <3>2
  <2>2. CASE queue' = q
    BY <2>1, <2>2, <1>7 DEF QueueOK, TaskOK
  <2>3. CASE queue' = Append(q, [kind |-> "cleanup", intent |-> writing.intent])
    <3>. DEFINE t == [kind |-> "cleanup", intent |-> writing.intent]
    <3>1. t \in Tasks
      BY <1>1 DEF Tasks
    <3>2. queue' \in Seq(Tasks) /\ Len(queue') = Len(q) + 1 /\ queue'[Len(q) + 1] = t
          /\ \A k \in 1..Len(q) : queue'[k] = q[k]
      BY <3>1, <2>3, <1>7
    <3>3. \A k \in 1..Len(queue') : k \in 1..Len(q) \/ k = Len(q) + 1
      BY <3>2, <1>7
    <3>. QED BY <3>2, <3>3, <2>1, <1>7, <1>1 DEF QueueOK, TaskOK
  <2>. QED BY <2>2, <2>3
<1>9. TypeOK'
  <2>1. /\ writing' \in SafetyWrites \cup {NoWrite}
        /\ waiting' \in SUBSET SafetyWrites
        /\ stored' \in BOOLEAN
    BY DEF NextSafety, Live, TypeOK
  <2>2. stage' \in Stages
    BY DEF StageAfterRelease, TypeOK, Stages
  <2>. QED BY <1>0, <1>5, <1>8, <2>1, <2>2 DEF TypeOK
<1>10. Fresh'
  BY <1>1, <1>5 DEF Bookkeeping, Fresh, TypeOK
<1>11. PendingOK'
  <2>. SUFFICES ASSUME NEW w \in Pending'
       PROVE  /\ w.intent \in 1..enabledIntent
              /\ asked[w.intent] = IF w.off THEN "off" ELSE "on"
              /\ reply'[w.intent] = "waiting"
              /\ ~w.off => /\ queue' # <<>> /\ stage' = "release"
                           /\ Head(queue') = [kind |-> "on", intent |-> w.intent]
    BY DEF PendingOK
  <2>1. w \in Live /\ w \in Pending
    BY <1>1, <1>2, <1>3
  <2>2. CASE w.off
    <3>1. \A v \in Skipped \cup {writing} : v.intent # w.intent
      <4>1. ASSUME NEW v \in Skipped \cup {writing}, v.intent = w.intent PROVE FALSE
        <5>1. v = writing /\ v.off = TRUE /\ w.off = TRUE
          BY <2>1, <2>2, <4>1, <1>1, <1>3 DEF Live, Skipped, Bookkeeping, PendingOK, SafetyWrites
        <5>2. v = [off |-> v.off, intent |-> v.intent] /\ w = [off |-> w.off, intent |-> w.intent]
          BY <2>1, <5>1, <1>1, <1>3 DEF SafetyWrites
        <5>. QED BY <2>1, <4>1, <5>1, <5>2, <1>3 DEF Bookkeeping, WritingOK
      <4>. QED BY <4>1
    <3>2. reply'[w.intent] = reply[w.intent]
      BY <1>1, <2>1, <3>1 DEF Answers
    <3>. QED BY <2>1, <2>2, <3>2 DEF Bookkeeping, PendingOK
  <2>3. CASE ~w.off
    <3>1. ~popped
      BY <1>4, <2>1, <2>3
    <3>2. stage' = stage /\ QueueAfterRelease = queue
      BY <3>1 DEF StageAfterRelease, QueueAfterRelease
    <3>3. queue # <<>> /\ Head(queue) = [kind |-> "on", intent |-> w.intent] /\ stage = "release"
          /\ asked[w.intent] = "on" /\ reply[w.intent] = "waiting" /\ w.intent \in 1..enabledIntent
      BY <2>1, <2>3 DEF Bookkeeping, PendingOK
    <3>4. queue' # <<>> /\ Head(queue') = Head(queue)
      <4>1. [kind |-> "cleanup", intent |-> writing.intent] \in Tasks
        BY <1>1 DEF Tasks
      <4>2. queue \in Seq(Tasks) /\ queue # <<>>
        BY <3>3 DEF TypeOK
      <4>3. \A t \in Tasks : Append(queue, t) # <<>> /\ Head(Append(queue, t)) = Head(queue)
        BY <4>2
      <4>. QED BY <3>2, <4>1, <4>2, <4>3
    <3>5. reply'[w.intent] = "waiting"
      BY <3>1, <3>3, <1>1, <1>6, <2>1
    <3>. QED BY <3>2, <3>3, <3>4, <3>5, <2>3
  <2>. QED BY <2>2, <2>3
<1>12. WritingOK'
  BY DEF NextSafety, WritingOK
<1>13. Noticed'
  BY <1>5 DEF Bookkeeping, Noticed, TypeOK
<1>14. Passed'
  <2>. SUFFICES ASSUME NEW i \in Requests, NEW w \in Pending',
                       asked[i] = "off", reply'[i] = "ok", ~w.off
       PROVE w.intent > i
    BY DEF Passed
  <2>1. w \in Live /\ w \in Pending /\ asked[w.intent] = "on"
    BY <1>1, <1>2, <1>3 DEF Bookkeeping, PendingOK
  <2>2. CASE reply[i] = "ok"
    BY <2>1, <2>2 DEF Bookkeeping, Passed
  <2>3. CASE reply[i] # "ok"
    BY <2>1, <2>3, <1>5 DEF Live
  <2>. QED BY <2>2, <2>3
<1>. QED BY <1>8, <1>9, <1>10, <1>11, <1>12, <1>13, <1>14 DEF Bookkeeping

\* The queues' bookkeeping is kept by every step.
LEMMA BookkeepingKept ==
  ASSUME TypeOK, Bookkeeping, [Next]_vars
  PROVE  TypeOK' /\ Bookkeeping'
<1>1. CASE SafetyApplied
  <2>1. writing # NoWrite
    BY <1>1 DEF SafetyApplied, Bookkeeping, WritingOK
  <2>2. /\ runtimeStopped' \in BOOLEAN /\ safetyRevision' \in Nat /\ safetyRevision' >= safetyRevision
        /\ UNCHANGED <<storage, enabledIntent, asked, safetyInstance, initialRead>>
    <3>1. UNCHANGED <<storage, enabledIntent, asked>> /\ (UNCHANGED runtime \/ NotifySafety(FALSE))
      BY <1>1 DEF SafetyApplied
    <3>2. CASE UNCHANGED runtime
      BY <3>1, <3>2 DEF runtime, TypeOK
    <3>3. CASE NotifySafety(FALSE)
      <4>1. runtimeStopped' \in BOOLEAN /\ UNCHANGED <<safetyInstance, initialRead>>
        BY <3>3 DEF NotifySafety
      <4>2. safetyRevision' \in Nat /\ safetyRevision' >= safetyRevision
        BY <3>3 DEF NotifySafety, TypeOK
      <4>. QED BY <3>1, <4>1, <4>2
    <3>. QED BY <3>1, <3>2, <3>3
  <2>. QED BY <1>1, <2>1, <2>2, SettleKeeps DEF SafetyApplied
<1>2. CASE SafetySuperseded \/ SafetyRejected
  <2>1. writing # NoWrite
    BY <1>2 DEF SafetySuperseded, SafetyRejected, Bookkeeping, WritingOK
  <2>2. /\ runtimeStopped' \in BOOLEAN /\ safetyRevision' \in Nat /\ safetyRevision' >= safetyRevision
        /\ UNCHANGED <<storage, enabledIntent, asked, safetyInstance, initialRead>>
    BY <1>2 DEF SafetySuperseded, SafetyRejected, runtime, TypeOK
  <2>. QED BY <1>2, <2>1, <2>2, SettleKeeps DEF SafetySuperseded, SafetyRejected
<1>. QED
  BY <1>1, <1>2, AskOffKeeps, AskOnKeeps, QueueStepKeeps, WriteEnabledKeeps, StoreSafetyKeeps,
     RestartKeeps, OutsideKeeps DEF Next, WorkerNext

\* Once a later start has reached the disk it keeps an answer that is not a failure.
LEMMA ReleasedIsStable ==
  ASSUME TypeOK, Bookkeeping, [Next]_vars, NEW j \in Requests, Released(j)
  PROVE  Released(j)'
<1>0. j <= enabledIntent /\ j # enabledIntent + 1
  BY DEF Released, Bookkeeping, Fresh, TypeOK, Requests
<1>1. CASE AskOff \/ AskOn
  <2>1. asked'[j] = asked[j] /\ reply'[j] = reply[j]
    BY <1>0, <1>1 DEF AskOff, AskOn, Ask, TypeOK
  <2>2. stored /\ writing # NoWrite => UNCHANGED <<stored, writing>>
    BY <1>1 DEF AskOff, AskOn, WriteSafety
  <2>3. [off |-> FALSE, intent |-> j] # NoWrite
    BY DEF NoWrite
  <2>. QED BY <2>1, <2>2, <2>3 DEF Released
<1>2. CASE SafetyApplied \/ SafetySuperseded \/ SafetyRejected
  <2>1. asked' = asked /\ (SafetyRejected => ~stored)
    BY <1>2 DEF SafetyApplied, SafetySuperseded, SafetyRejected
  <2>2. PICK r \in {"ok", "superseded", "refused"} : reply' = Answers(r) /\ (r = "refused" => ~stored)
    BY <1>2 DEF SafetyApplied, SafetySuperseded, SafetyRejected
  <2>3. CASE reply[j] = "waiting"
    BY <2>1, <2>2, <2>3 DEF Released, Answers
  <2>4. CASE reply[j] # "waiting"
    <3>1. writing.intent # j \/ writing.off
      <4>1. writing # NoWrite
        BY <1>2 DEF SafetyApplied, SafetySuperseded, SafetyRejected, Bookkeeping, WritingOK
      <4>. QED BY <2>4, <4>1 DEF Bookkeeping, PendingOK, Pending
    <3>2. writing.intent # j
      <4>1. writing # NoWrite
        BY <1>2 DEF SafetyApplied, SafetySuperseded, SafetyRejected, Bookkeeping, WritingOK
      <4>. QED BY <3>1, <4>1 DEF Bookkeeping, PendingOK, Pending, Released
    <3>3. reply'[j] \in {reply[j], "superseded"}
      BY <2>2, <3>2 DEF Answers
    <3>. QED BY <2>1, <2>4, <3>3 DEF Released
  <2>. QED BY <2>3, <2>4
<1>3. CASE ReadSettingsForOn \/ WriteDefaultSettings \/ PreserveOriginal \/ WriteEnabled \/ RequestFails
  <2>1. queue # <<>> /\ Head(queue).kind = "on" /\ stage # "release" /\ asked' = asked
    BY <1>3 DEF ReadSettingsForOn, WriteDefaultSettings, PreserveOriginal, WriteEnabled,
       RequestFails, AtStage, safety
  <2>2. 1 \in 1..Len(queue) /\ Head(queue) = queue[1]
    BY <2>1 DEF TypeOK
  <2>3. reply[Intent] = "waiting"
    BY <2>1, <2>2 DEF Bookkeeping, QueueOK, TaskOK, Intent
  <2>4. \A w \in Pending : w.off
    BY <2>1 DEF Bookkeeping, PendingOK, Pending, TypeOK, SafetyWrites, NoWrite
  <2>5. reply[j] \in {"ok", "superseded", "lost"}
    BY <2>4 DEF Released, Pending, NoWrite
  <2>6. reply'[j] = reply[j]
    BY <1>3, <2>3, <2>5 DEF ReadSettingsForOn, WriteDefaultSettings, PreserveOriginal, WriteEnabled,
       RequestFails, WriteIfCurrent, Advance, Finish, TypeOK
  <2>. QED BY <2>1, <2>5, <2>6 DEF Released
<1>4. CASE StoreSafety
  BY <1>4 DEF StoreSafety, Released, requests
<1>5. CASE WorkerRestart
  BY <1>5 DEF WorkerRestart, Released
<1>6. CASE InitialSafety \/ InitialSafetyFails \/ CleanupReads \/ CleanupWrites \/ RemoteEdit \/ UNCHANGED vars
  <2>1. UNCHANGED <<asked, reply, stored, writing>>
    BY <1>6 DEF InitialSafety, InitialSafetyFails, CleanupReads, Advance, CleanupWrites, RemoteEdit,
       vars, writer, requests, safety
  <2>. QED BY <2>1 DEF Released
<1>. QED BY <1>1, <1>2, <1>3, <1>4, <1>5, <1>6 DEF Next, WorkerNext

\* A stop that is answered "ok" is on disk, or a later start reached it.
LEMMA KeptKept ==
  ASSUME IInv, [Next]_vars
  PROVE  Kept'
<1>. USE DEF IInv
<1>. SUFFICES ASSUME NEW i \in Requests, asked'[i] = "off", reply'[i] = "ok"
     PROVE  local' = "stopped" \/ ReleasedAfter(i)'
  BY DEF Kept
<1>1. ReleasedAfter(i) => ReleasedAfter(i)'
  BY ReleasedIsStable DEF ReleasedAfter
<1>2. CASE AskOff \/ AskOn
  <2>1. asked[i] = "off" /\ reply[i] = "ok" /\ local' = local
    BY <1>2 DEF AskOff, AskOn, Ask, storage, TypeOK
  <2>. QED BY <1>1, <2>1 DEF Kept
<1>3. CASE StoreSafety
  <2>1. asked[i] = "off" /\ reply[i] = "ok" /\ writing # NoWrite /\ stored' /\ UNCHANGED <<asked, reply, writing>>
    BY <1>3 DEF StoreSafety, requests
  <2>2. CASE writing.off
    BY <1>3, <2>2 DEF StoreSafety, SafetyValue
  <2>3. CASE ~writing.off
    <3>1. writing \in Pending /\ writing \in SafetyWrites
      BY <2>1 DEF Pending, TypeOK
    <3>2. asked[writing.intent] = "on" /\ reply[writing.intent] = "waiting"
          /\ writing.intent \in Requests /\ writing.intent > i
      BY <2>1, <2>3, <3>1, BoundsAssumption DEF Bookkeeping, PendingOK, Passed, SafetyWrites
    <3>3. writing = [off |-> FALSE, intent |-> writing.intent]
      <4>1. writing = [off |-> writing.off, intent |-> writing.intent] /\ writing.off = FALSE
        BY <2>3, <3>1 DEF SafetyWrites
      <4>. QED BY <4>1
    <3>. QED BY <2>1, <3>2, <3>3 DEF ReleasedAfter, Released
  <2>. QED BY <2>2, <2>3
<1>4. CASE SafetyApplied \/ SafetySuperseded \/ SafetyRejected
  <2>1. local' = local /\ asked' = asked
    BY <1>4 DEF SafetyApplied, SafetySuperseded, SafetyRejected, storage
  <2>2. CASE reply[i] = "ok"
    BY <1>1, <2>1, <2>2 DEF Kept
  <2>3. CASE reply[i] # "ok"
    <3>1. SafetyApplied /\ i = writing.intent
      BY <1>4, <2>3 DEF SafetyApplied, SafetySuperseded, SafetyRejected, Answers
    <3>2. writing # NoWrite /\ stored
      BY <3>1 DEF SafetyApplied, Bookkeeping, WritingOK
    <3>3. writing.off
      BY <2>1, <3>1, <3>2 DEF Bookkeeping, PendingOK, Pending
    <3>. QED BY <2>1, <3>2, <3>3 DEF Bookkeeping, WritingOK
  <2>. QED BY <2>2, <2>3
<1>5. CASE ReadSettingsForOn \/ WriteDefaultSettings \/ PreserveOriginal \/ WriteEnabled \/ RequestFails
  <2>1. local' = local /\ asked' = asked
    BY <1>5 DEF ReadSettingsForOn, WriteDefaultSettings, PreserveOriginal, WriteEnabled,
       RequestFails, safety
  <2>2. reply[i] = "ok"
    BY <1>5 DEF ReadSettingsForOn, WriteDefaultSettings, PreserveOriginal, WriteEnabled,
       RequestFails, WriteIfCurrent, Advance, Finish, TypeOK
  <2>. QED BY <1>1, <2>1, <2>2 DEF Kept
<1>6. CASE WorkerRestart
  <2>1. asked[i] = "off" /\ reply[i] = "ok"
    BY <1>6 DEF WorkerRestart
  <2>2. CASE local' = local
    BY <1>1, <2>1, <2>2 DEF Kept
  <2>3. CASE local' # local
    <3>1. writing # NoWrite /\ ~stored /\ local' = SafetyValue(writing)
      BY <1>6, <2>3 DEF WorkerRestart, Landing
    <3>2. CASE writing.off
      BY <3>1, <3>2 DEF SafetyValue
    <3>3. CASE ~writing.off
      <4>1. writing \in Pending /\ writing \in SafetyWrites
        BY <3>1 DEF Pending, TypeOK
      <4>2. asked[writing.intent] = "on" /\ reply[writing.intent] = "waiting"
            /\ writing.intent \in Requests /\ writing.intent > i
        BY <2>1, <3>3, <4>1 DEF Bookkeeping, PendingOK, Passed, SafetyWrites
      <4>3. asked'[writing.intent] = "on" /\ reply'[writing.intent] = "lost"
        BY <1>6, <4>2 DEF WorkerRestart
      <4>. QED BY <4>2, <4>3 DEF ReleasedAfter, Released
    <3>. QED BY <3>2, <3>3
  <2>. QED BY <2>2, <2>3
<1>7. CASE InitialSafety \/ InitialSafetyFails \/ CleanupReads \/ CleanupWrites \/ RemoteEdit \/ UNCHANGED vars
  <2>1. UNCHANGED <<local, asked, reply>>
    BY <1>7 DEF InitialSafety, InitialSafetyFails, CleanupReads, Advance, CleanupWrites, RemoteEdit,
       vars, storage, writer, requests, safety
  <2>. QED BY <1>1, <2>1 DEF Kept
<1>. QED BY <1>2, <1>3, <1>4, <1>5, <1>6, <1>7 DEF Next, WorkerNext

\* The worker lifts its block only for a later start that reached the disk.
LEMMA ForcedKept ==
  ASSUME IInv, [Next]_vars
  PROVE  Forced'
<1>. USE DEF IInv
<1>. SUFFICES ASSUME NEW i \in Requests, asked'[i] = "off", reply'[i] \in {"waiting", "ok"}
     PROVE  runtimeStopped' \/ ReleasedAfter(i)'
  BY DEF Forced
<1>1. ReleasedAfter(i) => ReleasedAfter(i)'
  BY ReleasedIsStable DEF ReleasedAfter
<1>2. CASE AskOff \/ WorkerRestart
  BY <1>2 DEF AskOff, NotifySafety, WorkerRestart
<1>3. CASE InitialSafety
  <2>1. asked[i] = "off" /\ reply[i] \in {"waiting", "ok"}
    BY <1>3 DEF InitialSafety, requests
  <2>2. CASE safetyRevision # 0
    BY <1>1, <1>3, <2>1, <2>2 DEF InitialSafety, Forced
  <2>3. CASE safetyRevision = 0
    <3>1. reply[i] = "ok"
      BY <2>1, <2>3 DEF Bookkeeping, Noticed
    <3>. QED BY <1>1, <1>3, <2>1, <2>3, <3>1 DEF InitialSafety, IsHelperSafetyOff, Kept
  <2>. QED BY <2>2, <2>3
<1>4. CASE SafetyApplied
  <2>1. asked' = asked /\ asked[i] = "off" /\ writing # NoWrite
    BY <1>4 DEF SafetyApplied, Bookkeeping, WritingOK
  <2>2. CASE writing.off
    <3>1. runtimeStopped' = runtimeStopped
      BY <1>4, <2>2 DEF SafetyApplied, runtime
    <3>2. reply[i] \in {"waiting", "ok"} \/ i = writing.intent
      BY <1>4 DEF SafetyApplied, Answers
    <3>3. i = writing.intent => reply[i] = "waiting"
      BY <2>1 DEF Bookkeeping, PendingOK, Pending
    <3>. QED BY <1>1, <2>1, <3>1, <3>2, <3>3 DEF Forced
  <2>3. CASE ~writing.off
    <3>1. writing \in Pending /\ writing.intent = enabledIntent /\ writing.intent \in Requests
      BY <1>4, <2>1, BoundsAssumption DEF SafetyApplied, Pending, Bookkeeping, PendingOK, TypeOK, Requests,
         BoundsAssumption
    <3>2. asked[writing.intent] = "on" /\ reply'[writing.intent] = "ok"
      BY <1>4, <2>3, <3>1 DEF SafetyApplied, Answers, Bookkeeping, PendingOK
    <3>3. i <= enabledIntent /\ i # writing.intent
      BY <2>1, <3>2 DEF Bookkeeping, Fresh, TypeOK, Requests
    <3>. QED BY <2>1, <3>1, <3>2, <3>3 DEF ReleasedAfter, Released, TypeOK, Requests
  <2>. QED BY <2>2, <2>3
<1>5. CASE SafetySuperseded \/ SafetyRejected
  <2>1. asked' = asked /\ runtimeStopped' = runtimeStopped
    BY <1>5 DEF SafetySuperseded, SafetyRejected, runtime
  <2>2. reply[i] \in {"waiting", "ok"}
    BY <1>5 DEF SafetySuperseded, SafetyRejected, Answers
  <2>. QED BY <1>1, <2>1, <2>2 DEF Forced
<1>6. CASE ReadSettingsForOn \/ WriteDefaultSettings \/ PreserveOriginal \/ WriteEnabled \/ RequestFails
  <2>1. asked' = asked /\ runtimeStopped' = runtimeStopped
    BY <1>6 DEF ReadSettingsForOn, WriteDefaultSettings, PreserveOriginal, WriteEnabled,
       RequestFails, safety, runtime
  <2>2. reply[i] \in {"waiting", "ok"}
    BY <1>6 DEF ReadSettingsForOn, WriteDefaultSettings, PreserveOriginal, WriteEnabled,
       RequestFails, WriteIfCurrent, Advance, Finish, TypeOK
  <2>. QED BY <1>1, <2>1, <2>2 DEF Forced
<1>7. CASE AskOn
  <2>1. asked[i] = "off" /\ reply[i] \in {"waiting", "ok"} /\ runtimeStopped' = runtimeStopped
    BY <1>7 DEF AskOn, Ask, runtime, TypeOK
  <2>. QED BY <1>1, <2>1 DEF Forced
<1>8. CASE InitialSafetyFails \/ StoreSafety \/ CleanupReads \/ CleanupWrites \/ RemoteEdit \/ UNCHANGED vars
  <2>1. UNCHANGED <<runtimeStopped, asked, reply>>
    BY <1>8 DEF InitialSafetyFails, StoreSafety, CleanupReads, Advance, CleanupWrites, RemoteEdit,
       vars, runtime, writer, requests, safety
  <2>. QED BY <1>1, <2>1 DEF Forced
<1>. QED BY <1>2, <1>3, <1>4, <1>5, <1>6, <1>7, <1>8 DEF Next, WorkerNext

-----------------------------------------------------------------------------
(* The worker: the theorems *)

\* The invariant always holds.
LEMMA Invariance == Spec => []IInv
<1>1. Init => IInv
  BY InitIInv
<1>2. IInv /\ [Next]_vars => IInv'
  BY BookkeepingKept, KeptKept, ForcedKept DEF IInv
<1>. QED BY <1>1, <1>2, PTL DEF Spec

\* Every variable keeps its type; the queues never run on past their end.
THEOREM TypeCorrect == Spec => []TypeOK
<1>1. IInv => TypeOK
  BY DEF IInv
<1>. QED BY <1>1, Invariance, PTL

\* For any number of requests and restarts, a stop answered "ok" is on disk
\* until a later start is answered otherwise than with a failure.
THEOREM DurableStop == Spec => []AcknowledgedStopIsDurable
<1>1. IInv => AcknowledgedStopIsDurable
  BY DEF IInv, Kept, AcknowledgedStopIsDurable, Standing, ReleasedAfter, Released
<1>. QED BY <1>1, Invariance, PTL

\* For any number of requests and restarts, the worker blocks the helper from
\* the request for a stop on, whatever ends late.
THEOREM StopInForce == Spec => []StopIsInForce
<1>1. IInv => StopIsInForce
  BY DEF IInv, Forced, StopIsInForce, Standing, ReleasedAfter, Released
<1>. QED BY <1>1, Invariance, PTL

-----------------------------------------------------------------------------
(* The pages: the inductive invariant *)

PageStates == [enabled : BOOLEAN, port : {"open", "lost"},
               runtimeOff : BOOLEAN, instance : 0..MaxRestarts, revision : Nat \cup {-1},
               helperOff : BOOLEAN, localRead : Reads \cup {"off", "on"},
               settingsLoaded : BOOLEAN, settingsOn : BOOLEAN,
               settingsRead : Reads \cup Parsed]
Events == [key : {"local"}, value : {"on", "off"}] \cup [key : {"settings"}, value : Parsed]

ChannelTypes(ib, ask, ans, ev) ==
    /\ ib \in Seq(Messages) /\ ask \in BOOLEAN /\ ev \in Seq(Events)
    /\ ans \in SUBSET Messages /\ (ask => ans = {})

\* The helper runs only while each source the page has heard allows it.
Allowed(pg) == pg.enabled => pg.settingsLoaded /\ pg.settingsOn /\ ~pg.runtimeOff /\ ~pg.helperOff

\* Nothing is newer than the worker's state st, and of what has the worker's
\* instance the last broadcast on its way is the newest.
NotAhead(m, st) == /\ m.instance <= st.instance
                   /\ m.instance = st.instance => m.revision <= st.revision
NotLast(m, ib) == ib # <<>> /\ m.instance = ib[Len(ib)].instance => m.revision <= ib[Len(ib)].revision
Newer(ib, st) == ib # <<>> /\ ib[Len(ib)].instance = st.instance

InboxCurrent(ib, st) ==
    /\ Newer(ib, st) => ib[Len(ib)] = st
    /\ \A k \in 1..Len(ib) : /\ NotAhead(ib[k], st) /\ ib[k].revision > 0 /\ NotLast(ib[k], ib)
                             /\ ib[k].instance = st.instance =>
                                   Newer(ib, st) /\ (ib[k].revision = st.revision => ib[k].off = st.off)

AnswerCurrent(m, ib, st, read) ==
    /\ NotAhead(m, st) /\ NotLast(m, ib) /\ m.revision >= 0
    /\ m.instance = st.instance => /\ read
                                   /\ m.revision = st.revision => m.off = st.off
                                   /\ m.revision # st.revision => Newer(ib, st)

PageCurrent(pg, ib, ask, ans, st, read) ==
    /\ NotAhead(pg, st) /\ NotLast(pg, ib)
    /\ pg.instance = st.instance =>
          /\ pg.revision = st.revision => pg.runtimeOff = st.off /\ (read \/ st.revision > 0)
          /\ pg.revision # st.revision => ask \/ ans # {} \/ Newer(ib, st)

Current(pg, ib, ask, ans, st, read) ==
    /\ InboxCurrent(ib, st)
    /\ \A m \in ans : AnswerCurrent(m, ib, st, read)
    /\ PageCurrent(pg, ib, ask, ans, st, read)

\* The last event about a key tells its present value.
NoWord(ev, key) == \A k \in 1..Len(ev) : ev[k].key # key
Tells(ev, key, value) ==
    \A k \in 1..Len(ev) :
        ev[k].key = key /\ (\A l \in 1..Len(ev) : l > k => ev[l].key # key) => ev[k].value = value

LocalWord(value) == IF value = "running" THEN "on" ELSE "off"
FollowsLocal(pg, ev, value) ==
    /\ Tells(ev, "local", LocalWord(value))
    /\ NoWord(ev, "local") /\ pg.localRead = "on" => value # "stopped"
    /\ NoWord(ev, "local") /\ pg.localRead = "done" /\ ~pg.helperOff => value # "stopped"

FollowsSettings(pg, ev, value) ==
    /\ Tells(ev, "settings", Parse(value))
    /\ NoWord(ev, "settings") /\ pg.settingsRead \in Parsed => pg.settingsRead = Parse(value)
    /\ NoWord(ev, "settings") /\ pg.settingsRead = "done" /\ pg.settingsLoaded /\ pg.settingsOn
          => value # "disabled"

\* What the page hears last of the worker is a stop.
LastWordOff(pg, ib, ask, ans) ==
    /\ ib # <<>> => ib[Len(ib)].off
    /\ ib = <<>> /\ pg.port = "open" => /\ \A m \in ans : m.off
                                        /\ ~ask /\ ans = {} => pg.runtimeOff

\* Some stop stands, and no later start has reached the disk.
Stopping == \E i \in Requests :
               asked[i] = "off" /\ reply[i] \in {"waiting", "ok"} /\ ~ReleasedAfter(i)

GateTypes == /\ page \in [Pages -> PageStates]
             /\ inbox \in [Pages -> Seq(Messages)] /\ asking \in [Pages -> BOOLEAN]
             /\ answers \in [Pages -> SUBSET Messages] /\ events \in [Pages -> Seq(Events)]
             /\ \A p \in Pages : asking[p] => answers[p] = {}

PageOK(p) == /\ Allowed(page[p])
             /\ Current(page[p], inbox[p], asking[p], answers[p], StateMessage, initialRead)
             /\ FollowsLocal(page[p], events[p], local)
             /\ FollowsSettings(page[p], events[p], settings)
             /\ Stopping => LastWordOff(page[p], inbox[p], asking[p], answers[p])

GateInv == GateTypes /\ \A p \in Pages : PageOK(p)

-----------------------------------------------------------------------------
(* Taking the head of a channel *)

\* What is left of a channel, and its last word.
LEMMA Rest ==
  ASSUME NEW S, NEW s \in Seq(S), s # <<>>
  PROVE  /\ Tail(s) \in Seq(S) /\ Len(s) \in Nat \ {0} /\ Len(Tail(s)) = Len(s) - 1
         /\ Head(s) = s[1] /\ 1 \in 1..Len(s) /\ Len(s) \in 1..Len(s) /\ s[1] \in S
         /\ \A k \in 1..Len(Tail(s)) : k + 1 \in 1..Len(s) /\ Tail(s)[k] = s[k + 1]
         /\ Tail(s) # <<>> => Len(s) > 1 /\ Tail(s)[Len(Tail(s))] = s[Len(s)]
         /\ Tail(s) = <<>> => Len(s) = 1 /\ Len(Tail(s)) = 0 /\ s[Len(s)] = Head(s)
<1>1. Tail(s) \in Seq(S) /\ Len(s) \in Nat \ {0} /\ Len(Tail(s)) = Len(s) - 1
      /\ \A k \in 1..Len(Tail(s)) : Tail(s)[k] = s[k + 1]
  BY HeadTailProperties, EmptySeq, LenProperties
<1>2. Head(s) = s[1] /\ 1 \in 1..Len(s) /\ Len(s) \in 1..Len(s) /\ s[1] \in S
  BY <1>1, ElementOfSeq
<1>3. \A k \in 1..Len(Tail(s)) : k + 1 \in 1..Len(s) /\ Tail(s)[k] = s[k + 1]
  BY <1>1
<1>4. Tail(s) # <<>> => Len(s) > 1 /\ Tail(s)[Len(Tail(s))] = s[Len(s)]
  <2>. SUFFICES ASSUME Tail(s) # <<>> PROVE Len(s) > 1 /\ Tail(s)[Len(Tail(s))] = s[Len(s)]
    OBVIOUS
  <2>1. Len(Tail(s)) \in Nat \ {0}
    BY <1>1, EmptySeq
  <2>2. Len(Tail(s)) \in 1..Len(Tail(s)) /\ Len(Tail(s)) + 1 = Len(s)
    BY <1>1, <2>1
  <2>. QED BY <1>1, <2>1, <2>2
<1>5. Tail(s) = <<>> => Len(s) = 1 /\ Len(Tail(s)) = 0 /\ s[Len(s)] = Head(s)
  <2>0. Len(<<>>) = 0
    OBVIOUS
  <2>1. Tail(s) = <<>> => Len(Tail(s)) = 0
    BY <2>0
  <2>2. Tail(s) = <<>> => Len(s) = 1
    BY <1>1, <2>1
  <2>. QED BY <1>2, <2>1, <2>2
<1>. QED BY <1>1, <1>2, <1>3, <1>4, <1>5

\* syncEnabled sets the one flag it is named for, and rightly.
LEMMA Synced ==
  ASSUME NEW s \in PageStates
  PROVE  /\ SyncEnabled(s) \in PageStates /\ Allowed(SyncEnabled(s))
         /\ SyncEnabled(s).port = s.port /\ SyncEnabled(s).runtimeOff = s.runtimeOff
         /\ SyncEnabled(s).instance = s.instance /\ SyncEnabled(s).revision = s.revision
         /\ SyncEnabled(s).helperOff = s.helperOff /\ SyncEnabled(s).localRead = s.localRead
         /\ SyncEnabled(s).settingsLoaded = s.settingsLoaded
         /\ SyncEnabled(s).settingsOn = s.settingsOn
         /\ SyncEnabled(s).settingsRead = s.settingsRead
BY DEF PageStates, SyncEnabled, Allowed

\* The page takes over the runtime stop as it is told.
LEMMA Heeded ==
  ASSUME NEW s \in PageStates, NEW m \in Messages
  PROVE  /\ Heed(s, m) \in PageStates /\ Allowed(Heed(s, m))
         /\ Heed(s, m).port = s.port /\ Heed(s, m).runtimeOff = m.off
         /\ Heed(s, m).instance = m.instance /\ Heed(s, m).revision = m.revision
         /\ Heed(s, m).helperOff = s.helperOff /\ Heed(s, m).localRead = s.localRead
         /\ Heed(s, m).settingsLoaded = s.settingsLoaded
         /\ Heed(s, m).settingsOn = s.settingsOn
         /\ Heed(s, m).settingsRead = s.settingsRead
<1>. DEFINE t == [s EXCEPT !.runtimeOff = m.off, !.instance = m.instance, !.revision = m.revision]
<1>1. t \in PageStates
  BY DEF PageStates, Messages
<1>2. /\ t.port = s.port /\ t.runtimeOff = m.off /\ t.instance = m.instance
      /\ t.revision = m.revision /\ t.helperOff = s.helperOff /\ t.localRead = s.localRead
      /\ t.settingsLoaded = s.settingsLoaded /\ t.settingsOn = s.settingsOn
      /\ t.settingsRead = s.settingsRead
  BY DEF PageStates, Messages
<1>3. Heed(s, m) = SyncEnabled(t)
  BY DEF Heed
<1>. HIDE DEF t
<1>. QED BY <1>1, <1>2, <1>3, Synced

-----------------------------------------------------------------------------
(* The runtime stop, as one page follows it *)

\* What is left of the broadcasts is as current as it was.
LEMMA InboxRest ==
  ASSUME NEW ib \in Seq(Messages), ib # <<>>, NEW st \in Messages, InboxCurrent(ib, st)
  PROVE  InboxCurrent(Tail(ib), st)
<1>1. /\ Tail(ib) \in Seq(Messages) /\ Len(Tail(ib)) = Len(ib) - 1
      /\ \A k \in 1..Len(Tail(ib)) : k + 1 \in 1..Len(ib) /\ Tail(ib)[k] = ib[k + 1]
      /\ Tail(ib) # <<>> => Tail(ib)[Len(Tail(ib))] = ib[Len(ib)]
      /\ Tail(ib) = <<>> => Len(Tail(ib)) = 0
  BY Rest
<1>2. Newer(Tail(ib), st) => Tail(ib)[Len(Tail(ib))] = st
  BY <1>1 DEF InboxCurrent, Newer
<1>3. ASSUME NEW k \in 1..Len(Tail(ib))
      PROVE  /\ NotAhead(Tail(ib)[k], st) /\ Tail(ib)[k].revision > 0 /\ NotLast(Tail(ib)[k], Tail(ib))
             /\ Tail(ib)[k].instance = st.instance =>
                   /\ Newer(Tail(ib), st)
                   /\ Tail(ib)[k].revision = st.revision => Tail(ib)[k].off = st.off
  <2>1. k + 1 \in 1..Len(ib) /\ Tail(ib)[k] = ib[k + 1]
    BY <1>1
  <2>2. /\ NotAhead(ib[k + 1], st) /\ ib[k + 1].revision > 0 /\ NotLast(ib[k + 1], ib)
        /\ ib[k + 1].instance = st.instance =>
              Newer(ib, st) /\ (ib[k + 1].revision = st.revision => ib[k + 1].off = st.off)
    BY <2>1 DEF InboxCurrent
  <2>4. Tail(ib) # <<>>
    BY <1>1
  <2>3. /\ NotLast(ib[k + 1], Tail(ib))
        /\ ib[k + 1].instance = st.instance => Newer(Tail(ib), st)
    BY <1>1, <2>2, <2>4 DEF NotLast, Newer
  <2>. QED BY <2>1, <2>2, <2>3
<1>. QED BY <1>2, <1>3 DEF InboxCurrent

\* A broadcast that is heeded makes every answer on its way worthless.
LEMMA BroadcastHeeded ==
  ASSUME NEW pg \in PageStates, NEW ib \in Seq(Messages), NEW ask, NEW ans, NEW st \in Messages,
         NEW read \in BOOLEAN, Current(pg, ib, ask, ans, st, read), ib # <<>>
  PROVE  /\ Heed(pg, Head(ib)) \in PageStates
         /\ Current(Heed(pg, Head(ib)), Tail(ib), FALSE, {}, st, read)
<1>. DEFINE m == Head(ib)
            pg2 == Heed(pg, m)
<1>1. /\ Tail(ib) \in Seq(Messages) /\ m = ib[1] /\ 1 \in 1..Len(ib) /\ m \in Messages
      /\ Tail(ib) # <<>> => Tail(ib)[Len(Tail(ib))] = ib[Len(ib)]
      /\ Tail(ib) = <<>> => ib[Len(ib)] = m
  BY Rest
<1>2. /\ pg2 \in PageStates /\ pg2.instance = m.instance /\ pg2.revision = m.revision
      /\ pg2.runtimeOff = m.off
  BY <1>1, Heeded
<1>3. NotAhead(m, st) /\ m.revision > 0 /\ NotLast(m, ib) /\ InboxCurrent(ib, st)
  BY <1>1 DEF Current, InboxCurrent
<1>4. /\ m.revision \in Nat /\ st.revision \in Nat
  BY <1>1 DEF Messages
<1>5. InboxCurrent(Tail(ib), st)
  BY <1>3, InboxRest
<1>. HIDE DEF m, pg2
<1>6. NotAhead(pg2, st) /\ NotLast(pg2, Tail(ib))
  BY <1>1, <1>2, <1>3 DEF NotAhead, NotLast
<1>7. ASSUME pg2.instance = st.instance
      PROVE  /\ pg2.revision = st.revision => pg2.runtimeOff = st.off /\ (read \/ st.revision > 0)
             /\ pg2.revision # st.revision => Newer(Tail(ib), st)
  <2>1. CASE Tail(ib) = <<>>
    <3>1. m = st
      BY <1>1, <1>2, <1>3, <1>7, <2>1 DEF InboxCurrent, Newer
    <3>. QED BY <1>2, <1>3, <3>1
  <2>2. CASE Tail(ib) # <<>>
    <3>1. Newer(ib, st)
      BY <1>1, <1>2, <1>7 DEF Current, InboxCurrent
    <3>2. Newer(Tail(ib), st)
      BY <1>1, <2>2, <3>1 DEF Newer
    <3>3. m.revision = st.revision => m.off = st.off
      BY <1>1, <1>2, <1>3, <1>7 DEF InboxCurrent
    <3>. QED BY <1>2, <1>3, <3>2, <3>3
  <2>. QED BY <2>1, <2>2
<1>. QED BY <1>2, <1>5, <1>6, <1>7 DEF Current, PageCurrent, m, pg2

\* A broadcast that is not heeded is older than another one behind it.
LEMMA BroadcastDropped ==
  ASSUME NEW pg \in PageStates, NEW ib \in Seq(Messages), NEW ask, NEW ans, NEW st \in Messages,
         NEW read \in BOOLEAN, Current(pg, ib, ask, ans, st, read), ib # <<>>,
         Head(ib).instance = pg.instance, Head(ib).revision < pg.revision
  PROVE  /\ Tail(ib) # <<>>
         /\ Current(pg, Tail(ib), ask, ans, st, read)
<1>1. /\ Tail(ib) # <<>> => Tail(ib)[Len(Tail(ib))] = ib[Len(ib)]
      /\ Tail(ib) = <<>> => ib[Len(ib)] = Head(ib)
      /\ Head(ib) \in Messages
  BY Rest
<1>2. Tail(ib) # <<>>
  <2>1. NotLast(pg, ib)
    BY DEF Current, PageCurrent
  <2>2. pg.revision \in Nat \cup {-1} /\ Head(ib).revision \in Nat
    BY <1>1 DEF PageStates, Messages
  <2>. QED BY <1>1, <2>1, <2>2 DEF NotLast
<1>3. Newer(ib, st) => Newer(Tail(ib), st)
  BY <1>1, <1>2 DEF Newer
<1>4. ASSUME NEW m, NotLast(m, ib) PROVE NotLast(m, Tail(ib))
  BY <1>1, <1>2, <1>4 DEF NotLast
<1>5. InboxCurrent(Tail(ib), st)
  BY InboxRest DEF Current
<1>6. ASSUME NEW m \in ans PROVE AnswerCurrent(m, Tail(ib), st, read)
  BY <1>3, <1>4 DEF Current, AnswerCurrent
<1>7. PageCurrent(pg, Tail(ib), ask, ans, st, read)
  BY <1>3, <1>4 DEF Current, PageCurrent
<1>. QED BY <1>2, <1>5, <1>6, <1>7 DEF Current

\* The worker's answer is its present state.
LEMMA AnswerServed ==
  ASSUME NEW pg \in PageStates, NEW ib \in Seq(Messages), NEW ask, NEW ans, NEW st \in Messages,
         Current(pg, ib, ask, ans, st, TRUE)
  PROVE  Current(pg, ib, FALSE, {st}, st, TRUE)
<1>1. st.revision \in Nat /\ st.instance \in Nat
  BY DEF Messages
<1>2. AnswerCurrent(st, ib, st, TRUE)
  <2>1. NotLast(st, ib)
    BY <1>1 DEF NotLast, Current, InboxCurrent, Newer
  <2>. QED BY <1>1, <2>1 DEF AnswerCurrent, NotAhead
<1>3. PageCurrent(pg, ib, FALSE, {st}, st, TRUE)
  BY DEF Current, PageCurrent
<1>. QED BY <1>2, <1>3 DEF Current

\* An answer that arrives is the newest word, or a newer one is under way.
LEMMA AnswerTaken ==
  ASSUME NEW pg \in PageStates, NEW ib \in Seq(Messages), NEW ask, NEW ans \in SUBSET Messages,
         NEW st \in Messages, NEW read \in BOOLEAN, Current(pg, ib, ask, ans, st, read), NEW m \in ans
  PROVE  /\ Heed(pg, m) \in PageStates
         /\ Current(Heed(pg, m), ib, ask, {}, st, read)
<1>. DEFINE pg2 == Heed(pg, m)
<1>1. /\ pg2 \in PageStates /\ pg2.instance = m.instance /\ pg2.revision = m.revision
      /\ pg2.runtimeOff = m.off
  BY Heeded
<1>2. AnswerCurrent(m, ib, st, read) /\ InboxCurrent(ib, st)
  BY DEF Current
<1>. HIDE DEF pg2
<1>3. PageCurrent(pg2, ib, ask, {}, st, read)
  BY <1>1, <1>2 DEF AnswerCurrent, PageCurrent, NotAhead, NotLast
<1>. QED BY <1>1, <1>2, <1>3 DEF Current, pg2

\* A page that asks anew is current, whatever it knows.
LEMMA AskedAnew ==
  ASSUME NEW pg, NEW ib, NEW ask, NEW ans, NEW st, NEW read, Current(pg, ib, ask, ans, st, read),
         NEW pg2, pg2.instance = pg.instance, pg2.revision = pg.revision, pg2.runtimeOff = pg.runtimeOff
  PROVE  Current(pg2, ib, TRUE, {}, st, read)
BY DEF Current, PageCurrent, NotAhead, NotLast

\* So is one whose other fields change.
LEMMA SameRuntime ==
  ASSUME NEW pg, NEW ib, NEW ask, NEW ans, NEW st, NEW read, Current(pg, ib, ask, ans, st, read),
         NEW pg2, pg2.instance = pg.instance, pg2.revision = pg.revision, pg2.runtimeOff = pg.runtimeOff
  PROVE  Current(pg2, ib, ask, ans, st, read)
BY DEF Current, PageCurrent, NotAhead, NotLast

\* A new document knows nothing yet.
LEMMA FreshIsCurrent ==
  ASSUME NEW st \in Messages, NEW read
  PROVE  Current(FreshPage, <<>>, TRUE, {}, st, read)
<1>1. st.instance \in Nat /\ st.revision \in Nat
  BY DEF Messages
<1>2. FreshPage.instance = 0 /\ FreshPage.revision = -1
  BY DEF FreshPage
<1>3. NotAhead(FreshPage, st) /\ NotLast(FreshPage, <<>>)
  BY <1>1, <1>2 DEF NotAhead, NotLast
<1>4. PageCurrent(FreshPage, <<>>, TRUE, {}, st, read)
  BY <1>1, <1>2, <1>3 DEF PageCurrent
<1>5. InboxCurrent(<<>>, st)
  <2>1. Len(<<>>) = 0
    OBVIOUS
  <2>2. \A k \in 1..Len(<<>>) : FALSE
    BY <2>1
  <2>. QED BY <2>2 DEF InboxCurrent, Newer
<1>. QED BY <1>4, <1>5 DEF Current

\* The worker tells every page of a change of its state.
LEMMA Broadcast ==
  ASSUME NEW pg \in PageStates, NEW ib \in Seq(Messages), NEW ask, NEW ans \in SUBSET Messages,
         NEW st \in Messages, NEW read \in BOOLEAN, Current(pg, ib, ask, ans, st, read),
         NEW st2 \in Messages, st2.instance = st.instance, st2.revision = st.revision + 1,
         NEW read2 \in BOOLEAN, read => read2
  PROVE  Current(pg, Append(ib, st2), ask, ans, st2, read2)
<1>. DEFINE ib2 == Append(ib, st2)
<1>1. /\ ib2 \in Seq(Messages) /\ ib2 # <<>> /\ Len(ib) \in Nat /\ Len(ib2) = Len(ib) + 1
      /\ ib2[Len(ib2)] = st2 /\ \A k \in 1..Len(ib) : ib2[k] = ib[k]
      /\ \A k \in 1..Len(ib2) : k \in 1..Len(ib) \/ k = Len(ib2)
  <2>1. ib2 \in Seq(Messages) /\ ib2 # <<>> /\ Len(ib) \in Nat /\ Len(ib2) = Len(ib) + 1
    BY AppendProperties, LenProperties
  <2>. QED BY <2>1, AppendProperties
<1>. HIDE DEF ib2
<1>2. st.revision \in Nat /\ st.instance \in Nat
  BY DEF Messages
<1>3. ASSUME NEW m, m.revision \in Nat \cup {-1}, NotAhead(m, st)
      PROVE  NotAhead(m, st2) /\ NotLast(m, ib2) /\ (m.instance = st2.instance => m.revision # st2.revision)
  BY <1>1, <1>2, <1>3 DEF NotAhead, NotLast
<1>4. Newer(ib2, st2)
  BY <1>1 DEF Newer
<1>5. InboxCurrent(ib2, st2)
  <2>. SUFFICES ASSUME NEW k \in 1..Len(ib2)
       PROVE  /\ NotAhead(ib2[k], st2) /\ ib2[k].revision > 0 /\ NotLast(ib2[k], ib2)
              /\ ib2[k].revision = st2.revision /\ ib2[k].instance = st2.instance => ib2[k].off = st2.off
    BY <1>1, <1>4 DEF InboxCurrent
  <2>1. CASE k \in 1..Len(ib)
    <3>0. ib[k] \in Messages
      BY <2>1, ElementOfSeq
    <3>1. ib[k].revision \in Nat
      BY <3>0 DEF Messages
    <3>2. NotAhead(ib[k], st) /\ ib[k].revision > 0
      BY <2>1 DEF Current, InboxCurrent
    <3>. QED BY <1>1, <1>3, <2>1, <3>1, <3>2
  <2>2. CASE k = Len(ib2)
    <3>1. st2.revision > 0 /\ st2.instance \in Nat /\ st2.revision \in Nat
      BY <1>2
    <3>. QED BY <1>1, <2>2, <3>1 DEF NotAhead, NotLast
  <2>. QED BY <1>1, <2>1, <2>2
<1>6. ASSUME NEW m \in ans PROVE AnswerCurrent(m, ib2, st2, read2)
  <2>1. m.revision \in Nat /\ AnswerCurrent(m, ib, st, read)
    BY DEF Current, Messages
  <2>2. NotAhead(m, st2) /\ NotLast(m, ib2) /\ (m.instance = st2.instance => m.revision # st2.revision)
    BY <1>3, <2>1 DEF AnswerCurrent
  <2>. QED BY <1>4, <2>1, <2>2 DEF AnswerCurrent
<1>7. PageCurrent(pg, ib2, ask, ans, st2, read2)
  <2>1. pg.revision \in Nat \cup {-1} /\ NotAhead(pg, st)
    BY DEF Current, PageCurrent, PageStates
  <2>2. NotAhead(pg, st2) /\ NotLast(pg, ib2) /\ (pg.instance = st2.instance => pg.revision # st2.revision)
    BY <1>3, <2>1
  <2>. QED BY <1>4, <2>2 DEF PageCurrent
<1>. QED BY <1>5, <1>6, <1>7 DEF Current, ib2

\* The start-up read may change the state without a word, but only before anyone was told.
LEMMA SilentStart ==
  ASSUME NEW pg, NEW ib \in Seq(Messages), NEW ask, NEW ans,
         NEW st \in Messages, NEW read \in BOOLEAN, Current(pg, ib, ask, ans, st, read),
         NEW st2 \in Messages, st2.instance = st.instance, st2.revision = st.revision,
         st2.off = st.off \/ (st.revision = 0 /\ ~read),
         NEW read2 \in BOOLEAN, read => read2
  PROVE  Current(pg, ib, ask, ans, st2, read2)
<1>1. CASE st2.off = st.off
  <2>1. st2 = st
    BY <1>1 DEF Messages
  <2>. QED BY <2>1 DEF Current, AnswerCurrent, PageCurrent
<1>2. CASE st.revision = 0 /\ ~read
  <2>1. ~Newer(ib, st)
    <3>. SUFFICES ASSUME Newer(ib, st) PROVE FALSE
      OBVIOUS
    <3>1. ib # <<>> /\ ib[Len(ib)] = st
      BY DEF Current, InboxCurrent, Newer
    <3>2. Len(ib) \in 1..Len(ib)
      BY <3>1, Rest
    <3>. QED BY <1>2, <3>1, <3>2 DEF Current, InboxCurrent
  <2>2. ~Newer(ib, st2)
    BY <2>1 DEF Newer
  <2>3. \A m : NotAhead(m, st) => NotAhead(m, st2)
    BY DEF NotAhead
  <2>4. InboxCurrent(ib, st2)
    BY <2>1, <2>2, <2>3 DEF Current, InboxCurrent
  <2>5. \A m \in ans : m.instance # st2.instance
    BY <1>2 DEF Current, AnswerCurrent
  <2>6. \A m \in ans : AnswerCurrent(m, ib, st2, read2)
    BY <2>3, <2>5 DEF Current, AnswerCurrent
  <2>7. PageCurrent(pg, ib, ask, ans, st2, read2)
    BY <1>2, <2>1, <2>3 DEF Current, PageCurrent
  <2>. QED BY <2>4, <2>6, <2>7 DEF Current
<1>. QED BY <1>1, <1>2

\* A new worker has told nothing yet.
LEMMA NewWorker ==
  ASSUME NEW ib \in Seq(Messages), NEW st \in Messages, InboxCurrent(ib, st),
         NEW st2 \in Messages, st2.instance = st.instance + 1, NEW ib2 \in {ib, <<>>}
  PROVE  /\ InboxCurrent(ib2, st2)
         /\ \A m : m.instance \in Nat /\ NotAhead(m, st) /\ NotLast(m, ib) =>
                 NotAhead(m, st2) /\ NotLast(m, ib2) /\ m.instance # st2.instance
<1>1. st.instance \in Nat /\ \A m \in Messages : m.instance \in Nat
  BY DEF Messages
<1>2. ASSUME NEW m, m.instance \in Nat, NotAhead(m, st)
      PROVE  NotAhead(m, st2) /\ m.instance # st2.instance
  BY <1>1, <1>2 DEF NotAhead
<1>3. ASSUME NEW m, NotLast(m, ib) PROVE NotLast(m, ib2)
  BY <1>3 DEF NotLast
<1>4. ASSUME NEW k \in 1..Len(ib2)
      PROVE  /\ ib2 = ib /\ ib[k].instance \in Nat /\ NotAhead(ib[k], st)
             /\ ib[k].revision > 0 /\ NotLast(ib[k], ib)
  <2>1. ib2 = ib
    BY EmptySeq
  <2>. QED BY <1>1, <2>1, ElementOfSeq DEF InboxCurrent
<1>5. ~Newer(ib2, st2)
  <2>. SUFFICES ASSUME ib2 # <<>> PROVE ib2[Len(ib2)].instance # st2.instance
    BY DEF Newer
  <2>1. ib2 = ib /\ Len(ib) \in 1..Len(ib2)
    BY Rest
  <2>. QED BY <1>2, <1>4, <2>1
<1>6. InboxCurrent(ib2, st2)
  BY <1>2, <1>3, <1>4, <1>5 DEF InboxCurrent
<1>. QED BY <1>2, <1>3, <1>6

-----------------------------------------------------------------------------
(* The two storage keys, as one page follows them *)

\* Once the head of the events is taken, the rest tells what all of them told.
LEMMA EventTaken ==
  ASSUME NEW ev \in Seq(Events), ev # <<>>, NEW key, NEW value, Tells(ev, key, value)
  PROVE  /\ Head(ev) \in Events /\ Tail(ev) \in Seq(Events)
         /\ Tells(Tail(ev), key, value)
         /\ NoWord(Tail(ev), key) /\ Head(ev).key = key => Head(ev).value = value
         /\ NoWord(Tail(ev), key) /\ Head(ev).key # key => NoWord(ev, key)
<1>1. /\ Tail(ev) \in Seq(Events) /\ Head(ev) = ev[1] /\ 1 \in 1..Len(ev) /\ Head(ev) \in Events
      /\ \A k \in 1..Len(Tail(ev)) : k + 1 \in 1..Len(ev) /\ Tail(ev)[k] = ev[k + 1]
      /\ Len(ev) \in Nat /\ Len(Tail(ev)) = Len(ev) - 1
  BY Rest
<1>2. \A l \in 1..Len(ev) : l # 1 => l - 1 \in 1..Len(Tail(ev)) /\ ev[l] = Tail(ev)[l - 1]
  <2>. TAKE l \in 1..Len(ev)
  <2>1. l # 1 => l - 1 \in 1..Len(Tail(ev)) /\ (l - 1) + 1 = l
    BY <1>1
  <2>. QED BY <1>1, <2>1
<1>3. Tells(Tail(ev), key, value)
  <2>. SUFFICES ASSUME NEW k \in 1..Len(Tail(ev)), Tail(ev)[k].key = key,
                       \A l \in 1..Len(Tail(ev)) : l > k => Tail(ev)[l].key # key
       PROVE  Tail(ev)[k].value = value
    BY DEF Tells
  <2>1. k + 1 \in 1..Len(ev) /\ ev[k + 1] = Tail(ev)[k]
    BY <1>1
  <2>2. ASSUME NEW l \in 1..Len(ev), l > k + 1 PROVE ev[l].key # key
    <3>1. l # 1 /\ l - 1 > k
      BY <2>2
    <3>. QED BY <1>2, <3>1
  <2>. QED BY <2>1, <2>2 DEF Tells
<1>4. ASSUME NoWord(Tail(ev), key), Head(ev).key = key PROVE Head(ev).value = value
  <2>1. ASSUME NEW l \in 1..Len(ev), l > 1 PROVE ev[l].key # key
    <3>1. l # 1
      BY <2>1
    <3>. QED BY <1>2, <1>4, <3>1 DEF NoWord
  <2>2. 1 \in 1..Len(ev) /\ ev[1].key = key
    BY <1>1, <1>4
  <2>3. ev[1].value = value
    BY <2>1, <2>2 DEF Tells
  <2>. QED BY <1>1, <2>3
<1>5. ASSUME NoWord(Tail(ev), key), Head(ev).key # key PROVE NoWord(ev, key)
  BY <1>1, <1>2, <1>5 DEF NoWord
<1>. QED BY <1>1, <1>3, <1>4, <1>5

\* An event about a key is its last word; one about another key adds nothing.
LEMMA EventAdded ==
  ASSUME NEW ev \in Seq(Events), NEW e \in Events
  PROVE  /\ ev \o <<e>> \in Seq(Events)
         /\ \A value : Tells(ev \o <<e>>, e.key, value) <=> e.value = value
         /\ ~NoWord(ev \o <<e>>, e.key)
         /\ \A key, value : key # e.key =>
               /\ Tells(ev, key, value) => Tells(ev \o <<e>>, key, value)
               /\ NoWord(ev \o <<e>>, key) => NoWord(ev, key)
<1>. DEFINE ev2 == ev \o <<e>>
            n == Len(ev) + 1
<1>1. ev2 = Append(ev, e)
  BY AppendIsConcat
<1>2. /\ ev2 \in Seq(Events) /\ Len(ev) \in Nat /\ Len(ev2) = n /\ ev2[n] = e
      /\ \A k \in 1..Len(ev) : ev2[k] = ev[k]
  BY <1>1, AppendProperties, LenProperties
<1>. HIDE DEF ev2
<1>3. /\ n \in 1..Len(ev2) /\ \A k \in 1..Len(ev) : k \in 1..Len(ev2)
      /\ \A k \in 1..Len(ev2) : k \in 1..Len(ev) \/ k = n
      /\ \A l \in 1..Len(ev2) : ~(l > n)
  BY <1>2
<1>4. ~NoWord(ev2, e.key)
  BY <1>2, <1>3 DEF NoWord
<1>5. ASSUME NEW value PROVE Tells(ev2, e.key, value) <=> e.value = value
  <2>1. ASSUME NEW k \in 1..Len(ev2), \A l \in 1..Len(ev2) : l > k => ev2[l].key # e.key
        PROVE  k = n
    <3>1. n > k \/ k = n
      BY <1>2
    <3>. QED BY <1>2, <1>3, <2>1, <3>1
  <2>2. ASSUME Tells(ev2, e.key, value) PROVE e.value = value
    <3>1. ev2[n].key = e.key /\ \A l \in 1..Len(ev2) : l > n => ev2[l].key # e.key
      BY <1>2, <1>3
    <3>. QED BY <1>2, <1>3, <2>2, <3>1 DEF Tells
  <2>3. ASSUME e.value = value PROVE Tells(ev2, e.key, value)
    <3>. SUFFICES ASSUME NEW k \in 1..Len(ev2), \A l \in 1..Len(ev2) : l > k => ev2[l].key # e.key
         PROVE  ev2[k].value = value
      BY DEF Tells
    <3>. QED BY <1>2, <2>1, <2>3
  <2>. QED BY <2>2, <2>3
<1>6. ASSUME NEW key, NEW value, key # e.key
      PROVE  /\ Tells(ev, key, value) => Tells(ev2, key, value)
             /\ NoWord(ev2, key) => NoWord(ev, key)
  <2>1. NoWord(ev2, key) => NoWord(ev, key)
    BY <1>2, <1>3 DEF NoWord
  <2>2. ASSUME Tells(ev, key, value), NEW k \in 1..Len(ev2), ev2[k].key = key,
               \A l \in 1..Len(ev2) : l > k => ev2[l].key # key
        PROVE  ev2[k].value = value
    <3>1. k \in 1..Len(ev) /\ ev[k] = ev2[k]
      BY <1>2, <1>3, <1>6, <2>2
    <3>2. \A l \in 1..Len(ev) : l > k => ev[l].key # key
      BY <1>2, <1>3, <2>2
    <3>. QED BY <2>2, <3>1, <3>2 DEF Tells
  <2>. QED BY <2>1, <2>2 DEF Tells
<1>. QED BY <1>2, <1>4, <1>5, <1>6 DEF ev2

\* A change of a key that is published, or no change.
LEMMA ChangeAdded ==
  ASSUME NEW ev \in Seq(Events), NEW changed \in BOOLEAN, NEW key, NEW value,
         [key |-> key, value |-> value] \in Events
  PROVE  /\ ev \o Change(key, changed, value) \in Seq(Events)
         /\ changed => /\ Tells(ev \o Change(key, changed, value), key, value)
                       /\ ~NoWord(ev \o Change(key, changed, value), key)
         /\ ~changed => ev \o Change(key, changed, value) = ev
         /\ \A other, told : other # key =>
               /\ Tells(ev, other, told) => Tells(ev \o Change(key, changed, value), other, told)
               /\ NoWord(ev \o Change(key, changed, value), other) => NoWord(ev, other)
<1>. DEFINE e == [key |-> key, value |-> value]
<1>1. CASE changed
  <2>1. Change(key, changed, value) = <<e>>
    BY <1>1 DEF Change
  <2>2. e.key = key /\ e.value = value /\ e \in Events
    OBVIOUS
  <2>. HIDE DEF e
  <2>. QED BY <1>1, <2>1, <2>2, EventAdded
<1>2. CASE ~changed
  <2>1. Change(key, changed, value) = <<>>
    BY <1>2 DEF Change
  <2>2. ev \o Change(key, changed, value) = ev
    BY <2>1, ConcatEmptySeq
  <2>. QED BY <1>2, <2>2
<1>. QED BY <1>1, <1>2

\* A page whose other fields change follows the keys as before.
LEMMA SameReads ==
  ASSUME NEW pg, NEW ev, NEW lo, NEW se, FollowsLocal(pg, ev, lo), FollowsSettings(pg, ev, se),
         NEW pg2, pg2.localRead = pg.localRead, pg2.helperOff = pg.helperOff,
         pg2.settingsRead = pg.settingsRead, pg2.settingsLoaded = pg.settingsLoaded,
         pg2.settingsOn = pg.settingsOn
  PROVE  FollowsLocal(pg2, ev, lo) /\ FollowsSettings(pg2, ev, se)
BY DEF FollowsLocal, FollowsSettings

-----------------------------------------------------------------------------
(* The steps of one page *)

\* The worker's state is a message, and so are its parts.
LEMMA StateIsMessage ==
  ASSUME TypeOK
  PROVE  /\ StateMessage \in Messages /\ StateMessage.off = runtimeStopped
         /\ StateMessage.revision = safetyRevision /\ StateMessage.instance = safetyInstance
BY DEF TypeOK, StateMessage, Messages

\* The pages share nothing: what holds of the page that moves holds of all.
LEMMA OnePage ==
  ASSUME GateInv, UNCHANGED vars, NEW p \in Pages, NEW pg \in PageStates,
         NEW ib, NEW ask, NEW ans, NEW ev, ChannelTypes(ib, ask, ans, ev),
         page' = [page EXCEPT ![p] = pg], inbox' = [inbox EXCEPT ![p] = ib],
         asking' = [asking EXCEPT ![p] = ask], answers' = [answers EXCEPT ![p] = ans],
         events' = [events EXCEPT ![p] = ev],
         Allowed(pg), Current(pg, ib, ask, ans, StateMessage, initialRead),
         FollowsLocal(pg, ev, local), FollowsSettings(pg, ev, settings),
         Stopping => LastWordOff(pg, ib, ask, ans)
  PROVE  GateInv'
<1>1. GateTypes'
  BY DEF GateInv, GateTypes, ChannelTypes
<1>2. /\ StateMessage' = StateMessage /\ initialRead' = initialRead
      /\ local' = local /\ settings' = settings
  BY DEF vars, runtime, storage, StateMessage
<1>3. Stopping' = Stopping
  BY DEF vars, requests, writer, Stopping, ReleasedAfter, Released
<1>4. ASSUME NEW q \in Pages PROVE PageOK(q)'
  <2>1. CASE q = p
    <3>1. /\ page'[q] = pg /\ inbox'[q] = ib /\ asking'[q] = ask /\ answers'[q] = ans
          /\ events'[q] = ev
      BY <2>1 DEF GateInv, GateTypes
    <3>. QED BY <1>2, <1>3, <3>1 DEF PageOK
  <2>2. CASE q # p
    <3>1. /\ page'[q] = page[q] /\ inbox'[q] = inbox[q] /\ asking'[q] = asking[q]
          /\ answers'[q] = answers[q] /\ events'[q] = events[q]
      BY <2>2 DEF GateInv, GateTypes
    <3>2. PageOK(q)
      BY DEF GateInv
    <3>. QED BY <1>2, <1>3, <3>1, <3>2 DEF PageOK
  <2>. QED BY <2>1, <2>2
<1>. QED BY <1>1, <1>4 DEF GateInv

\* The parts of the invariant of one page.
LEMMA Parts ==
  ASSUME GateInv, NEW p \in Pages
  PROVE  /\ page[p] \in PageStates /\ inbox[p] \in Seq(Messages) /\ asking[p] \in BOOLEAN
         /\ answers[p] \in SUBSET Messages /\ events[p] \in Seq(Events)
         /\ asking[p] => answers[p] = {}
         /\ Allowed(page[p])
         /\ Current(page[p], inbox[p], asking[p], answers[p], StateMessage, initialRead)
         /\ FollowsLocal(page[p], events[p], local)
         /\ FollowsSettings(page[p], events[p], settings)
         /\ Stopping => LastWordOff(page[p], inbox[p], asking[p], answers[p])
         /\ page = [page EXCEPT ![p] = page[p]] /\ inbox = [inbox EXCEPT ![p] = inbox[p]]
         /\ asking = [asking EXCEPT ![p] = asking[p]] /\ answers = [answers EXCEPT ![p] = answers[p]]
         /\ events = [events EXCEPT ![p] = events[p]]
BY DEF GateInv, GateTypes, PageOK

\* A broadcast arrives.
LEMMA ReceiveSafetyKeeps ==
  ASSUME TypeOK, GateInv, NEW p \in Pages, ReceiveSafety(p)
  PROVE  GateInv'
<1>. DEFINE pg == page[p]
            ib == inbox[p]
            m == Head(ib)
            rest == Tail(ib)
<1>1. /\ ib # <<>> /\ inbox' = [inbox EXCEPT ![p] = rest] /\ UNCHANGED vars /\ events' = events
  BY DEF ReceiveSafety, Take, GateInv, GateTypes
<1>2. /\ pg \in PageStates /\ ib \in Seq(Messages)
      /\ Current(pg, ib, asking[p], answers[p], StateMessage, initialRead)
      /\ Stopping => LastWordOff(pg, ib, asking[p], answers[p])
      /\ StateMessage \in Messages /\ initialRead \in BOOLEAN
  BY Parts, StateIsMessage DEF TypeOK
<1>a. CASE m.instance = pg.instance /\ m.revision < pg.revision
  <2>1. UNCHANGED <<page, asking, answers>>
    BY <1>a DEF ReceiveSafety
  <2>. HIDE DEF pg, ib
  <2>2. rest # <<>> /\ Current(pg, rest, asking[p], answers[p], StateMessage, initialRead)
    BY <1>1, <1>2, <1>a, BroadcastDropped
  <2>3. rest \in Seq(Messages) /\ rest[Len(rest)] = ib[Len(ib)]
    BY <1>1, <1>2, <2>2, Rest
  <2>4. Stopping => LastWordOff(pg, rest, asking[p], answers[p])
    BY <1>1, <1>2, <2>2, <2>3 DEF LastWordOff
  <2>5. ChannelTypes(rest, asking[p], answers[p], events[p])
    BY <2>3, Parts DEF ChannelTypes
  <2>6. /\ page' = [page EXCEPT ![p] = pg] /\ asking' = [asking EXCEPT ![p] = asking[p]]
        /\ answers' = [answers EXCEPT ![p] = answers[p]] /\ events' = [events EXCEPT ![p] = events[p]]
        /\ Allowed(pg) /\ FollowsLocal(pg, events[p], local) /\ FollowsSettings(pg, events[p], settings)
    BY <1>1, <2>1, Parts DEF pg
  <2>. HIDE DEF rest
  <2>. QED BY <1>1, <1>2, <2>2, <2>4, <2>5, <2>6, OnePage
<1>b. CASE ~(m.instance = pg.instance /\ m.revision < pg.revision)
  <2>. DEFINE pg2 == Heed(pg, m)
  <2>1. /\ page' = [page EXCEPT ![p] = pg2] /\ asking' = [asking EXCEPT ![p] = FALSE]
        /\ answers' = [answers EXCEPT ![p] = {}]
    BY <1>b DEF ReceiveSafety, Update
  <2>. HIDE DEF pg, ib
  <2>2. Current(pg2, rest, FALSE, {}, StateMessage, initialRead)
    BY <1>1, <1>2, BroadcastHeeded
  <2>3. /\ rest \in Seq(Messages) /\ m \in Messages
        /\ rest # <<>> => rest[Len(rest)] = ib[Len(ib)]
        /\ rest = <<>> => ib[Len(ib)] = m
    BY <1>1, <1>2, Rest
  <2>4. /\ pg2 \in PageStates /\ Allowed(pg2) /\ pg2.port = pg.port /\ pg2.runtimeOff = m.off
        /\ pg2.helperOff = pg.helperOff /\ pg2.localRead = pg.localRead
        /\ pg2.settingsLoaded = pg.settingsLoaded /\ pg2.settingsOn = pg.settingsOn
        /\ pg2.settingsRead = pg.settingsRead
    BY <1>2, <2>3, Heeded
  <2>. HIDE DEF pg2, m, rest
  <2>5. FollowsLocal(pg2, events[p], local) /\ FollowsSettings(pg2, events[p], settings)
    BY <2>4, Parts, SameReads DEF pg
  <2>6. Stopping => LastWordOff(pg2, rest, FALSE, {})
    BY <1>1, <1>2, <2>3, <2>4 DEF LastWordOff
  <2>7. ChannelTypes(rest, FALSE, {}, events[p])
    BY <2>3, Parts DEF ChannelTypes
  <2>. QED BY <1>1, <2>1, <2>2, <2>4, <2>5, <2>6, <2>7, Parts, OnePage
<1>. QED BY <1>a, <1>b

\* The worker answers.
LEMMA AnswerStateKeeps ==
  ASSUME TypeOK, GateInv, Forced, NEW p \in Pages, AnswerState(p)
  PROVE  GateInv'
<1>. DEFINE pg == page[p]
            ib == inbox[p]
            st == StateMessage
<1>1. /\ asking' = [asking EXCEPT ![p] = FALSE] /\ answers' = [answers EXCEPT ![p] = {st}]
      /\ UNCHANGED vars /\ initialRead = TRUE
      /\ page' = [page EXCEPT ![p] = pg] /\ inbox' = [inbox EXCEPT ![p] = ib]
      /\ events' = [events EXCEPT ![p] = events[p]]
  BY Parts DEF AnswerState, TypeOK
<1>2. /\ pg \in PageStates /\ ib \in Seq(Messages) /\ st \in Messages /\ Allowed(pg)
      /\ Current(pg, ib, asking[p], answers[p], st, TRUE)
      /\ FollowsLocal(pg, events[p], local) /\ FollowsSettings(pg, events[p], settings)
      /\ Stopping => LastWordOff(pg, ib, asking[p], answers[p])
      /\ Stopping => st.off
  <2>1. Stopping => runtimeStopped
    BY DEF Stopping, Forced
  <2>. QED BY <1>1, <2>1, Parts, StateIsMessage
<1>3. ChannelTypes(ib, FALSE, {st}, events[p])
  BY <1>2, Parts DEF ChannelTypes
<1>. HIDE DEF pg, ib, st
<1>4. Current(pg, ib, FALSE, {st}, st, TRUE)
  BY <1>2, AnswerServed
<1>5. Stopping => LastWordOff(pg, ib, FALSE, {st})
  BY <1>2 DEF LastWordOff
<1>. QED BY <1>1, <1>2, <1>3, <1>4, <1>5, OnePage DEF st

\* The answer arrives.
LEMMA ReceiveStateKeeps ==
  ASSUME TypeOK, GateInv, NEW p \in Pages, ReceiveState(p)
  PROVE  GateInv'
<1>. DEFINE pg == page[p]
            ib == inbox[p]
            st == StateMessage
<1>1. PICK m \in answers[p] : page' = [page EXCEPT ![p] = Heed(pg, m)]
  BY DEF ReceiveState, Update
<1>. DEFINE pg2 == Heed(pg, m)
<1>2. /\ answers' = [answers EXCEPT ![p] = {}] /\ UNCHANGED vars
      /\ inbox' = [inbox EXCEPT ![p] = ib] /\ asking' = [asking EXCEPT ![p] = FALSE]
      /\ events' = [events EXCEPT ![p] = events[p]] /\ asking[p] = FALSE
  BY Parts DEF ReceiveState
<1>3. /\ pg \in PageStates /\ ib \in Seq(Messages) /\ st \in Messages /\ m \in Messages
      /\ answers[p] \in SUBSET Messages /\ initialRead \in BOOLEAN
      /\ Current(pg, ib, FALSE, answers[p], st, initialRead)
      /\ FollowsLocal(pg, events[p], local) /\ FollowsSettings(pg, events[p], settings)
      /\ Stopping => LastWordOff(pg, ib, FALSE, answers[p])
  BY <1>2, Parts, StateIsMessage DEF TypeOK
<1>4. ChannelTypes(ib, FALSE, {}, events[p])
  BY <1>3, Parts DEF ChannelTypes
<1>. HIDE DEF pg, ib, st
<1>5. Current(pg2, ib, FALSE, {}, st, initialRead)
  BY <1>3, AnswerTaken
<1>6. /\ pg2 \in PageStates /\ Allowed(pg2) /\ pg2.port = pg.port /\ pg2.runtimeOff = m.off
      /\ pg2.helperOff = pg.helperOff /\ pg2.localRead = pg.localRead
      /\ pg2.settingsLoaded = pg.settingsLoaded /\ pg2.settingsOn = pg.settingsOn
      /\ pg2.settingsRead = pg.settingsRead
  BY <1>3, Heeded
<1>7. page' = [page EXCEPT ![p] = pg2]
  BY <1>1
<1>. HIDE DEF pg2
<1>8. FollowsLocal(pg2, events[p], local) /\ FollowsSettings(pg2, events[p], settings)
  BY <1>3, <1>6, SameReads
<1>9. Stopping => LastWordOff(pg2, ib, FALSE, {})
  BY <1>3, <1>6 DEF LastWordOff
<1>. QED BY <1>2, <1>4, <1>5, <1>6, <1>7, <1>8, <1>9, OnePage DEF st

\* The page reconnects and asks again.
LEMMA ReconnectKeeps ==
  ASSUME TypeOK, GateInv, NEW p \in Pages, Reconnect(p)
  PROVE  GateInv'
<1>. DEFINE pg == page[p]
            ib == inbox[p]
            pg2 == [pg EXCEPT !.port = "open"]
<1>1. /\ asking' = [asking EXCEPT ![p] = TRUE] /\ answers' = [answers EXCEPT ![p] = {}]
      /\ page' = [page EXCEPT ![p] = pg2] /\ inbox' = [inbox EXCEPT ![p] = ib]
      /\ events' = [events EXCEPT ![p] = events[p]] /\ UNCHANGED vars
  BY Parts DEF Reconnect, Update
<1>2. /\ pg \in PageStates /\ ib \in Seq(Messages) /\ Allowed(pg)
      /\ Current(pg, ib, asking[p], answers[p], StateMessage, initialRead)
      /\ FollowsLocal(pg, events[p], local) /\ FollowsSettings(pg, events[p], settings)
      /\ Stopping => LastWordOff(pg, ib, asking[p], answers[p])
  BY Parts
<1>3. ChannelTypes(ib, TRUE, {}, events[p])
  BY <1>2, Parts DEF ChannelTypes
<1>. HIDE DEF pg, ib
<1>4. /\ pg2 \in PageStates /\ pg2.enabled = pg.enabled /\ pg2.runtimeOff = pg.runtimeOff
      /\ pg2.instance = pg.instance /\ pg2.revision = pg.revision
      /\ pg2.helperOff = pg.helperOff /\ pg2.localRead = pg.localRead
      /\ pg2.settingsLoaded = pg.settingsLoaded /\ pg2.settingsOn = pg.settingsOn
      /\ pg2.settingsRead = pg.settingsRead
  BY <1>2 DEF PageStates
<1>. HIDE DEF pg2
<1>5. Allowed(pg2) /\ Current(pg2, ib, TRUE, {}, StateMessage, initialRead)
  BY <1>2, <1>4, AskedAnew DEF Allowed
<1>6. FollowsLocal(pg2, events[p], local) /\ FollowsSettings(pg2, events[p], settings)
  BY <1>2, <1>4, SameReads
<1>7. Stopping => LastWordOff(pg2, ib, TRUE, {})
  BY <1>2 DEF LastWordOff
<1>. QED BY <1>1, <1>3, <1>4, <1>5, <1>6, <1>7, OnePage

\* The frame loads a new document.
LEMMA LoadKeeps ==
  ASSUME TypeOK, GateInv, NEW p \in Pages, Load(p)
  PROVE  GateInv'
<1>1. /\ page' = [page EXCEPT ![p] = FreshPage] /\ inbox' = [inbox EXCEPT ![p] = <<>>]
      /\ asking' = [asking EXCEPT ![p] = TRUE] /\ answers' = [answers EXCEPT ![p] = {}]
      /\ events' = [events EXCEPT ![p] = <<>>] /\ UNCHANGED vars
  BY DEF Load, Update
<1>2. FreshPage \in PageStates /\ Allowed(FreshPage)
  BY BoundsAssumption DEF FreshPage, PageStates, Reads, Parsed, Allowed, BoundsAssumption
<1>3. ChannelTypes(<<>>, TRUE, {}, <<>>)
  BY DEF ChannelTypes
<1>4. Current(FreshPage, <<>>, TRUE, {}, StateMessage, initialRead)
  BY FreshIsCurrent, StateIsMessage
<1>5. FollowsLocal(FreshPage, <<>>, local) /\ FollowsSettings(FreshPage, <<>>, settings)
  <2>1. Len(<<>>) = 0
    OBVIOUS
  <2>2. \A k \in 1..Len(<<>>) : FALSE
    BY <2>1
  <2>3. \A key, value : Tells(<<>>, key, value)
    BY <2>2 DEF Tells
  <2>. QED BY <2>3 DEF FollowsLocal, FollowsSettings, FreshPage, Parsed
<1>6. LastWordOff(FreshPage, <<>>, TRUE, {})
  BY DEF LastWordOff
<1>. QED BY <1>1, <1>2, <1>3, <1>4, <1>5, <1>6, OnePage

\* A step of the two keys leaves the runtime stop alone.
LEMMA ReadStep ==
  ASSUME TypeOK, GateInv, UNCHANGED vars, UNCHANGED <<inbox, asking, answers>>, NEW p \in Pages,
         NEW pg \in PageStates, NEW ev \in Seq(Events),
         page' = [page EXCEPT ![p] = pg], events' = [events EXCEPT ![p] = ev],
         pg.port = page[p].port, pg.runtimeOff = page[p].runtimeOff,
         pg.instance = page[p].instance, pg.revision = page[p].revision,
         Allowed(pg), FollowsLocal(pg, ev, local), FollowsSettings(pg, ev, settings)
  PROVE  GateInv'
<1>1. /\ inbox' = [inbox EXCEPT ![p] = inbox[p]] /\ asking' = [asking EXCEPT ![p] = asking[p]]
      /\ answers' = [answers EXCEPT ![p] = answers[p]]
      /\ ChannelTypes(inbox[p], asking[p], answers[p], ev)
      /\ Current(page[p], inbox[p], asking[p], answers[p], StateMessage, initialRead)
      /\ Stopping => LastWordOff(page[p], inbox[p], asking[p], answers[p])
  BY Parts DEF ChannelTypes
<1>2. Current(pg, inbox[p], asking[p], answers[p], StateMessage, initialRead)
  BY <1>1, SameRuntime
<1>3. Stopping => LastWordOff(pg, inbox[p], asking[p], answers[p])
  BY <1>1 DEF LastWordOff
<1>. QED BY <1>1, <1>2, <1>3, OnePage

\* So does one that ends in syncEnabled.
LEMMA SyncedStep ==
  ASSUME TypeOK, GateInv, UNCHANGED vars, UNCHANGED <<inbox, asking, answers>>, NEW p \in Pages,
         NEW pg \in PageStates, NEW ev \in Seq(Events),
         page' = [page EXCEPT ![p] = SyncEnabled(pg)], events' = [events EXCEPT ![p] = ev],
         pg.port = page[p].port, pg.runtimeOff = page[p].runtimeOff,
         pg.instance = page[p].instance, pg.revision = page[p].revision,
         FollowsLocal(pg, ev, local), FollowsSettings(pg, ev, settings)
  PROVE  GateInv'
<1>. DEFINE t == SyncEnabled(pg)
<1>1. /\ t \in PageStates /\ Allowed(t) /\ t.port = pg.port /\ t.runtimeOff = pg.runtimeOff
      /\ t.instance = pg.instance /\ t.revision = pg.revision
      /\ t.helperOff = pg.helperOff /\ t.localRead = pg.localRead
      /\ t.settingsLoaded = pg.settingsLoaded /\ t.settingsOn = pg.settingsOn
      /\ t.settingsRead = pg.settingsRead
  BY Synced
<1>2. page' = [page EXCEPT ![p] = t]
  OBVIOUS
<1>. HIDE DEF t
<1>3. FollowsLocal(t, ev, local) /\ FollowsSettings(t, ev, settings)
  BY <1>1, SameReads
<1>. QED BY <1>1, <1>2, <1>3, ReadStep

\* The local key is read.
LEMMA LocalKeeps ==
  ASSUME TypeOK, GateInv, NEW p \in Pages, ServeLocalRead(p) \/ LocalReadEnds(p) \/ LocalReadFails(p)
  PROVE  GateInv'
<1>. DEFINE pg == page[p]
            ev == events[p]
<1>1. /\ UNCHANGED vars /\ UNCHANGED <<inbox, asking, answers>>
      /\ events' = [events EXCEPT ![p] = ev]
  BY Parts DEF ServeLocalRead, LocalReadEnds, LocalReadFails, channels
<1>2. /\ pg \in PageStates /\ ev \in Seq(Events) /\ Allowed(pg)
      /\ FollowsLocal(pg, ev, local) /\ FollowsSettings(pg, ev, settings)
  BY Parts
<1>3. CASE ServeLocalRead(p)
  <2>. DEFINE t == [pg EXCEPT !.localRead = IF IsHelperSafetyOff(local) THEN "off" ELSE "on"]
  <2>1. page' = [page EXCEPT ![p] = t] /\ pg.localRead = "asked"
    BY <1>3 DEF ServeLocalRead, Update
  <2>. HIDE DEF pg
  <2>2. /\ t \in PageStates /\ t.enabled = pg.enabled /\ t.port = pg.port
        /\ t.runtimeOff = pg.runtimeOff /\ t.instance = pg.instance /\ t.revision = pg.revision
        /\ t.helperOff = pg.helperOff /\ t.settingsLoaded = pg.settingsLoaded
        /\ t.settingsOn = pg.settingsOn /\ t.settingsRead = pg.settingsRead
        /\ t.localRead = IF local = "stopped" THEN "off" ELSE "on"
    BY <1>2 DEF PageStates, IsHelperSafetyOff
  <2>. HIDE DEF t
  <2>3. Allowed(t) /\ FollowsLocal(t, ev, local) /\ FollowsSettings(t, ev, settings)
    BY <1>2, <2>2 DEF Allowed, FollowsLocal, FollowsSettings
  <2>. QED BY <1>1, <1>2, <2>1, <2>2, <2>3, ReadStep DEF pg
<1>4. CASE LocalReadEnds(p)
  <2>. DEFINE t == [pg EXCEPT !.localRead = "done", !.helperOff = pg.localRead = "off"]
  <2>1. page' = [page EXCEPT ![p] = SyncEnabled(t)] /\ pg.localRead \in {"off", "on"}
    BY <1>4 DEF LocalReadEnds, Update
  <2>. HIDE DEF pg
  <2>2. /\ t \in PageStates /\ t.port = pg.port
        /\ t.runtimeOff = pg.runtimeOff /\ t.instance = pg.instance /\ t.revision = pg.revision
        /\ t.helperOff = (pg.localRead = "off") /\ t.settingsLoaded = pg.settingsLoaded
        /\ t.settingsOn = pg.settingsOn /\ t.settingsRead = pg.settingsRead
        /\ t.localRead = "done"
    BY <1>2 DEF PageStates, Reads
  <2>. HIDE DEF t
  <2>3. FollowsLocal(t, ev, local) /\ FollowsSettings(t, ev, settings)
    BY <1>2, <2>1, <2>2 DEF FollowsLocal, FollowsSettings
  <2>. QED BY <1>1, <1>2, <2>1, <2>2, <2>3, SyncedStep DEF pg
<1>5. CASE LocalReadFails(p)
  <2>. DEFINE t == [pg EXCEPT !.localRead = "done", !.helperOff = TRUE]
  <2>1. page' = [page EXCEPT ![p] = SyncEnabled(t)]
    BY <1>5 DEF LocalReadFails, Update
  <2>. HIDE DEF pg
  <2>2. /\ t \in PageStates /\ t.port = pg.port
        /\ t.runtimeOff = pg.runtimeOff /\ t.instance = pg.instance /\ t.revision = pg.revision
        /\ t.helperOff = TRUE /\ t.settingsLoaded = pg.settingsLoaded
        /\ t.settingsOn = pg.settingsOn /\ t.settingsRead = pg.settingsRead
        /\ t.localRead = "done"
    BY <1>2 DEF PageStates, Reads
  <2>. HIDE DEF t
  <2>3. FollowsLocal(t, ev, local) /\ FollowsSettings(t, ev, settings)
    BY <1>2, <2>2 DEF FollowsLocal, FollowsSettings
  <2>. QED BY <1>1, <1>2, <2>1, <2>2, <2>3, SyncedStep DEF pg
<1>. QED BY <1>3, <1>4, <1>5

\* The settings are read.
LEMMA SettingsKeeps ==
  ASSUME TypeOK, GateInv, NEW p \in Pages,
         ServeSettingsRead(p) \/ SettingsReadEnds(p) \/ SettingsReadFails(p)
  PROVE  GateInv'
<1>. DEFINE pg == page[p]
            ev == events[p]
<1>1. /\ UNCHANGED vars /\ UNCHANGED <<inbox, asking, answers>>
      /\ events' = [events EXCEPT ![p] = ev]
  BY Parts DEF ServeSettingsRead, SettingsReadEnds, SettingsReadFails, channels
<1>2. /\ pg \in PageStates /\ ev \in Seq(Events) /\ Allowed(pg)
      /\ FollowsLocal(pg, ev, local) /\ FollowsSettings(pg, ev, settings)
  BY Parts
<1>3. CASE ServeSettingsRead(p)
  <2>. DEFINE t == [pg EXCEPT !.settingsRead = Parse(settings)]
  <2>1. page' = [page EXCEPT ![p] = t] /\ pg.settingsRead = "asked"
    BY <1>3 DEF ServeSettingsRead, Update
  <2>. HIDE DEF pg
  <2>2. Parse(settings) \in Parsed
    BY DEF Parse, Parsed
  <2>3. /\ t \in PageStates /\ t.enabled = pg.enabled /\ t.port = pg.port
        /\ t.runtimeOff = pg.runtimeOff /\ t.instance = pg.instance /\ t.revision = pg.revision
        /\ t.helperOff = pg.helperOff /\ t.localRead = pg.localRead
        /\ t.settingsLoaded = pg.settingsLoaded /\ t.settingsOn = pg.settingsOn
        /\ t.settingsRead = Parse(settings)
    BY <1>2, <2>2 DEF PageStates
  <2>4. t.settingsRead # "done"
    BY <2>2, <2>3 DEF Parsed
  <2>. HIDE DEF t
  <2>5. Allowed(t) /\ FollowsLocal(t, ev, local) /\ FollowsSettings(t, ev, settings)
    BY <1>2, <2>3, <2>4 DEF Allowed, FollowsLocal, FollowsSettings
  <2>. QED BY <1>1, <1>2, <2>1, <2>3, <2>5, ReadStep DEF pg
<1>4. CASE SettingsReadEnds(p)
  <2>. DEFINE t == Adopt(pg, pg.settingsRead)
  <2>1. page' = [page EXCEPT ![p] = SyncEnabled(t)] /\ pg.settingsRead \in Parsed
    BY <1>4 DEF SettingsReadEnds, Update
  <2>. HIDE DEF pg
  <2>2. /\ t \in PageStates /\ t.port = pg.port
        /\ t.runtimeOff = pg.runtimeOff /\ t.instance = pg.instance /\ t.revision = pg.revision
        /\ t.helperOff = pg.helperOff /\ t.localRead = pg.localRead
        /\ t.settingsOn = IF pg.settingsRead = "fail" THEN pg.settingsOn ELSE pg.settingsRead = "on"
        /\ t.settingsRead = "done"
    BY <1>2 DEF PageStates, Reads, Adopt
  <2>. HIDE DEF t
  <2>3. Parse("disabled") = "off"
    BY DEF Parse
  <2>4. FollowsLocal(t, ev, local) /\ FollowsSettings(t, ev, settings)
    BY <1>2, <2>1, <2>2, <2>3 DEF FollowsLocal, FollowsSettings, Parsed
  <2>. QED BY <1>1, <1>2, <2>1, <2>2, <2>4, SyncedStep DEF pg
<1>5. CASE SettingsReadFails(p)
  <2>. DEFINE t == [pg EXCEPT !.settingsRead = "done", !.settingsLoaded = FALSE]
  <2>1. page' = [page EXCEPT ![p] = SyncEnabled(t)]
    BY <1>5 DEF SettingsReadFails, Update
  <2>. HIDE DEF pg
  <2>2. /\ t \in PageStates /\ t.port = pg.port
        /\ t.runtimeOff = pg.runtimeOff /\ t.instance = pg.instance /\ t.revision = pg.revision
        /\ t.helperOff = pg.helperOff /\ t.localRead = pg.localRead
        /\ t.settingsLoaded = FALSE /\ t.settingsRead = "done"
    BY <1>2 DEF PageStates, Reads
  <2>. HIDE DEF t
  <2>3. FollowsLocal(t, ev, local) /\ FollowsSettings(t, ev, settings)
    BY <1>2, <2>2 DEF FollowsLocal, FollowsSettings, Parsed
  <2>. QED BY <1>1, <1>2, <2>1, <2>2, <2>3, SyncedStep DEF pg
<1>. QED BY <1>3, <1>4, <1>5

\* A change of a key arrives.
LEMMA StorageChangedKeeps ==
  ASSUME TypeOK, GateInv, NEW p \in Pages, StorageChanged(p)
  PROVE  GateInv'
<1>. DEFINE pg == page[p]
            ev == events[p]
            e == Head(ev)
            rest == Tail(ev)
<1>1. /\ UNCHANGED vars /\ UNCHANGED <<inbox, asking, answers>> /\ ev # <<>>
      /\ events' = [events EXCEPT ![p] = rest]
  BY DEF StorageChanged, Take, GateInv, GateTypes
<1>2. /\ pg \in PageStates /\ ev \in Seq(Events) /\ Allowed(pg)
      /\ FollowsLocal(pg, ev, local) /\ FollowsSettings(pg, ev, settings)
  BY Parts
<1>3. /\ e.key = "local" => page' = [page EXCEPT ![p] =
              SyncEnabled([pg EXCEPT !.localRead = "done", !.helperOff = e.value = "off"])]
      /\ e.key # "local" /\ e.value # "fail" =>
              page' = [page EXCEPT ![p] = SyncEnabled(Adopt(pg, e.value))]
      /\ e.key # "local" /\ e.value = "fail" => page' = [page EXCEPT ![p] = Adopt(pg, e.value)]
  <2>. DEFINE onLocal == SyncEnabled([pg EXCEPT !.localRead = "done", !.helperOff = e.value = "off"])
              onSettings == SyncEnabled(Adopt(pg, e.value))
              onOther == Adopt(pg, e.value)
              isLocal == e.key = "local"
              parses == e.key = "settings" /\ e.value # "fail"
  <2>2. page' = [page EXCEPT ![p] = CASE isLocal -> onLocal [] parses -> onSettings [] OTHER -> onOther]
    BY Zenon DEF StorageChanged, Update
  <2>. HIDE DEF onLocal, onSettings, onOther
  <2>3. isLocal => page' = [page EXCEPT ![p] = onLocal]
    BY <2>2
  <2>4. ~isLocal /\ parses => page' = [page EXCEPT ![p] = onSettings]
    BY <2>2
  <2>5. ~isLocal /\ ~parses => page' = [page EXCEPT ![p] = onOther]
    BY <2>2
  <2>6. e.key \in {"local", "settings"}
    BY <1>1, <1>2, Rest DEF Events
  <2>. QED BY <2>3, <2>4, <2>5, <2>6 DEF onLocal, onSettings, onOther
<1>. HIDE DEF pg, ev
<1>4. /\ e \in Events /\ rest \in Seq(Events)
      /\ Tells(rest, "local", LocalWord(local)) /\ Tells(rest, "settings", Parse(settings))
      /\ NoWord(rest, "local") /\ e.key = "local" => e.value = LocalWord(local)
      /\ NoWord(rest, "local") /\ e.key # "local" => NoWord(ev, "local")
      /\ NoWord(rest, "settings") /\ e.key = "settings" => e.value = Parse(settings)
      /\ NoWord(rest, "settings") /\ e.key # "settings" => NoWord(ev, "settings")
  <2>1. Tells(ev, "local", LocalWord(local)) /\ Tells(ev, "settings", Parse(settings))
    BY <1>2 DEF FollowsLocal, FollowsSettings
  <2>2. /\ e \in Events /\ rest \in Seq(Events) /\ Tells(rest, "local", LocalWord(local))
        /\ NoWord(rest, "local") /\ e.key = "local" => e.value = LocalWord(local)
        /\ NoWord(rest, "local") /\ e.key # "local" => NoWord(ev, "local")
    BY <1>1, <1>2, <2>1, EventTaken
  <2>3. /\ Tells(rest, "settings", Parse(settings))
        /\ NoWord(rest, "settings") /\ e.key = "settings" => e.value = Parse(settings)
        /\ NoWord(rest, "settings") /\ e.key # "settings" => NoWord(ev, "settings")
    BY <1>1, <1>2, <2>1, EventTaken
  <2>. QED BY <2>2, <2>3
<1>. HIDE DEF e, rest
<1>5. CASE e.key = "local"
  <2>. DEFINE t == [pg EXCEPT !.localRead = "done", !.helperOff = e.value = "off"]
  <2>1. page' = [page EXCEPT ![p] = SyncEnabled(t)]
    BY <1>3, <1>5
  <2>2. /\ t \in PageStates /\ t.port = pg.port
        /\ t.runtimeOff = pg.runtimeOff /\ t.instance = pg.instance /\ t.revision = pg.revision
        /\ t.helperOff = (e.value = "off") /\ t.settingsLoaded = pg.settingsLoaded
        /\ t.settingsOn = pg.settingsOn /\ t.settingsRead = pg.settingsRead
        /\ t.localRead = "done"
    BY <1>2 DEF PageStates, Reads
  <2>. HIDE DEF t
  <2>3. LocalWord("stopped") = "off"
    BY DEF LocalWord
  <2>4. FollowsLocal(t, rest, local)
    BY <1>4, <1>5, <2>2, <2>3 DEF FollowsLocal
  <2>5. FollowsSettings(t, rest, settings)
    BY <1>2, <1>4, <1>5, <2>2 DEF FollowsSettings
  <2>. QED BY <1>1, <1>4, <2>1, <2>2, <2>4, <2>5, SyncedStep DEF pg
<1>6. CASE e.key # "local"
  <2>. DEFINE t == Adopt(pg, e.value)
  <2>1. /\ e.value # "fail" => page' = [page EXCEPT ![p] = SyncEnabled(t)]
        /\ e.value = "fail" => page' = [page EXCEPT ![p] = t]
    BY <1>3, <1>6
  <2>2. e.key = "settings" /\ e.value \in Parsed
    BY <1>4, <1>6 DEF Events
  <2>3. /\ t \in PageStates /\ t.enabled = pg.enabled /\ t.port = pg.port
        /\ t.runtimeOff = pg.runtimeOff /\ t.instance = pg.instance /\ t.revision = pg.revision
        /\ t.helperOff = pg.helperOff /\ t.localRead = pg.localRead
        /\ t.settingsLoaded = TRUE
        /\ t.settingsOn = IF e.value = "fail" THEN pg.settingsOn ELSE e.value = "on"
        /\ t.settingsRead = "done"
    BY <1>2 DEF PageStates, Reads, Adopt
  <2>. HIDE DEF t
  <2>4. Parse("disabled") = "off"
    BY DEF Parse
  <2>5. FollowsLocal(t, rest, local)
    BY <1>2, <1>4, <1>6, <2>3 DEF FollowsLocal
  <2>6. FollowsSettings(t, rest, settings)
    BY <1>4, <2>2, <2>3, <2>4 DEF FollowsSettings, Parsed
  <2>7. e.value = "fail" => Allowed(t)
    BY <1>2, <2>3 DEF Allowed
  <2>8. CASE e.value = "fail"
    BY <1>1, <1>4, <2>1, <2>3, <2>5, <2>6, <2>7, <2>8, ReadStep DEF pg
  <2>9. CASE e.value # "fail"
    BY <1>1, <1>4, <2>1, <2>3, <2>5, <2>6, <2>9, SyncedStep DEF pg
  <2>. QED BY <2>8, <2>9
<1>. QED BY <1>5, <1>6

-----------------------------------------------------------------------------
(* The worker's steps *)

\* What a step of the worker does to the state it tells the pages of.
LEMMA WorkerFacts ==
  ASSUME TypeOK, WorkerNext, safetyInstance' = safetyInstance
  PROVE  /\ initialRead => initialRead'
         /\ \/ safetyRevision' = safetyRevision + 1
            \/ /\ safetyRevision' = safetyRevision
               /\ runtimeStopped' = runtimeStopped \/ (safetyRevision = 0 /\ ~initialRead)
<1>1. CASE InitialSafety
  BY <1>1 DEF InitialSafety, TypeOK
<1>2. CASE InitialSafetyFails
  BY <1>2 DEF InitialSafetyFails
<1>3. CASE AskOff
  BY <1>3 DEF AskOff, NotifySafety
<1>4. CASE SafetyApplied
  BY <1>4 DEF SafetyApplied, NotifySafety, runtime
<1>5. CASE AskOn \/ StoreSafety \/ SafetySuperseded \/ SafetyRejected
  BY <1>5 DEF AskOn, StoreSafety, SafetySuperseded, SafetyRejected, runtime
<1>6. CASE \/ ReadSettingsForOn \/ WriteDefaultSettings \/ PreserveOriginal \/ WriteEnabled
           \/ RequestFails \/ CleanupReads \/ CleanupWrites
  <2>1. UNCHANGED runtime
    BY <1>6 DEF ReadSettingsForOn, WriteDefaultSettings, PreserveOriginal, WriteEnabled,
       RequestFails, CleanupReads, CleanupWrites, safety
  <2>. QED BY <2>1 DEF runtime
<1>7. CASE WorkerRestart
  BY <1>7 DEF WorkerRestart, TypeOK
<1>. QED BY <1>1, <1>2, <1>3, <1>4, <1>5, <1>6, <1>7 DEF WorkerNext

\* A stop that stands has stood before, unless it was asked for in this step and
\* every page is told.
LEMMA StopStood ==
  ASSUME IInv, [Next]_vars, NEW i \in Requests, asked'[i] = "off", reply'[i] \in {"waiting", "ok"}
  PROVE  AskOff \/ (asked[i] = "off" /\ reply[i] \in {"waiting", "ok"})
<1>1. CASE AskOn
  BY <1>1 DEF AskOn, Ask, IInv, TypeOK
<1>2. CASE SafetyApplied
  <2>1. asked' = asked /\ writing # NoWrite
    BY <1>2 DEF SafetyApplied, IInv, Bookkeeping, WritingOK
  <2>2. reply[i] \in {"waiting", "ok"} \/ i = writing.intent
    BY <1>2 DEF SafetyApplied, Answers
  <2>3. i = writing.intent => reply[i] = "waiting"
    BY <2>1 DEF IInv, Bookkeeping, PendingOK, Pending
  <2>. QED BY <2>1, <2>2, <2>3
<1>3. CASE SafetySuperseded \/ SafetyRejected
  BY <1>3 DEF SafetySuperseded, SafetyRejected, Answers
<1>4. CASE ReadSettingsForOn \/ WriteDefaultSettings \/ PreserveOriginal \/ WriteEnabled \/ RequestFails
  BY <1>4 DEF ReadSettingsForOn, WriteDefaultSettings, PreserveOriginal, WriteEnabled,
     RequestFails, safety, WriteIfCurrent, Advance, Finish, IInv, TypeOK
<1>5. CASE WorkerRestart
  BY <1>5 DEF WorkerRestart
<1>6. CASE \/ InitialSafety \/ InitialSafetyFails \/ StoreSafety \/ CleanupReads \/ CleanupWrites
           \/ RemoteEdit \/ UNCHANGED vars
  BY <1>6 DEF InitialSafety, InitialSafetyFails, StoreSafety, CleanupReads, Advance, CleanupWrites,
     RemoteEdit, vars, writer, requests, safety
<1>. QED BY <1>1, <1>2, <1>3, <1>4, <1>5, <1>6 DEF Next, WorkerNext

\* So nothing that is not announced makes a stop stand.
LEMMA StoppingIsOld ==
  ASSUME IInv, [Next]_vars, Stopping', ~AskOff
  PROVE  Stopping
<1>1. PICK i \in Requests : asked'[i] = "off" /\ reply'[i] \in {"waiting", "ok"} /\ ~ReleasedAfter(i)'
  BY DEF Stopping
<1>2. ReleasedAfter(i) => ReleasedAfter(i)'
  BY ReleasedIsStable DEF IInv, ReleasedAfter
<1>. QED BY <1>1, <1>2, StopStood DEF Stopping

\* What a step stores, it publishes.
LEMMA PublishKeeps ==
  ASSUME GateInv, TypeOK, TypeOK', PublishChanges, NEW p \in Pages, NEW pg,
         pg.localRead = page[p].localRead, pg.helperOff = page[p].helperOff,
         pg.settingsRead = page[p].settingsRead, pg.settingsLoaded = page[p].settingsLoaded,
         pg.settingsOn = page[p].settingsOn
  PROVE  /\ events'[p] \in Seq(Events)
         /\ FollowsLocal(pg, events'[p], local') /\ FollowsSettings(pg, events'[p], settings')
<1>. DEFINE old == page[p]
            ev == events[p]
            ev2 == events'[p]
            lo == local
            lo2 == local'
            se == settings
            se2 == settings'
<1>1. ev2 = ev \o Change("local", lo2 # lo, LocalWord(lo2)) \o Change("settings", se2 # se, Parse(se2))
  BY DEF PublishChanges, LocalWord
<1>2. /\ ev \in Seq(Events) /\ FollowsLocal(old, ev, lo) /\ FollowsSettings(old, ev, se)
      /\ pg.localRead = old.localRead /\ pg.helperOff = old.helperOff
      /\ pg.settingsRead = old.settingsRead /\ pg.settingsLoaded = old.settingsLoaded
      /\ pg.settingsOn = old.settingsOn
  BY Parts
<1>3. lo \in LocalValues /\ lo2 \in LocalValues /\ se \in SettingsValues /\ se2 \in SettingsValues
  BY DEF TypeOK
<1>. HIDE DEF old, ev, ev2, lo, lo2, se, se2
<1>. DEFINE ev1 == ev \o Change("local", lo2 # lo, LocalWord(lo2))
<1>4. /\ [key |-> "local", value |-> LocalWord(lo2)] \in Events
      /\ [key |-> "settings", value |-> Parse(se2)] \in Events
  BY DEF Events, LocalWord, Parse, Parsed
<1>5. /\ Tells(ev, "local", LocalWord(lo)) /\ Tells(ev, "settings", Parse(se))
  BY <1>2 DEF FollowsLocal, FollowsSettings
<1>6. /\ ev1 \in Seq(Events)
      /\ Tells(ev1, "local", LocalWord(lo2)) /\ Tells(ev1, "settings", Parse(se))
      /\ NoWord(ev1, "local") => NoWord(ev, "local") /\ lo2 = lo
      /\ NoWord(ev1, "settings") => NoWord(ev, "settings")
  BY <1>2, <1>4, <1>5, ChangeAdded
<1>7. ev2 = ev1 \o Change("settings", se2 # se, Parse(se2))
  BY <1>1
<1>. HIDE DEF ev1
<1>8. /\ ev2 \in Seq(Events)
      /\ Tells(ev2, "local", LocalWord(lo2)) /\ Tells(ev2, "settings", Parse(se2))
      /\ NoWord(ev2, "local") => NoWord(ev1, "local")
      /\ NoWord(ev2, "settings") => NoWord(ev1, "settings") /\ se2 = se
  <2>. DEFINE c == Change("settings", se2 # se, Parse(se2))
  <2>1. /\ ev1 \o c \in Seq(Events)
        /\ se2 # se => /\ Tells(ev1 \o c, "settings", Parse(se2))
                      /\ ~NoWord(ev1 \o c, "settings")
        /\ ~(se2 # se) => ev1 \o c = ev1
        /\ \A other, told : other # "settings" =>
              /\ Tells(ev1, other, told) => Tells(ev1 \o c, other, told)
              /\ NoWord(ev1 \o c, other) => NoWord(ev1, other)
    BY <1>4, <1>6, ChangeAdded
  <2>2. ev2 = ev1 \o c
    BY <1>7
  <2>. HIDE DEF c
  <2>. QED BY <1>6, <2>1, <2>2
<1>9. FollowsLocal(pg, ev2, lo2)
  BY <1>2, <1>6, <1>8 DEF FollowsLocal
<1>10. FollowsSettings(pg, ev2, se2)
  BY <1>2, <1>6, <1>8 DEF FollowsSettings
<1>. QED BY <1>8, <1>9, <1>10 DEF ev2, lo2, se2

\* The worker works, or another computer does.
LEMMA WorkKeeps ==
  ASSUME IInv, IInv', GateInv, WorkerWorks \/ OtherComputer
  PROVE  GateInv'
<1>. DEFINE st == StateMessage
            st2 == StateMessage'
<1>. USE DEF IInv
<1>1. /\ UNCHANGED <<page, asking, answers>> /\ PublishChanges /\ [Next]_vars
      /\ \/ safetyRevision' = safetyRevision /\ inbox' = inbox
         \/ /\ safetyRevision' = safetyRevision + 1
            /\ inbox' = [p \in Pages |-> Append(inbox[p], st2)]
      /\ safetyRevision' = safetyRevision =>
            /\ runtimeStopped' = runtimeStopped \/ (safetyRevision = 0 /\ ~initialRead)
            /\ ~AskOff
      /\ initialRead => initialRead'
  <2>1. CASE OtherComputer
    <3>1. UNCHANGED <<page, inbox, asking, answers>> /\ PublishChanges /\ RemoteEdit
      BY <2>1 DEF OtherComputer
    <3>2. /\ runtimeStopped' = runtimeStopped /\ safetyRevision' = safetyRevision
          /\ initialRead' = initialRead /\ enabledIntent' = enabledIntent
      BY <3>1 DEF RemoteEdit, runtime, writer
    <3>3. ~AskOff
      <4>1. AskOff => enabledIntent' = enabledIntent + 1
        BY DEF AskOff, Ask
      <4>2. enabledIntent \in Int
        BY BoundsAssumption DEF BoundsAssumption, TypeOK
      <4>. QED BY <3>2, <4>1, <4>2
    <3>4. [Next]_vars
      BY <3>1 DEF Next
    <3>. QED BY <3>1, <3>2, <3>3, <3>4
  <2>2. CASE WorkerWorks
    <3>1. AskOff => safetyRevision' # safetyRevision
      BY DEF AskOff, NotifySafety, TypeOK
    <3>. QED BY <2>2, <3>1, WorkerFacts DEF WorkerWorks, Next, TypeOK
  <2>. QED BY <2>1, <2>2
<1>2. /\ st \in Messages /\ st.off = runtimeStopped /\ st.revision = safetyRevision
      /\ st.instance = safetyInstance /\ initialRead \in BOOLEAN /\ initialRead' \in BOOLEAN
  BY StateIsMessage DEF TypeOK
<1>3. /\ st2 \in Messages /\ st2.off = runtimeStopped' /\ st2.revision = safetyRevision'
      /\ st2.instance = safetyInstance'
  BY DEF TypeOK, StateMessage, Messages
<1>4. safetyInstance' = safetyInstance
  BY DEF WorkerWorks, OtherComputer, RemoteEdit, runtime
<1>. HIDE DEF st, st2
<1>5. ASSUME NEW p \in Pages PROVE /\ inbox'[p] \in Seq(Messages) /\ events'[p] \in Seq(Events)
                                   /\ PageOK(p)'
  <2>. DEFINE pg == page[p]
              ib == inbox[p]
              ask == asking[p]
              ans == answers[p]
  <2>1. /\ pg \in PageStates /\ ib \in Seq(Messages) /\ ans \in SUBSET Messages
        /\ Allowed(pg) /\ Current(pg, ib, ask, ans, st, initialRead)
        /\ Stopping => LastWordOff(pg, ib, ask, ans)
    BY Parts DEF st
  <2>2. page'[p] = pg /\ asking'[p] = ask /\ answers'[p] = ans
    BY <1>1
  <2>3. /\ events'[p] \in Seq(Events)
        /\ FollowsLocal(pg, events'[p], local') /\ FollowsSettings(pg, events'[p], settings')
    BY <1>1, PublishKeeps
  <2>4. CASE safetyRevision' = safetyRevision /\ inbox' = inbox
    <3>1. inbox'[p] = ib
      BY <2>4
    <3>2. /\ st2.instance = st.instance /\ st2.revision = st.revision
          /\ st2.off = st.off \/ (st.revision = 0 /\ ~initialRead)
          /\ initialRead => initialRead'
      BY <1>1, <1>2, <1>3, <1>4, <2>4
    <3>. HIDE DEF pg, ib, ask, ans
    <3>3. Current(pg, ib, ask, ans, st2, initialRead')
      BY <1>2, <1>3, <2>1, <3>2, SilentStart
    <3>4. Stopping' => LastWordOff(pg, ib, ask, ans)
      BY <1>1, <2>1, <2>4, StoppingIsOld
    <3>. QED BY <2>1, <2>2, <2>3, <3>1, <3>3, <3>4 DEF PageOK, st2
  <2>5. CASE /\ safetyRevision' = safetyRevision + 1
             /\ inbox' = [q \in Pages |-> Append(inbox[q], st2)]
    <3>1. inbox'[p] = Append(ib, st2)
      BY <2>5
    <3>2. /\ st2.instance = st.instance /\ st2.revision = st.revision + 1
          /\ initialRead => initialRead'
      BY <1>1, <1>2, <1>3, <1>4, <2>5
    <3>. HIDE DEF pg, ib, ask, ans
    <3>3. Current(pg, Append(ib, st2), ask, ans, st2, initialRead')
      BY <1>2, <1>3, <2>1, <3>2, Broadcast
    <3>. DEFINE ib2 == Append(ib, st2)
    <3>4. ib2 \in Seq(Messages) /\ ib2 # <<>> /\ ib2[Len(ib2)] = st2
      <4>1. ib2 \in Seq(Messages) /\ ib2 # <<>> /\ Len(ib) \in Nat /\ Len(ib2) = Len(ib) + 1
        BY <1>3, <2>1, AppendProperties, LenProperties
      <4>. QED BY <1>3, <2>1, <4>1, AppendProperties
    <3>5. Stopping' => st2.off
      BY <1>3 DEF Stopping, Forced
    <3>. HIDE DEF ib2
    <3>6. Stopping' => LastWordOff(pg, ib2, ask, ans)
      BY <3>4, <3>5 DEF LastWordOff
    <3>7. inbox'[p] = ib2 /\ Current(pg, ib2, ask, ans, st2, initialRead')
      BY <3>1, <3>3 DEF ib2
    <3>. QED BY <2>1, <2>2, <2>3, <3>4, <3>6, <3>7 DEF PageOK, st2
  <2>. QED BY <1>1, <2>4, <2>5
<1>6. GateTypes'
  <2>1. inbox' \in [Pages -> Seq(Messages)]
    <3>1. inbox' = [p \in Pages |-> inbox'[p]]
      BY <1>1 DEF GateInv, GateTypes
    <3>. QED BY <1>5, <3>1
  <2>2. events' \in [Pages -> Seq(Events)]
    <3>1. events' = [p \in Pages |-> events'[p]]
      BY <1>1 DEF PublishChanges
    <3>. QED BY <1>5, <3>1
  <2>. QED BY <1>1, <2>1, <2>2 DEF GateInv, GateTypes
<1>. QED BY <1>5, <1>6 DEF GateInv

\* The worker dies: whatever was not told is lost, and every port with it.
LEMMA DeathKeeps ==
  ASSUME IInv, IInv', GateInv, WorkerDies
  PROVE  GateInv'
<1>. DEFINE st == StateMessage
            st2 == StateMessage'
<1>. USE DEF IInv
<1>1. /\ WorkerRestart /\ PublishChanges /\ answers' = answers
      /\ page' = [p \in Pages |-> [page[p] EXCEPT !.port = "lost"]]
      /\ asking' = [p \in Pages |-> FALSE]
      /\ inbox' = inbox \/ inbox' = [p \in Pages |-> <<>>]
  BY DEF WorkerDies
<1>2. /\ st \in Messages /\ st.instance = safetyInstance
  BY StateIsMessage DEF TypeOK
<1>3. /\ st2 \in Messages /\ st2.instance = safetyInstance + 1
  BY <1>1 DEF TypeOK, StateMessage, Messages, WorkerRestart
<1>4. Stopping' => Stopping
  <2>1. ~AskOff
    <3>1. AskOff => enabledIntent' = enabledIntent + 1
      BY DEF AskOff, Ask
    <3>2. enabledIntent \in Int /\ enabledIntent' = enabledIntent
      BY <1>1, BoundsAssumption DEF BoundsAssumption, TypeOK, WorkerRestart
    <3>. QED BY <3>1, <3>2
  <2>. QED BY <1>1, <2>1, StoppingIsOld DEF Next, WorkerNext
<1>. HIDE DEF st, st2
<1>5. ASSUME NEW p \in Pages PROVE /\ page'[p] \in PageStates
                                   /\ inbox'[p] \in Seq(Messages) /\ events'[p] \in Seq(Events)
                                   /\ PageOK(p)'
  <2>. DEFINE pg == page[p]
              pg2 == [pg EXCEPT !.port = "lost"]
              ib == inbox[p]
              ib2 == inbox'[p]
              ans == answers[p]
  <2>1. /\ pg \in PageStates /\ ib \in Seq(Messages) /\ ans \in SUBSET Messages
        /\ Allowed(pg) /\ Current(pg, ib, asking[p], ans, st, initialRead)
        /\ Stopping => LastWordOff(pg, ib, asking[p], ans)
    BY Parts DEF st
  <2>. DEFINE ask2 == asking'[p]
  <2>2. page'[p] = pg2 /\ ask2 = FALSE /\ answers'[p] = ans /\ ib2 \in {ib, <<>>}
    BY <1>1
  <2>a. /\ pg.localRead = page[p].localRead /\ pg.helperOff = page[p].helperOff
        /\ pg.settingsRead = page[p].settingsRead /\ pg.settingsLoaded = page[p].settingsLoaded
        /\ pg.settingsOn = page[p].settingsOn
    OBVIOUS
  <2>. HIDE DEF pg, ib, ib2, ans, ask2
  <2>3. /\ pg2 \in PageStates /\ pg2.enabled = pg.enabled /\ pg2.port = "lost"
        /\ pg2.runtimeOff = pg.runtimeOff /\ pg2.instance = pg.instance
        /\ pg2.revision = pg.revision /\ pg2.helperOff = pg.helperOff
        /\ pg2.localRead = pg.localRead /\ pg2.settingsLoaded = pg.settingsLoaded
        /\ pg2.settingsOn = pg.settingsOn /\ pg2.settingsRead = pg.settingsRead
    BY <2>1 DEF PageStates
  <2>. HIDE DEF pg2
  <2>4. /\ events'[p] \in Seq(Events)
        /\ FollowsLocal(pg2, events'[p], local') /\ FollowsSettings(pg2, events'[p], settings')
    BY <1>1, <2>a, <2>3, PublishKeeps
  <2>5. Current(pg2, ib2, ask2, ans, st2, initialRead')
    <3>1. st2.instance = st.instance + 1
      BY <1>2, <1>3
    <3>2. /\ InboxCurrent(ib2, st2)
          /\ \A m : m.instance \in Nat /\ NotAhead(m, st) /\ NotLast(m, ib) =>
                  NotAhead(m, st2) /\ NotLast(m, ib2) /\ m.instance # st2.instance
      <4>1. InboxCurrent(ib, st)
        BY <2>1 DEF Current
      <4>. QED BY <1>2, <1>3, <2>1, <2>2, <3>1, <4>1, NewWorker
    <3>3. \A m \in ans : /\ NotAhead(m, st) /\ NotLast(m, ib) /\ m.revision >= 0
                         /\ m.instance \in Nat
      BY <2>1 DEF Current, AnswerCurrent, Messages
    <3>4. NotAhead(pg, st) /\ NotLast(pg, ib) /\ pg.instance \in Nat
      BY <2>1 DEF Current, PageCurrent, PageStates
    <3>. QED BY <2>3, <3>2, <3>3, <3>4 DEF Current, AnswerCurrent, PageCurrent, NotAhead, NotLast
  <2>6. Allowed(pg2) /\ (Stopping' => LastWordOff(pg2, ib2, ask2, ans))
    BY <1>4, <2>1, <2>2, <2>3 DEF Allowed, LastWordOff
  <2>7. ib2 \in Seq(Messages)
    <3>1. <<>> \in Seq(Messages)
      OBVIOUS
    <3>. QED BY <2>1, <2>2, <3>1
  <2>8. inbox'[p] = ib2
    BY DEF ib2
  <2>. QED BY <2>2, <2>3, <2>4, <2>5, <2>6, <2>7, <2>8 DEF PageOK, st2, ask2
<1>6. GateTypes'
  <2>1. inbox' \in [Pages -> Seq(Messages)]
    <3>1. inbox' = [p \in Pages |-> inbox'[p]]
      BY <1>1 DEF GateInv, GateTypes
    <3>. QED BY <1>5, <3>1
  <2>2. events' \in [Pages -> Seq(Events)]
    <3>1. events' = [p \in Pages |-> events'[p]]
      BY <1>1 DEF PublishChanges
    <3>. QED BY <1>5, <3>1
  <2>3. page' \in [Pages -> PageStates]
    <3>1. page' = [p \in Pages |-> page'[p]]
      BY <1>1
    <3>. QED BY <1>5, <3>1
  <2>. QED BY <1>1, <2>1, <2>2, <2>3 DEF GateInv, GateTypes
<1>. QED BY <1>5, <1>6 DEF GateInv

-----------------------------------------------------------------------------
(* The pages: the theorems *)

\* A page does nothing to the worker: the composition is a behaviour of it.
LEMMA GateStep ==
  ASSUME [GateNext]_allVars
  PROVE  [Next]_vars
<1>1. CASE WorkerWorks \/ WorkerDies \/ OtherComputer
  BY <1>1 DEF WorkerWorks, WorkerDies, OtherComputer, Next, WorkerNext
<1>2. ASSUME NEW p \in Pages, PageNext(p) PROVE UNCHANGED vars
  BY <1>2 DEF PageNext, ReceiveSafety, AnswerState, ReceiveState, Reconnect, ServeLocalRead,
     LocalReadEnds, LocalReadFails, ServeSettingsRead, SettingsReadEnds, SettingsReadFails,
     StorageChanged, Load
<1>3. CASE UNCHANGED allVars
  BY <1>3 DEF allVars
<1>. QED BY <1>1, <1>2, <1>3 DEF GateNext

\* The invariant holds at first.
LEMMA InitGateInv == GateInit => IInv /\ GateInv
<1>. SUFFICES ASSUME GateInit PROVE IInv /\ GateInv
  OBVIOUS
<1>1. IInv
  BY InitIInv DEF GateInit
<1>2. FreshPage \in PageStates /\ Allowed(FreshPage)
  BY BoundsAssumption DEF FreshPage, PageStates, Reads, Parsed, Allowed, BoundsAssumption
<1>3. GateTypes
  BY <1>2 DEF GateInit, GateTypes
<1>4. ASSUME NEW p \in Pages PROVE PageOK(p)
  <2>1. /\ page[p] = FreshPage /\ inbox[p] = <<>> /\ asking[p] = TRUE /\ answers[p] = {}
        /\ events[p] = <<>>
    BY DEF GateInit
  <2>2. Current(FreshPage, <<>>, TRUE, {}, StateMessage, initialRead)
    BY <1>1, FreshIsCurrent, StateIsMessage DEF IInv
  <2>3. \A key, value : Tells(<<>>, key, value)
    <3>1. Len(<<>>) = 0
      OBVIOUS
    <3>. QED BY <3>1 DEF Tells
  <2>4. FollowsLocal(FreshPage, <<>>, local) /\ FollowsSettings(FreshPage, <<>>, settings)
    BY <2>3 DEF FollowsLocal, FollowsSettings, FreshPage, Parsed
  <2>. QED BY <1>2, <2>1, <2>2, <2>4 DEF PageOK, LastWordOff
<1>. QED BY <1>1, <1>3, <1>4 DEF GateInv

\* Every step keeps it.
LEMMA GateInvKept ==
  ASSUME IInv, GateInv, [GateNext]_allVars
  PROVE  IInv' /\ GateInv'
<1>1. IInv'
  BY GateStep, BookkeepingKept, KeptKept, ForcedKept DEF IInv
<1>2. CASE WorkerWorks \/ OtherComputer
  BY <1>1, <1>2, WorkKeeps
<1>3. CASE WorkerDies
  BY <1>1, <1>3, DeathKeeps
<1>4. ASSUME NEW p \in Pages, PageNext(p) PROVE GateInv'
  BY <1>4, ReceiveSafetyKeeps, AnswerStateKeeps, ReceiveStateKeeps, ReconnectKeeps, LocalKeeps,
     SettingsKeeps, StorageChangedKeeps, LoadKeeps DEF PageNext, IInv
<1>5. CASE UNCHANGED allVars
  <2>1. /\ UNCHANGED vars /\ UNCHANGED <<page, inbox, asking, answers, events>>
    BY <1>5 DEF allVars, gate, channels
  <2>2. UNCHANGED <<StateMessage, initialRead, local, settings, Stopping>>
    BY <2>1 DEF vars, runtime, storage, requests, writer, StateMessage, Stopping, ReleasedAfter, Released
  <2>3. GateTypes'
    BY <2>1 DEF GateInv, GateTypes
  <2>4. ASSUME NEW p \in Pages PROVE PageOK(p)'
    BY <2>1, <2>2 DEF GateInv, PageOK
  <2>. QED BY <1>1, <2>3, <2>4 DEF GateInv
<1>. QED BY <1>1, <1>2, <1>3, <1>4, <1>5 DEF GateNext

\* The invariant of the composition always holds.
LEMMA GateInvariance == GateSpec => [](IInv /\ GateInv)
BY InitGateInv, GateInvKept, PTL DEF GateSpec

\* Every page and every channel keeps its type.
LEMMA GateTyped ==
  ASSUME IInv, GateInv
  PROVE  GateTypeOK
<1>1. \A p \in Pages : /\ \A k \in 1..Len(inbox[p]) : inbox[p][k] \in Messages
                       /\ \A m \in answers[p] : m \in Messages /\ ~asking[p]
  BY Parts, ElementOfSeq
<1>. QED BY <1>1 DEF IInv, GateInv, GateTypes, GateTypeOK, PageStates

\* For any number of pages, requests, restarts and events: a stop closes a page
\* through the worker's word or through the local key, whichever it hears.
THEOREM StopHeard == GateSpec => []StopReachesThePage
<1>1. ASSUME IInv, GateInv PROVE StopReachesThePage
  <2>. SUFFICES ASSUME NEW p \in Pages, NEW i \in Requests, Standing(i)
       PROVE  /\ reply[i] \in {"waiting", "ok"} /\ HeardWorker(p) => ~page[p].enabled
              /\ reply[i] = "ok" /\ HeardOf(p, "local") /\ page[p].localRead = "done"
                    => ~page[p].enabled
    BY <1>1, GateTyped DEF StopReachesThePage
  <2>1. reply[i] \in {"waiting", "ok"} => asked[i] = "off" /\ ~ReleasedAfter(i)
    BY DEF Standing, ReleasedAfter, Released
  <2>2. ASSUME reply[i] \in {"waiting", "ok"}, HeardWorker(p) PROVE ~page[p].enabled
    <3>1. Stopping
      BY <2>1, <2>2 DEF Stopping
    <3>. QED BY <1>1, <2>2, <3>1, Parts DEF HeardWorker, LastWordOff, Allowed
  <2>3. ASSUME reply[i] = "ok", HeardOf(p, "local"), page[p].localRead = "done"
        PROVE  ~page[p].enabled
    <3>1. local = "stopped"
      BY <1>1, <2>1, <2>3 DEF IInv, Kept
    <3>. QED BY <1>1, <2>3, <3>1, Parts DEF HeardOf, NoWord, FollowsLocal, Allowed
  <2>. QED BY <2>2, <2>3
<1>. QED BY <1>1, GateInvariance, PTL

\* For any number of pages, requests, restarts and events: a page with nothing
\* left to read or to receive runs the helper only if each source allows it.
THEOREM SettledAllowed == GateSpec => []SettledPageIsAllowed
<1>1. ASSUME IInv, GateInv PROVE SettledPageIsAllowed
  <2>. SUFFICES ASSUME NEW p \in Pages, page[p].enabled, HeardWorker(p),
                       HeardOf(p, "local"), HeardOf(p, "settings"),
                       page[p].localRead = "done", page[p].settingsRead = "done"
       PROVE  /\ page[p].instance = safetyInstance => ~runtimeStopped
              /\ local # "stopped" /\ settings # "disabled"
    BY DEF SettledPageIsAllowed
  <2>1. /\ page[p].settingsLoaded /\ page[p].settingsOn
        /\ ~page[p].runtimeOff /\ ~page[p].helperOff
    BY <1>1, Parts DEF Allowed
  <2>2. local # "stopped" /\ settings # "disabled"
    BY <1>1, <2>1, Parts DEF HeardOf, NoWord, FollowsLocal, FollowsSettings
  <2>3. ASSUME page[p].instance = safetyInstance PROVE ~runtimeStopped
    <3>1. Current(page[p], inbox[p], asking[p], answers[p], StateMessage, initialRead)
      BY <1>1, Parts
    <3>2. StateMessage.instance = safetyInstance /\ StateMessage.off = runtimeStopped
      BY <1>1, StateIsMessage DEF IInv
    <3>. QED BY <2>1, <2>3, <3>1, <3>2 DEF HeardWorker, Current, PageCurrent, Newer
  <2>. QED BY <2>2, <2>3
<1>. QED BY <1>1, GateInvariance, PTL

=============================================================================
