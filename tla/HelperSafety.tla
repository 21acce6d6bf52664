---------------------------- MODULE HelperSafety ----------------------------
(***************************************************************************)
(* The worker's half of switching the helper off and on: the single writer *)
(* (storage-writer.ts) and the runtime stop it shares with background.ts.  *)
(*                                                                         *)
(* Turning the helper off must not wait for anything: the worker stops at  *)
(* once, tells every page, and writes a local "safety off" key through a   *)
(* queue of its own.  Turning it on walks the ordinary queue (read the     *)
(* synchronised settings, write them, release the local key) and may be    *)
(* overtaken, at every await, by a later request, by a rejected write, by  *)
(* another computer's edit of the settings, or by the worker's death.      *)
(*                                                                         *)
(* Abstractions.  A storage value is the part these handlers look at.      *)
(* Request numbers run on through a restart; the code restarts its counter *)
(* at 0 but compares numbers of one worker life only.  A read and the      *)
(* handler's continuation are one step (the queue is the only local writer *)
(* of the settings, and the intent is tested in the continuation).         *)
(* settingsSpec.migrations is empty at this commit, so migrate() never     *)
(* reports "migrated".  The wait for a synchronised write slot is a delay  *)
(* of the "write" and "default" stages.                                    *)
(***************************************************************************)
EXTENDS Naturals, Sequences

CONSTANTS MaxRequests,  \* bound on on/off requests
          MaxRestarts   \* bound on worker restarts

ASSUME BoundsAssumption == MaxRequests \in Nat /\ MaxRestarts \in Nat

VARIABLES local,           \* chrome.storage.local: the helperSafetyOff key
          settings,        \* chrome.storage.sync: the settings key
          runtimeStopped,  \* background.ts: the helper is blocked
          safetyRevision,  \* background.ts: counts notifications
          safetyInstance,  \* background.ts: identifies the worker's life
          initialRead,     \* background.ts: the start-up read has finished
          enabledIntent,   \* storage-writer.ts: the latest request
          queue,           \* storage-writer.ts: the ordinary queue
          stage,           \* where the head of queue is
          writing,         \* storage-writer.ts: head of safetyQueue
          stored,          \* the head's local.set has taken effect
          waiting,         \* the rest of safetyQueue
          asked,           \* history: what each request asked for
          reply            \* what each request was answered

storage == <<local, settings>>
runtime == <<runtimeStopped, safetyRevision, safetyInstance, initialRead>>
writer == <<enabledIntent, queue, stage, writing, stored, waiting>>
requests == <<asked, reply>>
vars == <<storage, runtime, writer, requests>>

Requests == 1..MaxRequests
LocalValues == {"absent", "running", "stopped"}
SettingsValues == {"absent", "corrupt", "enabled", "disabled"}
Stages == {"read", "default", "notice", "write", "release"}
Replies == {"none", "waiting", "ok", "superseded", "refused", "lost"}
Tasks == [kind : {"on", "cleanup"}, intent : Requests]
SafetyWrites == [off : BOOLEAN, intent : Requests]
NoWrite == [off |-> TRUE, intent |-> 0]

IsHelperSafetyOff(value) == value = "stopped"
SafetyValue(w) == IF w.off THEN "stopped" ELSE "running"

Init == /\ local \in LocalValues
        /\ settings \in SettingsValues
        /\ runtimeStopped = TRUE
        /\ safetyRevision = 0
        /\ safetyInstance = 0
        /\ initialRead = FALSE
        /\ enabledIntent = 0
        /\ queue = <<>>
        /\ stage = "read"
        /\ writing = NoWrite
        /\ stored = FALSE
        /\ waiting = {}
        /\ asked = [i \in Requests |-> "none"]
        /\ reply = [i \in Requests |-> "none"]

-----------------------------------------------------------------------------
(* background.ts *)

NotifySafety(off) == /\ runtimeStopped' = off
                     /\ safetyRevision' = safetyRevision + 1
                     /\ UNCHANGED <<safetyInstance, initialRead>>

\* A slow start-up read must not undo a stop asked for meanwhile.
InitialSafetyUnguarded ==
    /\ ~initialRead
    /\ initialRead' = TRUE
    /\ runtimeStopped' = IsHelperSafetyOff(local)
    /\ UNCHANGED <<storage, writer, requests, safetyRevision, safetyInstance>>

InitialSafety ==
    /\ ~initialRead
    /\ initialRead' = TRUE
    /\ runtimeStopped' = IF safetyRevision = 0 THEN IsHelperSafetyOff(local) ELSE runtimeStopped
    /\ UNCHANGED <<storage, writer, requests, safetyRevision, safetyInstance>>

\* The read itself is rejected: the helper stays stopped.
InitialSafetyFails ==
    /\ ~initialRead
    /\ initialRead' = TRUE
    /\ UNCHANGED <<storage, writer, requests, runtimeStopped, safetyRevision, safetyInstance>>

-----------------------------------------------------------------------------
(* storage-writer.ts: the safety queue.  Its head runs; the intent test    *)
(* that starts an entry happens in the microtask that follows the request  *)
(* (queue idle) or the end of the entry before it.  Entries are unordered  *)
(* in "waiting": only the one of the latest request can still be written.  *)

WriteSafety(off, intent) ==
    LET w == [off |-> off, intent |-> intent]
    IN IF writing = NoWrite
       THEN writing' = w /\ UNCHANGED <<stored, waiting>>
       ELSE waiting' = waiting \cup {w} /\ UNCHANGED <<writing, stored>>

StoreSafety ==
    /\ writing # NoWrite /\ ~stored
    /\ local' = SafetyValue(writing)
    /\ stored' = TRUE
    /\ UNCHANGED <<settings, runtime, enabledIntent, queue, stage, writing, waiting, requests>>

Live == {w \in waiting : w.intent = enabledIntent}
Skipped == waiting \ Live

NextSafety == /\ waiting' = {}
              /\ stored' = FALSE
              /\ \/ Live = {} /\ writing' = NoWrite
                 \/ \E w \in Live : writing' = w

\* The answers given when the head ends with "result"; a skipped entry is superseded.
Answers(result) ==
    [i \in Requests |-> IF i = writing.intent THEN result
                        ELSE IF \E w \in Skipped : w.intent = i THEN "superseded"
                        ELSE reply[i]]

\* The ordinary queue once the releases answered by this step have ended.
QueueAfterRelease ==
    IF ~writing.off \/ \E w \in Skipped : ~w.off THEN Tail(queue) ELSE queue
StageAfterRelease ==
    IF ~writing.off \/ \E w \in Skipped : ~w.off THEN "read" ELSE stage

SafetyApplied ==
    /\ stored /\ writing.intent = enabledIntent
    /\ reply' = Answers("ok")
    /\ stage' = StageAfterRelease
    /\ IF writing.off
       THEN /\ queue' = Append(QueueAfterRelease, [kind |-> "cleanup", intent |-> writing.intent])
            /\ UNCHANGED runtime
       ELSE queue' = QueueAfterRelease /\ NotifySafety(FALSE)
    /\ NextSafety
    /\ UNCHANGED <<storage, enabledIntent, asked>>

SafetySuperseded ==
    /\ stored /\ writing.intent # enabledIntent
    /\ reply' = Answers("superseded")
    /\ stage' = StageAfterRelease
    /\ queue' = QueueAfterRelease
    /\ NextSafety
    /\ UNCHANGED <<storage, runtime, enabledIntent, asked>>

\* local.set is rejected: the request fails, the entries behind it go on.
SafetyRejectedUncaught ==
    /\ writing # NoWrite /\ ~stored
    /\ reply' = [reply EXCEPT ![writing.intent] = "refused"]
    /\ stage' = StageAfterRelease
    /\ queue' = QueueAfterRelease
    /\ writing' = NoWrite
    /\ UNCHANGED <<storage, runtime, enabledIntent, stored, waiting, asked>>

SafetyRejected ==
    /\ writing # NoWrite /\ ~stored
    /\ reply' = Answers("refused")
    /\ stage' = StageAfterRelease
    /\ queue' = QueueAfterRelease
    /\ NextSafety
    /\ UNCHANGED <<storage, runtime, enabledIntent, asked>>

-----------------------------------------------------------------------------
(* Requests (onMessage handler of background.ts, setEnabled of the writer) *)

Ask(kind) == /\ enabledIntent < MaxRequests
             /\ enabledIntent' = enabledIntent + 1
             /\ asked' = [asked EXCEPT ![enabledIntent + 1] = kind]
             /\ reply' = [reply EXCEPT ![enabledIntent + 1] = "waiting"]

AskOffUnannounced ==
    /\ Ask("off")
    /\ UNCHANGED runtime
    /\ WriteSafety(TRUE, enabledIntent + 1)
    /\ UNCHANGED <<storage, queue, stage>>

AskOff == /\ Ask("off")
          /\ NotifySafety(TRUE)
          /\ WriteSafety(TRUE, enabledIntent + 1)
          /\ UNCHANGED <<storage, queue, stage>>

AskOn == /\ Ask("on")
         /\ queue' = Append(queue, [kind |-> "on", intent |-> enabledIntent + 1])
         /\ UNCHANGED <<storage, runtime, stage, writing, stored, waiting>>

-----------------------------------------------------------------------------
(* storage-writer.ts: the ordinary queue                                   *)

AtStage(kind, s) == queue # <<>> /\ Head(queue).kind = kind /\ stage = s
Intent == Head(queue).intent
Advance(s) == stage' = s /\ UNCHANGED <<queue, reply>>
Finish(answer) == /\ stage' = "read"
                  /\ queue' = Tail(queue)
                  /\ reply' = [reply EXCEPT ![Intent] = answer]
WriteIfCurrent ==
    IF Intent = enabledIntent THEN Advance("write") ELSE Finish("superseded")
safety == <<local, runtime, enabledIntent, writing, stored, waiting, asked>>

ReadSettingsForOn ==
    /\ AtStage("on", "read")
    /\ UNCHANGED <<settings, safety>>
    /\ \/ settings = "absent" /\ Advance("default")
       \/ settings = "corrupt" /\ Advance("notice")
       \/ settings \in {"enabled", "disabled"} /\ WriteIfCurrent

WriteDefaultSettings ==
    /\ AtStage("on", "default")
    /\ settings' = "enabled"
    /\ WriteIfCurrent
    /\ UNCHANGED safety

\* Settings that cannot be read are kept as they are; a notice is stored.
PreserveOriginal ==
    /\ AtStage("on", "notice")
    /\ Finish(IF Intent = enabledIntent THEN "refused" ELSE "superseded")
    /\ UNCHANGED <<settings, safety>>

WriteEnabledAsLatest ==
    /\ AtStage("on", "write")
    /\ settings' = "enabled"
    /\ Advance("release") /\ WriteSafety(FALSE, enabledIntent)
    /\ UNCHANGED <<local, runtime, enabledIntent, asked>>

WriteEnabled ==
    /\ AtStage("on", "write")
    /\ settings' = "enabled"
    /\ IF Intent = enabledIntent
       THEN Advance("release") /\ WriteSafety(FALSE, Intent)
       ELSE Finish("superseded") /\ UNCHANGED <<writing, stored, waiting>>
    /\ UNCHANGED <<local, runtime, enabledIntent, asked>>

\* A read or a write of this queue is rejected, or the item is too large.
RequestFails ==
    /\ queue # <<>> /\ Head(queue).kind = "on" /\ stage # "release"
    /\ Finish("refused")
    /\ UNCHANGED <<settings, safety>>

\* After an acknowledged stop the synchronised settings follow, if they can.
CleanupReads ==
    /\ AtStage("cleanup", "read")
    /\ IF Intent = enabledIntent /\ settings # "corrupt"
       THEN Advance("write")
       ELSE stage' = "read" /\ queue' = Tail(queue) /\ UNCHANGED reply
    /\ UNCHANGED <<settings, safety>>

CleanupWrites ==
    /\ AtStage("cleanup", "write")
    /\ settings' \in {settings, "disabled"}  \* the write may be rejected
    /\ stage' = "read" /\ queue' = Tail(queue) /\ UNCHANGED reply
    /\ UNCHANGED safety

-----------------------------------------------------------------------------
(* The surroundings *)

\* Another computer changes, resets or damages the synchronised settings.
RemoteEdit == /\ settings' \in SettingsValues \ {settings}
              /\ UNCHANGED <<local, runtime, writer, requests>>

\* Writes under way when the worker dies may or may not have reached the browser.
Landing == IF writing # NoWrite THEN {local, SafetyValue(writing)} ELSE {local}
SyncLanding == IF queue = <<>> THEN {settings}
               ELSE CASE stage = "default" -> {settings, "enabled"}
                      [] stage = "write" -> {settings, IF Head(queue).kind = "on" THEN "enabled" ELSE "disabled"}
                      [] OTHER -> {settings}

WorkerRestart ==
    /\ safetyInstance < MaxRestarts
    /\ local' \in (IF stored THEN {local} ELSE Landing)
    /\ settings' \in SyncLanding
    /\ runtimeStopped' = TRUE
    /\ safetyRevision' = 0
    /\ safetyInstance' = safetyInstance + 1
    /\ initialRead' = FALSE
    /\ queue' = <<>> /\ stage' = "read"
    /\ writing' = NoWrite /\ stored' = FALSE /\ waiting' = {}
    /\ reply' = [i \in Requests |-> IF reply[i] = "waiting" THEN "lost" ELSE reply[i]]
    /\ UNCHANGED <<enabledIntent, asked>>

WorkerNext == \/ InitialSafety \/ InitialSafetyFails
              \/ AskOff \/ AskOn
              \/ StoreSafety \/ SafetyApplied \/ SafetySuperseded \/ SafetyRejected
              \/ ReadSettingsForOn \/ WriteDefaultSettings \/ PreserveOriginal
              \/ WriteEnabled \/ RequestFails \/ CleanupReads \/ CleanupWrites
              \/ WorkerRestart

Next == WorkerNext \/ RemoteEdit

\* The browser ends the writes it was given on the safety key.  Nothing is
\* assumed of the ordinary queue, which may be waiting for a write slot.
Fairness == /\ WF_vars(StoreSafety \/ SafetyRejected)
            /\ WF_vars(SafetyApplied \/ SafetySuperseded)

Spec == Init /\ [][Next]_vars
FairSpec == Spec /\ Fairness

-----------------------------------------------------------------------------
(* Properties *)

\* The shape of the state; a safety write or a task belongs to a request made.
TypeOK == /\ local \in LocalValues /\ settings \in SettingsValues
          /\ runtimeStopped \in BOOLEAN /\ initialRead \in BOOLEAN
          /\ safetyRevision \in Nat /\ safetyInstance \in 0..MaxRestarts
          /\ enabledIntent \in 0..MaxRequests
          /\ queue \in Seq(Tasks) /\ stage \in Stages
          /\ writing \in SafetyWrites \cup {NoWrite}
          /\ stored \in BOOLEAN
          /\ waiting \in SUBSET SafetyWrites
          /\ asked \in [Requests -> {"none", "on", "off"}]
          /\ reply \in [Requests -> Replies]

\* Request i is a stop, and every later request to turn the helper on failed.
Standing(i) == /\ asked[i] = "off"
               /\ \A j \in Requests : j > i /\ asked[j] = "on" => reply[j] = "refused"

\* A stop that was answered "ok" is on disk, and stays there through restarts,
\* late releases of earlier requests and failed attempts to turn the helper on
\* (storage-writer.ts: local release and stop are never reordered).
AcknowledgedStopIsDurable ==
    \A i \in Requests : Standing(i) /\ reply[i] = "ok" => local = "stopped"

\* From the request on, and after a restart from the acknowledgement on, the
\* worker blocks the helper: neither its start-up read nor a release that ends
\* late lifts the block (background.ts: "a late local release does not").
StopIsInForce ==
    \A i \in Requests : Standing(i) /\ reply[i] \in {"waiting", "ok"} => runtimeStopped

\* A stop is answered although the ordinary queue may never move again
\* (background.ts: the stop waits for no answer of the storage).
StopNeverWaitsForTheQueue ==
    \A i \in Requests :
        (asked[i] = "off" /\ reply[i] = "waiting") ~> (reply[i] # "waiting")

=============================================================================
