# Formal models of the tremor browser helper

The repository is a browser extension (Manifest V3, TypeScript) for people who
cannot aim or press reliably: it enlarges and magnetises targets, presses by
dwelling, asks before dangerous clicks, labels targets with hint keys, and lets a
whole browser be driven by one switch (the space bar).  This directory holds TLA+
models of the parts of it in which several actors share a decision, the TLC runs
that check them on small instances and the proofs, checked by TLAPS, that hold for
every value of the constants.

Paths below are relative to the extension's own source directory
(`src/src/` in `PROJECT.json`, because the repository root is itself called
`src/` there).

## 1. The system

Three kinds of program run at the same time and share nothing but messages and
two storage areas:

- the **service worker** (`entrypoints/background.ts`), one instance at a time,
  killed and restarted by the browser at will; what it keeps in memory dies with it;
- a **content script** in every frame of every page (`entrypoints/content.ts`);
- **extension pages** (start page, popup, options, practice pages).

`chrome.storage.local` holds one safety key and `chrome.storage.sync` all the
rest; only the worker writes, everyone reads and hears `storage.onChanged`.

### Inventory

| Component | State it keeps | Operations | Talks to | What is hard | What must hold |
|---|---|---|---|---|---|
| Storage writer, `worker/storage-writer.ts` | two promise queues, `enabledIntent`, `pendingSafetyIntent`, `siteWriteQueues`, `writeTimestamps` | `setEnabled`, `setSiteDisabled`, `updateSettings`, switch order, phrases, press log | both storage areas | merging of rapid clicks, a queue blocked by the write quota, rejected writes, the worker's death | a change is atomic and not lost, the newest wins, everyone is answered, a stop does not wait |
| Off switch, worker side, `entrypoints/background.ts`, `core/helper-safety.ts` | `runtimeStopped`, `safetyRevision`, `safetyInstance` | start-up read, `setEnabled` message, `helper/state`, `notifySafety` | storage writer, every page | late start-up read, superseded start, restart between write and answer | an acknowledged stop survives; a stop is in force at once |
| Gate of a page, `entrypoints/content.ts` | stop flags by source, read counters, alive port | `helper/safety`, `helper/state`, storage reads and changes, reconnection | worker, storage | answers older than the news, two worker instances | a page that heard of a stop does not run |
| Switch engine, `core/switch-engine.ts` | mode, generation, sequence, items, press in progress | key down and up, tick, pause, resume, results, `setItems` | its controller | boundaries in the middle of a press | one whole press selects one item |
| Switch handoff, `core/switch-handoff.ts` | owner, epoch, two engines, stop intent, receipts | transfer, return, key, complete, stop | practice page | late or repeated results, transfer while held | one owner runs; a result is accepted once |
| Switch controller, `page/input/switch-controller.ts` | engine, menu level, permission state, `unresolvedWork`, calls in flight | scan, select, request, pause, `action-check` | relay | time limits, pauses, results after a pause | what the user is told is true |
| Switch relay, `worker/switch-relay.ts` | reports of frames, cancellation count | report, execute, action-check, cancel-peers, navigation | every frame of a tab | a frame changes its document between look and delivery; the worker dies | an action reaches the document it was chosen in |
| Action gate, `page/input/switch-actions.ts`, `core/switch-actions.ts` | the call at work | accept, release | controller | late requests | once, and not two at a time in one document |
| Frame relay, `worker/relay.ts`, `core/frame-tree.ts`, `core/frame-path.ts` | reports of a tab's frames, `lastReportedJson` of each collector | collect, report, drop dead branches, refresh, compose | content scripts | frames that come, go and shift while reports cross, a restarted worker | the worker ends with the present report of every frame in sight, and the composed page is the page |
| Danger confirmation, `core/confirm-guard.ts`, `core/danger.ts` | open dialog, arming time, hold | open, press, hold, cancel | content script, relay | key repeat, a lost key-up, the target leaves | no dangerous click without a fresh, deliberate confirmation |
| Pointer assistance, `core/dwell-timer.ts`, `tremor-filter.ts`, `drag-two-press.ts`, `magnet.ts` | timers, last press, drag source | pointer samples, presses | content script | double presses, drift | one intention gives one click |
| Input pipeline, `page/input/pipeline.ts`, `mode.ts` | which presses are swallowed, modal hold, the mark of having left a document editor and its watchdog | DOM events | content script, relay, mode indicator | the browser's native sequence after a swallowed event; a focus that falls without an event; reports of the mode that arrive late or not at all | a swallowed press is swallowed whole; the mode is known, shown, and nothing is written while it says "helper" |
| Site on/off, `content.ts`, `background.ts`, `popup/main.ts` | a frame's `siteOrigin`, `siteState`, retries; the worker's `topDocOrigins`; the popup's site card | query, read, retry, listen, press, take back | storage writer | an answer about the outgoing document, reads that fail, changes between a read and its listener, optimistic presses | a frame takes no other site for its own, learns it in the end and follows what is stored; so does the card |
| Popup's helper, stop and start cards, `popup/main.ts` | `helperToggleIntent`, `helperSafetyOff`, `settingsEnabled`, what each card shows | press, revert, time out, read, redraw, start a practice | worker, both storage areas | overlapping presses, late reads, a stop during the awaits of a start | the cards settle on what is stored; a start closes the popup over a running helper only |
| Action icon, `background.ts` | a generation per tab | update | tabs | overlapping updates | the last one wins |
| Port RPC and start bridge, `shared/port-rpc.ts`, `worker/start-bridge.ts` | pending requests | request, answer, disconnect | start page | a late answer, a lost port | answered at most once |
| File pages, `core/file-protocol.ts`, `core/file-selection.ts`, `entrypoints/handoff-practice`, `file-practice` | request in flight, deadline | take, reply, expire | handoff, a window of messages | late, repeated and stale replies | a reply is taken once, in time |
| Drafts, phrases, orders, hints, grid (`core/`) | values | pure functions | controllers | limits, empty input | the function's contract |
| Schema, geometry, overlays, options | - | validation, DOM reading, drawing | - | not a matter of states | not modelled, see section 8 |

`PROJECT.json` lists every component with its status, and under `hazards` the
places of the code where something can go wrong that a test would hardly reach.

## 2. Modules

| Module | Models | Role |
|---|---|---|
| `HelperSafety` | `background.ts`, `storage-writer.ts`, `helper-safety.ts` | the worker's off switch |
| `HelperGate` | `content.ts`, extends `HelperSafety` | pages composed with the worker |
| `HelperProofs` | - | theorems about `HelperSafety` and `HelperGate` |
| `SwitchEngine` | `core/switch-engine.ts` | the reducer as operators on a state record |
| `SwitchHandoff` | `core/switch-handoff.ts`, extends `SwitchEngine` | two engines and one switch |
| `SwitchHandoffProofs` | - | theorems about `SwitchHandoff` |
| `SwitchExecution` | `switch-controller.ts`, `switch-relay.ts`, `switch-actions.ts`, extends `SwitchEngine` | requests from the top document through the worker into frames and back to itself |
| `SwitchExecutionProofs` | - | theorems about `SwitchExecution` |
| `AtomicStore` | what `storage-writer.ts` promises | abstract specification |
| `StorageWriter` | `worker/storage-writer.ts`, extends `AtomicStore` | queue, quota and merging; implements `AtomicStore` |
| `StorageWriterProofs` | - | the refinement and the properties of `StorageWriter` |
| `DangerConfirm` | `content.ts` (numbers, dialog), `confirm-guard.ts`, modal part of `pipeline.ts`, `relay.ts` | pressing by number and the danger confirmation across frames |
| `PressInput` | `content.ts` (magnet, dwell, presses), `pipeline.ts`, `tremor-filter.ts`, `dwell-timer.ts`, `drag-two-press.ts`, `magnet.ts` | one frame's presses by pointer, Space and dwelling |
| `EditorEscape` | `mode.ts`, `pipeline.ts` (focus, Esc, keys), `content.ts` (mode reports), `mode-indicator.ts` (focus sink), `relay.ts` | leaving a document that is one editor; the mode known, shown and reported |
| `InputProofs` | - | theorems about `EditorEscape` and `PressInput` |
| `FrameRelay` | `collector.ts`, `frame-path.ts`, `relay.ts`, `frame-tree.ts`, `content.ts` (refresh) | how the top document comes to know the frames of its page |
| `RelayProofs` | - | theorems about `DangerConfirm` and `FrameRelay` |
| `SiteSwitch` | `content.ts` (site state), `background.ts` (site of a tab), `popup/main.ts` (site card), `storage-writer.ts` | the helper switched off on one site |
| `SiteSwitchProofs` | - | theorems about `SiteSwitch` |
| `PopupPanel` | `popup/main.ts` (helper, stop and start cards), `storage-writer.ts` (`setEnabled`) | the popup against the worker and the two storage areas |
| `PopupPanelProofs` | - | theorems about `PopupPanel` |
| `MC...` | - | the instances TLC checks |

Operators whose name says how they fall short of the code (`ReceiveSafetyKeepsRead`,
`AcceptsAnother`, `LearnForgetfully`, `JoinedLast`, ...) are plausible bugs, used
only to show that the properties notice them; they are in no next-state relation.

### HelperSafety

`local` and `settings` are the two stored keys; `queue` and `stage` the ordinary
queue and where its running task is; `pending` / `writing` the safety queue of
`setEnabled` and the write the browser holds; `runtimeStopped`, `safetyRevision`,
`safetyInstance`, `initialRead` the worker's variables; `asked` and `reply` the
history of requests.  A request to turn the helper **off** writes the local key
in the safety queue and is answered from there; a request to turn it **on** goes
through the ordinary queue first (settings), then through the safety queue, and
is answered `superseded` when a later request has been made meanwhile.  Each
asynchronous step of the code (read, slot, `sync.set`, `local.set`, the
continuation of the message handler) is an action of its own; a rejected storage
call is another.  `WorkerRestart` forgets all memory and loses all answers; a
write the browser already holds may still land.

### HelperGate

The page's flags are the fields of `page[p]`; `inbox`, `asking`, `answers` and
`events` are the four ways news travels (broadcasts, a request, its answer,
`storage.onChanged`), which are not ordered among each other.  Broadcasts to one page
stay in the order they were sent in, also across the worker's death; the answer of the new
worker may be older or newer than what is still on its way from the old one.  A read counter of
the code becomes: the answer that would be dropped is taken off the channel when
it becomes stale.  A page may load anew at any time; the worker's death loses
every port, and possibly the broadcast it was sending.  The site's flags, which the
same function reads, are `SiteSwitch`; here they allow.

### SwitchEngine and SwitchHandoff

`SwitchEngine` is the reducer, a record with the code's fields (`scan` for the
cursor; time is one step of the scan, the protection time is the field
`settled`).  `SwitchHandoff` has the object of the class as `flow`, every method
as an action, and histories `issued`, `accepted` and `press` (what was offered
at the key-down).  A key-up may come after any number of transfers, pauses or
stops.

### SwitchExecution

One request travels in `calls[c]` through its stages: in the top document, in
the relay (`authorize`), on its way to its frame (`deliver`), held by the action gate
of a child while the child asks back through the relay (`ask`, `approve`,
`recheck`, `approved`), done.  Every child frame has its document and its gate
(`child[f]`), as `createActionGate` is called once per document; the top document acts on
its own targets in the handler that receives them (`ActsInTop`), after one look at its
own state.  A reload goes through `authorize`, `answered`,
`again`, `confirmed`.  Cancellations and pauses are counters of messages under
way.  Every `await` of the code is a boundary between two actions, so that a
pause, a new document, a report, a time limit or the worker's death may come
there.  What the model leaves out on purpose is said at the head of the module;
the main points are that `switch/frame-check` may fail at will, that messages
are unordered except that a request stays behind the cancellations sent before
it (both leave from one document on one channel), and that the menu's other
levels are any item offered at any time.

### AtomicStore and StorageWriter

`AtomicStore` says what the writer's comments promise: a request is in effect at
one moment or never, requests of a key in their order, merged ones together; a
change may be based on an entry that another computer has just replaced, but
never on one this writer has replaced.  `StorageWriter` is the code: one queue
of read / slot / write tasks, the settings entry created in an extra write, the
per-site merge in front of the queue, the quota window.  The refinement mapping
maps `status` only: a batch is "written" between the landing of its write and
the answer.

### DangerConfirm

`top` holds what the top document keeps: the numbers shown, the snapshot
(`composedItemsCache`), the reads `openHints` waits for, and the dialog with its
guard; `child` the two flags of the child frame; `toTop` and `toChild` the two
directions of the relay.  A handler is an operator on a record of work (the new
state, the messages sent, the press made), since handlers call each other:
`handleTopHintKey` calls `openDangerConfirm`, a key of the guard `finish`, which
calls `pressHintEntry`.  Keys are events of the focused frame with the keys that
are down as state, so that repeats, releases that nobody hears and keys held
since before the dialog come by themselves.  `doc`, and the documents
remembered in the dialog, tell which document of the child an element belongs to.
The number of a question (`top.shown`, which the child and its keys carry along where the
code has a flag) only serves to tell the questions apart: no step of the top document
looks at it but `GuardEnds`.  That step is where time comes in.  The second of protection
is taken to be longer than a message's way there and a key's way back, so that when it is
over the frames have heard of the dialog and what they sent before has arrived.

### PressInput

One frame.  The cursor is at a *spot* that says which element it is over and
which are near enough to be caught, so that `pickTarget` is a choice among few;
`looks` is what the collector last saw of each element (plain, dangerous, gone).
`pressSwallowed` and `pendingPressExecute` are the pipeline's two variables: a
press of the pointer is `PointerDown`, which decides and may reserve an element,
and later `Release`, which ends with a click, without one (the button came up
outside the window) or with `pointercancel`.  `KeyboardClick` is the trusted click
the browser makes for Enter.  `dwell` is the timer of `dwell-timer.ts` with the
flag of its loop; the loop's turns (`DwellTick`) and the passing of its time
(`DwellTimePasses`) come at any moment.  The dialog of `DangerConfirm` appears here as a
flag that opens and closes.  `bundle.seen`, `space.seen`, `executed`, `dwelt` and
`did` are history, for the properties.

### EditorEscape

One frame, the top one or a child, whose document has an editable body.  `active` is
the deepest active element: the body with the focus (`root`), the body because nothing
has it (`body`), a field, a button, or the helper's focus sink.  Esc puts the focus on
the sink and sets the mark; a focus that the browser moves tells the frame
(`FocusMoves`), and so does one that is dropped (`FocusDrops`) or goes to another window
(`KeyboardLeaves`), though neither lifts the mark, since a focusout seen from the window
names the overlay's host; one that falls out of the sink tells nothing (`FocusFalls`).
What the focusin does not lift is found by the watchdog, an animation frame later.
Listeners run in the order in which the code registers them, the mode's report first,
which is why a report looks at the mark that is about to fall.  `inbox` is the way of a child's reports to the top document; the worker
drops them while it does not know the frame.  `unnoticed` and `untold` are history and
name the situations of section 4 in which the display cannot be true.

### FrameRelay

`windows[f]` is `window.frames` of each frame in order, from which a frame's path is
counted, and `line[f]` the frames from below the top down to it (`window.parent`, and so
on), which never change; `unused` are the frames that have not come yet and `gone` those
that have left.  `hidden` are the iframes that are wholly clipped, which their document
does not report.  `due` and `lastReported` are the collector's, `queue[f]` the reports of a frame
on their way (those of different frames are not ordered), `reports` the worker's map
and `earlier` the order of its keys.  `HandleReport` is the whole handler: it drops the reports under iframes
that are gone (`DeadPrefixes`), puts the new one and, when iframes came or went, asks all
frames to report anew.  `ComposedEdges` is the tree the top document joins from the
reports, the last steps of its `Walks`.  `strays` and `unseen` are history: the frames that
left in a way their parent's report cannot tell, and the documents that lost an iframe they
had not shown while they were due to collect (section 4).

### SiteSwitch

`frame.phase` is where `attemptReadSiteState` stands at its awaits: asking the worker for
the site, reading the site's entry, waiting to try again.  `tab`, `loading` and
`topDocOrigin` say what the worker answers a frame of a document without an address
(`about:`), whose origin only the top document can tell; the worker forgets it when the
tab begins to load and when it restarts, but what the outgoing document still sends may
record it again (`overheard`, history: what it then has of the next document without an
address; `frame.early`: the frame asked before that one was heard).  The card of the popup keeps a queue of reads
served in order, and each of its presses is a job that the worker checks, writes or
refuses and that the popup takes back after its time.  `missed` and `untold` are history:
a change that fell between a read and its listener, and a card that nothing will tell
(section 4).

### PopupPanel

The two stored keys with the change events on their way; each press with its stage in
the worker (`job`), its answer and the popup's time limit; the first reads and the reads
after a failure; and the five awaits of `startActivity` one by one.  `Toggle` shows the
outcome at once; only the newest press (`helperToggleIntent`) is taken back, to what the
card showed before it, and the stored key is read again.  `view` is what the popup believes, `card` and `startable` what it
shows.  A read that failed leaves its key in `blind`, and nothing is claimed of it until
the next event.

## 3. Runs

| Run | Instance | Shows |
|---|---|---|
| `helper_safety` | 3 requests, 1 restart | an acknowledged stop stays on disk and in force through overlap, rejection and restart; a stop is answered whatever the ordinary queue does |
| `helper_gate` | 1 page, 2 requests, 1 restart, 1 edit on its way | no order of answers, broadcasts, change events and reconnections leaves a page running that has heard of a stop |
| `helper_gate_live` | 1 page, 1 request, 1 restart | a stop closes every page in the end by its broadcast alone |
| `switch_handoff` | 2 menus of up to 3 items (one disabled), 3 epochs, 3 selections | only the owner runs, selections are whole presses, results are taken once |
| `switch_execution` | 2 requests, 2 child frames and the top document; 2 documents of one frame or 1 restart; 3 generations, 3 selections | what runs is what was selected, once and truthfully reported, in order where one gate or the top document decides; a reload overtakes nothing |
| `storage_writer` | 3 requests, one site and the settings (2 fields, both keys alike at the start), limit of 2 writes, 1 restart or foreign edit | implements `AtomicStore`; the newest acknowledged value is stored; every request is answered |
| `danger_confirm` | one element in each of two frames; 1 number chosen and 2 changes, or 2 and 1; 2 messages each way | no dangerous press without its own fresh confirmation, no frame stays locked; a question after another, or in its place, holds nothing of the first |
| `press_input` | two elements side by side, one of which can be dragged, 3 spots, 2 presses or keys, 2 changes of page, dialog or switch | presses pass or are swallowed whole, a reserved press is executed once, dwelling presses once per catch, nothing is caught behind the dialog or while off, no drag outlives the off switch |
| `editor_escape` | one frame, top or child, up to 3 reports on their way | the mode is told, shown and in force, and a lost focus is noticed |
| `frame_relay` | top and three frames, one of them new; one change of the page and a restart, or two changes; 1 report of a frame on its way | every frame in sight is known as it is, and the page is composed as it is |
| `site_switch` | 2 sites, 2 loads or presses, 1 change elsewhere, 1 restart | a frame takes no other site for its own, follows what is stored and learns it in the end; the card follows too |
| `popup_panel` | 2 presses, 1 change elsewhere | the helper and start cards settle on what is stored; a start closes the popup over a running helper only |

**Bounds.**  Every bound is a constant named `Max...`, in the guard of the action
it bounds.  The hazards need few actors: a superseded stop needs a stop, a start
and one more request (3); a stale answer one page, as pages share nothing with
each other (`Pages` has one element for that reason); a request overtaken by
another two requests, one abandoned and one later, in one frame, in two, or the later in
the top document (`switch_execution` reaches all three, and in the last two the later press
running first); a stale document two documents;
a merge one write under way and two clicks; the quota a limit below the number
of writes.  One restart is enough to separate "before" and "after"; a second one
finds the same state as the first, because nothing in memory survives.  In
`switch_execution` (`Together`) one frame loads another document or the worker dies, and
presses go to both frames only where neither happens; at most two pauses and reports are
on their way at a time; after a restart a frame that no request names does not reconnect.
The children differ in nothing but their names, hence the symmetry, which is sound because
the run checks no liveness.  A
dangerous press goes wrong by one change between the snapshot and the press and
another between the question and the answer (2 events); a question inherits keys or a
guard only from one before it (2 choices); `Together` has the one or the other.  A press that disturbs a
later one takes two gestures.  In `press_input` the second element is an ordinary
one at first (`PlainInit`) and may become dangerous or go; the first is either.  In
`site_switch` a frame and the card are followed apart, because they share only the stored
entries and the tab, and loads and presses are bounded together (`Together`): two presses
in one document, one on each side of a load, or two loads.  In `frame_relay` a second
change or a restart meets the reports of the first; a shifted path needs two siblings, a
dropped branch a frame with a child, hence three frames.  `editor_escape` has no bound but
the reports on their way.  Where
bounds end a behaviour, or the top document is reloaded, the system may stop, and
`CHECK_DEADLOCK FALSE` is set for that reason.

**Fairness.**  `HelperSafety`: the local write a stop waits for ends (lands or is
rejected) and its continuation runs; nothing is assumed of the ordinary queue,
whose storage calls may hang for ever, since the code keeps the stop off that
queue for exactly that case.  `HelperGate`: a broadcast sent to a page is
delivered; no read, no storage access and no request is assumed to end.
`StorageWriter`: the storage call the running task waits for settles (a promise
of the browser is resolved or rejected) and time passes, which the timer in
`waitForSyncWriteSlot` relies on.  `EditorEscape`: the watchdog's animation frame comes
(the tab is visible when its user types).  `SiteSwitch`: a load that has begun ends, a top
document that has connected speaks, calls inside a page go on, a timer set by
`scheduleSiteRetry` fires; and a query or a read that is made again and again is served in
the end (strong fairness), which is all the retry can hope for.  No user action, no restart and no edit is
ever assumed to happen.

## 4. Where the code and its comments part

Met while modelling; the models contain every step named here, and a property that the
difference touches says so where it is stated.  None of them has a run of its own.

*Switching off*

- A skipped stop is forgotten.  `core/helper-safety.ts:1` says that turning the helper off
  lasts until it is explicitly turned on again.  When a start is requested while the stop's
  entry still waits in the safety queue, the stop's write is skipped
  (`worker/storage-writer.ts:67`); if that start is then refused, nothing has been written,
  and the next worker life runs the helper although no start has succeeded.
  `AcknowledgedStopIsDurable` and `StopIsInForce` are about stops whose request was
  acknowledged as stored.
- The window of synchronised writes is forgotten by a worker that is restarted within the
  minute (`worker/storage-writer.ts:86`); `QuotaKept` speaks of one life.
- `openHints` may show numbers after the helper was switched off during its `await`
  (`entrypoints/content.ts:998-1008`).

*Pressing*

- A confirmation may press something else.  The dialog names a button, and the confirmed
  press carries only the frame and the collector's number of the element
  (`entrypoints/content.ts:960`, `:917`); the numbers start again in every document.
  SAFE-02 (`.planning/REQUIREMENTS.md:40`) asks once more about the button chosen.
- A swallowed press swallows later clicks of the keyboard.  `pressSwallowed` is cleared
  only by the next `pointerdown`, and the `click` listener
  (`page/input/pipeline.ts:489-502`) looks at nothing else: Enter on a focused button does
  nothing after a press made through the magnet (CLICK-02,
  `.planning/REQUIREMENTS.md:27`).
- Dwelling does not notice that the cursor is gone.  Only `pointermove` of the same frame
  moves the cursor (`entrypoints/content.ts:614-624`); when it enters another frame,
  leaves the window, or the page is scrolled under it, the element stays caught and is
  pressed when its time has passed (CLICK-04, `.planning/REQUIREMENTS.md:29`).
- A caught element that becomes dangerous stays caught with the cursor only near it
  (`entrypoints/content.ts:566-575`; SAFE-01, `.planning/REQUIREMENTS.md:39`).

*Selections* (`SwitchExecution`)

- A press may act after a later one.  The gate that admits one action at a time belongs to
  a document (`core/switch-actions.ts:1-12`, `page/input/switch-controller.ts:52`), and a
  target of the top document is pressed at once (`:631-635`).  A press into a frame that is
  given up, after its three seconds or by a pause, may still have its approval and the word
  of its withdrawal on their way to that frame; a later press in another frame or in the
  top document meets another gate, or none, and the earlier one then acts after it.
  `InSelectionOrder` states this exception (`Ungated`) and says that there is no other: not
  within a frame, not in the top document, and not for a reload.

*Mode of a frame* (`EditorEscape`)

- A child frame whose helper is switched off while escaped keeps the focus in the sink
  without the mark, because only the top frame destroys its overlay
  (`content.ts:638-642`).  Switched on again, a focus that then falls silently leaves the
  display at "helper" while letters reach the editor, against `pipeline.ts:526-527`.  This
  is the exception in `NothingWrittenUnseen` and `ModeIsKnown`.
- The focusout listener (`page/input/pipeline.ts:184-194`) never lifts the mark, against
  the comment above it (`:179-183`): it is a listener of the window, the sink is in the
  overlay's open shadow tree (`mode-indicator.ts:137-141`), and the event names the host.
  That is why the mark survives a window that loses the keyboard, as `:207-208` wants; a
  focus that leaves the sink for nothing, with an event or without, is left to the watchdog.
- A mode report that reaches a restarted worker before the frame's own report is dropped
  (`worker/relay.ts:131-132`) and is not sent again (`untold` in `ShownModeIsTrue`).
- Esc in a field inside an editable body ends typing in the body as well.

*Frames* (`FrameRelay`; comment at `worker/relay.ts:67-75`)

- A removed iframe that was clipped, or had not yet reported its shifted path, or whose
  parent the worker did not know, is never dropped, and may answer in the place of a
  living frame that comes to have its path (`strays` in `TreeIsThePage`).
- A document whose iframe comes and goes between two of its collections has nothing new to
  tell (`page/collector/collector.ts:460-468`), and the worker asks nobody.  If the report
  of the new frame itself had made every frame collect in between, the siblings behind it
  keep a place that is theirs no more until they next collect, and are not found in the
  tree (`unseen`); nothing tells them (D-03; comment at `worker/relay.ts:90-94`).
- Siblings of one address with neither id nor name are not told apart by `pathKey`.

*Site and popup* (`SiteSwitch`, `PopupPanel`)

- The record of a tab's site is deleted when the tab begins to load, because the next
  `about:` document may have another origin (`entrypoints/background.ts:147-149`), but a message of the
  outgoing document puts it back when that, too, has no address: `:311-318` (WR-03) looks
  only at the address of the tab.  A child frame of the next document that asks before
  its top document has spoken takes that site for its own, and keeps it until it is
  replaced (the exception in `OwnSite`).
- A change between the read of a site's entry and the registration of its listener
  (`content.ts:1246-1276`) is lost; the helper goes on with the old value.
- The site card is not read again after a lost answer or a time limit and may stay untrue
  (`popup/main.ts:479-489`; its comments want every refusal to restore the real
  state); a press on it before its first read is answered enables the site.
- When the site card is put in, the outline and the chosen card part
  (`popup/main.ts:547`); `hideToggleWarning` wipes the notice of another card
  (`:234-241`); `switch/begin` is still sent after a stop during `tabs.update`
  (`:447-448`); the migration notice can be overwritten by an older read (`:651`).

## 5. What is proved

Each proof module establishes an inductive invariant action by action and derives the
theorems from it; the assumptions are only those the modules state of their constants
(bounds are naturals, and there is a first menu; menus are sequences of items; reserved
names are not names of anything; the settings entry is one of the keys).  No theorem bounds the number of
requests, restarts, epochs, selections, navigations or changes.

- `HelperProofs`, the worker: `TypeCorrect`, `DurableStop`, `StopInForce`.  The
  properties speak of acknowledged stops and of successful starts after them, and
  are not inductive: when a start's `local.set` has landed, the key already reads
  "running" although the start is not answered yet.  `Released(j)` says that the
  release of start *j* has reached the disk, so that it can only succeed or be
  superseded; `Kept` and `Forced` are the two properties with "released" in place
  of "answered".  `Bookkeeping` says what the proof needs of the queues: a pending
  or held write belongs to a request of that kind that is still waiting, a start
  writes only from the head of the ordinary queue, requests above `enabledIntent`
  are unused, and a stored stop has been noticed by the worker.
- `HelperProofs`, the pages: `StopHeard`, `SettledAllowed`.  A page is told of the stop by
  broadcasts, answers and storage events, none ordered with the others, so the invariant
  says how far behind each page may be: `Current` that whatever the page, an answer or a
  broadcast says of the worker is no newer than the worker, that the last broadcast on
  its way is the worker's present word if it is of the present worker at all, and that a
  page which is behind has something under way; `FollowsLocal` and `FollowsSettings` the
  same of the two stored keys, their reads and events.  `Allowed` is the gate itself.  The
  last part, that while a stop stands the last word on every channel is "off"
  (`LastWordOff`), needs what was proved of the worker: its invariant is taken
  over, since a step of the composition is a step of the worker or leaves it alone.
- `SwitchHandoffProofs`: `TypeCorrect`, `SoleRunner`, `AnswerableWait`,
  `SingleAcceptance`, `WholePress`, `StopIntentSurvives`, `FinalStop`.  The
  invariant `Consistent` has four parts: `Sound` (each engine is well formed, and
  one that waits waits for its own generation and sequence), `Held` (what is
  remembered of the press in progress agrees with the owner's engine), `Accounted`
  (issued actions have their epoch and sequence, receipts are issued actions, an
  open wait is an issued action without receipt) and `Typed`.  Lemmas state once
  what each event of the reducer keeps of `Sound`; the action properties follow
  from the invariant and the action.
- `SwitchExecutionProofs`: `SelectionOrder`, `Honesty`, `WorkIsSpared`, `PressDocument`,
  `Withdrawal`.  That one selection never overtakes an earlier one is nobody's single
  check.  The top document vouches only for its latest selection (`Numbered`), so an older
  call goes on only where it needs no further word, being `Released`; a press that is
  there holds the gate of its frame, which lets no other press into that frame (`Gated`);
  in another document nothing holds the two apart, which is the exception the theorem
  states (`Ungated`); what runs in the top document is what it awaits at that moment
  (`Acts`); a reload that is
  there has a cancellation behind it, and a later selection stays behind that
  (`Overtaken`).  `Truthful` ties what was answered to what ran, and `Followed` says that a
  released call which the top document no longer wants has the cancellation, the pause or
  the loss of the connection under way: it is what `WithdrawalIsUnderWay` reads off.  The
  model's steps that change all calls at once (a cancellation, a new document, the
  worker's death) and the steps of one call each have one lemma for what they keep.
- `StorageWriterProofs`: `Implements` (the refinement of `AtomicStore`),
  `TheNewestCounts`, `WithinQuota`.  The refinement needs to know that the batch at
  the head of the queue is what `AtomicStore` may commit next: `Assigned` says that a
  waiting request is in a task of its key or has joined its site, `Joining` that a site
  has one task exactly while it writes, `Ordered` that tasks of a key and those who have
  joined behind them are in the order of their requests, and `Based` that the running
  task starts from an entry that no write made here has replaced.  For the newest request
  a second invariant is built on the first: without edits elsewhere a key has held only
  what it holds (`Alone`), a change written stays until a later one (`Kept`), and what is
  done was asked before what still waits for its key (`DoneFirst`), which is why a batch
  that lands replaces nobody newer.
- `InputProofs`, the editor: `KnownMode`, `TrueDisplay`, `NoSilentWriting`.  `ModeIsKnown` is
  inductive with the room that the watchdog's report needs.  The display needs what is
  behind the reports: the last report under way is the last word (`LastWord`), and with
  none under way the top document has heard it (`Heard`).
- `InputProofs`, the presses: `Asleep`, `Whole`, `Once`.  What was decided when a button or
  the space bar went down is kept in flags that the next press, the dialog or the switch
  could overwrite.  `SeenInv` says what the flags mean while neither has: a press that is
  down has been seen by the site exactly if it is not swallowed, and Space at least where
  its release would pass.  `ReservedInv` gives every reservation its own press, not yet
  executed; `MagnetInv` has the catch, the dwelling loop and its timer in step, so that the
  one element dwelling has pressed is the one its timer has fired for.
- `SiteSwitchProofs`: `FramesKnowTheirSite`, `FramesFollowTheirSite`,
  `CardFollowsItsSite`.  The first rests on `RecordIsPresent`: what the worker has
  recorded of a tab without an address is of its present document, also while the next
  one loads, or, until that is heard, of the document without an address before it.  The second needs that the last change of a site on its way is what is
  stored (`LastChangeStands`) and that a frame with no change of its site on its way has
  read what is stored (`UpToDate`), through every phase between the read and the listener
  (`Progress`).  The card has an invariant of its own: its reads are answered in order
  and the last of them is current (`LastRead`, with the one exception of a change that
  came before the listener), and a card that has read everything differs from what is
  stored for its newest press only, while that press is still to be written
  (`CardWaits`).
- `PopupPanelProofs`: `PanelTrue`, `ClosesTrue`.  What the popup knows and what it shows
  are followed apart.  A view of a key is behind the storage only while an event or a
  read of it is on its way, and the last event tells the present value
  (`FollowsStorage`).  A card differs from an up-to-date view only while the newest press
  waits and the worker has not done all of it (`Justified`): once it has, either the
  storage changed, and the event draws the card again, or it already was as pressed, and
  the card is right as it stands.  That an enabling press has done its first half has
  therefore to be remembered together with what that half left in the storage.
- `RelayProofs`, the confirmation: `Consented`, `Kinds`, `HeldForReal`, `ChildIsTold`, `Fresh`.
  Consents are counted where they are (`Accounts`): a press asked of the frame, a refusal
  on its way back and an open question each hold the choice they came from, a confirmed
  request its confirmation.  Towards the frame, the last word of the dialog on its way is
  the present one, or there is none and the frame has heard it (`DownInv`).  From the
  frame, a key that names the present question was struck since it opened, and a Space
  that went down there is down still or is followed by its release (`UpInv`); `Holding`
  says the same of the second being counted.  Handlers of the top document call each
  other, so lemmas on the record of work say what each of them keeps and sends, and the
  actions cite those.
- `RelayProofs`, the frames: `RelayTyped`, `ReportsCurrent`, `TreeComposed`.  A frame
  learns that its place has shifted only because its parent reports, the worker finds other
  iframes in that report and asks all frames anew; each of these can be under way.
  `PageInv` says that the page is a tree whose lines do not change; `Sent` that the last
  report of a frame is the newest on its way, or, with none on its way, what the worker has
  of it, unless the frame is to report anew; `Told` that a frame which is not due has shown
  its iframes as they are.  `Following` is the heart of it: let `q` be a document above a
  frame that is not due, and `Quiet`, the worker having its iframes as `q` last told and
  nothing else of `q` on its way.  Then the frame has the present place of each iframe `q`
  has told of, unless something is left that will make everyone collect anew: an iframe
  before that place whose first report is still to come (`Newcomer`), or `q` is due and
  will show an iframe less or elsewhere (`Lost`, `Moved`).  The one document of which that
  cannot be said is one of `unseen`.  For the tree, `DeadInv` says of each frame that has
  left, but for strays, that the worker has its report under a place its parent is yet to
  give up, so that when all is settled the worker knows only frames that live.  Two frames
  in sight never report one path, since their lines differ first at two iframes of one
  document; so every iframe of a report is resolved to its own frame, and a walk of
  `composeTree` that left the page would have a first step that does.

Only model-checked: liveness (`StopNeverWaitsForTheQueue`, `StopClosesEveryPage`,
`EveryRequestAnswered`, `LostFocusIsNoticed`, `EveryFrameLearns`), since fairness and
`ENABLED` are beyond the prover.  Every safety property a run checks is proved.

Three things came out of the proofs and changed the models and not the properties; a
fourth changed a property.  Some definitions chose with `CASE` between conditions that
could hold together, where TLC takes the first and the language leaves the choice open;
they now say which comes first, as the code's `if`s do.  And `SwitchExecution` admitted a bound of no menu generation at
all, under which its own first state is out of bounds.  In `DangerConfirm` a key sent to
an earlier question could arrive when the second of protection of a later one was over,
and confirm it: `GuardEnds` did not say that a second is longer than a key's way.  With one
number chosen there is no earlier question, so the run could not show it; it now has
two.  In the code this is an assumption on the browser's message
times and not a check.  And `FrameRelay` held an iframe back from leaving until the
document around it had collected, which nothing in the browser does.  Without that
guard TLC finds an iframe that comes and goes between two collections, after which
`ReportsAreCurrent` fails: the property now names that case (`unseen`), and
`TreeIsThePage` is stated of more states than before, those where a stray has left but
the worker has no report of it any more.

## 6. Reading the properties

The properties are at the end of each module, each with the code it is about.
Invariants come with the state they relate: for example `HonestResult` relates
what the top document was told of a call to what ran in the child, and
`WithdrawalIsUnderWay` relates a step of the child to the messages still on their
way.  Where a property is weaker than one might wish, the difference is what the
code does, and is said at the property: a press may still run after the user has
paused, as long as word of the pause is under way, and then even after a later press that
went to another document; a reload may overtake a press
selected after the reload was withdrawn; `HoldIsReal` speaks of a child that keeps
its document, since a document loaded while Space is down has not been told of the
dialog and does not forward the release.

A type invariant that a property's meaning rests on is a conjunct of it and not a
property of its own: `GateTypeOK` of `StopReachesThePage`, `TypeOK` of `HonestResult`,
`HoldIsReal` and `ModeIsKnown`, `PressTypeOK` of `AsleepWhenCovered`, `WriterTypeOK` of
`NewestWins`.

## 7. Plan

Done: 1 `HelperSafety`, 2 its proofs, 3 `HelperGate`, 4 `SwitchEngine` and
`SwitchHandoff`, 5 their proofs, 6 `SwitchExecution`, 7 `AtomicStore` and
`StorageWriter`, 8 `DangerConfirm`, 9 `PressInput`, 10 `EditorEscape` and its proofs,
11 `SiteSwitch` and its proofs, 12 `PopupPanel`, 13 `FrameRelay`, 14 the refinement of
`AtomicStore`, 15 the proofs of `HelperGate`, `SwitchExecution`, `PopupPanel`,
`DangerConfirm` and `PressInput`, 16 the proofs of `FrameRelay`.  To come, in this order:

17. `FilePractice`: `FileReplyGate` and the handoff practice page composed with
    `SwitchHandoff`; deadline against late reply; the same for port RPC.
18. The generations of the action icon, as part of `SiteSwitch`.
19. The rest of `SwitchExecution`: navigation, lists, phrases and drafts of the menu.
20. Draft history, phrases and press-log trimming against reference definitions.

## 8. Not modelled, and why

- Geometry, visibility and ranking (`collector`, `magnet` maths, overlays,
  `switch-panel`): they read and draw the DOM; the models take "visible" and
  "offered" as choices of the environment.
- Schemas and migration: validation of data; the models keep only its verdict
  (absent, corrupt, readable).  The list of migrations is empty.
- Wording, icons, logging, options page: presentation.
- Switch order, phrases and the press log in the storage writer: tasks of the same
  shape as those modelled, on keys of their own.
- The parts named under "to come" above; until then `PROJECT.json` says
  `partly` or `not_modelled` for each.
