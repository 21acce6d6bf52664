----------------------------- MODULE FrameRelay -----------------------------
(***************************************************************************)
(* How the top document comes to know the frames of its page: every frame  *)
(* reports where it is and which iframes it holds (collector.ts), the      *)
(* worker keeps the reports of the tab (worker/relay.ts), and the top      *)
(* document joins them into a tree (core/frame-tree.ts).                   *)
(*                                                                         *)
(* A frame does not know its frame number and its parent does not know it  *)
(* either: the two meet through the frame's path, the indexes from the top *)
(* down, which shift for a frame when a sibling comes or goes and nothing  *)
(* tells the frame.  A report that shows other iframes than the one before *)
(* makes the worker drop what it had under the iframes that are gone, and  *)
(* ask every frame to report anew.                                         *)
(*                                                                         *)
(* Abstractions.  The places and items of a frame are left out: a frame    *)
(* stands for what it would show, its place is the iframe it hangs under,  *)
(* and reports that only places and items change bring nothing new.  Path  *)
(* keys tell siblings apart, which iframes of one address with neither id  *)
(* nor name are not.                                                       *)
(* A frame taken out of the page sends nothing more, and what it sent is   *)
(* served or lost by then (the browser detaches it before its parent can   *)
(* report).  The worker's messages to the top arrive in order, so that the *)
(* top ends with what the worker has.  Another document starts another     *)
(* behaviour.                                                              *)
(***************************************************************************)
EXTENDS Naturals, Sequences, SequencesExt

CONSTANTS Iframes,     \* the frames below the top one
          Top,         \* the frame of the top document
          MaxSiblings, \* bound on the iframes of one document at first
          MaxDepth,    \* bound on how deep frames nest
          MaxQueue,    \* bound on the reports of one frame under way
          MaxChanges,  \* bound on iframes put in, taken out, hidden and shown
          MaxRestarts  \* bound on worker restarts

ASSUME FrameAssumption == /\ Top \notin Iframes
                          /\ MaxSiblings \in Nat /\ MaxDepth \in Nat /\ MaxQueue \in Nat
                          /\ MaxChanges \in Nat /\ MaxRestarts \in Nat

VARIABLES windows,   \* window.frames of every frame, in order
          line,      \* the frames from below the top down to a frame: window.parent, and so on
          hidden,    \* frames whose iframe is wholly clipped
          unused,    \* frames that have not been in the page yet
          gone,      \* frames that have been taken out
          changes,   \* changes of the page so far
          strays,    \* frames that left in a way their parent cannot tell
          unseen,    \* frames that lost an iframe they had not shown, and were yet to collect
          due,       \* collector.ts: a collection is due, perhaps a forced one
          lastReported, \* collector.ts: lastReportedJson
          queue,     \* reports on their way to the worker
          reports,   \* relay.ts: reportsByTab, the Map of one tab
          earlier,   \* pairs of its keys, the earlier one first
          restarts   \* worker restarts so far

tree == <<windows, line, hidden, unused, gone, changes>>
collector == <<due, lastReported>>
worker == <<reports, earlier, restarts>>
relayVars == <<tree, strays, unseen, collector, queue, worker>>

All == Iframes \cup {Top}
NoReport == [path |-> <<>>, children |-> {}]

Live == All \ (unused \cup gone)
\* The document that holds the n-th frame of a line.
Above(s, n) == IF n = 1 THEN Top ELSE s[n - 1]
Up(f) == Above(line[f], Len(line[f]))
\* The frames at or below f, those taken out before it included.
Below(f) == {g \in Iframes : f \in ToSet(line[g])}

Known == DOMAIN reports

\* Every frame hangs under one iframe, and all of them under the top.
IsPage(w, l, live) ==
    /\ l[Top] = <<>>
    /\ \A p \in live : \A i \in DOMAIN w[p] :
          /\ w[p][i] \in live /\ l[w[p][i]] = Append(l[p], w[p][i])
          /\ \A j \in DOMAIN w[p] : w[p][i] = w[p][j] => i = j
    /\ \A f \in live \ {Top} :
          /\ l[f] # <<>> /\ l[f][Len(l[f])] = f
          /\ \A n \in DOMAIN l[f] : /\ l[f][n] \in live \cap ToSet(w[Above(l[f], n)])
                                    /\ l[l[f][n]] = SubSeq(l[f], 1, n)

LineOf(w, f) ==
    LET lines == {s \in SeqOf(Iframes, MaxDepth) :
                     /\ s # <<>> /\ s[Len(s)] = f
                     /\ \A n \in DOMAIN s : s[n] \in ToSet(w[Above(s, n)])}
    IN IF lines = {} THEN <<>> ELSE CHOOSE s \in lines : TRUE

-----------------------------------------------------------------------------
(* The page changes: the collector of the document that changed is due.    *)

Schedules(p) == due' = IF due[p] = "no" THEN [due EXCEPT ![p] = "plain"] ELSE due

ChangesPage == changes < MaxChanges /\ changes' = changes + 1

\* A new frame collects when its script starts.
Inserts(p, f) ==
    /\ ChangesPage /\ p \in Live /\ f \in unused /\ Len(line[p]) < MaxDepth
    /\ unused' = unused \ {f}
    /\ \E i \in 1..(Len(windows[p]) + 1) :
          windows' = [windows EXCEPT ![p] = InsertAt(windows[p], i, f)]
    /\ line' = [line EXCEPT ![f] = Append(line[p], f)]
    /\ \E clipped \in SUBSET {f} : hidden' = hidden \cup clipped
    /\ due' = [due EXCEPT ![p] = IF due[p] = "no" THEN "plain" ELSE due[p], ![f] = "forced"]
    /\ UNCHANGED <<gone, strays, unseen, lastReported, queue, worker>>

\* index: where the iframe of f is in the document around it
IndexOf(f) == CHOOSE i \in DOMAIN windows[Up(f)] : windows[Up(f)][i] = f

\* Where the last report of p puts the iframe f, unless f was clipped away.
Shown(p, f) == {Append(lastReported[p].path, c.index) :
                   c \in {d \in lastReported[p].children : d.pathKey = f}}

Removes(f) ==
    LET p == Up(f)
    IN /\ ChangesPage /\ f \in Live \ {Top}
       /\ windows' = [windows EXCEPT ![p] = RemoveAt(windows[p], IndexOf(f))]
       /\ gone' = gone \cup Below(f)
       /\ strays' = strays \cup {g \in Below(f) \cap Known :
                       p \notin Known \/ \A path \in Shown(p, f) : ~IsPrefix(path, reports[g].path)}
       /\ unseen' = IF due[p] # "no" /\ Shown(p, f) = {} THEN unseen \cup {p} ELSE unseen
       /\ due' = [g \in All |-> IF g \in Below(f) THEN "no"
                                ELSE IF g = p /\ due[p] = "no" THEN "plain" ELSE due[g]]
       /\ queue' = [g \in All |-> IF g \in Below(f) THEN <<>> ELSE queue[g]]
       /\ UNCHANGED <<line, hidden, unused, lastReported, worker>>

\* An iframe is scrolled out of sight, or back.
Scrolls(f) ==
    /\ ChangesPage /\ f \in Live \ {Top}
    /\ hidden' = IF f \in hidden THEN hidden \ {f} ELSE hidden \cup {f}
    /\ Schedules(Up(f))
    /\ UNCHANGED <<windows, line, unused, gone, strays, unseen, lastReported, queue, worker>>

-----------------------------------------------------------------------------
(* collector.ts                                                            *)

\* framePathOf: the indexes from the top down to f.
FramePathOf(f) == [n \in 1..Len(line[f]) |-> IndexOf(line[f][n])]

\* buildFrameReport: an iframe that is wholly clipped is not reported.
BuildFrameReport(f) ==
    [path |-> FramePathOf(f),
     children |-> {[index |-> i, pathKey |-> windows[f][i]] :
                      i \in {j \in DOMAIN windows[f] : windows[f][j] \notin hidden}}]

\* The frames of a page have reported, in one order or another.
RelayInit ==
    /\ windows \in [All -> SeqOf(Iframes, MaxSiblings)]
    /\ line = [f \in All |-> LineOf(windows, f)]
    /\ unused = {f \in Iframes : line[f] = <<>>} /\ gone = {}
    /\ IsPage(windows, line, Live) /\ \A f \in unused : windows[f] = <<>>
    /\ hidden \in SUBSET (Iframes \ unused)
    /\ strays = {} /\ unseen = {} /\ changes = 0
    /\ due = [f \in All |-> "no"]
    /\ lastReported = [f \in All |-> IF f \in Live THEN BuildFrameReport(f) ELSE NoReport]
    /\ queue = [f \in All |-> <<>>]
    /\ reports = [f \in Live |-> lastReported[f]]
    /\ \E order \in SetToSeqs(Live) :
          earlier = {e \in Live \X Live : \E i, j \in DOMAIN order : i < j /\ e = <<order[i], order[j]>>}
    /\ restarts = 0

Reports(f, report) == /\ due' = [due EXCEPT ![f] = "no"]
                      /\ lastReported' = [lastReported EXCEPT ![f] = report]
                      /\ UNCHANGED <<tree, strays, unseen, worker>>

\* collect: what has not changed since the last report is not sent again,
\* unless the worker may have lost it.
CollectUnforced(f) ==
    LET report == BuildFrameReport(f)
    IN /\ due[f] # "no" /\ Len(queue[f]) < MaxQueue
       /\ queue' = IF lastReported[f] = report THEN queue
                   ELSE [queue EXCEPT ![f] = Append(queue[f], report)]
       /\ Reports(f, report)
Collect(f) ==
    LET report == BuildFrameReport(f)
    IN /\ due[f] # "no" /\ Len(queue[f]) < MaxQueue
       /\ queue' = IF due[f] = "plain" /\ lastReported[f] = report THEN queue
                   ELSE [queue EXCEPT ![f] = Append(queue[f], report)]
       /\ Reports(f, report)

-----------------------------------------------------------------------------
(* worker/relay.ts                                                         *)

\* What an earlier report of f showed and this one does not show any more.
DeadPrefixes(f, report) ==
    IF f \notin Known THEN {}
    ELSE {Append(reports[f].path, c.index) :
            c \in {d \in reports[f].children : \A e \in report.children : e.pathKey # d.pathKey}}

\* The reports that stay are kept; Map.set keeps the place of a key that is there.
Put(f, report, kept) ==
    /\ reports' = [g \in kept \cup {f} |-> IF g = f THEN report ELSE reports[g]]
    /\ earlier' = (earlier \cap (kept \X kept)) \cup IF f \in kept THEN {} ELSE kept \X {f}

\* refresh(force) in every frame of the tab
AsksAnew == /\ due' = [g \in All |-> IF g \in Live THEN "forced" ELSE due[g]]
            /\ unseen' = {}

HandleReportKeepingDead(f) ==
    LET report == Head(queue[f])
    IN /\ queue[f] # <<>>
       /\ queue' = [queue EXCEPT ![f] = Tail(queue[f])]
       /\ Put(f, report, Known)
       /\ IF f \in Known /\ reports[f].children = report.children THEN UNCHANGED <<due, unseen>>
                                                                 ELSE AsksAnew
       /\ UNCHANGED <<tree, strays, lastReported, restarts>>

HandleReport(f) ==
    LET report == Head(queue[f])
        alive(g) == \A prefix \in DeadPrefixes(f, report) : ~IsPrefix(prefix, reports[g].path)
    IN /\ queue[f] # <<>>
       /\ queue' = [queue EXCEPT ![f] = Tail(queue[f])]
       /\ Put(f, report, {g \in Known : alive(g)})
       /\ IF f \in Known /\ reports[f].children = report.children THEN UNCHANGED <<due, unseen>>
                                                                 ELSE AsksAnew
       /\ UNCHANGED <<tree, strays, lastReported, restarts>>

\* The reports are gone; every frame that reconnects reports, changed or not.
ReportsAreLost ==
    /\ restarts < MaxRestarts
    /\ restarts' = restarts + 1
    /\ reports' = <<>> /\ earlier' = {}
    /\ queue' = [f \in All |-> <<>>]
    /\ AsksAnew
    /\ UNCHANGED <<tree, strays, lastReported>>

RelayNext == \/ \E p \in All, f \in Iframes : Inserts(p, f)
             \/ \E f \in Iframes : Removes(f) \/ Scrolls(f)
             \/ \E f \in All : Collect(f) \/ HandleReport(f)
             \/ ReportsAreLost

RelaySpec == RelayInit /\ [][RelayNext]_relayVars

-----------------------------------------------------------------------------
(* core/frame-tree.ts, run by the top document when its hints open          *)

\* The top document does not wait for the worker to hear of itself.
ReportOf(f) == IF f = Top THEN BuildFrameReport(Top) ELSE reports[f]

\* resolveReports: of two reports with one path the later entry wins.
FrameIdsAt(path) ==
    LET at == {f \in Known \ {Top} : reports[f].path = path}
    IN {f \in at : \A g \in at \ {f} : <<g, f>> \in earlier}

ResolvedChildren(f) ==
    IF f \notin Known \cup {Top} THEN {}
    ELSE UNION {FrameIdsAt(Append(ReportOf(f).path, c.index)) : c \in ReportOf(f).children}

\* composeTree: the iframes it goes into, from the top down.  It goes into no
\* frame twice (visited), which tells nothing apart where the result is a tree.
Walks == {s \in SeqOf(Iframes, MaxDepth) :
             \A n \in DOMAIN s : s[n] \in ResolvedChildren(Above(s, n))}
ComposedEdges == {<<Above(s, Len(s)), s[Len(s)]>> : s \in Walks \ {<<>>}}

-----------------------------------------------------------------------------
(* Properties *)

Settled == \A f \in All : due[f] = "no" /\ queue[f] = <<>>

InSight == {f \in Live \ {Top} : ToSet(line[f]) \cap hidden = {}}
PageEdges == {<<Up(f), f>> : f \in InSight}

\* Once every collection that is due was made and served, the worker has the
\* present report of every frame in sight: none is missing or out of place
\* because it thought it had nothing new to say when a sibling came or went,
\* its branch was dropped or the worker restarted (content.ts, CR-08).  A frame
\* out of sight may keep an old path until it comes into sight.  So may one
\* under a document that lost an iframe it had not shown when its collection
\* was due: one clipped iframe may have come as another went, so that the
\* document has nothing to tell while those behind have moved and moved back.
ReportsAreCurrent ==
    Settled => \A f \in InSight :
                  (\A n \in DOMAIN line[f] : Above(line[f], n) \notin unseen) =>
                      f \in Known /\ reports[f] = BuildFrameReport(f)

\* Then the top document composes the page as it is: each frame in sight is
\* found under its own iframe, and no frame that is gone answers in its place
\* (relay.ts: dead branches).  It need not while the report of a stray is there:
\* of a frame that left clipped away, before it could report where a sibling's
\* coming or going had put it, or while the worker did not know its parent.
\* What such a frame reported takes the place of a frame that comes to have its
\* path.
TreeIsThePage ==
    Settled /\ strays \cap Known = {} /\ unseen = {} => ComposedEdges = PageEdges

=============================================================================
