-------------------------- MODULE SiteSwitchProofs --------------------------
(***************************************************************************)
(* Theorems about switching the helper off on one site, for any set of     *)
(* sites and any number of documents, changes, presses and restarts: a     *)
(* frame takes no other site than the one of its tab, or of the document   *)
(* before it in the one case the code lets happen; it follows what is      *)
(* stored for that site, and so does the popup's card.  Frame and card     *)
(* share the storage and the tab only, and have an invariant each.         *)
(***************************************************************************)
EXTENDS SiteSwitch, TLAPS, SequenceTheorems

USE SiteAssumption

-----------------------------------------------------------------------------
(* The inductive invariant *)

Change == [origin : Origins, off : BOOLEAN]
FrameState == [top : BOOLEAN,
               phase : {"query", "answer", "read", "value", "retry", "ended"},
               origin : Origins \cup {NoOrigin},
               value : BOOLEAN, siteDisabled : BOOLEAN,
               siteState : {"pending", "failed", "known"},
               listening : BOOLEAN, cleanedUp : BOOLEAN, missed : BOOLEAN,
               early : BOOLEAN]
Card == [origin : Origins \cup {NoOrigin}, on : BOOLEAN,
         reads : Seq({"asked", "on", "off"}), listening : BOOLEAN,
         pressed : Nat, untold : BOOLEAN]
Job == [stage : {"none", "sent", "checked", "ok", "refused"},
        off : BOOLEAN, previous : BOOLEAN, waiting : BOOLEAN]

StorageOK == /\ stored \in [Origins -> BOOLEAN] /\ changes \in Nat
             /\ news \in Seq(Change)
TabOK == /\ tab \in Documents /\ loading \in BOOLEAN
         /\ topDocOrigin \in Origins \cup {NoOrigin}
         /\ overheard \in Origins \cup {NoOrigin} /\ unheard \in BOOLEAN
CardOK == /\ popup \in Card /\ popupNews \in Seq(Change)
          /\ job \in [Presses -> Job]
          /\ \A i \in Presses : job[i].stage # "none" => popup.origin \in Origins
TypeOK == StorageOK /\ TabOK /\ frame \in FrameState /\ CardOK

\* What the worker has of a tab without an address is of its present document, or,
\* until that is heard, of the document before it.
RecordIsPresent ==
    /\ tab.about => \/ topDocOrigin \in {NoOrigin, tab.origin}
                    \/ unheard /\ topDocOrigin = overheard
    /\ loading /\ ~tab.about => topDocOrigin = NoOrigin

\* Where the content script may be, and what it has got by then.
Progress ==
    /\ frame.phase \in {"read", "value"} => frame.origin \in Origins
    /\ frame.top => frame.phase \notin {"query", "answer"}
    /\ frame.top /\ frame # NoFrame => frame.origin \in Origins
    /\ frame.siteState = "known" => frame.phase = "ended" /\ frame.origin \in Origins
    /\ frame.siteState = "known" /\ ~frame.cleanedUp => frame.listening
    /\ frame.cleanedUp => ~frame.listening

\* The last change of a site on its way is what is stored for it.
LastChangeStands ==
    \A i \in 1..Len(news) :
       (\A j \in 1..Len(news) : news[j].origin = news[i].origin => j <= i)
       => news[i].off = stored[news[i].origin]

NothingFor(origin) == \A i \in 1..Len(news) : news[i].origin # origin

\* With no change of its site on its way, a frame has read what is stored.
UpToDate ==
    NothingFor(frame.origin) /\ ~frame.missed =>
        /\ frame.phase = "value" => frame.value = stored[frame.origin]
        /\ frame.siteState = "known" /\ ~frame.cleanedUp
           => frame.siteDisabled = stored[frame.origin]

NobodyListens == frame = NoFrame => news = <<>>

IInv == /\ TypeOK /\ OwnSite /\ RecordIsPresent /\ Progress
        /\ LastChangeStands /\ UpToDate /\ NobodyListens

\* The site of a content script is the one of its tab, but for the exception.
Own(f) == \/ f.origin \in {NoOrigin, tab.origin}
          \/ ~f.top /\ f.early /\ f.origin = overheard

-----------------------------------------------------------------------------
(* Lemmas *)

\* The content script of a new document.
LEMMA FreshFrames ==
  ASSUME NEW origin \in Origins, NEW f \in Frames(origin)
  PROVE  /\ f \in FrameState
         /\ f.origin \in {NoOrigin, origin}
         /\ f.phase # "value" /\ f.siteState = "pending" /\ ~f.listening
         /\ f.phase = "read" => f.origin = origin
         /\ f.top => f.phase \notin {"query", "answer"}
         /\ f.top /\ f # NoFrame => f.origin = origin
<1>1. CASE f = FreshFrame(TRUE, origin)
  BY <1>1 DEF FreshFrame, FrameState
<1>2. CASE f = FreshFrame(FALSE, origin)
  BY <1>2 DEF FreshFrame, FrameState
<1>3. CASE f = NoFrame
  BY <1>3 DEF NoFrame, FreshFrame, FrameState
<1>4. QED
  BY <1>1, <1>2, <1>3 DEF Frames

\* A document without the content script
LEMMA NoFrameFields ==
  /\ NoFrame \in FrameState
  /\ NoFrame.top /\ NoFrame.phase = "ended" /\ NoFrame.origin = NoOrigin
  /\ NoFrame.cleanedUp /\ ~NoFrame.listening /\ NoFrame.siteState = "pending"
BY DEF NoFrame, FreshFrame, FrameState

\* What goes on in the content script alone keeps what the frame knows of the
\* page; NoFrame does nothing.
LEMMA FrameWorks ==
  ASSUME IInv, NEW f \in FrameState, InFrame(f), frame # NoFrame,
         f.top = frame.top,
         Own(f),
         f.top => f.origin = frame.origin,
         Progress', UpToDate'
  PROVE  IInv'
<1>1. f # NoFrame
  BY NoFrameFields DEF IInv, Progress
<1>2. OwnSite'
  BY DEF IInv, Own, OwnSite, InFrame, tabs, worker
<1>3. TypeOK'
  BY DEF IInv, TypeOK, StorageOK, TabOK, CardOK, InFrame, storage, tabs, worker, card
<1>4. RecordIsPresent' /\ LastChangeStands' /\ NobodyListens'
  BY <1>1 DEF IInv, RecordIsPresent, LastChangeStands, NobodyListens, InFrame,
              storage, tabs, worker
<1>5. QED
  BY <1>2, <1>3, <1>4 DEF IInv

\* What is read of the site the worker knows (SiteOriginOfTab).
LEMMA OriginIsTabs ==
  ASSUME IInv
  PROVE  /\ SiteOriginOfTab \in Origins \cup {NoOrigin}
         /\ \/ SiteOriginOfTab \in {NoOrigin, tab.origin}
            \/ unheard /\ SiteOriginOfTab = overheard
<1>1. tab.origin \in Origins /\ topDocOrigin \in Origins \cup {NoOrigin}
  BY DEF IInv, TypeOK, TabOK, Documents
<1>2. QED
  BY <1>1 DEF IInv, RecordIsPresent, SiteOriginOfTab

\* The worker answers a frame's question for its site.
LEMMA QueryAnsweredOK ==
  ASSUME IInv, QueryAnswered
  PROVE  IInv'
<1> DEFINE f == [frame EXCEPT !.phase = "answer", !.origin = SiteOriginOfTab,
                          !.early = unheard]
<1>1. frame.phase = "query" /\ InFrame(f)
  BY DEF QueryAnswered, Asked
<1>2. frame \in FrameState /\ frame # NoFrame
  BY <1>1, NoFrameFields DEF IInv, TypeOK
<1>a. /\ SiteOriginOfTab \in Origins \cup {NoOrigin} /\ unheard \in BOOLEAN
      /\ \/ SiteOriginOfTab \in {NoOrigin, tab.origin}
         \/ unheard /\ SiteOriginOfTab = overheard
  BY OriginIsTabs DEF IInv, TypeOK, TabOK
<1>3. /\ f \in FrameState /\ f.top = frame.top
      /\ Own(f)
      /\ f.top => f.origin = frame.origin
  BY <1>1, <1>2, <1>a DEF IInv, Progress, FrameState, Own, OwnSite
<1>4. Progress'
  BY <1>1, <1>2, <1>3, <1>a DEF IInv, Progress, FrameState, InFrame
<1>5. UpToDate'
  BY <1>1, <1>2, <1>3, <1>a DEF IInv, Progress, UpToDate, NothingFor, FrameState, InFrame, storage
<1> HIDE DEF f
<1>6. QED
  BY <1>1, <1>2, <1>3, <1>4, <1>5, FrameWorks

\* The question or its answer is lost.
LEMMA QueryLostOK ==
  ASSUME IInv, QueryLost
  PROVE  IInv'
<1> DEFINE f == [frame EXCEPT !.phase = "answer", !.origin = NoOrigin, !.early = unheard]
<1>1. frame.phase = "query" /\ InFrame(f)
  BY DEF QueryLost, Asked
<1>2. frame \in FrameState /\ frame # NoFrame /\ unheard \in BOOLEAN
  BY <1>1, NoFrameFields DEF IInv, TypeOK, TabOK
<1>3. /\ f \in FrameState /\ f.top = frame.top
      /\ Own(f)
      /\ f.top => f.origin = frame.origin
  BY <1>1, <1>2 DEF IInv, Progress, FrameState, Own, OwnSite
<1>4. Progress'
  BY <1>1, <1>2, <1>3 DEF IInv, Progress, FrameState, InFrame
<1>5. UpToDate'
  BY <1>1, <1>2, <1>3 DEF IInv, Progress, UpToDate, NothingFor, FrameState, InFrame, storage
<1> HIDE DEF f
<1>6. QED
  BY <1>1, <1>2, <1>3, <1>4, <1>5, FrameWorks

\* The frame hears the worker's answer.
LEMMA ReceiveAnswerOK ==
  ASSUME IInv, ReceiveAnswer
  PROVE  IInv'
<1> DEFINE f == IF frame.cleanedUp \/ frame.origin = NoOrigin THEN ReadFailure
               ELSE [frame EXCEPT !.phase = "read"]
<1>1. frame.phase = "answer" /\ InFrame(f)
  BY DEF ReceiveAnswer
<1>2. frame \in FrameState /\ frame # NoFrame
  BY <1>1, NoFrameFields DEF IInv, TypeOK
<1>3. /\ f \in FrameState /\ f.top = frame.top
      /\ Own(f)
      /\ f.top => f.origin = frame.origin
  BY <1>1, <1>2 DEF IInv, Progress, ReadFailure, FrameState, Own, OwnSite
<1>4. Progress'
  BY <1>1, <1>2, <1>3 DEF IInv, Progress, ReadFailure, FrameState, InFrame
<1>5. UpToDate'
  BY <1>1, <1>2, <1>3 DEF IInv, Progress, ReadFailure, UpToDate, NothingFor, FrameState, InFrame, storage
<1> HIDE DEF f
<1>6. QED
  BY <1>1, <1>2, <1>3, <1>4, <1>5, FrameWorks

\* The storage area serves the read of the site's entry.
LEMMA ServeReadOK ==
  ASSUME IInv, ServeRead
  PROVE  IInv'
<1> DEFINE f == [frame EXCEPT !.phase = "value", !.value = stored[frame.origin]]
<1>1. frame.phase = "read" /\ InFrame(f)
  BY DEF ServeRead
<1>2. frame \in FrameState /\ frame # NoFrame
  BY <1>1, NoFrameFields DEF IInv, TypeOK
<1>a. stored[frame.origin] \in BOOLEAN
  BY <1>1 DEF IInv, TypeOK, StorageOK, Progress
<1>3. /\ f \in FrameState /\ f.top = frame.top
      /\ Own(f)
      /\ f.top => f.origin = frame.origin
  BY <1>1, <1>2, <1>a DEF IInv, Progress, FrameState, Own, OwnSite
<1>4. Progress'
  BY <1>1, <1>2, <1>3, <1>a DEF IInv, Progress, FrameState, InFrame
<1>5. UpToDate'
  BY <1>1, <1>2, <1>3, <1>a DEF IInv, Progress, UpToDate, NothingFor, FrameState, InFrame, storage
<1> HIDE DEF f
<1>6. QED
  BY <1>1, <1>2, <1>3, <1>4, <1>5, FrameWorks

\* The read of the site's entry fails.
LEMMA ReadFailsOK ==
  ASSUME IInv, ReadFails
  PROVE  IInv'
<1> DEFINE f == ReadFailure
<1>1. frame.phase = "read" /\ InFrame(f)
  BY DEF ReadFails
<1>2. frame \in FrameState /\ frame # NoFrame
  BY <1>1, NoFrameFields DEF IInv, TypeOK
<1>3. /\ f \in FrameState /\ f.top = frame.top
      /\ Own(f)
      /\ f.top => f.origin = frame.origin
  BY <1>1, <1>2 DEF IInv, Progress, ReadFailure, FrameState, Own, OwnSite
<1>4. Progress'
  BY <1>1, <1>2, <1>3 DEF IInv, Progress, ReadFailure, FrameState, InFrame
<1>5. UpToDate'
  BY <1>1, <1>2, <1>3 DEF IInv, Progress, ReadFailure, UpToDate, NothingFor, FrameState, InFrame, storage
<1> HIDE DEF f
<1>6. QED
  BY <1>1, <1>2, <1>3, <1>4, <1>5, FrameWorks

\* The value read is taken.
LEMMA ReadEndsOK ==
  ASSUME IInv, ReadEnds
  PROVE  IInv'
<1> DEFINE f == IF frame.cleanedUp THEN [frame EXCEPT !.phase = "ended"] ELSE Known
<1>1. frame.phase = "value" /\ InFrame(f)
  BY DEF ReadEnds
<1>2. frame \in FrameState /\ frame # NoFrame
  BY <1>1, NoFrameFields DEF IInv, TypeOK
<1>3. /\ f \in FrameState /\ f.top = frame.top
      /\ Own(f)
      /\ f.top => f.origin = frame.origin
  BY <1>1, <1>2 DEF IInv, Progress, Known, FrameState, Own, OwnSite
<1>4. Progress'
  BY <1>1, <1>2, <1>3 DEF IInv, Progress, Known, FrameState, InFrame
<1>5. UpToDate'
  BY <1>1, <1>2, <1>3 DEF IInv, Progress, Known, UpToDate, NothingFor, FrameState, InFrame, storage
<1> HIDE DEF f
<1>6. QED
  BY <1>1, <1>2, <1>3, <1>4, <1>5, FrameWorks

\* A failed read is tried again.
LEMMA RetryOK ==
  ASSUME IInv, Retry
  PROVE  IInv'
<1> DEFINE f == [frame EXCEPT !.phase = IF frame.top THEN "read" ELSE "query"]
<1>1. frame.phase = "retry" /\ InFrame(f)
  BY DEF Retry
<1>2. frame \in FrameState /\ frame # NoFrame
  BY <1>1, NoFrameFields DEF IInv, TypeOK
<1>3. /\ f \in FrameState /\ f.top = frame.top
      /\ Own(f)
      /\ f.top => f.origin = frame.origin
  BY <1>1, <1>2 DEF IInv, Progress, FrameState, Own, OwnSite
<1>4. Progress'
  BY <1>1, <1>2, <1>3 DEF IInv, Progress, FrameState, InFrame
<1>5. UpToDate'
  BY <1>1, <1>2, <1>3 DEF IInv, Progress, UpToDate, NothingFor, FrameState, InFrame, storage
<1> HIDE DEF f
<1>6. QED
  BY <1>1, <1>2, <1>3, <1>4, <1>5, FrameWorks

\* The content script is cleaned up.
LEMMA CleanupOK ==
  ASSUME IInv, Cleanup
  PROVE  IInv'
<1> DEFINE f == [frame EXCEPT !.cleanedUp = TRUE, !.listening = FALSE,
                  !.phase = IF frame.phase = "retry" THEN "ended" ELSE frame.phase]
<1>1. ~frame.cleanedUp /\ InFrame(f)
  BY DEF Cleanup
<1>2. frame \in FrameState /\ frame # NoFrame
  BY <1>1, NoFrameFields DEF IInv, TypeOK
<1>3. /\ f \in FrameState /\ f.top = frame.top
      /\ Own(f)
      /\ f.top => f.origin = frame.origin
  BY <1>1, <1>2 DEF IInv, Progress, FrameState, Own, OwnSite
<1>4. Progress'
  BY <1>1, <1>2, <1>3 DEF IInv, Progress, FrameState, InFrame
<1>5. UpToDate'
  BY <1>1, <1>2, <1>3 DEF IInv, Progress, UpToDate, NothingFor, FrameState, InFrame, storage
<1> HIDE DEF f
<1>6. QED
  BY <1>1, <1>2, <1>3, <1>4, <1>5, FrameWorks

-----------------------------------------------------------------------------
(* Changes of what is stored                                               *)

\* Taking the first change from those on their way
LEMMA ChangeTaken ==
  ASSUME NEW s \in Seq(Change), s # <<>>
  PROVE  /\ Head(s) \in Change /\ Tail(s) \in Seq(Change)
         /\ Len(s) \in Nat \ {0} /\ Len(Tail(s)) = Len(s) - 1
         /\ Head(s) = s[1]
         /\ \A i \in 1..Len(Tail(s)) : Tail(s)[i] = s[i + 1]
<1>1. Len(s) \in Nat \ {0}
  BY EmptySeq
<1>2. Head(s) \in Change /\ Tail(s) \in Seq(Change) /\ Len(Tail(s)) = Len(s) - 1
  BY HeadTailProperties
<1>3. Head(s) = s[1] /\ \A i \in 1..Len(Tail(s)) : Tail(s)[i] = s[i + 1]
  BY <1>1, <1>2
<1>4. QED
  BY <1>1, <1>2, <1>3

\* The frame hears of a change.
LEMMA ReceiveChangeOK ==
  ASSUME IInv, ReceiveChange
  PROVE  IInv'
<1> DEFINE n == Len(news)
           last == Head(news)
           missed == frame.phase = "value" /\ last.origin = frame.origin /\ last.off # frame.value
           f == [frame EXCEPT
                   !.siteDisabled = IF Heeds(last) THEN last.off ELSE frame.siteDisabled,
                   !.missed = frame.missed \/ missed]
<1>1. /\ news # <<>> /\ news' = Tail(news) /\ frame' = f
      /\ UNCHANGED <<storage, tabs, worker, card>>
  BY DEF ReceiveChange
<1>2. /\ last \in Change /\ news' \in Seq(Change)
      /\ n \in Nat \ {0} /\ Len(news') = n - 1 /\ last = news[1]
      /\ \A i \in 1..Len(news') : news'[i] = news[i + 1]
  BY <1>1, ChangeTaken DEF IInv, TypeOK, StorageOK
<1>3. frame \in FrameState /\ frame # NoFrame
  BY <1>1 DEF IInv, TypeOK, NobodyListens
<1>4. /\ frame' \in FrameState
      /\ frame'.top = frame.top /\ frame'.phase = frame.phase /\ frame'.origin = frame.origin
      /\ frame'.value = frame.value /\ frame'.siteState = frame.siteState
      /\ frame'.listening = frame.listening /\ frame'.cleanedUp = frame.cleanedUp
      /\ frame'.missed = (frame.missed \/ missed) /\ frame'.early = frame.early
      /\ frame'.siteDisabled = IF Heeds(last) THEN last.off ELSE frame.siteDisabled
  <2>1. last.off \in BOOLEAN /\ Heeds(last) \in BOOLEAN
    BY <1>2, <1>3 DEF Change, Heeds, FrameState
  <2>2. QED
    BY <1>1, <1>3, <2>1 DEF FrameState
<1> HIDE DEF f
<1>5. frame' # NoFrame
  BY <1>3, <1>4, NoFrameFields DEF IInv, Progress
<1>6. TypeOK'
  BY <1>1, <1>2, <1>4 DEF IInv, TypeOK, StorageOK, TabOK, CardOK, storage, tabs, worker, card
<1>7. OwnSite' /\ RecordIsPresent' /\ NobodyListens'
  BY <1>1, <1>4, <1>5 DEF IInv, OwnSite, RecordIsPresent, NobodyListens, tabs, worker
<1>8. Progress'
  BY <1>3, <1>4, <1>5 DEF IInv, Progress
<1>9. LastChangeStands'
  <2> SUFFICES ASSUME NEW i \in 1..Len(news'),
                      \A j \in 1..Len(news') : news'[j].origin = news'[i].origin => j <= i
               PROVE  news'[i].off = stored[news'[i].origin]
    BY <1>1 DEF LastChangeStands, storage
  <2>1. i + 1 \in 1..n /\ news'[i] = news[i + 1]
    BY <1>2
  <2>2. ASSUME NEW j \in 1..n, news[j].origin = news[i + 1].origin
        PROVE  j <= i + 1
    <3>1. CASE j = 1
      BY <3>1
    <3>2. CASE j # 1
      <4>1. j - 1 \in 1..Len(news') /\ news'[j - 1] = news[j]
        BY <1>2, <3>2
      <4>2. QED
        BY <2>1, <2>2, <4>1
    <3>3. QED
      BY <3>1, <3>2
  <2>3. QED
    BY <2>1, <2>2 DEF IInv, LastChangeStands
<1>10. UpToDate'
  <2> SUFFICES ASSUME NothingFor(frame.origin)', ~frame'.missed
               PROVE  /\ frame.phase = "value" => frame.value = stored[frame.origin]
                      /\ frame.siteState = "known" /\ ~frame.cleanedUp
                         => frame'.siteDisabled = stored[frame.origin]
    BY <1>1, <1>4 DEF UpToDate, storage
  <2>1. ASSUME NEW j \in 1..n, j # 1
        PROVE  news[j].origin # frame.origin
    <3>1. j - 1 \in 1..Len(news') /\ news'[j - 1] = news[j]
      BY <1>2, <2>1
    <3>2. QED
      BY <1>4, <3>1 DEF NothingFor
  <2>2. CASE last.origin = frame.origin
    <3>1. last.off = stored[frame.origin]
      <4>1. 1 \in 1..n /\ \A j \in 1..n : news[j].origin = news[1].origin => j <= 1
        BY <1>2, <2>1, <2>2
      <4>2. QED
        BY <1>2, <2>2, <4>1 DEF IInv, LastChangeStands
    <3>2. QED
      BY <1>3, <1>4, <2>2, <3>1 DEF IInv, Progress, Heeds
  <2>3. CASE last.origin # frame.origin
    <3>1. NothingFor(frame.origin)
      BY <1>2, <2>1, <2>3 DEF NothingFor
    <3>2. QED
      BY <1>4, <2>3, <3>1 DEF IInv, UpToDate, Heeds
  <2>4. QED
    BY <2>2, <2>3
<1>11. QED
  BY <1>6, <1>7, <1>8, <1>9, <1>10 DEF IInv

\* What is written is the last change on its way, and nobody is up to date
\* before it has arrived.
LEMMA StoreKeeps ==
  ASSUME IInv, NEW o \in Origins, NEW off \in BOOLEAN,
         Store(o, off), UNCHANGED <<tabs, worker, frame>>
  PROVE  /\ stored' \in [Origins -> BOOLEAN] /\ news' \in Seq(Change)
         /\ popupNews' \in Seq(Change)
         /\ OwnSite' /\ RecordIsPresent' /\ Progress'
         /\ LastChangeStands' /\ UpToDate' /\ NobodyListens'
<1> DEFINE change == [origin |-> o, off |-> off]
           n == Len(news)
<1>1. /\ stored' = [stored EXCEPT ![o] = off] /\ stored \in [Origins -> BOOLEAN]
      /\ news \in Seq(Change) /\ popupNews \in Seq(Change) /\ change \in Change
      /\ n \in Nat
  BY DEF Store, IInv, TypeOK, StorageOK, CardOK, Change
<1>2. stored' \in [Origins -> BOOLEAN] /\ news' \in Seq(Change) /\ popupNews' \in Seq(Change)
  <2>1. Append(news, change) \in Seq(Change) /\ Append(popupNews, change) \in Seq(Change)
    BY <1>1
  <2>2. /\ news' \in {news, Append(news, change)}
        /\ popupNews' \in {popupNews, Append(popupNews, change)}
    BY DEF Store
  <2>3. QED
    BY <1>1, <2>1, <2>2
<1>3. OwnSite' /\ RecordIsPresent' /\ Progress'
  <2>1. OwnSite'
    BY DEF IInv, OwnSite, tabs, worker
  <2>2. RecordIsPresent'
    BY DEF IInv, RecordIsPresent, tabs, worker
  <2>3. Progress'
    BY DEF IInv, Progress
  <2>4. QED
    BY <2>1, <2>2, <2>3
<1>4. NobodyListens'
  BY DEF Store, IInv, NobodyListens
<1>5. CASE stored' = stored /\ news' = news
  BY <1>3, <1>4, <1>2, <1>5 DEF IInv, LastChangeStands, UpToDate, NothingFor
<1>6. CASE stored[o] # off /\ frame = NoFrame
  <2>1. news = <<>> /\ news' = <<>>
    BY <1>6 DEF Store, IInv, NobodyListens
  <2>2. LastChangeStands' /\ UpToDate'
    BY <2>1, <1>6, NoFrameFields DEF LastChangeStands, UpToDate
  <2>3. QED
    BY <1>2, <1>3, <1>4, <2>2
<1>7. CASE stored[o] # off /\ frame # NoFrame
  <2>1. news' = Append(news, change)
    BY <1>7 DEF Store
  <2>2. /\ Len(news') = n + 1 /\ news'[n + 1] = change
        /\ \A i \in 1..n : news'[i] = news[i]
    BY <1>1, <2>1
  <2>3. LastChangeStands'
    <3> SUFFICES ASSUME NEW i \in 1..Len(news'),
                        \A j \in 1..Len(news') : news'[j].origin = news'[i].origin => j <= i
                 PROVE  news'[i].off = stored'[news'[i].origin]
      BY DEF LastChangeStands
    <3>1. CASE i = n + 1
      BY <1>1, <2>2, <3>1
    <3>2. CASE i \in 1..n
      <4>1. news'[i] = news[i] /\ news[i] \in Change
        BY <1>1, <2>2, <3>2
      <4>2. news[i].origin # o
        BY <1>1, <2>2, <3>2, <4>1
      <4>3. \A j \in 1..n : news[j].origin = news[i].origin => j <= i
        BY <1>1, <2>2, <4>1
      <4>4. news[i].off = stored[news[i].origin]
        BY <3>2, <4>3 DEF IInv, LastChangeStands
      <4>5. QED
        BY <1>1, <4>1, <4>2, <4>4 DEF Change
    <3>3. QED
      BY <1>1, <2>2, <3>1, <3>2
  <2>4. UpToDate'
    <3> SUFFICES ASSUME NothingFor(frame.origin)', ~frame.missed
                 PROVE  UpToDate'
      BY DEF UpToDate
    <3>1. frame.origin # o
      BY <1>1, <2>2 DEF NothingFor
    <3>2. NothingFor(frame.origin)
      BY <1>1, <2>2 DEF NothingFor
    <3>3. QED
      BY <1>1, <3>1, <3>2 DEF IInv, UpToDate, Progress
  <2>5. QED
    BY <1>2, <1>3, <1>4, <2>3, <2>4
<1>8. stored[o] = off => stored' = stored /\ news' = news
  <2> SUFFICES ASSUME stored[o] = off
               PROVE  [stored EXCEPT ![o] = off] = stored /\ news' = news
    BY <1>1
  <2>1. news' = news
    BY DEF Store
  <2>2. [stored EXCEPT ![o] = off] = stored
    BY <1>1
  <2>3. QED
    BY <2>1, <2>2
<1>9. QED
  BY <1>5, <1>6, <1>7, <1>8

\* Another computer changes an entry.
LEMMA ChangedElsewhereOK ==
  ASSUME IInv, ChangedElsewhere
  PROVE  IInv'
<1>1. PICK origin \in Origins : Store(origin, ~stored[origin])
  BY DEF ChangedElsewhere
<1>2. (~stored[origin]) \in BOOLEAN /\ changes' \in Nat /\ UNCHANGED <<tabs, worker, frame, popup, job>>
  <2>1. (~stored[origin]) \in BOOLEAN
    OBVIOUS
  <2>2. changes' \in Nat /\ UNCHANGED <<tabs, worker, frame, popup, job>>
    BY DEF ChangedElsewhere, IInv, TypeOK, StorageOK
  <2>3. QED
    BY <2>1, <2>2
<1>3. /\ stored' \in [Origins -> BOOLEAN] /\ news' \in Seq(Change) /\ popupNews' \in Seq(Change)
      /\ OwnSite' /\ RecordIsPresent' /\ Progress'
      /\ LastChangeStands' /\ UpToDate' /\ NobodyListens'
  BY <1>1, <1>2, StoreKeeps
<1>4. QED
  BY <1>2, <1>3 DEF IInv, TypeOK, StorageOK, TabOK, CardOK, tabs, worker

\* The worker writes the entry for the popup.
LEMMA WorkerWritesOK ==
  ASSUME IInv, NEW i \in Presses, WorkerWrites(i)
  PROVE  IInv'
<1>1. PICK result \in {"ok", "refused"} :
         /\ \/ Store(popup.origin, job[i].off)
            \/ result = "refused" /\ UNCHANGED <<stored, news, popupNews>>
         /\ job' = [j \in Presses |-> IF j <= i /\ job[j].stage = "checked"
                                      THEN [job[j] EXCEPT !.stage = result] ELSE job[j]]
  BY DEF WorkerWrites
<1>2. job[i].stage = "checked" /\ UNCHANGED <<changes, tabs, worker, frame, popup>>
  BY DEF WorkerWrites
<1>3. /\ popup.origin \in Origins /\ job[i].off \in BOOLEAN
      /\ popup \in Card /\ job \in [Presses -> Job]
  BY <1>2 DEF IInv, TypeOK, CardOK, Job
<1>4. job' \in [Presses -> Job]
  <2>1. \A j \in Presses : [job[j] EXCEPT !.stage = result] \in Job
    BY <1>3 DEF Job
  <2>2. QED
    BY <1>1, <1>3, <2>1
<1>5. /\ stored' \in [Origins -> BOOLEAN] /\ news' \in Seq(Change) /\ popupNews' \in Seq(Change)
      /\ OwnSite' /\ RecordIsPresent' /\ Progress'
      /\ LastChangeStands' /\ UpToDate' /\ NobodyListens'
  <2>1. CASE Store(popup.origin, job[i].off)
    BY <1>2, <1>3, <2>1, StoreKeeps
  <2>2. CASE UNCHANGED <<stored, news, popupNews>>
    BY <1>2, <2>2 DEF IInv, TypeOK, StorageOK, CardOK, OwnSite, RecordIsPresent, Progress,
                      LastChangeStands, UpToDate, NothingFor, NobodyListens, tabs, worker
  <2>3. QED
    BY <1>1, <2>1, <2>2
<1>6. TypeOK'
  BY <1>2, <1>3, <1>4, <1>5 DEF IInv, TypeOK, StorageOK, TabOK, CardOK, tabs, worker
<1>7. QED
  BY <1>5, <1>6 DEF IInv

-----------------------------------------------------------------------------
(* Steps that leave the frame and its site alone *)

\* A step that leaves storage, the frame and what is on its way alone.
LEMMA Undisturbed ==
  ASSUME IInv, UNCHANGED <<stored, changes, tab, frame, news, overheard>>,
         TabOK', RecordIsPresent', CardOK'
  PROVE  IInv'
BY DEF IInv, TypeOK, StorageOK, OwnSite, Progress, LastChangeStands, UpToDate,
       NothingFor, NobodyListens

\* The tab navigates, or the worker learns or forgets its site.
LEMMA TabStepOK ==
  ASSUME IInv, TopSpeaks \/ StartsLoading \/ WorkerRestarts
  PROVE  IInv'
<1>1. UNCHANGED <<stored, changes, tab, frame, news, overheard>>
  BY DEF TopSpeaks, StartsLoading, WorkerRestarts, storage, tabs, content
<1>2. TabOK'
  <2>1. tab' = tab /\ tab.origin \in Origins /\ tab \in Documents
    BY <1>1 DEF IInv, TypeOK, TabOK, Documents
  <2>2. /\ loading' \in BOOLEAN /\ unheard' \in BOOLEAN
        /\ topDocOrigin' \in {topDocOrigin, NoOrigin, tab.origin}
    BY <2>1 DEF Documents, IInv, TypeOK, TabOK, TopSpeaks, StartsLoading, WorkerRestarts, tabs
  <2>3. QED
    BY <1>1, <2>1, <2>2 DEF IInv, TypeOK, TabOK
<1>3. RecordIsPresent'
  BY DEF IInv, RecordIsPresent, TopSpeaks, StartsLoading, WorkerRestarts, tabs
<1>4. CardOK'
  <2>1. CASE UNCHANGED card
    BY <2>1 DEF IInv, TypeOK, CardOK, card
  <2>2. CASE WorkerRestarts
    <3>1. popup' = popup /\ popupNews' = popupNews /\ job \in [Presses -> Job]
      BY <2>2 DEF WorkerRestarts, IInv, TypeOK, CardOK
    <3>2. \A i \in Presses : [job[i] EXCEPT !.stage = "refused"] \in Job
      BY <3>1 DEF Job
    <3>3. job' \in [Presses -> Job] /\ \A i \in Presses : job'[i].stage # "none" => job[i].stage # "none"
      BY <2>2, <3>1, <3>2 DEF WorkerRestarts, Job
    <3>4. QED
      BY <3>1, <3>3 DEF IInv, TypeOK, CardOK
  <2>3. QED
    BY <2>1, <2>2 DEF TopSpeaks, StartsLoading
<1>5. QED
  BY <1>1, <1>2, <1>3, <1>4, Undisturbed

\* A new document: what the worker has of the tab, if anything, it has from the
\* outgoing one, and uses it only where neither has an address.
LEMMA CommitsOK ==
  ASSUME IInv, Commits
  PROVE  IInv'
<1>1. /\ loading /\ ~loading' /\ loading' \in BOOLEAN
      /\ tab' \in Documents /\ frame' \in Frames(tab'.origin)
      /\ unheard' = tab'.about
      /\ overheard' = IF tab.about /\ tab'.about THEN topDocOrigin ELSE NoOrigin
      /\ news' = <<>> /\ UNCHANGED <<storage, topDocOrigin, restarts, card>>
  BY DEF Commits
<1>2. tab'.origin \in Origins /\ tab'.about \in BOOLEAN
  BY <1>1 DEF Documents
<1>3. /\ frame' \in FrameState
      /\ frame'.origin \in {NoOrigin, tab'.origin}
      /\ frame'.phase # "value" /\ frame'.siteState = "pending" /\ ~frame'.listening
      /\ frame'.phase = "read" => frame'.origin = tab'.origin
      /\ frame'.top => frame'.phase \notin {"query", "answer"}
      /\ frame'.top /\ frame' # NoFrame => frame'.origin = tab'.origin
  BY <1>1, <1>2, FreshFrames
<1>4. TypeOK'
  BY <1>1, <1>2, <1>3 DEF IInv, TypeOK, StorageOK, TabOK, CardOK, storage, card
<1>5. RecordIsPresent'
  BY <1>1 DEF IInv, RecordIsPresent
<1>6. OwnSite' /\ Progress' /\ UpToDate' /\ NobodyListens'
  BY <1>1, <1>2, <1>3 DEF OwnSite, Progress, UpToDate, NobodyListens
<1>7. LastChangeStands'
  BY <1>1 DEF LastChangeStands
<1>8. QED
  BY <1>4, <1>5, <1>6, <1>7 DEF IInv

\* What the popup and the worker do with the card, but for the write.
CardStep == \/ OpenPopup \/ ServeCardRead \/ CardReadEnds \/ CardReadFails
            \/ CardHears \/ PressCard
            \/ \E i \in Presses : CardAnswered(i) \/ CardTimesOut(i) \/ WorkerChecks(i)

CardType == popup \in Card /\ job \in [Presses -> Job] /\ popupNews \in Seq(Change)

\* A step of the card that leaves the page and the storage area alone.
LEMMA CardKeepsType ==
  ASSUME CardType, TabOK, CardStep
  PROVE  CardType'
<1> DEFINE Answer == {"asked", "on", "off"}
<1>1. popup \in Card /\ popup.reads \in Seq(Answer) /\ job \in [Presses -> Job] /\ popupNews \in Seq(Change)
  BY DEF CardType, Card
<1>2. CASE OpenPopup
  <2>1. NoPopup \in Card
    BY DEF NoPopup, Card
  <2>2. <<"asked">> \in Seq(Answer) /\ tab.origin \in Origins
    BY DEF TabOK, Documents
  <2>3. [NoPopup EXCEPT !.origin = tab.origin, !.reads = <<"asked">>] \in Card
    BY <2>1, <2>2 DEF Card
  <2>4. QED
    BY <1>1, <1>2, <2>3 DEF OpenPopup, InPopup, CardType
<1>3. CASE ServeCardRead
  <2>1. PICK i \in DOMAIN popup.reads :
           InPopup([popup EXCEPT !.reads[i] = IF stored[popup.origin] THEN "off" ELSE "on"])
    BY <1>3 DEF ServeCardRead
  <2>2. [popup.reads EXCEPT ![i] = IF stored[popup.origin] THEN "off" ELSE "on"] \in Seq(Answer)
    BY <1>1
  <2>3. QED
    BY <1>1, <2>1, <2>2 DEF InPopup, CardType, Card
<1>4. CASE CardReadEnds
  <2>1. Tail(popup.reads) \in Seq(Answer)
    BY <1>1, <1>4, HeadTailProperties DEF CardReadEnds
  <2>2. (Head(popup.reads) = "on") \in BOOLEAN /\ (popup.untold /\ ~popup.listening) \in BOOLEAN
    BY <1>1 DEF Card
  <2>3. QED
    BY <1>1, <1>4, <2>1, <2>2 DEF CardReadEnds, InPopup, CardType, Card
<1>5. CASE CardReadFails
  <2>1. Tail(popup.reads) \in Seq(Answer)
    BY <1>1, <1>5, HeadTailProperties DEF CardReadFails
  <2>2. QED
    BY <1>1, <1>5, <2>1 DEF CardReadFails, InPopup, CardType, Card
<1>6. CASE CardHears
  <2>1. popupNews' \in Seq(Change) /\ job' = job
    BY <1>1, <1>6, HeadTailProperties DEF CardHears
  <2>2. Append(popup.reads, "asked") \in Seq(Answer)
    BY <1>1
  <2>3. /\ [popup EXCEPT !.reads = Append(popup.reads, "asked")] \in Card
        /\ [popup EXCEPT !.untold = TRUE] \in Card
    BY <1>1, <2>2 DEF Card
  <2>4. popup' \in Card
    BY <1>1, <1>6, <2>3 DEF CardHears
  <2>5. QED
    BY <2>1, <2>4 DEF CardType
<1>7. CASE PressCard
  <2> DEFINE n == popup.pressed + 1
  <2>1. /\ popup' = [popup EXCEPT !.pressed = n, !.on = ~popup.on]
        /\ job' = [job EXCEPT ![n] = [stage |-> "sent", off |-> popup.on,
                                      previous |-> popup.on, waiting |-> TRUE]]
        /\ popupNews' = popupNews /\ n \in Presses
    BY <1>7 DEF PressCard
  <2>2. popup.on \in BOOLEAN /\ (~popup.on) \in BOOLEAN /\ n \in Nat
    <3>1. popup.on \in BOOLEAN /\ popup.pressed \in Nat
      BY <1>1 DEF Card
    <3>2. (~popup.on) \in BOOLEAN
      OBVIOUS
    <3>3. QED
      BY <3>1, <3>2
  <2> HIDE DEF n
  <2>3. popup' \in Card
    BY <1>1, <2>1, <2>2 DEF Card
  <2>4. [stage |-> "sent", off |-> popup.on, previous |-> popup.on, waiting |-> TRUE] \in Job
    BY <2>2 DEF Job
  <2>5. job' \in [Presses -> Job]
    BY <1>1, <2>1, <2>4
  <2>6. QED
    BY <1>1, <2>1, <2>3, <2>5 DEF CardType
<1>8. ASSUME NEW i \in Presses, CardAnswered(i) \/ CardTimesOut(i) \/ WorkerChecks(i)
      PROVE  CardType'
  <2>1. /\ [job[i] EXCEPT !.waiting = FALSE] \in Job
        /\ \A s \in {"checked", "refused"} : [job[i] EXCEPT !.stage = s] \in Job
        /\ job[i].previous \in BOOLEAN
    BY <1>1 DEF Job
  <2>2. TakenBack(i) \in Card
    BY <1>1, <2>1 DEF TakenBack, Card
  <2>3. CASE CardAnswered(i) \/ CardTimesOut(i)
    <3>1. job' = [job EXCEPT ![i] = [job[i] EXCEPT !.waiting = FALSE]]
      BY <2>3 DEF CardAnswered, CardTimesOut, Settle
    <3>2. popup' \in {popup, TakenBack(i)} /\ popupNews' = popupNews
      BY <2>3 DEF CardAnswered, CardTimesOut
    <3>3. QED
      BY <1>1, <2>1, <2>2, <3>1, <3>2 DEF CardType
  <2>4. CASE WorkerChecks(i)
    <3>1. popup' = popup /\ popupNews' = popupNews
      BY <2>4 DEF WorkerChecks
    <3>2. PICK s \in {"checked", "refused"} : job' = [job EXCEPT ![i] = [job[i] EXCEPT !.stage = s]]
      BY <2>4 DEF WorkerChecks
    <3>3. QED
      BY <1>1, <2>1, <3>1, <3>2 DEF CardType
  <2>5. QED
    BY <1>8, <2>3, <2>4
<1>9. QED
  BY <1>2, <1>3, <1>4, <1>5, <1>6, <1>7, <1>8 DEF CardStep

\* Every step of the popup's card.
LEMMA CardStepOK ==
  ASSUME IInv, CardStep
  PROVE  IInv'
<1>1. /\ UNCHANGED <<stored, changes, tab, frame, news, overheard>>
      /\ UNCHANGED <<loading, topDocOrigin, unheard>>
  BY DEF CardStep, OpenPopup, ServeCardRead, CardReadEnds, CardReadFails, CardHears, PressCard,
         CardAnswered, CardTimesOut, WorkerChecks, InPopup, storage, tabs, worker, content
<1>2. TabOK' /\ RecordIsPresent'
  BY <1>1 DEF IInv, TypeOK, TabOK, RecordIsPresent
<1>3. CardType'
  BY CardKeepsType DEF IInv, TypeOK, CardOK, CardType
<1>4. CardType /\ TabOK /\ \A i \in Presses : job[i].stage # "none" => popup.origin \in Origins
  BY DEF IInv, TypeOK, CardOK, CardType
<1>5. popup.origin \in Origins => popup'.origin \in Origins
  BY <1>4 DEF CardStep, OpenPopup, ServeCardRead, CardReadEnds, CardReadFails, CardHears, PressCard,
              CardAnswered, CardTimesOut, WorkerChecks, InPopup, TakenBack, CardType, Card
<1>6. \A j \in Presses : job'[j].stage # "none" => job[j].stage # "none" \/ popup.origin \in Origins
  <2>1. CASE job' = job
    BY <2>1
  <2>2. CASE PressCard
    BY <1>4, <2>2 DEF PressCard, CardType, Card
  <2>3. ASSUME NEW i \in Presses, CardAnswered(i) \/ CardTimesOut(i)
        PROVE  \A j \in Presses : job'[j].stage = job[j].stage
    <3>1. job' = [job EXCEPT ![i] = [job[i] EXCEPT !.waiting = FALSE]]
      BY <2>3 DEF CardAnswered, CardTimesOut, Settle
    <3>2. QED
      BY <1>4, <3>1 DEF CardType, Job
  <2>4. ASSUME NEW i \in Presses, WorkerChecks(i)
        PROVE  job[i].stage = "sent" /\ \A j \in Presses : j # i => job'[j] = job[j]
    BY <1>4, <2>4 DEF WorkerChecks, CardType
  <2>5. QED
    BY <2>1, <2>2, <2>3, <2>4 DEF CardStep, OpenPopup, ServeCardRead, CardReadEnds, CardReadFails,
       CardHears, InPopup
<1>7. CardOK'
  BY <1>3, <1>4, <1>5, <1>6 DEF CardOK, CardType
<1>8. QED
  BY <1>1, <1>2, <1>7, Undisturbed

-----------------------------------------------------------------------------
(* Induction *)

\* The invariant holds at first ...
LEMMA InitOK == Init => IInv
<1> SUFFICES ASSUME Init PROVE IInv
  OBVIOUS
<1>1. tab.origin \in Origins /\ tab \in Documents /\ tab.about \in BOOLEAN
  BY DEF Init, Documents
<1>2. /\ frame \in FrameState
      /\ frame.origin \in {NoOrigin, tab.origin}
      /\ frame.phase # "value" /\ frame.siteState = "pending" /\ ~frame.listening
      /\ frame.phase = "read" => frame.origin = tab.origin
      /\ frame.top => frame.phase \notin {"query", "answer"}
      /\ frame.top /\ frame # NoFrame => frame.origin = tab.origin
  BY <1>1, FreshFrames DEF Init
<1>3. popup \in Card /\ popupNews \in Seq(Change)
  BY DEF Init, NoPopup, Card
<1>4. job \in [Presses -> Job] /\ \A i \in Presses : job[i].stage = "none"
  BY DEF Init, NoJob, Job
<1>5. TypeOK
  BY <1>1, <1>2, <1>3, <1>4 DEF Init, TypeOK, StorageOK, TabOK, CardOK
<1>6. OwnSite /\ Progress /\ UpToDate
  BY <1>1, <1>2 DEF OwnSite, Progress, UpToDate
<1>7. RecordIsPresent /\ LastChangeStands /\ NobodyListens
  BY DEF Init, RecordIsPresent, LastChangeStands, NobodyListens
<1>8. QED
  BY <1>5, <1>6, <1>7 DEF IInv

\* ... is kept by every step ...
LEMMA NextOK == IInv /\ [Next]_vars => IInv'
<1> SUFFICES ASSUME IInv, [Next]_vars PROVE IInv'
  OBVIOUS
<1>1. CASE ChangedElsewhere
  BY <1>1, ChangedElsewhereOK
<1>2. CASE TopSpeaks \/ StartsLoading \/ WorkerRestarts
  BY <1>2, TabStepOK
<1>3. CASE Commits
  BY <1>3, CommitsOK
<1>4. CASE Reading
  BY <1>4, QueryAnsweredOK, QueryLostOK, ReceiveAnswerOK, ServeReadOK, ReadFailsOK,
     ReadEndsOK, RetryOK, CleanupOK, ReceiveChangeOK DEF Reading
<1>5. CASE SwitchingSite
  <2>1. CASE CardStep
    BY <2>1, CardStepOK
  <2>2. CASE \E i \in Presses : WorkerWrites(i)
    BY <2>2, WorkerWritesOK
  <2>3. QED
    BY <1>5, <2>1, <2>2 DEF SwitchingSite, CardStep
<1>6. CASE UNCHANGED vars
  BY <1>6, Undisturbed DEF vars, storage, tabs, worker, content, card,
     IInv, TypeOK, TabOK, CardOK, RecordIsPresent
<1>7. QED
  BY <1>1, <1>2, <1>3, <1>4, <1>5, <1>6 DEF Next

\* ... and so always holds.
LEMMA Inductive == Spec => []IInv
BY InitOK, NextOK, PTL DEF Spec

-----------------------------------------------------------------------------
(* The card.  It is drawn by its own presses and by what it reads, one     *)
(* read behind the other; every change of the site it hears of makes it    *)
(* read once more.                                                         *)

NoneFor(origin) == \A i \in 1..Len(popupNews) : popupNews[i].origin # origin

\* The card listens and reads once it has a site; before it listens there is its
\* first read at most.  Presses are numbered.
CardReads ==
    /\ popup.origin = NoOrigin => ~popup.listening /\ popup.reads = <<>>
    /\ ~popup.listening => Len(popup.reads) <= 1
    /\ \A i \in Presses : i > popup.pressed => job[i].stage = "none"

\* With no change of the site on its way the last read says what is stored, unless
\* a change came before the listener.
LastRead ==
    /\ NoneFor(popup.origin) /\ popup.reads # <<>> /\ popup.reads[Len(popup.reads)] # "asked"
    /\ popup.listening \/ ~popup.untold
    => popup.reads[Len(popup.reads)] = IF stored[popup.origin] THEN "off" ELSE "on"

\* A card that listens and has read everything differs from what is stored for its
\* newest press only, while that one waits and has not been written.
CardWaits ==
    /\ NoneFor(popup.origin) /\ popup.reads = <<>>
    /\ popup.listening /\ ~popup.untold /\ popup.on # ~stored[popup.origin]
    => /\ popup.pressed \in Presses
       /\ job[popup.pressed].waiting /\ popup.on = ~job[popup.pressed].off
       /\ job[popup.pressed].stage \in {"sent", "checked", "refused"}

CardInv == CardReads /\ LastRead /\ CardWaits

CardFields == /\ popup.origin \in Origins \cup {NoOrigin} /\ popup.on \in BOOLEAN
              /\ popup.reads \in Seq({"asked", "on", "off"}) /\ popup.listening \in BOOLEAN
              /\ popup.untold \in BOOLEAN /\ popup.pressed \in Nat
              /\ stored \in [Origins -> BOOLEAN] /\ job \in [Presses -> Job]
              /\ popupNews \in Seq(Change) /\ popup \in Card

\* What the other invariant says of the card's fields.
LEMMA FieldsTyped ==
  ASSUME IInv PROVE CardFields
BY DEF IInv, TypeOK, StorageOK, CardOK, Card, CardFields

\* Steps that concern neither storage nor card.
LEMMA CardLeft ==
  ASSUME CardInv, UNCHANGED <<stored, popup, popupNews, job>>
  PROVE  CardInv'
BY DEF CardInv, CardReads, LastRead, CardWaits, NoneFor

\* A change of the card's site is on its way to it, once it has a site.
LEMMA StoreTells ==
  ASSUME CardFields, NEW o \in Origins, NEW off \in BOOLEAN, Store(o, off),
         popup.origin \in Origins, NoneFor(popup.origin)', popup' = popup
  PROVE  /\ NoneFor(popup.origin) /\ stored'[popup.origin] = stored[popup.origin]
         /\ o = popup.origin => stored[o] = off
<1> DEFINE change == [origin |-> o, off |-> off]
<1>1. /\ stored' = [stored EXCEPT ![o] = off] /\ stored \in [Origins -> BOOLEAN]
      /\ popupNews \in Seq(Change) /\ change \in Change /\ change.origin = o
      /\ popup.origin # NoOrigin
  BY DEF CardFields, Store, Change
<1>2. popupNews' = IF stored[o] = off THEN popupNews ELSE Append(popupNews, change)
  BY <1>1 DEF Store
<1> HIDE DEF change
<1>3. CASE stored[o] = off
  <2>1. stored'[popup.origin] = stored[popup.origin]
    BY <1>1, <1>3
  <2>2. NoneFor(popup.origin)
    BY <1>2, <1>3 DEF NoneFor
  <2>3. QED
    BY <2>1, <2>2, <1>3
<1>4. CASE stored[o] # off
  <2>1. /\ Len(popupNews) \in Nat /\ Len(popupNews') = Len(popupNews) + 1
        /\ popupNews'[Len(popupNews) + 1] = change
        /\ \A i \in 1..Len(popupNews) : popupNews'[i] = popupNews[i]
    BY <1>1, <1>2, <1>4
  <2>2. Len(popupNews) + 1 \in 1..Len(popupNews')
    BY <2>1
  <2>3. o # popup.origin
    BY <1>1, <2>1, <2>2 DEF NoneFor
  <2>4. NoneFor(popup.origin)
    BY <2>1 DEF NoneFor
  <2>5. QED
    BY <1>1, <2>3, <2>4
<1>5. QED
  BY <1>3, <1>4

\* An entry is changed elsewhere.
LEMMA CardElsewhere ==
  ASSUME CardFields, CardInv, NEW o \in Origins, NEW off \in BOOLEAN, Store(o, off),
         UNCHANGED <<popup, job>>
  PROVE  CardInv'
<1>1. CASE popup.origin = NoOrigin
  <2>1. popup.reads = <<>> /\ ~popup.listening
    BY <1>1 DEF CardInv, CardReads
  <2>2. QED
    BY <2>1 DEF CardInv, CardReads, LastRead, CardWaits
<1>2. CASE popup.origin \in Origins
  <2>1. NoneFor(popup.origin)' =>
           NoneFor(popup.origin) /\ stored'[popup.origin] = stored[popup.origin]
    BY <1>2, StoreTells
  <2>2. CardReads'
    BY DEF CardInv, CardReads
  <2>3. LastRead'
    BY <2>1 DEF CardInv, LastRead, NoneFor
  <2>4. CardWaits'
    BY <2>1 DEF CardInv, CardWaits, NoneFor
  <2>5. QED
    BY <2>2, <2>3, <2>4 DEF CardInv
<1>3. QED
  BY <1>1, <1>2 DEF CardFields

\* The worker writes a press: what was stored already needs no telling, and what
\* was not is told.
LEMMA CardWritten ==
  ASSUME IInv, CardInv, NEW i \in Presses, WorkerWrites(i)
  PROVE  CardInv'
<1>0. CardFields
  BY FieldsTyped
<1>1. PICK result \in {"ok", "refused"} :
         /\ \/ Store(popup.origin, job[i].off)
            \/ result = "refused" /\ UNCHANGED <<stored, news, popupNews>>
         /\ job' = [j \in Presses |-> IF j <= i /\ job[j].stage = "checked"
                                      THEN [job[j] EXCEPT !.stage = result] ELSE job[j]]
  BY DEF WorkerWrites
<1>2. job[i].stage = "checked" /\ popup' = popup
  BY DEF WorkerWrites
<1>3. popup.origin \in Origins /\ job[i].off \in BOOLEAN
  BY <1>0, <1>2 DEF CardFields, Job, IInv, TypeOK, CardOK
<1>4. \A j \in Presses : /\ job'[j].waiting = job[j].waiting /\ job'[j].off = job[j].off
                         /\ job'[j].stage = IF j <= i /\ job[j].stage = "checked" THEN result
                                            ELSE job[j].stage
  BY <1>0, <1>1 DEF CardFields, Job
<1>5. NoneFor(popup.origin)' =>
           NoneFor(popup.origin) /\ stored'[popup.origin] = stored[popup.origin]
  <2>1. CASE Store(popup.origin, job[i].off)
    BY <1>0, <1>2, <1>3, <2>1, StoreTells
  <2>2. CASE UNCHANGED <<stored, news, popupNews>>
    BY <1>2, <2>2 DEF NoneFor
  <2>3. QED
    BY <1>1, <2>1, <2>2
<1>6. CardReads'
  BY <1>2, <1>4 DEF CardInv, CardReads
<1>7. LastRead'
  BY <1>2, <1>5 DEF CardInv, LastRead, NoneFor
<1>8. CardWaits'
  <2> DEFINE n == popup.pressed
  <2> SUFFICES ASSUME NoneFor(popup.origin)', popup.reads = <<>>, popup.listening, ~popup.untold,
                      popup.on # ~stored'[popup.origin]
               PROVE  /\ n \in Presses /\ job'[n].waiting /\ popup.on = ~job'[n].off
                      /\ job'[n].stage \in {"sent", "checked", "refused"}
    BY <1>2 DEF CardWaits, NoneFor
  <2>1. /\ n \in Presses /\ job[n].waiting /\ popup.on = ~job[n].off
        /\ job[n].stage \in {"sent", "checked", "refused"}
    BY <1>5 DEF CardInv, CardWaits
  <2>2. job'[n].waiting /\ popup.on = ~job'[n].off
    BY <1>4, <2>1
  <2>3. CASE ~(n <= i /\ job[n].stage = "checked") \/ result = "refused"
    BY <1>4, <2>1, <2>2, <2>3
  <2>4. CASE n <= i /\ result = "ok"
    <3>1. n = i
      <4>1. n \in Nat /\ i \in Nat /\ ~(i > n)
        BY <1>0, <1>2 DEF CardInv, CardReads, CardFields, Presses
      <4>2. QED
        BY <4>1, <2>4
    <3>2. stored[popup.origin] = job[i].off
      <4>1. Store(popup.origin, job[i].off)
        BY <1>1, <2>4
      <4>2. QED
        BY <1>0, <1>2, <1>3, <4>1, StoreTells
    <3>3. popup.on = ~stored[popup.origin]
      BY <2>1, <3>1, <3>2
    <3>4. QED
      BY <1>5, <3>3
  <2>5. QED
    BY <1>1, <2>1, <2>2, <2>3, <2>4
<1>9. QED
  BY <1>6, <1>7, <1>8 DEF CardInv

\* The popup opens and asks for the first time.
LEMMA CardOpens ==
  ASSUME CardFields, CardInv, OpenPopup,
         \A i \in Presses : job[i].stage # "none" => popup.origin \in Origins, TabOK
  PROVE  CardInv'
<1> DEFINE p == [NoPopup EXCEPT !.origin = tab.origin, !.reads = <<"asked">>]
<1>1. /\ popup.origin = NoOrigin /\ popup' = p
      /\ stored' = stored /\ popupNews' = popupNews /\ job' = job
  BY DEF OpenPopup, InPopup, storage
<1>2. tab.origin \in Origins
  BY DEF TabOK, Documents
<1>3. /\ p.origin = tab.origin /\ p.reads = <<"asked">> /\ ~p.listening /\ ~p.untold /\ p.pressed = 0
  BY DEF NoPopup
<1>4. Len(p.reads) = 1 /\ p.reads[1] = "asked" /\ p.reads # <<>>
  BY <1>3
<1> HIDE DEF p
<1>5. CardReads'
  BY <1>1, <1>2, <1>3, <1>4 DEF CardReads
<1>6. LastRead' /\ CardWaits'
  BY <1>1, <1>3, <1>4 DEF LastRead, CardWaits
<1>7. QED
  BY <1>5, <1>6 DEF CardInv

\* A read of the card is served.
LEMMA CardServed ==
  ASSUME CardFields, CardInv, ServeCardRead
  PROVE  CardInv'
<1> DEFINE word == IF stored[popup.origin] THEN "off" ELSE "on"
           R == popup.reads
<1>1. PICK i \in DOMAIN popup.reads : /\ popup.reads[i] = "asked"
                                      /\ InPopup([popup EXCEPT !.reads[i] = word])
  BY DEF ServeCardRead
<1>2. /\ popup'.reads = [popup.reads EXCEPT ![i] = word]
      /\ popup'.origin = popup.origin /\ popup'.on = popup.on /\ popup'.listening = popup.listening
      /\ popup'.untold = popup.untold /\ popup'.pressed = popup.pressed
      /\ stored' = stored /\ popupNews' = popupNews /\ job' = job
  BY <1>1 DEF InPopup, storage, CardFields, Card
<1> HIDE DEF word
<1>3. /\ i \in 1..Len(R) /\ Len(R) \in Nat /\ Len(popup'.reads) = Len(R) /\ R # <<>> /\ popup'.reads # <<>>
      /\ popup'.reads[i] = word /\ \A j \in 1..Len(R) : j # i => popup'.reads[j] = R[j]
  <2>1. i \in 1..Len(R) /\ Len(R) \in Nat /\ R \in Seq({"asked", "on", "off"})
    BY <1>1 DEF CardFields
  <2>2. word \in {"asked", "on", "off"}
    BY DEF word
  <2>3. popup'.reads \in Seq({"asked", "on", "off"}) /\ Len(popup'.reads) = Len(R)
    BY <1>2, <2>1, <2>2
  <2>4. popup'.reads[i] = word /\ \A j \in 1..Len(R) : j # i => popup'.reads[j] = R[j]
    BY <1>2, <2>1
  <2>5. R # <<>> /\ popup'.reads # <<>>
    BY <2>1, <2>3
  <2>6. QED
    BY <2>1, <2>3, <2>4, <2>5
<1>4. CardReads'
  BY <1>2, <1>3 DEF CardInv, CardReads
<1>5. LastRead'
  <2>1. CASE i = Len(R)
    BY <1>2, <1>3, <2>1 DEF LastRead, word
  <2>2. CASE i # Len(R)
    <3>1. popup'.reads[Len(R)] = R[Len(R)]
      BY <1>3, <2>2
    <3>2. QED
      BY <1>2, <1>3, <3>1 DEF CardInv, LastRead, NoneFor
  <2>3. QED
    BY <2>1, <2>2
<1>6. CardWaits'
  BY <1>3 DEF CardWaits
<1>7. QED
  BY <1>4, <1>5, <1>6 DEF CardInv

\* What is left of the reads when the first of them is taken.
LEMMA ReadTaken ==
  ASSUME NEW R \in Seq({"asked", "on", "off"}), R # <<>>
  PROVE  /\ Len(R) \in Nat /\ Len(R) > 0 /\ Head(R) = R[1]
         /\ Len(Tail(R)) = Len(R) - 1
         /\ Tail(R) # <<>> => Len(R) > 1 /\ Tail(R)[Len(Tail(R))] = R[Len(R)]
         /\ Tail(R) = <<>> => Len(R) = 1
<1>1. Len(R) \in Nat /\ Len(R) > 0 /\ Head(R) = R[1]
  OBVIOUS
<1>2. /\ Tail(R) \in Seq({"asked", "on", "off"}) /\ Len(Tail(R)) = Len(R) - 1
      /\ \A i \in 1..(Len(R) - 1) : Tail(R)[i] = R[i + 1]
  BY <1>1
<1> DEFINE T == Tail(R)
<1> HIDE DEF T
<1>3. T \in Seq({"asked", "on", "off"}) /\ Len(T) = Len(R) - 1
      /\ \A i \in 1..(Len(R) - 1) : T[i] = R[i + 1]
  BY <1>2 DEF T
<1>4. ASSUME T # <<>> PROVE Len(R) > 1 /\ T[Len(T)] = R[Len(R)]
  <2>1. Len(T) > 0
    BY <1>3, <1>4
  <2>2. Len(R) > 1 /\ Len(R) - 1 \in 1..(Len(R) - 1) /\ (Len(R) - 1) + 1 = Len(R)
    BY <1>1, <1>3, <2>1
  <2>3. QED
    BY <1>3, <2>2
<1>5. ASSUME T = <<>> PROVE Len(R) = 1
  BY <1>1, <1>3, <1>5
<1>6. QED
  BY <1>1, <1>3, <1>4, <1>5 DEF T

\* A read ends: the card shows it, and listens from now on.
LEMMA CardShows ==
  ASSUME CardFields, CardInv, CardReadEnds
  PROVE  CardInv'
<1>1. /\ popup.reads # <<>> /\ Head(popup.reads) # "asked"
      /\ popup'.reads = Tail(popup.reads) /\ popup'.on = (Head(popup.reads) = "on")
      /\ popup'.untold = (popup.untold /\ ~popup.listening) /\ popup'.listening
      /\ popup'.origin = popup.origin /\ popup'.pressed = popup.pressed
      /\ stored' = stored /\ popupNews' = popupNews /\ job' = job
  BY DEF CardReadEnds, InPopup, storage, CardFields, Card
<1>2. /\ Len(popup.reads) > 0 /\ Head(popup.reads) = popup.reads[1]
      /\ Tail(popup.reads) # <<>> =>
            Len(popup.reads) > 1 /\ Tail(popup.reads)[Len(Tail(popup.reads))] = popup.reads[Len(popup.reads)]
      /\ Tail(popup.reads) = <<>> => Len(popup.reads) = 1
  BY <1>1, ReadTaken DEF CardFields
<1>3. CardReads'
  BY <1>1 DEF CardInv, CardReads
<1>4. LastRead'
  <2> SUFFICES ASSUME Tail(popup.reads) # <<>> PROVE LastRead'
    BY <1>1 DEF LastRead
  <2>1. popup.listening
    BY <1>2 DEF CardInv, CardReads, CardFields
  <2>2. popup'.reads[Len(popup'.reads)] = popup.reads[Len(popup.reads)]
    BY <1>1, <1>2
  <2>3. QED
    BY <1>1, <2>1, <2>2 DEF CardInv, LastRead, NoneFor
<1>5. CardWaits'
  <2> SUFFICES ASSUME NoneFor(popup.origin), Tail(popup.reads) = <<>>, popup.listening \/ ~popup.untold
               PROVE  popup'.on = ~stored[popup.origin]
    BY <1>1 DEF CardWaits, NoneFor, CardFields
  <2>1. popup.reads[Len(popup.reads)] = popup.reads[1] /\ Head(popup.reads) = popup.reads[1]
    BY <1>2
  <2>2. Head(popup.reads) = IF stored[popup.origin] THEN "off" ELSE "on"
    BY <1>1, <2>1 DEF CardInv, LastRead
  <2>3. popup.origin \in Origins
    BY <1>1 DEF CardInv, CardReads, CardFields
  <2>4. stored[popup.origin] \in BOOLEAN
    BY <2>3 DEF CardFields
  <2>5. QED
    BY <1>1, <2>2, <2>4
<1>6. QED
  BY <1>3, <1>4, <1>5 DEF CardInv

\* A read fails: the card stays as it is.
LEMMA CardFails ==
  ASSUME CardFields, CardInv, CardReadFails
  PROVE  CardInv'
<1>1. /\ popup.reads # <<>> /\ popup'.reads = Tail(popup.reads) /\ popup'.untold
      /\ popup'.origin = popup.origin /\ popup'.pressed = popup.pressed
      /\ popup'.listening = popup.listening
      /\ stored' = stored /\ popupNews' = popupNews /\ job' = job
  BY DEF CardReadFails, InPopup, storage, CardFields, Card
<1>2. /\ Len(popup.reads) \in Nat /\ Len(Tail(popup.reads)) = Len(popup.reads) - 1
      /\ Tail(popup.reads) # <<>> =>
            Tail(popup.reads)[Len(Tail(popup.reads))] = popup.reads[Len(popup.reads)]
  BY <1>1, ReadTaken DEF CardFields
<1>3. CardReads'
  BY <1>1, <1>2 DEF CardInv, CardReads
<1>4. LastRead'
  BY <1>1, <1>2 DEF CardInv, LastRead, NoneFor
<1>5. CardWaits'
  BY <1>1 DEF CardWaits
<1>6. QED
  BY <1>3, <1>4, <1>5 DEF CardInv

\* The popup hears of a change: of its own site, it reads again.
LEMMA CardHearsOK ==
  ASSUME CardFields, CardInv, CardHears
  PROVE  CardInv'
<1> DEFINE last == Head(popupNews)
<1>1. popupNews # <<>> /\ popupNews' = Tail(popupNews) /\ stored' = stored /\ job' = job
  BY DEF CardHears, storage
<1>2. /\ last = popupNews[1] /\ Len(popupNews) \in Nat \ {0}
      /\ Len(Tail(popupNews)) = Len(popupNews) - 1
      /\ \A i \in 1..Len(Tail(popupNews)) : Tail(popupNews)[i] = popupNews[i + 1]
  BY <1>1, ChangeTaken DEF CardFields
<1>3. CASE last.origin # popup.origin
  <2>1. popup' = popup
    BY <1>3 DEF CardHears
  <2>2. NoneFor(popup.origin)' => NoneFor(popup.origin)
    <3> SUFFICES ASSUME NoneFor(popup.origin)', NEW i \in 1..Len(popupNews)
                 PROVE  popupNews[i].origin # popup.origin
      BY DEF NoneFor
    <3>1. CASE i = 1
      BY <1>2, <1>3, <3>1
    <3>2. CASE i # 1
      <4>1. i - 1 \in 1..Len(Tail(popupNews)) /\ Tail(popupNews)[i - 1] = popupNews[i]
        BY <1>2, <3>2
      <4>2. QED
        BY <1>1, <2>1, <4>1 DEF NoneFor
    <3>3. QED
      BY <3>1, <3>2
  <2>3. QED
    BY <1>1, <2>1, <2>2 DEF CardInv, CardReads, LastRead, CardWaits, NoneFor
<1>4. CASE last.origin = popup.origin /\ popup.listening
  <2>1. /\ popup'.reads = Append(popup.reads, "asked") /\ popup'.origin = popup.origin
        /\ popup'.listening /\ popup'.untold = popup.untold /\ popup'.pressed = popup.pressed
    BY <1>4 DEF CardHears, CardFields, Card
  <2>2. popup'.reads[Len(popup'.reads)] = "asked" /\ popup'.reads # <<>>
    BY <2>1 DEF CardFields
  <2>3. CardReads'
    BY <1>1, <1>4, <2>1 DEF CardInv, CardReads
  <2>4. LastRead' /\ CardWaits'
    BY <2>2 DEF LastRead, CardWaits
  <2>5. QED
    BY <2>3, <2>4 DEF CardInv
<1>5. CASE last.origin = popup.origin /\ ~popup.listening
  <2>1. /\ popup'.reads = popup.reads /\ popup'.origin = popup.origin /\ popup'.untold
        /\ ~popup'.listening /\ popup'.pressed = popup.pressed
    BY <1>5 DEF CardHears, CardFields, Card
  <2>2. CardReads'
    BY <1>1, <1>5, <2>1 DEF CardInv, CardReads
  <2>3. LastRead' /\ CardWaits'
    BY <2>1 DEF LastRead, CardWaits
  <2>4. QED
    BY <2>2, <2>3 DEF CardInv
<1>6. QED
  BY <1>3, <1>4, <1>5

\* The card is pressed: it shows the press at once.
LEMMA CardPressed ==
  ASSUME CardFields, CardInv, PressCard
  PROVE  CardInv'
<1> DEFINE wish == [stage |-> "sent", off |-> popup.on, previous |-> popup.on, waiting |-> TRUE]
<1>1. PICK n : n = popup.pressed + 1
  OBVIOUS
<1>2. /\ n \in Presses /\ popup' = [popup EXCEPT !.pressed = n, !.on = ~popup.on]
      /\ job' = [job EXCEPT ![n] = wish]
      /\ stored' = stored /\ popupNews' = popupNews
  BY <1>1 DEF PressCard, storage
<1>3. /\ popup'.pressed = n /\ popup'.on = ~popup.on /\ popup'.reads = popup.reads
      /\ popup'.origin = popup.origin /\ popup'.untold = popup.untold
      /\ popup'.listening = popup.listening
  BY <1>2 DEF CardFields, Card
<1>4. wish.stage = "sent" /\ wish.off = popup.on /\ wish.waiting
  OBVIOUS
<1> HIDE DEF wish
<1>5. job'[n] = wish /\ \A j \in Presses : j # n => job'[j] = job[j]
  BY <1>2 DEF CardFields
<1>6. CardReads'
  <2>1. ASSUME NEW i \in Presses, i > n PROVE job'[i].stage = "none"
    <3>1. i > popup.pressed /\ i # n
      BY <1>1, <1>2, <2>1 DEF CardFields, Presses
    <3>2. QED
      BY <1>5, <3>1 DEF CardInv, CardReads
  <2>2. QED
    BY <1>3, <2>1 DEF CardInv, CardReads
<1>7. LastRead'
  BY <1>2, <1>3 DEF CardInv, LastRead, NoneFor
<1>8. CardWaits'
  <2>1. popup'.on = ~job'[n].off
    BY <1>3, <1>4, <1>5
  <2>2. QED
    BY <1>2, <1>3, <1>4, <1>5, <2>1 DEF CardWaits
<1>9. QED
  BY <1>6, <1>7, <1>8 DEF CardInv

\* A press is answered or its time is up: it stays as it is shown, or the card is
\* taken back and nobody vouches for it until the next read.
LEMMA CardSettles ==
  ASSUME CardFields, CardInv, NEW i \in Presses, CardAnswered(i) \/ CardTimesOut(i)
  PROVE  CardInv'
<1>1. /\ stored' = stored /\ popupNews' = popupNews /\ job' = [job EXCEPT ![i].waiting = FALSE]
      /\ \/ popup' = TakenBack(i)
         \/ popup' = popup /\ job[i].waiting /\ job[i].stage = "ok"
  BY DEF CardAnswered, CardTimesOut, Settle, storage
<1>2. \A j \in Presses : /\ job'[j].stage = job[j].stage /\ job'[j].off = job[j].off
                         /\ j # i => job'[j].waiting = job[j].waiting
  BY <1>1 DEF CardFields, Job
<1>3. CASE popup' = TakenBack(i)
  <2>1. /\ popup'.reads = popup.reads /\ popup'.origin = popup.origin /\ popup'.untold
        /\ popup'.listening = popup.listening /\ popup'.pressed = popup.pressed
    BY <1>3 DEF TakenBack, CardFields, Card
  <2>2. CardReads'
    BY <1>2, <2>1 DEF CardInv, CardReads
  <2>3. LastRead'
    BY <1>1, <2>1 DEF CardInv, LastRead, NoneFor
  <2>4. CardWaits'
    BY <2>1 DEF CardWaits
  <2>5. QED
    BY <2>2, <2>3, <2>4 DEF CardInv
<1>4. CASE popup' = popup /\ job[i].waiting /\ job[i].stage = "ok"
  <2>1. CardReads' /\ LastRead'
    BY <1>1, <1>2, <1>4 DEF CardInv, CardReads, LastRead, NoneFor
  <2>2. CardWaits'
    BY <1>1, <1>2, <1>4 DEF CardInv, CardWaits, NoneFor
  <2>3. QED
    BY <2>1, <2>2 DEF CardInv
<1>5. QED
  BY <1>1, <1>3, <1>4

\* A press goes on, or is refused with its worker, unwritten.
LEMMA CardUnwritten ==
  ASSUME CardFields, CardInv, (\E i \in Presses : WorkerChecks(i)) \/ WorkerRestarts
  PROVE  CardInv'
<1>1. /\ stored' = stored /\ popupNews' = popupNews /\ popup' = popup
      /\ \A j \in Presses : /\ job'[j].off = job[j].off /\ job'[j].waiting = job[j].waiting
                            /\ \/ job'[j].stage = job[j].stage
                               \/ job[j].stage # "none" /\ job'[j].stage \in {"checked", "refused"}
  <2>1. job \in [Presses -> Job]
    BY DEF CardFields
  <2>2. ASSUME NEW i \in Presses, WorkerChecks(i)
        PROVE  \A j \in Presses : /\ job'[j].off = job[j].off /\ job'[j].waiting = job[j].waiting
                                  /\ \/ job'[j].stage = job[j].stage
                                     \/ job[j].stage # "none" /\ job'[j].stage \in {"checked", "refused"}
    BY <2>1, <2>2 DEF WorkerChecks, Job
  <2>3. CASE WorkerRestarts
    BY <2>1, <2>3 DEF WorkerRestarts, Job, storage
  <2>4. stored' = stored /\ popupNews' = popupNews /\ popup' = popup
    BY DEF WorkerChecks, WorkerRestarts, storage
  <2>5. QED
    BY <2>2, <2>3, <2>4
<1>2. QED
  BY <1>1 DEF CardInv, CardReads, LastRead, CardWaits, NoneFor

\* The card's invariant holds at first and is kept.
LEMMA CardInitOK == Init => CardInv
<1> SUFFICES ASSUME Init PROVE CardInv
  OBVIOUS
<1>1. popup.origin = NoOrigin /\ ~popup.listening /\ popup.reads = <<>> /\ Len(<<>>) = 0
  BY DEF Init, NoPopup
<1>2. \A i \in Presses : job[i].stage = "none"
  BY DEF Init, NoJob
<1>3. QED
  BY <1>1, <1>2 DEF CardInv, CardReads, LastRead, CardWaits

\* Every step of the system keeps it, as what is known of the types is kept.
LEMMA CardNextOK == IInv /\ CardInv /\ [Next]_vars => CardInv'
<1> SUFFICES ASSUME IInv, CardInv, [Next]_vars PROVE CardInv'
  OBVIOUS
<1>0. CardFields /\ TabOK /\ \A i \in Presses : job[i].stage # "none" => popup.origin \in Origins
  BY FieldsTyped DEF IInv, TypeOK, CardOK
<1>1. CASE ChangedElsewhere
  <2>1. PICK origin \in Origins : Store(origin, ~stored[origin]) /\ UNCHANGED <<popup, job>>
    BY <1>1 DEF ChangedElsewhere
  <2>2. PICK off \in BOOLEAN : off = ~stored[origin]
    OBVIOUS
  <2>3. Store(origin, off)
    BY <2>1, <2>2
  <2>4. QED
    BY <1>0, <2>1, <2>3, CardElsewhere
<1>2. CASE TopSpeaks \/ StartsLoading \/ Commits \/ Reading \/ UNCHANGED vars
  <2>1. UNCHANGED <<stored, popup, popupNews, job>>
    BY <1>2 DEF TopSpeaks, StartsLoading, Commits, Reading, QueryAnswered, QueryLost, Asked,
       ReceiveAnswer, ServeRead, ReadFails, ReadEnds, Retry, ReceiveChange, Cleanup, InFrame,
       vars, storage, card
  <2>2. QED
    BY <2>1, CardLeft
<1>3. CASE WorkerRestarts
  BY <1>0, <1>3, CardUnwritten
<1>4. CASE SwitchingSite
  <2>1. CASE OpenPopup \/ ServeCardRead \/ CardReadEnds \/ CardReadFails \/ CardHears \/ PressCard
    BY <1>0, <2>1, CardOpens, CardServed, CardShows, CardFails, CardHearsOK, CardPressed
  <2>2. ASSUME NEW i \in Presses,
               CardAnswered(i) \/ CardTimesOut(i) \/ WorkerChecks(i) \/ WorkerWrites(i)
        PROVE  CardInv'
    BY <1>0, <2>2, CardSettles, CardUnwritten, CardWritten
  <2>3. QED
    BY <1>4, <2>1, <2>2 DEF SwitchingSite
<1>5. QED
  BY <1>1, <1>2, <1>3, <1>4 DEF Next

\* ... and so always holds.
LEMMA CardInductive == Spec => []CardInv
<1>1. Init => CardInv
  BY CardInitOK
<1>2. IInv /\ CardInv /\ [Next]_vars => CardInv'
  BY CardNextOK
<1>3. QED
  BY <1>1, <1>2, Inductive, PTL DEF Spec

-----------------------------------------------------------------------------
(* Theorems *)

\* A frame takes no site for its own but the origin of the top document of its
\* tab, for any number of documents, with or without an address, of worker
\* restarts and of messages that an outgoing document still sends; but where
\* neither document has an address, a child frame that asks before its top document
\* is heard may be told of the document before it.
\* (background.ts: topDocOrigins; content.ts: attemptReadSiteState)
THEOREM FramesKnowTheirSite == Spec => []OwnSite
BY Inductive, PTL DEF IInv

\* A frame that knows its site, and missed no change between its read and its
\* listener, has the stored value once every change has arrived; a cleaned up
\* frame never listens.  (content.ts: attemptReadSiteState, the site listener)
THEOREM FramesFollowTheirSite == Spec => []FrameFollowsSite
<1>1. IInv => FrameFollowsSite
  <2> SUFFICES ASSUME IInv PROVE FrameFollowsSite
    OBVIOUS
  <2>1. frame.cleanedUp => ~frame.listening
    BY DEF IInv, Progress
  <2>2. ASSUME frame.siteState = "known", ~frame.cleanedUp, news = <<>>, ~frame.missed
        PROVE  frame.siteDisabled = stored[frame.origin]
    <3>1. NothingFor(frame.origin)
      BY <2>2 DEF NothingFor
    <3>2. QED
      BY <2>2, <3>1 DEF IInv, UpToDate
  <2>3. QED
    BY <2>1, <2>2 DEF FrameFollowsSite
<1>2. QED
  BY <1>1, Inductive, PTL

\* Whatever presses overlapped, failed or ran out of time, and whatever changed
\* while a read was on its way: when all is in, the card says what is stored for
\* its site, except after what it was not told of.
\* (popup/main.ts: createSiteCard, refreshSiteState; storage-writer.ts)
THEOREM CardFollowsItsSite == Spec => []CardFollowsSite
<1>1. IInv /\ CardInv => CardFollowsSite
  <2> SUFFICES ASSUME CardInv, popup.reads = <<>>, popupNews = <<>>, popup.listening, ~popup.untold,
                      \A i \in Presses : job[i].stage \notin {"sent", "checked"} /\ ~job[i].waiting
               PROVE  popup.on = ~stored[popup.origin]
    BY DEF CardFollowsSite
  <2>1. NoneFor(popup.origin)
    BY Len(<<>>) = 0 DEF NoneFor
  <2>2. QED
    BY <2>1 DEF CardInv, CardWaits
<1>2. QED
  BY <1>1, Inductive, CardInductive, PTL
=============================================================================
