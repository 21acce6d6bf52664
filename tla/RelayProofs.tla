----------------------------- MODULE RelayProofs -----------------------------
(***************************************************************************)
(* Theorems about what goes through the relay of the worker.               *)
(*                                                                         *)
(* DangerConfirm, pressing by number and the question before a dangerous   *)
(* press, for any number of choices, changes and messages under way.       *)
(* Consents and choices are counted where they are: a press that has been  *)
(* asked of the frame, a refusal on its way back and an open question each *)
(* hold the choice they came from, and a confirmed request holds its       *)
(* confirmation (Accounts).  The rest follows one question: the last word  *)
(* on its way to the frame is the present one (DownInv), the keys that     *)
(* name the present question were pressed since it opened, and a Space     *)
(* that went down there either is down or is followed by word of its       *)
(* release (UpInv).                                                        *)
(*                                                                         *)
(* FrameRelay, for any frames, nested and queued to any depth.  Nobody     *)
(* tells a frame that it has moved: it is asked when the document above it *)
(* has something new to tell, so that the invariant is about that          *)
(* document.  While it has nothing new under way (Quiet) each frame that   *)
(* is not due has the place the document gives it, or something is left    *)
(* that will make the document tell: an iframe before it that the worker   *)
(* does not know, one told of that is lost, or one that has moved          *)
(* (Following).  A report under a frame that is gone is one that its       *)
(* document still has to take back, or is taking back (DeadInv).           *)
(***************************************************************************)
EXTENDS DangerConfirm, FrameRelay,
        FiniteSetTheorems, FunctionTheorems, SequenceTheorems, WellFoundedInduction, TLAPS

-----------------------------------------------------------------------------
(* DangerConfirm: the inductive invariant *)

Down == [type : {"hints/state"}, on : BOOLEAN] \cup [type : {"confirm/state"}, dialog : Nat]
        \cup [type : {"press/request"}, confirmed : BOOLEAN]
Upward == [type : {"frame/report"}, look : Looks] \cup [type : {"hints/key"}, key : Keys]
      \cup [type : {"confirm/key"}, kind : {"keydown", "keyup"}, key : Answers \cup {"cancel"},
            repeat : BOOLEAN, dialog : Nat]
      \cup [type : {"press/refused"}]
Dialogs == [open : BOOLEAN, target : Targets, born : Nat, armed : BOOLEAN, hold : BOOLEAN,
            fresh : SUBSET Answers]
Tops == [hints : SUBSET Targets, readings : Seq((SUBSET Targets) \ {{}}), shown : Nat,
         dialog : Dialogs, cache : [own : Looks, framed : Looks]]

Typed == /\ enabled \in BOOLEAN /\ looks \in [Targets -> Looks] /\ known \in Looks
         /\ top \in Tops
         /\ child \in [hints : BOOLEAN, dialog : Nat] /\ focus \in Frames /\ held \subseteq Answers
         /\ toTop \in Seq(Upward) /\ toChild \in Seq(Down)
         /\ events \in 0..MaxEvents /\ doc \in 0..events
         /\ tally \in [chosen : Nat, pressed : Nat, confirmed : Nat, spent : Nat]

\* A closed dialog keeps nothing; Space counts only when struck since it opened.
DialogForm(t, d) ==
    /\ ~t.dialog.open => t.dialog = NoDialog
    /\ t.dialog.open => t.shown > 0 /\ t.dialog.born <= d
    /\ t.dialog.hold => t.dialog.armed /\ "press" \in t.dialog.fresh

\* What is on its way to the child, where d is the document in the frame
NoWord(ch, type) == \A i \in 1..Len(ch) : ch[i].type # type
LastDialog(ch, n) == \E i \in 1..Len(ch) : /\ ch[i].type = "confirm/state" /\ ch[i].dialog = n
                                           /\ \A j \in 1..Len(ch) : j > i => ch[j].type # "confirm/state"
LastHints(ch, b) == \E i \in 1..Len(ch) : /\ ch[i].type = "hints/state" /\ ch[i].on = b
                                          /\ \A j \in 1..Len(ch) : j > i => ch[j].type # "hints/state"
NumberedTo(ch, n) == \A i \in 1..Len(ch) : ch[i].type = "confirm/state" => ch[i].dialog <= n
FinalWord(ch, n) == \A i \in 1..Len(ch) : ch[i].type = "confirm/state" /\ ch[i].dialog = n =>
                       \A j \in 1..Len(ch) : j > i => ch[j].type # "confirm/state"

DialogTold(t, ch, c, d) ==
    /\ t.dialog.open => \/ LastDialog(ch, t.shown)
                        \/ /\ NoWord(ch, "confirm/state") /\ c.dialog \in {0, t.shown}
                           /\ t.dialog.born = d => c.dialog = t.shown
    /\ ~t.dialog.open /\ d = 0 => LastDialog(ch, 0) \/ (NoWord(ch, "confirm/state") /\ c.dialog = 0)
HeardOnce(t, ch, c) ==
    t.dialog.open => FinalWord(ch, t.shown) /\ (c.dialog = t.shown => NoWord(ch, "confirm/state"))
HintsTold(t, ch, c, d) ==
    d = 0 => \/ LastHints(ch, t.hints # {})
             \/ NoWord(ch, "hints/state") /\ c.hints = (t.hints # {})
DownInv(t, ch, c, d) ==
    /\ c.dialog <= t.shown /\ NumberedTo(ch, t.shown)
    /\ DialogTold(t, ch, c, d) /\ HeardOnce(t, ch, c) /\ HintsTold(t, ch, c, d)
    /\ t.dialog.armed => NoWord(ch, "confirm/state")

\* What is on its way from the child
Answer(m, n) == m.type = "confirm/key" /\ m.dialog = n
Struck(m, n) == Answer(m, n) /\ m.kind = "keydown" /\ ~m.repeat
LetGo(m) == m.type = "confirm/key" /\ m.kind = "keyup" /\ m.key = "press"
Going(up, i) == \E j \in 1..Len(up) : j > i /\ LetGo(up[j])

KeysNumbered(up, n) == \A i \in 1..Len(up) : up[i].type = "confirm/key" => up[i].dialog \in 1..n
KeysFresh(t, up) ==
    \A i \in 1..Len(up) : Struck(up[i], t.shown) /\ up[i].key \in Answers => up[i].key \in t.dialog.fresh
KeysArmed(t, up) ==
    t.dialog.armed => \A i \in 1..Len(up) : up[i].type = "confirm/key" => up[i].dialog = t.shown
KeysHeard(t, up, c) == \A i \in 1..Len(up) : Answer(up[i], t.shown) => c.dialog = t.shown
KeysReleased(t, up, f, h, e) ==
    \A i \in 1..Len(up) : Struck(up[i], t.shown) /\ up[i].key = "press" =>
        e /\ ((f = "child" /\ "press" \in h) \/ Going(up, i))
UpInv(t, up, c, f, h, e, d) ==
    /\ KeysNumbered(up, t.shown) /\ KeysArmed(t, up)
    /\ t.dialog.open => KeysFresh(t, up)
    /\ t.dialog.open /\ t.dialog.born = d => KeysHeard(t, up, c) /\ KeysReleased(t, up, f, h, e)

Holding(t, up, h, e, d) ==
    t.dialog.hold /\ t.dialog.born = d => e /\ ("press" \in h \/ Going(up, 0))

\* Where the choices and the confirmations are
Requests(ch) == Cardinality({i \in 1..Len(ch) : ch[i].type = "press/request"})
Consents(ch) == Cardinality({i \in 1..Len(ch) : ch[i].type = "press/request" /\ ch[i].confirmed})
Refusals(up) == Cardinality({i \in 1..Len(up) : up[i].type = "press/refused"})
Asking(t) == IF t.dialog.open THEN 1 ELSE 0

Accounts ==
    /\ tally.pressed + Requests(toChild) + Refusals(toTop) + Asking(top) <= tally.chosen
    /\ tally.spent + Consents(toChild) <= tally.confirmed

IInv == /\ Typed /\ Accounts /\ DialogForm(top, doc)
        /\ DownInv(top, toChild, child, doc)
        /\ UpInv(top, toTop, child, focus, held, enabled, doc)
        /\ Holding(top, toTop, held, enabled, doc)

-----------------------------------------------------------------------------
(* Messages and channels *)

\* The messages are of their kinds, and the kinds have their fields.
LEMMA DownMessages ==
    /\ \A b \in BOOLEAN : [type |-> "hints/state", on |-> b] \in Down
    /\ \A n \in Nat : [type |-> "confirm/state", dialog |-> n] \in Down
    /\ \A b \in BOOLEAN : [type |-> "press/request", confirmed |-> b] \in Down
    /\ \A m \in Down : /\ m.type = "hints/state" => m.on \in BOOLEAN
                       /\ m.type = "confirm/state" => m.dialog \in Nat
                       /\ m.type = "press/request" => m.confirmed \in BOOLEAN
                       /\ m.type \in {"hints/state", "confirm/state", "press/request"}
BY DEF Down

\* The same of the messages of the child.
LEMMA UpMessages ==
    /\ \A look \in Looks : [type |-> "frame/report", look |-> look] \in Upward
    /\ \A k \in Keys : [type |-> "hints/key", key |-> k] \in Upward
    /\ \A kind \in {"keydown", "keyup"}, k \in Answers \cup {"cancel"}, r \in BOOLEAN, n \in Nat :
          [type |-> "confirm/key", kind |-> kind, key |-> k, repeat |-> r, dialog |-> n] \in Upward
    /\ [type |-> "press/refused"] \in Upward
    /\ \A m \in Upward : /\ m.type = "frame/report" => m.look \in Looks
                         /\ m.type = "confirm/key" => /\ m.dialog \in Nat /\ m.repeat \in BOOLEAN
                                                      /\ m.kind \in {"keydown", "keyup"}
                                                      /\ m.key \in Answers \cup {"cancel"}
BY DEF Upward

\* A longer channel.
LEMMA Longer ==
    ASSUME NEW S, NEW s \in Seq(S), NEW m \in S
    PROVE  /\ Append(s, m) \in Seq(S) /\ Len(s) \in Nat /\ Len(Append(s, m)) = Len(s) + 1
           /\ \A i \in 1..Len(s) : Append(s, m)[i] = s[i]
           /\ Append(s, m)[Len(s) + 1] = m
BY AppendProperties, LenProperties

\* A channel without its head.
LEMMA Shorter ==
    ASSUME NEW S, NEW s \in Seq(S), s # <<>>
    PROVE  /\ Tail(s) \in Seq(S) /\ Len(s) \in Nat /\ Len(s) > 0 /\ Len(Tail(s)) = Len(s) - 1
           /\ \A i \in 1..Len(Tail(s)) : Tail(s)[i] = s[i + 1]
           /\ Head(s) = s[1] /\ Head(s) \in S
BY HeadTailProperties, LenProperties, EmptySeq

\* One index more among the first numbers.
LEMMA OneMore ==
    ASSUME NEW n \in Nat, NEW I \in SUBSET (1..n)
    PROVE  /\ IsFiniteSet(I) /\ Cardinality(I) \in Nat
           /\ Cardinality(I \cup {n + 1}) = Cardinality(I) + 1
<1>1. IsFiniteSet(1..n)
  BY FS_Interval
<1>2. IsFiniteSet(I)
  BY <1>1, FS_Subset
<1>3. n + 1 \notin I
  OBVIOUS
<1> QED BY <1>2, <1>3, FS_AddElement, FS_CardinalityType

\* The indices above the first, each moved down by one.
LEMMA MovedDown ==
    ASSUME NEW n \in Nat, n > 0, NEW I \in SUBSET (1..n)
    PROVE  Cardinality({i \in 1..(n - 1) : i + 1 \in I}) =
              IF 1 \in I THEN Cardinality(I) - 1 ELSE Cardinality(I)
<1> DEFINE J == {i \in 1..(n - 1) : i + 1 \in I}
<1> DEFINE K == I \ {1}
<1> DEFINE f == [i \in J |-> i + 1]
<1>1. IsFiniteSet(I)
  BY OneMore
<1>2. IsFiniteSet(1..(n - 1)) /\ J \in SUBSET (1..(n - 1))
  <2>1. 1 \in Int /\ n - 1 \in Int
    OBVIOUS
  <2> QED BY <2>1, FS_Interval
<1>. HIDE DEF J
<1>3. IsFiniteSet(J)
  BY <1>2, FS_Subset
<1>4. f \in Bijection(J, K)
  <2>1. f \in [J -> K]
    BY DEF J
  <2>2. \A a, b \in J : f[a] = f[b] => a = b
    BY DEF J
  <2>3. \A k \in K : \E a \in J : f[a] = k
    <3> SUFFICES ASSUME NEW k \in K PROVE \E a \in J : f[a] = k
      OBVIOUS
    <3>1. k - 1 \in J
      BY DEF J
    <3> QED BY <3>1
  <2> QED BY <2>1, <2>2, <2>3 DEF Bijection, Injection, Surjection, IsInjective
<1>5. Cardinality(K) = Cardinality(J)
  BY <1>3, <1>4, FS_Bijection DEF ExistsBijection
<1>6. Cardinality(K) = IF 1 \in I THEN Cardinality(I) - 1 ELSE Cardinality(I)
  BY <1>1, FS_RemoveElement
<1> QED BY <1>5, <1>6 DEF J

\* A word more for the child.
LEMMA DownSaid ==
    ASSUME NEW ch \in Seq(Down), NEW m \in Down
    PROVE  /\ Append(ch, m) \in Seq(Down)
           /\ \A ty : NoWord(Append(ch, m), ty) <=> NoWord(ch, ty) /\ m.type # ty
           /\ m.type = "confirm/state" => LastDialog(Append(ch, m), m.dialog)
           /\ m.type # "confirm/state" => \A n : LastDialog(ch, n) => LastDialog(Append(ch, m), n)
           /\ m.type = "hints/state" => LastHints(Append(ch, m), m.on)
           /\ m.type # "hints/state" => \A b : LastHints(ch, b) => LastHints(Append(ch, m), b)
           /\ \A n : NumberedTo(ch, n) /\ (m.type = "confirm/state" => m.dialog <= n)
                        => NumberedTo(Append(ch, m), n)
           /\ \A n : FinalWord(ch, n) /\ m.type # "confirm/state" => FinalWord(Append(ch, m), n)
           /\ \A n \in Nat : NumberedTo(ch, n) => FinalWord(Append(ch, m), n + 1)
<1> DEFINE new == Append(ch, m)
<1>1. /\ new \in Seq(Down) /\ Len(ch) \in Nat /\ Len(new) = Len(ch) + 1
      /\ \A i \in 1..Len(ch) : new[i] = ch[i]
      /\ new[Len(ch) + 1] = m
  BY Longer
<1>2. \A i \in 1..Len(ch) : ch[i] \in Down
  OBVIOUS
<1> HIDE DEF new
<1>3. \A ty : NoWord(new, ty) <=> NoWord(ch, ty) /\ m.type # ty
  BY <1>1 DEF NoWord
<1>4. m.type = "confirm/state" => LastDialog(new, m.dialog)
  BY <1>1 DEF LastDialog
<1>5. m.type # "confirm/state" => \A n : LastDialog(ch, n) => LastDialog(new, n)
  BY <1>1 DEF LastDialog
<1>6. m.type = "hints/state" => LastHints(new, m.on)
  BY <1>1 DEF LastHints
<1>7. m.type # "hints/state" => \A b : LastHints(ch, b) => LastHints(new, b)
  BY <1>1 DEF LastHints
<1>8. \A n : NumberedTo(ch, n) /\ (m.type = "confirm/state" => m.dialog <= n) => NumberedTo(new, n)
  BY <1>1 DEF NumberedTo
<1>9. \A n : FinalWord(ch, n) /\ m.type # "confirm/state" => FinalWord(new, n)
  BY <1>1 DEF FinalWord
<1>10. \A n \in Nat : NumberedTo(ch, n) => FinalWord(new, n + 1)
  <2> SUFFICES ASSUME NEW n \in Nat, NumberedTo(ch, n), NEW i \in 1..Len(new),
                      new[i].type = "confirm/state", new[i].dialog = n + 1
               PROVE  \A j \in 1..Len(new) : j > i => new[j].type # "confirm/state"
    BY DEF FinalWord
  <2>1. i = Len(ch) + 1
    <3> SUFFICES ASSUME i \in 1..Len(ch) PROVE FALSE
      BY <1>1
    <3>1. ch[i].type = "confirm/state" /\ ch[i].dialog = n + 1 /\ ch[i].dialog <= n
      BY <1>1 DEF NumberedTo
    <3> QED BY <3>1
  <2> QED BY <1>1, <2>1
<1> QED BY <1>1, <1>3, <1>4, <1>5, <1>6, <1>7, <1>8, <1>9, <1>10 DEF new

\* The child has taken the first word.
LEMMA DownHeard ==
    ASSUME NEW ch \in Seq(Down), ch # <<>>
    PROVE  /\ Tail(ch) \in Seq(Down) /\ Head(ch) \in Down
           /\ \A ty : NoWord(ch, ty) => Head(ch).type # ty /\ NoWord(Tail(ch), ty)
           /\ \A n : LastDialog(ch, n) => \/ LastDialog(Tail(ch), n)
                                          \/ /\ Head(ch).type = "confirm/state" /\ Head(ch).dialog = n
                                             /\ NoWord(Tail(ch), "confirm/state")
           /\ \A b : LastHints(ch, b) => \/ LastHints(Tail(ch), b)
                                         \/ /\ Head(ch).type = "hints/state" /\ Head(ch).on = b
                                            /\ NoWord(Tail(ch), "hints/state")
           /\ \A n : NumberedTo(ch, n) => /\ NumberedTo(Tail(ch), n)
                                          /\ Head(ch).type = "confirm/state" => Head(ch).dialog <= n
           /\ \A n : FinalWord(ch, n) =>
                 /\ FinalWord(Tail(ch), n)
                 /\ Head(ch).type = "confirm/state" /\ Head(ch).dialog = n => NoWord(Tail(ch), "confirm/state")
<1> DEFINE rest == Tail(ch)
<1> DEFINE h == Head(ch)
<1>1. /\ rest \in Seq(Down) /\ Len(ch) \in Nat /\ Len(ch) > 0 /\ Len(rest) = Len(ch) - 1
      /\ \A i \in 1..Len(rest) : rest[i] = ch[i + 1] /\ i + 1 \in 1..Len(ch)
      /\ h = ch[1] /\ h \in Down /\ 1 \in 1..Len(ch)
  <2>1. /\ rest \in Seq(Down) /\ Len(ch) \in Nat /\ Len(ch) > 0 /\ Len(rest) = Len(ch) - 1
        /\ \A i \in 1..Len(rest) : rest[i] = ch[i + 1]
        /\ h = ch[1] /\ h \in Down
    BY Shorter
  <2> QED BY <2>1
<1>2. \A i \in 1..Len(ch) : i = 1 \/ (i - 1 \in 1..Len(rest) /\ ch[i] = rest[i - 1])
  BY <1>1
<1> HIDE DEF rest, h
<1>3. \A ty : NoWord(ch, ty) => h.type # ty /\ NoWord(rest, ty)
  BY <1>1 DEF NoWord
<1>4. \A n : LastDialog(ch, n) => \/ LastDialog(rest, n)
                                  \/ h.type = "confirm/state" /\ h.dialog = n /\ NoWord(rest, "confirm/state")
  <2> SUFFICES ASSUME NEW n, NEW i \in 1..Len(ch), ch[i].type = "confirm/state", ch[i].dialog = n,
                      \A j \in 1..Len(ch) : j > i => ch[j].type # "confirm/state"
               PROVE  \/ LastDialog(rest, n)
                      \/ h.type = "confirm/state" /\ h.dialog = n /\ NoWord(rest, "confirm/state")
    BY DEF LastDialog
  <2>1. CASE i = 1
    BY <1>1, <2>1 DEF NoWord
  <2>2. CASE i # 1
    <3>1. i - 1 \in 1..Len(rest) /\ ch[i] = rest[i - 1]
      BY <1>2, <2>2
    <3>2. \A j \in 1..Len(rest) : j > i - 1 => rest[j].type # "confirm/state"
      BY <1>1
    <3> QED BY <3>1, <3>2 DEF LastDialog
  <2> QED BY <2>1, <2>2
<1>5. \A b : LastHints(ch, b) => \/ LastHints(rest, b)
                                 \/ h.type = "hints/state" /\ h.on = b /\ NoWord(rest, "hints/state")
  <2> SUFFICES ASSUME NEW b, NEW i \in 1..Len(ch), ch[i].type = "hints/state", ch[i].on = b,
                      \A j \in 1..Len(ch) : j > i => ch[j].type # "hints/state"
               PROVE  \/ LastHints(rest, b)
                      \/ h.type = "hints/state" /\ h.on = b /\ NoWord(rest, "hints/state")
    BY DEF LastHints
  <2>1. CASE i = 1
    BY <1>1, <2>1 DEF NoWord
  <2>2. CASE i # 1
    <3>1. i - 1 \in 1..Len(rest) /\ ch[i] = rest[i - 1]
      BY <1>2, <2>2
    <3>2. \A j \in 1..Len(rest) : j > i - 1 => rest[j].type # "hints/state"
      BY <1>1
    <3> QED BY <3>1, <3>2 DEF LastHints
  <2> QED BY <2>1, <2>2
<1>6. \A n : NumberedTo(ch, n) => NumberedTo(rest, n) /\ (h.type = "confirm/state" => h.dialog <= n)
  BY <1>1 DEF NumberedTo
<1>7. \A n : FinalWord(ch, n) =>
         /\ FinalWord(rest, n)
         /\ h.type = "confirm/state" /\ h.dialog = n => NoWord(rest, "confirm/state")
  BY <1>1 DEF FinalWord, NoWord
<1> QED BY <1>1, <1>3, <1>4, <1>5, <1>6, <1>7 DEF rest, h

\* Requests, confirmed ones and refusals, counted when a message is put on a
\* channel and when one is taken off.
LEMMA CountSaid ==
    ASSUME NEW S, NEW ch \in Seq(S), NEW m \in S
    PROVE  /\ Requests(ch) \in Nat /\ Consents(ch) \in Nat /\ Refusals(ch) \in Nat
           /\ Requests(Append(ch, m)) = Requests(ch) + (IF m.type = "press/request" THEN 1 ELSE 0)
           /\ Consents(Append(ch, m)) =
                 Consents(ch) + (IF m.type = "press/request" /\ m.confirmed THEN 1 ELSE 0)
           /\ Refusals(Append(ch, m)) = Refusals(ch) + (IF m.type = "press/refused" THEN 1 ELSE 0)
<1> DEFINE new == Append(ch, m)
<1> DEFINE n == Len(ch)
<1>1. n \in Nat /\ Len(new) = n + 1 /\ (\A i \in 1..n : new[i] = ch[i]) /\ new[n + 1] = m
  BY Longer
<1> HIDE DEF new, n
<1>2. ASSUME NEW I \in SUBSET (1..n), NEW J, NEW p \in BOOLEAN, J = IF p THEN I \cup {n + 1} ELSE I
      PROVE  Cardinality(I) \in Nat /\ Cardinality(J) = Cardinality(I) + (IF p THEN 1 ELSE 0)
  <2>1. Cardinality(I) \in Nat /\ Cardinality(I \cup {n + 1}) = Cardinality(I) + 1
    BY <1>1, OneMore
  <2>2. CASE p
    BY <1>2, <2>1, <2>2
  <2>3. CASE ~p
    <3>1. J = I
      BY <1>2, <2>3
    <3> QED BY <2>1, <2>3, <3>1
  <2> QED BY <2>2, <2>3
<1>3. /\ Requests(ch) \in Nat
      /\ Requests(new) = Requests(ch) + (IF m.type = "press/request" THEN 1 ELSE 0)
  <2> DEFINE I == {i \in 1..n : ch[i].type = "press/request"}
  <2> DEFINE J == {i \in 1..Len(new) : new[i].type = "press/request"}
  <2> DEFINE p == m.type = "press/request"
  <2>1. I \in SUBSET (1..n) /\ p \in BOOLEAN /\ J = IF p THEN I \cup {n + 1} ELSE I
    BY <1>1
  <2> HIDE DEF I, J, p
  <2>2. Cardinality(I) \in Nat /\ Cardinality(J) = Cardinality(I) + (IF p THEN 1 ELSE 0)
    BY <1>2, <2>1
  <2> QED BY <2>2 DEF I, J, p, Requests, n
<1>4. /\ Consents(ch) \in Nat
      /\ Consents(new) = Consents(ch) + (IF m.type = "press/request" /\ m.confirmed THEN 1 ELSE 0)
  <2> DEFINE I == {i \in 1..n : ch[i].type = "press/request" /\ ch[i].confirmed}
  <2> DEFINE J == {i \in 1..Len(new) : new[i].type = "press/request" /\ new[i].confirmed}
  <2> DEFINE p == m.type = "press/request" /\ m.confirmed
  <2>1. I \in SUBSET (1..n) /\ p \in BOOLEAN /\ J = IF p THEN I \cup {n + 1} ELSE I
    BY <1>1
  <2> HIDE DEF I, J, p
  <2>2. Cardinality(I) \in Nat /\ Cardinality(J) = Cardinality(I) + (IF p THEN 1 ELSE 0)
    BY <1>2, <2>1
  <2> QED BY <2>2 DEF I, J, p, Consents, n
<1>5. /\ Refusals(ch) \in Nat
      /\ Refusals(new) = Refusals(ch) + (IF m.type = "press/refused" THEN 1 ELSE 0)
  <2> DEFINE I == {i \in 1..n : ch[i].type = "press/refused"}
  <2> DEFINE J == {i \in 1..Len(new) : new[i].type = "press/refused"}
  <2> DEFINE p == m.type = "press/refused"
  <2>1. I \in SUBSET (1..n) /\ p \in BOOLEAN /\ J = IF p THEN I \cup {n + 1} ELSE I
    BY <1>1
  <2> HIDE DEF I, J, p
  <2>2. Cardinality(I) \in Nat /\ Cardinality(J) = Cardinality(I) + (IF p THEN 1 ELSE 0)
    BY <1>2, <2>1
  <2> QED BY <2>2 DEF I, J, p, Refusals, n
<1> QED BY <1>3, <1>4, <1>5 DEF new

\* The same when the head is taken.
LEMMA CountHeard ==
    ASSUME NEW S, NEW ch \in Seq(S), ch # <<>>
    PROVE  /\ Requests(Tail(ch)) = Requests(ch) - (IF Head(ch).type = "press/request" THEN 1 ELSE 0)
           /\ Consents(Tail(ch)) =
                 Consents(ch) - (IF Head(ch).type = "press/request" /\ Head(ch).confirmed THEN 1 ELSE 0)
           /\ Refusals(Tail(ch)) = Refusals(ch) - (IF Head(ch).type = "press/refused" THEN 1 ELSE 0)
           /\ Requests(Tail(ch)) \in Nat /\ Consents(Tail(ch)) \in Nat /\ Refusals(Tail(ch)) \in Nat
<1> DEFINE rest == Tail(ch)
<1> DEFINE n == Len(ch)
<1> DEFINE h == Head(ch)
<1>1. /\ n \in Nat /\ n > 0 /\ Len(rest) = n - 1 /\ (\A i \in 1..(n - 1) : rest[i] = ch[i + 1])
      /\ h = ch[1] /\ rest \in Seq(S)
  BY Shorter
<1> HIDE DEF rest, n, h
<1>2. ASSUME NEW I \in SUBSET (1..n), NEW J, NEW p \in BOOLEAN, J = {i \in 1..(n - 1) : i + 1 \in I},
             p <=> 1 \in I
      PROVE  Cardinality(I) \in Nat /\ Cardinality(J) = Cardinality(I) - (IF p THEN 1 ELSE 0)
  <2>1. Cardinality(I) \in Nat
    BY <1>1, OneMore
  <2>2. Cardinality(J) = IF 1 \in I THEN Cardinality(I) - 1 ELSE Cardinality(I)
    BY <1>1, <1>2, MovedDown
  <2>3. CASE p
    BY <1>2, <2>1, <2>2, <2>3
  <2>4. CASE ~p
    BY <1>2, <2>1, <2>2, <2>4
  <2> QED BY <2>3, <2>4
<1>3. /\ Requests(rest) = Requests(ch) - (IF h.type = "press/request" THEN 1 ELSE 0)
  <2> DEFINE I == {i \in 1..n : ch[i].type = "press/request"}
  <2> DEFINE J == {i \in 1..Len(rest) : rest[i].type = "press/request"}
  <2> DEFINE p == h.type = "press/request"
  <2>1. I \in SUBSET (1..n) /\ p \in BOOLEAN /\ J = {i \in 1..(n - 1) : i + 1 \in I} /\ (p <=> 1 \in I)
    BY <1>1
  <2> HIDE DEF I, J, p
  <2>2. Cardinality(J) = Cardinality(I) - (IF p THEN 1 ELSE 0)
    BY <1>2, <2>1
  <2> QED BY <2>2 DEF I, J, p, Requests, n
<1>4. Consents(rest) = Consents(ch) - (IF h.type = "press/request" /\ h.confirmed THEN 1 ELSE 0)
  <2> DEFINE I == {i \in 1..n : ch[i].type = "press/request" /\ ch[i].confirmed}
  <2> DEFINE J == {i \in 1..Len(rest) : rest[i].type = "press/request" /\ rest[i].confirmed}
  <2> DEFINE p == h.type = "press/request" /\ h.confirmed
  <2>1. I \in SUBSET (1..n) /\ p \in BOOLEAN /\ J = {i \in 1..(n - 1) : i + 1 \in I} /\ (p <=> 1 \in I)
    BY <1>1
  <2> HIDE DEF I, J, p
  <2>2. Cardinality(J) = Cardinality(I) - (IF p THEN 1 ELSE 0)
    BY <1>2, <2>1
  <2> QED BY <2>2 DEF I, J, p, Consents, n
<1>5. Refusals(rest) = Refusals(ch) - (IF h.type = "press/refused" THEN 1 ELSE 0)
  <2> DEFINE I == {i \in 1..n : ch[i].type = "press/refused"}
  <2> DEFINE J == {i \in 1..Len(rest) : rest[i].type = "press/refused"}
  <2> DEFINE p == h.type = "press/refused"
  <2>1. I \in SUBSET (1..n) /\ p \in BOOLEAN /\ J = {i \in 1..(n - 1) : i + 1 \in I} /\ (p <=> 1 \in I)
    BY <1>1
  <2> HIDE DEF I, J, p
  <2>2. Cardinality(J) = Cardinality(I) - (IF p THEN 1 ELSE 0)
    BY <1>2, <2>1
  <2> QED BY <2>2 DEF I, J, p, Refusals, n
<1>6. Requests(rest) \in Nat /\ Consents(rest) \in Nat /\ Refusals(rest) \in Nat
  <2>1. 1..Len(rest) = 1..(n - 1) /\ n - 1 \in Nat
    BY <1>1
  <2>2. \A I \in SUBSET (1..(n - 1)) : Cardinality(I) \in Nat
    BY <2>1, OneMore
  <2> QED BY <2>1, <2>2 DEF Requests, Consents, Refusals
<1> QED BY <1>3, <1>4, <1>5, <1>6 DEF rest, h

-----------------------------------------------------------------------------
(* A handler of the top document at work *)

Works == [top : Tops, out : Seq(Down),
          press : {<<>>} \cup {<<p>> : p \in [target : Targets, confirmed : BOOLEAN]},
          chosen : {0, 1}, confirmed : {0, 1}]

\* The channel to the child as w leaves it
Channel(w) == toChild \o w.out

Good(w) == w \in Works /\ DialogForm(w.top, doc) /\ DownInv(w.top, Channel(w), child, doc)

\* The press of w is of a dangerous element, or confirmed
Spent(w) == IF w.press # <<>> /\ (w.press[1].confirmed \/ looks[w.press[1].target] = "dangerous")
            THEN 1 ELSE 0

\* What w has used, with n refusals on their way, and the accounts as it leaves
\* them, when k more choices and c more confirmations may be used
Due(w) == Len(w.press) + Requests(Channel(w)) + Asking(w.top)
Claims(w) == Spent(w) + Consents(Channel(w))
Owed(w, n, k, c) ==
    /\ tally.pressed + Due(w) + n + k <= tally.chosen + w.chosen
    /\ tally.spent + Claims(w) + c <= tally.confirmed + w.confirmed

\* How w moves the dialog of t
Same(t, w) == w.top.dialog = t.dialog /\ w.top.shown = t.shown
Opened(t, w) == /\ w.top.shown = t.shown + 1
                /\ w.top.dialog \in Dialogs /\ w.top.dialog.open
                /\ w.top.dialog.armed = FALSE /\ w.top.dialog.hold = FALSE
Closed(t, w) == w.top.dialog = NoDialog /\ w.top.shown = t.shown
Loosened(t, w) == w.top.dialog = [t.dialog EXCEPT !.hold = FALSE] /\ w.top.shown = t.shown
Pressing(t, w) == w.top.dialog = [t.dialog EXCEPT !.hold = TRUE] /\ w.top.shown = t.shown
                    /\ t.dialog.open /\ t.dialog.armed

\* The state a handler starts from
Ready == /\ Typed /\ DialogForm(top, doc) /\ DownInv(top, toChild, child, doc)

\* What sending does.
LEMMA Sends ==
    ASSUME Typed, NEW w \in Works, NEW m \in Down
    PROVE  /\ Sending(w, m) \in Works /\ Channel(w) \in Seq(Down)
           /\ Sending(w, m).top = w.top /\ Sending(w, m).press = w.press
           /\ Sending(w, m).chosen = w.chosen /\ Sending(w, m).confirmed = w.confirmed
           /\ Channel(Sending(w, m)) = Append(Channel(w), m)
<1>1. toChild \in Seq(Down) /\ w.out \in Seq(Down)
  BY DEF Typed, Works
<1>2. Append(w.out, m) \in Seq(Down) /\ Append(w.out, m) = w.out \o <<m>> /\ <<m>> \in Seq(Down)
  BY <1>1, AppendProperties, AppendIsConcat
<1>3. /\ Sending(w, m) \in Works
      /\ Sending(w, m).top = w.top /\ Sending(w, m).press = w.press
      /\ Sending(w, m).chosen = w.chosen /\ Sending(w, m).confirmed = w.confirmed
      /\ Sending(w, m).out = Append(w.out, m)
  BY <1>1, <1>2 DEF Sending, Works
<1>4. toChild \o w.out \in Seq(Down)
  BY <1>1, ConcatProperties
<1>5. toChild \o Append(w.out, m) = Append(toChild \o w.out, m)
  BY <1>1, <1>2, <1>4, ConcatAssociative, AppendIsConcat
<1> QED BY <1>3, <1>4, <1>5 DEF Channel

\* Work with another state of the document.
LEMMA Turns ==
    ASSUME NEW w \in Works, NEW t \in Tops
    PROVE  /\ [w EXCEPT !.top = t] \in Works /\ [w EXCEPT !.top = t].top = t
           /\ [w EXCEPT !.top = t].press = w.press /\ Channel([w EXCEPT !.top = t]) = Channel(w)
           /\ [w EXCEPT !.top = t].chosen = w.chosen /\ [w EXCEPT !.top = t].confirmed = w.confirmed
BY DEF Works, Channel

\* The numbers of the accounts.
LEMMA Amounts ==
    ASSUME Typed, NEW w \in Works
    PROVE  /\ Due(w) \in Nat /\ Claims(w) \in Nat /\ w.chosen \in Nat /\ w.confirmed \in Nat
           /\ Len(w.press) \in Nat /\ Spent(w) \in Nat /\ Asking(w.top) \in Nat
           /\ Requests(Channel(w)) \in Nat /\ Consents(Channel(w)) \in Nat
           /\ tally.pressed \in Nat /\ tally.chosen \in Nat /\ tally.spent \in Nat /\ tally.confirmed \in Nat
<1>1. /\ w.chosen \in Nat /\ w.confirmed \in Nat /\ Len(w.press) \in Nat
  BY DEF Works
<1>2. Spent(w) \in Nat /\ Asking(w.top) \in Nat
  BY DEF Spent, Asking
<1>3. Channel(w) \in Seq(Down)
  BY DownMessages, Sends
<1>4. Requests(Channel(w)) \in Nat /\ Consents(Channel(w)) \in Nat
  BY <1>3, DownMessages, CountSaid
<1>5. tally.pressed \in Nat /\ tally.chosen \in Nat /\ tally.spent \in Nat /\ tally.confirmed \in Nat
  BY DEF Typed
<1>6. Due(w) \in Nat /\ Claims(w) \in Nat
  BY <1>1, <1>2, <1>4 DEF Due, Claims
<1> QED BY <1>1, <1>2, <1>4, <1>5, <1>6

\* Three numbers of a sum.
LEMMA ShortSum ==
    ASSUME NEW p \in Nat, NEW d \in Nat, NEW k \in Nat, NEW x \in Nat, NEW y \in Nat,
           NEW e \in Nat, NEW l \in Nat, p + d + k <= x + y, e + l <= d + k
    PROVE  p + e + l <= x + y
OBVIOUS

\* The accounts of v are those of w, when what v uses more w had over.
LEMMA Settles ==
    ASSUME Typed, NEW w \in Works, NEW v \in Works, NEW n \in Nat, NEW k \in Nat, NEW c \in Nat,
           NEW l \in Nat, NEW b \in Nat, Owed(w, n, k, c),
           v.chosen = w.chosen, v.confirmed = w.confirmed,
           Due(v) + l <= Due(w) + k, Claims(v) + b <= Claims(w) + c
    PROVE  Owed(v, n, l, b)
<1>1. /\ Due(w) \in Nat /\ Claims(w) \in Nat /\ w.chosen \in Nat /\ w.confirmed \in Nat
      /\ Due(v) \in Nat /\ Claims(v) \in Nat
      /\ tally.pressed \in Nat /\ tally.chosen \in Nat /\ tally.spent \in Nat /\ tally.confirmed \in Nat
  BY Amounts
<1>2. /\ tally.pressed + Due(w) + n + k <= tally.chosen + w.chosen
      /\ tally.spent + Claims(w) + c <= tally.confirmed + w.confirmed
  BY DEF Owed
<1>3. tally.pressed + Due(v) + n + l <= tally.chosen + w.chosen
  <2>1. PICK p, e, d, x, y : p = tally.pressed /\ e = Due(v) /\ d = Due(w) /\ x = tally.chosen /\ y = w.chosen
    OBVIOUS
  <2>2. /\ p \in Nat /\ e \in Nat /\ d \in Nat /\ x \in Nat /\ y \in Nat
        /\ p + d + n + k <= x + y /\ e + l <= d + k
    BY <2>1, <1>1, <1>2
  <2>3. p + e + n + l <= x + y
    BY <2>2
  <2> QED BY <2>1, <2>3
<1>4. tally.spent + Claims(v) + b <= tally.confirmed + w.confirmed
  BY <1>1, <1>2, ShortSum
<1> QED BY <1>3, <1>4 DEF Owed

\* Nothing done yet.
LEMMA Starts ==
    ASSUME Ready, Accounts
    PROVE  /\ Good(Work) /\ Owed(Work, Refusals(toTop), 0, 0) /\ Channel(Work) = toChild
           /\ Work.top = top /\ Work.chosen = 0 /\ Work.confirmed = 0
<1>1. /\ Work.top = top /\ Work.out = <<>> /\ Work.press = <<>> /\ Work.chosen = 0 /\ Work.confirmed = 0
  BY DEF Work
<1>2. toChild \in Seq(Down) /\ top \in Tops
  BY DEF Ready, Typed
<1>3. Channel(Work) = toChild
  BY <1>1, <1>2, ConcatEmptySeq DEF Channel
<1>4. Work \in Works
  BY <1>2 DEF Work, Works
<1>5. Good(Work)
  BY <1>1, <1>3, <1>4 DEF Good, Ready
<1>6. Len(Work.press) = 0 /\ Spent(Work) = 0
  BY <1>1 DEF Spent
<1>7. /\ Requests(toChild) \in Nat /\ Consents(toChild) \in Nat /\ Refusals(toTop) \in Nat
  BY <1>2, CountSaid, DownMessages, UpMessages DEF Typed, Ready
<1>8. /\ tally.pressed \in Nat /\ tally.spent \in Nat /\ tally.chosen \in Nat /\ tally.confirmed \in Nat
      /\ Asking(top) \in Nat
  BY DEF Ready, Typed, Asking
<1>9. Owed(Work, Refusals(toTop), 0, 0)
  <2>1. Due(Work) = Requests(toChild) + Asking(top) /\ Claims(Work) = Consents(toChild)
    BY <1>1, <1>3, <1>6, <1>7, <1>8 DEF Due, Claims
  <2>2. /\ tally.pressed + Requests(toChild) + Refusals(toTop) + Asking(top) <= tally.chosen
        /\ tally.spent + Consents(toChild) <= tally.confirmed
    BY DEF Accounts
  <2>3. /\ tally.pressed + (Requests(toChild) + Asking(top)) + Refusals(toTop) + 0 <= tally.chosen + 0
        /\ tally.spent + Consents(toChild) + 0 <= tally.confirmed + 0
    BY <2>2, <1>7, <1>8
  <2> QED BY <1>1, <2>1, <2>3 DEF Owed
<1> QED BY <1>1, <1>3, <1>5, <1>9

\* A message that is not about the dialog changes nothing the frame is told
\* about it.
LEMMA ClosesHints ==
    ASSUME Ready, NEW w, Good(w), NEW n \in Nat, NEW k \in Nat, NEW c \in Nat, Owed(w, n, k, c)
    PROVE  LET v == closeHints(w)
           IN Good(v) /\ Owed(v, n, k, c) /\ Same(w.top, v) /\ v.chosen = w.chosen
                /\ v.confirmed = w.confirmed /\ v.press = w.press /\ v.top.cache = w.top.cache
<1> DEFINE t == [w.top EXCEPT !.hints = {}]
<1> DEFINE u == [w EXCEPT !.top = t]
<1> DEFINE m == [type |-> "hints/state", on |-> FALSE]
<1> DEFINE v == closeHints(w)
<1> DEFINE ch == Channel(w)
<1>1. w \in Works /\ w.top \in Tops
  BY DEF Good, Works
<1>2. t \in Tops /\ t.hints = {} /\ t.dialog = w.top.dialog /\ t.shown = w.top.shown /\ t.cache = w.top.cache
  BY <1>1 DEF Tops
<1>3. v = Sending(u, m)
  BY <1>1 DEF closeHints, Works
<1>4. m \in Down /\ m.type = "hints/state" /\ m.on = FALSE
  BY DownMessages
<1>5. Typed
  BY DEF Ready
<1> HIDE DEF t, m
<1>6. /\ u \in Works /\ u.top = t /\ u.press = w.press /\ Channel(u) = ch
      /\ u.chosen = w.chosen /\ u.confirmed = w.confirmed
  BY <1>1, <1>2, Turns
<1> HIDE DEF u, v
<1>7. /\ v \in Works /\ v.top = t /\ v.press = w.press /\ Channel(v) = Append(ch, m) /\ ch \in Seq(Down)
      /\ v.chosen = w.chosen /\ v.confirmed = w.confirmed
  BY <1>3, <1>4, <1>5, <1>6, Sends
<1> HIDE DEF ch
<1>8. DownInv(w.top, ch, child, doc) /\ DialogForm(w.top, doc)
  BY DEF Good, ch
<1>9. DialogForm(t, doc)
  BY <1>2, <1>8 DEF DialogForm
<1>10. DownInv(t, Append(ch, m), child, doc)
  <2>1. NumberedTo(Append(ch, m), t.shown)
    BY <1>2, <1>4, <1>7, <1>8, DownSaid DEF DownInv
  <2>2. DialogTold(t, Append(ch, m), child, doc)
    BY <1>2, <1>4, <1>7, <1>8, DownSaid DEF DownInv, DialogTold
  <2>3. HeardOnce(t, Append(ch, m), child)
    BY <1>2, <1>4, <1>7, <1>8, DownSaid DEF DownInv, HeardOnce
  <2>4. HintsTold(t, Append(ch, m), child, doc)
    BY <1>2, <1>4, <1>7, <1>8, DownSaid DEF DownInv, HintsTold
  <2>5. t.dialog.armed => NoWord(Append(ch, m), "confirm/state")
    BY <1>2, <1>4, <1>7, <1>8, DownSaid DEF DownInv
  <2> QED BY <1>2, <1>8, <2>1, <2>2, <2>3, <2>4, <2>5 DEF DownInv
<1>11. Good(v)
  BY <1>7, <1>9, <1>10 DEF Good
<1>12. Requests(Append(ch, m)) = Requests(ch) /\ Consents(Append(ch, m)) = Consents(ch)
  BY <1>4, <1>7, CountSaid
<1>13. Owed(v, n, k, c)
  BY <1>2, <1>7, <1>12 DEF Owed, Due, Claims, Spent, Asking, ch
<1> QED BY <1>2, <1>7, <1>11, <1>13 DEF Same, v

\* The closed dialog gives its choice back.
LEMMA ClosesDialog ==
    ASSUME Ready, NEW w, Good(w), NEW n \in Nat, NEW k \in Nat, NEW c \in Nat,
           Owed(w, n, k, c), w.top.dialog.open
    PROVE  LET v == closeConfirm(w)
           IN Good(v) /\ Owed(v, n, k + 1, c) /\ Closed(w.top, v) /\ v.chosen = w.chosen
                /\ v.confirmed = w.confirmed /\ v.press = w.press /\ v.top.cache = w.top.cache
<1> DEFINE t == [w.top EXCEPT !.dialog = NoDialog]
<1> DEFINE u == [w EXCEPT !.top = t]
<1> DEFINE m == [type |-> "confirm/state", dialog |-> 0]
<1> DEFINE v == closeConfirm(w)
<1> DEFINE ch == Channel(w)
<1>1. w \in Works /\ w.top \in Tops
  BY DEF Good, Works
<1>2. NoDialog \in Dialogs
  BY DEF NoDialog, Dialogs, Targets
<1>3. t \in Tops /\ t.hints = w.top.hints /\ t.dialog = NoDialog /\ t.shown = w.top.shown /\ t.cache = w.top.cache
  BY <1>1, <1>2 DEF Tops
<1>4. ~NoDialog.open /\ ~NoDialog.armed /\ ~NoDialog.hold
  BY DEF NoDialog
<1>5. v = Sending(u, m)
  BY <1>1 DEF closeConfirm, Works
<1>6. m \in Down /\ m.type = "confirm/state" /\ m.dialog = 0
  BY DownMessages
<1>7. Typed
  BY DEF Ready
<1> HIDE DEF t, m
<1>8. /\ u \in Works /\ u.top = t /\ u.press = w.press /\ Channel(u) = ch
      /\ u.chosen = w.chosen /\ u.confirmed = w.confirmed
  BY <1>1, <1>3, Turns
<1> HIDE DEF u, v
<1>9. /\ v \in Works /\ v.top = t /\ v.press = w.press /\ Channel(v) = Append(ch, m) /\ ch \in Seq(Down)
      /\ v.chosen = w.chosen /\ v.confirmed = w.confirmed
  BY <1>5, <1>6, <1>7, <1>8, Sends
<1> HIDE DEF ch
<1>10. DownInv(w.top, ch, child, doc) /\ w.top.shown \in Nat
  BY <1>1 DEF Good, ch, Tops
<1>11. DialogForm(t, doc)
  BY <1>3, <1>4 DEF DialogForm
<1>12. DownInv(t, Append(ch, m), child, doc)
  <2>1. NumberedTo(Append(ch, m), t.shown)
    BY <1>3, <1>6, <1>9, <1>10, DownSaid DEF DownInv
  <2>2. DialogTold(t, Append(ch, m), child, doc)
    BY <1>3, <1>4, <1>6, <1>9, <1>10, DownSaid DEF DialogTold
  <2>3. HintsTold(t, Append(ch, m), child, doc)
    BY <1>3, <1>6, <1>9, <1>10, DownSaid DEF DownInv, HintsTold
  <2> QED BY <1>3, <1>4, <1>10, <2>1, <2>2, <2>3 DEF DownInv, HeardOnce
<1>13. Good(v)
  BY <1>9, <1>11, <1>12 DEF Good
<1>14. /\ Requests(Append(ch, m)) = Requests(ch) /\ Consents(Append(ch, m)) = Consents(ch)
       /\ Requests(ch) \in Nat
  BY <1>6, <1>9, CountSaid
<1>15. Owed(v, n, k + 1, c)
  <2>1. Asking(t) = 0 /\ Asking(w.top) = 1
    BY <1>3, <1>4 DEF Asking
  <2>2. Len(w.press) \in Nat
    BY <1>1, <1>7, Amounts
  <2>3. Due(w) = Len(w.press) + Requests(ch) + 1 /\ Due(v) = Len(w.press) + Requests(ch) + 0
    BY <1>9, <1>14, <2>1 DEF Due, ch
  <2>4. Due(v) + (k + 1) <= Due(w) + k
    BY <1>14, <2>2, <2>3
  <2>5. Claims(v) = Claims(w)
    BY <1>9, <1>14 DEF Claims, Spent, ch
  <2>6. Claims(v) + c <= Claims(w) + c
    BY <1>1, <1>7, <2>5, Amounts
  <2>7. k + 1 \in Nat
    OBVIOUS
  <2> QED BY <1>1, <1>7, <1>9, <2>4, <2>6, <2>7, Settles
<1> QED BY <1>3, <1>9, <1>13, <1>15 DEF Closed, v

\* A dialog that opens takes a choice, or the one of the dialog it replaces.
LEMMA OpensDialog ==
    ASSUME Ready, NEW w, Good(w), NEW n \in Nat, NEW k \in Nat, NEW c \in Nat,
           Owed(w, n, k, c), k + Asking(w.top) > 0, NEW target \in Targets
    PROVE  LET v == openDangerConfirm(w, target)
           IN Good(v) /\ Owed(v, n, k + Asking(w.top) - 1, c) /\ Opened(w.top, v) /\ v.chosen = w.chosen
                /\ v.confirmed = w.confirmed
<1> DEFINE d == [NoDialog EXCEPT !.open = TRUE, !.target = target, !.born = doc]
<1> DEFINE s == w.top.shown + 1
<1> DEFINE o == [w.top EXCEPT !.dialog = d]
<1> DEFINE t == [o EXCEPT !.shown = s]
<1> DEFINE u == [w EXCEPT !.top = t]
<1> DEFINE m == [type |-> "confirm/state", dialog |-> s]
<1> DEFINE v == openDangerConfirm(w, target)
<1> DEFINE ch == Channel(w)
<1>1. w \in Works /\ w.top \in Tops /\ w.top.shown \in Nat /\ doc \in Nat
  BY DEF Good, Works, Tops, Ready, Typed
<1>2. /\ d \in Dialogs /\ d.open /\ d.born = doc /\ d.armed = FALSE /\ d.hold = FALSE
  BY <1>1 DEF NoDialog, Dialogs
<1>3. v = Sending(u, m)
  <2> DEFINE x == [w EXCEPT !.top.dialog = d, !.top.shown = @ + 1]
  <2>1. openDangerConfirm(w, target) = Sending(x, m)
    BY DEF openDangerConfirm
  <2> HIDE DEF d
  <2>2. x = u
    BY <1>1 DEF Works, Tops
  <2> QED BY <2>1, <2>2
<1> HIDE DEF d
<1>4. s \in Nat /\ t \in Tops /\ t.hints = w.top.hints /\ t.dialog = d /\ t.shown = s
  <2>1. o \in Tops /\ o.hints = w.top.hints /\ o.dialog = d
    BY <1>1, <1>2 DEF Tops
  <2> HIDE DEF o
  <2>2. s \in Nat
    BY <1>1
  <2> HIDE DEF s
  <2> QED BY <2>1, <2>2 DEF Tops
<1>5. m \in Down /\ m.type = "confirm/state" /\ m.dialog = s
  BY <1>4, DownMessages
<1>6. Typed
  BY DEF Ready
<1> HIDE DEF t, m
<1>7. /\ u \in Works /\ u.top = t /\ u.press = w.press /\ Channel(u) = ch
      /\ u.chosen = w.chosen /\ u.confirmed = w.confirmed
  BY <1>1, <1>4, Turns
<1> HIDE DEF u, v
<1>8. /\ v \in Works /\ v.top = t /\ v.press = w.press /\ Channel(v) = Append(ch, m) /\ ch \in Seq(Down)
      /\ v.chosen = w.chosen /\ v.confirmed = w.confirmed
  BY <1>3, <1>5, <1>6, <1>7, Sends
<1> HIDE DEF ch
<1>9. DownInv(w.top, ch, child, doc) /\ child.dialog \in Nat
  BY <1>6 DEF Good, ch, Typed
<1>10. DialogForm(t, doc)
  BY <1>1, <1>2, <1>4 DEF DialogForm
<1>11. DownInv(t, Append(ch, m), child, doc)
  <2>1. NumberedTo(Append(ch, m), s)
    <3>1. NumberedTo(ch, s)
      <4>1. NumberedTo(ch, w.top.shown)
        BY <1>9 DEF DownInv
      <4>2. \A i \in 1..Len(ch) : ch[i].type = "confirm/state" => ch[i].dialog \in Nat
        BY <1>8, DownMessages
      <4> QED BY <1>1, <4>1, <4>2 DEF NumberedTo
    <3> QED BY <1>4, <1>5, <1>8, <3>1, DownSaid
  <2>2. DialogTold(t, Append(ch, m), child, doc)
    BY <1>2, <1>4, <1>5, <1>8, DownSaid DEF DialogTold
  <2>3. FinalWord(Append(ch, m), s) /\ child.dialog <= s /\ child.dialog # s
    <3>1. NumberedTo(ch, w.top.shown) /\ child.dialog <= w.top.shown
      BY <1>9 DEF DownInv
    <3>2. FinalWord(Append(ch, m), w.top.shown + 1)
      BY <1>1, <1>5, <1>8, <3>1, DownSaid
    <3> QED BY <1>1, <1>9, <3>1, <3>2
  <2>4. HintsTold(t, Append(ch, m), child, doc)
    BY <1>4, <1>5, <1>8, <1>9, DownSaid DEF DownInv, HintsTold
  <2> QED BY <1>2, <1>4, <2>1, <2>2, <2>3, <2>4 DEF DownInv, HeardOnce
<1>12. Good(v)
  BY <1>8, <1>10, <1>11 DEF Good
<1>13. /\ Requests(Append(ch, m)) = Requests(ch) /\ Consents(Append(ch, m)) = Consents(ch)
       /\ Requests(ch) \in Nat
  BY <1>5, <1>8, CountSaid
<1>14. Owed(v, n, k + Asking(w.top) - 1, c)
  <2>1. Asking(t) = 1 /\ Asking(w.top) \in Nat
    BY <1>2, <1>4 DEF Asking
  <2>2. Len(w.press) \in Nat
    BY <1>1, <1>6, Amounts
  <2>3. Due(w) = Len(w.press) + Requests(ch) + Asking(w.top) /\ Due(v) = Len(w.press) + Requests(ch) + 1
    BY <1>8, <1>13, <2>1 DEF Due, ch
  <2>4. Due(v) + (k + Asking(w.top) - 1) <= Due(w) + k
    BY <1>13, <2>1, <2>2, <2>3
  <2>5. Claims(v) = Claims(w)
    BY <1>8, <1>13 DEF Claims, Spent, ch
  <2>6. Claims(v) + c <= Claims(w) + c
    BY <1>1, <1>6, <2>5, Amounts
  <2>7. k + Asking(w.top) - 1 \in Nat
    BY <2>1
  <2> QED BY <1>1, <1>6, <1>8, <2>4, <2>6, <2>7, Settles
<1> QED BY <1>2, <1>4, <1>8, <1>12, <1>14 DEF Opened, v

\* A press asked of the frame takes a choice, and a confirmed one its
\* confirmation.
LEMMA AsksFrame ==
    ASSUME Ready, NEW w, Good(w), NEW n \in Nat, NEW k \in Nat, NEW c \in Nat,
           NEW confirmed \in BOOLEAN, Owed(w, n, k + 1, c + (IF confirmed THEN 1 ELSE 0))
    PROVE  LET v == Sending(w, [type |-> "press/request", confirmed |-> confirmed])
           IN Good(v) /\ Owed(v, n, k, c) /\ Same(w.top, v) /\ v.chosen = w.chosen
                /\ v.confirmed = w.confirmed
<1> DEFINE m == [type |-> "press/request", confirmed |-> confirmed]
<1> DEFINE v == Sending(w, m)
<1> DEFINE ch == Channel(w)
<1>1. w \in Works /\ Typed
  BY DEF Good, Ready
<1>2. m \in Down /\ m.type = "press/request" /\ m.confirmed = confirmed
  BY DownMessages
<1> HIDE DEF m
<1>3. /\ v \in Works /\ v.top = w.top /\ v.press = w.press /\ Channel(v) = Append(ch, m) /\ ch \in Seq(Down)
      /\ v.chosen = w.chosen /\ v.confirmed = w.confirmed
  BY <1>1, <1>2, Sends
<1> HIDE DEF v, ch
<1>4. DownInv(w.top, ch, child, doc) /\ DialogForm(w.top, doc)
  BY DEF Good, ch
<1>5. DownInv(w.top, Append(ch, m), child, doc)
  BY <1>2, <1>3, <1>4, DownSaid DEF DownInv, DialogTold, HeardOnce, HintsTold
<1>6. Good(v)
  BY <1>3, <1>4, <1>5 DEF Good
<1>7. /\ Requests(Append(ch, m)) = Requests(ch) + 1 /\ Requests(ch) \in Nat
      /\ Consents(Append(ch, m)) = Consents(ch) + (IF confirmed THEN 1 ELSE 0) /\ Consents(ch) \in Nat
  BY <1>2, <1>3, CountSaid
<1>8. Owed(v, n, k, c)
  <2> DEFINE z == IF confirmed THEN 1 ELSE 0
  <2>1. /\ Len(w.press) \in Nat /\ Asking(w.top) \in Nat /\ Spent(w) \in Nat /\ Spent(v) = Spent(w)
        /\ z \in Nat
    BY <1>1, <1>3, Amounts DEF Spent
  <2> HIDE DEF z
  <2>2. Due(w) = Len(w.press) + Requests(ch) + Asking(w.top) /\ Claims(w) = Spent(w) + Consents(ch)
    BY DEF Due, Claims, ch
  <2>3. Due(v) = Len(w.press) + (Requests(ch) + 1) + Asking(w.top) /\ Claims(v) = Spent(w) + (Consents(ch) + z)
    BY <1>3, <1>7, <2>1 DEF Due, Claims, z
  <2>4. Due(v) + k <= Due(w) + (k + 1)
    BY <1>7, <2>1, <2>2, <2>3
  <2>5. Claims(v) + c <= Claims(w) + (c + z)
    BY <1>7, <2>1, <2>2, <2>3
  <2>6. k + 1 \in Nat /\ c + z \in Nat /\ Owed(w, n, k + 1, c + z)
    BY <2>1 DEF z
  <2> QED BY <1>1, <1>3, <2>4, <2>5, <2>6, Settles
<1> QED BY <1>3, <1>6, <1>8 DEF Same, v, m

\* A press of this document, of an element that is not dangerous or has been
\* confirmed.
LEMMA PressesOwn ==
    ASSUME Ready, NEW w, Good(w), NEW n \in Nat, NEW k \in Nat, NEW c \in Nat,
           NEW confirmed \in BOOLEAN, Owed(w, n, k + 1, c + (IF confirmed THEN 1 ELSE 0)),
           confirmed \/ looks["own"] # "dangerous"
    PROVE  LET v == [w EXCEPT !.press = Pressed("own", confirmed)]
           IN Good(v) /\ Owed(v, n, k, c) /\ Same(w.top, v) /\ v.chosen = w.chosen
                /\ v.confirmed = w.confirmed
<1> DEFINE p == [target |-> "own", confirmed |-> confirmed]
<1> DEFINE v == [w EXCEPT !.press = Pressed("own", confirmed)]
<1>1. w \in Works /\ Typed
  BY DEF Good, Ready
<1>2. p \in [target : Targets, confirmed : BOOLEAN] /\ Pressed("own", confirmed) = <<p>>
  BY DEF Targets, Pressed
<1>3. <<p>> # <<>> /\ <<p>>[1].target = "own" /\ <<p>>[1].confirmed = confirmed /\ Len(<<p>>) = 1
  OBVIOUS
<1>4. /\ v \in Works /\ v.top = w.top /\ v.press = <<p>> /\ Channel(v) = Channel(w)
      /\ v.chosen = w.chosen /\ v.confirmed = w.confirmed
  BY <1>1, <1>2 DEF Works, Channel
<1> HIDE DEF v, p
<1>5. Good(v)
  BY <1>4 DEF Good
<1>6. Owed(v, n, k, c)
  <2> DEFINE z == IF confirmed THEN 1 ELSE 0
  <2> DEFINE R == Requests(Channel(w))
  <2> DEFINE C == Consents(Channel(w))
  <2>1. /\ Len(w.press) \in Nat /\ Asking(w.top) \in Nat /\ Spent(w) \in Nat /\ z \in Nat
        /\ R \in Nat /\ C \in Nat
    BY <1>1, Amounts
  <2>2. Spent(v) = z /\ Len(v.press) = 1
    BY <1>3, <1>4 DEF Spent
  <2>3. Due(w) = Len(w.press) + R + Asking(w.top) /\ Claims(w) = Spent(w) + C
    BY DEF Due, Claims
  <2>4. Due(v) = 1 + R + Asking(w.top) /\ Claims(v) = z + C
    BY <1>4, <2>2 DEF Due, Claims
  <2>5. k + 1 \in Nat /\ c + z \in Nat /\ Owed(w, n, k + 1, c + z)
    BY <2>1
  <2> HIDE DEF z, R, C
  <2>6. Due(v) + k <= Due(w) + (k + 1)
    BY <2>1, <2>3, <2>4
  <2>7. Claims(v) + c <= Claims(w) + (c + z)
    BY <2>1, <2>3, <2>4
  <2>8. v \in Works
    BY <1>4
  <2> QED BY <1>1, <1>4, <2>5, <2>6, <2>7, <2>8, Settles
<1> QED BY <1>4, <1>5, <1>6 DEF Same, v

\* What may be used need not be.
LEMMA Keeps ==
    ASSUME Ready, NEW w, Good(w), NEW n \in Nat, NEW k \in Nat, NEW c \in Nat, Owed(w, n, k, c)
    PROVE  Owed(w, n, 0, 0)
<1>1. Typed /\ w \in Works /\ Due(w) \in Nat /\ Claims(w) \in Nat /\ 0 \in Nat
  BY Amounts DEF Ready, Good
<1>2. Due(w) + 0 <= Due(w) + k /\ Claims(w) + 0 <= Claims(w) + c
  BY <1>1
<1> QED BY <1>1, <1>2, Settles

\* A number chosen, a confirmation given.
LEMMA Earns ==
    ASSUME Ready, NEW w, Good(w), NEW n \in Nat, Owed(w, n, 0, 0)
    PROVE  /\ w.chosen = 0 =>
                LET v == [w EXCEPT !.chosen = 1]
                IN Good(v) /\ Owed(v, n, 1, 0) /\ v.top = w.top /\ v.confirmed = w.confirmed
           /\ w.confirmed = 0 =>
                LET v == [w EXCEPT !.confirmed = 1]
                IN Good(v) /\ Owed(v, n, 0, 1) /\ v.top = w.top /\ v.chosen = w.chosen /\ v.confirmed = 1
<1>1. w \in Works /\ Typed
  BY DEF Good, Ready
<1>2. /\ Due(w) \in Nat /\ Claims(w) \in Nat /\ tally.pressed \in Nat /\ tally.chosen \in Nat
      /\ tally.spent \in Nat /\ tally.confirmed \in Nat
  BY <1>1, Amounts
<1>3. /\ tally.pressed + Due(w) + n + 0 <= tally.chosen + w.chosen
      /\ tally.spent + Claims(w) + 0 <= tally.confirmed + w.confirmed
  BY DEF Owed
<1>4. ASSUME w.chosen = 0
      PROVE  LET v == [w EXCEPT !.chosen = 1]
             IN Good(v) /\ Owed(v, n, 1, 0) /\ v.top = w.top /\ v.confirmed = w.confirmed
  <2> DEFINE v == [w EXCEPT !.chosen = 1]
  <2>1. /\ v \in Works /\ v.top = w.top /\ v.out = w.out /\ v.press = w.press /\ v.chosen = 1
        /\ v.confirmed = w.confirmed
    BY <1>1 DEF Works
  <2> HIDE DEF v
  <2>2. Channel(v) = Channel(w) /\ Due(v) = Due(w) /\ Claims(v) = Claims(w)
    BY <2>1 DEF Channel, Due, Claims, Spent
  <2>3. tally.pressed + Due(w) + n + 1 <= tally.chosen + 1
    BY <1>2, <1>3, <1>4
  <2>4. Owed(v, n, 1, 0)
    BY <1>3, <2>1, <2>2, <2>3 DEF Owed
  <2>5. Good(v)
    BY <2>1, <2>2 DEF Good
  <2> QED BY <2>1, <2>4, <2>5 DEF v
<1>5. ASSUME w.confirmed = 0
      PROVE  LET v == [w EXCEPT !.confirmed = 1]
             IN Good(v) /\ Owed(v, n, 0, 1) /\ v.top = w.top /\ v.chosen = w.chosen /\ v.confirmed = 1
  <2> DEFINE v == [w EXCEPT !.confirmed = 1]
  <2>1. /\ v \in Works /\ v.top = w.top /\ v.out = w.out /\ v.press = w.press /\ v.chosen = w.chosen
        /\ v.confirmed = 1
    BY <1>1 DEF Works
  <2> HIDE DEF v
  <2>2. Channel(v) = Channel(w) /\ Due(v) = Due(w) /\ Claims(v) = Claims(w)
    BY <2>1 DEF Channel, Due, Claims, Spent
  <2>3. tally.spent + Claims(w) + 1 <= tally.confirmed + 1
    BY <1>2, <1>3, <1>5
  <2>4. Owed(v, n, 0, 1)
    BY <1>3, <2>1, <2>2, <2>3 DEF Owed
  <2>5. Good(v)
    BY <2>1, <2>2 DEF Good
  <2> QED BY <2>1, <2>4, <2>5 DEF v
<1> QED BY <1>4, <1>5

\* A press of an element by number: pressed, asked of the frame, or asked
\* about; the question is not asked again.
LEMMA PressesEntry ==
    ASSUME Ready, NEW w, Good(w), NEW n \in Nat, NEW target \in Targets, NEW confirmed \in BOOLEAN,
           Owed(w, n, 1, IF confirmed THEN 1 ELSE 0)
    PROVE  LET v == pressHintEntry(w, target, confirmed)
           IN Good(v) /\ Owed(v, n, 0, 0) /\ v.chosen = w.chosen /\ v.confirmed = w.confirmed
                /\ (Same(w.top, v) \/ (~confirmed /\ Opened(w.top, v)))
<1> DEFINE v == pressHintEntry(w, target, confirmed)
<1> DEFINE z == IF confirmed THEN 1 ELSE 0
<1> DEFINE Kept == /\ Good(v) /\ Owed(v, n, 0, 0) /\ v.chosen = w.chosen /\ v.confirmed = w.confirmed
                   /\ (Same(w.top, v) \/ (~confirmed /\ Opened(w.top, v)))
<1>1. z \in Nat /\ 0 + 1 = 1 /\ 0 + z = z /\ Owed(w, n, 0 + 1, 0 + z)
  OBVIOUS
<1>2. Owed(w, n, 0, 0)
  BY <1>1, Keeps
<1>3. ASSUME v = w PROVE Kept
  BY <1>2, <1>3 DEF Same
<1>4. ASSUME v = Sending(w, [type |-> "press/request", confirmed |-> confirmed]) PROVE Kept
  BY <1>1, <1>4, AsksFrame
<1>5. ASSUME looks["own"] = "dangerous" /\ ~confirmed /\ v = openDangerConfirm(w, "own") PROVE Kept
  <2>1. Owed(w, n, 1, 0) /\ "own" \in Targets /\ Asking(w.top) \in {0, 1}
    BY <1>1, <1>5 DEF Targets, Asking
  <2>2. 1 + Asking(w.top) > 0 /\ 1 + Asking(w.top) - 1 \in Nat
    BY <2>1
  <2>3. /\ Good(v) /\ Owed(v, n, 1 + Asking(w.top) - 1, 0) /\ Opened(w.top, v) /\ v.chosen = w.chosen
        /\ v.confirmed = w.confirmed
    BY <1>5, <2>1, <2>2, OpensDialog
  <2>4. Owed(v, n, 0, 0)
    BY <2>2, <2>3, Keeps
  <2> QED BY <1>5, <2>3, <2>4
<1>6. ASSUME /\ ~(looks["own"] = "dangerous" /\ ~confirmed)
             /\ v = [w EXCEPT !.press = Pressed("own", confirmed)]
      PROVE  Kept
  BY <1>1, <1>6, PressesOwn
<1>7. \/ v = w \/ v = Sending(w, [type |-> "press/request", confirmed |-> confirmed])
      \/ looks["own"] = "dangerous" /\ ~confirmed /\ v = openDangerConfirm(w, "own")
      \/ /\ ~(looks["own"] = "dangerous" /\ ~confirmed)
         /\ v = [w EXCEPT !.press = Pressed("own", confirmed)]
  BY DEF pressHintEntry
<1>8. Kept
  <2> HIDE DEF Kept, v
  <2> QED BY <1>3, <1>4, <1>5, <1>6, <1>7
<1> QED BY <1>8

\* The snapshot and the readings concern neither the dialog nor the frame.
LEMMA OpensHints ==
    ASSUME Ready, NEW w, Good(w), NEW n \in Nat, Owed(w, n, 0, 0)
    PROVE  LET v == openHints(w)
           IN Good(v) /\ Owed(v, n, 0, 0) /\ Same(w.top, v) /\ v.confirmed = w.confirmed
<1> DEFINE numbered == {t \in Targets : composeCurrentItems[t] # "gone"}
<1> DEFINE s == [w.top EXCEPT !.cache = composeCurrentItems]
<1> DEFINE r == [s EXCEPT !.readings = Append(@, numbered)]
<1> DEFINE v == openHints(w)
<1>1. w \in Works /\ w.top \in Tops /\ w.top.readings \in Seq((SUBSET Targets) \ {{}})
  BY DEF Good, Works, Tops
<1>2. composeCurrentItems \in [own : Looks, framed : Looks]
  BY DEF composeCurrentItems, Ready, Typed, Targets
<1>3. /\ v = IF numbered = {} THEN [w EXCEPT !.top.cache = composeCurrentItems]
             ELSE [[w EXCEPT !.top.cache = composeCurrentItems] EXCEPT !.top.readings = Append(@, numbered)]
      /\ numbered \subseteq Targets
  BY DEF openHints
<1> HIDE DEF v, numbered
<1>4. s \in Tops /\ s.hints = w.top.hints /\ s.dialog = w.top.dialog /\ s.shown = w.top.shown
        /\ s.readings = w.top.readings
  BY <1>1, <1>2 DEF Tops
<1> HIDE DEF s
<1>5. [w EXCEPT !.top.cache = composeCurrentItems] = [w EXCEPT !.top = s]
  BY <1>1 DEF Works, s
<1>6. [w EXCEPT !.top = s].top = s /\ [[w EXCEPT !.top = s] EXCEPT !.top = r] = [w EXCEPT !.top = r]
  BY <1>1 DEF Works
<1>7. v = [w EXCEPT !.top = s] \/ (numbered # {} /\ v = [w EXCEPT !.top = r])
  <2>1. CASE numbered = {}
    BY <1>3, <1>5, <2>1
  <2>2. CASE numbered # {}
    <3> DEFINE x == [w EXCEPT !.top = s]
    <3>1. v = [x EXCEPT !.top.readings = Append(@, numbered)]
      BY <1>3, <1>5, <2>2
    <3>2. x.top = s
      BY <1>6
    <3>3. v = [x EXCEPT !.top = [s EXCEPT !.readings = Append(@, numbered)]]
      BY <3>1, <3>2
    <3> QED BY <1>6, <2>2, <3>3
  <2> QED BY <2>1, <2>2
<1>8. numbered # {} => r \in Tops /\ r.hints = w.top.hints /\ r.dialog = w.top.dialog /\ r.shown = w.top.shown
  <2> SUFFICES ASSUME numbered # {}
               PROVE  r \in Tops /\ r.hints = w.top.hints /\ r.dialog = w.top.dialog /\ r.shown = w.top.shown
    OBVIOUS
  <2>1. Append(s.readings, numbered) \in Seq((SUBSET Targets) \ {{}})
    BY <1>1, <1>3, <1>4, AppendProperties
  <2> QED BY <1>4, <2>1 DEF Tops
<1> HIDE DEF r
<1>9. PICK t \in Tops : /\ v = [w EXCEPT !.top = t] /\ t.hints = w.top.hints
                        /\ t.dialog = w.top.dialog /\ t.shown = w.top.shown
  BY <1>4, <1>7, <1>8
<1>10. /\ v \in Works /\ v.top = t /\ v.press = w.press /\ Channel(v) = Channel(w) /\ v.chosen = w.chosen
       /\ v.confirmed = w.confirmed
  BY <1>1, <1>9, Turns
<1>11. Good(v)
  BY <1>9, <1>10 DEF Good, DialogForm, DownInv, DialogTold, HeardOnce, HintsTold
<1>12. Owed(v, n, 0, 0)
  BY <1>9, <1>10 DEF Owed, Due, Claims, Spent, Asking
<1> QED BY <1>9, <1>10, <1>11, <1>12 DEF Same, v

\* A key of the numbers: a chosen one may open the dialog.
LEMMA HintKey ==
    ASSUME Ready, NEW w, Good(w), NEW n \in Nat, Owed(w, n, 0, 0), w.chosen = 0, NEW key
    PROVE  LET v == handleTopHintKey(w, key)
           IN Good(v) /\ Owed(v, n, 0, 0) /\ v.confirmed = w.confirmed /\ (Same(w.top, v) \/ Opened(w.top, v))
<1> DEFINE Kept(v) == Good(v) /\ Owed(v, n, 0, 0) /\ v.confirmed = w.confirmed
                        /\ (Same(w.top, v) \/ Opened(w.top, v))
<1>1. Kept(w) /\ 0 \in Nat
  BY DEF Same
<1>2. Kept(closeHints(w))
  BY <1>1, ClosesHints
<1>3. Kept(openHints(w))
  BY OpensHints
<1>4. ASSUME key \in Targets PROVE Kept(Choose(w, key))
  <2> DEFINE chosen == [w EXCEPT !.chosen = 1]
  <2>1. Good(chosen) /\ Owed(chosen, n, 1, 0) /\ chosen.top = w.top /\ chosen.confirmed = w.confirmed
    BY Earns
  <2> HIDE DEF chosen
  <2>2. Kept(openDangerConfirm(closeHints(chosen), key))
    <3> DEFINE u == closeHints(chosen)
    <3> DEFINE v == openDangerConfirm(u, key)
    <3>1. Good(u) /\ Owed(u, n, 1, 0) /\ Same(w.top, u) /\ u.confirmed = w.confirmed
      BY <1>1, <2>1, ClosesHints
    <3> HIDE DEF u
    <3>2. Asking(u.top) \in Nat /\ 1 + Asking(u.top) > 0 /\ 1 + Asking(u.top) - 1 \in Nat
      BY DEF Asking
    <3>3. /\ Good(v) /\ Owed(v, n, 1 + Asking(u.top) - 1, 0) /\ Opened(u.top, v)
          /\ v.confirmed = u.confirmed
      BY <1>1, <1>4, <3>1, <3>2, OpensDialog
    <3> HIDE DEF v
    <3>4. Owed(v, n, 0, 0)
      BY <1>1, <3>2, <3>3, Keeps
    <3>5. Opened(w.top, v)
      BY <3>1, <3>3 DEF Opened, Same
    <3> QED BY <3>1, <3>3, <3>4, <3>5 DEF u, v
  <2>3. Kept(closeHints(pressHintEntry(chosen, key, FALSE)))
    <3> DEFINE u == pressHintEntry(chosen, key, FALSE)
    <3>1. /\ Good(u) /\ Owed(u, n, 0, 0) /\ u.confirmed = w.confirmed
          /\ (Same(w.top, u) \/ Opened(w.top, u))
      BY <1>4, <2>1, PressesEntry
    <3> HIDE DEF u
    <3> DEFINE v == closeHints(u)
    <3>2. Good(v) /\ Owed(v, n, 0, 0) /\ Same(u.top, v) /\ v.confirmed = u.confirmed
      BY <1>1, <3>1, ClosesHints
    <3> HIDE DEF v
    <3>3. Same(w.top, v) \/ Opened(w.top, v)
      BY <3>1, <3>2 DEF Same, Opened
    <3> QED BY <3>1, <3>2, <3>3 DEF u, v
  <2>4. \/ Choose(w, key) = closeHints(w)
        \/ Choose(w, key) = openDangerConfirm(closeHints(chosen), key)
        \/ Choose(w, key) = closeHints(pressHintEntry(chosen, key, FALSE))
    BY DEF Choose, chosen
  <2> HIDE DEF Kept
  <2> QED BY <1>2, <2>2, <2>3, <2>4
<1>5. \/ handleTopHintKey(w, key) \in {w, openHints(w), closeHints(w)}
      \/ key \in Targets /\ handleTopHintKey(w, key) = Choose(w, key)
  BY DEF handleTopHintKey, Targets
<1>6. Kept(handleTopHintKey(w, key))
  <2> HIDE DEF Kept
  <2> QED BY <1>1, <1>2, <1>3, <1>4, <1>5
<1> QED BY <1>6

\* The dialog with another hold or other fresh keys tells the frame nothing new.
LEMMA DialogTurns ==
    ASSUME Ready, NEW w, Good(w), NEW n \in Nat, Owed(w, n, 0, 0), NEW d \in Dialogs,
           d.open = w.top.dialog.open, d.born = w.top.dialog.born, d.armed = w.top.dialog.armed,
           d.open, d.hold => d.armed /\ "press" \in d.fresh
    PROVE  LET v == [w EXCEPT !.top = [w.top EXCEPT !.dialog = d]]
           IN Good(v) /\ Owed(v, n, 0, 0) /\ v.confirmed = w.confirmed /\ v.chosen = w.chosen
                /\ v.top.dialog = d /\ v.top.shown = w.top.shown /\ v.top.hints = w.top.hints
<1> DEFINE t == [w.top EXCEPT !.dialog = d]
<1> DEFINE v == [w EXCEPT !.top = t]
<1>1. w \in Works /\ w.top \in Tops
  BY DEF Good, Works
<1>2. t \in Tops /\ t.hints = w.top.hints /\ t.dialog = d /\ t.shown = w.top.shown
  BY <1>1 DEF Tops
<1> HIDE DEF t
<1>3. /\ v \in Works /\ v.top = t /\ v.press = w.press /\ Channel(v) = Channel(w) /\ v.chosen = w.chosen
      /\ v.confirmed = w.confirmed
  BY <1>1, <1>2, Turns
<1> HIDE DEF v
<1>4. DialogForm(t, doc)
  BY <1>2 DEF Good, DialogForm
<1>5. DownInv(t, Channel(w), child, doc)
  BY <1>2 DEF Good, DownInv, DialogTold, HeardOnce, HintsTold
<1>6. Good(v)
  BY <1>3, <1>4, <1>5 DEF Good
<1>7. Owed(v, n, 0, 0)
  BY <1>2, <1>3 DEF Owed, Due, Claims, Spent, Asking
<1> QED BY <1>2, <1>3, <1>6, <1>7 DEF v, t

\* The answer closes the dialog; the press it allows opens none.
LEMMA Finishes ==
    ASSUME Ready, NEW w, Good(w), NEW n \in Nat, Owed(w, n, 0, 0), w.top.dialog.open, w.confirmed = 0,
           NEW result
    PROVE  LET v == finish(w, result)
           IN Good(v) /\ Owed(v, n, 0, 0) /\ Closed(w.top, v)
                /\ (result = "cancel" => v.confirmed = 0)
<1> DEFINE v == finish(w, result)
<1>1. 0 \in Nat /\ 1 \in Nat /\ 0 + 1 = 1
  OBVIOUS
<1>2. CASE result = "cancel"
  <2>1. v = closeConfirm(w)
    BY <1>2 DEF finish
  <2>2. Good(v) /\ Owed(v, n, 0 + 1, 0) /\ Closed(w.top, v) /\ v.confirmed = w.confirmed
    BY <1>1, <2>1, ClosesDialog
  <2> HIDE DEF v
  <2>3. Owed(v, n, 0, 0)
    BY <1>1, <2>2, Keeps
  <2> QED BY <2>2, <2>3 DEF v
<1>3. CASE result # "cancel"
  <2> DEFINE confirming == [w EXCEPT !.confirmed = 1]
  <2> DEFINE u == closeConfirm(confirming)
  <2>1. v = pressHintEntry(u, w.top.dialog.target, TRUE)
    BY <1>3 DEF finish
  <2>2. Good(confirming) /\ Owed(confirming, n, 0, 1) /\ confirming.top = w.top
    BY Earns
  <2> HIDE DEF confirming, v
  <2>3. Good(u) /\ Owed(u, n, 0 + 1, 1) /\ Closed(w.top, u)
    BY <1>1, <2>2, ClosesDialog DEF Closed
  <2> HIDE DEF u
  <2>4. w.top.dialog.target \in Targets
    BY DEF Good, Works, Tops, Dialogs
  <2>5. Good(v) /\ Owed(v, n, 0, 0) /\ Same(u.top, v)
    BY <1>1, <2>1, <2>3, <2>4, PressesEntry
  <2>6. Closed(w.top, v)
    BY <2>3, <2>5 DEF Closed, Same
  <2> QED BY <1>3, <2>5, <2>6 DEF v
<1> QED BY <1>2, <1>3

\* What a key does to an open dialog.  One that was struck since it opened may
\* start the second of Space; Space let go ends it.
Heard(t, w, kind, key, repeat) ==
    /\ \/ Same(t, w) \/ Closed(t, w) \/ Loosened(t, w)
       \/ Pressing(t, w) /\ kind # "keyup" /\ key = "press" /\ ~repeat
    /\ w.confirmed # 0 => t.dialog.armed /\ kind # "keyup" /\ key = "confirm" /\ ~repeat
    /\ kind = "keyup" /\ key = "press" => w.top.dialog.hold = FALSE

\* The dialog hears a key.
LEMMA Handles ==
    ASSUME Ready, NEW w, Good(w), NEW n \in Nat, Owed(w, n, 0, 0), w.top.dialog.open, w.confirmed = 0,
           NEW kind, NEW key, NEW repeat \in BOOLEAN,
           w.top.dialog.armed /\ kind # "keyup" /\ key = "press" /\ ~repeat => "press" \in w.top.dialog.fresh
    PROVE  LET v == handle(w, kind, key, repeat)
           IN Good(v) /\ Owed(v, n, 0, 0) /\ Heard(w.top, v, kind, key, repeat)
<1> DEFINE d == w.top.dialog
<1> DEFINE v == handle(w, kind, key, repeat)
<1> DEFINE Kept == /\ Good(v) /\ Owed(v, n, 0, 0)
                   /\ \/ Same(w.top, v) \/ Closed(w.top, v) \/ Loosened(w.top, v)
                      \/ Pressing(w.top, v) /\ kind # "keyup" /\ key = "press" /\ ~repeat
                   /\ v.confirmed # 0 => w.top.dialog.armed /\ kind # "keyup" /\ key = "confirm" /\ ~repeat
                   /\ kind = "keyup" /\ key = "press" => v.top.dialog.hold = FALSE
<1>1. w \in Works /\ w.top \in Tops /\ d \in Dialogs /\ DialogForm(w.top, doc)
  BY DEF Good, Works, Tops
<1>2. ASSUME v = w, kind = "keyup" /\ key = "press" => ~d.armed PROVE Kept
  <2>1. d.hold \in BOOLEAN /\ (d.hold => d.armed)
    BY <1>1 DEF DialogForm, Dialogs
  <2> HIDE DEF v
  <2> QED BY <1>2, <2>1 DEF Same
<1>3. ASSUME v = [w EXCEPT !.top.dialog.hold = FALSE], kind = "keyup" PROVE Kept
  <2> DEFINE e == [d EXCEPT !.hold = FALSE]
  <2>1. /\ e \in Dialogs /\ e.open = d.open /\ e.born = d.born /\ e.armed = d.armed /\ e.open
        /\ e.hold = FALSE
    BY <1>1 DEF Dialogs
  <2>2. v = [w EXCEPT !.top = [w.top EXCEPT !.dialog = e]]
    BY <1>1, <1>3
  <2> HIDE DEF v
  <2>3. e = [w.top.dialog EXCEPT !.hold = FALSE]
    OBVIOUS
  <2> HIDE DEF e
  <2>4. /\ Good(v) /\ Owed(v, n, 0, 0) /\ v.confirmed = w.confirmed /\ v.top.dialog = e
        /\ v.top.shown = w.top.shown
    BY <2>1, <2>2, DialogTurns
  <2>5. Loosened(w.top, v)
    BY <2>3, <2>4 DEF Loosened
  <2> QED BY <2>1, <2>4, <2>5
<1>4. ASSUME v = [w EXCEPT !.top.dialog.hold = TRUE], d.armed, kind # "keyup", key = "press", ~repeat
      PROVE  Kept
  <2> DEFINE e == [d EXCEPT !.hold = TRUE]
  <2>1. /\ e \in Dialogs /\ e.open = d.open /\ e.born = d.born /\ e.armed = d.armed /\ e.open
        /\ e.armed /\ "press" \in e.fresh
    BY <1>1, <1>4 DEF Dialogs
  <2>2. v = [w EXCEPT !.top = [w.top EXCEPT !.dialog = e]]
    BY <1>1, <1>4
  <2> HIDE DEF v
  <2>3. e = [w.top.dialog EXCEPT !.hold = TRUE]
    OBVIOUS
  <2> HIDE DEF e
  <2>4. /\ Good(v) /\ Owed(v, n, 0, 0) /\ v.confirmed = w.confirmed /\ v.top.dialog = e
        /\ v.top.shown = w.top.shown
    BY <2>1, <2>2, DialogTurns
  <2>5. Pressing(w.top, v)
    BY <1>4, <2>3, <2>4 DEF Pressing
  <2> QED BY <1>4, <2>4, <2>5
<1>5. ASSUME v = finish(w, "confirm"), d.armed, kind # "keyup", key = "confirm", ~repeat PROVE Kept
  <2>1. Good(v) /\ Owed(v, n, 0, 0) /\ Closed(w.top, v)
    BY <1>5, Finishes
  <2> HIDE DEF v
  <2> QED BY <1>5, <2>1
<1>6. ASSUME v = finish(w, "cancel"), kind # "keyup" PROVE Kept
  <2>1. Good(v) /\ Owed(v, n, 0, 0) /\ Closed(w.top, v) /\ v.confirmed = 0
    BY <1>6, Finishes
  <2> HIDE DEF v
  <2> QED BY <1>6, <2>1
<1>7. \/ v = w /\ (kind = "keyup" /\ key = "press" => ~d.armed)
      \/ v = [w EXCEPT !.top.dialog.hold = FALSE] /\ kind = "keyup"
      \/ /\ v = [w EXCEPT !.top.dialog.hold = TRUE] /\ d.armed
         /\ kind # "keyup" /\ key = "press" /\ ~repeat
      \/ v = finish(w, "confirm") /\ d.armed /\ kind # "keyup" /\ key = "confirm" /\ ~repeat
      \/ v = finish(w, "cancel") /\ kind # "keyup"
  BY DEF handle
<1>8. Kept
  <2> HIDE DEF Kept, v, d
  <2> QED BY <1>2, <1>3, <1>4, <1>5, <1>6, <1>7
<1> QED BY <1>8 DEF Heard

\* Switching off closes what is open.
LEMMA SwitchesOff ==
    ASSUME Ready, NEW w, Good(w), NEW n \in Nat, Owed(w, n, 0, 0)
    PROVE  LET v == Off(w)
           IN /\ Good(v) /\ Owed(v, n, 0, 0) /\ v.confirmed = w.confirmed
              /\ v.top.dialog = NoDialog /\ v.top.shown = w.top.shown
<1> DEFINE u == closeHints(w)
<1>1. 0 \in Nat /\ 0 + 1 \in Nat
  OBVIOUS
<1>2. Good(u) /\ Owed(u, n, 0, 0) /\ Same(w.top, u) /\ u.confirmed = w.confirmed
  BY <1>1, ClosesHints
<1> HIDE DEF u
<1>3. CASE w.top.dialog.open
  <2> DEFINE v == closeConfirm(u)
  <2>1. Good(v) /\ Owed(v, n, 0 + 1, 0) /\ Closed(u.top, v) /\ v.confirmed = u.confirmed
    BY <1>1, <1>2, <1>3, ClosesDialog DEF Same
  <2> HIDE DEF v
  <2>2. Owed(v, n, 0, 0)
    BY <1>1, <2>1, Keeps
  <2>3. Off(w) = v
    BY <1>3 DEF Off, u, v
  <2> QED BY <1>2, <2>1, <2>2, <2>3 DEF Closed, Same
<1>4. CASE ~w.top.dialog.open
  <2>1. w.top.dialog = NoDialog
    BY <1>4 DEF Good, DialogForm
  <2>2. Off(w) = u
    BY <1>4 DEF Off, u
  <2> QED BY <1>2, <2>1, <2>2 DEF Same
<1> QED BY <1>3, <1>4

\* A sum in another order.
LEMMA Regroup ==
    ASSUME NEW p \in Nat, NEW l \in Nat, NEW r \in Nat, NEW a \in Nat, NEW n \in Nat,
           NEW x \in Nat, NEW y \in Nat, p + (l + r + a) + n + 0 <= x + y
    PROVE  p + l + r + n + a <= x + y
OBVIOUS

\* What the handler leaves behind.
LEMMA Delivers ==
    ASSUME Ready, NEW w, Good(w), NEW n \in Nat, Owed(w, n, 0, 0), Done(w)
    PROVE  /\ top' = w.top /\ top' \in Tops /\ toChild' \in Seq(Down)
           /\ tally' \in [chosen : Nat, pressed : Nat, confirmed : Nat, spent : Nat]
           /\ tally'.confirmed = tally.confirmed + w.confirmed
           /\ DialogForm(top', doc) /\ DownInv(top', toChild', child, doc)
           /\ tally'.pressed + Requests(toChild') + n + Asking(top') <= tally'.chosen
           /\ tally'.spent + Consents(toChild') <= tally'.confirmed
<1>1. Typed /\ w \in Works
  BY DEF Ready, Good
<1>2. top' = w.top /\ toChild' = Channel(w) /\ Counted(w.press, w.chosen, w.confirmed)
  BY DEF Done, Channel
<1>3. top' \in Tops /\ toChild' \in Seq(Down)
  BY <1>1, <1>2, DownMessages, Sends DEF Works
<1>4. DialogForm(top', doc) /\ DownInv(top', toChild', child, doc)
  BY <1>2 DEF Good
<1>5. /\ Due(w) \in Nat /\ Claims(w) \in Nat /\ w.chosen \in Nat /\ w.confirmed \in Nat
      /\ Len(w.press) \in Nat /\ Spent(w) \in Nat /\ Asking(w.top) \in Nat
      /\ Requests(Channel(w)) \in Nat /\ Consents(Channel(w)) \in Nat
      /\ tally.pressed \in Nat /\ tally.chosen \in Nat /\ tally.spent \in Nat /\ tally.confirmed \in Nat
  BY <1>1, Amounts
<1>6. /\ tally' = [chosen |-> tally.chosen + w.chosen, confirmed |-> tally.confirmed + w.confirmed,
                   pressed |-> tally.pressed + Len(w.press), spent |-> tally.spent + Spent(w)]
  <2>1. (IF w.press # <<>> /\ (w.press[1].confirmed \/ looks[w.press[1].target] = "dangerous")
         THEN tally.spent + 1 ELSE tally.spent) = tally.spent + Spent(w)
    BY <1>5 DEF Spent
  <2> QED BY <1>2, <2>1 DEF Counted
<1>7. /\ tally'.chosen = tally.chosen + w.chosen /\ tally'.confirmed = tally.confirmed + w.confirmed
      /\ tally'.pressed = tally.pressed + Len(w.press) /\ tally'.spent = tally.spent + Spent(w)
  BY <1>6
<1>8. tally' \in [chosen : Nat, pressed : Nat, confirmed : Nat, spent : Nat]
  <2>1. \A a, b \in Nat : a + b \in Nat
    OBVIOUS
  <2>2. tally.chosen + w.chosen \in Nat
    BY <1>5, <2>1
  <2>3. tally.confirmed + w.confirmed \in Nat
    BY <1>5, <2>1
  <2>4. tally.pressed + Len(w.press) \in Nat
    BY <1>5, <2>1
  <2>5. tally.spent + Spent(w) \in Nat
    BY <1>5, <2>1
  <2> QED BY <1>6, <2>2, <2>3, <2>4, <2>5
<1>9. /\ tally.pressed + (Len(w.press) + Requests(Channel(w)) + Asking(w.top)) + n + 0
            <= tally.chosen + w.chosen
      /\ tally.spent + (Spent(w) + Consents(Channel(w))) + 0 <= tally.confirmed + w.confirmed
  BY DEF Owed, Due, Claims
<1>10. tally.pressed + Len(w.press) + Requests(Channel(w)) + n + Asking(w.top) <= tally.chosen + w.chosen
  BY <1>5, <1>9, Regroup
<1>11. tally.spent + Spent(w) + Consents(Channel(w)) <= tally.confirmed + w.confirmed
  BY <1>5, <1>9
<1> QED BY <1>2, <1>3, <1>4, <1>7, <1>8, <1>10, <1>11

-----------------------------------------------------------------------------
(* The keys on their way from the child *)

\* However the dialog moves, short of Space going down.
LEMMA UpMoves ==
    ASSUME NEW t \in Tops, NEW up \in Seq(Upward), NEW c, NEW f, NEW h, NEW e \in BOOLEAN, NEW d \in Nat,
           UpInv(t, up, c, f, h, e, d), NEW w,
           Same(t, w) \/ Opened(t, w) \/ Closed(t, w) \/ Loosened(t, w)
    PROVE  /\ UpInv(w.top, up, c, f, h, e, d)
           /\ Holding(t, up, h, e, d) => Holding(w.top, up, h, e, d)
<1> DEFINE u == w.top
<1>1. t.shown \in Nat /\ t.dialog \in Dialogs
  BY DEF Tops
<1>2. KeysNumbered(up, t.shown)
  BY DEF UpInv
<1>3. CASE Same(t, w)
  BY <1>3 DEF Same, UpInv, Holding, KeysArmed, KeysFresh, KeysHeard, KeysReleased
<1>4. CASE Opened(t, w)
  <2>1. u.shown = t.shown + 1 /\ u.dialog.armed = FALSE /\ u.dialog.hold = FALSE
    BY <1>4 DEF Opened
  <2>2. \A i \in 1..Len(up) : up[i].type = "confirm/key" => up[i].dialog # u.shown /\ up[i].dialog \in 1..u.shown
    BY <1>1, <1>2, <2>1 DEF KeysNumbered
  <2>3. \A i \in 1..Len(up) : ~Answer(up[i], u.shown)
    BY <2>2 DEF Answer
  <2> QED BY <2>1, <2>2, <2>3
       DEF UpInv, Holding, KeysNumbered, KeysArmed, KeysFresh, KeysHeard, KeysReleased, Struck
<1>5. CASE Closed(t, w)
  <2>1. u.shown = t.shown /\ ~u.dialog.open /\ ~u.dialog.armed /\ ~u.dialog.hold
    BY <1>5 DEF Closed, NoDialog
  <2> QED BY <1>2, <2>1 DEF UpInv, Holding, KeysArmed
<1>6. CASE Loosened(t, w)
  <2>1. /\ u.shown = t.shown /\ u.dialog.hold = FALSE /\ u.dialog.open = t.dialog.open
        /\ u.dialog.armed = t.dialog.armed /\ u.dialog.born = t.dialog.born /\ u.dialog.fresh = t.dialog.fresh
    BY <1>1, <1>6 DEF Loosened, Dialogs
  <2> QED BY <2>1 DEF UpInv, Holding, KeysArmed, KeysFresh, KeysHeard, KeysReleased
<1> QED BY <1>3, <1>4, <1>5, <1>6

\* A message of the child that is not a key, behind the others.
LEMMA UpSays ==
    ASSUME NEW t, NEW up \in Seq(Upward), NEW c, NEW f, NEW h, NEW e, NEW d,
           UpInv(t, up, c, f, h, e, d), Holding(t, up, h, e, d),
           NEW m \in Upward, m.type # "confirm/key"
    PROVE  UpInv(t, Append(up, m), c, f, h, e, d) /\ Holding(t, Append(up, m), h, e, d)
<1> DEFINE new == Append(up, m)
<1>1. /\ Len(up) \in Nat /\ Len(new) = Len(up) + 1 /\ (\A i \in 1..Len(up) : new[i] = up[i])
      /\ new[Len(up) + 1] = m
  BY Longer
<1> HIDE DEF new
<1>2. \A i \in 1..Len(new) : (i \in 1..Len(up) /\ new[i] = up[i]) \/ new[i].type # "confirm/key"
  BY <1>1
<1>3. \A i \in 0..Len(up) : Going(up, i) => Going(new, i)
  BY <1>1 DEF Going
<1>4. KeysNumbered(new, t.shown) /\ KeysArmed(t, new)
  BY <1>2 DEF UpInv, KeysNumbered, KeysArmed
<1>5. KeysFresh(t, up) => KeysFresh(t, new)
  BY <1>2 DEF KeysFresh, Struck, Answer
<1>6. KeysHeard(t, up, c) => KeysHeard(t, new, c)
  BY <1>2 DEF KeysHeard, Answer
<1>7. KeysReleased(t, up, f, h, e) => KeysReleased(t, new, f, h, e)
  BY <1>1, <1>2, <1>3 DEF KeysReleased, Struck, Answer
<1>8. Holding(t, new, h, e, d)
  BY <1>1, <1>3 DEF Holding
<1> QED BY <1>4, <1>5, <1>6, <1>7, <1>8 DEF UpInv, new

\* A key of the child that was struck while its frame knew of the dialog.
LEMMA UpKeys ==
    ASSUME NEW t, NEW up \in Seq(Upward), NEW c, NEW f, NEW h, NEW e, NEW d, t.shown \in Nat,
           UpInv(t, up, c, f, h, e, d), Holding(t, up, h, e, d),
           NEW m \in Upward, m.type = "confirm/key", m.dialog = c.dialog, m.dialog \in 1..t.shown,
           t.dialog.armed => m.dialog = t.shown,
           t.dialog.open /\ Struck(m, t.shown) /\ m.key \in Answers => m.key \in t.dialog.fresh,
           Struck(m, t.shown) /\ m.key = "press" => e /\ f = "child" /\ "press" \in h
    PROVE  UpInv(t, Append(up, m), c, f, h, e, d) /\ Holding(t, Append(up, m), h, e, d)
<1> DEFINE new == Append(up, m)
<1>1. /\ Len(up) \in Nat /\ Len(new) = Len(up) + 1 /\ (\A i \in 1..Len(up) : new[i] = up[i])
      /\ new[Len(up) + 1] = m
  BY Longer
<1> HIDE DEF new
<1>2. \A i \in 1..Len(new) : (i \in 1..Len(up) /\ new[i] = up[i]) \/ new[i] = m
  BY <1>1
<1>3. \A i \in 0..Len(up) : Going(up, i) => Going(new, i)
  BY <1>1 DEF Going
<1>4. KeysNumbered(new, t.shown) /\ KeysArmed(t, new)
  BY <1>2 DEF UpInv, KeysNumbered, KeysArmed
<1>5. t.dialog.open => KeysFresh(t, new)
  BY <1>2 DEF UpInv, KeysFresh
<1>6. KeysHeard(t, up, c) => KeysHeard(t, new, c)
  BY <1>2 DEF KeysHeard, Answer
<1>7. KeysReleased(t, up, f, h, e) => KeysReleased(t, new, f, h, e)
  BY <1>1, <1>2, <1>3 DEF KeysReleased
<1>8. Holding(t, new, h, e, d)
  BY <1>1, <1>3 DEF Holding
<1> QED BY <1>4, <1>5, <1>6, <1>7, <1>8 DEF UpInv, new

\* Space comes up, or its frame loses the focus, and the frame says so: the
\* keys and the focus may then be anything.
LEMMA UpLetsGo ==
    ASSUME NEW t, NEW up \in Seq(Upward), NEW c, NEW f, NEW h, NEW e, NEW d, t.shown \in Nat,
           UpInv(t, up, c, f, h, e, d), Holding(t, up, h, e, d),
           NEW m \in Upward, LetGo(m), m.dialog = c.dialog, m.dialog \in 1..t.shown,
           t.dialog.armed => m.dialog = t.shown, NEW g, NEW k
    PROVE  UpInv(t, Append(up, m), c, g, k, e, d) /\ Holding(t, Append(up, m), k, e, d)
<1> DEFINE new == Append(up, m)
<1>1. /\ Len(up) \in Nat /\ Len(new) = Len(up) + 1 /\ (\A i \in 1..Len(up) : new[i] = up[i])
      /\ new[Len(up) + 1] = m
  BY Longer
<1> HIDE DEF new
<1>2. \A i \in 1..Len(new) : (i \in 1..Len(up) /\ new[i] = up[i]) \/ new[i] = m
  BY <1>1
<1>3. \A i \in 0..Len(up) : Going(new, i)
  <2> SUFFICES ASSUME NEW i \in 0..Len(up) PROVE Going(new, i)
    OBVIOUS
  <2>1. Len(up) + 1 \in 1..Len(new) /\ Len(up) + 1 > i
    BY <1>1
  <2> QED BY <1>1, <2>1 DEF Going
<1>4. m.type = "confirm/key" /\ m.kind = "keyup" /\ \A n : ~Struck(m, n)
  BY DEF LetGo, Struck
<1>5. KeysNumbered(new, t.shown) /\ KeysArmed(t, new)
  BY <1>2, <1>4 DEF UpInv, KeysNumbered, KeysArmed
<1>6. t.dialog.open => KeysFresh(t, new)
  BY <1>2, <1>4 DEF UpInv, KeysFresh
<1>7. KeysHeard(t, up, c) => KeysHeard(t, new, c)
  BY <1>2 DEF KeysHeard, Answer
<1>8. KeysReleased(t, up, f, h, e) => KeysReleased(t, new, g, k, e)
  BY <1>1, <1>2, <1>3, <1>4 DEF KeysReleased
<1>9. Holding(t, new, k, e, d)
  BY <1>1, <1>3 DEF Holding
<1> QED BY <1>5, <1>6, <1>7, <1>8, <1>9 DEF UpInv, new

\* While the top document has the focus nothing depends on what is held.
LEMMA UpFromTop ==
    ASSUME NEW t, NEW up, NEW c, NEW h, NEW e, NEW d,
           UpInv(t, up, c, "top", h, e, d), NEW g, NEW k
    PROVE  UpInv(t, up, c, g, k, e, d)
BY DEF UpInv, KeysReleased

\* Nor does it while the child knows of no dialog.
LEMMA UpUnheard ==
    ASSUME NEW t, NEW up, NEW c, NEW f, NEW h, NEW e, NEW d, UpInv(t, up, c, f, h, e, d),
           t.dialog.open => t.shown > 0, c.dialog = 0, NEW g, NEW k
    PROVE  UpInv(t, up, c, g, k, e, d)
BY DEF UpInv, KeysHeard, KeysReleased, Struck

\* Keys that go down and a helper that goes on take nothing away.
LEMMA UpHolds ==
    ASSUME NEW t, NEW up, NEW c, NEW f, NEW h, NEW e, NEW d,
           UpInv(t, up, c, f, h, e, d), NEW k, "press" \in h => "press" \in k, NEW b, e => b
    PROVE  /\ UpInv(t, up, c, f, k, b, d)
           /\ Holding(t, up, h, e, d) => Holding(t, up, k, b, d)
BY DEF UpInv, KeysReleased, Holding

\* The top document has taken the first message.
LEMMA UpHeard ==
    ASSUME NEW t, NEW up \in Seq(Upward), up # <<>>, NEW c, NEW f, NEW h, NEW e, NEW d,
           UpInv(t, up, c, f, h, e, d), Holding(t, up, h, e, d)
    PROVE  /\ Tail(up) \in Seq(Upward) /\ Head(up) \in Upward
           /\ UpInv(t, Tail(up), c, f, h, e, d)
           /\ ~LetGo(Head(up)) => Holding(t, Tail(up), h, e, d)
           /\ t.dialog.armed /\ Head(up).type = "confirm/key" => Head(up).dialog = t.shown
           /\ t.dialog.open /\ Struck(Head(up), t.shown) /\ Head(up).key \in Answers
                 => Head(up).key \in t.dialog.fresh
           /\ t.dialog.open /\ t.dialog.born = d /\ Struck(Head(up), t.shown) /\ Head(up).key = "press"
                 => e /\ ("press" \in h \/ Going(Tail(up), 0))
<1> DEFINE rest == Tail(up)
<1> DEFINE m == Head(up)
<1>1. /\ rest \in Seq(Upward) /\ Len(up) \in Nat /\ Len(up) > 0 /\ Len(rest) = Len(up) - 1
      /\ \A i \in 1..Len(rest) : rest[i] = up[i + 1]
      /\ m = up[1] /\ m \in Upward
  BY Shorter
<1> HIDE DEF rest, m
<1>2. 1 \in 1..Len(up) /\ \A i \in 1..Len(rest) : i + 1 \in 1..Len(up)
  BY <1>1
<1>3. \A i \in 0..Len(rest) : Going(up, i + 1) => Going(rest, i)
  <2> SUFFICES ASSUME NEW i \in 0..Len(rest), NEW j \in 1..Len(up), j > i + 1, LetGo(up[j])
               PROVE  Going(rest, i)
    BY DEF Going
  <2>1. j - 1 \in 1..Len(rest) /\ j - 1 > i /\ rest[j - 1] = up[j]
    BY <1>1
  <2> QED BY <2>1 DEF Going
<1>4. ~LetGo(m) => (Going(up, 0) => Going(up, 1))
  <2> SUFFICES ASSUME ~LetGo(m), NEW j \in 1..Len(up), LetGo(up[j]) PROVE Going(up, 1)
    BY DEF Going
  <2>1. j # 1
    BY <1>1
  <2> QED BY <1>1, <2>1 DEF Going
<1>5. KeysNumbered(rest, t.shown) /\ KeysArmed(t, rest)
  BY <1>1, <1>2 DEF UpInv, KeysNumbered, KeysArmed
<1>6. KeysFresh(t, up) => KeysFresh(t, rest)
  BY <1>1, <1>2 DEF KeysFresh
<1>7. KeysHeard(t, up, c) => KeysHeard(t, rest, c)
  BY <1>1, <1>2 DEF KeysHeard
<1>8. KeysReleased(t, up, f, h, e) => KeysReleased(t, rest, f, h, e)
  <2> SUFFICES ASSUME KeysReleased(t, up, f, h, e), NEW i \in 1..Len(rest),
                      Struck(rest[i], t.shown), rest[i].key = "press"
               PROVE  e /\ ((f = "child" /\ "press" \in h) \/ Going(rest, i))
    BY DEF KeysReleased
  <2>1. e /\ ((f = "child" /\ "press" \in h) \/ Going(up, i + 1))
    BY <1>1, <1>2 DEF KeysReleased
  <2> QED BY <1>1, <1>3, <2>1
<1>9. UpInv(t, rest, c, f, h, e, d)
  BY <1>5, <1>6, <1>7, <1>8 DEF UpInv
<1>10. ~LetGo(m) => Holding(t, rest, h, e, d)
  <2>1. ~LetGo(m) /\ Going(up, 0) => Going(rest, 0)
    <3>1. 0 \in 0..Len(rest) /\ 0 + 1 = 1
      BY <1>1
    <3> QED BY <1>3, <1>4, <3>1
  <2> QED BY <2>1 DEF Holding
<1>11. t.dialog.armed /\ m.type = "confirm/key" => m.dialog = t.shown
  BY <1>1, <1>2 DEF UpInv, KeysArmed
<1>12. t.dialog.open /\ Struck(m, t.shown) /\ m.key \in Answers => m.key \in t.dialog.fresh
  BY <1>1, <1>2 DEF UpInv, KeysFresh
<1>13. t.dialog.open /\ t.dialog.born = d /\ Struck(m, t.shown) /\ m.key = "press"
         => e /\ ("press" \in h \/ Going(rest, 0))
  <2> SUFFICES ASSUME t.dialog.open, t.dialog.born = d, Struck(m, t.shown), m.key = "press"
               PROVE  e /\ ("press" \in h \/ Going(rest, 0))
    OBVIOUS
  <2>1. e /\ ("press" \in h \/ Going(up, 1))
    BY <1>1, <1>2 DEF UpInv, KeysReleased
  <2>2. 0 \in 0..Len(rest) /\ 0 + 1 = 1
    BY <1>1
  <2> QED BY <1>3, <2>1, <2>2
<1> QED BY <1>1, <1>9, <1>10, <1>11, <1>12, <1>13 DEF rest, m

-----------------------------------------------------------------------------
(* The steps *)

\* What a step that confirms has to show
Confirmed == tally'.confirmed > tally.confirmed =>
                top.dialog.fresh \cup (IF focus = "top" THEN held' \ held ELSE {}) # {}

\* A step of a handler of the top document, from what it leaves.
LEMMA Concludes ==
    ASSUME IInv, NEW w, Good(w), Done(w), NEW n \in Nat, n = Refusals(toTop'), Owed(w, n, 0, 0),
           toTop' \in Seq(Upward), enabled' \in BOOLEAN, known' \in Looks, UNCHANGED <<looks, doc, child>>,
           focus' \in Frames, held' \subseteq Answers, events' \in 0..MaxEvents, doc \in 0..events',
           UpInv(w.top, toTop', child, focus', held', enabled', doc),
           Holding(w.top, toTop', held', enabled', doc)
    PROVE  IInv' /\ tally'.confirmed = tally.confirmed + w.confirmed
<1>1. Ready /\ Typed
  BY DEF IInv, Ready
<1>2. /\ top' = w.top /\ top' \in Tops /\ toChild' \in Seq(Down)
      /\ tally' \in [chosen : Nat, pressed : Nat, confirmed : Nat, spent : Nat]
      /\ tally'.confirmed = tally.confirmed + w.confirmed
      /\ DialogForm(top', doc) /\ DownInv(top', toChild', child, doc)
      /\ tally'.pressed + Requests(toChild') + n + Asking(top') <= tally'.chosen
      /\ tally'.spent + Consents(toChild') <= tally'.confirmed
  BY <1>1, Delivers
<1>3. looks' = looks /\ doc' = doc /\ child' = child
  OBVIOUS
<1>4. Typed'
  BY <1>1, <1>2, <1>3 DEF Typed
<1>5. Accounts'
  BY <1>2 DEF Accounts
<1>6. DialogForm(top', doc') /\ DownInv(top', toChild', child', doc')
  BY <1>2, <1>3
<1>7. /\ UpInv(top', toTop', child', focus', held', enabled', doc')
      /\ Holding(top', toTop', held', enabled', doc')
  BY <1>2, <1>3
<1> QED BY <1>2, <1>4, <1>5, <1>6, <1>7 DEF IInv

\* What every handler may start from.
LEMMA Begins ==
    ASSUME IInv
    PROVE  /\ Ready /\ Typed /\ Good(Work) /\ Owed(Work, Refusals(toTop), 0, 0)
           /\ Work.top = top /\ Work.chosen = 0 /\ Work.confirmed = 0
           /\ Refusals(toTop) \in Nat /\ top \in Tops /\ toTop \in Seq(Upward) /\ enabled \in BOOLEAN
           /\ doc \in Nat /\ top.shown \in Nat /\ top.dialog \in Dialogs
           /\ (top.dialog.hold => top.dialog.armed /\ "press" \in top.dialog.fresh)
           /\ (top.dialog.armed => top.dialog.open) /\ (top.dialog.open => top.shown > 0)
           /\ tally.confirmed \in Nat
           /\ UpInv(top, toTop, child, focus, held, enabled, doc)
           /\ Holding(top, toTop, held, enabled, doc)
<1>1. Typed /\ Ready /\ Accounts /\ DialogForm(top, doc)
  BY DEF IInv, Ready
<1>2. /\ top \in Tops /\ toTop \in Seq(Upward) /\ enabled \in BOOLEAN /\ doc \in Nat /\ tally.confirmed \in Nat
  BY <1>1 DEF Typed
<1>3. top.shown \in Nat /\ top.dialog \in Dialogs
  BY <1>2 DEF Tops
<1>4. Refusals(toTop) \in Nat
  BY <1>2, UpMessages, CountSaid
<1>5. /\ (top.dialog.hold => top.dialog.armed /\ "press" \in top.dialog.fresh)
      /\ (top.dialog.open => top.shown > 0)
      /\ (top.dialog.armed => top.dialog.open)
  BY <1>1, <1>3 DEF DialogForm, NoDialog
<1> QED BY <1>1, <1>2, <1>3, <1>4, <1>5, Starts DEF IInv

\* A step that keeps what the channels and the tally are and follows the dialog.
LEMMA Rests ==
    ASSUME IInv, toTop' = toTop, known' \in Looks, UNCHANGED <<looks, doc, child, enabled>>,
           focus' = focus, held' = held, events' = events, NEW w, Good(w), Done(w),
           Owed(w, Refusals(toTop), 0, 0),
           Same(top, w) \/ Opened(top, w) \/ Closed(top, w) \/ Loosened(top, w)
    PROVE  IInv' /\ tally'.confirmed = tally.confirmed + w.confirmed
<1>1. /\ Refusals(toTop) \in Nat /\ top \in Tops /\ toTop \in Seq(Upward) /\ enabled \in BOOLEAN /\ doc \in Nat
      /\ UpInv(top, toTop, child, focus, held, enabled, doc)
      /\ Holding(top, toTop, held, enabled, doc) /\ Typed
  BY Begins
<1>2. /\ UpInv(w.top, toTop, child, focus, held, enabled, doc)
      /\ Holding(w.top, toTop, held, enabled, doc)
  BY <1>1, UpMoves
<1>3. /\ focus \in Frames /\ held \subseteq Answers /\ events \in 0..MaxEvents /\ doc \in 0..events
  BY <1>1 DEF Typed
<1> QED BY <1>1, <1>2, <1>3, Concludes

\* The second of protection ends.
LEMMA GuardEndsKeeps == IInv /\ GuardEnds => IInv' /\ Confirmed
<1> SUFFICES ASSUME IInv, GuardEnds PROVE IInv' /\ Confirmed
  OBVIOUS
<1> USE DEF GuardEnds, Still, page, user
<1>1. /\ Typed /\ top \in Tops /\ top.dialog \in Dialogs /\ top.dialog.open /\ toTop \in Seq(Upward)
      /\ top.shown \in Nat /\ tally.confirmed \in Nat
  BY Begins
<1>2. /\ top' \in Tops /\ top'.dialog.open /\ top'.dialog.armed /\ top'.dialog.born = top.dialog.born
      /\ top'.dialog.hold = top.dialog.hold /\ top'.dialog.fresh = top.dialog.fresh
      /\ top'.shown = top.shown /\ top'.hints = top.hints
  <2> DEFINE d == [top.dialog EXCEPT !.armed = TRUE]
  <2>1. /\ d \in Dialogs /\ d.open /\ d.armed /\ d.born = top.dialog.born /\ d.hold = top.dialog.hold
        /\ d.fresh = top.dialog.fresh
    BY <1>1 DEF Dialogs
  <2>2. top' = [top EXCEPT !.dialog = d]
    BY <1>1
  <2> HIDE DEF d
  <2> QED BY <1>1, <2>1, <2>2 DEF Tops
<1>3. Typed'
  BY <1>1, <1>2 DEF Typed
<1>4. Accounts'
  <2>1. Asking(top') = Asking(top)
    BY <1>1, <1>2 DEF Asking
  <2> QED BY <2>1 DEF IInv, Accounts
<1>5. DialogForm(top', doc)
  BY <1>2 DEF IInv, DialogForm
<1>6. DownInv(top', toChild, child, doc)
  <2>1. NoWord(toChild, "confirm/state")
    BY DEF NoWord
  <2> QED BY <1>2, <2>1 DEF IInv, DownInv, DialogTold, HeardOnce, HintsTold
<1>7. UpInv(top', toTop, child, focus, held, enabled, doc)
  <2>1. \A i \in 1..Len(toTop) : toTop[i].type = "confirm/key" => toTop[i].dialog = top.shown
    OBVIOUS
  <2> QED BY <1>2, <2>1 DEF IInv, UpInv, KeysArmed, KeysFresh, KeysHeard, KeysReleased
<1>8. Holding(top', toTop, held, enabled, doc)
  BY <1>2 DEF IInv, Holding
<1>9. Confirmed
  BY <1>1 DEF Confirmed
<1> QED BY <1>3, <1>4, <1>5, <1>6, <1>7, <1>8, <1>9 DEF IInv

\* Space has been held for its second.
LEMMA HoldEndsKeeps == IInv /\ HoldEnds => IInv' /\ Confirmed
<1> SUFFICES ASSUME IInv, HoldEnds PROVE IInv' /\ Confirmed
  OBVIOUS
<1> DEFINE w == finish(Work, "confirm")
<1>1. /\ Ready /\ Good(Work) /\ Owed(Work, Refusals(toTop), 0, 0) /\ Work.top = top /\ Work.confirmed = 0
      /\ Refusals(toTop) \in Nat /\ top.dialog.open /\ "press" \in top.dialog.fresh
      /\ Typed
  BY Begins DEF HoldEnds
<1>2. Good(w) /\ Owed(w, Refusals(toTop), 0, 0) /\ Closed(top, w)
  BY <1>1, Finishes
<1>3. Done(w)
  BY DEF HoldEnds
<1> HIDE DEF w
<1>4. IInv'
  BY <1>1, <1>2, <1>3, Rests DEF HoldEnds, Still, page, user, Typed
<1> QED BY <1>1, <1>4 DEF Confirmed

\* The click on the button of the dialog.
LEMMA ClickCancelKeeps == IInv /\ ClickCancel => IInv' /\ Confirmed
<1> SUFFICES ASSUME IInv, ClickCancel PROVE IInv' /\ Confirmed
  OBVIOUS
<1> DEFINE w == finish(Work, "cancel")
<1>1. /\ Ready /\ Good(Work) /\ Owed(Work, Refusals(toTop), 0, 0) /\ Work.top = top /\ Work.confirmed = 0
      /\ Refusals(toTop) \in Nat /\ top.dialog.open /\ Typed /\ tally.confirmed \in Nat
  BY Begins DEF ClickCancel
<1>2. Good(w) /\ Owed(w, Refusals(toTop), 0, 0) /\ Closed(top, w) /\ w.confirmed = 0
  BY <1>1, Finishes
<1>3. Done(w)
  BY DEF ClickCancel
<1> HIDE DEF w
<1>4. IInv' /\ tally'.confirmed = tally.confirmed + w.confirmed
  BY <1>1, <1>2, <1>3, Rests DEF ClickCancel, Still, page, user, Typed
<1> QED BY <1>1, <1>2, <1>4 DEF Confirmed

\* The numbers appear.
LEMMA HintsOpenKeeps == IInv /\ HintsOpen => IInv' /\ Confirmed
<1> SUFFICES ASSUME IInv, HintsOpen PROVE IInv' /\ Confirmed
  OBVIOUS
<1> DEFINE s == [top EXCEPT !.hints = Head(top.readings)]
<1> DEFINE t == [s EXCEPT !.readings = Tail(top.readings)]
<1> DEFINE u == [Work EXCEPT !.top = t]
<1> DEFINE m == [type |-> "hints/state", on |-> TRUE]
<1> DEFINE w == Sending(u, m)
<1> DEFINE n == Refusals(toTop)
<1> DEFINE ch == Channel(Work)
<1>1. /\ Ready /\ Typed /\ Good(Work) /\ Owed(Work, n, 0, 0) /\ Work.top = top /\ Work.confirmed = 0
      /\ n \in Nat /\ top \in Tops /\ Work \in Works /\ tally.confirmed \in Nat
  BY Begins DEF Good
<1>2. /\ top.readings \in Seq((SUBSET Targets) \ {{}}) /\ top.readings # <<>>
  BY <1>1 DEF Tops, HintsOpen
<1>3. Head(top.readings) \in (SUBSET Targets) \ {{}} /\ Tail(top.readings) \in Seq((SUBSET Targets) \ {{}})
  BY <1>2, HeadTailProperties
<1>4. /\ t \in Tops /\ t.dialog = top.dialog /\ t.shown = top.shown /\ t.hints # {}
  <2>1. /\ s \in Tops /\ s.dialog = top.dialog /\ s.shown = top.shown /\ s.hints = Head(top.readings)
    BY <1>1, <1>3 DEF Tops
  <2> HIDE DEF s
  <2> QED BY <1>3, <2>1 DEF Tops
<1>5. Done(w)
  <2> DEFINE x == [Work EXCEPT !.top.hints = Head(top.readings), !.top.readings = Tail(@)]
  <2>1. Done(Sending(x, m))
    BY DEF HintsOpen
  <2>2. x = u
    BY <1>1 DEF Works, Tops
  <2> QED BY <2>1, <2>2
<1>6. m \in Down /\ m.type = "hints/state" /\ m.on = TRUE
  BY DownMessages
<1> HIDE DEF t, m
<1>7. /\ u \in Works /\ u.top = t /\ u.press = Work.press /\ Channel(u) = ch
      /\ u.chosen = Work.chosen /\ u.confirmed = Work.confirmed
  BY <1>1, <1>4, Turns
<1> HIDE DEF u
<1>8. /\ w \in Works /\ w.top = t /\ w.press = Work.press /\ Channel(w) = Append(ch, m) /\ ch \in Seq(Down)
      /\ w.chosen = Work.chosen /\ w.confirmed = Work.confirmed
  BY <1>1, <1>6, <1>7, Sends
<1> HIDE DEF w, ch
<1>9. DownInv(top, ch, child, doc) /\ DialogForm(top, doc)
  BY <1>1 DEF Good, ch
<1>10. Good(w)
  <2>1. DialogForm(t, doc)
    BY <1>4, <1>9 DEF DialogForm
  <2>2. NumberedTo(Append(ch, m), t.shown)
    BY <1>4, <1>6, <1>8, <1>9, DownSaid DEF DownInv
  <2>3. DialogTold(t, Append(ch, m), child, doc)
    BY <1>4, <1>6, <1>8, <1>9, DownSaid DEF DownInv, DialogTold
  <2>4. HeardOnce(t, Append(ch, m), child)
    BY <1>4, <1>6, <1>8, <1>9, DownSaid DEF DownInv, HeardOnce
  <2>5. HintsTold(t, Append(ch, m), child, doc)
    BY <1>4, <1>6, <1>8, DownSaid DEF HintsTold
  <2>6. t.dialog.armed => NoWord(Append(ch, m), "confirm/state")
    BY <1>4, <1>6, <1>8, <1>9, DownSaid DEF DownInv
  <2> QED BY <1>4, <1>8, <1>9, <2>1, <2>2, <2>3, <2>4, <2>5, <2>6 DEF Good, DownInv
<1>11. Owed(w, n, 0, 0)
  <2>1. Requests(Append(ch, m)) = Requests(ch) /\ Consents(Append(ch, m)) = Consents(ch)
    BY <1>6, <1>8, CountSaid
  <2> QED BY <1>1, <1>4, <1>8, <2>1 DEF Owed, Due, Claims, Spent, Asking, ch
<1>12. Same(top, w)
  BY <1>4, <1>8 DEF Same
<1>13. IInv' /\ tally'.confirmed = tally.confirmed + w.confirmed
  BY <1>1, <1>5, <1>10, <1>11, <1>12, Rests DEF HintsOpen, Still, page, user, Typed
<1> QED BY <1>1, <1>8, <1>13 DEF Confirmed

\* The keys struck since the dialog opened are noted before they are heard.
LEMMA Notes ==
    ASSUME IInv, NEW kind, NEW key, NEW repeat \in BOOLEAN
    PROVE  LET w == IF kind = "keydown" /\ ~repeat /\ top.dialog.open
                    THEN [Work EXCEPT !.top.dialog.fresh = @ \cup ({key} \cap Answers)] ELSE Work
           IN /\ Good(w) /\ Owed(w, Refusals(toTop), 0, 0) /\ w.chosen = 0 /\ w.confirmed = 0
              /\ w.top \in Tops /\ w.top.shown = top.shown /\ w.top.dialog.open = top.dialog.open
              /\ w.top.dialog.armed = top.dialog.armed /\ w.top.dialog.hold = top.dialog.hold
              /\ w.top.dialog.born = top.dialog.born /\ top.dialog.fresh \subseteq w.top.dialog.fresh
              /\ kind = "keydown" /\ ~repeat /\ top.dialog.open /\ key \in Answers
                    => key \in w.top.dialog.fresh
              /\ UpInv(w.top, toTop, child, focus, held, enabled, doc)
              /\ Holding(w.top, toTop, held, enabled, doc)
<1> DEFINE w == IF kind = "keydown" /\ ~repeat /\ top.dialog.open
                THEN [Work EXCEPT !.top.dialog.fresh = @ \cup ({key} \cap Answers)] ELSE Work
<1> DEFINE n == Refusals(toTop)
<1>1. /\ Ready /\ Typed /\ Good(Work) /\ Owed(Work, n, 0, 0) /\ Work.top = top /\ Work.confirmed = 0
      /\ n \in Nat /\ top \in Tops /\ Work \in Works /\ Work.chosen = 0 /\ top.dialog \in Dialogs
      /\ (top.dialog.hold => top.dialog.armed /\ "press" \in top.dialog.fresh)
      /\ UpInv(top, toTop, child, focus, held, enabled, doc)
      /\ Holding(top, toTop, held, enabled, doc)
  BY Begins DEF Good
<1>2. CASE kind = "keydown" /\ ~repeat /\ top.dialog.open
  <2> DEFINE d == [top.dialog EXCEPT !.fresh = @ \cup ({key} \cap Answers)]
  <2>1. /\ d \in Dialogs /\ d.open /\ d.open = top.dialog.open /\ d.armed = top.dialog.armed
        /\ d.born = top.dialog.born /\ d.hold = top.dialog.hold /\ top.dialog.fresh \subseteq d.fresh
        /\ (key \in Answers => key \in d.fresh)
    BY <1>1, <1>2 DEF Dialogs
  <2>2. w = [Work EXCEPT !.top = [top EXCEPT !.dialog = d]]
    <3>1. w = [Work EXCEPT !.top.dialog.fresh = @ \cup ({key} \cap Answers)]
      BY <1>2
    <3>2. Work.top.dialog.fresh = top.dialog.fresh
      BY <1>1
    <3> QED BY <1>1, <3>1, <3>2 DEF Works, Tops, Dialogs
  <2> HIDE DEF w, d, n
  <2>3. /\ Good(w) /\ Owed(w, n, 0, 0) /\ w.confirmed = 0 /\ w.chosen = 0
        /\ w.top.dialog = d /\ w.top.shown = top.shown
    BY <1>1, <2>1, <2>2, DialogTurns
  <2>4. w.top \in Tops
    BY <2>3 DEF Good, Works
  <2>5. UpInv(w.top, toTop, child, focus, held, enabled, doc)
    BY <1>1, <2>1, <2>3 DEF UpInv, KeysArmed, KeysFresh, KeysHeard, KeysReleased
  <2>6. Holding(w.top, toTop, held, enabled, doc)
    BY <1>1, <2>1, <2>3 DEF Holding
  <2> QED BY <2>1, <2>3, <2>4, <2>5, <2>6 DEF w, n
<1>3. CASE ~(kind = "keydown" /\ ~repeat /\ top.dialog.open)
  <2>1. w = Work
    BY <1>3
  <2> HIDE DEF w
  <2> QED BY <1>1, <1>3, <2>1 DEF w
<1> QED BY <1>2, <1>3

\* What a key of the top document does, noted as it is.
LEMMA TopKeys ==
    ASSUME Ready, NEW w, Good(w), NEW n \in Nat, Owed(w, n, 0, 0), w.chosen = 0, w.confirmed = 0,
           NEW kind \in {"keydown", "keyup"}, NEW key, NEW repeat \in BOOLEAN,
           w.top.dialog.open /\ kind # "keyup" /\ key = "press" /\ ~repeat => "press" \in w.top.dialog.fresh
    PROVE  LET v == TopKey(w, kind, key, repeat)
           IN /\ Good(v) /\ Owed(v, n, 0, 0)
              /\ \/ Same(w.top, v) \/ Opened(w.top, v) \/ Closed(w.top, v) \/ Loosened(w.top, v)
                 \/ Pressing(w.top, v) /\ kind # "keyup" /\ key = "press" /\ ~repeat /\ enabled
              /\ v.confirmed # 0 => kind # "keyup" /\ key = "confirm" /\ ~repeat
              /\ kind = "keyup" /\ key = "press" /\ enabled /\ w.top.dialog.open
                    => v.top.dialog.hold = FALSE
<1> DEFINE v == TopKey(w, kind, key, repeat)
<1> DEFINE Kept == /\ Good(v) /\ Owed(v, n, 0, 0)
                   /\ \/ Same(w.top, v) \/ Opened(w.top, v) \/ Closed(w.top, v) \/ Loosened(w.top, v)
                      \/ Pressing(w.top, v) /\ kind # "keyup" /\ key = "press" /\ ~repeat /\ enabled
                   /\ v.confirmed # 0 => kind # "keyup" /\ key = "confirm" /\ ~repeat
                   /\ kind = "keyup" /\ key = "press" /\ enabled /\ w.top.dialog.open
                         => v.top.dialog.hold = FALSE
<1>1. CASE ~enabled
  BY <1>1 DEF TopKey, Same
<1>2. CASE enabled /\ w.top.dialog.open
  <2>1. v = handle(w, kind, key, repeat)
    BY <1>2 DEF TopKey
  <2> DEFINE u == handle(w, kind, key, repeat)
  <2>2. w.top.dialog.armed /\ kind # "keyup" /\ key = "press" /\ ~repeat => "press" \in w.top.dialog.fresh
    BY <1>2
  <2>3. Good(u) /\ Owed(u, n, 0, 0) /\ Heard(w.top, u, kind, key, repeat)
    BY <1>2, <2>2, Handles
  <2> HIDE DEF u
  <2>4. Kept
    <3>1. v = u
      BY <2>1 DEF u
    <3> HIDE DEF v
    <3> QED BY <1>2, <2>3, <3>1 DEF Heard
  <2> QED BY <2>4
<1>3. CASE enabled /\ ~w.top.dialog.open
  <2>1. v = handleTopHintKey(w, key) \/ v = w
    BY <1>3 DEF TopKey
  <2> HIDE DEF v
  <2>2. CASE v = w
    BY <1>3, <2>2 DEF v, Same
  <2>3. CASE v = handleTopHintKey(w, key)
    <3>1. /\ Good(v) /\ Owed(v, n, 0, 0) /\ v.confirmed = w.confirmed
          /\ (Same(w.top, v) \/ Opened(w.top, v))
      BY <2>3, HintKey
    <3> QED BY <1>3, <3>1 DEF v
  <2> QED BY <2>1, <2>2, <2>3
<1>4. enabled \in BOOLEAN
  BY DEF Ready, Typed
<1> QED BY <1>1, <1>2, <1>3, <1>4

\* A key while the top document has the focus.
LEMMA TopKeyKeeps ==
    ASSUME IInv, focus = "top", NEW kind \in {"keydown", "keyup"}, NEW key, NEW repeat \in BOOLEAN,
           KeyEvent(kind, key, repeat), UNCHANGED <<page, child, focus, events>>,
           held' \subseteq Answers,
           kind = "keydown" /\ ~repeat => key \notin held,
           kind = "keydown" => held' = held \cup ({key} \cap Answers),
           kind = "keyup" => held' = held \ {key}
    PROVE  IInv' /\ Confirmed
<1> DEFINE w == IF kind = "keydown" /\ ~repeat /\ top.dialog.open
                THEN [Work EXCEPT !.top.dialog.fresh = @ \cup ({key} \cap Answers)] ELSE Work
<1> DEFINE n == Refusals(toTop)
<1> DEFINE v == TopKey(w, kind, key, repeat)
<1>1. /\ Ready /\ Typed /\ n \in Nat /\ top \in Tops /\ toTop \in Seq(Upward) /\ enabled \in BOOLEAN
      /\ doc \in Nat /\ top.dialog \in Dialogs /\ tally.confirmed \in Nat
      /\ (top.dialog.hold => top.dialog.armed) /\ (top.dialog.armed => top.dialog.open)
  BY Begins
<1>2. /\ Good(w) /\ Owed(w, n, 0, 0) /\ w.chosen = 0 /\ w.confirmed = 0
      /\ w.top \in Tops /\ w.top.shown = top.shown /\ w.top.dialog.open = top.dialog.open
      /\ w.top.dialog.armed = top.dialog.armed /\ w.top.dialog.hold = top.dialog.hold
      /\ w.top.dialog.born = top.dialog.born
      /\ (kind = "keydown" /\ ~repeat /\ top.dialog.open /\ key \in Answers => key \in w.top.dialog.fresh)
      /\ UpInv(w.top, toTop, child, focus, held, enabled, doc)
      /\ Holding(w.top, toTop, held, enabled, doc)
  BY Notes
<1>3. Done(v) /\ toTop' = toTop
  BY DEF KeyEvent
<1> HIDE DEF w, n
<1>4. /\ Good(v) /\ Owed(v, n, 0, 0)
      /\ \/ Same(w.top, v) \/ Opened(w.top, v) \/ Closed(w.top, v) \/ Loosened(w.top, v)
         \/ Pressing(w.top, v) /\ kind = "keydown" /\ key = "press" /\ ~repeat /\ enabled
      /\ v.confirmed # 0 => kind = "keydown" /\ key = "confirm" /\ ~repeat
      /\ kind = "keyup" /\ key = "press" /\ enabled /\ top.dialog.open => v.top.dialog.hold = FALSE
  <2>1. /\ Ready /\ Good(w) /\ n \in Nat /\ Owed(w, n, 0, 0) /\ w.chosen = 0 /\ w.confirmed = 0
        /\ (w.top.dialog.open /\ kind # "keyup" /\ key = "press" /\ ~repeat => "press" \in w.top.dialog.fresh)
    BY <1>1, <1>2 DEF Answers
  <2>2. /\ Good(v) /\ Owed(v, n, 0, 0)
        /\ \/ Same(w.top, v) \/ Opened(w.top, v) \/ Closed(w.top, v) \/ Loosened(w.top, v)
           \/ Pressing(w.top, v) /\ kind # "keyup" /\ key = "press" /\ ~repeat /\ enabled
        /\ v.confirmed # 0 => kind # "keyup" /\ key = "confirm" /\ ~repeat
        /\ kind = "keyup" /\ key = "press" /\ enabled /\ w.top.dialog.open
              => v.top.dialog.hold = FALSE
    BY <2>1, TopKeys, ZenonT(90)
  <2> HIDE DEF v
  <2> QED BY <1>2, <2>2
<1> HIDE DEF v
<1>5. UpInv(v.top, toTop, child, focus, held', enabled, doc)
  <2>1. UpInv(v.top, toTop, child, focus, held, enabled, doc)
    <3>1. CASE Same(w.top, v) \/ Opened(w.top, v) \/ Closed(w.top, v) \/ Loosened(w.top, v)
      BY <1>1, <1>2, <3>1, UpMoves
    <3>2. CASE Pressing(w.top, v)
      <4>1. /\ v.top.shown = w.top.shown /\ v.top.dialog.open = w.top.dialog.open
            /\ v.top.dialog.armed = w.top.dialog.armed /\ v.top.dialog.born = w.top.dialog.born
            /\ v.top.dialog.fresh = w.top.dialog.fresh
        BY <1>2, <3>2 DEF Pressing, Tops, Dialogs
      <4> QED BY <1>2, <4>1 DEF UpInv, KeysArmed, KeysFresh, KeysHeard, KeysReleased
    <3> QED BY <1>4, <3>1, <3>2
  <2> QED BY <2>1, UpFromTop
<1>6. Holding(v.top, toTop, held', enabled, doc)
  <2>1. CASE Pressing(w.top, v) /\ kind = "keydown" /\ key = "press" /\ ~repeat /\ enabled
    BY <2>1 DEF Holding, Answers
  <2>2. CASE Same(w.top, v) \/ Opened(w.top, v) \/ Closed(w.top, v) \/ Loosened(w.top, v)
    <3>1. Holding(v.top, toTop, held, enabled, doc)
      BY <1>1, <1>2, <2>2, UpMoves
    <3>2. CASE kind = "keydown" \/ key # "press"
      <4>1. "press" \in held => "press" \in held'
        BY <3>2
      <4> QED BY <3>1, <4>1 DEF Holding
    <3>3. CASE kind = "keyup" /\ key = "press"
      <4>1. v.top.dialog.hold /\ v.top.dialog.born = doc => enabled /\ v.top.dialog.hold # FALSE /\ ~top.dialog.open
        BY <1>4, <3>1, <3>3 DEF Holding
      <4>2. ~top.dialog.open => ~v.top.dialog.hold
        <5> SUFFICES ASSUME ~top.dialog.open PROVE ~v.top.dialog.hold
          OBVIOUS
        <5>1. ~w.top.dialog.hold
          BY <1>1, <1>2
        <5> QED BY <1>2, <2>2, <5>1 DEF Same, Opened, Closed, Loosened, NoDialog, Tops, Dialogs
      <4> QED BY <4>1, <4>2 DEF Holding
    <3> QED BY <3>2, <3>3
  <2> QED BY <1>4, <2>1, <2>2
<1>7. IInv' /\ tally'.confirmed = tally.confirmed + v.confirmed
  <2>1. /\ focus \in Frames /\ events \in 0..MaxEvents /\ doc \in 0..events /\ known \in Looks
    BY <1>1 DEF Typed
  <2>2. /\ enabled' = enabled /\ looks' = looks /\ doc' = doc /\ known' = known /\ focus' = focus
        /\ child' = child /\ events' = events
    BY DEF page
  <2> QED BY <1>1, <1>3, <1>4, <1>5, <1>6, <2>1, <2>2, Concludes DEF n
<1>8. Confirmed
  <2> SUFFICES ASSUME tally'.confirmed > tally.confirmed PROVE held' \ held # {}
    BY DEF Confirmed
  <2>1. v.confirmed # 0
    BY <1>1, <1>7
  <2>2. kind = "keydown" /\ key = "confirm" /\ key \notin held /\ held' = held \cup ({key} \cap Answers)
    BY <1>4, <2>1
  <2> QED BY <2>2 DEF Answers
<1> QED BY <1>7, <1>8

\* What the child's record of the dialog says of an armed or a present one.
LEMMA ChildKnows ==
    ASSUME IInv
    PROVE  /\ child.dialog \in 0..top.shown
           /\ top.dialog.armed => child.dialog \in {0, top.shown}
           /\ top.dialog.armed /\ top.dialog.born = doc => child.dialog = top.shown
<1>1. /\ top.shown \in Nat /\ child.dialog \in Nat /\ (top.dialog.armed => top.dialog.open) /\ Typed
  BY Begins DEF Typed
<1>2. DownInv(top, toChild, child, doc)
  BY DEF IInv
<1>3. child.dialog \in 0..top.shown
  BY <1>1, <1>2 DEF DownInv
<1>4. top.dialog.armed => NoWord(toChild, "confirm/state")
  BY <1>2 DEF DownInv
<1>5. NoWord(toChild, "confirm/state") => ~LastDialog(toChild, top.shown)
  BY DEF NoWord, LastDialog
<1> QED BY <1>1, <1>2, <1>3, <1>4, <1>5 DEF DownInv, DialogTold

\* A step that sends something to the top document, from what it leaves there.
LEMMA SaysUp ==
    ASSUME IInv, NEW m \in Upward, toTop' = Append(toTop, m), m.type # "press/refused"
    PROVE  toTop' \in Seq(Upward) /\ Refusals(toTop') = Refusals(toTop)
<1>1. toTop \in Seq(Upward) /\ Refusals(toTop) \in Nat
  BY Begins
<1> QED BY <1>1, CountSaid, Longer

\* A key while the child has the focus.
LEMMA ChildKeyKeeps ==
    ASSUME IInv, focus = "child", NEW kind \in {"keydown", "keyup"}, NEW key \in Keys, NEW repeat \in BOOLEAN,
           KeyEvent(kind, key, repeat), UNCHANGED <<page, child, focus, events>>,
           held' \subseteq Answers,
           kind = "keydown" /\ ~repeat => key \notin held,
           kind = "keydown" => held' = held \cup ({key} \cap Answers),
           kind = "keyup" => held' = held \ {key}
    PROVE  IInv' /\ Confirmed
<1> DEFINE w == IF kind = "keydown" /\ ~repeat /\ top.dialog.open
                THEN [Work EXCEPT !.top.dialog.fresh = @ \cup ({key} \cap Answers)] ELSE Work
<1> DEFINE n == Refusals(toTop)
<1> DEFINE t == w.top
<1> DEFINE m == [type |-> "confirm/key", kind |-> kind, key |-> key, repeat |-> repeat, dialog |-> child.dialog]
<1> DEFINE h == [type |-> "hints/key", key |-> key]
<1> DEFINE Follows == UpInv(t, toTop', child, focus, held', enabled, doc) /\ Holding(t, toTop', held', enabled, doc)
<1>1. /\ Ready /\ Typed /\ n \in Nat /\ top \in Tops /\ toTop \in Seq(Upward) /\ enabled \in BOOLEAN
      /\ doc \in Nat /\ top.dialog \in Dialogs /\ tally.confirmed \in Nat /\ top.shown \in Nat
      /\ (top.dialog.hold => top.dialog.armed) /\ (top.dialog.armed => top.dialog.open)
      /\ (top.dialog.open => top.shown > 0)
  BY Begins
<1>2. /\ Good(w) /\ Owed(w, n, 0, 0) /\ w.confirmed = 0
      /\ w.top \in Tops /\ w.top.shown = top.shown /\ w.top.dialog.open = top.dialog.open
      /\ w.top.dialog.armed = top.dialog.armed /\ w.top.dialog.hold = top.dialog.hold
      /\ w.top.dialog.born = top.dialog.born
      /\ (kind = "keydown" /\ ~repeat /\ top.dialog.open /\ key \in Answers => key \in w.top.dialog.fresh)
      /\ UpInv(w.top, toTop, child, focus, held, enabled, doc)
      /\ Holding(w.top, toTop, held, enabled, doc)
  BY Notes
<1>3. Done(w) /\ ChildKey(kind, key, repeat)
  BY DEF KeyEvent
<1> HIDE DEF w, n
<1>4. /\ child.dialog \in 0..top.shown
      /\ top.dialog.armed => child.dialog \in {0, top.shown}
      /\ top.dialog.armed /\ top.dialog.born = doc => child.dialog = top.shown
  BY ChildKnows
<1>5. \/ /\ enabled /\ child.dialog # 0 /\ key \in Answers \cup {"cancel"}
         /\ toTop' = Append(toTop, m)
      \/ /\ toTop' = toTop \/ toTop' = Append(toTop, h)
         /\ enabled /\ child.dialog # 0 => key # "press"
  BY <1>3 DEF ChildKey, Forward, ToTop, Answers
<1>6. /\ m.type = "confirm/key" /\ m.kind = kind /\ m.key = key /\ m.dialog = child.dialog
      /\ (m.repeat <=> repeat)
      /\ (key \in Answers \cup {"cancel"} => m \in Upward)
      /\ h \in Upward /\ h.type = "hints/key"
  <2>1. child.dialog \in Nat
    BY <1>1 DEF Typed
  <2> QED BY <2>1, UpMessages
<1> HIDE DEF m, h
<1>7. toTop' \in Seq(Upward) /\ Refusals(toTop') = n
  <2>1. CASE toTop' = toTop
    BY <1>1, <2>1 DEF n
  <2>2. CASE toTop' = Append(toTop, m) /\ key \in Answers \cup {"cancel"}
    BY <1>6, <2>2, SaysUp DEF n
  <2>3. CASE toTop' = Append(toTop, h)
    BY <1>6, <2>3, SaysUp DEF n
  <2> QED BY <1>5, <2>1, <2>2, <2>3
<1>8. ASSUME kind = "keydown" PROVE Follows
  <2>1. "press" \in held => "press" \in held'
    BY <1>8
  <2>2. /\ UpInv(t, toTop, child, focus, held', enabled, doc)
        /\ Holding(t, toTop, held', enabled, doc)
    BY <1>2, <2>1, UpHolds
  <2>3. CASE toTop' = toTop
    BY <2>2, <2>3
  <2>4. CASE toTop' = Append(toTop, h)
    BY <1>1, <1>6, <2>2, <2>4, UpSays
  <2>5. CASE enabled /\ child.dialog # 0 /\ key \in Answers \cup {"cancel"} /\ toTop' = Append(toTop, m)
    <3>1. m.dialog \in 1..t.shown /\ (t.dialog.armed => m.dialog = t.shown) /\ t.shown \in Nat
      BY <1>1, <1>2, <1>4, <1>6, <2>5
    <3>2. t.dialog.open /\ Struck(m, t.shown) /\ m.key \in Answers => m.key \in t.dialog.fresh
      BY <1>2, <1>6, <1>8 DEF Struck
    <3>3. Struck(m, t.shown) /\ m.key = "press" => enabled /\ focus = "child" /\ "press" \in held'
      BY <1>6, <1>8, <2>5 DEF Answers
    <3> HIDE DEF t
    <3> QED BY <1>1, <1>6, <2>2, <2>5, <3>1, <3>2, <3>3, UpKeys
  <2> QED BY <1>5, <2>3, <2>4, <2>5
<1>9. ASSUME kind = "keyup" /\ key # "press" PROVE Follows
  <2>1. "press" \in held => "press" \in held'
    BY <1>9
  <2>2. /\ UpInv(t, toTop, child, focus, held', enabled, doc)
        /\ Holding(t, toTop, held', enabled, doc)
    BY <1>2, <2>1, UpHolds
  <2>3. CASE toTop' = toTop
    BY <2>2, <2>3
  <2>4. CASE toTop' = Append(toTop, h)
    BY <1>1, <1>6, <2>2, <2>4, UpSays
  <2>5. CASE enabled /\ child.dialog # 0 /\ key \in Answers \cup {"cancel"} /\ toTop' = Append(toTop, m)
    <3>1. m.dialog \in 1..t.shown /\ (t.dialog.armed => m.dialog = t.shown) /\ t.shown \in Nat
      BY <1>1, <1>2, <1>4, <1>6, <2>5
    <3>2. ~Struck(m, t.shown)
      BY <1>6, <1>9 DEF Struck
    <3> HIDE DEF t
    <3> QED BY <1>1, <1>6, <2>2, <2>5, <3>1, <3>2, UpKeys
  <2> QED BY <1>5, <2>3, <2>4, <2>5
<1>10. ASSUME kind = "keyup" /\ key = "press" PROVE Follows
  <2>1. CASE enabled /\ child.dialog # 0 /\ key \in Answers \cup {"cancel"} /\ toTop' = Append(toTop, m)
    <3>1. m.dialog \in 1..t.shown /\ (t.dialog.armed => m.dialog = t.shown) /\ t.shown \in Nat
      BY <1>1, <1>2, <1>4, <1>6, <2>1
    <3>2. LetGo(m)
      BY <1>6, <1>10 DEF LetGo
    <3> HIDE DEF t
    <3> QED BY <1>1, <1>2, <1>6, <2>1, <3>1, <3>2, UpLetsGo DEF t
  <2>2. CASE /\ toTop' = toTop \/ toTop' = Append(toTop, h)
             /\ ~enabled \/ child.dialog = 0
    <3>1. UpInv(t, toTop, child, focus, held', enabled, doc)
      <4>1. CASE child.dialog = 0
        BY <1>1, <1>2, <4>1, UpUnheard
      <4>2. CASE ~enabled
        BY <1>2, <4>2 DEF UpInv, KeysReleased
      <4> QED BY <2>2, <4>1, <4>2
    <3>2. Holding(t, toTop, held', enabled, doc)
      <4>1. ~(t.dialog.hold /\ t.dialog.born = doc)
        BY <1>1, <1>2, <1>4, <2>2 DEF Holding
      <4> QED BY <4>1 DEF Holding
    <3>3. CASE toTop' = toTop
      BY <3>1, <3>2, <3>3
    <3>4. CASE toTop' = Append(toTop, h)
      BY <1>1, <1>6, <3>1, <3>2, <3>4, UpSays
    <3> QED BY <2>2, <3>3, <3>4
  <2>3. enabled /\ child.dialog # 0 => toTop' = Append(toTop, m) /\ key \in Answers \cup {"cancel"}
    BY <1>5, <1>10
  <2> QED BY <1>1, <1>5, <2>1, <2>2, <2>3
<1>11. UpInv(t, toTop', child, focus, held', enabled, doc) /\ Holding(t, toTop', held', enabled, doc)
  BY <1>8, <1>9, <1>10
<1>12. IInv' /\ tally'.confirmed = tally.confirmed + w.confirmed
  <2>1. /\ focus \in Frames /\ events \in 0..MaxEvents /\ doc \in 0..events /\ known \in Looks
    BY <1>1 DEF Typed
  <2>2. /\ enabled' = enabled /\ looks' = looks /\ doc' = doc /\ known' = known /\ focus' = focus
        /\ child' = child /\ events' = events
    BY DEF page
  <2> QED BY <1>1, <1>2, <1>3, <1>7, <1>11, <2>1, <2>2, Concludes
<1> QED BY <1>1, <1>2, <1>12 DEF Confirmed

\* The three ways of a key.
LEMMA KeysKeep ==
    ASSUME IInv
    PROVE  /\ \A k \in Keys : KeyDown(k) => IInv' /\ Confirmed
           /\ \A k \in Answers : Repeat(k) \/ KeyUp(k) => IInv' /\ Confirmed
<1>1. focus \in {"top", "child"} /\ held \subseteq Answers
  BY DEF IInv, Typed, Frames
<1>2. ASSUME NEW k \in Keys, KeyDown(k) PROVE IInv' /\ Confirmed
  <2>1. /\ KeyEvent("keydown", k, FALSE) /\ UNCHANGED <<page, child, focus, events>> /\ k \notin held
        /\ held' = held \cup ({k} \cap Answers)
    BY <1>2 DEF KeyDown
  <2>2. held' \subseteq Answers
    BY <1>1, <2>1
  <2>3. CASE focus = "top"
    BY <2>1, <2>2, <2>3, TopKeyKeeps
  <2>4. CASE focus = "child"
    BY <2>1, <2>2, <2>4, ChildKeyKeeps
  <2> QED BY <1>1, <2>3, <2>4
<1>3. ASSUME NEW k \in Answers, Repeat(k) PROVE IInv' /\ Confirmed
  <2>1. /\ KeyEvent("keydown", k, TRUE) /\ UNCHANGED <<page, child, focus, events>> /\ k \in held
        /\ held' = held \cup ({k} \cap Answers)
    BY <1>3 DEF Repeat, user
  <2>2. held' \subseteq Answers /\ k \in Keys
    BY <1>1, <2>1 DEF Answers, Keys
  <2>3. CASE focus = "top"
    BY <2>1, <2>2, <2>3, TopKeyKeeps
  <2>4. CASE focus = "child"
    BY <2>1, <2>2, <2>4, ChildKeyKeeps
  <2> QED BY <1>1, <2>3, <2>4
<1>4. ASSUME NEW k \in Answers, KeyUp(k) PROVE IInv' /\ Confirmed
  <2>1. /\ KeyEvent("keyup", k, FALSE) /\ UNCHANGED <<page, child, focus, events>>
        /\ held' = held \ {k}
    BY <1>4 DEF KeyUp
  <2>2. held' \subseteq Answers /\ k \in Keys
    BY <1>1, <2>1 DEF Answers, Keys
  <2>3. CASE focus = "top"
    BY <2>1, <2>2, <2>3, TopKeyKeeps
  <2>4. CASE focus = "child"
    BY <2>1, <2>2, <2>4, ChildKeyKeeps
  <2> QED BY <1>1, <2>3, <2>4
<1> QED BY <1>2, <1>3, <1>4


\* A frame that loses the focus lets go of Space, whatever has it afterwards.
LEMMA Releases ==
    ASSUME IInv, releaseModalHold, UNCHANGED <<page, child>>, focus' \in Frames, held' \subseteq Answers,
           events' \in 0..MaxEvents, doc \in 0..events'
    PROVE  IInv' /\ Confirmed
<1> DEFINE n == Refusals(toTop)
<1>1. /\ Ready /\ Typed /\ Good(Work) /\ Owed(Work, n, 0, 0) /\ Work.top = top /\ Work.confirmed = 0
      /\ n \in Nat /\ top \in Tops /\ toTop \in Seq(Upward) /\ enabled \in BOOLEAN /\ doc \in Nat
      /\ top.shown \in Nat /\ top.dialog \in Dialogs /\ tally.confirmed \in Nat
      /\ (top.dialog.hold => top.dialog.armed) /\ (top.dialog.armed => top.dialog.open)
      /\ (top.dialog.open => top.shown > 0)
      /\ UpInv(top, toTop, child, focus, held, enabled, doc)
      /\ Holding(top, toTop, held, enabled, doc)
  BY Begins
<1>2. focus \in {"top", "child"} /\ known \in Looks
  BY <1>1 DEF Typed, Frames
<1>3. /\ enabled' = enabled /\ looks' = looks /\ doc' = doc /\ known' = known /\ child' = child
  BY DEF page
<1>4. CASE focus = "top"
  <2> DEFINE v == IF top.dialog.open THEN handle(Work, "keyup", "press", FALSE) ELSE Work
  <2>1. Done(v) /\ toTop' = toTop
    BY <1>4 DEF releaseModalHold
  <2>2. /\ Good(v) /\ Owed(v, n, 0, 0) /\ v.confirmed = 0 /\ v.top.dialog.hold = FALSE
        /\ (Same(top, v) \/ Closed(top, v) \/ Loosened(top, v))
    <3>1. CASE top.dialog.open
      <4> DEFINE u == handle(Work, "keyup", "press", FALSE)
      <4>1. Good(u) /\ Owed(u, n, 0, 0) /\ Heard(top, u, "keyup", "press", FALSE)
        BY <1>1, <3>1, Handles
      <4>2. v = u
        BY <3>1
      <4> HIDE DEF u, v
      <4> QED BY <4>1, <4>2 DEF Heard
    <3>2. CASE ~top.dialog.open
      <4>1. v = Work /\ ~top.dialog.hold /\ top.dialog.hold \in BOOLEAN
        BY <1>1, <3>2 DEF Dialogs
      <4> HIDE DEF v
      <4> QED BY <1>1, <4>1 DEF Same
    <3> QED BY <1>1, <3>1, <3>2 DEF Dialogs
  <2> HIDE DEF v
  <2>3. UpInv(v.top, toTop, child, focus, held, enabled, doc)
    BY <1>1, <2>2, UpMoves
  <2>4. UpInv(v.top, toTop, child, focus', held', enabled, doc)
    BY <1>4, <2>3, UpFromTop
  <2>5. Holding(v.top, toTop, held', enabled, doc)
    BY <2>2 DEF Holding
  <2>6. IInv' /\ tally'.confirmed = tally.confirmed + v.confirmed
    BY <1>1, <1>2, <1>3, <2>1, <2>2, <2>4, <2>5, Concludes
  <2> QED BY <1>1, <2>2, <2>6 DEF Confirmed
<1>5. CASE focus = "child"
  <2> DEFINE m == [type |-> "confirm/key", kind |-> "keyup", key |-> "press", repeat |-> FALSE,
                   dialog |-> child.dialog]
  <2>1. Done(Work) /\ (\/ child.dialog # 0 /\ toTop' = Append(toTop, m)
                       \/ child.dialog = 0 /\ toTop' = toTop)
    BY <1>5 DEF releaseModalHold, Forward, ToTop
  <2>2. /\ child.dialog \in 0..top.shown
        /\ top.dialog.armed => child.dialog \in {0, top.shown}
        /\ top.dialog.armed /\ top.dialog.born = doc => child.dialog = top.shown
    BY ChildKnows
  <2>3. m \in Upward /\ LetGo(m) /\ m.dialog = child.dialog /\ m.type # "press/refused"
    <3>1. child.dialog \in Nat
      BY <1>1 DEF Typed
    <3> QED BY <3>1, UpMessages DEF LetGo, Answers
  <2> HIDE DEF m
  <2>4. /\ UpInv(top, toTop', child, focus', held', enabled, doc)
        /\ Holding(top, toTop', held', enabled, doc)
        /\ toTop' \in Seq(Upward) /\ Refusals(toTop') = n
    <3>1. CASE child.dialog # 0 /\ toTop' = Append(toTop, m)
      <4>1. m.dialog \in 1..top.shown /\ (top.dialog.armed => m.dialog = top.shown)
        BY <1>1, <2>2, <2>3, <3>1
      <4>2. toTop' \in Seq(Upward) /\ Refusals(toTop') = n
        BY <2>3, <3>1, SaysUp
      <4>3. /\ UpInv(top, Append(toTop, m), child, focus', held', enabled, doc)
            /\ Holding(top, Append(toTop, m), held', enabled, doc)
        BY <1>1, <2>3, <4>1, UpLetsGo
      <4> QED BY <3>1, <4>2, <4>3
    <3>2. CASE child.dialog = 0 /\ toTop' = toTop
      <4>1. UpInv(top, toTop, child, focus', held', enabled, doc)
        BY <1>1, <3>2, UpUnheard
      <4>2. ~(top.dialog.hold /\ top.dialog.born = doc)
        BY <1>1, <2>2, <3>2
      <4> QED BY <1>1, <3>2, <4>1, <4>2 DEF Holding
    <3> QED BY <2>1, <3>1, <3>2
  <2>5. IInv' /\ tally'.confirmed = tally.confirmed + Work.confirmed
    BY <1>1, <1>2, <1>3, <2>1, <2>4, Concludes
  <2> QED BY <1>1, <2>5 DEF Confirmed
<1> QED BY <1>2, <1>4, <1>5

\* The window or a frame loses the focus.
LEMMA FocusKeeps == IInv /\ (WindowBlurs \/ FocusMoves) => IInv' /\ Confirmed
<1> SUFFICES ASSUME IInv, WindowBlurs \/ FocusMoves PROVE IInv' /\ Confirmed
  OBVIOUS
<1>1. /\ events \in 0..MaxEvents /\ doc \in 0..events /\ focus \in Frames /\ held \subseteq Answers
      /\ MaxEvents \in Nat
  BY BoundsAssumption DEF IInv, Typed
<1>2. /\ events < MaxEvents /\ events' = events + 1 /\ releaseModalHold /\ UNCHANGED <<page, child>>
      /\ focus' \in Frames /\ held' \subseteq Answers
  <2>1. CASE WindowBlurs
    BY <1>1, <2>1 DEF WindowBlurs, Event
  <2>2. CASE FocusMoves
    BY <1>1, <2>2 DEF FocusMoves, Event
  <2> QED BY <2>1, <2>2
<1>3. events' \in 0..MaxEvents /\ doc \in 0..events'
  BY <1>1, <1>2
<1> QED BY <1>2, <1>3, Releases

\* Off: the dialog closes before the numbers do.
LEMMA SwitchOffKeeps == IInv /\ SwitchOff => IInv' /\ Confirmed
<1> SUFFICES ASSUME IInv, SwitchOff PROVE IInv' /\ Confirmed
  OBVIOUS
<1> DEFINE n == Refusals(toTop)
<1> DEFINE v == Off(Work)
<1>1. /\ Ready /\ Typed /\ Good(Work) /\ Owed(Work, n, 0, 0) /\ Work.top = top /\ Work.confirmed = 0
      /\ n \in Nat /\ top \in Tops /\ toTop \in Seq(Upward) /\ enabled \in BOOLEAN /\ doc \in Nat
      /\ tally.confirmed \in Nat
      /\ UpInv(top, toTop, child, focus, held, enabled, doc)
      /\ Holding(top, toTop, held, enabled, doc)
  BY Begins
<1>2. /\ enabled' = FALSE /\ Done(v) /\ UNCHANGED <<looks, doc, child>> /\ known' = known
      /\ focus' = focus /\ held' = held /\ toTop' = toTop /\ events < MaxEvents /\ events' = events + 1
  BY DEF SwitchOff, Event, user
<1>3. /\ focus \in Frames /\ held \subseteq Answers /\ known \in Looks /\ doc \in 0..events'
      /\ events' \in 0..MaxEvents
  <2>1. MaxEvents \in Nat /\ events \in 0..MaxEvents /\ doc \in 0..events
    BY <1>1, BoundsAssumption DEF Typed
  <2>2. events' \in 0..MaxEvents /\ doc \in 0..events'
    BY <1>2, <2>1
  <2> QED BY <1>1, <2>2 DEF Typed
<1>4. Good(v) /\ Owed(v, n, 0, 0) /\ Closed(top, v) /\ v.confirmed = 0
  <2>1. /\ Good(v) /\ Owed(v, n, 0, 0) /\ v.confirmed = Work.confirmed
        /\ v.top.dialog = NoDialog /\ v.top.shown = Work.top.shown
    BY <1>1, SwitchesOff
  <2> HIDE DEF v
  <2> QED BY <1>1, <2>1 DEF Closed
<1> HIDE DEF v, n
<1>5. ~v.top.dialog.open /\ ~v.top.dialog.hold
  BY <1>4 DEF Closed, NoDialog
<1>6. UpInv(v.top, toTop, child, focus, held, enabled, doc)
  BY <1>1, <1>4, UpMoves
<1>7. UpInv(v.top, toTop, child, focus, held, FALSE, doc) /\ Holding(v.top, toTop, held, FALSE, doc)
  BY <1>5, <1>6 DEF UpInv, Holding
<1>8. IInv' /\ tally'.confirmed = tally.confirmed + v.confirmed
  BY <1>1, <1>2, <1>3, <1>4, <1>7, Concludes DEF n
<1> QED BY <1>1, <1>4, <1>8 DEF Confirmed

\* On again.
LEMMA SwitchOnKeeps == IInv /\ SwitchOn => IInv' /\ Confirmed
<1> SUFFICES ASSUME IInv, SwitchOn PROVE IInv' /\ Confirmed
  OBVIOUS
<1>1. /\ Typed /\ tally.confirmed \in Nat
      /\ UpInv(top, toTop, child, focus, held, enabled, doc)
      /\ Holding(top, toTop, held, enabled, doc)
  BY Begins
<1>2. /\ ~enabled /\ enabled' = TRUE /\ events < MaxEvents /\ events' = events + 1
      /\ UNCHANGED <<looks, doc, known, top, child, toTop, toChild, tally>> /\ focus' = focus /\ held' = held
  BY DEF SwitchOn, Event, user
<1>3. events' \in 0..MaxEvents /\ doc \in 0..events'
  <2>1. MaxEvents \in Nat /\ events \in 0..MaxEvents /\ doc \in 0..events
    BY <1>1, BoundsAssumption DEF Typed
  <2> QED BY <1>2, <2>1
<1>4. Typed'
  BY <1>1, <1>2, <1>3 DEF Typed
<1>5. /\ UpInv(top, toTop, child, focus, held, TRUE, doc)
      /\ Holding(top, toTop, held, TRUE, doc)
  BY <1>1, UpHolds
<1>6. Accounts' /\ DialogForm(top', doc') /\ DownInv(top', toChild', child', doc')
  BY <1>2 DEF IInv, Accounts
<1>7. /\ UpInv(top', toTop', child', focus', held', enabled', doc')
      /\ Holding(top', toTop', held', enabled', doc')
  BY <1>2, <1>5
<1> QED BY <1>1, <1>2, <1>4, <1>6, <1>7 DEF IInv, Confirmed

\* The element of the top document looks another way.
LEMMA TopChangesKeeps == ASSUME NEW look \in Looks PROVE IInv /\ TopChanges(look) => IInv' /\ Confirmed
<1> SUFFICES ASSUME IInv, TopChanges(look) PROVE IInv' /\ Confirmed
  OBVIOUS
<1>1. /\ Typed /\ tally.confirmed \in Nat /\ top \in Tops
  BY Begins
<1>2. /\ looks' = [looks EXCEPT !["own"] = look] /\ events < MaxEvents /\ events' = events + 1
      /\ UNCHANGED <<enabled, doc, known, child, toTop, toChild, tally>> /\ focus' = focus /\ held' = held
      /\ \/ top' = top
         \/ top' = [top EXCEPT !.cache = [composeCurrentItems EXCEPT !.own = look]]
  BY DEF TopChanges, Event, user
<1>3. events' \in 0..MaxEvents /\ doc \in 0..events' /\ looks' \in [Targets -> Looks]
  <2>1. MaxEvents \in Nat /\ events \in 0..MaxEvents /\ doc \in 0..events
    BY <1>1, BoundsAssumption DEF Typed
  <2>2. looks' \in [Targets -> Looks]
    BY <1>1, <1>2 DEF Typed
  <2> QED BY <1>2, <2>1, <2>2
<1>4. top' \in Tops /\ top'.dialog = top.dialog /\ top'.shown = top.shown /\ top'.hints = top.hints
  <2>1. [composeCurrentItems EXCEPT !.own = look] \in [own : Looks, framed : Looks]
    BY <1>1 DEF composeCurrentItems, Typed, Targets
  <2> QED BY <1>1, <1>2, <2>1 DEF Tops
<1>5. Typed'
  BY <1>1, <1>2, <1>3, <1>4 DEF Typed
<1>6. Accounts' /\ DialogForm(top', doc')
  BY <1>2, <1>4 DEF IInv, Accounts, DialogForm, Asking
<1>7. DownInv(top', toChild', child', doc')
  BY <1>2, <1>4 DEF IInv, DownInv, DialogTold, HeardOnce, HintsTold
<1>8. /\ UpInv(top', toTop', child', focus', held', enabled', doc')
      /\ Holding(top', toTop', held', enabled', doc')
  BY <1>2, <1>4 DEF IInv, UpInv, Holding, KeysArmed, KeysFresh, KeysHeard, KeysReleased
<1> QED BY <1>1, <1>2, <1>5, <1>6, <1>7, <1>8 DEF IInv, Confirmed

\* A refusal that has arrived gives its choice back.
LEMMA Refunds ==
    ASSUME IInv, toTop # <<>>
    PROVE  LET n == Refusals(Tail(toTop))
           IN /\ n \in Nat /\ Owed(Work, n, 0, 0)
              /\ Head(toTop).type = "press/refused" => Owed(Work, n, 1, 0)
<1> DEFINE n == Refusals(Tail(toTop))
<1>1. /\ Ready /\ Typed /\ Good(Work) /\ Owed(Work, Refusals(toTop), 0, 0)
      /\ toTop \in Seq(Upward) /\ Refusals(toTop) \in Nat /\ Work \in Works
  BY Begins DEF Good
<1>2. /\ Refusals(Tail(toTop)) = Refusals(toTop) - (IF Head(toTop).type = "press/refused" THEN 1 ELSE 0)
      /\ n \in Nat
  BY <1>1, CountHeard
<1>3. /\ Due(Work) \in Nat /\ Claims(Work) \in Nat /\ Work.chosen \in Nat /\ Work.confirmed \in Nat
      /\ tally.pressed \in Nat /\ tally.chosen \in Nat /\ tally.spent \in Nat /\ tally.confirmed \in Nat
  BY <1>1, Amounts
<1> HIDE DEF n
<1>4. Head(toTop).type = "press/refused" => Owed(Work, n, 1, 0)
  <2> SUFFICES ASSUME Head(toTop).type = "press/refused" PROVE Owed(Work, n, 1, 0)
    OBVIOUS
  <2>1. Refusals(toTop) = n + 1
    BY <1>1, <1>2 DEF n
  <2>2. tally.pressed + Due(Work) + (n + 1) + 0 <= tally.chosen + Work.chosen
    BY <1>1, <2>1 DEF Owed
  <2>3. tally.pressed + Due(Work) + n + 1 <= tally.chosen + Work.chosen
    BY <1>2, <1>3, <2>2
  <2> QED BY <1>1, <2>3 DEF Owed
<1>5. Owed(Work, n, 0, 0)
  <2>1. CASE Head(toTop).type = "press/refused"
    BY <1>1, <1>2, <1>4, <2>1, Keeps
  <2>2. CASE Head(toTop).type # "press/refused"
    BY <1>1, <1>2, <2>2 DEF n
  <2> QED BY <2>1, <2>2
<1> QED BY <1>2, <1>4, <1>5 DEF n

\* The top document hears a key of the frame for its dialog.
LEMMA HearsKey ==
    ASSUME IInv, toTop # <<>>, Head(toTop).type = "confirm/key", top.dialog.open
    PROVE  LET m == Head(toTop)
               v == handle(Work, m.kind, m.key, m.repeat)
               n == Refusals(Tail(toTop))
           IN /\ Good(v) /\ Owed(v, n, 0, 0)
              /\ UpInv(v.top, Tail(toTop), child, focus, held, enabled, doc)
              /\ Holding(v.top, Tail(toTop), held, enabled, doc)
              /\ v.confirmed # 0 => "confirm" \in top.dialog.fresh
<1> DEFINE m == Head(toTop)
<1> DEFINE v == handle(Work, m.kind, m.key, m.repeat)
<1> DEFINE n == Refusals(Tail(toTop))
<1> DEFINE rest == Tail(toTop)
<1>1. /\ Ready /\ Typed /\ Good(Work) /\ Work.top = top /\ Work.confirmed = 0
      /\ top \in Tops /\ toTop \in Seq(Upward) /\ enabled \in BOOLEAN /\ doc \in Nat
      /\ top.shown \in Nat /\ top.dialog \in Dialogs
      /\ UpInv(top, toTop, child, focus, held, enabled, doc)
      /\ Holding(top, toTop, held, enabled, doc)
  BY Begins
<1>2. n \in Nat /\ Owed(Work, n, 0, 0)
  BY Refunds
<1>3. /\ rest \in Seq(Upward) /\ m \in Upward
      /\ UpInv(top, rest, child, focus, held, enabled, doc)
      /\ ~LetGo(m) => Holding(top, rest, held, enabled, doc)
      /\ top.dialog.armed => m.dialog = top.shown
      /\ Struck(m, top.shown) /\ m.key \in Answers => m.key \in top.dialog.fresh
      /\ top.dialog.born = doc /\ Struck(m, top.shown) /\ m.key = "press"
            => enabled /\ ("press" \in held \/ Going(rest, 0))
  <2>1. rest \in Seq(Upward) /\ m \in Upward
    BY <1>1, UpHeard
  <2>2. UpInv(top, rest, child, focus, held, enabled, doc)
    BY <1>1, UpHeard
  <2>3. ~LetGo(m) => Holding(top, rest, held, enabled, doc)
    BY <1>1, UpHeard
  <2>4. top.dialog.armed => m.dialog = top.shown
    BY <1>1, UpHeard
  <2>5. Struck(m, top.shown) /\ m.key \in Answers => m.key \in top.dialog.fresh
    BY <1>1, UpHeard
  <2>6. top.dialog.born = doc /\ Struck(m, top.shown) /\ m.key = "press"
          => enabled /\ ("press" \in held \/ Going(rest, 0))
    BY <1>1, UpHeard
  <2> QED BY <2>1, <2>2, <2>3, <2>4, <2>5, <2>6
<1>4. m.type = "confirm/key" /\ m.repeat \in BOOLEAN /\ m.kind \in {"keydown", "keyup"} /\ m.key \in Keys
  BY <1>3, UpMessages DEF Answers, Keys
<1> HIDE DEF rest, n, m
<1>5. top.dialog.armed /\ m.kind # "keyup" /\ ~m.repeat => Struck(m, top.shown)
  BY <1>3, <1>4 DEF Struck, Answer
<1>6. top.dialog.armed /\ m.kind # "keyup" /\ m.key = "press" /\ ~m.repeat => "press" \in top.dialog.fresh
  BY <1>3, <1>5 DEF Answers
<1>7. /\ Good(v) /\ Owed(v, n, 0, 0)
      /\ \/ Same(top, v) \/ Closed(top, v) \/ Loosened(top, v)
         \/ Pressing(top, v) /\ m.kind # "keyup" /\ m.key = "press" /\ ~m.repeat
      /\ v.confirmed # 0 => top.dialog.armed /\ m.kind # "keyup" /\ m.key = "confirm" /\ ~m.repeat
      /\ m.kind = "keyup" /\ m.key = "press" => v.top.dialog.hold = FALSE
  <2>1. Good(v) /\ Owed(v, n, 0, 0) /\ Heard(top, v, m.kind, m.key, m.repeat)
    BY <1>1, <1>2, <1>4, <1>6, Handles
  <2> HIDE DEF v
  <2> QED BY <2>1 DEF Heard
<1> HIDE DEF v
<1>8. CASE Pressing(top, v) /\ m.kind # "keyup" /\ m.key = "press" /\ ~m.repeat
  <2>1. /\ v.top.shown = top.shown /\ v.top.dialog.open = top.dialog.open
        /\ v.top.dialog.armed = top.dialog.armed /\ v.top.dialog.born = top.dialog.born
        /\ v.top.dialog.fresh = top.dialog.fresh /\ top.dialog.armed
    BY <1>1, <1>8 DEF Pressing, Dialogs
  <2>2. UpInv(v.top, rest, child, focus, held, enabled, doc)
    BY <1>3, <2>1 DEF UpInv, KeysArmed, KeysFresh, KeysHeard, KeysReleased
  <2>3. Holding(v.top, rest, held, enabled, doc)
    BY <1>3, <1>5, <1>8, <2>1 DEF Holding
  <2> QED BY <1>3, <1>5, <1>7, <2>2, <2>3 DEF m, n, v, rest, Answers
<1>9. CASE Same(top, v) \/ Closed(top, v) \/ Loosened(top, v)
  <2>1. /\ UpInv(v.top, rest, child, focus, held, enabled, doc)
        /\ Holding(top, rest, held, enabled, doc) => Holding(v.top, rest, held, enabled, doc)
    BY <1>1, <1>3, <1>9, UpMoves
  <2>2. LetGo(m) => v.top.dialog.hold = FALSE
    BY <1>7 DEF LetGo
  <2>3. Holding(v.top, rest, held, enabled, doc)
    BY <1>3, <2>1, <2>2 DEF Holding
  <2>4. v.confirmed # 0 => "confirm" \in top.dialog.fresh
    BY <1>3, <1>5, <1>7 DEF Answers
  <2> QED BY <1>7, <2>1, <2>3, <2>4 DEF m, n, v, rest
<1> QED BY <1>7, <1>8, <1>9

\* The top document hears something else, or has no dialog.
LEMMA HearsOther ==
    ASSUME IInv, toTop # <<>>, NEW v,
           \/ Head(toTop).type = "hints/key" /\ v = handleTopHintKey(Work, Head(toTop).key)
           \/ Head(toTop).type = "press/refused" /\ v = openDangerConfirm(Work, "framed")
           \/ (Head(toTop).type = "confirm/key" => ~top.dialog.open) /\ v = Work
    PROVE  LET n == Refusals(Tail(toTop))
           IN /\ Good(v) /\ Owed(v, n, 0, 0) /\ v.confirmed = 0
              /\ UpInv(v.top, Tail(toTop), child, focus, held, enabled, doc)
              /\ Holding(v.top, Tail(toTop), held, enabled, doc)
<1> DEFINE m == Head(toTop)
<1> DEFINE n == Refusals(Tail(toTop))
<1> DEFINE rest == Tail(toTop)
<1>1. /\ Ready /\ Typed /\ Good(Work) /\ Work.top = top /\ Work.confirmed = 0 /\ Work.chosen = 0
      /\ top \in Tops /\ toTop \in Seq(Upward) /\ enabled \in BOOLEAN /\ doc \in Nat
      /\ (top.dialog.hold => top.dialog.armed) /\ (top.dialog.armed => top.dialog.open)
      /\ UpInv(top, toTop, child, focus, held, enabled, doc)
      /\ Holding(top, toTop, held, enabled, doc)
  BY Begins
<1>2. n \in Nat /\ Owed(Work, n, 0, 0) /\ (m.type = "press/refused" => Owed(Work, n, 1, 0))
  BY Refunds
<1>3. /\ rest \in Seq(Upward) /\ UpInv(top, rest, child, focus, held, enabled, doc)
      /\ ~LetGo(m) => Holding(top, rest, held, enabled, doc)
  BY <1>1, UpHeard
<1> HIDE DEF rest, n
<1>4. Holding(top, rest, held, enabled, doc)
  <2>1. CASE m.type # "confirm/key"
    BY <1>3, <2>1 DEF LetGo
  <2>2. CASE ~top.dialog.open
    BY <1>1, <2>2 DEF Holding
  <2> QED BY <2>1, <2>2
<1>5. Good(v) /\ Owed(v, n, 0, 0) /\ v.confirmed = 0 /\ (Same(top, v) \/ Opened(top, v))
  <2>1. CASE v = Work
    BY <1>1, <1>2, <2>1 DEF Same
  <2>2. CASE v = handleTopHintKey(Work, m.key)
    <3>1. /\ Good(v) /\ Owed(v, n, 0, 0) /\ v.confirmed = Work.confirmed
          /\ (Same(Work.top, v) \/ Opened(Work.top, v))
      BY <1>1, <1>2, <2>2, HintKey
    <3> QED BY <1>1, <3>1
  <2>3. CASE m.type = "press/refused" /\ v = openDangerConfirm(Work, "framed")
    <3>1. /\ Owed(Work, n, 1, 0) /\ "framed" \in Targets /\ 1 \in Nat /\ 0 \in Nat
          /\ 1 + Asking(Work.top) > 0 /\ 1 + Asking(Work.top) - 1 \in Nat
      BY <1>2, <2>3 DEF Targets, Asking
    <3>2. /\ Good(v) /\ Owed(v, n, 1 + Asking(Work.top) - 1, 0) /\ Opened(Work.top, v)
          /\ v.chosen = Work.chosen /\ v.confirmed = Work.confirmed
      BY <1>1, <1>2, <2>3, <3>1, OpensDialog
    <3>3. Owed(v, n, 0, 0)
      BY <1>1, <1>2, <3>1, <3>2, Keeps
    <3> QED BY <1>1, <3>2, <3>3
  <2> QED BY <2>1, <2>2, <2>3
<1>6. /\ UpInv(v.top, rest, child, focus, held, enabled, doc)
      /\ Holding(top, rest, held, enabled, doc) => Holding(v.top, rest, held, enabled, doc)
  BY <1>1, <1>3, <1>5, UpMoves
<1> QED BY <1>4, <1>5, <1>6 DEF n, rest

\* A message of the frame is taken.
LEMMA TopReceivesKeeps == IInv /\ TopReceives => IInv' /\ Confirmed
<1> SUFFICES ASSUME IInv, TopReceives PROVE IInv' /\ Confirmed
  OBVIOUS
<1> DEFINE m == Head(toTop)
<1> DEFINE rest == Tail(toTop)
<1> DEFINE n == Refusals(rest)
<1> DEFINE v == CASE m.type = "hints/key" /\ enabled -> handleTopHintKey(Work, m.key)
                  [] m.type = "confirm/key" /\ top.dialog.open -> handle(Work, m.kind, m.key, m.repeat)
                  [] m.type = "press/refused" /\ top.cache.framed # "gone" -> openDangerConfirm(Work, "framed")
                  [] OTHER -> Work
<1>1. /\ toTop # <<>> /\ toTop' = rest /\ Done(v) /\ known' = IF m.type = "frame/report" THEN m.look ELSE known
      /\ UNCHANGED <<enabled, looks, doc, child, focus, held, events>>
  BY DEF TopReceives, user
<1>2. /\ Typed /\ toTop \in Seq(Upward) /\ tally.confirmed \in Nat
  BY Begins
<1>3. rest \in Seq(Upward) /\ m \in Upward
  BY <1>1, <1>2, Shorter
<1>4. known' \in Looks
  BY <1>1, <1>2, <1>3, UpMessages DEF Typed
<1>5. /\ Good(v) /\ Owed(v, n, 0, 0)
      /\ UpInv(v.top, rest, child, focus, held, enabled, doc)
      /\ Holding(v.top, rest, held, enabled, doc)
      /\ v.confirmed # 0 => "confirm" \in top.dialog.fresh
  <2>1. CASE m.type = "confirm/key" /\ top.dialog.open
    <3> DEFINE u == handle(Work, m.kind, m.key, m.repeat)
    <3>1. v = u
      BY <2>1
    <3>2. /\ Good(u) /\ Owed(u, n, 0, 0)
          /\ UpInv(u.top, rest, child, focus, held, enabled, doc)
          /\ Holding(u.top, rest, held, enabled, doc)
          /\ u.confirmed # 0 => "confirm" \in top.dialog.fresh
      BY <1>1, <2>1, HearsKey
    <3> HIDE DEF u, v
    <3> QED BY <3>1, <3>2
  <2>2. CASE ~(m.type = "confirm/key" /\ top.dialog.open)
    <3>1. \/ m.type = "hints/key" /\ v = handleTopHintKey(Work, m.key)
          \/ m.type = "press/refused" /\ v = openDangerConfirm(Work, "framed")
          \/ (m.type = "confirm/key" => ~top.dialog.open) /\ v = Work
      <4>1. CASE m.type = "hints/key" /\ enabled
        BY <4>1
      <4>2. CASE m.type = "press/refused" /\ top.cache.framed # "gone"
        BY <4>2
      <4>3. CASE ~(m.type = "hints/key" /\ enabled) /\ ~(m.type = "press/refused" /\ top.cache.framed # "gone")
        BY <2>2, <4>3
      <4> QED BY <4>1, <4>2, <4>3
    <3> HIDE DEF v
    <3>2. /\ Good(v) /\ Owed(v, n, 0, 0) /\ v.confirmed = 0
          /\ UpInv(v.top, rest, child, focus, held, enabled, doc)
          /\ Holding(v.top, rest, held, enabled, doc)
      BY <1>1, <3>1, HearsOther
    <3> QED BY <3>2
  <2> QED BY <2>1, <2>2
<1> HIDE DEF v, rest
<1>6. /\ focus' \in Frames /\ held' \subseteq Answers /\ events' \in 0..MaxEvents /\ doc \in 0..events'
      /\ enabled' \in BOOLEAN
  BY <1>1, <1>2 DEF Typed
<1>7. n \in Nat /\ n = Refusals(toTop')
  BY <1>1, Refunds DEF rest
<1>8. toTop' \in Seq(Upward) /\ UNCHANGED <<looks, doc, child>>
  BY <1>1, <1>3
<1>9. /\ UpInv(v.top, toTop', child, focus', held', enabled', doc)
      /\ Holding(v.top, toTop', held', enabled', doc)
  BY <1>1, <1>5
<1> HIDE DEF n, m
<1>10. IInv' /\ tally'.confirmed = tally.confirmed + v.confirmed
  BY <1>1, <1>4, <1>5, <1>6, <1>7, <1>8, <1>9, Concludes
<1>11. v.confirmed \in {0, 1}
  BY <1>5 DEF Good, Works
<1> QED BY <1>2, <1>5, <1>10, <1>11 DEF Confirmed

\* An empty channel holds nothing.
LEMMA NothingSent == Requests(<<>>) = 0 /\ Consents(<<>>) = 0 /\ Refusals(<<>>) = 0
<1>1. 1..Len(<<>>) = {}
  OBVIOUS
<1> QED BY <1>1, FS_EmptySet DEF Requests, Consents, Refusals

\* The element of the frame looks another way, and the frame says so.
LEMMA ChildChangesKeeps == ASSUME NEW look \in Looks PROVE IInv /\ ChildChanges(look) => IInv' /\ Confirmed
<1> SUFFICES ASSUME IInv, ChildChanges(look) PROVE IInv' /\ Confirmed
  OBVIOUS
<1> DEFINE m == Report(look)
<1>1. /\ Typed /\ tally.confirmed \in Nat /\ toTop \in Seq(Upward)
      /\ UpInv(top, toTop, child, focus, held, enabled, doc)
      /\ Holding(top, toTop, held, enabled, doc)
  BY Begins
<1>2. /\ looks' = [looks EXCEPT !["framed"] = look] /\ events < MaxEvents /\ events' = events + 1
      /\ UNCHANGED <<enabled, doc, known, top, child, toChild, tally>> /\ focus' = focus /\ held' = held
      /\ toTop' = Append(toTop, m)
  BY DEF ChildChanges, Event, user, ToTop
<1>3. events' \in 0..MaxEvents /\ doc \in 0..events' /\ looks' \in [Targets -> Looks]
  <2>1. MaxEvents \in Nat /\ events \in 0..MaxEvents /\ doc \in 0..events
    BY <1>1, BoundsAssumption DEF Typed
  <2>2. looks' \in [Targets -> Looks]
    BY <1>1, <1>2 DEF Typed
  <2> QED BY <1>2, <2>1, <2>2
<1>4. m \in Upward /\ m.type = "frame/report"
  BY UpMessages DEF Report
<1> HIDE DEF m
<1>5. toTop' \in Seq(Upward) /\ Refusals(toTop') = Refusals(toTop)
  BY <1>2, <1>4, SaysUp
<1>6. Typed'
  BY <1>1, <1>2, <1>3, <1>5 DEF Typed
<1>7. /\ UpInv(top, toTop', child, focus, held, enabled, doc)
      /\ Holding(top, toTop', held, enabled, doc)
  BY <1>1, <1>2, <1>4, UpSays
<1>8. Accounts' /\ DialogForm(top', doc') /\ DownInv(top', toChild', child', doc')
  BY <1>2, <1>5 DEF IInv, Accounts
<1>9. /\ UpInv(top', toTop', child', focus', held', enabled', doc')
      /\ Holding(top', toTop', held', enabled', doc')
  BY <1>2, <1>7
<1> QED BY <1>1, <1>2, <1>6, <1>8, <1>9 DEF IInv, Confirmed

\* Another document in the frame: no dialog was opened while it was there.
LEMMA ChildLoadsKeeps == ASSUME NEW look \in Looks PROVE IInv /\ ChildLoads(look) => IInv' /\ Confirmed
<1> SUFFICES ASSUME IInv, ChildLoads(look) PROVE IInv' /\ Confirmed
  OBVIOUS
<1> DEFINE m == Report(look)
<1> DEFINE c == [hints |-> FALSE, dialog |-> 0]
<1> DEFINE d == doc + 1
<1>1. /\ Typed /\ tally.confirmed \in Nat /\ toTop \in Seq(Upward) /\ top.shown \in Nat /\ doc \in Nat
      /\ top.dialog \in Dialogs /\ (top.dialog.hold => top.dialog.armed)
      /\ (top.dialog.armed => top.dialog.open) /\ (top.dialog.open => top.shown > 0)
      /\ UpInv(top, toTop, child, focus, held, enabled, doc)
  BY Begins
<1>2. /\ looks' = [looks EXCEPT !["framed"] = look] /\ events < MaxEvents /\ events' = events + 1
      /\ UNCHANGED <<enabled, known, top, tally>> /\ focus' = focus /\ held' = held
      /\ toTop' = Append(toTop, m) /\ doc' = d /\ child' = c
      /\ (toChild' = toChild \/ toChild' = <<>>)
  BY DEF ChildLoads, Event, user, ToTop
<1>3. /\ events' \in 0..MaxEvents /\ d \in 0..events' /\ looks' \in [Targets -> Looks]
      /\ c \in [hints : BOOLEAN, dialog : Nat] /\ c.dialog = 0 /\ d # 0
      /\ (top.dialog.open => top.dialog.born <= d /\ top.dialog.born # d)
  <2>1. MaxEvents \in Nat /\ events \in 0..MaxEvents /\ doc \in 0..events
    BY <1>1, BoundsAssumption DEF Typed
  <2>2. looks' \in [Targets -> Looks]
    BY <1>1, <1>2 DEF Typed
  <2>3. top.dialog.born \in Nat /\ (top.dialog.open => top.dialog.born <= doc)
    BY <1>1 DEF Dialogs, IInv, DialogForm
  <2>4. top.dialog.open => top.dialog.born <= d /\ top.dialog.born # d
    BY <1>1, <2>3
  <2> QED BY <1>1, <1>2, <2>1, <2>2, <2>4
<1>4. m \in Upward /\ m.type = "frame/report"
  BY UpMessages DEF Report
<1> HIDE DEF m, c, d
<1>5. toTop' \in Seq(Upward) /\ Refusals(toTop') = Refusals(toTop)
  BY <1>2, <1>4, SaysUp
<1>6. toChild' \in Seq(Down)
  <2>1. toChild \in Seq(Down) /\ <<>> \in Seq(Down)
    BY <1>1, EmptySeq DEF Typed
  <2> QED BY <1>2, <2>1
<1>7. Typed'
  BY <1>1, <1>2, <1>3, <1>5, <1>6 DEF Typed
<1>8. Accounts'
  <2>1. CASE toChild' = toChild
    BY <1>2, <1>5, <2>1 DEF IInv, Accounts
  <2>2. CASE toChild' = <<>>
    <3>1. Requests(toChild') = 0 /\ Consents(toChild') = 0
      BY <2>2, NothingSent
    <3>2. Requests(toChild) \in Nat /\ Consents(toChild) \in Nat /\ Refusals(toTop) \in Nat /\ Asking(top) \in Nat
      <4>1. toChild \in Seq(Down)
        BY <1>1 DEF Typed
      <4>2. Requests(toChild) \in Nat /\ Consents(toChild) \in Nat
        BY <4>1, CountSaid, DownMessages
      <4>3. Refusals(toTop) \in Nat
        BY Begins
      <4> QED BY <4>2, <4>3 DEF Asking
    <3>3. /\ tally.pressed \in Nat /\ tally.chosen \in Nat /\ tally.spent \in Nat /\ tally.confirmed \in Nat
      BY <1>1 DEF Typed
    <3>4. /\ tally.pressed + Requests(toChild) + Refusals(toTop) + Asking(top) <= tally.chosen
          /\ tally.spent + Consents(toChild) <= tally.confirmed
      BY DEF IInv, Accounts
    <3>5. /\ tally.pressed + 0 + Refusals(toTop) + Asking(top) <= tally.chosen
          /\ tally.spent + 0 <= tally.confirmed
      BY <3>2, <3>3, <3>4
    <3> QED BY <1>2, <1>5, <3>1, <3>5 DEF Accounts
  <2> QED BY <1>2, <2>1, <2>2
<1>9. DialogForm(top, d)
  BY <1>3 DEF IInv, DialogForm
<1>10. DownInv(top, toChild', c, d)
  <2>1. DownInv(top, toChild, child, doc)
    BY DEF IInv
  <2>2. CASE toChild' = toChild
    BY <1>1, <1>3, <2>1, <2>2 DEF DownInv, DialogTold, HeardOnce, HintsTold
  <2>3. CASE toChild' = <<>>
    <3>1. 1..Len(toChild') = {}
      BY <2>3
    <3>2. /\ \A ty : NoWord(toChild', ty)
          /\ NumberedTo(toChild', top.shown) /\ FinalWord(toChild', top.shown)
      BY <3>1 DEF NoWord, NumberedTo, FinalWord
    <3> QED BY <1>1, <1>3, <3>2 DEF DownInv, DialogTold, HeardOnce, HintsTold
  <2> QED BY <1>2, <2>2, <2>3
<1>11. UpInv(top, toTop, c, focus, held, enabled, d) /\ Holding(top, toTop, held, enabled, d)
  BY <1>1, <1>3 DEF UpInv, Holding
<1>12. UpInv(top, toTop', c, focus, held, enabled, d) /\ Holding(top, toTop', held, enabled, d)
  BY <1>1, <1>2, <1>4, <1>11, UpSays
<1>13. /\ DialogForm(top', doc') /\ DownInv(top', toChild', child', doc')
       /\ UpInv(top', toTop', child', focus', held', enabled', doc')
       /\ Holding(top', toTop', held', enabled', doc')
  BY <1>2, <1>9, <1>10, <1>12
<1> QED BY <1>1, <1>2, <1>7, <1>8, <1>13 DEF IInv, Confirmed

\* What is still on its way when the child has heard a word, and what it knows then.
LEMMA ChildHears ==
    ASSUME NEW t, t.shown \in Nat, NEW ch \in Seq(Down), ch # <<>>, NEW c, NEW d,
           DownInv(t, ch, c, d), NEW k,
           Head(ch).type = "confirm/state" => k.dialog = Head(ch).dialog,
           Head(ch).type # "confirm/state" => k.dialog = c.dialog,
           Head(ch).type = "hints/state" => k.hints = Head(ch).on,
           Head(ch).type # "hints/state" => k.hints = c.hints
    PROVE  DownInv(t, Tail(ch), k, d)
<1> DEFINE rest == Tail(ch)
<1> DEFINE m == Head(ch)
<1>1. /\ \A ty : NoWord(ch, ty) => m.type # ty /\ NoWord(rest, ty)
      /\ \A n : LastDialog(ch, n) => \/ LastDialog(rest, n)
                                     \/ m.type = "confirm/state" /\ m.dialog = n /\ NoWord(rest, "confirm/state")
      /\ \A b : LastHints(ch, b) => \/ LastHints(rest, b)
                                    \/ m.type = "hints/state" /\ m.on = b /\ NoWord(rest, "hints/state")
  BY DownHeard
<1>2. /\ \A n : NumberedTo(ch, n) => NumberedTo(rest, n) /\ (m.type = "confirm/state" => m.dialog <= n)
      /\ \A n : FinalWord(ch, n) =>
            FinalWord(rest, n) /\ (m.type = "confirm/state" /\ m.dialog = n => NoWord(rest, "confirm/state"))
  BY DownHeard
<1> HIDE DEF rest, m
<1>3. /\ c.dialog <= t.shown /\ NumberedTo(ch, t.shown)
      /\ DialogTold(t, ch, c, d) /\ HeardOnce(t, ch, c) /\ HintsTold(t, ch, c, d)
      /\ t.dialog.armed => NoWord(ch, "confirm/state")
  BY DEF DownInv
<1>4. /\ m.type = "confirm/state" => k.dialog = m.dialog
      /\ m.type # "confirm/state" => k.dialog = c.dialog
      /\ m.type = "hints/state" => k.hints = m.on
      /\ m.type # "hints/state" => k.hints = c.hints
  BY DEF m
<1>5. k.dialog <= t.shown /\ NumberedTo(rest, t.shown)
  BY <1>2, <1>3, <1>4
<1>6. DialogTold(t, rest, k, d)
  <2>1. t.dialog.open => \/ LastDialog(rest, t.shown)
                         \/ /\ NoWord(rest, "confirm/state") /\ k.dialog \in {0, t.shown}
                            /\ t.dialog.born = d => k.dialog = t.shown
    BY <1>1, <1>3, <1>4 DEF DialogTold
  <2>2. ~t.dialog.open /\ d = 0 => LastDialog(rest, 0) \/ (NoWord(rest, "confirm/state") /\ k.dialog = 0)
    BY <1>1, <1>3, <1>4 DEF DialogTold
  <2> QED BY <2>1, <2>2 DEF DialogTold
<1>7. HeardOnce(t, rest, k)
  BY <1>1, <1>2, <1>3, <1>4 DEF HeardOnce
<1>8. HintsTold(t, rest, k, d)
  BY <1>1, <1>3, <1>4 DEF HintsTold
<1>9. t.dialog.armed => NoWord(rest, "confirm/state")
  BY <1>1, <1>3
<1> QED BY <1>5, <1>6, <1>7, <1>8, <1>9 DEF DownInv, rest

\* Less of one of the numbers of a sum.
LEMMA Less ==
    ASSUME NEW p \in Nat, NEW r \in Nat, NEW n \in Nat, NEW a \in Nat, NEW x \in Nat, NEW q \in Nat, q <= r,
           p + r + n + a <= x
    PROVE  p + q + n + a <= x
OBVIOUS

\* The child takes a word that asks for no press.
LEMMA ChildToldKeeps ==
    ASSUME IInv, toChild # <<>>, toChild' = Tail(toChild), UNCHANGED <<page, top, user, events, toTop, tally>>,
           child' \in [hints : BOOLEAN, dialog : Nat],
           LET m == Head(toChild)
           IN /\ m.type = "confirm/state" => child'.dialog = m.dialog
              /\ m.type # "confirm/state" => child'.dialog = child.dialog
              /\ m.type = "hints/state" => child'.hints = m.on
              /\ m.type # "hints/state" => child'.hints = child.hints
    PROVE  IInv'
<1>1. /\ Typed /\ top.shown \in Nat /\ UpInv(top, toTop, child, focus, held, enabled, doc)
      /\ DownInv(top, toChild, child, doc) /\ toChild \in Seq(Down)
  BY Begins DEF IInv, Typed
<1>2. toChild' \in Seq(Down) /\ Head(toChild) \in Down
  BY <1>1, DownHeard
<1>3. Typed'
  BY <1>1, <1>2 DEF Typed, page, user
<1>4. DownInv(top, toChild', child', doc)
  BY <1>1, ChildHears
<1>5. UpInv(top, toTop, child', focus, held, enabled, doc)
  <2>1. KeysHeard(top, toTop, child) /\ top.dialog.open => KeysHeard(top, toTop, child')
    <3> SUFFICES ASSUME KeysHeard(top, toTop, child), top.dialog.open,
                        NEW i \in 1..Len(toTop), Answer(toTop[i], top.shown)
                 PROVE  child'.dialog = top.shown
      BY DEF KeysHeard
    <3>1. child.dialog = top.shown
      BY DEF KeysHeard
    <3>2. NoWord(toChild, "confirm/state")
      BY <1>1, <3>1 DEF DownInv, HeardOnce
    <3>3. Head(toChild).type # "confirm/state"
      BY <1>1, <3>2, DownHeard
    <3> QED BY <3>1, <3>3
  <2> QED BY <1>1, <2>1 DEF UpInv
<1>6. Accounts'
  <2>1. /\ Requests(toChild') \in Nat /\ Consents(toChild') \in Nat
        /\ Requests(toChild') <= Requests(toChild) /\ Consents(toChild') <= Consents(toChild)
        /\ Requests(toChild) \in Nat /\ Consents(toChild) \in Nat
    <3>1. /\ Requests(toChild) \in Nat /\ Consents(toChild) \in Nat
      BY <1>1, <1>2, CountSaid
    <3> QED BY <1>1, <3>1, CountHeard
  <2>2. Refusals(toTop) \in Nat /\ Asking(top) \in Nat
    BY Begins DEF Asking
  <2>3. /\ tally.pressed \in Nat /\ tally.chosen \in Nat /\ tally.spent \in Nat /\ tally.confirmed \in Nat
    BY <1>1 DEF Typed
  <2>4. /\ tally.pressed + Requests(toChild) + Refusals(toTop) + Asking(top) <= tally.chosen
        /\ tally.spent + Consents(toChild) <= tally.confirmed
    BY DEF IInv, Accounts
  <2>5. /\ tally.pressed + Requests(toChild') + Refusals(toTop) + Asking(top) <= tally.chosen
        /\ tally.spent + Consents(toChild') <= tally.confirmed
    <3>1. tally.pressed + Requests(toChild') + Refusals(toTop) + Asking(top) <= tally.chosen
      BY <2>1, <2>2, <2>3, <2>4, Less
    <3>2. tally.spent + Consents(toChild') <= tally.confirmed
      BY <2>1, <2>3, <2>4
    <3> QED BY <3>1, <3>2
  <2> QED BY <2>5 DEF Accounts
<1>7. /\ DialogForm(top', doc') /\ DownInv(top', toChild', child', doc')
      /\ UpInv(top', toTop', child', focus', held', enabled', doc')
      /\ Holding(top', toTop', held', enabled', doc')
  BY <1>4, <1>5 DEF IInv, page, user
<1> QED BY <1>3, <1>6, <1>7 DEF IInv

\* Numbers that change places.
LEMMA Swap ==
    ASSUME NEW p \in Nat, NEW r \in Nat, NEW n \in Nat, NEW a \in Nat, NEW x \in Nat,
           p + (r + 1) + n + a <= x
    PROVE  /\ (p + 1) + r + n + a <= x /\ p + r + (n + 1) + a <= x /\ p + r + n + a <= x
OBVIOUS

\* The child takes a request: it presses, or refuses, and then may say so.
LEMMA ChildAskedKeeps ==
    ASSUME IInv, toChild # <<>>, toChild' = Tail(toChild), UNCHANGED <<page, top, user, events, child>>,
           Head(toChild).type = "press/request",
           LET m == Head(toChild)
               p == IF enabled THEN Pressed("framed", m.confirmed) ELSE <<>>
           IN \/ tally' = tally /\ (toTop' = toTop \/ toTop' = Append(toTop, [type |-> "press/refused"]))
              \/ ~Refuses(m) /\ Counted(p, 0, 0) /\ toTop' = toTop
    PROVE  IInv' /\ tally'.confirmed = tally.confirmed
<1> DEFINE m == Head(toChild)
<1> DEFINE rest == Tail(toChild)
<1> DEFINE z == IF m.confirmed THEN 1 ELSE 0
<1>1. /\ Typed /\ top.shown \in Nat /\ UpInv(top, toTop, child, focus, held, enabled, doc)
      /\ Holding(top, toTop, held, enabled, doc)
      /\ DownInv(top, toChild, child, doc) /\ toChild \in Seq(Down) /\ toTop \in Seq(Upward)
      /\ Refusals(toTop) \in Nat /\ Asking(top) \in Nat
  BY Begins DEF IInv, Typed, Asking
<1>2. rest \in Seq(Down) /\ m \in Down /\ m.confirmed \in BOOLEAN
  BY <1>1, DownHeard, DownMessages
<1>3. DownInv(top, rest, child, doc)
  BY <1>1, ChildHears
<1>4. /\ Requests(rest) \in Nat /\ Consents(rest) \in Nat /\ z \in Nat
      /\ Requests(toChild) = Requests(rest) + 1 /\ Consents(toChild) = Consents(rest) + z
  <2>1. Requests(toChild) \in Nat /\ Consents(toChild) \in Nat
    BY <1>1, <1>2, CountSaid
  <2>2. /\ Requests(rest) = Requests(toChild) - 1 /\ Requests(rest) \in Nat
        /\ Consents(rest) = Consents(toChild) - z /\ Consents(rest) \in Nat /\ z \in Nat
    BY <1>1, CountHeard
  <2> HIDE DEF z, rest
  <2> QED BY <2>1, <2>2
<1>5. /\ tally.pressed \in Nat /\ tally.chosen \in Nat /\ tally.spent \in Nat /\ tally.confirmed \in Nat
      /\ tally = [chosen |-> tally.chosen, pressed |-> tally.pressed, confirmed |-> tally.confirmed,
                  spent |-> tally.spent]
  BY <1>1 DEF Typed
<1> HIDE DEF z, rest
<1>6. /\ tally.pressed + (Requests(rest) + 1) + Refusals(toTop) + Asking(top) <= tally.chosen
      /\ tally.spent + (Consents(rest) + z) <= tally.confirmed
  BY <1>4 DEF IInv, Accounts
<1>7. /\ (tally.pressed + 1) + Requests(rest) + Refusals(toTop) + Asking(top) <= tally.chosen
      /\ tally.pressed + Requests(rest) + (Refusals(toTop) + 1) + Asking(top) <= tally.chosen
      /\ tally.pressed + Requests(rest) + Refusals(toTop) + Asking(top) <= tally.chosen
      /\ (tally.spent + z) + Consents(rest) <= tally.confirmed
      /\ tally.spent + Consents(rest) <= tally.confirmed
  <2>1. /\ (tally.pressed + 1) + Requests(rest) + Refusals(toTop) + Asking(top) <= tally.chosen
        /\ tally.pressed + Requests(rest) + (Refusals(toTop) + 1) + Asking(top) <= tally.chosen
        /\ tally.pressed + Requests(rest) + Refusals(toTop) + Asking(top) <= tally.chosen
    BY <1>1, <1>4, <1>5, <1>6, Swap
  <2>2. /\ (tally.spent + z) + Consents(rest) <= tally.confirmed
        /\ tally.spent + Consents(rest) <= tally.confirmed
    BY <1>4, <1>5, <1>6
  <2> QED BY <2>1, <2>2
<1>8. /\ toTop' \in Seq(Upward)
      /\ UpInv(top, toTop', child, focus, held, enabled, doc)
      /\ Holding(top, toTop', held, enabled, doc)
      /\ tally' \in [chosen : Nat, pressed : Nat, confirmed : Nat, spent : Nat]
      /\ tally'.pressed + Requests(rest) + Refusals(toTop') + Asking(top) <= tally'.chosen
      /\ tally'.spent + Consents(rest) <= tally'.confirmed
      /\ tally'.confirmed = tally.confirmed
  <2> DEFINE r == [type |-> "press/refused"]
  <2> DEFINE p == IF enabled THEN Pressed("framed", m.confirmed) ELSE <<>>
  <2>1. CASE tally' = tally /\ toTop' = toTop
    BY <1>1, <1>7, <2>1 DEF Typed
  <2>2. CASE tally' = tally /\ toTop' = Append(toTop, r)
    <3>1. r \in Upward /\ r.type = "press/refused"
      BY UpMessages
    <3> HIDE DEF r
    <3>2. toTop' \in Seq(Upward) /\ Refusals(toTop') = Refusals(toTop) + 1
      BY <1>1, <2>2, <3>1, CountSaid, Longer
    <3>3. /\ UpInv(top, toTop', child, focus, held, enabled, doc)
          /\ Holding(top, toTop', held, enabled, doc)
      BY <1>1, <2>2, <3>1, UpSays
    <3> QED BY <1>1, <1>7, <2>2, <3>2, <3>3 DEF Typed
  <2>3. CASE ~Refuses(m) /\ Counted(p, 0, 0) /\ toTop' = toTop
    <3> DEFINE y == IF p # <<>> /\ (p[1].confirmed \/ looks[p[1].target] = "dangerous")
                    THEN tally.spent + 1 ELSE tally.spent
    <3>1. tally' = [chosen |-> tally.chosen + 0, confirmed |-> tally.confirmed + 0,
                    pressed |-> tally.pressed + Len(p), spent |-> y]
      BY <2>3 DEF Counted
    <3>2. (p = <<>> \/ p = <<[target |-> "framed", confirmed |-> m.confirmed]>>)
      BY DEF Pressed
    <3> HIDE DEF p
    <3>3. Len(p) \in {0, 1} /\ (y = tally.spent \/ y = tally.spent + z)
      <4>1. CASE p = <<>>
        BY <4>1
      <4>2. CASE p = <<[target |-> "framed", confirmed |-> m.confirmed]>>
        <5>1. Len(p) = 1 /\ p # <<>> /\ p[1].confirmed = m.confirmed /\ p[1].target = "framed"
          BY <4>2
        <5>2. looks["framed"] = "dangerous" => m.confirmed
          BY <2>3 DEF Refuses
        <5> HIDE DEF m
        <5>3. CASE m.confirmed
          BY <5>1, <5>3 DEF z
        <5>4. CASE ~m.confirmed
          BY <5>1, <5>2, <5>4
        <5> QED BY <5>1, <5>3, <5>4
      <4> QED BY <3>2, <4>1, <4>2
    <3> HIDE DEF p, y
    <3>4. /\ tally.chosen + 0 = tally.chosen /\ tally.confirmed + 0 = tally.confirmed
          /\ tally.pressed + Len(p) \in {tally.pressed, tally.pressed + 1}
          /\ tally.pressed + 1 \in Nat /\ tally.spent + z \in Nat
      <4>1. /\ \A a \in Nat : a + 0 = a /\ a + 1 \in Nat
            /\ \A a, b \in Nat : a + b \in Nat
        OBVIOUS
      <4>2. tally.chosen + 0 = tally.chosen
        BY <1>5, <4>1
      <4>3. tally.confirmed + 0 = tally.confirmed
        BY <1>5, <4>1
      <4>4. tally.pressed + 0 = tally.pressed /\ tally.pressed + 1 \in Nat
        BY <1>5, <4>1
      <4>5. tally.spent + z \in Nat
        BY <1>4, <1>5, <4>1
      <4> QED BY <3>3, <4>2, <4>3, <4>4, <4>5
    <3>5. /\ tally'.chosen = tally.chosen /\ tally'.confirmed = tally.confirmed
          /\ tally'.pressed \in {tally.pressed, tally.pressed + 1}
          /\ tally'.spent \in {tally.spent, tally.spent + z}
          /\ tally' \in [chosen : Nat, pressed : Nat, confirmed : Nat, spent : Nat]
      BY <1>5, <3>1, <3>3, <3>4
    <3>6. /\ tally'.pressed + Requests(rest) + Refusals(toTop) + Asking(top) <= tally'.chosen
          /\ tally'.spent + Consents(rest) <= tally'.confirmed
      BY <1>7, <3>5
    <3> QED BY <1>1, <2>3, <3>5, <3>6
  <2> QED BY <2>1, <2>2, <2>3
<1>9. Typed'
  BY <1>1, <1>2, <1>8 DEF Typed, page, user, rest
<1>10. /\ Accounts' /\ DialogForm(top', doc') /\ DownInv(top', toChild', child', doc')
       /\ UpInv(top', toTop', child', focus', held', enabled', doc')
       /\ Holding(top', toTop', held', enabled', doc')
  BY <1>3, <1>8 DEF IInv, Accounts, page, user, rest
<1> QED BY <1>8, <1>9, <1>10 DEF IInv

\* The child takes a word.
LEMMA ChildReceivesKeeps == IInv /\ ChildReceives => IInv' /\ Confirmed
<1> SUFFICES ASSUME IInv, ChildReceives PROVE IInv' /\ Confirmed
  OBVIOUS
<1> DEFINE m == Head(toChild)
<1>1. /\ toChild # <<>> /\ toChild' = Tail(toChild) /\ UNCHANGED <<page, top, user, events>>
  BY DEF ChildReceives
<1>2. /\ toChild \in Seq(Down) /\ child \in [hints : BOOLEAN, dialog : Nat] /\ tally.confirmed \in Nat
  BY DEF IInv, Typed
<1>3. m \in Down
  BY <1>1, <1>2, DownHeard
<1>4. /\ m.type = "hints/state" => m.on \in BOOLEAN
      /\ m.type = "confirm/state" => m.dialog \in Nat
      /\ m.type \in {"hints/state", "confirm/state", "press/request"}
  BY <1>3, DownMessages
<1>5. CASE m.type = "hints/state"
  <2>1. child' = [child EXCEPT !.hints = m.on] /\ UNCHANGED <<toTop, tally>>
    BY <1>5 DEF ChildReceives
  <2> HIDE DEF m
  <2>2. child' \in [hints : BOOLEAN, dialog : Nat] /\ child'.dialog = child.dialog /\ child'.hints = m.on
    BY <1>2, <1>4, <1>5, <2>1
  <2>3. IInv'
    BY <1>1, <1>5, <2>1, <2>2, ChildToldKeeps DEF m
  <2> QED BY <1>2, <2>1, <2>3 DEF Confirmed
<1>6. CASE m.type = "confirm/state"
  <2>1. child' = [child EXCEPT !.dialog = m.dialog] /\ UNCHANGED <<toTop, tally>>
    BY <1>6 DEF ChildReceives
  <2> HIDE DEF m
  <2>2. child' \in [hints : BOOLEAN, dialog : Nat] /\ child'.dialog = m.dialog /\ child'.hints = child.hints
    BY <1>2, <1>4, <1>6, <2>1
  <2>3. IInv'
    BY <1>1, <1>6, <2>1, <2>2, ChildToldKeeps DEF m
  <2> QED BY <1>2, <2>1, <2>3 DEF Confirmed
<1>7. CASE m.type = "press/request"
  <2> DEFINE p == IF enabled THEN Pressed("framed", m.confirmed) ELSE <<>>
  <2>1. /\ child' = child
        /\ \/ tally' = tally /\ (toTop' = toTop \/ toTop' = Append(toTop, [type |-> "press/refused"]))
           \/ ~Refuses(m) /\ Counted(p, 0, 0) /\ toTop' = toTop
    BY <1>7 DEF ChildReceives, ToTop
  <2>2. IInv' /\ tally'.confirmed = tally.confirmed
    BY <1>1, <1>7, <2>1, ChildAskedKeeps
  <2> QED BY <1>2, <2>2 DEF Confirmed
<1> QED BY <1>4, <1>5, <1>6, <1>7

-----------------------------------------------------------------------------
(* The invariant, and what follows from it *)

\* It holds of an initial state.
LEMMA Starting == Init => IInv
<1> SUFFICES ASSUME Init PROVE IInv
  OBVIOUS
<1> USE DEF Init
<1>1. /\ NoDialog \in Dialogs /\ ~NoDialog.open /\ ~NoDialog.armed /\ ~NoDialog.hold
  BY DEF NoDialog, Dialogs, Targets
<1>2. /\ top \in Tops /\ top.dialog = NoDialog /\ top.shown = 0 /\ top.hints = {}
  <2>1. <<>> \in Seq((SUBSET Targets) \ {{}})
    BY EmptySeq
  <2> HIDE DEF NoDialog
  <2> QED BY <1>1, <2>1 DEF Tops, Looks
<1>3. /\ toTop = <<>> /\ toChild = <<>> /\ toTop \in Seq(Upward) /\ toChild \in Seq(Down)
      /\ 1..Len(toTop) = {} /\ 1..Len(toChild) = {}
  BY EmptySeq
<1>4. Typed
  <2>1. MaxEvents \in Nat
    BY BoundsAssumption
  <2>2. known \in Looks
    BY DEF Targets
  <2>3. /\ child \in [hints : BOOLEAN, dialog : Nat] /\ focus \in Frames /\ held \subseteq Answers
        /\ events \in 0..MaxEvents /\ doc \in 0..events
        /\ tally \in [chosen : Nat, pressed : Nat, confirmed : Nat, spent : Nat]
    BY <2>1 DEF Frames
  <2> QED BY <1>2, <1>3, <2>2, <2>3 DEF Typed
<1>5. Accounts
  <2>1. Asking(top) = 0
    BY <1>1, <1>2 DEF Asking
  <2> QED BY <1>3, <2>1, NothingSent DEF Accounts
<1>6. DialogForm(top, doc)
  BY <1>1, <1>2 DEF DialogForm
<1>7. DownInv(top, toChild, child, doc)
  <2>1. /\ \A ty : NoWord(toChild, ty)
        /\ NumberedTo(toChild, top.shown) /\ FinalWord(toChild, top.shown)
    BY <1>3 DEF NoWord, NumberedTo, FinalWord
  <2>2. child.dialog = 0 /\ ~top.dialog.open /\ ~top.dialog.armed
    BY <1>1, <1>2
  <2>3. child.hints = (top.hints # {})
    BY <1>2
  <2>4. DialogTold(top, toChild, child, doc)
    BY <2>1, <2>2 DEF DialogTold
  <2>5. HeardOnce(top, toChild, child)
    BY <2>2 DEF HeardOnce
  <2>6. HintsTold(top, toChild, child, doc)
    BY <2>1, <2>3 DEF HintsTold
  <2>7. child.dialog <= top.shown
    BY <1>2, <2>2
  <2> QED BY <2>1, <2>2, <2>4, <2>5, <2>6, <2>7 DEF DownInv
<1>8. /\ UpInv(top, toTop, child, focus, held, enabled, doc)
      /\ Holding(top, toTop, held, enabled, doc)
  BY <1>1, <1>2, <1>3 DEF UpInv, KeysNumbered, KeysArmed, Holding
<1> QED BY <1>4, <1>5, <1>6, <1>7, <1>8 DEF IInv

\* A step that changes nothing.
LEMMA Stands == IInv /\ UNCHANGED vars => IInv' /\ Confirmed
<1> SUFFICES ASSUME IInv, UNCHANGED vars PROVE IInv' /\ Confirmed
  OBVIOUS
<1>1. tally.confirmed \in Nat /\ tally'.confirmed = tally.confirmed
  BY Begins DEF vars
<1>2. IInv'
  BY DEF vars, page, user, IInv, Typed, Accounts
<1> QED BY <1>1, <1>2 DEF Confirmed

\* Every step keeps the invariant, and confirms nothing but a fresh key.
LEMMA Keeping == IInv /\ [Next]_vars => IInv' /\ Confirmed
<1> SUFFICES ASSUME IInv, [Next]_vars PROVE IInv' /\ Confirmed
  OBVIOUS
<1>1. CASE \E k \in Keys : KeyDown(k)
  BY <1>1, KeysKeep
<1>2. CASE \E k \in Answers : Repeat(k) \/ KeyUp(k)
  BY <1>2, KeysKeep
<1>3. CASE WindowBlurs \/ FocusMoves
  BY <1>3, FocusKeeps
<1>4. CASE GuardEnds
  BY <1>4, GuardEndsKeeps
<1>5. CASE HoldEnds
  BY <1>5, HoldEndsKeeps
<1>6. CASE ClickCancel
  BY <1>6, ClickCancelKeeps
<1>7. CASE HintsOpen
  BY <1>7, HintsOpenKeeps
<1>8. CASE SwitchOff
  BY <1>8, SwitchOffKeeps
<1>9. CASE SwitchOn
  BY <1>9, SwitchOnKeeps
<1>10. CASE TopReceives
  BY <1>10, TopReceivesKeeps
<1>11. CASE ChildReceives
  BY <1>11, ChildReceivesKeeps
<1>12. CASE \E look \in Looks : TopChanges(look) \/ ChildChanges(look) \/ ChildLoads(look)
  BY <1>12, TopChangesKeeps, ChildChangesKeeps, ChildLoadsKeeps
<1>13. CASE UNCHANGED vars
  BY <1>13, Stands
<1> QED
  BY <1>1, <1>2, <1>3, <1>4, <1>5, <1>6, <1>7, <1>8, <1>9, <1>10, <1>11, <1>12, <1>13 DEF Next

\* So it holds of every reachable state.
LEMMA Invariance == Spec => []IInv
<1>1. Init => IInv
  BY Starting
<1>2. IInv /\ [Next]_vars => IInv'
  BY Keeping
<1> QED BY <1>1, <1>2, PTL DEF Spec

\* Each press of a dangerous element by number, and each press after the
\* question, uses up a confirmation of its own, and each press a choice: the
\* requests under way, the refusals under way and the open question hold the
\* rest.  (content.ts:398-424, 898-924, 944-979, 1041-1058)
THEOREM Consented == Spec => []ConsentPerPress
<1>1. IInv => ConsentPerPress
  <2> SUFFICES ASSUME IInv PROVE ConsentPerPress
    OBVIOUS
  <2>1. /\ toChild \in Seq(Down) /\ Refusals(toTop) \in Nat /\ Asking(top) \in Nat
        /\ tally.pressed \in Nat /\ tally.chosen \in Nat /\ tally.spent \in Nat /\ tally.confirmed \in Nat
    BY Begins DEF IInv, Typed, Asking
  <2>2. Requests(toChild) \in Nat /\ Consents(toChild) \in Nat
    BY <2>1, CountSaid, DownMessages
  <2>3. /\ tally.pressed + Requests(toChild) + Refusals(toTop) + Asking(top) <= tally.chosen
        /\ tally.spent + Consents(toChild) <= tally.confirmed
    BY DEF IInv, Accounts
  <2>4. \A p, r, n, a, x \in Nat : p + r + n + a <= x => p <= x
    OBVIOUS
  <2>5. tally.pressed <= tally.chosen
    BY <2>1, <2>2, <2>3, <2>4
  <2>6. tally.spent <= tally.confirmed
    BY <2>1, <2>2, <2>3
  <2> QED BY <2>5, <2>6 DEF ConsentPerPress
<1> QED BY <1>1, Invariance, PTL

\* The state of the document, the frame and the dialog is of its kinds, and a
\* closed dialog keeps nothing of the last one.
\* (content.ts:243-251, 785-797, 944-1009)
THEOREM Kinds == Spec => []TypeOK
<1>1. IInv => TypeOK
  <2> SUFFICES ASSUME IInv PROVE TypeOK
    OBVIOUS
  <2>1. Typed /\ DialogForm(top, doc) /\ child.dialog <= top.shown
    BY DEF IInv, DownInv
  <2>2. doc \in 0..MaxEvents
    BY <2>1, BoundsAssumption DEF Typed
  <2>3. /\ top.hints \subseteq Targets /\ top.cache \in [own : Looks, framed : Looks]
        /\ top.dialog \in Dialogs /\ top.shown \in Nat
    BY <2>1 DEF Typed, Tops
  <2>4. top.dialog.born \in 0..MaxEvents
    <3>1. CASE top.dialog.open
      BY <2>1, <2>2, <2>3, <3>1, BoundsAssumption DEF DialogForm, Dialogs
    <3>2. CASE ~top.dialog.open
      BY <2>1, <3>2, BoundsAssumption DEF DialogForm, NoDialog
    <3> QED BY <3>1, <3>2
  <2>5. top.dialog \in [open : BOOLEAN, target : Targets, born : 0..MaxEvents,
                        armed : BOOLEAN, hold : BOOLEAN, fresh : SUBSET Answers]
    BY <2>3, <2>4 DEF Dialogs
  <2>6. child \in [hints : BOOLEAN, dialog : 0..top.shown]
    BY <2>1, <2>3 DEF Typed
  <2> QED BY <2>1, <2>2, <2>3, <2>5, <2>6 DEF TypeOK, Typed, DialogForm
<1> QED BY <1>1, Invariance, PTL

\* The dialog counts the seconds of Space only while the key is down or word of
\* its release is on the way, wherever the focus has gone.
\* (confirm-guard.ts:47-52, pipeline.ts:239-254)
THEOREM HeldForReal == Spec => []HoldIsReal
<1>1. IInv /\ TypeOK => HoldIsReal
  <2> SUFFICES ASSUME IInv, TypeOK, top.dialog.hold, top.dialog.born = doc, "press" \notin held
               PROVE  \E i \in 1..Len(toTop) : toTop[i].type = "confirm/key" /\ toTop[i].kind = "keyup"
                                               /\ toTop[i].key = "press"
    BY DEF HoldIsReal
  <2>1. Going(toTop, 0)
    BY DEF IInv, Holding
  <2> QED BY <2>1 DEF Going, LetGo
<1> QED BY <1>1, Invariance, Kinds, PTL

\* A child that has heard everything gives its keys to the dialog exactly while
\* it is open, and to the numbers exactly while they are shown.
\* (content.ts:435-480, 652-662, 789-797, 953-970)
THEOREM ChildIsTold == Spec => []ChildFollowsTop
<1>1. IInv => ChildFollowsTop
  <2> SUFFICES ASSUME IInv, doc = 0
               PROVE  /\ ~Among(toChild, "confirm/state") =>
                            child.dialog = IF top.dialog.open THEN top.shown ELSE 0
                      /\ ~Among(toChild, "hints/state") => child.hints = (top.hints # {})
    BY DEF ChildFollowsTop
  <2>1. DialogTold(top, toChild, child, doc) /\ HintsTold(top, toChild, child, doc)
    BY DEF IInv, DownInv
  <2>2. top.dialog.open => top.dialog.born = doc
    BY DEF IInv, DialogForm, Typed, Tops, Dialogs
  <2>3. /\ \A n : LastDialog(toChild, n) => Among(toChild, "confirm/state")
        /\ \A b : LastHints(toChild, b) => Among(toChild, "hints/state")
    BY DEF LastDialog, LastHints, Among
  <2> QED BY <2>1, <2>2, <2>3 DEF DialogTold, HintsTold
<1> QED BY <1>1, Invariance, PTL

\* No question is confirmed before one of the keys that answer it has been pressed
\* since it appeared, in whichever frame.
\* (confirm-guard.ts:39-67, content.ts:462-480)
THEOREM Fresh == Spec => FreshConfirmation
<1>1. IInv /\ [Next]_vars =>
         [tally'.confirmed > tally.confirmed =>
             top.dialog.fresh \cup (IF focus = "top" THEN held' \ held ELSE {}) # {}]_vars
  BY Keeping DEF Confirmed
<1> QED BY <1>1, Invariance, PTL DEF Spec, FreshConfirmation

-----------------------------------------------------------------------------
(* FrameRelay: sequences *)

\* InsertAt puts e at place i and moves what was there on by one.
LEMMA Inserted ==
    ASSUME NEW S, NEW s \in Seq(S), NEW i \in 1..(Len(s) + 1), NEW e \in S
    PROVE  /\ InsertAt(s, i, e) \in Seq(S) /\ Len(InsertAt(s, i, e)) = Len(s) + 1
           /\ \A j \in 1..(Len(s) + 1) :
                 InsertAt(s, i, e)[j] = IF j < i THEN s[j] ELSE IF j = i THEN e ELSE s[j - 1]
<1> DEFINE l == SubSeq(s, 1, i - 1)
           r == SubSeq(s, i, Len(s))
<1>1. l \in Seq(S) /\ Len(l) = i - 1 /\ \A j \in 1..(i - 1) : l[j] = s[j]
  BY SubSeqProperties
<1>2. r \in Seq(S) /\ Len(r) = Len(s) - i + 1 /\ \A j \in 1..(Len(s) - i + 1) : r[j] = s[i + j - 1]
  BY SubSeqProperties
<1>3. <<e>> \in Seq(S) /\ Len(<<e>>) = 1 /\ <<e>>[1] = e
  OBVIOUS
<1> DEFINE le == l \o <<e>>
<1>4. /\ le \in Seq(S) /\ Len(le) = i
      /\ \A j \in 1..i : le[j] = IF j < i THEN s[j] ELSE e
  <2>1. /\ le \in Seq(S) /\ Len(le) = Len(l) + 1
        /\ \A j \in 1..(Len(l) + 1) : le[j] = IF j <= Len(l) THEN l[j] ELSE <<e>>[j - Len(l)]
    BY <1>1, <1>3, ConcatProperties
  <2> QED BY <2>1, <1>1, <1>3
<1>5. /\ le \o r \in Seq(S) /\ Len(le \o r) = Len(le) + Len(r)
      /\ \A j \in 1..(Len(le) + Len(r)) : (le \o r)[j] = IF j <= Len(le) THEN le[j] ELSE r[j - Len(le)]
  BY <1>2, <1>4, ConcatProperties
<1>6. InsertAt(s, i, e) = le \o r
  BY DEF InsertAt
<1> HIDE DEF l, r, le
<1> QED BY <1>2, <1>4, <1>5, <1>6

\* RemoveAt takes what is at place i away and moves what was behind it up.
LEMMA Removed ==
    ASSUME NEW S, NEW s \in Seq(S), NEW i \in 1..Len(s)
    PROVE  /\ RemoveAt(s, i) \in Seq(S) /\ Len(RemoveAt(s, i)) = Len(s) - 1
           /\ \A j \in 1..(Len(s) - 1) : RemoveAt(s, i)[j] = IF j < i THEN s[j] ELSE s[j + 1]
<1> DEFINE l == SubSeq(s, 1, i - 1)
           r == SubSeq(s, i + 1, Len(s))
<1>1. l \in Seq(S) /\ Len(l) = i - 1 /\ \A j \in 1..(i - 1) : l[j] = s[j]
  BY SubSeqProperties
<1>2. r \in Seq(S) /\ Len(r) = Len(s) - i /\ \A j \in 1..(Len(s) - i) : r[j] = s[i + j]
  BY SubSeqProperties
<1>3. /\ l \o r \in Seq(S) /\ Len(l \o r) = Len(l) + Len(r)
      /\ \A j \in 1..(Len(l) + Len(r)) : (l \o r)[j] = IF j <= Len(l) THEN l[j] ELSE r[j - Len(l)]
  BY <1>1, <1>2, ConcatProperties
<1>4. RemoveAt(s, i) = l \o r
  BY DEF RemoveAt
<1> HIDE DEF l, r
<1>5. Len(l \o r) = Len(s) - 1
  BY <1>1, <1>2, <1>3
<1>6. ASSUME NEW j \in 1..(Len(s) - 1)
      PROVE  (l \o r)[j] = IF j < i THEN s[j] ELSE s[j + 1]
  <2>1. CASE j < i
    BY <1>1, <1>2, <1>3, <2>1
  <2>2. CASE ~(j < i)
    <3>1. j - (i - 1) \in 1..(Len(s) - i)
      BY <2>2
    <3>2. r[j - (i - 1)] = s[j + 1]
      <4>1. r[j - (i - 1)] = s[i + (j - (i - 1))]
        BY <3>1, <1>2
      <4> QED BY <4>1
    <3> QED BY <1>1, <1>2, <1>3, <2>2, <3>2
  <2> QED BY <2>1, <2>2
<1> QED BY <1>3, <1>4, <1>5, <1>6

\* One sequence begins another when it is no longer and agrees with it.
LEMMA Prefix ==
    ASSUME NEW S, NEW s \in Seq(S), NEW t \in Seq(S)
    PROVE  IsPrefix(s, t) <=> Len(s) <= Len(t) /\ \A j \in 1..Len(s) : s[j] = t[j]
<1>1. SubSeq(s, 1, Len(s)) = s
  BY SubSeqFull
<1>2. ASSUME Len(s) <= Len(t)
      PROVE  SubSeq(t, 1, Len(s)) = s <=> \A j \in 1..Len(s) : s[j] = t[j]
  <2>1. /\ SubSeq(t, 1, Len(s)) \in Seq(S) /\ Len(SubSeq(t, 1, Len(s))) = Len(s)
        /\ \A j \in 1..Len(s) : SubSeq(t, 1, Len(s))[j] = t[j]
    BY <1>2, SubSeqProperties
  <2> QED BY <2>1, SeqEqual
<1> QED BY <1>1, <1>2 DEF IsPrefix

\* What begins a beginning begins the whole.
LEMMA PrefixOfPrefix ==
    ASSUME NEW S, NEW s \in Seq(S), NEW t \in Seq(S), NEW u \in Seq(S), IsPrefix(s, t), IsPrefix(t, u)
    PROVE  IsPrefix(s, u)
BY Prefix

\* What begins a sequence begins a longer one.
LEMMA PrefixOfLonger ==
    ASSUME NEW S, NEW s \in Seq(S), NEW t \in Seq(S), NEW x \in S, IsPrefix(s, t)
    PROVE  IsPrefix(s, Append(t, x))
<1>1. /\ Append(t, x) \in Seq(S) /\ Len(Append(t, x)) = Len(t) + 1
      /\ \A j \in 1..Len(t) : Append(t, x)[j] = t[j]
  BY AppendProperties
<1>2. Len(s) <= Len(t) /\ \A j \in 1..Len(s) : s[j] = t[j]
  BY Prefix
<1>3. Len(s) <= Len(Append(t, x)) /\ \A j \in 1..Len(s) : s[j] = Append(t, x)[j]
  BY <1>1, <1>2
<1> QED BY <1>1, <1>3, Prefix

-----------------------------------------------------------------------------
(* FrameRelay: the inductive invariant *)

Children(f) == BuildFrameReport(f).children
WireReports == [path : Seq(Nat), children : SUBSET [index : Nat, pathKey : Iframes]]

RelayTypeOK ==
    /\ windows \in [All -> Seq(Iframes)] /\ line \in [All -> Seq(Iframes)]
    /\ hidden \subseteq Iframes /\ unused \subseteq Iframes /\ gone \subseteq Iframes
    /\ strays \subseteq gone /\ unseen \subseteq All
    /\ due \in [All -> {"no", "plain", "forced"}]
    /\ lastReported \in [All -> WireReports] /\ queue \in [All -> Seq(WireReports)]
    /\ Known \subseteq All /\ \A f \in Known : reports[f] \in WireReports

\* The page is in order; a line is the lines of the frames on it; a frame yet to
\* come is told of nowhere; one that is not there says nothing.
Page == /\ windows \in [All -> Seq(Iframes)] /\ line \in [All -> Seq(Iframes)]
        /\ hidden \subseteq Iframes /\ unused \subseteq Iframes /\ gone \subseteq Iframes
        /\ IsPage(windows, line, Live)
Lines == \A f \in All : /\ Len(line[f]) <= MaxDepth
                        /\ \A n \in DOMAIN line[f] : /\ line[f][n] \notin unused
                                    /\ line[line[f][n]] = SubSeq(line[f], 1, n)
New == \A f \in unused : f \notin gone \cup Known /\ windows[f] = <<>> /\ line[f] = <<>>
Old == \A p \in All : \A d \in lastReported[p].children : d.pathKey \notin unused
Away == \A f \in All \ Live : due[f] = "no" /\ queue[f] = <<>>
PageInv == IsPage(windows, line, Live) /\ Lines /\ New /\ Old /\ Away

\* What a frame said last is what the worker hears last of it; it hears of every
\* frame, unless that one has yet to collect for it.
Sent == \A f \in Live :
           /\ queue[f] # <<>> => queue[f][Len(queue[f])] = lastReported[f]
           /\ queue[f] = <<>> /\ f \in Known => reports[f] = lastReported[f]
           /\ queue[f] = <<>> /\ due[f] # "forced" => f \in Known
\* A frame that is not due has said what it shows, and how deep it is.
Told == \A f \in Live : due[f] = "no" => /\ lastReported[f].children = Children(f)
                                         /\ Len(lastReported[f].path) = Len(line[f])

\* The document q has nothing new under way: the worker will ask nobody anew.
\* What is left to upset it is an iframe before a that the worker does not know,
\* one it told of that is no longer in it, or one that is not where it told.
Quiet(q) == /\ q \in Known /\ reports[q].children = lastReported[q].children
            /\ \A i \in DOMAIN queue[q] : queue[q][i].children = lastReported[q].children
Newcomer(q, a) == \E i, j \in DOMAIN windows[q] : i < j /\ windows[q][j] = a /\ windows[q][i] \notin Known
Lost(q) == \E d \in lastReported[q].children : d.pathKey \notin ToSet(windows[q])
Moved(q, d) == ~(d.index \in DOMAIN windows[q] /\ windows[q][d.index] = d.pathKey)
Upset(q, d) == Newcomer(q, d.pathKey) \/ (due[q] # "no" /\ (Lost(q) \/ Moved(q, d)))
\* Else the n-th place of f is that of the iframe d if and only if f is below it.
Follows(f, n, q, d) ==
   Upset(q, d) \/ \A i \in DOMAIN windows[q] :
                     windows[q][i] = d.pathKey => (lastReported[f].path[n] = i <=> d.pathKey = line[f][n])
Following == \A f \in Live : due[f] = "no" => \A n \in DOMAIN line[f] :
               LET q == Above(line[f], n) IN
                q \notin unseen /\ Quiet(q) => \A d \in lastReported[q].children : Follows(f, n, q, d)

\* The path is below where r shows y.  A report that shows y no more follows the
\* one that does, or will be made.
Covers(r, y, path) == \E d \in r.children : d.pathKey = y /\ IsPrefix(Append(r.path, d.index), path)
Lacks(r, y) == \A d \in r.children : d.pathKey # y
Pending(p, y, path) ==
   \/ /\ p \in Known /\ Covers(reports[p], y, path)
      /\ IF queue[p] = <<>> THEN due[p] # "no" ELSE Lacks(queue[p][1], y)
   \/ \E i \in DOMAIN queue[p] :
        /\ Covers(queue[p][i], y, path)
        /\ IF i = Len(queue[p]) THEN due[p] # "no" ELSE Lacks(queue[p][i + 1], y)
DeadInv == \A g \in (gone \cap Known) \ strays :
             \E n \in DOMAIN line[g] : /\ line[g][n] \in gone /\ Above(line[g], n) \in Live
                                       /\ Pending(Above(line[g], n), line[g][n], reports[g].path)
RelayInv == PageInv /\ Sent /\ Told /\ Following /\ DeadInv

-----------------------------------------------------------------------------
(* What the page and a report of it look like *)

\* The invariant has the page in order.
LEMMA HasPage ==
    ASSUME RelayTypeOK, PageInv
    PROVE  Page
BY DEF RelayTypeOK, PageInv, Page

\* The frame that holds a frame of a line is in the page, and holds it there.
LEMMA OnLine ==
    ASSUME Page, NEW f \in Live, NEW n \in DOMAIN line[f]
    PROVE  /\ line[f][n] \in Live \ {Top} /\ Above(line[f], n) \in Live
           /\ line[f][n] \in ToSet(windows[Above(line[f], n)])
           /\ Up(line[f][n]) = Above(line[f], n) /\ f # Top
           /\ line[line[f][n]] = SubSeq(line[f], 1, n) /\ n \in 1..Len(line[f])
<1>1. line[f] \in Seq(Iframes) /\ n \in 1..Len(line[f]) /\ f \in All
  BY DEF Page, Live
<1>2. f # Top
  BY <1>1 DEF Page, IsPage
<1>3. /\ line[f][n] \in Live \cap ToSet(windows[Above(line[f], n)])
      /\ line[line[f][n]] = SubSeq(line[f], 1, n)
  BY <1>2 DEF Page, IsPage
<1>4. line[f][n] # Top
  BY <1>1, FrameAssumption DEF All
<1>5. Above(line[f], n) \in Live
  <2>1. CASE n = 1
    <3>1. Top \in Live
      BY FrameAssumption DEF Page, Live, All
    <3> QED BY <2>1, <3>1 DEF Above
  <2>2. CASE n # 1
    <3>1. n - 1 \in DOMAIN line[f]
      BY <1>1, <2>2
    <3>2. line[f][n - 1] \in Live
      BY <1>2, <3>1 DEF Page, IsPage
    <3> QED BY <2>2, <3>2 DEF Above
  <2> QED BY <2>1, <2>2
<1>6. Up(line[f][n]) = Above(line[f], n)
  <2> DEFINE s == SubSeq(line[f], 1, n)
  <2>1. Len(s) = n /\ \A j \in 1..n : s[j] = line[f][j]
    BY <1>1, SubSeqProperties
  <2>2. Above(s, n) = Above(line[f], n)
    <3>1. CASE n = 1
      BY <3>1 DEF Above
    <3>2. CASE n # 1
      <4>1. n - 1 \in 1..n
        BY <1>1, <3>2
      <4> HIDE DEF s
      <4> QED BY <2>1, <3>2, <4>1 DEF Above
    <3> QED BY <3>1, <3>2
  <2> HIDE DEF s
  <2>3. line[line[f][n]] = s
    BY <1>3 DEF s
  <2> QED BY <2>1, <2>2, <2>3 DEF Up
<1> QED BY <1>1, <1>2, <1>3, <1>4, <1>5, <1>6

\* A frame of the page hangs under the frame above it, once.
LEMMA Hangs ==
    ASSUME Page, NEW f \in Live \ {Top}
    PROVE  /\ f \in Iframes /\ Up(f) \in Live /\ Len(line[f]) \in DOMAIN line[f]
           /\ line[f][Len(line[f])] = f
           /\ IndexOf(f) \in 1..Len(windows[Up(f)]) /\ windows[Up(f)][IndexOf(f)] = f
           /\ \A i \in 1..Len(windows[Up(f)]) : windows[Up(f)][i] = f => i = IndexOf(f)
<1>1. f \in Iframes /\ line[f] \in Seq(Iframes) /\ line[f] # <<>> /\ line[f][Len(line[f])] = f
  BY DEF Page, IsPage, Live, All
<1>2. Len(line[f]) \in 1..Len(line[f]) /\ DOMAIN line[f] = 1..Len(line[f])
  BY <1>1
<1>3. Up(f) \in Live /\ f \in ToSet(windows[Up(f)])
  <2>1. Above(line[f], Len(line[f])) = Up(f)
    BY DEF Up
  <2> QED BY <1>1, <1>2, <2>1, OnLine
<1>4. windows[Up(f)] \in Seq(Iframes)
  BY <1>3 DEF Page, Live
<1>5. \E i \in DOMAIN windows[Up(f)] : windows[Up(f)][i] = f
  BY <1>3 DEF ToSet
<1>6. IndexOf(f) \in DOMAIN windows[Up(f)] /\ windows[Up(f)][IndexOf(f)] = f
  BY <1>5 DEF IndexOf
<1>7. \A i, j \in DOMAIN windows[Up(f)] : windows[Up(f)][i] = windows[Up(f)][j] => i = j
  BY <1>3 DEF Page, IsPage
<1> QED BY <1>1, <1>2, <1>3, <1>4, <1>6, <1>7

\* What a frame reports: the places of the frames on its line, and its iframes in sight.
LEMMA ReportFacts ==
    ASSUME Page, NEW f \in Live
    PROVE  /\ BuildFrameReport(f) \in WireReports
           /\ BuildFrameReport(f).path = FramePathOf(f)
           /\ Len(FramePathOf(f)) = Len(line[f])
           /\ \A n \in DOMAIN line[f] :
                 /\ FramePathOf(f)[n] \in 1..Len(windows[Above(line[f], n)])
                 /\ windows[Above(line[f], n)][FramePathOf(f)[n]] = line[f][n]
           /\ \A d \in Children(f) : /\ d.index \in 1..Len(windows[f])
                                     /\ windows[f][d.index] = d.pathKey /\ d.pathKey \notin hidden
           /\ \A i \in 1..Len(windows[f]) : windows[f][i] \notin hidden =>
                    [index |-> i, pathKey |-> windows[f][i]] \in Children(f)
<1>1. f \in All /\ windows[f] \in Seq(Iframes) /\ line[f] \in Seq(Iframes)
  BY DEF Page, Live
<1>2. \A n \in DOMAIN line[f] :
         /\ IndexOf(line[f][n]) \in 1..Len(windows[Above(line[f], n)])
         /\ windows[Above(line[f], n)][IndexOf(line[f][n])] = line[f][n]
  <2>1. TAKE n \in DOMAIN line[f]
  <2>2. line[f][n] \in Live \ {Top} /\ Up(line[f][n]) = Above(line[f], n)
    BY <2>1, OnLine
  <2> QED BY <2>2, Hangs
<1>3. /\ FramePathOf(f) \in [1..Len(line[f]) -> Nat]
      /\ \A n \in 1..Len(line[f]) : FramePathOf(f)[n] = IndexOf(line[f][n])
  <2>1. \A n \in 1..Len(line[f]) : IndexOf(line[f][n]) \in Nat
    BY <1>1, <1>2
  <2> QED BY <2>1 DEF FramePathOf
<1>4. FramePathOf(f) \in Seq(Nat) /\ Len(FramePathOf(f)) = Len(line[f])
  <2>1. Len(line[f]) \in Nat
    BY <1>1
  <2> QED BY <2>1, <1>3
<1>5. /\ BuildFrameReport(f).path = FramePathOf(f)
      /\ BuildFrameReport(f) = [path |-> FramePathOf(f), children |-> Children(f)]
  BY DEF BuildFrameReport, Children
<1>6. Children(f) = {[index |-> i, pathKey |-> windows[f][i]] :
                      i \in {j \in 1..Len(windows[f]) : windows[f][j] \notin hidden}}
  BY <1>1 DEF BuildFrameReport, Children
<1>7. Children(f) \subseteq [index : Nat, pathKey : Iframes]
  BY <1>1, <1>6
<1>8. BuildFrameReport(f) \in WireReports
  BY <1>4, <1>5, <1>7 DEF WireReports
<1>9. DOMAIN line[f] = 1..Len(line[f])
  BY <1>1
<1>10. \A d \in Children(f) : /\ d.index \in 1..Len(windows[f])
                             /\ windows[f][d.index] = d.pathKey /\ d.pathKey \notin hidden
  BY <1>6
<1>11. \A i \in 1..Len(windows[f]) : windows[f][i] \notin hidden =>
            [index |-> i, pathKey |-> windows[f][i]] \in Children(f)
  BY <1>6
<1> QED BY <1>2, <1>3, <1>4, <1>5, <1>8, <1>9, <1>10, <1>11

-----------------------------------------------------------------------------
(* The page: putting a frame in *)

\* The beginnings of a sequence with one more element.
LEMMA SubSeqOfAppend ==
    ASSUME NEW S, NEW s \in Seq(S), NEW x \in S, NEW n \in 1..(Len(s) + 1)
    PROVE  SubSeq(Append(s, x), 1, n) = IF n <= Len(s) THEN SubSeq(s, 1, n) ELSE Append(s, x)
<1> DEFINE t == Append(s, x)
<1>1. t \in Seq(S) /\ Len(t) = Len(s) + 1 /\ \A j \in 1..Len(s) : t[j] = s[j]
  BY AppendProperties
<1> HIDE DEF t
<1>2. CASE n = Len(s) + 1
  BY <1>1, <1>2, SubSeqFull DEF t
<1>3. CASE n <= Len(s)
  <2>1. /\ SubSeq(t, 1, n) \in Seq(S) /\ Len(SubSeq(t, 1, n)) = n
        /\ \A j \in 1..n : SubSeq(t, 1, n)[j] = t[j]
    BY <1>1, <1>3, SubSeqProperties
  <2>2. /\ SubSeq(s, 1, n) \in Seq(S) /\ Len(SubSeq(s, 1, n)) = n
        /\ \A j \in 1..n : SubSeq(s, 1, n)[j] = s[j]
    BY <1>3, SubSeqProperties
  <2>3. \A j \in 1..n : t[j] = s[j]
    BY <1>1, <1>3
  <2>4. SubSeq(t, 1, n) = SubSeq(s, 1, n)
    BY <2>1, <2>2, <2>3, SeqEqual
  <2> QED BY <1>3, <2>4 DEF t
<1> QED BY <1>1, <1>2, <1>3 DEF t

\* What putting the frame x into the document p does to the page.
LEMMA InsertsPage ==
    ASSUME RelayTypeOK, PageInv, NEW p \in All, NEW x \in Iframes, Inserts(p, x)
    PROVE  /\ p \in Live /\ x \in unused /\ x \notin Live \cup gone \cup Known /\ x # Top
           /\ Live' = Live \cup {x} /\ windows[x] = <<>> /\ Len(line[p]) < MaxDepth
           /\ windows' \in [All -> Seq(Iframes)] /\ line' \in [All -> Seq(Iframes)]
           /\ \A g \in All \ {p} : windows'[g] = windows[g]
           /\ line'[x] = Append(line[p], x) /\ \A g \in All \ {x} : line'[g] = line[g]
           /\ \E i \in 1..(Len(windows[p]) + 1) :
                 /\ Len(windows'[p]) = Len(windows[p]) + 1
                 /\ \A j \in 1..(Len(windows[p]) + 1) :
                       windows'[p][j] = IF j < i THEN windows[p][j] ELSE IF j = i THEN x ELSE windows[p][j - 1]
<1>1. /\ p \in Live /\ x \in unused /\ Len(line[p]) < MaxDepth /\ unused' = unused \ {x} /\ gone' = gone
      /\ line' = [line EXCEPT ![x] = Append(line[p], x)]
      /\ \E i \in 1..(Len(windows[p]) + 1) : windows' = [windows EXCEPT ![p] = InsertAt(windows[p], i, x)]
  BY DEF Inserts
<1>2. /\ windows \in [All -> Seq(Iframes)] /\ line \in [All -> Seq(Iframes)] /\ x \in All
      /\ windows[p] \in Seq(Iframes) /\ line[p] \in Seq(Iframes)
  BY DEF RelayTypeOK, All
<1>3. x \notin gone \cup Known /\ windows[x] = <<>>
  BY <1>1 DEF PageInv, New
<1>4. x \notin Live /\ x # Top /\ Live' = Live \cup {x}
  BY <1>1, <1>2, <1>3, FrameAssumption DEF Live
<1>5. Append(line[p], x) \in Seq(Iframes)
  BY <1>2
<1>6. line' \in [All -> Seq(Iframes)] /\ line'[x] = Append(line[p], x) /\ \A g \in All \ {x} : line'[g] = line[g]
  BY <1>1, <1>2, <1>5
<1>7. PICK i \in 1..(Len(windows[p]) + 1) : windows' = [windows EXCEPT ![p] = InsertAt(windows[p], i, x)]
  BY <1>1
<1>8. InsertAt(windows[p], i, x) \in Seq(Iframes)
  BY <1>2, <1>7, Inserted
<1>9. windows' \in [All -> Seq(Iframes)] /\ windows'[p] = InsertAt(windows[p], i, x)
      /\ \A g \in All \ {p} : windows'[g] = windows[g]
  BY <1>2, <1>7, <1>8
<1>10. /\ Len(windows'[p]) = Len(windows[p]) + 1
       /\ \A j \in 1..(Len(windows[p]) + 1) :
             windows'[p][j] = IF j < i THEN windows[p][j] ELSE IF j = i THEN x ELSE windows[p][j - 1]
  BY <1>2, <1>9, Inserted
<1> QED BY <1>1, <1>3, <1>4, <1>6, <1>7, <1>9, <1>10

\* Every frame that was in the page is where it was, or one further on.
LEMMA InsertsShift ==
    ASSUME RelayTypeOK, PageInv, NEW p \in All, NEW x \in Iframes, Inserts(p, x), NEW q \in Live
    PROVE  /\ windows[q] \in Seq(Iframes) /\ windows'[q] \in Seq(Iframes)
           /\ \A i \in 1..Len(windows[q]) : \E j \in 1..Len(windows'[q]) :
                 windows'[q][j] = windows[q][i] /\ j \in {i, i + 1}
           /\ \A j \in 1..Len(windows'[q]) : windows'[q][j] # x =>
                 \E i \in 1..Len(windows[q]) : windows'[q][j] = windows[q][i] /\ j \in {i, i + 1}
<1>0. windows[q] \in Seq(Iframes) /\ windows'[q] \in Seq(Iframes)
  BY InsertsPage DEF RelayTypeOK, Live
<1>1. CASE q # p
  <2>1. windows'[q] = windows[q]
    BY <1>1, InsertsPage DEF Live
  <2> QED BY <1>0, <2>1
<1>2. CASE q = p
  <2>1. PICK i0 \in 1..(Len(windows[p]) + 1) :
                 /\ Len(windows'[p]) = Len(windows[p]) + 1
                 /\ \A j \in 1..(Len(windows[p]) + 1) :
                       windows'[p][j] = IF j < i0 THEN windows[p][j] ELSE IF j = i0 THEN x ELSE windows[p][j - 1]
    BY InsertsPage
  <2>2. Len(windows[p]) \in Nat
    BY <1>0, <1>2
  <2>3. ASSUME NEW i \in 1..Len(windows[p])
        PROVE  \E j \in 1..Len(windows'[p]) : windows'[p][j] = windows[p][i] /\ j \in {i, i + 1}
    <3>1. CASE i < i0
      BY <2>1, <2>2, <3>1
    <3>2. CASE ~(i < i0)
      <4>1. i + 1 \in 1..(Len(windows[p]) + 1) /\ ~(i + 1 < i0) /\ i + 1 # i0 /\ (i + 1) - 1 = i
        BY <2>2, <3>2
      <4>2. windows'[p][i + 1] = windows[p][i]
        BY <2>1, <4>1
      <4> QED BY <2>1, <4>1, <4>2
    <3> QED BY <3>1, <3>2
  <2>4. ASSUME NEW j \in 1..Len(windows'[p]), windows'[p][j] # x
        PROVE  \E i \in 1..Len(windows[p]) : windows'[p][j] = windows[p][i] /\ j \in {i, i + 1}
    <3>1. j \in 1..(Len(windows[p]) + 1) /\ j # i0
      BY <2>1, <2>4
    <3>2. CASE j < i0
      BY <2>1, <2>2, <3>1, <3>2
    <3>3. CASE ~(j < i0)
      <4>1. j - 1 \in 1..Len(windows[p]) /\ (j - 1) + 1 = j
        BY <2>2, <3>1, <3>3
      <4>2. windows'[p][j] = windows[p][j - 1]
        BY <2>1, <3>1, <3>3
      <4> QED BY <4>1, <4>2
    <3> QED BY <3>2, <3>3
  <2> QED BY <1>0, <1>2, <2>3, <2>4
<1> QED BY <1>1, <1>2

\* With an iframe more the page is still one.
LEMMA InsertsIsPage ==
    ASSUME RelayTypeOK, PageInv, NEW p \in All, NEW x \in Iframes, Inserts(p, x)
    PROVE  IsPage(windows, line, Live)'
<1>1. /\ p \in Live /\ x \notin Live /\ x # Top /\ x \in All /\ Live' = Live \cup {x} /\ windows[x] = <<>>
      /\ windows' \in [All -> Seq(Iframes)] /\ line' \in [All -> Seq(Iframes)]
      /\ \A g \in All \ {p} : windows'[g] = windows[g]
      /\ line'[x] = Append(line[p], x) /\ \A g \in All \ {x} : line'[g] = line[g]
      /\ p # x
  BY InsertsPage DEF All
<1>0. Live \subseteq All /\ Top \in All
  BY DEF Live, All
<1>2. PICK i0 \in 1..(Len(windows[p]) + 1) :
                 /\ Len(windows'[p]) = Len(windows[p]) + 1
                 /\ \A j \in 1..(Len(windows[p]) + 1) :
                       windows'[p][j] = IF j < i0 THEN windows[p][j] ELSE IF j = i0 THEN x ELSE windows[p][j - 1]
  BY InsertsPage
<1>3. line[p] \in Seq(Iframes) /\ windows[p] \in Seq(Iframes) /\ Len(windows[p]) \in Nat
  BY DEF RelayTypeOK
<1>4. /\ line[Top] = <<>>
      /\ \A q \in Live : \A i \in DOMAIN windows[q] :
          /\ windows[q][i] \in Live /\ line[windows[q][i]] = Append(line[q], windows[q][i])
          /\ \A j \in DOMAIN windows[q] : windows[q][i] = windows[q][j] => i = j
      /\ \A f \in Live \ {Top} :
          /\ line[f] # <<>> /\ line[f][Len(line[f])] = f
          /\ \A n \in DOMAIN line[f] : /\ line[f][n] \in Live \cap ToSet(windows[Above(line[f], n)])
                                    /\ line[line[f][n]] = SubSeq(line[f], 1, n)
  BY DEF PageInv, IsPage
<1>5. line'[Top] = <<>>
  BY <1>0, <1>1, <1>4, FrameAssumption
<1>6. ASSUME NEW q \in Live', NEW i \in DOMAIN windows'[q]
      PROVE  /\ windows'[q][i] \in Live' /\ line'[windows'[q][i]] = Append(line'[q], windows'[q][i])
             /\ \A j \in DOMAIN windows'[q] : windows'[q][i] = windows'[q][j] => i = j
  <2>1. CASE q = p
    <3>1. /\ Len(windows'[p]) = Len(windows[p]) + 1 /\ DOMAIN windows'[p] = 1..(Len(windows[p]) + 1)
          /\ DOMAIN windows[p] = 1..Len(windows[p])
      BY <1>1, <1>2, <1>3
    <3>2. \A j \in 1..(Len(windows[p]) + 1) :
             windows'[p][j] = IF j < i0 THEN windows[p][j] ELSE IF j = i0 THEN x ELSE windows[p][j - 1]
      BY <1>2
    <3>0. \A k \in 1..Len(windows[p]) : /\ windows[p][k] \in Live
                                        /\ line[windows[p][k]] = Append(line[p], windows[p][k])
      BY <3>1, <1>1, <1>4
    <3>3. \A j \in 1..(Len(windows[p]) + 1) : j # i0 =>
            windows'[p][j] \in Live /\ line[windows'[p][j]] = Append(line[p], windows'[p][j])
      <4>1. TAKE j \in 1..(Len(windows[p]) + 1)
      <4>2. HAVE j # i0
      <4>3. CASE j < i0
        <5>1. j \in 1..Len(windows[p]) /\ windows'[p][j] = windows[p][j]
          BY <4>1, <4>3, <3>2, <1>3
        <5> QED BY <5>1, <3>0
      <4>4. CASE ~(j < i0)
        <5>1. j - 1 \in 1..Len(windows[p]) /\ windows'[p][j] = windows[p][j - 1]
          BY <4>1, <4>2, <4>4, <3>2, <1>3
        <5> QED BY <5>1, <3>0
      <4> QED BY <4>3, <4>4
    <3>4. windows'[p][i0] = x
      BY <3>2
    <3>5. \A j \in 1..(Len(windows[p]) + 1) : windows'[p][i] = windows'[p][j] => i = j
      <4>1. TAKE j \in 1..(Len(windows[p]) + 1)
      <4>2. HAVE windows'[p][i] = windows'[p][j]
      <4>3. i \in 1..(Len(windows[p]) + 1)
        BY <2>1, <3>1
      <4>4. CASE i = i0 \/ j = i0
        BY <4>2, <4>3, <4>4, <3>3, <3>4, <1>1
      <4>5. CASE i # i0 /\ j # i0
        <5> DEFINE old(k) == IF k < i0 THEN k ELSE k - 1
        <5>1. \A k \in 1..(Len(windows[p]) + 1) : k # i0 => old(k) \in 1..Len(windows[p]) /\ windows'[p][k] = windows[p][old(k)]
          BY <3>2, <1>3
        <5>2. windows[p][old(i)] = windows[p][old(j)] /\ old(i) \in 1..Len(windows[p]) /\ old(j) \in 1..Len(windows[p])
          BY <5>1, <4>2, <4>3, <4>5
        <5>3. old(i) = old(j)
          <6> HIDE DEF old
          <6> QED BY <5>2, <3>1, <1>4, <1>1
        <5> QED BY <5>3, <4>3, <4>5, <1>3
      <4> QED BY <4>4, <4>5
    <3>6. windows'[p][i] \in Live' /\ line'[windows'[p][i]] = Append(line'[p], windows'[p][i])
      <4>1. CASE i = i0
        BY <4>1, <3>4, <1>1
      <4>2. CASE i # i0
        <5>1. windows'[p][i] \in Live /\ line[windows'[p][i]] = Append(line[p], windows'[p][i])
          BY <4>2, <3>3, <3>1, <2>1
        <5> QED BY <5>1, <1>0, <1>1
      <4> QED BY <4>1, <4>2
    <3> QED BY <2>1, <3>1, <3>5, <3>6
  <2>2. CASE q # p /\ q \in Live
    <3>1. windows'[q] = windows[q] /\ line'[q] = line[q]
      BY <2>2, <1>0, <1>1
    <3>2. windows[q][i] \in Live /\ line'[windows[q][i]] = line[windows[q][i]]
      BY <2>2, <3>1, <1>4, <1>0, <1>1
    <3> QED BY <2>2, <3>1, <3>2, <1>4, <1>1
  <2>3. CASE q = x
    BY <2>3, <1>1
  <2> QED BY <2>1, <2>2, <2>3, <1>1
<1>7. \A q \in Live : ToSet(windows[q]) \subseteq ToSet(windows'[q])
  <2>1. TAKE q \in Live
  <2>2. ASSUME NEW a \in ToSet(windows[q]) PROVE a \in ToSet(windows'[q])
    <3>1. PICK i \in DOMAIN windows[q] : windows[q][i] = a
      BY <2>2 DEF ToSet
    <3>2. windows[q] \in Seq(Iframes) /\ windows'[q] \in Seq(Iframes)
      BY <2>1, InsertsShift
    <3>3. \E j \in 1..Len(windows'[q]) : windows'[q][j] = a
      <4>1. i \in 1..Len(windows[q])
        BY <3>1, <3>2
      <4>2. \E j \in 1..Len(windows'[q]) : windows'[q][j] = windows[q][i]
        BY <2>1, <4>1, InsertsShift
      <4> QED BY <3>1, <4>2
    <3> QED BY <3>2, <3>3 DEF ToSet
  <2> QED BY <2>2
<1>8. ASSUME NEW f \in Live' \ {Top}
      PROVE  /\ line'[f] # <<>> /\ line'[f][Len(line'[f])] = f
             /\ \A n \in DOMAIN line'[f] :
                  /\ line'[f][n] \in Live' \cap ToSet(windows'[Above(line'[f], n)])
                  /\ line'[line'[f][n]] = SubSeq(line'[f], 1, n)
  <2>1. CASE f # x
    <3>1. f \in Live \ {Top} /\ line'[f] = line[f]
      BY <2>1, <1>0, <1>1
    <3>2. ASSUME NEW n \in DOMAIN line[f]
          PROVE  /\ line[f][n] \in Live' \cap ToSet(windows'[Above(line[f], n)])
                 /\ line'[line[f][n]] = SubSeq(line[f], 1, n)
      <4>1. line[f][n] \in Live \cap ToSet(windows[Above(line[f], n)]) /\ line[line[f][n]] = SubSeq(line[f], 1, n)
        BY <3>1, <3>2, <1>4
      <4>2. Above(line[f], n) \in Live
        BY <3>1, <3>2, OnLine, HasPage
      <4> QED BY <4>1, <4>2, <1>0, <1>1, <1>7
    <3> QED BY <3>1, <3>2, <1>4
  <2>2. CASE f = x
    <3> DEFINE s == line[p]
               t == Append(s, x)
    <3>1. /\ t \in Seq(Iframes) /\ Len(t) = Len(s) + 1 /\ t[Len(s) + 1] = x /\ \A j \in 1..Len(s) : t[j] = s[j]
          /\ DOMAIN t = 1..(Len(s) + 1) /\ Len(s) \in Nat /\ DOMAIN s = 1..Len(s)
      BY <1>3, AppendProperties
    <3>2. line'[x] = t
      BY <1>1
    <3>3. ASSUME NEW n \in 1..Len(s)
          PROVE  /\ t[n] \in Live' \cap ToSet(windows'[Above(t, n)])
                 /\ line'[t[n]] = SubSeq(t, 1, n)
      <4>1. n \in DOMAIN line[p] /\ t[n] = s[n]
        BY <3>1, <3>3
      <4>2. /\ s[n] \in Live /\ Above(s, n) \in Live /\ s[n] \in ToSet(windows[Above(s, n)])
            /\ line[s[n]] = SubSeq(s, 1, n)
        BY <4>1, <1>1, OnLine, HasPage
      <4>3. Above(t, n) = Above(s, n)
        <5>1. CASE n = 1
          BY <5>1 DEF Above
        <5>2. CASE n # 1
          <6>1. n - 1 \in 1..Len(s)
            BY <5>2, <3>1, <3>3
          <6> HIDE DEF s, t
          <6> QED BY <5>2, <6>1, <3>1 DEF Above
        <5> QED BY <5>1, <5>2
      <4>4. SubSeq(t, 1, n) = SubSeq(s, 1, n)
        BY <3>1, <3>3, <1>3, SubSeqOfAppend
      <4>5. s[n] \in Live' /\ s[n] \in ToSet(windows'[Above(s, n)]) /\ line'[s[n]] = line[s[n]]
        BY <4>2, <1>0, <1>1, <1>7
      <4> HIDE DEF s, t
      <4> QED BY <4>1, <4>2, <4>3, <4>4, <4>5
    <3>4. Above(t, Len(s) + 1) = p
      <4>1. CASE p = Top
        <5>1. Len(s) = 0
          BY <4>1, <1>4
        <5> QED BY <5>1, <4>1 DEF Above
      <4>2. CASE p # Top
        <5>1. s # <<>> /\ s[Len(s)] = p
          BY <4>2, <1>1, <1>4
        <5>2. Len(s) \in 1..Len(s)
          BY <5>1, <1>3
        <5>3. t[Len(s)] = p /\ Len(s) + 1 # 1 /\ (Len(s) + 1) - 1 = Len(s)
          BY <5>1, <5>2, <3>1
        <5> HIDE DEF s, t
        <5> QED BY <5>3 DEF Above
      <4> QED BY <4>1, <4>2
    <3>5. x \in ToSet(windows'[p])
      <4>1. windows'[p][i0] = x /\ i0 \in DOMAIN windows'[p]
        BY <1>1, <1>2, <1>3
      <4> QED BY <4>1 DEF ToSet
    <3>6. SubSeq(t, 1, Len(s) + 1) = t
      BY <3>1, SubSeqFull
    <3> HIDE DEF s, t
    <3>7. t # <<>>
      BY <3>1
    <3>8. ASSUME NEW n \in DOMAIN t
          PROVE  t[n] \in Live' \cap ToSet(windows'[Above(t, n)]) /\ line'[t[n]] = SubSeq(t, 1, n)
      <4>1. CASE n \in 1..Len(s)
        BY <4>1, <3>3
      <4>2. CASE n = Len(s) + 1
        BY <4>2, <3>1, <3>2, <3>4, <3>5, <3>6, <1>1
      <4> QED BY <4>1, <4>2, <3>1
    <3> QED BY <2>2, <3>1, <3>2, <3>7, <3>8
  <2> QED BY <2>1, <2>2
<1> QED BY <1>5, <1>6, <1>8 DEF IsPage

-----------------------------------------------------------------------------
(* The page: taking a frame out *)

\* What stands among the windows of a document hangs under it.
LEMMA HeldBy ==
    ASSUME RelayTypeOK, PageInv, NEW q \in Live, NEW i \in DOMAIN windows[q]
    PROVE  /\ windows[q][i] \in Live \ {Top} /\ windows[q][i] \in Iframes
           /\ Up(windows[q][i]) = q /\ IndexOf(windows[q][i]) = i
           /\ line[windows[q][i]] = Append(line[q], windows[q][i])
<1> DEFINE a == windows[q][i]
<1>1. q \in All /\ windows[q] \in Seq(Iframes) /\ line[q] \in Seq(Iframes)
  BY DEF RelayTypeOK, Live
<1>2. a \in Live /\ line[a] = Append(line[q], a)
  BY DEF PageInv, IsPage
<1>3. a \in Iframes /\ a # Top
  BY <1>1, FrameAssumption
<1>4. Len(Append(line[q], a)) = Len(line[q]) + 1 /\ \A j \in 1..Len(line[q]) : Append(line[q], a)[j] = line[q][j]
  BY <1>1, <1>3, AppendProperties
<1>5. Up(a) = q
  <2>1. CASE q = Top
    <3>1. Len(line[q]) = 0
      BY <2>1 DEF PageInv, IsPage
    <3> QED BY <2>1, <3>1, <1>2, <1>4 DEF Up, Above
  <2>2. CASE q # Top
    <3>1. line[q] # <<>> /\ line[q][Len(line[q])] = q
      BY <2>2 DEF PageInv, IsPage
    <3>2. Len(line[q]) \in 1..Len(line[q])
      BY <3>1, <1>1
    <3>3. Append(line[q], a)[Len(line[q])] = q
      BY <3>1, <3>2, <1>4
    <3>4. Len(line[a]) = Len(line[q]) + 1 /\ line[a][Len(line[q])] = q
      BY <3>3, <1>2, <1>4
    <3> HIDE DEF a
    <3> QED BY <3>2, <3>4 DEF Up, Above
  <2> QED BY <2>1, <2>2
<1>6. IndexOf(a) = i
  <2>1. i \in 1..Len(windows[Up(a)]) /\ windows[Up(a)][i] = a
    BY <1>1, <1>5
  <2> QED BY <2>1, <1>2, <1>3, Hangs, HasPage
<1> QED BY <1>2, <1>3, <1>5, <1>6

\* What hangs below a frame of a line hangs on that line.
LEMMA BelowOnLine ==
    ASSUME RelayTypeOK, Lines, NEW g \in All, NEW n \in DOMAIN line[g], NEW f
    PROVE  /\ f \in ToSet(line[line[g][n]]) <=> \E m \in 1..n : line[g][m] = f
           /\ f \in ToSet(line[line[g][n]]) => f \in ToSet(line[g])
<1>1. line[g] \in Seq(Iframes) /\ n \in 1..Len(line[g]) /\ DOMAIN line[g] = 1..Len(line[g])
  BY DEF RelayTypeOK
<1>2. line[line[g][n]] = SubSeq(line[g], 1, n)
  BY DEF Lines
<1> DEFINE s == SubSeq(line[g], 1, n)
<1>3. s \in Seq(Iframes) /\ Len(s) = n /\ \A j \in 1..n : s[j] = line[g][j]
  BY <1>1, SubSeqProperties
<1> HIDE DEF s
<1>4. DOMAIN s = 1..n
  BY <1>1, <1>3
<1>5. f \in ToSet(s) <=> \E m \in 1..n : line[g][m] = f
  BY <1>3, <1>4 DEF ToSet
<1>6. \A m \in 1..n : m \in DOMAIN line[g]
  BY <1>1
<1> QED BY <1>2, <1>5, <1>6 DEF s, ToSet

\* What taking the frame f out does to the page.
LEMMA RemovesPage ==
    ASSUME RelayTypeOK, PageInv, NEW f \in Iframes, Removes(f)
    PROVE  /\ f \in Live \ {Top} /\ Up(f) \in Live /\ f \in Below(f) /\ Up(f) \notin Below(f) /\ Top \notin Below(f)
           /\ Live' = Live \ Below(f) /\ gone' = gone \cup Below(f)
           /\ unused' = unused /\ line' = line /\ Below(f) \cap unused = {}
           /\ windows' \in [All -> Seq(Iframes)]
           /\ \A g \in All \ {Up(f)} : windows'[g] = windows[g]
           /\ IndexOf(f) \in 1..Len(windows[Up(f)]) /\ windows[Up(f)][IndexOf(f)] = f
           /\ Len(windows'[Up(f)]) = Len(windows[Up(f)]) - 1
           /\ \A j \in 1..(Len(windows[Up(f)]) - 1) :
                 windows'[Up(f)][j] = IF j < IndexOf(f) THEN windows[Up(f)][j] ELSE windows[Up(f)][j + 1]
<1>1. /\ f \in Live \ {Top} /\ windows' = [windows EXCEPT ![Up(f)] = RemoveAt(windows[Up(f)], IndexOf(f))]
      /\ gone' = gone \cup Below(f) /\ line' = line /\ unused' = unused
  BY DEF Removes
<1>2. /\ Up(f) \in Live /\ IndexOf(f) \in 1..Len(windows[Up(f)]) /\ windows[Up(f)][IndexOf(f)] = f
      /\ Len(line[f]) \in DOMAIN line[f] /\ line[f][Len(line[f])] = f
  BY <1>1, Hangs, HasPage
<1>3. Up(f) \in All /\ windows[Up(f)] \in Seq(Iframes) /\ windows \in [All -> Seq(Iframes)]
      /\ line \in [All -> Seq(Iframes)]
  BY <1>2 DEF RelayTypeOK, Live
<1>4. f \in Below(f)
  BY <1>2 DEF Below, ToSet
<1>5. Up(f) \notin Below(f)
  <2>1. SUFFICES ASSUME f \in ToSet(line[Up(f)])
                 PROVE  FALSE
    BY DEF Below
  <2>2. PICK m \in DOMAIN line[Up(f)] : line[Up(f)][m] = f
    BY <2>1 DEF ToSet
  <2>3. line[f] = SubSeq(line[Up(f)], 1, m) /\ m \in 1..Len(line[Up(f)])
    BY <2>2, <1>2, <1>3, OnLine, HasPage
  <2>4. Len(line[f]) = m
    BY <2>3, <1>3, SubSeqProperties
  <2>5. IndexOf(f) \in DOMAIN windows[Up(f)]
    BY <1>2, <1>3
  <2>6. line[f] = Append(line[Up(f)], f)
    BY <2>5, <1>2, HeldBy
  <2>7. Len(line[f]) = Len(line[Up(f)]) + 1
    BY <2>6, <1>3, AppendProperties
  <2> QED BY <2>3, <2>4, <2>7, <1>3
<1>6. Top \notin Below(f)
  BY FrameAssumption DEF Below
<1>7. Below(f) \cap unused = {}
  <2>1. SUFFICES ASSUME NEW g \in unused, f \in ToSet(line[g])
                 PROVE  FALSE
    BY DEF Below
  <2>2. line[g] = <<>>
    BY DEF PageInv, New
  <2> QED BY <2>1, <2>2 DEF ToSet
<1>8. Live' = Live \ Below(f)
  BY <1>1 DEF Live
<1>9. RemoveAt(windows[Up(f)], IndexOf(f)) \in Seq(Iframes)
  BY <1>2, <1>3, Removed
<1>10. /\ windows' \in [All -> Seq(Iframes)] /\ \A g \in All \ {Up(f)} : windows'[g] = windows[g]
       /\ windows'[Up(f)] = RemoveAt(windows[Up(f)], IndexOf(f))
  BY <1>1, <1>3, <1>9
<1>11. /\ Len(windows'[Up(f)]) = Len(windows[Up(f)]) - 1
       /\ \A j \in 1..(Len(windows[Up(f)]) - 1) :
             windows'[Up(f)][j] = IF j < IndexOf(f) THEN windows[Up(f)][j] ELSE windows[Up(f)][j + 1]
  BY <1>2, <1>3, <1>10, Removed
<1> QED BY <1>1, <1>2, <1>4, <1>5, <1>6, <1>7, <1>8, <1>10, <1>11

\* Every other frame is where it was, or one further up.
LEMMA RemovesShift ==
    ASSUME RelayTypeOK, PageInv, NEW f \in Iframes, Removes(f), NEW q \in Live'
    PROVE  /\ q \in Live /\ windows[q] \in Seq(Iframes) /\ windows'[q] \in Seq(Iframes)
           /\ \A i \in 1..Len(windows[q]) : windows[q][i] # f =>
                 \E j \in 1..Len(windows'[q]) : /\ windows'[q][j] = windows[q][i]
                                                /\ j = IF q = Up(f) /\ i > IndexOf(f) THEN i - 1 ELSE i
           /\ \A j \in 1..Len(windows'[q]) :
                 \E i \in 1..Len(windows[q]) : /\ windows'[q][j] = windows[q][i] /\ windows[q][i] # f
                                               /\ j = IF q = Up(f) /\ i > IndexOf(f) THEN i - 1 ELSE i
<1>0. q \in Live /\ windows[q] \in Seq(Iframes) /\ windows'[q] \in Seq(Iframes) /\ Up(f) \in Live
  BY RemovesPage DEF RelayTypeOK, Live
<1>1. CASE q # Up(f)
  <2>1. windows'[q] = windows[q]
    BY <1>0, <1>1, RemovesPage DEF Live
  <2>2. \A i \in 1..Len(windows[q]) : windows[q][i] # f
    <3>1. TAKE i \in 1..Len(windows[q])
    <3>2. i \in DOMAIN windows[q]
      BY <1>0
    <3> QED BY <3>2, <1>0, <1>1, HeldBy
  <2> QED BY <1>0, <1>1, <2>1, <2>2
<1>2. CASE q = Up(f)
  <2> DEFINE k == IndexOf(f)
  <2>1. /\ k \in 1..Len(windows[q]) /\ windows[q][k] = f /\ Len(windows'[q]) = Len(windows[q]) - 1
        /\ \A j \in 1..(Len(windows[q]) - 1) : windows'[q][j] = IF j < k THEN windows[q][j] ELSE windows[q][j + 1]
    BY <1>2, RemovesPage
  <2>2. Len(windows[q]) \in Nat
    BY <1>0
  <2>3. \A i, j \in 1..Len(windows[q]) : windows[q][i] = windows[q][j] => i = j
    <3>1. DOMAIN windows[q] = 1..Len(windows[q])
      BY <1>0
    <3> QED BY <3>1, <1>0 DEF PageInv, IsPage
  <2> HIDE DEF k
  <2>4. ASSUME NEW i \in 1..Len(windows[q]), windows[q][i] # f
        PROVE  \E j \in 1..Len(windows'[q]) : windows'[q][j] = windows[q][i] /\ j = IF i > k THEN i - 1 ELSE i
    <3>1. i # k
      BY <2>1, <2>4
    <3>2. CASE i < k
      <4>1. i \in 1..(Len(windows[q]) - 1) /\ windows'[q][i] = windows[q][i] /\ ~(i > k)
        BY <2>1, <2>2, <3>2
      <4> QED BY <4>1, <2>1
    <3>3. CASE i > k
      <4>1. i - 1 \in 1..(Len(windows[q]) - 1) /\ ~(i - 1 < k) /\ (i - 1) + 1 = i
        BY <2>1, <2>2, <3>3
      <4>2. windows'[q][i - 1] = windows[q][i]
        BY <4>1, <2>1
      <4> QED BY <4>1, <4>2, <2>1, <3>3
    <3> QED BY <3>1, <3>2, <3>3, <2>1
  <2>5. ASSUME NEW j \in 1..Len(windows'[q])
        PROVE  \E i \in 1..Len(windows[q]) : /\ windows'[q][j] = windows[q][i] /\ windows[q][i] # f
                                             /\ j = IF i > k THEN i - 1 ELSE i
    <3>1. j \in 1..(Len(windows[q]) - 1)
      BY <2>1
    <3>2. CASE j < k
      <4>1. j \in 1..Len(windows[q]) /\ windows'[q][j] = windows[q][j] /\ j # k /\ ~(j > k)
        BY <2>1, <2>2, <3>1, <3>2
      <4>2. windows[q][j] # f
        BY <4>1, <2>1, <2>3
      <4> QED BY <4>1, <4>2
    <3>3. CASE ~(j < k)
      <4>1. j + 1 \in 1..Len(windows[q]) /\ windows'[q][j] = windows[q][j + 1] /\ j + 1 # k /\ j + 1 > k
            /\ j = (j + 1) - 1
        BY <2>1, <2>2, <3>1, <3>3
      <4>2. windows[q][j + 1] # f
        BY <4>1, <2>1, <2>3
      <4> QED BY <4>1, <4>2
    <3> QED BY <3>2, <3>3
  <2> QED BY <1>0, <1>2, <2>4, <2>5 DEF k
<1> QED BY <1>1, <1>2

\* With a branch less the page is still one.
LEMMA RemovesIsPage ==
    ASSUME RelayTypeOK, PageInv, NEW f \in Iframes, Removes(f)
    PROVE  IsPage(windows, line, Live)'
<1>1. /\ f \in Live \ {Top} /\ Up(f) \in Live /\ Up(f) \notin Below(f) /\ Top \notin Below(f)
      /\ Live' = Live \ Below(f) /\ line' = line
      /\ \A g \in All \ {Up(f)} : windows'[g] = windows[g]
  BY RemovesPage
<1>0. Live \subseteq All /\ Top \in All
  BY DEF Live, All
<1>2. /\ line[Top] = <<>>
      /\ \A q \in Live : \A i \in DOMAIN windows[q] :
          /\ windows[q][i] \in Live /\ line[windows[q][i]] = Append(line[q], windows[q][i])
          /\ \A j \in DOMAIN windows[q] : windows[q][i] = windows[q][j] => i = j
      /\ \A g \in Live \ {Top} : line[g] # <<>> /\ line[g][Len(line[g])] = g
      /\ Lines
  BY DEF PageInv, IsPage
<1>3. ASSUME NEW q \in Live', NEW j \in DOMAIN windows'[q]
      PROVE  /\ windows'[q][j] \in Live' /\ line[windows'[q][j]] = Append(line[q], windows'[q][j])
             /\ \A k \in DOMAIN windows'[q] : windows'[q][j] = windows'[q][k] => j = k
  <2>1. /\ q \in Live /\ DOMAIN windows[q] = 1..Len(windows[q]) /\ DOMAIN windows'[q] = 1..Len(windows'[q])
        /\ windows[q] \in Seq(Iframes) /\ line[q] \in Seq(Iframes)
    <3>1. q \in Live /\ windows[q] \in Seq(Iframes) /\ windows'[q] \in Seq(Iframes)
      BY RemovesShift
    <3> QED BY <3>1, <1>0 DEF RelayTypeOK
  <2>0. \A k \in 1..Len(windows'[q]) :
          \E i \in 1..Len(windows[q]) : /\ windows'[q][k] = windows[q][i] /\ windows[q][i] # f
                                        /\ k = IF q = Up(f) /\ i > IndexOf(f) THEN i - 1 ELSE i
    BY RemovesShift
  <2>2. PICK i \in 1..Len(windows[q]) : /\ windows'[q][j] = windows[q][i] /\ windows[q][i] # f
                                        /\ j = IF q = Up(f) /\ i > IndexOf(f) THEN i - 1 ELSE i
    BY <2>0, <2>1
  <2> DEFINE a == windows[q][i]
  <2>3. a \in Live \ {Top} /\ line[a] = Append(line[q], a) /\ a \in Iframes
    BY <2>1, HeldBy
  <2>4. f \notin ToSet(line[a])
    <3>1. SUFFICES ASSUME NEW m \in DOMAIN line[a], line[a][m] = f
                   PROVE  FALSE
      BY DEF ToSet
    <3>2. Len(line[a]) = Len(line[q]) + 1 /\ line[a][Len(line[q]) + 1] = a
          /\ \A k \in 1..Len(line[q]) : line[a][k] = line[q][k]
      BY <2>1, <2>3, AppendProperties
    <3>3. m \in 1..(Len(line[q]) + 1)
      BY <2>1, <2>3, <3>1, <3>2
    <3>4. CASE m = Len(line[q]) + 1
      BY <3>1, <3>2, <3>4, <2>2
    <3>5. CASE m \in 1..Len(line[q])
      <4>1. line[q][m] = f /\ m \in DOMAIN line[q]
        BY <3>1, <3>2, <3>5, <2>1
      <4>2. q \in Below(f)
        <5>1. q # Top
          BY <4>1, <1>2
        <5> QED BY <4>1, <5>1, <2>1, <1>0 DEF Below, ToSet, All
      <4> QED BY <4>2, <1>1
    <3> QED BY <3>3, <3>4, <3>5, <2>1
  <2>5. a \in Live'
    BY <2>3, <2>4, <1>1 DEF Below
  <2>6. ASSUME NEW k \in DOMAIN windows'[q], windows'[q][j] = windows'[q][k]
        PROVE  j = k
    <3>1. PICK i2 \in 1..Len(windows[q]) : /\ windows'[q][k] = windows[q][i2]
                                           /\ k = IF q = Up(f) /\ i2 > IndexOf(f) THEN i2 - 1 ELSE i2
      BY <2>0, <2>1
    <3>2. i = i2
      BY <3>1, <2>1, <2>2, <2>6, <1>2
    <3> QED BY <3>1, <3>2, <2>2
  <2> QED BY <2>2, <2>3, <2>5, <2>6
<1>4. ASSUME NEW g \in Live' \ {Top}, NEW n \in DOMAIN line[g]
      PROVE  line[g][n] \in Live' \cap ToSet(windows'[Above(line[g], n)]) /\ line[line[g][n]] = SubSeq(line[g], 1, n)
  <2>1. g \in Live \ {Top} /\ g \in All /\ f \notin ToSet(line[g])
    BY <1>0, <1>1 DEF Below, All
  <2> DEFINE a == line[g][n]
             q == Above(line[g], n)
  <2>2. a \in Live \ {Top} /\ q \in Live /\ a \in ToSet(windows[q]) /\ line[a] = SubSeq(line[g], 1, n)
    BY <2>1, OnLine, HasPage
  <2>3. f \notin ToSet(line[a])
    BY <2>1, <1>2, BelowOnLine
  <2>4. a \in Live' /\ a # f
    BY <2>1, <2>2, <2>3, <1>1 DEF Below, ToSet
  <2>5. q \in Live'
    <3>1. CASE n = 1
      <4>1. Top \in Live
        BY FrameAssumption DEF RelayTypeOK, Live, All
      <4> QED BY <3>1, <4>1, <1>1 DEF Above
    <3>2. CASE n # 1
      <4>1. line[g] \in Seq(Iframes)
        BY <2>1 DEF RelayTypeOK
      <4>2. n - 1 \in DOMAIN line[g]
        BY <3>2, <4>1, <1>4
      <4>3. f \notin ToSet(line[line[g][n - 1]])
        BY <4>2, <2>1, <1>2, BelowOnLine
      <4>4. q = line[g][n - 1]
        BY <3>2 DEF Above
      <4> QED BY <4>3, <4>4, <2>2, <1>1 DEF Below
    <3> QED BY <3>1, <3>2
  <2>6. a \in ToSet(windows'[q])
    <3> HIDE DEF a, q
    <3>1. windows[q] \in Seq(Iframes) /\ windows'[q] \in Seq(Iframes)
      BY <2>5, RemovesShift
    <3>2. PICK i \in 1..Len(windows[q]) : windows[q][i] = a
      BY <2>2, <3>1 DEF ToSet
    <3>3. windows[q][i] # f
      BY <2>4, <3>2
    <3>4. \E j \in 1..Len(windows'[q]) : windows'[q][j] = windows[q][i]
      BY <2>5, <3>3, RemovesShift
    <3> QED BY <3>1, <3>2, <3>4 DEF ToSet
  <2> QED BY <2>2, <2>4, <2>6
<1> QED BY <1>1, <1>2, <1>3, <1>4 DEF IsPage

-----------------------------------------------------------------------------
(* What every step keeps of the page and of the types *)

\* The first report under way, and those behind it.
LEMMA TypedReport ==
    ASSUME RelayTypeOK, PageInv, NEW f \in All, queue[f] # <<>>
    PROVE  /\ Head(queue[f]) \in WireReports /\ Tail(queue[f]) \in Seq(WireReports)
           /\ f \in Live /\ Head(queue[f]) = queue[f][1] /\ Len(queue[f]) >= 1
           /\ Len(Tail(queue[f])) = Len(queue[f]) - 1
           /\ \A i \in 1..(Len(queue[f]) - 1) : Tail(queue[f])[i] = queue[f][i + 1]
<1>1. queue[f] \in Seq(WireReports)
  BY DEF RelayTypeOK
<1>2. f \in Live
  BY DEF PageInv, Away
<1> QED BY <1>1, <1>2, HeadTailProperties

\* A collection sends what it found or nothing, and nothing only if it found nothing new.
LEMMA Collects ==
    ASSUME RelayTypeOK, PageInv, NEW f \in All, Collect(f)
    PROVE  /\ f \in Live /\ BuildFrameReport(f) \in WireReports
           /\ due[f] # "no" /\ due' = [due EXCEPT ![f] = "no"]
           /\ lastReported' = [lastReported EXCEPT ![f] = BuildFrameReport(f)]
           /\ \/ due[f] = "plain" /\ lastReported[f] = BuildFrameReport(f) /\ queue' = queue
              \/ queue' = [queue EXCEPT ![f] = Append(queue[f], BuildFrameReport(f))]
           /\ UNCHANGED <<tree, strays, unseen, worker>>
<1>1. due[f] # "no"
  BY DEF Collect
<1>2. f \in Live
  BY <1>1 DEF PageInv, Away
<1>3. BuildFrameReport(f) \in WireReports
  BY <1>2, ReportFacts, HasPage
<1> QED BY <1>1, <1>2, <1>3 DEF Collect, Reports

\* The worker drops the reports under iframes that are gone, if any, and keeps the rest.
Kept(f) == {g \in Known : \A prefix \in DeadPrefixes(f, Head(queue[f])) : ~IsPrefix(prefix, reports[g].path)}

\* What it keeps, what it takes in, and whom it asks.
LEMMA HandlesReport ==
    ASSUME RelayTypeOK, PageInv, NEW f \in All, HandleReport(f)
    PROVE  /\ f \in Live /\ queue[f] # <<>> /\ Head(queue[f]) \in WireReports /\ Head(queue[f]) = queue[f][1]
           /\ queue' = [queue EXCEPT ![f] = Tail(queue[f])]
           /\ Known' = Kept(f) \cup {f} /\ Kept(f) \subseteq Known
           /\ reports'[f] = Head(queue[f]) /\ \A g \in Kept(f) \ {f} : reports'[g] = reports[g]
           /\ \/ /\ f \in Known /\ reports[f].children = Head(queue[f]).children /\ Kept(f) = Known
                 /\ due' = due /\ unseen' = unseen
              \/ due' = [g \in All |-> IF g \in Live THEN "forced" ELSE due[g]] /\ unseen' = {}
           /\ UNCHANGED <<tree, strays, lastReported>>
<1>1. /\ queue[f] # <<>> /\ queue' = [queue EXCEPT ![f] = Tail(queue[f])]
      /\ reports' = [g \in Kept(f) \cup {f} |-> IF g = f THEN Head(queue[f]) ELSE reports[g]]
      /\ IF f \in Known /\ reports[f].children = Head(queue[f]).children THEN UNCHANGED <<due, unseen>> ELSE AsksAnew
      /\ UNCHANGED <<tree, strays, lastReported>>
  BY DEF HandleReport, Put, Kept
<1>2. f \in Live /\ Head(queue[f]) \in WireReports /\ Head(queue[f]) = queue[f][1]
  BY <1>1, TypedReport
<1>3. Kept(f) \subseteq Known
  BY DEF Kept
<1>4. Known' = Kept(f) \cup {f} /\ reports'[f] = Head(queue[f]) /\ \A g \in Kept(f) \ {f} : reports'[g] = reports[g]
  BY <1>1 DEF Known
<1>5. ASSUME f \in Known, reports[f].children = Head(queue[f]).children
      PROVE  Kept(f) = Known
  <2>1. DeadPrefixes(f, Head(queue[f])) = {}
    BY <1>5 DEF DeadPrefixes
  <2> QED BY <2>1 DEF Kept
<1>6. CASE f \in Known /\ reports[f].children = Head(queue[f]).children
  BY <1>1, <1>2, <1>3, <1>4, <1>5, <1>6
<1>7. CASE ~(f \in Known /\ reports[f].children = Head(queue[f]).children)
  BY <1>1, <1>2, <1>3, <1>4, <1>7 DEF AsksAnew
<1> QED BY <1>6, <1>7

\* A worker that starts anew has nothing and asks everyone.
LEMMA Loses ==
    ASSUME ReportsAreLost
    PROVE  /\ Known' = {} /\ queue' = [f \in All |-> <<>>] /\ unseen' = {}
           /\ due' = [g \in All |-> IF g \in Live THEN "forced" ELSE due[g]]
           /\ UNCHANGED <<tree, strays, lastReported>>
BY DEF ReportsAreLost, AsksAnew, Known

\* Every step keeps the types.
LEMMA TypedStep ==
    ASSUME RelayTypeOK, PageInv, [RelayNext]_relayVars
    PROVE  RelayTypeOK'
<1>0. /\ windows \in [All -> Seq(Iframes)] /\ line \in [All -> Seq(Iframes)]
      /\ hidden \subseteq Iframes /\ unused \subseteq Iframes /\ gone \subseteq Iframes
      /\ strays \subseteq gone /\ unseen \subseteq All
      /\ due \in [All -> {"no", "plain", "forced"}]
      /\ lastReported \in [All -> WireReports] /\ queue \in [All -> Seq(WireReports)]
      /\ Known \subseteq All /\ \A f \in Known : reports[f] \in WireReports
  BY DEF RelayTypeOK
<1>1. ASSUME NEW p \in All, NEW x \in Iframes, Inserts(p, x) PROVE RelayTypeOK'
  <2>1. /\ unused' = unused \ {x} /\ hidden' \subseteq Iframes /\ gone' = gone
        /\ due' = [due EXCEPT ![p] = IF due[p] = "no" THEN "plain" ELSE due[p], ![x] = "forced"]
        /\ UNCHANGED <<strays, unseen, lastReported, queue, worker>>
    BY <1>0, <1>1 DEF Inserts
  <2>2. due' \in [All -> {"no", "plain", "forced"}]
    BY <1>0, <2>1
  <2>3. Known' = Known /\ reports' = reports
    BY <2>1 DEF worker, Known
  <2>4. windows' \in [All -> Seq(Iframes)] /\ line' \in [All -> Seq(Iframes)]
    BY <1>1, InsertsPage
  <2>5. unused' \subseteq Iframes
    BY <1>0, <2>1
  <2> QED BY <1>0, <2>1, <2>2, <2>3, <2>4, <2>5 DEF RelayTypeOK
<1>2. ASSUME NEW f \in Iframes, Removes(f) PROVE RelayTypeOK'
  <2>1. /\ UNCHANGED <<hidden, lastReported, worker>>
        /\ strays' \subseteq strays \cup Below(f)
        /\ unseen' \subseteq unseen \cup {Up(f)}
        /\ due' = [g \in All |-> IF g \in Below(f) THEN "no"
                                 ELSE IF g = Up(f) /\ due[Up(f)] = "no" THEN "plain" ELSE due[g]]
        /\ queue' = [g \in All |-> IF g \in Below(f) THEN <<>> ELSE queue[g]]
    BY <1>2 DEF Removes
  <2>2. /\ gone' = gone \cup Below(f) /\ unused' = unused /\ line' = line
        /\ windows' \in [All -> Seq(Iframes)] /\ Up(f) \in Live
    BY <1>2, RemovesPage
  <2>3. Below(f) \subseteq Iframes /\ Up(f) \in All
    BY <2>2 DEF Below, Live
  <2>4. due' \in [All -> {"no", "plain", "forced"}] /\ queue' \in [All -> Seq(WireReports)]
    BY <1>0, <2>1
  <2>5. Known' = Known /\ reports' = reports
    BY <2>1 DEF worker, Known
  <2> QED BY <1>0, <2>1, <2>2, <2>3, <2>4, <2>5 DEF RelayTypeOK
<1>3. ASSUME NEW f \in Iframes, Scrolls(f) PROVE RelayTypeOK'
  <2>1. /\ hidden' \subseteq Iframes
        /\ due' = IF due[Up(f)] = "no" THEN [due EXCEPT ![Up(f)] = "plain"] ELSE due
        /\ UNCHANGED <<windows, line, unused, gone, strays, unseen, lastReported, queue, worker>>
    BY <1>0, <1>3 DEF Scrolls, Schedules
  <2>2. due' \in [All -> {"no", "plain", "forced"}]
    BY <1>0, <2>1
  <2> QED BY <1>0, <2>1, <2>2 DEF RelayTypeOK, worker, Known
<1>4. ASSUME NEW f \in All, Collect(f) PROVE RelayTypeOK'
  <2>1. /\ BuildFrameReport(f) \in WireReports
        /\ due' = [due EXCEPT ![f] = "no"]
        /\ lastReported' = [lastReported EXCEPT ![f] = BuildFrameReport(f)]
        /\ \/ queue' = queue
           \/ queue' = [queue EXCEPT ![f] = Append(queue[f], BuildFrameReport(f))]
        /\ UNCHANGED <<tree, strays, unseen, worker>>
    BY <1>4, Collects
  <2> DEFINE r == BuildFrameReport(f)
  <2> HIDE DEF r
  <2>2. queue' \in [All -> Seq(WireReports)]
    <3>1. Append(queue[f], r) \in Seq(WireReports)
      BY <1>0, <2>1 DEF r
    <3> QED BY <1>0, <2>1, <3>1 DEF r
  <2>3. due' \in [All -> {"no", "plain", "forced"}] /\ lastReported' \in [All -> WireReports]
    BY <1>0, <2>1
  <2> QED BY <1>0, <2>1, <2>2, <2>3 DEF RelayTypeOK, worker, tree, Known
<1>5. ASSUME NEW f \in All, HandleReport(f) PROVE RelayTypeOK'
  <2>1. /\ Head(queue[f]) \in WireReports
        /\ queue' = [queue EXCEPT ![f] = Tail(queue[f])]
        /\ Known' = Kept(f) \cup {f} /\ Kept(f) \subseteq Known
        /\ reports'[f] = Head(queue[f]) /\ \A g \in Kept(f) \ {f} : reports'[g] = reports[g]
        /\ \/ due' = due /\ unseen' = unseen
           \/ due' = [g \in All |-> IF g \in Live THEN "forced" ELSE due[g]] /\ unseen' = {}
        /\ UNCHANGED <<tree, strays, lastReported>> /\ queue[f] # <<>>
    BY <1>5, HandlesReport
  <2>2. queue' \in [All -> Seq(WireReports)]
    <3>1. Tail(queue[f]) \in Seq(WireReports)
      BY <2>1, TypedReport
    <3> QED BY <1>0, <2>1, <3>1
  <2>3. due' \in [All -> {"no", "plain", "forced"}] /\ unseen' \subseteq All
    BY <1>0, <2>1
  <2>4. Known' \subseteq All /\ \A g \in Known' : reports'[g] \in WireReports
    BY <1>0, <2>1
  <2>5. /\ windows' = windows /\ line' = line /\ hidden' = hidden /\ unused' = unused /\ gone' = gone
        /\ strays' = strays /\ lastReported' = lastReported
    BY <2>1 DEF tree
  <2> QED BY <1>0, <2>2, <2>3, <2>4, <2>5 DEF RelayTypeOK
<1>6. CASE ReportsAreLost
  <2>1. /\ Known' = {} /\ queue' = [f \in All |-> <<>>] /\ unseen' = {}
        /\ due' = [g \in All |-> IF g \in Live THEN "forced" ELSE due[g]]
        /\ UNCHANGED <<tree, strays, lastReported>>
    BY <1>6, Loses
  <2>2. due' \in [All -> {"no", "plain", "forced"}] /\ queue' \in [All -> Seq(WireReports)]
    BY <1>0, <2>1
  <2>5. /\ windows' = windows /\ line' = line /\ hidden' = hidden /\ unused' = unused /\ gone' = gone
        /\ strays' = strays /\ lastReported' = lastReported
    BY <2>1 DEF tree
  <2> QED BY <1>0, <2>1, <2>2, <2>5 DEF RelayTypeOK
<1>7. CASE UNCHANGED relayVars
  BY <1>0, <1>7 DEF RelayTypeOK, relayVars, tree, collector, worker, Known
<1> QED BY <1>1, <1>2, <1>3, <1>4, <1>5, <1>6, <1>7 DEF RelayNext

\* The parts of the page's invariant, one by one.
LEMMA PageInvForms ==
    ASSUME PageInv
    PROVE  /\ IsPage(windows, line, Live)
           /\ \A g \in All : /\ Len(line[g]) <= MaxDepth
                             /\ \A n \in DOMAIN line[g] : /\ line[g][n] \notin unused
                                                          /\ line[line[g][n]] = SubSeq(line[g], 1, n)
           /\ \A g \in unused : g \notin gone \cup Known /\ windows[g] = <<>> /\ line[g] = <<>>
           /\ \A p \in All : \A d \in lastReported[p].children : d.pathKey \notin unused
           /\ \A g \in All \ Live : due[g] = "no" /\ queue[g] = <<>>
BY DEF PageInv, Lines, New, Old, Away

\* An iframe put in keeps it.
LEMMA PageInsert ==
    ASSUME RelayTypeOK, PageInv, NEW p \in All, NEW x \in Iframes, Inserts(p, x)
    PROVE  PageInv'
<1>1. /\ p \in Live /\ x \in unused /\ x \notin Live \cup gone \cup Known /\ x # Top
      /\ Live' = Live \cup {x} /\ windows[x] = <<>> /\ Len(line[p]) < MaxDepth
      /\ \A g \in All \ {p} : windows'[g] = windows[g]
      /\ line'[x] = Append(line[p], x) /\ \A g \in All \ {x} : line'[g] = line[g]
  BY InsertsPage
<1>2. /\ unused' = unused \ {x} /\ gone' = gone /\ lastReported' = lastReported /\ queue' = queue /\ Known' = Known
      /\ due' = [due EXCEPT ![p] = IF due[p] = "no" THEN "plain" ELSE due[p], ![x] = "forced"]
  BY DEF Inserts, worker, Known
<1>3. IsPage(windows, line, Live)'
  BY InsertsIsPage
<1>4. x \in All /\ line[p] \in Seq(Iframes) /\ line \in [All -> Seq(Iframes)] /\ due \in [All -> {"no", "plain", "forced"}]
      /\ unused \subseteq Iframes /\ MaxDepth \in Nat
  BY FrameAssumption DEF RelayTypeOK, All
<1>5. Lines'
  <2>1. ASSUME NEW g \in All
        PROVE  /\ Len(line'[g]) <= MaxDepth
               /\ \A n \in DOMAIN line'[g] : /\ line'[g][n] \notin unused'
                                             /\ line'[line'[g][n]] = SubSeq(line'[g], 1, n)
    <3>1. CASE g = x
      <4>1. Len(line'[x]) = Len(line[p]) + 1
        BY <1>1, <1>4, AppendProperties
      <4>2. Len(line'[x]) <= MaxDepth
        BY <4>1, <1>1, <1>4
      <4>3. x \in Live' \ {Top}
        BY <1>1
      <4>4. \A n \in DOMAIN line'[x] : line'[x][n] \in Live' /\ line'[line'[x][n]] = SubSeq(line'[x], 1, n)
        BY <4>3, <1>3 DEF IsPage
      <4>5. Live' \cap unused' = {}
        BY <1>2 DEF Live
      <4> QED BY <3>1, <4>2, <4>4, <4>5
    <3>2. CASE g # x
      <4>1. line'[g] = line[g]
        BY <3>2, <1>1
      <4>2. ASSUME NEW n \in DOMAIN line[g]
            PROVE  line[g][n] \notin unused' /\ line'[line[g][n]] = SubSeq(line[g], 1, n)
        <5>1. line[g][n] \notin unused /\ line[line[g][n]] = SubSeq(line[g], 1, n)
          BY PageInvForms
        <5>2. line[g][n] \in Iframes
          BY <1>4
        <5> QED BY <5>1, <5>2, <1>1, <1>2 DEF All
      <4>3. Len(line[g]) <= MaxDepth
        BY PageInvForms
      <4> QED BY <4>1, <4>2, <4>3
    <3> QED BY <3>1, <3>2
  <2> QED BY <2>1 DEF Lines
<1>6. New'
  <2>1. ASSUME NEW g \in unused'
        PROVE  g \notin gone' \cup Known' /\ windows'[g] = <<>> /\ line'[g] = <<>>
    <3>1. g \in unused /\ g # x /\ g # p /\ g \in All
      BY <1>1, <1>2, <1>4 DEF Live, All
    <3> QED BY <3>1, <1>1, <1>2, PageInvForms
  <2> QED BY <2>1 DEF New
<1>7. Old'
  BY <1>2, PageInvForms DEF Old
<1>8. Away'
  <2>1. ASSUME NEW g \in All \ Live' PROVE due'[g] = "no" /\ queue'[g] = <<>>
    <3>1. g \in All \ Live /\ g # x /\ g # p
      BY <1>1
    <3> QED BY <3>1, <1>2, <1>4, PageInvForms
  <2> QED BY <2>1 DEF Away
<1> QED BY <1>3, <1>5, <1>6, <1>7, <1>8 DEF PageInv

\* An iframe taken out keeps it.
LEMMA PageRemove ==
    ASSUME RelayTypeOK, PageInv, NEW f \in Iframes, Removes(f)
    PROVE  PageInv'
<1>1. /\ f \in Live \ {Top} /\ Up(f) \in Live
      /\ Live' = Live \ Below(f) /\ gone' = gone \cup Below(f)
      /\ unused' = unused /\ line' = line /\ Below(f) \cap unused = {}
      /\ \A g \in All \ {Up(f)} : windows'[g] = windows[g]
  BY RemovesPage
<1>2. /\ Known' = Known /\ lastReported' = lastReported
      /\ due' = [g \in All |-> IF g \in Below(f) THEN "no"
                               ELSE IF g = Up(f) /\ due[Up(f)] = "no" THEN "plain" ELSE due[g]]
      /\ queue' = [g \in All |-> IF g \in Below(f) THEN <<>> ELSE queue[g]]
  BY DEF Removes, worker, Known
<1>3. IsPage(windows, line, Live)'
  BY RemovesIsPage
<1>4. Lines' /\ Old'
  BY <1>1, <1>2, PageInvForms DEF Lines, Old
<1>5. New'
  <2>1. ASSUME NEW g \in unused
        PROVE  g \notin gone' \cup Known' /\ windows'[g] = <<>> /\ line'[g] = <<>>
    <3>1. g # Up(f) /\ g \in All
      BY <1>1 DEF RelayTypeOK, Live, All
    <3> QED BY <3>1, <1>1, <1>2, PageInvForms
  <2> QED BY <2>1, <1>1 DEF New
<1>6. Away'
  <2>1. ASSUME NEW g \in All \ Live' PROVE due'[g] = "no" /\ queue'[g] = <<>>
    <3>1. CASE g \in Below(f)
      BY <3>1, <1>2
    <3>2. CASE g \notin Below(f)
      <4>1. g \in All \ Live /\ g # Up(f)
        BY <3>2, <1>1
      <4> QED BY <3>2, <4>1, <1>2, PageInvForms
    <3> QED BY <3>1, <3>2
  <2> QED BY <2>1 DEF Away
<1> QED BY <1>3, <1>4, <1>5, <1>6 DEF PageInv

\* So does a step that leaves the page alone.
LEMMA PageRest ==
    ASSUME RelayTypeOK, PageInv, UNCHANGED <<windows, line, unused, gone>>,
           \A g \in unused : g \notin Known',
           \A p \in All : \A d \in lastReported'[p].children : d.pathKey \notin unused,
           \A g \in All \ Live : due'[g] = "no" /\ queue'[g] = <<>>
    PROVE  PageInv'
<1>1. Live' = Live
  BY DEF Live
<1>2. IsPage(windows, line, Live)'
  BY <1>1, PageInvForms DEF IsPage
<1> QED BY <1>1, <1>2, PageInvForms DEF PageInv, Lines, New, Old, Away

\* Every step keeps it.
LEMMA PageStep ==
    ASSUME RelayTypeOK, PageInv, [RelayNext]_relayVars
    PROVE  PageInv'
<1>0. \A g \in unused : g \in All /\ g \notin Live /\ g \notin Known
  BY PageInvForms DEF RelayTypeOK, Live, All
<1>1. ASSUME NEW p \in All, NEW x \in Iframes, Inserts(p, x) PROVE PageInv'
  BY <1>1, PageInsert
<1>2. ASSUME NEW f \in Iframes, Removes(f) PROVE PageInv'
  BY <1>2, PageRemove
<1>3. ASSUME NEW f \in Iframes, Scrolls(f) PROVE PageInv'
  <2>1. /\ due' = IF due[Up(f)] = "no" THEN [due EXCEPT ![Up(f)] = "plain"] ELSE due
        /\ UNCHANGED <<windows, line, unused, gone, lastReported, queue, worker>> /\ f \in Live \ {Top}
    BY <1>3 DEF Scrolls, Schedules
  <2>2. Up(f) \in Live /\ due \in [All -> {"no", "plain", "forced"}]
    BY <2>1, Hangs, HasPage DEF RelayTypeOK
  <2>3. \A g \in All \ Live : due'[g] = "no" /\ queue'[g] = <<>>
    BY <2>1, <2>2, PageInvForms
  <2>4. Known' = Known
    BY <2>1 DEF worker, Known
  <2> QED BY <2>1, <2>3, <2>4, <1>0, PageInvForms, PageRest
<1>4. ASSUME NEW f \in All, Collect(f) PROVE PageInv'
  <2>1. /\ f \in Live /\ due' = [due EXCEPT ![f] = "no"]
        /\ lastReported' = [lastReported EXCEPT ![f] = BuildFrameReport(f)]
        /\ \/ queue' = queue
           \/ queue' = [queue EXCEPT ![f] = Append(queue[f], BuildFrameReport(f))]
        /\ UNCHANGED <<windows, line, unused, gone, reports>>
    BY <1>4, Collects DEF tree, worker
  <2>2. Known' = Known
    BY <2>1 DEF Known
  <2>3. \A d \in Children(f) : d.pathKey \notin unused
    <3>1. TAKE d \in Children(f)
    <3>2. d.index \in 1..Len(windows[f]) /\ windows[f][d.index] = d.pathKey
      BY <2>1, ReportFacts, HasPage
    <3>3. d.index \in DOMAIN windows[f]
      BY <3>2 DEF RelayTypeOK
    <3>4. d.pathKey \in Live
      BY <3>2, <3>3, <2>1, HeldBy
    <3> QED BY <3>4 DEF Live
  <2>4. \A p \in All : \A d \in lastReported'[p].children : d.pathKey \notin unused
    BY <2>1, <2>3, PageInvForms DEF Children, RelayTypeOK
  <2>5. \A g \in All \ Live : due'[g] = "no" /\ queue'[g] = <<>>
    BY <2>1, PageInvForms DEF RelayTypeOK
  <2> QED BY <2>1, <2>2, <2>4, <2>5, <1>0, PageRest
<1>5. ASSUME NEW f \in All, HandleReport(f) PROVE PageInv'
  <2>1. /\ f \in Live /\ queue' = [queue EXCEPT ![f] = Tail(queue[f])]
        /\ Known' = Kept(f) \cup {f} /\ Kept(f) \subseteq Known
        /\ \/ due' = due
           \/ due' = [g \in All |-> IF g \in Live THEN "forced" ELSE due[g]]
        /\ UNCHANGED <<windows, line, unused, gone, lastReported>>
    BY <1>5, HandlesReport DEF tree
  <2>2. \A g \in All \ Live : due'[g] = "no" /\ queue'[g] = <<>>
    BY <2>1, PageInvForms DEF RelayTypeOK
  <2>3. \A g \in unused : g \notin Known'
    BY <2>1, <1>0
  <2> QED BY <2>1, <2>2, <2>3, PageInvForms, PageRest
<1>6. CASE ReportsAreLost
  <2>1. /\ Known' = {} /\ queue' = [f \in All |-> <<>>]
        /\ due' = [g \in All |-> IF g \in Live THEN "forced" ELSE due[g]]
        /\ UNCHANGED <<windows, line, unused, gone, lastReported>>
    BY <1>6, Loses DEF tree
  <2>2. \A g \in All \ Live : due'[g] = "no" /\ queue'[g] = <<>>
    BY <2>1, PageInvForms
  <2> QED BY <2>1, <2>2, PageInvForms, PageRest
<1>7. CASE UNCHANGED relayVars
  <2>1. UNCHANGED <<windows, line, unused, gone, lastReported, due, queue, reports>>
    BY <1>7 DEF relayVars, tree, collector, worker
  <2>2. Known' = Known
    BY <2>1 DEF Known
  <2> QED BY <2>1, <2>2, <1>0, PageInvForms, PageRest
<1> QED BY <1>1, <1>2, <1>3, <1>4, <1>5, <1>6, <1>7 DEF RelayNext

-----------------------------------------------------------------------------
(* What a frame said last is what the worker has or is about to have *)

\* A document whose iframes are as they were would report the same.
LEMMA SameChildren ==
    ASSUME NEW f, windows'[f] = windows[f],
           \A i \in DOMAIN windows[f] : windows[f][i] \in hidden' <=> windows[f][i] \in hidden
    PROVE  Children(f)' = Children(f)
<1>1. Children(f) = {[index |-> i, pathKey |-> windows[f][i]] :
                      i \in {j \in DOMAIN windows[f] : windows[f][j] \notin hidden}}
  BY DEF Children, BuildFrameReport
<1>2. Children(f)' = {[index |-> i, pathKey |-> windows'[f][i]] :
                      i \in {j \in DOMAIN windows'[f] : windows'[f][j] \notin hidden'}}
  BY DEF Children, BuildFrameReport
<1>3. {j \in DOMAIN windows[f] : windows[f][j] \notin hidden} = {j \in DOMAIN windows[f] : windows[f][j] \notin hidden'}
  OBVIOUS
<1> QED BY <1>1, <1>2, <1>3

\* The last of a sequence is what was appended.
LEMMA AppendLast ==
    ASSUME NEW S, NEW s \in Seq(S), NEW e \in S
    PROVE  Append(s, e) # <<>> /\ Append(s, e)[Len(Append(s, e))] = e
<1>1. Len(Append(s, e)) = Len(s) + 1 /\ Append(s, e)[Len(s) + 1] = e /\ Len(s) \in Nat
  BY AppendProperties
<1>2. Len(<<>>) = 0
  OBVIOUS
<1> QED BY <1>1, <1>2

\* Without its first the last of a sequence is the same, if there is one.
LEMMA TailLast ==
    ASSUME NEW S, NEW s \in Seq(S), s # <<>>
    PROVE  IF Len(s) = 1 THEN Tail(s) = <<>> /\ Head(s) = s[Len(s)]
           ELSE Tail(s) # <<>> /\ Tail(s)[Len(Tail(s))] = s[Len(s)]
<1> DEFINE t == Tail(s)
<1>1. /\ t \in Seq(S) /\ Len(t) = Len(s) - 1 /\ Len(s) \in Nat /\ Len(s) >= 1
      /\ \A i \in 1..(Len(s) - 1) : t[i] = s[i + 1]
      /\ Head(s) = s[1]
  BY HeadTailProperties
<1> HIDE DEF t
<1>2. CASE Len(s) = 1
  <2>1. t = <<>>
    BY <1>1, <1>2
  <2> QED BY <1>1, <1>2, <2>1 DEF t
<1>3. CASE Len(s) # 1
  <2>1. t # <<>> /\ Len(s) - 1 \in 1..(Len(s) - 1)
    BY <1>1, <1>3
  <2>2. t[Len(t)] = s[(Len(s) - 1) + 1]
    BY <1>1, <2>1
  <2>3. (Len(s) - 1) + 1 = Len(s)
    BY <1>1
  <2> QED BY <1>3, <2>1, <2>2, <2>3 DEF t
<1> QED BY <1>2, <1>3

\* Every step keeps Sent.
LEMMA SentStep ==
    ASSUME RelayTypeOK, PageInv, Sent, [RelayNext]_relayVars
    PROVE  Sent'
<1>0. /\ \A f \in Live :
           /\ queue[f] # <<>> => queue[f][Len(queue[f])] = lastReported[f]
           /\ queue[f] = <<>> /\ f \in Known => reports[f] = lastReported[f]
           /\ queue[f] = <<>> /\ due[f] # "forced" => f \in Known
      /\ Live \subseteq All
      /\ queue \in [All -> Seq(WireReports)] /\ due \in [All -> {"no", "plain", "forced"}]
      /\ lastReported \in [All -> WireReports]
  BY DEF Sent, Live, RelayTypeOK
<1>1. ASSUME NEW p \in All, NEW x \in Iframes, Inserts(p, x) PROVE Sent'
  <2>1. /\ Live' = Live \cup {x} /\ x \notin Live \cup Known /\ x \in All
    BY <1>1, InsertsPage DEF All
  <2>2. /\ due' = [due EXCEPT ![p] = IF due[p] = "no" THEN "plain" ELSE due[p], ![x] = "forced"]
        /\ UNCHANGED <<lastReported, queue, reports>>
    BY <1>1 DEF Inserts, worker
  <2>3. Known' = Known
    BY <2>2 DEF Known
  <2>4. queue[x] = <<>>
    BY <2>1, PageInvForms
  <2>5. \A f \in Live : due'[f] # "forced" => due[f] # "forced"
    BY <2>1, <2>2, <1>0
  <2>6. due'[x] = "forced"
    BY <2>1, <2>2, <1>0
  <2> QED BY <1>0, <2>1, <2>2, <2>3, <2>4, <2>5, <2>6 DEF Sent
<1>2. ASSUME NEW f \in Iframes, Removes(f) PROVE Sent'
  <2>1. Live' = Live \ Below(f)
    BY <1>2, RemovesPage
  <2>2. /\ UNCHANGED <<lastReported, reports>>
        /\ due' = [g \in All |-> IF g \in Below(f) THEN "no"
                                 ELSE IF g = Up(f) /\ due[Up(f)] = "no" THEN "plain" ELSE due[g]]
        /\ queue' = [g \in All |-> IF g \in Below(f) THEN <<>> ELSE queue[g]]
    BY <1>2 DEF Removes, worker
  <2>3. Known' = Known
    BY <2>2 DEF Known
  <2>4. \A g \in Live' : g \in Live /\ queue'[g] = queue[g] /\ (due'[g] # "forced" => due[g] # "forced")
    BY <2>1, <2>2, <1>0
  <2> QED BY <1>0, <2>2, <2>3, <2>4 DEF Sent
<1>3. ASSUME NEW f \in Iframes, Scrolls(f) PROVE Sent'
  <2>1. /\ due' = IF due[Up(f)] = "no" THEN [due EXCEPT ![Up(f)] = "plain"] ELSE due
        /\ UNCHANGED <<unused, gone, lastReported, queue, reports>>
    BY <1>3 DEF Scrolls, Schedules, worker
  <2>2. Known' = Known /\ Live' = Live
    BY <2>1 DEF Known, Live
  <2>3. \A g \in Live : due'[g] # "forced" => due[g] # "forced"
    BY <2>1, <1>0
  <2> QED BY <1>0, <2>1, <2>2, <2>3 DEF Sent
<1>4. ASSUME NEW f \in All, Collect(f) PROVE Sent'
  <2> DEFINE r == BuildFrameReport(f)
  <2>1. /\ f \in Live /\ r \in WireReports /\ due[f] # "no" /\ due' = [due EXCEPT ![f] = "no"]
        /\ lastReported' = [lastReported EXCEPT ![f] = r]
        /\ \/ due[f] = "plain" /\ lastReported[f] = r /\ queue' = queue
           \/ queue' = [queue EXCEPT ![f] = Append(queue[f], r)]
        /\ UNCHANGED <<unused, gone, reports>>
    BY <1>4, Collects DEF tree, worker
  <2> HIDE DEF r
  <2>2. Known' = Known /\ Live' = Live
    BY <2>1 DEF Known, Live
  <2>3. ASSUME NEW g \in Live, g # f
        PROVE  /\ queue'[g] # <<>> => queue'[g][Len(queue'[g])] = lastReported'[g]
               /\ queue'[g] = <<>> /\ g \in Known => reports[g] = lastReported'[g]
               /\ queue'[g] = <<>> /\ due'[g] # "forced" => g \in Known
    BY <1>0, <2>1, <2>3
  <2>4. CASE due[f] = "plain" /\ lastReported[f] = r /\ queue' = queue
    <3>1. lastReported'[f] = lastReported[f] /\ due[f] # "forced"
      BY <2>1, <2>4, <1>0
    <3> QED BY <1>0, <2>1, <2>2, <2>3, <2>4, <3>1 DEF Sent
  <2>5. CASE queue' = [queue EXCEPT ![f] = Append(queue[f], r)]
    <3>1. queue'[f] = Append(queue[f], r) /\ lastReported'[f] = r
      BY <2>1, <2>5, <1>0
    <3>2. Append(queue[f], r) # <<>> /\ Append(queue[f], r)[Len(Append(queue[f], r))] = r
      BY <2>1, <1>0, AppendLast
    <3>4. queue'[f] # <<>> /\ queue'[f][Len(queue'[f])] = lastReported'[f]
      BY <3>1, <3>2
    <3> QED BY <2>1, <2>2, <2>3, <3>4 DEF Sent
  <2> QED BY <2>1, <2>4, <2>5
<1>5. ASSUME NEW f \in All, HandleReport(f) PROVE Sent'
  <2>1. /\ f \in Live /\ queue' = [queue EXCEPT ![f] = Tail(queue[f])] /\ queue[f] # <<>>
        /\ Known' = Kept(f) \cup {f} /\ Kept(f) \subseteq Known
        /\ reports'[f] = Head(queue[f]) /\ \A g \in Kept(f) \ {f} : reports'[g] = reports[g]
        /\ \/ Kept(f) = Known /\ due' = due
           \/ due' = [g \in All |-> IF g \in Live THEN "forced" ELSE due[g]]
        /\ UNCHANGED <<unused, gone, lastReported>>
    BY <1>5, HandlesReport DEF tree
  <2>2. Live' = Live
    BY <2>1 DEF Live
  <2>3. IF Len(queue[f]) = 1 THEN Tail(queue[f]) = <<>> /\ Head(queue[f]) = queue[f][Len(queue[f])]
        ELSE Tail(queue[f]) # <<>> /\ Tail(queue[f])[Len(Tail(queue[f]))] = queue[f][Len(queue[f])]
    BY <2>1, <1>0, TailLast
  <2>4. ASSUME NEW g \in Live, g # f
        PROVE  /\ queue'[g] # <<>> => queue'[g][Len(queue'[g])] = lastReported[g]
               /\ queue'[g] = <<>> /\ g \in Known' => reports'[g] = lastReported[g]
               /\ queue'[g] = <<>> /\ due'[g] # "forced" => g \in Known'
    <3>1. queue'[g] = queue[g] /\ (g \in Known' => g \in Known /\ reports'[g] = reports[g])
      BY <2>1, <2>4, <1>0
    <3>2. due'[g] # "forced" => due[g] # "forced" /\ (g \in Known => g \in Known')
      BY <2>1, <2>4, <1>0
    <3> QED BY <3>1, <3>2, <1>0
  <2>5. queue'[f] = Tail(queue[f]) /\ f \in Known' /\ queue[f][Len(queue[f])] = lastReported[f]
    BY <2>1, <1>0
  <2>6. /\ queue'[f] # <<>> => queue'[f][Len(queue'[f])] = lastReported[f]
        /\ queue'[f] = <<>> => reports'[f] = lastReported[f]
    BY <2>1, <2>3, <2>5
  <2> QED BY <2>1, <2>2, <2>4, <2>5, <2>6 DEF Sent
<1>6. CASE ReportsAreLost
  <2>1. /\ Known' = {} /\ queue' = [f \in All |-> <<>>]
        /\ due' = [g \in All |-> IF g \in Live THEN "forced" ELSE due[g]]
        /\ UNCHANGED <<unused, gone>>
    BY <1>6, Loses DEF tree
  <2>2. Live' = Live
    BY <2>1 DEF Live
  <2> QED BY <1>0, <2>1, <2>2 DEF Sent
<1>7. CASE UNCHANGED relayVars
  BY <1>0, <1>7 DEF Sent, Live, Known, relayVars, tree, collector, worker
<1> QED BY <1>1, <1>2, <1>3, <1>4, <1>5, <1>6, <1>7 DEF RelayNext

\* Every step keeps Told.
LEMMA ToldStep ==
    ASSUME RelayTypeOK, PageInv, Told, [RelayNext]_relayVars
    PROVE  Told'
<1>0. /\ \A f \in Live : due[f] = "no" => /\ lastReported[f].children = Children(f)
                                          /\ Len(lastReported[f].path) = Len(line[f])
      /\ Live \subseteq All
      /\ due \in [All -> {"no", "plain", "forced"}] /\ lastReported \in [All -> WireReports]
  BY DEF Told, Live, RelayTypeOK
<1>1. ASSUME NEW p \in All, NEW x \in Iframes, Inserts(p, x) PROVE Told'
  <2>1. /\ Live' = Live \cup {x} /\ x \notin Live /\ x \in All
        /\ \A g \in All \ {p} : windows'[g] = windows[g]
        /\ \A g \in All \ {x} : line'[g] = line[g]
    BY <1>1, InsertsPage DEF All
  <2>2. /\ due' = [due EXCEPT ![p] = IF due[p] = "no" THEN "plain" ELSE due[p], ![x] = "forced"]
        /\ UNCHANGED lastReported /\ hidden \subseteq hidden' /\ hidden' \subseteq hidden \cup {x}
    BY <1>1 DEF Inserts
  <2>3. ASSUME NEW f \in Live', due'[f] = "no"
        PROVE  lastReported'[f].children = Children(f)' /\ Len(lastReported'[f].path) = Len(line'[f])
    <3>1. f # x /\ f # p /\ f \in Live /\ due[f] = "no"
      BY <2>1, <2>2, <2>3, <1>0
    <3>2. windows'[f] = windows[f] /\ line'[f] = line[f]
      BY <3>1, <2>1, <1>0
    <3>3. \A i \in DOMAIN windows[f] : windows[f][i] \in hidden' <=> windows[f][i] \in hidden
      BY <3>1, <2>1, <2>2, HeldBy
    <3>4. Children(f)' = Children(f)
      BY <3>2, <3>3, SameChildren
    <3> QED BY <3>1, <3>2, <3>4, <2>2, <1>0
  <2> QED BY <2>3 DEF Told
<1>2. ASSUME NEW f \in Iframes, Removes(f) PROVE Told'
  <2>1. /\ Live' = Live \ Below(f) /\ line' = line /\ \A g \in All \ {Up(f)} : windows'[g] = windows[g]
    BY <1>2, RemovesPage
  <2>2. /\ UNCHANGED <<lastReported, hidden>>
        /\ due' = [g \in All |-> IF g \in Below(f) THEN "no"
                                 ELSE IF g = Up(f) /\ due[Up(f)] = "no" THEN "plain" ELSE due[g]]
    BY <1>2 DEF Removes
  <2>3. ASSUME NEW g \in Live', due'[g] = "no"
        PROVE  lastReported'[g].children = Children(g)' /\ Len(lastReported'[g].path) = Len(line'[g])
    <3>1. g # Up(f) /\ g \in Live /\ due[g] = "no"
      BY <2>1, <2>2, <2>3, <1>0
    <3>2. windows'[g] = windows[g] /\ line'[g] = line[g]
      BY <3>1, <2>1, <1>0
    <3>4. Children(g)' = Children(g)
      BY <2>2, <3>2, SameChildren
    <3> QED BY <3>1, <3>2, <3>4, <2>2, <1>0
  <2> QED BY <2>3 DEF Told
<1>3. ASSUME NEW f \in Iframes, Scrolls(f) PROVE Told'
  <2>1. /\ due' = IF due[Up(f)] = "no" THEN [due EXCEPT ![Up(f)] = "plain"] ELSE due
        /\ UNCHANGED <<windows, line, unused, gone, lastReported>> /\ f \in Live \ {Top}
        /\ \A g : g # f => (g \in hidden' <=> g \in hidden)
    BY <1>3 DEF Scrolls, Schedules
  <2>2. Live' = Live
    BY <2>1 DEF Live
  <2>3. ASSUME NEW g \in Live, due'[g] = "no"
        PROVE  lastReported'[g].children = Children(g)' /\ Len(lastReported'[g].path) = Len(line'[g])
    <3>1. g # Up(f) /\ due[g] = "no"
      BY <2>1, <2>3, <1>0
    <3>2. \A i \in DOMAIN windows[g] : windows[g][i] # f
      BY <3>1, HeldBy
    <3>4. Children(g)' = Children(g)
      BY <2>1, <3>2, SameChildren
    <3> QED BY <3>1, <3>4, <2>1, <1>0
  <2> QED BY <2>2, <2>3 DEF Told
<1>4. ASSUME NEW f \in All, Collect(f) PROVE Told'
  <2>1. /\ f \in Live /\ due' = [due EXCEPT ![f] = "no"]
        /\ lastReported' = [lastReported EXCEPT ![f] = BuildFrameReport(f)]
        /\ UNCHANGED <<windows, line, hidden, unused, gone>>
    BY <1>4, Collects DEF tree
  <2>2. Live' = Live
    BY <2>1 DEF Live
  <2>3. \A g : Children(g)' = Children(g)
    BY <2>1, SameChildren
  <2>4. lastReported'[f].children = Children(f) /\ Len(lastReported'[f].path) = Len(line[f])
    <3>1. lastReported'[f] = BuildFrameReport(f)
      BY <2>1, <1>0
    <3> QED BY <2>1, <3>1, ReportFacts, HasPage DEF Children
  <2>5. ASSUME NEW g \in Live, due'[g] = "no", g # f
        PROVE  lastReported'[g].children = Children(g) /\ Len(lastReported'[g].path) = Len(line[g])
    <3>1. due[g] = "no" /\ lastReported'[g] = lastReported[g]
      BY <2>1, <2>5, <1>0
    <3> QED BY <3>1, <1>0
  <2> QED BY <2>1, <2>2, <2>3, <2>4, <2>5 DEF Told
<1>5. ASSUME NEW f \in All, HandleReport(f) PROVE Told'
  <2>1. /\ \/ due' = due
           \/ due' = [g \in All |-> IF g \in Live THEN "forced" ELSE due[g]]
        /\ UNCHANGED <<windows, line, hidden, unused, gone, lastReported>>
    BY <1>5, HandlesReport DEF tree
  <2>2. Live' = Live
    BY <2>1 DEF Live
  <2>3. \A g : Children(g)' = Children(g)
    BY <2>1, SameChildren
  <2>4. \A g \in Live : due'[g] = "no" => due[g] = "no"
    BY <2>1, <1>0
  <2> QED BY <1>0, <2>1, <2>2, <2>3, <2>4 DEF Told
<1>6. CASE ReportsAreLost
  <2>1. /\ due' = [g \in All |-> IF g \in Live THEN "forced" ELSE due[g]]
        /\ UNCHANGED <<unused, gone>>
    BY <1>6, Loses DEF tree
  <2>2. Live' = Live
    BY <2>1 DEF Live
  <2> QED BY <1>0, <2>1, <2>2 DEF Told
<1>7. CASE UNCHANGED relayVars
  <2>1. UNCHANGED <<windows, line, hidden, unused, gone, lastReported, due>>
    BY <1>7 DEF relayVars, tree, collector
  <2>2. Live' = Live
    BY <2>1 DEF Live
  <2>3. \A g : Children(g)' = Children(g)
    BY <2>1, SameChildren
  <2> QED BY <1>0, <2>1, <2>2, <2>3 DEF Told
<1> QED BY <1>1, <1>2, <1>3, <1>4, <1>5, <1>6, <1>7 DEF RelayNext

-----------------------------------------------------------------------------
(* A frame that is not due has its place right, or will be asked again *)

\* What a step has to keep of one level of the line of one frame.
LEMMA FollowingForms ==
    ASSUME RelayTypeOK, PageInv, Following, NEW f \in Live, due[f] = "no", NEW n \in DOMAIN line[f],
           NEW q, q = Above(line[f], n), q \notin unseen, Quiet(q), NEW d \in lastReported[q].children
    PROVE  Follows(f, n, q, d)
BY DEF Following

\* No iframe is in a document twice.
LEMMA PlacesDiffer ==
    ASSUME RelayTypeOK, PageInv, NEW q \in Live
    PROVE  /\ q \in All /\ windows[q] \in Seq(Iframes) /\ DOMAIN windows[q] = 1..Len(windows[q])
           /\ \A i, j \in 1..Len(windows[q]) : windows[q][i] = windows[q][j] => i = j
<1>1. q \in All /\ windows[q] \in Seq(Iframes) /\ DOMAIN windows[q] = 1..Len(windows[q])
  BY DEF RelayTypeOK, Live
<1> QED BY <1>1 DEF PageInv, IsPage

\* An iframe put in moves those behind it, but it is a newcomer before them.
LEMMA FollowingInsert ==
    ASSUME RelayTypeOK, PageInv, Following, NEW p \in All, NEW x \in Iframes, Inserts(p, x)
    PROVE  Following'
<1>1. /\ p \in Live /\ x \in unused /\ x \notin Live \cup gone \cup Known /\ x # Top /\ x \in All
      /\ Live' = Live \cup {x} /\ windows[x] = <<>>
      /\ windows' \in [All -> Seq(Iframes)]
      /\ \A g \in All \ {p} : windows'[g] = windows[g]
      /\ \A g \in All \ {x} : line'[g] = line[g]
  BY InsertsPage DEF All
<1>2. PICK i0 \in 1..(Len(windows[p]) + 1) :
                 /\ Len(windows'[p]) = Len(windows[p]) + 1
                 /\ \A j \in 1..(Len(windows[p]) + 1) :
                       windows'[p][j] = IF j < i0 THEN windows[p][j] ELSE IF j = i0 THEN x ELSE windows[p][j - 1]
  BY InsertsPage
<1>3. /\ due' = [due EXCEPT ![p] = IF due[p] = "no" THEN "plain" ELSE due[p], ![x] = "forced"]
      /\ UNCHANGED <<unseen, lastReported, queue, reports>>
  BY DEF Inserts, worker
<1>4. Known' = Known /\ \A q : Quiet(q)' = Quiet(q)
  BY <1>3 DEF Known, Quiet
<1>5. Live \subseteq All /\ due \in [All -> {"no", "plain", "forced"}]
  BY DEF Live, RelayTypeOK
<1>6. SUFFICES ASSUME NEW f \in Live', due'[f] = "no", NEW n \in DOMAIN line'[f], NEW q, q = Above(line'[f], n),
                      q \notin unseen', Quiet(q)', NEW d \in lastReported'[q].children
               PROVE  Follows(f, n, q, d)'
  BY DEF Following
<1>7. f \in Live /\ f # x /\ due[f] = "no" /\ line'[f] = line[f] /\ n \in DOMAIN line[f] /\ q = Above(line[f], n)
  BY <1>1, <1>3, <1>5, <1>6
<1>8. q \in Live /\ q # x /\ q \in All
  BY <1>1, <1>5, <1>7, OnLine, HasPage
<1>9. Follows(f, n, q, d)
  BY <1>3, <1>4, <1>6, <1>7, FollowingForms
<1>10. \A e \in lastReported[q].children : e.pathKey # x
  BY <1>1, <1>8, PageInvForms
<1>11. due[q] # "no" => due'[q] # "no"
  BY <1>3, <1>5, <1>8
<1>12. /\ windows[q] \in Seq(Iframes) /\ DOMAIN windows[q] = 1..Len(windows[q]) /\ Len(windows[q]) \in Nat
       /\ windows'[q] \in Seq(Iframes) /\ DOMAIN windows'[q] = 1..Len(windows'[q])
  BY <1>1, <1>8, PlacesDiffer
<1> DEFINE a == d.pathKey
<1>13. a # x
  BY <1>3, <1>6, <1>10
<1>14. CASE q = p /\ \E i \in DOMAIN windows'[p] : i > i0 /\ windows'[p][i] = a
  <2>1. i0 \in DOMAIN windows'[p] /\ windows'[p][i0] = x
    BY <1>2, <1>12, <1>14
  <2>2. Newcomer(q, a)'
    BY <1>1, <1>4, <1>12, <1>14, <2>1 DEF Newcomer
  <2> QED BY <2>2 DEF Follows, Upset
<1>15. CASE ~(q = p /\ \E i \in DOMAIN windows'[p] : i > i0 /\ windows'[p][i] = a)
  <2>1. \A i \in DOMAIN windows'[q] : windows'[q][i] = a => i \in DOMAIN windows[q] /\ windows[q][i] = a
    BY <1>1, <1>2, <1>8, <1>12, <1>13, <1>15
  <2>2. \A j \in DOMAIN windows[q] : windows[q][j] = a =>
           \A i \in 1..j : i \in DOMAIN windows'[q] /\ windows'[q][i] = windows[q][i]
    <3>1. CASE q # p
      BY <1>1, <1>8, <1>12, <3>1
    <3>2. CASE q = p
      <4>1. TAKE j \in DOMAIN windows[q]
      <4>2. HAVE windows[q][j] = a
      <4>3. j < i0
        <5>1. ASSUME j >= i0 PROVE FALSE
          <6>1. j + 1 \in 1..(Len(windows[p]) + 1) /\ (j + 1) - 1 = j
            BY <3>2, <1>12
          <6>2. windows'[p][j + 1] = windows[p][j]
            BY <6>1, <1>2, <5>1, <1>12, <3>2
          <6> QED BY <1>2, <1>12, <1>15, <3>2, <4>2, <5>1, <6>1, <6>2
        <5> QED BY <5>1, <1>12
      <4> QED BY <1>2, <1>12, <3>2, <4>3
    <3> QED BY <3>1, <3>2
  <2>3. ToSet(windows'[q]) \subseteq ToSet(windows[q]) \cup {x}
    <3>1. CASE q # p
      BY <1>1, <1>8, <3>1
    <3>2. CASE q = p
      <4>1. ASSUME NEW j \in DOMAIN windows'[q] PROVE windows'[q][j] \in ToSet(windows[q]) \cup {x}
        <5>1. j \in 1..(Len(windows[p]) + 1)
          BY <1>2, <1>12, <3>2
        <5>2. windows'[p][j] = x \/ \E i \in 1..Len(windows[p]) : windows'[p][j] = windows[p][i]
          BY <5>1, <1>2, <1>12, <3>2
        <5> QED BY <5>2, <1>12, <3>2 DEF ToSet
      <4> QED BY <4>1 DEF ToSet
    <3> QED BY <3>1, <3>2
  <2>4. CASE Newcomer(q, a)
    <3>1. PICK i, j \in DOMAIN windows[q] : i < j /\ windows[q][j] = a /\ windows[q][i] \notin Known
      BY <2>4 DEF Newcomer
    <3>2. /\ i \in DOMAIN windows'[q] /\ windows'[q][i] = windows[q][i]
          /\ j \in DOMAIN windows'[q] /\ windows'[q][j] = windows[q][j]
      BY <3>1, <2>2, <1>12
    <3>3. Newcomer(q, a)'
      BY <3>1, <3>2, <1>4 DEF Newcomer
    <3> QED BY <3>3 DEF Follows, Upset
  <2>5. CASE due[q] # "no" /\ Lost(q)
    <3>1. Lost(q)'
      BY <2>5, <2>3, <1>3, <1>10 DEF Lost
    <3> QED BY <3>1, <2>5, <1>11 DEF Follows, Upset
  <2>6. CASE due[q] # "no" /\ Moved(q, d)
    <3>1. Moved(q, d)'
      BY <2>6, <2>1 DEF Moved
    <3> QED BY <3>1, <2>6, <1>11 DEF Follows, Upset
  <2>7. CASE \A i \in DOMAIN windows[q] : windows[q][i] = a => (lastReported[f].path[n] = i <=> a = line[f][n])
    BY <2>7, <2>1, <1>3, <1>7 DEF Follows
  <2> QED BY <1>9, <2>4, <2>5, <2>6, <2>7 DEF Follows, Upset
<1> QED BY <1>14, <1>15

\* One taken out moves those behind it: they are not where their document
\* said any more, or that document still says what it has lost.
LEMMA FollowingRemove ==
    ASSUME RelayTypeOK, PageInv, RelayTypeOK', PageInv', Told, Following, NEW y \in Iframes, Removes(y)
    PROVE  Following'
<1> DEFINE p == Up(y)
<1>1. /\ y \in Live \ {Top} /\ p \in Live /\ p \notin Below(y)
      /\ Live' = Live \ Below(y) /\ line' = line
      /\ windows' \in [All -> Seq(Iframes)]
      /\ \A g \in All \ {p} : windows'[g] = windows[g]
      /\ IndexOf(y) \in 1..Len(windows[p]) /\ windows[p][IndexOf(y)] = y
      /\ Len(windows'[p]) = Len(windows[p]) - 1
      /\ \A j \in 1..(Len(windows[p]) - 1) :
            windows'[p][j] = IF j < IndexOf(y) THEN windows[p][j] ELSE windows[p][j + 1]
  BY RemovesPage
<1>2. /\ UNCHANGED <<lastReported, reports>>
      /\ unseen' = IF due[p] # "no" /\ Shown(p, y) = {} THEN unseen \cup {p} ELSE unseen
      /\ due' = [g \in All |-> IF g \in Below(y) THEN "no"
                               ELSE IF g = p /\ due[p] = "no" THEN "plain" ELSE due[g]]
      /\ queue' = [g \in All |-> IF g \in Below(y) THEN <<>> ELSE queue[g]]
  BY DEF Removes, worker
<1> DEFINE i0 == IndexOf(y)
<1> HIDE DEF p, i0
<1>3. Known' = Known
  BY <1>2 DEF Known
<1>5. Live \subseteq All /\ due \in [All -> {"no", "plain", "forced"}]
  BY DEF Live, RelayTypeOK
<1>6. SUFFICES ASSUME NEW f \in Live', due'[f] = "no", NEW n \in DOMAIN line'[f], NEW q, q = Above(line'[f], n),
                      q \notin unseen', Quiet(q)', NEW d \in lastReported'[q].children
               PROVE  Follows(f, n, q, d)'
  BY DEF Following
<1>7. f \in Live /\ f # p /\ due[f] = "no" /\ n \in DOMAIN line[f] /\ q = Above(line[f], n)
  BY <1>1, <1>2, <1>5, <1>6
<1>8. q \in Live' /\ q \in Live /\ q \in All /\ q \notin Below(y)
  <2>1. q \in Live /\ f # Top /\ f \in Iframes
    BY <1>5, <1>7, OnLine, HasPage DEF All
  <2>2. ASSUME q \in Below(y) PROVE FALSE
    <3>1. q # Top /\ n # 1 /\ q = line[f][n - 1] /\ n \in 1..Len(line[f]) /\ line[f] \in Seq(Iframes)
      BY <2>2, <1>5, <1>7, OnLine, HasPage, FrameAssumption DEF Below, Above, RelayTypeOK
    <3>2. n - 1 \in DOMAIN line[f] /\ y \in ToSet(line[line[f][n - 1]])
      BY <3>1, <2>2 DEF Below
    <3>3. y \in ToSet(line[f])
      BY <3>2, <1>5, <1>7, BelowOnLine DEF PageInv
    <3> QED BY <3>3, <2>1, <1>1, <1>6 DEF Below
  <2> QED BY <2>1, <2>2, <1>1, <1>5
<1>9. Follows(f, n, q, d)
  <2>1. q \notin unseen
    BY <1>2, <1>6
  <2>2. Quiet(q)
    BY <1>2, <1>3, <1>6, <1>8 DEF Quiet
  <2> QED BY <1>2, <1>6, <1>7, <2>1, <2>2, FollowingForms
<1> DEFINE a == d.pathKey
<1>12. /\ windows[q] \in Seq(Iframes) /\ DOMAIN windows[q] = 1..Len(windows[q]) /\ Len(windows[q]) \in Nat
       /\ windows'[q] \in Seq(Iframes) /\ DOMAIN windows'[q] = 1..Len(windows'[q])
       /\ \A i, j \in 1..Len(windows[q]) : windows[q][i] = windows[q][j] => i = j
       /\ \A i, j \in 1..Len(windows'[q]) : windows'[q][i] = windows'[q][j] => i = j
  <2>1. windows'[q] \in Seq(Iframes) /\ DOMAIN windows'[q] = 1..Len(windows'[q])
    BY <1>1, <1>8
  <2>2. \A i, j \in DOMAIN windows'[q] : windows'[q][i] = windows'[q][j] => i = j
    BY <1>8 DEF PageInv, IsPage
  <2> QED BY <1>8, <2>1, <2>2, PlacesDiffer
<1>13. CASE q # p
  <2>1. windows'[q] = windows[q] /\ due'[q] = due[q]
    BY <1>1, <1>2, <1>8, <1>13
  <2> QED BY <2>1, <1>2, <1>3, <1>1, <1>9 DEF Follows, Upset, Newcomer, Lost, Moved
<1>14. CASE q = p
  <2>0. due'[q] # "no"
    BY <1>2, <1>5, <1>8, <1>14
  <2>1. i0 \in 1..Len(windows[q]) /\ windows[q][i0] = y
        /\ Len(windows'[q]) = Len(windows[q]) - 1
        /\ \A j \in 1..(Len(windows[q]) - 1) : windows'[q][j] = IF j < i0 THEN windows[q][j] ELSE windows[q][j + 1]
    BY <1>1, <1>14 DEF i0, p
  <2>2. \A j \in 1..Len(windows'[q]) : /\ windows'[q][j] # y
                                       /\ \E i \in 1..Len(windows[q]) : windows'[q][j] = windows[q][i]
    <3>1. TAKE j \in 1..Len(windows'[q])
    <3>2. CASE j < i0
      <4>1. j \in 1..(Len(windows[q]) - 1)
        BY <2>1
      <4>2. j \in 1..Len(windows[q]) /\ j # i0 /\ windows'[q][j] = windows[q][j]
        BY <4>1, <2>1, <1>12, <3>2
      <4> QED BY <4>2, <2>1, <1>12
    <3>3. CASE j >= i0
      <4>1. j + 1 \in 1..Len(windows[q]) /\ j + 1 # i0 /\ windows'[q][j] = windows[q][j + 1]
        BY <2>1, <1>12, <3>3
      <4> QED BY <4>1, <2>1, <1>12
    <3> QED BY <2>1, <1>12, <3>2, <3>3
  <2>3. CASE a = y
    <3>1. Moved(q, d)'
      BY <2>2, <2>3, <1>12 DEF Moved
    <3> QED BY <2>0, <3>1 DEF Follows, Upset
  <2>4. CASE a # y /\ \E k \in 1..Len(windows[q]) : windows[q][k] = a /\ k > i0
    <3>1. PICK k \in 1..Len(windows[q]) : windows[q][k] = a /\ k > i0
      BY <2>4
    <3>2. k - 1 \in 1..Len(windows'[q]) /\ windows'[q][k - 1] = a
      <4>1. k - 1 \in 1..(Len(windows[q]) - 1) /\ ~(k - 1 < i0) /\ (k - 1) + 1 = k
        BY <2>1, <1>12, <3>1
      <4> QED BY <2>1, <3>1, <4>1
    <3>3. CASE due[q] = "no"
      <4>1. d \in Children(q)
        BY <1>2, <1>6, <1>8, <3>3 DEF Told
      <4>2. d.index \in 1..Len(windows[q]) /\ windows[q][d.index] = a
        BY <4>1, <1>8, ReportFacts, HasPage
      <4>3. d.index = k
        BY <4>2, <3>1, <1>12
      <4>4. Moved(q, d)'
        BY <4>3, <3>1, <3>2, <1>12 DEF Moved
      <4> QED BY <2>0, <4>4 DEF Follows, Upset
    <3>4. CASE due[q] # "no"
      <4>1. Shown(q, y) # {}
        BY <1>2, <1>6, <1>14, <3>4
      <4>2. PICK e \in lastReported[q].children : e.pathKey = y
        BY <4>1 DEF Shown
      <4>3. y \notin ToSet(windows'[q])
        BY <2>2, <1>12 DEF ToSet
      <4>4. Lost(q)'
        BY <4>2, <4>3, <1>2 DEF Lost
      <4> QED BY <2>0, <4>4 DEF Follows, Upset
    <3> QED BY <3>3, <3>4
  <2>5. CASE a # y /\ ~\E k \in 1..Len(windows[q]) : windows[q][k] = a /\ k > i0
    <3>1. \A k \in 1..Len(windows[q]) : windows[q][k] = a =>
             \A i \in 1..k : i \in 1..Len(windows'[q]) /\ windows'[q][i] = windows[q][i]
      <4>1. TAKE k \in 1..Len(windows[q])
      <4>2. HAVE windows[q][k] = a
      <4>3. k < i0
        BY <4>2, <2>5, <2>1, <1>12
      <4> QED BY <4>3, <2>1, <1>12
    <3>2. \A j \in 1..Len(windows'[q]) : windows'[q][j] = a => j \in 1..Len(windows[q]) /\ windows[q][j] = a
      <4>1. TAKE j \in 1..Len(windows'[q])
      <4>2. HAVE windows'[q][j] = a
      <4>3. PICK i \in 1..Len(windows[q]) : windows[q][i] = a
        BY <4>2, <2>2
      <4>4. i \in 1..i /\ i \in 1..Len(windows'[q]) /\ windows'[q][i] = a
        <5>1. i \in 1..i
          BY <1>12
        <5> QED BY <3>1, <4>3, <5>1
      <4>5. i = j
        BY <4>2, <4>4, <1>12
      <4> QED BY <4>3, <4>5
    <3>3. ToSet(windows'[q]) \subseteq ToSet(windows[q])
      BY <2>2, <1>12 DEF ToSet
    <3>4. CASE Newcomer(q, a)
      <4>1. PICK i, j \in DOMAIN windows[q] : i < j /\ windows[q][j] = a /\ windows[q][i] \notin Known
        BY <3>4 DEF Newcomer
      <4>2. /\ i \in DOMAIN windows'[q] /\ windows'[q][i] = windows[q][i]
            /\ j \in DOMAIN windows'[q] /\ windows'[q][j] = windows[q][j]
        BY <4>1, <3>1, <1>12
      <4>3. Newcomer(q, a)'
        BY <4>1, <4>2, <1>3 DEF Newcomer
      <4> QED BY <4>3 DEF Follows, Upset
    <3>5. CASE Lost(q)
      <4>1. Lost(q)'
        BY <3>5, <3>3, <1>2 DEF Lost
      <4> QED BY <4>1, <2>0 DEF Follows, Upset
    <3>6. CASE Moved(q, d)
      <4>1. Moved(q, d)'
        BY <3>6, <3>2, <1>12 DEF Moved
      <4> QED BY <4>1, <2>0 DEF Follows, Upset
    <3>7. CASE \A i \in DOMAIN windows[q] : windows[q][i] = a => (lastReported[f].path[n] = i <=> a = line[f][n])
      BY <3>7, <3>2, <1>1, <1>2, <1>12 DEF Follows
    <3> QED BY <1>9, <3>4, <3>5, <3>6, <3>7 DEF Follows, Upset
  <2> QED BY <2>3, <2>4, <2>5
<1> QED BY <1>13, <1>14

\* A frame that collects has its place right.  A document that does so and
\* stays quiet has told of nothing lost or moved.
LEMMA FollowingCollect ==
    ASSUME RelayTypeOK, PageInv, Sent, Following, NEW g \in All, Collect(g)
    PROVE  Following'
<1> DEFINE r == BuildFrameReport(g)
<1>1. /\ g \in Live /\ r \in WireReports /\ due[g] # "no" /\ due' = [due EXCEPT ![g] = "no"]
      /\ lastReported' = [lastReported EXCEPT ![g] = r]
      /\ \/ queue' = queue
         \/ queue' = [queue EXCEPT ![g] = Append(queue[g], r)]
      /\ UNCHANGED <<windows, line, unused, gone, unseen, reports>>
  BY Collects DEF tree, worker
<1> HIDE DEF r
<1>2. Known' = Known /\ Live' = Live
  BY <1>1 DEF Known, Live
<1>3. /\ Live \subseteq All /\ due \in [All -> {"no", "plain", "forced"}]
      /\ queue \in [All -> Seq(WireReports)] /\ lastReported \in [All -> WireReports]
  BY DEF Live, RelayTypeOK
<1>6. SUFFICES ASSUME NEW f \in Live', due'[f] = "no", NEW n \in DOMAIN line'[f], NEW q, q = Above(line'[f], n),
                      q \notin unseen', Quiet(q)', NEW d \in lastReported'[q].children
               PROVE  Follows(f, n, q, d)'
  BY DEF Following
<1>7. f \in Live /\ n \in DOMAIN line[f] /\ q = Above(line[f], n) /\ q \in Live /\ q \in All
  BY <1>1, <1>2, <1>3, <1>6, OnLine, HasPage
<1>8. CASE f = g
  <2>1. lastReported'[f].path = FramePathOf(f)
    BY <1>1, <1>3, <1>8, ReportFacts, HasPage DEF r
  <2>2. /\ FramePathOf(f)[n] \in 1..Len(windows[q])
        /\ windows[q][FramePathOf(f)[n]] = line[f][n]
    BY <1>7, ReportFacts, HasPage
  <2>3. \A i \in DOMAIN windows[q] : windows[q][i] = d.pathKey => (FramePathOf(f)[n] = i <=> d.pathKey = line[f][n])
    BY <2>2, <1>7, PlacesDiffer
  <2> QED BY <2>1, <2>3, <1>1 DEF Follows
<1>9. CASE f # g /\ q # g
  <2>1. due[f] = "no" /\ lastReported'[f] = lastReported[f] /\ lastReported'[q] = lastReported[q]
        /\ queue'[q] = queue[q] /\ due'[q] = due[q]
    BY <1>1, <1>3, <1>6, <1>7, <1>9
  <2>2. Quiet(q)
    BY <2>1, <1>1, <1>2, <1>6 DEF Quiet
  <2>3. Follows(f, n, q, d)
    BY <2>1, <2>2, <1>1, <1>6, <1>7, FollowingForms
  <2> QED BY <2>1, <2>3, <1>1, <1>2 DEF Follows, Upset, Newcomer, Lost, Moved
<1>10. CASE f # g /\ q = g
  <2>1. due[f] = "no" /\ lastReported'[f] = lastReported[f] /\ lastReported'[g] = r
    BY <1>1, <1>3, <1>6, <1>7, <1>10
  <2>2. \A i \in DOMAIN queue[g] : queue[g][i].children = r.children
    <3>1. TAKE i \in DOMAIN queue[g]
    <3>2. i \in DOMAIN queue'[g] /\ queue'[g][i] = queue[g][i]
      <4>1. CASE queue' = queue
        BY <4>1
      <4>2. CASE queue' = [queue EXCEPT ![g] = Append(queue[g], r)]
        <5>1. queue'[g] = Append(queue[g], r) /\ queue[g] \in Seq(WireReports)
          BY <4>2, <1>3
        <5>2. /\ Append(queue[g], r) \in Seq(WireReports)
              /\ Len(Append(queue[g], r)) = Len(queue[g]) + 1 /\ \A j \in 1..Len(queue[g]) : Append(queue[g], r)[j] = queue[g][j]
          BY <5>1, <1>1, AppendProperties
        <5> HIDE DEF r
        <5> QED BY <5>1, <5>2
      <4> QED BY <4>1, <4>2, <1>1
    <3> QED BY <3>2, <2>1, <1>6, <1>10 DEF Quiet
  <2>3. g \in Known /\ reports[g].children = r.children
    BY <2>1, <1>1, <1>2, <1>6, <1>10 DEF Quiet
  <2>4. lastReported[g].children = r.children
    <3>1. CASE queue[g] = <<>>
      BY <3>1, <2>3, <1>1 DEF Sent
    <3>2. CASE queue[g] # <<>>
      <4>1. queue[g][Len(queue[g])] = lastReported[g]
        BY <3>2, <1>1 DEF Sent
      <4>2. Len(queue[g]) \in DOMAIN queue[g]
        BY <3>2, <1>1, <1>3
      <4> QED BY <4>1, <4>2, <2>2
    <3> QED BY <3>1, <3>2
  <2>5. Quiet(g)
    BY <2>2, <2>3, <2>4 DEF Quiet
  <2>6. r.children = Children(g)
    BY DEF r, Children
  <2>7. d \in lastReported[g].children /\ d \in Children(g)
    BY <1>6, <1>10, <2>1, <2>4, <2>6
  <2>8. Follows(f, n, g, d)
    BY <2>1, <2>5, <2>7, <1>1, <1>6, <1>7, <1>10, FollowingForms
  <2>9. /\ \A e \in Children(g) : e.index \in DOMAIN windows[g] /\ windows[g][e.index] = e.pathKey
    BY <1>1, <1>3, ReportFacts, HasPage, PlacesDiffer
  <2>10. ~Moved(g, d)
    BY <2>7, <2>9 DEF Moved
  <2>11. ~Lost(g)
    BY <2>4, <2>6, <2>9 DEF Lost, ToSet
  <2> QED BY <2>1, <2>8, <2>10, <2>11, <1>1, <1>2, <1>10 DEF Follows, Upset, Newcomer
<1> QED BY <1>8, <1>9, <1>10

\* Whom the worker does not ask anew it has heard nothing new from.
LEMMA FollowingHandle ==
    ASSUME RelayTypeOK, PageInv, Following, NEW g \in All, HandleReport(g)
    PROVE  Following'
<1>1. /\ g \in Live /\ queue[g] # <<>> /\ Head(queue[g]) \in WireReports /\ Head(queue[g]) = queue[g][1]
      /\ queue' = [queue EXCEPT ![g] = Tail(queue[g])]
      /\ Known' = Kept(g) \cup {g}
      /\ reports'[g] = Head(queue[g]) /\ \A h \in Kept(g) \ {g} : reports'[h] = reports[h]
      /\ \/ /\ g \in Known /\ reports[g].children = Head(queue[g]).children /\ Kept(g) = Known
            /\ due' = due /\ unseen' = unseen
         \/ due' = [h \in All |-> IF h \in Live THEN "forced" ELSE due[h]] /\ unseen' = {}
      /\ UNCHANGED <<windows, line, unused, gone, lastReported>>
  BY HandlesReport DEF tree
<1>2. Live' = Live /\ Live \subseteq All /\ queue \in [All -> Seq(WireReports)]
  BY <1>1 DEF Live, RelayTypeOK
<1>3. CASE due' = [h \in All |-> IF h \in Live THEN "forced" ELSE due[h]]
  BY <1>2, <1>3 DEF Following
<1>4. CASE /\ g \in Known /\ reports[g].children = Head(queue[g]).children /\ Kept(g) = Known
           /\ due' = due /\ unseen' = unseen
  <2>1. Known' = Known
    BY <1>1, <1>4
  <2>2. SUFFICES ASSUME NEW f \in Live', due'[f] = "no", NEW n \in DOMAIN line'[f], NEW q, q = Above(line'[f], n),
                        q \notin unseen', Quiet(q)', NEW d \in lastReported'[q].children
                 PROVE  Follows(f, n, q, d)'
    BY DEF Following
  <2>3. Quiet(q)
    <3>1. CASE q # g
      <4>1. queue'[q] = queue[q] \/ q \notin All
        BY <1>1, <1>2, <3>1
      <4>2. q \in All
        BY <1>1, <1>2, <2>2, OnLine, HasPage
      <4> QED BY <4>1, <4>2, <3>1, <1>1, <1>4, <2>1, <2>2 DEF Quiet
    <3>2. CASE q = g
      <4>1. queue'[g] = Tail(queue[g]) /\ queue[g] \in Seq(WireReports)
        BY <1>1, <1>2
      <4>2. /\ Tail(queue[g]) \in Seq(WireReports) /\ Len(Tail(queue[g])) = Len(queue[g]) - 1 /\ Len(queue[g]) \in Nat
            /\ \A i \in 1..(Len(queue[g]) - 1) : Tail(queue[g])[i] = queue[g][i + 1]
        BY <4>1, <1>1, TypedReport
      <4>3. reports[g].children = lastReported[g].children /\ queue[g][1].children = lastReported[g].children
        BY <1>1, <1>4, <2>2, <3>2 DEF Quiet
      <4>4. ASSUME NEW i \in DOMAIN queue[g] PROVE queue[g][i].children = lastReported[g].children
        <5>1. CASE i = 1
          BY <5>1, <4>3
        <5>2. CASE i # 1
          <6>1. i - 1 \in 1..(Len(queue[g]) - 1) /\ (i - 1) + 1 = i
            BY <5>2, <4>1
          <6>2. i - 1 \in DOMAIN queue'[g] /\ queue'[g][i - 1] = queue[g][i]
            BY <6>1, <4>1, <4>2
          <6> QED BY <6>2, <1>1, <2>2, <3>2 DEF Quiet
        <5> QED BY <5>1, <5>2
      <4> QED BY <4>3, <4>4, <1>4, <3>2 DEF Quiet
    <3> QED BY <3>1, <3>2
  <2>4. Follows(f, n, q, d)
    BY <1>1, <1>2, <1>4, <2>2, <2>3, FollowingForms
  <2> QED BY <2>1, <2>4, <1>1, <1>4 DEF Follows, Upset, Newcomer, Lost, Moved
<1> QED BY <1>1, <1>3, <1>4

\* Every step keeps Following.
LEMMA FollowingStep ==
    ASSUME RelayTypeOK, PageInv, RelayTypeOK', PageInv', Sent, Told, Following, [RelayNext]_relayVars
    PROVE  Following'
<1>1. ASSUME NEW p \in All, NEW x \in Iframes, Inserts(p, x) PROVE Following'
  BY <1>1, FollowingInsert
<1>2. ASSUME NEW f \in Iframes, Removes(f) PROVE Following'
  BY <1>2, FollowingRemove
<1>3. ASSUME NEW y \in Iframes, Scrolls(y) PROVE Following'
  <2>1. /\ due' = IF due[Up(y)] = "no" THEN [due EXCEPT ![Up(y)] = "plain"] ELSE due
        /\ UNCHANGED <<windows, line, unused, gone, unseen, lastReported, queue, reports>>
    BY <1>3 DEF Scrolls, Schedules, worker
  <2>2. Live' = Live /\ Live \subseteq All /\ due \in [All -> {"no", "plain", "forced"}]
    BY <2>1 DEF Live, RelayTypeOK
  <2>3. Known' = Known /\ \A q : Quiet(q)' = Quiet(q)
    BY <2>1 DEF Known, Quiet
  <2>4. \A g \in Live : due'[g] = "no" => due[g] = "no"
    BY <2>1, <2>2
  <2>5. SUFFICES ASSUME NEW f \in Live', due'[f] = "no", NEW n \in DOMAIN line'[f], NEW q, q = Above(line'[f], n),
                        q \notin unseen', Quiet(q)', NEW d \in lastReported'[q].children
                 PROVE  Follows(f, n, q, d)'
    BY DEF Following
  <2>6. Follows(f, n, q, d)
    BY <2>1, <2>2, <2>3, <2>4, <2>5, FollowingForms
  <2>7. q \in Live
    BY <2>1, <2>2, <2>5, OnLine, HasPage
  <2> QED BY <2>1, <2>3, <2>4, <2>6, <2>7 DEF Follows, Upset, Newcomer, Lost, Moved
<1>4. ASSUME NEW f \in All, Collect(f) PROVE Following'
  BY <1>4, FollowingCollect
<1>5. ASSUME NEW f \in All, HandleReport(f) PROVE Following'
  BY <1>5, FollowingHandle
<1>6. CASE ReportsAreLost
  <2>1. /\ due' = [g \in All |-> IF g \in Live THEN "forced" ELSE due[g]]
        /\ UNCHANGED <<unused, gone>>
    BY <1>6, Loses DEF tree
  <2>2. Live' = Live /\ Live \subseteq All
    BY <2>1 DEF Live
  <2> QED BY <2>1, <2>2 DEF Following
<1>7. CASE UNCHANGED relayVars
  <2>1. /\ UNCHANGED <<windows, line, unused, gone, unseen, lastReported, due, queue, reports>>
    BY <1>7 DEF relayVars, tree, collector, worker
  <2>2. Live' = Live /\ Known' = Known
    BY <2>1 DEF Live, Known
  <2> QED BY <2>1, <2>2 DEF Following, Quiet, Follows, Upset, Newcomer, Lost, Moved
<1> QED BY <1>1, <1>2, <1>3, <1>4, <1>5, <1>6, <1>7 DEF RelayNext

-----------------------------------------------------------------------------
(* What is left of a frame that is gone will be dropped *)

\* The way a report of a frame that is gone will be dropped, its parts named.
LEMMA DeadForms ==
    ASSUME DeadInv, NEW g \in (gone \cap Known) \ strays
    PROVE  \E n \in DOMAIN line[g] : \E q, y, path :
              /\ q = Above(line[g], n) /\ y = line[g][n] /\ path = reports[g].path
              /\ y \in gone /\ q \in Live /\ Pending(q, y, path)
BY DEF DeadInv

\* It stays that way while the document above has sent and done nothing.
LEMMA PendingKept ==
    ASSUME NEW q, NEW y, NEW path, Pending(q, y, path), queue'[q] = queue[q],
           due[q] # "no" => due'[q] # "no",
           q \in Known => q \in Known' /\ reports'[q] = reports[q]
    PROVE  Pending(q, y, path)'
BY DEF Pending, Covers, Lacks

\* On its own line and on that of a frame below it a frame has one parent.
LEMMA UpOnLine ==
    ASSUME RelayTypeOK, Lines, NEW g \in All, NEW n \in DOMAIN line[g]
    PROVE  Up(line[g][n]) = Above(line[g], n)
<1> DEFINE s == SubSeq(line[g], 1, n)
<1>1. line[g] \in Seq(Iframes) /\ n \in 1..Len(line[g])
  BY DEF RelayTypeOK
<1>2. Len(s) = n /\ \A j \in 1..n : s[j] = line[g][j]
  BY <1>1, SubSeqProperties
<1>3. line[line[g][n]] = s
  BY DEF Lines
<1> HIDE DEF s
<1>4. n # 1 => n - 1 \in 1..n
  BY <1>1
<1> QED BY <1>2, <1>3, <1>4 DEF Up, Above

\* What is taken out and is no stray was told of last, or will be taken back
\* by what its document has to collect.
LEMMA DeadRemove ==
    ASSUME RelayTypeOK, PageInv, Sent, DeadInv, NEW y0 \in Iframes, Removes(y0)
    PROVE  DeadInv'
<1> DEFINE p == Up(y0)
<1>1. /\ p \in Live /\ p \notin Below(y0) /\ Live' = Live \ Below(y0) /\ line' = line
      /\ gone' = gone \cup Below(y0)
  BY RemovesPage
<1>2. /\ UNCHANGED <<lastReported, reports>>
      /\ strays' = strays \cup {g \in Below(y0) \cap Known :
                       p \notin Known \/ \A path \in Shown(p, y0) : ~IsPrefix(path, reports[g].path)}
      /\ due' = [g \in All |-> IF g \in Below(y0) THEN "no"
                               ELSE IF g = p /\ due[p] = "no" THEN "plain" ELSE due[g]]
      /\ queue' = [g \in All |-> IF g \in Below(y0) THEN <<>> ELSE queue[g]]
  BY DEF Removes, worker
<1> HIDE DEF p
<1>3. Known' = Known /\ Live \subseteq All /\ gone \subseteq Iframes /\ Iframes \subseteq All
      /\ Below(y0) \subseteq Iframes
  BY <1>2 DEF Known, Live, RelayTypeOK, Below, All
<1>4. Lines
  BY DEF PageInv
<1> SUFFICES ASSUME NEW g \in (gone' \cap Known') \ strays'
             PROVE  \E n \in DOMAIN line'[g] : /\ line'[g][n] \in gone' /\ Above(line'[g], n) \in Live'
                                               /\ Pending(Above(line[g], n), line[g][n], reports[g].path)'
  BY DEF DeadInv
<1>5. g \in All /\ line[g] \in Seq(Iframes) /\ reports'[g] = reports[g] /\ g \in Iframes
  BY <1>1, <1>2, <1>3 DEF RelayTypeOK
<1>6. CASE g \in Below(y0)
  <2>1. PICK n \in DOMAIN line[g] : line[g][n] = y0
    BY <1>6 DEF Below, ToSet
  <2>2. Above(line[g], n) = p
    BY <2>1, <1>4, <1>5, UpOnLine DEF p
  <2>3. PICK d \in lastReported[p].children : d.pathKey = y0 /\ IsPrefix(Append(lastReported[p].path, d.index), reports[g].path)
    BY <1>2, <1>3, <1>6 DEF Shown
  <2>4. p \in Known /\ Covers(lastReported[p], y0, reports[g].path)
    BY <1>2, <1>3, <1>6, <2>3 DEF Covers
  <2>5. p \in Live' /\ y0 \in gone' /\ due'[p] # "no" /\ queue'[p] = queue[p]
    <3>1. y0 \in Below(y0)
      BY RemovesPage
    <3> QED BY <3>1, <1>1, <1>2, <1>3 DEF RelayTypeOK
  <2>6. CASE queue[p] = <<>>
    <3>1. reports'[p] = lastReported[p] /\ p \in Known'
      BY <2>4, <2>6, <1>1, <1>2, <1>3 DEF Sent
    <3>2. Covers(reports'[p], y0, reports'[g].path)
      BY <3>1, <2>4, <1>5
    <3> QED BY <1>1, <2>1, <2>2, <2>5, <2>6, <3>1, <3>2 DEF Pending, Covers
  <2>7. CASE queue[p] # <<>>
    <3>1. queue[p][Len(queue[p])] = lastReported[p] /\ queue[p] \in Seq(WireReports)
      BY <2>7, <1>1, <1>3 DEF Sent, RelayTypeOK
    <3>2. Len(queue[p]) \in DOMAIN queue[p]
      BY <2>7, <3>1
    <3>3. Covers(queue'[p][Len(queue'[p])], y0, reports'[g].path) /\ Len(queue'[p]) \in DOMAIN queue'[p]
      BY <3>1, <3>2, <2>4, <2>5, <1>5
    <3> QED BY <1>1, <2>1, <2>2, <2>5, <3>3 DEF Pending, Covers
  <2> QED BY <2>6, <2>7
<1>7. CASE g \notin Below(y0)
  <2>1. g \in (gone \cap Known) \ strays
    BY <1>1, <1>2, <1>3, <1>7
  <2>2. PICK n \in DOMAIN line[g] : \E q, y, path :
              /\ q = Above(line[g], n) /\ y = line[g][n] /\ path = reports[g].path
              /\ y \in gone /\ q \in Live /\ Pending(q, y, path)
    BY <2>1, DeadForms
  <2>3. PICK q, y, path : /\ q = Above(line[g], n) /\ y = line[g][n] /\ path = reports[g].path
                          /\ y \in gone /\ q \in Live /\ Pending(q, y, path)
    BY <2>2
  <2>4. ASSUME q \in Below(y0) PROVE FALSE
    <3>1. q # Top /\ n # 1 /\ q = line[g][n - 1] /\ n \in 1..Len(line[g])
      BY <2>3, <2>4, <1>5, FrameAssumption DEF Below, Above
    <3>2. n - 1 \in DOMAIN line[g] /\ y0 \in ToSet(line[line[g][n - 1]])
      BY <3>1, <2>4, <1>5 DEF Below
    <3>3. y0 \in ToSet(line[g])
      BY <3>2, <1>4, <1>5, BelowOnLine
    <3> QED BY <3>3, <1>5, <1>7 DEF Below
  <2>5. queue'[q] = queue[q] /\ (due[q] # "no" => due'[q] # "no")
    BY <2>3, <2>4, <1>2, <1>3
  <2>6. Pending(q, y, path)'
    BY <2>3, <2>5, <1>2, <1>3, PendingKept
  <2> QED BY <2>3, <2>4, <2>6, <1>1, <1>2
<1> QED BY <1>6, <1>7

\* What a document collects has nothing that is gone.
LEMMA DeadCollect ==
    ASSUME RelayTypeOK, PageInv, Sent, DeadInv, NEW f \in All, Collect(f)
    PROVE  DeadInv'
<1> DEFINE r == BuildFrameReport(f)
<1>1. /\ f \in Live /\ r \in WireReports /\ due' = [due EXCEPT ![f] = "no"]
      /\ \/ lastReported[f] = r /\ queue' = queue
         \/ queue' = [queue EXCEPT ![f] = Append(queue[f], r)]
      /\ UNCHANGED <<line, unused, gone, strays, reports>>
  BY Collects DEF tree, worker
<1>2. Known' = Known /\ Live' = Live /\ Live \subseteq All /\ queue \in [All -> Seq(WireReports)]
      /\ due \in [All -> {"no", "plain", "forced"}]
  BY <1>1 DEF Known, Live, RelayTypeOK
<1>3. \A y \in gone : Lacks(r, y)
  <2>1. TAKE y \in gone
  <2>2. \A d \in r.children : d.pathKey \in Live
    <3>1. \A d \in Children(f) : d.index \in DOMAIN windows[f] /\ windows[f][d.index] = d.pathKey
      BY <1>1, ReportFacts, HasPage, PlacesDiffer
    <3> QED BY <3>1, <1>1, HeldBy DEF Children
  <2> QED BY <2>2 DEF Lacks, Live
<1> HIDE DEF r
<1> SUFFICES ASSUME NEW g \in (gone' \cap Known') \ strays'
             PROVE  \E n \in DOMAIN line'[g] : /\ line'[g][n] \in gone' /\ Above(line'[g], n) \in Live'
                                               /\ Pending(Above(line[g], n), line[g][n], reports[g].path)'
  BY DEF DeadInv
<1>4. PICK n \in DOMAIN line[g] : \E q, y, path :
              /\ q = Above(line[g], n) /\ y = line[g][n] /\ path = reports[g].path
              /\ y \in gone /\ q \in Live /\ Pending(q, y, path)
  BY <1>1, <1>2, DeadForms
<1>5. PICK q, y, path : /\ q = Above(line[g], n) /\ y = line[g][n] /\ path = reports[g].path
                        /\ y \in gone /\ q \in Live /\ Pending(q, y, path)
  BY <1>4
<1>6. SUFFICES Pending(q, y, path)'
  BY <1>1, <1>2, <1>5
<1>7. CASE q # f
  <2>1. queue'[q] = queue[q] /\ due'[q] = due[q]
    BY <1>1, <1>2, <1>5, <1>7
  <2> QED BY <2>1, <1>1, <1>2, <1>5, PendingKept
<1>8. CASE q = f
  <2>1. queue[f] \in Seq(WireReports) /\ Len(queue[f]) \in Nat /\ DOMAIN queue[f] = 1..Len(queue[f])
    BY <1>1, <1>2
  <2>2. Append(queue[f], r) \in Seq(WireReports) /\ Len(Append(queue[f], r)) = Len(queue[f]) + 1
        /\ Append(queue[f], r)[Len(queue[f]) + 1] = r
        /\ \A j \in 1..Len(queue[f]) : Append(queue[f], r)[j] = queue[f][j]
    BY <2>1, <1>1, AppendProperties
  <2>3. /\ DOMAIN queue[f] \subseteq DOMAIN queue'[f]
        /\ \A j \in DOMAIN queue[f] : queue'[f][j] = queue[f][j]
    BY <1>1, <1>2, <2>1, <2>2
  <2>4. ASSUME Covers(lastReported[f], y, path)
        PROVE  /\ queue'[f] = Append(queue[f], r)
               /\ Len(queue[f]) + 1 \in DOMAIN queue'[f] /\ Len(queue'[f]) = Len(queue[f]) + 1
               /\ queue'[f][Len(queue[f]) + 1] = r /\ Lacks(r, y)
    <3>1. Lacks(r, y) /\ lastReported[f] # r
      BY <1>3, <1>5, <2>4 DEF Covers, Lacks
    <3>2. queue'[f] = Append(queue[f], r)
      BY <3>1, <1>1, <1>2
    <3> QED BY <3>1, <3>2, <2>1, <2>2
  <2>5. CASE f \in Known /\ Covers(reports[f], y, path) /\ queue[f] = <<>>
    <3>1. Covers(lastReported[f], y, path)
      BY <2>5, <1>1 DEF Sent
    <3>2. queue'[f] # <<>> /\ Lacks(queue'[f][1], y)
      <4>1. Len(queue[f]) = 0
        BY <2>5
      <4>2. Len(queue'[f]) = 1 /\ queue'[f][1] = r
        BY <4>1, <3>1, <2>4
      <4> QED BY <4>2, <3>1, <2>4
    <3> QED BY <3>2, <2>5, <1>1, <1>2, <1>8 DEF Pending, Covers, Lacks
  <2>6. CASE f \in Known /\ Covers(reports[f], y, path) /\ queue[f] # <<>> /\ Lacks(queue[f][1], y)
    <3>1. 1 \in DOMAIN queue[f]
      BY <2>1, <2>6
    <3>2. queue'[f] # <<>> /\ queue'[f][1] = queue[f][1]
      BY <3>1, <2>3
    <3> QED BY <3>2, <2>6, <1>1, <1>2, <1>8 DEF Pending, Covers, Lacks
  <2>7. ASSUME NEW i \in DOMAIN queue[f], Covers(queue[f][i], y, path),
               IF i = Len(queue[f]) THEN due[f] # "no" ELSE Lacks(queue[f][i + 1], y)
        PROVE  Pending(f, y, path)'
    <3>1. i + 1 \in DOMAIN queue'[f] /\ Lacks(queue'[f][i + 1], y)
      <4>1. CASE i = Len(queue[f])
        <5>1. queue[f] # <<>>
          BY <2>1, <2>7
        <5>2. Covers(lastReported[f], y, path)
          BY <5>1, <4>1, <2>7, <1>1 DEF Sent
        <5> QED BY <5>2, <4>1, <2>4
      <4>2. CASE i # Len(queue[f])
        <5>1. i + 1 \in DOMAIN queue[f]
          BY <4>2, <2>1
        <5> QED BY <5>1, <4>2, <2>3, <2>7
      <4> QED BY <4>1, <4>2
    <3>2. queue'[f] \in Seq(WireReports)
      BY <1>1, <1>2, <2>1, <2>2
    <3>3. i \in DOMAIN queue'[f] /\ queue'[f][i] = queue[f][i] /\ i # Len(queue'[f])
      BY <3>1, <3>2, <2>1, <2>3
    <3> QED BY <3>1, <3>3, <2>7 DEF Pending, Covers, Lacks
  <2> QED BY <2>5, <2>6, <2>7, <1>5, <1>8 DEF Pending
<1> QED BY <1>7, <1>8

\* The report that lacks what the one before it had drops the branch.
LEMMA DeadHandle ==
    ASSUME RelayTypeOK, PageInv, DeadInv, NEW f \in All, HandleReport(f)
    PROVE  DeadInv'
<1>1. /\ f \in Live /\ queue[f] # <<>> /\ Head(queue[f]) \in WireReports /\ Head(queue[f]) = queue[f][1]
      /\ queue' = [queue EXCEPT ![f] = Tail(queue[f])]
      /\ Known' = Kept(f) \cup {f} /\ Kept(f) \subseteq Known
      /\ reports'[f] = Head(queue[f]) /\ \A g \in Kept(f) \ {f} : reports'[g] = reports[g]
      /\ \/ due' = due
         \/ due' = [h \in All |-> IF h \in Live THEN "forced" ELSE due[h]]
      /\ UNCHANGED <<line, unused, gone, strays>>
  BY HandlesReport DEF tree
<1>2. Live' = Live /\ Live \subseteq All /\ queue \in [All -> Seq(WireReports)] /\ Live \cap gone = {}
  BY <1>1 DEF Live, RelayTypeOK
<1> SUFFICES ASSUME NEW g \in (gone' \cap Known') \ strays'
             PROVE  \E n \in DOMAIN line'[g] : /\ line'[g][n] \in gone' /\ Above(line'[g], n) \in Live'
                                               /\ Pending(Above(line[g], n), line[g][n], reports[g].path)'
  BY DEF DeadInv
<1>3. g # f /\ g \in Kept(f) /\ g \in (gone \cap Known) \ strays /\ reports'[g] = reports[g]
  BY <1>1, <1>2
<1>4. PICK n \in DOMAIN line[g] : \E q, y, path :
              /\ q = Above(line[g], n) /\ y = line[g][n] /\ path = reports[g].path
              /\ y \in gone /\ q \in Live /\ Pending(q, y, path)
  BY <1>3, DeadForms
<1>5. PICK q, y, path : /\ q = Above(line[g], n) /\ y = line[g][n] /\ path = reports[g].path
                        /\ y \in gone /\ q \in Live /\ Pending(q, y, path)
  BY <1>4
<1>6. SUFFICES Pending(q, y, path)'
  BY <1>1, <1>2, <1>3, <1>5
<1>7. due[q] # "no" => due'[q] # "no"
  BY <1>1, <1>2, <1>5
<1>8. \A D \in DeadPrefixes(f, Head(queue[f])) : ~IsPrefix(D, path) /\ D \in Seq(Nat)
  <2>1. TAKE D \in DeadPrefixes(f, Head(queue[f]))
  <2>2. ~IsPrefix(D, path)
    BY <1>3, <1>5 DEF Kept
  <2>3. f \in Known /\ reports[f] \in WireReports
    BY DEF DeadPrefixes, RelayTypeOK
  <2>4. PICK c \in reports[f].children : D = Append(reports[f].path, c.index)
    BY <2>3 DEF DeadPrefixes
  <2>5. D \in Seq(Nat)
    BY <2>3, <2>4 DEF WireReports
  <2> QED BY <2>2, <2>5
<1>9. CASE q # f
  <2>1. queue'[q] = queue[q]
    BY <1>1, <1>2, <1>5, <1>9
  <2>2. CASE q \in Known /\ Covers(reports[q], y, path)
    <3>1. PICK d \in reports[q].children : IsPrefix(Append(reports[q].path, d.index), path)
      BY <2>2 DEF Covers
    <3>2. reports[q] \in WireReports /\ reports[g] \in WireReports
      BY <2>2, <1>3 DEF RelayTypeOK
    <3>3. reports[q].path \in Seq(Nat) /\ d.index \in Nat /\ path \in Seq(Nat) /\ Append(reports[q].path, d.index) \in Seq(Nat)
      BY <3>1, <3>2, <1>5 DEF WireReports
    <3>4. ASSUME NEW D \in DeadPrefixes(f, Head(queue[f])), IsPrefix(D, reports[q].path) PROVE FALSE
      <4>1. D \in Seq(Nat) /\ ~IsPrefix(D, path)
        BY <1>8
      <4>2. IsPrefix(D, Append(reports[q].path, d.index))
        BY <3>3, <3>4, <4>1, PrefixOfLonger
      <4>3. IsPrefix(D, path)
        BY <3>1, <3>3, <4>1, <4>2, PrefixOfPrefix
      <4> QED BY <4>1, <4>3
    <3>5. q \in Kept(f)
      BY <3>4, <2>2 DEF Kept
    <3> QED BY <3>5, <2>1, <1>1, <1>5, <1>7, <1>9, PendingKept
  <2>3. CASE ~(q \in Known /\ Covers(reports[q], y, path))
    <3>1. \E i \in DOMAIN queue[q] :
        /\ Covers(queue[q][i], y, path)
        /\ IF i = Len(queue[q]) THEN due[q] # "no" ELSE Lacks(queue[q][i + 1], y)
      BY <2>3, <1>5 DEF Pending
    <3> QED BY <3>1, <2>1, <1>7 DEF Pending, Covers, Lacks
  <2> QED BY <2>2, <2>3
<1>10. CASE q = f
  <2>1. queue[f] \in Seq(WireReports) /\ Len(queue[f]) \in Nat /\ DOMAIN queue[f] = 1..Len(queue[f])
        /\ queue'[f] = Tail(queue[f]) /\ Len(queue[f]) >= 1
        /\ Tail(queue[f]) \in Seq(WireReports) /\ Len(Tail(queue[f])) = Len(queue[f]) - 1
        /\ \A i \in 1..(Len(queue[f]) - 1) : Tail(queue[f])[i] = queue[f][i + 1]
    BY <1>1, <1>2, TypedReport
  <2>2. CASE f \in Known /\ Covers(reports[f], y, path) /\ Lacks(queue[f][1], y)
    <3>1. PICK d \in reports[f].children : d.pathKey = y /\ IsPrefix(Append(reports[f].path, d.index), path)
      BY <2>2 DEF Covers
    <3>2. \A e \in Head(queue[f]).children : e.pathKey # d.pathKey
      BY <2>2, <3>1, <1>1 DEF Lacks
    <3>3. Append(reports[f].path, d.index) \in DeadPrefixes(f, Head(queue[f]))
      BY <2>2, <3>1, <3>2 DEF DeadPrefixes
    <3> QED BY <3>1, <3>3, <1>8
  <2>3. ASSUME NEW i \in DOMAIN queue[f], Covers(queue[f][i], y, path),
               IF i = Len(queue[f]) THEN due[f] # "no" ELSE Lacks(queue[f][i + 1], y)
        PROVE  Pending(f, y, path)'
    <3>1. CASE i = 1
      <4>1. f \in Known' /\ Covers(reports'[f], y, path)
        BY <1>1, <2>3, <3>1
      <4>2. CASE i = Len(queue[f])
        <5>1. Len(queue[f]) = 1
          BY <3>1, <4>2
        <5>2. queue'[f] = <<>>
          BY <5>1, <2>1, <1>1, TailLast
        <5>3. due'[f] # "no"
          BY <2>3, <4>2, <1>7, <1>10
        <5> QED BY <5>2, <5>3, <4>1 DEF Pending, Covers
      <4>3. CASE i # Len(queue[f])
        <5>0. queue'[f] # <<>>
          BY <2>1, <3>1, <4>3, <1>1, TailLast
        <5>1. queue'[f] # <<>> /\ 1 \in 1..(Len(queue[f]) - 1) /\ 1 + 1 = i + 1
          BY <5>0, <2>1, <3>1, <4>3
        <5>2. queue'[f][1] = queue[f][i + 1]
          BY <5>1, <2>1, <3>1
        <5>3. Lacks(queue'[f][1], y)
          BY <5>2, <4>3, <2>3
        <5> QED BY <5>1, <5>3, <4>1 DEF Pending, Covers, Lacks
      <4> QED BY <4>2, <4>3
    <3>2. CASE i # 1
      <4>1. i - 1 \in 1..(Len(queue[f]) - 1) /\ (i - 1) + 1 = i
        BY <2>1, <3>2
      <4>2. i - 1 \in DOMAIN queue'[f] /\ Covers(queue'[f][i - 1], y, path)
        <5>1. queue'[f][i - 1] = queue[f][i]
          BY <4>1, <2>1
        <5> QED BY <5>1, <4>1, <2>1, <2>3
      <4>3. IF i - 1 = Len(queue'[f]) THEN due'[f] # "no" ELSE Lacks(queue'[f][(i - 1) + 1], y)
        <5>1. CASE i = Len(queue[f])
          BY <5>1, <2>1, <2>3, <1>7, <1>10
        <5>2. CASE i # Len(queue[f])
          <6>1. i \in 1..(Len(queue[f]) - 1)
            BY <2>1, <5>2
          <6>2. queue'[f][i] = queue[f][i + 1]
            BY <6>1, <2>1
          <6>3. Lacks(queue'[f][i], y) /\ i - 1 # Len(queue'[f])
            BY <6>2, <5>2, <2>1, <2>3
          <6> QED BY <6>3, <4>1
        <5> QED BY <5>1, <5>2
      <4> QED BY <4>2, <4>3 DEF Pending, Covers, Lacks
    <3> QED BY <3>1, <3>2
  <2> QED BY <2>2, <2>3, <1>1, <1>5, <1>10 DEF Pending
<1> QED BY <1>9, <1>10

\* Every step keeps DeadInv.
LEMMA DeadStep ==
    ASSUME RelayTypeOK, PageInv, Sent, DeadInv, [RelayNext]_relayVars
    PROVE  DeadInv'
\* A step that takes no frame out and leaves what is on its way.
<1>0. ASSUME UNCHANGED <<gone, strays, queue, reports>>, Live \subseteq Live',
             \A g \in gone : line'[g] = line[g],
             \A q \in Live : due[q] # "no" => due'[q] # "no"
      PROVE  DeadInv'
  <2>1. Known' = Known
    BY <1>0 DEF Known
  <2> SUFFICES ASSUME NEW g \in (gone' \cap Known') \ strays'
               PROVE  \E n \in DOMAIN line'[g] : /\ line'[g][n] \in gone' /\ Above(line'[g], n) \in Live'
                                                 /\ Pending(Above(line[g], n), line[g][n], reports[g].path)'
    BY DEF DeadInv
  <2>4. PICK n \in DOMAIN line[g] : \E q, y, path :
              /\ q = Above(line[g], n) /\ y = line[g][n] /\ path = reports[g].path
              /\ y \in gone /\ q \in Live /\ Pending(q, y, path)
    BY <1>0, <2>1, DeadForms
  <2>5. PICK q, y, path : /\ q = Above(line[g], n) /\ y = line[g][n] /\ path = reports[g].path
                          /\ y \in gone /\ q \in Live /\ Pending(q, y, path)
    BY <2>4
  <2>6. Pending(q, y, path)'
    BY <2>1, <2>5, <1>0, PendingKept
  <2> QED BY <2>5, <2>6, <1>0
<1>1. ASSUME NEW p \in All, NEW x \in Iframes, Inserts(p, x) PROVE DeadInv'
  <2>1. /\ x \notin gone /\ Live' = Live \cup {x} /\ \A g \in All \ {x} : line'[g] = line[g]
    BY <1>1, InsertsPage
  <2>2. /\ due' = [due EXCEPT ![p] = IF due[p] = "no" THEN "plain" ELSE due[p], ![x] = "forced"]
        /\ UNCHANGED <<gone, strays, queue, reports>>
    BY <1>1 DEF Inserts, worker
  <2>3. \A q \in Live : due[q] # "no" => due'[q] # "no"
    BY <2>2 DEF RelayTypeOK, Live
  <2>4. gone \subseteq All
    BY DEF RelayTypeOK, All
  <2> QED BY <2>1, <2>2, <2>3, <2>4, <1>0
<1>2. ASSUME NEW f \in Iframes, Removes(f) PROVE DeadInv'
  BY <1>2, DeadRemove
<1>3. ASSUME NEW y \in Iframes, Scrolls(y) PROVE DeadInv'
  <2>1. /\ due' = IF due[Up(y)] = "no" THEN [due EXCEPT ![Up(y)] = "plain"] ELSE due
        /\ UNCHANGED <<line, unused, gone, strays, queue, reports>>
    BY <1>3 DEF Scrolls, Schedules, worker
  <2>2. Live' = Live /\ \A q \in Live : due[q] # "no" => due'[q] # "no"
    BY <2>1 DEF Live, RelayTypeOK
  <2> QED BY <2>1, <2>2, <1>0
<1>4. ASSUME NEW f \in All, Collect(f) PROVE DeadInv'
  BY <1>4, DeadCollect
<1>5. ASSUME NEW f \in All, HandleReport(f) PROVE DeadInv'
  BY <1>5, DeadHandle
<1>6. CASE ReportsAreLost
  BY <1>6, Loses DEF DeadInv
<1>7. CASE UNCHANGED relayVars
  <2>1. UNCHANGED <<line, unused, gone, strays, queue, reports, due>>
    BY <1>7 DEF relayVars, tree, collector, worker
  <2>2. Live' = Live
    BY <2>1 DEF Live
  <2> QED BY <2>1, <2>2, <1>0
<1> QED BY <1>1, <1>2, <1>3, <1>4, <1>5, <1>6, <1>7 DEF RelayNext

-----------------------------------------------------------------------------
(* At first *)

\* The sequences up to a length.
LEMMA ShortSequences ==
    ASSUME NEW S, NEW m \in Nat
    PROVE  SeqOf(S, m) = {s \in Seq(S) : Len(s) <= m}
<1>1. ASSUME NEW s \in SeqOf(S, m) PROVE s \in Seq(S) /\ Len(s) <= m
  <2>1. PICK k \in 0..m : s \in [1..k -> S]
    BY DEF SeqOf
  <2>2. k \in Nat
    BY <2>1
  <2> QED BY <2>1, <2>2
<1>2. ASSUME NEW s \in Seq(S), Len(s) <= m PROVE s \in SeqOf(S, m)
  <2>1. Len(s) \in 0..m /\ s \in [1..Len(s) -> S]
    BY <1>2
  <2> QED BY <2>1 DEF SeqOf
<1> QED BY <1>1, <1>2

\* The line found for a frame ends with it.
LEMMA LineFound ==
    ASSUME NEW w, NEW f
    PROVE  /\ LineOf(w, f) \in Seq(Iframes) /\ Len(LineOf(w, f)) <= MaxDepth
           /\ LineOf(w, f) # <<>> => LineOf(w, f)[Len(LineOf(w, f))] = f
<1> DEFINE lines == {s \in SeqOf(Iframes, MaxDepth) :
                     /\ s # <<>> /\ s[Len(s)] = f
                     /\ \A n \in DOMAIN s : s[n] \in ToSet(w[Above(s, n)])}
<1>1. MaxDepth \in Nat
  BY FrameAssumption
<1>2. \A s \in lines : s \in Seq(Iframes) /\ Len(s) <= MaxDepth /\ s[Len(s)] = f
  BY <1>1, ShortSequences
<1>3. LineOf(w, f) = IF lines = {} THEN <<>> ELSE CHOOSE s \in lines : TRUE
  BY DEF LineOf
<1> HIDE DEF lines
<1>4. CASE lines = {}
  <2>1. LineOf(w, f) = <<>> /\ Len(<<>>) = 0 /\ <<>> \in Seq(Iframes)
    BY <1>3, <1>4
  <2> QED BY <2>1, <1>1
<1>5. CASE lines # {}
  <2>1. LineOf(w, f) \in lines
    BY <1>3, <1>5
  <2> QED BY <2>1, <1>2
<1> QED BY <1>4, <1>5

\* The page is one at first.
LEMMA InitialPage ==
    ASSUME RelayInit
    PROVE  Page /\ unused = {f \in Iframes : line[f] = <<>>} /\ gone = {} /\ Lines
<1>1. /\ windows \in [All -> SeqOf(Iframes, MaxSiblings)]
      /\ line = [f \in All |-> LineOf(windows, f)]
      /\ unused = {f \in Iframes : line[f] = <<>>} /\ gone = {}
      /\ IsPage(windows, line, Live)
      /\ hidden \in SUBSET (Iframes \ unused)
  BY DEF RelayInit
<1>2. windows \in [All -> Seq(Iframes)]
  BY <1>1, ShortSequences, FrameAssumption
<1>3. line \in [All -> Seq(Iframes)] /\ \A f \in All : Len(line[f]) <= MaxDepth
  BY <1>1, LineFound
<1>4. Page
  BY <1>1, <1>2, <1>3 DEF Page
<1>5. ASSUME NEW f \in All, NEW n \in DOMAIN line[f]
      PROVE  line[f][n] \notin unused /\ line[line[f][n]] = SubSeq(line[f], 1, n)
  <2>1. f \in Live
    <3>1. line[f] # <<>>
      OBVIOUS
    <3> QED BY <3>1, <1>1 DEF Live
  <2> QED BY <2>1, <1>4, OnLine DEF Live
<1> QED BY <1>1, <1>3, <1>4, <1>5 DEF Lines

\* The invariant holds at first.
LEMMA RelayStarts ==
    ASSUME RelayInit
    PROVE  RelayTypeOK /\ RelayInv
<1>1. /\ \A f \in unused : windows[f] = <<>>
      /\ strays = {} /\ unseen = {}
      /\ due = [f \in All |-> "no"]
      /\ lastReported = [f \in All |-> IF f \in Live THEN BuildFrameReport(f) ELSE NoReport]
      /\ queue = [f \in All |-> <<>>]
      /\ reports = [f \in Live |-> lastReported[f]]
  BY DEF RelayInit
<1>2. Page /\ unused = {f \in Iframes : line[f] = <<>>} /\ gone = {} /\ Lines
  BY InitialPage
<1>3. Known = Live /\ Live \subseteq All /\ Live = All \ unused
  BY <1>1, <1>2 DEF Known, Live
<1>4. \A f \in Live : lastReported[f] = BuildFrameReport(f) /\ reports[f] = BuildFrameReport(f)
  BY <1>1, <1>3
<1>5. \A f \in Live : BuildFrameReport(f) \in WireReports
  BY <1>2, ReportFacts
<1>6. NoReport \in WireReports
  BY DEF NoReport, WireReports
<1>7. RelayTypeOK
  <2>1. lastReported \in [All -> WireReports]
    BY <1>1, <1>5, <1>6
  <2>2. queue \in [All -> Seq(WireReports)] /\ due \in [All -> {"no", "plain", "forced"}]
    BY <1>1
  <2> QED BY <1>1, <1>2, <1>3, <1>4, <1>5, <2>1, <2>2 DEF RelayTypeOK, Page
<1>8. New /\ Away
  BY <1>1, <1>2, <1>3 DEF New, Away
<1>9. Old
  <2>1. ASSUME NEW p \in All, NEW d \in lastReported[p].children PROVE d.pathKey \notin unused
    <3>1. CASE p \in Live
      <4>1. d \in Children(p)
        BY <2>1, <3>1, <1>4 DEF Children
      <4>2. d.index \in 1..Len(windows[p]) /\ windows[p][d.index] = d.pathKey
        BY <4>1, <3>1, <1>2, ReportFacts
      <4>3. windows[p] \in Seq(Iframes)
        BY <1>2 DEF Page
      <4>4. d.pathKey \in Live
        BY <4>2, <4>3, <3>1, <1>2 DEF Page, IsPage
      <4> QED BY <4>4, <1>3
    <3>2. CASE p \notin Live
      BY <2>1, <3>2, <1>1 DEF NoReport
    <3> QED BY <3>1, <3>2
  <2> QED BY <2>1 DEF Old
<1>10. PageInv
  BY <1>2, <1>8, <1>9 DEF Page, PageInv
<1>11. Sent
  BY <1>1, <1>3, <1>4 DEF Sent
<1>12. Told
  BY <1>2, <1>4, ReportFacts DEF Told, Children
<1>13. Following
  <2> SUFFICES ASSUME NEW f \in Live, NEW n \in DOMAIN line[f], NEW q, q = Above(line[f], n),
                      NEW d \in lastReported[q].children
               PROVE  Follows(f, n, q, d)
    BY DEF Following
  <2>1. lastReported[f].path = FramePathOf(f)
    BY <1>2, <1>4, ReportFacts
  <2>2. /\ FramePathOf(f)[n] \in 1..Len(windows[q]) /\ windows[q][FramePathOf(f)[n]] = line[f][n] /\ q \in Live
    BY <1>2, ReportFacts, OnLine
  <2>3. \A i \in DOMAIN windows[q] : windows[q][i] = d.pathKey => (FramePathOf(f)[n] = i <=> d.pathKey = line[f][n])
    BY <2>2, <1>7, <1>10, PlacesDiffer
  <2> QED BY <2>1, <2>3 DEF Follows
<1>14. DeadInv
  BY <1>2 DEF DeadInv
<1> QED BY <1>7, <1>10, <1>11, <1>12, <1>13, <1>14 DEF RelayInv

\* The inductive invariant holds at first and is kept.
LEMMA RelayInductive == RelaySpec => [](RelayTypeOK /\ RelayInv)
<1>1. RelayInit => RelayTypeOK /\ RelayInv
  BY RelayStarts
<1>2. RelayTypeOK /\ RelayInv /\ [RelayNext]_relayVars => (RelayTypeOK /\ RelayInv)'
  <2> SUFFICES ASSUME RelayTypeOK, RelayInv, [RelayNext]_relayVars PROVE (RelayTypeOK /\ RelayInv)'
    OBVIOUS
  <2>1. PageInv /\ Sent /\ Told /\ Following /\ DeadInv
    BY DEF RelayInv
  <2>2. RelayTypeOK' /\ PageInv'
    BY <2>1, TypedStep, PageStep
  <2>3. Sent' /\ Told'
    BY <2>1, SentStep, ToldStep
  <2>4. Following'
    BY <2>1, <2>2, FollowingStep
  <2>5. DeadInv'
    BY <2>1, DeadStep
  <2> QED BY <2>2, <2>3, <2>4, <2>5 DEF RelayInv
<1> QED BY <1>1, <1>2, PTL DEF RelaySpec

-----------------------------------------------------------------------------
(* When all is collected and served *)

\* With nothing due and nothing under way, no document can be upset, so that
\* the iframes told of tell the places of the frames below.
LEMMA WhenSettled ==
    ASSUME RelayTypeOK, RelayInv, Settled
    PROVE  /\ Live \subseteq Known
           /\ \A f \in Live : /\ reports[f] = lastReported[f] /\ reports[f].children = Children(f)
                              /\ Len(reports[f].path) = Len(line[f])
           /\ \A f \in Live : \A n \in DOMAIN line[f] : Above(line[f], n) \notin unseen =>
                 \A d \in Children(Above(line[f], n)) : reports[f].path[n] = d.index <=> d.pathKey = line[f][n]
<1>1. \A f \in Live : f \in All /\ due[f] = "no" /\ queue[f] = <<>>
  BY DEF Settled, Live
<1>2. PageInv /\ Page
  BY HasPage DEF RelayInv
<1>3. \A f \in Live : f \in Known /\ reports[f] = lastReported[f]
  BY <1>1 DEF RelayInv, Sent
<1>4. \A f \in Live : reports[f].children = Children(f) /\ Len(reports[f].path) = Len(line[f])
  BY <1>1, <1>3 DEF RelayInv, Told
<1>5. ASSUME NEW f \in Live, NEW n \in DOMAIN line[f], NEW q, q = Above(line[f], n), q \notin unseen, NEW d \in Children(q)
      PROVE  reports[f].path[n] = d.index <=> d.pathKey = line[f][n]
  <2>1. q \in Live
    BY <1>2, <1>5, OnLine
  <2>2. Quiet(q) /\ d \in lastReported[q].children
    BY <2>1, <1>1, <1>3, <1>4, <1>5 DEF Quiet
  <2>3. Follows(f, n, q, d)
    BY <2>2, <1>1, <1>2, <1>5, FollowingForms DEF RelayInv
  <2>4. d.index \in DOMAIN windows[q] /\ windows[q][d.index] = d.pathKey
    BY <2>1, <1>2, <1>5, ReportFacts, PlacesDiffer
  <2>5. ~Newcomer(q, d.pathKey)
    BY <2>1, <1>2, <1>3, HeldBy DEF Newcomer
  <2>6. ~Upset(q, d)
    BY <2>1, <2>5, <1>1 DEF Upset
  <2> QED BY <2>3, <2>4, <2>6, <1>3 DEF Follows
<1> QED BY <1>3, <1>4, <1>5

\* A frame in sight is told of at every level of its line.
LEMMA WhenCurrent ==
    ASSUME RelayTypeOK, RelayInv
    PROVE  ReportsAreCurrent
<1> SUFFICES ASSUME Settled, NEW f \in InSight, \A n \in DOMAIN line[f] : Above(line[f], n) \notin unseen
             PROVE  f \in Known /\ reports[f] = BuildFrameReport(f)
  BY DEF ReportsAreCurrent
<1>1. f \in Live /\ f \in All /\ ToSet(line[f]) \cap hidden = {} /\ PageInv /\ Page
  BY HasPage DEF InSight, RelayInv, Live
<1>2. /\ f \in Known /\ reports[f] \in WireReports /\ reports[f].children = Children(f)
      /\ Len(reports[f].path) = Len(line[f])
  BY <1>1, WhenSettled DEF RelayTypeOK
<1>3. ASSUME NEW n \in DOMAIN line[f] PROVE reports[f].path[n] = FramePathOf(f)[n]
  <2>1. PICK q : q = Above(line[f], n)
    OBVIOUS
  <2>2. q \in Live
    BY <2>1, <1>1, OnLine
  <2>3. PICK i \in 1..Len(windows[q]) : i = FramePathOf(f)[n] /\ windows[q][i] = line[f][n]
    BY <2>1, <1>1, ReportFacts
  <2>4. line[f][n] \notin hidden
    BY <1>1 DEF ToSet
  <2>5. [index |-> i, pathKey |-> windows[q][i]] \in Children(q)
    BY <2>2, <2>3, <2>4, <1>1, ReportFacts
  <2> QED BY <2>1, <2>3, <2>5, <1>1, WhenSettled
<1>4. BuildFrameReport(f) \in WireReports /\ BuildFrameReport(f).path = FramePathOf(f)
      /\ Len(FramePathOf(f)) = Len(line[f]) /\ BuildFrameReport(f).children = Children(f)
  BY <1>1, ReportFacts DEF Children
<1>5. line[f] \in Seq(Iframes)
  BY <1>1 DEF Page
<1>6. reports[f].path \in Seq(Nat) /\ FramePathOf(f) \in Seq(Nat)
  BY <1>2, <1>4 DEF WireReports
<1>7. reports[f].path = FramePathOf(f)
  <2>1. \A n \in 1..Len(reports[f].path) : reports[f].path[n] = FramePathOf(f)[n]
    BY <1>2, <1>3, <1>5
  <2> QED BY <2>1, <1>2, <1>4, <1>6, SeqEqual
<1> QED BY <1>2, <1>4, <1>7 DEF WireReports

-----------------------------------------------------------------------------
(* The tree the top document composes *)

\* A set of numbers has a least one.
LEMMA LeastOf ==
    ASSUME NEW T, T \subseteq Nat, T # {}
    PROVE  \E m \in T : \A n \in T : m <= n
<1>1. PICK m \in T : \A n \in T : ~(<<n, m>> \in OpToRel(<, Nat))
  BY NatLessThanWellFounded, WFMin
<1>2. \A n \in T : ~(n < m)
  <2>1. TAKE n \in T
  <2>2. <<n, m>> \in Nat \X Nat
    OBVIOUS
  <2> QED BY <1>1, <2>2 DEF OpToRel
<1> QED BY <1>2

\* What is wanted of the state for the tree to be the page.
Steady == /\ RelayTypeOK /\ RelayInv /\ Settled /\ unseen = {} /\ strays \cap Known = {}

\* The worker then knows the frames of the page and no other.
LEMMA KnownAreLive ==
    ASSUME Steady
    PROVE  Known = Live
<1>1. RelayTypeOK /\ RelayInv /\ Settled /\ PageInv
  BY DEF Steady, RelayInv
<1>2. Live \subseteq Known
  BY <1>1, WhenSettled
<1>3. ASSUME NEW g \in Known, g \notin Live PROVE FALSE
  <2>1. g \in (gone \cap Known) \ strays
    BY <1>1, <1>3, PageInvForms DEF Steady, RelayTypeOK, Live
  <2>2. PICK q, y, path : q \in Live /\ Pending(q, y, path)
    BY <2>1, <1>1, DeadForms DEF RelayInv
  <2>3. due[q] = "no" /\ queue[q] = <<>>
    BY <2>2, <1>1 DEF Settled, Live
  <2> QED BY <2>2, <2>3 DEF Pending
<1> QED BY <1>2, <1>3

\* Two frames are not at one path: where their lines part, one of them would
\* have the place of the other's iframe.
LEMMA OneAtAPath ==
    ASSUME Steady, NEW a \in InSight, NEW g \in Known \ {Top}, reports[g].path = FramePathOf(a)
    PROVE  g = a
<1>1. RelayTypeOK /\ RelayInv /\ Settled /\ PageInv /\ Page /\ unseen = {}
  BY HasPage DEF Steady, RelayInv
<1>2. a \in Live /\ a # Top /\ g \in Live /\ g # Top /\ a \in All /\ g \in All /\ ToSet(line[a]) \cap hidden = {}
  BY KnownAreLive DEF InSight, Live
<1>3. line[a] \in Seq(Iframes) /\ line[g] \in Seq(Iframes) /\ DOMAIN line[g] = 1..Len(line[g]) /\ DOMAIN line[a] = 1..Len(line[a])
  BY <1>1, <1>2 DEF Page
<1>4. Len(line[g]) = Len(line[a])
  BY <1>1, <1>2, WhenSettled, ReportFacts
<1> DEFINE T == {n \in 1..Len(line[a]) : line[g][n] # line[a][n]}
<1>5. CASE T = {}
  <2>1. Len(line[a]) \in 1..Len(line[a]) /\ line[a][Len(line[a])] = a /\ line[g][Len(line[g])] = g
    BY <1>1, <1>2, <1>3, Hangs
  <2>2. line[g][Len(line[a])] = line[a][Len(line[a])]
    BY <1>5, <2>1
  <2> QED BY <1>4, <2>1, <2>2
<1>6. CASE T # {}
  <2>0. T \subseteq Nat
    OBVIOUS
  <2>1. PICK n \in T : \A m \in T : n <= m
    <3> HIDE DEF T
    <3> QED BY <2>0, <1>6, LeastOf
  <2>2. n \in DOMAIN line[a] /\ n \in DOMAIN line[g] /\ line[g][n] # line[a][n]
    BY <1>3, <1>4
  <2>3. Above(line[g], n) = Above(line[a], n)
    <3>1. CASE n = 1
      BY <3>1 DEF Above
    <3>2. CASE n # 1
      <4>1. n - 1 \in 1..Len(line[a]) /\ ~(n <= n - 1)
        BY <3>2, <1>3, <2>2
      <4>2. line[g][n - 1] = line[a][n - 1]
        BY <4>1, <2>1
      <4> QED BY <3>2, <4>2 DEF Above
    <3> QED BY <3>1, <3>2
  <2>4. PICK q : q = Above(line[a], n)
    OBVIOUS
  <2>5. q \in Live
    BY <2>2, <2>4, <1>1, <1>2, OnLine
  <2>6. PICK i \in 1..Len(windows[q]) : i = FramePathOf(a)[n] /\ windows[q][i] = line[a][n]
    BY <2>2, <2>4, <1>1, <1>2, ReportFacts
  <2>7. line[a][n] \notin hidden
    BY <2>2, <1>2 DEF ToSet
  <2>8. [index |-> i, pathKey |-> windows[q][i]] \in Children(q)
    BY <2>5, <2>6, <2>7, <1>1, ReportFacts
  <2>9. reports[g].path[n] = i <=> windows[q][i] = line[g][n]
    BY <2>2, <2>3, <2>4, <2>8, <1>1, <1>2, WhenSettled
  <2> QED BY <2>2, <2>6, <2>9
<1> QED BY <1>5, <1>6

\* A frame in sight, or the top one, is known to hold its iframes in sight.
LEMMA ChildrenFound ==
    ASSUME Steady, NEW p \in InSight \cup {Top}
    PROVE  /\ \A d \in Children(p) : /\ d.pathKey \in InSight /\ Up(d.pathKey) = p
                                     /\ FrameIdsAt(Append(FramePathOf(p), d.index)) = {d.pathKey}
           /\ ResolvedChildren(p) = {d.pathKey : d \in Children(p)}
<1>1. RelayTypeOK /\ RelayInv /\ Settled /\ PageInv /\ Page /\ unseen = {}
  BY HasPage DEF Steady, RelayInv
<1>2. p \in Live /\ p \in All /\ ToSet(line[p]) \cap hidden = {} /\ line[p] \in Seq(Iframes)
  <2>1. Top \in Live /\ line[Top] = <<>> /\ ToSet(<<>>) = {}
    BY <1>1, FrameAssumption DEF Page, IsPage, Live, All, ToSet
  <2> QED BY <2>1, <1>1 DEF InSight, Live, Page
<1>3. ReportOf(p) = BuildFrameReport(p) /\ p \in Known \cup {Top}
  BY <1>1, WhenCurrent DEF ReportOf, ReportsAreCurrent
<1>4. BuildFrameReport(p).path = FramePathOf(p) /\ BuildFrameReport(p).children = Children(p)
      /\ FramePathOf(p) \in Seq(Nat) /\ Len(FramePathOf(p)) = Len(line[p])
  <2>1. BuildFrameReport(p) \in WireReports /\ BuildFrameReport(p).path = FramePathOf(p)
        /\ Len(FramePathOf(p)) = Len(line[p])
    BY <1>1, <1>2, ReportFacts
  <2> QED BY <2>1 DEF WireReports, Children
<1>5. ASSUME NEW d \in Children(p)
      PROVE  /\ d.pathKey \in InSight /\ Up(d.pathKey) = p
             /\ FrameIdsAt(Append(FramePathOf(p), d.index)) = {d.pathKey}
  <2>1. PICK a, i : a = d.pathKey /\ i = d.index
    OBVIOUS
  <2>2. i \in DOMAIN windows[p] /\ i \in Nat /\ windows[p][i] = a /\ a \notin hidden
    BY <2>1, <1>1, <1>2, ReportFacts, PlacesDiffer
  <2>3. a \in Live \ {Top} /\ a \in Iframes /\ Up(a) = p /\ IndexOf(a) = i /\ line[a] = Append(line[p], a)
    BY <2>2, <1>1, <1>2, HeldBy
  <2>4. Len(line[a]) = Len(line[p]) + 1 /\ line[a] \in Seq(Iframes) /\ line[a][Len(line[p]) + 1] = a
        /\ \A n \in 1..Len(line[p]) : line[a][n] = line[p][n]
    BY <2>3, <1>2, AppendProperties
  <2>5. a \in InSight
    <3>1. ASSUME NEW n \in DOMAIN line[a] PROVE line[a][n] \notin hidden
      <4>1. n \in 1..(Len(line[p]) + 1)
        BY <2>4
      <4>2. CASE n = Len(line[p]) + 1
        BY <4>2, <2>2, <2>4
      <4>3. CASE n # Len(line[p]) + 1
        <5>1. n \in DOMAIN line[p]
          BY <4>1, <4>3, <1>2
        <5>2. line[a][n] = line[p][n]
          BY <5>1, <2>4, <1>2
        <5> QED BY <5>1, <5>2, <1>2 DEF ToSet
      <4> QED BY <4>2, <4>3
    <3> QED BY <3>1, <2>3 DEF InSight, ToSet
  <2>6. FramePathOf(a) = Append(FramePathOf(p), i)
    <3>1. \A n \in 1..Len(line[p]) : FramePathOf(p)[n] = IndexOf(line[p][n])
      BY DEF FramePathOf
    <3>2. \A n \in 1..Len(line[a]) : FramePathOf(a)[n] = IndexOf(line[a][n])
      BY DEF FramePathOf
    <3>3. FramePathOf(a) \in Seq(Nat) /\ Len(FramePathOf(a)) = Len(line[a])
      <4>1. BuildFrameReport(a) \in WireReports /\ BuildFrameReport(a).path = FramePathOf(a)
            /\ Len(FramePathOf(a)) = Len(line[a])
        BY <2>3, <1>1, ReportFacts
      <4> QED BY <4>1 DEF WireReports
    <3> DEFINE t == Append(FramePathOf(p), i)
    <3>4. /\ t \in Seq(Nat) /\ Len(t) = Len(line[p]) + 1 /\ t[Len(line[p]) + 1] = i
          /\ \A n \in 1..Len(line[p]) : t[n] = FramePathOf(p)[n]
      BY <2>2, <1>4, AppendProperties
    <3> HIDE DEF t
    <3>5. ASSUME NEW n \in 1..(Len(line[p]) + 1) PROVE FramePathOf(a)[n] = t[n]
      <4>1. CASE n = Len(line[p]) + 1
        BY <4>1, <3>2, <3>4, <2>3, <2>4
      <4>2. CASE n # Len(line[p]) + 1
        <5>1. n \in 1..Len(line[p])
          BY <4>2, <1>2
        <5> QED BY <5>1, <3>1, <3>2, <3>4, <2>4
      <4> QED BY <4>1, <4>2
    <3>6. FramePathOf(a) = t
      BY <3>3, <3>4, <3>5, <2>4, SeqEqual
    <3> QED BY <3>6 DEF t
  <2>7. a \in Known \ {Top} /\ reports[a].path = FramePathOf(a)
    <3>1. a \in Known /\ reports[a] = BuildFrameReport(a)
      BY <2>5, <1>1, WhenCurrent DEF ReportsAreCurrent
    <3> QED BY <3>1, <2>3, <1>1, ReportFacts
  <2>8. {f \in Known \ {Top} : reports[f].path = FramePathOf(a)} = {a}
    BY <2>5, <2>7, OneAtAPath
  <2>9. FrameIdsAt(FramePathOf(a)) = {a}
    BY <2>8 DEF FrameIdsAt
  <2> QED BY <2>1, <2>3, <2>5, <2>6, <2>9
<1>6. ResolvedChildren(p) = UNION {FrameIdsAt(Append(ReportOf(p).path, d.index)) : d \in ReportOf(p).children}
  BY <1>3 DEF ResolvedChildren
<1>7. ReportOf(p).path = FramePathOf(p) /\ ReportOf(p).children = Children(p)
  BY <1>3, <1>4
<1>8. ResolvedChildren(p) = UNION {FrameIdsAt(Append(FramePathOf(p), d.index)) : d \in Children(p)}
  BY <1>6, <1>7
<1>9. \A a : a \in ResolvedChildren(p) <=> \E d \in Children(p) : a = d.pathKey
  BY <1>5, <1>8
<1>10. ResolvedChildren(p) = {d.pathKey : d \in Children(p)}
  BY <1>9
<1> QED BY <1>5, <1>10

\* The lines of the frames in sight are the ways the top document goes, and
\* it goes no other.
LEMMA WhenSteady ==
    ASSUME Steady
    PROVE  ComposedEdges = PageEdges
<1>1. RelayTypeOK /\ RelayInv /\ PageInv /\ Page /\ Lines
  BY HasPage DEF Steady, RelayInv, PageInv
<1>2. SeqOf(Iframes, MaxDepth) = {s \in Seq(Iframes) : Len(s) <= MaxDepth}
  BY ShortSequences, FrameAssumption
<1>3. ASSUME NEW f \in InSight
      PROVE  line[f] \in Walks \ {<<>>} /\ <<Up(f), f>> = <<Above(line[f], Len(line[f])), line[f][Len(line[f])]>>
  <2>1. f \in Live \ {Top} /\ f \in All /\ ToSet(line[f]) \cap hidden = {} /\ line[f] \in Seq(Iframes)
        /\ Len(line[f]) <= MaxDepth
    BY <1>1 DEF InSight, Live, Page, Lines
  <2>2. ASSUME NEW n \in DOMAIN line[f] PROVE line[f][n] \in ResolvedChildren(Above(line[f], n))
    <3>1. PICK q : q = Above(line[f], n)
      OBVIOUS
    <3>2. q \in Live /\ line[f][n] \in ToSet(windows[q])
      BY <3>1, <2>1, <1>1, OnLine
    <3>3. q \in InSight \cup {Top}
      <4>1. ASSUME q # Top PROVE ToSet(line[q]) \cap hidden = {}
        <5>1. n # 1 /\ q = line[f][n - 1] /\ n \in 1..Len(line[f])
          BY <3>1, <4>1, <2>1 DEF Above
        <5>2. n - 1 \in DOMAIN line[f]
          BY <5>1, <2>1
        <5>3. ToSet(line[q]) \subseteq ToSet(line[f])
          BY <5>1, <5>2, <2>1, <1>1, BelowOnLine
        <5> QED BY <5>3, <2>1
      <4> QED BY <4>1, <3>2 DEF InSight
    <3>4. PICK i \in DOMAIN windows[q] : windows[q][i] = line[f][n]
      BY <3>2 DEF ToSet
    <3>5. line[f][n] \notin hidden
      BY <2>1 DEF ToSet
    <3>6. [index |-> i, pathKey |-> windows[q][i]] \in Children(q)
      BY <3>2, <3>4, <3>5, <1>1, ReportFacts, PlacesDiffer
    <3> QED BY <3>1, <3>3, <3>4, <3>6, ChildrenFound
  <2>3. line[f] # <<>> /\ line[f][Len(line[f])] = f
    BY <2>1, <1>1 DEF Page, IsPage
  <2> QED BY <2>1, <2>2, <2>3, <1>2 DEF Walks, Up
<1>4. ASSUME NEW s \in Walks \ {<<>>}
      PROVE  s[Len(s)] \in InSight /\ Above(s, Len(s)) = Up(s[Len(s)])
  <2>1. s \in Seq(Iframes) /\ s # <<>> /\ DOMAIN s = 1..Len(s)
    BY <1>2, <1>4 DEF Walks
  <2> DEFINE T == {n \in 1..Len(s) : ~(s[n] \in InSight /\ Above(s, n) = Up(s[n]))}
  <2>2. ASSUME T # {} PROVE FALSE
    <3>0. T \subseteq Nat
      OBVIOUS
    <3>1. PICK n \in T : \A m \in T : n <= m
      <4> HIDE DEF T
      <4> QED BY <3>0, <2>2, LeastOf
    <3>2. Above(s, n) \in InSight \cup {Top}
      <4>1. CASE n = 1
        BY <4>1 DEF Above
      <4>2. CASE n # 1
        <5>1. n - 1 \in 1..Len(s) /\ ~(n <= n - 1)
          BY <4>2, <2>1
        <5>2. s[n - 1] \in InSight
          BY <5>1, <3>1
        <5> QED BY <4>2, <5>2 DEF Above
      <4> QED BY <4>1, <4>2
    <3>3. PICK p : p = Above(s, n)
      OBVIOUS
    <3>4. s[n] \in ResolvedChildren(p)
      BY <3>3, <2>1 DEF Walks
    <3>5. \E d \in Children(p) : s[n] = d.pathKey
      BY <3>2, <3>3, <3>4, ChildrenFound
    <3>6. s[n] \in InSight /\ Up(s[n]) = p
      BY <3>2, <3>3, <3>5, ChildrenFound
    <3> QED BY <3>3, <3>6
  <2>3. Len(s) \in 1..Len(s)
    BY <2>1
  <2> QED BY <2>2, <2>3
<1>5. ComposedEdges \subseteq PageEdges
  BY <1>4 DEF ComposedEdges, PageEdges
<1>6. PageEdges \subseteq ComposedEdges
  BY <1>3 DEF ComposedEdges, PageEdges
<1> QED BY <1>5, <1>6

-----------------------------------------------------------------------------

\* What the page, its frames and the worker hold has its type.
THEOREM RelayTyped == RelaySpec => []RelayTypeOK
BY RelayInductive, PTL

\* Whatever comes, goes, scrolls and is lost, once all is collected and served
\* the worker has the present report of every frame in sight, but for those
\* under a document that lost what it had not shown (collector.ts, relay.ts).
THEOREM ReportsCurrent == RelaySpec => []ReportsAreCurrent
<1>1. RelayTypeOK /\ RelayInv => ReportsAreCurrent
  BY WhenCurrent
<1> QED BY <1>1, RelayInductive, PTL

\* Then the top document composes the page as it is (frame-tree.ts), if the
\* report of no stray is there.
THEOREM TreeComposed == RelaySpec => []TreeIsThePage
<1>1. RelayTypeOK /\ RelayInv => TreeIsThePage
  BY WhenSteady DEF TreeIsThePage, Steady
<1> QED BY <1>1, RelayInductive, PTL
=============================================================================
