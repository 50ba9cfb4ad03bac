-------------------------- MODULE ArchitectureProofs --------------------------
(***************************************************************************)
(* What is proved about the architecture diagrams of archify: of the page  *)
(* that reviews a change of one (DeltaReview), that playback keeps its     *)
(* timer and that what is drawn is what is expected; of one on its way to  *)
(* the reader (DiagramDelivery), that titles end up clear, that ports stay *)
(* apart and that rounding a route adds nothing the check would refuse.    *)
(***************************************************************************)
EXTENDS DeltaReview, DiagramDelivery, FiniteSetTheorems, SequenceTheorems, TLAPS

Token == 0..(Tokens - 1)
Marks == SUBSET Int
Views == {"base", "delta", "head"}

Reviews ==
  [active: Int, marked: Marks, playing: BOOLEAN, token: Token,
   timer: Token \cup {Tokens}, timers: SUBSET Token, available: BOOLEAN,
   view: Views]

\* The timeout stopPlayback would clear is the only one there can be.
Clearable(r) == r \in Reviews /\ r.timers \subseteq {r.timer}

\* No playback and no timeout
Stopped(r) == r \in Reviews /\ ~r.playing /\ r.timers = {}

\* The inductive invariant: playbackTimer names the timeout that is pending,
\* without which stopPlayback could leave one behind, and a playback that meets
\* a row that does not match can still stop for it.
Paced(r) ==
  /\ r \in Reviews
  /\ r.timers = IF r.playing THEN {r.token} ELSE {}
  /\ r.playing => r.timer = r.token /\ r.available

Inv == Paced(review) /\ pair \in Pairs /\ torn \subseteq Rows(pair)

-----------------------------------------------------------------------------
(* The functions the handlers call                                         *)

LEMMA Marked == 0 \in Int /\ {} \in Marks /\ "delta" \in Views /\ \A i \in Int : {i} \in Marks
  BY DEF Marks, Views

LEMMA NextToken == ASSUME NEW t \in Token PROVE (t + 1) % Tokens \in Token
  BY ReviewAssumption DEF Token

\* stopPlayback leaves neither a playback nor a timeout.
LEMMA StopStops == ASSUME NEW r, Clearable(r) PROVE Stopped(StopPlayback(r))
<1>1. (r.token + 1) % Tokens \in Token
  BY NextToken DEF Clearable, Reviews
<1>2. r.timers \ {r.timer} = {} /\ r \in Reviews
  BY DEF Clearable
<1> DEFINE next == (r.token + 1) % Tokens
<1> HIDE DEF next
<1>3. StopPlayback(r) = [r EXCEPT !.playing = FALSE, !.token = next,
                                  !.timers = {}, !.timer = Tokens]
  BY <1>2 DEF StopPlayback, next
<1> QED BY <1>1, <1>2, <1>3 DEF Stopped, Reviews, next

LEMMA PacedIsClearable == ASSUME NEW r, Paced(r) PROVE Clearable(r)
  BY DEF Paced, Clearable, Reviews

LEMMA StoppedIsPaced == ASSUME NEW r, Stopped(r) PROVE Paced(r)
  BY DEF Paced, Stopped, Reviews

\* A failed review is stopped.
LEMMA FailStops == ASSUME NEW r, Clearable(r) PROVE Stopped(FailReview(r))
<1> DEFINE s == StopPlayback(r)
<1> HIDE DEF s
<1>1. Stopped(s)
  BY StopStops DEF s
<1>2. FailReview(r) = [s EXCEPT !.available = FALSE, !.active = 0, !.marked = {}]
  BY DEF FailReview, s
<1> QED BY <1>1, <1>2, Marked DEF Stopped, Reviews

\* selectChange starts no playback, keeps the timeout of one that goes on, and
\* stops one whose row does not match.
LEMMA SelectKeeps ==
  ASSUME NEW r, Clearable(r), NEW i \in Int
  PROVE  LET s == SelectChange(r, i) IN
         \/ Stopped(s)
         \/ /\ s \in Reviews /\ s.playing = r.playing /\ s.token = r.token
            /\ s.timer = r.timer /\ s.timers = r.timers /\ s.available = r.available
<1>1. CASE i \in torn /\ ~(~r.available \/ i < 1 \/ i > Last)
  BY <1>1, FailStops DEF SelectChange
<1>2. CASE ~r.available \/ i < 1 \/ i > Last
  BY <1>2 DEF SelectChange, Clearable
<1>3. CASE i \notin torn /\ ~(~r.available \/ i < 1 \/ i > Last)
  <2>1. SelectChange(r, i) = [r EXCEPT !.view = "delta", !.active = i, !.marked = {i}]
    BY <1>3 DEF SelectChange
  <2> DEFINE s == [r EXCEPT !.view = "delta", !.active = i, !.marked = {i}]
  <2>2. r \in Reviews
    BY DEF Clearable
  <2>3. s \in Reviews
    BY <2>2, Marked DEF Reviews
  <2>4. /\ s.playing = r.playing /\ s.token = r.token /\ s.timer = r.timer
        /\ s.timers = r.timers /\ s.available = r.available
    BY <2>2 DEF Reviews
  <2> QED BY <2>1, <2>3, <2>4
<1> QED BY <1>1, <1>2, <1>3

LEMMA SelectTornStops ==
  ASSUME NEW r, Clearable(r), r.available, NEW i \in 1..Last, i \in torn, Last \in Nat
  PROVE  Stopped(SelectChange(r, i))
  BY FailStops DEF SelectChange

LEMMA SelectStaysStopped ==
  ASSUME NEW r, Stopped(r), NEW i \in Int PROVE Stopped(SelectChange(r, i))
<1>1. Clearable(r)
  BY DEF Stopped, Clearable
<1> QED BY <1>1, SelectKeeps DEF Stopped

LEMMA OverviewStops == ASSUME NEW r, Clearable(r) PROVE Stopped(Overview(r))
<1>1. CASE ~r.available
  BY <1>1, FailStops DEF Overview
<1>2. CASE r.available
  <2> DEFINE s == StopPlayback(r)
  <2> HIDE DEF s
  <2>1. Stopped(s)
    BY StopStops DEF s
  <2>2. Overview(r) = [s EXCEPT !.active = 0, !.marked = {}, !.view = "delta"]
    BY <1>2 DEF Overview, s
  <2> QED BY <2>1, <2>2, Marked DEF Stopped, Reviews
<1> QED BY <1>1, <1>2

\* schedulePlayback with the token of the playback, when no timeout is pending:
\* the playback gets its one timeout or ends.
LEMMA SchedulePaces ==
  ASSUME NEW r \in Reviews, r.timers = {}, r.playing => r.available
  PROVE  Paced(SchedulePlayback(r, r.token))
<1>1. CASE r.active >= Last
  <2>1. Clearable(r)
    BY DEF Clearable
  <2> QED BY <1>1, <2>1, StopStops, StoppedIsPaced DEF SchedulePlayback
<1>2. CASE ~(r.active >= Last) /\ ~r.playing
  BY <1>2 DEF SchedulePlayback, Paced
<1>3. CASE ~(r.active >= Last) /\ r.playing
  <2>1. SchedulePlayback(r, r.token) = [r EXCEPT !.timer = r.token, !.timers = {r.token}]
    BY <1>3 DEF SchedulePlayback, Reviews
  <2> DEFINE s == [r EXCEPT !.timer = r.token, !.timers = {r.token}]
  <2>2. r.token \in Token
    BY DEF Reviews
  <2>3. s \in Reviews
    BY <2>2 DEF Reviews, Token
  <2>4. /\ s.playing = r.playing /\ s.token = r.token /\ s.timer = r.token
        /\ s.timers = {r.token} /\ s.available = r.available
    BY DEF Reviews
  <2> HIDE DEF s
  <2>5. Paced(s)
    BY <1>3, <2>3, <2>4 DEF Paced
  <2> QED BY <2>1, <2>5 DEF s
<1> QED BY <1>1, <1>2, <1>3

LEMMA StartPaces == ASSUME NEW r, Paced(r) PROVE Paced(StartReview(r))
<1> DEFINE stopped == StopPlayback(r)
           first == SelectChange(stopped, 1)
           token == (first.token + 1) % Tokens
           playing == [first EXCEPT !.playing = TRUE, !.token = token]
<1>1. Stopped(stopped)
  BY PacedIsClearable, StopStops
<1>2. Stopped(first)
  BY <1>1, SelectStaysStopped
<1>3. token \in Token
  BY <1>2, NextToken DEF Stopped, Reviews
<1>4. ASSUME r.available, 1 \notin torn
      PROVE  Paced(SchedulePlayback(playing, token))
  <2>1. first.available
    <3>1. stopped.available
      BY <1>4, PacedIsClearable DEF StopPlayback, Clearable, Reviews
    <3> HIDE DEF stopped
    <3> QED BY <1>1, <1>4, <3>1 DEF SelectChange, Stopped, Reviews
  <2> HIDE DEF first, token
  <2>2. /\ playing \in Reviews /\ playing.timers = {} /\ playing.token = token
        /\ playing.available
    BY <1>2, <1>3, <2>1 DEF Stopped, Reviews
  <2> HIDE DEF playing
  <2> QED BY <2>2, SchedulePaces
<1>5. \/ StartReview(r) = r \/ StartReview(r) = stopped \/ StartReview(r) = first
      \/ /\ r.available /\ 1 \notin torn
         /\ StartReview(r) = SchedulePlayback(playing, token)
  BY DEF StartReview
<1> HIDE DEF stopped, first, playing, token
<1> QED BY <1>1, <1>2, <1>4, <1>5, StoppedIsPaced

-----------------------------------------------------------------------------
(* The invariant                                                           *)

LEMMA LastIsNat == ASSUME Inv PROVE Last \in Nat
  BY FS_CardinalityType, PairsAssumption DEF Inv, Last

LEMMA InvInit == Init => Inv
<1> SUFFICES ASSUME Init PROVE Inv
  OBVIOUS
<1>1. pair \in Pairs /\ torn \subseteq Rows(pair)
  BY DEF Init
<1>2. Paced(review)
  BY ReviewAssumption DEF Init, Paced, Reviews, Token, Marks, Views
<1> QED BY <1>1, <1>2 DEF Inv

\* The callback takes its own timeout away, and asks for the next one only as
\* the callback of the present playback.
LEMMA TimerPaces ==
  ASSUME Inv, NEW token \in Token, TimerFires(token) PROVE Paced(review')
<1> DEFINE r == [review EXCEPT !.timers = @ \ {token}]
           next == SelectChange(r, r.active + 1)
<1>1. review \in Reviews /\ review.playing /\ token = review.token /\ review.available
  BY DEF Inv, Paced, TimerFires
<1>2. r \in Reviews /\ r.timers = {} /\ r.playing /\ r.token = token /\ r.available
  BY <1>1 DEF Inv, Paced, Reviews
<1>3. review' = IF r.active + 1 \in torn THEN next ELSE SchedulePlayback(next, token)
  BY <1>2 DEF TimerFires
<1> HIDE DEF r
<1>4. Clearable(r) /\ r.active + 1 \in Int
  BY <1>2 DEF Clearable, Reviews
<1>5. CASE r.active + 1 \in torn
  <2>1. r.active + 1 \in 1..Last
    BY <1>5 DEF Inv, Rows, Last
  <2>2. Stopped(next)
    BY <1>2, <1>4, <1>5, <2>1, LastIsNat, SelectTornStops
  <2> QED BY <1>3, <1>5, <2>2, StoppedIsPaced
<1>6. CASE r.active + 1 \notin torn
  <2>1. /\ next \in Reviews /\ next.timers = {} /\ next.token = token
        /\ next.available
    <3>1. \/ next = r \/ next = [r EXCEPT !.view = "delta", !.active = r.active + 1,
                                          !.marked = {r.active + 1}]
      BY <1>6 DEF SelectChange
    <3> HIDE DEF next
    <3> QED BY <1>2, <1>4, <3>1, Marked DEF Reviews
  <2> HIDE DEF next
  <2> QED BY <1>3, <1>6, <2>1, SchedulePaces
<1> QED BY <1>5, <1>6

\* Every event of the page keeps the review paced.
LEMMA PageStep ==
  ASSUME Inv, Next PROVE Paced(review')
<1> DEFINE stopped == StopPlayback(review)
<1>1. Clearable(review) /\ Stopped(stopped) /\ Paced(review) /\ Paced(stopped)
  BY PacedIsClearable, StopStops, StoppedIsPaced DEF Inv
<1>2. ASSUME NEW i \in Int PROVE Paced(SelectChange(stopped, i))
  BY <1>1, SelectStaysStopped, StoppedIsPaced
<1>3. Paced(Overview(review)) /\ Paced(StartReview(review))
  BY <1>1, OverviewStops, StoppedIsPaced, StartPaces
<1>4. review.active \in Int
  BY <1>1 DEF Clearable, Reviews
<1>5. ASSUME NEW view \in Views, ShowSnapshot(view)
      PROVE  Paced(review')
  <2> HIDE DEF stopped
  <2>1. review' = [stopped EXCEPT !.view = view]
    BY <1>5 DEF ShowSnapshot, stopped
  <2> QED BY <1>1, <2>1 DEF Stopped, Paced, Reviews
<1>6. ASSUME NEW i \in 1..Last, PickRow(i) PROVE Paced(review')
  BY <1>2, <1>6 DEF PickRow
<1>7. CASE PressPrevious
  BY <1>2, <1>4, <1>7 DEF PressPrevious
<1>8. CASE PressNext
  BY <1>2, <1>4, <1>8 DEF PressNext
<1>9. CASE PressOverview \/ PressPlay \/ Escape \/ BeforePrint
  BY <1>3, <1>9 DEF PressOverview, PressPlay, Escape, BeforePrint
<1>10. CASE MoveAlongRows \/ Hide \/ SetMotion \/ Blur
  BY <1>1, <1>10 DEF MoveAlongRows, Hide, SetMotion, Blur
<1>11. ASSUME NEW button \in Buttons, FocusIn(button) PROVE Paced(review')
  BY <1>1, <1>11 DEF FocusIn
<1>12. ASSUME NEW i \in 1..Last, Tear(i) PROVE Paced(review')
  BY <1>1, <1>12 DEF Tear
<1>13. CASE Timer
  BY <1>13, TimerPaces DEF Timer, Token
<1> QED BY <1>5, <1>6, <1>7, <1>8, <1>9, <1>10, <1>11, <1>12, <1>13 DEF Next, Views

\* Only Tear changes which rows match.
LEMMA TornStep == ASSUME Inv, Next PROVE pair' \in Pairs /\ torn' \subseteq Rows(pair')
<1>1. \/ torn' = torn /\ pair' = pair
      \/ \E i \in 1..Last : torn' = {i} /\ pair' = pair
  BY DEF Next, FocusIn, ShowSnapshot, PickRow, Tear, MoveAlongRows, PressOverview,
         PressPrevious, PressNext, PressPlay, Escape, BeforePrint, Hide, Blur, SetMotion,
         Timer, TimerFires, Click, World
<1> QED BY <1>1 DEF Inv, Rows, Last

LEMMA InvNext == Inv /\ [Next]_vars => Inv'
<1>1. ASSUME Inv, Next PROVE Inv'
  BY <1>1, PageStep, TornStep DEF Inv
<1>2. ASSUME Inv, UNCHANGED vars PROVE Inv'
  BY <1>2 DEF vars, Inv
<1> QED BY <1>1, <1>2

THEOREM Invariance == Spec => []Inv
<1> QED BY InvInit, InvNext, PTL DEF Spec

\* No timeout of an earlier playback can come back and no playback is left
\* without one, whatever the reader does and whichever rows stop matching.
THEOREM PlaybackHasItsTimer == Spec => []OneTimerPerPlayback
<1>1. Inv => OneTimerPerPlayback
  BY DEF Inv, Paced, OneTimerPerPlayback
<1> QED BY <1>1, Invariance, PTL

-----------------------------------------------------------------------------
(* What is drawn is what is expected.  Drawing and expectation branch on   *)
(* different things: what is drawn once as the head has it and once as the *)
(* base had it is here described form by form.                             *)

\* A change as compareEntities makes it.
IsChange(c) ==
  /\ c.kind \in Kinds
  /\ \/ c.status \in {"added", "removed"} /\ c.classes = {Identity[c.kind]}
     \/ /\ c.classes \subseteq {Classification(g) : g \in Groups[c.kind]}
        /\ c.status = Status(c.kind, c.classes) /\ c.status # "same"

\* Every change of a comparison is one.
LEMMA ChangesAre ==
  ASSUME NEW base, NEW head, NEW c \in Changes(base, head) PROVE IsChange(c)
<1>1. PICK k \in Kinds : \E id \in Named(Of(base, k)) \cup Named(Of(head, k)) :
        c = Change(k, base, head, id) /\ c.status # "same"
  BY DEF Changes
<1>2. PICK id \in Named(Of(base, k)) \cup Named(Of(head, k)) :
        c = Change(k, base, head, id)
  BY <1>1
<1> DEFINE classes == Classes(k, Item(Of(base, k), id), Item(Of(head, k), id))
           new == id \notin Named(Of(base, k))
           gone == id \notin Named(Of(head, k))
<1>3. classes \subseteq {Classification(g) : g \in Groups[k]}
  BY DEF Classes
<1>4. /\ c.kind = k
      /\ c.status = IF new THEN "added" ELSE IF gone THEN "removed" ELSE Status(k, classes)
      /\ c.classes = IF new \/ gone THEN {Identity[k]} ELSE classes
  BY <1>2 DEF Change
<1> HIDE DEF classes, new, gone
<1> QED BY <1>1, <1>3, <1>4 DEF IsChange

\* Which statuses and classes go together
LEMMA ComponentChange ==
  ASSUME NEW c, IsChange(c), c.kind = "component"
  PROVE  /\ c.status \in {"added", "removed", "changed", "evidence-changed", "moved"}
         /\ c.status \in {"added", "removed"} => "geometry" \notin c.classes
         /\ "topology" \notin c.classes
         /\ c.status = "moved" => "geometry" \in c.classes
BY DEF IsChange, Status, Moved, Groups, Classification, Identity

LEMMA BoundaryChange ==
  ASSUME NEW c, IsChange(c), c.kind = "boundary"
  PROVE  c.status \in {"added", "removed", "changed", "geometry-changed"}
BY DEF IsChange, Status, Moved, Groups, Classification, Identity

LEMMA RelationshipChange ==
  ASSUME NEW c, IsChange(c), c.kind = "relationship"
  PROVE  /\ c.status \in {"added", "removed", "changed", "rerouted"}
         /\ c.status = "rerouted" => "geometry" \in c.classes /\ "topology" \notin c.classes
         /\ c.status \in {"added", "removed"} => c.classes = {"topology"}
<1>1. \A g \in Groups["relationship"] : Classification(g) \in {"topology", "semantic", "geometry"}
  BY DEF Groups, Classification
<1>2. CASE c.status \in {"added", "removed"} /\ c.classes = {Identity[c.kind]}
  BY <1>2 DEF Identity
<1>3. CASE /\ c.classes \subseteq {Classification(g) : g \in Groups[c.kind]}
           /\ c.status = Status(c.kind, c.classes) /\ c.status # "same"
  <2>1. c.classes \subseteq {"topology", "semantic", "geometry"}
    BY <1>1, <1>3
  <2>2. "evidence" \notin c.classes
    BY <2>1
  <2>3. c.status \in {"changed", "rerouted"}
    BY <1>3, <2>2 DEF Status, Moved
  <2>4. \A k : "topology" \in k => Status(c.kind, k) = "changed"
    <3> SUFFICES ASSUME NEW k, "topology" \in k PROVE Status(c.kind, k) = "changed"
      OBVIOUS
    <3>1. "topology" \in k \cap {"topology", "semantic", "scope"}
      OBVIOUS
    <3>2. k \cap {"topology", "semantic", "scope"} # {}
      BY <3>1
    <3> QED BY <3>2 DEF Status
  <2>5. "topology" \in c.classes => c.status = "changed"
    BY <1>3, <2>4
  <2>6. c.status = "rerouted" => "geometry" \in c.classes
    BY <1>3, <2>2 DEF Status
  <2> QED BY <1>3, <2>3, <2>5, <2>6
<1> QED BY <1>2, <1>3 DEF IsChange

-----------------------------------------------------------------------------
(* A set of elements that is described by a set of descriptors, each once *)

Exactly(S, D) ==
  /\ {Describes(e) : e \in S} = D
  /\ \A e, f \in S : Describes(e) = Describes(f) => e = f

LEMMA ExactlyOne == ASSUME NEW e PROVE Exactly({e}, {Describes(e)})
  BY DEF Exactly

\* Sets that are described apart can be put together.
LEMMA ExactlyBoth ==
  ASSUME NEW S, NEW D, NEW T, NEW E, Exactly(S, D), Exactly(T, E), D \cap E = {}
  PROVE  Exactly(S \cup T, D \cup E)
<1>1. \A e \in S, f \in T : Describes(e) # Describes(f)
  BY DEF Exactly
<1> QED BY <1>1 DEF Exactly

LEMMA Descriptors ==
  ASSUME NEW t, NEW s, NEW k
  PROVE  /\ Descriptor(t, s, k).tag = t /\ Descriptor(t, s, k).state = s
         /\ Descriptor(t, s, k).classes = k
  BY DEF Descriptor

LEMMA ElementExactly ==
  ASSUME NEW tag, NEW c, NEW state, NEW classes, NEW layer
  PROVE  Exactly({Element(tag, c, state, classes, layer)}, {Descriptor(tag, state, classes)})
<1>1. Describes(Element(tag, c, state, classes, layer)) = Descriptor(tag, state, classes)
  BY DEF Element, Describes
<1> QED BY <1>1, ExactlyOne

LEMMA MarkerExactly ==
  ASSUME NEW c, NEW state, NEW layer, NEW at
  PROVE  Exactly({Marker(c, state, layer, at)}, {Descriptor("text", state, {})})
<1>1. Describes(Marker(c, state, layer, at)) = Descriptor("text", state, {})
  BY DEF Marker, Element, Describes
<1> QED BY <1>1, ExactlyOne

\* What a snapshot's drawing of an item is described by
ShapeOutline(c, state, label) ==
  CASE c.kind = "component" -> {Descriptor("g", state, c.classes)}
    [] c.kind = "relationship" ->
         {Descriptor("path", state, c.classes)}
         \cup (IF label = Blank THEN {} ELSE {Descriptor("g", state, c.classes)})
    [] c.kind = "boundary" -> {Descriptor("rect", state, c.classes)} \cup {Descriptor("text", state, {})}

\* Each description of an item is that of one of its elements.
LEMMA ShapeExactly ==
  ASSUME NEW c, c.kind \in Kinds, NEW state, NEW label, NEW layer
  PROVE  Exactly(Shape(c, state, label, layer), ShapeOutline(c, state, label))
<1> DEFINE E(tag) == Element(tag, c, state, c.classes, layer)
           D(tag) == Descriptor(tag, state, c.classes)
<1>1. CASE c.kind = "component"
  BY <1>1, ElementExactly DEF Shape, ShapeOutline
<1>2. CASE c.kind = "relationship" /\ label = Blank
  <2>1. Shape(c, state, label, layer) = {E("path")} /\ ShapeOutline(c, state, label) = {D("path")}
    BY <1>2 DEF Shape, ShapeOutline
  <2> QED BY <2>1, ElementExactly
<1>3. CASE c.kind = "relationship" /\ label # Blank
  <2> DEFINE S == {E("path")}  SD == {D("path")}
             T == {E("g")}     TD == {D("g")}
  <2>1. Shape(c, state, label, layer) = S \cup T /\ ShapeOutline(c, state, label) = SD \cup TD
    BY <1>3 DEF Shape, ShapeOutline
  <2>2. SD \cap TD = {}
    BY Descriptors
  <2>3. Exactly(S, SD) /\ Exactly(T, TD)
    BY ElementExactly
  <2> HIDE DEF S, SD, T, TD
  <2>4. Exactly(S \cup T, SD \cup TD)
    BY <2>2, <2>3, ExactlyBoth
  <2> QED BY <2>1, <2>4
<1>4. CASE c.kind = "boundary"
  <2> DEFINE S == {E("rect")}  SD == {D("rect")}
             T == {Element("text", c, state, {}, layer)}
             TD == {Descriptor("text", state, {})}
  <2>1. Shape(c, state, label, layer) = S \cup T /\ ShapeOutline(c, state, label) = SD \cup TD
    BY <1>4 DEF Shape, ShapeOutline
  <2>2. SD \cap TD = {}
    BY Descriptors
  <2>3. Exactly(S, SD) /\ Exactly(T, TD)
    BY ElementExactly
  <2> HIDE DEF S, SD, T, TD
  <2>4. Exactly(S \cup T, SD \cup TD)
    BY <2>2, <2>3, ExactlyBoth
  <2> QED BY <2>1, <2>4
<1> QED BY <1>1, <1>2, <1>3, <1>4 DEF Kinds

\* No element of an item in one state is described as one in another state.
LEMMA OutlinesApart ==
  ASSUME NEW c, c.kind \in Kinds, NEW s, NEW t, s # t, NEW k, NEW l
  PROVE  ShapeOutline(c, s, k) \cap ShapeOutline(c, t, l) = {}
  BY Descriptors DEF ShapeOutline, Kinds

-----------------------------------------------------------------------------
(* The drawing of a change is what is expected of it                       *)

\* A component that moved is drawn twice, at its place and at the one it had.
LEMMA ComponentDrawn ==
  ASSUME NEW c, IsChange(c), c.kind = "component" PROVE Exactly(Targets(c), Expected(c))
<1> DEFINE now == Shape(c, c.status, c.is, "head")
           was(s) == Shape(c, s, c.was, "base")
           is(s, l) == ShapeOutline(c, s, l)
<1>1. c.kind \in Kinds
  BY DEF Kinds
<1>2. CASE c.status \in {"added", "removed"} \/ "geometry" \notin c.classes
  <2>1. Targets(c) = IF c.status = "removed" THEN was("removed") ELSE now
    BY <1>2, ComponentChange DEF Targets, Current, Phantom, PhantomState, Markers
  <2>2. Expected(c) = is(c.status, c.is) /\ is(c.status, c.is) = is(c.status, c.was)
    BY <1>2, ComponentChange DEF Expected, PrimaryStates, ShapeOutline
  <2> QED BY <1>1, <2>1, <2>2, ShapeExactly
<1>3. CASE c.status \notin {"added", "removed"} /\ "geometry" \in c.classes
  <2>1. Targets(c) = now \cup was("moved-from")
    BY <1>3, ComponentChange DEF Targets, Current, Phantom, PhantomState, Markers
  <2>2. Expected(c) = is(c.status, c.is) \cup is("moved-from", c.was)
    BY <1>3 DEF Expected, PrimaryStates, ShapeOutline
  <2>3. is(c.status, c.is) \cap is("moved-from", c.was) = {}
    BY <1>1, <1>3, ComponentChange, OutlinesApart
  <2>4. Exactly(now, is(c.status, c.is)) /\ Exactly(was("moved-from"), is("moved-from", c.was))
    BY <1>1, ShapeExactly
  <2> HIDE DEF now, was, is
  <2> QED BY <2>1, <2>2, <2>3, <2>4, ExactlyBoth
<1> QED BY <1>2, <1>3

\* A boundary that stays is always drawn twice, with its frame and title.
LEMMA BoundaryDrawn ==
  ASSUME NEW c, IsChange(c), c.kind = "boundary" PROVE Exactly(Targets(c), Expected(c))
<1> DEFINE now == Shape(c, c.status, c.is, "head")
           was(s) == Shape(c, s, c.was, "base")
           is(s, l) == ShapeOutline(c, s, l)
<1>1. c.kind \in Kinds
  BY DEF Kinds
<1>2. CASE c.status \in {"added", "removed"}
  <2>0. PhantomState(c) = IF c.status = "removed" THEN "removed" ELSE "none"
    BY <1>2 DEF PhantomState
  <2>1. Targets(c) = IF c.status = "removed" THEN was("removed") ELSE now
    BY <1>2, <2>0 DEF Targets, Current, Phantom, Markers
  <2>2. Expected(c) = is(c.status, c.is) /\ is(c.status, c.is) = is(c.status, c.was)
    <3>1. PrimaryStates(c) = {c.status}
      BY <1>2 DEF PrimaryStates
    <3>2. Expected(c) = {Descriptor("rect", c.status, c.classes)} \cup {Descriptor("text", c.status, {})}
      BY <3>1 DEF Expected
    <3> QED BY <3>2 DEF ShapeOutline
  <2> QED BY <1>1, <2>1, <2>2, ShapeExactly
<1>3. CASE c.status \in {"changed", "geometry-changed"}
  <2>1. Targets(c) = now \cup was("moved-from")
    BY <1>3 DEF Targets, Current, Phantom, PhantomState, Markers
  <2>2. Expected(c) = is(c.status, c.is) \cup is("moved-from", c.was)
    BY <1>3 DEF Expected, PrimaryStates, ShapeOutline
  <2>3. is(c.status, c.is) \cap is("moved-from", c.was) = {}
    BY <1>1, <1>3, OutlinesApart
  <2>4. Exactly(now, is(c.status, c.is)) /\ Exactly(was("moved-from"), is("moved-from", c.was))
    BY <1>1, ShapeExactly
  <2> HIDE DEF now, was, is
  <2> QED BY <2>1, <2>2, <2>3, <2>4, ExactlyBoth
<1> QED BY <1>2, <1>3, BoundaryChange

\* What a form of a relationship is described by: its route, with or without
\* label, and its marker
Drawn(c, state, mark, label) == ShapeOutline(c, state, label) \cup {Descriptor("text", mark, {})}

LEMMA FormDrawn ==
  ASSUME NEW c, c.kind = "relationship", NEW state, NEW mark, NEW label,
         NEW layer, NEW where, NEW at
  PROVE  Exactly(Shape(c, state, label, layer) \cup {Marker(c, mark, where, at)},
                 Drawn(c, state, mark, label))
<1>1. ShapeOutline(c, state, label) \cap {Descriptor("text", mark, {})} = {}
  BY Descriptors DEF ShapeOutline
<1>2. Exactly(Shape(c, state, label, layer), ShapeOutline(c, state, label))
  BY ShapeExactly DEF Kinds
<1>3. Exactly({Marker(c, mark, where, at)}, {Descriptor("text", mark, {})})
  BY MarkerExactly
<1> QED BY <1>1, <1>2, <1>3, ExactlyBoth DEF Drawn

\* The elements of a relationship, given the state of its base form
LEMMA RelationshipTargets ==
  ASSUME NEW c, c.kind = "relationship", NEW state, PhantomState(c) = state
  PROVE  Targets(c) =
           (IF state = "none" THEN {}
            ELSE Shape(c, state, c.was, "base") \cup {Marker(c, state, "base marker", "base")})
           \cup
           (IF c.status = "removed" THEN {}
            ELSE Shape(c, c.status, c.is, "head")
                 \cup {Marker(c, IF c.status = "changed" /\ "topology" \in c.classes
                                 THEN "added" ELSE c.status,
                              "head marker", IF state = "none" THEN "head" ELSE "base")})
<1>1. Phantom(c) = IF state = "none" THEN {} ELSE Shape(c, state, c.was, "base")
  BY DEF Phantom
<1> DEFINE now == IF c.status = "changed" /\ "topology" \in c.classes THEN "added" ELSE c.status
           at == IF state = "none" THEN "head" ELSE "base"
<1>2. Markers(c) = (IF state = "none" THEN {} ELSE {Marker(c, state, "base marker", "base")})
                   \cup (IF c.status = "removed" THEN {} ELSE {Marker(c, now, "head marker", at)})
  BY DEF Markers
<1>3. Current(c) = IF c.status = "removed" THEN {} ELSE Shape(c, c.status, c.is, "head")
  BY DEF Current
<1> HIDE DEF now, at
<1>4. Targets(c) =
        (IF state = "none" THEN {}
         ELSE Shape(c, state, c.was, "base") \cup {Marker(c, state, "base marker", "base")})
        \cup
        (IF c.status = "removed" THEN {}
         ELSE Shape(c, c.status, c.is, "head") \cup {Marker(c, now, "head marker", at)})
  BY <1>1, <1>2, <1>3 DEF Targets
<1> QED BY <1>4 DEF now, at

LEMMA FormExpected ==
  ASSUME NEW c, NEW s, NEW m, NEW l
  PROVE  ShapeOutline(c, Form(s, m, l).state, Form(s, m, l).label)
           \cup {Descriptor("text", Form(s, m, l).marker, {})} = Drawn(c, s, m, l)
<1>1. Form(s, m, l).state = s /\ Form(s, m, l).marker = m /\ Form(s, m, l).label = l
  BY DEF Form
<1> QED BY <1>1 DEF Drawn

\* A relationship is drawn as its forms ask: one or two routes, each with its
\* marker and its label if it has one.
LEMMA RelationshipDrawn ==
  ASSUME NEW c, IsChange(c), c.kind = "relationship" PROVE Exactly(Targets(c), Expected(c))
<1> DEFINE Part(f) == ShapeOutline(c, f.state, f.label) \cup {Descriptor("text", f.marker, {})}
           was(s) == Shape(c, s, c.was, "base") \cup {Marker(c, s, "base marker", "base")}
           is(mark, at) == Shape(c, c.status, c.is, "head") \cup {Marker(c, mark, "head marker", at)}
<1>1. Expected(c) = UNION {Part(f) : f \in Forms(c)}
  BY DEF Expected, ShapeOutline
<1>2. c.status \in {"added", "removed"} => "topology" \in c.classes
  BY RelationshipChange
<1>3. CASE c.status = "added"
  <2>1. Targets(c) = is("added", "head")
    <3>1. PhantomState(c) = "none"
      BY <1>3 DEF PhantomState
    <3>2. Targets(c) = {} \cup is("added", "head")
      BY <1>3, <3>1, RelationshipTargets
    <3> QED BY <3>2
  <2>2. Expected(c) = Drawn(c, "added", "added", c.is)
    BY <1>1, <1>3, FormExpected DEF Forms
  <2>3. Exactly(is("added", "head"), Drawn(c, c.status, "added", c.is))
    BY FormDrawn
  <2> QED BY <1>3, <2>1, <2>2, <2>3
<1>4. CASE c.status = "removed"
  <2>1. Targets(c) = was("removed")
    <3>1. PhantomState(c) = "removed"
      BY <1>4 DEF PhantomState
    <3> QED BY <1>4, <3>1, RelationshipTargets
  <2>2. Expected(c) = Drawn(c, "removed", "removed", c.was)
    BY <1>1, <1>4, FormExpected DEF Forms
  <2>3. Exactly(was("removed"), Drawn(c, "removed", "removed", c.was))
    BY FormDrawn
  <2> QED BY <2>1, <2>2, <2>3
<1>5. CASE c.status \notin {"added", "removed"} /\ "topology" \in c.classes
  <2>1. c.status = "changed"
    BY <1>5, RelationshipChange
  <2>2. Targets(c) = was("removed") \cup is("added", "base")
    <3>1. PhantomState(c) = "removed"
      BY <1>5, <2>1 DEF PhantomState
    <3> QED BY <1>5, <2>1, <3>1, RelationshipTargets
  <2> DEFINE old == Drawn(c, "removed", "removed", c.was)
             new == Drawn(c, "changed", "added", c.is)
  <2>3. Expected(c) = old \cup new
    BY <1>1, <1>5, FormExpected DEF Forms
  <2>4. Exactly(was("removed"), old) /\ Exactly(is("added", "base"), new)
    BY <2>1, FormDrawn
  <2>5. old \cap new = {}
    BY Descriptors DEF Drawn, ShapeOutline
  <2> HIDE DEF was, is, old, new
  <2> QED BY <2>2, <2>3, <2>4, <2>5, ExactlyBoth
<1>6. CASE "topology" \notin c.classes /\ "geometry" \in c.classes
  <2>1. c.status \in {"changed", "rerouted"}
    BY <1>2, <1>6, RelationshipChange
  <2>2. Targets(c) = was("moved-from") \cup is(c.status, "base")
    <3>1. PhantomState(c) = "moved-from"
      BY <1>6, <2>1 DEF PhantomState
    <3> QED BY <1>6, <2>1, <3>1, RelationshipTargets
  <2> DEFINE old == Drawn(c, "moved-from", "moved-from", c.was)
             new == Drawn(c, c.status, c.status, c.is)
  <2>3. Expected(c) = old \cup new
    BY <1>1, <1>6, <2>1, FormExpected DEF Forms
  <2>4. Exactly(was("moved-from"), old) /\ Exactly(is(c.status, "base"), new)
    BY FormDrawn
  <2>5. old \cap new = {}
    BY <2>1, Descriptors DEF Drawn, ShapeOutline
  <2> HIDE DEF was, is, old, new
  <2> QED BY <2>2, <2>3, <2>4, <2>5, ExactlyBoth
<1>7. CASE "topology" \notin c.classes /\ "geometry" \notin c.classes
  <2>1. c.status = "changed"
    BY <1>2, <1>7, RelationshipChange
  <2>2. Targets(c) = is("changed", "head")
    <3>1. PhantomState(c) = "none"
      BY <1>7, <2>1 DEF PhantomState
    <3>2. ~(c.status = "changed" /\ "topology" \in c.classes) /\ c.status # "removed"
      BY <1>7, <2>1
    <3> QED BY ZenonT(60), <2>1, <3>1, <3>2, RelationshipTargets
  <2>3. Expected(c) = Drawn(c, "changed", "changed", c.is)
    BY <1>1, <1>7, <2>1, FormExpected DEF Forms
  <2>4. Exactly(is("changed", "head"), Drawn(c, c.status, "changed", c.is))
    BY FormDrawn
  <2> QED BY <2>1, <2>2, <2>3, <2>4
<1> QED BY <1>3, <1>4, <1>5, <1>6, <1>7

-----------------------------------------------------------------------------
(* The states of the primary elements                                      *)

LEMMA FormStates ==
  ASSUME NEW c, IsChange(c), c.kind = "relationship"
  PROVE  {f.state : f \in Forms(c)} = PrimaryStates(c)
<1>1. \A s, m, l : Form(s, m, l).state = s
  BY DEF Form
<1>2. CASE c.status \in {"added", "removed"}
  <2>1. PrimaryStates(c) = {c.status}
    BY <1>2, RelationshipChange DEF PrimaryStates
  <2>2. \E l : Forms(c) = {Form(c.status, c.status, l)}
    BY <1>2 DEF Forms
  <2> QED BY <1>1, <2>1, <2>2
<1>3. CASE c.status \notin {"added", "removed"} /\ "topology" \in c.classes
  <2>1. PrimaryStates(c) = {"changed", "removed"}
    BY <1>3, RelationshipChange DEF PrimaryStates
  <2>2. Forms(c) = {Form("removed", "removed", c.was), Form("changed", "added", c.is)}
    BY <1>3 DEF Forms
  <2> QED BY <1>1, <2>1, <2>2
<1>4. CASE c.status \notin {"added", "removed"} /\ "topology" \notin c.classes /\ "geometry" \in c.classes
  <2>1. PrimaryStates(c) = {c.status, "moved-from"}
    BY <1>4 DEF PrimaryStates
  <2>2. Forms(c) = {Form("moved-from", "moved-from", c.was), Form(c.status, c.status, c.is)}
    BY <1>4 DEF Forms
  <2> QED BY <1>1, <2>1, <2>2
<1>5. CASE c.status \notin {"added", "removed"} /\ "topology" \notin c.classes /\ "geometry" \notin c.classes
  <2>1. c.status = "changed"
    BY <1>5, RelationshipChange
  <2>2. PrimaryStates(c) = {"changed"}
    BY <1>5, <2>1 DEF PrimaryStates
  <2>3. Forms(c) = {Form("changed", "changed", c.is)}
    BY <1>5 DEF Forms
  <2> QED BY <1>1, <2>2, <2>3
<1> QED BY <1>2, <1>3, <1>4, <1>5

\* What is expected of the primary elements of a change
LEMMA PrimaryExpected ==
  ASSUME NEW c, IsChange(c)
  PROVE  /\ {d \in Expected(c) : d.tag = Primary[c.kind]}
              = {Descriptor(Primary[c.kind], s, c.classes) : s \in PrimaryStates(c)}
         /\ PrimaryStates(c) # {}
<1>1. CASE c.kind = "component"
  BY <1>1, Descriptors DEF Expected, Primary, PrimaryStates
<1>2. CASE c.kind = "boundary"
  BY <1>2, Descriptors DEF Expected, Primary, PrimaryStates
<1>3. CASE c.kind = "relationship"
  <2>1. {d \in Expected(c) : d.tag = "path"} = {Descriptor("path", f.state, c.classes) : f \in Forms(c)}
    BY <1>3, Descriptors DEF Expected
  <2>2. PrimaryStates(c) # {}
    BY <1>3 DEF PrimaryStates
  <2> QED BY <1>3, <2>1, <2>2, FormStates DEF Primary
<1> QED BY <1>1, <1>2, <1>3 DEF IsChange, Kinds

LEMMA DrawnIsValid ==
  ASSUME NEW c, IsChange(c), Exactly(Targets(c), Expected(c)) PROVE ValidDrawing(c, Targets(c))
<1> DEFINE T == Targets(c)
           tag == Primary[c.kind]
           drawn == {e \in T : e.tag = tag}
<1>1. \A e : Describes(e).tag = e.tag /\ Describes(e).state = e.state /\ Describes(e).classes = e.classes
  BY Descriptors DEF Describes
<1>2. {Describes(e) : e \in drawn} = {d \in Expected(c) : d.tag = tag}
  BY <1>1 DEF Exactly
<1>3. {Describes(e) : e \in drawn} = {Descriptor(tag, s, c.classes) : s \in PrimaryStates(c)}
  BY <1>2, PrimaryExpected
<1>4. \A e \in drawn : e.state \in PrimaryStates(c) /\ e.classes = c.classes
  BY <1>1, <1>3, Descriptors
<1>5. \A s \in PrimaryStates(c) : \E e \in drawn : e.state = s
  BY <1>1, <1>3, Descriptors
<1>6. T # {}
  BY <1>5, PrimaryExpected
<1>7. {e.state : e \in drawn} = PrimaryStates(c)
  BY <1>4, <1>5
<1> QED BY <1>4, <1>6, <1>7 DEF ValidDrawing, TargetsMatch, Exactly

LEMMA EveryChangeDrawn == ASSUME NEW c, IsChange(c) PROVE ValidDrawing(c, Targets(c))
<1>1. c.kind \in Kinds
  BY DEF IsChange
<1> QED BY <1>1, ComponentDrawn, BoundaryDrawn, RelationshipDrawn, DrawnIsValid DEF Kinds

\* However two documents differ, every change between them is drawn by
\* elements whose tags, states and classes are exactly those expected of it,
\* each once: buildDeltaSvg never fails validateArchitectureDeltaHtml.
THEOREM DrawingIsExpected == Spec => []DrawingMatchesReceipt
<1>1. DrawingMatchesReceipt
  BY ChangesAre, EveryChangeDrawn DEF DrawingMatchesReceipt
<1> QED BY <1>1, PTL

-----------------------------------------------------------------------------
(* Induction and recursion.  The library states them for operators; here   *)
(* they are about sets and functions, which the provers can instantiate.   *)

LEMMA LeastNatural ==
  ASSUME NEW T, T \subseteq Nat, T # {}
  PROVE  \E x \in T : \A y \in T : x <= y
<1> DEFINE R == {p \in Nat \X Nat : p[1] < p[2]}
<1>1. IsWellFoundedOn(R, Nat)
  BY NatLessThanWellFounded DEF OpToRel
<1>2. \A x, y \in Nat : x < y => <<x, y>> \in R
  OBVIOUS
<1> HIDE DEF R
<1>3. PICK x \in T : \A y \in T : ~(<<y, x>> \in R)
  BY <1>1, WFMin
<1>4. ASSUME NEW y \in T PROVE x <= y
  <2>1. x \in Nat /\ y \in Nat
    OBVIOUS
  <2>2. ~(y < x)
    BY <1>2, <1>3, <2>1
  <2> QED BY <2>1, <2>2
<1> QED BY <1>4

LEMMA SetInduction ==
  ASSUME NEW S, 0 \in S, \A n \in Nat : n \in S => n + 1 \in S
  PROVE  \A n \in Nat : n \in S
<1> DEFINE T == {n \in Nat : n \notin S}
<1>1. SUFFICES ASSUME T # {} PROVE FALSE
  OBVIOUS
<1>2. PICK x \in T : \A y \in T : x <= y
  BY <1>1, LeastNatural
<1>3. x # 0 /\ x - 1 \in Nat
  BY <1>2
<1>4. x - 1 \in S
  BY <1>2, <1>3
<1> QED BY <1>2, <1>3, <1>4

\* h follows G from base up to n, within V.
Follows(h, n, V, base, G) ==
  /\ h \in [0..n -> V] /\ h[0] = base
  /\ \A k \in 1..n : h[k] = G[<<k, h[k - 1]>>]

\* A recursion over the naturals up to n has a solution.
LEMMA Recursion ==
  ASSUME NEW V, NEW base \in V, NEW G, \A k \in Nat : \A v \in V : G[<<k, v>>] \in V
  PROVE  \A n \in Nat : \E h : Follows(h, n, V, base, G)
<1> DEFINE S == {n \in Nat : \E h : Follows(h, n, V, base, G)}
<1>1. 0 \in S
  <2> DEFINE h == [k \in 0..0 |-> base]
  <2>1. Follows(h, 0, V, base, G)
    BY DEF Follows
  <2> QED BY <2>1
<1>2. ASSUME NEW n \in Nat, n \in S PROVE n + 1 \in S
  <2>1. PICK h : Follows(h, n, V, base, G)
    BY <1>2
  <2> DEFINE next == G[<<n + 1, h[n]>>]
             g == [k \in 0..(n + 1) |-> IF k = n + 1 THEN next ELSE h[k]]
  <2>2. next \in V
    <3>1. h[n] \in V
      BY <2>1 DEF Follows
    <3>2. n + 1 \in Nat
      OBVIOUS
    <3>3. G[<<n + 1, h[n]>>] \in V
      BY <3>1, <3>2
    <3> QED BY <3>3
  <2> HIDE DEF next
  <2>3. g \in [0..(n + 1) -> V]
    BY <2>1, <2>2 DEF Follows
  <2>4. g[0] = base
    BY <2>1 DEF Follows
  <2>5. ASSUME NEW k \in 1..(n + 1) PROVE g[k] = G[<<k, g[k - 1]>>]
    <3>1. CASE k = n + 1
      <4>1. g[k] = next /\ g[k - 1] = h[n]
        BY <3>1
      <4> QED BY <3>1, <4>1 DEF next
    <3>2. CASE k \in 1..n
      <4>1. g[k] = h[k] /\ g[k - 1] = h[k - 1]
        BY <3>2
      <4> QED BY <2>1, <3>2, <4>1 DEF Follows
    <3> QED BY <3>1, <3>2
  <2> HIDE DEF g
  <2>6. Follows(g, n + 1, V, base, G)
    BY <2>3, <2>4, <2>5 DEF Follows
  <2> QED BY <2>6
<1> HIDE DEF S
<1>3. \A n \in Nat : n \in S
  BY <1>1, <1>2, SetInduction
<1> QED BY <1>3 DEF S

-----------------------------------------------------------------------------
(* Finite sets                                                             *)

\* The last and the first element of a finite set of numbers
LEMMA FiniteExtremes ==
  ASSUME NEW S, S \subseteq Int, IsFiniteSet(S), S # {}
  PROVE  /\ Min(S) \in S /\ \A y \in S : Min(S) <= y
         /\ Max(S) \in S /\ \A y \in S : Max(S) >= y
<1> DEFINE Has(T) == (\E x \in T : \A y \in T : x >= y) /\ (\E x \in T : \A y \in T : x <= y)
           G == {n \in Nat : \A T \in SUBSET Int :
                    IsFiniteSet(T) /\ Cardinality(T) = n /\ T # {} => Has(T)}
<1>1. 0 \in G
  BY FS_EmptySet
<1>2. ASSUME NEW n \in Nat, n \in G PROVE n + 1 \in G
  <2> SUFFICES ASSUME NEW T \in SUBSET Int, IsFiniteSet(T), Cardinality(T) = n + 1, T # {}
               PROVE  Has(T)
    OBVIOUS
  <2>1. PICK x \in T : TRUE
    OBVIOUS
  <2>2. IsFiniteSet(T \ {x}) /\ Cardinality(T \ {x}) = n
    <3>1. IsFiniteSet(T \ {x}) /\ Cardinality(T \ {x}) = Cardinality(T) - 1
      BY <2>1, FS_RemoveElement
    <3> QED BY <3>1
  <2>3. CASE T \ {x} = {}
    <3>1. \A y \in T : y = x /\ x \in Int
      BY <2>3
    <3> QED BY <2>1, <3>1
  <2>4. CASE T \ {x} # {}
    <3>1. Has(T \ {x})
      BY <1>2, <2>2, <2>4
    <3>2. PICK hi \in T \ {x} : \A y \in T \ {x} : hi >= y
      BY <3>1
    <3>3. PICK lo \in T \ {x} : \A y \in T \ {x} : lo <= y
      BY <3>1
    <3>4. \E m \in {x, hi} : \A y \in T : m >= y
      <4>1. x \in Int /\ hi \in Int
        OBVIOUS
      <4>2. \A y \in T : y \in Int /\ (y = x \/ y \in T \ {x})
        OBVIOUS
      <4>3. CASE x >= hi
        BY <3>2, <4>1, <4>2, <4>3
      <4>4. CASE hi >= x
        BY <3>2, <4>1, <4>2, <4>4
      <4> QED BY <4>1, <4>3, <4>4
    <3>5. \E m \in {x, lo} : \A y \in T : m <= y
      <4>1. x \in Int /\ lo \in Int
        OBVIOUS
      <4>2. \A y \in T : y \in Int /\ (y = x \/ y \in T \ {x})
        OBVIOUS
      <4>3. CASE x <= lo
        BY <3>3, <4>1, <4>2, <4>3
      <4>4. CASE lo <= x
        BY <3>3, <4>1, <4>2, <4>4
      <4> QED BY <4>1, <4>3, <4>4
    <3> QED BY <3>4, <3>5
  <2> QED BY <2>3, <2>4
<1> HIDE DEF G
<1>3. Cardinality(S) \in G
  BY <1>1, <1>2, SetInduction, FS_CardinalityType
<1>4. Has(S)
  BY <1>3 DEF G
<1> QED BY <1>4 DEF Min, Max

LEMMA FiniteImage ==
  ASSUME NEW S, IsFiniteSet(S), NEW f
  PROVE  /\ IsFiniteSet({f[x] : x \in S})
         /\ Cardinality({f[x] : x \in S}) <= Cardinality(S)
<1> DEFINE T == {f[x] : x \in S}
           g == [x \in S |-> f[x]]
<1>1. g \in Surjection(S, T)
  BY DEF Surjection
<1> HIDE DEF g, T
<1>2. IsFiniteSet(T) /\ Cardinality(T) <= Cardinality(S)
  BY <1>1, FS_Surjection
<1> QED BY <1>2 DEF T

LEMMA FewerInSubset ==
  ASSUME NEW S, IsFiniteSet(S), NEW T, T \subseteq S, NEW x \in S, x \notin T
  PROVE  IsFiniteSet(T) /\ Cardinality(T) < Cardinality(S)
BY FS_Subset, FS_CardinalityType

-----------------------------------------------------------------------------
(* Boundaries and their titles                                             *)

IntBoxes == [x : Int, y : Int, w : Int, h : Int]

HasBoxes(d) ==
  /\ IsFiniteSet(DOMAIN d.components) /\ DOMAIN d.components \subseteq Int
  /\ d.components \in [DOMAIN d.components -> [x : Int, y : Int, w : Nat, h : Nat]]

IsBoundary(d, b) ==
  /\ b.pad \in Int /\ b.title \in Int /\ b.least \in Int
  /\ b.wraps # {} /\ b.wraps \subseteq DOMAIN d.components

LEMMA MeasuresOfMembers ==
  ASSUME NEW d, HasBoxes(d), NEW b, IsBoundary(d, b), NEW F \in [b.wraps -> Int]
  PROVE  Min({F[k] : k \in b.wraps}) \in Int /\ Max({F[k] : k \in b.wraps}) \in Int
<1> DEFINE S == {F[k] : k \in b.wraps}
<1>1. IsFiniteSet(b.wraps) /\ b.wraps # {}
  BY FS_Subset DEF HasBoxes, IsBoundary
<1>2. IsFiniteSet(S) /\ S \subseteq Int /\ S # {}
  BY <1>1, FiniteImage
<1> HIDE DEF S
<1>3. Min(S) \in Int /\ Max(S) \in Int
  BY <1>2, FiniteExtremes
<1> QED BY <1>3 DEF S

LEMMA BoundaryRectIsBox ==
  ASSUME NEW d, HasBoxes(d), NEW b, IsBoundary(d, b)
  PROVE  BoundaryRect(d, b) \in IntBoxes
<1> DEFINE members == {d.components[k] : k \in b.wraps}
           X == [k \in b.wraps |-> d.components[k].x]
           Y == [k \in b.wraps |-> d.components[k].y]
           R == [k \in b.wraps |-> d.components[k].x + d.components[k].w]
           B == [k \in b.wraps |-> d.components[k].y + d.components[k].h]
<1>1. \A k \in b.wraps : d.components[k] \in [x : Int, y : Int, w : Nat, h : Nat]
  BY DEF HasBoxes, IsBoundary
<1>2. /\ X \in [b.wraps -> Int] /\ Y \in [b.wraps -> Int]
      /\ R \in [b.wraps -> Int] /\ B \in [b.wraps -> Int]
  BY <1>1
<1>3. /\ {m.x : m \in members} = {X[k] : k \in b.wraps}
      /\ {m.y : m \in members} = {Y[k] : k \in b.wraps}
      /\ {m.x + m.w : m \in members} = {R[k] : k \in b.wraps}
      /\ {m.y + m.h : m \in members} = {B[k] : k \in b.wraps}
  OBVIOUS
<1> HIDE DEF X, Y, R, B, members
<1>4. /\ Min({m.x : m \in members}) \in Int /\ Min({m.y : m \in members}) \in Int
      /\ Max({m.x + m.w : m \in members}) \in Int /\ Max({m.y + m.h : m \in members}) \in Int
  <2>1. \A F \in [b.wraps -> Int] :
          Min({F[k] : k \in b.wraps}) \in Int /\ Max({F[k] : k \in b.wraps}) \in Int
    BY MeasuresOfMembers
  <2>2. Min({m.x : m \in members}) \in Int
    BY <1>2, <1>3, <2>1
  <2>3. Min({m.y : m \in members}) \in Int
    BY <1>2, <1>3, <2>1
  <2>4. Max({m.x + m.w : m \in members}) \in Int
    BY <1>2, <1>3, <2>1
  <2>5. Max({m.y + m.h : m \in members}) \in Int
    BY <1>2, <1>3, <2>1
  <2> QED BY <2>2, <2>3, <2>4, <2>5
<1>5. b.pad \in Int /\ Most(b.pad, 22 * Px) \in Int
  BY DEF IsBoundary, Most, Px
<1> DEFINE left == Min({m.x : m \in members})
           top == Min({m.y : m \in members})
           right == Max({m.x + m.w : m \in members})
           bottom == Max({m.y + m.h : m \in members})
           above == Most(b.pad, 22 * Px)
<1>6. BoundaryRect(d, b)
        = Rect(left - b.pad, top - above, right - left + 2 * b.pad, bottom - top + above + 20 * Px)
  BY DEF BoundaryRect, members
<1>7. left \in Int /\ top \in Int /\ right \in Int /\ bottom \in Int /\ above \in Int
  BY <1>4, <1>5
<1> HIDE DEF left, top, right, bottom, above
<1> QED BY <1>5, <1>6, <1>7 DEF Rect, IntBoxes, Px

LEMMA WidenedIsBox ==
  ASSUME NEW d, HasBoxes(d), NEW b, IsBoundary(d, b)
  PROVE  Widened(d, b) \in IntBoxes
<1> DEFINE r == BoundaryRect(d, b)
           extra == IF d.profile = "none" THEN 0 ELSE Most(0, b.least + 8 * Px - r.w)
           wide == Widened(d, b)
<1>1. r \in IntBoxes
  BY BoundaryRectIsBox
<1>2. wide = [r EXCEPT !.x = @ - extra \div 2, !.w = @ + extra]
  BY DEF Widened
<1> HIDE DEF r
<1>3. extra \in Int
  BY <1>1 DEF IsBoundary, IntBoxes, Most, Px
<1> HIDE DEF extra, wide
<1>4. r.x \in Int /\ r.w \in Int
  BY <1>1 DEF IntBoxes
<1>5. r.x - extra \div 2 \in Int /\ r.w + extra \in Int
  BY <1>3, <1>4
<1>6. wide = [r EXCEPT !.x = r.x - extra \div 2, !.w = r.w + extra]
  BY <1>1, <1>2 DEF IntBoxes
<1> QED BY <1>1, <1>5, <1>6 DEF IntBoxes, wide

LEMMA FirstTitleIsBox ==
  ASSUME NEW d, HasBoxes(d), NEW b, IsBoundary(d, b)
  PROVE  FirstTitle(d, b) \in IntBoxes
<1> DEFINE wide == Widened(d, b)
           Y == [k \in b.wraps |-> d.components[k].y]
           top == Min({d.components[k].y : k \in b.wraps})
<1>1. wide \in IntBoxes
  BY WidenedIsBox
<1>2. top \in Int
  <2>1. Y \in [b.wraps -> Int]
    BY DEF HasBoxes, IsBoundary
  <2>2. {d.components[k].y : k \in b.wraps} = {Y[k] : k \in b.wraps}
    OBVIOUS
  <2> HIDE DEF Y
  <2>3. Min({Y[k] : k \in b.wraps}) \in Int
    BY <2>1, MeasuresOfMembers
  <2> QED BY <2>2, <2>3
<1>3. FirstTitle(d, b) = Rect(wide.x + 4 * Px, top - 20 * Px,
                              Least(Most(0, wide.w - 8 * Px), b.title), 16 * Px)
  BY DEF FirstTitle
<1> HIDE DEF top, wide
<1>4. wide.x \in Int /\ wide.w \in Int /\ b.title \in Int
  BY <1>1 DEF IntBoxes, IsBoundary
<1> QED BY <1>2, <1>3, <1>4 DEF Rect, Least, Most, Px, IntBoxes

\* Overlap is symmetric.
LEMMA OverlapBothWays ==
  ASSUME NEW r, NEW q, ~RectsOverlap(r, q, 0) PROVE ~RectsOverlap(q, r, 0)
BY DEF RectsOverlap

\* A raised title is above everything that was in its way, and higher than before.
LEMMA RaisedIsAbove ==
  ASSUME NEW t \in IntBoxes, NEW blockers, IsFiniteSet(blockers), blockers \subseteq IntBoxes,
         blockers # {}, \A b \in blockers : RectsOverlap(t, b, 0)
  PROVE  /\ Raised(t, blockers) \in IntBoxes
         /\ \A b \in blockers : Raised(t, blockers).y + Raised(t, blockers).h <= b.y
         /\ Raised(t, blockers).h = t.h /\ Raised(t, blockers).y <= t.y
<1> DEFINE tops == {b.y : b \in blockers}
           Y == [b \in blockers |-> b.y]
           high == Min(tops)
           s == Raised(t, blockers)
<1>1. high \in tops /\ \A y \in tops : high <= y
  <2>1. tops = {Y[b] : b \in blockers} /\ tops # {}
    OBVIOUS
  <2>2. tops \subseteq Int
    BY DEF IntBoxes
  <2> HIDE DEF tops, Y
  <2>3. IsFiniteSet(tops)
    BY <2>1, FiniteImage
  <2> QED BY <2>1, <2>2, <2>3, FiniteExtremes
<1>2. high \in Int /\ \A b \in blockers : high <= b.y
  BY <1>1 DEF IntBoxes
<1>3. high < t.y + t.h
  <2>1. PICK b \in blockers : high = b.y
    BY <1>1
  <2>2. ~(t.y + t.h + 0 <= b.y)
    BY DEF RectsOverlap
  <2>3. b.y \in Int /\ t.y \in Int /\ t.h \in Int
    BY DEF IntBoxes
  <2> QED BY <2>1, <2>2, <2>3
<1>4. s = [t EXCEPT !.y = high - 2 * Px - t.h]
  BY DEF Raised
<1> HIDE DEF high, s
<1>5. s \in IntBoxes /\ s.y = high - 8 - t.h /\ s.h = t.h
  BY <1>2, <1>4 DEF IntBoxes, Px
<1>6. t.y \in Int /\ t.h \in Int /\ \A b \in blockers : b.y \in Int
  BY DEF IntBoxes
<1>7. s.y <= t.y /\ \A b \in blockers : s.y + s.h <= b.y
  BY <1>2, <1>3, <1>5, <1>6
<1> QED BY <1>5, <1>7 DEF s

\* The loop ends within its tries: a box that a title has been raised above is
\* never in its way again, so each raise leaves fewer.
LEMMA SettledIsClear ==
  ASSUME NEW title \in IntBoxes, NEW boxes, IsFiniteSet(boxes), boxes \subseteq IntBoxes,
         NEW tries \in Nat, Cardinality(boxes) < tries
  PROVE  /\ Settled(title, boxes, tries) \in IntBoxes
         /\ \A b \in boxes : ~RectsOverlap(Settled(title, boxes, tries), b, 0)
<1> DEFINE blockers(t) == {b \in boxes : RectsOverlap(t, b, 0)}
           Step(t) == IF blockers(t) = {} THEN t ELSE Raised(t, blockers(t))
           passed(t) == {b \in boxes : t.y + t.h <= b.y}
<1>1. ASSUME NEW t \in IntBoxes
      PROVE  /\ Step(t) \in IntBoxes /\ passed(t) \subseteq passed(Step(t))
             /\ blockers(t) = {} => Step(t) = t
             /\ blockers(t) # {} => \E b \in passed(Step(t)) : b \notin passed(t)
  <2>1. CASE blockers(t) = {}
    BY <2>1
  <2>2. CASE blockers(t) # {}
    <3> DEFINE B == blockers(t)
               s == Raised(t, B)
    <3>1. IsFiniteSet(B) /\ B \subseteq IntBoxes /\ B # {} /\ \A b \in B : RectsOverlap(t, b, 0)
      BY <2>2, FS_Subset
    <3>2. Step(t) = s
      BY <2>2
    <3>3. B \subseteq boxes
      OBVIOUS
    <3> HIDE DEF B
    <3>4. /\ s \in IntBoxes /\ \A b \in B : s.y + s.h <= b.y
          /\ s.h = t.h /\ s.y <= t.y
      BY <3>1, RaisedIsAbove
    <3> HIDE DEF s
    <3>5. /\ s.y \in Int /\ t.y \in Int /\ t.h \in Int
          /\ \A b \in boxes : b.y \in Int
      BY <3>4 DEF IntBoxes
    <3>6. passed(t) \subseteq passed(s)
      BY <3>4, <3>5
    <3>7. PICK b \in B : TRUE
      BY <3>1
    <3>8. b \in passed(s)
      BY <3>3, <3>4, <3>7
    <3>9. b \notin passed(t)
      <4>1. ~(t.y + t.h + 0 <= b.y)
        BY <3>1, <3>7 DEF RectsOverlap
      <4> QED BY <4>1, <3>3, <3>5, <3>7
    <3> HIDE DEF Step, passed
    <3> QED BY <2>2, <3>2, <3>4, <3>6, <3>8, <3>9
  <2> QED BY <2>1, <2>2
<1> DEFINE Solves(h) == h = [n \in 0..tries |-> IF n = 0 THEN title ELSE Step(h[n - 1])]
           at == CHOOSE h : Solves(h)
<1>2. Settled(title, boxes, tries) = at[tries]
  BY DEF Settled
<1>3. Solves(at)
  <2> DEFINE G == [p \in Nat \X IntBoxes |-> Step(p[2])]
  <2>1. \A k \in Nat : \A t \in IntBoxes : G[<<k, t>>] = Step(t)
    OBVIOUS
  <2>2. \A k \in Nat : \A t \in IntBoxes : G[<<k, t>>] \in IntBoxes
    BY <1>1, <2>1
  <2> HIDE DEF G, Step
  <2>3. PICK h : Follows(h, tries, IntBoxes, title, G)
    BY <2>2, Recursion
  <2>4. ASSUME NEW k \in 1..tries PROVE h[k] = Step(h[k - 1])
    <3>1. h[k] = G[<<k, h[k - 1]>>] /\ h[k - 1] \in IntBoxes /\ k \in Nat
      BY <2>3 DEF Follows
    <3> QED BY <2>1, <3>1
  <2>5. Solves(h)
    BY <2>3, <2>4 DEF Follows
  <2> QED BY <2>5
<1>4. at[0] = title /\ \A n \in Nat : n + 1 <= tries => at[n + 1] = Step(at[n])
  <2> HIDE DEF at, Step
  <2>1. at[0] = title
    BY <1>3
  <2>2. ASSUME NEW n \in Nat, n + 1 <= tries PROVE at[n + 1] = Step(at[n])
    <3>1. n + 1 \in 0..tries /\ n + 1 # 0 /\ (n + 1) - 1 = n
      BY <2>2
    <3> QED BY <1>3, <3>1
  <2> QED BY <2>1, <2>2
<1> HIDE DEF at, Step, passed, blockers
<1>5. \A n \in Nat : n <= tries =>
        /\ at[n] \in IntBoxes
        /\ blockers(at[n]) = {} \/ Cardinality(passed(at[n])) >= n
  <2> DEFINE Good == {n \in Nat : n <= tries =>
                        /\ at[n] \in IntBoxes
                        /\ blockers(at[n]) = {} \/ Cardinality(passed(at[n])) >= n}
  <2>1. \A t : IsFiniteSet(passed(t)) /\ passed(t) \subseteq boxes /\ Cardinality(passed(t)) \in Nat
    BY FS_Subset, FS_CardinalityType DEF passed
  <2>2. 0 \in Good
    BY <1>4, <2>1
  <2>3. ASSUME NEW n \in Nat, n \in Good PROVE n + 1 \in Good
    <3> SUFFICES ASSUME n + 1 <= tries
                 PROVE  /\ at[n + 1] \in IntBoxes
                        /\ blockers(at[n + 1]) # {} => Cardinality(passed(at[n + 1])) >= n + 1
      OBVIOUS
    <3>1. at[n + 1] = Step(at[n]) /\ at[n] \in IntBoxes
      BY <1>4, <2>3
    <3>2. ASSUME blockers(at[n + 1]) # {} PROVE Cardinality(passed(at[n + 1])) >= n + 1
      <4>1. blockers(at[n]) # {}
        BY <1>1, <3>1, <3>2
      <4>2. Cardinality(passed(at[n])) >= n
        BY <2>3, <4>1
      <4>3. PICK b \in passed(at[n + 1]) : b \notin passed(at[n])
        BY <1>1, <3>1, <4>1
      <4>4. passed(at[n]) \subseteq passed(at[n + 1])
        BY <1>1, <3>1
      <4>5. Cardinality(passed(at[n])) < Cardinality(passed(at[n + 1]))
        BY <2>1, <4>3, <4>4, FewerInSubset
      <4> QED BY <2>1, <4>2, <4>5
    <3> QED BY <1>1, <3>1, <3>2
  <2> HIDE DEF Good
  <2>4. \A n \in Nat : n \in Good
    BY <2>2, <2>3, SetInduction
  <2> QED BY <2>4 DEF Good
<1>6. blockers(at[tries]) = {}
  <2>1. Cardinality(passed(at[tries])) <= Cardinality(boxes) /\ Cardinality(boxes) \in Nat
        /\ Cardinality(passed(at[tries])) \in Nat
    BY FS_Subset, FS_CardinalityType DEF passed
  <2> QED BY <1>5, <2>1
<1> QED BY <1>2, <1>5, <1>6 DEF blockers

-----------------------------------------------------------------------------
(* Ranks                                                                   *)

\* In a finite strict order what comes later has the greater rank.
LEMMA RanksRise ==
  ASSUME NEW S, IsFiniteSet(S), NEW R,
         \A x \in S : <<x, x>> \notin R,
         \A x, y, z \in S : <<x, y>> \in R /\ <<y, z>> \in R => <<x, z>> \in R,
         NEW x \in S, NEW y \in S, <<x, y>> \in R
  PROVE  /\ Cardinality({z \in S : <<z, x>> \in R}) \in Nat
         /\ Cardinality({z \in S : <<z, y>> \in R}) \in Nat
         /\ Cardinality({z \in S : <<z, x>> \in R}) < Cardinality({z \in S : <<z, y>> \in R})
         /\ Cardinality({z \in S : <<z, y>> \in R}) < Cardinality(S)
<1> DEFINE below(u) == {z \in S : <<z, u>> \in R}
<1>1. below(x) \subseteq below(y) /\ x \in below(y) /\ x \notin below(x)
  OBVIOUS
<1>2. below(y) \subseteq S /\ y \notin below(y)
  OBVIOUS
<1>3. IsFiniteSet(below(x)) /\ IsFiniteSet(below(y))
  BY FS_Subset
<1> HIDE DEF below
<1>4. Cardinality(below(x)) < Cardinality(below(y))
  BY <1>1, <1>3, FewerInSubset
<1>5. Cardinality(below(y)) < Cardinality(S)
  BY <1>2, FewerInSubset
<1>6. Cardinality(below(x)) \in Nat /\ Cardinality(below(y)) \in Nat
  BY <1>3, FS_CardinalityType
<1> QED BY <1>4, <1>5, <1>6 DEF below

\* Where no two share a rank, every rank is taken.
LEMMA RanksAreTaken ==
  ASSUME NEW n \in Nat, NEW r \in [1..n -> 1..n],
         \A i, j \in 1..n : i # j => r[i] # r[j]
  PROVE  \A m \in 1..n : \E i \in 1..n : r[i] = m
<1>1. r \in Injection(1..n, 1..n)
  BY DEF Injection, IsInjective
<1>2. IsFiniteSet(1..n)
  BY FS_Interval
<1>3. r \in Surjection(1..n, 1..n)
  BY <1>1, <1>2, FS_Injection
<1> QED BY <1>3 DEF Surjection

\* r ranks 1..n by A, then by index.
RanksBy(r, n, A) ==
  r = [i \in 1..n |->
         Cardinality({j \in 1..n : A[j] < A[i] \/ (A[j] = A[i] /\ j < i)}) + 1]

\* By area, then by index: the order in which titles are placed.
LEMMA TitleOrder ==
  ASSUME NEW n \in Nat, NEW A \in [1..n -> Int], NEW r, RanksBy(r, n, A)
  PROVE  /\ r \in [1..n -> 1..n]
         /\ \A i, j \in 1..n : i # j => r[i] # r[j]
<1> DEFINE S == 1..n
           R == {p \in S \X S : A[p[1]] < A[p[2]] \/ (A[p[1]] = A[p[2]] /\ p[1] < p[2])}
<1>1. IsFiniteSet(S) /\ Cardinality(S) = n
  BY FS_Interval
<1>2. \A i, j \in S : <<i, j>> \in R <=> A[i] < A[j] \/ (A[i] = A[j] /\ i < j)
  OBVIOUS
<1>3. \A x \in S : <<x, x>> \notin R
  BY <1>2
<1>4. \A x, y, z \in S : <<x, y>> \in R /\ <<y, z>> \in R => <<x, z>> \in R
  <2> SUFFICES ASSUME NEW x \in S, NEW y \in S, NEW z \in S, <<x, y>> \in R, <<y, z>> \in R
               PROVE  <<x, z>> \in R
    OBVIOUS
  <2>1. A[x] \in Int /\ A[y] \in Int /\ A[z] \in Int /\ x \in Int /\ y \in Int /\ z \in Int
    OBVIOUS
  <2> QED BY <1>2, <2>1
<1>5. \A x, y \in S : x # y => <<x, y>> \in R \/ <<y, x>> \in R
  <2> SUFFICES ASSUME NEW x \in S, NEW y \in S, x # y
               PROVE  <<x, y>> \in R \/ <<y, x>> \in R
    OBVIOUS
  <2>1. A[x] \in Int /\ A[y] \in Int /\ x \in Int /\ y \in Int
    OBVIOUS
  <2> QED BY <1>2, <2>1
<1>6. \A i \in S : {j \in 1..n : A[j] < A[i] \/ (A[j] = A[i] /\ j < i)}
                    = {z \in S : <<z, i>> \in R}
  BY <1>2
<1>7. \A i \in S : r[i] = Cardinality({z \in S : <<z, i>> \in R}) + 1
  BY <1>6 DEF RanksBy
<1> HIDE DEF R
<1>8. \A i \in S : /\ Cardinality({z \in S : <<z, i>> \in R}) \in Nat
                   /\ Cardinality({z \in S : <<z, i>> \in R}) < n
  <2> SUFFICES ASSUME NEW i \in S
               PROVE  /\ Cardinality({z \in S : <<z, i>> \in R}) \in Nat
                      /\ Cardinality({z \in S : <<z, i>> \in R}) < n
    OBVIOUS
  <2> DEFINE T == {z \in S : <<z, i>> \in R}
  <2>1. T \subseteq S /\ i \notin T
    BY <1>3
  <2> HIDE DEF T, S
  <2>2. IsFiniteSet(T) /\ Cardinality(T) < Cardinality(S)
    BY <1>1, <2>1, FewerInSubset
  <2>3. Cardinality(T) \in Nat
    BY <2>2, FS_CardinalityType
  <2> QED BY <1>1, <2>2, <2>3 DEF T
<1>9. r \in [1..n -> 1..n]
  <2>0. r = [i \in S |-> r[i]]
    BY DEF RanksBy
  <2>1. ASSUME NEW i \in S PROVE r[i] \in 1..n
    <3>1. r[i] = Cardinality({z \in S : <<z, i>> \in R}) + 1
      BY <1>7
    <3>2. /\ Cardinality({z \in S : <<z, i>> \in R}) \in Nat
          /\ Cardinality({z \in S : <<z, i>> \in R}) < n
      BY <1>8
    <3> QED BY <3>1, <3>2
  <2> QED BY <2>0, <2>1
<1>10. \A i, j \in S : <<i, j>> \in R => r[i] # r[j]
  <2> SUFFICES ASSUME NEW i \in S, NEW j \in S, <<i, j>> \in R PROVE r[i] # r[j]
    OBVIOUS
  <2> HIDE DEF S
  <2>1. Cardinality({z \in S : <<z, i>> \in R}) < Cardinality({z \in S : <<z, j>> \in R})
    BY <1>1, <1>3, <1>4, RanksRise
  <2>2. /\ r[i] = Cardinality({z \in S : <<z, i>> \in R}) + 1
        /\ Cardinality({z \in S : <<z, i>> \in R}) \in Nat
    BY <1>7, <1>8
  <2>3. /\ r[j] = Cardinality({z \in S : <<z, j>> \in R}) + 1
        /\ Cardinality({z \in S : <<z, j>> \in R}) \in Nat
    BY <1>7, <1>8
  <2> QED BY <2>1, <2>2, <2>3
<1> QED BY <1>5, <1>9, <1>10

-----------------------------------------------------------------------------
(* Titles                                                                  *)

\* Titles placed so far, clear of the components and of each other
ClearTitles(d) ==
  {s \in Seq(IntBoxes) :
     \A i \in 1..Len(s) :
       /\ \A k \in DOMAIN d.components : ~RectsOverlap(s[i], d.components[k], 0)
       /\ \A j \in 1..Len(s) : i # j => ~RectsOverlap(s[i], s[j], 0)}

\* A title settled over the components and the ones before it may join them.
LEMMA OneMoreTitle ==
  ASSUME NEW d, HasBoxes(d), NEW before \in ClearTitles(d), NEW title \in IntBoxes,
         NEW tries \in Nat, Len(before) + Cardinality(DOMAIN d.components) < tries
  PROVE  /\ Append(before, Settled(title, Range(before) \cup Range(d.components), tries))
              \in ClearTitles(d)
         /\ Len(Append(before, Settled(title, Range(before) \cup Range(d.components), tries)))
              = Len(before) + 1
<1> DEFINE boxes == Range(before) \cup Range(d.components)
           s == Settled(title, boxes, tries)
           after == Append(before, s)
           m == Len(before)
<1>1. before \in Seq(IntBoxes) /\ m \in Nat /\ DOMAIN before = 1..m
  BY DEF ClearTitles
<1>2. /\ IsFiniteSet(Range(before)) /\ Cardinality(Range(before)) <= m
      /\ Range(before) \subseteq IntBoxes
  <2>1. \A k \in Nat : IsFiniteSet(1..k) /\ Cardinality(1..k) = k
    BY FS_Interval
  <2>2. Range(before) = {before[i] : i \in 1..m}
    BY <1>1 DEF Range
  <2> HIDE DEF m
  <2>3. IsFiniteSet(1..m) /\ Cardinality(1..m) = m
    BY <1>1, <2>1
  <2>4. /\ IsFiniteSet({before[i] : i \in 1..m})
        /\ Cardinality({before[i] : i \in 1..m}) <= Cardinality(1..m)
    BY <2>3, FiniteImage
  <2>5. \A i \in 1..m : before[i] \in IntBoxes
    BY <1>1 DEF m
  <2> QED BY <2>2, <2>3, <2>4, <2>5
<1>3. /\ IsFiniteSet(Range(d.components))
      /\ Cardinality(Range(d.components)) <= Cardinality(DOMAIN d.components)
      /\ Range(d.components) \subseteq IntBoxes
  <2>1. Range(d.components) = {d.components[k] : k \in DOMAIN d.components}
    BY DEF Range
  <2>2. IsFiniteSet(DOMAIN d.components)
    BY DEF HasBoxes
  <2>3. /\ IsFiniteSet(Range(d.components))
        /\ Cardinality(Range(d.components)) <= Cardinality(DOMAIN d.components)
    BY <2>1, <2>2, FiniteImage
  <2>4. \A k \in DOMAIN d.components : d.components[k] \in [x : Int, y : Int, w : Nat, h : Nat]
    BY DEF HasBoxes
  <2>5. [x : Int, y : Int, w : Nat, h : Nat] \subseteq IntBoxes
    BY DEF IntBoxes
  <2> QED BY <2>1, <2>3, <2>4, <2>5
<1>4. IsFiniteSet(boxes) /\ boxes \subseteq IntBoxes /\ Cardinality(boxes) < tries
  <2>1. /\ IsFiniteSet(boxes)
        /\ Cardinality(boxes) = Cardinality(Range(before)) + Cardinality(Range(d.components))
                                  - Cardinality(Range(before) \cap Range(d.components))
    BY <1>2, <1>3, FS_Union
  <2>2. /\ Cardinality(Range(before) \cap Range(d.components)) \in Nat
        /\ Cardinality(Range(before)) \in Nat /\ Cardinality(Range(d.components)) \in Nat
        /\ Cardinality(DOMAIN d.components) \in Nat
    BY <1>2, <1>3, FS_Intersection, FS_CardinalityType DEF HasBoxes
  <2> HIDE DEF m
  <2>3. Cardinality(boxes) < tries
    BY <1>1, <1>2, <1>3, <2>1, <2>2 DEF m
  <2> QED BY <1>2, <1>3, <2>1, <2>3
<1> HIDE DEF boxes
<1>5. s \in IntBoxes /\ \A b \in boxes : ~RectsOverlap(s, b, 0)
  BY <1>4, SettledIsClear
<1>6. /\ \A k \in DOMAIN d.components : d.components[k] \in boxes
      /\ \A i \in 1..m : before[i] \in boxes
  BY <1>1 DEF boxes, Range
<1> HIDE DEF s
<1>7. /\ after \in Seq(IntBoxes) /\ Len(after) = m + 1
      /\ after[m + 1] = s /\ \A i \in 1..m : after[i] = before[i]
  BY <1>1, <1>5
<1> HIDE DEF after
<1>8. ASSUME NEW i \in 1..Len(after)
      PROVE  /\ \A k \in DOMAIN d.components : ~RectsOverlap(after[i], d.components[k], 0)
             /\ \A j \in 1..Len(after) : i # j => ~RectsOverlap(after[i], after[j], 0)
  <2>1. CASE i = m + 1
    <3>1. \A k \in DOMAIN d.components : ~RectsOverlap(after[i], d.components[k], 0)
      BY <1>5, <1>6, <1>7, <2>1
    <3>2. ASSUME NEW j \in 1..Len(after), i # j PROVE ~RectsOverlap(after[i], after[j], 0)
      <4>1. j \in 1..m
        BY <1>1, <1>7, <2>1, <3>2
      <4> QED BY <1>5, <1>6, <1>7, <2>1, <4>1
    <3> QED BY <3>1, <3>2
  <2>2. CASE i \in 1..m
    <3>1. \A k \in DOMAIN d.components : ~RectsOverlap(after[i], d.components[k], 0)
      BY <1>7, <2>2 DEF ClearTitles
    <3>2. ASSUME NEW j \in 1..Len(after), i # j PROVE ~RectsOverlap(after[i], after[j], 0)
      <4>1. CASE j \in 1..m
        BY <1>7, <2>2, <3>2, <4>1 DEF ClearTitles
      <4>2. CASE j = m + 1
        <5>1. ~RectsOverlap(s, before[i], 0)
          BY <1>5, <1>6, <2>2
        <5>2. ~RectsOverlap(before[i], s, 0)
          BY <5>1, OverlapBothWays
        <5> QED BY <1>7, <2>2, <4>2, <5>2
      <4>3. j \in 1..m \/ j = m + 1
        BY <1>1, <1>7
      <4> QED BY <4>1, <4>2, <4>3
    <3> QED BY <3>1, <3>2
  <2>3. i = m + 1 \/ i \in 1..m
    BY <1>1, <1>7
  <2> QED BY <2>1, <2>2, <2>3
<1>9. after \in ClearTitles(d)
  BY <1>7, <1>8 DEF ClearTitles
<1> QED BY <1>7, <1>9 DEF after, s, boxes

LEMMA TitlesPlacedClear ==
  ASSUME NEW d, HasBoxes(d), Len(d.boundaries) \in Nat,
         \A i \in 1..Len(d.boundaries) : IsBoundary(d, d.boundaries[i])
  PROVE  /\ DOMAIN Titles(d) = 1..Len(d.boundaries)
         /\ \A i \in 1..Len(d.boundaries) :
              /\ Titles(d)[i] \in IntBoxes
              /\ \A k \in DOMAIN d.components : ~RectsOverlap(Titles(d)[i], d.components[k], 0)
              /\ \A j \in 1..Len(d.boundaries) :
                   i # j => ~RectsOverlap(Titles(d)[i], Titles(d)[j], 0)
<1> DEFINE n == Len(d.boundaries)
           area(i) == LET r == BoundaryRect(d, d.boundaries[i]) IN r.w * r.h
           first(i, j) == area(i) < area(j) \/ (area(i) = area(j) /\ i < j)
           rank(i) == Cardinality({j \in 1..n : first(j, i)}) + 1
           at(m) == CHOOSE i \in 1..n : rank(i) = m
           Step(m, before) ==
             Append(before, Settled(FirstTitle(d, d.boundaries[at(m)]),
                                    Range(before) \cup Range(d.components), Tries(d)))
           Solves(f) == f = [m \in 0..n |-> IF m = 0 THEN <<>> ELSE Step(m, f[m - 1])]
           placed == CHOOSE f : Solves(f)
<1>1. Titles(d) = [i \in 1..n |-> placed[n][rank(i)]]
  BY DEF Titles
<1>2. /\ \A i \in 1..n : rank(i) \in 1..n
      /\ \A i, j \in 1..n : i # j => rank(i) # rank(j)
  <2> DEFINE A == [i \in 1..n |-> area(i)]
             r == [i \in 1..n |-> rank(i)]
  <2>1. \A i \in 1..n : area(i) \in Int
    <3> SUFFICES ASSUME NEW i \in 1..n PROVE area(i) \in Int
      OBVIOUS
    <3>1. BoundaryRect(d, d.boundaries[i]) \in IntBoxes
      BY BoundaryRectIsBox
    <3> QED BY <3>1 DEF IntBoxes
  <2> HIDE DEF area
  <2>2. A \in [1..n -> Int]
    BY <2>1
  <2>3. \A i, j \in 1..n : first(i, j) <=> A[i] < A[j] \/ (A[i] = A[j] /\ i < j)
    OBVIOUS
  <2>4. \A i \in 1..n : {j \in 1..n : first(j, i)}
                         = {j \in 1..n : A[j] < A[i] \/ (A[j] = A[i] /\ j < i)}
    BY <2>3
  <2>5. RanksBy(r, n, A)
    BY <2>4 DEF RanksBy
  <2> HIDE DEF A, r
  <2>8. n \in Nat
    OBVIOUS
  <2> HIDE DEF n
  <2>9. r \in [1..n -> 1..n] /\ \A i, j \in 1..n : i # j => r[i] # r[j]
    BY <2>2, <2>5, <2>8, TitleOrder
  <2>7. \A i \in 1..n : r[i] = rank(i)
    BY DEF r
  <2> HIDE DEF rank
  <2> QED BY <2>7, <2>9
<1> HIDE DEF area
<1>3. \A m \in 1..n : at(m) \in 1..n
  <2> DEFINE r == [i \in 1..n |-> rank(i)]
  <2> HIDE DEF rank
  <2>1. r \in [1..n -> 1..n] /\ \A i, j \in 1..n : i # j => r[i] # r[j]
    BY <1>2
  <2>2. \A i \in 1..n : r[i] = rank(i)
    OBVIOUS
  <2> HIDE DEF r, n
  <2>3. \A m \in 1..n : \E i \in 1..n : r[i] = m
    BY <2>1, RanksAreTaken DEF n
  <2> QED BY <2>2, <2>3
<1> HIDE DEF at
<1>4. ASSUME NEW m \in 1..n, NEW before \in ClearTitles(d), Len(before) = m - 1
      PROVE  Step(m, before) \in ClearTitles(d) /\ Len(Step(m, before)) = m
  <2> DEFINE title == FirstTitle(d, d.boundaries[at(m)])
  <2>1. title \in IntBoxes
    BY <1>3, FirstTitleIsBox
  <2>2. Tries(d) = n + Cardinality(DOMAIN d.components) + 1
    BY DEF Tries
  <2>3. Cardinality(DOMAIN d.components) \in Nat
    BY FS_CardinalityType DEF HasBoxes
  <2> HIDE DEF title
  <2>4. Tries(d) \in Nat /\ Len(before) + Cardinality(DOMAIN d.components) < Tries(d)
    BY <1>4, <2>2, <2>3
  <2>5. /\ Append(before, Settled(title, Range(before) \cup Range(d.components), Tries(d)))
              \in ClearTitles(d)
         /\ Len(Append(before, Settled(title, Range(before) \cup Range(d.components), Tries(d))))
              = Len(before) + 1
    BY <2>1, <2>4, OneMoreTitle
  <2>6. Len(before) + 1 = m
    BY <1>4
  <2> QED BY <2>5, <2>6 DEF title
<1> HIDE DEF Step
<1> DEFINE V == ClearTitles(d)
           G == [p \in Nat \X V |-> IF p[1] \in 1..n /\ Len(p[2]) = p[1] - 1
                                     THEN Step(p[1], p[2]) ELSE <<>>]
<1>5. <<>> \in V
  BY DEF ClearTitles
<1>6. \A k \in Nat : \A v \in V : G[<<k, v>>] \in V
  <2> SUFFICES ASSUME NEW k \in Nat, NEW v \in V PROVE G[<<k, v>>] \in V
    OBVIOUS
  <2>1. G[<<k, v>>] = IF k \in 1..n /\ Len(v) = k - 1 THEN Step(k, v) ELSE <<>>
    OBVIOUS
  <2> HIDE DEF G
  <2> QED BY <1>4, <1>5, <2>1
<1>7. \A k \in 1..n : \A v \in V : Len(v) = k - 1 => G[<<k, v>>] = Step(k, v)
  OBVIOUS
<1> HIDE DEF G, V
\* Whatever starts empty and takes these steps holds m clear titles after m.
<1>8. ASSUME NEW f, f[0] = <<>>,
             \A k \in 1..n : f[k] = Step(k, f[k - 1]) \/ f[k] = G[<<k, f[k - 1]>>]
      PROVE  \A m \in Nat : m <= n => f[m] \in V /\ Len(f[m]) = m
  <2> DEFINE Good == {m \in Nat : m <= n => f[m] \in V /\ Len(f[m]) = m}
  <2>1. 0 \in Good
    BY <1>5, <1>8
  <2>2. ASSUME NEW m \in Nat, m \in Good PROVE m + 1 \in Good
    <3> SUFFICES ASSUME m + 1 <= n PROVE f[m + 1] \in V /\ Len(f[m + 1]) = m + 1
      OBVIOUS
    <3>1. m + 1 \in 1..n /\ (m + 1) - 1 = m /\ m <= n
      OBVIOUS
    <3>2. f[m] \in V /\ Len(f[m]) = (m + 1) - 1
      BY <2>2, <3>1
    <3>3. f[m + 1] = Step(m + 1, f[m]) \/ f[m + 1] = G[<<m + 1, f[m]>>]
      BY <1>8, <3>1
    <3>4. G[<<m + 1, f[m]>>] = Step(m + 1, f[m])
      BY <1>7, <3>1, <3>2
    <3> QED BY <1>4, <3>1, <3>2, <3>3, <3>4 DEF V
  <2> HIDE DEF Good
  <2>3. \A m \in Nat : m \in Good
    BY <2>1, <2>2, SetInduction
  <2> QED BY <2>3 DEF Good
<1>9. Solves(placed)
  <2>1. PICK h : Follows(h, n, V, <<>>, G)
    BY <1>5, <1>6, Recursion
  <2>2. h[0] = <<>> /\ \A k \in 1..n : h[k] = G[<<k, h[k - 1]>>]
    BY <2>1 DEF Follows
  <2>3. \A m \in Nat : m <= n => h[m] \in V /\ Len(h[m]) = m
    BY <1>8, <2>2
  <2>4. ASSUME NEW k \in 1..n PROVE h[k] = Step(k, h[k - 1])
    <3>1. h[k - 1] \in V /\ Len(h[k - 1]) = k - 1
      BY <2>3
    <3> QED BY <1>7, <2>2, <3>1
  <2>5. DOMAIN h = 0..n /\ h = [m \in DOMAIN h |-> h[m]]
    BY <2>1 DEF Follows
  <2>6. Solves(h)
    BY <2>2, <2>4, <2>5
  <2> QED BY <2>6
<1>10. placed[0] = <<>> /\ \A k \in 1..n : placed[k] = Step(k, placed[k - 1])
  <2> HIDE DEF placed
  <2>1. placed[0] = <<>>
    BY <1>9
  <2>2. ASSUME NEW k \in 1..n PROVE placed[k] = Step(k, placed[k - 1])
    <3>1. k \in 0..n /\ k # 0
      OBVIOUS
    <3> QED BY <1>9, <3>1
  <2> QED BY <2>1, <2>2
<1> HIDE DEF placed
<1>11. placed[n] \in ClearTitles(d) /\ Len(placed[n]) = n
  BY <1>8, <1>10 DEF V
<1> HIDE DEF rank
<1>12. \A i \in 1..n : Titles(d)[i] = placed[n][rank(i)] /\ rank(i) \in 1..n
  BY <1>1, <1>2
<1>13. DOMAIN Titles(d) = 1..n
  BY <1>1
<1>14. ASSUME NEW i \in 1..n
       PROVE  /\ Titles(d)[i] \in IntBoxes
              /\ \A k \in DOMAIN d.components : ~RectsOverlap(Titles(d)[i], d.components[k], 0)
              /\ \A j \in 1..n : i # j => ~RectsOverlap(Titles(d)[i], Titles(d)[j], 0)
  <2>1. rank(i) \in 1..Len(placed[n])
    BY <1>11, <1>12
  <2>2. Titles(d)[i] \in IntBoxes
    BY SMTT(40), <1>11, <1>12, <2>1 DEF ClearTitles
  <2>3. \A k \in DOMAIN d.components : ~RectsOverlap(Titles(d)[i], d.components[k], 0)
    BY <1>11, <1>12, <2>1 DEF ClearTitles
  <2>4. ASSUME NEW j \in 1..n, i # j PROVE ~RectsOverlap(Titles(d)[i], Titles(d)[j], 0)
    <3>1. rank(j) \in 1..Len(placed[n]) /\ rank(i) # rank(j)
      BY <1>2, <1>11, <1>12, <2>4
    <3> QED BY <1>11, <1>12, <2>1, <3>1 DEF ClearTitles
  <2> QED BY <2>2, <2>3, <2>4
<1> QED BY <1>13, <1>14

-----------------------------------------------------------------------------
(* Documents and what is drawn of them                                     *)

Documents ==
  [components : Layouts, connections : Seq(Lines), boundaries : Seq(Boundaries),
   size : {View}, profile : Profiles, nested : Nestings]

Paths(d) == [i \in DOMAIN d.connections |-> PathFor(d, i)]

\* What the renderer keeps is what it measured of the document, which no
\* longer changes; what it let pass is what the checker judges.
DeliveryInv ==
  /\ doc \in Documents /\ Len(doc.connections) <= MaxLines
  /\ phase \in {"writing", "rendered", "checked"}
  /\ phase # "writing" =>
       /\ titles = Titles(doc) /\ frames = Frames(doc, titles)
       /\ relations = Relations(doc, Paths(doc))
       /\ problems = Problems(doc, relations, frames, titles)
  /\ phase = "checked" => problems = {} /\ errors = Errors(Artifact(doc, relations, frames))

LEMMA DeliveryInitInv == DeliveryInit => DeliveryInv
<1> SUFFICES ASSUME DeliveryInit PROVE DeliveryInv
  OBVIOUS
<1>1. <<>> \in Seq(Lines) /\ <<>> \in Seq(Boundaries) /\ Len(<<>>) = 0
  OBVIOUS
<1>2. doc \in Documents /\ doc.connections = <<>>
  BY <1>1 DEF DeliveryInit, Documents
<1>3. phase = "writing"
  BY DEF DeliveryInit
<1>4. Len(doc.connections) <= MaxLines
  BY <1>1, <1>2, RoundingAssumption
<1> QED BY <1>2, <1>3, <1>4 DEF DeliveryInv

LEMMA DeliveryNextInv == DeliveryInv /\ [DeliveryNext]_deliveryVars => DeliveryInv'
<1> SUFFICES ASSUME DeliveryInv, [DeliveryNext]_deliveryVars PROVE DeliveryInv'
  OBVIOUS
<1>1. doc \in Documents
  BY DEF DeliveryInv
<1>2. ASSUME NEW c \in Lines, Connect(c) PROVE DeliveryInv'
  <2>1. Append(doc.connections, c) \in Seq(Lines)
        /\ Len(Append(doc.connections, c)) = Len(doc.connections) + 1
        /\ Len(doc.connections) \in Nat
    BY <1>1 DEF Documents
  <2>2. doc' \in Documents /\ doc'.connections = Append(doc.connections, c)
    BY <1>1, <1>2, <2>1 DEF Connect, Documents
  <2>3. Len(doc'.connections) <= MaxLines
    BY <1>2, <2>1, <2>2, RoundingAssumption DEF Connect
  <2>4. phase' = "writing"
    BY <1>2 DEF Connect
  <2> QED BY <2>2, <2>3, <2>4 DEF DeliveryInv
<1>3. ASSUME NEW b \in Boundaries, Group(b) PROVE DeliveryInv'
  <2>1. Append(doc.boundaries, b) \in Seq(Boundaries)
    BY <1>1 DEF Documents
  <2>2. doc' \in Documents /\ doc'.connections = doc.connections
    BY <1>1, <1>3, <2>1 DEF Group, Documents
  <2>3. phase' = "writing"
    BY <1>3 DEF Group
  <2> QED BY <2>2, <2>3 DEF DeliveryInv
<1>4. CASE Render
  <2>1. doc' = doc /\ phase' = "rendered"
    BY <1>4 DEF Render
  <2>2. /\ titles' = Titles(doc) /\ frames' = Frames(doc, titles')
        /\ relations' = Relations(doc, Paths(doc))
        /\ problems' = Problems(doc, relations', frames', titles')
    BY <1>4 DEF Render, Paths
  <2> QED BY <2>1, <2>2 DEF DeliveryInv
<1>5. CASE Check
  <2>1. /\ UNCHANGED <<doc, relations, frames, titles, problems>>
        /\ phase = "rendered" /\ phase' = "checked" /\ problems = {}
        /\ errors' = Errors(Artifact(doc, relations, frames))
    BY <1>5 DEF Check
  <2> QED BY <2>1 DEF DeliveryInv
<1>6. CASE UNCHANGED deliveryVars
  BY <1>6 DEF deliveryVars, DeliveryInv
<1> QED BY <1>2, <1>3, <1>4, <1>5, <1>6 DEF DeliveryNext

\* The documents meet what the lemmas ask of them.
LEMMA DocumentHasBoxes == ASSUME NEW d \in Documents PROVE HasBoxes(d)
BY LayoutAssumption DEF Documents, HasBoxes

LEMMA DocumentBoundaries ==
  ASSUME NEW d \in Documents
  PROVE  /\ Len(d.boundaries) \in Nat
         /\ \A i \in 1..Len(d.boundaries) : IsBoundary(d, d.boundaries[i])
<1>1. d.boundaries \in Seq(Boundaries) /\ d.components \in Layouts
  BY DEF Documents
<1>2. \A b \in Boundaries : IsBoundary(d, b)
  BY <1>1, BoundaryAssumption DEF IsBoundary
<1> QED BY <1>1, <1>2

LEMMA InvTitlesAreClear == DeliveryInv => TitlesAreClear
<1> SUFFICES ASSUME DeliveryInv, phase # "writing",
                    NEW i \in DOMAIN titles
             PROVE  /\ \A k \in DOMAIN doc.components : ~RectsOverlap(titles[i], doc.components[k], 0)
                    /\ \A j \in DOMAIN titles \ {i} : ~RectsOverlap(titles[i], titles[j], 0)
  BY DEF TitlesAreClear
<1>1. titles = Titles(doc) /\ doc \in Documents
  BY DEF DeliveryInv
<1>2. HasBoxes(doc)
  BY <1>1, DocumentHasBoxes
<1>3. /\ Len(doc.boundaries) \in Nat
      /\ \A b \in 1..Len(doc.boundaries) : IsBoundary(doc, doc.boundaries[b])
  BY <1>1, DocumentBoundaries
<1>4. /\ DOMAIN Titles(doc) = 1..Len(doc.boundaries)
      /\ \A t \in 1..Len(doc.boundaries) :
           /\ \A k \in DOMAIN doc.components : ~RectsOverlap(Titles(doc)[t], doc.components[k], 0)
           /\ \A j \in 1..Len(doc.boundaries) :
                t # j => ~RectsOverlap(Titles(doc)[t], Titles(doc)[j], 0)
  BY <1>2, <1>3, TitlesPlacedClear
<1> QED BY <1>1, <1>4

LEMMA DeliveryInvHolds == DeliverySpec => []DeliveryInv
BY DeliveryInitInv, DeliveryNextInv, PTL DEF DeliverySpec

\* A title ends up clear of every component and of every other title, for any
\* components and boundaries: a box it was raised over is never in its way
\* again, and it may be raised once for every box.
THEOREM TitlesClear == DeliverySpec => []TitlesAreClear
BY DeliveryInvHolds, InvTitlesAreClear, PTL

-----------------------------------------------------------------------------
(* Routes keep their ends                                                  *)

Points == Int \X Int
Sides == {"left", "right", "top", "bottom"}

\* Routes from start to end
Runs(start, end) ==
  {r \in Seq(Points) : Len(r) >= 1 /\ r[1] = start /\ r[Len(r)] = end}

\* Routes whose legs run along an axis, and those that never stand still
OneAxis(p, q) == p[1] = q[1] \/ p[2] = q[2]
Legs == {r \in Seq(Points) : \A i \in 1..(Len(r) - 1) : OneAxis(r[i], r[i + 1])}
Steps == {r \in Seq(Points) :
            \A i \in 1..(Len(r) - 1) : OneAxis(r[i], r[i + 1]) /\ r[i] # r[i + 1]}

\* What is popped leaves a beginning of the route, and p continues past the
\* point after it.
LEMMA PoppedIsPrefix ==
  ASSUME NEW route \in Seq(Points), NEW p
  PROVE  \E m \in 0..Len(route) : /\ Popped(route, p) = SubSeq(route, 1, m)
                                  /\ Len(route) >= 1 => m >= 1
                                  /\ m < Len(route) => Forward(route[m], route[m + 1], p)
<1> DEFINE len == Len(route)
           Goes(n) == n >= 2 /\ Forward(route[n - 1], route[n], p)
           Solves(f) == f = [n \in 0..len |-> IF Goes(n) THEN f[n - 1] ELSE n]
           keep == CHOOSE f : Solves(f)
           G == [q \in Nat \X Nat |-> IF Goes(q[1]) THEN q[2] ELSE q[1]]
<1>1. Popped(route, p) = SubSeq(route, 1, keep[len])
  BY DEF Popped
<1>2. len \in Nat
  OBVIOUS
<1>3. \A k \in Nat : \A v \in Nat :
        G[<<k, v>>] = (IF Goes(k) THEN v ELSE k) /\ G[<<k, v>>] \in Nat
  OBVIOUS
<1>4. \A n : Goes(n) => n >= 2
  OBVIOUS
<1>10. \A n \in Nat : Goes(n + 1) => Forward(route[n], route[n + 1], p)
  OBVIOUS
<1> HIDE DEF G, Goes, len
<1>5. Solves(keep)
  <2>1. PICK h : Follows(h, len, Nat, 0, G)
    BY <1>2, <1>3, Recursion
  <2>2. h \in [0..len -> Nat] /\ h[0] = 0
    BY <2>1 DEF Follows
  <2>3. ASSUME NEW k \in 1..len PROVE h[k] = IF Goes(k) THEN h[k - 1] ELSE k
    <3>1. h[k] = G[<<k, h[k - 1]>>]
      BY <2>1 DEF Follows
    <3>2. h[k - 1] \in Nat /\ k \in Nat
      BY <1>2, <2>2
    <3> QED BY <1>3, <3>1, <3>2
  <2>4. Solves(h)
    BY <1>2, <1>4, <2>2, <2>3
  <2> QED BY <2>4
<1> HIDE DEF keep
<1> DEFINE Good == {n \in Nat : n <= len =>
                      /\ keep[n] \in 0..n /\ (n >= 1 => keep[n] >= 1)
                      /\ keep[n] < n => Goes(keep[n] + 1)}
<1>6. 0 \in Good
  BY <1>2, <1>4, <1>5
<1>7. ASSUME NEW n \in Nat, n \in Good PROVE n + 1 \in Good
  <2> SUFFICES ASSUME n + 1 <= len
               PROVE  keep[n + 1] \in 1..(n + 1) /\ (keep[n + 1] < n + 1 => Goes(keep[n + 1] + 1))
    OBVIOUS
  <2>1. keep[n + 1] = IF Goes(n + 1) THEN keep[(n + 1) - 1] ELSE n + 1
    BY <1>2, <1>5
  <2>2. /\ keep[n] \in 0..n /\ (n >= 1 => keep[n] >= 1)
        /\ keep[n] < n => Goes(keep[n] + 1)
    BY <1>2, <1>7
  <2>3. (n + 1) - 1 = n
    OBVIOUS
  <2>4. CASE Goes(n + 1)
    <3>1. keep[n + 1] = keep[n] /\ n >= 1
      BY <1>4, <2>1, <2>3, <2>4
    <3>2. CASE keep[n] = n
      BY <2>4, <3>1, <3>2
    <3>3. CASE keep[n] < n
      BY <2>2, <3>1, <3>3
    <3> QED BY <2>2, <3>2, <3>3
  <2>5. CASE ~Goes(n + 1)
    BY <2>1, <2>5
  <2> QED BY <2>4, <2>5
<1> HIDE DEF Good
<1>8. \A n \in Nat : n \in Good
  BY <1>6, <1>7, SetInduction
<1>9. /\ keep[len] \in 0..len /\ (len >= 1 => keep[len] >= 1)
      /\ keep[len] < len => Goes(keep[len] + 1)
  BY <1>2, <1>8 DEF Good
<1>11. keep[len] < len => Forward(route[keep[len]], route[keep[len] + 1], p)
  BY <1>9, <1>10
<1> QED BY <1>1, <1>9, <1>11 DEF len

LEMMA OneLegMore ==
  ASSUME NEW q \in Steps, NEW p \in Points,
         Len(q) >= 1 => OneAxis(q[Len(q)], p) /\ q[Len(q)] # p
  PROVE  Append(q, p) \in Steps
<1> HIDE DEF Points
<1> DEFINE m == Len(q)
           t == Append(q, p)
<1>1. q \in Seq(Points) /\ m \in Nat
      /\ \A i \in 1..(m - 1) : OneAxis(q[i], q[i + 1]) /\ q[i] # q[i + 1]
  BY DEF Steps
<1>2. t \in Seq(Points) /\ Len(t) = m + 1 /\ t[m + 1] = p /\ \A i \in 1..m : t[i] = q[i]
  BY <1>1
<1> HIDE DEF t, m
<1>3. ASSUME NEW i \in 1..(Len(t) - 1) PROVE OneAxis(t[i], t[i + 1]) /\ t[i] # t[i + 1]
  <2>1. CASE i = m
    <3>1. m >= 1 /\ m \in 1..m /\ t[i] = q[m] /\ t[i + 1] = p
      BY <1>1, <1>2, <2>1
    <3> QED BY <3>1 DEF m
  <2>2. CASE i \in 1..(m - 1)
    <3>1. t[i] = q[i] /\ t[i + 1] = q[i + 1]
      BY <1>1, <1>2, <2>2
    <3> QED BY <1>1, <2>2, <3>1
  <2> QED BY <1>1, <1>2, <2>1, <2>2
<1> QED BY <1>2, <1>3 DEF Steps, t

LEMMA NoDivisorsOfZero == \A x, y \in Int : x * y = 0 => x = 0 \/ y = 0
<1> SUFFICES ASSUME NEW x \in Int, NEW y \in Int, x # 0, y # 0 PROVE x * y # 0
  OBVIOUS
<1>1. CASE x > 0 /\ y > 0
  BY <1>1
<1>2. CASE x > 0 /\ y < 0
  BY <1>2
<1>3. CASE x < 0 /\ y > 0
  BY <1>3
<1>4. CASE x < 0 /\ y < 0
  BY <1>4
<1> QED BY <1>1, <1>2, <1>3, <1>4

\* Going on past the end of a leg keeps its axis.
LEMMA ForwardKeepsAxis ==
  ASSUME NEW a \in Points, NEW b \in Points, NEW p \in Points,
         OneAxis(a, b), a # b, Forward(a, b, p)
  PROVE  OneAxis(a, p) /\ a # p
<1>1. /\ a[1] \in Int /\ a[2] \in Int /\ b[1] \in Int /\ b[2] \in Int
      /\ p[1] \in Int /\ p[2] \in Int
  BY DEF Points
<1>2. (b[1] - a[1]) * (p[2] - a[2]) - (b[2] - a[2]) * (p[1] - a[1]) = 0
  BY DEF Forward, Cross
<1>3. (b[1] - a[1]) * (p[1] - b[1]) + (b[2] - a[2]) * (p[2] - b[2]) >= 0
  BY DEF Forward
<1>4. a[1] # b[1] \/ a[2] # b[2]
  BY DEF Points
<1> DEFINE u == b[1] - a[1]
           v == b[2] - a[2]
           x == p[1] - a[1]
           y == p[2] - a[2]
<1>5. u \in Int /\ v \in Int /\ x \in Int /\ y \in Int /\ u * y - v * x = 0
      /\ u * (x - u) + v * (y - v) >= 0
  <2>1. p[1] - b[1] = x - u /\ p[2] - b[2] = y - v
    BY <1>1
  <2> QED BY <1>1, <1>2, <1>3, <2>1
<1>6. /\ (u = 0 <=> a[1] = b[1]) /\ (v = 0 <=> a[2] = b[2])
      /\ (x = 0 <=> a[1] = p[1]) /\ (y = 0 <=> a[2] = p[2])
  BY <1>1
<1> HIDE DEF u, v, x, y
<1>7. CASE v = 0
  <2>1. u # 0 /\ u * y = 0 /\ u * (x - u) >= 0
    BY <1>4, <1>5, <1>6, <1>7
  <2>2. y = 0
    BY <1>5, <2>1, NoDivisorsOfZero
  <2>3. x # 0
    <3> SUFFICES ASSUME x = 0 PROVE FALSE
      OBVIOUS
    <3>1. u * (0 - u) >= 0
      BY <2>1
    <3> QED BY <1>5, <2>1, <3>1
  <2> QED BY <1>6, <2>2, <2>3 DEF OneAxis
<1>8. CASE u = 0
  <2>1. v # 0 /\ v * x = 0 /\ v * (y - v) >= 0
    BY <1>4, <1>5, <1>6, <1>8
  <2>2. x = 0
    BY <1>5, <2>1, NoDivisorsOfZero
  <2>3. y # 0
    <3> SUFFICES ASSUME y = 0 PROVE FALSE
      OBVIOUS
    <3>1. v * (0 - v) >= 0
      BY <2>1
    <3> QED BY <1>5, <2>1, <3>1
  <2> QED BY <1>6, <2>2, <2>3 DEF OneAxis
<1> QED BY <1>6, <1>7, <1>8 DEF OneAxis

\* The next point of a route, once the points it continues past are dropped
Extended(route, p) == Append(Popped(route, p), p)

LEMMA OnePointMore ==
  ASSUME NEW route \in Seq(Points), NEW p \in Points
  PROVE  LET q == Extended(route, p) IN
         /\ q \in Seq(Points) /\ Len(q) >= 1 /\ Len(q) <= Len(route) + 1
         /\ q[Len(q)] = p /\ q[1] = IF Len(route) >= 1 THEN route[1] ELSE p
         /\ (/\ route \in Steps
             /\ Len(route) >= 1 => OneAxis(route[Len(route)], p) /\ route[Len(route)] # p)
            => q \in Steps
<1>1. PICK m \in 0..Len(route) : /\ Popped(route, p) = SubSeq(route, 1, m)
                                 /\ Len(route) >= 1 => m >= 1
                                 /\ m < Len(route) => Forward(route[m], route[m + 1], p)
  BY PoppedIsPrefix
<1> DEFINE s == Popped(route, p)
           q == Extended(route, p)
<1> HIDE DEF Points
<1>2. s \in Seq(Points) /\ Len(s) = m /\ \A i \in 1..m : s[i] = route[i]
  BY <1>1
<1>3. q = Append(s, p) /\ m \in Nat /\ m <= Len(route) /\ Len(route) \in Nat
  BY <1>1 DEF Extended
<1> HIDE DEF s, q
<1>4. /\ q \in Seq(Points) /\ Len(q) = m + 1 /\ q[m + 1] = p
      /\ q[1] = IF m >= 1 THEN s[1] ELSE p
  BY <1>2, <1>3
<1>5. (m >= 1 => s[1] = route[1]) /\ (m >= 1 <=> Len(route) >= 1)
  BY <1>1, <1>2
<1>6. ASSUME route \in Steps,
             Len(route) >= 1 => OneAxis(route[Len(route)], p) /\ route[Len(route)] # p
      PROVE  q \in Steps
  <2>1. s \in Steps
    <3>1. ASSUME NEW i \in 1..(m - 1) PROVE OneAxis(s[i], s[i + 1]) /\ s[i] # s[i + 1]
      <4>1. s[i] = route[i] /\ s[i + 1] = route[i + 1] /\ i \in 1..(Len(route) - 1)
        BY <1>2, <1>3
      <4> QED BY <1>6, <4>1 DEF Steps
    <3> QED BY <1>2, <3>1 DEF Steps
  <2>2. ASSUME m >= 1 PROVE OneAxis(s[m], p) /\ s[m] # p
    <3>1. s[m] = route[m]
      BY <1>2, <1>3, <2>2
    <3>2. CASE m = Len(route)
      BY <1>6, <2>2, <3>1, <3>2
    <3>3. CASE m < Len(route)
      <4>1. /\ route[m] \in Points /\ route[m + 1] \in Points
            /\ OneAxis(route[m], route[m + 1]) /\ route[m] # route[m + 1]
        BY <1>3, <1>6, <2>2, <3>3 DEF Steps
      <4>2. Forward(route[m], route[m + 1], p)
        BY <1>1, <3>3
      <4> QED BY <3>1, <4>1, <4>2, ForwardKeepsAxis
    <3> QED BY <1>3, <3>2, <3>3
  <2> QED BY <1>2, <1>3, <2>1, <2>2, OneLegMore
<1> QED BY <1>3, <1>4, <1>5, <1>6 DEF q

LEMMA NormalizedKeepsEnds ==
  ASSUME NEW route \in Seq(Points), Len(route) >= 1
  PROVE  /\ Normalized(route) \in Runs(route[1], route[Len(route)])
         /\ Len(Normalized(route)) <= Len(route)
         /\ route \in Legs => Normalized(route) \in Steps
<1> DEFINE len == Len(route)
           Again(n) == n > 1 /\ route[n] = route[n - 1]
           Dedupes(f) == f = [n \in 0..len |->
             IF n = 0 THEN <<>>
             ELSE IF Again(n) THEN f[n - 1] ELSE Append(f[n - 1], route[n])]
           deduped == CHOOSE f : Dedupes(f)
           points == deduped[len]
           many == Len(points)
           Norms(f) == f = [n \in 0..many |->
             IF n = 0 THEN <<>> ELSE Extended(f[n - 1], points[n])]
           normal == CHOOSE f : Norms(f)
<1>1. Normalized(route) = normal[many]
  BY DEF Normalized, Extended
<1>2. len \in Nat /\ len >= 1 /\ \A n \in 1..len : route[n] \in Points
  OBVIOUS
<1>3. points \in Runs(route[1], route[len]) /\ many <= len /\ (route \in Legs => points \in Steps)
  <2> DEFINE V == Seq(Points)
             G == [q \in Nat \X V |->
                     IF q[1] \in 1..len
                     THEN IF Again(q[1]) THEN q[2] ELSE Append(q[2], route[q[1]])
                     ELSE <<>>]
  <2>1. \A k \in Nat : \A v \in V :
          G[<<k, v>>] = IF k \in 1..len
                        THEN IF Again(k) THEN v ELSE Append(v, route[k])
                        ELSE <<>>
    OBVIOUS
  <2>2. <<>> \in V /\ \A n \in 1..len : \A v \in V : Append(v, route[n]) \in V
    BY <1>2
  <2>3. \A k \in Nat : \A v \in V : G[<<k, v>>] \in V
    BY <2>1, <2>2
  <2>4. ~Again(1) /\ \A n : Again(n) => route[n] = route[n - 1]
    OBVIOUS
  <2>10. \A n \in Nat : n >= 1 /\ route[n + 1] = route[n] => Again(n + 1)
    OBVIOUS
  <2> HIDE DEF G, V, Again, len
  <2>5. Dedupes(deduped)
    <3>1. PICK h : Follows(h, len, V, <<>>, G)
      BY <1>2, <2>2, <2>3, Recursion
    <3>2. h \in [0..len -> V] /\ h[0] = <<>>
      BY <3>1 DEF Follows
    <3>3. ASSUME NEW k \in 1..len
          PROVE  h[k] = IF Again(k) THEN h[k - 1] ELSE Append(h[k - 1], route[k])
      <4>1. h[k] = G[<<k, h[k - 1]>>]
        BY <3>1 DEF Follows
      <4>2. h[k - 1] \in V /\ k \in Nat
        BY <1>2, <3>2
      <4> QED BY <2>1, <4>1, <4>2
    <3>4. ASSUME NEW k \in 0..len
          PROVE  h[k] = IF k = 0 THEN <<>>
                        ELSE IF Again(k) THEN h[k - 1] ELSE Append(h[k - 1], route[k])
      <4>1. CASE k = 0
        BY <3>2, <4>1
      <4>2. CASE k \in 1..len
        <5>1. k # 0
          BY <4>2
        <5> QED BY <3>3, <4>2, <5>1
      <4> QED BY <1>2, <4>1, <4>2
    <3>5. DOMAIN h = 0..len /\ h = [n \in DOMAIN h |-> h[n]]
      BY <3>2
    <3>6. Dedupes(h)
      BY <3>4, <3>5
    <3> QED BY <3>6
  <2> HIDE DEF deduped
  <2>6. deduped[0] = <<>> /\ \A k \in 1..len :
          deduped[k] = IF Again(k) THEN deduped[k - 1] ELSE Append(deduped[k - 1], route[k])
    <3>1. deduped[0] = <<>>
      BY <1>2, <2>5
    <3>2. ASSUME NEW k \in 1..len
          PROVE  deduped[k] = IF Again(k) THEN deduped[k - 1] ELSE Append(deduped[k - 1], route[k])
      <4>1. k \in 0..len /\ k # 0
        OBVIOUS
      <4> QED BY <2>5, <4>1
    <3> QED BY <3>1, <3>2
  <2> DEFINE Good == {n \in Nat : 1 <= n /\ n <= len =>
                        /\ deduped[n] \in Runs(route[1], route[n]) /\ Len(deduped[n]) <= n
                        /\ route \in Legs => deduped[n] \in Steps}
  <2>7. 0 \in Good
    OBVIOUS
  <2>8. ASSUME NEW n \in Nat, n \in Good PROVE n + 1 \in Good
    <3> SUFFICES ASSUME n + 1 <= len
                 PROVE  /\ deduped[n + 1] \in Runs(route[1], route[n + 1])
                        /\ Len(deduped[n + 1]) <= n + 1
                        /\ route \in Legs => deduped[n + 1] \in Steps
      OBVIOUS
    <3> DEFINE s == deduped[n]
    <3>1. n + 1 \in 1..len /\ (n + 1) - 1 = n
      BY <1>2
    <3>2. deduped[n + 1] = IF Again(n + 1) THEN s ELSE Append(s, route[n + 1])
      BY <2>6, <3>1
    <3>3. CASE n = 0
      <4>1. s = <<>> /\ route[1] \in Points
        BY <1>2, <2>6, <3>3
      <4>2. deduped[n + 1] = Append(<<>>, route[1])
        BY <2>4, <3>2, <3>3, <4>1
      <4>3. <<>> \in Steps
        BY DEF Steps
      <4>4. Append(<<>>, route[1]) \in Steps
        <5> DEFINE t == Append(<<>>, route[1])
        <5>1. t \in Seq(Points) /\ Len(t) = 1
          BY <4>1
        <5> HIDE DEF t
        <5>2. 1..(Len(t) - 1) = {}
          BY <5>1
        <5> QED BY <5>1, <5>2 DEF Steps, t
      <4> QED BY <3>3, <4>1, <4>2, <4>4 DEF Runs
    <3>4. CASE n >= 1
      <4>1. s \in Runs(route[1], route[n]) /\ Len(s) <= n /\ (route \in Legs => s \in Steps)
        BY <1>2, <2>8, <3>4
      <4> HIDE DEF s
      <4>2. CASE Again(n + 1)
        <5>1. deduped[n + 1] = s /\ route[n] = route[n + 1]
          BY <2>4, <3>1, <3>2, <4>2
        <5>2. Len(s) \in Nat
          BY <4>1 DEF Runs
        <5> QED BY <4>1, <5>1, <5>2
      <4>3. CASE ~Again(n + 1)
        <5>1. deduped[n + 1] = Append(s, route[n + 1]) /\ route[n + 1] \in Points
          BY <1>2, <3>1, <3>2, <4>3
        <5>2. s \in Seq(Points) /\ Len(s) >= 1 /\ s[1] = route[1] /\ s[Len(s)] = route[n]
          BY <4>1 DEF Runs
        <5> DEFINE t == Append(s, route[n + 1])
        <5>3. /\ t \in Seq(Points) /\ Len(t) = Len(s) + 1
              /\ t[Len(s) + 1] = route[n + 1] /\ t[1] = s[1]
          BY <5>1, <5>2
        <5>4. ASSUME route \in Legs PROVE t \in Steps
          <6>1. route[n] # route[n + 1]
            BY <2>10, <3>1, <3>4, <4>3
          <6>2. OneAxis(route[n], route[n + 1])
            <7>1. n \in 1..(Len(route) - 1)
              BY <1>2, <3>4 DEF len
            <7> QED BY <5>4, <7>1 DEF Legs
          <6> QED BY <4>1, <5>1, <5>2, <5>4, <6>1, <6>2, OneLegMore
        <5> HIDE DEF t
        <5>5. t \in Runs(route[1], route[n + 1])
          BY <5>2, <5>3 DEF Runs
        <5>6. Len(t) <= n + 1
          BY <4>1, <5>2, <5>3
        <5>7. deduped[n + 1] = t
          BY <5>1 DEF t
        <5> QED BY <5>4, <5>5, <5>6, <5>7
      <4> QED BY <4>2, <4>3
    <3> QED BY <3>3, <3>4
  <2> HIDE DEF Good
  <2>9. \A n \in Nat : n \in Good
    BY <2>7, <2>8, SetInduction
  <2> QED BY <1>2, <2>9 DEF Good
<1> HIDE DEF deduped, points
<1>4. points \in Seq(Points) /\ many \in Nat /\ many >= 1 /\ many <= len /\ \A n \in 1..many : points[n] \in Points
      /\ points[1] = route[1] /\ points[many] = route[len]
  BY <1>3 DEF Runs
<1>5. /\ normal[many] \in Runs(points[1], points[many]) /\ Len(normal[many]) <= many
      /\ points \in Steps => normal[many] \in Steps
  <2> DEFINE V == Seq(Points)
             G == [q \in Nat \X V |->
                     IF q[1] \in 1..many
                     THEN Extended(q[2], points[q[1]])
                     ELSE <<>>]
  <2>1. \A k \in Nat : \A v \in V :
          G[<<k, v>>] = IF k \in 1..many
                        THEN Extended(v, points[k])
                        ELSE <<>>
    OBVIOUS
  <2>2. <<>> \in V
    OBVIOUS
  <2>3. ASSUME NEW k \in Nat, NEW v \in V PROVE G[<<k, v>>] \in V
    <3> HIDE DEF G
    <3>1. CASE k \in 1..many
      <4>1. Extended(v, points[k]) \in Seq(Points)
        BY <1>4, <3>1, OnePointMore
      <4> QED BY <2>1, <3>1, <4>1
    <3>2. CASE k \notin 1..many
      BY <2>1, <2>2, <3>2
    <3> QED BY <3>1, <3>2
  <2> HIDE DEF G, V, many
  <2>4. Norms(normal)
    <3>1. PICK h : Follows(h, many, V, <<>>, G)
      BY <1>4, <2>2, <2>3, Recursion
    <3>2. h \in [0..many -> V] /\ h[0] = <<>>
      BY <3>1 DEF Follows
    <3>3. ASSUME NEW k \in 1..many
          PROVE  h[k] = Extended(h[k - 1], points[k])
      <4>1. h[k] = G[<<k, h[k - 1]>>]
        BY <3>1 DEF Follows
      <4>2. h[k - 1] \in V /\ k \in Nat
        BY <1>4, <3>2
      <4> QED BY <2>1, <4>1, <4>2
    <3>4. Norms(h)
      BY <3>2, <3>3
    <3> QED BY <3>4
  <2> HIDE DEF normal
  <2>5. normal[0] = <<>> /\ \A k \in 1..many :
          normal[k] = Extended(normal[k - 1], points[k])
    <3>1. normal[0] = <<>>
      BY <1>4, <2>4
    <3>2. ASSUME NEW k \in 1..many
          PROVE  normal[k] = Extended(normal[k - 1], points[k])
      <4>1. k \in 0..many /\ k # 0
        OBVIOUS
      <4> QED BY <2>4, <4>1
    <3> QED BY <3>1, <3>2
  <2> DEFINE Good == {n \in Nat : 1 <= n /\ n <= many =>
                        /\ normal[n] \in Runs(points[1], points[n]) /\ Len(normal[n]) <= n
                        /\ points \in Steps => normal[n] \in Steps}
  <2>6. 0 \in Good
    OBVIOUS
  <2>7. ASSUME NEW n \in Nat, n \in Good PROVE n + 1 \in Good
    <3> SUFFICES ASSUME n + 1 <= many
                 PROVE  /\ normal[n + 1] \in Runs(points[1], points[n + 1])
                        /\ Len(normal[n + 1]) <= n + 1
                        /\ points \in Steps => normal[n + 1] \in Steps
      OBVIOUS
    <3> DEFINE s == normal[n]
    <3>1. n + 1 \in 1..many /\ (n + 1) - 1 = n /\ points[n + 1] \in Points
      BY <1>4
    <3>2. normal[n + 1] = Extended(s, points[n + 1])
      BY <2>5, <3>1
    <3>3. /\ s \in Seq(Points) /\ Len(s) <= n
          /\ (IF Len(s) >= 1 THEN s[1] ELSE points[n + 1]) = points[1]
          /\ points \in Steps =>
               /\ s \in Steps
               /\ Len(s) >= 1 => OneAxis(s[Len(s)], points[n + 1]) /\ s[Len(s)] # points[n + 1]
      <4>1. CASE n = 0
        <5>1. s = <<>> /\ <<>> \in Seq(Points) /\ Len(<<>>) = 0 /\ n + 1 = 1
          BY <2>5, <4>1
        <5>2. <<>> \in Steps
          BY DEF Steps
        <5> HIDE DEF s
        <5> QED BY <4>1, <5>1, <5>2
      <4>2. CASE n >= 1
        <5>1. /\ s \in Runs(points[1], points[n]) /\ Len(s) <= n
              /\ points \in Steps => s \in Steps
          BY <1>4, <2>7, <4>2
        <5>2. points \in Steps => OneAxis(points[n], points[n + 1]) /\ points[n] # points[n + 1]
          <6>1. n \in 1..(Len(points) - 1)
            BY <1>4, <4>2 DEF many
          <6> QED BY <6>1 DEF Steps
        <5> HIDE DEF s
        <5>3. s \in Seq(Points) /\ Len(s) >= 1 /\ s[1] = points[1] /\ s[Len(s)] = points[n]
          BY <5>1 DEF Runs
        <5> QED BY <5>1, <5>2, <5>3
      <4> QED BY <4>1, <4>2
    <3> DEFINE t == Extended(s, points[n + 1])
    <3> HIDE DEF s
    <3>5. /\ t \in Seq(Points) /\ Len(t) >= 1 /\ Len(t) <= Len(s) + 1 /\ t[Len(t)] = points[n + 1]
          /\ t[1] = IF Len(s) >= 1 THEN s[1] ELSE points[n + 1]
      BY ZenonT(60), <3>1, <3>3, OnePointMore
    <3>6. points \in Steps => t \in Steps
      BY <3>1, <3>3, OnePointMore
    <3>7. t[1] = points[1] /\ normal[n + 1] = t /\ Len(t) <= n + 1
      <4>1. Len(s) \in Nat /\ Len(t) \in Nat
        BY <3>3, <3>5
      <4> QED BY <3>2, <3>3, <3>5, <4>1 DEF s
    <3> HIDE DEF t
    <3> QED BY <3>5, <3>6, <3>7 DEF Runs
  <2> HIDE DEF Good
  <2>8. \A n \in Nat : n \in Good
    BY <2>6, <2>7, SetInduction
  <2> QED BY <1>4, <2>8 DEF Good
<1> HIDE DEF normal
<1>6. Len(normal[many]) <= len
  <2>1. Len(normal[many]) \in Nat
    BY <1>5 DEF Runs
  <2> QED BY <1>2, <1>4, <1>5, <2>1
<1> QED BY <1>1, <1>3, <1>4, <1>5, <1>6

\* The first route that will do is one of those given, or what comes next.
LEMMA FirstOfRuns ==
  ASSUME NEW R, NEW routes, DOMAIN routes \subseteq Nat,
         \A i \in DOMAIN routes : routes[i] \in R, NEW good, NEW next \in R
  PROVE  FirstOf(routes, good, next) \in R
<1> DEFINE fit == {i \in DOMAIN routes : routes[i] \in good}
<1>1. FirstOf(routes, good, next) = IF fit = {} THEN next ELSE routes[Min(fit)]
  BY DEF FirstOf
<1>2. fit \subseteq DOMAIN routes /\ fit \subseteq Nat
  OBVIOUS
<1> HIDE DEF fit
<1>3. CASE fit = {}
  BY <1>1, <1>3
<1>4. CASE fit # {}
  <2>1. \E x \in fit : \A y \in fit : x <= y
    BY <1>2, <1>4, LeastNatural
  <2>2. Min(fit) \in fit
    BY <2>1 DEF Min
  <2> QED BY <1>1, <1>2, <1>4, <2>2
<1> QED BY <1>3, <1>4

LEMMA MoreAndLess ==
  ASSUME NEW a \in Int, NEW b \in Int
  PROVE  Most(a, b) \in Int /\ Least(a, b) \in Int /\ (a + b) \div 2 \in Int
BY DEF Most, Least

\* Routes from start to end whose legs run along an axis
Ways(start, end) == Runs(start, end) \cap Legs

LEMMA StubIsPoint ==
  ASSUME NEW p \in Points, NEW side \in Sides
  PROVE  Stub(p, side, 24 * Px) \in Points /\ OneAxis(p, Stub(p, side, 24 * Px))
<1> DEFINE u == Outward[side][1]
           v == Outward[side][2]
           q == Stub(p, side, 24 * Px)
<1>1. u \in Int /\ v \in Int /\ (u = 0 \/ v = 0)
  BY DEF Sides, Outward
<1>2. p[1] \in Int /\ p[2] \in Int
  BY DEF Points
<1>3. q = <<p[1] + 96 * u, p[2] + 96 * v>>
  <2>1. 24 * Px = 96
    BY DEF Px
  <2> QED BY <2>1 DEF Stub
<1> HIDE DEF u, v, q
<1>4. q[1] = p[1] + 96 * u /\ q[2] = p[2] + 96 * v
  BY <1>3
<1>5. q \in Points
  BY <1>1, <1>2, <1>3 DEF Points
<1>6. p[1] = q[1] \/ p[2] = q[2]
  <2>1. CASE u = 0
    BY <1>2, <1>4, <2>1
  <2>2. CASE v = 0
    BY <1>2, <1>4, <2>2
  <2> QED BY <1>1, <2>1, <2>2
<1> QED BY <1>5, <1>6 DEF OneAxis, q

LEMMA AxisBothWays == \A p, q : OneAxis(p, q) => OneAxis(q, p)
BY DEF OneAxis

LEMMA LineIsWay ==
  ASSUME NEW start \in Points, NEW end \in Points, OneAxis(start, end)
  PROVE  <<start, end>> \in Ways(start, end)
<1> HIDE DEF Points
<1> DEFINE r == <<start, end>>
<1>1. r \in Seq(Points) /\ Len(r) = 2 /\ r[1] = start /\ r[2] = end
  OBVIOUS
<1> HIDE DEF r
<1>2. \A i \in 1..(Len(r) - 1) : i = 1
  BY <1>1
<1>3. \A i \in 1..(Len(r) - 1) : OneAxis(r[i], r[i + 1])
  BY <1>1, <1>2
<1> QED BY <1>1, <1>3 DEF Ways, Runs, Legs, r

\* A tuple of points that begins at start and ends at end
LEMMA ShortRuns ==
  ASSUME NEW start \in Points, NEW end \in Points,
         NEW a \in Points, NEW b \in Points, NEW c \in Points, NEW d \in Points
  PROVE  /\ OneAxis(start, a) /\ OneAxis(a, b) /\ OneAxis(b, end)
              => <<start, a, b, end>> \in Ways(start, end)
         /\ OneAxis(start, a) /\ OneAxis(a, b) /\ OneAxis(b, c) /\ OneAxis(c, end)
              => <<start, a, b, c, end>> \in Ways(start, end)
         /\ OneAxis(start, a) /\ OneAxis(a, b) /\ OneAxis(b, c) /\ OneAxis(c, d) /\ OneAxis(d, end)
              => <<start, a, b, c, d, end>> \in Ways(start, end)
<1> HIDE DEF Points
<1>2. ASSUME OneAxis(start, a), OneAxis(a, b), OneAxis(b, end)
      PROVE  <<start, a, b, end>> \in Ways(start, end)
  <2> DEFINE r == <<start, a, b, end>>
  <2>1. r \in Seq(Points) /\ Len(r) = 4 /\ r[1] = start /\ r[2] = a /\ r[3] = b /\ r[4] = end
    OBVIOUS
  <2> HIDE DEF r
  <2>2. \A i \in 1..(Len(r) - 1) : i \in {1, 2, 3}
    BY <2>1
  <2>3. \A i \in 1..(Len(r) - 1) : OneAxis(r[i], r[i + 1])
    BY <1>2, <2>1, <2>2
  <2> QED BY <2>1, <2>3 DEF Ways, Runs, Legs, r
<1>3. ASSUME OneAxis(start, a), OneAxis(a, b), OneAxis(b, c), OneAxis(c, end)
      PROVE  <<start, a, b, c, end>> \in Ways(start, end)
  <2> DEFINE r == <<start, a, b, c, end>>
  <2>1. /\ r \in Seq(Points) /\ Len(r) = 5
        /\ r[1] = start /\ r[2] = a /\ r[3] = b /\ r[4] = c /\ r[5] = end
    OBVIOUS
  <2> HIDE DEF r
  <2>2. \A i \in 1..(Len(r) - 1) : i \in {1, 2, 3, 4}
    BY <2>1
  <2>3. \A i \in 1..(Len(r) - 1) : OneAxis(r[i], r[i + 1])
    BY <1>3, <2>1, <2>2
  <2> QED BY <2>1, <2>3 DEF Ways, Runs, Legs, r
<1>4. ASSUME OneAxis(start, a), OneAxis(a, b), OneAxis(b, c), OneAxis(c, d), OneAxis(d, end)
      PROVE  <<start, a, b, c, d, end>> \in Ways(start, end)
  <2> DEFINE r == <<start, a, b, c, d, end>>
  <2>1. /\ r \in Seq(Points) /\ Len(r) = 6
        /\ r[1] = start /\ r[2] = a /\ r[3] = b /\ r[4] = c /\ r[5] = d /\ r[6] = end
    OBVIOUS
  <2> HIDE DEF r
  <2>2. \A i \in 1..(Len(r) - 1) : i \in {1, 2, 3, 4, 5}
    BY <2>1
  <2>3. \A i \in 1..(Len(r) - 1) : OneAxis(r[i], r[i + 1])
    BY <1>4, <2>1, <2>2
  <2> QED BY <2>1, <2>3 DEF Ways, Runs, Legs, r
<1> QED BY <1>2, <1>3, <1>4

LEMMA NormalizedRuns ==
  ASSUME NEW start, NEW end, NEW r \in Ways(start, end)
  PROVE  Normalized(r) \in Ways(start, end)
<1>1. r \in Seq(Points) /\ Len(r) >= 1 /\ r[1] = start /\ r[Len(r)] = end /\ r \in Legs
  BY DEF Ways, Runs
<1>2. Normalized(r) \in Runs(start, end) /\ Normalized(r) \in Steps
  BY <1>1, NormalizedKeepsEnds
<1> QED BY <1>2 DEF Ways, Steps, Legs

\* Two ends that are joined without a bend, and honestly, lie on one axis.
LEMMA HonestLineIsLeg ==
  ASSUME NEW start \in Points, NEW end \in Points, NEW fromSide \in Sides, NEW toSide \in Sides,
         HonorsSides(<<start, end>>, fromSide, toSide)
  PROVE  <<start, end>> \in Ways(start, end)
<1> DEFINE r == Normalized(<<start, end>>)
           n == Len(r)
<1>1. r \in Runs(start, end) /\ n <= 2
  <2> DEFINE line == <<start, end>>
  <2>3. \A s \in Seq(Points) : Len(s) >= 1 =>
          Normalized(s) \in Runs(s[1], s[Len(s)]) /\ Len(Normalized(s)) <= Len(s)
    BY NormalizedKeepsEnds
  <2> HIDE DEF Points
  <2>1. line \in Seq(Points) /\ Len(line) = 2 /\ line[1] = start /\ line[2] = end
    OBVIOUS
  <2> HIDE DEF line
  <2>2. Normalized(line) \in Runs(line[1], line[Len(line)]) /\ Len(Normalized(line)) <= Len(line)
    BY SMTT(40), <2>1, <2>3
  <2> QED BY <2>1, <2>2 DEF line
<1>2. Len(r) < 2 \/ Leaves(r[1], r[2], Outward[fromSide])
  BY DEF HonorsSides, HonorsSide
<1> HIDE DEF r
<1>3. n \in Nat /\ n >= 1 /\ r[1] = start /\ r[n] = end
  BY <1>1 DEF Runs
<1>4. ASSUME n = 1 PROVE OneAxis(start, end)
  <2>1. start = end
    BY <1>3, <1>4
  <2> QED BY <2>1 DEF OneAxis
<1>5. ASSUME n = 2 PROVE OneAxis(start, end)
  <2>1. Leaves(start, end, Outward[fromSide])
    BY <1>2, <1>3, <1>5
  <2>2. /\ start[1] \in Int /\ start[2] \in Int /\ end[1] \in Int /\ end[2] \in Int
    BY DEF Points
  <2>3. \/ Outward[fromSide][1] \in {1, -1} /\ Outward[fromSide][2] = 0
        \/ Outward[fromSide][2] \in {1, -1} /\ Outward[fromSide][1] = 0
    BY DEF Sides, Outward
  <2>4. /\ (end[1] - start[1]) * Outward[fromSide][2] = 0
        /\ (end[2] - start[2]) * Outward[fromSide][1] = 0
    BY <2>1 DEF Leaves
  <2>5. end[1] - start[1] = 0 \/ end[2] - start[2] = 0
    BY <2>2, <2>3, <2>4
  <2> QED BY <2>2, <2>5 DEF OneAxis
<1> HIDE DEF n
<1>6. n = 1 \/ n = 2
  BY <1>1, <1>3
<1>7. OneAxis(start, end)
  BY <1>4, <1>5, <1>6
<1> QED BY <1>7, LineIsWay

\* Every candidate runs from start to end.
LEMMA CandidatesRun ==
  ASSUME NEW start \in Points, NEW end \in Points,
         NEW fromSide \in Sides, NEW toSide \in Sides
  PROVE  /\ DOMAIN RhythmBridges(start, end, fromSide, toSide) \subseteq Nat
         /\ \A i \in DOMAIN RhythmBridges(start, end, fromSide, toSide) :
              RhythmBridges(start, end, fromSide, toSide)[i] \in Ways(start, end)
         /\ DOMAIN Bridges(start, end, fromSide, toSide) \subseteq Nat
         /\ \A i \in DOMAIN Bridges(start, end, fromSide, toSide) :
              Bridges(start, end, fromSide, toSide)[i] \in Ways(start, end)
         /\ \A k \in 1..2 : /\ DOMAIN Outside(start, end, k) \subseteq Nat
                            /\ \A i \in DOMAIN Outside(start, end, k) :
                                 Outside(start, end, k)[i] \in Ways(start, end)
         /\ ByMidX(start, end) \in Ways(start, end)
         /\ ByMidY(start, end) \in Ways(start, end)
<1> DEFINE R == Ways(start, end)
<1>1. start[1] \in Int /\ start[2] \in Int /\ end[1] \in Int /\ end[2] \in Int
  BY DEF Points
<1>2. \A x, y \in Int : <<x, y>> \in Points
  BY DEF Points
<1>3. \A p, q, u, v \in Points :
        /\ OneAxis(start, p) /\ OneAxis(p, q) /\ OneAxis(q, end) => <<start, p, q, end>> \in R
        /\ OneAxis(start, p) /\ OneAxis(p, q) /\ OneAxis(q, u) /\ OneAxis(u, end)
             => <<start, p, q, u, end>> \in R
        /\ OneAxis(start, p) /\ OneAxis(p, q) /\ OneAxis(q, u) /\ OneAxis(u, v) /\ OneAxis(v, end)
             => <<start, p, q, u, v, end>> \in R
  BY ShortRuns
<1>14. \A p \in Points : \A x, y, z \in Int :
         /\ OneAxis(p, <<x, p[2]>>) /\ OneAxis(<<x, p[2]>>, p)
         /\ OneAxis(p, <<p[1], x>>) /\ OneAxis(<<p[1], x>>, p)
         /\ OneAxis(<<x, y>>, <<x, z>>) /\ OneAxis(<<y, x>>, <<z, x>>)
  BY DEF OneAxis
<1> DEFINE a == Stub(start, fromSide, 24 * Px)
           b == Stub(end, toSide, 24 * Px)
<1>4. a \in Points /\ b \in Points /\ OneAxis(start, a) /\ OneAxis(b, end)
  BY StubIsPoint, AxisBothWays
<1>5. a[1] \in Int /\ a[2] \in Int /\ b[1] \in Int /\ b[2] \in Int
  BY <1>4 DEF Points
<1>6. ByMidX(start, end) \in R /\ ByMidY(start, end) \in R
  <2>1. (start[1] + end[1]) \div 2 \in Int /\ (start[2] + end[2]) \div 2 \in Int
    BY <1>1
  <2> HIDE DEF R
  <2> QED BY <1>1, <1>2, <1>3, <1>14, <2>1 DEF ByMidX, ByMidY
<1>7. \A k \in 1..2 : Most(start[k], end[k]) + 16 * Px \in Int
                      /\ Least(start[k], end[k]) - 16 * Px \in Int
  BY <1>1 DEF Most, Least, Px
<1>8. ASSUME NEW k \in 1..2
      PROVE  Outside(start, end, k) \in Seq(R)
  <2> DEFINE by(channel) ==
        IF k = 1 THEN <<start, <<channel, start[2]>>, <<channel, end[2]>>, end>>
        ELSE <<start, <<start[1], channel>>, <<end[1], channel>>, end>>
  <2>1. \A x \in Int : by(x) \in R
    <3> SUFFICES ASSUME NEW x \in Int PROVE by(x) \in R
      OBVIOUS
    <3>1. /\ <<x, start[2]>> \in Points /\ <<x, end[2]>> \in Points
          /\ <<start[1], x>> \in Points /\ <<end[1], x>> \in Points
      BY <1>1, <1>2
    <3>2. CASE k = 1
      <4>1. /\ OneAxis(start, <<x, start[2]>>) /\ OneAxis(<<x, start[2]>>, <<x, end[2]>>)
            /\ OneAxis(<<x, end[2]>>, end)
        BY DEF OneAxis
      <4> HIDE DEF R
      <4> QED BY <1>3, <3>1, <3>2, <4>1
    <3>3. CASE k # 1
      <4>1. /\ OneAxis(start, <<start[1], x>>) /\ OneAxis(<<start[1], x>>, <<end[1], x>>)
            /\ OneAxis(<<end[1], x>>, end)
        BY DEF OneAxis
      <4> HIDE DEF R
      <4> QED BY <1>3, <3>1, <3>3, <4>1
    <3> QED BY <3>2, <3>3
  <2>2. Outside(start, end, k)
          = <<by(Most(start[k], end[k]) + 16 * Px), by(Least(start[k], end[k]) - 16 * Px)>>
    BY DEF Outside
  <2> HIDE DEF R, by
  <2>3. by(Most(start[k], end[k]) + 16 * Px) \in R /\ by(Least(start[k], end[k]) - 16 * Px) \in R
    BY <1>7, <2>1
  <2> QED BY <2>2, <2>3
<1>9. Channels(start, end, fromSide, toSide) \in Seq(R)
  <2> DEFINE k == IF Upright(fromSide) THEN 2 ELSE 1
             by(channel) ==
               IF k = 1 THEN <<start, a, <<channel, a[2]>>, <<channel, b[2]>>, b, end>>
               ELSE <<start, a, <<a[1], channel>>, <<b[1], channel>>, b, end>>
             near == Upright(fromSide) = Upright(toSide) /\ Abs(start[k] - end[k]) < 16 * Px
  <2>1. \A x \in Int : by(x) \in R
    <3> SUFFICES ASSUME NEW x \in Int PROVE by(x) \in R
      OBVIOUS
    <3>1. /\ <<x, a[2]>> \in Points /\ <<x, b[2]>> \in Points
          /\ <<a[1], x>> \in Points /\ <<b[1], x>> \in Points
      BY <1>2, <1>5
    <3>2. /\ OneAxis(a, <<x, a[2]>>) /\ OneAxis(<<x, a[2]>>, <<x, b[2]>>)
          /\ OneAxis(<<x, b[2]>>, b)
          /\ OneAxis(a, <<a[1], x>>) /\ OneAxis(<<a[1], x>>, <<b[1], x>>)
          /\ OneAxis(<<b[1], x>>, b)
      BY DEF OneAxis
    <3> HIDE DEF R, a, b, k
    <3>3. CASE k = 1
      BY <1>3, <1>4, <3>1, <3>2, <3>3
    <3>4. CASE k # 1
      BY <1>3, <1>4, <3>1, <3>2, <3>4
    <3> QED BY <3>3, <3>4
  <2>2. Channels(start, end, fromSide, toSide)
          = IF near
            THEN <<by(Most(start[k], end[k]) + 16 * Px), by(Least(start[k], end[k]) - 16 * Px)>>
            ELSE <<>>
    BY DEF Channels
  <2>3. k \in 1..2
    OBVIOUS
  <2> HIDE DEF R, by, k, near
  <2>4. by(Most(start[k], end[k]) + 16 * Px) \in R /\ by(Least(start[k], end[k]) - 16 * Px) \in R
    BY <1>7, <2>1, <2>3
  <2> QED BY <2>2, <2>4
<1>10. \A s \in Seq(R) :
         LET t == [i \in DOMAIN s |-> Normalized(s[i])]
         IN DOMAIN t \subseteq Nat /\ \A i \in DOMAIN t : t[i] \in R
  <2> SUFFICES ASSUME NEW s \in Seq(R)
               PROVE  LET t == [i \in DOMAIN s |-> Normalized(s[i])]
                      IN DOMAIN t \subseteq Nat /\ \A i \in DOMAIN t : t[i] \in R
    OBVIOUS
  <2>1. \A r \in R : Normalized(r) \in R
    BY NormalizedRuns
  <2> HIDE DEF R
  <2>2. DOMAIN s \subseteq Nat /\ \A i \in DOMAIN s : s[i] \in R
    OBVIOUS
  <2> QED BY <2>1, <2>2
<1>11. /\ DOMAIN RhythmBridges(start, end, fromSide, toSide) \subseteq Nat
       /\ \A i \in DOMAIN RhythmBridges(start, end, fromSide, toSide) :
            RhythmBridges(start, end, fromSide, toSide)[i] \in R
  <2> HIDE DEF R
  <2> QED BY <1>9, <1>10 DEF RhythmBridges
<1>12. /\ DOMAIN Bridges(start, end, fromSide, toSide) \subseteq Nat
       /\ \A i \in DOMAIN Bridges(start, end, fromSide, toSide) :
            Bridges(start, end, fromSide, toSide)[i] \in R
  <2> DEFINE last == <<<<start, a, <<b[1], a[2]>>, b, end>>, <<start, a, <<a[1], b[2]>>, b, end>>>>
             raw == Channels(start, end, fromSide, toSide) \o last
  <2>1. Bridges(start, end, fromSide, toSide) = [i \in DOMAIN raw |-> Normalized(raw[i])]
    BY DEF Bridges
  <2>2. <<b[1], a[2]>> \in Points /\ <<a[1], b[2]>> \in Points
    BY <1>2, <1>5
  <2> HIDE DEF R, a, b
  <2>3. last \in Seq(R)
    <3>0. /\ OneAxis(a, <<b[1], a[2]>>) /\ OneAxis(<<b[1], a[2]>>, b)
          /\ OneAxis(a, <<a[1], b[2]>>) /\ OneAxis(<<a[1], b[2]>>, b)
      BY DEF OneAxis
    <3>1. <<start, a, <<b[1], a[2]>>, b, end>> \in R
      BY <1>3, <1>4, <2>2, <3>0
    <3>2. <<start, a, <<a[1], b[2]>>, b, end>> \in R
      BY <1>3, <1>4, <2>2, <3>0
    <3> QED BY <3>1, <3>2
  <2> HIDE DEF last
  <2>4. raw \in Seq(R)
    BY <1>9, <2>3
  <2> HIDE DEF raw
  <2> QED BY <1>10, <2>1, <2>4
<1>13. ASSUME NEW k \in 1..2
       PROVE  /\ DOMAIN Outside(start, end, k) \subseteq Nat
              /\ \A i \in DOMAIN Outside(start, end, k) : Outside(start, end, k)[i] \in R
  <2> HIDE DEF R
  <2> QED BY <1>8
<1> QED BY <1>6, <1>11, <1>12, <1>13

\* However an automatic connection is routed, it runs between its ends.
LEMMA AutomaticRuns ==
  ASSUME NEW d, NEW c, NEW start \in Points, NEW end \in Points,
         NEW fromSide \in Sides, NEW toSide \in Sides
  PROVE  AutomaticRoute(d, c, start, end, fromSide, toSide) \in Ways(start, end)
<1> DEFINE R == Ways(start, end)
           doglegs == <<ByMidX(start, end), ByMidY(start, end)>>
           rhythmic == RhythmBridges(start, end, fromSide, toSide)
           bridges == Bridges(start, end, fromSide, toSide)
           Takes(routes) == DOMAIN routes \subseteq Nat /\ \A i \in DOMAIN routes : routes[i] \in R
<1>1. \A routes, good, next : Takes(routes) /\ next \in R => FirstOf(routes, good, next) \in R
  BY FirstOfRuns
<1>2. /\ Takes(rhythmic) /\ Takes(bridges)
      /\ Takes(Outside(start, end, 1)) /\ Takes(Outside(start, end, 2))
      /\ ByMidX(start, end) \in R /\ ByMidY(start, end) \in R
  <2>1. 1 \in 1..2 /\ 2 \in 1..2
    OBVIOUS
  <2> QED BY <2>1, CandidatesRun
<1>3. Takes(doglegs)
  <2>1. doglegs \in Seq(R)
    <3> HIDE DEF R
    <3> QED BY <1>2
  <2> HIDE DEF doglegs, R
  <2> QED BY <2>1
<1>4. HonorsSides(<<start, end>>, fromSide, toSide) => <<start, end>> \in R
  BY HonestLineIsLeg
<1> HIDE DEF R, Takes
<1> DEFINE from == d.components[c.from]
           to == d.components[c.to]
           dx == Abs(start[1] - end[1])
           dy == Abs(start[2] - end[2])
           honest(r) == HonorsSides(r, fromSide, toSide)
           clear(routes) == {r \in routes : ClearsEnds(r, from, to) /\ ClearsComponents(d, c, r)}
           onEdge(p, r, k) == IF k = 1 THEN p[2] \in {r.y, r.y + r.h} ELSE p[1] \in {r.x, r.x + r.w}
           beside(k) == {r \in Range(Outside(start, end, k)) :
             /\ onEdge(start, from, k) /\ onEdge(end, to, k) /\ Abs(start[k] - end[k]) < 16 * Px
             /\ honest(r) /\ ClearsComponents(d, c, r)}
           near == /\ Upright(fromSide) = Upright(toSide)
                   /\ (IF Upright(fromSide) THEN dy ELSE dx) < 16 * Px
           keep == {r \in Range(rhythmic) : KeepsRhythm(r, fromSide, toSide)}
           aware == {r \in Range(bridges) : IsBridge(r, fromSide, toSide)}
           safe == {r \in Range(doglegs) : honest(r)}
           blocked == FirstOf(doglegs, safe, FirstOf(bridges, aware, ByMidX(start, end)))
           unsafe == FirstOf(doglegs, clear(Range(doglegs) \ safe), blocked)
           ordered ==
             IF near THEN FirstOf(bridges, clear(aware), FirstOf(doglegs, clear(safe), unsafe))
             ELSE FirstOf(doglegs, clear(safe), FirstOf(bridges, clear(aware), unsafe))
           outside == FirstOf(Outside(start, end, 1), beside(1),
                              FirstOf(Outside(start, end, 2), beside(2), ordered))
<1>5. AutomaticRoute(d, c, start, end, fromSide, toSide)
        = IF (dx < 4 * Px \/ dy < 4 * Px) /\ honest(<<start, end>>) THEN <<start, end>>
          ELSE FirstOf(rhythmic, clear(keep), outside)
  BY DEF AutomaticRoute
<1> HIDE DEF doglegs, rhythmic, bridges, clear, beside, near, keep, aware, safe, honest, dx, dy
<1>6. blocked \in R
  BY <1>1, <1>2, <1>3
<1> HIDE DEF blocked
<1>7. unsafe \in R
  BY <1>1, <1>3, <1>6
<1> HIDE DEF unsafe
<1>8. ordered \in R
  BY <1>1, <1>2, <1>3, <1>7
<1> HIDE DEF ordered
<1>9. outside \in R
  BY <1>1, <1>2, <1>8
<1> HIDE DEF outside
<1>10. FirstOf(rhythmic, clear(keep), outside) \in R
  BY <1>1, <1>2, <1>9
<1> QED BY <1>4, <1>5, <1>10 DEF R, honest

-----------------------------------------------------------------------------
(* Ends and ports                                                          *)

\* Connections of a document, as they are ordered and routed
IsLine(d, c) ==
  /\ c.id \in Int /\ c.label \in Int
  /\ {c.fromSide, c.toSide} \subseteq {"auto", "left", "right", "top", "bottom"}
  /\ {c.from, c.to} \subseteq DOMAIN d.components

HasLines(d) ==
  /\ HasBoxes(d)
  /\ Len(d.connections) \in Nat /\ DOMAIN d.connections = 1..Len(d.connections)
  /\ \A i \in DOMAIN d.connections : IsLine(d, d.connections[i])

LEMMA DocumentHasLines == ASSUME NEW d \in Documents PROVE HasLines(d)
<1>1. d.connections \in Seq(Lines) /\ d.components \in Layouts
  BY DEF Documents
<1>2. \A c \in Lines : IsLine(d, c)
  BY <1>1, LineAssumption DEF IsLine
<1> QED BY <1>1, <1>2, DocumentHasBoxes DEF HasLines

LEMMA EndIsThere ==
  ASSUME NEW d, HasLines(d), NEW i \in DOMAIN d.connections, NEW e \in {"from", "to"}
  PROVE  LET a == End(d.connections, d.components, i, e) IN
         /\ a.box = IF e = "from" THEN d.connections[i].from ELSE d.connections[i].to
         /\ a.box \in DOMAIN d.components /\ a.side \in Sides
         /\ Center(a.other)[1] \in Int /\ Center(a.other)[2] \in Int
<1> DEFINE c == d.connections[i]
           from == d.components[c.from]
           to == d.components[c.to]
           a == End(d.connections, d.components, i, e)
<1>1. IsLine(d, c)
  BY DEF HasLines
<1>2. c.from \in DOMAIN d.components /\ c.to \in DOMAIN d.components
  BY <1>1 DEF IsLine
<1>3. /\ from \in [x : Int, y : Int, w : Nat, h : Nat]
      /\ to \in [x : Int, y : Int, w : Nat, h : Nat]
  BY <1>2 DEF HasLines, HasBoxes
<1>4. DefaultFromSide(from, to) \in Sides /\ DefaultToSide(from, to) \in Sides
  BY DEF DefaultFromSide, DefaultToSide, Sides
<1>5. /\ ChosenSide(c.fromSide, DefaultFromSide(from, to)) \in Sides
      /\ ChosenSide(c.toSide, DefaultToSide(from, to)) \in Sides
  BY <1>1, <1>4 DEF ChosenSide, IsLine, Sides
<1>6. \A r \in [x : Int, y : Int, w : Nat, h : Nat] : Center(r)[1] \in Int /\ Center(r)[2] \in Int
  BY DEF Center
<1>7. a = IF e = "from"
          THEN [box |-> c.from, side |-> ChosenSide(c.fromSide, DefaultFromSide(from, to)), other |-> to]
          ELSE [box |-> c.to, side |-> ChosenSide(c.toSide, DefaultToSide(from, to)), other |-> from]
  BY DEF End
<1> HIDE DEF a, c, from, to
<1>8. CASE e = "from"
  <2>1. a = [box |-> c.from, side |-> ChosenSide(c.fromSide, DefaultFromSide(from, to)), other |-> to]
    BY <1>7, <1>8
  <2>2. a.box = c.from /\ a.side \in Sides /\ a.other = to
    BY <1>5, <2>1
  <2> QED BY <1>2, <1>3, <1>6, <1>8, <2>2 DEF a, c
<1>9. CASE e = "to"
  <2>1. a = [box |-> c.to, side |-> ChosenSide(c.toSide, DefaultToSide(from, to)), other |-> from]
    BY <1>7, <1>9
  <2>2. a.box = c.to /\ a.side \in Sides /\ a.other = from
    BY <1>5, <2>1
  <2> QED BY <1>2, <1>3, <1>6, <1>9, <2>2 DEF a, c
<1> QED BY <1>8, <1>9

\* A shared end is where the port is; the other one is a point all the same.
LEMMA AlignedKeepsShared ==
  ASSUME NEW d, NEW c, NEW start \in Points, NEW end \in Points, NEW fromSide, NEW toSide,
         NEW fromShared \in BOOLEAN, NEW toShared \in BOOLEAN
  PROVE  LET a == Aligned(d, c, start, end, fromSide, toSide, fromShared, toShared) IN
         /\ a[1] \in Points /\ a[2] \in Points
         /\ fromShared => a[1] = start
         /\ toShared => a[2] = end
<1> DEFINE k == IF Upright(fromSide) THEN 2 ELSE 1
           moved(p, q) == [p EXCEPT ![k] = q[k]]
           may == MayAlign(fromShared, toShared)
           a == Aligned(d, c, start, end, fromSide, toSide, fromShared, toShared)
<1>1. moved(end, start) \in Points /\ moved(start, end) \in Points
  <2>1. start[1] \in Int /\ start[2] \in Int /\ end[1] \in Int /\ end[2] \in Int
    BY DEF Points
  <2>2. CASE k = 1
    BY <2>1, <2>2 DEF Points
  <2>3. CASE k = 2
    BY <2>1, <2>3 DEF Points
  <2> QED BY <2>2, <2>3
<1>2. \/ a = <<start, end>>
      \/ a = <<start, moved(end, start)>> /\ "to" \in may
      \/ a = <<moved(start, end), end>> /\ "from" \in may
  <2> HIDE DEF moved, may
  <2> QED BY DEF Aligned, moved, may
<1> HIDE DEF moved
<1>3. ("to" \in may => ~toShared) /\ ("from" \in may => ~fromShared)
  BY DEF MayAlign
<1> HIDE DEF may, a
<1> QED BY <1>1, <1>2, <1>3 DEF a

\* The ends of automatic connections
AutomaticEnds(d) == {i \in DOMAIN d.connections : Automatic(d.connections[i])} \X {"from", "to"}

LEMMA FanKeyIsKey ==
  ASSUME NEW d, HasLines(d), NEW i \in DOMAIN d.connections, NEW e \in {"from", "to"}
  PROVE  LET a == End(d.connections, d.components, i, e)
             key == FanKey(d.connections, d.components, <<i, e>>)
         IN /\ key \in [1..7 -> Int]
            /\ key[1] = Center(a.other)[IF Upright(a.side) THEN 2 ELSE 1]
            /\ key[6] = i /\ key[7] = IF e = "from" THEN 0 ELSE 1
<1> DEFINE c == d.connections[i]
           a == End(d.connections, d.components, i, e)
           goal == Goal(d.connections, d.components, <<i, e>>)
           last == IF e = "from" THEN 0 ELSE 1
           key == FanKey(d.connections, d.components, <<i, e>>)
<1>1. c.id \in Int /\ c.label \in Int /\ c.from \in Int /\ c.to \in Int
  BY DEF HasLines, HasBoxes, IsLine
<1>2. goal = Center(a.other)[IF Upright(a.side) THEN 2 ELSE 1]
  BY DEF Goal
<1>3. goal \in Int
  BY <1>2, EndIsThere
<1>4. i \in Int /\ last \in Int
  BY DEF HasLines
<1>5. key = <<goal>> \o <<c.id, c.from, c.to, c.label>> \o <<i, last>>
  BY DEF FanKey, Key
<1> HIDE DEF goal, last, key, c, a
<1> DEFINE five == <<goal>> \o <<c.id, c.from, c.to, c.label>>
<1>6. five \in Seq(Int) /\ Len(five) = 5 /\ five[1] = goal
  <2>1. <<goal>> \in Seq(Int) /\ Len(<<goal>>) = 1 /\ <<goal>>[1] = goal
    BY <1>3
  <2>2. /\ <<c.id, c.from, c.to, c.label>> \in Seq(Int)
        /\ Len(<<c.id, c.from, c.to, c.label>>) = 4
    BY <1>1
  <2> QED BY <2>1, <2>2
<1>7. <<i, last>> \in Seq(Int) /\ Len(<<i, last>>) = 2
      /\ <<i, last>>[1] = i /\ <<i, last>>[2] = last
  BY <1>4
<1>8. /\ key \in [1..7 -> Int]
      /\ key[1] = goal /\ key[6] = i /\ key[7] = last
  <2> DEFINE two == <<i, last>>
  <2>1. key = five \o two /\ two \in Seq(Int) /\ Len(two) = 2 /\ two[1] = i /\ two[2] = last
    BY <1>5, <1>7
  <2> HIDE DEF five, two
  <2>2. /\ five \o two \in Seq(Int) /\ Len(five \o two) = Len(five) + Len(two)
        /\ \A k \in 1..(Len(five) + Len(two)) :
             (five \o two)[k] = IF k <= Len(five) THEN five[k] ELSE two[k - Len(five)]
    BY <1>6, <2>1, ConcatProperties
  <2>3. key \in Seq(Int) /\ Len(key) = 7
    BY <1>6, <2>1, <2>2
  <2>4. key \in [1..Len(key) -> Int]
    BY <2>3, LenProperties
  <2>5. key[1] = five[1] /\ key[6] = two[1] /\ key[7] = two[2]
    BY SMTT(40), <1>6, <2>1, <2>2
  <2> QED BY <1>6, <2>1, <2>3, <2>4, <2>5
<1> QED BY <1>2, <1>8 DEF key, last, a

\* Lower is a strict order on keys, and of two keys that differ one is lower.
LEMMA LowerIsStrict == ASSUME NEW a \in [1..7 -> Int] PROVE ~Lower(a, a)
BY DEF Lower

LEMMA LowerIsTransitive ==
  ASSUME NEW a \in [1..7 -> Int], NEW b \in [1..7 -> Int], NEW c \in [1..7 -> Int],
         Lower(a, b), Lower(b, c)
  PROVE  Lower(a, c)
<1>1. PICK k \in 1..7 : a[k] < b[k] /\ \A j \in 1..(k - 1) : a[j] = b[j]
  BY DEF Lower
<1>2. PICK m \in 1..7 : b[m] < c[m] /\ \A j \in 1..(m - 1) : b[j] = c[j]
  BY DEF Lower
<1> SUFFICES \E n \in 1..7 : a[n] < c[n] /\ \A j \in 1..(n - 1) : a[j] = c[j]
  BY DEF Lower
<1>3. CASE k < m
  <2>1. a[k] < b[k] /\ b[k] = c[k]
    BY <1>1, <1>2, <1>3
  <2>2. \A j \in 1..(k - 1) : a[j] = c[j]
    BY <1>1, <1>2, <1>3
  <2> QED BY <2>1, <2>2
<1>4. CASE m < k
  <2>1. a[m] = b[m] /\ b[m] < c[m]
    BY <1>1, <1>2, <1>4
  <2>2. \A j \in 1..(m - 1) : a[j] = c[j]
    BY <1>1, <1>2, <1>4
  <2> QED BY <2>1, <2>2
<1>5. CASE k = m
  <2>1. a[k] < c[k]
    <3>1. a[k] \in Int /\ b[k] \in Int /\ c[k] \in Int
      OBVIOUS
    <3> QED BY <1>1, <1>2, <1>5, <3>1
  <2>2. \A j \in 1..(k - 1) : a[j] = c[j]
    BY <1>1, <1>2, <1>5
  <2> QED BY <2>1, <2>2
<1> QED BY <1>3, <1>4, <1>5

LEMMA LowerIsTotal ==
  ASSUME NEW a \in [1..7 -> Int], NEW b \in [1..7 -> Int], a # b
  PROVE  Lower(a, b) \/ Lower(b, a)
<1> DEFINE T == {k \in 1..7 : a[k] # b[k]}
<1>1. T # {} /\ T \subseteq Nat
  OBVIOUS
<1>2. PICK k \in T : \A j \in T : k <= j
  BY <1>1, LeastNatural
<1>3. \A j \in 1..(k - 1) : a[j] = b[j]
  BY <1>2
<1>4. a[k] < b[k] \/ b[k] < a[k]
  BY <1>2
<1> QED BY <1>2, <1>3, <1>4 DEF Lower

\* The other ends of a fan have that fan too.
LEMMA FanIsShared ==
  ASSUME NEW d, NEW p, NEW q,
         End(d.connections, d.components, p[1], p[2]).box = End(d.connections, d.components, q[1], q[2]).box,
         End(d.connections, d.components, p[1], p[2]).side = End(d.connections, d.components, q[1], q[2]).side
  PROVE  Fan(d.connections, d.components, p) = Fan(d.connections, d.components, q)
BY DEF Fan

LEMMA FanIsFinite ==
  ASSUME NEW d, HasLines(d), NEW end
  PROVE  /\ Fan(d.connections, d.components, end) \subseteq AutomaticEnds(d)
         /\ IsFiniteSet(Fan(d.connections, d.components, end))
         /\ Cardinality(Fan(d.connections, d.components, end)) \in Nat
         /\ Cardinality(Fan(d.connections, d.components, end)) <= 2 * Len(d.connections)
<1> DEFINE n == Len(d.connections)
           fan == Fan(d.connections, d.components, end)
           all == (1..n) \X {"from", "to"}
<1>1. fan \subseteq AutomaticEnds(d)
  BY DEF Fan, AutomaticEnds
<1>2. AutomaticEnds(d) \subseteq all
  BY DEF AutomaticEnds, HasLines
<1>3. n \in Nat
  BY DEF HasLines
<1> HIDE DEF n, fan
<1>4. IsFiniteSet(1..n) /\ Cardinality(1..n) = n
  <2>1. \A k \in Nat : IsFiniteSet(1..k) /\ Cardinality(1..k) = k
    BY FS_Interval
  <2> QED BY <1>3, <2>1
<1>5. IsFiniteSet({"from", "to"}) /\ Cardinality({"from", "to"}) = 2
  <2>1. IsFiniteSet({"from"}) /\ Cardinality({"from"}) = 1
    BY FS_Singleton
  <2>2. {"from", "to"} = {"from"} \cup {"to"} /\ "to" \notin {"from"}
    OBVIOUS
  <2>3. IsFiniteSet({"from"} \cup {"to"}) /\ Cardinality({"from"} \cup {"to"}) = 1 + 1
    BY <2>1, <2>2, FS_AddElement
  <2> QED BY <2>2, <2>3
<1>6. IsFiniteSet(all) /\ Cardinality(all) = n * 2
  <2> DEFINE U == 1..n
             T == {"from", "to"}
  <2>1. IsFiniteSet(U) /\ IsFiniteSet(T) /\ Cardinality(U) = n /\ Cardinality(T) = 2
    BY <1>4, <1>5
  <2> HIDE DEF U, T
  <2>2. IsFiniteSet(U \X T) /\ Cardinality(U \X T) = Cardinality(U) * Cardinality(T)
    BY <2>1, FS_Product
  <2>3. all = U \X T
    BY DEF U, T
  <2> HIDE DEF all
  <2> QED BY <2>1, <2>2, <2>3
<1> HIDE DEF all
<1>7. fan \in SUBSET all
  BY <1>1, <1>2
<1>8. IsFiniteSet(fan) /\ Cardinality(fan) <= Cardinality(all)
  BY <1>6, <1>7, FS_Subset
<1>9. Cardinality(fan) \in Nat
  BY <1>8, FS_CardinalityType
<1>10. Cardinality(fan) <= 2 * n
  BY <1>3, <1>6, <1>8
<1> QED BY <1>1, <1>8, <1>9, <1>10 DEF fan, n

\* Ends of one fan have ranks of their own, in the order of their keys.
LEMMA RanksFollowKeys ==
  ASSUME NEW d, HasLines(d), NEW p \in AutomaticEnds(d), NEW q \in AutomaticEnds(d),
         q \in Fan(d.connections, d.components, p), p \in Fan(d.connections, d.components, p),
         Fan(d.connections, d.components, p) = Fan(d.connections, d.components, q),
         Lower(FanKey(d.connections, d.components, p), FanKey(d.connections, d.components, q))
  PROVE  /\ PortRank(d.connections, d.components, p) \in Nat
         /\ PortRank(d.connections, d.components, q) \in Nat
         /\ PortRank(d.connections, d.components, p) < PortRank(d.connections, d.components, q)
<1> DEFINE S == Fan(d.connections, d.components, p)
           key(e) == FanKey(d.connections, d.components, e)
           R == {x \in S \X S : Lower(key(x[1]), key(x[2]))}
<1>1. IsFiniteSet(S) /\ S \subseteq AutomaticEnds(d)
  BY FanIsFinite
<1>2. ASSUME NEW e \in S PROVE key(e) \in [1..7 -> Int]
  <2>1. PICK i \in DOMAIN d.connections, f \in {"from", "to"} : e = <<i, f>>
    BY <1>1, <1>2 DEF AutomaticEnds
  <2> QED BY <2>1, FanKeyIsKey
<1>3. /\ PortRank(d.connections, d.components, p) = Cardinality({e \in S : Lower(key(e), key(p))})
      /\ PortRank(d.connections, d.components, q) = Cardinality({e \in S : Lower(key(e), key(q))})
  BY DEF PortRank
<1>4. p \in S /\ q \in S /\ Lower(key(p), key(q))
  OBVIOUS
<1> HIDE DEF S, key
<1>5. \A x, y \in S : <<x, y>> \in R <=> Lower(key(x), key(y))
  OBVIOUS
<1>6. {e \in S : Lower(key(e), key(p))} = {e \in S : <<e, p>> \in R}
      /\ {e \in S : Lower(key(e), key(q))} = {e \in S : <<e, q>> \in R}
  BY <1>4, <1>5
<1> HIDE DEF R
<1>7. \A x \in S : <<x, x>> \notin R
  BY <1>2, <1>5, LowerIsStrict
<1>8. ASSUME NEW x \in S, NEW y \in S, NEW z \in S, <<x, y>> \in R, <<y, z>> \in R
      PROVE  <<x, z>> \in R
  <2>1. Lower(key(x), key(y)) /\ Lower(key(y), key(z))
    BY <1>5, <1>8
  <2>2. Lower(key(x), key(z))
    BY <1>2, <2>1, LowerIsTransitive
  <2> QED BY <1>5, <2>2
<1>9. <<p, q>> \in R
  BY <1>4, <1>5
<1>10. /\ Cardinality({z \in S : <<z, p>> \in R}) \in Nat
       /\ Cardinality({z \in S : <<z, q>> \in R}) \in Nat
       /\ Cardinality({z \in S : <<z, p>> \in R}) < Cardinality({z \in S : <<z, q>> \in R})
  BY <1>1, <1>4, <1>7, <1>8, <1>9, RanksRise
<1> QED BY <1>3, <1>6, <1>10

-----------------------------------------------------------------------------
(* Where ports are                                                         *)

LEMMA QuotientsPart ==
  ASSUME NEW a \in Int, NEW b \in Int, NEW m \in Int, m > 0, b >= a + m
  PROVE  a \div m \in Int /\ b \div m \in Int /\ a \div m < b \div m
<1> DEFINE x == a \div m
           y == b \div m
<1>1. x \in Int /\ y \in Int
  OBVIOUS
<1>2. m * x <= a
  OBVIOUS
<1>3. b < m * (y + 1)
  OBVIOUS
<1> HIDE DEF x, y
<1>4. m * (x + 1) < m * (y + 1)
  BY <1>1, <1>2, <1>3
<1>5. x < y
  BY <1>1, <1>4
<1> QED BY <1>1, <1>5 DEF x, y

\* The port of a rank on a side that is spread
PortAt(box, side, gaps, rank) ==
  LET extent == IF Upright(side) THEN box.h ELSE box.w
      reach == Least(14 * Px * gaps, Most(0, extent - 32 * Px))
      offset == ((2 * rank - gaps) * reach) \div (2 * gaps)
      at == Anchor(box, side)
  IN IF Upright(side) THEN <<at[1], at[2] + offset>> ELSE <<at[1] + offset, at[2]>>

LEMMA AnchorIsPoint ==
  ASSUME NEW box \in [x : Int, y : Int, w : Nat, h : Nat], NEW side
  PROVE  Anchor(box, side) \in Points
<1>1. /\ box.x \in Int /\ box.y \in Int /\ box.x + box.w \in Int /\ box.y + box.h \in Int
      /\ Center(box)[1] \in Int /\ Center(box)[2] \in Int
  BY DEF Center
<1> QED BY <1>1 DEF Anchor, Points

\* A side wide enough spreads, and a higher rank lies further along it.
LEMMA PortsFollowRanks ==
  ASSUME NEW box \in [x : Int, y : Int, w : Nat, h : Nat], NEW side, NEW gaps \in Nat, gaps >= 1,
         (IF Upright(side) THEN box.h ELSE box.w) - 32 * Px >= gaps,
         NEW a \in Nat, NEW b \in Nat, a < b
  PROVE  LET k == IF Upright(side) THEN 2 ELSE 1
             p == PortAt(box, side, gaps, a)
             q == PortAt(box, side, gaps, b)
         IN /\ Spread(box, side, gaps, a) = {p} /\ p \in Points
            /\ Spread(box, side, gaps, b) = {q} /\ q \in Points
            /\ p[k] < q[k]
<1> DEFINE extent == IF Upright(side) THEN box.h ELSE box.w
           reach == Least(14 * Px * gaps, Most(0, extent - 32 * Px))
           offset(rank) == ((2 * rank - gaps) * reach) \div (2 * gaps)
           at == Anchor(box, side)
           place(rank) == IF Upright(side) THEN <<at[1], at[2] + offset(rank)>>
                          ELSE <<at[1] + offset(rank), at[2]>>
<1>1. extent \in Int /\ extent - 32 * Px >= gaps
  BY DEF Px
<1>2. at[1] \in Int /\ at[2] \in Int
  BY AnchorIsPoint DEF Points
<1>3. \A rank : PortAt(box, side, gaps, rank) = place(rank)
  BY DEF PortAt
<1>4. \A rank : Spread(box, side, gaps, rank)
                  = IF gaps < 1 \/ reach = 0 THEN {} ELSE {place(rank)}
  BY DEF Spread
<1> HIDE DEF extent, at
<1>5. reach \in Int /\ reach >= gaps
  BY <1>1 DEF Least, Most, Px
<1> HIDE DEF reach
<1>6. offset(a) \in Int /\ offset(b) \in Int /\ offset(a) < offset(b)
  <2> DEFINE u == (2 * a - gaps) * reach
             v == (2 * b - gaps) * reach
  <2>1. u \in Int /\ v \in Int /\ 2 * gaps \in Int /\ 2 * gaps > 0
    BY <1>5
  <2>2. v >= u + 2 * gaps
    <3>1. v = u + 2 * (b - a) * reach
      BY <1>5
    <3>2. (b - a) * reach >= reach
      <4>1. b - a - 1 \in Nat /\ reach \in Nat
        BY <1>5
      <4>2. (b - a - 1) * reach >= 0
        BY <4>1
      <4>3. (b - a) * reach = (b - a - 1) * reach + reach
        BY <4>1
      <4> QED BY <4>1, <4>2, <4>3
    <3>3. 2 * (b - a) * reach = 2 * ((b - a) * reach) /\ (b - a) * reach \in Int
      BY <1>5
    <3> HIDE DEF u, v
    <3> QED BY <1>5, <2>1, <3>1, <3>2, <3>3
  <2> HIDE DEF u, v
  <2>3. u \div (2 * gaps) \in Int /\ v \div (2 * gaps) \in Int /\ u \div (2 * gaps) < v \div (2 * gaps)
    BY <2>1, <2>2, QuotientsPart
  <2> QED BY <2>3 DEF u, v
<1> HIDE DEF offset
<1>7. Spread(box, side, gaps, a) = {place(a)} /\ Spread(box, side, gaps, b) = {place(b)}
  BY <1>4, <1>5
<1>8. place(a) \in Points /\ place(b) \in Points
  BY <1>2, <1>6 DEF Points
<1>9. place(a)[IF Upright(side) THEN 2 ELSE 1] < place(b)[IF Upright(side) THEN 2 ELSE 1]
  BY <1>2, <1>6
<1> HIDE DEF place
<1> QED BY <1>3, <1>7, <1>8, <1>9

\* Without a port an end is at the anchor of its side.
LEMMA PortOrIsPoint ==
  ASSUME NEW box \in [x : Int, y : Int, w : Nat, h : Nat], NEW side, NEW port,
         port = {} \/ \E p \in Points : port = {p}
  PROVE  /\ PortOr(box, side, port) \in Points
         /\ \A p : port = {p} => PortOr(box, side, port) = p
BY AnchorIsPoint DEF PortOr

LEMMA SpreadIsPort ==
  ASSUME NEW box \in [x : Int, y : Int, w : Nat, h : Nat], NEW side,
         NEW gaps \in Int, NEW rank \in Int
  PROVE  Spread(box, side, gaps, rank) = {} \/ \E p \in Points : Spread(box, side, gaps, rank) = {p}
<1> DEFINE extent == IF Upright(side) THEN box.h ELSE box.w
           reach == Least(14 * Px * gaps, Most(0, extent - 32 * Px))
           offset == ((2 * rank - gaps) * reach) \div (2 * gaps)
           at == Anchor(box, side)
           place == IF Upright(side) THEN <<at[1], at[2] + offset>>
                    ELSE <<at[1] + offset, at[2]>>
<1>1. Spread(box, side, gaps, rank) = IF gaps < 1 \/ reach = 0 THEN {} ELSE {place}
  BY DEF Spread
<1>2. at[1] \in Int /\ at[2] \in Int
  BY AnchorIsPoint DEF Points
<1>3. reach \in Int
  BY DEF Least, Most, Px
<1> HIDE DEF at, reach
<1>4. gaps >= 1 => offset \in Int
  BY <1>3
<1> HIDE DEF offset
<1>5. gaps >= 1 => place \in Points
  BY <1>2, <1>4 DEF Points
<1> HIDE DEF place
<1> QED BY <1>1, <1>5

\* The port of an end, if it has one
LEMMA SpreadPortIsPort ==
  ASSUME NEW d, HasLines(d), NEW i \in DOMAIN d.connections, NEW e \in {"from", "to"}
  PROVE  LET port == SpreadPort(d.connections, d.components, <<i, e>>)
         IN port = {} \/ \E p \in Points : port = {p}
<1> DEFINE a == End(d.connections, d.components, i, e)
           fan == Fan(d.connections, d.components, <<i, e>>)
           rank == PortRank(d.connections, d.components, <<i, e>>)
           port == SpreadPort(d.connections, d.components, <<i, e>>)
<1>1. a.box \in DOMAIN d.components
  BY EndIsThere
<1>2. d.components[a.box] \in [x : Int, y : Int, w : Nat, h : Nat]
  BY <1>1 DEF HasLines, HasBoxes
<1>3. Cardinality(fan) \in Nat /\ IsFiniteSet(fan)
  BY FanIsFinite
<1>4. rank \in Int
  <2> DEFINE T == {x \in fan : Lower(FanKey(d.connections, d.components, x),
                                     FanKey(d.connections, d.components, <<i, e>>))}
  <2>1. rank = Cardinality(T)
    BY DEF PortRank
  <2>2. T \in SUBSET fan
    OBVIOUS
  <2> HIDE DEF T, fan
  <2>3. Cardinality(T) \in Nat
    BY <1>3, <2>2, FS_Subset, FS_CardinalityType
  <2> QED BY <2>1, <2>3
<1>5. port = IF ~Automatic(d.connections[i]) THEN {}
             ELSE Spread(d.components[a.box], a.side, Cardinality(fan) - 1, rank)
  BY DEF SpreadPort
<1> HIDE DEF a, fan, rank, port
<1>6. Cardinality(fan) - 1 \in Int
  BY <1>3
<1>7. \/ Spread(d.components[a.box], a.side, Cardinality(fan) - 1, rank) = {}
      \/ \E p \in Points : Spread(d.components[a.box], a.side, Cardinality(fan) - 1, rank) = {p}
  BY <1>2, <1>4, <1>6, SpreadIsPort
<1> QED BY <1>5, <1>7 DEF port

\* An automatic connection starts and ends at its ports, and runs along the axes.
LEMMA PathKeepsPorts ==
  ASSUME NEW d, HasLines(d), NEW i \in DOMAIN d.connections, Automatic(d.connections[i])
  PROVE  LET r == PathFor(d, i) IN
         /\ r \in Legs
         /\ \A p : /\ SpreadPort(d.connections, d.components, <<i, "from">>) = {p} => r[1] = p
                   /\ SpreadPort(d.connections, d.components, <<i, "to">>) = {p} => r[Len(r)] = p
<1> DEFINE c == d.connections[i]
           side(e) == End(d.connections, d.components, i, e).side
           port(e) == SpreadPort(d.connections, d.components, <<i, e>>)
           start == PortOr(d.components[c.from], side("from"), port("from"))
           end == PortOr(d.components[c.to], side("to"), port("to"))
           ends == Aligned(d, c, start, end, side("from"), side("to"), port("from") # {}, port("to") # {})
<1>1. PathFor(d, i) = RouteVia(d, c, ends[1], ends[2], side("from"), side("to"))
  BY DEF PathFor, RouteFrom, RouteBetween
<1>2. side("from") \in Sides /\ side("to") \in Sides
  BY EndIsThere
<1>3. /\ d.components[c.from] \in [x : Int, y : Int, w : Nat, h : Nat]
      /\ d.components[c.to] \in [x : Int, y : Int, w : Nat, h : Nat]
  BY DEF HasLines, HasBoxes, IsLine
<1>4. /\ port("from") = {} \/ \E p \in Points : port("from") = {p}
      /\ port("to") = {} \/ \E p \in Points : port("to") = {p}
  BY SpreadPortIsPort
<1> HIDE DEF c, side, port
<1>5. /\ start \in Points /\ \A p : port("from") = {p} => start = p
      /\ end \in Points /\ \A p : port("to") = {p} => end = p
  <2>1. \A box \in [x : Int, y : Int, w : Nat, h : Nat] : \A s, q :
          q = {} \/ (\E p \in Points : q = {p})
          => PortOr(box, s, q) \in Points /\ \A p : q = {p} => PortOr(box, s, q) = p
    BY PortOrIsPoint
  <2> HIDE DEF Points
  <2>2. start \in Points /\ \A p : port("from") = {p} => start = p
    BY SMTT(40), <1>3, <1>4, <2>1
  <2>3. end \in Points /\ \A p : port("to") = {p} => end = p
    <3> DEFINE r == d.components[c.to]
               q == port("to")
    <3>1. r \in [x : Int, y : Int, w : Nat, h : Nat] /\ end = PortOr(r, side("to"), q)
      BY <1>3
    <3>2. q = {} \/ \E p \in Points : q = {p}
      BY <1>4
    <3> HIDE DEF r, q, end
    <3>3. end \in Points /\ \A p : q = {p} => end = p
      BY <2>1, <3>1, <3>2
    <3> QED BY <3>3 DEF q
  <2> QED BY <2>2, <2>3
<1> HIDE DEF start, end
<1>6. /\ ends[1] \in Points /\ ends[2] \in Points
      /\ port("from") # {} => ends[1] = start
      /\ port("to") # {} => ends[2] = end
  <2> DEFINE f == port("from") # {}
             t == port("to") # {}
  <2>1. f \in BOOLEAN /\ t \in BOOLEAN
    OBVIOUS
  <2>2. ends = Aligned(d, c, start, end, side("from"), side("to"), f, t)
    OBVIOUS
  <2> HIDE DEF f, t, ends
  <2>3. /\ ends[1] \in Points /\ ends[2] \in Points
        /\ f => ends[1] = start
        /\ t => ends[2] = end
    BY <1>5, <2>1, <2>2, AlignedKeepsShared
  <2> QED BY <2>3 DEF f, t
<1> HIDE DEF ends
<1>7. RouteVia(d, c, ends[1], ends[2], side("from"), side("to"))
        = AutomaticRoute(d, c, ends[1], ends[2], side("from"), side("to"))
  <2>1. c.route = "auto" /\ c.via = <<>>
    BY DEF Automatic, c
  <2> QED BY <2>1 DEF RouteVia
<1>8. PathFor(d, i) \in Ways(ends[1], ends[2])
  BY <1>1, <1>2, <1>6, <1>7, AutomaticRuns
<1>9. PathFor(d, i)[1] = ends[1] /\ PathFor(d, i)[Len(PathFor(d, i))] = ends[2]
  BY <1>8 DEF Runs, Ways
<1>10. \A p : /\ port("from") = {p} => ends[1] = p
              /\ port("to") = {p} => ends[2] = p
  BY <1>5, <1>6
<1>11. PathFor(d, i) \in Legs
  BY <1>8 DEF Ways
<1> QED BY <1>9, <1>10, <1>11 DEF port

\* Two automatic ends on one side of a component that is wide enough to spread
OnOneSide(d, i, e, j, f) ==
  LET a == End(d.connections, d.components, i, e)
      b == End(d.connections, d.components, j, f)
      box == d.components[a.box]
  IN /\ <<i, e>> # <<j, f>> /\ a.box = b.box /\ a.side = b.side
     /\ Automatic(d.connections[i]) /\ Automatic(d.connections[j])
     /\ (IF Upright(a.side) THEN box.h ELSE box.w) > 32 * Px

Comes(d, i, e, j, f) ==
  Lower(FanKey(d.connections, d.components, <<i, e>>), FanKey(d.connections, d.components, <<j, f>>))

AxisOf(d, i, e) == IF Upright(End(d.connections, d.components, i, e).side) THEN 2 ELSE 1

PortsInOrder(d, i, e, j, f) ==
  \E p, q \in Points :
    /\ SpreadPort(d.connections, d.components, <<i, e>>) = {p}
    /\ SpreadPort(d.connections, d.components, <<j, f>>) = {q}
    /\ p[AxisOf(d, i, e)] < q[AxisOf(d, i, e)]

\* ... have ports of their own, in the order of their keys.
LEMMA FanPortsApart ==
  ASSUME NEW d \in Documents, Len(d.connections) <= MaxLines,
         NEW i \in DOMAIN d.connections, NEW j \in DOMAIN d.connections,
         NEW e \in {"from", "to"}, NEW f \in {"from", "to"},
         OnOneSide(d, i, e, j, f), Comes(d, i, e, j, f)
  PROVE  PortsInOrder(d, i, e, j, f)
<1> DEFINE a == End(d.connections, d.components, i, e)
           b == End(d.connections, d.components, j, f)
           box == d.components[a.box]
           extent == IF Upright(a.side) THEN box.h ELSE box.w
           fan(x) == Fan(d.connections, d.components, x)
           rank(x) == PortRank(d.connections, d.components, x)
           gaps == Cardinality(fan(<<i, e>>)) - 1
<1>0. /\ <<i, e>> # <<j, f>> /\ a.box = b.box /\ a.side = b.side
      /\ Automatic(d.connections[i]) /\ Automatic(d.connections[j])
      /\ extent > 32 * Px
      /\ Lower(FanKey(d.connections, d.components, <<i, e>>),
               FanKey(d.connections, d.components, <<j, f>>))
  BY DEF OnOneSide, Comes
<1>1. HasLines(d)
  BY DocumentHasLines
<1>2. a.box \in DOMAIN d.components /\ box \in [x : Int, y : Int, w : Nat, h : Nat]
  BY <1>1, EndIsThere DEF HasLines, HasBoxes
<1>3. fan(<<i, e>>) = fan(<<j, f>>)
  BY <1>0, FanIsShared
<1>4. /\ <<i, e>> \in AutomaticEnds(d) /\ <<j, f>> \in AutomaticEnds(d)
      /\ <<i, e>> \in fan(<<i, e>>) /\ <<j, f>> \in fan(<<i, e>>)
  BY <1>0 DEF AutomaticEnds, Fan
<1>5. rank(<<i, e>>) \in Nat /\ rank(<<j, f>>) \in Nat /\ rank(<<i, e>>) < rank(<<j, f>>)
  BY <1>0, <1>1, <1>3, <1>4, RanksFollowKeys
<1>6. gaps \in Nat /\ gaps >= 1 /\ gaps < 2 * MaxLines
  <2> DEFINE S == fan(<<i, e>>)
  <2>1. /\ IsFiniteSet(S) /\ Cardinality(S) \in Nat
        /\ Cardinality(S) <= 2 * Len(d.connections)
    BY <1>1, FanIsFinite
  <2>2. <<i, e>> \in S /\ <<j, f>> \in S
    BY <1>4
  <2>3. gaps = Cardinality(S) - 1
    OBVIOUS
  <2>4. Len(d.connections) \in Nat /\ MaxLines \in Nat
    BY <1>1, RoundingAssumption DEF HasLines
  <2> HIDE DEF S, gaps
  <2>5. Cardinality(S) >= 2
    <3>1. Cardinality(S) # 0
      BY <2>1, <2>2, FS_EmptySet
    <3>2. Cardinality(S) # 1
      <4>1. Cardinality(S) = 1 => \E x : S = {x}
        BY <2>1, FS_Singleton
      <4> QED BY <1>0, <2>2, <4>1
    <3> QED BY <2>1, <3>1, <3>2
  <2> QED BY <2>1, <2>3, <2>4, <2>5
<1>7. extent - 32 * Px >= gaps
  <2>1. d.components \in Layouts /\ extent \in {box.w, box.h} /\ extent > 32 * Px
    BY <1>0 DEF Documents
  <2>2. extent - 32 * Px >= 2 * MaxLines
    BY <1>2, <2>1, RoundingAssumption
  <2>3. extent \in Int /\ MaxLines \in Nat
    BY <1>2, RoundingAssumption
  <2> HIDE DEF extent, gaps
  <2> QED BY <1>6, <2>2, <2>3 DEF Px
<1>8. /\ SpreadPort(d.connections, d.components, <<i, e>>) = Spread(box, a.side, gaps, rank(<<i, e>>))
      /\ SpreadPort(d.connections, d.components, <<j, f>>) = Spread(box, a.side, gaps, rank(<<j, f>>))
  BY <1>0, <1>3 DEF SpreadPort
<1>9. a.side \in Sides
  BY <1>1, EndIsThere
<1>10. (IF Upright(a.side) THEN box.h ELSE box.w) - 32 * Px >= gaps
  BY <1>7
<1> DEFINE p == PortAt(box, a.side, gaps, rank(<<i, e>>))
           q == PortAt(box, a.side, gaps, rank(<<j, f>>))
           k == IF Upright(a.side) THEN 2 ELSE 1
<1>12. k = AxisOf(d, i, e)
  BY DEF AxisOf
<1> HIDE DEF a, box, gaps, rank, fan, extent
<1>11. /\ Spread(box, a.side, gaps, rank(<<i, e>>)) = {p} /\ p \in Points
       /\ Spread(box, a.side, gaps, rank(<<j, f>>)) = {q} /\ q \in Points
       /\ p[k] < q[k]
  BY <1>2, <1>5, <1>6, <1>10, PortsFollowRanks
<1> HIDE DEF p, q, k
<1> QED BY <1>8, <1>11, <1>12 DEF PortsInOrder

LEMMA InvPortsStayApart == DeliveryInv => PortsStayApart
<1> SUFFICES ASSUME DeliveryInv, phase # "writing" PROVE PortsStayApart
  BY DEF PortsStayApart
<1> DEFINE conns == doc.connections
           boxes == doc.components
           end(i, e) == End(conns, boxes, i, e)
           point(i, e) == relations[i].points[IF e = "from" THEN 1 ELSE Len(relations[i].points)]
           k(i, e) == AxisOf(doc, i, e)
           key(i, e) == FanKey(conns, boxes, <<i, e>>)
           port(i, e) == SpreadPort(conns, boxes, <<i, e>>)
<1>1. /\ doc \in Documents /\ Len(conns) <= MaxLines
      /\ relations = Relations(doc, Paths(doc))
  BY DEF DeliveryInv
<1>2. HasLines(doc)
  BY <1>1, DocumentHasLines
<1>3. /\ DOMAIN relations = DOMAIN conns
      /\ \A i \in DOMAIN conns : relations[i].points = PathFor(doc, i)
  BY <1>1 DEF Relations, Paths
<1>4. ASSUME NEW i \in DOMAIN conns, NEW e \in {"from", "to"}, Automatic(conns[i]),
             NEW p, port(i, e) = {p}
      PROVE  point(i, e) = p
  <2>1. /\ port(i, "from") = {p} => PathFor(doc, i)[1] = p
        /\ port(i, "to") = {p} => PathFor(doc, i)[Len(PathFor(doc, i))] = p
    BY <1>2, <1>4, PathKeepsPorts
  <2>2. relations[i].points = PathFor(doc, i)
    BY <1>3
  <2> HIDE DEF port
  <2>3. CASE e = "from"
    BY <1>4, <2>1, <2>2, <2>3
  <2>4. CASE e = "to"
    <3>1. e # "from"
      BY <2>4
    <3>2. point(i, e) = PathFor(doc, i)[Len(PathFor(doc, i))]
      BY <2>2, <3>1
    <3> QED BY <1>4, <2>1, <2>4, <3>2
  <2> QED BY <2>3, <2>4
<1>5. ASSUME NEW i \in DOMAIN conns, NEW j \in DOMAIN conns,
             NEW e \in {"from", "to"}, NEW f \in {"from", "to"},
             OnOneSide(doc, i, e, j, f), Comes(doc, i, e, j, f)
      PROVE  /\ point(i, e)[k(i, e)] \in Int /\ point(j, f)[k(i, e)] \in Int
             /\ point(i, e)[k(i, e)] < point(j, f)[k(i, e)]
  <2>1. \E p, q \in Points :
          port(i, e) = {p} /\ port(j, f) = {q} /\ p[k(i, e)] < q[k(i, e)]
    <3>1. PortsInOrder(doc, i, e, j, f)
      BY <1>1, <1>5, FanPortsApart
    <3> QED BY <3>1 DEF PortsInOrder
  <2>2. Automatic(conns[i]) /\ Automatic(conns[j])
    BY <1>5 DEF OnOneSide
  <2>3. k(i, e) \in 1..2
    BY DEF AxisOf
  <2> HIDE DEF port, point, k, conns
  <2>4. PICK p \in Points, q \in Points :
          port(i, e) = {p} /\ port(j, f) = {q} /\ p[k(i, e)] < q[k(i, e)]
    BY <2>1
  <2>5. point(i, e) = p /\ point(j, f) = q
    BY <1>4, <2>2, <2>4
  <2>6. p[k(i, e)] \in Int /\ q[k(i, e)] \in Int
    BY <2>3 DEF Points
  <2> QED BY <2>4, <2>5, <2>6
<1>6. ASSUME NEW i \in DOMAIN conns, NEW e \in {"from", "to"}
      PROVE  /\ key(i, e) \in [1..7 -> Int]
             /\ key(i, e)[1] = Center(end(i, e).other)[k(i, e)]
             /\ key(i, e)[6] = i /\ key(i, e)[7] = IF e = "from" THEN 0 ELSE 1
  BY ZenonT(60), <1>2, FanKeyIsKey DEF AxisOf
<1>7. ASSUME NEW i \in DOMAIN conns, NEW j \in DOMAIN conns,
             NEW e \in {"from", "to"}, NEW f \in {"from", "to"}, OnOneSide(doc, i, e, j, f)
      PROVE  /\ point(i, e) # point(j, f)
             /\ Center(end(i, e).other)[k(i, e)] < Center(end(j, f).other)[k(i, e)]
                  => point(i, e)[k(i, e)] < point(j, f)[k(i, e)]
  <2>1. OnOneSide(doc, j, f, i, e) /\ k(j, f) = k(i, e)
    BY <1>7 DEF OnOneSide, AxisOf
  <2>2. key(i, e) # key(j, f)
    <3>1. i # j \/ e # f
      BY <1>7 DEF OnOneSide
    <3>2. /\ key(i, e)[6] = i /\ key(j, f)[6] = j
          /\ key(i, e)[7] = IF e = "from" THEN 0 ELSE 1
          /\ key(j, f)[7] = IF f = "from" THEN 0 ELSE 1
      BY <1>6
    <3> HIDE DEF key
    <3> QED BY <3>1, <3>2
  <2>3. key(i, e) \in [1..7 -> Int] /\ key(j, f) \in [1..7 -> Int]
    BY <1>6
  <2>4. Comes(doc, i, e, j, f) \/ Comes(doc, j, f, i, e)
    <3>1. Lower(key(i, e), key(j, f)) \/ Lower(key(j, f), key(i, e))
      <4> HIDE DEF key
      <4> QED BY <2>2, <2>3, LowerIsTotal
    <3> QED BY <3>1 DEF Comes
  <2>5. Center(end(i, e).other)[k(i, e)] < Center(end(j, f).other)[k(i, e)]
          => Comes(doc, i, e, j, f)
    <3>1. /\ key(i, e)[1] = Center(end(i, e).other)[k(i, e)]
          /\ key(j, f)[1] = Center(end(j, f).other)[k(i, e)]
      <4> HIDE DEF key, end, k, conns
      <4> QED BY <1>6, <2>1
    <3>2. DOMAIN key(i, e) = 1..7
      BY <2>3
    <3>3. Comes(doc, i, e, j, f) <=> Lower(key(i, e), key(j, f))
      BY DEF Comes
    <3> HIDE DEF key, end, k
    <3> QED BY <3>1, <3>2, <3>3 DEF Lower
  <2> HIDE DEF point, end, k, key, conns
  <2>6. Comes(doc, i, e, j, f) =>
          /\ point(i, e)[k(i, e)] \in Int /\ point(j, f)[k(i, e)] \in Int
          /\ point(i, e)[k(i, e)] < point(j, f)[k(i, e)]
    BY <1>5, <1>7
  <2>7. Comes(doc, j, f, i, e) =>
          /\ point(i, e)[k(i, e)] \in Int /\ point(j, f)[k(i, e)] \in Int
          /\ point(j, f)[k(i, e)] < point(i, e)[k(i, e)]
    BY <1>5, <2>1
  <2>8. point(i, e) # point(j, f)
    BY <2>4, <2>6, <2>7
  <2> QED BY <2>5, <2>6, <2>8
<1>8. ASSUME NEW i \in DOMAIN relations, NEW j \in DOMAIN relations,
             NEW e \in {"from", "to"}, NEW f \in {"from", "to"}
      PROVE  LET a == End(doc.connections, doc.components, i, e)
                 b == End(doc.connections, doc.components, j, f)
                 axis == IF Upright(a.side) THEN 2 ELSE 1
                 box == doc.components[a.box]
             IN (/\ <<i, e>> # <<j, f>> /\ a.box = b.box /\ a.side = b.side
                 /\ Automatic(doc.connections[i]) /\ Automatic(doc.connections[j])
                 /\ (IF Upright(a.side) THEN box.h ELSE box.w) > 32 * Px)
                => /\ point(i, e) # point(j, f)
                   /\ Center(a.other)[axis] < Center(b.other)[axis]
                        => point(i, e)[axis] < point(j, f)[axis]
  <2>1. i \in DOMAIN conns /\ j \in DOMAIN conns
    BY <1>3
  <2> HIDE DEF point
  <2>2. OnOneSide(doc, i, e, j, f) =>
          /\ point(i, e) # point(j, f)
          /\ Center(end(i, e).other)[k(i, e)] < Center(end(j, f).other)[k(i, e)]
               => point(i, e)[k(i, e)] < point(j, f)[k(i, e)]
    <3> HIDE DEF end, k, conns
    <3> QED BY <1>7, <2>1
  <2> QED BY <2>2 DEF OnOneSide, AxisOf
<1> QED BY <1>8 DEF PortsStayApart

\* The automatic ends on one side of a component arrive at points of their
\* own, in the order of what they lead to: a fan is numbered by a strict total
\* order of its ends, a side that spreads leaves a quarter pixel for each, and
\* whatever the route then avoids, it still starts and ends there.
THEOREM PortsApart == DeliverySpec => []PortsStayApart
BY DeliveryInvHolds, InvPortsStayApart, PTL

-----------------------------------------------------------------------------
(* What is drawn of a route along the axes                                 *)

LEMMA ExactQuotient ==
  ASSUME NEW m \in Int, m > 0, NEW q \in Int
  PROVE  (m * q) \div m = q
<1> DEFINE a == m * q
           x == a \div m
<1>1. a \in Int /\ x \in Int /\ m * x <= a /\ a < m * (x + 1)
  OBVIOUS
<1> HIDE DEF x
<1>2. m * q < m * (x + 1) /\ m * x < m * (q + 1)
  BY <1>1
<1>3. q < x + 1 /\ x < q + 1
  BY <1>1, <1>2
<1> QED BY <1>1, <1>3 DEF x

\* A point on leg j of a route
On(route, j, p) == p \in Points /\ OnSegment(route[j], p, route[j + 1])

\* Along a leg, by no more than its length, one stays on it.
LEMMA TowardsStays ==
  ASSUME NEW a \in Points, NEW b \in Points, OneAxis(a, b),
         NEW r \in Nat, r >= 1, r <= Length(<<a, b>>)
  PROVE  /\ Towards(a, b, r) \in Points
         /\ OnSegment(a, Towards(a, b, r), b) /\ OnSegment(b, Towards(a, b, r), a)
<1> DEFINE u == b[1] - a[1]
           v == b[2] - a[2]
           len == Length(<<a, b>>)
           x == (u * r) \div len
           y == (v * r) \div len
<1>1. a[1] \in Int /\ a[2] \in Int /\ b[1] \in Int /\ b[2] \in Int
  BY DEF Points
<1>2. u \in Int /\ v \in Int /\ len = Abs(u) + Abs(v) /\ (u = 0 \/ v = 0)
  BY <1>1 DEF OneAxis, Length
<1>3. Towards(a, b, r) = <<a[1] + x, a[2] + y>>
  BY DEF Towards
<1>4. b[1] = a[1] + u /\ b[2] = a[2] + v
  BY <1>1
<1>5. len \in Int /\ len > 0
  BY <1>2 DEF Abs
<1>6. \A w \in {u, v} : w = 0 => (w * r) \div len = 0
  <2>1. (len * 0) \div len = 0
    BY <1>5, ExactQuotient
  <2>2. len * 0 = 0 /\ 0 * r = 0
    BY <1>5
  <2> HIDE DEF len, u, v
  <2> QED BY <2>1, <2>2
<1>7. \A w \in {u, v} : w = len => (w * r) \div len = r
  <2>1. (len * r) \div len = r
    BY <1>5, ExactQuotient
  <2> HIDE DEF len, u, v
  <2> QED BY <2>1
<1>8. \A w \in {u, v} : w = -len => (w * r) \div len = -r
  <2>1. (len * (-r)) \div len = -r
    BY <1>5, ExactQuotient
  <2>2. len * (-r) = (-len) * r
    BY <1>5
  <2> HIDE DEF len, u, v
  <2> QED BY <2>1, <2>2
<1>9. \/ u = 0 /\ (v = len \/ v = -len)
      \/ v = 0 /\ (u = len \/ u = -len)
  BY <1>2, <1>5 DEF Abs
<1> HIDE DEF u, v, len, x, y
<1>15. r <= len
  BY DEF len
<1>16. /\ u = 0 => x = 0
       /\ u = len => x = r
       /\ u = -len => x = -r
  BY <1>6, <1>7, <1>8 DEF x
<1>17. /\ v = 0 => y = 0
       /\ v = len => y = r
       /\ v = -len => y = -r
  BY <1>6, <1>7, <1>8 DEF y
<1>10. /\ x = 0 \/ (x = r /\ u >= r) \/ (x = -r /\ u <= -r)
       /\ y = 0 \/ (y = r /\ v >= r) \/ (y = -r /\ v <= -r)
  BY <1>2, <1>5, <1>9, <1>15, <1>16, <1>17
<1>11. x \in Int /\ y \in Int
  BY <1>10
<1> DEFINE t == Towards(a, b, r)
<1>12. t \in Points /\ t[1] = a[1] + x /\ t[2] = a[2] + y
  BY <1>1, <1>3, <1>11 DEF Points
<1> HIDE DEF t
<1>13. Between(a[1], t[1], b[1]) /\ Between(b[1], t[1], a[1])
  BY <1>1, <1>2, <1>4, <1>10, <1>11, <1>12 DEF Between, Least, Most
<1>14. Between(a[2], t[2], b[2]) /\ Between(b[2], t[2], a[2])
  BY <1>1, <1>2, <1>4, <1>10, <1>11, <1>12 DEF Between, Least, Most
<1> QED BY <1>12, <1>13, <1>14 DEF OnSegment, t

LEMMA LegEndsAreOn ==
  ASSUME NEW a \in Points, NEW b \in Points
  PROVE  OnSegment(a, a, b) /\ OnSegment(a, b, b)
<1>1. a[1] \in Int /\ a[2] \in Int /\ b[1] \in Int /\ b[2] \in Int
  BY DEF Points
<1> QED BY <1>1 DEF OnSegment, Between, Least, Most

Strokes == [curved : BOOLEAN, via : Points, to : Points]

\* Where the pen is before stroke i, and after all of them
From(route, path, i) == IF i = 1 THEN route[1] ELSE path[i - 1].to
Pen(route, path) == From(route, path, Len(path) + 1)

\* A stroke from p stays on a leg of the route, or curves from one to the next.
Traces(route, p, s) ==
  IF s.curved
  THEN \E j \in 1..(Len(route) - 2) :
         s.via = route[j + 1] /\ On(route, j, p) /\ On(route, j + 1, s.to)
  ELSE \E j \in 1..(Len(route) - 1) : On(route, j, p) /\ On(route, j, s.to)

Traced(route, path) ==
  /\ path \in Seq(Strokes)
  /\ \A i \in 1..Len(path) : Traces(route, From(route, path, i), path[i])

LEMMA OneStrokeMore ==
  ASSUME NEW route, NEW path, Traced(route, path), NEW s \in Strokes,
         Traces(route, Pen(route, path), s)
  PROVE  Traced(route, Append(path, s)) /\ Pen(route, Append(path, s)) = s.to
<1> HIDE DEF Strokes
<1> DEFINE n == Len(path)
           q == Append(path, s)
<1>1. path \in Seq(Strokes) /\ n \in Nat
  BY DEF Traced
<1>2. q \in Seq(Strokes) /\ Len(q) = n + 1 /\ q[n + 1] = s /\ \A i \in 1..n : q[i] = path[i]
  BY <1>1
<1> HIDE DEF q
<1>3. \A i \in 1..(n + 1) : From(route, q, i) = From(route, path, i)
  <2> SUFFICES ASSUME NEW i \in 1..(n + 1), i # 1 PROVE q[i - 1] = path[i - 1]
    BY DEF From
  <2> QED BY <1>1, <1>2
<1>4. ASSUME NEW i \in 1..(n + 1) PROVE Traces(route, From(route, q, i), q[i])
  <2>1. CASE i = n + 1
    BY <1>2, <1>3, <2>1 DEF Pen
  <2>2. CASE i \in 1..n
    <3>1. Traces(route, From(route, path, i), path[i])
      BY <2>2 DEF Traced
    <3> QED BY <1>2, <1>3, <2>2, <3>1
  <2> QED BY <1>1, <2>1, <2>2
<1>5. Pen(route, q) = s.to
  BY <1>1, <1>2 DEF Pen, From
<1> QED BY <1>2, <1>4, <1>5 DEF Traced, q

LEMMA LengthIsNat ==
  ASSUME NEW a \in Points, NEW b \in Points
  PROVE  Length(<<a, b>>) \in Nat /\ Length(<<a, b>>) = Length(<<b, a>>)
<1>1. a[1] \in Int /\ a[2] \in Int /\ b[1] \in Int /\ b[2] \in Int
  BY DEF Points
<1>2. \A x, y \in Int : Abs(x - y) \in Nat /\ Abs(x - y) = Abs(y - x)
  BY DEF Abs
<1>3. /\ Length(<<a, b>>) = Abs(b[1] - a[1]) + Abs(b[2] - a[2])
      /\ Length(<<b, a>>) = Abs(a[1] - b[1]) + Abs(a[2] - b[2])
  BY DEF Length
<1> QED BY <1>1, <1>2, <1>3

\* What Corner draws runs along the leg before the corner, and round it to the
\* leg after.
LEMMA CornerTraces ==
  ASSUME NEW route \in Legs, NEW j \in 1..(Len(route) - 2), NEW path, Traced(route, path),
         On(route, j, Pen(route, path)), NEW radius \in Nat
  PROVE  LET q == path \o Corner(route[j], route[j + 1], route[j + 2], radius)
         IN Traced(route, q) /\ On(route, j + 1, Pen(route, q))
<1> DEFINE p == route[j]
           c == route[j + 1]
           n == route[j + 2]
           before == Length(<<p, c>>)
           after == Length(<<c, n>>)
           r == Least(radius, Least(before, after) \div 2)
           turn == [curved |-> TRUE, via |-> c, to |-> Towards(c, n, r)]
           corner == Corner(p, c, n, radius)
<1>1. route \in Seq(Points) /\ Len(route) \in Nat /\ j \in Nat /\ j >= 1 /\ j + 2 <= Len(route)
  BY DEF Legs
<1>2. p \in Points /\ c \in Points /\ n \in Points
  BY <1>1
<1>3. OneAxis(p, c) /\ OneAxis(c, n)
  <2>1. j \in 1..(Len(route) - 1) /\ j + 1 \in 1..(Len(route) - 1) /\ (j + 1) + 1 = j + 2
    BY <1>1
  <2> QED BY <2>1 DEF Legs
<1>4. path \in Seq(Strokes)
  BY DEF Traced
<1>5. corner = IF r < Px THEN <<Line(c)>> ELSE <<Line(Towards(c, p, r)), turn>>
  BY DEF Corner
<1>6. before \in Nat /\ after \in Nat /\ before = Length(<<c, p>>)
  BY <1>2, LengthIsNat
<1> HIDE DEF p, c, n, before, after, corner
<1>7. r \in Int /\ r <= before /\ r <= after
  BY <1>6 DEF Least
<1> HIDE DEF r
<1>8. On(route, j, c) /\ On(route, j + 1, c)
  <2>1. OnSegment(p, c, c) /\ OnSegment(c, c, n)
    BY <1>2, LegEndsAreOn
  <2>2. (j + 1) + 1 = j + 2
    BY <1>1
  <2> QED BY <1>2, <2>1, <2>2 DEF On, p, c, n
<1>9. CASE r < Px
  <2>1. Line(c) \in Strokes /\ Line(c).to = c /\ ~Line(c).curved
    BY <1>2 DEF Line, Strokes
  <2>2. j \in 1..(Len(route) - 1)
    BY <1>1
  <2>3. Traces(route, Pen(route, path), Line(c))
    BY <1>8, <2>1, <2>2 DEF Traces
  <2>4. Traced(route, Append(path, Line(c))) /\ Pen(route, Append(path, Line(c))) = c
    BY <2>1, <2>3, OneStrokeMore
  <2>5. path \o corner = Append(path, Line(c))
    BY <1>4, <1>5, <1>9, <2>1, AppendIsConcat
  <2> QED BY <1>8, <2>4, <2>5 DEF corner, p, c, n
<1>10. CASE r >= Px
  <2> DEFINE a == Towards(c, p, r)
             b == Towards(c, n, r)
  <2>1. r \in Nat /\ r >= 1 /\ OneAxis(c, p)
    BY <1>3, <1>7, <1>10, AxisBothWays DEF Px
  <2>2. a \in Points /\ OnSegment(p, a, c)
    BY <1>2, <1>6, <1>7, <2>1, TowardsStays
  <2>3. b \in Points /\ OnSegment(c, b, n)
    BY <1>2, <1>3, <1>7, <2>1, TowardsStays DEF after
  <2>4. turn = [curved |-> TRUE, via |-> c, to |-> b]
    OBVIOUS
  <2> HIDE DEF a, b, turn
  <2>5. On(route, j, a) /\ On(route, j + 1, b)
    <3>1. (j + 1) + 1 = j + 2
      BY <1>1
    <3> QED BY <2>2, <2>3, <3>1 DEF On, p, c, n
  <2>6. Line(a) \in Strokes /\ Line(a).to = a /\ ~Line(a).curved
    BY <2>2 DEF Line, Strokes
  <2>7. turn \in Strokes /\ turn.to = b /\ turn.curved /\ turn.via = c
    BY <1>2, <2>3, <2>4 DEF Strokes
  <2>8. Traced(route, Append(path, Line(a))) /\ Pen(route, Append(path, Line(a))) = a
    <3>1. j \in 1..(Len(route) - 1)
      BY <1>1
    <3>2. Traces(route, Pen(route, path), Line(a))
      BY <2>5, <2>6, <3>1 DEF Traces
    <3> QED BY <2>6, <3>2, OneStrokeMore
  <2> DEFINE once == Append(path, Line(a))
  <2>9. once \in Seq(Strokes)
    BY <2>8 DEF Traced
  <2>10. path \o corner = Append(once, turn)
    <3>1. corner = <<Line(a), turn>> /\ ~(r < Px)
      BY <1>5, <1>7, <1>10 DEF a, Px
    <3>2. \A x, y \in Strokes : path \o <<x, y>> = Append(Append(path, x), y)
      <4> HIDE DEF Strokes
      <4> QED BY <1>4
    <3> QED BY <2>6, <2>7, <3>1, <3>2
  <2> HIDE DEF once
  <2>11. Traces(route, Pen(route, once), turn)
    BY <2>5, <2>7, <2>8 DEF Traces, c, once
  <2>12. Traced(route, Append(once, turn)) /\ Pen(route, Append(once, turn)) = b
    BY <2>7, <2>8, <2>11, OneStrokeMore DEF once
  <2> QED BY <2>5, <2>10, <2>12 DEF corner, p, c, n
<1> QED BY <1>7, <1>9, <1>10 DEF Px

LEMMA CornerIsStrokes ==
  ASSUME NEW p \in Points, NEW c \in Points, NEW n \in Points, OneAxis(p, c), OneAxis(c, n),
         NEW radius \in Nat
  PROVE  Corner(p, c, n, radius) \in Seq(Strokes)
<1> DEFINE before == Length(<<p, c>>)
           after == Length(<<c, n>>)
           r == Least(radius, Least(before, after) \div 2)
           a == Towards(c, p, r)
           b == Towards(c, n, r)
           turn == [curved |-> TRUE, via |-> c, to |-> b]
<1>1. Corner(p, c, n, radius) = IF r < Px THEN <<Line(c)>> ELSE <<Line(a), turn>>
  BY DEF Corner
<1>2. before \in Nat /\ after \in Nat /\ before = Length(<<c, p>>)
  BY LengthIsNat
<1> HIDE DEF before, after
<1>3. r \in Int /\ r <= before /\ r <= after
  BY <1>2 DEF Least
<1> HIDE DEF r
<1>4. ASSUME r >= Px PROVE a \in Points /\ b \in Points
  <2>1. r \in Nat /\ r >= 1 /\ OneAxis(c, p)
    BY <1>3, <1>4, AxisBothWays DEF Px
  <2>2. a \in Points
    BY <1>2, <1>3, <2>1, TowardsStays
  <2>3. b \in Points
    BY <1>3, <2>1, TowardsStays DEF after
  <2> QED BY <2>2, <2>3
<1> HIDE DEF a, b
<1>5. Line(c) \in Strokes /\ (r >= Px => Line(a) \in Strokes /\ turn \in Strokes)
  BY <1>4 DEF Line, Strokes
<1> HIDE DEF turn, Strokes
<1>6. CASE r < Px
  <2>1. <<Line(c)>> \in Seq(Strokes)
    BY <1>5
  <2> QED BY <1>1, <1>6, <2>1
<1>7. CASE r >= Px
  <2>1. <<Line(a), turn>> \in Seq(Strokes)
    BY <1>5, <1>7
  <2> QED BY <1>1, <1>3, <1>7, <2>1 DEF Px
<1> QED BY <1>3, <1>6, <1>7 DEF Px

\* What is drawn of a route along the axes follows it.
LEMMA RoundedPathTraces ==
  ASSUME NEW route \in Legs, NEW radius \in Nat
  PROVE  Traced(route, RoundedPath(route, radius))
<1> DEFINE len == Len(route)
           corner(i) == Corner(route[i], route[i + 1], route[i + 2], radius)
           Draws(f) == f = [i \in 0..(len - 2) |-> IF i = 0 THEN <<>> ELSE f[i - 1] \o corner(i)]
           drawn == CHOOSE f : Draws(f)
           short == [i \in 1..(len - 1) |-> Line(route[i + 1])]
<1>1. RoundedPath(route, radius)
        = IF len < 3 THEN short ELSE Append(drawn[len - 2], Line(route[len]))
  BY DEF RoundedPath
<1>2. route \in Seq(Points) /\ len \in Nat /\ \A i \in 1..len : route[i] \in Points
  BY DEF Legs
<1>3. \A i \in 1..len : /\ Line(route[i]) \in Strokes /\ Line(route[i]).to = route[i]
                        /\ ~Line(route[i]).curved
  BY <1>2 DEF Line, Strokes
<1>4. \A i \in 1..(len - 1) : On(route, i, route[i]) /\ On(route, i, route[i + 1])
  <2> SUFFICES ASSUME NEW i \in 1..(len - 1)
               PROVE  On(route, i, route[i]) /\ On(route, i, route[i + 1])
    OBVIOUS
  <2>1. route[i] \in Points /\ route[i + 1] \in Points
    BY <1>2
  <2> QED BY <2>1, LegEndsAreOn DEF On
<1>5. CASE len < 3
  <2>1. short \in Seq(Strokes) /\ Len(short) \in Nat
        /\ \A i \in 1..Len(short) : i = 1 /\ len = 2 /\ short[i] = Line(route[2])
    <3>1. CASE len = 2
      <4>1. short = <<Line(route[2])>> /\ Line(route[2]) \in Strokes
        BY <1>3, <3>1
      <4> HIDE DEF short, Strokes
      <4> QED BY <3>1, <4>1
    <3>2. CASE len # 2
      <4>1. len = 0 \/ len = 1
        <5> HIDE DEF len
        <5>1. len \in Nat
          BY <1>2
        <5> QED BY <1>5, <3>2, <5>1
      <4>2. \A i : i \notin 1..(len - 1)
        <5> HIDE DEF len
        <5> QED BY <4>1
      <4>3. DOMAIN short = 1..0
        BY <4>2
      <4>4. short \in [1..0 -> Strokes]
        BY <4>2, <4>3
      <4> HIDE DEF short, Strokes
      <4>5. short \in Seq(Strokes) /\ Len(short) = 0
        BY <4>4
      <4> QED BY <4>5
    <3> QED BY <3>1, <3>2
  <2> HIDE DEF short
  <2>2. ASSUME NEW i \in 1..Len(short) PROVE Traces(route, From(route, short, i), short[i])
    <3>1. i = 1 /\ len = 2 /\ short[i] = Line(route[2])
      BY <2>1
    <3>2. From(route, short, i) = route[1]
      BY <3>1 DEF From
    <3>3. 1 \in 1..(len - 1) /\ 1 + 1 = 2
      BY <3>1
    <3>4. On(route, 1, route[1]) /\ On(route, 1, route[2])
      BY <1>4, <3>3
    <3>5. ~Line(route[2]).curved /\ Line(route[2]).to = route[2]
      BY <1>3, <3>1
    <3> QED BY <3>1, <3>2, <3>3, <3>4, <3>5 DEF Traces
  <2> QED BY <1>1, <1>5, <2>1, <2>2 DEF Traced
<1>6. CASE len >= 3
  <2> DEFINE m == len - 2
             V == Seq(Strokes)
             G == [q \in Nat \X V |-> IF q[1] \in 1..m THEN q[2] \o corner(q[1]) ELSE <<>>]
  <2>1. m \in Nat /\ m >= 1 /\ len = m + 2
    BY <1>2, <1>6
  <2>2. \A k \in Nat : \A v \in V :
          G[<<k, v>>] = IF k \in 1..m THEN v \o corner(k) ELSE <<>>
    OBVIOUS
  <2>3. \A k \in 1..m : corner(k) \in V
    <3> SUFFICES ASSUME NEW k \in 1..m PROVE corner(k) \in V
      OBVIOUS
    <3>1. route[k] \in Points /\ route[k + 1] \in Points /\ route[k + 2] \in Points
      BY <1>2, <2>1
    <3>2. OneAxis(route[k], route[k + 1]) /\ OneAxis(route[k + 1], route[k + 2])
      <4>1. k \in 1..(len - 1) /\ k + 1 \in 1..(len - 1) /\ (k + 1) + 1 = k + 2
        BY <2>1
      <4> QED BY <4>1 DEF Legs
    <3> QED BY <3>1, <3>2, CornerIsStrokes
  <2>4. <<>> \in V /\ \A k \in Nat : \A v \in V : G[<<k, v>>] \in V
    <3> HIDE DEF G, corner, m, Strokes
    <3>1. <<>> \in V
      OBVIOUS
    <3>2. \A v, w \in V : v \o w \in V
      OBVIOUS
    <3> QED BY <2>2, <2>3, <3>1, <3>2
  <2>5. Draws(drawn)
    <3> HIDE DEF G, corner, Strokes
    <3>1. PICK h : Follows(h, m, V, <<>>, G)
      <4> HIDE DEF V, m
      <4> QED BY <2>1, <2>4, Recursion
    <3>2. h \in [0..m -> V] /\ h[0] = <<>>
      BY <3>1 DEF Follows
    <3>3. ASSUME NEW k \in 1..m PROVE h[k] = h[k - 1] \o corner(k)
      <4> HIDE DEF V, m
      <4>1. h[k] = G[<<k, h[k - 1]>>]
        BY <3>1 DEF Follows
      <4>2. h[k - 1] \in V /\ k \in Nat
        BY <2>1, <3>2
      <4> QED BY <2>2, <4>1, <4>2
    <3>4. Draws(h)
      <4> HIDE DEF V
      <4>1. \A k \in 0..m : h[k] = IF k = 0 THEN <<>> ELSE h[k - 1] \o corner(k)
        BY SMTT(40), <2>1, <3>2, <3>3
      <4>2. DOMAIN h = 0..m /\ h = [k \in DOMAIN h |-> h[k]]
        BY <3>2
      <4> QED BY <4>1, <4>2
    <3> QED BY <3>4
  <2> HIDE DEF drawn
  <2>6. drawn[0] = <<>> /\ \A k \in 1..m : drawn[k] = drawn[k - 1] \o corner(k)
    <3> HIDE DEF corner
    <3>1. drawn[0] = <<>>
      BY <2>1, <2>5
    <3>2. ASSUME NEW k \in 1..m PROVE drawn[k] = drawn[k - 1] \o corner(k)
      <4>1. k \in 0..m /\ k # 0
        BY <2>1
      <4> QED BY <2>5, <4>1
    <3> QED BY <3>1, <3>2
  <2> HIDE DEF G, V, m
  <2> DEFINE Good == {k \in Nat : k <= m => /\ Traced(route, drawn[k])
                                            /\ On(route, k + 1, Pen(route, drawn[k]))}
  <2>7. 0 \in Good
    <3>1. Traced(route, <<>>)
      BY DEF Traced
    <3>2. Pen(route, <<>>) = route[1]
      BY DEF Pen, From
    <3>3. On(route, 0 + 1, route[1])
      <4>1. 1 \in 1..(len - 1) /\ 0 + 1 = 1
        BY <2>1
      <4> QED BY <1>4, <4>1
    <3> QED BY <2>6, <3>1, <3>2, <3>3
  <2>8. ASSUME NEW k \in Nat, k \in Good PROVE k + 1 \in Good
    <3> SUFFICES ASSUME k + 1 <= m
                 PROVE  /\ Traced(route, drawn[k + 1])
                        /\ On(route, (k + 1) + 1, Pen(route, drawn[k + 1]))
      OBVIOUS
    <3>1. k + 1 \in 1..(Len(route) - 2) /\ k + 1 \in 1..m /\ (k + 1) - 1 = k
      BY <2>1 DEF m
    <3>2. drawn[k + 1] = drawn[k] \o corner(k + 1)
      BY <2>6, <3>1
    <3>3. Traced(route, drawn[k]) /\ On(route, k + 1, Pen(route, drawn[k]))
      BY <2>1, <2>8
    <3>4. LET q == drawn[k] \o Corner(route[k + 1], route[(k + 1) + 1], route[(k + 1) + 2], radius)
          IN Traced(route, q) /\ On(route, (k + 1) + 1, Pen(route, q))
      BY <3>1, <3>3, CornerTraces
    <3> QED BY <3>2, <3>4
  <2> HIDE DEF Good
  <2>9. m \in Good
    <3>1. \A k \in Nat : k \in Good
      BY <2>7, <2>8, SetInduction
    <3> QED BY <2>1, <3>1
  <2> DEFINE path == drawn[m]
  <2>10. Traced(route, path) /\ On(route, m + 1, Pen(route, path))
    BY <2>1, <2>9 DEF Good
  <2>11. RoundedPath(route, radius) = Append(path, Line(route[len]))
    BY <1>1, <1>2, <1>6 DEF m
  <2> HIDE DEF path
  <2>12. Traces(route, Pen(route, path), Line(route[len]))
    <3>1. m + 1 \in 1..(Len(route) - 1) /\ len \in 1..len /\ (m + 1) + 1 = len
      BY <2>1
    <3>2. On(route, m + 1, route[len])
      BY <1>4, <3>1
    <3> QED BY <1>3, <2>10, <3>1, <3>2 DEF Traces
  <2>13. Line(route[len]) \in Strokes
    BY <1>3, <2>1
  <2> QED BY <2>10, <2>11, <2>12, <2>13, OneStrokeMore
<1> QED BY <1>2, <1>5, <1>6

-----------------------------------------------------------------------------
(* What the checker finds of it                                            *)

\* How far two intervals overlap
Along(p, q, u, v) ==
  Most(0, Least(Most(p, q), Most(u, v)) - Most(Least(p, q), Least(u, v)))

\* The segment from p to q runs along the one from u to v, in direction k.
RunsAlong(p, q, u, v, k) ==
  LET m == 3 - k IN
  p[m] = q[m] /\ u[m] = v[m] /\ p[m] = u[m] /\ Along(p[k], q[k], u[k], v[k]) > 0

LEMMA AlongWider ==
  ASSUME NEW a \in Int, NEW b \in Int, NEW p \in Int, NEW q \in Int, NEW u \in Int, NEW v \in Int,
         Between(a, p, b), Between(a, q, b), Along(p, q, u, v) > 0
  PROVE  Along(a, b, u, v) > 0 /\ p # q
BY DEF Along, Between, Least, Most

LEMMA AlongEither ==
  ASSUME NEW a \in Int, NEW c \in Int, NEW n \in Int,
         NEW p \in Int, NEW q \in Int, NEW u \in Int, NEW v \in Int,
         Between(a, p, c), Between(c, q, n), Along(p, q, u, v) > 0
  PROVE  (Along(a, c, u, v) > 0 \/ Along(c, n, u, v) > 0) /\ p # q
BY DEF Along, Between, Least, Most

LEMMA OverlapIsAlong ==
  ASSUME NEW p \in Points, NEW q \in Points, NEW u \in Points, NEW v \in Points
  PROVE  Overlap(<<p, q>>, <<u, v>>) > 0 <=> \E k \in {1, 2} : RunsAlong(p, q, u, v, k)
<1> DEFINE along(k) == Along(p[k], q[k], u[k], v[k])
           flat(k) == p[k] = q[k] /\ u[k] = v[k] /\ p[k] = u[k]
<1>1. Overlap(<<p, q>>, <<u, v>>)
        = IF flat(2) THEN along(1) ELSE IF flat(1) THEN along(2) ELSE 0
  BY DEF Overlap, Along
<1>2. \A k \in {1, 2} : p[k] \in Int /\ q[k] \in Int /\ u[k] \in Int /\ v[k] \in Int
  BY DEF Points
<1>3. flat(2) => ~(along(2) > 0)
  <2>1. \A x \in Int : ~(Along(x, x, x, x) > 0)
    BY DEF Along, Least, Most
  <2> QED BY <1>2, <2>1
<1>4. RunsAlong(p, q, u, v, 1) <=> flat(2) /\ along(1) > 0
  BY DEF RunsAlong
<1>5. RunsAlong(p, q, u, v, 2) <=> flat(1) /\ along(2) > 0
  BY DEF RunsAlong
<1> HIDE DEF flat, along
<1> QED BY <1>1, <1>3, <1>4, <1>5

\* What runs along a part of a leg runs along the leg.
LEMMA LegRunsAlong ==
  ASSUME NEW a \in Points, NEW b \in Points, OneAxis(a, b), NEW p \in Points, NEW q \in Points,
         OnSegment(a, p, b), OnSegment(a, q, b),
         NEW u \in Points, NEW v \in Points, NEW k \in {1, 2}, RunsAlong(p, q, u, v, k)
  PROVE  RunsAlong(a, b, u, v, k)
<1> DEFINE m == 3 - k
<1>1. m \in {1, 2} /\ m # k /\ \A x \in {1, 2} : x = k \/ x = m
  OBVIOUS
<1>2. \A x \in {1, 2} : /\ a[x] \in Int /\ b[x] \in Int /\ p[x] \in Int /\ q[x] \in Int
                        /\ u[x] \in Int /\ v[x] \in Int
                        /\ Between(a[x], p[x], b[x]) /\ Between(a[x], q[x], b[x])
  BY DEF Points, OnSegment
<1>3. p[m] = q[m] /\ u[m] = v[m] /\ p[m] = u[m] /\ Along(p[k], q[k], u[k], v[k]) > 0
  BY DEF RunsAlong
<1> HIDE DEF m
<1>4. Along(a[k], b[k], u[k], v[k]) > 0 /\ p[k] # q[k]
  <2>1. /\ a[k] \in Int /\ b[k] \in Int /\ p[k] \in Int /\ q[k] \in Int
        /\ u[k] \in Int /\ v[k] \in Int
        /\ Between(a[k], p[k], b[k]) /\ Between(a[k], q[k], b[k])
    BY <1>2
  <2> QED BY <1>3, <2>1, AlongWider
<1>5. a[k] # b[k]
  BY <1>2, <1>4 DEF Between, Least, Most
<1>6. a[m] = b[m]
  BY <1>1, <1>5 DEF OneAxis
<1>7. a[m] = p[m]
  BY <1>1, <1>2, <1>6 DEF Between, Least, Most
<1> QED BY <1>3, <1>4, <1>6, <1>7 DEF RunsAlong, m

\* A curve that is straight runs along one of the two legs it joins.
LEMMA TurnRunsAlong ==
  ASSUME NEW a \in Points, NEW c \in Points, NEW n \in Points, OneAxis(a, c), OneAxis(c, n),
         NEW p \in Points, NEW q \in Points, OnSegment(a, p, c), OnSegment(c, q, n),
         NEW u \in Points, NEW v \in Points, NEW k \in {1, 2}, RunsAlong(p, q, u, v, k)
  PROVE  RunsAlong(a, c, u, v, k) \/ RunsAlong(c, n, u, v, k)
<1> DEFINE m == 3 - k
<1>1. m \in {1, 2} /\ m # k /\ \A x \in {1, 2} : x = k \/ x = m
  OBVIOUS
<1>2. \A x \in {1, 2} : /\ a[x] \in Int /\ c[x] \in Int /\ n[x] \in Int
                        /\ p[x] \in Int /\ q[x] \in Int /\ u[x] \in Int /\ v[x] \in Int
                        /\ Between(a[x], p[x], c[x]) /\ Between(c[x], q[x], n[x])
  BY DEF Points, OnSegment
<1>3. p[m] = q[m] /\ u[m] = v[m] /\ p[m] = u[m] /\ Along(p[k], q[k], u[k], v[k]) > 0
  BY DEF RunsAlong
<1> HIDE DEF m
<1>4. Along(a[k], c[k], u[k], v[k]) > 0 \/ Along(c[k], n[k], u[k], v[k]) > 0
  BY <1>2, <1>3, AlongEither
<1>5. \A x, y, s \in Int : Along(x, x, y, s) > 0 => FALSE
  BY DEF Along, Least, Most
<1>6. CASE Along(a[k], c[k], u[k], v[k]) > 0
  <2>1. a[k] # c[k]
    BY <1>2, <1>5, <1>6
  <2>2. a[m] = c[m]
    BY <1>1, <2>1 DEF OneAxis
  <2>3. a[m] = p[m]
    BY <1>1, <1>2, <2>2 DEF Between, Least, Most
  <2> QED BY <1>3, <1>6, <2>2, <2>3 DEF RunsAlong, m
<1>7. CASE Along(c[k], n[k], u[k], v[k]) > 0
  <2>1. c[k] # n[k]
    BY <1>2, <1>5, <1>7
  <2>2. c[m] = n[m]
    BY <1>1, <2>1 DEF OneAxis
  <2>3. c[m] = q[m]
    BY <1>1, <1>2, <2>2 DEF Between, Least, Most
  <2> QED BY <1>3, <1>7, <2>2, <2>3 DEF RunsAlong, m
<1> QED BY <1>4, <1>6, <1>7

\* Points of a leg lie on its axis.
LEMMA LegIsStraight ==
  ASSUME NEW a \in Points, NEW b \in Points, OneAxis(a, b), NEW p \in Points,
         OnSegment(a, p, b)
  PROVE  (a[1] = b[1] /\ p[1] = a[1]) \/ (a[2] = b[2] /\ p[2] = a[2])
<1>1. a[1] \in Int /\ a[2] \in Int /\ b[1] \in Int /\ b[2] \in Int /\ p[1] \in Int /\ p[2] \in Int
  BY DEF Points
<1> QED BY <1>1 DEF OneAxis, OnSegment, Between, Least, Most

LEMMA LineIsStraight ==
  ASSUME NEW a \in Points, NEW b \in Points, OneAxis(a, b), NEW p \in Points, NEW q \in Points,
         OnSegment(a, p, b), OnSegment(a, q, b)
  PROVE  OneAxis(p, q)
<1>1. \A k \in {1, 2} : a[k] \in Int /\ b[k] \in Int /\ p[k] \in Int /\ q[k] \in Int
  BY DEF Points
<1>2. \A k \in {1, 2} : a[k] = b[k] => p[k] = q[k]
  BY <1>1 DEF OnSegment, Between, Least, Most
<1> QED BY <1>2 DEF OneAxis

LEMMA TurnIsStraight ==
  ASSUME NEW a \in Points, NEW c \in Points, NEW n \in Points, OneAxis(a, c), OneAxis(c, n),
         NEW p \in Points, NEW q \in Points, OnSegment(a, p, c), OnSegment(c, q, n),
         Cross(p, c, q) = 0
  PROVE  OneAxis(p, q)
<1>1. c[1] \in Int /\ c[2] \in Int /\ p[1] \in Int /\ p[2] \in Int /\ q[1] \in Int /\ q[2] \in Int
  BY DEF Points
<1>2. p[1] = c[1] \/ p[2] = c[2]
  BY LegIsStraight
<1>3. q[1] = c[1] \/ q[2] = c[2]
  BY LegIsStraight
<1>4. (c[1] - p[1]) * (q[2] - p[2]) - (c[2] - p[2]) * (q[1] - p[1]) = 0
  BY DEF Cross
<1> DEFINE w == c[1] - p[1]
           x == q[2] - p[2]
           y == c[2] - p[2]
           z == q[1] - p[1]
<1>9. \A m, o \in Int : m - o \in Int /\ (m - o = 0 <=> o = m)
  OBVIOUS
<1>10. w \in Int /\ x \in Int /\ y \in Int /\ z \in Int
  BY <1>1
<1>11. w * x - y * z = 0
  BY <1>4
<1>12. /\ w = 0 <=> p[1] = c[1]
       /\ x = 0 <=> p[2] = q[2]
       /\ y = 0 <=> p[2] = c[2]
       /\ z = 0 <=> p[1] = q[1]
  BY <1>1, <1>9
<1>5. /\ w \in Int /\ x \in Int /\ y \in Int /\ z \in Int /\ w * x - y * z = 0
      /\ (w = 0 <=> p[1] = c[1]) /\ (x = 0 <=> p[2] = q[2])
      /\ (y = 0 <=> p[2] = c[2]) /\ (z = 0 <=> p[1] = q[1])
  BY <1>10, <1>11, <1>12
<1> HIDE DEF w, x, y, z
<1>6. CASE w = 0 /\ y # 0
  <2>1. y * z = 0
    BY <1>5, <1>6
  <2>2. z = 0
    BY <1>5, <1>6, <2>1, NoDivisorsOfZero
  <2> QED BY <1>5, <2>2 DEF OneAxis
<1>7. CASE y = 0 /\ w # 0
  <2>1. w * x = 0
    BY <1>5, <1>7
  <2>2. x = 0
    BY <1>5, <1>7, <2>1, NoDivisorsOfZero
  <2> QED BY <1>5, <2>2 DEF OneAxis
<1>8. CASE w = 0 /\ y = 0
  BY <1>3, <1>5, <1>8 DEF OneAxis
<1> QED BY <1>2, <1>5, <1>6, <1>7, <1>8

\* The straight lines drawn of a route along the axes run along its legs.
LEMMA DrawnRunsAlong ==
  ASSUME NEW arrow, arrow.points \in Legs, Traced(arrow.points, arrow.path),
         NEW s \in StraightSegments(arrow)
  PROVE  /\ OneAxis(s[1], s[2])
         /\ \A u, v \in Points : Overlap(s, <<u, v>>) > 0 =>
              \E t \in Range(Segments(arrow.points)) : Overlap(t, <<u, v>>) > 0
<1> DEFINE route == arrow.points
           path == arrow.path
           stroke(i) == path[i]
           p(i) == From(route, path, i)
<1>1. PICK i \in 1..Len(path) :
        /\ s = <<p(i), stroke(i).to>>
        /\ stroke(i).curved => Cross(p(i), stroke(i).via, stroke(i).to) = 0
  <2>1. path \in Seq(Strokes)
    BY DEF Traced
  <2>2. DOMAIN path = 1..Len(path)
    BY <2>1
  <2> QED BY <2>2 DEF StraightSegments, From
<1>2. Traces(route, p(i), stroke(i))
  BY DEF Traced
<1>3. route \in Seq(Points) /\ Len(route) \in Nat
      /\ \A j \in 1..(Len(route) - 1) : OneAxis(route[j], route[j + 1])
  BY DEF Legs
<1>4. \A j \in 1..(Len(route) - 1) : <<route[j], route[j + 1]>> \in Range(Segments(route))
  BY DEF Range, Segments, Segment
<1> DEFINE q == stroke(i).to
           from == p(i)
<1>5. s = <<from, q>>
  BY <1>1
<1>6. CASE stroke(i).curved
  <2>1. PICK j \in 1..(Len(route) - 2) :
          stroke(i).via = route[j + 1] /\ On(route, j, from) /\ On(route, j + 1, q)
    BY <1>2, <1>6 DEF Traces
  <2> DEFINE a == route[j]
             c == route[j + 1]
             n == route[j + 2]
  <2>2. /\ j \in 1..(Len(route) - 1) /\ j + 1 \in 1..(Len(route) - 1) /\ (j + 1) + 1 = j + 2
        /\ j \in 1..Len(route) /\ j + 1 \in 1..Len(route) /\ j + 2 \in 1..Len(route)
    BY <1>3
  <2>3. a \in Points /\ c \in Points /\ n \in Points /\ OneAxis(a, c) /\ OneAxis(c, n)
    BY <1>3, <2>2
  <2>4. from \in Points /\ q \in Points /\ OnSegment(a, from, c) /\ OnSegment(c, q, n)
    BY <2>1, <2>2 DEF On
  <2>5. Cross(from, c, q) = 0
    BY <1>1, <1>6, <2>1
  <2>6. <<a, c>> \in Range(Segments(route)) /\ <<c, n>> \in Range(Segments(route))
    BY <1>4, <2>2
  <2> HIDE DEF a, c, n, from, q, route, stroke
  <2>7. OneAxis(from, q)
    BY <2>3, <2>4, <2>5, TurnIsStraight
  <2>8. ASSUME NEW u \in Points, NEW v \in Points, Overlap(<<from, q>>, <<u, v>>) > 0
        PROVE  Overlap(<<a, c>>, <<u, v>>) > 0 \/ Overlap(<<c, n>>, <<u, v>>) > 0
    <3>1. PICK k \in {1, 2} : RunsAlong(from, q, u, v, k)
      BY <2>4, <2>8, OverlapIsAlong
    <3>2. RunsAlong(a, c, u, v, k) \/ RunsAlong(c, n, u, v, k)
      BY <2>3, <2>4, <3>1, TurnRunsAlong
    <3> QED BY <2>3, <3>2, OverlapIsAlong
  <2> QED BY <1>5, <2>6, <2>7, <2>8 DEF route
<1>7. CASE ~stroke(i).curved
  <2>1. PICK j \in 1..(Len(route) - 1) : On(route, j, from) /\ On(route, j, q)
    BY <1>2, <1>7 DEF Traces
  <2> DEFINE a == route[j]
             b == route[j + 1]
  <2>2. j \in 1..Len(route) /\ j + 1 \in 1..Len(route)
    BY <1>3
  <2>3. a \in Points /\ b \in Points /\ OneAxis(a, b)
    BY <1>3, <2>2
  <2>4. from \in Points /\ q \in Points /\ OnSegment(a, from, b) /\ OnSegment(a, q, b)
    BY <2>1 DEF On
  <2>5. <<a, b>> \in Range(Segments(route))
    BY <1>4
  <2> HIDE DEF a, b, from, q, route, stroke
  <2>6. OneAxis(from, q)
    BY <2>3, <2>4, LineIsStraight
  <2>7. ASSUME NEW u \in Points, NEW v \in Points, Overlap(<<from, q>>, <<u, v>>) > 0
        PROVE  Overlap(<<a, b>>, <<u, v>>) > 0
    <3>1. PICK k \in {1, 2} : RunsAlong(from, q, u, v, k)
      BY <2>4, <2>7, OverlapIsAlong
    <3>2. RunsAlong(a, b, u, v, k)
      BY <2>3, <2>4, <3>1, LegRunsAlong
    <3> QED BY <2>3, <3>2, OverlapIsAlong
  <2> QED BY <1>5, <2>5, <2>6, <2>7 DEF route
<1> QED BY <1>6, <1>7

-----------------------------------------------------------------------------
(* What the renderer lets pass                                             *)

LEMMA FramesAreMeasured ==
  ASSUME NEW d \in Documents, NEW f \in DOMAIN Frames(d, Titles(d))
  PROVE  \A e \in Borders(Frames(d, Titles(d))[f]) : \E u, v \in Points : e = <<u, v>>
<1> DEFINE b == d.boundaries[f]
           wide == Widened(d, b)
           top == IF d.profile = "none" THEN wide.y ELSE Least(wide.y, Titles(d)[f].y - 4 * Px)
           radius == (IF b.kind = "security-group" THEN 8 ELSE 12) * Px
           frame == Frames(d, Titles(d))[f]
<1>1. HasBoxes(d)
  BY DocumentHasBoxes
<1>2. f \in 1..Len(d.boundaries)
  <2>1. d.boundaries \in Seq(Boundaries)
    BY DEF Documents
  <2> QED BY <2>1 DEF Frames
<1>3. /\ Len(d.boundaries) \in Nat
      /\ \A i \in 1..Len(d.boundaries) : IsBoundary(d, d.boundaries[i])
  BY DocumentBoundaries
<1>4. wide \in IntBoxes
  BY <1>1, <1>2, <1>3, WidenedIsBox
<1>5. Titles(d)[f] \in IntBoxes
  BY <1>1, <1>2, <1>3, TitlesPlacedClear
<1>6. frame = [x |-> wide.x, y |-> top, w |-> wide.w, h |-> wide.y + wide.h - top, radius |-> radius]
  BY DEF Frames
<1> HIDE DEF wide
<1>7. top \in Int /\ radius \in Int
  BY <1>4, <1>5 DEF IntBoxes, Least, Px
<1> HIDE DEF top, radius, frame
<1>8. /\ frame.x \in Int /\ frame.y \in Int /\ frame.w \in Int /\ frame.h \in Int
      /\ frame.radius \in Int
  BY <1>4, <1>6, <1>7 DEF IntBoxes
<1> DEFINE r == Most(0, Least(frame.radius, Least(frame.w \div 2, frame.h \div 2)))
           l == frame.x
           t == frame.y
           e == frame.x + frame.w
           g == frame.y + frame.h
<1>9. r \in Int /\ l \in Int /\ t \in Int /\ e \in Int /\ g \in Int
  BY <1>8 DEF Most, Least
<1>10. Borders(frame) \subseteq
         {<<<<l + r, t>>, <<e - r, t>>>>, <<<<e, t + r>>, <<e, g - r>>>>,
          <<<<e - r, g>>, <<l + r, g>>>>, <<<<l, g - r>>, <<l, t + r>>>>}
  BY DEF Borders
<1> HIDE DEF r, l, t, e, g
<1>11. /\ <<l + r, t>> \in Points /\ <<e - r, t>> \in Points
       /\ <<e, t + r>> \in Points /\ <<e, g - r>> \in Points
       /\ <<e - r, g>> \in Points /\ <<l + r, g>> \in Points
       /\ <<l, g - r>> \in Points /\ <<l, t + r>> \in Points
  BY <1>9 DEF Points
<1> QED BY <1>10, <1>11 DEF frame

\* Corridors and crowded labels are measured of the routes, not of what is drawn.
LEMMA SameMeasures ==
  ASSUME NEW d, NEW rs, NEW fs
  PROVE  LET a == Artifact(d, rs, fs) IN
         /\ DOMAIN a.arrows = DOMAIN rs
         /\ \A i \in DOMAIN rs : /\ a.arrows[i].points = rs[i].points
                                 /\ a.arrows[i].path = RoundedPath(rs[i].points, 8 * Px)
         /\ Corridors(a.arrows) = Corridors(rs)
         /\ LabelHits(Masked(a), 4 * Px) = LabelHits(rs, 4 * Px)
<1> DEFINE a == Artifact(d, rs, fs)
           arrows == a.arrows
           masked == Masked(a)
<1>1. /\ DOMAIN arrows = DOMAIN rs /\ DOMAIN a.masks = DOMAIN rs
      /\ \A i \in DOMAIN rs : /\ arrows[i].points = rs[i].points
                              /\ arrows[i].path = RoundedPath(rs[i].points, 8 * Px)
                              /\ arrows[i].from = rs[i].from /\ arrows[i].to = rs[i].to
                              /\ a.masks[i] = rs[i].mask
  BY DEF Artifact
<1>2. /\ DOMAIN masked = DOMAIN rs
      /\ \A i \in DOMAIN rs : masked[i].points = rs[i].points /\ masked[i].mask = rs[i].mask
  BY <1>1 DEF Masked
<1> HIDE DEF a, arrows, masked
<1>3. RelationPairs(arrows) = RelationPairs(rs)
  BY <1>1 DEF RelationPairs
<1>4. \A p \in RelationPairs(rs) :
        /\ Unrelated(arrows[p[1]], arrows[p[2]]) <=> Unrelated(rs[p[1]], rs[p[2]])
        /\ arrows[p[1]].points = rs[p[1]].points /\ arrows[p[2]].points = rs[p[2]].points
  BY <1>1 DEF RelationPairs, Unrelated
<1>5. Corridors(arrows) = Corridors(rs)
  BY <1>3, <1>4 DEF Corridors
<1>6. LabelHits(masked, 4 * Px) = LabelHits(rs, 4 * Px)
  BY <1>2 DEF LabelHits
<1> QED BY <1>1, <1>5, <1>6 DEF a, arrows, masked

\* What the checker may still find of what the renderer let pass
LEMMA WhatRemains ==
  ASSUME NEW d, NEW rs, NEW fs, RouteProblems(d, rs, fs) = {},
         NEW e \in Errors(Artifact(d, rs, fs))
  PROVE  \/ e[1] = "crossing"
         \/ \E i \in DOMAIN rs : /\ e = <<"diagonal", i>>
                                 /\ Diagonals(Artifact(d, rs, fs).arrows[i]) # {}
         \/ /\ d.profile # "none"
            /\ \E i \in DOMAIN rs, f \in DOMAIN fs : \E b \in Borders(fs[f]) :
                 /\ e = <<"border", i>>
                 /\ \E s \in StraightSegments(Artifact(d, rs, fs).arrows[i]) : Overlap(s, b) > 0
<1> DEFINE a == Artifact(d, rs, fs)
<1>1. /\ a.frames = fs /\ (a.profile = "showcase" <=> d.profile = "showcase")
      /\ a.enforced <=> d.profile # "none"
  BY DEF Artifact
<1>2. /\ DOMAIN a.arrows = DOMAIN rs
      /\ \A i \in DOMAIN rs : a.arrows[i].points = rs[i].points
      /\ Corridors(a.arrows) = Corridors(rs)
      /\ LabelHits(Masked(a), 4 * Px) = LabelHits(rs, 4 * Px)
  BY SameMeasures
<1>3. d.profile = "showcase" =>
        /\ Corridors(rs) = {} /\ LabelHits(rs, 4 * Px) = {}
        /\ \A i \in DOMAIN rs : RhythmIssues(rs[i].points) = {}
  <2>1. /\ CorridorProblems(rs, d.profile) = {} /\ RhythmProblems(rs, d.profile) = {}
        /\ LabelProblems(rs, d.profile) = {}
    <3>1. \A p \in CorridorProblems(rs, d.profile) : <<"corridor", p[1]>> \in RouteProblems(d, rs, fs)
      BY DEF RouteProblems
    <3>2. \A i \in RhythmProblems(rs, d.profile) : <<"rhythm", i>> \in RouteProblems(d, rs, fs)
      BY DEF RouteProblems
    <3>3. \A p \in LabelProblems(rs, d.profile) : <<"clearance", p[1]>> \in RouteProblems(d, rs, fs)
      BY DEF RouteProblems
    <3> QED BY <3>1, <3>2, <3>3
  <2> QED BY <2>1 DEF CorridorProblems, RhythmProblems, LabelProblems
<1> HIDE DEF a
<1>4. \/ \E i \in DOMAIN a.arrows : e = <<"diagonal", i>> /\ Diagonals(a.arrows[i]) # {}
      \/ a.enforced /\ \E r \in DrawnBorderRuns(a) : e = <<"border", r[1]>>
      \/ e[1] = "crossing"
      \/ /\ a.profile = "showcase"
         /\ \/ \E p \in Corridors(a.arrows) : e = <<"corridor", p[1]>>
            \/ \E i \in DOMAIN a.arrows : RhythmIssues(a.arrows[i].points) # {}
            \/ \E p \in LabelHits(Masked(a), 4 * Px) : e = <<"clearance", p[1]>>
  <2>1. e \in Errors(a)
    BY DEF a
  <2> QED BY <2>1 DEF Errors
<1>5. \A r \in DrawnBorderRuns(a) : \E i \in DOMAIN rs, f \in DOMAIN fs : \E b \in Borders(fs[f]) :
        r[1] = i /\ \E s \in StraightSegments(a.arrows[i]) : Overlap(s, b) > 0
  BY <1>1, <1>2 DEF DrawnBorderRuns
<1>6. CASE \E i \in DOMAIN a.arrows : e = <<"diagonal", i>> /\ Diagonals(a.arrows[i]) # {}
  BY <1>2, <1>6 DEF a
<1>7. CASE a.enforced /\ \E r \in DrawnBorderRuns(a) : e = <<"border", r[1]>>
  BY <1>1, <1>5, <1>7 DEF a
<1> QED BY <1>1, <1>2, <1>3, <1>4, <1>6, <1>7

LEMMA InvOnlyCrossingsAreMissed == DeliveryInv => OnlyCrossingsAreMissed
<1> SUFFICES ASSUME DeliveryInv, phase = "checked", NEW e \in errors
             PROVE  /\ e[1] \in {"crossing", "diagonal", "border"}
                    /\ Automatic(doc.connections[e[2]]) => e[1] = "crossing"
  BY DEF OnlyCrossingsAreMissed
<1> DEFINE a == Artifact(doc, relations, frames)
<1>1. /\ doc \in Documents /\ titles = Titles(doc) /\ frames = Frames(doc, Titles(doc))
      /\ relations = Relations(doc, Paths(doc)) /\ errors = Errors(a)
      /\ Problems(doc, relations, frames, titles) = {}
  BY DEF DeliveryInv
<1>2. RouteProblems(doc, relations, frames) = {}
  BY <1>1 DEF Problems
<1>3. /\ DOMAIN relations = DOMAIN doc.connections
      /\ \A i \in DOMAIN relations : relations[i].points = PathFor(doc, i)
  BY <1>1 DEF Relations, Paths
<1>4. ASSUME NEW i \in DOMAIN relations, Automatic(doc.connections[i])
      PROVE  /\ Diagonals(a.arrows[i]) = {}
             /\ \A s \in StraightSegments(a.arrows[i]) : \A u, v \in Points :
                  Overlap(s, <<u, v>>) > 0 =>
                    \E t \in Range(Segments(relations[i].points)) : Overlap(t, <<u, v>>) > 0
  <2> DEFINE arrow == a.arrows[i]
  <2>1. arrow.points = relations[i].points /\ arrow.path = RoundedPath(arrow.points, 8 * Px)
    BY SameMeasures
  <2>2. arrow.points \in Legs
    <3>1. HasLines(doc)
      BY <1>1, DocumentHasLines
    <3>2. PathFor(doc, i) \in Legs
      BY <1>3, <1>4, <3>1, PathKeepsPorts
    <3> QED BY <1>3, <2>1, <3>2
  <2>3. 8 * Px \in Nat
    BY DEF Px
  <2> HIDE DEF arrow
  <2>4. Traced(arrow.points, arrow.path)
    BY <2>1, <2>2, <2>3, RoundedPathTraces
  <2>5. \A s \in StraightSegments(arrow) :
          /\ OneAxis(s[1], s[2])
          /\ \A u, v \in Points : Overlap(s, <<u, v>>) > 0 =>
               \E t \in Range(Segments(arrow.points)) : Overlap(t, <<u, v>>) > 0
    BY <2>2, <2>4, DrawnRunsAlong
  <2>6. Diagonals(arrow) = {}
    BY <2>5 DEF Diagonals, OneAxis
  <2> QED BY <2>1, <2>5, <2>6 DEF arrow
<1>5. ASSUME NEW i \in DOMAIN relations, NEW f \in DOMAIN frames, NEW b \in Borders(frames[f]),
             doc.profile # "none", NEW t \in Range(Segments(relations[i].points)), Overlap(t, b) > 0
      PROVE  FALSE
  <2> DEFINE segments == [j \in DOMAIN relations |-> Segments(relations[j].points)]
             runs(j, g) == {<<j, g, c>> : c \in {o \in Borders(frames[g]) :
                                                  \E s \in Range(segments[j]) : Overlap(s, o) > 0}}
  <2>3. <<i, f, b>> \in runs(i, f)
    BY <1>5
  <2>4. BorderRuns(segments, frames) = UNION {runs(j, g) : j \in DOMAIN segments, g \in DOMAIN frames}
    BY DEF BorderRuns
  <2>5. i \in DOMAIN segments /\ f \in DOMAIN frames
    OBVIOUS
  <2>6. BorderProblems(relations, frames, doc.profile) = BorderRuns(segments, frames)
    BY <1>5 DEF BorderProblems
  <2> HIDE DEF runs, segments
  <2>1. <<i, f, b>> \in BorderProblems(relations, frames, doc.profile)
    BY <2>3, <2>4, <2>5, <2>6
  <2>2. <<"border", i>> \in RouteProblems(doc, relations, frames)
    <3>1. \A p \in BorderProblems(relations, frames, doc.profile) :
            <<"border", p[1]>> \in RouteProblems(doc, relations, frames)
      BY DEF RouteProblems
    <3> QED BY <2>1, <3>1
  <2> QED BY <1>2, <2>2
<1>6. \A f \in DOMAIN frames : \A b \in Borders(frames[f]) : \E u, v \in Points : b = <<u, v>>
  BY <1>1, FramesAreMeasured
<1>7. \/ e[1] = "crossing"
      \/ \E i \in DOMAIN relations : e = <<"diagonal", i>> /\ Diagonals(a.arrows[i]) # {}
      \/ /\ doc.profile # "none"
         /\ \E i \in DOMAIN relations, f \in DOMAIN frames : \E b \in Borders(frames[f]) :
              /\ e = <<"border", i>>
              /\ \E s \in StraightSegments(a.arrows[i]) : Overlap(s, b) > 0
  BY <1>1, <1>2, WhatRemains
<1> HIDE DEF a
<1>8. CASE \E i \in DOMAIN relations : e = <<"diagonal", i>> /\ Diagonals(a.arrows[i]) # {}
  BY <1>4, <1>8
<1>9. CASE /\ doc.profile # "none"
           /\ \E i \in DOMAIN relations, f \in DOMAIN frames : \E b \in Borders(frames[f]) :
                /\ e = <<"border", i>>
                /\ \E s \in StraightSegments(a.arrows[i]) : Overlap(s, b) > 0
  <2>1. PICK i \in DOMAIN relations, f \in DOMAIN frames : \E b \in Borders(frames[f]) :
          /\ e = <<"border", i>>
          /\ \E s \in StraightSegments(a.arrows[i]) : Overlap(s, b) > 0
    BY <1>9
  <2>3. PICK b \in Borders(frames[f]) :
          /\ e = <<"border", i>>
          /\ \E s \in StraightSegments(a.arrows[i]) : Overlap(s, b) > 0
    BY <2>1
  <2>4. PICK s \in StraightSegments(a.arrows[i]) : Overlap(s, b) > 0
    BY <2>3
  <2>2. ~Automatic(doc.connections[i])
    <3> SUFFICES ASSUME Automatic(doc.connections[i]) PROVE FALSE
      OBVIOUS
    <3>1. PICK u \in Points, v \in Points : b = <<u, v>>
      BY <1>6
    <3>2. PICK t \in Range(Segments(relations[i].points)) : Overlap(t, b) > 0
      BY <1>4, <2>4, <3>1
    <3> QED BY <1>5, <1>9, <3>2
  <2> QED BY <2>1, <2>2
<1> QED BY <1>7, <1>8, <1>9

\* Of what the checker looks for, the renderer lets only a crossing of two
\* drawn connections pass, or a leg its author wrote askew: labels, corridors
\* and rhythm are measured of the same points by both, and the lines and
\* straight curves that are drawn of an automatic route stay on its legs, where
\* the renderer looked for borders.
THEOREM RoundingAddsNone == DeliverySpec => []OnlyCrossingsAreMissed
BY DeliveryInvHolds, InvOnlyCrossingsAreMissed, PTL
=============================================================================
