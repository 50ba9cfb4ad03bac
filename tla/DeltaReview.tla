----------------------------- MODULE DeltaReview -----------------------------
(***************************************************************************)
(* The page compare writes, in the browser: the review strip that walks    *)
(* through the changes, lines 735 to 1154 of                               *)
(* .agents/skills/archify/delta/architecture-delta.mjs.  An event handler  *)
(* or a timer is one step; the functions they call map a review to the     *)
(* review they leave.                                                      *)
(*                                                                         *)
(* The page shows the comparison of one pair of documents.  The elements   *)
(* of an open page may change under the script, so that a row no longer    *)
(* matches what is drawn.                                                  *)
(***************************************************************************)
EXTENDS ArchitectureDelta

CONSTANTS
  Pairs,     \* the pairs of documents that are compared
  Tokens     \* playbackToken counts modulo this: no timer outlives so many stops

ASSUME ReviewAssumption == Tokens \in Nat /\ Tokens > 2
ASSUME PairsAssumption == \A p \in Pairs : IsFiniteSet(Changes(p[1], p[2]))

VARIABLES
  pair,      \* the documents of the page
  torn,      \* the rows whose targets do not match the receipt
  review,    \* the variables of the script and what it shows
  calm,      \* prefers-reduced-motion
  focus      \* the button that has the focus

vars == <<pair, torn, review, calm, focus>>

\* Rows are numbered in the order of the list; the overview is row 0.
Rows(p) == 1..Cardinality(Changes(p[1], p[2]))
Last == Cardinality(Changes(pair[1], pair[2]))

\* Mutant of StopPlayback: the pending timeout is not cleared.
StopPlaybackOnly(r) ==
  [r EXCEPT !.playing = FALSE, !.token = (@ + 1) % Tokens, !.timer = Tokens]

-----------------------------------------------------------------------------
\* stopPlayback
StopPlayback(r) ==
  [r EXCEPT !.playing = FALSE, !.token = (@ + 1) % Tokens,
            !.timers = @ \ {r.timer}, !.timer = Tokens]

\* failReview
FailReview(r) ==
  [StopPlayback(r) EXCEPT !.available = FALSE, !.active = 0, !.marked = {}]

\* selectChange, of a row that may not exist
SelectChange(r, i) ==
  IF ~r.available \/ i < 1 \/ i > Last THEN r
  ELSE IF i \in torn THEN FailReview(r)
  ELSE [r EXCEPT !.view = "delta", !.active = i, !.marked = {i}]

\* overview
Overview(r) ==
  IF ~r.available THEN FailReview(r)
  ELSE [StopPlayback(r) EXCEPT !.active = 0, !.marked = {}, !.view = "delta"]

\* Mutant of SchedulePlayback: reaching the last change does not stop.
SchedulePlaybackPastEnd(r, token) ==
  IF ~r.playing \/ token # r.token \/ r.active >= Last THEN r
  ELSE [r EXCEPT !.timer = token, !.timers = @ \cup {token}]

\* schedulePlayback, called with the token of its playback
SchedulePlayback(r, token) ==
  IF r.active >= Last THEN StopPlayback(r)
  ELSE IF ~r.playing \/ token # r.token THEN r
  ELSE [r EXCEPT !.timer = token, !.timers = @ \cup {token}]

\* startReview
StartReview(r) ==
  LET stopped == StopPlayback(r)
      first == SelectChange(stopped, 1)
      token == (first.token + 1) % Tokens
  IN IF ~r.available THEN r
     ELSE IF r.playing \/ 1 \notin 1..Last THEN stopped
     ELSE IF 1 \in torn \/ calm \/ Last < 2 THEN first
     ELSE SchedulePlayback([first EXCEPT !.playing = TRUE, !.token = token], token)

-----------------------------------------------------------------------------
\* validateReview as the script starts
Init ==
  /\ pair \in {p \in Pairs : Comparable(p[1], p[2])}
  /\ torn \in {{i \in Rows(pair) : ~valid} :
                 valid \in {\A c \in Changes(pair[1], pair[2]) : TargetsMatch(c, Targets(c))}}
  /\ review = [active |-> 0, marked |-> {}, playing |-> FALSE, token |-> 0,
               timer |-> Tokens, timers |-> {}, available |-> torn = {}, view |-> "delta"]
  /\ calm \in BOOLEAN
  /\ focus = "none"

World == UNCHANGED <<pair, torn, calm>>

Buttons == {"tab", "row", "overview", "previous", "next", "play"}

\* focusin: a button gets the focus, by the Tab key or as a press on it begins;
\* the click of that press is a later event.
FocusIn(button) ==
  /\ focus # button /\ focus' = button
  /\ review' = IF review.playing THEN StopPlayback(review) ELSE review
  /\ World

Blur ==
  /\ focus # "none" /\ focus' = "none"
  /\ review' = review /\ World

Click(button) == focus = button /\ focus' = focus /\ World

\* A click on a tab, or an arrow key on it
ShowSnapshot(view) ==
  /\ Click("tab")
  /\ review' = [StopPlayback(review) EXCEPT !.view = view]

\* A click or Enter on a row, which failReview disables
PickRow(i) ==
  /\ Click("row") /\ review.available /\ i \in 1..Last
  /\ review' = SelectChange(StopPlayback(review), i)

\* An arrow key on a row moves the focus along the rows.
MoveAlongRows ==
  /\ Click("row") /\ review.available
  /\ review' = StopPlayback(review)

\* updateControls says which of the buttons are enabled.
PressOverview ==
  /\ Click("overview") /\ review.available /\ review.active > 0
  /\ review' = Overview(review)

PressPrevious ==
  /\ Click("previous") /\ review.available /\ review.active > 1
  /\ review' = SelectChange(StopPlayback(review), review.active - 1)

PressNext ==
  /\ Click("next") /\ review.available /\ review.active \in 1..(Last - 1)
  /\ review' = SelectChange(StopPlayback(review), review.active + 1)

PressPlay ==
  /\ Click("play") /\ review.available /\ Last > 0
  /\ review' = StartReview(review)

Escape ==
  /\ review.active > 0
  /\ review' = Overview(review)
  /\ focus' = "play" /\ World

\* beforeprint
BeforePrint ==
  /\ review' = Overview(review)
  /\ World /\ focus' = focus

\* visibilitychange
Hide ==
  /\ review' = StopPlayback(review)
  /\ World /\ focus' = focus

\* The reduced-motion setting changes.
SetMotion ==
  /\ calm' = ~calm
  /\ review' = IF calm' THEN StopPlayback(review) ELSE review
  /\ UNCHANGED <<pair, torn, focus>>

\* The elements of row i change under the script.
Tear(i) ==
  /\ torn = {} /\ i \in 1..Last
  /\ torn' = {i}
  /\ UNCHANGED <<pair, review, calm, focus>>

\* The callback of schedulePlayback
TimerFires(token) ==
  LET r == [review EXCEPT !.timers = @ \ {token}]
      next == SelectChange(r, r.active + 1)
  IN /\ token \in review.timers
     /\ review' = IF ~r.playing \/ token # r.token THEN r
                  ELSE IF r.active + 1 \in torn THEN next
                  ELSE SchedulePlayback(next, token)
     /\ World /\ focus' = focus

Timer == \E token \in 0..(Tokens - 1) : TimerFires(token)

Next ==
  \/ \E button \in Buttons : FocusIn(button)
  \/ \E view \in {"base", "delta", "head"} : ShowSnapshot(view)
  \/ \E i \in 1..Last : PickRow(i) \/ Tear(i)
  \/ MoveAlongRows \/ PressOverview \/ PressPrevious \/ PressNext \/ PressPlay
  \/ Escape \/ BeforePrint \/ Hide \/ Blur \/ SetMotion
  \/ Timer

Spec == Init /\ [][Next]_vars /\ WF_vars(Timer)

-----------------------------------------------------------------------------
(* What buildDeltaSvg draws for a change is what                           *)
(* expectedReviewTargetSignature and reviewPrimaryStates ask of it: a      *)
(* comparison never fails its own validation, and a page opens with its    *)
(* review available.  Drawing and expectation are written separately.      *)
DrawingMatchesReceipt ==
  \A c \in Changes(pair[1], pair[2]) : ValidDrawing(c, Targets(c))

(* While the review plays there is exactly one pending timeout and it is   *)
(* that of this playback; when it does not play there is none: no timer of *)
(* an earlier playback can come back, and no playback is left without one. *)
OneTimerPerPlayback ==
  review.timers = IF review.playing THEN {review.token} ELSE {}

(* Playback ends: it reaches the last change or is stopped.                *)
PlaybackEnds == review.playing ~> ~review.playing

(* The receipt of a comparison says it is complete, and the page says "No  *)
(* authored architecture changes": then the documents differ in nothing    *)
(* an author wrote.                                                        *)
CompleteReceipt ==
  LET s == Summary(pair[1], pair[2]) IN
  s.changes = {} /\ ~s.presentation /\ ~s.provenance
    => Canon(pair[1]) = Canon(pair[2])
=============================================================================
