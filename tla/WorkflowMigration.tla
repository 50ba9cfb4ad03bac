------------------------- MODULE WorkflowMigration -------------------------
(***************************************************************************)
(* archify migrate workflow: migrateWorkflowDocument of                    *)
(* .agents/skills/archify/migrations/workflow-v2.mjs over the compiler's   *)
(* bounded layout feedback (compileWorkflowWithFeedback).  A document is   *)
(* compiled for its rank plan, once more without hand-drawn routes if that *)
(* fails, its pins are mapped onto the plan, and the mapped document is    *)
(* compiled and, where only its canvas is too small, enlarged.             *)
(*                                                                         *)
(* Whether the router finds a way for a relationship is not computed: each *)
(* relationship has a gap it needs between its ranks and between lanes,    *)
(* fixed for a document and unknown to the solver.                         *)
(***************************************************************************)
EXTENDS WorkflowLayout

CONSTANTS
  Sources,      \* schema-v1 documents
  Needs,        \* [edges -> [gap: Nat, lanes: Nat]]: what the router needs
  MaxRounds     \* MAX_READABLE_LAYOUT_FEEDBACK_ROUNDS

ASSUME RoundsAssumption == MaxRounds \in Nat
ASSUME DocumentAssumption == \A d \in Sources : IsDocument(d) /\ d.version = 1

VARIABLES
  source,    \* the document the command was given
  needs,     \* what each of its relationships needs
  stage,     \* the step the migration is at
  doc,       \* the document being compiled
  feedback,  \* what the compiler asked the layout for
  round,     \* the attempt of this compile
  ranks,     \* the centers its layout gives the columns (layout.colXs)
  planned,   \* the rank plan the pins are mapped to
  verdict    \* the outcome

vars == <<source, needs, stage, doc, feedback, round, ranks, planned, verdict>>

Compiling == {"verify", "intrinsic", "projection", "mapped", "enlarged"}
NoFeedback == [ranks |-> {}, laneGap |-> 0]

Init ==
  /\ source \in Sources
  /\ needs \in Needs
  /\ stage = "read"
  /\ doc = source
  /\ feedback = NoFeedback
  /\ round = 0
  /\ ranks = LegacyColumns
  /\ planned = LegacyColumns
  /\ verdict = "none"

-----------------------------------------------------------------------------
(* One attempt of the compiler on doc. *)

GapOf(e) == ranks[Later(doc, e).col] - ranks[Earlier(doc, e).col]

\* A vertical leg at a pinned x runs clear of every node.
PinsClear ==
  \A e \in EdgesOf(doc) : \A x \in Range(e.via) \cup Range(e.channelX) : \A n \in NodesOf(doc) :
    Distance(x, ranks[n.col]) > Half(n) + 2

\* The relationships the compiler routes itself and finds no way for.
Stuck ==
  {i \in DOMAIN doc.edges :
     LET e == doc.edges[i]
     IN  /\ ~RoutedByHand(e) /\ e.route = "auto"
         /\ \/ GapOf(e) < needs[i].gap
            \/ /\ From(doc, e).lane # To(doc, e).lane
               /\ LaneGap(feedback) < needs[i].lanes}

\* Both ends face each other across a gap: open sides are tried in every way, and
\* nodes that overlap horizontally have no gap between them (horizontallyFacing).
Facing(e) ==
  LET forward == From(doc, e).col < To(doc, e).col
  IN  /\ From(doc, e).col # To(doc, e).col
      /\ e.fromSide \in {"auto", IF forward THEN "right" ELSE "left"}
      /\ e.toSide \in {"auto", IF forward THEN "left" ELSE "right"}
      /\ 2 * GapOf(e) > From(doc, e).width + To(doc, e).width

NeededRankGap(e) == Half(From(doc, e)) + 32 + Half(To(doc, e))

AsksRanks(e) == Facing(e) /\ GapOf(e) < NeededRankGap(e)
AsksLanes(e) == From(doc, e).lane # To(doc, e).lane /\ LaneGap(feedback) < 32

Blocked == ~ContractHolds(doc) \/ ~PinsClear
FirstStuck == doc.edges[Min(Stuck)]

TooSmall ==
  /\ doc.box # NoBox
  /\ \/ doc.box.width < RequiredBox(doc, feedback, ranks).width
     \/ doc.box.height < RequiredBox(doc, feedback, ranks).height

Request(e) == Apart(Earlier(doc, e).col, Later(doc, e).col, NeededRankGap(e))

\* Mutant of Widened: each request replaces the earlier ones.
WidenedOnce(e) ==
  IF AsksRanks(e) THEN [feedback EXCEPT !.ranks = {Request(e)}]
  ELSE [feedback EXCEPT !.laneGap = 32]

Widened(e) ==
  IF AsksRanks(e)
  THEN [feedback EXCEPT !.ranks =
          {k \in @ : <<k.from, k.to>> # <<Request(e).from, Request(e).to>>} \cup {Request(e)}]
  ELSE [feedback EXCEPT !.laneGap = 32]

\* What was asked for before is not asked for again.
Grows(e) ==
  IF AsksRanks(e)
  THEN \A k \in feedback.ranks :
         <<k.from, k.to>> = <<Request(e).from, Request(e).to>> => Request(e).least > k.least
  ELSE feedback.laneGap < 32

Asking == ~Blocked /\ Stuck # {} /\ (AsksRanks(FirstStuck) \/ AsksLanes(FirstStuck))

CompileAgain ==
  /\ stage \in Compiling
  /\ Asking
  /\ Grows(FirstStuck) /\ round < MaxRounds
  /\ UNCHANGED <<source, needs, stage, doc, planned, verdict>>
  /\ feedback' = Widened(FirstStuck)
  /\ round' = round + 1
  /\ ranks' = Ranks(doc', feedback')

\* Looked at once all relationships have their ways.
InLanes == \A n \in NodesOf(doc) : ranks[n.col] - Half(n) >= 40

Routed == ~Blocked /\ Stuck = {} /\ InLanes

Fails ==
  \/ Blocked
  \/ Stuck # {} /\ ~(Asking /\ Grows(FirstStuck) /\ round < MaxRounds)
  \/ ~Blocked /\ Stuck = {} /\ ~InLanes

Compiles == Routed /\ ~TooSmall

-----------------------------------------------------------------------------
(* The migration. *)

Begin(next, d) ==
  /\ stage' = next
  /\ doc' = d
  /\ feedback' = NoFeedback
  /\ round' = 0
  /\ ranks' = Ranks(doc', feedback')

Finish(result) ==
  /\ stage' = "done"
  /\ verdict' = result
  /\ UNCHANGED <<doc, feedback, round, ranks>>

\* Mutant of Read: an output is taken for a source of its own.
ReadAsLegacy ==
  /\ stage = "read"
  /\ Begin("intrinsic", Intrinsic(source))
  /\ UNCHANGED <<source, needs, planned, verdict>>

Read ==
  /\ stage = "read"
  /\ IF source.version = 2 THEN Begin("verify", source) ELSE Begin("intrinsic", Intrinsic(source))
  /\ UNCHANGED <<source, needs, planned, verdict>>

\* Old pins may be in the way of the plan: plan without them.
PlanWithoutPins ==
  /\ stage = "intrinsic" /\ Fails
  /\ Begin("projection", Planning(source))
  /\ UNCHANGED <<source, needs, planned, verdict>>

MapPins ==
  /\ stage \in {"intrinsic", "projection"} /\ Compiles
  /\ planned' = ranks
  /\ Begin("mapped", MappedCandidate(source, LegacyColumns, ranks))
  /\ UNCHANGED <<source, needs, verdict>>

Enlarged(box, required) ==
  [width |-> Max({box.width, required.width}), height |-> Max({box.height, required.height})]

EnlargeCanvas ==
  /\ stage = "mapped"
  /\ Routed /\ TooSmall
  /\ Begin("enlarged", [doc EXCEPT !.box = Enlarged(@, RequiredBox(doc, feedback, ranks))])
  /\ UNCHANGED <<source, needs, planned, verdict>>

Accept ==
  /\ stage \in {"verify", "mapped", "enlarged"} /\ Compiles
  /\ Finish("accepted")
  /\ UNCHANGED <<source, needs, planned>>

Reject ==
  /\ stage \in Compiling \ {"intrinsic"}
  /\ Fails \/ (stage # "mapped" /\ Routed /\ TooSmall)
  /\ Finish("rejected")
  /\ UNCHANGED <<source, needs, planned>>

\* The command is given its own output.
Again ==
  /\ stage = "done" /\ verdict = "accepted" /\ source.version = 1
  /\ source' = doc
  /\ verdict' = "none"
  /\ Begin("read", doc)
  /\ UNCHANGED <<needs, planned>>

Ended == stage = "done" /\ ~(verdict = "accepted" /\ source.version = 1) /\ UNCHANGED vars

Next ==
  \/ Read \/ CompileAgain \/ PlanWithoutPins \/ MapPins
  \/ EnlargeCanvas \/ Accept \/ Reject \/ Again \/ Ended

Spec == Init /\ [][Next]_vars

-----------------------------------------------------------------------------
(* Properties. *)

\* The rank plan keeps what the format promises of readable v2: nodes of a lane
\* that overlap vertically are 8 px apart, a direct relationship has room for
\* its label, nodes begin 8 px right of the lane's edge (save one in a later
\* column that is wider than the columns before it, which InLanes looks at), groups
\* lie in the lanes and hold their nodes below their label (createReadableLayout;
\* the shifts and widenings come after one another).
RanksAreReadable ==
  stage \in Compiling =>
    /\ \A m, n \in NodesOf(doc) :
         m.lane = n.lane /\ m.col < n.col /\ Overlap(m, n, 8)
           => ranks[n.col] - ranks[m.col] >= Half(m) + 8 + Half(n)
    /\ \A e \in EdgesOf(doc) :
         Direct(doc, e) /\ ~PrefersChannel(e)
           => GapOf(e) - Half(From(doc, e)) - Half(To(doc, e)) >= LabelClearance(e)
    /\ \A g \in doc.groups :
         /\ GroupSpan(doc, g, ranks).left >= 44
         /\ GroupSpan(doc, g, ranks).right <= 40 + LaneWidth(doc, ranks) - 8
    /\ \A n \in NodesOf(doc) :
         n.col = 1 \/ Half(n) <= 46 + (n.col - 1) * Pitch => ranks[n.col] - Half(n) >= 48
    /\ \A l \in DOMAIN doc.lanes : \A p \in InGroups(doc, l) :
         LET top == Header(doc, l, ranks) + TopOffset(doc, p[2])
         IN  /\ top > 8
             /\ top + p[2].height < LaneHeight(doc, l, ranks) - 30 - 4

\* No pin changes sides: it stays left of, right of or on every rank its author
\* put it left of, right of or on, the first and last ranks included, and no two
\* pins of the document change their order.  The ranks are those of the plan it
\* was mapped with, which is not always the plan the document is laid out on in
\* the end (mapExplicitCoordinates over createHorizontalRankMapper).
PinsKeepTheirPlace ==
  source.version = 1 /\ (stage \in {"mapped", "enlarged"} \/ verdict = "accepted") =>
    /\ DOMAIN doc.edges = DOMAIN source.edges
    /\ \A i \in DOMAIN source.edges : \A k \in DOMAIN Pins(source.edges[i]) :
         LET old == Pins(source.edges[i])[k]
             new == Pins(doc.edges[i])[k]
         IN  /\ \A c \in Columns : /\ old <= LegacyColumns[c] => new <= planned[c]
                                  /\ old >= LegacyColumns[c] => new >= planned[c]
             /\ \A j \in DOMAIN source.edges : \A l \in DOMAIN Pins(source.edges[j]) :
                  old <= Pins(source.edges[j])[l] => new <= Pins(doc.edges[j])[l]

\* Every round of a compile gains a gap it did not have and keeps those of the
\* earlier rounds, so a compile that gives up has used all its rounds on
\* different gaps (compileWorkflowWithFeedback merges each request into the
\* feedback it keeps; the solver honours all of them at once).
EveryRoundGains ==
  /\ [](stage \in Compiling /\ Asking => Grows(FirstStuck))
  /\ [][round' = round + 1 =>
         /\ \A k \in feedback.ranks : ranks'[k.to] - ranks'[k.from] >= k.least
         /\ \/ LaneGap(feedback) < LaneGap(feedback')
            \/ \E k \in feedback'.ranks :
                 /\ ranks[k.to] - ranks[k.from] < k.least
                 /\ ranks'[k.to] - ranks'[k.from] >= k.least]_vars

\* The output, given to the command again, is accepted and left as it is: what
\* the feedback taught the first run is learnt again (migrateWorkflowDocument of
\* a schema-v2 document).
RepeatChangesNothing ==
  source.version = 2 /\ stage = "done" => verdict = "accepted" /\ doc = source

\* "Obtain the same rank plan from an automatic-route projection": a document
\* that keeps its own semantic contract is never turned away for breaking it.
ProjectionKeepsContract ==
  ContractHolds(source) /\ stage \in Compiling => ContractHolds(doc)

\* The plan the pins are mapped to is the plan the accepted document is laid out on.
MappedToFinalRanks ==
  verdict = "accepted" /\ source.version = 1 => planned = ranks
=============================================================================
