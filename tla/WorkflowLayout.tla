--------------------------- MODULE WorkflowLayout ---------------------------
(***************************************************************************)
(* The rank plan of a schema-v2 workflow diagram: createReadableLayout of  *)
(* .agents/skills/archify/renderers/workflow/workflow-compiler.mjs, the    *)
(* semantic contract that is checked before it, and the mapping of a       *)
(* schema-v1 document's pins onto it (workflow-migration-geometry.mjs).    *)
(* Lengths are whole pixels; a text is known by its measured width, 0 for  *)
(* none; an optional number is a sequence of at most one.                  *)
(***************************************************************************)
EXTENDS Integers, FiniteSets, FiniteSetsExt, Functions, SequencesExt

\* The columns 0..5 of the source, counted from 1.
Columns == 1..6

LegacyColumns == <<88, 220, 300, 430, 500, 625>>

Pitch == 120
FirstColumn == 94
DirectClearance == 28
ChannelBudget == 4 * 28

Distance(a, b) == IF a < b THEN b - a ELSE a - b
Half(n) == n.width \div 2

Pinned(e) == e.via # <<>> \/ e.channelX # <<>> \/ e.channelY

\* The pinned x of a relationship, in the order mapExplicitCoordinates visits them.
Pins(e) == e.via \o e.labelAt \o e.channelX

\* verticalIntervalsOverlap
Overlap(m, n, clearance) ==
  2 * Distance(m.y, n.y) < m.height + n.height + 2 * clearance

From(d, e) == d.nodes[e.from]
To(d, e) == d.nodes[e.to]
Earlier(d, e) == IF From(d, e).col < To(d, e).col THEN From(d, e) ELSE To(d, e)
Later(d, e) == IF From(d, e).col < To(d, e).col THEN To(d, e) ELSE From(d, e)

EdgesOf(d) == {d.edges[i] : i \in DOMAIN d.edges}
NodesOf(d) == {d.nodes[i] : i \in DOMAIN d.nodes}

\* A relationship that is drawn as a line straight across the gap of its ranks.
Direct(d, e) ==
  /\ From(d, e).lane = To(d, e).lane
  /\ From(d, e).col # To(d, e).col
  /\ ~Pinned(e)
  /\ e.route \in {"auto", "straight"}
  /\ From(d, e).y = To(d, e).y

LabelClearance(e) ==
  IF e.label > 0 /\ e.labelAt = <<>> THEN Max({DirectClearance, e.label + 8}) ELSE DirectClearance

\* A label too long for the gap goes into a channel of its own.
PrefersChannel(e) ==
  /\ e.label > 0 /\ e.labelAt = <<>> /\ e.route = "auto"
  /\ e.fromSide = "auto" /\ e.toSide = "auto"
  /\ LabelClearance(e) - DirectClearance > ChannelBudget

Sides == {"auto", "left", "right", "top", "bottom"}

Routes ==
  {"auto", "straight", "drop", "outside-right", "return-left", "bottom-channel", "up-channel"}

\* A document of the schema, nodes and edges known by their places.
IsDocument(d) ==
  LET nodes == [lane : DOMAIN d.lanes, col : Columns, width : Nat, height : Nat, y : Int]
      edges == [from : DOMAIN d.nodes, to : DOMAIN d.nodes, route : Routes, label : Nat,
                fromSide : Sides, toSide : Sides, via : Seq(Int), channelX : Seq(Int),
                labelAt : Seq(Int), channelY : BOOLEAN]
      IsSpan(s) == {s.first, s.last} \subseteq Columns /\ s.first <= s.last /\ s.label \in Nat
  IN  /\ DOMAIN d = {"version", "lanes", "nodes", "edges", "phases", "groups", "box", "checks"}
      /\ \A l \in DOMAIN d.lanes : d.lanes[l] \in Nat
      /\ NodesOf(d) \subseteq nodes /\ IsFiniteSet(DOMAIN d.nodes)
      /\ EdgesOf(d) \subseteq edges /\ IsFiniteSet(DOMAIN d.edges)
      /\ DOMAIN d.lanes \cup DOMAIN d.edges \subseteq Nat /\ IsFiniteSet(DOMAIN d.lanes)
      /\ \A p \in d.phases : IsSpan(p)
      /\ \A g \in d.groups : IsSpan(g) /\ g.lane \in DOMAIN d.lanes
      /\ IsFiniteSet(d.phases) /\ IsFiniteSet(d.groups)

Apart(from, to, least) == [from |-> from, to |-> to, least |-> least]

Baseline == {Apart(c, c + 1, Pitch) : c \in 1..5}

NodesApart(d) ==
  {Apart(p[1].col, p[2].col, Half(p[1]) + 8 + Half(p[2])) :
     p \in {q \in NodesOf(d) \X NodesOf(d) :
             q[1].lane = q[2].lane /\ q[1].col < q[2].col /\ Overlap(q[1], q[2], 8)}}

\* The two ranks of a relationship, with room for the given gap between its nodes.
EdgeApart(d, e, gap) ==
  Apart(Earlier(d, e).col, Later(d, e).col, Half(Earlier(d, e)) + gap + Half(Later(d, e)))

DirectApart(d) ==
  {EdgeApart(d, e, DirectClearance) : e \in {f \in EdgesOf(d) : Direct(d, f)}}

LabelsApart(d) ==
  {EdgeApart(d, e, LabelClearance(e)) :
     e \in {f \in EdgesOf(d) : Direct(d, f) /\ ~PrefersChannel(f)}}

\* The span of a phase (92 wide, label + 8) or a group (100 wide, label + 20).
SpanApart(s, natural, padding) ==
  IF s.first # s.last THEN {Apart(s.first, s.last, Max({0, s.label + padding - natural}))}
  ELSE IF s.last < 6
  THEN {Apart(s.last, s.last + 1, Pitch + Max({0, s.label + padding - natural}))}
  ELSE {}

Constraints(d, feedback) ==
  Baseline \cup feedback.ranks \cup NodesApart(d)
    \cup DirectApart(d) \cup LabelsApart(d)
    \cup (UNION {SpanApart(p, 92, 8) : p \in d.phases})
    \cup (UNION {SpanApart(g, 100, 20) : g \in d.groups})

\* Mutant of Solved: a constraint is measured from where its first column began.
SolvedFromBaseline(constraints) ==
  [c \in Columns |-> Max({FirstColumn + (c - 1) * Pitch} \cup
     {FirstColumn + (k.from - 1) * Pitch + k.least : k \in {q \in constraints : q.to = c}})]

\* The first pass of the solver has no label constraints and is overwritten by
\* the second.
Solved(constraints) ==
  LET Place(left) ==
        Append(left,
               Max({FirstColumn + Len(left) * Pitch} \cup
                   {left[k.from] + k.least : k \in {q \in constraints : q.to = Len(left) + 1}}))
  IN  Place(Place(Place(Place(Place(<<FirstColumn>>)))))

GroupSpan(d, g, ranks) ==
  LET start == ranks[g.first] - 50
      end == ranks[g.last] + 50
      width == Max({end - start, g.label + 20})
      left == IF g.first = g.last /\ width > end - start
              THEN start ELSE (start + end - width) \div 2
      inside == {n \in NodesOf(d) : n.lane = g.lane /\ n.col \in g.first..g.last}
  IN  [left |-> Min({left} \cup {ranks[n.col] - Half(n) - 4 : n \in inside}),
       right |-> Max({left + width} \cup {ranks[n.col] + Half(n) + 4 : n \in inside})]

PhaseSpan(p, ranks) ==
  LET width == Max({ranks[p.last] - ranks[p.first] + 92, p.label + 8})
      left == IF p.first = p.last THEN ranks[p.first] - 46
              ELSE (ranks[p.first] + ranks[p.last] - width) \div 2
  IN  [left |-> left, right |-> left + width]

Shifted(ranks, by) ==
  LET shift == Max({0, by})
  IN  <<ranks[1] + shift, ranks[2] + shift, ranks[3] + shift,
        ranks[4] + shift, ranks[5] + shift, ranks[6] + shift>>

FirstRankShift(d, ranks) ==
  48 + Max({46} \cup {Half(n) : n \in {m \in NodesOf(d) : m.col = 1}}) - ranks[1]

\* A relationship that leaves a node at its top must clear the lane's title.
TopEndpoints(d) ==
  LET free == {e \in EdgesOf(d) : e.via = <<>> /\ e.channelX = <<>>}
  IN  {From(d, e) : e \in {f \in free : f.fromSide = "top"}} \cup
      {To(d, e) : e \in {f \in free : f.toSide = "top"}}

LaneHeaderShift(d, ranks) ==
  Max({0} \cup {54 + d.lanes[n.lane] + 2 - ranks[n.col] : n \in TopEndpoints(d)})

ContentShift(d, ranks) ==
  Max({0} \cup
      {16 - ((ranks[From(d, e).col] + ranks[To(d, e).col]) \div 2 - e.label \div 2) :
         e \in {f \in EdgesOf(d) : Direct(d, f) /\ PrefersChannel(f)}} \cup
      {16 - PhaseSpan(p, ranks).left : p \in d.phases} \cup
      {44 - GroupSpan(d, g, ranks).left : g \in d.groups})

Ranks(d, feedback) ==
  LET solved == Solved(Constraints(d, feedback))
      first == Shifted(solved, FirstRankShift(d, solved))
      header == Shifted(first, LaneHeaderShift(d, first))
  IN  Shifted(header, ContentShift(d, header))

LaneWidth(d, ranks) ==
  LET rightmost == Max({ranks[6] + 50}
                       \cup {ranks[n.col] + Half(n) : n \in NodesOf(d)}
                       \cup {GroupSpan(d, g, ranks).right : g \in d.groups})
  IN  Max({640, rightmost - 40 + 8} \cup {d.lanes[l] + 30 : l \in DOMAIN d.lanes})

ContentHeight(d) ==
  Max({74} \cup {n.height + 2 * Distance(n.y, 0) + 8 : n \in NodesOf(d)})

\* Where a node begins below its lane's title, before the lane makes room.
TopOffset(d, n) == (ContentHeight(d) - n.height) \div 2 + n.y

InGroups(d, lane) ==
  {p \in d.groups \X NodesOf(d) :
     p[1].lane = lane /\ p[2].lane = lane /\ p[2].col \in p[1].first..p[1].last}

UnderLabel(d, g, n, ranks) ==
  LET left == GroupSpan(d, g, ranks).left + 10
  IN  ranks[n.col] + Half(n) > left /\ ranks[n.col] - Half(n) < left + g.label

Header(d, lane, ranks) ==
  Max({0} \cup {(IF UnderLabel(d, p[1], p[2], ranks) THEN 11 ELSE 9) - TopOffset(d, p[2]) :
                  p \in InGroups(d, lane)})

Footer(d, lane) ==
  Max({0} \cup {1 - (ContentHeight(d) - 4 - TopOffset(d, p[2]) - p[2].height) :
                  p \in InGroups(d, lane)})

LaneHeight(d, lane, ranks) == 30 + ContentHeight(d) + Header(d, lane, ranks) + Footer(d, lane)

LaneGap(feedback) == Max({20, feedback.laneGap})

\* requiredViewBox: the lanes, and whatever is drawn right of them.
RequiredBox(d, feedback, ranks) ==
  LET lanesRight == 40 + LaneWidth(d, ranks)
      pins == UNION {Range(e.via) \cup Range(e.channelX) : e \in EdgesOf(d)}
      labels == UNION {{x + e.label \div 2 : x \in Range(e.labelAt)} : e \in EdgesOf(d)}
      right == Max({lanesRight} \cup pins \cup labels
                   \cup {PhaseSpan(p, ranks).right : p \in d.phases})
      heights == [l \in DOMAIN d.lanes |-> LaneHeight(d, l, ranks)]
  IN  [width |-> right + 16,
       height |-> 52 + FoldFunction(LAMBDA a, b : a + b, 0, heights)
                     + (Cardinality(DOMAIN d.lanes) - 1) * LaneGap(feedback) + 124]

-----------------------------------------------------------------------------
(* The semantic contract a document may carry. *)

\* The nodes that a walk along the edges can come to.
Reached(d, start) ==
  LET within[steps \in Nat] ==
        IF steps = 0 THEN {start}
        ELSE LET seen == within[steps - 1]
             IN  seen \cup {e.to : e \in {f \in EdgesOf(d) : f.from \in seen}}
  IN  within[Cardinality(DOMAIN d.nodes)]

\* semanticContractDiagnostics finds nothing.
ContractHolds(d) ==
  LET related == d.checks.edges \cup d.checks.paths
      named == UNION (d.checks.roots \cup d.checks.terminals \cup {{r[1], r[2]} : r \in related})
      linked == {<<e.from, e.to>> : e \in EdgesOf(d)}
  IN  /\ named \subseteq DOMAIN d.nodes
      /\ \A allowed \in d.checks.roots :
           DOMAIN d.nodes \ {p[2] : p \in linked} \subseteq allowed
      /\ \A allowed \in d.checks.terminals :
           DOMAIN d.nodes \ {p[1] : p \in linked} \subseteq allowed
      /\ d.checks.edges \subseteq linked
      /\ \A r \in d.checks.paths : r[2] \in Reached(d, r[1])

-----------------------------------------------------------------------------
(* From schema v1 to schema v2. *)

NoBox == [width |-> 0, height |-> 0]

Intrinsic(d) == [d EXCEPT !.version = 2, !.box = NoBox]

RoutedByHand(e) == Pinned(e) \/ e.route \notin {"auto", "straight"}

\* What is left of a relationship whose pins are of no account.
Automatic(e) ==
  [e EXCEPT !.fromSide = "auto", !.toSide = "auto", !.labelAt = <<>>,
            !.label = IF e.labelAt = <<>> THEN @ ELSE 0]

Planning(d) ==
  LET kept == {i \in DOMAIN d.edges : ~RoutedByHand(d.edges[i])}
  IN  [Intrinsic(d) EXCEPT !.edges = [i \in kept |-> Automatic(d.edges[i])]]

\* The first pair of ranks that ends right of x, or the last pair.
Segment(x, old) == Min({5} \cup {c \in 1..5 : x <= old[c + 1]})

\* Mutant of MapX: every pin is mapped by the first pair of ranks.
MapByFirst(x, old, new) ==
  new[1] + ((x - old[1]) * (new[2] - new[1])) \div (old[2] - old[1])

MapX(x, old, new) ==
  LET s == Segment(x, old)
  IN  new[s] + ((x - old[s]) * (new[s + 1] - new[s])) \div (old[s + 1] - old[s])

\* Rounded down to whole pixels, where mappedNumber keeps six decimals.
MapAll(pins, old, new) == [k \in DOMAIN pins |-> MapX(pins[k], old, new)]

MappedEdge(e, old, new) ==
  [e EXCEPT !.via = MapAll(@, old, new),
            !.labelAt = MapAll(@, old, new),
            !.channelX = MapAll(@, old, new)]

MappedCandidate(d, old, new) ==
  [d EXCEPT !.version = 2,
            !.edges = [i \in DOMAIN d.edges |-> MappedEdge(d.edges[i], old, new)]]
=============================================================================
