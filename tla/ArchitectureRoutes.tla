------------------------- MODULE ArchitectureRoutes -------------------------
(***************************************************************************)
(* How the architecture renderer routes connections, frames boundaries and *)
(* accepts or refuses a document,                                          *)
(* .agents/skills/archify/renderers/architecture/render-architecture.mjs.  *)
(*                                                                         *)
(* A document d has                                                        *)
(*   components   a rectangle for each component id (a number: ids are     *)
(*                only compared)                                           *)
(*   connections  a sequence of records with from, to, id, label (0 when   *)
(*                absent), fromSide and toSide ("auto" when absent),       *)
(*                route, via and labelAt (<<>> when absent)                *)
(*   boundaries   a sequence of records with wraps, pad, kind, and the     *)
(*                width of the title in its preferred and least font       *)
(*   size         the authored viewBox                                     *)
(*   profile      "none", "standard" or "showcase"; nested tells the       *)
(*                deployment-ownership engineering profile                 *)
(* All lengths are quarter pixels.  Views are at most 930 px wide, where   *)
(* the least font of a title is constant; texts in components are left     *)
(* out.                                                                    *)
(***************************************************************************)
EXTENDS RouteGeometry, FiniteSetsExt

\* routeClearsComponents
ClearsComponents(d, c, points) ==
  \A k \in DOMAIN d.components \ {c.from, c.to} :
    \A s \in Range(Segments(points)) : ~MeetsRect(s, d.components[k], 2 * Px)

\* routeClearsEndpointComponents: only the first leg touches from, the last to
ClearsEnds(points, from, to) ==
  \A i \in 1..(Len(points) - 1) :
    /\ i > 1 => ~MeetsRect(Segment(points, i), from, 0)
    /\ i < Len(points) - 1 => ~MeetsRect(Segment(points, i), to, 0)

\* collinearBacktrack
Backtracks(a, b, c) ==
  /\ (b[1] - a[1]) * (c[2] - b[2]) = (b[2] - a[2]) * (c[1] - b[1])
  /\ (b[1] - a[1]) * (c[1] - b[1]) + (b[2] - a[2]) * (c[2] - b[2]) < 0

\* sideAwareBridgeCandidates, as whole routes, and the ones it keeps
Bridges(start, end, fromSide, toSide) ==
  LET a == Stub(start, fromSide, 24 * Px)
      b == Stub(end, toSide, 24 * Px)
      raw == Channels(start, end, fromSide, toSide)
               \o <<<<start, a, <<b[1], a[2]>>, b, end>>, <<start, a, <<a[1], b[2]>>, b, end>>>>
  IN [i \in DOMAIN raw |-> Normalized(raw[i])]
IsBridge(r, fromSide, toSide) ==
  /\ Len(r) >= 2
  /\ ~Backtracks(r[1], r[2], r[Least(3, Len(r))])
  /\ ~Backtracks(r[Most(1, Len(r) - 2)], r[Len(r) - 1], r[Len(r)])
  /\ HonorsSides(r, fromSide, toSide)

\* portHasCornerClearance
ClearsCorner(r, side, p) ==
  LET inset(extent) == Least(16 * Px, extent \div 2) IN
  IF Upright(side)
  THEN r.y + inset(r.h) <= p[2] /\ p[2] <= r.y + r.h - inset(r.h)
  ELSE r.x + inset(r.w) <= p[1] /\ p[1] <= r.x + r.w - inset(r.w)

Facing == {<<"right", "left">>, <<"left", "right">>, <<"bottom", "top">>, <<"top", "bottom">>}

\* Mutant of MayAlign: an end that shares its side may move as well.
AlignsShared(fromShared, toShared) == {"to", "from"}

\* Which end may move: never one that shares its side with another end.
MayAlign(fromShared, toShared) ==
  (IF toShared THEN {} ELSE {"to"}) \cup (IF fromShared THEN {} ELSE {"from"})

\* alignFacingPorts: where a connection starts and ends
Aligned(d, c, start, end, fromSide, toSide, fromShared, toShared) ==
  LET k == IF Upright(fromSide) THEN 2 ELSE 1
      moved(p, q) == [p EXCEPT ![k] = q[k]]
      to == <<start, moved(end, start)>>
      from == <<moved(start, end), end>>
      explicit == c.fromSide # "auto" \/ c.toSide # "auto"
      may == MayAlign(fromShared, toShared)
      fits(s) ==
        /\ ClearsCorner(d.components[c.from], fromSide, s[1])
        /\ ClearsCorner(d.components[c.to], toSide, s[2])
        /\ HonorsSides(s, fromSide, toSide)
        /\ ClearsEnds(s, d.components[c.from], d.components[c.to])
        /\ ClearsComponents(d, c, s)
  IN IF \/ ~Automatic(c) \/ <<fromSide, toSide>> \notin Facing
        \/ ~fromShared /\ ~toShared /\ explicit
        \/ Abs(start[k] - end[k]) >= 16 * Px
     THEN <<start, end>>
     ELSE IF "to" \in may /\ fits(to) THEN to
     ELSE IF "from" \in may /\ fits(from) THEN from
     ELSE <<start, end>>

\* The channels routeVia tries beside ends on parallel sides
Outside(start, end, k) ==
  LET by(channel) ==
        IF k = 1 THEN <<start, <<channel, start[2]>>, <<channel, end[2]>>, end>>
        ELSE <<start, <<start[1], channel>>, <<end[1], channel>>, end>>
  IN <<by(Most(start[k], end[k]) + 16 * Px), by(Least(start[k], end[k]) - 16 * Px)>>

\* The two routes with one dogleg in the middle
ByMidX(start, end) ==
  LET x == (start[1] + end[1]) \div 2 IN <<start, <<x, start[2]>>, <<x, end[2]>>, end>>
ByMidY(start, end) ==
  LET y == (start[2] + end[2]) \div 2 IN <<start, <<start[1], y>>, <<end[1], y>>, end>>

\* The first of some routes that will do, or else what is tried next
FirstOf(routes, good, next) ==
  LET fit == {i \in DOMAIN routes : routes[i] \in good}
  IN IF fit = {} THEN next ELSE routes[Min(fit)]

\* The route of an automatic connection
AutomaticRoute(d, c, start, end, fromSide, toSide) ==
  LET from == d.components[c.from]
      to == d.components[c.to]
      dx == Abs(start[1] - end[1])
      dy == Abs(start[2] - end[2])
      honest(r) == HonorsSides(r, fromSide, toSide)
      clear(routes) == {r \in routes : ClearsEnds(r, from, to) /\ ClearsComponents(d, c, r)}
      onEdge(p, r, k) == IF k = 1 THEN p[2] \in {r.y, r.y + r.h} ELSE p[1] \in {r.x, r.x + r.w}
      beside(k) == {r \in Range(Outside(start, end, k)) :
        /\ onEdge(start, from, k) /\ onEdge(end, to, k) /\ Abs(start[k] - end[k]) < 16 * Px
        /\ honest(r) /\ ClearsComponents(d, c, r)}
      near == /\ Upright(fromSide) = Upright(toSide)
              /\ (IF Upright(fromSide) THEN dy ELSE dx) < 16 * Px
      rhythmic == RhythmBridges(start, end, fromSide, toSide)
      bridges == Bridges(start, end, fromSide, toSide)
      doglegs == <<ByMidX(start, end), ByMidY(start, end)>>
      keep == {r \in Range(rhythmic) : KeepsRhythm(r, fromSide, toSide)}
      aware == {r \in Range(bridges) : IsBridge(r, fromSide, toSide)}
      safe == {r \in Range(doglegs) : honest(r)}
      blocked == FirstOf(doglegs, safe, FirstOf(bridges, aware, ByMidX(start, end)))
      unsafe == FirstOf(doglegs, clear(Range(doglegs) \ safe), blocked)
      ordered ==
        IF near THEN FirstOf(bridges, clear(aware), FirstOf(doglegs, clear(safe), unsafe))
        ELSE FirstOf(doglegs, clear(safe), FirstOf(bridges, clear(aware), unsafe))
      outside == FirstOf(Outside(start, end, 1), beside(1),
                         FirstOf(Outside(start, end, 2), beside(2), ordered))
  IN IF (dx < 4 * Px \/ dy < 4 * Px) /\ honest(<<start, end>>) THEN <<start, end>>
     ELSE FirstOf(rhythmic, clear(keep), outside)

\* routeVia, as a whole route
RouteVia(d, c, start, end, fromSide, toSide) ==
  IF c.via # <<>> THEN <<start>> \o c.via \o <<end>>
  ELSE CASE c.route = "straight" -> <<start, end>>
         [] c.route = "orthogonal-h" -> ByMidX(start, end)
         [] c.route = "orthogonal-v" -> ByMidY(start, end)
         [] OTHER -> AutomaticRoute(d, c, start, end, fromSide, toSide)

\* Where an end arrives, given its port if it has one
PortOr(box, side, port) == IF port = {} THEN Anchor(box, side) ELSE CHOOSE p \in port : TRUE

RouteBetween(d, c, ends, fromSide, toSide) == RouteVia(d, c, ends[1], ends[2], fromSide, toSide)

\* The route between two ends, given their ports
RouteFrom(d, c, fromSide, toSide, fromPort, toPort) ==
  RouteBetween(d, c,
    Aligned(d, c, PortOr(d.components[c.from], fromSide, fromPort),
            PortOr(d.components[c.to], toSide, toPort), fromSide, toSide,
            fromPort # {}, toPort # {}),
    fromSide, toSide)

\* pathFor: the points of connection i
PathFor(d, i) ==
  LET side(e) == End(d.connections, d.components, i, e).side
      port(e) == SpreadPort(d.connections, d.components, <<i, e>>)
  IN RouteFrom(d, d.connections[i], side("from"), side("to"), port("from"), port("to"))

-----------------------------------------------------------------------------
\* Boundaries

Contains(r, q) ==
  /\ r.x <= q.x /\ r.y <= q.y
  /\ r.x + r.w >= q.x + q.w /\ r.y + r.h >= q.y + q.h

\* boundaryRect
BoundaryRect(d, b) ==
  LET members == {d.components[k] : k \in b.wraps}
      left == Min({m.x : m \in members})
      top == Min({m.y : m \in members})
      right == Max({m.x + m.w : m \in members})
      bottom == Max({m.y + m.h : m \in members})
      above == Most(b.pad, 22 * Px)
  IN Rect(left - b.pad, top - above, right - left + 2 * b.pad, bottom - top + above + 20 * Px)

\* expandBoundaryForReadableTitle: a quality profile widens a frame to its title
Widened(d, b) ==
  LET r == BoundaryRect(d, b)
      extra == IF d.profile = "none" THEN 0 ELSE Most(0, b.least + 8 * Px - r.w)
  IN [r EXCEPT !.x = @ - extra \div 2, !.w = @ + extra]

\* measureBoundaryTitle
FirstTitle(d, b) ==
  LET r == Widened(d, b)
      top == Min({d.components[k].y : k \in b.wraps})
  IN Rect(r.x + 4 * Px, top - 20 * Px, Least(Most(0, r.w - 8 * Px), b.title), 16 * Px)

\* A title moves over all the boxes in its way.
Raised(title, blockers) ==
  [title EXCEPT !.y = Min({b.y : b \in blockers}) - 2 * Px - title.h]

\* The inner loop of layoutBoundaryTitles: at most tries times over the
\* components and the titles placed before
Settled(title, boxes, tries) ==
  LET at[n \in 0..tries] ==
        IF n = 0 THEN title
        ELSE LET here == at[n - 1]
                 blockers == {b \in boxes : RectsOverlap(here, b, 0)}
             IN IF blockers = {} THEN here ELSE Raised(here, blockers)
  IN at[tries]

\* Mutant of Tries: a title is raised once.
OneTry(d) == 1

Tries(d) == Len(d.boundaries) + Cardinality(DOMAIN d.components) + 1

\* layoutBoundaryTitles: smaller frames first
Titles(d) ==
  LET n == Len(d.boundaries)
      area(i) == LET r == BoundaryRect(d, d.boundaries[i]) IN r.w * r.h
      first(i, j) == area(i) < area(j) \/ (area(i) = area(j) /\ i < j)
      rank(i) == Cardinality({j \in 1..n : first(j, i)}) + 1
      at(m) == CHOOSE i \in 1..n : rank(i) = m
      placed[m \in 0..n] ==
        IF m = 0 THEN <<>>
        ELSE LET before == placed[m - 1]
                 boxes == Range(before) \cup Range(d.components)
             IN Append(before, Settled(FirstTitle(d, d.boundaries[at(m)]), boxes, Tries(d)))
  IN [i \in 1..n |-> placed[n][rank(i)]]

\* A frame grows with its title only under a quality profile.
Frames(d, titles) ==
  [i \in DOMAIN d.boundaries |->
     LET b == d.boundaries[i]
         r == Widened(d, b)
         top == IF d.profile = "none" THEN r.y ELSE Least(r.y, titles[i].y - 4 * Px)
         radius == (IF b.kind = "security-group" THEN 8 ELSE 12) * Px
     IN [x |-> r.x, y |-> top, w |-> r.w, h |-> r.y + r.h - top, radius |-> radius]]

-----------------------------------------------------------------------------
\* validateArchitecture

\* Components inside the view, 8 px apart
PlacementProblems(d) ==
  LET view == Rect(0, 0, d.size[1], d.size[2]) IN
  {<<"outside", k>> : k \in {c \in DOMAIN d.components : ~Contains(view, d.components[c])}}
  \cup {<<"close", k>> : k \in {c \in DOMAIN d.components :
         \E m \in DOMAIN d.components \ {c} : RectsOverlap(d.components[c], d.components[m], 8 * Px)}}

\* Titles inside their frame and the view, clear of components and each other
TitleProblems(d, frames, titles) ==
  LET view == Rect(0, 0, d.size[1], d.size[2]) IN
  IF d.profile = "none" THEN {}
  ELSE {<<"title", i>> : i \in {i \in DOMAIN titles :
          \/ ~Contains(frames[i], titles[i]) \/ ~Contains(view, titles[i])
          \/ \E k \in DOMAIN d.components : RectsOverlap(titles[i], d.components[k], 0)
          \/ \E j \in DOMAIN titles \ {i} : RectsOverlap(titles[i], titles[j], 0)}}

\* Under the deployment profile frames nest as their memberships do.
NestingProblems(d, frames) ==
  LET wraps(i) == d.boundaries[i].wraps
      crossed(i, j) ==
        \/ wraps(i) \cap wraps(j) # {} /\ ~(wraps(i) \subseteq wraps(j)) /\ ~(wraps(j) \subseteq wraps(i))
        \/ /\ RectsOverlap(frames[i], frames[j], 0)
           /\ \/ wraps(i) \cap wraps(j) = {}
              \/ ~(\/ wraps(i) \subseteq wraps(j) /\ Contains(frames[j], frames[i])
                   \/ wraps(j) \subseteq wraps(i) /\ Contains(frames[i], frames[j]))
  IN {<<"nesting", i>> : i \in {i \in DOMAIN frames :
        d.nested /\ \E j \in DOMAIN frames : i < j /\ crossed(i, j)}}

FrameProblems(d, frames) ==
  {<<"frame", i>> : i \in {i \in DOMAIN frames :
     ~Contains(Rect(0, 0, d.size[1], d.size[2]), frames[i])}}

\* Connections of at least 24 px between their ends
ShortProblems(relations) ==
  {<<"short", i>> : i \in {i \in DOMAIN relations :
     LET p == relations[i].points IN
     Square(p[1][1] - p[Len(p)][1]) + Square(p[1][2] - p[Len(p)][2]) < Square(24 * Px)}}

\* Labels off the components and, under a quality profile, off the titles
LabelBoxProblems(d, relations, titles) ==
  {<<"label", i>> : i \in {i \in DOMAIN relations : \E m \in relations[i].mask :
     \/ \E k \in DOMAIN d.components : RectsOverlap(m, d.components[k], -2 * Px)
     \/ d.profile # "none" /\ \E j \in DOMAIN titles : RectsOverlap(titles[j], m, 0)}}

\* The mask behind a label
Mask(c, points) ==
  LET at == LabelPoint(c, points)
      w == Most(30 * Px, c.label)
  IN IF c.label = 0 THEN {} ELSE {Rect(at[1] - w \div 2, at[2] - 10 * Px, w, 14 * Px)}

\* The connections as the gates see them.  An authored side always counts, an
\* inferred one only without an authored route.
Relations(d, paths) ==
  [i \in DOMAIN d.connections |->
     LET c == d.connections[i]
         side(e, authored) ==
           IF authored # "auto" THEN authored
           ELSE IF c.route # "auto" \/ c.via # <<>> THEN ""
           ELSE End(d.connections, d.components, i, e).side
     IN [from |-> c.from, to |-> c.to, key |-> i, points |-> paths[i], mask |-> Mask(c, paths[i]),
         fromSide |-> side("from", c.fromSide), toSide |-> side("to", c.toSide)]]

\* Mutant of RouteProblems: the gates for crossings and corridors are not asked.
RouteProblemsWithoutPairs(d, relations, frames) ==
  {<<"side", i>> : i \in SideProblems(relations)}
  \cup {<<"flow", p[1]>> : p \in FlowProblems(relations, d.components)}
  \cup {<<"border", p[1]>> : p \in BorderProblems(relations, frames, d.profile)}
  \cup {<<"rhythm", i>> : i \in RhythmProblems(relations, d.profile)}
  \cup {<<"clearance", p[1]>> : p \in LabelProblems(relations, d.profile)}

RouteProblems(d, relations, frames) ==
  {<<"side", i>> : i \in SideProblems(relations)}
  \cup {<<"flow", p[1]>> : p \in FlowProblems(relations, d.components)}
  \cup {<<"crossing", p[1]>> : p \in CrossingProblems(relations, d.profile)}
  \cup {<<"corridor", p[1]>> : p \in CorridorProblems(relations, d.profile)}
  \cup {<<"border", p[1]>> : p \in BorderProblems(relations, frames, d.profile)}
  \cup {<<"rhythm", i>> : i \in RhythmProblems(relations, d.profile)}
  \cup {<<"clearance", p[1]>> : p \in LabelProblems(relations, d.profile)}

\* Everything validateArchitecture reports
Problems(d, relations, frames, titles) ==
  PlacementProblems(d) \cup TitleProblems(d, frames, titles) \cup NestingProblems(d, frames)
  \cup FrameProblems(d, frames) \cup ShortProblems(relations)
  \cup RouteProblems(d, relations, frames) \cup LabelBoxProblems(d, relations, titles)
=============================================================================
