---------------------------- MODULE RouteGeometry ----------------------------
(***************************************************************************)
(* The geometry every diagram renderer shares,                             *)
(* .agents/skills/archify/renderers/shared/geometry.mjs.  A point is a     *)
(* pair of quarter pixels, so the epsilons of the code vanish; a route is  *)
(* the sequence of its points; a rectangle has a corner and a size.        *)
(* Problems are named by their code and the items they are about; their    *)
(* wording and repair hints are left out.                                  *)
(***************************************************************************)
EXTENDS Integers, Sequences, FiniteSets, Functions

Px == 4

Abs(n) == IF n < 0 THEN -n ELSE n
Least(a, b) == IF a < b THEN a ELSE b
Most(a, b) == IF a < b THEN b ELSE a

Segment(route, i) == <<route[i], route[i + 1]>>
Segments(route) == [i \in 1..(Len(route) - 1) |-> Segment(route, i)]

-----------------------------------------------------------------------------
\* Points, segments and rectangles

Cross(a, b, c) == (b[1] - a[1]) * (c[2] - a[2]) - (b[2] - a[2]) * (c[1] - a[1])

Opposite(m, n) == (m > 0 /\ n < 0) \/ (m < 0 /\ n > 0)

\* properSegmentIntersection: the insides of the two segments cross in a point.
ProperlyCross(s, t) ==
  /\ Opposite(Cross(s[1], s[2], t[1]), Cross(s[1], s[2], t[2]))
  /\ Opposite(Cross(t[1], t[2], s[1]), Cross(t[1], t[2], s[2]))

\* orientation
Turn(a, b, c) ==
  LET value == (b[2] - a[2]) * (c[1] - b[1]) - (b[1] - a[1]) * (c[2] - b[2])
  IN IF value = 0 THEN 0 ELSE IF value > 0 THEN 1 ELSE 2

Between(a, b, c) == Least(a, c) <= b /\ b <= Most(a, c)
OnSegment(a, b, c) == Between(a[1], b[1], c[1]) /\ Between(a[2], b[2], c[2])

\* segmentsIntersect: they share a point.
SegmentsMeet(s, t) ==
  LET a == s[1]  b == s[2]  c == t[1]  d == t[2] IN
  \/ Turn(a, b, c) = 0 /\ OnSegment(a, c, b)
  \/ Turn(a, b, d) = 0 /\ OnSegment(a, d, b)
  \/ Turn(c, d, a) = 0 /\ OnSegment(c, a, d)
  \/ Turn(c, d, b) = 0 /\ OnSegment(c, b, d)
  \/ Turn(a, b, c) # Turn(a, b, d) /\ Turn(c, d, a) # Turn(c, d, b)

Rect(x, y, w, h) == [x |-> x, y |-> y, w |-> w, h |-> h]

RectsOverlap(r, q, gap) ==
  ~ \/ r.x + r.w + gap <= q.x
    \/ q.x + q.w + gap <= r.x
    \/ r.y + r.h + gap <= q.y
    \/ q.y + q.h + gap <= r.y

Inside(p, r, gap) ==
  /\ r.x - gap <= p[1] /\ p[1] <= r.x + r.w + gap
  /\ r.y - gap <= p[2] /\ p[2] <= r.y + r.h + gap

Outline(r, gap) ==
  LET l == r.x - gap  t == r.y - gap  e == r.x + r.w + gap  b == r.y + r.h + gap IN
  {<<<<l, t>>, <<e, t>>>>, <<<<e, t>>, <<e, b>>>>,
   <<<<e, b>>, <<l, b>>>>, <<<<l, b>>, <<l, t>>>>}

\* segmentIntersectsRect
MeetsRect(s, r, gap) ==
  \/ Inside(s[1], r, gap) \/ Inside(s[2], r, gap)
  \/ \E o \in Outline(r, gap) : SegmentsMeet(s, o)

Square(n) == n * n
Clamp(n, lo, hi) == Most(lo, Least(n, hi))

\* The square of segmentRectClearance, for a segment along an axis.  Of a segment
\* askew, which only an author writes, the bounding box is measured: the clearance
\* comes out no larger than the code's, and as much or more is refused.
Clearance2(s, r) ==
  LET apart(p, lo, hi) == Square(p - Clamp(p, lo, hi))
      toRect(p) == apart(p[1], r.x, r.x + r.w) + apart(p[2], r.y, r.y + r.h)
      toSegment(p) ==
        apart(p[1], Least(s[1][1], s[2][1]), Most(s[1][1], s[2][1]))
        + apart(p[2], Least(s[1][2], s[2][2]), Most(s[1][2], s[2][2]))
      distances == {toRect(s[1]), toRect(s[2])} \cup {toSegment(o[1]) : o \in Outline(r, 0)}
  IN IF MeetsRect(s, r, 0) THEN 0
     ELSE CHOOSE d \in distances : \A e \in distances : d <= e

-----------------------------------------------------------------------------
\* Routes

\* collinearForward
Forward(a, b, c) ==
  /\ Cross(a, b, c) = 0
  /\ (b[1] - a[1]) * (c[1] - b[1]) + (b[2] - a[2]) * (c[2] - b[2]) >= 0

\* The inner loop of normalizeRoutePoints: points p continues past are dropped.
Popped(route, p) ==
  LET keep[n \in 0..Len(route)] ==
        IF n >= 2 /\ Forward(route[n - 1], route[n], p) THEN keep[n - 1] ELSE n
  IN SubSeq(route, 1, keep[Len(route)])

\* normalizeRoutePoints
Normalized(route) ==
  LET deduped[n \in 0..Len(route)] ==
        IF n = 0 THEN <<>>
        ELSE IF n > 1 /\ route[n] = route[n - 1] THEN deduped[n - 1]
        ELSE Append(deduped[n - 1], route[n])
      points == deduped[Len(route)]
      normal[n \in 0..Len(points)] ==
        IF n = 0 THEN <<>> ELSE Append(Popped(normal[n - 1], points[n]), points[n])
  IN normal[Len(points)]

\* authoredAnalysisSegments
AuthoredSegments(route) == Segments(route)

\* segmentsContinueForward
Continues(s, t) ==
  /\ s[2] = t[1] /\ s[1] # s[2] /\ t[1] # t[2]
  /\ Cross(s[1], s[2], t[2]) = 0
  /\ (s[2][1] - s[1][1]) * (t[2][1] - t[1][1]) + (s[2][2] - s[1][2]) * (t[2][2] - t[1][2]) > 0

\* forwardCollinearAnalysisSegments
MergedSegments(route) ==
  LET all == Segments(route)
      merged[n \in 0..Len(all)] ==
        IF n = 0 THEN <<>>
        ELSE LET done == merged[n - 1]
                 last == Len(done)
             IN IF last > 0 /\ Continues(done[last], all[n])
                THEN [done EXCEPT ![last] = <<@[1], all[n][2]>>]
                ELSE Append(done, all[n])
  IN merged[Len(all)]

\* endpointSideIssue: the first segment leaves its side, the last one reaches it.
Outward == [left |-> <<-1, 0>>, right |-> <<1, 0>>, top |-> <<0, -1>>, bottom |-> <<0, 1>>]
Leaves(p, q, out) ==
  /\ (q[1] - p[1]) * out[2] = 0 /\ (q[2] - p[2]) * out[1] = 0
  /\ (q[1] - p[1]) * out[1] + (q[2] - p[2]) * out[2] > 0
HonorsSide(route, endpoint, side) ==
  LET r == Normalized(route) IN
  \/ Len(r) < 2
  \/ endpoint = "source" /\ Leaves(r[1], r[2], Outward[side])
  \/ endpoint = "target" /\ Leaves(r[Len(r)], r[Len(r) - 1], Outward[side])

\* routeHonorsEndpointSides
HonorsSides(route, fromSide, toSide) ==
  HonorsSide(route, "source", fromSide) /\ HonorsSide(route, "target", toSide)

\* collinearAxisOverlap: how far two segments run along each other.
Overlap(s, t) ==
  LET along(k) ==
        LET lo == Most(Least(s[1][k], s[2][k]), Least(t[1][k], t[2][k]))
            hi == Least(Most(s[1][k], s[2][k]), Most(t[1][k], t[2][k]))
        IN Most(0, hi - lo)
      flat(k) == s[1][k] = s[2][k] /\ t[1][k] = t[2][k] /\ s[1][k] = t[1][k]
  IN IF flat(2) THEN along(1) ELSE IF flat(1) THEN along(2) ELSE 0

Length(s) == Abs(s[2][1] - s[1][1]) + Abs(s[2][2] - s[1][2])

-----------------------------------------------------------------------------
\* What the routes of a diagram do to each other

Unrelated(r, q) == {r.from, r.to} \cap {q.from, q.to} = {}

RelationPairs(relations) == {p \in (DOMAIN relations) \X (DOMAIN relations) : p[1] < p[2]}

\* cleanCrossingProblems, given the segments to analyse of each relation
Crossings(relations, segments) ==
  {p \in RelationPairs(relations) :
     /\ Unrelated(relations[p[1]], relations[p[2]])
     /\ \E s \in Range(segments[p[1]]), t \in Range(segments[p[2]]) : ProperlyCross(s, t)}

\* collectAmbiguousCorridors
Corridors(relations) ==
  {p \in RelationPairs(relations) :
     /\ Unrelated(relations[p[1]], relations[p[2]])
     /\ \E s \in Range(Segments(Normalized(relations[p[1]].points))),
           t \in Range(Segments(Normalized(relations[p[2]].points))) :
          Overlap(s, t) >= 8 * Px}

\* frameBorderSegments: the straight part of each side
Borders(frame) ==
  LET r == Most(0, Least(frame.radius, Least(frame.w \div 2, frame.h \div 2)))
      l == frame.x  t == frame.y  e == frame.x + frame.w  b == frame.y + frame.h
  IN IF frame.w <= 0 \/ frame.h <= 0 THEN {}
     ELSE {s \in {<<<<l + r, t>>, <<e - r, t>>>>, <<<<e, t + r>>, <<e, b - r>>>>,
                  <<<<e - r, b>>, <<l + r, b>>>>, <<<<l, b - r>>, <<l, t + r>>>>} :
             s[1] # s[2]}

\* collectBorderRuns: segments of relation i that run along border b of frame f
BorderRuns(segments, frames) ==
  UNION {{<<i, f, b>> : b \in {e \in Borders(frames[f]) :
                                 \E s \in Range(segments[i]) : Overlap(s, e) > 0}} :
           i \in DOMAIN segments, f \in DOMAIN frames}

\* collectRouteRhythmIssues: cramped segments
RhythmIssues(route) ==
  LET r == Normalized(route)
      last == Len(r) - 1
      length(i) == Length(Segment(r, i))
  IN {i \in 1..last : /\ length(i) > 0
                      /\ \/ length(i) < 8 * Px
                         \/ 1 < i /\ i < last /\ length(i) < 16 * Px}

\* collectLabelRouteClearance: labels too near to the route of another relation
LabelHits(relations, threshold) ==
  {p \in (DOMAIN relations) \X (DOMAIN relations) :
     /\ p[1] # p[2]
     /\ \E s \in Range(Segments(Normalized(relations[p[2]].points))),
           r \in relations[p[1]].mask : Clearance2(s, r) < Square(threshold)}

-----------------------------------------------------------------------------
\* The gates of a renderer: sets of the items each refuses.  relations carry
\* from, to, points, mask (the rectangles behind their label, none or one) and
\* the sides their ends must honour ("" where the author's route decides).

\* cleanEndpointSideProblems
SideProblems(relations) ==
  {i \in DOMAIN relations :
     LET r == relations[i] IN
     \/ r.fromSide # "" /\ ~HonorsSide(r.points, "source", r.fromSide)
     \/ r.toSide # "" /\ ~HonorsSide(r.points, "target", r.toSide)}

\* cleanFlowProblems: relations that run through a box they do not end at
FlowProblems(relations, boxes) ==
  {p \in (DOMAIN relations) \X (DOMAIN boxes) :
     LET r == relations[p[1]] IN
     /\ p[2] \notin {r.from, r.to}
     /\ \E s \in Range(Segments(r.points)) : MeetsRect(s, boxes[p[2]], 2 * Px)}

\* cleanCrossingProblems, without merged waypoints as all renderers but one ask
CrossingProblems(relations, profile) ==
  IF profile = "showcase"
  THEN Crossings(relations, [i \in DOMAIN relations |-> AuthoredSegments(relations[i].points)])
  ELSE {}

\* cleanAmbiguousCorridorProblems
CorridorProblems(relations, profile) ==
  IF profile = "showcase" THEN Corridors(relations) ELSE {}

\* cleanBorderRunProblems
BorderProblems(relations, frames, profile) ==
  IF profile = "none" THEN {}
  ELSE BorderRuns([i \in DOMAIN relations |-> Segments(relations[i].points)], frames)

\* cleanRouteRhythmProblems
RhythmProblems(relations, profile) ==
  IF profile = "showcase"
  THEN {i \in DOMAIN relations : RhythmIssues(relations[i].points) # {}}
  ELSE {}

\* cleanLabelRouteClearanceProblems
LabelProblems(relations, profile) ==
  IF profile = "showcase" THEN LabelHits(relations, 4 * Px) ELSE {}

-----------------------------------------------------------------------------
\* Ports

Center(r) == <<r.x + r.w \div 2, r.y + r.h \div 2>>
Upright(side) == side \in {"left", "right"}

Anchor(r, side) ==
  CASE side = "left" -> <<r.x, Center(r)[2]>>
    [] side = "top" -> <<Center(r)[1], r.y>>
    [] side = "bottom" -> <<Center(r)[1], r.y + r.h>>
    [] OTHER -> <<r.x + r.w, Center(r)[2]>>

DefaultFromSide(from, to) ==
  LET f == Center(from)  t == Center(to) IN
  CASE t[1] < f[1] -> "left"
    [] t[1] > f[1] -> "right"
    [] OTHER -> IF t[2] > f[2] THEN "bottom" ELSE "top"

DefaultToSide(from, to) ==
  LET f == Center(from)  t == Center(to) IN
  CASE t[1] < f[1] -> "right"
    [] t[1] > f[1] -> "left"
    [] OTHER -> IF t[2] > f[2] THEN "top" ELSE "bottom"

ChosenSide(side, fallback) == IF side = "auto" THEN fallback ELSE side

\* Relations whose route is left to the renderer
Automatic(c) == c.route = "auto" /\ c.via = <<>> /\ c.labelAt = <<>>

\* The ends automaticPortSpread groups: by box and side
End(connections, boxes, i, end) ==
  LET c == connections[i]
      from == boxes[c.from]  to == boxes[c.to]
  IN IF end = "from"
     THEN [box |-> c.from, side |-> ChosenSide(c.fromSide, DefaultFromSide(from, to)), other |-> to]
     ELSE [box |-> c.to, side |-> ChosenSide(c.toSide, DefaultToSide(from, to)), other |-> from]

Fan(connections, boxes, end) ==
  {e \in {i \in DOMAIN connections : Automatic(connections[i])} \X {"from", "to"} :
     LET a == End(connections, boxes, end[1], end[2])
         b == End(connections, boxes, e[1], e[2])
     IN a.box = b.box /\ a.side = b.side}

\* The order of a fan: by the counterpart's centre, then by the relation's
\* key, then as written.
Goal(connections, boxes, e) ==
  LET a == End(connections, boxes, e[1], e[2]) IN Center(a.other)[IF Upright(a.side) THEN 2 ELSE 1]
Key(c) == <<c.id, c.from, c.to, c.label>>
FanKey(connections, boxes, e) ==
  <<Goal(connections, boxes, e)>> \o Key(connections[e[1]])
    \o <<e[1], IF e[2] = "from" THEN 0 ELSE 1>>

Lower(a, b) == \E k \in DOMAIN a : a[k] < b[k] /\ \A j \in 1..(k - 1) : a[j] = b[j]

PortRank(connections, boxes, end) ==
  Cardinality({e \in Fan(connections, boxes, end) :
                 Lower(FanKey(connections, boxes, e), FanKey(connections, boxes, end))})

\* Where a side has its port of this rank, {} where the anchor stays
Spread(box, side, gaps, rank) ==
  LET extent == IF Upright(side) THEN box.h ELSE box.w
      reach == Least(14 * Px * gaps, Most(0, extent - 32 * Px))
      offset == ((2 * rank - gaps) * reach) \div (2 * gaps)
      at == Anchor(box, side)
  IN IF gaps < 1 \/ reach = 0 THEN {}
     ELSE {IF Upright(side) THEN <<at[1], at[2] + offset>> ELSE <<at[1] + offset, at[2]>>}

\* automaticPortSpread: the ports of one end
SpreadPort(connections, boxes, end) ==
  LET a == End(connections, boxes, end[1], end[2]) IN
  IF ~Automatic(connections[end[1]]) THEN {}
  ELSE Spread(boxes[a.box], a.side, Cardinality(Fan(connections, boxes, end)) - 1,
              PortRank(connections, boxes, end))

Stub(point, side, distance) ==
  <<point[1] + distance * Outward[side][1], point[2] + distance * Outward[side][2]>>

\* The routes through a channel outside two ends on parallel sides that are
\* nearly in line.
Channels(start, end, fromSide, toSide) ==
  LET a == Stub(start, fromSide, 24 * Px)
      b == Stub(end, toSide, 24 * Px)
      k == IF Upright(fromSide) THEN 2 ELSE 1
      near == Upright(fromSide) = Upright(toSide) /\ Abs(start[k] - end[k]) < 16 * Px
      by(channel) ==
        IF k = 1 THEN <<start, a, <<channel, a[2]>>, <<channel, b[2]>>, b, end>>
        ELSE <<start, a, <<a[1], channel>>, <<b[1], channel>>, b, end>>
  IN IF near THEN <<by(Most(start[k], end[k]) + 16 * Px), by(Least(start[k], end[k]) - 16 * Px)>>
     ELSE <<>>

\* automaticPortRhythmBridge: the routes it tries, and the ones that fit
RhythmBridges(start, end, fromSide, toSide) ==
  LET channels == Channels(start, end, fromSide, toSide)
  IN [i \in DOMAIN channels |-> Normalized(channels[i])]
KeepsRhythm(route, fromSide, toSide) ==
  HonorsSides(route, fromSide, toSide) /\ RhythmIssues(route) = {}

-----------------------------------------------------------------------------
\* Drawing

\* From a towards b, a distance of r
Towards(a, b, r) ==
  LET length == Length(<<a, b>>)
  IN <<a[1] + ((b[1] - a[1]) * r) \div length, a[2] + ((b[2] - a[2]) * r) \div length>>

Line(p) == [curved |-> FALSE, via |-> p, to |-> p]

\* Round the corner c between p and n
Corner(p, c, n, radius) ==
  LET r == Least(radius, Least(Length(<<p, c>>), Length(<<c, n>>)) \div 2)
  IN IF r < Px THEN <<Line(c)>>
     ELSE <<Line(Towards(c, p, r)), [curved |-> TRUE, via |-> c, to |-> Towards(c, n, r)]>>

\* roundedPath: after its first point, lines and the curves round its corners
RoundedPath(points, radius) ==
  LET drawn[i \in 0..(Len(points) - 2)] ==
        IF i = 0 THEN <<>>
        ELSE drawn[i - 1] \o Corner(points[i], points[i + 1], points[i + 2], radius)
  IN IF Len(points) < 3 THEN [i \in 1..(Len(points) - 1) |-> Line(points[i + 1])]
     ELSE Append(drawn[Len(points) - 2], Line(points[Len(points)]))

\* labelPoint
LabelPoint(connection, points) ==
  LET i == IF Len(points) = 2 THEN 1 ELSE Least(Len(points) - 1, 2)
      a == points[i]  b == points[i + 1]
      y == IF Len(points) = 2 THEN a[2] ELSE (a[2] + b[2]) \div 2
  IN IF connection.labelAt # <<>> THEN connection.labelAt
     ELSE <<(a[1] + b[1]) \div 2, y - 10 * Px>>
=============================================================================
