---------------------------- MODULE ArtifactCheck ----------------------------
(***************************************************************************)
(* What a renderer writes into the artifact and what the checker reads     *)
(* back, .agents/skills/archify/scripts/check-render-output.mjs.  The      *)
(* checker knows neither the document nor the renderer: it measures the    *)
(* drawn paths, curves included, and judges by the profile in the root     *)
(* element.                                                                *)
(*                                                                         *)
(* An artifact has arrows (from, to, points as written beside the path,    *)
(* and the drawn path), masks of labels with the arrow they belong to,     *)
(* frames, and the two attributes of the quality profile.  Drawn points    *)
(* count 64ths of the unit of RouteGeometry, so that the eight samples of  *)
(* a curve are whole.                                                      *)
(***************************************************************************)
EXTENDS ArchitectureRoutes

\* svgRootAttrs: no profile leaves the gates advisory.
Artifact(d, relations, frames) ==
  [arrows |-> [i \in DOMAIN relations |->
                 [from |-> relations[i].from, to |-> relations[i].to, points |-> relations[i].points,
                  path |-> RoundedPath(relations[i].points, 8 * Px)]],
   masks |-> [i \in DOMAIN relations |-> relations[i].mask],
   frames |-> frames,
   profile |-> IF d.profile = "showcase" THEN "showcase" ELSE "standard",
   enforced |-> d.profile # "none"]

Scaled(p) == <<64 * p[1], 64 * p[2]>>

\* The eight points on a curve
Sampled(from, via, to) ==
  [k \in 1..8 |->
     LET at(i) == (8 - k) * (8 - k) * from[i] + 2 * k * (8 - k) * via[i] + k * k * to[i]
     IN <<at(1), at(2)>>]

\* pointsFromPath
DrawnPoints(arrow) ==
  LET path == arrow.path
      from(i) == IF i = 1 THEN arrow.points[1] ELSE path[i - 1].to
      points[i \in 0..Len(path)] ==
        IF i = 0 THEN <<Scaled(arrow.points[1])>>
        ELSE points[i - 1] \o (IF path[i].curved THEN Sampled(from(i), path[i].via, path[i].to)
                               ELSE <<Scaled(path[i].to)>>)
  IN points[Len(path)]

\* straightPathSegments: the lines of a path and the curves that are straight
StraightSegments(arrow) ==
  LET path == arrow.path
      from(i) == IF i = 1 THEN arrow.points[1] ELSE path[i - 1].to
      straight == {i \in DOMAIN path : path[i].curved => Cross(from(i), path[i].via, path[i].to) = 0}
  IN {<<from(i), path[i].to>> : i \in straight}

\* diagonalStraightSegments
Diagonals(arrow) == {s \in StraightSegments(arrow) : s[1][1] # s[2][1] /\ s[1][2] # s[2][2]}

Sign(n) == IF n > 0 THEN 1 ELSE IF n < 0 THEN -1 ELSE 0

\* On which side of a drawn segment a point lies; the direction of a line
\* keeps its sign when divided by the scale.
Hand(s, p) ==
  LET dx == s[2][1] - s[1][1]
      dy == s[2][2] - s[1][2]
      by == IF dx % 64 = 0 /\ dy % 64 = 0 THEN 64 ELSE 1
  IN Sign((dx \div by) * (p[2] - s[1][2]) - (dy \div by) * (p[1] - s[1][1]))

\* properSegmentIntersection, on drawn segments
DrawnAcross(s, t) ==
  Hand(s, t[1]) * Hand(s, t[2]) = -1 /\ Hand(t, s[1]) * Hand(t, s[2]) = -1

\* collectRelationshipCrossings
DrawnCrossings(arrows) ==
  LET drawn == [i \in DOMAIN arrows |-> Range(Segments(DrawnPoints(arrows[i])))] IN
  {p \in RelationPairs(arrows) :
     /\ Unrelated(arrows[p[1]], arrows[p[2]])
     /\ \E s \in drawn[p[1]], t \in drawn[p[2]] : DrawnAcross(s, t)}

\* The border runs of the drawn lines
DrawnBorderRuns(a) ==
  UNION {{<<i, f, b>> : b \in {e \in Borders(a.frames[f]) :
                                 \E s \in StraightSegments(a.arrows[i]) : Overlap(s, e) > 0}} :
           i \in DOMAIN a.arrows, f \in DOMAIN a.frames}

\* collectRelationshipLabelMasks, with the route beside each mask
Masked(a) ==
  [i \in DOMAIN a.arrows |-> [points |-> a.arrows[i].points, mask |-> a.masks[i]]]

\* The errors of a check.  Two more are left out with what they measure: an arrow
\* that crosses the legend, and text that is too small on a desktop screen.
Errors(a) ==
  LET strict == a.profile = "showcase" IN
  {<<"diagonal", i>> : i \in {i \in DOMAIN a.arrows : Diagonals(a.arrows[i]) # {}}}
  \cup (IF ~a.enforced THEN {} ELSE {<<"border", r[1]>> : r \in DrawnBorderRuns(a)})
  \cup (IF ~strict THEN {}
        ELSE {<<"crossing", p[1]>> : p \in DrawnCrossings(a.arrows)}
             \cup {<<"corridor", p[1]>> : p \in Corridors(a.arrows)}
             \cup {<<"rhythm", i>> : i \in {i \in DOMAIN a.arrows : RhythmIssues(a.arrows[i].points) # {}}}
             \cup {<<"clearance", p[1]>> : p \in LabelHits(Masked(a), 4 * Px)})
=============================================================================
