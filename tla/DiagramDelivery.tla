--------------------------- MODULE DiagramDelivery ---------------------------
(***************************************************************************)
(* A diagram on its way: the author writes it connection by connection,    *)
(* the architecture renderer measures, routes and judges it                *)
(* (render-architecture.mjs), and the checker judges the artifact it drew  *)
(* (check-render-output.mjs), as "archify deliver" runs them.  Renderer    *)
(* and checker call the same collectors of shared/geometry.mjs but for     *)
(* crossings and askew legs, but not of the same things: the renderer      *)
(* measures the points of a route, the checker also what is drawn, curves  *)
(* included.                                                               *)
(***************************************************************************)
EXTENDS ArtifactCheck

CONSTANTS
  Layouts,      \* the components a document may start from
  Lines,        \* the connections its author may add
  Boundaries,   \* the boundaries its author may add
  Profiles,     \* values of meta.quality_profile, "none" when absent
  Nestings,     \* whether the deployment profile is asked for
  View,         \* the authored viewBox
  MaxLines,     \* bounds on the connections the author adds,
  MaxGroups,    \* on the boundaries,
  MaxParts      \* and on both together

\* Components are boxes on whole quarter pixels.
ASSUME LayoutAssumption ==
  \A boxes \in Layouts :
    /\ IsFiniteSet(DOMAIN boxes) /\ DOMAIN boxes \subseteq Int
    /\ boxes \in [DOMAIN boxes -> [x : Int, y : Int, w : Nat, h : Nat]]

\* Connections end at components of the document; what orders them in a fan
\* has an order.
ASSUME LineAssumption ==
  \A c \in Lines :
    /\ c.id \in Int /\ c.label \in Int
    /\ {c.fromSide, c.toSide} \subseteq {"auto", "left", "right", "top", "bottom"}
    /\ \A boxes \in Layouts : {c.from, c.to} \subseteq DOMAIN boxes

\* Boundaries wrap components of the document.
ASSUME BoundaryAssumption ==
  \A b \in Boundaries :
    /\ b.pad \in Int /\ b.title \in Int /\ b.least \in Int
    /\ b.wraps # {} /\ \A boxes \in Layouts : b.wraps \subseteq DOMAIN boxes

\* Ports are rounded to quarter pixels here, never in the code: a side that is
\* spread at all has at least a quarter pixel for each end that may arrive.
ASSUME RoundingAssumption ==
  /\ MaxLines \in Nat
  /\ \A boxes \in Layouts : \A k \in DOMAIN boxes : \A extent \in {boxes[k].w, boxes[k].h} :
       extent > 32 * Px => extent - 32 * Px >= 2 * MaxLines

VARIABLES
  doc,          \* the document
  phase,        \* "writing", "rendered" or "checked"
  relations,    \* the routed connections
  frames,       \* the frames and titles of the boundaries
  titles,
  problems,     \* what the renderer refuses
  errors        \* what the checker refuses

deliveryVars == <<doc, phase, relations, frames, titles, problems, errors>>

DeliveryInit ==
  /\ doc \in [components : Layouts, connections : {<<>>}, boundaries : {<<>>},
              size : {View}, profile : Profiles, nested : Nestings]
  /\ phase = "writing"
  /\ relations = <<>> /\ frames = <<>> /\ titles = <<>>
  /\ problems = {} /\ errors = {}

MayGrow == Len(doc.connections) + Len(doc.boundaries) < MaxParts

Connect(c) ==
  /\ phase = "writing" /\ Len(doc.connections) < MaxLines /\ MayGrow
  /\ doc' = [doc EXCEPT !.connections = Append(@, c)]
  /\ UNCHANGED <<phase, relations, frames, titles, problems, errors>>

Group(b) ==
  /\ phase = "writing" /\ Len(doc.boundaries) < MaxGroups /\ MayGrow
  /\ doc' = [doc EXCEPT !.boundaries = Append(@, b)]
  /\ UNCHANGED <<phase, relations, frames, titles, problems, errors>>

\* The renderer routes every connection, places every title and validates.
Render ==
  /\ phase = "writing"
  /\ phase' = "rendered"
  /\ relations' = Relations(doc, [i \in DOMAIN doc.connections |-> PathFor(doc, i)])
  /\ titles' = Titles(doc)
  /\ frames' = Frames(doc, titles')
  /\ problems' = Problems(doc, relations', frames', titles')
  /\ UNCHANGED <<doc, errors>>

\* The checker reads the artifact of a document the renderer accepted.
Check ==
  /\ phase = "rendered" /\ problems = {}
  /\ phase' = "checked"
  /\ errors' = Errors(Artifact(doc, relations, frames))
  /\ UNCHANGED <<doc, relations, frames, titles, problems>>

DeliveryNext ==
  \/ \E c \in Lines : Connect(c)
  \/ \E b \in Boundaries : Group(b)
  \/ Render
  \/ Check

DeliverySpec == DeliveryInit /\ [][DeliveryNext]_deliveryVars

-----------------------------------------------------------------------------
(* Properties                                                              *)

\* What the renderer accepts and the checker refuses is a crossing that shows
\* only when the corners are rounded, or in a connection whose author had a
\* hand in its route a line askew or along a border.  Corridors, cramped legs
\* and crowded labels are found before anything is drawn, and the drawn lines
\* and straight curves of an automatic route add no border run.
OnlyCrossingsAreMissed ==
  phase = "checked" =>
    \A e \in errors : /\ e[1] \in {"crossing", "diagonal", "border"}
                      /\ Automatic(doc.connections[e[2]]) => e[1] = "crossing"

\* What the renderer accepts passes the check, but for a leg that runs askew
\* because its author wrote it so.  This fails off the grid of 8 px: two routes
\* that share less than a corridor's length of one line cross only as drawn.
AcceptedPassesCheck ==
  phase = "checked" =>
    \A e \in errors : /\ e[1] = "diagonal"
                      /\ ~Automatic(doc.connections[e[2]])

\* "No competing port is silently collapsed": the automatic ends on one side
\* of a component arrive at points of their own, in the order of what they
\* lead to.
PortsStayApart ==
  phase # "writing" =>
    \A i, j \in DOMAIN relations : \A e, f \in {"from", "to"} :
      LET a == End(doc.connections, doc.components, i, e)
          b == End(doc.connections, doc.components, j, f)
          point(k, end) == relations[k].points[IF end = "from" THEN 1 ELSE Len(relations[k].points)]
          axis == IF Upright(a.side) THEN 2 ELSE 1
          box == doc.components[a.box]
      IN (/\ <<i, e>> # <<j, f>> /\ a.box = b.box /\ a.side = b.side
          /\ Automatic(doc.connections[i]) /\ Automatic(doc.connections[j])
          /\ (IF Upright(a.side) THEN box.h ELSE box.w) > 32 * Px)
         => /\ point(i, e) # point(j, f)
            /\ Center(a.other)[axis] < Center(b.other)[axis]
                 => point(i, e)[axis] < point(j, f)[axis]

\* A title ends up clear of every component and of every other title: the
\* loop that raises it never runs out of tries.
TitlesAreClear ==
  phase # "writing" =>
    \A i \in DOMAIN titles :
      /\ \A k \in DOMAIN doc.components : ~RectsOverlap(titles[i], doc.components[k], 0)
      /\ \A j \in DOMAIN titles \ {i} : ~RectsOverlap(titles[i], titles[j], 0)

=============================================================================
