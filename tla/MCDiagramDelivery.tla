-------------------------- MODULE MCDiagramDelivery --------------------------
(***************************************************************************)
(* DiagramDelivery for TLC: four components of 48 by 48 pixels near the    *)
(* corners of a square, two of them in one of a few places, so that ends   *)
(* face each other in line, nearly in line and across; one place is off    *)
(* the grid of 8 px, so that two routes share a line for 3 px.             *)
(***************************************************************************)
EXTENDS DiagramDelivery

At(x, y) == Rect(x * Px, y * Px, 48 * Px, 48 * Px)

MCLayouts ==
  {<<At(48, 56), At(p[1], 56), At(48, 160), At(152, p[2])>> :
     p \in {<<152, 160>>, <<144, 168>>, <<146, 168>>}}
  \cup {<<At(48, 56), At(152, 56), At(48, 116), At(152, 160)>>,
        <<At(48, 56), At(152, 56), At(48, 160), At(100, 108)>>}

Auto(from, to) ==
  [from |-> from, to |-> to, id |-> 0, label |-> 0, fromSide |-> "auto", toSide |-> "auto",
   route |-> "auto", via |-> <<>>, labelAt |-> <<>>]
Point(x, y) == <<x * Px, y * Px>>

MCLines ==
  {Auto(1, 2), Auto(2, 1), Auto(1, 4), Auto(3, 2), Auto(3, 4), Auto(1, 3),
   [Auto(3, 2) EXCEPT !.route = "straight"],
   [Auto(3, 4) EXCEPT !.label = 40 * Px],
   [Auto(1, 4) EXCEPT !.route = "orthogonal-v"],
   [Auto(1, 4) EXCEPT !.route = "orthogonal-h", !.fromSide = "bottom"],
   [Auto(3, 2) EXCEPT !.via = <<Point(124, 184), Point(124, 132), Point(124, 80)>>,
                      !.fromSide = "right"],
   [Auto(1, 4) EXCEPT !.via = <<Point(72, 132), Point(124, 132), Point(176, 132)>>,
                      !.fromSide = "bottom", !.toSide = "top"]}

MCBoundaries ==
  {[wraps |-> {1, 2}, pad |-> 8 * Px, kind |-> "", title |-> 60 * Px, least |-> 40 * Px],
   [wraps |-> {1}, pad |-> 4 * Px, kind |-> "security-group", title |-> 90 * Px, least |-> 60 * Px],
   [wraps |-> {3}, pad |-> 4 * Px, kind |-> "", title |-> 60 * Px, least |-> 40 * Px],
   [wraps |-> {2, 4}, pad |-> 20 * Px, kind |-> "", title |-> 150 * Px, least |-> 100 * Px]}

MCView == Point(216, 240)
=============================================================================
