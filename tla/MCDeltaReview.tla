---------------------------- MODULE MCDeltaReview ----------------------------
EXTENDS DeltaReview

Component(id, s, e, g, brand) ==
  [id |-> id, semantic |-> s, evidence |-> e, geometry |-> g, brand |-> brand]
Connection(id, t, label, s, g) ==
  [id |-> id, topology |-> t, label |-> label, semantic |-> s, geometry |-> g]
Boundary(id, s, g) == [id |-> id, scope |-> s, geometry |-> g]

Plain == [shape |-> "none", components |-> <<Component("a", 0, 0, 0, 0)>>,
          connections |-> <<>>, boundaries |-> <<>>,
          repository |-> [place |-> Blank, revision |-> 0], presentation |-> 0, locale |-> 0]

WithComponents(items) == [Plain EXCEPT !.components = items]
WithConnections(items) == [Plain EXCEPT !.connections = items]
WithBoundaries(items) == [Plain EXCEPT !.boundaries = items]

Bit == {0, 1}

\* One collection varies at a time: missing, repeated, added, removed and changed
\* items, in every combination of groups of fields.
ComponentDocs ==
  {WithComponents(<<Component("a", s, e, g, b)>>) : s, e, g, b \in Bit}
  \cup {WithComponents(c) : c \in
          {<<>>, <<Component("b", 0, 0, 0, 0)>>, <<Component(NoId, 0, 0, 0, 0)>>,
           <<Component("a", 0, 0, 0, 0), Component("b", 0, 0, 0, 0)>>,
           <<Component("a", 0, 0, 0, 0), Component("a", 1, 0, 0, 0)>>}}
ConnectionDocs ==
  {WithConnections(<<Connection("a", t, label, s, g)>>) :
     t, s, g \in Bit, label \in {Blank, "x", "y"}}
  \cup {WithConnections(c) : c \in
          {<<>>, <<Connection(NoId, 0, "x", 0, 0)>>,
           <<Connection("a", 0, "x", 0, 0), Connection("a", 0, "x", 0, 0)>>,
           <<Connection("a", 1, "x", 0, 1), Connection("b", 0, "x", 0, 0)>>}}
BoundaryDocs ==
  {WithBoundaries(<<Boundary("a", s, g)>>) : s, g \in Bit}
  \cup {WithBoundaries(b) : b \in
          {<<>>, <<Boundary("a", 0, 0), Boundary("a", 0, 0)>>,
           <<Boundary("a", 1, 1), Boundary("b", 0, 0)>>}}
FrameDocs ==
  {[Plain EXCEPT !.shape = s, !.repository = r, !.presentation = p, !.locale = l] :
     s \in {"none", "delta/type-mismatch"},
     r \in {[place |-> Blank, revision |-> 0], [place |-> "x", revision |-> 0], [place |-> "x", revision |-> 1],
            [place |-> "y", revision |-> 0]},
     p, l \in Bit}

\* All collections at once, for a review of several rows
Busy(n) ==
  [Plain EXCEPT !.components = <<Component("a", n, 0, n, 0)>>,
                !.connections = <<Connection("a", n, "x", 0, 0)>>,
                !.boundaries = <<Boundary("a", n, 0)>>]

MCPairs ==
  (ComponentDocs \X ComponentDocs) \cup (ConnectionDocs \X ConnectionDocs)
  \cup (BoundaryDocs \X BoundaryDocs) \cup (FrameDocs \X FrameDocs)
  \cup {<<Busy(0), Busy(1)>>}
=============================================================================
