------------------------ MODULE MCWorkflowMigration ------------------------
(* Small documents: five nodes in two lanes, four relationships, one of them
   labelled and one of them pinned, with and without a canvas, a group and a contract. *)
EXTENDS WorkflowMigration

CONSTANTS Labels, Pinnings, Widths, Tops, Boxes, Gaps, LaneNeeds

Node(lane, col, width, y) == [lane |-> lane, col |-> col, width |-> width, height |-> 52, y |-> y]

Edge(from, to) ==
  [from |-> from, to |-> to, route |-> "auto", via |-> <<>>, channelX |-> <<>>,
   channelY |-> FALSE, labelAt |-> <<>>, label |-> 0, fromSide |-> "auto", toSide |-> "auto"]

NoChecks == [roots |-> {}, terminals |-> {}, edges |-> {}, paths |-> {}]

Checks == {NoChecks, [NoChecks EXCEPT !.paths = {<<1, 4>>}, !.roots = {{1}}]}

Groups == {{}, {[lane |-> 2, first |-> 3, last |-> 4, label |-> 200]}}

Documents ==
  {[version |-> 1,
    lanes |-> <<40, 60>>,
    nodes |-> <<Node(1, 1, w, 0), Node(1, 2, 92, 0), Node(lane, 3, w, 0), Node(2, 4, 92, -30),
                Node(2, 5, w, 0)>>,
    edges |-> <<[Edge(1, 2) EXCEPT !.label = label, !.fromSide = top],
                [Edge(2, 3) EXCEPT !.via = pins.via, !.channelX = pins.channelX,
                                 !.labelAt = pins.labelAt, !.label = pins.label],
                Edge(3, 4), Edge(4, 5)>>,
    phases |-> {[first |-> 1, last |-> 2, label |-> 100]},
    groups |-> groups, box |-> box, checks |-> checks] :
      w \in Widths, lane \in {1, 2}, label \in Labels, top \in Tops, pins \in Pinnings,
      groups \in Groups, box \in Boxes, checks \in Checks}

\* A node in the second column that the first one does not make room for.
Wide(d) == [d EXCEPT !.nodes[1].lane = 2, !.nodes[2].width = 400]

\* A contract and a canvas have nothing to do with each other: not both at once.
MCSources ==
  {d \in Documents : d.box = NoBox \/ d.checks = NoChecks} \cup
  {Wide(d) : d \in {e \in Documents : e.box = NoBox /\ e.groups = {}}}

MCNeeds ==
  {<<[gap |-> b, lanes |-> 0], [gap |-> a, lanes |-> l], [gap |-> a, lanes |-> l],
     [gap |-> b, lanes |-> 0]>> :
     a \in Gaps, b \in Gaps, l \in LaneNeeds}

MCBoxes == {NoBox, [width |-> 720, height |-> 700], [width |-> 1600, height |-> 240]}
MCTops == {"auto", "top"}

NoPins == [via |-> <<>>, channelX |-> <<>>, labelAt |-> <<>>, label |-> 0]

\* Pins between ranks, on the last rank, left of the first and right of the last one.
MCPinnings ==
  {NoPins, [NoPins EXCEPT !.via = <<260>>], [NoPins EXCEPT !.via = <<150, 600>>],
   [NoPins EXCEPT !.via = <<625, 20>>],
   [NoPins EXCEPT !.channelX = <<700>>, !.labelAt = <<220>>, !.label = 40]}
=============================================================================
