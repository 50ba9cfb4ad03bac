----------------------- MODULE WorkflowMigrationProofs -----------------------
(***************************************************************************)
(* What holds of every migration, whatever the documents, the router's     *)
(* needs and the number of rounds: the rank plan is readable, every round  *)
(* gains, pins keep their place, and the output migrates to itself.        *)
(*                                                                         *)
(* The plan of a document is a solution of its constraints (SolvedMeets),  *)
(* moved as a whole (GroupMoves, RanksAre).  A compile is a walk from one  *)
(* feedback to the next that the document and the needs decide, so the     *)
(* second run of the command ends where the first one did (WayGoesOn).     *)
(***************************************************************************)
EXTENDS WorkflowMigration, FiniteSetTheorems, SequenceTheorems, TLAPS

-----------------------------------------------------------------------------
(* Numbers and finite sets                                                 *)

LEMMA HalfShift ==
  ASSUME NEW a \in Int, NEW s \in Int PROVE (a + 2 * s) \div 2 = (a \div 2) + s
  OBVIOUS

\* The last and the first element of a finite set: no smallest set is without.
LEMMA Extremes ==
  ASSUME NEW S \in SUBSET Int, IsFiniteSet(S), S # {}
  PROVE  /\ \E x \in S : \A y \in S : x >= y
         /\ \E x \in S : \A y \in S : x <= y
<1> DEFINE Has(T) == (\E x \in T : \A y \in T : x >= y) /\ (\E x \in T : \A y \in T : x <= y)
           Bad == {n \in Nat : \E T \in SUBSET Int :
                     IsFiniteSet(T) /\ T # {} /\ Cardinality(T) = n /\ ~Has(T)}
<1>1. SUFFICES ASSUME Bad # {} PROVE FALSE
  <2>1. Cardinality(S) \in Nat
    BY FS_CardinalityType
  <2> QED BY <1>1, <2>1
<1>2. \E n \in Bad : \A k \in Bad : <<k, n>> \notin OpToRel(<, Nat)
  <2>1. Bad \subseteq Nat
    OBVIOUS
  <2> HIDE DEF Bad
  <2> QED BY <1>1, <2>1, WFMin, NatLessThanWellFounded
<1>3. PICK n \in Bad : \A k \in Bad : ~(k < n)
  <2>1. PICK n \in Bad : \A k \in Bad : <<k, n>> \notin OpToRel(<, Nat)
    BY <1>2
  <2>2. \A k \in Bad : k \in Nat /\ n \in Nat
    OBVIOUS
  <2> QED BY <2>1, <2>2 DEF OpToRel
<1>4. PICK T \in SUBSET Int : IsFiniteSet(T) /\ T # {} /\ Cardinality(T) = n /\ ~Has(T)
  BY <1>3
<1>5. PICK x \in T : TRUE
  BY <1>4
<1>6. IsFiniteSet(T \ {x}) /\ Cardinality(T \ {x}) = n - 1
  BY <1>4, <1>5, FS_RemoveElement
<1>7. CASE T \ {x} = {}
  <2>1. \A y \in T : y = x
    BY <1>7
  <2> QED BY <1>4, <1>5, <2>1
<1>8. CASE T \ {x} # {}
  <2>1. n - 1 \in Nat
    BY <1>6, FS_CardinalityType
  <2>2. Has(T \ {x})
    <3>1. n - 1 \notin Bad
      BY <1>3, <2>1
    <3> QED BY <1>6, <1>8, <2>1, <3>1
  <2>3. PICK h \in T \ {x}, l \in T \ {x} : \A y \in T \ {x} : h >= y /\ l <= y
    BY <2>2
  <2>4. \A y \in T : y = x \/ y \in T \ {x}
    OBVIOUS
  <2>5. \E z \in T : \A y \in T : z >= y
    <3>1. CASE x >= h
      BY <1>5, <2>3, <2>4, <3>1
    <3>2. CASE ~(x >= h)
      BY <1>5, <2>3, <2>4, <3>2
    <3> QED BY <3>1, <3>2
  <2>6. \E z \in T : \A y \in T : z <= y
    <3>1. CASE x <= l
      BY <1>5, <2>3, <2>4, <3>1
    <3>2. CASE ~(x <= l)
      BY <1>5, <2>3, <2>4, <3>2
    <3> QED BY <3>1, <3>2
  <2> QED BY <1>4, <2>5, <2>6
<1> QED BY <1>7, <1>8

LEMMA MaxIs ==
  ASSUME NEW S \in SUBSET Int, IsFiniteSet(S), S # {}
  PROVE  Max(S) \in S /\ Max(S) \in Int /\ \A y \in S : Max(S) >= y
  BY Extremes DEF Max

LEMMA MinIs ==
  ASSUME NEW S \in SUBSET Int, IsFiniteSet(S), S # {}
  PROVE  Min(S) \in S /\ Min(S) \in Int /\ \A y \in S : Min(S) <= y
  BY Extremes DEF Min

LEMMA ImageFinite ==
  ASSUME NEW S, IsFiniteSet(S), NEW f PROVE IsFiniteSet({f[x] : x \in S})
<1> DEFINE T == {f[x] : x \in S}
           g == [x \in S |-> f[x]]
<1>1. g \in Surjection(S, T)
  BY DEF Surjection
<1> QED BY <1>1, FS_Surjection

\* A maximum over a start and what f gives for the members of a finite set
LEMMA MaxOver ==
  ASSUME NEW S, IsFiniteSet(S), NEW f, NEW a \in Int, \A x \in S : f[x] \in Int
  PROVE  LET m == Max({a} \cup {f[x] : x \in S})
         IN  m \in Int /\ m >= a /\ \A x \in S : m >= f[x]
<1> DEFINE T == {a} \cup {f[x] : x \in S}
<1>1. IsFiniteSet(T)
  <2>1. IsFiniteSet({f[x] : x \in S})
    BY ImageFinite
  <2>2. IsFiniteSet({a})
    BY FS_Singleton
  <2> QED BY <2>1, <2>2, FS_Union
<1>2. T \in SUBSET Int /\ T # {} /\ a \in T /\ \A x \in S : f[x] \in T
  OBVIOUS
<1> HIDE DEF T
<1>3. Max(T) \in Int /\ \A y \in T : Max(T) >= y
  BY <1>1, <1>2, MaxIs
<1>4. Max(T) >= a /\ \A x \in S : Max(T) >= f[x]
  BY <1>2, <1>3
<1> QED BY <1>3, <1>4 DEF T

LEMMA MaxOfTwo ==
  ASSUME NEW a \in Int, NEW b \in Int
  PROVE  Max({a, b}) \in {a, b} /\ Max({a, b}) \in Int /\ Max({a, b}) >= a /\ Max({a, b}) >= b
<1> DEFINE T == {a} \cup {b}
<1>1. IsFiniteSet({a}) /\ IsFiniteSet({b})
  BY FS_Singleton
<1>2. IsFiniteSet(T)
  BY <1>1, FS_Union
<1>3. T \in SUBSET Int /\ T # {} /\ a \in T /\ b \in T /\ T = {a, b}
  OBVIOUS
<1> HIDE DEF T
<1>4. Max(T) \in T /\ Max(T) \in Int /\ \A y \in T : Max(T) >= y
  BY <1>2, <1>3, MaxIs
<1>5. Max(T) >= a /\ Max(T) >= b
  BY <1>3, <1>4
<1> QED BY <1>3, <1>4, <1>5

\* A maximum with zero
LEMMA MaxWithZero ==
  ASSUME NEW b \in Int
  PROVE  Max({0, b}) \in Nat /\ Max({0, b}) >= b /\ (b \in Nat => Max({0, b}) = b)
<1>1. PICK z \in Int : z = 0
  OBVIOUS
<1>2. Max({z, b}) \in {z, b} /\ Max({z, b}) \in Int /\ Max({z, b}) >= z /\ Max({z, b}) >= b
  BY MaxOfTwo
<1>3. {0, b} = {z, b}
  BY <1>1
<1> QED BY <1>1, <1>2, <1>3
-----------------------------------------------------------------------------
(* Documents and their constraints                                         *)

LEMMA NodeFacts ==
  ASSUME NEW d, IsDocument(d), NEW n \in NodesOf(d)
  PROVE  /\ n.lane \in DOMAIN d.lanes /\ n.col \in Columns /\ Half(n) \in Nat
         /\ n.width \in Nat /\ n.height \in Nat /\ n.y \in Int
<1>1. n \in [lane : DOMAIN d.lanes, col : Columns, width : Nat, height : Nat, y : Int]
  BY DEF IsDocument
<1>2. \A w \in Nat : w \div 2 \in Nat
  OBVIOUS
<1> QED BY <1>1, <1>2 DEF Half

LEMMA EdgeFacts ==
  ASSUME NEW d, IsDocument(d), NEW e \in EdgesOf(d)
  PROVE  /\ From(d, e) \in NodesOf(d) /\ To(d, e) \in NodesOf(d)
         /\ e.from \in DOMAIN d.nodes /\ e.to \in DOMAIN d.nodes
         /\ e.label \in Nat /\ LabelClearance(e) \in Nat
         /\ e.via \in Seq(Int) /\ e.channelX \in Seq(Int) /\ e.labelAt \in Seq(Int)
<1>1. e \in [from : DOMAIN d.nodes, to : DOMAIN d.nodes, route : Routes, label : Nat,
             fromSide : Sides, toSide : Sides, via : Seq(Int), channelX : Seq(Int),
             labelAt : Seq(Int), channelY : BOOLEAN]
  BY DEF IsDocument
<1>2. e.label \in Nat /\ DirectClearance \in Nat
  BY <1>1 DEF DirectClearance
<1>3. LabelClearance(e) \in Nat
  <2>1. DirectClearance \in Int /\ e.label + 8 \in Int
    BY <1>2
  <2>2. Max({DirectClearance, e.label + 8}) \in {DirectClearance, e.label + 8}
    BY ONLY <2>1, MaxOfTwo
  <2> QED BY <1>2, <2>2 DEF LabelClearance
<1> QED BY <1>1, <1>3 DEF From, To, NodesOf

LEMMA FinitelyMany ==
  ASSUME NEW d, IsDocument(d) PROVE IsFiniteSet(NodesOf(d)) /\ IsFiniteSet(EdgesOf(d))
<1>1. IsFiniteSet(DOMAIN d.nodes) /\ IsFiniteSet(DOMAIN d.edges)
  BY Zenon DEF IsDocument
<1> QED BY <1>1, ImageFinite DEF NodesOf, EdgesOf

\* A constraint keeps a column some way right of an earlier one.
IsGap(k) ==
  /\ k.from \in Columns /\ k.to \in Columns /\ k.from < k.to /\ k.least \in Int
AreGaps(C) == IsFiniteSet(C) /\ \A k \in C : IsGap(k)
IsFeedback(f) == DOMAIN f = {"ranks", "laneGap"} /\ AreGaps(f.ranks) /\ f.laneGap \in Nat

LEMMA GapsTogether == ASSUME NEW C, NEW D, AreGaps(C), AreGaps(D) PROVE AreGaps(C \cup D)
  BY FS_Union DEF AreGaps

LEMMA GapsWithin == ASSUME NEW C, AreGaps(C), NEW D \in SUBSET C PROVE AreGaps(D)
  BY FS_Subset DEF AreGaps

LEMMA GapsOf ==
  ASSUME NEW S, IsFiniteSet(S), NEW f, \A x \in S : IsGap(f[x])
  PROVE  AreGaps({f[x] : x \in S})
  BY ImageFinite DEF AreGaps

LEMMA ApartIsGap ==
  ASSUME NEW a \in Columns, NEW b \in Columns, a < b, NEW least \in Int
  PROVE  IsGap(Apart(a, b, least))
  BY DEF Apart, IsGap

LEMMA BaselineIs == AreGaps(Baseline)
<1> DEFINE f == [c \in 1..5 |-> Apart(c, c + 1, Pitch)]
<1>1. IsFiniteSet(1..5)
  <2>1. 1 \in Int /\ 5 \in Int
    OBVIOUS
  <2> QED BY ONLY <2>1, FS_Interval
<1>2. \A c \in 1..5 : IsGap(f[c])
  BY ApartIsGap DEF Columns, Pitch
<1>3. Baseline = {f[c] : c \in 1..5}
  BY DEF Baseline
<1> HIDE DEF f
<1> QED BY <1>1, <1>2, <1>3, GapsOf

LEMMA NodesApartIs == ASSUME NEW d, IsDocument(d) PROVE AreGaps(NodesApart(d))
<1> DEFINE S == {q \in NodesOf(d) \X NodesOf(d) :
                   q[1].lane = q[2].lane /\ q[1].col < q[2].col /\ Overlap(q[1], q[2], 8)}
           f == [p \in S |-> Apart(p[1].col, p[2].col, Half(p[1]) + 8 + Half(p[2]))]
<1>1. IsFiniteSet(S)
  <2>1. IsFiniteSet(NodesOf(d) \X NodesOf(d))
    BY FinitelyMany, FS_Product
  <2> QED BY <2>1, FS_Subset
<1>2. \A p \in S : IsGap(f[p])
  <2> SUFFICES ASSUME NEW p \in S PROVE IsGap(f[p])
    OBVIOUS
  <2>1. p[1] \in NodesOf(d) /\ p[2] \in NodesOf(d) /\ p[1].col < p[2].col
    OBVIOUS
  <2>2. Half(p[1]) + 8 + Half(p[2]) \in Int /\ p[1].col \in Columns /\ p[2].col \in Columns
    BY <2>1, NodeFacts
  <2>3. f[p] = Apart(p[1].col, p[2].col, Half(p[1]) + 8 + Half(p[2]))
    OBVIOUS
  <2> QED BY <2>1, <2>2, <2>3, ApartIsGap
<1>3. NodesApart(d) = {f[p] : p \in S}
  BY DEF NodesApart
<1> HIDE DEF S, f
<1> QED BY <1>1, <1>2, <1>3, GapsOf

\* The ends of a direct relationship, from left to right
LEMMA EndsInOrder ==
  ASSUME NEW d, IsDocument(d), NEW e \in EdgesOf(d), From(d, e).col # To(d, e).col
  PROVE  /\ Earlier(d, e) \in NodesOf(d) /\ Later(d, e) \in NodesOf(d)
         /\ Earlier(d, e).col \in Columns /\ Later(d, e).col \in Columns
         /\ Earlier(d, e).col < Later(d, e).col
         /\ Half(Earlier(d, e)) \in Nat /\ Half(Later(d, e)) \in Nat
         /\ Half(Earlier(d, e)) + Half(Later(d, e)) = Half(From(d, e)) + Half(To(d, e))
<1>1. From(d, e) \in NodesOf(d) /\ To(d, e) \in NodesOf(d)
  BY EdgeFacts
<1>2. /\ From(d, e).col \in Columns /\ To(d, e).col \in Columns
      /\ Half(From(d, e)) \in Nat /\ Half(To(d, e)) \in Nat
  BY <1>1, NodeFacts
<1>3. From(d, e).col < To(d, e).col \/ To(d, e).col < From(d, e).col
  BY <1>2 DEF Columns
<1>4. CASE From(d, e).col < To(d, e).col
  BY <1>1, <1>2, <1>4 DEF Earlier, Later
<1>5. CASE To(d, e).col < From(d, e).col
  <2>1. ~(From(d, e).col < To(d, e).col)
    BY <1>2, <1>5 DEF Columns
  <2> QED BY <1>1, <1>2, <1>5, <2>1 DEF Earlier, Later
<1> QED BY <1>3, <1>4, <1>5

LEMMA EdgesApart ==
  ASSUME NEW d, IsDocument(d), NEW S \in SUBSET EdgesOf(d), NEW gap,
         \A e \in S : From(d, e).col # To(d, e).col /\ gap[e] \in Int
  PROVE  AreGaps({EdgeApart(d, e, gap[e]) : e \in S})
<1> DEFINE f == [e \in S |-> EdgeApart(d, e, gap[e])]
<1>1. IsFiniteSet(S)
  BY FinitelyMany, FS_Subset
<1>2. \A e \in S : IsGap(f[e])
  <2> SUFFICES ASSUME NEW e \in S PROVE IsGap(EdgeApart(d, e, gap[e]))
    OBVIOUS
  <2>1. /\ Earlier(d, e).col \in Columns /\ Later(d, e).col \in Columns
        /\ Earlier(d, e).col < Later(d, e).col
        /\ Half(Earlier(d, e)) \in Nat /\ Half(Later(d, e)) \in Nat
    BY EndsInOrder
  <2>2. Half(Earlier(d, e)) + gap[e] + Half(Later(d, e)) \in Int
    BY <2>1
  <2> QED BY <2>1, <2>2, ApartIsGap DEF EdgeApart
<1>3. {EdgeApart(d, e, gap[e]) : e \in S} = {f[e] : e \in S}
  OBVIOUS
<1>4. AreGaps({f[e] : e \in S})
  <2> HIDE DEF f
  <2> QED BY <1>1, <1>2, GapsOf
<1> QED BY <1>3, <1>4

LEMMA DirectApartIs ==
  ASSUME NEW d, IsDocument(d) PROVE AreGaps(DirectApart(d)) /\ AreGaps(LabelsApart(d))
<1> DEFINE S == {f \in EdgesOf(d) : Direct(d, f)}
           L == {f \in EdgesOf(d) : Direct(d, f) /\ ~PrefersChannel(f)}
           clear == [e \in EdgesOf(d) |-> DirectClearance]
           label == [e \in EdgesOf(d) |-> LabelClearance(e)]
<1>1. \A e \in S : From(d, e).col # To(d, e).col /\ clear[e] \in Int
  BY DEF Direct, DirectClearance
<1>2. \A e \in L : From(d, e).col # To(d, e).col /\ label[e] \in Int
  BY EdgeFacts DEF Direct
<1>3. S \in SUBSET EdgesOf(d)
  OBVIOUS
<1>8. L \in SUBSET EdgesOf(d)
  OBVIOUS
<1>4. DirectApart(d) = {EdgeApart(d, e, clear[e]) : e \in S}
  BY DEF DirectApart
<1>5. LabelsApart(d) = {EdgeApart(d, e, label[e]) : e \in L}
  BY DEF LabelsApart
<1> HIDE DEF S, L, clear, label
<1>6. AreGaps({EdgeApart(d, e, clear[e]) : e \in S})
  <2>1. PICK T, gap : T = S /\ gap = clear
    OBVIOUS
  <2>2. T \in SUBSET EdgesOf(d) /\ \A e \in T : From(d, e).col # To(d, e).col /\ gap[e] \in Int
    BY <1>1, <1>3, <2>1
  <2>3. AreGaps({EdgeApart(d, e, gap[e]) : e \in T})
    BY ONLY <2>2, IsDocument(d), EdgesApart
  <2> QED BY <2>1, <2>3
<1>7. AreGaps({EdgeApart(d, e, label[e]) : e \in L})
  <2>1. PICK T, gap : T = L /\ gap = label
    OBVIOUS
  <2>2. T \in SUBSET EdgesOf(d) /\ \A e \in T : From(d, e).col # To(d, e).col /\ gap[e] \in Int
    BY <1>2, <1>8, <2>1
  <2>3. AreGaps({EdgeApart(d, e, gap[e]) : e \in T})
    BY ONLY <2>2, IsDocument(d), EdgesApart
  <2> QED BY <2>1, <2>3
<1> QED BY <1>4, <1>5, <1>6, <1>7

IsSpan(s) == s.first \in Columns /\ s.last \in Columns /\ s.first <= s.last /\ s.label \in Nat

LEMMA SpansApart ==
  ASSUME NEW S, IsFiniteSet(S), \A s \in S : IsSpan(s), NEW natural \in Int, NEW padding \in Int
  PROVE  AreGaps(UNION {SpanApart(s, natural, padding) : s \in S})
<1> DEFINE over(s) == Max({0, s.label + padding - natural})
           f == [s \in S |-> IF s.first # s.last THEN Apart(s.first, s.last, over(s))
                             ELSE Apart(s.last, s.last + 1, Pitch + over(s))]
           T == {s \in S : s.first # s.last \/ s.last < 6}
<1>1. IsFiniteSet(T)
  BY FS_Subset
<1>2. \A s \in T : IsGap(f[s])
  <2> SUFFICES ASSUME NEW s \in T PROVE IsGap(f[s])
    OBVIOUS
  <2>1. over(s) \in Int
    <3>1. PICK t \in Int : t = s.label + padding - natural
      BY DEF IsSpan
    <3>2. Max({0, t}) \in Int
      BY MaxWithZero
    <3> QED BY <3>1, <3>2
  <2> HIDE DEF over
  <2>2. CASE s.first # s.last
    <3>1. s.first < s.last /\ s.first \in Columns /\ s.last \in Columns
      BY <2>2 DEF IsSpan, Columns
    <3> QED BY <2>1, <2>2, <3>1, ApartIsGap
  <2>3. CASE s.first = s.last
    <3>1. /\ s.last \in Columns /\ s.last + 1 \in Columns /\ s.last < s.last + 1
          /\ Pitch + over(s) \in Int
      BY <2>1, <2>3 DEF IsSpan, Columns, Pitch
    <3> QED BY <2>3, <3>1, ApartIsGap
  <2> QED BY <2>2, <2>3
<1>3. UNION {SpanApart(s, natural, padding) : s \in S} = {f[s] : s \in T}
  <2>1. \A s \in S : SpanApart(s, natural, padding) = IF s \in T THEN {f[s]} ELSE {}
    BY DEF SpanApart
  <2> HIDE DEF f, T
  <2>2. T \subseteq S
    BY DEF T
  <2> QED BY <2>1, <2>2
<1> HIDE DEF f, T
<1> QED BY <1>1, <1>2, <1>3, GapsOf

LEMMA ConstraintsAre ==
  ASSUME NEW d, IsDocument(d), NEW f, IsFeedback(f) PROVE AreGaps(Constraints(d, f))
<1>1. /\ \A p \in d.phases : IsSpan(p)
      /\ \A g \in d.groups : IsSpan(g)
      /\ IsFiniteSet(d.phases) /\ IsFiniteSet(d.groups)
  BY DEF IsDocument, IsSpan
<1>2. /\ AreGaps(UNION {SpanApart(p, 92, 8) : p \in d.phases})
      /\ AreGaps(UNION {SpanApart(g, 100, 20) : g \in d.groups})
  BY <1>1, SpansApart
<1>3. AreGaps(Baseline) /\ AreGaps(f.ranks) /\ AreGaps(NodesApart(d)) /\ AreGaps(DirectApart(d))
        /\ AreGaps(LabelsApart(d))
  BY BaselineIs, NodesApartIs, DirectApartIs DEF IsFeedback
<1>4. AreGaps(Baseline \cup f.ranks \cup NodesApart(d) \cup DirectApart(d) \cup LabelsApart(d))
  BY <1>3, GapsTogether
<1> DEFINE most == Baseline \cup f.ranks \cup NodesApart(d) \cup DirectApart(d) \cup LabelsApart(d)
           phases == UNION {SpanApart(p, 92, 8) : p \in d.phases}
           groups == UNION {SpanApart(g, 100, 20) : g \in d.groups}
<1>5. Constraints(d, f) = most \cup phases \cup groups
  BY DEF Constraints
<1>6. AreGaps(most) /\ AreGaps(phases) /\ AreGaps(groups)
  BY <1>2, <1>4
<1> HIDE DEF most, phases, groups
<1> QED BY <1>5, <1>6, GapsTogether
-----------------------------------------------------------------------------
(* The solver                                                              *)

\* The first n columns are placed: none left of the baseline, all constraints met.
Meets(C, r, n) ==
  /\ r \in Seq(Int) /\ Len(r) = n
  /\ \A c \in 1..n : r[c] >= FirstColumn + (c - 1) * Pitch
  /\ \A k \in C : k.to <= n => r[k.to] - r[k.from] >= k.least

LEMMA NextMeets ==
  ASSUME NEW C, AreGaps(C), NEW left, NEW n \in 1..5, Meets(C, left, n), NEW right,
         right = Append(left, Max({FirstColumn + Len(left) * Pitch} \cup
                   {left[k.from] + k.least : k \in {q \in C : q.to = Len(left) + 1}}))
  PROVE  Meets(C, right, n + 1)
<1> DEFINE S == {q \in C : q.to = n + 1}
           f == [k \in S |-> left[k.from] + k.least]
           m == Max({FirstColumn + n * Pitch} \cup {f[k] : k \in S})
<1>1. left \in Seq(Int) /\ Len(left) = n
  BY DEF Meets
<1>2. \A k \in C : k.from \in Columns /\ k.to \in Columns /\ k.from < k.to /\ k.least \in Int
  BY DEF AreGaps, IsGap
<1>3. \A k \in C : k.to <= n + 1 => k.from \in 1..n
  BY <1>2 DEF Columns
<1>4. \A k \in S : f[k] \in Int /\ f[k] = left[k.from] + k.least
  <2>1. \A k \in S : k.from \in 1..n /\ k.least \in Int
    BY <1>2, <1>3
  <2> QED BY <1>1, <2>1
<1>5. IsFiniteSet(S) /\ FirstColumn + n * Pitch \in Int
  BY FS_Subset DEF AreGaps, FirstColumn, Pitch
<1>6. m \in Int /\ m >= FirstColumn + n * Pitch /\ \A k \in S : m >= f[k]
  <2> HIDE DEF S, f
  <2> QED BY <1>4, <1>5, MaxOver
<1>7. right = Append(left, m)
  BY <1>1
<1> HIDE DEF m, f
<1>8. /\ right \in Seq(Int) /\ Len(right) = n + 1
      /\ right[n + 1] = m /\ \A c \in 1..n : right[c] = left[c]
  BY <1>1, <1>6, <1>7
<1>9. \A c \in 1..(n + 1) : right[c] >= FirstColumn + (c - 1) * Pitch
  <2>1. \A c \in 1..n : right[c] >= FirstColumn + (c - 1) * Pitch
    BY <1>8 DEF Meets
  <2>2. \A c \in 1..(n + 1) : c \in 1..n \/ c = n + 1
    OBVIOUS
  <2>3. (n + 1) - 1 = n
    OBVIOUS
  <2> QED BY <1>6, <1>8, <2>1, <2>2, <2>3
<1>10. ASSUME NEW k \in C, k.to <= n + 1 PROVE right[k.to] - right[k.from] >= k.least
  <2>1. k.from \in 1..n /\ right[k.from] = left[k.from] /\ left[k.from] \in Int /\ k.least \in Int
    BY <1>1, <1>2, <1>3, <1>8, <1>10
  <2>2. CASE k.to = n + 1
    <3>1. m >= left[k.from] + k.least
      BY <1>4, <1>6, <2>2
    <3> QED BY SMTT(40), <1>6, <1>8, <2>1, <2>2, <3>1
  <2>3. CASE k.to <= n
    <3>1. k.to \in 1..n /\ left[k.to] - left[k.from] >= k.least
      BY <1>2, <2>3 DEF Meets, Columns
    <3> QED BY <1>8, <2>1, <3>1
  <2>4. k.to \in Int /\ n \in Int /\ k.to <= n + 1
    BY <1>2, <1>10 DEF Columns
  <2>5. k.to = n + 1 \/ k.to <= n
    BY ONLY <2>4
  <2> QED BY <2>2, <2>3, <2>5
<1> QED BY <1>8, <1>9, <1>10 DEF Meets

LEMMA SolvedMeets == ASSUME NEW C, AreGaps(C) PROVE Meets(C, Solved(C), 6)
<1> DEFINE Place(left) ==
        Append(left,
               Max({FirstColumn + Len(left) * Pitch} \cup
                   {left[k.from] + k.least : k \in {q \in C : q.to = Len(left) + 1}}))
<1>1. Meets(C, <<FirstColumn>>, 1)
  <2>1. \A k \in C : k.from \in Columns /\ k.to \in Columns /\ k.from < k.to
    BY DEF AreGaps, IsGap
  <2>2. \A k \in C : ~(k.to <= 1)
    BY <2>1 DEF Columns
  <2>3. <<FirstColumn>> \in Seq(Int) /\ Len(<<FirstColumn>>) = 1
    BY DEF FirstColumn
  <2>4. \A c \in 1..1 : <<FirstColumn>>[c] >= FirstColumn + (c - 1) * Pitch
    BY DEF FirstColumn, Pitch
  <2> QED BY <2>2, <2>3, <2>4 DEF Meets
<1>2. \A left : \A n \in 1..5 : Meets(C, left, n) => Meets(C, Place(left), n + 1)
  <2> SUFFICES ASSUME NEW left, NEW n \in 1..5, Meets(C, left, n)
               PROVE  Meets(C, Place(left), n + 1)
    OBVIOUS
  <2>1. PICK right : right = Place(left)
    OBVIOUS
  <2>2. Meets(C, right, n + 1)
    BY <2>1, NextMeets
  <2> QED BY <2>1, <2>2
<1>3. Solved(C) = Place(Place(Place(Place(Place(<<FirstColumn>>)))))
  BY DEF Solved
<1> HIDE DEF Place
<1>4. Meets(C, Place(<<FirstColumn>>), 2)
  BY <1>1, <1>2
<1>5. Meets(C, Place(Place(<<FirstColumn>>)), 3)
  BY <1>2, <1>4
<1>6. Meets(C, Place(Place(Place(<<FirstColumn>>))), 4)
  BY <1>2, <1>5
<1>7. Meets(C, Place(Place(Place(Place(<<FirstColumn>>)))), 5)
  BY <1>2, <1>6
<1>8. Meets(C, Place(Place(Place(Place(Place(<<FirstColumn>>))))), 6)
  BY <1>2, <1>7
<1> QED BY <1>3, <1>8
-----------------------------------------------------------------------------
(* The plan of a document                                                  *)

IsPlan(r) == \A c \in Columns : r[c] \in Int

LEMMA ShiftedIs ==
  ASSUME NEW r, IsPlan(r), NEW by \in Int
  PROVE  \E s \in Nat : s >= by /\ \A c \in Columns : Shifted(r, by)[c] = r[c] + s
<1>1. PICK s \in Nat : s = Max({0, by}) /\ s >= by
  BY MaxWithZero
<1>2. Shifted(r, by) = <<r[1] + s, r[2] + s, r[3] + s, r[4] + s, r[5] + s, r[6] + s>>
  BY <1>1 DEF Shifted
<1>3. \A c \in Columns : c = 1 \/ c = 2 \/ c = 3 \/ c = 4 \/ c = 5 \/ c = 6
  BY DEF Columns
<1> QED BY <1>1, <1>2, <1>3

\* Every column of r lies s right of where q has it.
Moved(q, r, s) == s \in Int /\ IsPlan(q) /\ \A c \in Columns : r[c] = q[c] + s

LEMMA MovedIs == ASSUME NEW q, NEW r, NEW s, Moved(q, r, s) PROVE IsPlan(r)
  BY DEF Moved, IsPlan

LEMMA MinMoved ==
  ASSUME NEW S \in SUBSET Int, IsFiniteSet(S), S # {}, NEW T \in SUBSET Int, IsFiniteSet(T),
         NEW s \in Int, \A x \in S : x + s \in T, \A y \in T : y - s \in S
  PROVE  Min(T) = Min(S) + s
<1>1. Min(S) \in S /\ Min(S) \in Int /\ \A y \in S : Min(S) <= y
  BY MinIs
<1>2. T # {}
  BY <1>1
<1>3. Min(T) \in T /\ Min(T) \in Int /\ \A y \in T : Min(T) <= y
  BY <1>2, MinIs
<1>4. Min(T) <= Min(S) + s
  BY <1>1, <1>3
<1>5. Min(S) <= Min(T) - s
  BY <1>1, <1>3
<1> QED BY <1>1, <1>3, <1>4, <1>5

Inside(d, g) == {n \in NodesOf(d) : n.lane = g.lane /\ n.col \in g.first..g.last}
GroupWidth(g, r) == Max({(r[g.last] + 50) - (r[g.first] - 50), g.label + 20})
GroupLeft(g, r) ==
  IF g.first = g.last /\ GroupWidth(g, r) > (r[g.last] + 50) - (r[g.first] - 50)
  THEN r[g.first] - 50 ELSE ((r[g.first] - 50) + (r[g.last] + 50) - GroupWidth(g, r)) \div 2
LeftEnds(d, g, r) == {GroupLeft(g, r)} \cup {r[n.col] - Half(n) - 4 : n \in Inside(d, g)}
RightEnds(d, g, r) ==
  {GroupLeft(g, r) + GroupWidth(g, r)} \cup {r[n.col] + Half(n) + 4 : n \in Inside(d, g)}

LEMMA GroupSpanIs ==
  ASSUME NEW d, NEW g, NEW r
  PROVE  GroupSpan(d, g, r) = [left |-> Min(LeftEnds(d, g, r)), right |-> Max(RightEnds(d, g, r))]
  BY DEF GroupSpan, LeftEnds, RightEnds, GroupLeft, GroupWidth, Inside

LEMMA GroupEnds ==
  ASSUME NEW d, IsDocument(d), NEW g \in d.groups, NEW r, IsPlan(r)
  PROVE  /\ GroupWidth(g, r) \in Int /\ GroupLeft(g, r) \in Int
         /\ LeftEnds(d, g, r) \in SUBSET Int /\ IsFiniteSet(LeftEnds(d, g, r))
         /\ RightEnds(d, g, r) \in SUBSET Int /\ IsFiniteSet(RightEnds(d, g, r))
<1>1. g.first \in Columns /\ g.last \in Columns /\ g.label \in Nat
  BY DEF IsDocument
<1>2. r[g.first] \in Int /\ r[g.last] \in Int
  BY <1>1 DEF IsPlan
<1>3. GroupWidth(g, r) \in Int
  <2>1. (r[g.last] + 50) - (r[g.first] - 50) \in Int /\ g.label + 20 \in Int
    BY <1>1, <1>2
  <2> QED BY <2>1, MaxOfTwo DEF GroupWidth
<1>4. GroupLeft(g, r) \in Int
  BY <1>2, <1>3 DEF GroupLeft
<1>5. \A n \in Inside(d, g) : r[n.col] \in Int /\ Half(n) \in Int
  BY NodeFacts DEF Inside, IsPlan
<1>6. IsFiniteSet(Inside(d, g))
  BY FinitelyMany, FS_Subset DEF Inside
<1> DEFINE lf == [n \in Inside(d, g) |-> r[n.col] - Half(n) - 4]
           rf == [n \in Inside(d, g) |-> r[n.col] + Half(n) + 4]
<1>7. IsFiniteSet({lf[n] : n \in Inside(d, g)}) /\ IsFiniteSet({rf[n] : n \in Inside(d, g)})
  <2> HIDE DEF lf, rf
  <2> QED BY <1>6, ImageFinite
<1>8. /\ {lf[n] : n \in Inside(d, g)} = {r[n.col] - Half(n) - 4 : n \in Inside(d, g)}
      /\ {rf[n] : n \in Inside(d, g)} = {r[n.col] + Half(n) + 4 : n \in Inside(d, g)}
  OBVIOUS
<1>9. /\ IsFiniteSet({r[n.col] - Half(n) - 4 : n \in Inside(d, g)})
      /\ IsFiniteSet({r[n.col] + Half(n) + 4 : n \in Inside(d, g)})
      /\ IsFiniteSet({GroupLeft(g, r)}) /\ IsFiniteSet({GroupLeft(g, r) + GroupWidth(g, r)})
  BY <1>7, <1>8, FS_Singleton
<1>10. IsFiniteSet(LeftEnds(d, g, r)) /\ IsFiniteSet(RightEnds(d, g, r))
  BY <1>9, FS_Union DEF LeftEnds, RightEnds
<1>11. LeftEnds(d, g, r) \in SUBSET Int /\ RightEnds(d, g, r) \in SUBSET Int
  BY <1>3, <1>4, <1>5 DEF LeftEnds, RightEnds
<1> QED BY <1>3, <1>4, <1>10, <1>11

LEMMA GroupSpanType ==
  ASSUME NEW d, IsDocument(d), NEW g \in d.groups, NEW r, IsPlan(r)
  PROVE  GroupSpan(d, g, r).left \in Int /\ GroupSpan(d, g, r).right \in Int
<1>1. LeftEnds(d, g, r) # {} /\ RightEnds(d, g, r) # {}
  BY DEF LeftEnds, RightEnds
<1>2. Min(LeftEnds(d, g, r)) \in Int /\ Max(RightEnds(d, g, r)) \in Int
  BY <1>1, GroupEnds, MinIs, MaxIs
<1> QED BY <1>2, GroupSpanIs

\* A group moves with its columns.
LEMMA GroupMoves ==
  ASSUME NEW d, IsDocument(d), NEW g \in d.groups, NEW q, NEW r, NEW s, Moved(q, r, s)
  PROVE  GroupSpan(d, g, r).left = GroupSpan(d, g, q).left + s
<1>1. IsPlan(q) /\ IsPlan(r) /\ s \in Int
  BY MovedIs DEF Moved
<1>2. g.first \in Columns /\ g.last \in Columns
  BY DEF IsDocument
<1>3. /\ r[g.first] = q[g.first] + s /\ r[g.last] = q[g.last] + s
      /\ q[g.first] \in Int /\ q[g.last] \in Int
  BY <1>1, <1>2 DEF Moved, IsPlan
<1>4. (r[g.last] + 50) - (r[g.first] - 50) = (q[g.last] + 50) - (q[g.first] - 50)
  BY <1>1, <1>3
<1>5. GroupWidth(g, r) = GroupWidth(g, q) /\ GroupWidth(g, q) \in Int
  BY <1>1, <1>4, GroupEnds DEF GroupWidth
<1>6. GroupLeft(g, r) = GroupLeft(g, q) + s
  <2> DEFINE a == (q[g.first] - 50) + (q[g.last] + 50) - GroupWidth(g, q)
             b == (r[g.first] - 50) + (r[g.last] + 50) - GroupWidth(g, r)
  <2>1. a \in Int /\ b = a + 2 * s
    BY <1>1, <1>3, <1>5
  <2>2. b \div 2 = (a \div 2) + s
    <3> HIDE DEF a, b
    <3> QED BY <2>1, <1>1, HalfShift
  <2>3. r[g.first] - 50 = (q[g.first] - 50) + s
    BY <1>1, <1>3
  <2> QED BY <1>4, <1>5, <2>2, <2>3 DEF GroupLeft
<1>7. GroupLeft(g, q) \in Int /\ \A n \in Inside(d, g) :
        r[n.col] - Half(n) - 4 = (q[n.col] - Half(n) - 4) + s /\ q[n.col] - Half(n) - 4 \in Int
  <2>1. \A n \in Inside(d, g) : r[n.col] = q[n.col] + s /\ q[n.col] \in Int /\ Half(n) \in Int
    BY NodeFacts DEF Inside, Moved, IsPlan
  <2>2. \A n \in Inside(d, g) :
          r[n.col] - Half(n) - 4 = (q[n.col] - Half(n) - 4) + s /\ q[n.col] - Half(n) - 4 \in Int
    BY <1>1, <2>1
  <2> QED BY <1>1, <2>2, GroupEnds
<1>8. \A x \in LeftEnds(d, g, q) : x + s \in LeftEnds(d, g, r)
  BY <1>1, <1>6, <1>7 DEF LeftEnds
<1>9. \A y \in LeftEnds(d, g, r) : y - s \in LeftEnds(d, g, q)
  <2> SUFFICES ASSUME NEW y \in LeftEnds(d, g, r) PROVE y - s \in LeftEnds(d, g, q)
    OBVIOUS
  <2>1. CASE y = GroupLeft(g, r)
    <3>1. y - s = GroupLeft(g, q)
      BY <1>1, <1>6, <1>7, <2>1
    <3> QED BY <3>1 DEF LeftEnds
  <2>2. CASE \E n \in Inside(d, g) : y = r[n.col] - Half(n) - 4
    <3>1. PICK n \in Inside(d, g) : y = r[n.col] - Half(n) - 4
      BY <2>2
    <3>2. y - s = q[n.col] - Half(n) - 4
      <4>1. PICK u \in Int : u = q[n.col] - Half(n) - 4
        BY <1>7
      <4>2. y = u + s
        BY <1>7, <3>1, <4>1
      <4> QED BY <1>1, <4>1, <4>2
    <3> QED BY <3>2 DEF LeftEnds
  <2> QED BY <2>1, <2>2 DEF LeftEnds
<1>10. Min(LeftEnds(d, g, r)) = Min(LeftEnds(d, g, q)) + s
  <2>1. LeftEnds(d, g, q) # {}
    BY DEF LeftEnds
  <2> QED BY <1>1, <1>8, <1>9, <2>1, GroupEnds, MinMoved
<1> QED BY <1>10, GroupSpanIs

LEMMA PhaseSpanType ==
  ASSUME NEW d, IsDocument(d), NEW p \in d.phases, NEW r, IsPlan(r)
  PROVE  PhaseSpan(p, r).left \in Int
<1>1. p.first \in Columns /\ p.last \in Columns /\ p.label \in Nat
  BY DEF IsDocument
<1>2. r[p.first] \in Int /\ r[p.last] \in Int
  BY <1>1 DEF IsPlan
<1> DEFINE width == Max({r[p.last] - r[p.first] + 92, p.label + 8})
<1>3. width \in Int
  <2>1. r[p.last] - r[p.first] + 92 \in Int /\ p.label + 8 \in Int
    BY <1>1, <1>2
  <2> QED BY <2>1, MaxOfTwo
<1> HIDE DEF width
<1>4. PhaseSpan(p, r).left = IF p.first = p.last THEN r[p.first] - 46
                             ELSE (r[p.first] + r[p.last] - width) \div 2
  BY DEF PhaseSpan, width
<1> QED BY <1>2, <1>3, <1>4

LEMMA ElementsAre == ASSUME NEW q \in Seq(Int) PROVE \A c \in 1..Len(q) : q[c] \in Int
  OBVIOUS

LEMMA MaxOverIs ==
  ASSUME NEW S, IsFiniteSet(S), NEW f, \A x \in S : f[x] \in Int
  PROVE  {f[x] : x \in S} \in SUBSET Int /\ IsFiniteSet({f[x] : x \in S})
  BY ImageFinite

LEMMA FirstShiftIs ==
  ASSUME NEW d, IsDocument(d), NEW r, IsPlan(r)
  PROVE  /\ FirstRankShift(d, r) \in Int
         /\ \A n \in NodesOf(d) : n.col = 1 => FirstRankShift(d, r) >= 48 + Half(n) - r[1]
<1> DEFINE S == {m \in NodesOf(d) : m.col = 1}
           f == [n \in S |-> Half(n)]
           most == Max({46} \cup {f[n] : n \in S})
<1>1. IsFiniteSet(S) /\ \A n \in S : f[n] \in Int /\ f[n] = Half(n)
  <2>1. IsFiniteSet(S)
    BY FinitelyMany, FS_Subset
  <2> QED BY <2>1, NodeFacts
<1>2. most \in Int /\ \A n \in S : most >= f[n]
  <2>1. PICK z, U, h : z = 46 /\ U = S /\ h = f
    OBVIOUS
  <2> HIDE DEF S, f
  <2>2. z \in Int /\ IsFiniteSet(U) /\ \A x \in U : h[x] \in Int
    BY <1>1, <2>1
  <2>3. LET top == Max({z} \cup {h[x] : x \in U})
        IN  top \in Int /\ top >= z /\ \A x \in U : top >= h[x]
    BY <2>2, MaxOver
  <2> QED BY <2>1, <2>3
<1>3. most = Max({46} \cup {Half(n) : n \in S})
  <2>1. {f[n] : n \in S} = {Half(n) : n \in S}
    OBVIOUS
  <2> QED BY <2>1
<1>4. FirstRankShift(d, r) = 48 + most - r[1]
  BY <1>3 DEF FirstRankShift
<1>5. r[1] \in Int
  BY DEF IsPlan, Columns
<1> HIDE DEF most
<1>6. \A n \in NodesOf(d) : n.col = 1 => most >= Half(n) /\ Half(n) \in Int
  BY <1>1, <1>2
<1> QED BY <1>2, <1>4, <1>5, <1>6

LEMMA HeaderShiftIs ==
  ASSUME NEW d, IsDocument(d), NEW r, IsPlan(r) PROVE LaneHeaderShift(d, r) \in Int
<1> DEFINE f == [n \in TopEndpoints(d) |-> 54 + d.lanes[n.lane] + 2 - r[n.col]]
<1>1. TopEndpoints(d) \subseteq NodesOf(d)
  BY EdgeFacts DEF TopEndpoints
<1>2. IsFiniteSet(TopEndpoints(d))
  BY <1>1, FinitelyMany, FS_Subset
<1>3. \A n \in TopEndpoints(d) : f[n] \in Int
  <2> SUFFICES ASSUME NEW n \in TopEndpoints(d) PROVE f[n] \in Int
    OBVIOUS
  <2>1. n.lane \in DOMAIN d.lanes /\ n.col \in Columns
    BY <1>1, NodeFacts
  <2>2. d.lanes[n.lane] \in Nat /\ r[n.col] \in Int
    BY <2>1 DEF IsDocument, IsPlan
  <2> QED BY <2>2
<1>4. LaneHeaderShift(d, r) = Max({0} \cup {f[n] : n \in TopEndpoints(d)})
  BY DEF LaneHeaderShift
<1>5. PICK z \in Int : z = 0
  OBVIOUS
<1> HIDE DEF f
<1>6. Max({z} \cup {f[n] : n \in TopEndpoints(d)}) \in Int
  BY <1>2, <1>3, MaxOver
<1> QED BY <1>4, <1>5, <1>6

LEMMA ContentShiftIs ==
  ASSUME NEW d, IsDocument(d), NEW r, IsPlan(r)
  PROVE  /\ ContentShift(d, r) \in Int
         /\ \A g \in d.groups : ContentShift(d, r) >= 44 - GroupSpan(d, g, r).left
<1> DEFINE E == {f \in EdgesOf(d) : Direct(d, f) /\ PrefersChannel(f)}
           ef == [e \in E |->
                   16 - ((r[From(d, e).col] + r[To(d, e).col]) \div 2 - e.label \div 2)]
           pf == [p \in d.phases |-> 16 - PhaseSpan(p, r).left]
           gf == [g \in d.groups |-> 44 - GroupSpan(d, g, r).left]
           edges == {ef[e] : e \in E}
           phases == {pf[p] : p \in d.phases}
           groups == {gf[g] : g \in d.groups}
           T == {0} \cup edges \cup phases \cup groups
<1>1. ContentShift(d, r) = Max(T)
  BY DEF ContentShift
<1>2. \A e \in E : ef[e] \in Int
  <2> SUFFICES ASSUME NEW e \in E PROVE ef[e] \in Int
    OBVIOUS
  <2>1. From(d, e).col \in Columns /\ To(d, e).col \in Columns /\ e.label \in Nat
    BY EdgeFacts, NodeFacts
  <2>2. r[From(d, e).col] \in Int /\ r[To(d, e).col] \in Int
    BY <2>1 DEF IsPlan
  <2> QED BY <2>1, <2>2
<1>3. \A p \in d.phases : pf[p] \in Int
  <2>1. \A p \in d.phases : PhaseSpan(p, r).left \in Int
    BY PhaseSpanType
  <2> QED BY <2>1
<1>4. \A g \in d.groups : gf[g] \in Int
  <2>1. \A g \in d.groups : GroupSpan(d, g, r).left \in Int
    BY GroupSpanType
  <2> QED BY <2>1
<1>5. IsFiniteSet(E) /\ IsFiniteSet(d.phases) /\ IsFiniteSet(d.groups)
  <2>1. IsFiniteSet(E)
    BY FinitelyMany, FS_Subset
  <2> QED BY <2>1 DEF IsDocument
<1>6. \A g \in d.groups : gf[g] \in groups /\ gf[g] = 44 - GroupSpan(d, g, r).left
  OBVIOUS
<1> HIDE DEF E, ef, pf, gf
<1>7. /\ edges \in SUBSET Int /\ IsFiniteSet(edges)
      /\ phases \in SUBSET Int /\ IsFiniteSet(phases)
      /\ groups \in SUBSET Int /\ IsFiniteSet(groups)
  BY <1>2, <1>3, <1>4, <1>5, MaxOverIs
<1> HIDE DEF edges, phases, groups
<1>8. IsFiniteSet({0})
  BY FS_Singleton
<1>9. IsFiniteSet(T) /\ T \in SUBSET Int /\ T # {}
  <2>1. IsFiniteSet({0} \cup edges)
    BY <1>7, <1>8, FS_Union
  <2>2. IsFiniteSet({0} \cup edges \cup phases)
    BY <1>7, <2>1, FS_Union
  <2>3. IsFiniteSet(T)
    BY <1>7, <2>2, FS_Union
  <2> QED BY <1>7, <2>3
<1>10. Max(T) \in Int /\ \A y \in T : Max(T) >= y
  <2> HIDE DEF T
  <2> QED BY <1>9, MaxIs
<1>11. \A g \in d.groups : Max(T) >= gf[g]
  BY <1>6, <1>10
<1> QED BY <1>1, <1>6, <1>10, <1>11

\* What the solver and the shifts after it make of a document
LEMMA RanksAre ==
  ASSUME NEW d, IsDocument(d), NEW f, IsFeedback(f)
  PROVE  LET r == Ranks(d, f)
         IN  /\ IsPlan(r)
             /\ \A k \in Constraints(d, f) : r[k.to] - r[k.from] >= k.least
             /\ \A c \in Columns : r[c] >= FirstColumn + (c - 1) * Pitch
             /\ \A n \in NodesOf(d) : n.col = 1 => r[1] - Half(n) >= 48
             /\ \A g \in d.groups : GroupSpan(d, g, r).left >= 44
<1>1. PICK C : C = Constraints(d, f) /\ AreGaps(C)
  BY ConstraintsAre
<1>2. PICK q : q = Solved(C) /\ Meets(C, q, 6)
  BY <1>1, SolvedMeets
<1> DEFINE first == Shifted(q, FirstRankShift(d, q))
           header == Shifted(first, LaneHeaderShift(d, first))
           r == Shifted(header, ContentShift(d, header))
<1>0. Ranks(d, f) = r
  BY <1>1, <1>2 DEF Ranks
<1>3. IsPlan(q)
  <2>1. q \in Seq(Int) /\ Len(q) = 6
    BY <1>2 DEF Meets
  <2>2. \A c \in 1..Len(q) : q[c] \in Int
    BY <2>1, ElementsAre
  <2> QED BY <2>1, <2>2 DEF IsPlan, Columns
<1>4. PICK s1 \in Nat : s1 >= FirstRankShift(d, q) /\ \A c \in Columns : first[c] = q[c] + s1
  BY <1>3, FirstShiftIs, ShiftedIs
<1> HIDE DEF first
<1>5. Moved(q, first, s1) /\ IsPlan(first)
  BY <1>3, <1>4 DEF Moved, IsPlan
<1>6. PICK s2 \in Nat : \A c \in Columns : header[c] = first[c] + s2
  BY <1>5, HeaderShiftIs, ShiftedIs
<1> HIDE DEF header
<1>7. Moved(first, header, s2) /\ IsPlan(header)
  BY <1>5, <1>6 DEF Moved, IsPlan
<1>8. PICK s3 \in Nat : s3 >= ContentShift(d, header) /\ \A c \in Columns : r[c] = header[c] + s3
  BY <1>7, ContentShiftIs, ShiftedIs
<1> HIDE DEF r
<1>9. Moved(header, r, s3) /\ IsPlan(r)
  BY <1>7, <1>8 DEF Moved, IsPlan
<1> DEFINE s == s1 + s2 + s3
<1>10. s \in Nat /\ \A c \in Columns : r[c] = q[c] + s /\ q[c] \in Int
  BY <1>3, <1>4, <1>6, <1>8 DEF IsPlan
<1> HIDE DEF s
<1>11. ASSUME NEW k \in C PROVE r[k.to] - r[k.from] >= k.least
  <2>1. k.from \in Columns /\ k.to \in Columns /\ k.least \in Int /\ k.to <= 6
    BY <1>1 DEF AreGaps, IsGap, Columns
  <2>2. q[k.to] - q[k.from] >= k.least
    BY <1>2, <2>1 DEF Meets
  <2> QED BY <1>10, <2>1, <2>2
<1>12. ASSUME NEW c \in Columns PROVE r[c] >= FirstColumn + (c - 1) * Pitch
  <2>1. q[c] >= FirstColumn + (c - 1) * Pitch
    BY <1>2 DEF Meets, Columns
  <2>2. FirstColumn + (c - 1) * Pitch \in Int
    BY DEF FirstColumn, Pitch, Columns
  <2> QED BY <1>10, <2>1, <2>2
<1>13. ASSUME NEW n \in NodesOf(d), n.col = 1 PROVE r[1] - Half(n) >= 48
  <2>1. FirstRankShift(d, q) >= 48 + Half(n) - q[1] /\ FirstRankShift(d, q) \in Int
    BY <1>3, <1>13, FirstShiftIs
  <2>2. 1 \in Columns /\ Half(n) \in Int
    BY NodeFacts DEF Columns
  <2>3. r[1] = q[1] + s1 + s2 + s3 /\ q[1] \in Int
    BY <1>10, <2>2 DEF s
  <2> QED BY <1>4, <2>1, <2>2, <2>3
<1>14. ASSUME NEW g \in d.groups PROVE GroupSpan(d, g, r).left >= 44
  <2>1. GroupSpan(d, g, r).left = GroupSpan(d, g, header).left + s3
    BY <1>9, GroupMoves
  <2>2. GroupSpan(d, g, header).left \in Int
    BY <1>7, GroupSpanType
  <2>3. /\ ContentShift(d, header) >= 44 - GroupSpan(d, g, header).left
        /\ ContentShift(d, header) \in Int
    BY <1>7, ContentShiftIs
  <2> QED BY <1>8, <2>1, <2>2, <2>3
<1> QED BY <1>0, <1>1, <1>9, <1>11, <1>12, <1>13, <1>14

\* The columns go from left to right.
IsRankPlan(r) ==
  /\ \A c \in Columns : r[c] \in Int
  /\ r[1] < r[2] /\ r[2] < r[3] /\ r[3] < r[4] /\ r[4] < r[5] /\ r[5] < r[6]

LEMMA RanksInOrder ==
  ASSUME NEW d, IsDocument(d), NEW f, IsFeedback(f) PROVE IsRankPlan(Ranks(d, f))
<1> DEFINE r == Ranks(d, f)
<1>1. IsPlan(r) /\ \A k \in Constraints(d, f) : r[k.to] - r[k.from] >= k.least
  BY RanksAre
<1> HIDE DEF r
<1>2. \A c \in 1..5 : r[c + 1] - r[c] >= Pitch
  <2> SUFFICES ASSUME NEW c \in 1..5 PROVE r[c + 1] - r[c] >= Pitch
    OBVIOUS
  <2>1. Apart(c, c + 1, Pitch) \in Constraints(d, f)
    BY DEF Constraints, Baseline
  <2>2. /\ Apart(c, c + 1, Pitch).to = c + 1 /\ Apart(c, c + 1, Pitch).from = c
        /\ Apart(c, c + 1, Pitch).least = Pitch
    BY DEF Apart
  <2> QED BY <1>1, <2>1, <2>2
<1>3. \A c \in Columns : r[c] \in Int
  BY <1>1 DEF IsPlan
<1>4. /\ r[1] \in Int /\ r[2] \in Int /\ r[3] \in Int /\ r[4] \in Int /\ r[5] \in Int /\ r[6] \in Int
      /\ r[2] - r[1] >= 120 /\ r[3] - r[2] >= 120 /\ r[4] - r[3] >= 120 /\ r[5] - r[4] >= 120
      /\ r[6] - r[5] >= 120
  <2>1. r[1 + 1] - r[1] >= Pitch /\ r[2 + 1] - r[2] >= Pitch /\ r[3 + 1] - r[3] >= Pitch
          /\ r[4 + 1] - r[4] >= Pitch /\ r[5 + 1] - r[5] >= Pitch
    BY <1>2
  <2> QED BY <1>3, <2>1 DEF Pitch, Columns
<1>5. r[1] < r[2] /\ r[2] < r[3] /\ r[3] < r[4] /\ r[4] < r[5] /\ r[5] < r[6]
  BY <1>4
<1> QED BY <1>3, <1>5 DEF r, IsRankPlan
-----------------------------------------------------------------------------
(* What a reader sees of a plan                                            *)

LEMMA LaneHoldsGroups ==
  ASSUME NEW d, IsDocument(d), NEW r, IsPlan(r), NEW g \in d.groups
  PROVE  GroupSpan(d, g, r).right <= 40 + LaneWidth(d, r) - 8
<1> DEFINE nf == [n \in NodesOf(d) |-> r[n.col] + Half(n)]
           gf == [h \in d.groups |-> GroupSpan(d, h, r).right]
           lf == [l \in DOMAIN d.lanes |-> d.lanes[l] + 30]
           nodes == {nf[n] : n \in NodesOf(d)}
           groups == {gf[h] : h \in d.groups}
           titles == {lf[l] : l \in DOMAIN d.lanes}
           T == {r[6] + 50} \cup nodes \cup groups
           wide == Max(T) - 40 + 8
           U == {640, wide} \cup titles
<1>1. LaneWidth(d, r) = Max(U)
  <2>1. nodes = {r[n.col] + Half(n) : n \in NodesOf(d)}
    OBVIOUS
  <2>2. groups = {GroupSpan(d, h, r).right : h \in d.groups}
    OBVIOUS
  <2>3. titles = {d.lanes[l] + 30 : l \in DOMAIN d.lanes}
    OBVIOUS
  <2> HIDE DEF nodes, groups, titles
  <2> QED BY <2>1, <2>2, <2>3 DEF LaneWidth
<1>2. \A n \in NodesOf(d) : nf[n] \in Int
  <2>1. \A n \in NodesOf(d) : r[n.col] \in Int /\ Half(n) \in Int
    BY NodeFacts DEF IsPlan
  <2> QED BY <2>1
<1>3. \A h \in d.groups : gf[h] \in Int
  <2>1. \A h \in d.groups : GroupSpan(d, h, r).right \in Int
    BY GroupSpanType
  <2> QED BY <2>1
<1>4. \A l \in DOMAIN d.lanes : lf[l] \in Int
  BY DEF IsDocument
<1>5. IsFiniteSet(NodesOf(d)) /\ IsFiniteSet(d.groups) /\ IsFiniteSet(DOMAIN d.lanes)
  BY FinitelyMany DEF IsDocument
<1>6. gf[g] \in groups /\ gf[g] = GroupSpan(d, g, r).right /\ gf[g] \in Int
  BY <1>3
<1>7. r[6] + 50 \in Int
  BY DEF IsPlan, Columns
<1> HIDE DEF nf, gf, lf
<1>8. /\ nodes \in SUBSET Int /\ IsFiniteSet(nodes)
      /\ groups \in SUBSET Int /\ IsFiniteSet(groups)
      /\ titles \in SUBSET Int /\ IsFiniteSet(titles)
  BY <1>2, <1>3, <1>4, <1>5, MaxOverIs
<1> HIDE DEF nodes, groups, titles
<1>9. IsFiniteSet(T) /\ T \in SUBSET Int /\ T # {} /\ gf[g] \in T
  <2>1. IsFiniteSet({r[6] + 50})
    BY FS_Singleton
  <2>2. IsFiniteSet({r[6] + 50} \cup nodes)
    BY <1>8, <2>1, FS_Union
  <2>3. IsFiniteSet(T)
    BY <1>8, <2>2, FS_Union
  <2> QED BY <1>6, <1>7, <1>8, <2>3
<1> HIDE DEF T
<1>10. Max(T) \in Int /\ Max(T) >= gf[g]
  BY <1>9, MaxIs
<1>11. IsFiniteSet(U) /\ U \in SUBSET Int /\ U # {} /\ wide \in U /\ wide \in Int
  <2>1. wide \in Int
    BY <1>10
  <2> HIDE DEF wide
  <2>2. PICK z, w : z = 640 /\ w = wide
    OBVIOUS
  <2>3. IsFiniteSet({z} \cup {w})
    <3>1. IsFiniteSet({z}) /\ IsFiniteSet({w})
      BY FS_Singleton
    <3> QED BY ONLY <3>1, FS_Union
  <2>4. U = ({z} \cup {w}) \cup titles
    BY <2>2
  <2>5. IsFiniteSet(({z} \cup {w}) \cup titles)
    BY ONLY <1>8, <2>3, FS_Union
  <2> QED BY <1>8, <2>1, <2>2, <2>4, <2>5
<1>12. Max(U) \in Int /\ Max(U) >= wide
  <2> HIDE DEF U, wide
  <2> QED BY <1>11, MaxIs
<1> QED BY <1>1, <1>6, <1>10, <1>12

LEMMA GroupedNodes ==
  ASSUME NEW d, IsDocument(d), NEW l
  PROVE  /\ IsFiniteSet(InGroups(d, l))
         /\ \A p \in InGroups(d, l) : p[1] \in d.groups /\ p[2] \in NodesOf(d)
<1>1. IsFiniteSet(d.groups \X NodesOf(d))
  BY FinitelyMany, FS_Product DEF IsDocument
<1>2. InGroups(d, l) \subseteq d.groups \X NodesOf(d)
  BY DEF InGroups
<1> QED BY <1>1, <1>2, FS_Subset

LEMMA HeightIs == ASSUME NEW d, IsDocument(d) PROVE ContentHeight(d) \in Int
<1> DEFINE f == [n \in NodesOf(d) |-> n.height + 2 * Distance(n.y, 0) + 8]
<1>1. \A n \in NodesOf(d) : f[n] \in Int
  <2> SUFFICES ASSUME NEW n \in NodesOf(d) PROVE f[n] \in Int
    OBVIOUS
  <2>1. n.height \in Nat /\ n.y \in Int
    BY NodeFacts
  <2>2. Distance(n.y, 0) \in Int
    BY <2>1 DEF Distance
  <2> QED BY <2>1, <2>2
<1>2. ContentHeight(d) = Max({74} \cup {f[n] : n \in NodesOf(d)})
  BY DEF ContentHeight
<1>3. PICK z \in Int : z = 74
  OBVIOUS
<1> HIDE DEF f
<1>4. Max({z} \cup {f[n] : n \in NodesOf(d)}) \in Int
  BY <1>1, FinitelyMany, MaxOver
<1> QED BY <1>2, <1>3, <1>4

\* The lane makes room above and below the nodes of its groups.
LEMMA LaneHoldsNodes ==
  ASSUME NEW d, IsDocument(d), NEW r, NEW l \in DOMAIN d.lanes, NEW p \in InGroups(d, l)
  PROVE  LET top == Header(d, l, r) + TopOffset(d, p[2])
         IN  top > 8 /\ top + p[2].height < LaneHeight(d, l, r) - 30 - 4
<1> DEFINE hf == [q \in InGroups(d, l) |->
                   (IF UnderLabel(d, q[1], q[2], r) THEN 11 ELSE 9) - TopOffset(d, q[2])]
           ff == [q \in InGroups(d, l) |->
                   1 - (ContentHeight(d) - 4 - TopOffset(d, q[2]) - q[2].height)]
<1>1. ASSUME NEW q \in InGroups(d, l)
      PROVE  TopOffset(d, q[2]) \in Int /\ q[2].height \in Nat
  <2>1. q[2].height \in Nat /\ q[2].y \in Int
    BY GroupedNodes, NodeFacts
  <2>2. ContentHeight(d) - q[2].height \in Int
    BY <2>1, HeightIs
  <2>3. (ContentHeight(d) - q[2].height) \div 2 \in Int
    BY <2>2
  <2> QED BY <2>1, <2>3 DEF TopOffset
<1>2. ContentHeight(d) \in Int
  BY HeightIs
<1>3. \A q \in InGroups(d, l) : hf[q] \in Int /\ ff[q] \in Int
  BY <1>1, <1>2
<1>4. /\ Header(d, l, r) = Max({0} \cup {hf[q] : q \in InGroups(d, l)})
      /\ Footer(d, l) = Max({0} \cup {ff[q] : q \in InGroups(d, l)})
  BY DEF Header, Footer
<1>5. hf[p] + TopOffset(d, p[2]) >= 9
        /\ ff[p] = 1 - (ContentHeight(d) - 4 - TopOffset(d, p[2]) - p[2].height)
  <2>1. hf[p] = 11 - TopOffset(d, p[2]) \/ hf[p] = 9 - TopOffset(d, p[2])
    OBVIOUS
  <2> QED BY <1>1, <2>1
<1> HIDE DEF hf, ff
<1>6. Header(d, l, r) \in Int /\ Header(d, l, r) >= hf[p]
  <2>1. PICK z \in Int : z = 0
    OBVIOUS
  <2>2. LET top == Max({z} \cup {hf[q] : q \in InGroups(d, l)})
        IN  top \in Int /\ top >= z /\ \A q \in InGroups(d, l) : top >= hf[q]
    BY <1>3, GroupedNodes, MaxOver
  <2> QED BY <1>4, <2>1, <2>2
<1>7. Footer(d, l) \in Int /\ Footer(d, l) >= ff[p]
  <2>1. PICK z \in Int : z = 0
    OBVIOUS
  <2>2. LET top == Max({z} \cup {ff[q] : q \in InGroups(d, l)})
        IN  top \in Int /\ top >= z /\ \A q \in InGroups(d, l) : top >= ff[q]
    BY <1>3, GroupedNodes, MaxOver
  <2> QED BY <1>4, <2>1, <2>2
<1>8. Header(d, l, r) + TopOffset(d, p[2]) >= 9
  BY <1>1, <1>3, <1>5, <1>6
<1>9. TopOffset(d, p[2]) + p[2].height < ContentHeight(d) - 4 + Footer(d, l)
  BY <1>1, <1>2, <1>5, <1>7
<1> QED BY <1>1, <1>2, <1>6, <1>7, <1>8, <1>9 DEF LaneHeight

\* The plan of any document, for any feedback, is readable.
LEMMA PlanIsReadable ==
  ASSUME NEW d, IsDocument(d), NEW f, IsFeedback(f), NEW r, r = Ranks(d, f)
  PROVE
    /\ \A m, n \in NodesOf(d) :
         m.lane = n.lane /\ m.col < n.col /\ Overlap(m, n, 8)
           => r[n.col] - r[m.col] >= Half(m) + 8 + Half(n)
    /\ \A e \in EdgesOf(d) :
         Direct(d, e) /\ ~PrefersChannel(e)
           => r[Later(d, e).col] - r[Earlier(d, e).col] - Half(From(d, e)) - Half(To(d, e))
                >= LabelClearance(e)
    /\ \A g \in d.groups : GroupSpan(d, g, r).left >= 44
                            /\ GroupSpan(d, g, r).right <= 40 + LaneWidth(d, r) - 8
    /\ \A n \in NodesOf(d) :
         n.col = 1 \/ Half(n) <= 46 + (n.col - 1) * Pitch => r[n.col] - Half(n) >= 48
<1>1. /\ IsPlan(r)
      /\ \A k \in Constraints(d, f) : r[k.to] - r[k.from] >= k.least
      /\ \A c \in Columns : r[c] >= FirstColumn + (c - 1) * Pitch
      /\ \A n \in NodesOf(d) : n.col = 1 => r[1] - Half(n) >= 48
      /\ \A g \in d.groups : GroupSpan(d, g, r).left >= 44
  BY RanksAre
<1>2. ASSUME NEW m \in NodesOf(d), NEW n \in NodesOf(d),
             m.lane = n.lane /\ m.col < n.col /\ Overlap(m, n, 8)
      PROVE  r[n.col] - r[m.col] >= Half(m) + 8 + Half(n)
  <2>1. PICK k : k = Apart(m.col, n.col, Half(m) + 8 + Half(n))
    OBVIOUS
  <2>2. PICK p \in NodesOf(d) \X NodesOf(d) : p = <<m, n>>
    OBVIOUS
  <2>3. k \in NodesApart(d)
    BY <1>2, <2>1, <2>2 DEF NodesApart
  <2>4. k \in Constraints(d, f)
    BY <2>3 DEF Constraints
  <2>5. k.to = n.col /\ k.from = m.col /\ k.least = Half(m) + 8 + Half(n)
    BY <2>1 DEF Apart
  <2> QED BY <1>1, <2>4, <2>5
<1>3. ASSUME NEW e \in EdgesOf(d), Direct(d, e) /\ ~PrefersChannel(e)
      PROVE  r[Later(d, e).col] - r[Earlier(d, e).col] - Half(From(d, e)) - Half(To(d, e))
               >= LabelClearance(e)
  <2>1. PICK k : k = EdgeApart(d, e, LabelClearance(e))
    OBVIOUS
  <2>2. k \in LabelsApart(d)
    BY <1>3, <2>1 DEF LabelsApart
  <2>3. k \in Constraints(d, f)
    BY <2>2 DEF Constraints
  <2>4. /\ k.to = Later(d, e).col /\ k.from = Earlier(d, e).col
        /\ k.least = Half(Earlier(d, e)) + LabelClearance(e) + Half(Later(d, e))
    BY <2>1 DEF EdgeApart, Apart
  <2>5. r[Later(d, e).col] - r[Earlier(d, e).col]
          >= Half(Earlier(d, e)) + LabelClearance(e) + Half(Later(d, e))
    BY <1>1, <2>3, <2>4
  <2>6. From(d, e).col # To(d, e).col
    BY <1>3 DEF Direct
  <2>7. /\ Earlier(d, e).col \in Columns /\ Later(d, e).col \in Columns
        /\ Half(Earlier(d, e)) \in Nat /\ Half(Later(d, e)) \in Nat
        /\ Half(Earlier(d, e)) + Half(Later(d, e)) = Half(From(d, e)) + Half(To(d, e))
    BY <2>6, EndsInOrder
  <2>8. /\ r[Later(d, e).col] \in Int /\ r[Earlier(d, e).col] \in Int
        /\ LabelClearance(e) \in Int /\ Half(From(d, e)) \in Int /\ Half(To(d, e)) \in Int
    BY <1>1, <2>7, EdgeFacts, NodeFacts DEF IsPlan
  <2> QED BY ONLY <2>5, <2>7, <2>8
<1>4. ASSUME NEW g \in d.groups
      PROVE  GroupSpan(d, g, r).left >= 44
               /\ GroupSpan(d, g, r).right <= 40 + LaneWidth(d, r) - 8
  BY <1>1, LaneHoldsGroups
<1>5. ASSUME NEW n \in NodesOf(d), n.col = 1 \/ Half(n) <= 46 + (n.col - 1) * Pitch
      PROVE  r[n.col] - Half(n) >= 48
  <2>1. CASE n.col = 1
    BY <1>1, <2>1
  <2>2. CASE Half(n) <= 46 + (n.col - 1) * Pitch
    <3>1. n.col \in Columns /\ Half(n) \in Nat
      BY NodeFacts
    <3>2. PICK b \in Int : b = (n.col - 1) * Pitch
      BY <3>1 DEF Columns, Pitch
    <3>3. r[n.col] >= 94 + b /\ Half(n) <= 46 + b /\ r[n.col] \in Int
      BY <1>1, <2>2, <3>1, <3>2 DEF FirstColumn, IsPlan
    <3> QED BY ONLY <3>1, <3>2, <3>3
  <2> QED BY <1>5, <2>1, <2>2
<1> QED BY <1>2, <1>3, <1>4, <1>5
-----------------------------------------------------------------------------
(* Pins and the documents that carry them                                  *)

LEMMA DivSmall ==
  ASSUME NEW a \in Int, NEW b \in Nat, NEW d \in Nat \ {0}, a <= d PROVE (a * b) \div d <= b
  OBVIOUS
LEMMA DivPos ==
  ASSUME NEW a \in Nat, NEW b \in Nat, NEW d \in Nat \ {0} PROVE (a * b) \div d >= 0
  OBVIOUS
LEMMA DivNeg ==
  ASSUME NEW a \in Int, NEW b \in Nat, NEW d \in Nat \ {0}, a <= 0 PROVE (a * b) \div d <= 0
  OBVIOUS
LEMMA DivBig ==
  ASSUME NEW a \in Int, NEW b \in Nat, NEW d \in Nat \ {0}, a >= d PROVE (a * b) \div d >= b
  OBVIOUS
LEMMA DivKeepsOrder ==
  ASSUME NEW a \in Int, NEW c \in Int, a <= c, NEW b \in Nat, NEW d \in Nat \ {0}
  PROVE  /\ (a * b) \div d \in Int /\ (c * b) \div d \in Int
         /\ (a * b) \div d <= (c * b) \div d
<1>1. PICK p \in Int, q \in Int : p = a * b /\ q = c * b
  OBVIOUS
<1>2. p <= q
  BY <1>1
<1>3. p \div d \in Int /\ q \div d \in Int /\ p \div d <= q \div d
  BY <1>2
<1> QED BY <1>1, <1>3

LEMMA LegacyIs ==
  /\ IsRankPlan(LegacyColumns)
  /\ LegacyColumns[1] = 88 /\ LegacyColumns[2] = 220 /\ LegacyColumns[3] = 300
  /\ LegacyColumns[4] = 430 /\ LegacyColumns[5] = 500 /\ LegacyColumns[6] = 625
  BY DEF IsRankPlan, LegacyColumns, Columns

LEMMA InOrder ==
  ASSUME NEW r, IsRankPlan(r)
  PROVE  /\ \A c \in Columns : r[c] \in Int
         /\ \A b, c \in Columns : b <= c => r[b] <= r[c]
         /\ \A c \in 1..5 : r[c] < r[c + 1]
<1>1. \A c \in Columns : c = 1 \/ c = 2 \/ c = 3 \/ c = 4 \/ c = 5 \/ c = 6
  BY DEF Columns
<1>2. /\ r[1] \in Int /\ r[2] \in Int /\ r[3] \in Int /\ r[4] \in Int /\ r[5] \in Int /\ r[6] \in Int
  BY DEF IsRankPlan, Columns
<1>3. r[1] < r[2] /\ r[2] < r[3] /\ r[3] < r[4] /\ r[4] < r[5] /\ r[5] < r[6]
  BY DEF IsRankPlan
<1>4. /\ r[1] <= r[2] /\ r[1] <= r[3] /\ r[1] <= r[4] /\ r[1] <= r[5] /\ r[1] <= r[6]
      /\ r[2] <= r[3] /\ r[2] <= r[4] /\ r[2] <= r[5] /\ r[2] <= r[6]
      /\ r[3] <= r[4] /\ r[3] <= r[5] /\ r[3] <= r[6]
      /\ r[4] <= r[5] /\ r[4] <= r[6] /\ r[5] <= r[6]
  BY <1>2, <1>3
<1>5. ASSUME NEW b \in Columns, NEW c \in Columns, b <= c PROVE r[b] <= r[c]
  BY <1>1, <1>2, <1>4, <1>5
<1>6. ASSUME NEW c \in 1..5 PROVE r[c] < r[c + 1]
  <2>1. c = 1 \/ c = 2 \/ c = 3 \/ c = 4 \/ c = 5
    OBVIOUS
  <2> QED BY <1>3, <2>1
<1> QED BY <1>5, <1>6 DEF IsRankPlan

\* The segment that maps x, and how x lies to its ends
LEMMA SegmentIs ==
  ASSUME NEW x \in Int, NEW old, IsRankPlan(old)
  PROVE  LET s == Segment(x, old)
         IN  /\ s \in 1..5
             /\ s < 5 => x <= old[s + 1]
             /\ \A c \in 1..5 : c < s => x > old[c + 1]
<1> DEFINE S == {c \in 1..5 : x <= old[c + 1]}
           T == {5} \cup S
<1>1. IsFiniteSet(T)
  <2>1. IsFiniteSet(1..5)
    <3>1. 1 \in Int /\ 5 \in Int
      OBVIOUS
    <3> QED BY ONLY <3>1, FS_Interval
  <2>2. T \subseteq 1..5
    OBVIOUS
  <2> HIDE DEF T
  <2> QED BY <2>1, <2>2, FS_Subset
<1>2. T \in SUBSET Int /\ T # {}
  OBVIOUS
<1>3. PICK s : s = Segment(x, old)
  OBVIOUS
<1>4. s \in T /\ \A y \in T : s <= y
  <2>1. s = Min(T)
    BY <1>3 DEF Segment
  <2> HIDE DEF T
  <2> QED BY <1>1, <1>2, <2>1, MinIs
<1>5. s \in 1..5 /\ (s < 5 => x <= old[s + 1])
  BY <1>4
<1>6. ASSUME NEW c \in 1..5, c < s PROVE x > old[c + 1]
  <2>1. c \notin S
    BY <1>4, <1>5, <1>6
  <2>2. old[c + 1] \in Int
    BY DEF IsRankPlan, Columns
  <2> QED BY <2>1, <2>2
<1> QED BY <1>3, <1>5, <1>6

\* A pin stays on its side of every rank.
LEMMA MapKeepsSide ==
  ASSUME NEW x \in Int, NEW old, IsRankPlan(old), NEW new, IsRankPlan(new)
  PROVE  /\ MapX(x, old, new) \in Int
         /\ \A c \in Columns : (x <= old[c] => MapX(x, old, new) <= new[c])
                               /\ (x >= old[c] => MapX(x, old, new) >= new[c])
<1>1. PICK s \in 1..5 :
        /\ s = Segment(x, old)
        /\ s < 5 => x <= old[s + 1]
        /\ \A c \in 1..5 : c < s => x > old[c + 1]
  BY SegmentIs
<1>2. /\ \A c \in Columns : old[c] \in Int /\ new[c] \in Int
      /\ \A b, c \in Columns : b <= c => old[b] <= old[c] /\ new[b] <= new[c]
      /\ old[s] < old[s + 1] /\ new[s] < new[s + 1]
      /\ s \in Columns /\ s + 1 \in Columns
  <2>1. s \in Columns /\ s + 1 \in Columns
    BY DEF Columns
  <2> QED BY <2>1, InOrder
<1>3. PICK a \in Int, b \in Nat, d \in Nat \ {0} :
        a = x - old[s] /\ b = new[s + 1] - new[s] /\ d = old[s + 1] - old[s]
  <2>1. /\ old[s] \in Int /\ old[s + 1] \in Int /\ new[s] \in Int /\ new[s + 1] \in Int
        /\ old[s] < old[s + 1] /\ new[s] < new[s + 1]
    BY <1>2
  <2>2. x - old[s] \in Int /\ new[s + 1] - new[s] \in Nat /\ old[s + 1] - old[s] \in Nat \ {0}
    BY ONLY <2>1, x \in Int
  <2> QED BY <2>2
<1>4. PICK m : m = (a * b) \div d
  OBVIOUS
<1>5. /\ m \in Int /\ MapX(x, old, new) = new[s] + m
      /\ a <= d => m <= b
      /\ a >= 0 => m >= 0
      /\ a <= 0 => m <= 0
      /\ a >= d => m >= b
  <2>1. m \in Int
    BY <1>4
  <2>2. MapX(x, old, new) = new[s] + m
    BY <1>1, <1>3, <1>4 DEF MapX
  <2>3. a >= 0 => a \in Nat
    OBVIOUS
  <2> QED BY <1>4, <2>1, <2>2, <2>3, DivSmall, DivPos, DivNeg, DivBig
<1>6. ASSUME NEW c \in Columns, x <= old[c] PROVE MapX(x, old, new) <= new[c]
  <2>1. CASE c = 1
    <3>1. ~(1 < s)
      <4>1. SUFFICES ASSUME 1 < s PROVE FALSE
        OBVIOUS
      <4>2. x > old[1 + 1]
        BY <1>1, <4>1
      <4>3. 2 \in Columns /\ 1 \in Columns
        BY DEF Columns
      <4>4. old[1] <= old[2] /\ old[1] \in Int /\ old[2] \in Int
        BY <1>2, <4>3
      <4> QED BY <1>6, <2>1, <4>2, <4>4
    <3>2. s = 1
      BY <3>1
    <3>3. a <= 0
      BY <1>2, <1>3, <1>6, <2>1, <3>2
    <3> QED BY <1>2, <1>5, <2>1, <3>2, <3>3
  <2>2. CASE c # 1
    <3>1. c - 1 \in 1..5 /\ (c - 1) + 1 = c
      BY <2>2 DEF Columns
    <3>2. s + 1 <= c
      <4>1. ~(c - 1 < s)
        <5>1. SUFFICES ASSUME c - 1 < s PROVE FALSE
          OBVIOUS
        <5>2. x > old[c]
          BY <1>1, <3>1, <5>1
        <5> QED BY <1>2, <1>6, <5>2
      <4> QED BY <3>1, <4>1
    <3>3. x <= old[s + 1]
      <4>1. CASE s < 5
        BY <1>1, <4>1
      <4>2. CASE ~(s < 5)
        <5>1. c = s + 1
          BY <3>2, <4>2 DEF Columns
        <5> QED BY <1>6, <5>1
      <4> QED BY <4>1, <4>2
    <3>4. a <= d
      BY <1>2, <1>3, <3>3
    <3>5. new[s + 1] <= new[c] /\ new[c] \in Int
      BY <1>2, <3>2
    <3> QED BY <1>2, <1>3, <1>5, <3>4, <3>5
  <2> QED BY <2>1, <2>2
<1>7. ASSUME NEW c \in Columns, x >= old[c] PROVE MapX(x, old, new) >= new[c]
  <2>1. CASE c <= s
    <3>1. a >= 0
      <4>1. CASE s = 1
        <5>1. c = s
          BY <2>1, <4>1 DEF Columns
        <5> QED BY <1>2, <1>3, <1>7, <5>1
      <4>2. CASE s # 1
        <5>1. s - 1 \in 1..5 /\ (s - 1) + 1 = s /\ s - 1 < s
          BY <4>2
        <5>2. x > old[s]
          BY <1>1, <5>1
        <5> QED BY <1>2, <1>3, <5>2
      <4> QED BY <4>1, <4>2
    <3>2. new[c] <= new[s] /\ new[c] \in Int
      BY <1>2, <2>1
    <3> QED BY <1>2, <1>5, <3>1, <3>2
  <2>2. CASE ~(c <= s)
    <3>1. s + 1 <= c
      BY <2>2 DEF Columns
    <3>2. old[s + 1] <= old[c] /\ old[c] \in Int /\ old[s + 1] \in Int
      BY <1>2, <3>1
    <3>3. a >= d
      BY <1>2, <1>3, <1>7, <3>2
    <3>4. c = s + 1
      <4>1. SUFFICES ASSUME c # s + 1 PROVE FALSE
        OBVIOUS
      <4>2. s < 5 /\ s + 1 < c /\ s + 2 \in Columns /\ s + 2 <= c /\ s + 1 \in 1..5
        BY <3>1, <4>1 DEF Columns
      <4>3. x <= old[s + 1]
        BY <1>1, <4>2
      <4>4. old[s + 1] < old[(s + 1) + 1] /\ (s + 1) + 1 = s + 2
        BY <4>2, InOrder
      <4>5. old[s + 2] <= old[c] /\ old[s + 2] \in Int
        BY <1>2, <4>2
      <4> QED BY <1>7, <3>2, <4>3, <4>4, <4>5
    <3> QED BY <1>2, <1>3, <1>5, <3>3, <3>4
  <2> QED BY <2>1, <2>2 DEF Columns
<1>8. MapX(x, old, new) \in Int
  BY <1>2, <1>5
<1> QED BY <1>6, <1>7, <1>8

\* Two pins stay in their order, whichever segments map them.
LEMMA MapKeepsOrder ==
  ASSUME NEW x \in Int, NEW y \in Int, x <= y,
         NEW old, IsRankPlan(old), NEW new, IsRankPlan(new)
  PROVE  MapX(x, old, new) <= MapX(y, old, new)
<1>1. PICK s \in 1..5 :
        s = Segment(x, old) /\ (s < 5 => x <= old[s + 1]) /\ \A c \in 1..5 : c < s => x > old[c + 1]
  BY SegmentIs
<1>2. PICK t \in 1..5 :
        t = Segment(y, old) /\ (t < 5 => y <= old[t + 1]) /\ \A c \in 1..5 : c < t => y > old[c + 1]
  BY SegmentIs
<1>3. \A c \in 1..6 : old[c] \in Int /\ new[c] \in Int
  BY InOrder DEF Columns
<1>4. CASE s < t
  <2>1. s + 1 \in Columns /\ old[s + 1] \in Int /\ x <= old[s + 1] /\ y >= old[s + 1]
    BY <1>1, <1>2, <1>3, <1>4 DEF Columns
  <2>2. MapX(x, old, new) \in Int /\ MapX(x, old, new) <= new[s + 1]
    BY <2>1, MapKeepsSide
  <2>3. MapX(y, old, new) \in Int /\ MapX(y, old, new) >= new[s + 1]
    BY <2>1, MapKeepsSide
  <2>4. new[s + 1] \in Int
    BY <1>3, <2>1 DEF Columns
  <2> QED BY <2>2, <2>3, <2>4
<1>5. CASE s = t
  <2>1. /\ old[s] \in Int /\ old[s + 1] \in Int /\ new[s] \in Int /\ new[s + 1] \in Int
        /\ old[s] < old[s + 1] /\ new[s] < new[s + 1]
    BY <1>3, InOrder
  <2>2. PICK a \in Int, c \in Int, b \in Nat, d \in Nat \ {0} :
          /\ a = x - old[s] /\ c = y - old[s] /\ a <= c
          /\ b = new[s + 1] - new[s] /\ d = old[s + 1] - old[s]
    <3>1. /\ x - old[s] \in Int /\ y - old[s] \in Int /\ x - old[s] <= y - old[s]
          /\ new[s + 1] - new[s] \in Nat /\ old[s + 1] - old[s] \in Nat \ {0}
      BY ONLY <2>1, x \in Int, y \in Int, x <= y
    <3> QED BY <3>1
  <2>3. PICK m, n : m = (a * b) \div d /\ n = (c * b) \div d
    OBVIOUS
  <2>4. m \in Int /\ n \in Int /\ m <= n
    BY <2>2, <2>3, DivKeepsOrder
  <2>5. MapX(x, old, new) = new[s] + m /\ MapX(y, old, new) = new[s] + n
    BY <1>1, <1>2, <1>5, <2>2, <2>3 DEF MapX
  <2> QED BY <2>1, <2>4, <2>5
<1>6. CASE t < s
  <2>1. t < 5 /\ y <= old[t + 1] /\ x > old[t + 1] /\ old[t + 1] \in Int
    BY <1>1, <1>2, <1>3, <1>6
  <2> QED BY <2>1
<1> QED BY <1>4, <1>5, <1>6

\* The pins of a relationship are mapped one by one, in their places.
LEMMA MapAllIs ==
  ASSUME NEW s \in Seq(Int), NEW old, IsRankPlan(old), NEW new, IsRankPlan(new)
  PROVE  /\ MapAll(s, old, new) \in Seq(Int) /\ Len(MapAll(s, old, new)) = Len(s)
         /\ \A k \in 1..Len(s) : MapAll(s, old, new)[k] = MapX(s[k], old, new)
<1>1. PICK m : m = MapAll(s, old, new)
  OBVIOUS
<1>2. DOMAIN s = 1..Len(s) /\ Len(s) \in Nat /\ \A k \in 1..Len(s) : s[k] \in Int
  OBVIOUS
<1>3. m = [k \in 1..Len(s) |-> MapX(s[k], old, new)]
  BY <1>1, <1>2 DEF MapAll
<1>4. \A x \in Int : MapX(x, old, new) \in Int
  BY MapKeepsSide
<1>5. m \in [1..Len(s) -> Int] /\ \A k \in 1..Len(s) : m[k] = MapX(s[k], old, new)
  BY <1>2, <1>3, <1>4
<1>6. m \in Seq(Int) /\ Len(m) = Len(s)
  <2>1. PICK n \in Nat : n = Len(s)
    BY <1>2
  <2>2. m \in [1..n -> Int]
    BY <1>5, <2>1
  <2>3. m \in Seq(Int) /\ DOMAIN m = 1..n
    BY <2>2, SeqDef
  <2> QED BY <2>1, <2>3
<1> QED BY <1>1, <1>5, <1>6

LEMMA JoinIs ==
  ASSUME NEW s \in Seq(Int), NEW t \in Seq(Int)
  PROVE  /\ s \o t \in Seq(Int) /\ Len(s \o t) = Len(s) + Len(t)
         /\ \A k \in 1..(Len(s) + Len(t)) :
              (s \o t)[k] = IF k <= Len(s) THEN s[k] ELSE t[k - Len(s)]
  BY ConcatProperties

JoinsMapped(s, t, old, new) ==
  MapAll(s \o t, old, new) = MapAll(s, old, new) \o MapAll(t, old, new)

LEMMA MapAllJoins ==
  ASSUME NEW s \in Seq(Int), NEW t \in Seq(Int),
         NEW old, IsRankPlan(old), NEW new, IsRankPlan(new)
  PROVE  JoinsMapped(s, t, old, new)
<1>1. PICK l, r : l = MapAll(s \o t, old, new) /\ r = MapAll(s, old, new) \o MapAll(t, old, new)
  OBVIOUS
<1>2. /\ s \o t \in Seq(Int) /\ Len(s \o t) = Len(s) + Len(t) /\ Len(s) \in Nat /\ Len(t) \in Nat
      /\ \A k \in 1..(Len(s) + Len(t)) :
           (s \o t)[k] = IF k <= Len(s) THEN s[k] ELSE t[k - Len(s)]
  BY ConcatProperties
<1>0. PICK m, n : m = MapAll(s, old, new) /\ n = MapAll(t, old, new)
  OBVIOUS
<1>3. /\ m \in Seq(Int) /\ n \in Seq(Int) /\ Len(m) = Len(s) /\ Len(n) = Len(t)
      /\ \A k \in 1..Len(s) : m[k] = MapX(s[k], old, new)
      /\ \A k \in 1..Len(t) : n[k] = MapX(t[k], old, new)
  <2>1. /\ MapAll(s, old, new) \in Seq(Int) /\ Len(MapAll(s, old, new)) = Len(s)
        /\ \A k \in 1..Len(s) : MapAll(s, old, new)[k] = MapX(s[k], old, new)
    BY MapAllIs, ZenonT(60)
  <2>2. /\ MapAll(t, old, new) \in Seq(Int) /\ Len(MapAll(t, old, new)) = Len(t)
        /\ \A k \in 1..Len(t) : MapAll(t, old, new)[k] = MapX(t[k], old, new)
    BY MapAllIs, ZenonT(60)
  <2> QED BY <1>0, <2>1, <2>2
<1>4. /\ r \in Seq(Int) /\ Len(r) = Len(s) + Len(t)
      /\ \A k \in 1..(Len(s) + Len(t)) :
           r[k] = IF k <= Len(s) THEN m[k] ELSE n[k - Len(s)]
  <2>1. r = m \o n
    BY <1>0, <1>1
  <2>2. /\ m \o n \in Seq(Int) /\ Len(m \o n) = Len(m) + Len(n)
        /\ \A k \in 1..(Len(m) + Len(n)) :
             (m \o n)[k] = IF k <= Len(m) THEN m[k] ELSE n[k - Len(m)]
    BY <1>3, JoinIs, Zenon
  <2> QED BY <1>3, <2>1, <2>2
<1>5. /\ l \in Seq(Int) /\ Len(l) = Len(s) + Len(t)
      /\ \A k \in 1..(Len(s) + Len(t)) : l[k] = MapX((s \o t)[k], old, new)
  <2>1. PICK j \in Seq(Int) : j = s \o t
    BY <1>2
  <2>2. /\ MapAll(j, old, new) \in Seq(Int) /\ Len(MapAll(j, old, new)) = Len(j)
        /\ \A k \in 1..Len(j) : MapAll(j, old, new)[k] = MapX(j[k], old, new)
    BY MapAllIs, ZenonT(60)
  <2> QED BY <1>1, <1>2, <2>1, <2>2
<1>6. ASSUME NEW k \in 1..(Len(s) + Len(t)) PROVE l[k] = r[k]
  <2>1. CASE k <= Len(s)
    <3>1. k \in 1..Len(s)
      BY <1>2, <2>1
    <3> QED BY <1>2, <1>3, <1>4, <1>5, <2>1, <3>1
  <2>2. CASE ~(k <= Len(s))
    <3>1. k - Len(s) \in 1..Len(t)
      BY <1>2, <2>2
    <3> QED BY <1>2, <1>3, <1>4, <1>5, <2>2, <3>1
  <2> QED BY <2>1, <2>2
<1>7. l = r
  BY <1>4, <1>5, <1>6, SeqEqual
<1> QED BY <1>1, <1>7 DEF JoinsMapped

EdgeShape(d) ==
  [from : DOMAIN d.nodes, to : DOMAIN d.nodes, route : Routes, label : Nat,
   fromSide : Sides, toSide : Sides, via : Seq(Int), channelX : Seq(Int),
   labelAt : Seq(Int), channelY : BOOLEAN]

\* A document with other edges on the same nodes
LEMMA OtherEdges ==
  ASSUME NEW d, IsDocument(d), NEW x, DOMAIN x = DOMAIN d, x.nodes = d.nodes, x.lanes = d.lanes,
         x.phases = d.phases, x.groups = d.groups, DOMAIN x.edges \subseteq DOMAIN d.edges,
         \A i \in DOMAIN x.edges : x.edges[i] \in EdgeShape(d)
  PROVE  IsDocument(x)
<1>1. IsFiniteSet(DOMAIN x.edges)
  BY FS_Subset DEF IsDocument
<1>2. EdgesOf(x) \subseteq EdgeShape(x) /\ NodesOf(x) = NodesOf(d)
  BY DEF EdgesOf, NodesOf, EdgeShape
<1>3. DOMAIN x.lanes \cup DOMAIN x.edges \subseteq Nat
  BY DEF IsDocument
<1> QED BY <1>1, <1>2, <1>3 DEF IsDocument, EdgeShape

LEMMA EdgesHaveShape ==
  ASSUME NEW d, IsDocument(d), NEW i \in DOMAIN d.edges PROVE d.edges[i] \in EdgeShape(d)
  BY DEF IsDocument, EdgesOf, EdgeShape

LEMMA Fields == ASSUME NEW d, IsDocument(d)
  PROVE DOMAIN d = {"version", "lanes", "nodes", "edges", "phases", "groups", "box", "checks"}
  BY DEF IsDocument

LEMMA IntrinsicIs ==
  ASSUME NEW d, IsDocument(d)
  PROVE  /\ IsDocument(Intrinsic(d)) /\ Intrinsic(d).version = 2 /\ Intrinsic(d).edges = d.edges
<1>1. /\ DOMAIN Intrinsic(d) = DOMAIN d /\ Intrinsic(d).nodes = d.nodes
      /\ Intrinsic(d).lanes = d.lanes /\ Intrinsic(d).phases = d.phases
      /\ Intrinsic(d).groups = d.groups /\ Intrinsic(d).edges = d.edges
      /\ Intrinsic(d).version = 2
  BY Fields DEF Intrinsic
<1> QED BY <1>1, EdgesHaveShape, OtherEdges

LEMMA PlanningIs ==
  ASSUME NEW d, IsDocument(d)
  PROVE  /\ IsDocument(Planning(d)) /\ Planning(d).version = 2
         /\ DOMAIN Planning(d).edges = {i \in DOMAIN d.edges : ~RoutedByHand(d.edges[i])}
<1> DEFINE kept == {i \in DOMAIN d.edges : ~RoutedByHand(d.edges[i])}
           edges == [i \in kept |-> Automatic(d.edges[i])]
           p == Planning(d)
<1>1. p = [Intrinsic(d) EXCEPT !.edges = edges]
  BY DEF Planning
<1>2. /\ DOMAIN p = DOMAIN d /\ p.nodes = d.nodes /\ p.lanes = d.lanes /\ p.phases = d.phases
      /\ p.groups = d.groups /\ p.version = 2 /\ p.edges = edges
  BY <1>1, Fields DEF Intrinsic
<1>3. \A i \in kept : edges[i] \in EdgeShape(d)
  <2> SUFFICES ASSUME NEW i \in kept PROVE Automatic(d.edges[i]) \in EdgeShape(d)
    OBVIOUS
  <2>1. PICK e : e = d.edges[i]
    OBVIOUS
  <2>2. e \in EdgeShape(d)
    BY <2>1, EdgesHaveShape
  <2>3. PICK label : label = IF e.labelAt = <<>> THEN e.label ELSE 0
    OBVIOUS
  <2>4. label \in Nat
    BY <2>2, <2>3 DEF EdgeShape
  <2>7. <<>> \in Seq(Int)
    OBVIOUS
  <2>8. "auto" \in Sides
    BY DEF Sides
  <2>5. Automatic(e) = [e EXCEPT !.fromSide = "auto", !.toSide = "auto", !.labelAt = <<>>,
                                 !.label = label]
    BY <2>2, <2>3 DEF Automatic, EdgeShape
  <2>6. [e EXCEPT !.fromSide = "auto", !.toSide = "auto", !.labelAt = <<>>, !.label = label]
          \in EdgeShape(d)
    BY <2>2, <2>4, <2>7, <2>8 DEF EdgeShape
  <2> QED BY <2>1, <2>5, <2>6
<1> HIDE DEF p
<1>4. DOMAIN p.edges = kept /\ \A i \in DOMAIN p.edges : p.edges[i] \in EdgeShape(d)
  BY <1>2, <1>3
<1>5. DOMAIN p.edges \subseteq DOMAIN d.edges
  BY <1>4
<1>6. IsDocument(p)
  BY <1>2, <1>4, <1>5, OtherEdges
<1> QED BY <1>2, <1>4, <1>6 DEF p

LEMMA MappedIs ==
  ASSUME NEW d, IsDocument(d), NEW old, IsRankPlan(old), NEW new, IsRankPlan(new)
  PROVE  LET m == MappedCandidate(d, old, new)
         IN  /\ IsDocument(m) /\ m.version = 2
             /\ m.edges = [i \in DOMAIN d.edges |-> MappedEdge(d.edges[i], old, new)]
<1> DEFINE edges == [i \in DOMAIN d.edges |-> MappedEdge(d.edges[i], old, new)]
           p == MappedCandidate(d, old, new)
<1>2. /\ DOMAIN p = DOMAIN d /\ p.nodes = d.nodes /\ p.lanes = d.lanes /\ p.phases = d.phases
      /\ p.groups = d.groups /\ p.version = 2 /\ p.edges = edges
  BY Fields DEF MappedCandidate
<1>3. \A i \in DOMAIN d.edges : edges[i] \in EdgeShape(d)
  <2> SUFFICES ASSUME NEW i \in DOMAIN d.edges
               PROVE  MappedEdge(d.edges[i], old, new) \in EdgeShape(d)
    OBVIOUS
  <2>1. PICK e : e = d.edges[i]
    OBVIOUS
  <2>2. e \in EdgeShape(d)
    BY <2>1, EdgesHaveShape
  <2>3. PICK via, labelAt, channelX :
          /\ via = MapAll(e.via, old, new)
          /\ labelAt = MapAll(e.labelAt, old, new)
          /\ channelX = MapAll(e.channelX, old, new)
    OBVIOUS
  <2>4. e.via \in Seq(Int) /\ e.labelAt \in Seq(Int) /\ e.channelX \in Seq(Int)
    BY <2>2 DEF EdgeShape
  <2>5. via \in Seq(Int) /\ labelAt \in Seq(Int) /\ channelX \in Seq(Int)
    BY <2>3, <2>4, MapAllIs
  <2>6. MappedEdge(e, old, new)
          = [e EXCEPT !.via = via, !.labelAt = labelAt, !.channelX = channelX]
    BY <2>2, <2>3 DEF MappedEdge, EdgeShape
  <2>7. [e EXCEPT !.via = via, !.labelAt = labelAt, !.channelX = channelX] \in EdgeShape(d)
    BY <2>2, <2>5 DEF EdgeShape
  <2> QED BY <2>1, <2>6, <2>7
<1> HIDE DEF p
<1>4. DOMAIN p.edges = DOMAIN d.edges /\ \A i \in DOMAIN p.edges : p.edges[i] \in EdgeShape(d)
  BY <1>2, <1>3
<1>6. IsDocument(p)
  BY <1>2, <1>4, OtherEdges
<1> QED BY <1>2, <1>6 DEF p

LEMMA BoxIs ==
  ASSUME NEW d, IsDocument(d), NEW box
  PROVE  LET m == [d EXCEPT !.box = box]
         IN  IsDocument(m) /\ m.version = d.version /\ m.edges = d.edges
<1> DEFINE m == [d EXCEPT !.box = box]
<1>1. /\ DOMAIN m = DOMAIN d /\ m.nodes = d.nodes /\ m.lanes = d.lanes /\ m.phases = d.phases
      /\ m.groups = d.groups /\ m.version = d.version /\ m.edges = d.edges
  BY Fields
<1> HIDE DEF m
<1>2. IsDocument(m)
  BY <1>1, EdgesHaveShape, OtherEdges
<1> QED BY <1>1, <1>2 DEF m
-----------------------------------------------------------------------------
(* The compiler's rounds                                                   *)

\* What every state is made of: the documents are of the schema, the feedback
\* consists of gaps, and while a document is compiled the ranks are its plan.
Sound ==
  /\ IsDocument(source) /\ source.version \in {1, 2}
  /\ IsDocument(doc) /\ doc.version \in {1, 2}
  /\ IsFeedback(feedback) /\ round \in 0..MaxRounds
  /\ stage \in Compiling => ranks = Ranks(doc, feedback)
  /\ IsRankPlan(planned)

LEMMA FirstStuckIs == ASSUME IsDocument(doc), Stuck # {} PROVE FirstStuck \in EdgesOf(doc)
<1>1. Stuck \subseteq DOMAIN doc.edges
  BY DEF Stuck
<1>2. DOMAIN doc.edges \subseteq Int /\ IsFiniteSet(DOMAIN doc.edges)
  BY DEF IsDocument
<1>3. Stuck \in SUBSET Int /\ IsFiniteSet(Stuck)
  BY <1>1, <1>2, FS_Subset
<1>4. Min(Stuck) \in Stuck
  BY <1>3, MinIs
<1> QED BY <1>1, <1>4 DEF FirstStuck, EdgesOf

LEMMA RequestIs ==
  ASSUME IsDocument(doc), NEW e \in EdgesOf(doc), AsksRanks(e)
  PROVE  /\ IsGap(Request(e)) /\ Request(e).least \in Int
         /\ ranks[Request(e).to] - ranks[Request(e).from] < Request(e).least
<1>1. From(doc, e).col # To(doc, e).col
  BY DEF AsksRanks, Facing
<1>2. /\ Earlier(doc, e).col \in Columns /\ Later(doc, e).col \in Columns
      /\ Earlier(doc, e).col < Later(doc, e).col
  BY <1>1, EndsInOrder
<1>3. NeededRankGap(e) \in Int
  <2>1. Half(From(doc, e)) \in Nat /\ Half(To(doc, e)) \in Nat
    BY EdgeFacts, NodeFacts
  <2> QED BY <2>1 DEF NeededRankGap
<1>4. IsGap(Request(e))
  BY <1>2, <1>3, ApartIsGap DEF Request
<1>5. /\ Request(e).from = Earlier(doc, e).col /\ Request(e).to = Later(doc, e).col
      /\ Request(e).least = NeededRankGap(e)
  BY DEF Request, Apart
<1> QED BY <1>3, <1>4, <1>5 DEF AsksRanks, GapOf

LEMMA WidenedIs ==
  ASSUME IsDocument(doc), IsFeedback(feedback), NEW e \in EdgesOf(doc)
  PROVE  IsFeedback(Widened(e))
<1>1. CASE AsksRanks(e)
  <2> DEFINE kept == {k \in feedback.ranks : <<k.from, k.to>> # <<Request(e).from, Request(e).to>>}
             wide == kept \cup {Request(e)}
  <2>1. AreGaps(kept)
    BY GapsWithin DEF IsFeedback
  <2>2. AreGaps({Request(e)})
    BY <1>1, RequestIs, FS_Singleton DEF AreGaps
  <2>3. AreGaps(wide)
    <3> HIDE DEF kept
    <3> QED BY <2>1, <2>2, GapsTogether
  <2>4. Widened(e) = [feedback EXCEPT !.ranks = wide]
    BY <1>1 DEF Widened
  <2> HIDE DEF wide
  <2> QED BY <2>3, <2>4 DEF IsFeedback
<1>2. CASE ~AsksRanks(e)
  <2>1. Widened(e) = [feedback EXCEPT !.laneGap = 32]
    BY <1>2 DEF Widened
  <2> QED BY <2>1 DEF IsFeedback
<1> QED BY <1>1, <1>2

LEMMA NoFeedbackIs == IsFeedback(NoFeedback)
  BY FS_EmptySet DEF IsFeedback, AreGaps, NoFeedback

LEMMA BeginIs ==
  ASSUME NEW next, NEW d, IsDocument(d), d.version \in {1, 2}, Begin(next, d)
  PROVE  /\ IsDocument(doc') /\ doc'.version \in {1, 2} /\ IsFeedback(feedback')
         /\ round' \in 0..MaxRounds /\ ranks' = Ranks(doc', feedback')
<1>1. 0 \in 0..MaxRounds
  BY RoundsAssumption
<1> QED BY <1>1, NoFeedbackIs DEF Begin

\* The states are sound from the start and stay so.
LEMMA SoundInit == Init => Sound
<1> SUFFICES ASSUME Init PROVE Sound
  OBVIOUS
<1>1. IsDocument(source) /\ source.version = 1 /\ doc = source
  BY DocumentAssumption DEF Init
<1>2. IsFeedback(feedback) /\ round \in 0..MaxRounds
  BY NoFeedbackIs, RoundsAssumption DEF Init
<1>3. IsRankPlan(planned)
  BY LegacyIs DEF Init
<1>4. stage \notin Compiling
  BY DEF Init, Compiling
<1> QED BY <1>1, <1>2, <1>3, <1>4 DEF Sound

LEMMA SoundNext == Sound /\ [Next]_vars => Sound'
<1> SUFFICES ASSUME Sound, [Next]_vars PROVE Sound'
  OBVIOUS
<1>0. /\ IsDocument(source) /\ source.version \in {1, 2}
      /\ IsDocument(doc) /\ doc.version \in {1, 2}
      /\ IsFeedback(feedback) /\ round \in 0..MaxRounds /\ IsRankPlan(planned)
      /\ stage \in Compiling => ranks = Ranks(doc, feedback)
  BY DEF Sound
<1>1. CASE Read
  <2>1. UNCHANGED <<source, planned>>
    BY <1>1 DEF Read
  <2>2. PICK d \in {source, Intrinsic(source)} : \E next : Begin(next, d)
    BY <1>1 DEF Read
  <2>3. IsDocument(d) /\ d.version \in {1, 2}
    BY <1>0, <2>2, IntrinsicIs
  <2>4. /\ IsDocument(doc') /\ doc'.version \in {1, 2} /\ IsFeedback(feedback')
        /\ round' \in 0..MaxRounds /\ ranks' = Ranks(doc', feedback')
    BY <2>2, <2>3, BeginIs
  <2> QED BY <1>0, <2>1, <2>4 DEF Sound
<1>2. CASE CompileAgain
  <2>1. /\ UNCHANGED <<source, stage, doc, planned>> /\ Stuck # {}
        /\ feedback' = Widened(FirstStuck) /\ round' = round + 1 /\ round < MaxRounds
        /\ ranks' = Ranks(doc', feedback')
    BY <1>2 DEF CompileAgain, Asking
  <2>2. IsFeedback(feedback')
    BY <1>0, <2>1, FirstStuckIs, WidenedIs
  <2>3. round' \in 0..MaxRounds
    BY <1>0, <2>1, RoundsAssumption
  <2> QED BY <1>0, <2>1, <2>2, <2>3 DEF Sound
<1>3. CASE PlanWithoutPins
  <2>1. UNCHANGED <<source, planned>> /\ Begin("projection", Planning(source))
    BY <1>3 DEF PlanWithoutPins
  <2>2. /\ IsDocument(doc') /\ doc'.version \in {1, 2} /\ IsFeedback(feedback')
        /\ round' \in 0..MaxRounds /\ ranks' = Ranks(doc', feedback')
    BY <1>0, <2>1, PlanningIs, BeginIs
  <2> QED BY <1>0, <2>1, <2>2 DEF Sound
<1>4. CASE MapPins
  <2>1. /\ UNCHANGED source /\ planned' = ranks /\ stage \in Compiling
        /\ Begin("mapped", MappedCandidate(source, LegacyColumns, ranks))
    BY <1>4 DEF MapPins, Compiling
  <2>2. IsRankPlan(ranks)
    BY <1>0, <2>1, RanksInOrder
  <2>3. /\ IsDocument(MappedCandidate(source, LegacyColumns, ranks))
        /\ MappedCandidate(source, LegacyColumns, ranks).version = 2
    <3>1. IsDocument(MappedCandidate(source, LegacyColumns, ranks))
      BY <1>0, <2>2, LegacyIs, MappedIs
    <3>2. MappedCandidate(source, LegacyColumns, ranks).version = 2
      BY <1>0, Fields DEF MappedCandidate
    <3> QED BY <3>1, <3>2
  <2>4. /\ IsDocument(doc') /\ doc'.version \in {1, 2} /\ IsFeedback(feedback')
        /\ round' \in 0..MaxRounds /\ ranks' = Ranks(doc', feedback')
    BY <2>1, <2>3, BeginIs
  <2> QED BY <1>0, <2>1, <2>2, <2>4 DEF Sound
<1>5. CASE EnlargeCanvas
  <2>1. /\ UNCHANGED <<source, planned>>
        /\ \E box : Begin("enlarged", [doc EXCEPT !.box = box])
    BY <1>5 DEF EnlargeCanvas
  <2>2. PICK box : Begin("enlarged", [doc EXCEPT !.box = box])
    BY <2>1
  <2>3. IsDocument([doc EXCEPT !.box = box]) /\ [doc EXCEPT !.box = box].version = doc.version
    BY <1>0, BoxIs
  <2>4. /\ IsDocument(doc') /\ doc'.version \in {1, 2} /\ IsFeedback(feedback')
        /\ round' \in 0..MaxRounds /\ ranks' = Ranks(doc', feedback')
    BY <1>0, <2>2, <2>3, BeginIs
  <2> QED BY <1>0, <2>1, <2>4 DEF Sound
<1>6. CASE Accept \/ Reject
  <2>1. UNCHANGED <<source, doc, feedback, round, ranks, planned>> /\ stage' = "done"
    BY <1>6 DEF Accept, Reject, Finish
  <2>2. stage' \notin Compiling
    BY <2>1 DEF Compiling
  <2> QED BY <1>0, <2>1, <2>2 DEF Sound
<1>7. CASE Again
  <2>1. /\ UNCHANGED planned /\ source' = doc /\ Begin("read", doc) /\ stage' = "read"
    BY <1>7 DEF Again, Begin
  <2>2. /\ IsDocument(doc') /\ doc'.version \in {1, 2} /\ IsFeedback(feedback')
        /\ round' \in 0..MaxRounds /\ ranks' = Ranks(doc', feedback')
    BY <1>0, <2>1, BeginIs
  <2> QED BY <1>0, <2>1, <2>2 DEF Sound
<1>8. CASE Ended \/ UNCHANGED vars
  <2>1. UNCHANGED vars
    BY <1>8 DEF Ended
  <2> QED BY <1>0, <2>1 DEF Sound, vars
<1> QED BY <1>1, <1>2, <1>3, <1>4, <1>5, <1>6, <1>7, <1>8 DEF Next

LEMMA AlwaysSound == Spec => []Sound
  BY SoundInit, SoundNext, PTL DEF Spec

\* The plan is readable at every round of every compile (createReadableLayout).
THEOREM ReadableRanks == Spec => []RanksAreReadable
<1>1. Sound => RanksAreReadable
  <2> SUFFICES ASSUME Sound, stage \in Compiling PROVE RanksAreReadable
    BY DEF RanksAreReadable
  <2>1. IsDocument(doc) /\ IsFeedback(feedback) /\ ranks = Ranks(doc, feedback)
    BY DEF Sound
  <2>2. \A m, n \in NodesOf(doc) :
          m.lane = n.lane /\ m.col < n.col /\ Overlap(m, n, 8)
            => ranks[n.col] - ranks[m.col] >= Half(m) + 8 + Half(n)
    BY <2>1, PlanIsReadable
  <2>3. \A e \in EdgesOf(doc) :
          Direct(doc, e) /\ ~PrefersChannel(e)
            => GapOf(e) - Half(From(doc, e)) - Half(To(doc, e)) >= LabelClearance(e)
    BY <2>1, PlanIsReadable DEF GapOf
  <2>4. \A g \in doc.groups :
          /\ GroupSpan(doc, g, ranks).left >= 44
          /\ GroupSpan(doc, g, ranks).right <= 40 + LaneWidth(doc, ranks) - 8
    BY <2>1, PlanIsReadable
  <2>5. \A n \in NodesOf(doc) :
          n.col = 1 \/ Half(n) <= 46 + (n.col - 1) * Pitch => ranks[n.col] - Half(n) >= 48
    BY <2>1, PlanIsReadable
  <2>6. \A l \in DOMAIN doc.lanes : \A p \in InGroups(doc, l) :
          LET top == Header(doc, l, ranks) + TopOffset(doc, p[2])
          IN  top > 8 /\ top + p[2].height < LaneHeight(doc, l, ranks) - 30 - 4
    BY <2>1, LaneHoldsNodes
  <2> QED BY <2>2, <2>3, <2>4, <2>5, <2>6 DEF RanksAreReadable
<1> QED BY <1>1, AlwaysSound, PTL

\* Where the feedback asks for a gap, the ranks have it.
LEMMA FeedbackIsMet ==
  ASSUME IsDocument(doc), IsFeedback(feedback), ranks = Ranks(doc, feedback)
  PROVE  /\ IsPlan(ranks)
         /\ \A k \in feedback.ranks :
              /\ k.from \in Columns /\ k.to \in Columns /\ k.least \in Int
              /\ ranks[k.to] - ranks[k.from] >= k.least
<1>1. IsPlan(ranks) /\ \A k \in Constraints(doc, feedback) : ranks[k.to] - ranks[k.from] >= k.least
  BY RanksAre
<1>2. feedback.ranks \subseteq Constraints(doc, feedback)
  BY DEF Constraints
<1>3. \A k \in feedback.ranks : k.from \in Columns /\ k.to \in Columns /\ k.least \in Int
  BY DEF IsFeedback, AreGaps, IsGap
<1> QED BY <1>1, <1>2, <1>3

\* Whatever is asked for has not been asked for before.
LEMMA AskingGrows ==
  ASSUME Sound, stage \in Compiling, Asking PROVE Grows(FirstStuck)
<1>1. /\ IsDocument(doc) /\ IsFeedback(feedback) /\ ranks = Ranks(doc, feedback)
      /\ FirstStuck \in EdgesOf(doc)
  BY FirstStuckIs DEF Sound, Asking
<1>2. PICK e \in EdgesOf(doc) : e = FirstStuck
  BY <1>1
<1>3. CASE AsksRanks(e)
  <2>1. /\ IsGap(Request(e)) /\ Request(e).least \in Int
        /\ ranks[Request(e).to] - ranks[Request(e).from] < Request(e).least
    BY <1>1, <1>3, RequestIs
  <2>2. ASSUME NEW k \in feedback.ranks,
               <<k.from, k.to>> = <<Request(e).from, Request(e).to>>
        PROVE  Request(e).least > k.least
    <3>1. k.from = Request(e).from /\ k.to = Request(e).to
      BY <2>2
    <3>2. /\ k.from \in Columns /\ k.to \in Columns /\ k.least \in Int /\ IsPlan(ranks)
          /\ ranks[k.to] - ranks[k.from] >= k.least
      BY <1>1, FeedbackIsMet
    <3>3. ranks[k.to] - ranks[k.from] \in Int
      BY <3>2 DEF IsPlan
    <3> QED BY <2>1, <3>1, <3>2, <3>3
  <2> QED BY <1>2, <1>3, <2>2 DEF Grows
<1>4. CASE ~AsksRanks(e)
  <2>1. AsksLanes(e)
    BY <1>2, <1>4 DEF Asking
  <2>2. Max({20, feedback.laneGap}) < 32
    BY <2>1 DEF AsksLanes, LaneGap
  <2>3. PICK z \in Int : z = 20
    OBVIOUS
  <2>4. Max({z, feedback.laneGap}) \in Int /\ Max({z, feedback.laneGap}) >= feedback.laneGap
          /\ feedback.laneGap \in Int
    BY <1>1, MaxOfTwo DEF IsFeedback
  <2>5. feedback.laneGap < 32
    BY <2>2, <2>3, <2>4
  <2> QED BY <1>2, <1>4, <2>5 DEF Grows
<1> QED BY <1>3, <1>4

\* Another round keeps what the earlier ones gained, and gains what it asks for.
LEMMA RoundGains ==
  ASSUME Sound, Sound', CompileAgain
  PROVE  /\ \A k \in feedback.ranks : ranks'[k.to] - ranks'[k.from] >= k.least
         /\ \/ LaneGap(feedback) < LaneGap(feedback')
            \/ \E k \in feedback'.ranks :
                 /\ ranks[k.to] - ranks[k.from] < k.least
                 /\ ranks'[k.to] - ranks'[k.from] >= k.least
<1>1. /\ IsDocument(doc) /\ IsFeedback(feedback) /\ stage \in Compiling
      /\ ranks = Ranks(doc, feedback) /\ Asking /\ doc' = doc
      /\ feedback' = Widened(FirstStuck) /\ Grows(FirstStuck)
      /\ FirstStuck \in EdgesOf(doc) /\ IsFeedback(feedback') /\ ranks' = Ranks(doc, feedback')
  BY FirstStuckIs DEF Sound, CompileAgain, Asking
<1>2. PICK e \in EdgesOf(doc) : e = FirstStuck
  BY <1>1
<1>3. /\ IsPlan(ranks')
      /\ \A k \in feedback'.ranks :
           /\ k.from \in Columns /\ k.to \in Columns /\ k.least \in Int
           /\ ranks'[k.to] - ranks'[k.from] >= k.least
  <2>1. PICK f, r : f = feedback' /\ r = ranks'
    OBVIOUS
  <2>2. IsPlan(r) /\ \A k \in Constraints(doc, f) : r[k.to] - r[k.from] >= k.least
    BY <1>1, <2>1, RanksAre
  <2>3. f.ranks \subseteq Constraints(doc, f)
    BY DEF Constraints
  <2>4. \A k \in f.ranks : k.from \in Columns /\ k.to \in Columns /\ k.least \in Int
    BY <1>1, <2>1 DEF IsFeedback, AreGaps, IsGap
  <2> QED BY <2>1, <2>2, <2>3, <2>4
<1>4. ASSUME NEW k \in feedback.ranks PROVE k.from \in Columns /\ k.to \in Columns /\ k.least \in Int
  BY <1>1 DEF IsFeedback, AreGaps, IsGap
<1>5. CASE AsksRanks(e)
  <2>1. /\ IsGap(Request(e)) /\ Request(e).least \in Int
        /\ ranks[Request(e).to] - ranks[Request(e).from] < Request(e).least
    BY <1>1, <1>5, RequestIs
  <2>2. feedback'.ranks =
          {k \in feedback.ranks : <<k.from, k.to>> # <<Request(e).from, Request(e).to>>}
            \cup {Request(e)}
    BY <1>1, <1>2, <1>5 DEF Widened, IsFeedback
  <2>3. ASSUME NEW k \in feedback.ranks PROVE ranks'[k.to] - ranks'[k.from] >= k.least
    <3>1. CASE k \in feedback'.ranks
      BY <1>3, <3>1
    <3>2. CASE k \notin feedback'.ranks
      <4>1. k.from = Request(e).from /\ k.to = Request(e).to
        BY <2>2, <3>2
      <4>2. Request(e).least > k.least
        BY <1>1, <1>2, <1>5, <4>1 DEF Grows
      <4>3. ranks'[Request(e).to] - ranks'[Request(e).from] >= Request(e).least
        BY <1>3, <2>2
      <4>4. ranks'[k.to] - ranks'[k.from] \in Int
        BY <1>3, <1>4 DEF IsPlan
      <4> QED BY <1>4, <2>1, <4>1, <4>2, <4>3, <4>4
    <3> QED BY <3>1, <3>2
  <2>4. /\ Request(e) \in feedback'.ranks
        /\ ranks'[Request(e).to] - ranks'[Request(e).from] >= Request(e).least
    BY <1>3, <2>2
  <2> QED BY <2>1, <2>3, <2>4
<1>6. CASE ~AsksRanks(e)
  <2>1. feedback' = [feedback EXCEPT !.laneGap = 32] /\ feedback.laneGap < 32
    BY <1>1, <1>2, <1>6 DEF Widened, Grows
  <2>2. feedback'.ranks = feedback.ranks /\ feedback'.laneGap = 32
    BY <1>1, <2>1 DEF IsFeedback
  <2>3. PICK z \in Int, l \in Int, m \in Int : z = 20 /\ l = feedback.laneGap /\ m = 32
    BY <1>1 DEF IsFeedback
  <2>4. Max({z, l}) \in {z, l} /\ Max({z, m}) >= m /\ Max({z, m}) \in Int
    BY MaxOfTwo
  <2>5. Max({z, l}) < Max({z, m})
    BY <2>1, <2>3, <2>4
  <2>6. LaneGap(feedback) < LaneGap(feedback')
    BY <2>2, <2>3, <2>5 DEF LaneGap
  <2> QED BY <1>3, <2>2, <2>6
<1> QED BY <1>5, <1>6

\* Rounds do not repeat themselves and do not lose ground
\* (compileWorkflowWithFeedback).
THEOREM RoundsGain == Spec => EveryRoundGains
<1>1. Sound => (stage \in Compiling /\ Asking => Grows(FirstStuck))
  BY AskingGrows
<1> DEFINE Gain ==
      round' = round + 1 =>
         /\ \A k \in feedback.ranks : ranks'[k.to] - ranks'[k.from] >= k.least
         /\ \/ LaneGap(feedback) < LaneGap(feedback')
            \/ \E k \in feedback'.ranks :
                 /\ ranks[k.to] - ranks[k.from] < k.least
                 /\ ranks'[k.to] - ranks'[k.from] >= k.least
<1>2. Sound /\ Sound' /\ [Next]_vars => [Gain]_vars
  <2> SUFFICES ASSUME Sound, Sound', [Next]_vars PROVE [Gain]_vars
    OBVIOUS
  <2>1. round \in Nat
    BY RoundsAssumption DEF Sound
  <2>2. CASE CompileAgain
    BY <2>2, RoundGains
  <2>3. ASSUME round' = 0 \/ round' = round PROVE Gain
    <3>1. round' # round + 1
      BY <2>1, <2>3
    <3> QED BY <3>1
  <2>4. CASE Next /\ ~CompileAgain
    <3>1. round' = 0 \/ round' = round
      BY <2>4 DEF Next, Read, PlanWithoutPins, MapPins, EnlargeCanvas, Accept, Reject, Again, Ended,
                  Begin, Finish, vars
    <3> QED BY <2>3, <3>1
  <2> QED BY <2>2, <2>4
<1> QED BY <1>1, <1>2, AlwaysSound, PTL DEF Spec, EveryRoundGains
-----------------------------------------------------------------------------
(* Pins keep their place                                                   *)

MappedDoc ==
  doc.edges = [i \in DOMAIN source.edges |-> MappedEdge(source.edges[i], LegacyColumns, planned)]

\* Whatever becomes of a schema-v1 document, it is accepted with its pins mapped.
PinsFollow ==
  /\ Sound
  /\ source.version = 1 =>
       /\ stage # "verify"
       /\ stage = "read" => doc.version = 1
       /\ stage = "projection" => doc = Planning(source)
       /\ stage \in {"mapped", "enlarged"} => doc.version = 2 /\ MappedDoc
       /\ verdict = "accepted" => stage = "done" /\ doc.version = 2 /\ MappedDoc

LEMMA PinsFollowInit == Init => PinsFollow
<1> SUFFICES ASSUME Init PROVE PinsFollow
  OBVIOUS
<1>1. source.version = 1 /\ doc = source /\ stage = "read" /\ verdict = "none"
  BY DocumentAssumption DEF Init
<1> QED BY <1>1, SoundInit DEF PinsFollow

LEMMA PinsFollowNext == PinsFollow /\ [Next]_vars => PinsFollow'
<1> SUFFICES ASSUME PinsFollow, [Next]_vars PROVE PinsFollow'
  OBVIOUS
<1>0. Sound /\ Sound' /\ IsDocument(source) /\ IsDocument(doc)
  BY SoundNext DEF PinsFollow, Sound
<1> SUFFICES ASSUME source'.version = 1
             PROVE  /\ stage' # "verify"
                    /\ stage' = "read" => doc'.version = 1
                    /\ stage' = "projection" => doc' = Planning(source')
                    /\ stage' \in {"mapped", "enlarged"} => doc'.version = 2 /\ MappedDoc'
                    /\ verdict' = "accepted" => stage' = "done" /\ doc'.version = 2 /\ MappedDoc'
  BY <1>0 DEF PinsFollow
<1>1. CASE Read
  <2>1. source' = source /\ stage' \in {"verify", "intrinsic"} /\ stage = "read"
          /\ verdict' = verdict /\ (source.version # 2 => stage' = "intrinsic")
    BY <1>1 DEF Read, Begin
  <2> QED BY <2>1 DEF PinsFollow
<1>2. CASE CompileAgain
  <2>1. UNCHANGED <<source, stage, doc, planned, verdict>> /\ stage \in Compiling
    BY <1>2 DEF CompileAgain
  <2> QED BY <2>1 DEF PinsFollow, MappedDoc
<1>3. CASE PlanWithoutPins
  <2>1. UNCHANGED <<source, verdict>> /\ stage' = "projection" /\ doc' = Planning(source)
          /\ stage = "intrinsic"
    BY <1>3 DEF PlanWithoutPins, Begin
  <2> QED BY <2>1 DEF PinsFollow
<1>4. CASE MapPins
  <2>1. UNCHANGED <<source, verdict>> /\ planned' = ranks /\ stage' = "mapped"
          /\ doc' = MappedCandidate(source, LegacyColumns, ranks)
          /\ stage \in {"intrinsic", "projection"}
    BY <1>4 DEF MapPins, Begin
  <2>2. /\ MappedCandidate(source, LegacyColumns, ranks).version = 2
        /\ MappedCandidate(source, LegacyColumns, ranks).edges
             = [i \in DOMAIN source.edges |-> MappedEdge(source.edges[i], LegacyColumns, ranks)]
    BY <1>0, Fields DEF MappedCandidate
  <2> QED BY <2>1, <2>2 DEF PinsFollow, MappedDoc
<1>5. CASE EnlargeCanvas
  <2>1. PICK box : doc' = [doc EXCEPT !.box = box]
    BY <1>5 DEF EnlargeCanvas, Begin
  <2>2. UNCHANGED <<source, planned, verdict>> /\ stage' = "enlarged" /\ stage = "mapped"
    BY <1>5 DEF EnlargeCanvas, Begin
  <2>3. doc'.version = doc.version /\ doc'.edges = doc.edges
    BY <1>0, <2>1, Fields
  <2> QED BY <2>2, <2>3 DEF PinsFollow, MappedDoc
<1>6. CASE Accept
  <2>1. UNCHANGED <<source, doc, planned>> /\ stage' = "done"
          /\ stage \in {"verify", "mapped", "enlarged"}
    BY <1>6 DEF Accept, Finish
  <2> QED BY <2>1 DEF PinsFollow, MappedDoc
<1>7. CASE Reject
  <2>1. UNCHANGED <<source, doc, planned>> /\ stage' = "done" /\ verdict' = "rejected"
          /\ stage \in {"verify", "projection", "mapped", "enlarged"}
    BY <1>7 DEF Reject, Finish, Compiling
  <2> QED BY <2>1 DEF PinsFollow, MappedDoc
<1>8. CASE Again
  <2>1. source' = doc /\ source.version = 1 /\ verdict = "accepted"
    BY <1>8 DEF Again
  <2> QED BY <2>1 DEF PinsFollow
<1>9. CASE Ended \/ UNCHANGED vars
  <2>1. UNCHANGED vars
    BY <1>9 DEF Ended
  <2> QED BY <2>1 DEF PinsFollow, MappedDoc, vars
<1> QED BY <1>1, <1>2, <1>3, <1>4, <1>5, <1>6, <1>7, <1>8, <1>9 DEF Next

\* The pins of a mapped relationship are those of the old one, one by one.
LEMMA MappedPins ==
  ASSUME NEW d, IsDocument(d), NEW i \in DOMAIN d.edges, NEW new, IsRankPlan(new)
  PROVE  /\ DOMAIN Pins(d.edges[i]) = 1..Len(Pins(d.edges[i]))
         /\ \A k \in 1..Len(Pins(d.edges[i])) :
              /\ Pins(d.edges[i])[k] \in Int
              /\ Pins(MappedEdge(d.edges[i], LegacyColumns, new))[k]
                   = MapX(Pins(d.edges[i])[k], LegacyColumns, new)
<1>1. PICK e, old, m :
        e = d.edges[i] /\ old = LegacyColumns /\ m = MappedEdge(e, LegacyColumns, new)
  OBVIOUS
<1>2. e \in EdgeShape(d) /\ IsRankPlan(old)
  BY <1>1, EdgesHaveShape, LegacyIs
<1>3. e.via \in Seq(Int) /\ e.labelAt \in Seq(Int) /\ e.channelX \in Seq(Int)
  BY <1>2 DEF EdgeShape
<1>4. PICK v \in Seq(Int), l \in Seq(Int), c \in Seq(Int) :
        v = e.via /\ l = e.labelAt /\ c = e.channelX
  BY <1>3
<1>5. /\ m.via = MapAll(v, old, new) /\ m.labelAt = MapAll(l, old, new)
      /\ m.channelX = MapAll(c, old, new)
  BY <1>1, <1>2, <1>4 DEF MappedEdge, EdgeShape
<1>6. PICK p \in Seq(Int) : p = Pins(e) /\ p = (v \o l) \o c /\ v \o l \in Seq(Int)
  <2>1. v \o l \in Seq(Int)
    BY JoinIs
  <2>2. (v \o l) \o c \in Seq(Int)
    BY <2>1, JoinIs
  <2> QED BY <1>4, <2>1, <2>2 DEF Pins
<1>7. Pins(m) = MapAll(p, old, new)
  <2>0. ASSUME NEW s \in Seq(Int), NEW t \in Seq(Int) PROVE JoinsMapped(s, t, old, new)
    BY <1>2, MapAllJoins
  <2>1. MapAll(v \o l, old, new) = MapAll(v, old, new) \o MapAll(l, old, new)
    BY <2>0 DEF JoinsMapped
  <2>2. MapAll(p, old, new) = MapAll(v \o l, old, new) \o MapAll(c, old, new)
    BY <1>6, <2>0 DEF JoinsMapped
  <2> QED BY <1>5, <2>1, <2>2 DEF Pins
<1>8. \A k \in 1..Len(p) : MapAll(p, old, new)[k] = MapX(p[k], old, new)
  BY <1>2, MapAllIs
<1>9. DOMAIN p = 1..Len(p) /\ \A k \in 1..Len(p) : p[k] \in Int
  OBVIOUS
<1> QED BY <1>1, <1>6, <1>7, <1>8, <1>9

\* The pins of the new document lie where those of the old one did, among the
\* planned ranks and among themselves (mapExplicitCoordinates over
\* createHorizontalRankMapper).
THEOREM PinsStayPut == Spec => []PinsKeepTheirPlace
<1>1. PinsFollow => PinsKeepTheirPlace
  <2> SUFFICES ASSUME PinsFollow, source.version = 1,
                      stage \in {"mapped", "enlarged"} \/ verdict = "accepted"
               PROVE
                 /\ DOMAIN doc.edges = DOMAIN source.edges
                 /\ \A i \in DOMAIN source.edges : \A k \in DOMAIN Pins(source.edges[i]) :
                      LET old == Pins(source.edges[i])[k]
                          new == Pins(doc.edges[i])[k]
                      IN  /\ \A c \in Columns : /\ old <= LegacyColumns[c] => new <= planned[c]
                                               /\ old >= LegacyColumns[c] => new >= planned[c]
                          /\ \A j \in DOMAIN source.edges :
                               \A l \in DOMAIN Pins(source.edges[j]) :
                                 old <= Pins(source.edges[j])[l] => new <= Pins(doc.edges[j])[l]
    BY DEF PinsKeepTheirPlace
  <2>1. IsDocument(source) /\ IsRankPlan(planned) /\ IsRankPlan(LegacyColumns)
    BY LegacyIs DEF PinsFollow, Sound
  <2>2. doc.edges = [i \in DOMAIN source.edges |->
                       MappedEdge(source.edges[i], LegacyColumns, planned)]
    BY DEF PinsFollow, MappedDoc
  <2>3. ASSUME NEW i \in DOMAIN source.edges, NEW k \in DOMAIN Pins(source.edges[i])
        PROVE  /\ Pins(source.edges[i])[k] \in Int
               /\ Pins(doc.edges[i])[k] = MapX(Pins(source.edges[i])[k], LegacyColumns, planned)
    BY <2>1, <2>2, MappedPins
  <2>4. ASSUME NEW i \in DOMAIN source.edges, NEW k \in DOMAIN Pins(source.edges[i]),
               NEW c \in Columns
        PROVE  /\ Pins(source.edges[i])[k] <= LegacyColumns[c]
                    => Pins(doc.edges[i])[k] <= planned[c]
               /\ Pins(source.edges[i])[k] >= LegacyColumns[c]
                    => Pins(doc.edges[i])[k] >= planned[c]
    <3>0. PICK old : old = LegacyColumns /\ IsRankPlan(old)
      BY <2>1
    <3>1. PICK x \in Int : x = Pins(source.edges[i])[k] /\ old = LegacyColumns /\ IsRankPlan(old)
      BY <2>3, <3>0
    <3>2. /\ x <= old[c] => MapX(x, old, planned) <= planned[c]
          /\ x >= old[c] => MapX(x, old, planned) >= planned[c]
      BY <2>1, <3>1, MapKeepsSide
    <3> QED BY <2>3, <3>1, <3>2
  <2>5. ASSUME NEW i \in DOMAIN source.edges, NEW k \in DOMAIN Pins(source.edges[i]),
               NEW j \in DOMAIN source.edges, NEW l \in DOMAIN Pins(source.edges[j]),
               Pins(source.edges[i])[k] <= Pins(source.edges[j])[l]
        PROVE  Pins(doc.edges[i])[k] <= Pins(doc.edges[j])[l]
    <3>0. PICK old : old = LegacyColumns /\ IsRankPlan(old)
      BY <2>1
    <3>1. PICK x \in Int, y \in Int :
            /\ x = Pins(source.edges[i])[k] /\ y = Pins(source.edges[j])[l]
            /\ old = LegacyColumns /\ IsRankPlan(old)
      BY <2>3, <3>0
    <3>2. MapX(x, old, planned) <= MapX(y, old, planned)
      BY <2>1, <2>5, <3>1, MapKeepsOrder
    <3> QED BY <2>3, <3>1, <3>2
  <2> QED BY <2>2, <2>4, <2>5
<1> QED BY <1>1, PinsFollowInit, PinsFollowNext, PTL DEF Spec
-----------------------------------------------------------------------------
(* The output migrates to itself.  A compile is a walk: each round it goes *)
(* from one feedback to the next, as the document and what the router      *)
(* needs decide.  The second run walks where the first one did.            *)

\* WorkflowMigration's attempt, of document d laid out with ranks r for feedback f
GapIn(d, r, e) == r[Later(d, e).col] - r[Earlier(d, e).col]

ClearIn(d, r) ==
  \A e \in EdgesOf(d) : \A x \in Range(e.via) \cup Range(e.channelX) : \A n \in NodesOf(d) :
    Distance(x, r[n.col]) > Half(n) + 2

StuckIn(d, nd, f, r) ==
  {i \in DOMAIN d.edges :
     LET e == d.edges[i]
     IN  /\ ~RoutedByHand(e) /\ e.route = "auto"
         /\ \/ GapIn(d, r, e) < nd[i].gap
            \/ From(d, e).lane # To(d, e).lane /\ LaneGap(f) < nd[i].lanes}

FacingIn(d, r, e) ==
  LET forward == From(d, e).col < To(d, e).col
  IN  /\ From(d, e).col # To(d, e).col
      /\ e.fromSide \in {"auto", IF forward THEN "right" ELSE "left"}
      /\ e.toSide \in {"auto", IF forward THEN "left" ELSE "right"}
      /\ 2 * GapIn(d, r, e) > From(d, e).width + To(d, e).width

NeededIn(d, e) == Half(From(d, e)) + 32 + Half(To(d, e))
RanksIn(d, r, e) == FacingIn(d, r, e) /\ GapIn(d, r, e) < NeededIn(d, e)
LanesIn(d, f, e) == From(d, e).lane # To(d, e).lane /\ LaneGap(f) < 32
BlockedIn(d, r) == ~ContractHolds(d) \/ ~ClearIn(d, r)
FirstIn(d, nd, f, r) == d.edges[Min(StuckIn(d, nd, f, r))]
RequestIn(d, e) == Apart(Earlier(d, e).col, Later(d, e).col, NeededIn(d, e))

TooSmallIn(d, f, r) ==
  /\ d.box # NoBox
  /\ \/ d.box.width < RequiredBox(d, f, r).width
     \/ d.box.height < RequiredBox(d, f, r).height

WidenedIn(d, f, r, e) ==
  IF RanksIn(d, r, e)
  THEN [f EXCEPT !.ranks =
          {k \in @ : <<k.from, k.to>> # <<RequestIn(d, e).from, RequestIn(d, e).to>>}
            \cup {RequestIn(d, e)}]
  ELSE [f EXCEPT !.laneGap = 32]

GrowsIn(d, f, r, e) ==
  IF RanksIn(d, r, e)
  THEN \A k \in f.ranks :
         <<k.from, k.to>> = <<RequestIn(d, e).from, RequestIn(d, e).to>>
           => RequestIn(d, e).least > k.least
  ELSE f.laneGap < 32

AskingIn(d, nd, f, r) ==
  /\ ~BlockedIn(d, r) /\ StuckIn(d, nd, f, r) # {}
  /\ RanksIn(d, r, FirstIn(d, nd, f, r)) \/ LanesIn(d, f, FirstIn(d, nd, f, r))

RoundIn(d, nd, f, r, g) ==
  /\ AskingIn(d, nd, f, r) /\ GrowsIn(d, f, r, FirstIn(d, nd, f, r))
  /\ g = WidenedIn(d, f, r, FirstIn(d, nd, f, r))

CompilesIn(d, nd, f, r) ==
  /\ ~BlockedIn(d, r) /\ StuckIn(d, nd, f, r) = {}
  /\ \A n \in NodesOf(d) : r[n.col] - Half(n) >= 40
  /\ ~TooSmallIn(d, f, r)

\* They are the operators of the model, seen from any state.
LEMMA Seen ==
  /\ Stuck = StuckIn(doc, needs, feedback, ranks)
  /\ Blocked = BlockedIn(doc, ranks)
  /\ TooSmall = TooSmallIn(doc, feedback, ranks)
  /\ \A e : /\ AsksRanks(e) = RanksIn(doc, ranks, e)
            /\ AsksLanes(e) = LanesIn(doc, feedback, e)
            /\ Widened(e) = WidenedIn(doc, feedback, ranks, e)
            /\ Grows(e) = GrowsIn(doc, feedback, ranks, e)
<1>1. Stuck = StuckIn(doc, needs, feedback, ranks)
  BY DEF Stuck, StuckIn, GapOf, GapIn
<1>2. Blocked = BlockedIn(doc, ranks)
  BY DEF Blocked, BlockedIn, PinsClear, ClearIn
<1>3. TooSmall = TooSmallIn(doc, feedback, ranks)
  BY DEF TooSmall, TooSmallIn
<1>4. \A e : AsksRanks(e) = RanksIn(doc, ranks, e)
  BY DEF AsksRanks, RanksIn, Facing, FacingIn, NeededRankGap, NeededIn, GapOf, GapIn
<1>5. \A e : AsksLanes(e) = LanesIn(doc, feedback, e)
  BY DEF AsksLanes, LanesIn
<1>6. \A e : Request(e) = RequestIn(doc, e)
  BY DEF Request, RequestIn, NeededRankGap, NeededIn
<1>7. \A e : Widened(e) = WidenedIn(doc, feedback, ranks, e)
  BY <1>4, <1>6 DEF Widened, WidenedIn
<1>8. \A e : Grows(e) = GrowsIn(doc, feedback, ranks, e)
  BY <1>4, <1>6 DEF Grows, GrowsIn
<1> QED BY <1>1, <1>2, <1>3, <1>4, <1>5, <1>7, <1>8

LEMMA SeenRounds ==
  /\ Asking = AskingIn(doc, needs, feedback, ranks)
  /\ FirstStuck = FirstIn(doc, needs, feedback, ranks)
  /\ Compiles = CompilesIn(doc, needs, feedback, ranks)
<1>1. FirstStuck = FirstIn(doc, needs, feedback, ranks)
  BY Seen DEF FirstStuck, FirstIn
<1>2. Asking = AskingIn(doc, needs, feedback, ranks)
  BY Seen, <1>1 DEF Asking, AskingIn
<1>3. Compiles = CompilesIn(doc, needs, feedback, ranks)
  BY Seen DEF Compiles, Routed, InLanes, CompilesIn
<1> QED BY <1>1, <1>2, <1>3

\* n rounds of compiling d, from no feedback on
IsWalk(d, nd, walk, n) ==
  /\ n \in 0..MaxRounds
  /\ walk[0] = NoFeedback
  /\ \A i \in 0..(n - 1) : RoundIn(d, nd, walk[i], Ranks(d, walk[i]), walk[i + 1])

\* The state has come as far as the walk's round.
Walked == \E walk : IsWalk(doc, needs, walk, round) /\ walk[round] = feedback

\* The state is on a walk that ends with a document that compiles.
OnTheWay ==
  \E n, walk :
    /\ IsWalk(doc, needs, walk, n) /\ round \in 0..n /\ walk[round] = feedback
    /\ CompilesIn(doc, needs, walk[n], Ranks(doc, walk[n]))

Repeats ==
  /\ PinsFollow
  /\ source.version = 1 =>
       /\ stage \in {"mapped", "enlarged"} => Walked
       /\ verdict = "accepted" => OnTheWay
  /\ source.version = 2 =>
       /\ doc = source
       /\ \/ stage \in {"read", "verify"} /\ OnTheWay
          \/ stage = "done" /\ verdict = "accepted"

LEMMA RepeatsInit == Init => Repeats
<1> SUFFICES ASSUME Init PROVE Repeats
  OBVIOUS
<1>1. source.version = 1 /\ stage = "read" /\ verdict = "none"
  BY DocumentAssumption DEF Init
<1> QED BY <1>1, PinsFollowInit DEF Repeats

\* A compile that begins has walked no round.
LEMMA WalkBegins == ASSUME NEW next, NEW d, Begin(next, d) PROVE Walked'
<1>1. PICK walk : walk = [i \in {0} |-> NoFeedback]
  OBVIOUS
<1>2. feedback' = NoFeedback /\ round' = 0
  BY DEF Begin
<1>3. walk[0] = NoFeedback /\ 0 \in 0..MaxRounds
  BY <1>1, RoundsAssumption
<1>4. \A i \in 0..(0 - 1) : FALSE
  OBVIOUS
<1>5. \A d2, nd : IsWalk(d2, nd, walk, 0)
  BY <1>3, <1>4 DEF IsWalk
<1> QED BY <1>2, <1>3, <1>5 DEF Walked

LEMMA RoundIsSeen ==
  ASSUME Sound, CompileAgain
  PROVE  RoundIn(doc, needs, feedback, Ranks(doc, feedback), feedback')
<1>1. /\ ranks = Ranks(doc, feedback) /\ Asking /\ Grows(FirstStuck)
      /\ feedback' = Widened(FirstStuck)
  BY DEF Sound, CompileAgain
<1>2. AskingIn(doc, needs, feedback, ranks)
  BY <1>1, SeenRounds
<1>3. PICK e : e = FirstStuck /\ e = FirstIn(doc, needs, feedback, ranks)
  BY SeenRounds
<1>4. GrowsIn(doc, feedback, ranks, e)
  BY <1>1, <1>3, Seen
<1>5. feedback' = WidenedIn(doc, feedback, ranks, e)
  BY <1>1, <1>3, Seen
<1>6. RoundIn(doc, needs, feedback, ranks, feedback')
  BY <1>2, <1>3, <1>4, <1>5 DEF RoundIn
<1> QED BY <1>1, <1>6

\* Another round takes the walk further.
LEMMA WalkGoesOn == ASSUME Sound, CompileAgain, Walked PROVE Walked'
<1>1. PICK walk : IsWalk(doc, needs, walk, round) /\ walk[round] = feedback
  BY DEF Walked
<1>2. /\ UNCHANGED <<doc, needs>> /\ round' = round + 1 /\ round < MaxRounds
      /\ round \in Nat /\ MaxRounds \in Nat
  BY RoundsAssumption DEF CompileAgain, Sound
<1>3. PICK n \in Nat : n = round
  BY <1>2
<1>4. PICK g : g = feedback'
  OBVIOUS
<1>5. PICK longer : longer = [i \in 0..(n + 1) |-> IF i <= n THEN walk[i] ELSE g]
  OBVIOUS
<1>6. RoundIn(doc, needs, walk[n], Ranks(doc, walk[n]), g)
  BY <1>1, <1>3, <1>4, RoundIsSeen
<1>7. longer[0] = NoFeedback /\ longer[n + 1] = g
  BY <1>1, <1>5 DEF IsWalk
<1>8. ASSUME NEW i \in 0..((n + 1) - 1)
      PROVE  RoundIn(doc, needs, longer[i], Ranks(doc, longer[i]), longer[i + 1])
  <2>1. longer[i] = walk[i]
    BY <1>5
  <2>2. CASE i = n
    BY <1>6, <1>7, <2>1, <2>2
  <2>3. CASE i # n
    <3>1. i \in 0..(n - 1) /\ longer[i + 1] = walk[i + 1]
      BY <1>5, <2>3
    <3> QED BY <1>1, <1>3, <2>1, <3>1 DEF IsWalk
  <2> QED BY <2>2, <2>3
<1>9. n + 1 \in 0..MaxRounds
  BY <1>2, <1>3
<1>10. IsWalk(doc, needs, longer, n + 1)
  BY <1>7, <1>8, <1>9 DEF IsWalk
<1> QED BY <1>2, <1>3, <1>4, <1>7, <1>10 DEF Walked

\* Whoever is on the way goes a round further or compiles.
LEMMA WayGoesOn ==
  ASSUME Sound, stage \in Compiling, OnTheWay
  PROVE  /\ Compiles \/ (Asking /\ Grows(FirstStuck) /\ round < MaxRounds)
         /\ CompileAgain => OnTheWay'
<1>1. PICK n, walk :
        /\ IsWalk(doc, needs, walk, n) /\ round \in 0..n /\ walk[round] = feedback
        /\ CompilesIn(doc, needs, walk[n], Ranks(doc, walk[n]))
  BY DEF OnTheWay
<1>2. n \in 0..MaxRounds /\ n \in Nat /\ MaxRounds \in Nat /\ ranks = Ranks(doc, feedback)
  BY <1>1, RoundsAssumption DEF IsWalk, Sound
<1>3. CASE round = n
  <2>1. Compiles
    BY <1>1, <1>2, <1>3, SeenRounds
  <2>2. ~CompileAgain
    <3>1. Stuck = {}
      BY <2>1 DEF Compiles, Routed
    <3>2. CompileAgain => Stuck # {}
      BY DEF CompileAgain, Asking
    <3> QED BY <3>1, <3>2
  <2> QED BY <2>1, <2>2
<1>4. CASE round # n
  <2>1. round \in 0..(n - 1) /\ round < MaxRounds
    BY <1>1, <1>2, <1>4
  <2>2. RoundIn(doc, needs, feedback, ranks, walk[round + 1])
    BY <1>1, <1>2, <2>1 DEF IsWalk
  <2>3. PICK e : e = FirstStuck /\ e = FirstIn(doc, needs, feedback, ranks)
    BY SeenRounds
  <2>4. /\ AskingIn(doc, needs, feedback, ranks) /\ GrowsIn(doc, feedback, ranks, e)
        /\ walk[round + 1] = WidenedIn(doc, feedback, ranks, e)
    BY <2>2, <2>3 DEF RoundIn
  <2>5. Asking /\ Grows(e) /\ walk[round + 1] = Widened(e)
    BY <2>4, Seen, SeenRounds
  <2>6. ASSUME CompileAgain PROVE OnTheWay'
    <3>1. feedback' = walk[round + 1] /\ round' = round + 1 /\ doc' = doc /\ needs' = needs
      BY <2>3, <2>5, <2>6 DEF CompileAgain
    <3>2. round + 1 \in 0..n
      BY <1>2, <2>1
    <3> QED BY <1>1, <3>1, <3>2 DEF OnTheWay
  <2> QED BY <2>1, <2>3, <2>5, <2>6
<1> QED BY <1>3, <1>4

LEMMA RepeatsNext == Repeats /\ [Next]_vars => Repeats'
<1> SUFFICES ASSUME Repeats, [Next]_vars PROVE Repeats'
  OBVIOUS
<1>0. PinsFollow /\ PinsFollow' /\ Sound /\ Sound' /\ IsDocument(source)
  BY PinsFollowNext DEF Repeats, PinsFollow, Sound
<1>00. source.version \in {1, 2}
  BY <1>0 DEF Sound
<1>1. CASE Read
  <2>1. UNCHANGED <<source, needs, verdict>> /\ stage = "read"
    BY <1>1 DEF Read
  <2>2. CASE source.version = 1
    <3>1. stage' = "intrinsic" /\ verdict' = verdict
      BY <1>1, <2>2 DEF Read, Begin
    <3>2. verdict # "accepted"
      BY <1>0, <2>1, <2>2 DEF PinsFollow
    <3> QED BY <1>0, <2>1, <2>2, <3>1, <3>2 DEF Repeats
  <2>3. CASE source.version = 2
    <3>1. stage' = "verify" /\ doc' = source /\ feedback' = NoFeedback /\ round' = 0
      BY <1>1, <2>3 DEF Read, Begin
    <3>2. doc = source /\ OnTheWay
      BY <2>1, <2>3 DEF Repeats
    <3>3. PICK n, walk :
            /\ IsWalk(doc, needs, walk, n) /\ round \in 0..n
            /\ CompilesIn(doc, needs, walk[n], Ranks(doc, walk[n]))
      BY <3>2 DEF OnTheWay
    <3>4. 0 \in 0..n /\ walk[0] = NoFeedback
      BY <3>3 DEF IsWalk
    <3>5. OnTheWay'
      BY <2>1, <3>1, <3>2, <3>3, <3>4 DEF OnTheWay
    <3> QED BY <1>0, <2>1, <2>3, <3>1, <3>5 DEF Repeats
  <2> QED BY <1>00, <2>2, <2>3
<1>2. CASE CompileAgain
  <2>1. UNCHANGED <<source, needs, stage, doc, verdict>> /\ stage \in Compiling
    BY <1>2 DEF CompileAgain
  <2>2. CASE source.version = 1
    <3>1. stage # "done" /\ verdict # "accepted"
      BY <1>0, <2>1, <2>2 DEF PinsFollow, Compiling
    <3>2. stage \in {"mapped", "enlarged"} => Walked'
      BY <1>0, <1>2, <2>2, WalkGoesOn DEF Repeats
    <3> QED BY <1>0, <2>1, <2>2, <3>1, <3>2 DEF Repeats
  <2>3. CASE source.version = 2
    <3>1. doc = source /\ OnTheWay /\ stage \in {"read", "verify"}
      BY <2>1, <2>3 DEF Repeats, Compiling
    <3>2. OnTheWay'
      BY <1>0, <1>2, <2>1, <3>1, WayGoesOn
    <3> QED BY <1>0, <2>1, <2>3, <3>1, <3>2 DEF Repeats
  <2> QED BY <1>00, <2>2, <2>3
<1>3. CASE PlanWithoutPins
  <2>1. UNCHANGED <<source, verdict>> /\ stage = "intrinsic" /\ stage' = "projection"
    BY <1>3 DEF PlanWithoutPins, Begin
  <2>2. source.version = 1 /\ verdict # "accepted"
    BY <1>0, <1>00, <2>1 DEF Repeats, PinsFollow
  <2> QED BY <1>0, <2>1, <2>2 DEF Repeats
<1>4. CASE MapPins
  <2>1. UNCHANGED <<source, verdict>> /\ stage \in {"intrinsic", "projection"}
    BY <1>4 DEF MapPins
  <2>2. Walked'
    BY <1>4, WalkBegins DEF MapPins
  <2>3. source.version = 1 /\ verdict # "accepted"
    BY <1>0, <1>00, <2>1 DEF Repeats, PinsFollow
  <2> QED BY <1>0, <2>1, <2>2, <2>3 DEF Repeats
<1>5. CASE EnlargeCanvas
  <2>1. UNCHANGED <<source, verdict>> /\ stage = "mapped"
    BY <1>5 DEF EnlargeCanvas
  <2>2. Walked'
    BY <1>5, WalkBegins DEF EnlargeCanvas
  <2>3. source.version = 1 /\ verdict # "accepted"
    BY <1>0, <1>00, <2>1 DEF Repeats, PinsFollow
  <2> QED BY <1>0, <2>1, <2>2, <2>3 DEF Repeats
<1>6. CASE Accept
  <2>1. /\ UNCHANGED <<source, needs, doc, feedback, round, ranks>> /\ stage' = "done"
        /\ verdict' = "accepted" /\ stage \in {"verify", "mapped", "enlarged"} /\ Compiles
    BY <1>6 DEF Accept, Finish
  <2>2. CASE source.version = 1
    <3>1. Walked
      BY <1>0, <2>1, <2>2 DEF Repeats, PinsFollow
    <3>2. PICK walk : IsWalk(doc, needs, walk, round) /\ walk[round] = feedback
      BY <3>1 DEF Walked
    <3>3. ranks = Ranks(doc, feedback) /\ round \in 0..round
      BY <1>0, <2>1, RoundsAssumption DEF Sound, Compiling
    <3>4. CompilesIn(doc, needs, walk[round], Ranks(doc, walk[round]))
      BY <2>1, <3>2, <3>3, SeenRounds
    <3>5. OnTheWay
      BY <3>2, <3>3, <3>4 DEF OnTheWay
    <3>6. OnTheWay'
      BY <2>1, <3>5 DEF OnTheWay
    <3> QED BY <1>0, <2>1, <2>2, <3>6 DEF Repeats
  <2>3. CASE source.version = 2
    <3>1. doc = source
      BY <2>3 DEF Repeats
    <3> QED BY <1>0, <2>1, <2>3, <3>1 DEF Repeats
  <2> QED BY <1>00, <2>2, <2>3
<1>7. CASE Reject
  <2>1. /\ UNCHANGED source /\ stage \in Compiling \ {"intrinsic"} /\ stage' = "done"
        /\ verdict' = "rejected"
        /\ Fails \/ (stage # "mapped" /\ Routed /\ TooSmall)
    BY <1>7 DEF Reject, Finish
  <2>2. CASE source.version = 1
    BY <1>0, <2>1, <2>2 DEF Repeats
  <2>3. CASE source.version = 2
    <3>1. OnTheWay
      BY <2>1, <2>3 DEF Repeats, Compiling
    <3>2. Compiles \/ (Asking /\ Grows(FirstStuck) /\ round < MaxRounds)
      BY <1>0, <2>1, <3>1, WayGoesOn
    <3>3. FALSE
      BY <2>1, <3>2 DEF Fails, Compiles, Routed, Asking
    <3> QED BY <3>3
  <2> QED BY <1>00, <2>2, <2>3
<1>8. CASE Again
  <2>1. /\ source' = doc /\ doc' = doc /\ needs' = needs /\ stage' = "read"
        /\ feedback' = NoFeedback /\ round' = 0 /\ source.version = 1 /\ verdict = "accepted"
    BY <1>8 DEF Again, Begin
  <2>2. doc.version = 2 /\ OnTheWay
    BY <1>0, <2>1 DEF PinsFollow, Repeats
  <2>3. PICK n, walk :
          /\ IsWalk(doc, needs, walk, n) /\ round \in 0..n
          /\ CompilesIn(doc, needs, walk[n], Ranks(doc, walk[n]))
    BY <2>2 DEF OnTheWay
  <2>4. 0 \in 0..n /\ walk[0] = NoFeedback
    BY <2>3 DEF IsWalk
  <2>5. OnTheWay'
    BY <2>1, <2>3, <2>4 DEF OnTheWay
  <2> QED BY <1>0, <2>1, <2>2, <2>5 DEF Repeats
<1>9. CASE Ended \/ UNCHANGED vars
  <2>1. UNCHANGED vars
    BY <1>9 DEF Ended
  <2>2. (Walked <=> Walked') /\ (OnTheWay <=> OnTheWay')
    BY <2>1 DEF Walked, OnTheWay, vars
  <2> QED BY <1>0, <2>1, <2>2 DEF Repeats, vars
<1> QED BY <1>1, <1>2, <1>3, <1>4, <1>5, <1>6, <1>7, <1>8, <1>9 DEF Next

\* The command given its own output accepts it and leaves it as it is
\* (migrateWorkflowDocument of a schema-v2 document).
THEOREM OutputIsStable == Spec => []RepeatChangesNothing
<1>1. Repeats => RepeatChangesNothing
  BY DEF Repeats, RepeatChangesNothing
<1> QED BY <1>1, RepeatsInit, RepeatsNext, PTL DEF Spec
=============================================================================
