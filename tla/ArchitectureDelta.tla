-------------------------- MODULE ArchitectureDelta --------------------------
(***************************************************************************)
(* What compare makes of two architecture documents,                       *)
(* .agents/skills/archify/delta/architecture-delta.mjs: the changes that   *)
(* go into the receipt, the elements that go into the Delta drawing, and   *)
(* the signature by which the artifact and the page in the browser check   *)
(* that each change is drawn exactly once in each of its forms.            *)
(*                                                                         *)
(* A document holds sequences of items.  An item is its id and one value   *)
(* per group of fields; a value stands for all fields of the group, so     *)
(* two values are equal when every field of the group is.                  *)
(***************************************************************************)
EXTENDS Naturals, Sequences, FiniteSets

CONSTANTS
  Ids,      \* ids, and boundary keys (kind and label)
  NoId,     \* the item has no id
  Blank     \* the empty label; the place of a repository that is not named

ASSUME DeltaAssumption == NoId \notin Ids

Kinds == {"component", "relationship", "boundary"}

\* A component has a brand too, which is in no group.
Groups == [component    |-> {"semantic", "evidence", "geometry"},
           relationship |-> {"topology", "label", "semantic", "geometry"},
           boundary     |-> {"scope", "geometry"}]

\* The label of a relationship is kept apart from the rest of its semantic
\* fields because it decides whether a label is drawn.
Classification(group) == IF group = "label" THEN "semantic" ELSE group

Identity == [component |-> "semantic", relationship |-> "topology", boundary |-> "scope"]

-----------------------------------------------------------------------------
\* stableIndex, boundaryIndex

Named(items) == {items[i].id : i \in DOMAIN items} \ {NoId}
Unnamed(items) == \E i \in DOMAIN items : items[i].id = NoId
Repeated(items) == \E i, j \in DOMAIN items :
                     i < j /\ items[i].id = items[j].id /\ items[i].id # NoId

Item(items, id) == items[CHOOSE i \in DOMAIN items : items[i].id = id]

Of(doc, kind) == CASE kind = "component"    -> doc.components
                   [] kind = "relationship" -> doc.connections
                   [] kind = "boundary"     -> doc.boundaries

Unstable(doc, kind, missing) ==
  IF Unnamed(Of(doc, kind)) /\ kind # "boundary" THEN missing
  ELSE IF ~Repeated(Of(doc, kind)) THEN "none"
  ELSE IF kind = "boundary" THEN "delta/boundary-key-ambiguous"
  ELSE "delta/duplicate-stable-id"

\* normalizeRepository: remotes that lead to one place have one identity.
SamePlace(b, h) == Blank \in {b.place, h.place} \/ b.place = h.place

\* compareArchitecture up to the comparison itself: the first objection is thrown.
Objections(base, head) ==
  LET components(doc) == Unstable(doc, "component", "delta/stable-id-required")
      connections(doc) == Unstable(doc, "relationship", "delta/relationship-id-required")
      boundaries(doc) == Unstable(doc, "boundary", "none")
  IN << base.shape, head.shape, components(base), components(head),
        IF Named(base.components) \cap Named(head.components) = {}
        THEN "delta/no-shared-component-id" ELSE "none",
        connections(base), connections(head), boundaries(base), boundaries(head),
        IF SamePlace(base.repository, head.repository)
        THEN "none" ELSE "delta/repository-mismatch" >>

Comparable(base, head) ==
  \A i \in DOMAIN Objections(base, head) : Objections(base, head)[i] = "none"

-----------------------------------------------------------------------------
\* The changes

\* fieldChanges
Classes(kind, before, after) ==
  {Classification(g) : g \in {f \in Groups[kind] : before[f] # after[f]}}

Moved == [component |-> "moved", relationship |-> "rerouted", boundary |-> "geometry-changed"]

\* statusFor
Status(kind, classes) ==
  IF classes \cap {"topology", "semantic", "scope"} # {} THEN "changed"
  ELSE IF "evidence" \in classes THEN "evidence-changed"
  ELSE IF "geometry" \in classes THEN Moved[kind]
  ELSE "same"

Label(kind, items, id) ==
  IF kind = "relationship" /\ id \in Named(items) THEN Item(items, id).label ELSE Blank

\* compareEntities, for one id
Change(kind, before, after, id) ==
  LET b == Of(before, kind)  h == Of(after, kind)
      classes == Classes(kind, Item(b, id), Item(h, id))
      new == id \notin Named(b)
      gone == id \notin Named(h)
  IN [kind |-> kind, id |-> id,
      status |-> IF new THEN "added" ELSE IF gone THEN "removed" ELSE Status(kind, classes),
      classes |-> IF new \/ gone THEN {Identity[kind]} ELSE classes,
      was |-> Label(kind, b, id), is |-> Label(kind, h, id)]

Changes(base, head) ==
  {c \in UNION {{Change(k, base, head, id) :
                   id \in Named(Of(base, k)) \cup Named(Of(head, k))} : k \in Kinds} :
     c.status # "same"}

\* presentationChanged and provenanceChanged; the locale is in neither.
Summary(base, head) ==
  [changes |-> Changes(base, head),
   presentation |-> base.presentation # head.presentation,
   provenance |-> base.repository # head.repository]

\* canonicalArchitectureJson: everything an author wrote but the output path
\* and the order of the collections, whose digest the receipt carries.
Canon(doc) ==
  LET set(items) == {items[i] : i \in DOMAIN items} IN
  [components |-> set(doc.components), connections |-> set(doc.connections),
   boundaries |-> set(doc.boundaries), repository |-> doc.repository,
   presentation |-> doc.presentation, locale |-> doc.locale]

-----------------------------------------------------------------------------
\* The Delta drawing.  An element has a tag, the change it belongs to, the state
\* and the classes it is marked with, the layer it is drawn in and, for a marker,
\* the layer of the route or frame whose first point it stands at.

Element(tag, c, state, classes, layer) ==
  [tag |-> tag, of |-> <<c.kind, c.id>>, state |-> state, classes |-> classes,
   layer |-> layer, at |-> layer]
Marker(c, state, layer, at) ==
  [Element("text", c, state, {}, layer) EXCEPT !.at = at]

\* What a snapshot draws of an item, in the given state.
Shape(c, state, label, layer) ==
  CASE c.kind = "component" -> {Element("g", c, state, c.classes, layer)}
    [] c.kind = "relationship" ->
         {Element("path", c, state, c.classes, layer)}
         \cup (IF label = Blank THEN {} ELSE {Element("g", c, state, c.classes, layer)})
    [] c.kind = "boundary" -> {Element("rect", c, state, c.classes, layer),
                               Element("text", c, state, {}, layer)}

\* annotateArchitectureSideSvg of the head: its items get the state of their change.
Current(c) ==
  IF c.status = "removed" THEN {} ELSE Shape(c, c.status, c.is, "head")

\* Mutant of PhantomState: a change of meaning hides the move.
PhantomStateOfMoves(c) ==
  IF c.status = "removed" THEN "removed"
  ELSE IF c.kind = "relationship" /\ c.status = "changed" /\ "topology" \in c.classes THEN "removed"
  ELSE IF c.kind = "boundary" /\ c.status # "added" THEN "moved-from"
  ELSE IF c.status \in {"moved", "rerouted"} THEN "moved-from"
  ELSE "none"

\* The base forms buildDeltaSvg adds: what is gone, and where what moved was.
PhantomState(c) ==
  IF c.status = "removed" THEN "removed"
  ELSE IF c.status = "added" THEN "none"
  ELSE IF c.kind = "relationship" /\ "topology" \in c.classes THEN "removed"
  ELSE IF c.kind = "boundary" \/ "geometry" \in c.classes THEN "moved-from"
  ELSE "none"

Phantom(c) ==
  IF PhantomState(c) = "none" THEN {} ELSE Shape(c, PhantomState(c), c.was, "base")

\* edgeSymbolMarkup: the marker of the head route looks its element up in the
\* finished drawing, where the phantom comes first.
Markers(c) ==
  IF c.kind # "relationship" THEN {}
  ELSE LET phantom == PhantomState(c)
           now == IF c.status = "changed" /\ "topology" \in c.classes THEN "added" ELSE c.status
       IN (IF phantom = "none" THEN {} ELSE {Marker(c, phantom, "base marker", "base")})
          \cup (IF c.status = "removed" THEN {}
                ELSE {Marker(c, now, "head marker", IF phantom = "none" THEN "head" ELSE "base")})

\* buildDeltaSvg: all elements that name the item of c
Targets(c) == Current(c) \cup Phantom(c) \cup Markers(c)

-----------------------------------------------------------------------------
\* The signature of a row of the change list

Descriptor(tag, state, classes) == [tag |-> tag, state |-> state, classes |-> classes]
Describes(e) == Descriptor(e.tag, e.state, e.classes)

\* reviewPrimaryStates
PrimaryStates(c) ==
  CASE c.kind = "component" ->
         {c.status} \cup (IF "geometry" \in c.classes THEN {"moved-from"} ELSE {})
    [] c.kind = "relationship" ->
         IF c.status = "changed" /\ "topology" \in c.classes THEN {"changed", "removed"}
         ELSE {c.status} \cup (IF "geometry" \in c.classes THEN {"moved-from"} ELSE {})
    [] c.kind = "boundary" ->
         {c.status} \cup (IF c.status \in {"changed", "geometry-changed"} THEN {"moved-from"} ELSE {})

Form(state, marker, label) == [state |-> state, marker |-> marker, label |-> label]

\* expectedReviewTargetSignature
Forms(c) ==
  IF c.status = "added" THEN {Form("added", "added", c.is)}
  ELSE IF c.status = "removed" THEN {Form("removed", "removed", c.was)}
  ELSE IF "topology" \in c.classes
  THEN {Form("removed", "removed", c.was), Form("changed", "added", c.is)}
  ELSE IF "geometry" \in c.classes
  THEN {Form("moved-from", "moved-from", c.was), Form(c.status, c.status, c.is)}
  ELSE {Form("changed", "changed", c.is)}

Expected(c) ==
  CASE c.kind = "component" -> {Descriptor("g", s, c.classes) : s \in PrimaryStates(c)}
    [] c.kind = "boundary" -> {Descriptor("rect", s, c.classes) : s \in PrimaryStates(c)}
                              \cup {Descriptor("text", s, {}) : s \in PrimaryStates(c)}
    [] c.kind = "relationship" ->
         {Descriptor("path", f.state, c.classes) : f \in Forms(c)}
         \cup {Descriptor("text", f.marker, {}) : f \in Forms(c)}
         \cup {Descriptor("g", f.state, c.classes) : f \in {g \in Forms(c) : g.label # Blank}}

Primary == [component |-> "g", relationship |-> "path", boundary |-> "rect"]

\* validateArchitectureDeltaHtml, and targetsMatch in the page: the signatures are
\* lists, so that no form may be drawn twice either.
TargetsMatch(c, targets) ==
  /\ targets # {}
  /\ {Describes(e) : e \in targets} = Expected(c)
  /\ \A e, f \in targets : Describes(e) = Describes(f) => e = f

ValidDrawing(c, targets) ==
  /\ TargetsMatch(c, targets)
  /\ {e.state : e \in {f \in targets : f.tag = Primary[c.kind]}} = PrimaryStates(c)
  /\ \A e \in targets : e.tag = Primary[c.kind] => e.classes = c.classes
=============================================================================
