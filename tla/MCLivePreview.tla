--------------------------- MODULE MCLivePreview ---------------------------
(***************************************************************************)
(* What the source may hold: two texts with one drawing and one with       *)
(* another; or it cannot be read, which fails like one that is not valid.  *)
(***************************************************************************)
EXTENDS LivePreview

MCContents == {"one", "spaced", "two", "missing"}
MCDrawn ==
  [c \in MCContents |-> CASE c \in {"one", "spaced"} -> "A" [] c = "two" -> "B" [] OTHER -> "none"]
=============================================================================
