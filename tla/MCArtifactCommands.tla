------------------------- MODULE MCArtifactCommands -------------------------
(***************************************************************************)
(* One process runs any command, a second one runs render or deliver       *)
(* beside it on the same output.                                           *)
(***************************************************************************)
EXTENDS ArtifactCommands

MCPaths == {"base.json", "head.json", "out.html", "out.receipt.json"}
MCFolder == [p \in MCPaths |-> "cwd"]
MCExt == [p \in MCPaths |-> IF p = "out.html" THEN ".html" ELSE ".json"]
MCFolded == [p \in MCPaths |-> p]
MCDrawable == {<<"text", "good">>, <<"text", "unchecked">>}
MCValid == {<<"text", "good">>}
MCTexts == MCDrawable \cup {<<"text", "bad">>}
MCNoText == <<"no text">>
MCCommands ==
  [p \in Procs |-> IF p = "p" THEN {"render", "deliver", "compare", "migrate", "validate"}
                   ELSE {"render", "deliver"}]
=============================================================================
