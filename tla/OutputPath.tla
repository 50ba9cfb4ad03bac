----------------------------- MODULE OutputPath -----------------------------
(***************************************************************************)
(* Which output paths the diagram tool accepts,                            *)
(* .agents/skills/archify/renderers/shared/output-path.mjs.  A file system *)
(* is a record: entry gives what each path names, held the bytes of each   *)
(* inode, folds what a probe of the directory says about letter case.      *)
(* A path stands for its last component; Folder and Ext give the rest.     *)
(***************************************************************************)
EXTENDS Naturals

CONSTANTS
  Paths,       \* the paths commands name
  Folder,      \* path -> the directory it is in
  Ext,         \* path -> its extension
  Folded,      \* path -> the path that differs from it in letter case at most
  Below,       \* the working directory and the directories below it
  MaxLinks     \* MAX_SYMLINK_DEPTH

ASSUME PathAssumption ==
  /\ DOMAIN Folder = Paths /\ DOMAIN Ext = Paths /\ DOMAIN Folded = Paths
  /\ \A p \in Paths : Folded[p] \in Paths
  /\ MaxLinks \in Nat

Absent == [type |-> "none"]
File(ino) == [type |-> "file", ino |-> ino]
Link(path) == [type |-> "link", to |-> path]
Directory == [type |-> "directory"]

Loop == "ELOOP"      \* a chain of symbolic links that is too long
NoInode == <<"no inode">>

Is(fs, p, type) == fs.entry[p].type = type

\* canonicalize: links are followed as long as they lead somewhere, and a path
\* that names nothing yet is itself.
Canonical(fs, p) ==
  LET follow[n \in 0..MaxLinks] ==
        [q \in Paths |-> IF ~Is(fs, q, "link") THEN q
                         ELSE IF n = MaxLinks THEN Loop
                         ELSE follow[n + 1][fs.entry[q].to]]
  IN follow[0][p]

\* The inode stat finds, NoInode when it throws.
Inode(fs, p) ==
  LET q == Canonical(fs, p) IN
  IF q # Loop /\ Is(fs, q, "file") THEN fs.entry[q].ino ELSE NoInode

\* probeDirectorySemantics: an answer that could not be obtained counts as
\* insensitive, and is asked for again the next time.
IgnoresCase(fs) == fs.folds # "no"

\* futurePathsAlias, of two paths that can be resolved.
SameFuture(fs, p, q) ==
  LET l == Canonical(fs, p)
      r == Canonical(fs, q)
  IN \/ l = r
     \/ /\ Folder[l] = Folder[r] /\ IgnoresCase(fs) /\ Folded[l] = Folded[r]

Unresolvable(fs, p) == Canonical(fs, p) = Loop

\* Mutant of Aliases: hard links are not looked for.
AliasesByName(fs, p, q) == SameFuture(fs, p, q)

\* pathsAlias
Aliases(fs, p, q) ==
  \/ SameFuture(fs, p, q)
  \/ Inode(fs, p) # NoInode /\ Inode(fs, p) = Inode(fs, q)

\* resolveOutputPath: the first check that fails names the refusal.  A request
\* says where its path comes from, and which paths it must stay apart from.
\* meta-outside-cwd: pathIsInside, of a directory anywhere below the working one.
Refusal(fs, req) ==
  LET p == req.path
      meta == req.from = "meta"
      looped == \E q \in {p} \cup req.inputs : Unresolvable(fs, q)
  IN IF meta /\ req.absolute                          THEN "output/meta-absolute"
     ELSE IF meta /\ Ext[p] # ".html"                 THEN "output/meta-extension"
     ELSE IF looped                                   THEN "output/symlink-cycle"
     ELSE IF meta /\ Ext[Canonical(fs, p)] # ".html"  THEN "output/meta-resolved-extension"
     ELSE IF meta /\ Folder[Canonical(fs, p)] \notin Below
                                                      THEN "output/meta-outside-cwd"
     ELSE IF \E q \in req.inputs : Aliases(fs, p, q)  THEN "output/input-alias"
     ELSE IF \E q \in req.others : Unresolvable(fs, q) THEN "output/symlink-cycle"
     ELSE IF \E q \in req.others : Aliases(fs, p, q)  THEN "output/target-alias"
     ELSE IF req.from = "cli" /\ Ext[p] # req.ext     THEN "output/cli-extension"
     ELSE IF req.from = "cli" /\ Ext[Canonical(fs, p)] # req.ext
                                                      THEN "output/cli-resolved-extension"
     ELSE "none"

Accepted(fs, req) == Refusal(fs, req) = "none"
=============================================================================
