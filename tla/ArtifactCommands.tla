-------------------------- MODULE ArtifactCommands --------------------------
(***************************************************************************)
(* The commands of the diagram tool that write files:                      *)
(* render, deliver, compare, migrate and validate of                       *)
(* .agents/skills/archify/bin/archify.mjs, with loadDiagram and            *)
(* writeDiagram of renderers/shared/cli.mjs.  Each command is a process.   *)
(* Between its steps an author may save a source, somebody may put         *)
(* something else at a target, another command may run, the process may    *)
(* be killed, and a file-system call may fail.                             *)
(*                                                                         *)
(* Candidates and backups live in a private staging directory beside the   *)
(* target.  What a renderer makes of a text is a function of it.           *)
(***************************************************************************)
EXTENDS OutputPath, FiniteSets

CONSTANTS
  Procs, Commands,    \* processes, and what each may be asked to do
  Texts,              \* what a source may hold
  Drawable, Valid,    \* what a renderer draws, and what the final checks pass too
  Out, Receipt,       \* the targets of a command
  Base, Head,         \* its sources
  Foldings,           \* what a probe of letter case may answer
  NoText,             \* no text read
  MaxWorld,           \* bound on what others do to the files
  MaxFaults, MaxCrashes

ASSUME CommandAssumption ==
  /\ {Out, Receipt, Base, Head} \subseteq Paths
  /\ "there" \notin Procs      \* the inodes of staged files are new
  /\ "foreign" \notin Paths /\ Loop \notin Paths
  /\ Foldings \subseteq {"yes", "no", "unknown"}
  /\ Valid \subseteq Drawable /\ Drawable \subseteq Texts /\ NoText \notin Texts
  /\ MaxWorld \in Nat /\ MaxFaults \in Nat /\ MaxCrashes \in Nat

VARIABLES
  fs,       \* the shared file system
  m,        \* process -> its step and local variables
  world,    \* how often others changed the files
  faults, crashes,
  touched   \* targets somebody else changed since a process prepared its commit

vars == <<fs, m, world, faults, crashes, touched>>

-----------------------------------------------------------------------------
(* Contents, paths and requests.                                           *)

Drawing(text) == <<"artifact", text>>
Partial == <<"artifact", NoText>>      \* a file that is being written

Sources == {Base, Head}
Targets(cmd) == CASE cmd = "compare" -> <<Out, Receipt>>
                  [] cmd = "migrate" -> <<Receipt>>
                  [] cmd = "validate" -> <<>>
                  [] OTHER -> <<Out>>
TargetSet(cmd) == {Targets(cmd)[i] : i \in DOMAIN Targets(cmd)}
Inputs(cmd) == IF cmd = "compare" THEN {Base, Head} ELSE {Base}

\* What a successful command puts at a target.
Product(p, target) ==
  CASE m[p].cmd = "compare" -> <<IF target = Out THEN "delta" ELSE "receipt", m[p].base, m[p].head>>
    [] m[p].cmd = "migrate" -> <<"migrated", m[p].base>>
    [] OTHER                -> Drawing(m[p].base)

Request(path, cmd, others, ext) ==
  [path |-> path, from |-> "cli", absolute |-> FALSE, inputs |-> Inputs(cmd),
   others |-> others, ext |-> ext]

\* The checks of the target paths, made before the work and again before the
\* commit; migrate asks only that its two paths are not one file.
PathsAccepted(cmd) ==
  CASE cmd = "compare" -> /\ Accepted(fs, Request(Out, cmd, {Receipt}, ".html"))
                          /\ Accepted(fs, Request(Receipt, cmd, {Out}, ".json"))
    [] cmd = "migrate" -> ~Unresolvable(fs, Receipt) /\ ~Aliases(fs, Base, Receipt)
    [] OTHER           -> Accepted(fs, Request(Out, cmd, {}, ".html"))

Exists(path) == LET q == Canonical(fs, path) IN q # Loop /\ ~Is(fs, q, "none")
NotRegular(path) == Exists(path) /\ ~Is(fs, path, "file")

Text(path) == IF Inode(fs, path) = NoInode THEN NoText ELSE fs.held[Inode(fs, path)]

\* The inode of a staged file.
Candidate(p, target) == <<p, target>>

NoProcess ==
  [pc |-> "idle", cmd |-> "none", base |-> NoText, head |-> NoText, staging |-> FALSE,
   step |-> 1, kept |-> [t \in {Out, Receipt} |-> Absent], moved |-> {}, failed |-> FALSE,
   ino |-> NoInode, said |-> "none", before |-> fs.entry]

Fault == faults < MaxFaults /\ faults' = faults + 1
Quiet == faults' = faults
FilesStay == UNCHANGED <<fs, touched>>
Outside == UNCHANGED <<world, crashes>>

Goto(p, pc) == m' = [m EXCEPT ![p].pc = pc]

\* The command reports, and the finally clause removes the staging directory.
Say(p, word) ==
  m' = [m EXCEPT ![p].pc = IF m[p].staging THEN "tidy" ELSE "done", ![p].said = word]

\* p changes what a target names.
PutEntry(p, target, e) ==
  /\ fs' = [fs EXCEPT !.entry[target] = e]
  /\ touched' = touched \cup {<<q, target>> : q \in Procs \ {p}}

\* rename of a staged file; a directory cannot be replaced by a file.
PutCandidate(p, target) ==
  /\ ~Is(fs, target, "directory")
  /\ fs' = [fs EXCEPT !.entry[target] = File(Candidate(p, target)),
                      !.held[Candidate(p, target)] = Product(p, target)]
  /\ touched' = touched \cup {<<q, target>> : q \in Procs \ {p}}

-----------------------------------------------------------------------------
There(path) == <<"there", path>>      \* an inode that no command made
Foreign == <<"there", "foreign">>
Inodes == {There(q) : q \in {Base, Head, Out, Receipt}} \cup {Foreign} \cup (Procs \X {Out, Receipt})

Init ==
  /\ \E base, head \in Texts, folds \in Foldings, old \in BOOLEAN :
       fs = [entry |-> [q \in Paths |->
                          IF q \in {Base, Head} \/ (old /\ q \in {Out, Receipt})
                          THEN File(There(q)) ELSE Absent],
             held |-> [i \in Inodes |-> CASE i = There(Base) -> base [] i = There(Head) -> head
                                          [] OTHER -> <<"old", i>>],
             folds |-> folds]
  /\ m = [p \in Procs |-> NoProcess]
  /\ world = 0 /\ faults = 0 /\ crashes = 0
  /\ touched = {}

\* The sources are read once; what is delivered is drawn from these bytes.
ReadSources(p, cmd) ==
  /\ m[p].pc = "idle"
  /\ m' = [m EXCEPT ![p].cmd = cmd, ![p].base = Text(Base),
                    ![p].head = IF cmd = "compare" THEN Text(Head) ELSE NoText,
                    ![p].pc = "prepare"]
  /\ Quiet /\ FilesStay /\ Outside

\* Paths are resolved and a staging directory is made.  validate has a
\* directory of its own, render none; migrate migrates before it stages.
Prepare(p) ==
  LET cmd == m[p].cmd
      ready == [m EXCEPT ![p].pc = "build", ![p].staging = cmd # "render"]
  IN
  /\ m[p].pc = "prepare"
  /\ \/ cmd # "validate" /\ ~PathsAccepted(cmd) /\ Say(p, "refused") /\ Quiet
     \/ cmd = "migrate" /\ PathsAccepted(cmd) /\ (m[p].base \notin Drawable \/ NotRegular(Receipt))
          /\ Say(p, "rejected") /\ Quiet
     \/ cmd # "render" /\ Fault /\ Say(p, "prepare")
     \/ cmd = "migrate" /\ PathsAccepted(cmd) /\ m[p].base \in Drawable /\ ~NotRegular(Receipt)
          /\ m' = ready /\ Quiet
     \/ cmd \in {"deliver", "compare", "render"} /\ PathsAccepted(cmd) /\ m' = ready /\ Quiet
     \/ cmd = "validate" /\ m' = ready /\ Quiet
  /\ FilesStay /\ Outside

\* Mutant of Builds: a failed artifact check does not count.
BuildsUnchecked(p) ==
  LET cmd == m[p].cmd IN
  IF cmd \in {"validate", "compare"} THEN Text(Base) \in Drawable ELSE m[p].base \in Drawable

\* render runs no artifact check; validate and compare look at the source itself.
Builds(p) ==
  LET cmd == m[p].cmd IN
  CASE cmd = "render" -> m[p].base \in Drawable
    [] cmd \in {"validate", "compare"} -> Text(Base) \in Valid
    [] OTHER -> m[p].base \in Valid

\* Renderer and artifact checker run on the snapshot; validate runs them on
\* the source itself, and compare first on both sources as they are now.
Build(p) ==
  LET cmd == m[p].cmd
      good == Builds(p)
  IN
  /\ m[p].pc = "build"
  /\ \/ ~good /\ Say(p, "failed") /\ Quiet
     \/ Fault /\ Say(p, "failed")
     \/ good /\ cmd = "validate" /\ Say(p, "ok") /\ Quiet
     \/ good /\ cmd = "compare" /\ Goto(p, "buildhead") /\ Quiet
     \/ good /\ cmd \in {"render", "deliver", "migrate"} /\ Goto(p, "recheck") /\ Quiet
  /\ FilesStay /\ Outside

\* The head as it is now, then both frozen texts in canonical order.
BuildHead(p) ==
  /\ m[p].pc = "buildhead"
  /\ IF Text(Head) \in Valid /\ {m[p].base, m[p].head} \subseteq Valid
     THEN Goto(p, "recheck") ELSE Say(p, "failed")
  /\ Quiet /\ FilesStay /\ Outside

\* The last look before the commit.
Recheck(p) ==
  LET cmd == m[p].cmd
      fit == PathsAccepted(cmd) /\ (cmd = "migrate" => Text(Base) = m[p].base)
      next == CASE cmd = "compare" -> "preflight" [] cmd = "render" -> "open" [] OTHER -> "commit"
  IN
  /\ m[p].pc = "recheck"
  /\ IF fit THEN /\ m' = [m EXCEPT ![p].pc = next, ![p].before = fs.entry]
                 /\ touched' = {x \in touched : x[1] # p}
            ELSE Say(p, "refused") /\ UNCHANGED touched
  /\ Quiet /\ UNCHANGED fs /\ Outside

\* deliver and migrate commit with one rename.
Commit(p) ==
  /\ m[p].pc = "commit"
  /\ LET target == Targets(m[p].cmd)[1] IN
     \/ PutCandidate(p, target) /\ Goto(p, "report") /\ Quiet
     \/ Is(fs, target, "directory") /\ Say(p, "uncommitted") /\ Quiet /\ FilesStay
     \/ Fault /\ Say(p, "uncommitted") /\ FilesStay
  /\ Outside

\* The receipt is printed; opening the artifact cannot fail the command.
Report(p) ==
  /\ m[p].pc = "report"
  /\ Say(p, "ok")
  /\ Quiet /\ FilesStay /\ Outside

-----------------------------------------------------------------------------
(* writeDiagram of render: the file is opened through links and filled.    *)

OpenOutput(p) ==
  LET q == Canonical(fs, Out) IN
  /\ m[p].pc = "open"
  /\ \/ /\ q = Loop \/ (q # Loop /\ Is(fs, q, "directory"))
        /\ Say(p, "unwritten") /\ FilesStay
     \/ /\ q # Loop /\ Is(fs, q, "none")
        /\ fs' = [fs EXCEPT !.entry[q] = File(Candidate(p, Out)), !.held[Candidate(p, Out)] = Partial]
        /\ touched' = touched \cup {<<o, q>> : o \in Procs \ {p}}
        /\ m' = [m EXCEPT ![p].pc = "fill", ![p].ino = Candidate(p, Out)]
     \/ /\ q # Loop /\ Is(fs, q, "file")
        /\ fs' = [fs EXCEPT !.held[fs.entry[q].ino] = Partial]
        /\ touched' = touched \cup {<<o, q>> : o \in Procs \ {p}}
        /\ m' = [m EXCEPT ![p].pc = "fill", ![p].ino = fs.entry[q].ino]
  /\ Quiet /\ Outside

FillOutput(p) ==
  /\ m[p].pc = "fill"
  /\ \/ /\ fs' = [fs EXCEPT !.held[m[p].ino] = Drawing(m[p].base)]
        /\ touched' = touched \cup {<<o, Out>> : o \in Procs \ {p}}
        /\ Goto(p, "report") /\ Quiet
     \/ Fault /\ Say(p, "unwritten") /\ FilesStay
  /\ Outside

-----------------------------------------------------------------------------
(* commitComparePair.                                                      *)

Pair == Targets("compare")

\* Both targets are looked at before either is moved.
Preflight(p) ==
  /\ m[p].pc = "preflight"
  /\ IF \E t \in TargetSet("compare") : NotRegular(t) THEN Say(p, "uncommitted") ELSE Goto(p, "backup")
  /\ Quiet /\ FilesStay /\ Outside

\* Mutant of Roll: the rollback is forgotten.
RollNothing(p) == Say(p, "uncommitted")

\* The catch clause of the pair commit begins with the last target.
Roll(p) == m' = [m EXCEPT ![p].pc = "undo", ![p].step = 2]

After(p, pc) ==
  IF m[p].step = 2 THEN [m[p] EXCEPT !.pc = pc, !.step = 1] ELSE [m[p] EXCEPT !.step = 2]

\* A target that is there is moved into the staging directory.
Backup(p) ==
  LET t == Pair[m[p].step] IN
  /\ m[p].pc = "backup"
  /\ \/ ~Exists(t) /\ m' = [m EXCEPT ![p] = After(p, "install")] /\ Quiet /\ FilesStay
     \/ /\ Exists(t)
        /\ PutEntry(p, t, Absent)
        /\ m' = [m EXCEPT ![p] = [After(p, "install") EXCEPT !.kept[t] = fs.entry[t]]]
        /\ Quiet
     \/ Exists(t) /\ Fault /\ Roll(p) /\ FilesStay
  /\ Outside

Install(p) ==
  LET t == Pair[m[p].step] IN
  /\ m[p].pc = "install"
  /\ \/ /\ PutCandidate(p, t)
        /\ m' = [m EXCEPT ![p] = [After(p, "report") EXCEPT !.moved = @ \cup {t}]]
        /\ Quiet
     \/ Is(fs, t, "directory") /\ Roll(p) /\ Quiet /\ FilesStay
     \/ Fault /\ Roll(p) /\ FilesStay
  /\ Outside

Before(p, pc) ==
  IF m[p].step = 1 THEN [m[p] EXCEPT !.pc = pc, !.step = 2] ELSE [m[p] EXCEPT !.step = 1]

\* What was installed is removed, last first.
Undo(p) ==
  LET t == Pair[m[p].step] IN
  /\ m[p].pc = "undo"
  /\ \/ t \notin m[p].moved /\ m' = [m EXCEPT ![p] = Before(p, "restore")] /\ Quiet /\ FilesStay
     \/ /\ t \in m[p].moved /\ ~Is(fs, t, "directory")
        /\ PutEntry(p, t, Absent) /\ m' = [m EXCEPT ![p] = Before(p, "restore")] /\ Quiet
     \/ /\ t \in m[p].moved
        /\ m' = [m EXCEPT ![p] = [Before(p, "restore") EXCEPT !.failed = TRUE]]
        /\ IF Is(fs, t, "directory") THEN Quiet ELSE Fault
        /\ FilesStay
  /\ Outside

\* Then the backups come back; a failure is noted and the rest goes on.
Restore(p) ==
  LET t == Pair[m[p].step] IN
  /\ m[p].pc = "restore"
  /\ \/ m[p].kept[t] = Absent /\ m' = [m EXCEPT ![p] = Before(p, "rolled")] /\ Quiet /\ FilesStay
     \/ /\ m[p].kept[t] # Absent /\ ~Is(fs, t, "directory")
        /\ PutEntry(p, t, m[p].kept[t]) /\ m' = [m EXCEPT ![p] = Before(p, "rolled")] /\ Quiet
     \/ /\ m[p].kept[t] # Absent
        /\ m' = [m EXCEPT ![p] = [Before(p, "rolled") EXCEPT !.failed = TRUE]]
        /\ IF Is(fs, t, "directory") THEN Quiet ELSE Fault
        /\ FilesStay
  /\ Outside

Rolled(p) ==
  /\ m[p].pc = "rolled"
  /\ Say(p, IF m[p].failed THEN "unrestored" ELSE "uncommitted")
  /\ Quiet /\ FilesStay /\ Outside

\* The staging directory goes, and with it whatever backup is still in it.
Tidy(p) ==
  /\ m[p].pc = "tidy"
  /\ m' = [m EXCEPT ![p].pc = "done", ![p].staging = FALSE]
  /\ Quiet /\ FilesStay /\ Outside

-----------------------------------------------------------------------------
Crash(p) ==
  /\ m[p].pc \notin {"idle", "done", "crashed"}
  /\ crashes < MaxCrashes /\ crashes' = crashes + 1
  /\ Goto(p, "crashed")
  /\ FilesStay /\ UNCHANGED <<world, faults>>

\* An author saves a source.
SaveSource(s, text) ==
  /\ world < MaxWorld /\ world' = world + 1
  /\ Is(fs, s, "file") /\ Text(s) # text
  /\ fs' = [fs EXCEPT !.held[fs.entry[s].ino] = text]
  /\ UNCHANGED <<m, touched, faults, crashes>>

\* Somebody removes a target, or puts another file, a link to a source, a hard
\* link to it, or a directory in its place.
Replace(t, e) ==
  /\ world < MaxWorld /\ world' = world + 1
  /\ fs.entry[t] # e
  /\ fs' = [fs EXCEPT !.entry[t] = e]
  /\ touched' = touched \cup {<<q, t>> : q \in Procs}
  /\ UNCHANGED <<m, faults, crashes>>

Intruders == {Absent, File(Foreign), Link(Base), File(There(Base)), Directory}

Step(p) ==
  \/ \E cmd \in Commands[p] : ReadSources(p, cmd)
  \/ Prepare(p) \/ Build(p) \/ BuildHead(p) \/ Recheck(p) \/ Commit(p) \/ Report(p)
  \/ OpenOutput(p) \/ FillOutput(p)
  \/ Preflight(p) \/ Backup(p) \/ Install(p) \/ Undo(p) \/ Restore(p) \/ Rolled(p)
  \/ Tidy(p)

World ==
  \/ \E s \in Sources, text \in Texts : SaveSource(s, text)
  \/ \E t \in {Out, Receipt}, e \in Intruders : Replace(t, e)

Next == (\E p \in Procs : Step(p) \/ Crash(p)) \/ World

Spec == Init /\ [][Next]_vars

-----------------------------------------------------------------------------
(* Properties.                                                             *)

\* A command never changes a source.  The one exception is a render whose output
\* path became another name for a source after its last check: it opens the
\* path instead of renaming a candidate over it.
SourcesSurvive ==
  [][\A p \in Procs : m'[p] # m[p] =>
       \A s \in Sources :
         \/ Text(s)' = Text(s)
         \/ m[p].cmd = "render" /\ <<p, Out>> \in touched]_vars

\* What a command reports is so, at every target nobody else has touched since
\* its last check: after "ok" its product is there, after any other word but
\* "unrestored" what was there before; and a command that is killed leaves the
\* old file, the new one, or, in the middle of a pair, none.
ReportsAreTrue ==
  \A p \in Procs, t \in {Out, Receipt} :
    LET untouched == <<p, t>> \notin touched
        mine == Is(fs, t, "file") /\ Text(t) = Product(p, t)
        kept == fs.entry[t] = m[p].before[t]
    IN t \in TargetSet(m[p].cmd) /\ untouched =>
         /\ m[p].said = "ok" => mine
         /\ m[p].said \in {"refused", "rejected", "prepare", "failed", "uncommitted"} => kept
         /\ m[p].pc = "crashed" /\ m[p].cmd # "render" =>
              mine \/ kept \/ (m[p].cmd = "compare" /\ Is(fs, t, "none"))

\* What deliver, compare and migrate move to a target has passed every check and
\* is drawn from the text that was read, whatever the sources hold by now.
OnlyCheckedArrives ==
  [][\A p \in Procs, t \in {Out, Receipt} :
       /\ m'[p] # m[p] /\ m[p].cmd # "render"
       /\ fs'.entry[t] # fs.entry[t] /\ fs'.entry[t] = File(Candidate(p, t))
       => /\ m[p].base \in Valid
          /\ m[p].cmd = "compare" => m[p].head \in Valid
          /\ fs'.held[Candidate(p, t)] = Product(p, t)]_vars
=============================================================================
