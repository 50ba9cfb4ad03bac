----------------------- MODULE ArtifactCommandsProofs -----------------------
(***************************************************************************)
(* For any number of commands on any file system, with any interference,   *)
(* faults and kills: what deliver, compare and migrate move to a target    *)
(* has passed the checks and is drawn from the text that was read.  When   *)
(* targets and sources have names of their own, what a command reports of  *)
(* its targets is so, and no command writes a source, save a render whose  *)
(* output was made a name for it after its last check.                     *)
(***************************************************************************)
EXTENDS ArtifactCommands, TLAPS

-----------------------------------------------------------------------------
(* The inductive invariant                                                 *)

Fields ==
  {"pc", "cmd", "base", "head", "staging", "step", "kept", "moved", "failed", "ino", "said",
   "before"}

\* Contents are anything, so the records have shapes rather than types.
ProcessShape ==
  /\ DOMAIN m = Procs
  /\ \A p \in Procs : /\ DOMAIN m[p] = Fields /\ DOMAIN m[p].kept = {Out, Receipt}
                      /\ m[p].step \in {1, 2}

FileShape ==
  /\ DOMAIN fs = {"entry", "held", "folds"}
  /\ DOMAIN fs.entry = Paths /\ DOMAIN fs.held = Inodes

PairSteps == {"preflight", "backup", "install", "undo", "restore", "rolled"}
CheckedSteps == {"recheck", "commit", "preflight", "backup", "install"}

\* Which command is at which step, and what it has checked when it is there.
Staged(r) ==
  /\ r.pc \in {"open", "fill"} => r.cmd = "render"
  /\ r.pc \in PairSteps => r.cmd = "compare"
  /\ r.pc \in CheckedSteps /\ r.cmd # "render"
       => r.base \in Valid /\ (r.cmd = "compare" => r.head \in Valid)

Early == {"idle", "prepare", "build", "buildhead", "recheck", "preflight", "backup"}

\* A staged file is nowhere before its command has moved it, and no backup of a
\* command is a file of its own: restoring one cannot pass for delivering it.
Unmoved ==
  \A p \in Procs, t \in {Out, Receipt} :
    /\ m[p].kept[t] # File(Candidate(p, t))
    /\ m[p].pc \in Early =>
         /\ \A x \in Paths : fs.entry[x] # File(Candidate(p, t))
         /\ \A q \in Procs, x \in {Out, Receipt} : m[q].kept[x] # File(Candidate(p, t))

Inv == ProcessShape /\ FileShape /\ (\A p \in Procs : Staged(m[p])) /\ Unmoved

-----------------------------------------------------------------------------
LEMMA FilesDiffer ==
  ASSUME NEW i, NEW j
  PROVE  /\ Absent # File(i) /\ Directory # File(i) /\ Link(j) # File(i)
         /\ (File(i) = File(j) => i = j)
  BY DEF Absent, Directory, Link, File

\* The inodes that were there, and the candidates of other commands and targets
LEMMA CandidatesDiffer ==
  ASSUME NEW p \in Procs, NEW t, NEW q, NEW u
  PROVE  /\ Candidate(p, t) # There(u) /\ Candidate(p, t) # Foreign
         /\ (Candidate(p, t) = Candidate(q, u) => p = q /\ t = u)
  BY CommandAssumption DEF Candidate, There, Foreign

LEMMA InvInit == Init => Inv
<1> SUFFICES ASSUME Init PROVE Inv
  OBVIOUS
<1>1. \A p \in Procs : m[p] = NoProcess
  BY DEF Init
<1>2. ProcessShape
  <2>1. DOMAIN m = Procs
    BY DEF Init
  <2>2. \A p \in Procs : /\ DOMAIN m[p] = Fields /\ DOMAIN m[p].kept = {Out, Receipt}
                         /\ m[p].step \in {1, 2}
    BY <1>1 DEF NoProcess, Fields
  <2> QED BY <2>1, <2>2 DEF ProcessShape
<1>5. FileShape
  BY DEF Init, FileShape
<1>3. \A p \in Procs : Staged(m[p])
  BY <1>1 DEF Staged, NoProcess, PairSteps, CheckedSteps
<1>4. Unmoved
  <2>1. \A x \in Paths : fs.entry[x] = Absent \/ \E u : fs.entry[x] = File(There(u))
    BY DEF Init
  <2>2. \A q \in Procs, x \in {Out, Receipt} : m[q].kept[x] = Absent
    BY <1>1 DEF NoProcess
  <2> QED BY <2>1, <2>2, FilesDiffer, CandidatesDiffer DEF Unmoved
<1> QED BY <1>2, <1>3, <1>4, <1>5 DEF Inv

-----------------------------------------------------------------------------
(* What a step of a command leaves alone                                   *)

\* The record r of a process that goes on from record m[p]
Follows(p, r) ==
  /\ DOMAIN r = Fields /\ DOMAIN r.kept = {Out, Receipt} /\ r.step \in {1, 2}
  /\ Staged(m[p]) => Staged(r)
  /\ m[p].pc = "backup" \/ r.kept = m[p].kept
  /\ r.pc \in Early => m[p].pc \in Early

Frame(p) == \E r : Follows(p, r) /\ m' = [m EXCEPT ![p] = r]

LEMMA FrameShape ==
  ASSUME ProcessShape, NEW p \in Procs, Frame(p)
  PROVE  ProcessShape' /\ Follows(p, m'[p]) /\ \A q \in Procs \ {p} : m'[q] = m[q]
<1>1. PICK r : Follows(p, r) /\ m' = [m EXCEPT ![p] = r]
  BY DEF Frame
<1> QED BY <1>1 DEF ProcessShape, Follows

\* Going on to a step that no check stands before
LEMMA GotoFrame ==
  ASSUME ProcessShape, NEW p \in Procs,
         NEW pc \in {"report", "tidy", "done", "crashed", "prepare", "build"},
         pc \in {"prepare", "build"} => m[p].pc \in {"idle", "prepare"},
         NEW r, DOMAIN r = Fields, r.pc = pc, r.kept = m[p].kept, r.step = m[p].step
  PROVE  Follows(p, r)
  BY DEF ProcessShape, Follows, Staged, PairSteps, CheckedSteps, Early

LEMMA SayFrame ==
  ASSUME ProcessShape, NEW p \in Procs, NEW word, Say(p, word) PROVE Frame(p)
<1> DEFINE pc == IF m[p].staging THEN "tidy" ELSE "done"
           r == [m[p] EXCEPT !.pc = pc, !.said = word]
<1>1. m' = [m EXCEPT ![p] = r]
  BY DEF Say, ProcessShape
<1>2. pc \in {"report", "tidy", "done", "crashed", "prepare", "build"}
  OBVIOUS
<1>3. DOMAIN r = Fields /\ r.pc = pc /\ r.kept = m[p].kept /\ r.step = m[p].step
  BY DEF ProcessShape, Fields
<1> HIDE DEF r
<1>4. Follows(p, r)
  BY <1>2, <1>3, GotoFrame
<1> QED BY <1>1, <1>4 DEF Frame

\* After and Before go on within the commit of a pair.
LEMMA PairFrame ==
  ASSUME ProcessShape, NEW p \in Procs,
         NEW pc \in {"install", "report", "restore", "rolled"},
         m[p].pc \in PairSteps, pc = "install" => m[p].pc = "backup",
         NEW r \in {After(p, pc), Before(p, pc)}
  PROVE  /\ DOMAIN r = Fields /\ r.kept = m[p].kept /\ r.cmd = m[p].cmd
         /\ r.base = m[p].base /\ r.head = m[p].head /\ r.step \in {1, 2} /\ r.pc \in {pc, m[p].pc}
<1>1. m[p].step \in {1, 2} /\ DOMAIN m[p] = Fields
  BY DEF ProcessShape
<1>2. r \in {[m[p] EXCEPT !.pc = pc, !.step = 1], [m[p] EXCEPT !.pc = pc, !.step = 2],
             [m[p] EXCEPT !.step = 1], [m[p] EXCEPT !.step = 2]}
  BY DEF After, Before
<1> QED BY <1>1, <1>2 DEF Fields

LEMMA PairFollows ==
  ASSUME ProcessShape, NEW p \in Procs, m[p].pc \in PairSteps,
         NEW s, DOMAIN s = Fields, DOMAIN s.kept = {Out, Receipt}, s.step \in {1, 2},
         s.cmd = m[p].cmd, s.base = m[p].base, s.head = m[p].head,
         m[p].pc = "backup" \/ s.kept = m[p].kept,
         s.pc \in PairSteps \cup {"report"},
         s.pc \in {"preflight", "backup", "install"} => m[p].pc \in CheckedSteps,
         s.pc \in Early => m[p].pc \in Early
  PROVE  Follows(p, s)
  BY DEF Follows, Staged, PairSteps, CheckedSteps, Early

LEMMA RollFrame ==
  ASSUME ProcessShape, NEW p \in Procs, m[p].pc \in PairSteps, Roll(p) PROVE Frame(p)
<1> DEFINE r == [m[p] EXCEPT !.pc = "undo", !.step = 2]
<1>1. m' = [m EXCEPT ![p] = r]
  BY DEF Roll, ProcessShape
<1>2. /\ DOMAIN r = Fields /\ r.kept = m[p].kept /\ r.pc = "undo" /\ r.step \in {1, 2}
      /\ r.cmd = m[p].cmd /\ r.base = m[p].base /\ r.head = m[p].head
  BY DEF ProcessShape, Fields
<1> HIDE DEF r
<1>3. Follows(p, r)
  BY <1>2, PairFollows DEF ProcessShape, PairSteps, Early
<1> QED BY <1>1, <1>3 DEF Frame

LEMMA BackupFrame == ASSUME ProcessShape, NEW p \in Procs, Backup(p) PROVE Frame(p)
<1> DEFINE r == After(p, "install")
           t == Pair[m[p].step]
           s == [r EXCEPT !.kept[t] = fs.entry[t]]
<1>1. m[p].pc = "backup" /\ m[p].pc \in PairSteps
  BY DEF Backup, PairSteps
<1>2. /\ DOMAIN r = Fields /\ r.kept = m[p].kept /\ r.cmd = m[p].cmd
      /\ r.base = m[p].base /\ r.head = m[p].head /\ r.step \in {1, 2} /\ r.pc \in {"install", "backup"}
  BY <1>1, PairFrame
<1>3. \/ m' = [m EXCEPT ![p] = r] \/ m' = [m EXCEPT ![p] = s] \/ Roll(p)
  BY DEF Backup
<1> HIDE DEF r
<1>4. /\ DOMAIN s = Fields /\ DOMAIN s.kept = {Out, Receipt} /\ s.cmd = r.cmd
      /\ s.base = r.base /\ s.head = r.head /\ s.pc = r.pc /\ s.step = r.step
  BY <1>2 DEF ProcessShape, Fields
<1> HIDE DEF s
<1>5. Follows(p, r) /\ Follows(p, s)
  BY <1>1, <1>2, <1>4, PairFollows DEF ProcessShape, PairSteps, CheckedSteps, Early
<1> QED BY <1>1, <1>3, <1>5, RollFrame DEF Frame

LEMMA InstallFrame == ASSUME ProcessShape, NEW p \in Procs, Install(p) PROVE Frame(p)
<1> DEFINE r == After(p, "report")
           t == Pair[m[p].step]
           s == [r EXCEPT !.moved = @ \cup {t}]
<1>1. m[p].pc = "install" /\ m[p].pc \in PairSteps
  BY DEF Install, PairSteps
<1>2. /\ DOMAIN r = Fields /\ r.kept = m[p].kept /\ r.cmd = m[p].cmd
      /\ r.base = m[p].base /\ r.head = m[p].head /\ r.step \in {1, 2} /\ r.pc \in {"install", "report"}
  BY <1>1, PairFrame
<1>3. m' = [m EXCEPT ![p] = s] \/ Roll(p)
  BY DEF Install
<1> HIDE DEF r
<1>4. /\ DOMAIN s = Fields /\ s.kept = r.kept /\ s.cmd = r.cmd
      /\ s.base = r.base /\ s.head = r.head /\ s.pc = r.pc /\ s.step = r.step
  BY <1>2 DEF Fields
<1> HIDE DEF s
<1>5. Follows(p, s)
  BY <1>1, <1>2, <1>4, PairFollows DEF ProcessShape, PairSteps, CheckedSteps, Early
<1> QED BY <1>1, <1>3, <1>5, RollFrame DEF Frame

LEMMA RollbackFrame ==
  ASSUME ProcessShape, NEW p \in Procs, Undo(p) \/ Restore(p) PROVE Frame(p)
<1>1. m[p].pc \in {"undo", "restore"} /\ m[p].pc \in PairSteps
  BY DEF Undo, Restore, PairSteps
<1>2. PICK pc \in {"restore", "rolled"} :
        \/ m' = [m EXCEPT ![p] = Before(p, pc)]
        \/ m' = [m EXCEPT ![p] = [Before(p, pc) EXCEPT !.failed = TRUE]]
  BY DEF Undo, Restore
<1> DEFINE r == Before(p, pc)
           s == [r EXCEPT !.failed = TRUE]
<1>3. /\ DOMAIN r = Fields /\ r.kept = m[p].kept /\ r.cmd = m[p].cmd
      /\ r.base = m[p].base /\ r.head = m[p].head /\ r.step \in {1, 2} /\ r.pc \in {"undo", "restore", "rolled"}
  BY <1>1, PairFrame
<1> HIDE DEF r
<1>4. /\ DOMAIN s = Fields /\ s.kept = r.kept /\ s.cmd = r.cmd
      /\ s.base = r.base /\ s.head = r.head /\ s.pc = r.pc /\ s.step = r.step
  BY <1>3 DEF Fields
<1>5. m' = [m EXCEPT ![p] = r] \/ m' = [m EXCEPT ![p] = s]
  BY <1>2 DEF r
<1> HIDE DEF s
<1>6. Follows(p, r) /\ Follows(p, s)
  BY <1>1, <1>3, <1>4, PairFollows DEF ProcessShape, PairSteps, Early
<1> QED BY <1>5, <1>6 DEF Frame

\* Step pc may follow, with cmd, base and head as they are.
MayGo(p, pc) ==
  /\ pc \in Early => m[p].pc \in Early
  /\ Staged(m[p]) => Staged([m[p] EXCEPT !.pc = pc])

LEMMA RecordFollows ==
  ASSUME ProcessShape, NEW p \in Procs, NEW pc, MayGo(p, pc),
         NEW r, DOMAIN r = Fields, r.pc = pc, r.kept = m[p].kept, r.cmd = m[p].cmd,
         r.base = m[p].base, r.head = m[p].head, r.step = m[p].step
  PROVE  Follows(p, r)
<1> DEFINE s == [m[p] EXCEPT !.pc = pc]
<1>1. s.pc = pc /\ s.cmd = m[p].cmd /\ s.base = m[p].base /\ s.head = m[p].head
  BY DEF ProcessShape, Fields
<1>2. (Staged(m[p]) => Staged(s)) /\ (pc \in Early => m[p].pc \in Early)
  BY DEF MayGo
<1> HIDE DEF s
<1>3. Staged(s) => Staged(r)
  BY <1>1 DEF Staged
<1> QED BY <1>2, <1>3 DEF Follows, ProcessShape

LEMMA GotoStep ==
  ASSUME ProcessShape, NEW p \in Procs, NEW pc, MayGo(p, pc), Goto(p, pc) PROVE Frame(p)
<1> DEFINE r == [m[p] EXCEPT !.pc = pc]
<1>1. m' = [m EXCEPT ![p] = r]
  BY DEF Goto, ProcessShape
<1>2. /\ DOMAIN r = Fields /\ r.pc = pc /\ r.kept = m[p].kept /\ r.cmd = m[p].cmd
      /\ r.base = m[p].base /\ r.head = m[p].head /\ r.step = m[p].step
  BY DEF ProcessShape, Fields
<1> HIDE DEF r
<1> QED BY <1>1, <1>2, RecordFollows DEF Frame

\* No check stands before these steps.
LEMMA FreeSteps ==
  ASSUME ProcessShape, NEW p \in Procs
  PROVE  /\ MayGo(p, "report") /\ MayGo(p, "done") /\ MayGo(p, "crashed")
         /\ m[p].pc = "prepare" => MayGo(p, "build")
         /\ m[p].pc = "build" => MayGo(p, "buildhead")
         /\ m[p].pc = "preflight" => MayGo(p, "backup")
         /\ m[p].pc = "open" => MayGo(p, "fill")
<1>1. ASSUME NEW pc
      PROVE  LET s == [m[p] EXCEPT !.pc = pc] IN
             s.pc = pc /\ s.cmd = m[p].cmd /\ s.base = m[p].base /\ s.head = m[p].head
  BY DEF ProcessShape, Fields
<1> QED BY <1>1 DEF MayGo, Staged, PairSteps, CheckedSteps, Early

LEMMA CheckedStep ==
  ASSUME ProcessShape, NEW p \in Procs, m[p].pc \in {"build", "buildhead"},
         m[p].cmd # "render"
           => m[p].base \in Valid /\ (m[p].cmd = "compare" => m[p].head \in Valid)
  PROVE  MayGo(p, "recheck")
<1> DEFINE s == [m[p] EXCEPT !.pc = "recheck"]
<1>1. s.pc = "recheck" /\ s.cmd = m[p].cmd /\ s.base = m[p].base /\ s.head = m[p].head
  BY DEF ProcessShape, Fields
<1> HIDE DEF s
<1>2. Staged(s)
  BY <1>1 DEF Staged, PairSteps
<1> QED BY <1>2 DEF MayGo, Early, s

LEMMA BuildFrame == ASSUME ProcessShape, NEW p \in Procs, Build(p) PROVE Frame(p)
<1>1. m[p].pc = "build"
  BY DEF Build
<1>2. CASE Goto(p, "buildhead")
  BY <1>1, <1>2, FreeSteps, GotoStep
<1>3. CASE /\ Goto(p, "recheck") /\ Builds(p) /\ m[p].cmd \in {"render", "deliver", "migrate"}
  <2>1. m[p].cmd # "render" => m[p].base \in Valid
    BY <1>3 DEF Builds
  <2>2. MayGo(p, "recheck")
    BY <1>1, <1>3, <2>1, CheckedStep
  <2> QED BY <1>3, <2>2, GotoStep
<1> QED BY <1>2, <1>3, SayFrame DEF Build

LEMMA RecheckFrame == ASSUME ProcessShape, NEW p \in Procs, Recheck(p) PROVE Frame(p)
<1> DEFINE next == CASE m[p].cmd = "compare" -> "preflight" [] m[p].cmd = "render" -> "open"
                     [] OTHER -> "commit"
           r == [m[p] EXCEPT !.pc = next, !.before = fs.entry]
<1>1. m[p].pc = "recheck"
  BY DEF Recheck
<1>2. CASE m' = [m EXCEPT ![p].pc = next, ![p].before = fs.entry]
  <2>1. m' = [m EXCEPT ![p] = r]
    BY <1>2 DEF ProcessShape
  <2>2. /\ DOMAIN r = Fields /\ r.pc = next /\ r.kept = m[p].kept /\ r.cmd = m[p].cmd
        /\ r.base = m[p].base /\ r.head = m[p].head /\ r.step = m[p].step
    BY DEF ProcessShape, Fields
  <2> HIDE DEF r
  <2>3. /\ next \in {"preflight", "open", "commit"}
        /\ next = "preflight" => m[p].cmd = "compare"
        /\ next = "open" => m[p].cmd = "render"
    OBVIOUS
  <2> HIDE DEF next
  <2>4. Follows(p, r)
    BY <1>1, <2>2, <2>3 DEF Follows, ProcessShape, Staged, PairSteps, CheckedSteps, Early
  <2> QED BY <2>1, <2>4 DEF Frame
<1> QED BY <1>2, SayFrame DEF Recheck

\* Steps that set another variable of the process too
LEMMA SettingFrame ==
  ASSUME ProcessShape, NEW p \in Procs, Prepare(p) \/ OpenOutput(p) \/ Tidy(p)
  PROVE  Frame(p)
<1> DEFINE Ready(value) == [m[p] EXCEPT !.pc = "build", !.staging = value]
           Fill(value) == [m[p] EXCEPT !.pc = "fill", !.ino = value]
           Done == [m[p] EXCEPT !.pc = "done", !.staging = FALSE]
<1>1. ASSUME NEW value
      PROVE  /\ DOMAIN Ready(value) = Fields /\ Ready(value).pc = "build"
             /\ Ready(value).kept = m[p].kept /\ Ready(value).cmd = m[p].cmd
             /\ Ready(value).base = m[p].base /\ Ready(value).head = m[p].head
             /\ Ready(value).step = m[p].step
             /\ DOMAIN Fill(value) = Fields /\ Fill(value).pc = "fill"
             /\ Fill(value).kept = m[p].kept /\ Fill(value).cmd = m[p].cmd
             /\ Fill(value).base = m[p].base /\ Fill(value).head = m[p].head
             /\ Fill(value).step = m[p].step
  BY DEF ProcessShape, Fields
<1>2. /\ DOMAIN Done = Fields /\ Done.pc = "done" /\ Done.kept = m[p].kept
      /\ Done.cmd = m[p].cmd /\ Done.base = m[p].base /\ Done.head = m[p].head
      /\ Done.step = m[p].step
  BY DEF ProcessShape, Fields
<1>3. CASE Prepare(p)
  <2>1. m[p].pc = "prepare"
    BY <1>3 DEF Prepare
  <2>2. (\E word : Say(p, word)) \/ \E value : m' = [m EXCEPT ![p] = Ready(value)]
    BY <1>3 DEF Prepare, ProcessShape
  <2> HIDE DEF Ready
  <2>3. ASSUME NEW value PROVE Follows(p, Ready(value))
    BY <1>1, <2>1, FreeSteps, RecordFollows
  <2> QED BY <2>2, <2>3, SayFrame DEF Frame
<1>4. CASE OpenOutput(p)
  <2>1. m[p].pc = "open"
    BY <1>4 DEF OpenOutput
  <2>2. (\E word : Say(p, word)) \/ \E value : m' = [m EXCEPT ![p] = Fill(value)]
    BY <1>4 DEF OpenOutput, ProcessShape
  <2> HIDE DEF Fill
  <2>3. ASSUME NEW value PROVE Follows(p, Fill(value))
    BY <1>1, <2>1, FreeSteps, RecordFollows
  <2> QED BY <2>2, <2>3, SayFrame DEF Frame
<1>5. CASE Tidy(p)
  <2>1. m' = [m EXCEPT ![p] = Done]
    BY <1>5 DEF Tidy, ProcessShape
  <2> HIDE DEF Done
  <2> QED BY <1>2, <2>1, FreeSteps, RecordFollows DEF Frame
<1> QED BY <1>3, <1>4, <1>5

LEMMA WorkFrame ==
  ASSUME ProcessShape, NEW p \in Procs,
         \/ BuildHead(p) \/ Commit(p) \/ Report(p) \/ FillOutput(p) \/ Preflight(p)
         \/ Rolled(p) \/ Crash(p)
  PROVE  Frame(p)
<1>1. CASE BuildHead(p)
  BY <1>1, CheckedStep, GotoStep, SayFrame DEF BuildHead
<1>2. CASE Commit(p) \/ FillOutput(p) \/ Crash(p)
  BY <1>2, FreeSteps, GotoStep, SayFrame DEF Commit, FillOutput, Crash
<1>3. CASE Report(p) \/ Rolled(p)
  BY <1>3, SayFrame DEF Report, Rolled
<1>4. CASE Preflight(p)
  BY <1>4, FreeSteps, GotoStep, SayFrame DEF Preflight
<1> QED BY <1>1, <1>2, <1>3, <1>4

LEMMA ReadFrame ==
  ASSUME ProcessShape, NEW p \in Procs, NEW cmd \in Commands[p], ReadSources(p, cmd)
  PROVE  Frame(p)
<1> DEFINE r == [m[p] EXCEPT !.cmd = cmd, !.base = Text(Base),
                             !.head = IF cmd = "compare" THEN Text(Head) ELSE NoText,
                             !.pc = "prepare"]
<1>1. m[p].pc = "idle" /\ m' = [m EXCEPT ![p] = r]
  BY DEF ReadSources, ProcessShape
<1>2. DOMAIN r = Fields /\ r.pc = "prepare" /\ r.kept = m[p].kept /\ r.step = m[p].step
  BY DEF ProcessShape, Fields
<1> HIDE DEF r
<1>3. Follows(p, r)
  BY <1>1, <1>2, GotoFrame
<1> QED BY <1>1, <1>3 DEF Frame

LEMMA StepFrame ==
  ASSUME ProcessShape, NEW p \in Procs, Step(p) \/ Crash(p) PROVE Frame(p)
  BY ReadFrame, BuildFrame, RecheckFrame, SettingFrame, WorkFrame, BackupFrame, InstallFrame, RollbackFrame
     DEF Step

-----------------------------------------------------------------------------
(* What a step does to the files                                           *)

Removes == \E x : fs'.entry = [fs.entry EXCEPT ![x] = Absent]

Restores(p) ==
  /\ m[p].pc = "restore"
  /\ LET t == Pair[m[p].step] IN fs'.entry = [fs.entry EXCEPT ![t] = m[p].kept[t]]

Delivers(p) ==
  /\ m[p].pc \in {"commit", "install"}
  /\ \E t : /\ fs'.entry = [fs.entry EXCEPT ![t] = File(Candidate(p, t))]
            /\ fs'.held = [fs.held EXCEPT ![Candidate(p, t)] = Product(p, t)]

Creates(p) ==
  /\ m[p].pc = "open"
  /\ \E x : fs'.entry = [fs.entry EXCEPT ![x] = File(Candidate(p, Out))]

FileStep(p) ==
  /\ FileShape'
  /\ fs'.entry = fs.entry \/ Removes \/ Restores(p) \/ Delivers(p) \/ Creates(p)

LEMMA EntryPut ==
  ASSUME FileShape, NEW t, NEW e, fs' = [fs EXCEPT !.entry[t] = e]
  PROVE  FileShape' /\ fs'.entry = [fs.entry EXCEPT ![t] = e]
  BY DEF FileShape

LEMMA HeldPut ==
  ASSUME FileShape, NEW i, NEW c, fs' = [fs EXCEPT !.held[i] = c]
  PROVE  FileShape' /\ fs'.entry = fs.entry
  BY DEF FileShape

LEMMA BothPut ==
  ASSUME FileShape, NEW t, NEW e, NEW i, NEW c,
         fs' = [fs EXCEPT !.entry[t] = e, !.held[i] = c]
  PROVE  /\ FileShape' /\ fs'.entry = [fs.entry EXCEPT ![t] = e]
         /\ fs'.held = [fs.held EXCEPT ![i] = c]
  BY DEF FileShape

LEMMA CandidatePut ==
  ASSUME FileShape, NEW p \in Procs, NEW t, m[p].pc \in {"commit", "install"},
         PutCandidate(p, t)
  PROVE  FileStep(p)
<1> DEFINE e == File(Candidate(p, t))
           i == Candidate(p, t)
           c == Product(p, t)
<1>1. fs' = [fs EXCEPT !.entry[t] = e, !.held[i] = c]
  BY DEF PutCandidate
<1> HIDE DEF e, i, c
<1>2. /\ FileShape' /\ fs'.entry = [fs.entry EXCEPT ![t] = e]
      /\ fs'.held = [fs.held EXCEPT ![i] = c]
  BY <1>1 DEF FileShape
<1> QED BY <1>2 DEF FileStep, Delivers, e, i, c

LEMMA StepFiles ==
  ASSUME FileShape, NEW p \in Procs, Step(p) \/ Crash(p) PROVE FileStep(p)
<1>1. CASE fs' = fs
  BY <1>1 DEF FileShape, FileStep
<1>2. CASE Commit(p) \/ Install(p)
  BY <1>1, <1>2, CandidatePut DEF Commit, Install, FilesStay
<1>3. CASE OpenOutput(p)
  <2> DEFINE q == Canonical(fs, Out)
  <2>1. CASE fs' = [fs EXCEPT !.entry[q] = File(Candidate(p, Out)),
                              !.held[Candidate(p, Out)] = Partial]
    <3>1. FileShape' /\ fs'.entry = [fs.entry EXCEPT ![q] = File(Candidate(p, Out))]
      BY <2>1, BothPut
    <3> QED BY <1>3, <3>1 DEF FileStep, Creates, OpenOutput
  <2>2. CASE fs' = [fs EXCEPT !.held[fs.entry[q].ino] = Partial]
    BY <2>2, HeldPut DEF FileStep
  <2> QED BY <1>1, <1>3, <2>1, <2>2 DEF OpenOutput, FilesStay
<1>4. CASE FillOutput(p)
  <2>1. CASE fs' = [fs EXCEPT !.held[m[p].ino] = Drawing(m[p].base)]
    BY <2>1, HeldPut DEF FileStep
  <2> QED BY <1>1, <1>4, <2>1 DEF FillOutput, FilesStay
<1>5. CASE Backup(p) \/ Undo(p)
  <2> DEFINE t == Pair[m[p].step]
  <2>1. CASE PutEntry(p, t, Absent)
    <3>1. FileShape' /\ fs'.entry = [fs.entry EXCEPT ![t] = Absent]
      BY <2>1, EntryPut DEF PutEntry
    <3> QED BY <3>1 DEF FileStep, Removes
  <2> QED BY <1>1, <1>5, <2>1 DEF Backup, Undo, FilesStay
<1>6. CASE Restore(p)
  <2> DEFINE t == Pair[m[p].step]
  <2>1. CASE PutEntry(p, t, m[p].kept[t])
    <3>1. FileShape' /\ fs'.entry = [fs.entry EXCEPT ![t] = m[p].kept[t]]
      BY <2>1, EntryPut DEF PutEntry
    <3> QED BY <1>6, <3>1 DEF FileStep, Restores, Restore
  <2> QED BY <1>1, <1>6, <2>1 DEF Restore, FilesStay
<1>7. CASE \/ \E cmd \in Commands[p] : ReadSources(p, cmd)
           \/ Prepare(p) \/ Build(p) \/ BuildHead(p) \/ Recheck(p) \/ Report(p)
           \/ Preflight(p) \/ Rolled(p) \/ Tidy(p) \/ Crash(p)
  BY <1>1, <1>7 DEF ReadSources, Prepare, Build, BuildHead, Recheck, Report, Preflight, Rolled,
                    Tidy, Crash, FilesStay
<1> QED BY <1>2, <1>3, <1>4, <1>5, <1>6, <1>7 DEF Step

\* A backup is what is at the target; outside Backup none is made.
LEMMA StepBackups ==
  ASSUME ProcessShape, NEW p \in Procs, Step(p) \/ Crash(p), NEW x \in {Out, Receipt}
  PROVE  \/ m'[p].kept[x] = m[p].kept[x]
         \/ m[p].pc = "backup" /\ m'[p].kept[x] = fs.entry[x]
<1>1. CASE m[p].pc # "backup"
  BY <1>1, StepFrame, FrameShape DEF Follows
<1>2. CASE m[p].pc = "backup" /\ Crash(p)
  <2>1. m' = [m EXCEPT ![p].pc = "crashed"]
    BY <1>2 DEF Crash, Goto
  <2> QED BY <2>1 DEF ProcessShape, Fields
<1>3. CASE m[p].pc = "backup" /\ Step(p)
  <2> DEFINE r == After(p, "install")
             t == Pair[m[p].step]
             s == [r EXCEPT !.kept[t] = fs.entry[t]]
  <2>1. Backup(p)
    BY <1>3 DEF Step, ReadSources, Prepare, Build, BuildHead, Recheck, Commit, Report, OpenOutput,
                FillOutput, Preflight, Backup, Install, Undo, Restore, Rolled, Tidy
  <2>2. DOMAIN r = Fields /\ r.kept = m[p].kept
    BY <1>3, PairFrame DEF PairSteps
  <2>3. m'[p] = r \/ m'[p] = s \/ Roll(p)
    BY <2>1 DEF Backup, ProcessShape
  <2>4. Roll(p) => m'[p].kept = m[p].kept
    BY DEF Roll, ProcessShape, Fields
  <2> HIDE DEF r
  <2>5. s.kept[x] = r.kept[x] \/ s.kept[x] = fs.entry[x]
    BY <2>2 DEF ProcessShape, Fields
  <2> HIDE DEF s
  <2> QED BY <1>3, <2>2, <2>3, <2>4, <2>5
<1> QED BY <1>1, <1>2, <1>3

-----------------------------------------------------------------------------
(* The invariant and the theorem                                           *)

LEMMA StepUnmoved ==
  ASSUME Inv, NEW p \in Procs, Step(p) \/ Crash(p) PROVE Unmoved'
<1> SUFFICES ASSUME NEW a \in Procs, NEW t \in {Out, Receipt}
             PROVE  /\ m'[a].kept[t] # File(Candidate(a, t))
                    /\ m'[a].pc \in Early =>
                         /\ \A x \in Paths : fs'.entry[x] # File(Candidate(a, t))
                         /\ \A q \in Procs, x \in {Out, Receipt} :
                              m'[q].kept[x] # File(Candidate(a, t))
  BY DEF Unmoved
<1>1. {Out, Receipt} \subseteq Paths
  BY CommandAssumption
<1>2. /\ \A q \in Procs \ {p} : m'[q] = m[q]
      /\ m'[a].pc \in Early => m[a].pc \in Early
  BY StepFrame, FrameShape DEF Inv, Follows
<1>3. ASSUME NEW q \in Procs, NEW x \in {Out, Receipt}
      PROVE  \/ m'[q].kept[x] = m[q].kept[x]
             \/ q = p /\ m[p].pc \in Early /\ m'[q].kept[x] = fs.entry[x]
  BY <1>2, StepBackups DEF Inv, Early
<1>4. m'[a].kept[t] # File(Candidate(a, t))
  BY <1>1, <1>3 DEF Inv, Unmoved
<1>5. ASSUME m[a].pc \in Early, NEW x \in Paths, fs'.entry[x] # fs.entry[x]
      PROVE  fs'.entry[x] # File(Candidate(a, t))
  <2>1. FileStep(p)
    BY StepFiles DEF Inv
  <2>2. CASE Removes
    BY <1>5, <2>2, FilesDiffer DEF Removes, Inv, FileShape
  <2>3. CASE Restores(p)
    <3>1. Pair[m[p].step] \in {Out, Receipt}
      BY DEF Inv, ProcessShape, Pair, Targets
    <3>2. fs'.entry[x] = m[p].kept[Pair[m[p].step]]
      BY <1>5, <2>3 DEF Restores, Inv, FileShape
    <3> QED BY <1>5, <3>1, <3>2 DEF Inv, Unmoved
  <2>4. CASE Delivers(p) \/ Creates(p)
    <3>1. a # p
      BY <1>5, <2>4 DEF Delivers, Creates, Early
    <3>2. \E u : fs'.entry[x] = File(Candidate(p, u))
      BY <1>5, <2>4 DEF Delivers, Creates, Inv, FileShape
    <3> QED BY <3>1, <3>2, FilesDiffer, CandidatesDiffer
  <2> QED BY <1>5, <2>1, <2>2, <2>3, <2>4 DEF FileStep
<1>6. ASSUME m[a].pc \in Early
      PROVE  /\ \A x \in Paths : fs.entry[x] # File(Candidate(a, t))
             /\ \A q \in Procs, x \in {Out, Receipt} : m[q].kept[x] # File(Candidate(a, t))
  BY <1>6 DEF Inv, Unmoved
<1>7. ASSUME m[a].pc \in Early, NEW x \in Paths PROVE fs'.entry[x] # File(Candidate(a, t))
  BY <1>5, <1>6, <1>7
<1>8. ASSUME m[a].pc \in Early, NEW q \in Procs, NEW x \in {Out, Receipt}
      PROVE  m'[q].kept[x] # File(Candidate(a, t))
  BY <1>1, <1>3, <1>6, <1>8
<1> QED BY <1>2, <1>4, <1>7, <1>8

LEMMA WorldInv == ASSUME Inv, World PROVE Inv'
<1>1. m' = m
  BY DEF World, SaveSource, Replace
<1>2. CASE \E s \in Sources, text \in Texts : SaveSource(s, text)
  <2>1. PICK s \in Sources, text \in Texts : fs' = [fs EXCEPT !.held[fs.entry[s].ino] = text]
    BY <1>2 DEF SaveSource
  <2>2. FileShape' /\ fs'.entry = fs.entry
    BY <2>1, HeldPut DEF Inv
  <2> QED BY <1>1, <2>2 DEF Inv, ProcessShape, Unmoved
<1>3. CASE \E t \in {Out, Receipt}, e \in Intruders : Replace(t, e)
  <2>1. PICK t \in {Out, Receipt}, e \in Intruders : fs' = [fs EXCEPT !.entry[t] = e]
    BY <1>3 DEF Replace
  <2>2. FileShape' /\ fs'.entry = [fs.entry EXCEPT ![t] = e]
    BY <2>1, EntryPut DEF Inv
  <2>3. \A p \in Procs : \A u : e # File(Candidate(p, u))
    BY FilesDiffer, CandidatesDiffer DEF Intruders
  <2>4. Unmoved'
    BY <1>1, <2>2, <2>3 DEF Inv, Unmoved, FileShape
  <2> QED BY <1>1, <2>2, <2>4 DEF Inv, ProcessShape
<1> QED BY <1>2, <1>3 DEF World

LEMMA InvNext == Inv /\ [Next]_vars => Inv'
<1>1. ASSUME Inv, NEW p \in Procs, Step(p) \/ Crash(p) PROVE Inv'
  <2>1. ProcessShape' /\ \A q \in Procs : Staged(m'[q])
    BY <1>1, StepFrame, FrameShape DEF Inv, Follows
  <2>2. FileShape' /\ Unmoved'
    BY <1>1, StepFiles, StepUnmoved DEF Inv, FileStep
  <2> QED BY <2>1, <2>2 DEF Inv
<1>2. ASSUME Inv, UNCHANGED vars PROVE Inv'
  BY <1>2 DEF vars, Inv, ProcessShape, FileShape, Unmoved
<1> QED BY <1>1, <1>2, WorldInv DEF Next

THEOREM Invariance == Spec => []Inv
<1> QED BY InvInit, InvNext, PTL DEF Spec

\* Whatever happens to sources and targets meanwhile, what deliver, compare and
\* migrate move to a target has passed their checks and is what they made of the
\* text that was read.
THEOREM CheckedArrives == Spec => OnlyCheckedArrives
<1> DEFINE Good == \A p \in Procs, t \in {Out, Receipt} :
             /\ m'[p] # m[p] /\ m[p].cmd # "render"
             /\ fs'.entry[t] # fs.entry[t] /\ fs'.entry[t] = File(Candidate(p, t))
             => /\ m[p].base \in Valid
                /\ m[p].cmd = "compare" => m[p].head \in Valid
                /\ fs'.held[Candidate(p, t)] = Product(p, t)
<1>1. ASSUME Inv, Next PROVE Good
  <2> SUFFICES ASSUME NEW p \in Procs, NEW t \in {Out, Receipt},
                      m'[p] # m[p], m[p].cmd # "render",
                      fs'.entry[t] # fs.entry[t], fs'.entry[t] = File(Candidate(p, t))
               PROVE  /\ m[p].base \in Valid
                      /\ m[p].cmd = "compare" => m[p].head \in Valid
                      /\ fs'.held[Candidate(p, t)] = Product(p, t)
    OBVIOUS
  <2>1. Step(p) \/ Crash(p)
    <3>1. ASSUME NEW q \in Procs, q # p PROVE ~(Step(q) \/ Crash(q))
      BY <1>1, <3>1, StepFrame, FrameShape DEF Inv
    <3> QED BY <1>1, <3>1 DEF Next, World, SaveSource, Replace
  <2>2. /\ FileStep(p) /\ Staged(m[p]) /\ Unmoved /\ FileShape /\ ProcessShape /\ t \in Paths
    BY <1>1, <2>1, StepFiles, CommandAssumption DEF Inv
  <2>3. ~Removes
    BY <2>2, FilesDiffer DEF Removes, FileShape
  <2>4. ~Restores(p)
    <3> SUFFICES ASSUME Restores(p) PROVE FALSE
      OBVIOUS
    <3>1. fs'.entry[t] = m[p].kept[t]
      BY <2>2 DEF Restores, FileShape
    <3> QED BY <2>2, <3>1 DEF Unmoved
  <2>5. ~Creates(p)
    BY <2>2 DEF Creates, Staged
  <2>6. Delivers(p)
    BY <2>2, <2>3, <2>4, <2>5 DEF FileStep
  <2>7. fs'.held = [fs.held EXCEPT ![Candidate(p, t)] = Product(p, t)]
    BY <2>2, <2>6 DEF Delivers, FileShape
  <2>8. Candidate(p, t) \in DOMAIN fs.held
    BY <2>2 DEF FileShape, Inodes, Candidate
  <2> QED BY <2>2, <2>6, <2>7, <2>8 DEF Delivers, Staged, CheckedSteps
<1>2. Inv /\ [Next]_vars => [Good]_vars
  BY <1>1
<1> QED BY <1>2, Invariance, PTL DEF Spec, OnlyCheckedArrives

-----------------------------------------------------------------------------
(* Where a path leads                                                      *)

\* When every link leads to one regular file, no chain is longer than one.
OneLink(f, x) ==
  /\ x \in Paths /\ f.entry[x].type = "file"
  /\ \A q \in Paths : f.entry[q].type = "link" => f.entry[q].to = x

LEMMA LinksLead ==
  ASSUME NEW f, NEW x, OneLink(f, x), NEW q \in Paths
  PROVE  /\ f.entry[q].type # "link" => Canonical(f, q) = q
         /\ f.entry[q].type = "link" => Canonical(f, q) \in {x, Loop}
<1> DEFINE Body(h, n) == [y \in Paths |->
                   IF ~Is(f, y, "link") THEN y ELSE IF n = MaxLinks THEN Loop
                   ELSE h[n + 1][f.entry[y].to]]
           End(n) == [y \in Paths |->
                   IF ~Is(f, y, "link") THEN y ELSE IF n = MaxLinks THEN Loop ELSE x]
           g == [n \in 0..MaxLinks |-> End(n)]
           Solves(h) == h = [n \in 0..MaxLinks |-> Body(h, n)]
           h == CHOOSE h : Solves(h)
<1>0. MaxLinks \in Nat
  BY PathAssumption
<1>1. Solves(g)
  <2>1. ASSUME NEW n \in 0..MaxLinks PROVE End(n) = Body(g, n)
    <3>1. ASSUME NEW y \in Paths, Is(f, y, "link"), n # MaxLinks
          PROVE g[n + 1][f.entry[y].to] = x
      <4>1. n + 1 \in 0..MaxLinks
        BY <1>0, <3>1
      <4>2. f.entry[y].to = x /\ x \in Paths /\ ~Is(f, x, "link")
        BY <3>1 DEF OneLink, Is
      <4> QED BY <4>1, <4>2
    <3> QED BY <3>1
  <2> QED BY <2>1
<1>2. Solves(h)
  <2> HIDE DEF Solves, g
  <2> QED BY <1>1
<1>3. Canonical(f, q) = h[0][q]
  BY DEF Canonical
<1>4. ASSUME NEW k, Solves(k)
      PROVE  k[0] = Body(k, 0) /\ (MaxLinks # 0 => k[1] = Body(k, 1))
  <2>1. 0 \in 0..MaxLinks /\ (MaxLinks # 0 => 1 \in 0..MaxLinks)
    BY <1>0
  <2> QED BY <1>4, <2>1
<1>5. h[0] = Body(h, 0) /\ (MaxLinks # 0 => h[1] = Body(h, 1))
  <2> HIDE DEF Solves, Body, h
  <2> QED BY <1>2, <1>4
<1> HIDE DEF h
<1>6. x \in Paths /\ ~Is(f, x, "link")
  BY DEF OneLink, Is
<1>7. Is(f, q, "link") => f.entry[q].to = x
  BY DEF OneLink, Is
<1>8. h[0][q] = IF ~Is(f, q, "link") THEN q ELSE IF MaxLinks = 0 THEN Loop
                ELSE h[1][f.entry[q].to]
  BY <1>5
<1>9. MaxLinks # 0 => h[1][x] = x
  BY <1>5, <1>6
<1> QED BY <1>3, <1>7, <1>8, <1>9 DEF Is

-----------------------------------------------------------------------------
(* What a command may rely on at its targets                               *)

Ends == {Out, Receipt}

\* The names of the targets are two, and those of the sources are others; they may
\* still be links to a source, or hard links.
NamesApart == Out # Receipt /\ Sources \cap Ends = {}

\* The files that come to be at a target, and whatever else may be there
OfTarget(t) == {There(t), Foreign, There(Base)} \cup {Candidate(p, t) : p \in Procs}
Entries(t)  == {Absent, Directory, Link(Base)} \cup {File(i) : i \in OfTarget(t)}

Disk ==
  /\ \A s \in Sources : fs.entry[s] = File(There(s))
  /\ \A x \in Paths \ (Sources \cup Ends) : fs.entry[x] = Absent
  /\ \A t \in Ends : fs.entry[t] \in Entries(t)

Untouched(p, t) == <<p, t>> \notin touched

\* What is at target t: what was there before, nothing, something apart from the base
\* source, what p put there, or what p has opened there.
Still(p, t) == fs.entry[t] = m[p].before[t]
Empty(t)    == fs.entry[t] = Absent
Plain(t)    == fs.entry[t] \notin {Link(Base), File(There(Base))}
Placed(p, t) ==
  /\ fs.entry[t] = File(Candidate(p, t)) /\ fs.held[Candidate(p, t)] = Product(p, t)
Opened(p) == fs.entry[Out] = File(m[p].ino) /\ m[p].ino # There(Base)
Achieved(p, t) ==
  IF m[p].cmd = "render" THEN Opened(p) /\ fs.held[m[p].ino] = Product(p, Out) ELSE Placed(p, t)

\* Where a target of a pair is: not moved yet, moved away, installed, or taken out again.
Backed(p, t)    == m[p].kept[t] = m[p].before[t]
Left(p, t)      == Still(p, t) /\ m[p].kept[t] = Absent /\ t \notin m[p].moved
Away(p, t)      == Empty(t) /\ Backed(p, t) /\ t \notin m[p].moved
Installed(p, t) == Placed(p, t) /\ Backed(p, t) /\ t \in m[p].moved
Cleared(p, t)   == Left(p, t) \/ (Backed(p, t) /\ (Empty(t) \/ m[p].failed))

Number(t) == IF t = Out THEN 1 ELSE 2

\* The loops of the pair commit have come to their target number m[p].step.
PairStands(p, t) ==
  LET pc == m[p].pc IN
  /\ pc = "backup"  => IF m[p].step <= Number(t) THEN Left(p, t) /\ Plain(t) ELSE Away(p, t)
  /\ pc = "install" => IF m[p].step <= Number(t) THEN Away(p, t) ELSE Installed(p, t)
  /\ pc = "undo"    => IF m[p].step < Number(t) THEN Cleared(p, t)
                       ELSE Left(p, t) \/ Away(p, t) \/ Installed(p, t)
  /\ pc = "restore" => IF m[p].step < Number(t) THEN Still(p, t) \/ m[p].failed
                       ELSE Cleared(p, t)
  /\ pc = "rolled"  => Still(p, t) \/ m[p].failed

Words       == {"refused", "rejected", "prepare", "failed", "uncommitted"}
BeforeSteps == {"idle", "prepare", "build", "buildhead", "recheck", "commit", "open", "preflight"}

\* What a command has done to a target of its own
TargetStands(p, t) ==
  /\ m[p].pc \in {"open", "preflight"} => Plain(t)
  /\ m[p].pc = "report" \/ m[p].said = "ok" => Achieved(p, t)
  /\ m[p].said \in Words => Still(p, t)
  /\ m[p].cmd # "render" => Still(p, t) \/ Placed(p, t) \/ (m[p].cmd = "compare" /\ Empty(t))

\* What is so of command p and a target nobody else has touched since its last check
Standing(p, t) ==
  /\ m[p].pc \in BeforeSteps => Still(p, t)
  /\ m[p].pc = "fill" /\ t = Out => Opened(p)
  /\ t \in TargetSet(m[p].cmd) => TargetStands(p, t)
  /\ PairStands(p, t)

\* What is so of a command whatever the others do: before the commit nothing is kept or
\* moved, nothing is said before the end, and only commands with targets come to a commit.
Course(p) ==
  /\ m[p].pc \in BeforeSteps
       => m[p].step = 1 /\ m[p].moved = {} /\ \A t \in Ends : m[p].kept[t] = Absent
  /\ \A t \in Ends : m[p].kept[t] \in Entries(t)
  /\ m[p].pc = "fill" => m[p].ino \in OfTarget(Out)
  /\ m[p].pc \notin {"tidy", "done", "crashed"} => m[p].said = "none"
  /\ m[p].pc \in {"buildhead"} => m[p].cmd = "compare"
  /\ m[p].pc = "recheck" => m[p].cmd \in {"compare", "render", "deliver", "migrate"}
  /\ m[p].pc = "commit" => m[p].cmd \in {"deliver", "migrate"}

Truthful ==
  /\ Disk
  /\ \A p \in Procs : Course(p)
  /\ \A p \in Procs, t \in Ends : Untouched(p, t) => Standing(p, t)

LEMMA EntryFields ==
  /\ Absent.type = "none" /\ Directory.type = "directory"
  /\ \A x : Link(x).type = "link" /\ Link(x).to = x
  /\ \A i : File(i).type = "file" /\ File(i).ino = i
  BY DEF Absent, Directory, Link, File

LEMMA EntryKinds ==
  ASSUME NEW t, NEW e \in Entries(t)
  PROVE  /\ e.type = "none" <=> e = Absent
         /\ e.type = "directory" <=> e = Directory
         /\ e.type = "link" <=> e = Link(Base)
         /\ e.type = "file" <=> \E i \in OfTarget(t) : e = File(i)
         /\ e.type \in {"none", "directory", "link", "file"}
  BY EntryFields DEF Entries

LEMMA OutLeads ==
  ASSUME Disk, NamesApart PROVE OneLink(fs, Base)
<1>1. Base \in Paths /\ Base \in Sources
  BY CommandAssumption DEF Sources
<1>2. fs.entry[Base].type = "file"
  BY <1>1, EntryFields DEF Disk
<1>3. ASSUME NEW q \in Paths, fs.entry[q].type = "link" PROVE fs.entry[q].to = Base
  <2>1. q \in Ends
    BY <1>3, EntryFields DEF Disk
  <2>2. fs.entry[q] = Link(Base)
    BY <1>3, <2>1, EntryKinds DEF Disk
  <2> QED BY <2>2, EntryFields
<1> QED BY <1>1, <1>2, <1>3 DEF OneLink

\* Where the output leads when a command opens it
LEMMA OutTarget ==
  ASSUME Disk, NamesApart, NEW t \in Ends
  PROVE  /\ fs.entry[t] = Link(Base) => Canonical(fs, t) \in {Base, Loop}
         /\ fs.entry[t] # Link(Base) => Canonical(fs, t) = t
<1>1. t \in Paths /\ fs.entry[t] \in Entries(t)
  BY CommandAssumption DEF Ends, Disk
<1> QED BY <1>1, OutLeads, LinksLead, EntryKinds

LEMMA SourceInode ==
  ASSUME Disk, NamesApart, NEW s \in Sources
  PROVE  s \in Paths /\ Canonical(fs, s) = s /\ Inode(fs, s) = There(s) /\ Text(s) = fs.held[There(s)]
<1>1. s \in Paths /\ s # Loop /\ fs.entry[s] = File(There(s))
  BY CommandAssumption DEF Sources, Disk
<1>2. fs.entry[s].type = "file" /\ fs.entry[s].ino = There(s)
  BY <1>1, EntryFields
<1>3. Canonical(fs, s) = s
  BY <1>1, <1>2, OutLeads, LinksLead
<1>4. Inode(fs, s) = There(s)
  BY <1>1, <1>2, <1>3 DEF Inode, Is
<1>5. There(s) # NoInode
  BY DEF There, NoInode
<1> QED BY <1>1, <1>3, <1>4, <1>5 DEF Text

LEMMA TargetInode ==
  ASSUME Disk, NamesApart, NEW t \in Ends, NEW i, fs.entry[t] = File(i)
  PROVE  Inode(fs, t) = i
<1>1. t \in Paths /\ t # Loop /\ fs.entry[t].type = "file" /\ fs.entry[t].ino = i
  BY CommandAssumption, EntryFields DEF Ends
<1>2. Canonical(fs, t) = t
  BY <1>1, OutLeads, LinksLead
<1> QED BY <1>1, <1>2 DEF Inode, Is

\* A path is not accepted when it is, or leads to, the base source.
LEMMA AcceptedPlain ==
  ASSUME Disk, NamesApart, NEW t \in Ends, NEW cmd, NEW others, NEW ext,
         Accepted(fs, Request(t, cmd, others, ext))
  PROVE  Plain(t)
<1>1. Base \in Sources /\ Base \in Inputs(cmd)
  BY DEF Sources, Inputs
<1>2. ~Unresolvable(fs, t) /\ ~Aliases(fs, t, Base)
  <2> DEFINE req == Request(t, cmd, others, ext)
  <2>1. req.path = t /\ req.inputs = Inputs(cmd) /\ req.from # "meta"
    BY DEF Request
  <2>2. Refusal(fs, req) = "none"
    BY DEF Accepted
  <2> HIDE DEF req
  <2> QED BY <1>1, <2>1, <2>2 DEF Refusal
<1>3. fs.entry[t] # Link(Base)
  BY <1>1, <1>2, OutTarget, SourceInode DEF Unresolvable, Aliases, SameFuture
<1>4. fs.entry[t] # File(There(Base))
  <2>1. There(Base) # NoInode
    BY DEF There, NoInode
  <2> QED BY <1>1, <1>2, <2>1, TargetInode, SourceInode DEF Aliases
<1> QED BY <1>3, <1>4 DEF Plain

LEMMA AcceptedTargets ==
  ASSUME Disk, NamesApart, NEW cmd \in {"compare", "render"}, PathsAccepted(cmd),
         NEW t \in Ends, t \in TargetSet(cmd)
  PROVE  Plain(t)
<1>1. CASE cmd = "compare"
  BY <1>1, AcceptedPlain DEF PathsAccepted, Ends
<1>2. CASE cmd = "render"
  <2>1. t = Out
    BY <1>2 DEF TargetSet, Targets
  <2> QED BY <1>2, <2>1, AcceptedPlain DEF PathsAccepted
<1> QED BY <1>1, <1>2

-----------------------------------------------------------------------------
(* What a command does to the files                                        *)

Puts(p, u, e, c) ==
  /\ fs'.entry = [fs.entry EXCEPT ![u] = e]
  /\ fs'.held[Candidate(p, u)] = c
  /\ \A i \in Inodes \ {Candidate(p, u)} : fs'.held[i] = fs.held[i]
  /\ touched' = touched \cup {<<q, u>> : q \in Procs \ {p}}

Writes(p, i, c) ==
  /\ fs'.entry = fs.entry
  /\ fs'.held[i] = c /\ \A j \in Inodes \ {i} : fs'.held[j] = fs.held[j]
  /\ touched' = touched \cup {<<q, Out>> : q \in Procs \ {p}}

WritesBase(c) ==
  /\ fs'.entry = fs.entry
  /\ fs'.held[There(Base)] = c /\ \A j \in Inodes \ {There(Base)} : fs'.held[j] = fs.held[j]
  /\ touched \subseteq touched'

Looks(p) == fs' = fs /\ \A q \in Procs \ {p}, t \in Ends : <<q, t>> \in touched => <<q, t>> \in touched'

\* A render writes the file it finds at its output, or the one it has opened.
Opens(p, i) ==
  (m[p].pc = "open" /\ fs.entry[Out] = File(i)) \/ (m[p].pc = "fill" /\ m[p].ino = i)

Effect(p) ==
  \/ Looks(p)
  \/ \E u \in Ends : \E e \in Entries(u) : \E c : Puts(p, u, e, c)
  \/ \E i \in OfTarget(Out) : \E c : Opens(p, i) /\ Writes(p, i, c)
  \/ \E c : m[p].pc = "open" /\ fs.entry[Out] = Link(Base) /\ WritesBase(c)

LEMMA KnownInodes ==
  /\ \A t \in Ends : OfTarget(t) \subseteq Inodes
  /\ \A p \in Procs, t \in Ends : Candidate(p, t) \in OfTarget(t)
  BY DEF Ends, OfTarget, Inodes, Candidate

\* One write, entry by entry
LEMMA HeldAt ==
  ASSUME FileShape, NEW i \in Inodes, NEW c, fs'.held = [fs.held EXCEPT ![i] = c]
  PROVE  fs'.held[i] = c /\ \A j \in Inodes \ {i} : fs'.held[j] = fs.held[j]
  BY DEF FileShape

LEMMA PutEffect ==
  ASSUME FileShape, NEW p \in Procs, NEW u \in Ends, NEW e, PutEntry(p, u, e)
  PROVE  Puts(p, u, e, fs.held[Candidate(p, u)])
<1>1. fs'.entry = [fs.entry EXCEPT ![u] = e] /\ fs'.held = fs.held
  BY DEF PutEntry, FileShape
<1> QED BY <1>1 DEF Puts, PutEntry

LEMMA CandidateEffect ==
  ASSUME FileShape, NEW p \in Procs, NEW u \in Ends, PutCandidate(p, u)
  PROVE  Puts(p, u, File(Candidate(p, u)), Product(p, u))
<1> DEFINE e == File(Candidate(p, u))
           i == Candidate(p, u)
           c == Product(p, u)
<1>1. fs' = [fs EXCEPT !.entry[u] = e, !.held[i] = c]
  BY DEF PutCandidate
<1> HIDE DEF e, i, c
<1>2. fs'.entry = [fs.entry EXCEPT ![u] = e] /\ fs'.held = [fs.held EXCEPT ![i] = c]
  BY <1>1 DEF FileShape
<1>3. i \in Inodes
  BY KnownInodes DEF i
<1>4. fs'.held[i] = c /\ \A j \in Inodes \ {i} : fs'.held[j] = fs.held[j]
  BY <1>2, <1>3, HeldAt
<1> QED BY <1>2, <1>4 DEF Puts, PutCandidate, e, i, c

\* The command opens what it finds at its output: nothing, a file, or through a link the
\* base source.
LEMMA OpenEffect ==
  ASSUME FileShape, Disk, NamesApart, NEW p \in Procs, OpenOutput(p)
  PROVE  \/ Say(p, "unwritten") /\ FilesStay
         \/ /\ fs.entry[Out] = Absent
            /\ Puts(p, Out, File(Candidate(p, Out)), Partial)
            /\ m' = [m EXCEPT ![p].pc = "fill", ![p].ino = Candidate(p, Out)]
         \/ \E i \in OfTarget(Out) :
              /\ fs.entry[Out] = File(i) /\ Writes(p, i, Partial)
              /\ m' = [m EXCEPT ![p].pc = "fill", ![p].ino = i]
         \/ /\ fs.entry[Out] = Link(Base) /\ WritesBase(Partial)
            /\ m' = [m EXCEPT ![p].pc = "fill", ![p].ino = There(Base)]
<1> DEFINE q == Canonical(fs, Out)
<1>1. Out \in Ends /\ fs.entry[Out] \in Entries(Out) /\ Base \in Sources
  BY DEF Ends, Disk, Sources
<1>2. CASE q # Loop /\ fs.entry[q].type = "none" /\ ~(Say(p, "unwritten") /\ FilesStay)
  <2>1. fs' = [fs EXCEPT !.entry[q] = File(Candidate(p, Out)), !.held[Candidate(p, Out)] = Partial]
    BY <1>2 DEF OpenOutput, Is
  <2>2. /\ touched' = touched \cup {<<o, q>> : o \in Procs \ {p}}
        /\ m' = [m EXCEPT ![p].pc = "fill", ![p].ino = Candidate(p, Out)]
    BY <1>2 DEF OpenOutput, Is
  <2>3. q # Base
    BY <1>1, <1>2, EntryFields DEF Disk
  <2>4. q = Out
    BY <1>1, <1>2, <2>3, OutTarget
  <2> HIDE DEF q
  <2>5. fs.entry[Out] = Absent
    BY <1>1, <1>2, <2>4, EntryKinds
  <2>6. /\ fs'.entry = [fs.entry EXCEPT ![Out] = File(Candidate(p, Out))]
        /\ fs'.held = [fs.held EXCEPT ![Candidate(p, Out)] = Partial]
    <3> DEFINE e == File(Candidate(p, Out))
               i == Candidate(p, Out)
    <3>1. fs' = [fs EXCEPT !.entry[Out] = e, !.held[i] = Partial]
      BY <2>1, <2>4
    <3> HIDE DEF e, i
    <3>2. fs'.entry = [fs.entry EXCEPT ![Out] = e] /\ fs'.held = [fs.held EXCEPT ![i] = Partial]
      BY <3>1 DEF FileShape
    <3> QED BY <3>2 DEF e, i
  <2>7. touched' = touched \cup {<<o, Out>> : o \in Procs \ {p}}
    BY <2>2, <2>4
  <2>8. Candidate(p, Out) \in Inodes
    BY <1>1, KnownInodes
  <2> QED BY <2>2, <2>5, <2>6, <2>7, <2>8, HeldAt DEF Puts
<1>3. CASE q # Loop /\ fs.entry[q].type = "file" /\ ~(Say(p, "unwritten") /\ FilesStay)
  <2>1. fs' = [fs EXCEPT !.held[fs.entry[q].ino] = Partial]
    BY <1>3 DEF OpenOutput, Is
  <2>2. /\ touched' = touched \cup {<<o, q>> : o \in Procs \ {p}}
        /\ m' = [m EXCEPT ![p].pc = "fill", ![p].ino = fs.entry[q].ino]
    BY <1>3 DEF OpenOutput, Is
  <2>3. fs'.entry = fs.entry /\ fs'.held = [fs.held EXCEPT ![fs.entry[q].ino] = Partial]
    <3> DEFINE i == fs.entry[q].ino
    <3>1. fs' = [fs EXCEPT !.held[i] = Partial]
      BY <2>1
    <3> HIDE DEF i, q
    <3>2. fs'.entry = fs.entry /\ fs'.held = [fs.held EXCEPT ![i] = Partial]
      BY <3>1 DEF FileShape
    <3> QED BY <3>2 DEF i
  <2>4. CASE q = Out
    <3> HIDE DEF q
    <3>1. PICK i \in OfTarget(Out) : fs.entry[Out] = File(i)
      BY <1>1, <1>3, <2>4, EntryKinds
    <3>2. fs.entry[q].ino = i
      BY <2>4, <3>1, EntryFields
    <3>3. i \in Inodes
      BY <1>1, KnownInodes
    <3>4. /\ fs'.held = [fs.held EXCEPT ![i] = Partial]
          /\ touched' = touched \cup {<<o, Out>> : o \in Procs \ {p}}
      BY <2>2, <2>3, <2>4, <3>2
    <3>5. fs'.held[i] = Partial /\ \A j \in Inodes \ {i} : fs'.held[j] = fs.held[j]
      BY <3>3, <3>4, HeldAt
    <3> QED BY <2>2, <2>3, <3>1, <3>2, <3>4, <3>5 DEF Writes
  <2>5. CASE q # Out
    <3>1. q = Base /\ fs.entry[Out] = Link(Base)
      BY <1>1, <1>3, <2>5, OutTarget
    <3> HIDE DEF q
    <3>2. fs.entry[q].ino = There(Base)
      BY <1>1, <3>1, EntryFields DEF Disk
    <3>3. There(Base) \in Inodes
      BY DEF Inodes
    <3>4. fs'.held = [fs.held EXCEPT ![There(Base)] = Partial]
      BY <2>3, <3>2
    <3>5. /\ fs'.held[There(Base)] = Partial
          /\ \A j \in Inodes \ {There(Base)} : fs'.held[j] = fs.held[j]
      BY <3>3, <3>4, HeldAt
    <3> QED BY <2>2, <2>3, <3>1, <3>2, <3>5 DEF WritesBase
  <2> QED BY <2>4, <2>5
<1> QED BY <1>2, <1>3 DEF OpenOutput, Is

LEMMA FillEffect ==
  ASSUME FileShape, NEW p \in Procs, FillOutput(p), m[p].ino \in OfTarget(Out)
  PROVE  \/ Say(p, "unwritten") /\ FilesStay
         \/ Writes(p, m[p].ino, Drawing(m[p].base)) /\ Goto(p, "report")
<1> DEFINE i == m[p].ino
           c == Drawing(m[p].base)
<1>1. CASE fs' = [fs EXCEPT !.held[i] = c]
  <2> HIDE DEF i, c
  <2>1. fs'.entry = fs.entry /\ fs'.held = [fs.held EXCEPT ![i] = c]
    BY <1>1 DEF FileShape
  <2>2. i \in Inodes
    BY KnownInodes DEF i, Ends
  <2>3. fs'.held[i] = c /\ \A j \in Inodes \ {i} : fs'.held[j] = fs.held[j]
    BY <2>1, <2>2, HeldAt
  <2> QED BY <2>1, <2>3 DEF FillOutput, Writes, FilesStay, i, c
<1> QED BY <1>1 DEF FillOutput

LEMMA PairAt ==
  ASSUME ProcessShape, NEW p \in Procs
  PROVE  Pair[m[p].step] \in Ends /\ (NamesApart => Number(Pair[m[p].step]) = m[p].step)
  BY DEF ProcessShape, Pair, Targets, Ends, Number, NamesApart

LEMMA StepEffect ==
  ASSUME NamesApart, Inv, Disk, NEW p \in Procs, Course(p), Step(p) \/ Crash(p) PROVE Effect(p)
<1>0. ProcessShape /\ FileShape /\ Pair[m[p].step] \in Ends
  BY PairAt DEF Inv
<1>1. ASSUME FilesStay PROVE Effect(p)
  BY <1>1 DEF FilesStay, Effect, Looks
<1>2. ASSUME NEW u \in Ends, PutCandidate(p, u) PROVE Effect(p)
  <2>1. File(Candidate(p, u)) \in Entries(u)
    BY DEF Entries, OfTarget
  <2> QED BY <1>0, <1>2, <2>1, CandidateEffect DEF Effect
<1>3. ASSUME NEW u \in Ends, NEW e \in Entries(u), PutEntry(p, u, e) PROVE Effect(p)
  BY <1>0, <1>3, PutEffect DEF Effect
<1>4. CASE Commit(p)
  <2>1. Targets(m[p].cmd)[1] \in Ends
    BY <1>4 DEF Commit, Course, Targets, Ends
  <2> QED BY <1>1, <1>2, <1>4, <2>1 DEF Commit
<1>5. CASE Install(p)
  BY <1>0, <1>1, <1>2, <1>5 DEF Install
<1>6. CASE Backup(p) \/ Undo(p)
  <2>1. Absent \in Entries(Pair[m[p].step])
    BY DEF Entries
  <2> QED BY <1>0, <1>1, <1>3, <1>6, <2>1 DEF Backup, Undo
<1>7. CASE Restore(p)
  <2>1. m[p].kept[Pair[m[p].step]] \in Entries(Pair[m[p].step])
    BY <1>0 DEF Course
  <2> QED BY <1>0, <1>1, <1>3, <1>7, <2>1 DEF Restore
<1>8. CASE OpenOutput(p)
  <2>1. Out \in Ends /\ File(Candidate(p, Out)) \in Entries(Out) /\ m[p].pc = "open"
    BY <1>8 DEF Entries, OfTarget, Ends, OpenOutput
  <2> QED BY <1>0, <1>1, <1>8, <2>1, OpenEffect DEF Effect, Opens
<1>9. CASE FillOutput(p)
  <2>1. m[p].ino \in OfTarget(Out) /\ m[p].pc = "fill"
    BY <1>9 DEF Course, FillOutput
  <2> QED BY <1>0, <1>1, <1>9, <2>1, FillEffect DEF Effect, Opens
<1>10. CASE Recheck(p)
  BY <1>10 DEF Recheck, Effect, Looks
<1>11. CASE \/ \E cmd \in Commands[p] : ReadSources(p, cmd)
            \/ Prepare(p) \/ Build(p) \/ BuildHead(p) \/ Report(p)
            \/ Preflight(p) \/ Rolled(p) \/ Tidy(p) \/ Crash(p)
  BY <1>1, <1>11 DEF ReadSources, Prepare, Build, BuildHead, Report, Preflight, Rolled, Tidy, Crash
<1> QED BY <1>4, <1>5, <1>6, <1>7, <1>8, <1>9, <1>10, <1>11 DEF Step

-----------------------------------------------------------------------------
(* What everybody else leaves alone                                        *)

Saves(s) ==
  /\ fs'.entry = fs.entry /\ touched' = touched
  /\ \A j \in Inodes \ {There(s)} : fs'.held[j] = fs.held[j]

Replaces(t, e) ==
  /\ fs'.entry = [fs.entry EXCEPT ![t] = e] /\ fs'.held = fs.held
  /\ touched' = touched \cup {<<q, t>> : q \in Procs}

LEMMA WorldEffect ==
  ASSUME NamesApart, FileShape, Disk, World
  PROVE  m' = m /\ \/ \E s \in Sources : Saves(s)
                   \/ \E t \in Ends : \E e \in Entries(t) : Replaces(t, e)
<1>1. m' = m
  BY DEF World, SaveSource, Replace
<1>2. CASE \E s \in Sources, text \in Texts : SaveSource(s, text)
  <2>1. PICK s \in Sources, text \in Texts : SaveSource(s, text)
    BY <1>2
  <2> DEFINE i == fs.entry[s].ino
  <2>2. fs' = [fs EXCEPT !.held[i] = text] /\ touched' = touched
    BY <2>1 DEF SaveSource
  <2>3. i = There(s)
    BY EntryFields DEF Disk
  <2> HIDE DEF i
  <2>4. fs'.entry = fs.entry /\ fs'.held = [fs.held EXCEPT ![i] = text]
    BY <2>2 DEF FileShape
  <2>5. i \in Inodes
    BY <2>3 DEF Inodes, Sources
  <2>6. \A j \in Inodes \ {i} : fs'.held[j] = fs.held[j]
    BY <2>4, <2>5, HeldAt
  <2> QED BY <1>1, <2>2, <2>3, <2>4, <2>6 DEF Saves
<1>3. CASE \E t \in {Out, Receipt}, e \in Intruders : Replace(t, e)
  <2>1. PICK t \in Ends, e \in Intruders : Replace(t, e)
    BY <1>3 DEF Ends
  <2>2. fs' = [fs EXCEPT !.entry[t] = e] /\ touched' = touched \cup {<<q, t>> : q \in Procs}
    BY <2>1 DEF Replace
  <2>3. fs'.entry = [fs.entry EXCEPT ![t] = e] /\ fs'.held = fs.held
    BY <2>2 DEF FileShape
  <2>4. e \in Entries(t)
    BY DEF Intruders, Entries, OfTarget
  <2> QED BY <1>1, <2>2, <2>3, <2>4 DEF Replaces
<1> QED BY <1>2, <1>3 DEF World

LEMMA EntryDisk ==
  ASSUME NamesApart, FileShape, Disk, NEW u \in Ends, NEW e \in Entries(u),
         fs'.entry = [fs.entry EXCEPT ![u] = e]
  PROVE  Disk'
<1>1. Ends \subseteq Paths /\ Sources \subseteq Paths /\ u \notin Sources
  BY CommandAssumption DEF Ends, Sources, NamesApart
<1>2. ASSUME NEW x \in Paths PROVE fs'.entry[x] = IF x = u THEN e ELSE fs.entry[x]
  BY DEF FileShape
<1>3. /\ \A s \in Sources : fs'.entry[s] = File(There(s))
      /\ \A x \in Paths \ (Sources \cup Ends) : fs'.entry[x] = Absent
  BY <1>1, <1>2 DEF Disk
<1>4. \A t \in Ends : fs'.entry[t] \in Entries(t)
  BY <1>1, <1>2 DEF Disk
<1> QED BY <1>3, <1>4 DEF Disk

LEMMA StayDisk == ASSUME Disk, fs'.entry = fs.entry PROVE Disk'
  BY DEF Disk

LEMMA DiskNext ==
  ASSUME NamesApart, FileShape, Disk, World \/ \E p \in Procs : Effect(p)
  PROVE  Disk'
<1>1. CASE World
  BY <1>1, WorldEffect, EntryDisk, StayDisk DEF Saves, Replaces
<1>2. ASSUME NEW p \in Procs, Effect(p) PROVE Disk'
  BY <1>2, EntryDisk, StayDisk DEF Effect, Looks, Puts, Writes, WritesBase
<1> QED BY <1>1, <1>2

\* A target that stays untouched stays as it is: what it names, its staged file, and
\* what a render has opened there.
Undisturbed(p, t) ==
  /\ <<p, t>> \notin touched
  /\ fs'.entry[t] = fs.entry[t]
  /\ fs'.held[Candidate(p, t)] = fs.held[Candidate(p, t)]
  /\ t = Out => \A i \in OfTarget(Out) \ {There(Base)} :
                  fs.entry[Out] = File(i) => fs'.held[i] = fs.held[i]

\* A staged file belongs to one command and target.
LEMMA InodesApart ==
  ASSUME NamesApart, NEW p \in Procs, NEW t \in Ends
  PROVE  /\ Candidate(p, t) \in Inodes
         /\ \A s : Candidate(p, t) # There(s)
         /\ \A q \in Procs : \A u : Candidate(q, u) = Candidate(p, t) => q = p /\ u = t
         /\ t # Out => Candidate(p, t) \notin OfTarget(Out)
         /\ \A s \in Sources : There(s) \in OfTarget(Out) => There(s) = There(Base)
<1>1. Candidate(p, t) \in Inodes
  BY KnownInodes
<1>2. \A s : Candidate(p, t) # There(s) /\ Candidate(p, t) # Foreign
  BY CandidatesDiffer
<1>3. \A q \in Procs : \A u : Candidate(q, u) = Candidate(p, t) => q = p /\ u = t
  BY CandidatesDiffer
<1>4. t # Out => Candidate(p, t) \notin OfTarget(Out)
  BY <1>2, <1>3 DEF OfTarget
<1>5. ASSUME NEW s \in Sources, There(s) \in OfTarget(Out) PROVE There(s) = There(Base)
  <2>1. s # Out /\ s # "foreign"
    BY CommandAssumption DEF NamesApart, Sources, Ends
  <2>2. There(s) # There(Out) /\ There(s) # Foreign
    BY <2>1 DEF There, Foreign
  <2>3. \A q \in Procs : There(s) # Candidate(q, Out)
    BY CandidatesDiffer
  <2> QED BY <1>5, <2>2, <2>3 DEF OfTarget
<1> QED BY <1>1, <1>2, <1>3, <1>4, <1>5

LEMMA PutApart ==
  ASSUME NamesApart, FileShape, NEW p \in Procs, NEW t \in Ends, NEW q \in Procs, q # p,
         NEW u \in Ends, NEW e, NEW c, Puts(q, u, e, c), <<p, t>> \notin touched'
  PROVE  Undisturbed(p, t)
<1>1. t # u /\ <<p, t>> \notin touched
  BY DEF Puts
<1>2. t \in Paths /\ u \in Paths
  BY CommandAssumption DEF Ends
<1>3. fs'.entry[t] = fs.entry[t]
  BY <1>1, <1>2 DEF Puts, FileShape
<1>4. fs'.held[Candidate(p, t)] = fs.held[Candidate(p, t)]
  BY InodesApart DEF Puts
<1>5. ASSUME t = Out, NEW i \in OfTarget(Out) \ {There(Base)} PROVE fs'.held[i] = fs.held[i]
  <2>1. i # Candidate(q, u)
    BY <1>1, <1>5, InodesApart
  <2>2. i \in Inodes
    BY <1>5, KnownInodes
  <2> QED BY <2>1, <2>2 DEF Puts
<1> QED BY <1>1, <1>3, <1>4, <1>5 DEF Undisturbed

LEMMA OthersKeep ==
  ASSUME NamesApart, FileShape, Disk, NEW p \in Procs, NEW t \in Ends,
         World \/ (\E q \in Procs \ {p} : Effect(q)), <<p, t>> \notin touched'
  PROVE  Undisturbed(p, t)
<1>0. t \in Paths /\ Out \in Ends /\ OfTarget(Out) \subseteq Inodes
  BY CommandAssumption, KnownInodes DEF Ends
<1>1. ASSUME NEW q \in Procs, q # p, Effect(q) PROVE Undisturbed(p, t)
  <2>1. CASE Looks(q)
    BY <1>1, <2>1 DEF Looks, Undisturbed
  <2>2. CASE \E u \in Ends : \E e \in Entries(u) : \E c : Puts(q, u, e, c)
    BY <1>1, <2>2, PutApart
  <2>3. ASSUME NEW i \in OfTarget(Out), NEW c, Writes(q, i, c) PROVE Undisturbed(p, t)
    <3>1. t # Out /\ <<p, t>> \notin touched
      BY <1>1, <2>3 DEF Writes
    <3>2. Candidate(p, t) # i /\ Candidate(p, t) \in Inodes
      BY <3>1, InodesApart
    <3> QED BY <2>3, <3>1, <3>2 DEF Writes, Undisturbed
  <2>4. ASSUME NEW c, WritesBase(c) PROVE Undisturbed(p, t)
    BY <1>0, <2>4, InodesApart DEF WritesBase, Undisturbed
  <2> QED BY <1>1, <2>1, <2>2, <2>3, <2>4 DEF Effect
<1>2. ASSUME NEW s \in Sources, Saves(s) PROVE Undisturbed(p, t)
  BY <1>0, <1>2, InodesApart DEF Saves, Undisturbed
<1>3. ASSUME NEW u \in Ends, NEW e, Replaces(u, e) PROVE Undisturbed(p, t)
  BY <1>0, <1>3 DEF Replaces, Undisturbed, FileShape
<1> QED BY <1>1, <1>2, <1>3, WorldEffect

\* What is so of a command stays so when others leave its target alone.
LEMMA OthersStand ==
  ASSUME NamesApart, Disk, NEW p \in Procs, NEW t \in Ends, m'[p] = m[p], Undisturbed(p, t),
         Standing(p, t)
  PROVE  Standing(p, t)'
<1>1. /\ Still(p, t)' <=> Still(p, t)
      /\ Empty(t)' <=> Empty(t)
      /\ Plain(t)' <=> Plain(t)
      /\ Backed(p, t)' <=> Backed(p, t)
  BY DEF Undisturbed, Still, Empty, Plain, Backed
<1>2. Product(p, t)' = Product(p, t)
  BY DEF Product
<1>3. Placed(p, t)' <=> Placed(p, t)
  BY <1>2 DEF Undisturbed, Placed
<1>4. /\ Left(p, t)' <=> Left(p, t)
      /\ Away(p, t)' <=> Away(p, t)
      /\ Installed(p, t)' <=> Installed(p, t)
  BY <1>1, <1>3 DEF Left, Away, Installed
<1>5. Cleared(p, t)' <=> Cleared(p, t)
  BY <1>1, <1>4 DEF Cleared
<1>6. t = Out => (Opened(p)' <=> Opened(p))
  BY DEF Undisturbed, Opened
<1>7. ASSUME t \in TargetSet(m[p].cmd), Achieved(p, t) PROVE Achieved(p, t)'
  <2>1. CASE m[p].cmd = "render"
    <3>1. t = Out
      BY <1>7, <2>1 DEF TargetSet, Targets
    <3>2. m[p].ino \in OfTarget(Out) \ {There(Base)} /\ fs.entry[Out] = File(m[p].ino)
      <4>1. Opened(p)
        BY <1>7, <2>1 DEF Achieved
      <4>2. fs.entry[Out] \in Entries(Out)
        BY DEF Disk, Ends
      <4>3. \E i \in OfTarget(Out) : fs.entry[Out] = File(i)
        BY <4>1, <4>2, EntryKinds, EntryFields DEF Opened
      <4> QED BY <4>1, <4>3, FilesDiffer DEF Opened
    <3>3. fs'.held[m[p].ino] = fs.held[m[p].ino]
      BY <3>1, <3>2 DEF Undisturbed
    <3> QED BY <1>2, <1>6, <1>7, <2>1, <3>1, <3>3 DEF Achieved
  <2>2. CASE m[p].cmd # "render"
    BY <1>3, <1>7, <2>2 DEF Achieved
  <2> QED BY <2>1, <2>2
<1>8. t \in TargetSet(m[p].cmd) /\ TargetStands(p, t) => TargetStands(p, t)'
  BY <1>1, <1>3, <1>7 DEF TargetStands
<1>9. PairStands(p, t)'
  BY <1>1, <1>4, <1>5 DEF Standing, PairStands, Number
<1> QED BY <1>1, <1>6, <1>8, <1>9 DEF Standing

-----------------------------------------------------------------------------
(* What a command does to its own targets                                  *)

\* Everything but the step and the word stays.
Alike(p) ==
  /\ m'[p].cmd = m[p].cmd /\ m'[p].base = m[p].base /\ m'[p].head = m[p].head
  /\ m'[p].before = m[p].before
Locals(p) ==
  /\ Alike(p)
  /\ m'[p].step = m[p].step /\ m'[p].kept = m[p].kept /\ m'[p].moved = m[p].moved
  /\ m'[p].failed = m[p].failed /\ m'[p].ino = m[p].ino

LEMMA SayDoes ==
  ASSUME ProcessShape, NEW p \in Procs, NEW word, Say(p, word)
  PROVE  /\ Locals(p) /\ m'[p].pc \in {"tidy", "done"} /\ m'[p].said = word
<1> DEFINE pc == IF m[p].staging THEN "tidy" ELSE "done"
           r == [m[p] EXCEPT !.pc = pc, !.said = word]
<1>1. m'[p] = r
  BY DEF Say, ProcessShape
<1>2. /\ r.pc = pc /\ r.said = word /\ r.cmd = m[p].cmd /\ r.base = m[p].base /\ r.head = m[p].head
      /\ r.before = m[p].before /\ r.step = m[p].step /\ r.kept = m[p].kept
      /\ r.moved = m[p].moved /\ r.failed = m[p].failed /\ r.ino = m[p].ino
  BY DEF ProcessShape, Fields
<1>3. pc \in {"tidy", "done"}
  OBVIOUS
<1> HIDE DEF r, pc
<1> QED BY <1>1, <1>2, <1>3 DEF Locals, Alike

LEMMA GotoDoes ==
  ASSUME ProcessShape, NEW p \in Procs, NEW pc, Goto(p, pc)
  PROVE  Locals(p) /\ m'[p].pc = pc /\ m'[p].said = m[p].said
<1> DEFINE r == [m[p] EXCEPT !.pc = pc]
<1>1. m'[p] = r
  BY DEF Goto, ProcessShape
<1>2. /\ r.pc = pc /\ r.said = m[p].said /\ r.cmd = m[p].cmd /\ r.base = m[p].base
      /\ r.head = m[p].head
      /\ r.before = m[p].before /\ r.step = m[p].step /\ r.kept = m[p].kept
      /\ r.moved = m[p].moved /\ r.failed = m[p].failed /\ r.ino = m[p].ino
  BY DEF ProcessShape, Fields
<1> HIDE DEF r
<1> QED BY <1>1, <1>2 DEF Locals, Alike

\* The same target, seen by a command whose locals stay
LEMMA SameTarget ==
  ASSUME NEW p \in Procs, NEW t \in Ends, Alike(p), fs'.entry[t] = fs.entry[t],
         fs'.held[Candidate(p, t)] = fs.held[Candidate(p, t)]
  PROVE  /\ Still(p, t)' <=> Still(p, t)
         /\ Empty(t)' <=> Empty(t)
         /\ Plain(t)' <=> Plain(t)
         /\ Placed(p, t)' <=> Placed(p, t)
         /\ Product(p, t)' = Product(p, t)
<1>1. Product(p, t)' = Product(p, t)
  BY DEF Product, Alike
<1> QED BY <1>1 DEF Alike, Still, Empty, Plain, Placed

\* Where it is does not change with what other targets and failures do.
LEMMA SamePlace ==
  ASSUME NEW p \in Procs, NEW t \in Ends, Alike(p), fs'.entry[t] = fs.entry[t],
         fs'.held[Candidate(p, t)] = fs.held[Candidate(p, t)],
         m'[p].kept[t] = m[p].kept[t], t \in m'[p].moved <=> t \in m[p].moved,
         m[p].failed => m'[p].failed
  PROVE  /\ Left(p, t) => Left(p, t)'
         /\ Away(p, t) => Away(p, t)'
         /\ Installed(p, t) => Installed(p, t)'
         /\ Cleared(p, t) => Cleared(p, t)'
<1>1. Backed(p, t)' <=> Backed(p, t)
  BY DEF Backed, Alike
<1>2. /\ Left(p, t) => Left(p, t)'
      /\ Away(p, t) => Away(p, t)'
      /\ Installed(p, t) => Installed(p, t)'
  BY <1>1, SameTarget DEF Left, Away, Installed
<1> QED BY <1>1, <1>2, SameTarget DEF Cleared

\* The command ends, and what it says of the target is so.
LEMMA SayStands ==
  ASSUME ProcessShape, NEW p \in Procs, NEW t \in Ends, NEW word, Say(p, word), fs' = fs,
         Standing(p, t),
         t \in TargetSet(m[p].cmd) /\ word \in Words => Still(p, t),
         t \in TargetSet(m[p].cmd) /\ word = "ok" => Achieved(p, t)
  PROVE  Standing(p, t)'
<1>1. Locals(p) /\ m'[p].pc \in {"tidy", "done"} /\ m'[p].said = word
  BY SayDoes
<1>2. /\ Still(p, t)' <=> Still(p, t)
      /\ Empty(t)' <=> Empty(t)
      /\ Placed(p, t)' <=> Placed(p, t)
  BY <1>1, SameTarget DEF Locals
<1>3. Out \in Ends
  BY DEF Ends
<1>4. Achieved(p, t)' <=> Achieved(p, t)
  <2>1. Product(p, Out)' = Product(p, Out) /\ (Opened(p)' <=> Opened(p))
    BY <1>1, <1>3, SameTarget DEF Locals, Opened
  <2> QED BY <1>1, <1>2, <2>1 DEF Achieved, Locals, Alike
<1>5. t \in TargetSet(m[p].cmd) => TargetStands(p, t)'
  BY <1>1, <1>2, <1>4 DEF Standing, TargetStands, Locals, Alike
<1>6. PairStands(p, t)'
  BY <1>1 DEF PairStands
<1> QED BY <1>1, <1>5, <1>6 DEF Standing, BeforeSteps, Locals, Alike

\* Going on before the commit changes nothing.
LEMMA EarlyStands ==
  ASSUME ProcessShape, NEW p \in Procs, NEW t \in Ends, Alike(p), fs' = fs, Standing(p, t),
         m[p].pc \in BeforeSteps, m'[p].pc \in {"build", "buildhead", "recheck"},
         m'[p].said = "none"
  PROVE  Standing(p, t)'
<1>1. Still(p, t)' <=> Still(p, t)
  BY SameTarget
<1> QED BY <1>1 DEF Standing, TargetStands, PairStands, Words, Alike

\* Ending without a word leaves everything as it was.
LEMMA EndStands ==
  ASSUME NEW p \in Procs, NEW t \in Ends, Alike(p), fs' = fs, Standing(p, t),
         m'[p].pc \in {"done", "crashed"}, m'[p].said = m[p].said, m'[p].ino = m[p].ino
  PROVE  Standing(p, t)'
<1>1. /\ Still(p, t)' <=> Still(p, t)
      /\ Empty(t)' <=> Empty(t)
      /\ Placed(p, t)' <=> Placed(p, t)
  BY SameTarget
<1>2. Achieved(p, t)' <=> Achieved(p, t)
  <2>1. Out \in Ends
    BY DEF Ends
  <2>2. Product(p, Out)' = Product(p, Out) /\ (Opened(p)' <=> Opened(p))
    BY <2>1, SameTarget DEF Opened
  <2> QED BY <1>1, <2>2 DEF Achieved, Alike
<1>3. t \in TargetSet(m[p].cmd) => TargetStands(p, t)'
  BY <1>1, <1>2 DEF Standing, TargetStands, Alike
<1> QED BY <1>3 DEF Standing, PairStands, BeforeSteps, Alike

LEMMA TidyDoes ==
  ASSUME ProcessShape, NEW p \in Procs, Tidy(p)
  PROVE  Locals(p) /\ m'[p].pc = "done" /\ m'[p].said = m[p].said
<1> DEFINE r == [m[p] EXCEPT !.pc = "done", !.staging = FALSE]
<1>1. m'[p] = r
  BY DEF Tidy, ProcessShape
<1>2. /\ r.pc = "done" /\ r.said = m[p].said /\ r.cmd = m[p].cmd /\ r.base = m[p].base
      /\ r.head = m[p].head /\ r.before = m[p].before /\ r.step = m[p].step /\ r.kept = m[p].kept
      /\ r.moved = m[p].moved /\ r.failed = m[p].failed /\ r.ino = m[p].ino
  BY DEF ProcessShape, Fields
<1> HIDE DEF r
<1> QED BY <1>1, <1>2 DEF Locals, Alike

LEMMA ReadDoes ==
  ASSUME ProcessShape, NEW p \in Procs, NEW cmd, ReadSources(p, cmd)
  PROVE  /\ m[p].pc = "idle" /\ m'[p].pc = "prepare" /\ m'[p].said = m[p].said
         /\ m'[p].before = m[p].before /\ m'[p].step = m[p].step /\ m'[p].kept = m[p].kept
         /\ m'[p].moved = m[p].moved /\ m'[p].failed = m[p].failed /\ m'[p].ino = m[p].ino
<1> DEFINE head == IF cmd = "compare" THEN Text(Head) ELSE NoText
           r == [m[p] EXCEPT !.cmd = cmd, !.base = Text(Base), !.head = head, !.pc = "prepare"]
<1>1. m[p].pc = "idle" /\ m'[p] = r
  BY DEF ReadSources, ProcessShape
<1>2. /\ r.pc = "prepare" /\ r.said = m[p].said
      /\ r.before = m[p].before /\ r.step = m[p].step /\ r.kept = m[p].kept
      /\ r.moved = m[p].moved /\ r.failed = m[p].failed /\ r.ino = m[p].ino
  BY DEF ProcessShape, Fields
<1> HIDE DEF r
<1> QED BY <1>1, <1>2

LEMMA ReadyDoes ==
  ASSUME ProcessShape, NEW p \in Procs, NEW value,
         m' = [m EXCEPT ![p].pc = "build", ![p].staging = value]
  PROVE  Locals(p) /\ m'[p].pc = "build" /\ m'[p].said = m[p].said
<1> DEFINE r == [m[p] EXCEPT !.pc = "build", !.staging = value]
<1>1. m'[p] = r
  BY DEF ProcessShape
<1>2. /\ r.pc = "build" /\ r.said = m[p].said /\ r.cmd = m[p].cmd /\ r.base = m[p].base
      /\ r.head = m[p].head /\ r.before = m[p].before /\ r.step = m[p].step /\ r.kept = m[p].kept
      /\ r.moved = m[p].moved /\ r.failed = m[p].failed /\ r.ino = m[p].ino
  BY DEF ProcessShape, Fields
<1> HIDE DEF r
<1> QED BY <1>1, <1>2 DEF Locals, Alike

LEMMA OpenDoes ==
  ASSUME ProcessShape, NEW p \in Procs, NEW i,
         m' = [m EXCEPT ![p].pc = "fill", ![p].ino = i]
  PROVE  /\ Alike(p) /\ m'[p].pc = "fill" /\ m'[p].said = m[p].said /\ m'[p].ino = i
         /\ m'[p].kept = m[p].kept
<1> DEFINE r == [m[p] EXCEPT !.pc = "fill", !.ino = i]
<1>1. m'[p] = r
  BY DEF ProcessShape
<1>2. /\ r.pc = "fill" /\ r.said = m[p].said /\ r.cmd = m[p].cmd /\ r.base = m[p].base
      /\ r.head = m[p].head /\ r.before = m[p].before /\ r.ino = i /\ r.kept = m[p].kept
  BY DEF ProcessShape, Fields
<1> HIDE DEF r
<1> QED BY <1>1, <1>2 DEF Alike

LEMMA RecheckDoes ==
  ASSUME ProcessShape, NEW p \in Procs, Recheck(p)
  PROVE  \/ Say(p, "refused") /\ touched' = touched
         \/ /\ PathsAccepted(m[p].cmd)
            /\ m'[p].cmd = m[p].cmd /\ m'[p].said = m[p].said /\ m'[p].before = fs.entry
            /\ m'[p].step = m[p].step /\ m'[p].kept = m[p].kept /\ m'[p].moved = m[p].moved
            /\ m'[p].pc = CASE m[p].cmd = "compare" -> "preflight" [] m[p].cmd = "render" -> "open"
                            [] OTHER -> "commit"
<1> DEFINE next == CASE m[p].cmd = "compare" -> "preflight" [] m[p].cmd = "render" -> "open"
                     [] OTHER -> "commit"
           r == [m[p] EXCEPT !.pc = next, !.before = fs.entry]
<1>1. \/ Say(p, "refused") /\ touched' = touched
      \/ PathsAccepted(m[p].cmd) /\ m' = [m EXCEPT ![p].pc = next, ![p].before = fs.entry]
  BY DEF Recheck
<1>2. CASE PathsAccepted(m[p].cmd) /\ m' = [m EXCEPT ![p].pc = next, ![p].before = fs.entry]
  <2>1. m'[p] = r
    BY <1>2 DEF ProcessShape
  <2>2. /\ r.cmd = m[p].cmd /\ r.said = m[p].said /\ r.before = fs.entry
        /\ r.step = m[p].step /\ r.kept = m[p].kept /\ r.moved = m[p].moved /\ r.pc = next
    BY DEF ProcessShape, Fields
  <2> HIDE DEF r
  <2> QED BY <1>2, <2>1, <2>2
<1> QED BY <1>1, <1>2

\* Before the commit
LEMMA EarlyStepStands ==
  ASSUME ProcessShape, NEW p \in Procs, Course(p), NEW t \in Ends, Standing(p, t),
         \/ \E cmd \in Commands[p] : ReadSources(p, cmd)
         \/ Prepare(p) \/ Build(p) \/ BuildHead(p) \/ Report(p) \/ Rolled(p) \/ Tidy(p) \/ Crash(p)
  PROVE  Standing(p, t)'
<1>0. fs' = fs
  BY DEF ReadSources, Prepare, Build, BuildHead, Report, Rolled, Tidy, Crash, FilesStay
<1>1. CASE \E cmd \in Commands[p] : ReadSources(p, cmd)
  <2>1. /\ m[p].pc = "idle" /\ m'[p].pc = "prepare" /\ m'[p].said = m[p].said
        /\ m'[p].before = m[p].before
    BY <1>1, ReadDoes
  <2>2. m'[p].said = "none"
    BY <2>1 DEF Course
  <2>3. Still(p, t)'
    BY <1>0, <2>1 DEF Still, Standing, BeforeSteps
  <2> QED BY <2>1, <2>2, <2>3 DEF Standing, TargetStands, PairStands, Words
<1>2. CASE Prepare(p)
  <2>1. m[p].pc = "prepare" /\ Still(p, t) /\ m[p].said = "none" /\ m[p].pc \in BeforeSteps
    BY <1>2 DEF Prepare, Standing, BeforeSteps, Course
  <2>2. (\E word \in Words : Say(p, word))
        \/ \E value : m' = [m EXCEPT ![p].pc = "build", ![p].staging = value]
    BY <1>2 DEF Prepare, Words
  <2>3. ASSUME NEW word \in Words, Say(p, word) PROVE Standing(p, t)'
    BY <1>0, <2>1, <2>3, SayStands DEF Words
  <2> QED BY <1>0, <2>1, <2>2, <2>3, ReadyDoes, EarlyStands DEF Locals
<1>3. CASE Build(p) \/ BuildHead(p)
  <2>1. m[p].pc \in {"build", "buildhead"} /\ Still(p, t) /\ m[p].said = "none"
        /\ m[p].pc \in BeforeSteps
    BY <1>3 DEF Build, BuildHead, Standing, BeforeSteps, Course
  <2>2. \/ Say(p, "failed") \/ Goto(p, "buildhead") \/ Goto(p, "recheck")
        \/ m[p].cmd = "validate" /\ Say(p, "ok")
    BY <1>3 DEF Build, BuildHead
  <2>3. CASE Say(p, "failed")
    BY <1>0, <2>1, <2>3, SayStands
  <2>4. CASE m[p].cmd = "validate" /\ Say(p, "ok")
    <3>1. t \notin TargetSet(m[p].cmd)
      BY <2>4 DEF TargetSet, Targets
    <3> QED BY <1>0, <2>4, <3>1, SayStands
  <2>5. CASE Goto(p, "buildhead") \/ Goto(p, "recheck")
    BY <1>0, <2>1, <2>5, GotoDoes, EarlyStands DEF Locals
  <2> QED BY <2>2, <2>3, <2>4, <2>5
<1>4. CASE Report(p)
  <2>1. m[p].pc = "report" /\ Say(p, "ok")
    BY <1>4 DEF Report
  <2>2. t \in TargetSet(m[p].cmd) => Achieved(p, t)
    BY <2>1 DEF Standing, TargetStands
  <2> QED BY <1>0, <2>1, <2>2, SayStands DEF Words
<1>5. CASE Rolled(p)
  <2>1. CASE m[p].failed
    BY <1>0, <1>5, <2>1, SayStands DEF Rolled, Words
  <2>2. CASE ~m[p].failed
    <3>1. Still(p, t)
      BY <1>5, <2>2 DEF Rolled, Standing, PairStands
    <3> QED BY <1>0, <1>5, <2>2, <3>1, SayStands DEF Rolled
  <2> QED BY <2>1, <2>2
<1>6. CASE Tidy(p)
  BY <1>0, <1>6, TidyDoes, EndStands DEF Locals
<1>7. CASE Crash(p)
  <2>1. Goto(p, "crashed")
    BY <1>7 DEF Crash
  <2> QED BY <1>0, <2>1, GotoDoes, EndStands DEF Locals
<1> QED BY <1>1, <1>2, <1>3, <1>4, <1>5, <1>6, <1>7

\* The last look: from here on the command answers for the target.
LEMMA RecheckStands ==
  ASSUME NamesApart, ProcessShape, Disk, NEW p \in Procs, Course(p), NEW t \in Ends, Recheck(p),
         <<p, t>> \notin touched => Standing(p, t), <<p, t>> \notin touched'
  PROVE  Standing(p, t)'
<1>1. m[p].pc = "recheck" /\ fs' = fs /\ m[p].said = "none"
      /\ m[p].cmd \in {"compare", "render", "deliver", "migrate"}
  BY DEF Recheck, Course
<1>2. CASE Say(p, "refused") /\ touched' = touched
  BY <1>1, <1>2, SayStands DEF Standing, BeforeSteps
<1>3. CASE /\ PathsAccepted(m[p].cmd)
           /\ m'[p].cmd = m[p].cmd /\ m'[p].said = m[p].said /\ m'[p].before = fs.entry
           /\ m'[p].pc = CASE m[p].cmd = "compare" -> "preflight" [] m[p].cmd = "render" -> "open"
                           [] OTHER -> "commit"
  <2>1. /\ m'[p].pc \in {"preflight", "open", "commit"}
        /\ m'[p].pc # "commit" => m[p].cmd \in {"compare", "render"}
    BY <1>1, <1>3
  <2>2. Still(p, t)'
    BY <1>1, <1>3 DEF Still
  <2>3. m'[p].pc # "commit" /\ t \in TargetSet(m[p].cmd) => Plain(t)'
    BY <1>1, <1>3, <2>1, AcceptedTargets DEF Plain
  <2>4. t \in TargetSet(m'[p].cmd) => TargetStands(p, t)'
    BY <1>1, <1>3, <2>1, <2>2, <2>3 DEF TargetStands, Words
  <2> QED BY <2>1, <2>2, <2>4 DEF Standing, PairStands
<1> QED BY <1>2, <1>3, RecheckDoes

\* A staged file that has been moved is there.
LEMMA PutPlaces ==
  ASSUME FileShape, NEW p \in Procs, NEW t \in Ends, Alike(p),
         Puts(p, t, File(Candidate(p, t)), Product(p, t))
  PROVE  Placed(p, t)'
<1>1. t \in Paths
  BY CommandAssumption DEF Ends
<1>2. fs'.entry[t] = File(Candidate(p, t)) /\ fs'.held[Candidate(p, t)] = Product(p, t)
  BY <1>1 DEF Puts, FileShape
<1>3. Product(p, t)' = Product(p, t)
  BY DEF Product, Alike
<1> QED BY <1>2, <1>3 DEF Placed

LEMMA CommitStands ==
  ASSUME ProcessShape, FileShape, NEW p \in Procs, Course(p), NEW t \in Ends, Standing(p, t),
         Commit(p)
  PROVE  Standing(p, t)'
<1>1. PICK target : target = Targets(m[p].cmd)[1]
  OBVIOUS
<1>2. /\ m[p].cmd \in {"deliver", "migrate"} /\ target \in Ends /\ TargetSet(m[p].cmd) = {target}
      /\ m[p].said = "none" /\ Still(p, t)
  <2>1. m[p].cmd \in {"deliver", "migrate"} /\ m[p].said = "none" /\ Still(p, t)
    BY DEF Commit, Course, Standing, BeforeSteps
  <2>2. Targets("deliver") = <<Out>> /\ Targets("migrate") = <<Receipt>>
    BY DEF Targets
  <2> QED BY <1>1, <2>1, <2>2 DEF TargetSet, Ends
<1>3. CASE PutCandidate(p, target) /\ Goto(p, "report")
  <2>1. Locals(p) /\ m'[p].pc = "report" /\ m'[p].said = m[p].said
    BY <1>3, GotoDoes
  <2>2. Puts(p, target, File(Candidate(p, target)), Product(p, target))
    BY <1>2, <1>3, CandidateEffect
  <2>3. Placed(p, target)'
    BY <1>2, <2>1, <2>2, PutPlaces DEF Locals
  <2>4. t \in TargetSet(m[p].cmd) => TargetStands(p, t)'
    BY <1>2, <2>1, <2>3 DEF TargetStands, Achieved, Locals, Alike, Words
  <2> QED BY <2>1, <2>4 DEF Standing, PairStands, BeforeSteps, Locals, Alike
<1>4. CASE Say(p, "uncommitted") /\ FilesStay
  BY <1>2, <1>4, SayStands DEF FilesStay
<1> QED BY <1>1, <1>3, <1>4 DEF Commit

LEMMA OpenStands ==
  ASSUME NamesApart, Inv, Disk, NEW p \in Procs, Course(p), NEW t \in Ends, Standing(p, t),
         OpenOutput(p)
  PROVE  Standing(p, t)'
<1>0. ProcessShape /\ FileShape /\ Out \in Ends /\ Out \in Paths
  BY CommandAssumption DEF Inv, Ends
<1>1. m[p].pc = "open" /\ m[p].cmd = "render" /\ TargetSet(m[p].cmd) = {Out} /\ m[p].said = "none"
  BY DEF OpenOutput, Inv, Staged, Course, TargetSet, Targets
<1>2. t = Out => Plain(Out)
  BY <1>1 DEF Standing, TargetStands
<1>3. CASE Say(p, "unwritten") /\ FilesStay
  BY <1>0, <1>3, SayStands DEF FilesStay, Words
<1>4. ASSUME NEW i, m' = [m EXCEPT ![p].pc = "fill", ![p].ino = i],
             t = Out => fs'.entry[Out] = File(i) /\ i # There(Base)
      PROVE  Standing(p, t)'
  <2>1. Alike(p) /\ m'[p].pc = "fill" /\ m'[p].said = "none" /\ m'[p].ino = i
    BY <1>0, <1>1, <1>4, OpenDoes
  <2>2. t = Out => Opened(p)'
    BY <1>4, <2>1 DEF Opened
  <2> QED BY <1>1, <2>1, <2>2
          DEF Standing, TargetStands, PairStands, BeforeSteps, Words, Alike
<1>5. CASE /\ Puts(p, Out, File(Candidate(p, Out)), Partial)
           /\ m' = [m EXCEPT ![p].pc = "fill", ![p].ino = Candidate(p, Out)]
  <2>1. fs'.entry[Out] = File(Candidate(p, Out))
    BY <1>0, <1>5 DEF Puts, FileShape
  <2>2. Candidate(p, Out) # There(Base)
    BY CandidatesDiffer
  <2> QED BY <1>4, <1>5, <2>1, <2>2
<1>6. ASSUME NEW i \in OfTarget(Out), fs.entry[Out] = File(i), Writes(p, i, Partial),
             m' = [m EXCEPT ![p].pc = "fill", ![p].ino = i]
      PROVE  Standing(p, t)'
  BY <1>2, <1>4, <1>6 DEF Plain, Writes
<1>7. CASE /\ fs.entry[Out] = Link(Base)
           /\ m' = [m EXCEPT ![p].pc = "fill", ![p].ino = There(Base)]
  BY <1>2, <1>4, <1>7 DEF Plain
<1> QED BY <1>0, <1>3, <1>5, <1>6, <1>7, OpenEffect

LEMMA FillStands ==
  ASSUME Inv, NEW p \in Procs, Course(p), NEW t \in Ends, Standing(p, t), FillOutput(p)
  PROVE  Standing(p, t)'
<1>0. ProcessShape /\ FileShape /\ Out \in Ends
  BY DEF Inv, Ends
<1>1. /\ m[p].pc = "fill" /\ m[p].cmd = "render" /\ TargetSet(m[p].cmd) = {Out}
      /\ m[p].said = "none" /\ m[p].ino \in OfTarget(Out)
  BY DEF FillOutput, Inv, Staged, Course, TargetSet, Targets
<1>2. CASE Say(p, "unwritten") /\ FilesStay
  BY <1>0, <1>2, SayStands DEF FilesStay, Words
<1>3. CASE Writes(p, m[p].ino, Drawing(m[p].base)) /\ Goto(p, "report")
  <2>1. Locals(p) /\ m'[p].pc = "report" /\ m'[p].said = "none"
    BY <1>0, <1>1, <1>3, GotoDoes
  <2>2. t = Out => Opened(p)'
    BY <1>1, <1>3, <2>1 DEF Standing, Opened, Writes, Locals
  <2>3. fs'.held[m'[p].ino] = Product(p, Out)'
    BY <1>1, <1>3, <2>1 DEF Writes, Locals, Alike, Product
  <2>4. t = Out => Achieved(p, t)'
    BY <1>1, <2>1, <2>2, <2>3 DEF Achieved, Locals, Alike
  <2> QED BY <1>1, <2>1, <2>4
          DEF Standing, TargetStands, PairStands, BeforeSteps, Words, Locals, Alike
<1> QED BY <1>0, <1>1, <1>2, <1>3, FillEffect

-----------------------------------------------------------------------------
(* The commit of a pair and its rollback                                   *)

Tracks(p) == m'[p].kept = m[p].kept /\ m'[p].moved = m[p].moved /\ m'[p].failed = m[p].failed

\* On to the other target, or from the last one to the next step
Ahead(p, pc) ==
  /\ Alike(p) /\ m'[p].said = m[p].said
  /\ m'[p].step = IF m[p].step = 2 THEN 1 ELSE 2
  /\ m'[p].pc = IF m[p].step = 2 THEN pc ELSE m[p].pc
Back(p, pc) ==
  /\ Alike(p) /\ m'[p].said = m[p].said
  /\ m'[p].step = IF m[p].step = 1 THEN 2 ELSE 1
  /\ m'[p].pc = IF m[p].step = 1 THEN pc ELSE m[p].pc
Rolls(p) ==
  /\ Alike(p) /\ m'[p].said = m[p].said /\ m'[p].step = 2 /\ m'[p].pc = "undo" /\ Tracks(p)

LEMMA RollDoes ==
  ASSUME ProcessShape, NEW p \in Procs, Roll(p) PROVE Rolls(p)
<1> DEFINE r == [m[p] EXCEPT !.pc = "undo", !.step = 2]
<1>1. m'[p] = r
  BY DEF Roll, ProcessShape
<1>2. /\ r.pc = "undo" /\ r.said = m[p].said /\ r.cmd = m[p].cmd /\ r.base = m[p].base
      /\ r.head = m[p].head /\ r.before = m[p].before /\ r.step = 2 /\ r.kept = m[p].kept
      /\ r.moved = m[p].moved /\ r.failed = m[p].failed
  BY DEF ProcessShape, Fields
<1> HIDE DEF r
<1> QED BY <1>1, <1>2 DEF Rolls, Tracks, Alike

LEMMA TurnFields ==
  ASSUME ProcessShape, NEW p \in Procs, NEW pc, NEW r \in {After(p, pc), Before(p, pc)}
  PROVE  /\ DOMAIN r = Fields /\ r.said = m[p].said /\ r.cmd = m[p].cmd /\ r.base = m[p].base
         /\ r.head = m[p].head /\ r.before = m[p].before /\ r.kept = m[p].kept
         /\ r.moved = m[p].moved /\ r.failed = m[p].failed
         /\ r = After(p, pc) => /\ r.step = IF m[p].step = 2 THEN 1 ELSE 2
                                /\ r.pc = IF m[p].step = 2 THEN pc ELSE m[p].pc
         /\ r = Before(p, pc) => /\ r.step = IF m[p].step = 1 THEN 2 ELSE 1
                                 /\ r.pc = IF m[p].step = 1 THEN pc ELSE m[p].pc
  BY DEF ProcessShape, Fields, After, Before

LEMMA BackupDoes ==
  ASSUME ProcessShape, FileShape, NEW p \in Procs, Backup(p), NEW u, u = Pair[m[p].step]
  PROVE  \/ ~Exists(u) /\ Ahead(p, "install") /\ Tracks(p) /\ fs' = fs
         \/ /\ Exists(u) /\ Ahead(p, "install")
            /\ m'[p].kept = [m[p].kept EXCEPT ![u] = fs.entry[u]]
            /\ m'[p].moved = m[p].moved /\ m'[p].failed = m[p].failed
            /\ PutEntry(p, u, Absent)
         \/ Rolls(p) /\ fs' = fs
<1> DEFINE r == After(p, "install")
           s == [r EXCEPT !.kept[u] = fs.entry[u]]
<1>1. \/ ~Exists(u) /\ m' = [m EXCEPT ![p] = r] /\ fs' = fs
      \/ Exists(u) /\ m' = [m EXCEPT ![p] = s] /\ PutEntry(p, u, Absent)
      \/ Roll(p) /\ fs' = fs
  BY DEF Backup, FilesStay
<1>2. /\ DOMAIN r = Fields /\ r.said = m[p].said /\ r.cmd = m[p].cmd /\ r.base = m[p].base
      /\ r.head = m[p].head /\ r.before = m[p].before /\ r.kept = m[p].kept
      /\ r.moved = m[p].moved /\ r.failed = m[p].failed
      /\ r.step = IF m[p].step = 2 THEN 1 ELSE 2
      /\ r.pc = IF m[p].step = 2 THEN "install" ELSE m[p].pc
  <2> HIDE DEF r
  <2> QED BY TurnFields DEF r
<1> HIDE DEF r
<1>3. /\ s.said = r.said /\ s.cmd = r.cmd /\ s.base = r.base /\ s.head = r.head
      /\ s.before = r.before /\ s.kept = [r.kept EXCEPT ![u] = fs.entry[u]]
      /\ s.moved = r.moved /\ s.failed = r.failed /\ s.step = r.step /\ s.pc = r.pc
  BY <1>2 DEF Fields
<1> HIDE DEF s
<1>4. CASE ~Exists(u) /\ m' = [m EXCEPT ![p] = r] /\ fs' = fs
  <2>1. m'[p] = r
    BY <1>4 DEF ProcessShape
  <2> QED BY <1>2, <1>4, <2>1 DEF Ahead, Alike, Tracks
<1>5. CASE Exists(u) /\ m' = [m EXCEPT ![p] = s] /\ PutEntry(p, u, Absent)
  <2>1. m'[p] = s
    BY <1>5 DEF ProcessShape
  <2> QED BY <1>2, <1>3, <1>5, <2>1 DEF Ahead, Alike
<1> QED BY <1>1, <1>4, <1>5, RollDoes

LEMMA InstallDoes ==
  ASSUME ProcessShape, NEW p \in Procs, Install(p), NEW u, u = Pair[m[p].step]
  PROVE  \/ /\ PutCandidate(p, u) /\ Ahead(p, "report")
            /\ m'[p].kept = m[p].kept /\ m'[p].failed = m[p].failed
            /\ m'[p].moved = m[p].moved \cup {u}
         \/ Rolls(p) /\ fs' = fs
<1> DEFINE r == After(p, "report")
           s == [r EXCEPT !.moved = @ \cup {u}]
<1>1. \/ PutCandidate(p, u) /\ m' = [m EXCEPT ![p] = s]
      \/ Roll(p) /\ fs' = fs
  BY DEF Install, FilesStay
<1>2. /\ DOMAIN r = Fields /\ r.said = m[p].said /\ r.cmd = m[p].cmd /\ r.base = m[p].base
      /\ r.head = m[p].head /\ r.before = m[p].before /\ r.kept = m[p].kept
      /\ r.moved = m[p].moved /\ r.failed = m[p].failed
      /\ r.step = IF m[p].step = 2 THEN 1 ELSE 2
      /\ r.pc = IF m[p].step = 2 THEN "report" ELSE m[p].pc
  <2> HIDE DEF r
  <2> QED BY TurnFields DEF r
<1> HIDE DEF r
<1>3. /\ s.said = r.said /\ s.cmd = r.cmd /\ s.base = r.base /\ s.head = r.head
      /\ s.before = r.before /\ s.kept = r.kept /\ s.moved = r.moved \cup {u}
      /\ s.failed = r.failed /\ s.step = r.step /\ s.pc = r.pc
  BY <1>2 DEF Fields
<1> HIDE DEF s
<1>4. CASE PutCandidate(p, u) /\ m' = [m EXCEPT ![p] = s]
  <2>1. m'[p] = s
    BY <1>4 DEF ProcessShape
  <2> QED BY <1>2, <1>3, <1>4, <2>1 DEF Ahead, Alike
<1> QED BY <1>1, <1>4, RollDoes

LEMMA TurnDoes ==
  ASSUME ProcessShape, NEW p \in Procs, NEW pc
  PROVE  /\ m' = [m EXCEPT ![p] = Before(p, pc)] => Back(p, pc) /\ Tracks(p)
         /\ m' = [m EXCEPT ![p] = [Before(p, pc) EXCEPT !.failed = TRUE]] =>
              /\ Back(p, pc) /\ m'[p].failed
              /\ m'[p].kept = m[p].kept /\ m'[p].moved = m[p].moved
<1> DEFINE r == Before(p, pc)
           s == [r EXCEPT !.failed = TRUE]
<1>1. /\ DOMAIN r = Fields /\ r.said = m[p].said /\ r.cmd = m[p].cmd /\ r.base = m[p].base
      /\ r.head = m[p].head /\ r.before = m[p].before /\ r.kept = m[p].kept
      /\ r.moved = m[p].moved /\ r.failed = m[p].failed
      /\ r.step = IF m[p].step = 1 THEN 2 ELSE 1
      /\ r.pc = IF m[p].step = 1 THEN pc ELSE m[p].pc
  <2> HIDE DEF r
  <2> QED BY TurnFields DEF r
<1> HIDE DEF r
<1>2. /\ s.said = r.said /\ s.cmd = r.cmd /\ s.base = r.base /\ s.head = r.head
      /\ s.before = r.before /\ s.kept = r.kept /\ s.moved = r.moved
      /\ s.failed /\ s.step = r.step /\ s.pc = r.pc
  BY <1>1 DEF Fields
<1> HIDE DEF s
<1>3. m' = [m EXCEPT ![p] = r] => Back(p, pc) /\ Tracks(p)
  BY <1>1 DEF ProcessShape, Back, Alike, Tracks
<1>4. m' = [m EXCEPT ![p] = s] =>
        Back(p, pc) /\ m'[p].failed /\ m'[p].kept = m[p].kept /\ m'[p].moved = m[p].moved
  BY <1>1, <1>2 DEF ProcessShape, Back, Alike
<1> QED BY <1>3, <1>4 DEF r, s

\* In the middle of a pair the target is as it was, installed or away.
LEMMA MidStands ==
  ASSUME NEW p \in Procs, NEW t \in Ends,
         m'[p].pc \in {"backup", "install", "undo", "restore", "rolled"},
         m'[p].cmd = "compare", m'[p].said = "none", PairStands(p, t)',
         Still(p, t)' \/ Placed(p, t)' \/ Empty(t)'
  PROVE  Standing(p, t)'
<1>1. TargetStands(p, t)'
  BY DEF TargetStands, Words
<1> QED BY <1>1 DEF Standing, BeforeSteps

LEMMA Elsewhere ==
  ASSUME NamesApart, FileShape, NEW p \in Procs, NEW t \in Ends, NEW u \in Ends, u # t,
         NEW e, NEW c, Puts(p, u, e, c)
  PROVE  /\ fs'.entry[t] = fs.entry[t]
         /\ fs'.held[Candidate(p, t)] = fs.held[Candidate(p, t)]
<1>1. t \in Paths /\ u \in Paths
  BY CommandAssumption DEF Ends
<1>2. Candidate(p, t) # Candidate(p, u) /\ Candidate(p, t) \in Inodes
  BY InodesApart
<1> QED BY <1>1, <1>2 DEF Puts, FileShape

LEMMA PutHere ==
  ASSUME FileShape, NEW p \in Procs, NEW t \in Ends, NEW e, NEW c, Puts(p, t, e, c)
  PROVE  fs'.entry[t] = e
<1>1. t \in Paths
  BY CommandAssumption DEF Ends
<1> QED BY <1>1 DEF Puts, FileShape

\* The rollback begins with everything where it is.
LEMMA RollStands ==
  ASSUME NEW p \in Procs, NEW t \in Ends, Rolls(p), fs' = fs,
         m[p].cmd = "compare", m[p].said = "none",
         Left(p, t) \/ Away(p, t) \/ Installed(p, t)
  PROVE  Standing(p, t)'
<1>1. Left(p, t)' \/ Away(p, t)' \/ Installed(p, t)'
  BY SamePlace DEF Rolls, Tracks
<1>2. PairStands(p, t)'
  BY <1>1 DEF PairStands, Rolls, Number
<1> QED BY <1>1, <1>2, MidStands DEF Rolls, Alike, Left, Away, Installed

LEMMA PreflightStands ==
  ASSUME ProcessShape, NEW p \in Procs, Course(p), NEW t \in Ends, Standing(p, t),
         m[p].cmd = "compare", Preflight(p)
  PROVE  Standing(p, t)'
<1>1. m[p].pc = "preflight" /\ fs' = fs /\ m[p].said = "none" /\ Still(p, t) /\ m[p].step = 1
      /\ m[p].kept[t] = Absent /\ m[p].moved = {} /\ t \in TargetSet("compare")
  BY DEF Preflight, FilesStay, Course, Standing, BeforeSteps, Ends, TargetSet, Targets
<1>2. CASE Say(p, "uncommitted")
  BY <1>1, <1>2, SayStands
<1>3. CASE Goto(p, "backup")
  <2>1. Locals(p) /\ m'[p].pc = "backup" /\ m'[p].said = "none"
    BY <1>1, <1>3, GotoDoes
  <2>2. Left(p, t) /\ Plain(t)
    BY <1>1 DEF Left, Standing, TargetStands
  <2>3. Left(p, t)' /\ Plain(t)'
    BY <1>1, <2>1, <2>2, SamePlace, SameTarget DEF Locals
  <2>4. PairStands(p, t)'
    BY <1>1, <2>1, <2>3 DEF PairStands, Locals, Number
  <2> QED BY <2>1, <2>3, <2>4, MidStands DEF Locals, Alike, Left
<1> QED BY <1>2, <1>3 DEF Preflight

\* A target that does not exist has nothing, once it is known not to be a link.
LEMMA NotThere ==
  ASSUME NamesApart, Disk, NEW t \in Ends, Plain(t), ~Exists(t) PROVE Empty(t)
<1>1. t # Loop /\ Canonical(fs, t) = t /\ fs.entry[t] \in Entries(t)
  BY CommandAssumption, OutTarget DEF Ends, Plain, Disk
<1> QED BY <1>1, EntryKinds DEF Exists, Is, Empty

LEMMA BackupStands ==
  ASSUME NamesApart, Inv, Disk, NEW p \in Procs, Course(p), NEW t \in Ends, Standing(p, t),
         Backup(p)
  PROVE  Standing(p, t)'
<1>1. PICK u : u = Pair[m[p].step]
  OBVIOUS
<1>2. /\ ProcessShape /\ FileShape /\ u \in Ends /\ Number(u) = m[p].step
      /\ m[p].pc = "backup" /\ m[p].cmd = "compare" /\ m[p].said = "none" /\ m[p].step \in {1, 2}
  BY <1>1, PairAt DEF Inv, Backup, Staged, PairSteps, Course, ProcessShape
<1>3. IF m[p].step <= Number(t) THEN Left(p, t) /\ Plain(t) ELSE Away(p, t)
  BY <1>2 DEF Standing, PairStands
<1>4. CASE Rolls(p) /\ fs' = fs
  BY <1>2, <1>3, <1>4, RollStands
<1>5. ASSUME t # u, Ahead(p, "install"), m'[p].kept[t] = m[p].kept[t], m'[p].moved = m[p].moved,
             m'[p].failed = m[p].failed, fs'.entry[t] = fs.entry[t],
             fs'.held[Candidate(p, t)] = fs.held[Candidate(p, t)]
      PROVE  Standing(p, t)'
  <2>1. /\ Left(p, t) => Left(p, t)'
        /\ Away(p, t) => Away(p, t)'
        /\ Plain(t)' <=> Plain(t)
    BY <1>5, SamePlace, SameTarget DEF Ahead
  <2>2. Number(t) = 3 - m[p].step
    BY <1>2, <1>5 DEF Number, Ends
  <2>3. PairStands(p, t)' /\ (Left(p, t)' \/ Away(p, t)')
    BY <1>2, <1>3, <1>5, <2>1, <2>2 DEF PairStands, Ahead, Number
  <2> QED BY <1>2, <1>5, <2>3, MidStands DEF Ahead, Alike, Left, Away
<1>6. ASSUME t = u, Ahead(p, "install"), Away(p, t)' PROVE Standing(p, t)'
  <2>1. PairStands(p, t)'
    BY <1>2, <1>6 DEF PairStands, Ahead, Number
  <2> QED BY <1>2, <1>6, <2>1, MidStands DEF Ahead, Alike, Away
<1>7. CASE ~Exists(u) /\ Ahead(p, "install") /\ Tracks(p) /\ fs' = fs
  <2>1. CASE t # u
    BY <1>5, <1>7, <2>1 DEF Tracks
  <2>2. CASE t = u
    <3>1. Away(p, t)
      BY <1>2, <1>3, <1>7, <2>2, NotThere DEF Left, Away, Still, Empty, Backed
    <3> QED BY <1>6, <1>7, <2>2, <3>1, SamePlace DEF Ahead, Tracks
  <2> QED BY <2>1, <2>2
<1>8. CASE /\ Exists(u) /\ Ahead(p, "install")
           /\ m'[p].kept = [m[p].kept EXCEPT ![u] = fs.entry[u]]
           /\ m'[p].moved = m[p].moved /\ m'[p].failed = m[p].failed
           /\ PutEntry(p, u, Absent)
  <2>1. Puts(p, u, Absent, fs.held[Candidate(p, u)])
    BY <1>2, <1>8, PutEffect
  <2>2. CASE t # u
    BY <1>2, <1>5, <1>8, <2>1, <2>2, Elsewhere
  <2>3. CASE t = u
    <3>1. fs'.entry[t] = Absent /\ m'[p].kept[t] = fs.entry[t]
      BY <1>2, <1>8, <2>1, <2>3, PutHere DEF ProcessShape, Ends
    <3>2. Left(p, t)
      BY <1>2, <1>3, <2>3
    <3>3. Away(p, t)'
      BY <1>8, <3>1, <3>2 DEF Left, Still, Away, Empty, Backed, Ahead, Alike
    <3> QED BY <1>6, <1>8, <2>3, <3>3
  <2> QED BY <2>2, <2>3
<1> QED BY <1>1, <1>2, <1>4, <1>7, <1>8, BackupDoes

LEMMA InstallStands ==
  ASSUME NamesApart, Inv, Disk, NEW p \in Procs, Course(p), NEW t \in Ends, Standing(p, t),
         Install(p)
  PROVE  Standing(p, t)'
<1>1. PICK u : u = Pair[m[p].step]
  OBVIOUS
<1>2. /\ ProcessShape /\ FileShape /\ u \in Ends /\ Number(u) = m[p].step
      /\ m[p].pc = "install" /\ m[p].cmd = "compare" /\ m[p].said = "none" /\ m[p].step \in {1, 2}
  BY <1>1, PairAt DEF Inv, Install, Staged, PairSteps, Course, ProcessShape
<1>3. IF m[p].step <= Number(t) THEN Away(p, t) ELSE Installed(p, t)
  BY <1>2 DEF Standing, PairStands
<1>4. CASE Rolls(p) /\ fs' = fs
  BY <1>2, <1>3, <1>4, RollStands
<1>5. CASE /\ PutCandidate(p, u) /\ Ahead(p, "report")
           /\ m'[p].kept = m[p].kept /\ m'[p].failed = m[p].failed
           /\ m'[p].moved = m[p].moved \cup {u}
  <2>1. Puts(p, u, File(Candidate(p, u)), Product(p, u))
    BY <1>2, <1>5, CandidateEffect
  <2>2. t = u => Installed(p, t)'
    <3> SUFFICES ASSUME t = u PROVE Installed(p, t)'
      OBVIOUS
    <3>1. Placed(p, t)'
      BY <1>2, <1>5, <2>1, PutPlaces DEF Ahead
    <3>2. Backed(p, t)
      BY <1>2, <1>3 DEF Away
    <3> QED BY <1>5, <3>1, <3>2 DEF Installed, Backed, Ahead, Alike
  <2>3. t # u => /\ Away(p, t) => Away(p, t)'
                 /\ Installed(p, t) => Installed(p, t)'
    BY <1>2, <1>5, <2>1, Elsewhere, SamePlace DEF Ahead
  <2>4. t # u => Number(t) = 3 - m[p].step
    BY <1>2 DEF Number, Ends
  <2>5. CASE m[p].step = 1
    <3>1. m'[p].pc = "install" /\ m'[p].step = 2
      BY <1>2, <1>5, <2>5 DEF Ahead
    <3>2. IF t = u THEN Installed(p, t)' ELSE Away(p, t)'
      BY <1>3, <2>2, <2>3, <2>4, <2>5
    <3>3. PairStands(p, t)'
      BY <1>2, <2>4, <2>5, <3>1, <3>2 DEF PairStands, Number
    <3> QED BY <1>2, <1>5, <3>1, <3>2, <3>3, MidStands DEF Ahead, Alike, Installed, Away
  <2>6. CASE m[p].step = 2
    <3>1. m'[p].pc = "report" /\ m'[p].said = "none" /\ m'[p].cmd = "compare"
      BY <1>2, <1>5, <2>6 DEF Ahead, Alike
    <3>2. Placed(p, t)'
      BY <1>3, <2>2, <2>3, <2>4, <2>6 DEF Installed
    <3>3. TargetStands(p, t)'
      BY <3>1, <3>2 DEF TargetStands, Achieved, Words
    <3> QED BY <3>1, <3>3 DEF Standing, PairStands, BeforeSteps
  <2> QED BY <1>2, <2>5, <2>6
<1> QED BY <1>1, <1>2, <1>4, <1>5, InstallDoes

\* One turn of a loop of the rollback that leaves target t alone
LEMMA BackElsewhere ==
  ASSUME NamesApart, NEW p \in Procs, NEW t \in Ends, Standing(p, t), ProcessShape,
         m[p].pc \in {"undo", "restore"}, m[p].cmd = "compare", m[p].said = "none",
         Back(p, IF m[p].pc = "undo" THEN "restore" ELSE "rolled"),
         Number(t) # m[p].step, m'[p].kept = m[p].kept, m'[p].moved = m[p].moved,
         m[p].failed => m'[p].failed, fs'.entry[t] = fs.entry[t],
         fs'.held[Candidate(p, t)] = fs.held[Candidate(p, t)]
  PROVE  Standing(p, t)'
<1>1. m[p].step \in {1, 2} /\ Number(t) = 3 - m[p].step /\ t \in TargetSet(m[p].cmd)
  BY DEF ProcessShape, Number, Ends, TargetSet, Targets
<1>2. /\ Left(p, t) => Left(p, t)'
      /\ Away(p, t) => Away(p, t)'
      /\ Installed(p, t) => Installed(p, t)'
      /\ Cleared(p, t) => Cleared(p, t)'
  BY SamePlace DEF Back
<1>3. /\ Still(p, t)' <=> Still(p, t)
      /\ Placed(p, t)' <=> Placed(p, t)
      /\ Empty(t)' <=> Empty(t)
  BY SameTarget DEF Back
<1>4. Still(p, t)' \/ Placed(p, t)' \/ Empty(t)'
  BY <1>1, <1>3 DEF Standing, TargetStands
<1>5. PairStands(p, t)'
  <2>1. PairStands(p, t)
    BY DEF Standing
  <2>2. Number(t)' = Number(t)
    BY DEF Number
  <2>3. CASE m[p].pc = "undo"
    BY <1>1, <1>2, <2>1, <2>2, <2>3 DEF PairStands, Back
  <2>4. CASE m[p].pc = "restore"
    BY <1>1, <1>2, <1>3, <2>1, <2>2, <2>4 DEF PairStands, Back
  <2> QED BY <2>3, <2>4
<1> QED BY <1>4, <1>5, MidStands DEF Back, Alike

LEMMA UndoStands ==
  ASSUME NamesApart, Inv, Disk, NEW p \in Procs, Course(p), NEW t \in Ends, Standing(p, t),
         Undo(p)
  PROVE  Standing(p, t)'
<1>1. PICK u : u = Pair[m[p].step]
  OBVIOUS
<1>2. /\ ProcessShape /\ FileShape /\ u \in Ends /\ Number(u) = m[p].step
      /\ m[p].pc = "undo" /\ m[p].cmd = "compare" /\ m[p].said = "none" /\ m[p].step \in {1, 2}
  BY <1>1, PairAt DEF Inv, Undo, Staged, PairSteps, Course, ProcessShape
<1>3. \/ u \notin m[p].moved /\ Back(p, "restore") /\ Tracks(p) /\ fs' = fs
      \/ u \in m[p].moved /\ Back(p, "restore") /\ Tracks(p) /\ PutEntry(p, u, Absent)
      \/ /\ u \in m[p].moved /\ Back(p, "restore") /\ m'[p].failed /\ fs' = fs
         /\ m'[p].kept = m[p].kept /\ m'[p].moved = m[p].moved
  BY <1>1, <1>2, TurnDoes DEF Undo, FilesStay
<1>4. CASE t # u
  <2>1. Number(t) # m[p].step
    BY <1>2, <1>4 DEF Number, Ends
  <2>2. /\ fs'.entry[t] = fs.entry[t]
        /\ fs'.held[Candidate(p, t)] = fs.held[Candidate(p, t)]
    BY <1>2, <1>3, <1>4, PutEffect, Elsewhere
  <2> QED BY <1>2, <1>3, <2>1, <2>2, BackElsewhere DEF Tracks
<1>5. CASE t = u
  <2>1. Left(p, t) \/ Away(p, t) \/ Installed(p, t)
    BY <1>2, <1>5 DEF Standing, PairStands
  <2>2. /\ m'[p].step = 3 - Number(t)
        /\ m'[p].pc = IF Number(t) = 1 THEN "restore" ELSE "undo"
    BY <1>2, <1>3, <1>5 DEF Back
  <2>3. ASSUME Cleared(p, t)', Still(p, t)' \/ Placed(p, t)' \/ Empty(t)' PROVE Standing(p, t)'
    <3>1. PairStands(p, t)'
      BY <1>2, <1>5, <2>2, <2>3 DEF PairStands, Number
    <3>2. Back(p, "restore")
      BY <1>3
    <3>3. m'[p].cmd = "compare" /\ m'[p].said = "none" /\ m'[p].pc \in {"undo", "restore"}
      BY <1>2, <2>2, <3>2 DEF Back, Alike
    <3> QED BY <2>3, <3>1, <3>3, MidStands
  <2>4. CASE u \notin m[p].moved /\ Back(p, "restore") /\ Tracks(p) /\ fs' = fs
    <3>1. Cleared(p, t) /\ (Still(p, t) \/ Empty(t))
      BY <1>5, <2>1, <2>4 DEF Left, Away, Installed, Cleared
    <3> QED BY <2>3, <2>4, <3>1, SamePlace, SameTarget DEF Back, Tracks
  <2>5. CASE u \in m[p].moved /\ Back(p, "restore") /\ Tracks(p) /\ PutEntry(p, u, Absent)
    <3>1. Backed(p, t)
      BY <1>5, <2>1, <2>5 DEF Left, Away, Installed
    <3>2. fs'.entry[t] = Absent
      BY <1>2, <1>5, <2>5, PutEffect, PutHere
    <3>3. Empty(t)' /\ Backed(p, t)'
      BY <2>5, <3>1, <3>2 DEF Empty, Backed, Back, Alike, Tracks
    <3> QED BY <2>3, <3>3 DEF Cleared
  <2>6. CASE /\ u \in m[p].moved /\ Back(p, "restore") /\ m'[p].failed /\ fs' = fs
             /\ m'[p].kept = m[p].kept /\ m'[p].moved = m[p].moved
    <3>1. Backed(p, t) /\ Placed(p, t)
      BY <1>5, <2>1, <2>6 DEF Left, Away, Installed
    <3>2. Backed(p, t)' /\ Placed(p, t)'
      BY <2>6, <3>1, SameTarget DEF Backed, Back, Alike
    <3> QED BY <2>3, <2>6, <3>2 DEF Cleared
  <2> QED BY <1>3, <2>4, <2>5, <2>6
<1> QED BY <1>4, <1>5

LEMMA RestoreStands ==
  ASSUME NamesApart, Inv, Disk, NEW p \in Procs, Course(p), NEW t \in Ends, Standing(p, t),
         Restore(p)
  PROVE  Standing(p, t)'
<1>1. PICK u : u = Pair[m[p].step]
  OBVIOUS
<1>2. /\ ProcessShape /\ FileShape /\ u \in Ends /\ Number(u) = m[p].step
      /\ m[p].pc = "restore" /\ m[p].cmd = "compare" /\ m[p].said = "none" /\ m[p].step \in {1, 2}
  BY <1>1, PairAt DEF Inv, Restore, Staged, PairSteps, Course, ProcessShape
<1>3. \/ m[p].kept[u] = Absent /\ Back(p, "rolled") /\ Tracks(p) /\ fs' = fs
      \/ m[p].kept[u] # Absent /\ Back(p, "rolled") /\ Tracks(p) /\ PutEntry(p, u, m[p].kept[u])
      \/ /\ m[p].kept[u] # Absent /\ Back(p, "rolled") /\ m'[p].failed /\ fs' = fs
         /\ m'[p].kept = m[p].kept /\ m'[p].moved = m[p].moved
  BY <1>1, <1>2, TurnDoes DEF Restore, FilesStay
<1>4. CASE t # u
  <2>1. Number(t) # m[p].step
    BY <1>2, <1>4 DEF Number, Ends
  <2>2. /\ fs'.entry[t] = fs.entry[t]
        /\ fs'.held[Candidate(p, t)] = fs.held[Candidate(p, t)]
    BY <1>2, <1>3, <1>4, PutEffect, Elsewhere
  <2> QED BY <1>2, <1>3, <2>1, <2>2, BackElsewhere DEF Tracks
<1>5. CASE t = u
  <2>1. Cleared(p, t) /\ (Still(p, t) \/ Placed(p, t) \/ Empty(t))
    BY <1>2, <1>5 DEF Standing, PairStands, TargetStands, TargetSet, Targets, Ends
  <2>2. /\ m'[p].step = 3 - Number(t)
        /\ m'[p].pc = IF Number(t) = 1 THEN "rolled" ELSE "restore"
    BY <1>2, <1>3, <1>5 DEF Back
  <2>3. ASSUME Still(p, t)' \/ m'[p].failed, Still(p, t)' \/ Placed(p, t)' \/ Empty(t)'
        PROVE  Standing(p, t)'
    <3>1. PairStands(p, t)'
      BY <1>2, <1>5, <2>2, <2>3 DEF PairStands, Number
    <3>2. Back(p, "rolled")
      BY <1>3
    <3>3. m'[p].cmd = "compare" /\ m'[p].said = "none" /\ m'[p].pc \in {"restore", "rolled"}
      BY <1>2, <2>2, <3>2 DEF Back, Alike
    <3> QED BY <2>3, <3>1, <3>3, MidStands
  <2>4. CASE m[p].kept[u] = Absent /\ Back(p, "rolled") /\ Tracks(p) /\ fs' = fs
    <3>1. Still(p, t) \/ m[p].failed
      BY <1>5, <2>1, <2>4 DEF Cleared, Left, Backed, Empty, Still
    <3> QED BY <2>1, <2>3, <2>4, <3>1, SameTarget DEF Back, Tracks
  <2>5. CASE m[p].kept[u] # Absent /\ Back(p, "rolled") /\ PutEntry(p, u, m[p].kept[u])
    <3>1. Backed(p, t)
      BY <1>5, <2>1, <2>5 DEF Cleared, Left
    <3>2. fs'.entry[t] = m[p].kept[t]
      BY <1>2, <1>5, <2>5, PutEffect, PutHere
    <3>3. Still(p, t)'
      BY <2>5, <3>1, <3>2 DEF Still, Backed, Back, Alike
    <3> QED BY <2>3, <3>3
  <2>6. CASE /\ m[p].kept[u] # Absent /\ Back(p, "rolled") /\ m'[p].failed /\ fs' = fs
             /\ m'[p].kept = m[p].kept /\ m'[p].moved = m[p].moved
    BY <2>1, <2>3, <2>6, SameTarget DEF Back
  <2> QED BY <1>3, <2>4, <2>5, <2>6
<1> QED BY <1>4, <1>5

-----------------------------------------------------------------------------
(* The invariant                                                           *)

LEMMA TruthfulInit == Init /\ NamesApart => Truthful
<1> SUFFICES ASSUME Init, NamesApart PROVE Truthful
  OBVIOUS
<1>1. \A p \in Procs : m[p] = NoProcess
  BY DEF Init
<1>2. ASSUME NEW p \in Procs
      PROVE  /\ m[p].pc = "idle" /\ m[p].cmd = "none" /\ m[p].step = 1 /\ m[p].moved = {}
             /\ m[p].said = "none" /\ m[p].before = fs.entry
             /\ \A t \in Ends : m[p].kept[t] = Absent
  BY <1>1 DEF NoProcess, Ends
<1>3. PICK old \in BOOLEAN :
        fs.entry = [q \in Paths |-> IF q \in {Base, Head} \/ (old /\ q \in {Out, Receipt})
                                    THEN File(There(q)) ELSE Absent]
  BY DEF Init
<1>4. Disk
  <2>1. Sources \subseteq Paths /\ Ends \subseteq Paths
    BY CommandAssumption DEF Sources, Ends
  <2>2. \A t \in Ends : fs.entry[t] \in {Absent, File(There(t))}
    BY <1>3, <2>1 DEF Ends
  <2>3. \A t \in Ends : fs.entry[t] \in Entries(t)
    BY <2>2 DEF Entries, OfTarget
  <2> QED BY <1>3, <2>1, <2>3 DEF Disk, Sources, Ends
<1>5. ASSUME NEW p \in Procs PROVE Course(p)
  <2>1. \A t \in Ends : m[p].kept[t] \in Entries(t)
    BY <1>2 DEF Entries
  <2> QED BY <1>2, <2>1 DEF Course, BeforeSteps
<1>6. ASSUME NEW p \in Procs, NEW t \in Ends PROVE Standing(p, t)
  <2>1. Still(p, t)
    BY <1>2 DEF Still
  <2>2. TargetStands(p, t)
    BY <1>2, <2>1 DEF TargetStands, Words
  <2> QED BY <1>2, <2>1, <2>2 DEF Standing, PairStands
<1> QED BY <1>4, <1>5, <1>6 DEF Truthful

LEMMA KeptEntries ==
  ASSUME ProcessShape, Disk, NEW p \in Procs, Course(p), Step(p) \/ Crash(p)
  PROVE  \A t \in Ends : m'[p].kept[t] \in Entries(t)
  BY StepBackups DEF Ends, Disk, Course

LEMMA CourseNext ==
  ASSUME NamesApart, Inv, Disk, NEW p \in Procs, Course(p), Step(p) \/ Crash(p)
  PROVE  Course(p)'
<1>0. ProcessShape /\ FileShape /\ \A t \in Ends : m'[p].kept[t] \in Entries(t)
  BY KeptEntries DEF Inv
<1>1. ASSUME m'[p].pc \in {"tidy", "done", "crashed"} PROVE Course(p)'
  BY <1>0, <1>1 DEF Course, BeforeSteps
<1>2. ASSUME m'[p].pc \in {"backup", "install", "undo", "restore", "rolled", "report"},
             m'[p].said = m[p].said, m[p].pc \notin {"tidy", "done", "crashed"}
      PROVE  Course(p)'
  BY <1>0, <1>2 DEF Course, BeforeSteps
<1>3. ASSUME Locals(p), m[p].pc \in {"prepare", "build", "buildhead"}, m'[p].said = m[p].said,
             \/ m'[p].pc = "build"
             \/ m'[p].pc = "buildhead" /\ m[p].cmd = "compare"
             \/ m'[p].pc = "recheck" /\ m[p].cmd \in {"compare", "render", "deliver", "migrate"}
      PROVE  Course(p)'
  BY <1>0, <1>3 DEF Course, BeforeSteps, Locals, Alike
<1>4. CASE \E word : Say(p, word)
  BY <1>0, <1>1, <1>4, SayDoes
<1>5. CASE \E cmd \in Commands[p] : ReadSources(p, cmd)
  <2>1. /\ m[p].pc = "idle" /\ m'[p].pc = "prepare" /\ m'[p].said = m[p].said
        /\ m'[p].step = m[p].step /\ m'[p].kept = m[p].kept /\ m'[p].moved = m[p].moved
    BY <1>0, <1>5, ReadDoes
  <2> QED BY <1>0, <2>1 DEF Course, BeforeSteps
<1>6. CASE Prepare(p)
  <2>1. (\E word : Say(p, word))
        \/ \E value : m' = [m EXCEPT ![p].pc = "build", ![p].staging = value]
    BY <1>6 DEF Prepare
  <2> QED BY <1>0, <1>3, <1>4, <1>6, <2>1, ReadyDoes DEF Prepare
<1>7. CASE Build(p)
  <2>1. \/ \E word : Say(p, word)
        \/ m[p].cmd = "compare" /\ Goto(p, "buildhead")
        \/ m[p].cmd \in {"render", "deliver", "migrate"} /\ Goto(p, "recheck")
    BY <1>7 DEF Build
  <2> QED BY <1>0, <1>3, <1>4, <1>7, <2>1, GotoDoes DEF Build
<1>8. CASE BuildHead(p)
  <2>1. m[p].pc = "buildhead" /\ m[p].cmd = "compare"
    BY <1>8 DEF BuildHead, Course
  <2> QED BY <1>0, <1>3, <1>4, <1>8, <2>1, GotoDoes DEF BuildHead
<1>9. CASE Recheck(p)
  <2>1. m[p].pc = "recheck" /\ m[p].cmd \in {"compare", "render", "deliver", "migrate"}
        /\ m[p].said = "none"
    BY <1>9 DEF Recheck, Course
  <2>2. CASE /\ m'[p].cmd = m[p].cmd /\ m'[p].said = m[p].said
             /\ m'[p].step = m[p].step /\ m'[p].kept = m[p].kept /\ m'[p].moved = m[p].moved
             /\ m'[p].pc = CASE m[p].cmd = "compare" -> "preflight"
                             [] m[p].cmd = "render" -> "open" [] OTHER -> "commit"
    <3>1. /\ m'[p].pc \in {"preflight", "open", "commit"}
          /\ m'[p].pc = "commit" => m[p].cmd \in {"deliver", "migrate"}
      BY <2>1, <2>2
    <3> QED BY <1>0, <2>1, <2>2, <3>1 DEF Course, BeforeSteps
  <2> QED BY <1>0, <1>4, <1>9, <2>2, RecheckDoes
<1>10. CASE Commit(p) \/ FillOutput(p) \/ Preflight(p)
  <2>1. m[p].pc \in {"commit", "fill", "preflight"}
    BY <1>10 DEF Commit, FillOutput, Preflight
  <2>2. (\E word : Say(p, word)) \/ Goto(p, "report") \/ Goto(p, "backup")
    BY <1>10 DEF Commit, FillOutput, Preflight
  <2> QED BY <1>0, <1>2, <1>4, <2>1, <2>2, GotoDoes
<1>11. CASE OpenOutput(p)
  <2>1. m[p].pc = "open" /\ m[p].said = "none" /\ Candidate(p, Out) \in OfTarget(Out)
        /\ There(Base) \in OfTarget(Out)
    BY <1>11 DEF OpenOutput, Course, OfTarget
  <2>2. ASSUME NEW i \in OfTarget(Out), m' = [m EXCEPT ![p].pc = "fill", ![p].ino = i]
        PROVE  Course(p)'
    <3>1. m'[p].pc = "fill" /\ m'[p].said = m[p].said /\ m'[p].ino = i
      BY <1>0, <2>2, OpenDoes
    <3> QED BY <1>0, <2>1, <2>2, <3>1 DEF Course, BeforeSteps
  <2> QED BY <1>0, <1>4, <1>11, <2>1, <2>2, OpenEffect
<1>12. CASE Backup(p)
  <2>1. m[p].pc = "backup" /\ m[p].step \in {1, 2}
    BY <1>0, <1>12 DEF Backup, ProcessShape
  <2>2. Ahead(p, "install") \/ Rolls(p)
    BY <1>0, <1>12, BackupDoes
  <2> QED BY <1>2, <2>1, <2>2 DEF Ahead, Rolls
<1>13. CASE Install(p)
  <2>1. m[p].pc = "install" /\ m[p].step \in {1, 2}
    BY <1>0, <1>13 DEF Install, ProcessShape
  <2>2. Ahead(p, "report") \/ Rolls(p)
    BY <1>0, <1>13, InstallDoes
  <2> QED BY <1>2, <2>1, <2>2 DEF Ahead, Rolls
<1>14. CASE Undo(p) \/ Restore(p)
  <2>1. m[p].pc \in {"undo", "restore"} /\ m[p].step \in {1, 2}
    BY <1>0, <1>14 DEF Undo, Restore, ProcessShape
  <2>2. Back(p, "restore") \/ Back(p, "rolled")
    BY <1>0, <1>14, TurnDoes DEF Undo, Restore
  <2> QED BY <1>2, <2>1, <2>2 DEF Back
<1>15. CASE Report(p) \/ Rolled(p)
  BY <1>4, <1>15 DEF Report, Rolled
<1>16. CASE Tidy(p)
  BY <1>0, <1>1, <1>16, TidyDoes
<1>17. CASE Crash(p)
  BY <1>0, <1>1, <1>17, GotoDoes DEF Crash
<1> QED BY <1>5, <1>6, <1>7, <1>8, <1>9, <1>10, <1>11, <1>12, <1>13, <1>14, <1>15, <1>16, <1>17
        DEF Step

LEMMA OwnStands ==
  ASSUME NamesApart, Inv, Disk, NEW p \in Procs, Course(p), NEW t \in Ends,
         Step(p) \/ Crash(p), Untouched(p, t) => Standing(p, t), Untouched(p, t)'
  PROVE  Standing(p, t)'
<1>0. ProcessShape /\ FileShape /\ (m[p].pc = "preflight" => m[p].cmd = "compare")
  BY DEF Inv, Staged, PairSteps
<1>1. CASE Recheck(p)
  BY <1>0, <1>1, RecheckStands DEF Untouched
<1>2. CASE ~Recheck(p)
  <2>1. touched \subseteq touched'
    BY <1>2 DEF Step, Crash, ReadSources, Prepare, Build, BuildHead, Commit, Report, OpenOutput,
                FillOutput, Preflight, Backup, Install, Undo, Restore, Rolled, Tidy, FilesStay,
                PutEntry, PutCandidate
  <2>2. Standing(p, t)
    BY <2>1 DEF Untouched
  <2>3. CASE \/ \E cmd \in Commands[p] : ReadSources(p, cmd)
             \/ Prepare(p) \/ Build(p) \/ BuildHead(p) \/ Report(p) \/ Rolled(p) \/ Tidy(p)
             \/ Crash(p)
    BY <1>0, <2>2, <2>3, EarlyStepStands
  <2>4. CASE Commit(p) \/ OpenOutput(p) \/ FillOutput(p)
    BY <1>0, <2>2, <2>4, CommitStands, OpenStands, FillStands
  <2>5. CASE Preflight(p)
    BY <1>0, <2>2, <2>5, PreflightStands DEF Preflight
  <2>6. CASE Backup(p) \/ Install(p) \/ Undo(p) \/ Restore(p)
    BY <2>2, <2>6, BackupStands, InstallStands, UndoStands, RestoreStands
  <2> QED BY <1>2, <2>3, <2>4, <2>5, <2>6 DEF Step
<1> QED BY <1>1, <1>2

LEMMA TruthfulNext == NamesApart /\ Inv /\ Truthful /\ [Next]_vars => Truthful'
<1> SUFFICES ASSUME NamesApart, Inv, Truthful, [Next]_vars PROVE Truthful'
  OBVIOUS
<1>0. /\ ProcessShape /\ FileShape /\ Disk /\ \A p \in Procs : Course(p)
      /\ \A p \in Procs, t \in Ends : Untouched(p, t) => Standing(p, t)
  BY DEF Inv, Truthful
<1>1. ASSUME NEW q \in Procs, Step(q) \/ Crash(q) PROVE Truthful'
  <2>1. Effect(q) /\ \A p \in Procs \ {q} : m'[p] = m[p]
    BY <1>0, <1>1, StepEffect, StepFrame, FrameShape
  <2>2. Disk'
    BY <1>0, <2>1, DiskNext
  <2>3. ASSUME NEW p \in Procs PROVE Course(p)'
    BY <1>0, <1>1, <2>1, CourseNext DEF Course
  <2>4. ASSUME NEW p \in Procs, NEW t \in Ends, Untouched(p, t)' PROVE Standing(p, t)'
    <3>1. CASE p = q
      BY <1>0, <1>1, <2>4, <3>1, OwnStands
    <3>2. CASE p # q
      <4>1. Undisturbed(p, t)
        BY <1>0, <2>1, <2>4, <3>2, OthersKeep DEF Untouched
      <4>2. Standing(p, t)
        BY <1>0, <4>1 DEF Undisturbed, Untouched
      <4> QED BY <1>0, <2>1, <3>2, <4>1, <4>2, OthersStand
    <3> QED BY <3>1, <3>2
  <2> QED BY <2>2, <2>3, <2>4 DEF Truthful
<1>2. CASE World
  <2>1. m' = m
    BY <1>0, <1>2, WorldEffect
  <2>2. Disk'
    BY <1>0, <1>2, DiskNext
  <2>3. ASSUME NEW p \in Procs PROVE Course(p)'
    BY <1>0, <2>1 DEF Course
  <2>4. ASSUME NEW p \in Procs, NEW t \in Ends, Untouched(p, t)' PROVE Standing(p, t)'
    <3>1. Undisturbed(p, t)
      BY <1>0, <1>2, <2>4, OthersKeep DEF Untouched
    <3>2. Standing(p, t)
      BY <1>0, <3>1 DEF Undisturbed, Untouched
    <3> QED BY <1>0, <2>1, <3>1, <3>2, OthersStand
  <2> QED BY <2>2, <2>3, <2>4 DEF Truthful
<1>3. CASE UNCHANGED vars
  <2>1. m' = m /\ fs' = fs /\ touched' = touched
    BY <1>3 DEF vars
  <2>2. Disk' /\ \A p \in Procs : Course(p)'
    BY <1>0, <2>1 DEF Disk, Course
  <2>3. ASSUME NEW p \in Procs, NEW t \in Ends, Untouched(p, t)' PROVE Standing(p, t)'
    <3>1. Undisturbed(p, t) /\ Standing(p, t)
      BY <1>0, <2>1, <2>3 DEF Undisturbed, Untouched
    <3> QED BY <1>0, <2>1, <3>1, OthersStand
  <2> QED BY <2>2, <2>3 DEF Truthful
<1> QED BY <1>1, <1>2, <1>3 DEF Next

\* What commands and targets owe each other holds in every reachable state.
THEOREM Faithfulness == ASSUME NamesApart PROVE Spec => []Truthful
<1> QED BY TruthfulInit, TruthfulNext, Invariance, PTL DEF Spec

-----------------------------------------------------------------------------
(* What the invariant means                                                *)

LEMMA TruthfulReports == NamesApart /\ Inv /\ Truthful => ReportsAreTrue
<1> SUFFICES ASSUME NamesApart, Inv, Truthful, NEW p \in Procs, NEW t \in Ends,
                    t \in TargetSet(m[p].cmd), <<p, t>> \notin touched
             PROVE  LET mine == Is(fs, t, "file") /\ Text(t) = Product(p, t)
                        kept == fs.entry[t] = m[p].before[t]
                    IN /\ m[p].said = "ok" => mine
                       /\ m[p].said \in Words => kept
                       /\ m[p].pc = "crashed" /\ m[p].cmd # "render" =>
                            mine \/ kept \/ (m[p].cmd = "compare" /\ Is(fs, t, "none"))
  BY DEF ReportsAreTrue, Ends, Words
<1>1. Disk /\ TargetStands(p, t) /\ t \in Paths
  BY CommandAssumption DEF Truthful, Untouched, Standing, Ends
<1>2. ASSUME NEW i, fs.entry[t] = File(i), fs.held[i] = Product(p, t)
      PROVE  Is(fs, t, "file") /\ Text(t) = Product(p, t)
  <2>1. Inode(fs, t) = i /\ fs.entry[t].type = "file"
    BY <1>1, <1>2, TargetInode, EntryFields
  <2>2. \E j \in OfTarget(t) : i = j
    BY <1>1, <1>2, EntryKinds, FilesDiffer, EntryFields DEF Disk
  <2>3. i # NoInode
    <3>1. \A x : There(x) # NoInode
      BY DEF There, NoInode
    <3>2. Foreign # NoInode
      BY DEF Foreign, NoInode
    <3>3. \A q \in Procs : Candidate(q, t) # NoInode
      BY DEF Candidate, NoInode
    <3> QED BY <2>2, <3>1, <3>2, <3>3 DEF OfTarget
  <2> QED BY <1>2, <2>1, <2>3 DEF Is, Text
<1>3. Placed(p, t) => Is(fs, t, "file") /\ Text(t) = Product(p, t)
  BY <1>2 DEF Placed
<1>4. m[p].said = "ok" => Is(fs, t, "file") /\ Text(t) = Product(p, t)
  <2>1. CASE m[p].cmd = "render"
    <3>1. t = Out
      BY <2>1 DEF TargetSet, Targets
    <3> QED BY <1>1, <1>2, <2>1, <3>1 DEF TargetStands, Achieved, Opened
  <2>2. CASE m[p].cmd # "render"
    BY <1>1, <1>3, <2>2 DEF TargetStands, Achieved
  <2> QED BY <2>1, <2>2
<1>5. Empty(t) => Is(fs, t, "none")
  BY EntryFields DEF Empty, Is
<1> QED BY <1>1, <1>3, <1>4, <1>5 DEF TargetStands, Still

\* What a command reports of its targets is so, for any number of commands on one file
\* system, with any interference, faults and kills between their steps.
THEOREM TrueReports == ASSUME NamesApart PROVE Spec => []ReportsAreTrue
<1> QED BY TruthfulReports, Invariance, Faithfulness, PTL

\* No command writes a source, save a render whose output somebody has made another name
\* for it after the last look at its paths.
THEOREM SourcesStay == ASSUME NamesApart PROVE Spec => SourcesSurvive
<1> DEFINE Good == \A p \in Procs : m'[p] # m[p] =>
                     \A s \in Sources :
                       \/ Text(s)' = Text(s)
                       \/ m[p].cmd = "render" /\ <<p, Out>> \in touched
<1>1. ASSUME Inv, Truthful, Next, Truthful' PROVE Good
  <2> SUFFICES ASSUME NEW p \in Procs, m'[p] # m[p], NEW s \in Sources,
                      ~(m[p].cmd = "render" /\ <<p, Out>> \in touched)
               PROVE  Text(s)' = Text(s)
    OBVIOUS
  <2>1. Step(p) \/ Crash(p)
    <3>1. ASSUME NEW q \in Procs, q # p PROVE ~(Step(q) \/ Crash(q))
      BY <1>1, <3>1, StepFrame, FrameShape DEF Inv
    <3> QED BY <1>1, <3>1 DEF Next, World, SaveSource, Replace
  <2>2. /\ ProcessShape /\ FileShape /\ Disk /\ Disk' /\ Course(p) /\ Staged(m[p])
        /\ Untouched(p, Out) => Standing(p, Out)
    BY <1>1 DEF Inv, Truthful, Ends
  <2>3. /\ Text(s) = fs.held[There(s)] /\ Text(s)' = fs'.held[There(s)]
    <3>1. Text(s) = fs.held[There(s)]
      BY <2>2, SourceInode
    <3>2. (Disk => Text(s) = fs.held[There(s)])'
      BY SourceInode, PTL
    <3> QED BY <2>2, <3>1, <3>2
  <2>4. m[p].pc \in {"open", "fill"} => Untouched(p, Out) /\ TargetSet(m[p].cmd) = {Out}
    BY <2>2 DEF Staged, Untouched, TargetSet, Targets
  <2>5. m[p].pc = "open" => Plain(Out)
    BY <2>2, <2>4 DEF Standing, TargetStands
  <2>6. m[p].pc = "fill" => m[p].ino # There(Base)
    BY <2>2, <2>4 DEF Standing, Opened
  <2>7. /\ There(s) \in Inodes /\ \A t \in Ends : Candidate(p, t) # There(s)
        /\ There(s) \in OfTarget(Out) => There(s) = There(Base)
    BY InodesApart DEF Inodes, Sources, Ends
  <2>8. CASE Looks(p)
    BY <2>3, <2>8 DEF Looks
  <2>9. CASE \E u \in Ends : \E e \in Entries(u) : \E c : Puts(p, u, e, c)
    BY <2>3, <2>7, <2>9 DEF Puts
  <2>10. ASSUME NEW i \in OfTarget(Out), NEW c, Opens(p, i), Writes(p, i, c)
         PROVE  Text(s)' = Text(s)
    <3>1. i # There(s)
      BY <2>5, <2>6, <2>7, <2>10 DEF Opens, Plain
    <3> QED BY <2>3, <2>7, <2>10, <3>1 DEF Writes
  <2>11. ~(m[p].pc = "open" /\ fs.entry[Out] = Link(Base))
    BY <2>5 DEF Plain
  <2> QED BY <1>1, <2>1, <2>2, <2>8, <2>9, <2>10, <2>11, StepEffect DEF Effect
<1>2. Inv /\ Truthful /\ Truthful' /\ [Next]_vars => [Good]_vars
  BY <1>1
<1> QED BY <1>2, Invariance, Faithfulness, PTL DEF Spec, SourcesSurvive
=============================================================================
