---------------------------- MODULE LivePreview ----------------------------
(***************************************************************************)
(* The live preview of the diagram tool,                                   *)
(* .agents/skills/archify/bin/preview.mjs: one Node process that watches a *)
(* source, builds each change with a child `deliver`, publishes what was   *)
(* verified to the output file and to the pages that listen, and is        *)
(* stopped by one signal or two.                                           *)
(*                                                                         *)
(* A callback of the event loop is one step.  An author may save the       *)
(* source between any two steps, so a digest is stale as soon as it is     *)
(* taken.  A hash stands for the content it was taken from.                *)
(***************************************************************************)
EXTENDS Naturals, Sequences

CONSTANTS
  Contents,     \* what the source may hold
  Missing,      \* the source cannot be read
  Nothing,      \* no digest, no artifact
  Foreign,      \* bytes of the output file that this preview did not write
  FirstOutputs, \* what the output file holds before the first build
  Drawn,        \* content -> the artifact deliver makes of it, Nothing when it fails
  MaxEdits,     \* bound on the saves of the source
  MaxFaults     \* bound on the faults of file system, child and connection

ASSUME PreviewAssumption ==
  /\ Missing \in Contents /\ Nothing \notin Contents
  /\ DOMAIN Drawn = Contents /\ Drawn[Missing] = Nothing
  /\ \A c \in Contents : Drawn[c] # Foreign
  /\ FirstOutputs \subseteq {Nothing, Foreign}
  /\ MaxEdits \in Nat /\ MaxFaults \in Nat

VARIABLES
  source, output, edits, faults,   \* the two files, and how often the world acted
  queue,    \* queuedHash, debounceTimer, pendingBuild, sourceEpoch, lastGoodSourceHash
  child,    \* the running deliver with activeHash and activeEpoch
  state,    \* what /state answers, and the artifact buffer
  halt,     \* stopping, stopped, the server and the two timers of the drain
  page      \* an open page: its event stream, status, revision and frame

vars == <<source, output, edits, faults, queue, child, state, halt, page>>

NoChild == [stage |-> "none", hash |-> Nothing, epoch |-> 0, ok |-> FALSE]
Shown(s) == [status |-> s.status, revision |-> s.revision]
NewPage(s) ==
  [inbox |-> <<Shown(s)>>, status |-> "checking", revision |-> 0, frame |-> Nothing,
   loading |-> FALSE, open |-> TRUE]

Fault == faults < MaxFaults /\ faults' = faults + 1
Quiet == faults' = faults

\* Every open event stream gets the new state; the server drops them as it closes.
Broadcast(s) ==
  /\ state' = s
  /\ page' = IF page.open THEN [page EXCEPT !.inbox = Append(@, Shown(s))] ELSE page

\* queueStableBuild: the new timer replaces the old one.
Queued(q, hash) == [q EXCEPT !.hash = hash, !.timer = "armed"]

-----------------------------------------------------------------------------
(* startPreview, up to its first observeSource.                            *)

Init ==
  /\ source \in Contents
  /\ output \in FirstOutputs
  /\ edits = 0 /\ faults = 0
  /\ queue = [hash |-> source, timer |-> "armed", pending |-> FALSE, epoch |-> 1,
              lastGood |-> Nothing]
  /\ child = NoChild
  /\ state = [status |-> "checking", revision |-> 0, verified |-> Nothing,
              stage |-> "none", buffer |-> Nothing]
  /\ halt = [stopping |-> FALSE, stopped |-> FALSE, server |-> "open", grace |-> "off",
             kill |-> "off", signal |-> "none"]
  /\ page = NewPage(state)

Running == ~halt.stopping

\* observeSource, called by the watcher and by the poll; a digest that is
\* already queued is not a change.
ObserveSource ==
  /\ Running
  /\ source # queue.hash
  /\ queue' = Queued([queue EXCEPT !.epoch = @ + 1], source)
  /\ UNCHANGED <<source, output, edits, faults, child, state, halt, page>>

\* publishFailure.
PublishFailure(stage) ==
  Broadcast([state EXCEPT !.status = "needs-fix", !.stage = stage])

\* beginBuild.  The snapshot may fail to be written, and then no child runs.
BeginBuild(digest) ==
  LET checking == [state EXCEPT !.status = "checking", !.stage = "none"] IN
  \/ /\ child' = [stage |-> "running", hash |-> digest, epoch |-> queue.epoch, ok |-> FALSE]
     /\ Broadcast(checking)
     /\ Quiet
  \/ /\ digest # Missing
     /\ Fault
     /\ state' = [checking EXCEPT !.status = "needs-fix", !.stage = "prepare"]
     /\ page' = IF page.open
                THEN [page EXCEPT !.inbox = Append(Append(@, Shown(checking)), Shown(state'))]
                ELSE page
     /\ UNCHANGED child

\* Mutant of Reverted: the status of the build in between stays.
RevertedSilently == UNCHANGED <<state, page>>

\* The source is back at what was last published.
Reverted ==
  IF state.status # "verified" /\ state.verified # Nothing
  THEN Broadcast([state EXCEPT !.status = "verified", !.stage = "none"])
  ELSE UNCHANGED <<state, page>>

\* launch, when the debounce timer fires.
Launch ==
  /\ queue.timer = "armed" /\ Running
  /\ LET rung == [queue EXCEPT !.timer = "off"] IN
     \/ /\ source # queue.hash
        /\ queue' = Queued(rung, source)
        /\ Quiet /\ UNCHANGED <<child, state, page>>
     \/ /\ source = queue.hash /\ source = queue.lastGood
        /\ queue' = rung
        /\ Reverted
        /\ Quiet /\ UNCHANGED child
     \/ /\ source = queue.hash /\ source # queue.lastGood /\ child.stage # "none"
        /\ queue' = [rung EXCEPT !.pending = TRUE]
        /\ Quiet /\ UNCHANGED <<child, state, page>>
     \/ /\ source = queue.hash /\ source # queue.lastGood /\ child.stage = "none"
        /\ queue' = rung
        /\ BeginBuild(source)
  /\ UNCHANGED <<source, output, edits, halt>>

-----------------------------------------------------------------------------
(* The child process and its close event.                                  *)

\* deliver ends by itself: well for a drawable source unless something fails.
ChildExits ==
  /\ child.stage = "running"
  /\ \/ child' = [child EXCEPT !.stage = "exited", !.ok = Drawn[child.hash] # Nothing] /\ Quiet
     \/ Fault /\ child' = [child EXCEPT !.stage = "exited"]
  /\ UNCHANGED <<source, output, edits, queue, state, halt, page>>

\* A build that never ends by itself.
ChildHangs ==
  /\ child.stage = "running" /\ Fault
  /\ child' = [child EXCEPT !.stage = "hung"]
  /\ UNCHANGED <<source, output, edits, queue, state, halt, page>>

\* SIGTERM may be ignored by a hung build, SIGKILL is not.
ChildSignalled ==
  /\ child.stage \in {"running", "hung"}
  /\ \/ halt.signal = "KILL"
     \/ halt.signal = "TERM" /\ child.stage = "running"
  /\ child' = [child EXCEPT !.stage = "exited", !.ok = FALSE]
  /\ UNCHANGED <<source, output, edits, faults, queue, state, halt, page>>

Stale == child.epoch # queue.epoch

\* A launch that found a build running asks for another read of the source.
Following(q) ==
  IF queue.pending THEN Queued([q EXCEPT !.pending = FALSE], source) ELSE q

\* commitCandidate publishes when the live source still has the built digest.
Commit ==
  LET art == Drawn[child.hash]
      same == state.verified = art
  IN /\ output' = IF same /\ output = art THEN output ELSE art
     /\ queue' = Following([queue EXCEPT !.lastGood = child.hash])
     /\ Broadcast([status |-> "verified", verified |-> art, buffer |-> art, stage |-> "none",
                   revision |-> IF same THEN state.revision ELSE state.revision + 1])

\* Mutant of Supersede: the source is not looked at again before the rename.
SupersedeIgnored == Commit

\* commitCandidate finds other bytes in the source: they are built next.
Supersede ==
  /\ queue' = Queued([queue EXCEPT !.epoch = @ + 1, !.pending = FALSE], source)
  /\ UNCHANGED <<output, state, page>>

\* A build the source has moved away from is dropped and the source is read again.
Requeue == queue' = Queued([queue EXCEPT !.pending = FALSE], source)

\* finishStop.
Ended(h, running) ==
  IF running \/ h.server # "closed" THEN h
  ELSE [h EXCEPT !.stopped = TRUE, !.grace = "off", !.kill = "off"]

NoDrain(h) == [h EXCEPT !.grace = "off", !.kill = "off"]

\* signalActiveChild: a process that has exited gets no signal, and a SIGKILL
\* cannot be taken back.
Signalled(h, sig) ==
  IF child.stage \in {"none", "exited"} \/ h.signal = "KILL" THEN h
  ELSE [h EXCEPT !.signal = sig]

ChildCloses ==
  /\ child.stage = "exited"
  /\ child' = NoChild
  /\ \/ /\ Running /\ ~Stale /\ child.ok
        /\ \/ source = child.hash /\ Commit /\ Quiet
           \/ source # child.hash /\ Supersede /\ Quiet
           \/ Fault /\ PublishFailure("commit") /\ queue' = Following(queue) /\ UNCHANGED output
        /\ UNCHANGED <<source, edits>>
     \/ /\ Running /\ ~Stale /\ ~child.ok
        /\ PublishFailure("render") /\ queue' = Following(queue)
        /\ UNCHANGED <<source, output, edits, faults>>
     \/ /\ Running /\ Stale
        /\ Requeue
        /\ UNCHANGED <<source, output, edits, faults, state, page>>
     \/ /\ halt.stopping
        /\ UNCHANGED <<source, output, edits, faults, queue, state, page>>
  /\ halt' = IF halt.stopping THEN Ended(NoDrain(halt), FALSE) ELSE NoDrain(halt)

-----------------------------------------------------------------------------
(* Stopping.                                                               *)

\* startBoundedChildDrain: one drain at a time.
Drain(h) == IF h.grace = "off" /\ h.kill = "off" THEN [h EXCEPT !.grace = "armed"] ELSE h

\* stop, by the first signal, or by a second one that forces.
Stop(force) ==
  /\ ~halt.stopped
  /\ LET h == [halt EXCEPT !.stopping = TRUE,
                           !.server = IF @ = "open" THEN "closing" ELSE @] IN
     halt' = IF child.stage = "none" THEN Ended(h, FALSE)
             ELSE IF force THEN Signalled(NoDrain(h), "KILL")
             ELSE Drain(h)
  /\ queue' = [queue EXCEPT !.timer = "off"]
  /\ page' = [page EXCEPT !.open = FALSE]
  /\ UNCHANGED <<source, output, edits, faults, child, state>>

\* The last connection has ended.
ServerCloses ==
  /\ halt.server = "closing"
  /\ halt' = Ended([halt EXCEPT !.server = "closed"], child.stage # "none")
  /\ UNCHANGED <<source, output, edits, faults, queue, child, state, page>>

\* Mutant of GraceEnds: a build that ignores SIGTERM gets no SIGKILL.
GraceEndsOnly ==
  /\ halt.grace = "armed"
  /\ halt' = Signalled([halt EXCEPT !.grace = "off"], "TERM")
  /\ UNCHANGED <<source, output, edits, faults, queue, child, state, page>>

\* The grace of the drain is over: SIGTERM, then the timer of the SIGKILL.
GraceEnds ==
  /\ halt.grace = "armed"
  /\ halt' = Signalled([halt EXCEPT !.grace = "off", !.kill = "armed"], "TERM")
  /\ UNCHANGED <<source, output, edits, faults, queue, child, state, page>>

KillTime ==
  /\ halt.kill = "armed"
  /\ halt' = Signalled([halt EXCEPT !.kill = "off"], "KILL")
  /\ UNCHANGED <<source, output, edits, faults, queue, child, state, page>>

-----------------------------------------------------------------------------
(* A page in the browser, and the world.                                   *)

\* Mutant of PageRenders: only the first revision loads the frame.
PageRendersFirst ==
  /\ page.inbox # <<>>
  /\ LET event == Head(page.inbox)
         fresh == event.status = "verified" /\ page.revision = 0
     IN page' = [page EXCEPT !.inbox = Tail(@), !.status = event.status,
                             !.revision = IF event.status = "verified" THEN event.revision ELSE @,
                             !.loading = @ \/ fresh]
  /\ UNCHANGED <<source, output, edits, faults, queue, child, state, halt>>

\* The page renders one event of its stream; a new revision loads the frame.
PageRenders ==
  /\ page.inbox # <<>>
  /\ LET event == Head(page.inbox)
         fresh == event.status = "verified" /\ event.revision # page.revision
     IN page' = [page EXCEPT !.inbox = Tail(@), !.status = event.status,
                             !.revision = IF fresh THEN event.revision ELSE @,
                             !.loading = @ \/ fresh]
  /\ UNCHANGED <<source, output, edits, faults, queue, child, state, halt>>

\* GET /artifact.html answers with the buffer of now, whatever was asked for.
PageLoads ==
  /\ page.loading /\ halt.server = "open"
  /\ page' = [page EXCEPT !.loading = FALSE, !.frame = state.buffer]
  /\ UNCHANGED <<source, output, edits, faults, queue, child, state, halt>>

\* GET /events after a lost connection: the page gets the state of now.
PageReconnects ==
  /\ page.open /\ Fault
  /\ page' = [page EXCEPT !.inbox = <<Shown(state)>>]
  /\ UNCHANGED <<source, output, edits, queue, child, state, halt>>

\* The author saves, or removes, the source.
SaveSource ==
  /\ edits < MaxEdits /\ edits' = edits + 1
  /\ \E c \in Contents \ {source} : source' = c
  /\ UNCHANGED <<output, faults, queue, child, state, halt, page>>

\* Something else overwrites the output file.
OutputLost ==
  /\ Fault /\ output # Foreign
  /\ output' = Foreign
  /\ UNCHANGED <<source, edits, queue, child, state, halt, page>>

Next ==
  \/ ObserveSource \/ Launch
  \/ ChildExits \/ ChildHangs \/ ChildSignalled \/ ChildCloses
  \/ \E force \in BOOLEAN : Stop(force)
  \/ ServerCloses \/ GraceEnds \/ KillTime
  \/ PageRenders \/ PageLoads \/ PageReconnects
  \/ SaveSource \/ OutputLost

\* Timers and process events happen; nobody has to save, fail or stop.
Fairness ==
  /\ WF_vars(ObserveSource) /\ WF_vars(Launch)
  /\ WF_vars(ChildExits) /\ WF_vars(ChildSignalled) /\ WF_vars(ChildCloses)
  /\ WF_vars(ServerCloses) /\ WF_vars(GraceEnds) /\ WF_vars(KillTime)
  /\ WF_vars(PageRenders) /\ WF_vars(PageLoads)

Spec == Init /\ [][Next]_vars /\ Fairness

-----------------------------------------------------------------------------
(* Properties.                                                             *)

\* Nothing is under way: no timer, no build, and the last save was seen.
AtRest ==
  /\ Running /\ queue.timer = "off" /\ child.stage = "none"
  /\ source = queue.hash

\* At rest the status is about the source as it is, whatever saves, reverts and
\* stale builds came before: verified if and only if what it holds was published.
AtRestTellsSource ==
  AtRest => /\ state.status \in {"verified", "needs-fix"}
            /\ state.status = "verified" <=> source = queue.lastGood

\* A page that has read its stream and loaded its frame shows the state as it
\* is, and when that is verified, the artifact it is about: what a page loads
\* may be newer than the revision it asked for.
PageCatchesUp ==
  page.open /\ page.inbox = <<>> /\ ~page.loading =>
    /\ page.status = state.status
    /\ state.status = "verified" => /\ page.revision = state.revision
                                    /\ page.frame = state.verified

\* Bytes are published only while the source still holds what they were drawn
\* from, and never once the preview is stopping.
OnlyCurrentIsPublished ==
  [][output' # output /\ output' # Foreign
       => Running /\ output' = Drawn[source] /\ queue'.lastGood = source]_vars

\* A saved source is dealt with unless a build hangs, and a stop, which is
\* never taken back, ends even then.
PreviewSettlesAndStops ==
  /\ []<>(AtRest \/ child.stage = "hung" \/ halt.stopping)
  /\ []<>(halt.stopped \/ ~halt.stopping)
=============================================================================
