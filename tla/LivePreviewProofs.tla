-------------------------- MODULE LivePreviewProofs --------------------------
(***************************************************************************)
(* For any sources, drawings, saves and faults: at rest the status of the  *)
(* preview is about the source as it is, a page that has read its stream   *)
(* shows it, and only what the source holds is ever published.             *)
(***************************************************************************)
EXTENDS LivePreview, SequenceTheorems, TLAPS

-----------------------------------------------------------------------------
(* The inductive invariant                                                 *)

Artifacts == {Drawn[c] : c \in Contents} \cup {Nothing}
Statuses == {"checking", "verified", "needs-fix"}
Events == [status: Statuses, revision: Nat]

States ==
  [status: Statuses, revision: Nat, verified: Artifacts, buffer: Artifacts,
   stage: {"none", "prepare", "render", "commit"}]
Pages ==
  [inbox: Seq(Events), status: Statuses, revision: Nat, frame: Artifacts, loading: BOOLEAN,
   open: BOOLEAN]

Queues ==
  [hash: Contents, timer: {"armed", "off"}, pending: BOOLEAN, epoch: Nat,
   lastGood: Contents \cup {Nothing}]
Children ==
  [stage: {"none", "running", "hung", "exited"}, hash: Contents \cup {Nothing}, epoch: Nat,
   ok: BOOLEAN]
Halts ==
  [stopping: BOOLEAN, stopped: BOOLEAN, server: {"open", "closing", "closed"},
   grace: {"off", "armed"}, kill: {"off", "armed"}, signal: {"none", "TERM", "KILL"}]

\* The variables of the preview and of the page have these values.
Types ==
  /\ source \in Contents
  /\ queue \in Queues /\ child \in Children
  /\ state \in States /\ page \in Pages
  /\ halt \in Halts

\* A build of the present epoch is the build of the digest that was queued
\* last, and no timer and no request to read again is outstanding.
Fresh ==
  /\ child.stage # "none" => child.hash \in Contents /\ child.epoch <= queue.epoch
  /\ child.ok => child.stage # "none" /\ Drawn[child.hash] # Nothing
  /\ Running /\ child.stage = "none" => ~queue.pending
  /\ Running /\ child.stage # "none" /\ ~Stale
       => /\ queue.hash = child.hash /\ queue.hash # queue.lastGood
          /\ queue.timer = "off" /\ ~queue.pending

\* Without timer and build the last verdict is about the queued digest.
Judged ==
  /\ Running /\ queue.timer = "off" /\ child.stage = "none"
       => /\ state.status \in {"verified", "needs-fix"}
          /\ state.status = "verified" <=> queue.hash = queue.lastGood
  /\ queue.lastGood # Nothing \/ state.status = "verified" => state.verified # Nothing
  /\ state.verified # Nothing => state.revision # 0
  /\ state.buffer = state.verified

\* The last event of the stream is about the state as it is; revisions do not
\* run ahead of it; a frame that is not being loaded is that of its revision.
Announced ==
  /\ page.revision <= state.revision
  /\ \A i \in 1..Len(page.inbox) : page.inbox[i].revision <= state.revision
  /\ page.open /\ page.inbox # <<>> => page.inbox[Len(page.inbox)] = Shown(state)
  /\ page.open /\ page.inbox = <<>>
       => /\ page.status = state.status
          /\ state.status = "verified" => page.revision = state.revision
  /\ ~page.loading /\ page.revision = state.revision /\ page.revision # 0
       => page.frame = state.buffer

Inv == Types /\ Fresh /\ Judged /\ Announced

-----------------------------------------------------------------------------
(* The stream of the page                                                  *)

\* A new state reaches the stream of an open page as its last event.
LEMMA BroadcastAnnounces ==
  ASSUME Types, Announced, NEW s \in States, Broadcast(s),
         s.revision >= state.revision,
         s.revision = state.revision => s.buffer = state.buffer
  PROVE  state' = s /\ page' \in Pages /\ Announced'
<1>1. state' = s /\ page' = IF page.open THEN [page EXCEPT !.inbox = Append(@, Shown(s))] ELSE page
  BY DEF Broadcast
<1>2. Shown(s) \in Events /\ Shown(s).revision = s.revision
  BY DEF Shown, Events, States
<1>3. page \in Pages /\ page.inbox \in Seq(Events) /\ page.revision \in Nat /\ state.revision \in Nat
        /\ s.revision \in Nat
  BY DEF Types, Pages, States
<1>4. CASE page.open
  <2> DEFINE inbox == Append(page.inbox, Shown(s))
  <2>1. /\ inbox \in Seq(Events) /\ inbox # <<>> /\ Len(inbox) = Len(page.inbox) + 1
        /\ inbox[Len(inbox)] = Shown(s)
        /\ \A i \in 1..Len(page.inbox) : inbox[i] = page.inbox[i]
    BY <1>2, <1>3, AppendProperties
  <2> HIDE DEF inbox
  <2>2. page' = [page EXCEPT !.inbox = inbox]
    BY <1>1, <1>4 DEF inbox
  <2>3. /\ page' \in Pages /\ page'.inbox = inbox /\ page'.revision = page.revision
        /\ page'.loading = page.loading /\ page'.frame = page.frame
    BY <1>3, <2>1, <2>2 DEF Pages
  <2>4. Len(page.inbox) \in Nat
    BY <1>3, LenProperties
  <2>5. \A i \in 1..Len(inbox) : inbox[i].revision <= s.revision
    <3> TAKE i \in 1..Len(inbox)
    <3>0. i = Len(inbox) \/ i \in 1..Len(page.inbox)
      BY <2>1, <2>4
    <3>1. CASE i = Len(inbox)
      BY <1>2, <1>3, <2>1, <3>1
    <3>2. CASE i \in 1..Len(page.inbox)
      <4>1. inbox[i] = page.inbox[i] /\ page.inbox[i].revision <= state.revision
        BY <2>1, <3>2 DEF Announced
      <4>2. page.inbox[i] \in Events
        BY <1>3, <3>2, ElementOfSeq
      <4> QED BY <1>3, <4>1, <4>2 DEF Events
    <3> QED BY <3>0, <3>1, <3>2
  <2>6. inbox[Len(inbox)] = Shown(state') /\ page'.revision <= state'.revision
    BY <1>1, <1>3, <2>1, <2>3 DEF Announced
  <2>7. ~page'.loading /\ page'.revision = state'.revision /\ page'.revision # 0
          => page'.frame = state'.buffer
    BY <1>1, <1>3, <2>3 DEF Announced
  <2> QED BY <1>1, <2>1, <2>3, <2>5, <2>6, <2>7 DEF Announced
<1>5. CASE ~page.open
  <2>1. page' = page
    BY <1>1, <1>5
  <2>2. \A i \in 1..Len(page.inbox) : page.inbox[i].revision <= s.revision
    <3> TAKE i \in 1..Len(page.inbox)
    <3>1. page.inbox[i].revision <= state.revision /\ page.inbox[i] \in Events
      BY <1>3, ElementOfSeq DEF Announced
    <3> QED BY <1>3, <3>1 DEF Events
  <2> QED BY <1>1, <1>3, <1>5, <2>1, <2>2 DEF Announced
<1> QED BY <1>4, <1>5

\* Two announcements in one step end with the second.
LEMMA TwoAnnouncements ==
  ASSUME Types, Announced, NEW s \in States, NEW t \in States,
         s.revision = state.revision, t.revision = state.revision, t.buffer = state.buffer,
         state' = t,
         page' = IF page.open THEN [page EXCEPT !.inbox = Append(Append(@, Shown(s)), Shown(t))]
                 ELSE page
  PROVE  page' \in Pages /\ Announced'
<1>1. Shown(s) \in Events /\ Shown(s).revision = s.revision /\ Shown(t) \in Events
        /\ Shown(t).revision = t.revision
  BY DEF Shown, Events, States
<1>2. page \in Pages /\ page.inbox \in Seq(Events) /\ page.revision \in Nat /\ state.revision \in Nat
        /\ Len(page.inbox) \in Nat
  BY LenProperties DEF Types, Pages, States
<1>3. CASE page.open
  <2> DEFINE first == Append(page.inbox, Shown(s))
             inbox == Append(first, Shown(t))
  <2>1. /\ first \in Seq(Events) /\ Len(first) = Len(page.inbox) + 1
        /\ first[Len(first)] = Shown(s)
        /\ \A i \in 1..Len(page.inbox) : first[i] = page.inbox[i]
    BY <1>1, <1>2, AppendProperties
  <2> HIDE DEF first
  <2>2. /\ inbox \in Seq(Events) /\ inbox # <<>> /\ Len(inbox) = Len(first) + 1
        /\ inbox[Len(inbox)] = Shown(t)
        /\ \A i \in 1..Len(first) : inbox[i] = first[i]
    BY <1>1, <2>1, AppendProperties
  <2> HIDE DEF inbox
  <2>3. page' = [page EXCEPT !.inbox = inbox]
    BY <1>3 DEF inbox, first
  <2>4. /\ page' \in Pages /\ page'.inbox = inbox /\ page'.revision = page.revision
        /\ page'.loading = page.loading /\ page'.frame = page.frame
    BY <1>2, <2>2, <2>3 DEF Pages
  <2>5. \A i \in 1..Len(inbox) : inbox[i].revision <= t.revision
    <3> TAKE i \in 1..Len(inbox)
    <3>0. i = Len(inbox) \/ i = Len(first) \/ i \in 1..Len(page.inbox)
      BY <1>2, <2>1, <2>2
    <3>1. CASE i = Len(inbox)
      BY <1>1, <1>2, <2>2, <3>1
    <3>2. CASE i = Len(first)
      <4>1. i \in 1..Len(first) /\ first[i] = Shown(s)
        BY <1>2, <2>1, <3>2
      <4>2. inbox[i] = Shown(s)
        BY <2>2, <4>1
      <4>3. s.revision = t.revision /\ s.revision \in Nat
        BY <1>2
      <4> QED BY <1>1, <4>2, <4>3
    <3>3. CASE i \in 1..Len(page.inbox)
      <4>1. i \in 1..Len(first) /\ first[i] = page.inbox[i]
        BY <1>2, <2>1, <3>3
      <4>2. inbox[i] = page.inbox[i]
        BY <2>2, <4>1
      <4>3. page.inbox[i].revision <= state.revision
        BY <3>3 DEF Announced
      <4> QED BY <4>2, <4>3
    <3> QED BY <3>0, <3>1, <3>2, <3>3
  <2> QED BY <1>2, <2>2, <2>4, <2>5 DEF Announced
<1>4. CASE ~page.open
  BY <1>2, <1>4 DEF Announced
<1> QED BY <1>3, <1>4

-----------------------------------------------------------------------------
(* The steps                                                               *)

\* What does not touch the state or the page announces nothing.
LEMMA SilentSteps ==
  ASSUME Announced, UNCHANGED <<state, page>>
  PROVE  Announced'
BY DEF Announced, Shown

\* A queued digest arms the timer.
LEMMA QueuedFields ==
  ASSUME NEW q \in Queues, NEW hash \in Contents
  PROVE  /\ Queued(q, hash) \in Queues /\ Queued(q, hash).timer = "armed"
         /\ Queued(q, hash).pending = q.pending /\ Queued(q, hash).epoch = q.epoch
         /\ Queued(q, hash).lastGood = q.lastGood
BY DEF Queued, Queues

\* The functions of the drain do not touch the decision to stop.
LEMMA HaltFields ==
  ASSUME NEW h \in Halts
  PROVE  /\ \A running \in BOOLEAN :
              Ended(h, running) \in Halts /\ Ended(h, running).stopping = h.stopping
         /\ \A sig \in {"TERM", "KILL"} :
              Signalled(h, sig) \in Halts /\ Signalled(h, sig).stopping = h.stopping
         /\ Signalled(NoDrain(h), "KILL") \in Halts
         /\ Signalled(NoDrain(h), "KILL").stopping = h.stopping
         /\ Drain(h) \in Halts /\ Drain(h).stopping = h.stopping
<1>1. \A running \in BOOLEAN :
        Ended(h, running) \in Halts /\ Ended(h, running).stopping = h.stopping
  BY DEF Ended, Halts
<1>2. \A g \in Halts, sig \in {"TERM", "KILL"} :
        Signalled(g, sig) \in Halts /\ Signalled(g, sig).stopping = g.stopping
  BY DEF Signalled, Halts
<1>3. NoDrain(h) \in Halts /\ NoDrain(h).stopping = h.stopping
  BY DEF NoDrain, Halts
<1>4. Drain(h) \in Halts /\ Drain(h).stopping = h.stopping
  BY DEF Drain, Halts
<1> QED BY <1>1, <1>2, <1>3, <1>4

\* The watcher, the poll and the debounce timer.
LEMMA ObserveInv ==
  ASSUME Inv, ObserveSource
  PROVE  Inv'
<1> USE DEF Inv, Types
<1>1. queue' = [queue EXCEPT !.epoch = @ + 1, !.hash = source, !.timer = "armed"]
        /\ UNCHANGED <<source, child, state, halt, page>>
  BY DEF ObserveSource, Queued
<1>2. queue' \in Queues /\ queue'.epoch = queue.epoch + 1 /\ queue'.timer = "armed"
        /\ queue'.lastGood = queue.lastGood
  <2>1. queue \in Queues /\ queue.epoch + 1 \in Nat
    BY DEF Queues
  <2>2. source \in Contents
    OBVIOUS
  <2> QED BY <1>1, <2>1, <2>2 DEF Queues
<1>3. queue.epoch \in Nat /\ child.epoch \in Nat
  BY DEF Queues, Children
<1>4. Types'
  BY <1>1, <1>2
<1>5. Fresh'
  BY <1>1, <1>2, <1>3 DEF Fresh, Stale, Running
<1>6. Judged'
  BY <1>1, <1>2 DEF Judged
<1> QED BY <1>1, <1>4, <1>5, <1>6, SilentSteps

LEMMA LaunchInv ==
  ASSUME Inv, Launch
  PROVE  Inv'
<1> DEFINE rung == [queue EXCEPT !.timer = "off"]
<1>1. /\ source \in Contents /\ state \in States /\ page \in Pages /\ halt \in Halts
      /\ queue \in Queues /\ child \in Children /\ queue.epoch \in Nat
  BY DEF Inv, Types, Queues
<1>2. queue.timer = "armed" /\ Running /\ UNCHANGED <<source, halt>>
  BY DEF Launch
<1>3. child.stage # "none" => Stale
  BY <1>2 DEF Inv, Fresh
<1>4. /\ rung \in Queues /\ rung.timer = "off" /\ rung.hash = queue.hash
      /\ rung.lastGood = queue.lastGood /\ rung.epoch = queue.epoch /\ rung.pending = queue.pending
  BY <1>1 DEF Queues
<1>5. CASE queue' = Queued(rung, source) /\ UNCHANGED <<child, state, page>>
  <2>1. queue' \in Queues /\ queue'.timer = "armed" /\ queue'.epoch = queue.epoch
          /\ queue'.lastGood = queue.lastGood /\ queue'.pending = queue.pending
    BY <1>1, <1>4, <1>5, QueuedFields
  <2>2. Types'
    BY <1>1, <1>2, <1>5, <2>1 DEF Types
  <2>3. Fresh'
    BY <1>2, <1>3, <1>5, <2>1 DEF Inv, Fresh, Stale, Running
  <2>4. Judged'
    BY <1>2, <1>5, <2>1 DEF Inv, Judged
  <2> QED BY <1>5, <2>2, <2>3, <2>4, SilentSteps DEF Inv
<1>6. CASE source = queue.hash /\ source = queue.lastGood /\ queue' = rung /\ Reverted
             /\ UNCHANGED child
  <2>1. queue.lastGood # Nothing /\ state.verified # Nothing
    BY <1>1, <1>6, PreviewAssumption DEF Inv, Judged
  <2>2. Fresh'
    BY <1>2, <1>3, <1>4, <1>6 DEF Inv, Fresh, Stale, Running
  <2>3. CASE state.status # "verified"
    <3> DEFINE s == [state EXCEPT !.status = "verified", !.stage = "none"]
    <3>1. s \in States /\ s.revision = state.revision /\ s.buffer = state.buffer
            /\ s.status = "verified" /\ s.verified = state.verified
      BY <1>1 DEF States, Statuses
    <3> HIDE DEF s
    <3>2. Broadcast(s)
      BY <1>6, <2>1, <2>3 DEF Reverted, s
    <3>3. state.revision \in Nat
      BY <1>1 DEF States
    <3>4. state' = s /\ page' \in Pages /\ Announced'
      BY <3>1, <3>2, <3>3, BroadcastAnnounces DEF Inv
    <3>5. Types'
      BY <1>1, <1>2, <1>4, <1>6, <3>1, <3>4 DEF Types
    <3>6. Judged'
      BY <1>6, <2>1, <3>1, <3>4, <1>4 DEF Inv, Judged
    <3> QED BY <2>2, <3>4, <3>5, <3>6 DEF Inv
  <2>4. CASE state.status = "verified"
    <3>1. UNCHANGED <<state, page>>
      BY <1>6, <2>4 DEF Reverted
    <3>2. Types'
      BY <1>1, <1>2, <1>4, <1>6, <3>1 DEF Types
    <3>3. Judged'
      BY <1>4, <1>6, <2>4, <3>1 DEF Inv, Judged
    <3> QED BY <2>2, <3>1, <3>2, <3>3, SilentSteps DEF Inv
  <2> QED BY <2>3, <2>4
<1>7. CASE child.stage # "none" /\ queue' = [rung EXCEPT !.pending = TRUE]
             /\ UNCHANGED <<child, state, page>>
  <2>1. queue' \in Queues /\ queue'.epoch = queue.epoch /\ queue'.lastGood = queue.lastGood
    BY <1>4, <1>7 DEF Queues
  <2>2. Types'
    BY <1>1, <1>2, <1>7, <2>1 DEF Types
  <2>3. Fresh'
    BY <1>1, <1>2, <1>3, <1>7, <2>1 DEF Inv, Fresh, Stale, Running
  <2>4. Judged'
    BY <1>7, <2>1 DEF Inv, Judged
  <2> QED BY <1>7, <2>2, <2>3, <2>4, SilentSteps DEF Inv
<1>8. CASE source = queue.hash /\ source # queue.lastGood /\ child.stage = "none" /\ queue' = rung
             /\ BeginBuild(source)
  <2> DEFINE checking == [state EXCEPT !.status = "checking", !.stage = "none"]
             failed == [checking EXCEPT !.status = "needs-fix", !.stage = "prepare"]
  <2>1. checking \in States /\ checking.revision = state.revision /\ checking.buffer = state.buffer
          /\ checking.status = "checking" /\ checking.verified = state.verified
    BY <1>1 DEF States, Statuses
  <2>2. state.revision \in Nat
    BY <1>1 DEF States
  <2>3. CASE /\ child' = [stage |-> "running", hash |-> source, epoch |-> queue.epoch, ok |-> FALSE]
             /\ Broadcast(checking)
    <3> HIDE DEF checking
    <3>1. state' = checking /\ page' \in Pages /\ Announced'
      BY <2>1, <2>2, <2>3, BroadcastAnnounces DEF Inv
    <3>2. ~queue.pending
      BY <1>2, <1>8 DEF Inv, Fresh
    <3>3. Types'
      BY <1>1, <1>2, <1>4, <1>8, <2>1, <2>3, <3>1 DEF Types, Children
    <3>4. Fresh'
      BY <1>1, <1>4, <1>8, <2>3, <3>2 DEF Fresh, Stale
    <3>5. Judged'
      BY <1>4, <1>8, <2>1, <2>3, <3>1 DEF Inv, Judged
    <3> QED BY <3>1, <3>3, <3>4, <3>5 DEF Inv
  <2>4. CASE /\ state' = failed
             /\ page' = IF page.open
                        THEN [page EXCEPT !.inbox = Append(Append(@, Shown(checking)), Shown(state'))]
                        ELSE page
             /\ UNCHANGED child
    <3>1. failed \in States /\ failed.revision = state.revision /\ failed.buffer = state.buffer
            /\ failed.status = "needs-fix" /\ failed.verified = state.verified
      BY <1>1 DEF States, Statuses
    <3> HIDE DEF checking, failed
    <3>2. page' \in Pages /\ Announced'
      BY <2>1, <2>4, <3>1, TwoAnnouncements DEF Inv
    <3>3. Types'
      BY <1>1, <1>2, <1>4, <1>8, <2>4, <3>1, <3>2 DEF Types
    <3>4. Fresh'
      BY <1>2, <1>4, <1>8, <2>4 DEF Inv, Fresh, Running
    <3>5. Judged'
      BY <1>4, <1>8, <2>4, <3>1 DEF Inv, Judged
    <3> QED BY <3>2, <3>3, <3>4, <3>5 DEF Inv
  <2> QED BY <1>8, <2>3, <2>4 DEF BeginBuild
<1> QED BY <1>5, <1>6, <1>7, <1>8 DEF Launch

\* The child ends, hangs or is signalled.
LEMMA ChildInv ==
  ASSUME Inv, ChildExits \/ ChildHangs \/ ChildSignalled
  PROVE  Inv'
<1>1. /\ child.stage \in {"running", "hung"} /\ child'.stage \in {"exited", "hung"}
      /\ child'.hash = child.hash /\ child'.epoch = child.epoch
      /\ child'.ok => Drawn[child.hash] # Nothing
      /\ child' \in Children
      /\ UNCHANGED <<source, queue, state, halt, page>>
  BY DEF Inv, Types, Children, Fresh, ChildExits, ChildHangs, ChildSignalled
<1>2. Types'
  BY <1>1 DEF Inv, Types
<1>3. Fresh'
  BY <1>1 DEF Inv, Fresh, Stale, Running
<1>4. Judged'
  BY <1>1 DEF Inv, Judged
<1> QED BY <1>1, <1>2, <1>3, <1>4, SilentSteps DEF Inv

\* The close event: publish, drop, or read the source again.
LEMMA CloseInv ==
  ASSUME Inv, ChildCloses
  PROVE  Inv'
<1>1. /\ source \in Contents /\ state \in States /\ state.revision \in Nat /\ halt \in Halts
      /\ queue \in Queues /\ child.stage = "exited" /\ child.hash \in Contents
  BY DEF Inv, Types, Fresh, ChildCloses, States
<1>2. child' = NoChild /\ UNCHANGED source
  BY DEF ChildCloses
<1>3. child' \in Children /\ child'.stage = "none" /\ ~child'.ok
  BY <1>2 DEF NoChild, Children
<1>4. halt' \in Halts /\ halt'.stopping = halt.stopping
  <2>1. \A h \in Halts : NoDrain(h) \in Halts /\ NoDrain(h).stopping = h.stopping
    BY DEF NoDrain, Halts
  <2>2. \A h \in Halts : Ended(h, FALSE) \in Halts /\ Ended(h, FALSE).stopping = h.stopping
    BY DEF Ended, Halts
  <2>3. halt' \in {Ended(NoDrain(halt), FALSE), NoDrain(halt)}
    BY DEF ChildCloses
  <2> QED BY <1>1, <2>1, <2>2, <2>3
<1>5. ASSUME NEW q \in Queues, q.pending = queue.pending
      PROVE  /\ Following(q) \in Queues /\ ~Following(q).pending /\ Following(q).lastGood = q.lastGood
             /\ Following(q).timer = "off" => Following(q).hash = q.hash
  <2> DEFINE reset == [q EXCEPT !.pending = FALSE]
  <2>1. reset \in Queues /\ reset.pending = FALSE /\ reset.lastGood = q.lastGood
    BY DEF Queues
  <2>2. CASE queue.pending
    <3>1. Following(q) = Queued(reset, source)
      BY <2>2 DEF Following
    <3> HIDE DEF reset
    <3>2. /\ Queued(reset, source) \in Queues /\ Queued(reset, source).timer = "armed"
          /\ Queued(reset, source).pending = FALSE /\ Queued(reset, source).lastGood = q.lastGood
      BY <1>1, <2>1, QueuedFields
    <3> QED BY <3>1, <3>2
  <2>3. CASE ~queue.pending
    BY <1>5, <2>3 DEF Following
  <2> QED BY <2>2, <2>3
<1>6. CASE halt.stopping /\ UNCHANGED <<queue, state, page>>
  <2>1. Types'
    BY <1>1, <1>2, <1>3, <1>4, <1>6 DEF Inv, Types
  <2>2. Fresh'
    BY <1>3, <1>4, <1>6 DEF Fresh, Running
  <2>3. Judged'
    BY <1>4, <1>6 DEF Inv, Judged, Running
  <2> QED BY <1>6, <2>1, <2>2, <2>3, SilentSteps DEF Inv
<1>7. CASE queue' \in {Queued([queue EXCEPT !.epoch = @ + 1, !.pending = FALSE], source),
                       Queued([queue EXCEPT !.pending = FALSE], source)}
             /\ UNCHANGED <<state, page>>
  <2>1. queue' \in Queues /\ queue'.timer = "armed" /\ ~queue'.pending /\ queue'.lastGood = queue.lastGood
    <3> DEFINE q == [queue EXCEPT !.pending = FALSE]
               r == [queue EXCEPT !.epoch = @ + 1, !.pending = FALSE]
    <3>1. q \in Queues /\ ~q.pending /\ q.lastGood = queue.lastGood
      BY <1>1 DEF Queues
    <3>2. r \in Queues /\ ~r.pending /\ r.lastGood = queue.lastGood
      <4>1. queue.epoch + 1 \in Nat
        BY <1>1 DEF Queues
      <4> QED BY <1>1, <4>1 DEF Queues
    <3> HIDE DEF q, r
    <3>3. queue' \in {Queued(q, source), Queued(r, source)}
      BY <1>7 DEF q, r
    <3> QED BY <1>1, <3>1, <3>2, <3>3, QueuedFields
  <2>2. Types'
    BY <1>1, <1>2, <1>3, <1>4, <1>7, <2>1 DEF Inv, Types
  <2>3. Fresh'
    BY <1>3, <2>1 DEF Fresh
  <2>4. Judged'
    BY <1>7, <2>1 DEF Inv, Judged
  <2> QED BY <1>7, <2>2, <2>3, <2>4, SilentSteps DEF Inv
<1>8. ASSUME NEW stage \in {"commit", "render"}, PublishFailure(stage), queue' = Following(queue),
             Running, ~Stale
      PROVE  Inv'
  <2> DEFINE s == [state EXCEPT !.status = "needs-fix", !.stage = stage]
  <2>1. s \in States /\ s.revision = state.revision /\ s.buffer = state.buffer
          /\ s.status = "needs-fix" /\ s.verified = state.verified
    BY <1>1 DEF States, Statuses
  <2> HIDE DEF s
  <2>2. Broadcast(s)
    BY <1>8 DEF PublishFailure, s
  <2>3. state' = s /\ page' \in Pages /\ Announced'
    BY <1>1, <2>1, <2>2, BroadcastAnnounces DEF Inv
  <2>4. queue.hash # queue.lastGood
    BY <1>1, <1>8 DEF Inv, Fresh
  <2>5. Types'
    BY <1>1, <1>2, <1>3, <1>4, <1>5, <1>8, <2>1, <2>3 DEF Types
  <2>6. Fresh'
    BY <1>1, <1>3, <1>5, <1>8 DEF Fresh
  <2>7. Judged'
    BY <1>1, <1>5, <1>8, <2>1, <2>3, <2>4 DEF Inv, Judged
  <2> QED BY <2>3, <2>5, <2>6, <2>7 DEF Inv
<1>9. CASE Running /\ ~Stale /\ child.ok /\ source = child.hash /\ Commit
  <2> DEFINE art == Drawn[child.hash]
             s == [status |-> "verified", verified |-> art, buffer |-> art, stage |-> "none",
                   revision |-> IF state.verified = art THEN state.revision ELSE state.revision + 1]
             q == [queue EXCEPT !.lastGood = child.hash]
  <2>1. art \in Artifacts /\ art # Nothing
    BY <1>1, <1>9 DEF Inv, Fresh, Artifacts
  <2>2. /\ s \in States /\ s.status = "verified" /\ s.verified = art /\ s.buffer = art
        /\ s.revision >= state.revision
        /\ s.revision = state.revision => state.verified = art
    BY <1>1, <2>1 DEF States, Statuses
  <2>3. s.revision # 0
    BY <1>1, <2>1 DEF Inv, Judged
  <2>4. Broadcast(s) /\ queue' = Following(q)
    BY <1>9 DEF Commit
  <2>5. q \in Queues /\ q.lastGood = child.hash /\ q.hash = child.hash /\ q.pending = queue.pending
    BY <1>1, <1>9 DEF Inv, Fresh, Queues
  <2> HIDE DEF art, s, q
  <2>6. state' = s /\ page' \in Pages /\ Announced'
    BY <2>2, <2>4, BroadcastAnnounces DEF Inv, Judged
  <2>7. Types'
    BY <1>1, <1>2, <1>3, <1>4, <1>5, <2>2, <2>4, <2>5, <2>6 DEF Types
  <2>8. Fresh'
    BY <1>3, <1>5, <2>4, <2>5 DEF Fresh
  <2>9. Judged'
    BY <1>5, <2>1, <2>2, <2>3, <2>4, <2>5, <2>6 DEF Judged
  <2> QED BY <2>6, <2>7, <2>8, <2>9 DEF Inv
<1> QED BY <1>6, <1>7, <1>8, <1>9 DEF ChildCloses, Supersede, Requeue

\* Stopping closes the page and disarms the timer; the world goes on.
LEMMA StopInv ==
  ASSUME Inv, (\E force \in BOOLEAN : Stop(force)) \/ ServerCloses \/ GraceEnds \/ KillTime
  PROVE  Inv'
<1>1. CASE \E force \in BOOLEAN : Stop(force)
  <2>1. /\ queue' = [queue EXCEPT !.timer = "off"] /\ page' = [page EXCEPT !.open = FALSE]
        /\ UNCHANGED <<source, child, state>>
    BY <1>1 DEF Stop
  <2>8. halt' \in Halts /\ halt'.stopping
    <3> DEFINE h == [halt EXCEPT !.stopping = TRUE, !.server = IF @ = "open" THEN "closing" ELSE @]
    <3>1. h \in Halts /\ h.stopping
      BY DEF Inv, Types, Halts
    <3> HIDE DEF h
    <3>2. halt' \in {Ended(h, FALSE), Signalled(NoDrain(h), "KILL"), Drain(h)}
      BY <1>1 DEF Stop, h
    <3> QED BY <3>1, <3>2, HaltFields
  <2>2. /\ page' \in Pages /\ page'.open = FALSE /\ page'.inbox = page.inbox
        /\ page'.revision = page.revision /\ page'.loading = page.loading /\ page'.frame = page.frame
    BY <2>1 DEF Inv, Types, Pages
  <2>4. queue' \in Queues /\ queue'.epoch = queue.epoch /\ queue'.lastGood = queue.lastGood
    BY <2>1 DEF Inv, Types, Queues
  <2>3. Types'
    BY <2>1, <2>2, <2>4, <2>8 DEF Inv, Types
  <2>5. Fresh'
    BY <2>1, <2>4, <2>8 DEF Inv, Fresh, Running
  <2>6. Judged'
    BY <2>1, <2>4, <2>8 DEF Inv, Judged, Running
  <2>7. Announced'
    BY <2>1, <2>2 DEF Inv, Announced
  <2> QED BY <2>3, <2>5, <2>6, <2>7 DEF Inv
<1>2. CASE ServerCloses \/ GraceEnds \/ KillTime
  <2>1. UNCHANGED <<source, queue, child, state, page>>
    BY <1>2 DEF ServerCloses, GraceEnds, KillTime
  <2>3. halt' \in Halts /\ halt'.stopping = halt.stopping
    <3> DEFINE closed == [halt EXCEPT !.server = "closed"]
               ended == [halt EXCEPT !.grace = "off", !.kill = "armed"]
               killed == [halt EXCEPT !.kill = "off"]
    <3>1. \A h \in {closed, ended, killed} : h \in Halts /\ h.stopping = halt.stopping
      BY DEF Inv, Types, Halts
    <3> HIDE DEF closed, ended, killed
    <3>2. \/ halt' = Ended(closed, child.stage # "none")
          \/ halt' = Signalled(ended, "TERM") \/ halt' = Signalled(killed, "KILL")
      BY <1>2 DEF ServerCloses, GraceEnds, KillTime, closed, ended, killed
    <3>3. CASE halt' = Ended(closed, child.stage # "none")
      BY <3>1, <3>3, HaltFields
    <3>4. CASE halt' = Signalled(ended, "TERM") \/ halt' = Signalled(killed, "KILL")
      BY <3>1, <3>4, HaltFields
    <3> QED BY <3>2, <3>3, <3>4
  <2>2. Types' /\ Fresh' /\ Judged'
    BY <2>1, <2>3 DEF Inv, Types, Fresh, Stale, Judged, Running
  <2> QED BY <2>1, <2>2, SilentSteps DEF Inv
<1> QED BY <1>1, <1>2

\* The page renders, loads or connects again.
LEMMA PageInv ==
  ASSUME Inv, PageRenders \/ PageLoads \/ PageReconnects
  PROVE  Inv'
<1>1. UNCHANGED <<source, queue, child, state, halt>>
  BY DEF PageRenders, PageLoads, PageReconnects
<1>2. /\ page \in Pages /\ page.inbox \in Seq(Events) /\ page.revision \in Nat /\ page.status \in Statuses
      /\ page.loading \in BOOLEAN /\ state \in States /\ state.revision \in Nat
      /\ state.buffer \in Artifacts
  BY DEF Inv, Types, Pages, States
<1>3. Fresh' /\ Judged'
  BY <1>1 DEF Inv, Fresh, Stale, Judged, Running
<1>4. CASE PageRenders
  <2> DEFINE event == Head(page.inbox)
             fresh == event.status = "verified" /\ event.revision # page.revision
             revision == IF fresh THEN event.revision ELSE page.revision
             rest == Tail(page.inbox)
             loading == page.loading \/ fresh
  <2>1. /\ event \in Events /\ event = page.inbox[1] /\ rest \in Seq(Events)
        /\ Len(page.inbox) \in Nat /\ Len(page.inbox) >= 1 /\ Len(rest) = Len(page.inbox) - 1
        /\ \A i \in 1..Len(rest) : rest[i] = page.inbox[i + 1]
    BY <1>2, <1>4, HeadTailProperties, LenProperties, EmptySeq DEF PageRenders
  <2>2. event.revision \in Nat /\ event.status \in Statuses /\ event.revision <= state.revision
    BY <2>1 DEF Events, Inv, Announced
  <2>3. page' = [page EXCEPT !.inbox = rest, !.status = event.status, !.revision = revision,
                             !.loading = loading]
    BY <1>4 DEF PageRenders
  <2>4. revision \in Nat /\ revision <= state.revision /\ loading \in BOOLEAN
    BY <1>2, <2>2 DEF Inv, Announced
  <2>5. event.status = "verified" => revision = event.revision
    OBVIOUS
  <2>6. ~loading => ~page.loading /\ revision = page.revision
    OBVIOUS
  <2> HIDE DEF event, rest, revision, loading
  <2>7. /\ page' \in Pages /\ page'.inbox = rest /\ page'.status = event.status
        /\ page'.revision = revision /\ page'.loading = loading /\ page'.frame = page.frame
        /\ page'.open = page.open
    BY <1>2, <2>1, <2>2, <2>3, <2>4 DEF Pages
  <2>8. \A i \in 1..Len(rest) : rest[i].revision <= state.revision
    BY <2>1 DEF Inv, Announced
  <2>9. page.open /\ rest # <<>> => rest[Len(rest)] = Shown(state)
    <3> SUFFICES ASSUME page.open, rest # <<>> PROVE rest[Len(rest)] = Shown(state)
      OBVIOUS
    <3>1. Len(rest) \in 1..Len(rest) /\ page.inbox # <<>>
      BY <2>1, EmptySeq
    <3> QED BY <2>1, <3>1 DEF Inv, Announced
  <2>10. page.open /\ rest = <<>> => event = Shown(state)
    <3> SUFFICES ASSUME page.open, rest = <<>> PROVE event = Shown(state)
      OBVIOUS
    <3>1. Len(page.inbox) = 1 /\ page.inbox # <<>>
      BY <2>1, EmptySeq
    <3> QED BY <2>1, <3>1 DEF Inv, Announced
  <2>11. Announced'
    BY <1>1, <2>4, <2>5, <2>6, <2>7, <2>8, <2>9, <2>10 DEF Inv, Announced, Shown
  <2> QED BY <1>1, <1>3, <2>7, <2>11 DEF Inv, Types
<1>5. CASE PageLoads
  <2>1. page' = [page EXCEPT !.loading = FALSE, !.frame = state.buffer]
    BY <1>5 DEF PageLoads
  <2>2. /\ page' \in Pages /\ page'.inbox = page.inbox /\ page'.status = page.status
        /\ page'.revision = page.revision /\ page'.frame = state.buffer /\ page'.open = page.open
    BY <1>2, <2>1 DEF Pages
  <2>3. Announced'
    BY <1>1, <2>2 DEF Inv, Announced, Shown
  <2> QED BY <1>1, <1>3, <2>2, <2>3 DEF Inv, Types
<1>6. CASE PageReconnects
  <2>1. page' = [page EXCEPT !.inbox = <<Shown(state)>>]
    BY <1>6 DEF PageReconnects
  <2>2. Shown(state) \in Events /\ Shown(state).revision = state.revision
    BY <1>2 DEF Shown, Events, States
  <2>3. /\ <<Shown(state)>> \in Seq(Events) /\ Len(<<Shown(state)>>) = 1
        /\ <<Shown(state)>>[1] = Shown(state) /\ <<Shown(state)>> # <<>>
    BY <2>2
  <2> DEFINE inbox == <<Shown(state)>>
  <2> HIDE DEF inbox
  <2>4. page' = [page EXCEPT !.inbox = inbox] /\ inbox \in Seq(Events) /\ Len(inbox) = 1
          /\ inbox[1] = Shown(state) /\ inbox # <<>>
    BY <2>1, <2>3 DEF inbox
  <2>5. /\ page' \in Pages /\ page'.inbox = inbox
        /\ page'.revision = page.revision /\ page'.loading = page.loading
        /\ page'.frame = page.frame
    BY <1>2, <2>4 DEF Pages
  <2>6. \A i \in 1..Len(inbox) : inbox[i].revision <= state.revision
    BY <1>2, <2>2, <2>4
  <2>7. Announced'
    BY <1>1, <2>4, <2>5, <2>6 DEF Inv, Announced, Shown
  <2> QED BY <1>1, <1>3, <2>5, <2>7 DEF Inv, Types
<1> QED BY <1>4, <1>5, <1>6

\* The author saves, something overwrites the output, or nothing happens.
LEMMA WorldInv ==
  ASSUME Inv, SaveSource \/ OutputLost \/ UNCHANGED vars
  PROVE  Inv'
<1>1. source' \in Contents /\ UNCHANGED <<queue, child, state, halt, page>>
  BY DEF Inv, Types, SaveSource, OutputLost, vars
<1> QED BY <1>1 DEF Inv, Types, Fresh, Stale, Judged, Announced, Shown, Running

LEMMA InvInit == Init => Inv
<1> SUFFICES ASSUME Init PROVE Inv
  OBVIOUS
<1>1. /\ state = [status |-> "checking", revision |-> 0, verified |-> Nothing, stage |-> "none",
                  buffer |-> Nothing]
      /\ child = NoChild /\ page = NewPage(state) /\ source \in Contents
      /\ queue = [hash |-> source, timer |-> "armed", pending |-> FALSE, epoch |-> 1,
                  lastGood |-> Nothing]
      /\ halt = [stopping |-> FALSE, stopped |-> FALSE, server |-> "open", grace |-> "off",
                 kill |-> "off", signal |-> "none"]
  BY DEF Init
<1>2. state \in States /\ queue \in Queues /\ halt \in Halts
  BY <1>1 DEF States, Statuses, Artifacts, Queues, Halts
<1>3. child \in Children /\ child.stage = "none" /\ ~child.ok
  BY <1>1 DEF NoChild, Children
<1>4. Shown(state) \in Events /\ Shown(state).revision = 0 /\ Shown(state).status = "checking"
  BY <1>1 DEF Shown, Events, Statuses
<1> DEFINE inbox == <<Shown(state)>>
<1>5. inbox \in Seq(Events) /\ Len(inbox) = 1 /\ inbox[1] = Shown(state) /\ inbox # <<>>
  BY <1>4
<1>6. page = [inbox |-> inbox, status |-> "checking", revision |-> 0, frame |-> Nothing,
              loading |-> FALSE, open |-> TRUE]
  BY <1>1 DEF NewPage
<1> HIDE DEF inbox
<1>7. page \in Pages /\ page.inbox = inbox /\ page.revision = 0
  BY <1>5, <1>6 DEF Pages, Statuses, Artifacts
<1>8. Types
  BY <1>1, <1>2, <1>3, <1>7 DEF Types
<1>9. Fresh
  BY <1>1, <1>3 DEF Fresh
<1>10. Judged
  BY <1>1 DEF Judged
<1>11. Announced
  BY <1>1, <1>4, <1>5, <1>7 DEF Announced
<1> QED BY <1>8, <1>9, <1>10, <1>11 DEF Inv

LEMMA InvStep == Inv /\ [Next]_vars => Inv'
BY ObserveInv, LaunchInv, ChildInv, CloseInv, StopInv, PageInv, WorldInv DEF Next

-----------------------------------------------------------------------------
(* The theorems                                                            *)

\* Every behaviour of the preview satisfies the invariant.
THEOREM Invariance == Spec => []Inv
<1> QED BY InvInit, InvStep, PTL DEF Spec

\* At rest the status tells whether what the source holds was published,
\* whatever saves, reverts, stale builds and faults came before.
THEOREM RestTellsSource == Spec => []AtRestTellsSource
<1>1. Inv => AtRestTellsSource
  BY DEF Inv, Judged, AtRest, AtRestTellsSource
<1> QED BY <1>1, Invariance, PTL

\* A page that has read its stream and loaded its frame shows the state of the
\* preview and the artifact it is about.
THEOREM PageShowsState == Spec => []PageCatchesUp
<1>1. Inv => PageCatchesUp
  BY DEF Inv, Judged, Announced, PageCatchesUp
<1> QED BY <1>1, Invariance, PTL

\* Only what the source holds is written to the output, and nothing once the
\* preview is stopping.
THEOREM CurrentIsPublished == Spec => OnlyCurrentIsPublished
<1> DEFINE Publishes == output' # output /\ output' # Foreign
                          => Running /\ output' = Drawn[source] /\ queue'.lastGood = source
<1>1. Inv /\ [Next]_vars => [Publishes]_vars
  <2> SUFFICES ASSUME Inv, Next, output' # output, output' # Foreign
               PROVE  Running /\ output' = Drawn[source] /\ queue'.lastGood = source
    BY DEF vars
  <2>1. ChildCloses /\ Running /\ source = child.hash /\ Commit
    BY DEF Next, ObserveSource, Launch, ChildExits, ChildHangs, ChildSignalled, ChildCloses, Supersede,
           Requeue, Stop, ServerCloses, GraceEnds, KillTime, PageRenders, PageLoads, PageReconnects,
           SaveSource, OutputLost
  <2> DEFINE q == [queue EXCEPT !.lastGood = child.hash]
             reset == [q EXCEPT !.pending = FALSE]
  <2>2. output' = Drawn[source] /\ queue' = Following(q)
    BY <2>1 DEF Commit
  <2>3. source \in Contents /\ queue \in Queues
    BY DEF Inv, Types
  <2>4. q.lastGood = source /\ reset \in Queues /\ reset.lastGood = source
    BY <2>1, <2>3 DEF Queues
  <2>5. Queued(reset, source).lastGood = source
    BY <2>3, <2>4, QueuedFields
  <2>6. Following(q) \in {q, Queued(reset, source)}
    BY DEF Following
  <2> HIDE DEF q, reset
  <2> QED BY <2>1, <2>2, <2>4, <2>5, <2>6
<1> QED BY <1>1, Invariance, PTL DEF Spec, OnlyCurrentIsPublished

=============================================================================
