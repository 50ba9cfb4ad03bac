# Salience and Archify: specifications, checks and proofs

The repository holds two programs.

**Salience** (`src/src/salience/`) runs durable jobs on Temporal: it turns sources into
briefs, briefs into media, and media into publications. Every step that reaches the outside
world is an *external effect* that must be authorised, paid for from a budget, sent at most
once and left on record.

**Archify** (`src/.agents/skills/archify/`) is a command-line tool that draws diagrams from
JSON documents: it lays out, routes, judges, compares and migrates them, previews them live,
delivers them as files, and looks for its own updates.

The specifications in this directory model the core of both.

## 1. The systems

### Salience

| component | code (`src/src/salience/`) | state it keeps | operations |
|---|---|---|---|
| governed publication workflow | `workflows/publication.py` | Temporal history, the payload handed from stage to stage, `_cancellation_requested` | nine activities, `request_cancellation` |
| publication repository | `publication/repository.py` | accounts, requests, plans, attempts, receipts, status events, publications, schedules | one transaction per method, keyed by idempotency keys |
| publisher adapters | `publication/providers.py`, `youtube.py`, `registry.py` | the remote posts | submit, status, reconcile, cancel, verify_webhook |
| durable cost reservations | `governance/cost_repository.py` | `budgets`, `budget_reservations`, `cost_ledger_entries` | reserve (two variants), settle, mark pending, release |
| canonical job store | `workflows/persistence.py` | `jobs`, `job_checkpoints`, `external_effects`, `job_dead_letters`, `audit_events` | create run, plan / claim / complete effect, terminal, dead letter |
| control plane | `api/` | none of its own | start, cancel, read, schedule, webhook ingress |
| schedules | `workflows/schedules.py` | Temporal schedules | create |
| creative production | `workflows/creative.py`, `creative/` | creative jobs, provider jobs, webhook receipts, assets, packages | thirteen activities, provider webhooks |
| durable dummy job | `workflows/jobs.py`, `effects.py` | its effect | checkpoint, external effect, dead letter |
| intelligence loop | `workflows/intelligence.py`, `intelligence/` | signals, packages, strategies, briefs | a chain of idempotent stages |
| pure parts | `governance/policy.py`, `plugins/`, `intelligence/scoring.py`, `creative/capabilities.py` | none | evaluate, resolve, rank, select |

**How they interact.** The API writes a `jobs` row and starts a workflow; a Temporal
schedule starts workflows on its own. A workflow calls activities one after the other and
decides on their results. An activity is a chain of short PostgreSQL transactions and
provider calls with awaits in between; nothing is held from one to the next. All executions
of one publication request meet in rows whose keys derive from the request's idempotency
key: the plan, the external effect, the reservation, the attempt, the receipt and the
publication. Budgets are shared by all requests of a programme.

**What is hard about it.** An attempt may crash between any two of its transactions and is
then repeated from its start. Temporal may also give up on an attempt by timeout while its
code goes on, so two attempts of one stage can write at the same time. A schedule and the
API can run the same request at once. Governance facts change while all this goes on.
Budgets are summed without a snapshot that covers both statements.

**What makes each part correct.**

- *publication*: no double post, no post on withdrawn authority, no unpaid post; a job state
  that tells the truth about the remote side; every execution ends and every claimed effect
  is resolved.
- *cost reservations*: a budget is never overcommitted; each reservation is settled or
  released at most once and its ledger says so.
- *creative production*: no variant submitted twice; a package only of variants that are on
  record, completed and imported; costs settled after the provider has ended; a cancelled
  production leaves nothing running and nothing reserved; a production ends.
- *control plane* (planned): one job and one workflow for each key; an interrupted start can
  be repeated.
- *intelligence* (planned): a repeated stage adds nothing; ranking and claim packaging agree
  with their definitions.

### Archify

| component | code (`src/.agents/skills/archify/`) | state it keeps | operations |
|---|---|---|---|
| update notifier | `scripts/check-update.mjs`, `scripts/update-contract.mjs` | a cache directory of generations, leases, claims and committed records | check, acknowledge |
| live preview | `bin/preview.mjs` | digests, timers, a child process, the page's event stream, the output file | observe, build, publish, serve, stop |
| command line | `bin/archify.mjs`, `renderers/shared/cli.mjs` | a staging directory beside the target | render, validate, deliver, compare, migrate |
| output paths | `renderers/shared/output-path.mjs` | none | resolve, compare identities, refuse |
| comparison and its review page | `delta/architecture-delta.mjs` | in the browser: the row, the view, playback token and timer | compare, draw, validate; play, pick, show, print |
| route geometry | `renderers/shared/geometry.mjs` | none | clearance, ports, crossings, corridors, labels |
| architecture renderer | `renderers/architecture/` | none | measure, route, frame, judge |
| artifact checker | `scripts/check-render-output.mjs` | none | reads a drawing and judges it |
| workflow compiler and migration | `renderers/workflow/`, `migrations/workflow-v2.mjs` | the feedback of earlier rounds | rank layout, contract, projection, mapping, enlargement |
| sequence, data flow and lifecycle renderers | `renderers/sequence`, `dataflow`, `lifecycle` | none | place and draw |

**How they interact.** The command line loads a document, has a renderer draw it and, for
`deliver`, `compare` and `migrate`, has the product checked before it moves it to its
target. `deliver` judges the artifact with the checker, which knows neither the document nor
the renderer: it reads the drawing back. What it has in common with the renderer are the
collectors of `shared/geometry.mjs` for corridors, border runs, rhythm and label clearance;
crossings and legs askew it measures by itself, on what is drawn. The preview runs `deliver`
as a child for each change of its source. The page a comparison writes validates itself in
the browser with a second description of what the drawing should contain. The update
notifier runs beside all of this, in as many processes as the user starts.

**What is hard about it.** Update checks are processes without a common lock: whoever
stalls past its lease is overtaken and must not write any more. In the preview the source
changes between any two callbacks, and a stop meets a child in any of its states. Commands
replace files one by one; a fault or a kill may come between two renames, and the target may
turn into another name of a source. Renderer and checker judge the same drawing by different
measurements. The workflow compiler learns from failed rounds and must neither forget nor
repeat what it has learnt.

**What makes each part correct.**

- *update notifier*: the directory acts as one record changed by one operation at a time; no
  update is lost, no reported acknowledgement undone, no acknowledged notice shown again;
  every call answers.
- *live preview*: only what the source holds is published; status and page tell the source
  as it is once nothing is under way; a stop always ends.
- *commands*: sources survive, what has not passed the checks never arrives, and what is
  reported is what was left behind.
- *comparison*: a page's validation accepts its drawing; a playback has one timer and ends.
- *renderer and checker*: what the one accepts and the other refuses can only be a crossing
  or a leg its author wrote askew; ports and titles stay apart.
- *workflow migration*: ranks are readable, pins keep their place, every round gains, and
  the output migrates to itself.

`PROJECT.json` lists every part of both programs, the ones that are left out too, with the
reason, and the hazards at the lines where they bite.

## 2. The modules

| module | what it is |
|---|---|
| `GovernedPublication` | all executions that can act on one publication request |
| `AtMostOnceEffect` | the abstract promise of an effect: planned, claimed, sent at most once, recorded |
| `CostReservations` | the reservations on one budget |
| `CreativeProduction` | one production, its provider jobs and their webhooks |
| `UpdateState` | the record of the update notifier and the functions on it |
| `UpdateLedger` | the abstract promise of the notifier: one record, one operation at a time |
| `UpdateNotifier` | the processes that share the cache directory |
| `LivePreview` | the preview's event loop, its child, its page |
| `OutputPath` | paths, links, identity and the refusals |
| `ArtifactCommands` | the commands that write files, as processes |
| `ArchitectureDelta` | the comparison, its drawing and what the page expects of it |
| `DeltaReview` | the script of the review page |
| `RouteGeometry` | the shared geometry |
| `ArchitectureRoutes` | routing, framing and judging of an architecture document |
| `ArtifactCheck` | what is drawn, and the checker |
| `DiagramDelivery` | composes the renderer and the checker |
| `WorkflowLayout` | the rank plan, the semantic contract, the mapping of pins |
| `WorkflowMigration` | the migration over the compiler's feedback loop |

`MC<module>` gives a module its values for TLC, `<module>Proofs` holds its theorems; those of
`DeltaReview` and of `DiagramDelivery`, with the modules under them, share `ArchitectureProofs`.
`RouteGeometry` <- `ArchitectureRoutes`, `ArtifactCheck` <- `DiagramDelivery`;
`OutputPath` <- `ArtifactCommands`; `ArchitectureDelta` <- `DeltaReview`;
`UpdateState` <- `UpdateLedger`, `UpdateNotifier`; `WorkflowLayout` <- `WorkflowMigration`.
Definitions marked as mutants are plausible bugs of the definition they stand beside; they
are used by no specification.

### GovernedPublication

An execution is a workflow: `wf[r]` is the stage it is at. Its stages are activities;
`Dispatch` starts an attempt of the stage in a *slot*, `cur[r]` names the slot whose result
the workflow awaits, and `pc[<<r, s>>]` says at which transaction or call the attempt is.
Each action of an attempt is one transaction or one provider call of the activity, in the
order of the code; `seen` is what the attempt remembers from one to the next. `Return` hands
the result to the workflow, and `Decision` is what `GovernedPublicationWorkflow.run` does
with it.

Three things go wrong, at most `MaxFaults` times in all: an attempt dies at any point
(`Fail`), the code itself raises (`RaiseAt`, not counted, it is no accident), and Temporal
gives up on the awaited attempt (`TimeOut`): the slot stays occupied by code that goes on
writing, and the retry takes another slot. With one slot there is no such overlap; with two
there is. The nonterminal stages are tried `MaxAttempts` times; the terminal ones have no
bound in the code and none here.

The environment withdraws facts (`Revoke`), starts the API's run, fires schedules, and asks
for cancellation. The facts are three groups that the code reads at different times: package
and account (read when a run is created, at the check and at the recheck), approval with
policy, rights, disclosure, connection and profile (check and recheck), and the budget (only
in the reserve). Reading one group is one step: the loader runs a single transaction. The
provider is the fixture adapter under one of its scenarios, which are its real answers; the
scenarios `quota` (rejects the create), `accepted`, `processing`, `failed` and `cancelled`
are all reachable from its constructor. A budget that other requests have exhausted is a
nondeterministic refusal in `Reserve`.

Left out: the checkpoint rows (each is an insert that changes no decision; that one can fail
is covered by `Fail`), the wording of results, the media delivery URL, and the creation of
accounts, approvals and requests, which happens before.

### AtMostOnceEffect

Two variables and four steps. `GovernedPublication` implements it with `status <- effect`
and `sends <- submits` (`EffectIsAtMostOnce`), `CreativeProduction` with the effect and the
submissions of each variant (`EffectsAreAtMostOnce`); both are checked and proved.

### CostReservations

One budget, any number of reservation keys and of concurrent reserve transactions. A reserve
is READ COMMITTED: it locks the budget row, then reads two sums in two statements, then
inserts. These are separate steps because settle, mark and release do not take the budget's
lock and may commit in between. Each of those three takes its reservation row's lock first
and writes everything in one transaction, so each is one step. `RollBack` is every way a
reserve ends without writing: the budget is exceeded, the effect belongs to another job, the
connection is lost. The sum is a constant operator, `SumOf`, of which only two facts are
assumed (`SumAssumption`: the sum of zeros is zero; changing one row changes the sum by the
difference). TLC runs with the fold over the keys, and evaluates the assumption for it.

### CreativeProduction

Built like `GovernedPublication`, for one workflow: `wf` is its stage, `cur` the slot it
awaits, `att[s]` the attempt in a slot: at which transaction it is, on which variant, what it
learned of each variant (`got`), which attempt it is and the poll counts it was given. A
stage walks through the variants in order and a retry begins with the first one again;
`payload` is what has been handed on. `row[v]` is the provider job's row and `remote[v]` the
job at the provider: they differ, and most of what can go wrong lies between them. Four
writers move a row: the submit's upsert (`RecordProviderJob`, which looks at no transition
table), polls and retries of `await_provider`, the cancellation, and webhooks (all three
through `Transition`). The receipt of a webhook and the transition it causes are two
transactions, so `hooks` holds the ones in between; they may come late, again, or be dropped.
`MoveRow` is a transaction that either makes the transition or raises out of the attempt.

The provider is the fixture with failures: it accepts once for each key, moves a job forward
or fails it (`Advance`) and cancels whatever it is asked to. What it reports as cost is
chosen for a behaviour: within the reservation, over it, or unknown. The budget is a
nondeterministic refusal (`Refuse`), as `CostReservations` has it in full. The four
preparation stages, which write agents' output under keys of the stage, are one action.

### UpdateState, UpdateLedger, UpdateNotifier

A call is a process with a program counter (`pc`), the generation it works under (`gen`),
the lower operations it has still to fence (`todo`) and its local variables (`mem`). The
disk is `kind` (which of `reserved-`, `pending-`, `committed-`, `fenced-`, `cancelled-<g>`
stands for a generation), `content` (the record of a committed one), `claim` (the generation
whose claim is installed as `active-claim`) and `retired`. One file-system call that others
can see is one step: reserve by mkdir, mkdir and owner file of the pending directory, looking
at the claim, renaming it away, installing one's own, looking again, fetching the manifest,
listing and fencing what is lower, reading the newest record and drafting the next one, and
the rename that commits it. A lease may run out at any moment while its operation is pending
(`Expire`), and a process may stop for ever between any two steps (`Crash`).

A record is what `state.json` holds: checks, failures, the candidates on offer and the ones
acknowledged, abstracted to what decisions are made of. `AfterCheck`, `AfterFailedCheck` and
`AfterAcknowledgement` are the three ways one record follows from another; `UpdateLedger`
allows exactly these, one at a time, and `ActsAsOneLedger` is the refinement, with the record
of the newest committed generation as the ledger.

Abstracted: the identity checks of every directory entry (inode, owner, mode, symbolic
links) are the one outcome `cache-unavailable`; the network is a fetched digest or a failure;
time is a reading of a clock that may be set back. A corrupt claim file and the recovery of
directories written by an older layout are left out.

### LivePreview

One Node process, so a callback is one step: `ObserveSource` (the poll that hashes the source
and queues a digest), `Launch` (the debounce timer that starts `deliver`), the child's exit,
close, hang and death by signal, `Stop` by one signal or two, the grace and kill timers, and
the server's close. `queue` holds the digest waiting, its timer, the epoch that tells a stale
build and the last good digest; `child` the running build with the digest and epoch it was
started with; `state` what the page may ask for; `page` one page with its stream of events,
which it renders in order, its frame, which it loads with a request of its own, and its
reconnects. The author saves between any two steps (`SaveSource`), old bytes too.
A hash stands for the content: collisions of SHA-256 are ignored. `Drawn` is what a renderer
makes of a content, and two contents may have one drawing.

### OutputPath, ArtifactCommands

A file system is a record of what each path names (nothing, a file, a link, a directory), what
each inode holds and whether the directory folds case, which a probe may fail to find out.
`OutputPath` has canonical paths, sameness of two names and the refusals; `ArtifactCommands`
runs commands as processes over it. A command reads its sources, builds a candidate in a
staging directory of its own, checks it, looks at the target again and renames. `compare`
commits a pair (drawing and receipt) with backups, and undoes what it did when a step fails.
`render` opens and writes its target directly. Between any two steps a source may be saved, a
target swapped (`World`), a call may fail (`MaxFaults`) or the process be killed
(`MaxCrashes`). `touched` remembers which targets somebody else changed since a command's last
look: no command can be blamed for these.

### ArchitectureDelta, DeltaReview

A document is sequences of items; an item is its id and one value for each group of fields
the comparison treats alike, so a value differs exactly when some field of the group does.
`Changes` is the receipt; `Targets` the elements `buildDeltaSvg` draws for a change, with the
states they are marked with; `ValidDrawing` is what the page's script asks of them. The two
are written apart in the code, and apart here. `DeltaReview` is the script: every handler maps
a review (row, view, playing, token, timer, pending timeouts) to the one it leaves; handlers
are the buttons, rows, keys, print, visibility, motion preference and the timer. `Tear` lets
the drawing change under the script. The token counts modulo `Tokens`, which is sound because
at most one timeout is pending at any time, as the proof shows.

### RouteGeometry, ArchitectureRoutes, ArtifactCheck, DiagramDelivery

Lengths are quarter pixels, so that every constant and tolerance of the code is a whole
number; drawn points count 64ths of that, so that the eight samples the checker takes of a
rounded corner are whole. `RouteGeometry` has the collectors every renderer shares.
`ArchitectureRoutes` routes a document connection by connection: sides, spread ports, the
alignment with facing ports, automatic, straight, orthogonal and authored routes, boundary
frames, titles raised above their blockers, and everything the renderer refuses.
`ArtifactCheck` draws what was routed, with rounded corners and masks, and reads it back as
the checker does. `DiagramDelivery` lets an author write a document line by line and runs the
one after the other: this is where two parts that share the measures of `RouteGeometry`, but
apply them to different lines, must agree. `Clearance2` measures a segment askew by its
bounding box, where the code takes the true distance: it refuses as much or more.

Left out: text inside components, the legend, grid placement, views wider than 930 px, the
layout report and the wording of problems, and with the legend and the page's text two
errors of the checker: a route across the legend and a desktop text that is too small to
read. A problem is its code and the items it names.

### WorkflowLayout, WorkflowMigration

`Ranks` is `createReadableLayout`: constraints between columns from nodes that share a lane,
direct relationships, labels, phases, groups and feedback, their least solution, and the
shifts and widenings that follow. `IsDocument` is the shape the schema gives a document.
`ContractHolds` is the semantic contract; `MapX` the piecewise mapping of pins onto new
ranks. `WorkflowMigration` is the command: compile the
document for its plan, again without hand-drawn routes if that fails, map the pins, compile
the result, enlarge the canvas if that alone is wanting, and decide. `CompileAgain` is one
round of the compiler's feedback, at most `MaxRounds`. The plan makes room for the first
column's nodes only; a node further right that is wider than the columns before it runs out
of its lane, and the compiler refuses it after routing (`InLanes`).

The router that searches a way for each relationship is not computed: each relationship has
a gap that it needs between its ranks and between lanes, fixed for a behaviour and unknown to
the solver. This stands for every router to which more room never closes a way. A relationship
without one asks for a rank gap if its nodes face each other across a gap (`Facing`): nodes in
different lanes that overlap horizontally have none, ask for room between lanes at most, and
are turned away if that does not help. Columns count from 1, lengths are whole pixels, texts
are widths; a pinned coordinate runs the full height of the drawing, and a mapped one is
rounded down to a pixel where the code keeps six decimals.

## 3. The runs

| run | question | instance |
|---|---|---|
| `PubAttempts` | one execution: attempts that crash, raise, or time out and go on; does it end | 1 API run, 2 slots, 1 fault, scenarios accepted, processing, failed, quota |
| `PubRivals` | the API's run and two firings of the same request | 1 API run, 2 firings, 1 fault, accepted and quota |
| `BudgetConcurrent` | reserves beside settles and releases | 4 keys, 2 transactions, limit 4, estimates 1 and 2, actuals 0, 1 and 3 |
| `CreVariants` | one attempt at a time, all costs, dry and real; does it end | 2 variants, 1 slot, 1 fault, webhooks that tell of completed jobs |
| `CreLate` | attempts that time out and go on, with every webhook | 1 variant, 2 slots, 2 faults, costs within and unknown |
| `CreUnpaid` | is a package's cost settled? (no) | 1 variant, 1 fault |
| `UpdCalls` | two calls on one cache directory that a finished call left behind, or one that crashed | 2 processes, 3 generations, 2 releases, 2 clock readings, 2 promotions, 1 retry, 1 crash |
| `PreviewEdits` | two saves beside builds, a page and a stop | 4 contents (two with one drawing, one unreadable), 2 saves, 2 faults |
| `CommandFiles` | two commands over one directory | all commands, 1 outside change, 1 fault, 1 kill |
| `DeltaPages` | every pair of a family of documents, and its page | 4 families of documents that vary one collection each, and one pair with three rows; 3 tokens |
| `DrawingRules` | every document of up to three lines and boundaries | 5 layouts (one off the grid), 12 kinds of connection, 4 boundaries, with and without the showcase profile |
| `Migrations` | schema-v1 documents over what the router may need | 5 nodes, 4 relationships, 2 lanes; labels, pins between, on and outside the ranks, groups, canvases or contracts; 3 rounds |

**What they show: Salience.** `AtMostOneSubmission`, `SingleCaller` and
`EffectIsAtMostOnce`: the claim in the database (`UPDATE ... WHERE status = 'planned'`) is
taken by one attempt ever, and everything after a lost attempt reconciles instead of
creating. `SubmitterPaid`: a rival execution cannot submit on another one's reservation.
`WithdrawnBeforeClaimNeverSubmits`: because the recheck comes after the claim, a fact that
had gone before the claim always stops the post. `CompletedEffectIsOnRecord`,
`PublicationIsEarned` and `JobStateIsTruthful` relate the rows that separate transactions
write. `NeverOvercommitted` holds although the two sums have no common snapshot: settling
inserts the actual amount as the reserved one goes, so a reserve that reads in between counts
the key twice, never not at all, as the reserved sum comes first. With the order of the two
statements swapped it would fail.

For productions: `EffectsAreAtMostOnce` rests on the same claim, for each variant.
`PackageIsWhole` holds although a submit may skip the awaiting of a variant: the import
refuses what the provider has not completed. `CancelledLeavesNothing` and
`CancellationIsOnRecord` hold for a cancellation anywhere, beside late attempts and webhooks.
`JobStateIsTruthful` is checked while attempts do not overlap, because with overlapping ones
the code breaks it: a late submit sets a dead-lettered row back to submitted, and the next
attempt carries a dead-lettered job on to a package. `ProductionEnds` has two exceptions,
which its definition names. Only cancel can raise for ever, and only where a released
reservation was taken for a live one, whose cost it cannot settle, or where a row and the
provider's job came to different ends: a webhook that completes the row after the
cancellation has read it live makes what the cancellation records a transition that is
refused, each time. Without either exception the run fails.

**What they show: Archify.** `DraftsAreCurrent` and `ActsAsOneLedger`: an operation that was
overtaken finds its pending directory fenced and its rename fails, so every record that is
ever committed follows from the one before. `AcknowledgementsLast` and `NoticedOnce` are
what the user sees of that. `EveryCallAnswers`: however claims, leases and rivals
interleave, a call ends in a bounded number of attempts. `AtRestTellsSource`,
`PageCatchesUp`, `OnlyCurrentIsPublished`: the epoch that is raised by every new digest is
what keeps overtaken builds out, and a revert to the published bytes restores the verified
status without a build. `PreviewSettlesAndStops`: a save is dealt with unless a child hangs,
and a stop ends even then. `SourcesSurvive`, `OnlyCheckedArrives`, `ReportsAreTrue`: with
exceptions that the definitions name and the code explains: `render` opens its target
without a staging step, a `compare` that is killed between two renames leaves a target
empty, and one that cannot put back what it moved says so. `DrawingMatchesReceipt`: no pair
of documents is drawn so that its own page refuses it. `OnlyCrossingsAreMissed`: on every
document of the run, off the grid too, all that the checker can find in what the renderer
accepts is a crossing, or in a route its author wrote a leg askew or along a border.
`PortsStayApart` and `TitlesAreClear` hold on all of them. `RanksAreReadable`,
`PinsKeepTheirPlace`, `EveryRoundGains` and `RepeatChangesNothing` hold through every round
of every migration. `EveryRoundGains` is an invariant and an action property: what is asked
for was not asked for before, and the next plan keeps every gap of the earlier rounds and
has one more, or more room between lanes. `PinsKeepTheirPlace` is about each pin and each
rank, and about any two pins: sides and order are kept, and a pin on a rank stays on it. The
ranks are those the pin was mapped with; that the accepted document may be laid out on
others is a difference of its own (`MigrationPlan`).

**Bounds, and why they are enough.**

- *Publications*: requests share only their budget, which `CostReservations` covers. Two
  concurrent attempts are what one timeout yields; `MaxAttempts` is two so that exhaustion
  is reached (three in the code), `MaxPolls` takes the poll loop to its bound (10). Two
  firings show the recurrence: the second finds everything the first left.
- *Budgets*: two keys fit and the third does not, one estimate of two competes with two of
  one, and an actual of three is an overage.
- *Productions*: two variants are the least that make a release of earlier ones and a walk
  that fails halfway; one is enough for what happens to a single provider job. One poll
  reaches the provider's timeout (300). Beside two variants one kind of webhook is enough to
  overtake a cancellation, and one fault to lose a released reservation; `CreLate` has all
  five kinds and two faults.
- *Update notifier*: two processes make every overtaking, and the third generation is the
  retry of the one that lost. The directory starts with one generation taken: committed by a
  check whose candidate can be acknowledged and whose claim is still there, or reserved by a
  call that crashed. Three processes, and an empty directory, are covered by the proofs.
- *Preview*: two saves make a revert, and an edit during a build that another edit
  overtakes.
- *Commands*: two processes with the same target; one outside change, one fault and one kill
  in the same behaviour meet each other at every step.
- *Comparison*: families vary one collection at a time in every combination of field groups,
  since changes of different collections are computed apart; three rows make a first, a
  middle and a last one.
- *Drawing*: three lines are the least that crowd a side, cross and share a corridor; the
  layouts put facing ends in line, 8 px off and across. One layout is off the grid of 8 px:
  in it two accepted routes share a line for less than 8 px and cross when drawn, so the
  difference that `OnlyCrossingsAreMissed` allows for is there (`DrawingOffGrid`).
- *Migrations*: five nodes make a chain with all four pairs of neighbours; gaps of 0, 156
  and 190 px are there in some plans and not in others, so that none to four of them are
  asked for and three rounds sometimes do not suffice. Some documents have a node 400 px
  wide in the second column, which the plan leaves outside its lane, and some have
  overlapping nodes in neighbouring columns of different lanes. Pins lie between ranks, on
  the last one, left of the first and right of the last; documents with each of them are
  accepted.

Deadlock is checked in `BudgetConcurrent` and `Migrations` (whose end is an explicit
stuttering step). All other cfgs say `CHECK_DEADLOCK FALSE`: executions, calls, commands and
deliveries end, a preview stops, and then nothing is left to do.

**Fairness.** For workflows `WF_vars(\E s \in Slots : Dispatch(r, s))`: Temporal keeps an
open stage on its task queue until some worker takes it; and `WF_vars(AttemptStep(r, s))`:
code that runs goes on. Nothing is assumed of the API, schedules, operators, the provider or
faults. Terminal activities are retried without bound, so ending relies on the faults being
finitely many. A webhook may come at any time or never. For the update
notifier `WF_vars(Step(p))`: a process that runs goes on unless it crashes; no lease needs to
expire. For the preview weak fairness of timers, process events and the page's own handlers:
the event loop runs them; saving, failing, hanging and stopping owe nothing. For the review
page weak fairness of its timer. No strong fairness is used. `ArtifactCommands`,
`DiagramDelivery` and `WorkflowMigration` assume none and state safety only.

**Where code and documents disagree.** `CreUnpaid` is a run: README says that each provider
effect settles its cost before a package; a retried submit that finds the provider finished
passes the settlement by. Further configurations lie beside it; each has a counterexample to
one property and can be run with its module in the same way:

| configuration (module) | property | what the counterexample shows |
|---|---|---|
| `PubExhausted` (`MCGovernedPublication`) | `ExhaustedIsDeadLettered` | `docs/recovery.md`: retry exhaustion creates a dead-letter record; the publication workflow catches no activity failure and leaves the job running |
| `PubBudgetWithdrawn` (`MCGovernedPublication`) | `BudgetWithdrawnBeforeClaimNeverSubmits` | README and ADR 0006: the budget is rechecked right before the submit; the recheck passes the literal `"reserved"` |
| `CreUnreserved` (`MCCreativeProduction`) | `SubmittedIsReserved` | README: each provider effect reserves its cost; a retried authorize takes a reservation it has released for a live one |
| `CreRewrite` (`MCCreativeProduction`) | `TerminalRowStays` | the progress log: provider jobs reject rewrites from terminal states; the submit's upsert makes them |
| `DeltaBrand` (`MCDeltaReview`) | `CompleteReceipt` | documents that differ only in a brand mark or the locale compare as "no authored changes" |
| `DrawingOffGrid` (`MCDiagramDelivery`) | `AcceptedPassesCheck` | two automatic routes that share a line for less than 8 px pass the renderer and cross when drawn |
| `MigrationContract` (`MCWorkflowMigration`) | `ProjectionKeepsContract` | the projection drops hand-drawn edges but keeps the checks that name them, and is turned away for breaking these |
| `MigrationPlan` (`MCWorkflowMigration`) | `MappedToFinalRanks` | pins are mapped to the plan of the projection; the mapped document may settle on another one |

One more difference was met that the bounds of a run leave out: a preview page that is opened
while the status is needs-fix says which revision it shows but loads no artifact. It is the
note of a hazard. The preview's digest of what was drawn and its rename are one step of the
model, since one callback makes both; a save between the two is a save right after.

## 4. What is proved

TLAPS proves, for every value of the constants that the assumptions admit:

| theorem | of | says |
|---|---|---|
| `TypeCorrect`, `CallerIsSingle`, `SubmittedAtMostOnce`, `EffectRefinement` | `GovernedPublication` | any number of executions, slots, attempts, polls and faults: one caller, one submission, an at-most-once effect |
| `EarnedThroughout`, and from it `SubmitterAlwaysPaid`, `WithdrawnNeverSubmits`, `CompletionIsRecorded`, `PublicationEarned`, `JobsAreTruthful` | `GovernedPublication` | the same executions: what was submitted was paid and approved, what is completed or published is on record, and final job states are true |
| `BudgetTypeCorrect`, `BudgetNeverOvercommitted`, `LedgerIsTruthful`, `ClosedForGood` | `CostReservations` | any keys, transactions, amounts |
| `EffectsHappenOnce` | `CreativeProduction` | any number of variants up to three, slots, attempts, polls, faults, webhooks: each variant implements `AtMostOnceEffect` |
| `CourseIsKept`, and from it `PackagesAreWhole`, `CancellationCleansUp`, `CancellationsAreRecorded`, `VerdictsAreTruthful` | `CreativeProduction` | the same, with overlapping attempts: packages are whole, a cancellation leaves nothing running or reserved, verdicts are true |
| `JobStatesAreTruthful` | `CreativeProduction` | one attempt at a time (one slot): all of `JobStateIsTruthful`, dead letters included |
| `TypesHold`, `NoUpdateIsLost`, `AcknowledgementsStay`, `NoticesAreNotRepeated`, `Refinement` | `UpdateNotifier` | any number of processes, generations, releases, promotions, crashes: the directory implements `UpdateLedger` |
| `RestTellsSource`, `PageShowsState`, `CurrentIsPublished` | `LivePreview` | any contents and drawings, saves and faults |
| `CheckedArrives` | `ArtifactCommands` | any number of commands on any file system, with any interference |
| `Faithfulness`, and from it `TrueReports`, `SourcesStay` | `ArtifactCommands` | any number of commands, where targets and sources have names of their own: reports are true, sources survive |
| `PlaybackHasItsTimer` | `DeltaReview` | any pair of documents, any number of rows |
| `DrawingIsExpected` | `DeltaReview` | any pair of documents: what is drawn of a change is what the page expects of it |
| `TitlesClear` | `DiagramDelivery` | any components and boundaries: each title ends clear of every component and every other title |
| `PortsApart` | `DiagramDelivery` | any document: automatic ends that share a side arrive at points of their own, in the order of what they lead to |
| `RoundingAddsNone` | `DiagramDelivery` | any document: what the check finds wrong with an accepted route of the renderer's own is a crossing or nothing |
| `ReadableRanks`, `RoundsGain`, `PinsStayPut`, `OutputIsStable` | `WorkflowMigration` | any documents, needs of the router and number of rounds: plans are readable, rounds gain, pins keep their place, and the output migrates to itself |

**Along which argument.** None of these properties is inductive by itself.

- *Publication.* `SingleCaller` is, beside the types: an attempt between claim and call has
  the effect to itself and nothing has been sent, and whoever records a receipt comes after
  the one submission. `AtMostOneSubmission` alone does not keep two attempts from standing
  before the call. The refinement follows step by step.
- *Publication, what is earned.* `Earned` says what every attempt can rely on at each program
  counter (`Sound`), what every stage of a workflow stands for (`WorkflowsSound`), and what
  the rows say of each other (`RowsSound`). It is inductive because no step takes back what a
  row says (`Grown`), so only the attempt that moves has to earn its next step. One clause is
  easily missed: a workflow at `authorize` awaits an attempt of that activity and no other
  workflow does (`Answers`), or an answer could let a workflow into a stage it did not pay
  for. `DenialsSound` adds that a denied execution either never tried, or gave up its claim
  after the recheck, and a claim that was given up stays so (`Abandoned`, which rests on
  `SingleCaller`).
- *Budget.* `Locking`: an open transaction holds the lock, and nobody else can insert the key
  it found unused. `Counting`: what the keys hold is at most what was counted, although other
  rows change meanwhile: after the first statement by what was read plus the settled amounts
  as they are now, after the second by what was read. The sum enters by `SumAssumption` only.
- *Production.* `Sent`: what was sent was claimed, and neither a row nor a job at the provider
  exists of what was not sent. `Placed`: an attempt before the call has the claim to itself,
  and attempts behind it stand on something sent. Most steps move neither; the lemmas
  `SameInv` and `ApartInv` deal with all of these at once.
- *Production, packages and cancellations.* `Kept` is `Sound`, what any attempt, awaited or
  late, can rely on at its program counter; `Turn`, what the awaited one returns with;
  `Truth`, what rows say of the provider's jobs; `Course`, what has been recorded when the
  workflow is where it is; and `Delivery`, what a package is built of. As for publications it
  is inductive because no step takes back what an attempt relies on (`Forward`): a provider
  job that is over stays over (`Closed`), even where a late submit rewrites its row. A package
  is whole because the import refuses what the provider has not completed, not because the
  workflow went through `await_provider`. `Finished`: once the package is built, or about to
  be, the workflow is past where a cancellation is looked at. `Alone` adds, for one slot, that
  no attempt gets past a dead-lettered row; only the clause on dead letters needs it.
- *Update notifier.* `Owned`: a generation belongs to one process. `Fenced`: an operation
  whose directory is still pending is older than no committed one, and is on the list of
  every later one that fences. This is the heart: an operation that could still commit is one
  that every later operation will stop before it reads. `Drafted`: a draft is a change of the
  newest record while its directory stands. `Answered`: what callers were told is on record.
  `HasLatest`: some committed generation is the newest.
- *Preview.* `Fresh`: a build of the present epoch is of the digest queued last, and no timer
  is outstanding. `Judged`: without timer and build the verdict is about the queued digest.
  `Announced`: the last event in the stream is the state, and a frame that is not being
  loaded is that of its revision.
- *Commands.* `Staged`: which command stands at which step and what it has checked there.
  `Unmoved`: a staged file is nowhere before its command has moved it, and no backup is a
  file of its own, so restoring one cannot pass for delivering it.
- *Commands, what they report.* `Truthful` follows each command and each of its targets for
  as long as nobody else touches the target (`Standing`): up to the commit what was there
  before is still there; after each step of a pair the target holds the old file, the new
  one, or nothing while its backup is kept (`PairStands`). Of the steps of everybody else it
  needs only `Effect`: each looks, changes the entry of one target, or writes through the
  inode a render found, and the target it changes is touched for all others; so a target that
  stays untouched stays as it is (`Undisturbed`). A source is safe because a path that leads
  to it is refused, and `LinksLead` says where following the links of a path leads.
- *Review page.* `Paced`: the script's timer variable names the timeout that is pending, or
  `stopPlayback` could leave one behind.
- *Comparison*. The drawing follows the two snapshots, the
  expectation the forms of a change; they agree because of which statuses and classes
  `compareEntities` lets meet (`ComponentChange`, `RelationshipChange`, `BoundaryChange`): a
  change of topology is always "changed", "rerouted" always moves, what is added or removed
  has the class of its identity alone. A drawing that matches has each form once
  (`ExactlyBoth`, `OutlinesApart`), because two forms differ in their state.
- *Drawing.* The four actions are simple, and so is the invariant, `DeliveryInv`: what the
  renderer keeps is what it measured of a document that no longer changes, and an artifact is
  judged only if no problem was found. What has to be proved is what the measuring computes,
  for any document. Its recursive functions are unfolded by two lemmas that state induction
  and recursion about sets and functions (`SetInduction`, `Recursion`).
- *Titles.* A box that a title was raised over is below it for good, so each raise leaves
  fewer boxes that can still be in its way (`SettledIsClear`), and the number of tries is one
  more than the number of boxes. Titles are placed in the order of their frames' areas, a
  permutation because ties go by position (`RanksRise`, `TitleOrder`).
- *Ports.* A fan is numbered by a strict total order: the last two places of a key, the
  connection and the end, tell any two apart (`LowerIsTotal`, `RanksFollowKeys`). A side that
  spreads has a quarter pixel for each number (`PortsFollowRanks`). The alignment with a facing
  port leaves an end that shares its side where it is (`AlignedKeepsShared`), and every route
  that is tried, normalised or not, starts and ends where it is told to (`AutomaticRuns`,
  `NormalizedKeepsEnds`).
- *What is drawn.* All of those routes run along the axes, too. A stroke of the rounded path
  stays on a leg, or curves from one leg to the next (`Traced`, by induction on the corners),
  so a curve that is straight has both its halves on one line (`TurnIsStraight`), and what runs
  along a border when it is drawn has a leg that does (`DrawnRunsAlong`). Corridors, rhythm and
  labels the checker measures of the same points as the renderer (`SameMeasures`).
- *Rank plan.* `Meets` goes from column to column: a constraint ends at a later column than
  it begins at, so the columns placed so far stay as they are (`NextMeets`), and the plan
  solves all of them (`SolvedMeets`). The three shifts move all columns alike and groups move
  with them (`GroupMoves`), so that no shift undoes what the solver or an earlier shift
  achieved (`RanksAre`). `PlanIsReadable` reads the properties off.
- *Feedback.* `Sound`: feedback consists of gaps, and while a document is compiled its ranks
  are the plan for that feedback. Hence a gap once asked for is there (`FeedbackIsMet`), a
  pair that asks again asks for more (`AskingGrows`), and a request that takes an earlier
  one's place implies it (`RoundGains`). So `Grows`, the check the code makes against asking
  for the same again, never fails.
- *Pins.* `PinsFollow`: on its way a document is the projection, without pins, or the source
  with its pins mapped to `planned`, and only the latter is accepted. `MapKeepsSide` is about
  one pin: with whole pixels rounded down, no segment carries it past its ends, and the
  outer ones only outwards. `MapKeepsOrder` is about two: either a rank lies between them, or
  one segment maps both. `MappedPins` says that pins are mapped one by one, in their places.
- *Migration repeated.* A compile is a walk from one feedback to the next (`IsWalk`) that the
  document and the needs decide, the final box included. `Repeats`: the first run has walked
  to where it is, and an accepted one to a document that compiles (`OnTheWay`); the second
  run starts over on that walk, and on it either compiles or can go on (`WayGoesOn`), so
  there is nothing to reject it for. The operators of an attempt are restated there for any
  document, feedback and ranks (`Seen`), since a walk is about states that are past.

**From which assumptions.** Those the modules name: bounds are naturals, markers are no
members of the sets they are told from; `ApiAssumption` (one run of a key through the API,
from the unique `jobs` key); `SumAssumption`; `VariantAssumption` (one to three variants, as
the request's schema has it); that the staged files of a command have inodes of their own,
and that the markers for a foreign file and for a loop of links are no paths; that a
document has finitely many changes; `DocumentAssumption` (migration sources are schema-v1
documents of the schema, with pins on whole pixels). For documents on their way to the
reader: components are finitely many boxes on whole quarter pixels (`LayoutAssumption`),
connections and boundaries name components that exist (`LineAssumption`,
`BoundaryAssumption`; the renderer refuses others), and a side that spreads its ports at all
is at least a quarter pixel wider for each end that may arrive (`RoundingAssumption`: the
model rounds ports to quarter pixels where the code has fractions). Two theorems have a
hypothesis more. `NamesApart`, for what commands report: the two targets are two paths and
neither is a source's; they may still be links or hard links to a source. A command refuses
a target with the name of a source of its own, or of its other target (`Aliases`), but may
well be told to write what another command reads. `OneAtATime`, for `JobStatesAreTruthful`:
there is one slot, since overlapping attempts break the property.

**Only model-checked.** Liveness (`EveryRunEnds`, `EveryClaimResolves`, `ProductionEnds`,
`EveryCallAnswers`, `PreviewSettlesAndStops`, `PlaybackEnds`): the prover has no reasoning
for fairness. That accepted routes do not cross when drawn is not proved, and is not true off
the grid of 8 px (`DrawingOffGrid`); `RoundingAddsNone` proves the rest of what renderer and
checker agree on, for every document.

## 5. Plan

Done: the three Salience modules with their proofs; Archify's update notifier, preview,
commands, comparison, drawing and migration, all with proofs. Next, in this
order:

1. `ControlStart`: a start that races with another, and one that is interrupted.
2. The sequence, data flow and lifecycle renderers on top of `RouteGeometry`.
3. `PublicationFacts`: accounts, approvals and webhook deliveries of publications.
4. `DurableDummy`: a write effect without a claim, timeout and dead letter.
5. `IntelligenceLoop`: idempotent stages with partial source failure.
6. Pure operators with reference definitions: publisher registry, policy evaluation, plugin
   resolution, capability selection, ranking, deduplication.

## 6. Not modelled, and why

*Salience*: YouTube and Synthesia HTTP mapping, media inspection, S3, RSS and browser
fetching, tracing, configuration, the CLI and the SDK are I/O or thin clients. Model calls,
MCP and A2A have no protocol of their own beyond a check in front of a library. Database
migrations are generated text.

*Archify*: the visual check and the opener drive a browser, and what they find is what the
browser renders. Schema validators and brand marks are generated data. Text measuring,
translations and the legend have no state. `guide`, `doctor`, `examples`, `evidence` and
`brands` only read. The router of the workflow compiler is replaced by what each relationship
needs, as said above.
