# Verification of the kira backend

The backend (`src/backend`) collects supply chain data from suppliers, parses
their documents, runs every submitted product through a pipeline of compliance
checks and stops for human reviewers where a check is in doubt. It is a few FastAPI
processes, ARQ workers on redis queues, handlers of PostgreSQL notifications and a
LangGraph graph whose checkpoints live in the same database. This directory
holds TLA+ models of its core, the TLC runs over them and TLAPS proofs.

## Inventory

| Part | State | Operations | Interacts with |
|---|---|---|---|
| Batch pipeline (`agents/graph.py`, `supervisor.py`, `state.py`) | the thread's checkpoint: next node and `BatchState`; `batches.status`, `current_stage` | `create_batch`, `start_graph`, `resume_graph`, one node per step, `setup_graph` | started by handlers and by the pipeline worker, resumed by the hitl worker |
| Nodes (`data_gateway`, `geo_audit`, `compliance`, `automation`, `final_judgment`) | the rows of their results | one commit each; may set `error_reason` | read extractions, supply chain, regulations; call models and geocoders |
| HITL (`hitl/`, `domains/audit/state_machine.py`) | `hitl_reviews`, `batches.status` | `resolve`, `approve`, `reject`, `decision`; `pause_batch_for_review`, `resume_batch_processing` | resumes the graph over `hitl_queue`, publishes rejections |
| Job queues (`infrastructure/queue.py`, `workers/`) | ARQ jobs and kept results | `enqueue` with a fixed job id; retries after a worker died | API, handlers and workers |
| Event bus (`infrastructure/event_bus.py`) | the connection that holds the listener lock | `publish` (NOTIFY), `_listen_loop`, `_dispatch` | every domain publishes, `handlers/` subscribe |
| Document parsing (`workers/document_parse_worker.py`, `data_gateway.parse_document`) | `submission_documents`, `processed_jobs`, `document_extraction_results` | ingest, claim, parse, confirm, sweep | vision model, data gateway node |
| Submissions (`domains/submission`) | `data_request_log.submission_status`, `pipeline_triggers` | create, submit, approve, reject, rework, remind | creates batches, enqueues the pipeline, publishes events |
| Audit trail (`infrastructure/trace.py`, `domains/audit`) | `audit_trail`: a hash chain per batch | append after every traced call, `verify_chain` | every traced function |
| Products and BOM versions (`domains/product`) | `bom_versions.status`, `parts.parent_part_id`, `bom_items` | activate, deprecate, `get_bom_tree` | submissions look for the one active version |
| Supply chain map (`domains/supplychain`) | `supply_chain_map` rows: parent, child, hop level, status; `supply_ratio` | register, connect, declare source, verify, confirm; tree, gaps, contributions, validation, requests for what is missing | the pipeline walks the tree; gaps raise data requests and the word that a map is complete |
| Suppliers and onboarding (`domains/supplier`) | `suppliers`, `users`, factories with their declarations, risk profile | register, invite, sign up (account, agreement, sub-suppliers), master form, set risk | invitations, notifications, consent documents |
| Data consent (`domains/consent`) | `data_provision_consents` | create, update | the sign-up signs a document and opens the supplier's gate |
| Notifications (`workers/notification_worker.py`, `handlers/`) | `notifications` with a dedup key | enqueue per recipient, store, mail, mark sent; daily reminders; claim of an invitation | mail server |
| Risk (`domains/risk`) | the supplier's score, level and history | recalculate in the pipeline, set over the API | compliance results, list of suppliers |
| Regulations (`domains/regulation`) | regulations, clauses, their embeddings | the indexer of each boot; search by the judges | compliance |
| Container (`main.py`, `docker/`) | processes, listener lock, setup lock | boot, lifespan, stop | event bus, indexer |

What is hard: several processes work on the same batch (the guard of one reads
a column the other has not written yet); a stop is an interrupted node that is
run again from its first line; a decision crosses an HTTP request, a queue and a
checkpoint, and each may die between two commits; job ids make a queue drop
what it takes for a duplicate; most check-then-write sequences share no lock.

What makes each part correct: *pipeline and HITL*: a stop is passed on an
approval of its own, one open review per stop, no judgment without its checks,
a judged batch stays judged, every batch is judged or rejected in the end.
*Parsing*: a document is parsed at most once and not lost; a job marked done has
its result; the gate opens when the supplier confirmed. *Submissions*: the
lifecycle is followed under concurrent reviewers, an approved submission has
exactly one pipeline run. *Audit*: what verify_chain calls tampering is
tampering. *BOM*: one active version per product, a tree with every part once.
*Map*: no cycle among suppliers, one connection per version, an invited supplier
below its inviter; who lacks something is asked, once, and the prime is told of a
complete map only when it is. *Onboarding*: one account per supplier, events
backed by rows, a refusal is not signed. *Notifications*: nothing mailed twice, a
supplier hears of its request. *Judgement*: what passes has been checked whole,
what is in doubt is reviewed, what is told is stored. *Bus*: each handler once at
most; someone listens. *Index*: a search finds a regulation whole or not at all.

`PROJECT.json` lists every component with its status and every hazard at its
line.

## Modules

| Module | What it models |
|---|---|
| `HitlGate` | The abstract gate of one batch: what the human-in-the-loop promises. |
| `BatchPipeline` | One batch: its runs, checkpoint, rows, reviewers, resume job, faults. |
| `BatchPipelineProofs` | Theorems about `BatchPipeline`. |
| `Submission` | One data request: submit, approve, rework, reject, its batches and its trigger. |
| `SubmissionProofs` | Theorems about `Submission`. |
| `DocumentParse` | The documents of a supplier: ingest, queue, worker, sweeper, confirmation. |
| `AuditChain` | The audit trail of one batch: its writers, outside changes, `verify_chain`. |
| `SupplyLinks` | Suppliers and links, what lies below a supplier. For the next two. |
| `SupplyGraph` | The rows of the supply chain map: relations, source changes, invited suppliers. |
| `SupplyMap` | What is read from the map: tree, gaps, contributions, validation, requests. |
| `SupplyChainProofs` | Theorems about `SupplyGraph` and `SupplyMap`; lemmas about graphs, paths, sums. |
| `BomVersion` | The versions of a product, activation and deprecation, the BOM tree. |
| `BomVersionProofs` | Theorems about `BomVersion`. |
| `Onboarding` | Registration, sign-up, sub-suppliers, accounts, consent documents. |
| `SupplierProofs` | Theorems about `Onboarding` and `DocumentParse`, what a supplier does. |
| `Notification` | The notification queue, its worker, reminders, invitations. |
| `RecordProofs` | Theorems about `AuditChain` and `Notification`, what is recorded and told. |
| `EventChannel` | The abstract channel from an event to its handlers. |
| `RegulationIndex` | The indexer of regulations and what a search finds. Component of `EventBus`. |
| `EventBus` | The API container: boot, processes, listener election, dispatch. |
| `EventBusProofs` | Theorems about `EventBus` and `RegulationIndex`. |
| `CarbonFootprint` | Factories, declarations and the judge of article 7. Component of `Judgement`. |
| `Judgement` | What the nodes find and store: places, verdicts, score, final judgment. |
| `JudgementProofs` | Theorems about `Judgement`. |
| `MC*` | Values and symmetry sets for TLC, for the modules that need them. |

`EventBus` and `Judgement` compose their components by `EXTENDS`: each of their
actions says what it does to the other's variables. The other modules meet at
named points: `Submission` publishes the events and enqueues the job that are
the start paths of `BatchPipeline`; the results of `DocumentParse` decide whether
its `DataGateway` stops; `Judgement` has the data of one run at a time where
`BatchPipeline` has the control of overlapping ones; each traced call is a writer
of `AuditChain`; `SupplyGraph` says how rows of the map come about, `SupplyMap`
what is read from them; events travel as in `EventBus`, which is why every module
lets an event come once at most, late, or not at all.

### BatchPipeline

A *run* is one `ainvoke` of the graph, named after what started it:
`SubmissionCompleted`, `SubmissionApproved` (handlers), `pipelineJob` (worker),
`hitlJob` (the resume job). Its record holds the node it is at, its own copy of
the `BatchState`, the resume answer it has not read yet and, inside
`hitl_interrupt`, whether the lookup found no review. `ckpt` is the latest
checkpoint of the thread; every node writes it (`Superstep`), so overlapping
runs overwrite each other.

What the model takes from LangGraph, which is not under `src/`:

* new input on a thread replaces the keys it names and keeps the others: an
  `error_reason` of an earlier run survives `start_graph`;
* `Command(resume=...)` runs the interrupted node again from its first line,
  and its answer is lost after the first superstep if no `interrupt()` asks;
* a node that raises leaves the checkpoint before it;
* resuming a finished thread executes nothing.

From ARQ: a job id is refused while it is queued, running or its result kept;
only a job whose worker died runs again, one that raised does not.

Every node but `hitl_interrupt` is one action because it commits once. In
`hitl_interrupt` the database steps are apart: `PauseBatch` (the UPDATE takes
the row lock, `rowLock`), `FindReview` (the lookup), `CommitReview` (insert and
commit), then `Interrupt` or `ResumeBatch`. `pause_batch_for_review` is called
with positional arguments, so `trace_node` finds no `batch_id`, writes no audit
row and does not commit: this is why the lock outlives the call.
`HitlService.resolve_batch` gets `batch_id` by keyword, so there the audit row
is written and the decision committed inside the service; the router's commit
adds nothing. The four decision endpoints are one protocol: read a row
(`ReadReview`: `get_by_batch_id` has no order, any open row may come back),
write it back with the decision (`CommitApproval`, `CommitRejection`), enqueue
(`EnqueueResume`). A rejection only reaches a batch that is waiting.

`supervisor.route` is called as a conditional edge, where a change of the state
is not kept: compliance runs with what the nodes left. Compliance may leave
`error_reason` as it is (no applicable regulations), clear it or raise it.

The guard of the handlers (`batch_trigger.py:57`) reads `current_stage`, which
`final_judgment_node` alone writes, and the pipeline worker has no guard: several
start paths really run one batch together, against the comment at line 12.

Its properties:

* `OnePendingPerStop`: at most one open review per stop, through overlapping
  runs. It rests on the row lock alone: `PauseBatchCommitted` breaks it.
* `ImplementsGate`: every step is a step of `HitlGate`, or none. A stop is
  passed by spending an approval, never on nothing, by whatever run.
* `JudgedAfterChecks`: a batch at `stage_judgment` has the audit of coordinates
  and the risk score committed that lay ahead of it, also after restarts and
  replays. `entry` is history, the stage the batch began at: a batch the seeds load
  at a later stage was never audited, since no seed fills `geo_audit_results`, and
  none is made up for (see "What the comments say").
* `NoStranded`: a batch neither judged nor rejected has a run, a queued resume,
  a request in flight or an open review.
* `JudgedIsFinal`: after the judgment no step changes the status.
* `EventuallySettled`: every batch is judged or rejected in the end. It is checked
  with one start path, where no second open review hides the one a stop waits for.

### Submission

`status`, `batchOf` and `history` are the row of `data_request_log` and its
history; `request` holds what an HTTP request keeps between its database steps.
The point of the model is what an endpoint knows when it decides.
`transition_submission` selects the row `FOR UPDATE`, but SQLAlchemy gives back
the object the session already holds, with the attributes it was loaded with,
unless the statement asks for `populate_existing`; the sessions are built with
`expire_on_commit=False`, so the commit of `create_batch` does not help either.
Submit and approve load the row first (`ReadForSubmit`, `ReadForApproval`) and
decide on `seen`; rework, reject and the other transitions load it under the
lock, one atomic `UpdateStatus`. Lock, check, write and commit are one step,
since the row is locked in between. No caller in the repository sets
`in_progress` or `review`; `update_submission_status` offers both ("external
API or internal agents"), and so does the model. A request starts in a status
the seeds hold, with no batch.

* `OneJob`: several committed approvals enqueue one job. It rests on the primary
  key of the trigger, since SELECT and INSERT are apart.
* `StartsBacked`: only batches a committed submit stored are started, a job only
  after an approval that followed it; orphan batches never run.
* `ApprovalEnqueued`: an approval with a batch gets its job, unless a request
  was dropped.

### DocumentParse

`claim` is the status of the `processed_jobs` row as committed: between `Claim`
and the first commit a restart forgets it. `parse_document` commits on its own
(`ParseDocument`), and with its extraction row the worker's claim; the worker
stores a second row and commits it with the job done (`StoreResult`). So the
comments that speak of one atomic commit and of a rollback that returns the
claim (`document_parse_worker.py:130`, `:141`) do not hold; `ClaimHasResult` says
what does. Jobs of one document share an ARQ id and never overlap; a job that
raised is not retried by ARQ, one whose worker died is. A trigger may name a
document that is gone. What a job reads depends on its own document only, so one
file shows all; two handlers because the event may come twice.

* `ParsedOnce`: the model is asked about a document once.
* `ClaimHasResult`: a claim that makes later jobs skip a document never hides
  one without a result.
* `EventuallyClaimed`: a registered document is claimed, or its 24 hours pass.

### AuditChain

A writer is a traced call of any process. `ReadLast` and `InsertRow` are apart
because nothing is locked between them. Rows with one `step_number` come in any
order, from the last-row query (`LastRows`) as from `verify_chain`'s (`Orders`).
`ChangeRow` is somebody with access to the table; `written` remembers what was
appended.

* `OverlapWarned`: without tampering a break comes with a duplicate number.
* `ChangeCaught`: a replaced result that a row was chained to shows as a break
  or a duplicate, whatever the calls appended since.

### SupplyGraph

`rows` is `supply_chain_map`, over all BOM versions, since the cycle check looks
at all of them. A caller is an HTTP request or a task of the handler of
`SupplierInvited`; `call` holds the relation it works on and how far it is. The
check (`CheckCycle`) is a statement of its own and sees what is committed; the
insert and its commit are one step, because the upsert of the map header locks
the version in between. The handler connects version after version: find the
versions that have the inviter and not the invitee (`FindBoms`), and for each
check, take the advisory lock of the relation and look for it (`LockRelation`),
insert (`InsertChild`). `stale` marks a caller that another insert has
overtaken; it is history and decides nothing.

`Below`, in `SupplyLinks`, is what the recursive query finds: the least set closed under the
links. Whether the query ends is `QueryEnds`: `UNION ALL` keeps duplicates, so on
a loop it ends only if it meets what it looks for. Trees start as the seeds have
them: a prime, a maker below it, and below itself if it has a double role. The
part a relation is about is left out; no guard reads it.

* `CycleNeedsOverlap`: a cycle of two or more suppliers comes of overlapping
  calls only; `would_create_cycle` itself misses none.
* `OneConnect`: invitations handled together connect a pair once per version. It
  rests on the advisory lock (`LockRelationFree` breaks it). It is per relation:
  two inviters of one supplier can connect it twice in a version, although the
  handler's comment (line 16) speaks of the version and the invitee alone.
* `InvitedInTree`: a connected supplier is one level below a row of its inviter.
  The same does not hold of relations registered by hand.

### SupplyMap

One map, at first one of the seeded shapes: a prime and a maker, the maker below
itself or not, a mine beside it or not, nothing split or every edge split evenly
into percents that need not make the whole. Whoever changes the map is one atomic
`Change` per committed request, with the guards of `SupplyGraph` (`InsertEdge` cites
`QueryEnds` and `Descendants` of `SupplyLinks`). `Tree` and `GapRows` are the two
recursive queries, `Unfold` with the joins and the loop guard of each;
`Contributions` and the validation are the queries on top. `task` is one reader, an API call that asks
for what is missing (`Trigger`) or the handler of `SubmissionApproved`
(`NotifyFinalValidation`), one step per statement; `stale` says the map changed
meanwhile. A `LEFT JOIN` of `get_n_tier_supply_chain` gives a row once per factory;
the model has it once.

What is mandatory is the market's (`Required`, as `regulation_required_fields` is
seeded): in the EU the coordinates of a mine and the carbon intensity of a
manufacturer, in the US the origin of a mine, in Korea nothing; consent is asked
everywhere. The market is that of the first destination of the product's batches in
the order of the alphabet (`Market`, `regulation/service.py:74`, `LIMIT 1`), so a
product shipped to the EU and the US is asked for the EU's fields alone. Makers are
manufacturers; traders, which UFLPA asks as it asks mines, are left out.

* `NotToldEarly`: the prime is told of a complete map only if it is complete for
  that market, or was changed while it was read.
* `AskedOnce`: who lacks something of it is asked once, on however many levels it is.
* `TreeShowsGaps`: tree and gap list show each other's suppliers, but for the
  named exceptions.
* `ValidMakesWhole`: a map that passes the validation is shown, and the factories
  of an edge make the whole of it at any depth.

### BomVersion

A request reads the version and checks the transition (`ReadVersion`), finds the active
versions, locks and deprecates them, and writes its own; at READ COMMITTED an
`UPDATE` sees what is committed when it starts and waits for rows that are locked.
`overlap`, `missed` and `revives` are history. Catalogue and items are any.

* `OneActive`: two versions are active only after overlapping activations.
* `DeprecatedStays`: a deprecated version returns only by an activation that read
  it before.
* `TreeComplete`: `get_bom_tree` (`NOT IN` over a nullable column, a recursion that
  ends at a level) shows nothing but declared parts, and each declared part with a
  parent, and every one if none has a parent. A
  part without a parent beside others that have one is neither asked for nor
  forbidden: the code leaves it out, its comments do not (see "What the comments say").

### Onboarding

`Register` is `create_supplier_and_invite`, one transaction. A sign-up is
`submit_onboarding`: check, the first write (which locks the supplier's row), the
document to sign, the account (whose unique address makes a second sign-up wait
and fail), the look-up of the suppliers it names, the commit, the events one by
one. `CreateConsent` and `UpdateConsent` run beside it. A supplier and its
`supplier_onboarding` row, made by a trigger, are one row here.

* `OneAccount`: two accounts only by sign-ups that overlap.
* `AnnouncedBacked`: what an event says of its supplier is committed, whatever
  crashed. The inviter of a registration is any id the client sends (`Strangers`):
  nobody looks it up, so an invitation may name one without a row; that of a
  sub-supplier is the supplier that signed up.
* `RefusalStands`: a refusal or revocation is signed over only if it came between
  look and signature.

### Notification

`jobs` is the ARQ queue, which has no job ids here; `row` the `notifications` by
`dedup_key`, written out as kind, subject, recipient and day or occurrence. The
worker inserts and commits (`Insert`), mails (`SendMail`), marks (`MarkSent`); a
worker that dies has its jobs run again, a job that raises is gone.
`TellOfRequest` follows the commit of a request. Invitations are claimed and mailed
by the handler itself. `NextDay` waits until the queue is short, so that a job does
not meet a later day than its own.

* `MailOnce`: no notice is mailed twice. It rests on the insert; `InsertMailsAgain`
  breaks it. That each is mailed once does not hold (below).
* `Resurfaced`: a form sent again is shown as unread again.
* `RequestHeardOf`: a supplier with an account hears of its request in the end,
  because the daily job reminds of every request.

### EventBus, EventChannel and RegulationIndex

A boot of the container waits for the database, starts the indexer and the
processes. Each process polls for the setup lock, builds the checkpoint indexes
if nobody has (`awaited`: an index build waits for open statements), subscribes and
listens. The listen task is a state machine (`connecting`, `electing`, `elected`,
`listening`, `sleeping`, `dead`), its session another, because a session can be
gone before the task knows. The parent of uvicorn 0.28 does not replace a worker
that ended. `RegulationIndex` has the three transactions of the indexer, of which
`SkipStep` is the one that raises and `StopContainer` the kill.

* `ImplementsChannel`: `EventBus` refines `EventChannel`: handlers of an event are
  called in order, each once at most.
* `StartsUp`: a process that starts serves in the end, or dies.
* `TakenOver`: as long as tasks are left, one comes to listen.
* `FoundWhole`, `FoundStays`: a search finds the clauses nearest to its query among
  all that the program carries of the regulation, as many as it asks for, or the
  summary, or nothing; never the nearest of a part of them, and never less than
  before. A query is an order of the clauses (`Rankings`, no two at the same
  distance). A judge that asks for less than there is does not see the rest:
  `analyze_carbon_compliance` asks for 3 (`compliance.py:1261`) of the 4 clauses of
  `EU_BATTERY_ART7`, the others for 5. It is about one release: a release that adds
  clauses serves the old ones alone until the new ones are embedded.

### Judgement and CarbonFootprint

`run` is a run of one batch with the part of its `BatchState` that later nodes
read; `geoRow`, `stored` and `final` are the rows it leaves, `told` the events.
Overlapping runs of one batch are `BatchPipeline`'s; here batches share a
supplier's factories and its risk profile, which users set as well. A master form
looks the factories up (`WriteFactories`) and deletes what it did not list
(`Commit`). The judge of article 7 takes the mean (`Weigh`) and counts what is
missing (`CountMissing`) in two queries. One regulation stands for each kind of
judge, and `Answers` for what the model may say. `injected` is chosen once: whether
the list `supervisor.route` writes into the state reaches the compliance node
depends on LangGraph. `Applicable` is what the destination has
(`REGULATION_BY_DESTINATION`), `Handed` what a run gets of it: all, or nothing if the
list is dropped, and then every batch is passed unjudged. `is_high_risk_flag` is
written and read by nothing that decides, and is left out.

* `UnreviewedIsComplete`: a verdict over part of the factories asks for a review,
  unless a form was committed between the two queries.
* `PassIsWhole`: a pass has no place found, and a stored pass of every regulation of
  its destination, of the same run; or of none at all, in the world where the list
  is dropped. It never rests on a part of them.
* `ReviewedBeforeFinal`: nothing that asks for a review is judged without one.
* `ToldWhatIsStored`: an event tells what the database has.
* `HistoryTellsProfile`: the last row of the history is the profile, unless two
  writers overlapped; the cached level is the profile's, unless the pipeline wrote
  last.

## Runs

| Run | Bounds | Shows |
|---|---|---|
| `overlap` | two start paths, one reviewer, stops at `stage_extraction`, two decisions, one fault of fail, restart or API death; also batches loaded waiting | `OnePendingPerStop`, `JudgedAfterChecks`, `ImplementsGate` |
| `single` | one start path, two reviewers, stops at `stage_geo` or loaded at `stage_risk`, three decisions, the hitl worker dies twice | `NoStranded`, `JudgedIsFinal`, `EventuallySettled` |
| `submission` | two requests at a time, six in all, one dropped | `OneJob`, `StartsBacked`, `ApprovalEnqueued` |
| `parse` | one file, one deleted document, two handlers, three events, two triggers, two faults | `ParsedOnce`, `ClaimHasResult`, `EventuallyClaimed` |
| `audit` | three writers, four calls, two outputs, two changes | `OverlapWarned`, `ChangeCaught` |
| `supply` | two callers, one call each, three suppliers, two versions, seeded with or without a double role | `CycleNeedsOverlap`, `OneConnect`, `InvitedInTree` |
| `map` | the seeded map in four shapes and three patterns of splits, three suppliers, two parts, three factories, a whole of 2, two changes, one reader at a time | `NotToldEarly`, `AskedOnce`, `TreeShowsGaps`, `ValidMakesWhole` |
| `bus` | two processes, one event, two handlers, two regulations, two clauses of which a search asks for one or three, any two faults | `FoundWhole`, `FoundStays`, `ImplementsChannel`, `StartsUp`, `TakenOver` |
| `notify` | one supplier, one request, two slots, two events of nine kinds, one crash, one job or handler that raises, two days | `MailOnce`, `Resurfaced`, `RequestHeardOf` |
| `onboarding` | two callers, two calls, two suppliers known and one more, an inviter nobody knows, two names, two addresses, two consent changes, one crash; symmetry | `OneAccount`, `AnnouncedBacked`, `RefusalStands` |
| `bom` | two callers, three calls, three versions, every catalogue and BOM of three parts; symmetry | `OneActive`, `DeprecatedStays`, `TreeComplete` |
| `judgement` | a batch for the EU and one for Korea, two starts, two factories, one form, one call of the API, two answers of the model | `UnreviewedIsComplete`, `PassIsWhole`, `ReviewedBeforeFinal`, `ToldWhatIsStored`, `HistoryTellsProfile` |

Why the bounds are enough: two runs are what it takes to overlap, and a third
adds no new pair of steps; one fault already reaches every recovery path, two
deaths of the hitl worker repeat one on the recovered state; with two decisions
a stop, its ghost and a second approval occur. The stop is at the first stage in
`overlap` and later in `single`, since stops differ by their stage and reason
only. Six requests let two submits and two approvals overlap and a stale one
land after the next status; two requests at a time are what a stale read takes.
Two faults of a parse job are one less than ARQ's three tries: the retries never
run out, and the same holds of `MaxCrashes` in `Notification`. Two callers suffice
for a check that is overtaken and for a lock that is waited for; a supplier beside
the seeded two can be connected, or close a cycle. Two outputs suffice for a
change, four rows for two breaks and a tie.

In `map` the seeds and two changes give paths of up to four edges, repetitions and
edges whose parent has no row; 1 of 2 stands for a part of 100 per cent. In `bom`
three parts have catalogues with chains, forks, loops and parts without a parent;
`MaxDepth` is 1, so that three tiers relate to it as seven do to the 5 of the
code, and a deeper catalogue loses its end in both. In `bus` one fault takes the
listener away and the second whoever takes over. In `onboarding` symmetry leaves
out `Null` and the supplier that is not known yet; in `bom` and `map` the sets are
those no formula tells apart. In `judgement` the Korean batch has no regulation and
reaches the score at once, which is the overlap of two writers; two starts let one
batch run twice or both once. In `notify` the second day is every day after a
request was due.

`TypeOK` is in no run where it is proved (`Submission`, `DocumentParse`,
`BatchPipeline`, `AuditChain`, `SupplyGraph`, `SupplyMap`, `BomVersion`, `Onboarding`,
`EventBus`, `Judgement`); in `Notification` it says what the variables hold.
`Onboarding`, `AuditChain` and `SupplyMap` are each used in a proof module beside
another specification, so that their definitions carry a name in front:
`OnboardingSpec`, `ChainSpec`, `MapSpec`, `MapTypeOK` and so on.

Fairness (`FairSpec`): in `BatchPipeline` weak on each run, each decision request,
the hitl worker and the expiry of kept results. Event loops and workers keep
executing what they began and redis expires keys on its own; that a reviewer
decides sooner or later is an assumption about people, without which no batch with
a stop ends. Faults are never fair. In `Submission` only the steps of a request
that is under way are fair: nobody has to call. In `DocumentParse` handlers, the
worker, the sweeper, the expiry of kept results and the ten minutes of grace are
fair; the 24 hours are not, they may or may not pass. In `EventBus` a process takes
its steps, Docker restarts the container and the database
(`docker-compose.yml`, `restart: always`), the indexer owes nothing. In
`Notification` the worker runs its jobs and the daily one, and days pass;
telling of a request, mails and invitations owe nothing. `SupplyGraph`, `SupplyMap`,
`BomVersion`, `Onboarding`, `Judgement` and `AuditChain` have safety only, so theirs
is `Spec`, without fairness.

`single` leaves out what truly strands a batch: `fail` (nothing retries a run
that raised) and `api` (a lost enqueue), two kinds of stop, and
waiting batches loaded at `stage_compliance`, which die of the missing
`supplier_ids`.

## Proofs

`BatchPipelineProofs` proves, for every value of the constants:

* `TypeCorrect`: `Spec => []TypeOK`. `TypeOK` is not inductive: that a review
  gets a reason the column allows needs that a run inside `hitl_interrupt` has an
  `error_reason`, and that the checkpoint to be resumed there has one too. The
  invariant adds both.
* `OneReviewPerStop`: `Spec => []OnePendingPerStop`. The strengthening says that
  a run between UPDATE and commit holds the row lock, so no other run is there,
  and that a run whose lookup found nothing still has nothing open for its stop:
  reviewers only close reviews and nobody else inserts.
* `JudgmentBacked`: `Spec => []JudgedAfterChecks`. The strengthening follows the
  results with the stage: each run's copy of the state and the checkpoint that
  are past a stage, of a batch that began ahead of it, have the results of that
  stage committed.
* `GateImplemented`: `Spec => Gate!Spec` if `"redeliver" \notin Faults`. The
  invariant counts: passes, plus one for each unread answer and for the queued
  job, never exceed approvals. A job run again after it passed a stop has an
  answer nobody gave, and the assumption is needed: it would pass a later stop
  on the approval of an earlier one.
* `JudgmentFinal`: `Spec => JudgedIsFinal` if one path starts the batch and the
  API does not restart (`OneStart`). Then the thread has one driver at a time. The
  invariant (`SoleInv`) says that the checkpoint is where the driving run is
  (`ThreadFollows`), that the start path has ended or stands at its first stop once
  a review exists (`StartsFirst`), that a node is reached only by the routing
  (`SentByRoute`), that a thread at no stop has its batch in processing (`GoesOn`),
  and that a judgment on the row is the thread's (`JudgedThread`). So a review still
  open at a judged batch, the ghost of a replay, can be decided, and the rejection
  changes nothing the batch shows.
* `NeverStranded`: `Spec => []NoStranded` under `OneStop`: one start, at most one
  stage that asks for a review, suppliers that are found, no batch loaded waiting
  but at `stage_risk`, and no fault but the death of the hitl worker. The invariant
  (`CareInv`, on top of `SoleInv`) says who owes the batch its next step: before the
  first review its start path, after it an open review, a committed approval whose
  request has still to enqueue, or the job (`Attended`). That the job brings the
  batch to its end needs that no stop lies ahead any more (`StopsBehind`) and that a
  run back at the stop it resumes has the answer (`JobCarries`).

None of these assumptions can be left out. TLC finds both properties violated with two
start paths and with a restart, and `NoStranded` with a run that fails, a lost
enqueue, two stages that ask, suppliers that are missing while `stage_extraction`
asks, and a batch loaded at `stage_compliance`.

`SubmissionProofs`, for any number of callers and every bound:

* `TypeCorrect`, with the invariant that whoever publishes, triggers or enqueues
  holds a batch that is not NULL.
* `OneJobPerRequest`: whoever is about to enqueue wrote the one trigger row, and
  nobody has enqueued yet; so two never are.
* `OnlySubmittedStarts`: every batch held by the row or by an approval has a
  submit in the history, and every one past its commit an approval after it; the
  history only grows (`HistoryKept`).
* `SequentialFinal`: with one request at a time `approved` and `rejected` are
  final, since what was loaded is what the row holds. The assumption is needed: see
  "What the comments say".

`SupplyChainProofs`, about `SupplyGraph` for every set of suppliers, versions and
callers:

* `TypeCorrect`: with it the table is finite (the copies of a relation are
  counted) and a handler keeps its inviter.
* `CyclesNeedOverlap`: `AddLink` is the graph fact, that a link from `p` to a `c`
  that has not `p` below it closes no cycle; its proof names the closed sets that
  bound what lies below. The invariant adds that a caller which has checked and
  was not overtaken still has its parent outside of what lies below its child.
* `ConnectedOnce`: locks of one relation are held by one caller, and while it
  holds it there is no row of the relation that an invitation made.
* `InvitedAreInTree`: the versions a handler has before it hold its inviter, and
  no step removes a row or changes its level.

and about `SupplyMap` for any suppliers, parts, factories, splits and number of
changes:

* `MapTypeCorrect`, with it that there are finitely many rows.
* `TreeShowsGapsCorrect`. That `Unfold` finds the paths of its joins, and all that
  are no longer than there are edges, is an induction on the length; a path without a
  repetition is no longer than that. The invariant (`Levelled`) is about the levels:
  0 is the root's alone, and a row whose parent had one lies a level below some row
  of the parent. So a row that had one before it at each level ends a path of the tree.
* `NotToldEarlyCorrect`, `AskedOnceCorrect`: the suppliers of the gap list are the
  least set closed under the links (`GapSuppliers`): the path to a supplier can be
  cut at what it repeats (`Shortened`), so a guard against repetitions loses nobody. The
  invariant (`Informed`) says what a reader holds while nothing changed: the rows still
  to come, and of those visited who was asked.
* `ValidMakesWholeCorrect`: where no share is used every edge passes on the whole, by
  the validation; so a path does (`CumulativeIsWhole`), and what the factories of its
  last edge bring adds up to it (`AmountsMakeWhole`). The folds the sums are made of
  exist, and do not depend on the order (`AddsExists`, `AddsAny`), by induction on the
  number of elements. It needs that there are finitely many factories (`MapAssumption`),
  as in any table.

`BomVersionProofs`, for every set of versions, parts and callers:

* `TypeCorrect`.
* `OneActiveCorrect`: a request that has seen the active versions and missed no
  activation knows all that are active, and holds their rows when it writes.
* `DeprecatedStaysCorrect`: whoever writes has read its version as a draft or as
  active, and a deprecation since is noted.
* `TreeCorrect`: `Spec => []TreeComplete`. The recursion of the query is a recursive
  function of the level, and the proof is an induction over tiers, by the principle
  of the least number (the naturals are well-founded): a declared part in one of
  the first `n + 2` tiers of the catalogue is reached by level `n` at the latest.
  It needs that the catalogue is finite (`PartsAssumption`).

`SupplierProofs`, about `Onboarding` for every set of suppliers, names, addresses and
callers:

* `OnboardingTypeCorrect`, with it that no address has two accounts.
* `OneAccountCorrect`: a sign-up that was not overtaken still finds its supplier
  without an account (`First`); what it commits is then the only one. A sign-up that
  inserted its account has the address to itself (`Apart`), for the second waits at
  the unique index and fails with it. A commit marks every other sign-up of the same
  supplier as overtaken, wherever that one stands.
* `AnnouncedCorrect`: what a request has still to publish is in the tables already
  (`Backed`), and no step takes it back: suppliers are not removed, and a row at
  review stays there.
* `RefusalCorrect`: the document chosen waited for an answer when the supplier's row
  was locked, and while it is (`Signs`) nobody else signs it; a change of its status
  marks the sign-up. That the choice of the latest waiting document exists for every
  list is again the principle of the least number.

and about `DocumentParse` for every set of files, handlers and faults:

* `TypeCorrect`, and with it one document per file.
* `OneParse`: a worker past its claim has found none committed, and as long as
  none is committed nothing was parsed.
* `ClaimedIsStored`: `ClaimHasResult` is inductive with the types: claims and
  rows are committed together, and rows are never removed.

`RecordProofs`, about `AuditChain` for every set of writers and outputs:

* `ChainTypeCorrect`.
* `OverlapNoticed`: rows are chained to a row with the number before
  (`Linked`); if no number is used twice, neighbours in order are numbered one
  apart (`Adjacent`), so the row before is the one chained to.
* `ChangeNoticed`: the same argument on `written`, for a trail in which one
  result was replaced.
* `SequentialChain`: with one writer there are no duplicates, hence no breaks.

and about `Notification` for any number of users, slots, jobs and faults:

* `MailOnceCorrect`: a worker comes to the mail only with the insert that found no
  row, rows are never removed, and no two workers are before the mail of one key
  (`MailKeyed`); an invitation to be sent was claimed, and not sent yet
  (`MailClaimed`). What the queue holds does not matter: however often a job is put
  there or run again, the insert decides. `TypeOK` is not needed and not proved.

`EventBusProofs`, for any number of processes, events, handlers and faults and
every table of regulations:

* `TypeCorrect`, with it that one session at most holds the listener lock. It is
  inductive with the types: whoever is elected found nobody holding it, and a
  session that ends takes its lock along.
* `ChannelImplemented`: `Spec => ImplementsChannel`. A lock with one holder is not
  enough, since a session can be gone while the task still calls handlers. The
  invariant follows the notification: until an event is published nobody has heard
  of it; a notification that waits is on one wire only and no handler was called
  for it; the process that calls the handlers is the only one, and its turn is one
  past those called.
* `FoundWholeCorrect`, `FoundStaysCorrect`: the clauses of the release are in the
  same state, all of them (`ClausesAlike`), because each transaction of the indexer
  writes them together, and no step takes an embedding back. So a search ranks all
  the clauses of a regulation or none; that of some clauses it returns at least one
  (`NearestFound`) needs a least distance, which the library's theorem on
  well-founded orders gives, and the assumption that there are finitely many.

`JudgementProofs`, for every set of batches, factories, risks and answers of the
model:

* `TypeCorrect`.
* `CarbonComplete` (`UnreviewedIsComplete`): a judge of article 7 between its two
  queries has weighed what there was to weigh, unless a form was committed
  meanwhile; and a form deletes only what it did not list.
* `ReviewCorrect` (`ReviewedBeforeFinal`): a stage that asked for a review and lies
  behind a run was approved in that run (`Approved`). It needs that the run
  carries the findings it stored, since the routing reads the state and the
  property reads the rows.
* `PassCorrect` (`PassIsWhole`): the results of a run and the regulations it has
  left make up those it was handed (`ResultsOwn`), which are those of its
  destination or none, and after the commit they are the
  rows of that attempt (`RowsOwn`). A final judgment speaks of its own attempt,
  and stays true when a later run adds rows.
* `ToldCorrect` (`ToldWhatIsStored`): what is published is what was committed.
* `HistoryCorrect` (`HistoryTellsProfile`): a writer that has read the profile, and
  was not overtaken, holds what the profile is (`ProfileKnown`).

The inductive invariants were checked with TLC before they were proved, that of
`BatchPipeline` also with all four stages that ask and every fault, that of
`EventBus` with two events.

Only model-checked: the liveness properties (`EventuallySettled`,
`ApprovalEnqueued`, `EventuallyClaimed`, `StartsUp`, `TakenOver`, `Resurfaced`,
`RequestHeardOf`), which are out of the prover's reach, and `TypeOK` of
`Notification`. Every other property the runs check is proved: those of
`BatchPipeline` under the assumptions named above.

## What the comments say

Places where the models show the code doing something else than a comment, a
document or a schema says. They are not runs: each of them follows from the model
by a short argument, or from one line.

*Submissions.* `domains/submission/models.py:189-190` allows nothing after
`APPROVED` and `REJECTED` ("백엔드 방어용 상태 전이 매트릭스"). `transition_submission`
(`state_machine.py:23`) selects the row `FOR UPDATE`, but approve
(`router.py:243`, `383`) and submit (`router.py:202`) loaded the object before, and
SQLAlchemy does not refresh it. An approval loads a row in review, a rejection is
committed, the approval takes the lock, still sees `review`, and sets the rejected
submission to `approved`. `FinalIsFinal` of `Submission` says what is meant; with
one request at a time it is proved (`SequentialFinal`).

*Batches.* `agents/graph.py:263` says a rejection is not resumed, and
`resume_batch_processing` (`domains/audit/state_machine.py:27`) sets
`batch_processing` whatever the row holds: the review a replay opens
(`domains/audit/repository.py:262-263`) can be rejected while the approved run goes
on, which overwrites it. `hitl/README.md:46-48` and `queue.py:79` call an enqueue
refused by its id a success; the id `hitl_resume:{batch_id}` (`hitl/router.py:100`)
is refused while the last result is kept, an hour, so a batch with a second stop
within it is stranded. The seeds have batches wait at `stage_risk`
(`02_seed_data.sql:483-548`) with no row of `geo_audit_results`, which `geo_audit.py:52`
alone writes; an approval resumes them behind the audit, and the final judgment takes
a missing row for no risk (`final_judgment.py:128`).

*Parsing.* `01_schema.sql:754` and `submission/repository.py:214-215` have the gate
open when the supplier confirms. A parse leaves two extraction rows, confirmation
updates the latest (`repository.py:452`): the other keeps the gate closed.

*Audit.* `domains/audit/service.py:25` calls a break of the chain proof of
tampering. Two overlapping `_write_audit` (`trace.py:125`) break it as well.

*Map.* The recursive queries are `UNION ALL` (`supplychain/repository.py:541`) and
never end on a loop; line 560 takes the map for a DAG, and the seeds have rows of a
supplier below itself (`02_seed_data.sql:351`, `358`). `get_supply_chain_validation`
(`repository.py:1171-1241`) wants the factories of each edge to make 100 and the
edges of a tier to make 100 too; the comment of the contributions (1127-1131) has
them split 40/60. With two sources no split is valid, and a map with ratio rows for
both is never complete. A
map without ratio rows is valid. A map the prime was told of is never told of
again, since the dedup key has no date. The gap list (comment 630-634) drops the row
of a supplier below itself. `regulation/service.py:64` calls the destination looked up
in the batches; with batches for several it is one of them (`LIMIT 1`), and the prime
is told of a complete map while a mine lacks the origin that UFLPA asks for the US.

*Bus.* `event_bus.py:112` and `149` promise a new election. `asyncpg.connect` (125)
and the lock statement (127) are outside the `try` of line 137, and
`start_event_listener` is called once (`main.py:80`): after a restart of the
database all listen tasks may have ended while the API serves. `TakenOver` says as
much of the tasks that are left.

*Notifications.* `submission/service.py:188-191` says a supplier without an account
is mailed; lines 177-187 take the supplier users of the whole tenant, so it is not
as soon as any supplier has one. The key `sla_reminder:{request}:{uid}` has no date,
although `01_schema.sql:795` says so: one reminder per request, ever. A resubmission
after a rework, a second source change and a second completion are not told of. The
row is committed before the mail and the worker's comment (line 89, "추후 재처리
가능") speaks of a later attempt; nothing makes one. So a worker that dies in
between mails nothing, and an invitation claimed is not repeated either.

*Suppliers.* `SupplierCreateRequest.inviter_supplier_id` (`supplier/models.py:290`,
"초대한 협력사") goes unchecked into `SupplierInvited`
(`supplier/router.py:76`, `service.py:124-130`); an id without a row then breaks the
foreign key of `discovered_via` in the handler, or connects nothing. A crash after the commit of a sign-up loses its events, and a second
sign-up is refused (409). Sign-ups that overlap, or rename, leave two suppliers of
one name. A gate opened by a sign-up stays open when the consent is revoked, and
opens without one. The matrix of `supplier/state_machine.py` is used by nobody.

*BOM.* `PROJECT_CORE` 3-1 wants one active version; overlapping activations leave
two and an overlapping deprecation is undone. Then
`get_active_bom_version_id` finds none, and no submission gets a batch. The tree
drops a declared part without a parent if any other has one
(`product/repository.py:560`), where lines 463-464 and 540 and
`product/README.md:56` and `218` call a part without a parent a root.

*Judgement.* `run_risk_scoring` reads `verdict` (`automation.py:36`) where compliance
writes `verdicts` (`compliance.py:1098-1113`), so verdicts add nothing to the risk
score. The geo audit goes over the factories of the database where line 25 of its
module says the batch's. `supervisor.py:17` says nothing is ever passed unchecked, and `state.py:51` and
`compliance.py:143` say which regulations apply to a destination. `route` writes them
into the state from a conditional edge; LangGraph, not under `src/`, does not keep
what an edge function writes, and then a batch for the EU is passed with no judge run
(`compliance.py:1024` takes the empty list for no regulation). The model has both
worlds. The batch detail
(`batches/repository.py:163-177`) shows the oldest verdict after a second run, and
the audit package counts all of them. `risk/service.py` reads, adds and writes without a lock; a rerun
adds again. A model's clause is checked for presence, never against the clauses
found (`embeddings.py:17-20`), and a made-up embedding is marked indexed for good
(`embeddings.py:288-300`).

## Not modelled

Texts, views and paging; the content of prompts and of regulations; models,
geocoders, mail and storage, which are external; authentication and roles in
front of the endpoints; figures of completeness and the synthesis text; imports of
products, prices and origins; dashboards of batches and risk. None of them has a
protocol: one statement, or one read.

## Plan

1. The composition of `Submission`, `DocumentParse` and `BatchPipeline` over
   shared rows, and an abstract lifecycle of a submission as a refinement target.
2. The completeness of a supplier as an operator, against its documents.
3. `TypeOK` of `Notification`; assumptions of `GateImplemented`, `JudgmentFinal` and
   `NeverStranded` weakened as far as TLC finds them to hold.
