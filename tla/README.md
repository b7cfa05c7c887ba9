# A TLA+ model of the AIOps triage pipeline

The pipeline (`src/src/aiops_triage_pipeline`, Python) reads telemetry every few
minutes, decides for every anomalous scope what may be done about it, writes a
casefile, enqueues it for Kafka and pages; later it diagnoses the case with an LLM and
links it to ServiceNow. This directory models the parts in which several processes, a
crash, a lost answer or a long sequence of legal calls can make the result wrong,
checks the models with TLC on small instances and proves their safety properties with
TLAPS for every instance.

`PROJECT.json` lists the components, the runs, the source lines each definition
models, the hazards, the findings and the theorems. To repeat a run:
`tlc -config OutboxSafety.cfg MCOutbox`; to repeat a proof: `tlapm OutboxProofs.tla`.

## 1. Inventory

### The processes

`__main__.py` starts one of four modes, each an operating-system process.

| Process | Code | What it does |
|---|---|---|
| hot-path | `_hot_path_scheduler_loop`, `pipeline/` | a cycle per interval: registry reload, evidence, peak, topology, gates, casefile, outbox row, dispatch |
| outbox-publisher | `outbox/worker.py` | polls the outbox table and publishes to Kafka |
| casefile-lifecycle | `storage/lifecycle.py` | deletes casefiles after their retention |
| cold-path | `_run_cold_path` | a stub; diagnosis and linkage exist as libraries under `diagnosis/` and `pipeline/stages/linkage.py` |

They share an object store (write-once stage files), Postgres (outbox and linkage
rows), Redis (dedupe keys and caches), Kafka and a registry file that operators
rewrite. They exchange nothing directly: whatever coordination there is happens in the
guards of those stores.

### The components

| Component | State | Operations | Hard behaviour | What makes it correct |
|---|---|---|---|---|
| Outbox state machine and repository (`outbox/`) | a row per case: status, hash, attempts, due time, updated_at | insert, ready, sent, failure, select | each call reads, computes and then updates under a status guard; two writers of one row | rows move only along the state machine; attempts and due times stay consistent |
| Publisher worker (`outbox/worker.py`, `outbox/publisher.py`, `integrations/kafka.py`) | a stale batch, the Kafka client's local queue | poll, read back, publish, record | partial flushes, an exception inside the exception handler, crashes between publish and record | SENT only after delivery; nothing published that is not stored; every promoted row is settled |
| Producers (`pipeline/stages/casefile.py`, `pipeline/stages/outbox.py`) | the casefile being handed over | write-once put, insert, promote, header publish | a crash between any two of them, two producers of one case | a row never points to another casefile than the stored one |
| Rulebook gates (`pipeline/stages/gating.py`) | the running evaluation | AG0 to AG6 | the order of the gates | the action is what the policy says without an order; a page needs every condition |
| Dedupe store (`cache/dedupe.py`) | a key with a time to live per fingerprint | GET, SET NX EX | GET and SET are two calls; lost answers | one action per window and instance; "race-safe" across instances it is not (section 7) |
| Hot-path loop (`__main__.py`, `pipeline/scheduler.py`) | a cycle's decisions, the tick's boundary | tick, gate, persist, insert, dispatch, report | failure of one case among several; instances racing; late cycles | an action leaves only when its case is durable, once, and does leave; missed intervals are counted |
| Dispatch (`pipeline/stages/dispatch.py`, `integrations/`) | none | page, postmortem notice | failures are swallowed | sends what was decided |
| Topology registry (`registry/`) | the snapshot and the file's time stamp | load, reload, resolve, v0 view | the file is rewritten between read and stat, or keeps its time stamp; a bad file | the last good snapshot stays in use and the newest good file is taken up; owners are those the file wrote down |
| Evidence and anomaly stages, findings cache (`pipeline/stages/evidence.py`, `anomaly.py`, `cache/`) | cached findings | collect, detect, cache | evidence that is missing is not evidence of calm; total outage | an outage is reported once it lasts, and once |
| Sustained status and peak profile (`pipeline/stages/peak.py`) | a streak per anomaly | classify, advance the streak | missed or repeated intervals, missing evidence | equals a definition over the history of intervals |
| Casefile stage files (`storage/casefile_io.py`, `pipeline/stages/casefile.py`) | up to four objects per case with a hash chain | assemble, validate, persist, load | writers check and then put with nothing locked in between; lost answers | a stored stage names the hashes of the stored earlier stages; two callers never both succeed with different files |
| Casefile lifecycle (`storage/lifecycle.py`) | the keys listed so far | list a page, decide, delete a batch | the listing is stale when the batch is deleted; a case's files on two pages; the outbox row outlives the object | no live case loses a file; a purged case is not announced again |
| Cold-path diagnosis (`diagnosis/`) | tasks waiting for the LLM, gauge, health entry | spawn, invoke, time out, fall back, persist | the timeout races the answer; tasks overlap on one event loop; persisting fails | every case that reaches the LLM is diagnosed; gauge, counters and health are true |
| ServiceNow linkage (`linkage/`, `pipeline/stages/linkage.py`, `integrations/servicenow.py`) | a row per case: state, attempts, retry window; linkage.json | begin, search, create Problem and PIR tasks, record, escalate, retry | lost and late POSTs, crash between any two steps, two callers | a verdict is final, backed by real records, agrees with linkage.json and is escalated; one record per external id, which does not hold (section 7) |
| Health registry, alerts (`health/`) | a status per dependency, alert state | update, evaluate | reads a flag long after it was set; edge triggering over a window | an alert stands exactly at the edges |
| Denylist, contracts, settings, logging, audit replay, harness | none of their own | filter, validate, log, replay | sequential | not modelled, see section 8 |

## 2. Plan

Order: what loses or duplicates a case first.

1. `Outbox`, its contract `AtLeastOnce`, the invariant proofs and the refinement. Done.
2. `Gates`, also against an order-free policy, and `HotPath`, with their proofs. Done.
3. `Linkage`, the retry table and the ServiceNow upsert, its contract `LinkageContract`,
   the invariant proofs and the refinement. Done.
4. `CaseFiles` (hash chain, write-once store, lifecycle) and `ColdPath` (diagnosis
   tasks on that store), with their proofs. Done.
5. `Registry`, `Peak` and `Intake`: the first half of a hot-path cycle, with their
   proofs. Done.

All safety properties of the passing runs are proved; liveness stays with TLC. Open: an
abstract specification of the stage files, as `ColdPath` and `CaseFiles` implement it.

## 3. The modules

| Module | Role |
|---|---|
| `Outbox` | object store, outbox rows, Kafka, producers and publisher workers |
| `AtLeastOnce` | the abstract contract of the outbox |
| `MCOutbox` | instances of `Outbox` |
| `OutboxProofs` | invariants of `Outbox`; it implements `AtLeastOnce` |
| `Gates` | the rulebook gates as operators |
| `GatesProofs` | the gates only lower the action, confine paging and equal an order-free policy |
| `HotPath` | the second half of the loop over several instances; extends `Gates` |
| `MCHotPath`, `HotPathProofs` | its instances: rulebook v1 and a few gate inputs; its invariants, resting on `GatesProofs` |
| `Linkage` | the retry table, the ServiceNow client, the linkage stage and its callers |
| `LinkageContract` | the abstract contract of the linkage |
| `MCLinkage`, `LinkageProofs` | its instances; its invariants, and that it implements `LinkageContract` |
| `CaseFiles` | the stage files of a case, their writers and the lifecycle job |
| `ColdPath` | diagnosis tasks, health entry and error-rate alert; extends `CaseFiles` |
| `MCColdPath`, `ColdPathProofs` | instances and invariants of the two together |
| `Registry` | loading, validating and resolving the topology registry, as operators, and what a file itself says of a scope |
| `RegistryProofs` | the resolver answers what the file says; the v0 view loads again to the same |
| `Peak` | streaks, sustained status and peak classification, as operators; extends `Registry` |
| `Intake` | the first half of a hot-path cycle, up to the gate inputs; extends `Peak` |
| `MCIntake`, `IntakeProofs` | its instance: three registry files and what Prometheus may report; its invariants, resting on `RegistryProofs` |

### Outbox

A process is a producer or a worker; `pc` names the next call it makes. A repository
call reads the row, computes the next one and updates it with a status guard
(`_write_transition`). Under READ COMMITTED others run between the read and the
update, so each call is a pair of actions (`SentRead`, `SentWrite`, ...), with the
computed row in `tx` meanwhile. `MarkReady`, `MarkSent` and `MarkPublishFailure` are
the functions of `state_machine.py`; the jitter of the backoff is the set of delays it
can give. `PublishBatch` lets the Kafka client deliver any part of what it holds and
keep any part; it reports success only if this batch is acknowledged and nothing is
pending. `DeliverQueued` delivers what was kept, late. `RepositoryFails` is a database
error before or after the commit; `Crash` and `Restart` end and start a process. Logs,
metrics and the SLO evaluation follow `transition_to_sent` inside the same `try`, so a
failure of theirs is a fault that sends a worker with a SENT row into its failure handler
(`SentReturns`).

`Role` says what a producer runs: `insert` is the hot path as it is wired, `ready` adds
the promotion that `stages/outbox.py` implements, `header` adds the producer-side
header publish. That header is the caller's: the code compares its case id and nothing
else, so the model gives it a case and no contents (`CallerHeader`).

Data is abstracted to what transitions compare: a casefile is its hash, a worker's event
its case, kind and hash, and a batch the set of its cases.

### Gates

Each gate maps an evaluation to an evaluation. The rulebook is a set of constants; the
two named assumptions say that it is well-formed and that it allows paging only in
PROD and for TIER_0 and by no failing gate's effect, which `rulebook-v1.yaml` does.
Confidence is in percent. `evidence_status_map.get(..., UNKNOWN)` is a total function.
Reason codes are left out: they are whatever `set_reason_codes` of the rulebook's effect
lists, possibly nothing, and no gate reads them. `Surveyed` is the set of inputs over
which TLC compares the gates with the policy.

### HotPath

One action per step of the cycle: `StartCycle`, `EvaluateGates` (up to the GET),
`Remember` (the SET), `PersistCasefile`, `InsertPendingObject`, `DispatchAction`,
`EmitDegraded`. The stages before the gates are a choice of which fingerprints are
anomalous and which of `Inputs` each has; `Intake` models them. The loop works through
scopes in sorted order; the model takes any order. `_derive_case_id` makes a case of a
fingerprint, so one set stands for both. A casefile carries the time of its triage, so
a casefile found in the store never equals the one just assembled: the idempotent
branch of `_persist_casefile_payload_write_once` is unreachable from the loop. `Crash`
includes the restart. A registry without an entry for Redis counts as HEALTHY, as
`HealthRegistry.get` says. `window` is a history variable: it records, per instance, the
window that an action let through by AG5 should keep closed.

`Purge` assumes that no instance is working on the case, which months of retention
against minutes of a cycle justify.

The gate inputs of the model may propose any action. The loop as wired proposes only
OBSERVE with confidence 0 (`Wired` in `MCHotPath`, section 7); the other inputs are
ones the contract `GateInputV1` admits, and the runs show what the loop does with
them.

### Linkage

A caller runs `execute_servicenow_linkage_and_persist`; every database transaction,
HTTP request and object put is a step. `Open` creates or reads the row and decides
(`IsRetryDue`), `MarkSearchingStep` claims it, `Lookup`, `Create` and `Update` talk to
ServiceNow for the Problem and then for each PIR task, `Outcome` records the result
(`MarkSuccess`, `MarkFailure` of `linkage/state_machine.py`), `RecordSlo`, `Escalate` and
`WriteFile` follow, a step each; `Rehydrate` writes the missing linkage.json of a finished row;
`OneShot` is the path without a repository. `PersistTransition` is the UPDATE guarded by the
source state. `Post` may carry the request out and lose the answer, or time out and be
carried out later, when its caller has gone on (`late`, `ApplyLate`). A record is its
number among the records with the same external id. A database or store call that raises
ends the call like `Crash`. The jitter of the backoff is a parameter, in percent.

### CaseFiles and ColdPath

A hash is a tuple of what the digest covers, so two files have one hash exactly when
they say the same and name the same files. A stage writer assembles its file against
hashes it has loaded or made itself, true or stale (`Assemble`), checks the triage
(`ValidateTriage`), then the diagnosis (`ValidateDiagnosis`), then puts
(`PersistStage`), and others run in between. A put that fails may have been carried
out. `put_if_absent` and the read-back that follows a conflict are one step: a stage file
is never replaced, so only the lifecycle job can change what the second request sees, and
that outcome, an object that was there and is gone, is a disjunct of its own
(`PersistWriteOnce`). The lifecycle job lists a page or deletes a batch per step and starts the next
page after the last key it has seen, as S3's pagination does; a batch may be deleted
in part. The clock counts months and moves only while nobody is at work.

A diagnosis task suspends only in `asyncio.wait_for`, so what follows the LLM's answer
is one step of the event loop (`Finish`), the put included. `Start` has the branch in
which the denylist strips a required field and the task dies before anything is
counted. The hash a task is spawned with is taken to be that of the stored triage: the code
does not check it and has no caller. The window of the error-rate alert and its thresholds are parameters; the
rate is compared without the division. `Crash` is a restart of the process.

### Registry, Peak and Intake

`Registry` is `registry/loader.py` and `resolver.py` as operators: `Valid` is what the
loader refuses, `Canonical` what it makes of either format, `CompatView` the v0 view,
`Resolve` the stream and the owner of a scope. A place is an (env, cluster) pair;
every way in which the text has the wrong shape is one flag of the file, and
`RegistryText` is the set of files of the right shape, in both formats. `WrittenStreams`,
`Specific` and `AsWritten` say what a file means for a scope without loading it. `Peak`
is the streak algorithm and the peak classification: `Sorted` is an ordered arrangement
of the samples, `Ranked` tells the class from a count of ranks. The code computes the rank
as a ceiling of a floating-point product; `RoundsUp` is the set of percentiles and lengths
for which the product comes out above an exact whole number and the rank one too high (55
percent of 100, say). It is empty for the percentiles in use, 90 and 95, at every length,
and for those of the run. `Volumes` and `Histories`
are the values and the windows a scope may have; the hot path passes none (section 7), so
these are what the stage's interface admits.

`Intake` runs a cycle: `Begin` (tick and stat), `ReadText`, `StatText` (the loader
reads the content before it asks for the modification time), `EvaluateStep` (all from
the last query on: findings, streaks, outage telemetry, topology and gate inputs run
without a suspension). Others rewrite or remove the registry file between any two steps,
with any time stamp, an old one included. An invalid text leaves the last good snapshot in
use; a text of `Garbled` (not UTF-8, or a mapping key that cannot be hashed) raises past
the validation handler and ends the cycle. `FailStep` is any other exception that
`__main__.py:362` catches before the streaks are stored; one after that is the flag
`raises` of `EvaluateStep`. Findings are cached by buckets of `CacheInterval` (300 s in the
code), which is independent of the rulebook's interval. Which scopes a detector reports is
a choice among those whose evidence is complete. `outcomes`, `history`, `cycles`, `events`,
`alerts` and `edited` are history variables of one life of the process.

## 4. The runs

| Run | Instance | States | Shows |
|---|---|---|---|
| `outbox_safety` | 1 promoting and 1 header producer, 2 workers, 1 case, 2 hashes, 1 fault | 339,089 | rows, bus and store agree; the stored casefile wins; the contract is implemented |
| `outbox_batch` | 2 cases, 1 worker, batch of 1, no fault | 60,478 | a lone worker never ends; limit and retries starve no row |
| `hotpath_safety` | 2 instances, 1 fingerprint, 4 inputs, 1 fault, 1 crash | 359,186 | pages justified, durable, at most one; each instance keeps to the dedupe window |
| `hotpath_one` | 1 instance, 2 fingerprints, 1 crash; 55,296 gate inputs, 3 dedupe answers | 123,757 | the first page of a case is sent; the gates equal an order-free policy |
| `linkage` | 2 callers, 1 case, 1 PIR task, 5 modes, 3 kinds of error, 1 late request, 1 crash | 960,264 | rows, records, linkage.json, escalation and SLO samples tell one story; the contract is implemented |
| `coldpath` | 3 tasks of one case, 3 modes, every answer, 1 store fault, 1 restart | 24,100 | gauge, counters, health and alerts are true; the case is diagnosed |
| `casefiles` | hot path, 1 task, 1 later writer and the lifecycle job on one case, 1 fault | 1,076,330 | the hash chain holds; what was confirmed is stored; nothing is lost early |
| `intake` | 3 registry files, 1 group of 2 topics, 1 edit, 1 fault, 1 restart | 593,512 | streaks, owners, snapshots, outage reports and missed intervals are what happened |

Four runs end in a counterexample; `PROJECT.json` quotes the sentences they contradict.

| Run | Property | What TLC shows |
|---|---|---|
| `outbox_as_wired` | `EveryRowPromoted` | the hot path inserts rows and never promotes one, so nothing is published |
| `outbox_two_workers` | `EveryWorkerSurvives` | two workers hold a case; one sends it, the other's publish fails, its failure handler raises on the SENT row and the process ends |
| `hotpath_race` | `OneGrantPerWindow` | two instances GET before either SETs; both pass AG5 |
| `linkage_upsert` | `NoDuplicateRecords` | two lookups before either POST, or a POST applied after it was given up: two records under one external id |

### Bounds

- Two writers of one row (or one key, or one case in ServiceNow) exhibit every race of
  a guarded update: a guard fails because one other process moved the row. A second
  case adds nothing to a repository call, which names one row; it matters for the
  batch limit and for instances that work through several cases, and those runs have
  two.
- Two hashes give both kinds of second producer: same casefile, other casefile.
- `MaxRetry = 1` reaches READY, RETRY, SENT and DEAD, and the boundary of the budget. A
  RETRY written over a RETRY needs 2; the proofs cover every budget.
- `Horizon` bounds the clock; in `Outbox` its last instant stands for all later ones.
  `outbox_batch` has 1: a row becomes due after waiting. `outbox_safety` has 0, where
  every row is due at once, which only adds interleavings; `AttemptAccounting` with time
  is in `outbox_batch`. `Linkage` starts a case only if its retry window fits; a window of
  1 with a backoff of 1 to 2 reaches a retry at the deadline itself and the refusal of one
  past it. A second retry needs a longer window; the proofs cover every one. `CHECK_DEADLOCK` is off in the models (`Linkage`, `ColdPath`, `Intake`) whose clock stops at the
  horizon; everywhere else it is on.
- `MaxFaults = 1`: one crash or error at every point. Kafka, the object store of
  `Outbox` and ServiceNow fail without being counted. `MaxCrashes` likewise.
- The dedupe window of a page is two intervals, of other actions one: a key can expire
  between cycles and survive one.
- `MinConfidence` is checked one below and at the threshold.
- A case has up to four files; pages of two and batches of two make a listing and a
  deletion take several steps, with the files of one case on both sides of a page end.
- An alert window of 2 with thresholds of 40 and 60 percent and three results gives
  every severity, every edge, and a window that moves.
- `intake`: a registry file of either format and one that the loader refuses, a garbled
  text and a missing file. An interval of two instants with a cycle every instant gives
  repeated intervals, consecutive ones and, by late cycles, missed boundaries; two
  intervals make an anomaly sustained, one cycle an outage that is alerted. Longer
  histories and several missed boundaries are left to the proofs.

Symmetry is used in runs without liveness only.

### Fairness

`WF(WorkerStep(w))`: `run_forever` is an endless loop with a sleep. `WF(Tick)`: time
passes. Nothing is assumed of Kafka, the object store, producers or late deliveries.
The hot path has `WF(CycleStep(i))` for the same reason: the cycle body sits in an
endless loop whose exceptions are caught. The cold path has `WF(TaskStep(t))`: the
event loop runs a task that can run, and the timeout makes a waiting task one.

Nothing is assumed of what runs the code: no stopped publisher is restarted
(`docker-compose.yml:188` sets `restart: "no"`), and nobody is assumed to call the linkage
stage again, since nothing in the repository does; `Linkage` therefore has no liveness
property.

## 5. The properties

Every state machine has one type invariant, and all of them are proved.

`Outbox`:

- `InvariantA`: every message on the bus or in a client's queue is about a promoted row
  whose casefile is stored, and a worker's event was built from that casefile.
- `SentMeansDelivered`: a SENT row has both events of its casefile on the bus, or the
  header of a producer that published for it.
- `AttemptAccounting`: status, attempts and due time fit together; no row outlives its
  budget.
- `LocalStateSound`: what a process remembers of its row is still something it may act
  on, though others have moved the row.
- `StateMachine`: a row moves along the state machine, and a settled row never.
- `ImplementsAtLeastOnce`: the contract, with accepted cases being the promoted rows.
- `DeliveryResolves`, `LoneWorkerSurvives`: liveness, and that the failure handler
  cannot end a worker that is alone and meets no fault.
- `EveryWorkerSurvives`, `EveryRowPromoted`: violated.

`HotPath`:

- `MatchesReference`: the gates of `Gates`, in their order, decide what a policy without
  an order says, for every surveyed input and whatever the dedupe store now answers.
- `PagesJustified`: the decision behind every page met every condition at once.
- `DurableBeforeDispatch`: an instance about to dispatch holds the case: its own
  casefile is the stored one and the row exists.
- `OneNoticePerCase`: a case pages at most once. The dedupe window cannot guarantee it
  (section 7); the write-once store and the unique row do.
- `OneGrantPerInstance`: over cycles, expiries, lost answers and restarts AG5 grants an
  instance no second action while the window of its first lasts. `OneGrantPerWindow`, the
  same across instances, is violated.
- `FirstPageSent`: liveness. It is about a case without casefile and row: a later, higher
  action of a stored case is never sent (section 7).

`Linkage`:

- `LinkedIsReal`: what row or file report as linked is in ServiceNow, every key of it.
- `FileAgreesWithRow`: linkage.json exists only beside a verdict and repeats it: linked or
  not, the status unless the file was rebuilt, and the record ids as long as no external
  id is duplicated. The exceptions are the code's (section 7).
- `RetryInsideWindow`: a retry is later than the failure and not past the deadline.
- `EscalationFollowsVerdict`, `RetryLoopMissesNothing`: while nobody crashes, no
  FAILED_FINAL row is without its escalation and no unfinished case is forgotten.
- `SloConsistent`, `FinalRowsStay`: racing callers do not count a case both ways, and
  none moves a row with a verdict.
- `ImplementsLinkageContract`: one verdict, backed by records; a linkage.json written once
  that repeats it; escalation of failures only. With a repository the verdict is the
  final row, without one it is the file.
- `NoDuplicateRecords`: violated.

`CaseFiles` and `ColdPath`:

- `ChainHolds`: a stored file's hash is its own and the files it names are the stored
  ones, until retention has been at the case.
- `ConfirmedIsStored`: a caller that was told so finds its own file.
- `AppendOnly`: nothing is replaced, and the first file a case loses it loses when the
  case is past its retention at that very moment, although the job decided on a
  listing made pages ago.
- `EveryTaskCounted`, `HealthTellsLast`, `AlertsAtEdges`: gauge, counters, health entry
  and alert after any interleaving of tasks.
- `CaseDiagnosed`: liveness, for the tasks that reach the LLM.

`Intake`: `SustainedAsObserved`, `RoutedAsWritten`, `RegistryFollowsFile`,
`CompatViewLoads`, `OutageReportedOnce`, `MissedIntervalsCounted`, `PeakAsRanked`, each
against a definition over the history or over the text of the file. `OutageReportedOnce`
is about one life of the process: a restart forgets the outage, and one that spans it is
alerted again. `SustainedAsObserved` gives a repeated interval the effect the code gives
it, which is to begin the count anew.

## 6. The proofs

All theorems hold for every value of the constants, under the named assumptions of the
module that declares them (`OutboxAssumption`, `RulebookAssumption`, `PagingPolicy`,
`HotPathAssumption`, `LinkageAssumption`, `CaseFilesAssumption`,
`ColdPathAssumption`, `RegistryAssumption`, `PeakAssumption`, `IntakeAssumption`). What
they ask of the data is shape: gate inputs are members of `GateInput`, registry files of
`RegistryText`, traffic is whole numbers, `None` is nothing else. One theorem
(`MatchesReferenceHolds`) has a hypothesis of its own, named below.

`OutboxProofs`. `InvariantA` and `SentMeansDelivered` are not inductive: whether a
worker may write SENT depends on what it published and on the row it read. `IInv` adds
that every row's hash is the stored one, and `LocalStateSound`: a process at
`sent_read` or `sent_write` has its case's events on the bus, a process with an open
transaction holds a next row that one legal transition gives from its expected status,
and a case being worked on is promoted. With it the guard of the update (same status)
is enough to keep every row consistent although attempts and times may be those of an
older row. `Inductive` proves `Spec => []IInv` with one lemma per action; the other
theorems follow. `StateMachineHolds` proves the action property from the same
invariant.

`LoneWorkerSurvives` needs more than `IInv`, which allows for other writers. `LoneInv`
says that, as long as there is one worker, no fault and no producer that publishes
headers, every row of the worker's batch and the row it is working on still wait for
their publication, the latter is not in the rest of the batch, and an open transaction
expects the status the row has. Producers touch only rows that do not wait yet.

`Refinement` proves that every step of `Outbox` is a step of
`AtLeastOnce` or a stutter under the mapping: casefile is `store`, accepted the cases
with a row beyond PENDING_OBJECT, bus is `kafka`, settled the SENT and DEAD rows.

`GatesProofs`. One lemma per gate: it keeps the type, never raises the action and, if
it leaves a page, its own condition held. `GatesConfinePaging` chains them. It needs
`PagingPolicy`: with another rulebook the code does allow a page elsewhere.

For `MatchesReferenceHolds`, each gate's effect is a minimum over priorities or nothing, so the
running action after AG3 is the lowest of the caps that apply (`Ceiling`), in whatever
order they came. AG4, AG5 and AG6 look at the running action, so they need the order, and
the policy states it: urgency is judged by the ceiling. The theorem has the
hypothesis `CapTo["AG3"] = "TICKET"`, which `rulebook-v1.yaml` satisfies: the code applies
AG3's effect only to a running PAGE, so with a lower cap the outcome would depend on which
gate came first.

`HotPathProofs`. `OneNoticePerCase` is not inductive. `IInv` adds that at most one
instance is between its put and its dispatch for a case, that the casefile it stored
is the one in the store, that a case without a row has sent nothing, and that neither
has a case about to be dispatched. A put succeeds only where the store is empty, while
any other holder's casefile is in the store: so a new holder is the only one. An
insert succeeds only without a row: so nothing was sent before. Steps that touch none
of this are handled by one lemma (`QuietKept`). `OneGrantPerInstanceHolds` is for any
number of instances. `StormInv` adds to `IInv` that no window is longer than the key in
Redis that keeps it, and that an instance on its way to the SET has no window open: it
found the key missing, and only its own grant opens one. A lost answer to the SET leaves a
key without a window, never a window without a key.

`LinkageProofs`. `IInv` adds to the properties
`CallsSound`, what a caller at each step holds (the ids it has collected are of
records that exist, the record it is about to update is one it found, its result
matches the row it recorded); `RowsDurable`, that there are no rows
without a repository; `FileFollowsRow` and `SuccessTold`, what a stored file and a caller's result share
with the row; `SloFollowsRow`, `EscalationDue` and `NobodyLost`, three of the properties as
obligations of the caller that has still to fulfil them; `LateLive`, that only LIVE mode
leaves requests behind. Two LINKED results of one case agree on their ids when no external
id has two records, because every id is then the number 1. `RetryInsideWindow` needs the
backoff and Retry-After arithmetic, one
lemma; `FinalRowsStayHolds` needs that every update names a source state that is not
final. `LinkageRefinement` maps every step: a POST that was carried out, at once or late, is `Create`, the
transition to a final row is `Decide`, a put is `Report` with a repository and `Decide`
without one, `Escalate` is `Alarm`; all else changes nothing the contract speaks of. It
rests on what `IInv` says of the caller: its result is backed by records, and its row is
the final one when it escalates or writes.

`ColdPathProofs`. The chain is not inductive: the put happens steps after the checks.
`IInv` adds that a writer past a check, and a task from its spawning on, knows the
stored file it names (`Knows`, which survives every step because files of a case that
retention has not reached stay), that stored triage files are sealed, and for
`AppendOnly` what the lifecycle run holds of a case that is still whole: everything it
listed is still there with the same time, and the triage file is listed or its key is
still ahead. The last page therefore decides on a listing with the triage file of
every whole case on it, however many pages the listing took and whatever was written
meanwhile. The alert part says that `recent` holds the last results and `alerted` the
severity of that window; `EveryTaskCounted` needs that tasks are finite.

`IntakeProofs`. `RegistryFollowsFile` is not inductive: a cycle that finds the mtime
unchanged takes the snapshot of an earlier load. `RegistryInv` adds `LoaderSound`: a text
being loaded is valid and, unless torn, still the file's; a snapshot of the file's mtime
that is not torn has the file's text. `torn` marks a write that the mtime does not tell.
For `OutageReportedOnce`, `OutageInv` adds that `outages` is the length of the outage that
the last queries belong to: the streak passes `Activation`
exactly where the history has that many outages behind a cycle without one, so each
round of queries adds the same element to the reference sets as to the counters.

`CadenceInv` says that `boundary` is the newest boundary at which a cycle began and
`missed` the number of boundaries passed over; a cycle adds those between two boundaries,
which the division of `evaluate_scheduler_tick` counts (`BoundariesBetween`, a bijection
with an interval of numbers).

`SustainedAsObserved` speaks of the history, the code only of the last state. `StreakInv`
says of each key that its streak is the number of observations in the longest run of
consecutive intervals that ends with the last evaluation and has no calm interval in it,
and that `prior` is of that evaluation. An evaluation then lengthens that run, keeps it
(evidence missing) or starts anew (a gap, a repeated interval, calm evidence), and a run
with enough observations exists exactly if the longest one has enough.

`TypeOKHolds` puts these invariants together: that a cycle has its start time is part of
`StreakInv`, that a snapshot is of an accepted text part of `RoutingInv`; `RestTyped` is
what none of them mentions.

`PeakAsRanked`. The position of an element among the others, ties broken by index, is a
permutation that sorts the samples (so `Sorted` is not empty), and in every sorted
arrangement the k-th element is at most v exactly if at least k samples are. The ceiling
of `_nearest_rank_percentile` and its lower bound of 1 then say "reaches the percentile,
and at least one sample", with one more sample where `RoundsUp` says so.
`ClassifiedAsRanked` states it for every sequence of integers.

`RegistryProofs`. `ResolvedAsWritten` is about one call: for every text of the right shape
that `Valid` lets through and every scope, the answer of `Resolve` on the canonical form
is what the text says. Uniqueness of ids, of places in a stream and of topics in a place
makes every CHOOSE of the resolver unique; the first known candidate is the one of least
`Rank`. `CompatViewFaithful` takes the streams of a place as a subsequence, whose ranks
are a bijection with 1 to their number, and shows that reloading the view finds the
streams with the same entries and no new conflict. `IntakeProofs` lifts both to the
running system with `RoutingInv`: the inputs of a cycle carry owners of the snapshot's
text, which is an accepted one.

Only model-checked: the liveness properties `DeliveryResolves`, `FirstPageSent` and
`CaseDiagnosed`, since fairness and ENABLED are out of the prover's reach; and the
counterexamples.

## 7. Findings and observations

`PROJECT.json` quotes the sentences and names the lines for the four counterexamples of
section 4. The rest of this section is what modelling showed beside them. Paths are under
`src/src/aiops_triage_pipeline` unless they start with `docs` or `artifact`.

Outbox and hot path:

- Nothing sets `proposed_action` or `diagnosis_confidence` (`stages/topology.py`), so
  the loop as wired can only observe. With `outbox_as_wired` this means that the
  pipeline as wired neither publishes nor pages; the other runs show what its parts do
  when they are connected as the documentation describes.
- `outbox_two_workers` shows how a worker ends. With two cases both workers can go the same
  way without any fault: one fails on X, sends Y and selects X again, the other sends X
  from its older batch; the first then fails on X and the second on Y, both SENT. A case
  promoted after that is not delivered before somebody starts a publisher: that is why
  `DeliveryResolves` is checked with one worker.
- A producer that publishes its own header marks the row SENT, and the worker never
  publishes the excerpt. Nothing compares that header with the casefile.
- A worker whose telemetry raises after `transition_to_sent` runs into its failure handler
  with a SENT row and ends (`outbox/worker.py:169`).
- After `max_retry_attempts` failures a row is DEAD and nothing revives it, so delivery
  is at least once only for outages shorter than the retry budget. `DeliveryResolves`
  therefore says SENT or DEAD.
- A RETRY row's `updated_at` can go back: the UPDATE compares the status only
  (`outbox/repository.py:348`), while `outbox/state_machine.py:193` keeps time from
  going back within one transition.
- AG5's race (`hotpath_race`) does not make a case page twice: the write-once casefile and
  the unique row stop the second (`OneNoticePerCase`).
- The gates' decision is not monotone in the evidence: AG4, AG5 and AG6 look at what the
  gates before them left.
- A case first seen while its action is lower than PAGE is stored with that action; the
  write-once casefile then ends every later cycle of the case before its dispatch, so
  it is never paged (`pipeline/stages/casefile.py:85`, `docs/developer-onboarding.md:263`).
- A casefile whose insert failed stays without an outbox row for good: the next cycle's
  put conflicts before it reaches the insert (`__main__.py:344`,
  `docs/runtime-modes.md:126`).
- `emit_redis_degraded_mode_events` reads `is_healthy` once per cycle; an error followed
  by a successful call in the same cycle is not reported.

Linkage:

- Nothing in the repository calls the linkage stage or `select_retry_candidates`.
- A caller that dies in SEARCHING leaves a row no candidate query returns, although
  `artifact/implementation-artifacts/8-3-sn-linkage-retry-and-state-machine.md:104` asks
  that retry state be "recoverable across process restart"; and one that dies between the
  FAILED_FINAL row and the escalation loses the escalation, which line 21 there asks for.
  Both properties carry `crashes = 0` for that reason.
- After `linkage_upsert` every later upsert finds two records and ends in FAILED_FINAL. If
  both callers succeed, the slower one gets the other's LINKED row back and may still write
  linkage.json first, with the ids of its own records: row and file then name different
  Problems (`pipeline/stages/linkage.py:323`).
- Rehydrating a row that was LINKED because the integration skipped writes a
  linkage.json that says "linked" (`pipeline/stages/linkage.py:433`).
- A slower caller's update may take `attempt_count` back; a DNS failure ("temporary
  failure in name resolution") is not among the transient markers and is final.

Casefiles and cold path:

- A denylist that strips a required field of the excerpt ends the task before gauge,
  metrics and fallback, so that case has no diagnosis.json (`diagnosis/graph.py:184`).
- The cold path writes diagnosis.json without the stage function's check that
  triage.json is there; that the caller has it makes the chain hold.
- A stage file written while its case is being purged survives as an orphan and lives
  another retention period. Two lifecycle runs at once could delete a triage file
  created between the one's listing and its deletion; the model has one run.
- Nothing in the repository spawns a diagnosis task; the cold-path process is a stub.

Intake:

- The registry loader reads the content and then asks for the modification time: a
  write in between leaves the old content with the new time until the next edit. This
  is the exception `torn` in `RegistryFollowsFile`, as is a write that leaves the file the
  time stamp it had when it was loaded. A missing file, or a garbled one, raises through
  every cycle until it is mended: the last good snapshot is kept but not used.
- An outage that spans a restart is alerted again.
- With the shipped `.env.docker` (a cycle every 30 s) and the shipped rulebook (an
  interval of 5 minutes) most cycles repeat the interval of the one before, which
  starts the streak anew: nothing becomes sustained.
- One series whose environment label is not a member of `Environment` raises in
  `collect_gate_inputs_by_scope` and costs every scope of the cycle its gate inputs,
  after the streaks have advanced.
- A consumer group's streak key forgets the topic: complete calm evidence of one topic
  resets the streak that another topic, whose evidence is missing, had built up.
- The hot path passes no historical windows, so the peak is always unknown and AG6
  never passes. Streaks are lost with a restart, and keys are never pruned.

## 8. What is not modelled

- Floats: detector thresholds, baselines, `evidence_window.py` and confidence
  arithmetic. `peak_cache.py`, which nothing uses.
- Parsing and validation of shapes (Pydantic contracts, YAML, JSON), formatting,
  logging, metrics, OTLP export, the health server, HTTP bodies and headers.
- The denylist filter: sequential, recursive over JSON. Its failure is one of the ways
  `PublishCaseEvents`, `PersistCasefile` and `Start` fail.
- The tiered incident correlation of the ServiceNow client: read-only searches whose
  answer is the input `incident`; payload texts and guardrails.
- PagerDuty and Slack beyond whether a call succeeds. The OFF, LOG and MOCK modes of
  these two send nothing.
- Postmortem mode: only whether a postmortem is required. Reason codes.
- The backlog query of the outbox and its alerts: they read and change nothing.
- The drift of a tick: a log field.
- Audit replay: calls what `Gates` models on a stored casefile, around string
  comparisons of policy versions. `harness/`: generates synthetic series.
