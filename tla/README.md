# Verification of the oilfield-esp pipeline

TLA+ models of this repository, the TLC runs that check them on small instances,
and theorems checked by TLAPS. Paths are relative to `src/`, the repository root.

## 1. The system

A producer puts telemetry of electric submersible pumps on a one-shard Kinesis
stream. Two Lambdas read the shard, each through its own event source mapping:
one archives every record and keeps the latest state of every pump, the other
turns anomalies into alert episodes. A batch pipeline (Step Functions, Glue,
crawler) turns raw history into curated tables and advances one pointer object,
which the dashboards follow.

### Components: state, operations, interactions

| component | state | operations | talks to |
|---|---|---|---|
| Producer `simulator/esp_simulator.py` | per event: attempts; ledger of acknowledged and failed events | `put_with_retry`, `write_run_ledger` | stream (calls), drain gate (ledger file) |
| Shard and mappings `infrastructure/realtime_stack.py` | records in order; per mapping: checkpoint, polled batch and its pieces, retries; failure destination | poll, bisect, retry, give up | invokes the Lambdas, writes failure pointers |
| StreamProcessor `src/stream_processor/handler.py` | raw objects, quarantine objects, LatestState rows | `process_record`: quarantine, or raw object and then a conditional row write | S3, DynamoDB |
| Replay `scripts/replay-failed.py` | receipt per failed batch | read a pointer, one `get_records`, `process_record` for each | same prefixes and table, beside the live Lambda and without a lock |
| AnomalyDetector `src/anomaly_detector/handler.py` | AlertState rows, SNS messages | `decide`; publish, then `put_item` | SNS, DynamoDB |
| Contract `src/contract.py` | none | `validate` | used by ingest, Glue, drain gate |
| Manifest and launcher `scripts/create-m3-manifest.py`, `scripts/run-batch.ps1`, `scripts/upload-batch.ps1` | manifests, raw batch objects | select and hash objects, start an execution, overwrite a fixed key | Step Functions, S3 |
| Step Functions `infrastructure/core_stack.py` | per execution: place, crawl seen before, StartJobRun tries | look at the crawler, run Glue, start the crawler, poll | Glue, crawler |
| Glue job `src/batch/transform.py` | staging tables, report, curated partitions, KPI summary, pointer | the writes in that order, each Spark action reading the raw objects again | S3 |
| Classification oracle `src/batch/canonical.py` | none | `classify_events` | tests |
| Realtime session `scripts/realtime-start.ps1`, `realtime-stop.ps1` | stack, expiry schedule, run marker | schedule, deploy, produce, drain check, destroy | scheduler, CloudFormation, drain gate |
| Drain gate `scripts/drain-check.py` | accounted and missing ids | poll until all accounted or the deadline | ledger, raw, quarantine |
| Expiry reaper `src/expiry_reaper/handler.py` | none of its own | describe, delete, poll, alert | CloudFormation, SNS |
| Local dashboard `dashboard/app` | shared cache with its lock | cached reads: fresh, stale, unavailable | LatestState, pointer, report, summary |
| Hosted API `src/dashboard_api/handler.py` | two module-level caches | the same reads, no stale fallback | the same |
| Browser `dashboard/static/js/app.js` | in-flight guard, poll timer | poll, render | either API |
| Export and restore `scripts/*-core*.py` | local copy and manifest | list, copy, verify, write back | all stores |

The deployment, cost, documentation and security scripts call AWS in a row and
keep nothing; they are listed in PROJECT.json as not modelled.

### What is hard

* *Failure between two writes.* Raw object before table row; SNS before the
  alert row; table parts before the pointer; pointer before `job.commit`.
* *Redelivery.* A failed batch is bisected and delivered again to stores its
  first delivery has changed; a send or a StartJobRun whose answer was lost is
  repeated.
* *Concurrency without locks.* Live Lambda and replay; two executions and one
  crawler; teardown and the reaper; a restore beside a live stream.
* *Stale reads.* The raw objects behind a manifest; the crawler's last crawl;
  an alert's row and the pumps' rows, which are read from a replica that may lag;
  the dashboard's cache; a run marker of an earlier session.
* *Deadlines.* Record age, drain timeout, the reaper's wait, execution timeout.

### What makes each component correct

* Ingest: nothing behind the checkpoint is unaccounted for; the table only moves
  forward in event time and never shows a reading that raw history lacks; a
  replay receipt says only what is true; acknowledged events are accounted for
  in the end.
* Alerts: no anomaly is passed over silently; a recovery answers a trigger,
  whatever row was read; an episode ends as the telemetry says; with rows read as
  last written, cooldowns are kept and quiet operation sends nothing twice.
* Batch: the pointer only ever names complete runs and what it named never
  changes; success means catalogued; executions end.
* Session, reaper: whoever is lost, something other than the script is still
  going to delete the stack, and no session works beside an earlier one's
  schedule.
* Dashboards: what is shown was fetched no earlier than what was shown before,
  and is not older than its freshness label says, the page catches up after an outage, and every request
  is answered.
* Classification: every input row is counted once, a table that passed has one
  row for each event, and the oracle the tests rely on decides as the job does
  wherever every field is of the type the job reads it with.
* Drain gate: a complete receipt is true, a receipt accuses nobody, and the gate
  ends.
* Export: a manifest stands for everything that did not change while it was
  made, nothing damaged before its check is written back, and a verification
  that returned means that nothing which stayed was lost.

## 2. Modules

| module | models |
|---|---|
| `KinesisMapping` | the shard and one event source mapping, as operators two components are built on |
| `StreamIngest` | producer, StreamProcessor, its mapping, replay |
| `LatestState` | abstract: what the latest-state table promises its readers |
| `AnomalyAlerts` | AnomalyDetector and its mapping |
| `BatchPublication` | launcher, execution, Glue job, crawler, pointer |
| `Publication` | abstract: what the batch pipeline promises readers of the pointer |
| `BatchClassify` | which rows a run publishes: the job's data frames and `classify_events`, side by side, and the order of the contract's rules |
| `DrainGate` | `drain-check.py` beside the consumers; extends `StreamIngest` |
| `DashboardCache` | `ResilientTtlCache`, its loader and the table they read, replicas included |
| `DashboardPage` | the browser page that polls it, and other clients; extends `DashboardCache` |
| `ExportRestore` | export, reset, restore and verification beside the pipeline |
| `RealtimeSession` | sessions of `realtime-start.ps1`, expiry schedule, reaper, CloudFormation |
| `MC...` | constants for TLC, nothing else |
| `...Proofs` | theorems about the module of that name; `StreamIngestProofs` also has those about `DrainGate`, `DashboardProofs` those about both dashboard modules |

### StreamIngest

A record is a member of `Record` with a pump, an event time and a raw key; the
contract's verdict is a partition of the records: `Accepted`, `Rejected`, and
the rest, for which `validate` raises. `Unstorable` records are accepted but
make `put_item` raise. A worker is the live Lambda or the replay tool; each
external write of `process_record` is one action, so `PutRaw` and `WriteLatest`
can be apart. `RecordRaises` is an exception of the code's own, `Fault` an
error of a call, a crash or a timeout; both leave through `Abort`, which hands
the batch back to the mapping (`BatchFailed`) or ends the replay without a
receipt. `KinesisMapping` is AWS code, modelled from its settings: positions
`1..ckpt` are done, `cuts` are the ends of the pieces a batch was bisected
into, `discarded` the pointers in the failure destination.

Over-approximations, all of which allow more behaviours than the code: sends of
different records interleave; `put_record` may land or not when it fails; a
replayed page may be shorter than the failed batch; a bisection uses no retries.
Left out: quarantine objects are a set of records (their keys are fresh uuids),
the seven-day expiry of raw objects, the teardown of the stack.

### DrainGate

The gate's own state (`gate`, `missing`, `todo`, `looks`) beside all of
`StreamIngest`, whose steps it leaves untouched: `GateOnlyWatches` proves that
the composition implements `StreamIngest!Spec`, so every ingest theorem holds in
it. `Ledger` is what the producer wrote down as acknowledged, `HeadObject` one
request per event, `Scan` the quarantine scan at the end of a look. `before` is
a history variable: what was archived when the look began. The scan is one step,
which is enough because quarantine objects are only added. Left out: the scan's
filter on `LastModified` (objects older than the session), a missing ledger,
which ends the tool before it reads anything, and the run marker that says which
ledger is meant.

### AnomalyAlerts

A row of AlertState belongs to a pump and a rule. `Decide` is the pure
function `decide`: `Quiet` holds its three early returns. Each record is
examined, then every rule is tried in the order of `RULES`: `Publish` and
`WriteRow` are two steps with the row computed before the publish. `recorded`
and `repeated` are history variables: alerts a row write has named, messages
SNS took more than once. Event times are numbers; the code compares the
unnormalised time-stamp strings of the records it receives, and the model
assumes that the strings order as the times do.

*Old rows.* The handler's `get_item` (`anomaly_detector/handler.py:223`) does not ask
for a consistent read. `Reads` may therefore return any row that was ever stored for the pump
and the rule (`Stored`: what a `put_item` wrote, or none at all), and the history variable
`misread` keeps the position and the rule of every read of another row than the
last one; TLC's instance has one such read, the proofs any number. Whatever is
read, no anomaly is silent and a recovery has its trigger, because an old row, too,
promises only what was published (`Backed`), and rows read for earlier records do
not matter to how an episode ends. What a misread can do is in the properties:

* read for the last record of a pump, it leaves the episode open (or closed) against
  the telemetry. `EpisodesFollowTelemetry` and `EpisodeEventuallyCloses` excuse exactly
  that record and rule, and TLC refutes both without the excuse: a trigger, then a
  normal record that finds no open row;
* it can send a trigger early and a message twice. `TriggersAreSpaced` and
  `EachMessageOnce` are about behaviours with `misread = {}`. TLC refutes
  `EachMessageOnce` without it; the other takes two triggers of one episode and a third
  anomaly within the cooldown of the second, which the run's records do not have.

The module's docstring (lines 25-29) argues that the order of a partition makes
plain reads and writes safe; that holds for the concurrency it speaks of,
not for a replica that lags.

*Late records.* `Announced` asks for a trigger of the record itself, or for one
whose cooldown the record lies in: begun at or before it, not yet over. `decide`
compares with the cooldown's end alone, so that an anomaly that comes after a
later event of its pump was announced is held back although no cooldown covers it. Nobody is ever told
of its event. `NoSilentAnomaly` calls that case by its name (`Overtaken`: the
trigger's record was put on the shard earlier and is later in event time); TLC refutes the
property without it. Read strictly, the docstring's "an alert is never silently dropped" does not
hold for such records; what does hold is that the operator had been told of the same
rule and a later time before they arrived.

`TriggersAreSpaced` and `EachMessageOnce` are about records that arrived in
event-time order, with an exception for what failures do to them, in the formula:
a message may go out twice if a failed batch had its record (`WasInFailedBatch`),
and two triggers may be closer than the cooldown if the episode has told of a
record that was then given up (`ToldInVain`). The runs contain the disorder and
the failures all the same.

The second exception was found by trying to prove the property without it. A batch
of anomalies fails after some messages went out, is bisected, and the piece whose
record opened the episode is given up: its message is sent, its row never written
again. The rest is delivered to rows of the first delivery, and the spacing is
counted from records whose messages are no longer in any row. It is not enough
to excuse the pair whose own first record was given up: with anomalies at 1, 4, 6
and 7, a normal record at 8 and a cooldown of 3, a later trigger of the same episode
is too close although its own predecessor was not given up. `alerts_faults`, with
shards of three records, is too short to show either; `alerts_spacing.cfg` is long
enough.

### BatchPublication

Raw objects have a content; a manifest is a function from the keys that were
there to their contents, i.e. with their checksums. The Glue job is one action
per external write, `Stage` to `Commit`; since no frame is cached, `Content` is
the raw data at that moment and not what the manifest says. `JobDies` can leave
half a table. The gate (`Passes`) depends on the data through the parameter
`Bad`. The execution is the state machine of `core_stack.py`: `before` is the
crawl it saw first, `StartJobUnanswered` a StartJobRun that may have started a
job although it ended in an error. Overlapping executions, a repeated start with the same run id and
crawls started by others are all reachable. A job's `awaited` is the execution
that waits for it; a StartJobRun whose answer was lost leaves one nobody waits
for.

Abstractions: the three staging tables are one write; the counts and the report
they end in are one step (no other component reads a report before the pointer
names it); crawls are numbered where the code compares start times; the waiting
loop of `PollCrawler` is its guard.

### BatchClassify

A row is a delivery of an event: its raw object, its contract fields as Spark reads
them, what it has beside them, the contract tests it fails (`broken`), and those
tests whose field is not of its type in `EVENT_SCHEMA` (`mistyped`). The two sides
judge different things: the job reads JSON under `EVENT_SCHEMA`, which makes null of a value of
another type, and validates the rows it gets (`FailedAsRead`); `classify_events`
validates the dictionary as it was sent (`FailedAsSent`). So a `schema_version` of 1.0 or
`true` passes the oracle and not the job, and an optional measurement of `"high"`
passes the job and not the oracle. The job's frames
are operators on sets of row numbers (`InScope`, `Conflicts`, `Silver`,
`DuplicatesDropped`, `AccountedRows`, `QualityPassed`), each named after the
frame or count it stands for. `classify_events` is a state machine with one
action per turn of its two loops. They hash different things, too: the job the
fields of `EVENT_FIELDS`, the oracle the whole normalised event, extra fields
and mistyped ones included. `OracleAgreesWithJob` therefore speaks of events all of
whose deliveries are well typed (`WellTyped`) and have the same extras
(`SameExtra`), one by one and whatever the rest of the input is;
`OracleIsStricter` says what is left without the second premise. Of a mistyped event
neither side is the stricter; TLC refutes both properties without `WellTyped`, which
is something the tests that use the oracle cannot see, because their data is well
typed.

Left out: the other fields that a wrong type can bring apart (a number where Spark
reads text, an event id that is not a string; where they are kept as text or make the
oracle raise), the types of historical CSV, which Spark casts and the oracle is given ready;
the arithmetic of the single contract tests, the manifest's date
window (the parameter `InWindow`), the sums of the KPI summary, and rows that
the join on `source_uri` would lose, which needs two spellings of one URI.

### DashboardCache and DashboardPage

The page polls `fetch_pumps`, an eventually consistent `batch_get_item`
(`aws_repository.py:33`). The source is therefore one pump's row with lagging
replicas: `WriteRow` puts a version, `Settle` brings the next one to the last
replica and dates that in `settled`, and `ReadSource` may read any version from
the last settled one on. A value is the number of the version it was read from.
`CurrentSince(v, t)` says that at time `t` or later `v` was still to be read; no
stronger statement about age is true of this code. `LeaveOut` is a key that came
back in `UnprocessedKeys`, which nobody looks at: the pump is not in the list
(version 0), the list is labelled fresh, and no property claims anything of a
pump that is not listed.

The cache of the publication is the case in which every version settles as it
is written (S3 reads are consistent) and nothing is left out. The report and the
summary a pointer leads to do not change once it has been read, which is
`BatchPublication`'s `PublishesOnce`; that is why one version number can stand
for all three objects.

A request takes its time (`Enter`), waits for the lock, and under it hits or
loads; `ReadSource` and `LoadSucceeds` are apart because the source moves while
AWS answers. `LoadFails` can come before or after the read, with the stale or
the unavailable answer.

The page has one fetch in flight (`awaits`), may give up on it while the server
goes on, and shows the last answer. Other clients use the same server
(`Visit`, `Discard`). Left out: hit counters, the severity computed from a row,
the poll interval, the KPI panel, sign-in. Two consequences of the code that no
property states: the stack outputs are read once per process
(`aws_repository.py:26`), so a server that outlives a core reset answers 503
until it is restarted; and the page loads the KPI panel only while it has none
(`app.js:939`) or on the refresh button, while docs/07 speaks of a load whenever
the publication id changes.

### ExportRestore

A content is the number of the write that made it, or `Absent`, or `Damaged`.
`cloud` is the bucket and the tables of the core, `local` the export directory,
`hash` what its manifest says. Each tool is its sequence of calls: a listing page
by page, one object or row at a time, and so on; `Fail` ends any tool anywhere.
The pipeline writes and expires beside all of them (`Write`, `Expire`); files are
damaged at any time (`Damage`). `todo` is a set, so the worker pool's order is
free. The history variables `touched`, `busy`, `late` and `before` are what the
properties are relative to. The verification compares the rows with the file and
not with the manifest's hash, so `NothingThatStayedIsLost` excuses a damaged
table file in so many words. A restore's unconditional `put_item` may turn a
row back that a live stream wrote before; docs/04-OPERATIONS.md:59 says that it
may overwrite matching items, and the property leaves out what the pipeline
wrote in the new core.

### RealtimeSession

One action per call of `realtime-start.ps1`; `Lose` is the laptop's end between
any two of them, and a call that throws goes where the script's `finally` takes
it. Sessions follow one another and share the one schedule name and the one
stack name. `Fires` starts the reaper Lambda, whose `Look`, `Delete` and `Poll`
are apart from each other; `Raises` is an exception that leaves the handler,
after which Lambda repeats the asynchronous invocation up to `Retries` times.
Time is absent: the deadline may come at any moment, and the reaper may give up
waiting at any poll.

`stack.of` and `stack.excuse` are history variables. `of` is the session whose
schedule answers for the stack: the one that deployed it, or a later one whose
schedule was made while it was there. `excuse` names the four ways in which the
code leaves a stack behind:

| excuse | how |
|---|---|
| `late` | the session reaches `cdk deploy` when its own schedule has fired and its reaper has finished |
| `stripped` | a session deletes the schedule of an earlier session's stack and stops before it makes its own |
| `dropped` | every repetition of the reaper's invocation raised |
| `reported` | the reaper sent its notice: denied, failed, or still deleting |

Only the last tells anyone. `OnlyOwnScheduleFires` is about schedules: a reaper
that was invoked for an earlier session and is repeated by Lambda deletes by name,
and the model lets it delete the next session's stack. Not modelled: two sessions at the same time on two
machines, and the run marker, which belongs to the drain gate.

## 3. Runs

| run | instance | shows |
|---|---|---|
| `ingest_order` | any three of five events: three readings, two with one event time, a rejected and an unstorable record; batches of 2, one retry, faults, replay | `NothingDisappears`, `ReceiptsAreTrue`, `LatestHasHistory`; `LatestRegister`: the table implements `LatestState` |
| `drain_gate` | any two of an ordinary reading, a rejected and an unstorable record, each sent up to twice, faults, no retry, a gate of up to two looks, fairness | `CompleteIsTrue`, `MissingWasNotArchived`, `GateEnds`, `AcknowledgedIsAccounted`, `IngestInv` |
| `ingest_bad_records` | no fault, one record that makes `validate` raise | violation: it is not quarantined |
| `alerts_faults` | three out of six records in any order, late, unreadable and raising ones among them, two rules, faults, no retry, one read of an older row, fairness | `NoSilentAnomaly`, `RecoveryHasTrigger`, `EpisodesFollowTelemetry`, `TriggersAreSpaced`, `EachMessageOnce`, `EpisodeInv`, `AnomalyEventuallyAnnounced`, `EpisodeEventuallyCloses` |
| `alerts_bad_record` | no fault, a null measurement | violation: the batch fails with it |
| `alerts_retry` | a redelivered batch that opened and closed an episode | violation: its trigger goes out again |
| `batch_publish` | two executions, one rewrite, three faults, fairness | `NamedRunsAreComplete`, `PublishesOnce` (implements `Publication`), `SuccessIsCataloged`, `ExecutionEnds` |
| `batch_input` | no fault, one rewrite | violation: a run publishes other data than its manifest lists |
| `batch_classify` | every input of up to four rows out of fourteen kinds, from two raw objects | `EveryRowIsAccounted`, `PassedTableIsComplete`, `OracleAgreesWithJob`, `OracleIsStricter`, `RedeliveryChangesNothing` |
| `session_expiry` | three sessions, three failing calls, one repetition, fairness | `StackIsGuarded`, `OnlyOwnScheduleFires`, `StackEventuallyGoes` |
| `dashboard` | a page and other clients on two threads, a row written twice and read from lagging replicas, keys left out, outages, two units of time, fairness | `ClaimedAgeIsTrue`, `LabelsAreTrue`, `PageNeverGoesBack`, `PageCatchesUp`, `RequestsAreAnswered`, `DashboardInv` |
| `export_restore` | two keys on two pages, two tables, two writes or expiries, one damaged file, failures anywhere | `ExportIsFaithful`, `NothingDamagedIsRestored`, `NothingThatStayedIsLost` |

Type correctness is `TypeOK` of a run, or a conjunct of its inductive invariant
(`IngestInv`, `EpisodeInv`, `DashboardInv`); `ExportRestore` and `BatchClassify`
have theirs by proof. Deadlock is not checked, because each of
these systems may stop when nothing is sent, launched or asked; `export_restore`
checks it, since its operator may always begin again.

**Bounds, and why they are enough.** A batch of two is the smallest that can be
bisected, one retry the smallest that can be used up. `ingest_order` has one; in
`drain_gate` and `alerts_faults` there is none, where a failed batch is bisected and a
failed single record given up, so that a record is delivered a second time after a
bisection only. Three records in flight
give a bisected batch next to a later one, and a late record. One read of an older
row is enough to leave an episode open or closed wrongly and to repeat a message. One pump: rows and
raw keys belong to one pump, and no property relates two. Two rules because the
rule loop can stop between them. A cooldown of two time units has records
inside, at the end of and after it. `MaxLen` bounds the shard in
`AnomalyAlerts`; in `StreamIngest` the producer's `MaxEvents` and `MaxAttempts` do. Two
executions are the smallest that overlap, and three faults allow a start to
exhaust its retries, or a lost start, a dying job and a failed crawl in one run.
Three sessions let one strip the schedule of an earlier one's stack and be lost
itself before a third. Four rows are enough for a conflict beside a duplicate, a
conflict of three rows, and a bad row next to either. Two threads are one loader
and one waiter; two units of time pass a `Ttl` of one and reach a limit of two. Two
keys on pages of one make a listing of two pages that changes in between; two
changes put one before and one after a call. `MaxRewrites` and `MaxFaults` bound the environment only.

`alerts_spacing.cfg` is a second instance of `MCAnomalyAlerts` beside the table. It
trades width for length: up to five records in event-time order without
duplicates (`OnceInOrder`), one rule, batches of five, no retry, a cooldown of three,
rows read as last written.
Spacing needs an episode whose batch is bisected, given up in part and delivered
again to changed rows, which three records cannot show; here TLC refutes
`TriggersAreSpaced` without `ToldInVain`, and finds it and `EpisodeInv` true as they
stand (241,763 states). `GateInv`, `OracleInv` and
`ExportInv` were checked on the instances of `drain_gate`, `batch_classify` and
`export_restore` before they were proved, and can be again by adding them to the
configuration.

**Fairness.** Weak fairness of `Poll`, `Invoke` and the worker's `Step`: Lambda
keeps polling a shard it is mapped to, and an invocation returns or raises
within its timeout. In `batch_publish`, of the execution's own steps, of the
job's steps and of `CrawlEnds`: Step Functions advances its states, and Glue
ends its jobs and crawls. In `session_expiry`, of a running script, the
schedule, the reaper and CloudFormation's creations and deletions. The producer,
the operator, replays and faults are never fair. `ExecutionEnds` therefore does not rest on the state machine's
timeout, and it holds although an execution may wait for a crawl that others
keep restarting, because any newer crawl satisfies its wait. In `drain_gate`,
the mapping's and the gate's steps; nobody has to start the gate. In
`dashboard`, time passes, a row reaches its replicas and answers arrive (weak); the page's poll and the
server's step for a thread are strongly fair, because both need something other
clients also use, a free thread or the lock, which is free again and again when
clients poll seconds apart. `PageCatchesUp` asks nothing while faults go on for
ever, a key left out among them.

## 4. What the violation runs show

Each is a disagreement of the code with a sentence of the repository; the quotes
are in PROJECT.json under `findings`.

* `ingest_bad_records`: `parse_iso_utc` can raise (an offset that leaves the
  calendar), so can `validate` (an unhashable `esp_id`); `process_record`
  catches neither, and the record is retried with its batch until given up.
* `alerts_bad_record`: `triggered_rules` runs outside the `try`, so a null
  measurement fails the batch that the comment says it cannot block.
* `alerts_retry`: the row remembers only the last alert. A retried batch with an
  anomaly and its recovery announces the anomaly again.
* `batch_input`: nothing compares the bytes the job reads with the manifest's
  checksums, and `upload-batch.ps1` overwrites a fixed key.

## 5. Proofs

| module | theorem | from |
|---|---|---|
| `StreamIngestProofs` | `IngestInvariant`: `IngestInv` always | induction, one lemma per conjunct |
| | `IngestAccounts`, `ReplayReceiptsAreTrue`, `HistoryBeforeState`, `IngestTypeCorrect` | `IngestInvariant` |
| | `TableImplementsRegister`: `Spec => LatestRegister` | `IngestInvariant` and a step-by-step simulation |
| | `GateOnlyWatches`: `DrainSpec => Spec` of the ingest | each gate step stutters |
| | `GateInvariant`; from it `CompleteReceiptsAreTrue`, `ReceiptsAccuseNobody` | induction over `GateInv`, with what is archived stays archived |
| `AnomalyAlertsProofs` | `AlertInvariant`: `AlertInv` always | induction |
| | `NoAnomalyIsSilent`, `RecoveriesAreAnswers`, `EpisodesAgree`, `AlertTypeCorrect` | `AlertInvariant` |
| | `EpisodeInvariant`: `EpisodeInv` always | induction on top of `AlertInvariant` |
| | `TriggersKeepDistance`, `MessagesGoOutOnce` | `EpisodeInvariant` |
| `BatchPublicationProofs` | `PointerLeadsToCompleteRuns`, `SuccessMeansCataloged`, `BatchTypes` | induction over `BatchInv` |
| | `PipelinePublishesOnce`: `Spec => PublishesOnce` | `BatchInv` and a step-by-step simulation of `Publication` |
| `BatchClassifyProofs` | `RowsAreAccounted`, `PassedTablesAreComplete` | cardinalities of the frames, as lemmas |
| | `OracleInvariant`: `OracleInv` always | induction over the turns of the two loops |
| | `OracleSpeaksForTheJob`, `OracleIsTheStricter` | `OracleInvariant` and the frames' lemmas |
| | `RedeliveryIsHarmless` | the frames' lemmas |
| `RealtimeSessionProofs` | `StackStaysGuarded`, `NoForeignSchedule`, `SessionTypes` | induction over `SessionInv` |
| `DashboardProofs` | `DashboardInvariant`; `ClaimedAgeHolds`, `PageStaysForward`, `LabelsHold` | induction; the last two are action properties |
| `ExportRestoreProofs` | `ExportInvariant`: `ExportInv` always | induction, one lemma per conjunct |
| | `ExportsAreFaithful`, `DamageIsNotRestored`, `ResetLosesNothing` | `ExportInvariant` |
| `KinesisMappingProofs` | lemmas on the mapping's steps used by ingest and alerts | `MappingAssumption` |

They hold for every set of records, pumps, runs, objects, sessions, threads and
rows, every batch size, retry bound, cooldown, time limit and bound on faults,
from the `ASSUME`s of the modules and nothing else, with one exception: that no
anomaly is silent, that triggers are spaced and that messages go out once need in
addition that event ids are distinct (`UniqueIds`). The producer gives every event
an id of its own (`simulator/esp_simulator.py`), but a record without one is
given the id "unknown" by the detector, and two of those are one event to it. The
other conjuncts of `AlertInv` and `EpisodeInv` are proved without it. Event-time
order, and that no older row was read, are premises inside the two properties
about messages, not assumptions.

Every invariant and every action property of a passing run is stated by a theorem.

*Why `IngestInv`.* That nothing behind the checkpoint is lost does not follow
from itself: a batch is acknowledged at its end, so what must be known is that
every record already passed *in this invocation* is settled (`JobInv`), that
the batch in hand is the one the mapping will move past, and that being settled
is stable. The last is why the conditional write matters: the row may be
replaced, but only by a later one, so a settled record stays settled under the
other worker's writes.

*Why `GateInv`.* A receipt speaks of a moment before it was written. The gate
strikes an event off when it sees its object, objects stay, so what is struck off
is archived now; and what was archived when the look began is either still to be
asked for or still to be found by the scan.

*Why `AlertInv`.* Silence is safe only if the row tells the truth, so the
invariant carries what a row promises (`Backed`): its last alert was published,
and an open row's cooldown was set by a published trigger of its episode. It says
so of every row ever stored, since any of them may be read. A cooldown read there
may begin after the record in hand; `ToldInOrder` is what makes that record one
that was overtaken: a trigger is sent when all that a delivery can still meet before its
record is accounted for, so a record met again after it was there later. The row
computed before a publish has to satisfy it too, with the message sent, which is
the state a crash can leave behind. `RowsAgree` says how far the current delivery
has brought the rows into agreement with its records; it is what makes the last
delivery's acknowledgement sound.

*Why `EpisodeInv`.* It is about behaviours in which no older row was read. Rows remember one message, so what a set of published
messages looks like has to be said of the messages themselves. `MessageInv` ties
them to the shard: each tells of a record of it, an open row's cooldown is that of
its last message, and the row in hand is still what `decide` says of the stored
one. For the spacing, `RowCovers` says that what this delivery has met is inside
the open row's cooldown, and `RowKnows` that a trigger the row does not know of,
because its row write was lost, belongs to a record that is still to come, or to
an episode that told of a given-up record. Then a new trigger can only be
decided for a record outside every earlier cooldown, or for one that was announced
before: `NoGap` and `OpenerIsTold` say of the messages that between two triggers
of an episode every record still ahead is within a cooldown of one of them, and
that the opener is among them, so that a redelivery that opens the episode anew
finds the messages of the first. For sending once, a message that no failed
delivery had is either in hand or `Settled`: its row still names it and its
record is passed, or its record is passed and a later one of the pump has come. A
recovery is in addition `Closed`, its episode opened before it and not open
now, which takes `Opened`: an open episode's first record is behind the
delivery, or a failed delivery opened it.

*Why `BatchInv`.* The pointer's promise rests on the first write of the job, not
on the last: `StagedFirst` says that a run without staging tables has written
nothing, so a second job with the run id, started by a repeated StartJobRun,
stops there. `Written` says what a job that got past it has written at each
step, and that only the last step's run is named. `CrawlSeesRun` ties the
execution to the crawl: while it polls, a running crawl has the run's tables in
sight, and a crawl that has ended well has catalogued them. The refinement then
needs two facts: only `PutPointer` extends the log, and no write touches the
tables of a named run.

*Why `SessionInv`.* `OnlyOwnScheduleFires` is inductive once it is known that
only one session runs; that a stack always has someone to delete it needs
`DeployIsScheduled` (who deploys has had a schedule) and `TidyIsLast` (who takes
its schedule away has no stack left).

*Why `DashboardInv`.* With replicas that lag, versions may go back from one load
to the next; what goes forward is the time of the fetch. Who loads holds the
lock (`OneLoader`), asked after the cached value was fetched, and has read
what was still to be read when it asked (`LoaderIsLater`), so `fetchedAt` only
grows; the page has one fetch out (`OneFetch`) whose answer was fetched no
earlier than what it shows (`AnswerNotBehindPage`, `PageBehindCache`). That a version once replaced
everywhere stays so needs `SettledInThePast`.

*Why `OracleInv`.* The invariant is about the oracle's own verdicts; the job's enter only
when the two are compared at the end. The oracle is two loops over a list, the job a set of frames.
The invariant says what the loops have built so far in the terms of the frames:
rows filed by event id, and an entry, a rejection or a count of duplicates for
exactly the ids that have been decided. At the end all are decided, and both sides
are the same sets. This is the induction over the steps of a behaviour that
replaces an induction over the list.

*Why `ExportInv`.* Each tool works through a set of items, so there is a
conjunct for each of them that says what it has passed: copied and unchanged
since (`CopyInv`), checked and undamaged before the check (`CheckInv`), written
back and compared (`VerifyInv`). What the pipeline or damage touched in the
meantime is in a history variable, and every conjunct speaks of the rest.
`NothingThatStayedIsLost` joins them: export, check, restore and comparison each
keep an item that nobody touched.

*Only model-checked* is liveness: `AnomalyEventuallyAnnounced`,
`EpisodeEventuallyCloses`, `AcknowledgedIsAccounted`, `GateEnds`, `ExecutionEnds`,
`StackEventuallyGoes`, `PageCatchesUp` and `RequestsAreAnswered`. TLAPS proves
neither what rests on fairness nor `ENABLED`. The violation runs are TLC's as well.

## 6. Not modelled, and what is left

* *Hosted dashboard API.* Two module-level caches per Lambda container, with no
  lock and no stale answer. Two containers may answer one page from caches of
  different age, so `PageNeverGoesBack` does not carry over to it; a model of its
  own would be `DashboardPage` over several servers.
* *Hazards without a property*: a second payload under one event id replaces
  the first raw object (`stream_processor/handler.py:156`); records without an
  id share one (`anomaly_detector/handler.py:218`), which is the condition
  `UniqueIds` of three theorems; and the run marker the drain gate trusts
  (`realtime-start.ps1:77`).
* *Eventually consistent scans.* The table scans of the export and the verification
  (`scripts/export-core-data.py:68`) do not ask for consistent reads either, and are
  modelled as consistent. The window is small: the export copies S3 first, and the
  tables are seldom written while one of the tools runs.
* *What a property excuses.* `late` keeps what was damaged during a restore; an
  item in it stays excused in a later restore. `NamedRunsAreComplete` does not see
  that a run was judged on other data than it published; that is the finding of
  `batch_input`.
* *Two claims that are false in the model and are not runs*: that a failed run
  never advances the pointer (`JobDies` at `"commit"`), and that an overlapped
  execution changed nothing (`StartJobUnanswered`, then `StartJob`). What readers
  rely on holds in both cases and is proved.
* *A reaper repeated late* deletes the stack of the next session: reachable, and
  no property forbids it.
* *Data*: the arithmetic of the contract's tests, the KPI sums, the generator of
  the CSV, the signal generator of the simulator.
* *Tools*: deployment, cost, security and documentation scripts. They are calls
  in a row that keep nothing and meet none of the components above.

What would come next: a model of the hosted API's caches, and a composition of the
export with the realtime session, whose steps `ExportRestore` has as `Write`.
