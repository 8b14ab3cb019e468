# FlagBase in TLA+

A verification development of FlagBase, the feature-flag service in `src/`
(FastAPI, SQLAlchemy async, Postgres, `uvicorn --workers 2`). It models the parts
whose correctness depends on interleavings, failures and order, checks them with
TLC on small instances, and proves the properties that matter most with TLAPS for
every value of the parameters.

## 1. Inventory

Paths are relative to `src/app` unless they start with `src/`.

| Component | State it keeps | Operations | Interacts with | What makes it correct |
|---|---|---|---|---|
| Event queue and worker (`core/event_queue.py`) | one `asyncio.Queue` per process | put, get, sentinel | route (put), lifespan (sentinel), `ingest_batch` (await) | every accepted batch is processed or dropped as a whole; one failing batch does not stop the worker; it ends at the sentinel |
| Batch aggregation (`repositories/event_repo.py` 65-126) | `event_aggregations` (hourly counts) | `ingest_batch` | `flags` (read), Postgres locks and constraints | each processed event counted once, in the row of its project, flag, hour, variation |
| Ingestion route (`api/v1/analytics.py` 37-56) | none | `POST /analytics/events` | API-key dependency, queue | 202 only for batches the worker will come to |
| Lifespan, supervision (`main.py`, `src/entrypoint.sh`) | the worker task | start, shutdown | uvicorn, queue | shutdown drains the queue and ends |
| Evaluation engine (`services/evaluation_engine.py`) | none, pure | `evaluate` | evaluation service | exclude beats include beats rollout; independent of row order; monotone in the rollout |
| Evaluation service and route (`services/evaluation_service.py`, `api/v1/evaluate.py`) | `evaluation_events` (append) | `POST /evaluate` | key lookup, flag lookup (two SELECTs), background write | the answer is that of some configuration that existed |
| Flags (`services/flag_service.py`, `repositories/flag_repo.py`) | `flags` | create, list, get, update, archive | projects (ownership) | unique name per project; partial updates leave the rest alone; a walk through the list misses and repeats only what offsets must |
| Rules (`services/rule_service.py`, `repositories/rule_repo.py`) | `flag_rules` | create, list, delete | flags, projects | a rule belongs to a live flag of its owner |
| Projects (`services/project_service.py`, ...) | `projects` | create, list, get, update, soft delete | users | unique slug; nothing of a deleted project is served |
| API keys (`services/api_key_service.py`, ...) | `api_keys` | generate, list, revoke | projects; every SDK request | a revoked key opens no new request |
| Users, authentication (`services/auth_service.py`, `core/security.py`, `core/deps.py`) | `users` | register, login, current user | every dashboard request | unique e-mail |
| Conversion events (`api/v1/events.py`) | `conversion_events` | `POST /events` | flag lookup, background write | recorded for existing flags only |
| Analytics queries (`services/analytics_service.py`, `event_repo.py` 128-208) | none | timeseries, summary | `event_aggregations` | series and summary count the same events, those of their range; daily roll-up loses nothing |
| Health (`main.py` 66-90) | none | `GET /health` | queue size, database | - |
| Database session (`core/database.py`) | connection pool | one session per request or batch | everything | - |
| A/B tests (`models/ab_test.py`, `ab_variant.py`), migrations, deployment files, tests | - | - | - | - |

Hard behaviours: two processes, each with its own queue and worker, that
read-modify-write the same rows; a batch as one transaction that can fail at any
`await`; an in-memory queue between a 202 and the database; a shutdown that must
drain it; checks that are separated from the writes they justify by an `await`;
rules that come back in an order nobody specified; three SELECTs that read one
configuration at three moments; pages whose offsets count a list that changes. `PROJECT.json` lists the
hazards line by line.

## 2. Modules

| Module | Models |
|---|---|
| `EventLedger` | the abstract specification of ingestion: batches are offered, accepted, then counted in one step or dropped |
| `SharedLedger` | what is left of that promise when several processes share the table |
| `EventPipeline` | route, queue, worker, `ingest_batch`, Postgres locking, shutdown, crash and restart, in every process |
| `MCEventPipeline` | the instances TLC checks |
| `EventPipelineProofs` | the theorems about `EventPipeline` |
| `EventLedgerProofs` | where a batch can be, what its events land in, and the refinements of `EventLedger` and `SharedLedger` |
| `EvaluationEngine` | the pure function `evaluate` and its helpers as operators; `ValidRule`, what the rule schema lets in |
| `FlagRollout` | one flag under its owner's edits, and what the engine would answer after each |
| `MCFlagRollout` | the instance TLC checks |
| `FlagRolloutProofs` | the theorems about `FlagRollout` and the engine |
| `ControlPlane` | every request of the dashboard that changes something: registration, projects, flags, rules, keys |
| `MCControlPlane` | the instance TLC checks |
| `ControlPlaneProofs` | the theorems about `ControlPlane` |
| `EvaluateRequest` | composes `FlagRollout` and the engine with the SDK's requests, the key, the archived flag, the events written behind |
| `MCEvaluateRequest` | the instance TLC checks |
| `EvaluateRequestProofs` | the theorems about `EvaluateRequest` |
| `AnalyticsQuery` | the dashboard's three queries over the table that `EventPipeline` fills |
| `MCAnalyticsQuery` | the instance TLC checks |
| `SumLemmas` | the theory of sums over finite sets that the next module needs |
| `AnalyticsQueryProofs` | the theorems about `AnalyticsQuery` |
| `FlagListing` | paging through the filtered list of flags while it changes |
| `MCFlagListing` | the instance TLC checks |
| `FlagListingProofs` | the theorems about `FlagListing` |

### EventPipeline

A step is what the code does between two awaits. For each process `p`:

| Variable | Code |
|---|---|
| `queue[p]` | `_event_queue` of the process |
| `inflight[p]` | requests that entered `ingest_events`' dependencies and have not been answered |
| `pc[p]` | the await at which `event_worker` is: `get` (queue), `resolve` (the SELECT on `flags` or, with a pending write, the flush before it), `select` (the SELECT on `event_aggregations`), `exited` |
| `cur[p]`, `landed[p]` | the batch, and for each event already through the loop body the row it went to (`None`: skipped); its length is the loop index, its non-`None` entries are `processed` |
| `pending[p]` | the write the session holds: autoflush sends it before the next SELECT, `commit()` after the last event |
| `written[p]` | what the open transaction has flushed; those rows are locked |
| `life[p]` | `serving`, `closing` (signalled, waiting for open requests), `draining` (sentinel sent), `stopped`, `down` (killed) |

`agg` is the committed table (0 is "no row"), `flags` the flags table with archived
rows included, because `ingest_batch` does not look at `is_archived`. `outcome` and
`credited` are history: what became of each batch, and what committed batches
counted as processed. A COMMIT whose reply is lost is durable and logged as failed
(outcome `unreported`); its events are counted like those of any other commit.

| Action | Code |
|---|---|
| `Receive`, `Reject`, `Enqueue` | `get_project_from_api_key`, which may refuse the key (401); `ingest_events` |
| `Get`, `GetSentinel` | `event_worker` 57-65 |
| `ResolveFlag` | `ingest_batch` 86-96 |
| `SelectRow` | `ingest_batch` 98-123, the write included: there is no await after the SELECT |
| `Flush` | autoflush, or the flush of `commit()`: the row's lock, the unique constraint, `String(50)` |
| `Commit`, `Rollback`, `DatabaseError` | `ingest_batch` 125-126; `event_worker` 75-79 |
| `DeadlockAbort` | Postgres ends one transaction of a cycle of waits (external) |
| `BeginShutdown`, `SendSentinel`, `FinishShutdown` | SIGTERM (external); `lifespan` 24; `lifespan` 25 |
| `Crash`, `Restart` | kill (external); uvicorn's supervisor starts a process, `lifespan` 20 |
| `CreateFlag`, `Tick` | `POST /flags` committed meanwhile; the wall clock |

Postgres is modelled from how the code uses it: READ COMMITTED, a SELECT sees the
committed rows and the transaction's own writes, a write to a row of another open
transaction waits for it. One row is locked per flush, as the code flushes one
write at a time. Time is counted in half hours so that half-hour zones exist.

Definitions whose comment begins with "Faulty:" are variants of the definition
that follows them, with a plausible bug. The specification never uses them; each
shows that a property notices the bug.

### EvaluationEngine and FlagRollout

A rule is the row in `flag_rules`; a context has an e-mail, a country and custom
attributes, each `None` when absent. The context is an unchecked dict: `custom` is a
map, `None` for `"custom_attributes": null`, or a value that stands for the strings,
numbers and lists a client may send in its place; what is not a map has no `get`, and
the rule that looks into it raises. The engine's loops are stated as the set of places
where a loop over one effect would end (`Stops`) and whether the first of them, in
sorted order, is an exception (`RaisesFirst`). Values are model values; the hash is
a constant function, so the properties hold for every hash. `FlagRollout` commits
one edit per step: a PATCH of any subset of the flag's deciding columns (`Update`), a
rule created or deleted. The rules reach the engine in any order (`Orders`), because
`Flag.rules` has no `order_by`.

### ControlPlane

A request is `req[r]`: its input (path ids, body, user of the token), the await `at`
which it is, the columns it `got` when it read the row, the id drawn for the row it
inserts. Each read is one SELECT with the check behind it and ends the request or moves
it on; each write is a statement with its commit, so another request may run between
any two of them. Ids are primary keys; a row not yet inserted is `None`.

The schemas bound neither the length of a string nor a priority, the columns do. The
body of a creation says whether it `fits` them; the values of a PATCH that no column
holds are in `Oversize`. A statement with such a value is a `DataError`, hence a 500, and
nothing is written. `DatabaseError` lets any statement of a request fail, the refresh
after a COMMIT included, whose request ends in a 500 although its row is there; `Done`
says the same of a COMMIT whose reply is lost.

| Action | Code |
|---|---|
| `Receive` | `get_current_user`; the first SELECT is sent |
| `ReadEmail`, `ReadSlug`, `ReadName` | the lookups before an insert; `ReadName` does not see archived flags |
| `ReadFlag`, `ReadProject` | `get_by_id`, `_assert_project_ownership` and its like |
| `ReadRule`, `ReadKey` | the lookups before a rule's or key's deletion |
| `Register`, `CreateProject`, `CreateFlag`, `CreateRule`, `GenerateKey` | the INSERT; a unique constraint is an `IntegrityError`, a value too long or too large a `DataError`, hence a 500 |
| `UpdateProject`, `UpdateFlag` | the UPDATE, which names the columns that differ from those read (SQLAlchemy's unit of work) |
| `DeleteProject`, `DeleteFlag`, `DeleteRule`, `RevokeKey` | the soft deletes and the one DELETE |
| `Refresh` | `refresh()` after the commit |
| `DatabaseError` | a statement fails: the exception goes through `get_db`, which rolls back (external) |

`dead` (what was deleted when a request came) and `held` (what the patched row held
since the request read it) are history.

### EvaluateRequest

`call[c]` steps through `key`, `flag`, `rules`, `record`, `done`: `get_project_from_api_key`,
the SELECT on `flags`, the `selectinload` of the rules with the engine and the answer, the
background task. `Record` writes the event, `LoseRecord` stands for its failing or for
a kill. The owner's edits are the steps of `FlagRollout`, plus `ArchiveFlag`, `RevokeKey`
and `DeleteProject`. `was[c]` is history: the configuration when the request came and
whether each edit since has narrowed or widened it. `POST /events` (conversion events)
is a call of kind `track`.

### AnalyticsQuery and FlagListing

What a query reports is one SELECT, so `AnalyticsQuery` has no steps of its own: the
queries are operators on every state of `EventPipeline`, the checks before them on the
same state. A percentage is the set of hundredths that
rounding may give. In `FlagListing` a client walks from page to page, each of them three
reads: the project, the count, the page. A flag's `created_at` is when its transaction
began, and it is visible once committed (`stored`), in any order. Flags may have one
date: each page is cut from any list sorted by `created_at`, because the ORDER BY
(`flag_repo.py:76`) names no second column.

## 3. What is checked

| Run | Instance | Shows |
|---|---|---|
| `single` | one process; three batches that share rows, one for a flag that may appear meanwhile, one with a variation that does not fit; one crash | `TypeOK`; every event of a committed batch counted exactly once, the reply of the COMMIT lost or not (`CountsExact`); no conflict (`NoWriteConflict`); the pipeline implements `EventLedger` (`ImplementsLedger`) |
| `pair` | two processes; two batches with two rows in opposite orders, a third in one of them; one crash | whatever the races: no row counts too much (`NoOvercount`), no row of a committed event is missing (`RowPresent`), no accepted batch is stranded by a shutdown (`AcceptedIsHeld`); a commit touches only the rows of its batch and keeps the batch's own events (`ImplementsSharedLedger`) |
| `clock` | two processes and projects with a flag of the same name, events without a timestamp, a half-hour zone, the clock moving | each count is explained by committed events of its own project, key, variation and hour (`Explained`) |
| `live` | two processes, two batches in opposite orders, errors, one crash, fairness | `AcceptedSettles`, `ShutdownCompletes` |
| `rollout` | five rules of all types and effects, tied and distinct priorities, six percentages, users with buckets 0, 50 and 99, six contexts, among them null and a string for `custom_attributes` | `DecisionHolds`, `BareRequestSeesUserRules`; a request without a map of attributes raises or gets the answer of the other rules (`MalformedAnswersStand`); `EditsAreMonotone` |
| `control` | two open requests, two owners, four menus of inputs: names that compete, paths into each other's rows, PATCHes with nulls, falsy values and values too long for their column, statements that fail | `UniqueRows`; what was answered as created is there as asked for, whoever raced for its name (`CreatesHold`); deleted stays deleted (`DeletesHold`); a PATCH takes effect (`PatchTookEffect`); `OwnersOnly`; `DeletedIsLeftAlone` |
| `serve` | one SDK request between any edits of a flag with two rules | an answer from mixed reads never contradicts one-way edits (`AnswersFollowEdits`); `EventsTellAnswers`; `RevokedKeyOpensNothing` |
| `queries` | one process ingests three batches over three hours, two of them in one day | `QueriesAgree`, `RangesAddUp`, `RangeCountsItsEvents`, `PercentagesNearWhole`, `TotalsNeverShrink` |
| `listing` | a flag, two to come that may share its date or each other's, pages of one and two, every filter | a walk misses and repeats only what offsets and ties must (`WalkMissesNoFlag`, `WalkRepeatsOnlyShifted`) |

Three runs end in a violation, each of something the repository says of itself:

* `lost_update`: with two processes `CountsExact` fails. `event_repo.py:76` calls the
  code an UPSERT that is atomic; it is a SELECT and a write of the number Python computed.
* `write_conflict`: with two processes `NoWriteConflict` fails, through the unique
  constraint or a deadlock, and the batch is dropped. `event_queue.py:49` counts on
  one writer; `src/entrypoint.sh:8` starts two.
* `deleted_project`: `DeletedProjectServesNothing` fails. `projects.py:61` says that a
  deletion cascades to flags and keys; nothing an SDK request reads looks at the
  project's `is_active`.

Some surprises are in the models without a run of their own. The name of an archived
flag passes the check and fails at the constraint (`CreateFlag`): a 500. So does a name
longer than its column. Flags of one date may be missed or repeated by a walk through
a list that nobody changes (`Tied`). The total of a filtered list counts the unfiltered flags (`Counted`).
An hour is truncated in the timestamp's own zone, so zones such as +05:30 have buckets
that start on the half hour (`clock`).

### Bounds

Three batches: two to race, a third to be behind or in front of them in a queue, or
to read a row after a commit. A batch has at most three events: a row written twice
in one batch and a row that another batch writes in the opposite order. Two
processes are what `entrypoint.sh` starts; a cycle of waits needs no more.
`MaxCrashes` (0 or 1) bounds kills and `MaxTime` (0 to 3 half hours) the clock; both
appear only in the guards of `Crash` and `Tick`. `Workers` (symmetry of the
processes) is used only where no liveness is checked.

`control` opens two requests at a time: every property of it relates a request to the
row another one writes. The menus (`MCControlPlane`) group the inputs that can meet in
one row; a behaviour takes its inputs from one menu, as inputs of different menus touch
different tables or repeat a race of another menu. One user, project and flag in
reserve for each that competes. `Oversize` is one value, and one creation of each kind does
not fit. The proofs below have no such bound.

`serve` has one request: calls share nothing but the set of events. Its rules are one
that includes and one that excludes, its percentages 49 and 50 with buckets of 49 and 50. `queries`
keeps the clock still, because all its events carry a timestamp, and leaves out refused
requests and lost replies of a COMMIT (`TableOnly`): neither makes a difference to the
table that the queries read. Five bounds give ranges that start or end within an hour and within a day. `listing` needs
three flags: one that stays, one that leaves or enters, one that moves between pages
because of it, and three dates (`Instants`) so that all, some or none of them may be tied.
States after a walk are checked but not left (`WalkToCome`), as no further walk
begins; the two flags to come are symmetric (`Alike`).

`CHECK_DEADLOCK FALSE` in the pipeline's configurations: when every process has
stopped and every flag exists, the system really stops. A worker that waits for
ever would be found by the liveness run.

### Fairness

`FairSpec` assumes weak fairness of a worker's steps, of the handler after its
dependencies (`Enqueue`), of sending the sentinel and of the end of the shutdown:
an asyncio loop that is not blocked runs every ready task, Postgres grants a
released lock and ends a cycle of waits after `deadlock_timeout`, uvicorn without
a graceful-shutdown timeout waits for open requests and then runs the lifespan's
second half. Nothing is assumed of clients, signals, errors, crashes, restarts or
the clock. Weak fairness is enough because the step of a worker stays enabled until
it is taken: only a lock can disable it, its holder is a worker, too, and there are
finitely many batches that could take the lock first.

## 4. What is proved

The theorems hold for every number of processes, projects, flags, batches, events,
requests and inputs, for every rule set and every hash. Assumptions: `ParametersTyped`,
`NoneIsFresh` (`EventPipeline`), `NoneIsNoValue` (`EvaluationEngine`),
`RolloutParameters` (`FlagRollout`), `ControlParameters`, `SeedRows` (`ControlPlane`),
`NoneIsNoRecord` (`EvaluateRequest`), `ListParameters`, `NoneIsNoWalk` (`FlagListing`),
`QueryParameters`, `NoneIsNoSeries` (`AnalyticsQuery`).
They say that parameters have their types, that `None` is no value, and that the tables
at the start satisfy the unique constraints. TLC evaluates them in the runs.
Two hypotheses stand in the theorems that need them: `OneProcess`, and `AllDated` (each
event has a timestamp, in a zone of whole hours). `single` and `queries` satisfy the
first, `queries` the second. Every invariant and every safety property over steps that
a passing run checks is stated by a theorem; before its proof TLC checked each new
inductive invariant on the instance of the run.

`EventPipelineProofs`:

* `TypeCorrect`. `TypeOK` alone is not inductive: `landed[p]` indexes the events of
  `cur[p]`, and `pending[p]` exists only at `resolve`. `TypeInv` adds `WorkerShape`, the
  shape of a worker's local state at each `pc`.
* `NeverOvercounts`. `Bounded(r)`: what a transaction has flushed, or holds pending, for
  row `r` is at most what is credited for `r` plus what the batch in hand has landed in
  it. A count that is read is at most the credit at that time, and `credited` only grows,
  so a commit over a stale read writes too little, never too much.
* `NeverLosesARow`. `Present(r)`: a row that the batch in hand has landed in is flushed or
  pending, so the commit, which waits for the flush, makes it exist; no row is removed.
* `SingleProcessExact`, `SingleProcessNoConflict` (assumption `OneProcess`). `ExactInv`:
  the same bound as an equality, as nobody commits between the read and the write; an
  insert is pending only where no row is committed.
* `ShutdownStrandsNothing`. `AcceptedIsHeld` needs `SentinelLast`: before the sentinel
  is sent the worker runs and no item is `None`; afterwards no request is open, so the
  sentinel stays the last item, and an exited worker leaves an empty queue.

`EventLedgerProofs`:

* `NoBatchInTwoPlaces`. `OwnInv`: a batch is in one open request, one place of one queue
  or one worker's hands at most, and has not been settled while it is there. Steps are sorted by
  what they do to those places (`PlaceStep`).
* `SingleProcessImplementsLedger` (`OneProcess`). Initial states map to initial
  states; a commit is the ledger's `Count`, with the rows in `landed[p]` as its way
  (`LandInv`: each is one the event may land in) and `ExactInv` for the counts; ends of
  batches and crashes are drops, one or several at once; the rest stutters. `OwnInv` says
  that a batch that is counted or dropped was accepted and is not settled.
* `AllProcessesImplementSharedLedger`, for any number of processes: the same mapping, with
  `credited` for what was committed. `ShareInv`: a transaction writes only rows that its
  batch has landed in, and counts there at least the batch's own events; `Bounded` gives
  the upper bound. A commit may lower a row, by events of other batches.
* `EveryCountIsExplained`, for any number of processes. `CoverInv`: the credit of a row
  is at most the number of committed events that fit it, since a commit adds its landings
  to the one and events nobody had committed before to the other; `NeverOvercounts` does
  the rest.

`SumLemmas` and `AnalyticsQueryProofs`:

* The sums of the community modules are folds over a `CHOOSE`n order. `SubsetInduction`
  is induction over the subsets of a finite set, with a set in place of a predicate, from
  the well-foundedness of the naturals; with it the lemmas say that any element may be
  taken first (`SumAny`), that a sum is monotone, that of disjoint sets adds up, and that
  neither a sum nor a cardinality depends on how its terms are grouped (`SumGroups`,
  `CardinalityGroups`).
* `DashboardsAgree`, `AdjoiningRangesAddUp` and `PercentagesAddUp` need only that the table
  is finite (`StoreInv`): each query is the sum of the rows of its range in groups of its
  own (`HourTotal`, `DayTotal`, `SummaryTotal`), rows of adjoining ranges are disjoint,
  and an error of half a hundredth for each term adds up (`ErrorsAddUp`).
* `SingleProcessTotalsGrow` (`OneProcess`): counts equal credits, and credits grow.
* `SingleProcessRangesExact` (`OneProcess`, `AllDated`). `DatedInv`: for a flag that existed
  from the start the credit of a row is exactly the number of committed events that fit it. The
  committed events of a range of whole hours, grouped by row, are those of the rows in
  it, because truncation to the hour does not cross its bounds (`HourInRange`).

`FlagRolloutProofs`:

* `DecisionCorrect` rests on lemmas about the engine: `Evaluate` depends on the rules
  only through the matching sets, whatever the order. A rollout of 0 or 100 agrees with
  the comparison of the bucket because a bucket lies in 0..99.
* `EditsMonotone` follows from it, edit by edit; `BareRequests` because without context
  only `user_id` rules match. `MalformedAnswered`: for such a request a custom rule only
  raises. A loop that does not raise therefore ends at one of the other rules, or at
  none, as the loop over those alone does, whatever the two orders (`MalformedLoop`).
  `RolloutTypeCorrect` is the type invariant.

`ControlPlaneProofs`, every property of `control`:

* The inductive invariant `Inv` is `TypeOK` with, for each request, `Stage` (which kinds of
  request get to a step, and what they have in hand there), `Has` (what it has read is
  there still) and `Reserved` (the row it will insert is not); `Apart`: no two requests
  draw one id. One request acts, the others keep what they know because of `Keeps`: no step
  removes a row, renames it, moves it to another project or undoes a deletion.
* `ControlTypeCorrect` is the type invariant: no null in a NOT NULL column.
  `NamesStayUnique` and `DeletesStay` follow action by action; `CreatesStay`, too: only
  a write that put down what was asked for moves on to the answer (`CreateHolds`), and
  `Keeps` says that no later step, of whatever request, takes it back.
* `OwnersAlone`: a write touches one project (`WriteTouches`), the one of which `Has`
  knows the owner.
* `DeletedLeftAlone` needs `Spared`: what was dead when a request came is dead still, so
  a check that succeeded later has found another row.
* `PatchesTakeEffect` needs `Patching`: all that was read is in `held`, so a value that is
  not written was there.

`EvaluateRequestProofs`:

* `ServeTypeCorrect`, `EventsTell`, `RevokedKeyShut` and `AnswersFollow`, from the invariant
  `ServeInv`. `HistoryHolds` orders configurations: while all edits narrow, the one a call
  found is wider than the one in the tables. `CallsHold` says the same of the row
  it has loaded, so that row with the rules of a later moment serves nobody who was not
  served at the start.

`FlagListingProofs`:

* `RepeatsAreShifts`. Its invariant `Shifts`: a flag of page `j` has fewer than `j` pages of
  newer flags as long as none has entered; a later page shows only flags with at
  least that many. It counts places in lists that may be sorted in several ways: a flag
  whose date is its own has the same place in each, one after the newer flags
  (`PlaceSorted`). Flags with a tie are what the property leaves out (`Tied`).
* `MissesAreShifts` is its counterpart. A flag that stayed and was not shown has at least
  as many newer flags as the pages read so far hold, unless a newer one left
  (`Awaited`). A page that is not full is the end of the list it was cut from (`PageCut`), so
  at the end nothing is left to await.
* `TypeCorrect`: a page holds at most as many flags as its limit.

Only model-checked: liveness (`AcceptedSettles`, `ShutdownCompletes`), which the proof
system does not reach, and the three violations. `RangeCountsItsEvents` is proved for
events that carry a timestamp, the only ones of which it speaks.

## 5. Not modelled

* Endpoints that only read: getting and listing projects, rules and keys, `GET /health`.
  They are one SELECT behind the checks that `ControlPlane` has.
* Login, JWT, bcrypt, the bits of an API key: library calls and pure data. A request
  carries a user, a call finds an active key or none. (So authentication is "partly".)
* The connection pool's limit and memory: the queue is unbounded in the code, too.
* Migrations run once before the service; deployment files, logging, CORS and
  configuration have no state that these models need. The tables for A/B tests have no
  operations. SQLite is used by tests only. The SDK is not in the repository.

## 6. Running

    tlc -workers 2 -config EventPipeline_single.cfg MCEventPipeline
    tlc -workers 2 -config FlagRollout.cfg MCFlagRollout
    tlc -workers 2 -config ControlPlane.cfg MCControlPlane
    tlc -workers 2 -config EvaluateRequest.cfg MCEvaluateRequest
    tlc -workers 2 -config AnalyticsQuery.cfg MCAnalyticsQuery
    tlc -workers 2 -config FlagListing.cfg MCFlagListing
    for m in EventPipeline FlagRollout ControlPlane EvaluateRequest FlagListing EventLedger AnalyticsQuery
    do tlapm ${m}Proofs.tla; done
    tlapm SumLemmas.tla

## 7. Plan

1. `EventPipeline`, `EventLedger`: done; they carry the service's main hazards.
2. `EvaluationEngine`, `FlagRollout`: done.
3. `ControlPlane`: done; all its properties are proved.
4. `EvaluateRequest`: done; all the properties of `serve` are proved.
5. `AnalyticsQuery`, `FlagListing`: done; all their properties are proved.
6. The refinements of `EventLedger` by one process and of `SharedLedger` by any number, and
   `Explained`: proved.
7. Left: how much a racing commit can take back. `SharedLedger` bounds it by what was
   committed; the code loses at most the events of batches that overlapped its transaction.
