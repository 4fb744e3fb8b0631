# Impodo: specifications of its coordination, its jobs and its loads

Impodo prepares migration data in Workspaces and loads reviewed rows into Odoo.
Most of its code evaluates data against rules. What cannot be tested by calling
functions one after another is how it coordinates: a Workspace has one writer at
a time, an operation spans three stores that share no transaction, a load writes
to an Odoo that no journal covers, jobs run in threads and child processes, a form
creates parts in several databases, and any of it can stop between two steps. The modules here are about that part.

Paths below are relative to `src/src/impodo/` unless they begin with `docs/`.

## The parts of the system

**Cross-store coordination** (server mode). `adapters/postgresql/coordination.py`
keeps the operation journal (`RESERVED`, `DATA_COMMITTED`, `PROJECTED`,
`INTERRUPTED`, `MANUAL_REVIEW`), the lease row of every Workspace, and the current
projection. `adapters/duckdb/preparation_operation.py` keeps, in the Workspace's
DuckDB file, the data-plane receipts and the fence (the last fencing token that
committed). `adapters/artifacts/local_store.py` keeps content-addressed files.
`application/shared/cross_store_coordinator.py` calls the three in order: reserve,
acquire, commit, publish, record, verify, project, release; or, for a known key,
recover. Nothing is atomic across two stores, two servers may run the same
request, and every call may end with the process or with a lost reply. Right
means: leases exclude, evidence is true, success is whole, work is done once,
what is settled stays settled, and asking again settles what is not.

**Load execution.** `application/workspace/execution/service.py` writes the rows of
a reviewed snapshot to Odoo: in groups in dependency order, in batches, a first
pass of creates and updates and then the deferred relationships. Its journal (one
row per record, with its status) and its load control (state, rejection streaks,
isolation budget) are in DuckDB; `adapters/odoo/writer.py` makes the calls. A
worker, stop requests and resumptions share the journal. What is written comes from a comparison
with Odoo; a load that cannot be resumed may be given up for a fresh one. Right means: the journal
never says of Odoo what is not so, nothing is written twice, parents come first,
budgets and stops and unknown outcomes end transport, a finished run is settled.

**Preparation jobs** (`web/composition/preparation_job_manager.py` with its registry) run
in up to N child processes with a supervisor thread each. Right means: one active job per
Workspace, a queued job always has something that will start it, a cancelled job in
the queue never starts, a committed result is found when its child dies, evidence
computed from an older mapping never becomes current, shutdown leaves nobody.

**Comparisons** (`application/preflight_jobs.py`, `application/preflight_service.py`) run one at a
time in a worker thread. A comparison is reserved as an intent in the Project registry, queued
in memory and published in the Workspace's database; a restart settles what it finds
pending. Right means: a report that is served is of the data as it is, the recorded outcome
agrees with what was published, every reserved comparison ends.

**Source captures** (`application/odoo_capture_job_service.py`,
`adapters/duckdb/odoo_provenance_repository.py`, `adapters/duckdb/foundation_data_version_commands.py`)
read Odoo under a saved plan and write value files, provenance files, one transaction and a
source package that freezes the DataVersion. Their jobs are in memory only. Right means: what the
databases name has its files, a capture reported stopped published nothing, one reported
complete was accepted.

**Load jobs** (`application/workspace/execution/load_jobs.py`) and the other **serial jobs**
(`application/shared/serial_job_runner.py` and its users) are queues with one worker thread
like those of comparisons and captures.

**Transfer execution and correction** (`application/transfer_execution_service.py`,
`application/correction_*.py`) load a second time, from one Odoo to another or to
correct what a load wrote, with journals of their own.

**Runs, Test qualification, cutover, Production** (`application/run/`,
`application/cutover_plan_service.py`, `domain/cutover/governance.py`): the order of
approvals, each bound to hashes of what was approved. Right means: no Production
run on a plan, a Recipe or a target that differs from what was qualified.

**Project set-up** (`application/migration_project_authoring_service.py`, `application/run/`,
`adapters/duckdb/foundation_*.py`, `adapters/duckdb/migration_foundation_database.py`): a form
creates a Project, a DataVersion with its store and package, a run, a Workspace with its store and
engine, and for Test and Production set-ups a binding, each part under an operation intent whose
identity follows from the form's, so that sending the form again resumes. Right means: every part
once, numbers without gaps, nothing before what it belongs to, an answered form has everything.
**Recipes** are published and applied as documents.

**Identity** (`application/identity/`, `adapters/postgresql/platform_*.py`): sessions,
recovery tokens, administrators; expiry, revocation, last-administrator rules.

**Pure algorithms**: the dependency schedule (`domain/execution/dependency_scheduler.py`), which orders
the rows of a snapshot, cuts cycles of optional references and blocks those of required ones; matching
order and load plan (`domain/matching_order.py`, `domain/execution/planner.py`). **Data evaluation**: mapping,
validation, preparation, comparison. **I/O**: connectors, schema capture, protected
evidence, schema upgrades, web. `PROJECT.json` lists each of them with its sources.

They meet as follows. A set-up form makes the Workspace; captures fill it with source data. The web asks a job manager for work; the work runs a service;
in server mode the preparation service goes through the cross-store coordinator,
whose lease protects the Workspace's DuckDB file; a prepared Workspace is compared
with Odoo, reviewed and becomes the snapshot a load executes; the load's outcome is
read back and becomes evidence for Test qualification and cutover.

## The modules

| Module | Models |
| --- | --- |
| `LeaseRows` | one lease row and the four statements on it, as pure operators |
| `WorkspaceLease` | holders taking, extending, losing and releasing one Workspace's lease |
| `CrossStore` | the coordinator's steps over PostgreSQL, DuckDB and artifacts; uses `LeaseRows` |
| `OperationOutcome` | what a durable operation promises from outside; implemented by `CrossStore` and `ComparisonJobs` |
| `DependencySchedule` | the order, groups, put-off references and blocked rows of a load, as pure operators |
| `RowsOnce` | what the loads of a Workspace promise from outside; implemented by `LoadExecution` |
| `LoadExecution` | loads: comparisons, worker, journal, control, stop requests, resumption, release and Odoo; uses `DependencySchedule` |
| `PreparationJobs` | background preparation: registry, queue, child processes, supervisors, shutdown |
| `ComparisonJobs` | comparisons: intents, queue, worker, edits, publication, restart |
| `CaptureJobs` | source captures: queue, worker, files, Workspace database, DataVersion, registry |
| `ProjectSetup` | a set-up form: intents, registry rows, stores, engine, binding, overlapping calls |
| `WorkspaceLeaseProofs`, `CrossStoreProofs`, `ComparisonJobsProofs`, `CaptureJobsProofs`, `ProjectSetupProofs`, `LoadExecutionProofs`, `PreparationJobsProofs` | theorems about the modules they are named for |
| `DataLemmas` | lemmas the other proofs cite: queues and their elements, least members and induction on finite sets, functions that iterate a step, counting |
| `MC...` | the small instances, with the symmetry where values are interchangeable |

### LeaseRows and WorkspaceLease

A row is the fencing token, its version and three times. `lease_id` and
`holder_attempt_id` are fresh for every acquisition, so the token stands for them.
`row` is what PostgreSQL has committed; `copy[h]` is what holder `h` got from its last
call. A caller reads its clock before the statement runs, so every action takes an
instant `at` anywhere up to `now`. A reply may be lost after the commit; then the
holder keeps what it had: `BeliefIsBacked` says that a copy which still tells its holder that it may write is never
ahead of what the row says. `Acquire`, `Heartbeat` and `Release` carry the checks on the
holder's copy (`domain/shared/coordination.py`) and the `WHERE` clause of the statement.

### CrossStore

`state`, `evidence`, `lease`, `current` are PostgreSQL; `receipt`, `fence` DuckDB;
`published` the artifact store; `task[w]` is what a worker has in its hands: its step,
operation, copy of the lease, receipt and, where the next step reads a clock, the
time its last step ended. Each action is one transaction or one file operation.
`Commit` reads the clock somewhere between the end of the step before and the commit
itself, which is how a stalled worker looks to the code. `Find` fails while
another process holds the DuckDB file open (`HasOpen`): that lock is the only thing
which keeps a replay from looking between commit and publication. `Stop` is a
crash, an exception or a reply lost after a commit; the lease stays.
Workers are separate processes as far as `Find` is concerned, while `Open` does not
exclude another `Open`: executors of one process may share a file.
`current` is the projection's pointer for the one Project all Workspaces here are in.

`OperationOutcome` is what somebody who asks for an operation may rely on: it takes effect at most
once and never unasked, and its answer is final, `done` only about an effect that was taken.
`failed` promises less, and has to: an `INTERRUPTED` operation may still be committed by its
first worker (below). `CrossStore!Outcome` maps the states to outcomes (`PROJECTED` is `done`,
`INTERRUPTED` and `MANUAL_REVIEW` are `failed`) and the receipts to effects.

### DependencySchedule

A row is its rank. A field to be written is `[owner, refs, hard]`: whose it is, which rows it refers
to, and whether the record can be made without it. `Schedule` is `schedule_dependencies` with what
`plan_execution_rows` makes of its answer. Only a row still to be created is waited for (`Edges`). Rows on a
cycle of required references are blocked, with all that wait for them. Elsewhere on a cycle an
optional reference is put off when it points back in the order that the required ones of its component
leave (`DeferBack`), and one reference put off puts off its whole field. `Order` is Kahn's, lowest rank first;
`Groups` are the levels, in the form the code's running level amounts to. `IsSchedule` says what a schedule has to be
without saying how it is made: every usable row in one group behind what its first write
needs, nothing put off that is required or on no cycle, nothing blocked but behind such a
cycle. Left out: references that do not resolve to one usable row (each blocks its owner, as a cycle does)
and the pages of a group.

### LoadExecution

A behaviour begins with a situation: what is prepared, which of it Odoo has, whether the target is
remote. `review` is the current comparison, `reading` one that has read Odoo and is not
published yet, `fresh` says that no load was started from it; `plan` is the schedule of the load.
`journal`, `flight`, `isolating`, `diagnosed` and `run` are the execution tables, `control` the load
control; `worker` is where the transport loop is, `seen` its own copy of
the rows, which it keeps in step with what it records and does not read again;
`stopper` is a stop request between its transactions; `count` and `written` are
Odoo: how many records a row has made and which fields are as prepared;
`call` is the worker's call and `late` are calls whose caller has gone; `kept` the receipts of the loads
that were given up.
Every journal transaction is one action with all its refusals, and a refused
transaction ends the worker the way `_continue_run` does. A call is answered
`accepted`, `rejected` (a data rejection that CONTINUE may set aside) or `refused` (any
other), or given up (`Unknown`), in which case Odoo may carry it out later if
`LateCalls`. Resuming is `Assess` (the read-back), `Recover` (its record) and, for a
paused load, `Continue`; it is bound to the comparison the load was started from. `Compare` and `Publish` make another
one the current comparison, whatever load is open; `Close` gives a load of creates on a remote target up for it, when
all its receipts are in it, and `Start` may follow. `Crash` loses the worker, a stop under way, a
comparison being read and the call. `LoadJobManager` allows one load per Workspace, hence one worker;
`Close` runs in the job of the load that is to follow, hence without one.

The model has one model and one field set, so a batch is one call. It leaves out
projected receipts, the rejection-rate window (which needs twenty results), the
smaller probing batch of CONTINUE, reads that fail, several stop requests at a time,
a stop between the resumption's look at the pause and the record of its recovery,
loads recorded complete without a write, and changes of Odoo by anybody else. So no
property here is claimed for a target that others change during the load. On a local target comparisons are
taken between loads (see *Loads* below for why).

`RowsOnce` is what somebody who sees only Odoo and the journal's answers may rely on: a load takes on every row that Odoo has
not whole; Odoo changes only while a load goes on and only in the rows it has not settled, makes no record twice and writes no field
before the records it refers to; a row is called `written` only when its record and all its prepared fields are there, what is settled stays
settled, and a load is called `whole` only when each of its rows is `written`. `Told` and `Verdict` map row and run statuses to these
answers (`FAILED`, `BLOCKED` and `OUTCOME_UNKNOWN` are `left`; `PARTIALLY_APPLIED` is still `open`, as a completion or a recovery may
finish it; a run that is given up is `released`).

The fields here are of datasets whose existing records are compared. One that only creates calls a record it finds unchanged without a look at
its fields (`domain/preparation/preflight.py:1031`), so `EndIsTrue` and `RowsOnce` say nothing of it: when such a load
leaves a record partly applied, the next comparison shows nothing left to do.

### PreparationJobs

`registry`, `pending` and `workers` are the registry, the queue and the supervised jobs of
the web process, all in memory; `cancelSet` the cancel events, `stop` the shutdown; `verdict[j]`
is what a supervisor read from the Workspace after its child's end and has not yet recorded.
`child[j]` and `events[j]` are the child process and its event queue. `mapping` and
`prepared` are the run registry's, `chain` and `session` the Workspace's DuckDB file: the
canonical staging that is current, the review of its possible duplicates, whether its
quality and normalization are there, and the `preparation_session` of each attempt.

A request is two or three actions (`Observe`; `ReadSaved`; `Restore` or `Enqueue`),
because the manager's lock is not held between its look at the latest job, its read of the
saved result and its change. `Scheduling` says that `_schedule_locked` has the lock and
something to start: whatever needs that lock waits. `StartNext` is one round of
its loop with the three places where `_start` can raise. `Work` are the steps of the child,
up to its last checkpoint (after which a cancellation is not looked at) and beyond it to
publication; `Supervise` those of its supervisor: events, then the saved result, then the end.
`Notify` may fail, because its caller ignores errors. The status `EXITED` is `FAILED` with the code
`WORKER_EXITED`, which alone of the failures is offered for recovery. The shutdown begins when
the server has answered its requests (uvicorn is given no time limit for that), but the
load supervisors make requests of their own: `LateRequests` lets them come later.

Jobs are bound to the mapping of a Recipe in a run, and a mapping revision is a number that is
not used twice. Equal rows are equal content, so a second attempt under the same mapping
finds its rows already current and keeps them, as `publish_canonical_staging` does.
Quality and normalization are one step: evidence with only one of the two is no result.
Not in it: jobs without a Recipe mapping, milestones other than `PREPARED`, progress and
timing events, the deletion of a Workspace's history, and a web process killed with
its children alive.

### ComparisonJobs

`intent` is the registry's operation intent with its stage; `jobs`, `pending`, `scheduled` are the
memory of `PreflightJobManager`, `worker` its thread, `request[r]` a request between its steps;
`input`, `current`, `saved` are the Workspace's database, and `artifacts` the report files. `input` is
two numbers: the evidence that is compared (mapping, staging, quality, approval, target), which
an edit changes while it retires the current report in its own transaction (`Invalidate`),
and the Workspace's revision, which any edit changes. A request is `Submit` (read the hash), `Reserve`
(under the manager's lock: intent and job) and `Enqueue` (queue, stage, waking the worker); polls
fill memory from the registry. `Verify`, `WriteReports` and `SaveReport` are the three places
where `compare` requires the reserved inputs. A write of the registry may fail at any place where the code
goes on (`Fault`). `Reconcile` is `reconcile_pending`, which runs before the first request is served.
Left out: progress, the contents of the report, the run's summaries that follow a
publication except that they may fail, and the retention of old reports.

### CaptureJobs

`jobs`, `pending`, `events`, `cancelled`, `worker` are `OdooCaptureJobManager`; `plan`, `selected`,
`current`, `history` the Workspace's database (the plan, the version of the source selection, the current
capture, every published one); `values`, `candidates`, `provenance` the files; `store` and `package`
the DataVersion's own database, `registry` the Project's, `projection` what the Workspace
shows of the package. Value files are named by what they hold, so that captures of equal content share
them and the clean-up of one attempt must not take those of another: that is why `RecoverIncomplete` asks
the published captures of the Workspace. The worker's steps are those of `_run`, `capture_all`,
`publish_complete_captures` and `accept_odoo_capture` in their order, one file, directory or
transaction each; `Fails` is an exception at any of them, with the clean-up the code does there, and
`Stopped` the cancellation, which is looked at while pages are read and once before publication.
`LOST` is a job whose process has gone, as nothing remembers it. Left out: paging, the closure over
related records, the condition variable (a guard instead, so there is no liveness
property), and retention, which nothing but the tests calls.

### ProjectSetup

`intents`, `rows`, `others`, `revision` are the registry: the intents of the form's five parts, the
rows they made, what other forms made, and the Project's revision. `store` and `engine` go from
nothing over a directory and an empty file to initialised tables. `call[c]` is a server thread
that serves the form: two of them overlap when it is sent twice. A part is looked for (`Look`),
reserved (`Reserve`), inserted under the expected revision (`Insert`), given its store (`Store`, `Open`,
`InitStore`) and finished (`Finish`); then come the package, the engine and, for Test and Production, the binding
(`Bind`). The repositories end a binding's intent differently: for Test with its row, in one transaction; for Production
in a transaction of its own behind it (`Finish` again), so that a call can be cut short between the two. A set-up whose
binding is committed is found first when the form is sent again (`CommittedSetup`). Last the parts are read once more
and the form is answered (`Answer`), which is a step of its own too: a call can be cut short before it.
`Stop` is the end of a call before its next step, by a crash or by an exception whose handler
does nothing; `StoreFails`, `EngineFails` and `MakeDirectories` are the exceptions whose handlers remove
something. `swept` remembers what the handler of one call removed of another's, so that the
properties can except exactly that. `Other` stands for all other forms. Two threads that race between the
select and the insert of `_reserve_intent` collide on a key and one of them ends: `Stop` before `reserve`.
Deletion of a Project, archiving and renaming are not in it.

### Deliberate faults

Definitions such as `MayAcquireAfterHeartbeat`, `VerifyNothing` or `UnknownGoesOn` are not
part of any specification. Each is a plausible slip in the definition that follows
it, says so in its comment ("Fault:" in the newer modules), and put in its place it makes
one property fail: `PROJECT.json` pairs them under "mutants". They show that the properties depend on the code.

## What TLC checks

| Run | Question | Distinct states |
| --- | --- | --- |
| `workspace_lease` | Do leases exclude, with stale clocks and lost replies? | 15 501 |
| `cross_store` | Are evidence, success and order right with a stop anywhere, and is that all that `OperationOutcome` asks? | 2.2 million |
| `cross_store_settles` | Does asking again settle every operation? | 44 842 |
| `load_execution` | Does the journal agree with Odoo, whatever happens, is nothing made twice, does a load that is resumed or compared again end, and is that all that `RowsOnce` asks? | 236 633 |
| `load_remote` | Remote target with late calls and comparisons during a load: is the schedule one, and do receipts hold? | 1.5 million |
| `preparation_jobs` | Attempts racing failures, cancellation, a new mapping and the shutdown: what can a child do wrong? | 2.4 million |
| `preparation_resumed` | Two requests racing: is success saved, and is a failure never covered up? | 2.5 million |
| `preparation_ends` | Does every job have somebody who answers for it, and does it end? | 461 422 |
| `comparison_jobs` | Is what is served fresh, is the outcome true, and does every comparison end, with edits, a crash, a shutdown and failed writes? | 608 148 |
| `capture_jobs` | Do files, databases and job status agree after any failure, cancellation or crash? | 2.5 million |
| `project_setup` | Two threads, one fault anywhere, other forms: is every part made once and in order? | 2.1 million |
| `project_setup_retry` | Is a set-up that was cut short answered when it is sent again? (no: the binding) | stops at a counterexample |

**Bounds.** Leases: three holders, two lengths, four instants and three tokens, enough
for an owner, a successor that took over and a third that takes over from it while
both old copies are still around. Cross-store: two workers (an executor and a
replay, or two executors), three operations, of which two share a Workspace and a
file and one is elsewhere in the Project, leases of length one and time up to two so
that a lease expires and its successor's expires too, one stop. Liveness is
checked with two operations. Loads, `load_execution`: (1) five rows on a local target, loaded once with two exits of the process, so that a resumption can be
cut short and resumed: three creates that are one batch and are taken apart twice, a create that
needs the first of them and refers to the third, while the first and the third refer to it, so that two
references are put off, and an update that needs the second; (2) two creates on a cycle and an update behind them, which
may be loaded twice with a comparison between, and one exit; (3) two creates on a remote target, the same, where comparisons and the
release also meet an open load. The streak limit is two and the isolation budget three, so that both can run out,
alone or together. `load_remote`: all 343 ways in which each of three creates refers to at most one row, required or not, each loaded once
without an exit, under calls that Odoo carries out late; and two loads with one exit of two creates on a cycle, and of a create and the update that needs it.
All graphs of three rows with any number of references (some eleven thousand) satisfy `IsSchedule` when it is
evaluated by itself; with loads they are too many. Preparation: three jobs, so that an attempt can fail, a second one take
its place and a third find the second's work. `preparation_jobs` has one Workspace with two
workers, so that two attempts at it could run together, and so many attempts that a third
child could start; its children are killed by the shutdown. `preparation_resumed` has two requests and
one death. `preparation_ends` has two Workspaces with one worker and two jobs, so that the queue
has somebody waiting, one death and one restart. What may fail at a start is a constant
(`LaunchFailures`), so that each run says which failures its answer is for; between them the
runs have all three. Comparisons: two pages of one Workspace, so that two operations compete, two
requests at a time and three in all, so that one of them is a replay, one edit (of either kind), one crash and one failed write. Captures: two Workspaces for the one worker, two models so that a
capture can be cut short between its files, two contents so that attempts share files or do not,
two captures, one saved plan, one crash, one failed step. Set-up: an authoring, a Test and a Production form, two threads,
three sendings, one fault or one change by another form; `StopAt` names the steps a call may be cut short
before, one for each state of the databases and one before the answer. `project_setup_retry` needs one thread and one fault, right
behind the reservation or between a binding's row and the end of its intent, and lets the form be sent any number of times. Deadlock is not checked: an operation that is settled, a load that is
finished and a system at its bounds have nothing more to do.

**Fairness.** `CrossStore!FairSpec`: a running worker takes its next step (weak, a
thread that is alive runs), and an operation that is not settled is asked for again
whenever a worker is free (strong). The second is an assumption on the callers:
the coordinator retries nothing by itself, and without it an operation stopped after its
reservation stays `RESERVED`. Nothing forces a stop or the clock. `LoadExecution!FairSpec`: the worker
goes on, a call is settled (the writer has a timeout), a stop request completes, and
somebody resumes a load that has no worker (the page offers it; again an
assumption). When recovery refuses a row, somebody
compares again, and closes the load for the fresh comparison if the code lets him; these are what the page offers then, and
`Ends` says which loads this leaves open. Nobody has to stop a load, Odoo need not answer, and a crash is never owed.
`PreparationJobs!FairSpec`: the scheduling loop, the children, the supervisors and the
shutdown's loop over the queue go on (weak, they are threads and processes that wait for nothing
else). That a child ends its work is an assumption, as the code sets it no limit outside the
shutdown. Nobody has to ask, cancel, approve, remap, die, shut down or restart.
`ComparisonJobs!FairSpec`: a request that was sent goes on, the worker goes on (the remote read has
a timeout), and a server that is going down or is down is started again; the last is an
assumption on whoever runs it. `Ends` excepts runs in which the registry refused a write.
`ProjectSetup!FairSpec`: a call that runs goes on, and a form that was not answered is sent again, so that
the answer to `project_setup_retry` cannot be that nobody asked.

## What the models show about the code

**A set-up that is sent again** (`project_setup_retry`, the one run that ends in a counterexample).
`docs/developer/contracts/production-run-lifecycle.md:105` says: "A retry resumes the immutable
stored intent after a registry or store fault." For the binding of a Test or Production set-up it
does not: `bind_setup` reserves under a request hash that covers the whole binding, `created_at` included
(`application/production_cutover_service.py:260`, `application/run/test_setup_start.py:206`), so a
retry that comes after the reservation and before the intent is committed presents another hash and is refused, every
time. For Production this includes a call cut short behind the commit of the row
(`adapters/duckdb/production_run_repository.py:160`, fault point `REGISTRY_COMMITTED` at 164) and before the end of the
intent (165): the run is bound, its intent stays `PENDING`, and every retry is refused.
With `Forms = {"production"}` and `StopAt = {"finish"}` TLC ends in that state; with `{"test"}` there is no counterexample, as
a Test call cut short behind its commit is answered by `_committed_setup`. The parts before the binding are resumed as promised.

The other limits are written into the properties, which hold with them.

*Cross-store.* A replay may mark an operation `INTERRUPTED` while its first execution is between
reservation and commit, and the executor then commits: `recover` joins its look for a receipt and
its verdict by nothing, although the port (`application/shared/coordination.py:59`) calls the verdict a
proof. Evidence, fence and states stay consistent; the executor ends in a mismatch. Hence
`OperationOutcome` lets an effect follow `failed`. And a worker that read its clock in time and
stalls can commit after a replacement has acquired the next token, as long as it does so before that
one commits: the fence knows the last token that *committed*
(`docs/plans/07-vm-deployment-duckdb-worker-management.md:187` promises more). `TokensOrder` is what
holds: commits of a Workspace, and the projections of a Project, follow the tokens.

*Loads.* On a local target a create that the read-back does not find is sent again, and an Odoo that is
still carrying out the first call ends with two records: `CreatedOnce` needs `LateCalls = FALSE`.
A stop between the record of an unknown outcome and the worker's finish completes the
run as `COMPLETED_WITH_ERRORS`, so no property says that such a run says so.
Nothing keeps a comparison from being taken while a load is open. On a remote target that does no harm: the
External ID of a create is derived from the row, so that Odoo meets it again. On a local one, a comparison that was read
in the middle of a load and is confirmed after it creates the rows again (the check that they are
still absent, `application/workspace/execution/service.py:2567`, is made for transfers only), so there the model
takes comparisons between loads. A published comparison ends the resumption of the load before it, which is bound to its own. What then
releases that load is `close_interrupted_run_for_recomparison`, and it asks for a remote target, creates only and
something left to write; a stop ends it if no call is in flight. A load that has updates or a local target and holds a rejected row, or that
was superseded by a comparison with nothing left to write, otherwise stays `RUNNING`, and no other load starts.
The scheduler's "cutting only optional edges required to break cycles" is not meant literally: of
three optional references in a ring it may put off two.

*Preparation.* `OwnWorkIsFound` is about an attempt's own rows: an attempt which finds equal rows
current keeps those of the attempt before it, and the recovery query asks for *that*
attempt's session (`adapters/duckdb/preparation_recovery_repository.py:70`). `StoppedForGood` needs
`LateRequests = FALSE`: `shutdown` takes the queue and the workers once
(`web/composition/preparation_job_manager.py:249`), and a load supervisor's request after that starts
a child which nobody stops. `WithinGuardrail`, `OneWriter`, `OwnWorkIsFound` and `StoppedForGood` need
`LaunchFailures` without `"supervisor"`: if the supervisor thread cannot be started, `_start` (line
355) fails the job and leaves the child running. `Ends` needs it without `"resources"`: if the
job's queue or event cannot be created (line 328), the job has left the queue, stays `QUEUED`, and blocks
its Workspace. TLC finds the last three when the constant is changed in the run.

*Comparisons.* If the registry refuses the stage of a queued job (`application/preflight_jobs.py:258`),
the exception skips the waking of the worker and the job waits for the next one. If it refuses
the record of a success (line 395), the job is `FAILED` in memory while its report is current and its intent stays
`PENDING` until a restart. A step that fails after the publication records `FAILED` about a report
that is current. An edit between the publication and a crash makes recovery say `INTERRUPTED`, of a
report that was published and retired. The `STALE` branch of recovery is never taken, since an edit of the evidence
retires the report in the same transaction.

*Captures.* The package is frozen in the DataVersion's store and in the registry by two transactions
(`adapters/duckdb/foundation_data_version_commands.py:224`). A crash between them leaves the first `FROZEN`
and the second `DRAFT`; nothing resumes it, and every later capture becomes the current source, fails its
acceptance, and is reported with "the previous current version is unchanged". The plan is compared
before the transaction that publishes, so a plan saved between them is answered with a capture of the plan
before. The check that the DataVersion is a draft is made when the request comes and not when the
capture starts; acceptance makes it again.

*Set-up.* An intent that was reserved under a revision of the Project which another form then advances
can never commit. A crash between the making of a store's file and its tables
(`adapters/duckdb/migration_foundation_database.py:150`), or between the engine's directories and its
tables, leaves something every retry refuses. Of two overlapping calls the one that fails removes the
directory it made (line 161) or the engine's file, with what the other has put there: `SuccessIsWhole` and
`LineageIsWhole` except this by `swept`.

### Properties made of several

To keep one question one property, some are conjunctions; their parts have names and comments of
their own. `TokensOrder` is `CommitsFollowTokens` and `CurrentIsNewest`; `JournalIsTrue` is types,
`AcceptedIsWritten` and `UnwrittenIsAbsent`; `ReceiptsHold` adds to `AcceptedIsWritten` the receipts of closed loads; `PlanCarries` is
`IsSchedule`, `ParentsFirst` and `BlockedForCause`; `EndIsTrue` is `FinishedIsSettled` and `CompletedIsWhole`; `NothingSentAfter` is about settled rows, unknown outcomes
and stops; `ChildrenAreSupervised` is types, `WithinGuardrail`, `OneWriter`, `EventsAreWelcome` and
`StoppedForGood`; `OutcomeIsTrue` of `PreparationJobs` is `CancelledIsClean` and `OwnWorkIsFound`; `WorkIsOwned`,
`ActiveIsOwned` and `RegistryIsSound` hold the type invariants of their modules. The faults in
`PROJECT.json` break different parts of them.

## What is proved

TLAPS proves the following for every value of the constants under the assumptions the modules
name, so without any of the bounds above. The assumptions are few: what is a number (durations,
bounds, operation identities), where an operation belongs (`PlacementAssumption`), that the mark for
"nothing" is not one of the things (`NoneAssumption`, `NoLeaseAssumption`), which forms and other changes there are
(`FormsAssumption`, `OthersAssumption`), and that there is a Workspace (`JobsAssumption`). None is needed for a property to hold that the code does not have by itself.
Each proof has one inductive invariant. TLC looked for a violation of it on the runs' instances before it was
proved; for the layers of the loads that search covered a part of the instance only. It is
stated at the head of the module in named parts and proved with one lemma per action or group of actions. Most call it
`IInv`; those of the loads and of preparation are in layers.

*Leases* (`WorkspaceLeaseProofs`). `TypeCorrect`, `HoldersExclude` (`MutualExclusion`),
`RevisionsNameRows` (`CopiesArePast`), `OwnersHandOver` (`HandOver`), `BeliefsAreBacked` (`BeliefIsBacked`). Mutual exclusion is not
inductive: that two copies are both active says nothing about the row they came
from. The invariant adds what makes it so: copies are of the past, a token is in
one holder's hands, a copy whose token has been superseded has expired on the wall
clock, and a copy with the row's token promises no more than the row does.

*Operations* (`CrossStoreProofs`). `TypeCorrect`, `JournalTellsTheTruth`
(`EvidenceIsCommitted`), `ProjectedIsWhole` (`SuccessIsWhole`), `ReplaysNeverRepeat`
(`ExecutedOnce`), `SettlementIsFinal` (`SettledForGood`). The journal takes evidence from a
worker's hands, so the invariant must say what workers carry: past the commit it is
the operation's committed receipt, which no second commit can replace because only
the worker that reserved an operation executes it; a worker about to project has
seen the file, and files stay. Conversely an operation that is absent from the
journal has no worker and no receipt. These are `OnItsWay` and `InItsPlace`; with
`ExecutedOnce` and the types they are inductive, one lemma per action.

*Losses* (`ReviewStaysFinalLoss`, `ReviewIsFinalLoss`). Manual review must not hit an operation whose executor is about to
publish. What decides it is who may report: `LossIsFinal` says that evidence in the journal, and a worker
that reports, both mean that nobody else is between commit and publication of that operation. The executor
reports its own commit after its own publication; a replay reports a receipt it found, and it finds one
only when no process has the file open (`HasOpen`), which is where the DuckDB lock carries the argument.

*Fencing* (`TokensOrderCommits`, `TokensOrder`). The hard case is a worker that read its clock while its lease was
good, stalled, and commits after its lease was taken over. `FencedInv` has three parts. `TokensAreLeased`: a copy's token is
its own and not above the row's. `CopiesRunOut`: who still writes with a superseded copy has a lease that expired, and it
expired before anybody with a greater token opened the file. `CommitsArePast`: who is about to commit
opened the file after every commit of a smaller token. So a commit with a greater token reads its clock after those with
a smaller one, and the fence turns away a smaller token that comes later; a late commit that beats the fence is still earlier by its own clock reading. That the pointer is at the newest projected operation
(`CurrentIsNewest`) follows from the order of (`committed_at`, operation) being total and from `SettlementIsFinal`.

*Refinement* (`RefinesOutcome`, `Spec => ImplementsOutcome`). An outcome is the operation's
state seen through `OutcomeOf`, an effect is a committed receipt. From the inductive invariant, every
step of `CrossStore` is a step of `OperationOutcome` or leaves outcomes and effects alone: `Reserve` is
`Ask`, `Commit` is `TakeEffect` (an operation that is `PROJECTED` has its receipt, so it is not committed
after its answer), `Project` is `Succeed`, and `Interrupt` and `Review` are `GiveUp` of one. With
`SettlementIsFinal` it says that nothing the journal has settled is ever taken back.

*Comparisons* (`ComparisonJobsProofs`). `ReportStaysFresh` (`CurrentReportIsFresh`), `WorkStaysOwned` (`WorkIsOwned`),
`OutcomeStaysTrue` (`OutcomeIsTrue`) and `ComparisonImplementsOutcome`, the refinement of the same
`OperationOutcome`. The first three are inductive only together and with what the worker has established at each of
its steps (`Underway`: the inputs it froze are those its intent names, its files exist before it saves, and it
has saved nothing before), with `QueuedOnce` (a pending operation that has saved its report is in nobody's queue again until a restart
settles it, so that no second run answers for it), with what an intent keeps (`Recorded`) and with the emptiness of memory before the first request
of a server (`NothingInMemory`), on which the recovery at its start relies. In the refinement the reservation is
`Ask`, the transaction that saves the report is `TakeEffect`, and what the worker, a shutdown or `reconcile_pending` records is the answer.

*Captures* (`CaptureJobsProofs`). `FilesStayMatched` (`FilesMatch`), `CancelledStaysClean` (`CancelledIsClean`), `SuccessStaysAccepted`
(`SuccessIsAccepted`), `ActiveStaysOwned` (`ActiveIsOwned`). Value files are shared by attempts of equal content, so the clean-up of one attempt is
safe for another only because (`PublishedOnce`) no two published captures of a Workspace are of one plan and version, and
(`OnItsWay`) what the worker is about to publish is of a later one than all that are published. `Handed` follows a capture from its transaction through the
three places that must agree before it is shown as complete. `Counted` bounds the version of the source selection by the number of captures
published so far; the type of `selected` needs it.

*Set-up* (`ProjectSetupProofs`). `RegistryStaysSound` (`RegistryIsSound`), `LineageStaysWhole` (`LineageIsWhole`), `AnswersAreWhole` (`SuccessIsWhole`). A number
is reserved at one time and used at another, possibly by another thread. `NumbersHold` says why it is still the next one then: it
was taken under a revision of the Project, every change advances the revision, and the insert asks for the one it was taken under. `InOrder`
and `InPlace` say what a call knows of the parts before the one it is at; `EngineApart` that two calls make the engine one
after the other unless something was swept away. `AnswersAreWhole` needs to know why a call that is about to answer may (`Answerable`):
the last part is committed, which for a binding is its intent's end and not its row.

*Loads* (`LoadExecutionProofs`). `LoadTypes`, `BudgetsHold` (`BudgetPauses`), `EndsStayTrue` (`EndIsTrue`), `NothingIsSentAfter`
(`NothingSentAfter`), `ReceiptsAreHeld` (`ReceiptsHold`), `JournalStaysTrue` (`JournalIsTrue`) and `RecordsStaySingle` (`CreatedOnce`), for any rows,
references, cycles, batch sizes, limits, and numbers of loads and exits; `SchedulesAreSound` and `PlansCarry` (`PlanCarries`), and the refinement `LoadsWriteOnce` (`ImplementsRowsOnce`). The invariant is in layers, each proved from those before it.

- `Typed`: the types, and that batches hold only rows that are new.
- `Flows`: where the worker is, what is in flight and what has ended agree. Rows are in flight exactly while the worker waits or after a worker has gone
  (`CallsFollow`). The worker's own copy of the rows is behind the journal only by rows that a stop request has blocked (`CopyFollows`), which is
  why it may decide by a copy that it does not read again. After a rejection under STOP or an unknown outcome it has
  dropped every batch (`StopsFollow`).
- `Accounted`: what the journal calls written is there, and this holds while answers are lost and calls are carried out late. A committed row needs
  its fields and its record (`Truthful`), so a completion in flight must be known to have been created (`FlightKnown`), an accepted
  call to have done all of what it carried (`CallCarries`), and a comparison, even an old one, to call nothing new that an
  earlier one found (`ViewsAge`); from this follows that kept receipts are never created anew (`ReceiptsFollow`).
- `Apart`: what the journal calls unwritten is not there. Here a call must end with its caller and, on a local target, comparisons must be those of the
  present Odoo (`ViewsHold`); then a call without an accepted answer has left nothing behind (`NotYet`), an update is whole or absent
  (`UpdatesWhole`), and a row not sent is untouched (`Untouched`).

- `Scheduled`: the plan is what the schedule makes of its creates and fields, and what it does not create is in Odoo.
- `Advances`: where the load is in its plan. Every group behind the worker's is attempted unless the load stops for a rejected or unknown row
  (`Behind`), the worker is at creates and updates of its group and at completions behind the last one (`Placing`, `Calling`). From this it follows that a
  row is never without the receipt of a record it needs unless something has been rejected, is unknown or was stopped, so rows are blocked for a cause only (`Caused`).
- `Grounded`: nothing that is in Odoo, in a call or in a late call refers to a record that is not there.
- `Covered`: what a comparison, even one that is still being read, or the plan made from it leaves out is in Odoo.

`SchedulesAreSound` says of every set of creates and every set of fields that `Schedule` makes an `IsSchedule`: no row is lost by the order
or the groups, and the cut leaves no cycle. These are recursive functions, and induction over data is out of the prover's reach as a theorem
schema; here the sets are finite, so each induction is the least counterexample (`LeastMember`, `SetInduction`) or a step of an iteration
(`Iterates`) of `DataLemmas`, stated for the one function it is about. `Reach` is the least closed set, so nothing is said to be on a
cycle that could be left out; the rows that the order cannot take would wait for one another, and a cycle of required references would be
among the blocked.

`LoadsWriteOnce` splits a step by what changes (`StepsApart`): no step but `Start` changes journal and run together, or Odoo with either. `Start` is `Begin`
(`Covered` of the reviewed comparison says that rows which are not taken on are whole), a call that Odoo carries out is `Write` (`Apart`: no record is
made twice; `Grounded`: references are met; `CallCarries`: only rows in flight are touched), a change of the journal is `Settle`, the end of a run
is `End`; the rest is not seen.

`JournalStaysTrue`, `RecordsStaySingle` and `LoadsWriteOnce` assume `~LateCalls`; without it `CreatedOnce` is false, as said under *Loads* above, and the run of these properties
makes the same choice. The other theorems hold with late calls too.

*Preparation* (`PreparationJobsProofs`). For any number of jobs, Workspaces, requests, workers, deaths and restarts, whatever fails at a start, whoever
asks late and whatever cannot be read: `PreparationTypes`, `CompleteStaysCurrent` (`CompleteIsCurrent`), `SuccessStaysSaved` (`SuccessIsSaved`),
`OutcomesAreRetained` (`OutcomeIsRetained`, an action property) and `CancelledStaysClean` (`CancelledIsClean`). The layers, each proved from those before it:

- `Filed`: who waits has not begun and waits once (`Queued`); jobs are used in order, so that a Workspace has a latest one (`Numbered`); nobody holds a mapping
  that is still to be made (`Versioned`), which is why an older mapping never becomes current again.
- `Evident`: canonical rows and what is complete belong to the current mapping, and whoever says that a job succeeded, or is about to (a child past its
  normalization, an event in a queue, a supervisor's verdict, a request that will restore), has its evidence or an older mapping.
- `Looked`: a request in flight expects a job that had ended without failure or cancellation when it looked, or one of an older mapping. `Restored` compares the expected job with
  the latest, so it cannot cover a failure, however long the request was away.
- `Reported`: a child before its publication has no rows and no session, and one of whose cancellation anybody speaks has nothing else either.

Three theorems have a hypothesis, the constant by which the runs leave out an answer that is known to be false. `OutcomesAreTrue` (`OutcomeIsTrue`; layer
`Found`) and `ChildrenStayCounted` (`WithinGuardrail`, `OneWriter` and `EventsAreWelcome`; layer `Supervised`) assume that no process
starts without its supervisor (`"supervisor" \notin LaunchFailures`): such a process is not counted, writes on under a job called `FAILED`, and may publish. `OutcomesAreTrue` also
assumes `~UnreadResults`: who cannot read the saved result says `EXITED`. `ChildrenStaySupervised` (`ChildrenAreSupervised`, so `StoppedForGood` too; layer `Closing`)
also assumes `~LateRequests`, since a job queued after the shutdown took its list of workers is on nobody's list. The heart of `Supervised` is `Told`: an event that ends a job is the last one of a child that has
nothing more to do, so a job stays active while its child may write, and one active job per Workspace means one writer.

*Changes the proofs asked of the models.* `ProjectSetup!NoLostChange` counts changes as the cardinality of a set of
(part, row) pairs, which a proof can follow over an added row where a sum over parts would need an induction of its own; the second case of `Reserve` excludes the first in its
guard, so that the `CASE` is a definition whatever the order of its arms. `CaptureJobs!Cancel` takes the job out of the queue by its place and no longer
by a filter, since what a filter leaves of a sequence is another induction; `PreparationJobs!CancelDeliver` does the same. The bounds are assumed to be numbers.
`DependencySchedule!Reach` is the least closed set and no longer a recursion; the steps of `Order` and `Groups` have names of their own
(`Ready`, `Extended`, `Grouped`), so that lemmas can speak of one step. None of this changes a behaviour. One correction does: the read-back of a resumed load
(`LoadExecution!FoundCreate`, `Found`) took a create that Odoo has for committed by its existence; the code compares its fields and calls it
committed, partly applied or unknown by what it finds (`application/workspace/execution/reconciliation.py:1094`). The proof of `Truthful`
over `Recover` compares the two.

*Model-checked only.* Liveness (`Settles`, the `Ends` of four modules, `Completes`), which the prover does not reach. Every other property of a passing run
is stated by a theorem.

## Not modelled, and why

Parts without a module yet are in the plan below, or are one of these: evaluation of
data against rules (mapping, validation, preparation quality, comparison), where the
state is little and the tests are many; connectors and schema capture, which read an external
system; encryption, file permissions and schema upgrades, which are single
transactions or library calls; presentation. In the modelled parts: connection
pools, authorisation checks, audit rows, hashes (two receipts are equal or they are not),
and every form of wording. Deletion of a Project removes registry rows and directories one after the
other with nothing that resumes it; with no promise in the code to check against it has no module.

## Plan

Modules, in this order; each comes with its run, its faults and, where listed, its proof.

1. `LoadJobs`, composed with `LoadExecution`, so that "one worker" is a result about the manager and not a
   premise.
2. `LoadExecution` with projected receipts, several field sets and datasets that only create;
   `PreparationJobs` with orphaned children, the other milestones and `delete_workspace_history`.
3. `CutoverGovernance`: plans, qualification, approvals and activation with the hashes they bind.
4. `Sessions`: idle and absolute expiry, rotation, revocation, recovery tokens.

Proofs: that `ComparisonJobs` and `CaptureJobs` serve one job at a time as one abstract queue would.
