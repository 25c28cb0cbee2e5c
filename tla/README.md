# A verification of X-Scraper

`xworkbench` collects posts from X through two providers (a browser and the
official API) and keeps them in SQLite. What is hard in it is not the scraping
but what surrounds it: HTTP threads that submit, cancel, resume and delete jobs,
one or two worker threads that lease and collect them, a durable table and an
in-memory scheduler that have to agree, files that two processes share, and a
process that is stopped, killed and started again at any moment. This directory
models that part of the program in TLA+, checks it with TLC and proves parts of
it with TLAPS.

## 1. Inventory

Paths are relative to `src/xworkbench/`.

| Component | State it keeps | Operations | Hard behaviour | What makes it correct |
|---|---|---|---|---|
| Durable queue, `storage.py` | tables `jobs`, `post_observations`, its text index, `sources.last_status` | `admit_job`, `admit_batch`, `lease_job`, `claim_job`, `heartbeat_job`, `add_posts`, `finish/fail/wait_job`, `request_cancel`, `resume_job`, `recover_jobs`, `delete_job`, `purge_snapshots` | any transaction may follow any other; the process may die between two | leases inside the approved deadline, terminal rows immutable, keys and sequence numbers unique, batches whole, evidence append-only, index and table equal |
| In-process scheduler, `jobs.py` | deques per priority and source, rotation, pending and active sets, a `Condition` | `_enqueue_locked`, `_remove_pending_locked`, `_next_job_locked`, `_worker`, `shutdown` | waits without timeout, three indexes maintained by hand, batch loop under the lock | indexes agree, slots exclusive, no missed wake-up, FIFO per source, priority first, nobody starves, a shutdown reaches everyone |
| Job service, `jobs.py` | both of the above, two locks, worker positions | `submit`, `submit_batch`, `cancel`, `cancel_remaining`, `resume`, `run_once`, `start`, `shutdown` | operations made of several critical sections; crashes; leases that expire under a live worker | one capture per source and auth state, every lease has its worker, no queued row is forgotten, work is interrupted truthfully |
| Official provider, `x_api.py` | cursor and resource count in the row | `collect`, `_request` | retries, responses that are billed and lost, cancellation and resumption behind the worker's back | never bills past the approved limit, a success is complete, every capture ends |
| Browser provider, `playwright_browser.py` | session file, its marker, checkpoint in the row | `collect`, `authenticate`, `prepare` | another process signs in meanwhile; two files, no lock; cancel between any two page actions | the session of a newer sign-in survives, no post is passed over, every capture ends |
| Batch approval, `api.py` | digest key, batch rows | `preview_batch`, `confirm_batch`, `cancel_batch` | expiry, repetition, edited manifests, restarts | only what was previewed is admitted, in time and whole; only a resumption goes past the capacity |
| Event buffer and its reader, `jobs.py`, `api.py`, `terminal.py` | bounded deque, sequence, epoch; the reader's place | `_emit_locked`, `events`, `_poll_queue` | coalescing, drops, pages, a restart of the numbering | a reader is told of everything it missed |
| Process lock, `jobs.py` | lock file | `_acquire_process_lock`, `_release_process_lock` | stale lock removed by two processes | the lock of a live process stays |
| Schema and migration, `storage.py` | schema version, backup | `initialize`, `_create_schema`, `_migrate_to_v4` | crash or second process in the middle | nobody works on half a schema, old evidence has a backup |
| Resource governor, `jobs.py` | pause, tripped signals, recovery clock | `_resource_ready_locked` | hysteresis over unsupported signals and a failing clock | resumes only after an undisturbed window |
| Read service, MCP, CLI, configuration, registry, web interface | none that outlives a request | reads and displays | none | not modelled |

The HTTP routes call the job service under Flask's threads. `submit` and
`submit_batch` keep `_storage_lock` while they take the condition; every other
operation takes the two locks one after the other. Workers call `run_once`,
which calls a provider, which calls back `on_batch` and `should_cancel`; both
take `_storage_lock`. `delete_job` and the purge route call storage without any
lock of the service. The session file is shared with the process of
`auth`, the database and the lock file with every process that is started on the
same data directory.

## 2. Modules

| Module | What it models |
|---|---|
| `JobStore` | the durable queue; an action is one committed transaction of class `Storage` |
| `CaptureQueue` | the abstract specification of the scheduler: lanes and running items |
| `Scheduler` | what lives under the `Condition`; implements `CaptureQueue` |
| `JobService` | `JobStore` and `Scheduler` composed by `INSTANCE` with HTTP clients, workers and the process |
| `OfficialCapture` | one job of the official provider over several attempts, with X, `run_once` and the columns it is resumed from |
| `BrowserCapture` | one job of the Browser provider over several attempts, beside `authenticate` of another process |
| `BatchApproval` | previews, confirmations, admission, cancellation and resumption of batches, with restarts of the server |
| `EventFeed` | the event buffer, the page of the route and the reader of the terminal client |
| `ProcessStart` | schema creation, migration and lock file of processes that start on one database |
| `ResourceGovernor` | the pause of the workers |
| `Surroundings` | the Browser capture, the approvals, the events, the start of processes and the governor side by side |
| `MCJobStore`, `MCScheduler`, `MCJobService`, `MCOfficialCapture`, `MCProcessStart` | instances for TLC |
| `JobStoreProofs`, `SchedulerProofs`, `JobServiceProofs`, `OfficialCaptureProofs`, `BrowserCaptureProofs`, `ProcessStartProofs`, `SurroundingsProofs` | theorems and proofs |
| `Counting` | lemmas about natural numbers and finite sets that the proofs share: induction, ranks, images |

### JobStore

`jobs` maps an id to its row. An id without a row is `absent`; a deleted row
leaves a tombstone with its request and manifest that no operation reads: it is
history for `BatchAdmittedWhole`. Ids are `uuid4` and so used once. A *request*
is the admission identity of `_admission_identity` (key, batch, source, auth
state, priority, deadline); source stands for `COALESCE(source_id,
source_fingerprint)`. Time is a counter of instants; `julianday(NULL)` is 0.
Error codes are represented by the classes the code tells apart
(`rate_limited`, `session_expired` for the codes that are never resumed,
`login_required` for those that recovery does not requeue, `provider_error` for
the rest). `Outcome` and `TransitionedRow` are the body of `_transition_job`,
which `FinishJob`, `FailJob`, `WaitJob`, `RequestCancel` and the recovery
share. Rows of a migrated database (`LegacyRow`) are initial states. Checkpoint,
cursor, warnings and coverage columns are left to the two capture modules. The
module says nothing about callers: every order of transactions is allowed, so
what holds here holds for all of them.

### Scheduler and CaptureQueue

`lanes`, `order`, `known`, `active`, `activeSources` and `activeAuth` are
`_pending`, `_source_order`, `_pending_jobs`, `_active_jobs`, `_active_sources`
and `_active_auth`. Actions are critical sections of the condition; the loop of
`submit_batch` and of `start` is an action per item while `inbox` holds the
rest, which is what makes a failure in its middle visible. `phase` is where a
worker stands: `scanning` (about to take the lock), `waiting` (in `wait()`),
`dozing` (in `wait(0.25)`), `busy` or `exited`. `notify_all` moves everyone out
of a wait (`Notified`). `Rotated` is the net effect of the `popleft`/`append`
loop of `_next_job_locked`: blocked sources that were scanned before the served
one go behind the rest. The governor is a free choice to pause (`Doze`).
`CaptureQueue` keeps only the lanes and the running items; `QueueSpec` says
that every step of `Scheduler` is one of its steps or a stutter, under the
identity on these two variables.

### JobService

A step is a transaction under `_storage_lock` or a critical section of the
condition. `guard` is the client that keeps the storage lock between two steps
(`submit`, `submit_batch`); `client` and `task` are program counters of the
HTTP handlers and of `run_once`. `cancel` is two steps, `resume` four (capacity,
row, routing, queue), `run_once` one per use of a lock: lease, persist,
heartbeat, the answer of `should_cancel`, the return of the provider, the report
of the outcome, the read-back of the `finally` clause, the release of the slots.
A worker owner is a pair of the process number and the thread, since
`worker_id` is new in every process. `Crash` loses everything in memory at any
step, also during a start-up; `Recover` is one transaction per row, as in
`recover_jobs`, so a crash may fall between them. A failed start (`LoadFull`)
ends the process.

### OfficialCapture

`row` holds the columns a capture is resumed from: status, reason, stored posts,
next token and counted resources. `loc` holds the local variables of `collect`,
`page` the response in the worker's hands. X is a list of `Feed` resources
served in pages; a token is the last place of the page before; some resources are
`Malformed`, skipped by `map_response` and billed all the same. X may serve short
or empty pages, return an earlier token (`repeat`) or more than was asked for
(`excess`), and each response may be lost after it was billed (`Retry`). A
cancellation, a resumption, a shutdown or a crash may come at any step, also
while the worker waits for a response. `billed`, `lost`, `over` and `repeated`
are history: what X has billed, what of it never reached the row, what X served
unasked, and whether X has ever repeated a token. The writes of `run_once` change
a running row only, as `JobStore` shows for the transactions themselves.

### BrowserCapture

`file` and `marker` are the session file and the JSON beside it, `record` the
marker that each of the two actors (worker, `authenticate`) is about to write:
`_record_status` reads the file first and replaces the marker later. A session is
told from others by the sign-in it goes back to and the attempt that refreshed
it, which is what its digest tells apart. `Compare` and `Replace` are the two
steps of `_save_storage_state`. `row` and `cap` are the checkpoint columns and
the local variables of `collect`; a scan finds any set of posts that were not
seen before. Page failures are the classes that the code treats differently:
final ones, retryable ones, and whether the marker is rewritten.

### BatchApproval

A digest is a pair of the process's key and the manifest, since an HMAC can only
be repeated by the process that holds the key; a client may bring back the
manifest it was given or an edited one. A confirmation is three kinds of step:
the check of digest and expiry, the preparation of each item, and the admission
under the storage lock, where `Missing` is what `admit_batch` inserts. A preview
is good for half of the time of its jobs, between `PreviewLeast` and
`PreviewMost` (15 and 300 seconds in the code). The
previewed batch is admitted next to single jobs (`CreateJob`) that share the
capacity; `singles` counts them by status, since they differ in nothing else.

A row is `admitted` (active since its admission), `resumed` (active again),
`stopped` (may be resumed) or `over`. The capacity is asked for by the
admissions, which count the active rows. `Resume` and `ResumeSingle` do not:
`jobs.resume` compares the queue in memory with `max_queue`, which leaves out
running and waiting rows, and `resume_job` counts nothing. So `ActiveRows` goes
above the capacity, in the run as in the code, and `ApprovalHonoured` claims the
limit only for what is active since its admission.

### EventFeed

`buffer` is `_event_buffer`; an event is its number, its job and whether it is a
`persisted` one, which replaces one of the same job at the end. The deque is in
the order of the numbers, so the set of its events says as much (`First`,
`Last`), and a gap is an event that follows neither another one nor the request
(`Loose`). `reader` is what
`_poll_queue` keeps between polls. A response may be lost. A reader that meets
another epoch or a smaller number asks again from zero and shows a gap.

### ProcessStart

`db` is the committed form of the schema. `_create_schema` commits statement by
statement (`part`); the transaction of the migration is ended early by
`executescript`, which commits first (`torn`), so that what follows it is a step
of its own. The lock file is created, written, read and removed in separate
steps, as in the code; a process is a process number and a life, which stand for
its pid. `Holder` is `os.kill(pid, 0)` between processes of one user. The code
would also take the lock of another user's process for stale (`PermissionError` is
an `OSError`), but a start refuses a data directory that is not its user's own
with permissions 0700 (`config.py:110-113`), so that no such file is met.

### ResourceGovernor

One action per outcome of `_resource_ready_locked`; `disturbedAt` is history, the
last time at which a recovery window had to start again.

### Surroundings

`BrowserCapture`, `BatchApproval`, `EventFeed`, `ProcessStart` and
`ResourceGovernor` share no state with each other. `Surroundings` extends the
first and instantiates the others; `part`, chosen in `Init`, says which of them
moves, so that one run checks all five, each in all its interleavings, and their
states add up instead of multiplying. Each component's behaviours are behaviours
of its own specification (`Apart`), so nothing is lost.

## 3. Runs

Passing runs:

| Run | Checks | Instance and why it is enough |
|---|---|---|
| `store_admission` | leases inside deadlines, honest source status, unique sequence and keys, whole batches, immutable terminal rows, order of resumptions, purge | two rows, two owners, a batch of two, a request that reuses its key and one that repeats, three instants, deadlines 2 and 3: an owner may be late for a row that another one has leased again, and a heartbeat may try to pass a deadline |
| `store_capture` | types, snapshot metadata, positions, index, evidence, finality of a rate limit, precedence of a cancellation | one row in any migrated state, further attempts, two posts in any batches, resources: positions over several segments |
| `scheduler` | types, agreement of the indexes, exclusive slots, no missed wake-up, refinement of `CaptureQueue`, shutdown, progress of a source with its own auth state | two workers (the most that `config.py:172` allows), five jobs, three sources of which two share an auth state, one job at two priorities, batches of two that start with a job whose auth state the others do not use, capacity three: blocked sources before and after the served one, overflow in the middle of a batch |
| `service_faults` | types, one capture per source and auth state, every lease has its worker | two rows with a shared auth state, two workers, capacity one, cancel, resume, rate limits, a crash at any step and a restart; a lease may expire under its worker |
| `service_restart` | no stranded row and no phantom in the queue (`QueueMatchesTable`), truthful interruption | a batch of two, cancellations, crash or shutdown at any step and a restart |
| `service_live` | every queued job starts | two rows with a shared auth state, two workers, deletions of finished rows under a busy worker, a governor that pauses |
| `official` | types, the billed resources, complete successes, the end of every capture | target four, pages of at most three with a minimum of three, so that the confirmed limit is rounded up from four to six; five resources of which one is malformed; one retry, two attempts, every fault: a page is cut by each of the three remainders, and a lost or stalled page falls into either attempt |
| `surroundings` | the Browser checkpoint and session, approvals, gaps in the feed, whole databases, live locks, the governor's window, the end of every Browser capture | Browser: two posts, target two, two scans without progress, two attempts, one more sign-in. Approval: a batch of two, two threads, capacity two and one single job, so that the batch is refused beside the single job and a resumption of it goes past the capacity; deadlines of one and four instants, half of which is below and above the limit of a preview, so that it is raised and cut to one; two lives of the server. Feed: two jobs, a buffer of two, pages of one, four events in each of two epochs. Start-up: two processes started twice each. Governor: a sample per instant, a window of two, seven instants, so that a window can be disturbed and completed |

Threads are interchangeable, which `ThreadSymmetry` uses in the two safety runs
of the service. Bounds: `MaxTime` of the clocks, `MaxSequence` of sequence
numbers, `MaxAttempts` of attempts, `MaxUsage` of official resources,
`MaxEpoch` and `MaxLife` of processes, `MaxBatch` of previews, `MaxSingles` of
single jobs, `MaxSignIns` of sign-ins. A bounded action is disabled at its bound, which only cuts behaviours
off; deadlock is therefore not checked (`CHECK_DEADLOCK FALSE`), and the service
may also come to rest for good.

Some properties have an exception that is part of what the code does, and worth
knowing:

* `NoMissedWakeup` excepts the step `Overflow`. A batch that overflows has
  enqueued its first items without notifying anybody (`jobs.py:538`), so a waiting
  worker may sleep beside a job that it could take until the next notification,
  also when other workers have made room in the queue meanwhile. The property is
  therefore one of steps: no other step leaves a worker waiting where none was.
  In the composed service an overflow takes a stale entry in the queue, whose
  cancellation has its second half, with its notification, still to come.
* `BilledWithinCeiling` excepts responses that were billed and lost on their way
  to the row, and what X serves unasked. A page that arrives after its job was
  cancelled and resumed belongs to the first kind: the row is queued again, and
  neither the page nor its count is stored.
* `NewerSignInKept` excepts a sign-in that is saved between the comparison of a
  capture and its replacement of the file.
* `LiveLockKept` excepts a process that read the lock file before the live one
  had created it, or before its pid was written.
* `SucceededIsComplete` promises nothing for a search that repeats its tokens.

Runs that TLC must find violated, each against a sentence of the repository:

* `scheduler_starved`: `TopItemsStart`. ADR 0002 says that the scheduler
  "rotates sources at equal priority". A blocked source that is scanned before
  the served one is appended behind the rest, so with two workers a source that
  shares its auth state with another one loses its turn each time the other
  worker is served, and may never start. The shape is the production one: all
  Browser jobs share one auth key, the official ones another. What does hold is
  `OwnersStart`, for sources that share no auth state.
* `service_stranded`: `NoStrandedJob` with resumptions. A job that is cancelled
  and resumed before its worker has left it is still in `_active_jobs`, so
  `_enqueue_locked` does nothing; or a slow `cancel` withdraws what the
  resumption has enqueued. The caller is told "queued"; nothing runs the job
  until the next start.
* `service_batch`: `RefusedBatchAdmitsNothing`. "All jobs are admitted
  atomically or none are admitted." The rows are committed before the in-memory
  queue is asked; when it still holds a job that the table has cancelled, the
  call fails with `queue_full` and the rows stay.
* `migration`: `MigratedOrUntouched`. Versions 1-3 "are migrated inside a
  transaction" (`docs/storage-and-cache.md`). `executescript` of `sqlite3`
  commits an open transaction before it runs its script, so a process that dies
  there leaves the tables of version 4 under the old version number and without
  their indexes, and every later start refuses the database as incompatible.

Further divergences that were met and have no run of their own:

* "An expired lease becomes a new attempt" (ADR 0002:22), but only a start-up
  looks for one: a lease that is still valid when the process restarts expires
  unnoticed;
* a heartbeat renews a lease that has already expired (`storage.py:2181`), so
  the same attempt goes on;
* after a restart with an unexpired lease, queued rows of the same source or
  auth state are taken, cannot be leased and are dropped from memory
  (`jobs.py:1065`); `service_restart` passes because its two rows share neither;
* resumptions may lift the number of active and of queued rows over `max_queue`
  (`Resume` of `BatchApproval`), and the next `start` then raises
  `QueueFullError` (`LoadFull` reaches it in `service_faults`);
* a resumed job is queued with priority 0 whatever its row says (`Resumed`);
* a process that dies between the backup and the migration leaves a backup that
  stops every later start; two processes that start the same migration may both
  write the backup, the second one from a database that is migrated already,
  where `docs/storage-and-cache.md` says that an existing backup is never
  overwritten; a schema creation that was cut off is refused by every later
  start;
* two processes may end up serving at once: an empty lock file counts as stale
  (`jobs.py:273`), and a stale one may be removed after another process has
  replaced it;
* "a stale capture cannot overwrite newer state" (ADR 0002): it can between its
  comparison and its replacement, and a marker that was decided before a sign-in
  may be written for the session of that sign-in;
* the governor's pause ends when the signals of the *last* sample over a
  threshold are good, where ADR 0002 asks for both;
* the same manifest, confirmed again after its rows were deleted, admits them
  again; a single `POST /api/jobs` carries no idempotency key, so a repeated
  call is another job;
* the web page compares sequence numbers only and ignores the epoch
  (`app.js`), unlike the terminal client that `EventFeed` models;
* the warning of `x_api.py:602` says that the capture stopped, while the loop
  goes on.

## 4. Fairness

`Scheduler!Fairness` and `JobService!Fairness` are strong fairness of every
thread, since a thread that keeps asking for a lock may find it taken again and
again: CPython's locks make no promise of order, but a thread that is never
served at all would be a failure of the operating system. Captures end because
every job has budgets and a deadline. The governor is assumed not to pause for
ever. Nothing makes a client call, the clock tick or a process end or start.
Within a worker, `Heartbeat` and `Persist` are not fair: a capture may go on
without them. In the counterexample of `scheduler_starved` all of this holds.

The two captures assume weak fairness of the worker's own steps (`WorkerStep` of
`OfficialCapture`, `CaptureStep` of `BrowserCapture`): an HTTP request and a page
call each have a timeout, after which the code goes on. Faults, cancellations,
sign-ins and the deadline are not fair: `CaptureEnds` says that the loops end by
themselves, on a search that returns the same tokens and on a timeline that
shows the same posts for ever.

## 5. Proofs

The theorems assume the named assumptions of the modules only (finite sets,
limits that are natural numbers, faults of the known kinds), so they hold for
any number of rows, clients, workers, items, pages, posts, attempts and
processes. That a page of events holds one at least (`SurroundingsAssumption`)
is what the route demands of its limit.

**Counting.** The library's induction theorems take an operator as a parameter,
which the provers cannot instantiate. `Counting` gives the same arguments in a
first-order form: a set of naturals that is not empty has a least
member, a set that holds 0 and every successor is `Nat`, a family of subsets of a
finite set has a minimal member. From these follow what the proofs about queue
numbers, positions, purges and pages need: n things with different numbers out of
an interval of n fill it, at most (and, if there are as many, exactly) n members
of a totally ordered set have fewer than n others below them.

**The store.** `JobStoreProofs` proves every property that the two runs of the
store check. `TypeCorrect` (`[]TypeOK`) comes first; it is inductive as it
stands. Most properties speak of one row at a time, so what a transaction may do
to a row is stated once, as `RowStep(r, s)`: an admission, a resumption, or one of
eight quiet changes that keep the queue number and the request (`QuietStep`).
`NextShape` and `NextRow` prove, action by action, that every transaction obeys
it; the per-row theorems follow from `RowStep` alone.

* `LeasesBounded` (`[]LeaseWithinDeadline`) and `SnapshotsHonest`
  (`[]SnapshotMatchesStatus`), from the inductive invariant `RowInv`: `TypeOK`
  and, for every row, `LeaseInv`, `CancelInv` and `SnapshotInv`.
* `CancellationKept` (`CancellationWins`). The property itself is not enough to
  go through: that a resumption finds a flagged row in state `cancelled` only
  needs `CancelInv`, a flagged row is active or cancelled, and that holds because
  `_transition_job` lets the flag win over every target.
* `TerminalKept` (`TerminalImmutable`) and `RateLimitKept` (`RateLimitIsFinal`),
  from `RowStep` and the types; `QueueFair` (`QueueOrderKept`) likewise, since
  `MAX(sequence) + 1` is taken inside the transaction.
* `SequenceNumbersUnique` (`[]SequenceUnique`) and `KeysUnique`
  (`[]OneRowPerKey`), which relate two rows. Quiet steps keep both columns; a
  single admission, a batch (`BatchEffect`, its effect without the CHOOSE of the
  action) and a resumption are treated apart.
* `SourcesHonest` (`[]LastStatusHonest`), which relates the sources table to the
  rows: every transaction that starts, admits or ends a job marks its source in
  the same transaction, and a row that ends marks it with a terminal status.
* `EvidenceKept` (`ObservationsAppendOnly`) and `IndexInStep`
  (`[]IndexMirrorsObservations`): posts are added in one transaction with their
  text, and rows go together with both.
* `PositionsKept` (`[]PositionsContiguous`) needs `BlankInv`, an id without a row
  has the blank row, or a new row could be admitted over posts of its own; then
  that `add_posts` numbers the new posts by their rank behind the stored ones.
* `BatchesWhole` (`[]BatchAdmittedWhole`) needs `BlankInv` as well: the manifest
  of a row is that of every row of its batch, and a row leaves a tombstone.
* `NewestKept` (`PurgeKeepsNewest`): the order of the purge, newest first with ties
  broken by the id, is a total order of a source's rows
  (`Orders`), the rows that are kept are those of rank below `keep` in it
  (`FirstOnes`), and each is newer than a row that goes.

**The scheduler.** `SchedulerProofs` starts with lemmas about the sequence
operators of the module (what `Append`, `Rotated`, removal of an element and
`Head`/`Tail` leave of the elements and of their order). The inductive invariant
`IInv` is the types in two halves and five facts about the indexes: `LanesInv`
(the lanes hold exactly the known items, each in its own lane), `OrderInv` (a
source is in the rotation of a priority once, exactly if its lane is not empty),
`JobsInv` (no job is known twice, or known and active), `RestType` and
`ExclusiveSlots`. From it follow

* `SchedulerTyped`, `IndexesKept` and `SlotsKept`, the invariants of the run;
* `QueueImplemented`: `Spec => QueueSpec`. Each action is a step of
  `CaptureQueue` or leaves its two variables alone; that the served item is one
  of the highest priority and at the head of its lane needs `OrderInv`, since
  the code scans the rotation and not the lanes;
* `WakeupsKept` (`NoMissedWakeup`): an item becomes possible to start when it is
  queued, when slots are given back, or when an item of a higher priority goes, and
  each of these steps notifies everybody or ends with nobody waiting. Its
  consequence `NobodyOverslept`: in a behaviour where no batch overflows, no worker
  ever waits, while the lock is free, beside an item that it could start.

**The service.** `JobServiceProofs` composes the two parts by their instances and
cites their theorems.

* `StoreImplemented`: `Spec => Store!Spec`. Every step of the service is a
  transaction of the store or leaves the table alone, so every theorem about the
  table holds in the service, whatever races and crashes there are.
* `ServiceTyped` (`[]TypeOK`), with the scheduler's `IInv` carried along; a crash
  and a start rebuild it.
* `CapturesApart` (`[]OneCapturePerSourceAndAuth`), from `FaithInv`: whatever
  travels through clients, inbox, lanes and workers carries the source and the
  auth state of its row. Ids are used once, so no step can make an item
  unfaithful (`FaithStays`); the slots of the scheduler then keep the rows apart.
* `LeasesHaveWorkers` (`[]EveryLeaseHasItsWorker`) and `ShutdownTruthful`
  (`ShutdownInterruptsTruthfully`), from `OwnersInv`: a running row that belongs to
  the running process has a thread that still collects for it, and a collecting
  thread finds no lease but its own on its row.
* `PendingQueued` (`[]PendingIsQueued`), under the hypothesis that no call is
  `resume`: with resumptions it is false, which is the divergence that
  `service_stranded` shows. `PendingInv` says that the storage lock is kept from
  the admission to the end of the enqueueing, so that nobody cancels a row in
  between, and that a cancellation that has reached the table still has its step
  in memory to come.
* `QueueMatched` (`[]QueueMatchesTable`), for behaviours in which nothing is
  resumed, no submission is refused at the queue after its admission was
  committed (`EnqueueFull`), and no worker drops its row because of a lease that an
  earlier process has left (`DeadLease`). All three happen in the program and each
  can leave a row behind until the next start: the first is what
  `service_stranded` shows, the second `service_batch`, the third is recorded among
  the hazards. The theorem says that they are the only ones. `ListedInv` names
  for every queued row that still has time for a lease who answers for it
  (`Awaited`): the client that has admitted it, the holder of the condition, a
  lane, or the worker that has just taken it. The step that could break the chain
  is the drop of a row that cannot be leased: a conflict with a lease of
  this process would need two workers on one source or auth state
  (`LeaseDrops`, from `FaithInv`, `OwnersInv` and the slots of the scheduler).

**The official capture.** `CaptureTyped` and `BilledBounded`. The bound itself
says nothing of a step; the invariant behind it is an account: `billed` is what
the row has counted, what was lost, and what the worker holds (`Account`), and
the remaining resources of the capture never exceed what the row leaves of the
confirmed limit while a request is never larger than they are (`Budget`). An
attempt that runs behind a cancelled and resumed row is the hard case: its pages
go to `lost`.

`SuccessComplete` (`[]SucceededIsComplete`) rests on `CompleteInv`: as long as X
has repeated no token, a row holds all well-formed posts up to its token, unless
it is complete (`PlaceInv`); a worker whose row runs knows how many posts are
missing (`InTouch`) and where the next page begins (`AtPlace`); a page begins
there and gets on (`PageInv`); the last one leaves nothing to store (`EndInv`).

**The browser capture.** `BrowserInvariant`, `CheckpointHonest` and
`SessionKept`. `CountInv` relates the local count of the worker to the row, as
long as the row runs; `SessionInv` says that the session
a capture works with is not older than the one whose digest it compares, that
what it found in the file at the comparison has this digest, and that no session
is newer than the last completed sign-in: a replacement takes the file back only
if the file has changed since the comparison.

**The start of processes.** `WholeDatabase` (`[]WorksOnWholeDatabase`) and
`LockKept` (`LiveLockKept`) rest on `StartInvariant` of `ProcessStartProofs`: `DatabaseInv` says which process may be at which step of the
migration under which form of the schema, and that only an old database was
copied as long as it is old, `LockInv` that a pid that a process has
read and found dead stays dead, because it belongs to a start that was made and
lives only increase.

**The events.** `GapsTold` (`[]NoSilentGap`). The last event is always in the
buffer (`BufferInv`). An answer without a gap begins right after the request and
has no hole up to the last event, so, by induction downwards from it
(`NothingMissing`), it holds every number; the first page of it holds every number
up to the last one of the page. `ReaderInv` keeps that statement for the response
that is on its way while events go on and the server restarts.

**The approvals.** `ApprovalsHonoured` (`[]ApprovalHonoured`), from `ApprovalInv`:
a thread works only on what its process has shown (`Confirmed`), since a digest of
another key is refused; an admission inserts all missing sources of a manifest at
once, so each row's batch is whole or some of it was deleted (`RowsApproved`); and
what is active since its admission fits into the capacity (`Fitted`): an
admission counts all active rows, of which these are a part, and every other step
leaves their number or lowers it. A resumption makes `resumed` of `stopped`, so
that the number of all active rows may exceed the capacity and this one may not.

**The governor.** `WindowKept` (`ResumesAfterWindow`): an open window was opened after the last
disturbance, so whoever resumes at its end resumes late enough.

**What is only model-checked.** Liveness under fairness (`ShutdownReachesAll`,
`OwnersStart`, `QueuedJobStarts`, the two `CaptureEnds`), which is out of the
prover's reach. Every other property of a passing run is stated by a theorem.

## 6. Not modelled, and the plan

What is left to model: in `JobService`, the loop of `cancel_remaining` over the
in-memory queue (`BatchApproval` has its transactions), and storage errors: when
both tries of `_fail_job` raise, the row keeps its lease and stays running until a
later start, so the properties of the service hold as long as its storage works;
in `JobStore`, `save_source`.

Left out for good: `enqueue` of the service and `requeue_due_jobs` of the store
are called by tests only; a shutdown whose join times out ends the process like
a crash, which is modelled; the read service, exports, comparisons and the MCP server are
pure functions of stored snapshots; the CLI, the forms of the terminal client and
the web interface parse, display and call the routes above; configuration, the
provider registry, the compilation of queries and the validation of requests are
data that the models abstract to constants and small sets. What Playwright, X and
SQLite do is external: the models say what they may answer.
