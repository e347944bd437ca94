# A verification of neoserver in TLA+

neoserver publishes spatial data over WMS, WFS, WCS, WMTS, OGC API and STAC.
Most of its code is stateless: requests are parsed, a source is queried, a
document or an image is produced. What is hard to get right, and hard to test,
is the durable and concurrent state around that: job queues that survive a
restart, caches that must not outlive a transaction, files and rows that change
together although no transaction spans them, data source handles that requests
still use when an administrator replaces them. This directory models that part.

`PROJECT.json` lists components, runs, mutants, the map from definitions to
source lines, hazards and theorems. This file explains them.

## Inventory

| Part | State | Operations | Runs beside |
|---|---|---|---|
| audit (`internal/audit`, `store_audit_outbox.go`) | audit rows, durable outbox, counters and flags | Record, retry loop, Close, Purge, Open | every request, the retry ticker, shutdown |
| tile jobs (`internal/tilejobs`, `tilecache/jobs.go`) | job and chunk rows, workers, blocked scopes | Create, Cancel, claim, run, runChunk, Quiesce, Purge, Close | workers, users, deletions |
| tile cache (`internal/tilecache`) | index rows, payloads, usage per scope | Put, Get, Delete, Purge, evict, reconcile | tile requests, jobs, maintenance |
| prefix ownership (`tilecache/ownership.go`) | marker object, guard state | acquire, verify, fence, release | other servers on the same S3 prefix, the operator |
| catalog deletion (`internal/cataloglifecycle`, `store_deletion.go`) | operations, tombstones, staged files | accept, execute, retry, recover | publications, tile requests, other deletions |
| data barrier (`workspace/data_revision.go`, `tiles/engine.go`, `internal/cache`) | revision and mark (row and memory), epochs, cached data | BeginDataWrite, finish, Fetch, LoadBytes, invalidate, recover | WFS transactions, every reader |
| workspace registry (`internal/workspace`, `datasource/prepare.go`) | installed services, leases, retired handles | create, update, refresh, delete, quiesce, acquire, release | requests, administrators, importers |
| managed imports (`internal/importer`, `store_import.go`) | job and asset rows, staged and final databases, source | plan, transform, select, cancel, retry, publish, rollback, recover | workers, users, deletions, disconnecting clients |
| WFS locks (`wfs/locking.go`, `write_gate.go`, `transaction.go`) | locks in memory and as rows, write gate | lock, transaction, release, expire, clear, restore | other clients, the cleanup ticker, deletions |
| mosaic catalog (`internal/mosaiccatalog`) | harvest jobs, generations of granules, active generation | create, cancel, harvest, activate, restore, delete granule, quiesce | the worker, users, deletions |
| STAC catalog (`internal/staccatalog`, `internal/stacsource`) | Collections, items, refresh jobs, fingerprint | schedule, scan, publish, edit, cancel, reset | harvests of the source, administrators |
| sessions and throttling (`internal/identity`) | sessions, counters | login, renew, expire | requests |
| protocol handlers, styles, filters, rendering, CRS, configuration, admin console | none that outlives a request | - | - |

How the parts interact: a tile request leases a workspace snapshot from the
registry, reads the data revision, looks in both cache tiers and writes to the
tile cache; tile jobs do the same in bulk; a WFS transaction brackets its commit
with the data barrier; a deletion quiesces the registry and the tile jobs,
purges the tile cache, commits the catalog and removes files; an import
publishes a service that the registry then refreshes, and its rollback is a
deletion; a harvest activates granules that the refresh of a STAC Collection
scans without a common lock. Everything that survives a
restart is in DuckDB, in the blob store or on disk, and startup runs the
recovery of each part before it serves.

What makes it hard: a database call that timed out may have committed; two
statements are not one; a value is read under one lock and used under the next;
shutdown cancels contexts in the middle of a step; a crash falls between any two
writes; an operator retries, forces or restarts at a bad moment.

## Modules

Each action is one statement, one critical section or one external call of the
code, and everything else may happen between two of them. Data are abstracted to
what the properties tell apart.

**AuditDelivery.** An event is its timestamp. `pc` is the place of its request
in `Record`/`enqueue`, `drain` the `drainBatch` that holds `drainMu`; `rows` and
`outbox` survive `Restart`, `pending`, `writeBad`, `lost` do not. Every failing
database call may have taken effect or not. `late` and `uncounted` are history:
the events that were queued behind a drain's count, and those whose addition its
store then overwrote. A drain reads the flag `lost`, and clears `writeBad` in a
step of its own (`DrainRecover`, `DrainSwap`).

**TileJobs.** `jobs` (status and cancel flag) and `chunks` are the two tables, `wk` the worker
goroutines with their `jobState`, `rn` the chunk runners with their private copy
of the chunk row, `creator` the calls of `Create`, `quiesce` a deletion's call of
`QuiesceLifecycle` and `PurgeLifecycle`. `closing` is the cancelled context,
`fenced` the lost ownership. Any update of a row may fail, and the code drops the
error: `Settle` and the checkpoints have that alternative, and `unsaved` are the
jobs whose last status was not stored. `stored` records which tiles took effect;
only properties read it and `unsaved`.

**TileCache.** `op` is the operation that holds `m.mu`, broken up at every index
transaction and blob call; `reader`s do not lock. `drifted`, `leaked` and
`unsure` are history variables: they become true at exactly the step at which the
code gives up a guarantee (a repair removes a newer row than it read; an ignored
clean-up failure; a payload replaced by a write that reported failure), so that
the properties say what holds up to that step.

**TileCacheOwnership** is the S3 lease with its fence. A process is one start of
the server. `forced` are the running processes an operator named for takeover
against the documented procedure. **PrefixOwnership** is the abstract promise:
one holder, only the holder writes, until a takeover is forced. The refinement
maps the marker to `holder` and the admitted mutations to `writing`.

**CatalogDeletion** has the deletion requests (`call`), the executions (`ex`),
the durable operations, catalog rows, managed files with their staged names, the
registry's `live` services, and the publication of an import and tile requests
as its environment. Any step may fail before it takes effect. What `start` does
with the error (`Failed`) is one step: the phase is read and the failure written,
or, when the read fails too, the phase that its caller held is written, or the
write fails and the row stays as it is.

**DataBarrier.** The source is the number of transactions it committed, an
answer the number it was rendered from. `durable` is the row, `revision`/`pending`
the memory; writers walk through `handleTransaction`, readers through
`Engine.Fetch` (kind tile) or `LoadBytes` (kind query), which share epochs,
coalescing and the memory cache. `known` is the newest transaction that was
answered. A source commit that lands after the server crashed is not modelled.

**WorkspaceRegistry.** `source` is the handle installed for a service, `refs`
the counted leases, `task` an administrator's operation with the handle it
prepared (`new`) and the one it replaces (`old`). Requests lease everything that
is installed and release handle by handle. A refresh is taken to start only
after the creation of its service has ended, as its callers do.

**ManagedImport** follows one import. `job` and `asset` are its rows; `stage`,
`final` and `trash` the database under its staged, published and
deletion-staged names, each with the revision it holds; `source` the source that
the job's row names. A source that is remote or an archive is replaced before it
is read, in five steps (`AdoptRemote` to `RemoveArchive`); `stray` are the
directories on the way that no row names, when one of them fails or the server
stops. The
workers, the request that holds `claimMu`, the rollbacks (which do not hold it)
and the deletion they start each have a place in `pc` or a variable. A client may
disconnect, which fails the statements that still use its context. `odd` and
`asked` are history: `odd` names the step at which the code does something none
of its guards foresee (see the disagreements), and the properties hold up to it.

**WFSLocks** is one workspace. `mem` and `rows` are the lock table and its
durable copy, `expired` the locks whose time is over, whenever that is; `gate` is
the token of the write gate. A request queries its features outside the gate,
enters, and is answered; a transaction enters, checks the locks of what it
changed inside the source's transaction, commits and releases. `held` and
`dropped` are history.

**MosaicHarvest** has the job rows, `granules` by generation, the `active`
generation and what the running service was opened with (`served`). The service
lock is explicit; the worker is broken up at every statement. A failing refresh
after activation restores the previous generation, and either may fail. `author`
is history: the harvest whose granules are live, also after a removal took some of
them, and whether its row was left open behind the activation; `former` is the
author that a failed refresh returns to.
**STACRefresh** takes the source as parameters (its generation, its granules,
whether it resolves) and has the Collection, its latest refresh job and the
worker between its two reads of the fingerprint. The failure of a refresh may be
lost (`FailureLost`), which leaves its row running. **MosaicSTAC** composes the two:
the parameters of `STACRefresh` are instantiated with the state of
`MosaicHarvest`, every step of one is a step the other does not take, and a
restart is one step of both. Its history variable `mixed` tells where a generation
number that was taken back, or given a second time, may stand for other granules,
and `unstored` tells that the running row is one a lost failure left.

## Runs

Bounds are constants of the modules and appear in guards only.

| Run | Instance | What it shows |
|---|---|---|
| `audit` | 2 events, batch of 1, 1 restart | no accepted event is lost (`AcceptedNotLost`); the counter that readiness goes by falls short of the outbox in three named cases only (`BacklogCounted`); a lost event keeps readiness failed (`LossLatched`); a known backlog drains (`BacklogDrains`) |
| `tile_jobs` | 1 worker with 2 chunk runners; a job of 2 chunks, or a job of 1 chunk beside an unbounded truncate; 1 scope, 1 restart | a quiesced scope is silent, a checkpoint hides no tile, success means complete, jobs settle, quiescing returns |
| `tile_cache` | 2 keys, nested quotas, 1 reader, 2 puts, 1 crash | usage, rows and quotas in step; a reader is served bytes that belong to the row it read (`ServedPayload`); pending rows are resolved |
| `ownership` | 3 processes, 2 mutations each | single writer, complete fence, refinement, stale owner fenced |
| `catalog_deletion` | a publication with two deletions of the service or its workspace side by side, or with one deletion, tile requests and a retry of what still runs; 1 failure, 1 restart | files go only after the commit and nothing staged is orphaned (`ManagedFileKept`), completion is clean, tombstones hold |
| `catalog_deletion_resume` | 1 deletion, 1 failure, 1 restart | **violation**: it need not complete |
| `data_barrier` | 2 readers of both kinds with 1 write between them, or 1 reader with 2 writes; 1 failed statement, 1 crash | fresh answers, also when renders are shared; crash safety |
| `data_barrier_stale` | 1 reader, 4 writes, 2 failed statements | **violation**: a stale tile |
| `registry` | 2 requests, 2 operations, 1 service, 3 handles | open while usable, closed once, deleted stays out, closed in the end |
| `imports` | 2 workers, 2 rollbacks, 2 revisions, 1 retry, 1 fault, 1 crash, source local, uploaded or remote, an archive or not | a served database is not removed, the selected revision keeps its file, a cancelled import leaves nothing but what an interrupted acquisition left, every import settles unless a failing step strands it |
| `wfs_locks` | 2 clients of which 1 writes, 2 features, 2 locks, 1 per owner, 1 fault, 1 crash | grants survive and exclude each other, writes respect them, requests finish |
| `mosaic_stac` | 2 harvests, 3 generations, 2 granules, 1 fault, 1 crash; 1 harvest, 2 generations and 1 edit while a Collection is bound | the live generation is whole; cancels are kept and fingerprints true, up to the exceptions below; edits are kept, harvests settle, the Collection catches up |

Three bounds join two questions in one run without multiplying them. `Together`
(TileJobs) says which jobs one behaviour may create, `Alone` (CatalogDeletion)
which deletion is made on its own and then with tile requests and racing retries,
`MaxShared` (DataBarrier) how many transactions may begin while two readers are
active. `BoundJobs` and `BoundGens` (MosaicSTAC) are the smaller bounds on the
mosaic while a Collection is bound to it. Each restricts which inputs come
together, none a step that has begun.

The runs list the properties that say something about the code. The type
invariant `TypeOK` of every module was checked on the same instances, and the
proofs establish it for their modules.

Why these bounds: they are the smallest at which the races of the hazard list
happen, two actors of a kind, one crash and one failure between them, and within
them TLC refutes every mutant of `PROJECT.json`. Three handles let two operations
prepare a replacement each while a third is installed; three processes let two
starters race for what a third left behind. What needs more, such as a second
crash during the recovery from the first, is not covered by the runs; the
theorems below cover it where they apply. One property is known to depend on the
bound of one failing step, and no theorem claims it: `ManagedFileKept`, in its half
`StagedFileOwned`. With two failing steps, a retry of the deletion of a workspace
that has read `catalog_committed` may be overtaken by the answer of the call, which
sets the operation back to `tombstoned`; that execution fails at its commit and
restores the file, the deletion of the service stages it, and the retry then runs
as committed, passes over the file and removes its metadata row. The other half,
`CatalogFileKept`, is a theorem. `CompletedIsClean` was not checked beyond one
failing step.

`tile_jobs` has one worker, since its two chunk runners and the other actors
already race; with two workers (`Workers = {w1, w2}`, 1,164,638 states) its
properties hold as well.

Deadlock is checked in the two `data_barrier` runs and in `wfs_locks`, and
switched off in the others, whose models rightly stop once their bounded inputs
are used up. Symmetry is used in the `data_barrier` runs (writers, readers) and in
`catalog_deletion` (the two deletions made together), which check no liveness.

## Fairness

| Run | Assumed | Because |
|---|---|---|
| `audit` | WF of the retry loop and of requests; SF of a successful write, delete, count and list | the ticker fires, calls return, and a database that keeps answering does not refuse the same statement for ever |
| `tile_jobs` | WF of each worker with its chunk runners, of `Create`, the quiesce loop | goroutines of a live process run; no fairness of users, of shutdown or of restarts |
| `tile_cache` | WF of the holder of `m.mu`, SF of maintenance taking it, SF of a successful removal | Go mutexes do not starve; maintenance runs on a ticker |
| `ownership` | WF of the periodic check when the marker is not the process's own, of the end of a mutation, of the owner-loss report | ticker and call deadlines; a process that holds its own marker is not required to check |
| `catalog_deletion_resume` | WF of executions; WF of a retry of a failed operation | "retried until completed" is the documented procedure; failures are bounded |
| `registry` | WF of releases, of operations, of abandoned constructors | requests end and constructors return |
| `imports` | WF of each worker, of the request with the mutex, of each rollback, of deletions, of `finishRollback`, of startup | goroutines run on, handlers end, a server that is down is started |
| `wfs_locks` | SF of each client's handler | waiters for the gate's token are queued by the channel and served in their order; the rest of a handler does not wait |
| `mosaic_stac` | WF of the harvest worker, of the end of a granule's removal, of the refresh worker, of reconciliation | both workers poll, reconciliation runs every minute |

Nothing is assumed of crashes, operators (apart from that retry) or users. Of
failures the following is assumed.

* `audit` and `tile_cache` have strong fairness of the successful outcome, as the
  table says.
* In `imports`, `mosaic_stac` (the harvests), `catalog_deletion_resume` and
  `wfs_locks` the number of failing steps is bounded.
* In `tile_jobs` any update may fail, any number of times: a step that fails is a
  step, and fairness asks no more. A job whose last status could not be stored is
  excepted by name (`unsaved`).
* The scan of a refresh (`ScanFails`) may fail for ever, which
  `CollectionCatchesUp` names as an alternative. A failure of a refresh that could
  not be stored (`FailureLost`) is never required to happen; after it the row is
  excepted (`unstored`) until a cancel or a restart, as an import is after a
  failing step (`Stranded`).

## Proofs

Eight modules hold theorems that TLAPS checks for every value of the constants:
any number of events, jobs, clients, processes, failing steps and restarts. What
is assumed of the constants is the `ASSUME` of the component's module: bounds are
naturals, `None` is not one of the things it stands beside, and what is counted
(events, requests) is finite. Each proof has an inductive invariant that TLC
checked on the instance of the run before it was proved.

**AuditDeliveryProofs.** `AcceptedNotLost` alone is not
inductive: it says nothing of an event between the insertion of its outbox row
and the answer, nor of the drain that has written a row and is about to delete
the outbox entry. `DeliveryInv` adds both: every event whose request passed
`InsertAuditOutbox` is kept, in the outbox or as a row, or retention removed it,
and a drain at its delete step has the row of its event, unless aged.
`AuditTypeCorrect` and `AcceptedEventsKept` follow. `BacklogIsCounted`
(`BacklogCounted`) compares cardinalities. `CountInv` says that a batch subtracts
for rows which are still there when it deletes them, since nobody else deletes
any, and that what a count lacks when it is stored was queued behind it. The
library's facts on finite sets give each step. `LossStaysVisible`
(`LossLatched`) needs `LossFlagged`: a rejected event has set the flag that only a
restart clears.

**TileCacheOwnershipProofs.** The inductive invariant
`Inv` is `TypeOK` with four parts: a start that still has to claim has read a
marker of this or an earlier generation (`SeenInv`); only a holding or fencing
process has admitted mutations (`FenceInv`); the generation a process remembers
is its own unreleased marker for as long as it is the current one (`TagInv`); and
while no takeover was forced, a takeover names a dead process and whoever holds
the prefix is the owner in the marker (`OwnerInv`). `SingleWriter` alone is not
inductive, because the claim of a starter is conditional on what it read several
steps before. The parts give
`OwnershipTypeCorrect`, `FenceIsComplete`, `AtMostOneWriter`,
`ReplacementNotReleased` (a release never removes the marker of a successor) and
`GuardImplementsPrefix`, the refinement of `PrefixOwnership`.

**WFSLocksProofs.** `LocksInv` rests on an order of arguments: identifiers are
given out in sequence and only given-out ones are in a table (`NumberedInv`), so a
new lock is in none of them; no lock a client relies on is missing from memory
(`GrantSurvives`), so the conflict check of a grant sees all of them; hence
`GrantsExclusive`, with the quotas counted by `Cardinality`. A transaction that
writes is alone in the gate and changed nothing under a lock it did not provide
(`WritingInv`), which gives the action property `WritesRespectLocks`
(`CommitsRespectLocks`).

**MosaicProofs** is about the composition `SpecBoth`. The harvest's invariant says
who holds the service lock (`LockInv`), that the generation under construction is
the next one and whole when nothing is left to do, and so is the one a failed
refresh returns to (`GenerationInv`), which one the running service shows
(`ServedInv`), and that the row of the live harvest names the active generation
for as long as its worker holds the lock, which is what `requestCancel` looks at,
unless it was left open (`AuthorInv`).
`LiveIsWhole` and `CancelsHonoured` follow. For the Collection, `RefreshInv` ties
the worker to the running job, and `FingerprintInv` says that a fingerprint which
names a generation that is live, or to which a failed refresh may return (`Held`),
stands for its granules, in the Collection as in the hands of the worker, unless
`mixed` tells otherwise: `FingerprintsTrue` and the action property `EditsKept`
(`EditsAlwaysKept`).

**WorkspaceRegistryProofs.** `UsableOpen` needs an owner for every handle: a live
service, the operation that made it, the refresh that took it out, or its last
reader, and never two of them (`SourceInv`, `TaskInv`); `LeaseInv` says that the
counter of a handle is the number of requests that still have to release it.
`QuiescedStaysOut` needs the life of a service identifier (`LifeInv`): one that is
being created was never live and has no other operation, and one a refresh found
live leaves only by being quiesced or with its workspace. The theorems are
`RegistryTypeCorrect`, `LeasedHandlesOpen` and `QuiescedServicesStayOut`.

**TileJobsProofs.** `HolderInv`: a job has at most one worker (also a theorem,
`JobsHaveOneWorker`), and the row of a held job is under way, with the exception
of a job claimed before its chunks were inserted and failed since. `SilentInv`:
the scope of a quiesce is blocked, so nobody passes the claim, and once it has
returned the workers past it are gone or have nothing to write. `RecordedInv`: the
offsets a row has passed without effect are no more than its attempts, and the
same of every copy a runner will write back. `CompleteInv`: in a run that was
neither interrupted nor cancelled and had no failing tile, every tile of the chunks
without a runner took effect or is counted in the row, though the last checkpoint
may not have been stored. They
give `QuiesceSilences`, `CheckpointsHonest` and `SucceededIsComplete`. Of `TypeOK`
only `RowsTyped` is proved; the queue order is built with `SelectSeq`, of which
the library has no theorem.

**CatalogDeletionProofs.** A response, a retry or a failure may write an earlier phase over
`catalog_committed`, so the phase alone does not tell whether the rows are gone.
`PastInv` says that they are gone if the commit is behind the operation in any of
four places: its status, its phase, the phase a retry has read, or an execution
that is past it or was started with such a phase. No row comes back, because an unpublished import is in no plan
(`ReadyInv`), and nothing executes an operation before it was begun (`BegunInv`);
`PlanInv` keeps what is staged and removed within the plan. `TombstonesHold`
(`DeletedStaysHidden`), `CatalogFilesKept` and `CompletedAreUnlisted` follow.

**TileCacheProofs.** `usage` is kept by additions and subtractions spread over
`Put`, eviction, removal and repair, so each size that is given back must still be
the size of the row. `VictimInv` says this of the entries an operation has
selected, `PutInv` of the entry that a `Put` replaces, and `HolderInv` ties both to
the holder of `m.mu`. `BytesIn` is the number of elements of a set with one element
for each stored byte, so a written row changes it by the difference of two sizes
(`BytesOfWrite`), without a sum. `QuotaInv` says which scopes `Put` has already
compared, and that restoring the previous entry fits as well. A repair does not
hold the mutex: `VersionInv` and `ReaderInv` tell the row that the reader found
from every later row of its tile, and `LeftInv` says that a row which is about to
go has no payload any more. Together with the exact counters they are `CacheInv`,
which gives `CacheTypesOK`, `UsageIsAccurate` and `QuotasHold`. For `ServedPayloads`
(`ServedPayload`) a second invariant is needed that also holds after a write that
reported failure: no payload is older than the ready row of its tile, than the row
a reader holds, or than the row that a failing `Put` restores (`AgeInv`). The
theorems have the exceptions of the properties: a
repair that removed a newer row than it had read, a failed clean-up, a payload
write that took effect although it reported failure, and scopes whose usage rows a
lifecycle purge deleted. TLC checked the invariant on the run's instance and with
one more `Put` (2,138,673 states).

Only model-checked, and why:

* every liveness property: fairness and ENABLED are outside this prover;
* `StagedFileOwned`, and the files and style assets of `CompletedIsClean`: they
  depend on the bound of failing steps, or may (see Runs);
* `FreshAnswer`: it does not hold beyond one failed statement
  (`data_barrier_stale`), so there is nothing to prove without that bound;
* the refinement `ImplementsPrefix` is the only one; other components have no
  abstract specification;
* `CrashSafe` of `DataBarrier`, and `ServedFileKept`, `SelectedRevisionKept` and
  `CancelledLeavesNothing` of `ManagedImport`: no inductive invariant has been
  worked out. The latter three were also checked with two faults, two crashes and
  two retries (9,682,635 states), and `CrashSafe` with the constants of
  `data_barrier_stale`, without a violation.

## Where code and text disagree

Two disagreements have runs.

* `catalog_deletion_resume`: `execute` writes the phase `jobs_quiesced` again on
  every attempt (`coordinator.go:292`), also over `catalog_committed`. When the
  server stops between the removal of a managed file and of its metadata row, the
  resumed attempt knows of the commit but overwrites its phase; if that attempt
  fails, every later one takes the operation for uncommitted, tries to stage the
  file that is gone, and fails.
  `docs/management-api.md:118`: "Operations are idempotent and resume after
  restart." What does hold is stated as `DeletionSettles`: the deletion is
  completed, or nothing but one metadata row is left. It was checked with one
  deletion (`Calls = Alone`), a publication, tile requests, a racing retry, one
  failure and one restart.
* `data_barrier_stale`: `BeginDataWrite` adds to the revision in memory before the
  row is written (`data_revision.go:58`), and stores the row's number later. When
  statements fail, a number can be used twice, and a tile stored under its first
  use answers a request after its second. With at most one failed statement
  `FreshAnswer` holds.

Seven more are stated in the modules and were refuted with the constants given
here; they are not among the runs of `PROJECT.json`.

| Property | Text | Code | Constants |
|---|---|---|---|
| `ReadyReportsBacklog` | `docs/deployment.md:222` readiness fails until the backlog drains | `audit.go:389` stores a count over a concurrent `Add` | 2 events, batch 2, no restart |
| `CancelledNeverQueued` | `docs/tile-cache.md:129` user-cancelled jobs remain terminal | `tilejobs/manager.go:459` writes `running` over `cancelling` | those of `tile_jobs` |
| `HardQuota` | `docs/tile-cache.md:65` hard quota | `tilecache/manager.go:118` gives back the size of the row it read | 2 keys of one resource, sizes 1-3, quota 3, 5 puts |
| `AcceptedNotServed` | comment at `coordinator.go:227` | `registry.go:1466`: a refresh that had read its row installs again | `Published = {}` |
| `PhaseTracksCommit` | comment at `store_deletion.go:520` | `coordinator.go:292` | 1 failure |
| `NameReserved` | `docs/management-api.md:118` name not reusable until completed | `store_deletion.go:430` frees it at the commit | 1 deletion of the workspace |
| `AuxiliaryRemoved` | `docs/management-api.md:116` cache payloads are removed | `tiles/engine.go:170`: a request in flight stores after the purge | `Traffic = {s1}`, `Calls = Alone` |

The rest were met while the modules were written. The models have these steps
unless noted; where a property would otherwise not hold, it says so with a
history variable (`odd`, `dropped`, `unsaved`, `author.left`, `mixed`, `unstored`) or
names the state (`Stranded`).

Tile jobs

* A job claimed just before `Close` cancels the context fails to list its chunks
  (`tilejobs/manager.go:314`) and is stored as failed; `docs/tile-cache.md:129`
  has running jobs return to the queue. The step is `RunAborted`.
* The error of the update that stores a job's last status is dropped (lines 244,
  346, 384, 392, 514): the job stays `running` with no worker, a deletion that
  quiesces its scope waits until its context ends, and the next start resumes the
  job. (`unsaved`)

Imports (`importer/manager.go`, `recovery.go`)

* `Retry` of a job whose rollback failed before its operation id was stored queues
  the import again (lines 344-349); with a local source the transformation
  succeeds and removes the published file as superseded (line 865).
  `docs/management-api.md:142`: "`POST /retry` retries a failed job". (`odd`:
  "rollback retried")
* When the client of a publication disconnects, `fail` gets `context.Canceled`
  from its own statement and takes the import for cancelled (lines 1052-1054):
  source, asset and revisions are removed, where `recovery.go:113` has users
  "revise until they publish or cancel". (`odd`: "client gone")
* At startup `ReconcileManagedPaths` prefers a final file left by an earlier
  publication over the selected staged revision (lines 87-95);
  `store_import_transform.go:9` says a failed revision never replaces the last
  successful asset. (`odd`: "leftover")
* `active` is one flag per job: the first of two workers clears it for both, and a
  cancel then cleans up beside the other, where `recovery.go:16` says "The caller
  must have stopped processing the job". `CancelledLeavesNothing` therefore waits
  for the workers.
* `run` drops the error of `fail`, and `fail` that of its update (lines 656, 1052):
  the job stays under way with nobody in charge until the next start.
  (`Stranded`) A clean-up that fails is logged with "retry cancellation or
  restart"; `CancelledLeavesNothing` holds up to it. (`odd`: "clean-up failed")
* `discover` makes a directory for a download or an extracted archive before it
  updates the row (lines 679-688, 692-702) and removes the archive after that. An
  interruption leaves a directory that no row names. The next extraction replaces
  one of the job's own name; nothing else removes the others. (`stray`)
* The second of two rollbacks fails and marks the job failed; a rollback whose
  client is gone, or whose cleanup failed, leaves its job to the next start.

WFS locks

* The deletion of one service clears the locks of its whole workspace
  (`coordinator.go:462`), with the rows of locks granted between the two halves of
  `ClearWorkspace`; `docs/deployment.md:107` says they "remain valid until their
  expiry". (`dropped`)
* A start that cannot read the lock rows logs it and serves without them.
  (`dropped`)
* The row of a released lock whose deletion failed is a lock again after a
  restart; it may block a newer holder and exceed the quotas, of which
  `runtime.go:83` says the records were admitted under quota when acquired.
* A committed transaction whose lock the ticker swept before the release is
  answered with an exception (`transaction.go:247-252`).
* Version records are written behind the gate and may be in the reverse order of
  the commits (not modelled).

Mosaic and STAC

* A cancel between the read and the write of `failJob` leaves a `cancelling` row
  without a worker, which blocks later harvests until a restart. (`odd`:
  "stranded")
* A job whose row stays open behind its activation, because the server stopped or
  the last update failed, can be cancelled though its granules are live: a restart
  queues it again, and a removal makes another generation active.
  `catalog.go:312` says "A successful activation commit is the point after which
  cancellation is refused". (`author.left`)
* `cancelled` takes a failed read of the row for a cancel (`manager.go:673-674`):
  the job is stored as cancelled though nobody asked. `HarvestCancelled` has the
  step; no property forbids it.
* A removal of a granule whose client is gone fails to refresh and to restore; the
  running service goes on with the old granules. (`odd`: "apart")
* A generation number comes again after its activation was taken back; a
  Collection scanned in between counts as unchanged until its interval is over.
  The same happens when an activation is taken back between a scan and the second
  read of the fingerprint. (`mixed`)
* The error of storing a refresh's failure is dropped (`stacsource/manager.go:93`):
  the row stays `running`, and `CreateJob` returns it instead of a new job
  (`staccatalog/jobs.go:88`) until it is cancelled or the server starts again.
  (`unstored`)
* `blockedServices` is never cleared: after a failed deletion harvests are refused
  until a restart. `CreateJob` checks it before it inserts, so a row may outlive
  its service (the second is not modelled).

## Not modelled

Reads without effects (listings, statistics, capabilities documents), request
decoding and encoding, authorisation, rendering, styles, filters, coordinate
systems, SQL generation and drivers, configuration and the admin console carry
no protocol state. They are most of the code's lines; a model of them would be a
transliteration. Time is modelled by what may happen, not by a clock: timeouts
are failures, tickers are actions. Sizes, checksums and names are small sets.

`CatalogDeletion` takes the flag `running` from an operation in the step that
stores its failure; in the code it goes a moment later
(`coordinator.go:267-272`). A retry that falls in between is answered but starts
nothing, which leaves the operation `running` without an execution, as a failed
write of the failure does in the model. The deferred removal of the same flag comes
later still and may take the flag of a retry that has started meanwhile; two
executions of one operation, which would need a second retry in that moment, are
not modelled.

Of the modelled parts these are left out: uploads, archive checks and the
transformation SQL of imports, and an import that is published a second time;
locks on no feature; feature versions, which are advisory; raster inspection; STAC
bindings to layers, uploaded item imports and overrides. Catalog integrity repair,
which an operator confirms, calls the purges of `TileJobs` and `TileCache` for
owners that are no longer in the catalog; the snapshot of owners it works from is
not modelled. A session is rotated by one conditional statement on a row of its
own and is otherwise judged by the clock, as are the login throttling counters.
`buildChunks` and tile arithmetic are pure; the models take their results as
constants.
Hazards that no property covers carry a note in `PROJECT.json`.

## Plan

Theorems: `ServedFileKept` and `SelectedRevisionKept` of `ManagedImport`, then
`CrashSafe` of `DataBarrier`. Their modules use no recursive operator.

Modules: an abstract job queue (queued, claimed once, settled, resumed) that tile,
import, mosaic and STAC jobs implement; the tile arithmetic as operators checked
against a reference definition; integrity repair in `CatalogDeletion`; the rotation
of sessions by several browser tabs; startup and shutdown order as a composition.
