------------------------------ MODULE TileJobs ------------------------------
(***************************************************************************)
(* The durable tile-cache job queue: internal/tilejobs/manager.go (the     *)
(* workers, their chunk runners, cancellation and lifecycle quiescing) over *)
(* internal/tilecache/jobs.go (the job and chunk tables, every statement of *)
(* which runs under the index's writer lock and is one step here) and       *)
(* internal/tilecache/fenced_jobs.go (once ownership is lost every write to *)
(* the tables is refused for the rest of the process).  Any statement may   *)
(* fail; a worker drops the errors of its updates and goes on.              *)
(*                                                                         *)
(* One workspace is modelled.  A job is a member of Jobs and is created at  *)
(* most once; ResourceOf gives the resource its request names and Clear the *)
(* jobs that are unbounded truncates, which have no chunks.  A chunk's      *)
(* tiles are counted, not named: TilesIn[c] tiles in the order of their     *)
(* offsets.  stored[j] are the tiles of job j whose effect on the tile      *)
(* cache happened, and unsaved the jobs whose worker left them without      *)
(* their row saying so, because the statement failed; no code reads these   *)
(* two, the properties do.                                                  *)
(***************************************************************************)
EXTENDS Integers, Sequences, FiniteSets

CONSTANTS
    Jobs,         \* job ids
    Chunks,       \* chunk ids
    ChunksOf,     \* [Jobs -> SUBSET Chunks], the chunks a job's request gives
    TilesIn,      \* [Chunks -> Nat], the number of tiles of a chunk
    Resources,    \* resource ids of the workspace
    ResourceOf,   \* [Jobs -> Resources \cup {AllResources}]
    AllResources, \* the request flag all_resources
    Clear,        \* the jobs that are unbounded truncates
    Workers,      \* cfg.MaxConcurrentJobs worker goroutines
    ChunkWorkers, \* cfg.WorkerCount chunk runners per running job
    None,         \* no job
    Workspace,    \* the deletion scope "whole workspace"
    Scopes,       \* the scopes QuiesceLifecycle may be called with
    Together,     \* bound: the sets of jobs of which one behaviour creates any
    MaxRestarts   \* bound: process restarts

ASSUME TileJobsAssumption ==
    /\ TilesIn \in [Chunks -> Nat]
    /\ ChunksOf \in [Jobs -> SUBSET Chunks]
    /\ Together \subseteq SUBSET Jobs
    /\ ResourceOf \in [Jobs -> Resources \cup {AllResources}]
    /\ AllResources \notin Resources /\ Workspace \notin Resources
    /\ Clear \subseteq Jobs /\ None \notin Jobs
    /\ ChunkWorkers \in Nat \ {0}
    /\ Scopes \subseteq Resources \cup {Workspace}
    /\ MaxRestarts \in Nat

VARIABLES
    jobs,     \* tile_cache_jobs: status ("none" without a row) and cancel_requested
    order,    \* the job ids in the order of created_at
    chunks,   \* tile_cache_job_chunks: checkpoint and status, "none" without a row
    stored,   \* effects of processed tiles on the tile cache
    creator,  \* where Manager.Create stands for each job
    wk,       \* the workers: the claimed job, its jobState without the counters and the position in run
    rn,       \* the chunk runners of each worker
    blocked,  \* blockedWorkspaces and blockedResources
    quiesce,  \* the deletion coordinator's call of QuiesceLifecycle and PurgeLifecycle
    closing,  \* Close has cancelled m.ctx
    fenced,   \* ownership was lost: the job store refuses writes
    unsaved,  \* the jobs whose last status was not stored by this process
    restarts

vars == <<jobs, order, chunks, stored, creator, wk, rn, blocked, quiesce, closing, fenced, unsaved, restarts>>

-----------------------------------------------------------------------------
(* Rows, scopes and volatile state. *)

Active   == {"queued", "running", "cancelling"}
Terminal == {"cancelled", "succeeded", "failed"}

NoJob    == [status |-> "none", cancel |-> FALSE]
NoChunks == [c \in Chunks |-> [status |-> "none", next |-> 0, attempts |-> 0]]
IdleWorker ==
    [at |-> "idle", id |-> None, failed |-> FALSE, cancelled |-> FALSE, interrupted |-> FALSE, seen |-> FALSE]
IdleRunners == [c \in Chunks |-> [at |-> "none", next |-> 0, attempts |-> 0]]

(* lifecycleBlocked *)
Blocked(j) ==
    \/ Workspace \in blocked
    \/ blocked # {} /\ ResourceOf[j] = AllResources
    \/ ResourceOf[j] \in blocked

(* lifecycleJobs: the jobs a deletion scope matches. *)
InScope(j, scope) == scope = Workspace \/ ResourceOf[j] \in {scope, AllResources}

(* UpdateTileCacheJob with a new status: refused when fenced, no row when   *)
(* purged.                                                                  *)
Written(j, status) ==
    IF fenced \/ jobs[j].status = "none" THEN jobs ELSE [jobs EXCEPT ![j].status = status]

(* The update that ends a worker's run.  Its error is dropped: when it fails *)
(* the row stays as it is and no worker has the job.                         *)
Settle(j, status) ==
    \/ jobs' = Written(j, status) /\ UNCHANGED unsaved
    \/ ~fenced /\ unsaved' = unsaved \cup {j} /\ UNCHANGED jobs

(* UpdateTileCacheJobChunk: no effect when fenced, without a row or when it *)
(* fails; its error is dropped.                                             *)
Checkpointed(j, c, row) ==
    {chunks} \cup IF fenced \/ chunks[j][c].status = "none" THEN {} ELSE {[chunks EXCEPT ![j][c] = row]}

(* The cancelling part of RequestTileCacheJobCancel and cancelLifecycleJobs. *)
CancelRow(row) ==
    [row EXCEPT !.cancel = TRUE,
                !.status = IF row.status = "queued" THEN "cancelled" ELSE "cancelling"]

Init ==
    /\ jobs = [j \in Jobs |-> NoJob]
    /\ order = << >>
    /\ chunks = [j \in Jobs |-> NoChunks]
    /\ stored = [j \in Jobs |-> {}]
    /\ creator = [j \in Jobs |-> "new"]
    /\ wk = [w \in Workers |-> IdleWorker]
    /\ rn = [w \in Workers |-> IdleRunners]
    /\ blocked = {}
    /\ quiesce = [at |-> "idle", scope |-> Workspace]
    /\ closing = FALSE
    /\ fenced = FALSE
    /\ unsaved = {}
    /\ restarts = 0

-----------------------------------------------------------------------------
(* Manager.Create, called by a management request. *)

(* The lifecycleBlocked checks and the validation of the request. *)
CreateCheck(j) ==
    /\ creator[j] = "new" /\ ~closing
    /\ ~Blocked(j)
    /\ \E set \in Together : {j} \cup {k \in Jobs : creator[k] # "new"} \subseteq set
    /\ creator' = [creator EXCEPT ![j] = "checked"]
    /\ UNCHANGED <<jobs, order, chunks, stored, wk, rn, blocked, quiesce, closing, fenced, unsaved, restarts>>

(* CreateTileCacheJob: the row is queued before its chunks exist. *)
CreateInsert(j) ==
    /\ creator[j] = "checked"
    /\ \/ /\ creator' = [creator EXCEPT ![j] = "done"]
          /\ UNCHANGED <<jobs, order>>
       \/ /\ ~fenced
          /\ jobs' = [jobs EXCEPT ![j] = [NoJob EXCEPT !.status = "queued"]]
          /\ order' = Append(order, j)
          /\ creator' = [creator EXCEPT ![j] = IF j \in Clear THEN "done" ELSE "inserted"]
    /\ UNCHANGED <<chunks, stored, wk, rn, blocked, quiesce, closing, fenced, unsaved, restarts>>

(* ReplaceTileCacheJobChunks; when it fails the job is marked failed, and   *)
(* when that fails too the row stays queued without chunks.                 *)
CreateChunks(j) ==
    /\ creator[j] = "inserted"
    /\ creator' = [creator EXCEPT ![j] = "done"]
    /\ \/ /\ ~fenced
          /\ chunks' = [chunks EXCEPT ![j] =
                 [c \in Chunks |-> [NoChunks[c] EXCEPT !.status = IF c \in ChunksOf[j] THEN "queued" ELSE @]]]
          /\ UNCHANGED jobs
       \/ /\ jobs' \in {jobs, Written(j, "failed")}
          /\ UNCHANGED chunks
    /\ UNCHANGED <<order, stored, wk, rn, blocked, quiesce, closing, fenced, unsaved, restarts>>

(* RequestTileCacheJobCancel through Manager.Cancel. *)
Cancel(j) ==
    /\ ~fenced /\ jobs[j].status \in Active
    /\ jobs' = [jobs EXCEPT ![j] = CancelRow(jobs[j])]
    /\ UNCHANGED <<order, chunks, stored, creator, wk, rn, blocked, quiesce, closing, fenced, unsaved, restarts>>

-----------------------------------------------------------------------------
(* worker and claimNext. *)

Eligible(j) == jobs[j].status = "queued" /\ ~jobs[j].cancel

OldestEligible(j) ==
    \E i \in DOMAIN order :
        /\ order[i] = j /\ Eligible(j)
        /\ \A k \in 1..(i - 1) : ~Eligible(order[k])

(* ClaimNextTileCacheJob, under claimMu: the oldest eligible job becomes    *)
(* running; when its row cannot be read back the worker goes on without it. *)
Claim(w) ==
    /\ wk[w].at = "idle" /\ ~closing /\ ~fenced
    /\ \A v \in Workers : wk[v].at # "claimed"
    /\ \E j \in Jobs :
          /\ OldestEligible(j)
          /\ jobs' = [jobs EXCEPT ![j].status = "running"]
          /\ \/ /\ wk' = [wk EXCEPT ![w] = [IdleWorker EXCEPT !.at = "claimed", !.id = j]]
                /\ UNCHANGED unsaved
             \/ unsaved' = unsaved \cup {j} /\ UNCHANGED wk
    /\ UNCHANGED <<order, chunks, stored, creator, rn, blocked, quiesce, closing, fenced, restarts>>

(* Mutant: the scope is not checked again after the claim. *)
ClaimedUnchecked(w) ==
    /\ wk[w].at = "claimed"
    /\ wk' = [wk EXCEPT ![w].at = "run"]
    /\ UNCHANGED <<jobs, order, chunks, stored, creator, rn, blocked, quiesce, closing, fenced, unsaved, restarts>>

(* Mutant: the blocked job is dropped without updating its row. *)
ClaimedDropped(w) ==
    /\ wk[w].at = "claimed"
    /\ wk' = [wk EXCEPT ![w] = IF Blocked(wk[w].id) THEN IdleWorker ELSE [@ EXCEPT !.at = "run"]]
    /\ UNCHANGED <<jobs, order, chunks, stored, creator, rn, blocked, quiesce, closing, fenced, unsaved, restarts>>

(* claimNext, still under claimMu: a job of a quiesced scope is cancelled   *)
(* instead of run; the update fails once m.ctx is cancelled.                *)
Claimed(w) ==
    /\ wk[w].at = "claimed"
    /\ IF Blocked(wk[w].id)
       THEN /\ IF closing THEN UNCHANGED <<jobs, unsaved>> ELSE Settle(wk[w].id, "cancelled")
            /\ wk' = [wk EXCEPT ![w] = IdleWorker]
       ELSE /\ wk' = [wk EXCEPT ![w].at = "run"]
            /\ UNCHANGED <<jobs, unsaved>>
    /\ UNCHANGED <<order, chunks, stored, creator, rn, blocked, quiesce, closing, fenced, restarts>>

(* finishFailed: the run ends, the row says failed. *)
FinishFailed(w) ==
    /\ Settle(wk[w].id, "failed")
    /\ wk' = [wk EXCEPT ![w] = IdleWorker]

HasChunks(j) == \E c \in Chunks : chunks[j][c].status # "none"

(* run: the workspace or the resource is no longer in the registry, or the  *)
(* chunks cannot be listed.                                                 *)
RunGone(w) ==
    /\ wk[w].at = "run"
    /\ FinishFailed(w)
    /\ UNCHANGED <<order, chunks, stored, creator, rn, blocked, quiesce, closing, fenced, restarts>>

(* The chunks are listed, and the entries of an unbounded truncate deleted, *)
(* with m.ctx; the failure is written without it.                           *)
RunAborted(w) ==
    /\ wk[w].at = "run" /\ closing
    /\ FinishFailed(w)
    /\ UNCHANGED <<order, chunks, stored, creator, rn, blocked, quiesce, closing, fenced, restarts>>

(* Mutant: a job without chunks is skipped without a final status. *)
RunNoChunksSilent(w) ==
    /\ wk[w].at = "run" /\ wk[w].id \notin Clear /\ ~closing
    /\ ~HasChunks(wk[w].id)
    /\ wk' = [wk EXCEPT ![w] = IdleWorker]
    /\ UNCHANGED <<jobs, order, chunks, stored, creator, rn, blocked, quiesce, closing, fenced, unsaved, restarts>>

RunNoChunks(w) ==
    /\ wk[w].at = "run" /\ wk[w].id \notin Clear /\ ~closing
    /\ ~HasChunks(wk[w].id)
    /\ FinishFailed(w)
    /\ UNCHANGED <<order, chunks, stored, creator, rn, blocked, quiesce, closing, fenced, restarts>>

(* An unbounded truncate deletes the matching entries and reports success;  *)
(* it never looks at the cancel flag.                                       *)
RunClear(w) ==
    /\ wk[w].at = "run" /\ wk[w].id \in Clear
    /\ \/ FinishFailed(w)
       \/ /\ ~fenced
          /\ IF closing THEN UNCHANGED <<jobs, unsaved>> ELSE Settle(wk[w].id, "succeeded")
          /\ wk' = [wk EXCEPT ![w] = IdleWorker]
    /\ UNCHANGED <<order, chunks, stored, creator, rn, blocked, quiesce, closing, fenced, restarts>>

(* The chunks that are not done go to the runners. *)
RunQueue(w) ==
    /\ wk[w].at = "run" /\ wk[w].id \notin Clear /\ ~closing
    /\ HasChunks(wk[w].id)
    /\ LET rows == chunks[wk[w].id]
       IN  rn' = [rn EXCEPT ![w] = [c \in Chunks |->
               IF rows[c].status \in {"none", "succeeded"} THEN IdleRunners[c]
               ELSE [at |-> "queued", next |-> rows[c].next, attempts |-> rows[c].attempts]]]
    /\ wk' = [wk EXCEPT ![w].at = "chunks"]
    /\ UNCHANGED <<jobs, order, chunks, stored, creator, blocked, quiesce, closing, fenced, unsaved, restarts>>

-----------------------------------------------------------------------------
(* runChunk.  Runner w, c holds a copy of the chunk row. *)

ChunkRow(w, c, s) == [status |-> s, next |-> rn[w][c].next, attempts |-> rn[w][c].attempts]
Running(w) == {c \in Chunks : rn[w][c].at \notin {"none", "queued"}}

ChunkStart(w, c) ==
    /\ rn[w][c].at = "queued"
    /\ Cardinality(Running(w)) < ChunkWorkers
    /\ rn' = [rn EXCEPT ![w][c].at = "loop"]
    /\ chunks' \in IF closing THEN {chunks} ELSE Checkpointed(wk[w].id, c, ChunkRow(w, c, "running"))
    /\ UNCHANGED <<jobs, order, stored, creator, wk, blocked, quiesce, closing, fenced, unsaved, restarts>>

(* The end of runChunk: the chunk's row gets its last status. *)
ChunkEnd(w, c, status) ==
    /\ chunks' \in Checkpointed(wk[w].id, c, ChunkRow(w, c, status))
    /\ rn' = [rn EXCEPT ![w][c].at = "none"]
    /\ UNCHANGED <<jobs, order, stored, creator, blocked, quiesce, closing, fenced, unsaved, restarts>>

ChunkDone(w, c) ==
    /\ rn[w][c].at = "loop" /\ rn[w][c].next = TilesIn[c]
    /\ ChunkEnd(w, c, "succeeded")
    /\ UNCHANGED wk

(* Mutant: the interruption is not remembered. *)
ChunkInterruptedForgotten(w, c) ==
    /\ rn[w][c].at = "loop" /\ rn[w][c].next < TilesIn[c] /\ closing
    /\ ChunkEnd(w, c, "queued")
    /\ UNCHANGED wk

ChunkInterrupted(w, c) ==
    /\ rn[w][c].at = "loop" /\ rn[w][c].next < TilesIn[c] /\ closing
    /\ ChunkEnd(w, c, "queued")
    /\ wk' = [wk EXCEPT ![w].interrupted = TRUE]

ChunkCancelled(w, c) ==
    /\ rn[w][c].at = "loop" /\ rn[w][c].next < TilesIn[c] /\ ~closing
    /\ jobs[wk[w].id].cancel
    /\ ChunkEnd(w, c, "cancelled")
    /\ wk' = [wk EXCEPT ![w].cancelled = TRUE]

(* The next tile: no cancel is requested, or cancelRequested could not read *)
(* the row.                                                                 *)
ChunkNext(w, c) ==
    /\ rn[w][c].at = "loop" /\ rn[w][c].next < TilesIn[c] /\ ~closing
    /\ rn' = [rn EXCEPT ![w][c].at = "process"]
    /\ UNCHANGED <<jobs, order, chunks, stored, creator, wk, blocked, quiesce, closing, fenced, unsaved, restarts>>

(* Mutant: a failed tile advances the offset like a skipped one. *)
ChunkProcessUncounted(w, c) ==
    /\ rn[w][c].at = "process"
    /\ stored' \in {stored, [stored EXCEPT ![wk[w].id] = @ \cup {<<c, rn[w][c].next>>}]}
    /\ rn' = [rn EXCEPT ![w][c] = [@ EXCEPT !.at = "checkpoint", !.next = @ + 1]]
    /\ UNCHANGED <<jobs, order, chunks, creator, wk, blocked, quiesce, closing, fenced, unsaved, restarts>>

(* processTile and the counters: the tile takes effect, or it fails (always *)
(* when fenced); either way its offset is consumed.                         *)
ChunkProcess(w, c) ==
    /\ rn[w][c].at = "process"
    /\ \/ /\ ~fenced
          /\ stored' = [stored EXCEPT ![wk[w].id] = @ \cup {<<c, rn[w][c].next>>}]
          /\ UNCHANGED wk
          /\ rn' = [rn EXCEPT ![w][c] =
                 [at |-> "checkpoint", next |-> rn[w][c].next + 1, attempts |-> rn[w][c].attempts]]
       \/ /\ wk' = [wk EXCEPT ![w].failed = TRUE]
          /\ rn' = [rn EXCEPT ![w][c] =
                 [at |-> "checkpoint", next |-> rn[w][c].next + 1, attempts |-> rn[w][c].attempts + 1]]
          /\ UNCHANGED stored
    /\ UNCHANGED <<jobs, order, chunks, creator, blocked, quiesce, closing, fenced, unsaved, restarts>>

ChunkCheckpoint(w, c) ==
    /\ rn[w][c].at = "checkpoint"
    /\ chunks' \in Checkpointed(wk[w].id, c, ChunkRow(w, c, "running"))
    /\ rn' = [rn EXCEPT ![w][c].at = "progress"]
    /\ UNCHANGED <<jobs, order, stored, creator, wk, blocked, quiesce, closing, fenced, unsaved, restarts>>

(* The progress update of runChunk, under updateMu. *)
ChunkProgress(w, c) ==
    /\ rn[w][c].at = "progress"
    /\ jobs' \in {jobs, Written(wk[w].id, "running")}
    /\ rn' = [rn EXCEPT ![w][c].at = "loop"]
    /\ UNCHANGED <<order, chunks, stored, creator, wk, blocked, quiesce, closing, fenced, unsaved, restarts>>

-----------------------------------------------------------------------------
(* The end of run: the row is read, then the final status is written.  A    *)
(* row that cannot be read counts as not cancelled.                         *)

RunRead(w) ==
    /\ wk[w].at = "chunks"
    /\ \A c \in Chunks : rn[w][c].at = "none"
    /\ \E seen \in {FALSE, ~closing /\ jobs[wk[w].id].cancel} :
          wk' = [wk EXCEPT ![w].at = "finish", ![w].seen = seen]
    /\ UNCHANGED <<jobs, order, chunks, stored, creator, rn, blocked, quiesce, closing, fenced, unsaved, restarts>>

RunFinish(w) ==
    /\ wk[w].at = "finish"
    /\ IF wk[w].interrupted THEN UNCHANGED <<jobs, unsaved>>
       ELSE Settle(wk[w].id, IF wk[w].cancelled \/ wk[w].seen THEN "cancelled"
                             ELSE IF wk[w].failed THEN "failed" ELSE "succeeded")
    /\ wk' = [wk EXCEPT ![w] = IdleWorker]
    /\ UNCHANGED <<order, chunks, stored, creator, rn, blocked, quiesce, closing, fenced, restarts>>

-----------------------------------------------------------------------------
(* QuiesceLifecycle and the job part of PurgeLifecycle, called by the       *)
(* deletion coordinator.                                                    *)

QuiesceBlock(scope) ==
    /\ quiesce.at \in {"idle", "failed"} /\ ~closing
    /\ blocked' = blocked \cup {scope}
    /\ quiesce' = [at |-> "cancel", scope |-> scope]
    /\ UNCHANGED <<jobs, order, chunks, stored, creator, wk, rn, closing, fenced, unsaved, restarts>>

(* cancelLifecycleJobs *)
QuiesceCancel ==
    /\ quiesce.at = "cancel" /\ ~fenced
    /\ quiesce' = [quiesce EXCEPT !.at = "poll"]
    /\ jobs' = [j \in Jobs |->
           IF InScope(j, quiesce.scope) /\ jobs[j].status \in Active
           THEN CancelRow(jobs[j]) ELSE jobs[j]]
    /\ UNCHANGED <<order, chunks, stored, creator, wk, rn, blocked, closing, fenced, unsaved, restarts>>

(* activeLifecycleJobs counts none: QuiesceLifecycle returns. *)
QuiescePoll ==
    /\ quiesce.at = "poll"
    /\ \A j \in Jobs : InScope(j, quiesce.scope) => jobs[j].status \notin Active
    /\ quiesce' = [quiesce EXCEPT !.at = "done"]
    /\ UNCHANGED <<jobs, order, chunks, stored, creator, wk, rn, blocked, closing, fenced, unsaved, restarts>>

(* A statement fails (always when fenced, where it writes), or the caller's *)
(* context ends: the deletion fails and is tried again later.               *)
QuiesceFails ==
    /\ quiesce.at \in {"cancel", "poll", "done"}
    /\ quiesce' = [quiesce EXCEPT !.at = "failed"]
    /\ UNCHANGED <<jobs, order, chunks, stored, creator, wk, rn, blocked, closing, fenced, unsaved, restarts>>

(* purgeLifecycleJobs refuses while a matching job is active. *)
PurgeJobs ==
    /\ quiesce.at = "done"
    /\ LET matching == {j \in Jobs : InScope(j, quiesce.scope)}
       IN  IF fenced \/ \E j \in matching : jobs[j].status \in Active
           THEN /\ quiesce' = [quiesce EXCEPT !.at = "failed"]
                /\ UNCHANGED <<jobs, order, chunks>>
           ELSE /\ quiesce' = [quiesce EXCEPT !.at = "purged"]
                /\ jobs' = [j \in Jobs |-> IF j \in matching THEN NoJob ELSE jobs[j]]
                /\ chunks' = [j \in Jobs |-> IF j \in matching /\ jobs[j] # NoJob THEN NoChunks ELSE chunks[j]]
                /\ order' = SelectSeq(order, LAMBDA j : j \notin matching)
    /\ UNCHANGED <<stored, creator, wk, rn, blocked, closing, fenced, unsaved, restarts>>

-----------------------------------------------------------------------------
(* The process. *)

(* Close cancels m.ctx; the workers wind down. *)
Close ==
    /\ ~closing
    /\ closing' = TRUE
    /\ UNCHANGED <<jobs, order, chunks, stored, creator, wk, rn, blocked, quiesce, fenced, unsaved, restarts>>

(* The ownership monitor fences the tile cache (see TileCacheOwnership). *)
Fence ==
    /\ ~fenced
    /\ fenced' = TRUE
    /\ UNCHANGED <<jobs, order, chunks, stored, creator, wk, rn, blocked, quiesce, closing, unsaved, restarts>>

(* ResetInterruptedTileCacheJobs *)
ResetJob(row) ==
    [row EXCEPT !.status = CASE row.status = "running"    -> "queued"
                             [] row.status = "cancelling" -> "cancelled"
                             [] OTHER                     -> row.status]
ResetChunk(row) == [row EXCEPT !.status = IF row.status = "running" THEN "queued" ELSE row.status]

(* The process ends at any point, by a crash or after Close, and            *)
(* NewManager of the next one resets what was interrupted.                  *)
Restart ==
    /\ restarts < MaxRestarts
    /\ restarts' = restarts + 1
    /\ jobs' = [j \in Jobs |-> ResetJob(jobs[j])]
    /\ chunks' = [j \in Jobs |-> [c \in Chunks |-> ResetChunk(chunks[j][c])]]
    /\ creator' = [j \in Jobs |-> IF creator[j] = "new" THEN "new" ELSE "done"]
    /\ wk' = [w \in Workers |-> IdleWorker]
    /\ rn' = [w \in Workers |-> IdleRunners]
    /\ blocked' = {}
    /\ quiesce' = [at |-> "idle", scope |-> Workspace]
    /\ closing' = FALSE
    /\ fenced' = FALSE
    /\ unsaved' = {}
    /\ UNCHANGED <<order, stored>>

Create(j) == CreateCheck(j) \/ CreateInsert(j) \/ CreateChunks(j)

Run(w) ==
    \/ Claim(w) \/ Claimed(w)
    \/ RunGone(w) \/ RunAborted(w) \/ RunNoChunks(w) \/ RunClear(w) \/ RunQueue(w)
    \/ RunRead(w) \/ RunFinish(w)

RunChunk(w, c) ==
    \/ ChunkStart(w, c) \/ ChunkDone(w, c) \/ ChunkInterrupted(w, c) \/ ChunkCancelled(w, c)
    \/ ChunkNext(w, c) \/ ChunkProcess(w, c) \/ ChunkCheckpoint(w, c) \/ ChunkProgress(w, c)

Quiesce ==
    \/ \E scope \in Scopes : QuiesceBlock(scope)
    \/ QuiesceCancel \/ QuiescePoll \/ QuiesceFails \/ PurgeJobs

Next ==
    \/ \E j \in Jobs : Create(j) \/ Cancel(j)
    \/ \E w \in Workers : Run(w) \/ \E c \in Chunks : RunChunk(w, c)
    \/ Quiesce
    \/ Close \/ Fence \/ Restart

Spec == Init /\ [][Next]_vars

(* The goroutines that exist keep running: the workers poll once a second,  *)
(* the quiescing caller polls every 25 ms, and a request that inserted its  *)
(* job goes on to insert the chunks.                                        *)
Fairness ==
    /\ \A w \in Workers : WF_vars(Run(w) \/ \E c \in Chunks : RunChunk(w, c))
    /\ WF_vars(\E j \in Jobs : CreateInsert(j) \/ CreateChunks(j))
    /\ WF_vars(QuiesceCancel \/ QuiescePoll)

FairSpec == Spec /\ Fairness

-----------------------------------------------------------------------------
(* Properties. *)

JobRow ==
    [status : Active \cup Terminal \cup {"none"}, cancel : BOOLEAN]
ChunkState == [status : {"none", "queued", "running", "cancelled", "succeeded"}, next : Nat, attempts : Nat]
WorkerState ==
    [at : {"idle", "claimed", "run", "chunks", "finish"}, id : Jobs \cup {None},
     failed : BOOLEAN, cancelled : BOOLEAN, interrupted : BOOLEAN, seen : BOOLEAN]
RunnerState ==
    [at : {"none", "queued", "loop", "process", "checkpoint", "progress"}, next : Nat, attempts : Nat]
QuiesceState ==
    [at : {"idle", "cancel", "poll", "done", "failed", "purged"}, scope : Resources \cup {Workspace}]

(* Every row, worker and runner has the shape the tables and structs of     *)
(* tilecache/jobs.go and tilejobs/manager.go give it, a runner never moves  *)
(* past the last tile of its chunk, and only a worker inside run has        *)
(* runners.                                                                 *)
RowsTyped ==
    /\ jobs \in [Jobs -> JobRow]
    /\ chunks \in [Jobs -> [Chunks -> ChunkState]]
    /\ stored \in [Jobs -> SUBSET (Chunks \X Nat)]
    /\ creator \in [Jobs -> {"new", "checked", "inserted", "done"}]
    /\ wk \in [Workers -> WorkerState]
    /\ rn \in [Workers -> [Chunks -> RunnerState]]
    /\ blocked \subseteq Resources \cup {Workspace}
    /\ quiesce \in QuiesceState
    /\ closing \in BOOLEAN /\ fenced \in BOOLEAN
    /\ restarts \in 0..MaxRestarts
    /\ \A w \in Workers, c \in Chunks :
          /\ rn[w][c].next <= TilesIn[c]
          /\ rn[w][c].at # "none" => wk[w].at = "chunks"

TypeOK == order \in Seq(Jobs) /\ unsaved \subseteq Jobs /\ RowsTyped

CanWriteTiles(w) ==
    \/ wk[w].at = "chunks"
    \/ wk[w].at = "run" /\ (wk[w].id \in Clear \/ HasChunks(wk[w].id))

(* Once QuiesceLifecycle has returned, no worker can still write tiles for  *)
(* the scope, also not for a job whose Create had passed the lifecycle      *)
(* check before the scope was blocked and inserts its row afterwards.       *)
QuiescedScopeSilent ==
    quiesce.at \in {"done", "purged"} =>
        \A w \in Workers : CanWriteTiles(w) => ~InScope(wk[w].id, quiesce.scope)

(* A durable checkpoint never hides a tile: every offset before a chunk's   *)
(* next_offset either took effect on the cache or is recorded in the same   *)
(* row as a failed attempt.  Resuming after a crash therefore loses no tile *)
(* silently, although the job's own counters may.                           *)
SkippedTilesRecorded ==
    \A j \in Jobs \ Clear, c \in Chunks :
        Cardinality({o \in 0..(chunks[j][c].next - 1) : <<c, o>> \notin stored[j]})
            <= chunks[j][c].attempts

(* When a job is reported as succeeded, every tile of every chunk took      *)
(* effect on the cache, except those that an earlier run of the job counted *)
(* as failed in the chunk's row: the final status only looks at the         *)
(* failures of the last run.  The row itself may have stayed behind, since  *)
(* a failing checkpoint is ignored; shutdowns, crashes and resumptions on   *)
(* the way hide no tile.                                                    *)
SucceededMeansComplete ==
    \A j \in Jobs \ Clear : jobs[j].status = "succeeded" =>
        \A c \in ChunksOf[j] :
            Cardinality({o \in 0..(TilesIn[c] - 1) : <<c, o>> \notin stored[j]}) <= chunks[j][c].attempts

(* A job that waits in the queue is settled, unless it is cancelled or the  *)
(* process shuts down or loses ownership first, or the very statement that  *)
(* stores its last status fails.  A restart does not change that: the next  *)
(* process takes the job up where its chunks are, an unsaved one included.  *)
JobsSettle ==
    \A j \in Jobs :
        Eligible(j) ~> \/ jobs[j].status \in Terminal \cup {"none"} \/ jobs[j].cancel
                       \/ closing \/ fenced \/ j \in unsaved

(* QuiesceLifecycle returns: the matching jobs it cancels, and those that   *)
(* slip in behind it, all become terminal, except one whose last status was *)
(* not stored: for that it waits until its context ends.                    *)
QuiesceReturns ==
    quiesce.at = "poll" ~>
        quiesce.at # "poll" \/ closing \/ fenced \/ \E j \in unsaved : InScope(j, quiesce.scope)

(* What docs/tile-cache.md says of restarts: a job the user cancelled does  *)
(* not return to the queue.  runChunk's progress update puts "running" back *)
(* over "cancelling", and ResetInterruptedTileCacheJobs then queues it.     *)
CancelledNeverQueued ==
    \A j \in Jobs : jobs[j].cancel => jobs[j].status # "queued"
=============================================================================
