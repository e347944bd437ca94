---------------------------- MODULE MosaicHarvest ----------------------------
(***************************************************************************)
(* The generations of one raster mosaic and the harvest jobs that replace   *)
(* them: internal/mosaiccatalog/manager.go, catalog.go and jobs.go.         *)
(* A granule is its path. The service lock orders harvests, the removal of  *)
(* a granule and the deletion of the service; the jobs' rows, the active    *)
(* generation and the granules are the catalog's and survive a crash.       *)
(***************************************************************************)
EXTENDS Integers, FiniteSets

CONSTANTS
    Paths,
    MaxJobs,     \* bound: harvest jobs
    MaxGen,      \* bound: generation numbers
    MaxFaults,   \* bound: failing statements and refreshes
    MaxCrashes   \* bound: restarts of the server

ASSUME MosaicAssumption ==
    MaxJobs \in Nat /\ MaxGen \in Nat /\ MaxFaults \in Nat /\ MaxCrashes \in Nat

Jobs == 1 .. MaxJobs
Gens == 1 .. MaxGen

VARIABLES
    job,       \* mosaic_harvest_jobs
    active,    \* mosaic_services.active_generation
    granules,  \* mosaic_granules by generation
    served,    \* the granules the running service was opened with
    lock,      \* who holds the service's lock
    service,   \* live, blocked (blockedServices) or deleted
    worker,    \* the harvest worker
    remover,   \* a DeleteGranule request
    author,    \* history: the harvest that the active generation comes from, and
               \* whether its row was left open after the activation
    former,    \* history: the author before the activation that is under way
    whole,     \* history: generations whose every candidate is in
    odd,       \* history: "apart", a refresh and the way back from it both failed;
               \* "stranded", a job's row says it is under way and no worker has it
    faults, crashes

vars == <<job, active, granules, served, lock, service, worker, remover, author, former, whole, odd, faults, crashes>>

catalog == <<active, granules, author, former, whole>>

NoJob == [status |-> "none", cancel |-> FALSE, gen |-> 0]
IdleWorker == [pc |-> "idle", job |-> 0, gen |-> 0, prev |-> 0, todo |-> {}]
NoAuthor == [job |-> 0, left |-> FALSE]
IdleRemover == [pc |-> "idle", gen |-> 0, prev |-> 0]

Init ==
    /\ job = [j \in Jobs |-> NoJob]
    /\ active = 0 /\ granules = [g \in Gens |-> {}] /\ served = {}
    /\ lock = "none" /\ service = "live"
    /\ worker = IdleWorker /\ remover = IdleRemover
    /\ author = NoAuthor /\ former = NoAuthor /\ whole = {} /\ odd = {} /\ faults = 0 /\ crashes = 0

Fault == faults < MaxFaults /\ faults' = faults + 1

Open == {"queued", "running", "cancelling"}

GranulesOf(g) == IF g = 0 THEN {} ELSE granules[g]

-----------------------------------------------------------------------------
(* Job rows *)

(* updateJob: a requested cancel wins over every status but cancelled, and  *)
(* a row that is over stays as it is.                                       *)
Updated(row, status) ==
    IF row.status \notin Open THEN row
    ELSE [row EXCEPT !.status = IF row.cancel /\ status # "cancelled" THEN "cancelling" ELSE status,
                     !.cancel = row.cancel \/ status = "cancelled"]

CreateJob(j) ==
    /\ service = "live"
    /\ job[j].status = "none" /\ \A k \in Jobs : k < j => job[k].status # "none"
    /\ job' = [job EXCEPT ![j] = [NoJob EXCEPT !.status = "queued"]]
    /\ UNCHANGED <<catalog, served, lock, service, worker, remover, odd, faults, crashes>>

(* requestCancel, under the catalog's writer gate: refused once the job's   *)
(* generation is active.                                                    *)
Cancelled(row) ==
    [row EXCEPT !.cancel = TRUE,
                !.status = CASE @ = "queued" -> "cancelled" [] @ = "running" -> "cancelling" [] OTHER -> @]

(* Mutant: a cancel is accepted after the activation. *)
CancelLate(j) ==
    /\ job[j].status \in Open /\ ~job[j].cancel
    /\ job' = [job EXCEPT ![j] = Cancelled(@)]
    /\ UNCHANGED <<catalog, served, lock, service, worker, remover, odd, faults, crashes>>

CancelJob(j) ==
    /\ job[j].status \in Open /\ ~job[j].cancel
    /\ ~(job[j].gen > 0 /\ job[j].status \in {"running", "cancelling"} /\ active = job[j].gen)
    /\ job' = [job EXCEPT ![j] = Cancelled(@)]
    /\ UNCHANGED <<catalog, served, lock, service, worker, remover, odd, faults, crashes>>

-----------------------------------------------------------------------------
(* The worker *)

(* claimNext: the oldest queued job of a service with none under way. *)
Claimable(j) ==
    /\ job[j].status = "queued" /\ ~job[j].cancel
    /\ \A k \in Jobs : job[k].status \notin {"running", "cancelling"}
    /\ \A k \in Jobs : job[k].status = "queued" => j <= k

Claim(j) ==
    /\ worker.pc = "idle" /\ Claimable(j)
    /\ IF service # "live"
       THEN job' = [job EXCEPT ![j] = Cancelled(@)] /\ UNCHANGED worker
       ELSE /\ job' = [job EXCEPT ![j].status = "running"]
            /\ worker' = [IdleWorker EXCEPT !.pc = "claimed", !.job = j]
    /\ UNCHANGED <<catalog, served, lock, service, remover, odd, faults, crashes>>

row == job[worker.job]

Goto(pc) == worker' = [worker EXCEPT !.pc = pc]

RunLock ==
    /\ worker.pc = "claimed" /\ lock = "none"
    /\ lock' = "worker"
    /\ Goto(IF service # "live" THEN "cancel" ELSE "begin")
    /\ UNCHANGED <<job, catalog, served, service, remover, odd, faults, crashes>>

(* harvestCandidates finds the candidates, in the request or in a           *)
(* directory, and beginGeneration clears the rows that an interrupted job   *)
(* left. Append (preserve) starts from the active generation's granules.    *)
Begin(want, preserve) ==
    /\ worker.pc = "begin" /\ want # {} /\ active + 1 \in Gens
    /\ granules' = [granules EXCEPT ![active + 1] = IF preserve THEN GranulesOf(active) ELSE {}]
    /\ whole' = whole \ {active + 1}
    /\ worker' = [worker EXCEPT !.pc = "save", !.gen = active + 1, !.todo = want]
    /\ UNCHANGED <<job, active, author, former, served, lock, service, remover, odd, faults, crashes>>

(* There are none or too many, or they cannot be listed. *)
BeginFails ==
    /\ worker.pc = "begin"
    /\ Goto("fail")
    /\ UNCHANGED <<job, catalog, served, lock, service, remover, odd, faults, crashes>>

Without(g) == [granules EXCEPT ![g] = {}]

(* The generation is written to the job's row. *)
SaveGeneration ==
    /\ worker.pc = "save"
    /\ \/ /\ job' = [job EXCEPT ![worker.job] = Updated([@ EXCEPT !.gen = worker.gen], "running")]
          /\ Goto("harvest")
          /\ UNCHANGED <<granules, whole, faults>>
       \/ /\ Fault /\ Goto("fail")
          /\ granules' = Without(worker.gen) /\ whole' = whole \ {worker.gen}
          /\ UNCHANGED job
    /\ UNCHANGED <<active, author, former, served, lock, service, remover, odd, crashes>>

Discard(pc) ==
    /\ granules' = Without(worker.gen) /\ whole' = whole \ {worker.gen}
    /\ Goto(pc)
    /\ UNCHANGED <<job, active, author, former, served, lock, service, remover, odd, faults, crashes>>

(* cancelled: before every candidate the service and the row are read; a    *)
(* row that cannot be read counts as cancelled.                             *)
Stopped == service # "live" \/ row.cancel

HarvestCancelled ==
    /\ worker.pc = "harvest" /\ worker.todo # {} /\ (Stopped \/ faults < MaxFaults)
    /\ Discard("cancel")

HarvestGranule(p) ==
    /\ worker.pc = "harvest" /\ p \in worker.todo /\ ~Stopped
    /\ granules' = [granules EXCEPT ![worker.gen] = @ \cup {p}]
    /\ worker' = [worker EXCEPT !.todo = @ \ {p}]
    /\ whole' = IF worker.todo = {p} THEN whole \cup {worker.gen} ELSE whole
    /\ UNCHANGED <<job, active, author, former, served, lock, service, remover, odd, faults, crashes>>

(* Mutant: a harvest goes on without the granule it could not read. *)
HarvestSkips ==
    /\ worker.pc = "harvest" /\ worker.todo # {} /\ ~Stopped
    /\ \E p \in worker.todo : worker' = [worker EXCEPT !.todo = @ \ {p}]
    /\ UNCHANGED <<job, catalog, served, lock, service, remover, odd, faults, crashes>>

(* A granule that cannot be opened, does not fit the others or cannot be    *)
(* written ends the harvest.                                                *)
HarvestFails ==
    /\ worker.pc = "harvest" /\ worker.todo # {} /\ ~Stopped
    /\ Discard("fail")

(* activateJobGeneration, under the catalog's writer gate. *)
Activate ==
    /\ worker.pc = "harvest" /\ worker.todo = {} /\ ~row.cancel /\ row.status = "running"
    /\ granules[worker.gen] # {}
    /\ worker' = [worker EXCEPT !.pc = "refresh", !.prev = active]
    /\ active' = worker.gen
    /\ author' = [job |-> worker.job, left |-> FALSE] /\ former' = author
    /\ UNCHANGED <<job, granules, whole, served, lock, service, remover, odd, faults, crashes>>

ActivateRefused ==
    /\ worker.pc = "harvest" /\ worker.todo = {}
    /\ \/ (row.cancel \/ row.status # "running") /\ Discard("cancel")
       \/ faults < MaxFaults /\ Discard("fail")

(* Registry.RefreshService opens the service anew on the active generation. *)
Refresh ==
    /\ worker.pc = "refresh"
    /\ served' = GranulesOf(active) /\ odd' = odd \ {"apart"}
    /\ Goto("prune")
    /\ UNCHANGED <<job, catalog, lock, service, remover, faults, crashes>>

(* A refresh that fails keeps the service that was open. Then the previous  *)
(* generation is restored, or that fails too.                               *)
RefreshFails ==
    /\ worker.pc = "refresh" /\ Fault
    /\ \/ /\ active' = worker.prev /\ author' = former /\ UNCHANGED former
          /\ granules' = Without(worker.gen) /\ whole' = whole \ {worker.gen}
          /\ UNCHANGED odd
       \/ odd' = odd \cup {"apart"} /\ UNCHANGED catalog
    /\ Goto("fail")
    /\ UNCHANGED <<job, served, lock, service, remover, crashes>>

Pruned(g) == [h \in Gens |-> IF h = g THEN granules[h] ELSE {}]

LeftOpen(so) == [author EXCEPT !.left = @ \/ so]

(* The last write of a job's row; an error is only logged. *)
Leave(status) ==
    /\ \/ job' = [job EXCEPT ![worker.job] = Updated(@, status)] /\ UNCHANGED faults
       \/ Fault /\ UNCHANGED job
    /\ odd' = IF job'[worker.job].status \in Open THEN odd \cup {"stranded"} ELSE odd
    /\ author' = LeftOpen(job'[worker.job].status \in Open /\ author.job = worker.job)
    /\ former' = NoAuthor
    /\ worker' = IdleWorker /\ lock' = "none"
    /\ UNCHANGED <<active, served, service, remover, crashes>>

(* pruneInactiveGenerations, then the job has succeeded. *)
Succeed ==
    /\ worker.pc = "prune"
    /\ granules' = Pruned(worker.gen) /\ whole' = whole \cap {worker.gen}
    /\ Leave("succeeded")

(* failJob reads the row, then writes it; when it cannot be read the job    *)
(* is written as failed.                                                    *)
FailRead ==
    /\ worker.pc = "fail"
    /\ \/ Goto(IF row.cancel THEN "cancel" ELSE "failed")
       \/ faults < MaxFaults /\ Goto("failed")
    /\ UNCHANGED <<job, catalog, served, lock, service, remover, odd, faults, crashes>>

FailWrite == worker.pc = "failed" /\ Leave("failed") /\ UNCHANGED <<granules, whole>>

CancelWrite == worker.pc = "cancel" /\ Leave("cancelled") /\ UNCHANGED <<granules, whole>>

-----------------------------------------------------------------------------
(* DeleteGranule *)

(* The generation without the granule is made and activated under the lock; *)
(* an empty one is refused. What is left of a harvest is still that         *)
(* harvest's.                                                               *)
Remove(p) ==
    /\ service = "live" /\ remover.pc = "idle" /\ lock = "none"
    /\ p \in GranulesOf(active) /\ GranulesOf(active) # {p} /\ active + 1 \in Gens
    /\ lock' = "remover"
    /\ remover' = [pc |-> "refresh", gen |-> active + 1, prev |-> active]
    /\ granules' = [granules EXCEPT ![active + 1] = granules[active] \ {p}]
    /\ whole' = IF active \in whole THEN whole \cup {active + 1} ELSE whole \ {active + 1}
    /\ active' = active + 1
    /\ UNCHANGED <<job, author, former, served, service, worker, odd, faults, crashes>>

Removed ==
    /\ remover.pc = "refresh"
    /\ served' = GranulesOf(active) /\ odd' = odd \ {"apart"}
    /\ granules' = Pruned(remover.gen) /\ whole' = whole \cap {remover.gen}
    /\ remover' = IdleRemover /\ lock' = "none"
    /\ UNCHANGED <<job, active, author, former, service, worker, faults, crashes>>

(* A client that is gone fails both the refresh and the way back. *)
RemoveFails ==
    /\ remover.pc = "refresh" /\ Fault
    /\ \/ /\ active' = remover.prev /\ UNCHANGED <<author, former, odd>>
          /\ granules' = Without(remover.gen) /\ whole' = whole \ {remover.gen}
       \/ odd' = odd \cup {"apart"} /\ UNCHANGED catalog
    /\ remover' = IdleRemover /\ lock' = "none"
    /\ UNCHANGED <<job, served, service, worker, crashes>>

-----------------------------------------------------------------------------
(* The deletion of the service, and the server *)

Quiesce ==
    /\ service = "live" /\ service' = "blocked"
    /\ UNCHANGED <<job, catalog, served, lock, worker, remover, odd, faults, crashes>>

(* QuiesceAndDeleteLifecycle, with the service's lock. *)
DeleteLifecycle ==
    /\ service = "blocked" /\ lock = "none"
    /\ service' = "deleted"
    /\ job' = [j \in Jobs |-> NoJob]
    /\ active' = 0 /\ author' = NoAuthor /\ UNCHANGED former
    /\ granules' = [g \in Gens |-> {}] /\ whole' = {} /\ served' = {}
    /\ UNCHANGED <<lock, worker, remover, odd, faults, crashes>>

(* Mutant: an interrupted harvest is taken for one that still runs. *)
ResetQueued(r) == IF r.status = "queued" /\ r.cancel THEN [r EXCEPT !.status = "cancelled"] ELSE r

(* resetInterrupted *)
Reset(r) ==
    IF r.status \in Open /\ r.cancel THEN [r EXCEPT !.status = "cancelled"]
    ELSE IF r.status \in Open THEN [r EXCEPT !.status = "queued"]
    ELSE r

Restart ==
    /\ crashes < MaxCrashes /\ crashes' = crashes + 1
    /\ job' = [j \in Jobs |-> Reset(job[j])]
    /\ worker' = IdleWorker /\ remover' = IdleRemover /\ lock' = "none"
    /\ service' = IF service = "blocked" THEN "live" ELSE service
    /\ served' = GranulesOf(active) /\ odd' = {}
    /\ author' = LeftOpen(\E j \in Jobs : author.job = j /\ job[j].status \in Open)
    /\ former' = NoAuthor
    /\ UNCHANGED <<active, granules, whole, faults>>

Work ==
    \/ \E j \in Jobs : Claim(j)
    \/ RunLock \/ BeginFails \/ \E want \in SUBSET Paths, preserve \in BOOLEAN : Begin(want, preserve)
    \/ SaveGeneration
    \/ HarvestCancelled \/ HarvestFails \/ \E p \in Paths : HarvestGranule(p)
    \/ Activate \/ ActivateRefused \/ Refresh \/ RefreshFails
    \/ Succeed \/ FailRead \/ FailWrite \/ CancelWrite

Request ==
    \/ \E j \in Jobs : CreateJob(j) \/ CancelJob(j)
    \/ \E p \in Paths : Remove(p)
    \/ Removed \/ RemoveFails
    \/ Quiesce \/ DeleteLifecycle

Next == Work \/ Request \/ Restart

Spec == Init /\ [][Next]_vars

(* The worker polls and runs on; a request that holds the lock ends. *)
FairSpec == Spec /\ WF_vars(Work) /\ WF_vars(Removed \/ RemoveFails)

-----------------------------------------------------------------------------
JobState ==
    [status : {"none", "succeeded", "failed", "cancelled"} \cup Open, cancel : BOOLEAN, gen : 0 .. MaxGen]
WorkerState ==
    [pc : {"idle", "claimed", "begin", "save", "harvest", "refresh", "prune", "fail", "failed", "cancel"},
     job : 0 .. MaxJobs, gen : 0 .. MaxGen, prev : 0 .. MaxGen, todo : SUBSET Paths]
AuthorState == [job : 0 .. MaxJobs, left : BOOLEAN]
RemoverState == [pc : {"idle", "refresh"}, gen : 0 .. MaxGen, prev : 0 .. MaxGen]

TypeOK ==
    /\ job \in [Jobs -> JobState]
    /\ active \in 0 .. MaxGen /\ granules \in [Gens -> SUBSET Paths] /\ served \subseteq Paths
    /\ lock \in {"none", "worker", "remover"} /\ service \in {"live", "blocked", "deleted"}
    /\ worker \in WorkerState /\ remover \in RemoverState
    /\ author \in AuthorState /\ former \in AuthorState /\ whole \subseteq Gens /\ odd \subseteq {"apart", "stranded"}
    /\ faults \in 0 .. MaxFaults /\ crashes \in 0 .. MaxCrashes

(* The active generation has every granule of its harvest: a harvest that   *)
(* fails, is cancelled or is interrupted anywhere leaves the generation     *)
(* before it live, and the service that is open shows exactly the active    *)
(* one whenever nobody is changing it. The exception is a failed refresh    *)
(* whose way back failed too.                                               *)
LiveGenerationWhole ==
    /\ active > 0 => active \in whole
    /\ lock = "none" /\ "apart" \notin odd => served = GranulesOf(active)

(* A harvest whose cancel was accepted is never reported as succeeded, and  *)
(* never the one that is live: not even after a granule was removed from    *)
(* it, or after a later activation was taken back. The exception is a live  *)
(* harvest whose row stayed open after its activation, because the server   *)
(* stopped before the last write of the row or that write failed:           *)
(* requestCancel looks for the active generation only while the row is      *)
(* under way and names it, so a row that a restart has queued again, or     *)
(* whose generation was replaced by a removal, is cancelled with its        *)
(* granules live.                                                           *)
CancelHonoured ==
    \A j \in Jobs : job[j].cancel => job[j].status # "succeeded" /\ (author.job = j => author.left)

(* Every harvest that is asked for ends, unless a row is left behind: by a  *)
(* failed write, or by a cancel between the two halves of failJob.          *)
HarvestsSettle == \A j \in Jobs : job[j].status \in Open ~> (job[j].status \notin Open \/ "stranded" \in odd)

=============================================================================
