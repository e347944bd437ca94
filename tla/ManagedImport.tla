---------------------------- MODULE ManagedImport ----------------------------
(***************************************************************************)
(* The life of one managed import: internal/importer/manager.go and         *)
(* recovery.go over the durable job and asset rows of                       *)
(* internal/store/store_import.go, with the deletion of the published       *)
(* service that a rollback starts.  Imports share only the claim mutex and  *)
(* the worker pool; another import's service name is a publication that is  *)
(* refused.  Rows and files survive a crash, everything else does not.      *)
(* The source that the job row names is outside the temporary directory (a  *)
(* local path, or a URI until it is downloaded) or a directory in it: that  *)
(* of the upload or download, then that of an extracted archive.            *)
(***************************************************************************)
EXTENDS Integers, FiniteSets

CONSTANTS
    Workers,      \* worker goroutines
    Rollers,      \* rollback requests that may run at the same time
    Call,         \* the request, or the recovery, that holds the claim mutex
    Revisions,    \* names of staged databases
    MaxRetries,   \* Importer.MaxRetries
    MaxFaults,    \* bound: failing files and statements, disconnecting clients
    MaxCrashes,   \* bound: restarts of the server
    None, Final   \* no file; the path of the published database

ASSUME ImportAssumption ==
    /\ MaxRetries \in Nat /\ MaxFaults \in Nat /\ MaxCrashes \in Nat
    /\ None \notin Revisions /\ Final \notin Revisions \cup {None}
    /\ Call \notin Workers \cup Rollers /\ Workers \cap Rollers = {}

VARIABLES
    job,       \* the row of import_jobs
    asset,     \* the row of managed_assets: path and the revision of its key
    stage,     \* staged databases on disk
    final,     \* the revision at the final path
    trash,     \* the revision under the name a deletion has staged it
    source,    \* the source that the job row names is there
    stray,     \* directories of sources that no row names
    row,       \* the service has a row in the catalog
    deletion,  \* the deletion of the service
    server,    \* down, booting or up
    mu,        \* holder of claimMu
    active,    \* Manager.active
    pc,        \* what each worker and request is at
    work,      \* the revision a worker stages, then the path it supersedes
    watch,     \* running finishRollback goroutines
    held,      \* the asset row as a publication has read it
    gone,      \* requests whose client has disconnected
    asked,     \* history: a cancellation was accepted
    odd,       \* history: what the code does not guard against
    faults, crashes

durable == <<job, asset, stage, final, trash, source, stray, row, deletion>>
memory == <<server, mu, active, pc, work, watch, held, gone>>
vars == <<durable, memory, asked, odd, faults, crashes>>

Actors == Workers \cup Rollers \cup {Call}
Statuses == {"queued", "running", "awaiting_plan", "ready_to_publish", "publishing", "published",
             "cancelling", "cancelled", "failed", "rolling_back", "rolled_back"}
NoAsset == [path |-> None, key |-> None]

Init ==
    /\ \E local, remote, zip \in BOOLEAN :  \* outside the temporary directory, not downloaded, an archive
          /\ remote => local
          /\ job = [status |-> "queued", rollback |-> FALSE, cancel |-> FALSE, discovered |-> FALSE,
                    plan |-> FALSE, service |-> FALSE, op |-> FALSE, retries |-> 0,
                    local |-> local, remote |-> remote, zip |-> zip]
    /\ asset = NoAsset /\ stage = {} /\ final = None /\ trash = None
    /\ source = TRUE /\ stray = {} /\ row = FALSE /\ deletion = "none"
    /\ server = "up" /\ mu = None /\ active = FALSE
    /\ pc = [a \in Actors |-> "idle"] /\ work = [w \in Workers |-> None]
    /\ watch = 0 /\ held = NoAsset /\ gone = {}
    /\ asked = FALSE /\ odd = {} /\ faults = 0 /\ crashes = 0

Goto(a, p) == pc' = [pc EXCEPT ![a] = p]

Faults(n) == faults + n <= MaxFaults /\ faults' = faults + n
Fault == Faults(1)

(* UpdateImportJob refuses to move a job away from a requested cancellation. *)
Writable == ~job.cancel

(* fail stores that the job has failed; an error of that is dropped. *)
StoreFailed ==
    \/ job' = [job EXCEPT !.status = "failed"] /\ UNCHANGED faults
    \/ Fault /\ UNCHANGED job

Idle(a) == pc[a] = "idle"

-----------------------------------------------------------------------------
(* Requests that are one statement under claimMu *)

Free == server = "up" /\ mu = None

SetPlan ==
    /\ Free /\ Writable
    /\ job.status \in {"awaiting_plan", "ready_to_publish", "failed"}
    /\ ~job.service /\ ~job.rollback
    /\ job.discovered /\ source
    /\ job' = [job EXCEPT !.status = "queued", !.plan = TRUE]
    /\ UNCHANGED <<asset, stage, final, trash, source, stray, row, deletion, memory, asked, odd, faults, crashes>>

(* Retry of a rollback whose deletion is known: the deletion, then the job. *)
RetryRollback ==
    /\ Free /\ Writable
    /\ job.status = "failed" /\ job.retries < MaxRetries
    /\ job.rollback /\ job.op
    /\ deletion' = IF deletion = "completed" THEN deletion ELSE "running"
    /\ \/ /\ job' = [job EXCEPT !.status = "rolling_back", !.retries = @ + 1]
          /\ watch' = watch + 1
          /\ UNCHANGED faults
       \/ Fault /\ UNCHANGED <<job, watch>>
    /\ UNCHANGED <<asset, stage, final, trash, source, stray, row, server, mu, active, pc, work, gone,
                   held, asked, odd, crashes>>

(* Any other failed job is queued again, whatever it failed at. *)
Retry ==
    /\ Free /\ Writable
    /\ job.status = "failed" /\ job.retries < MaxRetries
    /\ ~(job.rollback /\ job.op)
    /\ job' = [job EXCEPT !.status = "queued", !.retries = @ + 1]
    /\ odd' = IF job.service THEN odd \cup {"rollback retried"} ELSE odd
    /\ UNCHANGED <<asset, stage, final, trash, source, stray, row, deletion, memory, asked, faults, crashes>>

(* Cancel cleans up at once unless a worker has the job. *)
Cancel ==
    /\ Free
    /\ ~job.service /\ ~job.rollback
    /\ job.status \in {"queued", "running", "cancelling", "awaiting_plan", "ready_to_publish",
                       "failed", "cancelled"}
    /\ job' = [job EXCEPT !.status = "cancelling", !.cancel = TRUE]
    /\ asked' = TRUE
    /\ IF job.status = "running" \/ (job.status = "cancelling" /\ active)
       THEN UNCHANGED <<mu, pc>>
       ELSE mu' = Call /\ Goto(Call, "clean source")
    /\ UNCHANGED <<asset, stage, final, trash, source, stray, row, deletion, server, active, work, watch,
                   gone, odd, faults, held, crashes>>

-----------------------------------------------------------------------------
(* cleanupCancelled, by a worker, a request or the recovery *)

(* What follows a cleanup: the recovery stops the startup when it failed.   *)
Leave(a, failed) ==
    /\ Goto(a, IF a \in Workers THEN "leaving" ELSE "idle")
    /\ mu' = IF a = Call THEN None ELSE mu
    /\ server' = IF a = Call /\ server = "booting" /\ failed THEN "down" ELSE server
    /\ gone' = gone \ {a}

CleanFails(a) ==
    /\ pc[a] \in {"clean source", "clean files", "clean row", "clean status"}
    /\ Fault
    /\ Leave(a, TRUE)
    /\ odd' = odd \cup {"clean-up failed"}
    /\ UNCHANGED <<durable, active, work, watch, held, asked, crashes>>

CleanSource(a) ==
    /\ pc[a] = "clean source"
    /\ IF job.service
       THEN Leave(a, TRUE) /\ UNCHANGED source
       ELSE /\ source' = (source /\ job.local) /\ Goto(a, "clean files")
            /\ UNCHANGED <<mu, server, gone>>
    /\ UNCHANGED <<job, asset, stage, final, trash, stray, row, deletion, active, work, watch, held, asked, odd,
                   faults, crashes>>

(* Mutant: only the selected database is removed. *)
CleanFilesSelected(a) ==
    /\ pc[a] = "clean files"
    /\ stage' = stage \ {asset.path} /\ final' = IF asset.path = Final THEN None ELSE final
    /\ Goto(a, "clean row")
    /\ UNCHANGED <<job, asset, trash, source, stray, row, deletion, server, mu, active, work, watch, gone,
                   held, asked, odd, faults, crashes>>

(* The asset's file, the final path and every staged revision. *)
CleanFiles(a) ==
    /\ pc[a] = "clean files"
    /\ stage' = {} /\ final' = None
    /\ Goto(a, "clean row")
    /\ UNCHANGED <<job, asset, trash, source, stray, row, deletion, server, mu, active, work, watch, gone,
                   held, asked, odd, faults, crashes>>

CleanRow(a) ==
    /\ pc[a] = "clean row"
    /\ asset' = NoAsset
    /\ Goto(a, "clean status")
    /\ UNCHANGED <<job, stage, final, trash, source, stray, row, deletion, server, mu, active, work, watch,
                   gone, held, asked, odd, faults, crashes>>

CleanStatus(a) ==
    /\ pc[a] = "clean status"
    /\ job' = [job EXCEPT !.status = "cancelled"]
    /\ Leave(a, FALSE)
    /\ UNCHANGED <<asset, stage, final, trash, source, stray, row, deletion, active, work, watch, held, asked,
                   odd, faults, crashes>>

Clean(a) == CleanSource(a) \/ CleanFiles(a) \/ CleanRow(a) \/ CleanStatus(a) \/ CleanFails(a)

-----------------------------------------------------------------------------
(* The workers *)

(* A job that is queued again after its discovery has a plan, since only    *)
(* SetPlan and Cancel take it out of awaiting_plan: run's branch for one    *)
(* that has none is never taken.                                            *)
Claim(w) ==
    /\ Free /\ Idle(w) /\ Writable
    /\ job.status = "queued"
    /\ job' = [job EXCEPT !.status = "running"]
    /\ active' = TRUE
    /\ Goto(w, IF job.discovered THEN "transform" ELSE "acquire")
    /\ UNCHANGED <<asset, stage, final, trash, source, stray, row, deletion, server, mu, work, watch, gone,
                   held, asked, odd, faults, crashes>>

(* discover downloads a remote source into a directory of its own; the row  *)
(* names it after that.                                                     *)
AdoptRemote(w) ==
    /\ pc[w] = "acquire" /\ job.remote
    /\ Goto(w, "adopted")
    /\ UNCHANGED <<durable, server, mu, active, work, watch, gone, held, asked, odd, faults, crashes>>

StoreAdopted(w) ==
    /\ pc[w] = "adopted"
    /\ job' = [job EXCEPT !.remote = FALSE, !.local = FALSE]
    /\ Goto(w, "acquire")
    /\ UNCHANGED <<asset, stage, final, trash, source, stray, row, deletion, server, mu, active, work,
                   watch, gone, held, asked, odd, faults, crashes>>

(* An archive is extracted into the directory named after the job, in place *)
(* of one that an earlier discovery left.                                   *)
Extract(w) ==
    /\ pc[w] = "acquire" /\ ~job.remote /\ job.zip /\ source
    /\ stray' = stray \ {"extract"}
    /\ Goto(w, "extracted")
    /\ UNCHANGED <<job, asset, stage, final, trash, source, row, deletion, server, mu, active, work,
                   watch, gone, held, asked, odd, faults, crashes>>

(* The row names the extracted source; the archive goes after that, if it   *)
(* is in the temporary directory.                                           *)
StoreExtracted(w) ==
    /\ pc[w] = "extracted"
    /\ job' = [job EXCEPT !.zip = FALSE, !.local = FALSE]
    /\ Goto(w, IF job.local THEN "discover" ELSE "unpacked")
    /\ UNCHANGED <<asset, stage, final, trash, source, stray, row, deletion, server, mu, active, work,
                   watch, gone, held, asked, odd, faults, crashes>>

RemoveArchive(w) ==
    /\ pc[w] = "unpacked"
    /\ Goto(w, "discover")
    /\ UNCHANGED <<durable, server, mu, active, work, watch, gone, held, asked, odd, faults, crashes>>

(* The directory a worker has made and not stored yet, or stored and not    *)
(* removed.                                                                 *)
Unnamed(w) ==
    CASE pc[w] \in {"adopted", "unpacked"} -> {"upload"}
      [] pc[w] = "extracted"               -> {"extract"}
      [] OTHER                             -> {}

(* A download or extraction that fails is removed again; when the update of *)
(* the row or the removal of the archive fails, the directory stays.        *)
AcquireFails(w) ==
    /\ Unnamed(w) # {}
    /\ \/ pc[w] # "unpacked" /\ UNCHANGED <<stray, faults>>
       \/ Fault /\ stray' = stray \cup Unnamed(w)
    /\ Goto(w, "erred")
    /\ UNCHANGED <<job, asset, stage, final, trash, source, row, deletion, server, mu, active, work,
                   watch, gone, held, asked, odd, crashes>>

(* discover ends under claimMu; the source may be unusable at any point. *)
Discover(w) ==
    /\ pc[w] \in {"acquire", "discover"} /\ ~job.remote /\ ~job.zip
    /\ Free /\ source /\ Writable
    /\ job' = [job EXCEPT !.status = "awaiting_plan", !.discovered = TRUE, !.rollback = FALSE]
    /\ Goto(w, "ended")
    /\ UNCHANGED <<asset, stage, final, trash, source, stray, row, deletion, server, mu, active, work,
                   watch, gone, held, asked, odd, faults, crashes>>

(* transform writes its phase, if it can, and opens a database of a new name. *)
Transform(w, r) ==
    /\ pc[w] = "transform"
    /\ r \notin stage \cup {asset.path, asset.key, final, trash}
    /\ \A v \in Workers : work[v] # r
    /\ \/ job' = [job EXCEPT !.rollback = FALSE] /\ UNCHANGED faults
       \/ job.rollback /\ Fault /\ UNCHANGED job
    /\ stage' = stage \cup {r}
    /\ work' = [work EXCEPT ![w] = r]
    /\ Goto(w, "staged")
    /\ UNCHANGED <<asset, final, trash, source, stray, row, deletion, server, mu, active, watch, gone,
                   held, asked, odd, crashes>>

(* A discovery or transformation that failed, or saw the cancellation. *)
RunFails(w) ==
    /\ pc[w] \in {"acquire", "discover", "transform", "staged"}
    /\ \/ stage' = stage \ {work[w]} /\ UNCHANGED faults
       \/ Fault /\ pc[w] = "staged" /\ UNCHANGED stage
    /\ work' = [work EXCEPT ![w] = None]
    /\ Goto(w, "erred")
    /\ UNCHANGED <<job, asset, final, trash, source, stray, row, deletion, server, mu, active, watch, gone,
                   held, asked, odd, crashes>>

(* Mutant: the superseded revision is looked up after the selection. *)
SelectLate(w) ==
    /\ pc[w] = "staged" /\ Free /\ source
    /\ job.status \in {"running", "queued"} /\ ~job.cancel
    /\ job' = [job EXCEPT !.status = "ready_to_publish", !.rollback = FALSE]
    /\ asset' = [path |-> work[w], key |-> work[w]]
    /\ mu' = w
    /\ Goto(w, "selected")
    /\ UNCHANGED <<stage, final, trash, source, stray, row, deletion, server, active, work, watch, gone,
                   held, asked, odd, faults, crashes>>

(* CompleteImportTransform selects the database and its key. *)
Select(w) ==
    /\ pc[w] = "staged" /\ Free /\ source
    /\ job.status \in {"running", "queued"} /\ ~job.cancel
    /\ job' = [job EXCEPT !.status = "ready_to_publish", !.rollback = FALSE]
    /\ asset' = [path |-> work[w], key |-> work[w]]
    /\ work' = [work EXCEPT ![w] = asset.path]
    /\ mu' = w
    /\ Goto(w, "selected")
    /\ UNCHANGED <<stage, final, trash, source, stray, row, deletion, server, active, watch, gone, held, asked,
                   odd, faults, crashes>>

(* The superseded database is removed, or a failure is logged. *)
Supersede(w) ==
    /\ pc[w] = "selected"
    /\ \/ /\ stage' = stage \ {work[w]}
          /\ final' = IF work[w] = Final THEN None ELSE final
          /\ UNCHANGED faults
       \/ Fault /\ work[w] # None /\ UNCHANGED <<stage, final>>
    /\ work' = [work EXCEPT ![w] = None]
    /\ mu' = None
    /\ Goto(w, "ended")
    /\ UNCHANGED <<job, asset, trash, source, stray, row, deletion, server, active, watch, gone, held, asked,
                   odd, crashes>>

(* run looks once more for a cancellation; a failing look sees none. *)
Ended(w) ==
    /\ pc[w] = "ended"
    /\ \/ Goto(w, IF job.cancel THEN "erred" ELSE "leaving") /\ UNCHANGED faults
       \/ job.cancel /\ Fault /\ Goto(w, "leaving")
    /\ UNCHANGED <<durable, server, mu, active, work, watch, gone, held, asked, odd, crashes>>

(* fail: a cancelled job is cleaned, any other is failed. *)
Erred(w) ==
    /\ pc[w] = "erred"
    /\ IF job.cancel
       THEN Goto(w, "clean source") /\ UNCHANGED <<job, faults>>
       ELSE Goto(w, "leaving") /\ StoreFailed
    /\ UNCHANGED <<asset, stage, final, trash, source, stray, row, deletion, server, mu, active, work,
                   watch, gone, held, asked, odd, crashes>>

Leaving(w) ==
    /\ pc[w] = "leaving" /\ mu = None
    /\ active' = FALSE
    /\ Goto(w, "idle")
    /\ UNCHANGED <<durable, server, mu, work, watch, gone, held, asked, odd, faults, crashes>>

Work(w) ==
    \/ Claim(w) \/ AdoptRemote(w) \/ StoreAdopted(w) \/ Extract(w) \/ StoreExtracted(w)
    \/ RemoveArchive(w) \/ AcquireFails(w) \/ Discover(w) \/ RunFails(w) \/ Select(w) \/ Supersede(w)
    \/ Ended(w) \/ Erred(w) \/ Leaving(w) \/ Clean(w)
    \/ \E r \in Revisions : Transform(w, r)

-----------------------------------------------------------------------------
(* Publish, and the publication that the recovery resumes *)

Publish ==
    /\ Free /\ Writable
    /\ job.status = "ready_to_publish" /\ job.plan
    /\ job' = [job EXCEPT !.status = "publishing", !.rollback = FALSE]
    /\ mu' = Call /\ Goto(Call, "promote")
    /\ UNCHANGED <<asset, stage, final, trash, source, stray, row, deletion, server, active, work, watch,
                   gone, held, asked, odd, faults, crashes>>

(* The database moves to its final path, unless an interrupted publication  *)
(* moved it.                                                                *)
Promotable == asset.path \in stage \cup {Final} \/ (asset.path # None /\ final # None)

Promote ==
    /\ pc[Call] = "promote" /\ Call \notin gone /\ Promotable
    /\ held' = asset
    /\ stage' = stage \ {asset.path}
    /\ final' = IF asset.path \in stage THEN asset.path ELSE final
    /\ Goto(Call, "insert")
    /\ UNCHANGED <<job, asset, trash, source, stray, row, deletion, server, mu, active, work, watch, gone,
                   asked, odd, faults, crashes>>

PromoteFails ==
    /\ pc[Call] = "promote"
    /\ IF Call \in gone \/ ~Promotable THEN UNCHANGED faults ELSE Fault
    /\ Goto(Call, "publish failed")
    /\ UNCHANGED <<durable, server, mu, active, work, watch, gone, held, asked, odd, crashes>>

(* Mutant: the asset row keeps the path of the staged database. *)
PublishImportStaged ==
    /\ pc[Call] = "insert" /\ Call \notin gone
    /\ ~job.service
    /\ row' = TRUE
    /\ asset' = held
    /\ job' = [job EXCEPT !.status = "published", !.service = TRUE]
    /\ Goto(Call, "tidy")
    /\ UNCHANGED <<stage, final, trash, source, stray, deletion, server, mu, active, work, watch, gone,
                   held, asked, odd, faults, crashes>>

(* PublishImport: service, asset and job in one transaction. *)
PublishImport ==
    /\ pc[Call] = "insert" /\ Call \notin gone
    /\ ~job.service           \* bound: an import is published once
    /\ row' = TRUE
    /\ asset' = [held EXCEPT !.path = Final]
    /\ job' = [job EXCEPT !.status = "published", !.service = TRUE]
    /\ Goto(Call, "tidy")
    /\ UNCHANGED <<stage, final, trash, source, stray, deletion, server, mu, active, work, watch, gone,
                   held, asked, odd, faults, crashes>>

(* The service's name is taken, or the client is gone. *)
PublishRefused ==
    /\ pc[Call] = "insert"
    /\ Goto(Call, "demote")
    /\ UNCHANGED <<durable, server, mu, active, work, watch, gone, held, asked, odd, faults, crashes>>

(* The database moves back; an error of that is ignored. *)
Demote ==
    /\ pc[Call] = "demote"
    /\ \/ held.path = Final /\ UNCHANGED <<stage, final, faults>>
       \/ /\ held.path # Final
          /\ stage' = IF final = None THEN stage ELSE stage \cup {held.path}
          /\ final' = None
          /\ UNCHANGED faults
       \/ held.path # Final /\ Fault /\ UNCHANGED <<stage, final>>
    /\ Goto(Call, "publish failed")
    /\ UNCHANGED <<job, asset, trash, source, stray, row, deletion, server, mu, active, work, watch, gone,
                   held, asked, odd, crashes>>

(* fail, with the context of the request: when the client is gone the       *)
(* statement is refused with context.Canceled, which fail takes for a       *)
(* cancelled import.                                                        *)
PublishFailed ==
    /\ pc[Call] = "publish failed"
    /\ held' = NoAsset
    /\ IF Call \in gone
       THEN /\ Goto(Call, "clean source")
            /\ odd' = odd \cup {"client gone"}
            /\ UNCHANGED <<job, mu, faults>>
       ELSE /\ StoreFailed
            /\ Goto(Call, "idle") /\ mu' = None
            /\ UNCHANGED odd
    /\ UNCHANGED <<asset, stage, final, trash, source, stray, row, deletion, server, active, work, watch,
                   gone, asked, crashes>>

(* The retained source goes, or stays until the next start. *)
Tidy ==
    /\ pc[Call] = "tidy"
    /\ \/ source' = (source /\ job.local) /\ UNCHANGED faults
       \/ Fault /\ UNCHANGED source
    /\ Goto(Call, "idle") /\ mu' = None /\ gone' = gone \ {Call} /\ held' = NoAsset
    /\ UNCHANGED <<job, asset, stage, final, trash, stray, row, deletion, server, active, work, watch,
                   asked, odd, crashes>>

Serve ==
    \/ Promote \/ PromoteFails \/ PublishImport \/ PublishRefused \/ Demote \/ PublishFailed \/ Tidy
    \/ Clean(Call)

(* The client of a publication or a rollback disconnects. *)
Disconnect(a) ==
    /\ server = "up" /\ a \notin gone
    /\ pc[a] \in {"promote", "insert", "tidy", "delete", "store"}
    /\ Fault
    /\ gone' = gone \cup {a}
    /\ UNCHANGED <<durable, server, mu, active, pc, work, watch, held, asked, odd, crashes>>

-----------------------------------------------------------------------------
(* Rollback, which takes no mutex *)

RollbackRead(a) ==
    /\ server = "up" /\ Idle(a)
    /\ job.status = "published"
    /\ Goto(a, "roll")
    /\ UNCHANGED <<durable, server, mu, active, work, watch, gone, held, asked, odd, faults, crashes>>

RollbackBegin(a) ==
    /\ pc[a] = "roll"
    /\ job' = [job EXCEPT !.status = "rolling_back", !.rollback = TRUE]
    /\ Goto(a, "delete")
    /\ UNCHANGED <<asset, stage, final, trash, source, stray, row, deletion, server, mu, active, work,
                   watch, gone, held, asked, odd, faults, crashes>>

(* DeleteService finds only a service that is not being deleted. *)
DeleteService(a) ==
    /\ pc[a] = "delete" /\ row /\ deletion = "none"
    /\ deletion' = "running"
    /\ Goto(a, "store")
    /\ UNCHANGED <<job, asset, stage, final, trash, source, stray, row, server, mu, active, work, watch,
                   gone, held, asked, odd, faults, crashes>>

DeleteServiceFails(a) ==
    /\ pc[a] = "delete"
    /\ LET errors == IF row /\ deletion = "none" THEN 1 ELSE 0
       IN  \/ Faults(errors) /\ a \notin gone /\ job' = [job EXCEPT !.status = "failed"]
           \/ Faults(errors) /\ a \in gone /\ UNCHANGED job
           \/ Faults(errors + 1) /\ UNCHANGED job
    /\ Goto(a, "idle") /\ gone' = gone \ {a}
    /\ UNCHANGED <<asset, stage, final, trash, source, stray, row, deletion, server, mu, active, work,
                   watch, held, asked, odd, crashes>>

StoreOperation(a) ==
    /\ pc[a] = "store"
    /\ \/ /\ a \notin gone
          /\ job' = [job EXCEPT !.op = TRUE] /\ watch' = watch + 1 /\ UNCHANGED faults
       \/ a \in gone /\ UNCHANGED <<job, watch, faults>>
       \/ /\ a \notin gone /\ Fault
          /\ job' = IF server = "booting" THEN [job EXCEPT !.status = "failed"] ELSE job
          /\ UNCHANGED watch
    /\ Goto(a, "idle") /\ gone' = gone \ {a}
    /\ UNCHANGED <<asset, stage, final, trash, source, stray, row, deletion, server, mu, active, work,
                   held, asked, odd, crashes>>

Rollback(a) == RollbackBegin(a) \/ DeleteService(a) \/ DeleteServiceFails(a) \/ StoreOperation(a)

-----------------------------------------------------------------------------
(* The deletion of the service, which CatalogDeletion models step by step *)

Lives == server # "down"

(* A deletion that does not come from a rollback. *)
DirectDelete ==
    /\ server = "up" /\ row /\ deletion = "none"
    /\ deletion' = "running"
    /\ UNCHANGED <<job, asset, stage, final, trash, source, stray, row, memory, asked, odd, faults, crashes>>

OperatorRetry ==
    /\ server = "up" /\ deletion = "failed"
    /\ deletion' = "running"
    /\ UNCHANGED <<job, asset, stage, final, trash, source, stray, row, memory, asked, odd, faults, crashes>>

(* stageManagedImports renames the file of the asset row. *)
AtPath == IF asset.path = Final THEN final ELSE IF asset.path \in stage THEN asset.path ELSE None

DeletionStages ==
    /\ Lives /\ deletion = "running" /\ row /\ trash = None /\ AtPath # None
    /\ trash' = AtPath
    /\ stage' = stage \ {asset.path}
    /\ final' = IF asset.path = Final THEN None ELSE final
    /\ UNCHANGED <<job, asset, source, stray, row, deletion, memory, asked, odd, faults, crashes>>

DeletionCommits ==
    /\ Lives /\ deletion = "running" /\ row
    /\ trash # None \/ asset = NoAsset
    /\ row' = FALSE
    /\ UNCHANGED <<job, asset, stage, final, trash, source, stray, deletion, memory, asked, odd, faults, crashes>>

DeletionCompletes ==
    /\ Lives /\ deletion = "running" /\ ~row
    /\ trash' = None /\ asset' = NoAsset /\ deletion' = "completed"
    /\ UNCHANGED <<job, stage, final, source, stray, row, memory, asked, odd, faults, crashes>>

(* Before the commit the file is put back. *)
DeletionFails ==
    /\ Lives /\ deletion = "running"
    /\ IF row /\ trash = None /\ asset # NoAsset /\ AtPath = None THEN UNCHANGED faults ELSE Fault
    /\ deletion' = "failed"
    /\ IF row /\ trash # None
       THEN /\ trash' = None
            /\ final' = IF asset.path = Final THEN trash ELSE final
            /\ stage' = IF asset.path = Final THEN stage ELSE stage \cup {asset.path}
       ELSE UNCHANGED <<trash, final, stage>>
    /\ UNCHANGED <<job, asset, source, stray, row, memory, asked, odd, crashes>>

Delete == DeletionStages \/ DeletionCommits \/ DeletionCompletes \/ DeletionFails

(* finishRollback polls the deletion until it has ended; what it stores    *)
(* then may fail to be stored.                                              *)
FinishRollback ==
    /\ Lives /\ watch > 0 /\ deletion \in {"completed", "failed"}
    /\ watch' = watch - 1
    /\ \/ ~Writable /\ UNCHANGED <<job, faults>>
       \/ /\ Writable /\ deletion = "completed"
          /\ job' = [job EXCEPT !.status = "rolled_back", !.rollback = TRUE] /\ UNCHANGED faults
       \/ Writable /\ deletion = "completed" /\ Fault /\ UNCHANGED job
       \/ Writable /\ deletion = "failed" /\ StoreFailed
    /\ UNCHANGED <<asset, stage, final, trash, source, stray, row, deletion, server, mu, active, pc, work,
                   gone, held, asked, odd, crashes>>

-----------------------------------------------------------------------------
(* Crash and startup *)

Crash ==
    /\ Lives /\ crashes < MaxCrashes
    /\ crashes' = crashes + 1
    /\ server' = "down" /\ mu' = None /\ active' = FALSE
    /\ pc' = [a \in Actors |-> "idle"] /\ work' = [w \in Workers |-> None]
    /\ watch' = 0 /\ held' = NoAsset /\ gone' = {}
    /\ stray' = stray \cup UNION {Unnamed(w) : w \in Workers}
    /\ UNCHANGED <<job, asset, stage, final, trash, source, row, deletion, asked, odd, faults>>

(* ReconcileManagedPaths *)
Reconciled ==
    IF asset = NoAsset THEN asset
    ELSE IF /\ job.status \in {"published", "publishing", "rolling_back"}
            /\ final # None \/ (job.op /\ trash # None)
         THEN [asset EXCEPT !.path = Final]
    ELSE IF asset.path \in stage THEN asset
    ELSE IF final # None THEN [asset EXCEPT !.path = Final]
    ELSE asset

(* Mutant: an interrupted rollback is left alone. *)
RecoverNothing ==
    CASE job.status \in {"cancelling", "cancelled"} -> Goto(Call, "clean source") /\ mu' = Call
      [] job.status = "running" /\ job.cancel -> Goto(Call, "clean source") /\ mu' = Call
      [] job.status = "publishing" -> Goto(Call, "promote") /\ mu' = Call
      [] OTHER -> UNCHANGED <<pc, mu>>

(* recoverInterrupted: what the startup resumes, after the reset. *)
RecoverInterrupted ==
    CASE job.status \in {"cancelling", "cancelled"} -> Goto(Call, "clean source") /\ mu' = Call
      [] job.status = "running" /\ job.cancel -> Goto(Call, "clean source") /\ mu' = Call
      [] job.status = "publishing" -> Goto(Call, "promote") /\ mu' = Call
      [] job.status = "rolling_back" /\ ~job.op ->
            /\ Goto(CHOOSE a \in Rollers : TRUE, IF deletion = "none" THEN "delete" ELSE "store")
            /\ UNCHANGED mu
      [] OTHER -> UNCHANGED <<pc, mu>>

(* ReconcileManagedPaths, ResetInterruptedImportJobs and the beginning of   *)
(* recoverInterrupted.                                                      *)
Boot ==
    /\ server = "down"
    /\ server' = "booting"
    /\ asset' = Reconciled
    /\ odd' = (odd \ {"clean-up failed"}) \cup
              IF asset.path \in stage /\ Reconciled # asset THEN {"leftover"} ELSE {}
    /\ job' = IF job.status # "running" THEN job
              ELSE [job EXCEPT !.status = IF job.cancel THEN "cancelling" ELSE "queued"]
    /\ \/ source' = (source /\ (job.local \/ job.status # "published")) /\ UNCHANGED faults
       \/ Fault /\ job.status = "published" /\ UNCHANGED source
    /\ watch' = IF job.status = "rolling_back" /\ job.op THEN 1 ELSE 0
    /\ RecoverInterrupted
    /\ UNCHANGED <<stage, final, trash, stray, row, deletion, active, work, gone, held, asked, crashes>>

(* cleanupAbandonedRevisions; then the workers start. *)
BootDone ==
    /\ server = "booting" /\ \A a \in Actors : Idle(a)
    /\ server' = "up"
    /\ stage' = stage \cap {asset.path}
    /\ UNCHANGED <<job, asset, final, trash, source, stray, row, deletion, mu, active, pc, work, watch,
                   gone, held, asked, odd, faults, crashes>>

Next ==
    \/ SetPlan \/ Retry \/ RetryRollback \/ Cancel \/ Publish \/ DirectDelete \/ OperatorRetry
    \/ \E w \in Workers : Work(w)
    \/ Serve
    \/ \E a \in Actors : Disconnect(a)
    \/ \E a \in Rollers : RollbackRead(a) \/ Rollback(a)
    \/ Delete \/ FinishRollback
    \/ Crash \/ Boot \/ BootDone

Spec == Init /\ [][Next]_vars

(* Goroutines run, requests run to their end, a server that is down is      *)
(* started; nobody has to make a request.                                   *)
Fairness ==
    /\ \A w \in Workers : WF_vars(Work(w))
    /\ WF_vars(Serve)
    /\ \A a \in Rollers : WF_vars(Rollback(a))
    /\ WF_vars(Delete) /\ WF_vars(FinishRollback)
    /\ WF_vars(Boot) /\ WF_vars(BootDone)

FairSpec == Spec /\ Fairness

-----------------------------------------------------------------------------
(* Properties *)

TypeOK ==
    /\ job \in [status : Statuses, rollback : BOOLEAN, cancel : BOOLEAN, discovered : BOOLEAN,
                plan : BOOLEAN, service : BOOLEAN, op : BOOLEAN, retries : 0..MaxRetries,
                local : BOOLEAN, remote : BOOLEAN, zip : BOOLEAN]
    /\ asset \in [path : Revisions \cup {Final, None}, key : Revisions \cup {None}]
    /\ stage \subseteq Revisions
    /\ final \in Revisions \cup {None} /\ trash \in Revisions \cup {None}
    /\ source \in BOOLEAN /\ stray \subseteq {"upload", "extract"} /\ row \in BOOLEAN
    /\ deletion \in {"none", "running", "failed", "completed"}
    /\ server \in {"down", "booting", "up"}
    /\ mu \in Workers \cup {Call, None}
    /\ work \in [Workers -> Revisions \cup {Final, None}]
    /\ held \in [path : Revisions \cup {Final, None}, key : Revisions \cup {None}]
    /\ watch \in Nat /\ gone \subseteq Actors

(* The revision whose key the asset row holds is on disk. *)
Kept == asset.key \in stage \cup {final, trash}

(* A service that no deletion has hidden is served from the final path, and *)
(* the file there is the revision whose key PublishImport stored: through   *)
(* interrupted publications, rollbacks and restarts.  Two paths through the *)
(* code do not keep it and are named in odd: Retry queues a job whose       *)
(* rollback failed before its deletion was known, and the transformation    *)
(* then removes the published file as superseded; and a publication         *)
(* interrupted before its rename beside an old final file.                  *)
ServedFileKept ==
    (row /\ deletion = "none" /\ odd \subseteq {"client gone", "clean-up failed"}) =>
        (asset.path = Final /\ final = asset.key)

(* The revision that CompleteImportTransform selected is never lost: it     *)
(* goes only with a cancellation that somebody asked for, or behind the     *)
(* commit of a deletion.  Besides the two paths above, fail takes the       *)
(* context error of a publication whose client disconnected for a           *)
(* cancellation.                                                            *)
SelectedRevisionKept ==
    (asset # NoAsset /\ ~asked /\ odd \subseteq {"clean-up failed"}) => (Kept \/ (job.service /\ ~row))

Processing == \E a \in Workers \cup {Call} : pc[a] # "idle"

(* Once nobody works on a cancelled import, its databases, its asset row    *)
(* and the source its row names are gone, whoever ran cleanupCancelled,     *)
(* however often a crash interrupted it and whatever a worker staged or     *)
(* downloaded beside it, unless a clean-up has failed since the last start. *)
(* A directory of the source that the row does not name stays only after a  *)
(* crash or a failing step: discover was interrupted between making or      *)
(* replacing it and the update of the row, and nothing removes it then.     *)
CancelledLeavesNothing ==
    (job.status = "cancelled" /\ server = "up" /\ ~Processing /\ "clean-up failed" \notin odd) =>
        /\ stage = {} /\ final = None /\ asset = NoAsset
        /\ source => job.local
        /\ stray # {} => crashes + faults > 0

Resting == {"awaiting_plan", "ready_to_publish", "published", "cancelled", "failed", "rolled_back"}

(* What only a restart moves on: a fault stopped the goroutine in charge,   *)
(* or what it had to store last was not stored.                             *)
Stranded ==
    /\ faults > 0
    /\ job.status \in {"running", "cancelling", "publishing", "rolling_back"}
    /\ watch = 0 /\ \A a \in Actors : Idle(a)

(* An import comes to rest again and again: what is queued is claimed, and  *)
(* the startup resumes every publication, cancellation and rollback that a  *)
(* crash interrupted.  A failing step may strand it with no goroutine in    *)
(* charge, since fail and finishRollback drop the error of their update.    *)
ImportSettles == []<>(server = "up" /\ (job.status \in Resting \/ Stranded))

=============================================================================
