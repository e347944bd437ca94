--------------------------- MODULE CatalogDeletion ---------------------------
(***************************************************************************)
(* Recursive deletion of a workspace or of one of its services:             *)
(* internal/cataloglifecycle/coordinator.go and assets.go over the durable  *)
(* operations of internal/store/store_deletion.go, with the publication of  *)
(* managed imports that runs beside it.  The catalog, the auxiliary stores  *)
(* and the files survive a crash; calls, executions and the registry do     *)
(* not.  An operation is named after the DELETE call that created it.       *)
(***************************************************************************)
EXTENDS Integers, FiniteSets

CONSTANTS
    Services,     \* services of the workspace, each made by an import
    Workspace,    \* the workspace
    Published,    \* services that are published from the start
    Calls,        \* DELETE ...?recurse=true requests
    None,
    Traffic,      \* services with tile requests
    Alone,        \* bound: calls made on their own, beside tile requests and racing retries
    MaxRaces,     \* bound: retries of an operation that is being executed
    MaxFailures,  \* bound: failed steps
    MaxCrashes    \* bound: restarts of the server

Targets == Services \cup {Workspace}

Phases == {"planned", "tombstoned", "jobs_quiesced", "auxiliary_state_removed",
           "catalog_committed", "runtime_cleared", "completed"}

ASSUME DeletionAssumption ==
    /\ Workspace \notin Services /\ None \notin Targets \cup Calls \cup Phases
    /\ Published \subseteq Services /\ Traffic \subseteq Services
    /\ Alone \subseteq Calls /\ MaxRaces \in Nat
    /\ Calls \cap {"path", "gone"} = {}
    /\ MaxFailures \in Nat /\ MaxCrashes \in Nat

VARIABLES
    rows,      \* targets with a row in the catalog
    ops,       \* catalog_deletions
    live,      \* targets in the runtime registry
    quiesced,  \* services the registry refuses to refresh
    assets,    \* services with a managed_assets row
    files,     \* where a service's managed file is: path, an operation's staged name, gone
    styles,    \* the same of the workspace's style assets
    aux,       \* services with tile, mosaic or STAC state
    call,      \* DELETE requests in progress
    ex,        \* executions in progress
    retry,     \* the phase an operator's retry has read
    publish,   \* publication of a service in progress
    request,   \* services whose tiles a request in flight renders
    failures, crashes, races

durable == <<rows, ops, assets, files, styles, aux>>
memory == <<live, quiesced, call, ex, retry, publish, request>>
vars == <<durable, memory, failures, crashes, races>>

NoOp == [target |-> None, status |-> "none", phase |-> "planned", services |-> {}]
NoCall == [pc |-> "idle", target |-> None, services |-> {}, op |-> None]
Idle == [pc |-> "idle", committed |-> FALSE, todo |-> {}, listed |-> {}]

(* Mutant: a failed operation gives its target up. *)
ActiveUnfailed(o) == ops[o].status \in {"pending", "running"}

Active(o) == ops[o].status \in {"pending", "running", "failed"}

Deleting(t) == \E o \in Calls : Active(o) /\ ops[o].target = t

(* GetWorkspace and GetService leave tombstoned targets out. *)
Visible(t) == t \in rows /\ ~Deleting(t) /\ ~(t \in Services /\ Deleting(Workspace))

(* CreateWorkspace refuses a name that is unique among the workspace rows.  *)
NameTaken == Workspace \in rows

(* What the registry still serves: a service only with its workspace. *)
Served == {t \in live : t = Workspace \/ Workspace \in live}

Init ==
    /\ rows = Published \cup {Workspace}
    /\ ops = [o \in Calls |-> NoOp]
    /\ live = Published \cup {Workspace}
    /\ quiesced = {}
    /\ assets = Published
    /\ files = [s \in Services |-> IF s \in Published THEN "path" ELSE "gone"]
    /\ styles = "path"
    /\ aux = Published
    /\ call = [c \in Calls |-> NoCall]
    /\ ex = [o \in Calls |-> Idle]
    /\ retry = [o \in Calls |-> None]
    /\ publish = [s \in Services |-> IF s \in Published THEN "done" ELSE "ready"]
    /\ request = {}
    /\ failures = 0 /\ crashes = 0 /\ races = 0

-----------------------------------------------------------------------------
(* The calls *)

Made(c) == call[c].pc # "idle"

(* Within the bound Alone call c may be made. *)
Free(c) == ~Made(c) /\ \A d \in IF c \in Alone THEN Calls ELSE Alone : ~Made(d)

(* PlanWorkspace reads every service row, PlanService the one it is for. *)
Plan(c, t) ==
    /\ Free(c) /\ Visible(t)
    /\ call' = [call EXCEPT ![c] =
          [pc |-> "planned", target |-> t, op |-> None,
           services |-> IF t = Workspace THEN rows \ {Workspace} ELSE {t}]]
    /\ UNCHANGED <<durable, live, quiesced, ex, retry, publish, request, failures, crashes, races>>

(* BeginCatalogDeletion joins the active operation of the target, or makes  *)
(* a new one; only a service is looked up again.                            *)
Join(c, o) ==
    /\ call[c].pc = "planned"
    /\ Active(o) /\ ops[o].target = call[c].target
    /\ call' = [call EXCEPT ![c].pc = "begun", ![c].op = o]
    /\ UNCHANGED <<durable, live, quiesced, ex, retry, publish, request, failures, crashes, races>>

Begin(c) ==
    /\ call[c].pc = "planned" /\ ~Deleting(call[c].target)
    /\ call[c].target = Workspace \/ Visible(call[c].target)
    /\ ops' = [ops EXCEPT ![c] = [target |-> call[c].target, status |-> "pending",
                                  phase |-> "planned", services |-> call[c].services]]
    /\ call' = [call EXCEPT ![c].pc = "begun", ![c].op = c]
    /\ UNCHANGED <<rows, assets, files, styles, aux, live, quiesced, ex, retry, publish, request,
                   failures, crashes, races>>

Refused(c) ==
    /\ call[c].pc = "planned" /\ ~Deleting(call[c].target)
    /\ call[c].target # Workspace /\ ~Visible(call[c].target)
    /\ call' = [call EXCEPT ![c].pc = "refused"]
    /\ UNCHANGED <<durable, live, quiesced, ex, retry, publish, request, failures, crashes, races>>

(* quiesceRuntime; QuiesceService marks only a service it finds. *)
QuiesceRuntime(t) ==
    /\ live' = live \ {t}
    /\ quiesced' = IF t \in Services /\ t \in Served THEN quiesced \cup {t} ELSE quiesced

Accept(c) ==
    /\ call[c].pc = "begun"
    /\ QuiesceRuntime(call[c].target)
    /\ call' = [call EXCEPT ![c].pc = "quiesced"]
    /\ UNCHANGED <<durable, ex, retry, publish, request, failures, crashes, races>>

Committed(phase) == phase \in {"catalog_committed", "runtime_cleared"}

(* start runs one execution of an operation at a time, with the operation   *)
(* as its caller holds it.                                                  *)
Start(o, phase) ==
    ex' = IF ex[o].pc # "idle" THEN ex
          ELSE [ex EXCEPT ![o] = [Idle EXCEPT !.pc = "start", !.committed = Committed(phase)]]

Update(o, status, phase) ==
    ops' = [ops EXCEPT ![o].status = status, ![o].phase = phase]

Respond(c) ==
    /\ call[c].pc = "quiesced"
    /\ Update(call[c].op, "running", "tombstoned")
    /\ Start(call[c].op, "tombstoned")
    /\ call' = [call EXCEPT ![c].pc = "accepted"]
    /\ UNCHANGED <<rows, assets, files, styles, aux, live, quiesced, retry, publish, request,
                   failures, crashes, races>>

RespondFails(c) ==
    /\ call[c].pc = "quiesced" /\ failures < MaxFailures
    /\ call' = [call EXCEPT ![c].pc = "refused"]
    /\ failures' = failures + 1
    /\ UNCHANGED <<durable, live, quiesced, ex, retry, publish, request, crashes, races>>

(* Retry: the operation is read, then written and started. *)
RetryRead(o) ==
    /\ Active(o) /\ retry[o] = None
    /\ \/ ex[o].pc = "idle" /\ UNCHANGED races
       \/ ex[o].pc # "idle" /\ o \in Alone /\ races < MaxRaces /\ races' = races + 1
    /\ retry' = [retry EXCEPT ![o] = ops[o].phase]
    /\ UNCHANGED <<durable, live, quiesced, call, ex, publish, request, failures, crashes>>

RetryRun(o) ==
    /\ retry[o] # None
    /\ Update(o, "running", retry[o])
    /\ Start(o, retry[o])
    /\ retry' = [retry EXCEPT ![o] = None]
    /\ UNCHANGED <<rows, assets, files, styles, aux, live, quiesced, call, publish, request,
                   failures, crashes, races>>

-----------------------------------------------------------------------------
(* execute *)

At(o, pc) == ex[o].pc = pc

Goto(o, pc) == ex' = [ex EXCEPT ![o].pc = pc]

ExecStart(o) ==
    /\ At(o, "start")
    /\ QuiesceRuntime(ops[o].target)
    /\ Goto(o, "jobs")
    /\ UNCHANGED <<durable, call, retry, publish, request, failures, crashes, races>>

(* Tile jobs are quiesced (TileJobs models it) and the phase is written. *)
ExecJobs(o) ==
    /\ At(o, "jobs")
    /\ Update(o, "running", "jobs_quiesced")
    /\ Goto(o, "aux")
    /\ UNCHANGED <<rows, assets, files, styles, aux, live, quiesced, call, retry, publish, request,
                   failures, crashes, races>>

(* STAC, mosaic and tile-cache state of the plan goes, all of a workspace's. *)
ExecAux(o) ==
    /\ At(o, "aux")
    /\ aux' = IF ops[o].target = Workspace THEN {} ELSE aux \ ops[o].services
    /\ Goto(o, "style")
    /\ UNCHANGED <<rows, ops, assets, files, styles, live, quiesced, call, retry, publish, request,
                   failures, crashes, races>>

(* Assets.Stage, for a workspace; nothing is left to do when the directory  *)
(* is staged or gone.                                                       *)
ExecStyle(o) ==
    /\ At(o, "style")
    /\ styles' = IF ops[o].target = Workspace /\ styles = "path" THEN o ELSE styles
    /\ ex' = [ex EXCEPT ![o].pc = "stage", ![o].todo = ops[o].services, ![o].listed = {}]
    /\ UNCHANGED <<rows, ops, assets, files, aux, live, quiesced, call, retry, publish, request,
                   failures, crashes, races>>

(* stageManagedImports, one service of the plan at a time: no managed file, *)
(* a file staged by an earlier attempt, a file to rename, or, after the     *)
(* catalog commit, a file that is gone.                                     *)
Stageable(o, s) == files[s] \in {"path", o} \/ ex[o].committed

(* Mutant: only what this attempt renames is remembered for the removal. *)
ExecStageFresh(o, s) ==
    /\ At(o, "stage") /\ s \in ex[o].todo
    /\ s \in assets => Stageable(o, s)
    /\ files' = IF s \in assets /\ files[s] = "path" THEN [files EXCEPT ![s] = o] ELSE files
    /\ ex' = [ex EXCEPT ![o].todo = @ \ {s},
              ![o].listed = IF s \in assets /\ files[s] = "path" THEN @ \cup {s} ELSE @]
    /\ UNCHANGED <<rows, ops, assets, styles, aux, live, quiesced, call, retry, publish, request,
                   failures, crashes, races>>

ExecStage(o, s) ==
    /\ At(o, "stage") /\ s \in ex[o].todo
    /\ s \in assets => Stageable(o, s)
    /\ files' = IF s \in assets /\ files[s] = "path" THEN [files EXCEPT ![s] = o] ELSE files
    /\ ex' = [ex EXCEPT ![o].todo = @ \ {s},
                        ![o].listed = IF s \in assets THEN @ \cup {s} ELSE @]
    /\ UNCHANGED <<rows, ops, assets, styles, aux, live, quiesced, call, retry, publish, request,
                   failures, crashes, races>>

(* restoreManagedImports *)
Restored(o) ==
    [s \in Services |-> IF s \in ex[o].listed /\ files[s] = o THEN "path" ELSE files[s]]

(* What start does with an error, the n-th failure: the phase found in the  *)
(* catalog is kept, or, when it cannot be read, the one that the caller of  *)
(* start held is written, of which the model keeps whether it is past the   *)
(* commit. The write of the failure may fail as well.                       *)
Failed(o, n) ==
    /\ \/ Update(o, "failed", ops[o].phase) /\ failures' = n
       \/ /\ n < MaxFailures /\ failures' = n + 1
          /\ \E phase \in Phases \ {"completed"} :
                Committed(phase) = ex[o].committed /\ Update(o, "failed", phase)
       \/ UNCHANGED ops /\ failures' = n
    /\ ex' = [ex EXCEPT ![o] = Idle]

(* The managed file is neither where it was nor staged by this operation.   *)
ExecStageFails(o, s) ==
    /\ At(o, "stage") /\ s \in ex[o].todo
    /\ s \in assets /\ ~Stageable(o, s)
    /\ files' = Restored(o)
    /\ Failed(o, failures)
    /\ UNCHANGED <<rows, assets, styles, aux, live, quiesced, call, retry, publish, request, crashes, races>>

(* Mutant: the files are removed before the catalog commit. *)
ExecStagedRemoved(o) ==
    /\ At(o, "stage") /\ ex[o].todo = {}
    /\ Update(o, "running", "auxiliary_state_removed")
    /\ Goto(o, "commit")
    /\ files' = [s \in Services |-> IF s \in ex[o].listed THEN "gone" ELSE files[s]]
    /\ UNCHANGED <<rows, assets, styles, aux, live, quiesced, call, retry, publish, request,
                   failures, crashes, races>>

ExecStaged(o) ==
    /\ At(o, "stage") /\ ex[o].todo = {}
    /\ Update(o, "running", "auxiliary_state_removed")
    /\ Goto(o, "commit")
    /\ UNCHANGED <<rows, assets, files, styles, aux, live, quiesced, call, retry, publish, request,
                   failures, crashes, races>>

(* CommitCatalogDeletion: one transaction, unless the phase says it is done. *)
ExecCommit(o) ==
    /\ At(o, "commit")
    /\ IF ops[o].status = "completed" \/ Committed(ops[o].phase)
       THEN UNCHANGED <<rows, ops>>
       ELSE /\ rows' = IF ops[o].target = Workspace THEN {} ELSE rows \ {ops[o].target}
            /\ Update(o, "running", "catalog_committed")
    /\ ex' = [ex EXCEPT ![o].pc = "remove", ![o].todo = ex[o].listed]
    /\ UNCHANGED <<assets, files, styles, aux, live, quiesced, call, retry, publish, request,
                   failures, crashes, races>>

(* removeManagedImports: the staged file, then its row. *)
ExecRemoveFile(o, s) ==
    /\ At(o, "remove") /\ s \in ex[o].todo
    /\ files' = IF files[s] = o THEN [files EXCEPT ![s] = "gone"] ELSE files
    /\ ex' = [ex EXCEPT ![o].pc = "remove row", ![o].listed = {s}]
    /\ UNCHANGED <<rows, ops, assets, styles, aux, live, quiesced, call, retry, publish, request,
                   failures, crashes, races>>

ExecRemoveRow(o) ==
    /\ At(o, "remove row")
    /\ assets' = assets \ ex[o].listed
    /\ ex' = [ex EXCEPT ![o].pc = "remove", ![o].todo = @ \ ex[o].listed]
    /\ UNCHANGED <<rows, ops, files, styles, aux, live, quiesced, call, retry, publish, request,
                   failures, crashes, races>>

(* RemoveStaged of a workspace's style assets. *)
ExecUnstage(o) ==
    /\ At(o, "remove") /\ ex[o].todo = {}
    /\ styles' = IF styles = o THEN "gone" ELSE styles
    /\ Goto(o, "clear")
    /\ UNCHANGED <<rows, ops, assets, files, aux, live, quiesced, call, retry, publish, request,
                   failures, crashes, races>>

(* clearRuntime and the phase after it. *)
ExecClear(o) ==
    /\ At(o, "clear")
    /\ QuiesceRuntime(ops[o].target)
    /\ Update(o, "running", "runtime_cleared")
    /\ Goto(o, "finish")
    /\ UNCHANGED <<rows, assets, files, styles, aux, call, retry, publish, request, failures, crashes, races>>

ExecFinish(o) ==
    /\ At(o, "finish")
    /\ Update(o, "completed", "completed")
    /\ Goto(o, "idle")
    /\ UNCHANGED <<rows, assets, files, styles, aux, live, quiesced, call, retry, publish, request,
                   failures, crashes, races>>

(* Any step may fail before it has an effect; a failed commit restores the  *)
(* staged files.                                                            *)
ExecFails(o) ==
    /\ ex[o].pc \notin {"idle", "start"} /\ failures < MaxFailures
    /\ \/ /\ At(o, "commit") \/ (At(o, "stage") /\ ex[o].todo # {})
          /\ files' = Restored(o)
       \/ ~At(o, "commit") /\ UNCHANGED files
    /\ Failed(o, failures + 1)
    /\ UNCHANGED <<rows, assets, styles, aux, live, quiesced, call, retry, publish, request, crashes, races>>

-----------------------------------------------------------------------------
(* Publication of an import, and restart *)

(* PublishImport: service, asset and job in one transaction; the workspace  *)
(* is not looked up.                                                        *)
PublishImport(s) ==
    /\ publish[s] = "ready"
    /\ rows' = rows \cup {s} /\ assets' = assets \cup {s}
    /\ files' = [files EXCEPT ![s] = "path"]
    /\ publish' = [publish EXCEPT ![s] = "published"]
    /\ UNCHANGED <<ops, styles, aux, live, quiesced, call, ex, retry, request, failures, crashes, races>>

(* RefreshService: the service is read, its data source is prepared, and it *)
(* is installed when the workspace is there and the service not quiesced.   *)
RefreshRead(s) ==
    /\ publish[s] = "published"
    /\ publish' = [publish EXCEPT ![s] =
          IF Workspace \in live /\ s \notin quiesced /\ Visible(s) THEN "prepared" ELSE "done"]
    /\ UNCHANGED <<durable, live, quiesced, call, ex, retry, request, failures, crashes, races>>

RefreshInstall(s) ==
    /\ publish[s] = "prepared"
    /\ live' = IF Workspace \in live /\ s \notin quiesced THEN live \cup {s} ELSE live
    /\ publish' = [publish EXCEPT ![s] = "done"]
    /\ UNCHANGED <<durable, quiesced, call, ex, retry, request, failures, crashes, races>>

(* A tile request leases the service it finds in the registry, and writes   *)
(* the rendered tile to the persistent cache without looking again.         *)
RequestBegin(s) ==
    /\ s \in Traffic \cap Served /\ Workspace \in live /\ \E c \in Alone : Made(c)
    /\ request' = request \cup {s}
    /\ UNCHANGED <<durable, live, quiesced, call, ex, retry, publish, failures, crashes, races>>

RequestFill(s) ==
    /\ s \in request
    /\ request' = request \ {s}
    /\ aux' = aux \cup {s}
    /\ UNCHANGED <<rows, ops, assets, files, styles, live, quiesced, call, ex, retry, publish,
                   failures, crashes, races>>

(* Startup loads what is visible, then Recover starts what is active. *)
Restart ==
    /\ crashes < MaxCrashes
    /\ crashes' = crashes + 1
    /\ live' = {t \in rows : Visible(t) /\ (t = Workspace \/ Visible(Workspace))}
    /\ quiesced' = {}
    /\ call' = [c \in Calls |-> [call[c] EXCEPT !.pc =
                  IF call[c].pc \in {"idle", "accepted"} THEN call[c].pc ELSE "refused"]]
    /\ ex' = [o \in Calls |-> IF ~Active(o) THEN Idle
                ELSE [Idle EXCEPT !.pc = "start", !.committed = Committed(ops[o].phase)]]
    /\ retry' = [o \in Calls |-> None]
    /\ publish' = [s \in Services |-> IF publish[s] = "ready" THEN "ready" ELSE "done"]
    /\ request' = {}
    /\ UNCHANGED <<durable, failures, races>>

Delete(c) ==
    \/ \E t \in Targets : Plan(c, t)
    \/ \E o \in Calls : Join(c, o)
    \/ Begin(c) \/ Refused(c) \/ Accept(c) \/ Respond(c) \/ RespondFails(c)

Execute(o) ==
    \/ ExecStart(o) \/ ExecJobs(o) \/ ExecAux(o) \/ ExecStyle(o)
    \/ \E s \in Services : ExecStage(o, s) \/ ExecStageFails(o, s) \/ ExecRemoveFile(o, s)
    \/ ExecStaged(o) \/ ExecCommit(o) \/ ExecRemoveRow(o) \/ ExecUnstage(o)
    \/ ExecClear(o) \/ ExecFinish(o)

Next ==
    \/ \E c \in Calls : Delete(c) \/ Execute(c) \/ ExecFails(c) \/ RetryRead(c) \/ RetryRun(c)
    \/ \E s \in Services : PublishImport(s) \/ RefreshRead(s) \/ RefreshInstall(s)
                            \/ RequestBegin(s) \/ RequestFill(s)
    \/ Restart

Spec == Init /\ [][Next]_vars

(* Executions run to an end, and the administrator retries a failed         *)
(* operation; failures are finitely many.                                   *)
FairSpec ==
    /\ Spec
    /\ \A c \in Calls :
        /\ WF_vars(Execute(c))
        /\ WF_vars(ex[c].pc = "idle" /\ (RetryRead(c) \/ RetryRun(c)))

-----------------------------------------------------------------------------
(* Properties *)

Places == {"path", "gone"} \cup Calls

Operation == [target : Targets \cup {None}, services : SUBSET Services,
              status : {"none", "pending", "running", "failed", "completed"}, phase : Phases]

Request == [pc : {"idle", "planned", "begun", "quiesced", "accepted", "refused"},
            target : Targets \cup {None}, services : SUBSET Services, op : Calls \cup {None}]

Execution == [pc : {"idle", "start", "jobs", "aux", "style", "stage", "commit", "remove",
                    "remove row", "clear", "finish"},
              committed : BOOLEAN, todo : SUBSET Services, listed : SUBSET Services]

(* Every variable has its type. *)
TypeOK ==
    /\ rows \subseteq Targets /\ live \subseteq Targets
    /\ quiesced \cup assets \cup aux \cup request \subseteq Services
    /\ ops \in [Calls -> Operation]
    /\ files \in [Services -> Places] /\ styles \in Places
    /\ call \in [Calls -> Request] /\ ex \in [Calls -> Execution]
    /\ retry \in [Calls -> Phases \cup {None}]
    /\ publish \in [Services -> {"ready", "published", "prepared", "done"}]
    /\ failures \in 0..MaxFailures /\ crashes \in 0..MaxCrashes /\ races \in 0..MaxRaces

(* The managed file of a service that is still in the catalog is there, at  *)
(* its path or under its staged name: removeManagedImports runs only after  *)
(* the catalog commit, also when a service and its workspace are deleted at *)
(* once, steps fail and executions are repeated.                            *)
CatalogFileKept == \A s \in rows \cap assets : files[s] # "gone"

(* A staged file is in the plan of an operation that can still restore or   *)
(* remove it: none is orphaned under its staged name.                       *)
StagedFileOwned ==
    \A s \in Services : files[s] \in Calls =>
        Active(files[s]) /\ s \in ops[files[s]].services /\ s \in assets

(* Managed files are kept with their catalog rows, and staged ones with     *)
(* their operation (assets.go).  The second is checked for one failing step *)
(* and does not hold for two: a retry that has read catalog_committed may   *)
(* run after the operation was set back and its file restored and staged by *)
(* another one, and removes the metadata row of the other's file.           *)
ManagedFileKept == CatalogFileKept /\ StagedFileOwned

(* A completed operation has left nothing of its target: no row, no managed *)
(* file or metadata of the services of its plan, no staged style assets.    *)
CompletedIsClean ==
    \A o \in Calls : ops[o].status = "completed" =>
        /\ ops[o].target \notin rows
        /\ \A s \in ops[o].services : s \notin assets /\ files[s] = "gone"
        /\ ops[o].target = Workspace => styles = "gone"

(* A target that an operation tombstoned never becomes visible again, and a *)
(* restart does not publish it.                                             *)
DeletedStaysHidden ==
    [][ \A t \in Targets : t \in rows /\ Deleting(t) => ~Visible(t)' ]_vars

(* 202 is answered when the publication can no longer serve requests (the   *)
(* comment in begin).                                                       *)
AcceptedNotServed ==
    \A c \in Calls : call[c].pc = "accepted" => call[c].target \notin Served

(* The phase of an operation does not lag the catalog transaction (the      *)
(* comment in deleteServiceCatalog).                                        *)
PhaseTracksCommit ==
    \A o \in Calls : Active(o) /\ ops[o].phase \in {"jobs_quiesced", "auxiliary_state_removed"}
        => ops[o].target \in rows

(* The name of a target stays taken until its operation is completed.       *)
NameReserved ==
    \A o \in Calls : Active(o) /\ ops[o].target = Workspace => NameTaken

(* No auxiliary state of a service is left when its deletion is completed.  *)
AuxiliaryRemoved ==
    \A o \in Calls : ops[o].status = "completed" => aux \cap ops[o].services = {}

(* Retried after every failure and resumed after every restart, an          *)
(* operation is completed, or its managed file is removed and the metadata  *)
(* row is all that is left: staging and committing never wait for ever.     *)
DeletionSettles ==
    \A o \in Calls : Active(o) ~>
        \/ ops[o].status = "completed"
        \/ /\ ops[o].target \notin rows
           /\ \E s \in ops[o].services \cap assets : files[s] = "gone"

(* Operations can be retried until they are completed. *)
DeletionCompletes ==
    \A o \in Calls : Active(o) ~> ops[o].status = "completed"
=============================================================================
