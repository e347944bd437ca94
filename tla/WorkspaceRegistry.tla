------------------------- MODULE WorkspaceRegistry -------------------------
(***************************************************************************)
(* The data source handles of one workspace in the live registry           *)
(* (internal/workspace/registry.go, snapshot.go).                          *)
(*                                                                         *)
(* A request leases every handle of its workspace snapshot and releases    *)
(* them one by one; no lock is held in between.  Management operations     *)
(* prepare a replacement outside the registry lock, install it under the   *)
(* lock and retire the handle they replaced: it is closed at once when     *)
(* nobody leases it and by its last reader otherwise.                      *)
(*                                                                         *)
(* A step under Registry.mu is atomic here.  Layers, styles and settings   *)
(* are plain copies and left out.                                          *)
(***************************************************************************)
EXTENDS Naturals, FiniteSets

CONSTANTS
  Requests,   \* requests and jobs that lease the workspace
  Tasks,      \* management calls, jobs and imports that change it
  Services,   \* service identifiers; an identifier is used once
  Handles,    \* data source handles; a bound on how many are constructed
  None        \* no value

ASSUME RegistryAssumption ==
  /\ IsFiniteSet(Requests)
  /\ None \notin Services \cup Handles /\ None \notin [readers : Nat, retired : BOOLEAN]

VARIABLES
  present,    \* the workspace is in the registry
  row,        \* the catalog: service -> "absent", "enabled", "disabled", "deleted"
  live,       \* services in Workspace.Services
  enabled,    \* live services with Service.Enabled set
  source,     \* service -> its DataSource or None
  quiesced,   \* Registry.quiescedServices
  refs,       \* Registry.sources: handle -> [readers, retired] or None
  lease,      \* request -> handles it has still to release
  lock,       \* Registry.serviceUpdates: service -> the task that holds it
  task,       \* task -> the operation it is in
  handle      \* handle -> "new", "constructing", "open", "closed", "reclosed"

vars == <<present, row, live, enabled, source, quiesced, refs, lease, lock,
          task, handle>>

graph == <<present, live, enabled, source, quiesced>>

Idle == [op |-> "idle", at |-> "idle", service |-> None, known |-> FALSE,
         want |-> FALSE, replace |-> FALSE, new |-> None, old |-> None]

Init ==
  /\ present = TRUE
  /\ row = [s \in Services |-> "absent"]
  /\ live = {} /\ enabled = {}
  /\ source = [s \in Services |-> None]
  /\ quiesced = {}
  /\ refs = [h \in Handles |-> None]
  /\ lease = [r \in Requests |-> {}]
  /\ lock = [s \in Services |-> None]
  /\ task = [t \in Tasks |-> Idle]
  /\ handle = [h \in Handles |-> "new"]

(***************************************************************************)
(* Leases.                                                                 *)
(***************************************************************************)
Installed == {source[s] : s \in live} \ {None}

\* Close of a handle; a second call is recorded.
Closed(h) == IF handle[h] = "closed" THEN "reclosed" ELSE "closed"

Readers(h) == IF refs[h] = None THEN 0 ELSE refs[h].readers

\* Mutant: the snapshot does not count its lease on a handle in use.
AcquireUncounted(r) ==
  /\ present /\ lease[r] = {}
  /\ lease' = [lease EXCEPT ![r] = Installed]
  /\ refs' = [h \in Handles |->
       IF h \notin Installed THEN refs[h] ELSE [readers |-> 1, retired |-> FALSE]]
  /\ UNCHANGED <<graph, row, lock, task, handle>>

\* acquireLocked: a snapshot of the workspace with a lease on every handle.
Acquire(r) ==
  /\ present /\ lease[r] = {}
  /\ lease' = [lease EXCEPT ![r] = Installed]
  /\ refs' = [h \in Handles |->
       IF h \notin Installed THEN refs[h]
       ELSE [readers |-> Readers(h) + 1,
             retired |-> refs[h] # None /\ refs[h].retired]]
  /\ UNCHANGED <<graph, row, lock, task, handle>>

\* Mutant: the last reader leaves a retired handle open.
ReleaseOnly(r) == \E h \in lease[r] :
  /\ lease' = [lease EXCEPT ![r] = @ \ {h}]
  /\ refs' = [refs EXCEPT ![h].readers = @ - 1]
  /\ UNCHANGED <<graph, row, lock, task, handle>>

\* One turn of the release loop: the last reader of a retired handle closes it.
Release(r) == \E h \in lease[r] :
  LET closeNow == refs[h].readers = 1 /\ refs[h].retired
  IN  /\ lease' = [lease EXCEPT ![r] = @ \ {h}]
      /\ refs' = [refs EXCEPT ![h] = IF closeNow THEN None
                                     ELSE [refs[h] EXCEPT !.readers = @ - 1]]
      /\ handle' = IF closeNow THEN [handle EXCEPT ![h] = Closed(h)] ELSE handle
      /\ UNCHANGED <<graph, row, lock, task>>

\* retireSource for a set of handles that just left the graph.
Retire(hs) ==
  LET now == {h \in hs : Readers(h) = 0}
  IN  /\ refs' = [h \in Handles |->
           CASE h \in now -> None
             [] h \in hs \ now -> [refs[h] EXCEPT !.retired = TRUE]
             [] OTHER -> refs[h]]
      /\ handle' = [h \in Handles |-> IF h \in now THEN Closed(h) ELSE handle[h]]

\* A handle that was never installed is closed without a look at the leases.
CloseNew(h) ==
  /\ handle' = IF h = None THEN handle ELSE [handle EXCEPT ![h] = Closed(h)]
  /\ UNCHANGED refs

(***************************************************************************)
(* datasource.Prepare: construct a handle in a goroutine, bounded by the   *)
(* caller's wait.                                                          *)
(***************************************************************************)
Goto(t, place) == task' = [task EXCEPT ![t].at = place]

\* The operation ends; a lock it holds is released.
End(t) ==
  /\ task' = [task EXCEPT ![t] = Idle]
  /\ lock' = [s \in Services |-> IF lock[s] = t THEN None ELSE lock[s]]

Unused == {h \in Handles : handle[h] = "new"}

\* Which unused handle a constructor makes is of no consequence.
Construct(t) ==
  /\ task[t].at = "prepare" /\ Unused # {}
  /\ LET h == CHOOSE h \in Unused : TRUE
     IN  /\ handle' = [handle EXCEPT ![h] = "constructing"]
         /\ task' = [task EXCEPT ![t].at = "constructing", ![t].new = h]
  /\ UNCHANGED <<graph, row, refs, lease, lock>>

Constructed(t) ==
  /\ task[t].at = "constructing"
  /\ handle' = [handle EXCEPT ![task[t].new] = "open"]
  /\ Goto(t, "install")
  /\ UNCHANGED <<graph, row, refs, lease, lock>>

\* No constructor slot, a constructor error or an unhealthy source: what was
\* made is closed by the goroutine.  Or the caller stops waiting and leaves the
\* goroutine behind.  CreateService then deletes its row again, best effort.
PrepareFails(t) ==
  /\ \/ task[t].at = "prepare" /\ UNCHANGED handle
     \/ task[t].at = "constructing" /\ UNCHANGED handle
     \/ task[t].at = "constructing" /\ handle' = [handle EXCEPT ![task[t].new] = "closed"]
  /\ \/ task[t].op = "create" /\ row' = [row EXCEPT ![task[t].service] = "deleted"]
     \/ UNCHANGED row
  /\ End(t)
  /\ UNCHANGED <<graph, refs, lease>>

\* The goroutine nobody waits for closes its result.
Abandoned(h) ==
  /\ handle[h] = "constructing" /\ \A t \in Tasks : task[t].new # h
  /\ handle' = [handle EXCEPT ![h] = "closed"]
  /\ UNCHANGED <<graph, row, refs, lease, lock, task>>

(***************************************************************************)
(* The operations.                                                         *)
(***************************************************************************)
Begin(t, op, s, place) ==
  /\ task[t] = Idle
  /\ task' = [task EXCEPT ![t] = [Idle EXCEPT !.op = op, !.service = s, !.at = place]]

\* serviceUpdateLock
LockService(t) ==
  /\ task[t].at = "lock" /\ lock[task[t].service] = None
  /\ lock' = [lock EXCEPT ![task[t].service] = t]
  /\ Goto(t, "read")
  /\ UNCHANGED <<graph, row, refs, lease, handle>>

CreateService(t, s) ==
  /\ row[s] = "absent"
  /\ \/ Begin(t, "create", s, "prepare") /\ row' = [row EXCEPT ![s] = "enabled"]
     \/ Begin(t, "create", s, "install") /\ row' = [row EXCEPT ![s] = "disabled"]
  /\ UNCHANGED <<graph, refs, lease, lock, handle>>

CreateInstall(t) ==
  LET s == task[t].service
      new == task[t].new
  IN  /\ task[t].at = "install" /\ task[t].op = "create"
      /\ IF present
           THEN /\ live' = live \cup {s}
                /\ enabled' = IF new = None THEN enabled ELSE enabled \cup {s}
                /\ source' = [source EXCEPT ![s] = new]
                /\ UNCHANGED <<refs, handle>>
           ELSE /\ Retire({new} \ {None})
                /\ UNCHANGED <<live, enabled, source>>
      /\ End(t)
      /\ UNCHANGED <<present, quiesced, row, lease>>

UpdateService(t, s) ==
  /\ present /\ s \in live
  /\ Begin(t, "update", s, "lock")
  /\ UNCHANGED <<graph, row, refs, lease, lock, handle>>

\* The stored and the active service are read again under the service's lock;
\* want is the Enabled the call asks for.
UpdateRead(t) ==
  LET s == task[t].service
  IN  /\ task[t].at = "read" /\ task[t].op = "update"
      /\ \/ /\ row[s] = "deleted" \/ ~present \/ s \notin live
            /\ End(t)
         \/ /\ row[s] # "deleted" /\ present /\ s \in live
            /\ \E want, changed \in BOOLEAN :
                 LET replace == want /\ (source[s] = None \/ s \notin enabled \/ changed)
                 IN  task' = [task EXCEPT ![t] =
                       [@ EXCEPT !.want = want, !.replace = replace,
                                 !.at = IF replace THEN "prepare" ELSE "install"]]
            /\ UNCHANGED lock
      /\ UNCHANGED <<graph, row, refs, lease, handle>>

\* Under Registry.mu: the service may be gone, the catalog may refuse.
UpdateInstall(t) ==
  LET s == task[t].service
  IN  /\ task[t].at = "install" /\ task[t].op = "update"
      /\ \/ /\ CloseNew(task[t].new)
            /\ UNCHANGED <<row, enabled, source>>
         \/ /\ present /\ s \in live /\ row[s] # "deleted"
            /\ row' = [row EXCEPT ![s] = IF task[t].want THEN "enabled" ELSE "disabled"]
            /\ enabled' = IF task[t].want THEN enabled \cup {s} ELSE enabled \ {s}
            /\ IF task[t].replace \/ ~task[t].want
                 THEN /\ source' = [source EXCEPT ![s] = task[t].new]
                      /\ Retire({source[s]} \ {None})
                 ELSE UNCHANGED <<source, refs, handle>>
      /\ End(t)
      /\ UNCHANGED <<present, live, quiesced, lease>>

\* A finished mosaic harvest refreshes a service that has been created, a
\* published import one that only the catalog knows.
RefreshService(t, s) ==
  /\ row[s] # "absent"
  /\ \A u \in Tasks : ~(task[u].op = "create" /\ task[u].service = s)
  /\ Begin(t, "refresh", s, "begin")
  /\ UNCHANGED <<graph, row, refs, lease, lock, handle>>

PublishImport(t, s) ==
  /\ row[s] = "absent" /\ row' = [row EXCEPT ![s] = "enabled"]
  /\ Begin(t, "refresh", s, "begin")
  /\ UNCHANGED <<graph, refs, lease, lock, handle>>

RefreshBegin(t) ==
  LET s == task[t].service
  IN  /\ task[t].at = "begin"
      /\ IF ~present \/ s \in quiesced THEN End(t)
         ELSE /\ task' = [task EXCEPT ![t].at = "lock", ![t].known = s \in live]
              /\ UNCHANGED lock
      /\ UNCHANGED <<graph, row, refs, lease, handle>>

RefreshRead(t) ==
  LET s == task[t].service
  IN  /\ task[t].at = "read" /\ task[t].op = "refresh"
      /\ CASE row[s] = "deleted"  -> End(t)
           [] row[s] = "enabled"  -> Goto(t, "prepare") /\ UNCHANGED lock
           [] row[s] = "disabled" -> Goto(t, "install") /\ UNCHANGED lock
      /\ UNCHANGED <<graph, row, refs, lease, handle>>

\* A service the registry did not know is built from the catalog, which may
\* fail; one that was removed or quiesced meanwhile stays out.
RefreshDropped(t) ==
  LET s == task[t].service
  IN  /\ task[t].at = "install" /\ task[t].op = "refresh"
      /\ ~task[t].known \/ ~present \/ s \in quiesced
      /\ CloseNew(task[t].new)
      /\ End(t)
      /\ UNCHANGED <<graph, row, lease>>

\* Mutant: the quiesced services are not looked at again.
RefreshInstallAnyway(t) ==
  LET s == task[t].service
  IN  /\ task[t].at = "install" /\ task[t].op = "refresh" /\ present
      /\ live' = live \cup {s}
      /\ source' = [source EXCEPT ![s] = task[t].new]
      /\ enabled' = enabled \cup {s}
      /\ Retire({source[s]} \ {None})
      /\ End(t)
      /\ UNCHANGED <<present, quiesced, row, lease>>

RefreshInstall(t) ==
  LET s == task[t].service
  IN  /\ task[t].at = "install" /\ task[t].op = "refresh"
      /\ present /\ s \notin quiesced
      /\ IF s \in live
           THEN /\ source' = [source EXCEPT ![s] = task[t].new]
                /\ task' = [task EXCEPT ![t].at = "retire", ![t].new = None,
                                        ![t].old = source[s]]
                /\ UNCHANGED <<live, enabled, lock>>
           ELSE /\ live' = live \cup {s}
                /\ source' = IF task[t].known THEN source
                             ELSE [source EXCEPT ![s] = task[t].new]
                /\ enabled' = IF task[t].known \/ task[t].new = None
                                THEN enabled ELSE enabled \cup {s}
                /\ End(t)
      /\ UNCHANGED <<present, quiesced, row, refs, lease, handle>>

\* The old handle is retired after the registry lock is released.
RefreshRetire(t) ==
  /\ task[t].at = "retire"
  /\ Retire({task[t].old} \ {None})
  /\ End(t)
  /\ UNCHANGED <<graph, row, lease>>

\* removeServiceLocked
RemoveService(s) ==
  /\ quiesced' = quiesced \cup {s}
  /\ live' = live \ {s}
  /\ Retire({source[s]} \ {None})
  /\ UNCHANGED <<present, enabled, source>>

DeleteService(t, s) ==
  /\ present /\ s \in live
  /\ Begin(t, "delete", s, "lock")
  /\ UNCHANGED <<graph, row, refs, lease, lock, handle>>

\* Refused for a group that refers to the service, a catalog error or a
\* service that is gone.
DeleteApply(t) ==
  LET s == task[t].service
  IN  /\ task[t].at = "read" /\ task[t].op = "delete"
      /\ \/ present /\ s \in live /\ row' = [row EXCEPT ![s] = "deleted"] /\ RemoveService(s)
         \/ UNCHANGED <<graph, row, refs, handle>>
      /\ End(t)
      /\ UNCHANGED lease

\* The deletion coordinator hides a service before it removes its row.
QuiesceService(s) ==
  /\ present /\ s \in live
  /\ RemoveService(s)
  /\ UNCHANGED <<row, lease, lock, task>>

CatalogDeleted(s) ==
  /\ s \in quiesced /\ row[s] # "deleted"
  /\ row' = [row EXCEPT ![s] = "deleted"]
  /\ UNCHANGED <<graph, refs, lease, lock, task, handle>>

\* Remove, DeleteWorkspace and Close: the workspace leaves the registry; its
\* rows are deleted before, or are kept.
Remove ==
  /\ present /\ present' = FALSE
  /\ Retire(Installed)
  /\ live' = {}
  /\ UNCHANGED <<enabled, source, quiesced, row, lease, lock, task>>

StoreDeleteWorkspace ==
  /\ present /\ row # [s \in Services |-> "deleted"]
  /\ row' = [s \in Services |-> "deleted"]
  /\ UNCHANGED <<graph, refs, lease, lock, task, handle>>

Run(t) ==
  \/ LockService(t) \/ Construct(t) \/ Constructed(t) \/ PrepareFails(t)
  \/ CreateInstall(t) \/ UpdateRead(t) \/ UpdateInstall(t)
  \/ RefreshBegin(t) \/ RefreshRead(t) \/ RefreshDropped(t) \/ RefreshInstall(t)
  \/ RefreshRetire(t) \/ DeleteApply(t)

Call(t) == \E s \in Services :
  \/ CreateService(t, s) \/ UpdateService(t, s) \/ RefreshService(t, s)
  \/ PublishImport(t, s) \/ DeleteService(t, s)

Next ==
  \/ \E r \in Requests : Acquire(r) \/ Release(r)
  \/ \E t \in Tasks : Call(t) \/ Run(t)
  \/ \E h \in Handles : Abandoned(h)
  \/ \E s \in Services : QuiesceService(s) \/ CatalogDeleted(s)
  \/ StoreDeleteWorkspace \/ Remove

Spec == Init /\ [][Next]_vars

\* Requests end, operations go on, constructors return.
FairSpec ==
  /\ Spec
  /\ \A r \in Requests : WF_vars(Release(r))
  /\ \A t \in Tasks : WF_vars(Run(t))
  /\ \A h \in Handles : WF_vars(Abandoned(h))

(***************************************************************************)
(* Properties.                                                             *)
(***************************************************************************)
\* The types of an operation under way and of an entry of Registry.sources.
TaskState ==
  [op : {"idle", "create", "update", "refresh", "delete"},
   at : {"idle", "begin", "lock", "read", "prepare", "constructing", "install", "retire"},
   service : Services \cup {None}, known : BOOLEAN, want : BOOLEAN,
   replace : BOOLEAN, new : Handles \cup {None}, old : Handles \cup {None}]

RefState == [readers : Nat, retired : BOOLEAN]

\* Every variable has its type.
TypeOK ==
  /\ present \in BOOLEAN
  /\ row \in [Services -> {"absent", "enabled", "disabled", "deleted"}]
  /\ live \subseteq Services /\ enabled \subseteq Services /\ quiesced \subseteq Services
  /\ source \in [Services -> Handles \cup {None}]
  /\ refs \in [Handles -> RefState \cup {None}]
  /\ lease \in [Requests -> SUBSET Handles]
  /\ lock \in [Services -> Tasks \cup {None}]
  /\ task \in [Tasks -> TaskState]
  /\ handle \in [Handles -> {"new", "constructing", "open", "closed", "reclosed"}]

\* A handle that a request has leased, or that the next request would lease,
\* is open, whatever is replaced, disabled or deleted meanwhile, and no handle
\* is closed twice: not by the last reader and the operation that retired it,
\* nor by two operations.
UsableOpen ==
  /\ \A h \in Installed \cup UNION {lease[r] : r \in Requests} : handle[h] = "open"
  /\ \A h \in Handles : handle[h] # "reclosed"

\* A service that was deleted or quiesced never comes back, although a refresh
\* may have prepared its new handle before.
QuiescedStaysOut == quiesced \cap live = {}

\* A handle that left the graph, or never reached it, is closed in the end.
RetiredIsClosed ==
  \A h \in Handles :
    (handle[h] \in {"constructing", "open"} /\ h \notin Installed)
      ~> (handle[h] = "closed" \/ h \in Installed)
=============================================================================
