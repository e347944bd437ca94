----------------------------- MODULE STACRefresh -----------------------------
(***************************************************************************)
(* The refresh of a STAC Collection that is bound to a mosaic:              *)
(* internal/stacsource/manager.go over the jobs and generations of          *)
(* internal/staccatalog. The source is given by its generation number, its  *)
(* granules and whether it resolves. A revision is compared only with the   *)
(* one the latest job was created at, so the model keeps the comparison.    *)
(***************************************************************************)
EXTENDS Integers

CONSTANT MaxEdits   \* bound: edits of the Collection by an administrator

VARIABLES
    generation, granules, source,   \* the mosaic: live, blocked or deleted
    collection,  \* exists, items, fp (source_fingerprint), doc
    refresh,     \* the latest refresh job: status, current (its revision is the Collection's)
    refresher    \* the worker: pc, before, items, doc

Ended(status) == [status |-> status, current |-> FALSE]

NoRefresh == Ended("none")
IdleRefresher == [pc |-> "idle", before |-> -1, items |-> {}, doc |-> 0]

Init ==
    /\ collection \in [exists : BOOLEAN, items : {{}}, fp : {-1}, doc : {0}]
    /\ refresh = NoRefresh
    /\ refresher = IdleRefresher

(* The worker's job was cancelled or removed under it: whatever it does     *)
(* next with that job is refused.                                           *)
Overtaken == IF refresher.pc = "idle" THEN refresher ELSE [IdleRefresher EXCEPT !.pc = "overtaken"]

Pending == refresh.status \in {"queued", "running"}

(* A refresh job that is under way is returned as it is. *)
CreateJob ==
    /\ collection.exists /\ ~Pending
    /\ refresh' = [status |-> "queued", current |-> TRUE]
    /\ UNCHANGED <<collection, refresher>>

(* reconcileWorkspace asks for a refresh when the fingerprint is new, or    *)
(* when the interval or the pause after a failure is over; an administrator *)
(* at any time (stacRefresh, a new binding, Retry).                         *)
Schedule == source = "live" /\ CreateJob

(* deleteIfRemoved, QuiesceAndDeleteLifecycle and DeleteCollection: the     *)
(* Collection goes with its items and jobs.                                 *)
Remove ==
    /\ collection.exists /\ source = "deleted"
    /\ collection' = [exists |-> FALSE, items |-> {}, fp |-> -1, doc |-> 0]
    /\ refresh' = NoRefresh
    /\ refresher' = Overtaken

-----------------------------------------------------------------------------
(* worker and refresh *)

Claim ==
    /\ refresher.pc = "idle" /\ refresh.status = "queued"
    /\ refresh' = [refresh EXCEPT !.status = "running"]
    /\ refresher' = [IdleRefresher EXCEPT !.pc = "start"]
    /\ UNCHANGED collection

(* The worker stores the failure and goes on to the next job. *)
Fail ==
    /\ refresher' = IdleRefresher /\ refresh' = Ended("failed")
    /\ UNCHANGED collection

(* The error of SetJobStatus is dropped: the row keeps its status. *)
FailUnstored ==
    /\ refresher' = IdleRefresher
    /\ UNCHANGED <<collection, refresh>>

(* SetJobStatus leaves a job that was cancelled alone. *)
GiveUp ==
    /\ refresher.pc = "overtaken" /\ refresher' = IdleRefresher
    /\ UNCHANGED <<collection, refresh>>

Startable == source = "live" /\ refresh.current

Start ==
    /\ refresher.pc = "start" /\ Startable
    /\ refresher' = [refresher EXCEPT !.pc = "scan", !.before = generation, !.doc = collection.doc]
    /\ UNCHANGED <<collection, refresh>>

(* One query, staged while the job is running. *)
Scan ==
    /\ refresher.pc = "scan" /\ source = "live"
    /\ refresher' = [refresher EXCEPT !.pc = "check", !.items = granules]
    /\ UNCHANGED <<collection, refresh>>

(* Mutant: the later fingerprint is taken for the scanned one. *)
CheckLate ==
    /\ refresher.pc = "check" /\ source = "live"
    /\ refresher' = [refresher EXCEPT !.pc = "publish", !.before = generation]
    /\ UNCHANGED <<collection, refresh>>

Check ==
    /\ refresher.pc = "check" /\ source = "live" /\ generation = refresher.before
    /\ refresher' = [refresher EXCEPT !.pc = "publish"]
    /\ UNCHANGED <<collection, refresh>>

(* Mutant: the revision is not compared. *)
PublishableAny == TRUE

(* publish: on a Collection that is as it was when the job was created. *)
Publishable == refresh.current

Publish ==
    /\ refresher.pc = "publish" /\ Publishable
    /\ collection' = [exists |-> TRUE, items |-> refresher.items, fp |-> refresher.before, doc |-> refresher.doc]
    /\ refresh' = Ended("succeeded")
    /\ refresher' = IdleRefresher

Refused ==
    \/ refresher.pc = "start" /\ ~Startable
    \/ refresher.pc = "scan" /\ source # "live"
    \/ refresher.pc = "check" /\ ~(source = "live" /\ generation = refresher.before)
    \/ refresher.pc = "publish" /\ ~Publishable

RefreshFails == Refused /\ Fail

(* A scan that fails on its own: a source that cannot be read. *)
ScanFails == refresher.pc = "scan" /\ Fail

(* Either failure, and it cannot be stored either: the row says that the    *)
(* refresh is under way, and every later CreateJob returns that row.        *)
FailureLost == (Refused \/ refresher.pc = "scan") /\ FailUnstored

-----------------------------------------------------------------------------
(* Administrators and the server *)

(* PutCollection *)
Edit ==
    /\ collection.exists /\ collection.doc < MaxEdits
    /\ collection' = [collection EXCEPT !.doc = @ + 1]
    /\ refresh' = [refresh EXCEPT !.current = FALSE]
    /\ UNCHANGED refresher

(* Cancel, and PutBinding. *)
Cancel ==
    /\ Pending
    /\ refresh' = Ended("cancelled")
    /\ refresher' = Overtaken
    /\ UNCHANGED collection

(* Mutant: the interrupted job keeps its place. *)
RestartRunning ==
    /\ refresher' = IdleRefresher
    /\ UNCHANGED <<collection, refresh>>

(* Open fails the jobs that were running. *)
Restart ==
    /\ refresher' = IdleRefresher
    /\ refresh' = IF refresh.status = "running" THEN Ended("failed") ELSE refresh
    /\ UNCHANGED collection

Work == Claim \/ Start \/ Scan \/ Check \/ Publish \/ RefreshFails \/ GiveUp

Reconcile == Schedule \/ Remove

Next == Work \/ ScanFails \/ FailureLost \/ Reconcile \/ CreateJob \/ Edit \/ Cancel

(* The type invariant of the refresh; -1 is the fingerprint of none.        *)
TypeOK ==
    /\ collection.exists \in BOOLEAN /\ collection.fp \in Nat \cup {-1} /\ collection.doc \in 0 .. MaxEdits
    /\ refresh \in [status : {"none", "queued", "running", "succeeded", "failed", "cancelled"}, current : BOOLEAN]
    /\ refresher.pc \in {"idle", "start", "scan", "check", "publish", "overtaken"}
    /\ refresher.before \in Nat \cup {-1} /\ refresher.doc \in 0 .. MaxEdits

=============================================================================
