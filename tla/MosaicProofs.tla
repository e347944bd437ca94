---------------------------- MODULE MosaicProofs ----------------------------
(***************************************************************************)
(* The live generation of a mosaic is whole, accepted cancels are          *)
(* honoured, and the Collection bound to it keeps its fingerprint true and *)
(* its edits, for any paths and any number of jobs, generations, failures, *)
(* edits and restarts.                                                     *)
(***************************************************************************)
EXTENDS MosaicSTAC, TLAPS

(***************************************************************************)
(* The service's lock.  A worker past its claim and a remover hold it, so  *)
(* that the active generation is theirs to change.                         *)
(***************************************************************************)
LockInv ==
    /\ lock = "worker" <=> worker.pc \notin {"idle", "claimed"}
    /\ lock = "remover" <=> remover.pc = "refresh"
    /\ worker.pc # "idle" => worker.job \in Jobs

(* The generation that is being built is the next one, and it is whole     *)
(* once nothing is left to do; the one that was just activated is whole as *)
(* well as the one before it, to which a failed refresh returns.           *)
GenerationInv ==
    /\ active > 0 => active \in whole
    /\ worker.pc \in {"save", "harvest"} =>
          worker.gen = active + 1 /\ (worker.todo = {} => worker.gen \in whole)
    /\ worker.pc = "save" => worker.todo # {}
    /\ worker.pc \in {"refresh", "prune"} => worker.gen = active /\ active > 0
    /\ worker.pc = "refresh" => worker.prev + 1 = active /\ (worker.prev > 0 => worker.prev \in whole)
    /\ remover.pc = "refresh" =>
          /\ remover.gen = active /\ remover.prev + 1 = active
          /\ remover.prev > 0 /\ remover.prev \in whole

(* What the running service shows: the active generation, or, until the    *)
(* refresh, the one before it.                                             *)
ServedInv ==
    "apart" \notin odd =>
        served = GranulesOf(IF worker.pc = "refresh" THEN worker.prev
                            ELSE IF remover.pc = "refresh" THEN remover.prev ELSE active)

(***************************************************************************)
(* The harvest that is live, unless its row was left open.  Its row has    *)
(* ended, or its worker has the lock and the row names the active          *)
(* generation, which is what requestCancel looks at; so a removal finds it *)
(* ended.  A worker that has not activated yet, or gives up by a cancel,   *)
(* is not the author, and the author that a failed refresh returns to has  *)
(* ended.  A worker's row is there unless the service was deleted.         *)
(***************************************************************************)
AuthorInv ==
    /\ \A j \in Jobs : job[j].cancel => job[j].status # "succeeded"
    /\ author.job # 0 /\ ~author.left =>
          /\ ~job[author.job].cancel
          /\ \/ job[author.job].status \in {"succeeded", "failed"}
             \/ /\ job[author.job].status = "running" /\ job[author.job].gen = active /\ active > 0
                /\ worker.pc \in {"refresh", "prune", "fail", "failed"} /\ worker.job = author.job
    /\ worker.pc \in {"claimed", "begin", "save", "harvest", "cancel"} => author.job # worker.job \/ author.left
    /\ worker.pc # "idle" => service = "deleted" \/ job[worker.job].status # "none"
    /\ worker.pc = "harvest" => job[worker.job].gen = worker.gen
    /\ worker.pc \in {"refresh", "prune"} => author.job = worker.job
    /\ worker.pc = "refresh" /\ former.job # 0 /\ ~former.left =>
          ~job[former.job].cancel /\ job[former.job].status \in {"succeeded", "failed"}

HarvestInv == TypeOK /\ LockInv /\ GenerationInv /\ ServedInv /\ AuthorInv

-----------------------------------------------------------------------------
(* The Collection and its refresh. *)

CollectionState == [exists : BOOLEAN, items : SUBSET Paths, fp : Nat \cup {-1}, doc : Nat]
RefreshState ==
    [status : {"none", "queued", "running", "succeeded", "failed", "cancelled"}, current : BOOLEAN]
RefresherState ==
    [pc : {"idle", "start", "scan", "check", "publish", "overtaken"}, before : Nat \cup {-1},
     items : SUBSET Paths, doc : Nat]

(* A job under way is of a Collection that exists, and a worker that was   *)
(* not overtaken has the job that is running; while the job's revision is  *)
(* the Collection's, what it will publish has the last edit.               *)
RefreshInv ==
    /\ collection \in CollectionState /\ refresh \in RefreshState /\ refresher \in RefresherState
    /\ refresh.status \in {"queued", "running"} => collection.exists
    /\ refresher.pc \in {"start", "scan", "check", "publish"} => refresh.status = "running"
    /\ refresher.pc \in {"scan", "check", "publish"} /\ refresh.current => refresher.doc = collection.doc

(* The generations that are live or may be live again: the active one and, *)
(* until the refresh, the one before it.                                   *)
Held ==
    {active} \cup {g \in {worker.prev} : worker.pc = "refresh"} \cup {g \in {remover.prev} : remover.pc = "refresh"}

(* A fingerprint that names a generation that is held stands for its       *)
(* granules, in the Collection and in a scan that was checked; in a scan   *)
(* that is still to be checked, if it names the active one.                *)
FingerprintInv ==
    service # "deleted" =>
        /\ \A g \in Held :
              /\ "collection" \notin mixed /\ collection.fp = g => collection.items = GranulesOf(g)
              /\ "scan" \notin mixed /\ refresher.pc = "publish" /\ refresher.before = g =>
                    refresher.items = GranulesOf(g)
        /\ "scan" \notin mixed /\ refresher.pc = "check" /\ refresher.before = active =>
              refresher.items = GranulesOf(active)

BothInv == HarvestInv /\ RefreshInv /\ FingerprintInv

(* What the writes of a job's row keep: a requested cancel stays requested, *)
(* no cancelled row becomes succeeded, and a row without a cancel gets the  *)
(* status that is written unless it is over.                                *)
LEMMA UpdatedRow ==
    ASSUME NEW r \in JobState, NEW st \in {"running", "succeeded", "failed", "cancelled"}
    PROVE  /\ Updated(r, st) \in JobState
           /\ Updated(r, st).gen = r.gen
           /\ (r.cancel => r.status # "succeeded") => (Updated(r, st).cancel => Updated(r, st).status # "succeeded")
           /\ ~r.cancel /\ st # "cancelled" =>
                 /\ ~Updated(r, st).cancel
                 /\ Updated(r, st).status = IF r.status \in Open THEN st ELSE r.status
  <1>1. CASE r.status \notin Open
    BY <1>1 DEF Updated, JobState
  <1>2. CASE r.status \in Open
    <2>1. Updated(r, st) = [r EXCEPT !.status = IF r.cancel /\ st # "cancelled" THEN "cancelling" ELSE st,
                                     !.cancel = r.cancel \/ st = "cancelled"]
      BY <1>2 DEF Updated
    <2>2. Updated(r, st).gen = r.gen
      BY <2>1 DEF JobState
    <2>3. Updated(r, st).status = IF r.cancel /\ st # "cancelled" THEN "cancelling" ELSE st
      BY <2>1 DEF JobState
    <2>4. Updated(r, st).cancel = (r.cancel \/ st = "cancelled")
      BY <2>1 DEF JobState
    <2>5. Updated(r, st) \in JobState
      BY <2>1, Zenon DEF JobState, Open
    <2>6. QED
      BY <1>2, <2>2, <2>3, <2>4, <2>5, Zenon
  <1>3. QED
    BY <1>1, <1>2

LEMMA CancelledRow ==
    ASSUME NEW r \in JobState
    PROVE  /\ Cancelled(r) \in JobState
           /\ r.status \in Open => Cancelled(r).status # "succeeded"
  <1>1. Cancelled(r) \in JobState
    <2>1. CASE r.status = "queued"
      BY <2>1, Zenon DEF Cancelled, JobState, Open
    <2>2. CASE r.status = "running"
      BY <2>2, Zenon DEF Cancelled, JobState, Open
    <2>3. CASE r.status \notin {"queued", "running"}
      BY <2>3, Zenon DEF Cancelled, JobState, Open
    <2>4. QED
      BY <2>1, <2>2, <2>3
  <1>2. ASSUME r.status \in Open PROVE Cancelled(r).status # "succeeded"
    BY <1>2 DEF Cancelled, JobState, Open
  <1>3. QED
    BY <1>1, <1>2

LEMMA ResetRow ==
    ASSUME NEW r \in JobState
    PROVE  /\ Reset(r) \in JobState
           /\ (r.cancel => r.status # "succeeded") => (Reset(r).cancel => Reset(r).status # "succeeded")
  BY DEF Reset, JobState, Open

(* The granules of a generation are paths. *)
LEMMA GranulesType ==
    ASSUME TypeOK, NEW g \in 0 .. MaxGen
    PROVE  GranulesOf(g) \in SUBSET Paths
  BY MosaicAssumption DEF TypeOK, GranulesOf, Gens

(* Nothing under way is within the types. *)
LEMMA IdleTypes ==
    NoJob \in JobState /\ IdleWorker \in WorkerState /\ IdleRemover \in RemoverState /\ NoAuthor \in AuthorState
  BY MosaicAssumption
     DEF NoJob, IdleWorker, IdleRemover, NoAuthor, JobState, WorkerState, RemoverState, AuthorState

(* An author whose row is left open is the same author. *)
LEMMA LeftOpenAuthor ==
    ASSUME author \in AuthorState, NEW so \in BOOLEAN
    PROVE  /\ LeftOpen(so) \in AuthorState
           /\ LeftOpen(so).job = author.job /\ LeftOpen(so).left = (author.left \/ so)
  BY DEF LeftOpen, AuthorState

(* The invariant holds for a mosaic without a harvest. *)
LEMMA HarvestInit == Init => HarvestInv
  <1> SUFFICES ASSUME Init PROVE HarvestInv
    OBVIOUS
  <1>1. TypeOK
    BY IdleTypes, MosaicAssumption DEF Init, TypeOK
  <1>2. LockInv /\ GenerationInv /\ AuthorInv
    BY DEF Init, LockInv, GenerationInv, AuthorInv, NoAuthor, NoJob, IdleWorker, IdleRemover
  <1>3. ServedInv
    BY Zenon DEF Init, ServedInv, GranulesOf, IdleWorker, IdleRemover
  <1>4. QED
    BY <1>1, <1>2, <1>3 DEF HarvestInv

(* Every step of the worker, the requests and a restart preserves it. *)
LEMMA HarvestStep == HarvestInv /\ [Next]_vars => HarvestInv'
  <1> SUFFICES ASSUME HarvestInv, [Next]_vars PROVE HarvestInv'
    OBVIOUS
  <1> USE MosaicAssumption DEF HarvestInv, Jobs, Gens
  <1>a. ASSUME NEW j \in Jobs, CreateJob(j) PROVE HarvestInv'
    <2>1. TypeOK'
      <3>1. [NoJob EXCEPT !.status = "queued"] \in JobState
        BY IdleTypes DEF JobState, Open
      <3>2. job' \in [Jobs -> JobState]
        BY <1>a, <3>1 DEF CreateJob, TypeOK
      <3>3. QED
        BY <1>a, <3>1, <3>2 DEF CreateJob, catalog, TypeOK
    <2>2. LockInv'
      BY <1>a DEF CreateJob, catalog, TypeOK, LockInv, WorkerState, RemoverState
    <2>3. GenerationInv'
      BY <1>a, Zenon DEF CreateJob, catalog, TypeOK, LockInv, GenerationInv, WorkerState, RemoverState
    <2>4. ServedInv'
      BY <1>a DEF CreateJob, catalog, TypeOK, LockInv, GenerationInv, ServedInv, GranulesOf, WorkerState, RemoverState
    <2>5. AuthorInv'
      <3>1. /\ job[j].status = "none" /\ service # "deleted" /\ job'[j].status = "queued" /\ ~job'[j].cancel
            /\ \A k \in Jobs : k # j => job'[k] = job[k]
            /\ UNCHANGED <<worker, remover, service, active, author, former>>
        BY <1>a DEF CreateJob, catalog, TypeOK, NoJob
      <3>2. author.job # 0 /\ ~author.left => author.job \in Jobs /\ author.job # j
        BY <3>1 DEF TypeOK, AuthorState, AuthorInv
      <3>4. worker.pc = "refresh" /\ former.job # 0 /\ ~former.left => former.job \in Jobs /\ former.job # j
        BY <3>1 DEF TypeOK, AuthorState, AuthorInv
      <3>3. worker.pc # "idle" => worker.job \in Jobs /\ worker.job # j
        BY <3>1 DEF LockInv, AuthorInv
      <3> QED
        BY <3>1, <3>2, <3>3, <3>4, Zenon DEF AuthorInv
    <2>6. QED
      BY <2>1, <2>2, <2>3, <2>4, <2>5
  <1>b. ASSUME NEW j \in Jobs, CancelJob(j) PROVE HarvestInv'
    <2>1. TypeOK'
      <3>1. job' \in [Jobs -> JobState]
        BY <1>b, CancelledRow DEF CancelJob, TypeOK
      <3>2. QED
        BY <1>b, <3>1 DEF CancelJob, catalog, TypeOK
    <2>2. LockInv'
      BY <1>b DEF CancelJob, catalog, TypeOK, LockInv, WorkerState, RemoverState
    <2>3. GenerationInv'
      BY <1>b, Zenon DEF CancelJob, catalog, TypeOK, LockInv, GenerationInv, WorkerState, RemoverState
    <2>4. ServedInv'
      BY <1>b, Zenon DEF CancelJob, catalog, TypeOK, LockInv, GenerationInv, ServedInv, GranulesOf, WorkerState, RemoverState
    <2>5. AuthorInv'
      <3>1. job[j].status \in Open /\ job[j] \in JobState /\ job'[j] = Cancelled(job[j])
        BY <1>b DEF CancelJob, TypeOK
      <3>2. author.job # j \/ author.left
        BY <1>b DEF CancelJob, AuthorInv, Open, TypeOK
      <3>6. worker.pc = "refresh" => former.job # j \/ former.left
        BY <1>b DEF CancelJob, AuthorInv, Open, TypeOK
      <3>3. \A k \in Jobs \ {j} : job'[k] = job[k]
        BY <1>b DEF CancelJob, TypeOK
      <3>4. job'[j].status # "succeeded" /\ job'[j].status # "none" /\ job'[j].gen = job[j].gen
        BY <3>1, CancelledRow, Zenon DEF Cancelled, JobState, Open
      <3>5. QED
        BY <1>b, <3>2, <3>3, <3>4, <3>6 DEF CancelJob, catalog, AuthorInv, AuthorState, LockInv, TypeOK
    <2>6. QED
      BY <2>1, <2>2, <2>3, <2>4, <2>5
  <1>c. ASSUME NEW j \in Jobs, Claim(j) PROVE HarvestInv'
    <2>1. TypeOK'
      <3>1. Cancelled(job[j]) \in JobState
        BY CancelledRow DEF TypeOK
      <3>2. [job[j] EXCEPT !.status = "running"] \in JobState
        <4>1. job[j] \in JobState
          BY DEF TypeOK
        <4>2. QED
          BY <4>1 DEF JobState, Open
      <3>3. job' \in [Jobs -> JobState]
        BY <1>c, <3>1, <3>2, Zenon DEF Claim, TypeOK
      <3>4. [IdleWorker EXCEPT !.pc = "claimed", !.job = j] \in WorkerState
        <4>1. IdleWorker \in WorkerState /\ j \in 0 .. MaxJobs
          BY IdleTypes
        <4>2. QED
          BY <4>1, Zenon DEF WorkerState
      <3>5. worker' \in WorkerState
        BY <1>c, <3>4 DEF Claim, TypeOK
      <3>6. QED
        BY <1>c, <3>1, <3>2, <3>3, <3>4, <3>5 DEF Claim, catalog, TypeOK
    <2>2. LockInv'
      BY <1>c, Zenon DEF Claim, IdleWorker, catalog, TypeOK, LockInv, WorkerState, RemoverState
    <2>3. GenerationInv'
      BY <1>c, Zenon DEF Claim, IdleWorker, catalog, TypeOK, LockInv, GenerationInv, WorkerState, RemoverState
    <2>4. ServedInv'
      BY <1>c, Zenon DEF Claim, IdleWorker, catalog, TypeOK, LockInv, GenerationInv, ServedInv, GranulesOf, WorkerState, RemoverState
    <2>5. AuthorInv'
      <3>1. job[j].status = "queued" /\ ~job[j].cancel /\ job[j] \in JobState
        BY <1>c DEF Claim, Claimable, TypeOK
      <3>2. author.job # j \/ author.left
        BY <3>1 DEF AuthorInv, TypeOK
      <3>3. \A k \in Jobs \ {j} : job'[k] = job[k]
        BY <1>c DEF Claim, TypeOK
      <3>a. UNCHANGED <<active, author, service, remover>> /\ worker.pc = "idle" /\ author.job \in 0 .. MaxJobs
        BY <1>c DEF Claim, catalog, TypeOK, AuthorState
      <3>b. \A k \in Jobs \ {j} : job'[k].cancel => job'[k].status # "succeeded"
        BY <3>3 DEF AuthorInv
      <3>c. author'.job # 0 /\ ~author'.left =>
              ~job'[author'.job].cancel /\ job'[author'.job].status \in {"succeeded", "failed"}
        BY <3>2, <3>3, <3>a DEF AuthorInv
      <3>4. CASE service # "live"
        <4>1. job'[j] = Cancelled(job[j]) /\ UNCHANGED worker
          BY <1>c, <3>4 DEF Claim, TypeOK
        <4>2. job'[j].status # "succeeded"
          BY <3>1, <4>1, CancelledRow DEF Open
        <4>3. QED
          BY <3>a, <3>b, <3>c, <4>1, <4>2 DEF AuthorInv
      <3>5. CASE service = "live"
        <4>1. job'[j] = [job[j] EXCEPT !.status = "running"] /\ worker' = [IdleWorker EXCEPT !.pc = "claimed", !.job = j]
          BY <1>c, <3>5 DEF Claim, TypeOK
        <4>2. job'[j].status = "running" /\ ~job'[j].cancel
          BY <3>1, <4>1 DEF JobState
        <4>3. worker'.pc = "claimed" /\ worker'.job = j
          BY <4>1 DEF IdleWorker
        <4>4. QED
          BY <3>2, <3>a, <3>b, <3>c, <4>2, <4>3 DEF AuthorInv
      <3>6. QED
        BY <3>4, <3>5
    <2>6. QED
      BY <2>1, <2>2, <2>3, <2>4, <2>5
  <1>d. CASE RunLock
    <2>1. TypeOK'
      BY <1>d, Zenon DEF RunLock, Goto, catalog, TypeOK, WorkerState, RemoverState
    <2>2. LockInv'
      BY <1>d DEF RunLock, Goto, catalog, TypeOK, LockInv, WorkerState, RemoverState
    <2>3. GenerationInv'
      BY <1>d DEF RunLock, Goto, catalog, TypeOK, LockInv, GenerationInv, WorkerState, RemoverState
    <2>4. ServedInv'
      BY <1>d DEF RunLock, Goto, catalog, TypeOK, LockInv, GenerationInv, ServedInv, GranulesOf, WorkerState, RemoverState
    <2>5. AuthorInv'
      BY <1>d DEF RunLock, Goto, catalog, TypeOK, LockInv, GenerationInv, AuthorInv, WorkerState, RemoverState, JobState
    <2>6. QED
      BY <2>1, <2>2, <2>3, <2>4, <2>5
  <1>e. ASSUME NEW want \in SUBSET Paths, NEW preserve \in BOOLEAN, Begin(want, preserve) PROVE HarvestInv'
    <2>1. TypeOK'
      <3>1. GranulesOf(active) \in SUBSET Paths
        BY GranulesType DEF TypeOK
      <3>2. granules' \in [Gens -> SUBSET Paths]
        BY <1>e, <3>1 DEF Begin, TypeOK
      <3>3. worker \in WorkerState /\ active + 1 \in 0 .. MaxGen
        BY <1>e DEF Begin, TypeOK
      <3>4. [worker EXCEPT !.pc = "save", !.gen = active + 1, !.todo = want] \in WorkerState
        BY <3>3, Zenon DEF WorkerState
      <3>5. worker' \in WorkerState
        BY <1>e, <3>4 DEF Begin
      <3>6. QED
        BY <1>e, <3>1, <3>2, <3>3, <3>4, <3>5, Zenon DEF Begin, TypeOK
    <2>2. LockInv'
      BY <1>e DEF Begin, TypeOK, LockInv, WorkerState, RemoverState
    <2>3. GenerationInv'
      BY <1>e DEF Begin, TypeOK, LockInv, GenerationInv, WorkerState, RemoverState
    <2>4. ServedInv'
      BY <1>e DEF Begin, TypeOK, LockInv, GenerationInv, ServedInv, GranulesOf, WorkerState, RemoverState
    <2>5. AuthorInv'
      BY <1>e DEF Begin, TypeOK, LockInv, GenerationInv, AuthorInv, WorkerState, RemoverState, JobState
    <2>6. QED
      BY <2>1, <2>2, <2>3, <2>4, <2>5
  <1>f. CASE BeginFails
    <2>1. TypeOK'
      BY <1>f, Zenon DEF BeginFails, Goto, catalog, TypeOK, WorkerState, RemoverState
    <2>2. LockInv'
      BY <1>f DEF BeginFails, Goto, catalog, TypeOK, LockInv, WorkerState, RemoverState
    <2>3. GenerationInv'
      BY <1>f DEF BeginFails, Goto, catalog, TypeOK, LockInv, GenerationInv, WorkerState, RemoverState
    <2>4. ServedInv'
      BY <1>f DEF BeginFails, Goto, catalog, TypeOK, LockInv, GenerationInv, ServedInv, GranulesOf, WorkerState, RemoverState
    <2>5. AuthorInv'
      BY <1>f DEF BeginFails, Goto, catalog, TypeOK, LockInv, GenerationInv, AuthorInv, WorkerState, RemoverState, JobState
    <2>6. QED
      BY <2>1, <2>2, <2>3, <2>4, <2>5
  <1>g. CASE SaveGeneration
    <2>1. TypeOK'
      <3>1. worker' \in WorkerState
        BY <1>g, Zenon DEF SaveGeneration, Goto, TypeOK, WorkerState
      <3>2. granules' \in [Gens -> SUBSET Paths] /\ whole' \subseteq Gens /\ faults' \in 0 .. MaxFaults
        BY <1>g DEF SaveGeneration, Without, Fault, TypeOK
      <3>3. [job[worker.job] EXCEPT !.gen = worker.gen] \in JobState
        BY <1>g, Zenon DEF SaveGeneration, TypeOK, LockInv, JobState, WorkerState
      <3>4. job' \in [Jobs -> JobState]
        BY <1>g, <3>3, UpdatedRow, Zenon DEF SaveGeneration, TypeOK
      <3>5. QED
        BY <1>g, <3>1, <3>2, <3>3, <3>4, Zenon DEF SaveGeneration, TypeOK
    <2>2. LockInv'
      BY <1>g, Zenon DEF SaveGeneration, Goto, Without, Fault, TypeOK, LockInv, WorkerState, RemoverState
    <2>3. GenerationInv'
      <3>1. worker.gen = active + 1 /\ worker.pc = "save" /\ worker.job \in Jobs
        BY <1>g DEF SaveGeneration, GenerationInv, LockInv
      <3>2. CASE UNCHANGED <<granules, whole, faults>> /\ Goto("harvest")
        BY <1>g, <3>1, <3>2 DEF SaveGeneration, Goto, TypeOK, LockInv, GenerationInv, WorkerState
      <3>3. CASE whole' = whole \ {worker.gen} /\ Goto("fail")
        BY <1>g, <3>1, <3>3 DEF SaveGeneration, Goto, TypeOK, LockInv, GenerationInv, WorkerState
      <3>4. QED
        BY <1>g, <3>2, <3>3 DEF SaveGeneration
    <2>4. ServedInv'
      <3>1. worker.gen = active + 1 /\ worker.pc = "save" /\ worker.job \in Jobs
        BY <1>g DEF SaveGeneration, GenerationInv, LockInv
      <3>2. GranulesOf(active)' = GranulesOf(active)
        BY <1>g, <3>1 DEF SaveGeneration, Without, GranulesOf, TypeOK
      <3>3. worker'.pc # "refresh" /\ remover.pc # "refresh"
        BY <1>g DEF SaveGeneration, Goto, LockInv, TypeOK, WorkerState
      <3>4. QED
        BY <1>g, <3>1, <3>2, <3>3 DEF SaveGeneration, ServedInv
    <2>5. AuthorInv'
      <3>1. worker.gen = active + 1 /\ worker.pc = "save" /\ worker.job \in Jobs
        BY <1>g DEF SaveGeneration, GenerationInv, LockInv
      <3>2. author.job # worker.job \/ author.left
        BY <3>1 DEF AuthorInv
      <3>3. \A k \in Jobs \ {worker.job} : job'[k] = job[k]
        BY <1>g DEF SaveGeneration, TypeOK
      <3>a. UNCHANGED <<active, author, service, remover>> /\ author.job \in 0 .. MaxJobs
        BY <1>g DEF SaveGeneration, TypeOK, AuthorState
      <3>b. \A k \in Jobs \ {worker.job} : job'[k].cancel => job'[k].status # "succeeded"
        BY <3>3 DEF AuthorInv
      <3>c. author'.job # 0 /\ ~author'.left =>
              ~job'[author'.job].cancel /\ job'[author'.job].status \in {"succeeded", "failed"}
        BY <3>1, <3>2, <3>3, <3>a DEF AuthorInv
      <3>4. CASE job' = [job EXCEPT ![worker.job] = Updated([job[worker.job] EXCEPT !.gen = worker.gen], "running")] /\ Goto("harvest")
        <4> DEFINE numbered == [job[worker.job] EXCEPT !.gen = worker.gen]
        <4>1. /\ numbered \in JobState /\ numbered.gen = worker.gen
              /\ numbered.status = job[worker.job].status /\ numbered.cancel = job[worker.job].cancel
          BY <3>1, Zenon DEF TypeOK, JobState, WorkerState
        <4>2. job'[worker.job] = Updated(numbered, "running")
          BY <3>1, <3>4, Zenon DEF TypeOK
        <4>3. numbered.cancel => numbered.status # "succeeded"
          BY <3>1, <4>1 DEF AuthorInv
        <4>4. Updated(numbered, "running").status # "none" \/ numbered.status = "none"
          BY <4>1 DEF Updated, JobState, Open
        <4> HIDE DEF numbered
        <4>5. /\ job'[worker.job].gen = worker.gen
              /\ job'[worker.job].cancel => job'[worker.job].status # "succeeded"
              /\ job'[worker.job].status = "none" => job[worker.job].status = "none"
          BY <4>1, <4>2, <4>3, <4>4, UpdatedRow
        <4>6. worker'.job = worker.job /\ worker'.gen = worker.gen /\ worker'.pc = "harvest"
          BY <3>4 DEF Goto, TypeOK, WorkerState
        <4>7. QED
          BY <3>1, <3>2, <3>a, <3>b, <3>c, <4>5, <4>6 DEF AuthorInv
      <3>5. CASE UNCHANGED job /\ Goto("fail")
        <4>1. worker'.job = worker.job /\ worker'.pc = "fail"
          BY <3>5 DEF Goto, TypeOK, WorkerState
        <4>2. QED
          BY <1>g, <3>1, <3>5, <4>1 DEF SaveGeneration, AuthorInv, LockInv, TypeOK
      <3>6. QED
        BY <1>g, <3>4, <3>5 DEF SaveGeneration
    <2>6. QED
      BY <2>1, <2>2, <2>3, <2>4, <2>5
  <1>h. CASE HarvestCancelled
    <2>1. TypeOK'
      BY <1>h, Zenon DEF HarvestCancelled, Discard, Goto, Without, TypeOK, WorkerState, RemoverState
    <2>2. LockInv'
      BY <1>h DEF HarvestCancelled, Discard, Goto, Without, TypeOK, LockInv, WorkerState, RemoverState
    <2>3. GenerationInv'
      BY <1>h DEF HarvestCancelled, Discard, Goto, Without, TypeOK, LockInv, GenerationInv, WorkerState, RemoverState
    <2>4. ServedInv'
      BY <1>h DEF HarvestCancelled, Discard, Goto, Without, TypeOK, LockInv, GenerationInv, ServedInv, GranulesOf, WorkerState, RemoverState
    <2>5. AuthorInv'
      BY <1>h DEF HarvestCancelled, Discard, Goto, Without, TypeOK, LockInv, GenerationInv, AuthorInv, WorkerState, RemoverState, JobState
    <2>6. QED
      BY <2>1, <2>2, <2>3, <2>4, <2>5
  <1>i. ASSUME NEW p \in Paths, HarvestGranule(p) PROVE HarvestInv'
    <2>1. TypeOK'
      <3>1. worker' \in WorkerState
        BY <1>i, Zenon DEF HarvestGranule, TypeOK, WorkerState
      <3>2. granules' \in [Gens -> SUBSET Paths]
        BY <1>i, Zenon DEF HarvestGranule, TypeOK
      <3>3. whole' \subseteq Gens
        BY <1>i DEF HarvestGranule, TypeOK, GenerationInv, LockInv, WorkerState
      <3>4. QED
        BY <1>i, <3>1, <3>2, <3>3 DEF HarvestGranule, TypeOK
    <2>2. LockInv'
      BY <1>i, Zenon DEF HarvestGranule, TypeOK, LockInv, WorkerState, RemoverState
    <2>3. GenerationInv'
      BY <1>i DEF HarvestGranule, TypeOK, LockInv, GenerationInv, WorkerState, RemoverState
    <2>4. ServedInv'
      BY <1>i DEF HarvestGranule, TypeOK, LockInv, GenerationInv, ServedInv, GranulesOf, WorkerState, RemoverState
    <2>5. AuthorInv'
      BY <1>i, Zenon DEF HarvestGranule, TypeOK, LockInv, GenerationInv, AuthorInv, WorkerState, RemoverState, JobState
    <2>6. QED
      BY <2>1, <2>2, <2>3, <2>4, <2>5
  <1>j. CASE HarvestFails
    <2>1. TypeOK'
      BY <1>j, Zenon DEF HarvestFails, Discard, Goto, Without, TypeOK, WorkerState, RemoverState
    <2>2. LockInv'
      BY <1>j DEF HarvestFails, Discard, Goto, Without, TypeOK, LockInv, WorkerState, RemoverState
    <2>3. GenerationInv'
      BY <1>j DEF HarvestFails, Discard, Goto, Without, TypeOK, LockInv, GenerationInv, WorkerState, RemoverState
    <2>4. ServedInv'
      BY <1>j DEF HarvestFails, Discard, Goto, Without, TypeOK, LockInv, GenerationInv, ServedInv, GranulesOf, WorkerState, RemoverState
    <2>5. AuthorInv'
      BY <1>j DEF HarvestFails, Discard, Goto, Without, TypeOK, LockInv, GenerationInv, AuthorInv, WorkerState, RemoverState, JobState
    <2>6. QED
      BY <2>1, <2>2, <2>3, <2>4, <2>5
  <1>k. CASE Activate
    <2>1. TypeOK'
      <3>1. worker' \in WorkerState /\ active' \in 0 .. MaxGen
        BY <1>k, Zenon DEF Activate, TypeOK, WorkerState
      <3>2. author' \in AuthorState
        BY <1>k DEF Activate, TypeOK, LockInv, AuthorState
      <3> QED
        BY <1>k, <3>1, <3>2, Zenon DEF Activate, TypeOK
    <2>2. LockInv'
      BY <1>k DEF Activate, row, TypeOK, LockInv, WorkerState, RemoverState
    <2>3. GenerationInv'
      BY <1>k DEF Activate, row, TypeOK, LockInv, GenerationInv, WorkerState, RemoverState
    <2>4. ServedInv'
      BY <1>k, Zenon DEF Activate, row, TypeOK, LockInv, GenerationInv, ServedInv, GranulesOf, WorkerState, RemoverState
    <2>5. AuthorInv'
      <3>1. /\ worker.pc = "harvest" /\ worker'.pc = "refresh" /\ worker'.job = worker.job
            /\ ~job[worker.job].cancel /\ job[worker.job].status = "running"
            /\ active' = worker.gen /\ author'.job = worker.job /\ former' = author
            /\ job' = job /\ remover' = remover /\ service' = service
        BY <1>k DEF Activate, row, TypeOK, WorkerState
      <3>2. job[worker.job].gen = worker.gen /\ worker.gen > 0 /\ remover.pc # "refresh"
        BY <3>1 DEF AuthorInv, GenerationInv, LockInv, TypeOK
      <3>3. author.job # 0 /\ ~author.left =>
              ~job[author.job].cancel /\ job[author.job].status \in {"succeeded", "failed"}
        BY <3>1 DEF AuthorInv
      <3> QED
        BY <3>1, <3>2, <3>3 DEF AuthorInv
    <2>6. QED
      BY <2>1, <2>2, <2>3, <2>4, <2>5
  <1>l. CASE ActivateRefused
    <2>0. /\ worker.pc = "harvest" /\ worker'.pc \in {"cancel", "fail"}
          /\ granules' = Without(worker.gen) /\ whole' = whole \ {worker.gen}
          /\ UNCHANGED <<active, served, remover, odd>>
          /\ worker.gen # active /\ active \in Nat /\ remover.pc # "refresh"
      <3>1. /\ worker.pc = "harvest" /\ worker'.pc \in {"cancel", "fail"}
            /\ granules' = Without(worker.gen) /\ whole' = whole \ {worker.gen}
            /\ UNCHANGED <<active, served, remover, odd>>
        BY <1>l DEF ActivateRefused, Discard, Goto, TypeOK, WorkerState
      <3>2. worker.gen # active /\ active \in Nat /\ remover.pc # "refresh"
        BY <3>1 DEF GenerationInv, LockInv, TypeOK
      <3> QED
        BY <3>1, <3>2
    <2>1. TypeOK'
      BY <1>l, Zenon DEF ActivateRefused, Discard, Goto, Without, TypeOK, WorkerState, RemoverState
    <2>2. LockInv'
      BY <1>l, Zenon DEF ActivateRefused, Discard, Goto, Without, TypeOK, LockInv, WorkerState, RemoverState
    <2>3. GenerationInv'
      BY <2>0 DEF GenerationInv
    <2>4. ServedInv'
      <3>1. GranulesOf(active)' = GranulesOf(active)
        BY <2>0 DEF GranulesOf, Without, TypeOK
      <3> QED
        BY <2>0, <3>1 DEF ServedInv, GranulesOf
    <2>5. AuthorInv'
      BY <1>l, Zenon DEF ActivateRefused, Discard, Goto, Without, TypeOK, LockInv, GenerationInv, AuthorInv, WorkerState, RemoverState, JobState
    <2>6. QED
      BY <2>1, <2>2, <2>3, <2>4, <2>5
  <1>m. CASE Refresh
    <2>1. TypeOK'
      <3>1. worker' \in WorkerState
        BY <1>m DEF Refresh, Goto, TypeOK, WorkerState
      <3>2. served' \subseteq Paths
        BY <1>m, GranulesType DEF Refresh, TypeOK
      <3>3. QED
        BY <1>m, <3>1, <3>2 DEF Refresh, catalog, TypeOK
    <2>2. LockInv'
      BY <1>m DEF Refresh, Goto, catalog, TypeOK, LockInv, WorkerState, RemoverState
    <2>3. GenerationInv'
      BY <1>m DEF Refresh, Goto, catalog, TypeOK, LockInv, GenerationInv, WorkerState, RemoverState
    <2>4. ServedInv'
      BY <1>m DEF Refresh, Goto, catalog, TypeOK, LockInv, GenerationInv, ServedInv, GranulesOf, WorkerState, RemoverState
    <2>5. AuthorInv'
      BY <1>m DEF Refresh, Goto, catalog, TypeOK, LockInv, GenerationInv, AuthorInv, WorkerState, RemoverState, JobState
    <2>6. QED
      BY <2>1, <2>2, <2>3, <2>4, <2>5
  <1>n. CASE RefreshFails
    <2>1. TypeOK'
      <3>1. worker' \in WorkerState
        BY <1>n, Zenon DEF RefreshFails, Goto, TypeOK, WorkerState
      <3>2. active' \in 0 .. MaxGen /\ faults' \in 0 .. MaxFaults /\ author' \in AuthorState /\ former' \in AuthorState
        BY <1>n DEF RefreshFails, Fault, TypeOK, WorkerState, catalog
      <3>3. granules' \in [Gens -> SUBSET Paths] /\ whole' \subseteq Gens
        BY <1>n, Zenon DEF RefreshFails, Without, TypeOK, catalog
      <3>4. odd' \subseteq {"apart", "stranded"}
        BY <1>n, Zenon DEF RefreshFails, TypeOK
      <3>5. QED
        BY <1>n, <3>1, <3>2, <3>3, <3>4 DEF RefreshFails, TypeOK
    <2>2. LockInv'
      BY <1>n DEF RefreshFails, Goto, Without, Fault, catalog, TypeOK, LockInv, WorkerState, RemoverState
    <2>3. GenerationInv'
      BY <1>n DEF RefreshFails, Goto, Without, Fault, catalog, TypeOK, LockInv, GenerationInv, WorkerState, RemoverState
    <2>4. ServedInv'
      <3>1. CASE "apart" \in odd'
        BY <3>1 DEF ServedInv
      <3>2. CASE "apart" \notin odd'
        <4>1. /\ odd' = odd /\ active' = worker.prev /\ granules' = Without(worker.gen)
              /\ worker.pc = "refresh" /\ worker'.pc = "fail" /\ served' = served /\ remover' = remover
          BY <1>n, <3>2 DEF RefreshFails, Goto, TypeOK, WorkerState
        <4>2. served = GranulesOf(worker.prev)
          BY <3>2, <4>1 DEF ServedInv
        <4>3. /\ worker.prev \in 0 .. MaxGen /\ worker.gen \in 0 .. MaxGen /\ worker.prev # worker.gen
              /\ remover.pc # "refresh"
          BY <4>1 DEF GenerationInv, LockInv, TypeOK, WorkerState
        <4>4. GranulesOf(active)' = GranulesOf(worker.prev)
          BY <4>1, <4>3 DEF GranulesOf, Without, TypeOK
        <4> QED
          BY <4>1, <4>2, <4>3, <4>4 DEF ServedInv, GranulesOf
      <3> QED
        BY <3>1, <3>2
    <2>5. AuthorInv'
      BY <1>n DEF RefreshFails, Goto, Without, Fault, catalog, TypeOK, LockInv, GenerationInv, AuthorInv, WorkerState, RemoverState, JobState
    <2>6. QED
      BY <2>1, <2>2, <2>3, <2>4, <2>5
  <1>o. CASE Succeed
    <2>1. TypeOK'
      <3>1. job' \in [Jobs -> JobState]
        BY <1>o, UpdatedRow DEF Succeed, Leave, TypeOK, LockInv
      <3>2. granules' \in [Gens -> SUBSET Paths] /\ whole' \subseteq Gens
        BY <1>o, Zenon DEF Succeed, Pruned, TypeOK
      <3>5. author' \in AuthorState /\ former' \in AuthorState
        BY <1>o, LeftOpenAuthor, IdleTypes, Zenon DEF Succeed, Leave, TypeOK
      <3>3. odd' \subseteq {"apart", "stranded"} /\ faults' \in 0 .. MaxFaults
        BY <1>o DEF Succeed, Leave, Fault, TypeOK
      <3>4. QED
        BY <1>o, <3>1, <3>2, <3>3, <3>5, IdleTypes DEF Succeed, Leave, TypeOK
    <2>2. LockInv'
      BY <1>o, Zenon DEF Succeed, Leave, Pruned, IdleWorker, Fault, TypeOK, LockInv, WorkerState, RemoverState
    <2>3. GenerationInv'
      BY <1>o DEF Succeed, Leave, Pruned, IdleWorker, Fault, TypeOK, LockInv, GenerationInv, WorkerState, RemoverState
    <2>4. ServedInv'
      BY <1>o, Zenon DEF Succeed, Leave, Pruned, IdleWorker, Fault, TypeOK, LockInv, GenerationInv, ServedInv, GranulesOf, WorkerState, RemoverState
    <2>5. AuthorInv'
      <3>1. worker.job \in Jobs
        BY <1>o DEF Succeed, LockInv
      <3>2. \A k \in Jobs \ {worker.job} : job'[k] = job[k]
        BY <1>o, Zenon DEF Succeed, Leave, TypeOK
      <3>3. job'[worker.job] \in {job[worker.job], Updated(job[worker.job], "succeeded")}
        BY <1>o, <3>1, Zenon DEF Succeed, Leave, TypeOK
      <3>4. job'[worker.job].cancel => job'[worker.job].status # "succeeded"
        BY <3>1, <3>3, UpdatedRow DEF AuthorInv, TypeOK
      <3>5. /\ author'.job = author.job
            /\ author'.left = (author.left \/ (job'[worker.job].status \in Open /\ author.job = worker.job))
        BY <1>o, LeftOpenAuthor, Zenon DEF Succeed, Leave, TypeOK
      <3>6. author.job # 0 /\ ~author'.left =>
              ~job'[author.job].cancel /\ job'[author.job].status \in {"succeeded", "failed"}
        <4>1. CASE author.job = worker.job
          <5> SUFFICES ASSUME author.job # 0, ~author'.left
                       PROVE  ~job'[worker.job].cancel /\ job'[worker.job].status \in {"succeeded", "failed"}
            BY <4>1, Zenon
          <5>1. ~author.left /\ job'[worker.job].status \notin Open
            BY <3>5, <4>1, Zenon
          <5>2. ~job[worker.job].cancel /\ job[worker.job].status \in {"succeeded", "failed", "running"}
            BY <4>1, <5>1, Zenon DEF AuthorInv
          <5>3. CASE job'[worker.job] = job[worker.job]
            BY <5>1, <5>2, <5>3 DEF Open
          <5>4. CASE job'[worker.job] = Updated(job[worker.job], "succeeded")
            BY <3>1, <5>2, <5>4, UpdatedRow DEF TypeOK, Open
          <5>5. QED
            BY <3>3, <5>3, <5>4
        <4>2. CASE author.job # worker.job
          BY <3>2, <3>5, <4>2 DEF AuthorInv, TypeOK, AuthorState
        <4>3. QED
          BY <4>1, <4>2
      <3>7. worker'.pc = "idle"
        BY <1>o DEF Succeed, Leave, IdleWorker
      <3>8. QED
        BY <3>1, <3>2, <3>4, <3>5, <3>6, <3>7 DEF AuthorInv
    <2>6. QED
      BY <2>1, <2>2, <2>3, <2>4, <2>5
  <1>p. CASE FailRead
    <2>1. TypeOK'
      BY <1>p, Zenon DEF FailRead, Goto, row, catalog, TypeOK, WorkerState, RemoverState
    <2>2. LockInv'
      BY <1>p DEF FailRead, Goto, row, catalog, TypeOK, LockInv, WorkerState, RemoverState
    <2>3. GenerationInv'
      BY <1>p DEF FailRead, Goto, row, catalog, TypeOK, LockInv, GenerationInv, WorkerState, RemoverState
    <2>4. ServedInv'
      BY <1>p DEF FailRead, Goto, row, catalog, TypeOK, LockInv, GenerationInv, ServedInv, GranulesOf, WorkerState, RemoverState
    <2>5. AuthorInv'
      BY <1>p DEF FailRead, Goto, row, catalog, TypeOK, LockInv, GenerationInv, AuthorInv, WorkerState, RemoverState, JobState
    <2>6. QED
      BY <2>1, <2>2, <2>3, <2>4, <2>5
  <1>q. CASE FailWrite
    <2>1. TypeOK'
      <3>1. job' \in [Jobs -> JobState]
        BY <1>q, UpdatedRow DEF FailWrite, Leave, TypeOK, LockInv
      <3>2. granules' \in [Gens -> SUBSET Paths] /\ whole' \subseteq Gens
        BY <1>q DEF FailWrite, Pruned, TypeOK
      <3>5. author' \in AuthorState /\ former' \in AuthorState
        BY <1>q, LeftOpenAuthor, IdleTypes, Zenon DEF FailWrite, Leave, TypeOK
      <3>3. odd' \subseteq {"apart", "stranded"} /\ faults' \in 0 .. MaxFaults
        BY <1>q DEF FailWrite, Leave, Fault, TypeOK
      <3>4. QED
        BY <1>q, <3>1, <3>2, <3>3, <3>5, IdleTypes, Zenon DEF FailWrite, Leave, TypeOK
    <2>2. LockInv'
      BY <1>q, Zenon DEF FailWrite, Leave, IdleWorker, Fault, TypeOK, LockInv, WorkerState, RemoverState
    <2>3. GenerationInv'
      BY <1>q, Zenon DEF FailWrite, Leave, IdleWorker, Fault, TypeOK, LockInv, GenerationInv, WorkerState, RemoverState
    <2>4. ServedInv'
      BY <1>q, Zenon DEF FailWrite, Leave, IdleWorker, Fault, TypeOK, LockInv, GenerationInv, ServedInv, GranulesOf, WorkerState, RemoverState
    <2>5. AuthorInv'
      <3>1. worker.job \in Jobs
        BY <1>q DEF FailWrite, LockInv
      <3>2. \A k \in Jobs \ {worker.job} : job'[k] = job[k]
        BY <1>q DEF FailWrite, Leave, TypeOK
      <3>3. job'[worker.job] \in {job[worker.job], Updated(job[worker.job], "failed")}
        BY <1>q, <3>1 DEF FailWrite, Leave, TypeOK
      <3>4. job'[worker.job].cancel => job'[worker.job].status # "succeeded"
        BY <3>1, <3>3, UpdatedRow DEF AuthorInv, TypeOK
      <3>5. /\ author'.job = author.job
            /\ author'.left = (author.left \/ (job'[worker.job].status \in Open /\ author.job = worker.job))
        BY <1>q, LeftOpenAuthor, Zenon DEF FailWrite, Leave, TypeOK
      <3>6. author.job # 0 /\ ~author'.left =>
              ~job'[author.job].cancel /\ job'[author.job].status \in {"succeeded", "failed"}
        <4>1. CASE author.job = worker.job
          <5> SUFFICES ASSUME author.job # 0, ~author'.left
                       PROVE  ~job'[worker.job].cancel /\ job'[worker.job].status \in {"succeeded", "failed"}
            BY <4>1, Zenon
          <5>1. ~author.left /\ job'[worker.job].status \notin Open
            BY <3>5, <4>1, Zenon
          <5>2. ~job[worker.job].cancel /\ job[worker.job].status \in {"succeeded", "failed", "running"}
            BY <4>1, <5>1, Zenon DEF AuthorInv
          <5>3. CASE job'[worker.job] = job[worker.job]
            BY <5>1, <5>2, <5>3 DEF Open
          <5>4. CASE job'[worker.job] = Updated(job[worker.job], "failed")
            BY <3>1, <5>2, <5>4, UpdatedRow DEF TypeOK, Open
          <5>5. QED
            BY <3>3, <5>3, <5>4
        <4>2. CASE author.job # worker.job
          BY <3>2, <3>5, <4>2 DEF AuthorInv, TypeOK, AuthorState
        <4>3. QED
          BY <4>1, <4>2
      <3>7. worker'.pc = "idle"
        BY <1>q DEF FailWrite, Leave, IdleWorker
      <3>8. QED
        BY <3>1, <3>2, <3>4, <3>5, <3>6, <3>7 DEF AuthorInv
    <2>6. QED
      BY <2>1, <2>2, <2>3, <2>4, <2>5
  <1>r. CASE CancelWrite
    <2>1. TypeOK'
      <3>1. job' \in [Jobs -> JobState]
        BY <1>r, UpdatedRow DEF CancelWrite, Leave, TypeOK, LockInv
      <3>2. granules' \in [Gens -> SUBSET Paths] /\ whole' \subseteq Gens
        BY <1>r DEF CancelWrite, Pruned, TypeOK
      <3>5. author' \in AuthorState /\ former' \in AuthorState
        BY <1>r, LeftOpenAuthor, IdleTypes, Zenon DEF CancelWrite, Leave, TypeOK
      <3>3. odd' \subseteq {"apart", "stranded"} /\ faults' \in 0 .. MaxFaults
        BY <1>r DEF CancelWrite, Leave, Fault, TypeOK
      <3>4. QED
        BY <1>r, <3>1, <3>2, <3>3, <3>5, IdleTypes, Zenon DEF CancelWrite, Leave, TypeOK
    <2>2. LockInv'
      BY <1>r, Zenon DEF CancelWrite, Leave, IdleWorker, Fault, TypeOK, LockInv, WorkerState, RemoverState
    <2>3. GenerationInv'
      BY <1>r, Zenon DEF CancelWrite, Leave, IdleWorker, Fault, TypeOK, LockInv, GenerationInv, WorkerState, RemoverState
    <2>4. ServedInv'
      BY <1>r, Zenon DEF CancelWrite, Leave, IdleWorker, Fault, TypeOK, LockInv, GenerationInv, ServedInv, GranulesOf, WorkerState, RemoverState
    <2>5. AuthorInv'
      <3>1. worker.job \in Jobs
        BY <1>r, Zenon DEF CancelWrite, LockInv
      <3>2. \A k \in Jobs \ {worker.job} : job'[k] = job[k]
        BY <1>r, Zenon DEF CancelWrite, Leave, TypeOK
      <3>3. job'[worker.job] \in {job[worker.job], Updated(job[worker.job], "cancelled")}
        BY <1>r, <3>1, Zenon DEF CancelWrite, Leave, TypeOK
      <3>4. job'[worker.job].cancel => job'[worker.job].status # "succeeded"
        BY <3>1, <3>3, UpdatedRow DEF AuthorInv, TypeOK
      <3>5. /\ author'.job = author.job
            /\ author'.left = (author.left \/ (job'[worker.job].status \in Open /\ author.job = worker.job))
        BY <1>r, LeftOpenAuthor, Zenon DEF CancelWrite, Leave, TypeOK
      <3>6. author.job # 0 /\ ~author'.left =>
              ~job'[author.job].cancel /\ job'[author.job].status \in {"succeeded", "failed"}
        <4>1. CASE author.job = worker.job
          BY <1>r, <3>1, <3>3, <3>5, <4>1, UpdatedRow DEF CancelWrite, AuthorInv, TypeOK, Open
        <4>2. CASE author.job # worker.job
          BY <3>2, <3>5, <4>2 DEF AuthorInv, TypeOK, AuthorState
        <4>3. QED
          BY <4>1, <4>2
      <3>7. worker'.pc = "idle"
        BY <1>r DEF CancelWrite, Leave, IdleWorker
      <3>8. QED
        BY <3>1, <3>2, <3>4, <3>5, <3>6, <3>7 DEF AuthorInv
    <2>6. QED
      BY <2>1, <2>2, <2>3, <2>4, <2>5
  <1>s. ASSUME NEW p \in Paths, Remove(p) PROVE HarvestInv'
    <2>1. TypeOK'
      <3>1. remover' \in RemoverState
        BY <1>s DEF Remove, TypeOK, RemoverState
      <3>2. granules' \in [Gens -> SUBSET Paths] /\ whole' \subseteq Gens /\ active' \in 0 .. MaxGen
        BY <1>s DEF Remove, TypeOK, GranulesOf
      <3>3. QED
        BY <1>s, <3>1, <3>2 DEF Remove, TypeOK
    <2>2. LockInv'
      BY <1>s, Zenon DEF Remove, TypeOK, LockInv, WorkerState, RemoverState
    <2>3. GenerationInv'
      <3>1. active > 0 /\ active \in whole /\ active + 1 \in Gens
        BY <1>s DEF Remove, GranulesOf, GenerationInv, TypeOK
      <3>2. worker.pc \in {"idle", "claimed"}
        BY <1>s DEF Remove, LockInv
      <3>3. remover'.gen = active' /\ remover'.prev = active
        BY <1>s DEF Remove
      <3>4. active' = active + 1 /\ whole' = whole \cup {active + 1} /\ UNCHANGED worker
        BY <1>s, <3>1, Zenon DEF Remove
      <3>5. QED
        BY <3>1, <3>2, <3>3, <3>4, Zenon DEF GenerationInv, TypeOK
    <2>4. ServedInv'
      BY <1>s DEF Remove, TypeOK, LockInv, GenerationInv, ServedInv, GranulesOf, WorkerState, RemoverState
    <2>5. AuthorInv'
      <3>1. worker.pc \in {"idle", "claimed"} /\ UNCHANGED <<job, author, former, worker, service>>
        BY <1>s DEF Remove, LockInv, TypeOK, WorkerState
      <3>2. QED
        BY <3>1, Zenon DEF AuthorInv
    <2>6. QED
      BY <2>1, <2>2, <2>3, <2>4, <2>5
  <1>t. CASE Removed
    <2>1. TypeOK'
      <3>1. remover' \in RemoverState
        BY <1>t, IdleTypes DEF Removed
      <3>2. granules' \in [Gens -> SUBSET Paths] /\ whole' \subseteq Gens
        BY <1>t, Zenon DEF Removed, Pruned, TypeOK
      <3>3. served' \subseteq Paths
        BY <1>t, GranulesType DEF Removed, TypeOK
      <3>4. QED
        BY <1>t, <3>1, <3>2, <3>3 DEF Removed, TypeOK
    <2>2. LockInv'
      BY <1>t, Zenon DEF Removed, Pruned, IdleRemover, TypeOK, LockInv, WorkerState, RemoverState
    <2>3. GenerationInv'
      BY <1>t, Zenon DEF Removed, Pruned, IdleRemover, TypeOK, LockInv, GenerationInv, WorkerState, RemoverState
    <2>4. ServedInv'
      BY <1>t DEF Removed, Pruned, IdleRemover, TypeOK, LockInv, GenerationInv, ServedInv, GranulesOf, WorkerState, RemoverState
    <2>5. AuthorInv'
      BY <1>t DEF Removed, Pruned, IdleRemover, TypeOK, LockInv, GenerationInv, AuthorInv, WorkerState, RemoverState, JobState
    <2>6. QED
      BY <2>1, <2>2, <2>3, <2>4, <2>5
  <1>u. CASE RemoveFails
    <2>1. TypeOK'
      <3>1. remover' \in RemoverState
        BY <1>u, IdleTypes DEF RemoveFails
      <3>2. granules' \in [Gens -> SUBSET Paths] /\ whole' \subseteq Gens
        BY <1>u, Zenon DEF RemoveFails, Without, TypeOK, catalog
      <3>3. active' \in 0 .. MaxGen /\ faults' \in 0 .. MaxFaults /\ author' \in AuthorState /\ former' \in AuthorState
        BY <1>u DEF RemoveFails, Fault, TypeOK, RemoverState, catalog
      <3>4. odd' \subseteq {"apart", "stranded"}
        BY <1>u, Zenon DEF RemoveFails, TypeOK
      <3>5. QED
        BY <1>u, <3>1, <3>2, <3>3, <3>4, Zenon DEF RemoveFails, TypeOK
    <2>2. LockInv'
      BY <1>u, Zenon DEF RemoveFails, Without, Fault, IdleRemover, catalog, TypeOK, LockInv, WorkerState, RemoverState
    <2>3. GenerationInv'
      BY <1>u DEF RemoveFails, Without, Fault, IdleRemover, catalog, TypeOK, LockInv, GenerationInv, WorkerState, RemoverState
    <2>4. ServedInv'
      BY <1>u DEF RemoveFails, Without, Fault, IdleRemover, catalog, TypeOK, LockInv, GenerationInv, ServedInv, GranulesOf, WorkerState, RemoverState
    <2>5. AuthorInv'
      BY <1>u DEF RemoveFails, Without, Fault, IdleRemover, catalog, TypeOK, LockInv, GenerationInv, AuthorInv, WorkerState, RemoverState, JobState
    <2>6. QED
      BY <2>1, <2>2, <2>3, <2>4, <2>5
  <1>v. CASE Quiesce
    <2>1. TypeOK'
      BY <1>v DEF Quiesce, catalog, TypeOK, WorkerState, RemoverState
    <2>2. LockInv'
      BY <1>v, Zenon DEF Quiesce, catalog, TypeOK, LockInv, WorkerState, RemoverState
    <2>3. GenerationInv'
      BY <1>v, Zenon DEF Quiesce, catalog, TypeOK, LockInv, GenerationInv, WorkerState, RemoverState
    <2>4. ServedInv'
      BY <1>v, Zenon DEF Quiesce, catalog, TypeOK, LockInv, GenerationInv, ServedInv, GranulesOf, WorkerState, RemoverState
    <2>5. AuthorInv'
      BY <1>v DEF Quiesce, catalog, TypeOK, LockInv, GenerationInv, AuthorInv, WorkerState, RemoverState, JobState
    <2>6. QED
      BY <2>1, <2>2, <2>3, <2>4, <2>5
  <1>w. CASE DeleteLifecycle
    <2>1. TypeOK'
      <3>1. job' \in [Jobs -> JobState]
        BY <1>w, IdleTypes DEF DeleteLifecycle
      <3>2. QED
        BY <1>w, <3>1, IdleTypes DEF DeleteLifecycle, TypeOK
    <2>2. LockInv'
      BY <1>w, Zenon DEF DeleteLifecycle, NoJob, TypeOK, LockInv, WorkerState, RemoverState
    <2>3. GenerationInv'
      BY <1>w DEF DeleteLifecycle, NoJob, TypeOK, LockInv, GenerationInv, WorkerState, RemoverState
    <2>4. ServedInv'
      BY <1>w, Zenon DEF DeleteLifecycle, NoJob, TypeOK, LockInv, GenerationInv, ServedInv, GranulesOf, WorkerState, RemoverState
    <2>5. AuthorInv'
      BY <1>w DEF DeleteLifecycle, NoJob, NoAuthor, TypeOK, LockInv, GenerationInv, AuthorInv, WorkerState, RemoverState, JobState
    <2>6. QED
      BY <2>1, <2>2, <2>3, <2>4, <2>5
  <1>x. CASE Restart
    <2>1. TypeOK'
      <3>1. job' \in [Jobs -> JobState]
        BY <1>x, ResetRow DEF Restart, TypeOK
      <3>4. author' \in AuthorState /\ former' \in AuthorState
        BY <1>x, LeftOpenAuthor, IdleTypes, Zenon DEF Restart, TypeOK
      <3>2. served' \subseteq Paths
        BY <1>x, GranulesType, Zenon DEF Restart, TypeOK
      <3>5. crashes' \in 0 .. MaxCrashes /\ service' \in {"live", "blocked", "deleted"} /\ odd' \subseteq {"apart", "stranded"}
        BY <1>x DEF Restart, TypeOK
      <3>3. QED
        BY <1>x, <3>1, <3>2, <3>4, <3>5, IdleTypes, Zenon DEF Restart, TypeOK
    <2>2. LockInv'
      BY <1>x, Zenon DEF Restart, IdleWorker, IdleRemover, TypeOK, LockInv, WorkerState, RemoverState
    <2>3. GenerationInv'
      BY <1>x, Zenon DEF Restart, IdleWorker, IdleRemover, TypeOK, LockInv, GenerationInv, WorkerState, RemoverState
    <2>4. ServedInv'
      BY <1>x, Zenon DEF Restart, IdleWorker, IdleRemover, TypeOK, LockInv, GenerationInv, ServedInv, GranulesOf, WorkerState, RemoverState
    <2>5. AuthorInv'
      <3>1. \A k \in Jobs : job'[k].cancel => job'[k].status # "succeeded"
        BY <1>x, ResetRow, Zenon DEF Restart, TypeOK, AuthorInv
      <3>2. /\ author'.job = author.job
            /\ author'.left = (author.left \/ \E j \in Jobs : author.job = j /\ job[j].status \in Open)
        BY <1>x, LeftOpenAuthor, Zenon DEF Restart, TypeOK
      <3>3. author.job # 0 /\ ~author'.left =>
              ~job[author.job].cancel /\ job[author.job].status \in {"succeeded", "failed"}
        <4> SUFFICES ASSUME author.job # 0, ~author'.left
                     PROVE  ~job[author.job].cancel /\ job[author.job].status \in {"succeeded", "failed"}
          OBVIOUS
        <4>1. author.job \in Jobs
          BY DEF TypeOK, AuthorState
        <4>2. ~author.left /\ job[author.job].status \notin Open
          BY <3>2, <4>1, Zenon
        <4>3. QED
          BY <4>2, Zenon DEF AuthorInv, Open
      <3>4. \A j \in Jobs : job[j].status \in {"succeeded", "failed"} => job'[j] = job[j]
        BY <1>x DEF Restart, Reset, Open
      <3>5. author.job # 0 => author.job \in Jobs
        BY DEF TypeOK, AuthorState
      <3>6. worker'.pc = "idle"
        BY <1>x DEF Restart, IdleWorker
      <3>7. QED
        BY <3>1, <3>2, <3>3, <3>4, <3>5, <3>6, Zenon DEF AuthorInv
    <2>6. QED
      BY <2>1, <2>2, <2>3, <2>4, <2>5
  <1>y. CASE UNCHANGED vars
    <2>1. TypeOK'
      BY <1>y, Zenon DEF vars, TypeOK, WorkerState, RemoverState
    <2>2. LockInv'
      BY <1>y, Zenon DEF vars, TypeOK, LockInv, WorkerState, RemoverState
    <2>3. GenerationInv'
      BY <1>y, Zenon DEF vars, TypeOK, LockInv, GenerationInv, WorkerState, RemoverState
    <2>4. ServedInv'
      BY <1>y, Zenon DEF vars, TypeOK, LockInv, GenerationInv, ServedInv, GranulesOf, WorkerState, RemoverState
    <2>5. AuthorInv'
      BY <1>y, Zenon DEF vars, TypeOK, LockInv, GenerationInv, AuthorInv, WorkerState, RemoverState, JobState
    <2>6. QED
      BY <2>1, <2>2, <2>3, <2>4, <2>5
  <1>z. QED
    BY <1>a, <1>b, <1>c, <1>d, <1>e, <1>f, <1>g, <1>h, <1>i, <1>j, <1>k, <1>l, <1>m, <1>n, <1>o, <1>p, <1>q, <1>r, <1>s, <1>t, <1>u, <1>v, <1>w, <1>x, <1>y, Zenon
    DEF Next, Work, Request

-----------------------------------------------------------------------------
(* What a step of the mosaic may do to the source that a refresh reads: a   *)
(* deleted source stays deleted, and a generation that is held after the    *)
(* step was held before it, with the same granules, or is the next one that *)
(* was just activated.                                                      *)
LEMMA SourceStep ==
    ASSUME HarvestInv, [Next]_vars
    PROVE  /\ service = "deleted" => service' = "deleted"
           /\ service' # "deleted" =>
                 \A g \in Held' : \/ g \in Held /\ GranulesOf(g)' = GranulesOf(g)
                                  \/ g = active' /\ active' > active
  <1> USE MosaicAssumption DEF HarvestInv, Jobs, Gens
  <1>1. service = "deleted" => service' = "deleted"
    BY Zenon DEF Next, Work, Request, CreateJob, CancelJob, Claim, RunLock, BeginFails, Begin, SaveGeneration,
           HarvestCancelled, HarvestFails, HarvestGranule, Activate, ActivateRefused, Discard, Refresh, RefreshFails,
           Succeed, FailRead, FailWrite, CancelWrite, Leave, Remove, Removed, RemoveFails, Quiesce, DeleteLifecycle,
           Restart, vars
  <1> DEFINE Same(g) == g \in Held /\ GranulesOf(g)' = GranulesOf(g)
             Goal == \A g \in Held' : Same(g) \/ (g = active' /\ active' > active)
  <1>2. SUFFICES ASSUME service' # "deleted" PROVE Goal
    BY <1>1, <1>2
  <1>0. active \in 0 .. MaxGen /\ granules \in [Gens -> SUBSET Paths] /\ active \in Held
    BY DEF TypeOK, Held
  <1>a. ASSUME active' = active, worker'.pc # "refresh", remover'.pc # "refresh",
               active > 0 => granules'[active] = granules[active]
        PROVE  Goal
    BY <1>0, <1>a DEF Held, GranulesOf
  <1>b. ASSUME UNCHANGED <<active, granules, remover>>,
               worker'.pc = "refresh" => worker.pc = "refresh" /\ worker'.prev = worker.prev
        PROVE  Goal
    BY <1>b DEF Held, GranulesOf
  <1>3. CASE \E want \in SUBSET Paths, preserve \in BOOLEAN : Begin(want, preserve)
    <2>1. active' = active /\ worker'.pc = "save" /\ remover'.pc # "refresh"
      BY <1>3 DEF Begin, TypeOK, WorkerState, LockInv
    <2>2. active > 0 => granules'[active] = granules[active]
      BY <1>0, <1>3 DEF Begin
    <2>3. QED
      BY <1>a, <2>1, <2>2
  <1>4. CASE SaveGeneration
    <2>1. active' = active /\ worker'.pc \in {"harvest", "fail"} /\ remover'.pc # "refresh"
      BY <1>4 DEF SaveGeneration, Goto, TypeOK, WorkerState, LockInv
    <2>2. active > 0 => granules'[active] = granules[active]
      BY <1>0, <1>4 DEF SaveGeneration, Without, GenerationInv
    <2>3. QED
      BY <1>a, <2>1, <2>2
  <1>5. ASSUME worker.pc = "harvest", NEW pc \in {"cancel", "fail"}, Discard(pc)
        PROVE  Goal
    <2>1. active' = active /\ worker'.pc = pc /\ remover'.pc # "refresh"
      BY <1>5 DEF Discard, Goto, TypeOK, WorkerState, LockInv
    <2>2. active > 0 => granules'[active] = granules[active]
      BY <1>0, <1>5 DEF Discard, Without, GenerationInv
    <2>3. QED
      BY <1>a, <2>1, <2>2
  <1>6. CASE HarvestCancelled \/ HarvestFails \/ ActivateRefused
    BY <1>5, <1>6 DEF HarvestCancelled, HarvestFails, ActivateRefused
  <1>7. CASE \E p \in Paths : HarvestGranule(p)
    <2>1. active' = active /\ worker'.pc = "harvest" /\ remover'.pc # "refresh"
      BY <1>7 DEF HarvestGranule, TypeOK, WorkerState, LockInv
    <2>2. active > 0 => granules'[active] = granules[active]
      BY <1>0, <1>7 DEF HarvestGranule, GenerationInv
    <2>3. QED
      BY <1>a, <2>1, <2>2
  <1>8. CASE Activate
    <2>1. /\ active' = worker.gen /\ worker.gen = active + 1 /\ granules' = granules
          /\ worker'.prev = active /\ remover'.pc # "refresh"
      BY <1>8 DEF Activate, TypeOK, WorkerState, LockInv, GenerationInv
    <2>2. QED
      BY <1>0, <2>1 DEF Held, GranulesOf
  <1>9. CASE RefreshFails
    <2>1. worker.pc = "refresh" /\ worker'.pc = "fail" /\ remover'.pc # "refresh"
      BY <1>9 DEF RefreshFails, Goto, TypeOK, WorkerState, LockInv
    <2>2. CASE active' = worker.prev /\ granules' = Without(worker.gen)
      <3>1. worker.prev \in 0 .. MaxGen /\ worker.prev # worker.gen /\ worker.prev \in Held
        BY <1>0, <2>1 DEF GenerationInv, TypeOK, WorkerState, Held
      <3>2. worker.prev # 0 => granules'[worker.prev] = granules[worker.prev]
        BY <1>0, <2>2, <3>1 DEF Without
      <3>3. \A g \in Held' : g = worker.prev
        BY <2>1, <2>2, Zenon DEF Held
      <3>4. QED
        BY <3>1, <3>2, <3>3, Zenon DEF GranulesOf
    <2>3. CASE UNCHANGED catalog
      BY <1>a, <2>1, <2>3 DEF catalog
    <2>4. QED
      BY <1>9, <2>2, <2>3 DEF RefreshFails
  <1>10. CASE Succeed
    <2>1. active' = active /\ worker'.pc = "idle" /\ remover'.pc # "refresh"
      BY <1>10 DEF Succeed, Leave, IdleWorker, LockInv
    <2>2. active > 0 => granules'[active] = granules[active]
      BY <1>0, <1>10 DEF Succeed, Pruned, GenerationInv
    <2>3. QED
      BY <1>a, <2>1, <2>2
  <1>11. CASE FailWrite \/ CancelWrite
    BY <1>b, <1>11 DEF FailWrite, CancelWrite, Leave, IdleWorker
  <1>12. CASE \E p \in Paths : Remove(p)
    <2>1. /\ active' = active + 1 /\ worker'.pc # "refresh" /\ remover'.prev = active
          /\ active > 0 => granules'[active] = granules[active]
      BY <1>0, <1>12 DEF Remove, LockInv
    <2>2. QED
      BY <1>0, <2>1 DEF Held, GranulesOf
  <1>13. CASE Removed
    <2>1. active' = active /\ worker'.pc # "refresh" /\ remover'.pc # "refresh"
      BY <1>13 DEF Removed, IdleRemover, LockInv
    <2>2. active > 0 => granules'[active] = granules[active]
      BY <1>0, <1>13 DEF Removed, Pruned, GenerationInv
    <2>3. QED
      BY <1>a, <2>1, <2>2
  <1>14. CASE RemoveFails
    <2>1. remover.pc = "refresh" /\ worker'.pc # "refresh" /\ remover'.pc # "refresh"
      BY <1>14 DEF RemoveFails, IdleRemover, LockInv
    <2>2. CASE active' = remover.prev /\ granules' = Without(remover.gen)
      <3>1. remover.prev \in 0 .. MaxGen /\ remover.prev # remover.gen /\ remover.prev \in Held
        BY <1>0, <2>1 DEF GenerationInv, TypeOK, RemoverState, Held
      <3>2. remover.prev # 0 => granules'[remover.prev] = granules[remover.prev]
        BY <1>0, <2>2, <3>1 DEF Without
      <3>3. \A g \in Held' : g = remover.prev
        BY <2>1, <2>2, Zenon DEF Held
      <3>4. QED
        BY <3>1, <3>2, <3>3, Zenon DEF GranulesOf
    <2>3. CASE UNCHANGED catalog
      BY <1>a, <2>1, <2>3 DEF catalog
    <2>4. QED
      BY <1>14, <2>2, <2>3 DEF RemoveFails
  <1>15. CASE DeleteLifecycle
    BY <1>2, <1>15 DEF DeleteLifecycle
  <1>16. CASE Restart
    BY <1>a, <1>16 DEF Restart, IdleWorker, IdleRemover
  <1>17. CASE RunLock \/ BeginFails \/ Refresh \/ FailRead
    BY <1>b, <1>17 DEF RunLock, BeginFails, Refresh, FailRead, Goto, catalog, TypeOK, WorkerState
  <1>18. CASE Quiesce \/ UNCHANGED vars
    BY <1>b, <1>18 DEF Quiesce, vars, catalog
  <1>19. CASE \E j \in Jobs : CreateJob(j) \/ CancelJob(j)
    BY <1>b, <1>19 DEF CreateJob, CancelJob, catalog
  <1>20. CASE \E j \in Jobs : Claim(j)
    BY <1>b, <1>20, Zenon DEF Claim, IdleWorker, catalog
  <1>21. QED
    BY <1>3, <1>4, <1>6, <1>7, <1>8, <1>9, <1>10, <1>11, <1>12, <1>13, <1>14, <1>15, <1>16, <1>17, <1>18, <1>19, <1>20,
       Zenon
       DEF Next, Work, Request

(* What a step of the refresh keeps of the job, the worker and the          *)
(* Collection; it never takes an edit back.                                 *)
LEMMA RefreshStep ==
    ASSUME RefreshInv, active \in Nat, GranulesOf(active) \in SUBSET Paths, S!Next \/ S!Restart
    PROVE  RefreshInv' /\ (collection'.exists => collection'.doc >= collection.doc)
  <1> USE DEF RefreshInv
  <1> DEFINE Kept == collection'.exists => collection'.doc >= collection.doc
  <1>1. S!IdleRefresher \in RefresherState /\ S!Overtaken \in RefresherState
    BY Zenon DEF S!IdleRefresher, S!Overtaken, RefresherState
  <1>2. \A st \in {"none", "failed", "succeeded", "cancelled"} :
          S!Ended(st) \in RefreshState /\ S!Ended(st).status = st
    BY DEF S!Ended, RefreshState
  <1>3. S!IdleRefresher.pc = "idle" /\ S!Overtaken.pc \in {"idle", "overtaken"}
    BY DEF S!IdleRefresher, S!Overtaken
  <1> USE DEF Kept
  <1>4. CASE S!CreateJob \/ S!Schedule
    <2>1. S!CreateJob
      BY <1>4, Zenon DEF S!Schedule
    <2>2. refresh' \in RefreshState /\ refresher.pc \notin {"start", "scan", "check", "publish"} /\ collection.exists
      BY <2>1, Zenon DEF S!CreateJob, S!Pending, RefreshState
    <2>3. QED
      BY <2>1, <2>2 DEF S!CreateJob, CollectionState
  <1>5. CASE S!Remove
    <2>1. collection' \in CollectionState /\ ~collection'.exists
      BY <1>5 DEF S!Remove, CollectionState
    <2>2. QED
      BY <1>1, <1>2, <1>3, <1>5, <2>1, Zenon DEF S!Remove, S!NoRefresh
  <1>6. CASE S!Claim
    <2>1. /\ refresh' = [refresh EXCEPT !.status = "running"]
          /\ refresher' = [S!IdleRefresher EXCEPT !.pc = "start"] /\ UNCHANGED collection
      BY <1>6 DEF S!Claim
    <2>2. refresh' \in RefreshState /\ refresh'.status = "running"
      BY <2>1 DEF RefreshState
    <2>3. refresher' \in RefresherState /\ refresher'.pc = "start"
      BY <2>1 DEF RefresherState, S!IdleRefresher
    <2>4. QED
      BY <1>6, <2>1, <2>2, <2>3 DEF S!Claim, CollectionState
  <1>7. CASE S!Fail
    BY <1>1, <1>2, <1>3, <1>7 DEF S!Fail, CollectionState
  <1>8. CASE S!RefreshFails \/ S!ScanFails
    BY <1>7, <1>8 DEF S!RefreshFails, S!ScanFails
  <1>9. CASE S!GiveUp \/ S!FailureLost
    BY <1>1, <1>3, <1>9 DEF S!GiveUp, S!FailureLost, S!FailUnstored, CollectionState
  <1>10. CASE S!Start
    <2>1. refresher' \in RefresherState /\ refresher'.pc = "scan" /\ refresher'.doc = collection.doc
      BY <1>10, Zenon DEF S!Start, RefresherState, CollectionState
    <2>2. QED
      BY <1>10, <2>1 DEF S!Start, CollectionState
  <1>11. CASE S!Scan \/ S!Check
    <2>1. /\ refresher' \in RefresherState /\ refresher'.pc \in {"check", "publish"} /\ refresher'.doc = refresher.doc
          /\ refresher.pc \in {"scan", "check"}
      BY <1>11, Zenon DEF S!Scan, S!Check, RefresherState
    <2>2. QED
      BY <1>11, <2>1 DEF S!Scan, S!Check, CollectionState
  <1>12. CASE S!Publish
    <2>1. collection' \in CollectionState /\ collection'.doc = collection.doc
      BY <1>12 DEF S!Publish, S!Publishable, CollectionState, RefresherState
    <2>2. QED
      BY <1>1, <1>2, <1>3, <1>12, <2>1 DEF S!Publish, CollectionState
  <1>13. CASE S!Edit
    <2>1. collection' \in CollectionState /\ collection'.doc = collection.doc + 1 /\ collection'.exists = collection.exists
      <3>1. collection' = [collection EXCEPT !.doc = collection.doc + 1] /\ collection.doc \in Nat
        BY <1>13 DEF S!Edit, CollectionState
      <3>2. QED
        BY <3>1 DEF CollectionState
    <2>2. refresh' \in RefreshState /\ ~refresh'.current /\ refresh'.status = refresh.status
      BY <1>13, Zenon DEF S!Edit, RefreshState
    <2>3. QED
      BY <1>13, <2>1, <2>2 DEF S!Edit, CollectionState
  <1>14. CASE S!Cancel
    BY <1>1, <1>2, <1>3, <1>14 DEF S!Cancel, CollectionState
  <1>15. CASE S!Restart
    BY <1>1, <1>2, <1>3, <1>15 DEF S!Restart, CollectionState
  <1>16. QED
    BY <1>4, <1>5, <1>6, <1>8, <1>9, <1>10, <1>11, <1>12, <1>13, <1>14, <1>15 DEF S!Next, S!Work, S!Reconcile

(* What a step of the refresh keeps of the fingerprints, the source being   *)
(* as it was: the scan reads the granules of the source as it is now, and a *)
(* published fingerprint comes with what was scanned under it.              *)
LEMMA FingerprintStep ==
    ASSUME RefreshInv, FingerprintInv, S!Next, mixed' = Carried, UNCHANGED vars
    PROVE  FingerprintInv'
  <1>0. /\ UNCHANGED <<service, active>> /\ Held' = Held /\ active \in Held
        /\ \A g : GranulesOf(g)' = GranulesOf(g)
    BY DEF vars, Held, GranulesOf
  <1> SUFFICES ASSUME service # "deleted" PROVE FingerprintInv'
    BY <1>0 DEF FingerprintInv
  <1>1. S!IdleRefresher.pc = "idle" /\ S!Overtaken.pc \in {"idle", "overtaken"}
    BY DEF S!IdleRefresher, S!Overtaken
  <1>2. "scan" \notin mixed' => "scan" \notin mixed \/ refresher'.pc \notin {"check", "publish"}
    BY DEF Carried
  <1>3. CASE S!Publish
    <2>1. /\ collection'.items = refresher.items /\ collection'.fp = refresher.before
          /\ refresher.pc = "publish" /\ refresher'.pc = "idle"
      BY <1>1, <1>3 DEF S!Publish
    <2>2. "collection" \notin mixed' => "scan" \notin mixed
      BY <1>3 DEF Carried
    <2>3. QED
      BY <1>0, <2>1, <2>2, Zenon DEF FingerprintInv
  <1>4. CASE ~S!Publish
    <2>1. "collection" \notin mixed' => "collection" \notin mixed
      BY <1>4 DEF Carried
    <2>2. ASSUME UNCHANGED <<collection.fp, collection.items>>, refresher'.pc \notin {"check", "publish"}
          PROVE  FingerprintInv'
      BY <1>0, <2>1, <2>2, Zenon DEF FingerprintInv
    <2>3. CASE S!Fail \/ S!FailUnstored \/ S!GiveUp \/ S!Cancel
      BY <1>1, <2>2, <2>3 DEF S!Fail, S!FailUnstored, S!GiveUp, S!Cancel
    <2>4. CASE S!Claim
      BY <2>2, <2>4 DEF S!Claim, S!IdleRefresher
    <2>5. CASE S!Remove
      BY <2>5 DEF S!Remove
    <2>6. CASE S!Start
      BY <2>2, <2>6 DEF S!Start, RefreshInv, RefresherState
    <2>7. CASE S!CreateJob \/ S!Edit
      <3>1. UNCHANGED <<collection.fp, collection.items, refresher>>
        BY <2>7 DEF S!CreateJob, S!Edit, RefreshInv, CollectionState
      <3>2. QED
        BY <1>0, <1>2, <2>1, <3>1, Zenon DEF FingerprintInv
    <2>8. CASE S!Scan
      <3>1. UNCHANGED collection /\ refresher'.pc = "check" /\ refresher'.items = GranulesOf(active)
        BY <2>8 DEF S!Scan, RefreshInv, RefresherState
      <3>2. QED
        BY <1>0, <2>1, <3>1, Zenon DEF FingerprintInv
    <2>9. CASE S!Check
      <3>1. /\ UNCHANGED <<collection, refresher.items, refresher.before>>
            /\ refresher.pc = "check" /\ refresher'.pc = "publish" /\ refresher.before = active
        BY <2>9 DEF S!Check, RefreshInv, RefresherState
      <3>2. QED
        BY <1>0, <1>2, <2>1, <3>1, Zenon DEF FingerprintInv
    <2>10. QED
      BY <1>4, <2>3, <2>4, <2>5, <2>6, <2>7, <2>8, <2>9, Zenon
         DEF S!Next, S!Work, S!Reconcile, S!Schedule, S!RefreshFails, S!ScanFails, S!FailureLost
  <1>5. QED
    BY <1>3, <1>4

LEMMA BothInit == InitBoth => BothInv
  <1> SUFFICES ASSUME InitBoth PROVE BothInv
    OBVIOUS
  <1>1. HarvestInv
    BY HarvestInit DEF InitBoth
  <1>2. S!Init /\ active = 0
    BY Zenon DEF InitBoth, Init
  <1>3. RefreshInv
    BY <1>2 DEF RefreshInv, S!Init, S!NoRefresh, S!Ended, S!IdleRefresher, CollectionState, RefreshState, RefresherState
  <1>4. FingerprintInv
    BY <1>2 DEF FingerprintInv, S!Init, S!IdleRefresher, InitBoth, Init, Held, IdleWorker, IdleRemover
  <1>5. QED
    BY <1>1, <1>3, <1>4 DEF BothInv

(* Every step of the mosaic, of the refresh and a restart of both preserves *)
(* the invariant, and none takes an edit of the Collection back.            *)
LEMMA BothStep ==
    ASSUME BothInv, [NextBoth]_all
    PROVE  BothInv' /\ (collection'.exists => collection'.doc >= collection.doc)
  <1> USE DEF BothInv
  <1>1. [Next]_vars
    BY DEF NextBoth, Mosaic, BesideMosaic, Stac, BesideStac, RestartBoth, Next, all
  <1>2. HarvestInv'
    BY <1>1, HarvestStep, Zenon
  <1>3. active \in Nat /\ active' \in Nat
    BY <1>2, MosaicAssumption DEF HarvestInv, TypeOK
  <1>4. GranulesOf(active) \in SUBSET Paths
    BY GranulesType DEF HarvestInv, TypeOK
  <1>5. /\ service = "deleted" => service' = "deleted"
        /\ service' # "deleted" =>
              \A g \in Held' : \/ g \in Held /\ GranulesOf(g)' = GranulesOf(g)
                               \/ g = active' /\ active' > active
    BY <1>1, SourceStep, Zenon
  <1>6. CASE Mosaic
    <2>1. UNCHANGED <<collection, refresh, refresher>> /\ mixed' = MixedUp
      BY <1>6 DEF Mosaic, BesideMosaic
    <2>2. RefreshInv' /\ (collection'.exists => collection'.doc >= collection.doc)
      BY <2>1 DEF RefreshInv, CollectionState
    <2>3. FingerprintInv'
      <3> SUFFICES ASSUME service' # "deleted" PROVE FingerprintInv'
        BY DEF FingerprintInv
      <3>1. /\ "collection" \notin mixed' =>
                 "collection" \notin mixed /\ ~(active' > active /\ collection.fp = active')
            /\ "scan" \notin mixed' =>
                 /\ "scan" \notin mixed
                 /\ ~(active' > active /\ refresher.pc \in {"check", "publish"} /\ refresher.before = active')
                 /\ ~(active' < active /\ refresher.pc = "check" /\ refresher.before = active')
        BY <2>1 DEF MixedUp
      <3>2. ASSUME NEW g \in Held'
            PROVE  /\ "collection" \notin mixed' /\ collection'.fp = g => collection'.items = GranulesOf(g)'
                   /\ "scan" \notin mixed' /\ refresher'.pc = "publish" /\ refresher'.before = g =>
                         refresher'.items = GranulesOf(g)'
        <4>1. CASE g \in Held /\ GranulesOf(g)' = GranulesOf(g)
          BY <1>5, <2>1, <3>1, <4>1, Zenon DEF FingerprintInv
        <4>2. CASE g = active' /\ active' > active
          BY <2>1, <3>1, <4>2, Zenon
        <4>3. QED
          BY <1>5, <3>2, <4>1, <4>2
      <3>3. "scan" \notin mixed' /\ refresher'.pc = "check" /\ refresher'.before = active' =>
              refresher'.items = GranulesOf(active)'
        <4>1. CASE active' = active
          <5>1. active \in Held' /\ ~(active' > active)
            BY <1>3, <4>1 DEF Held
          <5>2. GranulesOf(active)' = GranulesOf(active)
            BY <1>5, <4>1, <5>1 DEF GranulesOf
          <5>3. QED
            BY <1>5, <2>1, <3>1, <4>1, <5>2, Zenon DEF FingerprintInv
        <4>2. CASE active' # active
          <5>1. active' > active \/ active' < active
            BY <1>3, <4>2
          <5>2. QED
            BY <2>1, <3>1, <5>1, Zenon
        <4>3. QED
          BY <4>1, <4>2
      <3>4. QED
        BY <3>2, <3>3, Zenon DEF FingerprintInv, GranulesOf
    <2>4. QED
      BY <1>2, <2>2, <2>3
  <1>7. CASE Stac
    <2>1. S!Next /\ mixed' = Carried /\ UNCHANGED vars
      BY <1>7 DEF Stac, BesideStac
    <2>2. QED
      BY <1>2, <1>3, <1>4, <2>1, RefreshStep, FingerprintStep
  <1>8. CASE RestartBoth
    <2>1. RefreshInv' /\ (collection'.exists => collection'.doc >= collection.doc)
      BY <1>3, <1>4, <1>8, RefreshStep, Zenon DEF RestartBoth
    <2>2. FingerprintInv'
      <3>1. /\ UNCHANGED <<collection, active, granules>> /\ (service' # "deleted" => service # "deleted")
            /\ mixed' = mixed \ {"scan"}
        BY <1>5, <1>8, Zenon DEF RestartBoth, Restart, S!Restart
      <3>2. refresher'.pc = "idle"
        BY <1>8 DEF RestartBoth, S!Restart, S!IdleRefresher
      <3>3. Held' \subseteq Held
        BY <1>8 DEF RestartBoth, Restart, IdleWorker, IdleRemover, Held
      <3>4. QED
        BY <3>1, <3>2, <3>3 DEF FingerprintInv, GranulesOf
    <2>3. QED
      BY <1>2, <2>1, <2>2
  <1>9. CASE UNCHANGED all
    <2>1. RefreshInv' /\ (collection'.exists => collection'.doc >= collection.doc)
      BY <1>9 DEF all, RefreshInv, CollectionState
    <2>2. FingerprintInv'
      BY <1>9, Zenon DEF all, vars, FingerprintInv, Held, GranulesOf
    <2>3. QED
      BY <1>2, <2>1, <2>2
  <1>10. QED
    BY <1>6, <1>7, <1>8, <1>9 DEF NextBoth

LEMMA BothAlways == SpecBoth => []BothInv
  <1>1. BothInv /\ [NextBoth]_all => BothInv'
    BY BothStep
  <1>2. QED
    BY BothInit, <1>1, PTL DEF SpecBoth

-----------------------------------------------------------------------------
(* The types hold of every mosaic, job table and worker that the harvests,  *)
(* the deletions and the restarts can reach.                                *)
THEOREM MosaicTypeCorrect == SpecBoth => []TypeOK
  <1>1. BothInv => TypeOK
    BY Zenon DEF BothInv, HarvestInv
  <1>2. QED
    BY BothAlways, <1>1, PTL

(* The live generation is always whole, and is what the open service shows  *)
(* whenever nobody holds the service's lock, through every harvest,         *)
(* deletion of granules, failed refresh and restart.                        *)
THEOREM LiveIsWhole == SpecBoth => []LiveGenerationWhole
  <1>1. BothInv => LiveGenerationWhole
    BY Zenon DEF BothInv, HarvestInv, LockInv, GenerationInv, ServedInv, LiveGenerationWhole
  <1>2. QED
    BY BothAlways, <1>1, PTL

(* requestCancel, updateJob, activateJobGeneration and resetInterrupted     *)
(* together: a harvest whose cancel was accepted is never live, unless its  *)
(* row stayed open after its activation, and never reported as succeeded.   *)
THEOREM CancelsHonoured == SpecBoth => []CancelHonoured
  <1>1. BothInv => CancelHonoured
    BY DEF BothInv, HarvestInv, AuthorInv, CancelHonoured, Jobs
  <1>2. QED
    BY BothAlways, <1>1, PTL

(* A Collection with the source's fingerprint has the source's granules,    *)
(* although a scan reads the fingerprint, the granules and the fingerprint  *)
(* again without a lock, and although generations are taken back: only a    *)
(* number that is given again, or one taken back between the scan and its   *)
(* second look, deceives it.                                                *)
THEOREM FingerprintsTrue == SpecBoth => []FingerprintTrue
  <1>1. BothInv => FingerprintTrue
    BY DEF BothInv, FingerprintInv, FingerprintTrue, Held
  <1>2. QED
    BY BothAlways, <1>1, PTL

(* No publication of a refresh, and no other step, takes an administrator's *)
(* edit of the Collection back.                                             *)
THEOREM EditsAlwaysKept == SpecBoth => EditsKept
  <1>1. BothInv /\ [NextBoth]_all => [collection'.exists => collection'.doc >= collection.doc]_all
    BY BothStep
  <1>2. QED
    BY BothAlways, <1>1, PTL DEF SpecBoth, EditsKept

=============================================================================
