--------------------------- MODULE TileJobsProofs ---------------------------
(***************************************************************************)
(* A quiesced scope is silent, a checkpoint hides no tile and a succeeded  *)
(* job is complete, for any jobs, chunks, tiles, workers and resources,    *)
(* and any number of restarts.                                             *)
(***************************************************************************)
EXTENDS TileJobs, FiniteSetTheorems, TLAPS

Held(w) == wk[w].at # "idle"

Underway(j) == jobs[j].status \in {"running", "cancelling"}

(* A job that was claimed before its chunks were there, and whose creation *)
(* has failed since.                                                       *)
Stillborn(j) == jobs[j].status \in {"failed", "none"} /\ j \notin Clear /\ creator[j] = "done" /\ ~HasChunks(j)

(* A job has one worker, and as long as it has one its row is under way.   *)
HolderInv ==
    /\ \A w \in Workers : Held(w) => wk[w].id \in Jobs
    /\ \A w, v \in Workers : Held(w) /\ Held(v) /\ wk[w].id = wk[v].id => w = v
    /\ \A w \in Workers :
          /\ wk[w].at \in {"claimed", "run"} => Underway(wk[w].id) \/ Stillborn(wk[w].id)
          /\ wk[w].at \in {"chunks", "finish"} => Underway(wk[w].id) /\ HasChunks(wk[w].id)

(* The chunks of a job are inserted at once, at the end of its creation,   *)
(* and one that succeeded has no tile left.                                *)
RowInv ==
    \A j \in Jobs :
        /\ creator[j] \in {"new", "checked"} => jobs[j].status = "none"
        /\ creator[j] = "inserted" => j \notin Clear
        /\ creator[j] # "done" => ~HasChunks(j) /\ jobs[j].status # "succeeded"
        /\ HasChunks(j) => \A c \in ChunksOf[j] : chunks[j][c].status # "none"
        /\ \A c \in Chunks :
              /\ chunks[j][c].next <= TilesIn[c]
              /\ chunks[j][c].status = "succeeded" => chunks[j][c].next = TilesIn[c]

(* The scope of a quiesce is blocked, so that no worker gets past its      *)
(* claim; once it has returned, the workers that were past it are gone or  *)
(* have nothing to write.                                                  *)
SilentInv ==
    /\ quiesce.at \in {"cancel", "poll", "done", "purged"} => quiesce.scope \in blocked
    /\ quiesce.at \in {"done", "purged"} =>
          \A w \in Workers :
              wk[w].at \in {"run", "chunks", "finish"} /\ InScope(wk[w].id, quiesce.scope) =>
                  wk[w].at = "run" /\ Stillborn(wk[w].id)

(* The offsets before n that had no effect on the cache. *)
Missed(j, c, n) == {o \in 0..(n - 1) : <<c, o>> \notin stored[j]}

(* What a runner will write is as accurate as the row it was read from. *)
RecordedInv ==
    /\ \A j \in Jobs, c \in Chunks : Cardinality(Missed(j, c, chunks[j][c].next)) <= chunks[j][c].attempts
    /\ \A w \in Workers, c \in Chunks :
          /\ rn[w][c].at # "none" => Cardinality(Missed(wk[w].id, c, rn[w][c].next)) <= rn[w][c].attempts
          /\ rn[w][c].at = "process" => rn[w][c].next < TilesIn[c]

(* A run with nothing to report so far: it may end with succeeded. *)
Clean(w) ==
    wk[w].at \in {"chunks", "finish"} /\ ~wk[w].interrupted /\ ~wk[w].cancelled /\ ~wk[w].failed

(* The tiles of the chunk took effect, except as many as its row counts.   *)
Complete(j, c) == Cardinality(Missed(j, c, TilesIn[c])) <= chunks[j][c].attempts

(* In a clean run the chunks that have no runner any more are complete,    *)
(* whether or not their last checkpoint was stored, and a runner's copy    *)
(* counts no failure that the row does not have.                           *)
CompleteInv ==
    /\ \A w \in Workers : Clean(w) =>
          \A c \in ChunksOf[wk[w].id] :
              /\ rn[w][c].at = "none" => Complete(wk[w].id, c)
              /\ rn[w][c].at # "none" => rn[w][c].attempts <= chunks[wk[w].id][c].attempts
    /\ \A j \in Jobs \ Clear : jobs[j].status = "succeeded" => \A c \in ChunksOf[j] : Complete(j, c)

JobsInv == RowsTyped /\ HolderInv /\ RowInv /\ SilentInv /\ RecordedInv /\ CompleteInv

-----------------------------------------------------------------------------
(* Rows and records. *)

(* The rows, workers and runners the actions build. *)
LEMMA Rows ==
    /\ NoJob \in JobRow /\ NoJob.status = "none"
    /\ NoChunks \in [Chunks -> ChunkState]
    /\ \A c \in Chunks : NoChunks[c].status = "none" /\ NoChunks[c].next = 0 /\ NoChunks[c].attempts = 0
    /\ IdleWorker \in WorkerState /\ IdleWorker.at = "idle"
    /\ IdleRunners \in [Chunks -> RunnerState]
    /\ \A c \in Chunks : IdleRunners[c].at = "none" /\ IdleRunners[c].next = 0
  BY Zenon DEF NoJob, JobRow, NoChunks, ChunkState, IdleWorker, WorkerState, IdleRunners, RunnerState

(* Writing the status of a row, and cancelling it. *)
LEMMA StatusWritten ==
    ASSUME NEW row \in JobRow, NEW s \in Active \cup Terminal
    PROVE  /\ [row EXCEPT !.status = s] \in JobRow
           /\ [row EXCEPT !.status = s].status = s
           /\ [row EXCEPT !.status = s].cancel = row.cancel
  BY DEF JobRow

LEMMA RowCancelled ==
    ASSUME NEW row \in JobRow
    PROVE  /\ CancelRow(row) \in JobRow
           /\ CancelRow(row).status = IF row.status = "queued" THEN "cancelled" ELSE "cancelling"
  BY Zenon DEF JobRow, CancelRow, Active, Terminal

(* A worker goes on to another place, or notes what happened to its run. *)
LEMMA WorkerMoved ==
    ASSUME NEW x \in WorkerState, NEW a \in {"idle", "claimed", "run", "chunks", "finish"}
    PROVE  /\ [x EXCEPT !.at = a] \in WorkerState
           /\ [x EXCEPT !.at = a].at = a
           /\ [x EXCEPT !.at = a].id = x.id
           /\ [x EXCEPT !.at = a].interrupted = x.interrupted
           /\ [x EXCEPT !.at = a].cancelled = x.cancelled
           /\ [x EXCEPT !.at = a].failed = x.failed
  BY DEF WorkerState

LEMMA WorkerNoted ==
    ASSUME NEW x \in WorkerState
    PROVE  /\ [x EXCEPT !.failed = TRUE] \in WorkerState
           /\ [x EXCEPT !.failed = TRUE].at = x.at /\ [x EXCEPT !.failed = TRUE].id = x.id
           /\ [x EXCEPT !.failed = TRUE].interrupted = x.interrupted
           /\ [x EXCEPT !.failed = TRUE].cancelled = x.cancelled
           /\ [x EXCEPT !.failed = TRUE].failed = TRUE
           /\ [x EXCEPT !.interrupted = TRUE] \in WorkerState
           /\ [x EXCEPT !.interrupted = TRUE].at = x.at /\ [x EXCEPT !.interrupted = TRUE].id = x.id
           /\ [x EXCEPT !.interrupted = TRUE].interrupted = TRUE
           /\ [x EXCEPT !.interrupted = TRUE].cancelled = x.cancelled
           /\ [x EXCEPT !.interrupted = TRUE].failed = x.failed
           /\ [x EXCEPT !.cancelled = TRUE] \in WorkerState
           /\ [x EXCEPT !.cancelled = TRUE].at = x.at /\ [x EXCEPT !.cancelled = TRUE].id = x.id
           /\ [x EXCEPT !.cancelled = TRUE].cancelled = TRUE
           /\ [x EXCEPT !.cancelled = TRUE].interrupted = x.interrupted
           /\ [x EXCEPT !.cancelled = TRUE].failed = x.failed
  BY Zenon DEF WorkerState

(* The offsets before none are none, and one offset more is one element    *)
(* more at most.                                                           *)
LEMMA MissedNone ==
    ASSUME NEW j, NEW c
    PROVE  Missed(j, c, 0) = {} /\ Cardinality(Missed(j, c, 0)) = 0
  <1>1. Missed(j, c, 0) = {}
    BY DEF Missed
  <1> QED
    BY <1>1, FS_EmptySet

LEMMA MissedFinite ==
    ASSUME NEW j, NEW c, NEW n \in Nat
    PROVE  IsFiniteSet(Missed(j, c, n)) /\ Cardinality(Missed(j, c, n)) \in Nat
  <1>1. IsFiniteSet(0..(n - 1))
    BY FS_Interval
  <1>2. Missed(j, c, n) \subseteq 0..(n - 1)
    BY DEF Missed
  <1> QED
    BY <1>1, <1>2, FS_Subset, FS_CardinalityType

LEMMA MissedNext ==
    ASSUME NEW j, NEW c, NEW n \in Nat
    PROVE  /\ Cardinality(Missed(j, c, n + 1)) <= Cardinality(Missed(j, c, n)) + 1
           /\ <<c, n>> \in stored[j] => Missed(j, c, n + 1) = Missed(j, c, n)
  <1>1. Missed(j, c, n + 1) = Missed(j, c, n) \/ Missed(j, c, n + 1) = Missed(j, c, n) \cup {n}
    BY DEF Missed
  <1>2. <<c, n>> \in stored[j] => Missed(j, c, n + 1) = Missed(j, c, n)
    BY DEF Missed
  <1>3. n \notin Missed(j, c, n)
    BY DEF Missed
  <1> QED
    BY <1>1, <1>2, <1>3, MissedFinite, FS_AddElement

(* Initially there is nothing. *)
LEMMA JobsInit == Init => JobsInv
  <1> SUFFICES ASSUME Init PROVE JobsInv
    OBVIOUS
  <1> USE TileJobsAssumption
  <1>1. RowsTyped
    <2>1. /\ jobs \in [Jobs -> JobRow] /\ chunks \in [Jobs -> [Chunks -> ChunkState]]
          /\ stored \in [Jobs -> SUBSET (Chunks \X Nat)]
          /\ creator \in [Jobs -> {"new", "checked", "inserted", "done"}]
      BY Rows DEF Init
    <2>2. wk \in [Workers -> WorkerState] /\ rn \in [Workers -> [Chunks -> RunnerState]]
      BY Rows DEF Init
    <2>3. blocked \subseteq Resources \cup {Workspace} /\ quiesce \in QuiesceState
      BY DEF Init, QuiesceState
    <2>5. closing \in BOOLEAN /\ fenced \in BOOLEAN
      BY Zenon DEF Init
    <2>6. restarts \in 0..MaxRestarts
      BY DEF Init
    <2>4. \A w \in Workers, c \in Chunks : rn[w][c].next <= TilesIn[c] /\ rn[w][c].at = "none"
      BY Rows DEF Init
    <2> QED
      BY <2>1, <2>2, <2>3, <2>4, <2>5, <2>6, Zenon DEF RowsTyped
  <1>2. HolderInv
    BY Rows DEF Init, HolderInv, Held
  <1>3. RowInv
    BY Rows DEF Init, RowInv, HasChunks
  <1>4. SilentInv
    BY DEF Init, SilentInv
  <1>5. RecordedInv
    BY Rows, MissedNone DEF Init, RecordedInv
  <1>6. CompleteInv
    BY Rows DEF Init, CompleteInv, Clean
  <1> QED
    BY <1>1, <1>2, <1>3, <1>4, <1>5, <1>6 DEF JobsInv

(* A step that leaves the clean runs and their rows alone, and stores      *)
(* succeeded for complete jobs only.                                       *)
LEMMA CompleteKept ==
    ASSUME CompleteInv, stored' = stored,
           \A v \in Workers : Clean(v)' =>
               Clean(v) /\ wk'[v].id = wk[v].id /\ rn'[v] = rn[v] /\ chunks'[wk[v].id] = chunks[wk[v].id],
           \A k \in Jobs \ Clear : jobs'[k].status = "succeeded" =>
               /\ chunks'[k] = chunks[k]
               /\ jobs[k].status = "succeeded" \/ \A c \in ChunksOf[k] : Complete(k, c)
    PROVE  CompleteInv'
  <1>1. \A k, c : chunks'[k] = chunks[k] => (Complete(k, c)' <=> Complete(k, c))
    BY Zenon DEF Complete, Missed
  <1>2. ASSUME NEW v \in Workers, Clean(v)', NEW c \in ChunksOf[wk'[v].id]
        PROVE  /\ rn'[v][c].at = "none" => Complete(wk[v].id, c)'
               /\ rn'[v][c].at # "none" => rn'[v][c].attempts <= chunks'[wk'[v].id][c].attempts
    <2>1. Clean(v) /\ wk'[v].id = wk[v].id /\ rn'[v] = rn[v] /\ chunks'[wk[v].id] = chunks[wk[v].id]
      BY <1>2, Zenon
    <2>2. /\ rn[v][c].at = "none" => Complete(wk[v].id, c)
          /\ rn[v][c].at # "none" => rn[v][c].attempts <= chunks[wk[v].id][c].attempts
      BY <1>2, <2>1 DEF CompleteInv
    <2>3. Complete(wk[v].id, c)' <=> Complete(wk[v].id, c)
      BY <2>1, Zenon DEF Complete, Missed
    <2> QED
      BY <2>1, <2>2, <2>3
  <1>4. \A k \in Jobs \ Clear : jobs'[k].status = "succeeded" => \A c \in ChunksOf[k] : Complete(k, c)'
    BY <1>1, Zenon DEF CompleteInv
  <1> QED
    BY <1>2, <1>4, Zenon DEF CompleteInv

-----------------------------------------------------------------------------
(* The steps that leave the workers, their runners and the chunks alone: a *)
(* job that is under way stays so, and no job comes to have succeeded.     *)
LEMMA FrameStep ==
    ASSUME JobsInv,
           jobs' \in [Jobs -> JobRow],
           \A j \in Jobs :
               /\ jobs[j].status \in {"running", "cancelling"} => jobs'[j].status \in {"running", "cancelling"}
               /\ jobs[j].status \in {"failed", "none"} => jobs'[j].status = jobs[j].status
               /\ jobs'[j].status = "succeeded" => jobs[j].status = "succeeded",
           blocked' \subseteq Resources \cup {Workspace}, quiesce' \in QuiesceState,
           quiesce'.at \in {"cancel", "poll", "done", "purged"} => quiesce'.scope \in blocked',
           quiesce'.at \in {"done", "purged"} =>
               /\ quiesce'.scope = quiesce.scope
               /\ \/ quiesce.at \in {"done", "purged"}
                  \/ \A j \in Jobs : InScope(j, quiesce.scope) => jobs[j].status \notin Active,
           closing' \in BOOLEAN, fenced' \in BOOLEAN, fenced => fenced',
           UNCHANGED <<chunks, stored, creator, wk, rn, restarts>>
    PROVE  JobsInv'
  <1>0. /\ RowsTyped /\ HolderInv /\ RowInv /\ SilentInv /\ RecordedInv /\ CompleteInv
        /\ chunks' = chunks /\ stored' = stored /\ creator' = creator /\ wk' = wk /\ rn' = rn /\ restarts' = restarts
    BY Zenon DEF JobsInv
  <1>1. \A j \in Jobs : (Underway(j) => Underway(j)') /\ (Stillborn(j) => Stillborn(j)')
    BY <1>0, Zenon DEF Underway, Stillborn, HasChunks
  <1>2. RowsTyped'
    BY <1>0, Zenon DEF RowsTyped
  <1>3. HolderInv'
    <2>1. \A v \in Workers : wk[v].at \in {"claimed", "run", "chunks", "finish"} => wk[v].id \in Jobs
      BY <1>0, Zenon DEF HolderInv, Held
    <2>2. \A j \in Jobs : HasChunks(j)' <=> HasChunks(j)
      BY <1>0, Zenon DEF HasChunks
    <2>3. \A v \in Workers : Held(v)' <=> Held(v)
      BY <1>0, Zenon DEF Held
    <2> QED
      BY <1>0, <1>1, <2>1, <2>2, <2>3, Zenon DEF HolderInv
  <1>4. RowInv'
    BY <1>0 DEF RowInv, HasChunks
  <1>5. SilentInv'
    <2>1. ASSUME quiesce'.at \in {"done", "purged"}, NEW v \in Workers, wk[v].at \in {"run", "chunks", "finish"},
                 InScope(wk[v].id, quiesce'.scope)
          PROVE  wk[v].at = "run" /\ Stillborn(wk[v].id)'
      <3>1. wk[v].id \in Jobs /\ InScope(wk[v].id, quiesce.scope)
        BY <1>0, <2>1, Zenon DEF HolderInv, Held
      <3>2. CASE quiesce.at \in {"done", "purged"}
        BY <1>0, <1>1, <2>1, <3>1, <3>2, Zenon DEF SilentInv
      <3>3. CASE jobs[wk[v].id].status \notin Active
        BY <1>0, <1>1, <2>1, <3>1, <3>3 DEF HolderInv, Underway, Active
      <3> QED
        BY <2>1, <3>1, <3>2, <3>3, Zenon
    <2> QED
      BY <1>0, <2>1, Zenon DEF SilentInv, InScope
  <1>6. RecordedInv'
    BY <1>0, Zenon DEF RecordedInv, Missed
  <1>7. CompleteInv'
    BY <1>0, CompleteKept, Zenon DEF Clean
  <1> QED
    BY <1>2, <1>3, <1>4, <1>5, <1>6, <1>7, Zenon DEF JobsInv

-----------------------------------------------------------------------------
(* The worker. *)

(* What the end of a run leaves behind: a worker that has no runner lets   *)
(* go of its job, and the row has its last status or is as it was.         *)
LEMMA WorkerEnds ==
    ASSUME JobsInv, NEW w \in Workers, Held(w), wk[w].at # "chunks",
           NEW s \in Terminal,
           jobs' = jobs \/ jobs' = Written(wk[w].id, s),
           s = "succeeded" => wk[w].id \in Clear \/ (wk[w].at = "finish" /\ Clean(w)),
           wk' = [wk EXCEPT ![w] = IdleWorker],
           UNCHANGED <<chunks, stored, creator, rn, blocked, quiesce, closing, fenced, restarts>>
    PROVE  JobsInv'
  <1> DEFINE j == wk[w].id
  <1>0. /\ RowsTyped /\ HolderInv /\ RowInv /\ SilentInv /\ RecordedInv /\ CompleteInv
        /\ j \in Jobs
    BY DEF JobsInv, HolderInv
  <1>1. /\ wk' \in [Workers -> WorkerState]
        /\ wk'[w].at = "idle"
        /\ \A v \in Workers \ {w} : wk'[v] = wk[v]
    BY <1>0, Rows, Zenon DEF RowsTyped
  <1>2. /\ jobs' \in [Jobs -> JobRow]
        /\ \A k \in Jobs \ {j} : jobs'[k] = jobs[k]
        /\ jobs'[j].status = jobs[j].status \/ (jobs'[j].status = s /\ ~fenced /\ jobs[j].status # "none")
    <2>1. CASE jobs' = jobs
      BY <1>0, <2>1 DEF RowsTyped
    <2>2. CASE ~fenced /\ jobs[j].status # "none" /\ jobs' = [jobs EXCEPT ![j].status = s]
      <3>1. jobs \in [Jobs -> JobRow] /\ jobs[j] \in JobRow
        BY <1>0 DEF RowsTyped
      <3>2. [jobs[j] EXCEPT !.status = s] \in JobRow /\ [jobs[j] EXCEPT !.status = s].status = s
        BY <3>1, StatusWritten, Zenon
      <3> HIDE DEF j
      <3> QED
        BY <1>0, <2>2, <3>1, <3>2, Zenon
    <2> QED
      BY <2>1, <2>2 DEF Written
  <1>3. \A v \in Workers \ {w} : Held(v) => wk[v].id # j
    BY <1>0, Zenon DEF HolderInv
  <1>4. \A c \in Chunks : rn[w][c].at = "none"
    BY <1>0, Zenon DEF RowsTyped
  <1>5. jobs[j].status # "none" => creator[j] \notin {"new", "checked"}
    BY <1>0, Zenon DEF RowInv
  <1>6. s = "succeeded" /\ jobs[j].status # "none" => creator[j] = "done"
    BY <1>0 DEF RowInv, HolderInv, RowsTyped
  <1>7. RowsTyped'
    <2>1. \A v \in Workers, c \in Chunks :
              rn[v][c].next <= TilesIn[c] /\ (rn[v][c].at # "none" => wk'[v].at = "chunks")
      BY <1>0, <1>1, <1>4, Zenon DEF RowsTyped
    <2> QED
      BY <1>0, <1>1, <1>2, <2>1, Zenon DEF RowsTyped
  <1>8. HolderInv'
    BY <1>0, <1>1, <1>2, <1>3 DEF HolderInv, Held, Underway, Stillborn, HasChunks
  <1>9. RowInv'
    BY <1>0, <1>2, <1>5, <1>6 DEF RowInv, HasChunks
  <1>10. SilentInv'
    <2>1. \A v \in Workers : wk'[v].at # "idle" =>
              /\ v # w /\ wk'[v] = wk[v] /\ wk[v].id \in Jobs /\ jobs'[wk[v].id] = jobs[wk[v].id]
      BY <1>0, <1>1, <1>2, <1>3, Zenon DEF HolderInv, Held
    <2> QED
      BY <1>0, <2>1 DEF SilentInv, Stillborn, HasChunks, InScope
  <1>11. RecordedInv'
    BY <1>0, <1>1, <1>4, Zenon DEF RecordedInv, Missed
  <1>12. CompleteInv'
    <2>1. \A v \in Workers : wk'[v].at \in {"chunks", "finish"} => v # w /\ wk'[v] = wk[v]
      BY <1>1
    <2>2. jobs'[j].status = "succeeded" /\ j \notin Clear => wk[w].at = "finish" /\ Clean(w)
      BY <1>0, <1>2, Zenon DEF HolderInv, Held, Underway, Stillborn, RowsTyped, WorkerState
    <2>3. jobs'[j].status = "succeeded" /\ j \notin Clear => \A c \in ChunksOf[j] : Complete(j, c)
      BY <1>0, <1>4, <2>2, TileJobsAssumption, Zenon DEF CompleteInv
    <2>4. \A k \in Jobs \ Clear : jobs'[k].status = "succeeded" =>
              chunks'[k] = chunks[k] /\ (jobs[k].status = "succeeded" \/ \A c \in ChunksOf[k] : Complete(k, c))
      BY <1>2, <2>3, Zenon
    <2>5. \A v \in Workers : Clean(v)' =>
              Clean(v) /\ wk'[v].id = wk[v].id /\ rn'[v] = rn[v] /\ chunks'[wk[v].id] = chunks[wk[v].id]
      BY <2>1, Zenon DEF Clean
    <2> QED
      BY <1>0, <2>4, <2>5, CompleteKept, Zenon
  <1> QED
    BY <1>7, <1>8, <1>9, <1>10, <1>11, <1>12, Zenon DEF JobsInv

(* A claim takes a job that is queued, and so has no worker. *)
LEMMA ClaimStep ==
    ASSUME JobsInv, NEW w \in Workers, Claim(w)
    PROVE  JobsInv'
  <1>0. /\ RowsTyped /\ HolderInv /\ RowInv /\ SilentInv /\ RecordedInv /\ CompleteInv
        /\ UNCHANGED <<chunks, stored, creator, rn, blocked, quiesce, closing, fenced, restarts>>
        /\ wk[w].at = "idle"
    BY DEF JobsInv, Claim
  <1>13. PICK j \in Jobs :
            /\ jobs[j].status = "queued"
            /\ jobs' = [jobs EXCEPT ![j].status = "running"]
            /\ wk' = wk \/ wk' = [wk EXCEPT ![w] = [IdleWorker EXCEPT !.at = "claimed", !.id = j]]
    BY Zenon DEF Claim, OldestEligible, Eligible
  <1>3. /\ jobs' \in [Jobs -> JobRow]
        /\ \A k \in Jobs \ {j} : jobs'[k] = jobs[k]
        /\ jobs'[j].status = "running"
    <2>1. jobs[j] \in JobRow /\ [jobs[j] EXCEPT !.status = "running"] \in JobRow
          /\ [jobs[j] EXCEPT !.status = "running"].status = "running"
      BY <1>0, StatusWritten, Zenon DEF RowsTyped, Active
    <2>2. jobs' = [jobs EXCEPT ![j] = [jobs[j] EXCEPT !.status = "running"]]
      BY <1>13, Zenon
    <2> QED
      BY <1>0, <2>1, <2>2, Zenon DEF RowsTyped
  <1>14. CASE wk' = wk
    <2>1. /\ blocked' \subseteq Resources \cup {Workspace} /\ quiesce' \in QuiesceState
          /\ closing' \in BOOLEAN /\ fenced' \in BOOLEAN
          /\ quiesce'.at \in {"cancel", "poll", "done", "purged"} => quiesce'.scope \in blocked'
      BY <1>0 DEF RowsTyped, SilentInv
    <2> QED
      BY <1>0, <1>13, <1>3, <1>14, <2>1, FrameStep
  <1> SUFFICES ASSUME wk' = [wk EXCEPT ![w] = [IdleWorker EXCEPT !.at = "claimed", !.id = j]]
               PROVE  JobsInv'
    BY <1>13, <1>14, Zenon
  <1>1. /\ jobs[j].status = "queued"
        /\ jobs' = [jobs EXCEPT ![j].status = "running"]
        /\ wk' = [wk EXCEPT ![w] = [IdleWorker EXCEPT !.at = "claimed", !.id = j]]
    BY <1>13, Zenon
  <1>2. /\ wk' \in [Workers -> WorkerState]
        /\ wk'[w].at = "claimed" /\ wk'[w].id = j
        /\ \A v \in Workers \ {w} : wk'[v] = wk[v]
    <2> DEFINE x == [IdleWorker EXCEPT !.at = "claimed", !.id = j]
    <2>1. x \in WorkerState /\ x.at = "claimed" /\ x.id = j
      BY <1>13, Zenon DEF IdleWorker, WorkerState
    <2> HIDE DEF x
    <2>2. wk' = [wk EXCEPT ![w] = x]
      BY <1>1, Zenon DEF x
    <2>3. wk \in [Workers -> WorkerState]
      BY <1>0, Zenon DEF RowsTyped
    <2> QED
      BY <2>1, <2>2, <2>3, Zenon
  <1>4. \A v \in Workers : Held(v) => wk[v].id # j /\ v # w
    BY <1>0, <1>1, Zenon DEF HolderInv, Held, Underway, Stillborn, RowsTyped, WorkerState
  <1>5. \A c \in Chunks : rn[w][c].at = "none"
    BY <1>0, Zenon DEF RowsTyped
  <1>6. \A v \in Workers : wk'[v].at \notin {"idle", "claimed"} => wk'[v] = wk[v] /\ jobs'[wk[v].id] = jobs[wk[v].id]
    BY <1>0, <1>2, <1>3, <1>4 DEF HolderInv, Held
  <1>7. RowsTyped'
    <2>1. \A v \in Workers, c \in Chunks :
              rn[v][c].next <= TilesIn[c] /\ (rn[v][c].at # "none" => wk'[v].at = "chunks")
      BY <1>0, <1>2, <1>5, Zenon DEF RowsTyped
    <2> QED
      BY <1>0, <1>2, <1>3, <2>1, Zenon DEF RowsTyped
  <1>8. HolderInv'
    BY <1>0, <1>2, <1>3, <1>4 DEF HolderInv, Held, Underway, Stillborn, HasChunks
  <1>9. RowInv'
    BY <1>0, <1>1, <1>3 DEF RowInv, HasChunks
  <1>10. SilentInv'
    BY <1>0, <1>6 DEF SilentInv, Stillborn, HasChunks, InScope
  <1>11. RecordedInv'
    BY <1>0, <1>2, <1>5, Zenon DEF RecordedInv, Missed
  <1>12. CompleteInv'
    <2>1. \A v \in Workers : Clean(v)' => Clean(v) /\ wk'[v] = wk[v]
      BY <1>6 DEF Clean
    <2>2. \A k \in Jobs : jobs'[k].status = "succeeded" => jobs[k].status = "succeeded"
      BY <1>3, Zenon
    <2> QED
      BY <1>0, <2>1, <2>2, CompleteKept, Zenon
  <1> QED
    BY <1>7, <1>8, <1>9, <1>10, <1>11, <1>12, Zenon DEF JobsInv

(* Under claimMu, the job of a blocked scope is cancelled instead of run. *)
LEMMA ClaimedStep ==
    ASSUME JobsInv, NEW w \in Workers, Claimed(w)
    PROVE  JobsInv'
  <1> DEFINE j == wk[w].id
  <1>0. /\ RowsTyped /\ HolderInv /\ RowInv /\ SilentInv /\ RecordedInv /\ CompleteInv
        /\ UNCHANGED <<chunks, stored, creator, rn, blocked, quiesce, closing, fenced, restarts>>
        /\ wk[w].at = "claimed" /\ Held(w) /\ j \in Jobs
    BY DEF JobsInv, Claimed, Held, HolderInv
  <1>1. CASE Blocked(j)
    <2>1. /\ jobs' = jobs \/ jobs' = Written(j, "cancelled")
          /\ wk' = [wk EXCEPT ![w] = IdleWorker]
      BY <1>1 DEF Claimed, Settle
    <2> QED
      BY <1>0, <2>1, WorkerEnds, Zenon DEF Terminal
  <1>2. CASE ~Blocked(j)
    <2>1. jobs' = jobs /\ wk' = [wk EXCEPT ![w].at = "run"]
      BY <1>2 DEF Claimed
    <2>2. /\ wk' \in [Workers -> WorkerState]
          /\ wk'[w].at = "run" /\ wk'[w].id = j
          /\ \A v \in Workers \ {w} : wk'[v] = wk[v]
      <3>1. /\ wk \in [Workers -> WorkerState] /\ wk[w] \in WorkerState
            /\ wk' = [wk EXCEPT ![w] = [wk[w] EXCEPT !.at = "run"]]
        BY <1>0, <2>1, Zenon DEF RowsTyped
      <3>2. PICK x \in WorkerState :
                x = [wk[w] EXCEPT !.at = "run"] /\ x.at = "run" /\ x.id = wk[w].id
        BY <3>1, WorkerMoved, Zenon
      <3> QED
        BY <3>1, <3>2
    <2>3. \A c \in Chunks : rn[w][c].at = "none"
      BY <1>0, Zenon DEF RowsTyped
    <2>4. quiesce.at \in {"done", "purged"} => ~InScope(j, quiesce.scope)
      BY <1>0, <1>2, TileJobsAssumption DEF SilentInv, InScope, Blocked, RowsTyped, QuiesceState
    <2>5. RowsTyped'
      BY <1>0, <2>1, <2>2, <2>3 DEF RowsTyped
    <2>6. HolderInv'
      BY <1>0, <2>1, <2>2 DEF HolderInv, Held, Underway, Stillborn, HasChunks
    <2>7. RowInv'
      BY <1>0, <2>1, Zenon DEF RowInv, HasChunks
    <2>8. SilentInv'
      BY <1>0, <2>1, <2>2, <2>4, Zenon DEF SilentInv, Stillborn, HasChunks, InScope
    <2>9. RecordedInv'
      BY <1>0, <2>2, <2>3 DEF RecordedInv, Missed
    <2>10. CompleteInv'
      <3>1. \A v \in Workers : Clean(v)' => Clean(v) /\ wk'[v] = wk[v]
        BY <2>2 DEF Clean
      <3> QED
        BY <1>0, <2>1, <3>1, CompleteKept, Zenon
    <2> QED
      BY <2>5, <2>6, <2>7, <2>8, <2>9, <2>10, Zenon DEF JobsInv
  <1> QED
    BY <1>1, <1>2

(* The chunks that are not done go to the runners, each with a copy of its *)
(* row; the ones that are done are complete.                               *)
LEMMA RunQueueStep ==
    ASSUME JobsInv, NEW w \in Workers, RunQueue(w)
    PROVE  JobsInv'
  <1> DEFINE j == wk[w].id
             Copy(c) == IF chunks[j][c].status \in {"none", "succeeded"} THEN IdleRunners[c]
                        ELSE [at |-> "queued", next |-> chunks[j][c].next, attempts |-> chunks[j][c].attempts]
  <1>0. /\ RowsTyped /\ HolderInv /\ RowInv /\ SilentInv /\ RecordedInv /\ CompleteInv
        /\ UNCHANGED <<jobs, chunks, stored, creator, blocked, quiesce, closing, fenced, restarts>>
        /\ wk[w].at = "run" /\ Held(w) /\ j \in Jobs /\ HasChunks(j)
        /\ rn' = [rn EXCEPT ![w] = [c \in Chunks |-> Copy(c)]]
        /\ wk' = [wk EXCEPT ![w].at = "chunks"]
    BY Zenon DEF JobsInv, RunQueue, Held, HolderInv
  <1>20. /\ RowsTyped /\ HolderInv /\ RowInv /\ SilentInv /\ RecordedInv /\ CompleteInv
         /\ chunks' = chunks /\ stored' = stored /\ fenced' = fenced /\ jobs' = jobs
    BY <1>0
  <1>1. /\ wk' \in [Workers -> WorkerState]
        /\ wk'[w].at = "chunks" /\ wk'[w].id = j
        /\ \A v \in Workers \ {w} : wk'[v] = wk[v]
    <2>1. /\ wk \in [Workers -> WorkerState] /\ wk[w] \in WorkerState
          /\ wk' = [wk EXCEPT ![w] = [wk[w] EXCEPT !.at = "chunks"]]
      BY <1>0 DEF RowsTyped
    <2>2. /\ [wk[w] EXCEPT !.at = "chunks"] \in WorkerState
          /\ [wk[w] EXCEPT !.at = "chunks"].at = "chunks"
          /\ [wk[w] EXCEPT !.at = "chunks"].id = j
      BY <2>1, WorkerMoved, Zenon
    <2> HIDE DEF j
    <2> QED
      BY <2>1, <2>2, Zenon
  <1>2. /\ \A c \in Chunks : chunks[j][c] \in ChunkState
        /\ \A c \in Chunks : Cardinality(Missed(j, c, chunks[j][c].next)) <= chunks[j][c].attempts
        /\ \A c \in Chunks : chunks[j][c].next <= TilesIn[c]
        /\ \A c \in Chunks : chunks[j][c].status = "succeeded" => chunks[j][c].next = TilesIn[c]
        /\ \A c \in ChunksOf[j] : chunks[j][c].status # "none"
    BY <1>0 DEF RowsTyped, RecordedInv, RowInv
  <1>3. \A c \in Chunks :
            /\ Copy(c) \in RunnerState
            /\ Copy(c).next <= TilesIn[c]
            /\ Copy(c).at \in {"none", "queued"}
            /\ Copy(c).at = "none" => chunks[j][c].status \in {"none", "succeeded"}
            /\ Copy(c).at # "none" => Cardinality(Missed(j, c, Copy(c).next)) <= Copy(c).attempts
    <2> SUFFICES ASSUME NEW c \in Chunks
                 PROVE  /\ Copy(c) \in RunnerState
                        /\ Copy(c).next <= TilesIn[c]
                        /\ Copy(c).at \in {"none", "queued"}
                        /\ Copy(c).at = "none" => chunks[j][c].status \in {"none", "succeeded"}
                        /\ Copy(c).at # "none" => Cardinality(Missed(j, c, Copy(c).next)) <= Copy(c).attempts
      BY Zenon
    <2>1. CASE chunks[j][c].status \in {"none", "succeeded"}
      BY <2>1, Rows, TileJobsAssumption
    <2>2. CASE chunks[j][c].status \notin {"none", "succeeded"}
      BY <1>2, <2>2, Zenon DEF ChunkState, RunnerState
    <2> QED
      BY <2>1, <2>2, Zenon
  <1> HIDE DEF Copy, j
  <1>4. /\ rn' \in [Workers -> [Chunks -> RunnerState]]
        /\ \A c \in Chunks : rn'[w][c] = Copy(c)
        /\ \A v \in Workers \ {w} : rn'[v] = rn[v]
    BY <1>0, <1>3, Zenon DEF RowsTyped
  <1>5. RowsTyped'
    BY <1>0, <1>1, <1>3, <1>4 DEF RowsTyped
  <1>6. HolderInv'
    <2>1. wk[w].id = j /\ (Underway(j) \/ Stillborn(j))
      BY <1>0 DEF HolderInv, j
    <2>2. Underway(j)
      BY <1>0, <2>1, Zenon DEF Stillborn
    <2> QED
      BY <1>0, <1>1, <2>1, <2>2 DEF HolderInv, Held, Underway, Stillborn, HasChunks
  <1>7. RowInv'
    BY <1>0, Zenon DEF RowInv, HasChunks
  <1>8. SilentInv'
    BY <1>0, <1>1, Zenon DEF SilentInv, Stillborn, HasChunks, InScope, j
  <1>9. RecordedInv'
    <2>1. \A c \in Chunks :
              /\ rn'[w][c].at # "none" => Cardinality(Missed(j, c, rn'[w][c].next)) <= rn'[w][c].attempts
              /\ rn'[w][c].at # "process"
      BY <1>3, <1>4
    <2>2. \A v \in Workers \ {w} : wk'[v] = wk[v] /\ rn'[v] = rn[v]
      BY <1>1, <1>4, Zenon
    <2> QED
      BY <1>20, <1>1, <2>1, <2>2, Zenon DEF RecordedInv, Missed
  <1>10. CompleteInv'
    <2>1. \A k, c : Complete(k, c)' <=> Complete(k, c)
      BY <1>20, Zenon DEF Complete, Missed
    <2>2. \A c \in ChunksOf[j] :
              /\ rn'[w][c].at = "none" => Complete(j, c)
              /\ rn'[w][c].at # "none" => rn'[w][c].attempts <= chunks[j][c].attempts
      <3> SUFFICES ASSUME NEW c \in ChunksOf[j]
                   PROVE  /\ rn'[w][c].at = "none" => Complete(j, c)
                          /\ rn'[w][c].at # "none" => rn'[w][c].attempts <= chunks[j][c].attempts
        BY Zenon
      <3>1. c \in Chunks /\ rn'[w][c] = Copy(c) /\ chunks[j][c] \in ChunkState
        BY <1>0, <1>2, <1>4, TileJobsAssumption
      <3>2. Copy(c).at = "none" => chunks[j][c].next = TilesIn[c]
        BY <1>2, <1>3, <3>1, Zenon
      <3>3. Copy(c).at # "none" => Copy(c).attempts = chunks[j][c].attempts
        BY <3>1, Rows, Zenon DEF Copy
      <3>4. chunks[j][c].attempts <= chunks[j][c].attempts
        BY <3>1 DEF ChunkState
      <3> QED
        BY <1>2, <3>1, <3>2, <3>3, <3>4, Zenon DEF Complete
    <2>3. ASSUME NEW v \in Workers, Clean(v)', NEW c \in ChunksOf[wk'[v].id]
          PROVE  /\ rn'[v][c].at = "none" => Complete(wk'[v].id, c)
                 /\ rn'[v][c].at # "none" => rn'[v][c].attempts <= chunks[wk'[v].id][c].attempts
      <3>1. CASE v = w
        BY <1>1, <2>2, <2>3, <3>1, Zenon
      <3>2. CASE v # w
        <4>1. wk'[v] = wk[v] /\ rn'[v] = rn[v]
          BY <1>1, <1>4, <3>2, Zenon
        <4>2. Clean(v)
          BY <2>3, <4>1, Zenon DEF Clean
        <4> QED
          BY <1>20, <2>3, <4>1, <4>2, Zenon DEF CompleteInv
      <3> QED
        BY <3>1, <3>2, Zenon
    <2>4. \A k \in Jobs \ Clear : jobs'[k].status = "succeeded" => \A c \in ChunksOf[k] : Complete(k, c)
      BY <1>20, Zenon DEF CompleteInv
    <2> QED
      BY <1>20, <2>1, <2>3, <2>4, Zenon DEF CompleteInv
  <1> QED
    BY <1>5, <1>6, <1>7, <1>8, <1>9, <1>10 DEF JobsInv

(* The row is read once the runners are gone. *)
LEMMA RunReadStep ==
    ASSUME JobsInv, NEW w \in Workers, RunRead(w)
    PROVE  JobsInv'
  <1> DEFINE j == wk[w].id
  <1>0. /\ RowsTyped /\ HolderInv /\ RowInv /\ SilentInv /\ RecordedInv /\ CompleteInv
        /\ UNCHANGED <<jobs, chunks, stored, creator, rn, blocked, quiesce, closing, fenced, restarts>>
        /\ wk[w].at = "chunks" /\ Held(w) /\ j \in Jobs
        /\ \A c \in Chunks : rn[w][c].at = "none"
    BY DEF JobsInv, RunRead, Held, HolderInv
  <1>1. /\ wk' \in [Workers -> WorkerState]
        /\ wk'[w].at = "finish" /\ wk'[w].id = j
        /\ wk'[w].interrupted = wk[w].interrupted /\ wk'[w].cancelled = wk[w].cancelled
        /\ wk'[w].failed = wk[w].failed
        /\ \A v \in Workers \ {w} : wk'[v] = wk[v]
    <2>1. PICK b \in BOOLEAN : wk' = [wk EXCEPT ![w] = [wk[w] EXCEPT !.at = "finish", !.seen = b]]
      <3>1. PICK b \in {FALSE, ~closing /\ jobs[j].cancel} :
                wk' = [wk EXCEPT ![w] = [wk[w] EXCEPT !.at = "finish", !.seen = b]]
        BY <1>0, Zenon DEF RunRead, RowsTyped
      <3>2. b \in BOOLEAN
        <4>1. FALSE \in BOOLEAN /\ (~closing /\ jobs[j].cancel) \in BOOLEAN
          OBVIOUS
        <4> QED
          BY <3>1, <4>1, Zenon
      <3> QED
        BY <3>1, <3>2, Zenon
    <2>2. wk[w] \in WorkerState
      BY <1>0 DEF RowsTyped
    <2>3. \A x \in WorkerState :
              /\ [x EXCEPT !.at = "finish", !.seen = b] \in WorkerState
              /\ [x EXCEPT !.at = "finish", !.seen = b].at = "finish"
              /\ [x EXCEPT !.at = "finish", !.seen = b].id = x.id
              /\ [x EXCEPT !.at = "finish", !.seen = b].interrupted = x.interrupted
              /\ [x EXCEPT !.at = "finish", !.seen = b].cancelled = x.cancelled
              /\ [x EXCEPT !.at = "finish", !.seen = b].failed = x.failed
      BY Zenon DEF WorkerState
    <2> QED
      BY <1>0, <2>1, <2>2, <2>3, Zenon DEF RowsTyped
  <1> HIDE DEF j
  <1>2. RowsTyped'
    BY <1>0, <1>1, Zenon DEF RowsTyped
  <1>3. HolderInv'
    BY <1>0, <1>1 DEF HolderInv, Held, Underway, Stillborn, HasChunks, j
  <1>4. RowInv'
    BY <1>0, Zenon DEF RowInv, HasChunks
  <1>5. SilentInv'
    BY <1>0, <1>1 DEF SilentInv, Stillborn, HasChunks, InScope, j
  <1>6. RecordedInv'
    BY <1>0, <1>1, Zenon DEF RecordedInv, Missed
  <1>7. CompleteInv'
    <2>1. \A v \in Workers : Clean(v)' => Clean(v) /\ wk'[v].id = wk[v].id
      BY <1>0, <1>1 DEF Clean, j
    <2> QED
      BY <1>0, <2>1, CompleteKept, Zenon
  <1> QED
    BY <1>2, <1>3, <1>4, <1>5, <1>6, <1>7 DEF JobsInv

-----------------------------------------------------------------------------
(* The chunk runners. *)

(* A checkpoint is the update of one chunk of one job, or none. *)
LEMMA ChunkWritten ==
    ASSUME RowsTyped, NEW j \in Jobs, NEW c \in Chunks, NEW row \in ChunkState,
           chunks' = chunks \/ chunks' \in Checkpointed(j, c, row)
    PROVE  /\ chunks' \in [Jobs -> [Chunks -> ChunkState]]
           /\ \A k \in Jobs, d \in Chunks : k # j \/ d # c => chunks'[k][d] = chunks[k][d]
           /\ chunks'[j][c] = chunks[j][c] \/ (chunks[j][c].status # "none" /\ chunks'[j][c] = row)
  <1>1. chunks \in [Jobs -> [Chunks -> ChunkState]]
    BY Zenon DEF RowsTyped
  <1>2. CASE chunks' = chunks
    BY <1>1, <1>2, Zenon
  <1>3. CASE chunks[j][c].status # "none" /\ chunks' = [chunks EXCEPT ![j][c] = row]
    BY <1>1, <1>3, Zenon
  <1> QED
    BY <1>2, <1>3, Zenon DEF Checkpointed

(* Everything a runner does but processing a tile: it moves on, its copy   *)
(* of the row may be written back, the job's row may say running again,    *)
(* and if it ends before its last tile the worker remembers why.           *)
LEMMA RunnerStep ==
    ASSUME JobsInv, NEW w \in Workers, NEW c \in Chunks, rn[w][c].at # "none",
           NEW a \in {"none", "loop", "process", "progress"},
           a = "process" => rn[w][c].next < TilesIn[c],
           rn' = [rn EXCEPT ![w][c].at = a],
           NEW s \in {"queued", "running", "cancelled", "succeeded"},
           s = "succeeded" => rn[w][c].next = TilesIn[c],
           chunks' = chunks \/ chunks' \in Checkpointed(wk[w].id, c, ChunkRow(w, c, s)),
           jobs' = jobs \/ jobs' = Written(wk[w].id, "running"),
           wk' = wk \/ wk' = [wk EXCEPT ![w].interrupted = TRUE] \/ wk' = [wk EXCEPT ![w].cancelled = TRUE],
           a = "none" =>
               \/ s = "succeeded"
               \/ wk' = [wk EXCEPT ![w].interrupted = TRUE]
               \/ wk' = [wk EXCEPT ![w].cancelled = TRUE],
           UNCHANGED <<stored, creator, blocked, quiesce, closing, fenced, restarts>>
    PROVE  JobsInv'
  <1> DEFINE j == wk[w].id
  <1>0. /\ RowsTyped /\ HolderInv /\ RowInv /\ SilentInv /\ RecordedInv /\ CompleteInv
        /\ stored' = stored /\ creator' = creator /\ blocked' = blocked /\ quiesce' = quiesce
        /\ closing' = closing /\ fenced' = fenced /\ restarts' = restarts
    BY Zenon DEF JobsInv
  <1>1. wk[w].at = "chunks" /\ j \in Jobs /\ Underway(j) /\ HasChunks(j)
    BY <1>0, Zenon DEF RowsTyped, HolderInv, Held
  <1>2. /\ wk' \in [Workers -> WorkerState]
        /\ \A v \in Workers :
              /\ wk'[v].at = wk[v].at /\ wk'[v].id = wk[v].id
              /\ ~wk'[v].interrupted => ~wk[v].interrupted
              /\ ~wk'[v].cancelled => ~wk[v].cancelled
              /\ wk'[v].failed = wk[v].failed
        /\ a = "none" => s = "succeeded" \/ wk'[w].interrupted \/ wk'[w].cancelled
    <2>1. wk \in [Workers -> WorkerState] /\ wk[w] \in WorkerState
      BY <1>0 DEF RowsTyped
    <2>2. CASE wk' = wk /\ (a = "none" => s = "succeeded")
      BY <2>1, <2>2
    <2>3. CASE wk' = [wk EXCEPT ![w].interrupted = TRUE]
      <3>1. PICK x \in WorkerState :
                /\ x = [wk[w] EXCEPT !.interrupted = TRUE]
                /\ x.at = wk[w].at /\ x.id = wk[w].id /\ x.cancelled = wk[w].cancelled /\ x.interrupted = TRUE
                /\ x.failed = wk[w].failed
        BY <2>1, WorkerNoted, Zenon
      <3>2. wk' = [wk EXCEPT ![w] = x]
        BY <2>1, <2>3, <3>1
      <3>3. wk' \in [Workers -> WorkerState] /\ wk'[w] = x /\ \A v \in Workers \ {w} : wk'[v] = wk[v]
        BY <2>1, <3>1, <3>2
      <3> QED
        BY <2>1, <3>1, <3>3, Zenon
    <2>4. CASE wk' = [wk EXCEPT ![w].cancelled = TRUE]
      <3>1. PICK x \in WorkerState :
                /\ x = [wk[w] EXCEPT !.cancelled = TRUE]
                /\ x.at = wk[w].at /\ x.id = wk[w].id /\ x.interrupted = wk[w].interrupted /\ x.cancelled = TRUE
                /\ x.failed = wk[w].failed
        BY <2>1, WorkerNoted, Zenon
      <3>2. wk' = [wk EXCEPT ![w] = x]
        BY <2>1, <2>4, <3>1
      <3>3. wk' \in [Workers -> WorkerState] /\ wk'[w] = x /\ \A v \in Workers \ {w} : wk'[v] = wk[v]
        BY <2>1, <3>1, <3>2, Zenon
      <3> QED
        BY <2>1, <3>1, <3>3, Zenon
    <2> QED
      BY <2>2, <2>3, <2>4, Zenon
  <1>3. /\ rn' \in [Workers -> [Chunks -> RunnerState]]
        /\ \A v \in Workers, d \in Chunks : v # w \/ d # c => rn'[v][d] = rn[v][d]
        /\ rn'[w][c].at = a /\ rn'[w][c].next = rn[w][c].next /\ rn'[w][c].attempts = rn[w][c].attempts
    <2>1. rn \in [Workers -> [Chunks -> RunnerState]] /\ rn[w][c] \in RunnerState
      BY <1>0 DEF RowsTyped
    <2>2. PICK r \in RunnerState : r.at = a /\ r.next = rn[w][c].next /\ r.attempts = rn[w][c].attempts
                                  /\ r = [rn[w][c] EXCEPT !.at = a]
      BY <2>1 DEF RunnerState
    <2>3. rn' = [rn EXCEPT ![w][c] = r]
      BY <2>2, Zenon
    <2> QED
      BY <2>1, <2>2, <2>3
  <1>4. /\ ChunkRow(w, c, s) \in ChunkState
        /\ ChunkRow(w, c, s).status = s
        /\ ChunkRow(w, c, s).next = rn[w][c].next
        /\ ChunkRow(w, c, s).attempts = rn[w][c].attempts
    BY <1>0 DEF RowsTyped, RunnerState, ChunkState, ChunkRow
  <1>5. /\ chunks' \in [Jobs -> [Chunks -> ChunkState]]
        /\ \A k \in Jobs, d \in Chunks : k # j \/ d # c => chunks'[k][d] = chunks[k][d]
        /\ chunks'[j][c] = chunks[j][c] \/ (chunks[j][c].status # "none" /\ chunks'[j][c] = ChunkRow(w, c, s))
    BY <1>0, <1>1, <1>4, ChunkWritten
  <1>6. /\ jobs' \in [Jobs -> JobRow]
        /\ \A k \in Jobs \ {j} : jobs'[k] = jobs[k]
        /\ jobs'[j].status \in {"running", "cancelling"}
    <2>1. jobs \in [Jobs -> JobRow] /\ jobs[j] \in JobRow
      BY <1>0, <1>1 DEF RowsTyped
    <2>2. /\ [jobs[j] EXCEPT !.status = "running"] \in JobRow
          /\ [jobs[j] EXCEPT !.status = "running"].status = "running"
      BY <2>1, StatusWritten, Zenon DEF Active
    <2>3. jobs' = jobs \/ jobs' = [jobs EXCEPT ![j] = [jobs[j] EXCEPT !.status = "running"]]
      BY Zenon DEF Written
    <2>4. jobs[j].status \in {"running", "cancelling"} /\ j \in Jobs
      BY <1>1, Zenon DEF Underway
    <2> HIDE DEF j
    <2> QED
      BY <2>1, <2>2, <2>3, <2>4, Zenon
  <1> HIDE DEF j
  <1>7. \A k \in Jobs, d \in Chunks : chunks'[k][d].status = "none" <=> chunks[k][d].status = "none"
    BY <1>1, <1>4, <1>5, Zenon
  <1>8. \A v \in Workers : Held(v) /\ v # w => wk[v].id # j
    BY <1>0, <1>1, Zenon DEF HolderInv, j, Held
  <1>9. \A k \in Jobs : HasChunks(k)' <=> HasChunks(k)
    BY <1>7, Zenon DEF HasChunks
  <1>10. RowsTyped'
    <2>1. \A v \in Workers, d \in Chunks :
              /\ rn'[v][d].next = rn[v][d].next
              /\ rn'[v][d].at # "none" => rn[v][d].at # "none"
      BY <1>3, Zenon
    <2> QED
      BY <1>0, <1>2, <1>3, <1>5, <1>6, <2>1 DEF RowsTyped
  <1>11. HolderInv'
    <2>1. \A v \in Workers : Held(v)' <=> Held(v)
      BY <1>2 DEF Held
    <2>2. \A k \in Jobs : Underway(k) => Underway(k)'
      BY <1>6 DEF Underway
    <2>3. \A k \in Jobs : Stillborn(k) => Stillborn(k)'
      BY <1>0, <1>1, <1>6, <1>9, Zenon DEF Stillborn, Underway
    <2>4. \A v \in Workers : Held(v) => wk[v].id \in Jobs /\ wk'[v].id = wk[v].id /\ wk'[v].at = wk[v].at
      BY <1>0, <1>2 DEF HolderInv
    <2>5. \A v \in Workers : wk[v].at \in {"claimed", "run", "chunks", "finish"} => Held(v)
      BY Zenon DEF Held
    <2> QED
      BY <1>0, <1>2, <1>9, <2>1, <2>2, <2>3, <2>4, <2>5 DEF HolderInv
  <1>12. RowInv'
    <2>1. \A k \in Jobs, d \in Chunks :
              /\ chunks'[k][d].next <= TilesIn[d]
              /\ chunks'[k][d].status = "succeeded" => chunks'[k][d].next = TilesIn[d]
      <3>1. rn[w][c].next <= TilesIn[c]
        BY <1>0 DEF RowsTyped
      <3>2. \A k \in Jobs, d \in Chunks :
                /\ chunks[k][d].next <= TilesIn[d]
                /\ chunks[k][d].status = "succeeded" => chunks[k][d].next = TilesIn[d]
        BY <1>0, Zenon DEF RowInv
      <3>3. \/ chunks'[j][c] = chunks[j][c]
            \/ chunks'[j][c].status = s /\ chunks'[j][c].next = rn[w][c].next
        BY <1>4, <1>5, Zenon
      <3> QED
        BY <1>1, <1>5, <3>1, <3>2, <3>3
    <2>2. \A k \in Jobs :
              /\ jobs'[k].status = "none" <=> jobs[k].status = "none"
              /\ jobs'[k].status = "succeeded" => jobs[k].status = "succeeded"
      BY <1>1, <1>6, Zenon DEF Underway
    <2> QED
      BY <1>0, <1>7, <1>9, <2>1, <2>2, TileJobsAssumption DEF RowInv
  <1>13. SilentInv'
    <2>1. \A k \in Jobs : Stillborn(k) => Stillborn(k)'
      BY <1>0, <1>1, <1>6, <1>9 DEF Stillborn, Underway
    <2>2. \A v \in Workers : wk[v].at \in {"run", "chunks", "finish"} => wk[v].id \in Jobs
      BY <1>0 DEF HolderInv, Held
    <2> QED
      BY <1>0, <1>2, <2>1, <2>2, Zenon DEF SilentInv, InScope
  <1>14. RecordedInv'
    <2>1. \A k \in Jobs, d \in Chunks : Cardinality(Missed(k, d, chunks'[k][d].next)) <= chunks'[k][d].attempts
      BY <1>0, <1>1, <1>4, <1>5 DEF RecordedInv, j
    <2>2. \A v \in Workers, d \in Chunks :
              /\ rn'[v][d].at # "none" => Cardinality(Missed(wk[v].id, d, rn'[v][d].next)) <= rn'[v][d].attempts
              /\ rn'[v][d].at = "process" => rn'[v][d].next < TilesIn[d]
      BY <1>0, <1>3 DEF RecordedInv
    <2> QED
      BY <1>0, <1>2, <2>1, <2>2, Zenon DEF RecordedInv, Missed
  <1>15. CompleteInv'
    <2>1. \A k, d : Complete(k, d)' <=> Cardinality(Missed(k, d, TilesIn[d])) <= chunks'[k][d].attempts
      BY <1>0, Zenon DEF Complete, Missed
    <2>2. ASSUME NEW v \in Workers, Clean(v)', NEW d \in ChunksOf[wk'[v].id]
          PROVE  /\ rn'[v][d].at = "none" =>
                        Cardinality(Missed(wk'[v].id, d, TilesIn[d])) <= chunks'[wk'[v].id][d].attempts
                 /\ rn'[v][d].at # "none" => rn'[v][d].attempts <= chunks'[wk'[v].id][d].attempts
      <3>1. Clean(v) /\ wk'[v].id = wk[v].id /\ wk[v].id \in Jobs /\ d \in ChunksOf[wk[v].id] /\ d \in Chunks
        <4>1. Clean(v) /\ wk'[v].id = wk[v].id
          BY <1>2, <2>2, Zenon DEF Clean
        <4> QED
          BY <1>0, <2>2, <4>1, TileJobsAssumption DEF HolderInv, Held, Clean
      <3>2. CASE v = w /\ d = c
        <4>1. rn[w][c].attempts <= chunks[j][c].attempts /\ wk'[v].id = j
          BY <1>0, <3>1, <3>2, Zenon DEF CompleteInv, j
        <4>2. rn[w][c].attempts <= rn[w][c].attempts
          BY <1>0 DEF RowsTyped, RunnerState
        <4>3. rn[w][c].attempts <= chunks'[j][c].attempts
          BY <1>4, <1>5, <4>1, <4>2, Zenon
        <4>4. Cardinality(Missed(j, c, rn[w][c].next)) <= rn[w][c].attempts
          BY <1>0, Zenon DEF RecordedInv, j
        <4>5. a = "none" => rn[w][c].next = TilesIn[c]
          BY <1>2, <2>2, <3>2, Zenon DEF Clean
        <4>6. a = "none" => Cardinality(Missed(j, c, TilesIn[c])) <= chunks'[j][c].attempts
          <5>1. rn[w][c].next \in Nat /\ rn[w][c].attempts \in Nat /\ chunks'[j][c].attempts \in Nat
            BY <1>0, <1>1, <1>5 DEF RowsTyped, RunnerState, ChunkState
          <5>2. Cardinality(Missed(j, c, rn[w][c].next)) \in Nat
            BY <5>1, MissedFinite, Zenon
          <5> QED
            BY <4>3, <4>4, <4>5, <5>1, <5>2
        <4> QED
          BY <1>3, <3>2, <4>1, <4>3, <4>6, Zenon
      <3>3. CASE v # w \/ d # c
        <4>1. wk[v].id # j \/ d # c
          BY <1>8, <3>1, <3>3 DEF Held, Clean
        <4>2. chunks'[wk[v].id][d] = chunks[wk[v].id][d] /\ rn'[v][d] = rn[v][d]
          <5>1. chunks'[wk[v].id][d] = chunks[wk[v].id][d]
            BY <1>5, <3>1, <4>1, Zenon
          <5>2. rn'[v][d] = rn[v][d]
            BY <1>3, <3>1, <3>3, Zenon
          <5> QED
            BY <5>1, <5>2
        <4> QED
          BY <1>0, <3>1, <4>2, Zenon DEF CompleteInv, Complete
      <3> QED
        BY <3>2, <3>3, Zenon
    <2>3. ASSUME NEW k \in Jobs \ Clear, jobs'[k].status = "succeeded", NEW d \in ChunksOf[k]
          PROVE  Cardinality(Missed(k, d, TilesIn[d])) <= chunks'[k][d].attempts
      <3>1. k # j /\ jobs[k].status = "succeeded" /\ d \in Chunks
        BY <1>6, <2>3, TileJobsAssumption
      <3>2. chunks'[k][d] = chunks[k][d]
        BY <1>5, <3>1, Zenon
      <3> QED
        BY <1>0, <2>3, <3>1, <3>2, Zenon DEF CompleteInv, Complete
    <2> QED
      BY <2>1, <2>2, <2>3, Zenon DEF CompleteInv
  <1> QED
    BY <1>10, <1>11, <1>12, <1>13, <1>14, <1>15, Zenon DEF JobsInv

(* The offsets that are missed after the step. *)
MissedThen(j, c, n) == {o \in 0..(n - 1) : <<c, o>> \notin stored'[j]}

(* Tiles only ever take effect, so that what is missed only shrinks. *)
LEMMA MissedShrinks ==
    ASSUME NEW j, NEW c, NEW n \in Nat, stored[j] \subseteq stored'[j]
    PROVE  /\ Cardinality(MissedThen(j, c, n)) <= Cardinality(Missed(j, c, n))
           /\ Cardinality(MissedThen(j, c, n)) \in Nat /\ Cardinality(Missed(j, c, n)) \in Nat
  <1>1. MissedThen(j, c, n) \subseteq Missed(j, c, n)
    BY DEF Missed, MissedThen
  <1> QED
    BY <1>1, MissedFinite, FS_Subset, FS_CardinalityType, Zenon

(* A tile takes effect or its failure is counted, and its offset is        *)
(* consumed.                                                               *)
LEMMA ProcessStep ==
    ASSUME JobsInv, NEW w \in Workers, NEW c \in Chunks, ChunkProcess(w, c)
    PROVE  JobsInv'
  <1> DEFINE j == wk[w].id
             n == rn[w][c].next
  <1>0. /\ RowsTyped /\ HolderInv /\ RowInv /\ SilentInv /\ RecordedInv /\ CompleteInv
        /\ jobs' = jobs /\ chunks' = chunks /\ creator' = creator /\ blocked' = blocked /\ quiesce' = quiesce
        /\ closing' = closing /\ fenced' = fenced /\ restarts' = restarts
    BY Zenon DEF JobsInv, ChunkProcess
  <1>1. /\ rn[w][c].at = "process" /\ wk[w].at = "chunks" /\ j \in Jobs
        /\ rn[w][c] \in RunnerState /\ n \in Nat /\ n < TilesIn[c]
        /\ Cardinality(Missed(j, c, n)) <= rn[w][c].attempts
    <2>1. rn[w][c].at = "process"
      BY DEF ChunkProcess
    <2>2. wk[w].at = "chunks" /\ j \in Jobs /\ rn[w][c] \in RunnerState
      BY <1>0, <2>1 DEF RowsTyped, HolderInv, Held
    <2> QED
      BY <1>0, <2>1, <2>2, Zenon DEF RecordedInv, RunnerState
  <1>2. PICK m \in Nat :
            /\ rn' = [rn EXCEPT ![w][c] = [at |-> "checkpoint", next |-> n + 1, attempts |-> m]]
            /\ stored' \in [Jobs -> SUBSET (Chunks \X Nat)]
            /\ \A k \in Jobs : stored[k] \subseteq stored'[k]
            /\ Cardinality(MissedThen(j, c, n + 1)) <= m
            /\ m = rn[w][c].attempts \/ wk' = [wk EXCEPT ![w].failed = TRUE]
    <2>1. CASE /\ stored' = [stored EXCEPT ![j] = stored[j] \cup {<<c, n>>}]
               /\ rn' = [rn EXCEPT ![w][c] = [at |-> "checkpoint", next |-> n + 1, attempts |-> rn[w][c].attempts]]
      <3>1. /\ stored' \in [Jobs -> SUBSET (Chunks \X Nat)]
            /\ \A k \in Jobs : stored[k] \subseteq stored'[k]
            /\ <<c, n>> \in stored'[j]
        BY <1>0, <1>1, <2>1 DEF RowsTyped
      <3>2. MissedThen(j, c, n + 1) = MissedThen(j, c, n)
        BY <1>1, <3>1 DEF MissedThen
      <3>3. /\ Cardinality(MissedThen(j, c, n)) <= Cardinality(Missed(j, c, n))
            /\ Cardinality(MissedThen(j, c, n)) \in Nat /\ Cardinality(Missed(j, c, n)) \in Nat
        BY <1>1, <3>1, MissedShrinks, Zenon
      <3>4. rn[w][c].attempts \in Nat
        BY <1>1, Zenon DEF RunnerState
      <3>5. Cardinality(MissedThen(j, c, n + 1)) <= rn[w][c].attempts
        BY <1>1, <3>2, <3>3, <3>4
      <3> QED
        BY <2>1, <3>1, <3>4, <3>5, Zenon
    <2>2. CASE /\ stored' = stored
               /\ rn' = [rn EXCEPT ![w][c] =
                      [at |-> "checkpoint", next |-> n + 1, attempts |-> rn[w][c].attempts + 1]]
               /\ wk' = [wk EXCEPT ![w].failed = TRUE]
      <3>1. MissedThen(j, c, n + 1) = Missed(j, c, n + 1)
        BY <2>2 DEF Missed, MissedThen
      <3>2. /\ Cardinality(Missed(j, c, n + 1)) <= Cardinality(Missed(j, c, n)) + 1
            /\ Cardinality(Missed(j, c, n + 1)) \in Nat /\ Cardinality(Missed(j, c, n)) \in Nat
        <4>1. n \in Nat /\ n + 1 \in Nat
          BY <1>1
        <4> HIDE DEF n, j
        <4> QED
          BY <4>1, MissedNext, MissedFinite, Zenon
      <3>3. rn[w][c].attempts \in Nat
        BY <1>1 DEF RunnerState
      <3>4. Cardinality(MissedThen(j, c, n + 1)) <= rn[w][c].attempts + 1
        BY <1>1, <3>1, <3>2, <3>3
      <3>5. stored' \in [Jobs -> SUBSET (Chunks \X Nat)] /\ \A k \in Jobs : stored[k] \subseteq stored'[k]
        BY <1>0, <2>2 DEF RowsTyped
      <3>6. rn[w][c].attempts + 1 \in Nat
        BY <3>3
      <3> QED
        BY <2>2, <3>4, <3>5, <3>6, Zenon
    <2> QED
      BY <2>1, <2>2 DEF ChunkProcess
  <1>3. /\ wk' \in [Workers -> WorkerState]
        /\ \A v \in Workers :
              /\ wk'[v].at = wk[v].at /\ wk'[v].id = wk[v].id
              /\ wk'[v].interrupted = wk[v].interrupted /\ wk'[v].cancelled = wk[v].cancelled
              /\ ~wk'[v].failed => ~wk[v].failed
        /\ m = rn[w][c].attempts \/ wk'[w].failed
    <2>1. wk \in [Workers -> WorkerState] /\ wk[w] \in WorkerState
      BY <1>0 DEF RowsTyped
    <2>2. CASE wk' = wk /\ m = rn[w][c].attempts
      BY <2>1, <2>2
    <2>3. CASE wk' = [wk EXCEPT ![w].failed = TRUE]
      <3>1. PICK x \in WorkerState :
                /\ x = [wk[w] EXCEPT !.failed = TRUE]
                /\ x.at = wk[w].at /\ x.id = wk[w].id
                /\ x.interrupted = wk[w].interrupted /\ x.cancelled = wk[w].cancelled /\ x.failed = TRUE
        BY <2>1, WorkerNoted, Zenon
      <3>2. wk' = [wk EXCEPT ![w] = x]
        BY <2>1, <2>3, <3>1, Zenon
      <3> QED
        BY <2>1, <3>1, <3>2
    <2> QED
      BY <1>2, <2>2, <2>3 DEF ChunkProcess
  <1>4. /\ rn' \in [Workers -> [Chunks -> RunnerState]]
        /\ \A v \in Workers, d \in Chunks : v # w \/ d # c => rn'[v][d] = rn[v][d]
        /\ rn'[w][c].at = "checkpoint" /\ rn'[w][c].next = n + 1 /\ rn'[w][c].attempts = m
    BY <1>0, <1>1, <1>2 DEF RowsTyped, RunnerState
  <1> HIDE DEF j, n
  <1>5. RowsTyped'
    <2>1. \A v \in Workers, d \in Chunks :
              /\ rn'[v][d].next <= TilesIn[d]
              /\ rn'[v][d].at # "none" => rn[v][d].at # "none"
      <3>1. n + 1 <= TilesIn[c] /\ rn[w][c].at # "none"
        BY <1>1, TileJobsAssumption
      <3>2. \A v \in Workers, d \in Chunks : rn[v][d].next <= TilesIn[d]
        BY <1>0 DEF RowsTyped
      <3> SUFFICES ASSUME NEW v \in Workers, NEW d \in Chunks
                   PROVE  rn'[v][d].next <= TilesIn[d] /\ (rn'[v][d].at # "none" => rn[v][d].at # "none")
        BY Zenon
      <3>3. CASE v = w /\ d = c
        BY <1>4, <3>1, <3>3
      <3>4. CASE v # w \/ d # c
        BY <1>4, <3>2, <3>4, Zenon
      <3> QED
        BY <3>3, <3>4, Zenon
    <2>2. stored' \in [Jobs -> SUBSET (Chunks \X Nat)]
      BY <1>2
    <2>3. wk' \in [Workers -> WorkerState] /\ \A v \in Workers : wk'[v].at = wk[v].at
      BY <1>3, Zenon
    <2>4. rn' \in [Workers -> [Chunks -> RunnerState]]
      BY <1>4, Zenon
    <2> QED
      BY <1>0, <2>1, <2>2, <2>3, <2>4, Zenon DEF RowsTyped
  <1>6. HolderInv'
    BY <1>0, <1>3 DEF HolderInv, Held, Underway, Stillborn, HasChunks
  <1>7. RowInv'
    BY <1>0, Zenon DEF RowInv, HasChunks
  <1>8. SilentInv'
    BY <1>0, <1>3 DEF SilentInv, Stillborn, HasChunks, InScope
  <1>9. RecordedInv'
    <2>1. \A k \in Jobs, d \in Chunks :
              Cardinality(MissedThen(k, d, chunks[k][d].next)) <= chunks[k][d].attempts
      <3> SUFFICES ASSUME NEW k \in Jobs, NEW d \in Chunks
                   PROVE  Cardinality(MissedThen(k, d, chunks[k][d].next))
                              <= chunks[k][d].attempts
        BY Zenon
      <3>1. chunks[k][d].next \in Nat /\ chunks[k][d].attempts \in Nat
        BY <1>0, Zenon DEF RowsTyped, ChunkState
      <3> QED
        BY <1>2, <1>0, <3>1, MissedShrinks, MissedFinite DEF RecordedInv
    <2>2. \A v \in Workers, d \in Chunks : v # w \/ d # c =>
              /\ rn'[v][d].at # "none" =>
                     Cardinality(MissedThen(wk[v].id, d, rn'[v][d].next))
                         <= rn'[v][d].attempts
              /\ rn'[v][d].at = "process" => rn'[v][d].next < TilesIn[d]
      <3> SUFFICES ASSUME NEW v \in Workers, NEW d \in Chunks, v # w \/ d # c, rn[v][d].at # "none"
                   PROVE  Cardinality(MissedThen(wk[v].id, d, rn[v][d].next))
                              <= rn[v][d].attempts
        BY <1>0, <1>4, Zenon DEF RecordedInv
      <3>1. rn[v][d].next \in Nat /\ rn[v][d].attempts \in Nat /\ wk[v].id \in Jobs
        <4>1. rn[v][d] \in RunnerState /\ wk[v].at = "chunks"
          BY <1>0, Zenon DEF RowsTyped
        <4>2. wk[v].id \in Jobs
          BY <1>0, <4>1, Zenon DEF HolderInv, Held
        <4> QED
          BY <4>1, <4>2, Zenon DEF RunnerState
      <3> QED
        BY <1>2, <1>0, <3>1, MissedShrinks, MissedFinite DEF RecordedInv
    <2>3. Cardinality(MissedThen(wk[w].id, c, rn'[w][c].next)) <= rn'[w][c].attempts
      BY <1>2, <1>4, Zenon DEF j
    <2>4. /\ \A k \in Jobs, d \in Chunks : Cardinality(MissedThen(k, d, chunks'[k][d].next)) <= chunks'[k][d].attempts
          /\ \A v \in Workers, d \in Chunks :
                /\ rn'[v][d].at # "none" =>
                       Cardinality(MissedThen(wk'[v].id, d, rn'[v][d].next)) <= rn'[v][d].attempts
                /\ rn'[v][d].at = "process" => rn'[v][d].next < TilesIn[d]
      BY <1>0, <1>3, <1>4, <2>1, <2>2, <2>3
    <2> QED
      BY <2>4, Zenon DEF RecordedInv, Missed, MissedThen
  <1>10. CompleteInv'
    <2>1. \A k \in Jobs, d \in Chunks : Complete(k, d) => Complete(k, d)'
      <3> SUFFICES ASSUME NEW k \in Jobs, NEW d \in Chunks, Cardinality(Missed(k, d, TilesIn[d])) <= chunks[k][d].attempts
                   PROVE  Cardinality(MissedThen(k, d, TilesIn[d])) <= chunks[k][d].attempts
        BY <1>0, Zenon DEF Complete, Missed, MissedThen
      <3>1. TilesIn[d] \in Nat /\ chunks[k][d].attempts \in Nat /\ stored[k] \subseteq stored'[k]
        BY <1>0, <1>2, TileJobsAssumption DEF RowsTyped, ChunkState
      <3>2. /\ Cardinality(MissedThen(k, d, TilesIn[d])) <= Cardinality(Missed(k, d, TilesIn[d]))
            /\ Cardinality(MissedThen(k, d, TilesIn[d])) \in Nat /\ Cardinality(Missed(k, d, TilesIn[d])) \in Nat
        BY <3>1, MissedShrinks, Zenon
      <3> QED
        BY <3>1, <3>2
    <2>2. ASSUME NEW v \in Workers, Clean(v)', NEW d \in ChunksOf[wk'[v].id]
          PROVE  /\ rn'[v][d].at = "none" => wk'[v].id \in Jobs /\ d \in Chunks /\ Complete(wk'[v].id, d)
                 /\ rn'[v][d].at # "none" => rn'[v][d].attempts <= chunks'[wk'[v].id][d].attempts
      <3>1. Clean(v) /\ wk'[v].id = wk[v].id
        BY <1>3, <2>2, Zenon DEF Clean
      <3>2. wk[v].id \in Jobs /\ d \in Chunks /\ d \in ChunksOf[wk[v].id]
        BY <1>0, <2>2, <3>1, TileJobsAssumption DEF HolderInv, Held, Clean
      <3>3. CASE v = w /\ d = c
        <4>1. rn'[w][c].attempts = rn[w][c].attempts /\ rn'[w][c].at # "none" /\ rn[w][c].at # "none"
          BY <1>1, <1>3, <1>4, <2>2, <3>3, Zenon DEF Clean
        <4> QED
          BY <1>0, <3>1, <3>2, <3>3, <4>1, Zenon DEF CompleteInv
      <3>4. CASE v # w \/ d # c
        BY <1>0, <1>4, <3>1, <3>2, <3>4, Zenon DEF CompleteInv
      <3> QED
        BY <3>3, <3>4, Zenon
    <2>3. \A k \in Jobs \ Clear : jobs'[k].status = "succeeded" => \A d \in ChunksOf[k] : d \in Chunks /\ Complete(k, d)
      BY <1>0, TileJobsAssumption, Zenon DEF CompleteInv
    <2> QED
      BY <2>1, <2>2, <2>3, Zenon DEF CompleteInv
  <1> QED
    BY <1>5, <1>6, <1>7, <1>8, <1>9, <1>10, Zenon DEF JobsInv

-----------------------------------------------------------------------------
(* Cancelling, quiescing and the end of the process. *)

(* PurgeLifecycle deletes the rows of jobs that no worker has, or that     *)
(* were never given chunks.                                                *)
LEMMA PurgeStep ==
    ASSUME JobsInv, PurgeJobs
    PROVE  JobsInv'
  <1> DEFINE M == {j \in Jobs : InScope(j, quiesce.scope)}
  <1>0. /\ RowsTyped /\ HolderInv /\ RowInv /\ SilentInv /\ RecordedInv /\ CompleteInv
        /\ stored' = stored /\ creator' = creator /\ wk' = wk /\ rn' = rn /\ blocked' = blocked
        /\ closing' = closing /\ fenced' = fenced /\ restarts' = restarts
        /\ quiesce.at = "done" /\ quiesce.scope \in blocked
    BY DEF JobsInv, PurgeJobs, SilentInv
  <1>1. CASE fenced \/ \E j \in M : jobs[j].status \in Active
    <2>1. quiesce' = [quiesce EXCEPT !.at = "failed"] /\ jobs' = jobs /\ chunks' = chunks
      BY <1>1 DEF PurgeJobs
    <2>2. quiesce' \in QuiesceState /\ quiesce'.at = "failed"
      BY <1>0, <2>1 DEF RowsTyped, QuiesceState
    <2>3. jobs' \in [Jobs -> JobRow] /\ blocked' \subseteq Resources \cup {Workspace}
          /\ closing' \in BOOLEAN /\ fenced' \in BOOLEAN
      BY <1>0, <2>1 DEF RowsTyped
    <2> QED
      BY <1>0, <2>1, <2>2, <2>3, FrameStep
  <1>2. CASE ~(fenced \/ \E j \in M : jobs[j].status \in Active)
    <2>1. /\ quiesce' = [quiesce EXCEPT !.at = "purged"]
          /\ jobs' = [j \in Jobs |-> IF j \in M THEN NoJob ELSE jobs[j]]
          /\ chunks' = [j \in Jobs |-> IF j \in M /\ jobs[j] # NoJob THEN NoChunks ELSE chunks[j]]
      BY <1>2 DEF PurgeJobs
    <2>2. quiesce' \in QuiesceState /\ quiesce'.at = "purged" /\ quiesce'.scope = quiesce.scope
      BY <1>0, <2>1 DEF RowsTyped, QuiesceState
    <2>3. /\ jobs' \in [Jobs -> JobRow] /\ chunks' \in [Jobs -> [Chunks -> ChunkState]]
          /\ \A j \in Jobs \ M : jobs'[j] = jobs[j] /\ chunks'[j] = chunks[j]
          /\ \A j \in M : jobs'[j].status = "none"
          /\ \A j \in M : chunks'[j] = chunks[j] \/ chunks'[j] = NoChunks
      BY <1>0, <2>1, Rows DEF RowsTyped
    <2>4. \A j \in M : ~Underway(j)
      BY <1>2 DEF Underway, Active
    <2> HIDE DEF M
    <2>5. M \subseteq Jobs
      BY Zenon DEF M
    <2>6. \A j \in Jobs : HasChunks(j)' => HasChunks(j)
      BY <2>3, Rows, Zenon DEF HasChunks
    <2>7. \A j \in Jobs : Stillborn(j) => Stillborn(j)'
      BY <1>0, <2>3, <2>6, Zenon DEF Stillborn
    <2>8. \A j \in Jobs : Underway(j) => Underway(j)' /\ chunks'[j] = chunks[j] /\ (HasChunks(j)' <=> HasChunks(j))
      BY <2>3, <2>4, Zenon DEF Underway, HasChunks
    <2>9. RowsTyped'
      BY <1>0, <2>2, <2>3, Zenon DEF RowsTyped
    <2>10. HolderInv'
      <3>1. \A v \in Workers : Held(v)' <=> Held(v)
        BY <1>0, Zenon DEF Held
      <3>2. \A v \in Workers : wk[v].at \in {"claimed", "run", "chunks", "finish"} => wk[v].id \in Jobs
        BY <1>0, Zenon DEF HolderInv, Held
      <3> QED
        BY <1>0, <2>7, <2>8, <3>1, <3>2, Zenon DEF HolderInv
    <2>11. RowInv'
      <3> SUFFICES ASSUME NEW j \in Jobs
                   PROVE  /\ creator[j] \in {"new", "checked"} => jobs'[j].status = "none"
                          /\ creator[j] = "inserted" => j \notin Clear
                          /\ creator[j] # "done" => ~HasChunks(j)' /\ jobs'[j].status # "succeeded"
                          /\ HasChunks(j)' => \A c \in ChunksOf[j] : chunks'[j][c].status # "none"
                          /\ \A c \in Chunks :
                                /\ chunks'[j][c].next <= TilesIn[c]
                                /\ chunks'[j][c].status = "succeeded" => chunks'[j][c].next = TilesIn[c]
        BY <1>0, Zenon DEF RowInv
      <3>1. CASE chunks'[j] = chunks[j]
        <4>1. HasChunks(j)' <=> HasChunks(j)
          BY <3>1, Zenon DEF HasChunks
        <4>2. jobs'[j].status = "none" \/ jobs'[j].status = jobs[j].status
          BY <2>3, Zenon
        <4> QED
          BY <1>0, <3>1, <4>1, <4>2 DEF RowInv
      <3>2. CASE chunks'[j] = NoChunks /\ j \in M
        <4>1. ~HasChunks(j)' /\ jobs'[j].status = "none"
          BY <2>3, <3>2, Rows, Zenon DEF HasChunks
        <4>2. \A c \in Chunks : chunks'[j][c].next = 0 /\ chunks'[j][c].status = "none" /\ 0 <= TilesIn[c]
          BY <3>2, Rows, TileJobsAssumption
        <4> QED
          BY <1>0, <4>1, <4>2, Zenon DEF RowInv
      <3> QED
        BY <2>3, <3>1, <3>2, Zenon
    <2>12. SilentInv'
      <3>1. \A v \in Workers : wk[v].at \in {"run", "chunks", "finish"} => wk[v].id \in Jobs
        BY <1>0 DEF HolderInv, Held
      <3> QED
        BY <1>0, <2>2, <2>7, <3>1, Zenon DEF SilentInv, InScope
    <2>13. RecordedInv'
      <3>1. \A j \in Jobs, c \in Chunks : Cardinality(Missed(j, c, chunks'[j][c].next)) <= chunks'[j][c].attempts
        <4> SUFFICES ASSUME NEW j \in Jobs, NEW c \in Chunks
                     PROVE  Cardinality(Missed(j, c, chunks'[j][c].next)) <= chunks'[j][c].attempts
          BY Zenon
        <4>1. CASE chunks'[j] = chunks[j]
          BY <1>0, <4>1, Zenon DEF RecordedInv
        <4>2. CASE chunks'[j] = NoChunks
          BY <4>2, Rows, MissedNone
        <4> QED
          BY <2>3, <4>1, <4>2, Zenon
      <3> QED
        BY <1>0, <3>1, Zenon DEF RecordedInv, Missed
    <2>14. CompleteInv'
      <3>1. \A v \in Workers : Clean(v) => chunks'[wk[v].id] = chunks[wk[v].id]
        BY <1>0, <2>8 DEF HolderInv, Held, Clean
      <3>2. \A v \in Workers : Clean(v)' <=> Clean(v)
        BY <1>0, Zenon DEF Clean
      <3>3. \A k \in Jobs : jobs'[k].status = "succeeded" => jobs[k].status = "succeeded" /\ chunks'[k] = chunks[k]
        BY <2>3, Zenon
      <3> QED
        BY <1>0, <3>1, <3>2, <3>3, CompleteKept, Zenon
    <2> QED
      BY <2>9, <2>10, <2>11, <2>12, <2>13, <2>14, Zenon DEF JobsInv
  <1> QED
    BY <1>1, <1>2

(* The next process starts with the tables only. *)
LEMMA RestartStep ==
    ASSUME JobsInv, Restart
    PROVE  JobsInv'
  <1>0. RowsTyped /\ HolderInv /\ RowInv /\ SilentInv /\ RecordedInv /\ CompleteInv /\ stored' = stored
    BY Zenon DEF JobsInv, Restart
  <1>1. /\ wk' \in [Workers -> WorkerState] /\ rn' \in [Workers -> [Chunks -> RunnerState]]
        /\ \A w \in Workers : wk'[w].at = "idle"
        /\ \A w \in Workers, c \in Chunks : rn'[w][c].at = "none" /\ rn'[w][c].next = 0
    BY Rows, Zenon DEF Restart
  <1>2. /\ jobs' \in [Jobs -> JobRow]
        /\ \A j \in Jobs :
              /\ jobs[j].status \in {"none", "succeeded"} => jobs'[j].status = jobs[j].status
              /\ jobs'[j].status \in {"none", "succeeded"} => jobs'[j].status = jobs[j].status
    <2>1. \A row \in JobRow :
              /\ ResetJob(row) \in JobRow
              /\ row.status \in {"none", "succeeded"} => ResetJob(row).status = row.status
              /\ ResetJob(row).status \in {"none", "succeeded"} => ResetJob(row).status = row.status
      BY Zenon DEF ResetJob, JobRow, Active, Terminal
    <2> QED
      BY <1>0, <2>1 DEF Restart, RowsTyped
  <1>3. /\ chunks' \in [Jobs -> [Chunks -> ChunkState]]
        /\ \A j \in Jobs, c \in Chunks :
              /\ chunks'[j][c].next = chunks[j][c].next /\ chunks'[j][c].attempts = chunks[j][c].attempts
              /\ chunks'[j][c].status = "none" <=> chunks[j][c].status = "none"
              /\ chunks'[j][c].status = "succeeded" <=> chunks[j][c].status = "succeeded"
    <2>1. \A row \in ChunkState :
              /\ ResetChunk(row) \in ChunkState
              /\ ResetChunk(row).next = row.next /\ ResetChunk(row).attempts = row.attempts
              /\ ResetChunk(row).status = "none" <=> row.status = "none"
              /\ ResetChunk(row).status = "succeeded" <=> row.status = "succeeded"
      BY Zenon DEF ResetChunk, ChunkState
    <2> QED
      BY <1>0, <2>1 DEF Restart, RowsTyped
  <1>4. /\ creator' \in [Jobs -> {"new", "checked", "inserted", "done"}]
        /\ \A j \in Jobs : creator'[j] = "done" \/ (creator'[j] = "new" /\ creator[j] = "new")
    BY <1>0, Zenon DEF Restart, RowsTyped
  <1>5. blocked' \subseteq Resources \cup {Workspace} /\ quiesce' \in QuiesceState /\ quiesce'.at = "idle"
    BY DEF Restart, QuiesceState
  <1>6. closing' \in BOOLEAN /\ fenced' \in BOOLEAN
    BY Zenon DEF Restart
  <1>7. restarts' \in 0..MaxRestarts
    BY <1>0, TileJobsAssumption DEF Restart, RowsTyped
  <1>8. \A j \in Jobs : HasChunks(j)' <=> HasChunks(j)
    BY <1>3, Zenon DEF HasChunks
  <1>9. RowsTyped'
    BY <1>0, <1>1, <1>2, <1>3, <1>4, <1>5, <1>6, <1>7, TileJobsAssumption DEF RowsTyped
  <1>10. HolderInv'
    BY <1>1 DEF HolderInv, Held
  <1>11. RowInv'
    <2>1. \A j \in Jobs :
              /\ creator[j] = "new" => jobs[j].status = "none" /\ ~HasChunks(j)
              /\ HasChunks(j) => \A c \in ChunksOf[j] : chunks[j][c].status # "none"
              /\ \A c \in Chunks :
                    /\ chunks[j][c].next <= TilesIn[c]
                    /\ chunks[j][c].status = "succeeded" => chunks[j][c].next = TilesIn[c]
      BY <1>0, Zenon DEF RowInv
    <2> SUFFICES ASSUME NEW j \in Jobs
                 PROVE  /\ creator'[j] \in {"new", "checked"} => jobs'[j].status = "none"
                        /\ creator'[j] = "inserted" => j \notin Clear
                        /\ creator'[j] # "done" => ~HasChunks(j)' /\ jobs'[j].status # "succeeded"
                        /\ HasChunks(j)' => \A c \in ChunksOf[j] : chunks'[j][c].status # "none"
                        /\ \A c \in Chunks :
                              /\ chunks'[j][c].next <= TilesIn[c]
                              /\ chunks'[j][c].status = "succeeded" => chunks'[j][c].next = TilesIn[c]
      BY Zenon DEF RowInv
    <2>2. creator'[j] # "done" => creator'[j] = "new" /\ jobs'[j].status = "none" /\ ~HasChunks(j)'
      BY <1>2, <1>4, <1>8, <2>1, Zenon
    <2>3. HasChunks(j)' => \A c \in ChunksOf[j] : chunks'[j][c].status # "none"
      BY <1>3, <1>8, <2>1, TileJobsAssumption, Zenon
    <2>4. \A c \in Chunks :
              /\ chunks'[j][c].next <= TilesIn[c]
              /\ chunks'[j][c].status = "succeeded" => chunks'[j][c].next = TilesIn[c]
      BY <1>3, <2>1
    <2> QED
      BY <2>2, <2>3, <2>4, Zenon
  <1>12. SilentInv'
    BY <1>5 DEF SilentInv
  <1>13. RecordedInv'
    BY <1>0, <1>1, <1>3, Zenon DEF RecordedInv, Missed
  <1>14. CompleteInv'
    <2>1. \A j \in Jobs : \A c \in ChunksOf[j] : c \in Chunks
      BY TileJobsAssumption, Zenon
    <2>2. \A j \in Jobs, c \in Chunks : Complete(j, c)' <=> Complete(j, c)
      BY <1>0, <1>3, Zenon DEF Complete, Missed
    <2>3. \A j \in Jobs \ Clear : jobs'[j].status = "succeeded" => \A c \in ChunksOf[j] : Complete(j, c)'
      BY <1>0, <1>2, <2>1, <2>2, Zenon DEF CompleteInv
    <2>4. \A w \in Workers : ~Clean(w)'
      BY <1>1 DEF Clean
    <2> QED
      BY <2>3, <2>4, Zenon DEF CompleteInv
  <1> QED
    BY <1>9, <1>10, <1>11, <1>12, <1>13, <1>14 DEF JobsInv

-----------------------------------------------------------------------------
(* Creating a job. *)

(* A job whose creation is not over has no worker that counts on chunks:   *)
(* it is not claimed, or its worker found the row before the chunks.       *)
LEMMA CreateStep ==
    ASSUME JobsInv, NEW j \in Jobs, Create(j)
    PROVE  JobsInv'
  <1>0. /\ RowsTyped /\ HolderInv /\ RowInv /\ SilentInv /\ RecordedInv /\ CompleteInv
        /\ stored' = stored /\ wk' = wk /\ rn' = rn /\ blocked' = blocked /\ quiesce' = quiesce
        /\ closing' = closing /\ fenced' = fenced /\ restarts' = restarts
    BY DEF JobsInv, Create, CreateCheck, CreateInsert, CreateChunks
  <1>1. /\ creator[j] # "done"
        /\ creator' \in [Jobs -> {"new", "checked", "inserted", "done"}]
        /\ \A k \in Jobs \ {j} : creator'[k] = creator[k]
    BY <1>0, Zenon DEF Create, CreateCheck, CreateInsert, CreateChunks, RowsTyped
  <1>2. /\ jobs' \in [Jobs -> JobRow]
        /\ \A k \in Jobs \ {j} : jobs'[k] = jobs[k]
        /\ \/ jobs'[j] = jobs[j]
           \/ jobs'[j].status = "queued" /\ creator[j] = "checked" /\ creator'[j] \notin {"new", "checked"}
           \/ jobs'[j].status = "failed" /\ creator[j] = "inserted" /\ creator'[j] = "done" /\ chunks' = chunks
    <2>1. CASE jobs' = jobs
      BY <1>0, <2>1 DEF RowsTyped
    <2>2. CASE /\ jobs' = [jobs EXCEPT ![j] = [NoJob EXCEPT !.status = "queued"]]
               /\ creator[j] = "checked" /\ creator' = [creator EXCEPT ![j] = IF j \in Clear THEN "done" ELSE "inserted"]
      <3>1. [NoJob EXCEPT !.status = "queued"] \in JobRow /\ [NoJob EXCEPT !.status = "queued"].status = "queued"
        BY Zenon DEF NoJob, JobRow, Active
      <3> QED
        BY <1>0, <2>2, <3>1 DEF RowsTyped
    <2>3. CASE /\ jobs' = Written(j, "failed")
               /\ creator[j] = "inserted" /\ creator' = [creator EXCEPT ![j] = "done"] /\ chunks' = chunks
      <3>1. PICK row \in JobRow : row = [jobs[j] EXCEPT !.status = "failed"] /\ row.status = "failed"
        <4>1. jobs[j] \in JobRow
          BY <1>0 DEF RowsTyped
        <4> QED
          BY <4>1, StatusWritten, Zenon DEF Terminal
      <3>2. jobs' = jobs \/ jobs' = [jobs EXCEPT ![j] = row]
        BY <2>3, <3>1 DEF Written
      <3>3. creator'[j] = "done"
        BY <1>0, <2>3, Zenon DEF RowsTyped
      <3> QED
        BY <1>0, <2>3, <3>1, <3>2, <3>3, Zenon DEF RowsTyped
    <2> QED
      BY <2>1, <2>2, <2>3, Zenon DEF Create, CreateCheck, CreateInsert, CreateChunks
  <1>3. /\ chunks' \in [Jobs -> [Chunks -> ChunkState]]
        /\ \A k \in Jobs \ {j} : chunks'[k] = chunks[k]
        /\ \/ chunks'[j] = chunks[j]
           \/ /\ creator[j] = "inserted" /\ creator'[j] = "done" /\ jobs' = jobs
              /\ \A c \in Chunks : chunks'[j][c].next = 0 /\ chunks'[j][c].attempts = 0
              /\ \A c \in Chunks : chunks'[j][c].status = IF c \in ChunksOf[j] THEN "queued" ELSE "none"
    <2> DEFINE New(c) == [NoChunks[c] EXCEPT !.status = IF c \in ChunksOf[j] THEN "queued" ELSE @]
    <2>1. CASE chunks' = chunks
      BY <1>0, <2>1, Zenon DEF RowsTyped
    <2>2. CASE /\ creator[j] = "inserted" /\ creator' = [creator EXCEPT ![j] = "done"] /\ jobs' = jobs
               /\ chunks' = [chunks EXCEPT ![j] = [c \in Chunks |-> New(c)]]
      <3>1. \A c \in Chunks :
                /\ New(c) \in ChunkState /\ New(c).next = 0 /\ New(c).attempts = 0
                /\ New(c).status = IF c \in ChunksOf[j] THEN "queued" ELSE "none"
        BY DEF NoChunks, ChunkState
      <3>2. creator'[j] = "done"
        BY <1>0, <2>2, Zenon DEF RowsTyped
      <3> HIDE DEF New
      <3> QED
        BY <1>0, <2>2, <3>1, <3>2 DEF RowsTyped
    <2> QED
      BY <2>1, <2>2, Zenon DEF Create, CreateCheck, CreateInsert, CreateChunks
  <1>4. creator'[j] = "inserted" => j \notin Clear
    BY <1>0, Zenon DEF Create, CreateCheck, CreateInsert, CreateChunks, RowsTyped
  <1>5. creator'[j] \in {"new", "checked"} => jobs'[j].status = "none" /\ creator[j] = "new" /\ chunks' = chunks
    BY <1>0, Zenon DEF Create, CreateCheck, CreateInsert, CreateChunks, RowsTyped, RowInv
  <1>6. ~HasChunks(j) /\ jobs[j].status # "succeeded"
    BY <1>0, <1>1, Zenon DEF RowInv
  <1>7. \A v \in Workers : Held(v) /\ wk[v].id = j =>
            wk[v].at \in {"claimed", "run"} /\ Underway(j) /\ creator[j] = "inserted"
    <2>1. creator[j] \in {"new", "checked"} => ~Underway(j)
      BY <1>0, Zenon DEF RowInv, Underway
    <2>2. creator[j] \in {"new", "checked", "inserted"} /\ ~Stillborn(j)
      BY <1>0, <1>1, Zenon DEF RowsTyped, Stillborn
    <2>3. \A v \in Workers : Held(v) => wk[v].at \in {"claimed", "run", "chunks", "finish"}
      BY <1>0, Zenon DEF RowsTyped, WorkerState, Held
    <2> QED
      BY <1>0, <1>6, <2>1, <2>2, <2>3, Zenon DEF HolderInv
  <1>8. \A k \in Jobs \ {j} :
            /\ Underway(k)' <=> Underway(k)
            /\ Stillborn(k)' <=> Stillborn(k)
            /\ HasChunks(k)' <=> HasChunks(k)
    BY <1>1, <1>2, <1>3 DEF Underway, Stillborn, HasChunks
  <1>9. creator[j] = "inserted" /\ Underway(j) => Underway(j)' \/ Stillborn(j)'
    <2>1. CASE jobs'[j] = jobs[j]
      BY <2>1 DEF Underway
    <2>2. CASE jobs'[j].status = "failed" /\ creator[j] = "inserted" /\ creator'[j] = "done" /\ chunks' = chunks
      <3>1. j \notin Clear
        BY <1>0, <2>2, Zenon DEF RowInv
      <3> QED
        BY <1>6, <2>2, <3>1, Zenon DEF Stillborn, HasChunks
    <2> QED
      BY <1>2, <2>1, <2>2, Zenon
  <1>10. RowsTyped'
    BY <1>0, <1>1, <1>2, <1>3, Zenon DEF RowsTyped
  <1>11. HolderInv'
    <2>1. \A v \in Workers : Held(v)' <=> Held(v)
      BY <1>0, Zenon DEF Held
    <2>2. \A v \in Workers : wk[v].at \in {"claimed", "run", "chunks", "finish"} => Held(v)
      BY DEF Held
    <2> QED
      BY <1>0, <1>7, <1>8, <1>9, <2>1, <2>2, Zenon DEF HolderInv
  <1>12. RowInv'
    <2>1. ASSUME NEW k \in Jobs
          PROVE  /\ creator'[k] \in {"new", "checked"} => jobs'[k].status = "none"
                 /\ creator'[k] = "inserted" => k \notin Clear
                 /\ creator'[k] # "done" => ~HasChunks(k)' /\ jobs'[k].status # "succeeded"
                 /\ HasChunks(k)' => \A c \in ChunksOf[k] : chunks'[k][c].status # "none"
                 /\ \A c \in Chunks :
                       /\ chunks'[k][c].next <= TilesIn[c]
                       /\ chunks'[k][c].status = "succeeded" => chunks'[k][c].next = TilesIn[c]
      <3>1. CASE k # j
        <4>1. /\ jobs'[k] = jobs[k] /\ creator'[k] = creator[k] /\ chunks'[k] = chunks[k]
              /\ HasChunks(k)' <=> HasChunks(k)
          BY <1>1, <1>2, <1>3, <1>8, <3>1, Zenon
        <4> QED
          BY <1>0, <4>1, Zenon DEF RowInv
      <3>2. CASE k = j /\ chunks'[j] = chunks[j]
        <4>1. ~HasChunks(j)'
          BY <1>6, <3>2, Zenon DEF HasChunks
        <4>2. jobs'[j].status # "succeeded"
          BY <1>2, <1>6, Zenon
        <4> QED
          BY <1>0, <1>4, <1>5, <3>2, <4>1, <4>2, Zenon DEF RowInv
      <3>3. CASE /\ k = j /\ creator'[j] = "done"
                 /\ \A c \in Chunks : chunks'[j][c].next = 0 /\ chunks'[j][c].attempts = 0
                 /\ \A c \in Chunks : chunks'[j][c].status = IF c \in ChunksOf[j] THEN "queued" ELSE "none"
        BY <3>3, TileJobsAssumption
      <3> QED
        BY <1>3, <3>1, <3>2, <3>3, Zenon
    <2> QED
      BY <2>1, Zenon DEF RowInv
  <1>13. SilentInv'
    <2>1. \A v \in Workers : wk[v].at \in {"run", "chunks", "finish"} => Held(v) /\ wk[v].id \in Jobs
      BY <1>0, Zenon DEF HolderInv, Held
    <2>2. ~Stillborn(j)
      BY <1>1 DEF Stillborn
    <2> QED
      BY <1>0, <1>8, <2>1, <2>2, Zenon DEF SilentInv, InScope
  <1>14. RecordedInv'
    <2>1. \A k \in Jobs, c \in Chunks : Cardinality(Missed(k, c, chunks'[k][c].next)) <= chunks'[k][c].attempts
      BY <1>0, <1>3, MissedNone DEF RecordedInv
    <2> QED
      BY <1>0, <2>1, Zenon DEF RecordedInv, Missed
  <1>15. CompleteInv'
    <2>1. \A v \in Workers : Clean(v) => wk[v].id \in Jobs /\ wk[v].id # j
      BY <1>0, <1>6 DEF HolderInv, Held, Clean
    <2>2. \A v \in Workers : Clean(v)' => Clean(v) /\ chunks'[wk[v].id] = chunks[wk[v].id]
      BY <1>0, <1>3, <2>1, Zenon DEF Clean
    <2>3. \A k \in Jobs : jobs'[k].status = "succeeded" => jobs[k].status = "succeeded" /\ chunks'[k] = chunks[k]
      BY <1>2, <1>3, <1>6, Zenon
    <2> QED
      BY <1>0, <2>2, <2>3, CompleteKept, Zenon
  <1> QED
    BY <1>10, <1>11, <1>12, <1>13, <1>14, <1>15 DEF JobsInv

-----------------------------------------------------------------------------
(* Cancelling a set of active jobs, whatever becomes of the quiesce. *)
LEMMA CancelStep ==
    ASSUME JobsInv, NEW S \in SUBSET Jobs, \A j \in S : jobs[j].status \in Active,
           jobs' = [j \in Jobs |-> IF j \in S THEN CancelRow(jobs[j]) ELSE jobs[j]]
    PROVE  /\ jobs' \in [Jobs -> JobRow]
           /\ \A j \in Jobs :
                 /\ jobs[j].status \in {"running", "cancelling"} => jobs'[j].status \in {"running", "cancelling"}
                 /\ jobs[j].status \in {"failed", "none"} => jobs'[j].status = jobs[j].status
                 /\ jobs'[j].status = "succeeded" => jobs[j].status = "succeeded"
  <1>1. jobs \in [Jobs -> JobRow]
    BY DEF JobsInv, RowsTyped
  <1>2. \A j \in S : CancelRow(jobs[j]) \in JobRow
                     /\ CancelRow(jobs[j]).status = IF jobs[j].status = "queued" THEN "cancelled" ELSE "cancelling"
    BY <1>1, RowCancelled
  <1> QED
    BY <1>1, <1>2, Zenon DEF Active

(* What a worker does. *)
LEMMA RunStep ==
    ASSUME JobsInv, NEW w \in Workers, Run(w)
    PROVE  JobsInv'
  <1>1. CASE Claim(w)
    BY <1>1, ClaimStep
  <1>2. CASE Claimed(w)
    BY <1>2, ClaimedStep
  <1>3. CASE RunQueue(w)
    BY <1>3, RunQueueStep
  <1>4. CASE RunRead(w)
    BY <1>4, RunReadStep
  <1>5. CASE RunGone(w) \/ RunAborted(w) \/ RunNoChunks(w) \/ RunClear(w)
    <2>1. /\ Held(w) /\ wk[w].at = "run" /\ wk' = [wk EXCEPT ![w] = IdleWorker]
          /\ UNCHANGED <<chunks, stored, creator, rn, blocked, quiesce, closing, fenced, restarts>>
      BY <1>5 DEF RunGone, RunAborted, RunNoChunks, RunClear, FinishFailed, Held
    <2>2. CASE jobs' = jobs \/ jobs' = Written(wk[w].id, "failed")
      BY <2>1, <2>2, WorkerEnds, Zenon DEF Terminal
    <2>3. CASE /\ wk[w].id \in Clear
               /\ jobs' = Written(wk[w].id, "succeeded")
      BY <2>1, <2>3, WorkerEnds, Zenon DEF Terminal
    <2> QED
      BY <1>5, <2>2, <2>3, Zenon DEF RunGone, RunAborted, RunNoChunks, RunClear, FinishFailed, Settle
  <1>6. CASE RunFinish(w)
    <2>1. /\ Held(w) /\ wk[w].at = "finish" /\ wk' = [wk EXCEPT ![w] = IdleWorker]
          /\ UNCHANGED <<chunks, stored, creator, rn, blocked, quiesce, closing, fenced, restarts>>
      BY <1>6 DEF RunFinish, Held
    <2>2. CASE jobs' = jobs
      BY <2>1, <2>2, WorkerEnds, Zenon DEF Terminal
    <2>3. CASE ~wk[w].interrupted
      <3> DEFINE s == IF wk[w].cancelled \/ wk[w].seen THEN "cancelled"
                      ELSE IF wk[w].failed THEN "failed" ELSE "succeeded"
      <3>1. s \in Terminal /\ (s = "succeeded" => Clean(w))
        BY <2>1, <2>3 DEF Terminal, Clean
      <3>2. jobs' = jobs \/ jobs' = Written(wk[w].id, s)
        BY <1>6, <2>3, Zenon DEF RunFinish, Settle
      <3> HIDE DEF s
      <3> QED
        BY <2>1, <2>3, <3>1, <3>2, WorkerEnds, Zenon
    <2> QED
      BY <1>6, <2>2, <2>3, Zenon DEF RunFinish
  <1> QED
    BY <1>1, <1>2, <1>3, <1>4, <1>5, <1>6, Zenon DEF Run

(* What a chunk runner does. *)
LEMMA RunChunkStep ==
    ASSUME JobsInv, NEW w \in Workers, NEW c \in Chunks, RunChunk(w, c)
    PROVE  JobsInv'
  <1>1. CASE ChunkProcess(w, c)
    BY <1>1, ProcessStep
  <1>2. CASE ChunkStart(w, c)
    <2>1. /\ rn[w][c].at # "none" /\ rn' = [rn EXCEPT ![w][c].at = "loop"]
          /\ chunks' = chunks \/ chunks' \in Checkpointed(wk[w].id, c, ChunkRow(w, c, "running"))
          /\ jobs' = jobs /\ wk' = wk
          /\ UNCHANGED <<stored, creator, blocked, quiesce, closing, fenced, restarts>>
      BY <1>2 DEF ChunkStart
    <2> QED
      BY <2>1, RunnerStep, Zenon
  <1>3. CASE ChunkDone(w, c)
    <2>1. /\ rn[w][c].at # "none" /\ rn' = [rn EXCEPT ![w][c].at = "none"] /\ rn[w][c].next = TilesIn[c]
          /\ chunks' \in Checkpointed(wk[w].id, c, ChunkRow(w, c, "succeeded"))
          /\ jobs' = jobs /\ wk' = wk
          /\ UNCHANGED <<stored, creator, blocked, quiesce, closing, fenced, restarts>>
      BY <1>3 DEF ChunkDone, ChunkEnd
    <2> QED
      BY <2>1, RunnerStep, Zenon
  <1>4. CASE ChunkInterrupted(w, c)
    <2>1. /\ rn[w][c].at # "none" /\ rn' = [rn EXCEPT ![w][c].at = "none"]
          /\ chunks' \in Checkpointed(wk[w].id, c, ChunkRow(w, c, "queued"))
          /\ jobs' = jobs /\ wk' = [wk EXCEPT ![w].interrupted = TRUE]
          /\ UNCHANGED <<stored, creator, blocked, quiesce, closing, fenced, restarts>>
      BY <1>4 DEF ChunkInterrupted, ChunkEnd
    <2> QED
      BY <2>1, RunnerStep, Zenon
  <1>5. CASE ChunkCancelled(w, c)
    <2>1. /\ rn[w][c].at # "none" /\ rn' = [rn EXCEPT ![w][c].at = "none"]
          /\ chunks' \in Checkpointed(wk[w].id, c, ChunkRow(w, c, "cancelled"))
          /\ jobs' = jobs /\ wk' = [wk EXCEPT ![w].cancelled = TRUE]
          /\ UNCHANGED <<stored, creator, blocked, quiesce, closing, fenced, restarts>>
      BY <1>5 DEF ChunkCancelled, ChunkEnd
    <2> QED
      BY <2>1, RunnerStep, Zenon
  <1>6. CASE ChunkNext(w, c)
    <2>1. /\ rn[w][c].at # "none" /\ rn' = [rn EXCEPT ![w][c].at = "process"] /\ rn[w][c].next < TilesIn[c]
          /\ chunks' = chunks /\ jobs' = jobs /\ wk' = wk
          /\ UNCHANGED <<stored, creator, blocked, quiesce, closing, fenced, restarts>>
      BY <1>6 DEF ChunkNext
    <2> QED
      BY <2>1, RunnerStep, Zenon
  <1>7. CASE ChunkCheckpoint(w, c)
    <2>1. /\ rn[w][c].at # "none" /\ rn' = [rn EXCEPT ![w][c].at = "progress"]
          /\ chunks' \in Checkpointed(wk[w].id, c, ChunkRow(w, c, "running"))
          /\ jobs' = jobs /\ wk' = wk
          /\ UNCHANGED <<stored, creator, blocked, quiesce, closing, fenced, restarts>>
      BY <1>7 DEF ChunkCheckpoint
    <2> QED
      BY <2>1, RunnerStep, Zenon
  <1>8. CASE ChunkProgress(w, c)
    <2>1. /\ rn[w][c].at # "none" /\ rn' = [rn EXCEPT ![w][c].at = "loop"]
          /\ chunks' = chunks /\ (jobs' = jobs \/ jobs' = Written(wk[w].id, "running")) /\ wk' = wk
          /\ UNCHANGED <<stored, creator, blocked, quiesce, closing, fenced, restarts>>
      BY <1>8 DEF ChunkProgress
    <2> QED
      BY <2>1, RunnerStep, Zenon
  <1> QED
    BY <1>1, <1>2, <1>3, <1>4, <1>5, <1>6, <1>7, <1>8, Zenon DEF RunChunk

(* Cancelling by a user or by a quiesce, the quiesce itself, Close and the *)
(* loss of ownership.                                                      *)
LEMMA OutsideStep ==
    ASSUME JobsInv, (\E j \in Jobs : Cancel(j)) \/ Quiesce \/ Close \/ Fence
    PROVE  JobsInv'
  <1>0. /\ jobs \in [Jobs -> JobRow] /\ blocked \subseteq Resources \cup {Workspace} /\ quiesce \in QuiesceState
        /\ closing \in BOOLEAN /\ fenced \in BOOLEAN /\ SilentInv
    BY Zenon DEF JobsInv, RowsTyped
  <1>1. quiesce.at \in {"cancel", "poll", "done", "purged"} => quiesce.scope \in blocked
    BY <1>0, Zenon DEF SilentInv
  <1>2. CASE \E j \in Jobs : Cancel(j)
    <2>1. PICK j \in Jobs : Cancel(j)
      BY <1>2
    <2>2. /\ jobs' = [k \in Jobs |-> IF k \in {j} THEN CancelRow(jobs[k]) ELSE jobs[k]]
          /\ \A k \in {j} : jobs[k].status \in Active
          /\ UNCHANGED <<chunks, stored, creator, wk, rn, blocked, quiesce, closing, fenced, restarts>>
      BY <1>0, <2>1, Zenon DEF Cancel
    <2>3. /\ jobs' \in [Jobs -> JobRow]
          /\ \A k \in Jobs :
                /\ jobs[k].status \in {"running", "cancelling"} => jobs'[k].status \in {"running", "cancelling"}
                /\ jobs[k].status \in {"failed", "none"} => jobs'[k].status = jobs[k].status
                /\ jobs'[k].status = "succeeded" => jobs[k].status = "succeeded"
      BY <2>2, CancelStep, Zenon
    <2> QED
      BY <1>0, <1>1, <2>2, <2>3, FrameStep
  <1>3. CASE \E scope \in Scopes : QuiesceBlock(scope)
    <2>1. PICK scope \in Scopes : QuiesceBlock(scope)
      BY <1>3, Zenon
    <2>2. /\ UNCHANGED <<jobs, chunks, stored, creator, wk, rn, closing, fenced, restarts>>
          /\ blocked' \subseteq Resources \cup {Workspace} /\ quiesce' \in QuiesceState
          /\ quiesce'.at = "cancel" /\ quiesce'.scope \in blocked'
      BY <1>0, <2>1, TileJobsAssumption DEF QuiesceBlock, QuiesceState
    <2> QED
      BY <1>0, <2>2, FrameStep
  <1>4. CASE QuiesceCancel
    <2>1. UNCHANGED <<chunks, stored, creator, wk, rn, blocked, closing, fenced, restarts>>
      BY <1>4 DEF QuiesceCancel
    <2>2. quiesce' \in QuiesceState /\ quiesce'.at \in {"poll"} /\ quiesce'.scope \in blocked'
      BY <1>0, <1>1, <1>4, Zenon DEF QuiesceCancel, QuiesceState
    <2> DEFINE S == {j \in Jobs : InScope(j, quiesce.scope) /\ jobs[j].status \in Active}
    <2>3. /\ jobs' = [j \in Jobs |-> IF j \in S THEN CancelRow(jobs[j]) ELSE jobs[j]]
            /\ S \in SUBSET Jobs /\ \A j \in S : jobs[j].status \in Active
        BY <1>4, Zenon DEF QuiesceCancel
    <2> HIDE DEF S
    <2>4. /\ jobs' \in [Jobs -> JobRow]
            /\ \A k \in Jobs :
                  /\ jobs[k].status \in {"running", "cancelling"} => jobs'[k].status \in {"running", "cancelling"}
                  /\ jobs[k].status \in {"failed", "none"} => jobs'[k].status = jobs[k].status
                  /\ jobs'[k].status = "succeeded" => jobs[k].status = "succeeded"
        BY <2>3, CancelStep, Zenon
    <2> QED
      BY <1>0, <2>1, <2>2, <2>4, FrameStep
  <1>5. CASE QuiescePoll
    <2>1. /\ UNCHANGED <<jobs, chunks, stored, creator, wk, rn, blocked, closing, fenced, restarts>>
          /\ \A j \in Jobs : InScope(j, quiesce.scope) => jobs[j].status \notin Active
      BY <1>5 DEF QuiescePoll
    <2>2. quiesce' \in QuiesceState /\ quiesce'.at = "done" /\ quiesce'.scope = quiesce.scope /\ quiesce.scope \in blocked
      BY <1>0, <1>1, <1>5 DEF QuiescePoll, QuiesceState
    <2> QED
      BY <1>0, <2>1, <2>2, FrameStep
  <1>9. CASE QuiesceFails
    <2>1. UNCHANGED <<jobs, chunks, stored, creator, wk, rn, blocked, closing, fenced, restarts>>
      BY <1>9 DEF QuiesceFails
    <2>2. quiesce' \in QuiesceState /\ quiesce'.at = "failed"
      BY <1>0, <1>9, Zenon DEF QuiesceFails, QuiesceState
    <2> QED
      BY <1>0, <2>1, <2>2, FrameStep
  <1>6. CASE PurgeJobs
    BY <1>6, PurgeStep, Zenon
  <1>7. CASE Close
    <2>1. closing' \in BOOLEAN /\ UNCHANGED <<jobs, chunks, stored, creator, wk, rn, blocked, quiesce, fenced, restarts>>
      BY <1>7, Zenon DEF Close
    <2> QED
      BY <1>0, <1>1, <2>1, FrameStep, Zenon
  <1>8. CASE Fence
    <2>1. /\ fenced' = TRUE /\ fenced' \in BOOLEAN
          /\ UNCHANGED <<jobs, chunks, stored, creator, wk, rn, blocked, quiesce, closing, restarts>>
      BY <1>8 DEF Fence
    <2> QED
      BY <1>0, <1>1, <2>1, FrameStep, Zenon
  <1> QED
    BY <1>2, <1>3, <1>4, <1>5, <1>6, <1>7, <1>8, <1>9, Zenon DEF Quiesce

(* Every step keeps the invariant. *)
LEMMA JobsStep == JobsInv /\ [Next]_vars => JobsInv'
  <1> SUFFICES ASSUME JobsInv, [Next]_vars PROVE JobsInv'
    OBVIOUS
  <1>1. CASE \E j \in Jobs : Create(j)
    BY <1>1, CreateStep
  <1>2. CASE \E w \in Workers : Run(w)
    BY <1>2, RunStep
  <1>3. CASE \E w \in Workers : \E c \in Chunks : RunChunk(w, c)
    BY <1>3, RunChunkStep
  <1>4. CASE (\E j \in Jobs : Cancel(j)) \/ Quiesce \/ Close \/ Fence
    BY <1>4, OutsideStep
  <1>5. CASE Restart
    BY <1>5, RestartStep, Zenon
  <1>6. CASE UNCHANGED vars
    <2>1. /\ jobs' = jobs /\ chunks' = chunks /\ stored' = stored /\ creator' = creator /\ wk' = wk /\ rn' = rn
          /\ blocked' = blocked /\ quiesce' = quiesce /\ closing' = closing /\ fenced' = fenced /\ restarts' = restarts
      BY <1>6, Zenon DEF vars
    <2>2. /\ jobs \in [Jobs -> JobRow] /\ blocked \subseteq Resources \cup {Workspace} /\ quiesce \in QuiesceState
          /\ closing \in BOOLEAN /\ fenced \in BOOLEAN
          /\ quiesce.at \in {"cancel", "poll", "done", "purged"} => quiesce.scope \in blocked
      BY DEF JobsInv, RowsTyped, SilentInv
    <2> QED
      BY <2>1, <2>2, FrameStep, Zenon
  <1> QED
    BY <1>1, <1>2, <1>3, <1>4, <1>5, <1>6, Zenon DEF Next

LEMMA JobsAlways == Spec => []JobsInv
  BY JobsInit, JobsStep, PTL DEF Spec

(* Once QuiesceLifecycle has returned, no worker of tilejobs/manager.go    *)
(* can still write tiles for the scope, although jobs of the scope may be  *)
(* inserted and claimed after it.                                          *)
THEOREM QuiesceSilences == Spec => []QuiescedScopeSilent
  <1>1. JobsInv => QuiescedScopeSilent
    BY Zenon DEF JobsInv, SilentInv, QuiescedScopeSilent, CanWriteTiles, Stillborn
  <1> QED
    BY <1>1, JobsAlways, PTL

(* No checkpoint that UpdateTileCacheJobChunk writes hides a tile: the     *)
(* offsets before it took effect or are counted in the row.                *)
THEOREM CheckpointsHonest == Spec => []SkippedTilesRecorded
  <1>1. JobsInv => SkippedTilesRecorded
    BY Zenon DEF JobsInv, RecordedInv, Missed, SkippedTilesRecorded
  <1> QED
    BY <1>1, JobsAlways, PTL

(* The status succeeded at the end of run means that every tile of every   *)
(* chunk took effect, except those an earlier run counted as failed in the *)
(* chunk's row, over any number of restarts and of checkpoints that were   *)
(* not stored.                                                             *)
THEOREM SucceededIsComplete == Spec => []SucceededMeansComplete
  <1>1. JobsInv => SucceededMeansComplete
    BY Zenon DEF JobsInv, CompleteInv, Complete, Missed, SucceededMeansComplete
  <1> QED
    BY <1>1, JobsAlways, PTL

(* One worker per job: claimNext never gives a job to two workers, in      *)
(* spite of restarts, cancellations and progress updates that put the      *)
(* status running back.                                                    *)
OneWorkerPerJob ==
    \A w, v \in Workers : wk[w].at # "idle" /\ wk[v].at # "idle" /\ wk[w].id = wk[v].id => w = v

(* ClaimNextTileCacheJob hands a job to one worker at a time. *)
THEOREM JobsHaveOneWorker == Spec => []OneWorkerPerJob
  <1>1. JobsInv => OneWorkerPerJob
    BY DEF JobsInv, HolderInv, Held, OneWorkerPerJob
  <1> QED
    BY <1>1, JobsAlways, PTL

=============================================================================
