--------------------------- MODULE AuditDelivery ---------------------------
(***************************************************************************)
(* Delivery of audit events (internal/audit/audit.go) with its durable      *)
(* outbox in the catalog (internal/store/store_audit_outbox.go).            *)
(*                                                                         *)
(* One goroutine per request calls Record; one retry loop, and Close at     *)
(* shutdown, call drainBatch under drainMu.  The audit database and the     *)
(* outbox survive a restart, the counters and flags of the Manager do not.  *)
(* An event is the number of its timestamp: the outbox is listed in order   *)
(* of occurred_at.  A database call that reports an error may nevertheless  *)
(* have committed (its context timed out), so a failing write leaves either *)
(* outcome behind.  The id is the primary key of audit_events and the insert *)
(* does nothing on a conflict, so that rows is a set.  late and uncounted   *)
(* are no state of the code: they follow which of the events that were     *)
(* added to the counter a later Store has overwritten.                     *)
(***************************************************************************)
EXTENDS Integers, FiniteSets

CONSTANTS
    Events,          \* event ids, ordered by occurred_at
    RetryBatchSize,  \* conf.Audit.RetryBatchSize
    MaxRestarts      \* bound: process restarts in one behaviour

ASSUME AuditAssumption ==
    /\ Events \subseteq Nat
    /\ IsFiniteSet(Events)
    /\ RetryBatchSize \in Nat \ {0}
    /\ MaxRestarts \in Nat

VARIABLES
    rows,       \* audit_events: the events that have a row
    outbox,     \* audit_outbox: events queued in the catalog
    aged,       \* events older than the retention cutoff
    pending,    \* Manager.pending
    writeBad,   \* Manager.writeBad
    retainBad,  \* Manager.retainBad
    lost,       \* Manager.lost
    pc,         \* where the request goroutine of an event is
    drain,      \* the drainBatch that holds drainMu
    late,       \* events queued since the CountAuditOutbox whose result is not stored yet
    uncounted,  \* events whose m.pending.Add the last m.pending.Store overwrote
    mode,       \* serving, draining (in Close) or stopped
    restarts

vars == <<rows, outbox, aged, pending, writeBad, retainBad, lost, pc, drain, late, uncounted, mode, restarts>>

None == -1   \* no current item; events are naturals

Idle == [at |-> "idle", by |-> "none", cur |-> None, todo |-> {}, count |-> 0]

Oldest(S) == CHOOSE e \in S : \A f \in S : e <= f

(* ListAuditOutbox: ORDER BY occurred_at,id LIMIT RetryBatchSize. *)
Batch(S) == {e \in S : Cardinality({f \in S : f < e}) < RetryBatchSize}

(* drainBatch moves to the next listed item, or to the final count. *)
NextItem(d, todo) ==
    IF todo = {} THEN [d EXCEPT !.at = "count", !.cur = None, !.todo = {}]
    ELSE [d EXCEPT !.at = "write", !.cur = Oldest(todo), !.todo = todo \ {Oldest(todo)}]

(* INSERT ... ON CONFLICT(id) DO NOTHING. *)
InsertEvent(e) == rows \cup {e}

Init ==
    /\ rows = {}
    /\ outbox = {}
    /\ aged = {}
    /\ pending = 0
    /\ writeBad = FALSE
    /\ retainBad = FALSE
    /\ lost = FALSE
    /\ pc = [e \in Events |-> "idle"]
    /\ drain = Idle
    /\ late = {}
    /\ uncounted = {}
    /\ mode = "serving"
    /\ restarts = 0

----------------------------------------------------------------------------
(* Record, in the goroutine of a request. *)

(* Record starts: with a known backlog the event goes straight to the outbox. *)
RecordBegin(e) ==
    /\ mode = "serving"
    /\ pc[e] = "idle"
    /\ pc' = [pc EXCEPT ![e] = IF writeBad \/ pending > 0 THEN "enqueue" ELSE "direct"]
    /\ UNCHANGED <<rows, outbox, aged, pending, writeBad, retainBad, lost, drain, late, uncounted, mode, restarts>>

(* The direct write into the audit database. *)
DirectWrite(e) ==
    /\ pc[e] = "direct"
    /\ \/ /\ mode # "stopped"
          /\ rows' = InsertEvent(e)
          /\ pc' = [pc EXCEPT ![e] = "accepted"]
       \/ /\ rows' \in {rows, IF mode = "stopped" THEN rows ELSE InsertEvent(e)}
          /\ pc' = [pc EXCEPT ![e] = "enqueue"]
    /\ UNCHANGED <<outbox, aged, pending, writeBad, retainBad, lost, drain, late, uncounted, mode, restarts>>

(* enqueue succeeds in inserting into the catalog outbox. *)
EnqueueInsert(e) ==
    /\ pc[e] = "enqueue"
    /\ outbox' = outbox \cup {e}
    /\ late' = IF drain.at = "store" THEN late \cup {e} ELSE late
    /\ pc' = [pc EXCEPT ![e] = "queued"]
    /\ UNCHANGED <<rows, aged, pending, writeBad, retainBad, lost, drain, uncounted, mode, restarts>>

(* Mutant: the loss only marks delivery as degraded. *)
EnqueueFailUnlatched(e) ==
    /\ pc[e] = "enqueue"
    /\ outbox' \in {outbox, outbox \cup {e}}
    /\ writeBad' = TRUE
    /\ pc' = [pc EXCEPT ![e] = "rejected"]
    /\ UNCHANGED <<rows, aged, pending, retainBad, lost, drain, late, uncounted, mode, restarts>>

(* enqueue fails: markLost latches the loss. *)
EnqueueFail(e) ==
    /\ pc[e] = "enqueue"
    /\ outbox' \in {outbox, outbox \cup {e}}
    /\ lost' = TRUE
    /\ writeBad' = TRUE
    /\ pc' = [pc EXCEPT ![e] = "rejected"]
    /\ UNCHANGED <<rows, aged, pending, retainBad, drain, late, uncounted, mode, restarts>>

(* m.pending.Add(1) *)
EnqueueCount(e) ==
    /\ pc[e] = "queued"
    /\ pending' = pending + 1
    /\ pc' = [pc EXCEPT ![e] = "counted"]
    /\ UNCHANGED <<rows, outbox, aged, writeBad, retainBad, lost, drain, late, uncounted, mode, restarts>>

(* m.writeBad.Swap(true), signalRetry, and Record returns nil. *)
EnqueueFlag(e) ==
    /\ pc[e] = "counted"
    /\ writeBad' = TRUE
    /\ pc' = [pc EXCEPT ![e] = "accepted"]
    /\ UNCHANGED <<rows, outbox, aged, pending, retainBad, lost, drain, late, uncounted, mode, restarts>>

----------------------------------------------------------------------------
(* drainBatch, under drainMu. *)

DrainFailed ==
    /\ writeBad' = TRUE
    /\ drain' = Idle

DrainBeginBy(caller) ==
    /\ drain.at = "idle"
    /\ \/ /\ drain' = NextItem([Idle EXCEPT !.by = caller], Batch(outbox))
          /\ UNCHANGED writeBad
       \/ DrainFailed
    /\ UNCHANGED <<rows, outbox, aged, pending, retainBad, lost, pc, late, uncounted, mode, restarts>>

(* Mutant: the last pending event does not start a batch. *)
RetryBeginLate == mode # "stopped" /\ pending > 1 /\ DrainBeginBy("retry")

(* retryLoop: the ticker or the wake channel, skipped when nothing is pending. *)
RetryBegin == mode # "stopped" /\ pending # 0 /\ DrainBeginBy("retry")

(* Close drains while anything is pending. *)
CloseDrainBegin == mode = "draining" /\ pending > 0 /\ DrainBeginBy("close")

(* Mutant: a failed write is taken for a delivery. *)
DrainWriteUnchecked ==
    /\ drain.at = "write"
    /\ rows' \in {rows, InsertEvent(drain.cur)}
    /\ drain' = [drain EXCEPT !.at = "delete"]
    /\ UNCHANGED <<outbox, aged, pending, writeBad, retainBad, lost, pc, late, uncounted, mode, restarts>>

DrainWrite ==
    /\ drain.at = "write"
    /\ \/ /\ mode # "stopped"
          /\ rows' = InsertEvent(drain.cur)
          /\ drain' = [drain EXCEPT !.at = "delete"]
          /\ UNCHANGED writeBad
       \/ /\ rows' \in {rows, IF mode = "stopped" THEN rows ELSE InsertEvent(drain.cur)}
          /\ DrainFailed
    /\ UNCHANGED <<outbox, aged, pending, retainBad, lost, pc, late, uncounted, mode, restarts>>

(* Mutant: the delivery is subtracted from the counter also when its row
   could not be deleted. *)
DrainDeleteUnchecked ==
    /\ drain.at = "delete"
    /\ outbox' \in {outbox, outbox \ {drain.cur}}
    /\ pending' = pending - 1
    /\ drain' = NextItem(drain, drain.todo)
    /\ UNCHANGED <<rows, aged, writeBad, retainBad, lost, pc, late, uncounted, mode, restarts>>

(* DeleteAuditOutboxEvent and m.pending.Add(-1), then the next item. *)
DrainDelete ==
    /\ drain.at = "delete"
    /\ \/ /\ mode # "stopped"
          /\ outbox' = outbox \ {drain.cur}
          /\ pending' = pending - 1
          /\ drain' = NextItem(drain, drain.todo)
          /\ UNCHANGED writeBad
       \/ /\ outbox' \in {outbox, outbox \ {drain.cur}}
          /\ DrainFailed
          /\ UNCHANGED pending
    /\ UNCHANGED <<rows, aged, retainBad, lost, pc, late, uncounted, mode, restarts>>

DrainCount ==
    /\ drain.at = "count"
    /\ \/ /\ mode # "stopped"
          /\ drain' = [drain EXCEPT !.at = "store", !.count = Cardinality(outbox)]
          /\ UNCHANGED writeBad
       \/ DrainFailed
    /\ UNCHANGED <<rows, outbox, aged, pending, retainBad, lost, pc, late, uncounted, mode, restarts>>

(* m.pending.Store(count): whatever was added since the count is overwritten. *)
DrainStore ==
    /\ drain.at = "store"
    /\ pending' = drain.count
    /\ uncounted' = {e \in late : pc[e] # "queued"}
    /\ late' = {}
    /\ drain' = [drain EXCEPT !.at = "recover"]
    /\ UNCHANGED <<rows, outbox, aged, writeBad, retainBad, lost, pc, mode, restarts>>

(* The count and m.lost are looked at. *)
DrainRecover ==
    /\ drain.at = "recover"
    /\ IF drain.count = 0 /\ ~lost
       THEN drain' = [drain EXCEPT !.at = "swap"] /\ UNCHANGED writeBad
       ELSE DrainFailed
    /\ UNCHANGED <<rows, outbox, aged, pending, retainBad, lost, pc, late, uncounted, mode, restarts>>

(* m.writeBad.Swap(false), whatever was queued or lost since. *)
DrainSwap ==
    /\ drain.at = "swap"
    /\ writeBad' = FALSE
    /\ drain' = Idle
    /\ UNCHANGED <<rows, outbox, aged, pending, retainBad, lost, pc, late, uncounted, mode, restarts>>

----------------------------------------------------------------------------
(* Retention, shutdown and restart. *)

(* Time passes: a recorded event falls behind the retention cutoff. *)
Age(e) ==
    /\ e \notin aged
    /\ pc[e] # "idle"
    /\ aged' = aged \cup {e}
    /\ UNCHANGED <<rows, outbox, pending, writeBad, retainBad, lost, pc, drain, late, uncounted, mode, restarts>>

(* Purge deletes the rows behind the cutoff, or records that it could not. *)
Purge ==
    /\ mode # "stopped"
    /\ \/ /\ rows' = rows \ aged
          /\ retainBad' = FALSE
       \/ /\ retainBad' = TRUE
          /\ UNCHANGED rows
    /\ UNCHANGED <<outbox, aged, pending, writeBad, lost, pc, drain, late, uncounted, mode, restarts>>

(* Server.Shutdown has stopped the listener and calls Close. *)
CloseBegin ==
    /\ mode = "serving"
    /\ mode' = "draining"
    /\ UNCHANGED <<rows, outbox, aged, pending, writeBad, retainBad, lost, pc, drain, late, uncounted, restarts>>

(* Nothing is pending, or the shutdown deadline passed: the context is
   cancelled and the audit database closed. *)
CloseFinish ==
    /\ mode = "draining"
    /\ drain.by # "close"
    /\ mode' = "stopped"
    /\ UNCHANGED <<rows, outbox, aged, pending, writeBad, retainBad, lost, pc, drain, late, uncounted, restarts>>

(* A crash at any point, or a clean exit, followed by Open: the counters are
   read back from the outbox. *)
Restart ==
    /\ restarts < MaxRestarts
    /\ restarts' = restarts + 1
    /\ mode' = "serving"
    /\ pending' = Cardinality(outbox)
    /\ writeBad' = (outbox # {})
    /\ retainBad' = FALSE
    /\ lost' = FALSE
    /\ pc' = [e \in Events |-> IF pc[e] \in {"idle", "accepted"} THEN pc[e] ELSE "dead"]
    /\ drain' = Idle
    /\ late' = {}
    /\ uncounted' = {}
    /\ UNCHANGED <<rows, outbox, aged>>

Next ==
    \/ \E e \in Events :
          \/ RecordBegin(e) \/ DirectWrite(e) \/ EnqueueInsert(e) \/ EnqueueFail(e)
          \/ EnqueueCount(e) \/ EnqueueFlag(e) \/ Age(e)
    \/ RetryBegin \/ CloseDrainBegin \/ DrainWrite \/ DrainDelete
    \/ DrainCount \/ DrainStore \/ DrainRecover \/ DrainSwap
    \/ Purge \/ CloseBegin \/ CloseFinish \/ Restart

Spec == Init /\ [][Next]_vars

(* The retry ticker keeps firing, a started batch is carried on, requests run
   to their end, and a database that fails does not fail for ever. *)
Fairness ==
    /\ WF_vars(RetryBegin)
    /\ SF_vars(DrainWrite /\ drain'.at = "delete")
    /\ SF_vars(DrainDelete /\ drain'.at # "idle")
    /\ SF_vars(DrainCount /\ drain'.at = "store")
    /\ SF_vars(RetryBegin /\ drain'.at # "idle")
    /\ WF_vars(DrainWrite) /\ WF_vars(DrainDelete) /\ WF_vars(DrainCount)
    /\ WF_vars(DrainStore) /\ WF_vars(DrainRecover) /\ WF_vars(DrainSwap)
    /\ \A e \in Events : WF_vars(DirectWrite(e) \/ EnqueueInsert(e) \/ EnqueueFail(e)
                                   \/ EnqueueCount(e) \/ EnqueueFlag(e))

FairSpec == Spec /\ Fairness

----------------------------------------------------------------------------
(* Properties. *)

PC == {"idle", "direct", "enqueue", "queued", "counted", "accepted", "rejected", "dead"}

DrainState ==
    [at : {"idle", "write", "delete", "count", "store", "recover", "swap"},
     by : {"none", "retry", "close"},
     cur : Events \cup {None}, todo : SUBSET Events, count : Nat]

(* The Manager's counters and flags, the two databases and the two kinds of
   goroutine stay within their types. *)
TypeOK ==
    /\ rows \subseteq Events
    /\ outbox \subseteq Events
    /\ aged \subseteq Events
    /\ pending \in Int
    /\ writeBad \in BOOLEAN /\ retainBad \in BOOLEAN /\ lost \in BOOLEAN
    /\ pc \in [Events -> PC]
    /\ drain \in DrainState
    /\ late \subseteq Events /\ uncounted \subseteq Events
    /\ mode \in {"serving", "draining", "stopped"}
    /\ restarts \in 0..MaxRestarts

(* An event whose Record returned nil is in the audit database or still queued
   in the catalog, whatever failed, crashed or was shut down since; only the
   retention cutoff lets it disappear. *)
AcceptedNotLost ==
    \A e \in Events : pc[e] = "accepted" => e \in rows \/ e \in outbox \/ e \in aged

(* m.pending, which /ready and the retry loop go by, falls short of the backlog
   in the outbox by three kinds of event only: one whose request has not come
   to m.pending.Add yet, one that was reported as lost although its insert took
   effect, and one that was queued and added between CountAuditOutbox and the
   m.pending.Store of its result.  Deliveries that fail half way, batches that
   are drained again, restarts and shutdowns never make it fall behind. *)
BacklogCounted ==
    Cardinality(outbox) <=
        pending + Cardinality({e \in Events : pc[e] \in {"queued", "rejected"}}) + Cardinality(uncounted)

(* Manager.Health returns nil. *)
Healthy == mode # "stopped" /\ ~lost /\ ~retainBad /\ ~(pending > 0) /\ ~writeBad

(* An event for which both the write and the handoff failed keeps /ready failed
   until the process ends, whatever a concurrent drainBatch recovers. *)
LossLatched == (\E e \in Events : pc[e] = "rejected") => ~Healthy

(* While the retry loop knows of a backlog, it works on it: an event in the
   outbox is delivered once the databases answer, unless the process is shut
   down or the counter loses track of the backlog. *)
BacklogDrains ==
    \A e \in Events :
        (e \in outbox /\ pending > 0) ~> (e \notin outbox \/ ~(pending > 0) \/ mode = "stopped")

(* No Record and no drainBatch is in progress. *)
Quiet ==
    /\ mode = "serving"
    /\ drain.at = "idle"
    /\ \A e \in Events : pc[e] \in {"idle", "accepted", "rejected", "dead"}

(* docs/deployment.md: a queued event "changes the audit readiness check to
   `failed` until the backlog drains".  The code can leave a backlog behind a
   healthy Manager: an event enqueued between CountAuditOutbox and
   m.pending.Store(count) is no longer counted. *)
ReadyReportsBacklog == Quiet /\ outbox # {} => ~Healthy
=============================================================================
