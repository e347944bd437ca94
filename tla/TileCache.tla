----------------------------- MODULE TileCache ------------------------------
(***************************************************************************)
(* The persistent tile cache: internal/tilecache/manager.go over the DuckDB *)
(* index of index.go and a blob store (filesystem.go or s3.go).  A tile is  *)
(* a row of the index and a payload in the blob store, written in the order *)
(* pending row, payload, ready row; usage counters per scope are kept in    *)
(* the transaction that changes a row.  Mutating operations hold m.mu, and  *)
(* op is the one that does; each index transaction and each blob operation  *)
(* is one step, so that readers (who do not lock) and crashes fall between. *)
(*                                                                         *)
(* A key is a canonical tile identity; ScopesOf[k] are the scopes it counts *)
(* in, in the order Put checks them.  A payload is its version (the number  *)
(* of the Put that wrote it) and its size.  Which candidate of a scope is   *)
(* least recently used depends on access times only, and is left open.      *)
(* drifted, leaked and unsure are history variables: a repair removed a row *)
(* newer than the one it had read; a failed clean-up was ignored; the keys  *)
(* whose payload was replaced by a write that reported failure.             *)
(***************************************************************************)
EXTENDS Integers, Sequences, FiniteSets, FiniteSetsExt, Functions

CONSTANTS
    Keys,        \* tile identities
    Scopes,      \* quota scopes: resources, workspaces, the whole cache
    ScopesOf,    \* [Keys -> Seq(Scopes)]: resource, workspace, global
    Quota,       \* [Scopes -> Nat], 0 for none
    WipedBy,     \* for a scope of PurgeLifecycle, the scopes whose usage rows it deletes
    Sizes,       \* payload sizes in bytes
    Readers,     \* concurrent callers of Get and Exists
    Ambiguous,   \* a failed blob write may have taken effect (S3)
    MaxPuts,     \* bound: calls of Put
    MaxCrashes   \* bound: process restarts

ASSUME TileCacheAssumption ==
    /\ ScopesOf \in [Keys -> Seq(Scopes)]
    /\ Quota \in [Scopes -> Nat]
    /\ DOMAIN WipedBy \subseteq Scopes
    /\ \A s \in DOMAIN WipedBy : WipedBy[s] \subseteq Scopes
    /\ Sizes \subseteq Nat \ {0}
    /\ Ambiguous \in BOOLEAN
    /\ MaxPuts \in Nat /\ MaxCrashes \in Nat

VARIABLES
    rows,     \* tile_entries: state, size_bytes, etag
    blobs,    \* payloads in the blob store; version 0 for none
    usage,    \* cache_usage.size_bytes per scope
    op,       \* the holder of m.mu
    reader,   \* the callers of Get and Exists
    purge,    \* the scope whose usage rows PurgeLifecycle has still to delete
    wiped,    \* the scopes whose usage rows PurgeLifecycle deleted
    puts, crashes, serving,
    drifted, leaked, unsure

vars == <<rows, blobs, usage, op, reader, purge, wiped, puts, crashes, serving, drifted, leaked, unsure>>

-----------------------------------------------------------------------------
(* Rows, payloads and usage. *)

NoRow  == [state |-> "none", size |-> 0, ver |-> 0]
NoBlob == [size |-> 0, ver |-> 0]
Free   == [kind |-> "none", at |-> "idle", key |-> "none", size |-> 0, prev |-> NoRow,
           scope |-> 0, todo |-> {}, sel |-> {}]
NoScope == "none"

InScope(k, s) == s \in Range(ScopesOf[k])
ReadyIn(s)    == {k \in Keys : rows[k].state = "ready" /\ InScope(k, s)}

(* adjustUsage, floored at zero like the statement's GREATEST(0, ...). *)
AdjustUsage(u, k, bytes) ==
    [s \in Scopes |-> IF InScope(k, s) THEN Max({0, u[s] + bytes}) ELSE u[s]]

(* Mutant: the usage is adjusted whatever the state of the removed row. *)
RemoveAlways(k, size) ==
    /\ rows' = [rows EXCEPT ![k] = NoRow]
    /\ usage' = AdjustUsage(usage, k, -size)

(* metadataIndex.remove of an entry with that key and size: the row is      *)
(* deleted whatever it holds now, and the entry's size is given back if the *)
(* row was ready.                                                           *)
Remove(k, size) ==
    /\ rows' = [rows EXCEPT ![k] = NoRow]
    /\ usage' = IF rows[k].state = "ready" THEN AdjustUsage(usage, k, -size) ELSE usage

(* Delete of the blob store, which succeeds when there is nothing. *)
DeleteBlob(k) == blobs' = [blobs EXCEPT ![k] = NoBlob]

Release == op' = Free

Init ==
    /\ rows = [k \in Keys |-> NoRow]
    /\ blobs = [k \in Keys |-> NoBlob]
    /\ usage = [s \in Scopes |-> 0]
    /\ op = Free
    /\ reader = [r \in Readers |-> [at |-> "idle", key |-> "none", row |-> NoRow]]
    /\ purge = NoScope
    /\ wiped = {}
    /\ puts = 0 /\ crashes = 0 /\ serving = TRUE
    /\ drifted = FALSE /\ leaked = FALSE /\ unsure = {}

-----------------------------------------------------------------------------
(* Put *)

Fits(n, s) == Quota[s] = 0 \/ n <= Quota[s]
Delta == op.size - op.prev.size
CurrentScope == ScopesOf[op.key][op.scope]

(* Under m.mu: the size check, the previous ready entry, the delta. *)
PutBegin(k, n) ==
    /\ op = Free /\ serving /\ puts < MaxPuts
    /\ \A s \in Range(ScopesOf[k]) : Fits(n, s)
    /\ LET prev == IF rows[k].state = "ready" THEN rows[k] ELSE NoRow
       IN  op' = [Free EXCEPT !.kind = "put", !.key = k, !.size = n, !.prev = prev, !.scope = 1,
                              !.at = IF n > prev.size THEN "evict" ELSE "pending"]
    /\ puts' = puts + 1
    /\ UNCHANGED <<rows, blobs, usage, reader, purge, wiped, crashes, serving, drifted, leaked, unsure>>

(* Mutant: the scope's check ignores what the write adds. *)
PutScopeFull ==
    /\ op.kind = "put" /\ op.at = "evict"
    /\ usage[CurrentScope] <= Quota[CurrentScope] \/ Quota[CurrentScope] = 0
    /\ op' = IF op.scope < Len(ScopesOf[op.key])
             THEN [op EXCEPT !.scope = @ + 1] ELSE [op EXCEPT !.at = "pending"]
    /\ UNCHANGED <<rows, blobs, usage, reader, purge, wiped, puts, crashes, serving, drifted, leaked, unsure>>

(* evictUntil: the write fits into the scope, the next one is checked. *)
PutScope ==
    /\ op.kind = "put" /\ op.at = "evict"
    /\ Fits(usage[CurrentScope] + Delta, CurrentScope)
    /\ op' = IF op.scope < Len(ScopesOf[op.key])
             THEN [op EXCEPT !.scope = @ + 1] ELSE [op EXCEPT !.at = "pending"]
    /\ UNCHANGED <<rows, blobs, usage, reader, purge, wiped, puts, crashes, serving, drifted, leaked, unsure>>

(* evictUntil: the payload of a candidate is deleted; without a candidate,  *)
(* or when the deletion fails, Put gives up.                                *)
PutEvict ==
    /\ op.kind = "put" /\ op.at = "evict"
    /\ ~Fits(usage[CurrentScope] + Delta, CurrentScope)
    /\ \/ /\ \E v \in ReadyIn(CurrentScope) \ {op.key} :
                 /\ DeleteBlob(v)
                 /\ op' = [op EXCEPT !.at = "evictRow", !.todo = {[key |-> v, size |-> rows[v].size]}]
       \/ Release /\ UNCHANGED blobs
    /\ UNCHANGED <<rows, usage, reader, purge, wiped, puts, crashes, serving, drifted, leaked, unsure>>

PutEvictRow ==
    /\ op.kind = "put" /\ op.at = "evictRow"
    /\ \/ /\ \E e \in op.todo : Remove(e.key, e.size)
          /\ op' = [op EXCEPT !.at = "evict", !.todo = {}]
       \/ Release /\ UNCHANGED <<rows, usage>>
    /\ UNCHANGED <<blobs, reader, purge, wiped, puts, crashes, serving, drifted, leaked, unsure>>

(* markPending: the previous entry's size is given back with it. *)
PutPending ==
    /\ op.kind = "put" /\ op.at = "pending"
    /\ \/ /\ rows' = [rows EXCEPT ![op.key] = [state |-> "pending", size |-> op.size, ver |-> puts]]
          /\ usage' = IF op.prev = NoRow THEN usage ELSE AdjustUsage(usage, op.key, -op.prev.size)
          /\ op' = [op EXCEPT !.at = "blob"]
       \/ Release /\ UNCHANGED <<rows, usage>>
    /\ UNCHANGED <<blobs, reader, purge, wiped, puts, crashes, serving, drifted, leaked, unsure>>

PutBlob ==
    /\ op.kind = "put" /\ op.at = "blob"
    /\ LET written == [blobs EXCEPT ![op.key] = [size |-> op.size, ver |-> puts]]
       IN  \/ blobs' = written /\ op' = [op EXCEPT !.at = "ready"] /\ UNCHANGED unsure
           \/ op' = [op EXCEPT !.at = "restore"] /\ UNCHANGED <<blobs, unsure>>
           \/ /\ Ambiguous
              /\ blobs' = written /\ op' = [op EXCEPT !.at = "restore"]
              /\ unsure' = unsure \cup {op.key}
    /\ UNCHANGED <<rows, usage, reader, purge, wiped, puts, crashes, serving, drifted, leaked>>

(* restore after a failed payload write; its own failure is ignored. *)
PutRestore ==
    /\ op.kind = "put" /\ op.at = "restore"
    /\ \/ /\ rows' = [rows EXCEPT ![op.key] = op.prev]
          /\ usage' = IF op.prev = NoRow THEN usage ELSE AdjustUsage(usage, op.key, op.prev.size)
          /\ UNCHANGED leaked
       \/ leaked' = TRUE /\ UNCHANGED <<rows, usage>>
    /\ Release
    /\ UNCHANGED <<blobs, reader, purge, wiped, puts, crashes, serving, drifted, unsure>>

(* Mutant: a failed markReady restores the previous entry. *)
PutReadyRestored ==
    /\ op.kind = "put" /\ op.at = "ready"
    /\ \/ /\ rows' = [rows EXCEPT ![op.key].state = "ready"]
          /\ usage' = AdjustUsage(usage, op.key, op.size)
          /\ Release
       \/ op' = [op EXCEPT !.at = "restore"] /\ UNCHANGED <<rows, usage>>
    /\ UNCHANGED <<blobs, reader, purge, wiped, puts, crashes, serving, drifted, leaked, unsure>>

(* markReady *)
PutReady ==
    /\ op.kind = "put" /\ op.at = "ready"
    /\ \/ /\ rows' = [rows EXCEPT ![op.key].state = "ready"]
          /\ usage' = AdjustUsage(usage, op.key, op.size)
          /\ Release
       \/ op' = [op EXCEPT !.at = "undoBlob"] /\ UNCHANGED <<rows, usage>>
    /\ UNCHANGED <<blobs, reader, purge, wiped, puts, crashes, serving, drifted, leaked, unsure>>

(* markReady failed: payload and row are removed, failures ignored. *)
PutUndoBlob ==
    /\ op.kind = "put" /\ op.at = "undoBlob"
    /\ \/ DeleteBlob(op.key) /\ UNCHANGED leaked
       \/ leaked' = TRUE /\ UNCHANGED blobs
    /\ op' = [op EXCEPT !.at = "undoRow"]
    /\ UNCHANGED <<rows, usage, reader, purge, wiped, puts, crashes, serving, drifted, unsure>>

PutUndoRow ==
    /\ op.kind = "put" /\ op.at = "undoRow"
    /\ Remove(op.key, op.size) \/ UNCHANGED <<rows, usage>>
    /\ Release
    /\ UNCHANGED <<blobs, reader, purge, wiped, puts, crashes, serving, drifted, leaked, unsure>>

-----------------------------------------------------------------------------
(* Delete with a selector (a scope's keys), DeleteIdentity (one key), and   *)
(* PurgeLifecycle, which also deletes the usage rows of its scope.          *)

Selectors == {{k} : k \in Keys} \cup {{k \in Keys : InScope(k, s)} : s \in Scopes}

DeleteBegin(sel) ==
    /\ op = Free /\ serving
    /\ op' = [Free EXCEPT !.kind = "delete", !.at = "select", !.sel = sel]
    /\ UNCHANGED <<rows, blobs, usage, reader, purge, wiped, puts, crashes, serving, drifted, leaked, unsure>>

PurgeBegin(s) ==
    /\ op = Free /\ serving /\ purge = NoScope
    /\ op' = [Free EXCEPT !.kind = "purge", !.at = "select", !.sel = {k \in Keys : InScope(k, s)}]
    /\ purge' = s
    /\ UNCHANGED <<rows, blobs, usage, reader, wiped, puts, crashes, serving, drifted, leaked, unsure>>

Deleting == op.kind \in {"delete", "purge"}

(* The operation fails: m.mu is released, PurgeLifecycle returns the error. *)
DeleteFails ==
    /\ Release
    /\ purge' = IF op.kind = "purge" THEN NoScope ELSE purge

(* selectEntries: the ready entries that match; none ends the operation. *)
DeleteSelect ==
    /\ Deleting /\ op.at = "select"
    /\ LET found == {[key |-> k, size |-> rows[k].size] : k \in {k \in op.sel : rows[k].state = "ready"}}
       IN  op' = IF found = {} THEN Free ELSE [op EXCEPT !.at = "blobs", !.todo = found]
    /\ UNCHANGED <<rows, blobs, usage, reader, purge, wiped, puts, crashes, serving, drifted, leaked, unsure>>

(* DeleteBatch: all payloads go, or an error leaves some of them. *)
DeleteBlobs ==
    /\ Deleting /\ op.at = "blobs"
    /\ \E gone \in SUBSET {e.key : e \in op.todo} :
          /\ blobs' = [k \in Keys |-> IF k \in gone THEN NoBlob ELSE blobs[k]]
          /\ \/ /\ gone = {e.key : e \in op.todo}
                /\ op' = [op EXCEPT !.at = "rows"]
                /\ UNCHANGED purge
             \/ DeleteFails
    /\ UNCHANGED <<rows, usage, reader, wiped, puts, crashes, serving, drifted, leaked, unsure>>

DeleteRow ==
    /\ Deleting /\ op.at = "rows"
    /\ \/ /\ \E e \in op.todo :
                 /\ Remove(e.key, e.size)
                 /\ op' = [op EXCEPT !.todo = @ \ {e}, !.at = IF op.todo = {e} THEN "select" ELSE "rows"]
          /\ UNCHANGED purge
       \/ DeleteFails /\ UNCHANGED <<rows, usage>>
    /\ UNCHANGED <<blobs, reader, wiped, puts, crashes, serving, drifted, leaked, unsure>>

(* purgeLifecycleUsage, after m.mu has been released. *)
PurgeUsage ==
    /\ purge # NoScope /\ op.kind # "purge"
    /\ usage' = [s \in Scopes |-> IF s \in WipedBy[purge] THEN 0 ELSE usage[s]]
    /\ wiped' = wiped \cup WipedBy[purge]
    /\ purge' = NoScope
    /\ UNCHANGED <<rows, blobs, op, reader, puts, crashes, serving, drifted, leaked, unsure>>

-----------------------------------------------------------------------------
(* Get and Exists: the row, then the payload, neither under m.mu. *)

ReadRow(r, k) ==
    /\ reader[r].at = "idle" /\ serving
    /\ rows[k].state = "ready"
    /\ reader' = [reader EXCEPT ![r] = [at |-> "blob", key |-> k, row |-> rows[k]]]
    /\ UNCHANGED <<rows, blobs, usage, op, purge, wiped, puts, crashes, serving, drifted, leaked, unsure>>

ReadBlob(r) ==
    /\ reader[r].at = "blob"
    /\ reader' = IF blobs[reader[r].key] = NoBlob
                 THEN [reader EXCEPT ![r].at = "repair"]
                 ELSE [reader EXCEPT ![r] = [at |-> "idle", key |-> "none", row |-> NoRow]]
    /\ UNCHANGED <<rows, blobs, usage, op, purge, wiped, puts, crashes, serving, drifted, leaked, unsure>>

(* The payload was missing: under m.mu the entry that was read is removed.  *)
ReadRepair(r) ==
    /\ reader[r].at = "repair" /\ op = Free
    /\ Remove(reader[r].key, reader[r].row.size) \/ UNCHANGED <<rows, usage>>
    /\ drifted' = (drifted \/ (rows' # rows /\ rows[reader[r].key] # reader[r].row))
    /\ reader' = [reader EXCEPT ![r] = [at |-> "idle", key |-> "none", row |-> NoRow]]
    /\ UNCHANGED <<blobs, op, purge, wiped, puts, crashes, serving, leaked, unsure>>

-----------------------------------------------------------------------------
(* reconcile, at startup and from the maintenance ticker. *)

(* Mutant: only startup reconciles. *)
ReconcileAtStartup ==
    /\ op = Free /\ ~serving
    /\ op' = [Free EXCEPT !.kind = "reconcile", !.at = "blob"]
    /\ UNCHANGED <<rows, blobs, usage, reader, purge, wiped, puts, crashes, serving, drifted, leaked, unsure>>

ReconcileBegin ==
    /\ op = Free /\ serving
    /\ \E k \in Keys : rows[k].state = "pending"
    /\ op' = [Free EXCEPT !.kind = "reconcile", !.at = "blob"]
    /\ UNCHANGED <<rows, blobs, usage, reader, purge, wiped, puts, crashes, serving, drifted, leaked, unsure>>

(* The payload of a pending entry is deleted, a failure ignored. *)
ReconcileBlob(k) ==
    /\ op.kind = "reconcile" /\ op.at = "blob"
    /\ rows[k].state = "pending"
    /\ \/ DeleteBlob(k) /\ UNCHANGED leaked
       \/ leaked' = TRUE /\ UNCHANGED blobs
    /\ op' = [op EXCEPT !.at = "row", !.key = k]
    /\ UNCHANGED <<rows, usage, reader, purge, wiped, puts, crashes, serving, drifted, unsure>>

(* Its row is removed; an error ends the run, and at startup the process,   *)
(* whose next start begins again.                                           *)
ReconcileRow ==
    /\ op.kind = "reconcile" /\ op.at = "row"
    /\ \/ /\ Remove(op.key, rows[op.key].size)
          /\ op' = [op EXCEPT !.at = "blob"]
       \/ /\ op' = IF serving THEN Free ELSE [op EXCEPT !.at = "blob"]
          /\ UNCHANGED <<rows, usage>>
    /\ UNCHANGED <<blobs, reader, purge, wiped, puts, crashes, serving, drifted, leaked, unsure>>

ReconcileEnd ==
    /\ op.kind = "reconcile" /\ op.at = "blob"
    /\ \A k \in Keys : rows[k].state # "pending"
    /\ Release
    /\ serving' = TRUE
    /\ UNCHANGED <<rows, blobs, usage, reader, purge, wiped, puts, crashes, drifted, leaked, unsure>>

(* The process stops between any two steps; NewManager of the next one      *)
(* reconciles before it serves.                                             *)
Crash ==
    /\ crashes < MaxCrashes
    /\ crashes' = crashes + 1
    /\ serving' = FALSE
    /\ op' = [Free EXCEPT !.kind = "reconcile", !.at = "blob"]
    /\ purge' = NoScope
    /\ reader' = [r \in Readers |-> [at |-> "idle", key |-> "none", row |-> NoRow]]
    /\ UNCHANGED <<rows, blobs, usage, wiped, puts, drifted, leaked, unsure>>

Put ==
    \/ \E k \in Keys, n \in Sizes : PutBegin(k, n)
    \/ PutScope \/ PutEvict \/ PutEvictRow \/ PutPending \/ PutBlob \/ PutRestore
    \/ PutReady \/ PutUndoBlob \/ PutUndoRow

Delete ==
    \/ \E sel \in Selectors : DeleteBegin(sel)
    \/ \E s \in DOMAIN WipedBy : PurgeBegin(s)
    \/ DeleteSelect \/ DeleteBlobs \/ DeleteRow \/ PurgeUsage

Read == \E r \in Readers : (\E k \in Keys : ReadRow(r, k)) \/ ReadBlob(r) \/ ReadRepair(r)

Reconcile == ReconcileBegin \/ (\E k \in Keys : ReconcileBlob(k)) \/ ReconcileRow \/ ReconcileEnd

Next == Put \/ Delete \/ Read \/ Reconcile \/ Crash

Spec == Init /\ [][Next]_vars

(* The steps of an operation that holds m.mu. *)
Holding == op # Free /\ (Put \/ Delete \/ Reconcile)

(* An operation that holds m.mu goes on, and the maintenance goroutine gets *)
(* the mutex in the end: a Go mutex does not starve a waiter.  The index    *)
(* does not refuse a removal for ever.                                      *)
FairSpec ==
    /\ Spec /\ WF_vars(Holding) /\ SF_vars(ReconcileBegin)
    /\ SF_vars(ReconcileRow /\ rows' # rows)

-----------------------------------------------------------------------------
(* Properties. *)

Row    == [state : {"none", "pending", "ready"}, size : Nat, ver : Nat]
Blob   == [size : Nat, ver : Nat]
Victim == [key : Keys, size : Nat]
Places == {"idle", "evict", "evictRow", "pending", "blob", "restore", "ready", "undoBlob", "undoRow",
           "select", "blobs", "rows", "row"}
Operation ==
    [kind : {"none", "put", "delete", "purge", "reconcile"}, at : Places,
     key : Keys \cup {"none"}, size : Nat, prev : Row, scope : Nat,
     todo : SUBSET Victim, sel : SUBSET Keys]
Reader == [at : {"idle", "blob", "repair"}, key : Keys \cup {"none"}, row : Row]

(* The bytes of the ready tiles of a scope, one element for each, and their *)
(* number: the sum of the sizes.                                            *)
StoredIn(s) == UNION {{k} \X (1..rows[k].size) : k \in ReadyIn(s)}
BytesIn(s)  == Cardinality(StoredIn(s))

(* Rows, payloads, counters and the operations in progress have their types *)
(* and usage never falls below zero (adjustUsage floors it), whatever       *)
(* repairs and purges do to the counters.                                   *)
TypeOK ==
    /\ rows \in [Keys -> Row]
    /\ blobs \in [Keys -> Blob]
    /\ usage \in [Scopes -> Nat]
    /\ op \in Operation
    /\ reader \in [Readers -> Reader]
    /\ purge \in Scopes \cup {NoScope}
    /\ wiped \subseteq Scopes
    /\ puts \in 0..MaxPuts /\ crashes \in 0..MaxCrashes
    /\ serving \in BOOLEAN /\ drifted \in BOOLEAN /\ leaked \in BOOLEAN /\ unsure \subseteq Keys

(* The usage counters equal the bytes of the ready rows in every state, and *)
(* no payload is without a row that leads to it, so that nothing is stored  *)
(* that eviction does not count: through overwrites, evictions, failed      *)
(* writes, crashes and reconciling. Only a repair that hits a newer row     *)
(* than it read makes them drift.                                           *)
UsageAccurate ==
    ~drifted =>
        /\ \A s \in Scopes \ wiped : usage[s] = BytesIn(s)
        /\ ~leaked => \A k \in Keys \ unsure : blobs[k] # NoBlob => rows[k].state # "none"

(* The ready tiles of a scope fit into its quota, also while another Put is *)
(* under way and after any failure, as long as the counters have not        *)
(* drifted.                                                                 *)
QuotaHeld ==
    ~drifted => \A s \in Scopes \ wiped : Fits(BytesIn(s), s)

(* What Get serves with the row it has read: never the bytes of an earlier  *)
(* write than the row's, whatever was written, evicted, restored, undone or *)
(* interrupted meanwhile.  Get holds no lock between row and payload, so a  *)
(* later write may have replaced the bytes; but if the row is still the one *)
(* it read, the bytes are that row's, unless a write that reported failure  *)
(* took effect.                                                             *)
ServedPayload ==
    \A r \in Readers : reader[r].at = "blob" =>
        LET entry == reader[r].row
            blob  == blobs[reader[r].key]
        IN  blob # NoBlob =>
               /\ blob.ver >= entry.ver
               /\ rows[reader[r].key] = entry /\ reader[r].key \notin unsure =>
                      blob = [size |-> entry.size, ver |-> entry.ver]

(* A pending row does not stay: the write that made it ends, or startup or  *)
(* the maintenance ticker removes it.                                       *)
PendingResolved ==
    \A k \in Keys : rows[k].state = "pending" ~> rows[k].state # "pending"

(* What docs/tile-cache.md says of MaxBytes: the bytes of the ready tiles   *)
(* stay within every quota, unconditionally.  A repair that removes a newer *)
(* row gives back the size of the row it had read, and later writes are     *)
(* admitted against the understated counter.                                *)
HardQuota ==
    \A s \in Scopes \ wiped : Fits(BytesIn(s), s)
=============================================================================
