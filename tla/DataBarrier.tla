---------------------------- MODULE DataBarrier ----------------------------
(***************************************************************************)
(* The data-write barrier of one workspace and the caches behind it.       *)
(*                                                                         *)
(* A WFS transaction changes rows of an external source, so the catalog    *)
(* and the source commit separately.  Registry.BeginDataWrite              *)
(* (internal/workspace/data_revision.go) brackets the source transaction   *)
(* with a durable dirty mark and a revision number; Engine.Fetch           *)
(* (internal/tiles/engine.go) puts the revision into the identity of a     *)
(* tile and bypasses the caches while the mark is set; the response caches *)
(* (internal/cache) have no revision and rely on epochs: a fill that began *)
(* before an invalidation never becomes visible.                           *)
(*                                                                         *)
(* One workspace, one tile, one feature query.  The contents of the source *)
(* are abstracted to the number of transactions it has committed; what a   *)
(* reader gets is the number it rendered from.                             *)
(***************************************************************************)
EXTENDS Integers, FiniteSets

CONSTANTS
  Writers,       \* WFS Transaction requests
  Readers,       \* requests that read: callers of Engine.Fetch or LoadBytes
  Kinds,         \* "tile": tile requests and tile jobs call Engine.Fetch;
                 \* "query": GetFeature, GetMap and counts call Manager.LoadBytes
  Modes,         \* cache modes tile requests ask for
  None,          \* no value
  MaxWrites,     \* bound: transactions that reach BeginDataWrite
  MaxShared,     \* bound: transactions begun while readers are side by side
  MaxFailures,   \* bound: failing statements on the revision table
  MaxCrashes     \* bound: crashes of the server

ASSUME BarrierBounds ==
  /\ Kinds \subseteq {"tile", "query"}
  /\ Modes \subseteq {"cached", "forced", "uncached"}
  /\ MaxWrites \in Nat /\ MaxShared \in Nat /\ MaxFailures \in Nat /\ MaxCrashes \in Nat

VARIABLES
  source,    \* number of transactions the source has committed
  durable,   \* the workspace_data_revisions row; revision 1 when absent
  revision,  \* dataState.revision
  pending,   \* dataState.pending
  gate,      \* dataState.gate: its holder or None
  writer,    \* writer -> its place in handleTransaction, and a revision
  epoch,     \* current cache epoch of the workspace; older ones are invalid
  memory,    \* memory cache: key -> entry or None
  blobs,     \* persistent cache: revision in the identity -> data or None
  reader,    \* reader -> its place in Fetch or LoadBytes and its locals
  known,     \* newest transaction whose request has been answered (history)
  writes,    \* transactions begun so far
  failures,  \* failing statements so far
  crashes    \* crashes so far

vars == <<source, durable, revision, pending, gate, writer, epoch, memory,
          blobs, reader, known, writes, failures, crashes>>

barrier == <<source, durable, revision, pending, gate, writer>>
caches  == <<epoch, memory, blobs>>
bounds  == <<writes, failures, crashes>>

Data == 0..MaxWrites

\* A transaction advances the row at most twice, a recovery once.
MaxRevision == 1 + 2 * MaxWrites + MaxCrashes

\* A response cached under a key that has no revision: one query.
QueryKey == 0
Keys     == {QueryKey} \cup (1..MaxRevision)

Entry == [data : Data, epoch : Nat]

\* A memory cache hit needs an entry whose epoch was not invalidated.
currentEntry(e) == e # None /\ e.epoch = epoch

AtRest == [at |-> "idle", key |-> QueryKey, mode |-> "uncached",
           token |-> 0, data |-> None, floor |-> 0, leader |-> None,
           outdated |-> FALSE]

\* Within the bound MaxShared n readers may be active after so many transactions.
Room(n, begun) == n <= 1 \/ begun <= MaxShared

Active == Cardinality({r \in Readers : reader[r].at # "idle"})

Init ==
  /\ source = 0 /\ known = 0
  /\ durable = [revision |-> 1, pending |-> FALSE]
  /\ revision = 1 /\ pending = FALSE /\ gate = None
  /\ writer = [w \in Writers |-> [at |-> "idle", rev |-> 0]]
  /\ epoch = 0
  /\ memory = [k \in Keys |-> None]
  /\ blobs = [k \in Keys |-> None]
  /\ reader = [r \in Readers |-> AtRest]
  /\ writes = 0 /\ failures = 0 /\ crashes = 0

(***************************************************************************)
(* The writer: BeginDataWrite, the source transaction, the response and    *)
(* the deferred finish.                                                    *)
(***************************************************************************)
Goto(w, place) == writer' = [writer EXCEPT ![w].at = place]

\* InvalidateWorkspace: the epoch of every cache of the workspace ends and
\* its entries are deleted.
Invalidate ==
  /\ epoch' = epoch + 1
  /\ memory' = [k \in Keys |-> None]
  /\ UNCHANGED blobs

BeginMark(w) ==
  /\ writer[w].at = "idle" /\ gate = None
  /\ writes < MaxWrites /\ writes' = writes + 1 /\ Room(Active, writes + 1)
  /\ gate' = w /\ pending' = TRUE
  /\ Goto(w, "marked")
  /\ UNCHANGED <<source, durable, revision, caches, reader, known, failures,
                 crashes>>

BeginBump(w) ==
  /\ writer[w].at = "marked"
  /\ revision' = revision + 1
  /\ Goto(w, "bumped")
  /\ UNCHANGED <<source, durable, pending, gate, caches, reader, known, bounds>>

\* SetDataWritePending: the row's revision grows, its mark becomes dirty.
SetDataWritePending(dirty) ==
  durable' = [revision |-> durable.revision + 1, pending |-> dirty]

\* Mutant: the mark is kept in memory only.
BeginPersistVolatile(w) ==
  /\ writer[w].at = "bumped"
  /\ writer' = [writer EXCEPT ![w] = [at |-> "persisted", rev |-> durable.revision + 1]]
  /\ UNCHANGED <<source, durable, revision, pending, gate, caches, reader, known, bounds>>

BeginPersist(w) ==
  /\ writer[w].at = "bumped"
  /\ SetDataWritePending(TRUE)
  /\ writer' = [writer EXCEPT ![w] = [at |-> "persisted", rev |-> durable'.revision]]
  /\ UNCHANGED <<source, revision, pending, gate, caches, reader, known, bounds>>

\* The statement fails, having taken effect or not: the request ends with an
\* error, the gate is free and the memory mark stays.
BeginFails(w) ==
  /\ writer[w].at = "bumped" /\ failures < MaxFailures
  /\ SetDataWritePending(TRUE) \/ UNCHANGED durable
  /\ gate' = None /\ Goto(w, "idle")
  /\ failures' = failures + 1
  /\ UNCHANGED <<source, revision, pending, caches, reader, known, writes,
                 crashes>>

BeginStore(w) ==
  /\ writer[w].at = "persisted"
  /\ revision' = writer[w].rev
  /\ writer' = [writer EXCEPT ![w] = [at |-> "stored", rev |-> 0]]
  /\ UNCHANGED <<source, durable, pending, gate, caches, reader, known, bounds>>

BeginInvalidate(w) ==
  /\ writer[w].at = "stored"
  /\ Invalidate
  /\ Goto(w, "open")
  /\ UNCHANGED <<source, durable, revision, pending, gate, reader, known, bounds>>

\* executeTransaction commits in the source.
Commit(w) ==
  /\ writer[w].at = "open"
  /\ source' = source + 1
  /\ \/ Goto(w, "committed")
     \/ Goto(w, "finish")        \* committed, but reported as an error
  /\ UNCHANGED <<durable, revision, pending, gate, caches, reader, known, bounds>>

Rollback(w) ==
  /\ writer[w].at = "open"
  /\ Goto(w, "finish")
  /\ UNCHANGED <<source, durable, revision, pending, gate, caches, reader,
                 known, bounds>>

\* The handler invalidates the workspace and writes the response; finish runs
\* only afterwards, as a deferred call.
Respond(w) ==
  /\ writer[w].at = "committed"
  /\ Invalidate
  /\ known' = source
  /\ Goto(w, "finish")
  /\ UNCHANGED <<source, durable, revision, pending, gate, reader, bounds>>

FinishPersist(w) ==
  /\ writer[w].at = "finish"
  /\ SetDataWritePending(FALSE)
  /\ writer' = [writer EXCEPT ![w] = [at |-> "cleared", rev |-> durable'.revision]]
  /\ UNCHANGED <<source, revision, pending, gate, caches, reader, known, bounds>>

FinishFails(w) ==
  /\ writer[w].at = "finish" /\ failures < MaxFailures
  /\ SetDataWritePending(FALSE) \/ UNCHANGED durable
  /\ Goto(w, "closing")
  /\ failures' = failures + 1
  /\ UNCHANGED <<source, revision, pending, gate, caches, reader, known, writes,
                 crashes>>

FinishStore(w) ==
  /\ writer[w].at = "cleared"
  /\ revision' = writer[w].rev
  /\ writer' = [writer EXCEPT ![w] = [at |-> "advanced", rev |-> 0]]
  /\ UNCHANGED <<source, durable, pending, gate, caches, reader, known, bounds>>

FinishClear(w) ==
  /\ writer[w].at = "advanced"
  /\ pending' = FALSE
  /\ Goto(w, "closing")
  /\ UNCHANGED <<source, durable, revision, gate, caches, reader, known, bounds>>

\* The deferred invalidation and the release of the gate.
FinishRelease(w) ==
  /\ writer[w].at = "closing"
  /\ Invalidate
  /\ gate' = None /\ Goto(w, "idle")
  /\ known' = source
  /\ UNCHANGED <<source, durable, revision, pending, reader, bounds>>

(***************************************************************************)
(* The reader.  A tile request reads the revision into its identity, then  *)
(* the mark; every reader captures the epoch, looks the key up, and joins  *)
(* or leads the flight of its key and epoch.  The leader looks again,      *)
(* reads the source and stores the result.                                 *)
(***************************************************************************)
Step(r, place) == reader' = [reader EXCEPT ![r].at = place]

Followers(r) == {q \in Readers : reader[q].at = "waiting" /\ reader[q].leader = r}

\* A tile request has a revision in its key.
kind(r) == IF reader[r].key = QueryKey THEN "query" ELSE "tile"

\* r is answered, and so is everyone waiting on its flight; outdated records
\* an answer older than a transaction answered before the request began.
Return(r, data) ==
  reader' = [q \in Readers |->
               IF q = r \/ q \in Followers(r)
                 THEN [AtRest EXCEPT !.outdated = data < reader[q].floor]
                 ELSE reader[q]]

\* setMemory and setBytes: an entry of an invalidated epoch is dropped.  The
\* cache may refuse any other; a refused entry where there was none is one
\* that no lookup finds.
Admit(r, data) ==
  \/ /\ reader[r].token = epoch
     /\ memory' = [memory EXCEPT ![reader[r].key] = [data |-> data, epoch |-> epoch]]
  \/ /\ reader[r].token = epoch => memory[reader[r].key] # None
     /\ UNCHANGED memory

\* identity: the revision is read from the shared state.  A seed job forces
\* a render; a request whose parameters may not be cached is uncached.
FetchIdentity(r) ==
  /\ "tile" \in Kinds /\ reader[r].at = "idle" /\ Room(Active + 1, writes)
  /\ \E mode \in Modes :
       reader' = [reader EXCEPT ![r] =
         [AtRest EXCEPT !.at = "identified", !.key = revision, !.mode = mode,
                        !.floor = known]]
  /\ UNCHANGED <<barrier, caches, known, bounds>>

\* The mark is read in a second call; both cache tiers are bypassed when set.
FetchPending(r) ==
  /\ reader[r].at = "identified"
  /\ reader' = [reader EXCEPT ![r] =
       [@ EXCEPT !.at = "begin", !.mode = IF pending THEN "uncached" ELSE @]]
  /\ UNCHANGED <<barrier, caches, known, bounds>>

LoadBegin(r) ==
  /\ "query" \in Kinds /\ reader[r].at = "idle" /\ Room(Active + 1, writes)
  /\ reader' = [reader EXCEPT ![r] =
       [AtRest EXCEPT !.at = "begin", !.mode = "cached", !.floor = known]]
  /\ UNCHANGED <<barrier, caches, known, bounds>>

BeginFill(r) ==
  /\ reader[r].at = "begin"
  /\ reader' = [reader EXCEPT ![r].token = epoch, ![r].at = "lookup"]
  /\ UNCHANGED <<barrier, caches, known, bounds>>

\* The lookups, before the flight and again by its leader.  An entry may be
\* evicted, expire or be unreadable at any moment, so a miss needs no step of
\* its own: the reader goes on.
Looking(r) ==
  /\ reader[r].at \in {"lookup", "leading"}
  /\ reader[r].mode = "cached"

MemoryHit(r) ==
  /\ Looking(r)
  /\ currentEntry(memory[reader[r].key])
  /\ Return(r, memory[reader[r].key].data)
  /\ UNCHANGED <<barrier, caches, known, bounds>>

\* A tile found on disk is copied to the memory cache.
DiskHit(r) ==
  /\ Looking(r) /\ kind(r) = "tile"
  /\ blobs[reader[r].key] # None
  /\ Admit(r, blobs[reader[r].key])
  /\ Return(r, blobs[reader[r].key])
  /\ UNCHANGED <<barrier, epoch, blobs, known, bounds>>

\* Mutant: the coalescing key has no epoch.
FlightsAnyEpoch(r) == {q \in Readers : /\ reader[q].at \in {"leading", "store", "put"}
                                       /\ reader[q].key = reader[r].key
                                       /\ reader[q].leader = q}

\* The flights under way with r's coalescing key.
Flights(r) == {q \in Readers : /\ reader[q].at \in {"leading", "store", "put"}
                               /\ reader[q].key = reader[r].key
                               /\ reader[q].token = reader[r].token
                               /\ reader[q].leader = q}

Join(r) ==
  /\ reader[r].at = "lookup"
  /\ \E q \in Flights(r) :
       reader' = [reader EXCEPT ![r].at = "waiting", ![r].leader = q]
  /\ UNCHANGED <<barrier, caches, known, bounds>>

\* The first of its key leads; a query reader whose handler does not coalesce
\* loads by itself.
Lead(r) ==
  /\ reader[r].at = "lookup"
  /\ \/ /\ Flights(r) = {}
        /\ reader' = [reader EXCEPT ![r].leader = r, ![r].at = "leading"]
     \/ /\ kind(r) = "query"
        /\ Step(r, "leading")
  /\ UNCHANGED <<barrier, caches, known, bounds>>

\* render, or the loader: the data are read from the source.
Render(r) ==
  /\ reader[r].at = "leading"
  /\ reader' = [reader EXCEPT ![r].data = source, ![r].at = "store"]
  /\ UNCHANGED <<barrier, caches, known, bounds>>

\* Queue full, source error: the flight ends without a result.
RenderFails(r) ==
  /\ reader[r].at = "leading"
  /\ reader' = [q \in Readers |-> IF q = r \/ q \in Followers(r) THEN AtRest ELSE reader[q]]
  /\ UNCHANGED <<barrier, caches, known, bounds>>

Store(r) ==
  /\ reader[r].at = "store"
  /\ IF reader[r].mode = "uncached" THEN UNCHANGED memory ELSE Admit(r, reader[r].data)
  /\ IF kind(r) = "tile" /\ reader[r].mode # "uncached"
       THEN Step(r, "put") ELSE Return(r, reader[r].data)
  /\ UNCHANGED <<barrier, epoch, blobs, known, bounds>>

\* persistent.Put: stored, or skipped for the quota or an error.
Put(r) ==
  /\ reader[r].at = "put"
  /\ \/ blobs' = [blobs EXCEPT ![reader[r].key] = reader[r].data]
     \/ blobs[reader[r].key] # None /\ UNCHANGED blobs
  /\ Return(r, reader[r].data)
  /\ UNCHANGED <<barrier, epoch, memory, known, bounds>>

(***************************************************************************)
(* A crash loses the memory and every request; the next start recovers the *)
(* interrupted barriers before it loads the workspaces.                    *)
(***************************************************************************)
RecoverDataWrites ==
  durable' = IF durable.pending
               THEN [revision |-> durable.revision + 1, pending |-> FALSE] ELSE durable

Restart ==
  /\ crashes < MaxCrashes /\ crashes' = crashes + 1
  /\ RecoverDataWrites
  /\ revision' = durable'.revision /\ pending' = durable'.pending
  /\ gate' = None
  /\ writer' = [w \in Writers |-> [at |-> "idle", rev |-> 0]]
  /\ epoch' = 0 /\ memory' = [k \in Keys |-> None]
  /\ reader' = [r \in Readers |-> AtRest]
  /\ known' = source
  /\ UNCHANGED <<source, blobs, writes, failures>>

Write(w) ==
  \/ BeginMark(w) \/ BeginBump(w) \/ BeginPersist(w) \/ BeginFails(w)
  \/ BeginStore(w) \/ BeginInvalidate(w) \/ Commit(w) \/ Rollback(w) \/ Respond(w)
  \/ FinishPersist(w) \/ FinishFails(w) \/ FinishStore(w) \/ FinishClear(w)
  \/ FinishRelease(w)

Read(r) ==
  \/ FetchIdentity(r) \/ FetchPending(r) \/ LoadBegin(r) \/ BeginFill(r)
  \/ MemoryHit(r) \/ DiskHit(r) \/ Join(r) \/ Lead(r)
  \/ Render(r) \/ RenderFails(r) \/ Store(r) \/ Put(r)

Next ==
  \/ \E w \in Writers : Write(w)
  \/ \E r \in Readers : Read(r)
  \/ Restart

Spec == Init /\ [][Next]_vars

(***************************************************************************)
(* Properties.                                                             *)
(***************************************************************************)
\* The barrier, the caches and the requests stay within their types; no
\* transaction advances the revision more than twice and no recovery more
\* than once.
TypeOK ==
  /\ source \in Data /\ known \in Data
  /\ durable \in [revision : 1..MaxRevision, pending : BOOLEAN]
  /\ revision \in 1..MaxRevision /\ pending \in BOOLEAN
  /\ gate \in Writers \cup {None}
  /\ writer \in [Writers -> [at : {"idle", "marked", "bumped", "persisted", "stored",
                                    "open", "committed", "finish", "cleared",
                                    "advanced", "closing"},
                             rev : 0..MaxRevision]]
  /\ epoch \in Nat
  /\ memory \in [Keys -> Entry \cup {None}]
  /\ blobs \in [Keys -> Data \cup {None}]
  /\ reader \in [Readers ->
       [at : {"idle", "identified", "begin", "lookup", "waiting", "leading",
              "store", "put"},
        key : Keys, mode : {"cached", "forced", "uncached"}, token : Nat,
        data : Data \cup {None}, floor : Data, leader : Readers \cup {None},
        outdated : BOOLEAN]]
  /\ writes \in 0..MaxWrites /\ failures \in 0..MaxFailures /\ crashes \in 0..MaxCrashes

\* A tile or a query answered to a request that began after a transaction
\* was answered shows that transaction, whatever was cached, in flight or on
\* disk.
FreshAnswer ==
  \A r \in Readers : ~reader[r].outdated

\* Were the server to crash now, the revision it recovers to names no tile
\* rendered before a committed transaction: the mark is on disk before the
\* source changes and the revision moves before the mark goes.
CrashSafe ==
  LET recovered == IF durable.pending THEN durable.revision + 1 ELSE durable.revision
  IN  blobs[recovered] \in {None, source}

=============================================================================
