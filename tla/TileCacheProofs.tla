--------------------------- MODULE TileCacheProofs --------------------------
(***************************************************************************)
(* The usage counters are the bytes of the ready tiles, the quotas hold and *)
(* no reader is served older bytes than its row, for any keys, scopes,      *)
(* quotas, sizes and readers, and any number of writes and restarts.        *)
(***************************************************************************)
EXTENDS TileCache, FiniteSetTheorems, TLAPS

(* Put from its pending row on. *)
Writing == op.kind = "put" /\ op.at \in {"blob", "restore", "ready", "undoBlob", "undoRow"}

PlacesOf(kind) ==
    CASE kind = "put"                  -> {"evict", "evictRow", "pending", "blob", "restore", "ready",
                                           "undoBlob", "undoRow"}
      [] kind \in {"delete", "purge"}  -> {"select", "blobs", "rows"}
      [] kind = "reconcile"            -> {"blob", "row"}
      [] OTHER                         -> {"idle"}

(* The operation that holds m.mu: the rows and payloads are its own to      *)
(* change, so that what it has read of them stays true.                     *)
HolderInv ==
    /\ op.at \in PlacesOf(op.kind)
    /\ op.kind = "put" => op.key \in Keys /\ serving /\ puts > 0
    /\ op.at = "row" => op.key \in Keys /\ rows[op.key].state = "pending"
    /\ purge \in DOMAIN WipedBy \cup {NoScope}

(* The entries it has selected are removed with the size they have, and     *)
(* after their payload.                                                     *)
VictimInv ==
    /\ op.at \in {"evictRow", "blobs", "rows"} =>
          \A e \in op.todo : rows[e.key].state = "ready" => rows[e.key].size = e.size
    /\ op.at \in {"evictRow", "rows"} => \A e \in op.todo : blobs[e.key] = NoBlob
    /\ op.at = "evictRow" => \A e \in op.todo : e.key # op.key

(* The entry that a Put replaces, and the payload under its key: the old    *)
(* one until the new one is written.                                        *)
PutInv ==
    op.kind = "put" =>
        /\ op.prev = NoRow \/ op.prev.state = "ready"
        /\ op.at \in {"evict", "evictRow", "pending"} =>
              op.prev = IF rows[op.key].state = "ready" THEN rows[op.key] ELSE NoRow
        /\ Writing => rows[op.key] = [state |-> "pending", size |-> op.size, ver |-> puts]
        /\ op.at \in {"blob", "restore"} /\ op.key \notin unsure /\ blobs[op.key] # NoBlob =>
              IF op.prev = NoRow THEN drifted \/ leaked
              ELSE blobs[op.key] = [size |-> op.prev.size, ver |-> op.prev.ver]
        /\ op.at = "ready" => blobs[op.key] = [size |-> op.size, ver |-> puts]

(* A row that is about to be removed has no payload any more, unless the    *)
(* clean-up failed; neither has a pending row that no Put is writing.       *)
LeftInv ==
    ~leaked =>
        /\ op.at \in {"undoRow", "row"} => blobs[op.key] = NoBlob
        /\ serving => \A k \in Keys : rows[k].state = "pending" /\ ~(Writing /\ op.key = k) => blobs[k] = NoBlob

(* A Put has a version of its own, which no ready row and no reader knows   *)
(* before it ends.                                                          *)
VersionInv ==
    /\ \A k \in Keys : rows[k].state = "ready" => rows[k].ver <= puts /\ (op.kind = "put" => rows[k].ver < puts)
    /\ \A r \in Readers : reader[r].row.ver <= puts /\ (op.kind = "put" => reader[r].row.ver < puts)
    /\ op.kind = "put" => op.prev.ver < puts

(* As long as the row is there that a reader found without its payload, or  *)
(* may be restored, the payload stays away.                                 *)
ReaderInv ==
    \A r \in Readers :
        /\ reader[r].at # "idle" => reader[r].key \in Keys /\ reader[r].row.state = "ready"
        /\ reader[r].at = "repair" /\ reader[r].key \notin unsure =>
              /\ rows[reader[r].key] = reader[r].row => blobs[reader[r].key] = NoBlob
              /\ op.kind = "put" /\ op.at \in {"blob", "restore"} /\ op.key = reader[r].key /\ op.prev = reader[r].row =>
                    blobs[op.key] = NoBlob

(* What has been checked of the quotas when a Put adds its bytes, and what  *)
(* restoring the previous entry needs.                                      *)
QuotaInv ==
    ~drifted =>
        \A s \in Scopes \ wiped :
            /\ Fits(usage[s], s)
            /\ op.kind = "put" /\ InScope(op.key, s) =>
                  /\ op.at = "pending" => Fits(usage[s] + Delta, s)
                  /\ op.at \in {"evict", "evictRow"} =>
                        \A i \in 1..(op.scope - 1) : ScopesOf[op.key][i] = s => Fits(usage[s] + Delta, s)
                  /\ op.at \in {"blob", "ready"} => Fits(usage[s] + op.size, s)
                  /\ op.at \in {"blob", "restore"} => Fits(usage[s] + op.prev.size, s)

(* A ready row describes the payload that is stored under its key, unless a *)
(* write of it reported failure and took effect.                            *)
EntryMatchesPayload ==
    \A k \in Keys \ unsure : rows[k].state = "ready" /\ blobs[k] # NoBlob =>
        blobs[k] = [size |-> rows[k].size, ver |-> rows[k].ver]

StoredFinite == \A s \in Scopes : IsFiniteSet(StoredIn(s))

(* The two halves of UsageAccurate. *)
CountersExact == ~drifted => \A s \in Scopes \ wiped : usage[s] = BytesIn(s)

PayloadsListed ==
    ~drifted /\ ~leaked => \A k \in Keys \ unsure : blobs[k] # NoBlob => rows[k].state # "none"

(***************************************************************************)
(* The inductive invariant.  The counters are exact because every size that *)
(* is given back is still the size of the row; the quotas hold because the  *)
(* counters are exact when a Put compares them; and that a repair takes     *)
(* only rows without a payload needs the versions, which tell the row a     *)
(* reader has found from every later one of the same tile.                  *)
(***************************************************************************)
CacheInv ==
    /\ TypeOK /\ HolderInv /\ VictimInv /\ PutInv /\ LeftInv /\ VersionInv /\ ReaderInv
    /\ StoredFinite /\ CountersExact /\ PayloadsListed /\ EntryMatchesPayload /\ QuotaInv
-----------------------------------------------------------------------------
(* Lemmas on the operators of the model. *)

(* What a row counts for in the usage of its scopes. *)
Counted(row) == IF row.state = "ready" THEN row.size ELSE 0

(* The constants of the model have their types. *)
LEMMA ConstantTypes ==
    /\ NoRow \in Row /\ NoRow.state = "none" /\ NoRow.size = 0 /\ NoRow.ver = 0
    /\ NoBlob \in Blob
    /\ Free \in Operation /\ Free.kind = "none" /\ Free.at = "idle" /\ Free.todo = {} /\ Free.scope = 0
    /\ Free.prev = NoRow
  <1>1. NoRow \in Row /\ NoRow.state = "none" /\ NoRow.size = 0 /\ NoRow.ver = 0
    BY DEF NoRow, Row
  <1>2. NoBlob \in Blob
    BY DEF NoBlob, Blob
  <1>3. Free \in Operation
    BY <1>1 DEF Free, Operation, Places
  <1>4. QED
    BY <1>1, <1>2, <1>3, Zenon DEF Free

(* The bytes of one tile. *)
LEMMA TileBytes ==
    ASSUME NEW k, NEW n \in Nat
    PROVE  IsFiniteSet({k} \X (1..n)) /\ Cardinality({k} \X (1..n)) = n
  <1>1. IsFiniteSet({k}) /\ Cardinality({k}) = 1
    BY FS_Singleton
  <1>2. IsFiniteSet(1..n) /\ Cardinality(1..n) = n
    BY FS_Interval
  <1>3. IsFiniteSet({k} \X (1..n)) /\ Cardinality({k} \X (1..n)) = Cardinality({k}) * Cardinality(1..n)
    BY <1>1, <1>2, FS_Product, Zenon
  <1>4. 1 * n = n
    OBVIOUS
  <1>5. QED
    BY <1>1, <1>2, <1>3, <1>4, Zenon

(* When one row changes, the bytes of a scope it is in change by what it    *)
(* counts for, and those of every other scope do not.                       *)
LEMMA BytesOfWrite ==
    ASSUME TypeOK, StoredFinite, NEW k \in Keys, NEW r \in Row, rows' = [rows EXCEPT ![k] = r],
           NEW s \in Scopes
    PROVE  /\ IsFiniteSet(StoredIn(s)')
           /\ BytesIn(s) \in Nat /\ BytesIn(s)' \in Nat
           /\ BytesIn(s)' = BytesIn(s) + (IF InScope(k, s) THEN Counted(r) - Counted(rows[k]) ELSE 0)
           /\ InScope(k, s) => Counted(rows[k]) <= BytesIn(s)
  <1> DEFINE old == IF InScope(k, s) THEN Counted(rows[k]) ELSE 0
             new == IF InScope(k, s) THEN Counted(r) ELSE 0
             Tile(n) == {k} \X (1..n)
             rest == StoredIn(s) \ Tile(old)
             Of(j) == IF rows[j].state = "ready" /\ InScope(j, s) THEN 1..rows[j].size ELSE {}
             After(j) == IF rows'[j].state = "ready" /\ InScope(j, s) THEN 1..rows'[j].size ELSE {}
  <1>1. old \in Nat /\ new \in Nat /\ rows[k].size \in Nat /\ r.size \in Nat
    BY DEF TypeOK, Row, Counted
  <1>2. IsFiniteSet(StoredIn(s)) /\ BytesIn(s) \in Nat
    BY FS_CardinalityType DEF StoredFinite, BytesIn
  <1>3. IsFiniteSet(Tile(old)) /\ Cardinality(Tile(old)) = old
        /\ IsFiniteSet(Tile(new)) /\ Cardinality(Tile(new)) = new
    BY <1>1, TileBytes, Zenon
  <1>4. (\A x : x \in StoredIn(s) <=> \E j \in Keys : x \in {j} \X Of(j))
        /\ Of(k) = 1..old /\ After(k) = 1..new
    <2>1. \A x : x \in StoredIn(s) <=> \E j \in Keys : x \in {j} \X Of(j)
      BY DEF StoredIn, ReadyIn
    <2>2. Of(k) = 1..old /\ After(k) = 1..new
      BY <1>1 DEF Counted, TypeOK
    <2>3. QED
      BY <2>1, <2>2, Zenon
  <1>5. (\A x : x \in StoredIn(s)' <=> \E j \in Keys : x \in {j} \X After(j))
        /\ \A j \in Keys \ {k} : After(j) = Of(j)
    <2>1. \A x : x \in StoredIn(s)' <=> \E j \in Keys : x \in {j} \X After(j)
      BY DEF StoredIn, ReadyIn, InScope
    <2>2. \A j \in Keys \ {k} : After(j) = Of(j)
      BY DEF TypeOK
    <2>3. QED
      BY <2>1, <2>2, Zenon
  <1>6. StoredIn(s) \cap Tile(old) = Tile(old)
    <2> HIDE DEF Of, After, old, new
    <2> QED
      BY <1>4, Zenon
  <1>7. (\A x : x \in rest <=> \E j \in Keys \ {k} : x \in {j} \X Of(j)) /\ rest \cap Tile(new) = {}
    <2> HIDE DEF Of, After, old, new
    <2>1. \A x : x \in rest <=> \E j \in Keys \ {k} : x \in {j} \X Of(j)
      BY <1>4, Zenon
    <2> HIDE DEF rest
    <2>2. QED
      BY <2>1
  <1>8. StoredIn(s)' = rest \cup Tile(new)
    <2> HIDE DEF Of, After, old, new, rest
    <2>1. \A x : x \in StoredIn(s)' <=> x \in rest \/ x \in Tile(new)
      BY <1>4, <1>5, <1>7, Zenon
    <2>2. QED
      BY <2>1, Zenon
  <1>9. IsFiniteSet(rest) /\ Cardinality(rest) = BytesIn(s) - old
    <2>1. IsFiniteSet(rest) /\ Cardinality(rest) = Cardinality(StoredIn(s)) - Cardinality(StoredIn(s) \cap Tile(old))
      BY <1>2, FS_Difference, Zenon
    <2>2. QED
      BY <1>3, <1>6, <2>1 DEF BytesIn
  <1>10. IsFiniteSet(StoredIn(s)') /\ BytesIn(s)' = BytesIn(s) - old + new
    <2>1. Cardinality(rest \cap Tile(new)) = 0
      BY <1>7, FS_EmptySet
    <2> HIDE DEF old, new, rest
    <2>2. IsFiniteSet(rest \cup Tile(new))
          /\ Cardinality(rest \cup Tile(new)) =
                Cardinality(rest) + Cardinality(Tile(new)) - Cardinality(rest \cap Tile(new))
      BY <1>3, <1>9, FS_Union, Zenon
    <2>3. QED
      BY <1>1, <1>2, <1>3, <1>8, <1>9, <2>1, <2>2 DEF BytesIn
  <1>11. BytesIn(s) - old \in Nat
    BY <1>9, FS_CardinalityType
  <1>12. QED
    BY <1>1, <1>2, <1>10, <1>11

(* adjustUsage, where the floor does not bite and where it does. *)
LEMMA AdjustedUsage ==
    ASSUME usage \in [Scopes -> Nat], NEW k, NEW bytes \in Int
    PROVE  /\ AdjustUsage(usage, k, bytes) \in [Scopes -> Nat]
           /\ \A s \in Scopes :
                 AdjustUsage(usage, k, bytes)[s] =
                    IF ~InScope(k, s) THEN usage[s]
                    ELSE IF usage[s] + bytes >= 0 THEN usage[s] + bytes ELSE 0
  <1>1. ASSUME NEW x \in Int
        PROVE  Max({0, x}) = IF x >= 0 THEN x ELSE 0
    <2> DEFINE m == IF x >= 0 THEN x ELSE 0
    <2>1. m \in {0, x} /\ \A y \in {0, x} : m >= y
      OBVIOUS
    <2>2. Max({0, x}) \in {0, x} /\ \A y \in {0, x} : Max({0, x}) >= y
      BY <2>1 DEF Max
    <2>3. QED
      BY <2>2
  <1>2. ASSUME NEW s \in Scopes
        PROVE  Max({0, usage[s] + bytes}) = IF usage[s] + bytes >= 0 THEN usage[s] + bytes ELSE 0
    BY <1>1
  <1>3. QED
    BY <1>2 DEF AdjustUsage

(* A step that writes one row, and one that changes the counters by as much *)
(* as the bytes of the row's scopes.                                        *)
Written(k, r) ==
    /\ rows' \in [Keys -> Row] /\ usage' \in [Scopes -> Nat] /\ StoredFinite'
    /\ rows'[k] = r /\ \A j \in Keys \ {k} : rows'[j] = rows[j]

Balanced(k, bytes) ==
    \A s \in Scopes : usage[s] = BytesIn(s) =>
        usage'[s] = BytesIn(s)' /\ usage'[s] = usage[s] + (IF InScope(k, s) THEN bytes ELSE 0)

(* The transaction that changes a row and adjusts the usage by as much as   *)
(* what the row counts for changes keeps the counters equal to the bytes.   *)
LEMMA RowWritten ==
    ASSUME TypeOK, StoredFinite, NEW k \in Keys, NEW r \in Row, rows' = [rows EXCEPT ![k] = r],
           NEW bytes \in Int, usage' = AdjustUsage(usage, k, bytes) \/ (bytes = 0 /\ usage' = usage)
    PROVE  Written(k, r) /\ (bytes = Counted(r) - Counted(rows[k]) => Balanced(k, bytes))
  <1>1. rows' \in [Keys -> Row] /\ rows'[k] = r /\ \A j \in Keys \ {k} : rows'[j] = rows[j]
    BY DEF TypeOK
  <1>2. usage \in [Scopes -> Nat]
    BY DEF TypeOK
  <1>3. usage' \in [Scopes -> Nat]
    BY <1>2, AdjustedUsage
  <1>4. StoredFinite'
    BY BytesOfWrite, Zenon DEF StoredFinite
  <1>5. ASSUME bytes = Counted(r) - Counted(rows[k]), NEW s \in Scopes, usage[s] = BytesIn(s)
        PROVE  usage'[s] = BytesIn(s)' /\ usage'[s] = usage[s] + (IF InScope(k, s) THEN bytes ELSE 0)
    <2>1. BytesIn(s)' \in Nat /\ BytesIn(s)' = BytesIn(s) + (IF InScope(k, s) THEN bytes ELSE 0)
      BY <1>5, BytesOfWrite, Zenon
    <2>2. usage'[s] = IF ~InScope(k, s) THEN usage[s]
                      ELSE IF usage[s] + bytes >= 0 THEN usage[s] + bytes ELSE 0
      BY <1>2, AdjustedUsage
    <2>3. usage[s] \in Nat
      BY <1>2
    <2>4. QED
      BY <1>5, <2>1, <2>2, <2>3
  <1>6. QED
    BY <1>1, <1>3, <1>4, <1>5, Zenon DEF Written, Balanced

(* metadataIndex.remove, given the size that the row has, keeps the         *)
(* counters equal to the bytes and raises none.                             *)
LEMMA RowRemoved ==
    ASSUME TypeOK, StoredFinite, NEW k \in Keys, NEW n \in Nat, Remove(k, n)
    PROVE  /\ Written(k, NoRow)
           /\ (rows[k].state = "ready" => rows[k].size = n) =>
                 \A s \in Scopes : usage[s] = BytesIn(s) => usage'[s] = BytesIn(s)' /\ usage'[s] <= usage[s]
  <1> DEFINE bytes == IF rows[k].state = "ready" THEN -n ELSE 0
  <1>1. bytes \in Int /\ bytes <= 0
    OBVIOUS
  <1>2. NoRow \in Row /\ Counted(NoRow) = 0
    BY ConstantTypes DEF Counted
  <1>3. rows' = [rows EXCEPT ![k] = NoRow]
        /\ (usage' = AdjustUsage(usage, k, bytes) \/ (bytes = 0 /\ usage' = usage))
    BY DEF Remove
  <1>4. (rows[k].state = "ready" => rows[k].size = n) => bytes = Counted(NoRow) - Counted(rows[k])
    BY <1>2 DEF Counted
  <1>5. \A s \in Scopes : usage[s] \in Nat
    BY DEF TypeOK
  <1> HIDE DEF bytes
  <1>6. Written(k, NoRow) /\ (bytes = Counted(NoRow) - Counted(rows[k]) => Balanced(k, bytes))
    BY <1>1, <1>2, <1>3, RowWritten, Zenon
  <1>7. ASSUME rows[k].state = "ready" => rows[k].size = n, NEW s \in Scopes, usage[s] = BytesIn(s)
        PROVE  usage'[s] = BytesIn(s)' /\ usage'[s] <= usage[s]
    <2>1. usage'[s] = BytesIn(s)' /\ usage'[s] = usage[s] + (IF InScope(k, s) THEN bytes ELSE 0)
      BY <1>4, <1>6, <1>7, Zenon DEF Balanced
    <2>2. usage[s] + (IF InScope(k, s) THEN bytes ELSE 0) <= usage[s]
      BY <1>1, <1>5
    <2>3. QED
      BY <2>1, <2>2
  <1>8. QED
    BY <1>6, <1>7, Zenon

(* What fits still fits when it is smaller. *)
LEMMA FitsLess ==
    ASSUME NEW s \in Scopes, NEW m \in Int, NEW n \in Int, m <= n, Fits(n, s)
    PROVE  Fits(m, s)
  BY TileCacheAssumption DEF Fits

-----------------------------------------------------------------------------
(* Lemmas on what a step leaves alone. *)

(* Rows and payloads are only removed. *)
Cleared ==
    /\ \A k \in Keys : rows'[k] = rows[k] \/ rows'[k] = NoRow
    /\ \A k \in Keys : blobs'[k] = blobs[k] \/ blobs'[k] = NoBlob
    /\ unsure' = unsure

(* A Put that is under way is the one that was, and has not passed its      *)
(* pending row in this step.                                                *)
PutGoesOn ==
    op'.kind = "put" =>
        /\ op.kind = "put" /\ op'.key = op.key /\ op'.size = op.size /\ op'.prev = op.prev
        /\ op'.at \in {"blob", "restore"} => op.at \in {"blob", "restore"}

(* The same, and no check of a quota is behind it that was not. *)
PutStays ==
    op'.kind = "put" =>
        /\ op.kind = "put" /\ op'.key = op.key /\ op'.size = op.size
        /\ op'.prev = op.prev /\ op'.scope = op.scope
        /\ \/ op'.at = op.at \/ op'.at \in {"undoBlob", "undoRow"}
           \/ op.at \in {"evict", "evictRow"} /\ op'.at \in {"evict", "evictRow"}

(* An operation that has selected nothing and written nothing. *)
Resting ==
    \/ op'.kind = "none" /\ op'.at = "idle"
    \/ op'.kind = "reconcile" /\ op'.at = "blob"
    \/ op'.kind \in {"delete", "purge"} /\ op'.at = "select"

LEMMA RestingHolder ==
    ASSUME Resting, purge' \in DOMAIN WipedBy \cup {NoScope}
    PROVE  HolderInv' /\ VictimInv' /\ PutInv' /\ PutStays /\ ~Writing' /\ op'.kind # "put"
           /\ op'.at \notin {"undoRow", "row"}
  <1>1. op'.kind # "put" /\ op'.at \in {"idle", "blob", "select"}
    BY DEF Resting
  <1>2. op'.at \in PlacesOf(op'.kind)
    BY DEF Resting, PlacesOf
  <1>3. HolderInv'
    BY <1>1, <1>2 DEF HolderInv
  <1>4. QED
    BY <1>1, <1>3 DEF VictimInv, PutInv, PutStays, Writing

LEMMA EntriesKept ==
    ASSUME CacheInv, Cleared
    PROVE  EntryMatchesPayload'
  <1>1. NoRow.state # "ready"
    BY ConstantTypes
  <1>2. QED
    BY <1>1 DEF CacheInv, Cleared, EntryMatchesPayload

LEMMA VersionsKept ==
    ASSUME CacheInv, Cleared, PutGoesOn, puts' = puts,
           \A r \in Readers : reader'[r].row \in {reader[r].row, NoRow}
    PROVE  VersionInv'
  <1>1. NoRow.state # "ready" /\ NoRow.ver = 0
    BY ConstantTypes
  <1>2. puts \in Nat /\ (op.kind = "put" => puts > 0)
    BY TileCacheAssumption DEF CacheInv, TypeOK, HolderInv
  <1>3. VersionInv /\ puts' = puts /\ (op'.kind = "put" => op.kind = "put" /\ op'.prev = op.prev)
        /\ \A k \in Keys : rows'[k] = rows[k] \/ rows'[k] = NoRow
    BY DEF CacheInv, Cleared, PutGoesOn
  <1>4. QED
    BY <1>1, <1>2, <1>3 DEF VersionInv

LEMMA ReadersKept ==
    ASSUME CacheInv, Cleared, PutGoesOn,
           \A r \in Readers : reader'[r] = reader[r] \/ reader'[r].at = "idle"
    PROVE  ReaderInv'
  <1>1. NoRow.state # "ready"
    BY ConstantTypes
  <1> SUFFICES ASSUME NEW r \in Readers, reader'[r].at # "idle"
               PROVE  /\ reader'[r].key \in Keys /\ reader'[r].row.state = "ready"
                      /\ reader'[r].at = "repair" /\ reader'[r].key \notin unsure' =>
                         /\ rows'[reader'[r].key] = reader'[r].row => blobs'[reader'[r].key] = NoBlob
                         /\ op'.kind = "put" /\ op'.at \in {"blob", "restore"} /\ op'.key = reader'[r].key
                            /\ op'.prev = reader'[r].row => blobs'[op'.key] = NoBlob
    BY DEF ReaderInv
  <1>2. reader'[r] = reader[r] /\ reader[r].key \in Keys /\ reader[r].row.state = "ready"
    BY DEF CacheInv, ReaderInv
  <1>3. QED
    BY <1>1, <1>2 DEF CacheInv, ReaderInv, Cleared, PutGoesOn

LEMMA LeftKept ==
    ASSUME CacheInv, leaked => leaked', serving' => serving,
           \A k \in Keys : rows'[k] = rows[k] \/ rows'[k].state # "pending",
           \A k \in Keys : blobs'[k] = blobs[k] \/ blobs'[k] = NoBlob,
           op'.at \in {"undoRow", "row"} => leaked' \/ blobs'[op'.key] = NoBlob,
           Writing => \/ Writing' /\ op'.key = op.key
                      \/ leaked' \/ ~serving' \/ rows'[op.key].state # "pending" \/ blobs'[op.key] = NoBlob
    PROVE  LeftInv'
  BY DEF CacheInv, LeftInv

LEMMA QuotaKept ==
    ASSUME CacheInv, drifted => drifted', wiped \subseteq wiped', usage' \in [Scopes -> Nat],
           ~drifted' => \A s \in Scopes \ wiped' : usage'[s] <= usage[s], PutStays
    PROVE  QuotaInv'
  <1> SUFFICES ASSUME ~drifted', NEW s \in Scopes \ wiped'
               PROVE  /\ Fits(usage'[s], s)
                      /\ op'.kind = "put" /\ InScope(op'.key, s) =>
                         /\ op'.at = "pending" => Fits(usage'[s] + Delta', s)
                         /\ op'.at \in {"evict", "evictRow"} =>
                               \A i \in 1..(op'.scope - 1) :
                                  ScopesOf[op'.key][i] = s => Fits(usage'[s] + Delta', s)
                         /\ op'.at \in {"blob", "ready"} => Fits(usage'[s] + op'.size, s)
                         /\ op'.at \in {"blob", "restore"} => Fits(usage'[s] + op'.prev.size, s)
    BY DEF QuotaInv, Fits, InScope
  <1>1. usage[s] \in Nat /\ usage'[s] \in Nat /\ usage'[s] <= usage[s] /\ Delta \in Int
        /\ op.size \in Nat /\ op.prev.size \in Nat
    BY DEF CacheInv, TypeOK, Operation, Row, Delta
  <1>2. \A n \in Int : Fits(usage[s] + n, s) => Fits(usage'[s] + n, s)
    BY <1>1, FitsLess
  <1>3. Fits(usage'[s], s)
    BY <1>1, FitsLess DEF CacheInv, QuotaInv
  <1>4. ASSUME op'.kind = "put", InScope(op'.key, s)
        PROVE  /\ op'.at = "pending" => Fits(usage'[s] + Delta', s)
               /\ op'.at \in {"evict", "evictRow"} =>
                     \A i \in 1..(op'.scope - 1) : ScopesOf[op'.key][i] = s => Fits(usage'[s] + Delta', s)
               /\ op'.at \in {"blob", "ready"} => Fits(usage'[s] + op'.size, s)
               /\ op'.at \in {"blob", "restore"} => Fits(usage'[s] + op'.prev.size, s)
    <2>1. op.kind = "put" /\ op'.key = op.key /\ op'.size = op.size /\ op'.prev = op.prev
          /\ op'.scope = op.scope /\ Delta' = Delta
      BY <1>4 DEF Delta, PutStays
    <2>2. /\ op.at = "pending" => Fits(usage[s] + Delta, s)
          /\ op.at \in {"evict", "evictRow"} =>
                \A i \in 1..(op.scope - 1) : ScopesOf[op.key][i] = s => Fits(usage[s] + Delta, s)
          /\ op.at \in {"blob", "ready"} => Fits(usage[s] + op.size, s)
          /\ op.at \in {"blob", "restore"} => Fits(usage[s] + op.prev.size, s)
      BY <1>4, <2>1 DEF CacheInv, QuotaInv
    <2>3. QED
      BY <1>1, <1>2, <1>4, <2>1, <2>2 DEF PutStays
  <1>5. QED
    BY <1>3, <1>4, Zenon

(* Nothing is in the index or in the blob store that was not. *)
LEMMA ListedKept ==
    ASSUME CacheInv, drifted => drifted', leaked => leaked', unsure' = unsure,
           \A k \in Keys : blobs'[k] = blobs[k] \/ blobs'[k] = NoBlob,
           \A k \in Keys : rows'[k].state = "none" /\ k \notin unsure =>
               rows[k].state = "none" \/ blobs'[k] = NoBlob \/ leaked' \/ drifted'
    PROVE  PayloadsListed'
  BY DEF CacheInv, PayloadsListed

(* The operation goes on to another place. *)
LEMMA Moved ==
    ASSUME op \in Operation, NEW a \in Places, op' = [op EXCEPT !.at = a]
    PROVE  /\ op' \in Operation /\ op'.at = a /\ op'.kind = op.kind /\ op'.key = op.key
           /\ op'.size = op.size /\ op'.prev = op.prev /\ op'.scope = op.scope /\ op'.todo = op.todo
  BY DEF Operation

LEMMA MovedWith ==
    ASSUME op \in Operation, NEW a \in Places, NEW t \in SUBSET Victim, op' = [op EXCEPT !.at = a, !.todo = t]
    PROVE  /\ op' \in Operation /\ op'.at = a /\ op'.kind = op.kind /\ op'.key = op.key
           /\ op'.size = op.size /\ op'.prev = op.prev /\ op'.scope = op.scope /\ op'.todo = t
  BY Zenon DEF Operation

LEMMA Released ==
    ASSUME Release
    PROVE  op' \in Operation /\ op'.kind = "none" /\ op'.at = "idle" /\ Resting
  BY ConstantTypes DEF Release, Resting

(* The bytes are those of the rows. *)
LEMMA BytesSame ==
    ASSUME UNCHANGED rows
    PROVE  \A s : StoredIn(s)' = StoredIn(s) /\ BytesIn(s)' = BytesIn(s)
  BY DEF StoredIn, ReadyIn, InScope, BytesIn

(* A step that removes no row: payloads may go, the process may stop, an    *)
(* operation may begin, go on or end.                                       *)
LEMMA RowsKeptStep ==
    ASSUME CacheInv, UNCHANGED <<rows, usage, wiped, puts, drifted, unsure>>,
           blobs' \in [Keys -> Blob], \A k \in Keys : blobs'[k] = blobs[k] \/ blobs'[k] = NoBlob,
           op' \in Operation, HolderInv', VictimInv', PutInv', PutStays,
           crashes' \in 0..MaxCrashes, serving' \in BOOLEAN, leaked' \in BOOLEAN, leaked => leaked',
           reader' \in [Readers -> Reader],
           \A r \in Readers : reader'[r] = reader[r] \/ (reader'[r].at = "idle" /\ reader'[r].row = NoRow),
           serving' => serving \/ \A k \in Keys : rows[k].state # "pending",
           op'.at \in {"undoRow", "row"} => leaked' \/ blobs'[op'.key] = NoBlob,
           Writing => (Writing' /\ op'.key = op.key) \/ leaked' \/ ~serving' \/ blobs'[op.key] = NoBlob
    PROVE  CacheInv'
  <1>1. purge' \in Scopes \cup {NoScope}
    BY TileCacheAssumption DEF HolderInv
  <1>2. TypeOK'
    BY <1>1 DEF CacheInv, TypeOK
  <1>3. Cleared /\ PutGoesOn
    BY DEF Cleared, PutStays, PutGoesOn
  <1>4. LeftInv'
    <2>1. CASE serving' => serving
      BY <2>1, LeftKept, Zenon
    <2>2. CASE \A k \in Keys : rows[k].state # "pending"
      BY <2>2 DEF LeftInv
    <2>3. QED
      BY <2>1, <2>2
  <1>5. EntryMatchesPayload' /\ VersionInv' /\ ReaderInv'
    BY <1>3, EntriesKept, VersionsKept, ReadersKept, Zenon
  <1>6. StoredFinite' /\ CountersExact'
    BY BytesSame DEF CacheInv, StoredFinite, CountersExact
  <1>7. PayloadsListed'
    BY ListedKept
  <1>8. usage' \in [Scopes -> Nat] /\ \A s \in Scopes : usage'[s] <= usage[s]
    BY DEF CacheInv, TypeOK
  <1>9. QuotaInv'
    BY <1>8, QuotaKept, Zenon
  <1>10. QED
    BY <1>2, <1>4, <1>5, <1>6, <1>7, <1>9, Zenon DEF CacheInv

(* A step after which no operation has selected or written anything. *)
LEMMA RestingStep ==
    ASSUME CacheInv, UNCHANGED <<rows, usage, wiped, puts, drifted, unsure, reader, crashes>>,
           blobs' \in [Keys -> Blob], \A k \in Keys : blobs'[k] = blobs[k] \/ blobs'[k] = NoBlob,
           op' \in Operation, Resting, purge' \in DOMAIN WipedBy \cup {NoScope},
           serving' \in BOOLEAN, leaked' \in BOOLEAN, leaked => leaked',
           serving' => serving \/ \A k \in Keys : rows[k].state # "pending",
           Writing => leaked' \/ blobs'[op.key] = NoBlob
    PROVE  CacheInv'
  <1>1. HolderInv' /\ VictimInv' /\ PutInv' /\ PutStays /\ op'.at \notin {"undoRow", "row"}
    BY RestingHolder, Zenon
  <1>2. reader' \in [Readers -> Reader] /\ crashes' \in 0..MaxCrashes
    BY DEF CacheInv, TypeOK
  <1>3. QED
    BY <1>1, <1>2, RowsKeptStep

(* metadataIndex.remove of an entry whose payload is gone, with the size    *)
(* that its row has, unless the step says that it is another row.           *)
LEMMA RemovalKeeps ==
    ASSUME CacheInv, NEW k \in Keys, NEW n \in Nat, Remove(k, n),
           drifted => drifted', drifted' \in BOOLEAN,
           ~drifted' => /\ rows[k].state = "ready" => rows[k].size = n
                        /\ blobs[k] = NoBlob \/ leaked \/ k \in unsure,
           reader' \in [Readers -> Reader],
           \A r \in Readers : reader'[r] = reader[r] \/ (reader'[r].at = "idle" /\ reader'[r].row = NoRow),
           UNCHANGED <<blobs, wiped, puts, crashes, serving, leaked, unsure>>,
           op' \in Operation, HolderInv', VictimInv', PutInv', PutStays, op'.at \notin {"undoRow", "row"},
           Writing => op.key = k
    PROVE  CacheInv'
  <1>1. TypeOK /\ StoredFinite
    BY DEF CacheInv
  <1>2. Written(k, NoRow)
        /\ ((rows[k].state = "ready" => rows[k].size = n) =>
              \A s \in Scopes : usage[s] = BytesIn(s) => usage'[s] = BytesIn(s)' /\ usage'[s] <= usage[s])
    BY <1>1, RowRemoved, Zenon
  <1>3. rows' \in [Keys -> Row] /\ usage' \in [Scopes -> Nat] /\ StoredFinite'
        /\ rows'[k] = NoRow /\ \A j \in Keys \ {k} : rows'[j] = rows[j]
    BY <1>2, Zenon DEF Written
  <1>4. purge' \in Scopes \cup {NoScope}
    BY TileCacheAssumption, Zenon DEF HolderInv
  <1>5. TypeOK'
    BY <1>3, <1>4 DEF CacheInv, TypeOK
  <1>6. CountersExact' /\ (~drifted' => \A s \in Scopes \ wiped' : usage'[s] <= usage[s])
    <2>1. ASSUME ~drifted', NEW s \in Scopes \ wiped
          PROVE  usage'[s] = BytesIn(s)' /\ usage'[s] <= usage[s]
      <3>1. usage[s] = BytesIn(s)
        BY <2>1, Zenon DEF CacheInv, CountersExact
      <3>2. QED
        BY <1>2, <2>1, <3>1, Zenon
    <2>2. QED
      BY <2>1, Zenon DEF CountersExact
  <1>7. Cleared /\ PutGoesOn /\ NoRow.state = "none"
    BY <1>3, ConstantTypes, Zenon DEF Cleared, PutStays, PutGoesOn
  <1>8. LeftInv'
    BY <1>3, <1>7, LeftKept, Zenon
  <1>9. EntryMatchesPayload' /\ VersionInv' /\ ReaderInv'
    BY <1>7, EntriesKept, VersionsKept, ReadersKept, Zenon
  <1>10. PayloadsListed'
    BY <1>3, ListedKept, Zenon
  <1>11. QuotaInv'
    BY <1>3, <1>6, QuotaKept, Zenon
  <1>12. QED
    BY <1>3, <1>5, <1>6, <1>8, <1>9, <1>10, <1>11, Zenon DEF CacheInv

LEMMA RemovalStep ==
    ASSUME CacheInv, NEW k \in Keys, NEW n \in Nat, Remove(k, n), rows[k].state = "ready" => rows[k].size = n,
           blobs[k] = NoBlob \/ leaked,
           UNCHANGED <<blobs, reader, wiped, puts, crashes, serving, drifted, leaked, unsure>>,
           op' \in Operation, HolderInv', VictimInv', PutInv', PutStays, op'.at \notin {"undoRow", "row"},
           Writing => op.key = k
    PROVE  CacheInv'
  <1>1. drifted' \in BOOLEAN /\ reader' \in [Readers -> Reader]
    BY DEF CacheInv, TypeOK
  <1>2. QED
    BY <1>1, RemovalKeeps

(* The holder of m.mu does nothing, and nothing happens to what it works on. *)
LEMMA HolderWaits ==
    ASSUME CacheInv, UNCHANGED <<rows, blobs, op, puts, serving, leaked, drifted, unsure>>
    PROVE  VictimInv' /\ PutInv' /\ LeftInv' /\ StoredFinite' /\ PayloadsListed' /\ EntryMatchesPayload'
           /\ PutStays /\ Writing' = Writing
  <1>1. Writing' = Writing /\ PutStays
    BY Zenon DEF Writing, PutStays
  <1>2. VictimInv' /\ PutInv'
    BY <1>1, Zenon DEF CacheInv, VictimInv, PutInv
  <1>3. LeftInv'
    BY <1>1 DEF CacheInv, LeftInv
  <1>4. StoredFinite'
    BY BytesSame DEF CacheInv, StoredFinite
  <1>5. PayloadsListed' /\ EntryMatchesPayload'
    BY DEF CacheInv, PayloadsListed, EntryMatchesPayload
  <1>6. QED
    BY <1>1, <1>2, <1>3, <1>4, <1>5, Zenon

-----------------------------------------------------------------------------
(* The invariant holds of an empty cache. *)
LEMMA CacheInit == Init => CacheInv
  <1> SUFFICES ASSUME Init PROVE CacheInv
    OBVIOUS
  <1> DEFINE free == [at |-> "idle", key |-> "none", row |-> NoRow]
  <1>1. op.kind = "none" /\ op.at = "idle" /\ op \in Operation
    BY ConstantTypes DEF Init
  <1>2. free \in Reader /\ free.at = "idle" /\ free.row = NoRow
    BY ConstantTypes DEF Reader
  <1>3. TypeOK
    <2>1. puts \in 0..MaxPuts /\ crashes \in 0..MaxCrashes /\ usage \in [Scopes -> Nat]
      BY TileCacheAssumption DEF Init
    <2>2. rows \in [Keys -> Row] /\ blobs \in [Keys -> Blob] /\ reader \in [Readers -> Reader]
      BY <1>2, ConstantTypes, Zenon DEF Init
    <2>3. QED
      BY <1>1, <2>1, <2>2, Zenon DEF Init, TypeOK
  <1>4. \A k \in Keys : rows[k] = NoRow /\ rows[k].state = "none" /\ blobs[k] = NoBlob
    BY ConstantTypes, Zenon DEF Init
  <1>5. \A s \in Scopes : StoredIn(s) = {} /\ usage[s] = 0
    BY <1>4 DEF StoredIn, ReadyIn, Init
  <1>6. StoredFinite /\ CountersExact
    BY <1>5, FS_EmptySet DEF StoredFinite, CountersExact, BytesIn
  <1>7. HolderInv
    BY <1>1, Zenon DEF HolderInv, PlacesOf, Init
  <1>8. VictimInv /\ PutInv
    BY <1>1 DEF VictimInv, PutInv
  <1>9. LeftInv /\ PayloadsListed /\ EntryMatchesPayload
    BY <1>1, <1>4 DEF LeftInv, PayloadsListed, EntryMatchesPayload
  <1>10. \A r \in Readers : reader[r] = free
    BY Zenon DEF Init
  <1>11. VersionInv
    BY <1>1, <1>2, <1>4, <1>10, ConstantTypes DEF VersionInv, Init
  <1>12. ReaderInv
    BY <1>2, <1>10, Zenon DEF ReaderInv
  <1>13. QuotaInv
    BY <1>1, <1>5, TileCacheAssumption DEF QuotaInv, Fits
  <1>14. QED
    BY <1>3, <1>6, <1>7, <1>8, <1>9, <1>11, <1>12, <1>13, Zenon DEF CacheInv

-----------------------------------------------------------------------------
(* Put keeps the invariant. *)

LEMMA PutBeginStep ==
    ASSUME CacheInv, NEW k \in Keys, NEW n \in Sizes, PutBegin(k, n)
    PROVE  CacheInv'
  <1> DEFINE prev == IF rows[k].state = "ready" THEN rows[k] ELSE NoRow
  <1>1. n \in Nat /\ puts \in Nat /\ puts' = puts + 1 /\ puts' \in 0..MaxPuts /\ serving
    BY TileCacheAssumption DEF PutBegin, CacheInv, TypeOK
  <1>2. prev \in Row /\ prev.size \in Nat /\ (prev = NoRow \/ prev.state = "ready")
        /\ prev = (IF rows[k].state = "ready" THEN rows[k] ELSE NoRow)
    BY ConstantTypes DEF CacheInv, TypeOK, Row
  <1>3. UNCHANGED <<rows, blobs, usage, reader, purge, wiped, crashes, serving, drifted, leaked, unsure>>
    BY DEF PutBegin
  <1>4. op' = [Free EXCEPT !.kind = "put", !.key = k, !.size = n, !.prev = prev, !.scope = 1,
                           !.at = IF n > prev.size THEN "evict" ELSE "pending"]
    BY DEF PutBegin
  <1> HIDE DEF prev
  <1>5. op.kind = "none" /\ op.at = "idle"
    BY ConstantTypes DEF PutBegin
  <1>6. /\ op'.kind = "put" /\ op'.key = k /\ op'.size = n /\ op'.prev = prev /\ op'.scope = 1
        /\ op'.at = (IF n > prev.size THEN "evict" ELSE "pending") /\ op'.at \in {"evict", "pending"}
        /\ op' \in Operation
    BY <1>1, <1>2, <1>4, Zenon DEF Free, Operation, Places
  <1>7. TypeOK'
    BY <1>1, <1>3, <1>6, Zenon DEF CacheInv, TypeOK
  <1>8. HolderInv'
    <2>1. op'.at \in PlacesOf(op'.kind)
      BY <1>6, Zenon DEF PlacesOf
    <2>2. QED
      BY <1>1, <1>3, <1>6, <2>1 DEF CacheInv, HolderInv
  <1>9. VictimInv'
    BY <1>6, Zenon DEF VictimInv
  <1>10. PutInv'
    BY <1>2, <1>3, <1>6, Zenon DEF PutInv, Writing
  <1>11. LeftInv'
    BY <1>3, <1>5, <1>6, LeftKept, Zenon DEF Writing
  <1>12. VersionInv'
    <2>1. prev.ver <= puts /\ prev.ver \in Nat
      BY <1>1, <1>2, ConstantTypes DEF CacheInv, VersionInv, Row
    <2>2. \A j \in Keys : rows[j].ver \in Nat
      BY DEF CacheInv, TypeOK, Row
    <2>3. \A r \in Readers : reader[r].row.ver \in Nat
      BY Zenon DEF CacheInv, TypeOK, Reader, Row
    <2>4. QED
      BY <1>1, <1>3, <1>6, <2>1, <2>2, <2>3 DEF CacheInv, VersionInv
  <1>13. ReaderInv'
    BY <1>3, <1>6 DEF CacheInv, ReaderInv
  <1>14. StoredFinite' /\ CountersExact'
    BY <1>3, BytesSame, Zenon DEF CacheInv, StoredFinite, CountersExact
  <1>15. PayloadsListed' /\ EntryMatchesPayload'
    BY <1>3 DEF CacheInv, PayloadsListed, EntryMatchesPayload
  <1>16. QuotaInv'
    <2>1. Delta' = n - prev.size
      BY <1>6 DEF Delta
    <2>2. \A s \in Scopes : usage[s] \in Nat
      BY Zenon DEF CacheInv, TypeOK
    <2>3. \A s \in Scopes : n <= prev.size /\ Fits(usage[s], s) => Fits(usage[s] + Delta', s)
      BY <1>1, <1>2, <2>1, <2>2, FitsLess
    <2>4. 1..(op'.scope - 1) = {}
      BY <1>6
    <2>5. n > prev.size \/ n <= prev.size
      BY <1>1, <1>2
    <2>6. QED
      BY <1>3, <1>6, <2>3, <2>4, <2>5, Zenon DEF CacheInv, QuotaInv, Fits, InScope
  <1>17. QED
    BY <1>7, <1>8, <1>9, <1>10, <1>11, <1>12, <1>13, <1>14, <1>15, <1>16, Zenon DEF CacheInv

LEMMA PutScopeStep ==
    ASSUME CacheInv, PutScope
    PROVE  CacheInv'
  <1>1. op.kind = "put" /\ op.at = "evict" /\ op.key \in Keys /\ op.scope \in Nat /\ op \in Operation
    BY DEF PutScope, CacheInv, HolderInv, TypeOK, Operation
  <1>2. UNCHANGED <<rows, blobs, usage, reader, purge, wiped, puts, crashes, serving, drifted, leaked, unsure>>
    BY DEF PutScope
  <1>3. /\ op' \in Operation /\ op'.kind = "put" /\ op'.key = op.key /\ op'.size = op.size
        /\ op'.prev = op.prev
        /\ \/ op.scope < Len(ScopesOf[op.key]) /\ op'.at = "evict" /\ op'.scope = op.scope + 1
           \/ ~(op.scope < Len(ScopesOf[op.key])) /\ op'.at = "pending"
    BY <1>1 DEF PutScope, Operation, Places
  <1>4. op'.at \in {"evict", "pending"} /\ PutGoesOn /\ ~Writing /\ Delta' = Delta
    BY <1>1, <1>3, Zenon DEF PutGoesOn, Writing, Delta
  <1>5. TypeOK'
    BY <1>2, <1>3, Zenon DEF CacheInv, TypeOK
  <1>6. HolderInv'
    <2>1. op'.at \in PlacesOf(op'.kind)
      BY <1>3 DEF PlacesOf
    <2>2. QED
      BY <1>1, <1>2, <1>3, <1>4, <2>1, Zenon DEF CacheInv, HolderInv
  <1>7. VictimInv'
    BY <1>4, Zenon DEF VictimInv
  <1>8. PutInv'
    BY <1>1, <1>2, <1>3, <1>4, Zenon DEF CacheInv, PutInv, Writing
  <1>9. LeftInv'
    BY <1>2, <1>4, LeftKept, Zenon
  <1>10. Cleared
    BY <1>2, Zenon DEF Cleared
  <1>11. EntryMatchesPayload' /\ VersionInv' /\ ReaderInv'
    BY <1>2, <1>4, <1>10, EntriesKept, VersionsKept, ReadersKept, Zenon
  <1>12. StoredFinite' /\ CountersExact' /\ PayloadsListed'
    BY <1>2, BytesSame, Zenon DEF CacheInv, StoredFinite, CountersExact, PayloadsListed
  <1>13. QuotaInv'
    <2>1. Fits(usage[CurrentScope] + Delta, CurrentScope) /\ CurrentScope = ScopesOf[op.key][op.scope]
      BY DEF PutScope, CurrentScope
    <2>2. ASSUME NEW s \in Scopes \ wiped, ~drifted, NEW i \in Nat \ {0}, i <= op.scope,
                 ScopesOf[op.key][i] = s, InScope(op.key, s)
          PROVE  Fits(usage[s] + Delta, s)
      <3>1. CASE i = op.scope
        BY <2>1, <2>2, <3>1, Zenon
      <3>2. CASE i # op.scope
        <4>1. i \in 1..(op.scope - 1)
          BY <1>1, <2>2, <3>2
        <4>2. QED
          BY <1>1, <2>2, <4>1, Zenon DEF CacheInv, QuotaInv
      <3>3. QED
        BY <3>1, <3>2, Zenon
    <2>3. ASSUME NEW s \in Scopes \ wiped, ~drifted, InScope(op.key, s), op'.at = "pending"
          PROVE  Fits(usage[s] + Delta, s)
      <3>1. ScopesOf[op.key] \in Seq(Scopes)
        BY <1>1, TileCacheAssumption, Zenon
      <3>2. PICK i \in 1..Len(ScopesOf[op.key]) : ScopesOf[op.key][i] = s
        BY <2>3, <3>1 DEF InScope, Range
      <3>3. i \in Nat \ {0} /\ i <= op.scope
        BY <1>1, <1>3, <2>3, <3>1, <3>2
      <3>4. QED
        BY <2>2, <2>3, <3>2, <3>3, Zenon
    <2>4. ASSUME NEW s \in Scopes \ wiped, ~drifted, InScope(op.key, s), op'.at = "evict",
                 NEW i \in 1..(op'.scope - 1), ScopesOf[op.key][i] = s
          PROVE  Fits(usage[s] + Delta, s)
      <3>1. i \in Nat \ {0} /\ i <= op.scope
        BY <1>1, <1>3, <2>4
      <3>2. QED
        BY <2>2, <2>4, <3>1, Zenon
    <2>5. \A s \in Scopes \ wiped : ~drifted => Fits(usage[s], s)
      BY DEF CacheInv, QuotaInv
    <2>6. QED
      BY <1>2, <1>3, <1>4, <2>3, <2>4, <2>5, Zenon DEF QuotaInv, Fits, InScope
  <1>14. QED
    BY <1>5, <1>6, <1>7, <1>8, <1>9, <1>11, <1>12, <1>13, Zenon DEF CacheInv

LEMMA PutEvictStep ==
    ASSUME CacheInv, PutEvict
    PROVE  CacheInv'
  <1>1. op.kind = "put" /\ op.at = "evict" /\ op.key \in Keys /\ op \in Operation /\ ~Writing
        /\ purge \in DOMAIN WipedBy \cup {NoScope} /\ blobs \in [Keys -> Blob] /\ serving /\ puts > 0
    BY Zenon DEF PutEvict, CacheInv, HolderInv, TypeOK, Writing
  <1>2. UNCHANGED <<rows, usage, reader, purge, wiped, puts, crashes, serving, drifted, leaked, unsure>>
    BY Zenon DEF PutEvict
  <1>3. leaked' \in BOOLEAN /\ serving' \in BOOLEAN /\ crashes' \in 0..MaxCrashes /\ reader' \in [Readers -> Reader]
    BY <1>2, Zenon DEF CacheInv, TypeOK
  <1>4. CASE Release /\ UNCHANGED blobs
    BY <1>1, <1>2, <1>3, <1>4, Released, RestingStep, Zenon
  <1>5. ASSUME NEW v \in ReadyIn(CurrentScope) \ {op.key}, DeleteBlob(v),
               op' = [op EXCEPT !.at = "evictRow", !.todo = {[key |-> v, size |-> rows[v].size]}]
        PROVE  CacheInv'
    <2>1. v \in Keys /\ v # op.key /\ rows[v].size \in Nat
      BY <1>5 DEF ReadyIn, CacheInv, TypeOK, Row
    <2>2. blobs' \in [Keys -> Blob] /\ blobs'[v] = NoBlob /\ \A k \in Keys : blobs'[k] = blobs[k] \/ blobs'[k] = NoBlob
      BY <1>1, <1>5, <2>1, ConstantTypes, Zenon DEF DeleteBlob
    <2>3. /\ op' \in Operation /\ op'.kind = "put" /\ op'.at = "evictRow" /\ op'.key = op.key
          /\ op'.size = op.size /\ op'.prev = op.prev /\ op'.scope = op.scope
          /\ op'.todo = {[key |-> v, size |-> rows[v].size]}
      <3>1. {[key |-> v, size |-> rows[v].size]} \in SUBSET Victim
        BY <2>1 DEF Victim
      <3>2. "evictRow" \in Places
        BY DEF Places
      <3>3. QED
        BY <1>1, <1>5, <3>1, <3>2, MovedWith, Zenon
    <2>4. HolderInv'
      BY <1>1, <1>2, <2>3, Zenon DEF HolderInv, PlacesOf
    <2>5. VictimInv'
      BY <1>2, <2>1, <2>2, <2>3 DEF VictimInv
    <2>6. PutInv'
      BY <1>1, <1>2, <2>3, Zenon DEF CacheInv, PutInv, Writing
    <2>7. PutStays
      BY <1>1, <2>3 DEF PutStays
    <2>8. QED
      BY <1>1, <1>2, <1>3, <2>2, <2>3, <2>4, <2>5, <2>6, <2>7, RowsKeptStep, Zenon
  <1>6. QED
    BY <1>4, <1>5, Zenon DEF PutEvict

LEMMA PutEvictRowStep ==
    ASSUME CacheInv, PutEvictRow
    PROVE  CacheInv'
  <1>1. op.kind = "put" /\ op.at = "evictRow" /\ op.key \in Keys /\ op \in Operation /\ ~Writing
        /\ purge \in DOMAIN WipedBy \cup {NoScope} /\ serving /\ puts > 0
    BY DEF PutEvictRow, CacheInv, HolderInv, TypeOK, Writing
  <1>2. UNCHANGED <<blobs, reader, purge, wiped, puts, crashes, serving, drifted, leaked, unsure>>
    BY DEF PutEvictRow
  <1>3. leaked' \in BOOLEAN /\ serving' \in BOOLEAN /\ blobs' \in [Keys -> Blob]
    BY <1>2, Zenon DEF CacheInv, TypeOK
  <1>4. CASE Release /\ UNCHANGED <<rows, usage>>
    BY <1>1, <1>2, <1>3, <1>4, Released, RestingStep, Zenon
  <1>5. ASSUME NEW e \in op.todo, Remove(e.key, e.size), op' = [op EXCEPT !.at = "evict", !.todo = {}]
        PROVE  CacheInv'
    <2>1. e.key \in Keys /\ e.size \in Nat
      BY <1>1, <1>5 DEF Operation, Victim
    <2>2. e.key # op.key /\ blobs[e.key] = NoBlob /\ (rows[e.key].state = "ready" => rows[e.key].size = e.size)
      BY <1>1, <1>5 DEF CacheInv, VictimInv
    <2>3. /\ op' \in Operation /\ op'.kind = "put" /\ op'.at = "evict" /\ op'.key = op.key
          /\ op'.size = op.size /\ op'.prev = op.prev /\ op'.scope = op.scope
      BY <1>1, <1>5, Zenon DEF Operation, Places
    <2>4. HolderInv'
      BY <1>1, <1>2, <2>3, Zenon DEF HolderInv, PlacesOf
    <2>5. VictimInv' /\ PutStays
      BY <1>1, <2>3, Zenon DEF VictimInv, PutStays
    <2>6. rows'[op.key] = rows[op.key]
      BY <1>1, <1>5, <2>1, <2>2, Zenon DEF Remove, CacheInv, TypeOK
    <2>7. PutInv'
      BY <1>1, <2>3, <2>6, Zenon DEF CacheInv, PutInv, Writing
    <2>8. QED
      BY <1>1, <1>2, <1>5, <2>1, <2>2, <2>3, <2>4, <2>5, <2>7, RemovalStep, Zenon
  <1>6. QED
    BY <1>4, <1>5 DEF PutEvictRow

LEMMA PutPendingStep ==
    ASSUME CacheInv, PutPending
    PROVE  CacheInv'
  <1>1. op.kind = "put" /\ op.at = "pending" /\ op.key \in Keys /\ op \in Operation /\ ~Writing
        /\ purge \in DOMAIN WipedBy \cup {NoScope} /\ serving /\ puts > 0
    BY DEF PutPending, CacheInv, HolderInv, TypeOK, Writing
  <1>2. UNCHANGED <<blobs, reader, purge, wiped, puts, crashes, serving, drifted, leaked, unsure>>
    BY DEF PutPending
  <1>3. leaked' \in BOOLEAN /\ serving' \in BOOLEAN /\ blobs' \in [Keys -> Blob]
    BY <1>2 DEF CacheInv, TypeOK
  <1>4. CASE Release /\ UNCHANGED <<rows, usage>>
    BY <1>1, <1>2, <1>3, <1>4, Released, RestingStep, Zenon
  <1> DEFINE row == [state |-> "pending", size |-> op.size, ver |-> puts]
             bytes == IF op.prev = NoRow THEN 0 ELSE -op.prev.size
  <1>5. ASSUME rows' = [rows EXCEPT ![op.key] = row],
               usage' = (IF op.prev = NoRow THEN usage ELSE AdjustUsage(usage, op.key, -op.prev.size)),
               op' = [op EXCEPT !.at = "blob"]
        PROVE  CacheInv'
    <2>1. op.prev \in Row /\ op.prev.size \in Nat /\ op.size \in Nat /\ puts \in Nat /\ row \in Row
          /\ row.state = "pending" /\ bytes \in Int /\ Delta = op.size - op.prev.size
      BY <1>1 DEF CacheInv, TypeOK, Operation, Row, Delta
    <2>2. op.prev = (IF rows[op.key].state = "ready" THEN rows[op.key] ELSE NoRow)
          /\ NoRow.state = "none" /\ NoRow.size = 0
      BY <1>1, ConstantTypes, Zenon DEF CacheInv, PutInv
    <2>3. bytes = Counted(row) - Counted(rows[op.key]) /\ bytes = -op.prev.size
      BY <2>1, <2>2 DEF Counted
    <2>4. usage' = AdjustUsage(usage, op.key, bytes) \/ (bytes = 0 /\ usage' = usage)
      BY <1>5
    <2> HIDE DEF row, bytes
    <2>5. Written(op.key, row) /\ Balanced(op.key, bytes)
      BY <1>1, <1>5, <2>1, <2>3, <2>4, RowWritten, Zenon DEF CacheInv
    <2>6. rows' \in [Keys -> Row] /\ usage' \in [Scopes -> Nat] /\ StoredFinite'
          /\ rows'[op.key] = row /\ \A j \in Keys \ {op.key} : rows'[j] = rows[j]
      BY <2>5, Zenon DEF Written
    <2>7. op' \in Operation /\ op'.at = "blob" /\ op'.kind = "put" /\ op'.key = op.key
          /\ op'.size = op.size /\ op'.prev = op.prev /\ op'.scope = op.scope
      BY <1>1, <1>5, Moved, Zenon DEF Places
    <2>8. TypeOK'
      BY <1>2, <2>6, <2>7 DEF CacheInv, TypeOK
    <2>9. HolderInv' /\ VictimInv' /\ Writing'
      BY <1>1, <1>2, <2>7 DEF HolderInv, PlacesOf, VictimInv, Writing
    <2>10. op.key \notin unsure /\ blobs[op.key] # NoBlob =>
              IF op.prev = NoRow THEN drifted \/ leaked
              ELSE blobs[op.key] = [size |-> op.prev.size, ver |-> op.prev.ver]
      <3>1. CASE rows[op.key].state = "ready"
        BY <1>1, <2>2, <3>1, Zenon DEF CacheInv, EntryMatchesPayload
      <3>2. CASE rows[op.key].state = "pending"
        BY <1>1, <2>2, <3>2, Zenon DEF CacheInv, LeftInv
      <3>3. CASE rows[op.key].state = "none"
        BY <1>1, <2>2, <3>3, Zenon DEF CacheInv, PayloadsListed
      <3>4. rows[op.key].state \in {"none", "pending", "ready"}
        BY <1>1, Zenon DEF CacheInv, TypeOK, Row
      <3>5. QED
        BY <3>1, <3>2, <3>3, <3>4, Zenon
    <2>11. PutInv'
      <3>1. rows'[op'.key] = [state |-> "pending", size |-> op'.size, ver |-> puts']
        BY <1>2, <2>6, <2>7, Zenon DEF row
      <3>2. op.prev = NoRow \/ op.prev.state = "ready"
        BY <2>2
      <3>3. QED
        BY <1>2, <2>7, <2>10, <3>1, <3>2 DEF PutInv
    <2>12. LeftInv'
      BY <1>1, <1>2, <2>6, <2>7, <2>9, Zenon DEF CacheInv, LeftInv
    <2>13. VersionInv'
      BY <1>1, <1>2, <2>1, <2>6, <2>7, Zenon DEF CacheInv, VersionInv
    <2>14. ReaderInv'
      BY <1>1, <1>2, <2>1, <2>2, <2>6, <2>7 DEF CacheInv, ReaderInv
    <2>15. CountersExact'
      BY <1>2, <2>5, Zenon DEF CacheInv, CountersExact, Balanced
    <2>16. PayloadsListed' /\ EntryMatchesPayload'
      BY <1>1, <1>2, <2>1, <2>6, Zenon DEF CacheInv, PayloadsListed, EntryMatchesPayload
    <2>17. QuotaInv'
      <3>1. ASSUME NEW s \in Scopes \ wiped, ~drifted
            PROVE  /\ Fits(usage'[s], s)
                   /\ InScope(op.key, s) => Fits(usage'[s] + op.size, s) /\ Fits(usage'[s] + op.prev.size, s)
        <4>1. usage'[s] = usage[s] + (IF InScope(op.key, s) THEN bytes ELSE 0) /\ usage[s] \in Nat
          BY <2>5, <3>1, Zenon DEF CacheInv, TypeOK, CountersExact, Balanced
        <4>2. Fits(usage[s], s) /\ (InScope(op.key, s) => Fits(usage[s] + Delta, s))
          BY <1>1, <3>1, Zenon DEF CacheInv, QuotaInv
        <4>3. InScope(op.key, s) => usage'[s] + op.size = usage[s] + Delta /\ usage'[s] + op.prev.size = usage[s]
          BY <2>1, <2>3, <4>1
        <4>4. usage'[s] \in Int /\ usage'[s] <= usage[s]
          BY <2>1, <2>3, <4>1
        <4>5. Fits(usage'[s], s)
          BY <4>1, <4>2, <4>4, FitsLess
        <4>6. QED
          BY <4>2, <4>3, <4>5, Zenon
      <3>2. QED
        BY <1>2, <2>7, <3>1 DEF QuotaInv, Fits, InScope
    <2>18. QED
      BY <2>6, <2>8, <2>9, <2>11, <2>12, <2>13, <2>14, <2>15, <2>16, <2>17, Zenon DEF CacheInv
  <1>6. QED
    BY <1>4, <1>5, Zenon DEF PutPending

LEMMA PutBlobStep ==
    ASSUME CacheInv, PutBlob
    PROVE  CacheInv'
  <1>1. op.kind = "put" /\ op.at = "blob" /\ op.key \in Keys /\ op \in Operation /\ Writing
        /\ serving /\ puts > 0 /\ unsure \subseteq Keys
    BY DEF PutBlob, CacheInv, HolderInv, TypeOK, Writing
  <1>2. UNCHANGED <<rows, usage, reader, purge, wiped, puts, crashes, serving, drifted, leaked>>
    BY DEF PutBlob
  <1> DEFINE payload == [size |-> op.size, ver |-> puts]
             written == [blobs EXCEPT ![op.key] = payload]
  <1>3. \/ blobs' = written /\ op' = [op EXCEPT !.at = "ready"] /\ unsure' = unsure
        \/ blobs' = blobs /\ op' = [op EXCEPT !.at = "restore"] /\ unsure' = unsure
        \/ blobs' = written /\ op' = [op EXCEPT !.at = "restore"] /\ unsure' = unsure \cup {op.key}
    BY Zenon DEF PutBlob
  <1>4. payload \in Blob
    BY <1>1 DEF CacheInv, TypeOK, Operation, Blob
  <1>5. written \in [Keys -> Blob] /\ written[op.key] = payload /\ \A k \in Keys \ {op.key} : written[k] = blobs[k]
    BY <1>1, <1>4 DEF CacheInv, TypeOK
  <1>6. /\ op' \in Operation /\ op'.at \in {"ready", "restore"} /\ op'.kind = "put" /\ op'.key = op.key
        /\ op'.size = op.size /\ op'.prev = op.prev /\ op'.scope = op.scope
    <2>1. "ready" \in Places /\ "restore" \in Places
      BY DEF Places
    <2>2. QED
      BY <1>1, <1>3, <2>1, Moved, Zenon
  <1>7. \/ blobs' = written /\ op'.at = "ready" /\ unsure' = unsure
        \/ blobs' = blobs /\ op'.at = "restore" /\ unsure' = unsure
        \/ blobs' = written /\ op'.at = "restore" /\ unsure' = unsure \cup {op.key}
    BY <1>1, <1>3 DEF Operation
  <1> HIDE DEF written
  <1>8. (op'.at = "restore" => blobs' = blobs \/ op.key \in unsure') /\ unsure \subseteq unsure' /\ unsure' \subseteq Keys
    BY <1>1, <1>7, Zenon
  <1>9. blobs' \in [Keys -> Blob] /\ (op'.at = "ready" => blobs'[op.key] = payload)
        /\ \A k \in Keys \ {op.key} : blobs'[k] = blobs[k]
    BY <1>5, <1>7, Zenon DEF CacheInv, TypeOK
  <1>10. TypeOK'
    BY <1>2, <1>6, <1>8, <1>9, Zenon DEF CacheInv, TypeOK
  <1>11. HolderInv' /\ VictimInv' /\ Writing'
    BY <1>1, <1>2, <1>6, Zenon DEF CacheInv, HolderInv, PlacesOf, VictimInv, Writing
  <1>12. rows[op.key] = [state |-> "pending", size |-> op.size, ver |-> puts] /\ rows[op.key].state = "pending"
    BY <1>1 DEF CacheInv, PutInv
  <1>13. PutInv'
    <2>1. op.prev = NoRow \/ op.prev.state = "ready"
      BY <1>1, Zenon DEF CacheInv, PutInv
    <2>2. op.key \notin unsure /\ blobs[op.key] # NoBlob =>
              IF op.prev = NoRow THEN drifted \/ leaked
              ELSE blobs[op.key] = [size |-> op.prev.size, ver |-> op.prev.ver]
      BY <1>1, Zenon DEF CacheInv, PutInv
    <2>3. QED
      BY <1>2, <1>6, <1>8, <1>9, <1>12, <2>1, <2>2, Zenon DEF PutInv
  <1>14. LeftInv'
    BY <1>1, <1>2, <1>6, <1>9, <1>11, Zenon DEF CacheInv, LeftInv
  <1>15. VersionInv'
    BY <1>1, <1>2, <1>6, Zenon DEF CacheInv, VersionInv
  <1>16. ReaderInv'
    <2>1. ASSUME NEW r \in Readers, reader[r].at # "idle"
          PROVE  reader[r].key \in Keys /\ reader[r].row.state = "ready"
      BY <2>1, Zenon DEF CacheInv, ReaderInv
    <2>2. ASSUME NEW r \in Readers, reader[r].at = "repair", reader[r].key \notin unsure',
                 rows[reader[r].key] = reader[r].row
          PROVE  blobs'[reader[r].key] = NoBlob
      <3>1. reader[r].key \in Keys \ {op.key}
        BY <1>12, <2>1, <2>2, Zenon
      <3>2. blobs[reader[r].key] = NoBlob
        BY <1>8, <2>2, Zenon DEF CacheInv, ReaderInv
      <3>3. QED
        BY <1>9, <3>1, <3>2, Zenon
    <2>3. ASSUME NEW r \in Readers, reader[r].at = "repair", reader[r].key \notin unsure',
                 op'.at \in {"blob", "restore"}, op.key = reader[r].key, op.prev = reader[r].row
          PROVE  blobs'[op.key] = NoBlob
      <3>1. blobs' = blobs
        BY <1>6, <1>8, <2>3, Zenon
      <3>2. blobs[op.key] = NoBlob
        BY <1>1, <1>8, <2>3, Zenon DEF CacheInv, ReaderInv
      <3>3. QED
        BY <3>1, <3>2, Zenon
    <2>4. QED
      BY <1>2, <1>6, <2>1, <2>2, <2>3, Zenon DEF ReaderInv
  <1>17. StoredFinite' /\ CountersExact'
    BY <1>2, BytesSame DEF CacheInv, StoredFinite, CountersExact
  <1>18. PayloadsListed' /\ EntryMatchesPayload'
    BY <1>2, <1>8, <1>9, <1>12, Zenon DEF CacheInv, PayloadsListed, EntryMatchesPayload
  <1>19. QuotaInv'
    BY <1>1, <1>2, <1>6 DEF CacheInv, QuotaInv, Fits, InScope
  <1>20. QED
    BY <1>10, <1>11, <1>13, <1>14, <1>15, <1>16, <1>17, <1>18, <1>19, Zenon DEF CacheInv

LEMMA PutRestoreStep ==
    ASSUME CacheInv, PutRestore
    PROVE  CacheInv'
  <1>1. op.kind = "put" /\ op.at = "restore" /\ op.key \in Keys /\ op \in Operation /\ Writing
        /\ purge \in DOMAIN WipedBy \cup {NoScope}
    BY DEF PutRestore, CacheInv, HolderInv, TypeOK, Writing
  <1>2. Release /\ UNCHANGED <<blobs, reader, purge, wiped, puts, crashes, serving, drifted, unsure>>
    BY DEF PutRestore
  <1>3. serving' \in BOOLEAN /\ blobs' \in [Keys -> Blob]
    BY <1>2 DEF CacheInv, TypeOK
  <1>4. op' \in Operation /\ op'.kind = "none" /\ op'.at = "idle" /\ Resting
    BY <1>2, Released, Zenon
  <1>5. CASE leaked' = TRUE /\ UNCHANGED <<rows, usage>>
    BY <1>1, <1>2, <1>3, <1>4, <1>5, RestingStep, Zenon
  <1> DEFINE bytes == IF op.prev = NoRow THEN 0 ELSE op.prev.size
  <1>6. ASSUME rows' = [rows EXCEPT ![op.key] = op.prev],
               usage' = (IF op.prev = NoRow THEN usage ELSE AdjustUsage(usage, op.key, op.prev.size)),
               UNCHANGED leaked
        PROVE  CacheInv'
    <2>1. op.prev \in Row /\ op.prev.size \in Nat /\ op.prev.ver \in Nat /\ puts \in Nat /\ bytes \in Int
      BY <1>1 DEF CacheInv, TypeOK, Operation, Row
    <2>2. rows[op.key].state = "pending" /\ (op.prev = NoRow \/ op.prev.state = "ready")
          /\ NoRow.state = "none" /\ NoRow.size = 0
      BY <1>1, ConstantTypes DEF CacheInv, PutInv
    <2>3. bytes = Counted(op.prev) - Counted(rows[op.key]) /\ bytes = op.prev.size
      BY <2>1, <2>2 DEF Counted
    <2>4. usage' = AdjustUsage(usage, op.key, bytes) \/ (bytes = 0 /\ usage' = usage)
      BY <1>6
    <2> HIDE DEF bytes
    <2>5. Written(op.key, op.prev) /\ Balanced(op.key, bytes)
      BY <1>1, <1>6, <2>1, <2>3, <2>4, RowWritten, Zenon DEF CacheInv
    <2>6. rows' \in [Keys -> Row] /\ usage' \in [Scopes -> Nat] /\ StoredFinite'
          /\ rows'[op.key] = op.prev /\ \A j \in Keys \ {op.key} : rows'[j] = rows[j]
      BY <2>5, Zenon DEF Written
    <2>7. TypeOK'
      BY <1>2, <1>4, <1>6, <2>6 DEF CacheInv, TypeOK
    <2>8. HolderInv' /\ VictimInv' /\ PutInv' /\ op'.at \notin {"undoRow", "row"}
      BY <1>1, <1>2, <1>4, RestingHolder, Zenon
    <2>9. LeftInv'
      <3>1. \A k \in Keys : rows'[k] = rows[k] \/ rows'[k].state # "pending"
        BY <2>2, <2>6, Zenon
      <3>2. rows'[op.key].state # "pending"
        BY <2>2, <2>6, Zenon
      <3>3. QED
        BY <1>2, <1>6, <2>8, <3>1, <3>2, LeftKept, Zenon
    <2>10. op.key \notin unsure /\ blobs[op.key] # NoBlob =>
              IF op.prev = NoRow THEN drifted \/ leaked
              ELSE blobs[op.key] = [size |-> op.prev.size, ver |-> op.prev.ver]
      BY <1>1, Zenon DEF CacheInv, PutInv
    <2>11. VersionInv'
      <3>1. op.prev.ver < puts
        BY <1>1, Zenon DEF CacheInv, VersionInv
      <3>2. op.prev.ver <= puts
        BY <2>1, <3>1
      <3>3. \A k \in Keys : rows'[k].state = "ready" => rows'[k].ver <= puts
        <4>1. \A k \in Keys \ {op.key} : rows'[k].state = "ready" => rows'[k].ver <= puts
          BY <2>6, Zenon DEF CacheInv, VersionInv
        <4>2. QED
          BY <2>6, <3>2, <4>1, Zenon
      <3>4. op'.kind # "put"
        BY <1>4
      <3>5. QED
        BY <1>2, <3>3, <3>4, Zenon DEF CacheInv, VersionInv
    <2>12. ReaderInv'
      <3>1. \A r \in Readers : reader[r].at = "repair" /\ reader[r].key \notin unsure =>
               (rows'[reader[r].key] = reader[r].row => blobs[reader[r].key] = NoBlob)
        BY <1>1, <2>6, Zenon DEF CacheInv, ReaderInv
      <3>2. op'.kind # "put"
        BY <1>4
      <3>3. QED
        BY <1>2, <3>1, <3>2, Zenon DEF CacheInv, ReaderInv
    <2>13. CountersExact'
      BY <1>2, <2>5, Zenon DEF CacheInv, CountersExact, Balanced
    <2>14. PayloadsListed' /\ EntryMatchesPayload'
      BY <1>1, <1>2, <1>6, <2>2, <2>6, <2>10, Zenon DEF CacheInv, PayloadsListed, EntryMatchesPayload
    <2>15. QuotaInv'
      <3>1. ASSUME NEW s \in Scopes \ wiped, ~drifted
            PROVE  Fits(usage'[s], s)
        <4>1. usage'[s] = usage[s] + (IF InScope(op.key, s) THEN op.prev.size ELSE 0) /\ usage[s] \in Nat
          BY <2>3, <2>5, <3>1, Zenon DEF CacheInv, TypeOK, CountersExact, Balanced
        <4>2. Fits(usage[s], s) /\ (InScope(op.key, s) => Fits(usage[s] + op.prev.size, s))
          BY <1>1, <3>1, Zenon DEF CacheInv, QuotaInv
        <4>3. CASE InScope(op.key, s)
          BY <4>1, <4>2, <4>3, Zenon
        <4>4. CASE ~InScope(op.key, s)
          BY <4>1, <4>2, <4>4
        <4>5. QED
          BY <4>3, <4>4, Zenon
      <3>2. QED
        BY <1>2, <1>4, <3>1, Zenon DEF QuotaInv, Fits
    <2>16. QED
      BY <2>6, <2>7, <2>8, <2>9, <2>11, <2>12, <2>13, <2>14, <2>15, Zenon DEF CacheInv
  <1>7. QED
    BY <1>5, <1>6, Zenon DEF PutRestore

LEMMA PutReadyStep ==
    ASSUME CacheInv, PutReady
    PROVE  CacheInv'
  <1>1. op.kind = "put" /\ op.at = "ready" /\ op.key \in Keys /\ op \in Operation /\ Writing
        /\ purge \in DOMAIN WipedBy \cup {NoScope} /\ serving /\ puts > 0
    BY DEF PutReady, CacheInv, HolderInv, TypeOK, Writing
  <1>2. UNCHANGED <<blobs, reader, purge, wiped, puts, crashes, serving, drifted, leaked, unsure>>
    BY DEF PutReady
  <1>3. serving' \in BOOLEAN /\ leaked' \in BOOLEAN /\ blobs' \in [Keys -> Blob] /\ crashes' \in 0..MaxCrashes
        /\ reader' \in [Readers -> Reader]
    BY <1>2 DEF CacheInv, TypeOK
  <1>4. ASSUME op' = [op EXCEPT !.at = "undoBlob"], UNCHANGED <<rows, usage>>
        PROVE  CacheInv'
    <2>1. op' \in Operation /\ op'.at = "undoBlob" /\ op'.kind = "put" /\ op'.key = op.key
          /\ op'.size = op.size /\ op'.prev = op.prev /\ op'.scope = op.scope
      BY <1>1, <1>4, Moved, Zenon DEF Places
    <2>2. HolderInv' /\ VictimInv' /\ Writing' /\ PutStays
      BY <1>1, <1>2, <2>1, Zenon DEF HolderInv, PlacesOf, VictimInv, Writing, PutStays
    <2>3. PutInv'
      BY <1>1, <1>2, <1>4, <2>1 DEF CacheInv, PutInv
    <2>4. QED
      BY <1>1, <1>2, <1>3, <1>4, <2>1, <2>2, <2>3, RowsKeptStep, Zenon
  <1> DEFINE row == [state |-> "ready", size |-> op.size, ver |-> puts]
  <1>5. ASSUME rows' = [rows EXCEPT ![op.key].state = "ready"],
               usage' = AdjustUsage(usage, op.key, op.size), Release
        PROVE  CacheInv'
    <2>1. op.size \in Nat /\ op.size \in Int /\ puts \in Nat /\ row \in Row /\ row.state = "ready" /\ row.ver = puts
          /\ row.size = op.size
      BY <1>1 DEF CacheInv, TypeOK, Operation, Row
    <2>2. rows[op.key] = [state |-> "pending", size |-> op.size, ver |-> puts] /\ rows[op.key].state = "pending"
          /\ blobs[op.key] = [size |-> op.size, ver |-> puts]
      BY <1>1 DEF CacheInv, PutInv
    <2>3. rows' = [rows EXCEPT ![op.key] = row]
      <3>1. [rows[op.key] EXCEPT !.state = "ready"] = row
        BY <2>2
      <3>2. rows' = [rows EXCEPT ![op.key] = [rows[op.key] EXCEPT !.state = "ready"]]
        BY <1>5, Zenon
      <3>3. QED
        BY <3>1, <3>2, Zenon
    <2> HIDE DEF row
    <2>4. op.size = Counted(row) - Counted(rows[op.key])
      <3>1. Counted(row) = op.size
        BY <2>1, Zenon DEF Counted
      <3>2. Counted(rows[op.key]) = 0
        BY <2>2, Zenon DEF Counted
      <3>3. op.size = op.size - 0
        BY <2>1
      <3>4. QED
        BY <3>1, <3>2, <3>3, Zenon
    <2>5. Written(op.key, row) /\ Balanced(op.key, op.size)
      BY <1>1, <1>5, <2>1, <2>3, <2>4, RowWritten, Zenon DEF CacheInv
    <2>6. rows' \in [Keys -> Row] /\ usage' \in [Scopes -> Nat] /\ StoredFinite'
          /\ rows'[op.key] = row /\ \A j \in Keys \ {op.key} : rows'[j] = rows[j]
      BY <2>5, Zenon DEF Written
    <2>7. op' \in Operation /\ op'.kind = "none" /\ op'.at = "idle" /\ Resting
      BY <1>5, Released, Zenon
    <2>8. TypeOK'
      BY <1>2, <2>6, <2>7 DEF CacheInv, TypeOK
    <2>9. HolderInv' /\ VictimInv' /\ PutInv' /\ op'.at \notin {"undoRow", "row"}
      BY <1>1, <1>2, <2>7, RestingHolder, Zenon
    <2>10. LeftInv'
      <3>1. \A k \in Keys : rows'[k] = rows[k] \/ rows'[k].state # "pending"
        BY <2>1, <2>6, Zenon
      <3>2. rows'[op.key].state # "pending"
        BY <2>1, <2>6, Zenon
      <3>3. QED
        BY <1>2, <2>9, <3>1, <3>2, LeftKept, Zenon
    <2>11. VersionInv'
      <3>1. puts <= puts
        BY <2>1
      <3>2. \A k \in Keys : rows'[k].state = "ready" => rows'[k].ver <= puts
        <4>1. \A k \in Keys \ {op.key} : rows'[k].state = "ready" => rows'[k].ver <= puts
          BY <2>6, Zenon DEF CacheInv, VersionInv
        <4>2. QED
          BY <2>1, <2>6, <3>1, <4>1, Zenon
      <3>3. op'.kind # "put"
        BY <2>7
      <3>4. QED
        BY <1>2, <3>2, <3>3, Zenon DEF CacheInv, VersionInv
    <2>12. \A r \in Readers : reader[r].row # row
      <3>1. \A r \in Readers : reader[r].row.ver < puts
        BY <1>1, Zenon DEF CacheInv, VersionInv
      <3>2. ~(puts < puts)
        BY <2>1
      <3>3. QED
        BY <2>1, <3>1, <3>2, Zenon
    <2>13. ReaderInv'
      BY <1>1, <1>2, <2>6, <2>7, <2>12 DEF CacheInv, ReaderInv
    <2>14. CountersExact'
      BY <1>2, <2>5, Zenon DEF CacheInv, CountersExact, Balanced
    <2>15. PayloadsListed' /\ EntryMatchesPayload'
      BY <1>1, <1>2, <2>1, <2>2, <2>6 DEF CacheInv, PayloadsListed, EntryMatchesPayload
    <2>16. QuotaInv'
      <3>1. ASSUME NEW s \in Scopes \ wiped, ~drifted
            PROVE  Fits(usage'[s], s)
        <4>1. usage'[s] = usage[s] + (IF InScope(op.key, s) THEN op.size ELSE 0) /\ usage[s] \in Nat
          BY <2>5, <3>1, Zenon DEF CacheInv, TypeOK, CountersExact, Balanced
        <4>2. Fits(usage[s], s) /\ (InScope(op.key, s) => Fits(usage[s] + op.size, s))
          BY <1>1, <3>1, Zenon DEF CacheInv, QuotaInv
        <4>3. CASE InScope(op.key, s)
          BY <4>1, <4>2, <4>3, Zenon
        <4>4. CASE ~InScope(op.key, s)
          BY <4>1, <4>2, <4>4
        <4>5. QED
          BY <4>3, <4>4
      <3>2. QED
        BY <1>2, <2>7, <3>1, Zenon DEF QuotaInv, Fits
    <2>17. QED
      BY <2>6, <2>8, <2>9, <2>10, <2>11, <2>13, <2>14, <2>15, <2>16, Zenon DEF CacheInv
  <1>6. QED
    BY <1>4, <1>5 DEF PutReady

LEMMA PutUndoBlobStep ==
    ASSUME CacheInv, PutUndoBlob
    PROVE  CacheInv'
  <1>1. op.kind = "put" /\ op.at = "undoBlob" /\ op.key \in Keys /\ op \in Operation /\ Writing
        /\ purge \in DOMAIN WipedBy \cup {NoScope} /\ serving /\ puts > 0
        /\ blobs \in [Keys -> Blob] /\ leaked \in BOOLEAN
    BY DEF PutUndoBlob, CacheInv, HolderInv, TypeOK, Writing
  <1>2. UNCHANGED <<rows, usage, reader, purge, wiped, puts, crashes, serving, drifted, unsure>>
        /\ op' = [op EXCEPT !.at = "undoRow"]
    BY DEF PutUndoBlob
  <1>3. serving' \in BOOLEAN /\ crashes' \in 0..MaxCrashes /\ reader' \in [Readers -> Reader]
    BY <1>2 DEF CacheInv, TypeOK
  <1>4. op' \in Operation /\ op'.at = "undoRow" /\ op'.kind = "put" /\ op'.key = op.key
        /\ op'.size = op.size /\ op'.prev = op.prev /\ op'.scope = op.scope
    BY <1>1, <1>2, Moved DEF Places
  <1>5. blobs' \in [Keys -> Blob] /\ (\A k \in Keys : blobs'[k] = blobs[k] \/ blobs'[k] = NoBlob)
        /\ leaked' \in BOOLEAN /\ (leaked => leaked') /\ (leaked' \/ blobs'[op.key] = NoBlob)
    BY <1>1, ConstantTypes, Zenon DEF PutUndoBlob, DeleteBlob
  <1>6. HolderInv' /\ VictimInv' /\ Writing' /\ PutStays
    BY <1>1, <1>2, <1>4 DEF HolderInv, PlacesOf, VictimInv, Writing, PutStays
  <1>7. PutInv'
    BY <1>1, <1>2, <1>4, Zenon DEF CacheInv, PutInv
  <1>8. QED
    BY <1>1, <1>2, <1>3, <1>4, <1>5, <1>6, <1>7, RowsKeptStep, Zenon

LEMMA PutUndoRowStep ==
    ASSUME CacheInv, PutUndoRow
    PROVE  CacheInv'
  <1>1. op.kind = "put" /\ op.at = "undoRow" /\ op.key \in Keys /\ op.size \in Nat /\ Writing
        /\ purge \in DOMAIN WipedBy \cup {NoScope}
    BY DEF PutUndoRow, CacheInv, HolderInv, TypeOK, Operation, Writing
  <1>2. Release /\ UNCHANGED <<blobs, reader, purge, wiped, puts, crashes, serving, drifted, leaked, unsure>>
    BY DEF PutUndoRow
  <1>3. serving' \in BOOLEAN /\ leaked' \in BOOLEAN /\ blobs' \in [Keys -> Blob]
    BY <1>2 DEF CacheInv, TypeOK
  <1>4. op' \in Operation /\ Resting
    BY <1>2, Released, Zenon
  <1>5. rows[op.key].state = "pending" /\ (blobs[op.key] = NoBlob \/ leaked)
    <2>1. rows[op.key] = [state |-> "pending", size |-> op.size, ver |-> puts]
      BY <1>1, Zenon DEF CacheInv, PutInv
    <2>2. rows[op.key].state = "pending"
      BY <2>1
    <2>3. blobs[op.key] = NoBlob \/ leaked
      BY <1>1, Zenon DEF CacheInv, LeftInv
    <2>4. QED
      BY <2>2, <2>3, Zenon
  <1>6. CASE UNCHANGED <<rows, usage>>
    BY <1>1, <1>2, <1>3, <1>4, <1>5, <1>6, RestingStep
  <1>7. CASE Remove(op.key, op.size)
    <2>1. HolderInv' /\ VictimInv' /\ PutInv' /\ PutStays /\ op'.at \notin {"undoRow", "row"}
      BY <1>1, <1>2, <1>4, RestingHolder, Zenon
    <2>2. QED
      BY <1>1, <1>2, <1>4, <1>5, <1>7, <2>1, RemovalStep, Zenon
  <1>8. QED
    BY <1>6, <1>7, Zenon DEF PutUndoRow

-----------------------------------------------------------------------------
(* Delete and PurgeLifecycle keep the invariant. *)

(* Delete, DeleteIdentity, PurgeLifecycle and reconcile begin. *)
LEMMA BeginStep ==
    ASSUME CacheInv, op = Free, NEW kind \in {"delete", "purge", "reconcile"}, NEW sel \in SUBSET Keys,
           op' = [Free EXCEPT !.kind = kind, !.at = IF kind = "reconcile" THEN "blob" ELSE "select", !.sel = sel],
           purge' \in DOMAIN WipedBy \cup {NoScope},
           UNCHANGED <<rows, blobs, usage, reader, wiped, puts, crashes, serving, drifted, leaked, unsure>>
    PROVE  CacheInv'
  <1>1. op' \in Operation /\ op'.kind = kind /\ op'.at = (IF kind = "reconcile" THEN "blob" ELSE "select")
    BY ConstantTypes, Zenon DEF Free, Operation, Places
  <1>2. Resting /\ ~Writing
    BY <1>1, ConstantTypes DEF Resting, Writing
  <1>3. serving' \in BOOLEAN /\ leaked' \in BOOLEAN /\ blobs' \in [Keys -> Blob]
    BY DEF CacheInv, TypeOK
  <1>4. QED
    BY <1>1, <1>2, <1>3, RestingStep, Zenon

LEMMA DeleteBeginStep ==
    ASSUME CacheInv, NEW sel \in Selectors, DeleteBegin(sel)
    PROVE  CacheInv'
  <1>1. sel \in SUBSET Keys /\ purge \in DOMAIN WipedBy \cup {NoScope}
    BY DEF Selectors, CacheInv, HolderInv
  <1>2. op' = [Free EXCEPT !.kind = "delete", !.at = "select", !.sel = sel] /\ op = Free
        /\ UNCHANGED <<rows, blobs, usage, reader, purge, wiped, puts, crashes, serving, drifted, leaked, unsure>>
    BY DEF DeleteBegin
  <1>3. QED
    BY <1>1, <1>2, BeginStep, Zenon

LEMMA PurgeBeginStep ==
    ASSUME CacheInv, NEW s \in DOMAIN WipedBy, PurgeBegin(s)
    PROVE  CacheInv'
  <1> DEFINE sel == {k \in Keys : InScope(k, s)}
  <1>1. op' = [Free EXCEPT !.kind = "purge", !.at = "select", !.sel = sel] /\ op = Free /\ purge' = s
        /\ UNCHANGED <<rows, blobs, usage, reader, wiped, puts, crashes, serving, drifted, leaked, unsure>>
    BY DEF PurgeBegin
  <1>2. sel \in SUBSET Keys
    OBVIOUS
  <1> HIDE DEF sel
  <1>3. QED
    BY <1>1, <1>2, BeginStep, Zenon

(* The operation that deletes: what it is and where it goes. *)
LEMMA DeletingFacts ==
    ASSUME CacheInv, Deleting
    PROVE  /\ op.kind \in {"delete", "purge"} /\ op \in Operation /\ ~Writing
           /\ purge \in DOMAIN WipedBy \cup {NoScope}
           /\ blobs \in [Keys -> Blob] /\ leaked \in BOOLEAN /\ serving \in BOOLEAN
           /\ crashes \in 0..MaxCrashes /\ reader \in [Readers -> Reader]
           /\ \A e \in op.todo : e.key \in Keys /\ e.size \in Nat
  <1>1. op.kind \in {"delete", "purge"} /\ op \in Operation /\ ~Writing
    BY DEF Deleting, Writing, CacheInv, TypeOK
  <1>2. \A e \in op.todo : e.key \in Keys /\ e.size \in Nat
    BY <1>1, Zenon DEF Operation, Victim
  <1>3. QED
    BY <1>1, <1>2, Zenon DEF CacheInv, HolderInv, TypeOK

LEMMA DeleteFailsStep ==
    ASSUME CacheInv, Deleting, DeleteFails, blobs' \in [Keys -> Blob],
           \A k \in Keys : blobs'[k] = blobs[k] \/ blobs'[k] = NoBlob,
           UNCHANGED <<rows, usage, reader, wiped, puts, crashes, serving, drifted, leaked, unsure>>
    PROVE  CacheInv'
  <1>1. ~Writing /\ purge' \in DOMAIN WipedBy \cup {NoScope} /\ leaked \in BOOLEAN /\ serving \in BOOLEAN
    BY DeletingFacts DEF DeleteFails
  <1>2. op' \in Operation /\ Resting
    BY Released, Zenon DEF DeleteFails
  <1>3. QED
    BY <1>1, <1>2, RestingStep, Zenon

LEMMA DeleteSelectStep ==
    ASSUME CacheInv, DeleteSelect
    PROVE  CacheInv'
  <1>1. Deleting /\ op.at = "select"
        /\ UNCHANGED <<rows, blobs, usage, reader, purge, wiped, puts, crashes, serving, drifted, leaked, unsure>>
    BY Zenon DEF DeleteSelect
  <1>2. /\ op.kind \in {"delete", "purge"} /\ op \in Operation /\ ~Writing
        /\ purge \in DOMAIN WipedBy \cup {NoScope}
        /\ blobs \in [Keys -> Blob] /\ leaked \in BOOLEAN /\ serving \in BOOLEAN
        /\ crashes \in 0..MaxCrashes /\ reader \in [Readers -> Reader]
    BY <1>1, DeletingFacts, Zenon
  <1> DEFINE found == {[key |-> k, size |-> rows[k].size] : k \in {k \in op.sel : rows[k].state = "ready"}}
  <1>3. op' = IF found = {} THEN Free ELSE [op EXCEPT !.at = "blobs", !.todo = found]
    BY Zenon DEF DeleteSelect
  <1>4. found \in SUBSET Victim /\ \A e \in found : rows[e.key].size = e.size
    <2>1. op.sel \subseteq Keys
      BY <1>2, Zenon DEF Operation
    <2>2. \A k \in Keys : rows[k].size \in Nat
      BY DEF CacheInv, TypeOK, Row
    <2>3. QED
      BY <2>1, <2>2 DEF Victim
  <1> HIDE DEF found
  <1>5. CASE found = {}
    <2>1. op' \in Operation /\ Resting
      BY <1>3, <1>5, Released, Zenon DEF Release
    <2>2. QED
      BY <1>1, <1>2, <2>1, RestingStep, Zenon
  <1>6. CASE found # {}
    <2>1. op' \in Operation /\ op'.kind = op.kind /\ op'.at = "blobs" /\ op'.todo = found
      <3>1. "blobs" \in Places
        BY DEF Places
      <3>2. QED
        BY <1>2, <1>3, <1>4, <1>6, <3>1, MovedWith, Zenon
    <2>2. HolderInv' /\ PutInv' /\ PutStays
      BY <1>1, <1>2, <2>1, Zenon DEF HolderInv, PlacesOf, PutInv, PutStays
    <2>3. VictimInv'
      BY <1>1, <1>4, <2>1 DEF VictimInv
    <2>4. QED
      BY <1>1, <1>2, <2>1, <2>2, <2>3, RowsKeptStep, Zenon
  <1>7. QED
    BY <1>5, <1>6, Zenon

LEMMA DeleteBlobsStep ==
    ASSUME CacheInv, DeleteBlobs
    PROVE  CacheInv'
  <1>1. Deleting /\ op.at = "blobs"
        /\ UNCHANGED <<rows, usage, reader, wiped, puts, crashes, serving, drifted, leaked, unsure>>
    BY Zenon DEF DeleteBlobs
  <1>2. /\ op.kind \in {"delete", "purge"} /\ op \in Operation /\ ~Writing
        /\ purge \in DOMAIN WipedBy \cup {NoScope}
        /\ blobs \in [Keys -> Blob] /\ leaked \in BOOLEAN /\ serving \in BOOLEAN
        /\ crashes \in 0..MaxCrashes /\ reader \in [Readers -> Reader]
        /\ \A e \in op.todo : e.key \in Keys /\ e.size \in Nat
    BY <1>1, DeletingFacts, Zenon
  <1>3. PICK gone \in SUBSET {e.key : e \in op.todo} :
          /\ blobs' = [k \in Keys |-> IF k \in gone THEN NoBlob ELSE blobs[k]]
          /\ \/ gone = {e.key : e \in op.todo} /\ op' = [op EXCEPT !.at = "rows"] /\ UNCHANGED purge
             \/ DeleteFails
    BY Zenon DEF DeleteBlobs
  <1>4. blobs' \in [Keys -> Blob] /\ \A k \in Keys : blobs'[k] = blobs[k] \/ blobs'[k] = NoBlob
    BY <1>2, <1>3, ConstantTypes, Zenon
  <1>5. CASE DeleteFails
    BY <1>1, <1>4, <1>5, DeleteFailsStep, Zenon
  <1>6. CASE gone = {e.key : e \in op.todo} /\ op' = [op EXCEPT !.at = "rows"] /\ UNCHANGED purge
    <2>1. op' \in Operation /\ op'.at = "rows" /\ op'.kind = op.kind /\ op'.todo = op.todo
      BY <1>2, <1>6, Moved, Zenon DEF Places
    <2>2. HolderInv' /\ PutInv' /\ PutStays
      BY <1>2, <1>6, <2>1 DEF HolderInv, PlacesOf, PutInv, PutStays
    <2>3. \A e \in op.todo : blobs'[e.key] = NoBlob
      BY <1>2, <1>3, <1>6, Zenon
    <2>4. \A e \in op.todo : rows[e.key].state = "ready" => rows[e.key].size = e.size
      BY <1>1, Zenon DEF CacheInv, VictimInv
    <2>5. VictimInv'
      BY <1>1, <2>1, <2>3, <2>4, Zenon DEF VictimInv
    <2>6. QED
      BY <1>1, <1>2, <1>4, <2>1, <2>2, <2>5, RowsKeptStep, Zenon
  <1>7. QED
    BY <1>3, <1>5, <1>6, Zenon

LEMMA DeleteRowStep ==
    ASSUME CacheInv, DeleteRow
    PROVE  CacheInv'
  <1>1. Deleting /\ op.at = "rows" /\ UNCHANGED <<blobs, reader, wiped, puts, crashes, serving, drifted, leaked, unsure>>
    BY Zenon DEF DeleteRow
  <1>2. /\ op.kind \in {"delete", "purge"} /\ op \in Operation /\ ~Writing
        /\ purge \in DOMAIN WipedBy \cup {NoScope} /\ blobs \in [Keys -> Blob]
        /\ \A e \in op.todo : e.key \in Keys /\ e.size \in Nat
    BY <1>1, DeletingFacts, Zenon
  <1>3. CASE DeleteFails /\ UNCHANGED <<rows, usage>>
    BY <1>1, <1>2, <1>3, DeleteFailsStep, Zenon
  <1>4. ASSUME NEW e \in op.todo, Remove(e.key, e.size), UNCHANGED purge,
               op' = [op EXCEPT !.todo = @ \ {e}, !.at = IF op.todo = {e} THEN "select" ELSE "rows"]
        PROVE  CacheInv'
    <2>1. op' \in Operation /\ op'.kind = op.kind /\ op'.at \in {"select", "rows"} /\ op'.todo = op.todo \ {e}
      BY <1>2, <1>4, Zenon DEF Operation, Places
    <2>2. HolderInv' /\ PutInv' /\ PutStays
      BY <1>2, <1>4, <2>1 DEF HolderInv, PlacesOf, PutInv, PutStays
    <2>3. \A f \in op.todo : blobs[f.key] = NoBlob /\ (rows[f.key].state = "ready" => rows[f.key].size = f.size)
      BY <1>1 DEF CacheInv, VictimInv
    <2>4. \A k \in Keys : rows'[k] = rows[k] \/ rows'[k].state = "none"
      BY <1>2, <1>4, ConstantTypes, Zenon DEF Remove, CacheInv, TypeOK
    <2>5. VictimInv'
      BY <1>1, <1>2, <2>1, <2>3, <2>4, Zenon DEF VictimInv
    <2>6. QED
      BY <1>1, <1>2, <1>4, <2>1, <2>2, <2>3, <2>5, RemovalStep, Zenon
  <1>5. QED
    BY <1>3, <1>4, Zenon DEF DeleteRow

LEMMA PurgeUsageStep ==
    ASSUME CacheInv, PurgeUsage
    PROVE  CacheInv'
  <1>1. UNCHANGED <<rows, blobs, op, reader, puts, crashes, serving, drifted, leaked, unsure>> /\ purge' = NoScope
        /\ usage' = [s \in Scopes |-> IF s \in WipedBy[purge] THEN 0 ELSE usage[s]]
        /\ wiped' = wiped \cup WipedBy[purge]
    BY Zenon DEF PurgeUsage
  <1>2. WipedBy[purge] \subseteq Scopes
    BY TileCacheAssumption, Zenon DEF PurgeUsage, CacheInv, HolderInv
  <1>3. usage' \in [Scopes -> Nat] /\ wiped \subseteq wiped'
        /\ \A s \in Scopes : usage'[s] <= usage[s] /\ (s \notin wiped' => usage'[s] = usage[s])
    BY <1>1 DEF CacheInv, TypeOK
  <1>4. TypeOK'
    BY <1>1, <1>2, <1>3, Zenon DEF CacheInv, TypeOK
  <1>5. VictimInv' /\ PutInv' /\ LeftInv' /\ StoredFinite' /\ PayloadsListed' /\ EntryMatchesPayload' /\ PutStays
    BY <1>1, HolderWaits, Zenon
  <1>6. HolderInv'
    BY <1>1 DEF CacheInv, HolderInv
  <1>7. VersionInv' /\ ReaderInv'
    BY <1>1, Zenon DEF CacheInv, VersionInv, ReaderInv
  <1>8. CountersExact'
    BY <1>1, <1>3, BytesSame, Zenon DEF CacheInv, CountersExact
  <1>9. QuotaInv'
    BY <1>1, <1>3, <1>5, QuotaKept, Zenon
  <1>10. QED
    BY <1>4, <1>5, <1>6, <1>7, <1>8, <1>9, Zenon DEF CacheInv

-----------------------------------------------------------------------------
(* Get and Exists keep the invariant. *)

(* A reader's own steps. *)
LEMMA ReaderMoves ==
    ASSUME CacheInv, NEW r \in Readers, NEW x \in Reader, reader' = [reader EXCEPT ![r] = x],
           UNCHANGED <<rows, blobs, usage, op, purge, wiped, puts, crashes, serving, drifted, leaked, unsure>>,
           x.row.ver <= puts /\ (op.kind = "put" => x.row.ver < puts),
           x.at # "idle" => x.key \in Keys /\ x.row.state = "ready",
           x.at = "repair" => blobs[x.key] = NoBlob
    PROVE  CacheInv'
  <1>1. reader' \in [Readers -> Reader] /\ reader'[r] = x /\ \A q \in Readers \ {r} : reader'[q] = reader[q]
    BY Zenon DEF CacheInv, TypeOK
  <1>2. TypeOK'
    BY <1>1 DEF CacheInv, TypeOK
  <1>3. VictimInv' /\ PutInv' /\ LeftInv' /\ StoredFinite' /\ PayloadsListed' /\ EntryMatchesPayload' /\ PutStays
    BY HolderWaits, Zenon
  <1>4. HolderInv'
    BY Zenon DEF CacheInv, HolderInv
  <1>5. VersionInv'
    BY <1>1, Zenon DEF CacheInv, VersionInv
  <1>6. ReaderInv'
    BY <1>1 DEF CacheInv, ReaderInv
  <1>7. CountersExact'
    BY BytesSame, Zenon DEF CacheInv, CountersExact
  <1>8. QuotaInv'
    BY Zenon DEF CacheInv, QuotaInv, Fits, InScope, Delta
  <1>9. QED
    BY <1>2, <1>3, <1>4, <1>5, <1>6, <1>7, <1>8, Zenon DEF CacheInv

LEMMA ReadRowStep ==
    ASSUME CacheInv, NEW r \in Readers, NEW k \in Keys, ReadRow(r, k)
    PROVE  CacheInv'
  <1> DEFINE x == [at |-> "blob", key |-> k, row |-> rows[k]]
  <1>1. x \in Reader /\ x.at = "blob" /\ x.key = k /\ x.row = rows[k]
    BY Zenon DEF CacheInv, TypeOK, Reader
  <1>2. reader' = [reader EXCEPT ![r] = x] /\ rows[k].state = "ready"
        /\ UNCHANGED <<rows, blobs, usage, op, purge, wiped, puts, crashes, serving, drifted, leaked, unsure>>
    BY Zenon DEF ReadRow
  <1> HIDE DEF x
  <1>3. x.row.ver <= puts /\ (op.kind = "put" => x.row.ver < puts)
    BY <1>1, <1>2, Zenon DEF CacheInv, VersionInv
  <1>4. QED
    BY <1>1, <1>2, <1>3, ReaderMoves, Zenon

LEMMA ReadBlobStep ==
    ASSUME CacheInv, NEW r \in Readers, ReadBlob(r)
    PROVE  CacheInv'
  <1>1. reader[r].at = "blob" /\ reader[r] \in Reader /\ reader \in [Readers -> Reader]
        /\ UNCHANGED <<rows, blobs, usage, op, purge, wiped, puts, crashes, serving, drifted, leaked, unsure>>
    BY DEF ReadBlob, CacheInv, TypeOK
  <1>2. puts \in Nat /\ (op.kind = "put" => puts > 0)
    BY TileCacheAssumption DEF CacheInv, TypeOK, HolderInv
  <1>3. CASE blobs[reader[r].key] = NoBlob
    <2> DEFINE x == [reader[r] EXCEPT !.at = "repair"]
    <2>1. x \in Reader /\ x.at = "repair" /\ x.key = reader[r].key /\ x.row = reader[r].row
      BY <1>1, Zenon DEF Reader
    <2>2. reader' = [reader EXCEPT ![r] = x]
      BY <1>1, <1>3 DEF ReadBlob
    <2> HIDE DEF x
    <2>3. reader[r].key \in Keys /\ reader[r].row.state = "ready"
      BY <1>1, Zenon DEF CacheInv, ReaderInv
    <2>4. reader[r].row.ver <= puts /\ (op.kind = "put" => reader[r].row.ver < puts)
      BY Zenon DEF CacheInv, VersionInv
    <2>5. QED
      BY <1>1, <1>3, <2>1, <2>2, <2>3, <2>4, ReaderMoves, Zenon
  <1>4. CASE blobs[reader[r].key] # NoBlob
    <2> DEFINE x == [at |-> "idle", key |-> "none", row |-> NoRow]
    <2>1. x \in Reader /\ x.at = "idle" /\ x.row = NoRow
      BY ConstantTypes DEF Reader
    <2>2. reader' = [reader EXCEPT ![r] = x]
      BY <1>4, Zenon DEF ReadBlob
    <2> HIDE DEF x
    <2>3. x.row.ver <= puts /\ (op.kind = "put" => x.row.ver < puts)
      BY <1>2, <2>1, ConstantTypes
    <2>4. QED
      BY <1>1, <2>1, <2>2, <2>3, ReaderMoves, Zenon
  <1>5. QED
    BY <1>3, <1>4

LEMMA ReadRepairStep ==
    ASSUME CacheInv, NEW r \in Readers, ReadRepair(r)
    PROVE  CacheInv'
  <1> DEFINE x == [at |-> "idle", key |-> "none", row |-> NoRow]
             k == reader[r].key
  <1>1. reader[r].at = "repair" /\ op = Free /\ op' = op /\ reader' = [reader EXCEPT ![r] = x]
        /\ UNCHANGED <<blobs, purge, wiped, puts, crashes, serving, leaked, unsure>>
        /\ drifted' = (drifted \/ (rows' # rows /\ rows[k] # reader[r].row))
    BY Zenon DEF ReadRepair
  <1>2. x \in Reader /\ x.at = "idle" /\ x.row = NoRow
    BY ConstantTypes DEF Reader
  <1> HIDE DEF x
  <1>3. reader' \in [Readers -> Reader]
        /\ \A q \in Readers : reader'[q] = reader[q] \/ (reader'[q].at = "idle" /\ reader'[q].row = NoRow)
    BY <1>1, <1>2, Zenon DEF CacheInv, TypeOK
  <1>4. op' \in Operation /\ Resting /\ ~Writing
    BY <1>1, ConstantTypes DEF Resting, Writing
  <1>5. purge' \in DOMAIN WipedBy \cup {NoScope}
    BY <1>1, Zenon DEF CacheInv, HolderInv
  <1>6. HolderInv' /\ VictimInv' /\ PutInv' /\ PutStays /\ op'.at \notin {"undoRow", "row"}
    BY <1>4, <1>5, RestingHolder, Zenon
  <1>7. k \in Keys /\ reader[r].row.state = "ready" /\ reader[r].row.size \in Nat
    BY <1>1 DEF CacheInv, ReaderInv, TypeOK, Reader, Row
  <1>8. CASE UNCHANGED <<rows, usage>>
    <2>1. drifted' = drifted
      BY <1>1, <1>8, Zenon DEF CacheInv, TypeOK
    <2>2. blobs' \in [Keys -> Blob] /\ crashes' \in 0..MaxCrashes /\ serving' \in BOOLEAN /\ leaked' \in BOOLEAN
      BY <1>1 DEF CacheInv, TypeOK
    <2>3. QED
      BY <1>1, <1>3, <1>4, <1>6, <1>8, <2>1, <2>2, RowsKeptStep, Zenon
  <1>9. CASE Remove(k, reader[r].row.size)
    <2>1. drifted' \in BOOLEAN /\ (drifted => drifted')
      BY <1>1, Zenon
    <2>2. ASSUME ~drifted'
          PROVE  /\ rows[k].state = "ready" => rows[k].size = reader[r].row.size
                 /\ blobs[k] = NoBlob \/ leaked \/ k \in unsure
      <3>1. CASE rows[k] = reader[r].row
        BY <1>1, <3>1, Zenon DEF CacheInv, ReaderInv
      <3>2. CASE rows[k] # reader[r].row
        <4>1. rows' = rows /\ ~drifted
          BY <1>1, <2>2, <3>2, Zenon
        <4>2. rows[k] = NoRow
          BY <1>7, <1>9, <4>1, Zenon DEF Remove, CacheInv, TypeOK
        <4>3. rows[k].state = "none"
          BY <4>2, ConstantTypes
        <4>4. QED
          BY <1>7, <4>1, <4>3, Zenon DEF CacheInv, PayloadsListed
      <3>3. QED
        BY <3>1, <3>2, Zenon
    <2> HIDE DEF k
    <2>3. QED
      BY <1>1, <1>3, <1>4, <1>6, <1>7, <1>9, <2>1, <2>2, RemovalKeeps, Zenon
  <1>10. QED
    BY <1>8, <1>9, Zenon DEF ReadRepair

-----------------------------------------------------------------------------
(* reconcile and a restart keep the invariant. *)

LEMMA ReconcileBeginStep ==
    ASSUME CacheInv, ReconcileBegin
    PROVE  CacheInv'
  <1>1. op' = [Free EXCEPT !.kind = "reconcile", !.at = "blob"] /\ op = Free
        /\ UNCHANGED <<rows, blobs, usage, reader, purge, wiped, puts, crashes, serving, drifted, leaked, unsure>>
    BY DEF ReconcileBegin
  <1>2. op' \in Operation /\ op'.kind = "reconcile" /\ op'.at = "blob"
    BY <1>1, ConstantTypes, Zenon DEF Free, Operation, Places
  <1>3. Resting /\ ~Writing
    BY <1>1, <1>2, ConstantTypes, Zenon DEF Resting, Writing
  <1>4. serving' \in BOOLEAN /\ leaked' \in BOOLEAN /\ blobs' \in [Keys -> Blob]
        /\ purge' \in DOMAIN WipedBy \cup {NoScope}
    BY <1>1 DEF CacheInv, TypeOK, HolderInv
  <1>5. QED
    BY <1>1, <1>2, <1>3, <1>4, RestingStep, Zenon

LEMMA ReconcileBlobStep ==
    ASSUME CacheInv, NEW k \in Keys, ReconcileBlob(k)
    PROVE  CacheInv'
  <1>1. op.kind = "reconcile" /\ op.at = "blob" /\ op \in Operation /\ ~Writing
        /\ purge \in DOMAIN WipedBy \cup {NoScope} /\ rows[k].state = "pending"
        /\ blobs \in [Keys -> Blob] /\ leaked \in BOOLEAN
    BY DEF ReconcileBlob, CacheInv, HolderInv, TypeOK, Writing
  <1>2. UNCHANGED <<rows, usage, reader, purge, wiped, puts, crashes, serving, drifted, unsure>>
        /\ op' = [op EXCEPT !.at = "row", !.key = k]
    BY DEF ReconcileBlob
  <1>3. serving' \in BOOLEAN /\ crashes' \in 0..MaxCrashes /\ reader' \in [Readers -> Reader]
    BY <1>2 DEF CacheInv, TypeOK
  <1>4. op' \in Operation /\ op'.at = "row" /\ op'.kind = "reconcile" /\ op'.key = k
    BY <1>1, <1>2, Zenon DEF Operation, Places
  <1>5. blobs' \in [Keys -> Blob] /\ (\A j \in Keys : blobs'[j] = blobs[j] \/ blobs'[j] = NoBlob)
        /\ leaked' \in BOOLEAN /\ (leaked => leaked') /\ (leaked' \/ blobs'[k] = NoBlob)
    BY <1>1, ConstantTypes, Zenon DEF ReconcileBlob, DeleteBlob
  <1>6. HolderInv' /\ VictimInv' /\ PutInv' /\ PutStays
    BY <1>1, <1>2, <1>4 DEF HolderInv, PlacesOf, VictimInv, PutInv, PutStays
  <1>7. QED
    BY <1>1, <1>2, <1>3, <1>4, <1>5, <1>6, RowsKeptStep, Zenon

LEMMA ReconcileRowStep ==
    ASSUME CacheInv, ReconcileRow
    PROVE  CacheInv'
  <1>1. op.kind = "reconcile" /\ op.at = "row" /\ op \in Operation /\ ~Writing
        /\ purge \in DOMAIN WipedBy \cup {NoScope} /\ op.key \in Keys /\ rows[op.key].state = "pending"
        /\ rows[op.key].size \in Nat
    BY DEF ReconcileRow, CacheInv, HolderInv, TypeOK, Row, Writing
  <1>2. UNCHANGED <<blobs, reader, purge, wiped, puts, crashes, serving, drifted, leaked, unsure>>
    BY Zenon DEF ReconcileRow
  <1>3. serving' \in BOOLEAN /\ leaked' \in BOOLEAN /\ blobs' \in [Keys -> Blob]
    BY <1>2 DEF CacheInv, TypeOK
  <1>4. ASSUME op' = [op EXCEPT !.at = "blob"]
        PROVE  op' \in Operation /\ Resting
    <2>1. op' \in Operation /\ op'.kind = "reconcile" /\ op'.at = "blob"
      BY <1>1, <1>4, Moved, Zenon DEF Places
    <2>2. QED
      BY <2>1 DEF Resting
  <1>5. ASSUME op' = Free
        PROVE  op' \in Operation /\ Resting
    BY <1>5, Released DEF Release
  <1>6. CASE (op' = IF serving THEN Free ELSE [op EXCEPT !.at = "blob"]) /\ UNCHANGED <<rows, usage>>
    <2>1. op' \in Operation /\ Resting
      BY <1>4, <1>5, <1>6, Zenon
    <2>2. QED
      BY <1>1, <1>2, <1>3, <1>6, <2>1, RestingStep, Zenon
  <1>7. CASE Remove(op.key, rows[op.key].size) /\ op' = [op EXCEPT !.at = "blob"]
    <2>1. op' \in Operation /\ Resting
      BY <1>4, <1>7, Zenon
    <2>2. HolderInv' /\ VictimInv' /\ PutInv' /\ PutStays /\ op'.at \notin {"undoRow", "row"}
      BY <1>1, <1>2, <2>1, RestingHolder, Zenon
    <2>3. blobs[op.key] = NoBlob \/ leaked
      BY <1>1, Zenon DEF CacheInv, LeftInv
    <2>4. QED
      BY <1>1, <1>2, <1>7, <2>1, <2>2, <2>3, RemovalStep, Zenon
  <1>8. QED
    BY <1>6, <1>7, Zenon DEF ReconcileRow

LEMMA ReconcileEndStep ==
    ASSUME CacheInv, ReconcileEnd
    PROVE  CacheInv'
  <1>1. op.kind = "reconcile" /\ ~Writing /\ purge \in DOMAIN WipedBy \cup {NoScope}
        /\ \A k \in Keys : rows[k].state # "pending"
    BY Zenon DEF ReconcileEnd, CacheInv, HolderInv, Writing
  <1>2. Release /\ serving' = TRUE
        /\ UNCHANGED <<rows, blobs, usage, reader, purge, wiped, puts, crashes, drifted, leaked, unsure>>
    BY Zenon DEF ReconcileEnd
  <1>3. leaked' \in BOOLEAN /\ blobs' \in [Keys -> Blob]
    BY <1>2 DEF CacheInv, TypeOK
  <1>4. op' \in Operation /\ Resting
    BY <1>2, Released, Zenon
  <1>5. QED
    BY <1>1, <1>2, <1>3, <1>4, RestingStep, Zenon

LEMMA CrashStep ==
    ASSUME CacheInv, Crash
    PROVE  CacheInv'
  <1> DEFINE x == [at |-> "idle", key |-> "none", row |-> NoRow]
  <1>1. op' = [Free EXCEPT !.kind = "reconcile", !.at = "blob"] /\ purge' = NoScope /\ serving' = FALSE
        /\ reader' = [r \in Readers |-> x]
        /\ UNCHANGED <<rows, blobs, usage, wiped, puts, drifted, leaked, unsure>>
    BY DEF Crash
  <1>2. crashes' \in 0..MaxCrashes
    BY TileCacheAssumption DEF Crash, CacheInv, TypeOK
  <1>3. x \in Reader /\ x.at = "idle" /\ x.row = NoRow
    BY ConstantTypes DEF Reader
  <1> HIDE DEF x
  <1>4. reader' \in [Readers -> Reader]
        /\ \A r \in Readers : reader'[r] = reader[r] \/ (reader'[r].at = "idle" /\ reader'[r].row = NoRow)
    BY <1>1, <1>3
  <1>5. op' \in Operation /\ op'.kind = "reconcile" /\ op'.at = "blob"
    BY <1>1, ConstantTypes, Zenon DEF Free, Operation, Places
  <1>6. HolderInv' /\ VictimInv' /\ PutInv' /\ PutStays /\ op'.at \notin {"undoRow", "row"}
    BY <1>1, <1>5, RestingHolder DEF Resting
  <1>7. leaked' \in BOOLEAN /\ blobs' \in [Keys -> Blob]
    BY <1>1 DEF CacheInv, TypeOK
  <1>8. QED
    BY <1>1, <1>2, <1>4, <1>5, <1>6, <1>7, RowsKeptStep, Zenon

-----------------------------------------------------------------------------
(* Every step keeps the invariant. *)
LEMMA CacheNext == CacheInv /\ [Next]_vars => CacheInv'
  <1> SUFFICES ASSUME CacheInv, [Next]_vars PROVE CacheInv'
    OBVIOUS
  <1>1. CASE Put
    BY <1>1, PutBeginStep, PutScopeStep, PutEvictStep, PutEvictRowStep, PutPendingStep, PutBlobStep,
       PutRestoreStep, PutReadyStep, PutUndoBlobStep, PutUndoRowStep, Zenon DEF Put
  <1>2. CASE Delete
    BY <1>2, DeleteBeginStep, PurgeBeginStep, DeleteSelectStep, DeleteBlobsStep, DeleteRowStep,
       PurgeUsageStep, Zenon DEF Delete
  <1>3. CASE Read
    BY <1>3, ReadRowStep, ReadBlobStep, ReadRepairStep, Zenon DEF Read
  <1>4. CASE Reconcile
    BY <1>4, ReconcileBeginStep, ReconcileBlobStep, ReconcileRowStep, ReconcileEndStep, Zenon DEF Reconcile
  <1>5. CASE UNCHANGED vars
    <2>1. UNCHANGED <<rows, blobs, usage, op, reader, purge, wiped, puts, crashes, serving, drifted, leaked, unsure>>
      BY <1>5, Zenon DEF vars
    <2>2. VictimInv' /\ PutInv' /\ LeftInv' /\ StoredFinite' /\ PayloadsListed' /\ EntryMatchesPayload'
      BY <2>1, HolderWaits, Zenon
    <2>3. TypeOK'
      BY <2>1 DEF CacheInv, TypeOK
    <2>4. HolderInv' /\ VersionInv' /\ ReaderInv'
      BY <2>1, Zenon DEF CacheInv, HolderInv, VersionInv, ReaderInv
    <2>5. CountersExact'
      BY <2>1, BytesSame DEF CacheInv, CountersExact
    <2>6. QuotaInv'
      BY <2>1, Zenon DEF CacheInv, QuotaInv, Fits, InScope, Delta
    <2>7. QED
      BY <2>2, <2>3, <2>4, <2>5, <2>6, Zenon DEF CacheInv
  <1>6. QED
    BY <1>1, <1>2, <1>3, <1>4, <1>5, CrashStep, Zenon DEF Next

(* The invariant holds in every reachable state. *)
LEMMA CacheInvariant == Spec => []CacheInv
  BY CacheInit, CacheNext, PTL DEF Spec

(* manager.go and index.go: the rows, payloads, counters and operations have *)
(* their types, and no counter falls below zero.                             *)
THEOREM CacheTypesOK == Spec => []TypeOK
  <1>1. CacheInv => TypeOK
    BY Zenon DEF CacheInv
  <1>2. QED
    BY <1>1, CacheInvariant, PTL

(* index.go: the usage counters are the bytes of the ready tiles and no      *)
(* payload is without a row, for any tiles, scopes, quotas and sizes and any *)
(* number of writes, failures and restarts, until a repair removes a row     *)
(* that is newer than the one it had read.                                   *)
THEOREM UsageIsAccurate == Spec => []UsageAccurate
  <1>1. CacheInv => UsageAccurate
    BY DEF CacheInv, CountersExact, PayloadsListed, UsageAccurate
  <1>2. QED
    BY <1>1, CacheInvariant, PTL

(* manager.go: as long as the counters have not drifted, the ready tiles of  *)
(* every scope fit into its quota, whatever is evicted, restored or          *)
(* interrupted.                                                              *)
THEOREM QuotasHold == Spec => []QuotaHeld
  <1>1. CacheInv => QuotaHeld
    BY Zenon DEF CacheInv, CountersExact, QuotaInv, QuotaHeld
  <1>2. QED
    BY <1>1, CacheInvariant, PTL

-----------------------------------------------------------------------------
(* What a reader is served. *)

NotOlder(k, row) == blobs[k] # NoBlob => blobs[k].ver >= row.ver

(***************************************************************************)
(* No payload is older than the ready row of its key, than the row a reader *)
(* holds, or than the row that a failing Put restores.  This holds for the  *)
(* writes that report failure too, so it is an invariant of its own.        *)
(***************************************************************************)
AgeInv ==
    /\ \A k \in Keys : rows[k].state = "ready" => NotOlder(k, rows[k])
    /\ \A r \in Readers : reader[r].at = "blob" => NotOlder(reader[r].key, reader[r].row)
    /\ op.kind = "put" /\ op.at \in {"blob", "restore"} => NotOlder(op.key, op.prev)

(* A payload that a step leaves is as young as the one before. *)
Younger == \A k \in Keys : blobs'[k] = NoBlob \/ blobs'[k] = blobs[k] \/ blobs'[k].ver = puts

(* Steps that make no row ready, and no Put that may restore one. *)
LEMMA AgesKept ==
    ASSUME CacheInv, AgeInv, Younger,
           \A k \in Keys : rows'[k].state = "ready" => rows'[k] = rows[k],
           \A r \in Readers : reader'[r].at = "blob" =>
               \/ reader'[r] = reader[r]
               \/ /\ reader'[r].key \in Keys /\ reader'[r].row = rows[reader'[r].key]
                  /\ rows[reader'[r].key].state = "ready",
           op'.kind = "put" /\ op'.at \in {"blob", "restore"} =>
               op.kind = "put" /\ op.at \in {"pending", "blob", "restore"} /\ op'.key = op.key /\ op'.prev = op.prev
    PROVE  AgeInv'
  <1>1. /\ rows \in [Keys -> Row] /\ blobs \in [Keys -> Blob] /\ reader \in [Readers -> Reader]
        /\ op \in Operation /\ puts \in Nat
    BY DEF CacheInv, TypeOK
  <1>2. ASSUME NEW k \in Keys, NEW row \in Row, NotOlder(k, row), row.ver <= puts
        PROVE  blobs'[k] # NoBlob => blobs'[k].ver >= row.ver
    BY <1>1, <1>2 DEF Younger, NotOlder, Blob, Row
  <1>3. \A k \in Keys : rows'[k].state = "ready" => NotOlder(k, rows[k])'
    <2> SUFFICES ASSUME NEW k \in Keys, rows'[k].state = "ready" PROVE NotOlder(k, rows[k])'
      OBVIOUS
    <2>1. rows'[k] = rows[k] /\ rows[k] \in Row /\ NotOlder(k, rows[k]) /\ rows[k].ver <= puts
      BY <1>1 DEF AgeInv, CacheInv, VersionInv
    <2>2. QED
      BY <1>2, <2>1 DEF NotOlder
  <1>4. \A r \in Readers : reader'[r].at = "blob" => NotOlder(reader[r].key, reader[r].row)'
    <2> SUFFICES ASSUME NEW r \in Readers, reader'[r].at = "blob"
                 PROVE  NotOlder(reader[r].key, reader[r].row)'
      OBVIOUS
    <2>1. /\ reader'[r].key \in Keys /\ reader'[r].row \in Row
          /\ NotOlder(reader'[r].key, reader'[r].row) /\ reader'[r].row.ver <= puts
      <3>1. CASE reader'[r] = reader[r]
        BY <1>1, <3>1 DEF AgeInv, CacheInv, VersionInv, ReaderInv, Reader
      <3>2. CASE /\ reader'[r].key \in Keys /\ reader'[r].row = rows[reader'[r].key]
                 /\ rows[reader'[r].key].state = "ready"
        BY <1>1, <3>2 DEF AgeInv, CacheInv, VersionInv
      <3>3. QED
        BY <3>1, <3>2
    <2>2. QED
      BY <1>2, <2>1 DEF NotOlder
  <1>5. op'.kind = "put" /\ op'.at \in {"blob", "restore"} => NotOlder(op.key, op.prev)'
    <2> SUFFICES ASSUME op'.kind = "put", op'.at \in {"blob", "restore"} PROVE NotOlder(op.key, op.prev)'
      OBVIOUS
    <2>1. /\ op.kind = "put" /\ op.at \in {"pending", "blob", "restore"} /\ op'.key = op.key /\ op'.prev = op.prev
          /\ op.key \in Keys /\ op.prev \in Row /\ op.prev.ver <= puts
      BY <1>1 DEF CacheInv, HolderInv, VersionInv, Operation, Row
    <2>2. NotOlder(op.key, op.prev)
      <3>1. CASE op.at \in {"blob", "restore"}
        BY <2>1, <3>1 DEF AgeInv
      <3>2. CASE op.at = "pending" /\ rows[op.key].state = "ready"
        BY <2>1, <3>2 DEF AgeInv, CacheInv, PutInv
      <3>3. CASE op.at = "pending" /\ rows[op.key].state # "ready"
        <4>1. op.prev = NoRow
          BY <2>1, <3>3 DEF CacheInv, PutInv
        <4>2. QED
          BY <1>1, <2>1, <4>1 DEF NotOlder, NoRow, Blob
      <3>4. QED
        BY <2>1, <3>1, <3>2, <3>3
    <2>3. QED
      BY <1>2, <2>1, <2>2 DEF NotOlder
  <1>6. QED
    BY <1>3, <1>4, <1>5 DEF AgeInv

(* The operation goes on to place a. *)
GoesOn(a) == \/ op' = [op EXCEPT !.at = a]
             \/ \E x : \/ op' = [op EXCEPT !.at = a, !.todo = x]
                       \/ op' = [op EXCEPT !.todo = x, !.at = a]
                       \/ op' = [op EXCEPT !.at = a, !.key = x]

(* What a change of place leaves of the operation. *)
LEMMA GoneOn ==
    ASSUME op \in Operation, NEW a, GoesOn(a)
    PROVE  op'.at = a /\ op'.kind = op.kind /\ op'.prev = op.prev
  <1>1. CASE op' = [op EXCEPT !.at = a]
    BY <1>1, Zenon DEF Operation
  <1>2. ASSUME NEW x, op' = [op EXCEPT !.at = a, !.todo = x]
        PROVE  op'.at = a /\ op'.kind = op.kind /\ op'.prev = op.prev
    BY <1>2, Zenon DEF Operation
  <1>3. ASSUME NEW x, op' = [op EXCEPT !.todo = x, !.at = a]
        PROVE  op'.at = a /\ op'.kind = op.kind /\ op'.prev = op.prev
    BY <1>3, Zenon DEF Operation
  <1>4. ASSUME NEW x, op' = [op EXCEPT !.at = a, !.key = x]
        PROVE  op'.at = a /\ op'.kind = op.kind /\ op'.prev = op.prev
    BY <1>4, Zenon DEF Operation
  <1>5. QED
    BY <1>1, <1>2, <1>3, <1>4, Zenon DEF GoesOn

(* A removal makes no row ready. *)
LEMMA RemovedRows ==
    ASSUME CacheInv, NEW k, NEW n, Remove(k, n)
    PROVE  \A i \in Keys : rows'[i].state = "ready" => rows'[i] = rows[i]
  BY DEF CacheInv, TypeOK, Remove, NoRow

(* Every step of Put keeps the payloads no older than the rows. *)
LEMMA PutAges == CacheInv /\ AgeInv /\ Put => AgeInv'
  <1> SUFFICES ASSUME CacheInv, AgeInv, Put PROVE AgeInv'
    OBVIOUS
  <1>1. /\ rows \in [Keys -> Row] /\ blobs \in [Keys -> Blob] /\ reader \in [Readers -> Reader]
        /\ op \in Operation /\ puts \in Nat
        /\ op.kind = "put" => op.key \in Keys
    BY DEF CacheInv, TypeOK, HolderInv
  <1>2. UNCHANGED reader
    BY Zenon DEF Put, PutBegin, PutScope, PutEvict, PutEvictRow, PutPending, PutBlob, PutRestore, PutReady,
           PutUndoBlob, PutUndoRow
  <1>3. Free.kind = "none"
    BY DEF Free
  <1>a. CASE \E k \in Keys, n \in Sizes : PutBegin(k, n)
    <2>1. UNCHANGED <<rows, blobs>> /\ op'.at \in {"evict", "pending"}
      BY <1>a DEF PutBegin, Free
    <2>2. QED
      BY <1>2, <2>1, AgesKept DEF Younger
  <1>b. CASE PutScope
    <2>1. UNCHANGED <<rows, blobs>> /\ op'.at \in {"evict", "pending"}
      BY <1>1, <1>b DEF PutScope, Operation
    <2>2. QED
      BY <1>2, <2>1, AgesKept DEF Younger
  <1>c. CASE PutEvict
    <2>1. UNCHANGED rows /\ (op'.at = "evictRow" \/ op'.kind = "none")
      <3>1. UNCHANGED rows /\ (GoesOn("evictRow") \/ op' = Free)
        BY <1>c, Zenon DEF PutEvict, Release, GoesOn
      <3>2. QED
        BY <1>1, <1>3, <3>1, GoneOn
    <2>2. Younger
      <3>1. UNCHANGED blobs \/ \E v : DeleteBlob(v)
        BY <1>c, Zenon DEF PutEvict
      <3>2. QED
        BY <1>1, <3>1 DEF Younger, DeleteBlob
    <2>3. QED
      BY <1>2, <2>1, <2>2, AgesKept
  <1>d. CASE PutEvictRow
    <2>1. UNCHANGED blobs /\ (op'.at = "evict" \/ op'.kind = "none")
      <3>1. UNCHANGED blobs /\ (GoesOn("evict") \/ op' = Free)
        BY <1>d, Zenon DEF PutEvictRow, Release, GoesOn
      <3>2. QED
        BY <1>1, <1>3, <3>1, GoneOn
    <2>2. \A i \in Keys : rows'[i].state = "ready" => rows'[i] = rows[i]
      BY <1>d, RemovedRows DEF PutEvictRow
    <2>3. QED
      BY <1>2, <2>1, <2>2, AgesKept DEF Younger
  <1>e. CASE PutPending
    <2>1. UNCHANGED blobs /\ op.at = "pending" /\ op.kind = "put"
      BY <1>e DEF PutPending
    <2>2. op'.kind = "none" \/ (op'.key = op.key /\ op'.prev = op.prev)
      <3>1. op' = [op EXCEPT !.at = "blob"] \/ op' = Free
        BY <1>e, Zenon DEF PutPending, Release
      <3>2. QED
        BY <1>1, <1>3, <3>1, Moved DEF Places
    <2>3. \A i \in Keys : rows'[i].state = "ready" => rows'[i] = rows[i]
      BY <1>1, <1>e DEF PutPending
    <2>4. QED
      BY <1>2, <2>1, <2>2, <2>3, AgesKept DEF Younger
  <1>f. CASE PutBlob
    <2>1. UNCHANGED rows /\ op.at = "blob" /\ op.kind = "put"
      BY <1>f DEF PutBlob
    <2>2. op'.key = op.key /\ op'.prev = op.prev
      <3>1. op' = [op EXCEPT !.at = "ready"] \/ op' = [op EXCEPT !.at = "restore"]
        BY <1>f, Zenon DEF PutBlob
      <3>2. QED
        BY <1>1, <3>1, Moved DEF Places
    <2>3. Younger
      BY <1>1, <1>f DEF PutBlob, Younger
    <2>4. QED
      BY <1>2, <2>1, <2>2, <2>3, AgesKept
  <1>g. CASE PutRestore
    <2>1. UNCHANGED <<blobs, reader>> /\ op'.kind = "none" /\ op.at = "restore" /\ op.kind = "put"
      BY <1>3, <1>g DEF PutRestore, Release
    <2>2. \A k \in Keys : rows'[k].state = "ready" => rows'[k] = rows[k] \/ (k = op.key /\ rows'[k] = op.prev)
      BY <1>1, <1>g DEF PutRestore
    <2>3. \A k \in Keys : rows'[k].state = "ready" => NotOlder(k, rows[k])'
      BY <2>1, <2>2 DEF AgeInv, NotOlder
    <2>4. QED
      BY <2>1, <2>3 DEF AgeInv, NotOlder
  <1>h. CASE PutReady
    <2>1. UNCHANGED <<blobs, reader>> /\ op.at = "ready" /\ op.kind = "put"
      BY <1>h, <1>2 DEF PutReady
    <2>2. op'.kind = "none" \/ op'.at = "undoBlob"
      <3>1. GoesOn("undoBlob") \/ op' = Free
        BY <1>h, Zenon DEF PutReady, Release, GoesOn
      <3>2. QED
        BY <1>1, <1>3, <3>1, GoneOn
    <2>3. blobs[op.key].ver = puts /\ rows[op.key].ver = puts
      BY <2>1 DEF CacheInv, PutInv, Writing
    <2>4. \A k \in Keys : rows'[k].state = "ready" => rows'[k] = rows[k] \/ (k = op.key /\ rows'[k].ver = puts)
      BY <1>1, <1>h, <2>3 DEF PutReady, Row
    <2>5. \A k \in Keys : rows'[k].state = "ready" => NotOlder(k, rows[k])'
      <3> SUFFICES ASSUME NEW k \in Keys, rows'[k].state = "ready" PROVE NotOlder(k, rows[k])'
        OBVIOUS
      <3>1. CASE rows'[k] = rows[k]
        BY <2>1, <3>1 DEF AgeInv, NotOlder
      <3>2. CASE k = op.key /\ rows'[k].ver = puts
        BY <1>1, <2>1, <2>3, <3>2 DEF NotOlder, Blob
      <3>3. QED
        BY <2>4, <3>1, <3>2
    <2>6. QED
      BY <2>1, <2>2, <2>5 DEF AgeInv, NotOlder
  <1>i. CASE PutUndoBlob
    <2>1. UNCHANGED rows /\ op'.at = "undoRow"
      BY <1>1, <1>i DEF PutUndoBlob, Operation
    <2>2. Younger
      BY <1>1, <1>i DEF PutUndoBlob, Younger, DeleteBlob
    <2>3. QED
      BY <1>2, <2>1, <2>2, AgesKept
  <1>j. CASE PutUndoRow
    <2>1. UNCHANGED blobs /\ op'.kind = "none"
      BY <1>3, <1>j DEF PutUndoRow, Release
    <2>2. \A i \in Keys : rows'[i].state = "ready" => rows'[i] = rows[i]
      BY <1>j, RemovedRows DEF PutUndoRow
    <2>3. QED
      BY <1>2, <2>1, <2>2, AgesKept DEF Younger
  <1>k. QED
    BY <1>a, <1>b, <1>c, <1>d, <1>e, <1>f, <1>g, <1>h, <1>i, <1>j DEF Put

(* So does every other step: none of them writes a payload. *)
LEMMA OtherAges == CacheInv /\ AgeInv /\ (Delete \/ Read \/ Reconcile \/ Crash) => AgeInv'
  <1> SUFFICES ASSUME CacheInv, AgeInv, Delete \/ Read \/ Reconcile \/ Crash PROVE AgeInv'
    OBVIOUS
  <1>1. /\ rows \in [Keys -> Row] /\ blobs \in [Keys -> Blob] /\ reader \in [Readers -> Reader]
        /\ op \in Operation
    BY DEF CacheInv, TypeOK
  <1>2. op'.kind = "put" => op' = op
    <2>1. \A b : [Free EXCEPT !.kind = "delete", !.at = "select", !.sel = b].kind = "delete"
      BY DEF Free
    <2>2. \A b : [Free EXCEPT !.kind = "purge", !.at = "select", !.sel = b].kind = "purge"
      BY DEF Free
    <2>3. [Free EXCEPT !.kind = "reconcile", !.at = "blob"].kind = "reconcile" /\ Free.kind = "none"
      BY DEF Free
    <2>4. CASE Delete
      <3>1. CASE (\E sel \in Selectors : DeleteBegin(sel)) \/ (\E s \in DOMAIN WipedBy : PurgeBegin(s))
        BY <2>1, <2>2, <3>1, Zenon DEF DeleteBegin, PurgeBegin
      <3>2. CASE DeleteSelect
        <4>1. op.kind # "put" /\ (GoesOn("blobs") \/ op' = Free)
          BY <3>2, Zenon DEF DeleteSelect, Deleting, DeleteFails, Release, GoesOn
        <4>2. QED
          BY <1>1, <2>3, <4>1, GoneOn
      <3>3. CASE DeleteBlobs
        <4>1. op.kind # "put" /\ (GoesOn("rows") \/ op' = Free)
          BY <3>3, Zenon DEF DeleteBlobs, Deleting, DeleteFails, Release, GoesOn
        <4>2. QED
          BY <1>1, <2>3, <4>1, GoneOn
      <3>4. CASE DeleteRow
        <4>1. op.kind # "put" /\ (GoesOn("rows") \/ GoesOn("select") \/ op' = Free)
          BY <3>4, Zenon DEF DeleteRow, Deleting, DeleteFails, Release, GoesOn
        <4>2. QED
          BY <1>1, <2>3, <4>1, GoneOn
      <3>5. CASE PurgeUsage
        BY <3>5, Zenon DEF PurgeUsage
      <3>6. QED
        BY <2>4, <3>1, <3>2, <3>3, <3>4, <3>5, Zenon DEF Delete
    <2>5. CASE Read
      BY <2>5, Zenon DEF Read, ReadRow, ReadBlob, ReadRepair
    <2>6. CASE Reconcile
      <3>1. CASE ReconcileBegin
        BY <2>3, <3>1, Zenon DEF ReconcileBegin
      <3>2. CASE (\E k \in Keys : ReconcileBlob(k)) \/ ReconcileRow \/ ReconcileEnd
        <4>1. op.kind # "put" /\ (GoesOn("row") \/ GoesOn("blob") \/ op' = Free)
          BY <3>2, Zenon DEF ReconcileBlob, ReconcileRow, ReconcileEnd, Release, GoesOn
        <4>2. QED
          BY <1>1, <2>3, <4>1, GoneOn
      <3>3. QED
        BY <2>6, <3>1, <3>2 DEF Reconcile
    <2>7. CASE Crash
      BY <2>3, <2>7, Zenon DEF Crash
    <2>8. QED
      BY <2>4, <2>5, <2>6, <2>7
  <1>3. Younger
    <2>1. \/ UNCHANGED blobs \/ \E v : DeleteBlob(v)
          \/ \E gone : blobs' = [k \in Keys |-> IF k \in gone THEN NoBlob ELSE blobs[k]]
      BY Zenon
      DEF Delete, DeleteBegin, PurgeBegin, DeleteSelect, DeleteBlobs, DeleteRow, PurgeUsage, Read, ReadRow, ReadBlob,
          ReadRepair, Reconcile, ReconcileBegin, ReconcileBlob, ReconcileRow, ReconcileEnd, Crash
    <2>2. QED
      BY <1>1, <2>1 DEF Younger, DeleteBlob
  <1>4. \A k \in Keys : rows'[k].state = "ready" => rows'[k] = rows[k]
    <2>1. UNCHANGED rows \/ \E k, n : Remove(k, n)
      BY Zenon DEF Delete, DeleteBegin, PurgeBegin, DeleteSelect, DeleteBlobs, DeleteRow, PurgeUsage,
        Read, ReadRow, ReadBlob, ReadRepair, Reconcile, ReconcileBegin, ReconcileBlob, ReconcileRow, ReconcileEnd, Crash
    <2>2. QED
      BY <2>1, RemovedRows
  <1>5. \A r \in Readers : reader'[r].at = "blob" =>
            \/ reader'[r] = reader[r]
            \/ /\ reader'[r].key \in Keys /\ reader'[r].row = rows[reader'[r].key]
               /\ rows[reader'[r].key].state = "ready"
    <2>1. CASE Delete \/ Reconcile
      BY <2>1, Zenon DEF Delete, DeleteBegin, PurgeBegin, DeleteSelect, DeleteBlobs, DeleteRow, PurgeUsage,
        Reconcile, ReconcileBegin, ReconcileBlob, ReconcileRow, ReconcileEnd
    <2>2. CASE Read
      BY <1>1, <2>2 DEF Read, ReadRow, ReadBlob, ReadRepair, Reader
    <2>3. CASE Crash
      BY <2>3 DEF Crash
    <2>4. QED
      BY <2>1, <2>2, <2>3
  <1>6. QED
    BY <1>2, <1>3, <1>4, <1>5, AgesKept

(* manager.go, Get: the bytes that a reader is served are never older than   *)
(* the row it has read, and are that row's own while the row is current,     *)
(* unless a write that reported failure took effect.                         *)
THEOREM ServedPayloads == Spec => []ServedPayload
  <1>1. Init => AgeInv
    BY DEF Init, AgeInv, NotOlder, NoRow, Free
  <1>2. CacheInv /\ AgeInv /\ [Next]_vars => AgeInv'
    <2>1. CacheInv /\ AgeInv /\ UNCHANGED vars => AgeInv'
      BY DEF AgeInv, NotOlder, vars
    <2>2. QED
      BY <2>1, PutAges, OtherAges DEF Next
  <1>3. CacheInv /\ AgeInv => ServedPayload
    <2> SUFFICES ASSUME CacheInv, AgeInv, NEW r \in Readers, reader[r].at = "blob", blobs[reader[r].key] # NoBlob
                 PROVE  /\ blobs[reader[r].key].ver >= reader[r].row.ver
                        /\ rows[reader[r].key] = reader[r].row /\ reader[r].key \notin unsure =>
                               blobs[reader[r].key] = [size |-> reader[r].row.size, ver |-> reader[r].row.ver]
      BY Zenon DEF ServedPayload
    <2>1. blobs[reader[r].key].ver >= reader[r].row.ver
      BY DEF AgeInv, NotOlder
    <2>2. reader[r].key \in Keys /\ reader[r].row.state = "ready"
      BY DEF CacheInv, ReaderInv
    <2>3. QED
      BY <2>1, <2>2 DEF CacheInv, EntryMatchesPayload
  <1>4. QED
    BY <1>1, <1>2, <1>3, CacheInvariant, PTL DEF Spec
=============================================================================
