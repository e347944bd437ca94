------------------------------ MODULE WFSLocks ------------------------------
(***************************************************************************)
(* WFS feature locks and the transactions they guard, of one workspace:     *)
(* internal/wfs/locking.go, write_gate.go, runtime.go and the handlers of   *)
(* transaction.go, over the rows of internal/store/store_wfs_locks.go.      *)
(* Every client is a principal of its own and sends one request at a time.  *)
(* The data write barrier around a transaction is DataBarrier's.            *)
(***************************************************************************)
EXTENDS Integers, FiniteSets

CONSTANTS
    Clients, Features,
    Writers,      \* the clients that send transactions
    None,
    MaxGrants,    \* bound: locks that are acquired
    MaxLocks,     \* MaxLocksPerWorkspace
    MaxPerOwner,  \* MaxLocksPerPrincipal
    MaxFaults,    \* bound: failing statements of the catalog
    MaxCrashes    \* bound: restarts of the server

ASSUME LocksAssumption ==
    /\ Writers \subseteq Clients
    /\ None \notin Clients \cup Nat /\ MaxGrants \in Nat
    /\ MaxLocks \in Nat /\ MaxPerOwner \in Nat /\ MaxFaults \in Nat /\ MaxCrashes \in Nat

Locks == 1 .. MaxGrants

VARIABLES
    mem,      \* LockStore.locks
    rows,     \* wfs_locks
    cover,    \* the features of a lock
    owner,    \* the principal of a lock
    expired,  \* locks whose time is over
    gate,     \* who holds the workspace's write gate
    req,      \* the request of a client
    up,       \* the server runs
    clearing, \* a deletion is between the two halves of ClearWorkspace
    held,     \* history: granted, not given back, not over
    dropped,  \* history: cleared by a deletion, or not loaded by a start
    faults, crashes

vars == <<mem, rows, cover, owner, expired, gate, req, up, clearing, held, dropped, faults, crashes>>

NoRequest == [pc |-> "idle", lock |-> None, ids |-> {}]

Init ==
    /\ mem = {} /\ rows = {}
    /\ cover = [l \in Locks |-> {}] /\ owner = [l \in Locks |-> None]
    /\ expired = {} /\ gate = None
    /\ req = [c \in Clients |-> NoRequest]
    /\ up = TRUE /\ clearing = FALSE
    /\ held = {} /\ dropped = {} /\ faults = 0 /\ crashes = 0

Fault == faults < MaxFaults /\ faults' = faults + 1

At(c, pc) == up /\ req[c].pc = pc

(* A request ends; its answer says what became of it. *)
Answer(c) == req' = [req EXCEPT ![c] = NoRequest]

Live == mem \ expired

(* isFeatureLockedLocked *)
Locked(f) == \E l \in Live : f \in cover[l]

(* Identifiers are new every time. *)
Fresh(l) == l = 1 + Cardinality({k \in Locks : owner[k] # None})

(* Bound: every waiting LockFeature finds an identifier. *)
IdLeft == Cardinality({l \in Locks : owner[l] = None}) > Cardinality({c \in Clients : req[c].pc = "lock"})

-----------------------------------------------------------------------------
(* LockFeature and GetFeatureWithLock *)

(* The features are queried before the gate is entered. A lock on nothing,  *)
(* which a query without a hit gives, is left out.                          *)
LockQuery(c, ids) ==
    /\ At(c, "idle") /\ ids # {} /\ IdLeft
    /\ req' = [req EXCEPT ![c] = [NoRequest EXCEPT !.pc = "lock", !.ids = ids]]
    /\ UNCHANGED <<mem, rows, cover, owner, expired, gate, up, clearing, held, dropped, faults, crashes>>

(* cleanExpiredLocked *)
Sweep == mem' = Live

OverQuota(c) ==
    \/ Cardinality(Live) >= MaxLocks
    \/ Cardinality({l \in Live : owner[l] = c}) >= MaxPerOwner

Taken(c) == {f \in req[c].ids : Locked(f)}

(* lockAction ALL is refused when a feature is locked. *)
Refused(c, all) == OverQuota(c) \/ (all /\ Taken(c) # {})

(* Mutant: features that are locked are granted again. *)
GrantedTwice(c) == req[c].ids

(* With lockAction SOME the features that are locked are left out. *)
Granted(c) == req[c].ids \ Taken(c)

(* Mutant: an acquired lock stays in memory only. *)
AcquireUnsaved(c, l, all) ==
    /\ At(c, "lock") /\ gate = None /\ ~Refused(c, all) /\ Fresh(l)
    /\ cover' = [cover EXCEPT ![l] = Granted(c)]
    /\ owner' = [owner EXCEPT ![l] = c]
    /\ mem' = Live \cup {l} /\ held' = held \cup {l}
    /\ Answer(c)
    /\ UNCHANGED <<rows, expired, gate, up, clearing, dropped, faults, crashes>>

(* AcquireLockOwnedContext holds the gate and the mutex from the sweep to   *)
(* the row: other requests see it as one step.                              *)
Acquire(c, l, all) ==
    /\ At(c, "lock") /\ gate = None /\ ~Refused(c, all) /\ Fresh(l)
    /\ cover' = [cover EXCEPT ![l] = Granted(c)]
    /\ owner' = [owner EXCEPT ![l] = c]
    /\ \/ /\ mem' = Live \cup {l} /\ rows' = rows \cup {l} /\ held' = held \cup {l}
          /\ UNCHANGED faults
       \/ /\ Fault                          \* persisted or not, the entry goes
          /\ rows' \in {rows, rows \cup {l}}
          /\ mem' = Live /\ UNCHANGED held
    /\ Answer(c)
    /\ UNCHANGED <<expired, gate, up, clearing, dropped, crashes>>

AcquireRefused(c, all) ==
    /\ At(c, "lock") /\ gate = None /\ Refused(c, all)
    /\ Sweep
    /\ Answer(c)
    /\ UNCHANGED <<rows, cover, owner, expired, gate, up, clearing, held, dropped, faults, crashes>>

-----------------------------------------------------------------------------
(* Release *)

(* ReleaseLockOwned and ReleaseLock; the row goes if it can. *)
Release(l) ==
    /\ mem' = mem \ {l} /\ held' = held \ {l}
    /\ \/ rows' = rows \ {l} /\ UNCHANGED faults
       \/ Fault /\ UNCHANGED rows

(* LockFeature with a lockId: refused when the lock is unknown, over or     *)
(* another principal's. It may come while the client's transaction runs.    *)
Reset(c, l) ==
    /\ up /\ l \in Live /\ owner[l] = c
    /\ Release(l)
    /\ UNCHANGED <<cover, owner, expired, gate, req, up, clearing, dropped, crashes>>

(* RuntimeState.ClearWorkspace, which the deletion of a service or of the   *)
(* workspace calls: the locks of every service go from memory, then their   *)
(* rows go, if they can, with those of the locks granted in between.        *)
ClearMemory ==
    /\ up /\ ~clearing
    /\ clearing' = TRUE
    /\ mem' = {} /\ dropped' = dropped \cup mem
    /\ UNCHANGED <<rows, cover, owner, expired, gate, req, up, held, faults, crashes>>

ClearRows ==
    /\ up /\ clearing
    /\ clearing' = FALSE
    /\ \/ rows' = {} /\ dropped' = dropped \cup rows /\ UNCHANGED faults
       \/ Fault /\ UNCHANGED <<rows, dropped>>
    /\ UNCHANGED <<mem, cover, owner, expired, gate, req, up, held, crashes>>

-----------------------------------------------------------------------------
(* Transaction *)

(* ValidateLockOwner, before the gate. *)
TxBegin(c, lock) ==
    /\ At(c, "idle") /\ c \in Writers
    /\ lock # None => (lock \in Live /\ owner[lock] = c)
    /\ req' = [req EXCEPT ![c] = [NoRequest EXCEPT !.pc = "tx", !.lock = lock]]
    /\ UNCHANGED <<mem, rows, cover, owner, expired, gate, up, clearing, held, dropped, faults, crashes>>

(* Mutant: a transaction does not take part in the gate. *)
TxEnterOpen(c) ==
    /\ At(c, "tx")
    /\ req' = [req EXCEPT ![c].pc = "write"]
    /\ UNCHANGED <<mem, rows, cover, owner, expired, gate, up, clearing, held, dropped, faults, crashes>>

TxEnter(c) ==
    /\ At(c, "tx") /\ gate = None
    /\ gate' = c
    /\ req' = [req EXCEPT ![c].pc = "write"]
    /\ UNCHANGED <<mem, rows, cover, owner, expired, up, clearing, held, dropped, faults, crashes>>

(* CheckFeatureLocks: locks other than the provided one. *)
Conflict(c, f) == \E l \in Live : l # req[c].lock /\ f \in cover[l]

(* One operation is applied in the source's transaction, then the features  *)
(* it changed are checked.                                                  *)
TxWrite(c, f) ==
    /\ At(c, "write") /\ f \notin req[c].ids /\ ~Conflict(c, f)
    /\ req' = [req EXCEPT ![c].ids = @ \cup {f}]
    /\ UNCHANGED <<mem, rows, cover, owner, expired, gate, up, clearing, held, dropped, faults, crashes>>

(* Mutant: the gate is kept when a transaction is refused. *)
TxAbortHolding(c) ==
    /\ At(c, "write")
    /\ Answer(c)
    /\ UNCHANGED <<mem, rows, cover, owner, expired, gate, up, clearing, held, dropped, faults, crashes>>

(* A conflict, an operation that fails, or a client that is gone: the       *)
(* source rolls back.                                                       *)
TxAbort(c) ==
    /\ At(c, "write")
    /\ gate' = None
    /\ Answer(c)
    /\ UNCHANGED <<mem, rows, cover, owner, expired, up, clearing, held, dropped, faults, crashes>>

TxCommit(c) ==
    /\ At(c, "write")
    /\ gate' = None
    /\ req' = [req EXCEPT ![c].pc = "committed", ![c].ids = {}]
    /\ UNCHANGED <<mem, rows, cover, owner, expired, up, clearing, held, dropped, faults, crashes>>

(* releaseAction ALL gives the lock back, outside the gate; a lock that was *)
(* swept meanwhile makes the answer an exception.                           *)
TxRelease(c) ==
    /\ At(c, "committed") /\ req[c].lock \in mem
    /\ Release(req[c].lock)
    /\ Answer(c)
    /\ UNCHANGED <<cover, owner, expired, gate, up, clearing, dropped, crashes>>

TxAnswer(c) ==
    /\ At(c, "committed")
    /\ Answer(c)
    /\ UNCHANGED <<mem, rows, cover, owner, expired, gate, up, clearing, held, dropped, faults, crashes>>

(* The client gives up while it waits for the gate. *)
GiveUp(c) ==
    /\ req[c].pc \in {"lock", "tx"} /\ up
    /\ Answer(c)
    /\ UNCHANGED <<mem, rows, cover, owner, expired, gate, up, clearing, held, dropped, faults, crashes>>

-----------------------------------------------------------------------------
(* Time, the cleanup ticker and the server *)

Expire(l) ==
    /\ owner[l] # None /\ l \notin expired
    /\ expired' = expired \cup {l}
    /\ held' = held \ {l}
    /\ UNCHANGED <<mem, rows, cover, owner, gate, req, up, clearing, dropped, faults, crashes>>

(* CleanExpired, then DeleteExpiredWFSLocks. *)
Cleanup ==
    /\ up /\ (mem \cup rows) \cap expired # {}
    /\ Sweep
    /\ \/ rows' = rows \ expired /\ UNCHANGED faults
       \/ Fault /\ UNCHANGED rows
    /\ UNCHANGED <<cover, owner, expired, gate, req, up, clearing, held, dropped, crashes>>

Crash ==
    /\ up /\ crashes < MaxCrashes
    /\ crashes' = crashes + 1
    /\ up' = FALSE /\ mem' = {} /\ gate' = None /\ clearing' = FALSE
    /\ req' = [c \in Clients |-> NoRequest]
    /\ UNCHANGED <<rows, cover, owner, expired, held, dropped, faults>>

(* loadPersisted: locks that are not over; an error is only logged. *)
Start ==
    /\ ~up /\ up' = TRUE
    /\ \/ mem' = rows \ expired /\ UNCHANGED <<dropped, faults>>
       \/ Fault /\ mem' = {} /\ dropped' = dropped \cup rows
    /\ UNCHANGED <<rows, cover, owner, expired, gate, req, clearing, held, crashes>>

(* A step of the server for a client's request. *)
Serve(c) ==
    \/ TxEnter(c) \/ TxAbort(c) \/ TxCommit(c) \/ TxRelease(c) \/ TxAnswer(c)
    \/ \E all \in BOOLEAN : AcquireRefused(c, all) \/ \E l \in Locks : Acquire(c, l, all)
    \/ \E f \in Features : TxWrite(c, f)

Next ==
    \/ \E c \in Clients :
        \/ \E ids \in SUBSET Features : LockQuery(c, ids)
        \/ \E l \in Locks \cup {None} : TxBegin(c, l)
        \/ \E l \in Locks : Reset(c, l)
        \/ Serve(c) \/ GiveUp(c)
    \/ \E l \in Locks : Expire(l)
    \/ ClearMemory \/ ClearRows \/ Cleanup \/ Crash \/ Start

Spec == Init /\ [][Next]_vars

(* A handler runs to its end. Waiters for the gate's token are served in    *)
(* the order in which they came, so none is passed over for ever.           *)
FairSpec == Spec /\ \A c \in Clients : SF_vars(Serve(c))

-----------------------------------------------------------------------------
TypeOK ==
    /\ mem \subseteq Locks /\ rows \subseteq Locks
    /\ cover \in [Locks -> SUBSET Features] /\ owner \in [Locks -> Clients \cup {None}]
    /\ expired \subseteq Locks /\ gate \in Clients \cup {None}
    /\ req \in [Clients -> [pc : {"idle", "lock", "tx", "write", "committed"}, lock : Locks \cup {None},
                             ids : SUBSET Features]]
    /\ up \in BOOLEAN /\ clearing \in BOOLEAN
    /\ held \subseteq Locks /\ dropped \subseteq Locks
    /\ faults \in 0 .. MaxFaults /\ crashes \in 0 .. MaxCrashes

(* The locks a client may rely on. *)
Reliable == held \ dropped

(* A granted lock survives every restart until it is released or over: its  *)
(* row is there from the grant on, and a running server knows it. The       *)
(* exceptions are a deletion in the workspace and a start that could not    *)
(* read the rows.                                                           *)
GrantSurvives == Reliable \subseteq rows /\ (up => Reliable \subseteq mem)

(* No feature is covered by two locks that clients rely on, and the quotas  *)
(* hold for them, whatever was released, restored or swept before.          *)
GrantsExclusive ==
    /\ \A l, k \in Reliable : l # k => cover[l] \cap cover[k] = {}
    /\ Cardinality(Reliable) <= MaxLocks
    /\ \A c \in Clients : Cardinality({l \in Reliable : owner[l] = c}) <= MaxPerOwner

(* A transaction that commits has changed no feature that a lock other than *)
(* the one it provided covers at the commit: what the checks under the gate *)
(* found stays true until the source has committed.                         *)
WritesRespectLocks ==
    [][\A c \in Clients : TxCommit(c) =>
        \A l \in Reliable \ {req[c].lock} : cover[l] \cap req[c].ids = {}]_vars

(* Every LockFeature and every transaction is answered, whoever else waits  *)
(* for the workspace's gate and however the one before it ended.            *)
RequestsFinish == \A c \in Clients : req[c].pc # "idle" ~> req[c].pc = "idle"

=============================================================================
