------------------------- MODULE TileCacheOwnership -------------------------
(***************************************************************************)
(* The ownership guard of an S3 tile-cache prefix:                          *)
(* internal/tilecache/ownership.go over the conditional writes of s3.go.    *)
(* A process is one start of the server; its members of Procs are used once *)
(* (every start makes a new instance id).  The marker object has a          *)
(* generation (its ETag), an owner and a released flag; generation 0 is an  *)
(* absent marker.  The capability probe uses keys of its own and is left    *)
(* out; a start that it refuses is one that never happens.                  *)
(***************************************************************************)
EXTENDS Integers

CONSTANTS
    Procs,        \* starts of the server
    None,         \* no process
    MaxMutations  \* bound: admitted mutations of a process at a time

ASSUME OwnershipAssumption ==
    /\ None \notin Procs
    /\ MaxMutations \in Nat \ {0}

VARIABLES
    marker,    \* the marker object
    st,        \* where a process stands: its start, then ownershipState
    seen,      \* the marker acquire read
    takeover,  \* cfg.TakeoverOwnerID, None when empty
    etag,      \* the generation the process claimed
    admitted,  \* mutations that hold the read side of the fence
    release,   \* the release marker is still to be written
    forced     \* running processes an operator named for takeover (history)

vars == <<marker, st, seen, takeover, etag, admitted, release, forced>>

Absent == [gen |-> 0, owner |-> None, released |-> FALSE]

Init ==
    /\ marker = Absent
    /\ st = [p \in Procs |-> "off"]
    /\ seen = [p \in Procs |-> Absent]
    /\ takeover = [p \in Procs |-> None]
    /\ etag = [p \in Procs |-> 0]
    /\ admitted = [p \in Procs |-> 0]
    /\ release = [p \in Procs |-> FALSE]
    /\ forced = {}

-----------------------------------------------------------------------------
(* acquire *)

(* The operator starts a process, with or without an owner to take over,    *)
(* and it reads the marker.  The documented procedure is to take over only  *)
(* a process that is dead; nothing enforces it.                             *)
Observe(p, t) ==
    /\ st[p] = "off"
    /\ t # None => st[t] # "off"
    /\ forced' = IF t = None \/ st[t] = "dead" THEN forced ELSE forced \cup {t}
    /\ st' = [st EXCEPT ![p] = "observed"]
    /\ seen' = [seen EXCEPT ![p] = marker]
    /\ takeover' = [takeover EXCEPT ![p] = t]
    /\ UNCHANGED <<marker, etag, admitted, release>>

(* Mutant: any authorised takeover is accepted, whoever owns the marker. *)
EntitledAnyTakeover(p) ==
    \/ seen[p].gen = 0 /\ takeover[p] = None
    \/ seen[p].gen # 0 /\ seen[p].released /\ takeover[p] = None
    \/ seen[p].gen # 0 /\ ~seen[p].released /\ takeover[p] # None

(* The cases of acquire that attempt a conditional write. *)
Entitled(p) ==
    \/ seen[p].gen = 0 /\ takeover[p] = None
    \/ seen[p].gen # 0 /\ seen[p].released /\ takeover[p] = None
    \/ seen[p].gen # 0 /\ ~seen[p].released /\ takeover[p] = seen[p].owner

Claimed(p) == [gen |-> marker.gen + 1, owner |-> p, released |-> FALSE]

(* Mutant: the marker is replaced without the precondition. *)
ClaimUnconditional(p) ==
    /\ st[p] = "observed" /\ Entitled(p)
    /\ marker' = Claimed(p)
    /\ etag' = [etag EXCEPT ![p] = marker.gen + 1]
    /\ \/ st' = [st EXCEPT ![p] = "claimed"]
       \/ st' = [st EXCEPT ![p] = "dead"]
    /\ UNCHANGED <<seen, takeover, admitted, release, forced>>

(* CreateLease or ReplaceLease succeeds: the marker is still the one read.  *)
(* The answer may be lost, and then the start fails.                        *)
Claim(p) ==
    /\ st[p] = "observed" /\ Entitled(p)
    /\ marker.gen = seen[p].gen
    /\ marker' = Claimed(p)
    /\ etag' = [etag EXCEPT ![p] = marker.gen + 1]
    /\ \/ st' = [st EXCEPT ![p] = "claimed"]
       \/ st' = [st EXCEPT ![p] = "dead"]
    /\ UNCHANGED <<seen, takeover, admitted, release, forced>>

(* Refused, a conflict, or a request that never arrived: the start fails.   *)
ClaimFails(p) ==
    /\ st[p] = "observed"
    /\ st' = [st EXCEPT ![p] = "dead"]
    /\ UNCHANGED <<marker, seen, takeover, etag, admitted, release, forced>>

Mine(p) == marker.owner = p /\ ~marker.released /\ marker.gen = etag[p]

(* The claim is read back; a mismatch or a failed read ends the start. *)
Verify(p) ==
    /\ st[p] = "claimed"
    /\ \/ Mine(p) /\ st' = [st EXCEPT ![p] = "held"]
       \/ st' = [st EXCEPT ![p] = "dead"]
    /\ UNCHANGED <<marker, seen, takeover, etag, admitted, release, forced>>

-----------------------------------------------------------------------------
(* The fence. *)

(* Mutant: the state is not checked on admission. *)
BeginUnchecked(p) ==
    /\ st[p] \in {"held", "fencing", "lost"} /\ admitted[p] < MaxMutations
    /\ admitted' = [admitted EXCEPT ![p] = @ + 1]
    /\ UNCHANGED <<marker, st, seen, takeover, etag, release, forced>>

(* beginMutation; a waiting writer of the fence keeps new readers out. *)
BeginMutation(p) ==
    /\ st[p] = "held" /\ admitted[p] < MaxMutations
    /\ admitted' = [admitted EXCEPT ![p] = @ + 1]
    /\ UNCHANGED <<marker, st, seen, takeover, etag, release, forced>>

EndMutation(p) ==
    /\ admitted[p] > 0
    /\ admitted' = [admitted EXCEPT ![p] = @ - 1]
    /\ UNCHANGED <<marker, st, seen, takeover, etag, release, forced>>

(* Mutant: a replaced marker is only noticed when it was released. *)
CheckReleasedOnly(p) ==
    /\ st[p] = "held"
    /\ marker.released
    /\ st' = [st EXCEPT ![p] = "fencing"]
    /\ UNCHANGED <<marker, seen, takeover, etag, admitted, release, forced>>

(* verifyOwnership: the marker is another one, or cannot be read; markLost  *)
(* waits for the admitted mutations.                                        *)
Check(p) ==
    /\ st[p] = "held"
    /\ st' = [st EXCEPT ![p] = "fencing"]
    /\ UNCHANGED <<marker, seen, takeover, etag, admitted, release, forced>>

MarkLost(p) ==
    /\ st[p] = "fencing" /\ admitted[p] = 0
    /\ st' = [st EXCEPT ![p] = "lost"]
    /\ UNCHANGED <<marker, seen, takeover, etag, admitted, release, forced>>

-----------------------------------------------------------------------------
(* release *)

(* verifyOwnership has stopped and no mutation is admitted any more. *)
ReleaseFence(p) ==
    /\ st[p] \in {"held", "lost"} /\ admitted[p] = 0
    /\ release' = [release EXCEPT ![p] = st[p] = "held"]
    /\ st' = [st EXCEPT ![p] = "released"]
    /\ UNCHANGED <<marker, seen, takeover, etag, admitted, forced>>

(* Mutant: the release marker is written without the precondition. *)
ReleaseUnconditional(p) ==
    /\ release[p]
    /\ marker' = [gen |-> marker.gen + 1, owner |-> p, released |-> TRUE]
    /\ release' = [release EXCEPT ![p] = FALSE]
    /\ UNCHANGED <<st, seen, takeover, etag, admitted, forced>>

(* The conditional replacement by a released marker, or its failure. *)
ReleaseMarker(p) ==
    /\ release[p]
    /\ \/ /\ marker.gen = etag[p]
          /\ marker' = [gen |-> marker.gen + 1, owner |-> p, released |-> TRUE]
       \/ UNCHANGED marker
    /\ release' = [release EXCEPT ![p] = FALSE]
    /\ UNCHANGED <<st, seen, takeover, etag, admitted, forced>>

(* The process dies. *)
Crash(p) ==
    /\ st[p] \notin {"off", "dead"}
    /\ st' = [st EXCEPT ![p] = "dead"]
    /\ admitted' = [admitted EXCEPT ![p] = 0]
    /\ release' = [release EXCEPT ![p] = FALSE]
    /\ UNCHANGED <<marker, seen, takeover, etag, forced>>

Step(p) ==
    \/ \E t \in Procs \cup {None} : Observe(p, t)
    \/ Claim(p) \/ ClaimFails(p) \/ Verify(p)
    \/ BeginMutation(p) \/ EndMutation(p) \/ Check(p) \/ MarkLost(p)
    \/ ReleaseFence(p) \/ ReleaseMarker(p) \/ Crash(p)

Next == \E p \in Procs : Step(p)

Spec == Init /\ [][Next]_vars

(* The ticker keeps firing, a check that finds another marker reports it,   *)
(* and admitted mutations end: their S3 and DuckDB calls have deadlines.    *)
FairSpec ==
    /\ Spec
    /\ \A p \in Procs :
        /\ WF_vars(~Mine(p) /\ Check(p))
        /\ WF_vars(EndMutation(p))
        /\ WF_vars(MarkLost(p))

-----------------------------------------------------------------------------
(* Properties *)

Markers == [gen : Nat, owner : Procs \cup {None}, released : BOOLEAN]

States == {"off", "observed", "claimed", "held", "fencing", "lost", "released", "dead"}

(* Every variable has its type. *)
TypeOK ==
    /\ marker \in Markers
    /\ st \in [Procs -> States]
    /\ seen \in [Procs -> Markers]
    /\ takeover \in [Procs -> Procs \cup {None}]
    /\ etag \in [Procs -> Nat]
    /\ admitted \in [Procs -> 0..MaxMutations]
    /\ release \in [Procs -> BOOLEAN]
    /\ forced \subseteq Procs

(* Under the documented recovery procedure no two processes ever have       *)
(* admitted mutations below the prefix at the same time, however starts     *)
(* race for an absent or released marker, crash or lose answers.            *)
SingleWriter ==
    forced = {} =>
        \A p, q \in Procs : admitted[p] > 0 /\ admitted[q] > 0 => p = q

(* markLost and release return only when no admitted mutation remains, and  *)
(* none is admitted afterwards (the comment of beginMutation).              *)
FencedIsQuiet ==
    \A p \in Procs : admitted[p] > 0 => st[p] \in {"held", "fencing"}

(* A process, stale or not, releases only its own generation of the marker: *)
(* a replacement owner is never released by the process it replaced.        *)
OnlyOwnerReleases ==
    [][ /\ marker'.released /\ ~marker.released
        => /\ marker.gen # 0 /\ marker'.owner = marker.owner
           /\ st[marker.owner] = "released" ]_vars

(* An owner whose marker was taken over stops writing: it is fenced by its  *)
(* next check, even when the operator took over a process that still ran.   *)
StaleOwnerFenced ==
    \A p \in Procs : st[p] = "held" /\ ~Mine(p) ~> admitted[p] = 0 /\ st[p] # "held"

Holder == IF marker.gen = 0 \/ marker.released THEN None ELSE marker.owner

Writing == {p \in Procs : admitted[p] > 0}

Prefix == INSTANCE PrefixOwnership WITH holder <- Holder, writing <- Writing

(* The guard implements single ownership of the prefix, for as long as the  *)
(* operator follows the documented procedure.                               *)
ImplementsPrefix == Prefix!Spec
=============================================================================
