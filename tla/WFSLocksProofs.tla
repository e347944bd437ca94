--------------------------- MODULE WFSLocksProofs ---------------------------
(***************************************************************************)
(* Granted locks survive, exclude one another and are respected by every   *)
(* transaction, for any clients, features, quotas and numbers of grants,   *)
(* failing statements and restarts.                                        *)
(***************************************************************************)
EXTENDS WFSLocks, FiniteSetTheorems, TLAPS

(* The requests of TypeOK. *)
RequestState ==
    [pc : {"idle", "lock", "tx", "write", "committed"}, lock : Locks \cup {None}, ids : SUBSET Features]

(* The identifiers that have been given out. *)
Owned == {l \in Locks : owner[l] # None}

(* Identifiers are given out in order, and only they are in any table. *)
NumberedInv ==
    /\ \E n \in 0 .. MaxGrants : Owned = 1 .. n
    /\ mem \cup rows \cup held \cup dropped \cup expired \subseteq Owned

(* What a request has done so far.  Only a transaction inside the gate has *)
(* changed features, it is alone there, and no lock that a client relies   *)
(* on, other than the one it provided, covers what it changed.             *)
WritingInv ==
    \A c \in Clients :
        /\ req[c].pc \in {"idle", "tx", "committed"} => req[c].ids = {}
        /\ req[c].pc = "write" =>
              /\ gate = c
              /\ \A l \in Reliable \ {req[c].lock} : cover[l] \cap req[c].ids = {}

(***************************************************************************)
(* The inductive invariant.  That locks exclude one another rests on       *)
(* GrantSurvives: the check of a new grant looks at the locks in memory    *)
(* that are not over, and no lock that a client relies on is missing there.*)
(***************************************************************************)
LocksInv ==
    /\ TypeOK
    /\ NumberedInv
    /\ held \cap expired = {}
    /\ GrantSurvives
    /\ GrantsExclusive
    /\ WritingInv

-----------------------------------------------------------------------------
(* Lemmas on the operators of the model. *)

(* The next identifier has not been given out, and the ones before it have. *)
LEMMA FreshIsNew ==
    ASSUME NumberedInv, NEW l \in Locks, Fresh(l)
    PROVE  l \notin Owned /\ \E n \in 0 .. MaxGrants : Owned \cup {l} = 1 .. n
  <1>1. PICK n \in 0 .. MaxGrants : Owned = 1 .. n
    BY DEF NumberedInv
  <1>2. Cardinality(1 .. n) = n
    BY FS_Interval, LocksAssumption
  <1>3. l = n + 1
    <2>1. l = 1 + Cardinality(Owned)
      BY DEF Fresh, Owned
    <2>2. QED
      BY <1>1, <1>2, <2>1, LocksAssumption
  <1>4. n + 1 \in 0 .. MaxGrants /\ (1 .. n) \cup {l} = 1 .. (n + 1)
    BY <1>3, LocksAssumption DEF Locks
  <1>5. QED
    BY <1>1, <1>3, <1>4, LocksAssumption

(* Sets of locks are finite and counted by naturals, and a part of one is  *)
(* not larger.                                                             *)
LEMMA LocksCount ==
    ASSUME NEW S \in SUBSET Locks, NEW T \in SUBSET S
    PROVE  /\ IsFiniteSet(S) /\ Cardinality(S) \in Nat
           /\ Cardinality(T) \in Nat /\ Cardinality(T) <= Cardinality(S)
  <1>1. IsFiniteSet(Locks)
    BY FS_Interval, LocksAssumption DEF Locks
  <1>2. IsFiniteSet(S)
    BY <1>1, FS_Subset
  <1>3. IsFiniteSet(T) /\ Cardinality(T) <= Cardinality(S)
    BY <1>2, FS_Subset
  <1>4. QED
    BY <1>2, <1>3, FS_CardinalityType

(* Locks that are given up leave the others exclusive and within quota. *)
LEMMA ExclusiveShrinks ==
    ASSUME TypeOK, GrantsExclusive, Reliable' \subseteq Reliable,
           \A l \in Reliable : cover'[l] = cover[l] /\ owner'[l] = owner[l]
    PROVE  GrantsExclusive'
  <1>1. Reliable \in SUBSET Locks
    BY DEF TypeOK, Reliable
  <1>2. Cardinality(Reliable') <= MaxLocks
    <2>1. Cardinality(Reliable') \in Nat /\ Cardinality(Reliable) \in Nat
          /\ Cardinality(Reliable') <= Cardinality(Reliable)
      BY <1>1, LocksCount
    <2>2. QED
      BY <2>1, LocksAssumption DEF GrantsExclusive
  <1>3. ASSUME NEW c \in Clients
        PROVE  Cardinality({l \in Reliable' : owner'[l] = c}) <= MaxPerOwner
    <2> DEFINE Mine == {l \in Reliable : owner[l] = c}
               Mine2 == {l \in Reliable' : owner'[l] = c}
    <2>1. Mine \in SUBSET Locks /\ Mine2 \in SUBSET Mine
      BY <1>1
    <2>2. Cardinality(Mine) \in Nat /\ Cardinality(Mine2) \in Nat
          /\ Cardinality(Mine2) <= Cardinality(Mine)
      BY <2>1, LocksCount
    <2>3. Cardinality(Mine) <= MaxPerOwner
      BY DEF GrantsExclusive
    <2>4. QED
      BY <2>2, <2>3, LocksAssumption
  <1>4. \A l, k \in Reliable' : l # k => cover'[l] \cap cover'[k] = {}
    BY DEF GrantsExclusive
  <1>5. QED
    BY <1>2, <1>3, <1>4 DEF GrantsExclusive

(* While nothing is granted, a transaction keeps what its checks found. *)
LEMMA WritingShrinks ==
    ASSUME WritingInv, Reliable' \subseteq Reliable, UNCHANGED <<cover, gate, req>>
    PROVE  WritingInv'
  BY DEF WritingInv

(* The locks that clients rely on are live in a running server: they are in *)
(* memory and not over.                                                     *)
LEMMA ReliableLive ==
    ASSUME LocksInv, up
    PROVE  Reliable \subseteq Live /\ Live \subseteq Locks
  BY DEF LocksInv, TypeOK, GrantSurvives, Reliable, Live

-----------------------------------------------------------------------------
(* The invariant holds when the server starts on an empty catalog. *)
LEMMA LocksInit == Init => LocksInv
  <1> SUFFICES ASSUME Init PROVE LocksInv
    OBVIOUS
  <1>1. TypeOK
    <2>1. req \in [Clients -> RequestState]
      BY DEF Init, NoRequest, RequestState
    <2>2. faults \in 0 .. MaxFaults /\ crashes \in 0 .. MaxCrashes
      BY LocksAssumption DEF Init
    <2>3. cover \in [Locks -> SUBSET Features] /\ owner \in [Locks -> Clients \cup {None}]
      BY DEF Init
    <2>4. QED
      BY <2>1, <2>2, <2>3, Zenon DEF Init, TypeOK, RequestState
  <1>2. NumberedInv
    <2>1. Owned = 1 .. 0
      BY DEF Init, Owned
    <2>2. QED
      BY <2>1, LocksAssumption DEF Init, NumberedInv
  <1>3. GrantsExclusive
    <2>1. Reliable = {} /\ \A c \in Clients : {l \in Reliable : owner[l] = c} = {}
      BY DEF Init, Reliable
    <2>2. QED
      BY <2>1, FS_EmptySet, LocksAssumption DEF GrantsExclusive
  <1>4. WritingInv
    BY DEF Init, WritingInv, NoRequest
  <1>5. GrantSurvives /\ held \cap expired = {}
    BY DEF Init, GrantSurvives, Reliable
  <1>6. QED
    BY <1>1, <1>2, <1>3, <1>4, <1>5 DEF LocksInv

(* A step that neither gives out an identifier nor makes a lock reliable,  *)
(* and ends with a well-typed state, keeps what relates locks to locks.    *)
LEMMA NoGrant ==
    ASSUME LocksInv, UNCHANGED <<cover, owner>>,
           mem' \cup rows' \cup held' \cup dropped' \cup expired' \subseteq Owned,
           held' \subseteq held, dropped \subseteq dropped'
    PROVE  NumberedInv' /\ Reliable' \subseteq Reliable /\ GrantsExclusive'
  <1>1. Owned' = Owned
    BY DEF Owned
  <1>2. NumberedInv'
    BY <1>1 DEF NumberedInv, LocksInv
  <1>3. Reliable' \subseteq Reliable
    BY DEF Reliable
  <1>4. GrantsExclusive'
    BY <1>3, ExclusiveShrinks DEF LocksInv
  <1>5. QED
    BY <1>2, <1>3, <1>4

(* LockFeature and GetFeatureWithLock. *)
LEMMA AcquireStep ==
    ASSUME LocksInv, NEW c \in Clients, NEW l \in Locks, NEW all \in BOOLEAN, Acquire(c, l, all)
    PROVE  LocksInv'
  <1>1. l \notin Owned /\ \E n \in 0 .. MaxGrants : Owned \cup {l} = 1 .. n
    BY FreshIsNew DEF Acquire, LocksInv
  <1>2. l \notin held /\ l \notin dropped /\ l \notin expired /\ l \notin rows /\ l \notin mem
    BY <1>1 DEF LocksInv, NumberedInv
  <1>3. /\ up /\ req[c].pc = "lock" /\ gate = None /\ ~Refused(c, all)
        /\ cover' = [cover EXCEPT ![l] = Granted(c)] /\ owner' = [owner EXCEPT ![l] = c]
        /\ req' = [req EXCEPT ![c] = NoRequest]
        /\ UNCHANGED <<expired, gate, up, clearing, dropped, crashes>>
    BY DEF Acquire, At, Answer
  <1>4. \/ mem' = Live \cup {l} /\ rows' = rows \cup {l} /\ held' = held \cup {l} /\ UNCHANGED faults
        \/ Fault /\ rows' \in {rows, rows \cup {l}} /\ mem' = Live /\ UNCHANGED held
    BY DEF Acquire
  <1>5. Reliable \subseteq Live /\ Live \subseteq Locks
    BY <1>3, ReliableLive
  <1>6. TypeOK'
    <2>1. Granted(c) \in SUBSET Features
      BY DEF LocksInv, TypeOK, Granted
    <2>2. cover' \in [Locks -> SUBSET Features] /\ owner' \in [Locks -> Clients \cup {None}]
      BY <1>3, <2>1 DEF LocksInv, TypeOK
    <2>3. req' \in [Clients -> RequestState]
      BY <1>3 DEF LocksInv, TypeOK, NoRequest, RequestState
    <2>4. mem' \subseteq Locks /\ rows' \subseteq Locks /\ held' \subseteq Locks /\ faults' \in 0 .. MaxFaults
      BY <1>4, <1>5, LocksAssumption DEF LocksInv, TypeOK, Fault
    <2>5. QED
      BY <1>3, <2>2, <2>3, <2>4 DEF LocksInv, TypeOK, RequestState
  <1>7. NumberedInv'
    <2>1. Owned' = Owned \cup {l}
      BY <1>3, LocksAssumption DEF Owned, LocksInv, TypeOK
    <2>2. QED
      BY <1>1, <1>3, <1>4, <2>1 DEF LocksInv, NumberedInv, Live
  <1>8. Reliable' \subseteq Reliable \cup {l} /\ l \notin Reliable
        /\ (l \in Reliable' => mem' = Live \cup {l} /\ rows' = rows \cup {l})
    BY <1>2, <1>3, <1>4 DEF Reliable
  <1>9. GrantSurvives' /\ (held \cap expired = {})'
    BY <1>2, <1>3, <1>4, <1>5, <1>8 DEF LocksInv, GrantSurvives
  <1>10. \A k \in Reliable : cover'[k] = cover[k] /\ owner'[k] = owner[k]
    BY <1>3, <1>5, <1>8 DEF LocksInv, TypeOK
  <1>11. GrantsExclusive'
    <2>1. CASE l \notin Reliable'
      BY <1>8, <1>10, <2>1, ExclusiveShrinks DEF LocksInv
    <2>2. CASE l \in Reliable'
      <3>1. Reliable' = Reliable \cup {l}
        BY <1>3, <1>4, <1>8, <2>2 DEF Reliable
      <3>2. cover'[l] \cap UNION {cover[k] : k \in Reliable} = {}
        BY <1>3, <1>5 DEF LocksInv, TypeOK, Granted, Taken, Locked
      <3>3. \A j, k \in Reliable' : j # k => cover'[j] \cap cover'[k] = {}
        BY <1>10, <3>1, <3>2 DEF LocksInv, GrantsExclusive
      <3>4. Cardinality(Reliable') <= MaxLocks
        <4>1. Cardinality(Live) < MaxLocks /\ Cardinality(Live) \in Nat
          BY <1>3, <1>5, LocksCount, LocksAssumption DEF Refused, OverQuota
        <4>2. IsFiniteSet(Reliable) /\ Cardinality(Reliable) \in Nat /\ Cardinality(Reliable) <= Cardinality(Live)
          BY <1>5, LocksCount
        <4>3. Cardinality(Reliable \cup {l}) = Cardinality(Reliable) + 1
          BY <1>8, <4>2, FS_AddElement, Zenon
        <4>4. QED
          BY <3>1, <4>1, <4>2, <4>3, LocksAssumption
      <3>5. ASSUME NEW d \in Clients
            PROVE  Cardinality({k \in Reliable' : owner'[k] = d}) <= MaxPerOwner
        <4> DEFINE Mine == {k \in Reliable : owner[k] = d}
                   Alive == {k \in Live : owner[k] = d}
        <4>1. owner'[l] = c
          BY <1>3 DEF LocksInv, TypeOK
        <4>2. CASE d # c
          <5>1. {k \in Reliable' : owner'[k] = d} = Mine
            BY <1>10, <3>1, <4>1, <4>2
          <5>2. QED
            BY <5>1 DEF LocksInv, GrantsExclusive
        <4>3. CASE d = c
          <5>1. {k \in Reliable' : owner'[k] = d} = Mine \cup {l}
            BY <1>10, <3>1, <4>1, <4>3
          <5>2. Alive \in SUBSET Locks /\ Mine \in SUBSET Alive
            BY <1>5
          <5>3. Cardinality(Alive) \in Nat /\ Cardinality(Mine) \in Nat /\ Cardinality(Mine) <= Cardinality(Alive)
            BY <5>2, LocksCount
          <5>4. IsFiniteSet(Mine)
            BY <5>2, LocksCount
          <5>5. Cardinality(Alive) < MaxPerOwner
            BY <1>3, <4>3, <5>3, LocksAssumption DEF Refused, OverQuota
          <5>6. Cardinality(Mine \cup {l}) = Cardinality(Mine) + 1
            BY <1>8, <5>4, FS_AddElement, Zenon
          <5>7. Cardinality(Mine \cup {l}) <= MaxPerOwner
            <6> HIDE DEF Mine, Alive
            <6> QED
              BY <5>3, <5>5, <5>6, LocksAssumption
          <5>8. QED
            BY <5>1, <5>7, Zenon
        <4>4. QED
          BY <4>2, <4>3
      <3>6. QED
        BY <3>3, <3>4, <3>5 DEF GrantsExclusive
    <2>3. QED
      BY <2>1, <2>2
  <1>12. WritingInv'
    <2>1. \A d \in Clients : req[d].pc # "write"
      BY <1>3, LocksAssumption DEF LocksInv, WritingInv
    <2>2. \A d \in Clients : req'[d] = IF d = c THEN NoRequest ELSE req[d]
      BY <1>3 DEF LocksInv, TypeOK
    <2>3. QED
      BY <1>3, <2>1, <2>2 DEF LocksInv, WritingInv, NoRequest
  <1>13. QED
    BY <1>6, <1>7, <1>9, <1>11, <1>12 DEF LocksInv

(* A step that grants nothing preserves the invariant when it forgets no   *)
(* lock that a client relies on and keeps the requests in order.           *)
LEMMA NoGrantStep ==
    ASSUME LocksInv, UNCHANGED <<cover, owner>>,
           mem' \cup rows' \cup held' \cup dropped' \cup expired' \subseteq Owned,
           held' \subseteq held, dropped \subseteq dropped', held' \cap expired' = {},
           up' \in BOOLEAN, clearing' \in BOOLEAN,
           faults' \in 0 .. MaxFaults, crashes' \in 0 .. MaxCrashes,
           req' \in [Clients -> RequestState], gate' \in Clients \cup {None},
           GrantSurvives', WritingInv'
    PROVE  LocksInv'
  <1>1. NumberedInv' /\ GrantsExclusive'
    BY NoGrant
  <1>2. TypeOK'
    BY DEF LocksInv, TypeOK, Owned, RequestState
  <1>3. QED
    BY <1>1, <1>2 DEF LocksInv

(* The same for a step that touches no lock. *)
LEMMA RequestStep ==
    ASSUME LocksInv, UNCHANGED <<mem, rows, cover, owner, expired, up, clearing, held, dropped, faults, crashes>>,
           req' \in [Clients -> RequestState], gate' \in Clients \cup {None}, WritingInv'
    PROVE  LocksInv'
  <1>1. GrantSurvives' /\ held' \cap expired' = {}
    BY DEF LocksInv, GrantSurvives, Reliable
  <1>2. mem' \cup rows' \cup held' \cup dropped' \cup expired' \subseteq Owned
    BY DEF LocksInv, NumberedInv
  <1>3. up' \in BOOLEAN /\ clearing' \in BOOLEAN /\ faults' \in 0 .. MaxFaults /\ crashes' \in 0 .. MaxCrashes
    BY DEF LocksInv, TypeOK
  <1>4. QED
    BY <1>1, <1>2, <1>3, NoGrantStep

(* The same for a step that touches no request. *)
LEMMA LocksStep ==
    ASSUME LocksInv, UNCHANGED <<cover, owner, gate, req>>,
           mem' \cup rows' \cup held' \cup dropped' \cup expired' \subseteq Owned,
           held' \subseteq held, dropped \subseteq dropped', held' \cap expired' = {},
           up' \in BOOLEAN, clearing' \in BOOLEAN,
           faults' \in 0 .. MaxFaults, crashes' \in 0 .. MaxCrashes, GrantSurvives'
    PROVE  LocksInv'
  <1>1. WritingInv'
    BY WritingShrinks DEF LocksInv, Reliable
  <1>2. req' \in [Clients -> RequestState] /\ gate' \in Clients \cup {None}
    BY DEF LocksInv, TypeOK, RequestState
  <1>3. QED
    BY <1>1, <1>2, NoGrantStep

(* A fault is one of those the bound allows. *)
LEMMA FaultCount ==
    ASSUME LocksInv, Fault \/ UNCHANGED faults
    PROVE  faults' \in 0 .. MaxFaults
  BY LocksAssumption DEF LocksInv, TypeOK, Fault

(* Every step of the requests, the time, the cleanup, a deletion and a     *)
(* restart preserves the invariant.                                        *)
LEMMA LocksNext == LocksInv /\ [Next]_vars => LocksInv'
  <1> SUFFICES ASSUME LocksInv, [Next]_vars PROVE LocksInv'
    OBVIOUS
  <1>0. req \in [Clients -> RequestState] /\ gate \in Clients \cup {None}
    BY DEF LocksInv, TypeOK, RequestState
  <1>a. ASSUME NEW c \in Clients, NEW ids \in SUBSET Features, LockQuery(c, ids) PROVE LocksInv'
    <2>1. req' \in [Clients -> RequestState]
      BY <1>0, <1>a, Zenon DEF LockQuery, NoRequest, RequestState
    <2>2. WritingInv'
      BY <1>0, <1>a DEF LockQuery, NoRequest, LocksInv, WritingInv, Reliable
    <2>3. QED
      BY <1>0, <1>a, <2>1, <2>2, RequestStep DEF LockQuery
  <1>b. ASSUME NEW c \in Clients, NEW l \in Locks \cup {None}, TxBegin(c, l) PROVE LocksInv'
    <2>1. req' \in [Clients -> RequestState]
      BY <1>0, <1>b, Zenon DEF TxBegin, NoRequest, RequestState
    <2>2. WritingInv'
      BY <1>0, <1>b DEF TxBegin, NoRequest, LocksInv, WritingInv, Reliable
    <2>3. QED
      BY <1>0, <1>b, <2>1, <2>2, RequestStep DEF TxBegin
  <1>c. ASSUME NEW c \in Clients, TxEnter(c) PROVE LocksInv'
    <2>1. req' \in [Clients -> RequestState]
      BY <1>0, <1>c DEF TxEnter, RequestState
    <2>2. \A d \in Clients : req[d].pc # "write"
      BY <1>c, LocksAssumption DEF TxEnter, LocksInv, WritingInv
    <2>3. req[c].ids = {}
      BY <1>c DEF TxEnter, At, LocksInv, WritingInv
    <2>4. WritingInv'
      BY <1>0, <1>c, <2>2, <2>3 DEF TxEnter, LocksInv, WritingInv, RequestState
    <2>5. QED
      BY <1>0, <1>c, <2>1, <2>4, RequestStep DEF TxEnter
  <1>d. ASSUME NEW c \in Clients, NEW f \in Features, TxWrite(c, f) PROVE LocksInv'
    <2>1. req' \in [Clients -> RequestState]
      BY <1>0, <1>d DEF TxWrite, RequestState
    <2>2. \A l \in Reliable \ {req[c].lock} : f \notin cover[l]
      BY <1>d, ReliableLive DEF TxWrite, At, Conflict
    <2>3. WritingInv'
      BY <1>0, <1>d, <2>2 DEF TxWrite, At, LocksInv, WritingInv, RequestState, Reliable
    <2>4. QED
      BY <1>0, <1>d, <2>1, <2>3, RequestStep DEF TxWrite
  <1>e. ASSUME NEW c \in Clients, TxAbort(c) \/ TxCommit(c) PROVE LocksInv'
    <2>1. req' \in [Clients -> RequestState]
      BY <1>0, <1>e DEF TxAbort, TxCommit, Answer, NoRequest, RequestState
    <2>2. \A d \in Clients \ {c} : req[d].pc # "write" /\ req'[d] = req[d]
      BY <1>0, <1>e DEF TxAbort, TxCommit, At, Answer, LocksInv, WritingInv
    <2>3. req'[c].pc \in {"idle", "committed"} /\ req'[c].ids = {}
      BY <1>0, <1>e DEF TxAbort, TxCommit, Answer, NoRequest, RequestState
    <2>4. WritingInv'
      BY <2>2, <2>3 DEF LocksInv, WritingInv
    <2>5. QED
      BY <1>e, <2>1, <2>4, RequestStep DEF TxAbort, TxCommit
  <1>f. ASSUME NEW c \in Clients, TxAnswer(c) \/ GiveUp(c) PROVE LocksInv'
    <2>1. req' \in [Clients -> RequestState]
      BY <1>0, <1>f DEF TxAnswer, GiveUp, Answer, NoRequest, RequestState
    <2>2. WritingInv'
      BY <1>0, <1>f DEF TxAnswer, GiveUp, Answer, NoRequest, LocksInv, WritingInv, Reliable
    <2>3. QED
      BY <1>0, <1>f, <2>1, <2>2, RequestStep DEF TxAnswer, GiveUp
  <1>g. ASSUME NEW c \in Clients, NEW all \in BOOLEAN, AcquireRefused(c, all) PROVE LocksInv'
    <2>1. req' \in [Clients -> RequestState]
      BY <1>0, <1>g DEF AcquireRefused, Answer, NoRequest, RequestState
    <2>2. WritingInv'
      BY <1>0, <1>g DEF AcquireRefused, Answer, NoRequest, LocksInv, WritingInv, Reliable
    <2>3. GrantSurvives'
      BY <1>g, ReliableLive DEF AcquireRefused, Sweep, At, LocksInv, GrantSurvives, Reliable
    <2>4. mem' \cup rows' \cup held' \cup dropped' \cup expired' \subseteq Owned
      BY <1>g DEF AcquireRefused, Sweep, Live, LocksInv, NumberedInv
    <2>5. QED
      BY <1>0, <1>g, <2>1, <2>2, <2>3, <2>4, NoGrantStep DEF AcquireRefused, LocksInv, TypeOK
  <1>h. ASSUME NEW c \in Clients, NEW l \in Locks, Reset(c, l) PROVE LocksInv'
    <2>1. faults' \in 0 .. MaxFaults
      BY <1>h, FaultCount DEF Reset, Release
    <2>2. mem' \cup rows' \cup held' \cup dropped' \cup expired' \subseteq Owned /\ held' \subseteq held
      BY <1>h DEF Reset, Release, LocksInv, NumberedInv
    <2>3. GrantSurvives' /\ held' \cap expired' = {}
      BY <1>h DEF Reset, Release, LocksInv, GrantSurvives, Reliable
    <2>4. QED
      BY <1>h, <2>1, <2>2, <2>3, LocksStep DEF Reset, LocksInv, TypeOK
  <1>i. ASSUME NEW c \in Clients, TxRelease(c) PROVE LocksInv'
    <2>1. faults' \in 0 .. MaxFaults
      BY <1>i, FaultCount DEF TxRelease, Release
    <2>2. mem' \cup rows' \cup held' \cup dropped' \cup expired' \subseteq Owned /\ held' \subseteq held
      BY <1>i DEF TxRelease, Release, LocksInv, NumberedInv
    <2>3. GrantSurvives' /\ held' \cap expired' = {}
      BY <1>i DEF TxRelease, Release, LocksInv, GrantSurvives, Reliable
    <2>4. req' \in [Clients -> RequestState]
      BY <1>0, <1>i DEF TxRelease, Answer, NoRequest, RequestState
    <2>5. Reliable' \subseteq Reliable
      BY <1>i, <2>2 DEF TxRelease, Reliable
    <2>6. WritingInv'
      BY <1>0, <1>i, <2>5 DEF TxRelease, Answer, NoRequest, LocksInv, WritingInv
    <2>7. QED
      BY <1>0, <1>i, <2>1, <2>2, <2>3, <2>4, <2>6, NoGrantStep DEF TxRelease, LocksInv, TypeOK
  <1>j. CASE ClearMemory
    <2>1. Reliable' = {}
      BY <1>j DEF ClearMemory, LocksInv, GrantSurvives, Reliable
    <2>2. mem' \cup rows' \cup held' \cup dropped' \cup expired' \subseteq Owned
      BY <1>j DEF ClearMemory, LocksInv, NumberedInv
    <2>3. GrantSurvives'
      BY <2>1 DEF GrantSurvives
    <2>4. QED
      BY <1>j, <2>2, <2>3, LocksStep DEF ClearMemory, LocksInv, TypeOK
  <1>k. CASE ClearRows
    <2>1. faults' \in 0 .. MaxFaults
      BY <1>k, FaultCount DEF ClearRows
    <2>2. mem' \cup rows' \cup held' \cup dropped' \cup expired' \subseteq Owned
      BY <1>k DEF ClearRows, LocksInv, NumberedInv
    <2>3. GrantSurvives'
      BY <1>k DEF ClearRows, LocksInv, GrantSurvives, Reliable
    <2>4. QED
      BY <1>k, <2>1, <2>2, <2>3, LocksStep, Zenon DEF ClearRows, LocksInv, TypeOK
  <1>l. ASSUME NEW l \in Locks, Expire(l) PROVE LocksInv'
    <2>1. mem' \cup rows' \cup held' \cup dropped' \cup expired' \subseteq Owned
      BY <1>l DEF Expire, LocksInv, NumberedInv, Owned
    <2>2. GrantSurvives' /\ held' \cap expired' = {}
      BY <1>l DEF Expire, LocksInv, GrantSurvives, Reliable
    <2>3. QED
      BY <1>l, <2>1, <2>2, LocksStep DEF Expire, LocksInv, TypeOK
  <1>m. CASE Cleanup
    <2>1. faults' \in 0 .. MaxFaults
      BY <1>m, FaultCount DEF Cleanup
    <2>2. mem' \cup rows' \cup held' \cup dropped' \cup expired' \subseteq Owned
      BY <1>m DEF Cleanup, Sweep, Live, LocksInv, NumberedInv
    <2>3. GrantSurvives'
      BY <1>m DEF Cleanup, Sweep, Live, LocksInv, GrantSurvives, Reliable
    <2>4. QED
      BY <1>m, <2>1, <2>2, <2>3, LocksStep DEF Cleanup, LocksInv, TypeOK
  <1>n. CASE Crash
    <2>1. crashes' \in 0 .. MaxCrashes
      BY <1>n, LocksAssumption DEF Crash, LocksInv, TypeOK
    <2>2. mem' \cup rows' \cup held' \cup dropped' \cup expired' \subseteq Owned
      BY <1>n DEF Crash, LocksInv, NumberedInv
    <2>3. GrantSurvives'
      BY <1>n DEF Crash, LocksInv, GrantSurvives, Reliable
    <2>4. req' \in [Clients -> RequestState]
      BY <1>n DEF Crash, NoRequest, RequestState
    <2>5. WritingInv'
      BY <1>n DEF Crash, NoRequest, WritingInv
    <2>6. QED
      BY <1>n, <2>1, <2>2, <2>3, <2>4, <2>5, NoGrantStep, Zenon DEF Crash, LocksInv, TypeOK
  <1>o. CASE Start
    <2>1. faults' \in 0 .. MaxFaults
      BY <1>o, FaultCount DEF Start
    <2>2. mem' \cup rows' \cup held' \cup dropped' \cup expired' \subseteq Owned
      BY <1>o DEF Start, LocksInv, NumberedInv
    <2>3. GrantSurvives'
      BY <1>o DEF Start, LocksInv, GrantSurvives, Reliable
    <2>4. QED
      BY <1>o, <2>1, <2>2, <2>3, LocksStep DEF Start, LocksInv, TypeOK
  <1>p. CASE UNCHANGED vars
    <2>1. WritingInv'
      BY <1>p DEF vars, LocksInv, WritingInv, Reliable
    <2>2. QED
      BY <1>0, <1>p, <2>1, RequestStep DEF vars
  <1>q. QED
    BY <1>a, <1>b, <1>c, <1>d, <1>e, <1>f, <1>g, <1>h, <1>i, <1>j, <1>k, <1>l, <1>m, <1>n, <1>o, <1>p,
       AcquireStep
    DEF Next, Serve

-----------------------------------------------------------------------------
(* The server's locks and requests stay within their types. *)
THEOREM LocksTypeCorrect == Spec => []TypeOK
  <1>1. LocksInv => TypeOK
    BY DEF LocksInv
  <1>2. QED
    BY <1>1, LocksInit, LocksNext, PTL DEF Spec

(* A granted lock has its row and is known to every running server until it
   is released or over, whatever restarts and failing statements there are;
   loadPersisted and AcquireLockOwnedContext together keep it. *)
THEOREM GrantedLocksSurvive == Spec => []GrantSurvives
  <1>1. LocksInv => GrantSurvives
    BY DEF LocksInv
  <1>2. QED
    BY <1>1, LocksInit, LocksNext, PTL DEF Spec

(* No feature is granted twice and no quota is exceeded: what
   AcquireLockOwnedContext finds in memory is all that was granted. *)
THEOREM GrantedLocksExclude == Spec => []GrantsExclusive
  <1>1. LocksInv => GrantsExclusive
    BY DEF LocksInv
  <1>2. QED
    BY <1>1, LocksInit, LocksNext, PTL DEF Spec

(* What CheckFeatureLocks found for a transaction inside the write gate is
   still true when the source commits. *)
THEOREM CommitsRespectLocks == Spec => WritesRespectLocks
  <1>1. ASSUME LocksInv, NEW c \in Clients, TxCommit(c)
        PROVE  \A l \in Reliable \ {req[c].lock} : cover[l] \cap req[c].ids = {}
    BY <1>1 DEF LocksInv, WritingInv, TxCommit, At
  <1>2. LocksInv /\ [Next]_vars =>
          [\A c \in Clients : TxCommit(c) =>
              \A l \in Reliable \ {req[c].lock} : cover[l] \cap req[c].ids = {}]_vars
    BY <1>1
  <1>3. QED
    BY <1>2, LocksInit, LocksNext, PTL DEF Spec, WritesRespectLocks
=============================================================================
