------------------------ MODULE AuditDeliveryProofs ------------------------
(***************************************************************************)
(* No accepted audit event is lost, the pending counter covers the backlog *)
(* but for the events a Store has overwritten, and a lost event keeps the  *)
(* server unready, for any set of events, batch size and number of         *)
(* restarts.                                                               *)
(***************************************************************************)
EXTENDS AuditDelivery, FiniteSetTheorems, WellFoundedInduction, TLAPS

(* Where an accepted event may be. *)
Kept(e) == e \in rows \/ e \in outbox \/ e \in aged

(***************************************************************************)
(* The inductive invariant.  An event is safe from the moment it is in the *)
(* outbox (queued, counted) and not only when Record returns; and a row is *)
(* deleted from the outbox only after its event was written.               *)
(***************************************************************************)
DeliveryInv ==
    /\ TypeOK
    /\ \A e \in Events : pc[e] \in {"queued", "counted", "accepted"} => Kept(e)
    /\ drain.at \in {"write", "delete"} => drain.cur \in Events
    /\ drain.at = "delete" => drain.cur \in rows \/ drain.cur \in aged

(* The oldest event of a nonempty outbox listing is one of its events. *)
LEMMA OldestInSet ==
    ASSUME NEW S \in SUBSET Nat, S # {}
    PROVE  Oldest(S) \in S
  <1>1. PICK x \in S : \A y \in S : ~ (<<y, x>> \in OpToRel(<, Nat))
    BY NatLessThanWellFounded, WFMin, Zenon
  <1>2. \A y \in S : ~ (y < x)
    BY <1>1, Zenon DEF OpToRel
  <1>3. \A y \in S : x <= y
    BY <1>2
  <1>4. QED
    BY <1>3, Zenon DEF Oldest

(* Moving to the next listed item keeps the batch well typed, and names an
   event to deliver unless the batch is exhausted. *)
LEMMA NextItemType ==
    ASSUME NEW d, NEW todo \in SUBSET Events,
           d \in DrainState
    PROVE  /\ NextItem(d, todo) \in DrainState
           /\ NextItem(d, todo).at \in {"count", "write"}
           /\ NextItem(d, todo).at = "write" =>
                  /\ NextItem(d, todo).cur \in Events /\ NextItem(d, todo).cur \in todo
                  /\ NextItem(d, todo).todo = todo \ {NextItem(d, todo).cur}
  <1>1. CASE todo = {}
    BY <1>1, Zenon DEF NextItem, DrainState
  <1>2. CASE todo # {}
    <2>1. Oldest(todo) \in todo
      BY <1>2, OldestInSet, AuditAssumption
    <2>2. QED
      BY <1>2, <2>1, Zenon DEF NextItem, DrainState
  <1>3. QED
    BY <1>1, <1>2

(* The state of drainMu when no batch is running. *)
LEMMA IdleType == Idle \in DrainState /\ Idle.at = "idle"
  BY DEF Idle, DrainState

(* The outbox is a finite set, so its count is a natural number. *)
LEMMA OutboxCount ==
    ASSUME NEW S \in SUBSET Events
    PROVE  Cardinality(S) \in Nat
  BY AuditAssumption, FS_Subset, FS_CardinalityType, Zenon

(* The invariant holds when the Manager is opened on empty databases. *)
LEMMA DeliveryInit == Init => DeliveryInv
  <1> SUFFICES ASSUME Init PROVE DeliveryInv
    OBVIOUS
  <1>1. TypeOK
    <2>1. rows \subseteq Events BY DEF Init
    <2>2. outbox \subseteq Events /\ aged \subseteq Events /\ late \subseteq Events /\ uncounted \subseteq Events /\ pending \in Int BY DEF Init
    <2>3. writeBad \in BOOLEAN /\ retainBad \in BOOLEAN /\ lost \in BOOLEAN BY Zenon DEF Init
    <2>4. pc \in [Events -> PC] BY DEF Init, PC
    <2>5. drain \in DrainState BY IdleType DEF Init
    <2>6. mode \in {"serving", "draining", "stopped"} BY DEF Init
    <2>7. restarts \in 0..MaxRestarts BY AuditAssumption DEF Init
    <2>8. QED BY <2>1, <2>2, <2>3, <2>4, <2>5, <2>6, <2>7 DEF TypeOK
  <1>2. QED
    BY <1>1, IdleType DEF Init, DeliveryInv

(* Every step of Record, drainBatch, Purge, Close and a restart preserves it. *)
LEMMA DeliveryStep == DeliveryInv /\ [Next]_vars => DeliveryInv'
  <1> SUFFICES ASSUME DeliveryInv, [Next]_vars PROVE DeliveryInv'
    OBVIOUS
  <1> USE DEF DeliveryInv, Kept
  <1>a. ASSUME NEW e \in Events, RecordBegin(e) PROVE DeliveryInv'
    BY <1>a DEF RecordBegin, TypeOK, PC
  <1>b. ASSUME NEW e \in Events, DirectWrite(e) PROVE DeliveryInv'
    BY <1>b DEF DirectWrite, InsertEvent, TypeOK, PC
  <1>c. ASSUME NEW e \in Events, EnqueueInsert(e) PROVE DeliveryInv'
    BY <1>c DEF EnqueueInsert, TypeOK, PC
  <1>d. ASSUME NEW e \in Events, EnqueueFail(e) PROVE DeliveryInv'
    BY <1>d DEF EnqueueFail, TypeOK, PC
  <1>e. ASSUME NEW e \in Events, EnqueueCount(e) PROVE DeliveryInv'
    BY <1>e DEF EnqueueCount, TypeOK, PC
  <1>f. ASSUME NEW e \in Events, EnqueueFlag(e) PROVE DeliveryInv'
    BY <1>f DEF EnqueueFlag, TypeOK, PC
  <1>g. ASSUME NEW e \in Events, Age(e) PROVE DeliveryInv'
    BY <1>g DEF Age, TypeOK
  <1>h. ASSUME NEW c \in {"retry", "close"}, DrainBeginBy(c) PROVE DeliveryInv'
    <2>1. Batch(outbox) \in SUBSET Events
      BY DEF Batch, TypeOK
    <2>2. [Idle EXCEPT !.by = c] \in DrainState
      BY DEF Idle, DrainState
    <2>3. CASE drain' = NextItem([Idle EXCEPT !.by = c], Batch(outbox)) /\ UNCHANGED writeBad
      BY <1>h, <2>1, <2>2, <2>3, NextItemType DEF DrainBeginBy, TypeOK
    <2>4. CASE DrainFailed
      BY <1>h, <2>4, IdleType DEF DrainBeginBy, DrainFailed, TypeOK, DrainState
    <2>5. QED
      BY <1>h, <2>3, <2>4 DEF DrainBeginBy
  <1>i. CASE DrainWrite
    <2>1. CASE /\ rows' = InsertEvent(drain.cur)
               /\ drain' = [drain EXCEPT !.at = "delete"]
               /\ UNCHANGED writeBad
      BY <1>i, <2>1 DEF DrainWrite, InsertEvent, TypeOK, DrainState
    <2>2. CASE rows' \in {rows, InsertEvent(drain.cur)} /\ DrainFailed
      BY <1>i, <2>2, IdleType DEF DrainWrite, DrainFailed, InsertEvent, TypeOK
    <2>3. QED
      BY <1>i, <2>1, <2>2 DEF DrainWrite
  <1>j. CASE DrainDelete
    <2>1. CASE /\ outbox' = outbox \ {drain.cur}
               /\ pending' = pending - 1
               /\ drain' = NextItem(drain, drain.todo)
               /\ UNCHANGED writeBad
      <3>1. drain.todo \in SUBSET Events
        BY DEF TypeOK, DrainState
      <3>2. TypeOK'
        BY <1>j, <2>1, <3>1, NextItemType DEF DrainDelete, TypeOK
      <3>3. QED
        BY <1>j, <2>1, <3>1, <3>2, NextItemType DEF DrainDelete, TypeOK
    <2>2. CASE outbox' \in {outbox, outbox \ {drain.cur}} /\ DrainFailed /\ UNCHANGED pending
      BY <1>j, <2>2, IdleType DEF DrainDelete, DrainFailed, TypeOK, DrainState
    <2>3. QED
      BY <1>j, <2>1, <2>2 DEF DrainDelete
  <1>k. CASE DrainCount
    <2>1. Cardinality(outbox) \in Nat
      BY OutboxCount DEF TypeOK
    <2>2. CASE drain' = [drain EXCEPT !.at = "store", !.count = Cardinality(outbox)] /\ UNCHANGED writeBad
      <3>1. drain' \in DrainState /\ drain'.at = "store"
        BY <2>1, <2>2, Zenon DEF TypeOK, DrainState
      <3>2. QED
        BY <1>k, <2>2, <3>1 DEF DrainCount, TypeOK
    <2>3. CASE DrainFailed
      BY <1>k, <2>3, IdleType DEF DrainCount, DrainFailed, TypeOK
    <2>4. QED
      BY <1>k, <2>2, <2>3 DEF DrainCount
  <1>l. CASE DrainStore
    BY <1>l DEF DrainStore, TypeOK, DrainState
  <1>m. CASE DrainRecover
    <2>1. CASE drain' = [drain EXCEPT !.at = "swap"] /\ UNCHANGED writeBad
      BY <1>m, <2>1 DEF DrainRecover, TypeOK, DrainState
    <2>2. CASE DrainFailed
      BY <1>m, <2>2, IdleType DEF DrainRecover, DrainFailed, TypeOK
    <2>3. QED
      BY <1>m, <2>1, <2>2 DEF DrainRecover
  <1>t. CASE DrainSwap
    BY <1>t, IdleType, Zenon DEF DrainSwap, TypeOK
  <1>n. CASE Purge
    <2>1. CASE rows' = rows \ aged /\ retainBad' = FALSE
      BY <1>n, <2>1, Zenon DEF Purge, TypeOK
    <2>2. CASE retainBad' = TRUE /\ UNCHANGED rows
      BY <1>n, <2>2 DEF Purge, TypeOK
    <2>3. QED
      BY <1>n, <2>1, <2>2, Zenon DEF Purge
  <1>o. CASE CloseBegin
    BY <1>o DEF CloseBegin, TypeOK
  <1>p. CASE CloseFinish
    BY <1>p DEF CloseFinish, TypeOK
  <1>q. CASE Restart
    <2>1. pending' \in Int
      BY <1>q, OutboxCount DEF Restart, TypeOK
    <2>2. writeBad' \in BOOLEAN /\ retainBad' \in BOOLEAN /\ lost' \in BOOLEAN
      BY <1>q, Zenon DEF Restart
    <2>3. pc' \in [Events -> PC]
      BY <1>q DEF Restart, TypeOK, PC
    <2>4. restarts' \in 0..MaxRestarts
      BY <1>q, AuditAssumption DEF Restart, TypeOK
    <2>5. TypeOK'
      BY <1>q, <2>1, <2>2, <2>3, <2>4, IdleType DEF Restart, TypeOK
    <2>6. \A e \in Events : pc'[e] \in {"queued", "counted", "accepted"} => pc[e] = "accepted"
      BY <1>q DEF Restart, TypeOK
    <2>7. QED
      BY <1>q, <2>5, <2>6, IdleType DEF Restart
  <1>r. CASE UNCHANGED vars
    BY <1>r DEF vars, TypeOK
  <1>s. QED
    BY <1>a, <1>b, <1>c, <1>d, <1>e, <1>f, <1>g, <1>h, <1>i, <1>j, <1>k, <1>l, <1>m,
       <1>n, <1>o, <1>p, <1>q, <1>r, <1>t DEF Next, RetryBegin, CloseDrainBegin

(* The audit Manager's state stays within its types. *)
THEOREM AuditTypeCorrect == Spec => []TypeOK
  <1>1. DeliveryInv => TypeOK
    BY DEF DeliveryInv
  <1>2. QED
    BY <1>1, DeliveryInit, DeliveryStep, PTL DEF Spec

(* An event whose Record returned nil is never lost: it is in the audit
   database, in the outbox, or behind the retention cutoff. *)
THEOREM AcceptedEventsKept == Spec => []AcceptedNotLost
  <1>1. DeliveryInv => AcceptedNotLost
    BY DEF DeliveryInv, AcceptedNotLost, Kept
  <1>2. QED
    BY <1>1, DeliveryInit, DeliveryStep, PTL DEF Spec

-----------------------------------------------------------------------------
(* The pending counter. *)

Unadded == {e \in Events : pc[e] \in {"queued", "rejected"}}
Rejected == {e \in Events : pc[e] = "rejected"}

(***************************************************************************)
(* A batch deletes what it listed and nothing else does, so that every     *)
(* subtraction stands for a deleted row; and while a count waits to be     *)
(* stored, what it lacks was queued after it.                              *)
(***************************************************************************)
CountInv ==
    /\ drain.at \in {"write", "delete"} => drain.cur \in outbox /\ drain.todo \subseteq outbox \ {drain.cur}
    /\ \A e \in late : pc[e] \in {"queued", "counted", "accepted"}
    /\ drain.at = "store" => Cardinality(outbox) <= drain.count + Cardinality(late) + Cardinality(Rejected)
    /\ BacklogCounted

(* Sets of events are finite: their cardinalities under the operations that
   the steps use. *)
LEMMA Counting ==
    ASSUME NEW S \in SUBSET Events, NEW e \in Events
    PROVE  /\ Cardinality(S) \in Nat
           /\ Cardinality(S \cup {e}) \in Nat
           /\ Cardinality(S \cup {e}) <= Cardinality(S) + 1
           /\ e \notin S => Cardinality(S \cup {e}) = Cardinality(S) + 1
           /\ Cardinality(S \ {e}) <= Cardinality(S)
           /\ e \in S => Cardinality(S \ {e}) = Cardinality(S) - 1
  <1>1. IsFiniteSet(S) /\ Cardinality(S) \in Nat
    BY AuditAssumption, FS_Subset, FS_CardinalityType, Zenon
  <1>2. Cardinality(S \cup {e}) = IF e \in S THEN Cardinality(S) ELSE Cardinality(S) + 1
    BY <1>1, FS_AddElement
  <1>3. Cardinality(S \ {e}) = IF e \in S THEN Cardinality(S) - 1 ELSE Cardinality(S)
    BY <1>1, FS_RemoveElement, Zenon
  <1>4. QED
    BY <1>1, <1>2, <1>3

(* The goroutine of e stays where it is, or moves outside the stretch in which
   it has queued the event and not yet counted it. *)
Onward(e) ==
    \/ pc'[e] = pc[e]
    \/ /\ pc[e] \notin {"queued", "rejected", "accepted"}
       /\ pc'[e] \notin {"queued", "rejected"}
       /\ pc[e] = "counted" => pc'[e] = "accepted"

(* The steps that touch neither the outbox, the counter, the history nor who
   has queued what. *)
LEMMA CountFrame ==
    ASSUME CountInv, UNCHANGED <<outbox, pending, late, uncounted>>,
           pc \in [Events -> PC], late \subseteq Events,
           \A e \in Events : Onward(e),
           drain'.at \in {"write", "delete"} => drain'.cur \in outbox /\ drain'.todo \subseteq outbox \ {drain'.cur},
           drain'.at # "store" \/ drain' = drain
    PROVE  CountInv'
  <1>1. Unadded' = Unadded /\ Rejected' = Rejected
    BY DEF Unadded, Rejected, Onward
  <1>2. \A e \in late : pc'[e] \in {"queued", "counted", "accepted"}
    BY DEF CountInv, Onward
  <1>3. BacklogCounted'
    BY <1>1 DEF CountInv, BacklogCounted, Unadded
  <1>4. drain'.at = "store" => Cardinality(outbox) <= drain'.count + Cardinality(late) + Cardinality(Rejected')
    BY <1>1 DEF CountInv
  <1>5. QED
    BY <1>2, <1>3, <1>4 DEF CountInv

(* Every step keeps the counter above what it has to cover. *)
LEMMA CountStep == DeliveryInv /\ CountInv /\ [Next]_vars => CountInv'
  <1> SUFFICES ASSUME DeliveryInv, CountInv, [Next]_vars PROVE CountInv'
    OBVIOUS
  <1>0. /\ outbox \in SUBSET Events /\ late \in SUBSET Events /\ uncounted \in SUBSET Events
        /\ pending \in Int /\ pc \in [Events -> PC] /\ drain \in DrainState
        /\ Unadded \in SUBSET Events /\ Rejected \in SUBSET Events
    BY DEF DeliveryInv, TypeOK, Unadded, Rejected
  <1>1. /\ Cardinality(outbox) \in Nat /\ Cardinality(late) \in Nat /\ Cardinality(uncounted) \in Nat
        /\ Cardinality(Unadded) \in Nat /\ Cardinality(Rejected) \in Nat /\ drain.count \in Nat
    BY <1>0, OutboxCount, Zenon DEF DrainState
  <1>2. Cardinality(outbox) <= pending + Cardinality(Unadded) + Cardinality(uncounted)
    BY DEF CountInv, BacklogCounted, Unadded
  <1>3. drain.at = "store" => Cardinality(outbox) <= drain.count + Cardinality(late) + Cardinality(Rejected)
    BY DEF CountInv
  <1>a. ASSUME NEW e \in Events, RecordBegin(e) \/ DirectWrite(e) \/ EnqueueFlag(e)
        PROVE  CountInv'
    <2>1. UNCHANGED <<outbox, pending, late, uncounted, drain>>
      BY <1>a DEF RecordBegin, DirectWrite, EnqueueFlag
    <2>2. \A f \in Events : Onward(f)
      BY <1>0, <1>a DEF RecordBegin, DirectWrite, EnqueueFlag, Onward
    <2>3. QED
      BY <1>0, <2>1, <2>2, CountFrame DEF CountInv
  <1>b. ASSUME NEW e \in Events, EnqueueInsert(e)
        PROVE  CountInv'
    <2>1. /\ pc[e] = "enqueue" /\ outbox' = outbox \cup {e} /\ pending' = pending /\ drain' = drain
          /\ uncounted' = uncounted /\ late' = IF drain.at = "store" THEN late \cup {e} ELSE late
          /\ pc' = [pc EXCEPT ![e] = "queued"]
      BY <1>b DEF EnqueueInsert
    <2>2. Unadded' = Unadded \cup {e} /\ e \notin Unadded /\ Rejected' = Rejected
      BY <1>0, <2>1 DEF Unadded, Rejected
    <2>3. e \notin late
      BY <2>1 DEF CountInv
    <2>4. /\ Cardinality(outbox') <= Cardinality(outbox) + 1
          /\ Cardinality(outbox') \in Nat
          /\ Cardinality(Unadded') = Cardinality(Unadded) + 1
          /\ drain.at = "store" => Cardinality(late') = Cardinality(late) + 1
      BY <1>0, <2>1, <2>2, <2>3, Counting, Zenon
    <2>5. BacklogCounted'
      BY <1>0, <1>1, <1>2, <2>1, <2>4 DEF BacklogCounted, Unadded
    <2>6. drain'.at = "store" => Cardinality(outbox') <= drain'.count + Cardinality(late') + Cardinality(Rejected')
      BY <1>1, <1>3, <2>1, <2>2, <2>4
    <2>7. \A f \in late' : pc'[f] \in {"queued", "counted", "accepted"}
      BY <1>0, <2>1 DEF CountInv
    <2>8. QED
      BY <2>1, <2>5, <2>6, <2>7 DEF CountInv
  <1>c. ASSUME NEW e \in Events, EnqueueFail(e)
        PROVE  CountInv'
    <2>1. /\ pc[e] = "enqueue" /\ outbox' \in {outbox, outbox \cup {e}} /\ pending' = pending /\ drain' = drain
          /\ uncounted' = uncounted /\ late' = late /\ pc' = [pc EXCEPT ![e] = "rejected"]
      BY <1>c DEF EnqueueFail
    <2>2. Unadded' = Unadded \cup {e} /\ e \notin Unadded /\ Rejected' = Rejected \cup {e} /\ e \notin Rejected
      BY <1>0, <2>1 DEF Unadded, Rejected
    <2>3. /\ Cardinality(outbox') <= Cardinality(outbox) + 1
          /\ Cardinality(outbox') \in Nat
          /\ Cardinality(Unadded') = Cardinality(Unadded) + 1
          /\ Cardinality(Rejected') = Cardinality(Rejected) + 1
      <3>1. Cardinality(outbox \cup {e}) <= Cardinality(outbox) + 1 /\ Cardinality(outbox \cup {e}) \in Nat
        BY <1>0, Counting, Zenon
      <3>2. Cardinality(outbox') <= Cardinality(outbox) + 1 /\ Cardinality(outbox') \in Nat
        <4>1. CASE outbox' = outbox
          BY <1>1, <4>1
        <4>2. CASE outbox' = outbox \cup {e}
          BY <3>1, <4>2
        <4>3. QED
          BY <2>1, <4>1, <4>2
      <3>3. QED
        BY <1>0, <2>2, <3>2, Counting
    <2>4. BacklogCounted'
      BY <1>0, <1>1, <1>2, <2>1, <2>3 DEF BacklogCounted, Unadded
    <2>5. drain'.at = "store" => Cardinality(outbox') <= drain'.count + Cardinality(late') + Cardinality(Rejected')
      BY <1>1, <1>3, <2>1, <2>3
    <2>6. \A f \in late' : pc'[f] \in {"queued", "counted", "accepted"}
      BY <1>0, <2>1 DEF CountInv
    <2>7. QED
      BY <2>1, <2>4, <2>5, <2>6 DEF CountInv
  <1>d. ASSUME NEW e \in Events, EnqueueCount(e)
        PROVE  CountInv'
    <2>1. /\ pc[e] = "queued" /\ outbox' = outbox /\ pending' = pending + 1 /\ drain' = drain
          /\ uncounted' = uncounted /\ late' = late /\ pc' = [pc EXCEPT ![e] = "counted"]
      BY <1>d DEF EnqueueCount
    <2>2. Unadded' = Unadded \ {e} /\ e \in Unadded /\ Rejected' = Rejected
      BY <1>0, <2>1 DEF Unadded, Rejected
    <2>3. Cardinality(Unadded') = Cardinality(Unadded) - 1
      BY <1>0, <2>2, Counting
    <2>4. BacklogCounted'
      BY <1>0, <1>1, <1>2, <2>1, <2>3 DEF BacklogCounted, Unadded
    <2>5. \A f \in late' : pc'[f] \in {"queued", "counted", "accepted"}
      BY <1>0, <2>1 DEF CountInv
    <2>6. QED
      BY <1>3, <2>1, <2>2, <2>4, <2>5 DEF CountInv
  <1>e. ASSUME NEW c \in {"retry", "close"}, DrainBeginBy(c) PROVE CountInv'
    <2>1. UNCHANGED <<outbox, pending, late, uncounted, pc>>
      BY <1>e DEF DrainBeginBy
    <2>2. Batch(outbox) \in SUBSET Events /\ Batch(outbox) \subseteq outbox /\ [Idle EXCEPT !.by = c] \in DrainState
      BY <1>0 DEF Batch, Idle, DrainState
    <2>3. drain' = Idle \/ drain' = NextItem([Idle EXCEPT !.by = c], Batch(outbox))
      BY <1>e DEF DrainBeginBy, DrainFailed
    <2>4. /\ drain'.at \in {"write", "delete"} => drain'.cur \in outbox /\ drain'.todo \subseteq outbox \ {drain'.cur}
          /\ drain'.at # "store"
      BY <2>2, <2>3, NextItemType, IdleType
    <2>5. QED
      BY <1>0, <2>1, <2>4, CountFrame DEF Onward
  <1>f. CASE DrainWrite
    <2>1. UNCHANGED <<outbox, pending, late, uncounted, pc>> /\ drain.at = "write"
      BY <1>f DEF DrainWrite
    <2>2. drain' = Idle \/ drain' = [drain EXCEPT !.at = "delete"]
      BY <1>f DEF DrainWrite, DrainFailed
    <2>3. /\ drain'.at \in {"write", "delete"} => drain'.cur = drain.cur /\ drain'.todo = drain.todo
          /\ drain'.at # "store"
      BY <1>0, <2>2, IdleType DEF DrainState
    <2>4. QED
      BY <1>0, <2>1, <2>3, CountFrame DEF CountInv, Onward
  <1>g. CASE DrainDelete
    <2>1. UNCHANGED <<late, uncounted, pc>> /\ drain.at = "delete" /\ Unadded' = Unadded
      BY <1>g DEF DrainDelete, Unadded
    <2>2. drain.cur \in outbox /\ drain.todo \subseteq outbox \ {drain.cur} /\ drain.todo \in SUBSET Events
      BY <1>0, <2>1 DEF CountInv, DrainState
    <2>3. /\ Cardinality(outbox \ {drain.cur}) = Cardinality(outbox) - 1
      BY <1>0, <2>2, Counting
    <2>4. CASE /\ outbox' = outbox \ {drain.cur} /\ pending' = pending - 1
               /\ drain' = NextItem(drain, drain.todo)
      <3>1. /\ drain'.at = "write" => drain'.cur \in drain.todo /\ drain'.todo = drain.todo \ {drain'.cur}
            /\ drain'.at \in {"count", "write"}
        BY <1>0, <2>2, <2>4, NextItemType
      <3>2. BacklogCounted'
        BY <1>0, <1>1, <1>2, <2>1, <2>3, <2>4 DEF BacklogCounted, Unadded
      <3>3. QED
        BY <2>1, <2>2, <2>4, <3>1, <3>2 DEF CountInv
    <2>5. CASE /\ outbox' \in {outbox, outbox \ {drain.cur}} /\ pending' = pending /\ drain' = Idle
      <3>1. Cardinality(outbox') <= Cardinality(outbox) /\ Cardinality(outbox') \in Int
        <4>1. CASE outbox' = outbox
          BY <1>1, <4>1
        <4>2. CASE outbox' = outbox \ {drain.cur}
          BY <1>1, <2>3, <4>2
        <4>3. QED
          BY <2>5, <4>1, <4>2
      <3>3. BacklogCounted'
        BY <1>0, <1>1, <1>2, <2>1, <2>5, <3>1 DEF BacklogCounted, Unadded
      <3>4. QED
        BY <2>1, <2>5, <3>3, IdleType DEF CountInv
    <2>6. QED
      BY <1>g, <2>4, <2>5 DEF DrainDelete, DrainFailed
  <1>h. CASE DrainCount
    <2>1. UNCHANGED <<outbox, pending, late, uncounted, pc>>
      BY <1>h DEF DrainCount
    <2>2. CASE drain' = [drain EXCEPT !.at = "store", !.count = Cardinality(outbox)]
      <3>1. drain'.at = "store" /\ drain'.count = Cardinality(outbox)
        BY <1>0, <2>2 DEF DrainState
      <3>2. Rejected' = Rejected
        BY <2>1 DEF Rejected
      <3>3. Cardinality(outbox') <= drain'.count + Cardinality(late') + Cardinality(Rejected')
        BY <1>1, <2>1, <3>1, <3>2
      <3>4. QED
        BY <2>1, <3>1, <3>3 DEF CountInv, BacklogCounted
    <2>3. CASE drain' = Idle
      BY <1>0, <2>1, <2>3, CountFrame, IdleType DEF Onward
    <2>4. QED
      BY <1>h, <2>2, <2>3 DEF DrainCount, DrainFailed
  <1>i. CASE DrainStore
    <2> DEFINE Waiting == {e \in late : pc[e] = "queued"}
    <2>1. /\ UNCHANGED <<outbox, pc>> /\ drain.at = "store" /\ pending' = drain.count /\ late' = {}
          /\ uncounted' = {e \in late : pc[e] # "queued"} /\ drain' = [drain EXCEPT !.at = "recover"]
      BY <1>i DEF DrainStore
    <2>2. drain'.at = "recover" /\ Unadded' = Unadded
      BY <1>0, <2>1 DEF DrainState, Unadded
    <2>3. /\ IsFiniteSet(Waiting) /\ IsFiniteSet(uncounted') /\ IsFiniteSet(Rejected) /\ IsFiniteSet(Unadded)
          /\ Cardinality(Waiting) \in Nat /\ Cardinality(uncounted') \in Nat
      <3>1. Waiting \in SUBSET Events /\ uncounted' \in SUBSET Events
        BY <1>0, <2>1
      <3>2. QED
        BY <1>0, <3>1, AuditAssumption, FS_Subset, FS_CardinalityType, Zenon
    <2>4. Cardinality(late) <= Cardinality(Waiting) + Cardinality(uncounted')
      <3>1. late = Waiting \cup uncounted' /\ Waiting \cap uncounted' = {}
        BY <2>1
      <3>2. Cardinality(Waiting \cup uncounted') =
                Cardinality(Waiting) + Cardinality(uncounted') - Cardinality(Waiting \cap uncounted')
        BY <2>3, FS_Union
      <3>3. Cardinality(Waiting \cap uncounted') = 0
        BY <3>1, FS_EmptySet
      <3>4. Cardinality(late) = Cardinality(Waiting \cup uncounted')
        BY <3>1, Zenon
      <3> HIDE DEF Waiting
      <3>5. Cardinality(Waiting) \in Nat /\ Cardinality(uncounted') \in Nat
        BY <2>3, Zenon
      <3>6. QED
        BY <3>2, <3>3, <3>4, <3>5
    <2>5. Cardinality(Waiting) + Cardinality(Rejected) <= Cardinality(Unadded)
      <3>1. Waiting \cap Rejected = {} /\ (Waiting \cup Rejected) \subseteq Unadded
        BY <1>0 DEF Rejected, Unadded
      <3>2. Cardinality(Waiting \cup Rejected) = Cardinality(Waiting) + Cardinality(Rejected)
        <4>1. Cardinality(Waiting \cup Rejected) =
                  Cardinality(Waiting) + Cardinality(Rejected) - Cardinality(Waiting \cap Rejected)
          BY <2>3, FS_Union
        <4>2. Cardinality(Waiting \cap Rejected) = 0
          BY <3>1, FS_EmptySet
        <4>3. QED
          BY <1>1, <2>3, <4>1, <4>2
      <3>3. QED
        BY <2>3, <3>1, <3>2, FS_Subset
    <2>6. BacklogCounted'
      <3> HIDE DEF Waiting
      <3>1. Cardinality(outbox) <= drain.count + Cardinality(late) + Cardinality(Rejected)
        BY <1>3, <2>1
      <3>2. /\ Cardinality(Waiting) \in Nat /\ Cardinality(uncounted') \in Nat
            /\ Cardinality(late) \in Nat /\ Cardinality(Rejected) \in Nat
            /\ Cardinality(Unadded) \in Nat /\ drain.count \in Nat /\ Cardinality(outbox) \in Nat
        BY <1>1, <2>3, Zenon
      <3>3. Cardinality(outbox) <= drain.count + Cardinality(Unadded) + Cardinality(uncounted')
        BY <2>4, <2>5, <3>1, <3>2
      <3>4. QED
        BY <2>1, <2>2, <3>3 DEF BacklogCounted, Unadded
    <2>7. QED
      BY <2>1, <2>2, <2>6 DEF CountInv
  <1>j. CASE DrainRecover \/ DrainSwap
    <2>1. UNCHANGED <<outbox, pending, late, uncounted, pc>>
      BY <1>j DEF DrainRecover, DrainSwap
    <2>2. drain' = Idle \/ drain' = [drain EXCEPT !.at = "swap"]
      BY <1>j DEF DrainRecover, DrainSwap, DrainFailed
    <2>3. drain'.at \in {"idle", "swap"}
      BY <1>0, <2>2, IdleType DEF DrainState
    <2>4. QED
      BY <1>0, <2>1, <2>3, CountFrame DEF Onward
  <1>k. CASE Restart
    <2>1. /\ outbox' = outbox /\ pending' = Cardinality(outbox) /\ late' = {} /\ uncounted' = {} /\ drain' = Idle
      BY <1>k DEF Restart
    <2>2. Cardinality(Unadded') \in Nat /\ Cardinality({}) = 0
      <3>1. Unadded' \in SUBSET Events
        BY DEF Unadded
      <3>2. QED
        BY <3>1, OutboxCount, FS_EmptySet
    <2>3. BacklogCounted'
      BY <1>1, <2>1, <2>2 DEF BacklogCounted, Unadded
    <2>4. QED
      BY <2>1, <2>3, IdleType DEF CountInv
  <1>l. CASE UNCHANGED <<outbox, pending, late, uncounted, pc, drain>>
    BY <1>0, <1>l, CountFrame DEF CountInv, Onward
  <1>m. QED
    BY <1>a, <1>b, <1>c, <1>d, <1>e, <1>f, <1>g, <1>h, <1>i, <1>j, <1>k, <1>l
    DEF Next, vars, Age, RetryBegin, CloseDrainBegin, Purge, CloseBegin, CloseFinish

(* The counter that /ready and the retry loop go by covers the backlog of the
   outbox, but for what a Store has overwritten. *)
THEOREM BacklogIsCounted == Spec => []BacklogCounted
  <1>1. Init => CountInv
    <2> SUFFICES ASSUME Init PROVE CountInv
      OBVIOUS
    <2>1. Unadded \in SUBSET Events
      BY DEF Unadded
    <2>2. Cardinality(Unadded) \in Nat /\ Cardinality({}) = 0
      BY <2>1, OutboxCount, FS_EmptySet
    <2>3. BacklogCounted
      BY <2>2 DEF Init, BacklogCounted, Unadded
    <2>4. QED
      BY <2>3, IdleType DEF Init, CountInv
  <1>2. CountInv => BacklogCounted
    BY DEF CountInv
  <1>3. QED
    BY <1>1, <1>2, CountStep, DeliveryInit, DeliveryStep, PTL DEF Spec

(* The loss is latched in the flag that only a restart clears, and a restart
   has no request left that it could have been reported to. *)
LossFlagged == (\E e \in Events : pc[e] = "rejected") => lost

LEMMA LossFlaggedStep == DeliveryInv /\ LossFlagged /\ [Next]_vars => LossFlagged'
  <1> SUFFICES ASSUME DeliveryInv, LossFlagged, [Next]_vars, NEW r \in Events, pc'[r] = "rejected"
               PROVE  lost'
    BY DEF LossFlagged
  <1>1. pc \in [Events -> PC]
    BY DEF DeliveryInv, TypeOK
  <1>2. ASSUME NEW e \in Events, EnqueueFail(e) PROVE lost'
    BY <1>2 DEF EnqueueFail
  <1>3. CASE Restart
    <2>1. pc'[r] # "rejected"
      BY <1>1, <1>3 DEF Restart
    <2>2. QED
      BY <2>1
  <1>4. ASSUME NEW e \in Events,
               \/ RecordBegin(e) \/ DirectWrite(e) \/ EnqueueInsert(e)
               \/ EnqueueCount(e) \/ EnqueueFlag(e)
        PROVE  lost'
    <2>1. pc[r] = "rejected" /\ UNCHANGED lost
      BY <1>1, <1>4 DEF RecordBegin, DirectWrite, EnqueueInsert, EnqueueCount, EnqueueFlag
    <2>2. QED
      BY <2>1 DEF LossFlagged
  <1>5. CASE UNCHANGED <<pc, lost>>
    BY <1>5 DEF LossFlagged
  <1>6. QED
    BY <1>2, <1>3, <1>4, <1>5
    DEF Next, vars, Age, RetryBegin, CloseDrainBegin, DrainBeginBy, DrainWrite, DrainDelete,
        DrainCount, DrainStore, DrainRecover, DrainSwap, Purge, CloseBegin, CloseFinish

(* While the process lives that rejected an event, Health reports an error,
   whatever a drainBatch recovers. *)
THEOREM LossStaysVisible == Spec => []LossLatched
  <1>1. Init => LossFlagged
    BY DEF Init, LossFlagged
  <1>2. LossFlagged => LossLatched
    BY DEF LossFlagged, LossLatched, Healthy
  <1>3. QED
    BY <1>1, <1>2, LossFlaggedStep, DeliveryInit, DeliveryStep, PTL DEF Spec
=============================================================================
