---------------------- MODULE TileCacheOwnershipProofs ----------------------
(***************************************************************************)
(* Proofs about the ownership guard, for any number of starts of the        *)
(* server: type correctness, the fence, and, when the operator follows the  *)
(* documented recovery procedure, single ownership of the prefix.           *)
(***************************************************************************)
EXTENDS TileCacheOwnership, TLAPS

(* States in which a process has claimed the marker and not given it up. *)
Holds(p) == st[p] \in {"claimed", "held", "fencing"} \/ release[p]

(* A start that still has to claim has read the marker of some generation,  *)
(* and a generation names one marker.                                       *)
SeenInv ==
    /\ marker.gen # 0 => marker.owner \in Procs
    /\ \A p \in Procs :
        st[p] = "observed" =>
            /\ seen[p].gen <= marker.gen
            /\ seen[p].gen = marker.gen => seen[p] = marker

FenceInv ==
    \A p \in Procs :
        /\ admitted[p] > 0 => st[p] \in {"held", "fencing"}
        /\ release[p] => st[p] = "released"

(* A process's generation is its own marker for as long as it is the        *)
(* current one, whatever the operator does.                                 *)
TagInv ==
    \A p \in Procs :
        /\ etag[p] <= marker.gen
        /\ etag[p] # 0 /\ etag[p] = marker.gen => marker.owner = p /\ ~marker.released
        /\ Holds(p) => etag[p] # 0

(* The process a takeover names stays dead, and whoever holds the prefix    *)
(* is the owner in the marker: the claim of another needs a free marker or  *)
(* a dead owner.                                                            *)
OwnerInv ==
    forced = {} =>
        \A p \in Procs :
            /\ takeover[p] # None => st[takeover[p]] = "dead"
            /\ Holds(p) => marker.gen # 0 /\ Mine(p)

Inv == TypeOK /\ SeenInv /\ FenceInv /\ TagInv /\ OwnerInv
-----------------------------------------------------------------------------

(* A freshly started system satisfies the invariant. *)
LEMMA InitInv == Init => Inv
  <1> SUFFICES ASSUME Init PROVE Inv
    OBVIOUS
  <1> USE OwnershipAssumption DEF Init, Absent
  <1>1. TypeOK
    BY DEF TypeOK, Markers, States
  <1>2. SeenInv /\ FenceInv /\ TagInv /\ OwnerInv
    BY DEF SeenInv, FenceInv, TagInv, OwnerInv, Holds, TypeOK
  <1> QED
    BY <1>1, <1>2 DEF Inv

(* Every step of a process, and stuttering, keeps the types. *)
LEMMA TypeStep == TypeOK /\ [Next]_vars => TypeOK'
  <1> SUFFICES ASSUME TypeOK, [Next]_vars PROVE TypeOK'
    OBVIOUS
  <1> USE OwnershipAssumption DEF TypeOK, Markers, States
  <1>1. CASE UNCHANGED vars
    BY <1>1 DEF vars
  <1>2. ASSUME NEW p \in Procs, Step(p) PROVE TypeOK'
    <2>1. ASSUME NEW t \in Procs \cup {None}, Observe(p, t) PROVE TypeOK'
      BY <2>1 DEF Observe
    <2>2. CASE Claim(p)
      BY <2>2 DEF Claim, Claimed
    <2>3. CASE ClaimFails(p)
      BY <2>3 DEF ClaimFails
    <2>4. CASE Verify(p)
      BY <2>4 DEF Verify
    <2>5. CASE BeginMutation(p)
      BY <2>5 DEF BeginMutation
    <2>6. CASE EndMutation(p)
      BY <2>6 DEF EndMutation
    <2>7. CASE Check(p)
      BY <2>7 DEF Check
    <2>8. CASE MarkLost(p)
      BY <2>8 DEF MarkLost
    <2>9. CASE ReleaseFence(p)
      BY <2>9 DEF ReleaseFence
    <2>10. CASE ReleaseMarker(p)
      <3>1. marker' \in Markers
        <4>1. CASE marker' = [gen |-> marker.gen + 1, owner |-> p, released |-> TRUE]
          BY <4>1
        <4>2. CASE marker' = marker
          BY <4>2
        <4> QED
          BY <2>10, <4>1, <4>2 DEF ReleaseMarker
      <3>2. release' \in [Procs -> BOOLEAN]
        BY <2>10 DEF ReleaseMarker
      <3> QED
        BY <2>10, <3>1, <3>2 DEF ReleaseMarker
    <2>11. CASE Crash(p)
      BY <2>11 DEF Crash
    <2> QED
      BY <1>2, <2>1, <2>2, <2>3, <2>4, <2>5, <2>6, <2>7, <2>8, <2>9, <2>10, <2>11 DEF Step
  <1> QED
    BY <1>1, <1>2 DEF Next

(* A generation keeps naming one marker: a write raises it. *)
LEMMA SeenStep == TypeOK /\ SeenInv /\ [Next]_vars => SeenInv'
  <1> SUFFICES ASSUME TypeOK /\ SeenInv, [Next]_vars PROVE SeenInv'
    OBVIOUS
  <1> USE OwnershipAssumption DEF TypeOK, Markers, States, SeenInv
  <1>1. CASE UNCHANGED vars
    BY <1>1 DEF vars
  <1>2. ASSUME NEW p \in Procs, Step(p) PROVE SeenInv'
    <2>1. ASSUME NEW t \in Procs \cup {None}, Observe(p, t) PROVE SeenInv'
      BY <2>1 DEF Observe
    <2>2. CASE Claim(p)
      BY <2>2 DEF Claim, Claimed, Entitled
    <2>3. CASE ClaimFails(p)
      BY <2>3 DEF ClaimFails
    <2>4. CASE Verify(p)
      BY <2>4 DEF Verify
    <2>5. CASE BeginMutation(p)
      BY <2>5 DEF BeginMutation
    <2>6. CASE EndMutation(p)
      BY <2>6 DEF EndMutation
    <2>7. CASE Check(p)
      BY <2>7 DEF Check
    <2>8. CASE MarkLost(p)
      BY <2>8 DEF MarkLost
    <2>9. CASE ReleaseFence(p)
      BY <2>9 DEF ReleaseFence
    <2>10. CASE ReleaseMarker(p)
      BY <2>10 DEF ReleaseMarker
    <2>11. CASE Crash(p)
      BY <2>11 DEF Crash
    <2> QED
      BY <1>2, <2>1, <2>2, <2>3, <2>4, <2>5, <2>6, <2>7, <2>8, <2>9, <2>10, <2>11 DEF Step
  <1> QED
    BY <1>1, <1>2 DEF Next

(* A mutation is admitted only below the fence of a held prefix. *)
LEMMA FenceStep == TypeOK /\ FenceInv /\ [Next]_vars => FenceInv'
  <1> SUFFICES ASSUME TypeOK /\ FenceInv, [Next]_vars PROVE FenceInv'
    OBVIOUS
  <1> USE OwnershipAssumption DEF TypeOK, Markers, States, FenceInv
  <1>1. CASE UNCHANGED vars
    BY <1>1 DEF vars
  <1>2. ASSUME NEW p \in Procs, Step(p) PROVE FenceInv'
    <2>1. ASSUME NEW t \in Procs \cup {None}, Observe(p, t) PROVE FenceInv'
      BY <2>1 DEF Observe
    <2>2. CASE Claim(p)
      BY <2>2 DEF Claim, Claimed, Entitled
    <2>3. CASE ClaimFails(p)
      BY <2>3 DEF ClaimFails
    <2>4. CASE Verify(p)
      BY <2>4 DEF Verify
    <2>5. CASE BeginMutation(p)
      BY <2>5 DEF BeginMutation
    <2>6. CASE EndMutation(p)
      BY <2>6 DEF EndMutation
    <2>7. CASE Check(p)
      BY <2>7 DEF Check
    <2>8. CASE MarkLost(p)
      BY <2>8 DEF MarkLost
    <2>9. CASE ReleaseFence(p)
      BY <2>9 DEF ReleaseFence
    <2>10. CASE ReleaseMarker(p)
      BY <2>10 DEF ReleaseMarker
    <2>11. CASE Crash(p)
      BY <2>11 DEF Crash
    <2> QED
      BY <1>2, <2>1, <2>2, <2>3, <2>4, <2>5, <2>6, <2>7, <2>8, <2>9, <2>10, <2>11 DEF Step
  <1> QED
    BY <1>1, <1>2 DEF Next

(* A claim gives a process a generation nobody had before. *)
LEMMA TagStep == TypeOK /\ TagInv /\ [Next]_vars => TagInv'
  <1> SUFFICES ASSUME TypeOK /\ TagInv, [Next]_vars PROVE TagInv'
    OBVIOUS
  <1> USE OwnershipAssumption DEF TypeOK, Markers, States, TagInv, Holds
  <1>1. CASE UNCHANGED vars
    BY <1>1 DEF vars
  <1>2. ASSUME NEW p \in Procs, Step(p) PROVE TagInv'
    <2>1. ASSUME NEW t \in Procs \cup {None}, Observe(p, t) PROVE TagInv'
      BY <2>1 DEF Observe
    <2>2. CASE Claim(p)
      BY <2>2 DEF Claim, Claimed, Entitled
    <2>3. CASE ClaimFails(p)
      BY <2>3 DEF ClaimFails
    <2>4. CASE Verify(p)
      BY <2>4 DEF Verify
    <2>5. CASE BeginMutation(p)
      BY <2>5 DEF BeginMutation
    <2>6. CASE EndMutation(p)
      BY <2>6 DEF EndMutation
    <2>7. CASE Check(p)
      BY <2>7 DEF Check
    <2>8. CASE MarkLost(p)
      BY <2>8 DEF MarkLost
    <2>9. CASE ReleaseFence(p)
      BY <2>9 DEF ReleaseFence
    <2>10. CASE ReleaseMarker(p)
      BY <2>10 DEF ReleaseMarker
    <2>11. CASE Crash(p)
      BY <2>11 DEF Crash
    <2> QED
      BY <1>2, <2>1, <2>2, <2>3, <2>4, <2>5, <2>6, <2>7, <2>8, <2>9, <2>10, <2>11 DEF Step
  <1> QED
    BY <1>1, <1>2 DEF Next

(* The holder of the prefix stays the owner named by the marker. *)
LEMMA OwnerStep == Inv /\ [Next]_vars => OwnerInv'
  <1> SUFFICES ASSUME Inv, [Next]_vars PROVE OwnerInv'
    OBVIOUS
  <1> USE OwnershipAssumption DEF TypeOK, Markers, States, OwnerInv, Inv, SeenInv, FenceInv, Holds, Mine
  <1>1. CASE UNCHANGED vars
    BY <1>1 DEF vars
  <1>2. ASSUME NEW p \in Procs, Step(p) PROVE OwnerInv'
    <2>1. ASSUME NEW t \in Procs \cup {None}, Observe(p, t) PROVE OwnerInv'
      <3>1. CASE t = None \/ st[t] = "dead"
        BY <2>1, <3>1 DEF Observe
      <3>2. CASE ~(t = None \/ st[t] = "dead")
        BY <2>1, <3>2, Zenon DEF Observe
      <3> QED
        BY <3>1, <3>2
    <2>2. CASE Claim(p)
      BY <2>2 DEF Claim, Claimed, Entitled
    <2>3. CASE ClaimFails(p)
      BY <2>3 DEF ClaimFails
    <2>4. CASE Verify(p)
      BY <2>4 DEF Verify
    <2>5. CASE BeginMutation(p)
      BY <2>5 DEF BeginMutation
    <2>6. CASE EndMutation(p)
      BY <2>6 DEF EndMutation
    <2>7. CASE Check(p)
      BY <2>7 DEF Check
    <2>8. CASE MarkLost(p)
      BY <2>8 DEF MarkLost
    <2>9. CASE ReleaseFence(p)
      BY <2>9 DEF ReleaseFence
    <2>10. CASE ReleaseMarker(p)
      BY <2>10 DEF ReleaseMarker
    <2>11. CASE Crash(p)
      BY <2>11 DEF Crash
    <2> QED
      BY <1>2, <2>1, <2>2, <2>3, <2>4, <2>5, <2>6, <2>7, <2>8, <2>9, <2>10, <2>11 DEF Step
  <1> QED
    BY <1>1, <1>2 DEF Next

(* The invariant is inductive. *)
LEMMA InvStep == Inv /\ [Next]_vars => Inv'
  BY TypeStep, SeenStep, FenceStep, TagStep, OwnerStep DEF Inv

LEMMA InvHolds == Spec => []Inv
  BY InitInv, InvStep, PTL DEF Spec

(* Every variable of the guard keeps its type. *)
THEOREM OwnershipTypeCorrect == Spec => []TypeOK
  <1>1. Inv => TypeOK
    BY DEF Inv
  <1> QED
    BY InvHolds, <1>1, PTL

(* A process that was fenced, has released the prefix or never held it has  *)
(* no admitted mutation: what beginMutation's comment says of markLost.     *)
THEOREM FenceIsComplete == Spec => []FencedIsQuiet
  <1>1. Inv => FencedIsQuiet
    BY DEF Inv, FenceInv, FencedIsQuiet
  <1> QED
    BY InvHolds, <1>1, PTL

(* When takeover names only dead processes, at most one process has         *)
(* admitted mutations below the prefix.                                     *)
THEOREM AtMostOneWriter == Spec => []SingleWriter
  <1>1. Inv => SingleWriter
    BY DEF Inv, FenceInv, OwnerInv, Holds, Mine, SingleWriter
  <1> QED
    BY InvHolds, <1>1, PTL

(* Even when the operator takes over a running process, release changes     *)
(* only the releasing process's own generation of the marker.               *)
THEOREM ReplacementNotReleased == Spec => OnlyOwnerReleases
  <1> DEFINE Released == /\ marker'.released /\ ~marker.released
                         => /\ marker.gen # 0 /\ marker'.owner = marker.owner
                            /\ st[marker.owner] = "released"
  <1>1. Inv /\ [Next]_vars => [Released]_vars
    <2> SUFFICES ASSUME Inv, Next PROVE Released
      OBVIOUS
    <2> PICK p \in Procs : Step(p)
      BY DEF Next
    <2>1. CASE ReleaseMarker(p)
      BY <2>1 DEF ReleaseMarker, Inv, TypeOK, Markers, TagInv, FenceInv, Holds
    <2>2. CASE Claim(p)
      BY <2>2 DEF Claim, Claimed
    <2>3. CASE UNCHANGED marker
      BY <2>3
    <2> QED
      BY <2>1, <2>2, <2>3 DEF Step, Observe, ClaimFails, Verify, BeginMutation, EndMutation,
         Check, MarkLost, ReleaseFence, Crash
  <1> QED
    BY InvHolds, <1>1, PTL DEF Spec, OnlyOwnerReleases

-----------------------------------------------------------------------------
(* Refinement of PrefixOwnership *)

(* Steps that neither touch the marker nor admit a mutation are invisible.  *)
LEMMA QuietStep ==
  ASSUME UNCHANGED <<marker, admitted, forced>>
  PROVE  UNCHANGED Prefix!prefixVars
  BY DEF Prefix!prefixVars, Holder, Writing

(* Every step of the guard is a step of single ownership, a stutter, or one *)
(* after a forced takeover.                                                 *)
LEMMA PrefixStep ==
  ASSUME Inv, [Next]_vars
  PROVE  [Prefix!Next]_(Prefix!prefixVars)
  <1> USE OwnershipAssumption DEF Inv, TypeOK, Markers
  <1>1. CASE UNCHANGED vars
    BY <1>1, QuietStep DEF vars
  <1>2. CASE forced' # {}
    BY <1>2 DEF Prefix!Next, Prefix!Forfeit
  <1>3. ASSUME NEW p \in Procs, Step(p), forced' = {} PROVE [Prefix!Next]_(Prefix!prefixVars)
    <2>0. forced = {} /\ UNCHANGED forced
      BY <1>3 DEF Step, Observe, Claim, ClaimFails, Verify, BeginMutation, EndMutation,
         Check, MarkLost, ReleaseFence, ReleaseMarker, Crash
    <2>1. CASE Claim(p)
      <3>1. Writing = {}
        BY <2>0, <2>1 DEF Claim, Entitled, SeenInv, FenceInv, OwnerInv, Holds, Mine, Writing
      <3>2. Holder' = p /\ Writing' = Writing
        BY <2>1 DEF Claim, Claimed, Holder, Writing
      <3>3. Prefix!Acquire(p) \/ Prefix!Takeover(p)
        BY <2>0, <3>1, <3>2 DEF Prefix!Acquire, Prefix!Takeover
      <3> QED
        BY <3>3 DEF Prefix!Next
    <2>2. CASE BeginMutation(p)
      <3>1. Holder = p /\ Holder' = Holder
        BY <2>0, <2>2 DEF BeginMutation, OwnerInv, Holds, Mine, Holder
      <3>2. Writing' = Writing \cup {p}
        BY <2>2 DEF BeginMutation, Writing
      <3> QED
        BY <2>0, <3>1, <3>2 DEF Prefix!Next, Prefix!StartWriting
    <2>3. CASE EndMutation(p) \/ Crash(p)
      <3>1. Holder' = Holder
        BY <2>3 DEF EndMutation, Crash, Holder
      <3>2. Writing' = Writing \/ Writing' = Writing \ {p}
        BY <2>3 DEF EndMutation, Crash, Writing
      <3> QED
        BY <2>0, <3>1, <3>2 DEF Prefix!Next, Prefix!StopWriting, Prefix!prefixVars
    <2>4. CASE ReleaseMarker(p)
      <3>1. CASE marker' = marker
        BY <2>0, <2>4, <3>1, QuietStep DEF ReleaseMarker
      <3>2. CASE marker' = [gen |-> marker.gen + 1, owner |-> p, released |-> TRUE]
        <4>1. Holder = p /\ Holder' = None
          BY <2>0, <2>4, <3>2 DEF ReleaseMarker, OwnerInv, Holds, Mine, Holder
        <4>2. p \notin Writing /\ Writing' = Writing
          BY <2>4 DEF ReleaseMarker, FenceInv, Writing
        <4> QED
          BY <2>0, <4>1, <4>2 DEF Prefix!Next, Prefix!Release
      <3> QED
        BY <2>4, <3>1, <3>2 DEF ReleaseMarker
    <2>5. CASE UNCHANGED <<marker, admitted>>
      BY <2>0, <2>5, QuietStep
    <2> QED
      BY <1>3, <2>0, <2>1, <2>2, <2>3, <2>4, <2>5 DEF Step, Observe, ClaimFails, Verify,
         Check, MarkLost, ReleaseFence
  <1> QED
    BY <1>1, <1>2, <1>3 DEF Next

(* The guard implements single ownership of the prefix, for any number of   *)
(* starts, until an operator forces the takeover of a running process.      *)
THEOREM GuardImplementsPrefix == Spec => ImplementsPrefix
  <1>1. Init => Prefix!Init
    BY DEF Init, Absent, Prefix!Init, Holder, Writing
  <1>2. Inv /\ [Next]_vars => [Prefix!Next]_(Prefix!prefixVars)
    BY PrefixStep
  <1> QED
    BY InvHolds, <1>1, <1>2, PTL DEF Spec, ImplementsPrefix, Prefix!Spec
=============================================================================
