---------------------- MODULE WorkspaceRegistryProofs ----------------------
(***************************************************************************)
(* No request ever reads through a closed data source handle, no handle is *)
(* closed twice, and a quiesced service stays out of the registry, for any *)
(* requests, operations, services and handles.                             *)
(***************************************************************************)
EXTENDS WorkspaceRegistry, FiniteSetTheorems, TLAPS

(* The requests that have still to release a handle. *)
Holders(h) == {r \in Requests : h \in lease[r]}

Retired(h) == refs[h] # None /\ refs[h].retired

(* Registry.sources counts the leases of a handle, a handle in it is open, *)
(* and one that was retired stays only for its readers.                    *)
LeaseInv ==
  \A h \in Handles :
    /\ handle[h] # "reclosed"
    /\ refs[h] = None => Holders(h) = {}
    /\ refs[h] # None =>
         /\ handle[h] = "open" /\ refs[h].readers = Cardinality(Holders(h))
         /\ refs[h].retired => refs[h].readers > 0

(***************************************************************************)
(* A handle has one owner, which is the one to retire or close it: a live  *)
(* service, the operation that has made it, the refresh that has taken it  *)
(* out of the graph, or, once it is retired, its last reader.              *)
(***************************************************************************)
SourceInv ==
  /\ \A s \in live : source[s] # None => handle[source[s]] = "open" /\ ~Retired(source[s])
  /\ \A s1, s2 \in live : source[s1] # None /\ source[s1] = source[s2] => s1 = s2

TaskInv ==
  \A t \in Tasks :
    /\ task[t].new # None =>
         /\ \/ task[t].at = "constructing" /\ handle[task[t].new] = "constructing"
            \/ task[t].at = "install" /\ handle[task[t].new] = "open"
         /\ refs[task[t].new] = None
         /\ \A s \in live : source[s] # task[t].new
         /\ \A u \in Tasks : (task[u].new = task[t].new => u = t) /\ task[u].old # task[t].new
    /\ task[t].old # None =>
         /\ task[t].at = "retire" /\ handle[task[t].old] = "open" /\ ~Retired(task[t].old)
         /\ \A s \in live : source[s] # task[t].old
         /\ \A u \in Tasks : task[u].old = task[t].old => u = t

(***************************************************************************)
(* The life of a service identifier.  A service that is being created was  *)
(* never live and has no other operation; one that a refresh found live    *)
(* leaves the graph only by being quiesced or with its workspace.          *)
(***************************************************************************)
LifeInv ==
  /\ quiesced \cap live = {}
  /\ \A s \in Services : row[s] = "absent" =>
       s \notin live \cup quiesced /\ \A t \in Tasks : task[t].service # s
  /\ \A t \in Tasks :
       /\ task[t].at # "idle" => task[t].service \in Services
       /\ task[t].op = "create" =>
            /\ task[t].service \in Services \ (live \cup quiesced)
            /\ \A u \in Tasks : task[u].service = task[t].service => u = t
       /\ task[t].known => ~present \/ task[t].service \in live \cup quiesced

RegistryInv == TypeOK /\ LeaseInv /\ SourceInv /\ TaskInv /\ LifeInv

-----------------------------------------------------------------------------
(* The tasks. *)

LEMMA IdleTask ==
    /\ Idle \in TaskState
    /\ Idle.op = "idle" /\ Idle.at = "idle" /\ Idle.service = None /\ ~Idle.known /\ Idle.new = None /\ Idle.old = None
  BY Zenon DEF Idle, TaskState

(* An operation that ends leaves the other tasks alone and gives up what it *)
(* had made or taken out.                                                   *)
LEMMA EndTask ==
    ASSUME TypeOK, NEW t \in Tasks, End(t)
    PROVE  /\ task' \in [Tasks -> TaskState] /\ lock' \in [Services -> Tasks \cup {None}]
           /\ \A u \in Tasks : u # t => task'[u] = task[u]
           /\ task'[t].op = "idle" /\ task'[t].at = "idle" /\ task'[t].service = None /\ ~task'[t].known
           /\ task'[t].new = None /\ task'[t].old = None
  <1>1. task' = [task EXCEPT ![t] = Idle] /\ lock' = [s \in Services |-> IF lock[s] = t THEN None ELSE lock[s]]
    BY DEF End
  <1>2. lock' \in [Services -> Tasks \cup {None}]
    BY <1>1 DEF TypeOK
  <1>3. task' \in [Tasks -> TaskState] /\ task'[t] = Idle /\ \A u \in Tasks : u # t => task'[u] = task[u]
    BY <1>1, IdleTask DEF TypeOK
  <1>4. QED
    BY <1>2, <1>3, IdleTask

(* One that goes on keeps its service and its handles. *)
LEMMA GotoTask ==
    ASSUME TypeOK, NEW t \in Tasks,
           NEW place \in {"begin", "lock", "read", "prepare", "constructing", "install", "retire"}, Goto(t, place)
    PROVE  /\ task' \in [Tasks -> TaskState]
           /\ \A u \in Tasks : u # t => task'[u] = task[u]
           /\ task'[t].at = place /\ task'[t].op = task[t].op /\ task'[t].service = task[t].service
           /\ task'[t].known = task[t].known /\ task'[t].new = task[t].new /\ task'[t].old = task[t].old
  <1>1. task' = [task EXCEPT ![t] = [task[t] EXCEPT !.at = place]] /\ task[t] \in TaskState
    BY DEF Goto, TypeOK
  <1>2. [task[t] EXCEPT !.at = place] \in TaskState
    BY <1>1 DEF TaskState
  <1>3. task' \in [Tasks -> TaskState] /\ \A u \in Tasks : u # t => task'[u] = task[u]
    BY <1>1, <1>2 DEF TypeOK
  <1>4. task'[t] = [task[t] EXCEPT !.at = place]
    BY <1>1 DEF TypeOK
  <1>5. QED
    BY <1>1, <1>3, <1>4 DEF TaskState

(* One that begins has no handles. *)
LEMMA BeginTask ==
    ASSUME TypeOK, NEW t \in Tasks, NEW op \in {"create", "update", "refresh", "delete"}, NEW s \in Services,
           NEW place \in {"begin", "lock", "prepare", "install"}, Begin(t, op, s, place)
    PROVE  /\ task' \in [Tasks -> TaskState]
           /\ \A u \in Tasks : u # t => task'[u] = task[u]
           /\ task'[t].at = place /\ task'[t].op = op /\ task'[t].service = s
           /\ ~task'[t].known /\ task'[t].new = None /\ task'[t].old = None
           /\ task[t].op = "idle" /\ task[t].service = None /\ task[t].new = None /\ task[t].old = None
  <1> DEFINE begun == [Idle EXCEPT !.op = op, !.service = s, !.at = place]
  <1>1. task[t] = Idle /\ task' = [task EXCEPT ![t] = begun]
    BY DEF Begin
  <1>2. /\ begun \in TaskState
        /\ begun.at = place /\ begun.op = op /\ begun.service = s /\ ~begun.known /\ begun.new = None /\ begun.old = None
    BY Zenon DEF Idle, TaskState
  <1> HIDE DEF begun
  <1>3. task' \in [Tasks -> TaskState] /\ task'[t] = begun /\ \A u \in Tasks : u # t => task'[u] = task[u]
    BY <1>1, <1>2 DEF TypeOK
  <1>4. QED
    BY <1>1, <1>2, <1>3, IdleTask

-----------------------------------------------------------------------------
(* The handles. *)

LEMMA NoneIsNoRef == None \notin RefState
  BY RegistryAssumption DEF RefState

LEMMA HoldersFinite == \A h : IsFiniteSet(Holders(h)) /\ Cardinality(Holders(h)) \in Nat
  BY RegistryAssumption, FS_Subset, FS_CardinalityType DEF Holders

(* retireSource: of open handles that are not retired yet, those without a  *)
(* reader are closed and the others wait for their readers.                 *)
LEMMA RetireHandles ==
    ASSUME TypeOK, LeaseInv, NEW hs \in SUBSET Handles, Retire(hs), UNCHANGED lease,
           \A h \in hs : handle[h] = "open" /\ ~Retired(h)
    PROVE  /\ refs' \in [Handles -> RefState \cup {None}]
           /\ handle' \in [Handles -> {"new", "constructing", "open", "closed", "reclosed"}]
           /\ LeaseInv'
           /\ \A h \in Handles \ hs : refs'[h] = refs[h] /\ handle'[h] = handle[h]
  <1> DEFINE now == {h \in hs : Readers(h) = 0}
  <1>1. /\ refs' = [h \in Handles |->
             CASE h \in now -> None
               [] h \in hs \ now -> [refs[h] EXCEPT !.retired = TRUE]
               [] OTHER -> refs[h]]
        /\ handle' = [h \in Handles |-> IF h \in now THEN Closed(h) ELSE handle[h]]
    BY DEF Retire
  <1>2. \A h \in Handles \ hs : refs'[h] = refs[h] /\ handle'[h] = handle[h]
    BY <1>1
  <1>3. \A h \in now : refs'[h] = None /\ handle'[h] = "closed"
    BY <1>1 DEF Closed
  <1>4. \A h \in hs \ now : refs'[h] = [refs[h] EXCEPT !.retired = TRUE] /\ handle'[h] = handle[h]
    BY <1>1
  <1>5. \A h \in hs \ now : refs[h] \in RefState /\ refs[h].readers > 0
    BY DEF TypeOK, Readers, RefState
  <1>6. \A h \in hs \ now :
          /\ refs'[h] \in RefState
          /\ refs'[h].readers = refs[h].readers /\ refs'[h].retired /\ refs'[h] # None
    <2> SUFFICES ASSUME NEW h \in hs \ now
                 PROVE  /\ refs'[h] \in RefState
                        /\ refs'[h].readers = refs[h].readers /\ refs'[h].retired /\ refs'[h] # None
      OBVIOUS
    <2>1. refs'[h] = [refs[h] EXCEPT !.retired = TRUE] /\ refs[h] \in RefState
      BY <1>4, <1>5
    <2>2. refs'[h] \in RefState /\ refs'[h].readers = refs[h].readers /\ refs'[h].retired
      BY <2>1, Zenon DEF RefState
    <2>3. QED
      BY <2>2, NoneIsNoRef
  <1>7. \A h \in now : Holders(h) = {}
    <2> SUFFICES ASSUME NEW h \in now PROVE Holders(h) = {}
      OBVIOUS
    <2>1. CASE refs[h] = None
      BY <2>1 DEF LeaseInv
    <2>2. CASE refs[h] # None
      <3>1. Cardinality(Holders(h)) = 0
        BY <2>2 DEF LeaseInv, Readers
      <3>2. QED
        BY <3>1, HoldersFinite, FS_EmptySet
    <2>3. QED
      BY <2>1, <2>2
  <1>8. \A h : Holders(h)' = Holders(h)
    BY DEF Holders
  <1> HIDE DEF now
  <1>9. now \subseteq hs
    BY DEF now
  <1>10. LeaseInv'
    <2> SUFFICES ASSUME NEW h \in Handles
                 PROVE  /\ handle'[h] # "reclosed"
                        /\ refs'[h] = None => Holders(h) = {}
                        /\ refs'[h] # None =>
                             /\ handle'[h] = "open" /\ refs'[h].readers = Cardinality(Holders(h))
                             /\ refs'[h].retired => refs'[h].readers > 0
      BY <1>8 DEF LeaseInv
    <2>1. CASE h \in now
      BY <1>3, <1>7, <2>1
    <2>2. CASE h \in hs \ now
      BY <1>4, <1>5, <1>6, <2>2, RegistryAssumption DEF LeaseInv, RefState
    <2>3. CASE h \notin hs
      BY <1>2, <2>3 DEF LeaseInv
    <2>4. QED
      BY <1>9, <2>1, <2>2, <2>3
  <1>11. refs' \in [Handles -> RefState \cup {None}]
    <2>1. \A h \in Handles : refs'[h] \in RefState \cup {None}
      BY <1>2, <1>3, <1>6, <1>9, Zenon DEF TypeOK
    <2>2. QED
      BY <1>1, <2>1
  <1>12. handle' \in [Handles -> {"new", "constructing", "open", "closed", "reclosed"}]
    <2>1. \A h \in Handles : handle'[h] \in {"new", "constructing", "open", "closed", "reclosed"}
      BY <1>2, <1>3, <1>4, <1>9, Zenon DEF TypeOK
    <2>2. QED
      BY <1>1, <2>1
  <1>13. QED
    BY <1>2, <1>10, <1>11, <1>12

(* A handle that was never installed has no reader; it is closed once.      *)
LEMMA CloseNewHandle ==
    ASSUME TypeOK, LeaseInv, NEW h \in Handles \cup {None}, CloseNew(h), UNCHANGED lease,
           h # None => handle[h] = "open" /\ refs[h] = None
    PROVE  /\ handle' \in [Handles -> {"new", "constructing", "open", "closed", "reclosed"}]
           /\ LeaseInv' /\ UNCHANGED refs
           /\ \A g \in Handles \ {h} : handle'[g] = handle[g]
  <1>1. CASE h = None
    <2>1. UNCHANGED <<handle, refs>>
      BY <1>1 DEF CloseNew
    <2>2. \A g : Holders(g)' = Holders(g)
      BY DEF Holders
    <2>3. LeaseInv'
      BY <2>1, <2>2 DEF LeaseInv
    <2>4. QED
      BY <2>1, <2>3 DEF TypeOK
  <1>2. CASE h # None
    <2>1. handle' = [handle EXCEPT ![h] = "closed"] /\ UNCHANGED refs
      BY <1>2, Zenon DEF CloseNew, Closed
    <2>2. QED
      BY <1>2, <2>1, Zenon DEF LeaseInv, Holders, TypeOK
  <1>3. QED
    BY <1>1, <1>2

-----------------------------------------------------------------------------
LEMMA RegistryInit == Init => RegistryInv
  <1> SUFFICES ASSUME Init PROVE RegistryInv
    OBVIOUS
  <1>1. TypeOK
    BY IdleTask DEF Init, TypeOK
  <1>2. LeaseInv
    BY DEF Init, LeaseInv, Holders
  <1>3. \A t \in Tasks : task[t] = Idle
    BY DEF Init
  <1>4. SourceInv
    BY DEF Init, SourceInv
  <1>5. TaskInv
    BY <1>3, IdleTask, Zenon DEF TaskInv
  <1>6. LifeInv
    BY <1>3, IdleTask, RegistryAssumption, Zenon DEF Init, LifeInv
  <1>7. QED
    BY <1>1, <1>2, <1>4, <1>5, <1>6 DEF RegistryInv

-----------------------------------------------------------------------------
(* A step that touches neither the graph nor the handles, of a task that    *)
(* owns no handle afterwards, keeps the leases and the owners.              *)
LEMMA QuietStep ==
    ASSUME RegistryInv, NEW t \in Tasks, UNCHANGED <<live, source, refs, lease, handle>>,
           \A u \in Tasks : u # t => task'[u] = task[u], task'[t].new = None, task'[t].old = None
    PROVE  LeaseInv' /\ SourceInv' /\ TaskInv'
  <1>1. \A h : Holders(h)' = Holders(h)
    BY DEF Holders
  <1>2. LeaseInv'
    BY <1>1 DEF RegistryInv, LeaseInv
  <1>3. SourceInv'
    BY Zenon DEF RegistryInv, SourceInv, Retired
  <1>4. TaskInv'
    BY DEF RegistryInv, TaskInv, Retired
  <1>5. QED
    BY <1>2, <1>3, <1>4, Zenon

(* A step that retires or closes handles, and takes them from their owners, *)
(* keeps the owners of the others.                                          *)
LEMMA GraphStep ==
    ASSUME RegistryInv, TypeOK', NEW hs \in SUBSET Handles,
           \A h \in Handles \ hs : refs'[h] = refs[h] /\ handle'[h] = handle[h],
           \A u \in Tasks : task'[u] = task[u] \/ (task'[u].new = None /\ task'[u].old = None),
           \A u \in Tasks : task'[u].new \notin hs /\ task'[u].old \notin hs,
           \A s \in live' : source'[s] = None \/ (source'[s] \notin hs /\ s \in live /\ source'[s] = source[s])
    PROVE  SourceInv' /\ TaskInv'
  <1>1. \A s \in live' : source'[s] # None => source'[s] \in Handles
    BY Zenon DEF TypeOK
  <1>2. SourceInv'
    BY <1>1 DEF RegistryInv, SourceInv, Retired
  <1>3. \A u \in Tasks : task'[u].new \in Handles \cup {None} /\ task'[u].old \in Handles \cup {None}
    BY Zenon DEF TypeOK, TaskState
  <1>4. TaskInv'
    <2> SUFFICES ASSUME NEW t \in Tasks, task'[t] = task[t]
                 PROVE  /\ task[t].new # None =>
                             /\ \/ task[t].at = "constructing" /\ handle'[task[t].new] = "constructing"
                                \/ task[t].at = "install" /\ handle'[task[t].new] = "open"
                             /\ refs'[task[t].new] = None
                             /\ \A s \in live' : source'[s] # task[t].new
                             /\ \A u \in Tasks : (task'[u].new = task[t].new => u = t) /\ task'[u].old # task[t].new
                        /\ task[t].old # None =>
                             /\ task[t].at = "retire" /\ handle'[task[t].old] = "open" /\ (refs'[task[t].old] # None => ~refs'[task[t].old].retired)
                             /\ \A s \in live' : source'[s] # task[t].old
                             /\ \A u \in Tasks : task'[u].old = task[t].old => u = t
      BY DEF TaskInv, Retired
    <2>1. \A u \in Tasks : task'[u].new # None => task'[u] = task[u]
      OBVIOUS
    <2>2. \A u \in Tasks : task'[u].old # None => task'[u] = task[u]
      BY Zenon
    <2>3. ASSUME task[t].new # None
          PROVE  /\ \/ task[t].at = "constructing" /\ handle'[task[t].new] = "constructing"
                    \/ task[t].at = "install" /\ handle'[task[t].new] = "open"
                 /\ refs'[task[t].new] = None
                 /\ \A s \in live' : source'[s] # task[t].new
                 /\ \A u \in Tasks : (task'[u].new = task[t].new => u = t) /\ task'[u].old # task[t].new
      BY <1>3, <2>1, <2>2, <2>3 DEF RegistryInv, TaskInv
    <2>4. ASSUME task[t].old # None
          PROVE  /\ task[t].at = "retire" /\ handle'[task[t].old] = "open" /\ (refs'[task[t].old] # None => ~refs'[task[t].old].retired)
                 /\ \A s \in live' : source'[s] # task[t].old
                 /\ \A u \in Tasks : task'[u].old = task[t].old => u = t
      BY <1>3, <2>2, <2>4 DEF RegistryInv, TaskInv, Retired
    <2>5. QED
      BY <2>3, <2>4
  <1>5. QED
    BY <1>2, <1>4, Zenon

(* So does one that installs the handle of an operation in a service, and   *)
(* retires the one it replaces or leaves it to the operation.               *)
LEMMA InstallStep ==
    ASSUME RegistryInv, TypeOK', NEW t \in Tasks, NEW s \in Services, NEW hs \in SUBSET Handles,
           task[t].at = "install",
           \A h \in Handles \ hs : refs'[h] = refs[h] /\ handle'[h] = handle[h],
           \A h \in hs : s \in live /\ h = source[s],
           \A u \in Tasks : u # t => task'[u] = task[u],
           task'[t].new = None,
           task'[t].old # None => s \in live /\ task'[t].old = source[s] /\ hs = {} /\ task'[t].at = "retire",
           live' = live \cup {s}, source' = [source EXCEPT ![s] = task[t].new]
    PROVE  SourceInv' /\ TaskInv'
  <1> DEFINE new == task[t].new
  <1>1. new # None =>
          /\ new \in Handles /\ new \notin hs /\ handle[new] = "open" /\ refs[new] = None
          /\ \A x \in live : source[x] # new
          /\ \A u \in Tasks : (task[u].new = new => u = t) /\ task[u].old # new
    BY DEF RegistryInv, TypeOK, TaskState, TaskInv
  <1>2. source'[s] = new /\ \A x \in Services \ {s} : source'[x] = source[x]
    BY Zenon DEF RegistryInv, TypeOK
  <1>3. \A x \in live \ {s} : source[x] # None => source[x] \in Handles \ hs /\ (s \in live => source[x] # source[s])
    BY DEF RegistryInv, TypeOK, SourceInv
  <1> HIDE DEF new
  <1>4. live \subseteq Services
    BY Zenon DEF RegistryInv, TypeOK
  <1>5. SourceInv'
    <2>1. \A x \in live' : source'[x] # None => handle'[source'[x]] = "open" /\ (refs'[source'[x]] # None => ~refs'[source'[x]].retired)
      <3>1. CASE new # None
        BY <1>1, <1>2, <1>3, <1>4, <3>1 DEF RegistryInv, SourceInv, Retired
      <3>2. CASE new = None
        BY <1>2, <1>3, <1>4, <3>2 DEF RegistryInv, SourceInv, Retired
      <3>3. QED
        BY <3>1, <3>2, Zenon
    <2>2. \A x, y \in live' : source'[x] # None /\ source'[x] = source'[y] => x = y
      BY <1>1, <1>2, <1>4 DEF RegistryInv, SourceInv
    <2>3. QED
      BY <2>1, <2>2, Zenon DEF SourceInv, Retired
  <1>6. \A u \in Tasks \ {t} : /\ task[u].new \in Handles \cup {None} /\ task[u].old \in Handles \cup {None}
                               /\ task[u].new # None => task[u].new \notin hs
                               /\ task[u].old # None => task[u].old \notin hs
    BY DEF RegistryInv, TypeOK, TaskState, TaskInv
  <1>7. ASSUME NEW u \in Tasks \ {t}, task[u].new # None
        PROVE  /\ \/ task[u].at = "constructing" /\ handle'[task[u].new] = "constructing"
                  \/ task[u].at = "install" /\ handle'[task[u].new] = "open"
               /\ refs'[task[u].new] = None
               /\ \A x \in live' : source'[x] # task[u].new
               /\ \A w \in Tasks : (task'[w].new = task[u].new => w = u) /\ task'[w].old # task[u].new
    <2>1. /\ \/ task[u].at = "constructing" /\ handle'[task[u].new] = "constructing"
             \/ task[u].at = "install" /\ handle'[task[u].new] = "open"
          /\ refs'[task[u].new] = None
      BY <1>6, <1>7 DEF RegistryInv, TaskInv
    <2>2. \A x \in live : source[x] # task[u].new
      BY <1>7 DEF RegistryInv, TaskInv
    <2>3. new # task[u].new
      BY <1>1, <1>7
    <2>4. \A x \in live' : source'[x] # task[u].new
      BY <1>2, <1>4, <2>2, <2>3, Zenon
    <2>5. \A w \in Tasks : (task'[w].new = task[u].new => w = u) /\ task'[w].old # task[u].new
      BY <1>7, <2>2 DEF RegistryInv, TaskInv
    <2>6. QED
      BY <2>1, <2>4, <2>5, Zenon
  <1>8. ASSUME NEW u \in Tasks \ {t}, task[u].old # None
        PROVE  /\ task[u].at = "retire" /\ handle'[task[u].old] = "open" /\ (refs'[task[u].old] # None => ~refs'[task[u].old].retired)
               /\ \A x \in live' : source'[x] # task[u].old
               /\ \A w \in Tasks : task'[w].old = task[u].old => w = u
    <2>1. task[u].at = "retire" /\ handle'[task[u].old] = "open" /\ (refs'[task[u].old] # None => ~refs'[task[u].old].retired)
      BY <1>6, <1>8 DEF RegistryInv, TaskInv, Retired
    <2>2. \A x \in live : source[x] # task[u].old
      BY <1>8, Zenon DEF RegistryInv, TaskInv
    <2>3. new # task[u].old
      BY <1>1, <1>8
    <2>4. \A x \in live' : source'[x] # task[u].old
      BY <1>2, <1>4, <2>2, <2>3, Zenon
    <2>5. \A w \in Tasks : task'[w].old = task[u].old => w = u
      BY <1>8, <2>2 DEF RegistryInv, TaskInv
    <2>6. QED
      BY <2>1, <2>4, <2>5, Zenon
  <1>9. ASSUME task'[t].old # None
        PROVE  /\ handle'[task'[t].old] = "open" /\ (refs'[task'[t].old] # None => ~refs'[task'[t].old].retired)
               /\ \A x \in live' : source'[x] # task'[t].old
               /\ \A w \in Tasks : task'[w].old = task'[t].old => w = t
    <2>1. task'[t].old \in Handles /\ task'[t].old = source[s] /\ s \in live /\ hs = {}
      BY <1>9 DEF TypeOK, TaskState
    <2>2. handle'[source[s]] = "open" /\ (refs'[source[s]] # None => ~refs'[source[s]].retired)
      BY <1>9, <2>1, Zenon DEF RegistryInv, SourceInv, Retired
    <2>3. new # source[s]
      BY <1>1, <1>9, <2>1, Zenon
    <2>4. \A x \in live' : source'[x] # source[s]
      BY <1>2, <1>3, <1>4, <1>9, <2>1, <2>3
    <2>5. \A w \in Tasks : task'[w].old = source[s] => w = t
      BY <1>9, <2>1 DEF RegistryInv, TaskInv
    <2>6. QED
      BY <2>1, <2>2, <2>4, <2>5, Zenon
  <1>10. TaskInv'
    BY <1>7, <1>8, <1>9 DEF TaskInv, Retired
  <1>11. QED
    BY <1>5, <1>10, Zenon

(* What a service identifier goes through: a step in which services only    *)
(* leave the graph, by being quiesced or with their workspace, and tasks    *)
(* end or go on with their service.                                         *)
LEMMA LifeStep ==
    ASSUME RegistryInv,
           live' \subseteq live, quiesced \subseteq quiesced', quiesced' \subseteq quiesced \cup (live \ live'),
           ~present => ~present', present' => live \subseteq live' \cup quiesced',
           \A s \in Services : row'[s] = "absent" => row[s] = "absent",
           \A u \in Tasks :
             \/ /\ task'[u].op = task[u].op /\ task'[u].service = task[u].service
                /\ task'[u].known = task[u].known /\ (task[u].at = "idle" => task'[u].at = "idle")
             \/ task'[u].op = "idle" /\ task'[u].service = None /\ ~task'[u].known /\ task'[u].at = "idle"
    PROVE  LifeInv'
  <1>1. (quiesced \cap live = {})' /\ live' \cup quiesced' \subseteq live \cup quiesced
    BY Zenon DEF RegistryInv, LifeInv
  <1>2. \A s \in Services : row'[s] = "absent" =>
          s \notin live' \cup quiesced' /\ \A t \in Tasks : task'[t].service # s
    BY <1>1, RegistryAssumption, Zenon DEF RegistryInv, LifeInv
  <1>3. ASSUME NEW t \in Tasks
        PROVE  /\ task'[t].at # "idle" => task'[t].service \in Services
               /\ task'[t].op = "create" =>
                    /\ task'[t].service \in Services \ (live' \cup quiesced')
                    /\ \A u \in Tasks : task'[u].service = task'[t].service => u = t
               /\ task'[t].known => ~present' \/ task'[t].service \in live' \cup quiesced'
    <2>1. task'[t].at # "idle" => task'[t].service \in Services
      BY Zenon DEF RegistryInv, LifeInv
    <2>2. ASSUME task'[t].op = "create"
          PROVE  /\ task'[t].service \in Services \ (live' \cup quiesced')
                 /\ \A u \in Tasks : task'[u].service = task'[t].service => u = t
      <3>1. task[t].op = "create" /\ task'[t].service = task[t].service
        BY <2>2, Zenon
      <3>2. task[t].service # None
        BY <3>1, RegistryAssumption, Zenon DEF RegistryInv, LifeInv
      <3>3. QED
        BY <1>1, <3>1, <3>2 DEF RegistryInv, LifeInv
    <2>3. task'[t].known => ~present' \/ task'[t].service \in live' \cup quiesced'
      BY Zenon DEF RegistryInv, LifeInv
    <2>4. QED
      BY <2>1, <2>2, <2>3, Zenon
  <1>4. QED
    BY <1>1, <1>2, <1>3, Zenon DEF LifeInv

(* The leases of handles that stay as they are. *)
LEMMA LeaseFrame ==
    ASSUME LeaseInv, UNCHANGED <<refs, lease>>,
           \A h \in Handles : handle'[h] = handle[h] \/ (handle[h] # "open" /\ handle'[h] # "reclosed")
    PROVE  LeaseInv'
  <1>1. \A h : Holders(h)' = Holders(h)
    BY DEF Holders
  <1>2. QED
    BY <1>1 DEF LeaseInv

LEMMA ReadersCount ==
    ASSUME TypeOK, LeaseInv, NEW h \in Handles
    PROVE  Readers(h) = Cardinality(Holders(h))
  <1>1. CASE refs[h] = None
    BY <1>1, FS_EmptySet, Zenon DEF LeaseInv, Readers
  <1>2. CASE refs[h] # None
    BY <1>2, Zenon DEF LeaseInv, Readers
  <1>3. QED
    BY <1>1, <1>2

(* removeServiceLocked: the handle of the service is retired and the        *)
(* service is out for good.                                                 *)
LEMMA RemoveStep ==
    ASSUME RegistryInv, NEW s \in live, RemoveService(s), UNCHANGED lease,
           task' \in [Tasks -> TaskState], lock' \in [Services -> Tasks \cup {None}],
           row' \in [Services -> {"absent", "enabled", "disabled", "deleted"}],
           \A x \in Services : row'[x] = "absent" => row[x] = "absent",
           \A u \in Tasks :
             \/ task'[u] = task[u]
             \/ /\ task'[u].op = "idle" /\ task'[u].at = "idle" /\ task'[u].service = None
                /\ ~task'[u].known /\ task'[u].new = None /\ task'[u].old = None
    PROVE  RegistryInv'
  <1> USE DEF RegistryInv
  <1> DEFINE hs == {source[s]} \ {None}
  <1>1. hs \in SUBSET Handles /\ \A h \in hs : h = source[s] /\ handle[h] = "open" /\ ~Retired(h)
    BY DEF TypeOK, SourceInv
  <1>2. Retire(hs) /\ live' = live \ {s} /\ quiesced' = quiesced \cup {s} /\ UNCHANGED <<present, enabled, source>>
    BY Zenon DEF RemoveService
  <1> HIDE DEF hs
  <1>3. /\ refs' \in [Handles -> RefState \cup {None}]
        /\ handle' \in [Handles -> {"new", "constructing", "open", "closed", "reclosed"}]
        /\ LeaseInv'
        /\ \A h \in Handles \ hs : refs'[h] = refs[h] /\ handle'[h] = handle[h]
    BY <1>1, <1>2, RetireHandles, Zenon
  <1>4. TypeOK'
    BY <1>2, <1>3, Zenon DEF TypeOK
  <1>5. \A u \in Tasks : task'[u].new \notin hs /\ task'[u].old \notin hs
    <2>1. None \notin hs
      BY Zenon DEF hs
    <2>2. \A u \in Tasks : task[u].new # None => task[u].new \notin hs
      BY <1>1 DEF TaskInv
    <2>3. \A u \in Tasks : task[u].old # None => task[u].old \notin hs
      BY <1>1 DEF TaskInv
    <2>4. QED
      BY <2>1, <2>2, <2>3, Zenon
  <1>6. \A x \in live' : source'[x] = None \/ (source'[x] \notin hs /\ x \in live /\ source'[x] = source[x])
    BY <1>1, <1>2, Zenon DEF SourceInv
  <1>7. SourceInv' /\ TaskInv'
    BY <1>1, <1>3, <1>4, <1>5, <1>6, GraphStep, Zenon
  <1>8. LifeInv'
    BY <1>2, LifeStep, Zenon
  <1>9. QED
    BY <1>3, <1>4, <1>7, <1>8, Zenon

(* Every step of a request, an operation, the deletion coordinator and a    *)
(* constructor preserves the invariant.                                     *)
LEMMA RegistryStep == RegistryInv /\ [Next]_vars => RegistryInv'
  <1> SUFFICES ASSUME RegistryInv, [Next]_vars PROVE RegistryInv'
    BY Zenon
  <1> USE RegistryAssumption DEF RegistryInv
  <1>1. ASSUME NEW t \in Tasks, NEW s \in Services, CreateService(t, s)
        PROVE  RegistryInv'
    <2>1. /\ task' \in [Tasks -> TaskState] /\ \A u \in Tasks : u # t => task'[u] = task[u]
          /\ task'[t].at # "idle" /\ task'[t].op = "create" /\ task'[t].service = s
          /\ ~task'[t].known /\ task'[t].new = None /\ task'[t].old = None
      BY <1>1, BeginTask DEF CreateService
    <2>2. TypeOK'
      BY <1>1, <2>1 DEF CreateService, graph, TypeOK
    <2>3. LeaseInv' /\ SourceInv' /\ TaskInv'
      BY <1>1, <2>1, QuietStep, Zenon DEF CreateService, graph
    <2>4. LifeInv'
      BY <1>1, <2>1 DEF CreateService, graph, LifeInv, TypeOK
    <2>5. QED
      BY <2>2, <2>3, <2>4, Zenon
  <1>2. ASSUME NEW t \in Tasks, NEW s \in Services, UpdateService(t, s)
        PROVE  RegistryInv'
    <2>1. /\ task' \in [Tasks -> TaskState] /\ \A u \in Tasks : u # t => task'[u] = task[u]
          /\ task'[t].at # "idle" /\ task'[t].op = "update" /\ task'[t].service = s
          /\ ~task'[t].known /\ task'[t].new = None /\ task'[t].old = None
      BY <1>2, BeginTask, Zenon DEF UpdateService
    <2>2. TypeOK'
      BY <1>2, <2>1, Zenon DEF UpdateService, graph, TypeOK
    <2>3. LeaseInv' /\ SourceInv' /\ TaskInv'
      BY <1>2, <2>1, QuietStep, Zenon DEF UpdateService, graph
    <2>4. LifeInv'
      BY <1>2, <2>1 DEF UpdateService, graph, LifeInv, TypeOK
    <2>5. QED
      BY <2>2, <2>3, <2>4
  <1>3. ASSUME NEW t \in Tasks, NEW s \in Services, RefreshService(t, s)
        PROVE  RegistryInv'
    <2>1. /\ task' \in [Tasks -> TaskState] /\ \A u \in Tasks : u # t => task'[u] = task[u]
          /\ task'[t].at # "idle" /\ task'[t].op = "refresh" /\ task'[t].service = s
          /\ ~task'[t].known /\ task'[t].new = None /\ task'[t].old = None
      BY <1>3, BeginTask, Zenon DEF RefreshService
    <2>2. TypeOK'
      BY <1>3, <2>1, Zenon DEF RefreshService, graph, TypeOK
    <2>3. LeaseInv' /\ SourceInv' /\ TaskInv'
      BY <1>3, <2>1, QuietStep, Zenon DEF RefreshService, graph
    <2>4. LifeInv'
      BY <1>3, <2>1 DEF RefreshService, graph, LifeInv, TypeOK
    <2>5. QED
      BY <2>2, <2>3, <2>4
  <1>4. ASSUME NEW t \in Tasks, NEW s \in Services, PublishImport(t, s)
        PROVE  RegistryInv'
    <2>1. /\ task' \in [Tasks -> TaskState] /\ \A u \in Tasks : u # t => task'[u] = task[u]
          /\ task'[t].at # "idle" /\ task'[t].op = "refresh" /\ task'[t].service = s
          /\ ~task'[t].known /\ task'[t].new = None /\ task'[t].old = None
      BY <1>4, BeginTask, Zenon DEF PublishImport
    <2>2. TypeOK'
      BY <1>4, <2>1, Zenon DEF PublishImport, graph, TypeOK
    <2>3. LeaseInv' /\ SourceInv' /\ TaskInv'
      BY <1>4, <2>1, QuietStep, Zenon DEF PublishImport, graph
    <2>4. LifeInv'
      BY <1>4, <2>1 DEF PublishImport, graph, LifeInv, TypeOK
    <2>5. QED
      BY <2>2, <2>3, <2>4
  <1>5. ASSUME NEW t \in Tasks, NEW s \in Services, DeleteService(t, s)
        PROVE  RegistryInv'
    <2>1. /\ task' \in [Tasks -> TaskState] /\ \A u \in Tasks : u # t => task'[u] = task[u]
          /\ task'[t].at # "idle" /\ task'[t].op = "delete" /\ task'[t].service = s
          /\ ~task'[t].known /\ task'[t].new = None /\ task'[t].old = None
      BY <1>5, BeginTask, Zenon DEF DeleteService
    <2>2. TypeOK'
      BY <1>5, <2>1, Zenon DEF DeleteService, graph, TypeOK
    <2>3. LeaseInv' /\ SourceInv' /\ TaskInv'
      BY <1>5, <2>1, QuietStep, Zenon DEF DeleteService, graph
    <2>4. LifeInv'
      BY <1>5, <2>1 DEF DeleteService, graph, LifeInv, TypeOK
    <2>5. QED
      BY <2>2, <2>3, <2>4
  <1>6. ASSUME NEW t \in Tasks, LockService(t)
        PROVE  RegistryInv'
    <2>1. task[t].new = None /\ task[t].old = None
      BY <1>6, Zenon DEF LockService, TaskInv
    <2>2. /\ task' \in [Tasks -> TaskState] /\ \A u \in Tasks : u # t => task'[u] = task[u]
          /\ task'[t].op = task[t].op /\ task'[t].service = task[t].service
          /\ task'[t].known = task[t].known /\ task'[t].new = None /\ task'[t].old = None
      BY <1>6, <2>1, GotoTask DEF LockService
    <2>3. TypeOK'
      BY <1>6, <2>2, Zenon DEF LockService, graph, TypeOK
    <2>4. LeaseInv' /\ SourceInv' /\ TaskInv'
      BY <1>6, <2>2, QuietStep, Zenon DEF LockService, graph
    <2>5. LifeInv'
      BY <1>6, <2>2, LifeStep DEF LockService, graph
    <2>6. QED
      BY <2>3, <2>4, <2>5, Zenon
  <1>7. ASSUME NEW t \in Tasks, UpdateRead(t)
        PROVE  RegistryInv'
    <2>1. task[t].new = None /\ task[t].old = None
      BY <1>7, Zenon DEF UpdateRead, TaskInv
    <2>2. CASE End(t)
      <3>1. TypeOK'
        BY <1>7, <2>2, EndTask, Zenon DEF UpdateRead, graph, TypeOK
      <3>2. LeaseInv' /\ SourceInv' /\ TaskInv'
        BY <1>7, <2>2, EndTask, QuietStep, Zenon DEF UpdateRead, graph
      <3>3. LifeInv'
        BY <1>7, <2>2, EndTask, LifeStep, Zenon DEF UpdateRead, graph
      <3>4. QED
        BY <3>1, <3>2, <3>3
    <2>3. CASE ~End(t)
      <3>1. PICK want \in BOOLEAN, replace \in BOOLEAN, place \in {"prepare", "install"} :
              /\ task' = [task EXCEPT ![t] = [task[t] EXCEPT !.want = want, !.replace = replace, !.at = place]]
              /\ UNCHANGED lock
        BY <1>7, <2>3, Zenon DEF UpdateRead
      <3> DEFINE read == [task[t] EXCEPT !.want = want, !.replace = replace, !.at = place]
      <3>2. task[t] \in TaskState
        BY DEF TypeOK
      <3>3. /\ read \in TaskState
            /\ read.at = place /\ read.op = task[t].op /\ read.service = task[t].service
            /\ read.known = task[t].known /\ read.new = task[t].new /\ read.old = task[t].old
        BY <3>2, Zenon DEF TaskState
      <3> HIDE DEF read
      <3>4. task' = [task EXCEPT ![t] = read]
        BY <3>1 DEF read
      <3>5. task' \in [Tasks -> TaskState] /\ task'[t] = read /\ \A u \in Tasks : u # t => task'[u] = task[u]
        BY <3>3, <3>4, Zenon DEF TypeOK
      <3>6. TypeOK'
        BY <1>7, <3>1, <3>5, Zenon DEF UpdateRead, graph, TypeOK
      <3>7. LeaseInv' /\ SourceInv' /\ TaskInv'
        BY <1>7, <2>1, <3>3, <3>5, QuietStep, Zenon DEF UpdateRead, graph
      <3>8. task[t].at # "idle" /\ UNCHANGED <<graph, row>>
        BY <1>7, Zenon DEF UpdateRead
      <3>9. LifeInv'
        BY <3>3, <3>5, <3>8 DEF graph, LifeInv
      <3>10. QED
        BY <3>6, <3>7, <3>9
    <2>4. QED
      BY <2>2, <2>3
  <1>8. ASSUME NEW t \in Tasks, RefreshBegin(t)
        PROVE  RegistryInv'
    <2>1. task[t].new = None /\ task[t].old = None
      BY <1>8, Zenon DEF RefreshBegin, TaskInv
    <2>2. CASE End(t)
      <3>1. TypeOK'
        BY <1>8, <2>2, EndTask, Zenon DEF RefreshBegin, graph, TypeOK
      <3>2. LeaseInv' /\ SourceInv' /\ TaskInv'
        BY <1>8, <2>2, EndTask, QuietStep, Zenon DEF RefreshBegin, graph
      <3>3. LifeInv'
        BY <1>8, <2>2, EndTask, LifeStep DEF RefreshBegin, graph
      <3>4. QED
        BY <3>1, <3>2, <3>3
    <2>3. CASE ~End(t)
      <3> DEFINE begun == [task[t] EXCEPT !.at = "lock", !.known = task[t].service \in live]
      <3>1. task' = [task EXCEPT ![t] = begun] /\ UNCHANGED lock
        BY <1>8, <2>3, Zenon DEF RefreshBegin
      <3>2. task[t] \in TaskState
        BY DEF TypeOK
      <3>3. /\ begun \in TaskState
            /\ begun.at = "lock" /\ begun.op = task[t].op /\ begun.service = task[t].service
            /\ begun.known => task[t].service \in live
            /\ begun.new = task[t].new /\ begun.old = task[t].old
        <4>1. CASE task[t].service \in live
          <5>1. begun = [task[t] EXCEPT !.at = "lock", !.known = TRUE]
            BY <4>1, Zenon
          <5>2. QED
            BY <3>2, <4>1, <5>1, Zenon DEF TaskState
        <4>2. CASE task[t].service \notin live
          <5>1. begun = [task[t] EXCEPT !.at = "lock", !.known = FALSE]
            <6>1. (task[t].service \in live) = FALSE
              BY <4>2
            <6>2. QED
              BY <6>1, Zenon
          <5>2. QED
            BY <3>2, <5>1, Zenon DEF TaskState
        <4>3. QED
          BY <4>1, <4>2
      <3> HIDE DEF begun
      <3>5. task' \in [Tasks -> TaskState] /\ task'[t] = begun /\ \A u \in Tasks : u # t => task'[u] = task[u]
        BY <3>1, <3>3 DEF TypeOK
      <3>6. TypeOK'
        BY <1>8, <3>1, <3>5, Zenon DEF RefreshBegin, graph, TypeOK
      <3>7. LeaseInv' /\ SourceInv' /\ TaskInv'
        BY <1>8, <2>1, <3>3, <3>5, QuietStep, Zenon DEF RefreshBegin, graph
      <3>8. task[t].at # "idle" /\ UNCHANGED <<graph, row>>
        BY <1>8, Zenon DEF RefreshBegin
      <3>9. LifeInv'
        BY <3>3, <3>5, <3>8 DEF graph, LifeInv
      <3>10. QED
        BY <3>6, <3>7, <3>9
    <2>4. QED
      BY <2>2, <2>3
  <1>9. ASSUME NEW t \in Tasks, RefreshRead(t)
        PROVE  RegistryInv'
    <2>1. task[t].new = None /\ task[t].old = None /\ row[task[t].service] # "absent" /\ task[t].service \in Services
      BY <1>9, Zenon DEF RefreshRead, TaskInv, LifeInv
    <2>2. End(t) \/ ((Goto(t, "prepare") \/ Goto(t, "install")) /\ UNCHANGED lock)
      <3>1. row[task[t].service] \in {"enabled", "disabled", "deleted"}
        BY <2>1 DEF TypeOK
      <3>2. CASE row[task[t].service] = "enabled"
        BY <1>9, <3>2 DEF RefreshRead
      <3>3. CASE row[task[t].service] = "disabled"
        BY <1>9, <3>3 DEF RefreshRead
      <3>4. CASE row[task[t].service] = "deleted"
        BY <1>9, <3>4, Zenon DEF RefreshRead
      <3>5. QED
        BY <3>1, <3>2, <3>3, <3>4, Zenon
    <2>3. CASE End(t)
      <3>1. TypeOK'
        BY <1>9, <2>3, EndTask DEF RefreshRead, graph, TypeOK
      <3>2. LeaseInv' /\ SourceInv' /\ TaskInv'
        BY <1>9, <2>3, EndTask, QuietStep, Zenon DEF RefreshRead, graph
      <3>3. LifeInv'
        BY <1>9, <2>3, EndTask, LifeStep, Zenon DEF RefreshRead, graph
      <3>4. QED
        BY <3>1, <3>2, <3>3
    <2>4. ASSUME NEW place \in {"prepare", "install"}, Goto(t, place), UNCHANGED lock
          PROVE  RegistryInv'
      <3>1. TypeOK'
        BY <1>9, <2>4, GotoTask DEF RefreshRead, graph, TypeOK
      <3>2. LeaseInv' /\ SourceInv' /\ TaskInv'
        BY <1>9, <2>1, <2>4, GotoTask, QuietStep DEF RefreshRead, graph
      <3>3. LifeInv'
        BY <1>9, <2>4, GotoTask, LifeStep DEF RefreshRead, graph
      <3>4. QED
        BY <3>1, <3>2, <3>3, Zenon
    <2>5. QED
      BY <2>2, <2>3, <2>4, Zenon
  <1>10. ASSUME NEW r \in Requests, Acquire(r)
        PROVE  RegistryInv'
    <2>1. Installed \subseteq Handles /\ \A h \in Installed : handle[h] = "open" /\ ~Retired(h)
      BY DEF Installed, TypeOK, SourceInv
    <2>2. \A h \in Handles \ Installed : refs'[h] = refs[h]
      BY <1>10 DEF Acquire
    <2>3. \A h \in Installed : refs'[h] = [readers |-> Readers(h) + 1, retired |-> FALSE]
      <3> SUFFICES ASSUME NEW h \in Installed PROVE refs'[h] = [readers |-> Readers(h) + 1, retired |-> FALSE]
        OBVIOUS
      <3>1. (refs[h] # None /\ refs[h].retired) = FALSE
        BY <2>1, Zenon DEF Retired
      <3>2. refs'[h] = [readers |-> Readers(h) + 1, retired |-> refs[h] # None /\ refs[h].retired]
        BY <1>10, <2>1 DEF Acquire
      <3>3. QED
        BY <3>1, <3>2, Zenon
    <2>4. \A h \in Installed :
            /\ refs'[h] \in RefState /\ refs'[h] # None
            /\ refs'[h].readers = Cardinality(Holders(h)) + 1 /\ ~refs'[h].retired
      <3> SUFFICES ASSUME NEW h \in Installed
                   PROVE  /\ refs'[h] \in RefState /\ refs'[h] # None
                          /\ refs'[h].readers = Cardinality(Holders(h)) + 1 /\ ~refs'[h].retired
        BY Zenon
      <3>1. Readers(h) = Cardinality(Holders(h)) /\ Cardinality(Holders(h)) \in Nat
        BY <2>1, ReadersCount, HoldersFinite, Zenon
      <3>2. refs'[h] \in RefState /\ refs'[h].readers = Cardinality(Holders(h)) + 1 /\ ~refs'[h].retired
        <4>1. refs'[h] = [readers |-> Cardinality(Holders(h)) + 1, retired |-> FALSE]
          BY <2>3, <3>1
        <4>2. Cardinality(Holders(h)) + 1 \in Nat
          BY <3>1
        <4>3. QED
          BY <4>1, <4>2 DEF RefState
      <3>3. QED
        BY <3>2, NoneIsNoRef
    <2>5. TypeOK'
      <3>1. refs' \in [Handles -> RefState \cup {None}]
        <4>1. \A h \in Handles : refs'[h] \in RefState \cup {None}
          BY <2>2, <2>4, Zenon DEF TypeOK
        <4>2. QED
          BY <1>10, <4>1, Zenon DEF Acquire
      <3>2. lease' \in [Requests -> SUBSET Handles]
        BY <1>10, <2>1, Zenon DEF Acquire, TypeOK
      <3>3. QED
        BY <1>10, <3>1, <3>2, Zenon DEF Acquire, graph, TypeOK
    <2>6. LeaseInv'
      <3> SUFFICES ASSUME NEW h \in Handles
                   PROVE  /\ handle[h] # "reclosed"
                          /\ refs'[h] = None => Holders(h)' = {}
                          /\ refs'[h] # None =>
                               /\ handle[h] = "open" /\ refs'[h].readers = Cardinality(Holders(h)')
                               /\ refs'[h].retired => refs'[h].readers > 0
        BY <1>10, Zenon DEF Acquire, LeaseInv
      <3>1. CASE h \in Installed
        <4>1. Holders(h)' = Holders(h) \cup {r} /\ r \notin Holders(h)
          BY <1>10, <3>1 DEF Acquire, Holders, TypeOK
        <4>2. Cardinality(Holders(h)') = Cardinality(Holders(h)) + 1
          BY <4>1, HoldersFinite, FS_AddElement, Zenon
        <4>3. QED
          BY <2>1, <2>4, <3>1, <4>2, Zenon
      <3>2. CASE h \notin Installed
        <4>1. Holders(h)' = Holders(h)
          BY <1>10, <3>2, Zenon DEF Acquire, Holders, TypeOK
        <4>2. QED
          BY <2>2, <3>2, <4>1, Zenon DEF LeaseInv
      <3>3. QED
        BY <3>1, <3>2
    <2>7. \A h \in Handles : (refs'[h] # None /\ refs'[h].retired) => Retired(h)
      BY <2>1, <2>2, <2>4, Zenon DEF Retired
    <2>8. UNCHANGED <<graph, row, task, handle>>
      BY <1>10, Zenon DEF Acquire
    <2>9. SourceInv'
      BY <2>7, <2>8 DEF graph, SourceInv, Retired, TypeOK
    <2>10. TaskInv'
      <3>1. \A t \in Tasks : task[t].new \in Handles \cup {None} /\ task[t].old \in Handles \cup {None}
        BY DEF TypeOK, TaskState
      <3>2. \A t \in Tasks : task[t].new # None => task[t].new \in Handles \ Installed
        BY <3>1, Zenon DEF TaskInv, Installed
      <3>3. QED
        BY <2>2, <2>7, <2>8, <3>1, <3>2 DEF graph, TaskInv, Retired
    <2>11. LifeInv'
      BY <2>8 DEF graph, LifeInv
    <2>12. QED
      BY <2>5, <2>6, <2>9, <2>10, <2>11, Zenon
  <1>11. ASSUME NEW r \in Requests, Release(r)
        PROVE  RegistryInv'
    <2>1. PICK h \in lease[r] :
            LET closeNow == refs[h].readers = 1 /\ refs[h].retired
            IN  /\ lease' = [lease EXCEPT ![r] = @ \ {h}]
                /\ refs' = [refs EXCEPT ![h] = IF closeNow THEN None ELSE [refs[h] EXCEPT !.readers = @ - 1]]
                /\ handle' = IF closeNow THEN [handle EXCEPT ![h] = Closed(h)] ELSE handle
                /\ UNCHANGED <<graph, row, lock, task>>
      BY <1>11, Zenon DEF Release
    <2>2. h \in Handles /\ r \in Holders(h)
      BY Zenon DEF TypeOK, Holders
    <2>3. /\ refs[h] # None /\ refs[h] \in RefState /\ handle[h] = "open"
          /\ refs[h].readers = Cardinality(Holders(h))
      BY <2>2 DEF LeaseInv, TypeOK
    <2>4. Holders(h)' = Holders(h) \ {r} /\ \A g \in Handles \ {h} : Holders(g)' = Holders(g)
      BY <2>1, <2>2 DEF Holders, TypeOK
    <2>5. Cardinality(Holders(h) \ {r}) = refs[h].readers - 1
      BY <2>2, <2>3, HoldersFinite, FS_RemoveElement, Zenon
    <2>6. \A g \in Handles \ {h} : refs'[g] = refs[g] /\ handle'[g] = handle[g]
      BY <2>1, <2>2 DEF TypeOK
    <2>7. lease' \in [Requests -> SUBSET Handles]
      BY <2>1 DEF TypeOK
    <2>8. LifeInv'
      BY <2>1, LifeStep DEF graph
    <2>9. CASE refs[h].readers = 1 /\ refs[h].retired
      <3>1. refs'[h] = None /\ handle'[h] = "closed" /\ refs' = [refs EXCEPT ![h] = None]
            /\ handle' = [handle EXCEPT ![h] = "closed"]
        BY <2>1, <2>2, <2>3, <2>9, Zenon DEF TypeOK, Closed
      <3>2. TypeOK'
        BY <2>1, <2>7, <3>1, Zenon DEF graph, TypeOK
      <3>3. Holders(h)' = {}
        <4>1. IsFiniteSet(Holders(h) \ {r}) /\ Cardinality(Holders(h) \ {r}) = 0
          BY <2>3, <2>5, <2>9, HoldersFinite, FS_RemoveElement
        <4>2. QED
          BY <2>4, <4>1, FS_EmptySet, Zenon
      <3>4. LeaseInv'
        BY <2>4, <2>6, <3>1, <3>3 DEF LeaseInv
      <3>5. Retired(h)
        BY <2>3, <2>9, Zenon DEF Retired
      <3>6. \A u \in Tasks : task[u].new # h /\ task[u].old # h
        BY <2>2, <2>3, <3>5, Zenon DEF TaskInv
      <3>7. \A s \in live : source[s] # h
        BY <2>2, <3>5 DEF SourceInv
      <3>8. SourceInv' /\ TaskInv'
        <4>1. UNCHANGED <<task, live, source>>
          BY <2>1 DEF graph
        <4>2. \A s \in live' : source'[s] = None \/ (source'[s] \notin {h} /\ s \in live /\ source'[s] = source[s])
          BY <3>7, <4>1, Zenon
        <4>3. QED
          BY <2>2, <2>6, <3>2, <3>6, <4>1, <4>2, GraphStep, Zenon
      <3>9. QED
        BY <2>8, <3>2, <3>4, <3>8, Zenon
    <2>10. CASE ~(refs[h].readers = 1 /\ refs[h].retired)
      <3>a. refs' = [refs EXCEPT ![h] = [refs[h] EXCEPT !.readers = refs[h].readers - 1]] /\ UNCHANGED handle
        <4> DEFINE less == [refs[h] EXCEPT !.readers = refs[h].readers - 1]
        <4>1. UNCHANGED handle
          BY <2>1, <2>10
        <4>2. refs' = [refs EXCEPT ![h] = IF refs[h].readers = 1 /\ refs[h].retired THEN None ELSE less]
          BY <2>1, Zenon
        <4> HIDE DEF less
        <4>3. (IF refs[h].readers = 1 /\ refs[h].retired THEN None ELSE less) = less
          BY <2>10
        <4>4. refs' = [refs EXCEPT ![h] = less]
          BY <4>2, <4>3, Zenon
        <4>5. QED
          BY <4>1, <4>4 DEF less
      <3>1. refs'[h] = [refs[h] EXCEPT !.readers = refs[h].readers - 1] /\ UNCHANGED handle
        BY <2>2, <3>a, Zenon DEF TypeOK
      <3>2. refs[h].readers \in Nat /\ refs[h].readers - 1 \in Nat
        <4>1. refs[h].readers \in Nat
          BY <2>3, Zenon DEF RefState
        <4>2. refs[h].readers # 0
          BY <2>2, <2>3, HoldersFinite, FS_EmptySet
        <4>3. QED
          BY <4>1, <4>2
      <3>3. refs'[h] \in RefState /\ refs'[h].readers = refs[h].readers - 1 /\ refs'[h].retired = refs[h].retired
        BY <2>3, <3>1, <3>2, Zenon DEF RefState
      <3>4. refs'[h] # None
        BY <3>3, NoneIsNoRef, Zenon
      <3>5. TypeOK'
        BY <2>1, <2>7, <3>a, <3>3, Zenon DEF graph, TypeOK
      <3>6. LeaseInv'
        <4>1. refs'[h].retired => refs'[h].readers > 0
          BY <2>10, <3>2, <3>3
        <4>2. handle'[h] = "open" /\ refs'[h].readers = Cardinality(Holders(h)')
          BY <2>3, <2>4, <2>5, <3>1, <3>3, Zenon
        <4>3. QED
          BY <2>4, <2>6, <3>4, <4>1, <4>2, Zenon DEF LeaseInv
      <3>7. \A g \in Handles : (refs'[g] # None /\ refs'[g].retired) => Retired(g)
        BY <2>3, <2>6, <3>3 DEF Retired
      <3>8. UNCHANGED <<live, source, task, handle>>
        BY <2>1, <3>1, Zenon DEF graph
      <3>9. SourceInv'
        BY <3>7, <3>8 DEF SourceInv, Retired, TypeOK
      <3>10. TaskInv'
        <4>1. \A t \in Tasks : task[t].new \in Handles \cup {None} /\ task[t].old \in Handles \cup {None}
          BY Zenon DEF TypeOK, TaskState
        <4>2. \A t \in Tasks : task[t].new # None => task[t].new \in Handles \ {h}
          BY <2>3, <4>1 DEF TaskInv
        <4>3. QED
          BY <2>6, <3>7, <3>8, <4>1, <4>2 DEF TaskInv, Retired
      <3>11. QED
        BY <2>8, <3>5, <3>6, <3>9, <3>10, Zenon
    <2>11. QED
      BY <2>9, <2>10
  <1>12. ASSUME NEW t \in Tasks, Construct(t)
        PROVE  RegistryInv'
    <2> DEFINE h == CHOOSE h \in Unused : TRUE
               made == [task[t] EXCEPT !.at = "constructing", !.new = h]
    <2>1. h \in Handles /\ handle[h] = "new"
      BY <1>12 DEF Construct, Unused
    <2>2. handle' = [handle EXCEPT ![h] = "constructing"] /\ task' = [task EXCEPT ![t] = made]
      BY <1>12, Zenon DEF Construct
    <2>3. task[t] \in TaskState /\ task[t].at = "prepare" /\ task[t].new = None /\ task[t].old = None
      BY <1>12 DEF Construct, TypeOK, TaskInv
    <2> HIDE DEF h
    <2>4. /\ made \in TaskState /\ made.at = "constructing" /\ made.new = h /\ made.old = None
          /\ made.op = task[t].op /\ made.service = task[t].service /\ made.known = task[t].known
      BY <2>1, <2>3, Zenon DEF TaskState
    <2> HIDE DEF made
    <2>5. task' \in [Tasks -> TaskState] /\ task'[t] = made /\ \A u \in Tasks : u # t => task'[u] = task[u]
      BY <2>2, <2>4, Zenon DEF TypeOK
    <2>6. handle'[h] = "constructing" /\ \A g \in Handles \ {h} : handle'[g] = handle[g]
      BY <2>1, <2>2 DEF TypeOK
    <2>7. TypeOK'
      BY <1>12, <2>1, <2>2, <2>5, Zenon DEF Construct, graph, TypeOK
    <2>8. UNCHANGED <<live, source, refs, lease, row, present, quiesced>>
      BY <1>12, Zenon DEF Construct, graph
    <2>9. LeaseInv'
      BY <2>1, <2>6, <2>8, LeaseFrame, Zenon
    <2>10. LifeInv'
      BY <2>3, <2>4, <2>5, <2>8, LifeStep, Zenon
    <2>11. /\ refs[h] = None /\ \A s \in live : source[s] # h
           /\ \A u \in Tasks : task[u].new # h /\ task[u].old # h
      BY <2>1, Zenon DEF LeaseInv, SourceInv, TaskInv
    <2>12. SourceInv'
      BY <2>6, <2>8, <2>11 DEF SourceInv, Retired, TypeOK
    <2>13. TaskInv'
      <3>1. \A u \in Tasks : task[u].new \in Handles \cup {None} /\ task[u].old \in Handles \cup {None}
        BY DEF TypeOK, TaskState
      <3>2. ASSUME NEW u \in Tasks, u # t, task[u].new # None
            PROVE  /\ \/ task[u].at = "constructing" /\ handle'[task[u].new] = "constructing"
                      \/ task[u].at = "install" /\ handle'[task[u].new] = "open"
                   /\ refs'[task[u].new] = None
                   /\ \A s \in live' : source'[s] # task[u].new
                   /\ \A w \in Tasks : (task'[w].new = task[u].new => w = u) /\ task'[w].old # task[u].new
        BY <2>4, <2>5, <2>6, <2>8, <2>11, <3>1, <3>2 DEF TaskInv
      <3>3. ASSUME NEW u \in Tasks, u # t, task[u].old # None
            PROVE  /\ task[u].at = "retire" /\ handle'[task[u].old] = "open"
                   /\ (refs'[task[u].old] # None => ~refs'[task[u].old].retired)
                   /\ \A s \in live' : source'[s] # task[u].old
                   /\ \A w \in Tasks : task'[w].old = task[u].old => w = u
        BY <2>4, <2>5, <2>6, <2>8, <2>11, <3>1, <3>3 DEF TaskInv, Retired
      <3>4. /\ handle'[h] = "constructing" /\ refs'[h] = None /\ \A s \in live' : source'[s] # h
            /\ \A w \in Tasks : (task'[w].new = h => w = t) /\ task'[w].old # h
        BY <2>1, <2>4, <2>5, <2>6, <2>8, <2>11
      <3>5. QED
        BY <2>4, <2>5, <3>2, <3>3, <3>4 DEF TaskInv, Retired
    <2>14. QED
      BY <2>7, <2>9, <2>10, <2>12, <2>13
  <1>13. ASSUME NEW t \in Tasks, Constructed(t)
        PROVE  RegistryInv'
    <2> DEFINE h == task[t].new
    <2>1. /\ handle' = [handle EXCEPT ![h] = "open"] /\ Goto(t, "install") /\ task[t].at = "constructing"
          /\ UNCHANGED <<live, source, refs, lease, row, present, quiesced>>
      BY <1>13, Zenon DEF Constructed, graph
    <2>2. h \in Handles \cup {None} /\ (h # None => handle[h] = "constructing") /\ task[t].old = None
      BY <2>1, Zenon DEF TypeOK, TaskState, TaskInv
    <2>3. /\ task' \in [Tasks -> TaskState] /\ \A u \in Tasks : u # t => task'[u] = task[u]
          /\ task'[t].at = "install" /\ task'[t].op = task[t].op /\ task'[t].service = task[t].service
          /\ task'[t].known = task[t].known /\ task'[t].new = h /\ task'[t].old = None
      BY <2>1, <2>2, GotoTask, Zenon
    <2>4. (h # None => handle'[h] = "open") /\ \A g \in Handles \ {h} : handle'[g] = handle[g]
      BY <2>1, <2>2 DEF TypeOK
    <2>5. TypeOK'
      BY <1>13, <2>1, <2>2, <2>3, Zenon DEF Constructed, graph, TypeOK
    <2>6. LeaseInv'
      BY <2>1, <2>2, <2>4, LeaseFrame
    <2>7. LifeInv'
      BY <2>1, <2>3, LifeStep, Zenon
    <2>8. /\ h # None => refs[h] = None /\ \A s \in live : source[s] # h
          /\ h # None => \A u \in Tasks : (task[u].new = h => u = t) /\ task[u].old # h
      BY Zenon DEF TaskInv
    <2> HIDE DEF h
    <2>9. SourceInv'
      BY <2>1, <2>4, <2>8 DEF SourceInv, Retired, TypeOK
    <2>10. TaskInv'
      <3>1. \A u \in Tasks : task[u].new \in Handles \cup {None} /\ task[u].old \in Handles \cup {None}
        BY DEF TypeOK, TaskState
      <3>2. \A u \in Tasks : task'[u].new = task[u].new /\ task'[u].old = task[u].old
        BY <2>2, <2>3, Zenon DEF h
      <3>3. ASSUME NEW u \in Tasks, u # t, task[u].new # None
            PROVE  /\ \/ task[u].at = "constructing" /\ handle'[task[u].new] = "constructing"
                      \/ task[u].at = "install" /\ handle'[task[u].new] = "open"
        BY <2>4, <2>8, <3>1, <3>3, Zenon DEF TaskInv
      <3>4. ASSUME NEW u \in Tasks, task[u].old # None
            PROVE  u # t /\ task[u].at = "retire" /\ handle'[task[u].old] = "open"
        BY <2>2, <2>4, <2>8, <3>1, <3>4, Zenon DEF TaskInv
      <3>5. QED
        BY <2>1, <2>3, <2>4, <3>2, <3>3, <3>4 DEF TaskInv, Retired
    <2>11. QED
      BY <2>5, <2>6, <2>7, <2>9, <2>10
  <1>14. ASSUME NEW t \in Tasks, PrepareFails(t)
        PROVE  RegistryInv'
    <2>1. /\ task' \in [Tasks -> TaskState] /\ lock' \in [Services -> Tasks \cup {None}]
          /\ \A u \in Tasks : u # t => task'[u] = task[u]
          /\ task'[t].op = "idle" /\ task'[t].at = "idle" /\ task'[t].service = None /\ ~task'[t].known
          /\ task'[t].new = None /\ task'[t].old = None
      BY <1>14, EndTask, Zenon DEF PrepareFails
    <2>2. task[t] \in TaskState
      BY DEF TypeOK
    <2> DEFINE new == task[t].new
    <2>3. new \in Handles \cup {None} /\ task[t].old = None
      BY <1>14, <2>2, Zenon DEF PrepareFails, TaskState, TaskInv
    <2>4. /\ \A u \in Tasks : task'[u].new \notin {new} \ {None} /\ task'[u].old \notin {new} \ {None}
          /\ \A x \in live : source[x] = None \/ source[x] \notin {new} \ {None}
      BY <2>1 DEF TaskInv
    <2>5. /\ handle' \in [Handles -> {"new", "constructing", "open", "closed", "reclosed"}]
          /\ \A h \in Handles : handle'[h] = handle[h] \/ (h = new /\ handle[h] # "open" /\ handle'[h] = "closed")
      BY <1>14, <2>3 DEF PrepareFails, TypeOK, TaskInv
    <2>6. /\ row' \in [Services -> {"absent", "enabled", "disabled", "deleted"}]
          /\ \A s \in Services : row'[s] = "absent" => row[s] = "absent"
      BY <1>14 DEF PrepareFails, TypeOK
    <2>7. UNCHANGED <<present, live, enabled, source, quiesced, refs, lease>>
      BY <1>14, Zenon DEF PrepareFails, graph
    <2>8. TypeOK'
      BY <2>1, <2>5, <2>6, <2>7, Zenon DEF TypeOK
    <2>9. LeaseInv'
      BY <2>5, <2>7, LeaseFrame
    <2>10. SourceInv' /\ TaskInv'
      <3> HIDE DEF new
      <3>1. {new} \ {None} \in SUBSET Handles
        BY <2>3, Zenon
      <3>2. \A h \in Handles \ ({new} \ {None}) : refs'[h] = refs[h] /\ handle'[h] = handle[h]
        BY <2>5, <2>7, Zenon
      <3>3. \A x \in live' : source'[x] = None \/ (source'[x] \notin {new} \ {None} /\ x \in live /\ source'[x] = source[x])
        BY <2>4, <2>7, Zenon
      <3>4. QED
        BY <2>1, <2>4, <2>8, <3>1, <3>2, <3>3, GraphStep, Zenon
    <2>11. LifeInv'
      BY <2>1, <2>6, <2>7, LifeStep, Zenon
    <2>12. QED
      BY <2>8, <2>9, <2>10, <2>11, Zenon
  <1>15. ASSUME NEW t \in Tasks, CreateInstall(t)
        PROVE  RegistryInv'
    <2>1. /\ task' \in [Tasks -> TaskState] /\ lock' \in [Services -> Tasks \cup {None}]
          /\ \A u \in Tasks : u # t => task'[u] = task[u]
          /\ task'[t].op = "idle" /\ task'[t].at = "idle" /\ task'[t].service = None /\ ~task'[t].known
          /\ task'[t].new = None /\ task'[t].old = None
      BY <1>15, EndTask, Zenon DEF CreateInstall
    <2>2. task[t] \in TaskState
      BY DEF TypeOK
    <2> DEFINE new == task[t].new
               s == task[t].service
    <2>3. new \in Handles \cup {None} /\ task[t].old = None
      BY <1>15, <2>2, Zenon DEF CreateInstall, TaskState, TaskInv
    <2>4. /\ \A u \in Tasks : task'[u].new \notin {new} \ {None} /\ task'[u].old \notin {new} \ {None}
          /\ \A x \in live : source[x] = None \/ source[x] \notin {new} \ {None}
      BY <2>1 DEF TaskInv
    <2>5. /\ s \in Services /\ s \notin live \cup quiesced /\ row[s] # "absent"
          /\ \A u \in Tasks : u # t => task[u].service # s
      BY <1>15, Zenon DEF CreateInstall, LifeInv
    <2>6. new # None => handle[new] = "open" /\ refs[new] = None
      BY <1>15, Zenon DEF CreateInstall, TaskInv
    <2>7. CASE present
      <3>1. /\ live' = live \cup {s} /\ enabled' \in {enabled, enabled \cup {s}} /\ source' = [source EXCEPT ![s] = new]
            /\ UNCHANGED <<refs, handle, present, quiesced, row, lease>>
        BY <1>15, <2>7, Zenon DEF CreateInstall
      <3>2. TypeOK'
        BY <2>1, <2>3, <2>5, <3>1, Zenon DEF TypeOK
      <3>3. LeaseInv'
        BY <3>1, LeaseFrame
      <3>4. SourceInv' /\ TaskInv'
        <4>1. task[t].at = "install"
          BY <1>15, Zenon DEF CreateInstall
        <4>2. {} \in SUBSET Handles /\ \A h \in Handles \ {} : refs'[h] = refs[h] /\ handle'[h] = handle[h]
          BY <3>1
        <4>3. QED
          BY <2>1, <2>5, <3>1, <3>2, <4>1, <4>2, InstallStep, Zenon
      <3>5. LifeInv'
        <4>1. (quiesced \cap live = {})'
          BY <2>5, <3>1, Zenon DEF LifeInv
        <4>2. \A x \in Services : row'[x] = "absent" =>
                x \notin live' \cup quiesced' /\ \A u \in Tasks : task'[u].service # x
          BY <2>1, <2>5, <3>1 DEF LifeInv
        <4>3. ASSUME NEW u \in Tasks
              PROVE  /\ task'[u].at # "idle" => task'[u].service \in Services
                     /\ task'[u].op = "create" =>
                          /\ task'[u].service \in Services \ (live' \cup quiesced')
                          /\ \A w \in Tasks : task'[w].service = task'[u].service => w = u
                     /\ task'[u].known => ~present' \/ task'[u].service \in live' \cup quiesced'
          <5>1. CASE u = t
            BY <2>1, <5>1, Zenon
          <5>2. CASE u # t
            <6>1. task'[u] = task[u] /\ task[u].service # s
              BY <2>1, <2>5, <5>2
            <6>2. task[u].op = "create" =>
                    /\ task[u].service \in Services \ (live' \cup quiesced')
                    /\ \A w \in Tasks : task'[w].service = task[u].service => w = u
              BY <2>1, <3>1, <6>1 DEF LifeInv
            <6>3. QED
              BY <3>1, <6>1, <6>2, Zenon DEF LifeInv
          <5>3. QED
            BY <5>1, <5>2, Zenon
        <4>4. QED
          BY <4>1, <4>2, <4>3, Zenon DEF LifeInv
      <3>6. QED
        BY <3>2, <3>3, <3>4, <3>5
    <2>8. CASE ~present
      <3> DEFINE hs == {new} \ {None}
      <3>1. Retire(hs) /\ UNCHANGED <<live, enabled, source, present, quiesced, row, lease>>
        BY <1>15, <2>8 DEF CreateInstall
      <3>2. hs \in SUBSET Handles /\ \A h \in hs : handle[h] = "open" /\ ~Retired(h)
        BY <2>3, <2>6, Zenon DEF Retired
      <3>3. \A x \in live' : source'[x] = None \/ (source'[x] \notin hs /\ x \in live /\ source'[x] = source[x])
        BY <2>4, <3>1, Zenon
      <3>4. \A u \in Tasks : task'[u].new \notin hs /\ task'[u].old \notin hs
        BY <2>4
      <3> HIDE DEF hs
      <3>5. /\ refs' \in [Handles -> RefState \cup {None}]
            /\ handle' \in [Handles -> {"new", "constructing", "open", "closed", "reclosed"}]
            /\ LeaseInv'
            /\ \A h \in Handles \ hs : refs'[h] = refs[h] /\ handle'[h] = handle[h]
        BY <3>1, <3>2, RetireHandles, Zenon
      <3>6. TypeOK'
        BY <2>1, <3>1, <3>5 DEF TypeOK
      <3>7. SourceInv' /\ TaskInv'
        BY <2>1, <3>2, <3>3, <3>4, <3>5, <3>6, GraphStep, Zenon
      <3>8. LifeInv'
        BY <2>1, <3>1, LifeStep, Zenon
      <3>9. QED
        BY <3>5, <3>6, <3>7, <3>8, Zenon
    <2>9. QED
      BY <2>7, <2>8, Zenon
  <1>16. ASSUME NEW t \in Tasks, UpdateInstall(t)
        PROVE  RegistryInv'
    <2>1. /\ task' \in [Tasks -> TaskState] /\ lock' \in [Services -> Tasks \cup {None}]
          /\ \A u \in Tasks : u # t => task'[u] = task[u]
          /\ task'[t].op = "idle" /\ task'[t].at = "idle" /\ task'[t].service = None /\ ~task'[t].known
          /\ task'[t].new = None /\ task'[t].old = None
      BY <1>16, EndTask, Zenon DEF UpdateInstall
    <2>2. task[t] \in TaskState
      BY DEF TypeOK
    <2> DEFINE new == task[t].new
               s == task[t].service
    <2>3. new \in Handles \cup {None} /\ task[t].old = None
      BY <1>16, <2>2, Zenon DEF UpdateInstall, TaskState, TaskInv
    <2>4. /\ \A u \in Tasks : task'[u].new \notin {new} \ {None} /\ task'[u].old \notin {new} \ {None}
          /\ \A x \in live : source[x] = None \/ source[x] \notin {new} \ {None}
      BY <2>1 DEF TaskInv
    <2>5. CASE CloseNew(new) /\ UNCHANGED <<row, live, enabled, source>>
      <3>1. new # None => handle[new] = "open" /\ refs[new] = None
        BY <1>16, Zenon DEF UpdateInstall, TaskInv
      <3>2. UNCHANGED <<present, live, enabled, source, quiesced, lease, row>>
        BY <1>16, <2>5, Zenon DEF UpdateInstall, graph
      <3> HIDE DEF new
      <3>3. /\ handle' \in [Handles -> {"new", "constructing", "open", "closed", "reclosed"}]
            /\ LeaseInv' /\ UNCHANGED refs
            /\ \A g \in Handles \ {new} : handle'[g] = handle[g]
        BY <2>3, <2>5, <3>1, <3>2, CloseNewHandle, Zenon
      <3>4. TypeOK'
        BY <2>1, <3>2, <3>3, Zenon DEF TypeOK
      <3>5. \A x \in live' : source'[x] = None \/ (source'[x] \notin {new} \ {None} /\ x \in live /\ source'[x] = source[x])
        BY <2>4, <3>2
      <3>6. {new} \ {None} \in SUBSET Handles
        BY <2>3
      <3>7. \A h \in Handles \ ({new} \ {None}) : refs'[h] = refs[h] /\ handle'[h] = handle[h]
        BY <3>3
      <3>8. SourceInv' /\ TaskInv'
        BY <2>1, <2>4, <3>4, <3>5, <3>6, <3>7, GraphStep, Zenon
      <3>9. LifeInv'
        BY <2>1, <3>2, LifeStep, Zenon
      <3>10. QED
        BY <3>3, <3>4, <3>8, <3>9
    <2>6. CASE /\ present /\ s \in live /\ row[s] # "deleted"
               /\ row' = [row EXCEPT ![s] = IF task[t].want THEN "enabled" ELSE "disabled"]
               /\ enabled' = IF task[t].want THEN enabled \cup {s} ELSE enabled \ {s}
               /\ \/ source' = [source EXCEPT ![s] = new] /\ Retire({source[s]} \ {None})
                  \/ UNCHANGED <<source, refs, handle>>
      <3>1. s \in Services
        BY <2>6, Zenon DEF TypeOK
      <3>2. /\ row' \in [Services -> {"absent", "enabled", "disabled", "deleted"}] /\ enabled' \subseteq Services
            /\ \A x \in Services : row'[x] = "absent" => row[x] = "absent"
        BY <2>6, <3>1, Zenon DEF TypeOK
      <3>3. UNCHANGED <<present, live, quiesced, lease>>
        BY <1>16 DEF UpdateInstall
      <3>4. LifeInv'
        BY <2>1, <3>2, <3>3, LifeStep, Zenon
      <3>5. CASE source' = [source EXCEPT ![s] = new] /\ Retire({source[s]} \ {None})
        <4> DEFINE hs == {source[s]} \ {None}
        <4>1. hs \in SUBSET Handles /\ \A h \in hs : h = source[s] /\ handle[h] = "open" /\ ~Retired(h)
          BY <2>6 DEF TypeOK, SourceInv
        <4>2. Retire(hs)
          BY <3>5
        <4> HIDE DEF hs
        <4>3. /\ refs' \in [Handles -> RefState \cup {None}]
                /\ handle' \in [Handles -> {"new", "constructing", "open", "closed", "reclosed"}]
                /\ LeaseInv'
                /\ \A h \in Handles \ hs : refs'[h] = refs[h] /\ handle'[h] = handle[h]
          BY <3>3, <4>1, <4>2, RetireHandles, Zenon
        <4>4. TypeOK'
          BY <2>1, <2>3, <3>2, <3>3, <3>5, <4>3, Zenon DEF TypeOK
        <4>5. live' = live \cup {s} /\ task[t].at = "install"
          BY <1>16, <2>6, <3>3, Zenon DEF UpdateInstall
        <4>6. SourceInv' /\ TaskInv'
          <5>1. \A h \in hs : s \in live /\ h = source[s]
            BY <2>6, <4>1, Zenon
          <5>2. source' = [source EXCEPT ![s] = task[t].new]
            BY <3>5, Zenon
          <5> HIDE DEF s, new
          <5>3. QED
            BY <2>1, <3>1, <4>1, <4>3, <4>4, <4>5, <5>1, <5>2, InstallStep, Zenon
        <4>7. QED
          BY <3>4, <4>3, <4>4, <4>6, Zenon
      <3>6. CASE UNCHANGED <<source, refs, handle>>
        <4>1. TypeOK'
          BY <2>1, <3>2, <3>3, <3>6, Zenon DEF TypeOK
        <4>2. LeaseInv' /\ SourceInv' /\ TaskInv'
          BY <2>1, <3>3, <3>6, QuietStep, Zenon
        <4>3. QED
          BY <3>4, <4>1, <4>2
      <3>7. QED
        BY <2>6, <3>5, <3>6, Zenon
    <2>7. QED
      BY <1>16, <2>5, <2>6, Zenon DEF UpdateInstall
  <1>17. ASSUME NEW t \in Tasks, RefreshDropped(t)
        PROVE  RegistryInv'
    <2>1. /\ task' \in [Tasks -> TaskState] /\ lock' \in [Services -> Tasks \cup {None}]
          /\ \A u \in Tasks : u # t => task'[u] = task[u]
          /\ task'[t].op = "idle" /\ task'[t].at = "idle" /\ task'[t].service = None /\ ~task'[t].known
          /\ task'[t].new = None /\ task'[t].old = None
      BY <1>17, EndTask, Zenon DEF RefreshDropped
    <2>2. task[t] \in TaskState
      BY DEF TypeOK
    <2> DEFINE new == task[t].new
    <2>3. new \in Handles \cup {None} /\ task[t].old = None
      BY <1>17, <2>2, Zenon DEF RefreshDropped, TaskState, TaskInv
    <2>4. /\ \A u \in Tasks : task'[u].new \notin {new} \ {None} /\ task'[u].old \notin {new} \ {None}
          /\ \A x \in live : source[x] = None \/ source[x] \notin {new} \ {None}
      BY <2>1 DEF TaskInv
    <2>5. CASE CloseNew(new) /\ UNCHANGED <<row, live, enabled, source>>
      <3>1. new # None => handle[new] = "open" /\ refs[new] = None
        BY <1>17 DEF RefreshDropped, TaskInv
      <3>2. UNCHANGED <<present, live, enabled, source, quiesced, lease, row>>
        BY <1>17, <2>5, Zenon DEF RefreshDropped, graph
      <3> HIDE DEF new
      <3>3. /\ handle' \in [Handles -> {"new", "constructing", "open", "closed", "reclosed"}]
            /\ LeaseInv' /\ UNCHANGED refs
            /\ \A g \in Handles \ {new} : handle'[g] = handle[g]
        BY <2>3, <2>5, <3>1, <3>2, CloseNewHandle
      <3>4. TypeOK'
        BY <2>1, <3>2, <3>3 DEF TypeOK
      <3>5. \A x \in live' : source'[x] = None \/ (source'[x] \notin {new} \ {None} /\ x \in live /\ source'[x] = source[x])
        BY <2>4, <3>2
      <3>6. {new} \ {None} \in SUBSET Handles
        BY <2>3
      <3>7. \A h \in Handles \ ({new} \ {None}) : refs'[h] = refs[h] /\ handle'[h] = handle[h]
        BY <3>3
      <3>8. SourceInv' /\ TaskInv'
        BY <2>1, <2>4, <3>4, <3>5, <3>6, <3>7, GraphStep, Zenon
      <3>9. LifeInv'
        BY <2>1, <3>2, LifeStep
      <3>10. QED
        BY <3>3, <3>4, <3>8, <3>9
    <2>6. QED
      BY <1>17, <2>5, Zenon DEF RefreshDropped, graph
  <1>18. ASSUME NEW t \in Tasks, RefreshInstall(t)
        PROVE  RegistryInv'
    <2> DEFINE new == task[t].new
               s == task[t].service
    <2>1. /\ task[t].at = "install" /\ task[t].op = "refresh" /\ present /\ s \notin quiesced
          /\ UNCHANGED <<present, quiesced, row, refs, lease, handle>>
      BY <1>18, Zenon DEF RefreshInstall
    <2>2. s \in Services /\ row[s] # "absent" /\ \A u \in Tasks : task[u].op = "create" => task[u].service # s
      BY <2>1, Zenon DEF LifeInv
    <2>3. task[t] \in TaskState /\ new \in Handles \cup {None} /\ task[t].old = None
      BY <2>1, Zenon DEF TypeOK, TaskState, TaskInv
    <2>4. LeaseInv'
      BY <2>1, LeaseFrame
    <2>5. {} \in SUBSET Handles /\ \A h \in Handles \ {} : refs'[h] = refs[h] /\ handle'[h] = handle[h]
      BY <2>1, Zenon
    <2>6. CASE s \in live
      <3> DEFINE old == source[s]
                 left == [task[t] EXCEPT !.at = "retire", !.new = None, !.old = old]
      <3>1. source' = [source EXCEPT ![s] = new] /\ task' = [task EXCEPT ![t] = left] /\ UNCHANGED <<live, enabled, lock>>
        BY <1>18, <2>6, Zenon DEF RefreshInstall
      <3>2. old \in Handles \cup {None}
        BY <2>2 DEF TypeOK
      <3> HIDE DEF old
      <3>3. /\ left \in TaskState /\ left.at = "retire" /\ left.new = None /\ left.old = old
            /\ left.op = task[t].op /\ left.service = s /\ left.known = task[t].known
        BY <2>3, <3>2, Zenon DEF TaskState
      <3> HIDE DEF left
      <3>4. task' \in [Tasks -> TaskState] /\ task'[t] = left /\ \A u \in Tasks : u # t => task'[u] = task[u]
        BY <3>1, <3>3 DEF TypeOK
      <3>5. TypeOK'
        BY <2>1, <2>3, <3>1, <3>4, Zenon DEF TypeOK
      <3>6. SourceInv' /\ TaskInv'
        <4>1. live' = live \cup {s} /\ source' = [source EXCEPT ![s] = task[t].new]
          BY <2>6, <3>1, Zenon
        <4>2. task'[t].new = None /\ task'[t].old = source[s] /\ task'[t].at = "retire"
          BY <3>3, <3>4 DEF old
        <4> HIDE DEF s, new
        <4>3. QED
          BY <2>1, <2>2, <2>5, <2>6, <3>4, <3>5, <4>1, <4>2, InstallStep, Zenon
      <3>7. LifeInv'
        BY <2>1, <3>1, <3>3, <3>4, LifeStep, Zenon
      <3>8. QED
        BY <2>4, <3>5, <3>6, <3>7
    <2>7. CASE s \notin live
      <3>1. ~task[t].known
        BY <2>1, <2>7, Zenon DEF LifeInv
      <3>2. /\ live' = live \cup {s} /\ source' = [source EXCEPT ![s] = new]
            /\ enabled' \in {enabled, enabled \cup {s}} /\ End(t)
        BY <1>18, <2>7, <3>1 DEF RefreshInstall
      <3>3. /\ task' \in [Tasks -> TaskState] /\ lock' \in [Services -> Tasks \cup {None}]
            /\ \A u \in Tasks : u # t => task'[u] = task[u]
            /\ task'[t].op = "idle" /\ task'[t].at = "idle" /\ task'[t].service = None /\ ~task'[t].known
            /\ task'[t].new = None /\ task'[t].old = None
        BY <3>2, EndTask, Zenon
      <3>4. TypeOK'
        BY <2>1, <2>2, <2>3, <3>2, <3>3, Zenon DEF TypeOK
      <3>5. SourceInv' /\ TaskInv'
        <4>1. live' = live \cup {s} /\ source' = [source EXCEPT ![s] = task[t].new]
          BY <3>2, Zenon
        <4>2. task[t].at = "install"
          BY <2>1, Zenon
        <4> HIDE DEF s, new
        <4>3. QED
          BY <2>2, <2>5, <3>3, <3>4, <4>1, <4>2, InstallStep, Zenon
      <3>6. LifeInv'
        <4>1. (quiesced \cap live = {})'
          BY <2>1, <3>2, Zenon DEF LifeInv
        <4>2. \A x \in Services : row'[x] = "absent" =>
                x \notin live' \cup quiesced' /\ \A u \in Tasks : task'[u].service # x
          BY <2>1, <2>2, <3>2, <3>3 DEF LifeInv
        <4>3. ASSUME NEW u \in Tasks, u # t
              PROVE  /\ task[u].at # "idle" => task[u].service \in Services
                     /\ task[u].op = "create" =>
                          /\ task[u].service \in Services \ (live' \cup quiesced')
                          /\ \A w \in Tasks : task'[w].service = task[u].service => w = u
                     /\ task[u].known => ~present' \/ task[u].service \in live' \cup quiesced'
          <5>1. task[u].op = "create" =>
                  /\ task[u].service \in Services \ (live' \cup quiesced')
                  /\ \A w \in Tasks : task'[w].service = task[u].service => w = u
            BY <2>1, <2>2, <3>2, <3>3, <4>3 DEF LifeInv
          <5>2. QED
            BY <2>1, <3>2, <5>1, Zenon DEF LifeInv
        <4>4. QED
          BY <3>3, <4>1, <4>2, <4>3 DEF LifeInv
      <3>7. QED
        BY <2>4, <3>4, <3>5, <3>6
    <2>8. QED
      BY <2>6, <2>7, Zenon
  <1>19. ASSUME NEW t \in Tasks, RefreshRetire(t)
        PROVE  RegistryInv'
    <2>1. /\ task' \in [Tasks -> TaskState] /\ lock' \in [Services -> Tasks \cup {None}]
          /\ \A u \in Tasks : u # t => task'[u] = task[u]
          /\ task'[t].op = "idle" /\ task'[t].at = "idle" /\ task'[t].service = None /\ ~task'[t].known
          /\ task'[t].new = None /\ task'[t].old = None
      BY <1>19, EndTask DEF RefreshRetire
    <2>2. task[t] \in TaskState
      BY DEF TypeOK
    <2> DEFINE hs == {task[t].old} \ {None}
    <2>3. /\ task[t].at = "retire" /\ Retire(hs) /\ UNCHANGED <<present, live, enabled, source, quiesced, row, lease>>
      BY <1>19, Zenon DEF RefreshRetire, graph
    <2>4. hs \in SUBSET Handles /\ \A h \in hs : handle[h] = "open" /\ ~Retired(h)
      BY <2>2, Zenon DEF TaskState, TaskInv
    <2>5. \A x \in live' : source'[x] = None \/ (source'[x] \notin hs /\ x \in live /\ source'[x] = source[x])
      BY <2>3, Zenon DEF TaskInv
    <2>6. \A u \in Tasks : task'[u].new \notin hs /\ task'[u].old \notin hs
      BY <2>1 DEF TaskInv
    <2> HIDE DEF hs
    <2>7. /\ refs' \in [Handles -> RefState \cup {None}]
          /\ handle' \in [Handles -> {"new", "constructing", "open", "closed", "reclosed"}]
          /\ LeaseInv'
          /\ \A h \in Handles \ hs : refs'[h] = refs[h] /\ handle'[h] = handle[h]
      BY <2>3, <2>4, RetireHandles, Zenon
    <2>8. TypeOK'
      BY <2>1, <2>3, <2>7, Zenon DEF TypeOK
    <2>9. SourceInv' /\ TaskInv'
      BY <2>1, <2>4, <2>5, <2>6, <2>7, <2>8, GraphStep, Zenon
    <2>10. LifeInv'
      BY <2>1, <2>3, LifeStep, Zenon
    <2>11. QED
      BY <2>7, <2>8, <2>9, <2>10, Zenon
  <1>20. ASSUME NEW t \in Tasks, DeleteApply(t)
        PROVE  RegistryInv'
    <2>1. /\ task' \in [Tasks -> TaskState] /\ lock' \in [Services -> Tasks \cup {None}]
          /\ \A u \in Tasks : u # t => task'[u] = task[u]
          /\ task'[t].op = "idle" /\ task'[t].at = "idle" /\ task'[t].service = None /\ ~task'[t].known
          /\ task'[t].new = None /\ task'[t].old = None
      BY <1>20, EndTask, Zenon DEF DeleteApply
    <2>2. task[t] \in TaskState
      BY DEF TypeOK
    <2>3. UNCHANGED lease
      BY <1>20, Zenon DEF DeleteApply
    <2>4. CASE UNCHANGED <<graph, row, refs, handle>>
      <3>1. TypeOK'
        BY <2>1, <2>3, <2>4, Zenon DEF graph, TypeOK
      <3>2. LeaseInv' /\ SourceInv' /\ TaskInv'
        BY <2>1, <2>3, <2>4, QuietStep, Zenon DEF graph
      <3>3. LifeInv'
        BY <2>1, <2>4, LifeStep, Zenon DEF graph
      <3>4. QED
        BY <3>1, <3>2, <3>3
    <2>5. ASSUME NEW s \in live, row' = [row EXCEPT ![s] = "deleted"], RemoveService(s)
          PROVE  RegistryInv'
      <3>1. /\ row' \in [Services -> {"absent", "enabled", "disabled", "deleted"}]
            /\ \A x \in Services : row'[x] = "absent" => row[x] = "absent"
        BY <2>5, Zenon DEF TypeOK
      <3>2. QED
        BY <2>1, <2>3, <2>5, <3>1, RemoveStep, Zenon
    <2>6. QED
      BY <1>20, <2>4, <2>5, Zenon DEF DeleteApply
  <1>21. ASSUME NEW h \in Handles, Abandoned(h)
        PROVE  RegistryInv'
    <2>1. /\ handle[h] = "constructing" /\ handle' = [handle EXCEPT ![h] = "closed"]
          /\ \A u \in Tasks : task[u].new # h
          /\ UNCHANGED <<present, live, enabled, source, quiesced, row, refs, lease, lock, task>>
      BY <1>21, Zenon DEF Abandoned, graph
    <2>2. \A g \in Handles : handle'[g] = handle[g] \/ (g = h /\ handle[g] # "open" /\ handle'[g] = "closed")
      BY <2>1, Zenon DEF TypeOK
    <2>3. TypeOK'
      BY <2>1, Zenon DEF TypeOK
    <2>4. LeaseInv'
      BY <2>1, <2>2, LeaseFrame, Zenon
    <2>5. \A u \in Tasks : task'[u].new \notin {h} /\ task'[u].old \notin {h}
      BY <2>1 DEF TaskInv
    <2>6. \A x \in live' : source'[x] = None \/ (source'[x] \notin {h} /\ x \in live /\ source'[x] = source[x])
      BY <2>1, Zenon DEF SourceInv
    <2>7. {h} \in SUBSET Handles /\ \A g \in Handles \ {h} : refs'[g] = refs[g] /\ handle'[g] = handle[g]
      BY <2>1, <2>2
    <2>8. SourceInv' /\ TaskInv'
      BY <2>1, <2>3, <2>5, <2>6, <2>7, GraphStep, Zenon
    <2>9. LifeInv'
      BY <2>1, LifeStep, Zenon
    <2>10. QED
      BY <2>3, <2>4, <2>8, <2>9, Zenon
  <1>22. ASSUME NEW s \in Services, QuiesceService(s)
        PROVE  RegistryInv'
    <2>1. s \in live /\ RemoveService(s) /\ UNCHANGED <<row, lease, lock, task>>
      BY <1>22, Zenon DEF QuiesceService
    <2>2. /\ task' \in [Tasks -> TaskState] /\ lock' \in [Services -> Tasks \cup {None}]
          /\ row' \in [Services -> {"absent", "enabled", "disabled", "deleted"}]
      BY <2>1 DEF TypeOK
    <2>3. QED
      BY <2>1, <2>2, RemoveStep, Zenon
  <1>23. ASSUME (\E s \in Services : CatalogDeleted(s)) \/ StoreDeleteWorkspace
        PROVE  RegistryInv'
    <2>1. UNCHANGED <<present, live, enabled, source, quiesced, refs, lease, lock, task, handle>>
      BY <1>23, Zenon DEF CatalogDeleted, StoreDeleteWorkspace, graph
    <2>2. /\ row' \in [Services -> {"absent", "enabled", "disabled", "deleted"}]
          /\ \A x \in Services : row'[x] = "absent" => row[x] = "absent"
      BY <1>23 DEF CatalogDeleted, StoreDeleteWorkspace, TypeOK
    <2>3. TypeOK'
      BY <2>1, <2>2, Zenon DEF TypeOK
    <2>4. LeaseInv'
      BY <2>1, LeaseFrame
    <2>5. SourceInv' /\ TaskInv'
      BY <2>1, Zenon DEF SourceInv, TaskInv, Retired
    <2>6. LifeInv'
      BY <2>1, <2>2, LifeStep, Zenon
    <2>7. QED
      BY <2>3, <2>4, <2>5, <2>6, Zenon
  <1>24. ASSUME Remove
        PROVE  RegistryInv'
    <2> DEFINE hs == Installed
    <2>1. /\ present' = FALSE /\ live' = {} /\ Retire(hs)
          /\ UNCHANGED <<enabled, source, quiesced, row, lease, lock, task>>
      BY <1>24, Zenon DEF Remove
    <2>2. hs \in SUBSET Handles /\ \A h \in hs : handle[h] = "open" /\ ~Retired(h)
      BY DEF Installed, TypeOK, SourceInv
    <2>3. \A u \in Tasks : task'[u].new \notin hs /\ task'[u].old \notin hs
      BY <2>1, Zenon DEF Installed, TaskInv
    <2> HIDE DEF hs
    <2>4. /\ refs' \in [Handles -> RefState \cup {None}]
          /\ handle' \in [Handles -> {"new", "constructing", "open", "closed", "reclosed"}]
          /\ LeaseInv'
          /\ \A h \in Handles \ hs : refs'[h] = refs[h] /\ handle'[h] = handle[h]
      BY <2>1, <2>2, RetireHandles, Zenon
    <2>5. TypeOK'
      BY <2>1, <2>4, Zenon DEF TypeOK
    <2>6. SourceInv' /\ TaskInv'
      BY <2>1, <2>2, <2>3, <2>4, <2>5, GraphStep, Zenon
    <2>7. LifeInv'
      BY <2>1, LifeStep, Zenon
    <2>8. QED
      BY <2>4, <2>5, <2>6, <2>7, Zenon
  <1>25. ASSUME UNCHANGED vars
        PROVE  RegistryInv'
    <2>1. UNCHANGED <<present, live, enabled, source, quiesced, refs, lease, lock, task, handle, row>>
      BY <1>25 DEF vars
    <2>2. TypeOK'
      BY <2>1, Zenon DEF TypeOK
    <2>3. LeaseInv'
      BY <2>1, LeaseFrame
    <2>4. SourceInv' /\ TaskInv'
      BY <2>1, Zenon DEF SourceInv, TaskInv, Retired
    <2>5. LifeInv'
      BY <2>1, LifeStep, Zenon
    <2>6. QED
      BY <2>2, <2>3, <2>4, <2>5
  <1>26. QED
    BY <1>1, <1>2, <1>3, <1>4, <1>5, <1>6, <1>7, <1>8, <1>9, <1>10, <1>11, <1>12, <1>13, <1>14, <1>15, <1>16, <1>17, <1>18, <1>19, <1>20, <1>21, <1>22, <1>23, <1>24, <1>25, Zenon DEF Next, Call, Run

LEMMA RegistryAlways == Spec => []RegistryInv
  BY RegistryInit, RegistryStep, PTL DEF Spec

-----------------------------------------------------------------------------
(* The types hold of every graph, lease table and operation. *)
THEOREM RegistryTypeCorrect == Spec => []TypeOK
  <1>1. RegistryInv => TypeOK
    BY Zenon DEF RegistryInv
  <1>2. QED
    BY RegistryAlways, <1>1, PTL

(* acquireLocked, release and retireSource: what a request has leased, and  *)
(* what the next one would lease, is open, and no handle is closed twice,   *)
(* whichever operations replace, disable, delete or abandon it meanwhile.   *)
THEOREM LeasedHandlesOpen == Spec => []UsableOpen
  <1>1. RegistryInv => UsableOpen
    <2> SUFFICES ASSUME RegistryInv PROVE UsableOpen
      BY Zenon
    <2>1. \A h \in Installed : handle[h] = "open"
      BY DEF RegistryInv, Installed, SourceInv
    <2>2. \A r \in Requests : \A h \in lease[r] : handle[h] = "open"
      BY Zenon DEF RegistryInv, LeaseInv, Holders, TypeOK
    <2>3. \A h \in Handles : handle[h] # "reclosed"
      BY Zenon DEF RegistryInv, LeaseInv
    <2>4. QED
      BY <2>1, <2>2, <2>3 DEF UsableOpen
  <1>2. QED
    BY RegistryAlways, <1>1, PTL

(* removeServiceLocked against RefreshService, CreateService and            *)
(* UpdateService: a service that was deleted or quiesced does not come      *)
(* back, although each of them works outside the registry lock.             *)
THEOREM QuiescedServicesStayOut == Spec => []QuiescedStaysOut
  <1>1. RegistryInv => QuiescedStaysOut
    BY DEF RegistryInv, LifeInv, QuiescedStaysOut
  <1>2. QED
    BY RegistryAlways, <1>1, PTL
=============================================================================
