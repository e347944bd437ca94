------------------------ MODULE CatalogDeletionProofs ------------------------
(***************************************************************************)
(* A deleted target stays hidden, and the managed file of a service        *)
(* outlives its catalog row, for any services and DELETE calls, and any    *)
(* number of failing steps, retries and restarts.                          *)
(***************************************************************************)
EXTENDS CatalogDeletion, TLAPS

(* Until its call has begun it, an operation does not exist, and nothing   *)
(* executes or retries it.                                                 *)
Unbegun(c) == call[c].pc \in {"idle", "planned"}

BegunInv ==
    \A c \in Calls :
        /\ Unbegun(c) => ops[c] = NoOp /\ ex[c] = Idle /\ retry[c] = None
        /\ call[c].pc \in {"begun", "quiesced"} => call[c].op \in Calls /\ ~Unbegun(call[c].op)

(* The plan of a service is that service, and what an execution stages and *)
(* removes is in the plan of its operation.                                *)
PlanInv ==
    /\ \A c \in Calls : /\ call[c].target # Workspace => call[c].services \subseteq {call[c].target}
                        /\ ops[c].target # Workspace => ops[c].services \subseteq {ops[c].target}
    /\ \A o \in Calls : ex[o].todo \subseteq ops[o].services /\ ex[o].listed \subseteq ops[o].services
    /\ \A s \in Services : files[s] \in Calls => s \in ops[files[s]].services

(* An import that is not yet published is in no plan, so that no row of a  *)
(* plan comes back.                                                        *)
ReadyInv ==
    \A s \in Services : publish[s] = "ready" =>
        /\ s \notin rows
        /\ \A c \in Calls : /\ s \notin call[c].services /\ s # call[c].target
                            /\ s \notin ops[c].services /\ s # ops[c].target

(* The catalog commit is behind the operation: in the phase it has, in the *)
(* one a retry has read, or in the execution that is past it or was started *)
(* with such a phase.  A response, a retry or a failure may write an        *)
(* earlier phase over a later one.                                          *)
Past(o) ==
    \/ ops[o].status = "completed"
    \/ Committed(ops[o].phase) \/ Committed(retry[o])
    \/ ex[o].committed \/ ex[o].pc \in {"remove", "remove row", "clear", "finish"}

PastInv ==
    \A o \in Calls : Past(o) => ops[o].target \notin rows /\ ops[o].services \cap rows = {}

DeletionInv == TypeOK /\ BegunInv /\ PlanInv /\ ReadyInv /\ PastInv /\ CatalogFileKept

(* A completed operation has left no catalog row of its target or of the   *)
(* services of its plan.                                                   *)
CompletedUnlisted ==
    \A o \in Calls : ops[o].status = "completed" =>
        ops[o].target \notin rows /\ ops[o].services \cap rows = {}

-----------------------------------------------------------------------------
(* Writing the row of an operation keeps its target and its plan. *)
LEMMA OpWritten ==
    ASSUME ops \in [Calls -> Operation], NEW o \in Calls,
           NEW st \in {"pending", "running", "failed", "completed"}, NEW ph \in Phases,
           Update(o, st, ph)
    PROVE  /\ ops' \in [Calls -> Operation]
           /\ \A p \in Calls : ops'[p].target = ops[p].target /\ ops'[p].services = ops[p].services
           /\ \A p \in Calls : p # o => ops'[p] = ops[p]
           /\ ops'[o].status = st /\ ops'[o].phase = ph
<1>1. PICK r \in Operation : r = [ops[o] EXCEPT !.status = st, !.phase = ph]
  BY Zenon DEF Operation
<1>2. r.target = ops[o].target /\ r.services = ops[o].services /\ r.status = st /\ r.phase = ph
  BY <1>1 DEF Operation
<1>3. ops' = [ops EXCEPT ![o] = r]
  BY <1>1, Zenon DEF Update, Operation
<1> QED BY <1>2, <1>3

(* An execution that moves on keeps what it has to do. *)
LEMMA ExMoved ==
    ASSUME ex \in [Calls -> Execution], NEW o \in Calls,
           NEW pc \in {"idle", "start", "jobs", "aux", "style", "stage", "commit", "remove",
                      "remove row", "clear", "finish"},
           Goto(o, pc)
    PROVE  /\ ex' \in [Calls -> Execution]
           /\ \A p \in Calls : ex'[p].todo = ex[p].todo /\ ex'[p].listed = ex[p].listed
           /\ \A p \in Calls : p # o => ex'[p] = ex[p]
           /\ ex'[o].pc = pc /\ ex'[o].committed = ex[o].committed
<1>1. PICK r \in Execution : r = [ex[o] EXCEPT !.pc = pc]
  BY Zenon DEF Execution
<1>2. r.todo = ex[o].todo /\ r.listed = ex[o].listed /\ r.pc = pc /\ r.committed = ex[o].committed
  BY <1>1, Zenon DEF Execution
<1>3. ex' = [ex EXCEPT ![o] = r]
  BY <1>1, Zenon DEF Goto, Execution
<1> QED BY <1>2, <1>3, Zenon

(* start either leaves the execution that is under way, or sets a new one  *)
(* at its beginning.                                                       *)
LEMMA ExStarted ==
    ASSUME ex \in [Calls -> Execution], NEW o \in Calls, NEW ph, Start(o, ph)
    PROVE  /\ ex' \in [Calls -> Execution]
           /\ \A p \in Calls : p # o => ex'[p] = ex[p]
           /\ \/ ex'[o] = ex[o]
              \/ /\ ex'[o].pc = "start" /\ ex'[o].todo = {} /\ ex'[o].listed = {}
                 /\ ex'[o].committed => Committed(ph)
<1>1. PICK r \in Execution : r = [Idle EXCEPT !.pc = "start", !.committed = Committed(ph)]
  <2>0. Committed(ph) \in BOOLEAN
    BY DEF Committed
  <2>1. PICK b \in BOOLEAN : b = Committed(ph)
    BY <2>0, Zenon
  <2>2. [Idle EXCEPT !.pc = "start", !.committed = b] \in Execution
    BY Zenon DEF Execution, Idle
  <2> QED BY <2>1, <2>2
<1>2. r.pc = "start" /\ r.todo = {} /\ r.listed = {} /\ r.committed = Committed(ph)
  BY <1>1, Zenon DEF Execution, Idle
<1>3. ex' = ex \/ ex' = [ex EXCEPT ![o] = r]
  BY <1>1 DEF Start
<1> QED BY <1>2, <1>3

(* A step that makes no plan and publishes no import: operations that were *)
(* not begun are left alone, the others keep their plan, no row comes back *)
(* and a file is only moved within a plan or, once its row is gone,        *)
(* removed.                                                                *)
LEMMA PlansKept ==
    ASSUME DeletionInv, TypeOK',
           rows' \subseteq rows, assets' \subseteq assets,
           \A s \in Services : publish'[s] = "ready" => publish[s] = "ready",
           \A c \in Calls :
              /\ call'[c].target = call[c].target /\ call'[c].services = call[c].services
              /\ call'[c].op = call[c].op /\ (Unbegun(c)' => Unbegun(c))
              /\ call'[c].pc \in {"begun", "quiesced"} => call[c].pc \in {"begun", "quiesced"},
           \A o \in Calls :
              /\ ops'[o].target = ops[o].target /\ ops'[o].services = ops[o].services
              /\ Unbegun(o) => ops'[o] = ops[o] /\ ex'[o] = ex[o] /\ retry'[o] = retry[o]
              /\ ex'[o].todo \subseteq ops[o].services /\ ex'[o].listed \subseteq ops[o].services
              /\ Past(o)' => ops[o].target \notin rows' /\ ops[o].services \cap rows' = {},
           \A s \in Services :
              \/ files'[s] = files[s] \/ files'[s] = "path"
              \/ files'[s] \in Calls /\ s \in ops[files'[s]].services
              \/ files'[s] = "gone" /\ s \notin rows'
    PROVE  DeletionInv'
<1>1. BegunInv'
  BY DEF DeletionInv, BegunInv, Unbegun
<1>2. PlanInv'
  <2>1. \A c \in Calls : /\ call'[c].target # Workspace => call'[c].services \subseteq {call'[c].target}
                         /\ ops'[c].target # Workspace => ops'[c].services \subseteq {ops'[c].target}
    BY DEF DeletionInv, PlanInv
  <2>2. \A s \in Services : files'[s] \in Calls => s \in ops'[files'[s]].services
    BY DeletionAssumption DEF DeletionInv, PlanInv
  <2> QED BY <2>1, <2>2 DEF PlanInv
<1>3. ReadyInv'
  BY DEF DeletionInv, ReadyInv
<1>4. PastInv'
  BY DEF PastInv
<1>5. CatalogFileKept'
  BY DeletionAssumption DEF DeletionInv, CatalogFileKept, TypeOK
<1> QED BY <1>1, <1>2, <1>3, <1>4, <1>5 DEF DeletionInv

(* The same of a step that concerns one operation that was begun. *)
LEMMA OperationStep ==
    ASSUME DeletionInv, TypeOK', NEW o \in Calls, ~Unbegun(o),
           rows' \subseteq rows, assets' \subseteq assets, publish' = publish, call' = call,
           \A p \in Calls : ops'[p].target = ops[p].target /\ ops'[p].services = ops[p].services,
           \A p \in Calls : p # o => ops'[p] = ops[p] /\ ex'[p] = ex[p] /\ retry'[p] = retry[p],
           ex'[o].todo \subseteq ops[o].services, ex'[o].listed \subseteq ops[o].services,
           Past(o)' => ops[o].target \notin rows' /\ ops[o].services \cap rows' = {},
           \A s \in Services :
              \/ files'[s] = files[s] \/ files'[s] = "path"
              \/ files'[s] \in Calls /\ s \in ops[files'[s]].services
              \/ files'[s] = "gone" /\ s \notin rows'
    PROVE  DeletionInv'
<1>1. \A c \in Calls :
         /\ call'[c].target = call[c].target /\ call'[c].services = call[c].services
         /\ call'[c].op = call[c].op /\ (Unbegun(c)' => Unbegun(c))
         /\ call'[c].pc \in {"begun", "quiesced"} => call[c].pc \in {"begun", "quiesced"}
  BY DEF Unbegun
<1>2. \A p \in Calls : Past(p)' => ops[p].target \notin rows' /\ ops[p].services \cap rows' = {}
  <2> TAKE p \in Calls
  <2>1. CASE p = o
    BY <2>1
  <2>2. CASE p # o
    <3>1. Past(p)' => Past(p)
      BY <2>2, Zenon DEF Past
    <3> QED BY <3>1 DEF DeletionInv, PastInv
  <2> QED BY <2>1, <2>2
<1>3. \A p \in Calls :
         /\ ops'[p].target = ops[p].target /\ ops'[p].services = ops[p].services
         /\ Unbegun(p) => ops'[p] = ops[p] /\ ex'[p] = ex[p] /\ retry'[p] = retry[p]
         /\ ex'[p].todo \subseteq ops[p].services /\ ex'[p].listed \subseteq ops[p].services
         /\ Past(p)' => ops[p].target \notin rows' /\ ops[p].services \cap rows' = {}
  <2> TAKE p \in Calls
  <2>1. ex'[p].todo \subseteq ops[p].services /\ ex'[p].listed \subseteq ops[p].services
    BY DEF DeletionInv, PlanInv
  <2>2. Unbegun(p) => ops'[p] = ops[p] /\ ex'[p] = ex[p] /\ retry'[p] = retry[p]
    OBVIOUS
  <2> QED BY <2>1, <2>2, <1>2
<1> QED BY <1>1, <1>3, PlansKept

(* An operation that is executed, retried or active was begun. *)
LEMMA Begun ==
    ASSUME DeletionInv, NEW o \in Calls,
           ex[o].pc # "idle" \/ retry[o] # None \/ Active(o)
    PROVE  ~Unbegun(o)
BY DEF DeletionInv, BegunInv, Idle, NoOp, Active

(* The initial state satisfies the invariant. *)
LEMMA DeletionInit == Init => DeletionInv
<1> SUFFICES ASSUME Init PROVE DeletionInv
  OBVIOUS
<1>1. NoOp \in Operation /\ NoCall \in Request /\ Idle \in Execution
  BY DEF NoOp, NoCall, Idle, Operation, Request, Execution, Phases
<1>2. TypeOK
  BY <1>1, DeletionAssumption DEF Init, TypeOK, Targets, Places
<1>3. BegunInv
  BY DEF Init, BegunInv, NoCall
<1>4. PlanInv
  BY DeletionAssumption DEF Init, PlanInv, NoCall, NoOp, Idle
<1>5. ReadyInv
  BY DeletionAssumption DEF Init, ReadyInv, NoCall, NoOp, Targets
<1>6. PastInv
  BY DeletionAssumption, Zenon DEF Init, PastInv, Past, NoOp, Idle, Committed, Targets, Phases
<1>7. CatalogFileKept
  BY DeletionAssumption DEF Init, CatalogFileKept, Targets
<1> QED BY <1>2, <1>3, <1>4, <1>5, <1>6, <1>7 DEF DeletionInv

(* Taking a target and its services from the runtime keeps the types. *)
LEMMA Quiesced ==
    ASSUME TypeOK, NEW t, QuiesceRuntime(t)
    PROVE  live' \subseteq Targets /\ quiesced' \subseteq Services
BY DEF TypeOK, QuiesceRuntime

(* A call that moves on without a new plan or operation. *)
LEMMA CallMoved ==
    ASSUME call \in [Calls -> Request], NEW c \in Calls,
           NEW pc \in {"begun", "quiesced", "accepted", "refused"},
           call' = [call EXCEPT ![c].pc = pc]
    PROVE  /\ call' \in [Calls -> Request]
           /\ \A d \in Calls : d # c => call'[d] = call[d]
           /\ call'[c].target = call[c].target /\ call'[c].services = call[c].services
           /\ call'[c].op = call[c].op /\ call'[c].pc = pc
<1>1. PICK r \in Request : r = [call[c] EXCEPT !.pc = pc]
  BY DEF Request
<1>2. r.target = call[c].target /\ r.services = call[c].services /\ r.op = call[c].op /\ r.pc = pc
  BY <1>1 DEF Request
<1>3. call' = [call EXCEPT ![c] = r]
  BY <1>1 DEF Request
<1> QED BY <1>2, <1>3

(* Plan reads rows of the catalog, among which no unpublished import is. *)
LEMMA PlanStep ==
    ASSUME DeletionInv, NEW c \in Calls, NEW t \in Targets, Plan(c, t)
    PROVE  DeletionInv'
<1>1. PICK r \in Request :
         r = [pc |-> "planned", target |-> t, op |-> None,
              services |-> IF t = Workspace THEN rows \ {Workspace} ELSE {t}]
  BY Zenon DEF DeletionInv, TypeOK, Request, Targets
<1>2. /\ r.pc = "planned" /\ r.target = t
      /\ r.services = IF t = Workspace THEN rows \ {Workspace} ELSE {t}
  BY <1>1
<1>3. /\ call' = [call EXCEPT ![c] = r] /\ call[c].pc = "idle" /\ t \in rows
      /\ UNCHANGED <<rows, ops, assets, files, styles, aux, live, quiesced, ex, retry, publish, request,
                     failures, crashes, races>>
  BY <1>1 DEF Plan, Free, Made, Visible, durable
<1>4. /\ call' \in [Calls -> Request] /\ call'[c] = r
      /\ \A d \in Calls : d # c => call'[d] = call[d]
  BY <1>3 DEF DeletionInv, TypeOK
<1>5. TypeOK'
  BY <1>3, <1>4 DEF DeletionInv, TypeOK
<1>6. BegunInv'
  BY <1>2, <1>3, <1>4 DEF DeletionInv, BegunInv, Unbegun
<1>7. PlanInv'
  BY <1>2, <1>3, <1>4, Zenon DEF DeletionInv, PlanInv
<1>8. ReadyInv'
  BY <1>2, <1>3, <1>4 DEF DeletionInv, ReadyInv
<1>9. PastInv' /\ CatalogFileKept'
  BY <1>3, Zenon DEF DeletionInv, PastInv, Past, CatalogFileKept
<1> QED BY <1>5, <1>6, <1>7, <1>8, <1>9 DEF DeletionInv

(* Join gives the call the active operation of its target. *)
LEMMA JoinStep ==
    ASSUME DeletionInv, NEW c \in Calls, NEW o \in Calls, Join(c, o)
    PROVE  DeletionInv'
<1>1. PICK r \in Request : r = [call[c] EXCEPT !.pc = "begun", !.op = o]
  BY Zenon DEF DeletionInv, TypeOK, Request
<1>2. r.pc = "begun" /\ r.op = o /\ r.target = call[c].target /\ r.services = call[c].services
  BY <1>1 DEF DeletionInv, TypeOK, Request
<1>3. /\ call' = [call EXCEPT ![c] = r] /\ Active(o) /\ call[c].pc = "planned"
      /\ UNCHANGED <<rows, ops, assets, files, styles, aux, live, quiesced, ex, retry, publish, request,
                     failures, crashes, races>>
  BY <1>1, Zenon DEF Join, durable, DeletionInv, TypeOK, Request
<1>4. /\ call' \in [Calls -> Request] /\ call'[c] = r
      /\ \A d \in Calls : d # c => call'[d] = call[d]
  BY <1>3 DEF DeletionInv, TypeOK
<1>5. TypeOK'
  BY <1>3, <1>4, Zenon DEF DeletionInv, TypeOK
<1>6. BegunInv'
  <2>1. ~Unbegun(o)
    BY <1>3, Begun, Zenon
  <2> QED BY <2>1, <1>2, <1>3, <1>4 DEF DeletionInv, BegunInv, Unbegun
<1>7. PlanInv' /\ ReadyInv'
  BY <1>2, <1>3, <1>4 DEF DeletionInv, PlanInv, ReadyInv
<1>9. PastInv' /\ CatalogFileKept'
  BY <1>3, Zenon DEF DeletionInv, PastInv, Past, CatalogFileKept
<1> QED BY <1>5, <1>6, <1>7, <1>9 DEF DeletionInv

(* Begin makes the operation with the plan of the call; nothing of it is   *)
(* under way.                                                              *)
LEMMA BeginStep ==
    ASSUME DeletionInv, NEW c \in Calls, Begin(c)
    PROVE  DeletionInv'
<1>1. PICK r \in Request : r = [call[c] EXCEPT !.pc = "begun", !.op = c]
  BY Zenon DEF DeletionInv, TypeOK, Request
<1>2. r.pc = "begun" /\ r.op = c /\ r.target = call[c].target /\ r.services = call[c].services
  BY <1>1 DEF DeletionInv, TypeOK, Request
<1>3. PICK p \in Operation : p = [target |-> call[c].target, status |-> "pending",
                                  phase |-> "planned", services |-> call[c].services]
  BY Zenon DEF DeletionInv, TypeOK, Request, Operation, Phases
<1>4. p.target = call[c].target /\ p.status = "pending" /\ p.phase = "planned" /\ p.services = call[c].services
  BY <1>3
<1>5. /\ call' = [call EXCEPT ![c] = r] /\ ops' = [ops EXCEPT ![c] = p] /\ call[c].pc = "planned"
      /\ UNCHANGED <<rows, assets, files, styles, aux, live, quiesced, ex, retry, publish, request,
                     failures, crashes, races>>
  BY <1>1, <1>3, Zenon DEF Begin, DeletionInv, TypeOK, Request
<1>6. /\ call' \in [Calls -> Request] /\ call'[c] = r
      /\ \A d \in Calls : d # c => call'[d] = call[d]
      /\ ops' \in [Calls -> Operation] /\ ops'[c] = p
      /\ \A d \in Calls : d # c => ops'[d] = ops[d]
  BY <1>5 DEF DeletionInv, TypeOK
<1>7. ops[c] = NoOp /\ ex[c] = Idle /\ retry[c] = None
  BY <1>5 DEF DeletionInv, BegunInv, Unbegun
<1>8. TypeOK'
  BY <1>5, <1>6, Zenon DEF DeletionInv, TypeOK
<1>9. BegunInv'
  BY <1>2, <1>5, <1>6 DEF DeletionInv, BegunInv, Unbegun
<1>10. PlanInv'
  <2>1. \A d \in Calls : /\ call'[d].target # Workspace => call'[d].services \subseteq {call'[d].target}
                         /\ ops'[d].target # Workspace => ops'[d].services \subseteq {ops'[d].target}
    BY <1>2, <1>4, <1>6 DEF DeletionInv, PlanInv
  <2>2. \A o \in Calls : ex'[o].todo \subseteq ops'[o].services /\ ex'[o].listed \subseteq ops'[o].services
    BY <1>5, <1>6, <1>7 DEF DeletionInv, PlanInv, Idle
  <2>3. \A s \in Services : files'[s] \in Calls => s \in ops'[files'[s]].services
    BY <1>5, <1>6, <1>7 DEF DeletionInv, PlanInv, NoOp
  <2> QED BY <2>1, <2>2, <2>3, Zenon DEF PlanInv
<1>11. ReadyInv'
  BY <1>2, <1>4, <1>5, <1>6 DEF DeletionInv, ReadyInv
<1>12. PastInv'
  <2>1. ~Past(c)'
    BY <1>4, <1>5, <1>6, <1>7, DeletionAssumption DEF Past, Committed, Idle, Phases
  <2>2. \A d \in Calls : d # c => (Past(d)' => Past(d)) /\ ops'[d] = ops[d]
    BY <1>5, <1>6, Zenon DEF Past
  <2> QED BY <2>1, <2>2, <1>5 DEF DeletionInv, PastInv
<1>13. CatalogFileKept'
  BY <1>5, Zenon DEF DeletionInv, CatalogFileKept
<1> QED BY <1>8, <1>9, <1>10, <1>11, <1>12, <1>13 DEF DeletionInv

(* A call that is refused, quiesces the runtime or fails to answer changes *)
(* no operation.                                                           *)
LEMMA AnswerStep ==
    ASSUME DeletionInv, NEW c \in Calls, Refused(c) \/ Accept(c) \/ RespondFails(c)
    PROVE  DeletionInv'
<1>1. /\ UNCHANGED <<rows, ops, assets, files, styles, aux, ex, retry, publish, request, crashes, races>>
      /\ live' \subseteq Targets /\ quiesced' \subseteq Services /\ failures' \in 0..MaxFailures
  BY Quiesced, DeletionAssumption DEF Refused, Accept, RespondFails, durable, DeletionInv, TypeOK
<1>2. PICK pc \in {"quiesced", "refused"} :
         /\ call' = [call EXCEPT ![c].pc = pc]
         /\ pc = "quiesced" => call[c].pc = "begun"
  BY DEF Refused, Accept, RespondFails
<1>3. /\ call' \in [Calls -> Request]
      /\ \A d \in Calls : d # c => call'[d] = call[d]
      /\ call'[c].target = call[c].target /\ call'[c].services = call[c].services
      /\ call'[c].op = call[c].op /\ call'[c].pc = pc
  BY <1>2, CallMoved, Zenon DEF DeletionInv, TypeOK
<1>4. TypeOK'
  BY <1>1, <1>3 DEF DeletionInv, TypeOK
<1>5. \A d \in Calls :
         /\ call'[d].target = call[d].target /\ call'[d].services = call[d].services
         /\ call'[d].op = call[d].op /\ (Unbegun(d)' => Unbegun(d))
         /\ call'[d].pc \in {"begun", "quiesced"} => call[d].pc \in {"begun", "quiesced"}
  BY <1>2, <1>3 DEF Unbegun
<1>6. \A o \in Calls : Past(o)' => ops[o].target \notin rows' /\ ops[o].services \cap rows' = {}
  BY <1>1, Zenon DEF DeletionInv, PastInv, Past
<1>7. \A o \in Calls : ex'[o].todo \subseteq ops[o].services /\ ex'[o].listed \subseteq ops[o].services
  BY <1>1, Zenon DEF DeletionInv, PlanInv
<1> QED BY <1>1, <1>4, <1>5, <1>6, <1>7, PlansKept

(* The answer to a call writes the phase of its operation back to          *)
(* tombstoned and starts it.                                               *)
LEMMA RespondStep ==
    ASSUME DeletionInv, NEW c \in Calls, Respond(c)
    PROVE  DeletionInv'
<1> DEFINE o == call[c].op
<1>1. o \in Calls /\ ~Unbegun(o)
  BY DEF DeletionInv, BegunInv, Respond
<1>2. /\ call' = [call EXCEPT ![c].pc = "accepted"] /\ Update(o, "running", "tombstoned")
      /\ Start(o, "tombstoned") /\ call[c].pc = "quiesced"
      /\ UNCHANGED <<rows, assets, files, styles, aux, live, quiesced, retry, publish, request,
                     failures, crashes, races>>
  BY DEF Respond
<1> HIDE DEF o
<1>3. /\ call' \in [Calls -> Request]
      /\ \A d \in Calls : d # c => call'[d] = call[d]
      /\ call'[c].target = call[c].target /\ call'[c].services = call[c].services
      /\ call'[c].op = call[c].op /\ call'[c].pc = "accepted"
  BY <1>2, CallMoved, Zenon DEF DeletionInv, TypeOK
<1>4. /\ ops' \in [Calls -> Operation]
      /\ \A p \in Calls : ops'[p].target = ops[p].target /\ ops'[p].services = ops[p].services
      /\ \A p \in Calls : p # o => ops'[p] = ops[p]
      /\ ops'[o].status = "running" /\ ops'[o].phase = "tombstoned"
  BY <1>1, <1>2, OpWritten DEF DeletionInv, TypeOK, Phases
<1>5. /\ ex' \in [Calls -> Execution]
      /\ \A p \in Calls : p # o => ex'[p] = ex[p]
      /\ \/ ex'[o] = ex[o]
         \/ /\ ex'[o].pc = "start" /\ ex'[o].todo = {} /\ ex'[o].listed = {}
            /\ ex'[o].committed => Committed("tombstoned")
  BY <1>1, <1>2, ExStarted DEF DeletionInv, TypeOK
<1>6. TypeOK'
  BY <1>2, <1>3, <1>4, <1>5, Zenon DEF DeletionInv, TypeOK
<1>7. \A d \in Calls :
         /\ call'[d].target = call[d].target /\ call'[d].services = call[d].services
         /\ call'[d].op = call[d].op /\ (Unbegun(d)' => Unbegun(d))
         /\ call'[d].pc \in {"begun", "quiesced"} => call[d].pc \in {"begun", "quiesced"}
  BY <1>3 DEF Unbegun
<1>8. \A p \in Calls : Past(p)' => Past(p)
  BY <1>2, <1>4, <1>5, Zenon DEF Past, Committed
<1>9. \A p \in Calls : Past(p)' => ops[p].target \notin rows' /\ ops[p].services \cap rows' = {}
  BY <1>2, <1>8 DEF DeletionInv, PastInv
<1>10. \A p \in Calls : ex'[p].todo \subseteq ops[p].services /\ ex'[p].listed \subseteq ops[p].services
  BY <1>5 DEF DeletionInv, PlanInv
<1>11. \A p \in Calls : Unbegun(p) => ops'[p] = ops[p] /\ ex'[p] = ex[p] /\ retry'[p] = retry[p]
  BY <1>1, <1>2, <1>4, <1>5, Zenon
<1>12. \A p \in Calls :
         /\ ops'[p].target = ops[p].target /\ ops'[p].services = ops[p].services
         /\ Unbegun(p) => ops'[p] = ops[p] /\ ex'[p] = ex[p] /\ retry'[p] = retry[p]
         /\ ex'[p].todo \subseteq ops[p].services /\ ex'[p].listed \subseteq ops[p].services
         /\ Past(p)' => ops[p].target \notin rows' /\ ops[p].services \cap rows' = {}
  BY <1>4, <1>9, <1>10, <1>11
<1>13. rows' \subseteq rows /\ assets' \subseteq assets /\ publish' = publish /\ files' = files
  BY <1>2
<1> QED BY <1>6, <1>7, <1>12, <1>13, PlansKept

(* A retry holds the phase it has read, until it writes it and starts the  *)
(* operation.                                                              *)
LEMMA RetryStep ==
    ASSUME DeletionInv, NEW o \in Calls, RetryRead(o) \/ RetryRun(o)
    PROVE  DeletionInv'
<1>1. CASE RetryRead(o)
  <2>1. /\ retry' = [retry EXCEPT ![o] = ops[o].phase] /\ ~Unbegun(o)
        /\ UNCHANGED <<rows, ops, assets, files, styles, aux, live, quiesced, call, ex, publish, request,
                       failures, crashes>>
    BY <1>1, Begun DEF RetryRead, durable
  <2>2. races' \in 0..MaxRaces
    BY <1>1, DeletionAssumption DEF RetryRead, DeletionInv, TypeOK
  <2>3. retry' \in [Calls -> Phases \cup {None}]
    <3>1. ops[o].phase \in Phases
      BY DEF DeletionInv, TypeOK, Operation
    <3> QED BY <3>1, <2>1 DEF DeletionInv, TypeOK
  <2>4. TypeOK'
    BY <2>1, <2>2, <2>3, Zenon DEF DeletionInv, TypeOK
  <2>5. Past(o)' => Past(o)
    BY <2>1, Zenon DEF Past, DeletionInv, TypeOK
  <2>6. /\ Past(o)' => ops[o].target \notin rows' /\ ops[o].services \cap rows' = {}
        /\ ex'[o].todo \subseteq ops[o].services /\ ex'[o].listed \subseteq ops[o].services
    BY <2>1, <2>5, Zenon DEF DeletionInv, PastInv, PlanInv
  <2>7. \A p \in Calls : p # o => retry'[p] = retry[p]
    BY <2>1, Zenon DEF DeletionInv, TypeOK
  <2> QED BY <2>1, <2>4, <2>6, <2>7, OperationStep, Zenon
<1>2. CASE RetryRun(o)
  <2>1. /\ retry[o] # None /\ Update(o, "running", retry[o]) /\ Start(o, retry[o])
        /\ retry' = [retry EXCEPT ![o] = None] /\ ~Unbegun(o)
        /\ UNCHANGED <<rows, assets, files, styles, aux, live, quiesced, call, publish, request,
                       failures, crashes, races>>
    BY <1>2, Begun, Zenon DEF RetryRun
  <2>2. /\ ops' \in [Calls -> Operation]
        /\ \A p \in Calls : ops'[p].target = ops[p].target /\ ops'[p].services = ops[p].services
        /\ \A p \in Calls : p # o => ops'[p] = ops[p]
        /\ ops'[o].status = "running" /\ ops'[o].phase = retry[o]
    <3>1. retry[o] \in Phases
      BY <2>1 DEF DeletionInv, TypeOK
    <3> QED BY <3>1, <2>1, OpWritten, Zenon DEF DeletionInv, TypeOK
  <2>3. /\ ex' \in [Calls -> Execution]
        /\ \A p \in Calls : p # o => ex'[p] = ex[p]
        /\ \/ ex'[o] = ex[o]
           \/ /\ ex'[o].pc = "start" /\ ex'[o].todo = {} /\ ex'[o].listed = {}
              /\ ex'[o].committed => Committed(retry[o])
    BY <2>1, ExStarted, Zenon DEF DeletionInv, TypeOK
  <2>4. TypeOK'
    BY <2>1, <2>2, <2>3, Zenon DEF DeletionInv, TypeOK
  <2>5. Past(o)' => Past(o)
    BY <2>1, <2>2, <2>3, DeletionAssumption, Zenon DEF Past, DeletionInv, TypeOK, Committed, Phases
  <2>6. Past(o)' => ops[o].target \notin rows' /\ ops[o].services \cap rows' = {}
    BY <2>1, <2>5, Zenon DEF DeletionInv, PastInv
  <2>7. ex'[o].todo \subseteq ops[o].services /\ ex'[o].listed \subseteq ops[o].services
    BY <2>3, Zenon DEF DeletionInv, PlanInv
  <2>8. \A p \in Calls : p # o => retry'[p] = retry[p]
    BY <2>1 DEF DeletionInv, TypeOK
  <2>9. /\ rows' \subseteq rows /\ assets' \subseteq assets /\ publish' = publish
        /\ call' = call /\ files' = files
    BY <2>1, Zenon
  <2> QED BY <2>1, <2>2, <2>3, <2>4, <2>6, <2>7, <2>8, <2>9, OperationStep, Zenon
<1> QED BY <1>1, <1>2, Zenon

(* The steps that go on without touching managed files or catalog rows. *)
LEMMA AdvanceStep ==
    ASSUME DeletionInv, NEW o \in Calls,
           \/ ExecStart(o) \/ ExecJobs(o) \/ ExecAux(o) \/ ExecStaged(o)
           \/ ExecUnstage(o) \/ ExecClear(o) \/ ExecFinish(o)
    PROVE  DeletionInv'
<1>1. /\ UNCHANGED <<rows, assets, files, call, retry, publish, request, failures, crashes, races>>
      /\ ex[o].pc # "idle" /\ ~Unbegun(o)
  BY Begun, Zenon DEF ExecStart, ExecJobs, ExecAux, ExecStaged, ExecUnstage, ExecClear, ExecFinish, At, durable
<1>2. /\ live' \subseteq Targets /\ quiesced' \subseteq Services
      /\ aux' \subseteq Services /\ styles' \in Places
  BY Quiesced, Zenon DEF ExecStart, ExecJobs, ExecAux, ExecStaged, ExecUnstage, ExecClear, ExecFinish,
                  durable, DeletionInv, TypeOK, Places
<1>3. PICK pc \in {"jobs", "aux", "style", "commit", "clear", "finish", "idle"} :
         /\ Goto(o, pc)
         /\ pc \in {"clear", "finish", "idle"} => ex[o].pc \in {"remove", "clear", "finish"}
  BY Zenon DEF ExecStart, ExecJobs, ExecAux, ExecStaged, ExecUnstage, ExecClear, ExecFinish, At
<1>4. /\ ex' \in [Calls -> Execution]
      /\ \A p \in Calls : ex'[p].todo = ex[p].todo /\ ex'[p].listed = ex[p].listed
      /\ \A p \in Calls : p # o => ex'[p] = ex[p]
      /\ ex'[o].pc = pc /\ ex'[o].committed = ex[o].committed
  BY <1>3, ExMoved, Zenon DEF DeletionInv, TypeOK
<1>5. \/ ops' = ops
      \/ \E st \in {"running", "completed"}, ph \in Phases :
            /\ Update(o, st, ph)
            /\ st = "completed" \/ Committed(ph) => ex[o].pc \in {"clear", "finish"}
  BY Zenon DEF ExecStart, ExecJobs, ExecAux, ExecStaged, ExecUnstage, ExecClear, ExecFinish, At,
         durable, Phases, Committed
<1>6. /\ ops' \in [Calls -> Operation]
      /\ \A p \in Calls : ops'[p].target = ops[p].target /\ ops'[p].services = ops[p].services
      /\ \A p \in Calls : p # o => ops'[p] = ops[p]
      /\ \/ ops' = ops
         \/ ops'[o].status = "completed" \/ Committed(ops'[o].phase) => ex[o].pc \in {"clear", "finish"}
  <2>1. CASE ops' = ops
    BY <2>1, Zenon DEF DeletionInv, TypeOK
  <2>2. CASE ops' # ops
    <3>1. PICK st \in {"running", "completed"}, ph \in Phases :
             /\ Update(o, st, ph)
             /\ st = "completed" \/ Committed(ph) => ex[o].pc \in {"clear", "finish"}
      BY <1>5, <2>2, Zenon
    <3> QED BY <3>1, OpWritten DEF DeletionInv, TypeOK
  <2> QED BY <2>1, <2>2, Zenon
<1>7. TypeOK'
  BY <1>1, <1>2, <1>4, <1>6 DEF DeletionInv, TypeOK
<1>8. Past(o)' => Past(o)
  BY <1>1, <1>3, <1>4, <1>6, Zenon DEF Past
<1>9. Past(o)' => ops[o].target \notin rows' /\ ops[o].services \cap rows' = {}
  BY <1>1, <1>8, Zenon DEF DeletionInv, PastInv
<1>10. ex'[o].todo \subseteq ops[o].services /\ ex'[o].listed \subseteq ops[o].services
  BY <1>4, Zenon DEF DeletionInv, PlanInv
<1>11. /\ rows' \subseteq rows /\ assets' \subseteq assets /\ publish' = publish
       /\ call' = call /\ files' = files /\ retry' = retry
  BY <1>1, Zenon
<1> QED BY <1>1, <1>4, <1>6, <1>7, <1>9, <1>10, <1>11, OperationStep, Zenon

(* Staging renames files of the plan. *)
LEMMA StageStep ==
    ASSUME DeletionInv, NEW o \in Calls, ExecStyle(o) \/ \E s \in Services : ExecStage(o, s)
    PROVE  DeletionInv'
<1>1. /\ UNCHANGED <<rows, ops, assets, aux, live, quiesced, call, retry, publish, request,
                     failures, crashes, races>>
      /\ ex[o].pc # "idle" /\ ~Unbegun(o)
  BY Begun, Zenon DEF ExecStyle, ExecStage, At
<1>2. ex[o] \in Execution /\ ops[o] \in Operation
  BY Zenon DEF DeletionInv, TypeOK
<1>3. PICK r \in Execution :
         /\ r.pc = "stage" /\ r.todo \subseteq ops[o].services /\ r.listed \subseteq ops[o].services
         /\ r.committed = ex[o].committed
         /\ ex' = [ex EXCEPT ![o] = r]
  <2>1. CASE ExecStyle(o)
    <3>1. PICK r \in Execution : r = [ex[o] EXCEPT !.pc = "stage", !.todo = ops[o].services, !.listed = {}]
      BY <1>2, Zenon DEF Execution, Operation
    <3>2. r.pc = "stage" /\ r.todo = ops[o].services /\ r.listed = {} /\ r.committed = ex[o].committed
      BY <3>1, <1>2, Zenon DEF Execution
    <3>3. ex' = [ex EXCEPT ![o] = r]
      BY <2>1, <3>1, Zenon DEF ExecStyle, DeletionInv, TypeOK, Execution
    <3> QED BY <3>2, <3>3, Zenon
  <2>2. ASSUME NEW s \in Services, ExecStage(o, s)
        PROVE  \E r \in Execution :
                  /\ r.pc = "stage" /\ r.todo \subseteq ops[o].services /\ r.listed \subseteq ops[o].services
                  /\ r.committed = ex[o].committed
                  /\ ex' = [ex EXCEPT ![o] = r]
    <3>1. PICK l \in SUBSET Services : l = IF s \in assets THEN ex[o].listed \cup {s} ELSE ex[o].listed
      BY <1>2, Zenon DEF Execution
    <3>2. PICK r \in Execution : r = [ex[o] EXCEPT !.todo = ex[o].todo \ {s}, !.listed = l]
      BY <1>2, Zenon DEF Execution
    <3>3. /\ r.pc = ex[o].pc /\ r.todo = ex[o].todo \ {s} /\ r.listed = l
          /\ r.committed = ex[o].committed
      BY <3>2, <1>2, Zenon DEF Execution
    <3>4. ex' = [ex EXCEPT ![o] = r]
      BY <2>2, <3>1, <3>2, Zenon DEF ExecStage, DeletionInv, TypeOK, Execution
    <3>5. s \in ex[o].todo /\ ex[o].pc = "stage"
      BY <2>2, Zenon DEF ExecStage, At
    <3>6. r.todo \subseteq ops[o].services /\ r.listed \subseteq ops[o].services
      BY <3>1, <3>3, <3>5 DEF DeletionInv, PlanInv
    <3> QED BY <3>3, <3>4, <3>5, <3>6, Zenon
  <2> QED BY <2>1, <2>2
<1>4. /\ ex' \in [Calls -> Execution] /\ ex'[o] = r
      /\ \A p \in Calls : p # o => ex'[p] = ex[p]
  BY <1>3, Zenon DEF DeletionInv, TypeOK
<1>5. /\ files' \in [Services -> Places] /\ styles' \in Places
      /\ \A s \in Services : files'[s] = files[s] \/ (files'[s] = o /\ s \in ops[o].services)
  <2>1. CASE ExecStyle(o)
    BY <2>1, Zenon DEF ExecStyle, DeletionInv, TypeOK, Places
  <2>2. ASSUME NEW s \in Services, ExecStage(o, s)
        PROVE  /\ files' \in [Services -> Places] /\ styles' \in Places
               /\ \A t \in Services : files'[t] = files[t] \/ (files'[t] = o /\ t \in ops[o].services)
    <3>1. s \in ops[o].services /\ styles' = styles /\ (files' = files \/ files' = [files EXCEPT ![s] = o])
      BY <2>2, Zenon DEF ExecStage, DeletionInv, PlanInv
    <3> QED BY <3>1 DEF DeletionInv, TypeOK, Places
  <2> QED BY <2>1, <2>2
<1>6. TypeOK'
  BY <1>1, <1>4, <1>5 DEF DeletionInv, TypeOK
<1>7. Past(o)' => Past(o)
  BY <1>1, <1>3, <1>4, Zenon DEF Past
<1>8. Past(o)' => ops[o].target \notin rows' /\ ops[o].services \cap rows' = {}
  BY <1>1, <1>7, Zenon DEF DeletionInv, PastInv
<1>9. /\ rows' \subseteq rows /\ assets' \subseteq assets /\ publish' = publish
      /\ call' = call /\ retry' = retry /\ ops' = ops
      /\ ex'[o].todo \subseteq ops[o].services /\ ex'[o].listed \subseteq ops[o].services
  BY <1>1, <1>3, <1>4, Zenon
<1> QED BY <1>1, <1>4, <1>5, <1>6, <1>8, <1>9, OperationStep, Zenon

(* Failing puts back files the execution listed, and writes no phase past  *)
(* the commit that was not found or held.                                  *)
LEMMA FailStep ==
    ASSUME DeletionInv, NEW o \in Calls, ExecFails(o) \/ \E s \in Services : ExecStageFails(o, s)
    PROVE  DeletionInv'
<1>1. /\ UNCHANGED <<rows, assets, styles, aux, live, quiesced, call, retry, publish, request,
                     crashes, races>>
      /\ ex[o].pc # "idle" /\ ~Unbegun(o)
      /\ Failed(o, failures) \/ (failures < MaxFailures /\ Failed(o, failures + 1))
      /\ files' = files \/ files' = Restored(o)
  BY Begun, Zenon DEF ExecFails, ExecStageFails, At
<1>2. failures' \in 0..MaxFailures
  <2>1. failures \in 0..MaxFailures
    BY DEF DeletionInv, TypeOK
  <2>2. \A n : Failed(o, n) => failures' = n \/ (n < MaxFailures /\ failures' = n + 1)
    BY Zenon DEF Failed
  <2> QED BY DeletionAssumption, <1>1, <2>1, <2>2
<1>3. /\ ex' \in [Calls -> Execution] /\ ex'[o] = Idle
      /\ \A p \in Calls : p # o => ex'[p] = ex[p]
  <2>1. Idle \in Execution
    BY Zenon DEF Idle, Execution
  <2> QED BY <1>1, <2>1, Zenon DEF Failed, DeletionInv, TypeOK
<1>4. /\ ops' \in [Calls -> Operation]
      /\ \A p \in Calls : ops'[p].target = ops[p].target /\ ops'[p].services = ops[p].services
      /\ \A p \in Calls : p # o => ops'[p] = ops[p]
      /\ \/ ops' = ops
         \/ /\ ops'[o].status = "failed"
            /\ Committed(ops'[o].phase) => Committed(ops[o].phase) \/ ex[o].committed
  <2>1. CASE ops' = ops
    BY <2>1, Zenon DEF DeletionInv, TypeOK
  <2>2. CASE Update(o, "failed", ops[o].phase)
    <3>1. ops[o].phase \in Phases
      BY Zenon DEF DeletionInv, TypeOK, Operation
    <3> QED BY <2>2, <3>1, OpWritten DEF DeletionInv, TypeOK
  <2>3. ASSUME NEW ph \in Phases, Committed(ph) = ex[o].committed, Update(o, "failed", ph)
        PROVE  /\ ops' \in [Calls -> Operation]
               /\ \A p \in Calls : ops'[p].target = ops[p].target /\ ops'[p].services = ops[p].services
               /\ \A p \in Calls : p # o => ops'[p] = ops[p]
               /\ ops'[o].status = "failed" /\ (Committed(ops'[o].phase) => ex[o].committed)
    BY <2>3, OpWritten DEF DeletionInv, TypeOK
  <2>4. \/ ops' = ops \/ Update(o, "failed", ops[o].phase)
        \/ \E ph \in Phases : Committed(ph) = ex[o].committed /\ Update(o, "failed", ph)
    BY <1>1, Zenon DEF Failed
  <2> QED BY <2>1, <2>2, <2>3, <2>4
<1>5. /\ files' \in [Services -> Places]
      /\ \A s \in Services : files'[s] = files[s] \/ files'[s] = "path"
  BY <1>1, Zenon DEF Restored, DeletionInv, TypeOK, Places
<1>6. TypeOK'
  BY <1>1, <1>2, <1>3, <1>4, <1>5 DEF DeletionInv, TypeOK
<1>7. Past(o)' => Past(o)
  <2>1. ex'[o].pc = "idle" /\ ~ex'[o].committed
    <3>1. Idle.pc = "idle" /\ ~Idle.committed
      BY DEF Idle
    <3> QED BY <1>3, <3>1, Zenon
  <2>2. /\ ops'[o].status = "completed" => ops[o].status = "completed"
        /\ Committed(ops'[o].phase) => Committed(ops[o].phase) \/ ex[o].committed
        /\ retry'[o] = retry[o]
    BY <1>1, <1>4, Zenon
  <2> QED BY <2>1, <2>2, Zenon DEF Past
<1>8. Past(o)' => ops[o].target \notin rows' /\ ops[o].services \cap rows' = {}
  BY <1>1, <1>7, Zenon DEF DeletionInv, PastInv
<1>9. /\ rows' \subseteq rows /\ assets' \subseteq assets /\ publish' = publish
      /\ call' = call /\ retry' = retry
      /\ ex'[o].todo \subseteq ops[o].services /\ ex'[o].listed \subseteq ops[o].services
  <2>1. Idle.todo = {} /\ Idle.listed = {}
    BY DEF Idle
  <2> QED BY <1>1, <1>3, <2>1, Zenon
<1> QED BY <1>1, <1>3, <1>4, <1>5, <1>6, <1>8, <1>9, OperationStep, Zenon

(* The commit takes the rows of the plan, and the execution goes on to     *)
(* remove the files; an earlier commit is not repeated.                    *)
LEMMA CommitStep ==
    ASSUME DeletionInv, NEW o \in Calls, ExecCommit(o)
    PROVE  DeletionInv'
<1>1. /\ UNCHANGED <<assets, files, styles, aux, live, quiesced, call, retry, publish, request,
                     failures, crashes, races>>
      /\ ex[o].pc # "idle" /\ ~Unbegun(o)
  BY Begun DEF ExecCommit, At
<1>2. ex[o] \in Execution
  BY DEF DeletionInv, TypeOK
<1>3. PICK r \in Execution : r = [ex[o] EXCEPT !.pc = "remove", !.todo = ex[o].listed]
  BY <1>2, Zenon DEF Execution
<1>4. r.pc = "remove" /\ r.todo = ex[o].listed /\ r.listed = ex[o].listed
  BY <1>2, <1>3, Zenon DEF Execution
<1>5. /\ ex' \in [Calls -> Execution] /\ ex'[o] = r
      /\ \A p \in Calls : p # o => ex'[p] = ex[p]
  <2>1. ex' = [ex EXCEPT ![o] = r]
    BY <1>3, Zenon DEF ExecCommit, DeletionInv, TypeOK, Execution
  <2> QED BY <2>1 DEF DeletionInv, TypeOK
<1>6. /\ ops' \in [Calls -> Operation]
      /\ \A p \in Calls : ops'[p].target = ops[p].target /\ ops'[p].services = ops[p].services
      /\ \A p \in Calls : p # o => ops'[p] = ops[p]
  <2>1. CASE ops' = ops
    BY <2>1, Zenon DEF DeletionInv, TypeOK
  <2>2. CASE Update(o, "running", "catalog_committed")
    BY <2>2, OpWritten, Zenon DEF DeletionInv, TypeOK, Phases
  <2> QED BY <2>1, <2>2 DEF ExecCommit
<1>7. /\ rows' \subseteq rows
      /\ ops[o].target \notin rows' /\ ops[o].services \cap rows' = {}
  <2>1. CASE ops[o].status = "completed" \/ Committed(ops[o].phase)
    BY <2>1, Zenon DEF ExecCommit, DeletionInv, PastInv, Past
  <2>2. CASE ~(ops[o].status = "completed" \/ Committed(ops[o].phase))
    BY <2>2, Zenon DEF ExecCommit, DeletionInv, PlanInv
  <2> QED BY <2>1, <2>2
<1>8. TypeOK'
  BY <1>1, <1>5, <1>6, <1>7 DEF DeletionInv, TypeOK
<1>9. /\ assets' \subseteq assets /\ publish' = publish
      /\ call' = call /\ retry' = retry /\ files' = files
      /\ ex'[o].todo \subseteq ops[o].services /\ ex'[o].listed \subseteq ops[o].services
  BY <1>1, <1>4, <1>5, Zenon DEF DeletionInv, PlanInv
<1> QED BY <1>1, <1>5, <1>6, <1>7, <1>8, <1>9, OperationStep, Zenon

(* A staged file is removed when no row of the plan is left, and then its  *)
(* metadata row.                                                           *)
LEMMA RemoveStep ==
    ASSUME DeletionInv, NEW o \in Calls,
           ExecRemoveRow(o) \/ \E s \in Services : ExecRemoveFile(o, s)
    PROVE  DeletionInv'
<1>1. /\ UNCHANGED <<rows, ops, styles, aux, live, quiesced, call, retry, publish, request,
                     failures, crashes, races>>
      /\ ex[o].pc \in {"remove", "remove row"} /\ ~Unbegun(o) /\ assets' \subseteq assets
  BY Begun, Zenon DEF ExecRemoveRow, ExecRemoveFile, At
<1>2. ex[o] \in Execution
  BY DEF DeletionInv, TypeOK
<1>3. /\ ops[o].target \notin rows' /\ ops[o].services \cap rows' = {}
      /\ ex[o].todo \subseteq ops[o].services /\ ex[o].listed \subseteq ops[o].services
  BY <1>1, Zenon DEF DeletionInv, PastInv, Past, PlanInv
<1>4. PICK r \in Execution :
         /\ r.todo \subseteq ops[o].services /\ r.listed \subseteq ops[o].services
         /\ ex' = [ex EXCEPT ![o] = r]
  <2>1. CASE ExecRemoveRow(o)
    <3>1. PICK r \in Execution : r = [ex[o] EXCEPT !.pc = "remove", !.todo = ex[o].todo \ ex[o].listed]
      BY <1>2, Zenon DEF Execution
    <3>2. r.todo = ex[o].todo \ ex[o].listed /\ r.listed = ex[o].listed
      BY <3>1, <1>2, Zenon DEF Execution
    <3>3. ex' = [ex EXCEPT ![o] = r]
      BY <2>1, <3>1, Zenon DEF ExecRemoveRow, DeletionInv, TypeOK, Execution
    <3> QED BY <3>2, <3>3, <1>3, Zenon
  <2>2. ASSUME NEW s \in Services, ExecRemoveFile(o, s)
        PROVE  \E r \in Execution :
                  /\ r.todo \subseteq ops[o].services /\ r.listed \subseteq ops[o].services
                  /\ ex' = [ex EXCEPT ![o] = r]
    <3>1. PICK r \in Execution : r = [ex[o] EXCEPT !.pc = "remove row", !.listed = {s}]
      BY <1>2, Zenon DEF Execution
    <3>2. r.todo = ex[o].todo /\ r.listed = {s}
      BY <3>1, <1>2, Zenon DEF Execution
    <3>3. ex' = [ex EXCEPT ![o] = r] /\ s \in ex[o].todo
      BY <2>2, <3>1, Zenon DEF ExecRemoveFile, DeletionInv, TypeOK, Execution
    <3> QED BY <3>2, <3>3, <1>3, Zenon
  <2> QED BY <2>1, <2>2
<1>5. /\ ex' \in [Calls -> Execution] /\ ex'[o] = r
      /\ \A p \in Calls : p # o => ex'[p] = ex[p]
  BY <1>4 DEF DeletionInv, TypeOK
<1>6. /\ files' \in [Services -> Places]
      /\ \A t \in Services : files'[t] = files[t] \/ (files'[t] = "gone" /\ t \notin rows')
  <2>1. CASE ExecRemoveRow(o)
    BY <2>1, Zenon DEF ExecRemoveRow, DeletionInv, TypeOK
  <2>2. ASSUME NEW s \in Services, ExecRemoveFile(o, s)
        PROVE  /\ files' \in [Services -> Places]
               /\ \A t \in Services : files'[t] = files[t] \/ (files'[t] = "gone" /\ t \notin rows')
    <3>1. s \in ops[o].services /\ (files' = files \/ files' = [files EXCEPT ![s] = "gone"])
      BY <2>2, <1>3, Zenon DEF ExecRemoveFile
    <3>2. s \notin rows'
      BY <3>1, <1>3
    <3> QED BY <3>1, <3>2 DEF DeletionInv, TypeOK, Places
  <2> QED BY <2>1, <2>2
<1>7. TypeOK'
  BY <1>1, <1>5, <1>6, Zenon DEF DeletionInv, TypeOK
<1>8. /\ rows' \subseteq rows /\ publish' = publish /\ ops' = ops
      /\ call' = call /\ retry' = retry
      /\ ex'[o].todo \subseteq ops[o].services /\ ex'[o].listed \subseteq ops[o].services
  BY <1>1, <1>4, <1>5, Zenon
<1> QED BY <1>1, <1>3, <1>5, <1>6, <1>7, <1>8, OperationStep, Zenon

(* A published import is in no plan that was committed. *)
LEMMA PublishStep ==
    ASSUME DeletionInv, NEW s \in Services, PublishImport(s)
    PROVE  DeletionInv'
<1>1. /\ publish[s] = "ready" /\ rows' = rows \cup {s} /\ assets' = assets \cup {s}
      /\ files' = [files EXCEPT ![s] = "path"] /\ publish' = [publish EXCEPT ![s] = "published"]
      /\ UNCHANGED <<ops, styles, aux, live, quiesced, call, ex, retry, request, failures, crashes, races>>
  BY DEF PublishImport
<1>2. \A c \in Calls : /\ s \notin call[c].services /\ s # call[c].target
                       /\ s \notin ops[c].services /\ s # ops[c].target
  BY <1>1, Zenon DEF DeletionInv, ReadyInv
<1>3. TypeOK'
  BY <1>1, Zenon DEF DeletionInv, TypeOK, Targets, Places
<1>4. BegunInv'
  BY <1>1, Zenon DEF DeletionInv, BegunInv, Unbegun
<1>5. PlanInv'
  BY <1>1, DeletionAssumption DEF DeletionInv, PlanInv, TypeOK
<1>6. ReadyInv'
  BY <1>1, Zenon DEF DeletionInv, ReadyInv, TypeOK
<1>7. PastInv'
  BY <1>1, <1>2, Zenon DEF DeletionInv, PastInv, Past
<1>8. CatalogFileKept'
  BY <1>1 DEF DeletionInv, CatalogFileKept, TypeOK
<1> QED BY <1>3, <1>4, <1>5, <1>6, <1>7, <1>8 DEF DeletionInv

(* Refreshing the runtime and rendering tiles leave the catalog alone. *)
LEMMA RuntimeStep ==
    ASSUME DeletionInv, NEW s \in Services,
           RefreshRead(s) \/ RefreshInstall(s) \/ RequestBegin(s) \/ RequestFill(s)
    PROVE  DeletionInv'
<1>1. /\ UNCHANGED <<rows, ops, assets, files, styles, quiesced, call, ex, retry, failures, crashes, races>>
      /\ live' \subseteq Targets /\ aux' \subseteq Services /\ request' \subseteq Services
  BY Zenon DEF RefreshRead, RefreshInstall, RequestBegin, RequestFill, durable, DeletionInv, TypeOK, Targets
<1>2. /\ publish' \in [Services -> {"ready", "published", "prepared", "done"}]
      /\ \A t \in Services : publish'[t] = "ready" => publish[t] = "ready"
  BY Zenon DEF RefreshRead, RefreshInstall, RequestBegin, RequestFill, DeletionInv, TypeOK
<1>3. TypeOK'
  BY <1>1, <1>2, Zenon DEF DeletionInv, TypeOK
<1>4. BegunInv' /\ PlanInv'
  BY <1>1 DEF DeletionInv, BegunInv, Unbegun, PlanInv
<1>5. ReadyInv'
  BY <1>1, <1>2, Zenon DEF DeletionInv, ReadyInv
<1>6. PastInv' /\ CatalogFileKept'
  BY <1>1, Zenon DEF DeletionInv, PastInv, Past, CatalogFileKept
<1> QED BY <1>3, <1>4, <1>5, <1>6, Zenon DEF DeletionInv

(* A restart forgets calls, retries and executions and starts what is      *)
(* active from its beginning.                                              *)
LEMMA RestartStep ==
    ASSUME DeletionInv, Restart
    PROVE  DeletionInv'
<1>1. /\ UNCHANGED <<rows, ops, assets, files, styles, aux, failures, races>>
      /\ live' \subseteq Targets /\ quiesced' = {} /\ request' = {}
      /\ crashes' \in 0..MaxCrashes
      /\ retry' = [o \in Calls |-> None]
      /\ publish' \in [Services -> {"ready", "published", "prepared", "done"}]
      /\ \A s \in Services : publish'[s] = "ready" => publish[s] = "ready"
  <2>1. /\ UNCHANGED <<rows, ops, assets, files, styles, aux, failures, races>>
        /\ quiesced' = {} /\ request' = {} /\ retry' = [o \in Calls |-> None]
        /\ live' \subseteq rows /\ crashes < MaxCrashes /\ crashes' = crashes + 1
        /\ publish' = [s \in Services |-> IF publish[s] = "ready" THEN "ready" ELSE "done"]
    BY Zenon DEF Restart, durable
  <2>2. live' \subseteq Targets
    BY <2>1, Zenon DEF DeletionInv, TypeOK
  <2>3. crashes' \in 0..MaxCrashes
    BY <2>1, DeletionAssumption DEF DeletionInv, TypeOK
  <2> QED BY <2>1, <2>2, <2>3
<1>2. /\ call' \in [Calls -> Request]
      /\ \A c \in Calls :
           /\ call'[c].target = call[c].target /\ call'[c].services = call[c].services
           /\ call'[c].op = call[c].op /\ (Unbegun(c)' => Unbegun(c))
           /\ call'[c].pc \in {"begun", "quiesced"} => call[c].pc \in {"begun", "quiesced"}
  <2>1. call' = [c \in Calls |-> [call[c] EXCEPT !.pc =
                   IF call[c].pc \in {"idle", "accepted"} THEN call[c].pc ELSE "refused"]]
    BY Zenon DEF Restart
  <2>2. ASSUME NEW c \in Calls
        PROVE  /\ call'[c] \in Request
               /\ call'[c].target = call[c].target /\ call'[c].services = call[c].services
               /\ call'[c].op = call[c].op
               /\ call'[c].pc \in {"idle", "accepted", "refused"}
               /\ call'[c].pc = "idle" => call[c].pc = "idle"
    <3>1. call[c] \in Request
      BY DEF DeletionInv, TypeOK
    <3>2. PICK pc \in {"idle", "accepted", "refused"} :
             pc = IF call[c].pc \in {"idle", "accepted"} THEN call[c].pc ELSE "refused"
      OBVIOUS
    <3>3. call'[c] = [call[c] EXCEPT !.pc = pc]
      BY <2>1, <3>2
    <3> QED BY <3>1, <3>2, <3>3, Zenon DEF Request
  <2>3. call' \in [Calls -> Request]
    BY <2>1, <2>2, Zenon
  <2> QED BY <2>2, <2>3 DEF Unbegun
<1>3. /\ ex' \in [Calls -> Execution]
      /\ \A o \in Calls : /\ ex'[o].pc \in {"idle", "start"} /\ ex'[o].todo = {} /\ ex'[o].listed = {}
                          /\ ex'[o].committed => Committed(ops[o].phase)
                          /\ ~Active(o) => ex'[o] = Idle
  <2>1. ASSUME NEW o \in Calls
        PROVE  /\ ex'[o] \in Execution
               /\ ex'[o].pc \in {"idle", "start"} /\ ex'[o].todo = {} /\ ex'[o].listed = {}
               /\ ex'[o].committed => Committed(ops[o].phase)
               /\ ~Active(o) => ex'[o] = Idle
    <3>1. CASE ~Active(o)
      BY <3>1, Zenon DEF Restart, Idle, Execution
    <3>2. CASE Active(o)
      <4>0. Committed(ops[o].phase) \in BOOLEAN
        BY DEF Committed
      <4>1. PICK b \in BOOLEAN : b = Committed(ops[o].phase)
        BY <4>0, Zenon
      <4>2. ex'[o] = [Idle EXCEPT !.pc = "start", !.committed = b]
        BY <3>2, <4>1, Zenon DEF Restart
      <4>3. ex'[o] = [pc |-> "start", committed |-> b, todo |-> {}, listed |-> {}]
        BY <4>2, Zenon DEF Idle
      <4> QED BY <4>1, <4>3, <3>2 DEF Execution
    <3> QED BY <3>1, <3>2
  <2>2. ex' \in [Calls -> Execution]
    BY <2>1, Zenon DEF Restart
  <2> QED BY <2>1, <2>2, Zenon
<1>4. TypeOK'
  BY <1>1, <1>2, <1>3, Zenon DEF DeletionInv, TypeOK
<1>5. \A o \in Calls : Past(o)' => Past(o)
  BY <1>1, <1>3, DeletionAssumption, Zenon DEF Past, Committed, Phases
<1>6. \A o \in Calls : Past(o)' => ops[o].target \notin rows' /\ ops[o].services \cap rows' = {}
  BY <1>1, <1>5, Zenon DEF DeletionInv, PastInv
<1>7. \A o \in Calls : Unbegun(o) => ops'[o] = ops[o] /\ ex'[o] = ex[o] /\ retry'[o] = retry[o]
  BY <1>1, <1>3 DEF DeletionInv, BegunInv, Active, NoOp
<1>8. \A o \in Calls :
         /\ ops'[o].target = ops[o].target /\ ops'[o].services = ops[o].services
         /\ Unbegun(o) => ops'[o] = ops[o] /\ ex'[o] = ex[o] /\ retry'[o] = retry[o]
         /\ ex'[o].todo \subseteq ops[o].services /\ ex'[o].listed \subseteq ops[o].services
         /\ Past(o)' => ops[o].target \notin rows' /\ ops[o].services \cap rows' = {}
  BY <1>1, <1>3, <1>6, <1>7, Zenon
<1> QED BY <1>1, <1>2, <1>4, <1>8, PlansKept, Zenon

(* Every step preserves the invariant. *)
LEMMA DeletionStep == DeletionInv /\ [Next]_vars => DeletionInv'
<1> SUFFICES ASSUME DeletionInv, [Next]_vars PROVE DeletionInv'
  OBVIOUS
<1>1. ASSUME NEW c \in Calls, Delete(c) PROVE DeletionInv'
  BY <1>1, PlanStep, JoinStep, BeginStep, AnswerStep, RespondStep, Zenon DEF Delete
<1>2. ASSUME NEW o \in Calls, Execute(o) PROVE DeletionInv'
  BY <1>2, AdvanceStep, StageStep, FailStep, CommitStep, RemoveStep DEF Execute
<1>3. ASSUME NEW o \in Calls, ExecFails(o) PROVE DeletionInv'
  BY <1>3, FailStep
<1>4. ASSUME NEW o \in Calls, RetryRead(o) \/ RetryRun(o) PROVE DeletionInv'
  BY <1>4, RetryStep
<1>5. ASSUME NEW s \in Services, PublishImport(s) PROVE DeletionInv'
  BY <1>5, PublishStep
<1>6. ASSUME NEW s \in Services,
             RefreshRead(s) \/ RefreshInstall(s) \/ RequestBegin(s) \/ RequestFill(s)
      PROVE  DeletionInv'
  BY <1>6, RuntimeStep
<1>7. CASE Restart
  BY <1>7, RestartStep
<1>8. CASE UNCHANGED vars
  <2>1. UNCHANGED <<rows, ops, live, quiesced, assets, files, styles, aux, call, ex, retry, publish,
                    request, failures, crashes, races>>
    BY <1>8, Zenon DEF vars, durable, memory
  <2>2. TypeOK'
    BY <2>1 DEF DeletionInv, TypeOK
  <2>3. BegunInv' /\ PlanInv' /\ ReadyInv' /\ PastInv' /\ CatalogFileKept'
    BY <2>1, Zenon DEF DeletionInv, BegunInv, Unbegun, PlanInv, ReadyInv, PastInv, Past, CatalogFileKept
  <2> QED BY <2>2, <2>3 DEF DeletionInv
<1> QED BY <1>1, <1>2, <1>3, <1>4, <1>5, <1>6, <1>7, <1>8 DEF Next

(* The invariant holds in every reachable state. *)
LEMMA DeletionAlways == Spec => []DeletionInv
BY DeletionInit, DeletionStep, PTL DEF Spec

(* An active operation stays active until its target is out of the         *)
(* catalog: only the last step of an execution completes it.               *)
LEMMA ActiveKept ==
    ASSUME DeletionInv, [Next]_vars, NEW o \in Calls, Active(o)
    PROVE  /\ ops'[o].target = ops[o].target
           /\ Active(o)' \/ ops[o].target \notin rows'
<1>1. CASE ops' = ops
  BY <1>1 DEF Active
<1>2. ASSUME NEW c \in Calls, Begin(c) PROVE ops'[o] = ops[o]
  <2>1. c # o
    BY <1>2, Begun DEF Begin, Unbegun
  <2> QED BY <1>2, <2>1 DEF Begin, DeletionInv, TypeOK
<1>3. ASSUME NEW p \in Calls, NEW st \in {"running", "failed"}, NEW ph \in Phases, Update(p, st, ph)
      PROVE  ops'[o].target = ops[o].target /\ Active(o)'
  <2>1. /\ ops'[o].target = ops[o].target /\ (p # o => ops'[o] = ops[o])
        /\ ops'[p].status = st
    BY <1>3, OpWritten DEF DeletionInv, TypeOK
  <2> QED BY <2>1, Zenon DEF Active
<1>4. ASSUME NEW p \in Calls, ExecFinish(p)
      PROVE  ops'[o].target = ops[o].target /\ (Active(o)' \/ ops[o].target \notin rows')
  <2>1. /\ ops'[o].target = ops[o].target /\ (p # o => ops'[o] = ops[o])
    BY <1>4, OpWritten DEF ExecFinish, DeletionInv, TypeOK, Phases
  <2>2. ops[p].target \notin rows'
    BY <1>4, Zenon DEF ExecFinish, At, DeletionInv, PastInv, Past
  <2> QED BY <2>1, <2>2, Zenon DEF Active
<1>5. \/ ops' = ops
      \/ \E c \in Calls : Begin(c) \/ ExecFinish(c)
      \/ \E p \in Calls, st \in {"running", "failed"}, ph \in Phases : Update(p, st, ph)
  <2>1. \A p \in Calls : ops[p].phase \in Phases /\ (retry[p] # None => retry[p] \in Phases)
    BY DEF DeletionInv, TypeOK, Operation
  <2>2. ASSUME NEW c \in Calls, Delete(c), ~Begin(c)
        PROVE  ops' = ops \/ \E p \in Calls : Update(p, "running", "tombstoned")
    <3>1. CASE Respond(c)
      BY <3>1 DEF Respond, DeletionInv, BegunInv
    <3> QED BY <2>2, <3>1 DEF Delete, Plan, Join, Refused, Accept, RespondFails, durable
  <2>3. ASSUME NEW p \in Calls, Execute(p), ~ExecFinish(p)
        PROVE  ops' = ops \/ \E st \in {"running", "failed"}, ph \in Phases : Update(p, st, ph)
    <3>1. CASE \E s \in Services : ExecStageFails(p, s)
      BY <3>1, <2>1, Zenon DEF ExecStageFails, Failed
    <3> QED BY <2>3, <3>1, Zenon DEF Execute, ExecStart, ExecJobs, ExecAux, ExecStyle, ExecStage, ExecRemoveFile,
              ExecStaged, ExecCommit, ExecRemoveRow, ExecUnstage, ExecClear, durable, Phases
  <2>4. ASSUME NEW p \in Calls, ExecFails(p) \/ RetryRead(p) \/ RetryRun(p)
        PROVE  ops' = ops \/ \E st \in {"running", "failed"}, ph \in Phases : Update(p, st, ph)
    BY <2>1, <2>4, Zenon DEF ExecFails, Failed, RetryRead, RetryRun, durable
  <2>5. ASSUME NEW s \in Services, PublishImport(s) \/ RefreshRead(s) \/ RefreshInstall(s)
                                     \/ RequestBegin(s) \/ RequestFill(s)
        PROVE  ops' = ops
    BY <2>5 DEF PublishImport, RefreshRead, RefreshInstall, RequestBegin, RequestFill, durable
  <2>6. Restart \/ UNCHANGED vars => ops' = ops
    BY Zenon DEF Restart, vars, durable
  <2>7. "tombstoned" \in Phases
    BY DEF Phases
  <2> QED BY <2>2, <2>3, <2>4, <2>5, <2>6, <2>7, Zenon DEF Next
<1> QED BY <1>1, <1>2, <1>3, <1>4, <1>5 DEF Active

(* Type correctness of recursive deletion. *)
THEOREM DeletionTypeCorrect == Spec => []TypeOK
<1>1. DeletionInv => TypeOK
  BY DEF DeletionInv
<1> QED BY <1>1, DeletionAlways, PTL

(* Once BeginCatalogDeletion has tombstoned a workspace or a service it is *)
(* never visible again: failures, retries and restarts leave the operation *)
(* active until the commit has taken the row.                              *)
THEOREM TombstonesHold == Spec => DeletedStaysHidden
<1>1. DeletionInv /\ [Next]_vars => \A t \in Targets : t \in rows /\ Deleting(t) => ~Visible(t)'
  <2> SUFFICES ASSUME DeletionInv, [Next]_vars, NEW t \in Targets, Deleting(t)
               PROVE  ~Visible(t)'
    OBVIOUS
  <2>1. PICK o \in Calls : Active(o) /\ ops[o].target = t
    BY DEF Deleting
  <2>2. ops'[o].target = t /\ (Active(o)' \/ t \notin rows')
    BY <2>1, ActiveKept, Zenon
  <2> QED BY <2>2 DEF Visible, Deleting
<1> QED BY <1>1, DeletionAlways, PTL DEF Spec, DeletedStaysHidden

(* removeManagedImports only takes files whose service is out of the       *)
(* catalog, however often an operation fails, is retried with a phase read *)
(* earlier, or is resumed by Recover.                                      *)
THEOREM CatalogFilesKept == Spec => []CatalogFileKept
<1>1. DeletionInv => CatalogFileKept
  BY DEF DeletionInv
<1> QED BY <1>1, DeletionAlways, PTL

(* A completed operation has left no row of its plan in the catalog, also  *)
(* when a publication runs beside it.                                      *)
THEOREM CompletedAreUnlisted == Spec => []CompletedUnlisted
<1>1. DeletionInv => CompletedUnlisted
  BY Zenon DEF DeletionInv, PastInv, Past, CompletedUnlisted
<1> QED BY <1>1, DeletionAlways, PTL
=============================================================================
