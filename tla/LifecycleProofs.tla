-------------------------- MODULE LifecycleProofs --------------------------
(***************************************************************************)
(* Proofs about Lifecycle for any sets of tasks, pods and contents and any *)
(* bounds.  The table invariants only need to know how a step changes the  *)
(* tables (lemma NextTables); the invariants on attempts also need to know *)
(* how a pod comes to hold a task (lemma HoldsStep).  Two abstractions are *)
(* implemented: the gates (GateContract) and the queue (TaskQueue).        *)
(***************************************************************************)
EXTENDS Lifecycle, TLAPS

\* What a step can do to the tables, whoever takes it.
HandlerStep ==
    \/ \E p \in Pods : RegisterPod(p)
    \/ \E p \in Pods, t \in Tasks : ClaimNextTask(p, t)
    \/ \E t \in Tasks : MarkRunning(t)
    \/ \E p \in Pods, j \in Jobs : SubmitResult(p, j)
    \/ \E p \in Pods, j \in Jobs : ReportFailure(p, j)

TableStep == HandlerStep \/ UserStep \/ UNCHANGED tables

\* A pod's job is a row of the tasks table while it executes, and so is the
\* job a late request carries: every step is a handler, a user operation, or
\* leaves the tables alone.
LEMMA NextTables == ASSUME TypeOK, [Next]_vars PROVE TableStep
<1> USE DEF TableStep, HandlerStep, tables
<1>1. CASE UserStep
  BY <1>1
<1>2. ASSUME NEW p \in Pods, PodStep(p) PROVE TableStep
  <2>1. CASE PodRegisters(p)
    BY <2>1 DEF PodRegisters
  <2>2. CASE PodClaims(p)
    BY <2>2 DEF PodClaims
  <2>3. CASE PodStarts(p)
    <3>1. job[p] \in Jobs
      BY <2>3 DEF PodStarts, TypeOK, PodsTypeOK, Executing
    <3>2. job[p].task \in Tasks
      BY <3>1 DEF Jobs
    <3> QED BY <2>3, <3>2 DEF PodStarts
  <2>4. CASE PodCallsModel(p)
    BY <2>4 DEF PodCallsModel
  <2>5. CASE PodSubmits(p)
    <3>1. job[p] \in Jobs
      BY <2>5 DEF PodSubmits, TypeOK, PodsTypeOK, Executing
    <3> QED BY <2>5, <3>1 DEF PodSubmits
  <2>6. CASE PodReportsFailure(p)
    <3>1. job[p] \in Jobs
      BY <2>6 DEF PodReportsFailure, TypeOK, PodsTypeOK, Executing
    <3> QED BY <2>6, <3>1 DEF PodReportsFailure
  <2>7. CASE PodCallFails(p)
    BY <2>7 DEF PodCallFails
  <2> QED
    BY <1>2, <2>1, <2>2, <2>3, <2>4, <2>5, <2>6, <2>7 DEF PodStep
<1>3. ASSUME NEW p \in Pods, PodBoots(p) \/ PodExits(p) PROVE TableStep
  BY <1>3 DEF PodBoots, PodExits
<1>4. ASSUME NEW r \in late, LateService(r) PROVE TableStep
  <2>1. r.pod \in Pods
    BY DEF TypeOK, PodsTypeOK, Requests
  <2>2. r.op \in Executing => r.job \in Jobs /\ r.job.task \in Tasks
    BY DEF TypeOK, PodsTypeOK, Jobs
  <2> QED BY <1>4, <2>1, <2>2 DEF LateService, Executing
<1>5. CASE UNCHANGED vars
  BY <1>5 DEF vars
<1> QED
  BY <1>1, <1>2, <1>3, <1>4, <1>5 DEF Next

-----------------------------------------------------------------------------
(* Type correctness. *)

\* The empty database and the pods that are down have their types.
LEMMA InitType == ASSUME Init PROVE TypeOK
<1>1. \A t \in Tasks : (CHOOSE s \in Specs : TRUE) \in Specs
  BY SpecsAssumption
<1>2. TablesTypeOK
  BY <1>1, BoundAssumption DEF Init, TablesTypeOK, Statuses
<1>3. PodsTypeOK
  BY DEF Init, PodsTypeOK, PodPcs, Executing
<1> QED BY <1>2, <1>3 DEF TypeOK

\* The owner of a task in flight is a pod: NULL never reaches the ledger.
LEMMA TablesTypeStep ==
    ASSUME TablesTypeOK, OwnerIffAttempted, TableStep
    PROVE  TablesTypeOK'
<1> USE DEF TablesTypeOK, gateVars, workVars
<1>1. ASSUME NEW p \in Pods, RegisterPod(p) PROVE TablesTypeOK'
  BY <1>1 DEF RegisterPod
<1>2. ASSUME NEW p \in Pods, NEW t \in Tasks, ClaimNextTask(p, t)
      PROVE  TablesTypeOK'
  BY <1>2 DEF ClaimNextTask, UpdatePodRow, Statuses
<1>3. ASSUME NEW t \in Tasks, MarkRunning(t) PROVE TablesTypeOK'
  BY <1>3 DEF MarkRunning, Statuses
<1>4. ASSUME NEW p \in Pods, NEW j \in Jobs, SubmitResult(p, j)
      PROVE  TablesTypeOK'
  <2>1. j.task \in Tasks /\ Artifact("result", p, j) \in Artifacts
    BY DEF Jobs, Artifact, Artifacts
  <2>2. owner[j.task] \in Pods
    BY <1>4, <2>1 DEF OwnerIffAttempted, Attempted, SubmitResult, Deliver
  <2> QED
    BY <1>4, <2>1, <2>2 DEF SubmitResult, Deliver, UpdatePodRow, Statuses
<1>5. ASSUME NEW p \in Pods, NEW j \in Jobs, ReportFailure(p, j)
      PROVE  TablesTypeOK'
  <2>1. j.task \in Tasks /\ Artifact("failure", p, j) \in Artifacts
    BY DEF Jobs, Artifact, Artifacts
  <2> QED
    BY <1>5, <2>1 DEF ReportFailure, Deliver, UpdatePodRow, Statuses
<1>6. ASSUME NEW t \in Tasks, CreateTask(t) PROVE TablesTypeOK'
  BY <1>6 DEF CreateTask, Statuses
<1>7. ASSUME NEW t \in Tasks, EditTask(t) PROVE TablesTypeOK'
  BY <1>7 DEF EditTask
<1>8. ASSUME NEW t \in Tasks, ApproveBefore(t) PROVE TablesTypeOK'
  BY <1>8 DEF ApproveBefore, Statuses
<1>9. ASSUME NEW t \in Tasks, RejectBefore(t) \/ ApproveAfter(t)
      PROVE  TablesTypeOK'
  BY <1>9 DEF RejectBefore, ApproveAfter, Statuses
<1>10. ASSUME NEW t \in Tasks, RejectAfter(t) PROVE TablesTypeOK'
  BY <1>10, BoundAssumption DEF RejectAfter, Statuses
<1>11. ASSUME NEW t \in Tasks, RequeueTask(t) PROVE TablesTypeOK'
  BY <1>11, BoundAssumption DEF RequeueTask, UpdatePodRow, Statuses
<1>12. CASE SessionReset
  BY <1>12 DEF SessionReset
<1>13. CASE UNCHANGED tables
  BY <1>13 DEF tables
<1> QED
  BY <1>1, <1>2, <1>3, <1>4, <1>5, <1>6, <1>7, <1>8, <1>9, <1>10, <1>11,
     <1>12, <1>13 DEF TableStep, HandlerStep, UserStep

\* A request that outlives its client is a request.
LEMMA GivesUpType ==
    ASSUME PodsTypeOK, NEW p \in Pods, GivesUp(p)
    PROVE  /\ late' \in SUBSET Requests
           /\ \A r \in late' : r.op \in Executing => r.job \in Jobs
<1>1. pc[p] \in Calls =>
        /\ [op |-> pc[p], pod |-> p, job |-> job[p]] \in Requests
        /\ pc[p] \in Executing => job[p] \in Jobs
  BY DEF PodsTypeOK, Requests
<1> QED BY <1>1 DEF GivesUp, PodsTypeOK

\* Every move of a pod is to a place of its program, with a job if it executes.
LEMMA PodAtType ==
    ASSUME PodsTypeOK, NEW p \in Pods, NEW place \in PodPcs,
           NEW j \in Jobs \union {NoJob}, place \in Executing => j \in Jobs,
           PodAt(p, place, j)
    PROVE  /\ pc' \in [Pods -> PodPcs]
           /\ job' \in [Pods -> Jobs \union {NoJob}]
           /\ \A q \in Pods : pc'[q] \in Executing => job'[q] \in Jobs
BY DEF PodsTypeOK, PodAt

\* A pod that gets an error is in one of its places, with no job.
LEMMA AfterErrorType ==
    ASSUME PodsTypeOK, NEW p \in Pods, AfterError(p)
    PROVE  /\ pc' \in [Pods -> PodPcs]
           /\ job' \in [Pods -> Jobs \union {NoJob}]
           /\ \A q \in Pods : pc'[q] \in Executing => job'[q] \in Jobs
BY PodAtType DEF AfterError, PodPcs, Calls, Executing

\* Whether the pod gets the reply or an error, its place is one it can be in.
LEMMA ServedType ==
    ASSUME PodsTypeOK, NEW p \in Pods, NEW place \in PodPcs,
           NEW j \in Jobs \union {NoJob}, place \in Executing => j \in Jobs,
           Served(p, place, j)
    PROVE  PodsTypeOK'
BY PodAtType, AfterErrorType DEF Served, PodsTypeOK

\* Every step keeps the types of the pods and of the late requests.
LEMMA PodsTypeStep ==
    ASSUME TypeOK, [Next]_vars
    PROVE  PodsTypeOK'
<1> USE DEF TypeOK
<1>1. CASE UserStep
  <2>1. UNCHANGED podVars
    BY <1>1 DEF UserStep, CreateTask, EditTask, ApproveBefore, RejectBefore,
                ApproveAfter, RejectAfter, RequeueTask, SessionReset
  <2> QED BY <2>1 DEF podVars, PodsTypeOK
<1>2. ASSUME NEW p \in Pods, PodStep(p) PROVE PodsTypeOK'
  <2>1. CASE PodRegisters(p)
    BY <2>1, ServedType DEF PodRegisters, PodPcs, Calls, Executing
  <2>2. CASE PodClaims(p)
    <3>1. \A t \in Tasks : JobOf(t) \in Jobs
      BY DEF JobOf, Jobs, TablesTypeOK
    <3> QED BY <2>2, <3>1, ServedType DEF PodClaims, PodPcs, Calls
  <2>3. CASE PodStarts(p)
    <3>1. job[p] \in Jobs
      BY <2>3 DEF PodStarts, PodsTypeOK, Executing
    <3> QED BY <2>3, <3>1, ServedType DEF PodStarts, PodPcs, Calls
  <2>4. CASE PodCallsModel(p)
    <3>1. job[p] \in Jobs
      BY <2>4 DEF PodCallsModel, PodsTypeOK, Executing
    <3>2. PICK place \in {"submitting", "failing"} : PodAt(p, place, job[p])
      BY <2>4 DEF PodCallsModel
    <3>3. place \in PodPcs
      BY DEF PodPcs, Calls
    <3> QED BY <2>4, <3>1, <3>2, <3>3, PodAtType DEF PodCallsModel, PodsTypeOK
  <2>5. CASE PodSubmits(p) \/ PodReportsFailure(p)
    BY <2>5, ServedType DEF PodSubmits, PodReportsFailure, PodPcs, Calls, Executing
  <2>6. CASE PodCallFails(p)
    BY <2>6, AfterErrorType, GivesUpType DEF PodCallFails, PodsTypeOK
  <2> QED
    BY <1>2, <2>1, <2>2, <2>3, <2>4, <2>5, <2>6 DEF PodStep
<1>3. ASSUME NEW p \in Pods, PodBoots(p) PROVE PodsTypeOK'
  BY <1>3, PodAtType DEF PodBoots, PodPcs, Calls, Executing, PodsTypeOK
<1>4. ASSUME NEW p \in Pods, PodExits(p) PROVE PodsTypeOK'
  BY <1>4, PodAtType, GivesUpType DEF PodExits, PodPcs, Calls, Executing, PodsTypeOK
<1>5. ASSUME NEW r \in late, LateService(r) PROVE PodsTypeOK'
  BY <1>5 DEF LateService, PodsTypeOK
<1>6. CASE UNCHANGED vars
  BY <1>6 DEF vars, podVars, PodsTypeOK
<1> QED
  BY <1>1, <1>2, <1>3, <1>4, <1>5, <1>6 DEF Next

-----------------------------------------------------------------------------
(* The invariants on the tables. *)

\* Every handler sets and clears pod_id together with the status.
LEMMA OwnerStep ==
    ASSUME TablesTypeOK, OwnerIffAttempted, TableStep
    PROVE  OwnerIffAttempted'
<1> USE DEF TablesTypeOK, OwnerIffAttempted, Attempted, InFlight
<1>1. ASSUME NEW p \in Pods, RegisterPod(p) PROVE OwnerIffAttempted'
  BY <1>1 DEF RegisterPod
<1>2. ASSUME NEW p \in Pods, NEW t \in Tasks, ClaimNextTask(p, t)
      PROVE  OwnerIffAttempted'
  BY <1>2 DEF ClaimNextTask
<1>3. ASSUME NEW t \in Tasks, MarkRunning(t) PROVE OwnerIffAttempted'
  BY <1>3 DEF MarkRunning
<1>4. ASSUME NEW t \in Tasks, NEW a, Deliver(t, a) PROVE OwnerIffAttempted'
  BY <1>4 DEF Deliver
<1>5. ASSUME NEW t \in Tasks, CreateTask(t) \/ EditTask(t)
      PROVE  OwnerIffAttempted'
  BY <1>5 DEF CreateTask, EditTask
<1>6. ASSUME NEW t \in Tasks,
             ApproveBefore(t) \/ RejectBefore(t) \/ ApproveAfter(t)
      PROVE  OwnerIffAttempted'
  BY <1>6 DEF ApproveBefore, RejectBefore, ApproveAfter
<1>7. ASSUME NEW t \in Tasks, RejectAfter(t) \/ RequeueTask(t)
      PROVE  OwnerIffAttempted'
  BY <1>7, NullAssumption DEF RejectAfter, RequeueTask
<1>8. CASE SessionReset \/ UNCHANGED tables
  BY <1>8 DEF SessionReset, tables
<1>9. \A j \in Jobs : j.task \in Tasks
  BY DEF Jobs
<1> QED
  BY <1>1, <1>2, <1>3, <1>4, <1>5, <1>6, <1>7, <1>8, <1>9
  DEF TableStep, HandlerStep, UserStep, SubmitResult, ReportFailure

\* No handler moves a task away from done or rejected.
LEMMA ArchivedStep ==
    ASSUME TablesTypeOK, ArchivedIsOver, TableStep
    PROVE  ArchivedIsOver'
<1> USE DEF TablesTypeOK, ArchivedIsOver, InFlight, gateVars
<1>1. ASSUME NEW p \in Pods, RegisterPod(p) PROVE ArchivedIsOver'
  BY <1>1 DEF RegisterPod
<1>2. ASSUME NEW p \in Pods, NEW t \in Tasks, ClaimNextTask(p, t)
      PROVE  ArchivedIsOver'
  BY <1>2 DEF ClaimNextTask, NextInQueue
<1>3. ASSUME NEW t \in Tasks, MarkRunning(t) PROVE ArchivedIsOver'
  BY <1>3 DEF MarkRunning
<1>4. ASSUME NEW t \in Tasks, NEW a, Deliver(t, a) PROVE ArchivedIsOver'
  BY <1>4 DEF Deliver
<1>5. ASSUME NEW t \in Tasks, CreateTask(t) \/ EditTask(t)
      PROVE  ArchivedIsOver'
  BY <1>5 DEF CreateTask, EditTask
<1>6. ASSUME NEW t \in Tasks,
             ApproveBefore(t) \/ RejectBefore(t) \/ ApproveAfter(t)
      PROVE  ArchivedIsOver'
  BY <1>6 DEF ApproveBefore, RejectBefore, ApproveAfter
<1>7. ASSUME NEW t \in Tasks, RejectAfter(t) \/ RequeueTask(t)
      PROVE  ArchivedIsOver'
  BY <1>7 DEF RejectAfter, RequeueTask
<1>8. CASE SessionReset \/ UNCHANGED tables
  BY <1>8 DEF SessionReset, tables
<1>9. \A j \in Jobs : j.task \in Tasks
  BY DEF Jobs
<1> QED
  BY <1>1, <1>2, <1>3, <1>4, <1>5, <1>6, <1>7, <1>8, <1>9
  DEF TableStep, HandlerStep, UserStep, SubmitResult, ReportFailure

\* An approval adds a released task and no artifact; a delivery trades one for
\* the other; requeues, claims and starts keep the task released.
LEMMA OneArtifactStep ==
    ASSUME TablesTypeOK, OneArtifactPerApproval, TableStep
    PROVE  OneArtifactPerApproval'
<1> USE DEF TablesTypeOK, OneArtifactPerApproval, InFlight, workVars, gateVars
<1>1. ASSUME NEW p \in Pods, RegisterPod(p) PROVE OneArtifactPerApproval'
  BY <1>1 DEF RegisterPod
<1>2. ASSUME NEW p \in Pods, NEW t \in Tasks, ClaimNextTask(p, t)
      PROVE  OneArtifactPerApproval'
  BY <1>2 DEF ClaimNextTask, NextInQueue
<1>3. ASSUME NEW t \in Tasks, MarkRunning(t) PROVE OneArtifactPerApproval'
  BY <1>3 DEF MarkRunning
<1>4. ASSUME NEW t \in Tasks, NEW a \in Artifacts, Deliver(t, a)
      PROVE  OneArtifactPerApproval'
  <2>1. \A u \in Tasks : Len(artifacts[u]) \in Nat
    OBVIOUS
  <2>2. Len(artifacts'[t]) = Len(artifacts[t]) + 1 /\ status'[t] = "after_gate"
    BY <1>4 DEF Deliver
  <2>3. \A u \in Tasks : u # t =>
          artifacts'[u] = artifacts[u] /\ status'[u] = status[u]
    BY <1>4 DEF Deliver
  <2>4. status[t] \in InFlight /\ UNCHANGED approvals
    BY <1>4 DEF Deliver
  <2> SUFFICES ASSUME NEW u \in Tasks
               PROVE  approvals[u] = Len(artifacts'[u])
                        + (IF status'[u] \in InFlight \union {"ready"}
                           THEN 1 ELSE 0)
    BY <2>4
  <2>5. CASE u = t
    <3>1. approvals[t] = Len(artifacts[t]) + 1
      BY <2>4
    <3>2. status'[t] \notin InFlight \union {"ready"}
      BY <2>2
    <3>3. approvals[t] = Len(artifacts'[t]) + 0
      BY <3>1, <2>1, <2>2
    <3> QED BY <2>5, <3>2, <3>3
  <2>6. CASE u # t
    BY <2>3, <2>6
  <2> QED BY <2>5, <2>6
<1>5. ASSUME NEW t \in Tasks, CreateTask(t) \/ EditTask(t)
      PROVE  OneArtifactPerApproval'
  BY <1>5 DEF CreateTask, EditTask
<1>6. ASSUME NEW t \in Tasks, ApproveBefore(t) PROVE OneArtifactPerApproval'
  <2>1. \A u \in Tasks : Len(artifacts[u]) \in Nat
    OBVIOUS
  <2> QED BY <1>6, <2>1 DEF ApproveBefore
<1>7. ASSUME NEW t \in Tasks,
             RejectBefore(t) \/ ApproveAfter(t) \/ RejectAfter(t)
      PROVE  OneArtifactPerApproval'
  BY <1>7 DEF RejectBefore, ApproveAfter, RejectAfter
<1>8. ASSUME NEW t \in Tasks, RequeueTask(t) PROVE OneArtifactPerApproval'
  BY <1>8 DEF RequeueTask
<1>9. CASE SessionReset \/ UNCHANGED tables
  BY <1>9 DEF SessionReset, tables
<1>10. \A p \in Pods, j \in Jobs :
         /\ j.task \in Tasks
         /\ Artifact("result", p, j) \in Artifacts
         /\ Artifact("failure", p, j) \in Artifacts
  BY DEF Jobs, Artifact, Artifacts
<1> QED
  BY <1>1, <1>2, <1>3, <1>4, <1>5, <1>6, <1>7, <1>8, <1>9, <1>10
  DEF TableStep, HandlerStep, UserStep, SubmitResult, ReportFailure

\* The rows that matter name a task in flight, so only the steps that take a
\* task out of flight can break the property, and each frees its owner's row.
LEMMA WorkingRowStep ==
    ASSUME TablesTypeOK, WorkingRowOwnsTask, OwnerIffAttempted, TableStep
    PROVE  WorkingRowOwnsTask'
<1> USE DEF TablesTypeOK, WorkingRowOwnsTask, InFlight
<1>1. ASSUME NEW p \in Pods, RegisterPod(p) PROVE WorkingRowOwnsTask'
  BY <1>1 DEF RegisterPod
<1>2. ASSUME NEW p \in Pods, NEW t \in Tasks, ClaimNextTask(p, t)
      PROVE  WorkingRowOwnsTask'
  <2>1. \A q \in Pods : podRow[q].status = "working" => podRow[q].current # t
    BY <1>2 DEF ClaimNextTask, NextInQueue
  <2> QED BY <1>2, <2>1 DEF ClaimNextTask, UpdatePodRow
<1>3. ASSUME NEW t \in Tasks, MarkRunning(t) PROVE WorkingRowOwnsTask'
  BY <1>3 DEF MarkRunning
<1>4. ASSUME NEW t \in Tasks, NEW a, Deliver(t, a) PROVE WorkingRowOwnsTask'
  BY <1>4 DEF Deliver, UpdatePodRow
<1>5. ASSUME NEW t \in Tasks, CreateTask(t) \/ EditTask(t)
      PROVE  WorkingRowOwnsTask'
  BY <1>5 DEF CreateTask, EditTask
<1>6. ASSUME NEW t \in Tasks,
             ApproveBefore(t) \/ RejectBefore(t) \/ ApproveAfter(t)
      PROVE  WorkingRowOwnsTask'
  <2>1. UNCHANGED <<podRow, owner>>
    BY <1>6 DEF ApproveBefore, RejectBefore, ApproveAfter
  <2>2. \A u \in Tasks : status[u] \in InFlight => status'[u] = status[u]
    BY <1>6 DEF ApproveBefore, RejectBefore, ApproveAfter
  <2> QED BY <2>1, <2>2
<1>7. ASSUME NEW t \in Tasks, RejectAfter(t) PROVE WorkingRowOwnsTask'
  BY <1>7 DEF RejectAfter
<1>8. ASSUME NEW t \in Tasks, RequeueTask(t) PROVE WorkingRowOwnsTask'
  <2>1. owner[t] \in Pods
    BY <1>8 DEF RequeueTask, OwnerIffAttempted, Attempted
  <2>2. \A q \in Pods : podRow'[q].status = "working" =>
          podRow'[q] = podRow[q] /\ podRow[q].current # t
    BY <1>8, <2>1 DEF RequeueTask, UpdatePodRow
  <2> QED BY <1>8, <2>2 DEF RequeueTask
<1>9. CASE SessionReset \/ UNCHANGED tables
  BY <1>9 DEF SessionReset, tables
<1>10. \A j \in Jobs : j.task \in Tasks
  BY DEF Jobs
<1> QED
  BY <1>1, <1>2, <1>3, <1>4, <1>5, <1>6, <1>7, <1>8, <1>9, <1>10
  DEF TableStep, HandlerStep, UserStep, SubmitResult, ReportFailure

-----------------------------------------------------------------------------
(* The invariants on attempts. *)

\* A pod comes to hold a task only by claiming it.
LEMMA HoldsStep ==
    ASSUME TypeOK, [Next]_vars, NEW p \in Pods, NEW t \in Tasks, Holds(p, t)'
    PROVE  \/ Holds(p, t) /\ job'[p] = job[p]
           \/ ClaimNextTask(p, t) /\ job'[p] = JobOf(t)
<1> USE DEF TypeOK, PodsTypeOK, Holds, PodAt
<1>1. CASE UserStep
  <2>1. UNCHANGED podVars
    BY <1>1 DEF UserStep, CreateTask, EditTask, ApproveBefore, RejectBefore,
                ApproveAfter, RejectAfter, RequeueTask, SessionReset
  <2> QED BY <2>1 DEF podVars
<1>2. ASSUME NEW q \in Pods, PodStep(q)
      PROVE  \/ Holds(p, t) /\ job'[p] = job[p]
             \/ ClaimNextTask(p, t) /\ job'[p] = JobOf(t)
  <2>1. CASE PodRegisters(q) \/ PodSubmits(q) \/ PodReportsFailure(q) \/ PodCallFails(q)
    BY <2>1 DEF PodRegisters, PodSubmits, PodReportsFailure, PodCallFails,
                Served, AfterError, Executing
  <2>2. CASE PodClaims(q)
    <3>1. PICK u \in Tasks : ClaimNextTask(q, u) /\ Served(q, "starting", JobOf(u))
      BY <2>2 DEF PodClaims
    <3>2. JobOf(u).task = u
      BY DEF JobOf
    <3> QED BY <3>1, <3>2 DEF Served, AfterError, Executing
  <2>3. CASE PodStarts(q) \/ PodCallsModel(q)
    BY <2>3 DEF PodStarts, PodCallsModel, Served, AfterError, Executing
  <2> QED BY <1>2, <2>1, <2>2, <2>3 DEF PodStep
<1>3. ASSUME NEW q \in Pods, PodBoots(q) \/ PodExits(q)
      PROVE  Holds(p, t) /\ job'[p] = job[p]
  BY <1>3 DEF PodBoots, PodExits, Executing
<1>4. ASSUME NEW r \in late, LateService(r)
      PROVE  Holds(p, t) /\ job'[p] = job[p]
  BY <1>4 DEF LateService
<1>5. CASE UNCHANGED vars
  BY <1>5 DEF vars, podVars
<1> QED
  BY <1>1, <1>2, <1>3, <1>4, <1>5 DEF Next

\* retry_count never decreases, and grows whenever an attempt ends without
\* the task being done.
LEMMA RetriesStep ==
    ASSUME TablesTypeOK, TableStep, NEW t \in Tasks
    PROVE  /\ retries'[t] \in Nat /\ retries'[t] >= retries[t]
           /\ Attempted(t) /\ ~Attempted(t)' => retries'[t] > retries[t]
<1>0. retries[t] \in Nat
  BY BoundAssumption DEF TablesTypeOK
<1> USE DEF Attempted, InFlight
<1>1. CASE HandlerStep
  <2>1. UNCHANGED retries
    BY <1>1 DEF HandlerStep, RegisterPod, ClaimNextTask, MarkRunning,
                SubmitResult, ReportFailure, Deliver
  <2>2. ASSUME NEW u \in Tasks, MarkRunning(u) \/ \E a : Deliver(u, a)
        PROVE  Attempted(t) => Attempted(t)'
    BY <2>2 DEF MarkRunning, Deliver, TablesTypeOK
  <2>3. ASSUME NEW q \in Pods, NEW u \in Tasks,
               RegisterPod(q) \/ ClaimNextTask(q, u)
        PROVE  Attempted(t) => Attempted(t)'
    BY <2>3 DEF RegisterPod, ClaimNextTask, TablesTypeOK
  <2>4. \A j \in Jobs : j.task \in Tasks
    BY DEF Jobs
  <2>5. Attempted(t) => Attempted(t)'
    BY <1>1, <2>2, <2>3, <2>4 DEF HandlerStep, SubmitResult, ReportFailure
  <2> HIDE DEF Attempted
  <2> QED BY <1>0, <2>1, <2>5
<1>2. ASSUME NEW u \in Tasks, CreateTask(u) \/ EditTask(u) \/ ApproveBefore(u)
      PROVE  UNCHANGED retries /\ (Attempted(t) => Attempted(t)')
  BY <1>2 DEF CreateTask, EditTask, ApproveBefore, TablesTypeOK
<1>3. ASSUME NEW u \in Tasks, RejectBefore(u) \/ ApproveAfter(u)
      PROVE  UNCHANGED retries /\ (Attempted(t) => Attempted(t)')
  BY <1>3 DEF RejectBefore, ApproveAfter, TablesTypeOK
<1>4. ASSUME NEW u \in Tasks, RejectAfter(u) \/ RequeueTask(u)
      PROVE  /\ retries' = [retries EXCEPT ![u] = @ + 1]
             /\ t # u => status'[t] = status[t]
  BY <1>4 DEF RejectAfter, RequeueTask, TablesTypeOK
<1>5. CASE SessionReset \/ UNCHANGED tables
  <2>1. UNCHANGED retries /\ (Attempted(t) => Attempted(t)')
    BY <1>5 DEF SessionReset, tables
  <2> QED BY <1>0, <2>1
<1>6. ASSUME NEW u \in Tasks, RejectAfter(u) \/ RequeueTask(u)
      PROVE  /\ retries'[t] \in Nat /\ retries'[t] >= retries[t]
             /\ Attempted(t) /\ ~Attempted(t)' => retries'[t] > retries[t]
  <2>1. CASE t = u
    <3>1. retries'[t] = retries[t] + 1
      BY <1>4, <1>6, <2>1 DEF TablesTypeOK
    <3> QED BY <1>0, <3>1
  <2>2. CASE t # u
    <3>1. retries'[t] = retries[t] /\ status'[t] = status[t]
      BY <1>4, <1>6, <2>2 DEF TablesTypeOK
    <3> QED BY <1>0, <3>1
  <2> QED BY <2>1, <2>2
<1>7. ASSUME UNCHANGED retries, Attempted(t) => Attempted(t)'
      PROVE  /\ retries'[t] \in Nat /\ retries'[t] >= retries[t]
             /\ Attempted(t) /\ ~Attempted(t)' => retries'[t] > retries[t]
  BY <1>0, <1>7
<1> HIDE DEF Attempted
<1> QED
  BY <1>1, <1>2, <1>3, <1>5, <1>6, <1>7 DEF TableStep, UserStep

\* The editable columns change only before the task is released.
LEMMA SpecStep ==
    ASSUME TablesTypeOK, TableStep, NEW t \in Tasks, Attempted(t)
    PROVE  spec'[t] = spec[t]
<1> USE DEF Attempted, InFlight, gateVars
<1>1. CASE HandlerStep
  BY <1>1 DEF HandlerStep, RegisterPod, ClaimNextTask, MarkRunning,
              SubmitResult, ReportFailure, Deliver
<1>2. ASSUME NEW u \in Tasks, CreateTask(u) \/ EditTask(u)
      PROVE  spec'[t] = spec[t]
  BY <1>2 DEF CreateTask, EditTask, TablesTypeOK
<1>3. ASSUME NEW u \in Tasks, \/ ApproveBefore(u) \/ RejectBefore(u)
                              \/ ApproveAfter(u) \/ RejectAfter(u)
                              \/ RequeueTask(u)
      PROVE  UNCHANGED spec
  BY <1>3 DEF ApproveBefore, RejectBefore, ApproveAfter, RejectAfter, RequeueTask
<1>4. CASE SessionReset \/ UNCHANGED tables
  BY <1>4 DEF SessionReset, tables
<1> QED
  BY <1>1, <1>2, <1>3, <1>4 DEF TableStep, UserStep

\* The attempt a claim starts is dated with the retry_count of the row.
LEMMA ClaimDates ==
    ASSUME TypeOK, NEW p \in Pods, NEW t \in Tasks, ClaimNextTask(p, t)
    PROVE  /\ ~Attempted(t) /\ Attempted(t)'
           /\ owner'[t] = p
           /\ UNCHANGED <<retries, spec>>
BY DEF TypeOK, TablesTypeOK, ClaimNextTask, NextInQueue, Attempted, InFlight,
       gateVars

\* Every step keeps the attempts that run no newer than their rows.
LEMMA DatedStep ==
    ASSUME TypeOK, AttemptsDated, [Next]_vars
    PROVE  AttemptsDated'
<1> SUFFICES ASSUME NEW p \in Pods, NEW t \in Tasks, Holds(p, t)'
             PROVE  IF Attempted(t)' THEN job'[p].retry <= retries'[t]
                                     ELSE job'[p].retry < retries'[t]
  BY DEF AttemptsDated
<1>1. retries[t] \in Nat
  BY BoundAssumption DEF TypeOK, TablesTypeOK
<1>2. CASE Holds(p, t) /\ job'[p] = job[p]
  <2>1. job[p].retry \in Nat
    BY <1>2, BoundAssumption DEF Holds, TypeOK, PodsTypeOK, Jobs
  <2>2. /\ retries'[t] \in Nat /\ retries'[t] >= retries[t]
        /\ Attempted(t) /\ ~Attempted(t)' => retries'[t] > retries[t]
    BY NextTables, RetriesStep DEF TypeOK
  <2>3. IF Attempted(t) THEN job[p].retry <= retries[t]
                        ELSE job[p].retry < retries[t]
    BY <1>2 DEF AttemptsDated
  <2> QED BY <1>1, <1>2, <2>1, <2>2, <2>3
<1>3. CASE ClaimNextTask(p, t) /\ job'[p] = JobOf(t)
  <2>1. job'[p].retry = retries[t]
    BY <1>3 DEF JobOf
  <2> QED BY <1>1, <1>3, <2>1, ClaimDates
<1> QED BY <1>2, <1>3, HoldsStep

\* Two pods that hold the same task claimed it at different times, and every
\* earlier attempt was dated before the later claim.
LEMMA NoSharedStep ==
    ASSUME TypeOK, AttemptsDated, NoSharedAttempt, [Next]_vars
    PROVE  NoSharedAttempt'
<1>1. ASSUME NEW p \in Pods, NEW q \in Pods, NEW t \in Tasks, p # q,
             ClaimNextTask(p, t), job'[p] = JobOf(t),
             Holds(q, t), job'[q] = job[q]
      PROVE  job'[p].retry # job'[q].retry
  <2>1. job[q].retry < retries[t]
    BY <1>1, ClaimDates DEF AttemptsDated
  <2>2. job'[p].retry = retries[t]
    BY <1>1 DEF JobOf
  <2>3. retries[t] \in Nat /\ job[q].retry \in Nat
    BY <1>1, BoundAssumption DEF Holds, TypeOK, TablesTypeOK, PodsTypeOK, Jobs
  <2> QED BY <1>1, <2>1, <2>2, <2>3
<1> SUFFICES ASSUME NEW p \in Pods, NEW q \in Pods, NEW t \in Tasks, p # q,
                    Holds(p, t)', Holds(q, t)'
             PROVE  job'[p].retry # job'[q].retry
  BY DEF NoSharedAttempt
<1>2. CASE /\ Holds(p, t) /\ job'[p] = job[p]
           /\ Holds(q, t) /\ job'[q] = job[q]
  BY <1>2 DEF NoSharedAttempt
<1>3. ~(ClaimNextTask(p, t) /\ ClaimNextTask(q, t))
  BY ClaimDates
<1> QED BY <1>1, <1>2, <1>3, HoldsStep

\* Every step keeps the content of the current attempt as approved.
LEMMA ApprovedSpecStep ==
    ASSUME TypeOK, AttemptsDated, ApprovedSpecRuns, [Next]_vars
    PROVE  ApprovedSpecRuns'
<1> SUFFICES ASSUME NEW p \in Pods, NEW t \in Tasks, Holds(p, t)',
                    job'[p].retry = retries'[t]
             PROVE  job'[p].spec = spec'[t]
  BY DEF ApprovedSpecRuns
<1>1. CASE Holds(p, t) /\ job'[p] = job[p]
  <2>1. retries'[t] \in Nat /\ retries'[t] >= retries[t]
    BY NextTables, RetriesStep DEF TypeOK
  <2>2. retries[t] \in Nat /\ job[p].retry \in Nat
    BY <1>1, BoundAssumption DEF Holds, TypeOK, TablesTypeOK, PodsTypeOK, Jobs
  <2>3. IF Attempted(t) THEN job[p].retry <= retries[t]
                        ELSE job[p].retry < retries[t]
    BY <1>1 DEF AttemptsDated
  <2>4. Attempted(t) /\ job[p].retry = retries[t]
    BY <1>1, <2>1, <2>2, <2>3
  <2>5. spec'[t] = spec[t]
    BY <2>4, NextTables, SpecStep DEF TypeOK
  <2> QED BY <1>1, <2>4, <2>5 DEF ApprovedSpecRuns
<1>2. CASE ClaimNextTask(p, t) /\ job'[p] = JobOf(t)
  BY <1>2, ClaimDates DEF JobOf
<1> QED BY <1>1, <1>2, HoldsStep

-----------------------------------------------------------------------------
(* The theorems. *)

IInv == /\ TypeOK
        /\ OwnerIffAttempted
        /\ ArchivedIsOver
        /\ OneArtifactPerApproval
        /\ WorkingRowOwnsTask
        /\ AttemptsDated
        /\ NoSharedAttempt
        /\ ApprovedSpecRuns

\* The initial states satisfy the inductive invariant.
LEMMA InitIInv == ASSUME Init PROVE IInv
<1>1. OwnerIffAttempted
  BY NullAssumption DEF Init, OwnerIffAttempted, Attempted, InFlight
<1>2. OneArtifactPerApproval /\ ArchivedIsOver
  BY DEF Init, OneArtifactPerApproval, ArchivedIsOver, InFlight
<1>3. WorkingRowOwnsTask
  BY DEF Init, WorkingRowOwnsTask
<1>4. \A p \in Pods, t \in Tasks : ~Holds(p, t)
  BY DEF Init, Holds, Executing
<1> QED
  BY <1>1, <1>2, <1>3, <1>4, InitType
  DEF IInv, AttemptsDated, NoSharedAttempt, ApprovedSpecRuns

\* Every step preserves the inductive invariant.
LEMMA NextIInv == ASSUME IInv, [Next]_vars PROVE IInv'
<1> USE DEF IInv
<1>1. TableStep
  BY NextTables
<1>2. TypeOK'
  BY <1>1, TablesTypeStep, PodsTypeStep DEF TypeOK
<1>3. /\ OwnerIffAttempted' /\ ArchivedIsOver'
      /\ OneArtifactPerApproval' /\ WorkingRowOwnsTask'
  BY <1>1, OwnerStep, ArchivedStep, OneArtifactStep, WorkingRowStep DEF TypeOK
<1>4. AttemptsDated' /\ NoSharedAttempt' /\ ApprovedSpecRuns'
  BY DatedStep, NoSharedStep, ApprovedSpecStep
<1> QED BY <1>2, <1>3, <1>4

\* The inductive invariant holds in every reachable state.
LEMMA Invariance == Spec => []IInv
<1>1. Init => IInv
  BY InitIInv
<1>2. IInv /\ [Next]_vars => IInv'
  BY NextIInv
<1> QED BY <1>1, <1>2, PTL DEF Spec

\* Every variable keeps its type (services.py, worker.py, schema.sql).
THEOREM TypeCorrect == Spec => []TypeOK
<1>1. IInv => TypeOK
  BY DEF IInv
<1> QED BY <1>1, Invariance, PTL

\* No attempt is executed by two pods, whatever requeues, crashes, lost replies
\* and late claims occur.
THEOREM AttemptsAreExclusive == Spec => []NoSharedAttempt
<1>1. IInv => NoSharedAttempt
  BY DEF IInv
<1> QED BY <1>1, Invariance, PTL

\* The content a pod executes for the current attempt is the approved one.
THEOREM ApprovedSpecIsExecuted == Spec => []ApprovedSpecRuns
<1>1. IInv => ApprovedSpecRuns
  BY DEF IInv
<1> QED BY <1>1, Invariance, PTL

\* Each before-gate approval is answered by one artifact, never by two.
THEOREM ApprovalsAreAnsweredOnce == Spec => []OneArtifactPerApproval
<1>1. IInv => OneArtifactPerApproval
  BY DEF IInv
<1> QED BY <1>1, Invariance, PTL

\* A working pods row names a task in flight that this pod owns.
THEOREM WorkingRowsAreOwners == Spec => []WorkingRowOwnsTask
<1>1. IInv => WorkingRowOwnsTask
  BY DEF IInv
<1> QED BY <1>1, Invariance, PTL

\* No pod holds an attempt newer than the row; once the task is back in the
\* queue or at the before gate, every attempt still running is older.
THEOREM AttemptsAreDated == Spec => []AttemptsDated
<1>1. IInv => AttemptsDated
  BY DEF IInv
<1> QED BY <1>1, Invariance, PTL

\* session_reset hides only tasks whose life is over, and it stays over.
THEOREM ArchivedTasksAreOver == Spec => []ArchivedIsOver
<1>1. IInv => ArchivedIsOver
  BY DEF IInv
<1> QED BY <1>1, Invariance, PTL

\* tasks.pod_id is set exactly while an attempt is in flight or judged.
THEOREM OwnersHaveAttempts == Spec => []OwnerIffAttempted
<1>1. IInv => OwnerIffAttempted
  BY DEF IInv
<1> QED BY <1>1, Invariance, PTL

-----------------------------------------------------------------------------
(* The lifecycle implements the contract of the two gates. *)

\* The empty tasks table is an initial state of the contract.
LEMMA GateInit == ASSUME Init PROVE Gates!Init
<1>1. [t \in Tasks |-> GateOf(status[t])] = [t \in Tasks |-> "absent"]
  BY DEF Init, GateOf, InFlight
<1>2. [t \in Tasks |-> Len(artifacts[t])] = [t \in Tasks |-> 0]
  <2>1. \A t \in Tasks : artifacts[t] = << >>
    BY DEF Init
  <2> QED BY <2>1
<1> QED BY <1>1, <1>2 DEF Init, Gates!Init

\* A step either moves one task along the contract or is invisible to it.
LEMMA GateStep ==
    ASSUME TablesTypeOK, TableStep
    PROVE  [Gates!Next]_(Gates!vars)
<1> USE DEF TablesTypeOK, Gates!Next, Gates!Move, GateOf, InFlight, workVars
<1>1. ASSUME NEW p \in Pods, RegisterPod(p) PROVE UNCHANGED Gates!vars
  BY <1>1 DEF RegisterPod, Gates!vars, gateVars
<1>2. ASSUME NEW p \in Pods, NEW t \in Tasks, ClaimNextTask(p, t)
      PROVE  UNCHANGED Gates!vars
  BY <1>2 DEF ClaimNextTask, NextInQueue, Gates!vars, gateVars
<1>3. ASSUME NEW t \in Tasks, MarkRunning(t) PROVE UNCHANGED Gates!vars
  BY <1>3 DEF MarkRunning, Gates!vars, gateVars
<1>4. ASSUME NEW t \in Tasks, NEW a \in Artifacts, Deliver(t, a)
      PROVE  Gates!Deliver(t)
  <2>1. Gates!Move(t, "released", "after_gate")
    BY <1>4 DEF Deliver
  <2>2. /\ artifacts' = [artifacts EXCEPT ![t] = Append(@, a)]
        /\ artifacts[t] \in Seq(Artifacts)
        /\ UNCHANGED approvals
    BY <1>4 DEF Deliver, gateVars
  <2>3. Len(Append(artifacts[t], a)) = Len(artifacts[t]) + 1
    BY <2>2
  <2>4. [u \in Tasks |-> Len(artifacts'[u])] =
          [[u \in Tasks |-> Len(artifacts[u])] EXCEPT ![t] = @ + 1]
    BY <2>2, <2>3
  <2> QED BY <2>1, <2>2, <2>4 DEF Gates!Deliver
<1>5. ASSUME NEW t \in Tasks, CreateTask(t) PROVE Gates!Propose(t)
  BY <1>5 DEF CreateTask, Gates!Propose
<1>6. ASSUME NEW t \in Tasks, EditTask(t) PROVE UNCHANGED Gates!vars
  BY <1>6 DEF EditTask, Gates!vars
<1>7. ASSUME NEW t \in Tasks, ApproveBefore(t) PROVE Gates!Release(t)
  BY <1>7 DEF ApproveBefore, Gates!Release
<1>8. ASSUME NEW t \in Tasks, RejectBefore(t) PROVE Gates!Refuse(t)
  BY <1>8 DEF RejectBefore, Gates!Refuse, gateVars
<1>9. ASSUME NEW t \in Tasks, ApproveAfter(t) PROVE Gates!Accept(t)
  BY <1>9 DEF ApproveAfter, Gates!Accept, gateVars
<1>10. ASSUME NEW t \in Tasks, RejectAfter(t) PROVE Gates!Return(t)
  BY <1>10 DEF RejectAfter, Gates!Return, gateVars
<1>11. ASSUME NEW t \in Tasks, RequeueTask(t) PROVE UNCHANGED Gates!vars
  BY <1>11 DEF RequeueTask, Gates!vars, gateVars
<1>12. CASE SessionReset \/ UNCHANGED tables
  BY <1>12 DEF SessionReset, tables, Gates!vars, gateVars
<1>13. \A p \in Pods, j \in Jobs :
         /\ j.task \in Tasks
         /\ Artifact("result", p, j) \in Artifacts
         /\ Artifact("failure", p, j) \in Artifacts
  BY DEF Jobs, Artifact, Artifacts
<1> HIDE DEF TablesTypeOK, Gates!Move, GateOf, InFlight, workVars
<1> QED
  BY <1>1, <1>2, <1>3, <1>4, <1>5, <1>6, <1>7, <1>8, <1>9, <1>10, <1>11,
     <1>12, <1>13
  DEF TableStep, HandlerStep, UserStep, SubmitResult, ReportFailure

\* No task is done without the user's approval at both gates, for any number
\* of tasks and pods and any faults: the lifecycle refines GateContract.
THEOREM LifecycleRefinesGateContract == Spec => GatesHold
<1>1. Init => Gates!Init
  BY GateInit
<1>2. IInv /\ [Next]_vars => [Gates!Next]_(Gates!vars)
  BY NextTables, GateStep DEF IInv, TypeOK
<1> QED BY <1>1, <1>2, Invariance, PTL DEF Spec, GatesHold, Gates!Spec
-----------------------------------------------------------------------------
(* The queue. *)

\* What TaskQueue sees of the tables.
Queued == {t \in Tasks : status[t] = "ready"}
Ahead  == {pair \in Tasks \X Tasks : Precedes(pair[1], pair[2])}

\* A step that leaves status, spec and order alone leaves the queue alone.
LEMMA SameQueue ==
    ASSUME UNCHANGED <<status, spec, older, owner>>
    PROVE  UNCHANGED Queue!vars
BY DEF Queue!vars, Precedes

\* The place of a task depends on its own row and on the row it is compared
\* with: no step but those on a task outside the queue touches either.
LEMMA PlacesStay ==
    ASSUME TablesTypeOK, NEW t \in Tasks, t \notin Queued,
           NEW s, spec' = [spec EXCEPT ![t] = s],
           NEW S, older' = [older EXCEPT ![t] = S]
    PROVE  \A u, v \in Queued : <<u, v>> \in Ahead' <=> <<u, v>> \in Ahead
<1>1. ASSUME NEW u \in Queued
      PROVE  u \in Tasks /\ spec'[u] = spec[u] /\ older'[u] = older[u]
  BY DEF Queued, TablesTypeOK
<1> QED BY <1>1 DEF Ahead, Precedes

\* Each handler and each command is a step of the queue, or invisible to it.
LEMMA QueueStep ==
    ASSUME TablesTypeOK, OwnerIffAttempted, TableStep
    PROVE  [Queue!Next]_(Queue!vars)
<1> USE DEF TablesTypeOK
<1>1. ASSUME NEW p \in Pods, RegisterPod(p) PROVE UNCHANGED Queue!vars
  BY <1>1, SameQueue DEF RegisterPod, gateVars
<1>2. ASSUME NEW p \in Pods, NEW t \in Tasks, ClaimNextTask(p, t)
      PROVE  Queue!Claim(p, t)
  <2>1. t \in Queued /\ Queued' = Queued \ {t}
    BY <1>2 DEF ClaimNextTask, NextInQueue, Queued
  <2>2. ASSUME NEW u \in Queued PROVE <<u, t>> \notin Ahead
    <3>1. u \in Tasks /\ Priority[spec[u]] \in Nat /\ Priority[spec[t]] \in Nat
      BY SpecsAssumption DEF Queued
    <3>2. ~Precedes(u, t)
      BY <1>2, <3>1 DEF ClaimNextTask, NextInQueue, Queued, Precedes
    <3> QED BY <3>2 DEF Ahead
  <2>3. Ahead' = Ahead /\ owner' = [owner EXCEPT ![t] = p]
    BY <1>2 DEF ClaimNextTask, gateVars, Ahead, Precedes
  <2> QED BY <2>1, <2>2, <2>3 DEF Queue!Claim, Queued, Ahead
<1>3. ASSUME NEW t \in Tasks, MarkRunning(t) PROVE UNCHANGED Queue!vars
  <2>1. Queued' = Queued
    BY <1>3 DEF MarkRunning, Queued
  <2> QED
    BY <1>3, <2>1 DEF MarkRunning, gateVars, Queued, Queue!vars, Precedes
<1>4. ASSUME NEW t \in Tasks, NEW a \in Artifacts, Deliver(t, a)
      PROVE  UNCHANGED Queue!vars
  <2>1. Queued' = Queued
    BY <1>4 DEF Deliver, Queued, InFlight
  <2> QED
    BY <1>4, <2>1 DEF Deliver, gateVars, Queued, Queue!vars, Precedes
<1>5. ASSUME NEW t \in Tasks, CreateTask(t) \/ EditTask(t) PROVE Queue!Reorder
  <2>1. t \notin Queued /\ Queued' = Queued /\ owner' = owner
    BY <1>5 DEF CreateTask, EditTask, Queued
  <2>2. PICK s : spec' = [spec EXCEPT ![t] = s]
    BY <1>5 DEF CreateTask, EditTask
  <2>3. PICK S : older' = [older EXCEPT ![t] = S]
    BY <1>5 DEF CreateTask, EditTask
  <2>4. \A u, v \in Queued : <<u, v>> \in Ahead' <=> <<u, v>> \in Ahead
    BY <2>1, <2>2, <2>3, PlacesStay
  <2>5. Ahead' \in SUBSET (Tasks \X Tasks)
    BY DEF Ahead
  <2> QED
    BY <2>1, <2>4, <2>5 DEF Queue!Reorder, Queue!Orders, Queued, Ahead
<1>6. ASSUME NEW t \in Tasks, ApproveBefore(t) \/ RequeueTask(t)
      PROVE  Queue!Enqueue(t)
  <2>1. t \notin Queued /\ Queued' = Queued \union {t}
    BY <1>6 DEF ApproveBefore, RequeueTask, Queued, InFlight
  <2>2. owner' = [owner EXCEPT ![t] = NoPod]
    BY <1>6 DEF ApproveBefore, RequeueTask, OwnerIffAttempted, Attempted,
                InFlight
  <2>3. Ahead' = Ahead
    BY <1>6 DEF ApproveBefore, RequeueTask, gateVars, Ahead, Precedes
  <2> QED BY <2>1, <2>2, <2>3 DEF Queue!Enqueue, Queued, Ahead
<1>7. ASSUME NEW t \in Tasks, RejectBefore(t) \/ ApproveAfter(t)
      PROVE  UNCHANGED Queue!vars
  <2>1. Queued' = Queued
    BY <1>7 DEF RejectBefore, ApproveAfter, Queued
  <2> QED
    BY <1>7, <2>1 DEF RejectBefore, ApproveAfter, gateVars, Queued,
                      Queue!vars, Precedes
<1>8. ASSUME NEW t \in Tasks, RejectAfter(t) PROVE Queue!GiveBack(t)
  <2>1. t \notin Queued /\ Queued' = Queued
    BY <1>8 DEF RejectAfter, Queued
  <2>2. Ahead' = Ahead /\ owner' = [owner EXCEPT ![t] = NoPod]
    BY <1>8 DEF RejectAfter, gateVars, Ahead, Precedes
  <2> QED BY <2>1, <2>2 DEF Queue!GiveBack, Queued, Ahead
<1>9. CASE SessionReset \/ UNCHANGED tables
  BY <1>9, SameQueue DEF SessionReset, tables
<1>10. \A p \in Pods, j \in Jobs :
         /\ j.task \in Tasks
         /\ Artifact("result", p, j) \in Artifacts
         /\ Artifact("failure", p, j) \in Artifacts
  BY DEF Jobs, Artifact, Artifacts
<1> HIDE DEF TablesTypeOK
<1> QED
  BY <1>1, <1>2, <1>3, <1>4, <1>5, <1>6, <1>7, <1>8, <1>9, <1>10
  DEF TableStep, HandlerStep, UserStep, SubmitResult, ReportFailure, Queue!Next

\* A task leaves the queue only to the pod that claims it in its turn; what
\* users, stale pods and late requests do while it waits changes neither that
\* it has no owner nor its place: the lifecycle refines TaskQueue.
THEOREM LifecycleServesTheQueue == Spec => QueueIsServed
<1>1. Init => Queue!Init
  <2>1. ASSUME Init PROVE {t \in Tasks : status[t] = "ready"} \in SUBSET Tasks
    OBVIOUS
  <2> QED BY <2>1 DEF Init, Queue!Init, Queue!Orders
<1>2. IInv /\ [Next]_vars => [Queue!Next]_(Queue!vars)
  BY NextTables, QueueStep DEF IInv, TypeOK
<1> QED BY <1>1, <1>2, Invariance, PTL DEF Spec, QueueIsServed, Queue!Spec
=============================================================================
