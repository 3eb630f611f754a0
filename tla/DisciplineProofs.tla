------------------------- MODULE DisciplineProofs -------------------------
(***************************************************************************)
(* What the disciplined use of requeue buys: if it is used only for tasks  *)
(* whose pod is gone ("Use when a pod was killed mid-task", services.py),  *)
(* and no request is served after its client gave up, then a task has one  *)
(* executor, its owner, the user judges the current attempt, and the       *)
(* ledger names who did the work.  That every result is charged once needs *)
(* none of this.                                                           *)
(***************************************************************************)
EXTENDS LifecycleProofs, FiniteSetTheorems

Discipline == CarefulUser = TRUE /\ MaxLate = 0

\* With MaxLate = 0 no request outlives its client.
LEMMA NothingLate ==
    ASSUME Discipline, late = {}, [Next]_vars
    PROVE  late' = {}
<1>1. ASSUME NEW p \in Pods, GivesUp(p) PROVE late' = {}
  BY <1>1, FS_EmptySet DEF GivesUp, Discipline
<1>2. CASE UserStep
  BY <1>2 DEF UserStep, CreateTask, EditTask, ApproveBefore, RejectBefore,
              ApproveAfter, RejectAfter, RequeueTask, SessionReset, podVars
<1>3. ASSUME NEW p \in Pods, PodStep(p) \/ PodBoots(p) \/ PodExits(p)
      PROVE  late' = {}
  BY <1>1, <1>3
  DEF PodStep, PodBoots, PodExits, PodRegisters, PodClaims, PodStarts,
      PodCallsModel, PodSubmits, PodReportsFailure, PodCallFails, Served
<1>4. CASE UNCHANGED vars
  BY <1>4 DEF vars, podVars
<1> QED BY <1>2, <1>3, <1>4 DEF Next

\* The same steps as TableStep, with what the pods know: a delivery comes from
\* a pod that holds the task, and the pod is done with it afterwards; a requeue
\* is for a task nobody holds.
DisciplinedStep ==
    \/ \E p \in Pods : RegisterPod(p)
    \/ \E p \in Pods, t \in Tasks : ClaimNextTask(p, t)
    \/ \E t \in Tasks : MarkRunning(t)
    \/ \E p \in Pods, t \in Tasks, a \in Artifacts :
          /\ Holds(p, t) /\ ~Holds(p, t)'
          /\ a.by = p /\ a.retry = job[p].retry
          /\ Deliver(t, a)
          /\ IF a.kind = "result"
             THEN ledger' = [ledger EXCEPT ![t] = Append(@, owner[t])]
             ELSE UNCHANGED ledger
    \/ \E t \in Tasks :
          \/ CreateTask(t) \/ EditTask(t) \/ ApproveBefore(t)
          \/ RejectBefore(t) \/ ApproveAfter(t) \/ RejectAfter(t)
          \/ RequeueTask(t) /\ \A p \in Pods : ~Holds(p, t)
    \/ SessionReset
    \/ UNCHANGED tables

\* With the discipline a step is one of these, all of them on time.
LEMMA NextDisciplined ==
    ASSUME Discipline, TypeOK, late = {}, [Next]_vars
    PROVE  DisciplinedStep
<1> USE DEF DisciplinedStep, TypeOK, PodsTypeOK
<1>1. CASE UserStep
  BY <1>1 DEF UserStep, RequeueTask, Discipline
<1>2. ASSUME NEW p \in Pods, PodStep(p) PROVE DisciplinedStep
  <2>1. CASE PodSubmits(p) \/ PodReportsFailure(p)
    <3>1. job[p] \in Jobs
      BY <2>1 DEF PodSubmits, PodReportsFailure, Executing
    <3>2. PICK t \in Tasks : t = job[p].task
      BY <3>1 DEF Jobs
    <3>3. PICK kind \in {"result", "failure"} :
            /\ Deliver(t, Artifact(kind, p, job[p]))
            /\ IF kind = "result"
               THEN ledger' = [ledger EXCEPT ![t] = Append(@, owner[t])]
               ELSE UNCHANGED ledger
      BY <2>1, <3>2 DEF PodSubmits, PodReportsFailure, SubmitResult, ReportFailure
    <3>4. PICK a \in Artifacts : a = Artifact(kind, p, job[p])
      BY <3>1 DEF Artifact, Artifacts, Jobs
    <3>5. a.by = p /\ a.retry = job[p].retry /\ a.kind = kind
      BY <3>4 DEF Artifact
    <3>6. Holds(p, t)
      BY <2>1, <3>2 DEF PodSubmits, PodReportsFailure, Holds, Executing
    <3>7. pc'[p] \notin Executing
      BY <2>1 DEF PodSubmits, PodReportsFailure, Served, AfterError, PodAt,
                  Executing
    <3>8. ~Holds(p, t)'
      BY <3>7 DEF Holds
    <3> QED BY <3>3, <3>4, <3>5, <3>6, <3>8
  <2>2. CASE PodRegisters(p) \/ PodClaims(p)
    BY <2>2 DEF PodRegisters, PodClaims
  <2>3. CASE PodStarts(p)
    <3>1. job[p].task \in Tasks
      BY <2>3 DEF PodStarts, Executing, Jobs
    <3> QED BY <2>3, <3>1 DEF PodStarts
  <2>4. CASE PodCallsModel(p) \/ PodCallFails(p)
    BY <2>4 DEF PodCallsModel, PodCallFails
  <2> QED BY <1>2, <2>1, <2>2, <2>3, <2>4 DEF PodStep
<1>3. ASSUME NEW p \in Pods, PodBoots(p) \/ PodExits(p) PROVE DisciplinedStep
  BY <1>3 DEF PodBoots, PodExits
<1>4. CASE UNCHANGED vars
  BY <1>4 DEF vars
<1> QED BY <1>1, <1>2, <1>3, <1>4 DEF Next

\* A pod that keeps holding its task keeps owning it: whatever would take the
\* task away is either refused or done by the pod itself.
LEMMA OwnerKeeps ==
    ASSUME TypeOK, OnlyOwnerExecutes, DisciplinedStep,
           NEW p \in Pods, NEW t \in Tasks, Holds(p, t), Holds(p, t)'
    PROVE  /\ owner'[t] = p
           /\ retries'[t] = retries[t]
           /\ status'[t] \in InFlight
<1> DEFINE Kept == /\ owner'[t] = p
                   /\ retries'[t] = retries[t]
                   /\ status'[t] \in InFlight
<1> USE DEF TypeOK, TablesTypeOK, InFlight
<1>1. owner[t] = p /\ status[t] \in InFlight
  BY DEF OnlyOwnerExecutes
<1>2. ASSUME NEW q \in Pods, NEW u \in Tasks,
             RegisterPod(q) \/ ClaimNextTask(q, u) \/ MarkRunning(u)
      PROVE  Kept
  BY <1>1, <1>2 DEF RegisterPod, ClaimNextTask, NextInQueue, MarkRunning
<1>3. ASSUME NEW q \in Pods, NEW u \in Tasks, NEW a, Deliver(u, a),
             Holds(q, u), ~Holds(q, u)'
      PROVE  Kept
  <2>1. t # u
    BY <1>1, <1>3 DEF OnlyOwnerExecutes
  <2> QED BY <1>1, <1>3, <2>1 DEF Deliver
<1>4. ASSUME NEW u \in Tasks, CreateTask(u) \/ EditTask(u) \/ ApproveBefore(u)
      PROVE  Kept
  BY <1>1, <1>4 DEF CreateTask, EditTask, ApproveBefore
<1>5. ASSUME NEW u \in Tasks,
             RejectBefore(u) \/ ApproveAfter(u) \/ RejectAfter(u)
      PROVE  Kept
  BY <1>1, <1>5 DEF RejectBefore, ApproveAfter, RejectAfter
<1>6. ASSUME NEW u \in Tasks, RequeueTask(u), \A q \in Pods : ~Holds(q, u)
      PROVE  Kept
  <2>1. t # u
    BY <1>6
  <2> QED BY <1>1, <1>6, <2>1 DEF RequeueTask
<1>7. ASSUME SessionReset \/ UNCHANGED tables PROVE Kept
  BY <1>1, <1>7 DEF SessionReset, tables
<1> HIDE DEF InFlight, TypeOK
<1>8. Kept
  <2> HIDE DEF Kept
  <2> QED BY <1>2, <1>3, <1>4, <1>5, <1>6, <1>7 DEF DisciplinedStep
<1> QED BY <1>8

\* Every disciplined step keeps the execution of a task with its owner.
LEMMA OnlyOwnerStep ==
    ASSUME Discipline, TypeOK, late = {}, OnlyOwnerExecutes, [Next]_vars
    PROVE  OnlyOwnerExecutes'
<1> SUFFICES ASSUME NEW p \in Pods, NEW t \in Tasks, Holds(p, t)'
             PROVE  /\ owner'[t] = p
                    /\ job'[p].retry = retries'[t]
                    /\ status'[t] \in InFlight
  BY DEF OnlyOwnerExecutes
<1>1. CASE Holds(p, t) /\ job'[p] = job[p]
  <2>1. job[p].retry = retries[t]
    BY <1>1 DEF OnlyOwnerExecutes
  <2> QED BY <1>1, <2>1, NextDisciplined, OwnerKeeps
<1>2. CASE ClaimNextTask(p, t) /\ job'[p] = JobOf(t)
  <2>1. status'[t] = "claimed"
    BY <1>2 DEF ClaimNextTask, TypeOK, TablesTypeOK
  <2> QED BY <1>2, <2>1, ClaimDates DEF JobOf, InFlight
<1> QED BY <1>1, <1>2, HoldsStep

\* The artifact of a task at the after gate is the one its owner delivered.
LEMMA VerdictStep ==
    ASSUME TypeOK, OnlyOwnerExecutes, VerdictOnCurrentAttempt, DisciplinedStep
    PROVE  VerdictOnCurrentAttempt'
<1> USE DEF TypeOK, TablesTypeOK, InFlight, gateVars, workVars
<1> DEFINE Judged(t) == status[t] \in {"after_gate", "done"}
           Same(t) == /\ Judged(t)' => Judged(t)
                      /\ owner'[t] = owner[t] \/ ~Judged(t)'
                      /\ retries'[t] = retries[t] \/ ~Judged(t)'
                      /\ artifacts'[t] = artifacts[t]
           Sound(t) == Judged(t) =>
                         /\ Len(artifacts[t]) > 0
                         /\ artifacts[t][Len(artifacts[t])].by = owner[t]
                         /\ artifacts[t][Len(artifacts[t])].retry = retries[t]
<1> SUFFICES ASSUME NEW t \in Tasks PROVE Sound(t)'
  BY DEF VerdictOnCurrentAttempt
<1>1. Sound(t)
  BY DEF VerdictOnCurrentAttempt
<1>2. ASSUME Same(t) PROVE Sound(t)'
  BY <1>1, <1>2
<1>3. ASSUME NEW q \in Pods, NEW u \in Tasks,
             RegisterPod(q) \/ ClaimNextTask(q, u)
      PROVE  Same(t)
  BY <1>3 DEF RegisterPod, ClaimNextTask, NextInQueue
<1>10. ASSUME NEW u \in Tasks, MarkRunning(u) PROVE Same(t)
  BY <1>10 DEF MarkRunning
<1>4. ASSUME NEW q \in Pods, NEW u \in Tasks, NEW a \in Artifacts,
             Holds(q, u), a.by = q, a.retry = job[q].retry, Deliver(u, a)
      PROVE  Sound(t)'
  <2>1. CASE t = u
    <3>1. owner[t] = q /\ job[q].retry = retries[t]
      BY <1>4, <2>1 DEF OnlyOwnerExecutes
    <3>2. /\ artifacts'[t] = Append(artifacts[t], a)
          /\ artifacts[t] \in Seq(Artifacts)
          /\ owner'[t] = owner[t] /\ retries'[t] = retries[t]
      BY <1>4, <2>1 DEF Deliver
    <3>3. /\ Len(artifacts'[t]) > 0
          /\ artifacts'[t][Len(artifacts'[t])] = a
      BY <3>2
    <3>4. /\ artifacts'[t][Len(artifacts'[t])].by = owner'[t]
          /\ artifacts'[t][Len(artifacts'[t])].retry = retries'[t]
      BY <1>4, <3>1, <3>2, <3>3
    <3> HIDE DEF TypeOK
    <3> QED BY <3>3, <3>4
  <2>2. CASE t # u
    <3>1. Same(t)
      BY <1>4, <2>2 DEF Deliver
    <3> QED BY <1>2, <3>1
  <2> QED BY <2>1, <2>2
<1>5. ASSUME NEW u \in Tasks, CreateTask(u) \/ EditTask(u) \/ ApproveBefore(u)
      PROVE  Same(t)
  BY <1>5 DEF CreateTask, EditTask, ApproveBefore
<1>6. ASSUME NEW u \in Tasks, RejectBefore(u) \/ ApproveAfter(u)
      PROVE  Same(t)
  BY <1>6 DEF RejectBefore, ApproveAfter
<1>7. ASSUME NEW u \in Tasks, RejectAfter(u) \/ RequeueTask(u)
      PROVE  Same(t)
  BY <1>7 DEF RejectAfter, RequeueTask
<1>8. ASSUME SessionReset \/ UNCHANGED tables PROVE Same(t)
  BY <1>8 DEF SessionReset, tables
<1>9. Sound(t)'
  <2> HIDE DEF Sound, Same, TypeOK
  <2>1. CASE \E q \in Pods, u \in Tasks : RegisterPod(q) \/ ClaimNextTask(q, u)
    BY <1>2, <1>3, <2>1
  <2>5. CASE \E u \in Tasks : MarkRunning(u)
    BY <1>2, <1>10, <2>5
  <2>2. CASE \E q \in Pods, u \in Tasks, a \in Artifacts :
                /\ Holds(q, u) /\ a.by = q /\ a.retry = job[q].retry
                /\ Deliver(u, a)
    BY <1>4, <2>2
  <2>3. CASE \E u \in Tasks :
                \/ CreateTask(u) \/ EditTask(u) \/ ApproveBefore(u)
                \/ RejectBefore(u) \/ ApproveAfter(u)
                \/ RejectAfter(u) \/ RequeueTask(u)
    BY <1>2, <1>5, <1>6, <1>7, <2>3
  <2>4. CASE SessionReset \/ UNCHANGED tables
    BY <1>2, <1>8, <2>4
  <2> QED BY <2>1, <2>2, <2>3, <2>4, <2>5 DEF DisciplinedStep
<1> QED BY <1>9

\* Positions of a task's artifacts are few enough to count.
LEMMA ResultsCounted ==
    ASSUME NEW t \in Tasks, NEW n \in Nat
    PROVE  /\ IsFiniteSet({k \in 1..n : artifacts[t][k].kind = "result"})
           /\ ResultsUpTo(t, n) \in Nat
<1>1. IsFiniteSet(1..n)
  BY FS_Interval
<1>2. IsFiniteSet({k \in 1..n : artifacts[t][k].kind = "result"})
  BY <1>1, FS_Subset
<1> QED BY <1>2, FS_CardinalityType DEF ResultsUpTo

\* A result among the first n is counted, and no more than all of them are.
LEMMA ResultRank ==
    ASSUME NEW t \in Tasks, NEW n \in Nat, NEW i \in 1..n,
           artifacts[t][i].kind = "result"
    PROVE  ResultsUpTo(t, i) \in 1..ResultsUpTo(t, n)
<1> DEFINE First(m) == {k \in 1..m : artifacts[t][k].kind = "result"}
<1>1. /\ IsFiniteSet(First(n)) /\ IsFiniteSet(First(i))
      /\ Cardinality(First(n)) \in Nat /\ Cardinality(First(i)) \in Nat
  BY ResultsCounted, FS_CardinalityType
<1>2. First(i) \subseteq First(n) /\ i \in First(i)
  OBVIOUS
<1> HIDE DEF First
<1>3. Cardinality(First(i)) <= Cardinality(First(n))
  BY <1>1, <1>2, FS_Subset
<1>4. Cardinality(First(i)) # 0
  BY <1>1, <1>2, FS_EmptySet
<1> QED BY <1>1, <1>3, <1>4 DEF ResultsUpTo, First

\* One more artifact is one more result, or none, and what was counted before
\* stays so.
LEMMA ResultsAppend ==
    ASSUME NEW t \in Tasks, NEW a \in Artifacts, artifacts[t] \in Seq(Artifacts),
           NEW n \in Nat, n = Len(artifacts[t]),
           artifacts'[t] = Append(artifacts[t], a)
    PROVE  /\ \A i \in 0..n : ResultsUpTo(t, i)' = ResultsUpTo(t, i)
           /\ ResultsUpTo(t, n + 1)' = ResultsUpTo(t, n)
                                         + (IF a.kind = "result" THEN 1 ELSE 0)
<1> DEFINE First(m) == {k \in 1..m : artifacts[t][k].kind = "result"}
           Next1(m) == {k \in 1..m : artifacts'[t][k].kind = "result"}
<1>1. n + 1 \notin First(n)
  OBVIOUS
<1>2. /\ \A k \in 1..n : artifacts'[t][k] = artifacts[t][k]
      /\ artifacts'[t][n + 1] = a
  OBVIOUS
<1>3. \A m \in Nat : /\ ResultsUpTo(t, m) = Cardinality(First(m))
                     /\ ResultsUpTo(t, m)' = Cardinality(Next1(m))
  BY DEF ResultsUpTo
<1>4. \A i \in 0..n : Next1(i) = First(i)
  BY <1>2
<1>5. Next1(n + 1) = IF a.kind = "result" THEN First(n) \union {n + 1} ELSE First(n)
  BY <1>2
<1>6. IsFiniteSet(First(n)) /\ Cardinality(First(n)) \in Nat
  BY ResultsCounted, FS_CardinalityType
<1> HIDE DEF First, Next1
<1>7. Cardinality(First(n) \union {n + 1}) = Cardinality(First(n)) + 1
  BY <1>1, <1>6, FS_AddElement
<1>8. Cardinality(Next1(n + 1)) =
        Cardinality(First(n)) + (IF a.kind = "result" THEN 1 ELSE 0)
  BY <1>5, <1>6, <1>7
<1> QED BY <1>3, <1>4, <1>8

\* The ledger of a task that is delivered to by its owner names that owner in
\* the row of the new result; every other step leaves ledger and artifacts.
LEMMA LedgerStep ==
    ASSUME TypeOK, OnlyOwnerExecutes, ChargedToProducer, DisciplinedStep
    PROVE  ChargedToProducer'
<1> USE DEF TypeOK, TablesTypeOK
<1> DEFINE Charged(t) ==
        /\ Len(ledger[t]) = ResultsUpTo(t, Len(artifacts[t]))
        /\ \A i \in 1..Len(artifacts[t]) : artifacts[t][i].kind = "result" =>
              ledger[t][ResultsUpTo(t, i)] = artifacts[t][i].by
<1> SUFFICES ASSUME NEW t \in Tasks PROVE Charged(t)'
  BY DEF ChargedToProducer
<1>1. Charged(t)
  BY DEF ChargedToProducer
<1>2. ASSUME artifacts'[t] = artifacts[t], ledger'[t] = ledger[t]
      PROVE  Charged(t)'
  BY <1>1, <1>2 DEF ResultsUpTo
<1>3. CASE UNCHANGED <<artifacts, ledger>>
  BY <1>2, <1>3
<1>4. ASSUME NEW q \in Pods, NEW u \in Tasks, NEW a \in Artifacts,
             Holds(q, u), a.by = q, Deliver(u, a),
             IF a.kind = "result"
             THEN ledger' = [ledger EXCEPT ![u] = Append(@, owner[u])]
             ELSE UNCHANGED ledger
      PROVE  Charged(t)'
  <2>1. CASE t # u
    BY <1>2, <1>4, <2>1 DEF Deliver
  <2>2. CASE t = u
    <3>1. owner[t] = q
      BY <1>4, <2>2 DEF OnlyOwnerExecutes
    <3>2. /\ artifacts'[t] = Append(artifacts[t], a)
          /\ ledger'[t] = IF a.kind = "result" THEN Append(ledger[t], q)
                                               ELSE ledger[t]
          /\ artifacts[t] \in Seq(Artifacts) /\ ledger[t] \in Seq(Pods)
      BY <1>4, <2>2, <3>1 DEF Deliver
    <3>3. PICK n \in Nat : n = Len(artifacts[t])
      BY <3>2
    <3>4. PICK m \in Nat : m = ResultsUpTo(t, n)
      BY <3>3, ResultsCounted
    <3>5. /\ \A i \in 0..n : ResultsUpTo(t, i)' = ResultsUpTo(t, i)
          /\ ResultsUpTo(t, n + 1)' = m + (IF a.kind = "result" THEN 1 ELSE 0)
      BY <3>2, <3>3, <3>4, ResultsAppend
    <3>6. Len(artifacts'[t]) = n + 1 /\ Len(ledger[t]) = m
      BY <1>1, <3>2, <3>3, <3>4
    <3>7. Len(ledger'[t]) = ResultsUpTo(t, n + 1)'
      BY <3>2, <3>5, <3>6
    <3>8. ASSUME NEW i \in 1..n, artifacts'[t][i].kind = "result"
          PROVE  ledger'[t][ResultsUpTo(t, i)'] = artifacts'[t][i].by
      <4>1. artifacts'[t][i] = artifacts[t][i]
        BY <3>2, <3>3
      <4>2. ResultsUpTo(t, i)' = ResultsUpTo(t, i) /\ ResultsUpTo(t, i) \in 1..m
        BY <3>4, <3>5, <3>8, <4>1, ResultRank
      <4>3. \A k \in 1..m : ledger'[t][k] = ledger[t][k]
        BY <3>2, <3>6
      <4> QED BY <1>1, <3>3, <3>8, <4>1, <4>2, <4>3
    <3>9. ASSUME a.kind = "result"
          PROVE  ledger'[t][ResultsUpTo(t, n + 1)'] = artifacts'[t][n + 1].by
      BY <1>4, <3>2, <3>3, <3>5, <3>6, <3>9
    <3>10. artifacts'[t][n + 1] = a
      BY <3>2, <3>3
    <3>11. ASSUME NEW i \in 1..(n + 1), artifacts'[t][i].kind = "result"
           PROVE  ledger'[t][ResultsUpTo(t, i)'] = artifacts'[t][i].by
      <4>1. i = n + 1 \/ i \in 1..n
        OBVIOUS
      <4> QED BY <3>8, <3>9, <3>10, <3>11, <4>1
    <3> QED BY <3>6, <3>7, <3>11
  <2> QED BY <2>1, <2>2
<1> HIDE DEF Charged
<1>5. UNCHANGED <<artifacts, ledger>>
        \/ \E q \in Pods, u \in Tasks, a \in Artifacts :
              /\ Holds(q, u) /\ a.by = q /\ Deliver(u, a)
              /\ IF a.kind = "result"
                 THEN ledger' = [ledger EXCEPT ![u] = Append(@, owner[u])]
                 ELSE UNCHANGED ledger
  <2>1. CASE \/ \E p \in Pods : RegisterPod(p)
             \/ \E p \in Pods, u \in Tasks : ClaimNextTask(p, u)
             \/ \E u \in Tasks : MarkRunning(u)
    BY <2>1 DEF RegisterPod, ClaimNextTask, MarkRunning, workVars
  <2>2. ASSUME NEW u \in Tasks,
               CreateTask(u) \/ EditTask(u) \/ ApproveBefore(u) \/ RejectBefore(u)
        PROVE  UNCHANGED <<artifacts, ledger>>
    BY <2>2 DEF CreateTask, EditTask, ApproveBefore, RejectBefore, workVars
  <2>3. ASSUME NEW u \in Tasks, ApproveAfter(u) \/ RejectAfter(u) \/ RequeueTask(u)
        PROVE  UNCHANGED <<artifacts, ledger>>
    BY <2>3 DEF ApproveAfter, RejectAfter, RequeueTask, workVars
  <2>4. CASE SessionReset \/ UNCHANGED tables
    BY <2>4 DEF SessionReset, tables, workVars
  <2> QED BY <2>1, <2>2, <2>3, <2>4 DEF DisciplinedStep
<1> QED BY <1>3, <1>4, <1>5

\* No task has an artifact or a ledger row at first.
LEMMA InitLedger == ASSUME Init PROVE ChargedToProducer
<1> SUFFICES ASSUME NEW t \in Tasks
             PROVE  Len(ledger[t]) = ResultsUpTo(t, 0) /\ Len(artifacts[t]) = 0
  BY DEF ChargedToProducer
<1>1. {k \in 1..0 : artifacts[t][k].kind = "result"} = {}
  OBVIOUS
<1>2. ResultsUpTo(t, 0) = 0
  BY <1>1, FS_EmptySet DEF ResultsUpTo
<1> QED BY <1>2 DEF Init

\* Without the discipline a row may name another pod than the producer, but
\* there is one row for each result that was accepted, and none for a failure.
EveryResultIsCharged ==
    \A t \in Tasks : Len(ledger[t]) = ResultsUpTo(t, Len(artifacts[t]))

\* Only the handler that inserts a result inserts a ledger row.
LEMMA ChargedStep ==
    ASSUME TablesTypeOK, OwnerIffAttempted, EveryResultIsCharged, TableStep
    PROVE  EveryResultIsCharged'
<1> USE DEF TablesTypeOK
<1> SUFFICES ASSUME NEW t \in Tasks
             PROVE  Len(ledger'[t]) = ResultsUpTo(t, Len(artifacts[t]))'
  BY DEF EveryResultIsCharged
<1>1. Len(ledger[t]) = ResultsUpTo(t, Len(artifacts[t]))
  BY DEF EveryResultIsCharged
<1>2. ASSUME artifacts'[t] = artifacts[t], ledger'[t] = ledger[t]
      PROVE  Len(ledger'[t]) = ResultsUpTo(t, Len(artifacts[t]))'
  BY <1>1, <1>2 DEF ResultsUpTo
<1>3. ASSUME NEW u \in Tasks, NEW a \in Artifacts, Deliver(u, a),
             IF a.kind = "result"
             THEN ledger' = [ledger EXCEPT ![u] = Append(@, owner[u])]
             ELSE UNCHANGED ledger
      PROVE  Len(ledger'[t]) = ResultsUpTo(t, Len(artifacts[t]))'
  <2>1. CASE t # u
    BY <1>2, <1>3, <2>1 DEF Deliver
  <2>2. CASE t = u
    <3>1. owner[t] \in Pods
      BY <1>3, <2>2 DEF OwnerIffAttempted, Attempted, Deliver
    <3>2. /\ artifacts'[t] = Append(artifacts[t], a)
          /\ ledger'[t] = IF a.kind = "result" THEN Append(ledger[t], owner[t])
                                               ELSE ledger[t]
          /\ artifacts[t] \in Seq(Artifacts) /\ ledger[t] \in Seq(Pods)
      BY <1>3, <2>2 DEF Deliver
    <3>3. PICK n \in Nat : n = Len(artifacts[t])
      BY <3>2
    <3>4. PICK m \in Nat : m = ResultsUpTo(t, n)
      BY <3>3, ResultsCounted
    <3>5. ResultsUpTo(t, n + 1)' = m + (IF a.kind = "result" THEN 1 ELSE 0)
      BY <3>2, <3>3, <3>4, ResultsAppend
    <3>6. Len(artifacts'[t]) = n + 1 /\ Len(ledger[t]) = m
      BY <1>1, <3>2, <3>3, <3>4
    <3>7. Len(ledger'[t]) = m + (IF a.kind = "result" THEN 1 ELSE 0)
      BY <3>1, <3>2, <3>6
    <3> QED BY <3>5, <3>6, <3>7
  <2> QED BY <2>1, <2>2
<1>4. UNCHANGED <<artifacts, ledger>>
        \/ \E u \in Tasks, a \in Artifacts :
              /\ Deliver(u, a)
              /\ IF a.kind = "result"
                 THEN ledger' = [ledger EXCEPT ![u] = Append(@, owner[u])]
                 ELSE UNCHANGED ledger
  <2>1. ASSUME NEW p \in Pods, NEW j \in Jobs
        PROVE  /\ j.task \in Tasks
               /\ Artifact("result", p, j) \in Artifacts
               /\ Artifact("failure", p, j) \in Artifacts
               /\ Artifact("result", p, j).kind = "result"
               /\ Artifact("failure", p, j).kind = "failure"
    BY DEF Jobs, Artifact, Artifacts
  <2> QED
    BY <2>1
    DEF TableStep, HandlerStep, UserStep, SubmitResult, ReportFailure,
        RegisterPod, ClaimNextTask, MarkRunning, CreateTask, EditTask,
        ApproveBefore, RejectBefore, ApproveAfter, RejectAfter, RequeueTask,
        SessionReset, tables, workVars
<1> QED BY <1>2, <1>3, <1>4

\* However attempts overlap, restart or come late, no accepted result goes
\* uncharged and none is charged twice: the cap counts what the gates show.
THEOREM ResultsAreChargedOnce == Spec => []EveryResultIsCharged
<1>1. Init => EveryResultIsCharged
  BY InitLedger DEF ChargedToProducer, EveryResultIsCharged
<1>2. IInv /\ EveryResultIsCharged /\ [Next]_vars => EveryResultIsCharged'
  BY NextTables, ChargedStep DEF IInv, TypeOK
<1> QED BY <1>1, <1>2, Invariance, PTL DEF Spec

DisciplinedInv == /\ IInv
                  /\ late = {}
                  /\ OnlyOwnerExecutes
                  /\ VerdictOnCurrentAttempt
                  /\ ChargedToProducer

\* The three properties are inductive together with IInv.
LEMMA DisciplinedInvariance ==
    ASSUME Discipline
    PROVE  Spec => []DisciplinedInv
<1>1. Init => DisciplinedInv
  BY InitIInv, InitLedger
  DEF Init, DisciplinedInv, OnlyOwnerExecutes, Holds, Executing,
      VerdictOnCurrentAttempt
<1>2. DisciplinedInv /\ [Next]_vars => DisciplinedInv'
  BY NextIInv, NothingLate, OnlyOwnerStep, NextDisciplined, VerdictStep,
     LedgerStep
  DEF DisciplinedInv, IInv
<1> QED BY <1>1, <1>2, PTL DEF Spec

\* Under the discipline a task is executed by its owner and by no other pod.
THEOREM OwnersExecute ==
    ASSUME Discipline
    PROVE  Spec => []OnlyOwnerExecutes
<1>1. DisciplinedInv => OnlyOwnerExecutes
  BY DEF DisciplinedInv
<1> QED BY <1>1, DisciplinedInvariance, PTL

\* Under the discipline the artifact the user judges was delivered by the pod
\* the tasks table names, for the current attempt.
THEOREM VerdictsAreCurrent ==
    ASSUME Discipline
    PROVE  Spec => []VerdictOnCurrentAttempt
<1>1. DisciplinedInv => VerdictOnCurrentAttempt
  BY DEF DisciplinedInv
<1> QED BY <1>1, DisciplinedInvariance, PTL

\* Under the discipline the rows of the budget ledger of a task name, in order,
\* the pods that produced its results, one row for each.
THEOREM LedgerNamesProducers ==
    ASSUME Discipline
    PROVE  Spec => []ChargedToProducer
<1>1. DisciplinedInv => ChargedToProducer
  BY DEF DisciplinedInv
<1> QED BY <1>1, DisciplinedInvariance, PTL
=============================================================================
