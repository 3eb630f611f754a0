---------------------------- MODULE ClaimProofs ----------------------------
(***************************************************************************)
(* Proofs about Claim for any set of pods and tasks, any cap and any cost: *)
(* exclusive and orderly claims from the write lock, which make the        *)
(* statements serve the queue as TaskQueue does, and the bounds on the     *)
(* overshoot and on the duplicates of budget_cap_hit by counting pods.     *)
(***************************************************************************)
EXTENDS Claim, FiniteSetTheorems, TLAPS

USE DEF Days

\* The first day is a day: day zero, where Init starts, is in range.
LEMMA DayZero == 0 \in Days
BY ClaimBounds

-----------------------------------------------------------------------------
(* Types, and who holds the write lock. *)

\* The strengthening both properties of a claim rest on: the write lock is held
\* exactly by the handler between BEGIN and COMMIT.
LockHeldByWriter ==
    \A p \in Pods : pc[p] \in {"select", "update"} <=> writer = p

ClaimInv == /\ TypeOK
            /\ LockHeldByWriter
            /\ NoDoubleClaim
            /\ ChoiceStaysFirst

\* The initial states satisfy the invariant of the claim transaction.
LEMMA InitClaimInv == ASSUME Init PROVE ClaimInv
<1>1. TypeOK
  BY DayZero DEF Init, TypeOK, Statuses, PodPcs, PastCheck
<1> QED
  BY <1>1, ClaimNulls DEF Init, ClaimInv, LockHeldByWriter, NoDoubleClaim,
                          ChoiceStaysFirst

\* Every step of claim_next_task and of its surroundings keeps the types.
LEMMA TypeStep ==
    ASSUME TypeOK, [Next]_vars
    PROVE  TypeOK'
<1> USE DEF TypeOK, PodPcs, PastCheck, Goto
<1>1. ASSUME NEW p \in Pods, ReadSpend(p) \/ CheckEvents(p) PROVE TypeOK'
  BY <1>1 DEF ReadSpend, CheckEvents
<1>2. ASSUME NEW p \in Pods, EmitCapHit(p) PROVE TypeOK'
  BY <1>2 DEF EmitCapHit
<1>3. ASSUME NEW p \in Pods, BeginImmediate(p) \/ BeginTimesOut(p) PROVE TypeOK'
  BY <1>3 DEF BeginImmediate, BeginTimesOut
<1>4. ASSUME NEW p \in Pods, SelectReady(p) PROVE TypeOK'
  BY <1>4, ClaimNulls DEF SelectReady, Ready
<1>5. ASSUME NEW p \in Pods, SelectNone(p) PROVE TypeOK'
  BY <1>5 DEF SelectNone
<1>6. ASSUME NEW p \in Pods, UpdateAndCommit(p) PROVE TypeOK'
  <2>1. task[p] \in Tasks
    BY <1>6 DEF UpdateAndCommit
  <2> QED BY <1>6, <2>1 DEF UpdateAndCommit, Statuses
<1>7. ASSUME NEW p \in Pods, Delivers(p) PROVE TypeOK'
  <2>1. task[p] \in Tasks
    BY <1>7 DEF Delivers
  <2>2. PICK cost \in 0..MaxCost : spend' = [spend EXCEPT ![day] = @ + cost]
    BY <1>7 DEF Delivers
  <2>3. spend' \in [Days -> Nat]
    BY <2>2, ClaimBounds
  <2> QED BY <1>7, <2>1, <2>3 DEF Delivers, Statuses
<1>8. ASSUME NEW p \in Pods, Dies(p) \/ Restarts(p) PROVE TypeOK'
  BY <1>8 DEF Dies, Restarts
<1>9. ASSUME NEW t \in Tasks, Approves(t) \/ Rejects(t) \/ Requeues(t)
      PROVE  TypeOK'
  BY <1>9 DEF Approves, Rejects, Requeues, Statuses
<1>10. CASE Midnight
  BY <1>10, ClaimBounds DEF Midnight
<1>11. CASE UNCHANGED vars
  BY <1>11 DEF vars
<1> QED
  BY <1>1, <1>2, <1>3, <1>4, <1>5, <1>6, <1>7, <1>8, <1>9, <1>10, <1>11
  DEF Next, Claims

\* Every step keeps the lock with the handler between BEGIN and COMMIT.
LEMMA LockStep ==
    ASSUME TypeOK, LockHeldByWriter, [Next]_vars
    PROVE  LockHeldByWriter'
<1> USE DEF TypeOK, LockHeldByWriter, Goto
<1>1. ASSUME NEW p \in Pods, ReadSpend(p) \/ CheckEvents(p) \/ EmitCapHit(p)
      PROVE  LockHeldByWriter'
  BY <1>1 DEF ReadSpend, CheckEvents, EmitCapHit
<1>2. ASSUME NEW p \in Pods, BeginImmediate(p) \/ BeginTimesOut(p)
      PROVE  LockHeldByWriter'
  BY <1>2, ClaimNulls DEF BeginImmediate, BeginTimesOut
<1>3. ASSUME NEW p \in Pods, SelectReady(p) \/ SelectNone(p)
      PROVE  LockHeldByWriter'
  BY <1>3, ClaimNulls DEF SelectReady, SelectNone
<1>4. ASSUME NEW p \in Pods, UpdateAndCommit(p) PROVE LockHeldByWriter'
  BY <1>4, ClaimNulls DEF UpdateAndCommit
<1>5. ASSUME NEW p \in Pods, Delivers(p) \/ Dies(p) \/ Restarts(p)
      PROVE  LockHeldByWriter'
  BY <1>5 DEF Delivers, Dies, Restarts
<1>6. ASSUME NEW t \in Tasks, Approves(t) \/ Rejects(t) \/ Requeues(t)
      PROVE  LockHeldByWriter'
  BY <1>6 DEF Approves, Rejects, Requeues
<1>7. CASE Midnight \/ UNCHANGED vars
  BY <1>7 DEF Midnight, vars
<1> QED
  BY <1>1, <1>2, <1>3, <1>4, <1>5, <1>6, <1>7 DEF Next, Claims

\* The row a handler updates was ready, so nobody worked on it.
LEMMA DoubleClaimStep ==
    ASSUME TypeOK, NoDoubleClaim, ChoiceStaysFirst, [Next]_vars
    PROVE  NoDoubleClaim'
<1> USE DEF TypeOK, NoDoubleClaim, Goto
<1>1. ASSUME NEW p \in Pods, ReadSpend(p) \/ CheckEvents(p) \/ EmitCapHit(p)
      PROVE  NoDoubleClaim'
  BY <1>1 DEF ReadSpend, CheckEvents, EmitCapHit
<1>2. ASSUME NEW p \in Pods, \/ BeginImmediate(p) \/ BeginTimesOut(p)
                             \/ SelectReady(p) \/ SelectNone(p)
      PROVE  NoDoubleClaim'
  BY <1>2 DEF BeginImmediate, BeginTimesOut, SelectReady, SelectNone
<1>3. ASSUME NEW p \in Pods, UpdateAndCommit(p) PROVE NoDoubleClaim'
  <2>1. task[p] \in Tasks /\ status[task[p]] = "ready"
    BY <1>3 DEF UpdateAndCommit, ChoiceStaysFirst
  <2>2. \A q \in Pods : pc[q] = "working" => task[q] # task[p]
    BY <2>1
  <2> QED BY <1>3, <2>1, <2>2 DEF UpdateAndCommit
<1>4. ASSUME NEW p \in Pods, Delivers(p) PROVE NoDoubleClaim'
  <2>1. \A q \in Pods : pc[q] = "working" /\ q # p => task[q] # task[p]
    BY <1>4 DEF Delivers
  <2> QED BY <1>4, <2>1 DEF Delivers
<1>5. ASSUME NEW p \in Pods, Dies(p) \/ Restarts(p) PROVE NoDoubleClaim'
  BY <1>5 DEF Dies, Restarts
<1>6. ASSUME NEW t \in Tasks, Approves(t) \/ Rejects(t) PROVE NoDoubleClaim'
  BY <1>6 DEF Approves, Rejects
<1>7. ASSUME NEW t \in Tasks, Requeues(t) PROVE NoDoubleClaim'
  BY <1>7 DEF Requeues
<1>8. CASE Midnight \/ UNCHANGED vars
  BY <1>8 DEF Midnight, vars
<1> QED
  BY <1>1, <1>2, <1>3, <1>4, <1>5, <1>6, <1>7, <1>8 DEF Next, Claims

\* Between the SELECT and the UPDATE the handler holds the write lock, and
\* every step that could change the queue waits for it.
LEMMA ChoiceStep ==
    ASSUME TypeOK, LockHeldByWriter, ChoiceStaysFirst, [Next]_vars
    PROVE  ChoiceStaysFirst'
<1> USE DEF TypeOK, ChoiceStaysFirst, Ready, Goto
<1>1. ASSUME NEW p \in Pods, ReadSpend(p) \/ CheckEvents(p) \/ EmitCapHit(p)
      PROVE  ChoiceStaysFirst'
  BY <1>1 DEF ReadSpend, CheckEvents, EmitCapHit
<1>2. ASSUME NEW p \in Pods, \/ BeginImmediate(p) \/ BeginTimesOut(p)
                             \/ SelectNone(p)
      PROVE  ChoiceStaysFirst'
  BY <1>2 DEF BeginImmediate, BeginTimesOut, SelectNone
<1>3. ASSUME NEW p \in Pods, SelectReady(p) PROVE ChoiceStaysFirst'
  BY <1>3 DEF SelectReady
<1>4. ASSUME NEW p \in Pods, UpdateAndCommit(p) PROVE ChoiceStaysFirst'
  <2>1. \A q \in Pods : pc'[q] # "update"
    BY <1>4 DEF UpdateAndCommit, LockHeldByWriter
  <2> QED BY <2>1
<1>5. ASSUME writer = NoPod, pc' = pc \/ \E p \in Pods : Goto(p, "working", "idle")
      PROVE  ChoiceStaysFirst'
  <2>1. \A q \in Pods : pc'[q] # "update"
    BY <1>5, ClaimNulls DEF LockHeldByWriter
  <2> QED BY <2>1
<1>6. ASSUME NEW p \in Pods, Delivers(p) PROVE ChoiceStaysFirst'
  BY <1>5, <1>6 DEF Delivers
<1>7. ASSUME NEW t \in Tasks, Approves(t) \/ Rejects(t) \/ Requeues(t)
      PROVE  ChoiceStaysFirst'
  BY <1>5, <1>7 DEF Approves, Rejects, Requeues
<1>8. ASSUME NEW p \in Pods, Dies(p) \/ Restarts(p) PROVE ChoiceStaysFirst'
  BY <1>8 DEF Dies, Restarts
<1>9. CASE Midnight \/ UNCHANGED vars
  BY <1>9 DEF Midnight, vars
<1> QED
  BY <1>1, <1>2, <1>3, <1>4, <1>6, <1>7, <1>8, <1>9 DEF Next, Claims

\* The conjunction is inductive, so it holds in every reachable state.
LEMMA ClaimInvariance == Spec => []ClaimInv
<1>1. Init => ClaimInv
  BY InitClaimInv
<1>2. ClaimInv /\ [Next]_vars => ClaimInv'
  BY TypeStep, LockStep, DoubleClaimStep, ChoiceStep DEF ClaimInv
<1> QED BY <1>1, <1>2, PTL DEF Spec

\* Every variable keeps its type (scheduler.py).
THEOREM ClaimTypeCorrect == Spec => []TypeOK
<1>1. ClaimInv => TypeOK
  BY DEF ClaimInv
<1> QED BY <1>1, ClaimInvariance, PTL

\* BEGIN IMMEDIATE makes claims exclusive for any number of pods and tasks.
THEOREM ClaimsAreExclusive == Spec => []NoDoubleClaim
<1>1. ClaimInv => NoDoubleClaim
  BY DEF ClaimInv
<1> QED BY <1>1, ClaimInvariance, PTL

\* The row a handler updates is still the first of the queue.
THEOREM ClaimsAreOrderly == Spec => []ChoiceStaysFirst
<1>1. ClaimInv => ChoiceStaysFirst
  BY DEF ClaimInv
<1> QED BY <1>1, ClaimInvariance, PTL

-----------------------------------------------------------------------------
(* The claim as one step.                                                    *)

\* pod_id is NULL while a task waits at the before gate or in the queue.
WaitingIsFree ==
    \A t \in Tasks : status[t] \in {"before_gate", "ready"} => owner[t] = NoPod

\* Only the UPDATE of a claim sets pod_id, and what ends an attempt clears it.
LEMMA WaitingStep ==
    ASSUME TypeOK, WaitingIsFree, [Next]_vars
    PROVE  WaitingIsFree'
<1> USE DEF TypeOK, WaitingIsFree
<1>1. ASSUME NEW p \in Pods, \/ ReadSpend(p) \/ CheckEvents(p) \/ EmitCapHit(p)
                             \/ BeginImmediate(p) \/ BeginTimesOut(p)
                             \/ SelectReady(p) \/ SelectNone(p)
      PROVE  WaitingIsFree'
  BY <1>1 DEF ReadSpend, CheckEvents, EmitCapHit, BeginImmediate,
              BeginTimesOut, SelectReady, SelectNone
<1>2. ASSUME NEW p \in Pods, UpdateAndCommit(p) PROVE WaitingIsFree'
  BY <1>2 DEF UpdateAndCommit, Goto
<1>3. ASSUME NEW p \in Pods, Delivers(p) \/ Dies(p) \/ Restarts(p)
      PROVE  WaitingIsFree'
  BY <1>3 DEF Delivers, Dies, Restarts, Goto
<1>4. ASSUME NEW t \in Tasks, Approves(t) \/ Rejects(t) \/ Requeues(t)
      PROVE  WaitingIsFree'
  BY <1>4 DEF Approves, Rejects, Requeues
<1>5. CASE Midnight \/ UNCHANGED vars
  BY <1>5 DEF Midnight, vars
<1> QED
  BY <1>1, <1>2, <1>3, <1>4, <1>5 DEF Next, Claims

\* The tables start as a queue without owners.
LEMMA QueueInit == ASSUME Init PROVE Queue!Init
BY DEF Init, Queue!Init, Queue!Orders, Ready, Precedence

\* Every statement but the UPDATE is invisible to the queue; the UPDATE is the
\* claim, because its row is still ready and first.
LEMMA QueueStep ==
    ASSUME ClaimInv, WaitingIsFree, [Next]_vars
    PROVE  [Queue!Next]_(Queue!vars)
<1> USE DEF ClaimInv, TypeOK, Ready, Goto
<1>1. ASSUME NEW p \in Pods, \/ ReadSpend(p) \/ CheckEvents(p) \/ EmitCapHit(p)
                             \/ BeginImmediate(p) \/ BeginTimesOut(p)
                             \/ SelectReady(p) \/ SelectNone(p)
      PROVE  UNCHANGED Queue!vars
  BY <1>1 DEF ReadSpend, CheckEvents, EmitCapHit, BeginImmediate,
              BeginTimesOut, SelectReady, SelectNone, Queue!vars
<1>2. ASSUME NEW p \in Pods, UpdateAndCommit(p)
      PROVE  \E t \in Tasks : Queue!Claim(p, t)
  <2>1. PICK t \in Tasks : /\ t = task[p]
                           /\ status[t] = "ready"
                           /\ \A u \in Ready : ~Precedes(u, t)
    BY <1>2 DEF UpdateAndCommit, ChoiceStaysFirst
  <2>2. \A u \in Ready : <<u, t>> \notin Precedence
    BY <2>1 DEF Precedence
  <2>3. Ready' = Ready \ {t}
    BY <1>2, <2>1 DEF UpdateAndCommit
  <2>4. Queue!Claim(p, t)
    BY <1>2, <2>1, <2>2, <2>3 DEF UpdateAndCommit, Queue!Claim
  <2> QED BY <2>4
<1>3. ASSUME NEW p \in Pods, Delivers(p) \/ Dies(p) \/ Restarts(p)
      PROVE  UNCHANGED Queue!vars
  <2>1. Ready' = Ready
    BY <1>3 DEF Delivers, Dies, Restarts
  <2> QED BY <1>3, <2>1 DEF Delivers, Dies, Restarts, Queue!vars
<1>4. ASSUME NEW t \in Tasks, Approves(t) \/ Requeues(t)
      PROVE  Queue!Enqueue(t)
  <2>1. t \notin Ready /\ Ready' = Ready \union {t}
    BY <1>4 DEF Approves, Requeues
  <2>2. owner' = [owner EXCEPT ![t] = NoPod]
    BY <1>4 DEF Approves, Requeues, WaitingIsFree
  <2> QED BY <2>1, <2>2 DEF Queue!Enqueue
<1>5. ASSUME NEW t \in Tasks, Rejects(t) PROVE Queue!GiveBack(t)
  <2>1. t \notin Ready /\ Ready' = Ready
    BY <1>5 DEF Rejects
  <2> QED BY <1>5, <2>1 DEF Rejects, Queue!GiveBack
<1>6. CASE Midnight \/ UNCHANGED vars
  BY <1>6 DEF Midnight, vars, Queue!vars
<1> QED
  BY <1>1, <1>2, <1>3, <1>4, <1>5, <1>6 DEF Next, Claims, Queue!Next

\* However many handlers are between their statements, the queue is served as
\* if each claim were one step: what Lifecycle takes for granted.
THEOREM ClaimsAreAtomic == Spec => ClaimIsAtomic
<1>1. Init => WaitingIsFree /\ Queue!Init
  BY QueueInit DEF Init, WaitingIsFree
<1>2. ClaimInv /\ WaitingIsFree /\ [Next]_vars => WaitingIsFree'
  BY WaitingStep DEF ClaimInv
<1>3. ClaimInv /\ WaitingIsFree /\ [Next]_vars => [Queue!Next]_(Queue!vars)
  BY QueueStep
<1> QED
  BY <1>1, <1>2, <1>3, ClaimInvariance, PTL DEF Spec, ClaimIsAtomic, Queue!Spec

-----------------------------------------------------------------------------
(* The budget: counting the pods past the cap check, and those about to      *)
(* announce that the cap is hit.                                             *)

\* The sets of pods that are counted are finite.
LEMMA PodCount ==
    ASSUME NEW S \in SUBSET Pods
    PROVE  /\ IsFiniteSet(S)
           /\ Cardinality(S) \in Nat
           /\ Cardinality(S) <= Cardinality(Pods)
           /\ Cardinality(Pods) \in Nat
BY ClaimPods, FS_Subset, FS_CardinalityType

\* A pod that enters a set of pods adds one to its size.
LEMMA PodCountAdd ==
    ASSUME NEW S \in SUBSET Pods, NEW p \in Pods
    PROVE  Cardinality(S \union {p}) <= Cardinality(S) + 1
BY PodCount, FS_AddElement

\* A pod that leaves a set of pods takes one from its size.
LEMMA PodCountRemove ==
    ASSUME NEW S \in SUBSET Pods, NEW p \in S
    PROVE  Cardinality(S \ {p}) + 1 = Cardinality(S)
BY PodCount, FS_RemoveElement

\* A set of pods is at most as large as one that contains it.
LEMMA PodCountMonotone ==
    ASSUME NEW T \in SUBSET Pods, NEW S \in SUBSET T
    PROVE  Cardinality(S) <= Cardinality(T)
BY PodCount, FS_Subset

\* Multiplying both sides by a natural number keeps the order.
LEMMA ScaledLeq ==
    ASSUME NEW m \in Nat, NEW a \in Nat, NEW b \in Nat, a <= b
    PROVE  m * a <= m * b
OBVIOUS

\* One more result costs one more unit of MaxCost.
LEMMA ScaledNext ==
    ASSUME NEW m \in Nat, NEW a \in Nat
    PROVE  m * (a + 1) = m * a + m
OBVIOUS

\* Days to come have no spend; today's emitters and events are at most one
\* per pod together.
BudgetInv ==
    /\ \A d \in Days : d > day => spend[d] = 0 /\ capEvents[d] = 0
    /\ OvershootBounded
    /\ CapEventsBounded
    /\ capEvents[day] + Cardinality(Emitters) <= Cardinality(Pods)

\* A step that charges nothing and lets no new pod past the cap check.
LEMMA NoNewSpend ==
    ASSUME TypeOK, TypeOK', OvershootBounded, UNCHANGED <<day, spend>>,
           Active' \subseteq Active
    PROVE  OvershootBounded'
<1>1. Active \in SUBSET Pods /\ Active' \in SUBSET Pods
  BY DEF Active
<1>2. Cardinality(Active') <= Cardinality(Active)
  BY <1>1, PodCountMonotone
<1>3. Cardinality(Active) \in Nat /\ Cardinality(Active') \in Nat
      /\ Cardinality(Pods) \in Nat
  BY <1>1, PodCount
<1>4. MaxCost * Cardinality(Active') <= MaxCost * Cardinality(Active)
  BY <1>2, <1>3, ScaledLeq, ClaimBounds
<1>5. spend[day] \in Nat
  BY DEF TypeOK
<1>6. /\ MaxCost * Cardinality(Active') \in Nat
      /\ MaxCost * Cardinality(Active) \in Nat
      /\ MaxCost * Cardinality(Pods) \in Nat
  BY <1>3, ClaimBounds
<1> QED BY <1>4, <1>5, <1>6, ClaimBounds DEF OvershootBounded

\* Below the cap there is room for one result of every pod.
LEMMA RoomBelowCap ==
    ASSUME NEW S \in SUBSET Pods, NEW spent \in Nat, spent < Cap
    PROVE  spent + MaxCost * Cardinality(S) < Cap + MaxCost * Cardinality(Pods)
<1>1. MaxCost * Cardinality(S) <= MaxCost * Cardinality(Pods)
  BY PodCount, ScaledLeq, ClaimBounds
<1>2. MaxCost * Cardinality(S) \in Nat /\ MaxCost * Cardinality(Pods) \in Nat
  BY PodCount, ClaimBounds
<1> QED BY <1>1, <1>2, ClaimBounds

\* Every step keeps the overshoot below one result for each pod.
LEMMA OvershootStep ==
    ASSUME TypeOK, TypeOK', OvershootBounded, [Next]_vars,
           \A d \in Days : d > day => spend[d] = 0
    PROVE  OvershootBounded'
<1> USE DEF Goto, PastCheck
<1>1. ASSUME NEW p \in Pods, ReadSpend(p) PROVE OvershootBounded'
  <2>1. CASE CapReached
    <3>1. UNCHANGED <<day, spend>> /\ Active' \subseteq Active
      BY <1>1, <2>1 DEF ReadSpend, Active, TypeOK
    <3> QED BY <3>1, NoNewSpend
  <2>2. CASE ~CapReached
    <3>1. UNCHANGED <<day, spend>> /\ spend[day] \in Nat
      BY <1>1 DEF ReadSpend, TypeOK
    <3>2. Cap > 0 => spend[day] < Cap
      BY <2>2, <3>1, ClaimBounds DEF CapReached
    <3>3. Active' \in SUBSET Pods
      BY DEF Active
    <3>4. Cap > 0 => spend'[day'] \in Nat /\ spend'[day'] < Cap
      BY <3>1, <3>2
    <3> QED BY <3>3, <3>4, RoomBelowCap DEF OvershootBounded
  <2> QED BY <2>1, <2>2
<1>2. ASSUME NEW p \in Pods, \/ CheckEvents(p) \/ EmitCapHit(p)
                             \/ BeginImmediate(p) \/ BeginTimesOut(p)
      PROVE  OvershootBounded'
  <2>1. UNCHANGED <<day, spend>> /\ Active' \subseteq Active
    BY <1>2 DEF CheckEvents, EmitCapHit, BeginImmediate, BeginTimesOut,
                Active, TypeOK
  <2> QED BY <2>1, NoNewSpend
<1>3. ASSUME NEW p \in Pods, \/ SelectReady(p) \/ SelectNone(p)
                             \/ UpdateAndCommit(p) \/ Dies(p) \/ Restarts(p)
      PROVE  OvershootBounded'
  <2>1. UNCHANGED <<day, spend>> /\ Active' \subseteq Active
    BY <1>3 DEF SelectReady, SelectNone, UpdateAndCommit, Dies, Restarts,
                Active, TypeOK
  <2> QED BY <2>1, NoNewSpend
<1>4. ASSUME NEW t \in Tasks, Approves(t) \/ Rejects(t) \/ Requeues(t)
      PROVE  OvershootBounded'
  <2>1. UNCHANGED <<day, spend>> /\ Active' \subseteq Active
    BY <1>4 DEF Approves, Rejects, Requeues, Active
  <2> QED BY <2>1, NoNewSpend
<1>5. ASSUME NEW p \in Pods, Delivers(p) PROVE OvershootBounded'
  <2>1. PICK cost \in 0..MaxCost : spend' = [spend EXCEPT ![day] = @ + cost]
    BY <1>5 DEF Delivers
  <2>2. day' = day /\ spend'[day] = spend[day] + cost /\ spend[day] \in Nat
        /\ cost \in Nat /\ cost <= MaxCost
    BY <1>5, <2>1, ClaimBounds DEF Delivers, TypeOK
  <2>3. p \in Active /\ Active' = Active \ {p} /\ Active \in SUBSET Pods
    BY <1>5 DEF Delivers, Active, TypeOK
  <2>4. /\ Cardinality(Active') + 1 = Cardinality(Active)
        /\ Cardinality(Active') \in Nat
    BY <2>3, PodCountRemove, PodCount
  <2>5. MaxCost * Cardinality(Active) = MaxCost * Cardinality(Active') + MaxCost
    BY <2>4, ScaledNext, ClaimBounds
  <2>6. /\ MaxCost * Cardinality(Active') \in Nat
        /\ MaxCost * Cardinality(Pods) \in Nat
    BY <2>3, <2>4, PodCount, ClaimBounds
  <2> QED BY <2>2, <2>5, <2>6, ClaimBounds DEF OvershootBounded
<1>6. CASE Midnight
  <2>1. day' \in Days /\ day' > day /\ spend' = spend
    BY <1>6, ClaimBounds DEF Midnight, TypeOK
  <2>2. spend'[day'] = 0
    BY <2>1
  <2>3. Active' \in SUBSET Pods
    BY DEF Active
  <2>4. Cap > 0 => spend'[day'] \in Nat /\ spend'[day'] < Cap
    BY <2>2
  <2> QED BY <2>3, <2>4, RoomBelowCap DEF OvershootBounded
<1>7. CASE UNCHANGED vars
  <2>1. UNCHANGED <<day, spend>> /\ Active' \subseteq Active
    BY <1>7 DEF vars, Active
  <2> QED BY <2>1, NoNewSpend
<1> QED
  BY <1>1, <1>2, <1>3, <1>4, <1>5, <1>6, <1>7 DEF Next, Claims

\* Only the emitters change these two, one event for one emitter, and a pod
\* becomes an emitter only while no event is dated today.
LEMMA EventsStep ==
    ASSUME TypeOK, TypeOK', [Next]_vars,
           \A d \in Days : d > day => capEvents[d] = 0,
           CapEventsBounded,
           capEvents[day] + Cardinality(Emitters) <= Cardinality(Pods)
    PROVE  /\ CapEventsBounded'
           /\ (capEvents[day] + Cardinality(Emitters) <= Cardinality(Pods))'
<1> USE DEF Goto, PastCheck, CapEventsBounded
<1>0. /\ Emitters \in SUBSET Pods /\ Emitters' \in SUBSET Pods
      /\ Cardinality(Emitters) \in Nat /\ Cardinality(Emitters') \in Nat
      /\ Cardinality(Emitters') <= Cardinality(Pods)
      /\ Cardinality(Pods) \in Nat
  <2>1. Emitters \in SUBSET Pods /\ Emitters' \in SUBSET Pods
    BY DEF Emitters
  <2> QED BY <2>1, PodCount
<1>1. ASSUME UNCHANGED <<day, capEvents>>,
             Emitters' \subseteq Emitters \/ capEvents[day] = 0
      PROVE  /\ CapEventsBounded'
             /\ (capEvents[day] + Cardinality(Emitters) <= Cardinality(Pods))'
  <2>1. CapEventsBounded'
    BY <1>1
  <2>2. capEvents[day] \in Nat
    BY DEF TypeOK
  <2>3. CASE Emitters' \subseteq Emitters
    <3>1. Cardinality(Emitters') <= Cardinality(Emitters)
      BY <1>0, <2>3, PodCountMonotone
    <3> QED BY <1>0, <1>1, <2>1, <2>2, <3>1
  <2>4. CASE capEvents[day] = 0
    <3>1. capEvents'[day'] = 0
      BY <1>1, <2>4
    <3> QED BY <1>0, <2>1, <3>1
  <2> QED BY <1>1, <2>3, <2>4
<1>2. ASSUME NEW p \in Pods, CheckEvents(p)
      PROVE  UNCHANGED <<day, capEvents>>
             /\ (Emitters' \subseteq Emitters \/ capEvents[day] = 0)
  <2>1. capEvents[day] \in Nat
    BY DEF TypeOK
  <2>2. CASE capEvents[day] > 0
    BY <1>2, <2>2 DEF CheckEvents, Emitters, TypeOK
  <2>3. CASE capEvents[day] = 0
    BY <1>2, <2>3 DEF CheckEvents
  <2> QED BY <2>1, <2>2, <2>3
<1>3. ASSUME NEW p \in Pods,
             \/ ReadSpend(p) \/ BeginImmediate(p) \/ BeginTimesOut(p)
             \/ SelectReady(p) \/ SelectNone(p)
      PROVE  UNCHANGED <<day, capEvents>> /\ Emitters' \subseteq Emitters
  BY <1>3 DEF ReadSpend, BeginImmediate, BeginTimesOut, SelectReady,
              SelectNone, Emitters, TypeOK
<1>4. ASSUME NEW p \in Pods,
             UpdateAndCommit(p) \/ Delivers(p) \/ Dies(p) \/ Restarts(p)
      PROVE  UNCHANGED <<day, capEvents>> /\ Emitters' \subseteq Emitters
  BY <1>4 DEF UpdateAndCommit, Delivers, Dies, Restarts, Emitters, TypeOK
<1>5. ASSUME NEW t \in Tasks, Approves(t) \/ Rejects(t) \/ Requeues(t)
      PROVE  UNCHANGED <<day, capEvents>> /\ Emitters' \subseteq Emitters
  BY <1>5 DEF Approves, Rejects, Requeues, Emitters
<1>6. ASSUME NEW p \in Pods, EmitCapHit(p)
      PROVE  /\ CapEventsBounded'
             /\ (capEvents[day] + Cardinality(Emitters) <= Cardinality(Pods))'
  <2>1. p \in Emitters /\ Emitters' = Emitters \ {p}
    BY <1>6 DEF EmitCapHit, Emitters, TypeOK
  <2>2. Cardinality(Emitters') + 1 = Cardinality(Emitters)
    BY <1>0, <2>1, PodCountRemove
  <2>3. /\ day' = day /\ day \in Days /\ capEvents[day] \in Nat
        /\ capEvents' = [capEvents EXCEPT ![day] = @ + 1]
        /\ capEvents \in [Days -> Nat]
    BY <1>6 DEF EmitCapHit, TypeOK
  <2>4. capEvents'[day'] + Cardinality(Emitters') <= Cardinality(Pods)
    BY <1>0, <2>2, <2>3
  <2>5. \A d \in Days : capEvents'[d] <= Cardinality(Pods)
    BY <1>0, <2>2, <2>3
  <2> QED BY <2>4, <2>5
<1>7. CASE Midnight
  <2>1. day' \in Days /\ day' > day /\ capEvents' = capEvents
    BY <1>7, ClaimBounds DEF Midnight, TypeOK
  <2>2. capEvents'[day'] = 0
    BY <2>1
  <2> QED BY <1>0, <2>1, <2>2
<1>8. CASE UNCHANGED vars
  BY <1>8 DEF vars, Emitters
<1> QED
  BY <1>1, <1>2, <1>3, <1>4, <1>5, <1>6, <1>7, <1>8 DEF Next, Claims

\* No day that has not begun has any spend or any budget_cap_hit event.
LEMMA FutureStep ==
    ASSUME TypeOK, [Next]_vars,
           \A d \in Days : d > day => spend[d] = 0 /\ capEvents[d] = 0
    PROVE  \A d \in Days : d > day' => spend'[d] = 0 /\ capEvents'[d] = 0
<1>1. ASSUME UNCHANGED <<day, spend, capEvents>>
      PROVE  \A d \in Days : d > day' => spend'[d] = 0 /\ capEvents'[d] = 0
  BY <1>1
<1>2. ASSUME NEW p \in Pods, Delivers(p) \/ EmitCapHit(p)
      PROVE  \A d \in Days : d > day' => spend'[d] = 0 /\ capEvents'[d] = 0
  BY <1>2, ClaimBounds DEF Delivers, EmitCapHit, TypeOK
<1>3. CASE Midnight
  BY <1>3, ClaimBounds DEF Midnight, TypeOK
<1> QED
  BY <1>1, <1>2, <1>3
  DEF Next, Claims, ReadSpend, CheckEvents, BeginImmediate, BeginTimesOut,
      SelectReady, SelectNone, UpdateAndCommit, Dies, Restarts, Approves,
      Rejects, Requeues, vars

\* Nothing is spent and nothing announced at first.
LEMMA InitBudget == ASSUME Init PROVE BudgetInv
<1>1. Active \in SUBSET Pods /\ Emitters \in SUBSET Pods
  BY DEF Active, Emitters
<1>2. Emitters = {}
  BY DEF Init, Emitters
<1>3. OvershootBounded
  BY <1>1, DayZero, RoomBelowCap DEF Init, OvershootBounded
<1> QED
  BY <1>1, <1>2, <1>3, PodCount, DayZero, FS_EmptySet
  DEF Init, BudgetInv, CapEventsBounded

\* Both invariants together are inductive.
LEMMA BudgetInvariance == Spec => [](ClaimInv /\ BudgetInv)
<1>1. Init => ClaimInv /\ BudgetInv
  BY InitClaimInv, InitBudget
<1>2. ClaimInv /\ BudgetInv /\ [Next]_vars => ClaimInv' /\ BudgetInv'
  <2> SUFFICES ASSUME ClaimInv, BudgetInv, [Next]_vars
               PROVE  ClaimInv' /\ BudgetInv'
    OBVIOUS
  <2>1. ClaimInv'
    BY TypeStep, LockStep, DoubleClaimStep, ChoiceStep DEF ClaimInv
  <2>2. TypeOK /\ TypeOK'
    BY <2>1 DEF ClaimInv
  <2> QED
    BY <2>1, <2>2, OvershootStep, EventsStep, FutureStep DEF BudgetInv
<1> QED BY <1>1, <1>2, PTL DEF Spec

\* The daily cap is overshot by less than one result per pod.
THEOREM OvershootIsBounded == Spec => []OvershootBounded
<1>1. BudgetInv => OvershootBounded
  BY DEF BudgetInv
<1> QED BY <1>1, BudgetInvariance, PTL

\* At most one budget_cap_hit event per pod is dated on a day.
THEOREM CapEventsAreBounded == Spec => []CapEventsBounded
<1>1. BudgetInv => CapEventsBounded
  BY DEF BudgetInv
<1> QED BY <1>1, BudgetInvariance, PTL
=============================================================================
