------------------------------- MODULE Claim -------------------------------
(***************************************************************************)
(* claim_next_task (framework/scheduler.py) statement by statement, run by *)
(* one handler thread per calling pod, against what goes on meanwhile:     *)
(* results that add to the day's spend, approvals that add ready tasks,    *)
(* and the UTC day that rolls over between two reads.                      *)
(*                                                                         *)
(* The daily cap is read outside any transaction, the choice of the task   *)
(* and its update are inside one BEGIN IMMEDIATE.  SQLite lets one thread  *)
(* write at a time; a thread that waits for the write lock too long gets   *)
(* an error, which ends the calling pod.                                   *)
(*                                                                         *)
(* One unit of spend is the smallest cost; a result costs up to MaxCost.   *)
(*                                                                         *)
(* A definition marked "Mutant" is a plausible slip in the one that        *)
(* follows; no action uses it.                                             *)
(***************************************************************************)
EXTENDS Naturals, FiniteSets

CONSTANTS
    Pods, Tasks,
    NoPod,      \* the write lock is free; tasks.pod_id is NULL
    NoTask,     \* a pod that holds no task
    Rank,       \* priority of each task
    Created,    \* created_at of each task
    Cap,        \* budget.daily_cap_usd; 0 when no cap is set
    MaxCost,    \* bound on the cost of one result
    LastDay     \* bound on the days modelled

ASSUME ClaimNulls == NoPod \notin Pods /\ NoTask \notin Tasks
ASSUME ClaimOrder == Rank \in [Tasks -> Nat] /\ Created \in [Tasks -> Nat]
ASSUME ClaimBounds == Cap \in Nat /\ MaxCost \in Nat /\ LastDay \in Nat
ASSUME ClaimPods == IsFiniteSet(Pods)

VARIABLES
    day,        \* the current UTC day
    status,     \* tasks.status, from the before gate to the after gate
    owner,      \* tasks.pod_id
    spend,      \* SUM(cost_usd) of the ledger rows of each day
    capEvents,  \* number of budget_cap_hit events dated on each day
    writer,     \* the pod whose handler holds SQLite's write lock
    pc,         \* where each pod, or the handler that serves it, is
    task        \* the task a pod is about to be given, or works on

vars == <<day, status, owner, spend, capEvents, writer, pc, task>>

Days     == 0..LastDay
Statuses == {"before_gate", "ready", "claimed", "after_gate"}

\* check_events, emit, begin, select, update: the handler is about to run that
\* statement.  A pod past the cap check is in one of the last four places.
PastCheck == {"begin", "select", "update", "working"}
PodPcs    == PastCheck \union {"idle", "check_events", "emit", "down"}

Init ==
    /\ day = 0
    /\ status \in [Tasks -> {"before_gate", "ready"}]
    /\ owner = [t \in Tasks |-> NoPod]
    /\ spend = [d \in Days |-> 0]
    /\ capEvents = [d \in Days |-> 0]
    /\ writer = NoPod
    /\ pc = [p \in Pods |-> "idle"]
    /\ task = [p \in Pods |-> NoTask]

Goto(p, from, to) ==
    /\ pc[p] = from
    /\ pc' = [pc EXCEPT ![p] = to]

-----------------------------------------------------------------------------
(* The statements of claim_next_task. *)

\* Mutant: the spend must exceed the cap.
CapExceeded == Cap > 0 /\ spend[day] > Cap

CapReached == Cap > 0 /\ spend[day] >= Cap

\* _today_spend_usd, and the comparison with the cap
ReadSpend(p) ==
    /\ Goto(p, "idle", IF CapReached THEN "check_events" ELSE "begin")
    /\ UNCHANGED <<day, status, owner, spend, capEvents, writer, task>>

\* Mutant: the events are not looked at.
CheckNothing(p) ==
    /\ Goto(p, "check_events", "emit")
    /\ UNCHANGED <<day, status, owner, spend, capEvents, writer, task>>

\* budget_cap_hit_today; the call returns None if the event is there
CheckEvents(p) ==
    /\ Goto(p, "check_events", IF capEvents[day] > 0 THEN "idle" ELSE "emit")
    /\ UNCHANGED <<day, status, owner, spend, capEvents, writer, task>>

\* The event is dated by the clock at the time of emission.
EmitCapHit(p) ==
    /\ writer = NoPod
    /\ Goto(p, "emit", "idle")
    /\ capEvents' = [capEvents EXCEPT ![day] = @ + 1]
    /\ UNCHANGED <<day, status, owner, spend, writer, task>>

\* Mutant: a deferred BEGIN, which takes no lock before the UPDATE.
BeginDeferred(p) ==
    /\ Goto(p, "begin", "select")
    /\ UNCHANGED <<day, status, owner, spend, capEvents, writer, task>>

BeginImmediate(p) ==
    /\ writer = NoPod
    /\ Goto(p, "begin", "select")
    /\ writer' = p
    /\ UNCHANGED <<day, status, owner, spend, capEvents, task>>

\* "database is locked"
BeginTimesOut(p) ==
    /\ writer # NoPod
    /\ Goto(p, "begin", "down")
    /\ UNCHANGED <<day, status, owner, spend, capEvents, writer, task>>

Ready == {t \in Tasks : status[t] = "ready"}

\* ORDER BY priority DESC, created_at ASC
Precedes(u, t) == Rank[u] > Rank[t] \/ (Rank[u] = Rank[t] /\ Created[u] < Created[t])

\* Mutant: an empty queue is not noticed.
SelectAny(p) ==
    /\ Goto(p, "select", "update")
    /\ \E t \in IF Ready = {} THEN {NoTask} ELSE Ready : task' = [task EXCEPT ![p] = t]
    /\ UNCHANGED <<day, status, owner, spend, capEvents, writer>>

SelectReady(p) ==
    /\ Goto(p, "select", "update")
    /\ \E t \in Ready :
          /\ \A u \in Ready : ~Precedes(u, t)
          /\ task' = [task EXCEPT ![p] = t]
    /\ UNCHANGED <<day, status, owner, spend, capEvents, writer>>

\* Mutant: the early return leaves the transaction open.
SelectNoneOpen(p) ==
    /\ Goto(p, "select", "idle")
    /\ Ready = {}
    /\ UNCHANGED <<day, status, owner, spend, capEvents, writer, task>>

SelectNone(p) ==
    /\ Goto(p, "select", "idle")
    /\ Ready = {}
    /\ writer' = NoPod
    /\ UNCHANGED <<day, status, owner, spend, capEvents, task>>

\* UPDATE tasks, UPDATE pods, COMMIT; then the pod works on the task, or the
\* reply is lost with the pod and the task stays claimed.
UpdateAndCommit(p) ==
    /\ status' = [status EXCEPT ![task[p]] = "claimed"]
    /\ owner' = [owner EXCEPT ![task[p]] = p]
    /\ writer' = NoPod
    /\ \/ Goto(p, "update", "working") /\ UNCHANGED task
       \/ Goto(p, "update", "down") /\ task' = [task EXCEPT ![p] = NoTask]
    /\ UNCHANGED <<day, spend, capEvents>>

Claims(p) ==
    \/ ReadSpend(p)
    \/ CheckEvents(p)
    \/ EmitCapHit(p)
    \/ BeginImmediate(p)
    \/ BeginTimesOut(p)
    \/ SelectReady(p)
    \/ SelectNone(p)
    \/ UpdateAndCommit(p)

-----------------------------------------------------------------------------
(* What goes on around it. *)

\* submit_result charges the result to the day it arrives; report_failure
\* charges nothing.
Delivers(p) ==
    /\ writer = NoPod
    /\ Goto(p, "working", "idle")
    /\ status[task[p]] = "claimed"
    /\ status' = [status EXCEPT ![task[p]] = "after_gate"]
    /\ \E cost \in 0..MaxCost : spend' = [spend EXCEPT ![day] = @ + cost]
    /\ task' = [task EXCEPT ![p] = NoTask]
    /\ UNCHANGED <<day, owner, capEvents, writer>>

\* Killed while it works, or an error it does not survive.
Dies(p) ==
    /\ Goto(p, "working", "down")
    /\ task' = [task EXCEPT ![p] = NoTask]
    /\ UNCHANGED <<day, status, owner, spend, capEvents, writer>>

Restarts(p) ==
    /\ Goto(p, "down", "idle")
    /\ UNCHANGED <<day, status, owner, spend, capEvents, writer, task>>

Approves(t) ==
    /\ writer = NoPod
    /\ status[t] = "before_gate"
    /\ status' = [status EXCEPT ![t] = "ready"]
    /\ UNCHANGED <<day, owner, spend, capEvents, writer, pc, task>>

\* A task goes back to the before gate, or to the queue if its pod is gone.
Rejects(t) ==
    /\ writer = NoPod
    /\ status[t] = "after_gate"
    /\ status' = [status EXCEPT ![t] = "before_gate"]
    /\ owner' = [owner EXCEPT ![t] = NoPod]
    /\ UNCHANGED <<day, spend, capEvents, writer, pc, task>>

Requeues(t) ==
    /\ writer = NoPod
    /\ status[t] = "claimed"
    /\ \A p \in Pods : task[p] # t
    /\ status' = [status EXCEPT ![t] = "ready"]
    /\ owner' = [owner EXCEPT ![t] = NoPod]
    /\ UNCHANGED <<day, spend, capEvents, writer, pc, task>>

Midnight ==
    /\ day < LastDay
    /\ day' = day + 1
    /\ UNCHANGED <<status, owner, spend, capEvents, writer, pc, task>>

Next ==
    \/ \E p \in Pods : Claims(p) \/ Delivers(p) \/ Dies(p) \/ Restarts(p)
    \/ \E t \in Tasks : Approves(t) \/ Rejects(t) \/ Requeues(t)
    \/ Midnight

Spec == Init /\ [][Next]_vars

\* A handler thread runs to its end, whatever becomes of the pod that called.
Fairness == \A p \in Pods : WF_vars(Claims(p) /\ pc[p] # "idle")
FairSpec == Spec /\ Fairness

-----------------------------------------------------------------------------
(* Properties. *)

\* Every variable has its type; only a pod between its SELECT and its COMMIT,
\* or at work, is bound to a task.
TypeOK ==
    /\ day \in Days
    /\ status \in [Tasks -> Statuses]
    /\ owner \in [Tasks -> Pods \union {NoPod}]
    /\ spend \in [Days -> Nat]
    /\ capEvents \in [Days -> Nat]
    /\ writer \in Pods \union {NoPod}
    /\ pc \in [Pods -> PodPcs]
    /\ task \in [Pods -> Tasks \union {NoTask}]
    /\ \A p \in Pods : task[p] # NoTask <=> pc[p] \in {"update", "working"}

\* No task is given to two pods, and a pod works on a task only if the table
\* says it owns it: two handlers that chose the same row would break this.
NoDoubleClaim ==
    \A p \in Pods : pc[p] = "working" =>
        /\ status[task[p]] = "claimed"
        /\ owner[task[p]] = p

\* The row chosen by the SELECT is still ready, and still the first of the
\* queue, when the UPDATE runs: approvals and requeues wait for the COMMIT.
ChoiceStaysFirst ==
    \A p \in Pods : pc[p] = "update" =>
        /\ status[task[p]] = "ready"
        /\ \A u \in Ready : ~Precedes(u, task[p])

Precedence == {pair \in Tasks \X Tasks : Precedes(pair[1], pair[2])}

\* The queue is served as if a claim were one step: each goes to the first task
\* of the queue, which leaves it and has one owner, however many handlers are
\* between their statements; and no task leaves the queue in another way.
Queue == INSTANCE TaskQueue WITH
    queued <- Ready,
    ahead  <- Precedence

ClaimIsAtomic == Queue!Spec

Active   == {p \in Pods : pc[p] \in PastCheck}
Emitters == {p \in Pods : pc[p] = "emit"}

\* The cap is read before the transaction, so it is overshot, but by less than
\* one result per pod: what was spent today, plus all that is in flight, stays
\* below the cap plus one result for each pod.
OvershootBounded ==
    Cap > 0 =>
        spend[day] + MaxCost * Cardinality(Active) < Cap + MaxCost * Cardinality(Pods)

\* Handlers that race to announce the cap duplicate the event at most once per
\* pod and day.
CapEventsBounded ==
    \A d \in Days : capEvents[d] <= Cardinality(Pods)

\* The write lock is always released: no handler leaves a transaction open.
LockIsReleased == \A p \in Pods : writer = p ~> writer # p
=============================================================================
