----------------------------- MODULE Lifecycle -----------------------------
(***************************************************************************)
(* The task lifecycle of the framework: the backend's handlers over the    *)
(* tables tasks, pods, artifacts and budget_ledger (framework/services.py, *)
(* framework/scheduler.py), the user who drives the two gates, and the pod *)
(* workers (framework/pod/worker.py) that claim, execute and submit tasks  *)
(* over HTTP.                                                              *)
(*                                                                         *)
(* One handler is one atomic step here.  What is not atomic is everything  *)
(* around it: a pod may die between any two of its calls, a call may fail  *)
(* before it is served, be served with its reply lost, or be served after  *)
(* the pod gave up on it (the client's 30 s timeout does not cancel the    *)
(* handler), and the user may requeue a task whose pod still runs.         *)
(*                                                                         *)
(* Left out: the daily cap (module Claim), worktrees, candidate sets.      *)
(*                                                                         *)
(* A definition marked "Mutant" is a plausible slip in the one that        *)
(* follows; no action uses it.  Put in its place, it must make TLC find    *)
(* the property named in PROJECT.json violated.                            *)
(***************************************************************************)
EXTENDS Naturals, Sequences, FiniteSets

CONSTANTS
    Tasks,        \* task_ids
    Pods,         \* pod_ids
    NoTask,       \* NULL in a column that holds a task_id
    NoPod,        \* NULL in a column that holds a pod_id
    Specs,        \* contents of the columns `plan edit` can change
    Priority,     \* the priority column of each content
    CarefulUser,  \* requeue is used as its docstring says: the pod is gone
    MaxRetries,   \* bound on retry_count
    MaxLate       \* bound on the requests served after their client gave up

ASSUME NullAssumption == NoTask \notin Tasks /\ NoPod \notin Pods
ASSUME SpecsAssumption == Specs # {} /\ Priority \in [Specs -> Nat]
ASSUME CarefulUserAssumption == CarefulUser \in BOOLEAN
ASSUME BoundAssumption == MaxRetries \in Nat /\ MaxLate \in Nat

VARIABLES
    status,       \* tasks.status; "absent" before the row exists
    owner,        \* tasks.pod_id
    retries,      \* tasks.retry_count
    spec,         \* the editable columns
    older,        \* tasks created before this one (order of created_at)
    archived,     \* tasks whose archived_at is set
    approvals,    \* number of task_approved_before events
    podRow,       \* the pods table
    artifacts,    \* artifacts rows of each task, oldest first
    ledger,       \* pod_id of each budget_ledger row of the task
    pc,           \* where each pod process is
    job,          \* the task row a pod holds in memory
    late          \* requests whose client gave up, not served yet

gateVars == <<approvals, archived, older, spec>>
workVars == <<artifacts, ledger>>
tables   == <<status, owner, retries, spec, older, archived, approvals,
              podRow, artifacts, ledger>>
podVars  == <<pc, job, late>>
vars     == <<tables, podVars>>

Statuses == {"absent", "before_gate", "ready", "claimed", "running",
             "after_gate", "done", "rejected"}
InFlight == {"claimed", "running"}

\* The pod is in a call to the backend in each of these places.
Calls   == {"registering", "polling", "starting", "failing", "submitting"}
PodPcs  == Calls \union {"down", "working"}
\* Places where the pod executes the task in job[p].
Executing == {"starting", "working", "failing", "submitting"}

Jobs     == [task: Tasks, retry: 0..MaxRetries, spec: Specs]
NoJob    == [task |-> NoTask]
JobOf(t) == [task |-> t, retry |-> retries[t], spec |-> spec[t]]
Requests == [op: Calls, pod: Pods, job: Jobs \union {NoJob}]

\* What a pod sent: `by` and `retry` are the pod and the retry_count of the
\* row it claimed, whatever the tasks table says when the call is served.
Artifacts == [kind: {"result", "failure"}, by: Pods, retry: 0..MaxRetries]
Artifact(kind, p, j) == [kind |-> kind, by |-> p, retry |-> j.retry]

Holds(p, t) == pc[p] \in Executing /\ job[p].task = t
Attempted(t) == status[t] \in InFlight \union {"after_gate", "done"}

Init ==
    /\ status    = [t \in Tasks |-> "absent"]
    /\ owner     = [t \in Tasks |-> NoPod]
    /\ retries   = [t \in Tasks |-> 0]
    /\ spec      = [t \in Tasks |-> CHOOSE s \in Specs : TRUE]
    /\ older     = [t \in Tasks |-> {}]
    /\ archived  = {}
    /\ approvals = [t \in Tasks |-> 0]
    /\ podRow    = [p \in Pods |-> [status |-> "absent", current |-> NoTask]]
    /\ artifacts = [t \in Tasks |-> <<>>]
    /\ ledger    = [t \in Tasks |-> <<>>]
    /\ pc        = [p \in Pods |-> "down"]
    /\ job       = [p \in Pods |-> NoJob]
    /\ late      = {}

-----------------------------------------------------------------------------
(* The handlers pods call.  They change the tables only. *)

\* An UPDATE of the pods row of p (p may be NULL, or have no row).
UpdatePodRow(p, st, cur) ==
    podRow' = [q \in Pods |->
                 IF q = p /\ podRow[q].status # "absent"
                 THEN [status |-> st, current |-> cur]
                 ELSE podRow[q]]

\* The upsert resets the status and leaves current_task_id as it was.
RegisterPod(p) ==
    /\ podRow' = [podRow EXCEPT ![p].status = "idle"]
    /\ UNCHANGED <<status, owner, retries, gateVars, workVars>>

\* Mutant: the SELECT also returns tasks that are claimed already.
NextInQueueOrClaimed(t) ==
    /\ status[t] \in {"ready", "claimed"}
    /\ \A u \in Tasks : status[u] = "ready" => Priority[spec[u]] <= Priority[spec[t]]

\* ORDER BY priority DESC, created_at ASC LIMIT 1
NextInQueue(t) ==
    /\ status[t] = "ready"
    /\ \A u \in Tasks : status[u] = "ready" =>
          \/ Priority[spec[u]] < Priority[spec[t]]
          \/ Priority[spec[u]] = Priority[spec[t]] /\ u \notin older[t]

ClaimNextTask(p, t) ==
    /\ NextInQueue(t)
    /\ status' = [status EXCEPT ![t] = "claimed"]
    /\ owner' = [owner EXCEPT ![t] = p]
    /\ UpdatePodRow(p, "working", t)
    /\ UNCHANGED <<retries, gateVars, workVars>>

MarkRunning(t) ==
    /\ status[t] = "claimed"
    /\ status' = [status EXCEPT ![t] = "running"]
    /\ UNCHANGED <<owner, retries, podRow, gateVars, workVars>>

\* Mutant: the task is not required to be in flight.
DeliverAnyTime(t, artifact) ==
    /\ artifacts' = [artifacts EXCEPT ![t] = Append(@, artifact)]
    /\ status' = [status EXCEPT ![t] = "after_gate"]
    /\ UpdatePodRow(owner[t], "idle", NoTask)
    /\ UNCHANGED <<owner, retries, gateVars>>

\* Common to submit_result and report_failure: the task moves to the after
\* gate and the pods row of its owner, not of the caller, is freed.
Deliver(t, artifact) ==
    /\ status[t] \in InFlight
    /\ artifacts' = [artifacts EXCEPT ![t] = Append(@, artifact)]
    /\ status' = [status EXCEPT ![t] = "after_gate"]
    /\ UpdatePodRow(owner[t], "idle", NoTask)
    /\ UNCHANGED <<owner, retries, gateVars>>

SubmitResult(p, j) ==
    /\ Deliver(j.task, Artifact("result", p, j))
    /\ ledger' = [ledger EXCEPT ![j.task] = Append(@, owner[j.task])]

\* Mutant: a failure is charged like a result.
ReportFailureCharged(p, j) ==
    /\ Deliver(j.task, Artifact("failure", p, j))
    /\ ledger' = [ledger EXCEPT ![j.task] = Append(@, owner[j.task])]

ReportFailure(p, j) ==
    /\ Deliver(j.task, Artifact("failure", p, j))
    /\ UNCHANGED ledger

-----------------------------------------------------------------------------
(* The user, through the CLI. *)

CreateTask(t) ==
    /\ status[t] = "absent"
    /\ status' = [status EXCEPT ![t] = "before_gate"]
    /\ \E s \in Specs : spec' = [spec EXCEPT ![t] = s]
    /\ older' = [older EXCEPT ![t] = {u \in Tasks : status[u] # "absent"}]
    /\ UNCHANGED <<owner, retries, archived, approvals, podRow, workVars,
                   podVars>>

\* Mutant: a task can be edited until a pod runs it.
EditUntilRunning(t) ==
    /\ status[t] \in {"before_gate", "ready", "claimed"}
    /\ \E s \in Specs : spec' = [spec EXCEPT ![t] = s]
    /\ UNCHANGED <<status, owner, retries, older, archived, approvals, podRow,
                   workVars, podVars>>

EditTask(t) ==
    /\ status[t] = "before_gate"
    /\ \E s \in Specs : spec' = [spec EXCEPT ![t] = s]
    /\ UNCHANGED <<status, owner, retries, older, archived, approvals, podRow,
                   workVars, podVars>>

ApproveBefore(t) ==
    /\ status[t] = "before_gate"
    /\ status' = [status EXCEPT ![t] = "ready"]
    /\ approvals' = [approvals EXCEPT ![t] = @ + 1]
    /\ UNCHANGED <<owner, retries, spec, older, archived, podRow, workVars,
                   podVars>>

RejectBefore(t) ==
    /\ status[t] = "before_gate"
    /\ status' = [status EXCEPT ![t] = "rejected"]
    /\ UNCHANGED <<owner, retries, gateVars, podRow, workVars, podVars>>

ApproveAfter(t) ==
    /\ status[t] = "after_gate"
    /\ status' = [status EXCEPT ![t] = "done"]
    /\ UNCHANGED <<owner, retries, gateVars, podRow, workVars, podVars>>

\* Mutant: the new attempt keeps the retry_count of the old.
RejectAfterUncounted(t) ==
    /\ status[t] = "after_gate"
    /\ status' = [status EXCEPT ![t] = "before_gate"]
    /\ owner' = [owner EXCEPT ![t] = NoPod]
    /\ UNCHANGED <<retries, gateVars, podRow, workVars, podVars>>

RejectAfter(t) ==
    /\ status[t] = "after_gate"
    /\ retries[t] < MaxRetries
    /\ status' = [status EXCEPT ![t] = "before_gate"]
    /\ owner' = [owner EXCEPT ![t] = NoPod]
    /\ retries' = [retries EXCEPT ![t] = @ + 1]
    /\ UNCHANGED <<gateVars, podRow, workVars, podVars>>

\* Mutants: the retry_count is kept; the pods row of the owner is not freed.
RequeueUncounted(t) ==
    /\ status[t] \in InFlight
    /\ status' = [status EXCEPT ![t] = "ready"]
    /\ owner' = [owner EXCEPT ![t] = NoPod]
    /\ UNCHANGED <<retries, podRow, gateVars, workVars, podVars>>

RequeueKeepsRow(t) ==
    /\ status[t] \in InFlight
    /\ retries[t] < MaxRetries
    /\ status' = [status EXCEPT ![t] = "ready"]
    /\ owner' = [owner EXCEPT ![t] = NoPod]
    /\ retries' = [retries EXCEPT ![t] = @ + 1]
    /\ UNCHANGED <<podRow, gateVars, workVars, podVars>>

\* The pods row of the previous owner is freed only if it still names t.
RequeueTask(t) ==
    /\ status[t] \in InFlight
    /\ retries[t] < MaxRetries
    /\ CarefulUser => \A p \in Pods : ~Holds(p, t)
    /\ status' = [status EXCEPT ![t] = "ready"]
    /\ owner' = [owner EXCEPT ![t] = NoPod]
    /\ retries' = [retries EXCEPT ![t] = @ + 1]
    /\ IF owner[t] \in Pods /\ podRow[owner[t]].current = t
       THEN UpdatePodRow(owner[t], "idle", NoTask)
       ELSE UNCHANGED podRow
    /\ UNCHANGED <<gateVars, workVars, podVars>>

SessionReset ==
    /\ archived' = archived \union {t \in Tasks : status[t] \in {"done", "rejected"}}
    /\ UNCHANGED <<status, owner, retries, spec, older, approvals, podRow,
                   workVars, podVars>>

UserStep ==
    \/ \E t \in Tasks :
          \/ CreateTask(t)
          \/ EditTask(t)
          \/ ApproveBefore(t)
          \/ RejectBefore(t)
          \/ ApproveAfter(t)
          \/ RejectAfter(t)
          \/ RequeueTask(t)
    \/ SessionReset

-----------------------------------------------------------------------------
(* The pod processes. *)

PodAt(p, place, j) ==
    /\ pc' = [pc EXCEPT ![p] = place]
    /\ job' = [job EXCEPT ![p] = j]

\* Mutant: a call that failed is repeated until it succeeds.
AfterErrorRepeats(p) ==
    IF pc[p] \in {"starting", "failing"} THEN PodAt(p, pc[p], job[p])
                                         ELSE PodAt(p, "down", NoJob)

\* mark_running and report_failure are called under `except Exception`: the
\* pod goes back to its loop.  The other calls are not: the process ends.
AfterError(p) ==
    PodAt(p, IF pc[p] \in {"starting", "failing"} THEN "polling" ELSE "down",
          NoJob)

\* The handler ran; the pod gets the reply and goes on, or gets an error.
Served(p, place, j) ==
    /\ PodAt(p, place, j) \/ AfterError(p)
    /\ UNCHANGED late

PodRegisters(p) ==
    /\ pc[p] = "registering"
    /\ RegisterPod(p)
    /\ Served(p, "polling", NoJob)

PodClaims(p) ==
    /\ pc[p] = "polling"
    /\ \E t \in Tasks : ClaimNextTask(p, t) /\ Served(p, "starting", JobOf(t))

PodStarts(p) ==
    /\ pc[p] = "starting"
    /\ MarkRunning(job[p].task)
    /\ Served(p, "working", job[p])

\* The agent file, the contract check and the model call: a result, or one of
\* the failures that the pod reports.
PodCallsModel(p) ==
    /\ pc[p] = "working"
    /\ \E place \in {"submitting", "failing"} : PodAt(p, place, job[p])
    /\ UNCHANGED <<tables, late>>

PodSubmits(p) ==
    /\ pc[p] = "submitting"
    /\ SubmitResult(p, job[p])
    /\ Served(p, "polling", NoJob)

PodReportsFailure(p) ==
    /\ pc[p] = "failing"
    /\ ReportFailure(p, job[p])
    /\ Served(p, "polling", NoJob)

\* The request may still reach a handler after the pod stopped waiting for it.
GivesUp(p) ==
    \/ UNCHANGED late
    \/ /\ pc[p] \in Calls
       /\ Cardinality(late) < MaxLate
       /\ late' = late \union {[op |-> pc[p], pod |-> p, job |-> job[p]]}

\* The call is refused (4xx), never arrives, or times out.
PodCallFails(p) ==
    /\ pc[p] \in Calls
    /\ GivesUp(p)
    /\ AfterError(p)
    /\ UNCHANGED tables

PodStep(p) ==
    \/ PodRegisters(p)
    \/ PodClaims(p)
    \/ PodStarts(p)
    \/ PodCallsModel(p)
    \/ PodSubmits(p)
    \/ PodReportsFailure(p)
    \/ PodCallFails(p)

PodBoots(p) ==
    /\ pc[p] = "down"
    /\ PodAt(p, "registering", NoJob)
    /\ UNCHANGED <<tables, late>>

\* Killed, or ended by an exception, anywhere; or SIGTERM seen at the loop head.
PodExits(p) ==
    /\ pc[p] # "down"
    /\ GivesUp(p)
    /\ PodAt(p, "down", NoJob)
    /\ UNCHANGED tables

\* A handler serves a request nobody waits for, or the request is lost.
LateService(r) ==
    /\ late' = late \ {r}
    /\ \/ r.op = "registering" /\ RegisterPod(r.pod)
       \/ r.op = "polling" /\ \E t \in Tasks : ClaimNextTask(r.pod, t)
       \/ r.op = "starting" /\ MarkRunning(r.job.task)
       \/ r.op = "submitting" /\ SubmitResult(r.pod, r.job)
       \/ r.op = "failing" /\ ReportFailure(r.pod, r.job)
       \/ UNCHANGED tables
    /\ UNCHANGED <<pc, job>>

Next ==
    \/ UserStep
    \/ \E p \in Pods : PodStep(p) \/ PodBoots(p) \/ PodExits(p)
    \/ \E r \in late : LateService(r)

Spec == Init /\ [][Next]_vars

\* A running pod keeps taking its steps.  Nothing is assumed of the user, of
\* restarts or of late requests.
Fairness == \A p \in Pods : WF_vars(PodStep(p))
FairSpec == Spec /\ Fairness
-----------------------------------------------------------------------------
(* Properties. *)

TablesTypeOK ==
    /\ status    \in [Tasks -> Statuses]
    /\ owner     \in [Tasks -> Pods \union {NoPod}]
    /\ retries   \in [Tasks -> 0..MaxRetries]
    /\ spec      \in [Tasks -> Specs]
    /\ older     \in [Tasks -> SUBSET Tasks]
    /\ archived  \in SUBSET Tasks
    /\ approvals \in [Tasks -> Nat]
    /\ podRow    \in [Pods -> [status: {"absent", "idle", "working"},
                               current: Tasks \union {NoTask}]]
    /\ artifacts \in [Tasks -> Seq(Artifacts)]
    /\ ledger    \in [Tasks -> Seq(Pods)]

PodsTypeOK ==
    /\ pc   \in [Pods -> PodPcs]
    /\ job  \in [Pods -> Jobs \union {NoJob}]
    /\ late \in SUBSET Requests
    /\ \A p \in Pods : pc[p] \in Executing => job[p] \in Jobs
    /\ \A r \in late : r.op \in Executing => r.job \in Jobs

\* Every variable has its type: the rows hold what schema.sql lets them hold,
\* no ledger row lacks a pod, and a pod that executes has a task in memory.
TypeOK == TablesTypeOK /\ PodsTypeOK

\* An attempt is one claim of a task, told apart by the retry_count of the row
\* when it was claimed.  No attempt is ever executed by two pods, however
\* requeues, restarts, lost replies and late claims interleave.
NoSharedAttempt ==
    \A p, q \in Pods, t \in Tasks :
        p # q /\ Holds(p, t) /\ Holds(q, t) => job[p].retry # job[q].retry

\* What a pod executes is what the user approved: the editable columns of a
\* task cannot change under the pod that executes its current attempt.
ApprovedSpecRuns ==
    \A p \in Pods, t \in Tasks :
        Holds(p, t) /\ job[p].retry = retries[t] => job[p].spec = spec[t]

\* A pods row that says `working` names a task in flight that this pod owns,
\* although registration keeps current_task_id and a submit frees the row of
\* the owner instead of the caller's.
WorkingRowOwnsTask ==
    \A p \in Pods : podRow[p].status = "working" =>
        /\ podRow[p].current \in Tasks
        /\ owner[podRow[p].current] = p
        /\ status[podRow[p].current] \in InFlight

\* Attempts are dated by retry_count: a pod never holds one newer than the
\* row, and once a task is back in the queue or at the before gate every
\* attempt still running is older than the row.
AttemptsDated ==
    \A p \in Pods, t \in Tasks : Holds(p, t) =>
        IF Attempted(t) THEN job[p].retry <= retries[t]
                        ELSE job[p].retry < retries[t]

\* tasks.pod_id is set exactly while an attempt is in flight or awaiting the
\* user's verdict, so a pod_id never survives into a new attempt.
OwnerIffAttempted ==
    \A t \in Tasks : owner[t] \in Pods <=> Attempted(t)

\* Every artifact answers an approval of its own: an approved task yields one
\* artifact, and a second pod that submits a result for the same approval (a
\* stale attempt, a duplicate of a call that timed out) is refused.
OneArtifactPerApproval ==
    \A t \in Tasks :
        approvals[t] = Len(artifacts[t])
                         + (IF status[t] \in InFlight \union {"ready"} THEN 1 ELSE 0)

\* session_reset hides a task only when its life is over: nothing that still
\* waits for a pod or for the user drops out of the queue display.
ArchivedIsOver == \A t \in archived : status[t] \in {"done", "rejected"}

\* When requeue is used only for tasks whose pod is gone, and no request is
\* served late, at most one pod executes a task, and it is the task's owner.
OnlyOwnerExecutes ==
    \A p \in Pods, t \in Tasks :
        Holds(p, t) => /\ owner[t] = p
                       /\ job[p].retry = retries[t]
                       /\ status[t] \in InFlight

\* Under the same discipline the artifact the user judges comes from the
\* current attempt, and from the pod the tasks table names.
VerdictOnCurrentAttempt ==
    \A t \in Tasks : status[t] \in {"after_gate", "done"} =>
        LET a == artifacts[t][Len(artifacts[t])]
        IN  Len(artifacts[t]) > 0 /\ a.by = owner[t] /\ a.retry = retries[t]

\* How many of the first n artifacts of a task are results.
ResultsUpTo(t, n) == Cardinality({k \in 1..n : artifacts[t][k].kind = "result"})

\* One ledger line per pod API call, with the pod that made it: the rows of a
\* task name, in order, the pods that produced its results.
ChargedToProducer ==
    \A t \in Tasks :
        /\ Len(ledger[t]) = ResultsUpTo(t, Len(artifacts[t]))
        /\ \A i \in 1..Len(artifacts[t]) : artifacts[t][i].kind = "result" =>
              ledger[t][ResultsUpTo(t, i)] = artifacts[t][i].by

\* A ready task is claimed if some pod stays up: pods that fail, retry or
\* leave tasks behind cannot keep the others from the queue.
ReadyIsClaimed ==
    \A p \in Pods, t \in Tasks :
        <>[](pc[p] # "down") => (status[t] = "ready" ~> status[t] # "ready")

-----------------------------------------------------------------------------
(* The contract of the two gates, implemented by all of the above: a requeue *)
(* and everything pods do between claim and delivery are steps it allows.    *)

GateOf(st) == IF st \in InFlight \union {"ready"} THEN "released" ELSE st

Gates == INSTANCE GateContract WITH
    gate      <- [t \in Tasks |-> GateOf(status[t])],
    results   <- [t \in Tasks |-> Len(artifacts[t])]

\* No task reaches `done` without the user's approval at both gates, and no
\* approval is used twice: the framework implements GateContract.
GatesHold == Gates!Spec

\* The queue as a pod sees it: by priority, then by created_at.
Precedes(u, t) ==
    \/ Priority[spec[u]] > Priority[spec[t]]
    \/ Priority[spec[u]] = Priority[spec[t]] /\ u \in older[t]

Queue == INSTANCE TaskQueue WITH
    queued <- {t \in Tasks : status[t] = "ready"},
    ahead  <- {pair \in Tasks \X Tasks : Precedes(pair[1], pair[2])}

\* A task leaves the queue only to the pod that claims it, in its turn, and
\* while it waits nothing the user or a stale pod does gives it an owner or
\* changes its place among the tasks that wait with it.
QueueIsServed == Queue!Spec
=============================================================================
