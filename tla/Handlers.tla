------------------------------ MODULE Handlers ------------------------------
(***************************************************************************)
(* The backend's handlers statement by statement.  FastAPI runs every      *)
(* request in a thread of its own (the routes of framework/api/app.py are  *)
(* plain `def`s); a handler of framework/services.py reads the row of its  *)
(* task, checks the status, and then writes in autocommitted statements.   *)
(* Only the claim is a transaction.  Module Lifecycle takes each handler   *)
(* as one step; this module shows what that hides: two handlers of a task  *)
(* that overlap, a statement that fails, a backend killed half-way, and    *)
(* clients that give up while their handler goes on.                       *)
(*                                                                         *)
(* Left out: edits, worktrees (module Worktrees), candidate sets, the      *)
(* order of the queue (module Claim), the pods table (module Lifecycle)    *)
(* and the event and log lines, which no handler modelled here reads.      *)
(***************************************************************************)
EXTENDS Naturals, FiniteSets

CONSTANTS
    Tasks,        \* task_ids
    Pods,         \* pod_ids
    User,         \* the user at the CLI
    Nobody,       \* NULL in pod_id; the client of a request nobody waits for
    NoTask,       \* the task of a request or of a pod that has none
    Slots,        \* handler threads of the server
    MaxRetries    \* bound on retry_count: when the user stops retrying

ASSUME NullAssumption ==
    /\ User \notin Pods
    /\ Nobody \notin Pods \union {User}
    /\ NoTask \notin Tasks
ASSUME BoundAssumption == MaxRetries \in Nat

VARIABLES
    status,       \* tasks.status
    owner,        \* tasks.pod_id
    retries,      \* tasks.retry_count
    stored,       \* artifacts rows of each task
    charged,      \* budget_ledger rows of each task
    thread,       \* the handler in each slot
    pc,           \* where each pod process is
    job,          \* the task row a pod holds in memory
    shown,        \* history: the artifact that brought the task to its gate
    releases,     \* history: approvals at the before gate; 0 after an overlap
    deliveries,   \* history: moves to the after gate; 0 after an overlap
    overlapped    \* history: tasks two of whose handlers overlapped

tables  == <<status, owner, retries, stored, charged>>
clients == <<pc, job>>
history == <<shown, releases, deliveries, overlapped>>
vars    == <<tables, thread, clients, history>>

Statuses == {"absent", "before_gate", "ready", "claimed", "running",
             "after_gate", "done", "rejected"}
InFlight == {"claimed", "running"}

\* What the status must be when a handler reads the row of its task.
Expected == [mark_running   |-> {"claimed"},
             submit         |-> InFlight,
             fail           |-> InFlight,
             approve_before |-> {"before_gate"},
             reject_before  |-> {"before_gate"},
             approve_after  |-> {"after_gate"},
             reject_after   |-> {"after_gate"},
             requeue        |-> InFlight]
Deliveries == {"submit", "fail"}
UserOps    == {"approve_before", "reject_before", "approve_after",
               "reject_after", "requeue"}
Ops        == DOMAIN Expected \union {"create", "claim"}
\* The next statement of a handler; `reply` is its final read and its answer.
Points     == {"check", "artifact", "ledger", "status", "reply"}

\* A row of artifacts, and of budget_ledger: which attempt it stems from.
Artifacts == [kind: Deliveries, attempt: Nat]
NoRow     == [kind |-> "none"]
Jobs      == [task: Tasks, attempt: Nat]
NoJob     == [task |-> NoTask]
\* `by` sent the request, `client` waits for it; `attempt` is that of its row.
Threads   == [op: Ops, at: Points, client: Pods \union {User, Nobody},
              by: Pods \union {Nobody}, task: Tasks \union {NoTask},
              attempt: Nat]
NoThread  == [at |-> "free"]

Live(s)       == thread[s] # NoThread
Works(s, t)   == Live(s) /\ thread[s].task = t
Waits(c)      == \E s \in Slots : Live(s) /\ thread[s].client = c
ArtifactOf(h) == [kind |-> h.op, attempt |-> h.attempt]

\* Between its check and its last write to the row, and, for a claim, between
\* its COMMIT and the read that makes its answer.
Between(h) == \/ h.at \in {"artifact", "ledger", "status"}
              \/ h.op = "claim" /\ h.at = "reply"
OthersBetween(s, t) == \E r \in Slots \ {s} : Works(r, t) /\ Between(thread[r])

Init ==
    /\ status     = [t \in Tasks |-> "absent"]
    /\ owner      = [t \in Tasks |-> Nobody]
    /\ retries    = [t \in Tasks |-> 0]
    /\ stored     = [t \in Tasks |-> {}]
    /\ charged    = [t \in Tasks |-> {}]
    /\ thread     = [s \in Slots |-> NoThread]
    /\ pc         = [p \in Pods |-> "polling"]
    /\ job        = [p \in Pods |-> NoJob]
    /\ shown      = [t \in Tasks |-> NoRow]
    /\ releases   = [t \in Tasks |-> 0]
    /\ deliveries = [t \in Tasks |-> 0]
    /\ overlapped = {}
-----------------------------------------------------------------------------
(* Clients: a request opens a thread, and the client waits for it. *)

OpOf   == [polling |-> "claim", starting |-> "mark_running",
           submitting |-> "submit", failing |-> "fail"]
Calls  == DOMAIN OpOf

Begin(s, op, client, by, t, n) ==
    /\ ~Live(s)
    /\ ~Waits(client)
    /\ thread' = [thread EXCEPT ![s] =
           [op |-> op, at |-> IF op = "create" THEN "status" ELSE "check",
            client |-> client, by |-> by, task |-> t, attempt |-> n]]

PodCalls(p, s) ==
    /\ Begin(s, OpOf[pc[p]], p, p, job[p].task,
             IF job[p] = NoJob THEN 0 ELSE job[p].attempt)
    /\ UNCHANGED <<tables, clients, history>>

\* The user acts on what the task's status shows, and stops retrying at the
\* bound.  A task is created once.
UserCalls(s, t) ==
    /\ \/ status[t] = "absent" /\ Begin(s, "create", User, Nobody, t, 0)
       \/ \E op \in UserOps :
             /\ status[t] \in Expected[op]
             /\ op \in {"requeue", "reject_after"} => retries[t] < MaxRetries
             /\ Begin(s, op, User, Nobody, t, 0)
    /\ ~\E r \in Slots : Works(r, t) /\ thread[r].op = "create"
    /\ UNCHANGED <<tables, clients, history>>

PodAt(p, place, j) ==
    /\ pc' = [pc EXCEPT ![p] = place]
    /\ job' = [job EXCEPT ![p] = j]

\* The pod drops its task: it goes on polling, or ends and is started again.
\* In between it calls nothing, as it may at any time here.
AfterError(p) == PodAt(p, "polling", NoJob)

ClientError(c) == IF c \in Pods THEN AfterError(c) ELSE UNCHANGED clients

\* Nobody waits for c's request any more, if there is one; it goes on.
Orphaned(c) ==
    thread' = [s \in Slots |-> IF Live(s) /\ thread[s].client = c
                               THEN [thread[s] EXCEPT !.client = Nobody]
                               ELSE thread[s]]

\* The client's timeout, a lost reply, a request that never arrived, or a pod
\* that is killed.
PodGivesUp(p) ==
    /\ Orphaned(p)
    /\ AfterError(p)
    /\ UNCHANGED <<tables, history>>

UserGivesUp ==
    /\ Waits(User)
    /\ Orphaned(User)
    /\ UNCHANGED <<tables, clients, history>>
-----------------------------------------------------------------------------
(* The statements of a handler in slot s. *)

At(s, point) == Live(s) /\ thread[s].at = point
GoTo(s, point) == thread' = [thread EXCEPT ![s].at = point]
Ends(s) == thread' = [thread EXCEPT ![s] = NoThread]

\* Mutant: submit_result accepts what is already at the after gate.
ChecksPassedLoose(s) ==
    \/ status[thread[s].task] \in Expected[thread[s].op]
    \/ thread[s].op = "submit" /\ status[thread[s].task] = "after_gate"

ChecksPassed(s) == status[thread[s].task] \in Expected[thread[s].op]

ReadRow(s) ==
    LET t == thread[s].task
    IN  /\ At(s, "check")
        /\ thread[s].op \in DOMAIN Expected
        /\ ChecksPassed(s)
        /\ GoTo(s, IF thread[s].op \in Deliveries THEN "artifact" ELSE "status")
        /\ IF OthersBetween(s, t)
           THEN /\ overlapped' = overlapped \union {t}
                /\ releases' = [releases EXCEPT ![t] = 0]
                /\ deliveries' = [deliveries EXCEPT ![t] = 0]
           ELSE UNCHANGED <<releases, deliveries, overlapped>>
        /\ UNCHANGED <<tables, clients, shown>>

\* IllegalTransition: the client gets a 409.
Refuses(s) ==
    /\ At(s, "check")
    /\ thread[s].op \in DOMAIN Expected
    /\ ~ChecksPassed(s)
    /\ Ends(s)
    /\ ClientError(thread[s].client)
    /\ UNCHANGED <<tables, history>>

\* BEGIN IMMEDIATE to COMMIT; the row is read again for the answer.
ClaimNextTask(s, t) ==
    /\ At(s, "check") /\ thread[s].op = "claim"
    /\ status[t] = "ready"
    /\ status' = [status EXCEPT ![t] = "claimed"]
    /\ owner' = [owner EXCEPT ![t] = thread[s].by]
    /\ thread' = [thread EXCEPT ![s].at = "reply", ![s].task = t]
    /\ UNCHANGED <<retries, stored, charged, clients, history>>

\* Mutant: the empty answer of a claim is taken for a task.
ClaimNothingAsTask(s) ==
    /\ At(s, "check") /\ thread[s].op = "claim"
    /\ \A t \in Tasks : status[t] # "ready"
    /\ Ends(s)
    /\ IF thread[s].client \in Pods
       THEN PodAt(thread[s].client, "starting", [task |-> NoTask, attempt |-> 0])
       ELSE UNCHANGED clients
    /\ UNCHANGED <<tables, history>>

ClaimNothing(s) ==
    /\ At(s, "check") /\ thread[s].op = "claim"
    /\ \A t \in Tasks : status[t] # "ready"
    /\ Ends(s)
    /\ UNCHANGED <<tables, clients, history>>

\* Mutant: the status is updated before the ledger row is written, and
\* ends the handler.
InsertArtifactOnly(s) ==
    LET h == thread[s]
    IN  /\ At(s, "artifact")
        /\ stored' = [stored EXCEPT ![h.task] = @ \union {ArtifactOf(h)}]
        /\ GoTo(s, "status")
        /\ UNCHANGED <<status, owner, retries, charged, clients, history>>

InsertArtifact(s) ==
    LET h == thread[s]
    IN  /\ At(s, "artifact")
        /\ stored' = [stored EXCEPT ![h.task] = @ \union {ArtifactOf(h)}]
        /\ GoTo(s, IF h.op = "submit" THEN "ledger" ELSE "status")
        /\ UNCHANGED <<status, owner, retries, charged, clients, history>>

InsertLedgerRow(s) ==
    LET h == thread[s]
    IN  /\ At(s, "ledger")
        /\ charged' = [charged EXCEPT ![h.task] = @ \union {ArtifactOf(h)}]
        /\ GoTo(s, "status")
        /\ UNCHANGED <<status, owner, retries, stored, clients, history>>

Target == [create |-> "before_gate", mark_running |-> "running",
           submit |-> "after_gate", fail |-> "after_gate",
           approve_before |-> "ready", reject_before |-> "rejected",
           approve_after |-> "done", reject_after |-> "before_gate",
           requeue |-> "ready"]

\* UPDATE tasks ... WHERE task_id = ?, whatever the status is by now.
UpdateTask(s) ==
    LET h == thread[s]
        t == h.task
        again == h.op \in {"reject_after", "requeue"}
    IN  /\ At(s, "status")
        /\ status' = [status EXCEPT ![t] = Target[h.op]]
        /\ owner' = IF again THEN [owner EXCEPT ![t] = Nobody] ELSE owner
        /\ retries' = IF again THEN [retries EXCEPT ![t] = @ + 1] ELSE retries
        /\ GoTo(s, "reply")
        /\ shown' = IF h.op \in Deliveries
                    THEN [shown EXCEPT ![t] = ArtifactOf(h)] ELSE shown
        /\ releases' = IF h.op = "approve_before" /\ t \notin overlapped
                       THEN [releases EXCEPT ![t] = @ + 1] ELSE releases
        /\ deliveries' = IF h.op \in Deliveries /\ t \notin overlapped
                         THEN [deliveries EXCEPT ![t] = @ + 1] ELSE deliveries
        /\ UNCHANGED <<stored, charged, clients, overlapped>>

\* The row a pod gets from a claim is read after the COMMIT.  A pod that got
\* its task started calls the model and delivers a result or a failure.
Reply(s) ==
    LET h == thread[s]
    IN  /\ At(s, "reply")
        /\ Ends(s)
        /\ \/ h.client \notin Pods /\ UNCHANGED clients
           \/ /\ h.client \in Pods /\ h.op = "claim"
              /\ PodAt(h.client, "starting",
                       [task |-> h.task, attempt |-> retries[h.task]])
           \/ /\ h.client \in Pods /\ h.op = "mark_running"
              /\ \E place \in {"submitting", "failing"} :
                    PodAt(h.client, place, job[h.client])
           \/ /\ h.client \in Pods /\ h.op \in Deliveries
              /\ PodAt(h.client, "polling", NoJob)
        /\ UNCHANGED <<tables, history>>

\* A statement raises (the database stays locked for 30 s): what was written
\* stays, the client gets a 500.
Fails(s) ==
    /\ Live(s)
    /\ Ends(s)
    /\ ClientError(thread[s].client)
    /\ UNCHANGED <<tables, history>>

\* The backend is killed and started again: every thread is gone, every
\* client that waits gets an error.
Crash ==
    /\ thread' = [s \in Slots |-> NoThread]
    /\ pc' = [p \in Pods |-> IF Waits(p) THEN "polling" ELSE pc[p]]
    /\ job' = [p \in Pods |-> IF Waits(p) THEN NoJob ELSE job[p]]
    /\ UNCHANGED <<tables, history>>

Statement(s) ==
    \/ ReadRow(s)
    \/ Refuses(s)
    \/ \E t \in Tasks : ClaimNextTask(s, t)
    \/ ClaimNothing(s)
    \/ InsertArtifact(s)
    \/ InsertLedgerRow(s)
    \/ UpdateTask(s)
    \/ Reply(s)
    \/ Fails(s)

Client ==
    \/ \E p \in Pods, s \in Slots : PodCalls(p, s)
    \/ \E t \in Tasks, s \in Slots : UserCalls(s, t)
    \/ \E p \in Pods : PodGivesUp(p)
    \/ UserGivesUp

Next == Client \/ (\E s \in Slots : Statement(s)) \/ Crash

Spec == Init /\ [][Next]_vars
-----------------------------------------------------------------------------
(* Properties. *)

\* Every variable has its type; a handler that writes has a task and knows
\* what it delivers.
TypeOK ==
    /\ status     \in [Tasks -> Statuses]
    /\ owner      \in [Tasks -> Pods \union {Nobody}]
    /\ retries    \in [Tasks -> Nat]
    /\ stored     \in [Tasks -> SUBSET Artifacts]
    /\ charged    \in [Tasks -> SUBSET Artifacts]
    /\ thread     \in [Slots -> Threads \union {NoThread}]
    /\ pc         \in [Pods -> Calls]
    /\ job        \in [Pods -> Jobs \union {NoJob}]
    /\ shown      \in [Tasks -> Artifacts \union {NoRow}]
    /\ releases   \in [Tasks -> Nat]
    /\ deliveries \in [Tasks -> Nat]
    /\ overlapped \in SUBSET Tasks

\* What the user judges is stored, and paid for: whenever a task is at the
\* after gate or done, the artifact that brought it there has its row, and a
\* result has its ledger row, wherever handlers overlap, fail or are killed.
DeliveredIsStored ==
    \A t \in Tasks : status[t] \in {"after_gate", "done"} =>
        /\ shown[t] \in stored[t]
        /\ shown[t].kind = "submit" => shown[t] \in charged[t]

\* The contract of the two gates, with the status as the gate.
GateOf(st) == IF st \in InFlight \union {"ready"} THEN "released" ELSE st

Gates == INSTANCE GateContract WITH
    gate      <- [t \in Tasks |-> GateOf(status[t])],
    approvals <- releases,
    results   <- deliveries

\* Until two handlers of one task overlap between check and write, their
\* statements implement the contract of the two gates, although clients give
\* up, statements fail and the backend is killed anywhere: that is what lets
\* Lifecycle take a handler as one step.
GatesHoldUntilOverlap ==
    Gates!Init /\ [][overlapped' # {} \/ Gates!Next]_(Gates!vars)

\* The queue, without its order.
Queue == INSTANCE TaskQueue WITH
    NoPod  <- Nobody,
    queued <- {t \in Tasks : status[t] = "ready"},
    ahead  <- {}

\* A task none of whose handlers overlapped has an owner exactly while an
\* attempt is in flight, awaits its verdict or was accepted.
OwnerIffAttempted ==
    \A t \in Tasks \ overlapped :
        owner[t] # Nobody <=> status[t] \in InFlight \union {"after_gate", "done"}

\* Until two handlers of one task overlap, a task leaves the queue only to the
\* pod that claims it, although deliveries, requeues and rejections set the
\* status without looking at what it is by then.
QueueIsServedUntilOverlap ==
    Queue!Init /\ [][overlapped' # {} \/ Queue!Next]_(Queue!vars)
=============================================================================
