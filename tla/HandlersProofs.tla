--------------------------- MODULE HandlersProofs ---------------------------
(***************************************************************************)
(* Proofs about Handlers, for any tasks, pods, threads and retries: types, *)
(* that what the user judges is stored, and that until two handlers of a   *)
(* task overlap the statements implement the contract of the gates and the *)
(* queue.                                                                  *)
(***************************************************************************)
EXTENDS Handlers, TLAPS

\* A handler has a task unless it is a claim that has not found one, and is
\* only at the statements its operation has.
Shape(h) ==
    /\ h.op # "claim" => h.task \in Tasks
    /\ h.op = "claim" => /\ h.by \in Pods
                         /\ h.at \in {"check", "reply"}
                         /\ h.at = "reply" => h.task \in Tasks
    /\ h.op = "create" => h.at \in {"status", "reply"}
    /\ h.at = "artifact" => h.op \in Deliveries
    /\ h.at = "ledger" => h.op = "submit"

Shapes == \A s \in Slots : Live(s) => Shape(thread[s])

\* A pod past its claim holds a task, and waits for the call of its place only.
Places == \A p \in Pods : pc[p] # "polling" => job[p] \in Jobs

WaitsAtPlace ==
    \A s \in Slots : Live(s) /\ thread[s].client \in Pods =>
        thread[s].op = OpOf[pc[thread[s].client]]

WaitsOnce ==
    \A s, r \in Slots :
        /\ Live(s) /\ Live(r)
        /\ thread[s].client = thread[r].client
        /\ thread[s].client # Nobody
        => s = r

TInv == TypeOK /\ Shapes /\ Places /\ WaitsAtPlace /\ WaitsOnce

-----------------------------------------------------------------------------
(* Facts about the tables of operations. *)

LEMMA Operations ==
    /\ DOMAIN Expected = {"mark_running", "submit", "fail", "approve_before",
                          "reject_before", "approve_after", "reject_after",
                          "requeue"}
    /\ Calls = {"polling", "starting", "submitting", "failing"}
    /\ \A c \in Calls : OpOf[c] \in {"claim", "mark_running", "submit", "fail"}
    /\ \A c \in Calls : OpOf[c] = "claim" <=> c = "polling"
    /\ \A c \in Calls : OpOf[c] = "mark_running" <=> c = "starting"
    /\ \A op \in DOMAIN Expected :
          Expected[op] \in SUBSET {"before_gate", "claimed", "running",
                                   "after_gate"}
    /\ \A op \in Ops \ {"claim"} : Target[op] \in Statuses \ {"absent"}
BY DEF Expected, InFlight, Calls, OpOf, Ops, Target, Statuses

LEMMA LiveThread ==
    ASSUME TypeOK, NEW s \in Slots, Live(s)
    PROVE  /\ thread[s] \in Threads
           /\ thread[s] # NoThread
BY DEF TypeOK, Live

\* A thread in the tables of types is no free slot.
LEMMA ThreadsAreLive == \A h \in Threads : h # NoThread
BY DEF Threads, NoThread, Points

-----------------------------------------------------------------------------
(* Types. *)

LEMMA TypesInit == ASSUME Init PROVE TInv
<1> USE DEF Init
<1>1. TypeOK
  BY DEF TypeOK, Statuses, Calls, OpOf
<1>2. Shapes /\ Places /\ WaitsAtPlace /\ WaitsOnce
  BY DEF Shapes, Places, WaitsAtPlace, WaitsOnce, Live
<1> QED BY <1>1, <1>2 DEF TInv

\* A new thread waits for a client nobody else serves.
LEMMA TypesBegin ==
    ASSUME TInv, NEW s \in Slots, NEW op \in Ops, NEW c \in Pods \union {User},
           NEW by \in Pods \union {Nobody}, NEW t \in Tasks \union {NoTask},
           NEW n \in Nat, Begin(s, op, c, by, t, n),
           op # "claim" => t \in Tasks,
           op = "claim" => by \in Pods,
           c \in Pods => op = OpOf[pc[c]],
           UNCHANGED <<tables, clients, history>>
    PROVE  TInv'
<1> DEFINE h == [op |-> op, at |-> IF op = "create" THEN "status" ELSE "check",
                 client |-> c, by |-> by, task |-> t, attempt |-> n]
<1>1. h \in Threads
  BY DEF Threads, Points
<1>2. thread' = [thread EXCEPT ![s] = h] /\ ~Waits(c) /\ ~Live(s)
  BY DEF Begin
<1> HIDE DEF h
<1>3. TypeOK'
  BY <1>1, <1>2 DEF TInv, TypeOK, tables, clients, history
<1>4. thread \in [Slots -> Threads \union {NoThread}]
  BY DEF TInv, TypeOK
<1>5. Shape(h)
  BY DEF Shape, h, Deliveries
<1>6. h.client = c /\ h.op = op
  BY DEF h
<1>7. UNCHANGED <<pc, job>>
  BY DEF clients
<1>8. Shapes' /\ Places'
  BY <1>2, <1>4, <1>5, <1>7 DEF TInv, Shapes, Places, Live, Shape
<1>9. WaitsAtPlace'
  BY <1>2, <1>4, <1>6, <1>7 DEF TInv, WaitsAtPlace, Live
<1>10. WaitsOnce'
  BY <1>2, <1>4, <1>6 DEF TInv, WaitsOnce, Live, Waits
<1> QED BY <1>3, <1>8, <1>9, <1>10 DEF TInv

\* A handler goes on to its next statement.
LEMMA TypesMove ==
    ASSUME TInv, NEW s \in Slots, Live(s), NEW point \in Points,
           GoTo(s, point), Shape([thread[s] EXCEPT !.at = point]),
           UNCHANGED clients
    PROVE  /\ thread' \in [Slots -> Threads \union {NoThread}]
           /\ Shapes' /\ Places' /\ WaitsAtPlace' /\ WaitsOnce'
<1> DEFINE h == [thread[s] EXCEPT !.at = point]
<1>1. thread \in [Slots -> Threads \union {NoThread}]
  BY DEF TInv, TypeOK
<1>2. thread[s] \in Threads
  BY LiveThread DEF TInv
<1>3. h \in Threads /\ h.client = thread[s].client /\ h.op = thread[s].op
  BY <1>2 DEF Threads
<1>4. thread' = [thread EXCEPT ![s] = h]
  BY DEF GoTo
<1>5. Shape(h)
  OBVIOUS
<1> HIDE DEF h
<1>6. UNCHANGED <<pc, job>>
  BY DEF clients
<1>7. thread' \in [Slots -> Threads \union {NoThread}]
  BY <1>1, <1>3, <1>4
<1>8. Shapes' /\ Places'
  BY <1>1, <1>4, <1>5, <1>6 DEF TInv, Shapes, Places, Live, Shape
<1>9. WaitsAtPlace'
  BY <1>1, <1>3, <1>4, <1>6 DEF TInv, WaitsAtPlace, Live
<1>10. WaitsOnce'
  BY <1>1, <1>3, <1>4 DEF TInv, WaitsOnce, Live
<1> QED BY <1>7, <1>8, <1>9, <1>10

\* A handler ends without an effect on its client.
LEMMA TypesEnd ==
    ASSUME TInv, NEW s \in Slots, Ends(s), UNCHANGED <<clients, tables, history>>
    PROVE  TInv'
<1>1. thread \in [Slots -> Threads \union {NoThread}]
  BY DEF TInv, TypeOK
<1>2. UNCHANGED <<pc, job>>
  BY DEF clients
<1>3. TypeOK'
  BY <1>1 DEF TInv, TypeOK, Ends, clients, tables, history
<1>4. Shapes' /\ Places'
  BY <1>1, <1>2 DEF TInv, Shapes, Places, Live, Shape, Ends
<1>5. WaitsAtPlace' /\ WaitsOnce'
  BY <1>1, <1>2 DEF TInv, WaitsAtPlace, WaitsOnce, Live, Ends
<1> QED BY <1>3, <1>4, <1>5 DEF TInv

\* A handler ends and the pod that waits for it moves on.
LEMMA TypesAnswer ==
    ASSUME TInv, NEW s \in Slots, Live(s), Ends(s),
           NEW p \in Pods, thread[s].client = p,
           NEW place \in Calls, NEW j \in Jobs \union {NoJob},
           place # "polling" => j \in Jobs,
           PodAt(p, place, j), UNCHANGED <<tables, history>>
    PROVE  TInv'
<1>1. /\ thread \in [Slots -> Threads \union {NoThread}]
      /\ pc \in [Pods -> Calls]
      /\ job \in [Pods -> Jobs \union {NoJob}]
  BY DEF TInv, TypeOK
<1>2. TypeOK'
  BY <1>1 DEF TInv, TypeOK, Ends, PodAt, tables, history
<1>3. Shapes' /\ Places'
  BY <1>1 DEF TInv, Shapes, Places, Live, Shape, Ends, PodAt
<1>4. \A r \in Slots \ {s} : Live(r) => thread[r].client # p
  <2>1. p # Nobody
    BY NullAssumption
  <2> QED BY <2>1 DEF TInv, WaitsOnce
<1>5. WaitsAtPlace' /\ WaitsOnce'
  BY <1>1, <1>4 DEF TInv, WaitsAtPlace, WaitsOnce, Live, Ends, PodAt
<1> QED BY <1>2, <1>3, <1>5 DEF TInv

\* An error ends the handler and, if a pod waits for it, the pod's task.
LEMMA TypesError ==
    ASSUME TInv, NEW s \in Slots, Live(s), Ends(s),
           ClientError(thread[s].client), UNCHANGED <<tables, history>>
    PROVE  TInv'
<1>1. CASE thread[s].client \in Pods
  <2>1. PodAt(thread[s].client, "polling", NoJob)
    BY <1>1 DEF ClientError, AfterError
  <2>2. "polling" \in Calls
    BY Operations
  <2> QED BY <1>1, <2>1, <2>2, TypesAnswer
<1>2. CASE thread[s].client \notin Pods
  BY <1>2, TypesEnd DEF ClientError
<1> QED BY <1>1, <1>2

\* A client gives up: its handler goes on for nobody.
LEMMA TypesOrphaned ==
    ASSUME TInv, NEW c \in Pods \union {User}, Orphaned(c),
           \/ c \in Pods /\ AfterError(c)
           \/ c \notin Pods /\ UNCHANGED clients,
           UNCHANGED <<tables, history>>
    PROVE  TInv'
<1>1. /\ thread \in [Slots -> Threads \union {NoThread}]
      /\ pc \in [Pods -> Calls]
      /\ job \in [Pods -> Jobs \union {NoJob}]
  BY DEF TInv, TypeOK
<1>2. \A s \in Slots : thread'[s] \in Threads \union {NoThread}
  BY <1>1 DEF Orphaned, Live, Threads
<1>3. thread' \in [Slots -> Threads \union {NoThread}]
  BY <1>2 DEF Orphaned
<1>4. /\ pc' \in [Pods -> Calls]
      /\ job' \in [Pods -> Jobs \union {NoJob}]
      /\ \A p \in Pods \ {c} : pc'[p] = pc[p] /\ job'[p] = job[p]
      /\ c \in Pods => pc'[c] = "polling"
  BY <1>1, Operations DEF AfterError, PodAt, clients
<1>5. TypeOK'
  BY <1>3, <1>4 DEF TInv, TypeOK, tables, history
<1>6. \A s \in Slots :
        /\ Live(s)' = Live(s)
        /\ Live(s) => /\ thread'[s].op = thread[s].op
                      /\ thread'[s].at = thread[s].at
                      /\ thread'[s].by = thread[s].by
                      /\ thread'[s].task = thread[s].task
                      /\ thread'[s].client \in {thread[s].client, Nobody}
                      /\ thread'[s].client # c
  <2> TAKE s \in Slots
  <2>1. CASE ~Live(s)
    BY <1>1, <2>1 DEF Orphaned, Live
  <2>2. CASE Live(s)
    <3>1. thread[s] \in Threads
      BY <2>2, LiveThread DEF TInv
    <3>2. thread'[s] = IF thread[s].client = c
                       THEN [thread[s] EXCEPT !.client = Nobody] ELSE thread[s]
      BY <2>2 DEF Orphaned
    <3>3. thread'[s] \in Threads
      BY <3>1, <3>2 DEF Threads
    <3>4. Live(s)'
      BY <3>3, ThreadsAreLive DEF Live
    <3> QED BY <2>2, <3>1, <3>2, <3>4, NullAssumption DEF Threads
  <2> QED BY <2>1, <2>2
<1>7. Shapes' /\ Places'
  BY <1>4, <1>6 DEF TInv, Shapes, Places, Shape
<1>8. WaitsAtPlace'
  BY <1>4, <1>6, NullAssumption DEF TInv, WaitsAtPlace
<1>9. WaitsOnce'
  BY <1>6 DEF TInv, WaitsOnce
<1> QED BY <1>5, <1>7, <1>8, <1>9 DEF TInv

\* Every step keeps the types.
LEMMA TypesNext ==
    ASSUME TInv, [Next]_vars
    PROVE  TInv'
<1> USE Operations
<1>t. /\ status \in [Tasks -> Statuses]
      /\ owner \in [Tasks -> Pods \union {Nobody}]
      /\ retries \in [Tasks -> Nat]
      /\ stored \in [Tasks -> SUBSET Artifacts]
      /\ charged \in [Tasks -> SUBSET Artifacts]
      /\ pc \in [Pods -> Calls]
      /\ job \in [Pods -> Jobs \union {NoJob}]
      /\ shown \in [Tasks -> Artifacts \union {NoRow}]
      /\ releases \in [Tasks -> Nat]
      /\ deliveries \in [Tasks -> Nat]
      /\ overlapped \in SUBSET Tasks
  BY DEF TInv, TypeOK
<1>l. \A s \in Slots : Live(s) => thread[s] \in Threads /\ Shape(thread[s])
  BY LiveThread DEF TInv, Shapes
<1>1. ASSUME NEW p \in Pods, NEW s \in Slots, PodCalls(p, s) PROVE TInv'
  <2> DEFINE n == IF job[p] = NoJob THEN 0 ELSE job[p].attempt
  <2>1. job[p] \in Jobs => job[p].task \in Tasks /\ job[p].attempt \in Nat
    BY DEF Jobs
  <2>2. job[p] \in Jobs \union {NoJob} /\ NoJob.task = NoTask
    BY <1>t DEF NoJob
  <2>3. job[p].task \in Tasks \union {NoTask} /\ n \in Nat
    BY <2>1, <2>2
  <2>4. OpOf[pc[p]] \in Ops
    BY <1>t DEF Ops
  <2>5. OpOf[pc[p]] # "claim" => job[p].task \in Tasks
    BY <1>t, <2>1 DEF TInv, Places
  <2>6. Begin(s, OpOf[pc[p]], p, p, job[p].task, n)
    BY <1>1 DEF PodCalls
  <2> HIDE DEF n
  <2>7. UNCHANGED <<tables, clients, history>>
    BY <1>1 DEF PodCalls
  <2> QED BY <2>3, <2>4, <2>5, <2>6, <2>7, TypesBegin
<1>2. ASSUME NEW s \in Slots, NEW t \in Tasks, UserCalls(s, t) PROVE TInv'
  <2>1. PICK op \in Ops \ {"claim"} : Begin(s, op, User, Nobody, t, 0)
    BY <1>2 DEF UserCalls, UserOps, Ops
  <2>2. UNCHANGED <<tables, clients, history>>
    BY <1>2 DEF UserCalls
  <2> QED BY <2>1, <2>2, TypesBegin, NullAssumption
<1>3. ASSUME NEW p \in Pods, PodGivesUp(p) PROVE TInv'
  BY <1>3, TypesOrphaned DEF PodGivesUp
<1>4. ASSUME UserGivesUp PROVE TInv'
  BY <1>4, TypesOrphaned, NullAssumption DEF UserGivesUp
<1>5. ASSUME NEW s \in Slots, ReadRow(s) PROVE TInv'
  <2> DEFINE point == IF thread[s].op \in Deliveries THEN "artifact" ELSE "status"
  <2>1. /\ Live(s) /\ thread[s].op \in DOMAIN Expected
        /\ GoTo(s, point) /\ UNCHANGED clients
    BY <1>5 DEF ReadRow, At
  <2>2. point \in Points /\ Shape([thread[s] EXCEPT !.at = point])
    BY <1>l, <2>1 DEF Points, Shape, Deliveries, Threads
  <2> HIDE DEF point
  <2>3. /\ thread' \in [Slots -> Threads \union {NoThread}]
        /\ Shapes' /\ Places' /\ WaitsAtPlace' /\ WaitsOnce'
    BY <2>1, <2>2, TypesMove
  <2>4. thread[s].task \in Tasks
    BY <1>l, <2>1 DEF Shape
  <2>5. /\ releases' \in [Tasks -> Nat] /\ deliveries' \in [Tasks -> Nat]
        /\ overlapped' \in SUBSET Tasks
    BY <1>5, <1>t, <2>4 DEF ReadRow
  <2>6. TypeOK'
    BY <1>5, <1>t, <2>3, <2>5 DEF ReadRow, TypeOK, tables, clients
  <2> QED BY <2>3, <2>6 DEF TInv
<1>6. ASSUME NEW s \in Slots, Refuses(s) PROVE TInv'
  BY <1>6, TypesError DEF Refuses, At
<1>7. ASSUME NEW s \in Slots, NEW t \in Tasks, ClaimNextTask(s, t) PROVE TInv'
  <2> DEFINE h == [thread[s] EXCEPT !.at = "reply", !.task = t]
  <2>1. Live(s) /\ thread[s] \in Threads /\ Shape(thread[s])
    BY <1>7, <1>l DEF ClaimNextTask, At
  <2>2. thread \in [Slots -> Threads \union {NoThread}]
    BY DEF TInv, TypeOK
  <2>3. /\ h \in Threads /\ Shape(h) /\ h.op = thread[s].op
        /\ h.client = thread[s].client
    BY <1>7, <2>1 DEF ClaimNextTask, At, Shape, Threads, Points, Deliveries
  <2>4. thread' = [thread EXCEPT ![s] = h] /\ UNCHANGED <<pc, job>>
    BY <1>7 DEF ClaimNextTask, clients
  <2> HIDE DEF h
  <2>5. status' \in [Tasks -> Statuses] /\ owner' \in [Tasks -> Pods \union {Nobody}]
    <3>1. thread[s].by \in Pods
      BY <1>7, <2>1 DEF ClaimNextTask, Shape
    <3> QED BY <1>7, <1>t, <3>1 DEF ClaimNextTask, Statuses
  <2>6. TypeOK'
    <3>1. thread' \in [Slots -> Threads \union {NoThread}]
      BY <2>2, <2>3, <2>4
    <3>2. UNCHANGED <<retries, stored, charged, pc, job, shown, releases,
                      deliveries, overlapped>>
      BY <1>7, <2>4 DEF ClaimNextTask, history
    <3> QED BY <1>t, <2>5, <3>1, <3>2 DEF TypeOK
  <2>7. Shapes' /\ Places'
    BY <2>2, <2>3, <2>4 DEF TInv, Shapes, Places, Live, Shape
  <2>8. WaitsAtPlace' /\ WaitsOnce'
    BY <2>1, <2>2, <2>3, <2>4 DEF TInv, WaitsAtPlace, WaitsOnce, Live
  <2> QED BY <2>6, <2>7, <2>8 DEF TInv
<1>8. ASSUME NEW s \in Slots, ClaimNothing(s) PROVE TInv'
  BY <1>8, TypesEnd DEF ClaimNothing
<1>9. ASSUME NEW s \in Slots, InsertArtifact(s) PROVE TInv'
  <2> DEFINE point == IF thread[s].op = "submit" THEN "ledger" ELSE "status"
  <2>1. /\ Live(s) /\ thread[s].at = "artifact" /\ GoTo(s, point)
        /\ UNCHANGED clients
    BY <1>9 DEF InsertArtifact, At
  <2>2. point \in Points /\ Shape([thread[s] EXCEPT !.at = point])
    BY <1>l, <2>1 DEF Points, Shape, Deliveries, Threads
  <2> HIDE DEF point
  <2>3. /\ thread' \in [Slots -> Threads \union {NoThread}]
        /\ Shapes' /\ Places' /\ WaitsAtPlace' /\ WaitsOnce'
    BY <2>1, <2>2, TypesMove
  <2>4. ArtifactOf(thread[s]) \in Artifacts /\ thread[s].task \in Tasks
    BY <1>l, <2>1 DEF Shape, ArtifactOf, Artifacts, Threads, Deliveries
  <2>5. stored' \in [Tasks -> SUBSET Artifacts]
    BY <1>9, <1>t, <2>4 DEF InsertArtifact
  <2>6. TypeOK'
    BY <1>9, <1>t, <2>3, <2>5 DEF InsertArtifact, TypeOK, clients, history
  <2> QED BY <2>3, <2>6 DEF TInv
<1>10. ASSUME NEW s \in Slots, InsertLedgerRow(s) PROVE TInv'
  <2>1. /\ Live(s) /\ thread[s].at = "ledger" /\ GoTo(s, "status")
        /\ UNCHANGED clients
    BY <1>10 DEF InsertLedgerRow, At
  <2>2. "status" \in Points /\ Shape([thread[s] EXCEPT !.at = "status"])
    BY <1>l, <2>1 DEF Points, Shape, Deliveries, Threads
  <2>3. /\ thread' \in [Slots -> Threads \union {NoThread}]
        /\ Shapes' /\ Places' /\ WaitsAtPlace' /\ WaitsOnce'
    BY <2>1, <2>2, TypesMove
  <2>4. ArtifactOf(thread[s]) \in Artifacts /\ thread[s].task \in Tasks
    BY <1>l, <2>1 DEF Shape, ArtifactOf, Artifacts, Threads, Deliveries
  <2>5. charged' \in [Tasks -> SUBSET Artifacts]
    BY <1>10, <1>t, <2>4 DEF InsertLedgerRow
  <2>6. TypeOK'
    BY <1>10, <1>t, <2>3, <2>5 DEF InsertLedgerRow, TypeOK, clients, history
  <2> QED BY <2>3, <2>6 DEF TInv
<1>11. ASSUME NEW s \in Slots, UpdateTask(s) PROVE TInv'
  <2>1. /\ Live(s) /\ thread[s].at = "status" /\ GoTo(s, "reply")
        /\ UNCHANGED clients
    BY <1>11 DEF UpdateTask, At
  <2>2. "reply" \in Points /\ Shape([thread[s] EXCEPT !.at = "reply"])
    BY <1>l, <2>1 DEF Points, Shape, Deliveries, Threads
  <2>3. /\ thread' \in [Slots -> Threads \union {NoThread}]
        /\ Shapes' /\ Places' /\ WaitsAtPlace' /\ WaitsOnce'
    BY <2>1, <2>2, TypesMove
  <2>4. /\ thread[s].op \in Ops \ {"claim"} /\ thread[s].task \in Tasks
        /\ thread[s].attempt \in Nat
    BY <1>l, <2>1 DEF Shape, Threads
  <2>5. thread[s].op \in Deliveries => ArtifactOf(thread[s]) \in Artifacts
    BY <2>4 DEF ArtifactOf, Artifacts
  <2>6. status' \in [Tasks -> Statuses]
    BY <1>11, <1>t, <2>4 DEF UpdateTask
  <2>7. /\ owner' \in [Tasks -> Pods \union {Nobody}]
        /\ retries' \in [Tasks -> Nat]
    BY <1>11, <1>t, <2>4 DEF UpdateTask
  <2>8. shown' \in [Tasks -> Artifacts \union {NoRow}]
    BY <1>11, <1>t, <2>4, <2>5 DEF UpdateTask
  <2>9. releases' \in [Tasks -> Nat] /\ deliveries' \in [Tasks -> Nat]
    BY <1>11, <1>t, <2>4 DEF UpdateTask
  <2>10. UNCHANGED <<stored, charged, pc, job, overlapped>>
    BY <1>11 DEF UpdateTask, clients
  <2>11. TypeOK'
    BY <1>t, <2>3, <2>6, <2>7, <2>8, <2>9, <2>10 DEF TypeOK
  <2> QED BY <2>3, <2>11 DEF TInv
<1>12. ASSUME NEW s \in Slots, Reply(s) PROVE TInv'
  <2> DEFINE p == thread[s].client
  <2>1. /\ Live(s) /\ thread[s].at = "reply" /\ Ends(s)
        /\ UNCHANGED <<tables, history>>
    BY <1>12 DEF Reply, At
  <2>2. CASE p \notin Pods /\ UNCHANGED clients
    BY <2>1, <2>2, TypesEnd
  <2>3. CASE /\ p \in Pods /\ thread[s].op = "claim"
             /\ PodAt(p, "starting", [task |-> thread[s].task,
                                      attempt |-> retries[thread[s].task]])
    <3> DEFINE j == [task |-> thread[s].task, attempt |-> retries[thread[s].task]]
    <3>1. j \in Jobs
      BY <1>t, <1>l, <2>1, <2>3 DEF Shape, Jobs
    <3>2. PodAt(p, "starting", j)
      BY <2>3
    <3> HIDE DEF j
    <3> QED BY <2>1, <2>3, <3>1, <3>2, TypesAnswer
  <2>4. CASE /\ p \in Pods /\ thread[s].op = "mark_running"
             /\ \E place \in {"submitting", "failing"} : PodAt(p, place, job[p])
    <3>1. job[p] \in Jobs
      <4>1. pc[p] # "polling"
        BY <1>t, <2>1, <2>4 DEF TInv, WaitsAtPlace
      <4> QED BY <2>4, <4>1 DEF TInv, Places
    <3>2. PICK place \in {"submitting", "failing"} : PodAt(p, place, job[p])
      BY <2>4
    <3> QED BY <2>1, <2>4, <3>1, <3>2, TypesAnswer
  <2>5. CASE p \in Pods /\ PodAt(p, "polling", NoJob)
    BY <2>1, <2>5, TypesAnswer
  <2> QED BY <1>12, <2>2, <2>3, <2>4, <2>5 DEF Reply
<1>13. ASSUME NEW s \in Slots, Fails(s) PROVE TInv'
  BY <1>13, TypesError DEF Fails
<1>14. ASSUME Crash PROVE TInv'
  <2>1. \A s \in Slots : ~Live(s)'
    BY <1>14 DEF Crash, Live
  <2>2. TypeOK'
    BY <1>14, <1>t DEF Crash, TypeOK, tables, history
  <2>3. Places'
    BY <1>14, <1>t DEF Crash, TInv, Places
  <2> QED BY <2>1, <2>2, <2>3 DEF TInv, Shapes, WaitsAtPlace, WaitsOnce
<1>15. ASSUME UNCHANGED vars PROVE TInv'
  BY <1>15 DEF vars, tables, clients, history, TInv, TypeOK, Shapes, Places,
     WaitsAtPlace, WaitsOnce, Live, Shape
<1> QED
  BY <1>1, <1>2, <1>3, <1>4, <1>5, <1>6, <1>7, <1>8, <1>9, <1>10, <1>11,
     <1>12, <1>13, <1>14, <1>15
  DEF Next, Client, Statement

LEMMA TypesInvariant == Spec => []TInv
BY TypesInit, TypesNext, PTL DEF Spec

\* Every variable keeps its type, for any tasks, pods, threads and bounds.
THEOREM HandlersTypeCorrect == Spec => []TypeOK
<1>1. TInv => TypeOK
  BY DEF TInv
<1> QED BY <1>1, TypesInvariant, PTL

-----------------------------------------------------------------------------
(* What is judged is stored. *)

\* The artifact that brought t to its gate has its rows.
Kept(t) ==
    /\ shown[t] \in stored[t]
    /\ shown[t].kind = "submit" => shown[t] \in charged[t]

\* A handler has written what its statements so far say; one that is about to
\* accept an artifact has seen it at the gate.
Written(h) ==
    /\ h.op \in Deliveries /\ h.at \in {"ledger", "status"} =>
          ArtifactOf(h) \in stored[h.task]
    /\ h.op = "submit" /\ h.at = "status" => ArtifactOf(h) \in charged[h.task]
    /\ h.op = "approve_after" /\ h.at = "status" => Kept(h.task)

SInv == DeliveredIsStored /\ \A s \in Slots : Live(s) => Written(thread[s])

LEMMA StoredInit == ASSUME Init PROVE SInv
BY DEF Init, SInv, DeliveredIsStored, Live

\* Rows are only added: threads that live on have still written theirs.
LEMMA StoredMonotone ==
    ASSUME TInv, SInv,
           \A t \in Tasks : stored[t] \subseteq stored'[t]
                            /\ charged[t] \subseteq charged'[t],
           UNCHANGED <<status, shown>>,
           \A s \in Slots : Live(s)' =>
               \/ /\ Live(s)
                  /\ thread'[s].op = thread[s].op
                  /\ thread'[s].at = thread[s].at
                  /\ thread'[s].task = thread[s].task
                  /\ thread'[s].attempt = thread[s].attempt
               \/ Written(thread[s])'
    PROVE  SInv'
<1>1. \A t \in Tasks : Kept(t) => Kept(t)'
  BY DEF Kept
<1>2. DeliveredIsStored'
  BY <1>1 DEF SInv, DeliveredIsStored, Kept
<1>3. ASSUME NEW s \in Slots, Live(s), Live(s)',
             thread'[s].op = thread[s].op, thread'[s].at = thread[s].at,
             thread'[s].task = thread[s].task,
             thread'[s].attempt = thread[s].attempt
      PROVE  Written(thread[s])'
  <2>1. Written(thread[s]) /\ Shape(thread[s])
    BY <1>3 DEF SInv, TInv, Shapes
  <2>2. thread[s].op \in Deliveries \union {"approve_after"} => thread[s].task \in Tasks
    BY <2>1 DEF Shape, Deliveries
  <2> QED BY <1>1, <1>3, <2>1, <2>2 DEF Written, ArtifactOf, Deliveries
<1>4. \A s \in Slots : Live(s)' => Written(thread[s])'
  BY <1>3
<1> QED BY <1>2, <1>4 DEF SInv

LEMMA StoredNext ==
    ASSUME TInv, SInv, [Next]_vars
    PROVE  SInv'
<1>t. /\ thread \in [Slots -> Threads \union {NoThread}]
      /\ status \in [Tasks -> Statuses]
      /\ stored \in [Tasks -> SUBSET Artifacts]
      /\ charged \in [Tasks -> SUBSET Artifacts]
      /\ shown \in [Tasks -> Artifacts \union {NoRow}]
  BY DEF TInv, TypeOK
<1>l. \A s \in Slots : Live(s) => /\ thread[s] \in Threads
                                  /\ Shape(thread[s]) /\ Written(thread[s])
  BY LiveThread DEF TInv, Shapes, SInv
<1>1. ASSUME NEW s \in Slots, NEW op \in Ops, NEW c, NEW by, NEW t, NEW n,
             Begin(s, op, c, by, t, n), UNCHANGED <<tables, clients, history>>
      PROVE  SInv'
  <2>1. thread'[s].op = op /\ thread'[s].at \in {"check", "status"}
        /\ (thread'[s].at = "status" => op = "create")
    BY <1>1, <1>t DEF Begin
  <2>2. Written(thread[s])'
    BY <2>1 DEF Written, Deliveries
  <2>3. \A r \in Slots \ {s} : thread'[r] = thread[r]
    BY <1>1, <1>t DEF Begin
  <2> QED
    BY <1>1, <2>2, <2>3, StoredMonotone DEF Live, tables, history
<1>2. ASSUME NEW c, Orphaned(c), UNCHANGED <<tables, history>> PROVE SInv'
  <2>1. \A s \in Slots : Live(s)' =>
           /\ Live(s)
           /\ thread'[s].op = thread[s].op /\ thread'[s].at = thread[s].at
           /\ thread'[s].task = thread[s].task
           /\ thread'[s].attempt = thread[s].attempt
    BY <1>2, <1>l DEF Orphaned, Live, Threads
  <2> QED BY <1>2, <2>1, StoredMonotone DEF tables, history
<1>3. ASSUME NEW s \in Slots, Ends(s), UNCHANGED <<tables, history>> PROVE SInv'
  <2>1. \A r \in Slots : Live(r)' => Live(r) /\ thread'[r] = thread[r]
    BY <1>3, <1>t DEF Ends, Live
  <2> QED BY <1>3, <2>1, StoredMonotone DEF tables, history
<1>4. ASSUME NEW s \in Slots, Live(s), NEW point \in Points, GoTo(s, point),
             \A t \in Tasks : stored[t] \subseteq stored'[t]
                              /\ charged[t] \subseteq charged'[t],
             UNCHANGED <<status, shown>>, Written(thread[s])'
      PROVE  SInv'
  <2>1. \A r \in Slots \ {s} : thread'[r] = thread[r]
    BY <1>4, <1>t DEF GoTo
  <2> QED BY <1>4, <2>1, StoredMonotone DEF Live
<1>5. ASSUME NEW s \in Slots, Live(s), NEW point \in Points, GoTo(s, point)
      PROVE  /\ thread'[s].op = thread[s].op /\ thread'[s].at = point
             /\ thread'[s].task = thread[s].task
             /\ thread'[s].attempt = thread[s].attempt
  BY <1>5, <1>t, <1>l DEF GoTo, Threads
<1>6. ASSUME NEW s \in Slots, ReadRow(s) PROVE SInv'
  <2> DEFINE point == IF thread[s].op \in Deliveries THEN "artifact" ELSE "status"
  <2>1. /\ Live(s) /\ thread[s].op \in DOMAIN Expected
        /\ status[thread[s].task] \in Expected[thread[s].op]
        /\ point \in Points /\ GoTo(s, point)
        /\ UNCHANGED <<status, stored, charged, shown>>
    BY <1>6 DEF ReadRow, At, ChecksPassed, Points, tables
  <2>2. point \in {"artifact", "status"}
        /\ (point = "status" => thread[s].op \notin Deliveries)
    OBVIOUS
  <2> HIDE DEF point
  <2>3. thread[s].op = "approve_after" => Kept(thread[s].task)
    <3>1. Expected["approve_after"] = {"after_gate"}
      BY DEF Expected
    <3>2. thread[s].task \in Tasks
      BY <1>l, <2>1, Operations DEF Shape
    <3> QED BY <2>1, <3>1, <3>2 DEF SInv, DeliveredIsStored, Kept
  <2>4. Written(thread[s])'
    BY <1>5, <2>1, <2>2, <2>3 DEF Written, Kept, Deliveries
  <2> QED BY <1>4, <2>1, <2>4
<1>7. ASSUME NEW s \in Slots, NEW t \in Tasks, ClaimNextTask(s, t) PROVE SInv'
  <2>1. /\ Live(s) /\ thread[s].op = "claim"
        /\ thread' = [thread EXCEPT ![s].at = "reply", ![s].task = t]
        /\ status' = [status EXCEPT ![t] = "claimed"]
        /\ UNCHANGED <<stored, charged, shown>>
    BY <1>7 DEF ClaimNextTask, At, history
  <2>2. thread'[s].op = "claim" /\ \A r \in Slots \ {s} : thread'[r] = thread[r]
    BY <1>t, <1>l, <2>1 DEF Threads
  <2>3. DeliveredIsStored'
    BY <1>t, <2>1 DEF SInv, DeliveredIsStored
  <2>4. \A r \in Slots : Live(r)' => Written(thread[r])'
    BY <1>l, <2>1, <2>2 DEF Written, Live, Kept, ArtifactOf, Deliveries
  <2> QED BY <2>3, <2>4 DEF SInv
<1>8. ASSUME NEW s \in Slots, InsertArtifact(s) PROVE SInv'
  <2> DEFINE point == IF thread[s].op = "submit" THEN "ledger" ELSE "status"
  <2>1. /\ Live(s) /\ thread[s].at = "artifact" /\ GoTo(s, point)
        /\ stored' = [stored EXCEPT ![thread[s].task] =
                         @ \union {ArtifactOf(thread[s])}]
        /\ UNCHANGED <<status, charged, shown>>
    BY <1>8 DEF InsertArtifact, At, history
  <2>2. point \in {"ledger", "status"} /\ point \in Points
        /\ (thread[s].op = "submit" => point = "ledger")
    BY DEF Points
  <2> HIDE DEF point
  <2>3. thread[s].op \in Deliveries /\ thread[s].task \in Tasks
    BY <1>l, <2>1 DEF Shape, Deliveries
  <2>4. Written(thread[s])'
    BY <1>5, <1>t, <2>1, <2>2, <2>3 DEF Written, ArtifactOf, Deliveries
  <2> QED BY <1>4, <1>t, <2>1, <2>2, <2>3, <2>4
<1>9. ASSUME NEW s \in Slots, InsertLedgerRow(s) PROVE SInv'
  <2>1. /\ Live(s) /\ thread[s].at = "ledger" /\ GoTo(s, "status")
        /\ charged' = [charged EXCEPT ![thread[s].task] =
                          @ \union {ArtifactOf(thread[s])}]
        /\ UNCHANGED <<status, stored, shown>>
    BY <1>9 DEF InsertLedgerRow, At, history
  <2>2. thread[s].op = "submit" /\ thread[s].task \in Tasks
        /\ ArtifactOf(thread[s]) \in stored[thread[s].task]
    BY <1>l, <2>1 DEF Shape, Written, Deliveries
  <2>3. "status" \in Points
    BY DEF Points
  <2>4. Written(thread[s])'
    BY <1>5, <1>t, <2>1, <2>2, <2>3 DEF Written, ArtifactOf, Deliveries
  <2> QED BY <1>4, <1>t, <2>1, <2>2, <2>3, <2>4
<1>10. ASSUME NEW s \in Slots, UpdateTask(s) PROVE SInv'
  <2> DEFINE h == thread[s]
  <2>1. /\ Live(s) /\ h.at = "status" /\ GoTo(s, "reply")
        /\ status' = [status EXCEPT ![h.task] = Target[h.op]]
        /\ shown' = IF h.op \in Deliveries
                    THEN [shown EXCEPT ![h.task] = ArtifactOf(h)] ELSE shown
        /\ UNCHANGED <<stored, charged>>
    BY <1>10 DEF UpdateTask, At
  <2>2. h \in Threads /\ Shape(h) /\ Written(h)
    BY <1>l, <2>1
  <2>3. h.task \in Tasks /\ h.op # "claim"
    BY <2>1, <2>2 DEF Shape
  <2>a. PICK u \in Tasks : u = h.task
    BY <2>3
  <2>4. h.op \in Deliveries => Kept(u)'
    <3>1. ASSUME h.op \in Deliveries
          PROVE  /\ shown'[u] = ArtifactOf(h) /\ ArtifactOf(h) \in stored[u]
                 /\ h.op = "submit" => ArtifactOf(h) \in charged[u]
      BY <1>t, <2>1, <2>2, <2>a, <3>1 DEF Written
    <3>2. ArtifactOf(h).kind = h.op
      BY DEF ArtifactOf
    <3> QED BY <2>1, <3>1, <3>2 DEF Kept
  <2>5. \A t \in Tasks : Kept(t) => Kept(t)'
    <3>1. \A t \in Tasks \ {u} : shown'[t] = shown[t]
      BY <1>t, <2>1, <2>a
    <3>2. h.op \notin Deliveries => shown' = shown
      BY <2>1
    <3> QED BY <2>1, <2>4, <3>1, <3>2 DEF Kept
  <2>6. Target[h.op] \in {"after_gate", "done"} => Kept(u)'
    <3>1. h.op \in Ops \ {"claim"}
      BY <2>2, <2>3 DEF Threads
    <3>2. Target[h.op] \in {"after_gate", "done"} =>
             h.op \in Deliveries \union {"approve_after"}
      BY <3>1, Operations DEF Ops, Target, Deliveries
    <3> QED BY <2>1, <2>2, <2>a, <2>4, <2>5, <3>2 DEF Written
  <2>7. DeliveredIsStored'
    <3>1. ASSUME NEW t \in Tasks, status'[t] \in {"after_gate", "done"}
          PROVE  Kept(t)'
      <4>1. CASE t = u
        BY <1>t, <2>1, <2>a, <2>6, <3>1, <4>1
      <4>2. CASE t # u
        BY <1>t, <2>1, <2>a, <2>5, <3>1, <4>2 DEF SInv, DeliveredIsStored, Kept
      <4> QED BY <4>1, <4>2
    <3> QED BY <3>1 DEF DeliveredIsStored, Kept
  <2>8. \A r \in Slots \ {s} : thread'[r] = thread[r]
    BY <1>t, <2>1 DEF GoTo
  <2>9. thread'[s].at = "reply"
    BY <1>5, <2>1 DEF Points
  <2>10. ASSUME NEW r \in Slots, Live(r)' PROVE Written(thread[r])'
    <3>1. CASE r = s
      BY <2>9, <3>1 DEF Written
    <3>2. CASE r # s
      <4>1. Live(r) /\ thread'[r] = thread[r]
        BY <2>8, <2>10, <3>2 DEF Live
      <4>2. Written(thread[r]) /\ Shape(thread[r])
        BY <1>l, <4>1
      <4>3. thread[r].op = "approve_after" => thread[r].task \in Tasks
        BY <4>2 DEF Shape
      <4> QED BY <2>1, <2>5, <4>1, <4>2, <4>3 DEF Written
    <3> QED BY <3>1, <3>2
  <2> QED BY <2>7, <2>10 DEF SInv
<1>11. ASSUME Crash PROVE SInv'
  <2>1. \A s \in Slots : ~Live(s)'
    BY <1>11 DEF Crash, Live
  <2> QED BY <1>11, <2>1 DEF Crash, SInv, DeliveredIsStored, tables, history
<1>12. ASSUME UNCHANGED vars PROVE SInv'
  BY <1>12 DEF vars, tables, history, SInv, DeliveredIsStored, Live, Written,
     Kept, ArtifactOf
<1>13. ASSUME NEW p \in Pods, NEW s \in Slots, PodCalls(p, s) PROVE SInv'
  <2>1. OpOf[pc[p]] \in Ops
    BY Operations DEF TInv, TypeOK, Ops
  <2> QED BY <1>1, <1>13, <2>1 DEF PodCalls
<1>14. ASSUME NEW s \in Slots, NEW t \in Tasks, UserCalls(s, t) PROVE SInv'
  <2>1. PICK op \in Ops : Begin(s, op, User, Nobody, t, 0)
    BY <1>14, Operations DEF UserCalls, UserOps, Ops
  <2> QED BY <1>1, <1>14, <2>1 DEF UserCalls
<1>15. ASSUME NEW s \in Slots, Refuses(s) \/ ClaimNothing(s) \/ Reply(s) \/ Fails(s)
       PROVE  Ends(s) /\ UNCHANGED <<tables, history>>
  BY <1>15 DEF Refuses, ClaimNothing, Reply, Fails
<1>16. ASSUME \/ \E p \in Pods : PodGivesUp(p)
              \/ UserGivesUp
       PROVE  SInv'
  BY <1>2, <1>16 DEF PodGivesUp, UserGivesUp
<1> QED
  BY <1>3, <1>6, <1>7, <1>8, <1>9, <1>10, <1>11, <1>12, <1>13, <1>14, <1>15,
     <1>16
  DEF Next, Client, Statement

\* Whatever overlaps, fails or is killed: an artifact the user is asked about
\* has its row, and a result its ledger row.
THEOREM WhatIsShownIsStored == Spec => []DeliveredIsStored
<1>1. SInv => DeliveredIsStored
  BY DEF SInv
<1> QED BY <1>1, TypesInvariant, StoredInit, StoredNext, PTL DEF Spec

-----------------------------------------------------------------------------
(* The gates hold until two handlers of a task overlap. *)

\* Past the check of a transition; past the COMMIT of a claim; about to insert
\* a new task.
Window(h)  == h.op \in DOMAIN Expected /\ h.at \in {"artifact", "ledger", "status"}
Claimed(h) == h.op = "claim" /\ h.at = "reply"
Inserts(h) == h.op = "create" /\ h.at = "status"

\* What a handler past its check may still rely on.
Ordered(h) ==
    /\ Window(h) \/ Claimed(h) => status[h.task] # "absent"
    /\ Inserts(h) => status[h.task] = "absent"
    /\ h.task \notin overlapped =>
          /\ Window(h) => status[h.task] \in Expected[h.op]
          /\ Claimed(h) => status[h.task] = "claimed"

CreatesOnce ==
    \A s, r \in Slots :
        /\ Live(s) /\ Live(r) /\ thread[s].task = thread[r].task
        /\ thread[s].op = "create" /\ thread[r].op = "create"
        => s = r

Alone(t) ==
    \A s, r \in Slots :
        /\ Works(s, t) /\ Works(r, t)
        /\ Between(thread[s]) /\ Between(thread[r])
        => s = r

OInv ==
    /\ \A s \in Slots : Live(s) => Ordered(thread[s])
    /\ CreatesOnce
    /\ \A t \in Tasks : t \notin overlapped => Alone(t)

\* For a live handler, Between is one of the three.
LEMMA BetweenIs ==
    ASSUME TInv, NEW s \in Slots, Live(s)
    PROVE  Between(thread[s]) <=>
             Window(thread[s]) \/ Claimed(thread[s]) \/ Inserts(thread[s])
<1>1. thread[s] \in Threads /\ Shape(thread[s])
  BY LiveThread DEF TInv, Shapes
<1>2. Ops = DOMAIN Expected \union {"create", "claim"}
  BY DEF Ops
<1> QED BY <1>1, <1>2, Operations
        DEF Between, Window, Claimed, Inserts, Shape, Threads

LEMMA OrderInit == ASSUME Init PROVE OInv
BY DEF Init, OInv, CreatesOnce, Alone, Live, Works

\* Handlers that end, lose their client or go on before their last write.
LEMMA OrderQuiet ==
    ASSUME TInv, OInv, UNCHANGED <<status, overlapped>>,
           \A s \in Slots : Live(s)' =>
              /\ Live(s)
              /\ thread'[s].op = thread[s].op
              /\ thread'[s].task = thread[s].task
              /\ \/ thread'[s].at = thread[s].at
                 \/ /\ thread[s].op \in DOMAIN Expected
                    /\ thread[s].at \in {"artifact", "ledger"}
                    /\ thread'[s].at \in {"ledger", "status"}
    PROVE  OInv'
<1>1. "claim" \notin DOMAIN Expected /\ "create" \notin DOMAIN Expected
  BY Operations
<1>2. \A s \in Slots : Live(s)' =>
        /\ Live(s) /\ thread'[s].task = thread[s].task
        /\ thread'[s].op = thread[s].op
        /\ Window(thread[s])' <=> Window(thread[s])
        /\ Claimed(thread[s])' <=> Claimed(thread[s])
        /\ Inserts(thread[s])' <=> Inserts(thread[s])
        /\ Between(thread[s])' => Between(thread[s])
  BY <1>1 DEF Window, Claimed, Inserts, Between
<1>3. \A s \in Slots : Live(s)' => Ordered(thread[s])'
  BY <1>2 DEF OInv, Ordered
<1>4. CreatesOnce'
  BY <1>2 DEF OInv, CreatesOnce
<1>5. \A t \in Tasks : t \notin overlapped' => Alone(t)'
  BY <1>2 DEF OInv, Alone, Works
<1> QED BY <1>3, <1>4, <1>5 DEF OInv

LEMMA OrderNext ==
    ASSUME TInv, OInv, [Next]_vars
    PROVE  OInv'
<1>t. /\ thread \in [Slots -> Threads \union {NoThread}]
      /\ status \in [Tasks -> Statuses]
      /\ overlapped \in SUBSET Tasks
  BY DEF TInv, TypeOK
<1>l. \A s \in Slots : Live(s) => /\ thread[s] \in Threads
                                  /\ Shape(thread[s]) /\ Ordered(thread[s])
  BY LiveThread DEF TInv, Shapes, OInv
<1>b. \A s \in Slots : Live(s) =>
        (Between(thread[s]) <=>
           Window(thread[s]) \/ Claimed(thread[s]) \/ Inserts(thread[s]))
  BY BetweenIs
<1>c. "claim" \notin DOMAIN Expected /\ "create" \notin DOMAIN Expected
  BY Operations
<1>1. ASSUME NEW s \in Slots, NEW op \in Ops, NEW c, NEW by, NEW t, NEW n,
             Begin(s, op, c, by, t, n),
             op = "create" =>
                /\ t \in Tasks /\ status[t] = "absent"
                /\ ~\E r \in Slots : Works(r, t) /\ thread[r].op = "create",
             UNCHANGED <<tables, clients, history>>
      PROVE  OInv'
  <2>1. /\ thread'[s].op = op /\ thread'[s].task = t
        /\ thread'[s].at = IF op = "create" THEN "status" ELSE "check"
    BY <1>1, <1>t DEF Begin
  <2>2. /\ \A r \in Slots \ {s} : thread'[r] = thread[r] /\ Live(r)' = Live(r)
        /\ UNCHANGED <<status, overlapped>>
    BY <1>1, <1>t DEF Begin, Live, tables, history
  <2>3. Ordered(thread[s])'
    BY <1>1, <1>c, <2>1, <2>2 DEF Ordered, Window, Claimed, Inserts
  <2>4. \A r \in Slots : Live(r)' => Ordered(thread[r])'
    <3>1. \A r \in Slots \ {s} : Live(r)' => Ordered(thread[r])'
      BY <1>l, <2>2 DEF Ordered, Window, Claimed, Inserts
    <3> QED BY <2>3, <3>1
  <2>5. CreatesOnce'
    BY <1>1, <2>1, <2>2 DEF OInv, CreatesOnce, Works
  <2>6. ASSUME NEW u \in Tasks, u \notin overlapped' PROVE Alone(u)'
    <3>1. Between(thread[s])' <=> op = "create"
      BY <2>1 DEF Between
    <3>2. ASSUME op = "create", NEW r \in Slots \ {s}, Works(r, t)
          PROVE  ~Between(thread[r])
      <4>1. Live(r) /\ Ordered(thread[r]) /\ thread[r].op # "create"
        BY <1>1, <1>l, <3>2 DEF Works
      <4> QED BY <1>1, <1>b, <3>2, <4>1 DEF Ordered, Inserts, Works
    <3>3. Alone(u)
      BY <2>2, <2>6 DEF OInv
    <3> QED BY <2>1, <2>2, <3>1, <3>2, <3>3 DEF Alone, Works, Between
  <2> QED BY <2>4, <2>5, <2>6 DEF OInv
<1>2. ASSUME NEW s \in Slots, Live(s), NEW point \in Points, GoTo(s, point)
      PROVE  /\ thread'[s].op = thread[s].op /\ thread'[s].at = point
             /\ thread'[s].task = thread[s].task
             /\ \A r \in Slots \ {s} : thread'[r] = thread[r] /\ Live(r)' = Live(r)
  BY <1>2, <1>t, <1>l DEF GoTo, Threads, Live
<1>3. ASSUME NEW s \in Slots, Ends(s), UNCHANGED <<tables, history>> PROVE OInv'
  <2>1. \A r \in Slots : Live(r)' => Live(r) /\ thread'[r] = thread[r]
    BY <1>3, <1>t DEF Ends, Live
  <2> QED BY <1>3, <2>1, OrderQuiet DEF tables, history
<1>4. ASSUME NEW c, Orphaned(c), UNCHANGED <<tables, history>> PROVE OInv'
  <2>1. \A s \in Slots : Live(s)' =>
           /\ Live(s)
           /\ thread'[s].op = thread[s].op /\ thread'[s].at = thread[s].at
           /\ thread'[s].task = thread[s].task
    BY <1>4, <1>l DEF Orphaned, Live, Threads
  <2> QED BY <1>4, <2>1, OrderQuiet DEF tables, history
<1>5. ASSUME NEW s \in Slots, ReadRow(s) PROVE OInv'
  <2> DEFINE point == IF thread[s].op \in Deliveries THEN "artifact" ELSE "status"
  <2>1. /\ Live(s) /\ thread[s].op \in DOMAIN Expected
        /\ status[thread[s].task] \in Expected[thread[s].op]
        /\ point \in Points /\ GoTo(s, point) /\ UNCHANGED status
    BY <1>5 DEF ReadRow, At, ChecksPassed, Points, tables
  <2>2. point \in {"artifact", "status"}
    OBVIOUS
  <2> HIDE DEF point
  <2>3. PICK u \in Tasks : u = thread[s].task
    BY <1>c, <1>l, <2>1 DEF Shape
  <2>4. status[u] # "absent"
    BY <2>1, <2>3, Operations
  <2>5. /\ thread'[s].op = thread[s].op /\ thread'[s].at = point
        /\ thread'[s].task = u
        /\ \A r \in Slots \ {s} : thread'[r] = thread[r] /\ Live(r)' = Live(r)
    BY <1>2, <2>1, <2>3
  <2>6. /\ overlapped \subseteq overlapped'
        /\ overlapped' \subseteq overlapped \union {u}
        /\ u \notin overlapped' =>
              \A r \in Slots \ {s} : Works(r, u) => ~Between(thread[r])
    BY <1>5, <2>3 DEF ReadRow, OthersBetween
  <2>7. \A r \in Slots : Live(r)' => Ordered(thread[r])'
    <3>1. Ordered(thread[s])'
      BY <1>c, <2>1, <2>3, <2>4, <2>5 DEF Ordered, Window, Claimed, Inserts
    <3>2. \A r \in Slots \ {s} : Live(r)' => Ordered(thread[r])'
      BY <1>l, <2>1, <2>5, <2>6 DEF Ordered, Window, Claimed, Inserts
    <3> QED BY <3>1, <3>2
  <2>8. CreatesOnce'
    BY <1>c, <2>1, <2>5 DEF OInv, CreatesOnce
  <2>9. ASSUME NEW t \in Tasks, t \notin overlapped' PROVE Alone(t)'
    <3>1. Alone(t)
      BY <2>6, <2>9 DEF OInv
    <3>2. CASE t = u
      BY <2>5, <2>6, <2>9, <3>2 DEF Alone, Works, Between
    <3>3. CASE t # u
      BY <2>5, <3>1, <3>3 DEF Alone, Works, Between
    <3> QED BY <3>2, <3>3
  <2> QED BY <2>7, <2>8, <2>9 DEF OInv
<1>6. ASSUME NEW s \in Slots, NEW t \in Tasks, ClaimNextTask(s, t) PROVE OInv'
  <2>1. /\ Live(s) /\ thread[s].op = "claim" /\ status[t] = "ready"
        /\ thread' = [thread EXCEPT ![s].at = "reply", ![s].task = t]
        /\ status' = [status EXCEPT ![t] = "claimed"]
        /\ UNCHANGED overlapped
    BY <1>6 DEF ClaimNextTask, At, history
  <2>2. /\ thread'[s].op = "claim" /\ thread'[s].at = "reply"
        /\ thread'[s].task = t
        /\ \A r \in Slots \ {s} : thread'[r] = thread[r] /\ Live(r)' = Live(r)
    BY <1>t, <1>l, <2>1 DEF Threads, Live
  <2>3. ASSUME NEW r \in Slots \ {s}, Works(r, t)
        PROVE  /\ ~Inserts(thread[r])
               /\ t \notin overlapped => ~Between(thread[r])
    <3>1. Live(r) /\ Ordered(thread[r]) /\ thread[r].task = t
      BY <1>l, <2>3 DEF Works
    <3>2. Window(thread[r]) => "ready" \notin Expected[thread[r].op]
      BY Operations DEF Window
    <3> QED BY <1>b, <2>1, <3>1, <3>2 DEF Ordered
  <2>4. \A r \in Slots : Live(r)' => Ordered(thread[r])'
    <3>1. Ordered(thread[s])'
      BY <1>c, <1>t, <2>1, <2>2 DEF Ordered, Window, Claimed, Inserts
    <3>2. ASSUME NEW r \in Slots \ {s}, Live(r)' PROVE Ordered(thread[r])'
      <4>1. Live(r) /\ Ordered(thread[r]) /\ thread'[r] = thread[r]
        BY <1>l, <2>2, <3>2
      <4>2. CASE thread[r].task = t
        BY <1>b, <1>t, <2>1, <2>3, <4>1, <4>2
        DEF Ordered, Window, Claimed, Inserts, Works
      <4>3. CASE thread[r].task # t
        BY <1>t, <2>1, <4>1, <4>3 DEF Ordered, Window, Claimed, Inserts
      <4> QED BY <4>2, <4>3
    <3> QED BY <3>1, <3>2
  <2>5. CreatesOnce'
    BY <2>1, <2>2 DEF OInv, CreatesOnce
  <2>6. ASSUME NEW u \in Tasks, u \notin overlapped' PROVE Alone(u)'
    <3>1. Alone(u)
      BY <2>1, <2>6 DEF OInv
    <3>2. CASE t = u
      BY <2>1, <2>2, <2>3, <2>6, <3>2 DEF Alone, Works, Between
    <3>3. CASE t # u
      BY <2>2, <3>1, <3>3 DEF Alone, Works, Between
    <3> QED BY <3>2, <3>3
  <2> QED BY <2>4, <2>5, <2>6 DEF OInv
<1>7. ASSUME NEW s \in Slots, InsertArtifact(s) \/ InsertLedgerRow(s) PROVE OInv'
  <2>1. PICK point \in {"ledger", "status"} : GoTo(s, point)
    BY <1>7 DEF InsertArtifact, InsertLedgerRow
  <2>2. /\ Live(s) /\ thread[s].at \in {"artifact", "ledger"}
        /\ UNCHANGED <<status, overlapped>>
    BY <1>7 DEF InsertArtifact, InsertLedgerRow, At, history
  <2>3. thread[s].op \in DOMAIN Expected
    BY <1>l, <2>2, Operations DEF Shape, Deliveries
  <2>4. "ledger" \in Points /\ "status" \in Points
    BY DEF Points
  <2> QED BY <1>2, <2>1, <2>2, <2>3, <2>4, OrderQuiet
<1>8. ASSUME NEW s \in Slots, UpdateTask(s) PROVE OInv'
  <2>1. /\ Live(s) /\ thread[s].at = "status" /\ GoTo(s, "reply")
        /\ status' = [status EXCEPT ![thread[s].task] = Target[thread[s].op]]
        /\ UNCHANGED overlapped
    BY <1>8 DEF UpdateTask, At
  <2>2. /\ thread[s].op \in Ops \ {"claim"} /\ thread[s].task \in Tasks
        /\ Ordered(thread[s])
    BY <1>l, <2>1 DEF Shape, Threads
  <2>3. PICK u \in Tasks : u = thread[s].task
    BY <2>2
  <2>4. status'[u] # "absent"
    BY <1>t, <2>1, <2>2, <2>3, Operations
  <2>5. /\ thread'[s].op = thread[s].op /\ thread'[s].at = "reply"
        /\ thread'[s].task = u
        /\ \A r \in Slots \ {s} : thread'[r] = thread[r] /\ Live(r)' = Live(r)
    BY <1>2, <2>1, <2>3 DEF Points
  <2>6. Window(thread[s]) \/ Inserts(thread[s])
    BY <2>1, <2>2 DEF Window, Inserts, Ops
  <2>7. ASSUME NEW r \in Slots \ {s}, Works(r, u)
        PROVE  /\ ~Inserts(thread[r])
               /\ u \notin overlapped => ~Between(thread[r])
    <3>1. Live(r) /\ Ordered(thread[r]) /\ thread[r].task = u
      BY <1>l, <2>7 DEF Works
    <3>2. ~Inserts(thread[r])
      <4>1. CASE Window(thread[s])
        BY <2>2, <2>3, <3>1, <4>1 DEF Ordered
      <4>2. CASE Inserts(thread[s])
        BY <2>1, <2>3, <2>7, <3>1, <4>2 DEF OInv, CreatesOnce, Inserts
      <4> QED BY <2>6, <4>1, <4>2
    <3>3. u \notin overlapped => ~Between(thread[r])
      <4>1. Between(thread[s]) /\ Works(s, u)
        BY <2>1, <2>3 DEF Between, Works
      <4> QED BY <2>7, <4>1 DEF OInv, Alone
    <3> QED BY <3>2, <3>3
  <2>8. \A r \in Slots : Live(r)' => Ordered(thread[r])'
    <3>1. Ordered(thread[s])'
      BY <2>2, <2>5 DEF Ordered, Window, Claimed, Inserts
    <3>2. ASSUME NEW r \in Slots \ {s}, Live(r)' PROVE Ordered(thread[r])'
      <4>1. Live(r) /\ Ordered(thread[r]) /\ thread'[r] = thread[r]
        BY <1>l, <2>5, <3>2
      <4>2. CASE thread[r].task = u
        BY <1>b, <2>1, <2>4, <2>7, <4>1, <4>2
        DEF Ordered, Window, Claimed, Inserts, Works
      <4>3. CASE thread[r].task # u
        BY <1>t, <2>1, <2>3, <4>1, <4>3 DEF Ordered, Window, Claimed, Inserts
      <4> QED BY <4>2, <4>3
    <3> QED BY <3>1, <3>2
  <2>9. CreatesOnce'
    BY <2>1, <2>3, <2>5 DEF OInv, CreatesOnce
  <2>10. ASSUME NEW t \in Tasks, t \notin overlapped' PROVE Alone(t)'
    <3>1. Alone(t)
      BY <2>1, <2>10 DEF OInv
    <3>2. ~Between(thread[s])'
      BY <2>2, <2>5 DEF Between
    <3> QED BY <2>5, <3>1, <3>2 DEF Alone, Works, Between
  <2> QED BY <2>8, <2>9, <2>10 DEF OInv
<1>9. ASSUME Crash PROVE OInv'
  <2>1. \A s \in Slots : ~Live(s)'
    BY <1>9 DEF Crash, Live
  <2> QED BY <2>1 DEF OInv, CreatesOnce, Alone, Works
<1>10. ASSUME UNCHANGED vars PROVE OInv'
  BY <1>10, OrderQuiet DEF vars, tables, history, Live
<1>11. ASSUME NEW p \in Pods, NEW s \in Slots, PodCalls(p, s) PROVE OInv'
  <2>1. OpOf[pc[p]] \in Ops \ {"create"}
    BY Operations DEF TInv, TypeOK, Ops
  <2> QED BY <1>1, <1>11, <2>1 DEF PodCalls
<1>12. ASSUME NEW s \in Slots, NEW t \in Tasks, UserCalls(s, t) PROVE OInv'
  <2>1. PICK op \in Ops :
           /\ Begin(s, op, User, Nobody, t, 0)
           /\ op = "create" => status[t] = "absent"
    BY <1>12, Operations DEF UserCalls, UserOps, Ops
  <2>2. ~\E r \in Slots : Works(r, t) /\ thread[r].op = "create"
    BY <1>12 DEF UserCalls
  <2> QED BY <1>1, <1>12, <2>1, <2>2 DEF UserCalls
<1>13. ASSUME NEW s \in Slots, Refuses(s) \/ ClaimNothing(s) \/ Reply(s) \/ Fails(s)
       PROVE  Ends(s) /\ UNCHANGED <<tables, history>>
  BY <1>13 DEF Refuses, ClaimNothing, Reply, Fails
<1>14. ASSUME \/ \E p \in Pods : PodGivesUp(p)
              \/ UserGivesUp
       PROVE  OInv'
  BY <1>4, <1>14 DEF PodGivesUp, UserGivesUp
<1> QED
  BY <1>3, <1>5, <1>6, <1>7, <1>8, <1>9, <1>10, <1>11, <1>12, <1>13, <1>14
  DEF Next, Client, Statement

LEMMA GateInit == ASSUME Init PROVE Gates!Init
BY DEF Init, Gates!Init, GateOf, InFlight

\* The last write of a handler moves its task along the contract.
LEMMA GateUpdate ==
    ASSUME TInv, OInv, NEW s \in Slots, UpdateTask(s), overlapped' = {}
    PROVE  [Gates!Next]_(Gates!vars)
<1> DEFINE h == thread[s]
           gate == [t \in Tasks |-> GateOf(status[t])]
<1>1. /\ Live(s) /\ h \in Threads /\ Shape(h) /\ Ordered(h) /\ h.at = "status"
  BY LiveThread DEF UpdateTask, At, TInv, Shapes, OInv
<1>2. /\ h.task \in Tasks /\ h.op \in Ops \ {"claim"}
      /\ status \in [Tasks -> Statuses]
      /\ releases \in [Tasks -> Nat] /\ deliveries \in [Tasks -> Nat]
  BY <1>1 DEF Shape, TInv, TypeOK, Threads
<1>3. PICK u \in Tasks : u = h.task
  BY <1>2
<1>4. /\ status' = [status EXCEPT ![u] = Target[h.op]]
      /\ releases' = IF h.op = "approve_before"
                     THEN [releases EXCEPT ![u] = @ + 1] ELSE releases
      /\ deliveries' = IF h.op \in Deliveries
                       THEN [deliveries EXCEPT ![u] = @ + 1] ELSE deliveries
      /\ overlapped = {}
  BY <1>3 DEF UpdateTask
<1>5. /\ h.op = "create" => status[u] = "absent"
      /\ h.op \in DOMAIN Expected => status[u] \in Expected[h.op]
  BY <1>1, <1>3, <1>4, Operations DEF Ordered, Window, Inserts
<1>6. gate' = [gate EXCEPT ![u] = GateOf(Target[h.op])]
  BY <1>2, <1>4
<1>7. gate[u] = GateOf(status[u])
  BY <1>2
<1> USE DEF Expected, Target, GateOf, InFlight, Deliveries, Gates!Next,
            Gates!Move, Gates!vars
<1>8. CASE h.op = "create"
  <2>1. Gates!Propose(u)
    BY <1>4, <1>5, <1>6, <1>7, <1>8 DEF Gates!Propose
  <2> QED BY <2>1
<1>9. CASE h.op \in {"mark_running", "requeue"}
  <2>1. gate' = gate
    <3>1. GateOf(Target[h.op]) = "released" /\ GateOf(status[u]) = "released"
      BY <1>5, <1>9
    <3> QED BY <1>6, <1>7, <3>1
  <2> QED BY <1>4, <1>9, <2>1
<1>10. CASE h.op \in Deliveries
  <2>1. Gates!Deliver(u)
    <3>1. /\ GateOf(Target[h.op]) = "after_gate"
          /\ GateOf(status[u]) = "released"
          /\ h.op # "approve_before"
      BY <1>5, <1>10
    <3>2. gate[u] = "released" /\ gate' = [gate EXCEPT ![u] = "after_gate"]
      BY <1>6, <1>7, <3>1
    <3>3. /\ deliveries' = [deliveries EXCEPT ![u] = @ + 1]
          /\ UNCHANGED releases
      BY <1>4, <1>10, <3>1
    <3> HIDE DEF gate
    <3> QED BY <3>2, <3>3 DEF Gates!Deliver, gate
  <2> QED BY <2>1
<1>11. CASE h.op = "approve_before"
  <2>1. Gates!Release(u)
    BY <1>4, <1>5, <1>6, <1>7, <1>11 DEF Gates!Release
  <2> QED BY <2>1
<1>12. CASE h.op = "reject_before"
  <2>1. Gates!Refuse(u)
    BY <1>4, <1>5, <1>6, <1>7, <1>12 DEF Gates!Refuse
  <2> QED BY <2>1
<1>13. CASE h.op = "approve_after"
  <2>1. Gates!Accept(u)
    BY <1>4, <1>5, <1>6, <1>7, <1>13 DEF Gates!Accept
  <2> QED BY <2>1
<1>14. CASE h.op = "reject_after"
  <2>1. Gates!Return(u)
    BY <1>4, <1>5, <1>6, <1>7, <1>14 DEF Gates!Return
  <2> QED BY <2>1
<1> QED
  BY <1>2, <1>8, <1>9, <1>10, <1>11, <1>12, <1>13, <1>14, Operations DEF Ops

\* No other step is visible to the contract.
LEMMA GateStep ==
    ASSUME TInv, OInv, [Next]_vars
    PROVE  overlapped' # {} \/ [Gates!Next]_(Gates!vars)
<1> SUFFICES ASSUME overlapped' = {} PROVE [Gates!Next]_(Gates!vars)
  OBVIOUS
<1>t. status \in [Tasks -> Statuses]
  BY DEF TInv, TypeOK
<1>1. ASSUME NEW s \in Slots, UpdateTask(s) PROVE [Gates!Next]_(Gates!vars)
  BY <1>1, GateUpdate
<1>2. ASSUME NEW s \in Slots, NEW t \in Tasks, ClaimNextTask(s, t)
      PROVE  UNCHANGED Gates!vars
  BY <1>2, <1>t DEF ClaimNextTask, Gates!vars, GateOf, InFlight, history
<1>3. ASSUME NEW s \in Slots, ReadRow(s) PROVE UNCHANGED Gates!vars
  BY <1>3 DEF ReadRow, Gates!vars, tables
<1>4. ASSUME UNCHANGED <<status, releases, deliveries>>
      PROVE  UNCHANGED Gates!vars
  BY <1>4 DEF Gates!vars
<1> QED
  BY <1>1, <1>2, <1>3, <1>4
  DEF Next, Client, Statement, vars, tables, history, PodCalls, UserCalls,
      PodGivesUp, UserGivesUp, Refuses, ClaimNothing, InsertArtifact,
      InsertLedgerRow, Reply, Fails, Crash

\* Until two handlers of a task overlap between check and write, whatever else
\* goes wrong, the statements implement the contract of the two gates.
THEOREM HandlersKeepTheGates == Spec => GatesHoldUntilOverlap
<1>1. Init => Gates!Init
  BY GateInit
<1>2. TInv /\ OInv /\ [Next]_vars =>
        [overlapped' # {} \/ Gates!Next]_(Gates!vars)
  BY GateStep
<1>3. Init => OInv
  BY OrderInit
<1>4. TInv /\ OInv /\ [Next]_vars => OInv'
  BY OrderNext
<1> QED
  BY <1>1, <1>2, <1>3, <1>4, TypesInvariant, PTL
  DEF Spec, GatesHoldUntilOverlap
-----------------------------------------------------------------------------
(* The queue is served until two handlers of a task overlap. *)

Attempted == InFlight \union {"after_gate", "done"}
Queued    == {t \in Tasks : status[t] = "ready"}

\* The statements that touch neither a status nor an owner.
LEMMA QuietRows ==
    ASSUME [Next]_vars,
           \A s \in Slots : ~UpdateTask(s) /\ \A t \in Tasks : ~ClaimNextTask(s, t)
    PROVE  UNCHANGED <<status, owner>> /\ overlapped \subseteq overlapped'
<1>1. ASSUME NEW s \in Slots, Statement(s)
      PROVE  UNCHANGED <<status, owner>> /\ overlapped \subseteq overlapped'
  BY <1>1 DEF Statement, ReadRow, Refuses, ClaimNothing, InsertArtifact,
              InsertLedgerRow, Reply, Fails, tables, history
<1>2. CASE Client \/ Crash \/ UNCHANGED vars
  BY <1>2 DEF Client, PodCalls, UserCalls, PodGivesUp, UserGivesUp, Crash, vars,
              tables, history
<1> QED BY <1>1, <1>2 DEF Next

\* What a claim does to the rows.
LEMMA ClaimRows ==
    ASSUME TInv, NEW s \in Slots, NEW t \in Tasks, ClaimNextTask(s, t)
    PROVE  /\ status[t] = "ready" /\ thread[s].by \in Pods
           /\ status' = [status EXCEPT ![t] = "claimed"]
           /\ owner' = [owner EXCEPT ![t] = thread[s].by]
           /\ UNCHANGED overlapped
BY DEF ClaimNextTask, At, TInv, Shapes, Shape, history

\* What the last write of a handler does to them, and what it may rely on if
\* the task is not overlapped.
LEMMA UpdateRows ==
    ASSUME TInv, OInv, NEW s \in Slots, UpdateTask(s)
    PROVE  \E t \in Tasks, op \in Ops \ {"claim"} :
              /\ status' = [status EXCEPT ![t] = Target[op]]
              /\ owner' = IF op \in {"reject_after", "requeue"}
                          THEN [owner EXCEPT ![t] = Nobody] ELSE owner
              /\ UNCHANGED overlapped
              /\ t \notin overlapped =>
                    /\ op = "create" => status[t] = "absent"
                    /\ op \in DOMAIN Expected => status[t] \in Expected[op]
<1> DEFINE h == thread[s]
<1>1. /\ Live(s) /\ h \in Threads /\ Shape(h) /\ Ordered(h) /\ h.at = "status"
  BY LiveThread DEF UpdateTask, At, TInv, Shapes, OInv
<1>2. h.task \in Tasks /\ h.op \in Ops \ {"claim"}
  BY <1>1 DEF Shape, Threads
<1>3. h.task \notin overlapped =>
         /\ h.op = "create" => status[h.task] = "absent"
         /\ h.op \in DOMAIN Expected => status[h.task] \in Expected[h.op]
  BY <1>1 DEF Ordered, Window, Inserts
<1> QED BY <1>2, <1>3 DEF UpdateTask

\* Every statement keeps the owners right where no handlers overlapped.
LEMMA OwnersNext ==
    ASSUME TInv, OInv, OwnerIffAttempted, [Next]_vars
    PROVE  OwnerIffAttempted'
<1>t. /\ status \in [Tasks -> Statuses]
      /\ owner \in [Tasks -> Pods \union {Nobody}]
  BY DEF TInv, TypeOK
<1>1. ASSUME NEW s \in Slots, NEW t \in Tasks, ClaimNextTask(s, t)
      PROVE  OwnerIffAttempted'
  <2>1. thread[s].by # Nobody
    BY <1>1, ClaimRows, NullAssumption
  <2> QED BY <1>1, <1>t, <2>1, ClaimRows DEF OwnerIffAttempted, InFlight
<1>2. ASSUME NEW s \in Slots, UpdateTask(s) PROVE OwnerIffAttempted'
  <2>1. PICK t \in Tasks, op \in Ops \ {"claim"} :
           /\ status' = [status EXCEPT ![t] = Target[op]]
           /\ owner' = IF op \in {"reject_after", "requeue"}
                       THEN [owner EXCEPT ![t] = Nobody] ELSE owner
           /\ UNCHANGED overlapped
           /\ t \notin overlapped =>
                 /\ op = "create" => status[t] = "absent"
                 /\ op \in DOMAIN Expected => status[t] \in Expected[op]
    BY <1>2, UpdateRows
  <2>2. ASSUME NEW u \in Tasks \ overlapped, u # t
        PROVE  owner'[u] # Nobody <=> status'[u] \in Attempted
    BY <1>t, <2>1, <2>2 DEF OwnerIffAttempted, Attempted
  <2>3. ASSUME t \notin overlapped
        PROVE  owner'[t] # Nobody <=> status'[t] \in Attempted
    <3>1. status'[t] = Target[op]
      BY <1>t, <2>1
    <3>2. CASE op \in {"reject_after", "requeue"}
      <4>1. owner'[t] = Nobody
        BY <1>t, <2>1, <3>2
      <4> QED BY <3>1, <3>2, <4>1 DEF Target, Attempted, InFlight
    <3>3. CASE op \notin {"reject_after", "requeue"}
      <4>1. Target[op] \in Attempted <=> status[t] \in Attempted
        BY <2>1, <2>3, <3>3, Operations
        DEF Ops, Target, Attempted, Expected, InFlight
      <4>2. owner' = owner
        BY <2>1, <3>3
      <4> QED BY <2>3, <3>1, <4>1, <4>2 DEF OwnerIffAttempted, Attempted
    <3> QED BY <3>2, <3>3
  <2> QED BY <2>1, <2>2, <2>3 DEF OwnerIffAttempted, Attempted
<1>3. ASSUME UNCHANGED <<status, owner>>, overlapped \subseteq overlapped'
      PROVE  OwnerIffAttempted'
  BY <1>3 DEF OwnerIffAttempted
<1> QED BY <1>1, <1>2, <1>3, QuietRows

\* Until an overlap a claim takes its task from the queue, an approval or a
\* requeue puts one there without an owner, and no other write meets a task in
\* the queue.
LEMMA QueueNext ==
    ASSUME TInv, OInv, OwnerIffAttempted, [Next]_vars, overlapped' = {}
    PROVE  [Queue!Next]_(Queue!vars)
<1>t. /\ status \in [Tasks -> Statuses]
      /\ owner \in [Tasks -> Pods \union {Nobody}]
  BY DEF TInv, TypeOK
<1> USE DEF Queue!Next, Queue!vars
<1>1. ASSUME NEW s \in Slots, NEW t \in Tasks, ClaimNextTask(s, t)
      PROVE  Queue!Next
  <2>1. t \in Queued /\ Queued' = Queued \ {t}
    BY <1>1, <1>t, ClaimRows DEF Queued
  <2>2. Queue!Claim(thread[s].by, t)
    BY <1>1, <2>1, ClaimRows DEF Queue!Claim, Queued
  <2> QED BY <1>1, <2>2, ClaimRows
<1>2. ASSUME NEW s \in Slots, UpdateTask(s) PROVE [Queue!Next]_(Queue!vars)
  <2>1. PICK t \in Tasks, op \in Ops \ {"claim"} :
           /\ status' = [status EXCEPT ![t] = Target[op]]
           /\ owner' = IF op \in {"reject_after", "requeue"}
                       THEN [owner EXCEPT ![t] = Nobody] ELSE owner
           /\ UNCHANGED overlapped
           /\ t \notin overlapped =>
                 /\ op = "create" => status[t] = "absent"
                 /\ op \in DOMAIN Expected => status[t] \in Expected[op]
    BY <1>2, UpdateRows
  <2>2. /\ op = "create" => status[t] = "absent"
        /\ op \in DOMAIN Expected => status[t] \in Expected[op]
    BY <2>1
  <2>3. t \notin Queued
    BY <2>2, Operations DEF Queued, Ops
  <2>4. CASE op \in {"approve_before", "requeue"}
    <3>1. Queued' = Queued \union {t}
      BY <1>t, <2>1, <2>4 DEF Queued, Target
    <3>2. owner' = [owner EXCEPT ![t] = Nobody]
      <4>1. op = "approve_before" => owner[t] = Nobody
        BY <2>1, <2>2 DEF OwnerIffAttempted, Expected, InFlight
      <4> QED BY <1>t, <2>1, <2>4, <4>1
    <3>3. Queue!Enqueue(t)
      BY <2>3, <3>1, <3>2 DEF Queue!Enqueue, Queued
    <3> QED BY <3>3
  <2>5. CASE op \notin {"approve_before", "requeue"}
    <3>1. Target[op] # "ready"
      BY <2>5, Operations DEF Target, Ops
    <3>2. Queued' = Queued
      BY <1>t, <2>1, <2>3, <3>1 DEF Queued
    <3>3. CASE op = "reject_after"
      <4>1. owner' = [owner EXCEPT ![t] = Nobody]
        BY <2>1, <3>3
      <4>2. Queue!GiveBack(t)
        BY <2>3, <3>2, <4>1 DEF Queue!GiveBack, Queued
      <4> QED BY <4>2
    <3>4. CASE op # "reject_after"
      <4>1. owner' = owner
        BY <2>1, <2>5, <3>4
      <4> QED BY <3>2, <4>1 DEF Queued
    <3> QED BY <3>3, <3>4
  <2> QED BY <2>4, <2>5
<1>3. ASSUME UNCHANGED <<status, owner>> PROVE UNCHANGED Queue!vars
  BY <1>3
<1> QED BY <1>1, <1>2, <1>3, QuietRows

\* The owner of a task none of whose handlers overlapped is set exactly while
\* an attempt is in flight, awaits its verdict or was accepted: what Lifecycle
\* says of its atomic handlers (OwnersHaveAttempts) is so for the statements.
THEOREM HandlersKeepOwners == Spec => []OwnerIffAttempted
<1>1. Init => OInv /\ OwnerIffAttempted
  BY OrderInit DEF Init, OwnerIffAttempted, InFlight
<1>2. TInv /\ OInv /\ OwnerIffAttempted /\ [Next]_vars =>
        (OInv /\ OwnerIffAttempted)'
  BY OrderNext, OwnersNext
<1> QED BY <1>1, <1>2, TypesInvariant, PTL DEF Spec

\* Until two handlers of a task overlap, a task leaves the queue only to the pod
\* that claims it, in one step: no UPDATE of another handler takes it away.
THEOREM HandlersServeTheQueue == Spec => QueueIsServedUntilOverlap
<1>1. Init => Queue!Init
  <2>1. ASSUME Init PROVE {t \in Tasks : status[t] = "ready"} \in SUBSET Tasks
    OBVIOUS
  <2> QED BY <2>1 DEF Init, Queue!Init, Queue!Orders
<1>2. TInv /\ OInv /\ OwnerIffAttempted /\ [Next]_vars =>
        [overlapped' # {} \/ Queue!Next]_(Queue!vars)
  BY QueueNext
<1>3. Init => OInv
  BY OrderInit
<1>4. TInv /\ OInv /\ [Next]_vars => OInv'
  BY OrderNext
<1> QED
  BY <1>1, <1>2, <1>3, <1>4, TypesInvariant, HandlersKeepOwners, PTL
  DEF Spec, QueueIsServedUntilOverlap
=============================================================================
