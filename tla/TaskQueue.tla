----------------------------- MODULE TaskQueue -----------------------------
(***************************************************************************)
(* What the backend promises about its queue, whoever calls it and however *)
(* the calls overlap: a task leaves the queue only by being claimed, in    *)
(* one step, in its turn, by one pod; while it waits it has no owner and   *)
(* keeps its place among those that wait with it.  (METHODOLOGY_SIMPLIFIED *)
(* section 8: "Atomic claim is the only transaction that matters".)        *)
(***************************************************************************)
CONSTANTS Tasks, Pods, NoPod

VARIABLES
    queued,  \* the tasks that are ready
    owner,   \* the pod a task was given to
    ahead    \* pairs of tasks of which the first is to be claimed before the second

vars == <<queued, owner, ahead>>

Orders == SUBSET (Tasks \X Tasks)

Init ==
    /\ queued \in SUBSET Tasks
    /\ owner = [t \in Tasks |-> NoPod]
    /\ ahead \in Orders

Claim(p, t) ==
    /\ t \in queued
    /\ \A u \in queued : <<u, t>> \notin ahead
    /\ queued' = queued \ {t}
    /\ owner' = [owner EXCEPT ![t] = p]
    /\ UNCHANGED ahead

\* Released by the user, or given out again: nobody owns it any more.
Enqueue(t) ==
    /\ t \notin queued
    /\ queued' = queued \union {t}
    /\ owner' = [owner EXCEPT ![t] = NoPod]
    /\ UNCHANGED ahead

GiveBack(t) ==
    /\ t \notin queued
    /\ owner' = [owner EXCEPT ![t] = NoPod]
    /\ UNCHANGED <<queued, ahead>>

\* New tasks and edits, of tasks that do not wait in the queue.
Reorder ==
    /\ ahead' \in Orders
    /\ \A u, t \in queued : <<u, t>> \in ahead' <=> <<u, t>> \in ahead
    /\ UNCHANGED <<queued, owner>>

Next ==
    \/ \E p \in Pods, t \in Tasks : Claim(p, t)
    \/ \E t \in Tasks : Enqueue(t) \/ GiveBack(t)
    \/ Reorder

Spec == Init /\ [][Next]_vars
=============================================================================
