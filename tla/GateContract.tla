--------------------------- MODULE GateContract ---------------------------
(***************************************************************************)
(* What the framework promises about every task, whatever pods do: the     *)
(* first architectural invariant ("Every task passes through both gates",  *)
(* METHODOLOGY_SIMPLIFIED.md section 21).  Work is released by an approval *)
(* at the before gate, each release yields one artifact, and only an       *)
(* approval at the after gate ends the task.                               *)
(***************************************************************************)
EXTENDS Naturals

CONSTANT Tasks

VARIABLES
    gate,       \* where the task stands between the gates
    approvals,  \* approvals at the before gate
    results     \* artifacts delivered to the after gate

vars == <<gate, approvals, results>>

Init ==
    /\ gate = [t \in Tasks |-> "absent"]
    /\ approvals = [t \in Tasks |-> 0]
    /\ results = [t \in Tasks |-> 0]

Move(t, from, to) ==
    /\ gate[t] = from
    /\ gate' = [gate EXCEPT ![t] = to]

Propose(t) ==
    Move(t, "absent", "before_gate") /\ UNCHANGED <<approvals, results>>

Refuse(t) ==
    Move(t, "before_gate", "rejected") /\ UNCHANGED <<approvals, results>>

Accept(t) ==
    Move(t, "after_gate", "done") /\ UNCHANGED <<approvals, results>>

Return(t) ==
    Move(t, "after_gate", "before_gate") /\ UNCHANGED <<approvals, results>>

Release(t) ==
    /\ Move(t, "before_gate", "released")
    /\ approvals' = [approvals EXCEPT ![t] = @ + 1]
    /\ UNCHANGED results

Deliver(t) ==
    /\ Move(t, "released", "after_gate")
    /\ results' = [results EXCEPT ![t] = @ + 1]
    /\ UNCHANGED approvals

Next == \E t \in Tasks :
    \/ Propose(t)
    \/ Refuse(t)
    \/ Release(t)
    \/ Deliver(t)
    \/ Accept(t)
    \/ Return(t)

Spec == Init /\ [][Next]_vars
=============================================================================
