---------------------------- MODULE MCLifecycle ----------------------------
(* Small instances of Lifecycle: model values for tasks, pods and nulls, two *)
(* contents of the editable columns that differ in priority.                 *)
EXTENDS Lifecycle, TLC

MCSpecs    == {"routine", "urgent"}
MCPriority == [s \in MCSpecs |-> IF s = "urgent" THEN 1 ELSE 0]

\* Tasks and pods are interchangeable.
Symmetry == Permutations(Tasks) \union Permutations(Pods)
=============================================================================
