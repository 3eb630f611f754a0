------------------------------ MODULE Contracts ------------------------------
(***************************************************************************)
(* What a role may be asked to produce: the pod's view of an agent file's  *)
(* output contract (framework/pod/prompt.py, framework/pod/worker.py).     *)
(***************************************************************************)
EXTENDS Sequences

CONSTANTS
    Types,              \* artifact types
    ProgressLogEntry    \* the one the framework writes itself

ASSUME TypesAssumption == ProgressLogEntry \in Types

\* The type a task is asked to produce: the first it names, if it names any.
PrimaryArtifactType(types) ==
    IF types = <<>> THEN ProgressLogEntry ELSE types[1]

\* A contract that names nothing a pod could submit constrains nothing.
Submittable(contract) == contract \ {ProgressLogEntry}

ContractAllows(contract, type) ==
    Submittable(contract) # {} => type \in Submittable(contract)
=============================================================================
