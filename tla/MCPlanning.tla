----------------------------- MODULE MCPlanning -----------------------------
(* A small instance of Planning: two terminals and plans of up to three    *)
(* entries, good and bad; and a comparison of the two validators.          *)
EXTENDS Planning

CONSTANTS patch, brief, test, other

MCOutputs ==
    [methodology |-> {brief}, development |-> {patch}, testing |-> {test}]

Task(role, goal, types, positions, names) ==
    [role |-> role, goal |-> goal, types |-> types,
     positions |-> positions, names |-> names]

MCTypeLists ==
    {<<>>, <<patch>>, <<brief>>, <<test>>, <<other>>, <<ProgressLogEntry>>,
     <<FailureReport, patch>>, <<patch, ProgressLogEntry>>}

SomeEntries == {Task(r, g, ts, {}, {}) : r \in Roles, g \in Goals, ts \in TypeLists}

Dev(positions)  == Task("development", "writes", <<patch>>, positions, {})
Test(positions) == Task("testing", "asks", <<test>>, positions, {"t_9"})

MCPlans ==
    {<<Dev({})>>,
     <<Dev({}), Test({0})>>,
     <<Dev({1}), Dev({0, 2}), Test({0, 1})>>,
     <<Task("testing", "writes", <<test>>, {}, {}), Dev({0}), Test({1, -1})>>,
     <<Task("methodology", "asks", <<patch>>, {}, {}), Dev({}), Test({1})>>,
     <<Task("coordinator", "asks", <<brief>>, {}, {}), Dev({0})>>}

\* Planner and pod check a task against its role apart from each other.  They
\* agree on lists that begin with an output of the role: what the planner lets
\* pass no pod refuses.
ASSUME ValidatorsAgree ==
    \A t \in SomeEntries :
        WellFormed(t) /\ WithinRole(t) /\ t.types # <<>>
            /\ t.types[1] \notin {ProgressLogEntry, FailureReport}
        => ContractAllows(Template(t.role), PrimaryArtifactType(t.types))

\* They disagree on every other list the planner lets pass: a task that names
\* no type, or a type of the framework first, is planned, approved and claimed
\* before each pod of its role refuses it.
ASSUME ValidatorsDisagree ==
    \A t \in SomeEntries :
        WellFormed(t) /\ WithinRole(t)
            /\ (t.types # <<>> =>
                    t.types[1] \in {ProgressLogEntry, FailureReport})
        => ~ContractAllows(Template(t.role), PrimaryArtifactType(t.types))
=============================================================================
