------------------------------ MODULE Planning ------------------------------
(***************************************************************************)
(* From the planner's reply to task rows: `subagent invoke` checks a reply *)
(* and writes it to a plan file (framework/cli/subagent.py), the user may  *)
(* edit that file, and `plan create` posts its entries one by one and      *)
(* turns the positions in depends_on into the ids the backend assigned     *)
(* (framework/cli/commands.py).  Posts fail, their replies are lost, or    *)
(* the backend serves them after the command gave up.                      *)
(***************************************************************************)
EXTENDS Integers, Sequences, Contracts

CONSTANTS
    Clis,             \* terminals that run `plan create`
    Names,            \* task ids a plan may mention by name
    TS_OK,            \* roles a plan may assign
    ValidTypes,       \* artifact types a plan may ask for
    FailureReport,    \* one any role can emit
    PrimaryOutputs,   \* what each of these roles produces
    Roles,            \* roles a reply or a user may name
    TypeLists,        \* values of output_artifact_types
    Plans,            \* replies of the planner, and what a user makes of them
    MaxRuns           \* bound on the runs of `plan create`

\* An entry of a plan; depends_on holds positions, counted from 0, and names.
Goals   == {"missing", "asks", "writes"}
Entries == [role: Roles, goal: Goals, types: TypeLists,
            positions: SUBSET Int, names: SUBSET Names]

ASSUME PlanningAssumption ==
    /\ FailureReport \in ValidTypes /\ ProgressLogEntry \in ValidTypes
    /\ ValidTypes \subseteq Types
    /\ PrimaryOutputs \in [TS_OK -> SUBSET ValidTypes]
    /\ TS_OK \subseteq Roles /\ TypeLists \subseteq Seq(Types)
    /\ Plans \subseteq Seq(Entries)
    /\ MaxRuns \in Nat

VARIABLES
    wanted,    \* history: the plan as the planner or the user wrote it
    file,      \* tasks of the plan file; empty if there is none
    begun,     \* history: per run of `plan create`, what was wanted
    cli,       \* per terminal: the run, its entries, its place and its real_ids
    rows,      \* the tasks table; a task id is a place in it
    late       \* posts the backend has yet to serve, their command gone

vars == <<wanted, file, begun, cli, rows, late>>

\* A terminal that runs no command.
Idle == [run |-> 0, tasks |-> <<>>, at |-> 1, real_ids |-> <<>>]

Init ==
    /\ wanted = <<>> /\ file = <<>> /\ begun = <<>>
    /\ cli = [c \in Clis |-> Idle]
    /\ rows = <<>> /\ late = {}
-----------------------------------------------------------------------------
(* subagent invoke. *)

\* output_artifact_contract of a role's agent file, as bootstrap writes it: its
\* output, and the entry the framework writes.
Template(role) == PrimaryOutputs[role] \union {ProgressLogEntry}

\* parse_planning_response on one entry.
WellFormed(t) ==
    /\ t.role \in TS_OK
    /\ t.goal # "missing"
    /\ \A i \in DOMAIN t.types : t.types[i] \in ValidTypes

\* validate_role_contracts on one entry: the testing role writes nothing.
WithinRole(t) ==
    /\ \A i \in DOMAIN t.types :
          t.types[i] \in PrimaryOutputs[t.role] \union {ProgressLogEntry, FailureReport}
    /\ t.role = "testing" => t.goal # "writes"

\* _strip_to_taskspec: references to itself and to later entries go.
StripToTaskspec(t, i) ==
    [t EXCEPT !.positions = {d \in t.positions : 0 <= d /\ d < i - 1}]

\* Mutant: entries that break a rule are left out of the plan.
SubagentInvokeSelecting(reply) ==
    LET Good(t) == WellFormed(t) /\ WithinRole(t)
        kept    == SelectSeq(reply, Good)
    IN /\ kept # <<>>
       /\ wanted' = reply
       /\ file' = [i \in DOMAIN kept |-> StripToTaskspec(kept[i], i)]
       /\ UNCHANGED <<begun, cli, rows, late>>

\* One bad entry and nothing is written.
SubagentInvoke(reply) ==
    /\ reply # <<>>
    /\ \A i \in DOMAIN reply : WellFormed(reply[i]) /\ WithinRole(reply[i])
    /\ wanted' = reply
    /\ file' = [i \in DOMAIN reply |-> StripToTaskspec(reply[i], i)]
    /\ UNCHANGED <<begun, cli, rows, late>>

\* The user writes or rewrites the plan file.
EditPlan(plan) ==
    /\ wanted' = plan
    /\ file' = plan
    /\ UNCHANGED <<begun, cli, rows, late>>
-----------------------------------------------------------------------------
(* plan create. *)

\* The file is read once, at the start; an empty plan is done at once.
PlanCreate(c) ==
    /\ cli[c].run = 0
    /\ file # <<>>
    /\ Len(begun) < MaxRuns
    /\ begun' = Append(begun, wanted)
    /\ cli' = [cli EXCEPT ![c] = [run |-> Len(begun) + 1, tasks |-> file,
                                  at |-> 1, real_ids |-> <<>>]]
    /\ UNCHANGED <<wanted, file, rows, late>>

\* Positions of entries already created become their ids, the others are
\* dropped with a warning; names stay.
Resolve(t, i, real_ids) ==
    [rows  |-> {real_ids[d + 1] : d \in {p \in t.positions : 0 <= p /\ p < i - 1}},
     names |-> t.names]

\* The row that the current post of c asks for; run and position are history.
Row(c) ==
    LET t == cli[c].tasks[cli[c].at]
    IN [run |-> cli[c].run, position |-> cli[c].at,
        role |-> t.role, goal |-> t.goal, types |-> t.types,
        depends_on |-> Resolve(t, cli[c].at, cli[c].real_ids)]

\* Mutant: one post more than the plan has entries.
CreateTaskOnceMore(c) ==
    /\ cli[c].run # 0
    /\ rows' = Append(rows, Row(c))
    /\ cli' = [cli EXCEPT ![c] =
          IF cli[c].at > Len(cli[c].tasks) THEN Idle
          ELSE [cli[c] EXCEPT !.at = cli[c].at + 1,
                              !.real_ids = Append(cli[c].real_ids, Len(rows) + 1)]]
    /\ UNCHANGED <<wanted, file, begun, late>>

\* A post that is served and answered.
CreateTask(c) ==
    /\ cli[c].run # 0
    /\ rows' = Append(rows, Row(c))
    /\ cli' = [cli EXCEPT ![c] =
          IF cli[c].at = Len(cli[c].tasks) THEN Idle
          ELSE [cli[c] EXCEPT !.at = cli[c].at + 1,
                              !.real_ids = Append(cli[c].real_ids, Len(rows) + 1)]]
    /\ UNCHANGED <<wanted, file, begun, late>>

\* Any error ends the command: the rows so far stay, their ids are forgotten,
\* and the post it waited for is never served, or still will be.
CreateTaskFails(c) ==
    /\ cli[c].run # 0
    /\ cli' = [cli EXCEPT ![c] = Idle]
    /\ late' \in {late, late \union {Row(c)}}
    /\ UNCHANGED <<wanted, file, begun, rows>>

CreateTaskLate(row) ==
    /\ rows' = Append(rows, row)
    /\ late' = late \ {row}
    /\ UNCHANGED <<wanted, file, begun, cli>>

Next ==
    \/ \E plan \in Plans : SubagentInvoke(plan) \/ EditPlan(plan)
    \/ \E c \in Clis : PlanCreate(c) \/ CreateTask(c) \/ CreateTaskFails(c)
    \/ \E row \in late : CreateTaskLate(row)

Spec == Init /\ [][Next]_vars
-----------------------------------------------------------------------------
(* Properties. *)

RowType ==
    [run: 1 .. Len(begun), position: Nat \ {0},
     role: Roles, goal: Goals, types: TypeLists,
     depends_on: [rows: SUBSET (1 .. Len(rows)), names: SUBSET Names]]

\* Every variable has its type; a command at work is at an entry of its plan
\* and knows the id of each entry before.
TypeOK ==
    /\ wanted \in Seq(Entries) /\ file \in Seq(Entries)
    /\ begun \in Seq(Seq(Entries))
    /\ cli \in [Clis -> [run: 0 .. Len(begun), tasks: Seq(Entries),
                         at: Nat \ {0}, real_ids: Seq(1 .. Len(rows))]]
    /\ \A c \in Clis : cli[c].run # 0 =>
          /\ cli[c].at <= Len(cli[c].tasks)
          /\ Len(cli[c].real_ids) = cli[c].at - 1
    /\ rows \in Seq(RowType)
    /\ late \subseteq RowType

\* Whatever was checked, stripped, posted, lost, repeated or served late: each
\* row is the entry that was wanted at its position; it depends on exactly the
\* rows of the same run that stand for the earlier entries it was to depend
\* on, and on the named tasks; and the entries before it have a row, once.
RowsMirrorPlan ==
    \A k \in DOMAIN rows :
        LET row  == rows[k]
            plan == begun[row.run]
            At(p) == {j \in DOMAIN rows :
                        rows[j].run = row.run /\ rows[j].position = p}
        IN /\ row.position \in DOMAIN plan
           /\ LET t == plan[row.position]
              IN /\ row.role = t.role /\ row.goal = t.goal /\ row.types = t.types
                 /\ row.depends_on.names = t.names
                 /\ row.depends_on.rows =
                       UNION {At(p) : p \in {q \in 1 .. row.position - 1 :
                                                q - 1 \in t.positions}}
           /\ At(row.position) = {k}
           /\ \A p \in 1 .. row.position - 1 : \E j \in 1 .. k - 1 : At(p) = {j}
=============================================================================
