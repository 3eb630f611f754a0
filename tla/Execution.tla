----------------------------- MODULE Execution -----------------------------
(***************************************************************************)
(* One pod working on the tasks it claims: process_one_task of             *)
(* framework/pod/worker.py call by call, with the agentic loop of          *)
(* framework/pod/anthropic_call.py, while the user edits the agent file of *)
(* the role and any call may fail.  What the backend does with the pod's   *)
(* calls is in Lifecycle and Handlers; here they are served or fail.       *)
(***************************************************************************)
EXTENDS Naturals, Sequences, Contracts

CONSTANTS
    TypeLists,       \* values of a task's output_artifact_types
    AllowedTools,    \* entries of allowed_tools in an agent file
    AgentTexts,      \* what the agent file may say
    Models,          \* model names
    Unset,           \* a model nobody named
    DefaultModel,    \* config["models"]["sonnet"]
    Price,           \* cost of a round: config["pricing"], where it has the model
    MaxIterations,   \* max_iterations of the agentic loop
    MaxUses,         \* bound on the tool calls of one turn
    MaxEdits         \* bound on the edits of the agent file

ASSUME ExecutionAssumption ==
    /\ TypeLists \subseteq Seq(Types)
    /\ AgentTexts \subseteq [parses: BOOLEAN, contract: SUBSET Types,
                             allowed: SUBSET AllowedTools,
                             model: Models \union {Unset}]
    /\ DefaultModel \in Models /\ Unset \notin Models
    /\ DOMAIN Price \subseteq Models
    /\ \A m \in DOMAIN Price : Price[m] \in Nat
    /\ MaxIterations \in Nat \ {0}
    /\ MaxUses \in Nat /\ MaxEdits \in Nat

VARIABLES
    agent,        \* agents/<role>.md
    since,        \* history: what it has been since the current claim
    pc,           \* where process_one_task is
    task,         \* the claimed task
    agent_md,     \* the agent file as the pod last read it
    offered,      \* the tools the model is offered
    messages,     \* the conversation so far
    uses,         \* tool calls of the last turn
    results,      \* their results so far
    iteration,    \* rounds completed
    agg,          \* tokens and cost the loop has summed up
    billed,       \* what the provider has billed for this attempt
    ledger,       \* the budget_ledger row of this attempt
    answer,       \* what the backend got for this attempt
    trouble       \* history: a call failed, the pod was killed, no YAML

loop == <<messages, uses, results, iteration, agg>>
vars == <<agent, since, pc, task, agent_md, offered, loop, billed, ledger,
          answer, trouble>>

\* allowed_tools entries and the tools they stand for.
ToolFor == [filesystem_read |-> "read_file", filesystem_write |-> "write_file",
            bash |-> "bash", code_execution |-> "bash"]
AllowedToolNames(allowed) == {ToolFor[a] : a \in allowed \cap DOMAIN ToolFor}

\* A version of the agent file; a text that is no YAML cannot be parsed.
AgentFiles == [version: 0 .. MaxEdits, text: AgentTexts]
NoFile     == [version |-> "none"]
Tasks      == [types: TypeLists, model: Models \union {Unset}]
NoTask     == [types |-> <<>>]
Charges    == [tokens: Nat, cost: Nat]
Nothing    == [tokens |-> 0, cost |-> 0]

Type(t) == PrimaryArtifactType(t.types)

\* _resolve_model: the task's, else the agent's, else the configured one.
Model ==
    IF task.model # Unset THEN task.model
    ELSE IF agent_md.text.model # Unset THEN agent_md.text.model
    ELSE DefaultModel

\* compute_cost: a model without a price costs nothing.
CostOf(m) == IF m \in DOMAIN Price THEN Price[m] ELSE 0

\* A tool call is named by its round and its position in the turn.
UseIds(round, n) == [i \in 1 .. n |-> <<round, i>>]

Init ==
    /\ agent \in {f \in AgentFiles : f.version = 0 /\ f.text.parses}
    /\ since = {agent}
    /\ pc = "loop"
    /\ task = NoTask
    /\ agent_md = NoFile
    /\ offered = {}
    /\ messages = <<>> /\ uses = <<>> /\ results = <<>>
    /\ iteration = 0 /\ agg = Nothing
    /\ billed = Nothing /\ ledger = Nothing
    /\ answer = "none" /\ trouble = FALSE
-----------------------------------------------------------------------------
(* The user, and the pod process. *)

EditAgent ==
    /\ agent.version < MaxEdits
    /\ agent' \in {f \in AgentFiles : f.version = agent.version + 1}
    /\ since' = since \union {agent'}
    /\ UNCHANGED <<pc, task, agent_md, offered, loop, billed, ledger, answer,
                   trouble>>

GoTo(place) == pc' = place

\* The locals of a model call are gone when it raises or is over.
Forgets ==
    /\ messages' = <<>> /\ uses' = <<>> /\ results' = <<>>
    /\ iteration' = 0 /\ agg' = Nothing

\* A signal at the head of the loop, or a claim that fails: nothing catches it.
Stops ==
    /\ pc = "loop"
    /\ GoTo("exited")
    /\ UNCHANGED <<agent, since, task, agent_md, offered, loop, billed, ledger,
                   answer, trouble>>

Killed ==
    /\ pc # "exited"
    /\ GoTo("exited")
    /\ trouble' = TRUE
    /\ Forgets
    /\ UNCHANGED <<agent, since, task, agent_md, offered, billed, ledger, answer>>

Restarts ==
    /\ pc = "exited"
    /\ GoTo("loop")
    /\ UNCHANGED <<agent, since, task, agent_md, offered, loop, billed, ledger,
                   answer, trouble>>
-----------------------------------------------------------------------------
(* Up to the model call. *)

ClaimTask(t) ==
    /\ pc = "loop"
    /\ GoTo("claimed")
    /\ task' = t
    /\ since' = {agent}
    /\ billed' = Nothing /\ ledger' = Nothing
    /\ answer' = "none" /\ trouble' = FALSE
    /\ UNCHANGED <<agent, agent_md, offered, loop>>

MarkRunning ==
    /\ pc = "claimed"
    /\ \/ GoTo("started") /\ UNCHANGED trouble
       \/ GoTo("loop") /\ trouble' = TRUE
    /\ UNCHANGED <<agent, since, task, agent_md, offered, loop, billed, ledger,
                   answer>>

\* Mutant: the file is fetched once and then kept for the tasks to come.
GetAgentConfigCached ==
    /\ pc = "started"
    /\ GoTo("loaded")
    /\ agent_md' = IF agent_md = NoFile THEN agent ELSE agent_md
    /\ UNCHANGED <<agent, since, task, offered, loop, billed, ledger, answer,
                   trouble>>

\* The file is fetched for each task; one that is missing is reported.
GetAgentConfig ==
    /\ pc = "started"
    /\ \/ GoTo("loaded") /\ agent_md' = agent
       \/ GoTo("reporting") /\ UNCHANGED agent_md
    /\ UNCHANGED <<agent, since, task, offered, loop, billed, ledger, answer,
                   trouble>>

\* Mutant: a task that asks for what its role may not produce is dropped.
ValidateContractSilently ==
    /\ pc = "loaded"
    /\ \/ ~agent_md.text.parses /\ GoTo("exited") /\ trouble' = TRUE
       \/ /\ agent_md.text.parses /\ UNCHANGED trouble
          /\ GoTo(IF ContractAllows(agent_md.text.contract, Type(task))
                  THEN "allowed" ELSE "loop")
    /\ UNCHANGED <<agent, since, task, agent_md, offered, loop, billed, ledger,
                   answer>>

\* Only a violation of the contract is caught: a file that is no YAML raises
\* through pod_loop and ends the pod.
ValidateContract ==
    /\ pc = "loaded"
    /\ \/ ~agent_md.text.parses /\ GoTo("exited") /\ trouble' = TRUE
       \/ /\ agent_md.text.parses /\ UNCHANGED trouble
          /\ GoTo(IF ContractAllows(agent_md.text.contract, Type(task))
                  THEN "allowed" ELSE "reporting")
    /\ UNCHANGED <<agent, since, task, agent_md, offered, loop, billed, ledger,
                   answer>>

\* The prompt is built, and the tools if working_dir is a directory by now.
BuildPrompt ==
    /\ pc = "allowed"
    /\ GoTo("calling")
    /\ offered' \in {{}, AllowedToolNames(agent_md.text.allowed)}
    /\ messages' = <<[role |-> "user", ids |-> <<>>]>>
    /\ uses' = <<>> /\ results' = <<>>
    /\ iteration' = 0 /\ agg' = Nothing
    /\ UNCHANGED <<agent, since, task, agent_md, billed, ledger, answer, trouble>>
-----------------------------------------------------------------------------
(* The model call: call_messages, or call_messages_agentic with tools. *)

\* One more round of tokens and its cost.
Plus(sum) == [tokens |-> sum.tokens + 1, cost |-> sum.cost + CostOf(Model)]

\* Mutant: the sums are those of the last round.
MeterLast == agg' = Plus(Nothing)

Meter == agg' = Plus(agg)

\* messages.create returns a turn with n tool calls; without any it is final.
Create(n) ==
    /\ pc = "calling"
    /\ n > 0 => offered # {}
    /\ billed' = Plus(billed)
    /\ Meter
    /\ uses' = UseIds(iteration, n)
    /\ results' = <<>>
    /\ IF n = 0
       THEN GoTo("answered") /\ UNCHANGED messages
       ELSE /\ GoTo("running_tools")
            /\ messages' = Append(messages, [role |-> "assistant", ids |-> uses'])
    /\ UNCHANGED <<agent, since, task, agent_md, offered, iteration, ledger,
                   answer, trouble>>

\* The call raises: the sums over earlier rounds go with the locals.
CreateRaises ==
    /\ pc = "calling"
    /\ GoTo("reporting")
    /\ Forgets
    /\ UNCHANGED <<agent, since, task, agent_md, offered, billed, ledger, answer,
                   trouble>>

\* Mutant: a tool that raises is skipped and leaves no result.
RunToolUnlessRaising ==
    /\ pc = "running_tools"
    /\ Len(results) < Len(uses)
    /\ \/ /\ results' = Append(results, uses[Len(results) + 1])
          /\ uses' = uses
       \/ /\ results' = results
          /\ uses' = SubSeq(uses, 1, Len(results))
                     \o SubSeq(uses, Len(results) + 2, Len(uses))
    /\ UNCHANGED <<agent, since, pc, task, agent_md, offered, messages, iteration,
                   agg, billed, ledger, answer, trouble>>

\* The handler turns every exception into an error result.
RunTool ==
    /\ pc = "running_tools"
    /\ Len(results) < Len(uses)
    /\ results' = Append(results, uses[Len(results) + 1])
    /\ UNCHANGED <<agent, since, pc, task, agent_md, offered, messages, uses,
                   iteration, agg, billed, ledger, answer, trouble>>

\* Mutant: one round more than max_iterations.
AppendResultsOnceMore ==
    /\ pc = "running_tools"
    /\ Len(results) = Len(uses)
    /\ messages' = Append(messages, [role |-> "user", ids |-> results])
    /\ iteration' = iteration + 1
    /\ GoTo(IF iteration <= MaxIterations THEN "calling" ELSE "answered")
    /\ UNCHANGED <<agent, since, task, agent_md, offered, uses, results, agg,
                   billed, ledger, answer, trouble>>

\* One message with all results; at max_iterations the last text is final.
AppendResults ==
    /\ pc = "running_tools"
    /\ Len(results) = Len(uses)
    /\ messages' = Append(messages, [role |-> "user", ids |-> results])
    /\ iteration' = iteration + 1
    /\ GoTo(IF iteration' < MaxIterations THEN "calling" ELSE "answered")
    /\ UNCHANGED <<agent, since, task, agent_md, offered, uses, results, agg,
                   billed, ledger, answer, trouble>>
-----------------------------------------------------------------------------
(* Back to the backend. *)

Charged   == ledger' = agg /\ answer' = "result"
Uncharged == UNCHANGED <<ledger, answer>>

\* Any text becomes an artifact.  A refused or failed submit is not caught,
\* and may have been served all the same.
SubmitResult ==
    /\ pc = "answered"
    /\ \/ Charged /\ GoTo("loop") /\ UNCHANGED trouble
       \/ (Charged \/ Uncharged) /\ GoTo("exited") /\ trouble' = TRUE
    /\ Forgets
    /\ UNCHANGED <<agent, since, task, agent_md, offered, billed>>

\* A report that fails is only logged.
ReportFailure ==
    /\ pc = "reporting"
    /\ GoTo("loop")
    /\ \/ answer' = "failure" /\ trouble' \in {trouble, TRUE}
       \/ answer' = answer /\ trouble' = TRUE
    /\ UNCHANGED <<agent, since, task, agent_md, offered, loop, billed, ledger>>

ProcessOneTask ==
    \/ MarkRunning
    \/ GetAgentConfig
    \/ ValidateContract
    \/ BuildPrompt
    \/ \E n \in 0 .. MaxUses : Create(n)
    \/ CreateRaises
    \/ RunTool
    \/ AppendResults
    \/ SubmitResult
    \/ ReportFailure

Next ==
    \/ EditAgent
    \/ Stops
    \/ Killed
    \/ Restarts
    \/ \E t \in Tasks : ClaimTask(t)
    \/ ProcessOneTask

Spec == Init /\ [][Next]_vars

\* A pod that has a task goes on: HTTP calls, model calls and tools all time out.
FairSpec == Spec /\ WF_vars(ProcessOneTask)
-----------------------------------------------------------------------------
(* Properties. *)

Places == {"loop", "claimed", "started", "loaded", "allowed", "calling",
           "running_tools", "answered", "reporting", "exited"}
Ids    == Nat \X Nat

\* Every variable has its type.
TypeOK ==
    /\ agent \in AgentFiles
    /\ since \subseteq AgentFiles
    /\ pc \in Places
    /\ task \in Tasks \union {NoTask}
    /\ agent_md \in AgentFiles \union {NoFile}
    /\ offered \subseteq {"read_file", "write_file", "bash"}
    /\ messages \in Seq([role: {"user", "assistant"}, ids: Seq(Ids)])
    /\ uses \in Seq(Ids) /\ results \in Seq(Ids)
    /\ iteration \in 0 .. MaxIterations
    /\ agg \in Charges /\ billed \in Charges /\ ledger \in Charges
    /\ answer \in {"none", "result", "failure"}
    /\ trouble \in BOOLEAN

\* What the Messages API demands of a conversation (it refuses others, and the
\* attempt would be lost with all it cost): roles alternate from the user's
\* prompt on, and each turn with tool calls is answered by exactly their
\* results, in order, before the next call, however tools fail.
ConversationWellFormed ==
    pc = "calling" =>
        /\ Len(messages) = 2 * iteration + 1
        /\ messages[1] = [role |-> "user", ids |-> <<>>]
        /\ \A k \in 1 .. iteration :
              /\ messages[2 * k].role = "assistant"
              /\ messages[2 * k].ids # <<>>
              /\ messages[2 * k + 1] =
                    [role |-> "user", ids |-> messages[2 * k].ids]

\* The ledger sees the full picture: a result is charged for exactly the rounds
\* the provider billed, with and without tools and at any number of them.
FullPicture == answer = "result" => ledger = billed

\* The agent file is fetched fresh per task: the prompt, the tools and the
\* contract the model is called with are those of one version of the file,
\* and of one that was in place after the task was claimed.
FreshAgent ==
    pc \in {"calling", "running_tools", "answered"} =>
        \E f \in since :
            /\ agent_md = f
            /\ ContractAllows(f.text.contract, Type(task))
            /\ offered \subseteq AllowedToolNames(f.text.allowed)

\* Every task a pod claims is answered by a result or a failure report, unless
\* a call to the backend failed, the pod was killed or the file is no YAML.
EveryTaskAnswered ==
    (pc = "claimed") ~> (answer # "none" \/ trouble)
=============================================================================
