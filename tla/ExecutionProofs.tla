-------------------------- MODULE ExecutionProofs --------------------------
(***************************************************************************)
(* Proofs about Execution, for any agent files, tasks, prices and bounds:  *)
(* types, the shape of the conversation, the metering and the freshness of *)
(* the agent file.                                                         *)
(***************************************************************************)
EXTENDS Execution, SequenceTheorems, TLAPS

Message == [role: {"user", "assistant"}, ids: Seq(Ids)]
First   == [role |-> "user", ids |-> <<>>]

\* Rounds 1..n of the conversation are complete.
Paired(n) ==
    /\ messages[1] = First
    /\ \A k \in 1 .. n :
          /\ messages[2 * k].role = "assistant"
          /\ messages[2 * k].ids # <<>>
          /\ messages[2 * k + 1] = [role |-> "user", ids |-> messages[2 * k].ids]

Conversation ==
    /\ pc = "calling" =>
          /\ Len(messages) = 2 * iteration + 1
          /\ Paired(iteration)
    /\ pc = "running_tools" =>
          /\ Len(messages) = 2 * iteration + 2
          /\ Paired(iteration)
          /\ messages[2 * iteration + 2] = [role |-> "assistant", ids |-> uses]
          /\ uses # <<>>
          /\ Len(results) <= Len(uses)
          /\ \A j \in 1 .. Len(results) : results[j] = uses[j]
    /\ pc \in {"calling", "running_tools"} => iteration < MaxIterations

Calling == {"calling", "running_tools", "answered"}
Working == Places \ {"loop", "exited"}

Metering ==
    /\ pc \in {"claimed", "started", "loaded", "allowed"} => billed = Nothing
    /\ pc \in Calling => agg = billed
    /\ pc \in Working => answer = "none"
    /\ answer = "result" => ledger = billed

Freshness ==
    /\ agent \in since
    /\ pc \in Calling \union {"loaded", "allowed"} => agent_md \in since
    /\ pc \in Calling \union {"allowed"} =>
          ContractAllows(agent_md.text.contract, Type(task))
    /\ pc \in Calling => offered \subseteq AllowedToolNames(agent_md.text.allowed)

EInv == TypeOK /\ Conversation /\ Metering /\ Freshness

-----------------------------------------------------------------------------
(* Lemmas about the operators. *)

LEMMA ToolNames ==
    ASSUME NEW allowed
    PROVE  AllowedToolNames(allowed) \subseteq {"read_file", "write_file", "bash"}
BY DEF AllowedToolNames, ToolFor

LEMMA CostType == ASSUME NEW m PROVE CostOf(m) \in Nat
BY ExecutionAssumption DEF CostOf

LEMMA PlusType == ASSUME NEW sum \in Charges PROVE Plus(sum) \in Charges
<1>1. CostOf(Model) \in Nat
  BY CostType
<1> QED BY <1>1 DEF Plus, Charges

LEMMA NothingType == Nothing \in Charges
BY DEF Nothing, Charges

LEMMA UseIdsType ==
    ASSUME NEW round \in Nat, NEW n \in Nat
    PROVE  UseIds(round, n) \in Seq(Ids) /\ Len(UseIds(round, n)) = n
<1>1. \A i \in 1 .. n : <<round, i>> \in Ids
  BY DEF Ids
<1>2. [i \in 1 .. n |-> <<round, i>>] \in [1 .. n -> Ids]
  BY <1>1
<1>3. UseIds(round, n) \in [1 .. n -> Ids]
  BY <1>2 DEF UseIds
<1>4. UseIds(round, n) \in Seq(Ids)
  BY <1>3, SeqDef
<1>5. DOMAIN UseIds(round, n) = 1 .. n /\ DOMAIN UseIds(round, n) = 1 .. Len(UseIds(round, n))
  BY <1>3, <1>4, LenProperties
<1>6. Len(UseIds(round, n)) = n
  <2>1. ASSUME NEW a \in Nat, NEW b \in Nat, 1 .. a = 1 .. b PROVE a = b
    <3>1. CASE a < b
      <4>1. b \in 1 .. b /\ b \notin 1 .. a
        BY <3>1
      <4> QED BY <2>1, <4>1
    <3>2. CASE b < a
      <4>1. a \in 1 .. a /\ a \notin 1 .. b
        BY <3>2
      <4> QED BY <2>1, <4>1
    <3> QED BY <3>1, <3>2
  <2>2. Len(UseIds(round, n)) \in Nat
    BY <1>4, LenProperties
  <2> QED BY <1>5, <2>1, <2>2
<1> QED BY <1>4, <1>6

LEMMA ForgottenTypes ==
    ASSUME Forgets
    PROVE  /\ messages' \in Seq(Message) /\ uses' \in Seq(Ids)
           /\ results' \in Seq(Ids)
           /\ iteration' \in 0 .. MaxIterations /\ agg' \in Charges
BY NothingType, ExecutionAssumption DEF Forgets, Message

-----------------------------------------------------------------------------
(* The invariant. *)

LEMMA ExecutionInit == ASSUME Init PROVE EInv
<1>1. TypeOK
  <2>1. agent \in AgentFiles /\ since \subseteq AgentFiles
    BY DEF Init
  <2>2. messages \in Seq(Message) /\ uses \in Seq(Ids) /\ results \in Seq(Ids)
    BY DEF Init
  <2>3. /\ pc \in Places /\ iteration \in 0 .. MaxIterations
        /\ agg \in Charges /\ billed \in Charges /\ ledger \in Charges
    BY NothingType, ExecutionAssumption DEF Init, Places
  <2>4. /\ task \in Tasks \union {NoTask} /\ agent_md \in AgentFiles \union {NoFile}
        /\ offered \subseteq {"read_file", "write_file", "bash"}
        /\ answer \in {"none", "result", "failure"} /\ trouble \in BOOLEAN
    BY DEF Init
  <2> QED BY <2>1, <2>2, <2>3, <2>4 DEF TypeOK, Message
<1>2. Conversation /\ Metering /\ Freshness
  BY DEF Init, Conversation, Metering, Freshness, Calling, Working, Places
<1> QED BY <1>1, <1>2 DEF EInv

LEMMA ExecutionNext ==
    ASSUME EInv, [Next]_vars
    PROVE  EInv'
<1> USE ExecutionAssumption
<1>t. /\ agent \in AgentFiles /\ since \subseteq AgentFiles /\ pc \in Places
      /\ task \in Tasks \union {NoTask}
      /\ agent_md \in AgentFiles \union {NoFile}
      /\ offered \subseteq {"read_file", "write_file", "bash"}
      /\ messages \in Seq(Message) /\ uses \in Seq(Ids) /\ results \in Seq(Ids)
      /\ iteration \in 0 .. MaxIterations
      /\ agg \in Charges /\ billed \in Charges /\ ledger \in Charges
      /\ answer \in {"none", "result", "failure"} /\ trouble \in BOOLEAN
  BY DEF EInv, TypeOK, Message
<1>i. Conversation /\ Metering /\ Freshness
  BY DEF EInv
\* Steps that leave the model call alone.
<1>q. ASSUME UNCHANGED loop, pc' \in Places \ {"calling", "running_tools"}
      PROVE  Conversation'
  BY <1>q DEF Conversation
<1>1. ASSUME EditAgent PROVE EInv'
  <2>1. TypeOK'
    BY <1>1, <1>t DEF EditAgent, TypeOK, loop, Message
  <2>2. Conversation' /\ Metering' /\ Freshness'
    BY <1>1, <1>i DEF EditAgent, Conversation, Metering, Freshness, Paired, loop,
       Calling, Working
  <2> QED BY <2>1, <2>2 DEF EInv
<1>2. ASSUME Stops PROVE EInv'
  <2>1. TypeOK'
    BY <1>2, <1>t DEF Stops, GoTo, TypeOK, loop, Message, Places
  <2>2. Conversation' /\ Metering' /\ Freshness'
    BY <1>2, <1>i, <1>q DEF Stops, GoTo, Metering, Freshness, Calling, Working, Places
  <2> QED BY <2>1, <2>2 DEF EInv
<1>3. ASSUME Killed PROVE EInv'
  <2>1. TypeOK'
    BY <1>3, <1>t, ForgottenTypes DEF Killed, GoTo, TypeOK, Message, Places
  <2>2. Conversation' /\ Metering' /\ Freshness'
    BY <1>3, <1>i
    DEF Killed, GoTo, Conversation, Metering, Freshness, Calling, Working, Places
  <2> QED BY <2>1, <2>2 DEF EInv
<1>4. ASSUME Restarts PROVE EInv'
  <2>1. TypeOK'
    BY <1>4, <1>t DEF Restarts, GoTo, TypeOK, loop, Message, Places
  <2>2. Conversation' /\ Metering' /\ Freshness'
    BY <1>4, <1>i, <1>q DEF Restarts, GoTo, Metering, Freshness, Calling, Working, Places
  <2> QED BY <2>1, <2>2 DEF EInv
<1>5. ASSUME NEW t \in Tasks, ClaimTask(t) PROVE EInv'
  <2>1. TypeOK'
    BY <1>5, <1>t, NothingType DEF ClaimTask, GoTo, TypeOK, loop, Message, Places
  <2>2. Conversation' /\ Metering' /\ Freshness'
    BY <1>5, <1>q DEF ClaimTask, GoTo, Metering, Freshness, Calling, Working, Places
  <2> QED BY <2>1, <2>2 DEF EInv
<1>6. ASSUME MarkRunning PROVE EInv'
  <2>1. TypeOK'
    BY <1>6, <1>t DEF MarkRunning, GoTo, TypeOK, loop, Message, Places
  <2>2. Conversation' /\ Metering' /\ Freshness'
    BY <1>6, <1>i, <1>q
    DEF MarkRunning, GoTo, Metering, Freshness, Calling, Working, Places
  <2> QED BY <2>1, <2>2 DEF EInv
<1>7. ASSUME GetAgentConfig PROVE EInv'
  <2>1. TypeOK'
    BY <1>7, <1>t DEF GetAgentConfig, GoTo, TypeOK, loop, Message, Places
  <2>2. Conversation' /\ Metering' /\ Freshness'
    BY <1>7, <1>i, <1>q
    DEF GetAgentConfig, GoTo, Metering, Freshness, Calling, Working, Places
  <2> QED BY <2>1, <2>2 DEF EInv
<1>8. ASSUME ValidateContract PROVE EInv'
  <2>1. TypeOK'
    BY <1>8, <1>t DEF ValidateContract, GoTo, TypeOK, loop, Message, Places
  <2>2. Conversation' /\ Metering'
    BY <1>8, <1>i, <1>q
    DEF ValidateContract, GoTo, Metering, Calling, Working, Places
  <2>3. Freshness'
    BY <1>8, <1>i
    DEF ValidateContract, GoTo, Freshness, Calling, Places, Type
  <2> QED BY <2>1, <2>2, <2>3 DEF EInv
<1>9. ASSUME BuildPrompt PROVE EInv'
  <2>1. messages' = <<First>>
    BY <1>9 DEF BuildPrompt, First
  <2>2. <<First>> \in Seq(Message) /\ Len(<<First>>) = 1 /\ <<First>>[1] = First
    BY DEF First, Message
  <2>3. TypeOK'
    <3>1. offered' \subseteq {"read_file", "write_file", "bash"}
      BY <1>9, ToolNames DEF BuildPrompt
    <3> QED BY <1>9, <1>t, <2>1, <2>2, <3>1, NothingType
            DEF BuildPrompt, GoTo, TypeOK, Places, Message
  <2>4. Conversation'
    BY <1>9, <2>1, <2>2 DEF BuildPrompt, GoTo, Conversation, Paired
  <2>5. Metering' /\ Freshness'
    BY <1>9, <1>i
    DEF BuildPrompt, GoTo, Metering, Freshness, Calling, Working, Places, Type
  <2> QED BY <2>3, <2>4, <2>5 DEF EInv
<1>10. ASSUME NEW n \in 0 .. MaxUses, Create(n) PROVE EInv'
  <2>1. /\ pc = "calling" /\ uses' = UseIds(iteration, n) /\ results' = <<>>
        /\ agg' = Plus(agg) /\ billed' = Plus(billed)
        /\ UNCHANGED <<agent, since, task, agent_md, offered, iteration, ledger,
                       answer, trouble>>
    BY <1>10 DEF Create, Meter
  <2>2. uses' \in Seq(Ids) /\ Len(uses') = n
    BY <1>t, <2>1, UseIdsType
  <2>3. Plus(agg) \in Charges /\ Plus(billed) \in Charges
    BY <1>t, PlusType
  <2>4. Metering' /\ Freshness'
    <3>1. pc' \in {"answered", "running_tools"}
      BY <1>10 DEF Create, GoTo
    <3> QED BY <1>i, <2>1, <3>1
            DEF Metering, Freshness, Calling, Working, Places, Type
  <2>5. CASE n = 0
    <3>1. pc' = "answered" /\ UNCHANGED messages
      BY <1>10, <2>5 DEF Create, GoTo
    <3>2. TypeOK'
      BY <1>t, <2>1, <2>2, <2>3, <3>1 DEF TypeOK, Places, Message
    <3>3. Conversation'
      BY <3>1 DEF Conversation
    <3> QED BY <2>4, <3>2, <3>3 DEF EInv
  <2>6. CASE n # 0
    <3> DEFINE m == [role |-> "assistant", ids |-> uses']
    <3>1. pc' = "running_tools" /\ messages' = Append(messages, m)
      BY <1>10, <2>6 DEF Create, GoTo
    <3>2. m \in Message
      BY <2>2 DEF Message
    <3>3. TypeOK'
      <4>1. messages' \in Seq(Message)
        BY <1>t, <3>1, <3>2
      <4> QED BY <1>t, <2>1, <2>2, <2>3, <3>1, <4>1 DEF TypeOK, Places, Message
    <3>4. /\ Len(messages) = 2 * iteration + 1 /\ Paired(iteration)
          /\ iteration < MaxIterations /\ iteration \in Nat
      BY <1>i, <1>t, <2>1 DEF Conversation
    <3>5. /\ Len(messages') = 2 * iteration + 2
          /\ messages'[2 * iteration + 2] = m
          /\ \A i \in 1 .. 2 * iteration + 1 : messages'[i] = messages[i]
      BY <1>t, <3>1, <3>2, <3>4
    <3>6. Paired(iteration)'
      <4>1. iteration' = iteration
        BY <2>1
      <4>2. messages'[1] = First
        BY <3>4, <3>5 DEF Paired
      <4>3. ASSUME NEW k \in 1 .. iteration
            PROVE  /\ 2 * k \in 1 .. 2 * iteration + 1
                   /\ 2 * k + 1 \in 1 .. 2 * iteration + 1
        BY <3>4
      <4> QED BY <3>4, <3>5, <4>1, <4>2, <4>3 DEF Paired
    <3>7. uses' # <<>> /\ Len(results') = 0
      BY <2>1, <2>2, <2>6
    <3>8. Conversation'
      BY <2>1, <2>2, <3>1, <3>4, <3>5, <3>6, <3>7 DEF Conversation
    <3> QED BY <2>4, <3>3, <3>8 DEF EInv
  <2> QED BY <2>5, <2>6
<1>11. ASSUME CreateRaises PROVE EInv'
  <2>1. TypeOK'
    BY <1>11, <1>t, ForgottenTypes DEF CreateRaises, GoTo, TypeOK, Message, Places
  <2>2. Conversation' /\ Metering' /\ Freshness'
    BY <1>11, <1>i
    DEF CreateRaises, GoTo, Conversation, Metering, Freshness, Calling, Working,
        Places
  <2> QED BY <2>1, <2>2 DEF EInv
<1>12. ASSUME RunTool PROVE EInv'
  <2>1. /\ pc = "running_tools" /\ pc' = pc /\ Len(results) < Len(uses)
        /\ results' = Append(results, uses[Len(results) + 1])
        /\ UNCHANGED <<agent, since, task, agent_md, offered, messages, uses,
                       iteration, agg, billed, ledger, answer, trouble>>
    BY <1>12 DEF RunTool
  <2>2. uses[Len(results) + 1] \in Ids
    BY <1>t, <2>1
  <2>3. TypeOK'
    BY <1>t, <2>1, <2>2 DEF TypeOK, Message
  <2>4. Conversation'
    <3>1. /\ Len(messages) = 2 * iteration + 2 /\ Paired(iteration)
          /\ messages[2 * iteration + 2] = [role |-> "assistant", ids |-> uses]
          /\ uses # <<>> /\ iteration < MaxIterations
          /\ \A j \in 1 .. Len(results) : results[j] = uses[j]
      BY <1>i, <2>1 DEF Conversation
    <3>2. Paired(iteration)'
      BY <2>1, <3>1 DEF Paired
    <3>3. /\ Len(results') = Len(results) + 1
          /\ \A j \in 1 .. Len(results') : results'[j] = uses[j]
      BY <1>t, <2>1, <2>2, <3>1
    <3>4. Len(results') <= Len(uses)
      BY <1>t, <2>1, <3>3
    <3> QED BY <2>1, <3>1, <3>2, <3>3, <3>4 DEF Conversation
  <2>5. Metering' /\ Freshness'
    BY <1>i, <2>1 DEF Metering, Freshness, Calling, Working, Type
  <2> QED BY <2>3, <2>4, <2>5 DEF EInv
<1>13. ASSUME AppendResults PROVE EInv'
  <2> DEFINE m == [role |-> "user", ids |-> results]
  <2>1. /\ pc = "running_tools" /\ Len(results) = Len(uses)
        /\ messages' = Append(messages, m)
        /\ iteration' = iteration + 1
        /\ pc' = IF iteration + 1 < MaxIterations THEN "calling" ELSE "answered"
        /\ UNCHANGED <<agent, since, task, agent_md, offered, uses, results, agg,
                       billed, ledger, answer, trouble>>
    BY <1>13 DEF AppendResults, GoTo
  <2>2. /\ Len(messages) = 2 * iteration + 2 /\ Paired(iteration)
        /\ messages[2 * iteration + 2] = [role |-> "assistant", ids |-> uses]
        /\ uses # <<>> /\ iteration < MaxIterations /\ iteration \in Nat
        /\ \A j \in 1 .. Len(results) : results[j] = uses[j]
    BY <1>i, <1>t, <2>1 DEF Conversation
  <2>3. m \in Message
    BY <1>t DEF Message
  <2>4. results = uses
    BY <1>t, <2>1, <2>2
  <2>5. TypeOK'
    <3>1. messages' \in Seq(Message)
      BY <1>t, <2>1, <2>3
    <3> QED BY <1>t, <2>1, <2>2, <3>1 DEF TypeOK, Places, Message
  <2>6. /\ Len(messages') = 2 * iteration + 3
        /\ messages'[2 * iteration + 3] = m
        /\ \A i \in 1 .. 2 * iteration + 2 : messages'[i] = messages[i]
    <3>1. /\ Len(Append(messages, m)) = Len(messages) + 1
          /\ Append(messages, m)[Len(messages) + 1] = m
          /\ \A i \in 1 .. Len(messages) : Append(messages, m)[i] = messages[i]
      <4> HIDE DEF m
      <4> QED BY <1>t, <2>3
    <3>2. /\ Len(messages) + 1 = 2 * iteration + 3
          /\ 1 .. Len(messages) = 1 .. 2 * iteration + 2
      BY <2>2
    <3> HIDE DEF m
    <3> QED BY <2>1, <3>1, <3>2
  <2>7. Conversation'
    <3>1. messages'[1] = First
      BY <2>2, <2>6 DEF Paired
    <3>2. ASSUME NEW k \in 1 .. iteration
          PROVE  /\ messages'[2 * k].role = "assistant"
                 /\ messages'[2 * k].ids # <<>>
                 /\ messages'[2 * k + 1] =
                       [role |-> "user", ids |-> messages'[2 * k].ids]
      <4>1. /\ 2 * k \in 1 .. 2 * iteration + 2
            /\ 2 * k + 1 \in 1 .. 2 * iteration + 2
        BY <2>2
      <4> QED BY <2>2, <2>6, <4>1 DEF Paired
    <3>3. LET k == iteration + 1
          IN  /\ messages'[2 * k].role = "assistant"
              /\ messages'[2 * k].ids # <<>>
              /\ messages'[2 * k + 1] =
                    [role |-> "user", ids |-> messages'[2 * k].ids]
      <4>1. /\ 2 * (iteration + 1) = 2 * iteration + 2
            /\ 2 * (iteration + 1) + 1 = 2 * iteration + 3
            /\ 2 * iteration + 2 \in 1 .. 2 * iteration + 2
        BY <2>2
      <4>2. messages'[2 * iteration + 2] = [role |-> "assistant", ids |-> uses]
        BY <2>2, <2>6, <4>1
      <4> QED BY <2>2, <2>4, <2>6, <4>1, <4>2
    <3>4. \A k \in 1 .. iteration' : k \in 1 .. iteration \/ k = iteration + 1
      BY <2>1, <2>2
    <3>5. Paired(iteration)'
      BY <3>1, <3>2, <3>3, <3>4 DEF Paired
    <3>6. Len(messages') = 2 * iteration' + 1
      BY <2>1, <2>2, <2>6
    <3> QED BY <2>1, <3>5, <3>6 DEF Conversation
  <2>8. Metering' /\ Freshness'
    BY <1>i, <2>1 DEF Metering, Freshness, Calling, Working, Places, Type
  <2> QED BY <2>5, <2>7, <2>8 DEF EInv
<1>14. ASSUME SubmitResult PROVE EInv'
  <2>1. TypeOK'
    BY <1>14, <1>t, ForgottenTypes
    DEF SubmitResult, Charged, Uncharged, GoTo, TypeOK, Message, Places
  <2>2. Conversation' /\ Metering' /\ Freshness'
    BY <1>14, <1>i
    DEF SubmitResult, Charged, Uncharged, GoTo, Conversation, Metering, Freshness,
        Calling, Working, Places
  <2> QED BY <2>1, <2>2 DEF EInv
<1>15. ASSUME ReportFailure PROVE EInv'
  <2>1. TypeOK'
    BY <1>15, <1>t DEF ReportFailure, GoTo, TypeOK, loop, Message, Places
  <2>2. Conversation' /\ Metering' /\ Freshness'
    BY <1>15, <1>i, <1>q
    DEF ReportFailure, GoTo, Metering, Freshness, Calling, Working, Places
  <2> QED BY <2>1, <2>2 DEF EInv
<1>16. ASSUME UNCHANGED vars PROVE EInv'
  BY <1>16 DEF vars, loop, EInv, TypeOK, Conversation, Metering, Freshness,
     Paired, Type, Calling, Working, Places, AllowedToolNames
<1> QED
  BY <1>1, <1>2, <1>3, <1>4, <1>5, <1>6, <1>7, <1>8, <1>9, <1>10, <1>11,
     <1>12, <1>13, <1>14, <1>15, <1>16
  DEF Next, ProcessOneTask

LEMMA ExecutionInvariant == Spec => []EInv
BY ExecutionInit, ExecutionNext, PTL DEF Spec

\* Every variable keeps its type, for any agent files, models and bounds.
THEOREM ExecutionTypeCorrect == Spec => []TypeOK
<1>1. EInv => TypeOK
  BY DEF EInv
<1> QED BY <1>1, ExecutionInvariant, PTL

\* Whatever the model asks for and however tools fail, each call sends a
\* conversation the Messages API accepts, for any number of rounds.
THEOREM ConversationsAreWellFormed == Spec => []ConversationWellFormed
<1>1. EInv => ConversationWellFormed
  BY DEF EInv, Conversation, Paired, First, ConversationWellFormed
<1> QED BY <1>1, ExecutionInvariant, PTL

\* A result is charged for exactly what the provider billed, for any prices.
THEOREM ResultsAreCharged == Spec => []FullPicture
<1>1. EInv => FullPicture
  BY DEF EInv, Metering, FullPicture
<1> QED BY <1>1, ExecutionInvariant, PTL

\* The model is called with one version of the agent file, and a fresh one.
THEOREM AgentFilesAreFresh == Spec => []FreshAgent
<1>1. EInv => FreshAgent
  BY DEF EInv, Freshness, Calling, FreshAgent
<1> QED BY <1>1, ExecutionInvariant, PTL
=============================================================================
