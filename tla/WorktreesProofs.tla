-------------------------- MODULE WorktreesProofs --------------------------
(***************************************************************************)
(* Proofs about Worktrees for any tasks, attempts, pods and faults.        *)
(* However the threads of the gate commands and the pods overlap: types,   *)
(* only approved work of development tasks is merged, a recorded path is a *)
(* worktree until a handler is cut short, and a task that lost its         *)
(* worktree but not its branch is lost to git for good.  If the user waits *)
(* for each command: what was rejected stays out of the base branch until  *)
(* a handler is cut short, and what was approved can be found.             *)
(***************************************************************************)
EXTENDS Worktrees, FiniteSetTheorems, TLAPS

-----------------------------------------------------------------------------
(* Types. *)

\* A linked worktree has a branch: the only way to make one makes the branch,
\* and no branch of a regular task is ever deleted.
LinkedHasBranch == \A t \in Tasks : dir[t] = "linked" => t \in branches

TypeInv == TypeOK /\ LinkedHasBranch

\* What the merge of a branch rests on: edits in base are of finished
\* development tasks; a branch holds its own task's edits and what it took from
\* base; a worktree holds its own task's edits; and the threads that commit and
\* merge work for finished development tasks.
MergingApproved ==
    /\ OnlyApprovedIsMerged
    /\ \A t \in Tasks : \A e \in commits[t] : e.task = t \/ e \in base
    /\ \A t \in Tasks : \A e \in dirt[t] : e.task = t
    /\ \A h \in threads : h.stage \in {"commit", "merge", "merging"} =>
          status[h.task] = "done" /\ h.task \notin Testing

MergeInv == TypeInv /\ MergingApproved

-----------------------------------------------------------------------------
(* Every step keeps the types. *)

\* The initial states have their types.
LEMMA InitTypes == ASSUME Init PROVE TypeInv
<1>1. cut \in BOOLEAN
  BY DEF Init
<1> QED BY <1>1, TaskAssumption, BoundAssumption
        DEF Init, TypeInv, TypeOK, LinkedHasBranch, Attempts, Edits, Runs, Threads

\* What one pod writes is one edit of the attempt it executes.
LEMMA EditTyped == ASSUME NEW r \in Runs PROVE EditOf(r) \in Edits
BY DEF EditOf, Edits, Runs

\* A gate command of the user keeps the types.
LEMMA UserTypes == ASSUME TypeInv, UserStep PROVE TypeInv'
<1> USE DEF TypeInv, TypeOK, LinkedHasBranch, rowVars, repoVars, histVars
<1>1. PICK t \in Tasks :
         \/ EditWorkingDir(t) \/ ApproveBefore(t) \/ RejectBefore(t)
         \/ ApproveAfter(t) \/ RejectAfter(t) \/ Requeue(t)
  BY DEF UserStep
<1>2. \A stage \in Stages : Starts(t, stage) => threads' \subseteq Threads
  BY DEF Starts, Threads
<1>3. CASE EditWorkingDir(t)
  BY <1>3 DEF EditWorkingDir
<1>4. CASE ApproveBefore(t)
  BY <1>2, <1>4 DEF ApproveBefore, Stages
<1>5. CASE RejectBefore(t)
  BY <1>5 DEF RejectBefore
<1>6. CASE ApproveAfter(t)
  BY <1>2, <1>6 DEF ApproveAfter, Cleanup, Stages
<1>7. ASSUME attempt[t] < MaxAttempt PROVE attempt[t] + 1 \in Attempts
  BY <1>7, BoundAssumption DEF Attempts
<1>8. CASE RejectAfter(t)
  BY <1>2, <1>7, <1>8 DEF RejectAfter, Cleanup, Stages
<1>9. CASE Requeue(t)
  BY <1>7, <1>9 DEF Requeue
<1> QED BY <1>1, <1>3, <1>4, <1>5, <1>6, <1>8, <1>9

\* A step of a gate command's thread keeps the types.
LEMMA HandlerTypes == ASSUME TypeInv, HandlerStep PROVE TypeInv'
<1> USE DEF TypeInv, TypeOK, LinkedHasBranch, rowVars, repoVars, histVars
<1>1. PICK h \in threads :
         \/ AddWorktree(h) \/ RecordWorktree(h) \/ AutoCommit(h) \/ BeginMerge(h)
         \/ EndMerge(h) \/ RemoveWorktree(h) \/ ClearPath(h)
  BY DEF HandlerStep
<1>2. h.task \in Tasks
  BY DEF Threads
<1>3. /\ Ends(h) => threads' \subseteq Threads
      /\ \A stage \in Stages : MovesTo(h, stage) => threads' \subseteq Threads
  BY DEF Ends, MovesTo, Threads
<1>4. CASE AddWorktree(h)
  BY <1>2, <1>3, <1>4 DEF AddWorktree, Stages
<1>5. CASE RecordWorktree(h)
  BY <1>2, <1>3, <1>5 DEF RecordWorktree
<1>6. CASE AutoCommit(h)
  BY <1>2, <1>3, <1>6 DEF AutoCommit, Commit, Stages
<1>7. CASE BeginMerge(h)
  BY <1>2, <1>3, <1>7 DEF BeginMerge, Stages
<1>8. CASE EndMerge(h)
  BY <1>2, <1>3, <1>8 DEF EndMerge, Stages
<1>9. CASE RemoveWorktree(h)
  BY <1>2, <1>3, <1>9 DEF RemoveWorktree, Stages
<1>10. CASE ClearPath(h)
  BY <1>2, <1>3, <1>10 DEF ClearPath
<1> QED BY <1>1, <1>4, <1>5, <1>6, <1>7, <1>8, <1>9, <1>10

\* A step of a pod keeps the types.
LEMMA PodTypes == ASSUME TypeInv, PodStep PROVE TypeInv'
<1> USE DEF TypeInv, TypeOK, LinkedHasBranch, rowVars, repoVars, histVars
<1>1. ASSUME NEW t \in Tasks, Claim(t) PROVE TypeInv'
  BY <1>1 DEF Claim, Runs
<1>2. ASSUME NEW r \in runs,
             \/ BuildTools(r) \/ WriteFile(r) \/ GitCommit(r)
             \/ Delivers(r) \/ PodDies(r)
      PROVE  TypeInv'
  <2>1. r \in Runs /\ r.task \in Tasks /\ r.attempt \in Attempts
    BY DEF Runs
  <2>2. EditOf(r) \in Edits
    BY <2>1, EditTyped
  <2>3. CASE BuildTools(r)
    BY <2>1, <2>3 DEF BuildTools, Runs
  <2>4. CASE WriteFile(r)
    BY <2>1, <2>2, <2>4 DEF WriteFile
  <2>5. CASE GitCommit(r)
    BY <2>1, <2>5 DEF GitCommit, Commit
  <2>6. CASE Delivers(r)
    BY <2>1, <2>6 DEF Delivers
  <2>7. CASE PodDies(r)
    BY <2>7 DEF PodDies
  <2> QED BY <1>2, <2>3, <2>4, <2>5, <2>6, <2>7
<1> QED BY <1>1, <1>2 DEF PodStep

\* Every step keeps the types.
LEMMA TypeStep == ASSUME TypeInv, [Next]_vars PROVE TypeInv'
<1>1. CASE Crash
  BY <1>1 DEF Crash, TypeInv, TypeOK, LinkedHasBranch, rowVars, repoVars, histVars
<1>2. CASE UNCHANGED vars
  BY <1>2 DEF vars, TypeInv, TypeOK, LinkedHasBranch, rowVars, repoVars, histVars
<1> QED BY <1>1, <1>2, UserTypes, HandlerTypes, PodTypes DEF Next

\* Every variable keeps its type, and a missing directory or branch is empty.
THEOREM WorktreesTypeCorrect == Spec => []TypeOK
<1>1. TypeInv => TypeOK
  BY DEF TypeInv
<1> QED BY <1>1, InitTypes, TypeStep, PTL DEF Spec

-----------------------------------------------------------------------------
(* What is merged was approved. *)

\* Nothing is written and nobody merges at first.
LEMMA InitMerging == ASSUME Init PROVE MergingApproved
BY DEF Init, MergingApproved, OnlyApprovedIsMerged

\* The user sends only approved development work to the merge, and never takes
\* a task out of "done".
LEMMA UserMerging == ASSUME MergeInv, UserStep PROVE MergingApproved'
<1> USE DEF MergeInv, TypeInv, TypeOK, MergingApproved, OnlyApprovedIsMerged,
            rowVars, repoVars, histVars, Edits, Threads
<1>1. PICK t \in Tasks :
         \/ EditWorkingDir(t) \/ ApproveBefore(t) \/ RejectBefore(t)
         \/ ApproveAfter(t) \/ RejectAfter(t) \/ Requeue(t)
  BY DEF UserStep
<1>2. CASE EditWorkingDir(t)
  BY <1>2 DEF EditWorkingDir
<1>3. CASE ApproveBefore(t)
  BY <1>3 DEF ApproveBefore, Starts
<1>4. CASE RejectBefore(t)
  BY <1>4 DEF RejectBefore
<1>5. CASE ApproveAfter(t)
  BY <1>5 DEF ApproveAfter, Cleanup, Starts
<1>6. CASE RejectAfter(t)
  BY <1>6 DEF RejectAfter, Cleanup, Starts
<1>7. CASE Requeue(t)
  BY <1>7 DEF Requeue
<1> QED BY <1>1, <1>2, <1>3, <1>4, <1>5, <1>6, <1>7

\* A thread merges the branch it committed to.
LEMMA HandlerMerging == ASSUME MergeInv, HandlerStep PROVE MergingApproved'
<1> USE DEF MergeInv, TypeInv, TypeOK, MergingApproved, OnlyApprovedIsMerged,
            rowVars, repoVars, histVars, Edits
<1>1. PICK h \in threads :
         \/ AddWorktree(h) \/ RecordWorktree(h) \/ AutoCommit(h) \/ BeginMerge(h)
         \/ EndMerge(h) \/ RemoveWorktree(h) \/ ClearPath(h)
  BY DEF HandlerStep
<1>2. h.task \in Tasks /\ threads \subseteq Threads
  BY DEF Threads
<1>3. \A stage \in Stages : MovesTo(h, stage) =>
         \A g \in threads' : g \in threads \/ (g.task = h.task /\ g.stage = stage)
  BY <1>2 DEF MovesTo, Threads
<1>4. Ends(h) => threads' \subseteq threads
  BY DEF Ends
<1>5. CASE AddWorktree(h)
  BY <1>2, <1>3, <1>4, <1>5 DEF AddWorktree, Stages
<1>6. CASE RecordWorktree(h)
  BY <1>2, <1>4, <1>6 DEF RecordWorktree
<1>7. CASE AutoCommit(h)
  <2>1. MovesTo(h, "merge") \/ Ends(h)
    BY <1>7 DEF AutoCommit
  <2>2. Commit(h.task) \/ UNCHANGED <<commits, dirt>>
    BY <1>7 DEF AutoCommit
  <2>3. /\ UNCHANGED <<status, base>>
        /\ h.stage = "commit"
    BY <1>7 DEF AutoCommit
  <2>4. \A g \in threads' : g \in threads \/ g.task = h.task
    BY <1>3, <1>4, <2>1 DEF Stages
  <2> QED BY <1>2, <2>2, <2>3, <2>4 DEF Commit
<1>8. CASE BeginMerge(h)
  BY <1>2, <1>3, <1>8 DEF BeginMerge, Stages
<1>9. CASE EndMerge(h)
  BY <1>2, <1>3, <1>9 DEF EndMerge, Stages
<1>10. CASE RemoveWorktree(h)
  BY <1>2, <1>3, <1>4, <1>10 DEF RemoveWorktree, Stages
<1>11. CASE ClearPath(h)
  BY <1>2, <1>4, <1>11 DEF ClearPath
<1> QED BY <1>1, <1>5, <1>6, <1>7, <1>8, <1>9, <1>10, <1>11

\* A pod writes into its own task's directory only.
LEMMA PodMerging == ASSUME MergeInv, PodStep PROVE MergingApproved'
<1> USE DEF MergeInv, TypeInv, TypeOK, MergingApproved, OnlyApprovedIsMerged,
            rowVars, repoVars, histVars, Edits, Threads
<1>1. ASSUME NEW t \in Tasks, Claim(t) PROVE MergingApproved'
  BY <1>1 DEF Claim
<1>2. ASSUME NEW r \in runs,
             \/ BuildTools(r) \/ WriteFile(r) \/ GitCommit(r)
             \/ Delivers(r) \/ PodDies(r)
      PROVE  MergingApproved'
  <2>1. r.task \in Tasks
    BY DEF Runs
  <2>2. EditOf(r).task = r.task
    BY DEF EditOf
  <2>3. CASE BuildTools(r)
    BY <2>3 DEF BuildTools
  <2>4. CASE WriteFile(r)
    BY <2>1, <2>2, <2>4 DEF WriteFile
  <2>5. CASE GitCommit(r)
    BY <2>1, <2>5 DEF GitCommit, Commit
  <2>6. CASE Delivers(r)
    BY <2>1, <2>6 DEF Delivers
  <2>7. CASE PodDies(r)
    BY <2>7 DEF PodDies
  <2> QED BY <1>2, <2>3, <2>4, <2>5, <2>6, <2>7
<1> QED BY <1>1, <1>2 DEF PodStep

\* Every step keeps the merge to approved work.
LEMMA MergeStep == ASSUME MergeInv, [Next]_vars PROVE MergeInv'
<1>1. TypeInv'
  BY TypeStep DEF MergeInv
<1>2. CASE Crash
  BY <1>1, <1>2 DEF Crash, MergeInv, MergingApproved, OnlyApprovedIsMerged,
                   rowVars, repoVars, histVars
<1>3. CASE UNCHANGED vars
  BY <1>1, <1>3 DEF vars, MergeInv, MergingApproved, OnlyApprovedIsMerged,
                   rowVars, repoVars, histVars
<1> QED BY <1>1, <1>2, <1>3, UserMerging, HandlerMerging, PodMerging
        DEF Next, MergeInv

\* Types and the merge invariant hold together in every state.
LEMMA MergeInvariance == Spec => []MergeInv
<1>1. Init => MergeInv
  BY InitTypes, InitMerging DEF MergeInv
<1> QED BY <1>1, MergeStep, PTL DEF Spec

\* Only approved work of development tasks reaches the base branch, whatever
\* gate commands, pods, failing git commands and restarts do to each other.
THEOREM OnlyApprovedReachesBase == Spec => []OnlyApprovedIsMerged
<1>1. MergeInv => OnlyApprovedIsMerged
  BY DEF MergeInv, MergingApproved
<1> QED BY <1>1, MergeInvariance, PTL

-----------------------------------------------------------------------------
(* What was rejected, when the user waits and no handler is cut short. *)

\* The thread that undoes a rejected task's worktree.
Undone(t) == \E h \in threads : h.task = t /\ h.stage \in {"remove", "clear"}

\* The task's worktree is, or is about to be, the one the next merge takes from.
Live(t) ==
    \/ t \in wtPath /\ ~ Undone(t)
    \/ \E h \in threads :
          h.task = t /\ h.stage \in {"record", "commit", "merge", "merging"}

OneThread == IsFiniteSet(threads) /\ \A g, h \in threads : g = h

\* A worktree that may still be merged holds no edit of a rejected attempt, and
\* no pod that could write one works in it: the branch of a rejected worktree
\* survives, so no worktree is made in its place.
FreshWhileLive ==
    /\ \A e \in base : e.attempt >= rejected[e.task]
    /\ OneThread
    /\ \A t \in Tasks : rejected[t] <= attempt[t]
    /\ \A t \in wtPath : t \in branches
    /\ \A t \in Tasks : workDir[t] = "worktree" => t \in branches
    /\ \A r \in runs : r.dir = "worktree" => r.task \in branches
    /\ \A h \in threads : h.stage \in {"record", "commit", "merge", "merging"} =>
          h.task \in branches
    /\ \A t \in Tasks : Live(t) =>
          /\ \A e \in commits[t] \union dirt[t] : e.task = t => e.attempt >= rejected[t]
          /\ \A r \in runs :
                r.task = t /\ r.dir = "worktree" => r.attempt >= rejected[t]

FreshInv == MergeInv /\ (cut \/ FreshWhileLive)

(* Every step keeps it, if the user waits. *)

\* Nothing is rejected at first.
LEMMA InitFresh == ASSUME Init PROVE FreshWhileLive
<1>1. IsFiniteSet(threads) /\ threads = {}
  BY FS_EmptySet DEF Init
<1> QED BY <1>1 DEF Init, FreshWhileLive, OneThread, Live, Undone

\* A user who waits gives a command when no thread is at work.
LEMMA UserWaits == ASSUME MaxThreads = 1, OneThread, Idle PROVE threads = {}
<1>1. Cardinality(threads) \in Nat /\ Cardinality(threads) = 0
  BY FS_CardinalityType DEF OneThread, Idle
<1> QED BY <1>1, FS_EmptySet DEF OneThread

\* The one thread at work stays the only one.
LEMMA StillOneThread ==
    ASSUME OneThread, NEW h \in threads,
           Ends(h) \/ \E stage \in Stages : MovesTo(h, stage)
    PROVE  /\ OneThread'
           /\ Ends(h) => threads' = {}
           /\ \A stage : MovesTo(h, stage) =>
                  threads' = {[h EXCEPT !.stage = stage]}
<1>1. threads \ {h} = {}
  BY DEF OneThread
<1>2. Ends(h) => threads' = {}
  BY <1>1 DEF Ends
<1>3. \A stage : MovesTo(h, stage) => threads' = {[h EXCEPT !.stage = stage]}
  BY <1>1 DEF MovesTo
<1>4. CASE Ends(h)
  BY <1>2, <1>3, <1>4, FS_EmptySet DEF OneThread
<1>5. ASSUME NEW stage \in Stages, MovesTo(h, stage) PROVE OneThread'
  BY <1>3, <1>5, FS_Singleton DEF OneThread
<1> QED BY <1>2, <1>3, <1>4, <1>5

\* A rejection that finds a worktree undoes it before the user's next command.
LEMMA UserFresh ==
    ASSUME MergeInv, FreshWhileLive, MaxThreads = 1, UserStep
    PROVE  FreshWhileLive'
<1> USE DEF MergeInv, TypeInv, TypeOK, MergingApproved, FreshWhileLive,
            OnlyApprovedIsMerged, Live, Undone, rowVars, repoVars, histVars
<1>1. PICK t \in Tasks :
         \/ EditWorkingDir(t) \/ ApproveBefore(t) \/ RejectBefore(t)
         \/ ApproveAfter(t) \/ RejectAfter(t) \/ Requeue(t)
  BY DEF UserStep
<1>2. threads = {}
  BY <1>1, UserWaits DEF EditWorkingDir, ApproveBefore, RejectBefore, ApproveAfter,
                         RejectAfter, Requeue
<1>3. /\ threads' = threads => OneThread'
      /\ \A stage \in Stages : Starts(t, stage) =>
            OneThread' /\ threads' = {[task |-> t, stage |-> stage]}
  <2>1. ASSUME NEW stage \in Stages, Starts(t, stage)
        PROVE  threads' = {[task |-> t, stage |-> stage]}
    BY <1>2, <2>1 DEF Starts
  <2>2. ASSUME NEW h, threads' = {h} PROVE OneThread'
    BY <2>2, FS_Singleton DEF OneThread
  <2>3. threads' = threads => OneThread'
    BY DEF OneThread
  <2> QED BY <2>1, <2>2, <2>3
<1>4. CASE EditWorkingDir(t)
  BY <1>2, <1>3, <1>4 DEF EditWorkingDir
<1>5. CASE ApproveBefore(t)
  BY <1>2, <1>3, <1>5 DEF ApproveBefore, Stages
<1>6. CASE RejectBefore(t)
  BY <1>2, <1>3, <1>6 DEF RejectBefore
<1>7. CASE ApproveAfter(t)
  BY <1>2, <1>3, <1>7 DEF ApproveAfter, Cleanup, Stages
<1>8. CASE RejectAfter(t)
  <2>1. /\ OneThread'
        /\ \A h \in threads' : h.task = t /\ h.stage = "remove"
        /\ t \in wtPath => \E h \in threads' : h.task = t
    <3>1. CASE t \in wtPath
      <4>1. OneThread' /\ threads' = {[task |-> t, stage |-> "remove"]}
        BY <1>3, <1>8, <3>1 DEF RejectAfter, Cleanup, Stages
      <4> QED BY ONLY <4>1
    <3>2. CASE t \notin wtPath
      <4>1. OneThread' /\ threads' = {}
        BY <1>2, <1>3, <1>8, <3>2 DEF RejectAfter, Cleanup
      <4> QED BY <3>2, <4>1
    <3> QED BY <3>1, <3>2
  <2>2. /\ rejected'[t] = attempt'[t]
        /\ \A u \in Tasks \ {t} :
              rejected'[u] = rejected[u] /\ attempt'[u] = attempt[u]
    <3>1. /\ attempt' = [attempt EXCEPT ![t] = attempt[t] + 1]
          /\ rejected' = [rejected EXCEPT ![t] = attempt[t] + 1]
      BY <1>8 DEF RejectAfter
    <3>2. DOMAIN attempt = Tasks /\ DOMAIN rejected = Tasks
      OBVIOUS
    <3> QED BY ONLY <3>1, <3>2, t \in Tasks
  <2>3. \A e \in base' : e.attempt >= rejected'[e.task]
    BY <1>8, <2>2 DEF RejectAfter, Edits
  <2>4. ~ Live(t)' /\ \A u \in Tasks \ {t} : Live(u)' => Live(u)
    BY <1>2, <1>8, <2>1 DEF RejectAfter
  <2>5. \A u \in Tasks : rejected'[u] <= attempt'[u]
    <3>1. attempt[t] \in Nat /\ rejected'[t] = attempt[t] + 1 /\ attempt'[t] = attempt[t] + 1
      BY <1>8 DEF RejectAfter, Attempts
    <3> QED BY <2>2, <3>1
  <2>6. UNCHANGED <<base, branches, commits, dirt, runs, wtPath, workDir>>
    BY <1>8 DEF RejectAfter
  <2>7. \A h \in threads' :
           h.stage \in {"record", "commit", "merge", "merging"} => h.task \in branches'
    BY <2>1
  <2>8. ASSUME NEW u \in Tasks, Live(u)'
        PROVE  /\ \A e \in commits'[u] \union dirt'[u] :
                     e.task = u => e.attempt >= rejected'[u]
               /\ \A r \in runs' :
                     r.task = u /\ r.dir = "worktree" => r.attempt >= rejected'[u]
    <3>1. u # t /\ Live(u)
      BY <2>4, <2>8
    <3> HIDE DEF Live
    <3> QED BY <3>1, <2>2, <2>6
  <2> HIDE DEF Live
  <2> QED BY <2>1, <2>3, <2>5, <2>6, <2>7, <2>8
<1>9. CASE Requeue(t)
  BY <1>2, <1>3, <1>9 DEF Requeue, Attempts
<1> QED BY <1>1, <1>4, <1>5, <1>6, <1>7, <1>8, <1>9

\* A worktree is made only where the task never had one, and a merge takes only
\* what is no older than the last rejection.
LEMMA HandlerFresh ==
    ASSUME MergeInv, FreshWhileLive, HandlerStep
    PROVE  FreshWhileLive' \/ cut'
<1> USE DEF MergeInv, TypeInv, TypeOK, MergingApproved, FreshWhileLive,
            OnlyApprovedIsMerged, Live, Undone, rowVars, repoVars, histVars
<1>1. PICK h \in threads :
         \/ AddWorktree(h) \/ RecordWorktree(h) \/ AutoCommit(h) \/ BeginMerge(h)
         \/ EndMerge(h) \/ RemoveWorktree(h) \/ ClearPath(h)
  BY DEF HandlerStep
<1>2. h.task \in Tasks /\ threads = {h}
  BY DEF Threads, OneThread
<1>3. /\ Ends(h) => OneThread' /\ threads' = {}
      /\ \A stage \in Stages : MovesTo(h, stage) =>
            OneThread' /\ threads' = {[task |-> h.task, stage |-> stage]}
  BY StillOneThread DEF Threads
<1>4. CASE AddWorktree(h)
  BY <1>2, <1>3, <1>4 DEF AddWorktree, Stages
<1>5. CASE RecordWorktree(h)
  BY <1>2, <1>3, <1>5 DEF RecordWorktree
<1>6. CASE AutoCommit(h)
  BY <1>2, <1>3, <1>6 DEF AutoCommit, Commit, Stages
<1>7. CASE BeginMerge(h)
  BY <1>2, <1>3, <1>7 DEF BeginMerge, Stages
<1>8. CASE EndMerge(h)
  BY <1>2, <1>3, <1>8 DEF EndMerge, Stages
<1>9. ASSUME RemoveWorktree(h), ~ cut' PROVE FreshWhileLive'
  <2>0. UNCHANGED cut /\ MovesTo(h, "clear") /\ dirt' = [dirt EXCEPT ![h.task] = {}]
    BY <1>9 DEF RemoveWorktree
  <2>1. OneThread' /\ threads' = {[task |-> h.task, stage |-> "clear"]}
    BY <1>3, <2>0 DEF Stages
  <2>2. \A u \in Tasks : Live(u)' => Live(u)
    BY <1>2, <1>9, <2>1 DEF RemoveWorktree
  <2>3. /\ UNCHANGED <<base, branches, commits, runs, wtPath, workDir, rejected,
                       attempt>>
        /\ \A u \in Tasks : dirt'[u] \subseteq dirt[u]
    BY <1>2, <1>9, <2>0 DEF RemoveWorktree
  <2> HIDE DEF Live
  <2> QED BY <2>1, <2>2, <2>3
<1>10. CASE ClearPath(h)
  BY <1>2, <1>3, <1>10 DEF ClearPath
<1> QED BY <1>1, <1>4, <1>5, <1>6, <1>7, <1>8, <1>9, <1>10

\* Pods write edits of the attempt they claimed, which no live worktree rejects.
LEMMA PodFresh == ASSUME MergeInv, FreshWhileLive, PodStep PROVE FreshWhileLive'
<1> USE DEF MergeInv, TypeInv, TypeOK, MergingApproved, FreshWhileLive,
            OnlyApprovedIsMerged, OneThread, Live, Undone,
            rowVars, repoVars, histVars
<1>1. ASSUME NEW t \in Tasks, Claim(t) PROVE FreshWhileLive'
  BY <1>1 DEF Claim
<1>2. ASSUME NEW r \in runs,
             \/ BuildTools(r) \/ WriteFile(r) \/ GitCommit(r)
             \/ Delivers(r) \/ PodDies(r)
      PROVE  FreshWhileLive'
  <2>1. r \in Runs /\ r.task \in Tasks
    BY DEF Runs
  <2>2. EditOf(r).task = r.task /\ EditOf(r).attempt = r.attempt
    BY DEF EditOf
  <2>3. CASE BuildTools(r)
    BY <2>1, <2>3 DEF BuildTools, Runs
  <2>4. CASE WriteFile(r)
    BY <2>1, <2>2, <2>4 DEF WriteFile, Runs
  <2>5. CASE GitCommit(r)
    BY <2>1, <2>5 DEF GitCommit, Commit
  <2>6. CASE Delivers(r)
    BY <2>1, <2>6 DEF Delivers
  <2>7. CASE PodDies(r)
    BY <2>7 DEF PodDies
  <2> QED BY <1>2, <2>3, <2>4, <2>5, <2>6, <2>7
<1> QED BY <1>1, <1>2 DEF PodStep

\* A handler that was cut short is not forgotten.
LEMMA CutStep == ASSUME cut, [Next]_vars PROVE cut'
BY DEF Next, UserStep, HandlerStep, PodStep, Crash, vars, histVars,
       EditWorkingDir, ApproveBefore, RejectBefore, ApproveAfter, RejectAfter,
       Requeue, AddWorktree, RecordWorktree, AutoCommit, BeginMerge, EndMerge,
       RemoveWorktree, ClearPath, Claim, BuildTools, WriteFile, GitCommit,
       Delivers, PodDies

\* Every step keeps rejected edits away from the next merge.
LEMMA FreshStep ==
    ASSUME FreshInv, MaxThreads = 1, [Next]_vars
    PROVE  FreshInv'
<1>1. MergeInv /\ MergeInv'
  BY MergeStep DEF FreshInv
<1>2. CASE cut
  BY <1>1, <1>2, CutStep DEF FreshInv
<1>3. CASE FreshWhileLive
  <2>1. ASSUME UNCHANGED vars PROVE FreshWhileLive'
    BY <1>3, <2>1 DEF vars, FreshWhileLive, OneThread, Live, Undone, rowVars,
                      repoVars, histVars
  <2>2. Crash => cut'
    BY DEF Crash
  <2>3. ASSUME UserStep \/ HandlerStep \/ PodStep PROVE FreshWhileLive' \/ cut'
    BY <1>1, <1>3, <2>3, UserFresh, HandlerFresh, PodFresh
  <2>4. FreshWhileLive' \/ cut'
    BY <2>1, <2>2, <2>3 DEF Next
  <2> QED BY <1>1, <2>4 DEF FreshInv
<1> QED BY <1>2, <1>3 DEF FreshInv

\* If the user waits for every gate command, no edit of a rejected attempt is
\* ever merged until a handler is cut short, by a kill or by git's timeout.
THEOREM RejectedWorkStaysOut ==
    ASSUME MaxThreads = 1
    PROVE  Spec => []RejectedStaysOut
<1>1. Init => FreshInv
  BY InitTypes, InitMerging, InitFresh DEF FreshInv, MergeInv
<1>2. FreshInv /\ [Next]_vars => FreshInv'
  BY FreshStep
<1>3. FreshInv => RejectedStaysOut
  BY DEF FreshInv, FreshWhileLive, RejectedStaysOut
<1> QED BY <1>1, <1>2, <1>3, PTL DEF Spec

-----------------------------------------------------------------------------
(* Where a worktree_path leads, for any number of gate commands at once. *)

CleanupStages == {"commit", "merge", "merging", "remove", "clear"}

\* Nothing is asked of the worktree of such a task any more, except by a retry.
GivenUp(t) == status[t] = "done" \/ rejected[t] > 0

\* The worktree of a path that is set is there until a thread is about to clear
\* the path; only a crash can take that thread away.  Before the path is set,
\* the thread that will set it has the task to itself.
PathInv ==
    /\ \A t \in wtPath :
          /\ t \in branches
          /\ \/ dir[t] = "linked"
             \/ \E h \in threads : h.task = t /\ h.stage = "clear"
             \/ cut /\ GivenUp(t)
    /\ \A h \in threads : h.stage = "record" =>
          /\ h.task \in branches /\ dir[h.task] = "linked" /\ h.task \notin wtPath
          /\ \A g \in threads : g.task = h.task => g.stage \notin CleanupStages
    /\ \A h \in threads : h.stage \in CleanupStages => h.task \in branches
    /\ \A h \in threads : h.stage \in {"remove", "clear"} => GivenUp(h.task)

\* A thread that moves on is the same thread; one that ends is gone.
LEMMA ThreadMoves ==
    ASSUME TypeInv, NEW h \in threads
    PROVE  /\ \A stage : MovesTo(h, stage) =>
                 /\ [task |-> h.task, stage |-> stage] \in threads'
                 /\ \A g \in threads : g # h => g \in threads'
                 /\ \A g \in threads' :
                       \/ g \in threads /\ g # h
                       \/ g.task = h.task /\ g.stage = stage
           /\ Ends(h) => /\ threads' \subseteq threads
                         /\ \A g \in threads : g # h => g \in threads'
<1>1. h \in Threads
  BY DEF TypeInv, TypeOK
<1>2. \A stage : [h EXCEPT !.stage = stage] = [task |-> h.task, stage |-> stage]
  BY <1>1 DEF Threads
<1> QED BY <1>2 DEF MovesTo, Ends

\* A gate command starts to clean up only if the path is set.
LEMMA UserPath == ASSUME MergeInv, PathInv, UserStep PROVE PathInv'
<1> USE DEF MergeInv, TypeInv, TypeOK, PathInv, GivenUp, CleanupStages,
            rowVars, repoVars, histVars
<1>1. PICK t \in Tasks :
         \/ EditWorkingDir(t) \/ ApproveBefore(t) \/ RejectBefore(t)
         \/ ApproveAfter(t) \/ RejectAfter(t) \/ Requeue(t)
  BY DEF UserStep
<1>2. \A stage : Starts(t, stage) =>
         /\ threads \subseteq threads'
         /\ \A g \in threads' : g \in threads \/ (g.task = t /\ g.stage = stage)
  BY DEF Starts
<1>3. CASE EditWorkingDir(t)
  BY <1>3 DEF EditWorkingDir
<1>4. CASE ApproveBefore(t)
  BY <1>2, <1>4 DEF ApproveBefore
<1>5. CASE RejectBefore(t)
  BY <1>5 DEF RejectBefore
<1>6. CASE ApproveAfter(t)
  BY <1>2, <1>6 DEF ApproveAfter, Cleanup
<1>7. CASE RejectAfter(t)
  <2>1. rejected'[t] > 0 /\ \A u \in Tasks \ {t} : rejected'[u] = rejected[u]
    BY <1>7 DEF RejectAfter, Attempts
  <2>2. \A u \in Tasks : GivenUp(u) => GivenUp(u)'
    BY <1>7, <2>1 DEF RejectAfter
  <2> HIDE DEF GivenUp
  <2>3. GivenUp(t)'
    BY <2>1 DEF GivenUp
  <2> QED BY <1>2, <1>7, <2>2, <2>3 DEF RejectAfter, Cleanup, Threads
<1>8. CASE Requeue(t)
  BY <1>8 DEF Requeue
<1> QED BY <1>1, <1>3, <1>4, <1>5, <1>6, <1>7, <1>8

\* A worktree is removed by a thread that then clears its path.
LEMMA HandlerPath == ASSUME MergeInv, PathInv, HandlerStep PROVE PathInv'
<1> USE DEF MergeInv, TypeInv, TypeOK, PathInv, GivenUp, CleanupStages,
            rowVars, repoVars, histVars
<1>1. PICK h \in threads :
         \/ AddWorktree(h) \/ RecordWorktree(h) \/ AutoCommit(h) \/ BeginMerge(h)
         \/ EndMerge(h) \/ RemoveWorktree(h) \/ ClearPath(h)
  BY DEF HandlerStep
<1>2. h.task \in Tasks
  BY DEF Threads
<1>3. /\ \A stage : MovesTo(h, stage) =>
            /\ [task |-> h.task, stage |-> stage] \in threads'
            /\ \A g \in threads : g # h => g \in threads'
            /\ \A g \in threads' : \/ g \in threads /\ g # h
                                   \/ g.task = h.task /\ g.stage = stage
      /\ Ends(h) => /\ threads' \subseteq threads
                    /\ \A g \in threads : g # h => g \in threads'
  BY ThreadMoves
<1> HIDE DEF GivenUp
<1>4. ASSUME h.stage \in CleanupStages \ {"clear"},
             UNCHANGED <<wtPath, branches, status, rejected>>, cut => cut',
             \A t \in Tasks \ {h.task} : dir'[t] = dir[t],
             \/ dir'[h.task] = dir[h.task]
             \/ MovesTo(h, "clear"),
             \/ Ends(h)
             \/ \E stage \in CleanupStages :
                   /\ MovesTo(h, stage)
                   /\ stage \in {"remove", "clear"} => GivenUp(h.task)
      PROVE  PathInv'
  <2> HIDE DEF MergeInv, TypeInv, TypeOK, PathInv, CleanupStages
  <2>1. \A t \in Tasks : GivenUp(t)' <=> GivenUp(t)
    BY <1>4 DEF GivenUp
  <2>2. \A g \in threads' :
           \/ g \in threads
           \/ g.task = h.task /\ g.stage \in CleanupStages
    BY <1>3, <1>4
  <2>3. \A g \in threads : g.stage = "clear" => g \in threads'
    BY <1>3, <1>4
  <2>4. \A g \in threads' : g.stage \in {"remove", "clear"} => GivenUp(g.task)
    BY <1>3, <1>4 DEF PathInv
  <2>5. \A g \in threads' : g.stage = "record" => g \in threads /\ g.task # h.task
    BY <2>2, <1>4 DEF PathInv, CleanupStages
  <2>6. ASSUME NEW t \in wtPath
        PROVE  \/ dir'[t] = "linked"
               \/ \E g \in threads' : g.task = t /\ g.stage = "clear"
               \/ cut /\ GivenUp(t)
    <3>1. CASE dir'[t] = dir[t]
      BY <2>3, <3>1 DEF PathInv
    <3>2. CASE t = h.task /\ MovesTo(h, "clear")
      BY <1>3, <3>2
    <3>3. dir'[t] = dir[t] \/ (t = h.task /\ MovesTo(h, "clear"))
      BY <1>4 DEF MergeInv, TypeInv, TypeOK
    <3> QED BY <3>1, <3>2, <3>3
  <2> QED BY <1>4, <2>1, <2>2, <2>4, <2>5, <2>6
          DEF PathInv, MergeInv, TypeInv, TypeOK, Threads
<1>5. CASE AddWorktree(h)
  <2>1. CASE Ends(h) /\ UNCHANGED <<dir, branches>>
    BY <1>3, <1>5, <2>1 DEF AddWorktree, GivenUp
  <2>2. CASE /\ h.task \notin branches /\ dir' = [dir EXCEPT ![h.task] = "linked"]
             /\ branches' = branches \union {h.task} /\ MovesTo(h, "record")
    <3>1. \A g \in threads' : g \in threads \/ (g.task = h.task /\ g.stage = "record")
      BY <1>3, <2>2
    <3>2. \A g \in threads' : g.task = h.task => g.stage \notin CleanupStages
      BY <2>2, <3>1
    <3>3. \A g \in threads : g.stage = "clear" => g \in threads'
      BY <1>3, <1>5, <2>2 DEF AddWorktree
    <3>4. UNCHANGED <<wtPath, status, rejected, cut>> /\ h.task \notin wtPath
      BY <1>5, <2>2 DEF AddWorktree
    <3>5. dir'[h.task] = "linked" /\ \A t \in Tasks \ {h.task} : dir'[t] = dir[t]
      BY <1>2, <2>2
    <3>6. \A t \in Tasks : GivenUp(t)' <=> GivenUp(t)
      BY <3>4 DEF GivenUp
    <3> QED BY <2>2, <3>1, <3>2, <3>3, <3>4, <3>5, <3>6 DEF Threads
  <2> QED BY <1>5, <2>1, <2>2 DEF AddWorktree
<1>6. CASE RecordWorktree(h)
  <2>1. /\ wtPath' = wtPath \union {h.task}
        /\ UNCHANGED <<dir, branches, status, rejected, cut>>
        /\ h.task \in branches /\ dir[h.task] = "linked"
    BY <1>6 DEF RecordWorktree
  <2>2. threads' = threads \ {h} /\ h.stage = "record"
    BY <1>6 DEF RecordWorktree, Ends
  <2>3. \A g \in threads' : g.stage = "record" => g.task # h.task
    BY <2>2 DEF Threads
  <2>4. \A t \in Tasks : GivenUp(t)' <=> GivenUp(t)
    BY <2>1 DEF GivenUp
  <2> QED BY <2>1, <2>2, <2>3, <2>4 DEF Threads
<1>7. CASE AutoCommit(h)
  <2>1. UNCHANGED <<wtPath, branches, status, rejected, cut, dir>>
    BY <1>7 DEF AutoCommit
  <2>2. (Ends(h) \/ MovesTo(h, "merge")) /\ h.stage = "commit"
    BY <1>7 DEF AutoCommit
  <2> QED BY <1>4, <2>1, <2>2
<1>8. CASE BeginMerge(h) \/ EndMerge(h)
  <2>1. /\ UNCHANGED <<wtPath, branches, status, rejected, cut, dir>>
        /\ h.stage \in {"merge", "merging"}
        /\ MovesTo(h, "merging") \/ MovesTo(h, "remove")
    BY <1>8 DEF BeginMerge, EndMerge
  <2>2. GivenUp(h.task)
    BY <2>1 DEF GivenUp, MergingApproved
  <2> QED BY <1>4, <2>1, <2>2
<1>9. CASE RemoveWorktree(h)
  <2>1. /\ UNCHANGED <<wtPath, branches, status, rejected>>
        /\ h.stage = "remove"
        /\ \/ dir' = [dir EXCEPT ![h.task] = "none"] /\ MovesTo(h, "clear") /\ cut' = cut
           \/ UNCHANGED dir /\ Ends(h) /\ cut'
    BY <1>9 DEF RemoveWorktree
  <2>2. \A t \in Tasks \ {h.task} : dir'[t] = dir[t]
    BY <2>1
  <2> QED BY <1>4, <2>1, <2>2
<1>10. CASE ClearPath(h)
  <2>1. /\ wtPath' = wtPath \ {h.task}
        /\ UNCHANGED <<dir, branches, status, rejected, cut>>
        /\ threads' = threads \ {h}
    BY <1>10 DEF ClearPath, Ends
  <2>2. \A t \in Tasks : GivenUp(t)' <=> GivenUp(t)
    BY <2>1 DEF GivenUp
  <2> QED BY <2>1, <2>2 DEF Threads
<1> QED BY <1>1, <1>5, <1>6, <1>7, <1>8, <1>9, <1>10

\* A pod neither removes a worktree nor sets or clears a path.
LEMMA PodPath == ASSUME MergeInv, PathInv, PodStep PROVE PathInv'
<1>1. /\ UNCHANGED <<threads, wtPath, branches, rejected, cut>>
      /\ \A t \in Tasks : /\ dir[t] = "linked" => dir'[t] = "linked"
                          /\ status[t] = "done" => status'[t] = "done"
  <2> USE DEF MergeInv, TypeInv, TypeOK, rowVars, repoVars, histVars
  <2>1. ASSUME NEW t \in Tasks, Claim(t) PROVE <1>1!1 /\ <1>1!2
    BY <2>1 DEF Claim
  <2>2. ASSUME NEW r \in runs,
               \/ BuildTools(r) \/ WriteFile(r) \/ GitCommit(r)
               \/ Delivers(r) \/ PodDies(r)
        PROVE  <1>1!1 /\ <1>1!2
    BY <2>2 DEF BuildTools, WriteFile, GitCommit, Delivers, PodDies
  <2> QED BY <2>1, <2>2 DEF PodStep
<1> QED BY <1>1 DEF MergeInv, TypeInv, TypeOK, PathInv, GivenUp, Threads

\* Every step keeps the paths; a crash sets cut.
LEMMA PathStep == ASSUME MergeInv, PathInv, [Next]_vars PROVE PathInv'
<1>1. CASE Crash
  BY <1>1 DEF Crash, PathInv, GivenUp, CleanupStages, rowVars, repoVars
<1>2. CASE UNCHANGED vars
  BY <1>2 DEF vars, PathInv, GivenUp, CleanupStages, rowVars, repoVars, histVars
<1> QED BY <1>1, <1>2, UserPath, HandlerPath, PodPath DEF Next

\* Merging and paths are safe together in every state.
LEMMA PathInvariance == Spec => [](MergeInv /\ PathInv)
<1>1. Init => MergeInv /\ PathInv
  BY InitTypes, InitMerging DEF Init, MergeInv, PathInv
<1>2. MergeInv /\ PathInv /\ [Next]_vars => (MergeInv /\ PathInv)'
  BY MergeStep, PathStep
<1> QED BY <1>1, <1>2, PTL DEF Spec

\* The path in the table is a linked worktree on the task's branch whenever no
\* thread works for the task, for any number of gate commands at once, until a
\* handler is cut short.
THEOREM PathsAreWorktrees == Spec => []PathIsWorktree
<1>1. PathInv => PathIsWorktree
  BY DEF PathInv, PathIsWorktree, Settled
<1> QED BY <1>1, PathInvariance, PTL

-----------------------------------------------------------------------------
(* What was approved, when the user waits. *)

\* A task is given out once per attempt: a pod at work on the current attempt
\* is the only one, nobody has the attempt that is waiting to be given out, and
\* whoever delivered is done.
AttemptsOnce ==
    /\ \A r \in runs :
          /\ r.attempt <= attempt[r.task]
          /\ status[r.task] \in {"before_gate", "ready"} =>
                r.attempt < attempt[r.task]
          /\ status[r.task] \in {"after_gate", "done"} =>
                r.attempt # delivered[r.task]
    /\ \A e \in written :
          /\ e.attempt <= attempt[e.task]
          /\ status[e.task] \in {"before_gate", "ready"} =>
                e.attempt < attempt[e.task]
    /\ \A r, s \in runs : r.task = s.task /\ r.attempt = s.attempt => r = s

\* No handler was cut short after a rejection of this task.
Orderly(t) == cut => rejected[t] = 0

Found(t) == base \union target \union commits[t] \union dirt[t]
Saved(t) == base \union target \union commits[t]

\* An edit that is not rejected is where the user can find it; once the task is
\* approved this is said of the approved attempt only, and from the commit on,
\* of what outlives the worktree.
EditKept(e) ==
    e.task \notin Testing /\ e.attempt >= rejected[e.task] /\ Orderly(e.task) =>
       /\ status[e.task] # "done" => e \in Found(e.task)
       /\ status[e.task] = "done" /\ e.attempt = delivered[e.task] =>
             \/ e \in Saved(e.task)
             \/ /\ e \in Found(e.task)
                /\ \A h \in threads : h.task = e.task =>
                      h.stage \notin {"merge", "merging", "remove"}

KeptInv ==
    /\ OneThread
    /\ \A t \in Tasks : rejected[t] <= attempt[t]
    /\ \A h \in threads : h.stage = "commit" /\ Orderly(h.task) =>
          dir[h.task] = "linked"
    /\ \A h \in threads : h.stage = "remove" =>
          \/ status[h.task] = "done"
          \/ status[h.task] = "before_gate" /\ rejected[h.task] = attempt[h.task]
    /\ \A e \in written : EditKept(e)

ApprovedInv == MergeInv /\ PathInv /\ AttemptsOnce /\ KeptInv

\* The initial states have no edits, pods or threads.
LEMMA InitKept == ASSUME Init PROVE AttemptsOnce /\ KeptInv
<1>1. IsFiniteSet(threads) /\ threads = {}
  BY FS_EmptySet DEF Init
<1> QED BY <1>1 DEF Init, AttemptsOnce, KeptInv, OneThread

\* Every step gives a task out once per attempt.
LEMMA AttemptsStep == ASSUME TypeInv, AttemptsOnce, [Next]_vars PROVE AttemptsOnce'
<1> USE DEF TypeInv, TypeOK, AttemptsOnce, rowVars, repoVars, histVars
<1>1. ASSUME NEW t \in Tasks,
             \/ EditWorkingDir(t) \/ ApproveBefore(t) \/ RejectBefore(t)
             \/ ApproveAfter(t)
      PROVE  AttemptsOnce'
  <2>1. UNCHANGED <<attempt, delivered, runs, written>>
    BY <1>1 DEF EditWorkingDir, ApproveBefore, RejectBefore, ApproveAfter
  <2>2. \A u \in Tasks :
           /\ status'[u] \in {"before_gate", "ready"} =>
                 status[u] \in {"before_gate", "ready"}
           /\ status'[u] \in {"after_gate", "done"} =>
                 status[u] \in {"after_gate", "done"}
    BY <1>1 DEF EditWorkingDir, ApproveBefore, RejectBefore, ApproveAfter
  <2> QED BY <2>1, <2>2 DEF Runs, Edits
<1>2. ASSUME NEW t \in Tasks, RejectAfter(t) \/ Requeue(t) PROVE AttemptsOnce'
  <2>1. /\ attempt' = [attempt EXCEPT ![t] = @ + 1] /\ attempt[t] \in Nat
        /\ \A u \in Tasks \ {t} : status'[u] = status[u]
        /\ status'[t] \notin {"after_gate", "done"}
        /\ UNCHANGED <<delivered, runs, written>>
    BY <1>2 DEF RejectAfter, Requeue, Attempts
  <2>2. \A r \in runs : r.task \in Tasks /\ r.attempt \in Nat
    BY DEF Runs, Attempts
  <2>3. \A e \in written : e.task \in Tasks /\ e.attempt \in Nat
    BY DEF Edits, Attempts
  <2> QED BY <2>1, <2>2, <2>3
<1>3. CASE HandlerStep \/ Crash \/ UNCHANGED vars
  <2>1. UNCHANGED <<status, attempt, delivered, runs, written>>
    BY <1>3 DEF HandlerStep, Crash, vars, AddWorktree, RecordWorktree, AutoCommit,
                BeginMerge, EndMerge, RemoveWorktree, ClearPath
  <2> QED BY <2>1
<1>4. ASSUME NEW t \in Tasks, Claim(t) PROVE AttemptsOnce'
  BY <1>4 DEF Claim, Runs, Attempts, Edits
<1>5. ASSUME NEW r \in runs, BuildTools(r) PROVE AttemptsOnce'
  <2> DEFINE exists == r.dir = "target" \/ dir[r.task] # "none"
             new == [r EXCEPT !.at = IF exists THEN "tools" ELSE "plain"]
  <2>1. /\ runs' = (runs \ {r}) \union {new}
        /\ new.task = r.task /\ new.attempt = r.attempt
    BY <1>5 DEF BuildTools, Runs
  <2> HIDE DEF new
  <2>2. UNCHANGED <<status, attempt, delivered, written>>
    BY <1>5 DEF BuildTools
  <2> QED BY <2>1, <2>2
<1>6. ASSUME NEW r \in runs, WriteFile(r) PROVE AttemptsOnce'
  BY <1>6 DEF WriteFile, EditOf
<1>7. ASSUME NEW r \in runs, GitCommit(r) \/ PodDies(r) PROVE AttemptsOnce'
  BY <1>7 DEF GitCommit, PodDies
<1>8. ASSUME NEW r \in runs, Delivers(r) PROVE AttemptsOnce'
  BY <1>8 DEF Delivers, Runs, Edits
<1> QED BY <1>1, <1>2, <1>3, <1>4, <1>5, <1>6, <1>7, <1>8
        DEF Next, UserStep, PodStep

\* A user who waits finds the worktree of an orderly task in place, and a
\* rejection leaves nothing of the task to be kept.
LEMMA UserKept ==
    ASSUME ApprovedInv, MaxThreads = 1, UserStep
    PROVE  KeptInv'
<1> USE DEF ApprovedInv, MergeInv, TypeInv, TypeOK, rowVars, repoVars, histVars
<1>1. PICK t \in Tasks :
         \/ EditWorkingDir(t) \/ ApproveBefore(t) \/ RejectBefore(t)
         \/ ApproveAfter(t) \/ RejectAfter(t) \/ Requeue(t)
  BY DEF UserStep
<1>2. threads = {}
  BY <1>1, UserWaits DEF EditWorkingDir, ApproveBefore, RejectBefore, ApproveAfter,
                         RejectAfter, Requeue, KeptInv
<1>3. threads' = {} \/ \E stage \in Stages : threads' = {[task |-> t, stage |-> stage]}
  BY <1>1, <1>2 DEF EditWorkingDir, ApproveBefore, RejectBefore, ApproveAfter,
                    RejectAfter, Requeue, Starts, Cleanup, Stages
<1>4. OneThread' /\ \A h \in threads' : h.task = t
  <2>1. ASSUME NEW h, threads' = {h} PROVE OneThread'
    BY <2>1, FS_Singleton DEF OneThread
  <2>2. threads' = {} => OneThread'
    BY FS_EmptySet DEF OneThread
  <2> QED BY <1>3, <2>1, <2>2
<1>5. UNCHANGED <<delivered, base, target, commits, dirt, dir, written, cut>>
  BY <1>1 DEF EditWorkingDir, ApproveBefore, RejectBefore, ApproveAfter, RejectAfter,
              Requeue
<1>6. \A e \in written : e.task \in Tasks /\ e.attempt \in Nat
  BY DEF Edits, Attempts
<1>7. CASE EditWorkingDir(t) \/ ApproveBefore(t) \/ RejectBefore(t)
  <2>1. /\ UNCHANGED <<attempt, rejected>>
        /\ \A u \in Tasks : status'[u] = "done" <=> status[u] = "done"
        /\ \A h \in threads' : h.stage = "add"
    BY <1>2, <1>7 DEF EditWorkingDir, ApproveBefore, RejectBefore, Starts
  <2> QED BY <1>4, <1>5, <1>6, <2>1 DEF KeptInv, EditKept, Orderly, Found, Saved
<1>8. CASE ApproveAfter(t)
  <2>1. /\ UNCHANGED <<attempt, rejected>>
        /\ status' = [status EXCEPT ![t] = "done"] /\ status[t] = "after_gate"
        /\ \A h \in threads' :
              /\ t \in wtPath
              /\ h.stage = IF t \in Testing THEN "remove" ELSE "commit"
    BY <1>2, <1>8 DEF ApproveAfter, Starts, Cleanup
  <2>2. t \in wtPath /\ Orderly(t) => dir[t] = "linked"
    BY <1>2, <2>1 DEF PathInv, GivenUp, Orderly, Attempts
  <2>3. ASSUME NEW e \in written PROVE EditKept(e)'
    BY <1>4, <1>5, <1>6, <2>1 DEF KeptInv, EditKept, Orderly, Found, Saved
  <2> QED BY <1>4, <1>5, <2>1, <2>2, <2>3 DEF KeptInv, Orderly
<1>9. CASE RejectAfter(t)
  <2>1. /\ status' = [status EXCEPT ![t] = "before_gate"]
        /\ attempt' = [attempt EXCEPT ![t] = attempt[t] + 1] /\ attempt[t] \in Nat
        /\ rejected' = [rejected EXCEPT ![t] = attempt[t] + 1]
        /\ \A h \in threads' : h.stage = "remove"
    BY <1>2, <1>9 DEF RejectAfter, Starts, Cleanup, Attempts
  <2>2. ASSUME NEW e \in written PROVE EditKept(e)'
    <3>1. CASE e.task = t
      <4>1. e.attempt < rejected'[t]
        BY <1>6, <2>1, <3>1 DEF AttemptsOnce
      <4> QED BY <1>6, <2>1, <3>1, <4>1 DEF EditKept
    <3>2. CASE e.task # t
      BY <1>4, <1>5, <1>6, <2>1, <3>2 DEF KeptInv, EditKept, Orderly, Found, Saved
    <3> QED BY <3>1, <3>2
  <2> QED BY <1>4, <1>5, <2>1, <2>2 DEF KeptInv, Orderly
<1>10. CASE Requeue(t)
  <2>1. /\ UNCHANGED rejected /\ threads' = {}
        /\ attempt' = [attempt EXCEPT ![t] = attempt[t] + 1]
        /\ \A u \in Tasks : attempt[u] \in Nat /\ rejected[u] \in Nat
        /\ \A u \in Tasks : status'[u] = "done" <=> status[u] = "done"
    BY <1>2, <1>10 DEF Requeue, Attempts
  <2> QED BY <1>4, <1>5, <1>6, <2>1 DEF KeptInv, EditKept, Orderly, Found, Saved
<1> QED BY <1>1, <1>7, <1>8, <1>9, <1>10

\* The worktree of approved work is removed after its edits were committed, that
\* of rejected work when no edit of the task counts.
LEMMA HandlerKept == ASSUME ApprovedInv, HandlerStep PROVE KeptInv'
<1> USE DEF ApprovedInv, MergeInv, TypeInv, TypeOK, rowVars, repoVars, histVars
<1>1. PICK h \in threads :
         \/ AddWorktree(h) \/ RecordWorktree(h) \/ AutoCommit(h) \/ BeginMerge(h)
         \/ EndMerge(h) \/ RemoveWorktree(h) \/ ClearPath(h)
  BY DEF HandlerStep
<1>2. h.task \in Tasks /\ threads = {h}
  BY DEF Threads, OneThread, KeptInv
<1>3. /\ Ends(h) => OneThread' /\ threads' = {}
      /\ \A stage \in Stages : MovesTo(h, stage) =>
            OneThread' /\ threads' = {[task |-> h.task, stage |-> stage]}
  BY StillOneThread DEF Threads, KeptInv
<1>4. /\ UNCHANGED <<status, attempt, delivered, rejected, target, written>>
      /\ cut => cut'
  BY <1>1 DEF AddWorktree, RecordWorktree, AutoCommit, BeginMerge, EndMerge,
              RemoveWorktree, ClearPath
<1>5. \A e \in written : e.task \in Tasks /\ e.attempt \in Nat
  BY DEF Edits, Attempts
<1>6. \A t \in Tasks : Orderly(t)' => Orderly(t)
  BY <1>4 DEF Orderly
<1>7. ASSUME Ends(h) \/ MovesTo(h, "record"),
             \A t \in Tasks : Saved(t) \subseteq Saved(t)' /\ Found(t) \subseteq Found(t)'
      PROVE  KeptInv'
  <2>1. OneThread' /\ \A g \in threads' : g.stage = "record"
    BY <1>3, <1>7 DEF Stages
  <2> QED BY <1>4, <1>5, <1>6, <1>7, <2>1 DEF KeptInv, EditKept
<1>8. ASSUME NEW stage \in {"merge", "merging", "remove", "clear"}, MovesTo(h, stage),
             status[h.task] = "done",
             \A t \in Tasks \ {h.task} :
                Saved(t) \subseteq Saved(t)' /\ Found(t) \subseteq Found(t)',
             Orderly(h.task) =>
                \A e \in written :
                   e.task = h.task /\ e.attempt = delivered[e.task]
                   /\ e.attempt >= rejected[e.task] /\ e.task \notin Testing
                   => e \in Saved(e.task)'
      PROVE  KeptInv'
  <2>1. OneThread' /\ threads' = {[task |-> h.task, stage |-> stage]}
    BY <1>3, <1>8 DEF Stages
  <2>2. \A g \in threads' : g.task = h.task /\ g.stage = stage
    BY <2>1
  <2>3. ASSUME NEW e \in written PROVE EditKept(e)'
    <3>1. CASE e.task = h.task
      BY <1>4, <1>5, <1>6, <1>8, <3>1 DEF EditKept
    <3>2. CASE e.task # h.task
      BY <1>2, <1>4, <1>5, <1>6, <1>8, <2>2, <3>2 DEF KeptInv, EditKept
    <3> QED BY <3>1, <3>2
  <2> QED BY <1>2, <1>4, <1>8, <2>1, <2>2, <2>3 DEF KeptInv
<1>9. CASE AddWorktree(h) \/ RecordWorktree(h) \/ ClearPath(h)
  <2>1. Ends(h) \/ MovesTo(h, "record")
    BY <1>9 DEF AddWorktree, RecordWorktree, ClearPath
  <2>2. /\ UNCHANGED <<base, target, dirt>>
        /\ \A t \in Tasks : commits[t] \subseteq commits'[t]
    BY <1>9 DEF AddWorktree, RecordWorktree, ClearPath
  <2> QED BY <1>7, <2>1, <2>2 DEF Saved, Found
<1>10. CASE AutoCommit(h)
  <2>1. /\ h.stage = "commit" /\ status[h.task] = "done" /\ UNCHANGED <<base, target, cut>>
        /\ Orderly(h.task) => dir[h.task] = "linked"
    BY <1>10 DEF AutoCommit, MergingApproved, KeptInv
  <2>2. /\ Commit(h.task) \/ UNCHANGED <<commits, dirt>>
        /\ Ends(h) \/ MovesTo(h, "merge")
        /\ MovesTo(h, "merge") /\ ~ Commit(h.task) => Ends(h) \/ dir[h.task] # "linked"
    BY <1>10 DEF AutoCommit
  <2>3. \A t \in Tasks : Saved(t) \subseteq Saved(t)' /\ Found(t) \subseteq Found(t)'
    BY <1>2, <1>4, <2>1, <2>2 DEF Commit, Saved, Found
  <2>4. CASE Ends(h)
    BY <1>7, <2>3, <2>4
  <2>5. CASE MovesTo(h, "merge") /\ ~ Ends(h)
    <3>1. Orderly(h.task) => Found(h.task) \subseteq Saved(h.task)'
      BY <1>2, <1>4, <2>1, <2>2, <2>5 DEF Commit, Saved, Found
    <3>2. Orderly(h.task) =>
             \A e \in written :
                e.task = h.task /\ e.attempt = delivered[e.task]
                /\ e.attempt >= rejected[e.task] /\ e.task \notin Testing
                => e \in Saved(e.task)'
      <4>1. ASSUME Orderly(h.task), NEW e \in written,
                   e.task = h.task, e.attempt = delivered[e.task],
                   e.attempt >= rejected[e.task], e.task \notin Testing
            PROVE  e \in Found(h.task)
        <5>1. EditKept(e)
          BY DEF KeptInv
        <5> QED BY <2>1, <4>1, <5>1 DEF EditKept, Saved, Found
      <4> QED BY <3>1, <4>1
    <3> QED BY <1>8, <2>1, <2>3, <2>5, <3>2
  <2> QED BY <2>2, <2>4, <2>5
<1>11. ASSUME h.stage \in {"merge", "merging", "remove"}, status[h.task] = "done"
       PROVE  Orderly(h.task) =>
                \A e \in written :
                   e.task = h.task /\ e.attempt = delivered[e.task]
                   /\ e.attempt >= rejected[e.task] /\ e.task \notin Testing
                   => e \in Saved(e.task)
  BY <1>11 DEF KeptInv, EditKept
<1>12. CASE BeginMerge(h) \/ EndMerge(h)
  <2>1. /\ h.stage \in {"merge", "merging"} /\ status[h.task] = "done"
        /\ \E stage \in {"merging", "remove"} : MovesTo(h, stage)
        /\ UNCHANGED <<target, commits, dirt>> /\ base \subseteq base'
    BY <1>12 DEF BeginMerge, EndMerge, MergingApproved
  <2>2. \A t \in Tasks : Saved(t) \subseteq Saved(t)' /\ Found(t) \subseteq Found(t)'
    BY <1>4, <2>1 DEF Saved, Found
  <2> QED BY <1>2, <1>5, <1>8, <1>11, <2>1, <2>2
<1>13. CASE RemoveWorktree(h)
  <2>1. /\ h.stage = "remove" /\ UNCHANGED <<base, target, commits>>
        /\ \/ Ends(h) /\ UNCHANGED dirt
           \/ MovesTo(h, "clear") /\ dirt' = [dirt EXCEPT ![h.task] = {}]
    BY <1>13 DEF RemoveWorktree
  <2>2. CASE Ends(h) /\ UNCHANGED dirt
    BY <1>4, <1>7, <2>1, <2>2 DEF Saved, Found
  <2>3. CASE MovesTo(h, "clear") /\ dirt' = [dirt EXCEPT ![h.task] = {}]
    <3>1. /\ \A t \in Tasks : Saved(t) \subseteq Saved(t)'
          /\ \A t \in Tasks \ {h.task} : Found(t) \subseteq Found(t)'
      BY <1>2, <1>4, <2>1, <2>3 DEF Saved, Found
    <3>2. CASE status[h.task] = "done"
      BY <1>2, <1>5, <1>8, <1>11, <2>1, <2>3, <3>1, <3>2
    <3>3. CASE status[h.task] = "before_gate" /\ rejected[h.task] = attempt[h.task]
      <4>1. OneThread' /\ threads' = {[task |-> h.task, stage |-> "clear"]}
        BY <1>3, <2>3 DEF Stages
      <4>2. ASSUME NEW e \in written PROVE EditKept(e)'
        <5>1. e.task = h.task => e.attempt < rejected[e.task]
          BY <1>5, <3>3 DEF AttemptsOnce
        <5>2. e.task = h.task => EditKept(e)'
          BY <1>2, <1>4, <1>5, <5>1 DEF EditKept, Attempts
        <5>3. e.task # h.task => EditKept(e)'
          BY <1>2, <1>4, <1>5, <1>6, <3>1, <4>1 DEF KeptInv, EditKept
        <5> QED BY <5>2, <5>3
      <4> QED BY <1>4, <4>1, <4>2 DEF KeptInv
    <3> QED BY <2>1, <3>2, <3>3 DEF KeptInv
  <2> QED BY <2>1, <2>2, <2>3
<1> QED BY <1>1, <1>9, <1>10, <1>12, <1>13

\* A pod adds its edit where it works, and no pod has the approved attempt.
LEMMA PodKept == ASSUME ApprovedInv, PodStep PROVE KeptInv'
<1> USE DEF ApprovedInv, MergeInv, TypeInv, TypeOK, rowVars, repoVars, histVars
<1>1. \A e \in written : e.task \in Tasks /\ e.attempt \in Nat
  BY DEF Edits, Attempts
<1>2. /\ UNCHANGED <<threads, attempt, rejected, cut, base>>
      /\ \A t \in Tasks : dir[t] = "linked" => dir'[t] = "linked"
      /\ \A t \in Tasks : Saved(t) \subseteq Saved(t)' /\ Found(t) \subseteq Found(t)'
      /\ \A t \in Tasks : /\ status'[t] = "done" <=> status[t] = "done"
                          /\ status[t] = "done" => delivered'[t] = delivered[t]
                          /\ status[t] = "before_gate" => status'[t] = "before_gate"
      /\ \A e \in written' : \/ e \in written
                             \/ /\ e.task \in Tasks /\ e \in Found(e.task)'
                                /\ status[e.task] = "done" =>
                                      e.attempt # delivered[e.task]
  <2>1. ASSUME NEW t \in Tasks, Claim(t) PROVE <1>2
    BY <2>1 DEF Claim, Saved, Found
  <2>2. ASSUME NEW r \in runs, WriteFile(r) PROVE <1>2
    <3>1. r.task \in Tasks /\ EditOf(r).task = r.task /\ EditOf(r).attempt = r.attempt
      BY DEF Runs, EditOf
    <3>2. status[r.task] = "done" => r.attempt # delivered[r.task]
      BY DEF AttemptsOnce
    <3>3. EditOf(r) \in Found(r.task)'
      BY <2>2, <3>1 DEF WriteFile, Found
    <3> QED BY <2>2, <3>1, <3>2, <3>3 DEF WriteFile, Saved, Found
  <2>3. ASSUME NEW r \in runs, BuildTools(r) \/ PodDies(r) PROVE <1>2
    BY <2>3 DEF BuildTools, PodDies, Saved, Found
  <2>4. ASSUME NEW r \in runs, GitCommit(r) PROVE <1>2
    BY <2>4 DEF GitCommit, Commit, Saved, Found
  <2>5. ASSUME NEW r \in runs, Delivers(r) PROVE <1>2
    BY <2>5 DEF Delivers, Saved, Found
  <2> QED BY <2>1, <2>2, <2>3, <2>4, <2>5 DEF PodStep
<1>3. ASSUME NEW e \in written' PROVE EditKept(e)'
  BY <1>1, <1>2 DEF KeptInv, EditKept, Orderly
<1>4. OneThread'
  BY <1>2 DEF KeptInv, OneThread
<1> QED BY <1>2, <1>3, <1>4 DEF KeptInv, Orderly, Threads

\* Every step keeps what was approved, if the user waits.
LEMMA KeptStep == ASSUME ApprovedInv, MaxThreads = 1, [Next]_vars PROVE ApprovedInv'
<1>1. MergeInv' /\ PathInv' /\ AttemptsOnce'
  BY MergeStep, PathStep, AttemptsStep DEF ApprovedInv, MergeInv
<1>2. CASE Crash
  <2>1. /\ UNCHANGED <<status, attempt, delivered, rejected, base, target, commits,
                       dirt, written>>
        /\ threads' = {} /\ cut'
    BY <1>2 DEF Crash, rowVars, repoVars
  <2>2. OneThread'
    BY <2>1, FS_EmptySet DEF OneThread
  <2>3. ASSUME NEW e \in written PROVE EditKept(e)'
    BY <2>1 DEF ApprovedInv, KeptInv, EditKept, Orderly, Saved, Found
  <2>4. \A t \in Tasks : rejected'[t] <= attempt'[t]
    BY <2>1 DEF ApprovedInv, KeptInv
  <2> QED BY <1>1, <2>1, <2>2, <2>3, <2>4 DEF ApprovedInv, KeptInv
<1>3. CASE UNCHANGED vars
  BY <1>1, <1>3 DEF vars, rowVars, repoVars, histVars, ApprovedInv, KeptInv, OneThread,
                    EditKept, Orderly, Saved, Found
<1> QED BY <1>1, <1>2, <1>3, UserKept, HandlerKept, PodKept DEF Next, ApprovedInv

\* If the user waits for every gate command, the edits of an approved attempt
\* are never lost, whichever git command fails and whenever the backend is
\* killed, unless that happened after a rejection of the task.
THEOREM ApprovedWorkStays ==
    ASSUME MaxThreads = 1
    PROVE  Spec => []ApprovedWorkIsKept
<1>1. Init => ApprovedInv
  BY InitTypes, InitMerging, InitKept
  DEF Init, ApprovedInv, MergeInv, PathInv
<1>2. ApprovedInv /\ [Next]_vars => ApprovedInv'
  BY KeptStep
<1>3. ApprovedInv => ApprovedWorkIsKept
  BY DEF ApprovedInv, KeptInv, EditKept, Orderly, Saved, Found, ApprovedWorkIsKept
<1> QED BY <1>1, <1>2, <1>3, PTL DEF Spec
-----------------------------------------------------------------------------
(* What becomes of a retry. *)

\* The task has a branch, but no worktree and no thread that would make use of
\* one: neither of the threads that are left can make another.
OutOfReach(t) ==
    /\ t \in branches
    /\ dir[t] # "linked"
    /\ t \notin wtPath
    /\ \A h \in threads : h.task = t => h.stage \in {"add", "remove", "clear"}

BaseOf(t) == {e \in base : e.task = t}

\* From there on no approval leads to a worktree, and nothing pods do for the
\* task is merged.  This is the defect behind RetryGetsWorktree: the branch that
\* remove_worktree keeps makes every later `git worktree add -b` fail.
OutOfReachForGood ==
    [][\A t \in Tasks : OutOfReach(t) =>
          OutOfReach(t)' /\ BaseOf(t)' = BaseOf(t)]_vars

\* A cleanup that runs to its end is the last the repository sees of a task.
CleanupIsFinal == [][\A h \in threads : ClearPath(h) => OutOfReach(h.task)']_vars

\* A step of the user or of a pod for a task out of reach.
LEMMA OutsideOutOfReach ==
    ASSUME TypeInv, UserStep \/ PodStep, NEW t \in Tasks, OutOfReach(t)
    PROVE  OutOfReach(t)' /\ BaseOf(t)' = BaseOf(t)
<1> USE DEF TypeInv, TypeOK, rowVars, repoVars, histVars
<1>1. UNCHANGED <<base, branches, wtPath>>
  BY DEF UserStep, PodStep, EditWorkingDir, ApproveBefore, RejectBefore, ApproveAfter,
         RejectAfter, Requeue, Claim, BuildTools, WriteFile, GitCommit, Delivers,
         PodDies
<1>2. dir'[t] # "linked"
  BY DEF OutOfReach, UserStep, PodStep, EditWorkingDir, ApproveBefore, RejectBefore,
         ApproveAfter, RejectAfter, Requeue, Claim, BuildTools, WriteFile, GitCommit,
         Delivers, PodDies, Runs
<1>3. ASSUME NEW h \in threads', h.task = t
      PROVE  h.stage \in {"add", "remove", "clear"}
  <2>1. CASE PodStep
    BY <1>3, <2>1 DEF OutOfReach, PodStep, Claim, BuildTools, WriteFile, GitCommit,
                      Delivers, PodDies
  <2>2. ASSUME NEW u \in Tasks, ApproveAfter(u) \/ RejectAfter(u)
        PROVE  h \in threads \/ (h.task = u /\ u \in wtPath)
    <3>1. \/ threads' = threads
          \/ u \in wtPath /\ \E stage \in Stages : Starts(u, stage)
      BY <2>2 DEF ApproveAfter, RejectAfter, Cleanup, Stages
    <3>2. ASSUME NEW stage, Starts(u, stage)
          PROVE  h \in threads \/ h.task = u
      <4>1. h \in threads \/ h = [task |-> u, stage |-> stage]
        BY <3>2 DEF Starts
      <4> QED BY <4>1
    <3> QED BY <3>1, <3>2
  <2>3. ASSUME NEW u \in Tasks, ApproveBefore(u)
        PROVE  h \in threads \/ h.stage = "add"
    BY <2>3 DEF ApproveBefore, Starts
  <2>4. ASSUME NEW u \in Tasks, EditWorkingDir(u) \/ RejectBefore(u) \/ Requeue(u)
        PROVE  h \in threads
    BY <2>4 DEF EditWorkingDir, RejectBefore, Requeue
  <2> QED BY <1>3, <2>1, <2>2, <2>3, <2>4 DEF OutOfReach, UserStep
<1> QED BY <1>1, <1>2, <1>3 DEF OutOfReach, BaseOf

\* A handler's step: `add` fails at the branch, `merge` is about other tasks.
LEMMA HandlerOutOfReach ==
    ASSUME MergeInv, HandlerStep, NEW t \in Tasks, OutOfReach(t)
    PROVE  OutOfReach(t)' /\ BaseOf(t)' = BaseOf(t)
<1> USE DEF MergeInv, TypeInv, TypeOK, rowVars, repoVars, histVars
<1>1. PICK h \in threads :
         \/ AddWorktree(h) \/ RecordWorktree(h) \/ AutoCommit(h) \/ BeginMerge(h)
         \/ EndMerge(h) \/ RemoveWorktree(h) \/ ClearPath(h)
  BY DEF HandlerStep
<1>2. h \in Threads /\ h.task \in Tasks
  BY DEF Threads
<1>3. h.task = t => h.stage \in {"add", "remove", "clear"}
  BY DEF OutOfReach
<1>4. /\ branches \subseteq branches'
      /\ dir'[t] # "linked"
      /\ t \notin wtPath'
  BY <1>1, <1>2, <1>3
  DEF OutOfReach, AddWorktree, RecordWorktree, AutoCommit, BeginMerge, EndMerge,
      RemoveWorktree, ClearPath
<1>5. BaseOf(t)' = BaseOf(t)
  <2>1. CASE EndMerge(h)
    <3>1. h.task # t /\ base' \in {base, base \union commits[h.task]}
      BY <1>3, <2>1 DEF EndMerge
    <3>2. \A e \in commits[h.task] : e.task = h.task \/ e \in base
      BY <1>2 DEF MergingApproved
    <3> QED BY <3>1, <3>2 DEF BaseOf
  <2>2. CASE ~ EndMerge(h)
    <3>1. UNCHANGED base
      BY <1>1, <2>2 DEF AddWorktree, RecordWorktree, AutoCommit, BeginMerge,
                        RemoveWorktree, ClearPath
    <3> QED BY <3>1 DEF BaseOf
  <2> QED BY <2>1, <2>2
<1>6. h.task = t => Ends(h) \/ MovesTo(h, "clear")
  BY <1>1, <1>3 DEF OutOfReach, AddWorktree, RecordWorktree, AutoCommit, BeginMerge,
                    EndMerge, RemoveWorktree, ClearPath
<1>7. Ends(h) \/ \E stage \in Stages : MovesTo(h, stage)
  BY <1>1 DEF AddWorktree, RecordWorktree, AutoCommit, BeginMerge, EndMerge,
              RemoveWorktree, ClearPath, Stages
<1>8. ASSUME NEW g \in threads', g.task = t
      PROVE  g.stage \in {"add", "remove", "clear"}
  <2>1. CASE g \in threads
    BY <1>8, <2>1 DEF OutOfReach
  <2>2. CASE g \notin threads
    <3>1. h.task = t
      BY <1>7, <1>8, <2>2, ThreadMoves
    <3>2. MovesTo(h, "clear") /\ g.stage = "clear"
      BY <1>6, <2>2, <3>1, ThreadMoves
    <3> QED BY <3>2
  <2> QED BY <2>1, <2>2
<1> QED BY <1>4, <1>5, <1>8 DEF OutOfReach

\* Once a task is out of reach it stays so, and its share of the base branch is
\* final, for any number of gate commands at once, any pods and any faults.
THEOREM RetriesAreLost == Spec => OutOfReachForGood
<1>1. ASSUME MergeInv, [Next]_vars, NEW t \in Tasks, OutOfReach(t)
      PROVE  OutOfReach(t)' /\ BaseOf(t)' = BaseOf(t)
  <2>1. CASE Crash \/ UNCHANGED vars
    BY <1>1, <2>1 DEF Crash, vars, rowVars, repoVars, OutOfReach, BaseOf
  <2> QED
    BY <1>1, <2>1, OutsideOutOfReach, HandlerOutOfReach DEF Next, MergeInv
<1>2. MergeInv /\ [Next]_vars =>
        [\A t \in Tasks : OutOfReach(t) =>
            OutOfReach(t)' /\ BaseOf(t)' = BaseOf(t)]_vars
  BY <1>1
<1> QED BY <1>2, MergeInvariance, PTL DEF Spec, OutOfReachForGood

\* When a thread is about to clear the path, the worktree is gone: its branch
\* is there, so no other thread has made one in the meantime.
ClearedIsGone == \A h \in threads : h.stage = "clear" => dir[h.task] # "linked"

\* No step makes a worktree for a path that is about to be cleared.
LEMMA ClearedStep ==
    ASSUME MergeInv, PathInv, ClearedIsGone, [Next]_vars
    PROVE  ClearedIsGone'
<1> USE DEF MergeInv, TypeInv, TypeOK, rowVars, repoVars, histVars, ClearedIsGone
<1>1. \A h \in threads : h.stage = "clear" => h.task \in branches
  BY DEF PathInv, CleanupStages
<1>2. \A h \in threads : h.task \in Tasks
  BY DEF Threads
<1>3. CASE UserStep
  <2>1. UNCHANGED dir
    BY <1>3 DEF UserStep, EditWorkingDir, ApproveBefore, RejectBefore, ApproveAfter,
                RejectAfter, Requeue
  <2>2. \A h \in threads' : h \in threads \/ h.stage # "clear"
    BY <1>3 DEF UserStep, EditWorkingDir, ApproveBefore, RejectBefore, ApproveAfter,
                RejectAfter, Requeue, Cleanup, Starts
  <2> QED BY <2>1, <2>2
<1>4. CASE PodStep
  <2>1. \A t \in Tasks : dir'[t] = "linked" => dir[t] = "linked"
    BY <1>4 DEF PodStep, Claim, BuildTools, WriteFile, GitCommit, Delivers, PodDies
  <2>2. UNCHANGED threads
    BY <1>4 DEF PodStep, Claim, BuildTools, WriteFile, GitCommit, Delivers, PodDies
  <2> QED BY <1>2, <2>1, <2>2
<1>5. ASSUME NEW h \in threads,
             \/ RecordWorktree(h) \/ AutoCommit(h) \/ BeginMerge(h)
             \/ EndMerge(h) \/ ClearPath(h)
      PROVE  ClearedIsGone'
  <2>1. /\ UNCHANGED dir
        /\ \/ Ends(h)
           \/ \E stage \in {"merge", "merging", "remove"} : MovesTo(h, stage)
    BY <1>5 DEF RecordWorktree, AutoCommit, BeginMerge, EndMerge, ClearPath
  <2>2. \A g \in threads' : g \in threads \/ g.stage # "clear"
    BY <2>1, ThreadMoves
  <2> QED BY <2>1, <2>2
<1>6. ASSUME NEW h \in threads, AddWorktree(h) PROVE ClearedIsGone'
  <2>1. threads' \subseteq threads \/ MovesTo(h, "record")
    BY <1>6 DEF AddWorktree, Ends
  <2>2. \A g \in threads' : g \in threads \/ g.stage # "clear"
    <3>1. MovesTo(h, "record") =>
            \A g \in threads' : g \in threads \/ g.stage = "record"
      BY ThreadMoves
    <3> QED BY <2>1, <3>1
  <2>3. \A t \in branches : dir'[t] = dir[t]
    <3>1. \/ UNCHANGED dir
          \/ h.task \notin branches /\ dir' = [dir EXCEPT ![h.task] = "linked"]
      BY <1>6 DEF AddWorktree
    <3>2. ASSUME NEW t \in branches, t # h.task \/ UNCHANGED dir
          PROVE  dir'[t] = dir[t]
      BY <3>1, <3>2
    <3> QED BY <3>1, <3>2
  <2> QED BY <1>1, <2>2, <2>3
<1>7. ASSUME NEW h \in threads, RemoveWorktree(h) PROVE ClearedIsGone'
  <2>1. \A t \in Tasks : dir'[t] = dir[t] \/ dir'[t] = "none"
    BY <1>2, <1>7 DEF RemoveWorktree
  <2>2. \/ dir'[h.task] = "none" /\ MovesTo(h, "clear")
        \/ Ends(h)
    BY <1>2, <1>7 DEF RemoveWorktree
  <2>3. \/ threads' \subseteq threads
        \/ /\ dir'[h.task] = "none"
           /\ \A g \in threads' : g \in threads \/ g.task = h.task
    BY <2>2, ThreadMoves
  <2> QED BY <1>2, <2>1, <2>3
<1>8. CASE Crash \/ UNCHANGED vars
  BY <1>8 DEF Crash, vars
<1> QED BY <1>3, <1>4, <1>5, <1>6, <1>7, <1>8 DEF Next, HandlerStep
\* If the user waits for each command, no other thread is at work when a path is
\* cleared: from then on the task is out of reach, for good by RetriesAreLost.
THEOREM CleanupsAreFinal ==
    ASSUME MaxThreads = 1
    PROVE  Spec => CleanupIsFinal
<1> DEFINE Inv == ApprovedInv /\ ClearedIsGone
<1>1. Init => Inv
  BY InitTypes, InitMerging, InitKept
  DEF Init, ApprovedInv, MergeInv, PathInv, ClearedIsGone
<1>2. Inv /\ [Next]_vars => Inv'
  BY KeptStep, ClearedStep DEF ApprovedInv
<1>3. ASSUME Inv, NEW h \in threads, ClearPath(h) PROVE OutOfReach(h.task)'
  <2>1. /\ h.stage = "clear" /\ Ends(h)
        /\ UNCHANGED <<branches, dir>> /\ h.task \notin wtPath'
    BY <1>3 DEF ClearPath, repoVars
  <2>2. h.task \in branches /\ dir[h.task] # "linked"
    BY <1>3, <2>1 DEF ApprovedInv, PathInv, CleanupStages, ClearedIsGone
  <2>3. threads' = {}
    BY <1>3, <2>1 DEF ApprovedInv, KeptInv, OneThread, Ends
  <2> QED BY <2>1, <2>2, <2>3 DEF OutOfReach
<1>4. Inv => [\A h \in threads : ClearPath(h) => OutOfReach(h.task)']_vars
  BY <1>3
<1> HIDE DEF Inv
<1> QED BY <1>1, <1>2, <1>4, PTL DEF Spec, CleanupIsFinal

\* An attempt is given to one pod, and a pod that still works when its task is
\* back in the queue has an older one, for any number of threads.
THEOREM AttemptsAreGivenOnce == Spec => []AttemptsOnce
<1>1. Init => TypeInv /\ AttemptsOnce
  BY InitTypes, InitKept
<1>2. TypeInv /\ AttemptsOnce /\ [Next]_vars => (TypeInv /\ AttemptsOnce)'
  BY TypeStep, AttemptsStep
<1> QED BY <1>1, <1>2, PTL DEF Spec
=============================================================================
