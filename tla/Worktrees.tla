----------------------------- MODULE Worktrees -----------------------------
(***************************************************************************)
(* Git worktrees of development and testing tasks on a git target: the     *)
(* part of the gate handlers of framework/services.py that follows the     *)
(* status change, framework/worktree.py, and the pods that edit files in   *)
(* the working_dir they read when they claimed the task.                   *)
(*                                                                         *)
(* A handler changes the status first and calls git afterwards, so claims, *)
(* deliveries and, if the user does not wait for the reply, other gate     *)
(* commands fall between the steps of its thread.  The CLI waits 30 s, a   *)
(* git command may take 60 s.                                              *)
(*                                                                         *)
(* What one attempt writes is one edit.  Left out: the files and their     *)
(* diffs (a merge conflict is a free choice), and candidate sets.          *)
(*                                                                         *)
(* A definition marked "Mutant" is a plausible slip in the one that        *)
(* follows; no action uses it.                                             *)
(***************************************************************************)
EXTENDS Naturals, FiniteSets

CONSTANTS
    Tasks,       \* development and testing tasks
    Testing,     \* the testing tasks among them
    NoTask,
    MaxAttempt,  \* bound on retry_count
    MaxRuns,     \* bound on the pods at work
    MaxThreads,  \* gate commands in progress at once; 1: the user waits
    GitFails,    \* git commands may fail for reasons of their own
    Crashes      \* the backend may be killed

ASSUME TaskAssumption == Testing \subseteq Tasks /\ NoTask \notin Tasks
ASSUME BoundAssumption == MaxAttempt \in Nat /\ MaxRuns \in Nat /\ MaxThreads \in Nat
ASSUME FaultAssumption == GitFails \in BOOLEAN /\ Crashes \in BOOLEAN

VARIABLES
    status,     \* tasks.status (claimed and running are both "running")
    attempt,    \* tasks.retry_count
    workDir,    \* tasks.working_dir: the target repo, or the task's worktree
    wtPath,     \* tasks whose worktree_path is set
    delivered,  \* attempt that produced the artifact at the after gate
    rejected,   \* attempts below this one were rejected at the after gate
    base,       \* edits on the run's base branch
    target,     \* edits in the user's own checkout of the target repo
    branches,   \* tasks whose branch <base>-<task_id> exists
    commits,    \* edits on that branch
    dir,        \* <worktrees>/<task_id>: absent, a linked worktree, or only files
    dirt,       \* uncommitted edits in it
    merging,    \* task whose merge has the base branch checked out
    runs,       \* executions of tasks by pods
    threads,    \* what is left to do of the gate handlers
    written,    \* every edit a pod ever wrote
    cut         \* a handler once ended early: killed, or its git timed out

rowVars  == <<status, attempt, workDir, wtPath, delivered, rejected>>
repoVars == <<base, target, branches, commits, dir, dirt, merging>>
histVars == <<written, cut>>
vars     == <<rowVars, repoVars, runs, threads, histVars>>

Attempts == 0..MaxAttempt
Edits    == [task: Tasks, attempt: Attempts]
EditOf(r) == [task |-> r.task, attempt |-> r.attempt]

\* A pod has its task; build_tools then gives it tools if the directory exists.
Runs    == [task: Tasks, attempt: Attempts, dir: {"target", "worktree"},
            at: {"claimed", "tools", "plain"}]
Stages  == {"add", "record", "commit", "merge", "merging", "remove", "clear"}
Threads == [task: Tasks, stage: Stages]

Init ==
    /\ status = [t \in Tasks |-> "before_gate"]
    /\ attempt = [t \in Tasks |-> 0]
    /\ workDir = [t \in Tasks |-> "target"]
    /\ wtPath = {}
    /\ delivered = [t \in Tasks |-> 0]
    /\ rejected = [t \in Tasks |-> 0]
    /\ base = {}
    /\ target = {}
    /\ branches = {}
    /\ commits = [t \in Tasks |-> {}]
    /\ dir = [t \in Tasks |-> "none"]
    /\ dirt = [t \in Tasks |-> {}]
    /\ merging = NoTask
    /\ runs = {}
    /\ threads = {}
    /\ written = {}
    /\ cut = FALSE

-----------------------------------------------------------------------------
(* The user's gate commands: the status change, and a thread for the rest. *)

Idle == Cardinality(threads) < MaxThreads

Starts(t, stage) == threads' = threads \union {[task |-> t, stage |-> stage]}

EditWorkingDir(t) ==
    /\ Idle /\ status[t] = "before_gate"
    /\ workDir' = [workDir EXCEPT ![t] = "target"]
    /\ UNCHANGED <<status, attempt, wtPath, delivered, rejected, repoVars, runs,
                   threads, histVars>>

ApproveBefore(t) ==
    /\ Idle /\ status[t] = "before_gate"
    /\ status' = [status EXCEPT ![t] = "ready"]
    /\ Starts(t, "add")
    /\ UNCHANGED <<attempt, workDir, wtPath, delivered, rejected, repoVars, runs,
                   histVars>>

RejectBefore(t) ==
    /\ Idle /\ status[t] = "before_gate"
    /\ status' = [status EXCEPT ![t] = "rejected"]
    /\ UNCHANGED <<attempt, workDir, wtPath, delivered, rejected, repoVars, runs,
                   threads, histVars>>

\* _maybe_cleanup_worktree works on the row as it was before the status change
\* and has nothing to do without a worktree_path.
Cleanup(t, stage) == IF t \in wtPath THEN Starts(t, stage) ELSE UNCHANGED threads

ApproveAfter(t) ==
    /\ Idle /\ status[t] = "after_gate"
    /\ status' = [status EXCEPT ![t] = "done"]
    /\ Cleanup(t, IF t \in Testing THEN "remove" ELSE "commit")
    /\ UNCHANGED <<attempt, workDir, wtPath, delivered, rejected, repoVars, runs,
                   histVars>>

\* Mutant: the cleanup captures the diff, and merges, as after an approval.
RejectAfterMerging(t) ==
    /\ Idle /\ status[t] = "after_gate" /\ attempt[t] < MaxAttempt
    /\ status' = [status EXCEPT ![t] = "before_gate"]
    /\ attempt' = [attempt EXCEPT ![t] = @ + 1]
    /\ rejected' = [rejected EXCEPT ![t] = attempt[t] + 1]
    /\ Cleanup(t, "commit")
    /\ UNCHANGED <<workDir, wtPath, delivered, repoVars, runs, histVars>>

RejectAfter(t) ==
    /\ Idle /\ status[t] = "after_gate" /\ attempt[t] < MaxAttempt
    /\ status' = [status EXCEPT ![t] = "before_gate"]
    /\ attempt' = [attempt EXCEPT ![t] = @ + 1]
    /\ rejected' = [rejected EXCEPT ![t] = attempt[t] + 1]
    /\ Cleanup(t, "remove")
    /\ UNCHANGED <<workDir, wtPath, delivered, repoVars, runs, histVars>>

\* The worktree stays as the previous attempt left it.
Requeue(t) ==
    /\ Idle /\ status[t] = "running" /\ attempt[t] < MaxAttempt
    /\ status' = [status EXCEPT ![t] = "ready"]
    /\ attempt' = [attempt EXCEPT ![t] = @ + 1]
    /\ UNCHANGED <<workDir, wtPath, delivered, rejected, repoVars, runs, threads,
                   histVars>>

UserStep ==
    \E t \in Tasks :
       \/ EditWorkingDir(t)
       \/ ApproveBefore(t)
       \/ RejectBefore(t)
       \/ ApproveAfter(t)
       \/ RejectAfter(t)
       \/ Requeue(t)

-----------------------------------------------------------------------------
(* What a handler thread h has left to do. *)

MovesTo(h, stage) == threads' = (threads \ {h}) \union {[h EXCEPT !.stage = stage]}
Ends(h)           == threads' = threads \ {h}

\* Mutant: a branch that exists is checked out again.
AddWorktreeOnBranch(h) ==
    /\ h.stage = "add"
    /\ dir[h.task] = "none"
    /\ dir' = [dir EXCEPT ![h.task] = "linked"]
    /\ branches' = branches \union {h.task}
    /\ MovesTo(h, "record")
    /\ UNCHANGED <<rowVars, base, target, commits, dirt, merging, runs, histVars>>

\* `git worktree add -b` makes the branch, so it refuses one that exists, and
\* create_worktree refuses a path that exists.  A failure is only logged.
AddWorktree(h) ==
    /\ h.stage = "add"
    /\ \/ /\ dir[h.task] = "none" /\ h.task \notin branches
          /\ dir' = [dir EXCEPT ![h.task] = "linked"]
          /\ branches' = branches \union {h.task}
          /\ commits' = [commits EXCEPT ![h.task] = base]
          /\ MovesTo(h, "record")
       \/ /\ GitFails \/ dir[h.task] # "none" \/ h.task \in branches
          /\ Ends(h)
          /\ UNCHANGED <<dir, branches, commits>>
    /\ UNCHANGED <<rowVars, base, target, dirt, merging, runs, histVars>>

RecordWorktree(h) ==
    /\ h.stage = "record"
    /\ workDir' = [workDir EXCEPT ![h.task] = "worktree"]
    /\ wtPath' = wtPath \union {h.task}
    /\ Ends(h)
    /\ UNCHANGED <<status, attempt, delivered, rejected, repoVars, runs, histVars>>

Commit(t) ==
    /\ commits' = [commits EXCEPT ![t] = @ \union dirt[t]]
    /\ dirt' = [dirt EXCEPT ![t] = {}]

\* Mutant: the merge relies on the pod to have committed its edits.
AutoCommitNothing(h) ==
    /\ h.stage = "commit"
    /\ MovesTo(h, "merge")
    /\ UNCHANGED <<rowVars, repoVars, runs, histVars>>

\* auto_commit_all has nothing to do outside a worktree.  If the commit or the
\* diff after it fails the cleanup is given up: worktree and worktree_path stay.
AutoCommit(h) ==
    /\ h.stage = "commit"
    /\ \/ dir[h.task] = "linked" /\ Commit(h.task) /\ MovesTo(h, "merge")
       \/ dir[h.task] # "linked" /\ MovesTo(h, "merge") /\ UNCHANGED <<commits, dirt>>
       \/ GitFails /\ Ends(h) /\ UNCHANGED <<commits, dirt>>
       \/ GitFails /\ Ends(h) /\ dir[h.task] = "linked" /\ Commit(h.task)
    /\ UNCHANGED <<rowVars, base, target, branches, dir, merging, runs, histVars>>

\* merge_into_base checks the base branch out in a temporary worktree, which
\* git refuses while it is checked out elsewhere; a failure is only logged.
BeginMerge(h) ==
    /\ h.stage = "merge"
    /\ \/ /\ merging = NoTask
          /\ merging' = h.task
          /\ MovesTo(h, "merging")
       \/ /\ GitFails \/ merging # NoTask
          /\ MovesTo(h, "remove")
          /\ UNCHANGED merging
    /\ UNCHANGED <<rowVars, base, target, branches, commits, dir, dirt, runs, histVars>>

\* The merge succeeds, or conflicts and is aborted.  If the temporary worktree
\* cannot be removed, the base branch stays checked out there.
EndMerge(h) ==
    /\ h.stage = "merging"
    /\ base' \in {base, base \union commits[h.task]}
    /\ merging' \in {NoTask} \union IF GitFails THEN {merging} ELSE {}
    /\ MovesTo(h, "remove")
    /\ UNCHANGED <<rowVars, target, branches, commits, dir, dirt, runs, histVars>>

\* Mutant: worktree_path is not cleared afterwards.
RemoveWorktreeOnly(h) ==
    /\ h.stage = "remove"
    /\ dir' = [dir EXCEPT ![h.task] = "none"]
    /\ dirt' = [dirt EXCEPT ![h.task] = {}]
    /\ Ends(h)
    /\ UNCHANGED <<rowVars, base, target, branches, commits, merging, runs, histVars>>

\* The branch is left in place.  Only git's timeout stops the removal: worktree
\* and worktree_path then stay.
RemoveWorktree(h) ==
    /\ h.stage = "remove"
    /\ \/ /\ dir' = [dir EXCEPT ![h.task] = "none"]
          /\ dirt' = [dirt EXCEPT ![h.task] = {}]
          /\ MovesTo(h, "clear")
          /\ UNCHANGED cut
       \/ /\ GitFails
          /\ Ends(h)
          /\ cut' = TRUE
          /\ UNCHANGED <<dir, dirt>>
    /\ UNCHANGED <<rowVars, base, target, branches, commits, merging, runs, written>>

\* worktree_path is cleared, working_dir is not.
ClearPath(h) ==
    /\ h.stage = "clear"
    /\ wtPath' = wtPath \ {h.task}
    /\ Ends(h)
    /\ UNCHANGED <<status, attempt, workDir, delivered, rejected, repoVars, runs,
                   histVars>>

HandlerStep ==
    \E h \in threads :
       \/ AddWorktree(h)
       \/ RecordWorktree(h)
       \/ AutoCommit(h)
       \/ BeginMerge(h)
       \/ EndMerge(h)
       \/ RemoveWorktree(h)
       \/ ClearPath(h)

\* The backend is killed and restarted.  An interrupted merge leaves the base
\* branch checked out in its temporary worktree.
Crash ==
    /\ Crashes
    /\ threads # {}
    /\ threads' = {}
    /\ cut' = TRUE
    /\ UNCHANGED <<rowVars, repoVars, runs, written>>

-----------------------------------------------------------------------------
(* The pods. *)

\* The pod keeps the row it was given, with the working_dir of that moment.
Claim(t) ==
    /\ status[t] = "ready"
    /\ Cardinality(runs) < MaxRuns
    /\ status' = [status EXCEPT ![t] = "running"]
    /\ runs' = runs \union {[task |-> t, attempt |-> attempt[t],
                             dir |-> workDir[t], at |-> "claimed"]}
    /\ UNCHANGED <<attempt, workDir, wtPath, delivered, rejected, repoVars, threads,
                   histVars>>

\* Without a directory the model is called without tools, and edits nothing.
BuildTools(r) ==
    /\ r.at = "claimed"
    /\ LET exists == r.dir = "target" \/ dir[r.task] # "none"
       IN  runs' = (runs \ {r}) \union
                     {[r EXCEPT !.at = IF exists THEN "tools" ELSE "plain"]}
    /\ UNCHANGED <<rowVars, repoVars, threads, histVars>>

\* Mutant: the edit is reported although the directory is gone.
WriteNowhere(r) ==
    /\ r.at = "tools" /\ r.dir = "worktree"
    /\ dirt' = [dirt EXCEPT ![r.task] = @ \union {EditOf(r)}]
    /\ written' = written \union {EditOf(r)}
    /\ UNCHANGED <<rowVars, base, target, branches, commits, dir, merging, runs,
                   threads, cut>>

\* write_file makes the directories it needs.
WriteFile(r) ==
    /\ r.at = "tools"
    /\ IF r.dir = "target"
       THEN target' = target \union {EditOf(r)} /\ UNCHANGED <<dir, dirt>>
       ELSE /\ dir' = [dir EXCEPT ![r.task] = IF @ = "none" THEN "files" ELSE @]
            /\ dirt' = [dirt EXCEPT ![r.task] = @ \union {EditOf(r)}]
            /\ UNCHANGED target
    /\ written' = written \union {EditOf(r)}
    /\ UNCHANGED <<rowVars, base, branches, commits, merging, runs, threads, cut>>

\* The bash tool lets the model commit its work.
GitCommit(r) ==
    /\ r.at = "tools" /\ r.dir = "worktree" /\ dir[r.task] = "linked"
    /\ Commit(r.task)
    /\ UNCHANGED <<rowVars, base, target, branches, dir, merging, runs, threads,
                   histVars>>

\* A result or a failure report; it is refused if the task is not in flight.
Delivers(r) ==
    /\ r.at # "claimed"
    /\ runs' = runs \ {r}
    /\ IF status[r.task] = "running"
       THEN /\ status' = [status EXCEPT ![r.task] = "after_gate"]
            /\ delivered' = [delivered EXCEPT ![r.task] = r.attempt]
       ELSE UNCHANGED <<status, delivered>>
    /\ UNCHANGED <<attempt, workDir, wtPath, rejected, repoVars, threads, histVars>>

PodDies(r) ==
    /\ runs' = runs \ {r}
    /\ UNCHANGED <<rowVars, repoVars, threads, histVars>>

PodStep ==
    \/ \E t \in Tasks : Claim(t)
    \/ \E r \in runs :
          \/ BuildTools(r)
          \/ WriteFile(r)
          \/ GitCommit(r)
          \/ Delivers(r)
          \/ PodDies(r)

Next == UserStep \/ HandlerStep \/ Crash \/ PodStep

Spec == Init /\ [][Next]_vars

-----------------------------------------------------------------------------
(* Properties. *)

\* Every variable has its type; a directory that is not there holds no edits,
\* and a branch that was never made holds no commits.
TypeOK ==
    /\ status \in [Tasks -> {"before_gate", "ready", "running", "after_gate",
                             "done", "rejected"}]
    /\ attempt \in [Tasks -> Attempts]
    /\ workDir \in [Tasks -> {"target", "worktree"}]
    /\ wtPath \subseteq Tasks
    /\ delivered \in [Tasks -> Attempts]
    /\ rejected \in [Tasks -> Attempts]
    /\ base \subseteq Edits
    /\ target \subseteq Edits
    /\ branches \subseteq Tasks
    /\ commits \in [Tasks -> SUBSET Edits]
    /\ dir \in [Tasks -> {"none", "linked", "files"}]
    /\ dirt \in [Tasks -> SUBSET Edits]
    /\ merging \in Tasks \union {NoTask}
    /\ runs \subseteq Runs
    /\ threads \subseteq Threads
    /\ written \subseteq Edits
    /\ cut \in BOOLEAN
    /\ \A t \in Tasks : /\ dir[t] = "none" => dirt[t] = {}
                        /\ t \notin branches => commits[t] = {}

Settled(t) == ~ \E h \in threads : h.task = t

\* Nothing reaches the base branch before the user approved it at the after
\* gate, and no edit of a testing task ever does.
OnlyApprovedIsMerged ==
    \A e \in base : status[e.task] = "done" /\ e.task \notin Testing

\* What was rejected stays out: no edit of a rejected attempt is ever merged,
\* although its branch survives and stale pods may go on writing.  (A backend
\* killed, or git timing out, before the rejected worktree is removed
\* leaves it to the next merge.)
RejectedStaysOut == cut \/ \A e \in base : e.attempt >= rejected[e.task]

\* What the user approved is not lost: if the approved attempt edited anything,
\* its edits are in the base branch or still somewhere the user can find them,
\* however the commit or the merge failed, and even if a handler was cut short.
\* (Two exceptions.  A result that a stale pod delivers for an attempt rejected
\* before may be about edits that are gone.  And if the handler of a rejection
\* was cut short after the removal, worktree_path is still set: what pods write
\* there then are plain files, which the next approval drops uncommitted.)
ApprovedWorkIsKept ==
    \A t \in Tasks \ Testing :
        LET e == [task |-> t, attempt |-> delivered[t]]
        IN  /\ status[t] = "done" /\ Settled(t)
            /\ e \in written /\ delivered[t] >= rejected[t]
            /\ cut => rejected[t] = 0
            => e \in base \union target \union commits[t] \union dirt[t]

\* A worktree_path in the table is a linked worktree on the task's branch,
\* unless a handler was cut short between removing it and clearing the path.
PathIsWorktree ==
    cut \/ \A t \in wtPath : Settled(t) => dir[t] = "linked" /\ t \in branches

\* "The worktree is torn down - the next approve gets a fresh one": after a
\* rejection, an approval that has run to its end leaves the task with one.
RetryGetsWorktree ==
    \A t \in Tasks :
        status[t] = "ready" /\ rejected[t] > 0 /\ Settled(t) => t \in wtPath

\* "The pod's tools are sandboxed to that worktree": no pod edits the user's
\* own checkout.
PodsStayInWorktree == \A r \in runs : r.at = "tools" => r.dir = "worktree"
=============================================================================
