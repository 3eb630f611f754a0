----------------------------- MODULE Candidates -----------------------------
(***************************************************************************)
(* A candidate set on a git target: create_candidate_set, the gates of its *)
(* children, promote_candidate and abandon_candidate_set of                *)
(* framework/services.py.                                                  *)
(*                                                                         *)
(* Promoting and abandoning read the children once and then work through   *)
(* them, with git commands in between, while pods and other commands go    *)
(* on.  The gate handlers are short and atomic here; module Worktrees      *)
(* takes the creation of a worktree apart.                                 *)
(*                                                                         *)
(* What one attempt writes in its worktree is one edit.  Left out: diffs,  *)
(* other tasks, edit_task, what pods without a worktree write in the       *)
(* user's checkout (module Worktrees has it), and session_reset, which may *)
(* archive the phantom parent before the set is resolved.                  *)
(*                                                                         *)
(* A definition marked "Mutant" is a plausible slip in the one that        *)
(* follows; no action uses it.                                             *)
(***************************************************************************)
EXTENDS Naturals, FiniteSets

CONSTANTS
    Children,    \* the development tasks of the set
    NoChild,
    MaxAttempt,  \* bound on retry_count
    MaxRuns,     \* bound on the pods at work
    MaxJobs,     \* promote and abandon commands in progress; 1: the user waits
    GitFails,    \* git commands may fail or time out
    Crashes      \* the backend may be killed

ASSUME ChildAssumption == NoChild \notin Children
ASSUME BoundAssumption == MaxAttempt \in Nat /\ MaxRuns \in Nat /\ MaxJobs \in Nat
ASSUME FaultAssumption == GitFails \in BOOLEAN /\ Crashes \in BOOLEAN

VARIABLES
    status,     \* tasks.status of the children (claimed is "running" too)
    attempt,    \* tasks.retry_count
    path,       \* children whose worktree_path is set
    delivered,  \* attempt of the artifact at the after gate
    archived,   \* archived_at of the phantom parent is set by a resolution
    base,       \* edits on the run's base branch
    branches,   \* children whose branch exists
    commits,    \* edits on that branch
    dir,        \* the worktree directory: absent, a linked worktree, only files
    dirt,       \* uncommitted edits in it
    runs,       \* executions of children by pods
    jobs,       \* promote and abandon commands in progress
    written,    \* every edit a pod ever wrote
    cut         \* a promote or abandon once ended before its end

rowVars  == <<status, attempt, path, delivered, archived>>
repoVars == <<base, branches, commits, dir, dirt>>
histVars == <<written, cut>>
vars     == <<rowVars, repoVars, runs, jobs, histVars>>

Statuses   == {"before_gate", "ready", "running", "after_gate", "done",
               "rejected", "abandoned"}
Unresolved == {"before_gate", "ready", "running"}
Attempts   == 0..MaxAttempt
Edits      == [task: Children, attempt: Attempts]
EditOf(r)  == [task |-> r.task, attempt |-> r.attempt]

\* A pod with tools works in the child's worktree directory.
Runs == [task: Children, attempt: Attempts, tools: BOOLEAN]

\* The rows a command read, as far as it uses them: the children it will
\* abandon, and those with a worktree_path.  Abandoning has no winner.
Jobs == [winner: Children \union {NoChild}, todo: SUBSET Children,
         paths: SUBSET Children,
         stage: {"commit", "merge", "drop", "approve", "losers"}]

Init ==
    /\ status = [c \in Children |-> "before_gate"]
    /\ attempt = [c \in Children |-> 0]
    /\ path = {}
    /\ delivered = [c \in Children |-> 0]
    /\ archived = FALSE
    /\ base = {}
    /\ branches = {}
    /\ commits = [c \in Children |-> {}]
    /\ dir = [c \in Children |-> "none"]
    /\ dirt = [c \in Children |-> {}]
    /\ runs = {}
    /\ jobs = {}
    /\ written = {}
    /\ cut = FALSE

-----------------------------------------------------------------------------
(* Gates of the children. *)

\* With a worktree, or its branch, left from an earlier attempt, git refuses to
\* make another one; the row then keeps what it had.
ApproveBefore(c) ==
    /\ status[c] = "before_gate"
    /\ status' = [status EXCEPT ![c] = "ready"]
    /\ \/ /\ dir[c] = "none" /\ c \notin branches
          /\ dir' = [dir EXCEPT ![c] = "linked"]
          /\ branches' = branches \union {c}
          /\ commits' = [commits EXCEPT ![c] = base]
          /\ path' = path \union {c}
       \/ /\ GitFails \/ dir[c] # "none" \/ c \in branches
          /\ UNCHANGED <<dir, branches, commits, path>>
    /\ UNCHANGED <<attempt, delivered, archived, base, dirt, runs, jobs,
                   histVars>>

RejectBefore(c) ==
    /\ status[c] = "before_gate"
    /\ status' = [status EXCEPT ![c] = "rejected"]
    /\ UNCHANGED <<attempt, path, delivered, archived, repoVars, runs, jobs, histVars>>

\* The worktree of a candidate stays, edits and all.
RejectAfter(c) ==
    /\ status[c] = "after_gate" /\ attempt[c] < MaxAttempt
    /\ status' = [status EXCEPT ![c] = "before_gate"]
    /\ attempt' = [attempt EXCEPT ![c] = @ + 1]
    /\ UNCHANGED <<path, delivered, archived, repoVars, runs, jobs, histVars>>

\* Mutant: the retry starts from a clean directory.
RequeueFresh(c) ==
    /\ status[c] = "running" /\ attempt[c] < MaxAttempt
    /\ status' = [status EXCEPT ![c] = "ready"]
    /\ attempt' = [attempt EXCEPT ![c] = @ + 1]
    /\ dir' = [dir EXCEPT ![c] = "none"]
    /\ dirt' = [dirt EXCEPT ![c] = {}]
    /\ UNCHANGED <<path, delivered, archived, base, branches, commits, runs, jobs,
                   histVars>>

Requeue(c) ==
    /\ status[c] = "running" /\ attempt[c] < MaxAttempt
    /\ status' = [status EXCEPT ![c] = "ready"]
    /\ attempt' = [attempt EXCEPT ![c] = @ + 1]
    /\ UNCHANGED <<path, delivered, archived, repoVars, runs, jobs, histVars>>

-----------------------------------------------------------------------------
(* promote_candidate and abandon_candidate_set. *)

Idle == Cardinality(jobs) < MaxJobs

Becomes(j, k) == jobs' = (jobs \ {j}) \union {k}
Ends(j)       == jobs' = jobs \ {j}

\* Mutant: the siblings may still be at work, as in a set where one is enough.
PromoteEarly(w) ==
    /\ Idle
    /\ status[w] \in {"after_gate", "done"}
    /\ jobs' = jobs \union
         {[winner |-> w, paths |-> path,
           todo |-> {c \in Children \ {w} : status[c] = "after_gate"},
           stage |-> IF w \in path THEN "commit" ELSE "approve"]}
    /\ UNCHANGED <<rowVars, repoVars, runs, histVars>>

Promote(w) ==
    /\ Idle
    /\ status[w] \in {"after_gate", "done"}
    /\ \A c \in Children \ {w} : status[c] \notin Unresolved
    /\ jobs' = jobs \union
         {[winner |-> w, paths |-> path,
           todo |-> {c \in Children \ {w} : status[c] # "rejected"},
           stage |-> IF w \in path THEN "commit" ELSE "approve"]}
    /\ UNCHANGED <<rowVars, repoVars, runs, histVars>>

Abandon ==
    /\ Idle
    /\ jobs' = jobs \union
         {[winner |-> NoChild, paths |-> path,
           todo |-> {c \in Children : status[c] \notin {"done", "rejected"}},
           stage |-> "losers"]}
    /\ UNCHANGED <<rowVars, repoVars, runs, histVars>>

Commit(c) ==
    /\ commits' = [commits EXCEPT ![c] = @ \union dirt[c]]
    /\ dirt' = [dirt EXCEPT ![c] = {}]

CommitWinner(j) ==
    /\ j.stage = "commit"
    /\ \/ dir[j.winner] = "linked" /\ Commit(j.winner)
       \/ dir[j.winner] # "linked" /\ UNCHANGED <<commits, dirt>>
    /\ Becomes(j, [j EXCEPT !.stage = "merge"])
    /\ UNCHANGED <<rowVars, base, branches, dir, runs, histVars>>

\* A conflict or a failing merge is only logged.
MergeWinner(j) ==
    /\ j.stage = "merge"
    /\ base' \in {base, base \union commits[j.winner]}
    /\ Becomes(j, [j EXCEPT !.stage = "drop"])
    /\ UNCHANGED <<rowVars, branches, commits, dir, dirt, runs, histVars>>

\* remove_worktree and delete_branch; git may refuse to delete the branch.
Drop(c) ==
    /\ dir' = [dir EXCEPT ![c] = "none"]
    /\ dirt' = [dirt EXCEPT ![c] = {}]
    /\ \/ branches' = branches \ {c} /\ commits' = [commits EXCEPT ![c] = {}]
       \/ GitFails /\ UNCHANGED <<branches, commits>>

DropWinner(j) ==
    /\ j.stage = "drop"
    /\ Drop(j.winner)
    /\ Becomes(j, [j EXCEPT !.stage = "approve"])
    /\ UNCHANGED <<rowVars, base, runs, histVars>>

ApproveWinner(j) ==
    /\ j.stage = "approve"
    /\ status' = [status EXCEPT ![j.winner] = "done"]
    /\ path' = path \ {j.winner}
    /\ Becomes(j, [j EXCEPT !.stage = "losers"])
    /\ UNCHANGED <<attempt, delivered, archived, repoVars, runs, histVars>>

\* Mutant: a child that is still at the gate keeps its status.
DropLoserOnly(j) ==
    /\ j.stage = "losers"
    /\ \E c \in j.todo :
          /\ IF c \in j.paths THEN Drop(c)
                              ELSE UNCHANGED <<branches, commits, dir, dirt>>
          /\ path' = path \ {c}
          /\ Becomes(j, [j EXCEPT !.todo = @ \ {c}])
    /\ UNCHANGED <<status, attempt, delivered, archived, base, runs, histVars>>

\* Git works from the row that was read, the UPDATE asks for nothing.
DropLoser(j) ==
    /\ j.stage = "losers"
    /\ \E c \in j.todo :
          /\ IF c \in j.paths THEN Drop(c)
                              ELSE UNCHANGED <<branches, commits, dir, dirt>>
          /\ status' = [status EXCEPT ![c] = "abandoned"]
          /\ path' = path \ {c}
          /\ Becomes(j, [j EXCEPT !.todo = @ \ {c}])
    /\ UNCHANGED <<attempt, delivered, archived, base, runs, histVars>>

ArchivePhantom(j) ==
    /\ j.stage = "losers" /\ j.todo = {}
    /\ archived' = TRUE
    /\ Ends(j)
    /\ UNCHANGED <<status, attempt, path, delivered, repoVars, runs, histVars>>

\* The backend is killed, git refuses a commit, or a git command times out: the
\* command ends with what it has done so far.
CutShort(j) ==
    /\ \/ Crashes
       \/ /\ GitFails
          /\ j.stage \in {"commit", "merge", "drop"} \/ j.todo \intersect j.paths # {}
    /\ Ends(j)
    /\ cut' = TRUE
    /\ UNCHANGED <<rowVars, repoVars, runs, written>>

-----------------------------------------------------------------------------
(* The pods. *)

\* claim, and the build_tools of process_one_task.
Claim(c) ==
    /\ status[c] = "ready"
    /\ Cardinality(runs) < MaxRuns
    /\ status' = [status EXCEPT ![c] = "running"]
    /\ runs' = runs \union
         {[task |-> c, attempt |-> attempt[c],
           tools |-> c \in path /\ dir[c] # "none"]}
    /\ UNCHANGED <<attempt, path, delivered, archived, repoVars, jobs, histVars>>

\* Mutant: the edit is reported although the directory is gone.
WriteNowhere(r) ==
    /\ r.tools
    /\ dirt' = [dirt EXCEPT ![r.task] = @ \union {EditOf(r)}]
    /\ written' = written \union {EditOf(r)}
    /\ UNCHANGED <<rowVars, base, branches, commits, dir, runs, jobs, cut>>

\* write_file makes the directories it needs.
WriteFile(r) ==
    /\ r.tools
    /\ dir' = [dir EXCEPT ![r.task] = IF @ = "none" THEN "files" ELSE @]
    /\ dirt' = [dirt EXCEPT ![r.task] = @ \union {EditOf(r)}]
    /\ written' = written \union {EditOf(r)}
    /\ UNCHANGED <<rowVars, base, branches, commits, runs, jobs, cut>>

\* Mutant: the branch is merged at the after gate, as for other tasks.
SubmitMerging(r) ==
    /\ runs' = runs \ {r}
    /\ status[r.task] = "running"
    /\ status' = [status EXCEPT ![r.task] = "after_gate"]
    /\ delivered' = [delivered EXCEPT ![r.task] = r.attempt]
    /\ Commit(r.task)
    /\ base' = base \union commits'[r.task]
    /\ UNCHANGED <<attempt, path, archived, branches, dir, jobs, histVars>>

\* submit_result of a candidate commits its worktree, unless git fails.
SubmitResult(r) ==
    /\ runs' = runs \ {r}
    /\ IF status[r.task] = "running"
       THEN /\ status' = [status EXCEPT ![r.task] = "after_gate"]
            /\ delivered' = [delivered EXCEPT ![r.task] = r.attempt]
            /\ LET commitable == r.task \in path /\ dir[r.task] = "linked"
               IN  \/ commitable /\ Commit(r.task)
                   \/ (GitFails \/ ~ commitable) /\ UNCHANGED <<commits, dirt>>
       ELSE UNCHANGED <<status, delivered, commits, dirt>>
    /\ UNCHANGED <<attempt, path, archived, base, branches, dir, jobs,
                   histVars>>

ReportFailure(r) ==
    /\ runs' = runs \ {r}
    /\ status[r.task] = "running"
    /\ status' = [status EXCEPT ![r.task] = "after_gate"]
    /\ delivered' = [delivered EXCEPT ![r.task] = r.attempt]
    /\ UNCHANGED <<attempt, path, archived, repoVars, jobs, histVars>>

PodDies(r) ==
    /\ runs' = runs \ {r}
    /\ UNCHANGED <<rowVars, repoVars, jobs, histVars>>

-----------------------------------------------------------------------------
GateStep ==
    \E c \in Children :
       \/ ApproveBefore(c)
       \/ RejectBefore(c)
       \/ RejectAfter(c)
       \/ Requeue(c)

SetStep ==
    \/ \E w \in Children : Promote(w)
    \/ Abandon
    \/ \E j \in jobs :
          \/ CommitWinner(j)
          \/ MergeWinner(j)
          \/ DropWinner(j)
          \/ ApproveWinner(j)
          \/ DropLoser(j)
          \/ ArchivePhantom(j)
          \/ CutShort(j)

PodStep ==
    \/ \E c \in Children : Claim(c)
    \/ \E r \in runs :
          \/ WriteFile(r)
          \/ SubmitResult(r)
          \/ ReportFailure(r)
          \/ PodDies(r)

Next == GateStep \/ SetStep \/ PodStep

Spec == Init /\ [][Next]_vars

-----------------------------------------------------------------------------
(* Properties. *)

\* Every variable has its type; what is not there is empty.
TypeOK ==
    /\ status \in [Children -> Statuses]
    /\ attempt \in [Children -> Attempts]
    /\ path \subseteq Children
    /\ delivered \in [Children -> Attempts]
    /\ archived \in BOOLEAN
    /\ base \subseteq Edits
    /\ branches \subseteq Children
    /\ commits \in [Children -> SUBSET Edits]
    /\ dir \in [Children -> {"none", "linked", "files"}]
    /\ dirt \in [Children -> SUBSET Edits]
    /\ runs \subseteq Runs
    /\ jobs \subseteq Jobs
    /\ written \subseteq Edits
    /\ cut \in BOOLEAN
    /\ \A c \in Children : /\ dir[c] = "none" => dirt[c] = {}
                           /\ c \notin branches => commits[c] = {}

\* Only the winner is merged: the base branch never holds work of two children.
\* (A promotion cut short after its merge can be followed by another one.)
OneWinner == cut \/ \A d, e \in base : d.task = e.task

\* Work reaches the base branch only through a promotion, of that child, which
\* the row then shows.
OnlyPromotedIsMerged ==
    \A e \in base : cut \/ status[e.task] = "done"
                        \/ \E j \in jobs : j.winner = e.task

\* When a set is resolved, no child of it is waiting, at work or selectable any
\* more, whatever pods and gate commands did while it was being resolved.
ResolvedIsOver ==
    archived =>
        \A c \in Children : status[c] \in {"done", "rejected", "abandoned"}

\* What the user may still choose is there: as long as a child can be promoted
\* the edits of its delivered attempt are on its branch or in its worktree.
ChoosableIsKept ==
    \A c \in Children :
        LET e == [task |-> c, attempt |-> delivered[c]]
        IN  status[c] = "after_gate" /\ e \in written /\ ~ cut
            /\ ~ (\E j \in jobs : j.winner = c)
            => e \in base \union commits[c] \union dirt[c]

\* "merge of winner failed - branch left dangling": the work of a promoted child
\* is in the base branch, or at least still on its branch.
PromotedIsKept ==
    \A c \in Children :
        LET e == [task |-> c, attempt |-> delivered[c]]
        IN  status[c] = "done" /\ e \in written
            => e \in base \union commits[c] \union dirt[c]
=============================================================================
