-------------------------- MODULE CandidatesProofs --------------------------
(***************************************************************************)
(* Proofs about Candidates for any children, attempts, pods and faults:    *)
(* types; that a resolved set is over and a child that may still be chosen *)
(* has its work, for any number of promotions and abandonments in progress *)
(* at once; and, if the user waits for each command, that one child at     *)
(* most is merged and that it was promoted.                                *)
(***************************************************************************)
EXTENDS Candidates, FiniteSetTheorems, TLAPS

-----------------------------------------------------------------------------
(* The inductive invariants. *)

Final  == {"done", "rejected", "abandoned"}
Losers == {"rejected", "abandoned"}

\* A linked worktree has a branch, and only a promotion works on a winner.
LinkedHasBranch  == \A c \in Children : dir[c] = "linked" => c \in branches
WinnerFirst      == \A j \in jobs : j.stage # "losers" => j.winner \in Children

TypeInv == TypeOK /\ LinkedHasBranch /\ WinnerFirst

\* Whoever resolves the set still has to end every child that is not final: a
\* final child never comes back, so what was read once is enough.
JobsEndTheRest ==
    \A j \in jobs : \A c \in Children :
        \/ status[c] \in Final
        \/ c \in j.todo
        \/ c = j.winner /\ j.stage # "losers"

OverInv == TypeInv /\ JobsEndTheRest /\ ResolvedIsOver

\* One command at a time, until one is cut short: a promotion leaves its winner
\* the only child that is done, and ends the others; a child it is going to end
\* was never done.
OneJob == IsFiniteSet(jobs) /\ \A i, j \in jobs : i = j

OthersLose(w) ==
    \A c \in Children \ {w} :
        status[c] \in Losers \/ \E j \in jobs : j.winner = w /\ c \in j.todo

SettledWinner ==
    /\ OneJob
    /\ \A e \in base : status[e.task] = "done" \/ \E j \in jobs : j.winner = e.task
    /\ \A w \in Children :
          status[w] = "done" \/ (\E j \in jobs : j.winner = w) => OthersLose(w)
    /\ \A j \in jobs : j.winner \notin j.todo
    /\ \A j \in jobs : \A c \in j.todo : status[c] # "done"
    /\ \A j \in jobs : j.stage = "losers" /\ j.winner \in Children =>
          status[j.winner] = "done"

\* A branch holds its own child's edits and what it took from base, a worktree
\* its own child's.
OwnEdits ==
    /\ \A c \in Children : \A e \in commits[c] : e.task = c \/ e \in base
    /\ \A c \in Children : \A e \in dirt[c] : e.task = c

WinnerInv == TypeInv /\ OwnEdits /\ (cut \/ SettledWinner)
-----------------------------------------------------------------------------
(* Types. *)

\* The initial states have their types.
LEMMA InitTypes == ASSUME Init PROVE TypeInv
<1>1. cut \in BOOLEAN /\ archived \in BOOLEAN
  BY DEF Init
<1> QED BY <1>1, BoundAssumption
        DEF Init, TypeInv, TypeOK, LinkedHasBranch, WinnerFirst, Statuses, Attempts,
            Edits, Runs, Jobs

\* What one pod writes is one edit of the attempt it executes.
LEMMA EditTyped == ASSUME NEW r \in Runs PROVE EditOf(r) \in Edits
BY DEF EditOf, Edits, Runs

\* A gate command keeps the types.
LEMMA GateTypes == ASSUME TypeInv, GateStep PROVE TypeInv'
<1> USE DEF TypeInv, TypeOK, LinkedHasBranch, WinnerFirst, Statuses,
            rowVars, repoVars, histVars
<1>1. PICK c \in Children :
         ApproveBefore(c) \/ RejectBefore(c) \/ RejectAfter(c) \/ Requeue(c)
  BY DEF GateStep
<1>2. ASSUME attempt[c] < MaxAttempt PROVE attempt[c] + 1 \in Attempts
  BY <1>2, BoundAssumption DEF Attempts
<1>3. CASE ApproveBefore(c)
  BY <1>3 DEF ApproveBefore
<1>4. CASE RejectBefore(c)
  BY <1>4 DEF RejectBefore
<1>5. CASE RejectAfter(c)
  BY <1>2, <1>5 DEF RejectAfter
<1>6. CASE Requeue(c)
  BY <1>2, <1>6 DEF Requeue
<1> QED BY <1>1, <1>3, <1>4, <1>5, <1>6

\* A job that moves to its next stage, or drops a loser, is still a job.
LEMMA JobMoves ==
    ASSUME jobs \subseteq Jobs, WinnerFirst, NEW j \in jobs
    PROVE  /\ Ends(j) => jobs' \subseteq Jobs /\ WinnerFirst'
           /\ \A stage \in {"merge", "drop", "approve", "losers"} :
                 j.stage # "losers" /\ Becomes(j, [j EXCEPT !.stage = stage])
                 => jobs' \subseteq Jobs /\ WinnerFirst'
           /\ \A c : Becomes(j, [j EXCEPT !.todo = @ \ {c}])
                 => jobs' \subseteq Jobs /\ WinnerFirst'
<1>1. Ends(j) => jobs' \subseteq Jobs /\ WinnerFirst'
  BY DEF Ends, WinnerFirst
<1>2. ASSUME NEW stage \in {"merge", "drop", "approve", "losers"}, j.stage # "losers",
             Becomes(j, [j EXCEPT !.stage = stage])
      PROVE  jobs' \subseteq Jobs /\ WinnerFirst'
  <2>1. [j EXCEPT !.stage = stage] \in Jobs /\ [j EXCEPT !.stage = stage].winner = j.winner
    BY <1>2 DEF Jobs
  <2> QED BY <1>2, <2>1 DEF Becomes, WinnerFirst
<1>3. ASSUME NEW c, Becomes(j, [j EXCEPT !.todo = @ \ {c}])
      PROVE  jobs' \subseteq Jobs /\ WinnerFirst'
  <2> DEFINE k == [j EXCEPT !.todo = @ \ {c}]
  <2>1. k \in Jobs /\ k.winner = j.winner /\ k.stage = j.stage
    BY DEF Jobs
  <2>2. jobs' = (jobs \ {j}) \union {k}
    BY <1>3 DEF Becomes
  <2> HIDE DEF k
  <2> QED BY <2>1, <2>2 DEF WinnerFirst
<1> QED BY <1>1, <1>2, <1>3

\* Starting, continuing or ending a promotion or an abandonment keeps the types.
LEMMA SetTypes == ASSUME TypeInv, SetStep PROVE TypeInv'
<1> USE DEF TypeInv, TypeOK, LinkedHasBranch, rowVars, repoVars, histVars
<1>1. ASSUME NEW w \in Children, Promote(w) PROVE TypeInv'
  <2>1. jobs' \subseteq Jobs /\ WinnerFirst'
    BY <1>1 DEF Promote, Jobs, WinnerFirst
  <2> QED BY <1>1, <2>1 DEF Promote
<1>2. CASE Abandon
  <2>1. jobs' \subseteq Jobs /\ WinnerFirst'
    BY <1>2 DEF Abandon, Jobs, WinnerFirst
  <2> QED BY <1>2, <2>1 DEF Abandon
<1>3. ASSUME NEW j \in jobs,
             \/ CommitWinner(j) \/ MergeWinner(j) \/ DropWinner(j) \/ ApproveWinner(j)
             \/ DropLoser(j) \/ ArchivePhantom(j) \/ CutShort(j)
      PROVE  TypeInv'
  <2>1. j.stage # "losers" => j.winner \in Children
    BY DEF WinnerFirst
  <2>2. CASE CommitWinner(j)
    <3>1. jobs' \subseteq Jobs /\ WinnerFirst'
      BY <2>2, JobMoves DEF CommitWinner
    <3> QED BY <2>1, <2>2, <3>1 DEF CommitWinner, Commit
  <2>3. CASE MergeWinner(j)
    <3>1. jobs' \subseteq Jobs /\ WinnerFirst'
      BY <2>3, JobMoves DEF MergeWinner
    <3> QED BY <2>1, <2>3, <3>1 DEF MergeWinner
  <2>4. CASE DropWinner(j)
    <3>1. jobs' \subseteq Jobs /\ WinnerFirst'
      BY <2>4, JobMoves DEF DropWinner
    <3> QED BY <2>1, <2>4, <3>1 DEF DropWinner, Drop
  <2>5. CASE ApproveWinner(j)
    <3>1. jobs' \subseteq Jobs /\ WinnerFirst'
      BY <2>5, JobMoves DEF ApproveWinner
    <3> QED BY <2>1, <2>5, <3>1 DEF ApproveWinner, Statuses
  <2>6. CASE DropLoser(j)
    <3>1. PICK c \in j.todo : Becomes(j, [j EXCEPT !.todo = @ \ {c}])
                             /\ status' = [status EXCEPT ![c] = "abandoned"]
                             /\ path' = path \ {c}
                             /\ IF c \in j.paths THEN Drop(c)
                                ELSE UNCHANGED <<branches, commits, dir, dirt>>
      BY <2>6 DEF DropLoser
    <3>2. c \in Children
      BY DEF Jobs
    <3>3. jobs' \subseteq Jobs /\ WinnerFirst'
      BY <3>1, JobMoves
    <3>4. CASE Drop(c)
      BY <2>6, <3>1, <3>2, <3>3, <3>4 DEF DropLoser, Drop, Statuses
    <3>5. CASE UNCHANGED <<branches, commits, dir, dirt>>
      BY <2>6, <3>1, <3>2, <3>3, <3>5 DEF DropLoser, Statuses
    <3> QED BY <3>1, <3>4, <3>5
  <2>7. CASE ArchivePhantom(j)
    <3>1. jobs' \subseteq Jobs /\ WinnerFirst'
      BY <2>7, JobMoves DEF ArchivePhantom
    <3> QED BY <2>7, <3>1 DEF ArchivePhantom
  <2>8. CASE CutShort(j)
    <3>1. jobs' \subseteq Jobs /\ WinnerFirst'
      BY <2>8, JobMoves DEF CutShort
    <3> QED BY <2>8, <3>1 DEF CutShort
  <2> QED BY <1>3, <2>2, <2>3, <2>4, <2>5, <2>6, <2>7, <2>8
<1> QED BY <1>1, <1>2, <1>3 DEF SetStep

\* A step of a pod keeps the types.
LEMMA PodTypes == ASSUME TypeInv, PodStep PROVE TypeInv'
<1> USE DEF TypeInv, TypeOK, LinkedHasBranch, WinnerFirst, Statuses,
            rowVars, repoVars, histVars
<1>1. ASSUME NEW c \in Children, Claim(c) PROVE TypeInv'
  <2> DEFINE r == [task |-> c, attempt |-> attempt[c],
                   tools |-> c \in path /\ dir[c] # "none"]
  <2>1. r.tools \in BOOLEAN /\ r \in Runs
    BY DEF Runs
  <2>2. runs' = runs \union {r}
    BY <1>1 DEF Claim
  <2> HIDE DEF r
  <2> QED BY <1>1, <2>1, <2>2 DEF Claim
<1>2. ASSUME NEW r \in runs,
             WriteFile(r) \/ SubmitResult(r) \/ ReportFailure(r) \/ PodDies(r)
      PROVE  TypeInv'
  <2>1. r \in Runs /\ r.task \in Children /\ r.attempt \in Attempts
    BY DEF Runs
  <2>2. EditOf(r) \in Edits
    BY <2>1, EditTyped
  <2>3. CASE WriteFile(r)
    BY <2>1, <2>2, <2>3 DEF WriteFile
  <2>4. CASE SubmitResult(r)
    BY <2>1, <2>4 DEF SubmitResult, Commit
  <2>5. CASE ReportFailure(r)
    BY <2>1, <2>5 DEF ReportFailure
  <2>6. CASE PodDies(r)
    BY <2>6 DEF PodDies
  <2> QED BY <1>2, <2>3, <2>4, <2>5, <2>6
<1> QED BY <1>1, <1>2 DEF PodStep

\* Every step keeps the types.
LEMMA TypeStep == ASSUME TypeInv, [Next]_vars PROVE TypeInv'
<1>1. CASE UNCHANGED vars
  BY <1>1 DEF vars, TypeInv, TypeOK, LinkedHasBranch, WinnerFirst,
              rowVars, repoVars, histVars
<1> QED BY <1>1, GateTypes, SetTypes, PodTypes DEF Next

\* Every variable keeps its type; a missing directory or branch holds nothing.
THEOREM CandidatesTypeCorrect == Spec => []TypeOK
<1>1. TypeInv => TypeOK
  BY DEF TypeInv
<1> QED BY <1>1, InitTypes, TypeStep, PTL DEF Spec

-----------------------------------------------------------------------------
(* A resolved set is over. *)

\* Gates and pods touch no child that is final, and no job.
LEMMA OthersRespectFinal ==
    ASSUME TypeInv, GateStep \/ PodStep
    PROVE  /\ UNCHANGED <<jobs, archived, base, cut>>
           /\ \A c \in Children : status[c] \in Final => status'[c] = status[c]
           /\ \A c \in Children : status'[c] # status[c] => status'[c] # "done"
<1> USE DEF TypeInv, TypeOK, Final, rowVars, repoVars, histVars
<1>1. ASSUME NEW c \in Children,
             \/ ApproveBefore(c) \/ RejectBefore(c) \/ RejectAfter(c) \/ Requeue(c)
             \/ Claim(c)
      PROVE  /\ UNCHANGED <<jobs, archived, base, cut>>
             /\ \E new \in Statuses \ {"done"} : status' = [status EXCEPT ![c] = new]
             /\ status[c] \notin Final
  BY <1>1 DEF ApproveBefore, RejectBefore, RejectAfter, Requeue, Claim, Statuses
<1>2. ASSUME NEW r \in runs,
             WriteFile(r) \/ SubmitResult(r) \/ ReportFailure(r) \/ PodDies(r)
      PROVE  /\ UNCHANGED <<jobs, archived, base, cut>>
             /\ \/ status' = status
                \/ /\ status[r.task] = "running"
                   /\ status' = [status EXCEPT ![r.task] = "after_gate"]
  BY <1>2 DEF WriteFile, SubmitResult, ReportFailure, PodDies
<1> QED BY <1>1, <1>2 DEF GateStep, PodStep

\* Starting a promotion or an abandonment takes every child that is not final.
LEMMA StartsOver ==
    ASSUME OverInv, Abandon \/ \E w \in Children : Promote(w)
    PROVE  JobsEndTheRest' /\ ResolvedIsOver'
<1> USE DEF OverInv, JobsEndTheRest, ResolvedIsOver, rowVars
<1>1. ASSUME NEW w \in Children, Promote(w) PROVE JobsEndTheRest' /\ ResolvedIsOver'
  <2>1. \A c \in Children \ {w} : status[c] \in Final \/ status[c] = "after_gate"
    BY <1>1 DEF Promote, TypeInv, TypeOK, Statuses, Unresolved, Final
  <2> DEFINE j == [winner |-> w, paths |-> path,
                   todo |-> {c \in Children \ {w} : status[c] # "rejected"},
                   stage |-> IF w \in path THEN "commit" ELSE "approve"]
  <2>2. /\ j.winner = w /\ j.stage # "losers"
        /\ j.todo = {c \in Children \ {w} : status[c] # "rejected"}
    OBVIOUS
  <2>3. jobs' = jobs \union {j}
    BY <1>1 DEF Promote
  <2> HIDE DEF j
  <2> QED BY <1>1, <2>1, <2>2, <2>3 DEF Promote, Final
<1>2. CASE Abandon
  <2> DEFINE j == [winner |-> NoChild, paths |-> path,
                   todo |-> {c \in Children : status[c] \notin {"done", "rejected"}},
                   stage |-> "losers"]
  <2>1. j.todo = {c \in Children : status[c] \notin {"done", "rejected"}}
    OBVIOUS
  <2>2. jobs' = jobs \union {j}
    BY <1>2 DEF Abandon
  <2> HIDE DEF j
  <2> QED BY <1>2, <2>1, <2>2 DEF Abandon, Final
<1> QED BY <1>1, <1>2

\* A job ends the children it has to end, and archives only when it has.
LEMMA JobsOver ==
    ASSUME OverInv, NEW j \in jobs,
           \/ CommitWinner(j) \/ MergeWinner(j) \/ DropWinner(j) \/ ApproveWinner(j)
           \/ DropLoser(j) \/ ArchivePhantom(j) \/ CutShort(j)
    PROVE  JobsEndTheRest' /\ ResolvedIsOver'
<1> USE DEF OverInv, TypeInv, TypeOK, JobsEndTheRest, ResolvedIsOver, Final,
            rowVars, histVars
<1>1. ASSUME NEW stage \in {"merge", "drop", "approve"},
             Becomes(j, [j EXCEPT !.stage = stage]), j.stage # "losers",
             UNCHANGED <<status, archived>>
      PROVE  JobsEndTheRest' /\ ResolvedIsOver'
  <2> DEFINE k == [j EXCEPT !.stage = stage]
  <2>1. k.todo = j.todo /\ k.winner = j.winner /\ k.stage # "losers"
    BY <1>1 DEF Jobs
  <2>2. jobs' = (jobs \ {j}) \union {k}
    BY <1>1 DEF Becomes
  <2> HIDE DEF k
  <2> QED BY <1>1, <2>1, <2>2
<1>2. CASE CommitWinner(j) \/ MergeWinner(j) \/ DropWinner(j)
  BY <1>1, <1>2 DEF CommitWinner, MergeWinner, DropWinner
<1>3. CASE ApproveWinner(j)
  <2> DEFINE k == [j EXCEPT !.stage = "losers"]
  <2>1. k.todo = j.todo /\ k.winner = j.winner
    BY DEF Jobs
  <2>2. jobs' = (jobs \ {j}) \union {k}
    BY <1>3 DEF ApproveWinner, Becomes
  <2>3. status'[j.winner] = "done" \/ j.winner \notin Children
    BY <1>3 DEF ApproveWinner
  <2>4. \A c \in Children : status[c] \in Final => status'[c] \in Final
    BY <1>3 DEF ApproveWinner
  <2> HIDE DEF k
  <2>5. JobsEndTheRest'
    BY <2>1, <2>2, <2>3, <2>4
  <2> QED BY <1>3, <2>4, <2>5 DEF ApproveWinner
<1>4. CASE DropLoser(j)
  <2>1. PICK c \in j.todo : /\ Becomes(j, [j EXCEPT !.todo = @ \ {c}])
                           /\ status' = [status EXCEPT ![c] = "abandoned"]
    BY <1>4 DEF DropLoser
  <2> DEFINE k == [j EXCEPT !.todo = @ \ {c}]
  <2>2. k.todo = j.todo \ {c} /\ k.winner = j.winner /\ k.stage = j.stage
    BY DEF Jobs
  <2>3. jobs' = (jobs \ {j}) \union {k}
    BY <2>1 DEF Becomes
  <2>4. status'[c] = "abandoned" /\ \A d \in Children \ {c} : status'[d] = status[d]
    BY <2>1 DEF Jobs
  <2> HIDE DEF k
  <2>5. JobsEndTheRest'
    BY <2>2, <2>3, <2>4
  <2> QED BY <1>4, <2>4, <2>5 DEF DropLoser
<1>5. CASE ArchivePhantom(j)
  BY <1>5 DEF ArchivePhantom, Ends
<1>6. CASE CutShort(j)
  BY <1>6 DEF CutShort, Ends
<1> QED BY <1>2, <1>3, <1>4, <1>5, <1>6

\* Every step keeps what is resolved over.
LEMMA OverStep == ASSUME OverInv, [Next]_vars PROVE OverInv'
<1>1. TypeInv'
  BY TypeStep DEF OverInv
<1>2. CASE UNCHANGED vars
  BY <1>1, <1>2 DEF vars, OverInv, JobsEndTheRest, ResolvedIsOver, rowVars
<1>3. CASE GateStep \/ PodStep
  BY <1>1, <1>3, OthersRespectFinal
  DEF OverInv, JobsEndTheRest, ResolvedIsOver, Final
<1>4. CASE SetStep
  BY <1>1, <1>4, StartsOver, JobsOver DEF SetStep, OverInv
<1> QED BY <1>2, <1>3, <1>4 DEF Next

\* When a set is resolved none of its children is waiting, at work or selectable,
\* for any number of promotions and abandonments at once, and whatever pods and
\* gate commands do meanwhile.
THEOREM ResolvedSetsAreOver == Spec => []ResolvedIsOver
<1>1. Init => OverInv
  BY InitTypes DEF Init, OverInv, JobsEndTheRest, ResolvedIsOver
<1>2. OverInv => ResolvedIsOver
  BY DEF OverInv
<1> QED BY <1>1, <1>2, OverStep, PTL DEF Spec

-----------------------------------------------------------------------------
(* One winner, when the user waits for each command. *)

\* Every step leaves edits of other children out of a branch and a worktree.
LEMMA OwnStep == ASSUME TypeInv, OwnEdits, [Next]_vars PROVE OwnEdits'
<1> USE DEF TypeInv, TypeOK, OwnEdits, Edits, rowVars, repoVars, histVars
<1>1. ASSUME NEW c \in Children,
             \/ ApproveBefore(c) \/ RejectBefore(c) \/ RejectAfter(c) \/ Requeue(c)
             \/ Claim(c) \/ Promote(c)
      PROVE  OwnEdits'
  BY <1>1 DEF ApproveBefore, RejectBefore, RejectAfter, Requeue, Claim, Promote
<1>2. CASE Abandon \/ UNCHANGED vars
  BY <1>2 DEF Abandon, vars
<1>3. ASSUME NEW j \in jobs,
             \/ CommitWinner(j) \/ MergeWinner(j) \/ DropWinner(j) \/ ApproveWinner(j)
             \/ DropLoser(j) \/ ArchivePhantom(j) \/ CutShort(j)
      PROVE  OwnEdits'
  <2>1. CASE CommitWinner(j)
    BY <2>1 DEF CommitWinner, Commit
  <2>2. CASE MergeWinner(j)
    BY <2>2 DEF MergeWinner
  <2>3. ASSUME NEW c, Drop(c), base' = base PROVE OwnEdits'
    BY <2>3 DEF Drop
  <2>4. CASE DropWinner(j)
    BY <2>3, <2>4 DEF DropWinner
  <2>5. CASE DropLoser(j)
    <3>1. UNCHANGED <<commits, dirt>> \/ \E c \in j.todo : Drop(c)
      BY <2>5 DEF DropLoser
    <3> QED BY <2>3, <2>5, <3>1 DEF DropLoser
  <2>6. CASE ApproveWinner(j) \/ ArchivePhantom(j) \/ CutShort(j)
    BY <2>6 DEF ApproveWinner, ArchivePhantom, CutShort
  <2> QED BY <1>3, <2>1, <2>2, <2>4, <2>5, <2>6
<1>4. ASSUME NEW r \in runs,
             WriteFile(r) \/ SubmitResult(r) \/ ReportFailure(r) \/ PodDies(r)
      PROVE  OwnEdits'
  <2>1. r.task \in Children /\ EditOf(r).task = r.task
    BY DEF Runs, EditOf
  <2>2. CASE WriteFile(r)
    BY <2>1, <2>2 DEF WriteFile
  <2>3. CASE SubmitResult(r)
    BY <2>1, <2>3 DEF SubmitResult, Commit
  <2>4. CASE ReportFailure(r) \/ PodDies(r)
    BY <2>4 DEF ReportFailure, PodDies
  <2> QED BY <1>4, <2>2, <2>3, <2>4
<1> QED BY <1>1, <1>2, <1>3, <1>4 DEF Next, GateStep, SetStep, PodStep

\* A user who waits promotes or abandons when nothing is in progress.
LEMMA UserWaits == ASSUME MaxJobs = 1, OneJob, Idle PROVE jobs = {}
<1>1. Cardinality(jobs) \in Nat /\ Cardinality(jobs) = 0
  BY FS_CardinalityType DEF OneJob, Idle
<1> QED BY <1>1, FS_EmptySet DEF OneJob

\* Pods and gate commands neither finish a child nor bring a loser back.
LEMMA OthersSettled ==
    ASSUME TypeInv, SettledWinner, GateStep \/ PodStep
    PROVE  SettledWinner'
<1>1. /\ UNCHANGED <<jobs, base>>
      /\ \A c \in Children : /\ status[c] \in Final => status'[c] = status[c]
                             /\ status'[c] = "done" => status[c] = "done"
  BY OthersRespectFinal
<1>2. OneJob'
  BY <1>1 DEF SettledWinner, OneJob
<1> QED BY <1>1, <1>2
        DEF SettledWinner, OthersLose, Losers, Final, TypeInv, TypeOK, Edits, Jobs

\* A promotion finds no other child done, so there is none among its losers.
LEMMA StartsSettled ==
    ASSUME TypeInv, SettledWinner, MaxJobs = 1,
           Abandon \/ \E w \in Children : Promote(w)
    PROVE  SettledWinner'
<1> USE DEF TypeInv, TypeOK, SettledWinner, OthersLose, Losers, Edits, rowVars, repoVars
<1>1. jobs = {} /\ status' = status /\ base' = base
  BY UserWaits DEF Abandon, Promote
<1>2. ASSUME NEW w \in Children, Promote(w) PROVE SettledWinner'
  <2> DEFINE j == [winner |-> w, paths |-> path,
                   todo |-> {c \in Children \ {w} : status[c] # "rejected"},
                   stage |-> IF w \in path THEN "commit" ELSE "approve"]
  <2>1. /\ j.winner = w /\ j.stage # "losers"
        /\ j.todo = {c \in Children \ {w} : status[c] # "rejected"}
    OBVIOUS
  <2>2. jobs' = {j}
    BY <1>1, <1>2 DEF Promote
  <2> HIDE DEF j
  <2>3. OneJob'
    BY <2>2, FS_Singleton DEF OneJob
  <2>4. \A c \in Children \ {w} : status[c] # "done"
    BY <1>1, <1>2 DEF Promote
  <2> QED BY <1>1, <2>1, <2>2, <2>3, <2>4
<1>3. CASE Abandon
  <2> DEFINE j == [winner |-> NoChild, paths |-> path,
                   todo |-> {c \in Children : status[c] \notin {"done", "rejected"}},
                   stage |-> "losers"]
  <2>1. /\ j.winner = NoChild
        /\ j.todo = {c \in Children : status[c] \notin {"done", "rejected"}}
    OBVIOUS
  <2>2. jobs' = {j}
    BY <1>1, <1>3 DEF Abandon
  <2> HIDE DEF j
  <2>3. OneJob'
    BY <2>2, FS_Singleton DEF OneJob
  <2> QED BY <1>1, <2>1, <2>2, <2>3, ChildAssumption
<1> QED BY <1>2, <1>3

\* The one promotion in progress merges its winner only, makes it the only child
\* that is done, and ends the others.
LEMMA JobSettled ==
    ASSUME TypeInv, OwnEdits, SettledWinner, NEW j \in jobs,
           \/ CommitWinner(j) \/ MergeWinner(j) \/ DropWinner(j) \/ ApproveWinner(j)
           \/ DropLoser(j) \/ ArchivePhantom(j) \/ CutShort(j)
    PROVE  SettledWinner' \/ cut'
<1> USE DEF TypeInv, TypeOK, SettledWinner, OthersLose, Losers, Edits,
            rowVars, repoVars, histVars
<1>1. jobs = {j} /\ j.todo \subseteq Children
  BY DEF OneJob, Jobs
<1>2. /\ \A k : Becomes(j, k) => jobs' = {k} /\ OneJob'
      /\ Ends(j) => jobs' = {} /\ OneJob'
  <2>1. /\ \A k : Becomes(j, k) => jobs' = {k}
        /\ Ends(j) => jobs' = {}
    BY <1>1 DEF Becomes, Ends
  <2>2. ASSUME NEW k, jobs' = {k} PROVE OneJob'
    BY <2>2, FS_Singleton DEF OneJob
  <2>3. jobs' = {} => OneJob'
    BY FS_EmptySet DEF OneJob
  <2> QED BY <2>1, <2>2, <2>3
<1>3. ASSUME NEW stage, Becomes(j, [j EXCEPT !.stage = stage]),
             j.stage # "losers", stage # "losers", status' = status,
             base' \subseteq base \union commits[j.winner]
      PROVE  SettledWinner'
  <2> DEFINE k == [j EXCEPT !.stage = stage]
  <2>1. k.winner = j.winner /\ k.todo = j.todo /\ k.stage = stage
    BY DEF Jobs
  <2>2. jobs' = {k} /\ OneJob'
    BY <1>2, <1>3
  <2>3. \A e \in base' : e \in base \/ e.task = j.winner
    BY <1>3 DEF OwnEdits, WinnerFirst
  <2> HIDE DEF k
  <2> QED BY <1>1, <1>3, <2>1, <2>2, <2>3
<1>4. CASE CommitWinner(j) \/ MergeWinner(j) \/ DropWinner(j)
  BY <1>3, <1>4 DEF CommitWinner, MergeWinner, DropWinner
<1>5. CASE ApproveWinner(j)
  <2> DEFINE w == j.winner
             k == [j EXCEPT !.stage = "losers"]
  <2>1. w \in Children /\ status' = [status EXCEPT ![w] = "done"]
    BY <1>5 DEF ApproveWinner, WinnerFirst
  <2>2. jobs' = {k} /\ OneJob' /\ k.winner = w /\ k.todo = j.todo
    BY <1>2, <1>5 DEF ApproveWinner, Jobs
  <2>3. status'[w] = "done" /\ \A c \in Children \ {w} : status'[c] = status[c]
    BY <2>1
  <2>4. \A c \in Children \ {w} : status[c] \in Losers \/ c \in j.todo
    BY <1>1, <2>1
  <2>5. \A c \in Children : status'[c] = "done" => c = w
    BY <2>3, <2>4
  <2> HIDE DEF w, k
  <2>6. \A e \in base : status'[e.task] = "done"
    BY <1>1, <2>3 DEF w
  <2> QED BY <1>1, <1>5, <2>1, <2>2, <2>3, <2>4, <2>5, <2>6 DEF ApproveWinner, w
<1>6. CASE DropLoser(j)
  <2>1. PICK c \in j.todo : /\ Becomes(j, [j EXCEPT !.todo = @ \ {c}])
                           /\ status' = [status EXCEPT ![c] = "abandoned"]
    BY <1>6 DEF DropLoser
  <2> DEFINE k == [j EXCEPT !.todo = @ \ {c}]
  <2>2. k.todo = j.todo \ {c} /\ k.winner = j.winner /\ k.stage = j.stage
    BY DEF Jobs
  <2>3. jobs' = {k} /\ OneJob'
    BY <1>2, <2>1
  <2>4. /\ status'[c] = "abandoned" /\ status[c] # "done" /\ j.winner # c
        /\ \A d \in Children \ {c} : status'[d] = status[d]
    BY <1>1, <2>1
  <2> HIDE DEF k
  <2> QED BY <1>1, <1>6, <2>2, <2>3, <2>4 DEF DropLoser
<1>7. CASE ArchivePhantom(j)
  BY <1>1, <1>2, <1>7 DEF ArchivePhantom
<1>8. CASE CutShort(j)
  BY <1>8 DEF CutShort
<1> QED BY <1>4, <1>5, <1>6, <1>7, <1>8

\* What was cut short is not forgotten.
LEMMA CutStep == ASSUME TypeInv, cut, [Next]_vars PROVE cut'
<1>1. GateStep \/ PodStep => cut' = cut
  BY OthersRespectFinal
<1>2. SetStep \/ UNCHANGED vars => cut'
  BY DEF SetStep, vars, histVars, Promote, Abandon, CommitWinner, MergeWinner,
         DropWinner, ApproveWinner, DropLoser, ArchivePhantom, CutShort
<1> QED BY <1>1, <1>2 DEF Next

\* Every step keeps the set settled, if the user waits.
LEMMA WinnerStep == ASSUME WinnerInv, MaxJobs = 1, [Next]_vars PROVE WinnerInv'
<1>1. TypeInv' /\ OwnEdits'
  BY TypeStep, OwnStep DEF WinnerInv
<1>2. CASE cut
  BY <1>1, <1>2, CutStep DEF WinnerInv
<1>3. CASE SettledWinner
  <2>1. CASE UNCHANGED vars
    BY <1>1, <1>3, <2>1 DEF vars, WinnerInv, SettledWinner, OneJob, OthersLose,
                           rowVars, repoVars
  <2>2. CASE GateStep \/ PodStep
    BY <1>1, <1>3, <2>2, OthersSettled DEF WinnerInv
  <2>3. CASE SetStep
    BY <1>1, <1>3, <2>3, StartsSettled, JobSettled DEF SetStep, WinnerInv
  <2> QED BY <1>1, <2>1, <2>2, <2>3 DEF Next, WinnerInv
<1> QED BY <1>2, <1>3 DEF WinnerInv

\* Nothing is merged or resolved at first.
LEMMA InitWinner == ASSUME Init PROVE WinnerInv
<1>1. IsFiniteSet(jobs) /\ jobs = {}
  BY FS_EmptySet DEF Init
<1>2. TypeInv
  BY InitTypes
<1> QED BY <1>1, <1>2 DEF Init, WinnerInv, OwnEdits, SettledWinner, OneJob, OthersLose

\* If the user waits for each command, a set whose promotions all ran to their
\* end has brought the work of one child at most into the base branch.
THEOREM OneWinnerIsMerged ==
    ASSUME MaxJobs = 1
    PROVE  Spec => []OneWinner
<1>1. WinnerInv => OneWinner
  <2> SUFFICES ASSUME WinnerInv, ~ cut, NEW d \in base, NEW e \in base
               PROVE  d.task = e.task
    BY DEF OneWinner
  <2> USE DEF WinnerInv, SettledWinner, TypeInv, TypeOK, Edits
  <2>1. \A f \in base : OthersLose(f.task) /\ f.task \in Children
    OBVIOUS
  <2>2. \A f \in base : status[f.task] \notin Losers \/ \E j \in jobs : j.winner = f.task
    BY DEF Losers
  <2> QED BY <2>1, <2>2 DEF OthersLose, OneJob, Losers
<1> QED BY <1>1, InitWinner, WinnerStep, PTL DEF Spec

\* Under the same condition what is in the base branch is work of a child that
\* the rows show as promoted, or that a promotion in progress is about to.
THEOREM OnlyPromotedReachesBase ==
    ASSUME MaxJobs = 1
    PROVE  Spec => []OnlyPromotedIsMerged
<1>1. WinnerInv => OnlyPromotedIsMerged
  BY DEF WinnerInv, SettledWinner, OnlyPromotedIsMerged
<1> QED BY <1>1, InitWinner, WinnerStep, PTL DEF Spec

-----------------------------------------------------------------------------
(* What the user may still choose, for any number of commands at once. *)

Found(c) == base \union commits[c] \union dirt[c]

\* Whatever was written for a child is there until the child is final or a
\* promotion works on it, which makes it final.
WorkInv ==
    cut \/ \A e \in written :
              \/ status[e.task] \in Final
              \/ \E j \in jobs : j.winner = e.task
              \/ e \in Found(e.task)

ChoiceInv == OverInv /\ WorkInv

\* Gates and pods move edits from a worktree to its branch, or add to them.
LEMMA OthersWork ==
    ASSUME ChoiceInv, GateStep \/ PodStep
    PROVE  WorkInv'
<1> USE DEF ChoiceInv, OverInv, TypeInv, TypeOK, rowVars, repoVars, histVars
<1>1. /\ UNCHANGED <<jobs, base, cut>>
      /\ \A c \in Children : status[c] \in Final => status'[c] = status[c]
  BY OthersRespectFinal
<1>2. \A e \in written : e.task \in Children
  BY DEF Edits
<1>3. ASSUME NEW c \in Children,
             \/ ApproveBefore(c) \/ RejectBefore(c) \/ RejectAfter(c) \/ Requeue(c)
             \/ Claim(c)
      PROVE  WorkInv'
  <2>1. /\ UNCHANGED <<written, dirt>>
        /\ \A d \in Children : commits[d] \subseteq commits'[d]
    BY <1>3 DEF ApproveBefore, RejectBefore, RejectAfter, Requeue, Claim
  <2> QED BY <1>1, <1>2, <2>1 DEF WorkInv, Found
<1>4. ASSUME NEW r \in runs, WriteFile(r) PROVE WorkInv'
  <2>1. r.task \in Children /\ EditOf(r).task = r.task
    BY DEF Runs, EditOf
  <2>2. /\ EditOf(r) \in dirt'[r.task]
        /\ \A d \in Children : dirt[d] \subseteq dirt'[d]
        /\ written' = written \union {EditOf(r)} /\ UNCHANGED <<status, commits>>
    BY <1>4, <2>1 DEF WriteFile
  <2> QED BY <1>1, <1>2, <2>1, <2>2 DEF WorkInv, Found
<1>5. ASSUME NEW r \in runs, SubmitResult(r) \/ ReportFailure(r) \/ PodDies(r)
      PROVE  WorkInv'
  <2>1. r.task \in Children
    BY DEF Runs
  <2>2. written' = written /\ (Commit(r.task) \/ UNCHANGED <<commits, dirt>>)
    BY <1>5 DEF SubmitResult, ReportFailure, PodDies
  <2>3. \A d \in Children : Found(d) \subseteq Found(d)'
    BY <1>1, <2>1, <2>2 DEF Commit, Found
  <2> QED BY <1>1, <1>2, <2>2, <2>3 DEF WorkInv
<1> QED BY <1>3, <1>4, <1>5 DEF GateStep, PodStep

\* A job that moves on keeps its winner.
LEMMA WinnerStays ==
    ASSUME TypeInv, NEW j \in jobs,
           \/ \E stage : Becomes(j, [j EXCEPT !.stage = stage])
           \/ \E c : Becomes(j, [j EXCEPT !.todo = @ \ {c}])
    PROVE  \A i \in jobs : \E k \in jobs' : k.winner = i.winner
<1>1. j \in Jobs
  BY DEF TypeInv, TypeOK
<1>2. ASSUME NEW k, Becomes(j, k), k.winner = j.winner
      PROVE  \A i \in jobs : \E l \in jobs' : l.winner = i.winner
  BY <1>2 DEF Becomes
<1>3. /\ \A stage : [j EXCEPT !.stage = stage].winner = j.winner
      /\ \A c : [j EXCEPT !.todo = @ \ {c}].winner = j.winner
  BY <1>1 DEF Jobs
<1> QED BY <1>2, <1>3

\* A job drops the work of its winner, or of a child that is then abandoned; it
\* ends when every child is final.
LEMMA JobWork == ASSUME ChoiceInv, SetStep PROVE WorkInv'
<1> USE DEF ChoiceInv, OverInv, TypeInv, TypeOK, Final, rowVars, repoVars, histVars
<1>1. \A e \in written : e.task \in Children
  BY DEF Edits
<1>2. CASE Abandon \/ \E w \in Children : Promote(w)
  <2>1. /\ UNCHANGED <<status, base, commits, dirt, written, cut>>
        /\ jobs \subseteq jobs'
    BY <1>2 DEF Abandon, Promote
  <2> QED BY <2>1 DEF WorkInv, Found
<1>3. ASSUME NEW j \in jobs,
             \/ CommitWinner(j) \/ MergeWinner(j) \/ DropWinner(j) \/ ApproveWinner(j)
      PROVE  WorkInv'
  <2>1. /\ j.winner \in Children
        /\ written' = written /\ cut' = cut /\ base \subseteq base'
        /\ \A d \in Children \ {j.winner} :
              /\ commits'[d] = commits[d] /\ dirt'[d] = dirt[d]
              /\ status'[d] = status[d]
    BY <1>3 DEF WinnerFirst, CommitWinner, MergeWinner, DropWinner, ApproveWinner,
                Commit, Drop
  <2>2. \E stage : Becomes(j, [j EXCEPT !.stage = stage])
    BY <1>3 DEF CommitWinner, MergeWinner, DropWinner, ApproveWinner
  <2>3. \A i \in jobs : \E k \in jobs' : k.winner = i.winner
    BY <2>2, WinnerStays
  <2> QED BY <1>1, <2>1, <2>3 DEF WorkInv, Found
<1>4. ASSUME NEW j \in jobs, DropLoser(j) PROVE WorkInv'
  <2>1. PICK c \in j.todo : /\ Becomes(j, [j EXCEPT !.todo = @ \ {c}])
                           /\ status' = [status EXCEPT ![c] = "abandoned"]
                           /\ IF c \in j.paths THEN Drop(c)
                              ELSE UNCHANGED <<branches, commits, dir, dirt>>
    BY <1>4 DEF DropLoser
  <2>2. c \in Children
    BY DEF Jobs
  <2>3. \A i \in jobs : \E k \in jobs' : k.winner = i.winner
    BY <2>1, WinnerStays
  <2>4. /\ UNCHANGED <<written, base, cut>> /\ status'[c] \in Final
        /\ \A d \in Children \ {c} :
              /\ commits'[d] = commits[d] /\ dirt'[d] = dirt[d]
              /\ status'[d] = status[d]
    BY <1>4, <2>1, <2>2 DEF DropLoser, Drop
  <2> QED BY <1>1, <2>3, <2>4 DEF WorkInv, Found
<1>5. ASSUME NEW j \in jobs, ArchivePhantom(j) PROVE WorkInv'
  <2>1. \A c \in Children : status[c] \in Final
    BY <1>5 DEF ArchivePhantom, JobsEndTheRest
  <2> QED BY <1>1, <1>5, <2>1 DEF ArchivePhantom, WorkInv
<1>6. ASSUME NEW j \in jobs, CutShort(j) PROVE WorkInv'
  BY <1>6 DEF CutShort, WorkInv
<1> QED BY <1>2, <1>3, <1>4, <1>5, <1>6 DEF SetStep

\* Every step keeps the work of a child that may still be chosen.
LEMMA ChoiceStep == ASSUME ChoiceInv, [Next]_vars PROVE ChoiceInv'
<1>1. OverInv'
  BY OverStep DEF ChoiceInv
<1>2. CASE UNCHANGED vars
  BY <1>1, <1>2 DEF vars, rowVars, repoVars, histVars, ChoiceInv, WorkInv, Found
<1> QED BY <1>1, <1>2, OthersWork, JobWork DEF Next, ChoiceInv

\* The edits of a candidate at the after gate are on its branch, in its worktree
\* or in the base branch, whatever was rejected or requeued before and however
\* many promotions and abandonments are in progress, until one is cut short.
THEOREM ChoicesAreKept == Spec => []ChoosableIsKept
<1>1. Init => ChoiceInv
  BY InitTypes
  DEF Init, ChoiceInv, WorkInv, OverInv, JobsEndTheRest, ResolvedIsOver
<1>2. ChoiceInv => ChoosableIsKept
  BY DEF ChoiceInv, WorkInv, Found, Final, ChoosableIsKept
<1> QED BY <1>1, <1>2, ChoiceStep, PTL DEF Spec
=============================================================================
