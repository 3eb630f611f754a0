SPECIFICATION Spec
CONSTANTS
    Tasks = {d1, d2}
    Testing = {d2}
    NoTask = NoTask
    MaxAttempt = 1
    MaxRuns = 2
    MaxThreads = 1
    GitFails = TRUE
    Crashes = TRUE
INVARIANTS
    TypeOK
    OnlyApprovedIsMerged
    RejectedStaysOut
    ApprovedWorkIsKept
    PathIsWorktree
CHECK_DEADLOCK FALSE
