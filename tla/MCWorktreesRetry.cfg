SPECIFICATION Spec
CONSTANTS
    Tasks = {d1}
    Testing = {}
    NoTask = NoTask
    MaxAttempt = 1
    MaxRuns = 1
    MaxThreads = 1
    GitFails = FALSE
    Crashes = FALSE
INVARIANTS
    RetryGetsWorktree
CHECK_DEADLOCK FALSE
