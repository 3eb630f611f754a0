SPECIFICATION Spec
CONSTANTS
    Tasks = {d1}
    Testing = {}
    NoTask = NoTask
    MaxAttempt = 0
    MaxRuns = 1
    MaxThreads = 1
    GitFails = FALSE
    Crashes = FALSE
INVARIANTS
    PodsStayInWorktree
CHECK_DEADLOCK FALSE
