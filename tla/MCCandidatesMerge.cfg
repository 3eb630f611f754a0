SPECIFICATION Spec
CONSTANTS
    Children = {c1, c2}
    NoChild = NoChild
    MaxAttempt = 0
    MaxRuns = 2
    MaxJobs = 1
    GitFails = FALSE
    Crashes = FALSE
SYMMETRY Symmetry
INVARIANTS
    PromotedIsKept
CHECK_DEADLOCK FALSE
