SPECIFICATION Spec
CONSTANTS
    Children = {c1, c2}
    NoChild = NoChild
    MaxAttempt = 1
    MaxRuns = 2
    MaxJobs = 1
    GitFails = TRUE
    Crashes = TRUE
SYMMETRY Symmetry
INVARIANTS
    TypeOK
    OneWinner
    OnlyPromotedIsMerged
    
    
CHECK_DEADLOCK FALSE
