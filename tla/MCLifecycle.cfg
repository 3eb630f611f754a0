SPECIFICATION Spec
CONSTANTS
    Tasks = {t1, t2}
    Pods = {p1, p2}
    NoTask = NoTask
    NoPod = NoPod
    Specs <- MCSpecs
    Priority <- MCPriority
    CarefulUser = FALSE
    MaxRetries = 1
    MaxLate = 0
SYMMETRY Symmetry
INVARIANTS
    TypeOK
    NoSharedAttempt
    ApprovedSpecRuns
    AttemptsDated
    WorkingRowOwnsTask
    OneArtifactPerApproval
