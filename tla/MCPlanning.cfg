SPECIFICATION Spec
CONSTANTS
    patch = patch
    brief = brief
    test = test
    other = other
    ProgressLogEntry = ProgressLogEntry
    FailureReport = FailureReport
    Types = {patch, brief, test, other, ProgressLogEntry, FailureReport}
    ValidTypes = {patch, brief, test, ProgressLogEntry, FailureReport}
    TS_OK = {"methodology", "development", "testing"}
    PrimaryOutputs <- MCOutputs
    Clis = {c1, c2}
    Names = {"t_9"}
    Roles = {"methodology", "development", "testing", "coordinator"}
    TypeLists <- MCTypeLists
    Plans <- MCPlans
    MaxRuns = 2
INVARIANTS
    TypeOK
    RowsMirrorPlan
