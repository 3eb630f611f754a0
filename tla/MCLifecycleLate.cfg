SPECIFICATION FairSpec
CONSTANTS
    Tasks = {t1}
    Pods = {p1, p2}
    NoTask = NoTask
    NoPod = NoPod
    Specs <- MCSpecs
    Priority <- MCPriority
    CarefulUser = FALSE
    MaxRetries = 2
    MaxLate = 1
PROPERTIES
    GatesHold
    
