SPECIFICATION FairSpec
CONSTANTS
    t1 = t1
    t2 = t2
    t3 = t3
    Tasks = {t1, t2, t3}
    Pods = {p1, p2}
    NoPod = NoPod
    NoTask = NoTask
    Rank <- MCRank
    Created <- MCCreated
    Cap = 1
    MaxCost = 2
    LastDay = 1
INVARIANTS
    TypeOK
    
    
    
PROPERTIES
    ClaimIsAtomic
    LockIsReleased
