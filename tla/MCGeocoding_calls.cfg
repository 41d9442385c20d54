SPECIFICATION FairSpec
CONSTANTS
    Callers = {c1, c2}
    Locations = {l1, l2}
    Names = {n1}
    Reverse = Reverse
    Second = 3
INVARIANTS
    CacheLockExplained
PROPERTIES
    ThreeCallsSpanASecond
    ResolversAreAnswered
