SPECIFICATION FairSpec
CONSTANTS
    Threads = {t1, t2}
    Paths = {p1}
    Locks = {l1, l2, l3}
    Sources = {s1, s2, s3, s4}
    Ops = {"open", "create"}
    MaxCalls = 2
    None = None
INVARIANTS TypeOK PathExclusion ReturnsNewest NewestCached SourceShared
PROPERTIES CallReturns
