SPECIFICATION FairSpec
CONSTANTS
    Threads = {t1, t2}
    Chunks = {b1}
    Contents = {c1, c2}
    Compared <- InOrder
    Value = {1, 2}
    Ops = {"put", "putBuffer", "get", "getString", "copy", "compare"}
INVARIANTS CallsAreAtomic
PROPERTIES CallReturns
