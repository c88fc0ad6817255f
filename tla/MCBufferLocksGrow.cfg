SPECIFICATION FairSpec
CONSTANTS
    Threads = {t1}
    Chunks = {b1}
    Contents = {c1}
    Compared <- InOrder
    Value = {1}
    Ops = {"put", "grow"}
PROPERTIES CallReturns
\* A thread that waits for itself has really stopped.
CHECK_DEADLOCK FALSE
