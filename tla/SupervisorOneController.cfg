\* One control task beside concurrent requests, as the application and the benchmarks run it.
SPECIFICATION FairSpec
CONSTANTS
    e1 = e1
    e2 = e2
    e3 = e3
    e4 = e4
    w1 = w1
    c1 = c1
    None = None
    Events = {e1, e2, e3, e4}
    Controllers = {c1}
    Workers = {w1}
    MaxQueueSize = 2
    MaxRetries = 1
INVARIANTS
    WorkAccounted
    FlushBarrier
PROPERTIES
    CallsReturn
