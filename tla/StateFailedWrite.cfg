\* The same without a reset, asking whether a stale write is refused after one that failed.
SPECIFICATION Spec
CONSTANTS
    c1 = c1
    c2 = c2
    s1 = s1
    s2 = s2
    None = None
    Clients = {c1, c2}
    Sessions = {s1, s2}
    MaxUpdates = 4
    MaxResets = 0
INVARIANTS
    StaleWriteRefused
