\* Control tasks whose calls overlap, so that worker tasks of several lifecycles are alive.
SPECIFICATION Spec
CONSTANTS
    e1 = e1
    e2 = e2
    w1 = w1
    w2 = w2
    w3 = w3
    c1 = c1
    c2 = c2
    c3 = c3
    None = None
    Events = {e1, e2}
    Controllers = {c1, c2, c3}
    Workers = {w1, w2, w3}
    MaxQueueSize = 1
    MaxRetries = 0
INVARIANTS
    TypeOK
    NoRework
PROPERTIES
    KeepsContract
SYMMETRY Identities
\* A stranded worker can leave every controller waiting for ever: see the README.
CHECK_DEADLOCK FALSE
