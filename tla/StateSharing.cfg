\* Two threads, two sessions, failing writes and restarts; one reset, four saves.
SPECIFICATION Spec
CONSTANTS
    c1 = c1
    c2 = c2
    s1 = s1
    s2 = s2
    None = None
    Clients = {c1, c2}
    Sessions = {s1, s2}
    MaxUpdates = 4
    MaxResets = 1
INVARIANTS
    AcknowledgedIsDurable
PROPERTIES
    KeepsContract
SYMMETRY Identities
