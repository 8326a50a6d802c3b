\* Two callers of one session on the full, the retrieving and the ingesting routes.
SPECIFICATION Spec
CONSTANTS
    c1 = c1
    c2 = c2
    Calls = {c1, c2}
    Sessions = {"session"}
    Requests <- EveryRequest
    Settings <- EverySetting
    MaxResets = 1
    MaxLost = 1
    QueueSize = 1
    TopK = 1
INVARIANTS
    ResetIsolates
    MaintainedWhereStored
PROPERTIES
    ReportIsOwn
CHECK_DEADLOCK FALSE
