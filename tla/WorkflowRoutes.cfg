\* Every route with any advice, and a gate that asks for one retry more than the corrections'
\* budget grants.  An execution ends, so TLC finds a last state.
SPECIFICATION FairSpec
CONSTANTS
    Queries = {"input", "supporting", "context"}
    UserInput = "input"
    Supporting = "supporting"
    NoQuery = ""
    Requests <- EveryRequest
    Advisable <- AdviceActions
    MaxRetries = 1
    GateRetries = 2
    MaxRetrievalRetries = 1
    MaxReplans = 1
    MaxInterventions = 1
    MaxGenerations = 2
    MaxVersion = 1
INVARIANTS
    OutputHasResult
    ReportedResultIsFresh
    ActsOnJudgedPlan
PROPERTIES
    Terminates
    KeepsContract
CHECK_DEADLOCK FALSE
