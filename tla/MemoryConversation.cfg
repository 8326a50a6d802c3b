\* A turn and two questions over a repository that already holds a memory: the second question
\* may follow one that failed before or after its own memory was stored.
SPECIFICATION FairSpec
CONSTANTS
    t1 = t1
    q1 = q1
    q2 = q2
    old = old
    Nothing = Nothing
    Turns <- TurnOrder
    Questions <- QuestionOrder
    Stored = {old}
    Words <- Keywords
    Boilerplate = {"related"}
    Modes <- AllModes
    Batch = 2
    Retries = 1
    MaxAbstractions = 2
    Capacity = 1
    MaxFaults = 2
CHECK_DEADLOCK FALSE
INVARIANTS
    LineageClosed
    GraphDerived
    QuestionAtRest
PROPERTIES
    NoUpdateLost
    EveryMemoryMaintained
