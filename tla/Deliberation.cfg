\* Two turns of three sessions, over a fresh engine, a fearful one and an elated one.
CONSTANTS
    Settled <- MCSettled
    Requests <- MCRequests
    ProfileOf <- ClassifyLexicon
    Founds <- MCFounds
    Policy <- MCPolicy
    Registry <- MCRegistry
    InitialHistories <- MCHistories
    InitialMemories <- MCMemories
    Answer <- MCAnswer
    MaxTurns = 2
SPECIFICATION Spec
INVARIANTS MoodIsOwn NothingFoundIsRetried DenialIsFromConstraints ReplanIsKept ProcedureIsVerified
PROPERTY RepeatNeedsRecurrence
