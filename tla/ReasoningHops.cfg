\* Two notes a hop, three calls, one intervention. Every stop reason occurs but max_hops and
\* duplicate_query: the calls are used up before the hops, and no need repeats a query.
CONSTANTS
    Notes <- MCNotes
    Lexicon <- MCLexicon
    Similarity <- MCSimilarity
    Questions <- MCQuestions
    Modes = {"bypass", "single_pass", "adaptive"}
    ReflectionNotes <- MCReflectionNotes
    TopK = 2
    PoolSize = 3
    MaxPerSource = 1
    MaxExpansions = 2
    MaxHops = 4
    MaxCalls = 3
    MaxDocuments = 3
    MaxTokens = 7
    NoProgressLimit = 1
    MaxInterventions = 1
    MinConfidence = 600
SPECIFICATION FairSpec
INVARIANTS EvidenceIsOwn LoopWithinBudget
PROPERTY QuestionEnds
CHECK_DEADLOCK FALSE
