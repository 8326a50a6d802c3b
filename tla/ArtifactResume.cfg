\* Three runs of one campaign, the first two killed anywhere, one append that raises.
SPECIFICATION FairSpec
CONSTANTS
    q1 = q1
    q2 = q2
    q3 = q3
    whole = whole
    preview = preview
    None = None
    Cases = {q1, q2, q3}
    t1 = t1
    t2 = t2
    Workers = {t1, t2}
    Configs = {whole, preview}
    Selected <- Selections
    Splits = {q3}
    MaxStarts = 3
    MaxErrors = 1
CHECK_DEADLOCK FALSE
INVARIANTS
    CaseOnce
    MirrorsMatch
    SummaryIsOwn
PROPERTIES
    KeepsContract
    ResumeCompletes
