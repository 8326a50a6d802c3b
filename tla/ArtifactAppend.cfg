\* The smallest campaign with a killed run and a resumed one: what a resumed run appends to.
SPECIFICATION Spec
CONSTANTS
    q1 = q1
    q2 = q2
    q3 = q3
    whole = whole
    preview = preview
    None = None
    Cases = {q1, q2, q3}
    t1 = t1
    t2 = t2
    Workers = {t1}
    Configs = {whole, preview}
    Selected <- Selections
    Splits = {q3}
    MaxStarts = 2
    MaxErrors = 0
CHECK_DEADLOCK FALSE
PROPERTIES
    RowsAreLines
