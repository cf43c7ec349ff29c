SPECIFICATION Spec
CONSTANTS
    MaxConns = 1
    MaxRuns = 3
    MaxOutput = 0
    Files = {f1}
    Overlap = FALSE
    Attentive = FALSE
    Vanishing = {}
INVARIANT
    ExecuteWhenLastFileDone
\* The system stops when the user runs nothing more.
CHECK_DEADLOCK FALSE
