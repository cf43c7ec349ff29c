SPECIFICATION Spec
CONSTANTS
    MaxConns = 2
    MaxRuns = 2
    MaxOutput = 1
    Files = {f1}
    Overlap = TRUE
    Attentive = TRUE
    Vanishing = {}
INVARIANT
    FileAfterAck
\* The system stops when the user runs nothing more.
CHECK_DEADLOCK FALSE
