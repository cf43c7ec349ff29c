SPECIFICATION FairSpec
CONSTANTS
    MaxConns = 2
    MaxRuns = 2
    MaxOutput = 1
    Files = {f1, f2}
    Overlap = FALSE
    Attentive = TRUE
    Vanishing = {f1, f2}
PROPERTIES
    BuildFinishes
\* The system stops when the user runs nothing more.
CHECK_DEADLOCK FALSE
