SPECIFICATION Spec
CONSTANTS
    MaxConns = 3
    MaxRuns = 3
    MaxOutput = 0
    Files = {f1, f2}
    Overlap = FALSE
    Attentive = TRUE
    Vanishing = {f1, f2}
SYMMETRY Symmetry
INVARIANTS
    TypeOK
    OneToken
    ClientObeysServer
    BuildSeesItsFiles
    ExecuteOnce
    NoOrphans
    NoneNeverUsed
\* The system stops when the user runs nothing more.
CHECK_DEADLOCK FALSE
