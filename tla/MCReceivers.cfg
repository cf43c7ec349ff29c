SPECIFICATION MCSpec
CONSTANTS
    N = 6
    HeaderLen = 4
    Length <- MCLength
    Start <- MCStart
    ReadBufferSize = 10
    RecvSize = 10
    Null = Null
    None = None
INVARIANTS
    TypeOK NothingHeldBack NothingLeftOver
PROPERTIES
    GiveBytesTakes StreamSpec QueueSpec
\* The system stops when every byte has been read.
CHECK_DEADLOCK FALSE
