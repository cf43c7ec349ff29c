SPECIFICATION FairSpec
CONSTANTS
    c1 = c1  c2 = c2  NoConn = NoConn
    Conns = {c1}
    Units = 2
    Batch = 2
    MaxSend <- Three
    MaxRecv <- First
PROPERTIES
    ShutdownFinishes SendsHappen MessagesArrive
\* The system stops after shutdown.
CHECK_DEADLOCK FALSE
