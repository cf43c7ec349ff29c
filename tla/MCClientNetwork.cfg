SPECIFICATION Spec
CONSTANTS
    c1 = c1  c2 = c2  NoConn = NoConn
    Conns = {c1, c2}
    Units = 1
    Batch = 1
    MaxSend <- First
    MaxRecv <- First
INVARIANTS
    TypeOK NotificationOrder MessageAccounting NoSilentLoss NetSurvives
    NothingLeftOpen
\* The system stops after shutdown.
CHECK_DEADLOCK FALSE
