SPECIFICATION FairSpec
CONSTANTS
    m1 = m1  m2 = m2  bye = bye  x = x  e1 = e1  e2 = e2
    NoMsg = NoMsg  Nobody = Nobody
    Reader = Reader  Callback = Callback
    Msgs <- MCMsgs
    Closing <- MCClosing
    Length <- MCLength
    ServerException = x
    Events = {e1, e2}
INVARIANTS
    TypeOK OneSendAtATime NoStrandedMessage LeakMeansDead
    CatchNeverThrows
PROPERTIES
    SendReturns LinkSpec
\* The system stops when every message has been sent, or the server is gone.
CHECK_DEADLOCK FALSE
