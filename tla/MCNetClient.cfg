SPECIFICATION FairSpec
CONSTANTS
    MAXCLIENT = 2
    Conn = {c1, c2}
    NULL = NULL
    FIFO_BUFSIZE = 2
    Serial = {"byte", "mark"}
    Yes = "reply"
    Once = {"mark"}
    Resets = {c2}
INVARIANTS
    TypeOK
    SentcbFindsSlot
    OneSlotPerSession
    SendingMeansUnderWay
    NothingAfterALoss
    SerialBytesMove
PROPERTY
    ReaperIsExact
    BroadcastIsDelivered
    ClosedSlotsAreReaped
