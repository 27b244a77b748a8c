SPECIFICATION FairSpec
CONSTANTS
    MAXCLIENT = 1
    Conn = {c1, c2}
    NULL = NULL
    FIFO_BUFSIZE = 2
    Serial = {"byte"}
    Yes = "reply"
    Once = {}
    Resets = {c1, c2}
PROPERTY
    DeadSlotsAreReaped
