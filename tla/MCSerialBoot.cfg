SPECIFICATION FairSpec
CONSTANTS
    RXFIFO = 4
    RXFIFO_FULL_THRHD = 2
    MAX_UARTBUFFER = 8
    UINT8_RANGE = 8
    recvTaskQueueLen = 3
    LateArrivals = 2
    MaxBytes = 3
    QuietBoot = FALSE
PROPERTY
    BytesAreHandled
