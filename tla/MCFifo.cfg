SPECIFICATION Spec
CONSTANTS
    FIFO_BUFSIZE = 4
    Byte = {0, 255}
    Inputs <- MCInputs
INVARIANTS
    TypeOK
    Coherent
PROPERTY
    IsBoundedQueue
