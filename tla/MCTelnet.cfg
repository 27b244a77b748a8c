SPECIFICATION Spec
CONSTANTS
    Alphabet = {0, 10, 13, 240, 246, 250, 251, 252, 253, 254, 255}
    MaxBytes = 6
INVARIANTS
    TypeOK
    SerialIsDecodedText
    RepliesAreOwed
CHECK_DEADLOCK FALSE
