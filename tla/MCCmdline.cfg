SPECIFICATION MCSpec
CONSTANTS
    WordChar = {"f"}
    OtherChar = {" "}
    LINESIZE = 3
    HISTSIZE = 8
    MAXARGV = 3
    Keys = {"f", " ", "^@", "^A", "^B", "^D", "^E", "^F", "^H", "^K", "^N", "^P", "^U", "^W",
            "^X", "^Y", "ESC", "ENTER"}
    PrefixedKeys = {"f", "b", "d", "^H", "^X", "^A"}
    BITS = 8
    LONG_MAX = 127
INVARIANTS
    TypeOK
    ScreenShowsLine
    MarkInLine
    RingIsHistory
    ArgumentsAreWords
    NumbersAreRead
    NumbersArePrinted
PROPERTIES
    KillIsYankable
    RecallsTheLine
