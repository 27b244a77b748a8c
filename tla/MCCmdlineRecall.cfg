SPECIFICATION Spec
CONSTANTS
    WordChar = {"a"}
    OtherChar = {" "}
    LINESIZE = 2
    HISTSIZE = 6
    Keys = {"a", " ", "^A", "^H", "^P", "^N", "ENTER"}
    PrefixedKeys = {}
PROPERTIES
    RecallsALine
