SPECIFICATION Spec
CONSTANTS
    Name = {"VERSION", "HOSTNAME", "SSID", "TZ"}
    Value = {"2", "short", "long"}
    FLASHENV_VERSION_STRING = "VERSION"
    FLASHENV_VERSION = "2"
    NameLength <- MCNameLength
    ValueLength <- MCValueLength
    environ_init <- MCInit
    ENVSIZE = 16
    NULL = NULL
INVARIANT
    EnvironFits
