CONSTANTS
    Byte <- MCByte
    MIN_FRAME_LEN = 18
    MAX_FRAME_LEN = 2048
    PktIds = {1}
    AppSerial <- MCAppSerial
    DevSerial <- MCDevSerial
    Passwords = {}
    Words = {}
    Counters = {}
    MaxRecords = 0
    LogSizes = {2}
    MaxFragments = 2
    Endings = {"closed"}
SPECIFICATION Spec
INVARIANTS
    EventLogFaithful
