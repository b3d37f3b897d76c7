CONSTANTS
    Byte <- MCByte
    MIN_FRAME_LEN = 18
    MAX_FRAME_LEN = 2048
    PktIds <- MCPktIds
    AppSerial <- MCAppSerial
    DevSerial <- MCDevSerial
    Passwords <- MCPasswords
    Words <- MCWords
    Counters <- MCCounters
    MaxRecords = 2
    LogSizes <- MCLogSizes
    MaxFragments = 1
    Endings = {"closed", "open", "refused", "aborted"}
SPECIFICATION Spec
INVARIANTS
    RequestHeard
    RoundTrip
    ReadingsFaithful
    PublishedAsAnnounced
    RegistersReached
    EventLogPublished
