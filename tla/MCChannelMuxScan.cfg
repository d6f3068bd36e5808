\* A page waits for a disk usage scan that times out.
CONSTANTS
    w1 = w1
    w2 = w2
    p1 = p1
    p2 = p2
    Socket = {w1}
    Prefix = {p1, p2}
    PrefixOf <- OneSocket
    Channel <- ScanChannels
    Payload <- ScanPayload
    MaxChannels = 2
    Cap = 1
    NoSocket = NoSocket
SPECIFICATION FairSpec
PROPERTY ScanEndIsTold
CHECK_DEADLOCK FALSE
