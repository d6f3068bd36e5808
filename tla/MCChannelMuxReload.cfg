\* The page of one session is reloaded while its stream runs.
CONSTANTS
    w1 = w1
    w2 = w2
    p1 = p1
    p2 = p2
    Socket = {w1, w2}
    Prefix = {p1, p2}
    PrefixOf <- OneSession
    Channel <- ReloadChannels
    Payload <- ReloadPayload
    MaxChannels = 2
    Cap = 1
    NoSocket = NoSocket
SPECIFICATION Spec
INVARIANT NoInterleaving
CHECK_DEADLOCK FALSE
