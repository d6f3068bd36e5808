\* Two sessions; one channel each at a time, so a further Open is refused; every queue
\* holds one message, so every producer meets a full one.
CONSTANTS
    w1 = w1
    w2 = w2
    p1 = p1
    p2 = p2
    Socket = {w1, w2}
    Prefix = {p1, p2}
    PrefixOf <- TwoSessions
    Channel <- MixedChannels
    Payload <- MixedPayload
    MaxChannels = 1
    Cap = 1
    NoSocket = NoSocket
SPECIFICATION Spec
INVARIANTS TypeOK AnswersInOrder RoutesAreServed NoInterleaving
CHECK_DEADLOCK FALSE
