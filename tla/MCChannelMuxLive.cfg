\* One page with two channels and queues of one message: a stream that floods them and
\* commands that are answered beside it.
CONSTANTS
    w1 = w1
    w2 = w2
    p1 = p1
    p2 = p2
    Socket = {w1}
    Prefix = {p1, p2}
    PrefixOf <- OneSocket
    Channel <- TaskChannels
    Payload <- TaskPayload
    MaxChannels = 2
    Cap = 1
    NoSocket = NoSocket
SPECIFICATION FairSpec
INVARIANT RoutesAreServed
PROPERTIES OpenIsAnswered ClosedStreamStops
CHECK_DEADLOCK FALSE
