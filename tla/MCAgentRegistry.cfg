\* Two dials of h1, the second a re-enrolment, and one of h2; one browser socket and
\* one REST call; a socket may cache one agent, so the limit is reached.
CONSTANTS
    h1 = h1
    h2 = h2
    c1 = c1
    c2 = c2
    c3 = c3
    w1 = w1
    p1 = p1
    r1 = r1
    Host = {h1, h2}
    Conn = {c1, c2, c3}
    HostOf <- MCHostOf
    ReEnrolling = {c2}
    Socket = {w1}
    Prefix = {p1}
    PrefixOf <- MCPrefixOf
    Rpc = {r1}
    MaxRemoteAgents = 1
    NoConn = NoConn
    NoSub = NoSub
SPECIFICATION Spec
INVARIANTS TypeOK RegisteredIsServed CachedIsSubscribed CacheBounded 
PROPERTY ImplementsHostPresence
CHECK_DEADLOCK FALSE
