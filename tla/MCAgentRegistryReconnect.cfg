\* Two dials of h1, the second an ordinary reconnect, and one of h2; one browser socket and
\* one REST call; a socket may cache one agent, so the limit is reached.
CONSTANTS
    h1 = h1
    h2 = h2
    c1 = c1
    c2 = c2
    c3 = c3
    w1 = w1
    p1 = p1
    r1 = r1
    Host = {h1, h2}
    Conn = {c1, c2, c3}
    HostOf <- MCHostOf
    ReEnrolling = {}
    Socket = {w1}
    Prefix = {p1}
    PrefixOf <- MCPrefixOf
    Rpc = {r1}
    MaxRemoteAgents = 1
    NoConn = NoConn
    NoSub = NoSub
SPECIFICATION Spec
INVARIANT ReconnectedIsOnline
CHECK_DEADLOCK FALSE
