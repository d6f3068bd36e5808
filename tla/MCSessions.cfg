\* The lifetime outlasts the idle timeout, a session can expire both ways between two
\* passes of the reaper, and a socket's check falls between them.
CONSTANTS
    s1 = s1
    w1 = w1
    w2 = w2
    Session = {s1}
    Socket = {w1, w2}
    IdleTimeout = 2
    MaxLifetime = 5
    ReapPeriod = 3
    CheckPeriod = 2
    NoSession = NoSession
SPECIFICATION FairSpec
INVARIANTS TypeOK ExpiredIsReaped
PROPERTIES RemovedStaysRemoved SessionsEnd
CHECK_DEADLOCK FALSE
