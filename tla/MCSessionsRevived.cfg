\* The same instance: a frame of an authenticated socket touches an expired session.
CONSTANTS
    s1 = s1
    w1 = w1
    w2 = w2
    Session = {s1}
    Socket = {w1, w2}
    IdleTimeout = 2
    MaxLifetime = 5
    ReapPeriod = 3
    CheckPeriod = 2
    NoSession = NoSession
SPECIFICATION Spec
PROPERTIES ExpiredStaysExpired
CHECK_DEADLOCK FALSE
