\* The agent of the enrolled host and a new host that is approved.
CONSTANTS
    c1 = c1
    c2 = c2
    c3 = c3
    c4 = c4
    k1 = k1
    k2 = k2
    k3 = k3
    n1 = n1
    n2 = n2
    i1 = i1
    i2 = i2
    i3 = i3
    i4 = i4
    t1 = t1
    Conn = {c1, c3}
    Approval = {a1}
    Removal = {}
    Key = {k1, k2, k3}
    Name = {n1, n2}
    HostId = {i1, i2, i3, i4}
    Token = {t1}
    KeyOf <- MCKeyOf
    NameOf <- MCNameOf
    TokenOf <- MCTokenOf
    IpOf <- MCIpOf
    Loopback = {c1}
    MaxUses <- MCMaxUses
    BoundTo <- MCBoundTo
    ReEnroll = {t1}
    Enrolled <- File1
    MaxPending = 1
    MaxPerIp = 1
    None = None
SPECIFICATION Spec
INVARIANT ServedIsListed
CHECK_DEADLOCK FALSE
