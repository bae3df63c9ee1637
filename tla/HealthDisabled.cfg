\* Members are disabled and enabled again; no call fails.
CONSTANTS
    p1 = p1  p2 = p2  m1 = m1  m2 = m2  m3 = m3  a1 = a1  a2 = a2  a3 = a3
    i1 = i1  i2 = i2  i3 = i3  s1 = s1  s2 = s2
    Pool = {p1, p2}
    Member = {m1, m2, m3}
    Addr = {a1, a2, a3}
    Ip = {i1, i2, i3}
    Subnet = {s1, s2}
    PoolOf <- MCPoolOf
    AddrOf <- MCAddrOf
    IpOf <- MCIpOf
    SubnetOf <- MCSubnetOf
    Located = {i1, i2, i3}
    Texts <- MCTexts
    Overlap = FALSE
    Updates = {"enable", "disable"}
    Failures = {}
    MaxEvents = 1
SPECIFICATION Spec
INVARIANTS
    EnabledIsServed
