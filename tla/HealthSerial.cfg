\* Two monitors, three members, two of them at one IP address, one at an address no port
\* has; ports may not be had, a health check may not be added.
\* A failure may leave the load balancer locked for ever: hence no check for deadlock.
CONSTANTS
    p1 = p1  p2 = p2  m1 = m1  m2 = m2  m3 = m3  a1 = a1  a2 = a2  a3 = a3
    i1 = i1  i2 = i2  i3 = i3  s1 = s1  s2 = s2
    Pool = {p1, p2}
    Member = {m1, m2, m3}
    Addr = {a1, a2, a3}
    Ip = {i1, i2}
    Subnet = {s1, s2}
    PoolOf <- MCPoolOf
    AddrOf <- MCAddrOf
    IpOf <- MCSharedIpOf
    SubnetOf <- MCSubnetOf
    Located = {i1}
    Texts <- MCTexts
    Overlap = FALSE
    Updates = {"enable"}
    Failures = {"port", "lbhc"}
    MaxEvents = 1
SPECIFICATION FairSpec
CHECK_DEADLOCK FALSE
INVARIANTS
    TypeOK
    HealthFollowed
    NeverTooGood
    StatusComplete
PROPERTIES
    ProbedStays
    DownIsTold
