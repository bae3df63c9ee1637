\* Creation and deletion may fail; floating IPs come and go.  A deleted load balancer
\* stays so: hence no check for deadlock.
CONSTANTS
    tcp = tcp  udp = udp  h1 = h1  f1 = f1  f2 = f2  g1 = g1  g2 = g2
    Row = {tcp, udp}
    Monitor = {h1}
    RowOf <- MCRowOf
    Fip = {f1, f2}
    NoFip = NoFip
    Agent = {g1, g2}
    Failures = {"ports", "create", "delete", "copy"}
    Races = {}
    MaxEvents = 2
SPECIFICATION FairSpec
CHECK_DEADLOCK FALSE
INVARIANTS
    TypeOK
    FipServed
    ChecksFollow
    PortsFollowLb
PROPERTIES
    FipReachesRow
