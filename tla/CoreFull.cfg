\* Everything is created enabled or disabled; no database call fails.
CONSTANTS
    tcp = tcp  udp = udp  l1 = l1  l2 = l2  p1 = p1  p2 = p2
    m1 = m1  m2 = m2  r1 = r1  r2 = r2
    Row = {r1, r2}
    Protocol = {tcp, udp}
    Listener = {l1, l2}
    Pool = {p1, p2}
    Member = {m1}
    ProtocolOf <- MCProtocolOf
    PoolOf <- MCPoolOf
    NoProtocol = NoProtocol
    None = None
    Failures = {}
    CreateStates = {TRUE,FALSE}
    AttachAtPoolCreate = TRUE
SPECIFICATION HSpec
SYMMETRY MCRowSymmetry
CHECK_DEADLOCK FALSE
INVARIANTS
    TypeOK
    VipsFresh
    ServedIsConfigured
    DeletedPoolForgotten
    UsuallyServed
