\* A member request while the row holds a disabled listener or pool.
CONSTANTS
    tcp = tcp  udp = udp  l1 = l1  l2 = l2  p1 = p1  p2 = p2
    m1 = m1  m2 = m2  r1 = r1  r2 = r2
    Row = {r1, r2}
    Protocol = {tcp, udp}
    Listener = {l1}
    Pool = {p1}
    Member = {m1}
    ProtocolOf <- MCProtocolOf
    PoolOf <- MCPoolOf
    NoProtocol = NoProtocol
    None = None
    Failures = {}
    CreateStates = {TRUE,FALSE}
    AttachAtPoolCreate = TRUE
SPECIFICATION Spec
SYMMETRY MCRowSymmetry
CHECK_DEADLOCK FALSE
INVARIANTS
    EveryRequestAnswered
