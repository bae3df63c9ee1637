\* The first database call of a handler may fail, the database may lose something, and
\* the tool runs at any time.
CONSTANTS
    tcp = tcp  l1 = l1  p1 = p1  m1 = m1  r1 = r1
    Row = {r1}
    Protocol = {tcp}
    Listener = {l1}
    Pool = {p1}
    Member = {m1}
    ProtocolOf <- MCProtocolOf
    PoolOf <- MCPoolOf
    NoProtocol = NoProtocol
    None = None
    Failures = {"txn"}
    CreateStates = {TRUE, FALSE}
    AttachAtPoolCreate = TRUE
SPECIFICATION SyncSpec
CHECK_DEADLOCK FALSE
INVARIANTS
    SyncTypeOK
    SyncServes
    SyncForgets
PROPERTIES
    SyncKeepsServing
