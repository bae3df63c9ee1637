\* Two workers with calls of one status each, statuses refused and processes
\* restarted, and one worker with every call.
\* A call that was lost stops everything: hence no check for deadlock.
CONSTANTS
    w1 = w1  w2 = w2  p1 = p1  p2 = p2  m1 = m1  m2 = m2  m3 = m3
    Worker = {w1, w2}
    Pool = {p1, p2}
    Member = {m1, m2, m3}
    PoolOf <- MCPoolOf
    Deployments <- MCDeployments
    MaxQueue = 6
    MaxAttempts = 2
SPECIFICATION FairSpec
CHECK_DEADLOCK FALSE
INVARIANTS
    TypeOK
    OneHandlerAtATime
    InSync
    SyncWhenIdle
PROPERTIES
    Answered
    KeepsPromise
