\* Batch updates through two API workers.
CONSTANTS
    w1 = w1  w2 = w2  p1 = p1  p2 = p2  m1 = m1  m2 = m2  m3 = m3
    Worker = {w1, w2}
    Pool = {p1}
    Member = {m1, m2}
    PoolOf <- MCPoolOf
    Deployments <- MCBatch
    MaxQueue = 4
    MaxAttempts = 2
SPECIFICATION Spec
SYMMETRY MCWorkerSymmetry
INVARIANTS
    SyncWhenIdle
