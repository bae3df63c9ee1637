\* A member on the switch of another load balancer and one on its own's, two routers
\* and a provider network; calm and busy worlds.
CONSTANTS
    lb1 = lb1  lb2 = lb2  s1 = s1  s2 = s2  ext = ext  r1 = r1  r2 = r2  m1 = m1  m2 = m2
    Lb = {lb1, lb2}
    Switch = {s1, s2, ext}
    Router = {r1, r2}
    Member = {m1, m2}
    External = {ext}
    VipSwitch <- MCVipSwitch
    LbOf <- MCLbOf
    SwitchOf <- MCSwitchOf
    MaxEvents = 1
    Detaches = TRUE
    Deletes = TRUE
    Worlds = {"calm", "busy"}
SPECIFICATION Spec
INVARIANTS
    TypeOK
    RefsCount
    RouterRefsAgree
    StaysAssociated
    RouterCovered
    RouterNeeded
