\* A router port is deleted from the switch of a member.
CONSTANTS
    lb1 = lb1  lb2 = lb2  s1 = s1  s2 = s2  ext = ext  r1 = r1  r2 = r2  m1 = m1  m2 = m2
    Lb = {lb1, lb2}
    Switch = {s1, s2}
    Router = {r1}
    Member = {m1}
    External = {}
    VipSwitch <- MCVipSwitch
    LbOf <- MCLbOf
    SwitchOf <- MCSwitchOf
    MaxEvents = 2
    Detaches = TRUE
    Deletes = TRUE
    Worlds = {"calm"}
SPECIFICATION Spec
INVARIANTS
    ReferencedIsAssociated
