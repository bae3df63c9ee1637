\* Three load balancers in three workers, two addresses.
CONSTANTS
    l1 = l1  l2 = l2  l3 = l3  a1 = a1  a2 = a2  a3 = a3  none = none
    Lb = {l1, l2, l3}
    Address = {a1, a2}
    None = none
SPECIFICATION Spec
CONSTRAINT NotRaced
SYMMETRY MCAlike
INVARIANTS
    TypeOK
    NoLeftover
    SourceExists
