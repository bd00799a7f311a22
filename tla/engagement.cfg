CONSTANTS
    Users = {u1}
    Comments = {k1, k2}
    First = k1
    Conns = {c1, c2}
    NoOne = NoOne
    MaxEvents = 3
SPECIFICATION FairSpec
INVARIANTS
    CountsSound
PROPERTIES
    ItemSettles
CHECK_DEADLOCK FALSE
