\* Three objects, with a descriptor and a file for each: the limits are reached.
CONSTANTS
    Objects = {o1, o2, o3}
    Fds = {f1, f2, f3}
    Conns = {c1, c2, c3}
    Invalid = Invalid
    Free = Free
SPECIFICATION SdSpec
SYMMETRY Symmetry
INVARIANTS
    OwnConnection
    NoLeak
