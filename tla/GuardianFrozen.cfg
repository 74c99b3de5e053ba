SPECIFICATION Spec
CONSTANTS
    Unit = {u1, u2}
    Ordinary = {}
    Slice = {x1}
    Operation = {}
    MaxExponent = 1
    MaxFaults = 1
CHECK_DEADLOCK FALSE
INVARIANT FrozenWhileProtecting
