SPECIFICATION FairSpec
CONSTANTS
    Unit = {u1}
    Ordinary = {u1}
    Slice = {x1}
    Operation = {o1, o2}
    MaxExponent = 2
    MaxFaults = 1
CHECK_DEADLOCK FALSE
INVARIANT TypeOK
PROPERTIES ShutdownEnds RestartServed
