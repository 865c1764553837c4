SPECIFICATION TasksSpec
CONSTANTS
    Main = main
    Workers = {w1, w2}
    Channels = {c1}
    Capacity = 2
    MaxSends = 3
    MaxSelects = 2
INVARIANTS
    NoneStranded
    Conserved
    StopsSoon
PROPERTIES
    ImplementsFifo
    RunEnds
CHECK_DEADLOCK FALSE
