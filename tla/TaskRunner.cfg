SPECIFICATION FairSpec
CONSTANTS
    cp1 = cp1
    cp2 = cp2
    cp3 = cp3
    w1 = w1
    Hosts <- const_Hosts
    Tasks <- const_Tasks
CHECK_DEADLOCK FALSE
INVARIANTS Barrier SequentialStops
PROPERTIES Terminates Implements
