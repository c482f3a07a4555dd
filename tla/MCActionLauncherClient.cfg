SPECIFICATION FairSpec
CONSTANTS
    a1 = a1
    a2 = a2
    a3 = a3
    a4 = a4
    a5 = a5
    a6 = a6
    Calls <- MCCalls
    Limit = 4
INVARIANTS
    TypeOK
    CounterExact
PROPERTIES
    GateSpec
    CounterDrains
CHECK_DEADLOCK FALSE
