CONSTANTS
    MaxLines = 4
    MaxParts = 3
    MaxQueued = 3
    MaxWait = 1
    MaxStuns = 1
    Ambushers = {1, 2}
    MobIds = {2, 3}
    Delay = 3
    MaxPlans = 4
SPECIFICATION Spec
CHECK_DEADLOCK FALSE
INVARIANTS
    QueuesTypeOK
    NoCommandTwice
    OverflowStaysEmpty
    
PROPERTIES
    
    LinesRun
    
