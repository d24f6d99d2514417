CONSTANTS
    Charts <- MCCharts
    InitialHeap <- MCHeap
    Defaults <- MCDefaults
    Props <- MCProps
    MaxCalls = 4
SPECIFICATION Spec
INVARIANTS
    UserValuesWin
    CallsRepeat
    LeaksAreNamed
CHECK_DEADLOCK FALSE
