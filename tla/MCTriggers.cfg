SPECIFICATION MCSpec
CONSTANTS
    UpTime = 2
    DownTime = 3
    HeapTimes = {0, 7}
    MaxNow = 6
    MaxCrossings = 4
    s0 = s0
    s1 = s1
    s2 = s2
    s3 = s3
    u = u
    w = w
    none = none
    a = a
    b = b
    States <- MCStates
    Unions <- MCUnions
    Default = s0
    Loaded = s3
    UnionOf <- MCUnionOf
    Limits <- MCLimits
    NoUnion = none
    MaxTime = 6
    Codes = {a, b}
    Patterns <- MCPatterns
    max_size = 3
    MaxInputs = 9
INVARIANTS
    TriggersTypeOK
    EventMatchesMove
    FoundOnceAtOnce
PROPERTIES
    CyclesFull
    KeepsTimes
CHECK_DEADLOCK FALSE
