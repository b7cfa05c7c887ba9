SPECIFICATION Spec
CONSTANTS
    Cases = {c1}
    Workers = {w1, w2}
    Modes = {"LIVE"}
    Tasks = 1
    Errors <- TimeoutOrThrottled
    LookupLimit = 5
    Window = 2
    SloWindow = 1
    BaseSeconds = 1
    MaxSeconds = 2
    JitterPercent = 20
    Horizon = 2
    MaxCrashes = 0
    MaxLate = 1
    None = None
INVARIANTS NoDuplicateRecords
CHECK_DEADLOCK FALSE
