SPECIFICATION Spec
CONSTANTS
    Cases = {c1}
    Workers = {w1, w2}
    Modes <- AllModes
    Tasks = 1
    Errors <- TimeoutOrThrottled
    LookupLimit = 5
    Window = 1
    SloWindow = 0
    BaseSeconds = 1
    MaxSeconds = 2
    JitterPercent = 20
    Horizon = 1
    MaxCrashes = 1
    MaxLate = 1
    None = None
SYMMETRY Symmetric
INVARIANTS LinkedIsReal FileAgreesWithRow RetryInsideWindow EscalationFollowsVerdict RetryLoopMissesNothing SloConsistent
PROPERTIES FinalRowsStay ImplementsLinkageContract
CHECK_DEADLOCK FALSE
