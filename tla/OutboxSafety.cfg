SPECIFICATION Spec
CONSTANTS
    Cases = {c1}
    Hashes = {h1, h2}
    Producers = {p1, p2}
    Workers = {w1, w2}
    Role <- ReadyAndHeader
    BatchSize = 1
    MaxRetry = 1
    BaseSeconds = 1
    MaxSeconds = 1
    Horizon = 0
    MaxFaults = 1
    None = None
SYMMETRY Symmetric
INVARIANTS SentMeansDelivered AttemptAccounting InvariantA LocalStateSound
PROPERTIES StateMachine ImplementsAtLeastOnce
