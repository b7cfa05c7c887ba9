SPECIFICATION Spec
CONSTANTS
    Cases = {c1}
    Hashes = {h1}
    Producers = {p1}
    Workers = {w1, w2}
    Role <- AllReady
    BatchSize = 1
    MaxRetry = 1
    BaseSeconds = 1
    MaxSeconds = 1
    Horizon = 0
    MaxFaults = 0
    None = None
SYMMETRY Symmetric
INVARIANTS EveryWorkerSurvives
