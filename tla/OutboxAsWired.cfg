SPECIFICATION WiredSpec
CONSTANTS
    Cases = {c1}
    Hashes = {h1}
    Producers = {p1}
    Workers = {w1}
    Role <- AllInsert
    BatchSize = 1
    MaxRetry = 1
    BaseSeconds = 1
    MaxSeconds = 1
    Horizon = 1
    MaxFaults = 0
    None = None
PROPERTIES EveryRowPromoted
