SPECIFICATION LiveSpec
CONSTANTS
    Cases = {c1, c2}
    Hashes = {h1}
    Producers = {p1}
    Workers = {w1}
    Role <- AllReady
    BatchSize = 1
    MaxRetry = 1
    BaseSeconds = 1
    MaxSeconds = 1
    Horizon = 1
    MaxFaults = 0
    None = None
INVARIANTS LoneWorkerSurvives 
PROPERTIES DeliveryResolves
