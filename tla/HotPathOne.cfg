SPECIFICATION LiveSpec
CONSTANTS
    Evidence = {"lag", "offset"}
    EnvCap <- V1EnvCap
    TierCap <- V1TierCap
    DeniedRoles = {"SOURCE_TOPIC"}
    MinConfidence = 60
    CapTo <- V1CapTo
    Surveyed <- BoundedInputs
    Instances = {i1}
    Fingerprints = {f1, f2}
    Inputs <- EarlyOrUrgent
    Ttl <- Windows
    MaxFaults = 0
    MaxCrashes = 1
    None = None
INVARIANT MatchesReference
PROPERTY FirstPageSent
