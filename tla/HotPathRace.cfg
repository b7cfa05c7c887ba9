SPECIFICATION Spec
CONSTANTS
    Evidence = {"lag", "offset"}
    EnvCap <- V1EnvCap
    TierCap <- V1TierCap
    DeniedRoles = {"SOURCE_TOPIC"}
    MinConfidence = 60
    CapTo <- V1CapTo
    Surveyed = {}
    Instances = {i1, i2}
    Fingerprints = {f1}
    Inputs <- EarlyOrUrgent
    Ttl <- Windows
    MaxFaults = 0
    MaxCrashes = 0
    None = None
PROPERTY OneGrantPerWindow
