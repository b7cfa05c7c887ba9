SPECIFICATION Spec
CONSTANTS
    Evidence = {"lag", "offset"}
    EnvCap <- V1EnvCap
    TierCap <- V1TierCap
    DeniedRoles = {"SOURCE_TOPIC"}
    MinConfidence = 60
    CapTo <- V1CapTo
    Surveyed = {}
    Instances = {i1, i2}
    Fingerprints = {f1}
    Inputs <- AllInputs
    Ttl <- Windows
    MaxFaults = 1
    MaxCrashes = 1
    None = None
SYMMETRY Symmetric
INVARIANTS PagesJustified DurableBeforeDispatch OneNoticePerCase
PROPERTY OneGrantPerInstance
