SPECIFICATION Spec
CONSTANTS
    Places = {"p1", "p2"}
    Topics = {"t1", "t2", "t3"}
    Groups = {"g1"}
    Streams = {"s1", "s2"}
    Systems = {"y1"}
    Keys = {"k1", "k2", "k3"}
    DefaultPlace = "p1"
    FailOnUnknownRole = FALSE
    None = None
    Needs <- V1Needs
    RequiredBuckets = 2
    EvaluationInterval = 2
    PeakPercentile = 50
    NearPeakPercentile = 75
    RoundsUp = {}
    Volumes = {1, 2, 3}
    Histories <- PastVolumes
    Contents <- RegistryFiles
    Garbled = {"garbled"}
    Reports <- Reported
    ForeignPlaces = {"p2"}
    CycleInterval = 1
    CacheInterval = 2
    Activation = 1
    Horizon = 2
    MaxEdits = 1
    MaxCrashes = 1
    MaxFaults = 1
INVARIANTS SustainedAsObserved RoutedAsWritten RegistryFollowsFile CompatViewLoads OutageReportedOnce MissedIntervalsCounted PeakAsRanked
CHECK_DEADLOCK FALSE
