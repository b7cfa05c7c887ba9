SPECIFICATION LiveSpec
CONSTANTS
    None = None
    Cases = {1}
    Bodies <- EveryReason
    Writers = {}
    Retention = 1
    Approved = TRUE
    PageSize = 4
    BatchSize = 4
    MaxFaults = 1
    Horizon = 0
    Tasks = {t1, t2, t3}
    Modes = {"OFF", "MOCK", "LIVE"}
    LiveAnswers = {"report", "LLM_TIMEOUT", "LLM_SCHEMA_INVALID", "LLM_UNAVAILABLE"}
    Window = 2
    Warning = 40
    Critical = 60
    Rules = {"warning", "critical"}
    MaxCrashes = 1
INVARIANTS EveryTaskCounted AlertsAtEdges HealthTellsLast
PROPERTIES CaseDiagnosed
CHECK_DEADLOCK FALSE
