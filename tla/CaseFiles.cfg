SPECIFICATION Spec
CONSTANTS
    None = None
    Cases = {1}
    Bodies <- ReportOrTimeout
    Writers = {w1}
    Retention = 1
    Approved = TRUE
    PageSize = 2
    BatchSize = 2
    MaxFaults = 1
    Horizon = 1
    Tasks = {t1}
    Modes = {"LIVE"}
    LiveAnswers = {"report", "LLM_TIMEOUT"}
    Window = 2
    Warning = 40
    Critical = 60
    Rules = {"warning", "critical"}
    MaxCrashes = 0
INVARIANTS ChainHolds ConfirmedIsStored
PROPERTIES AppendOnly
CHECK_DEADLOCK FALSE
