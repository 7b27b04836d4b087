SPECIFICATION Spec
CONSTANTS
    Slots = {h1}
    Safe = safe
    Idle = idle
    Jobs <- SwitchingJobs
    ChannelCount = 2
    Selects = TRUE
    Declared = FALSE
    MaxUnread = 2
    MaxStray = 1
    Faults = {"io"}
INVARIANT SafeReportIsTrue
