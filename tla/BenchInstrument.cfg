SPECIFICATION Spec
CONSTANTS
    Slots = {h1, h2}
    Safe = safe
    Idle = idle
    Jobs <- BenchJobs
    ChannelCount = 2
    Selects = TRUE
    Declared = FALSE
    MaxUnread = 2
    MaxStray = 1
    Faults <- AllFaults
SYMMETRY BenchSymmetry
INVARIANT TypeOK
INVARIANT LeftOnOnlyByFailure
INVARIANT SettersKeepApart
INVARIANT AnswersKeepApart
