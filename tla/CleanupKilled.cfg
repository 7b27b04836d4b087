SPECIFICATION Spec
CONSTANTS
    Steps <- SupplySteps
    Finally <- SwitchOff
    MaxCancels = 1
    CancelsIn = {"cleanup"}
    Faults <- NoFaults
INVARIANT FinallyRuns
