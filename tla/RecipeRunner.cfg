SPECIFICATION FairSpec
CONSTANTS
    Steps <- CaptureAndCheck
    Finally <- SettleAndOff
    MaxCancels = 2
    CancelsIn = {"steps", "cleanup"}
    Faults <- AllFaults
INVARIANT TypeOK
 
INVARIANT OneLateStep
INVARIANT OffSticks
INVARIANT Backstop
 
PROPERTY RunEnds
