SPECIFICATION Spec
CONSTANTS
    a1 = a1
    a2 = a2
    a3 = a3
    None = None
    Captures <- Three
    Stem <- OneLabel
    External <- ByTool
    MaxSessions = 2
    MaxEvents = 3
    BatchSize = 2
    MaxFaults = 1
    Supplies <- One
    Clients <- Pair
    Scans <- Pair
    Callers <- Pair
    Addresses <- Stations
    Gatewayed <- OneGateway
    BusFrames = 4
    Capacity = 2
    MaxFrames = 3
    Count = 2
    Configurers <- A1
    Chunks = 4
    Budget = 3
    MaxReaders = 3
    Overlap = FALSE
    MaxVersion = 2
    MaxLeases = 2
    MaxJobs = 2
    MaxRestarts = 1
    MaxTimeouts = 1
    Senders <- Pair
    Bodies <- ThreeThenTwo
    Opening <- OpeningBytes
    OtherIds <- OneGroup
    Calls <- Pair
    Tools <- EspTool
    Images <- Stations
    McpRequests <- Three
    Used <- OneTool
    Slots = 2
    MaxClients = 2
    Devices <- Two
    OnDisk <- SmallRecipes
    GlobalLimits <- UnitLimits
    DeviceLimits <- OwnLimits
    Denied <- NoClass
    Setpoints <- OneVolt
    MaxSteps = 4
    MaxDepth = 1
    ClassLists <- ArmLists
    Ttls <- Ttl136
    HoldFor = 5
    Floor = 1
    MaxLate = 4
    MaxTime = 10
INVARIANT TypesOK
 
INVARIANT DevicesAccounted
 
 
 
 
INVARIANT OnlyWhatWasAsked
INVARIANT ToldOnce
 
INVARIANT ConfirmedFirst
INVARIANT HoldIsADeadMan
 
CHECK_DEADLOCK FALSE
