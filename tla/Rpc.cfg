SPECIFICATION FairSpec
CONSTANTS
    Kind <- RpcCalls
    MaxInFlight = 1
    QueueSize = 1
    InboxSize = 1
    Buffer = 1
    Published = 3
    Faults <- AllFaults
INVARIANT TypeOK
INVARIANT FreshInOrder
INVARIANT EventsAccounted
INVARIANT NothingOutlives
PROPERTY RequestsGetIn
PROPERTY GoneIsNoticed
