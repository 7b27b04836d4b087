SPECIFICATION FairSpec
CONSTANTS
    Devices = {d1}
    Leases = {r1, r2}
    Conns = {c1}
    Free = Free
    EstopRequiresAck = TRUE
    Faults <- AllFaults
PROPERTY LapseDrivesSafe
