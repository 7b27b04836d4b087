SPECIFICATION Spec
CONSTANTS
    Devices = {d1}
    Leases = {r1}
    Conns = {c1}
    Free = Free
    EstopRequiresAck = TRUE
    Faults <- HandlerFaults
INVARIANT NoAbandonedOutput
