SPECIFICATION Spec
CONSTANTS
    Devices = {d1}
    Leases = {r1, r2}
    Conns = {c1, c2}
    Free = Free
    EstopRequiresAck = TRUE
    Faults <- AllFaults
SYMMETRY MCSymmetry
INVARIANT TypeOK
INVARIANT RailAccounted
INVARIANT OvertakenIsNoticed
INVARIANT StoppedBench
INVARIANT PipelineInv
