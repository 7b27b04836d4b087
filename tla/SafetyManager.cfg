SPECIFICATION Spec
CONSTANTS
    Devices = {d1, d2}
    Conns = {c1, c2}
    GrantIds = {g1}
    LeaseIds = {l1, l2}
    Classes = {Power, Control}
    Actions = {output, other}
    OutputClass = Power
    OutputAction = output
    AllScope = all
    Sources = {human, claude}
    Humans = {human}
    Denied = {}
    MaxTtl <- MCMaxTtl
    Ttls = {1, 2}
    EstopRequiresAck = TRUE
    Free = Free
    Horizon = 3
SYMMETRY MCSymmetry
INVARIANT TypeOK
INVARIANT EstopHoldsNothing
PROPERTY DeadManHandle
PROPERTY ImplementsAuthority
