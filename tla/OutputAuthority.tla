---------------------------- MODULE OutputAuthority ----------------------------
(***************************************************************************)
(* What fielddeck/safety promises the rest of the daemon, with the clock   *)
(* abstracted away: which devices an operator has authorized energising,   *)
(* which output leases exist, and what the emergency-stop latch does to    *)
(* both.  Dispatcher composes these operations with the action pipeline;   *)
(* SafetyManager, which has the clock, the grant records and the TTL       *)
(* arithmetic, is shown to implement AuthSpec.                             *)
(***************************************************************************)

CONSTANTS
    Devices,            \* registered devices that have an output
    Leases,             \* lease identifiers
    Conns,              \* client connections
    Free,               \* a lease identifier that is not in use
    EstopRequiresAck    \* config: estop_requires_ack

ASSUME FreeAssumption == Free \notin [dev : Devices, conn : Conns]
ASSUME EstopRequiresAckAssumption == EstopRequiresAck \in BOOLEAN

VARIABLES
    estop,      \* the latch of EstopController
    armed,      \* devices some active grant authorizes energising
    held,       \* held[l]: the device and owner connection of lease l, or Free
    lapsed      \* leases whose deadline has passed and that are not reaped yet

authVars == <<estop, armed, held, lapsed>>

Holding == [dev : Devices, conn : Conns]

AuthTypeOK ==
    /\ estop \in BOOLEAN
    /\ armed \in SUBSET Devices
    /\ held \in [Leases -> Holding \cup {Free}]
    /\ lapsed \in SUBSET {l \in Leases : held[l] # Free}

HeldLeases == {l \in Leases : held[l] # Free}
LeasesOf(d) == {l \in HeldLeases : held[l].dev = d}
OwnedBy(c) == {l \in HeldLeases : held[l].conn = c}

(* authorize() for an action that energises d.                             *)
MayEnergise(d) == ~estop /\ d \in armed

(* Mutant: a dropped lease is still due for the sweep.                     *)
DropStillDue(ls) ==
    /\ held' = [l \in Leases |-> IF l \in ls THEN Free ELSE held[l]]
    /\ UNCHANGED lapsed

(* Every way a set of leases leaves the lease table.                       *)
Drop(ls) ==
    /\ held' = [l \in Leases |-> IF l \in ls THEN Free ELSE held[l]]
    /\ lapsed' = lapsed \ ls

--------------------------------------------------------------------------------
AuthInit ==
    /\ estop = FALSE
    /\ armed = {}
    /\ held = [l \in Leases |-> Free]
    /\ lapsed = {}

Arm(ds) ==
    /\ ~(estop /\ EstopRequiresAck)
    /\ armed' = armed \cup ds
    /\ UNCHANGED <<estop, held, lapsed>>

Disarm(ds) ==
    /\ armed' = armed \ ds
    /\ UNCHANGED <<estop, held, lapsed>>

(* Time passes: some grants stop being active and some leases reach their  *)
(* deadline.                                                               *)
Elapse(ds, ls) ==
    /\ armed' = armed \ ds
    /\ lapsed' = lapsed \cup (ls \cap HeldLeases)
    /\ UNCHANGED <<estop, held>>

Acquire(l, d, c) ==
    /\ MayEnergise(d)
    /\ held[l] = Free
    /\ held' = [held EXCEPT ![l] = [dev |-> d, conn |-> c]]
    /\ UNCHANGED <<estop, armed, lapsed>>

Release(l) ==
    /\ held[l] # Free
    /\ Drop({l})
    /\ UNCHANGED <<estop, armed>>

(* Switching an output off surrenders the leases that are still active.    *)
ReleaseDevice(d) ==
    /\ Drop(LeasesOf(d) \ lapsed)
    /\ UNCHANGED <<estop, armed>>

TakeForConnection(c) ==
    /\ Drop(OwnedBy(c))
    /\ UNCHANGED <<estop, armed>>

Reap ==
    /\ lapsed # {}
    /\ Drop(lapsed)
    /\ UNCHANGED <<estop, armed>>

EngageEstop ==
    /\ estop' = TRUE
    /\ armed' = {}
    /\ Drop(HeldLeases)

AcknowledgeEstop ==
    /\ estop' = FALSE
    /\ UNCHANGED <<armed, held, lapsed>>

(* SafetyManager.reset at daemon start: nothing survives a restart, the    *)
(* latch included.                                                         *)
AuthReset ==
    /\ estop' = FALSE
    /\ armed' = {}
    /\ Drop(HeldLeases)

AuthNext ==
    \/ \E ds \in SUBSET Devices : Arm(ds) \/ Disarm(ds)
    \/ \E ds \in SUBSET Devices, ls \in SUBSET Leases : Elapse(ds, ls)
    \/ \E l \in Leases, d \in Devices, c \in Conns : Acquire(l, d, c)
    \/ \E l \in Leases : Release(l)
    \/ \E d \in Devices : ReleaseDevice(d)
    \/ \E c \in Conns : TakeForConnection(c)
    \/ Reap
    \/ EngageEstop
    \/ AcknowledgeEstop
    \/ AuthReset

AuthSpec == AuthInit /\ [][AuthNext]_authVars
================================================================================
