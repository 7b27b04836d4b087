----------------------------- MODULE SafetyManager -----------------------------
(***************************************************************************)
(* fielddeck/safety: the arm registry, the lease manager and the emergency *)
(* stop latch behind SafetyManager, with their clock.  Every method runs   *)
(* to completion on the event loop without suspending, so each is one      *)
(* action.  Grants and leases live in two dictionaries; a revoked or       *)
(* expired record stays there until the safety timer sweeps it, and the    *)
(* methods differ in whether they look at such a record.                   *)
(***************************************************************************)
EXTENDS Integers

CONSTANTS
    Devices,            \* devices with an output
    Conns,              \* client connections
    GrantIds, LeaseIds, \* identifiers of the two dictionaries
    Classes,            \* permission classes that need a grant
    Actions,            \* action names a grant can be scoped to
    OutputClass,        \* the class and the action that switch an output on
    OutputAction,
    AllScope,           \* the scope "all"
    Sources, Humans,    \* client sources, and those that may create grants
    Denied,             \* config: denied_permissions
    MaxTtl,             \* config: max_ttl of each class
    Ttls,               \* the positive durations requests carry
    EstopRequiresAck,   \* config: estop_requires_ack
    Free,               \* an identifier not in use
    Horizon             \* bound on the clock

Scopes == {AllScope} \cup Devices \cup Actions

ASSUME DurationAssumption ==
    /\ Ttls \subseteq Nat \ {0}
    /\ MaxTtl \in [Classes -> Ttls]
    /\ Horizon \in Nat
ASSUME PolicyAssumption ==
    /\ OutputClass \in Classes
    /\ OutputAction \in Actions
    /\ Humans \subseteq Sources
    /\ EstopRequiresAck \in BOOLEAN
ASSUME ScopeAssumption ==
    /\ AllScope \notin Devices \cup Actions
    /\ Devices \cap Actions = {}

VARIABLES
    now,        \* the monotonic clock
    estop,      \* EstopController status
    grants,     \* ArmRegistry._grants
    leases      \* LeaseManager._leases

vars == <<now, estop, grants, leases>>

Grant == [class : Classes, scope : Scopes, expires : Nat, revoked : BOOLEAN]
Lease == [dev : Devices, conn : Conns, expires : Nat, ttl : Ttls]

ASSUME FreeIsNoRecord ==
    Free \notin Grant \cup Lease \cup [dev : Devices, conn : Conns]

TypeOK ==
    /\ now \in Nat
    /\ estop \in BOOLEAN
    /\ grants \in [GrantIds -> Grant \cup {Free}]
    /\ leases \in [LeaseIds -> Lease \cup {Free}]

Smaller(a, b) == IF a <= b THEN a ELSE b

--------------------------------------------------------------------------------
(* The records each method looks at.                                       *)
Issued == {g \in GrantIds : grants[g] # Free}
Active(g) == g \in Issued /\ ~grants[g].revoked /\ now < grants[g].expires

Held == {l \in LeaseIds : leases[l] # Free}
Expired(l) == now >= leases[l].expires

ScopeMatches(scope, action, d) == scope \in {AllScope, d, action}

(* An active grant authorizes exactly its class: POWER does not imply      *)
(* CONTROL.                                                                *)
Authorizes(g, class, action, d) ==
    /\ Active(g)
    /\ grants[g].class = class
    /\ ScopeMatches(grants[g].scope, action, d)

(* authorize() for a class that needs a grant: refused by policy, refused  *)
(* while latched, otherwise a grant.                                       *)
Authorized(class, action, d) ==
    /\ class \notin Denied
    /\ ~estop
    /\ \E g \in GrantIds : Authorizes(g, class, action, d)

Remove(ls) == leases' = [l \in LeaseIds |-> IF l \in ls THEN Free ELSE leases[l]]
RevokeActive ==
    grants' = [g \in GrantIds |->
        IF Active(g) THEN [grants[g] EXCEPT !.revoked = TRUE] ELSE grants[g]]

--------------------------------------------------------------------------------
Init ==
    /\ now = 0
    /\ estop = FALSE
    /\ grants = [g \in GrantIds |-> Free]
    /\ leases = [l \in LeaseIds |-> Free]

Tick ==
    /\ now < Horizon
    /\ now' = now + 1
    /\ UNCHANGED <<estop, grants, leases>>

(* Only a human source arms; while latched nobody does if the policy wants *)
(* an acknowledgement; an over-long TTL is clamped, not refused.           *)
Arm(g, source, class, scope, ttl) ==
    /\ ~(estop /\ EstopRequiresAck)
    /\ source \in Humans
    /\ ttl > 0
    /\ grants[g] = Free
    /\ grants' = [grants EXCEPT ![g] =
          [class |-> class, scope |-> scope, revoked |-> FALSE,
           expires |-> now + Smaller(ttl, MaxTtl[class])]]
    /\ UNCHANGED <<now, estop, leases>>

Disarm(g) ==
    /\ g \in Issued /\ ~grants[g].revoked
    /\ grants' = [grants EXCEPT ![g].revoked = TRUE]
    /\ UNCHANGED <<now, estop, leases>>

DisarmAll ==
    /\ RevokeActive
    /\ UNCHANGED <<now, estop, leases>>

(* Mutant: the stop takes the active leases only.                          *)
EngageEstopActiveOnly ==
    /\ estop' = TRUE
    /\ Remove({l \in Held : ~Expired(l)})
    /\ RevokeActive
    /\ UNCHANGED now

EngageEstop ==
    /\ estop' = TRUE
    /\ Remove(Held)
    /\ RevokeActive
    /\ UNCHANGED now

AcknowledgeEstop(source) ==
    /\ source \in Humans
    /\ estop' = FALSE
    /\ UNCHANGED <<now, grants, leases>>

(* Mutant: acquire() accepts a TTL of zero.                                *)
AcquireLeaseOfZero(l, d, c, ttl) ==
    /\ Authorized(OutputClass, OutputAction, d)
    /\ leases[l] = Free
    /\ leases' = [leases EXCEPT ![l] =
          [dev |-> d, conn |-> c, expires |-> now + ttl, ttl |-> ttl]]
    /\ UNCHANGED <<now, estop, grants>>

(* The dispatcher authorizes an enabling action and takes its lease        *)
(* without suspending in between.                                          *)
AcquireLease(l, d, c, ttl) ==
    /\ Authorized(OutputClass, OutputAction, d)
    /\ ttl > 0
    /\ leases[l] = Free
    /\ leases' = [leases EXCEPT ![l] =
          [dev |-> d, conn |-> c, expires |-> now + ttl, ttl |-> ttl]]
    /\ UNCHANGED <<now, estop, grants>>

(* Mutants: a renewal is granted as long as it asks for, or after the      *)
(* deadline.                                                               *)
RenewLeaseUnclamped(l, c, requested) ==
    /\ l \in Held
    /\ leases[l].conn = c
    /\ ~Expired(l)
    /\ requested > 0
    /\ leases' = [leases EXCEPT ![l].expires = now + requested,
                               ![l].ttl = requested]
    /\ UNCHANGED <<now, estop, grants>>

RenewLeaseRevives(l, c, requested) ==
    /\ l \in Held
    /\ leases[l].conn = c
    /\ requested > 0
    /\ LET extension == Smaller(requested, leases[l].ttl)
       IN  leases' = [leases EXCEPT ![l].expires = now + extension,
                                    ![l].ttl = extension]
    /\ UNCHANGED <<now, estop, grants>>

(* Only the holder renews, only before the deadline, and never for longer  *)
(* than the interval in force.                                             *)
RenewLease(l, c, requested) ==
    /\ l \in Held
    /\ leases[l].conn = c
    /\ ~Expired(l)
    /\ requested > 0
    /\ LET extension == Smaller(requested, leases[l].ttl)
       IN  leases' = [leases EXCEPT ![l].expires = now + extension,
                                    ![l].ttl = extension]
    /\ UNCHANGED <<now, estop, grants>>

ReleaseLease(l) ==
    /\ l \in Held
    /\ Remove({l})
    /\ UNCHANGED <<now, estop, grants>>

(* for_device() sees active leases only: one past its deadline is left for *)
(* the sweep.                                                              *)
ReleaseForDevice(d) ==
    /\ Remove({l \in Held : leases[l].dev = d /\ ~Expired(l)})
    /\ UNCHANGED <<now, estop, grants>>

TakeForConnection(c) ==
    /\ Remove({l \in Held : leases[l].conn = c})
    /\ UNCHANGED <<now, estop, grants>>

Sweep ==
    /\ grants' = [g \in GrantIds |-> IF Active(g) THEN grants[g] ELSE Free]
    /\ Remove({l \in Held : Expired(l)})
    /\ UNCHANGED <<now, estop>>

Reset ==
    /\ estop' = FALSE
    /\ grants' = [g \in GrantIds |-> Free]
    /\ Remove(Held)
    /\ UNCHANGED now

Next ==
    \/ Tick
    \/ \E g \in GrantIds, source \in Sources, class \in Classes,
          scope \in Scopes, ttl \in Ttls \cup {0} : Arm(g, source, class, scope, ttl)
    \/ \E g \in GrantIds : Disarm(g)
    \/ DisarmAll
    \/ EngageEstop
    \/ \E source \in Sources : AcknowledgeEstop(source)
    \/ \E l \in LeaseIds, d \in Devices, c \in Conns, ttl \in Ttls \cup {0} :
          AcquireLease(l, d, c, ttl)
    \/ \E l \in LeaseIds, c \in Conns, requested \in Ttls \cup {0} :
          RenewLease(l, c, requested)
    \/ \E l \in LeaseIds : ReleaseLease(l)
    \/ \E d \in Devices : ReleaseForDevice(d)
    \/ \E c \in Conns : TakeForConnection(c)
    \/ Sweep
    \/ Reset

Spec == Init /\ [][Next]_vars

--------------------------------------------------------------------------------
(* A latched stop leaves nothing to act on: no lease is in the table, and, *)
(* where the policy demands an acknowledgement, no grant is active.  Both  *)
(* arming and lease acquisition could break it, as could a stop that       *)
(* missed a record that is expired, revoked or not swept yet.              *)
EstopHoldsNothing ==
    estop =>
        /\ Held = {}
        /\ EstopRequiresAck => \A g \in GrantIds : ~Active(g)

(* The dead-man handle: while a lease record stays in the table its        *)
(* interval never grows, its deadline never passes one interval from now,  *)
(* and once the deadline has passed nothing moves it again, so a client    *)
(* cannot turn its handle into a timer or revive a lease it let lapse.     *)
DeadManHandle ==
    [][\A l \in Held : leases'[l] # Free =>
          /\ leases'[l].ttl <= leases[l].ttl
          /\ \/ leases'[l].expires = leases[l].expires
             \/ /\ ~Expired(l)
                /\ leases'[l].expires <= now + leases[l].ttl]_vars

Armed ==
    {d \in Devices :
        /\ OutputClass \notin Denied
        /\ \E g \in GrantIds : Authorizes(g, OutputClass, OutputAction, d)}

Holders ==
    [l \in LeaseIds |-> IF l \in Held THEN [dev |-> leases[l].dev, conn |-> leases[l].conn]
                       ELSE Free]
Lapsed == {l \in Held : Expired(l)}

Authority == INSTANCE OutputAuthority WITH
    Leases <- LeaseIds, armed <- Armed, held <- Holders, lapsed <- Lapsed

(* The clocked records, deadlines and sweeps behave as the timeless        *)
(* authority the dispatcher is modelled against.                           *)
ImplementsAuthority == Authority!AuthSpec
================================================================================
