-------------------------- MODULE SafetyManagerProofs --------------------------
(***************************************************************************)
(* Proofs about SafetyManager, for every number of grants, leases, devices *)
(* and connections and every policy the configuration can state.           *)
(***************************************************************************)
EXTENDS SafetyManager, TLAPS

(* Whatever is removed from the lease table, what remains is well typed.   *)
LEMMA RemoveTypes ==
    ASSUME TypeOK, NEW ls \in SUBSET LeaseIds, Remove(ls)
    PROVE  leases' \in [LeaseIds -> Lease \cup {Free}]
  BY DEF TypeOK, Remove

(* Revoking keeps every grant a grant.                                     *)
LEMMA RevokeTypes ==
    ASSUME TypeOK, RevokeActive
    PROVE  grants' \in [GrantIds -> Grant \cup {Free}]
<1>1. ASSUME NEW g \in GrantIds, Active(g)
      PROVE  [grants[g] EXCEPT !.revoked = TRUE] \in Grant
  BY <1>1 DEF TypeOK, Active, Issued, Grant
<1> QED
  BY <1>1 DEF TypeOK, RevokeActive

(* A clamped or extended duration is one of the durations requests carry.  *)
LEMMA SmallerIsOneOf ==
    ASSUME NEW S, NEW a \in S, NEW b \in S PROVE Smaller(a, b) \in S
  BY DEF Smaller

LEMMA RenewedIsLease ==
    ASSUME NEW lease \in Lease, NEW e \in Nat, NEW t \in Ttls
    PROVE  [lease EXCEPT !.expires = e, !.ttl = t] \in Lease
<1>1. [lease EXCEPT !.expires = e] \in Lease
  BY DEF Lease
<1>2. \A le \in Lease : [le EXCEPT !.ttl = t] \in Lease
  BY DEF Lease
<1> QED
  BY <1>1, <1>2

(* The records, the latch and the clock keep their types under every       *)
(* method of SafetyManager and under time.                                 *)
LEMMA TypeInit == Init => TypeOK
<1> SUFFICES ASSUME Init PROVE TypeOK
  OBVIOUS
<1>1. grants \in [GrantIds -> Grant \cup {Free}]
  BY DEF Init
<1>2. leases \in [LeaseIds -> Lease \cup {Free}]
  BY DEF Init
<1> QED
  BY <1>1, <1>2 DEF Init, TypeOK

LEMMA TypeStep == TypeOK /\ [Next]_vars => TypeOK'
<1> SUFFICES ASSUME TypeOK, [Next]_vars PROVE TypeOK'
  OBVIOUS
<1>1. CASE UNCHANGED vars
  BY <1>1 DEF vars, TypeOK
<1>2. CASE Tick
  BY <1>2 DEF Tick, TypeOK
<1>3. ASSUME NEW g \in GrantIds, NEW source \in Sources, NEW class \in Classes,
             NEW scope \in Scopes, NEW ttl \in Ttls \cup {0},
             Arm(g, source, class, scope, ttl)
      PROVE  TypeOK'
  <2>1. ttl \in Ttls /\ MaxTtl[class] \in Ttls
    BY <1>3, DurationAssumption DEF Arm
  <2>2. Smaller(ttl, MaxTtl[class]) \in Nat
    BY <2>1, SmallerIsOneOf, DurationAssumption
  <2> QED
    BY <1>3, <2>2 DEF Arm, TypeOK, Grant
<1>4. ASSUME NEW g \in GrantIds, Disarm(g) PROVE TypeOK'
  <2>1. [grants[g] EXCEPT !.revoked = TRUE] \in Grant
    BY <1>4 DEF Disarm, Issued, TypeOK, Grant
  <2> QED
    BY <1>4, <2>1 DEF Disarm, TypeOK
<1>5. CASE DisarmAll
  BY <1>5, RevokeTypes DEF DisarmAll, TypeOK
<1>6. CASE EngageEstop
  BY <1>6, RevokeTypes, RemoveTypes DEF EngageEstop, TypeOK, Held
<1>7. ASSUME NEW source \in Sources, AcknowledgeEstop(source) PROVE TypeOK'
  BY <1>7 DEF AcknowledgeEstop, TypeOK
<1>8. ASSUME NEW l \in LeaseIds, NEW d \in Devices, NEW c \in Conns,
             NEW ttl \in Ttls \cup {0}, AcquireLease(l, d, c, ttl)
      PROVE  TypeOK'
  <2>1. [dev |-> d, conn |-> c, expires |-> now + ttl, ttl |-> ttl] \in Lease
    BY <1>8, DurationAssumption DEF AcquireLease, TypeOK, Lease
  <2> QED
    BY <1>8, <2>1 DEF AcquireLease, TypeOK
<1>9. ASSUME NEW l \in LeaseIds, NEW c \in Conns, NEW requested \in Ttls \cup {0},
             RenewLease(l, c, requested)
      PROVE  TypeOK'
  <2> DEFINE extension == Smaller(requested, leases[l].ttl)
  <2>1. leases[l] \in Lease
    BY <1>9 DEF RenewLease, Held, TypeOK
  <2>2. requested \in Ttls
    BY <1>9 DEF RenewLease
  <2>3. extension \in Ttls
    BY <2>1, <2>2, SmallerIsOneOf DEF Lease
  <2>4. [leases[l] EXCEPT !.expires = now + extension, !.ttl = extension] \in Lease
    <3> HIDE DEF extension
    <3>1. extension \in Nat
      BY <2>3, DurationAssumption
    <3>2. now + extension \in Nat
      BY <3>1 DEF TypeOK
    <3> QED
      BY <2>1, <2>3, <3>2, RenewedIsLease
  <2> QED
    BY <1>9, <2>4 DEF RenewLease, TypeOK
<1>10. ASSUME NEW l \in LeaseIds, ReleaseLease(l) PROVE TypeOK'
  BY <1>10, RemoveTypes DEF ReleaseLease, TypeOK
<1>11. ASSUME NEW d \in Devices, ReleaseForDevice(d) PROVE TypeOK'
  BY <1>11, RemoveTypes DEF ReleaseForDevice, TypeOK, Held
<1>12. ASSUME NEW c \in Conns, TakeForConnection(c) PROVE TypeOK'
  BY <1>12, RemoveTypes DEF TakeForConnection, TypeOK, Held
<1>13. CASE Sweep
  BY <1>13, RemoveTypes DEF Sweep, TypeOK, Held
<1>14. CASE Reset
  BY <1>14, RemoveTypes DEF Reset, TypeOK, Held
<1> QED
  BY <1>1, <1>2, <1>3, <1>4, <1>5, <1>6, <1>7, <1>8, <1>9, <1>10, <1>11, <1>12,
     <1>13, <1>14 DEF Next

(* The type invariant of the safety manager.                               *)
THEOREM TypeCorrect == Spec => []TypeOK
  BY TypeInit, TypeStep, PTL DEF Spec

--------------------------------------------------------------------------------
(* A latched stop survives every later call: EstopHoldsNothing is inductive *)
(* as it stands, because the guards of arming and of lease acquisition read *)
(* the latch in the same step that would break it.                          *)
LEMMA EstopStep ==
    TypeOK /\ EstopHoldsNothing /\ [Next]_vars => EstopHoldsNothing'
<1> SUFFICES ASSUME TypeOK, EstopHoldsNothing, [Next]_vars, estop'
             PROVE  /\ Held' = {}
                    /\ EstopRequiresAck => \A g \in GrantIds : ~Active(g)'
  BY DEF EstopHoldsNothing
<1>1. CASE UNCHANGED vars
  BY <1>1 DEF vars, EstopHoldsNothing, Held, Active, Issued
<1>2. CASE Tick
  BY <1>2 DEF Tick, TypeOK, EstopHoldsNothing, Held, Active, Issued, Grant
<1>3. ASSUME NEW g \in GrantIds, NEW source \in Sources, NEW class \in Classes,
             NEW scope \in Scopes, NEW ttl \in Ttls \cup {0},
             Arm(g, source, class, scope, ttl)
      PROVE  /\ Held' = {}
             /\ ~EstopRequiresAck
  BY <1>3, PolicyAssumption DEF Arm, EstopHoldsNothing, Held
<1>4. ASSUME NEW g \in GrantIds, Disarm(g)
      PROVE  /\ Held' = {}
             /\ EstopRequiresAck => \A h \in GrantIds : ~Active(h)'
  BY <1>4 DEF Disarm, TypeOK, EstopHoldsNothing, Held, Active, Issued, Grant
<1>5. ASSUME RevokeActive, now' = now
      PROVE  \A g \in GrantIds : ~Active(g)'
  BY <1>5 DEF RevokeActive, TypeOK, Active, Issued, Grant
<1>6. CASE DisarmAll
  BY <1>5, <1>6 DEF DisarmAll, EstopHoldsNothing, Held
<1>7. CASE EngageEstop
  BY <1>5, <1>7 DEF EngageEstop, Remove, Held
<1>8. ASSUME NEW source \in Sources, AcknowledgeEstop(source) PROVE FALSE
  BY <1>8 DEF AcknowledgeEstop
<1>9. ASSUME NEW l \in LeaseIds, NEW d \in Devices, NEW c \in Conns,
             NEW ttl \in Ttls \cup {0}, AcquireLease(l, d, c, ttl)
      PROVE  FALSE
  BY <1>9 DEF AcquireLease, Authorized
<1>10. ASSUME NEW l \in LeaseIds, NEW c \in Conns, NEW requested \in Ttls \cup {0},
              RenewLease(l, c, requested)
       PROVE  FALSE
  BY <1>10 DEF RenewLease, EstopHoldsNothing
<1>11. ASSUME NEW ls \in SUBSET LeaseIds, Remove(ls), UNCHANGED <<now, estop, grants>>
       PROVE  /\ Held' = {}
              /\ EstopRequiresAck => \A g \in GrantIds : ~Active(g)'
  BY <1>11 DEF Remove, EstopHoldsNothing, Held, Active, Issued
<1>12. ASSUME NEW l \in LeaseIds, ReleaseLease(l) PROVE FALSE
  BY <1>12 DEF ReleaseLease, EstopHoldsNothing
<1>13. ASSUME NEW d \in Devices, ReleaseForDevice(d)
       PROVE  /\ Held' = {}
              /\ EstopRequiresAck => \A g \in GrantIds : ~Active(g)'
  BY <1>13, <1>11 DEF ReleaseForDevice, Held
<1>14. ASSUME NEW c \in Conns, TakeForConnection(c)
       PROVE  /\ Held' = {}
              /\ EstopRequiresAck => \A g \in GrantIds : ~Active(g)'
  BY <1>14, <1>11 DEF TakeForConnection, Held
<1>15. CASE Sweep
  BY <1>15 DEF Sweep, Remove, EstopHoldsNothing, Held, Active, Issued
<1>16. CASE Reset
  BY <1>16 DEF Reset
<1> QED
  BY <1>1, <1>2, <1>3, <1>4, <1>6, <1>7, <1>8, <1>9, <1>10, <1>12, <1>13, <1>14,
     <1>15, <1>16 DEF Next

(* While the stop is latched the lease table is empty and, where the policy *)
(* demands an acknowledgement, no grant is active.                          *)
THEOREM StopHoldsNothing == Spec => []EstopHoldsNothing
<1>1. Init => EstopHoldsNothing
  BY DEF Init, EstopHoldsNothing
<1> QED
  BY <1>1, TypeInit, TypeStep, EstopStep, PTL DEF Spec

--------------------------------------------------------------------------------
(* A step that only removes records, or touches none, respects the handle. *)
LEMMA RemovalKeepsHandle ==
    ASSUME TypeOK, NEW ls \in SUBSET LeaseIds, Remove(ls) \/ UNCHANGED leases,
           NEW l \in Held, leases'[l] # Free
    PROVE  leases'[l] = leases[l]
  BY DEF Remove, Held, TypeOK

(* While a lease stays in the table its interval never grows, its deadline *)
(* is never more than one interval away, and a deadline that has passed is *)
(* never moved again.                                                      *)
THEOREM HandleIsNeverATimer == Spec => DeadManHandle
<1> DEFINE Handle ==
      \A l \in Held : leases'[l] # Free =>
          /\ leases'[l].ttl <= leases[l].ttl
          /\ \/ leases'[l].expires = leases[l].expires
             \/ /\ ~Expired(l)
                /\ leases'[l].expires <= now + leases[l].ttl
<1>1. TypeOK /\ [Next]_vars => [Handle]_vars
  <2> SUFFICES ASSUME TypeOK, Next PROVE Handle
    OBVIOUS
  <2>1. ASSUME NEW l \in Held PROVE leases[l].ttl \in Nat
    BY DurationAssumption DEF Held, TypeOK, Lease
  <2>2. ASSUME NEW ls \in SUBSET LeaseIds, Remove(ls) \/ UNCHANGED leases PROVE Handle
    BY <2>1, <2>2, RemovalKeepsHandle
  <2>3. ASSUME NEW m \in LeaseIds, NEW d \in Devices, NEW c \in Conns,
               NEW ttl \in Ttls \cup {0}, AcquireLease(m, d, c, ttl)
        PROVE  Handle
    BY <2>1, <2>3 DEF AcquireLease, Held, TypeOK
  <2>4. ASSUME NEW m \in LeaseIds, NEW c \in Conns, NEW requested \in Ttls \cup {0},
               RenewLease(m, c, requested)
        PROVE  Handle
    <3> SUFFICES ASSUME NEW l \in Held, leases'[l] # Free
                 PROVE  /\ leases'[l].ttl <= leases[l].ttl
                        /\ \/ leases'[l].expires = leases[l].expires
                           \/ /\ ~Expired(l)
                              /\ leases'[l].expires <= now + leases[l].ttl
      OBVIOUS
    <3> DEFINE extension == Smaller(requested, leases[l].ttl)
    <3>1. extension \in Nat /\ extension <= leases[l].ttl /\ now \in Nat
      BY <2>1, <2>4, DurationAssumption DEF Smaller, TypeOK
    <3>2. l # m => leases'[l] = leases[l]
      BY <2>4 DEF RenewLease, TypeOK, Held
    <3>3. l = m => /\ leases'[l].ttl = extension
                   /\ leases'[l].expires = now + extension
                   /\ ~Expired(l)
      BY <2>4 DEF RenewLease, TypeOK, Held, Lease
    <3> HIDE DEF extension
    <3> QED
      BY <2>1, <3>1, <3>2, <3>3
  <2>5. Remove(Held) \/ UNCHANGED leases => Handle
    BY <2>2 DEF Held
  <2>6. ASSUME NEW l \in LeaseIds, ReleaseLease(l) PROVE Handle
    BY <2>2, <2>6 DEF ReleaseLease
  <2>7. ASSUME NEW d \in Devices, ReleaseForDevice(d) PROVE Handle
    BY <2>2, <2>7 DEF ReleaseForDevice, Held
  <2>8. ASSUME NEW c \in Conns, TakeForConnection(c) PROVE Handle
    BY <2>2, <2>8 DEF TakeForConnection, Held
  <2>9. CASE Sweep
    BY <2>2, <2>9 DEF Sweep, Held
  <2>10. CASE Tick \/ DisarmAll \/ EngageEstop \/ Reset
    BY <2>5, <2>10 DEF Tick, DisarmAll, EngageEstop, Reset
  <2>11. ASSUME NEW g \in GrantIds, Disarm(g) PROVE Handle
    BY <2>5, <2>11 DEF Disarm
  <2>12. ASSUME NEW source \in Sources, AcknowledgeEstop(source) PROVE Handle
    BY <2>5, <2>12 DEF AcknowledgeEstop
  <2>13. ASSUME NEW g \in GrantIds, NEW source \in Sources, NEW class \in Classes,
                NEW scope \in Scopes, NEW ttl \in Ttls \cup {0},
                Arm(g, source, class, scope, ttl)
         PROVE  Handle
    BY <2>5, <2>13 DEF Arm
  <2> HIDE DEF Handle
  <2> QED
    BY <2>3, <2>4, <2>6, <2>7, <2>8, <2>9, <2>10, <2>11,
       <2>12, <2>13 DEF Next
<1> QED
  BY <1>1, TypeInit, TypeStep, PTL DEF Spec, DeadManHandle

--------------------------------------------------------------------------------
(* SafetyManager implements OutputAuthority: what each part of the mapping *)
(* does when the records behind it change.                                 *)
LEMMA HeldIsHeld ==
    ASSUME TypeOK
    PROVE  /\ Authority!HeldLeases = Held
           /\ \A l \in Held : /\ Holders[l] # Free
                             /\ Holders[l].dev = leases[l].dev
                             /\ Holders[l].conn = leases[l].conn
           /\ \A l \in LeaseIds \ Held : Holders[l] = Free
<1>1. ASSUME NEW l \in Held
      PROVE  [dev |-> leases[l].dev, conn |-> leases[l].conn] # Free
  BY FreeIsNoRecord DEF Held, TypeOK, Lease
<1>2. \A l \in Held : /\ l \in LeaseIds
                      /\ Holders[l] = [dev |-> leases[l].dev, conn |-> leases[l].conn]
  BY DEF Holders, Held
<1>3. \A l \in LeaseIds \ Held : Holders[l] = Free
  BY DEF Holders
<1>4. \A l \in Held : /\ Holders[l] # Free
                      /\ Holders[l].dev = leases[l].dev
                      /\ Holders[l].conn = leases[l].conn
  <2> SUFFICES ASSUME NEW l \in Held
               PROVE  /\ Holders[l] # Free
                      /\ Holders[l].dev = leases[l].dev
                      /\ Holders[l].conn = leases[l].conn
    OBVIOUS
  <2>1. Holders[l] = [dev |-> leases[l].dev, conn |-> leases[l].conn]
    BY <1>2
  <2> QED
    BY <1>1, <2>1
<1>5. Authority!HeldLeases = Held
  <2>1. \A l \in LeaseIds : Holders[l] # Free <=> l \in Held
    BY <1>1, <1>2, <1>3
  <2>2. Held \subseteq LeaseIds
    BY DEF Held
  <2> QED
    BY <2>1, <2>2 DEF Authority!HeldLeases
<1> QED
  BY <1>3, <1>4, <1>5

LEMMA RemoveDrops ==
    ASSUME TypeOK, NEW ls \in SUBSET LeaseIds, Remove(ls), now' = now
    PROVE  Authority!Drop(ls)
<1>1. Held' = Held \ ls
  BY DEF Held, Remove
<1>2. \A l \in Held' : leases'[l] = leases[l]
  BY DEF Held, Remove
<1>3. Lapsed' = Lapsed \ ls
  BY <1>1, <1>2 DEF Lapsed, Expired
<1>4. Holders' = [l \in LeaseIds |-> IF l \in ls THEN Free ELSE Holders[l]]
  BY <1>1, <1>2 DEF Holders
<1> QED
  BY <1>3, <1>4 DEF Authority!Drop

LEMMA SameGrantsSameArmed ==
    ASSUME UNCHANGED <<now, grants>> PROVE Armed' = Armed
  BY DEF Armed, Authorizes, Active, Issued

LEMMA SameLeases ==
    ASSUME UNCHANGED <<now, leases>> PROVE UNCHANGED <<Holders, Lapsed>>
  BY DEF Holders, Lapsed, Held, Expired

LEMMA RevokedMeansDisarmed ==
    ASSUME TypeOK, RevokeActive, now' = now PROVE Armed' = {}
<1>1. \A g \in GrantIds : ~Active(g)'
  BY DEF RevokeActive, TypeOK, Active, Issued, Grant
<1> QED
  BY <1>1 DEF Armed, Authorizes

(* The initial state of the records is the initial authority.              *)
LEMMA InitRefines == Init => Authority!AuthInit
<1> SUFFICES ASSUME Init PROVE Authority!AuthInit
  OBVIOUS
<1>1. Held = {} /\ Issued = {}
  BY DEF Init, Held, Issued
<1>2. Armed = {} /\ Lapsed = {} /\ Holders = [l \in LeaseIds |-> Free]
  BY <1>1 DEF Armed, Authorizes, Active, Lapsed, Holders
<1> QED
  BY <1>2 DEF Init, Authority!AuthInit

(* Every method of SafetyManager, and every tick of its clock, is a step   *)
(* of the authority or changes nothing the authority knows of.             *)
LEMMA StepRefines ==
    TypeOK /\ [Next]_vars => [Authority!AuthNext]_(Authority!authVars)
<1> SUFFICES ASSUME TypeOK, [Next]_vars
             PROVE  Authority!AuthNext \/ UNCHANGED <<estop, Armed, Holders, Lapsed>>
  BY DEF Authority!authVars
<1> DEFINE Step == Authority!AuthNext \/ UNCHANGED <<estop, Armed, Holders, Lapsed>>
<1>1. CASE UNCHANGED vars
  BY <1>1, SameGrantsSameArmed, SameLeases DEF vars
<1>2. CASE Tick
  <2>1. Held' = Held /\ Holders' = Holders
    BY <1>2 DEF Tick, Held, Holders
  <2>2. Armed' \subseteq Armed
    BY <1>2 DEF Tick, Armed, Authorizes, Active, Issued, TypeOK, Grant
  <2>3. Lapsed \subseteq Lapsed' /\ Lapsed' \subseteq Held
    BY <1>2, <2>1 DEF Tick, Lapsed, Expired, Held, TypeOK, Lease
  <2>4. Authority!Elapse(Armed \ Armed', Lapsed')
    BY <1>2, <2>1, <2>2, <2>3, HeldIsHeld DEF Tick, Authority!Elapse
  <2>5. Armed \ Armed' \in SUBSET Devices /\ Lapsed' \in SUBSET LeaseIds
    BY <2>3 DEF Armed, Held
  <2> QED
    BY <2>4, <2>5 DEF Authority!AuthNext
<1>3. ASSUME NEW g \in GrantIds, NEW source \in Sources, NEW class \in Classes,
             NEW scope \in Scopes, NEW ttl \in Ttls \cup {0},
             Arm(g, source, class, scope, ttl)
      PROVE  Step
  <2>1. \A h \in GrantIds, d \in Devices :
           Authorizes(h, OutputClass, OutputAction, d)
              => Authorizes(h, OutputClass, OutputAction, d)'
    BY <1>3 DEF Arm, Authorizes, Active, Issued, TypeOK
  <2>2. Armed \subseteq Armed'
    BY <2>1 DEF Armed
  <2>3. Authority!Arm(Armed' \ Armed)
    BY <1>3, <2>2, SameLeases DEF Arm, Authority!Arm
  <2>4. Armed' \ Armed \in SUBSET Devices
    BY DEF Armed
  <2> QED
    BY <2>3, <2>4 DEF Authority!AuthNext
<1>4. ASSUME Armed' \subseteq Armed, UNCHANGED <<now, estop, leases>>
      PROVE  Step
  <2>1. Authority!Disarm(Armed \ Armed')
    BY <1>4, SameLeases DEF Authority!Disarm
  <2>2. Armed \ Armed' \in SUBSET Devices
    BY DEF Armed
  <2> QED
    BY <2>1, <2>2 DEF Authority!AuthNext
<1>5. ASSUME NEW g \in GrantIds, Disarm(g) PROVE Step
  <2>1. \A h \in GrantIds, d \in Devices :
           Authorizes(h, OutputClass, OutputAction, d)'
              => Authorizes(h, OutputClass, OutputAction, d)
    BY <1>5 DEF Disarm, Authorizes, Active, Issued, TypeOK, Grant
  <2>2. Armed' \subseteq Armed
    BY <2>1 DEF Armed
  <2> QED
    BY <1>4, <1>5, <2>2 DEF Disarm
<1>6. CASE DisarmAll
  BY <1>4, <1>6, RevokedMeansDisarmed DEF DisarmAll
<1>7. CASE EngageEstop
  <2>1. Authority!Drop(Held)
    BY <1>7, RemoveDrops DEF EngageEstop, Held
  <2>2. Authority!EngageEstop
    BY <1>7, <2>1, RevokedMeansDisarmed, HeldIsHeld DEF EngageEstop, Authority!EngageEstop
  <2> QED
    BY <2>2 DEF Authority!AuthNext
<1>8. ASSUME NEW source \in Sources, AcknowledgeEstop(source) PROVE Step
  BY <1>8, SameGrantsSameArmed, SameLeases
     DEF AcknowledgeEstop, Authority!AcknowledgeEstop, Authority!AuthNext
<1>9. ASSUME NEW l \in LeaseIds, NEW d \in Devices, NEW c \in Conns,
             NEW ttl \in Ttls \cup {0}, AcquireLease(l, d, c, ttl)
      PROVE  Step
  <2>1. l \notin Held /\ Held' = Held \cup {l}
    <3>1. [dev |-> d, conn |-> c, expires |-> now + ttl, ttl |-> ttl] \in Lease
      BY <1>9, DurationAssumption DEF AcquireLease, TypeOK, Lease
    <3>2. leases'[l] # Free
      BY <1>9, <3>1, FreeIsNoRecord DEF AcquireLease, TypeOK
    <3> QED
      BY <1>9, <3>2 DEF AcquireLease, Held, TypeOK
  <2>2. Holders' = [Holders EXCEPT ![l] = [dev |-> d, conn |-> c]]
    BY <1>9, <2>1 DEF AcquireLease, Holders, Held, TypeOK
  <2>3. Lapsed' = Lapsed
    BY <1>9, <2>1, DurationAssumption DEF AcquireLease, Lapsed, Expired, Held, TypeOK
  <2>4. Authority!MayEnergise(d)
    BY <1>9 DEF AcquireLease, Authorized, Authority!MayEnergise, Armed
  <2>5. Authority!Acquire(l, d, c)
    BY <1>9, <2>1, <2>2, <2>3, <2>4, HeldIsHeld, SameGrantsSameArmed
       DEF AcquireLease, Authority!Acquire
  <2> QED
    BY <2>5 DEF Authority!AuthNext
<1>10. ASSUME NEW l \in LeaseIds, NEW c \in Conns, NEW requested \in Ttls \cup {0},
              RenewLease(l, c, requested)
       PROVE  Step
  <2> DEFINE extension == Smaller(requested, leases[l].ttl)
  <2>1. l \in Held /\ leases[l] \in Lease /\ ~Expired(l)
    BY <1>10 DEF RenewLease, Held, TypeOK
  <2>2. extension \in Nat \ {0}
    BY <1>10, <2>1, DurationAssumption, SmallerIsOneOf DEF RenewLease, Lease
  <2>3. /\ leases'[l] \in Lease
        /\ leases'[l].dev = leases[l].dev
        /\ leases'[l].conn = leases[l].conn
        /\ leases'[l].expires = now + extension
    <3>1. leases'[l] = [leases[l] EXCEPT !.expires = now + extension, !.ttl = extension]
      BY <1>10, <2>1 DEF RenewLease, TypeOK, Held
    <3> HIDE DEF extension
    <3>2. extension \in Ttls /\ now + extension \in Nat
      BY <1>10, <2>1, <2>2, SmallerIsOneOf DEF RenewLease, TypeOK, Lease, extension
    <3>3. [leases[l] EXCEPT !.expires = now + extension, !.ttl = extension] \in Lease
      BY <2>1, <3>2, RenewedIsLease
    <3>4. leases'[l] \in Lease
      BY <3>1, <3>3
    <3> QED
      BY <2>1, <3>1, <3>4 DEF Lease
  <2>4. \A m \in LeaseIds \ {l} : leases'[m] = leases[m]
    BY <1>10 DEF RenewLease, TypeOK
  <2>5. Held' = Held /\ l \notin Lapsed /\ l \notin Lapsed'
    <3> HIDE DEF extension
    <3>1. leases'[l] # Free
      BY <2>3, FreeIsNoRecord
    <3>2. now' = now /\ now \in Nat /\ ~(now >= now + extension)
      BY <1>10, <2>2 DEF RenewLease, TypeOK
    <3> QED
      BY <2>1, <2>3, <2>4, <3>1, <3>2 DEF Held, Lapsed, Expired
  <2>6. Lapsed' = Lapsed /\ Holders' = Holders
    BY <1>10, <2>3, <2>4, <2>5 DEF RenewLease, Lapsed, Expired, Holders, Held
  <2> QED
    BY <1>10, <2>6, SameGrantsSameArmed DEF RenewLease
<1>11. ASSUME NEW l \in LeaseIds, ReleaseLease(l) PROVE Step
  <2>1. Authority!Release(l)
    BY <1>11, RemoveDrops, HeldIsHeld, SameGrantsSameArmed
       DEF ReleaseLease, Authority!Release
  <2> QED
    BY <2>1 DEF Authority!AuthNext
<1>12. ASSUME NEW d \in Devices, ReleaseForDevice(d) PROVE Step
  <2>1. Authority!LeasesOf(d) = {l \in Held : leases[l].dev = d}
    BY HeldIsHeld DEF Authority!LeasesOf
  <2>2. {l \in Held : leases[l].dev = d /\ ~Expired(l)} = Authority!LeasesOf(d) \ Lapsed
    BY <2>1 DEF Lapsed
  <2>3. Authority!ReleaseDevice(d)
    BY <1>12, <2>2, RemoveDrops, SameGrantsSameArmed
       DEF ReleaseForDevice, Authority!ReleaseDevice, Held
  <2> QED
    BY <2>3 DEF Authority!AuthNext
<1>13. ASSUME NEW c \in Conns, TakeForConnection(c) PROVE Step
  <2>1. {l \in Held : leases[l].conn = c} = Authority!OwnedBy(c)
    BY HeldIsHeld DEF Authority!OwnedBy
  <2>2. Authority!TakeForConnection(c)
    BY <1>13, <2>1, RemoveDrops, SameGrantsSameArmed
       DEF TakeForConnection, Authority!TakeForConnection, Held
  <2> QED
    BY <2>2 DEF Authority!AuthNext
<1>14. CASE Sweep
  <2>1. Armed' = Armed
    BY <1>14 DEF Sweep, Armed, Authorizes, Active, Issued, TypeOK, Grant
  <2>2. Authority!Drop(Lapsed)
    <3>1. Lapsed \in SUBSET LeaseIds /\ Remove(Lapsed)
      BY <1>14 DEF Sweep, Lapsed, Held
    <3> QED
      BY <1>14, <3>1, RemoveDrops DEF Sweep
  <2>3. CASE Lapsed = {}
    <3>1. leases' = leases
      BY <1>14, <2>3 DEF Sweep, Remove, Lapsed, TypeOK
    <3> QED
      BY <1>14, <2>1, <3>1, SameLeases DEF Sweep
  <2>4. CASE Lapsed # {}
    BY <1>14, <2>1, <2>2, <2>4 DEF Sweep, Authority!Reap, Authority!AuthNext
  <2> QED
    BY <2>3, <2>4
<1>15. CASE Reset
  <2>1. Armed' = {}
    BY <1>15 DEF Reset, Armed, Authorizes, Active, Issued
  <2>2. Authority!AuthReset
    BY <1>15, <2>1, RemoveDrops, HeldIsHeld DEF Reset, Authority!AuthReset, Held
  <2> QED
    BY <2>2 DEF Authority!AuthNext
<1> QED
  BY <1>1, <1>2, <1>3, <1>5, <1>6, <1>7, <1>8, <1>9, <1>10, <1>11, <1>12, <1>13,
     <1>14, <1>15 DEF Next

(* The grants, leases and deadlines of SafetyManager are an implementation *)
(* of the clock-free authority the dispatcher is modelled against.         *)
THEOREM ManagerImplementsAuthority == Spec => ImplementsAuthority
  BY InitRefines, StepRefines, TypeInit, TypeStep, PTL
     DEF Spec, ImplementsAuthority, Authority!AuthSpec
================================================================================
