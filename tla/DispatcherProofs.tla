--------------------------- MODULE DispatcherProofs ---------------------------
(***************************************************************************)
(* Proofs about Dispatcher, for every number of devices, requests and      *)
(* clients and whichever faults the environment produces.                  *)
(***************************************************************************)
EXTENDS Dispatcher, TLAPS

(* The type invariant in four parts: authority, pipeline, hardware and     *)
(* clients, and safe states under way.                                     *)
PipelineTypes ==
    /\ pc \in [Requests -> Stages]
    /\ req \in [Requests -> Request \cup {Free}]
    /\ superseded \in SUBSET Requests

OutsideTypes ==
    /\ rail \in [Devices -> BOOLEAN]
    /\ link \in [Conns -> {"up", "leaving", "down"}]
    /\ warned \in SUBSET Devices
    /\ loose \in SUBSET Devices

CallTypes ==
    /\ pending \in [Callers -> SUBSET Devices]
    /\ safe \in [Callers -> SUBSET Devices]
    /\ failed \in [Callers -> SUBSET Devices]

LEMMA TypeParts ==
    TypeOK <=> AuthTypeOK /\ PipelineTypes /\ OutsideTypes /\ CallTypes
  BY DEF TypeOK, PipelineTypes, OutsideTypes, CallTypes

LEMMA TypePartsNext ==
    TypeOK' <=> AuthTypeOK' /\ PipelineTypes' /\ OutsideTypes' /\ CallTypes'
  BY DEF TypeOK, PipelineTypes, OutsideTypes, CallTypes

--------------------------------------------------------------------------------
(* What the operators the actions are built from do to the types.          *)
LEMMA DropTypes ==
    ASSUME AuthTypeOK, NEW ls \in SUBSET Leases, Drop(ls),
           estop' \in BOOLEAN, armed' \in SUBSET Devices
    PROVE  AuthTypeOK'
<1>1. held' \in [Leases -> Holding \cup {Free}]
  BY DEF AuthTypeOK, Drop
<1>2. \A l \in lapsed' : l \in Leases /\ held'[l] # Free
  BY DEF AuthTypeOK, Drop
<1>3. lapsed' \in SUBSET {l \in Leases : held'[l] # Free}
  BY <1>2
<1> QED
  BY <1>1, <1>3 DEF AuthTypeOK

LEMMA AcquireTypes ==
    ASSUME AuthTypeOK, NEW l \in Leases, NEW d \in Devices, NEW c \in Conns,
           Acquire(l, d, c)
    PROVE  AuthTypeOK'
<1>1. [dev |-> d, conn |-> c] \in Holding /\ [dev |-> d, conn |-> c] # Free
  BY FreeAssumption DEF Holding
<1>2. held' \in [Leases -> Holding \cup {Free}]
  BY <1>1 DEF AuthTypeOK, Acquire
<1>3. \A m \in lapsed' : m \in Leases /\ held'[m] # Free
  BY <1>1 DEF AuthTypeOK, Acquire
<1>4. lapsed' \in SUBSET {m \in Leases : held'[m] # Free}
  BY <1>3
<1> QED
  BY <1>2, <1>4 DEF AuthTypeOK, Acquire

LEMMA ElapseTypes ==
    ASSUME AuthTypeOK, NEW ds \in SUBSET Devices, NEW ls \in SUBSET Leases, Elapse(ds, ls)
    PROVE  AuthTypeOK'
<1>1. lapsed' \in SUBSET {m \in Leases : held'[m] # Free}
  BY DEF AuthTypeOK, Elapse, HeldLeases
<1> QED
  BY <1>1 DEF AuthTypeOK, Elapse

LEMMA SameAuthTypes == ASSUME AuthTypeOK, UNCHANGED authVars PROVE AuthTypeOK'
  BY DEF AuthTypeOK, authVars

LEMMA RetireTypes ==
    ASSUME PipelineTypes, NEW rs, Retire(rs) PROVE PipelineTypes'
<1>1. "idle" \in Stages
  BY DEF Stages
<1>2. pc' \in [Requests -> Stages]
  BY <1>1 DEF PipelineTypes, Retire
<1>3. req' \in [Requests -> Request \cup {Free}]
  BY DEF PipelineTypes, Retire
<1> QED
  BY <1>2, <1>3 DEF PipelineTypes, Retire

LEMMA ApplyTypes ==
    ASSUME CallTypes, PipelineTypes, NEW k \in Callers, NEW ds \in SUBSET Devices,
           ApplySafeState(k, ds)
    PROVE  CallTypes' /\ superseded' \in SUBSET Requests
  BY DEF CallTypes, PipelineTypes, ApplySafeState

LEMMA ForgetTypes == ASSUME CallTypes, NEW ks, ForgetCalls(ks) PROVE CallTypes'
<1>1. pending' \in [Callers -> SUBSET Devices]
  BY DEF CallTypes, ForgetCalls
<1>2. safe' \in [Callers -> SUBSET Devices]
  BY DEF CallTypes, ForgetCalls
<1>3. failed' \in [Callers -> SUBSET Devices]
  BY DEF CallTypes, ForgetCalls
<1> QED
  BY <1>1, <1>2, <1>3 DEF CallTypes

LEMMA SwitchTypes ==
    ASSUME OutsideTypes, NEW d \in Devices, NEW on \in BOOLEAN, Switch(d, on)
    PROVE  /\ rail' \in [Devices -> BOOLEAN]
           /\ warned' \in SUBSET Devices
           /\ loose' \in SUBSET Devices
  BY DEF OutsideTypes, Switch

LEMMA CloseTypes ==
    ASSUME PipelineTypes, OutsideTypes, CallTypes, NEW c \in Conns, NEW finishing,
           Close(c, finishing)
    PROVE  /\ PipelineTypes' /\ CallTypes'
           /\ link' \in [Conns -> {"up", "leaving", "down"}]
           /\ loose' \in SUBSET Devices
<1>1. PipelineTypes'
  BY RetireTypes DEF Close
<1>2. CallTypes'
  BY ForgetTypes DEF Close
<1>3. link' \in [Conns -> {"up", "leaving", "down"}]
  BY DEF Close, OutsideTypes
<1>4. loose' \in SUBSET Devices
  BY DEF Close, OutsideTypes
<1> QED
  BY <1>1, <1>2, <1>3, <1>4

LEMMA SameRest ==
    ASSUME PipelineTypes, OutsideTypes, CallTypes, pipelineIdle
    PROVE  PipelineTypes' /\ OutsideTypes' /\ CallTypes'
  BY DEF PipelineTypes, OutsideTypes, CallTypes, pipelineIdle, pipelineVars,
         callVars, historyVars

LEMMA RequestFields ==
    ASSUME NEW q \in Request
    PROVE  q.dev \in Devices /\ q.conn \in Conns /\ q.enable \in BOOLEAN
  BY DEF Request

LEMMA CallersAreCallers ==
    /\ \A r \in Requests : Reverting(r) \in Callers
    /\ \A c \in Conns : RpcOf(c) \in Callers /\ GoneOf(c) \in Callers
    /\ Timer \in Callers
  BY DEF Callers

LEMMA DeviceOfLease ==
    ASSUME AuthTypeOK, NEW l \in HeldLeases
    PROVE  l \in Leases /\ held[l].dev \in Devices /\ held[l].conn \in Conns
  BY DEF AuthTypeOK, HeldLeases, Holding

(* One step of the daemon keeps the types.                                 *)
LEMMA TypeInit == Init => TypeOK
<1> SUFFICES ASSUME Init PROVE TypeOK
  OBVIOUS
<1>1. AuthTypeOK
  BY DEF Init, AuthInit, AuthTypeOK
<1>2. PipelineTypes
  <2>1. "idle" \in Stages
    BY DEF Stages
  <2>2. pc \in [Requests -> Stages]
    BY <2>1 DEF Init
  <2>3. req \in [Requests -> Request \cup {Free}]
    BY DEF Init
  <2> QED
    BY <2>2, <2>3 DEF Init, PipelineTypes
<1>3. OutsideTypes
  BY DEF Init, OutsideTypes
<1>4. CallTypes
  <2>1. pending \in [Callers -> SUBSET Devices]
    BY DEF Init
  <2>2. safe \in [Callers -> SUBSET Devices]
    BY DEF Init
  <2>3. failed \in [Callers -> SUBSET Devices]
    BY DEF Init
  <2> QED
    BY <2>1, <2>2, <2>3 DEF CallTypes
<1> QED
  BY <1>1, <1>2, <1>3, <1>4, TypeParts

LEMMA TypeStep == TypeOK /\ InFlightHasRequest /\ [Next]_vars => TypeOK'
<1> SUFFICES ASSUME TypeOK, InFlightHasRequest, [Next]_vars PROVE TypeOK'
  OBVIOUS
<1>t. AuthTypeOK /\ PipelineTypes /\ OutsideTypes /\ CallTypes
  BY TypeParts
<1>q. ASSUME NEW r \in Requests, InFlight(r)
      PROVE  req[r].dev \in Devices /\ req[r].conn \in Conns /\ req[r].enable \in BOOLEAN
  BY <1>q, RequestFields DEF InFlightHasRequest
<1>a. ASSUME NEW rs \in SUBSET Requests PROVE Abandoned(rs) \in SUBSET Leases
  BY DEF Abandoned, Requests
<1>1. CASE UNCHANGED vars
  BY <1>1, <1>t, TypePartsNext, SameAuthTypes
     DEF vars, PipelineTypes, OutsideTypes, CallTypes, pipelineVars, callVars, historyVars
<1>2. ASSUME pipelineIdle, AuthTypeOK' PROVE TypeOK'
  BY <1>2, <1>t, SameRest, TypePartsNext
<1>3. ASSUME NEW ds \in SUBSET Devices, OperatorArms(ds) \/ AuthorityEnds(ds)
      PROVE  TypeOK'
  <2>1. AuthTypeOK'
    BY <1>3, <1>t DEF OperatorArms, AuthorityEnds, Arm, Disarm, AuthTypeOK
  <2> QED
    BY <1>2, <1>3, <2>1 DEF OperatorArms, AuthorityEnds
<1>4. ASSUME NEW l \in Leases, LeaseLapses(l) PROVE TypeOK'
  BY <1>2, <1>4, <1>t, ElapseTypes DEF LeaseLapses
<1>5. CASE EstopClear
  <2>1. AuthTypeOK'
    BY <1>5, <1>t DEF EstopClear, AcknowledgeEstop, AuthTypeOK
  <2> QED
    BY <1>2, <1>5, <2>1 DEF EstopClear
<1>6. ASSUME NEW r \in Requests, NEW c \in Conns, NEW d \in Devices,
             NEW enable \in BOOLEAN, Execute(r, c, d, enable)
      PROVE  TypeOK'
  <2>1. AuthTypeOK'
    BY <1>6, <1>t, AcquireTypes, SameAuthTypes DEF Execute, Requests
  <2>2. PipelineTypes'
    <3>1. "admitted" \in Stages /\ [dev |-> d, conn |-> c, enable |-> enable] \in Request
      BY DEF Stages, Request
    <3> QED
      BY <1>6, <1>t, <3>1 DEF Execute, PipelineTypes
  <2>3. OutsideTypes' /\ CallTypes'
    BY <1>6, <1>t DEF Execute, OutsideTypes, CallTypes, callVars, historyVars
  <2> QED
    BY <2>1, <2>2, <2>3, TypePartsNext
<1>7. ASSUME NEW r \in Requests, HandlerWrites(r) PROVE TypeOK'
  <2>1. AuthTypeOK' /\ CallTypes'
    BY <1>7, <1>t, SameAuthTypes DEF HandlerWrites, CallTypes, callVars
  <2>2. PipelineTypes'
    BY <1>7, <1>t DEF HandlerWrites, PipelineTypes, Stages
  <2>3. OutsideTypes'
    BY <1>7, <1>t, <1>q, SwitchTypes DEF HandlerWrites, OutsideTypes, InFlight
  <2> QED
    BY <2>1, <2>2, <2>3, TypePartsNext
<1>8. ASSUME NEW r \in Requests, HandlerFails(r) PROVE TypeOK'
  <2>1. AuthTypeOK'
    <3>1. Abandoned({r}) \in SUBSET Leases
      BY <1>a
    <3> QED
      BY <1>8, <1>t, <3>1, DropTypes DEF HandlerFails, AuthTypeOK
  <2>2. PipelineTypes'
    BY <1>8, <1>t, RetireTypes DEF HandlerFails
  <2>3. req[r].dev \in Devices
    BY <1>8, <1>q DEF HandlerFails, Handling, InFlight
  <2>4. OutsideTypes' /\ CallTypes'
    BY <1>8, <1>t, <2>3 DEF HandlerFails, OutsideTypes, CallTypes, callVars
  <2> QED
    BY <2>1, <2>2, <2>4, TypePartsNext
<1>9. ASSUME NEW r \in Requests, Complete(r) PROVE TypeOK'
  <2>1. AuthTypeOK'
    <3>1. CASE req[r].enable
      BY <1>9, <3>1, <1>t, SameAuthTypes DEF Complete
    <3>2. CASE ~req[r].enable
      <4>1. LeasesOf(req[r].dev) \ lapsed \in SUBSET Leases
        BY DEF LeasesOf, HeldLeases
      <4> QED
        BY <1>9, <3>2, <4>1, <1>t, DropTypes DEF Complete, ReleaseDevice, AuthTypeOK
    <3> QED
      BY <3>1, <3>2
  <2>2. PipelineTypes'
    BY <1>9, <1>t, RetireTypes DEF Complete
  <2>3. OutsideTypes' /\ CallTypes'
    BY <1>9, <1>t DEF Complete, OutsideTypes, CallTypes, callVars
  <2> QED
    BY <2>1, <2>2, <2>3, TypePartsNext
<1>10. ASSUME NEW r \in Requests, Revert(r) PROVE TypeOK'
  <2>1. AuthTypeOK'
    <3>1. Abandoned({r}) \in SUBSET Leases
      BY <1>a
    <3> QED
      BY <1>10, <1>t, <3>1, DropTypes DEF Revert, AuthTypeOK
  <2>2. req[r].dev \in Devices
    BY <1>10, <1>q DEF Revert, InFlight
  <2>3. CallTypes' /\ superseded' \in SUBSET Requests
    BY <1>10, <1>t, <2>2, ApplyTypes, CallersAreCallers DEF Revert
  <2>4. PipelineTypes'
    BY <1>10, <1>t, <2>3 DEF Revert, PipelineTypes, Stages
  <2>5. OutsideTypes'
    BY <1>10, <1>t DEF Revert, OutsideTypes, historyVars
  <2> QED
    BY <2>1, <2>3, <2>4, <2>5, TypePartsNext
<1>11. ASSUME NEW k \in Callers, NEW ds \in SUBSET Devices, NEW ls \in SUBSET Leases,
              ApplySafeState(k, ds), Drop(ls), UNCHANGED <<rail, pipelineVars, historyVars>>,
              estop' \in BOOLEAN, armed' \in SUBSET Devices,
              link' \in [Conns -> {"up", "leaving", "down"}]
       PROVE  TypeOK'
  <2>1. AuthTypeOK'
    BY <1>11, <1>t, DropTypes
  <2>2. CallTypes' /\ superseded' \in SUBSET Requests
    BY <1>11, <1>t, ApplyTypes
  <2>3. PipelineTypes' /\ OutsideTypes'
    BY <1>11, <1>t, <2>2 DEF PipelineTypes, OutsideTypes, pipelineVars, historyVars
  <2> QED
    BY <2>1, <2>2, <2>3, TypePartsNext
<1>12. ASSUME NEW c \in Conns, Estop(c) PROVE TypeOK'
  BY <1>11, <1>12, <1>t, CallersAreCallers
     DEF Estop, EngageEstop, HeldLeases, OutsideTypes
<1>13. ASSUME NEW c \in Conns, NEW l \in Leases, LeaseRelease(c, l) PROVE TypeOK'
  <2>1. held[l].dev \in Devices
    BY <1>13, <1>t, DeviceOfLease DEF LeaseRelease, Release, HeldLeases
  <2> QED
    BY <1>11, <1>13, <1>t, <2>1, CallersAreCallers
       DEF LeaseRelease, Release, OutsideTypes, AuthTypeOK
<1>14. CASE SafetyTick
  <2>1. lapsed \in SUBSET Leases /\ {held[l].dev : l \in lapsed} \in SUBSET Devices
    BY <1>t, DeviceOfLease DEF AuthTypeOK, HeldLeases
  <2> QED
    BY <1>11, <1>14, <1>t, <2>1, CallersAreCallers
       DEF SafetyTick, Reap, OutsideTypes, AuthTypeOK
<1>15. ASSUME NEW c \in Conns, Disconnect(c) PROVE TypeOK'
  <2>1. OwnedBy(c) \in SUBSET Leases /\ {held[l].dev : l \in OwnedBy(c)} \in SUBSET Devices
    BY <1>t, DeviceOfLease DEF OwnedBy, HeldLeases
  <2> QED
    BY <1>11, <1>15, <1>t, <2>1, CallersAreCallers
       DEF Disconnect, TakeForConnection, OutsideTypes, AuthTypeOK
<1>16. ASSUME NEW c \in Conns, NEW ks, Close(c, ks), Drop(Abandoned(Cancelled(c))),
              UNCHANGED <<estop, armed, rail>>, warned' \in SUBSET Devices
       PROVE  TypeOK'
  <2>1. AuthTypeOK'
    <3>1. Abandoned(Cancelled(c)) \in SUBSET Leases
      BY <1>a DEF Cancelled
    <3> QED
      BY <1>16, <1>t, <3>1, DropTypes DEF AuthTypeOK
  <2>2. PipelineTypes' /\ CallTypes' /\ OutsideTypes'
    BY <1>16, <1>t, CloseTypes DEF OutsideTypes
  <2> QED
    BY <2>1, <2>2, TypePartsNext
<1>17. ASSUME NEW c \in Conns, DisconnectIdle(c) PROVE TypeOK'
  BY <1>16, <1>17, <1>t DEF DisconnectIdle, OutsideTypes
<1>18. ASSUME NEW c \in Conns, Connect(c) PROVE TypeOK'
  <2>1. AuthTypeOK' /\ PipelineTypes' /\ CallTypes'
    BY <1>18, <1>t, SameAuthTypes
       DEF Connect, PipelineTypes, CallTypes, pipelineVars, callVars
  <2>2. OutsideTypes'
    BY <1>18, <1>t DEF Connect, OutsideTypes, historyVars
  <2> QED
    BY <2>1, <2>2, TypePartsNext
<1>19. ASSUME NEW k \in Callers, NEW d \in Devices, DeviceSafed(k, d) \/ SafeStateFails(k, d)
       PROVE  TypeOK'
  <2>1. AuthTypeOK' /\ PipelineTypes'
    BY <1>19, <1>t, SameAuthTypes
       DEF DeviceSafed, SafeStateFails, PipelineTypes, pipelineVars
  <2>2. OutsideTypes'
    BY <1>19, <1>t, SwitchTypes DEF DeviceSafed, SafeStateFails, OutsideTypes, historyVars
  <2>3. CallTypes'
    BY <1>19, <1>t DEF DeviceSafed, SafeStateFails, CallTypes
  <2> QED
    BY <2>1, <2>2, <2>3, TypePartsNext
<1>20. ASSUME NEW k \in Callers, Publish(k) PROVE warned' \in SUBSET Devices
  BY <1>20, <1>t DEF Publish, OutsideTypes, CallTypes
<1>21. ASSUME NEW k \in Callers, FinishCall(k) PROVE TypeOK'
  <2>1. AuthTypeOK' /\ PipelineTypes' /\ CallTypes'
    BY <1>21, <1>t, SameAuthTypes, ForgetTypes DEF FinishCall, PipelineTypes, pipelineVars
  <2>2. OutsideTypes'
    BY <1>20, <1>21, <1>t DEF FinishCall, OutsideTypes
  <2> QED
    BY <2>1, <2>2, TypePartsNext
<1>22. ASSUME NEW r \in Requests, FinishRevert(r) PROVE TypeOK'
  <2>1. AuthTypeOK' /\ PipelineTypes' /\ CallTypes'
    BY <1>22, <1>t, SameAuthTypes, ForgetTypes, RetireTypes DEF FinishRevert
  <2>2. OutsideTypes'
    BY <1>20, <1>22, <1>t, CallersAreCallers DEF FinishRevert, OutsideTypes
  <2> QED
    BY <2>1, <2>2, TypePartsNext
<1>23. ASSUME NEW c \in Conns, FinishDisconnect(c) PROVE TypeOK'
  BY <1>16, <1>20, <1>23, CallersAreCallers DEF FinishDisconnect
<1>24. ASSUME NEW r \in Requests, Pipeline(r) PROVE TypeOK'
  BY <1>7, <1>8, <1>9, <1>10, <1>22, <1>24 DEF Pipeline
<1>25. ASSUME NEW c \in Conns, Client(c) PROVE TypeOK'
  BY <1>12, <1>13, <1>15, <1>17, <1>18, <1>23, <1>25 DEF Client
<1>26. ASSUME NEW k \in Callers, NEW d \in Devices, SafeOne(k, d) PROVE TypeOK'
  BY <1>19, <1>26 DEF SafeOne
<1> QED
  BY <1>1, <1>3, <1>4, <1>5, <1>6, <1>14, <1>21, <1>24, <1>25, <1>26 DEF Next

--------------------------------------------------------------------------------
(* A request in flight was in flight before, for the same device, client   *)
(* and direction, unless this very step admitted it.                       *)
LEMMA RetiredOrSame ==
    ASSUME PipelineTypes, NEW rs, Retire(rs), NEW r \in Requests, InFlight(r)'
    PROVE  r \notin rs /\ pc'[r] = pc[r] /\ req'[r] = req[r]
  BY DEF PipelineTypes, Retire, InFlight

LEMMA RequestsStay ==
    ASSUME TypeOK, [Next]_vars, NEW r \in Requests, InFlight(r)'
    PROVE  \/ InFlight(r) /\ req'[r] = req[r]
           \/ \E c \in Conns, d \in Devices, enable \in BOOLEAN : Execute(r, c, d, enable)
<1> DEFINE Stays == InFlight(r) /\ req'[r] = req[r]
<1> DEFINE Admitted ==
      \E c \in Conns, d \in Devices, enable \in BOOLEAN : Execute(r, c, d, enable)
<1>t. PipelineTypes
  BY TypeParts
<1>1. ASSUME UNCHANGED pipelineVars PROVE Stays
  BY <1>1 DEF pipelineVars, InFlight
<1>2. ASSUME NEW rs, Retire(rs) PROVE Stays
  BY <1>2, <1>t, RetiredOrSame DEF InFlight
<1>3. ASSUME NEW q \in Requests, NEW c \in Conns, NEW d \in Devices,
             NEW enable \in BOOLEAN, Execute(q, c, d, enable)
      PROVE  Stays \/ Admitted
  <2>1. CASE q = r
    BY <1>3, <2>1
  <2>2. CASE q # r
    BY <1>3, <1>t, <2>2 DEF Execute, PipelineTypes, InFlight
  <2> QED
    BY <2>1, <2>2
<1>4. ASSUME NEW q \in Requests, HandlerWrites(q) \/ Revert(q) PROVE Stays
  BY <1>4, <1>t DEF HandlerWrites, Revert, PipelineTypes, InFlight
<1>5. ASSUME NEW q \in Requests, Pipeline(q) PROVE Stays
  BY <1>2, <1>4, <1>5 DEF Pipeline, HandlerFails, Complete, FinishRevert
<1>6. ASSUME NEW c \in Conns, Client(c) PROVE Stays
  BY <1>1, <1>2, <1>6
     DEF Client, Estop, LeaseRelease, Disconnect, DisconnectIdle, Connect,
         FinishDisconnect, Close
<1>7. CASE \/ UNCHANGED vars \/ EstopClear \/ SafetyTick
           \/ \E ds \in SUBSET Devices : OperatorArms(ds) \/ AuthorityEnds(ds)
           \/ \E l \in Leases : LeaseLapses(l)
           \/ \E k \in Callers, d \in Devices : SafeOne(k, d)
           \/ \E k \in Callers : FinishCall(k)
  <2>1. UNCHANGED pipelineVars
    BY <1>7 DEF vars, EstopClear, SafetyTick, OperatorArms, AuthorityEnds, LeaseLapses,
                SafeOne, DeviceSafed, SafeStateFails, FinishCall, pipelineIdle
  <2> QED
    BY <1>1, <2>1
<1> QED
  BY <1>3, <1>5, <1>6, <1>7 DEF Next

LEMMA RequestStep ==
    TypeOK /\ InFlightHasRequest /\ [Next]_vars => InFlightHasRequest'
<1> SUFFICES ASSUME TypeOK, InFlightHasRequest, [Next]_vars, NEW r \in Requests, InFlight(r)'
             PROVE  req'[r] \in Request
  BY DEF InFlightHasRequest
<1>1. CASE InFlight(r) /\ req'[r] = req[r]
  BY <1>1 DEF InFlightHasRequest
<1>2. CASE \E c \in Conns, d \in Devices, enable \in BOOLEAN : Execute(r, c, d, enable)
  <2>1. PICK c \in Conns, d \in Devices, enable \in BOOLEAN : Execute(r, c, d, enable)
    BY <1>2
  <2>2. [dev |-> d, conn |-> c, enable |-> enable] \in Request
    BY DEF Request
  <2>3. req'[r] = [dev |-> d, conn |-> c, enable |-> enable]
    BY <2>1, TypeParts DEF Execute, PipelineTypes
  <2> QED
    BY <2>2, <2>3
<1> QED
  BY <1>1, <1>2, RequestsStay

(* Only one request at a time is past the lock of a device.                *)
LEMMA LockStep ==
    TypeOK /\ OneAtATime /\ [Next]_vars => OneAtATime'
<1> SUFFICES ASSUME TypeOK, OneAtATime, [Next]_vars,
                    NEW r1 \in Requests, NEW r2 \in Requests, r1 # r2,
                    InFlight(r1)', InFlight(r2)', req'[r1].dev = req'[r2].dev
             PROVE  FALSE
  BY DEF OneAtATime
<1>1. ASSUME NEW r \in Requests, NEW q \in Requests, q # r, InFlight(q)',
             req'[r].dev = req'[q].dev,
             \E c \in Conns, d \in Devices, enable \in BOOLEAN : Execute(r, c, d, enable)
      PROVE  FALSE
  <2>1. PICK c \in Conns, d \in Devices, enable \in BOOLEAN : Execute(r, c, d, enable)
    BY <1>1
  <2>2. req'[r].dev = d /\ pc'[q] = pc[q] /\ req'[q] = req[q]
    BY <1>1, <2>1, TypeParts DEF Execute, PipelineTypes
  <2>3. q \in OnDevice(d)
    BY <1>1, <2>2 DEF OnDevice, InFlight
  <2> QED
    BY <2>1, <2>3 DEF Execute, Locked
<1>2. CASE InFlight(r1) /\ req'[r1] = req[r1] /\ InFlight(r2) /\ req'[r2] = req[r2]
  BY <1>2 DEF OneAtATime
<1> QED
  BY <1>1, <1>2, RequestsStay

--------------------------------------------------------------------------------
(* A request that believes it was not overtaken believed so before the     *)
(* step, unless this step admitted it: the generation of a device only     *)
(* moves forward under a running handler.                                  *)
LEMMA BeliefStays ==
    ASSUME TypeOK, [Next]_vars, NEW r \in Requests, NotOvertaken(r)'
    PROVE  \/ NotOvertaken(r) /\ req'[r] = req[r]
           \/ \E c \in Conns, d \in Devices, enable \in BOOLEAN : Execute(r, c, d, enable)
<1> DEFINE Stays == NotOvertaken(r) /\ req'[r] = req[r]
<1> DEFINE Admitted ==
      \E c \in Conns, d \in Devices, enable \in BOOLEAN : Execute(r, c, d, enable)
<1>t. PipelineTypes
  BY TypeParts
<1>1. ASSUME UNCHANGED pipelineVars, superseded \subseteq superseded' PROVE Stays
  BY <1>1 DEF pipelineVars, NotOvertaken, Handling
<1>2. ASSUME NEW rs, Retire(rs) PROVE Stays
  <2>1. r \notin rs /\ pc'[r] = pc[r] /\ req'[r] = req[r]
    BY <1>2, <1>t, RetiredOrSame DEF NotOvertaken, Handling, InFlight
  <2> QED
    BY <1>2, <2>1 DEF Retire, NotOvertaken, Handling
<1>3. ASSUME NEW q \in Requests, NEW c \in Conns, NEW d \in Devices,
             NEW enable \in BOOLEAN, Execute(q, c, d, enable)
      PROVE  Stays \/ Admitted
  <2>1. CASE q = r
    BY <1>3, <2>1
  <2>2. CASE q # r
    BY <1>3, <1>t, <2>2 DEF Execute, PipelineTypes, NotOvertaken, Handling
  <2> QED
    BY <2>1, <2>2
<1>4. ASSUME NEW q \in Requests, HandlerWrites(q) PROVE Stays
  BY <1>4, <1>t DEF HandlerWrites, PipelineTypes, NotOvertaken, Handling
<1>5. ASSUME NEW q \in Requests, Revert(q) PROVE Stays
  BY <1>5, <1>t DEF Revert, ApplySafeState, PipelineTypes, NotOvertaken, Handling
<1>6. ASSUME NEW q \in Requests, Pipeline(q) PROVE Stays
  BY <1>2, <1>4, <1>5, <1>6 DEF Pipeline, HandlerFails, Complete, FinishRevert
<1>7. ASSUME NEW c \in Conns, Client(c) PROVE Stays
  BY <1>1, <1>2, <1>7
     DEF Client, Estop, LeaseRelease, Disconnect, DisconnectIdle, Connect,
         FinishDisconnect, Close, ApplySafeState
<1>8. CASE \/ UNCHANGED vars \/ EstopClear \/ SafetyTick
           \/ \E ds \in SUBSET Devices : OperatorArms(ds) \/ AuthorityEnds(ds)
           \/ \E l \in Leases : LeaseLapses(l)
           \/ \E k \in Callers, d \in Devices : SafeOne(k, d)
           \/ \E k \in Callers : FinishCall(k)
  <2>1. UNCHANGED pipelineVars /\ superseded \subseteq superseded'
    BY <1>8 DEF vars, EstopClear, SafetyTick, OperatorArms, AuthorityEnds, LeaseLapses,
                SafeOne, DeviceSafed, SafeStateFails, FinishCall, pipelineIdle, ApplySafeState
  <2> QED
    BY <1>1, <2>1
<1> QED
  BY <1>3, <1>6, <1>7, <1>8 DEF Next

(* Leases other than the dropped ones stay as they are.                    *)
LEMMA DropKeepsOthers ==
    ASSUME AuthTypeOK, NEW ls, Drop(ls), NEW l \in Leases, l \notin ls
    PROVE  held'[l] = held[l]
  BY DEF AuthTypeOK, Drop

LEMMA OvertakenStep ==
    /\ TypeOK /\ InFlightHasRequest /\ OneAtATime /\ OvertakenIsNoticed
    /\ [Next]_vars
    => OvertakenIsNoticed'
<1> SUFFICES ASSUME TypeOK, InFlightHasRequest, OneAtATime, OvertakenIsNoticed, [Next]_vars,
                    NEW r \in Requests, NotOvertaken(r)'
             PROVE  ~estop' /\ held'[r] = [dev |-> req'[r].dev, conn |-> req'[r].conn]
  BY DEF OvertakenIsNoticed
<1>t. AuthTypeOK /\ PipelineTypes
  BY TypeParts
<1>r. r \in Leases
  BY DEF Requests
<1>1. CASE \E c \in Conns, d \in Devices, enable \in BOOLEAN : Execute(r, c, d, enable)
  <2>1. PICK c \in Conns, d \in Devices, enable \in BOOLEAN : Execute(r, c, d, enable)
    BY <1>1
  <2>2. req'[r] = [dev |-> d, conn |-> c, enable |-> enable]
    BY <2>1, <1>t DEF Execute, PipelineTypes
  <2>3. Acquire(r, d, c)
    BY <2>1, <2>2 DEF Execute, NotOvertaken
  <2>4. ~estop' /\ held'[r] = [dev |-> d, conn |-> c]
    BY <2>3, <1>r, <1>t DEF Acquire, MayEnergise, AuthTypeOK
  <2> QED
    BY <2>2, <2>4
<1>2. CASE NotOvertaken(r) /\ req'[r] = req[r]
  <2> DEFINE Keeps == ~estop' /\ held'[r] = held[r]
  <2>b. /\ ~estop
        /\ held[r] = [dev |-> req[r].dev, conn |-> req[r].conn]
        /\ r \in HeldLeases
        /\ held[r].dev = req[r].dev /\ held[r].conn = req[r].conn
        /\ req[r].dev \in Devices /\ req[r].conn \in Conns
    <3>1. ~estop /\ held[r] = [dev |-> req[r].dev, conn |-> req[r].conn]
      BY <1>2 DEF OvertakenIsNoticed
    <3>2. req[r].dev \in Devices /\ req[r].conn \in Conns
      BY <1>2, RequestFields DEF InFlightHasRequest, NotOvertaken, Handling, InFlight
    <3>3. held[r] # Free
      BY <3>1, <3>2, FreeAssumption
    <3> QED
      BY <3>1, <3>2, <3>3, <1>r DEF HeldLeases
  <2>h. Handling(r) /\ Handling(r)' /\ r \notin superseded'
    BY <1>2 DEF NotOvertaken
  <2>1. ASSUME UNCHANGED <<estop, held>> PROVE Keeps
    BY <2>1, <2>b
  <2>2. ASSUME NEW ls, Drop(ls), r \notin ls, estop' = estop PROVE Keeps
    BY <2>2, <2>b, <1>t, <1>r, DropKeepsOthers
  <2>3. ASSUME NEW k \in Callers, NEW ds, ApplySafeState(k, ds) PROVE req[r].dev \notin ds
    BY <2>3, <2>h DEF ApplySafeState
  <2>4. ASSUME NEW rs, Retire(rs) PROVE r \notin rs
    BY <2>4, <2>h, <1>t, RetiredOrSame DEF Handling, InFlight
  <2>5. ASSUME NEW q \in Requests, NEW c \in Conns, NEW d \in Devices,
               NEW enable \in BOOLEAN, Execute(q, c, d, enable)
        PROVE  Keeps
    <3>1. q # r
      BY <2>5, <2>h DEF Execute, Handling
    <3> QED
      BY <2>5, <2>b, <3>1, <1>t, <1>r DEF Execute, Acquire, AuthTypeOK, authVars
  <2>6. ASSUME NEW q \in Requests, HandlerWrites(q) PROVE Keeps
    BY <2>1, <2>6 DEF HandlerWrites, authVars
  <2>7. ASSUME NEW q \in Requests, HandlerFails(q) PROVE Keeps
    BY <2>2, <2>4, <2>7 DEF HandlerFails, Abandoned
  <2>8. ASSUME NEW q \in Requests, Complete(q) PROVE Keeps
    <3>1. CASE req[q].enable
      BY <2>1, <2>8, <3>1 DEF Complete, authVars
    <3>2. CASE ~req[q].enable
      <4>1. q # r
        BY <2>4, <2>8 DEF Complete
      <4>2. req[q].dev # req[r].dev
        BY <4>1, <2>8, <2>h DEF OneAtATime, Complete, InFlight, Handling
      <4>3. r \notin LeasesOf(req[q].dev)
        BY <4>2, <2>b DEF LeasesOf
      <4> QED
        BY <2>2, <2>8, <3>2, <4>3 DEF Complete, ReleaseDevice
    <3> QED
      BY <3>1, <3>2
  <2>9. ASSUME NEW q \in Requests, Revert(q) PROVE Keeps
    <3>1. q # r
      BY <2>9, <2>h, <1>t DEF Revert, Handling, PipelineTypes
    <3> QED
      BY <2>2, <2>9, <3>1 DEF Revert, Abandoned
  <2>10. ASSUME NEW q \in Requests, FinishRevert(q) PROVE Keeps
    BY <2>1, <2>10 DEF FinishRevert, authVars
  <2>11. ASSUME NEW c \in Conns, Estop(c) PROVE FALSE
    BY <2>3, <2>11, <2>b, CallersAreCallers DEF Estop
  <2>12. ASSUME NEW c \in Conns, NEW l \in Leases, LeaseRelease(c, l) PROVE Keeps
    <3>1. l # r
      BY <2>3, <2>12, <2>b, CallersAreCallers DEF LeaseRelease
    <3> QED
      BY <2>2, <2>12, <3>1 DEF LeaseRelease, Release
  <2>13. ASSUME SafetyTick PROVE Keeps
    <3>1. r \notin lapsed
      BY <2>3, <2>13, <2>b, CallersAreCallers DEF SafetyTick
    <3> QED
      BY <2>2, <2>13, <3>1 DEF SafetyTick, Reap
  <2>14. ASSUME NEW c \in Conns, Disconnect(c) PROVE Keeps
    <3>1. r \notin OwnedBy(c)
      BY <2>3, <2>14, <2>b, CallersAreCallers DEF Disconnect
    <3> QED
      BY <2>2, <2>14, <3>1 DEF Disconnect, TakeForConnection
  <2>15. ASSUME NEW c \in Conns, NEW ks, Close(c, ks), Drop(Abandoned(Cancelled(c))),
                estop' = estop
         PROVE  Keeps
    <3>1. r \notin Cancelled(c)
      BY <2>4, <2>15 DEF Close
    <3> QED
      BY <2>2, <2>15, <3>1 DEF Abandoned
  <2>16. ASSUME NEW c \in Conns, Client(c) PROVE Keeps
    BY <2>1, <2>11, <2>12, <2>14, <2>15, <2>16
       DEF Client, DisconnectIdle, Connect, FinishDisconnect, authVars
  <2>17. ASSUME \/ UNCHANGED vars
                \/ \E k \in Callers, d \in Devices : SafeOne(k, d)
                \/ \E k \in Callers : FinishCall(k)
         PROVE  Keeps
    BY <2>1, <2>17 DEF vars, SafeOne, DeviceSafed, SafeStateFails, FinishCall, authVars
  <2>18. ASSUME \/ EstopClear
                \/ \E ds \in SUBSET Devices : OperatorArms(ds) \/ AuthorityEnds(ds)
                \/ \E l \in Leases : LeaseLapses(l)
         PROVE  Keeps
    BY <2>18, <2>b DEF EstopClear, AcknowledgeEstop, OperatorArms, AuthorityEnds,
                       LeaseLapses, Arm, Disarm, Elapse
  <2>19. Keeps
    BY <2>5, <2>6, <2>7, <2>8, <2>9, <2>10, <2>13, <2>16, <2>17, <2>18 DEF Next, Pipeline
  <2> QED
    BY <1>2, <2>19, <2>b
<1> QED
  BY <1>1, <1>2, BeliefStays

--------------------------------------------------------------------------------
(* Leases enter the table only with the request they are named after.      *)
LEMMA LeaseStays ==
    ASSUME TypeOK, [Next]_vars, NEW l \in Leases, held'[l] # Free
    PROVE  \/ held'[l] = held[l]
           \/ \E c \in Conns, d \in Devices : Execute(l, c, d, TRUE)
<1> DEFINE Stays == held'[l] = held[l]
<1> DEFINE Admitted == \E c \in Conns, d \in Devices : Execute(l, c, d, TRUE)
<1>t. AuthTypeOK
  BY TypeParts
<1>1. ASSUME UNCHANGED held PROVE Stays
  BY <1>1
<1>2. ASSUME NEW ls, Drop(ls) PROVE Stays
  BY <1>2, <1>t DEF Drop, AuthTypeOK
<1>3. ASSUME NEW q \in Requests, NEW c \in Conns, NEW d \in Devices,
             NEW enable \in BOOLEAN, Execute(q, c, d, enable)
      PROVE  Stays \/ Admitted
  <2>1. CASE ~enable
    BY <1>1, <1>3, <2>1 DEF Execute, authVars
  <2>2. CASE enable /\ q = l
    BY <1>3, <2>2
  <2>3. CASE enable /\ q # l
    BY <1>3, <2>3, <1>t DEF Execute, Acquire, AuthTypeOK
  <2> QED
    BY <2>1, <2>2, <2>3
<1>4. ASSUME NEW q \in Requests, Pipeline(q) PROVE Stays
  BY <1>1, <1>2, <1>4 DEF Pipeline, HandlerWrites, HandlerFails, Complete, Revert,
                          FinishRevert, ReleaseDevice, authVars
<1>5. ASSUME NEW c \in Conns, Client(c) PROVE Stays
  BY <1>1, <1>2, <1>5
     DEF Client, Estop, LeaseRelease, Disconnect, DisconnectIdle, Connect, FinishDisconnect,
         EngageEstop, Release, TakeForConnection, authVars
<1>6. CASE \/ UNCHANGED vars \/ EstopClear
           \/ \E ds \in SUBSET Devices : OperatorArms(ds) \/ AuthorityEnds(ds)
           \/ \E m \in Leases : LeaseLapses(m)
           \/ \E k \in Callers, d \in Devices : SafeOne(k, d)
           \/ \E k \in Callers : FinishCall(k)
  BY <1>1, <1>6 DEF vars, authVars, EstopClear, AcknowledgeEstop, OperatorArms, Arm,
                    AuthorityEnds, Disarm, LeaseLapses, Elapse, SafeOne, DeviceSafed,
                    SafeStateFails, FinishCall
<1>7. CASE SafetyTick
  BY <1>2, <1>7 DEF SafetyTick, Reap
<1> QED
  BY <1>3, <1>4, <1>5, <1>6, <1>7 DEF Next

(* A latched stop and a lease never coexist.                               *)
LEMMA StopStep == TypeOK /\ StopHoldsNothing /\ [Next]_vars => StopHoldsNothing'
<1> SUFFICES ASSUME TypeOK, StopHoldsNothing, [Next]_vars, estop',
                    NEW l \in Leases, held'[l] # Free
             PROVE  FALSE
  BY DEF StopHoldsNothing, HeldLeases
<1>1. CASE \E c \in Conns, d \in Devices : Execute(l, c, d, TRUE)
  BY <1>1 DEF Execute, Acquire, MayEnergise
<1>2. CASE held'[l] = held[l] /\ estop
  BY <1>2 DEF StopHoldsNothing, HeldLeases
<1>3. ASSUME NEW c \in Conns, Estop(c) PROVE FALSE
  BY <1>3, TypeParts DEF Estop, EngageEstop, Drop, HeldLeases, AuthTypeOK
<1>4. ASSUME NEW c \in Conns, Client(c), ~Estop(c) PROVE estop
  BY <1>4 DEF Client, LeaseRelease, Disconnect, DisconnectIdle, Connect, FinishDisconnect,
              Release, TakeForConnection, authVars
<1>5. ASSUME NEW q \in Requests, Pipeline(q) PROVE estop
  BY <1>5 DEF Pipeline, HandlerWrites, HandlerFails, Complete, Revert, FinishRevert,
              ReleaseDevice, authVars
<1>6. ASSUME NEW q \in Requests, NEW c \in Conns, NEW d \in Devices,
             NEW enable \in BOOLEAN, Execute(q, c, d, enable)
      PROVE  estop
  BY <1>6 DEF Execute, Acquire, authVars
<1>7. CASE \/ UNCHANGED vars \/ EstopClear \/ SafetyTick
           \/ \E ds \in SUBSET Devices : OperatorArms(ds) \/ AuthorityEnds(ds)
           \/ \E m \in Leases : LeaseLapses(m)
           \/ \E k \in Callers, d \in Devices : SafeOne(k, d)
           \/ \E k \in Callers : FinishCall(k)
  <2>1. estop
    BY <1>7 DEF vars, authVars, EstopClear, AcknowledgeEstop, OperatorArms, Arm,
                AuthorityEnds, Disarm, LeaseLapses, Elapse, SafeOne, DeviceSafed,
                SafeStateFails, FinishCall, SafetyTick, Reap
  <2>2. ~ \E c \in Conns, d \in Devices : Execute(l, c, d, TRUE)
    BY <1>1
  <2> QED
    BY <1>2, <2>1, <2>2, LeaseStays
<1>8. estop
  BY <1>3, <1>4, <1>5, <1>6, <1>7 DEF Next
<1> QED
  BY <1>1, <1>2, <1>8, LeaseStays

(* An output its request switched off stays off until that request ends.   *)
LEMMA WrittenOffStep ==
    TypeOK /\ InFlightHasRequest /\ OneAtATime /\ WrittenOff /\ [Next]_vars => WrittenOff'
<1> SUFFICES ASSUME TypeOK, InFlightHasRequest, OneAtATime, WrittenOff, [Next]_vars,
                    NEW r \in Requests, pc'[r] = "written", ~req'[r].enable
             PROVE  ~rail'[req'[r].dev]
  BY DEF WrittenOff
<1>t. PipelineTypes /\ OutsideTypes
  BY TypeParts
<1>1. InFlight(r)' /\ InFlight(r) /\ req'[r] = req[r]
  <2>1. ASSUME NEW c \in Conns, NEW d \in Devices, NEW enable \in BOOLEAN,
               Execute(r, c, d, enable)
        PROVE  FALSE
    BY <2>1, <1>t DEF Execute, PipelineTypes
  <2> QED
    BY <2>1, RequestsStay DEF InFlight
<1>2. req[r].dev \in Devices
  BY <1>1, RequestFields DEF InFlightHasRequest
<1>3. ASSUME NEW q \in Requests, HandlerWrites(q) PROVE ~rail'[req[r].dev]
  <2>1. CASE q = r
    BY <1>1, <1>2, <1>3, <1>t, <2>1 DEF HandlerWrites, Switch, OutsideTypes
  <2>2. CASE q # r
    <3>1. pc[r] = "written" /\ InFlight(q)
      BY <1>3, <1>t, <2>2 DEF HandlerWrites, PipelineTypes, InFlight
    <3>2. req[q].dev # req[r].dev /\ ~rail[req[r].dev]
      BY <1>1, <2>2, <3>1 DEF OneAtATime, WrittenOff
    <3> QED
      BY <1>2, <1>3, <1>t, <3>2 DEF HandlerWrites, Switch, OutsideTypes
  <2> QED
    BY <2>1, <2>2
<1>4. ASSUME ~ \E q \in Requests : HandlerWrites(q) PROVE pc[r] = "written"
  <2>1. ASSUME NEW rs, Retire(rs) PROVE pc[r] = "written"
    BY <2>1, <1>t DEF Retire, PipelineTypes
  <2>2. ASSUME UNCHANGED pc PROVE pc[r] = "written"
    BY <2>2
  <2>3. ASSUME NEW q \in Requests, NEW c \in Conns, NEW d \in Devices,
               NEW enable \in BOOLEAN, Execute(q, c, d, enable)
        PROVE  pc[r] = "written"
    BY <2>3, <1>t DEF Execute, PipelineTypes
  <2>4. ASSUME NEW q \in Requests, Pipeline(q) PROVE pc[r] = "written"
    BY <1>4, <2>1, <2>4, <1>t
       DEF Pipeline, HandlerFails, Complete, Revert, FinishRevert, PipelineTypes
  <2>5. ASSUME NEW c \in Conns, Client(c) PROVE pc[r] = "written"
    BY <2>1, <2>2, <2>5
       DEF Client, Estop, LeaseRelease, Disconnect, DisconnectIdle, Connect,
           FinishDisconnect, Close, pipelineVars
  <2>6. CASE \/ UNCHANGED vars \/ EstopClear \/ SafetyTick
             \/ \E ds \in SUBSET Devices : OperatorArms(ds) \/ AuthorityEnds(ds)
             \/ \E m \in Leases : LeaseLapses(m)
             \/ \E k \in Callers, d \in Devices : SafeOne(k, d)
             \/ \E k \in Callers : FinishCall(k)
    BY <2>2, <2>6
       DEF vars, EstopClear, SafetyTick, OperatorArms, AuthorityEnds, LeaseLapses, SafeOne,
           DeviceSafed, SafeStateFails, FinishCall, pipelineIdle, pipelineVars
  <2> QED
    BY <2>3, <2>4, <2>5, <2>6 DEF Next
<1>5. ASSUME ~ \E q \in Requests : HandlerWrites(q), NEW d \in Devices, rail'[d] PROVE rail[d]
  <2>1. ASSUME NEW k \in Callers, NEW e \in Devices, SafeOne(k, e) PROVE rail[d]
    BY <1>5, <2>1, <1>t DEF SafeOne, DeviceSafed, SafeStateFails, Switch, OutsideTypes
  <2>2. ASSUME UNCHANGED rail PROVE rail[d]
    BY <1>5, <2>2
  <2>3. ASSUME NEW q \in Requests, Pipeline(q) PROVE rail[d]
    BY <1>5, <2>2, <2>3 DEF Pipeline, HandlerFails, Complete, Revert, FinishRevert
  <2>4. ASSUME NEW c \in Conns, Client(c) PROVE rail[d]
    BY <2>2, <2>4
       DEF Client, Estop, LeaseRelease, Disconnect, DisconnectIdle, Connect, FinishDisconnect
  <2>5. CASE \/ UNCHANGED vars \/ EstopClear \/ SafetyTick
             \/ \E ds \in SUBSET Devices : OperatorArms(ds) \/ AuthorityEnds(ds)
             \/ \E m \in Leases : LeaseLapses(m)
             \/ \E k \in Callers : FinishCall(k)
    BY <2>2, <2>5 DEF vars, EstopClear, SafetyTick, OperatorArms, AuthorityEnds, LeaseLapses,
                      FinishCall, pipelineIdle
  <2>6. CASE \E q \in Requests, c \in Conns, e \in Devices, enable \in BOOLEAN :
                Execute(q, c, e, enable)
    BY <2>2, <2>6 DEF Execute
  <2> QED
    BY <2>1, <2>3, <2>4, <2>5, <2>6 DEF Next
<1>6. CASE \E q \in Requests : HandlerWrites(q)
  BY <1>1, <1>3, <1>6
<1>7. CASE ~ \E q \in Requests : HandlerWrites(q)
  <2>1. ~rail[req[r].dev]
    BY <1>1, <1>4, <1>7 DEF WrittenOff
  <2> QED
    BY <1>1, <1>2, <1>5, <1>7, <2>1
<1> QED
  BY <1>6, <1>7

(* The lease of a request in flight is its own, and a request that was     *)
(* overtaken has given it back.                                            *)
LEMMA OwnLeaseStep ==
    TypeOK /\ InFlightHasRequest /\ OwnLease /\ [Next]_vars => OwnLease'
<1> SUFFICES ASSUME TypeOK, InFlightHasRequest, OwnLease, [Next]_vars,
                    NEW r \in Requests, InFlight(r)', req'[r].enable, held'[r] # Free
             PROVE  held'[r].dev = req'[r].dev /\ pc'[r] # "reverting"
  BY DEF OwnLease
<1>t. AuthTypeOK /\ PipelineTypes
  BY TypeParts
<1>r. r \in Leases
  BY DEF Requests
<1>1. ASSUME NEW c \in Conns, NEW d \in Devices, NEW enable \in BOOLEAN,
             Execute(r, c, d, enable)
      PROVE  held'[r].dev = req'[r].dev /\ pc'[r] # "reverting"
  <2>1. req'[r] = [dev |-> d, conn |-> c, enable |-> enable] /\ pc'[r] = "admitted"
    BY <1>1, <1>t DEF Execute, PipelineTypes
  <2>2. Acquire(r, d, c)
    BY <1>1, <2>1 DEF Execute
  <2> QED
    BY <2>1, <2>2, <1>t, <1>r DEF Acquire, AuthTypeOK
<1>2. CASE InFlight(r) /\ req'[r] = req[r] /\ held'[r] = held[r]
  <2>1. held[r].dev = req[r].dev /\ pc[r] # "reverting"
    BY <1>2 DEF OwnLease
  <2> DEFINE Stays == pc'[r] # "reverting"
  <2>2. ASSUME UNCHANGED pc PROVE Stays
    BY <2>1, <2>2
  <2>3. ASSUME NEW rs, Retire(rs) PROVE Stays
    BY <2>1, <2>3, <1>t DEF Retire, PipelineTypes
  <2>4. ASSUME NEW q \in Requests, NEW c \in Conns, NEW d \in Devices,
               NEW enable \in BOOLEAN, Execute(q, c, d, enable)
        PROVE  Stays
    BY <2>1, <2>4, <1>t DEF Execute, PipelineTypes
  <2>5. ASSUME NEW q \in Requests, HandlerWrites(q) PROVE Stays
    BY <2>1, <2>5, <1>t DEF HandlerWrites, PipelineTypes
  <2>6. ASSUME NEW q \in Requests, Revert(q) PROVE Stays
    <3>1. q # r
      BY <1>2, <2>6, <1>t, <1>r DEF Revert, Drop, Abandoned, AuthTypeOK
    <3> QED
      BY <2>1, <2>6, <3>1, <1>t DEF Revert, PipelineTypes
  <2>7. ASSUME NEW q \in Requests, Pipeline(q) PROVE Stays
    BY <2>3, <2>5, <2>6, <2>7 DEF Pipeline, HandlerFails, Complete, FinishRevert
  <2>8. ASSUME NEW c \in Conns, Client(c) PROVE Stays
    BY <2>2, <2>3, <2>8
       DEF Client, Estop, LeaseRelease, Disconnect, DisconnectIdle, Connect,
           FinishDisconnect, Close, pipelineVars
  <2>9. ASSUME \/ UNCHANGED vars \/ EstopClear \/ SafetyTick
               \/ \E ds \in SUBSET Devices : OperatorArms(ds) \/ AuthorityEnds(ds)
               \/ \E m \in Leases : LeaseLapses(m)
               \/ \E k \in Callers, d \in Devices : SafeOne(k, d)
               \/ \E k \in Callers : FinishCall(k)
        PROVE  Stays
    BY <2>2, <2>9
       DEF vars, EstopClear, SafetyTick, OperatorArms, AuthorityEnds, LeaseLapses, SafeOne,
           DeviceSafed, SafeStateFails, FinishCall, pipelineIdle, pipelineVars
  <2>10. Stays
    BY <2>4, <2>7, <2>8, <2>9 DEF Next
  <2> QED
    BY <1>2, <2>1, <2>10
<1> QED
  BY <1>1, <1>2, <1>r, LeaseStays, RequestsStay

--------------------------------------------------------------------------------
(* Callers that were not waiting are not waiting after a call was          *)
(* forgotten, and a new call is that of one caller only.                   *)
LEMMA ForgetRunning ==
    ASSUME CallTypes, NEW ks, ForgetCalls(ks), NEW k \in Callers, Running(k)'
    PROVE  Running(k) /\ k \notin ks
  BY DEF CallTypes, ForgetCalls, Running

LEMMA ApplyRunning ==
    ASSUME CallTypes, NEW k \in Callers, NEW ds, ApplySafeState(k, ds),
           NEW j \in Callers, j # k
    PROVE  /\ pending'[j] = pending[j] /\ safe'[j] = safe[j] /\ failed'[j] = failed[j]
           /\ Running(j)' => Running(j)
  BY DEF CallTypes, ApplySafeState, Running

LEMMA DifferentCallers ==
    ASSUME NEW r, NEW c, NEW x
    PROVE  /\ Reverting(r) # RpcOf(c) /\ Reverting(r) # GoneOf(c) /\ Reverting(r) # Timer
           /\ RpcOf(x) # GoneOf(c) /\ RpcOf(c) # Timer /\ GoneOf(c) # Timer
           /\ Reverting(r) = Reverting(x) => r = x
           /\ GoneOf(c) = GoneOf(x) => c = x
  BY DEF Reverting, RpcOf, GoneOf, Timer

(* A caller waiting for a safe state was waiting before the step, unless   *)
(* the step is the one that called apply_safe_state.                       *)
LEMMA WaitingStays ==
    ASSUME TypeOK, [Next]_vars, NEW k \in Callers, Running(k)'
    PROVE  \/ Running(k)
           \/ \E r \in Requests : k = Reverting(r) /\ Revert(r)
           \/ \E c \in Conns : k = GoneOf(c) /\ Disconnect(c)
           \/ k = Timer \/ \E c \in Conns : k = RpcOf(c)
<1> DEFINE Called == \/ \E r \in Requests : k = Reverting(r) /\ Revert(r)
                     \/ \E c \in Conns : k = GoneOf(c) /\ Disconnect(c)
                     \/ k = Timer \/ \E c \in Conns : k = RpcOf(c)
<1>t. CallTypes
  BY TypeParts
<1>1. ASSUME UNCHANGED callVars PROVE Running(k)
  BY <1>1 DEF callVars, Running
<1>2. ASSUME NEW ks, ForgetCalls(ks) PROVE Running(k)
  BY <1>2, <1>t, ForgetRunning
<1>3. ASSUME NEW j \in Callers, NEW ds, ApplySafeState(j, ds) PROVE Running(k) \/ k = j
  BY <1>3, <1>t, ApplyRunning
<1>4. ASSUME NEW j \in Callers, NEW d \in Devices, SafeOne(j, d) PROVE Running(k)
  BY <1>4, <1>t DEF SafeOne, DeviceSafed, SafeStateFails, CallTypes, Running
<1>5. ASSUME NEW q \in Requests, Revert(q) PROVE Running(k) \/ Called
  BY <1>3, <1>5, CallersAreCallers DEF Revert
<1>6. ASSUME NEW q \in Requests, Pipeline(q) PROVE Running(k) \/ Called
  BY <1>1, <1>2, <1>5, <1>6 DEF Pipeline, HandlerWrites, HandlerFails, Complete, FinishRevert
<1>7. ASSUME NEW c \in Conns, Disconnect(c) PROVE Running(k) \/ Called
  BY <1>3, <1>7, CallersAreCallers DEF Disconnect
<1>8. ASSUME NEW c \in Conns, Estop(c) \/ \E l \in Leases : LeaseRelease(c, l)
      PROVE  Running(k) \/ Called
  BY <1>3, <1>8, CallersAreCallers DEF Estop, LeaseRelease
<1>9. ASSUME NEW c \in Conns, Client(c) PROVE Running(k) \/ Called
  BY <1>1, <1>2, <1>7, <1>8, <1>9
     DEF Client, DisconnectIdle, Connect, FinishDisconnect, Close
<1>10. CASE SafetyTick
  BY <1>3, <1>10, CallersAreCallers DEF SafetyTick
<1>11. CASE \/ UNCHANGED vars \/ EstopClear
            \/ \E ds \in SUBSET Devices : OperatorArms(ds) \/ AuthorityEnds(ds)
            \/ \E m \in Leases : LeaseLapses(m)
            \/ \E q \in Requests, c \in Conns, d \in Devices, enable \in BOOLEAN :
                  Execute(q, c, d, enable)
  BY <1>1, <1>11 DEF vars, EstopClear, OperatorArms, AuthorityEnds, LeaseLapses, Execute,
                     pipelineIdle
<1>12. CASE \E j \in Callers : FinishCall(j)
  BY <1>2, <1>12 DEF FinishCall
<1> QED
  BY <1>4, <1>6, <1>9, <1>10, <1>11, <1>12 DEF Next

LEMMA CallsStep == TypeOK /\ CallsBelong /\ [Next]_vars => CallsBelong'
<1> SUFFICES ASSUME TypeOK, CallsBelong, [Next]_vars PROVE CallsBelong'
  OBVIOUS
<1>t. PipelineTypes /\ OutsideTypes /\ CallTypes
  BY TypeParts
<1>1. ASSUME NEW r \in Requests, Running(Reverting(r))' PROVE pc'[r] = "reverting"
  <2>1. CASE Revert(r)
    BY <2>1, <1>t DEF Revert, PipelineTypes
  <2>2. CASE Running(Reverting(r))
    <3>0. pc[r] = "reverting"
      BY <2>2 DEF CallsBelong
    <3> DEFINE Stays == pc'[r] = "reverting"
    <3>1. ASSUME UNCHANGED pc PROVE Stays
      BY <3>0, <3>1
    <3>2. ASSUME NEW rs, Retire(rs), r \notin rs PROVE Stays
      BY <3>0, <3>2, <1>t DEF Retire, PipelineTypes
    <3>4. ASSUME NEW q \in Requests, NEW c \in Conns, NEW d \in Devices,
                 NEW enable \in BOOLEAN, Execute(q, c, d, enable)
          PROVE  Stays
      BY <3>0, <3>4, <1>t DEF Execute, PipelineTypes
    <3>5. ASSUME NEW q \in Requests, HandlerWrites(q) PROVE Stays
      BY <3>0, <3>5, <1>t DEF HandlerWrites, PipelineTypes
    <3>6. ASSUME NEW q \in Requests, Revert(q) PROVE Stays
      BY <3>0, <3>6, <1>t DEF Revert, PipelineTypes
    <3>7. ASSUME NEW q \in Requests, HandlerFails(q) \/ Complete(q) PROVE Stays
      BY <3>0, <3>2, <3>7 DEF HandlerFails, Complete, Handling
    <3>8. ASSUME NEW q \in Requests, FinishRevert(q) PROVE Stays
      <4>1. Reverting(r) \notin {Reverting(q)}
        BY <1>1, <3>8, <1>t, ForgetRunning, CallersAreCallers DEF FinishRevert
      <4> QED
        BY <3>2, <3>8, <4>1 DEF FinishRevert
    <3>9. ASSUME NEW c \in Conns, NEW ks, Close(c, ks) PROVE Stays
      <4>1. Reverting(r) \notin CancelledCalls(c) \cup ks
        BY <1>1, <3>9, <1>t, ForgetRunning, CallersAreCallers DEF Close
      <4>2. r \notin Cancelled(c)
        BY <4>1 DEF CancelledCalls
      <4> QED
        BY <3>2, <3>9, <4>2 DEF Close
    <3>10. ASSUME NEW c \in Conns, Client(c) PROVE Stays
      BY <3>1, <3>9, <3>10
         DEF Client, Estop, LeaseRelease, Disconnect, DisconnectIdle, Connect,
             FinishDisconnect, pipelineVars
    <3>11. CASE \/ UNCHANGED vars \/ EstopClear \/ SafetyTick
                \/ \E ds \in SUBSET Devices : OperatorArms(ds) \/ AuthorityEnds(ds)
                \/ \E m \in Leases : LeaseLapses(m)
                \/ \E k \in Callers, d \in Devices : SafeOne(k, d)
                \/ \E k \in Callers : FinishCall(k)
      BY <3>1, <3>11
         DEF vars, EstopClear, SafetyTick, OperatorArms, AuthorityEnds, LeaseLapses, SafeOne,
             DeviceSafed, SafeStateFails, FinishCall, pipelineIdle, pipelineVars
    <3> QED
      BY <3>4, <3>5, <3>6, <3>7, <3>8, <3>10, <3>11 DEF Next, Pipeline
  <2> QED
    BY <1>1, <2>1, <2>2, WaitingStays, CallersAreCallers, DifferentCallers
<1>2. ASSUME NEW c \in Conns, Running(GoneOf(c))' PROVE link'[c] = "leaving"
  <2>1. CASE Disconnect(c)
    BY <2>1, <1>t DEF Disconnect, OutsideTypes
  <2>2. CASE Running(GoneOf(c))
    <3>0. link[c] = "leaving"
      BY <2>2 DEF CallsBelong
    <3> DEFINE Stays == link'[c] = "leaving"
    <3>1. ASSUME UNCHANGED link PROVE Stays
      BY <3>0, <3>1
    <3>2. ASSUME NEW b \in Conns, Disconnect(b) \/ Connect(b) \/ DisconnectIdle(b)
          PROVE  Stays
      BY <3>0, <3>2, <1>t DEF Disconnect, Connect, DisconnectIdle, Close, OutsideTypes
    <3>3. ASSUME NEW b \in Conns, FinishDisconnect(b) PROVE Stays
      <4>1. GoneOf(c) \notin CancelledCalls(b) \cup {GoneOf(b)}
        BY <1>2, <3>3, <1>t, ForgetRunning, CallersAreCallers DEF FinishDisconnect, Close
      <4>2. b # c
        BY <4>1
      <4> QED
        BY <3>0, <3>3, <4>2, <1>t DEF FinishDisconnect, Close, OutsideTypes
    <3>4. ASSUME NEW b \in Conns, Client(b) PROVE Stays
      BY <3>1, <3>2, <3>3, <3>4 DEF Client, Estop, LeaseRelease
    <3>5. ASSUME NEW q \in Requests, Pipeline(q) PROVE Stays
      BY <3>1, <3>5
         DEF Pipeline, HandlerWrites, HandlerFails, Complete, Revert, FinishRevert
    <3>6. CASE \/ UNCHANGED vars \/ EstopClear \/ SafetyTick
               \/ \E ds \in SUBSET Devices : OperatorArms(ds) \/ AuthorityEnds(ds)
               \/ \E m \in Leases : LeaseLapses(m)
               \/ \E q \in Requests, b \in Conns, d \in Devices, enable \in BOOLEAN :
                     Execute(q, b, d, enable)
               \/ \E k \in Callers, d \in Devices : SafeOne(k, d)
               \/ \E k \in Callers : FinishCall(k)
      BY <3>1, <3>6
         DEF vars, EstopClear, SafetyTick, OperatorArms, AuthorityEnds, LeaseLapses, Execute,
             SafeOne, DeviceSafed, SafeStateFails, FinishCall, pipelineIdle
    <3> QED
      BY <3>4, <3>5, <3>6 DEF Next
  <2> QED
    BY <1>2, <2>1, <2>2, WaitingStays, CallersAreCallers, DifferentCallers
<1> QED
  BY <1>1, <1>2 DEF CallsBelong

--------------------------------------------------------------------------------
(* The heart of the argument, one lemma per kind of step: whatever step    *)
(* the daemon takes, an output that is live afterwards is answered for.    *)
Strengthening ==
    /\ TypeOK /\ InFlightHasRequest /\ OneAtATime /\ WrittenOff /\ OwnLease
    /\ CallsBelong /\ OvertakenIsNoticed /\ LiveIsAnsweredFor

(* A lease keeps sustaining its output through every step that neither     *)
(* drops it nor admits its request.                                        *)
LEMMA SustainedStays ==
    ASSUME NEW d, NEW l \in LeasesOf(d), ~(pc[l] = "admitted" /\ req[l].enable),
           held'[l] = held[l], l \in Requests,
           pc'[l] = "admitted" => pc[l] = "admitted" /\ req'[l] = req[l]
    PROVE  Sustained(d)'
<1>1. l \in LeasesOf(d)'
  BY DEF LeasesOf, HeldLeases
<1>2. ~(pc'[l] = "admitted" /\ req'[l].enable)
  OBVIOUS
<1> QED
  BY <1>1, <1>2 DEF Sustained

LEMMA SwitchingStays ==
    ASSUME NEW d, NEW r \in OnDevice(d), pc'[r] = "written", req'[r] = req[r],
           req[r].enable
    PROVE  Switching(d)'
<1>1. r \in OnDevice(d)'
  BY DEF OnDevice, InFlight
<1> QED
  BY <1>1 DEF Switching

(* Steps of the operator and of the clock touch neither outputs nor        *)
(* requests.                                                               *)
LEMMA AuthorityKeepsAnswered ==
    ASSUME LiveIsAnsweredFor, pipelineIdle, UNCHANGED held
    PROVE  LiveIsAnsweredFor'
  BY DEF LiveIsAnsweredFor, AnsweredFor, Sustained, Switching, BeingSafed, pipelineIdle,
         pipelineVars, callVars, historyVars, LeasesOf, HeldLeases, OnDevice, InFlight

LEMMA ExecuteKeepsAnswered ==
    ASSUME Strengthening, NEW r \in Requests, NEW c \in Conns, NEW e \in Devices,
           NEW enable \in BOOLEAN, Execute(r, c, e, enable)
    PROVE  LiveIsAnsweredFor'
<1> SUFFICES ASSUME NEW d \in Devices, rail'[d] PROVE AnsweredFor(d)'
  BY DEF LiveIsAnsweredFor
<1>t. AuthTypeOK /\ PipelineTypes
  BY TypeParts DEF Strengthening
<1>r. r \in Leases
  BY DEF Requests
<1>u. UNCHANGED <<rail, callVars, historyVars>>
  BY DEF Execute
<1>1. AnsweredFor(d)
  BY <1>u DEF Strengthening, LiveIsAnsweredFor
<1>2. CASE Sustained(d)
  <2>1. PICK l \in LeasesOf(d) : ~(pc[l] = "admitted" /\ req[l].enable)
    BY <1>2 DEF Sustained
  <2>2. l \in Requests
    BY DEF LeasesOf, HeldLeases, Requests
  <2>3. CASE l = r /\ ~enable
    <3>1. held'[l] = held[l]
      BY <2>3 DEF Execute, authVars
    <3>2. req'[l] = [dev |-> e, conn |-> c, enable |-> enable]
      BY <1>t, <2>2, <2>3 DEF Execute, PipelineTypes
    <3>3. ~req'[l].enable
      BY <2>3, <3>2
    <3> QED
      BY <3>1, <3>3 DEF AnsweredFor, Sustained, LeasesOf, HeldLeases
  <2>4. CASE l = r /\ enable
    BY <2>4 DEF Execute, Acquire, LeasesOf, HeldLeases
  <2>5. CASE l # r
    <3>1. held'[l] = held[l]
      BY <1>t, <1>r, <2>2, <2>5 DEF Execute, Acquire, authVars, AuthTypeOK, Requests
    <3>2. pc'[l] = pc[l] /\ req'[l] = req[l]
      BY <1>t, <2>2, <2>5 DEF Execute, PipelineTypes
    <3> QED
      BY <2>1, <2>2, <3>1, <3>2, SustainedStays DEF AnsweredFor
  <2> QED
    BY <2>3, <2>4, <2>5
<1>3. CASE Switching(d)
  <2>1. PICK q \in OnDevice(d) : pc[q] = "written" /\ req[q].enable
    BY <1>3 DEF Switching
  <2>2. q \in Requests /\ q # r
    BY <2>1 DEF OnDevice, Execute
  <2>3. pc'[q] = pc[q] /\ req'[q] = req[q]
    BY <1>t, <2>2 DEF Execute, PipelineTypes
  <2> QED
    BY <2>1, <2>3, SwitchingStays DEF AnsweredFor
<1>4. CASE BeingSafed(d) \/ d \in warned \/ d \in loose
  BY <1>4, <1>u DEF AnsweredFor, BeingSafed, callVars, historyVars
<1> QED
  BY <1>1, <1>2, <1>3, <1>4 DEF AnsweredFor

LEMMA WriteKeepsAnswered ==
    ASSUME Strengthening, NEW r \in Requests, HandlerWrites(r)
    PROVE  LiveIsAnsweredFor'
<1> SUFFICES ASSUME NEW d \in Devices, rail'[d] PROVE AnsweredFor(d)'
  BY DEF LiveIsAnsweredFor
<1>t. AuthTypeOK /\ PipelineTypes /\ OutsideTypes
  BY TypeParts DEF Strengthening
<1>w. pc'[r] = "written" /\ UNCHANGED <<req, held, pending, failed>>
  BY <1>t DEF HandlerWrites, PipelineTypes, authVars, callVars
<1>q. req[r].dev \in Devices /\ req[r].enable \in BOOLEAN
  BY RequestFields DEF Strengthening, InFlightHasRequest, HandlerWrites, InFlight
<1>o. ASSUME NEW q \in Requests, q # r PROVE pc'[q] = pc[q]
  BY <1>o, <1>t DEF HandlerWrites, PipelineTypes
<1>1. CASE d = req[r].dev
  <2>1. req[r].enable
    BY <1>1, <1>q, <1>t DEF HandlerWrites, Switch, OutsideTypes
  <2>2. r \in OnDevice(d)
    BY <1>1 DEF OnDevice, HandlerWrites, InFlight
  <2> QED
    BY <2>1, <2>2, <1>w, SwitchingStays DEF AnsweredFor
<1>2. CASE d # req[r].dev
  <2>1. rail[d] /\ (d \in warned => d \in warned') /\ (d \in loose => d \in loose')
    BY <1>2, <1>q, <1>t DEF HandlerWrites, Switch, OutsideTypes
  <2>2. AnsweredFor(d)
    BY <2>1 DEF Strengthening, LiveIsAnsweredFor
  <2>3. CASE Sustained(d)
    <3>1. PICK l \in LeasesOf(d) : ~(pc[l] = "admitted" /\ req[l].enable)
      BY <2>3 DEF Sustained
    <3>2. l \in Requests
      BY DEF LeasesOf, HeldLeases, Requests
    <3>3. pc'[l] = "admitted" => pc[l] = "admitted"
      BY <1>o, <1>w, <3>2
    <3> QED
      BY <1>w, <3>1, <3>2, <3>3, SustainedStays DEF AnsweredFor
  <2>4. CASE Switching(d)
    <3>1. PICK q \in OnDevice(d) : pc[q] = "written" /\ req[q].enable
      BY <2>4 DEF Switching
    <3>2. pc'[q] = "written"
      BY <1>o, <1>w, <3>1 DEF OnDevice
    <3> QED
      BY <1>w, <3>1, <3>2, SwitchingStays DEF AnsweredFor
  <2>5. CASE BeingSafed(d) \/ d \in warned \/ d \in loose
    BY <2>1, <2>5, <1>w DEF AnsweredFor, BeingSafed
  <2> QED
    BY <2>2, <2>3, <2>4, <2>5 DEF AnsweredFor
<1> QED
  BY <1>1, <1>2

(* Requests that end: what they sustained is accounted for before they go. *)
LEMMA RetireKeeps ==
    ASSUME PipelineTypes, NEW rs, Retire(rs), NEW q \in Requests
    PROVE  /\ pc'[q] = "admitted" => pc[q] = "admitted" /\ req'[q] = req[q]
           /\ q \notin rs => pc'[q] = pc[q] /\ req'[q] = req[q]
  BY DEF PipelineTypes, Retire

LEMMA FailKeepsAnswered ==
    ASSUME Strengthening, NEW r \in Requests, HandlerFails(r)
    PROVE  LiveIsAnsweredFor'
<1> SUFFICES ASSUME NEW d \in Devices, rail'[d] PROVE AnsweredFor(d)'
  BY DEF LiveIsAnsweredFor
<1>t. AuthTypeOK /\ PipelineTypes
  BY TypeParts DEF Strengthening
<1>w. /\ Retire({r}) /\ Drop(Abandoned({r}))
      /\ UNCHANGED <<rail, pending, failed, warned>> /\ loose \subseteq loose'
  BY DEF HandlerFails, callVars
<1>1. AnsweredFor(d)
  BY <1>w DEF Strengthening, LiveIsAnsweredFor
<1>2. ASSUME pc[r] = "written", req[r].enable, req[r].dev = d PROVE AnsweredFor(d)'
  BY <1>2, <1>w DEF HandlerFails, AnsweredFor
<1>3. CASE Sustained(d)
  <2>1. PICK l \in LeasesOf(d) : ~(pc[l] = "admitted" /\ req[l].enable)
    BY <1>3 DEF Sustained
  <2>2. l \in Requests /\ l \in Leases
    BY DEF LeasesOf, HeldLeases, Requests
  <2>3. CASE l \in Abandoned({r})
    <3>1. l = r /\ req[r].enable /\ pc[r] = "written"
      BY <2>1, <2>3 DEF Abandoned, HandlerFails, Handling
    <3>2. req[r].dev = d
      BY <2>1, <3>1 DEF Strengthening, OwnLease, InFlight, LeasesOf, HeldLeases
    <3> QED
      BY <1>2, <3>1, <3>2
  <2>4. CASE l \notin Abandoned({r})
    <3>1. held'[l] = held[l]
      BY <1>t, <1>w, <2>2, <2>4, DropKeepsOthers
    <3> QED
      BY <1>t, <1>w, <2>1, <2>2, <3>1, RetireKeeps, SustainedStays DEF AnsweredFor
  <2> QED
    BY <2>3, <2>4
<1>4. CASE Switching(d)
  <2>1. PICK q \in OnDevice(d) : pc[q] = "written" /\ req[q].enable
    BY <1>4 DEF Switching
  <2>2. CASE q = r
    BY <1>2, <2>1, <2>2 DEF OnDevice
  <2>3. CASE q # r
    <3>1. pc'[q] = pc[q] /\ req'[q] = req[q]
      BY <1>t, <1>w, <2>3, RetireKeeps DEF OnDevice
    <3> QED
      BY <2>1, <3>1, SwitchingStays DEF AnsweredFor
  <2> QED
    BY <2>2, <2>3
<1>5. CASE BeingSafed(d) \/ d \in warned \/ d \in loose
  BY <1>5, <1>w DEF AnsweredFor, BeingSafed
<1> QED
  BY <1>1, <1>3, <1>4, <1>5 DEF AnsweredFor

LEMMA CompleteKeepsAnswered ==
    ASSUME Strengthening, NEW r \in Requests, Complete(r)
    PROVE  LiveIsAnsweredFor'
<1> SUFFICES ASSUME NEW d \in Devices, rail'[d] PROVE AnsweredFor(d)'
  BY DEF LiveIsAnsweredFor
<1>t. AuthTypeOK /\ PipelineTypes
  BY TypeParts DEF Strengthening
<1>r. r \in Leases
  BY DEF Requests
<1>w. Retire({r}) /\ UNCHANGED <<rail, pending, failed, warned>> /\ pc[r] = "written"
  BY DEF Complete, callVars
<1>q. /\ req[r].dev \in Devices /\ req[r].conn \in Conns /\ req[r].enable \in BOOLEAN
      /\ req[r] \in Request
  BY <1>w, RequestFields DEF Strengthening, InFlightHasRequest, InFlight
<1>1. AnsweredFor(d)
  BY <1>w DEF Strengthening, LiveIsAnsweredFor
<1>2. CASE req[r].enable /\ req[r].dev = d
  <2>1. held[r] = [dev |-> d, conn |-> req[r].conn]
    BY <1>2, <1>w DEF Strengthening, OvertakenIsNoticed, NotOvertaken, Handling, Complete
  <2>2. held'[r] = held[r]
    BY <1>2 DEF Complete, authVars
  <2>3. held[r] # Free /\ held[r].dev = d
    BY <2>1, <1>2, <1>q, FreeAssumption
  <2>4. r \in LeasesOf(d)'
    BY <1>r, <2>2, <2>3 DEF LeasesOf, HeldLeases
  <2>5. pc'[r] = "idle"
    BY <1>t, <1>w DEF Retire, PipelineTypes
  <2> QED
    BY <2>4, <2>5 DEF AnsweredFor, Sustained
<1>3. CASE ~req[r].enable /\ req[r].dev = d
  BY <1>3, <1>w DEF Strengthening, WrittenOff
<1>4. CASE req[r].dev # d
  <2>1. d \in loose => d \in loose'
    BY <1>4 DEF Complete
  <2>2. CASE Sustained(d)
    <3>1. PICK l \in LeasesOf(d) : ~(pc[l] = "admitted" /\ req[l].enable)
      BY <2>2 DEF Sustained
    <3>2. l \in Requests /\ l \in Leases
      BY DEF LeasesOf, HeldLeases, Requests
    <3>3. held'[l] = held[l]
      <4>1. CASE req[r].enable
        BY <4>1 DEF Complete, authVars
      <4>2. CASE ~req[r].enable
        <5>1. l \notin LeasesOf(req[r].dev) \ lapsed
          BY <1>4 DEF LeasesOf
        <5> QED
          BY <1>t, <3>2, <4>2, <5>1, DropKeepsOthers DEF Complete, ReleaseDevice
      <4> QED
        BY <4>1, <4>2
    <3> QED
      BY <1>t, <1>w, <3>1, <3>2, <3>3, RetireKeeps, SustainedStays DEF AnsweredFor
  <2>3. CASE Switching(d)
    <3>1. PICK q \in OnDevice(d) : pc[q] = "written" /\ req[q].enable
      BY <2>3 DEF Switching
    <3>2. q \in Requests /\ q # r
      BY <1>4 DEF OnDevice
    <3>3. pc'[q] = pc[q] /\ req'[q] = req[q]
      BY <1>t, <1>w, <3>2, RetireKeeps
    <3> QED
      BY <3>1, <3>3, SwitchingStays DEF AnsweredFor
  <2>4. CASE BeingSafed(d) \/ d \in warned \/ d \in loose
    BY <1>w, <2>1, <2>4 DEF AnsweredFor, BeingSafed
  <2> QED
    BY <1>1, <2>2, <2>3, <2>4 DEF AnsweredFor
<1> QED
  BY <1>2, <1>3, <1>4

(* A safe state begins: leases are dropped only on the devices that are    *)
(* about to be driven safe.                                                *)
LEMMA ApplyKeepsAnswered ==
    ASSUME Strengthening, NEW k \in Callers, ~Running(k), NEW ds, ApplySafeState(k, ds),
           NEW ls, Drop(ls), \A l \in ls \cap HeldLeases : held[l].dev \in ds,
           UNCHANGED <<rail, req, historyVars>>,
           \A q \in Requests : pc'[q] = pc[q] \/ (pc'[q] = "reverting" /\ req[q].dev \in ds)
    PROVE  LiveIsAnsweredFor'
<1> SUFFICES ASSUME NEW d \in Devices, rail'[d] PROVE AnsweredFor(d)'
  BY DEF LiveIsAnsweredFor
<1>t. AuthTypeOK /\ CallTypes
  BY TypeParts DEF Strengthening
<1>1. AnsweredFor(d)
  BY DEF Strengthening, LiveIsAnsweredFor
<1>2. CASE d \in ds
  BY <1>2, <1>t DEF ApplySafeState, CallTypes, AnsweredFor, BeingSafed
<1>3. CASE d \notin ds
  <2>1. CASE Sustained(d)
    <3>1. PICK l \in LeasesOf(d) : ~(pc[l] = "admitted" /\ req[l].enable)
      BY <2>1 DEF Sustained
    <3>2. l \in Requests /\ l \in Leases /\ l \notin ls
      BY <1>3 DEF LeasesOf, HeldLeases, Requests
    <3>3. held'[l] = held[l]
      BY <1>t, <3>2, DropKeepsOthers
    <3>4. pc'[l] = "admitted" => pc[l] = "admitted"
      BY <3>2
    <3> QED
      BY <3>1, <3>2, <3>3, <3>4, SustainedStays DEF AnsweredFor
  <2>2. CASE Switching(d)
    <3>1. PICK q \in OnDevice(d) : pc[q] = "written" /\ req[q].enable
      BY <2>2 DEF Switching
    <3>2. pc'[q] = "written"
      BY <1>3, <3>1 DEF OnDevice
    <3> QED
      BY <3>1, <3>2, SwitchingStays DEF AnsweredFor
  <2>3. CASE BeingSafed(d)
    <3>1. PICK j \in Callers : d \in pending[j] \cup failed[j]
      BY <2>3 DEF BeingSafed
    <3>2. j # k
      BY <3>1 DEF Running
    <3>3. pending'[j] = pending[j] /\ failed'[j] = failed[j]
      BY <1>t, <3>2, ApplyRunning
    <3> QED
      BY <3>1, <3>3 DEF AnsweredFor, BeingSafed
  <2>4. CASE d \in warned \/ d \in loose
    BY <2>4 DEF AnsweredFor, historyVars
  <2> QED
    BY <1>1, <2>1, <2>2, <2>3, <2>4 DEF AnsweredFor
<1> QED
  BY <1>2, <1>3

LEMMA RevertKeepsAnswered ==
    ASSUME Strengthening, NEW r \in Requests, Revert(r)
    PROVE  LiveIsAnsweredFor'
<1>t. PipelineTypes
  BY TypeParts DEF Strengthening
<1>1. ~Running(Reverting(r))
  BY DEF Strengthening, CallsBelong, Revert
<1>2. \A l \in Abandoned({r}) \cap HeldLeases : held[l].dev \in {req[r].dev}
  BY DEF Abandoned, HeldLeases, Strengthening, OwnLease, InFlight, Revert
<1>3. \A q \in Requests :
         pc'[q] = pc[q] \/ (pc'[q] = "reverting" /\ req[q].dev \in {req[r].dev})
  BY <1>t DEF Revert, PipelineTypes
<1> QED
  BY <1>1, <1>2, <1>3, CallersAreCallers, ApplyKeepsAnswered DEF Revert

LEMMA CallsKeepAnswered ==
    ASSUME Strengthening,
           \/ SafetyTick
           \/ \E c \in Conns : Estop(c) \/ Disconnect(c)
           \/ \E c \in Conns, l \in Leases : LeaseRelease(c, l)
    PROVE  LiveIsAnsweredFor'
<1>t. AuthTypeOK
  BY TypeParts DEF Strengthening
<1>0. ASSUME NEW k \in Callers, ~Running(k), NEW ds, ApplySafeState(k, ds),
             NEW ls, Drop(ls), \A l \in ls \cap HeldLeases : held[l].dev \in ds,
             UNCHANGED <<rail, pipelineVars, historyVars>>
      PROVE  LiveIsAnsweredFor'
  BY <1>0, ApplyKeepsAnswered DEF pipelineVars
<1>1. CASE SafetyTick
  BY <1>0, <1>1, CallersAreCallers DEF SafetyTick, Reap
<1>2. ASSUME NEW c \in Conns, Estop(c) PROVE LiveIsAnsweredFor'
  <2>1. \A l \in HeldLeases \cap HeldLeases : held[l].dev \in Devices
    BY <1>t, DeviceOfLease
  <2> QED
    BY <1>0, <1>2, <2>1, CallersAreCallers DEF Estop, EngageEstop
<1>3. ASSUME NEW c \in Conns, Disconnect(c) PROVE LiveIsAnsweredFor'
  <2>1. ~Running(GoneOf(c))
    BY <1>3 DEF Disconnect, Strengthening, CallsBelong
  <2> QED
    BY <1>0, <1>3, <2>1, CallersAreCallers DEF Disconnect, TakeForConnection
<1>4. ASSUME NEW c \in Conns, NEW l \in Leases, LeaseRelease(c, l)
      PROVE  LiveIsAnsweredFor'
  BY <1>0, <1>4, CallersAreCallers DEF LeaseRelease, Release
<1> QED
  BY <1>1, <1>2, <1>3, <1>4

(* A connection is closed.  What its tasks kept an eye on is loose from    *)
(* then on; what its disconnect handler could not drive safe is announced. *)
LEMMA CloseKeepsAnswered ==
    ASSUME Strengthening, NEW c \in Conns, NEW ks, Close(c, ks),
           Drop(Abandoned(Cancelled(c))), UNCHANGED rail, warned \subseteq warned',
           \A k \in ks \cap Callers, d \in Devices :
              rail[d] /\ d \in pending[k] \cup failed[k] => d \in warned'
    PROVE  LiveIsAnsweredFor'
<1> SUFFICES ASSUME NEW d \in Devices, rail'[d] PROVE AnsweredFor(d)'
  BY DEF LiveIsAnsweredFor
<1>t. AuthTypeOK /\ PipelineTypes /\ CallTypes
  BY TypeParts DEF Strengthening
<1>w. /\ Retire(Cancelled(c)) /\ ForgetCalls(CancelledCalls(c) \cup ks)
      /\ loose \subseteq loose'
  BY DEF Close
<1>1. AnsweredFor(d)
  BY DEF Strengthening, LiveIsAnsweredFor
<1>2. ASSUME NEW r \in Cancelled(c), pc[r] = "written", req[r].enable, req[r].dev = d
      PROVE  AnsweredFor(d)'
  BY <1>2 DEF Close, AnsweredFor
<1>3. CASE Sustained(d)
  <2>1. PICK l \in LeasesOf(d) : ~(pc[l] = "admitted" /\ req[l].enable)
    BY <1>3 DEF Sustained
  <2>2. l \in Requests /\ l \in Leases
    BY DEF LeasesOf, HeldLeases, Requests
  <2>3. CASE l \in Abandoned(Cancelled(c))
    <3>1. l \in Cancelled(c) /\ InFlight(l) /\ req[l].enable
      BY <2>3 DEF Abandoned, Cancelled
    <3>2. held[l].dev = req[l].dev /\ pc[l] # "reverting"
      BY <2>1, <2>2, <3>1 DEF Strengthening, OwnLease, LeasesOf, HeldLeases
    <3>3. pc[l] = "written"
      BY <1>t, <2>1, <2>2, <3>1, <3>2 DEF PipelineTypes, Stages, InFlight
    <3>4. req[l].dev = d
      BY <2>1, <3>2 DEF LeasesOf
    <3> QED
      BY <1>2, <3>1, <3>3, <3>4
  <2>4. CASE l \notin Abandoned(Cancelled(c))
    <3>1. held'[l] = held[l]
      BY <1>t, <2>2, <2>4, DropKeepsOthers
    <3> QED
      BY <1>t, <1>w, <2>1, <2>2, <3>1, RetireKeeps, SustainedStays DEF AnsweredFor
  <2> QED
    BY <2>3, <2>4
<1>4. CASE Switching(d)
  <2>1. PICK q \in OnDevice(d) : pc[q] = "written" /\ req[q].enable
    BY <1>4 DEF Switching
  <2>2. CASE q \in Cancelled(c)
    BY <1>2, <2>1, <2>2 DEF OnDevice
  <2>3. CASE q \notin Cancelled(c)
    <3>1. pc'[q] = pc[q] /\ req'[q] = req[q]
      BY <1>t, <1>w, <2>3, RetireKeeps DEF OnDevice
    <3> QED
      BY <2>1, <3>1, SwitchingStays DEF AnsweredFor
  <2> QED
    BY <2>2, <2>3
<1>5. CASE BeingSafed(d)
  <2>1. PICK k \in Callers : d \in pending[k] \cup failed[k]
    BY <1>5 DEF BeingSafed
  <2>2. CASE k \in CancelledCalls(c)
    <3>1. d \in loose'
      BY <2>1, <2>2 DEF Close
    <3> QED
      BY <3>1 DEF AnsweredFor
  <2>3. CASE k \in ks
    BY <2>1, <2>3 DEF AnsweredFor
  <2>4. CASE k \notin CancelledCalls(c) \cup ks
    <3>1. pending'[k] = pending[k] /\ failed'[k] = failed[k]
      BY <1>w, <2>4 DEF ForgetCalls
    <3> QED
      BY <2>1, <3>1 DEF AnsweredFor, BeingSafed
  <2> QED
    BY <2>2, <2>3, <2>4
<1>6. CASE d \in warned \/ d \in loose
  BY <1>6, <1>w DEF AnsweredFor
<1> QED
  BY <1>1, <1>3, <1>4, <1>5, <1>6 DEF AnsweredFor

LEMMA PublishAnnounces ==
    ASSUME NEW k \in Callers, Answered(k), Publish(k)
    PROVE  /\ warned \subseteq warned'
           /\ \A d \in Devices :
                 rail[d] /\ d \in pending[k] \cup failed[k] => d \in warned'
  BY DEF Answered, Publish

LEMMA DisconnectedKeepsAnswered ==
    ASSUME Strengthening, NEW c \in Conns, DisconnectIdle(c) \/ FinishDisconnect(c)
    PROVE  LiveIsAnsweredFor'
<1>1. CASE DisconnectIdle(c)
  BY <1>1, CloseKeepsAnswered DEF DisconnectIdle
<1>2. CASE FinishDisconnect(c)
  <2>1. /\ warned \subseteq warned'
        /\ \A d \in Devices :
              rail[d] /\ d \in pending[GoneOf(c)] \cup failed[GoneOf(c)] => d \in warned'
    BY <1>2, CallersAreCallers, PublishAnnounces DEF FinishDisconnect
  <2> QED
    BY <1>2, <2>1, CloseKeepsAnswered DEF FinishDisconnect
<1> QED
  BY <1>1, <1>2

(* A driver answers, or does not: the device is off, or somebody still has *)
(* it on his list.                                                         *)
LEMMA SafeOneKeepsAnswered ==
    ASSUME Strengthening, NEW k \in Callers, NEW e \in Devices, SafeOne(k, e)
    PROVE  LiveIsAnsweredFor'
<1> SUFFICES ASSUME NEW d \in Devices, rail'[d] PROVE AnsweredFor(d)'
  BY DEF LiveIsAnsweredFor
<1>t. OutsideTypes /\ CallTypes
  BY TypeParts DEF Strengthening
<1>w. UNCHANGED <<held, pc, req>>
  BY DEF SafeOne, DeviceSafed, SafeStateFails, authVars, pipelineVars
<1>1. /\ rail[d] /\ (d \in warned => d \in warned') /\ (d \in loose => d \in loose')
      /\ \A j \in Callers : d \in pending[j] \cup failed[j] => d \in pending'[j] \cup failed'[j]
  <2>1. CASE DeviceSafed(k, e)
    <3>1. d # e
      BY <1>t, <2>1 DEF DeviceSafed, Switch, OutsideTypes
    <3>2. rail[d] /\ (d \in warned => d \in warned') /\ (d \in loose => d \in loose')
      BY <1>t, <2>1, <3>1 DEF DeviceSafed, Switch, OutsideTypes
    <3>3. \A j \in Callers : d \in pending[j] => d \in pending'[j]
      BY <1>t, <2>1, <3>1 DEF DeviceSafed, CallTypes
    <3> QED
      BY <2>1, <3>2, <3>3 DEF DeviceSafed
  <2>2. CASE SafeStateFails(k, e)
    BY <1>t, <2>2 DEF SafeStateFails, historyVars, CallTypes
  <2> QED
    BY <2>1, <2>2 DEF SafeOne
<1>2. AnsweredFor(d)
  BY <1>1 DEF Strengthening, LiveIsAnsweredFor
<1> QED
  BY <1>1, <1>2, <1>w DEF AnsweredFor, Sustained, Switching, BeingSafed, LeasesOf,
                          HeldLeases, OnDevice, InFlight

(* A safe state ends: failures are announced as they leave the list.       *)
LEMMA FinishKeepsAnswered ==
    ASSUME Strengthening, NEW k \in Callers, Answered(k), Publish(k), ForgetCalls({k}),
           NEW rs, \A r \in rs \cap Requests : pc[r] # "written",
           Retire(rs) \/ UNCHANGED <<pc, req>>, UNCHANGED <<rail, held, loose>>
    PROVE  LiveIsAnsweredFor'
<1> SUFFICES ASSUME NEW d \in Devices, rail'[d] PROVE AnsweredFor(d)'
  BY DEF LiveIsAnsweredFor
<1>t. PipelineTypes /\ CallTypes
  BY TypeParts DEF Strengthening
<1>p. /\ warned \subseteq warned'
      /\ rail[d] /\ d \in pending[k] \cup failed[k] => d \in warned'
  BY PublishAnnounces
<1>1. AnsweredFor(d)
  BY DEF Strengthening, LiveIsAnsweredFor
<1>2. CASE Sustained(d)
  <2>1. PICK l \in LeasesOf(d) : ~(pc[l] = "admitted" /\ req[l].enable)
    BY <1>2 DEF Sustained
  <2>2. l \in Requests
    BY DEF LeasesOf, HeldLeases, Requests
  <2>3. pc'[l] = "admitted" => pc[l] = "admitted" /\ req'[l] = req[l]
    BY <1>t, <2>2, RetireKeeps
  <2> QED
    BY <2>1, <2>2, <2>3, SustainedStays DEF AnsweredFor
<1>3. CASE Switching(d)
  <2>1. PICK q \in OnDevice(d) : pc[q] = "written" /\ req[q].enable
    BY <1>3 DEF Switching
  <2>2. q \in Requests /\ q \notin rs
    BY <2>1 DEF OnDevice
  <2>3. pc'[q] = pc[q] /\ req'[q] = req[q]
    BY <1>t, <2>2, RetireKeeps
  <2> QED
    BY <2>1, <2>3, SwitchingStays DEF AnsweredFor
<1>4. CASE BeingSafed(d)
  <2>1. PICK j \in Callers : d \in pending[j] \cup failed[j]
    BY <1>4 DEF BeingSafed
  <2>2. CASE j = k
    BY <1>p, <2>1, <2>2 DEF AnsweredFor
  <2>3. CASE j # k
    BY <2>1, <2>3 DEF ForgetCalls, AnsweredFor, BeingSafed
  <2> QED
    BY <2>2, <2>3
<1>5. CASE d \in warned \/ d \in loose
  BY <1>5, <1>p DEF AnsweredFor
<1> QED
  BY <1>1, <1>2, <1>3, <1>4, <1>5 DEF AnsweredFor

LEMMA AnsweredStep == Strengthening /\ [Next]_vars => LiveIsAnsweredFor'
<1> SUFFICES ASSUME Strengthening, [Next]_vars PROVE LiveIsAnsweredFor'
  OBVIOUS
<1>1. CASE UNCHANGED vars
  BY <1>1, AuthorityKeepsAnswered DEF Strengthening, vars, pipelineIdle, authVars
<1>2. CASE \/ EstopClear
           \/ \E ds \in SUBSET Devices : OperatorArms(ds) \/ AuthorityEnds(ds)
           \/ \E l \in Leases : LeaseLapses(l)
  BY <1>2, AuthorityKeepsAnswered
     DEF Strengthening, EstopClear, AcknowledgeEstop, OperatorArms, Arm, AuthorityEnds,
         Disarm, LeaseLapses, Elapse
<1>3. CASE \E r \in Requests, c \in Conns, d \in Devices, enable \in BOOLEAN :
              Execute(r, c, d, enable)
  BY <1>3, ExecuteKeepsAnswered
<1>4. ASSUME NEW k \in Callers, FinishCall(k) PROVE LiveIsAnsweredFor'
  <2>1. \A r \in {} \cap Requests : pc[r] # "written"
    OBVIOUS
  <2>2. UNCHANGED <<pc, req>> /\ UNCHANGED <<rail, held, loose>>
    BY <1>4 DEF FinishCall, authVars, pipelineVars
  <2> QED
    BY <1>4, <2>1, <2>2, FinishKeepsAnswered DEF FinishCall
<1>5. ASSUME NEW r \in Requests, FinishRevert(r) PROVE LiveIsAnsweredFor'
  <2>1. pc[r] = "reverting"
    BY <1>5 DEF FinishRevert, Answered, Strengthening, CallsBelong
  <2> QED
    BY <1>5, <2>1, CallersAreCallers, FinishKeepsAnswered DEF FinishRevert, authVars
<1>6. ASSUME NEW r \in Requests, Pipeline(r) PROVE LiveIsAnsweredFor'
  BY <1>5, <1>6, WriteKeepsAnswered, FailKeepsAnswered, CompleteKeepsAnswered,
     RevertKeepsAnswered DEF Pipeline
<1>7. ASSUME NEW c \in Conns, Connect(c) PROVE LiveIsAnsweredFor'
  <2>1. UNCHANGED <<rail, held, pc, req, pending, failed, warned, loose>>
    BY <1>7 DEF Connect, authVars, pipelineVars, callVars, historyVars
  <2> QED
    BY <2>1 DEF Strengthening, LiveIsAnsweredFor, AnsweredFor, Sustained, Switching,
                BeingSafed, LeasesOf, HeldLeases, OnDevice, InFlight
<1>8. ASSUME NEW c \in Conns, Client(c) PROVE LiveIsAnsweredFor'
  BY <1>7, <1>8, CallsKeepAnswered, DisconnectedKeepsAnswered DEF Client
<1>9. CASE SafetyTick
  BY <1>9, CallsKeepAnswered
<1>10. CASE \E k \in Callers, d \in Devices : SafeOne(k, d)
  BY <1>10, SafeOneKeepsAnswered
<1> QED
  BY <1>1, <1>2, <1>3, <1>4, <1>6, <1>8, <1>9, <1>10 DEF Next

--------------------------------------------------------------------------------
(* The inductive invariant and what follows from it.                       *)
LEMMA PipelineInit == Init => PipelineInv
<1> SUFFICES ASSUME Init PROVE PipelineInv
  OBVIOUS
<1>1. \A r \in Requests : pc[r] = "idle"
  BY DEF Init
<1>2. \A k \in Callers : ~Running(k)
  BY DEF Init, Running
<1>3. InFlightHasRequest /\ OneAtATime /\ WrittenOff /\ OwnLease
  BY <1>1 DEF InFlightHasRequest, OneAtATime, WrittenOff, OwnLease, InFlight
<1>4. CallsBelong
  BY <1>2, CallersAreCallers DEF CallsBelong
<1>5. StopHoldsNothing
  BY DEF Init, AuthInit, StopHoldsNothing
<1>6. OvertakenIsNoticed
  BY <1>1 DEF OvertakenIsNoticed, NotOvertaken, Handling
<1>7. LiveIsAnsweredFor
  BY DEF Init, LiveIsAnsweredFor
<1> QED
  BY <1>3, <1>4, <1>5, <1>6, <1>7 DEF PipelineInv

LEMMA PipelineStep == TypeOK /\ PipelineInv /\ [Next]_vars => TypeOK' /\ PipelineInv'
<1> SUFFICES ASSUME TypeOK, PipelineInv, [Next]_vars PROVE TypeOK' /\ PipelineInv'
  OBVIOUS
<1>1. Strengthening /\ StopHoldsNothing
  BY DEF PipelineInv, Strengthening
<1>2. TypeOK' /\ InFlightHasRequest' /\ OneAtATime' /\ OvertakenIsNoticed'
  BY <1>1, TypeStep, RequestStep, LockStep, OvertakenStep DEF Strengthening
<1>3. WrittenOff' /\ OwnLease' /\ CallsBelong' /\ StopHoldsNothing'
  BY <1>1, WrittenOffStep, OwnLeaseStep, CallsStep, StopStep DEF Strengthening
<1>4. LiveIsAnsweredFor'
  BY <1>1, AnsweredStep
<1> QED
  BY <1>2, <1>3, <1>4 DEF PipelineInv

(* The daemon's tables keep their types, and the invariant behind the      *)
(* safe-state argument holds in every reachable state: the device lock     *)
(* excludes, a lease belongs to its request, a stop empties the table, an  *)
(* overtaken request is marked, a live output is answered for              *)
(* (dispatcher.py 173-349, 377-398, 604-796).                              *)
THEOREM PipelineCorrect == Spec => [](TypeOK /\ PipelineInv)
<1>1. Init => TypeOK /\ PipelineInv
  BY TypeInit, PipelineInit
<1>2. TypeOK /\ PipelineInv /\ [Next]_vars => (TypeOK /\ PipelineInv)'
  BY PipelineStep
<1> QED
  BY <1>1, <1>2, PTL DEF Spec

(* Every variable of the pipeline keeps its type.                          *)
THEOREM TypeCorrect == Spec => []TypeOK
<1>1. TypeOK /\ PipelineInv => TypeOK
  OBVIOUS
<1> QED
  BY <1>1, PipelineCorrect, PTL

(* Whatever the interleaving of requests, stops, lapses, releases and      *)
(* disconnects, every live output is accounted for (dispatcher.py          *)
(* 604-796, service.py 304-399).                                           *)
THEOREM OutputsAccounted == Spec => []RailAccounted
<1>1. LiveIsAnsweredFor => RailAccounted
  BY DEF LiveIsAnsweredFor, RailAccounted, AnsweredFor, Tracked, Sustained, Switching,
         BeingSafed
<1>2. PipelineInv => RailAccounted
  BY <1>1 DEF PipelineInv
<1> QED
  BY <1>2, PipelineCorrect, PTL

(* A path that takes a lease from a running request also marks the request *)
(* overtaken in the same step (dispatcher.py 680-729).                     *)
THEOREM OvertakenNoticed == Spec => []OvertakenIsNoticed
<1>1. PipelineInv => OvertakenIsNoticed
  BY DEF PipelineInv
<1> QED
  BY <1>1, PipelineCorrect, PTL

(* A latched stop and a settled pipeline leave no output on that nobody    *)
(* was told of (service.py 517-547).                                       *)
THEOREM BenchStopped == Spec => []StoppedBench
<1>1. PipelineInv => StoppedBench
  <2> SUFFICES ASSUME PipelineInv, estop, Quiet, NEW d \in Devices, rail[d]
               PROVE  d \in warned \cup loose
    BY DEF StoppedBench
  <2>1. AnsweredFor(d) /\ HeldLeases = {}
    BY DEF PipelineInv, LiveIsAnsweredFor, StopHoldsNothing
  <2>2. ~Sustained(d)
    BY <2>1 DEF Sustained, LeasesOf
  <2>3. ~Switching(d)
    BY DEF Quiet, Switching, OnDevice
  <2>4. ~BeingSafed(d)
    BY DEF Quiet, BeingSafed, Running
  <2> QED
    BY <2>1, <2>2, <2>3, <2>4 DEF AnsweredFor
<1> QED
  BY <1>1, PipelineCorrect, PTL
================================================================================
