------------------------------ MODULE Dispatcher ------------------------------
(***************************************************************************)
(* The action pipeline of fielddeck/daemon/dispatcher.py composed with the *)
(* service handlers that touch the same hardware: emergency stop, lease    *)
(* release, client disconnect and the safety timer of daemon/service.py.   *)
(*                                                                         *)
(* One asyncio loop runs them all, so an action of this module is what     *)
(* happens between two suspension points.  The sustained action is         *)
(* psu.output (load.input and gpio.write have the same shape): enabling    *)
(* needs authority and a lease, disabling needs neither.  The safe-state   *)
(* path takes no device lock; what keeps a handler from undoing it is the  *)
(* per-device generation counter, modelled by superseded: the requests     *)
(* that were sampling when their device's counter was bumped.              *)
(***************************************************************************)
EXTENDS OutputAuthority

CONSTANT Faults     \* which of AllFaults the environment may produce

AllFaults == {"handler", "safe_state", "disconnect"}

ASSUME FaultsAssumption == Faults \subseteq AllFaults

(* A request slot carries the identifier its output lease would get.       *)
Requests == Leases

(* Who can be waiting in apply_safe_state: a request reverting itself, an  *)
(* RPC of a client (stop, lease release), the disconnect handler of a      *)
(* client, and the safety timer.                                           *)
Reverting(r) == <<"revert", r>>
RpcOf(c) == <<"rpc", c>>
GoneOf(c) == <<"gone", c>>
Timer == <<"timer", "timer">>

Callers == {Reverting(r) : r \in Requests} \cup {RpcOf(c) : c \in Conns}
           \cup {GoneOf(c) : c \in Conns} \cup {Timer}

VARIABLES
    rail,       \* rail[d]: the physical output of d is on
    pc,         \* pc[r]: how far request r is
    req,        \* req[r]: its device, client and direction, Free when idle
    superseded, \* requests whose device was driven safe while they ran
    link,       \* link[c]: "up", "leaving" (disconnect handler runs), "down"
    pending,    \* pending[k]: devices caller k still waits for
    safe,       \* safe[k]: devices that answered caller k's safe state
    failed,     \* failed[k]: devices whose safe state raised or timed out
    warned,     \* live devices an operator was told to treat as live
    loose       \* history: live devices whose sustaining action or whose
                \* safe-state call was dropped half-way

pipelineVars == <<pc, req>>
callVars == <<pending, safe, failed>>
historyVars == <<warned, loose>>
vars == <<authVars, rail, pipelineVars, superseded, link, callVars, historyVars>>

Request == [dev : Devices, conn : Conns, enable : BOOLEAN]
Stages == {"idle", "admitted", "written", "reverting"}

TypeOK ==
    /\ AuthTypeOK
    /\ rail \in [Devices -> BOOLEAN]
    /\ pc \in [Requests -> Stages]
    /\ req \in [Requests -> Request \cup {Free}]
    /\ superseded \in SUBSET Requests
    /\ link \in [Conns -> {"up", "leaving", "down"}]
    /\ pending \in [Callers -> SUBSET Devices]
    /\ safe \in [Callers -> SUBSET Devices]
    /\ failed \in [Callers -> SUBSET Devices]
    /\ warned \in SUBSET Devices
    /\ loose \in SUBSET Devices

InFlight(r) == pc[r] # "idle"
Handling(r) == pc[r] \in {"admitted", "written"}
OnDevice(d) == {r \in Requests : InFlight(r) /\ req[r].dev = d}

(* A request of a client starts while its connection serves, or in the     *)
(* first loop iteration of its disconnect handler: its task was created    *)
(* before the end of the stream was seen.                                  *)
Serving(c) ==
    \/ link[c] = "up"
    \/ link[c] = "leaving" /\ safe[GoneOf(c)] \cup failed[GoneOf(c)] = {}

(* driver.lock.locked(): the lock is held from admission to the end of the *)
(* pipeline, the reverting safe state included.                            *)
Locked(d) == OnDevice(d) # {}

Running(k) == pending[k] \cup safe[k] \cup failed[k] # {}

--------------------------------------------------------------------------------
(* Mutant: apply_safe_state without the generation bump.                   *)
ApplySafeStateUnannounced(k, ds) ==
    /\ pending' = [pending EXCEPT ![k] = ds]
    /\ UNCHANGED <<superseded, safe, failed>>

(* The synchronous head of apply_safe_state: the generation of every named *)
(* device is bumped before the first await, then one safe_one per device.  *)
ApplySafeState(k, ds) ==
    /\ pending' = [pending EXCEPT ![k] = ds]
    /\ superseded' = superseded \cup {r \in Requests : Handling(r) /\ req[r].dev \in ds}
    /\ UNCHANGED <<safe, failed>>

ForgetCalls(ks) ==
    /\ pending' = [k \in Callers |-> IF k \in ks THEN {} ELSE pending[k]]
    /\ safe' = [k \in Callers |-> IF k \in ks THEN {} ELSE safe[k]]
    /\ failed' = [k \in Callers |-> IF k \in ks THEN {} ELSE failed[k]]

(* The pipeline of each of rs ends: lock released, task gone.              *)
Retire(rs) ==
    /\ pc' = [r \in Requests |-> IF r \in rs THEN "idle" ELSE pc[r]]
    /\ req' = [r \in Requests |-> IF r \in rs THEN Free ELSE req[r]]
    /\ superseded' = superseded \ rs

(* The physical effect of switching output d.                              *)
Switch(d, on) ==
    /\ rail' = [rail EXCEPT ![d] = on]
    /\ warned' = IF on THEN warned ELSE warned \ {d}
    /\ loose' = IF on THEN loose ELSE loose \ {d}

(* ClientConnection.close: every task of the connection is cancelled.  A   *)
(* cancelled pipeline abandons its lease; a cancelled apply_safe_state     *)
(* stops where it is and publishes nothing.                                *)
Cancelled(c) == {r \in Requests : InFlight(r) /\ req[r].conn = c}
CancelledCalls(c) == {RpcOf(c)} \cup {Reverting(r) : r \in Cancelled(c)}

Close(c, finishing) ==
    LET rs == Cancelled(c)
        ks == CancelledCalls(c)
    IN  /\ link' = [link EXCEPT ![c] = "down"]
        /\ Retire(rs)
        /\ ForgetCalls(ks \cup finishing)
        /\ loose' = loose \cup
              {d \in Devices : rail[d] /\
                  \/ \E r \in rs : pc[r] = "written" /\ req[r].dev = d /\ req[r].enable
                  \/ \E k \in ks : d \in pending[k] \cup failed[k]}

Abandoned(rs) == {r \in rs : req[r].enable}

--------------------------------------------------------------------------------
Init ==
    /\ AuthInit
    /\ rail = [d \in Devices |-> FALSE]
    /\ pc = [r \in Requests |-> "idle"]
    /\ req = [r \in Requests |-> Free]
    /\ superseded = {}
    /\ link = [c \in Conns |-> "up"]
    /\ pending = [k \in Callers |-> {}]
    /\ safe = [k \in Callers |-> {}]
    /\ failed = [k \in Callers |-> {}]
    /\ warned = {}
    /\ loose = {}

pipelineIdle == UNCHANGED <<rail, pipelineVars, superseded, link, callVars, historyVars>>

OperatorArms(ds) == Arm(ds) /\ pipelineIdle
AuthorityEnds(ds) == Disarm(ds) /\ pipelineIdle
LeaseLapses(l) == l \notin lapsed /\ held[l] # Free /\ Elapse({}, {l}) /\ pipelineIdle
EstopClear == estop /\ AcknowledgeEstop /\ pipelineIdle

(* Mutant: the device lock is never taken.                                 *)
ExecuteUnlocked(r, c, d, enable) ==
    /\ pc[r] = "idle" /\ Serving(c)
    /\ IF enable THEN Acquire(r, d, c) ELSE UNCHANGED authVars
    /\ pc' = [pc EXCEPT ![r] = "admitted"]
    /\ req' = [req EXCEPT ![r] = [dev |-> d, conn |-> c, enable |-> enable]]
    /\ UNCHANGED <<rail, superseded, link, callVars, historyVars>>

(* _execute up to the handler task: authorize, lock (busy is an error, not *)
(* a wait), lease, generation sample.                                      *)
Execute(r, c, d, enable) ==
    /\ pc[r] = "idle" /\ Serving(c)
    /\ ~Locked(d)
    /\ IF enable THEN Acquire(r, d, c) ELSE UNCHANGED authVars
    /\ pc' = [pc EXCEPT ![r] = "admitted"]
    /\ req' = [req EXCEPT ![r] = [dev |-> d, conn |-> c, enable |-> enable]]
    /\ UNCHANGED <<rail, superseded, link, callVars, historyVars>>

(* The driver's handler commands the output.                               *)
HandlerWrites(r) ==
    /\ pc[r] = "admitted"
    /\ Switch(req[r].dev, req[r].enable)
    /\ pc' = [pc EXCEPT ![r] = "written"]
    /\ UNCHANGED <<authVars, req, superseded, link, callVars>>

(* The handler raises, or its deadline passes, before or after the write.  *)
HandlerFails(r) ==
    /\ "handler" \in Faults
    /\ Handling(r)
    /\ Retire({r})
    /\ Drop(Abandoned({r}))
    /\ loose' = IF pc[r] = "written" /\ req[r].enable /\ rail[req[r].dev]
                THEN loose \cup {req[r].dev} ELSE loose
    /\ UNCHANGED <<estop, armed, rail, link, callVars, warned>>

(* The handler returned and nothing overtook it: an enabling request keeps *)
(* its lease, a disabling one surrenders what sustained the output.        *)
Complete(r) ==
    /\ pc[r] = "written" /\ r \notin superseded
    /\ Retire({r})
    /\ IF req[r].enable
       THEN /\ loose' = loose \ {req[r].dev}
            /\ UNCHANGED authVars
       ELSE ReleaseDevice(req[r].dev) /\ UNCHANGED loose
    /\ UNCHANGED <<rail, link, callVars, warned>>

(* Mutant: an overtaken action gives its lease back and leaves it at that. *)
RevertLeaseOnly(r) ==
    /\ pc[r] = "written" /\ r \in superseded
    /\ Retire({r})
    /\ Drop(Abandoned({r}))
    /\ UNCHANGED <<estop, armed, rail, link, callVars, historyVars>>

(* _reject_if_superseded: give the lease back and drive the device safe    *)
(* again, still under the device lock.                                     *)
Revert(r) ==
    /\ pc[r] = "written" /\ r \in superseded
    /\ pc' = [pc EXCEPT ![r] = "reverting"]
    /\ Drop(Abandoned({r}))
    /\ ApplySafeState(Reverting(r), {req[r].dev})
    /\ UNCHANGED <<estop, armed, rail, req, link, historyVars>>

--------------------------------------------------------------------------------
(* safety.estop from any client: the latch, every lease and every grant,   *)
(* then every device, without suspending before the generation bump.       *)
Estop(c) ==
    /\ Serving(c) /\ ~Running(RpcOf(c))
    /\ EngageEstop
    /\ ApplySafeState(RpcOf(c), Devices)
    /\ UNCHANGED <<rail, pipelineVars, link, historyVars>>

(* safety.lease_release from any client.                                   *)
LeaseRelease(c, l) ==
    /\ Serving(c) /\ ~Running(RpcOf(c))
    /\ Release(l)
    /\ ApplySafeState(RpcOf(c), {held[l].dev})
    /\ UNCHANGED <<rail, pipelineVars, link, historyVars>>

(* Mutant: the timer reaps leases without touching their devices.          *)
SafetyTickReapOnly ==
    /\ ~Running(Timer)
    /\ Reap
    /\ UNCHANGED <<rail, pipelineVars, superseded, link, callVars, historyVars>>

(* The 250 ms timer: lapsed leases leave the table and their devices are   *)
(* driven safe; the next tick waits for that.                              *)
SafetyTick ==
    /\ ~Running(Timer)
    /\ Reap
    /\ ApplySafeState(Timer, {held[l].dev : l \in lapsed})
    /\ UNCHANGED <<rail, pipelineVars, link, historyVars>>

(* The socket closed.  A client that held no lease is closed at once;      *)
(* otherwise its devices are driven safe first, and its requests keep      *)
(* running meanwhile.                                                      *)
Disconnect(c) ==
    /\ "disconnect" \in Faults
    /\ link[c] = "up"
    /\ OwnedBy(c) # {}
    /\ TakeForConnection(c)
    /\ link' = [link EXCEPT ![c] = "leaving"]
    /\ ApplySafeState(GoneOf(c), {held[l].dev : l \in OwnedBy(c)})
    /\ UNCHANGED <<rail, pipelineVars, historyVars>>

DisconnectIdle(c) ==
    /\ "disconnect" \in Faults
    /\ link[c] = "up"
    /\ OwnedBy(c) = {}
    /\ Close(c, {})
    /\ Drop(Abandoned(Cancelled(c)))
    /\ UNCHANGED <<estop, armed, rail, warned>>

(* A later client is a new connection: it owns nothing of an earlier one.  *)
Connect(c) ==
    /\ link[c] = "down" /\ OwnedBy(c) = {}
    /\ link' = [link EXCEPT ![c] = "up"]
    /\ UNCHANGED <<authVars, rail, pipelineVars, superseded, callVars, historyVars>>

--------------------------------------------------------------------------------
(* One safe_one: the driver's safe_state returns, or it raises or exceeds  *)
(* its five seconds.                                                       *)
DeviceSafed(k, d) ==
    /\ d \in pending[k]
    /\ Switch(d, FALSE)
    /\ pending' = [pending EXCEPT ![k] = @ \ {d}]
    /\ safe' = [safe EXCEPT ![k] = @ \cup {d}]
    /\ UNCHANGED <<authVars, pipelineVars, superseded, link, failed>>

SafeStateFails(k, d) ==
    /\ "safe_state" \in Faults
    /\ d \in pending[k]
    /\ pending' = [pending EXCEPT ![k] = @ \ {d}]
    /\ failed' = [failed EXCEPT ![k] = @ \cup {d}]
    /\ UNCHANGED <<authVars, rail, pipelineVars, superseded, link, safe, historyVars>>

(* The gather is complete: one event per device, CRITICAL for a failure,   *)
(* and the caller goes on.                                                 *)
Answered(k) == Running(k) /\ pending[k] = {}

Publish(k) == warned' = warned \cup {d \in failed[k] : rail[d]}

FinishCall(k) ==
    /\ Answered(k) /\ k \in {Timer} \cup {RpcOf(c) : c \in Conns}
    /\ Publish(k)
    /\ ForgetCalls({k})
    /\ UNCHANGED <<authVars, rail, pipelineVars, superseded, link, loose>>

FinishRevert(r) ==
    /\ Answered(Reverting(r))
    /\ Publish(Reverting(r))
    /\ ForgetCalls({Reverting(r)})
    /\ Retire({r})
    /\ UNCHANGED <<authVars, rail, link, loose>>

FinishDisconnect(c) ==
    /\ Answered(GoneOf(c))
    /\ Publish(GoneOf(c))
    /\ Close(c, {GoneOf(c)})
    /\ Drop(Abandoned(Cancelled(c)))
    /\ UNCHANGED <<estop, armed, rail>>

--------------------------------------------------------------------------------
Pipeline(r) == HandlerWrites(r) \/ HandlerFails(r) \/ Complete(r) \/ Revert(r)
               \/ FinishRevert(r)

Client(c) ==
    \/ Estop(c)
    \/ \E l \in Leases : LeaseRelease(c, l)
    \/ Disconnect(c) \/ DisconnectIdle(c) \/ Connect(c) \/ FinishDisconnect(c)

SafeOne(k, d) == DeviceSafed(k, d) \/ SafeStateFails(k, d)

Next ==
    \/ \E ds \in SUBSET Devices : OperatorArms(ds) \/ AuthorityEnds(ds)
    \/ \E l \in Leases : LeaseLapses(l)
    \/ EstopClear
    \/ \E r \in Requests, c \in Conns, d \in Devices, enable \in BOOLEAN :
          Execute(r, c, d, enable)
    \/ \E r \in Requests : Pipeline(r)
    \/ \E c \in Conns : Client(c)
    \/ SafetyTick
    \/ \E k \in Callers, d \in Devices : SafeOne(k, d)
    \/ \E k \in Callers : FinishCall(k)

Spec == Init /\ [][Next]_vars

(* Timeouts bound every handler (MAX_TIMEOUT_S) and every safe_state       *)
(* (SAFE_STATE_TIMEOUT_S), the timer task always runs again, and the loop  *)
(* resumes a coroutine whose result is there.  Clients and operators owe   *)
(* nothing.                                                                *)
Fairness ==
    /\ WF_vars(SafetyTick)
    /\ \A r \in Requests : WF_vars(Pipeline(r))
    /\ \A k \in Callers : WF_vars(FinishCall(k))
    /\ \A k \in Callers, d \in Devices : WF_vars(SafeOne(k, d))
    /\ \A c \in Conns : WF_vars(FinishDisconnect(c))

FairSpec == Spec /\ Fairness

--------------------------------------------------------------------------------
Quiet == (\A r \in Requests : ~InFlight(r)) /\ (\A k \in Callers : ~Running(k))

(* Who still answers for a live output: a lease, a request that has not    *)
(* finished, a safe state under way, or an operator who was told.          *)
Tracked(d) ==
    \/ LeasesOf(d) # {}
    \/ OnDevice(d) # {}
    \/ \E k \in Callers : d \in pending[k] \cup failed[k]
    \/ d \in warned

(* Whatever the interleaving of requests, stops, lapses, releases and      *)
(* disconnects, a live output that nothing tracks is one whose enabling    *)
(* action was abandoned after its write or whose safe state was cancelled. *)
RailAccounted == \A d \in Devices : rail[d] => Tracked(d) \/ d \in loose

(* Every path that takes a lease away from a running request also bumps    *)
(* the generation of its device, in the same step: a request that believes *)
(* it was not overtaken still holds the lease it was admitted with, and no *)
(* stop is latched.                                                        *)
NotOvertaken(r) == Handling(r) /\ req[r].enable /\ r \notin superseded
OvertakenIsNoticed ==
    \A r \in Requests : NotOvertaken(r) =>
        ~estop /\ held[r] = [dev |-> req[r].dev, conn |-> req[r].conn]

(* A stopped and settled bench: with the latch set and nothing running, an *)
(* output is off, or an operator was told it is not, or its action was     *)
(* dropped half-way.                                                       *)
StoppedBench ==
    estop /\ Quiet => \A d \in Devices : rail[d] => d \in warned \cup loose

(* The invariant behind RailAccounted and StoppedBench, in parts.          *)
(*                                                                         *)
(* The device lock: two requests in flight are on different devices.       *)
InFlightHasRequest == \A r \in Requests : InFlight(r) => req[r] \in Request
OneAtATime ==
    \A r1, r2 \in Requests :
        InFlight(r1) /\ InFlight(r2) /\ req[r1].dev = req[r2].dev => r1 = r2

(* Under the lock, an output stays off once its request switched it off.   *)
WrittenOff ==
    \A r \in Requests : pc[r] = "written" /\ ~req[r].enable => ~rail[req[r].dev]

(* The lease an enabling request holds is the one it took; once overtaken  *)
(* and reverting it holds none.                                            *)
OwnLease ==
    \A r \in Requests : InFlight(r) /\ req[r].enable /\ held[r] # Free =>
        held[r].dev = req[r].dev /\ pc[r] # "reverting"

(* A safe state under way belongs to a caller that is still waiting.       *)
CallsBelong ==
    /\ \A r \in Requests : Running(Reverting(r)) => pc[r] = "reverting"
    /\ \A c \in Conns : Running(GoneOf(c)) => link[c] = "leaving"

StopHoldsNothing == estop => HeldLeases = {}

(* What keeps an output answered for.  The lease of a request that has not *)
(* written yet does not count: nothing it sustains is on.                  *)
Sustained(d) == \E l \in LeasesOf(d) : ~(pc[l] = "admitted" /\ req[l].enable)
Switching(d) == \E r \in OnDevice(d) : pc[r] = "written" /\ req[r].enable
BeingSafed(d) == \E k \in Callers : d \in pending[k] \cup failed[k]
AnsweredFor(d) ==
    Sustained(d) \/ Switching(d) \/ BeingSafed(d) \/ d \in warned \/ d \in loose
LiveIsAnsweredFor == \A d \in Devices : rail[d] => AnsweredFor(d)

PipelineInv ==
    /\ InFlightHasRequest /\ OneAtATime /\ WrittenOff /\ OwnLease /\ CallsBelong
    /\ StopHoldsNothing /\ OvertakenIsNoticed /\ LiveIsAnsweredFor

(* An output whose lease lapses is driven safe, or reported, or another    *)
(* lease keeps it, however the timer, the release RPCs and the disconnect  *)
(* handler race for the lease.                                             *)
LapseDrivesSafe ==
    \A d \in Devices :
        (LeasesOf(d) \cap lapsed # {}) ~>
            (~rail[d] \/ LeasesOf(d) \ lapsed # {} \/ d \in warned \cup loose)

(* "The handler's effect is reverted": what the model shows of it without  *)
(* the excuse of an abandoned action.                                      *)
NoAbandonedOutput == \A d \in Devices : rail[d] => Tracked(d)

(* A stop is carried through: a live device an emergency stop has still to *)
(* safe is not given up before its driver answered.                        *)
StopIsCarriedThrough ==
    [][\A c \in Conns, d \in Devices :
          estop /\ d \in pending[RpcOf(c)] /\ d \notin pending'[RpcOf(c)]
             => ~rail'[d] \/ d \in failed'[RpcOf(c)]]_vars

(* A client that dies leaves nothing energised: when its disconnect        *)
(* handler has made its devices safe and its tasks are cancelled, the      *)
(* output of none of them is on without a lease or a warning.              *)
DeadClientLeavesNothingLive ==
    [][\A c \in Conns : link[c] = "leaving" /\ link'[c] = "down" =>
          \A r \in Cancelled(c) :
             LET d == req[r].dev
             IN  rail'[d] => LeasesOf(d)' # {} \/ d \in warned']_vars
================================================================================
