------------------------------- MODULE Daemon -------------------------------
(***************************************************************************)
(* The life of instrumentd (daemon/service.py, registry.py, rpc.py's       *)
(* sockets, discovery/__init__.py): boot, discovery while clients work,    *)
(* the safety timer, orderly stop and crash, and what each of them does to *)
(* outputs that are energised.  One action of a client is a handler that   *)
(* takes a lease and switches one device on; how the dispatcher runs it is *)
(* module Dispatcher.                                                      *)
(*                                                                         *)
(* An output that is on should have somebody holding it.  `excuse' records *)
(* every other reason the code has for leaving one on.                     *)
(***************************************************************************)
EXTENDS Naturals, FiniteSets

CONSTANTS
    Devices,        \* devices with an output
    Clients,        \* connections
    Scans,          \* callers of system.discover that may overlap
    MaxFaults,      \* kills, unplugged devices, failing providers and safe states
    None

VARIABLES
    phase,      \* what start() and stop() are doing
    present,    \* devices that answer an enumeration
    registry,   \* DeviceRegistry._drivers
    output,     \* physical outputs that are energised
    lease,      \* the connection holding each device's lease
    lapsed,     \* leases past their deadline that no sweep has taken
    job,        \* the device each client's handler is working on
    late,       \* clients whose handler a safe state has overtaken
    safing,     \* devices a safe state is being applied to
    excuse,     \* why an output may be on with nobody holding it
    scan,       \* the discoveries
    found,      \* what the latest discovery found, and what was added since
    conns,      \* open connections
    lost,       \* connections whose leases on_disconnect has not taken
    spent       \* faults so far

vars == <<phase, present, registry, output, lease, lapsed, job, late, safing, excuse,
          scan, found, conns, lost, spent>>

Reasons == {"reported", "unreached", "unknown", "abandoned"}
Phases == {"down", "booting", "serving", "stopping", "closing", "released"}
Idle == [on |-> FALSE, todo |-> {}, gone |-> None]

(* What the proofs ask of the constants.                                   *)
Constants == MaxFaults \in Nat /\ None \notin Devices \cup Clients

TypeOK ==
    /\ phase \in Phases
    /\ present \subseteq Devices /\ registry \subseteq Devices /\ output \subseteq Devices
    /\ lease \in [Devices -> Clients \cup {None}] /\ lapsed \subseteq Devices
    /\ job \in [Clients -> Devices \cup {None}] /\ late \subseteq Clients
    /\ safing \subseteq Devices
    /\ excuse \in [Devices -> SUBSET Reasons]
    /\ scan \in [Scans -> [on : BOOLEAN, todo : SUBSET Devices, gone : Devices \cup {None}]]
    /\ found \subseteq Devices
    /\ conns \subseteq Clients /\ lost \subseteq Clients
    /\ spent \in 0 .. MaxFaults

Init ==
    /\ phase = "down" /\ present = Devices /\ registry = {} /\ output = {}
    /\ lease = [d \in Devices |-> None] /\ lapsed = {}
    /\ job = [c \in Clients |-> None] /\ late = {}
    /\ safing = {} /\ excuse = [d \in Devices |-> {}]
    /\ scan = [x \in Scans |-> Idle] /\ found = {}
    /\ conns = {} /\ lost = {} /\ spent = 0

Fault == spent < MaxFaults /\ spent' = spent + 1
Excused(ds, why) == [d \in Devices |-> IF d \in ds THEN excuse[d] \cup {why} ELSE excuse[d]]
Working(d) == \E c \in Clients : job[c] = d

\* Dispatcher.apply_safe_state: the registered devices among ds; a handler on one
\* of them is overtaken.  Devices that have no driver are passed over: the log
\* (never the timeline) hears of it, and only when no named device has one.
ApplySafeState(ds) ==
    /\ safing' = safing \cup (ds \cap registry)
    /\ late' = late \cup {c \in Clients : job[c] \in ds \cap registry}

-----------------------------------------------------------------------------
(* Boot and discovery.                                                     *)

\* What discovery.scan returns: a provider that raises hides its devices.
ScanResult(ds, failed) == ds \ failed

\* InstrumentDaemon.start: reset, discover, then safe state on what was found,
\* all before the first client can connect.
Boot ==
    /\ phase = "down"
    /\ \E failed \in SUBSET present :
         /\ IF failed = {} THEN UNCHANGED spent ELSE Fault
         /\ found' = ScanResult(present, failed)
         /\ registry' = found'
         /\ safing' = found'
    /\ phase' = "booting"
    /\ lease' = [d \in Devices |-> None] /\ lapsed' = {}
    /\ excuse' = [d \in Devices |-> IF d \in output \ found' THEN {"unknown"} ELSE {}]
    /\ UNCHANGED <<present, output, job, late, scan, conns, lost>>

\* The sockets open when every safe state has been answered.
Listen ==
    /\ phase = "booting" /\ safing = {}
    /\ phase' = "serving"
    /\ UNCHANGED <<present, registry, output, lease, lapsed, job, late, safing, excuse,
                   scan, found, conns, lost, spent>>

\* One driver's safe_state: it works, or it raises or takes more than five
\* seconds and the timeline says "treat this device as live".
SafeOne(d) ==
    /\ d \in safing /\ phase \notin {"down", "released"}
    /\ safing' = safing \ {d}
    /\ \/ /\ d \in present
          /\ output' = output \ {d}
          /\ excuse' = [excuse EXCEPT ![d] = IF d \in registry /\ ~Working(d) THEN {} ELSE @]
          /\ UNCHANGED spent
       \/ /\ IF d \in present THEN Fault ELSE UNCHANGED spent
          /\ excuse' = Excused({d}, "reported")
          /\ UNCHANGED output
    /\ UNCHANGED <<phase, present, registry, lease, lapsed, job, late, scan, found, conns, lost>>

(* Mutant: what is no longer found stays registered.                       *)
DiscoverAdds(x) ==
    /\ phase = "serving" /\ ~scan[x].on
    /\ \E failed \in SUBSET present :
         /\ IF failed = {} THEN UNCHANGED spent ELSE Fault
         /\ found' = ScanResult(present, failed)
    /\ registry' = registry \cup found'
    /\ excuse' = Excused(found' \ registry, "unknown")
    /\ UNCHANGED <<phase, present, output, lease, lapsed, job, late, safing, scan, conns, lost>>

\* InstrumentDaemon.discover, up to the first suspension: new drivers are
\* registered as they are -- nothing drives them safe -- and the devices that
\* were not found are listed for removal.
Discover(x) ==
    /\ phase = "serving" /\ ~scan[x].on
    /\ \E failed \in SUBSET present :
         /\ IF failed = {} THEN UNCHANGED spent ELSE Fault
         /\ found' = ScanResult(present, failed)
    /\ registry' = registry \cup found'
    /\ excuse' = Excused(found' \ registry, "unknown")
    /\ scan' = [scan EXCEPT ![x] = [on |-> registry \ found' # {}, todo |-> registry \ found',
                                    gone |-> None]]
    /\ UNCHANGED <<phase, present, output, lease, lapsed, job, late, safing, conns, lost>>

\* One of the missing devices is dropped from the registry and its driver is
\* disconnected: a suspension.  Another discovery may have dropped it already.
RemoveDriver(x, d) ==
    /\ scan[x].on /\ scan[x].gone = None /\ d \in scan[x].todo
    /\ scan' = [scan EXCEPT ![x] =
           [on |-> @.todo # {d} \/ d \in registry, todo |-> @.todo \ {d},
            gone |-> IF d \in registry THEN d ELSE None]]
    /\ registry' = registry \ {d}
    /\ UNCHANGED <<phase, present, output, lease, lapsed, job, late, safing, excuse, found,
                   conns, lost, spent>>

\* LeaseManager.for_device does not return a lease past its deadline.
Surrendered(d) == lease[d] # None /\ d \notin lapsed

\* _surrender_leases_for_lost_device: the lease goes and a CRITICAL event says
\* that the device can no longer be driven safe.
SurrenderLeases(x) ==
    /\ scan[x].on /\ scan[x].gone # None
    /\ LET d == scan[x].gone IN
       /\ lease' = IF Surrendered(d) THEN [lease EXCEPT ![d] = None] ELSE lease
       /\ excuse' = IF Surrendered(d) THEN Excused({d}, "reported") ELSE excuse
    /\ scan' = [scan EXCEPT ![x] = [on |-> @.todo # {}, todo |-> @.todo, gone |-> None]]
    /\ UNCHANGED <<phase, present, registry, output, lapsed, job, late, safing, found, conns,
                   lost, spent>>

\* logic.devices registers what a tool's own scan found, outside discover().
RegisterFound(d) ==
    /\ phase = "serving" /\ d \in present \ registry
    /\ registry' = registry \cup {d} /\ found' = found \cup {d}
    /\ excuse' = Excused({d}, "unknown")
    /\ UNCHANGED <<phase, present, output, lease, lapsed, job, late, safing, scan, conns, lost,
                   spent>>

-----------------------------------------------------------------------------
(* Clients.                                                                *)

Connect(c) ==
    /\ phase \in {"serving", "stopping"} /\ c \notin conns \cup lost
    /\ conns' = conns \cup {c}
    /\ UNCHANGED <<phase, present, registry, output, lease, lapsed, job, late, safing, excuse,
                   scan, found, lost, spent>>

\* Resolution, authorisation, the device lock and the lease, without suspension.
\* Nothing refuses an action while stop() is under way.
Execute(c, d) ==
    /\ c \in conns /\ job[c] = None
    /\ d \in registry /\ ~Working(d) /\ lease[d] = None
    /\ job' = [job EXCEPT ![c] = d] /\ late' = late \ {c}
    /\ lease' = [lease EXCEPT ![d] = c]
    /\ UNCHANGED <<phase, present, registry, output, lapsed, safing, excuse, scan, found, conns,
                   lost, spent>>

\* The handler's command reaches the instrument, whether or not the registry
\* still has the driver the handler belongs to.
SwitchOn(c) ==
    /\ job[c] # None /\ job[c] \in present \ output
    /\ output' = output \cup {job[c]}
    /\ UNCHANGED <<phase, present, registry, lease, lapsed, job, late, safing, excuse, scan,
                   found, conns, lost, spent>>

\* The handler returns: overtaken by a safe state it is reverted, and the revert
\* is a safe state itself.  A lease that is gone without one leaves it as it is.
Finish(c) ==
    /\ job[c] # None
    /\ LET d == job[c] IN
       IF c \in late
       THEN /\ lease' = IF lease[d] = c THEN [lease EXCEPT ![d] = None] ELSE lease
            /\ safing' = safing \cup ({d} \cap registry)
            /\ late' = (late \ {c}) \cup {b \in Clients \ {c} : job[b] = d /\ d \in registry}
            /\ excuse' = IF d \in registry THEN excuse ELSE Excused({d}, "unreached")
       ELSE UNCHANGED <<lease, safing, late, excuse>>
    /\ job' = [job EXCEPT ![c] = None]
    /\ UNCHANGED <<phase, present, registry, output, lapsed, scan, found, conns, lost, spent>>

\* A lease passes its deadline.
Lapse(d) ==
    /\ lease[d] # None /\ d \notin lapsed /\ phase \notin {"down", "released"}
    /\ lapsed' = lapsed \cup {d}
    /\ UNCHANGED <<phase, present, registry, output, lease, job, late, safing, excuse, scan,
                   found, conns, lost, spent>>

\* The safety loop, which stop() cancels before anything else.
Sweep ==
    /\ phase = "serving" /\ lapsed # {}
    /\ lease' = [d \in Devices |-> IF d \in lapsed THEN None ELSE lease[d]]
    /\ lapsed' = {}
    /\ ApplySafeState(lapsed)
    /\ excuse' = Excused(lapsed \ registry, "unreached")
    /\ UNCHANGED <<phase, present, registry, output, job, scan, found, conns, lost, spent>>

\* The client goes: its leases are taken first (_on_disconnect) ...
Depart(c) ==
    /\ c \in conns
    /\ conns' = conns \ {c} /\ lost' = lost \cup {c}
    /\ UNCHANGED <<phase, present, registry, output, lease, lapsed, job, late, safing, excuse,
                   scan, found, spent>>

(* Mutant: the leases of a lost client are taken, its devices left on.     *)
OnDisconnectTakesOnly(c) ==
    /\ c \in lost /\ lost' = lost \ {c}
    /\ lease' = [d \in Devices |-> IF lease[d] = c THEN None ELSE lease[d]]
    /\ lapsed' = {d \in lapsed : lease[d] # c}
    /\ UNCHANGED <<phase, present, registry, output, job, late, safing, excuse, scan, found, conns,
                   spent>>

OnDisconnect(c) ==
    /\ c \in lost
    /\ LET orphaned == {d \in Devices : lease[d] = c} IN
       /\ lease' = [d \in Devices |-> IF d \in orphaned THEN None ELSE lease[d]]
       /\ lapsed' = lapsed \ orphaned
       /\ ApplySafeState(orphaned)
       /\ excuse' = Excused(orphaned \ registry, "unreached")
    /\ lost' = lost \ {c}
    /\ UNCHANGED <<phase, present, registry, output, job, scan, found, conns, spent>>

\* ... and a handler of a closed connection is cancelled: its lease is given up,
\* what it may have switched is left as it is.
Cancel(c) ==
    /\ c \notin conns /\ job[c] # None
    /\ LET d == job[c] IN
       /\ lease' = IF lease[d] = c THEN [lease EXCEPT ![d] = None] ELSE lease
       /\ lapsed' = IF lease[d] = c THEN lapsed \ {d} ELSE lapsed
       /\ excuse' = Excused({d}, "abandoned")
    /\ job' = [job EXCEPT ![c] = None] /\ late' = late \ {c}
    /\ UNCHANGED <<phase, present, registry, output, safing, scan, found, conns, lost, spent>>

-----------------------------------------------------------------------------
(* Stop and faults.                                                        *)

\* stop(): the timer is cancelled, then every device is driven safe while the
\* sockets are still open.
Stop ==
    /\ phase = "serving"
    /\ phase' = "stopping"
    /\ ApplySafeState(registry)
    /\ UNCHANGED <<present, registry, output, lease, lapsed, job, excuse, scan, found, conns,
                   lost, spent>>

\* RpcServer.stop: the connections are closed, their handlers cancelled; each
\* connection's own task runs on_disconnect beside the rest of stop().
CloseConnections ==
    /\ phase = "stopping" /\ safing = {}
    /\ phase' = "closing"
    /\ lost' = lost \cup conns /\ conns' = {}
    /\ UNCHANGED <<present, registry, output, lease, lapsed, job, late, safing, excuse, scan,
                   found, spent>>

\* The drivers are disconnected and the session is closed; what was still being
\* driven safe is cancelled with the event loop.
Release ==
    /\ phase = "closing" /\ \A c \in Clients : job[c] = None
    /\ phase' = "released"
    /\ safing' = {} /\ lost' = {} /\ lapsed' = {}
    /\ scan' = [x \in Scans |-> Idle]
    /\ UNCHANGED <<present, registry, output, lease, job, late, excuse, found, conns, spent>>

\* The process ends; what is energised stays energised.
ProcessEnds ==
    /\ phase' = "down" /\ registry' = {}
    /\ lease' = [d \in Devices |-> None] /\ lapsed' = {}
    /\ job' = [c \in Clients |-> None] /\ late' = {} /\ safing' = {}
    /\ scan' = [x \in Scans |-> Idle] /\ conns' = {} /\ lost' = {} /\ found' = {}
    /\ UNCHANGED <<present, output, excuse>>

Exit == phase = "released" /\ ProcessEnds /\ UNCHANGED spent
Kill == phase # "down" /\ Fault /\ ProcessEnds

\* A device goes, its output as it is, or comes back.
Unplug(d) ==
    /\ d \in present /\ Fault
    /\ present' = present \ {d}
    /\ UNCHANGED <<phase, registry, output, lease, lapsed, job, late, safing, excuse, scan,
                   found, conns, lost>>
Replug(d) ==
    /\ d \notin present
    /\ present' = present \cup {d}
    /\ UNCHANGED <<phase, registry, output, lease, lapsed, job, late, safing, excuse, scan,
                   found, conns, lost, spent>>

Next ==
    \/ Boot \/ Listen \/ Sweep \/ Stop \/ CloseConnections \/ Release \/ Exit \/ Kill
    \/ \E d \in Devices : SafeOne(d) \/ Lapse(d) \/ RegisterFound(d) \/ Unplug(d) \/ Replug(d)
    \/ \E x \in Scans : Discover(x) \/ SurrenderLeases(x) \/ \E d \in Devices : RemoveDriver(x, d)
    \/ \E c \in Clients : \/ Connect(c) \/ SwitchOn(c) \/ Finish(c)
                          \/ Depart(c) \/ OnDisconnect(c) \/ Cancel(c)
                          \/ \E d \in Devices : Execute(c, d)

Spec == Init /\ [][Next]_vars

-----------------------------------------------------------------------------
(* Properties.                                                             *)

Held(d) == lease[d] # None \/ Working(d) \/ d \in safing

\* While the daemon runs, an energised output is held by a lease, by a handler
\* or by a safe state under way; otherwise the code gave one of its reasons: the
\* timeline called the device live, it had no driver when its safe state was
\* due, it was registered without being driven safe, or its handler was cancelled.
HeldOrExcused ==
    phase \notin {"down", "released"} =>
        \A d \in output : Held(d) \/ excuse[d] # {}

\* While the daemon serves and no discovery is under way, the registry holds
\* nothing the latest one (or an explicit scan since) did not find, however two
\* of them overlapped.
NoGhosts == phase = "serving" /\ (\A x \in Scans : ~scan[x].on) => registry \subseteq found

(* Both: every output and every registered device is accounted for.        *)
DevicesAccounted == HeldOrExcused /\ NoGhosts

\* service.py's "Anything still energised gets turned off before we let go of
\* it": after an orderly stop an output is on only if the timeline said so.
LetGoIsSafe ==
    phase = "released" =>
        \A d \in output \cap registry \cap present : excuse[d] # {}
=============================================================================
