----------------------------- MODULE Components -----------------------------
(* The components that share no state with one another, side by side: each *)
(* behaviour is one of `which' alone, and the variables of the others stay *)
(* at None, so the states are the sum of theirs.                           *)
EXTENDS Services, Bench

VARIABLE which      \* the component of this behaviour

\* What the proofs ask of the components' constants.
ASSUME ComponentConstants ==
    /\ S!Constants /\ D!Constants /\ M!Constants /\ U!Constants /\ X!Constants
    /\ F!Constants /\ A!Constants /\ R!Constants /\ C!Constants /\ P!Constants
    /\ B!Constants

-----------------------------------------------------------------------------
\* The variables of each, and what they are while the behaviour is another's.
ofS == <<up, recorder, attached, closed, json, wet, n, home, grave, rows, log, trail,
        complained, spoilt, cap, files, artifacts, faults>>
NoS == up = None /\ recorder = None /\ attached = None /\ closed = None /\ json = None
    /\ wet = None /\ n = None /\ home = None /\ grave = None /\ rows = None /\ log = None
    /\ trail = None /\ complained = None /\ spoilt = None /\ cap = None /\ files = None
    /\ artifacts = None /\ faults = None
ofD == <<phase, present, registry, output, lease, lapsed, job, late, safing, excuse,
        scan, found, conns, lost, spent>>
NoD == phase = None /\ present = None /\ registry = None /\ output = None /\ lease = None
    /\ lapsed = None /\ job = None /\ late = None /\ safing = None /\ excuse = None
    /\ scan = None /\ found = None /\ conns = None /\ lost = None /\ spent = None
ofM == <<lock, waiting, deadline, doing, wire, table, told, effect>>
NoM == lock = None /\ waiting = None /\ deadline = None /\ doing = None /\ wire = None
    /\ table = None /\ told = None /\ effect = None
ofC == <<heard, queue, dropped, cut, file, capture, outcome, artifact, summary,
        interface, unlocked, sender, stray>>
NoC == heard = None /\ queue = None /\ dropped = None /\ cut = None /\ file = None
    /\ capture = None /\ outcome = None /\ artifact = None /\ summary = None
    /\ interface = None /\ unlocked = None /\ sender = None /\ stray = None
ofP == <<port, error, arrived, readers, current, stop, conf, capturing, buffer, spilt,
        raw, missed, astray, registered, sending>>
NoP == port = None /\ error = None /\ arrived = None /\ readers = None /\ current = None
    /\ stop = None /\ conf = None /\ capturing = None /\ buffer = None /\ spilt = None
    /\ raw = None /\ missed = None /\ astray = None /\ registered = None /\ sending = None
ofU == <<running, version, rail, leases, issued, jobs, events, open, client, supervisor,
        want, answer, shown, behind, held, keeper, tap, reply, stopping, restarts,
        timeouts>>
NoU == running = None /\ version = None /\ rail = None /\ leases = None /\ issued = None
    /\ jobs = None /\ events = None /\ open = None /\ client = None /\ supervisor = None
    /\ want = None /\ answer = None /\ shown = None /\ behind = None /\ held = None
    /\ keeper = None /\ tap = None /\ reply = None /\ stopping = None /\ restarts = None
    /\ timeouts = None
ofB == <<onBus, delayed, seen, pending, messages, groups, noise, done>>
NoB == onBus = None /\ delayed = None /\ seen = None /\ pending = None /\ messages = None
    /\ groups = None /\ noise = None /\ done = None
ofF == <<firmware, target, call, hash, proc, records>>
NoF == firmware = None /\ target = None /\ call = None /\ hash = None /\ proc = None
    /\ records = None
ofA == <<req, ran, written, line, link, connecting, peer, made, daemon, granted, stdin,
        outages>>
NoA == req = None /\ ran = None /\ written = None /\ line = None /\ link = None
    /\ connecting = None /\ peer = None /\ made = None /\ daemon = None /\ granted = None
    /\ stdin = None /\ outages = None
ofR == <<resolved, plan, armed, pc, supply, filled, refused>>
NoR == resolved = None /\ plan = None /\ armed = None /\ pc = None /\ supply = None
    /\ filled = None /\ refused = None
ofX == <<inv, todo, conn, typed, did, docs, exit, recipe, planShown, leasedTill, now,
        wake, lag, holdEnd>>
NoX == inv = None /\ todo = None /\ conn = None /\ typed = None /\ did = None
    /\ docs = None /\ exit = None /\ recipe = None /\ planShown = None
    /\ leasedTill = None /\ now = None /\ wake = None /\ lag = None /\ holdEnd = None

Init ==
    /\ which \in {"store", "daemon", "modbus", "can", "serial", "panel", "decoders",
                 "flash", "mcp", "plan", "fdctl"}
    /\ IF which = "store" THEN S!Init ELSE NoS
    /\ IF which = "daemon" THEN D!Init ELSE NoD
    /\ IF which = "modbus" THEN M!Init ELSE NoM
    /\ IF which = "can" THEN C!Init ELSE NoC
    /\ IF which = "serial" THEN P!Init ELSE NoP
    /\ IF which = "panel" THEN U!Init ELSE NoU
    /\ IF which = "decoders" THEN B!Init ELSE NoB
    /\ IF which = "flash" THEN F!Init ELSE NoF
    /\ IF which = "mcp" THEN A!Init ELSE NoA
    /\ IF which = "plan" THEN R!Init ELSE NoR
    /\ IF which = "fdctl" THEN X!Init ELSE NoX

Next ==
    /\ UNCHANGED which
    /\ IF which = "store" THEN S!Next ELSE UNCHANGED ofS
    /\ IF which = "daemon" THEN D!Next ELSE UNCHANGED ofD
    /\ IF which = "modbus" THEN M!Next ELSE UNCHANGED ofM
    /\ IF which = "can" THEN C!Next ELSE UNCHANGED ofC
    /\ IF which = "serial" THEN P!Next ELSE UNCHANGED ofP
    /\ IF which = "panel" THEN U!Next ELSE UNCHANGED ofU
    /\ IF which = "decoders" THEN B!Next ELSE UNCHANGED ofB
    /\ IF which = "flash" THEN F!Next ELSE UNCHANGED ofF
    /\ IF which = "mcp" THEN A!Next ELSE UNCHANGED ofA
    /\ IF which = "plan" THEN R!Next ELSE UNCHANGED ofR
    /\ IF which = "fdctl" THEN X!Next ELSE UNCHANGED ofX

all == <<which, ofS, ofD, ofM, ofC, ofP, ofU, ofB, ofF, ofA, ofR, ofX>>

Spec == Init /\ [][Next]_all

-----------------------------------------------------------------------------
(* The variables of every component keep their types, the bounds of its    *)
(* queues, batches and buffers among them.                                 *)
TypesOK ==
    /\ which = "store" => S!TypeOK
    /\ which = "daemon" => D!TypeOK
    /\ which = "modbus" => M!TypeOK
    /\ which = "can" => C!TypeOK
    /\ which = "serial" => P!TypeOK
    /\ which = "panel" => U!TypeOK
    /\ which = "decoders" => B!TypeOK
    /\ which = "flash" => F!TypeOK
    /\ which = "mcp" => A!TypeOK
    /\ which = "plan" => R!TypeOK
    /\ which = "fdctl" => X!TypeOK

(* A session's record outlives kills, power failures and failed writes: an *)
(* audit event is on the disk, no event is missing without a word, and a   *)
(* registered file holds what was hashed (capture/recorder.py, timeline.py,*)
(* storage.py).                                                            *)
RecordIsComplete ==
    which = "store" => S!AuditSurvives /\ S!NoSilentLoss /\ S!ArtifactsIntact

(* While the daemon runs, an energised output is held, or the code said    *)
(* why it is not; and overlapping discoveries leave no device registered   *)
(* that the last of them did not find (daemon/service.py).                 *)
DevicesAccounted == which = "daemon" => D!DevicesAccounted

(* What a caller is told of a Modbus request agrees with what the          *)
(* controller did, and a scan asks every address once and does not take a  *)
(* gateway for a station (protocols/modbus.py), whatever is cancelled or   *)
(* late.                                                                   *)
ModbusAnswers == which = "modbus" => M!ToldTheTruth /\ M!ScanAccounts

(* A capture file is the bus or the line, in order, and what is not in it  *)
(* is counted; however the capture ends, a file that has something is      *)
(* registered (transports/socketcan.py, serial_port.py).                   *)
CapturesFaithful ==
    /\ which = "can" => C!CaptureFaithful
    /\ which = "serial" => P!BytesInOrder

(* Every captured frame is in one report; what is reported as whole has no *)
(* gap; and no service seen asks for more than the highest permission      *)
(* reported (protocols/isotp.py, uds.py), with frames lost, repeated,      *)
(* delayed and interleaved.                                                *)
DecodedHonestly == which = "decoders" => B!DecodedHonestly

(* The panel's lease has a keeper, and its device list is the daemon's     *)
(* when nothing is on its way (ui/state.py), whatever gesture, reply or    *)
(* event overtakes which.                                                  *)
PanelIsCurrent == which = "panel" => U!HeldIsKept /\ U!DevicesCurrent

(* Nothing is done to a target that no call asked for, with the image that *)
(* call hashed or a later one, and no tool outlives its call unless that   *)
(* was cancelled (debug/flash.py, actions.py, common/process.py).          *)
OnlyWhatWasAsked == which = "flash" => F!OnlyWhatWasAsked

(* An MCP client is told what the daemon made of its call, and no call     *)
(* reaches the daemon twice, however the connection fails (mcp/server.py). *)
ToldOnce == which = "mcp" => A!ToldOnce

(* What the compiler accepts the dispatcher accepts, on the devices it was *)
(* compiled for, and no setpoint passes a limit (recipes/compiler.py,      *)
(* safety/limits.py).                                                      *)
PlanKept == [][which = "plan" => R!KeepsPlan]_all

(* One document on stdout, and an exit code that is the daemon's word, on  *)
(* every way a command can end (cli/fdctl.py, cli/formatting.py).          *)
ScriptsCanRely == which = "fdctl" => X!ScriptsCanRely

(* What cannot be undone was confirmed by --yes or at a terminal, unless   *)
(* the recipe was edited after its plan was shown (cli/fdctl.py).          *)
ConfirmedFirst == which = "fdctl" => X!ConfirmedFirst

(* --hold keeps a rail up through a scheduling hiccup of two intervals and *)
(* never beyond the connection and the lease (cli/fdctl.py).               *)
HoldIsADeadMan == which = "fdctl" => X!HoldIsADeadMan
=============================================================================
