------------------------------ MODULE McpServer ------------------------------
(***************************************************************************)
(* The MCP server (mcp/): requests read from a pipe, each answered by a    *)
(* task of its own; the tool calls share a number of slots and the one     *)
(* connection to the daemon that DaemonLink keeps.  A failed call drops    *)
(* that connection for everybody and is never sent again.                  *)
(***************************************************************************)
EXTENDS Naturals, Sequences, FiniteSets, TLC

CONSTANTS
    Requests,       \* the ids a client uses, each once
    Used,           \* the tools this instance calls
    Slots,          \* MAX_CONCURRENT_CALLS
    MaxClients,     \* connections made to the daemon
    MaxFaults,      \* times the daemon goes away
    None

VARIABLES
    req,         \* each request: its tool, where its task stands, its answer
    ran,         \* what the daemon made of it
    written,     \* how often it was written to a connection
    line,        \* tasks waiting for a slot, in order
    link,        \* the connection the link holds, or 0
    connecting,  \* the task that holds the link's lock to open one
    peer,        \* each connection, as this process sees it
    made, daemon, granted, stdin, outages

vars == <<req, ran, written, line, link, connecting, peer, made, daemon, granted, stdin, outages>>

Replies == {"local", "invalid", "unreachable", "lost", "ok", "refused"}

(* What the proofs ask of the constants: connections and deaths are        *)
(* counted, and None is neither a request nor a reply.                     *)
Constants == MaxClients \in Nat /\ MaxFaults \in Nat /\ None \notin Requests \cup Replies

-----------------------------------------------------------------------------
(* The catalogue: what each tool fronts.                                   *)

SessionTools ==
    "fielddeck_status" :> "system.status" @@ "fielddeck_discover" :> "system.discover" @@
    "permission_status" :> "safety.status" @@ "session_list" :> "session.list" @@
    "session_get" :> "session.get" @@ "session_events" :> "session.events" @@
    "session_window" :> "session.window" @@ "session_summary" :> "session.summary"
BusTools ==
    "can_interfaces" :> "device.list" @@ "can_status" :> "can.status" @@
    "can_capture" :> "can.capture" @@ "can_stats" :> "can.stats" @@
    "can_decode_capture" :> "can.decode" @@ "serial_devices" :> "device.list"
InstrumentTools ==
    "serial_capture" :> "serial.capture" @@ "serial_analyze_capture" :> "tools.analyze_bytes" @@
    "bench_devices" :> "device.list" @@ "bench_status" :> "bench.status" @@
    "scpi_query" :> "scpi.query"
AnalysisTools ==
    "logic_devices" :> "logic.devices" @@ "firmware_inspect" :> "firmware.inspect" @@
    "convert_value" :> "tools.convert" @@ "calculate_crc" :> "tools.crc" @@
    "identify_protocol" :> "tools.identify_protocol"
RecipeTools ==
    "recipe_list" :> "recipe.list" @@ "recipe_validate" :> "recipe.validate" @@
    "recipe_dry_run" :> "recipe.dry_run" @@ "estop" :> "safety.estop"
\* modbus_read picks its action from an argument, which may name no register space.
ModbusRead == {"modbus.read_holding", "modbus.read_input", "modbus.read_coils",
               "modbus.read_discrete", None}
Fronts == SessionTools @@ BusTools @@ InstrumentTools @@ AnalysisTools @@ RecipeTools
Resolved(tool) == IF tool = "modbus_read" THEN ModbusRead
                  ELSE IF tool \in DOMAIN Fronts THEN {Fronts[tool]} ELSE {None}
\* The daemon's class of what a tool fronts: QUERY needs an operator's grant.
Query(action) == action \in {"scpi.query"} \cup ModbusRead

-----------------------------------------------------------------------------
Idle == [does |-> None, stage |-> "unsent", on |-> 0, reply |-> None]

TypeOK ==
    /\ \A r \in Requests :
          /\ req[r].stage \in {"unsent", "waiting", "calling", "connecting", "inflight",
                               "answered", "failing", "replied", "gone"}
          /\ req[r].on \in 0 .. made
          /\ req[r].reply \in {None, "local", "invalid", "unreachable", "lost", "ok", "refused"}
          /\ ran[r] \in {"no", "sent", "running", "ok", "refused", "failed", "cancelled"}
          /\ written[r] \in 0 .. 2
    /\ line \in Seq(Requests) /\ link \in 0 .. made /\ connecting \in Requests \cup {None}
    /\ made <= MaxClients /\ peer \in [1 .. MaxClients -> {"none", "open", "dead", "closed"}]
    /\ daemon \in BOOLEAN /\ granted \in BOOLEAN /\ stdin \in BOOLEAN /\ outages \in 0 .. MaxFaults

Init ==
    /\ req = [r \in Requests |-> Idle] /\ ran = [r \in Requests |-> "no"]
    /\ written = [r \in Requests |-> 0] /\ line = <<>> /\ link = 0 /\ connecting = None
    /\ peer = [c \in 1 .. MaxClients |-> "none"] /\ made = 0
    /\ daemon = TRUE /\ granted = FALSE /\ stdin = TRUE /\ outages = 0

At(stage) == {r \in Requests : req[r].stage = stage}
Holding == At("calling") \cup At("connecting") \cup At("inflight") \cup At("answered") \cup At("failing")
Goes(r, stage) == req' = [req EXCEPT ![r].stage = stage]
Reply(r, reply) == req' = [req EXCEPT ![r].stage = "replied", ![r].reply = reply]

-----------------------------------------------------------------------------
(* The server.                                                             *)

\* initialize, ping, tools/list, an unknown method or tool: answered here.
Answer(r) ==
    /\ stdin /\ req[r].stage = "unsent" /\ Reply(r, "local")
    /\ UNCHANGED <<ran, written, line, link, connecting, peer, made, daemon, granted, stdin, outages>>

\* tools/call: behind every other call for a slot.
Call(r, tool) ==
    /\ stdin /\ req[r].stage = "unsent"
    /\ \E action \in Resolved(tool) :
          req' = [req EXCEPT ![r].does = action, ![r].stage = "waiting"]
    /\ line' = Append(line, r)
    /\ UNCHANGED <<ran, written, link, connecting, peer, made, daemon, granted, stdin, outages>>

\* A slot: arguments that resolve to no action are refused without the daemon.
Begin ==
    /\ line # <<>> /\ Cardinality(Holding) < Slots
    /\ LET r == Head(line) IN
       IF req[r].does = None THEN Reply(r, "invalid") ELSE Goes(r, "calling")
    /\ line' = Tail(line)
    /\ UNCHANGED <<ran, written, link, connecting, peer, made, daemon, granted, stdin, outages>>

\* A request is on its way: the connection takes it, or turns out to be dead.
Sent(r, c) ==
    IF peer[c] = "open"
    THEN /\ req' = [req EXCEPT ![r].stage = "inflight", ![r].on = c]
         /\ ran' = [ran EXCEPT ![r] = "sent"] /\ written' = [written EXCEPT ![r] = @ + 1]
    ELSE /\ req' = [req EXCEPT ![r].stage = "failing", ![r].on = c] /\ UNCHANGED <<ran, written>>

Send(r) ==
    /\ req[r].stage = "calling" /\ connecting = None /\ link # 0 /\ Sent(r, link)
    /\ UNCHANGED <<line, link, connecting, peer, made, daemon, granted, stdin, outages>>

\* _connected: one task at a time opens the connection; the others wait for its lock.
Connect(r) ==
    /\ req[r].stage = "calling" /\ connecting = None /\ link = 0 /\ made < MaxClients
    /\ connecting' = r /\ Goes(r, "connecting")
    /\ UNCHANGED <<ran, written, line, link, peer, made, daemon, granted, stdin, outages>>
Connected(r) ==
    /\ connecting = r /\ connecting' = None
    /\ IF daemon
       THEN /\ made' = made + 1 /\ link' = made + 1
            /\ peer' = [peer EXCEPT ![made + 1] = "open"]
            /\ req' = [req EXCEPT ![r].stage = "inflight", ![r].on = made + 1]
            /\ ran' = [ran EXCEPT ![r] = "sent"] /\ written' = [written EXCEPT ![r] = @ + 1]
       ELSE Reply(r, "unreachable") /\ UNCHANGED <<made, link, peer, ran, written>>
    /\ UNCHANGED <<line, daemon, granted, stdin, outages>>

\* The calls in flight on a connection all fail with it.
Failing(q, cs) ==
    [r \in Requests |-> IF q[r].stage = "inflight" /\ q[r].on \in cs
                        THEN [q[r] EXCEPT !.stage = "failing"] ELSE q[r]]

\* The answer in time, or the deadline of the call.
Answered(r) ==
    /\ req[r].stage = "answered" /\ Reply(r, ran[r])
    /\ UNCHANGED <<ran, written, line, link, connecting, peer, made, daemon, granted, stdin, outages>>
TimeOut(r) ==
    /\ req[r].stage = "inflight" /\ Goes(r, "failing")
    /\ UNCHANGED <<ran, written, line, link, connecting, peer, made, daemon, granted, stdin, outages>>

(* Mutant: a call that failed with the connection is sent again.           *)
DropAndRetry(r) ==
    /\ req[r].stage = "failing" /\ link' = 0
    /\ req' = [Failing(req, {link}) EXCEPT ![r].stage = "calling"]
    /\ peer' = IF link = 0 THEN peer ELSE [peer EXCEPT ![link] = "closed"]
    /\ UNCHANGED <<ran, written, line, connecting, made, daemon, granted, stdin, outages>>

\* _drop and _lost: whichever connection the link holds NOW is closed, and the
\* call is reported as perhaps done.
Drop(r) ==
    /\ req[r].stage = "failing" /\ link' = 0
    /\ LET q == Failing(req, {link}) IN
       req' = [q EXCEPT ![r].stage = "replied", ![r].reply = "lost"]
    /\ peer' = IF link = 0 THEN peer ELSE [peer EXCEPT ![link] = "closed"]
    /\ UNCHANGED <<ran, written, line, connecting, made, daemon, granted, stdin, outages>>

\* stdin ends: every task is cancelled and the link closed.
Eof ==
    /\ stdin /\ stdin' = FALSE /\ line' = <<>> /\ link' = 0 /\ connecting' = None
    /\ req' = [r \in Requests |-> IF req[r].stage \in {"unsent", "replied"} THEN req[r]
                                  ELSE [req[r] EXCEPT !.stage = "gone"]]
    /\ peer' = IF link = 0 THEN peer ELSE [peer EXCEPT ![link] = "closed"]
    /\ UNCHANGED <<ran, written, made, daemon, granted, outages>>

-----------------------------------------------------------------------------
(* The daemon, as far as a connection shows it.                            *)

Takes(r) ==
    /\ daemon /\ ran[r] = "sent" /\ ran' = [ran EXCEPT ![r] = "running"]
    /\ UNCHANGED <<req, written, line, link, connecting, peer, made, daemon, granted, stdin, outages>>

\* It performs the request; a device that cannot be reached is a TransportError,
\* which the link takes for a failure of its own connection.
Performs(r, outcome) ==
    /\ ran[r] = "running"
    /\ outcome \in IF Query(req[r].does) /\ ~granted THEN {"refused"} ELSE {"ok", "failed"}
    /\ ran' = [ran EXCEPT ![r] = outcome]
    /\ IF req[r].stage = "inflight"
       THEN Goes(r, IF outcome = "failed" THEN "failing" ELSE "answered") ELSE UNCHANGED req
    /\ UNCHANGED <<written, line, link, connecting, peer, made, daemon, granted, stdin, outages>>

\* Its end of a closed connection: what it was doing for it is cancelled.
Noticed(r) ==
    /\ ran[r] \in {"sent", "running"} /\ peer[req[r].on] = "closed"
    /\ ran' = [ran EXCEPT ![r] = "cancelled"]
    /\ UNCHANGED <<req, written, line, link, connecting, peer, made, daemon, granted, stdin, outages>>

Dies ==
    /\ daemon /\ outages < MaxFaults /\ outages' = outages + 1 /\ daemon' = FALSE
    /\ LET lost == {c \in 1 .. made : peer[c] = "open"} IN
       /\ req' = Failing(req, lost)
       /\ peer' = [c \in DOMAIN peer |-> IF c \in lost THEN "dead" ELSE peer[c]]
    /\ ran' = [r \in Requests |-> IF ran[r] \in {"sent", "running"} THEN "cancelled" ELSE ran[r]]
    /\ UNCHANGED <<written, line, link, connecting, made, granted, stdin>>
Starts ==
    /\ ~daemon /\ daemon' = TRUE
    /\ UNCHANGED <<req, ran, written, line, link, connecting, peer, made, granted, stdin, outages>>
Grant ==
    /\ ~granted /\ granted' = TRUE
    /\ UNCHANGED <<req, ran, written, line, link, connecting, peer, made, daemon, stdin, outages>>

Next ==
    \/ Begin \/ Eof \/ Dies \/ Starts \/ Grant
    \/ \E r \in Requests :
          \/ Answer(r) \/ Send(r) \/ Connect(r) \/ Connected(r) \/ Answered(r) \/ TimeOut(r)
          \/ Drop(r) \/ Takes(r) \/ Noticed(r)
          \/ \E tool \in Used : Call(r, tool)
          \/ \E outcome \in {"ok", "refused", "failed"} : Performs(r, outcome)

Spec == Init /\ [][Next]_vars

-----------------------------------------------------------------------------
(* What a client is told of a call is what the daemon did with it: "ok"    *)
(* and "refused" are the daemon's own words; a call said never to have     *)
(* been attempted was not; no call reaches the daemon twice, however the   *)
(* connection failed (mcp/server.py:186-190); and nobody waits on a        *)
(* connection that is gone.                                                *)
ToldOnce ==
    \A r \in Requests :
        /\ req[r].reply \in {"ok", "refused"} => ran[r] = req[r].reply
        /\ req[r].reply \in {"unreachable", "invalid", "local"} => written[r] = 0
        /\ written[r] <= 1
        /\ req[r].stage = "inflight" => peer[req[r].on] = "open"
        /\ link # 0 => peer[link] # "closed"

(* "estop, which you may always call" (mcp/server.py:128-129); "Every      *)
(* client may call this, including you, at any time" (mcp/tools.py:972):   *)
(* an emergency stop never waits behind other tool calls.                  *)
StopNeverWaits ==
    \A r \in Requests : req[r].does = "safety.estop" /\ req[r].stage = "waiting" =>
        Cardinality(Holding) < Slots
=============================================================================
