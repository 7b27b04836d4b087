# Field-deck: specification, model checking and proofs

Field-deck is a test bench on a small computer. A daemon, `instrumentd`, owns
every instrument; an operator panel, a command line, an MCP server and recipes
are its clients over a Unix socket. What makes the system worth specifying is
one promise: **no hazardous output stays on unless somebody holds a lease on it
or has been told about it**, through emergency stops, lapsed leases, dying
clients, hanging drivers and actions that finish too late.

All paths below are relative to `src/fielddeck/` unless they start with `src/`.

## 1. The system

### 1.1 Components

| Component | State it keeps | Operations | Talks to |
|---|---|---|---|
| Safety manager (`safety/manager.py`, `arm.py`, `leases.py`, `estop.py`) | dictionary of arm grants, dictionary of output leases, the stop latch | authorize, arm, disarm, engage and acknowledge stop, acquire/renew/release lease, take leases of a connection, sweep, reset | called by dispatcher and service, synchronously |
| Dispatcher (`daemon/dispatcher.py`) | running handlers, per-device generation counter, per-device lock | execute, cancel, apply_safe_state | safety manager, registry, event bus, drivers |
| Daemon service (`daemon/service.py`) | safety-loop task, sockets, registry | start, stop, discover, safety loop, disconnect handler, RPC methods | everything |
| RPC server (`daemon/rpc.py`, `protocol.py`) | connections, their in-flight tasks and slots | accept, read a line, dispatch, close | service |
| RPC client (`daemon/client.py`) | pending calls by id, subscription queues | connect, call, execute, subscribe, close | RPC server |
| Event bus (`daemon/events.py`) | history ring, subscriber queues, sinks | publish, subscribe, recent | session recorder, RPC pumps |
| Registry and discovery (`daemon/registry.py`, `discovery/`) | drivers by id, aliases, global actions | add, remove, resolve, lookup | service, dispatcher |
| Limits (`safety/limits.py`) | limit tables | check | dispatcher, recipe compiler |
| Sessions (`capture/sessions.py`, `recorder.py`, `timeline.py`, `storage.py`) | current session, SQLite timeline, append-only logs, files | start, stop, record, flush, read back | event bus |
| Recipe runner (`recipes/runner.py`, `actions.py`) | steps, stop flag, deadline, leases taken | run, cancel, cleanup | a client connection of its own |
| Recipe language (`recipes/schema.py`, `compiler.py`, `assertions.py`) | none (pure) | parse, compile, evaluate | runner |
| Bench instruments (`bench/scpi.py`, `visa.py`, `profiles.py`) | exclusive transport, worker threads, last setting | query, write, psu.*, load.*, safe_state | dispatcher |
| Transports (`transports/*.py`) | serial ports, CAN sockets, GPIO lines | open, read, write, capture | dispatcher |
| Protocol decoders (`protocols/*.py`) | reassembly tables, Modbus bus lock | reassemble, decode, read, write | capture files, serial |
| Analysis (`analysis/*.py`) | none (pure) | CRC, framing, conversions, detection | capture files |
| Debug probes (`debug/*.py`) | none between calls | plan, program, verify, erase | external tools |
| External tools (`common/process.py`) | a child process | run with timeout and output limit | debug, capture |
| Simulators (`sim/*.py`) | simulated outputs and buses | as the real drivers | dispatcher |
| Panel (`ui/`), CLI (`cli/`), MCP server (`mcp/`) | a client connection, last readings | RPC calls | RPC server |

### 1.2 What is hard

One asyncio loop runs the daemon, so code between two `await`s is atomic, and
everything else interleaves: a handler may sit in its driver for seconds while
a stop, a lapse, a lease release or a disconnect drives the same device safe.
The safe-state path deliberately takes no device lock. What keeps a handler
from undoing it is the generation counter of `apply_safe_state`, compared by
`_reject_if_superseded` after the handler. Handlers time out, drivers hang in
`safe_state` and are cut off after five seconds, closing a connection cancels
its tasks in the middle of whatever they do, leases lapse by the clock, and a
restart forgets everything. PROJECT.json lists the hazards line by line.

### 1.3 What makes each component correct

* Safety manager: a latched stop leaves nothing to act on; only a human arms; a
  lease is a dead-man handle, never a timer; a revoked or expired record never
  authorizes anything even before it is swept.
* Dispatcher and service: a live output is always answered for; a request
  overtaken by a safe state finds out; a stopped and settled bench is off or
  reported; a lapsed lease ends in a safe output.
* RPC server and client: an answer reaches the call that asked, a connection's
  work ends with it, a stop can always get in.
* Event bus: a slow subscriber never blocks a publisher; drops are counted.
* Registry: one driver per id; a lost device gives its leases up.
* Sessions: a record the daemon acknowledged survives a crash or is missing at
  the end, never in the middle.
* Recipes: the cleanup runs whatever ends the steps; a verdict of PASSED means
  every step ran and passed.
* Decoders: every frame is reported once, what is called whole has no gap.
* Bench driver: a safe state reaches every channel; exchanges do not mix.
* Transports: a capture is what was on the line, in order, or says what is not.
* Flash tools: a target changes only as asked, and what was written is recorded.
* Clients: what a person, a script or a model is told is what the daemon did.

## 2. The modules

```
OutputAuthority  (clock-free authority)
   ^  EXTENDS                        ^  refined by (INSTANCE Authority)
Dispatcher                        SafetyManager
   ^                                 ^                 ^
MCDispatcher, DispatcherProofs    MCSafetyManager   SafetyManagerProofs

RecipeRunner    (a client of one device)       <-  MCRecipeRunner,    RecipeRunnerProofs
BenchInstrument (a driver below the handlers)  <-  MCBenchInstrument, BenchInstrumentProofs
Rpc             (one connection, both ends)    <-  MCRpc,             RpcProofs

SessionStore  Daemon  PanelState  McpServer  Fdctl                    Modbus  CanBus
   ^  instances, in Services       <-  ServicesProofs                 SerialPort  BusDecoders
   |                                                                  FlashTools  RecipePlan
   |                               BenchProofs  ->  Bench, instances     ^
Components (one of them at a time)  EXTENDS Services and Bench  <-  MCComponents, ComponentsProofs
```

`Services` and `Bench` declare the constants and variables of their components
under the components' own names and instantiate them; a name two components
share is given to one of them by `WITH` (`Devices <- Supplies` for `Daemon`,
`Requests <- McpRequests` for `McpServer`, `Recipes <- OnDisk` for `RecipePlan`,
`Idle <- OtherIds` for `BusDecoders`).

`OutputAuthority` is the contract between the two halves. `SafetyManager` shows
that the code of `fielddeck/safety`, with its clock and its records, keeps it;
`Dispatcher` is built on the contract alone, so it has no clock in its state.

### 2.1 OutputAuthority

`armed` is the set of devices some active grant lets an action energise, `held`
the leases with their device and owner connection, `lapsed` those past their
deadline which the safety timer has not reaped, `estop` the latch. Passing time
is `Elapse`: some grants stop being active, some leases reach their deadline.

### 2.2 SafetyManager

| Variable | Code |
|---|---|
| `now` | `monotonic_ns()` (`common/timebase.py`) |
| `estop` | `EstopController._status` |
| `grants` | `ArmRegistry._grants`: class, scope, deadline, revoked flag |
| `leases` | `LeaseManager._leases`: device, owner, deadline, interval |

Each public method is one action, as none of them suspends. Kept from the code:
a revoked grant stays in the dictionary until the sweep; `revoke` by id works
on an expired grant and `revoke_all` only on active ones; `for_device` skips
leases past their deadline while `take_for_connection` and `take_all` do not; a
renewal is clamped to the interval in force and then shortens it; an over-long
arm TTL is clamped to the ceiling of its class, and the ceilings are per class.
Identifiers are reused once their record is gone, which only adds behaviours.

### 2.3 Dispatcher

| Variable | Code |
|---|---|
| `rail` | the physical output (`SimPsuDriver.output_enabled`) |
| `pc`, `req` | the coroutine of `Dispatcher._execute` and its request |
| `superseded` | `_safe_state_generation[d] != safe_generation` |
| `link` | the life of a `ClientConnection` |
| `pending`, `safe`, `failed` | one `asyncio.gather` of `safe_one` per caller of `apply_safe_state` |
| `warned` | history: live devices a CRITICAL "treat it as live" event names |
| `loose` | history: live devices whose enabling action, or whose safe state, was dropped half-way |

An action of the module is what happens between two suspension points:
`Execute` is `_execute` up to the handler task (authorization, the device lock,
which refuses instead of waiting, the lease, the generation sample),
`HandlerWrites` the moment the driver commands the output, then `Complete`,
`Revert` or `HandlerFails`. A failure may come before or after the write.
`action.cancel` reaches a handler only when its action is declared cancelable,
which no sustained output action is. `Disconnect` follows `_serve_client`:
first `_on_disconnect` drives the owned devices safe while the client's
requests go on, then `ClientConnection.close` cancels them. `DeviceSafed` and
`SafeStateFails` are the two outcomes of `safe_one`.

### 2.4 RecipeRunner

One `recipe.run`: the runner, its cleanup, and the daemon as the runner meets
it, through answers.

| Variable | Code |
|---|---|
| `at` | where `RecipeRunner.run` and `recipe_run` are suspended |
| `outcomes`, `cleaned` | outcomes in `_steps` and `_finally` |
| `flags` | `_stop`, `_cancelled`, `_estop`, and `_failed` or `_failure` |
| `cleanup` | the coroutine of `_cleanup`: inline, shielded, left behind, killed |
| `verdict` | `_state`; a failed preflight is `REFUSED` here |
| `answer` | the `InstrumentClient.call` the runner or the cleanup awaits |
| `serving`, `leases`, `rail`, `latch` | the daemon's handlers for the run, the leases of its connection, the output, the stop |
| `conn` | the run's connection, until the daemon has cleaned up after it |

Three ways to end a run early are kept apart. `Cancel` (`recipe.cancel`) sets
the stop flag. `Interrupt` is a `CancelledError` at the await of the moment: in
`_run_steps` it leads to the shielded cleanup, at the shield it leaves the
cleanup behind, and in `_classify_stop` or an inline cleanup nothing catches
it. An emergency stop does both of these to the task of `recipe.run`, one after
the other, and cancels its captures. A step asked to stop is dropped after its
grace period while its handler goes on in the daemon, where it still holds the
device lock. Between two steps the stop flag is read before the round trip for
the safety status and not after it. Only the latest call of a phase can be
answered. The deadline of the run may pass at any check of it.

A safe state is one step here and succeeds: `Dispatcher` has its failures and
its gaps. "Lost contact with instrumentd" between steps is left out: the runner
lives in the daemon's own loop. A dry run, the session the run opens, and the
values assertions see are left out; an assertion passes or fails.

### 2.5 BenchInstrument

One multi-channel supply. An exchange is a command under the transport's lock,
with an answer when it is a query; a handler is a sequence of exchanges and
releases the lock between them, so two handlers alternate.

| Variable | Code |
|---|---|
| `job`, `step` | the handlers and the exchange each is at; the channel of `safe_state` |
| `line` | `ScpiTransport._lock`: holder, then waiters in order |
| `sent` | the worker thread of the holder has transmitted |
| `stray` | worker threads whose `wait_for` gave up: `to_thread` does not stop them |
| `bound` | `_profile is not None` |
| `selected`, `out`, `outbox` | the instrument: selected channel, outputs, unread answers |
| `told`, `failed` | the verdict of `safe_one` on the last safe state, and its `errors` |

`Fail` is an error from the library, a timeout included: the command may have
gone out, and the answer of a query may still come. `GiveUp` is a call that
does not return at all, `Cancel` a handler timed out or dropped; both leave a
thread that goes on without the lock, or dies. `SafeBegins` covers the safe
state at daemon start, the first after a `Restart`. Several queries in a row
(error queue, readbacks) are one; opening the session and the terminators
belong to `identify`. One safe state runs at a time. The instrument, external,
obeys what is transmitted and keeps `MaxUnread` answers until they are read.
Deadlines are not counted, so a safe state may wait for the lock in vain at
every channel, which five seconds would cut off; that only adds behaviours, and
`safe_state_report` is run without it.

### 2.6 Rpc

One connection, from the client's calls to the daemon's tasks and back.

| Variable | Code |
|---|---|
| `call`, `reader`, `gone` | `InstrumentClient._pending`, its `_read_loop`, `close()` or death |
| `listening`, `inbox`, `seen` | the queue in `_subscriptions`, what `subscribe()` yielded |
| `up`, `down`, `hungUp` | the two directions of the socket, and the daemon's end of it |
| `serving`, `hand` | `_serve_client`: where it waits, the line it read |
| `task`, `shut` | `ClientConnection.inflight` and its slots, `_closed` |
| `sub`, `queue`, `pumped`, `dropped` | `Subscription` and the pump of `_rpc_events_subscribe` |
| `clock`, `since`, `arrived` | history: events published, before the subscription, taken by the client |

Requests of a connection run concurrently, so answers come in any order; a line
is not read while all slots are taken. `Send` is `ClientConnection.send`:
nothing on a closed connection, a broken pipe closes it, a full stream waits.
The faults: a call that times out, an answer beyond the protocol's limit, which
ends the client's read loop but not the connection, a request beyond it, which
ends the connection, and `RpcServer.stop`. What a method does is abstracted,
except that `events.subscribe` starts a pump and `events.unsubscribe` ends it;
a pump cancelled before its first step, which takes an unsubscribe sent ahead
of the answer, is left out, and so are the sockets' files, the sources and the
restricted socket. Disconnects have their effect on leases in `Dispatcher`.

### 2.7 SessionStore

A session's events and captures. `rows`, `log` and `trail` give, for each
event, how far its row in `timeline.sqlite`, its line of the events log and its
line of the audit log have got: the process's memory (a batch of the timeline,
the compressor of the log), the operating system's cache, the disk. `Die` and
`PowerFails` lose the first one, or the first two. An audit event is flushed and
synchronised with its batch; an ordinary one waits for the batch or the next
flush. A database that refuses a batch loses it; after `StopFails` the manager still has
a recorder that counts itself closed. `cap` follows a capture from its name (`next_filename`)
to its file and its registration; the file may appear later, when a tool writes
it, and two tools that are started before either has written get one name:
`ArtifactsIntact` excuses that case and no other. `spoilt` are the sessions that met a crash, `complained` the events whose
loss the daemon's log names: both are history, the properties' excuses.

### 2.8 Daemon

The process from boot to exit, above `Dispatcher`: `phase` is where `start()` or
`stop()` is, `registry` the drivers, `scan` the callers of `system.discover`,
each listing the registry first and removing and adding drivers later, with a
safe state awaited in between. A client's handler is one job, overtaken or not.
`excuse` is history: every reason the code has for an output to stay on without
a lease: a warning, a device that was unplugged or not yet discovered, a
previous daemon's, an action abandoned half-way.

### 2.9 Modbus, CanBus, SerialPort

`Modbus` is one master with its bus lock (`_bus`: who waits for the lock
reports "busy", not a timeout), its requests, and the simulated controller, which
refuses a write as a whole. `told` is what the caller heard, `did` what happened.
Frames of a cancelled caller stay on the line and may be answered late.

`CanBus` has the reader thread (`Recv`), the bounded queue it refuses frames to,
the drain loop with its filter and its limit, the three ends of a capture, and
beside them `can.send`. `SerialPort` numbers the openings of the port; a
reader is a task and a worker thread, and a reader that is stopped while its
thread reads takes its bytes (`held`) along. `conf` are the `serial.configure`
calls that wait for a reader to end.

### 2.10 BusDecoders

`reassemble`, the UDS names and `summarize` are folds over a stored capture;
here they take each frame as the capture sees it, after it was lost, repeated or
delayed past others, and `Finish` is the end of the file. A report holds the
places of its frames in the capture (`seen`), which stand for their bytes, so a
message put together wrongly is visible. Reports are a set: the final sort by
time gives their order, and no property is about it.

### 2.11 FlashTools

A call plans a tool's command (`Planned`), is checked against the permission of
its action, runs the tool as a process and files a record. The firmware file may
change at any time; `hash` is what the plan saw and `proc.read` what the tool
read. A tool that takes too long is asked to end and then killed; one whose call
is cancelled is asked to end and left alone after that.

### 2.12 PanelState, McpServer, Fdctl

The three interactive clients, each against what it sees of the daemon.
`PanelState`: the supervisor (`phase`), its polls, the pump, gestures that wait
in the daemon's queue for the supply, and the keeper that renews `held`.
`McpServer`: a task per request, a number of slots, one shared connection that
any failed call drops. `Fdctl`: a command is a script of steps, "ask" for a typed
word, "do" an operation, "hold" an output; `exit` and `docs` are what a shell
script gets. Time is counted only while an output is held, in half seconds.

### 2.13 RecipePlan

What a recipe promises before it runs. `Compiled` is `parse_recipe` and the
compiler: step kinds, repetitions, namespaces, limits that may only narrow, the
worst class; the run meets the dispatcher's checks with the limits and devices
of its own moment, and another client sets the same supply. `RecipeRunner` has
the order and the failures of a run, `RecipePlan` the values.

### 2.14 What the models abstract

Schemas of parameters beyond the values above, event wording; the arithmetic of
nanoseconds (a tick stands for any amount of time); devices without a
sustained output. Several sustained action kinds of one device are one.

## 3. The runs

| Run | Instance | Shows |
|---|---|---|
| `safety_manager` | 2 devices, 2 clients, 1 grant, 2 leases, clock to 3 | types, `EstopHoldsNothing`, `DeadManHandle`, `ImplementsAuthority` |
| `dispatcher` | 1 device, 2 requests, 2 clients, all faults | `RailAccounted`, `OvertakenIsNoticed`, `StoppedBench`, `PipelineInv` (their inductive form) |
| `dispatcher_liveness` | 1 device, 2 requests, 1 client, all faults, fairness | `LapseDrivesSafe` |
| `abandoned_action` | failing handlers | violated: see Findings |
| `interrupted_stop` | disconnects | violated: see Findings |
| `recipe_runner` | switch on, capture, wait, assert; then wait, switch off, assert; 2 cancellations, all faults, fairness | `PassedMeansPassed`, `OneLateStep`, `OffSticks`, `Backstop`, `CleanupBegun`, `RunEnds` |
| `cleanup_killed` | 1 cancellation during the cleanup | violated: see Findings |
| `bench_instrument` | 2 channels with selection, 2 handlers, 4 jobs, 1 stray thread, 2 unread answers, all faults | `LeftOnOnlyByFailure`, `SettersKeepApart`, `AnswersKeepApart` |
| `rpc` | 3 calls (subscribe, work, unsubscribe), 3 events, 1 slot, queues and stream of 1, all faults, fairness | `FreshInOrder`, `EventsAccounted`, `NothingOutlives`, `RequestsGetIn`, `GoneIsNoticed` |
| `components` | eleven modules of one component each, see below | `RecordIsComplete`, `DevicesAccounted`, `ModbusAnswers`, `CapturesFaithful`, `DecodedHonestly`, `PanelIsCurrent`, `OnlyWhatWasAsked`, `ToldOnce`, `PlanKept`, `ScriptsCanRely`, `ConfirmedFirst`, `HoldIsADeadMan` |
| `recipe_exit` | every command line once | violated: see Findings |
| `safe_state_report` | 1 handler, failing exchanges | violated: see Findings |

**Bounds.** The clock stops at `Horizon` = 3, longer than the longest TTL, so
a record can be issued, clamped, lapse and be swept. TTLs of 1 and 2 against
ceilings of 1 (output class) and 2 make clamping happen. Two requests on one
device are what a lease taken by one client and given up by another needs; two
clients are what a release or a stop by someone else needs. Several devices, two
grants with two leases, and the policy that lets an operator arm under a latched
stop are beyond these instances and covered by the theorems, which hold for all
of them. A recipe of four steps and a cleanup of three contain each kind of
step, a second cancellation is what interrupts a cleanup that the first one
started, and its switch-off has a step before it and one behind it. Two
channels with a job on each and two handlers are what it takes for one to act
on the other's selection; one unread answer shifts the queue, a second one
shows that it stays shifted. `Faults` says which
faults the environment may produce, so that a violating run shows its cause.

**Side by side.** The components of `Components` share no state, so their
product would be wasted work: a behaviour is a behaviour of one of them, chosen
by `which`, on variables the others do not have, and the states add up instead
of multiplying. A module of its own for each would be the same check in eleven
runs. `MCComponents` gives the instances:

| Component | Instance | What the bounds are for |
|---|---|---|
| `SessionStore` | 2 sessions, 3 events, batches of 2, 3 captures of one label (two by tools), 1 fault | a batch that is full and one that is not, a session after a crash, two tools given one name |
| `Daemon` | 1 supply, 2 clients, 2 discoveries, 1 fault | one overtakes the other: handlers, discoveries, stop |
| `Modbus` | 2 callers, stations 1 and 2 (behind a gateway), writes of one and two registers | one late frame, one waiter, a write refused in part |
| `CanBus` | 4 frames of 3 kinds, queue of 2, limit of 3, sends of 2 | a full queue, a full file and a frame beyond |
| `SerialPort` | 4 chunks, queue of 2, budget of 3, 3 openings, 1 reconfiguration | a reader left behind with bytes while the next one reads |
| `BusDecoders` | 2 senders of messages of 3 and 2 frames, 1 fault | interleaved messages, a gap, a first frame too early |
| `FlashTools` | 2 overlapping calls, 2 images | each may change what the other hashed |
| `PanelState` | 2 list versions, 2 leases, queue of 2, 1 restart, 1 timeout | a reply or an event that speaks of the lease before |
| `McpServer` | 3 calls, 2 slots, 2 connections, 1 fault | one call waits, two share a connection that fails |
| `RecipePlan` | plans of up to 4 steps, 2 supplies, one limited further | a replug between compilation and run, values at, above and between two limits |
| `Fdctl` | every command with every option, TTLs of 1, 3 and 6, clocks to 10 | a renewal at a third of the TTL, a process that wakes too late |

**Fairness** (`FairSpec`). The safety timer is a task that always sleeps 250 ms
and runs again (`_safety_loop`, every exception caught); every handler and
every `safe_state` is under `wait_for`, so each ends one way or another; asyncio
resumes a coroutine whose result is there. Nothing is assumed of clients and
operators: no renewal, no acknowledgement, no release. In `RecipeRunner` the
loop resumes the runner and its cleanup, each call has a deadline of its own
(`InstrumentClient.call`), and the daemon reads the end of a closed stream;
handlers owe nothing, so `RunEnds` holds though every handler hangs. In `Rpc`
both read loops run, methods end (their actions have deadlines), and an answer
that may be sent again and again is sent: the write lock serves in order.

**Deadlock** is checked in every run but `components` and `recipe_exit`: a
command that has ended, a capture that is over and a file that has been read
have nothing left to do.

## 4. Findings

* `abandoned_action`: an enabling action that fails after its write leaves the
  output on. `_abandon_lease` removes the lease and promises that "safe state
  will be applied"; nothing applies it, and without a lease the timer has
  nothing to reap.
* `interrupted_stop`: the safe states of an emergency stop belong to the
  requesting connection; if that closes, they are cancelled.
* `cleanup_killed`: `run()` shields the cleanup only when the steps are
  interrupted. A cancellation while it attributes a stop, or during the inline
  cleanup, an emergency stop for one, ends the run with finally steps not gone
  through.

The lease of the closed connection still takes the output off then: `Backstop`
holds in `recipe_runner`, except after an action that was dropped half-way. A
cleanup whose shield ends early, which the code leaves "running deliberately",
does not get far either: `recipe_run` closes the client it needs.

`RailAccounted` and `StoppedBench` excuse exactly these (`loose`), and nothing
else: together with the runs they say the list is complete for the model.

* `safe_state_report`: the bench driver lists failed commands under `errors`,
  the dispatcher looks for `error`, and the timeline says the supply was made
  safe. With the fault `restart` the same property fails without any error: the
  profile is forgotten, nothing is sent, the output is still on.
* `recipe_exit`: `fdctl recipe run` looks at `failed_assertions` and `outcome`;
  the answer has `assertions_failed` and `state`, so a recipe whose assertion
  failed exits with 0.

`SettersKeepApart` shows that two state-changing actions cannot do that to each
other, and `AnswersKeepApart` that answers get mixed up only after an exchange
was given up; then, however, they stay so until the session is reopened.

Other sentences of the code and its documents do not hold in the models either.
They are stated as definitions beside the properties that do, with the sentence
they quote, and are not among the runs, which keep to the five above; adding a
definition to the module's cfg shows its counterexample.

| Definition | What happens |
|---|---|
| `Dispatcher!DeadClientLeavesNothingLive` | on a disconnect the devices are made safe first and the handlers cancelled afterwards: a handler in between wins |
| `BenchInstrument!SetpointLands` | selection and setpoint are separate exchanges; a measurement, which takes no device lock, selects another channel between |
| `Daemon!LetGoIsSafe` | a request that is served while `stop()` makes the devices safe switches on behind it |
| `Modbus!OneFrame` | a cancelled caller releases the bus while its frame is on the line |
| `CanBus!TransmissionStops` | the sending thread never looks at the lock that `safe_state` closes |
| `SerialPort!BytesInOrder` with `Overlap` | two reconfigurations at once leave two readers on one port |
| `PanelState!OneEnable` | a second tap cancels the wait for the first request, not the request |
| `PanelState!Reconnects` (under `FairSpec`) | a gesture that times out forgets the client; the supervisor's own connection is fine, so nothing connects again |
| `McpServer!StopNeverWaits` | an emergency stop takes a slot like any other tool |
| `RecipePlan!PowerUnderCeiling` | the product of the limits is checked for the values of one request; voltage and current set one after the other pass |
| `FlashTools!RecordExplainsTarget` | a tool that failed half-way leaves no record of what it did to the target, and overlapping calls may file theirs in another order than they wrote |
| `BusDecoders!ElevenBitSkipped` | `summarize` counts 11-bit frames under a parameter group |
| `\A a \in artifacts : a \in files` in `SessionStore` ("never overwrites an existing capture", `capture/storage.py:138`) | two analyzers, or two cameras, asked for captures of one label are given one file name, as nothing reserves it; the second tool writes over the first one's registered file |
| `Fdctl!ErasedTwiceConfirmed` | without `--confirm` the target itself is sent as the confirmation |
| `Fdctl!DaemonGivesUpFirst` | commands that do not say how long they wait give up after 30 s, before an action with a longer deadline ends |

## 5. The proofs

`SafetyManagerProofs` proves, for any number of grants, leases, devices and
clients and any configuration that satisfies the assumptions of the module:

* `TypeCorrect`: the type invariant, one step per method. `RenewLease` needs
  that a clamped interval is again one of `Ttls`, `AcquireLease` that it is
  positive.
* `StopHoldsNothing`: `EstopHoldsNothing` is inductive relative to `TypeOK`.
  The clock cannot break it because an inactive grant never becomes active.
* `HandleIsNeverATimer`: the action property `DeadManHandle`.
* `ManagerImplementsAuthority`: the refinement. `Tick` maps to `Elapse` of what
  stops being active, `Sweep` to `Reap` or a stutter, a renewal to a stutter
  (it needs that the new deadline is ahead), every other method to the action
  of its name.

Assumptions used: `DurationAssumption` (TTLs are positive), `PolicyAssumption`,
`FreeIsNoRecord`.

`DispatcherProofs` proves, for any number of devices, requests and clients and
any set of faults:

* `TypeCorrect` (`TypeOK`) and `PipelineCorrect`: `TypeOK` and `PipelineInv`,
  the inductive invariant.
* `OutputsAccounted` (`RailAccounted`), `BenchStopped` (`StoppedBench`) and
  `OvertakenNoticed` (`OvertakenIsNoticed`), which follow from it.

`RailAccounted` alone is not inductive, for three reasons, and each gives a
part of `PipelineInv`. A lease is taken before its handler has written, so a
lease found in the table need not be the one that sustains the output:
`LiveIsAnsweredFor` does not count the lease of a request that has not written.
A request that completes keeps its output on and must then still hold its lease:
`OvertakenIsNoticed`, which in turn needs that a switch-off on another request
cannot surrender that lease, hence the device lock (`OneAtATime`). A request
that switches off gives the leases of its device up and so needs the output to
be off still (`WrittenOff`). `OwnLease` ties an abandoned lease to the device
its request has left in doubt, and `CallsBelong` says that a new safe state
never overwrites one under way. `StopHoldsNothing` adds the latch. There is one
lemma per part, and for `LiveIsAnsweredFor` one per kind of step.

The other proofs have the same form: an invariant that holds initially, that
every step keeps, and that gives the property.

* `RecipeRunnerProofs`, for any plan, cleanup, number of cancellations and
  faults. `Control` follows the runner alone (why the steps phase was left, when
  the cleanup was begun, how many steps were started late) and gives `RunTyped`,
  `PassedOnlyIfPassed`, `AtMostOneLate` and `CleanupIsBegun`. `Backstop` needs
  the daemon's side, `Output`: an output that is on has a handler that will
  answer for it or a lease that no handler under way can take along
  (`Sustained`), and for that no step is asked for twice (`AskedOnce`), since
  steps are what leases are named by. `OffStays` assumes `OnlyOff`: no finally
  step switches on. A cleanup that switches off and later on again leaves the
  output on because it says so.
* `BenchInstrumentProofs`, for any number of handlers and channels, any jobs and
  any faults. The line holds exactly the handlers that wait or transmit, each
  once (`Control`), so the worker thread belongs to its head, and what does not
  is in `stray`. `EveryChannelAddressed` then counts the channels a safe state
  has passed (`SweepKept`); `SettersApart` needs the device lock (`OneSetter`)
  and that nothing but a reading action or a stray thread selects while it is
  held; `AnswersApart` that an answer in the queue belongs to the exchange that
  is transmitting.
* `RpcProofs`, for any number of requests, slots and events, a queue of any
  size and any set of faults: `TypeCorrect`, `EventsInOrder` (`FreshInOrder`),
  `NoEventLost` (`EventsAccounted`) and `NothingLeft`
  (`NothingOutlives`). What is on the wire, in the queue and in the hands of the
  pump forms one increasing run of event numbers (`InOrder`); each published
  event is in it, handed over, or counted as dropped (`Accounts`), which needs
  that a subscription exists on both ends or is under way (`SubHolds`,
  `Requested`) and that a line answers a request that was sent (`LinesKnown`).
  `OneSubscription` is assumed: one request at most subscribes.

The components are proved in two modules, `ServicesProofs` and `BenchProofs`,
one section each: its invariant, a lemma for the initial states, one for every
part and the steps that can disturb it, and what the invariant means.
`ComponentsProofs` has the theorems: a behaviour of `Components` stays with the
component it begins with (`SameComponent`) and is one of that component's
(`StoreAlone`, `DaemonAlone`, ...), whose invariant then holds throughout.

* `OutputsHeld` (`DevicesAccounted`), for any number of devices, clients,
  overlapping discoveries and faults. `HeldOrExcused` does not survive the end
  of a handler on its own: a handler must have its lease still, or be marked
  overtaken, or its device be excused (`Answers`). `NoGhosts` needs that what is
  registered and was not found is on some discovery's list (`Listed`), and the
  boot that nothing is left of the last process (`Quiet`).
* `RecordKept` (`RecordIsComplete`), for any number of sessions, events,
  captures and faults and any batch size. What the process still holds is of the
  session being recorded, and a row in memory is never an event's only copy
  unless it was complained of (`Buffered`): that is why a batch the database
  refuses and a kill lose nothing in silence, and why a failed stop has to count
  its session as spoilt (`Lifetime`). A capture has one file at most, under the
  name it was given (`Named`), so there are fewer names taken than captures and
  the search for a free one ends (`NameIsFree`, by counting).
* `PanelTellsTruth` (`PanelIsCurrent`), for any queue, any number of leases,
  requests under way, restarts and timeouts. A list is on its way only to a
  supervisor that waits for it (`Awaited`), and when it is older than the
  daemon's, an event that says so is queued, or asked for again (`Current`).
* `CallsToldOnce` (`ToldOnce`). What waits has sent nothing (`NothingYet`), each
  request has one place in the line (`LineWaits`), and one task at a time opens
  a connection (`OneConnects`).
* `AnswersAgree` (`ModbusAnswers`). For each caller, what it does, what it has
  on the line, what the controller did and what it was told fit together
  (`Fine`): a frame is wanted exactly while its caller waits for it, its reply
  is the controller's to that frame, and what a scan has left are the addresses
  behind those it has seen. A waiter is in the queue once (`Queue`).
* `TargetAsAsked` (`OnlyWhatWasAsked`). Every change of the target has a
  process behind it (`Explained`), a process does what its call asked for
  (`OwnProcess`), and a command came out of the planner as the operation that
  was asked (`WellPlanned`).
* `PlanIsKept` (`PlanKept`). The limits a plan declares can only narrow the
  unit's (`RecipeLimitsAreStricter`), so what the compiler let pass the
  dispatcher lets pass; the plan of a run is what the compiler made of its
  recipe (`FromCompiler`), and every step before the next one has left its
  result (`ResultsThere`).
* `CapturesKept` (`CapturesFaithful`), for any queue, buffer, `max_frames` and
  budget. Of the bus (`CanIInv`): frames are numbered as they are heard, queue
  and file are in that order and no frame is in two places; each frame heard is
  in one of them, was dropped and counted, or was cut off, and a wanted one was
  cut off only by a full file (`CanCutLast`). Of the line (`SerialIInv`): one
  reader lives (`SerialOneLive`), so what the file, the buffer and that reader
  hold came in this order (`SerialOrdered`), and each chunk that arrived is there
  or among the losses (`SerialPlaced`). That needs `serial.configure` to run
  alone, which no lock makes it do: with callers that overlap it (`Overlap`) the
  theorem says nothing of the serial port, and section 4 shows why.
* `EachFrameReported` (`DecodedHonestly`), for any ids, messages and faults of
  the bus. Every captured frame is in exactly one report or in what its id is in
  the middle of, the pieces of one id share no frame and have theirs in the order
  of the capture (`DecodersIInv`); what has no problems so far is numbered
  without a gap, from its first frame to the one expected next. The rank of a
  service then follows from the report its first frame is in.
* `TypesKept` (`TypesOK`), for every value of the constants: the types of all
  eleven components, which say how full a queue, batch, table or pool may get.
  Most parts are in the invariants above. Beside them: one record is filed for
  each flash call that is done (`FlashFiled`), a request is on a connection that
  was made (`McpMade`), a run ends after its last step and has filled namespaces
  of its steps only (`PlanReached`), and a lease of `fdctl` ends within its life
  from now (`FdctlBounded`).
* `ScriptsRely`, `ConfirmedBefore` and `HoldRenewed` (`ScriptsCanRely`,
  `ConfirmedFirst`, `HoldIsADeadMan`), for any lists of classes given to arm, any
  life of a lease and any length of a hold. In what is left of a script, a step
  that wants a confirmation is behind a question for one, unless there has been
  one (`Questioned`), and a run is of the plan that was shown, with no other plan
  after it (`Planned`). A command that goes on has printed nothing and has been
  told of no error (`Silent`). While an output is held, the next renewal is one
  interval at most after the last, and a lease that has run out has done so
  because this renewal is late by two intervals (`HoldKept`): with a life of less
  than three of the shortest intervals that is false, so the property says so.

They assume `Constants` of their modules (`ComponentConstants`), which says
little more than that bounds are numbers, that sets that are counted are finite
and that `None` is none of the other values; `Modbus` asks besides that stations
are numbered from 1 and the simulated controller is not behind the gateway,
`RecipePlan` that limits are bounds, and that writing out repetitions yields a
sequence of steps, which the recursion of `FlattenSeq` keeps from being proved.
`Components` assumes them, so its run evaluates them.

Model-checked only:

* all liveness, which is out of the prover's reach;
* the violated properties of section 4, which are false.

## 6. Plan

Done: the authority, the safety manager, the dispatcher, the recipe runner, the
bench driver, one RPC connection, and the eleven components of `Components`,
with the proofs above.

Left, most useful first:

1. Liveness of the panel and of a capture: that a stop asked for ends it.
2. `SessionStore` as the implementation of an abstract record: a prefix of what
   was published, and a word for what is missing.
3. GPIO, I2C and SPI ownership (`transports/`), which the drivers share with the
   serial port's pattern but not its readers.
4. The expression language of assertions and the unit arithmetic of limits as
   operators, against reference definitions; framing and checksums only if one
   of them comes to guard an output.
5. Several supplies in `BenchInstrument`, and its loads, whose inputs are
   outputs for the dispatcher.

The runs are kept to about a dozen, so that all of them are run on every change.

## 7. What is not modelled

Signal analysis (`analysis/*.py`): pure functions of bytes whose faults are wrong
values, which unit tests reach. Core actions (`daemon/core_actions.py`): thin
wrappers over components that are modelled. Configuration: read once at start,
its values are the CONSTANTS.

Screens and formatting (`ui/screens`, `cli/formatting.py`, `capture/report.py`),
installers and unit files, and the tables of instrument profiles and protocol
names: no state of their own beyond what a client keeps. PROJECT.json gives the
status of every component.
