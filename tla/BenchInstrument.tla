---------------------------- MODULE BenchInstrument ----------------------------
(***************************************************************************)
(* One multi-channel supply behind bench/visa.py: the handlers and the     *)
(* safe state of BenchInstrumentDriver as sequences of exchanges over one  *)
(* ScpiTransport (bench/scpi.py), whose lock serialises exchanges, and     *)
(* whose exchanges are blocking calls in worker threads.  A thread whose   *)
(* caller was timed out or cancelled is not stopped: it strays, and goes   *)
(* on without the lock.  The dispatcher contributes the device lock, which *)
(* reading actions do not take, the five seconds of a safe state, and the  *)
(* verdict on it.  The instrument obeys every command transmitted.         *)
(***************************************************************************)
EXTENDS Naturals, Sequences, SequencesExt, FiniteSets

CONSTANTS
    Slots,          \* handlers that can run at once
    Safe,           \* the safe state's task
    Idle,           \* no job
    Jobs,           \* what the handlers can be asked to do
    ChannelCount,   \* channels of the profile
    Selects,        \* the dialect selects a channel before it sets it
    Declared,       \* the operator pinned a profile
    MaxUnread,      \* bound: answers the instrument keeps for its reader
    MaxStray,       \* bound: stray threads alive; further ones die at once
    Faults          \* which of AllFaults happen

AllFaults == {"io", "stuck", "busy", "cancel", "cutoff", "restart"}
Channels == 1..ChannelCount
Kinds == {"identify", "set", "on", "off", "measure"}

ASSUME ChannelAssumption == ChannelCount \in Nat \ {0}
ASSUME BoundAssumption == MaxUnread \in Nat \ {0} /\ MaxStray \in Nat
ASSUME JobAssumption == Jobs \subseteq [kind : Kinds, ch : Channels]
ASSUME TaskAssumption == Safe \notin Slots /\ Idle \notin Jobs
ASSUME DialectAssumption == Selects \in BOOLEAN /\ Declared \in BOOLEAN /\ Faults \subseteq AllFaults

VARIABLES
    job,        \* job[t]: what the handler of slot t does
    step,       \* step[t]: its exchange; step[Safe]: the channel the safe
                \* state is at, 0 when it had no command to send
    line,       \* the transport's lock: its holder, then who waits for it
    sent,       \* the holder's command is on the wire
    stray,      \* what worker threads that nobody waits for still do
    bound,      \* a profile was bound by bench.identify
    selected,   \* the instrument: its selected channel, and who selected it
    out,        \* the instrument: channels switched on
    outbox,     \* the instrument: answers nobody has read yet, by task
    told,       \* the last safe state: none, pending, its verdict, or void
                \* once something was switched on after it began
    failed      \* channels whose command failed in the last safe state

benchVars == <<selected, out>>
vars == <<job, step, line, sent, stray, bound, benchVars, outbox, told, failed>>

Tasks == Slots \cup {Safe}
Selectors == {"nobody", "setter", "reader", "stray"}
Ops == {"select", "volt", "on", "off", "ask", "read"}
Command == [op : Ops, ch : Channels]

TypeOK ==
    /\ job \in [Slots -> Jobs \cup {Idle}]
    /\ step \in [Tasks -> 0..(ChannelCount + 4)]
    /\ line \in Seq(Tasks) /\ \A i, j \in DOMAIN line : line[i] = line[j] => i = j
    /\ sent \in BOOLEAN /\ (sent => line # <<>>)
    /\ stray \subseteq Command /\ Cardinality(stray) <= MaxStray
    /\ bound \in BOOLEAN
    /\ selected \in [ch : Channels, by : Selectors]
    /\ out \subseteq Channels
    /\ outbox \in Seq(Tasks \cup {"late"}) /\ Len(outbox) <= MaxUnread
    /\ told \in {"none", "pending", "safe", "unsafe", "void"}
    /\ failed \subseteq Channels

ChangesState(j) == j.kind \in {"set", "on", "off"}
Busy == {t \in Slots : job[t] # Idle}
SafeRuns == step[Safe] \in Channels

(* The exchanges of each action; error queue and readbacks are one query.  *)
Exchanges(j) ==
    LET select == IF Selects /\ j.kind # "identify" THEN <<"select">> ELSE <<>>
        act == CASE j.kind = "set" -> <<"volt">>
                 [] j.kind \in {"on", "off"} -> <<j.kind>>
                 [] OTHER -> <<>>
    IN  select \o act \o <<"ask">>

(* The command of the exchange a task is at.                               *)
CommandOf(t) ==
    IF t = Safe THEN [op |-> "off", ch |-> step[Safe]]
    ELSE [op |-> Exchanges(job[t])[step[t]], ch |-> job[t].ch]

(* Mutant: nobody waits for the transport's lock.                          *)
HoldsAnyhow(t) == Contains(line, t)

Holds(t) == line # <<>> /\ Head(line) = t

Init ==
    /\ job = [t \in Slots |-> Idle]
    /\ step = [t \in Tasks |-> 0]
    /\ line = <<>> /\ sent = FALSE /\ stray = {} /\ bound = FALSE
    /\ selected = [ch |-> 1, by |-> "nobody"]
    /\ out = {} /\ outbox = <<>> /\ told = "none" /\ failed = {}

--------------------------------------------------------------------------------
(* What the instrument does with a command.                                *)
Obey(c, by) ==
    /\ selected' = IF c.op = "select" THEN [ch |-> c.ch, by |-> by] ELSE selected
    /\ out' = IF c.op = "on" THEN out \cup {c.ch}
              ELSE IF c.op = "off" THEN out \ {c.ch} ELSE out
    /\ told' = IF c.op = "on" /\ told \in {"pending", "safe"} THEN "void" ELSE told

Keep(answer) == outbox' = IF Len(outbox) < MaxUnread THEN Append(outbox, answer) ELSE outbox

(* Mutant: the device lock is forgotten.                                   *)
DeviceUnlocked(j) == j \in Jobs

(* The device lock: one state-changing action at a time.                   *)
DeviceFree(j) == ChangesState(j) => \A t \in Busy : ~ChangesState(job[t])

(* A handler starts and asks for the transport: its parameters name a      *)
(* channel, and every action but bench.identify needs the bound profile.   *)
Begin(t, j) ==
    /\ job[t] = Idle
    /\ bound \/ j.kind = "identify"
    /\ DeviceFree(j)
    /\ job' = [job EXCEPT ![t] = j]
    /\ step' = [step EXCEPT ![t] = 1]
    /\ line' = Append(line, t)
    /\ UNCHANGED <<sent, stray, bound, benchVars, outbox, told, failed>>

(* The thread of the holder puts the command on the wire.                  *)
Transmit(t) ==
    /\ Holds(t) /\ ~sent
    /\ sent' = TRUE
    /\ Obey(CommandOf(t), IF t # Safe /\ ChangesState(job[t]) THEN "setter" ELSE "reader")
    /\ IF CommandOf(t).op = "ask" THEN Keep(t) ELSE UNCHANGED outbox
    /\ UNCHANGED <<job, step, line, stray, bound, failed>>

Leave(t) ==
    /\ job' = [job EXCEPT ![t] = Idle]
    /\ step' = [step EXCEPT ![t] = 0]

(* A handler goes on to its next exchange, or ends.                        *)
Advance(t) ==
    \/ /\ step[t] < Len(Exchanges(job[t]))
       /\ step' = [step EXCEPT ![t] = @ + 1]
       /\ line' = Append(Tail(line), t)
       /\ UNCHANGED <<job, bound>>
    \/ /\ step[t] = Len(Exchanges(job[t]))
       /\ Leave(t)
       /\ line' = Tail(line)
       /\ bound' = (bound \/ job[t].kind = "identify")

(* Mutant: only the first channel is switched off.                         *)
AdvanceSafeOnce ==
    /\ step' = [step EXCEPT ![Safe] = ChannelCount + 1]
    /\ line' = RemoveFirst(line, Safe)

(* Mutant: the safe state does not release the lock between its commands.  *)
AdvanceSafeHeld ==
    /\ step' = [step EXCEPT ![Safe] = @ + 1]
    /\ line' = IF step[Safe] < ChannelCount THEN Append(line, Safe) ELSE RemoveFirst(line, Safe)

(* The safe state goes on to its next channel.                             *)
AdvanceSafe ==
    /\ step' = [step EXCEPT ![Safe] = @ + 1]
    /\ line' = IF step[Safe] < ChannelCount THEN Append(RemoveFirst(line, Safe), Safe)
               ELSE RemoveFirst(line, Safe)

(* The answers of a task that does not wait any more are late.             *)
Late(t, answers) == [i \in DOMAIN answers |-> IF answers[i] = t THEN "late" ELSE answers[i]]

(* The exchange succeeds; a query takes the oldest answer there is, which  *)
(* may not be its own.                                                     *)
Succeed(t) ==
    /\ Holds(t) /\ sent
    /\ sent' = FALSE
    /\ IF CommandOf(t).op = "ask"
       THEN outbox # <<>> /\ outbox' = Late(t, Tail(outbox))
       ELSE UNCHANGED outbox
    /\ \/ t = Safe /\ AdvanceSafe /\ UNCHANGED <<job, bound>>
       \/ t # Safe /\ Advance(t)
    /\ UNCHANGED <<stray, benchVars, told, failed>>

(* A failed exchange ends a handler; the safe state notes it and goes on.  *)
AfterFailure(t) ==
    \/ /\ t = Safe /\ AdvanceSafe
       /\ failed' = failed \cup {step[Safe]}
       /\ UNCHANGED job
    \/ /\ t # Safe /\ Leave(t)
       /\ line' = RemoveFirst(line, t)
       /\ UNCHANGED failed

(* A task that stops waiting: the answer it asked for stays behind, and so *)
(* does its thread, with what it has not done yet.                         *)
Abandon(t) == outbox' = Late(t, outbox)

Strays(t) ==
    LET command == CommandOf(t)
        rest == IF ~Holds(t) THEN {}
                ELSE IF ~sent THEN {command}
                ELSE IF command.op = "ask" THEN {[command EXCEPT !.op = "read"]}
                ELSE {}
    IN  IF Cardinality(stray \cup rest) > MaxStray THEN stray ELSE stray \cup rest

(* The call returns an error, before or after the command went out.        *)
Fail(t) ==
    /\ "io" \in Faults /\ Holds(t)
    /\ sent' = FALSE
    /\ Abandon(t) /\ AfterFailure(t)
    /\ UNCHANGED <<stray, bound, benchVars, told>>

(* The call does not return in time: its caller raises and the lock is     *)
(* released, its thread goes on.                                           *)
GiveUp(t) ==
    /\ "stuck" \in Faults /\ Holds(t)
    /\ sent' = FALSE
    /\ stray' = Strays(t)
    /\ Abandon(t) /\ AfterFailure(t)
    /\ UNCHANGED <<bound, benchVars, told>>

(* Only a safe state waits for the lock with a deadline.                   *)
LockTimesOut ==
    /\ "busy" \in Faults /\ SafeRuns /\ ~Holds(Safe)
    /\ AfterFailure(Safe)
    /\ UNCHANGED <<sent, stray, bound, benchVars, outbox, told>>

(* The dispatcher times a handler out, or its client goes.                 *)
Cancel(t) ==
    /\ "cancel" \in Faults /\ t \in Busy
    /\ stray' = Strays(t)
    /\ sent' = (sent /\ ~Holds(t))
    /\ line' = RemoveFirst(line, t)
    /\ Abandon(t) /\ Leave(t)
    /\ UNCHANGED <<bound, benchVars, told, failed>>

(* A stray thread does the next thing it has left to do, or dies.          *)
StrayActs ==
    \E c \in stray :
        /\ \/ /\ c.op \notin {"ask", "read"} /\ Obey(c, "stray")
              /\ stray' = stray \ {c}
              /\ UNCHANGED outbox
           \/ /\ c.op = "ask" /\ Keep("late")
              /\ stray' = (stray \ {c}) \cup {[c EXCEPT !.op = "read"]}
              /\ UNCHANGED <<benchVars, told>>
           \/ /\ c.op = "read" /\ outbox # <<>> /\ outbox' = Tail(outbox)
              /\ stray' = stray \ {c}
              /\ UNCHANGED <<benchVars, told>>
           \/ stray' = stray \ {c} /\ UNCHANGED <<benchVars, outbox, told>>
        /\ UNCHANGED <<job, step, line, sent, bound, failed>>

--------------------------------------------------------------------------------
(* safe_state(): without a profile it has no command to send and says so;  *)
(* the answer carries no error, and the dispatcher finds the device safe.  *)
SafeBegins ==
    /\ ~SafeRuns /\ told # "pending"
    /\ failed' = {}
    /\ \/ /\ bound \/ Declared
          /\ step' = [step EXCEPT ![Safe] = 1]
          /\ line' = Append(line, Safe)
          /\ told' = "pending"
       \/ /\ ~(bound \/ Declared)
          /\ step' = [step EXCEPT ![Safe] = 0]
          /\ told' = "safe"
          /\ UNCHANGED line
    /\ UNCHANGED <<job, sent, stray, bound, benchVars, outbox>>

(* Its result lists failures under "errors"; the dispatcher looks for      *)
(* "error", which is not there.                                            *)
SafeEnds ==
    /\ step[Safe] = ChannelCount + 1 /\ told = "pending"
    /\ told' = "safe"
    /\ UNCHANGED <<job, step, line, sent, stray, bound, benchVars, outbox, failed>>

(* The five seconds of the dispatcher are over.                            *)
SafeCutOff ==
    /\ "cutoff" \in Faults /\ SafeRuns
    /\ stray' = Strays(Safe)
    /\ sent' = (sent /\ ~Holds(Safe))
    /\ line' = RemoveFirst(line, Safe)
    /\ step' = [step EXCEPT ![Safe] = 0]
    /\ told' = "unsafe"
    /\ UNCHANGED <<job, bound, benchVars, outbox, failed>>

(* The daemon dies and starts again: the outputs stay as they are, the     *)
(* profile is forgotten, the session is reopened.                          *)
Restart ==
    /\ "restart" \in Faults
    /\ job' = [t \in Slots |-> Idle]
    /\ step' = [t \in Tasks |-> 0]
    /\ line' = <<>> /\ sent' = FALSE /\ stray' = {} /\ bound' = FALSE
    /\ outbox' = <<>> /\ told' = "none" /\ failed' = {}
    /\ UNCHANGED benchVars

Exchange(t) == Transmit(t) \/ Succeed(t) \/ Fail(t) \/ GiveUp(t)

Next ==
    \/ \E t \in Slots, j \in Jobs : Begin(t, j)
    \/ \E t \in Tasks : Exchange(t)
    \/ \E t \in Slots : Cancel(t)
    \/ LockTimesOut \/ StrayActs
    \/ SafeBegins \/ SafeEnds \/ SafeCutOff \/ Restart

Spec == Init /\ [][Next]_vars

--------------------------------------------------------------------------------
(* Every output is addressed: a channel still on after a safe state that   *)
(* had commands to send is one whose own command failed, unless something  *)
(* was switched on after it began.                                         *)
LeftOnOnlyByFailure == told = "safe" /\ step[Safe] > 0 => out \subseteq failed

(* At the setpoint of a psu.set, the channel its own exchange selected is  *)
(* selected still, unless a reading action, which has no device lock, or a *)
(* stray thread came between.                                              *)
AtSetpoint(t) == Selects /\ Holds(t) /\ ~sent /\ CommandOf(t).op = "volt"

SettersKeepApart ==
    \A t \in Busy : AtSetpoint(t) => selected.ch = job[t].ch \/ selected.by \in {"reader", "stray"}

(* The answer waiting for a query is its own and the only one, unless a    *)
(* query that was given up left an answer behind.                          *)
AnswersKeepApart ==
    ~Contains(outbox, "late") => outbox = <<>> \/ (sent /\ outbox = <<Head(line)>>)

(* visa.py, _select_channel: a setpoint must not land "on the channel      *)
(* someone else selected".                                                 *)
SetpointLands == \A t \in Busy : AtSetpoint(t) => selected.ch = job[t].ch

(* dispatcher.py, apply_safe_state: "the timeline must not claim a device  *)
(* was made safe when it was not": no output Field-deck switched on before *)
(* the safe state began is on under the verdict safe.                      *)
SafeReportIsTrue == told = "safe" => out = {}
================================================================================
