------------------------------- MODULE Fdctl -------------------------------
(***************************************************************************)
(* One invocation of the command line (cli/fdctl.py): what it asks the     *)
(* operator and the daemon, what it prints and the exit code a script      *)
(* branches on.  The daemon is what the command sees of it: answers, a     *)
(* lease it takes back, a connection it notices the end of.                *)
(*                                                                         *)
(* A command is a script of steps: "ask" for a typed word, "do" an         *)
(* operation of the daemon, "hold" an output, "hang up".                   *)
(***************************************************************************)
EXTENDS Integers, Sequences, FiniteSets

CONSTANTS
    ClassLists, \* the lists of classes given to arm
    Ttls,       \* values of --ttl
    HoldFor,    \* the value of --hold
    Floor,      \* the shortest renewal interval, half a second
    MaxLate,    \* how late the process may run
    MaxTime,
    None

VARIABLES
    inv,         \* the invocation: the command and its options
    todo,        \* the steps that are left
    conn,        \* its connection: "none", "open", or "lost" until the daemon notices
    typed,       \* the words the operator typed
    did,         \* the operations asked for, as carried out and as told
    docs,        \* documents printed on stdout
    exit,
    recipe,      \* the class the recipe file reaches now
    planShown,   \* the class of the plan that was shown
    leasedTill,  \* the deadline of the output lease; the rail is up while there is one
    now, wake, lag, holdEnd

vars == <<inv, todo, conn, typed, did, docs, exit, recipe, planShown, leasedTill, now, wake, lag, holdEnd>>
clock == <<now, wake, lag, holdEnd>>

-----------------------------------------------------------------------------
(* Commands that run one action and print its answer.                      *)

System == {"system.discover", "device.list", "device.status", "action.list", "system.limits"}
Sessions == {"session.start", "session.stop", "session.list", "session.get", "session.mark",
             "session.note", "session.events", "session.window", "session.summary",
             "session.report"}
Can == {"can.status", "can.listen", "can.capture", "can.stats", "can.send", "can.decode"}
Serial == {"serial.status", "serial.monitor", "serial.capture", "serial.send",
           "serial.configure"}
Modbus == {"modbus.read_holding", "modbus.write_register", "modbus.scan"}
Bench == {"bench.identify", "bench.status", "scpi.query", "psu.status", "psu.measure", "psu.set"}
Recipes == {"recipe.list", "recipe.validate", "recipe.dry_run", "recipe.cancel"}
Debug == {"logic.status", "logic.capture", "logic.decode", "debug.probes", "debug.tools",
          "debug.target_info", "debug.reset", "firmware.inspect"}
Flash == {"flash.plan", "flash.verify"}
OneAction == System \cup Sessions \cup Can \cup Serial \cup Modbus \cup Bench \cup Recipes
             \cup Debug \cup Flash

\* The commands that check their options before anything is sent, and the
\* actions whose commands say how long they will wait.
Checked == {"session.window", "can.send", "can.decode", "serial.send",
            "modbus.write_register", "psu.set", "recipe.validate", "recipe.dry_run",
            "arm", "psu output on", "psu output off", "tools", "recipe run"}
Patient == {"can.listen", "can.capture", "can.stats", "can.decode", "serial.monitor",
            "serial.capture", "modbus.scan", "recipe.list", "recipe.validate",
            "recipe.dry_run", "recipe.run"}
\* The actions that may take longer than the 30 s an unspecified wait lasts.
Slow == {"can.listen", "can.capture", "serial.monitor", "serial.capture", "modbus.scan",
         "logic.capture", "flash.verify", "flash.program", "flash.erase", "recipe.run"}

Irreversible == {"FLASH", "DESTRUCTIVE"}
Ask(word) == [k |-> "ask", op |-> None, class |-> word]
Do(op, class) == [k |-> "do", op |-> op, class |-> class]
HangUp == [k |-> "hang up", op |-> None, class |-> None]
Hold == [k |-> "hold", op |-> None, class |-> None]

\* arm: one request per class over one connection, after a word for the first of
\* the irreversible ones.
ArmScript(classes) ==
    LET grave == {m \in DOMAIN classes : classes[m] \in Irreversible} IN
    (IF grave = {} THEN <<>>
     ELSE <<Ask(classes[CHOOSE m \in grave : \A l \in grave : m <= l])>>)
        \o [n \in DOMAIN classes |-> Do("safety.arm", classes[n])] \o <<HangUp>>

\* status asks twice over one connection.
Overview == <<Do("system.status", None), Do("device.list", None), HangUp>>

Script(i) ==
    CASE i.cmd \in OneAction -> <<Do(i.cmd, None), HangUp>>
      [] i.cmd = "status" -> Overview
      [] i.cmd = "arm" ->
            (IF i.source = "device" THEN <<Do("device.status", None), HangUp>> ELSE <<>>)
            \o ArmScript(i.classes)
      [] i.cmd = "disarm" -> <<Do("safety.disarm", None), HangUp>>
      [] i.cmd = "estop" -> <<Do("safety.estop", None), HangUp>>
      [] i.cmd = "estop clear" -> <<Ask("CLEAR"), Do("safety.estop_clear", None), HangUp>>
      [] i.cmd = "call" -> <<Do("action.list", None), HangUp>>
      [] i.cmd = "psu output on" -> <<Do("psu.output", None), Hold, HangUp>>
      [] i.cmd = "psu output off" -> <<Do("psu.output", None), HangUp>>
      [] i.cmd = "flash program" -> <<Ask("FLASH"), Do("flash.program", "FLASH"), HangUp>>
      [] i.cmd = "flash erase" -> <<Ask("ERASE"), Do("flash.erase", "DESTRUCTIVE"), HangUp>>
      [] i.cmd = "recipe run" -> <<Do("recipe.validate", None), HangUp>>
      [] i.cmd = "tools" -> IF i.source = "file" THEN <<>> ELSE <<Do("tools", None), HangUp>>
      [] i.cmd = "events" -> <<Do("events.subscribe", None)>>
      [] i.cmd = "watch" -> <<Do("system.status", None)>>

Given(cmds, operator, classes, confirm, source, ttl, hold) ==
    [cmd : cmds, json : BOOLEAN, yes : operator, tty : operator, classes : classes,
     confirm : confirm, source : source, ttl : ttl, hold : hold]
\* The options that matter to each command.
Invocations ==
    LET no == {FALSE}
        nothing == {None} IN
    Given(OneAction \cup {"status", "disarm", "estop", "psu output off", "events", "watch"},
          no, {<<>>}, nothing, nothing, {0}, no)
    \cup Given({"estop clear", "call", "flash program", "recipe run"},
               BOOLEAN, {<<>>}, nothing, nothing, {0}, no)
    \cup Given({"arm"}, BOOLEAN, ClassLists, nothing, {None, "device"}, {0}, no)
    \cup Given({"flash erase"}, BOOLEAN, {<<>>}, {None, "target", "other"}, nothing, {0}, no)
    \cup Given({"tools"}, no, {<<>>}, nothing, {"inline", "path", "file"}, {0}, no)
    \cup Given({"psu output on"}, no, {<<>>}, nothing, nothing, Ttls, BOOLEAN)

Constants ==
    /\ \A list \in ClassLists : list \in Seq({"QUERY", "CONTROL", "POWER", "FLASH", "DESTRUCTIVE"})
    /\ Ttls \subseteq Nat \ {0} /\ HoldFor \in Nat /\ Floor \in Nat \ {0}
    /\ MaxLate \in Nat /\ MaxTime \in Nat
    /\ None \notin Int /\ None \notin {"FLASH", "DESTRUCTIVE", "recipe.validate", "recipe.run", "y"}
    /\ None \notin Invocations

\* Ends with no code of fdctl's own.
Aborted == 0 - 1
Died == 0 - 2
Errors == {"PERMISSION_DENIED", "ESTOP_ACTIVE", "DEVICE_BUSY", "ACTION_TIMEOUT", "INTERNAL_ERROR"}
Lost == "TRANSPORT_ERROR"
ExitCode(code) ==
    CASE code = "usage" -> 2 [] code = "PERMISSION_DENIED" -> 3 [] code = "ESTOP_ACTIVE" -> 5
      [] code = "DEVICE_BUSY" -> 7 [] code = "ACTION_TIMEOUT" -> 8 [] code = Lost -> 9
      [] code = "assertion_failed" -> 11 [] OTHER -> 1

-----------------------------------------------------------------------------
TypeOK ==
    /\ inv \in Invocations \cup {None}
    /\ \A n \in DOMAIN todo : todo[n].k \in {"ask", "do", "hold", "hang up"}
    /\ conn \in {"none", "open", "lost"}
    /\ typed \subseteq {"CLEAR", "FLASH", "ERASE", "DESTRUCTIVE"}
    /\ docs \in 0 .. 3 /\ exit \in (Died .. 11) \cup {None}
    /\ {recipe, planShown} \subseteq {"PASSIVE", "FLASH", None}
    /\ leasedTill # None => leasedTill \in 1 .. now + inv.ttl
    /\ now \in 0 .. MaxTime /\ lag \in 0 .. MaxLate

Init ==
    /\ inv = None /\ todo = <<>> /\ conn = "none" /\ typed = {} /\ did = {} /\ docs = 0
    /\ exit = None /\ recipe = "PASSIVE" /\ planShown = None /\ leasedTill = None
    /\ now = 0 /\ wake = None /\ lag = 0 /\ holdEnd = 0

Running == inv # None /\ exit = None
At(k) == Running /\ todo # <<>> /\ Head(todo).k = k
Closed == IF conn = "open" THEN "lost" ELSE conn
Printed == docs' = IF inv.json THEN docs + 1 ELSE docs

(* Mutant: every failure ends with the same code.                          *)
FailsAlike(code) ==
    /\ exit' = 1 /\ todo' = <<>> /\ conn' = Closed /\ Printed

\* _die: the error is the answer.
Fails(code) ==
    /\ exit' = ExitCode(code) /\ todo' = <<>> /\ conn' = Closed /\ Printed

Invoke(i) ==
    /\ inv = None /\ inv' = i /\ todo' = Script(i)
    /\ UNCHANGED <<conn, typed, did, docs, exit, recipe, planShown, leasedTill>> /\ UNCHANGED clock

UsageError ==
    /\ Running /\ inv.cmd \in Checked /\ todo = Script(inv) /\ did = {} /\ conn = "none"
    /\ Fails("usage")
    /\ UNCHANGED <<inv, typed, did, recipe, planShown, leasedTill>> /\ UNCHANGED clock

(* Mutant: the word is read from a pipe as well as from a terminal.        *)
ConfirmPiped(answer) ==
    /\ At("ask")
    /\ LET right == answer = Head(todo).class IN
       IF inv.yes \/ right THEN todo' = Tail(todo) /\ UNCHANGED <<conn, docs, exit>>
       ELSE Fails("usage")
    /\ UNCHANGED <<inv, typed, did, recipe, planShown, leasedTill>> /\ UNCHANGED clock

\* _require_confirmation: --yes, or the exact word typed at a terminal.
Confirm(answer) ==
    /\ At("ask")
    /\ LET word == Head(todo).class
           right == inv.tty /\ answer = word IN
       /\ typed' = IF ~inv.yes /\ right THEN typed \cup {word} ELSE typed
       /\ IF inv.yes \/ right THEN todo' = Tail(todo) /\ UNCHANGED <<conn, docs, exit>>
          ELSE Fails("usage")
    /\ UNCHANGED <<inv, did, recipe, planShown, leasedTill>> /\ UNCHANGED clock

\* _analysis: computed here when the daemon cannot be reached and the bytes are here.
Local == inv.cmd = "tools" /\ inv.source = "inline"

Connect(reached) ==
    /\ At("do") /\ conn = "none"
    /\ IF reached THEN conn' = "open" /\ UNCHANGED <<todo, docs, exit>>
       ELSE IF Local THEN todo' = <<>> /\ UNCHANGED <<conn, docs, exit>>
       ELSE Fails(Lost)
    /\ UNCHANGED <<inv, typed, did, recipe, planShown, leasedTill>> /\ UNCHANGED clock

\* flash_erase: the value of --confirm, or else the target, is what is sent.
SentConfirm == IF inv.confirm # None THEN inv.confirm ELSE "target"

\* watch asks again until it is interrupted.
Polls == inv.cmd = "watch"

\* What follows an answer: the confirmation of what the plan or the descriptor says.
Follows(op, class) ==
    IF inv.cmd = "call" /\ op = "action.list"
    THEN <<HangUp>> \o (IF class \in Irreversible THEN <<Ask(class)>> ELSE <<>>)
         \o <<Do("called", class), HangUp>>
    ELSE IF Polls THEN todo
    ELSE IF inv.cmd = "recipe run" /\ op = "recipe.validate"
    THEN <<HangUp>> \o (IF class \in Irreversible THEN <<Ask(class)>> ELSE <<>>)
         \o <<Do("recipe.run", class), HangUp>>
    ELSE Tail(todo)

Asked(op, class, result, told) ==
    did' = did \cup {[op |-> op, class |-> class, result |-> result, told |-> told]}

\* The class an operation has when the daemon runs it.
ClassOf(step) == IF step.op \in {"recipe.run", "recipe.validate"} THEN recipe ELSE step.class

\* The daemon runs the operation and answers; "failed" is a recipe that failed.
\* An action that outlasts the wait is not answered.
Answer(class, outcome) ==
    /\ At("do") /\ conn = "open"
    /\ LET step == Head(todo) IN
       /\ class = (IF inv.cmd = "call" /\ step.op = "action.list" THEN class ELSE ClassOf(step))
       /\ outcome = "failed" => step.op = "recipe.run"
       /\ step.op = "flash.erase" /\ SentConfirm # "target" => outcome = "INTERNAL_ERROR"
       /\ Asked(step.op, class, outcome, outcome)
       /\ IF outcome \in Errors THEN Fails(outcome) /\ UNCHANGED <<planShown, leasedTill, holdEnd>>
          ELSE /\ todo' = Follows(step.op, class)
               /\ planShown' = IF step.op = "recipe.validate" THEN class ELSE planShown
               /\ IF inv.cmd = "psu output on"
                  THEN leasedTill' = now + inv.ttl /\ holdEnd' = now + HoldFor
                  ELSE UNCHANGED <<leasedTill, holdEnd>>
               /\ IF Polls /\ docs < 2 THEN Printed ELSE UNCHANGED docs
               /\ UNCHANGED <<conn, exit>>
    /\ UNCHANGED <<inv, typed, recipe, now, wake, lag>>

\* The connection breaks, or the wait of a slow action ends, before the answer.
NoAnswer(ran) ==
    /\ At("do") /\ conn = "open"
    /\ LET step == Head(todo) IN
       /\ Asked(step.op, ClassOf(step), IF ran THEN "ok" ELSE "dropped", Lost)
       /\ IF Local THEN todo' = <<>> /\ conn' = "lost" /\ UNCHANGED <<docs, exit>>
          ELSE Fails(Lost)
       /\ leasedTill' = IF inv.cmd = "psu output on" /\ ran THEN now + inv.ttl ELSE leasedTill
    /\ UNCHANGED <<inv, typed, recipe, planShown>> /\ UNCHANGED clock
GiveUp ==
    /\ At("do") /\ conn = "open" /\ Head(todo).op \in Slow \ Patient
    /\ Asked(Head(todo).op, Head(todo).class, "abandoned", Lost) /\ Fails(Lost)
    /\ UNCHANGED <<inv, typed, recipe, planShown, leasedTill>> /\ UNCHANGED clock

Hangs ==
    /\ At("hang up") /\ conn' = Closed /\ conn # "lost" /\ todo' = Tail(todo)
    /\ UNCHANGED <<inv, typed, did, docs, exit, recipe, planShown, leasedTill>> /\ UNCHANGED clock

\* The exit code of a recipe run: two keys of the answer are looked at, the record
\* of a run has neither.
RunRecord(outcome) == [state |-> outcome, assertions_failed |-> IF outcome = "failed" THEN 1 ELSE 0]
SaysFailed(payload) ==
    \/ "failed_assertions" \in DOMAIN payload
    \/ "outcome" \in DOMAIN payload

\* The end of a command: one document or one view of the answer.
Finish ==
    /\ Running /\ todo = <<>> /\ inv.cmd # "events" /\ conn # "open" /\ Printed
    /\ exit' = IF \E d \in did : d.op = "recipe.run" /\ SaysFailed(RunRecord(d.result))
               THEN ExitCode("assertion_failed") ELSE 0
    /\ UNCHANGED <<inv, todo, conn, typed, did, recipe, planShown, leasedTill>> /\ UNCHANGED clock
\* A local computation may not like its input.
LocalFails ==
    /\ Running /\ todo = <<>> /\ inv.cmd = "tools" /\ Fails("INTERNAL_ERROR")
    /\ UNCHANGED <<inv, typed, did, recipe, planShown, leasedTill>> /\ UNCHANGED clock

-----------------------------------------------------------------------------
(* --hold.                                                                 *)

Lower(a, b) == IF a < b THEN a ELSE b
(* Mutant: the lease is renewed when it is about to end.                   *)
IntervalWhole == inv.ttl

Interval == IF inv.ttl \div 3 > Floor THEN inv.ttl \div 3 ELSE Floor
Sleeps == wake' = now + Lower(Interval, holdEnd - now)

\* Without --hold the command ends at once; with it, the first interval is slept.
BeginHold ==
    /\ At("hold") /\ wake = None
    /\ IF inv.hold THEN Sleeps /\ UNCHANGED todo ELSE todo' = Tail(todo) /\ UNCHANGED wake
    /\ UNCHANGED <<inv, conn, typed, did, docs, exit, recipe, planShown, leasedTill, now, lag, holdEnd>>

\* Release, whose failure is not told.
LetGo == leasedTill' = None /\ todo' = Tail(todo)

\* The sleep is over: the hold is, or the lease is renewed, which fails when the
\* daemon has taken it back.
WakeUp ==
    /\ At("hold") /\ wake # None /\ now >= wake
    /\ IF now >= holdEnd THEN LetGo /\ UNCHANGED <<conn, docs, exit, wake>>
       ELSE IF leasedTill = None THEN Fails("INTERNAL_ERROR") /\ UNCHANGED <<leasedTill, wake>>
       ELSE leasedTill' = now + inv.ttl /\ Sleeps /\ UNCHANGED <<todo, conn, docs, exit>>
    /\ UNCHANGED <<inv, typed, did, recipe, planShown, now, lag, holdEnd>>
\* The connection is found broken at the next renewal.
HoldBroken ==
    /\ At("hold") /\ wake # None /\ now >= wake /\ now < holdEnd /\ Fails(Lost)
    /\ UNCHANGED <<inv, typed, did, recipe, planShown, leasedTill>> /\ UNCHANGED clock

-----------------------------------------------------------------------------
(* The operator, the process and the daemon.                               *)

\* Ctrl-C releases a hold and ends a stream; elsewhere the command is aborted.
Interrupt ==
    /\ Running
    /\ IF At("hold") /\ wake # None
       THEN LetGo /\ UNCHANGED <<conn, exit>>
       ELSE /\ exit' = (IF inv.cmd \in {"events", "watch"} THEN 0 ELSE Aborted)
            /\ todo' = <<>> /\ conn' = Closed /\ UNCHANGED leasedTill
    /\ UNCHANGED <<inv, typed, did, docs, recipe, planShown>> /\ UNCHANGED clock
Killed ==
    /\ Running /\ exit' = Died /\ todo' = <<>> /\ conn' = Closed
    /\ UNCHANGED <<inv, typed, did, docs, recipe, planShown, leasedTill>> /\ UNCHANGED clock

\* --follow prints the events there are, and waits; for a daemon that is gone, too.
Event ==
    /\ Running /\ inv.cmd = "events" /\ todo = <<>> /\ conn = "open" /\ docs < 2 /\ Printed
    /\ UNCHANGED <<inv, todo, conn, typed, did, exit, recipe, planShown, leasedTill>> /\ UNCHANGED clock

\* Somebody saves the recipe file.
Edit(class) ==
    /\ Running /\ inv.cmd = "recipe run" /\ class # recipe /\ recipe' = class
    /\ UNCHANGED <<inv, todo, conn, typed, did, docs, exit, planShown, leasedTill>> /\ UNCHANGED clock

\* The daemon sees the connection close and the deadline of a lease pass.
Notice ==
    /\ conn = "lost" /\ conn' = "none" /\ leasedTill' = None
    /\ UNCHANGED <<inv, todo, typed, did, docs, exit, recipe, planShown>> /\ UNCHANGED clock
Sweep ==
    /\ leasedTill # None /\ now >= leasedTill /\ leasedTill' = None
    /\ UNCHANGED <<inv, todo, conn, typed, did, docs, exit, recipe, planShown>> /\ UNCHANGED clock

Tick ==
    /\ At("hold") /\ wake # None /\ now < MaxTime /\ now < wake + MaxLate
    /\ leasedTill # None => now < leasedTill
    /\ now' = now + 1
    /\ lag' = IF now + 1 - wake > lag THEN now + 1 - wake ELSE lag
    /\ UNCHANGED <<inv, todo, conn, typed, did, docs, exit, recipe, planShown, leasedTill, wake, holdEnd>>

Next ==
    \/ \E i \in Invocations : Invoke(i)
    \/ UsageError
    \/ \E answer \in {"CLEAR", "FLASH", "ERASE", "DESTRUCTIVE", "y"} : Confirm(answer)
    \/ \E reached \in BOOLEAN : Connect(reached)
    \/ \E class \in {"PASSIVE", "QUERY", "CONTROL", "POWER", "FLASH", "DESTRUCTIVE", None},
          outcome \in Errors \cup {"ok", "failed"} : Answer(class, outcome)
    \/ \E ran \in BOOLEAN : NoAnswer(ran)
    \/ GiveUp \/ Hangs \/ Finish \/ LocalFails
    \/ BeginHold \/ WakeUp \/ HoldBroken
    \/ Interrupt \/ Killed \/ Event
    \/ \E class \in {"PASSIVE", "FLASH"} : Edit(class)
    \/ Notice \/ Sweep \/ Tick

Spec == Init /\ [][Next]_vars

-----------------------------------------------------------------------------
Streams == {"events", "watch"}
Ended == exit \in 0 .. 11

(* "--json puts one JSON document on stdout and nothing else"              *)
(* (fdctl.py:10), whatever went wrong, and the exit code is the daemon's   *)
(* word (fdctl.py:12): 0 says that everything asked for was done, a code   *)
(* of a refusal that the last thing asked for was not.                     *)
ScriptsCanRely ==
    Ended =>
        /\ inv.cmd \notin Streams => docs = (IF inv.json THEN 1 ELSE 0)
        /\ exit = 0 /\ ~Local => \A d \in did : d.told = d.result /\ d.result \notin Errors
        /\ \A d \in did : d.result \in Errors => exit = ExitCode(d.result)
        /\ exit \in {3, 5, 7, 8} => \E d \in did : d.result \in Errors

(* What rewrites or destroys the target was confirmed by this operator, by *)
(* --yes or by a word typed at a terminal ("an unattended pipe must never  *)
(* be able to authorize a flash", fdctl.py:186), unless the recipe was     *)
(* edited after its plan was shown.                                        *)
ConfirmedFirst ==
    \A d \in did :
        (d.class \in Irreversible \/ d.op = "safety.estop_clear") 
            /\ d.op \notin {"recipe.validate", "action.list"} =>
            \/ inv.yes
            \/ inv.tty /\ typed # {}
            \/ d.op = "recipe.run" /\ planShown # d.class

(* A rail is up only while a lease and the connection that took it last,   *)
(* or until the daemon notices their end; and a held one stays up unless   *)
(* the process is late by two of the three intervals ("three keeps a rail  *)
(* up across a scheduling hiccup", fdctl.py:65).                           *)
HoldIsADeadMan ==
    /\ leasedTill # None => conn \in {"open", "lost"}
    /\ exit # None /\ conn = "none" => leasedTill = None
    /\ At("hold") /\ wake # None /\ inv.ttl >= 3 * Floor
           /\ lag < inv.ttl - inv.ttl \div 3 => leasedTill # None

(* "Exit codes used by fdctl so scripts can branch deterministically"      *)
(* (errors.py:205), with one for a failed assertion.                       *)
FailureIsReported ==
    exit = 0 => \A d \in did : d.result # "failed"

(* "Requires DESTRUCTIVE and --confirm" (fdctl.py:2498).                    *)
ErasedTwiceConfirmed ==
    \A d \in did : d.op = "flash.erase" /\ d.result = "ok" => inv.confirm = "target"

(* "Give the daemon room to enforce its own deadline first"                *)
(* (client.py:161): no action is abandoned by the command itself.          *)
DaemonGivesUpFirst ==
    \A d \in did : d.result # "abandoned"
=============================================================================
