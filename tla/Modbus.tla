------------------------------- MODULE Modbus -------------------------------
(***************************************************************************)
(* One Modbus master and the stations on its line (protocols/modbus.py),   *)
(* with the simulated controller of sim/modbus.py as the station that      *)
(* answers.  Reads, writes and address scans of several callers share one  *)
(* asyncio lock; a caller may be cancelled or time out at any point while  *)
(* its frame is still out on the line.                                     *)
(***************************************************************************)
EXTENDS Naturals, Sequences, FiniteSets, SequencesExt

CONSTANTS
    Callers,        \* the actions that use the driver: each runs once
    Addresses,      \* the stations a scan covers: 1 .. n
    Gatewayed,      \* absent stations a gateway answers for
    None

VARIABLES
    lock,       \* the caller that holds _bus_lock
    waiting,    \* callers waiting for it, in order
    deadline,   \* those whose wait is cut short before their action's deadline
    doing,      \* what each caller is doing
    wire,       \* frames out on the line, by caller
    table,      \* the writable holding registers of the controller
    told,       \* what each caller was told in the end
    effect      \* what the controller did with each caller's last request

vars == <<lock, waiting, deadline, doing, wire, table, told, effect>>

Station == 1            \* SIM_SLAVE_ID
Registers == 0 .. 2     \* 0 is read-only, 1 the mode, 2 the pump speed
ReadOnly == {0}
ModeMax == 1
Words == 0 .. 2
Frames ==
    {[slave |-> s, write |-> w, address |-> a, values |-> v] :
        s \in Addresses, w \in BOOLEAN, a \in Registers, v \in {<<1>>, <<2, 1>>}}
Requests == {f \in Frames : f.slave = Station /\ (f.write \/ f.address = 2)}
Classes == {"answered", "exception", "gateway", "silent", "error"}
Endings == {"ok", "exception", "timeout", "error", "busy", "lost", "cancelled", "scan"}
Stages == {"idle", "bus", "wait", "holds", "sent"}

\* What the proofs ask of the constants.
Constants ==
    /\ IsFiniteSet(Addresses) /\ Addresses = 1 .. Cardinality(Addresses) /\ Station \in Addresses
    /\ Station \notin Gatewayed
    /\ None \notin Callers /\ None \notin Frames
    /\ None \notin Classes /\ None \notin Endings
    /\ None \notin [req : Frames, reply : Classes \cup {None}, wanted : BOOLEAN]

Quiet == [stage |-> "idle", req |-> None, left |-> {}, seen |-> <<>>]

TypeOK ==
    /\ lock \in Callers \cup {None} /\ deadline \subseteq Callers
    /\ waiting \in Seq(Callers)
    /\ \A c \in Callers : /\ doing[c].stage \in Stages
                          /\ doing[c].req \in Frames \cup {None}
                          /\ doing[c].left \subseteq Addresses
                          /\ Len(doing[c].seen) <= Cardinality(Addresses)
    /\ DOMAIN wire = Callers /\ table \in [Registers \ ReadOnly -> Words]
    /\ told \in [Callers -> Endings \cup {None}]
    /\ effect \in [Callers -> {"nothing", "unchanged", "partly", "applied"}]

Init ==
    /\ lock = None /\ waiting = <<>> /\ deadline = {}
    /\ doing = [c \in Callers |-> Quiet]
    /\ wire = [c \in Callers |-> None]
    /\ table = [r \in Registers \ ReadOnly |-> 0]
    /\ told = [c \in Callers |-> None] /\ effect = [c \in Callers |-> "nothing"]

-----------------------------------------------------------------------------
(* The controller.                                                         *)

Span(req) == {req.address + i - 1 : i \in 1 .. Len(req.values)}
Word(req, r) == req.values[r - req.address + 1]

\* A write is refused as a whole: an address that does not exist or may not be
\* written, or a value its register does not take.
Refuses(req) ==
    IF req.write
    THEN \/ \E r \in Span(req) : r \notin Registers \/ r \in ReadOnly
         \/ 1 \in Span(req) /\ Word(req, 1) > ModeMax
    ELSE \E r \in Span(req) : r \notin Registers

(* Mutant: a write is applied word by word, up to the refusal of one.      *)
WrittenInPart(req, t) ==
    IF ~req.write THEN t
    ELSE [r \in DOMAIN t |->
             IF r \in Span(req) /\ (r = 1 => Word(req, r) <= ModeMax) THEN Word(req, r) ELSE t[r]]

Written(req, t) ==
    IF ~req.write \/ Refuses(req) THEN t
    ELSE [r \in DOMAIN t |-> IF r \in Span(req) THEN Word(req, r) ELSE t[r]]

\* What became of a request, by the registers themselves.
Effect(req, before, after) ==
    IF req.write /\ \A r \in Span(req) : r \in DOMAIN after /\ after[r] = Word(req, r)
    THEN "applied" ELSE IF after = before THEN "unchanged" ELSE "partly"

-----------------------------------------------------------------------------
(* The driver.                                                             *)

Free(c) == waiting' = RemoveFirst(waiting, c) /\ lock' = IF lock = c THEN None ELSE lock

Probe(left) ==
    [slave |-> CHOOSE s \in left : \A t \in left : s <= t, write |-> FALSE,
     address |-> 1, values |-> <<1>>]

\* A read, a write or a scan of every address is accepted by the dispatcher.
Begin(c, req, left) ==
    /\ doing[c].stage = "idle" /\ told[c] = None
    /\ doing' = [doing EXCEPT ![c] = [stage |-> "bus", req |-> req, left |-> left, seen |-> <<>>]]
    /\ UNCHANGED <<lock, waiting, deadline, wire, table, told, effect>>

BeginRead(c, req) == ~req.write /\ Begin(c, req, {})
BeginWrite(c, req) == req.write /\ Begin(c, req, {})
BeginScan(c) == Begin(c, Probe(Addresses), Addresses)

\* _bus: a lock that looks free is acquired without a deadline -- and an asyncio
\* lock with somebody already waiting makes the newcomer wait behind them.
Enter(c) ==
    /\ doing[c].stage = "bus"
    /\ IF lock = None /\ waiting = <<>>
       THEN /\ lock' = c /\ doing' = [doing EXCEPT ![c].stage = "holds"]
            /\ UNCHANGED <<waiting, deadline>>
       ELSE /\ waiting' = Append(waiting, c) /\ doing' = [doing EXCEPT ![c].stage = "wait"]
            /\ deadline' = IF lock # None THEN deadline \cup {c} ELSE deadline \ {c}
            /\ UNCHANGED lock
    /\ UNCHANGED <<wire, table, told, effect>>

Granted ==
    /\ lock = None /\ waiting # <<>>
    /\ lock' = Head(waiting) /\ waiting' = Tail(waiting)
    /\ doing' = [doing EXCEPT ![Head(waiting)].stage = "holds"]
    /\ UNCHANGED <<deadline, wire, table, told, effect>>

\* The wait for the bus is given up: DeviceBusy.  A read or write was not sent; a
\* scan loses what it had found, since only a cancellation logs it.
GiveUpBus(c) ==
    /\ doing[c].stage = "wait" /\ c \in deadline
    /\ doing' = [doing EXCEPT ![c] = Quiet] /\ Free(c)
    /\ told' = [told EXCEPT ![c] = IF doing[c].left = {} THEN "busy" ELSE "lost"]
    /\ UNCHANGED <<deadline, wire, table, effect>>

\* _transact puts the frame on the line.
Send(c) ==
    /\ doing[c].stage = "holds" /\ wire[c] = None
    /\ wire' = [wire EXCEPT ![c] = [req |-> doing[c].req, reply |-> None, wanted |-> TRUE]]
    /\ doing' = [doing EXCEPT ![c].stage = "sent"]
    /\ UNCHANGED <<lock, waiting, deadline, table, told, effect>>

(* Mutant: an exception of the gateway is taken for one of the station.    *)
ReplyOfAnybody(req) ==
    IF req.slave \in Gatewayed \cup {Station}
    THEN (IF req.slave # Station \/ Refuses(req) THEN "exception" ELSE "answered") ELSE "silent"

\* The class of what comes back for a request, if anything does.
Reply(req) ==
    CASE req.slave = Station -> IF Refuses(req) THEN "exception" ELSE "answered"
      [] req.slave \in Gatewayed -> "gateway"
      [] OTHER -> "silent"

\* The frame reaches a station: the controller, a gateway, or nobody.
Serve(c) ==
    /\ wire[c] # None /\ wire[c].reply = None
    /\ LET req == wire[c].req IN
       /\ wire' = [wire EXCEPT ![c].reply = Reply(req)]
       /\ table' = IF req.slave = Station THEN Written(req, table) ELSE table
       /\ effect' = IF wire[c].wanted THEN [effect EXCEPT ![c] = Effect(req, table, table')] ELSE effect
    /\ UNCHANGED <<lock, waiting, deadline, doing, told>>

Outcome(class) ==
    CASE class = "answered" -> "ok" [] class \in {"exception", "gateway"} -> "exception"
      [] class = "silent" -> "timeout" [] OTHER -> "error"

\* The transaction is over and its record written; the lock is released in the
\* same step.  A scan notes the class of the answer and goes on with the next
\* address, unless it is cancelled or its deadline is near.
Conclude(c, class) ==
    /\ Free(c)
    /\ IF doing[c].left = {}
       THEN /\ doing' = [doing EXCEPT ![c].stage = "idle"]
            /\ told' = [told EXCEPT ![c] = Outcome(class)]
       ELSE LET left == doing[c].left \ {doing[c].req.slave}
                seen == Append(doing[c].seen, <<doing[c].req.slave, class>>) IN
            \/ /\ left # {}
               /\ doing' = [doing EXCEPT ![c] = [stage |-> "bus", req |-> Probe(left),
                                               left |-> left, seen |-> seen]]
               /\ UNCHANGED told
            \/ /\ doing' = [doing EXCEPT ![c] = [Quiet EXCEPT !.left = left, !.seen = seen]]
               /\ told' = [told EXCEPT ![c] = "scan"]

Receive(c) ==
    /\ wire[c] # None /\ wire[c].wanted /\ wire[c].reply \notin {None, "silent"}
    /\ Conclude(c, wire[c].reply)
    /\ wire' = [wire EXCEPT ![c] = None]
    /\ UNCHANGED <<deadline, table, effect>>

\* Nothing comes in time.  The frame, or its answer, may still be under way: a
\* worker thread cannot be called back, and neither can a station.
TimeOut(c) ==
    /\ doing[c].stage = "sent" /\ Conclude(c, "silent")
    /\ wire' = [wire EXCEPT ![c].wanted = FALSE]
    /\ UNCHANGED <<deadline, table, effect>>

\* The link cannot be opened: an error outcome, and nothing is sent.
Unreachable(c) ==
    /\ doing[c].stage = "holds" /\ wire[c] = None /\ Conclude(c, "error")
    /\ UNCHANGED <<deadline, wire, table, effect>>

\* The action is cancelled; its frame stays where it is.
Cancel(c) ==
    /\ doing[c].stage # "idle"
    /\ doing' = [doing EXCEPT ![c] = Quiet] /\ Free(c)
    /\ told' = [told EXCEPT ![c] = "cancelled"]
    /\ wire' = IF wire[c] = None THEN wire ELSE [wire EXCEPT ![c].wanted = FALSE]
    /\ UNCHANGED <<deadline, table, effect>>

\* What nobody waits for any more leaves the line.
Drain(c) ==
    /\ wire[c] # None /\ wire[c].reply # None /\ ~wire[c].wanted
    /\ wire' = [wire EXCEPT ![c] = None]
    /\ UNCHANGED <<lock, waiting, deadline, doing, table, told, effect>>

Next ==
    \/ Granted
    \/ \E c \in Callers :
         \/ Enter(c) \/ GiveUpBus(c) \/ Send(c) \/ Serve(c) \/ Receive(c) \/ TimeOut(c)
         \/ Unreachable(c) \/ Cancel(c) \/ Drain(c) \/ BeginScan(c)
         \/ \E req \in Requests : BeginRead(c, req) \/ BeginWrite(c, req)

Spec == Init /\ [][Next]_vars

-----------------------------------------------------------------------------
(* Properties.                                                             *)

\* What a caller is told of its request agrees with what the controller did: a
\* success was carried out, a refusal changed nothing, and a request that never
\* got the bus or a link was never served, not even later.
ToldTheTruth ==
    \A c \in Callers :
        /\ told[c] = "ok" => effect[c] = IF doing[c].req.write THEN "applied" ELSE "unchanged"
        /\ told[c] = "exception" => effect[c] = "unchanged"
        /\ told[c] \in {"busy", "error"} => effect[c] = "nothing"

\* A scan names every address it asked exactly once, in order, and calls present
\* only a station that is there: not one that a gateway answered for.
ScanAccounts ==
    \A c \in Callers :
        LET seen == doing[c].seen IN
        /\ \A i \in DOMAIN seen : /\ seen[i][1] = i
                                  /\ seen[i][2] \in {"answered", "exception"} => i = Station
        /\ told[c] = "scan" => Len(seen) = Cardinality(Addresses \ doing[c].left)

\* _bus: "two *frames* may never be in flight at once, which is what this lock
\* guarantees".
OneFrame == Cardinality({c \in Callers : wire[c] # None}) <= 1
=============================================================================
