---------------------------------- MODULE Rpc ----------------------------------
(***************************************************************************)
(* One connection to the daemon, both ends of it: InstrumentClient         *)
(* (daemon/client.py) with its calls, its read loop and its subscription,  *)
(* ClientConnection and _serve_client (daemon/rpc.py) with their slots and *)
(* tasks, and the subscription of the event bus (daemon/events.py) that a  *)
(* pump of service.py forwards.  A line is a request, an answer or an      *)
(* event; what a method does is left to the modules of its component.      *)
(***************************************************************************)
EXTENDS Naturals, Sequences, SequencesExt, FiniteSets

CONSTANTS
    Kind,           \* Kind[i]: what the i-th call of the client asks for
    MaxInFlight,    \* MAX_INFLIGHT_PER_CONNECTION
    QueueSize,      \* maxsize of the bus subscription
    InboxSize,      \* maxsize of the client's queue
    Buffer,         \* lines the daemon may write before drain() waits
    Published,      \* bound: events ever published
    Faults          \* which of AllFaults happen

AllFaults == {"late", "oversize", "overlong", "stop"}
Calls == DOMAIN Kind

ASSUME CallsAssumption == Kind \in Seq({"work", "subscribe", "unsubscribe"})
ASSUME SizeAssumption == {MaxInFlight, QueueSize, InboxSize, Buffer} \subseteq Nat \ {0}
ASSUME PublishedAssumption == Published \in Nat
ASSUME FaultAssumption == Faults \subseteq AllFaults

\* The history variables are those of one subscription.
ASSUME OneSubscription ==
    \A i, j \in Calls : Kind[i] = "subscribe" /\ Kind[j] = "subscribe" => i = j

VARIABLES
    call,       \* the client: unused, pending, answered or failed calls
    reader,     \* the client's read loop is running
    gone,       \* the client has closed its end
    listening,  \* its subscribe() has its queue registered
    inbox,      \* that queue
    seen,       \* the last event it yielded
    arrived,    \* history: how many events its read loop has taken
    up,         \* request lines the daemon has not read
    down,       \* lines the client has not read
    serving,    \* _serve_client: reading, waiting for a slot, leaving, over
    hand,       \* the request it has read and has no slot for, 0 for none
    task,       \* task[i]: unborn, handling, answering, done or cancelled
    shut,       \* ClientConnection._closed
    hungUp,     \* the daemon has closed the stream
    sub,        \* the bus subscription: none, open or closed
    queue,      \* its queue
    pumped,     \* the event in the pump's hand, 0 for none
    clock,      \* the last event published
    since,      \* history: the last event before the subscription
    dropped     \* Subscription.dropped

clientVars == <<call, reader, gone, listening, inbox, seen, arrived>>
serverVars == <<serving, hand, task, shut, hungUp>>
busVars == <<sub, queue, pumped, clock, since, dropped>>
vars == <<clientVars, up, down, serverVars, busVars>>

Answer(i) == [type |-> "answer", n |-> i]
Oversize == [type |-> "oversize", n |-> 0]
Event(n) == [type |-> "event", n |-> n]
Lines == [type : {"answer", "oversize", "event"}, n : 0..(Len(Kind) + Published)]

TypeOK ==
    /\ call \in [Calls -> {"unused", "pending", "answered", "failed"}]
    /\ {reader, gone, listening, shut, hungUp} \subseteq BOOLEAN
    /\ inbox \in Seq(1..Published) /\ Len(inbox) <= InboxSize
    /\ {seen, arrived, clock, since, dropped, pumped} \subseteq 0..Published
    /\ up \in Seq(Calls) /\ down \in Seq(Lines) /\ Len(down) <= Buffer
    /\ serving \in {"reading", "waiting", "leaving", "over"}
    /\ hand \in {0} \cup Calls /\ (serving = "waiting" => hand # 0)
    /\ task \in [Calls -> {"unborn", "handling", "answering", "done", "cancelled"}]
    /\ Cardinality({i \in Calls : task[i] \in {"handling", "answering"}}) <= MaxInFlight
    /\ sub \in {"none", "open", "closed"}
    /\ queue \in Seq(1..Published) /\ Len(queue) <= QueueSize

(* Mutant: the slot of a request is never released.                        *)
EverInFlight == {i \in Calls : task[i] # "unborn"}

(* The requests that hold a slot.                                          *)
InFlight == {i \in Calls : task[i] \in {"handling", "answering"}}

Init ==
    /\ call = [i \in Calls |-> "unused"]
    /\ reader = TRUE /\ gone = FALSE
    /\ listening = FALSE /\ inbox = <<>> /\ seen = 0 /\ arrived = 0
    /\ up = <<>> /\ down = <<>>
    /\ serving = "reading" /\ hand = 0 /\ shut = FALSE /\ hungUp = FALSE
    /\ task = [i \in Calls |-> "unborn"]
    /\ sub = "none" /\ queue = <<>> /\ pumped = 0
    /\ clock = 0 /\ since = 0 /\ dropped = 0

--------------------------------------------------------------------------------
(* The client.                                                             *)

FailPending == [i \in Calls |-> IF call[i] = "pending" THEN "failed" ELSE call[i]]

(* A call takes the next number.  Only a subscriber unsubscribes, and      *)
(* takes its queue out of the table first.                                 *)
Call(i) ==
    /\ ~gone /\ call[i] = "unused"
    /\ \A j \in 1..(i - 1) : call[j] # "unused"
    /\ Kind[i] = "unsubscribe" => listening
    /\ call' = [call EXCEPT ![i] = "pending"]
    /\ up' = Append(up, i)
    /\ listening' = (listening /\ Kind[i] # "unsubscribe")
    /\ inbox' = IF Kind[i] = "unsubscribe" THEN <<>> ELSE inbox
    /\ UNCHANGED <<reader, gone, seen, arrived, down, serverVars, busVars>>

(* The answer is late: the call fails and forgets its number.              *)
TimeOut(i) ==
    /\ "late" \in Faults /\ call[i] = "pending"
    /\ call' = [call EXCEPT ![i] = "failed"]
    /\ UNCHANGED <<reader, gone, listening, inbox, seen, arrived, up, down, serverVars, busVars>>

(* An event for a queue that is not registered is discarded; a full queue  *)
(* discards its oldest.                                                    *)
DeliverEvent(n) ==
    /\ inbox' = IF ~listening THEN inbox
                ELSE IF Len(inbox) = InboxSize THEN Append(Tail(inbox), n)
                ELSE Append(inbox, n)
    /\ arrived' = arrived + 1

ReadLoop ==
    /\ reader /\ down # <<>>
    /\ down' = Tail(down)
    /\ LET line == Head(down) IN
        \/ /\ line.type = "answer"
           /\ call' = IF call[line.n] = "pending" THEN [call EXCEPT ![line.n] = "answered"] ELSE call
           /\ UNCHANGED <<reader, inbox, arrived>>
        \/ /\ line.type = "event"
           /\ DeliverEvent(line.n)
           /\ UNCHANGED <<call, reader>>
        \/ /\ line.type = "oversize"
           /\ reader' = FALSE
           /\ call' = FailPending
           /\ UNCHANGED <<inbox, arrived>>
    /\ UNCHANGED <<gone, listening, seen, up, serverVars, busVars>>

ReadLoopEnds ==
    /\ reader /\ down = <<>> /\ hungUp
    /\ reader' = FALSE
    /\ call' = FailPending
    /\ UNCHANGED <<gone, listening, inbox, seen, arrived, up, down, serverVars, busVars>>

(* The caller of subscribe() resumes with its answer, once, and registers. *)
Listen(i) ==
    /\ Kind[i] = "subscribe" /\ call[i] = "answered"
    /\ ~listening /\ \A j \in Calls : Kind[j] = "unsubscribe" => call[j] = "unused"
    /\ listening' = TRUE
    /\ UNCHANGED <<call, reader, gone, inbox, seen, arrived, up, down, serverVars, busVars>>

Yield ==
    /\ inbox # <<>>
    /\ seen' = Head(inbox)
    /\ inbox' = Tail(inbox)
    /\ UNCHANGED <<call, reader, gone, listening, arrived, up, down, serverVars, busVars>>

(* close(), or the end of the client's process.                            *)
CloseClient ==
    /\ ~gone
    /\ gone' = TRUE /\ reader' = FALSE
    /\ call' = FailPending
    /\ UNCHANGED <<listening, inbox, seen, arrived, up, down, serverVars, busVars>>

--------------------------------------------------------------------------------
(* The daemon's end.                                                       *)

Spawn(i) == task' = [task EXCEPT ![i] = "handling"]

(* Read a request; with a free slot its task starts at once.               *)
ReadLine ==
    /\ serving = "reading" /\ ~shut /\ up # <<>>
    /\ up' = Tail(up)
    /\ IF Cardinality(InFlight) < MaxInFlight
       THEN Spawn(Head(up)) /\ UNCHANGED <<serving, hand>>
       ELSE serving' = "waiting" /\ hand' = Head(up) /\ UNCHANGED task
    /\ UNCHANGED <<clientVars, down, shut, hungUp, busVars>>

(* Mutant: a request does not wait for a slot.                             *)
TakeSlotAnyway ==
    /\ serving = "waiting"
    /\ Spawn(hand)
    /\ serving' = "reading" /\ hand' = 0
    /\ UNCHANGED <<clientVars, up, down, shut, hungUp, busVars>>

TakeSlot ==
    /\ serving = "waiting" /\ Cardinality(InFlight) < MaxInFlight
    /\ Spawn(hand)
    /\ serving' = "reading" /\ hand' = 0
    /\ UNCHANGED <<clientVars, up, down, shut, hungUp, busVars>>

(* The stream ends, a line is too long, or the connection is closed.       *)
ReadEnds ==
    /\ serving = "reading"
    /\ shut \/ (gone /\ up = <<>>) \/ "overlong" \in Faults
    /\ serving' = "leaving"
    /\ UNCHANGED <<clientVars, up, down, hand, task, shut, hungUp, busVars>>

(* The method of a request: subscribing starts a pump, unsubscribing stops *)
(* it.                                                                     *)
Handle(i) ==
    /\ task[i] = "handling"
    /\ task' = [task EXCEPT ![i] = "answering"]
    /\ \/ /\ Kind[i] = "subscribe"
          /\ sub' = "open" /\ since' = clock
          /\ UNCHANGED <<queue, pumped>>
       \/ /\ Kind[i] = "unsubscribe"
          /\ sub' = "closed" /\ queue' = <<>> /\ pumped' = 0
          /\ UNCHANGED since
       \/ /\ Kind[i] = "work"
          /\ UNCHANGED <<sub, queue, pumped, since>>
    /\ UNCHANGED <<clientVars, up, down, serving, hand, shut, hungUp, clock, dropped>>

(* Mutant: a broken pipe goes unnoticed.                                   *)
SendPatiently(line) ==
    \/ shut /\ UNCHANGED <<down, shut>>
    \/ ~shut /\ ~gone /\ Len(down) < Buffer /\ down' = Append(down, line) /\ UNCHANGED shut

(* A line to the client: nothing once the connection is closed, and the    *)
(* first to meet a broken pipe closes it.                                  *)
Send(line) ==
    \/ shut /\ UNCHANGED <<down, shut>>
    \/ ~shut /\ gone /\ shut' = TRUE /\ UNCHANGED down
    \/ ~shut /\ ~gone /\ Len(down) < Buffer /\ down' = Append(down, line) /\ UNCHANGED shut

(* The answer goes out and the task ends, which frees its slot.            *)
Reply(i) ==
    /\ task[i] = "answering"
    /\ task' = [task EXCEPT ![i] = "done"]
    /\ \/ Send(Answer(i))
       \/ "oversize" \in Faults /\ Send(Oversize)
    /\ UNCHANGED <<clientVars, up, serving, hand, hungUp, busVars>>

CancelTasks == [i \in Calls |-> IF i \in InFlight THEN "cancelled" ELSE task[i]]

(* Mutant: closing a connection leaves its subscriptions in the bus.       *)
CloseTasksOnly ==
    /\ shut' = TRUE /\ hungUp' = TRUE
    /\ task' = CancelTasks
    /\ UNCHANGED <<sub, queue, pumped>>

(* ClientConnection.close(): pumps and tasks are cancelled.                *)
Close ==
    /\ shut' = TRUE /\ hungUp' = TRUE
    /\ task' = CancelTasks
    /\ sub' = IF sub = "open" THEN "closed" ELSE sub
    /\ queue' = <<>> /\ pumped' = 0

(* After on_disconnect, see Dispatcher.                                    *)
Leave ==
    /\ serving = "leaving"
    /\ serving' = "over"
    /\ Close
    /\ UNCHANGED <<clientVars, up, down, hand, clock, since, dropped>>

(* RpcServer.stop() closes the connection under its read loop, which may   *)
(* still hold a request it waits to find a slot for.                       *)
Stop ==
    /\ "stop" \in Faults /\ serving \in {"reading", "waiting"} /\ ~shut
    /\ Close
    /\ UNCHANGED <<clientVars, up, down, serving, hand, clock, since, dropped>>

--------------------------------------------------------------------------------
(* The event bus and the pump.                                             *)

(* Mutant: a full queue refuses the new event.                             *)
OfferNewest(n) ==
    /\ queue' = IF Len(queue) = QueueSize THEN queue ELSE Append(queue, n)
    /\ dropped' = IF Len(queue) = QueueSize THEN dropped + 1 ELSE dropped

(* Mutant: drops are not counted.                                          *)
OfferUncounted(n) ==
    /\ queue' = IF Len(queue) = QueueSize THEN Append(Tail(queue), n) ELSE Append(queue, n)
    /\ UNCHANGED dropped

(* A full queue gives up its oldest event, and counts it.                  *)
Offer(n) ==
    /\ queue' = IF Len(queue) = QueueSize THEN Append(Tail(queue), n) ELSE Append(queue, n)
    /\ dropped' = IF Len(queue) = QueueSize THEN dropped + 1 ELSE dropped

Publish ==
    /\ clock < Published
    /\ clock' = clock + 1
    /\ IF sub = "open" THEN Offer(clock') ELSE UNCHANGED <<queue, dropped>>
    /\ UNCHANGED <<clientVars, up, down, serverVars, sub, pumped, since>>

PumpTakes ==
    /\ sub = "open" /\ pumped = 0 /\ queue # <<>>
    /\ pumped' = Head(queue)
    /\ queue' = Tail(queue)
    /\ UNCHANGED <<clientVars, up, down, serverVars, sub, clock, since, dropped>>

(* The pump forwards its event, or ends on a closed connection.            *)
PumpSends ==
    /\ pumped # 0
    /\ Send(Event(pumped))
    /\ pumped' = 0
    /\ sub' = IF shut THEN "closed" ELSE sub
    /\ queue' = IF shut THEN <<>> ELSE queue
    /\ UNCHANGED <<clientVars, up, serving, hand, task, hungUp, clock, since, dropped>>

Client == \/ \E i \in Calls : Call(i) \/ TimeOut(i) \/ Listen(i)
          \/ ReadLoop \/ ReadLoopEnds \/ Yield \/ CloseClient
Server == \/ \E i \in Calls : Handle(i) \/ Reply(i)
          \/ ReadLine \/ TakeSlot \/ ReadEnds \/ Leave \/ Stop
Bus == Publish \/ PumpTakes \/ PumpSends

(* A client that is gone asks for nothing more.                            *)
Finished == gone /\ UNCHANGED vars

Next == Client \/ Server \/ Bus \/ Finished

(* The loops of both ends run when they can; every method ends, as its     *)
(* action has a deadline.                                                  *)
Fairness ==
    /\ WF_vars(ReadLine) /\ WF_vars(TakeSlot) /\ WF_vars(Leave)
    /\ WF_vars(ReadEnds /\ (shut \/ gone))
    /\ \A i \in Calls : WF_vars(Handle(i)) /\ SF_vars(Reply(i))
    /\ WF_vars(ReadLoop) /\ WF_vars(PumpSends)

Spec == Init /\ [][Next]_vars
FairSpec == Spec /\ Fairness

--------------------------------------------------------------------------------
\* The events among the lines the client has not read.
OnTheWire == {k \in DOMAIN down : down[k].type = "event"}
InHand == IF pumped = 0 THEN <<>> ELSE <<Event(pumped)>>

(* What is between the bus and the consumer, oldest first: events, and the *)
(* answers among them.                                                     *)
Lined(events) == [k \in DOMAIN events |-> Event(events[k])]
Journey == Lined(inbox) \o down \o InHand \o Lined(queue)
EventsAhead == {a \in DOMAIN Journey : Journey[a].type = "event"}

(* A slow subscriber sees less, never something stale after something      *)
(* newer, and what it will see ends with the newest event of all.          *)
FreshInOrder ==
    /\ \A a, b \in EventsAhead : a < b => Journey[a].n < Journey[b].n
    /\ \A a \in EventsAhead : Journey[a].n > seen
    /\ sub = "open" /\ ~shut /\ clock > since /\ queue # <<>> => Last(queue) = clock

(* Every event since the subscription is on its way, has arrived, or is in *)
(* the count of the dropped.                                               *)
EventsAccounted ==
    sub = "open" /\ ~shut =>
        clock = since + dropped + arrived + Cardinality(OnTheWire) + Len(InHand) + Len(queue)

(* Nothing of a closed connection is left in the daemon: no task, no       *)
(* subscription the bus would go on filling.                               *)
NothingOutlives == serving = "over" => InFlight = {} /\ sub # "open" /\ queue = <<>>

(* A request is started however many are ahead of it, unless the client    *)
(* has stopped reading or the connection ends.                             *)
RequestsGetIn ==
    \A i \in Calls : call[i] # "unused" ~> task[i] # "unborn" \/ ~reader \/ serving = "over"

(* A connection whose client is gone is cleaned up, although its read loop *)
(* may have been waiting for a slot.                                       *)
GoneIsNoticed == gone ~> serving = "over"
================================================================================
