------------------------------- MODULE RpcProofs -------------------------------
(***************************************************************************)
(* Proofs about Rpc, for any program of calls, any sizes of the queues and *)
(* buffers and any of the faults.                                          *)
(***************************************************************************)
EXTENDS Rpc, SequenceTheorems, FiniteSetTheorems, TLAPS

--------------------------------------------------------------------------------
(* The inductive invariant, in named parts.                                *)

(* An answer is to a call, an event is one of the bus.                     *)
LinesKnown ==
    \A k \in 1 .. Len(down) :
        /\ down[k].type = "answer" => down[k].n \in Calls
        /\ down[k].type = "event" => down[k].n \in 1 .. Published

(* A request on its way, or in hand, was made once and has no task yet.    *)
Requested ==
    /\ \A a, b \in 1 .. Len(up) : a # b => up[a] # up[b]
    /\ \A a \in 1 .. Len(up) : call[up[a]] # "unused" /\ task[up[a]] = "unborn"
    /\ serving = "waiting" =>
          /\ call[hand] # "unused" /\ task[hand] = "unborn"
          /\ \A a \in 1 .. Len(up) : up[a] # hand
    /\ \A i \in Calls : call[i] = "unused" => task[i] = "unborn"

(* Only an open subscription holds events.                                 *)
SubHolds == sub # "open" => queue = <<>> /\ pumped = 0

(* The events at each stage of the journey.                                *)
Rng(s) == {s[k] : k \in 1 .. Len(s)}
WireEvents == {down[k].n : k \in OnTheWire}
HandEvents == {pumped} \ {0}

Below(S, T) == \A x \in S, y \in T : x < y
Rising(s) == \A a, b \in 1 .. Len(s) : a < b => s[a] < s[b]
WireRises == \A a, b \in OnTheWire : a < b => down[a].n < down[b].n

(* Every stage holds what is older than the stages behind it.              *)
Chain(last, I, W, H, Q, newest) ==
    /\ Below({last}, I \cup W \cup H \cup Q)
    /\ Below(I, W \cup H \cup Q)
    /\ Below(W, H \cup Q)
    /\ Below(H, Q)
    /\ Below({last} \cup I \cup W \cup H \cup Q, {newest + 1})

NewestIsLast == sub = "open" /\ queue # <<>> => queue[Len(queue)] = clock

InOrder ==
    /\ Rising(inbox) /\ WireRises /\ Rising(queue)
    /\ Chain(seen, Rng(inbox), WireEvents, HandEvents, Rng(queue), clock)
    /\ NewestIsLast

(* The events the accounts know of; none before the subscription.          *)
Known == dropped + arrived + Cardinality(OnTheWire) + Len(InHand) + Len(queue)
Accounts ==
    /\ since + Known <= clock
    /\ sub = "open" /\ ~shut => since + Known = clock
    /\ \A i \in Calls : Kind[i] = "subscribe" /\ task[i] \in {"unborn", "handling"} =>
          Known = 0 /\ sub # "open"

IInv == /\ TypeOK /\ LinesKnown /\ Requested /\ SubHolds
        /\ InOrder /\ Accounts /\ NothingOutlives

--------------------------------------------------------------------------------
(* Constants and sequences.                                                *)

LEMMA ConstantFacts ==
    /\ Calls = 1 .. Len(Kind) /\ Len(Kind) \in Nat /\ Published \in Nat
    /\ MaxInFlight \in Nat \ {0} /\ QueueSize \in Nat \ {0}
    /\ InboxSize \in Nat \ {0} /\ Buffer \in Nat \ {0}
    /\ \A i \in Calls : Kind[i] \in {"work", "subscribe", "unsubscribe"}
<1>1. Len(Kind) \in Nat /\ DOMAIN Kind = 1 .. Len(Kind)
  BY CallsAssumption, LenProperties
<1>2. \A i \in 1 .. Len(Kind) : Kind[i] \in {"work", "subscribe", "unsubscribe"}
  BY CallsAssumption, ElementOfSeq
<1> QED
  BY <1>1, <1>2, SizeAssumption, PublishedAssumption DEF Calls

LEMMA FunctionIsSeq ==
    ASSUME NEW S, NEW k \in Nat, NEW f \in [1 .. k -> S]
    PROVE  f \in Seq(S) /\ Len(f) = k
  OBVIOUS

(* The tail of a rising sequence rises from its head.                      *)
LEMMA RisingTail ==
    ASSUME NEW s \in Seq(Nat), s # <<>>, Rising(s)
    PROVE  /\ Rising(Tail(s)) /\ Rng(Tail(s)) \subseteq Rng(s)
           /\ Head(s) \in Rng(s) /\ Below({Head(s)}, Rng(Tail(s)))
<1>1. /\ Len(s) \in Nat \ {0} /\ Len(Tail(s)) = Len(s) - 1
      /\ \A k \in 1 .. Len(Tail(s)) : Tail(s)[k] = s[k + 1]
  BY HeadTailProperties, EmptySeq, LenProperties
<1>2. Head(s) = s[1]
  OBVIOUS
<1>3. \A k \in 1 .. Len(Tail(s)) : k + 1 \in 1 .. Len(s) /\ 1 < k + 1
  BY <1>1
<1>4. Rising(Tail(s))
  BY <1>1, <1>3 DEF Rising
<1>5. Rng(Tail(s)) \subseteq Rng(s)
  BY <1>1, <1>3 DEF Rng
<1>6. Below({Head(s)}, Rng(Tail(s)))
  BY <1>1, <1>2, <1>3 DEF Rising, Rng, Below
<1>7. Head(s) \in Rng(s)
  <2>1. 1 \in 1 .. Len(s)
    BY <1>1
  <2> QED
    BY <1>2, <2>1 DEF Rng
<1> QED
  BY <1>4, <1>5, <1>6, <1>7

(* A rising sequence goes on rising with what is above it.                 *)
LEMMA RisingAppend ==
    ASSUME NEW s \in Seq(Nat), NEW e \in Nat, Rising(s), Below(Rng(s), {e})
    PROVE  /\ Rising(Append(s, e)) /\ Rng(Append(s, e)) = Rng(s) \cup {e}
           /\ Append(s, e)[Len(Append(s, e))] = e /\ Append(s, e) # <<>>
<1>1. /\ Len(s) \in Nat /\ Len(Append(s, e)) = Len(s) + 1 /\ Append(s, e) # <<>>
      /\ \A k \in 1 .. Len(s) : Append(s, e)[k] = s[k]
      /\ Append(s, e)[Len(s) + 1] = e
  BY AppendProperties, LenProperties
<1>2. Rising(Append(s, e))
  BY <1>1 DEF Rising, Below, Rng
<1>3. Rng(Append(s, e)) = Rng(s) \cup {e}
  BY <1>1 DEF Rng
<1> QED
  BY <1>1, <1>2, <1>3

LEMMA EmptyRises == Rising(<<>>) /\ Rng(<<>>) = {}
  BY DEF Rising, Rng

(* The events of a sequence of lines, and their number.                    *)
EventsOf(lines) == {k \in DOMAIN lines : lines[k].type = "event"}

LEMMA EventsOfFinite ==
    ASSUME NEW S, NEW lines \in Seq(S)
    PROVE  IsFiniteSet(EventsOf(lines)) /\ Cardinality(EventsOf(lines)) \in Nat
<1>1. IsFiniteSet(1 .. Len(lines))
  BY FS_Interval, LenProperties
<1>2. EventsOf(lines) \in SUBSET (1 .. Len(lines))
  BY LenProperties DEF EventsOf
<1> QED
  BY <1>1, <1>2, FS_Subset, FS_CardinalityType

LEMMA EventsOfAppend ==
    ASSUME NEW S, NEW lines \in Seq(S), NEW line \in S
    PROVE  /\ EventsOf(Append(lines, line)) =
                 EventsOf(lines) \cup (IF line.type = "event" THEN {Len(lines) + 1} ELSE {})
           /\ Cardinality(EventsOf(Append(lines, line))) =
                 Cardinality(EventsOf(lines)) + (IF line.type = "event" THEN 1 ELSE 0)
<1>1. /\ Len(lines) \in Nat /\ DOMAIN lines = 1 .. Len(lines)
      /\ DOMAIN Append(lines, line) = 1 .. Len(lines) + 1
      /\ \A k \in 1 .. Len(lines) : Append(lines, line)[k] = lines[k]
      /\ Append(lines, line)[Len(lines) + 1] = line
  BY AppendProperties, LenProperties
<1>2. EventsOf(Append(lines, line)) =
         EventsOf(lines) \cup (IF line.type = "event" THEN {Len(lines) + 1} ELSE {})
  BY <1>1 DEF EventsOf
<1>3. Len(lines) + 1 \notin EventsOf(lines)
  BY <1>1 DEF EventsOf
<1>4. Cardinality(EventsOf(lines) \cup {Len(lines) + 1}) = Cardinality(EventsOf(lines)) + 1
  BY <1>3, EventsOfFinite, FS_AddElement
<1>5. CASE line.type = "event"
  BY <1>2, <1>4, <1>5
<1>6. CASE line.type # "event"
  <2>1. EventsOf(Append(lines, line)) = EventsOf(lines)
    BY <1>2, <1>6
  <2> QED
    BY <1>6, <2>1, EventsOfFinite
<1> QED
  BY <1>5, <1>6

LEMMA EventsOfTail ==
    ASSUME NEW S, NEW lines \in Seq(S), lines # <<>>
    PROVE  /\ EventsOf(Tail(lines)) = {k \in 1 .. Len(lines) - 1 : k + 1 \in EventsOf(lines)}
           /\ Cardinality(EventsOf(Tail(lines))) =
                 Cardinality(EventsOf(lines)) - (IF lines[1].type = "event" THEN 1 ELSE 0)
<1>1. /\ Len(lines) \in Nat \ {0} /\ DOMAIN lines = 1 .. Len(lines)
      /\ DOMAIN Tail(lines) = 1 .. Len(lines) - 1
      /\ \A k \in 1 .. Len(lines) - 1 : Tail(lines)[k] = lines[k + 1]
  BY HeadTailProperties, EmptySeq, LenProperties
<1>2. EventsOf(Tail(lines)) = {k \in 1 .. Len(lines) - 1 : k + 1 \in EventsOf(lines)}
  BY <1>1 DEF EventsOf
<1> DEFINE f == [k \in EventsOf(Tail(lines)) |-> k + 1]
           rest == EventsOf(lines) \ {1}
<1>3. EventsOf(lines) \subseteq 1 .. Len(lines)
  BY <1>1 DEF EventsOf
<1>4. f \in [EventsOf(Tail(lines)) -> rest]
  BY <1>1, <1>2
<1>5. \A a, b \in EventsOf(Tail(lines)) : f[a] = f[b] => a = b
  BY <1>1, <1>2
<1>6. ASSUME NEW k \in rest PROVE \E a \in EventsOf(Tail(lines)) : f[a] = k
  <2>1. k \in 2 .. Len(lines)
    BY <1>3, <1>1
  <2>2. k - 1 \in EventsOf(Tail(lines)) /\ (k - 1) + 1 = k
    BY <1>1, <1>2, <2>1
  <2> QED
    BY <2>2
<1>7. f \in Bijection(EventsOf(Tail(lines)), rest)
  BY <1>4, <1>5, <1>6 DEF Bijection, Injection, Surjection, IsInjective
<1>8. Tail(lines) \in Seq(S)
  BY HeadTailProperties
<1>9. Cardinality(rest) = Cardinality(EventsOf(Tail(lines)))
  <2>1. ExistsBijection(EventsOf(Tail(lines)), rest)
    BY <1>7, Zenon DEF ExistsBijection
  <2>2. IsFiniteSet(EventsOf(Tail(lines)))
    BY <1>8, EventsOfFinite
  <2> HIDE DEF rest
  <2> QED
    BY <2>1, <2>2, FS_Bijection
<1>10. Cardinality(rest) =
          IF 1 \in EventsOf(lines) THEN Cardinality(EventsOf(lines)) - 1
          ELSE Cardinality(EventsOf(lines))
  BY EventsOfFinite, FS_RemoveElement
<1>11. 1 \in EventsOf(lines) <=> lines[1].type = "event"
  BY <1>1 DEF EventsOf
<1> QED
  BY <1>2, <1>9, <1>10, <1>11, EventsOfFinite

--------------------------------------------------------------------------------
(* Types.                                                                  *)

LEMMA InFlightFinite ==
    ASSUME TypeOK
    PROVE  IsFiniteSet(InFlight) /\ Cardinality(InFlight) \in Nat
<1>1. IsFiniteSet(Calls)
  BY ConstantFacts, FS_Interval
<1>2. InFlight \in SUBSET Calls
  BY DEF InFlight
<1> QED
  BY <1>1, <1>2, FS_Subset, FS_CardinalityType

LEMMA SpawnTyped ==
    ASSUME TypeOK, NEW i \in Calls, Cardinality(InFlight) < MaxInFlight, Spawn(i)
    PROVE  /\ task' \in [Calls -> {"unborn", "handling", "answering", "done", "cancelled"}]
           /\ Cardinality(InFlight') <= MaxInFlight
<1>1. InFlight' = InFlight \cup {i}
  BY DEF InFlight, Spawn, TypeOK
<1>2. Cardinality(InFlight') \in {Cardinality(InFlight), Cardinality(InFlight) + 1}
  BY <1>1, InFlightFinite, FS_AddElement
<1>3. Cardinality(InFlight') <= MaxInFlight
  BY <1>2, InFlightFinite, ConstantFacts
<1> QED
  BY <1>3 DEF Spawn, TypeOK

LEMMA FewerTyped ==
    ASSUME TypeOK, InFlight' \subseteq InFlight
    PROVE  Cardinality(InFlight') <= MaxInFlight
<1>1. Cardinality(InFlight') <= Cardinality(InFlight)
  BY InFlightFinite, FS_Subset
<1>2. Cardinality(InFlight) <= MaxInFlight
  BY DEF TypeOK, InFlight
<1>3. Cardinality(InFlight') \in Nat
  BY InFlightFinite, FS_Subset, FS_CardinalityType
<1> QED
  BY <1>1, <1>2, <1>3, InFlightFinite, ConstantFacts

LEMMA CloseTyped ==
    ASSUME TypeOK, Close
    PROVE  /\ shut' \in BOOLEAN /\ hungUp' \in BOOLEAN
           /\ task' \in [Calls -> {"unborn", "handling", "answering", "done", "cancelled"}]
           /\ InFlight' = {} /\ Cardinality(InFlight') <= MaxInFlight
           /\ sub' \in {"none", "closed"} /\ queue' = <<>> /\ pumped' = 0
<1>1. InFlight' = {}
  BY DEF Close, CancelTasks, InFlight, TypeOK
<1>2. Cardinality(InFlight') <= MaxInFlight
  BY <1>1, FS_EmptySet, ConstantFacts
<1> QED
  BY <1>1, <1>2 DEF Close, CancelTasks, InFlight, TypeOK

LEMMA SendTyped ==
    ASSUME TypeOK, NEW line \in Lines, Send(line)
    PROVE  /\ shut' \in BOOLEAN /\ down' \in Seq(Lines) /\ Len(down') <= Buffer
           /\ \/ down' = down /\ (shut \/ shut')
              \/ down' = Append(down, line) /\ ~shut /\ shut' = shut
<1>1. CASE down' = Append(down, line) /\ Len(down) < Buffer /\ ~shut /\ shut' = shut
  <2>1. down' \in Seq(Lines) /\ Len(down') = Len(down) + 1 /\ Len(down) \in Nat
    BY <1>1, AppendProperties, LenProperties DEF TypeOK
  <2> QED
    BY <1>1, <2>1, ConstantFacts DEF TypeOK
<1>2. CASE down' = down /\ (shut \/ shut') /\ shut' \in BOOLEAN
  BY <1>2 DEF TypeOK
<1> QED
  BY <1>1, <1>2 DEF Send, TypeOK

LEMMA EventTyped ==
    /\ \A k \in 1 .. Published : Event(k) \in Lines
    /\ \A i \in Calls : Answer(i) \in Lines
    /\ Oversize \in Lines
  BY ConstantFacts DEF Event, Answer, Oversize, Lines

LEMMA OfferTyped ==
    ASSUME TypeOK, NEW e \in 1 .. Published, Offer(e)
    PROVE  queue' \in Seq(1 .. Published) /\ Len(queue') <= QueueSize
<1>1. queue \in Seq(1 .. Published) /\ Len(queue) \in Nat /\ Len(queue) <= QueueSize
  BY LenProperties DEF TypeOK
<1>2. CASE Len(queue) = QueueSize
  <2>1. queue # <<>>
    BY <1>1, <1>2, ConstantFacts, EmptySeq
  <2>2. Tail(queue) \in Seq(1 .. Published) /\ Len(Tail(queue)) = Len(queue) - 1
    BY <1>1, <2>1, HeadTailProperties
  <2>3. queue' = Append(Tail(queue), e)
    BY <1>2 DEF Offer
  <2> QED
    BY <1>1, <1>2, <2>2, <2>3, AppendProperties, ConstantFacts
<1>3. CASE Len(queue) # QueueSize
  <2>1. queue' = Append(queue, e)
    BY <1>3 DEF Offer
  <2>2. queue' \in Seq(1 .. Published) /\ Len(queue') = Len(queue) + 1
    BY <1>1, <2>1, AppendProperties
  <2> QED
    BY <1>1, <1>3, <2>2, ConstantFacts
<1> QED
  BY <1>2, <1>3

LEMMA DeliverTyped ==
    ASSUME TypeOK, NEW e \in 1 .. Published, DeliverEvent(e)
    PROVE  inbox' \in Seq(1 .. Published) /\ Len(inbox') <= InboxSize
<1>1. inbox \in Seq(1 .. Published) /\ Len(inbox) \in Nat /\ Len(inbox) <= InboxSize
  BY LenProperties DEF TypeOK
<1>2. CASE ~listening
  BY <1>1, <1>2 DEF DeliverEvent
<1>3. CASE listening /\ Len(inbox) = InboxSize
  <2>1. inbox # <<>>
    BY <1>1, <1>3, ConstantFacts, EmptySeq
  <2>2. Tail(inbox) \in Seq(1 .. Published) /\ Len(Tail(inbox)) = Len(inbox) - 1
    BY <1>1, <2>1, HeadTailProperties
  <2>3. inbox' = Append(Tail(inbox), e)
    BY <1>3 DEF DeliverEvent
  <2> QED
    BY <1>1, <1>3, <2>2, <2>3, AppendProperties, ConstantFacts
<1>4. CASE listening /\ Len(inbox) # InboxSize
  <2>1. inbox' = Append(inbox, e)
    BY <1>4 DEF DeliverEvent
  <2>2. inbox' \in Seq(1 .. Published) /\ Len(inbox') = Len(inbox) + 1
    BY <1>1, <2>1, AppendProperties
  <2> QED
    BY <1>1, <1>4, <2>2, ConstantFacts
<1> QED
  BY <1>2, <1>3, <1>4

LEMMA EmptyTyped ==
    /\ <<>> \in Seq(1 .. Published)
    /\ Len(<<>>) <= InboxSize /\ Len(<<>>) <= QueueSize
<1>1. Len(<<>>) = 0
  OBVIOUS
<1> QED
  BY <1>1, ConstantFacts

(* The types but for the two counts, which the accounts bound.             *)
Shaped ==
    /\ call \in [Calls -> {"unused", "pending", "answered", "failed"}]
    /\ {reader, gone, listening, shut, hungUp} \subseteq BOOLEAN
    /\ inbox \in Seq(1 .. Published) /\ Len(inbox) <= InboxSize
    /\ {seen, clock, since, pumped} \subseteq 0 .. Published
    /\ up \in Seq(Calls) /\ down \in Seq(Lines) /\ Len(down) <= Buffer
    /\ serving \in {"reading", "waiting", "leaving", "over"}
    /\ hand \in {0} \cup Calls /\ (serving = "waiting" => hand # 0)
    /\ task \in [Calls -> {"unborn", "handling", "answering", "done", "cancelled"}]
    /\ Cardinality({i \in Calls : task[i] \in {"handling", "answering"}}) <= MaxInFlight
    /\ sub \in {"none", "open", "closed"}
    /\ queue \in Seq(1 .. Published) /\ Len(queue) <= QueueSize

LEMMA ShapedIsTyped == TypeOK <=> Shaped /\ {arrived, dropped} \subseteq 0 .. Published
  BY DEF TypeOK, Shaped

LEMMA TypeStep ==
    ASSUME TypeOK, LinesKnown, [Next]_vars
    PROVE  Shaped'
<1> USE DEF clientVars, serverVars, busVars
<1>1. CASE UNCHANGED vars
  BY <1>1 DEF vars, TypeOK, Shaped
<1>2. ASSUME NEW i \in Calls, Call(i) PROVE Shaped'
  <2>1. up' \in Seq(Calls)
    BY <1>2, AppendProperties DEF Call, TypeOK, Shaped
  <2>2. inbox' \in Seq(1 .. Published) /\ Len(inbox') <= InboxSize
    <3>1. inbox' = <<>> \/ inbox' = inbox
      BY <1>2 DEF Call
    <3> QED
      BY <3>1, EmptyTyped DEF TypeOK, Shaped
  <2> QED
    BY <1>2, <2>1, <2>2 DEF Call, TypeOK, Shaped
<1>3. ASSUME NEW i \in Calls, TimeOut(i) PROVE Shaped'
  BY <1>3 DEF TimeOut, TypeOK, Shaped
<1>4. ASSUME NEW i \in Calls, Listen(i) PROVE Shaped'
  BY <1>4 DEF Listen, TypeOK, Shaped
<1>5. CASE ReadLoop
  <2>1. /\ down' \in Seq(Lines) /\ Len(down') <= Buffer /\ Head(down) = down[1]
        /\ 1 \in 1 .. Len(down)
    <3>1. /\ Len(down) \in Nat \ {0} /\ Tail(down) \in Seq(Lines)
          /\ Len(Tail(down)) = Len(down) - 1
      BY <1>5, HeadTailProperties, EmptySeq, LenProperties DEF ReadLoop, TypeOK, Shaped
    <3> QED
      BY <1>5, <3>1, ConstantFacts DEF ReadLoop, TypeOK, Shaped
  <2>2. CASE Head(down).type = "answer" /\ UNCHANGED <<reader, inbox, arrived>>
    BY <1>5, <2>1, <2>2 DEF ReadLoop, TypeOK, Shaped, LinesKnown
  <2>3. CASE Head(down).type = "event" /\ DeliverEvent(Head(down).n) /\ UNCHANGED <<call, reader>>
    <3>1. inbox' \in Seq(1 .. Published) /\ Len(inbox') <= InboxSize
      BY <2>1, <2>3, DeliverTyped DEF LinesKnown
    <3> QED
      BY <1>5, <2>1, <2>3, <3>1 DEF ReadLoop, TypeOK, Shaped
  <2>4. CASE reader' = FALSE /\ call' = FailPending /\ UNCHANGED <<inbox, arrived>>
    BY <1>5, <2>1, <2>4 DEF ReadLoop, FailPending, TypeOK, Shaped
  <2> QED
    BY <1>5, <2>1, <2>2, <2>3, <2>4 DEF ReadLoop
<1>6. CASE ReadLoopEnds
  BY <1>6 DEF ReadLoopEnds, FailPending, TypeOK, Shaped
<1>7. CASE Yield
  <2>1. /\ inbox' \in Seq(1 .. Published) /\ Len(inbox') <= InboxSize
        /\ Head(inbox) \in 1 .. Published
    <3>1. /\ Len(inbox) \in Nat \ {0} /\ Tail(inbox) \in Seq(1 .. Published)
          /\ Len(Tail(inbox)) = Len(inbox) - 1 /\ Head(inbox) \in 1 .. Published
      BY <1>7, HeadTailProperties, EmptySeq, LenProperties DEF Yield, TypeOK, Shaped
    <3> QED
      BY <1>7, <3>1, ConstantFacts DEF Yield, TypeOK, Shaped
  <2>2. seen' \in 0 .. Published
    BY <1>7, <2>1, ConstantFacts DEF Yield
  <2> QED
    BY <1>7, <2>1, <2>2 DEF Yield, TypeOK, Shaped
<1>8. CASE CloseClient
  BY <1>8 DEF CloseClient, FailPending, TypeOK, Shaped
<1>9. ASSUME NEW i \in Calls, Handle(i) PROVE Shaped'
  <2>1. InFlight' \subseteq InFlight
    BY <1>9 DEF Handle, InFlight, TypeOK, Shaped
  <2>2. queue' \in Seq(1 .. Published) /\ Len(queue') <= QueueSize
    <3>1. queue' = <<>> \/ queue' = queue
      BY <1>9 DEF Handle
    <3> QED
      BY <3>1, EmptyTyped DEF TypeOK, Shaped
  <2>3. pumped' \in 0 .. Published /\ since' \in 0 .. Published /\ sub' \in {"none", "open", "closed"}
    <3>1. {pumped, since, clock, 0} \subseteq 0 .. Published /\ sub \in {"none", "open", "closed"}
      BY ConstantFacts DEF TypeOK
    <3>2. pumped' \in {pumped, 0} /\ since' \in {since, clock} /\ sub' \in {sub, "open", "closed"}
      BY <1>9 DEF Handle
    <3> QED
      BY <3>1, <3>2
  <2>4. task' \in [Calls -> {"unborn", "handling", "answering", "done", "cancelled"}]
    BY <1>9 DEF Handle, TypeOK, Shaped
  <2> QED
    BY <1>9, <2>1, <2>2, <2>3, <2>4, FewerTyped DEF Handle, InFlight, TypeOK, Shaped
<1>10. ASSUME NEW i \in Calls, Reply(i) PROVE Shaped'
  <2>1. InFlight' \subseteq InFlight
    BY <1>10 DEF Reply, InFlight, TypeOK, Shaped
  <2>2. shut' \in BOOLEAN /\ down' \in Seq(Lines) /\ Len(down') <= Buffer
    BY <1>10, SendTyped, EventTyped DEF Reply
  <2>3. task' \in [Calls -> {"unborn", "handling", "answering", "done", "cancelled"}]
    BY <1>10 DEF Reply, TypeOK, Shaped
  <2> QED
    BY <1>10, <2>1, <2>2, <2>3, FewerTyped DEF Reply, InFlight, TypeOK, Shaped
<1>11. CASE ReadLine
  <2>1. up' \in Seq(Calls) /\ Head(up) \in Calls
    BY <1>11, HeadTailProperties DEF ReadLine, TypeOK, Shaped
  <2>2. CASE Cardinality(InFlight) < MaxInFlight
    <3>1. /\ task' \in [Calls -> {"unborn", "handling", "answering", "done", "cancelled"}]
          /\ Cardinality(InFlight') <= MaxInFlight
      BY <1>11, <2>1, <2>2, SpawnTyped DEF ReadLine
    <3> QED
      BY <1>11, <2>1, <2>2, <3>1 DEF ReadLine, InFlight, TypeOK, Shaped
  <2>3. CASE ~(Cardinality(InFlight) < MaxInFlight)
    <3>1. Head(up) # 0
      BY <2>1, ConstantFacts
    <3> QED
      BY <1>11, <2>1, <2>3, <3>1 DEF ReadLine, TypeOK, Shaped
  <2> QED
    BY <2>2, <2>3
<1>12. CASE TakeSlot
  <2>1. hand \in Calls
    BY <1>12 DEF TakeSlot, TypeOK, Shaped
  <2>2. /\ task' \in [Calls -> {"unborn", "handling", "answering", "done", "cancelled"}]
        /\ Cardinality(InFlight') <= MaxInFlight
    BY <1>12, <2>1, SpawnTyped DEF TakeSlot
  <2> QED
    BY <1>12, <2>2 DEF TakeSlot, InFlight, TypeOK, Shaped
<1>13. CASE ReadEnds
  BY <1>13 DEF ReadEnds, TypeOK, Shaped
<1>14. CASE Leave \/ Stop
  <2>1. Close /\ serving' \in {"reading", "waiting", "over"} /\ hand' = hand
        /\ (serving' = "waiting" => serving = "waiting")
    BY <1>14 DEF Leave, Stop
  <2>2. Len(queue') <= QueueSize /\ queue' \in Seq(1 .. Published)
    BY <2>1, CloseTyped, EmptySeq, ConstantFacts
  <2>3. 0 \in 0 .. Published
    BY ConstantFacts
  <2> QED
    BY <1>14, <2>1, <2>2, <2>3, CloseTyped DEF Leave, Stop, InFlight, TypeOK, Shaped
<1>15. CASE Publish
  <2>1. clock' \in 1 .. Published
    BY <1>15, ConstantFacts DEF Publish, TypeOK, Shaped
  <2>2. queue' \in Seq(1 .. Published) /\ Len(queue') <= QueueSize
    BY <1>15, <2>1, OfferTyped DEF Publish, TypeOK, Shaped
  <2>3. clock' \in 0 .. Published
    BY <2>1
  <2> QED
    BY <1>15, <2>2, <2>3 DEF Publish, TypeOK, Shaped
<1>16. CASE PumpTakes
  <2>1. /\ queue' \in Seq(1 .. Published) /\ Len(queue') <= QueueSize
        /\ Head(queue) \in 1 .. Published
    <3>1. /\ Len(queue) \in Nat \ {0} /\ Tail(queue) \in Seq(1 .. Published)
          /\ Len(Tail(queue)) = Len(queue) - 1 /\ Head(queue) \in 1 .. Published
      BY <1>16, HeadTailProperties, EmptySeq, LenProperties DEF PumpTakes, TypeOK, Shaped
    <3> QED
      BY <1>16, <3>1, ConstantFacts DEF PumpTakes, TypeOK, Shaped
  <2>2. pumped' \in 0 .. Published
    BY <1>16, <2>1 DEF PumpTakes
  <2> QED
    BY <1>16, <2>1, <2>2 DEF PumpTakes, TypeOK, Shaped
<1>17. CASE PumpSends
  <2>1. pumped \in 1 .. Published
    BY <1>17, ConstantFacts DEF PumpSends, TypeOK, Shaped
  <2>2. shut' \in BOOLEAN /\ down' \in Seq(Lines) /\ Len(down') <= Buffer
    BY <1>17, <2>1, SendTyped, EventTyped DEF PumpSends
  <2>3. queue' \in Seq(1 .. Published) /\ Len(queue') <= QueueSize /\ 0 \in 0 .. Published
    <3>1. queue' = <<>> \/ queue' = queue
      BY <1>17 DEF PumpSends
    <3>2. queue \in Seq(1 .. Published) /\ Len(queue) <= QueueSize
      BY DEF TypeOK, Shaped
    <3>3. queue' \in Seq(1 .. Published) /\ Len(queue') <= QueueSize
      BY <3>1, <3>2, EmptyTyped
    <3>4. 0 \in 0 .. Published
      BY ConstantFacts
    <3> QED
      BY <3>3, <3>4
  <2> QED
    BY <1>17, <2>2, <2>3 DEF PumpSends, TypeOK, Shaped
<1> QED
  BY <1>1, <1>2, <1>3, <1>4, <1>5, <1>6, <1>7, <1>8, <1>9, <1>10, <1>11, <1>12, <1>13, <1>14,
     <1>15, <1>16, <1>17 DEF Next, Client, Server, Bus, Finished

--------------------------------------------------------------------------------
(* Requests, subscriptions, and what is left at the end.                   *)

LEMMA RequestedStep ==
    ASSUME TypeOK, Requested, LinesKnown, [Next]_vars
    PROVE  Requested'
<1> USE DEF clientVars, serverVars, busVars
<1>1. Len(up) \in Nat /\ \A a \in 1 .. Len(up) : up[a] \in Calls
  BY LenProperties, ElementOfSeq DEF TypeOK
<1>2. CASE UNCHANGED <<up, serving, hand, task>> /\
           \A i \in Calls : call'[i] = "unused" <=> call[i] = "unused"
  <2>1. serving = "waiting" => hand \in Calls
    BY DEF TypeOK
  <2> QED
    BY <1>1, <1>2, <2>1 DEF Requested
<1>3. ASSUME NEW i \in Calls, Call(i) PROVE Requested'
  <2>1. /\ Len(up') = Len(up) + 1 /\ up'[Len(up) + 1] = i
        /\ \A a \in 1 .. Len(up) : up'[a] = up[a]
    BY <1>3, AppendProperties DEF Call, TypeOK
  <2>2. /\ \A a \in 1 .. Len(up) : up[a] # i
        /\ serving = "waiting" => hand \in Calls /\ hand # i
    BY <1>3 DEF Call, Requested, TypeOK
  <2>3. /\ \A j \in Calls : call'[j] = IF j = i THEN "pending" ELSE call[j]
        /\ UNCHANGED <<serving, hand, task>>
    BY <1>3 DEF Call, TypeOK
  <2>4. \A a, b \in 1 .. Len(up') : a # b => up'[a] # up'[b]
    BY <1>1, <2>1, <2>2 DEF Requested
  <2>5. \A a \in 1 .. Len(up') : call'[up'[a]] # "unused" /\ task'[up'[a]] = "unborn"
    BY <1>1, <1>3, <2>1, <2>2, <2>3 DEF Requested, Call
  <2>6. serving' = "waiting" =>
          /\ call'[hand'] # "unused" /\ task'[hand'] = "unborn"
          /\ \A a \in 1 .. Len(up') : up'[a] # hand'
    BY <1>1, <2>1, <2>2, <2>3 DEF Requested
  <2> QED
    BY <2>3, <2>4, <2>5, <2>6 DEF Requested
<1>4. ASSUME NEW i \in Calls, TimeOut(i) PROVE Requested'
  BY <1>2, <1>4 DEF TimeOut, TypeOK
<1>5. ASSUME NEW i \in Calls, Listen(i) PROVE Requested'
  BY <1>2, <1>5 DEF Listen
<1>6. CASE ReadLoop \/ ReadLoopEnds \/ Yield \/ CloseClient
  <2>1. \/ call' = call \/ call' = FailPending
        \/ \E i \in Calls : call[i] = "pending" /\ call' = [call EXCEPT ![i] = "answered"]
    <3>1. CASE ReadLoop
      <4>1. Len(down) \in Nat \ {0} /\ Head(down) = down[1]
        BY <3>1, EmptySeq DEF ReadLoop, TypeOK
      <4>2. down[1].type = "answer" => down[1].n \in Calls
        BY <4>1 DEF LinesKnown
      <4> QED
        BY <3>1, <4>1, <4>2 DEF ReadLoop
    <3> QED
      BY <1>6, <3>1 DEF ReadLoopEnds, Yield, CloseClient
  <2>2. \A i \in Calls : call'[i] = "unused" <=> call[i] = "unused"
    BY <2>1 DEF FailPending, TypeOK
  <2> QED
    BY <1>2, <1>6, <2>2 DEF ReadLoop, ReadLoopEnds, Yield, CloseClient
<1>7. ASSUME NEW i \in Calls, Handle(i) \/ Reply(i) PROVE Requested'
  <2>1. /\ \A j \in Calls : task'[j] = "unborn" <=> task[j] = "unborn"
        /\ UNCHANGED <<up, serving, hand, call>>
    BY <1>7 DEF Handle, Reply, TypeOK
  <2>2. serving = "waiting" => hand \in Calls
    BY DEF TypeOK
  <2> QED
    BY <1>1, <2>1, <2>2 DEF Requested
<1>8. CASE ReadLine
  <2>1. /\ Head(up) = up[1] /\ 1 \in 1 .. Len(up) /\ Len(up') = Len(up) - 1
        /\ \A a \in 1 .. Len(up') : up'[a] = up[a + 1] /\ a + 1 \in 1 .. Len(up) /\ a + 1 # 1
    <3>1. /\ Len(up) \in Nat \ {0} /\ Len(Tail(up)) = Len(up) - 1
          /\ \A a \in 1 .. Len(Tail(up)) : Tail(up)[a] = up[a + 1]
      BY <1>8, HeadTailProperties, EmptySeq DEF ReadLine, TypeOK
    <3> QED
      BY <1>8, <3>1 DEF ReadLine
  <2>2. /\ \A a, b \in 1 .. Len(up') : a # b => up'[a] # up'[b]
        /\ \A a \in 1 .. Len(up') : /\ call[up'[a]] # "unused" /\ task[up'[a]] = "unborn"
                                    /\ up'[a] # up[1] /\ up'[a] \in Calls
        /\ call[up[1]] # "unused" /\ task[up[1]] = "unborn" /\ up[1] \in Calls
    BY <1>1, <2>1 DEF Requested
  <2>3. CASE Spawn(up[1]) /\ UNCHANGED <<serving, hand, call>>
    BY <1>8, <2>2, <2>3 DEF ReadLine, Spawn, Requested, TypeOK
  <2>4. CASE serving' = "waiting" /\ hand' = up[1] /\ UNCHANGED <<task, call>>
    BY <2>2, <2>4 DEF Requested
  <2> QED
    BY <1>8, <2>1, <2>3, <2>4 DEF ReadLine
<1>9. CASE TakeSlot
  <2>1. /\ hand \in Calls /\ call[hand] # "unused"
        /\ \A a \in 1 .. Len(up) : up[a] # hand
    BY <1>9 DEF TakeSlot, Requested, TypeOK
  <2>2. /\ \A j \in Calls : task'[j] = IF j = hand THEN "handling" ELSE task[j]
        /\ UNCHANGED <<up, call>> /\ serving' = "reading"
    BY <1>9 DEF TakeSlot, Spawn, TypeOK
  <2> QED
    BY <1>1, <2>1, <2>2 DEF Requested
<1>10. CASE ReadEnds
  BY <1>10 DEF ReadEnds, Requested
<1>11. CASE Leave \/ Stop
  <2>1. /\ \A j \in Calls : task'[j] = "unborn" <=> task[j] = "unborn"
        /\ UNCHANGED <<up, hand, call>> /\ (serving' = "waiting" => serving = "waiting")
    BY <1>11 DEF Leave, Stop, Close, CancelTasks, InFlight, TypeOK
  <2>2. serving = "waiting" => hand \in Calls
    BY DEF TypeOK
  <2> QED
    BY <1>1, <2>1, <2>2 DEF Requested
<1>12. CASE Bus
  BY <1>2, <1>12 DEF Bus, Publish, PumpTakes, PumpSends
<1>13. CASE UNCHANGED vars
  BY <1>2, <1>13 DEF vars
<1> QED
  BY <1>3, <1>4, <1>5, <1>6, <1>7, <1>8, <1>9, <1>10, <1>11, <1>12, <1>13
     DEF Next, Client, Server, Finished

LEMMA LinesStep ==
    ASSUME TypeOK, LinesKnown, [Next]_vars
    PROVE  LinesKnown'
<1> USE DEF clientVars, serverVars, busVars
<1>1. ASSUME NEW line \in Lines, down' = Append(down, line),
             line.type = "answer" => line.n \in Calls,
             line.type = "event" => line.n \in 1 .. Published
      PROVE  LinesKnown'
  <2>1. /\ Len(down) \in Nat /\ Len(down') = Len(down) + 1 /\ down'[Len(down) + 1] = line
        /\ \A k \in 1 .. Len(down) : down'[k] = down[k]
    BY <1>1, AppendProperties, LenProperties DEF TypeOK
  <2>2. \A k \in 1 .. Len(down') : k \in 1 .. Len(down) \/ k = Len(down) + 1
    BY <2>1
  <2> QED
    BY <1>1, <2>1, <2>2 DEF LinesKnown
<1>2. CASE down' = down
  BY <1>2 DEF LinesKnown
<1>3. CASE ReadLoop
  <2>1. /\ Len(down) \in Nat \ {0} /\ Len(down') = Len(down) - 1
        /\ \A k \in 1 .. Len(down') : down'[k] = down[k + 1]
    BY <1>3, HeadTailProperties, EmptySeq DEF ReadLoop, TypeOK
  <2>2. \A k \in 1 .. Len(down') : k + 1 \in 1 .. Len(down)
    BY <2>1
  <2> QED
    BY <2>1, <2>2 DEF LinesKnown
<1>4. ASSUME NEW i \in Calls, Reply(i) PROVE LinesKnown'
  <2>1. ASSUME NEW line \in {Answer(i), Oversize}, Send(line) PROVE LinesKnown'
    <3>1. line \in Lines
      BY <2>1, EventTyped
    <3>2. line.type = "answer" => line.n \in Calls
      BY <2>1 DEF Answer, Oversize
    <3>3. line.type # "event"
      BY <2>1 DEF Answer, Oversize
    <3> QED
      BY <1>1, <1>2, <2>1, <3>1, <3>2, <3>3 DEF Send
  <2> QED
    BY <1>4, <2>1 DEF Reply
<1>5. CASE PumpSends
  <2>1. pumped \in 1 .. Published /\ Send(Event(pumped))
    BY <1>5, ConstantFacts DEF PumpSends, TypeOK
  <2>2. /\ Event(pumped) \in Lines /\ Event(pumped).type = "event" /\ Event(pumped).n = pumped
    BY <2>1, EventTyped DEF Event
  <2> QED
    BY <1>1, <1>2, <2>1, <2>2 DEF Send
<1>6. CASE UNCHANGED vars
  BY <1>2, <1>6 DEF vars
<1>7. ASSUME NEW i \in Calls, Call(i) \/ TimeOut(i) \/ Listen(i) \/ Handle(i) PROVE LinesKnown'
  BY <1>2, <1>7 DEF Call, TimeOut, Listen, Handle
<1>8. CASE ReadLoopEnds \/ Yield \/ CloseClient \/ ReadLine \/ TakeSlot \/ ReadEnds \/ Leave \/ Stop
           \/ Publish \/ PumpTakes
  BY <1>2, <1>8 DEF ReadLoopEnds, Yield, CloseClient, ReadLine, TakeSlot, ReadEnds, Leave, Stop,
     Publish, PumpTakes
<1> QED
  BY <1>3, <1>4, <1>5, <1>6, <1>7, <1>8 DEF Next, Client, Server, Bus, Finished

LEMMA SubStep ==
    ASSUME TypeOK, SubHolds, [Next]_vars
    PROVE  SubHolds'
<1> USE DEF clientVars, serverVars, busVars
<1>1. CASE UNCHANGED busVars
  BY <1>1 DEF SubHolds
<1>2. ASSUME NEW i \in Calls, Handle(i) PROVE SubHolds'
  BY <1>2 DEF Handle, SubHolds
<1>3. CASE Leave \/ Stop
  BY <1>3 DEF Leave, Stop, Close, SubHolds
<1>4. CASE Publish \/ PumpTakes
  BY <1>4 DEF Publish, PumpTakes, SubHolds
<1>5. CASE PumpSends
  BY <1>5 DEF PumpSends, SubHolds
<1>6. CASE Client
  BY <1>1, <1>6 DEF Client, Call, TimeOut, Listen, ReadLoop, ReadLoopEnds, Yield, CloseClient
<1>7. ASSUME NEW i \in Calls, Reply(i) PROVE SubHolds'
  BY <1>1, <1>7 DEF Reply
<1>8. CASE ReadLine \/ TakeSlot \/ ReadEnds
  BY <1>1, <1>8 DEF ReadLine, TakeSlot, ReadEnds
<1>9. CASE UNCHANGED vars
  BY <1>1, <1>9 DEF vars
<1> QED
  BY <1>2, <1>3, <1>4, <1>5, <1>6, <1>7, <1>8, <1>9 DEF Next, Server, Bus, Finished

LEMMA OverStep ==
    ASSUME TypeOK, SubHolds, NothingOutlives, [Next]_vars
    PROVE  NothingOutlives'
<1> USE DEF clientVars, serverVars, busVars
<1>1. CASE UNCHANGED <<serving, task, sub, queue>>
  BY <1>1 DEF NothingOutlives, InFlight
<1>2. ASSUME NEW i \in Calls, Handle(i) \/ Reply(i) PROVE NothingOutlives'
  <2>1. i \in InFlight /\ serving' = serving
    BY <1>2 DEF Handle, Reply, InFlight
  <2> QED
    BY <2>1 DEF NothingOutlives
<1>3. CASE Leave \/ Stop
  BY <1>3, CloseTyped DEF Leave, Stop, NothingOutlives
<1>4. CASE ReadLine \/ TakeSlot \/ ReadEnds
  BY <1>4 DEF ReadLine, TakeSlot, ReadEnds, NothingOutlives
<1>5. CASE Publish \/ PumpTakes \/ PumpSends
  BY <1>5 DEF Publish, PumpTakes, PumpSends, SubHolds, NothingOutlives, InFlight
<1>6. CASE Client
  BY <1>1, <1>6 DEF Client, Call, TimeOut, Listen, ReadLoop, ReadLoopEnds, Yield, CloseClient
<1>7. CASE UNCHANGED vars
  BY <1>1, <1>7 DEF vars
<1> QED
  BY <1>2, <1>3, <1>4, <1>5, <1>6, <1>7 DEF Next, Server, Bus, Finished

--------------------------------------------------------------------------------
(* The accounts.                                                           *)

LEMMA CountsTyped ==
    ASSUME TypeOK
    PROVE  /\ Cardinality(OnTheWire) \in Nat /\ Len(InHand) \in Nat
           /\ dropped \in Nat /\ arrived \in Nat /\ Len(queue) \in Nat
           /\ since \in Nat /\ clock \in Nat /\ Known \in Nat
<1>1. OnTheWire = EventsOf(down) /\ down \in Seq(Lines)
  BY DEF OnTheWire, EventsOf, TypeOK
<1>2. Cardinality(OnTheWire) \in Nat
  BY <1>1, EventsOfFinite
<1>3. Len(InHand) \in Nat
  BY DEF InHand
<1>4. dropped \in Nat /\ arrived \in Nat /\ since \in Nat /\ clock \in Nat
  BY ConstantFacts DEF TypeOK
<1>5. Len(queue) \in Nat
  BY LenProperties DEF TypeOK
<1> QED
  BY <1>1, <1>2, <1>3, <1>4, <1>5 DEF Known

(* No request goes back to where it was before its method ran.             *)
Ripening ==
    \A i \in Calls : task'[i] \in {"unborn", "handling"} => task[i] \in {"unborn", "handling"}

(* Accounts that know of as many events as before.                         *)
LEMMA SameKnown ==
    ASSUME Accounts, Known' = Known, since' = since, clock' = clock,
           sub' = "open" => sub = "open", shut => shut', Ripening
    PROVE  Accounts'
  BY DEF Accounts, Ripening

(* What is left of the accounts when the subscription ends, or a line is   *)
(* lost.                                                                   *)
LEMMA FewerKnown ==
    ASSUME TypeOK, Accounts,
           dropped' = dropped, arrived' = arrived, since' = since, clock' = clock,
           OnTheWire' = OnTheWire,
           queue' = queue \/ queue' = <<>>, pumped' = pumped \/ pumped' = 0,
           sub' # "open" \/ shut',
           sub' = "open" => sub = "open", Ripening
    PROVE  Accounts'
<1>1. Len(queue') \in {0, Len(queue)}
  <2>1. Len(<<>>) = 0
    OBVIOUS
  <2> QED
    BY <2>1
<1>2. Len(InHand') \in {0, Len(InHand)}
  BY DEF InHand
<1>3. Known' <= Known /\ Known' \in Nat
  <2>1. Cardinality(OnTheWire') = Cardinality(OnTheWire)
    OBVIOUS
  <2>2. /\ Cardinality(OnTheWire) \in Nat /\ Len(InHand) \in Nat
        /\ dropped \in Nat /\ arrived \in Nat /\ Len(queue) \in Nat
    BY CountsTyped
  <2> QED
    BY <1>1, <1>2, <2>1, <2>2 DEF Known
<1>4. since' + Known' <= clock'
  <2>1. since + Known <= clock
    BY DEF Accounts
  <2> QED
    BY <1>3, <2>1, CountsTyped
<1>5. \A i \in Calls : Kind[i] = "subscribe" /\ task'[i] \in {"unborn", "handling"} =>
         Known' = 0 /\ sub' # "open"
  <2>1. Known = 0 => Known' = 0
    BY <1>3
  <2> QED
    BY <2>1 DEF Accounts, Ripening
<1> QED
  BY <1>4, <1>5 DEF Accounts

LEMMA CountsStep ==
    ASSUME TypeOK, [Next]_vars
    PROVE  arrived' \in Nat /\ dropped' \in Nat
<1> USE DEF clientVars, serverVars, busVars
<1>1. arrived' = arrived \/ arrived' = arrived + 1
  BY DEF Next, Client, Server, Bus, Finished, vars, Call, TimeOut, Listen, ReadLoop, ReadLoopEnds,
     Yield, CloseClient, DeliverEvent, Handle, Reply, ReadLine, TakeSlot, ReadEnds, Leave, Stop,
     Publish, PumpTakes, PumpSends
<1>2. dropped' = dropped \/ dropped' = dropped + 1
  BY DEF Next, Client, Server, Bus, Finished, vars, Call, TimeOut, Listen, ReadLoop, ReadLoopEnds,
     Yield, CloseClient, Handle, Reply, ReadLine, TakeSlot, ReadEnds, Leave, Stop,
     Publish, Offer, PumpTakes, PumpSends
<1> QED
  BY <1>1, <1>2, CountsTyped

LEMMA AccountsStep ==
    ASSUME TypeOK, LinesKnown, Requested, SubHolds, Accounts, [Next]_vars
    PROVE  Accounts'
<1> USE DEF clientVars, serverVars, busVars
<1>2. CASE UNCHANGED <<dropped, arrived, down, pumped, queue, since, clock, sub, shut>>  /\ Ripening
  <2>1. Known' = Known
    BY <1>2 DEF Known, OnTheWire, InHand
  <2> QED
    BY <1>2, <2>1, SameKnown
<1>3. ASSUME NEW i \in Calls, Call(i) \/ TimeOut(i) \/ Listen(i) PROVE Accounts'
  BY <1>2, <1>3 DEF Call, TimeOut, Listen, Ripening
<1>4. CASE ReadLoopEnds \/ Yield \/ CloseClient \/ UNCHANGED vars
  BY <1>2, <1>4 DEF ReadLoopEnds, Yield, CloseClient, vars, Ripening
<1>5. CASE ReadLoop
  <2>1. /\ down' = Tail(down) /\ down # <<>> /\ Head(down) = down[1]
        /\ UNCHANGED <<dropped, pumped, queue, since, clock, sub, shut, task>>
    BY <1>5 DEF ReadLoop
  <2>2. Cardinality(OnTheWire') =
          Cardinality(OnTheWire) - (IF down[1].type = "event" THEN 1 ELSE 0)
    <3>1. down \in Seq(Lines)
      BY DEF TypeOK
    <3> QED
      BY <2>1, <3>1, EventsOfTail DEF OnTheWire, EventsOf
  <2>3. arrived' = arrived + (IF down[1].type = "event" THEN 1 ELSE 0)
    <3>1. arrived' = IF down[1].type = "event" THEN arrived + 1 ELSE arrived
      BY <1>5, <2>1 DEF ReadLoop, DeliverEvent
    <3> QED
      BY <3>1, CountsTyped
  <2>4. Len(InHand') = Len(InHand)
    BY <2>1 DEF InHand
  <2>5. Known' = Known
    BY <2>1, <2>2, <2>3, <2>4, CountsTyped DEF Known
  <2> QED
    BY <2>1, <2>5, SameKnown DEF Ripening
<1>6. ASSUME NEW i \in Calls, Handle(i) PROVE Accounts'
  <2>1. UNCHANGED <<dropped, arrived, down, clock, shut, OnTheWire>>
    BY <1>6 DEF Handle, OnTheWire
  <2>2. Ripening
    BY <1>6 DEF Handle, TypeOK, Ripening
  <2>3. CASE Kind[i] = "subscribe" /\ sub' = "open" /\ since' = clock /\ UNCHANGED <<queue, pumped>>
    <3>1. Known = 0
      BY <1>6, <2>3 DEF Handle, Accounts
    <3>2. Known' = 0
      BY <2>1, <2>3, <3>1 DEF Known, InHand
    <3>3. \A j \in Calls : Kind[j] = "subscribe" => task'[j] = "answering"
      BY <1>6, <2>3, OneSubscription DEF Handle, TypeOK
    <3>4. since' + Known' = clock'
      BY <2>1, <2>3, <3>2, CountsTyped
    <3> QED
      BY <2>1, <3>3, <3>4, CountsTyped DEF Accounts
  <2>4. CASE Kind[i] = "unsubscribe" /\ since' = since /\ sub' = "closed" /\ queue' = <<>> /\ pumped' = 0
    BY <2>1, <2>2, <2>4, FewerKnown
  <2>5. CASE UNCHANGED <<sub, queue, pumped, since>>
    BY <1>2, <2>1, <2>2, <2>5
  <2> QED
    BY <1>6, <2>3, <2>4, <2>5 DEF Handle
<1>7. ASSUME NEW i \in Calls, Reply(i) PROVE Accounts'
  <2>1. PICK line \in {Answer(i), Oversize} : Send(line)
    BY <1>7 DEF Reply
  <2>2. line \in Lines /\ line.type # "event"
    BY <2>1, EventTyped DEF Answer, Oversize
  <2>3. Cardinality(OnTheWire') = Cardinality(OnTheWire)
    <3>1. CASE down' = down
      BY <3>1 DEF OnTheWire
    <3>2. CASE down' = Append(down, line)
      <4>1. down \in Seq(Lines)
        BY DEF TypeOK
      <4>2. Cardinality(EventsOf(down')) = Cardinality(EventsOf(down)) + 0
        BY <2>2, <3>2, <4>1, EventsOfAppend
      <4>3. Cardinality(EventsOf(down)) \in Nat
        BY <4>1, EventsOfFinite
      <4> QED
        BY <4>2, <4>3 DEF OnTheWire, EventsOf
    <3> QED
      BY <2>1, <2>2, <3>1, <3>2, SendTyped
  <2>4. shut => shut'
    BY <2>1 DEF Send
  <2>5. /\ UNCHANGED <<dropped, arrived, pumped, queue, since, clock, sub>>
        /\ Ripening
    BY <1>7 DEF Reply, TypeOK, Ripening
  <2>6. Known' = Known
    BY <2>3, <2>5 DEF Known, InHand
  <2> QED
    BY <2>4, <2>5, <2>6, SameKnown
<1>8. CASE ReadLine \/ TakeSlot \/ ReadEnds
  <2>1. Ripening
    <3>1. CASE ReadLine
      <4>1. up # <<>> /\ Len(up) \in Nat \ {0} /\ Head(up) = up[1]
        BY <3>1, EmptySeq DEF ReadLine, TypeOK
      <4>2. task[Head(up)] = "unborn"
        BY <4>1 DEF Requested
      <4> QED
        BY <3>1, <4>2 DEF ReadLine, Spawn, TypeOK, Ripening
    <3>2. CASE TakeSlot
      BY <3>2 DEF TakeSlot, Spawn, Requested, TypeOK, Ripening
    <3> QED
      BY <1>8, <3>1, <3>2 DEF ReadEnds, Ripening
  <2> QED
    BY <1>2, <1>8, <2>1 DEF ReadLine, TakeSlot, ReadEnds
<1>9. CASE Leave \/ Stop
  <2>1. /\ UNCHANGED <<dropped, arrived, since, clock, down>> /\ shut'
        /\ sub' # "open" /\ queue' = <<>> /\ pumped' = 0
        /\ Ripening
    BY <1>9 DEF Leave, Stop, Close, CancelTasks, InFlight, TypeOK, Ripening
  <2>2. OnTheWire' = OnTheWire
    BY <2>1 DEF OnTheWire
  <2> QED
    BY <2>1, <2>2, FewerKnown
<1>10. CASE Publish
  <2>1. /\ clock' = clock + 1 /\ UNCHANGED <<arrived, down, pumped, since, sub, shut, task>>
    BY <1>10 DEF Publish
  <2>2. OnTheWire' = OnTheWire /\ InHand' = InHand
    BY <2>1 DEF OnTheWire, InHand
  <2>3. CASE sub = "open"
    <3>1. \/ dropped' = dropped + 1 /\ Len(queue') = Len(queue)
          \/ dropped' = dropped /\ Len(queue') = Len(queue) + 1
      <4>1. queue \in Seq(1 .. Published) /\ clock' \in 1 .. Published /\ Offer(clock')
        BY <1>10, <2>3, ConstantFacts DEF Publish, TypeOK
      <4>2. CASE Len(queue) = QueueSize
        <5>1. queue # <<>>
          BY <4>2, ConstantFacts
        <5>2. Tail(queue) \in Seq(1 .. Published) /\ Len(Tail(queue)) = Len(queue) - 1
          BY <4>1, <5>1, HeadTailProperties
        <5>3. Len(Append(Tail(queue), clock')) = Len(queue)
          BY <4>1, <5>2, AppendProperties, CountsTyped
        <5>4. queue' = Append(Tail(queue), clock') /\ dropped' = dropped + 1
          BY <4>1, <4>2 DEF Offer
        <5> QED
          BY <5>3, <5>4
      <4>3. CASE Len(queue) # QueueSize
        <5>1. Len(Append(queue, clock')) = Len(queue) + 1
          BY <4>1, AppendProperties
        <5>2. queue' = Append(queue, clock') /\ dropped' = dropped
          BY <4>1, <4>3 DEF Offer
        <5> QED
          BY <5>1, <5>2
      <4> QED
        BY <4>2, <4>3
    <3>3. Known' = Known + 1
      <4>1. Cardinality(OnTheWire') = Cardinality(OnTheWire) /\ Len(InHand') = Len(InHand)
        BY <2>2
      <4>2. /\ Cardinality(OnTheWire) \in Nat /\ Len(InHand) \in Nat
            /\ dropped \in Nat /\ arrived \in Nat /\ Len(queue) \in Nat
        BY CountsTyped
      <4>3. arrived' = arrived
        BY <2>1
      <4> QED
        BY <3>1, <4>1, <4>2, <4>3 DEF Known
    <3>4. since' + Known' <= clock'
      BY <2>1, <3>3, CountsTyped DEF Accounts
    <3>5. ~shut => since' + Known' = clock'
      BY <2>1, <2>3, <3>3, CountsTyped DEF Accounts
    <3>6. \A i \in Calls : ~ (Kind[i] = "subscribe" /\ task'[i] \in {"unborn", "handling"})
      BY <2>1, <2>3 DEF Accounts
    <3> QED
      BY <2>1, <3>4, <3>5, <3>6 DEF Accounts
  <2>4. CASE sub # "open"
    <3>1. UNCHANGED <<queue, dropped>>
      BY <1>10, <2>4 DEF Publish
    <3>2. Known' = Known
      BY <2>1, <2>2, <3>1 DEF Known
    <3>3. since' + Known' <= clock'
      BY <2>1, <3>2, CountsTyped DEF Accounts
    <3>4. \A i \in Calls : Kind[i] = "subscribe" /\ task'[i] \in {"unborn", "handling"} => Known = 0
      BY <2>1 DEF Accounts
    <3> QED
      BY <2>1, <2>4, <3>2, <3>3, <3>4 DEF Accounts
  <2> QED
    BY <2>3, <2>4
<1>11. CASE PumpTakes
  <2>1. /\ UNCHANGED <<arrived, dropped, down, since, clock, sub, shut, task>>
        /\ pumped = 0 /\ queue # <<>> /\ pumped' = Head(queue) /\ queue' = Tail(queue)
    BY <1>11 DEF PumpTakes
  <2>2. queue \in Seq(1 .. Published)
    BY DEF TypeOK
  <2>3. Len(queue') = Len(queue) - 1 /\ pumped' # 0
    BY <2>1, <2>2, HeadTailProperties, ConstantFacts
  <2>4. Len(InHand') = 1 /\ Len(InHand) = 0 /\ OnTheWire' = OnTheWire
    BY <2>1, <2>3 DEF InHand, OnTheWire
  <2>5. Known' = Known
    BY <2>1, <2>3, <2>4, CountsTyped DEF Known
  <2> QED
    BY <2>1, <2>5, SameKnown DEF Ripening
<1>12. CASE PumpSends
  <2>1. /\ UNCHANGED <<arrived, dropped, since, clock, task>>
        /\ pumped # 0 /\ pumped' = 0 /\ Send(Event(pumped))
        /\ sub' = (IF shut THEN "closed" ELSE sub)
        /\ queue' = IF shut THEN <<>> ELSE queue
    BY <1>12 DEF PumpSends
  <2>2. Event(pumped) \in Lines /\ Event(pumped).type = "event"
    BY <2>1, EventTyped, ConstantFacts DEF Event, TypeOK
  <2>3. CASE down' = Append(down, Event(pumped)) /\ ~shut /\ shut' = shut
    <3>1. Cardinality(OnTheWire') = Cardinality(OnTheWire) + 1
      <4>1. down \in Seq(Lines)
        BY DEF TypeOK
      <4>2. Cardinality(EventsOf(down')) = Cardinality(EventsOf(down)) + 1
        BY <2>2, <2>3, <4>1, EventsOfAppend
      <4> QED
        BY <4>2 DEF OnTheWire, EventsOf
    <3>2. Len(InHand') = 0 /\ Len(InHand) = 1
      BY <2>1 DEF InHand
    <3>3. queue' = queue /\ sub' = sub
      BY <2>1, <2>3
    <3>4. Known' = Known
      BY <2>1, <3>1, <3>2, <3>3, CountsTyped DEF Known
    <3> QED
      BY <2>1, <2>3, <3>3, <3>4, SameKnown DEF Ripening
  <2>4. CASE down' = down /\ (shut \/ shut')
    <3>1. OnTheWire' = OnTheWire
      BY <2>4 DEF OnTheWire
    <3>2. queue' = queue \/ queue' = <<>>
      BY <2>1
    <3>3. (sub' # "open" \/ shut') /\ (sub' = "open" => sub = "open")
      BY <2>1, <2>4
    <3> QED
      BY <2>1, <3>1, <3>2, <3>3, FewerKnown DEF Ripening
  <2> QED
    BY <2>1, <2>2, <2>3, <2>4, SendTyped
<1> QED
  BY <1>3, <1>4, <1>5, <1>6, <1>7, <1>8, <1>9, <1>10, <1>11, <1>12
     DEF Next, Client, Server, Bus, Finished

--------------------------------------------------------------------------------
(* The order.                                                              *)

LEMMA WireAppend ==
    ASSUME TypeOK, NEW line \in Lines, down' = Append(down, line), WireRises,
           line.type = "event" => Below(WireEvents, {line.n})
    PROVE  /\ WireRises'
           /\ WireEvents' = WireEvents \cup (IF line.type = "event" THEN {line.n} ELSE {})
<1>1. /\ Len(down) \in Nat /\ down \in Seq(Lines) /\ DOMAIN down = 1 .. Len(down)
      /\ \A k \in 1 .. Len(down) : down'[k] = down[k]
      /\ down'[Len(down) + 1] = line
  BY AppendProperties, LenProperties DEF TypeOK
<1>2. OnTheWire' = OnTheWire \cup (IF line.type = "event" THEN {Len(down) + 1} ELSE {})
  BY <1>1, EventsOfAppend DEF OnTheWire, EventsOf
<1>3. OnTheWire \subseteq 1 .. Len(down)
  BY <1>1 DEF OnTheWire
<1>4. WireEvents' = WireEvents \cup (IF line.type = "event" THEN {line.n} ELSE {})
  BY <1>1, <1>2, <1>3 DEF WireEvents
<1>5. ASSUME NEW a \in OnTheWire', NEW b \in OnTheWire', a < b PROVE down'[a].n < down'[b].n
  <2>1. a \in OnTheWire /\ a \in 1 .. Len(down)
    BY <1>1, <1>2, <1>3, <1>5
  <2>2. CASE b \in OnTheWire
    BY <1>1, <1>3, <1>5, <2>1, <2>2 DEF WireRises
  <2>3. CASE b \notin OnTheWire
    <3>1. line.type = "event" /\ b = Len(down) + 1
      BY <1>2, <2>3
    <3>2. down[a].n < line.n
      BY <2>1, <3>1 DEF WireEvents, Below
    <3> QED
      BY <1>1, <2>1, <3>1, <3>2
  <2> QED
    BY <2>2, <2>3
<1> QED
  BY <1>4, <1>5 DEF WireRises

LEMMA WireTail ==
    ASSUME TypeOK, down # <<>>, down' = Tail(down), WireRises
    PROVE  /\ WireRises' /\ WireEvents' \subseteq WireEvents
           /\ down[1].type = "event" =>
                 down[1].n \in WireEvents /\ Below({down[1].n}, WireEvents')
<1>1. /\ Len(down) \in Nat \ {0} /\ down \in Seq(Lines) /\ DOMAIN down = 1 .. Len(down)
      /\ \A k \in 1 .. Len(down) - 1 : down'[k] = down[k + 1]
  BY HeadTailProperties, EmptySeq, LenProperties DEF TypeOK
<1>2. OnTheWire' = {k \in 1 .. Len(down) - 1 : k + 1 \in OnTheWire}
  BY <1>1, EventsOfTail DEF OnTheWire, EventsOf
<1>3. WireRises'
  BY <1>1, <1>2 DEF WireRises
<1>4. WireEvents' \subseteq WireEvents
  BY <1>1, <1>2 DEF WireEvents
<1>5. ASSUME down[1].type = "event"
      PROVE  down[1].n \in WireEvents /\ Below({down[1].n}, WireEvents')
  <2>1. 1 \in OnTheWire
    BY <1>1, <1>5 DEF OnTheWire
  <2>2. \A k \in OnTheWire' : down'[k].n = down[k + 1].n /\ k + 1 \in OnTheWire /\ 1 < k + 1
    BY <1>1, <1>2
  <2> QED
    BY <2>1, <2>2 DEF WireRises, WireEvents, Below
<1> QED
  BY <1>3, <1>4, <1>5

(* How the chain moves.                                                    *)
LEMMA ChainMoves ==
    ASSUME NEW last, NEW I, NEW W, NEW H, NEW Q, NEW newest, Chain(last, I, W, H, Q, newest)
    PROVE  /\ \A I2 \in SUBSET I, W2 \in SUBSET W, H2 \in SUBSET H, Q2 \in SUBSET Q :
                 Chain(last, I2, W2, H2, Q2, newest)
           /\ \A e \in W : \A W2 \in SUBSET W : Below({e}, W2) =>
                 Chain(last, I \cup {e}, W2, H, Q, newest)
           /\ \A e \in I : \A I2 \in SUBSET I : Below({e}, I2) => Chain(e, I2, W, H, Q, newest)
           /\ \A e \in Q : \A Q2 \in SUBSET Q : H = {} /\ Below({e}, Q2) =>
                 Chain(last, I, W, {e}, Q2, newest)
           /\ Chain(last, I, W \cup H, {}, Q, newest)
  BY DEF Chain, Below

LEMMA ChainGrows ==
    ASSUME NEW last \in Nat, NEW I \in SUBSET Nat, NEW W \in SUBSET Nat, NEW H \in SUBSET Nat,
           NEW Q \in SUBSET Nat, NEW newest \in Nat, Chain(last, I, W, H, Q, newest)
    PROVE  Chain(last, I, W, H, Q \cup {newest + 1}, newest + 1)
  BY DEF Chain, Below

LEMMA StagesTyped ==
    ASSUME TypeOK, LinesKnown
    PROVE  /\ inbox \in Seq(Nat) /\ queue \in Seq(Nat) /\ seen \in Nat /\ clock \in Nat
           /\ Rng(inbox) \subseteq Nat /\ Rng(queue) \subseteq Nat
           /\ WireEvents \subseteq Nat /\ HandEvents \subseteq Nat
<1>1. inbox \in Seq(1 .. Published) /\ queue \in Seq(1 .. Published)
  BY DEF TypeOK
<1>2. 1 .. Published \subseteq Nat
  BY ConstantFacts
<1>3. inbox \in Seq(Nat) /\ queue \in Seq(Nat)
  BY <1>1, <1>2, SeqMonotonic
<1>4. Rng(inbox) \subseteq Nat /\ Rng(queue) \subseteq Nat
  BY <1>1, <1>2, ElementOfSeq DEF Rng
<1>5. seen \in Nat /\ clock \in Nat /\ HandEvents \subseteq Nat
  BY ConstantFacts DEF TypeOK, HandEvents
<1>6. WireEvents \subseteq Nat
  <2>1. OnTheWire \subseteq 1 .. Len(down)
    BY LenProperties DEF TypeOK, OnTheWire
  <2> QED
    BY <1>2, <2>1 DEF WireEvents, LinesKnown, OnTheWire
<1> QED
  BY <1>1, <1>3, <1>4, <1>5, <1>6

LEMMA NewestStep ==
    ASSUME TypeOK, SubHolds, Accounts, NewestIsLast, [Next]_vars
    PROVE  NewestIsLast'
<1> USE DEF clientVars, serverVars, busVars
<1>1. CASE UNCHANGED <<sub, queue, clock>>
  BY <1>1 DEF NewestIsLast
<1>2. CASE queue' = <<>>
  BY <1>2 DEF NewestIsLast
<1>3. CASE sub' # "open"
  BY <1>3 DEF NewestIsLast
<1>4. queue \in Seq(1 .. Published) /\ Len(queue) \in Nat
  BY LenProperties DEF TypeOK
<1>5. CASE PumpTakes
  <2>1. queue # <<>> /\ queue' = Tail(queue) /\ sub' = sub /\ sub = "open" /\ clock' = clock
    BY <1>5 DEF PumpTakes
  <2>2. /\ Len(queue') = Len(queue) - 1
        /\ \A k \in 1 .. Len(queue') : queue'[k] = queue[k + 1]
    BY <1>4, <2>1, HeadTailProperties
  <2>3. ASSUME queue' # <<>> PROVE queue'[Len(queue')] = clock
    <3>1. queue' \in Seq(1 .. Published)
      BY <1>4, <2>1, HeadTailProperties
    <3>2. Len(queue') \in 1 .. Len(queue')
      BY <2>3, <3>1, EmptySeq, LenProperties
    <3>3. queue'[Len(queue')] = queue[Len(queue)]
      BY <1>4, <2>2, <3>2
    <3> QED
      BY <2>1, <3>3 DEF NewestIsLast
  <2> QED
    BY <2>1, <2>3 DEF NewestIsLast
<1>6. CASE Publish
  <2>1. ASSUME sub = "open" PROVE queue'[Len(queue')] = clock'
    <3>1. queue' = Append(Tail(queue), clock') \/ queue' = Append(queue, clock')
      BY <1>6, <2>1 DEF Publish, Offer
    <3>2. ASSUME NEW s \in Seq(1 .. Published), queue' = Append(s, clock')
          PROVE  queue'[Len(queue')] = clock'
      <4>1. clock' \in 1 .. Published
        BY <1>6, ConstantFacts DEF Publish, TypeOK
      <4> QED
        BY <3>2, <4>1, AppendProperties
    <3>3. queue = <<>> => queue' = Append(queue, clock')
      <4>1. Len(<<>>) = 0
        OBVIOUS
      <4>2. queue = <<>> => Len(queue) # QueueSize
        BY <4>1, ConstantFacts
      <4> QED
        BY <1>6, <2>1, <4>2 DEF Publish, Offer
    <3>4. queue # <<>> => Tail(queue) \in Seq(1 .. Published)
      BY <1>4, HeadTailProperties
    <3> QED
      BY <1>4, <3>1, <3>2, <3>3, <3>4
  <2>2. sub' = sub
    BY <1>6 DEF Publish
  <2> QED
    BY <1>3, <2>1, <2>2 DEF NewestIsLast
<1>7. CASE PumpSends
  BY <1>7, <1>1, <1>2 DEF PumpSends
<1>8. ASSUME NEW i \in Calls, Handle(i) PROVE NewestIsLast'
  <2>1. CASE Kind[i] = "subscribe" /\ UNCHANGED queue
    <3>1. sub # "open"
      BY <1>8, <2>1 DEF Handle, Accounts
    <3> QED
      BY <1>2, <2>1, <3>1 DEF SubHolds
  <2> QED
    BY <1>1, <1>2, <1>8, <2>1 DEF Handle
<1>9. CASE Leave \/ Stop
  BY <1>2, <1>9 DEF Leave, Stop, Close
<1>10. CASE Client \/ ReadLine \/ TakeSlot \/ ReadEnds \/ UNCHANGED vars
  BY <1>1, <1>10 DEF Client, Call, TimeOut, Listen, ReadLoop, ReadLoopEnds, Yield, CloseClient,
     ReadLine, TakeSlot, ReadEnds, vars
<1>11. ASSUME NEW i \in Calls, Reply(i) PROVE NewestIsLast'
  BY <1>1, <1>11 DEF Reply
<1> QED
  BY <1>5, <1>6, <1>7, <1>8, <1>9, <1>10, <1>11 DEF Next, Server, Bus, Finished

(* An event joins the end of a queue, which may give up its oldest.        *)
LEMMA Joins ==
    ASSUME NEW s \in Seq(Nat), NEW e \in Nat, Rising(s), Below(Rng(s), {e}),
           NEW t, t = Append(s, e) \/ (s # <<>> /\ t = Append(Tail(s), e))
    PROVE  Rising(t) /\ Rng(t) \subseteq Rng(s) \cup {e}
<1>1. CASE t = Append(s, e)
  BY <1>1, RisingAppend
<1>2. CASE s # <<>> /\ t = Append(Tail(s), e)
  <2>1. Tail(s) \in Seq(Nat) /\ Rising(Tail(s)) /\ Rng(Tail(s)) \subseteq Rng(s)
    BY <1>2, HeadTailProperties, RisingTail
  <2>2. Below(Rng(Tail(s)), {e})
    BY <2>1 DEF Below
  <2> QED
    BY <1>2, <2>1, <2>2, RisingAppend
<1> QED
  BY <1>1, <1>2

LEMMA InOrderStep ==
    ASSUME TypeOK, LinesKnown, SubHolds, Accounts, InOrder, [Next]_vars
    PROVE  InOrder'
<1> USE DEF clientVars, serverVars, busVars
<1>1. NewestIsLast'
  BY NewestStep DEF InOrder
<1>2. /\ Rising(inbox) /\ WireRises /\ Rising(queue)
      /\ Chain(seen, Rng(inbox), WireEvents, HandEvents, Rng(queue), clock)
  BY DEF InOrder
\* Steps that only take events away.
<1>3. ASSUME inbox' = inbox \/ inbox' = <<>>, down' = down, pumped' = pumped \/ pumped' = 0,
             queue' = queue \/ queue' = <<>>, seen' = seen, clock' = clock
      PROVE  InOrder'
  <2>1. Rising(inbox') /\ Rng(inbox') \subseteq Rng(inbox)
    BY <1>2, <1>3, EmptyRises
  <2>2. Rising(queue') /\ Rng(queue') \subseteq Rng(queue)
    BY <1>2, <1>3, EmptyRises
  <2>3. HandEvents' \subseteq HandEvents
    BY <1>3 DEF HandEvents
  <2>4. WireEvents' = WireEvents /\ WireRises'
    BY <1>2, <1>3 DEF WireEvents, WireRises, OnTheWire
  <2>5. Chain(seen, Rng(inbox'), WireEvents, HandEvents', Rng(queue'), clock)
    BY <1>2, <2>1, <2>2, <2>3, ChainMoves
  <2> QED
    BY <1>1, <1>3, <2>1, <2>2, <2>4, <2>5 DEF InOrder, Rising, Rng
<1>4. ASSUME NEW i \in Calls, Call(i) \/ TimeOut(i) \/ Listen(i) \/ Handle(i) PROVE InOrder'
  BY <1>3, <1>4 DEF Call, TimeOut, Listen, Handle
<1>5. CASE ReadLoopEnds \/ CloseClient \/ ReadLine \/ TakeSlot \/ ReadEnds \/ UNCHANGED vars
  BY <1>3, <1>5 DEF ReadLoopEnds, CloseClient, ReadLine, TakeSlot, ReadEnds, vars
<1>6. CASE Leave \/ Stop
  BY <1>3, <1>6 DEF Leave, Stop, Close
<1>7. CASE ReadLoop
  <2>1. /\ down # <<>> /\ down' = Tail(down) /\ Head(down) = down[1]
        /\ UNCHANGED <<seen, pumped, queue, clock>>
    BY <1>7 DEF ReadLoop
  <2>2. /\ WireRises' /\ WireEvents' \subseteq WireEvents
        /\ down[1].type = "event" =>
              down[1].n \in WireEvents /\ Below({down[1].n}, WireEvents')
    BY <1>2, <2>1, WireTail
  <2>3. HandEvents' = HandEvents
    BY <2>1 DEF HandEvents
  <2>4. CASE down[1].type # "event" \/ ~listening
    <3>1. inbox' = inbox
      BY <1>7, <2>1, <2>4 DEF ReadLoop, DeliverEvent
    <3>2. Chain(seen, Rng(inbox), WireEvents', HandEvents, Rng(queue), clock)
      BY <1>2, <2>2, ChainMoves
    <3> QED
      BY <1>1, <1>2, <2>1, <2>2, <2>3, <3>1, <3>2 DEF InOrder
  <2>5. CASE down[1].type = "event" /\ listening
    <3> DEFINE e == down[1].n
    <3>1. inbox' = Append(inbox, e) \/ (inbox # <<>> /\ inbox' = Append(Tail(inbox), e))
      <4>1. DeliverEvent(e)
        BY <1>7, <2>1, <2>5 DEF ReadLoop
      <4>2. Len(<<>>) # InboxSize
        <5>1. Len(<<>>) = 0
          OBVIOUS
        <5> QED
          BY <5>1, ConstantFacts
      <4> QED
        BY <2>5, <4>1, <4>2 DEF DeliverEvent
    <3>2. e \in WireEvents /\ e \in Nat /\ Below({e}, WireEvents')
      BY <2>2, <2>5, StagesTyped
    <3>3. Below(Rng(inbox), {e})
      BY <1>2, <3>2 DEF Chain, Below
    <3> HIDE DEF e
    <3>4. Rising(inbox') /\ Rng(inbox') \subseteq Rng(inbox) \cup {e}
      BY <1>2, <3>1, <3>2, <3>3, StagesTyped, Joins
    <3>5. Chain(seen, Rng(inbox) \cup {e}, WireEvents', HandEvents, Rng(queue), clock)
      BY <1>2, <2>2, <3>2, ChainMoves
    <3>6. Chain(seen, Rng(inbox'), WireEvents', HandEvents, Rng(queue), clock)
      BY <3>4, <3>5, ChainMoves
    <3> QED
      BY <1>1, <1>2, <2>1, <2>2, <2>3, <3>4, <3>6 DEF InOrder, Rising, Rng
  <2> QED
    BY <2>4, <2>5
<1>8. CASE Yield
  <2>1. /\ inbox # <<>> /\ inbox' = Tail(inbox) /\ seen' = Head(inbox)
        /\ UNCHANGED <<down, pumped, queue, clock>>
    BY <1>8 DEF Yield
  <2>2. /\ Rising(inbox') /\ Rng(inbox') \subseteq Rng(inbox)
        /\ seen' \in Rng(inbox) /\ Below({seen'}, Rng(inbox'))
    BY <1>2, <2>1, StagesTyped, RisingTail
  <2>3. WireEvents' = WireEvents /\ WireRises' /\ HandEvents' = HandEvents
    BY <1>2, <2>1 DEF WireEvents, WireRises, OnTheWire, HandEvents
  <2>4. Chain(seen', Rng(inbox'), WireEvents, HandEvents, Rng(queue), clock)
    BY <1>2, <2>2, ChainMoves
  <2> QED
    BY <1>1, <1>2, <2>1, <2>2, <2>3, <2>4 DEF InOrder, Rising, Rng
<1>9. ASSUME NEW line \in Lines, Send(line),
             inbox' = inbox, seen' = seen, clock' = clock,
             \/ line.type # "event" /\ pumped' = pumped /\ queue' = queue
             \/ /\ line.type = "event" /\ line.n = pumped /\ pumped # 0 /\ pumped' = 0
                /\ queue' = queue \/ queue' = <<>>
      PROVE  InOrder'
  <2>1. CASE down' = down
    BY <1>3, <1>9, <2>1
  <2>2. CASE down' = Append(down, line)
    <3>1. line.type = "event" => HandEvents = {line.n} /\ HandEvents' = {}
      BY <1>9 DEF HandEvents
    <3>2. line.type = "event" => Below(WireEvents, {line.n})
      BY <1>2, <3>1 DEF Chain, Below
    <3>3. /\ WireRises'
          /\ WireEvents' = WireEvents \cup (IF line.type = "event" THEN {line.n} ELSE {})
      BY <1>2, <2>2, <3>2, WireAppend
    <3>4. Rising(queue') /\ Rng(queue') \subseteq Rng(queue)
      BY <1>2, <1>9, EmptyRises
    <3>5. Chain(seen, Rng(inbox), WireEvents', HandEvents', Rng(queue), clock)
      <4>1. CASE line.type = "event"
        BY <1>2, <3>1, <3>3, <4>1, ChainMoves
      <4>2. CASE line.type # "event"
        <5>1. WireEvents' = WireEvents /\ HandEvents' = HandEvents
          BY <1>9, <3>3, <4>2 DEF HandEvents
        <5> QED
          BY <1>2, <5>1
      <4> QED
        BY <4>1, <4>2
    <3>6. Chain(seen, Rng(inbox), WireEvents', HandEvents', Rng(queue'), clock)
      BY <3>4, <3>5, ChainMoves
    <3> QED
      BY <1>1, <1>2, <1>9, <3>3, <3>4, <3>6 DEF InOrder, Rising, Rng
  <2> QED
    BY <1>9, <2>1, <2>2 DEF Send
<1>10. ASSUME NEW i \in Calls, Reply(i) PROVE InOrder'
  <2>1. PICK line \in {Answer(i), Oversize} : Send(line)
    BY <1>10 DEF Reply
  <2>2. line \in Lines /\ line.type # "event"
    BY <2>1, EventTyped DEF Answer, Oversize
  <2>3. inbox' = inbox /\ seen' = seen /\ clock' = clock /\ pumped' = pumped /\ queue' = queue
    BY <1>10 DEF Reply
  <2> QED
    BY <1>9, <2>1, <2>2, <2>3
<1>11. CASE PumpSends
  <2>1. /\ inbox' = inbox /\ seen' = seen /\ clock' = clock /\ pumped # 0 /\ pumped' = 0
        /\ queue' = queue \/ queue' = <<>>
        /\ Send(Event(pumped))
    BY <1>11 DEF PumpSends
  <2>2. /\ Event(pumped) \in Lines /\ Event(pumped).type = "event" /\ Event(pumped).n = pumped
    BY <2>1, EventTyped, ConstantFacts DEF Event, TypeOK
  <2> QED
    BY <1>9, <2>1, <2>2
<1>12. CASE PumpTakes
  <2>1. /\ queue # <<>> /\ pumped = 0 /\ pumped' = Head(queue) /\ queue' = Tail(queue)
        /\ UNCHANGED <<inbox, seen, down, clock>>
    BY <1>12 DEF PumpTakes
  <2>2. /\ Rising(queue') /\ Rng(queue') \subseteq Rng(queue)
        /\ pumped' \in Rng(queue) /\ Below({pumped'}, Rng(queue'))
    BY <1>2, <2>1, StagesTyped, RisingTail
  <2>3. HandEvents = {} /\ HandEvents' \subseteq {pumped'}
    BY <2>1 DEF HandEvents
  <2>4. WireEvents' = WireEvents /\ WireRises'
    BY <1>2, <2>1 DEF WireEvents, WireRises, OnTheWire
  <2>5. Chain(seen, Rng(inbox), WireEvents, {pumped'}, Rng(queue'), clock)
    BY <1>2, <2>2, <2>3, ChainMoves
  <2>6. Chain(seen, Rng(inbox), WireEvents, HandEvents', Rng(queue'), clock)
    BY <2>3, <2>5, ChainMoves
  <2> QED
    BY <1>1, <1>2, <2>1, <2>2, <2>4, <2>6 DEF InOrder, Rising, Rng
<1>13. CASE Publish
  <2>1. clock' = clock + 1 /\ UNCHANGED <<inbox, seen, down, pumped>>
    BY <1>13 DEF Publish
  <2>2. WireEvents' = WireEvents /\ WireRises' /\ HandEvents' = HandEvents
    BY <1>2, <2>1 DEF WireEvents, WireRises, OnTheWire, HandEvents
  <2>3. Rising(queue') /\ Rng(queue') \subseteq Rng(queue) \cup {clock'}
    <3>1. CASE queue' = queue
      BY <1>2, <3>1
    <3>2. CASE queue' = Append(queue, clock') \/ (queue # <<>> /\ queue' = Append(Tail(queue), clock'))
      <4>1. Below(Rng(queue), {clock + 1})
        BY <1>2 DEF Chain, Below
      <4>2. clock + 1 \in Nat
        BY StagesTyped
      <4> QED
        BY <1>2, <2>1, <3>2, <4>1, <4>2, StagesTyped, Joins
    <3>3. Len(<<>>) # QueueSize
      <4>1. Len(<<>>) = 0
        OBVIOUS
      <4> QED
        BY <4>1, ConstantFacts
    <3> QED
      BY <1>13, <3>1, <3>2, <3>3 DEF Publish, Offer
  <2>4. Chain(seen, Rng(inbox), WireEvents, HandEvents, Rng(queue) \cup {clock'}, clock')
    BY <1>2, <2>1, StagesTyped, ChainGrows
  <2>5. Chain(seen, Rng(inbox), WireEvents, HandEvents, Rng(queue'), clock')
    BY <2>3, <2>4, ChainMoves
  <2> QED
    BY <1>1, <1>2, <2>1, <2>2, <2>3, <2>5 DEF InOrder, Rising, Rng
<1> QED
  BY <1>4, <1>5, <1>6, <1>7, <1>8, <1>10, <1>11, <1>12, <1>13
     DEF Next, Client, Server, Bus, Finished

--------------------------------------------------------------------------------
(* The whole journey.                                                      *)

Numbers(lines) == {lines[k].n : k \in EventsOf(lines)}
EventsRise(lines) == \A a, b \in EventsOf(lines) : a < b => lines[a].n < lines[b].n

LEMMA JourneyJoins ==
    ASSUME NEW s \in Seq(Lines), NEW t \in Seq(Lines), EventsRise(s), EventsRise(t),
           Below(Numbers(s), Numbers(t))
    PROVE  /\ s \o t \in Seq(Lines) /\ EventsRise(s \o t)
           /\ Numbers(s \o t) = Numbers(s) \cup Numbers(t)
<1> DEFINE u == s \o t
<1>1. /\ u \in Seq(Lines) /\ DOMAIN u = 1 .. Len(s) + Len(t)
      /\ Len(s) \in Nat /\ Len(t) \in Nat /\ DOMAIN s = 1 .. Len(s) /\ DOMAIN t = 1 .. Len(t)
  BY ConcatProperties, LenProperties
<1>2. /\ \A k \in 1 .. Len(s) : u[k] = s[k]
      /\ \A k \in 1 .. Len(t) : u[k + Len(s)] = t[k]
  <2>1. \A k \in 1 .. Len(s) + Len(t) : u[k] = IF k <= Len(s) THEN s[k] ELSE t[k - Len(s)]
    BY ConcatProperties
  <2>2. \A k \in 1 .. Len(s) : k \in 1 .. Len(s) + Len(t) /\ k <= Len(s)
    BY <1>1
  <2>3. \A k \in 1 .. Len(t) : /\ k + Len(s) \in 1 .. Len(s) + Len(t)
                              /\ ~ (k + Len(s) <= Len(s)) /\ (k + Len(s)) - Len(s) = k
    BY <1>1
  <2> HIDE DEF u
  <2> QED
    BY <2>1, <2>2, <2>3
<1> HIDE DEF u
<1>3. \A k \in DOMAIN u : k \in 1 .. Len(s) \/ \E j \in 1 .. Len(t) : k = j + Len(s)
  <2>1. ASSUME NEW k \in 1 .. Len(s) + Len(t), k \notin 1 .. Len(s)
        PROVE  k - Len(s) \in 1 .. Len(t) /\ k = (k - Len(s)) + Len(s)
    BY <1>1, <2>1
  <2> QED
    BY <1>1, <2>1
<1>4. \A k \in EventsOf(u) : k \in EventsOf(s) \/ \E j \in EventsOf(t) : k = j + Len(s)
  BY <1>1, <1>2, <1>3 DEF EventsOf
<1>5. /\ \A k \in EventsOf(s) : k \in EventsOf(u) /\ u[k] = s[k]
      /\ \A j \in EventsOf(t) : j + Len(s) \in EventsOf(u) /\ u[j + Len(s)] = t[j]
  <2>1. \A k \in 1 .. Len(s) : k \in 1 .. Len(s) + Len(t)
    BY <1>1
  <2>2. \A k \in 1 .. Len(t) : k + Len(s) \in 1 .. Len(s) + Len(t)
    BY <1>1
  <2> QED
    BY <1>1, <1>2, <2>1, <2>2 DEF EventsOf
<1>6. Numbers(u) = Numbers(s) \cup Numbers(t)
  BY <1>4, <1>5 DEF Numbers
<1>7. EventsOf(s) \subseteq 1 .. Len(s) /\ EventsOf(t) \subseteq 1 .. Len(t)
  BY <1>1 DEF EventsOf
<1>8. ASSUME NEW a \in EventsOf(u), NEW b \in EventsOf(u), a < b PROVE u[a].n < u[b].n
  <2>1. CASE a \in EventsOf(s) /\ b \in EventsOf(s)
    BY <1>5, <1>8, <2>1 DEF EventsRise
  <2>2. ASSUME a \in EventsOf(s), NEW j \in EventsOf(t), b = j + Len(s) PROVE u[a].n < u[b].n
    BY <1>5, <2>2 DEF Below, Numbers
  <2>3. ASSUME NEW i \in EventsOf(t), a = i + Len(s), b \in EventsOf(s) PROVE FALSE
    BY <1>1, <1>7, <1>8, <2>3
  <2>4. ASSUME NEW i \in EventsOf(t), a = i + Len(s), NEW j \in EventsOf(t), b = j + Len(s)
        PROVE  u[a].n < u[b].n
    <3>1. i < j
      BY <1>1, <1>7, <1>8, <2>4
    <3> QED
      BY <1>5, <2>4, <3>1 DEF EventsRise
  <2> QED
    BY <1>4, <1>8, <2>1, <2>2, <2>3, <2>4
<1> QED
  BY <1>1, <1>6, <1>8 DEF EventsRise, u

LEMMA LinedRises ==
    ASSUME NEW s \in Seq(1 .. Published), Rising(s)
    PROVE  Lined(s) \in Seq(Lines) /\ EventsRise(Lined(s)) /\ Numbers(Lined(s)) = Rng(s)
<1>1. Len(s) \in Nat /\ DOMAIN s = 1 .. Len(s) /\ \A k \in 1 .. Len(s) : s[k] \in 1 .. Published
  BY LenProperties, ElementOfSeq
<1>2. Lined(s) \in [1 .. Len(s) -> Lines]
  BY <1>1, EventTyped DEF Lined
<1>3. Lined(s) \in Seq(Lines)
  BY <1>1, <1>2, FunctionIsSeq
<1>4. \A k \in 1 .. Len(s) : Lined(s)[k].type = "event" /\ Lined(s)[k].n = s[k]
  BY <1>1 DEF Lined, Event
<1>5. EventsOf(Lined(s)) = 1 .. Len(s)
  BY <1>2, <1>4 DEF EventsOf
<1> QED
  BY <1>3, <1>4, <1>5 DEF EventsRise, Numbers, Rising, Rng

LEMMA HandRises ==
    ASSUME TypeOK
    PROVE  InHand \in Seq(Lines) /\ EventsRise(InHand) /\ Numbers(InHand) = HandEvents
<1>1. CASE pumped = 0
  <2>1. InHand = <<>> /\ HandEvents = {}
    BY <1>1 DEF InHand, HandEvents
  <2>2. EventsOf(<<>>) = {}
    BY DEF EventsOf
  <2> QED
    BY <2>1, <2>2, EmptySeq DEF EventsRise, Numbers
<1>2. CASE pumped # 0
  <2>1. InHand = <<Event(pumped)>> /\ HandEvents = {pumped}
    BY <1>2 DEF InHand, HandEvents
  <2>2. Event(pumped) \in Lines /\ Event(pumped).type = "event" /\ Event(pumped).n = pumped
    BY <1>2, EventTyped, ConstantFacts DEF Event, TypeOK
  <2>3. InHand \in Seq(Lines) /\ EventsOf(InHand) = {1} /\ InHand[1] = Event(pumped)
    BY <2>1, <2>2 DEF EventsOf
  <2> QED
    BY <2>1, <2>2, <2>3 DEF EventsRise, Numbers
<1> QED
  BY <1>1, <1>2

LEMMA InOrderIsFresh ==
    ASSUME IInv
    PROVE  FreshInOrder
<1> USE DEF IInv
<1>1. inbox \in Seq(1 .. Published) /\ queue \in Seq(1 .. Published) /\ down \in Seq(Lines)
  BY DEF TypeOK
<1>2. /\ Rising(inbox) /\ WireRises /\ Rising(queue) /\ NewestIsLast
      /\ Chain(seen, Rng(inbox), WireEvents, HandEvents, Rng(queue), clock)
  BY DEF InOrder
<1>3. EventsRise(down) /\ Numbers(down) = WireEvents
  BY <1>2 DEF EventsRise, Numbers, EventsOf, WireRises, WireEvents, OnTheWire
<1>4. /\ Lined(inbox) \o down \in Seq(Lines) /\ EventsRise(Lined(inbox) \o down)
      /\ Numbers(Lined(inbox) \o down) = Rng(inbox) \cup WireEvents
  <2>1. Below(Rng(inbox), WireEvents)
    BY <1>2 DEF Chain, Below
  <2> QED
    BY <1>1, <1>2, <1>3, <2>1, LinedRises, JourneyJoins
<1>5. /\ Lined(inbox) \o down \o InHand \in Seq(Lines) /\ EventsRise(Lined(inbox) \o down \o InHand)
      /\ Numbers(Lined(inbox) \o down \o InHand) = Rng(inbox) \cup WireEvents \cup HandEvents
  <2>1. Below(Rng(inbox) \cup WireEvents, HandEvents)
    BY <1>2 DEF Chain, Below
  <2> QED
    BY <1>4, <2>1, HandRises, JourneyJoins
<1>6. /\ EventsRise(Journey)
      /\ Numbers(Journey) = Rng(inbox) \cup WireEvents \cup HandEvents \cup Rng(queue)
  <2>1. Below(Rng(inbox) \cup WireEvents \cup HandEvents, Rng(queue))
    BY <1>2 DEF Chain, Below
  <2> DEFINE ahead == Lined(inbox) \o down \o InHand
  <2>2. /\ Lined(queue) \in Seq(Lines) /\ EventsRise(Lined(queue))
        /\ Numbers(Lined(queue)) = Rng(queue)
    BY <1>1, <1>2, LinedRises
  <2>3. Journey = ahead \o Lined(queue)
    BY DEF Journey
  <2>4. ahead \in Seq(Lines) /\ EventsRise(ahead) /\ Below(Numbers(ahead), Rng(queue))
    BY <1>5, <2>1
  <2>5. Numbers(ahead) = Rng(inbox) \cup WireEvents \cup HandEvents
    BY <1>5
  <2> HIDE DEF ahead
  <2> QED
    BY <2>2, <2>3, <2>4, <2>5, JourneyJoins
<1>7. EventsAhead = EventsOf(Journey)
  BY DEF EventsAhead, EventsOf
<1>8. \A a \in EventsAhead : Journey[a].n > seen
  <2>1. \A a \in EventsAhead : Journey[a].n \in Numbers(Journey)
    BY <1>7 DEF Numbers
  <2>2. \A e \in Numbers(Journey) : e > seen
    BY <1>2, <1>6, StagesTyped DEF Chain, Below
  <2> QED
    BY <2>1, <2>2
<1>9. sub = "open" /\ queue # <<>> => Last(queue) = clock
  BY <1>2 DEF NewestIsLast, Last
<1> QED
  BY <1>6, <1>7, <1>8, <1>9 DEF FreshInOrder, EventsRise

--------------------------------------------------------------------------------
(* The theorems.                                                           *)

LEMMA InitIInv ==
    ASSUME Init
    PROVE  IInv
<1> USE DEF Init
<1>1. TypeOK
  <2>1. InFlight = {}
    BY DEF InFlight
  <2>2. Cardinality({i \in Calls : task[i] \in {"handling", "answering"}}) <= MaxInFlight
    BY <2>1, FS_EmptySet, ConstantFacts DEF InFlight
  <2>3. Len(down) <= Buffer /\ down \in Seq(Lines) /\ up \in Seq(Calls)
    BY EmptySeq, ConstantFacts
  <2>4. inbox \in Seq(1 .. Published) /\ Len(inbox) <= InboxSize
    BY EmptyTyped
  <2>5. queue \in Seq(1 .. Published) /\ Len(queue) <= QueueSize
    BY EmptyTyped
  <2>6. {seen, arrived, clock, since, dropped, pumped} \subseteq 0 .. Published
    BY ConstantFacts
  <2> QED
    BY <2>2, <2>3, <2>4, <2>5, <2>6 DEF TypeOK
<1>2. Len(up) = 0 /\ Len(down) = 0 /\ Len(queue) = 0 /\ InHand = <<>> /\ OnTheWire = {}
  BY EmptySeq DEF InHand, OnTheWire
<1>3. LinesKnown /\ Requested /\ SubHolds /\ NothingOutlives
  BY <1>2 DEF LinesKnown, Requested, SubHolds, NothingOutlives
<1>4. Known = 0
  BY <1>2, FS_EmptySet DEF Known
<1>5. Accounts
  BY <1>4 DEF Accounts
<1>6. InOrder
  <2>1. WireEvents = {} /\ HandEvents = {}
    BY <1>2 DEF WireEvents, HandEvents
  <2>2. Chain(seen, {}, {}, {}, {}, clock)
    BY DEF Chain, Below
  <2> QED
    BY <1>2, <2>1, <2>2, EmptyRises DEF InOrder, WireRises, NewestIsLast
<1> QED
  BY <1>1, <1>3, <1>5, <1>6 DEF IInv

LEMMA StepIInv ==
    ASSUME IInv, [Next]_vars
    PROVE  IInv'
<1> USE DEF IInv
<1>1. Shaped'
  BY TypeStep
<1>2. Accounts'
  BY AccountsStep
<1>3. arrived' \in Nat /\ dropped' \in Nat
  BY CountsStep
<1>4. {arrived', dropped'} \subseteq 0 .. Published
  <2>1. since' \in 0 .. Published /\ clock' \in 0 .. Published
    BY <1>1 DEF Shaped
  <2>2. /\ Cardinality(OnTheWire') \in Nat /\ Len(InHand') \in Nat /\ Len(queue') \in Nat
    <3>1. down' \in Seq(Lines) /\ queue' \in Seq(1 .. Published)
      BY <1>1 DEF Shaped
    <3>2. OnTheWire' = EventsOf(down')
      BY DEF OnTheWire, EventsOf
    <3>3. Len(InHand') \in Nat
      BY DEF InHand
    <3> QED
      BY <3>1, <3>2, <3>3, EventsOfFinite, LenProperties
  <2>3. since' + Known' <= clock'
    BY <1>2 DEF Accounts
  <2>4. since' \in Nat /\ clock' \in Nat /\ clock' <= Published
    BY <2>1, ConstantFacts
  <2>5. ASSUME NEW s \in Nat, NEW c \in Nat, NEW d \in Nat, NEW a \in Nat,
               NEW w \in Nat, NEW h \in Nat, NEW q \in Nat, s + (d + a + w + h + q) <= c
        PROVE  a <= c /\ d <= c
    BY <2>5
  <2>6. arrived' <= clock' /\ dropped' <= clock'
    BY <1>3, <2>2, <2>3, <2>4, <2>5 DEF Known
  <2> QED
    BY <1>3, <2>4, <2>6, ConstantFacts
<1>5. TypeOK'
  BY <1>1, <1>4 DEF TypeOK, Shaped
<1> QED
  BY <1>2, <1>5, LinesStep, RequestedStep, SubStep, InOrderStep, OverStep

THEOREM Invariant == Spec => []IInv
<1>1. Init => IInv
  BY InitIInv
<1>2. IInv /\ [Next]_vars => IInv'
  BY StepIInv
<1> QED
  BY <1>1, <1>2, PTL DEF Spec

(* Every variable of a connection keeps its type: the queues stay within   *)
(* their sizes and no more requests hold a slot than there are slots.      *)
THEOREM TypeCorrect == Spec => []TypeOK
<1>1. IInv => TypeOK
  BY DEF IInv
<1> QED
  BY <1>1, Invariant, PTL

(* However events are dropped, delayed or discarded between publish() and  *)
(* the consumer, what is still ahead of the consumer is in order, newer    *)
(* than all it has seen, and ends with the newest event.                   *)
THEOREM EventsInOrder == Spec => []FreshInOrder
<1>1. IInv => FreshInOrder
  BY InOrderIsFresh
<1> QED
  BY <1>1, Invariant, PTL

(* No event of an open subscription is lost without being counted.         *)
THEOREM NoEventLost == Spec => []EventsAccounted
<1>1. IInv => EventsAccounted
  <2>1. ASSUME IInv, sub = "open", ~shut
        PROVE  clock = since + dropped + arrived + Cardinality(OnTheWire) + Len(InHand) + Len(queue)
    <3>1. TypeOK /\ since + Known = clock
      BY <2>1 DEF IInv, Accounts
    <3>2. /\ Cardinality(OnTheWire) \in Nat /\ Len(InHand) \in Nat /\ dropped \in Nat
          /\ arrived \in Nat /\ Len(queue) \in Nat /\ since \in Nat
      BY <3>1, CountsTyped
    <3> QED
      BY <3>1, <3>2 DEF Known
  <2> QED
    BY <2>1 DEF EventsAccounted
<1> QED
  BY <1>1, Invariant, PTL

(* A connection that has been served to its end leaves no task and no      *)
(* subscription behind.                                                    *)
THEOREM NothingLeft == Spec => []NothingOutlives
<1>1. IInv => NothingOutlives
  BY DEF IInv
<1> QED
  BY <1>1, Invariant, PTL
================================================================================
