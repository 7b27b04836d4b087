----------------------------- MODULE BusDecoders -----------------------------
(***************************************************************************)
(* What is read out of a stored CAN capture (protocols/): the reassembly   *)
(* of ISO-TP messages, the service a UDS message names and what it would   *)
(* take to transmit it, and the J1939 summary.                             *)
(*                                                                         *)
(* Senders put messages on the bus, each on its own id, in frames that are *)
(* padded to their full length; the capture loses, repeats and reorders    *)
(* them.  The decoders fold over the capture, so here they take each frame *)
(* as it is captured; Finish is the end of the file.  A report holds the   *)
(* places of its frames in the capture, which stand for their bytes, and   *)
(* reports are a set: the final sort by time gives their order.            *)
(***************************************************************************)
EXTENDS Integers, Sequences, FiniteSets, SequencesExt, FiniteSetsExt, Functions

CONSTANTS
    Senders,        \* CAN ids that carry ISO-TP
    Bodies,         \* what a sender sends: for each message the frames it takes
    Opening,        \* the first byte of each message
    Idle,           \* ids of other frames, as [wide, pf, ps]
    MaxFaults       \* frames lost, repeated or delayed

\* What the proofs ask of them.
Constants ==
    /\ Bodies \in Seq(Nat \ {0}) /\ Opening \in Seq(0 .. 255) /\ Len(Opening) = Len(Bodies)
    /\ Idle \subseteq [wide : BOOLEAN, pf : 0 .. 255, ps : 0 .. 255]
    /\ MaxFaults \in Nat

VARIABLES
    onBus,      \* the frame each sender puts on the bus next
    delayed,    \* a frame the capture will see later; none or one
    seen,       \* frames captured, oldest first
    pending,    \* reassemble's pending: what each id is in the middle of
    messages,   \* the messages reported
    groups,     \* summarize's by_pgn: the ids counted for each parameter group
    noise, done

vars == <<onBus, delayed, seen, pending, messages, groups, noise, done>>

\* Frame n of message msg: its sequence number is its place, in four bits.
Frames == [id : Senders, msg : DOMAIN Bodies, n : Nat]
SeqNo(f) == f.n % 16
Single(f) == Bodies[f.msg] = 1
First(f) == f.n = 0 /\ ~Single(f)

Message(s, places, whole, problems) ==
    [id |-> s, data |-> places, complete |-> whole, problems |-> problems]

TypeOK ==
    /\ onBus \in [Senders -> [msg : 1 .. Len(Bodies) + 1, n : Nat]]
    /\ delayed \subseteq Frames /\ \A f, g \in delayed : f = g
    /\ seen \in Seq(Frames)
    /\ DOMAIN pending \subseteq Senders
    /\ \A s \in DOMAIN pending : pending[s] \in
          [declared : Nat, data : Seq(DOMAIN seen), next : 0 .. 15, problems : BOOLEAN]
    /\ messages \subseteq
          [id : Senders, data : Seq(DOMAIN seen), complete : BOOLEAN, problems : BOOLEAN]
    /\ DOMAIN groups \subseteq (0 .. 255) \X (0 .. 255)
    /\ noise \in 0 .. MaxFaults /\ done \in BOOLEAN

Init ==
    /\ onBus = [s \in Senders |-> [msg |-> 1, n |-> 0]] /\ delayed = {} /\ seen = <<>>
    /\ pending = <<>> /\ messages = {} /\ groups = <<>> /\ noise = 0 /\ done = FALSE

-----------------------------------------------------------------------------
(* reassemble takes frame f, the one at place i of the capture.            *)

Without(p, s) == [t \in DOMAIN p \ {s} |-> p[t]]
With(p, s, e) == [t \in DOMAIN p \cup {s} |-> IF t = s THEN e ELSE p[t]]

Unfinished(ids) == {Message(s, pending[s].data, FALSE, TRUE) : s \in ids}

SingleFrame(f, i) ==
    /\ Single(f)
    /\ messages' = messages \cup {Message(f.id, <<i>>, TRUE, FALSE)} /\ UNCHANGED pending

Begun(f, i) == [declared |-> Bodies[f.msg], data |-> <<i>>, next |-> 1, problems |-> FALSE]

(* Mutant: a message that another interrupts is forgotten.                 *)
FirstFrameForgets(f, i) ==
    First(f) /\ pending' = With(pending, f.id, Begun(f, i)) /\ UNCHANGED messages

\* A first frame supersedes whatever its id had not finished.
FirstFrame(f, i) ==
    /\ First(f) /\ pending' = With(pending, f.id, Begun(f, i))
    /\ messages' = messages \cup Unfinished({f.id} \cap DOMAIN pending)

\* One with nothing to follow is reported on its own.
Orphan(f, i) ==
    /\ f.n # 0 /\ f.id \notin DOMAIN pending
    /\ messages' = messages \cup {Message(f.id, <<i>>, FALSE, TRUE)} /\ UNCHANGED pending

\* A jump in the sequence is noted and followed; enough frames complete the message.
Extended(e, f, i) ==
    [e EXCEPT !.problems = @ \/ SeqNo(f) # e.next, !.next = (SeqNo(f) + 1) % 16,
              !.data = Append(@, i)]
ConsecutiveFrame(f, i) ==
    /\ f.n # 0 /\ f.id \in DOMAIN pending
    /\ LET e == Extended(pending[f.id], f, i) IN
       IF Len(e.data) >= e.declared
       THEN /\ pending' = Without(pending, f.id)
            /\ messages' = messages \cup {Message(f.id, e.data, TRUE, e.problems)}
       ELSE pending' = With(pending, f.id, e) /\ UNCHANGED messages

Capture(f) ==
    LET i == Len(seen) + 1 IN
    /\ seen' = Append(seen, f)
    /\ SingleFrame(f, i) \/ FirstFrame(f, i) \/ Orphan(f, i) \/ ConsecutiveFrame(f, i)

-----------------------------------------------------------------------------
(* The bus.                                                                *)

Upcoming(s) == [id |-> s, msg |-> onBus[s].msg, n |-> onBus[s].n]
Sending(s) == ~done /\ onBus[s].msg <= Len(Bodies)
After(at) ==
    IF at.n + 1 < Bodies[at.msg] THEN [at EXCEPT !.n = @ + 1] ELSE [msg |-> at.msg + 1, n |-> 0]
Transmit(s) ==
    Sending(s) /\ onBus' = [onBus EXCEPT ![s] = After(onBus[s])] /\ UNCHANGED <<groups, done>>
Faulty == noise < MaxFaults /\ noise' = noise + 1

Arrive(s) == Transmit(s) /\ Capture(Upcoming(s)) /\ UNCHANGED <<delayed, noise>>
Lose(s) == Transmit(s) /\ Faulty /\ UNCHANGED <<delayed, seen, pending, messages>>
Repeat(s) ==
    Sending(s) /\ Faulty /\ Capture(Upcoming(s)) /\ UNCHANGED <<onBus, delayed, groups, done>>
Delay(s) ==
    /\ delayed = {} /\ Transmit(s) /\ Faulty
    /\ delayed' = {Upcoming(s)} /\ UNCHANGED <<seen, pending, messages>>
Late(f) ==
    ~done /\ Capture(f) /\ delayed' = delayed \ {f} /\ UNCHANGED <<onBus, groups, noise, done>>

\* summarize and decode_id: the low byte of the group is the target's address
\* below the broadcast threshold.  parse_candump keeps no width, so an 11-bit id
\* is counted like the others.
Pgn(i) == <<i.pf, IF i.pf >= 240 THEN i.ps ELSE 0>>
Other(i) ==
    /\ ~done
    /\ groups' = With(groups, Pgn(i), {i} \cup (IF Pgn(i) \in DOMAIN groups THEN groups[Pgn(i)] ELSE {}))
    /\ UNCHANGED <<onBus, delayed, seen, pending, messages, noise, done>>

\* What never completed is reported at the end, as incomplete.
Finish ==
    /\ ~done /\ delayed = {}
    /\ messages' = messages \cup Unfinished(DOMAIN pending) /\ pending' = <<>> /\ done' = TRUE
    /\ UNCHANGED <<onBus, delayed, seen, groups, noise>>

Next ==
    \/ \E s \in Senders : Arrive(s) \/ Lose(s) \/ Repeat(s) \/ Delay(s)
    \/ \E f \in delayed : Late(f)
    \/ \E i \in Idle : Other(i)
    \/ Finish

Spec == Init /\ [][Next]_vars

-----------------------------------------------------------------------------
(* can.uds_decode: the service a message names and the class it would take *)
(* to transmit it; a positive response names its request's, a negative one *)
(* asks for nothing, and a piece without its beginning names nothing known.*)
Query == {25, 34, 35, 36, 53}
Control == {16, 17, 20, 39, 40, 41, 42, 44, 46, 47, 49, 62} \cup 131 .. 135
Flash == {52, 54, 55, 56, 61}
Services == Query \cup Control \cup Flash

SidOf(first) == IF first - 64 \in Services THEN first - 64 ELSE first
Rank(first) ==
    IF first = 127 THEN 0
    ELSE (CASE SidOf(first) \in Query -> 1
            [] SidOf(first) \in Control -> 2
            [] SidOf(first) \in Flash -> 4
            [] OTHER -> 0)
RankOf(m) == LET f == seen[m.data[1]] IN IF f.n = 0 THEN Rank(Opening[f.msg]) ELSE 0
Highest == Max({0} \cup {RankOf(m) : m \in messages})

(* What the reports say of the capture: each frame captured is in exactly  *)
(* one of them, or in what its id is in the middle of, once ("rather than  *)
(* quietly dropping the message", protocols/isotp.py:10), and a report has *)
(* the frames of one id in the order of the capture; one that is complete  *)
(* and without problems has no gap the numbering shows; and no service     *)
(* whose beginning was captured asks for more than "highest permission     *)
(* observed", complete or not.                                             *)
Reporting(i) == {m \in messages : i \in ToSet(m.data)}
Waiting(i) == {s \in DOMAIN pending : i \in ToSet(pending[s].data)}
InOne(i) ==
    \/ Waiting(i) = {} /\ \E m \in messages : Reporting(i) = {m}
    \/ Waiting(i) = {seen[i].id} /\ Reporting(i) = {}
OfOneId(m) ==
    /\ \A j \in DOMAIN m.data : seen[m.data[j]].id = m.id
    /\ \A j, k \in DOMAIN m.data : j < k => m.data[j] < m.data[k]
DecodedHonestly ==
    /\ \A i \in DOMAIN seen : InOne(i)
    /\ \A m \in messages : OfOneId(m)
    /\ \A m \in messages : m.complete /\ ~m.problems =>
          \A j \in DOMAIN m.data : SeqNo(seen[m.data[j]]) = (j - 1) % 16
    /\ done => \A i \in DOMAIN seen : seen[i].n = 0 => Highest >= Rank(Opening[seen[i].msg])

(* "An 11-bit id is not J1939; skip rather than mis-decode it."            *)
(* (protocols/j1939.py:212)                                                *)
ElevenBitSkipped == \A g \in DOMAIN groups : \A i \in groups[g] : i.wide
=============================================================================
