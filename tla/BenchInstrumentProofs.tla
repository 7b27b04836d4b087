------------------------- MODULE BenchInstrumentProofs -------------------------
(***************************************************************************)
(* Proofs about BenchInstrument, for any number of channels and handlers,  *)
(* any jobs, either dialect and any faults.                                *)
(***************************************************************************)
EXTENDS BenchInstrument, FiniteSetTheorems, SequenceTheorems, TLAPS

-----------------------------------------------------------------------------
(* Sequences without repetitions, and what taking an element out leaves.   *)

Distinct(s) == \A i, j \in DOMAIN s : s[i] = s[j] => i = j

(* The element is gone, the others are there, and the head stays the head. *)
LEMMA RemoveFirstShape ==
    ASSUME NEW S, NEW s \in Seq(S), NEW e, Distinct(s)
    PROVE  LET r == RemoveFirst(s, e) IN
           /\ r \in Seq(S) /\ Distinct(r)
           /\ ~Contains(r, e) /\ \A x : x # e => (Contains(r, x) <=> Contains(s, x))
           /\ s # <<>> /\ Head(s) # e => r # <<>> /\ Head(r) = Head(s)
<1> DEFINE r == RemoveFirst(s, e)
<1>1. CASE ~\E i \in 1 .. Len(s) : s[i] = e
  <2>1. r = s
    BY <1>1 DEF RemoveFirst
  <2> QED
    BY <1>1, <2>1 DEF Contains
<1>2. ASSUME NEW i \in 1 .. Len(s), s[i] = e PROVE r = RemoveAt(s, i)
  <2> DEFINE I == {k \in 1 .. Len(s) : s[k] = e}
  <2>1. I = {i}
    BY <1>2 DEF Distinct
  <2>2. Min(I) = i
    BY <2>1 DEF Min
  <2>3. SelectInSeq(s, LAMBDA v : v = e) = i
    BY <2>1, <2>2 DEF SelectInSeq
  <2> QED
    BY <1>2, <2>3 DEF RemoveFirst
<1>3. ASSUME NEW i \in 1 .. Len(s), s[i] = e
      PROVE  /\ r \in Seq(S) /\ Len(r) = Len(s) - 1
             /\ \A k \in 1 .. Len(r) : r[k] = IF k < i THEN s[k] ELSE s[k + 1]
  <2> DEFINE a == SubSeq(s, 1, i - 1)
             b == SubSeq(s, i + 1, Len(s))
  <2>1. a \in Seq(S) /\ Len(a) = i - 1 /\ \A k \in 1 .. i - 1 : a[k] = s[k]
    OBVIOUS
  <2>2. b \in Seq(S) /\ Len(b) = Len(s) - i /\ \A k \in 1 .. Len(s) - i : b[k] = s[k + i]
    OBVIOUS
  <2>3. r = a \o b
    BY <1>2, <1>3 DEF RemoveAt
  <2> HIDE DEF a, b, r
  <2>4. Len(s) \in Nat /\ i \in 1 .. Len(s)
    BY <1>3
  <2>5. /\ r \in Seq(S) /\ Len(r) = Len(a) + Len(b)
        /\ \A k \in 1 .. Len(r) : r[k] = IF k <= Len(a) THEN a[k] ELSE b[k - Len(a)]
    <3>1. /\ a \o b \in Seq(S) /\ Len(a \o b) = Len(a) + Len(b)
          /\ \A k \in 1 .. Len(a) + Len(b) :
                (a \o b)[k] = IF k <= Len(a) THEN a[k] ELSE b[k - Len(a)]
      <4>1. a \in Seq(S) /\ b \in Seq(S)
        BY <2>1, <2>2
      <4> QED
        BY <4>1, ConcatProperties, Zenon
    <3> QED
      BY <2>3, <3>1
  <2>6. Len(r) = Len(s) - 1
    BY <2>1, <2>2, <2>4, <2>5
  <2>7. ASSUME NEW k \in 1 .. Len(r) PROVE r[k] = IF k < i THEN s[k] ELSE s[k + 1]
    <3>1. CASE k < i
      <4>1. k \in 1 .. i - 1 /\ k <= Len(a)
        BY <2>1, <2>4, <2>6, <3>1
      <4>2. r[k] = a[k]
        BY <2>5, <4>1
      <4> QED
        BY <2>1, <3>1, <4>1, <4>2
    <3>2. CASE ~(k < i)
      <4>1. k - (i - 1) \in 1 .. Len(s) - i /\ k - (i - 1) + i = k + 1
        BY <2>4, <2>6, <3>2
      <4>2. r[k] = b[k - (i - 1)]
        BY <2>1, <2>4, <2>5, <2>6, <3>2
      <4> QED
        BY <2>2, <3>2, <4>1, <4>2
    <3> QED
      BY <3>1, <3>2
  <2> QED
    BY <2>5, <2>6, <2>7
<1>4. CASE \E i \in 1 .. Len(s) : s[i] = e
  <2>1. PICK i \in 1 .. Len(s) : s[i] = e
    BY <1>4
  <2>2. /\ r \in Seq(S) /\ Len(r) = Len(s) - 1
        /\ \A k \in 1 .. Len(r) : r[k] = IF k < i THEN s[k] ELSE s[k + 1]
    BY <1>3, <2>1
  <2> HIDE DEF r
  <2>3. Distinct(r)
    BY <2>1, <2>2 DEF Distinct
  <2>4. ~Contains(r, e)
    BY <2>1, <2>2 DEF Distinct, Contains
  <2>5. ASSUME NEW x, x # e PROVE Contains(r, x) <=> Contains(s, x)
    <3>1. ASSUME NEW k \in 1 .. Len(s), s[k] = x PROVE \E n \in 1 .. Len(r) : r[n] = x
      <4>1. CASE k < i
        BY <2>1, <2>2, <3>1, <4>1
      <4>2. CASE k > i
        <5>1. k - 1 \in 1 .. Len(r) /\ r[k - 1] = s[k]
          BY <2>1, <2>2, <4>2
        <5> QED
          BY <3>1, <5>1
      <4> QED
        BY <2>1, <2>5, <3>1, <4>1, <4>2
    <3>2. ASSUME NEW n \in 1 .. Len(r), r[n] = x PROVE \E k \in 1 .. Len(s) : s[k] = x
      BY <2>1, <2>2, <3>2
    <3> QED
      BY <3>1, <3>2 DEF Contains
  <2>6. s # <<>> /\ Head(s) # e => r # <<>> /\ Head(r) = Head(s)
    <3> SUFFICES ASSUME s # <<>>, Head(s) # e PROVE r # <<>> /\ Head(r) = Head(s)
      OBVIOUS
    <3>1. i # 1
      BY <2>1
    <3>2. 1 \in 1 .. Len(r) /\ r[1] = s[1]
      BY <2>1, <2>2, <3>1
    <3> QED
      BY <2>2, <3>2
  <2> QED
    BY <2>2, <2>3, <2>4, <2>5, <2>6 DEF r
<1> QED
  BY <1>1, <1>4

(* Appending an element that is not there yet.                             *)
LEMMA AppendShape ==
    ASSUME NEW S, NEW s \in Seq(S), NEW e \in S, Distinct(s), ~Contains(s, e)
    PROVE  LET r == Append(s, e) IN
           /\ r \in Seq(S) /\ Distinct(r) /\ r # <<>>
           /\ \A x : Contains(r, x) <=> Contains(s, x) \/ x = e
           /\ Head(r) = IF s = <<>> THEN e ELSE Head(s)
<1> DEFINE r == Append(s, e)
<1>1. /\ r \in Seq(S) /\ Len(r) = Len(s) + 1 /\ r[Len(s) + 1] = e /\ Len(s) \in Nat
      /\ \A k \in 1 .. Len(s) : r[k] = s[k]
  OBVIOUS
<1> HIDE DEF r
<1>2. Distinct(r)
  BY <1>1 DEF Distinct, Contains
<1>3. \A x : Contains(r, x) <=> Contains(s, x) \/ x = e
  BY <1>1 DEF Contains
<1>4. r # <<>> /\ Head(r) = IF s = <<>> THEN e ELSE Head(s)
  <2>1. r # <<>> /\ Head(r) = r[1]
    BY <1>1
  <2>2. s # <<>> => Head(s) = s[1] /\ Len(s) > 0
    OBVIOUS
  <2> QED
    BY <1>1, <2>1, <2>2
<1> QED
  BY <1>1, <1>2, <1>3, <1>4 DEF r

(* The head of such a sequence goes.                                       *)
LEMMA TailShape ==
    ASSUME NEW S, NEW s \in Seq(S), Distinct(s), s # <<>>
    PROVE  /\ Tail(s) \in Seq(S) /\ Distinct(Tail(s)) /\ ~Contains(Tail(s), Head(s))
           /\ \A x : x # Head(s) => (Contains(Tail(s), x) <=> Contains(s, x))
           /\ Contains(s, Head(s)) /\ Head(s) \in S
<1>1. /\ Tail(s) \in Seq(S) /\ Len(Tail(s)) = Len(s) - 1 /\ Len(s) \in Nat /\ Len(s) > 0
      /\ \A k \in 1 .. Len(s) - 1 : Tail(s)[k] = s[k + 1]
      /\ Head(s) = s[1] /\ Head(s) \in S
  OBVIOUS
<1> DEFINE r == Tail(s)
<1> HIDE DEF r
<1>2. /\ r \in Seq(S) /\ Len(r) = Len(s) - 1 /\ \A k \in 1 .. Len(s) - 1 : r[k] = s[k + 1]
  BY <1>1 DEF r
<1>3. Distinct(r)
  <2> SUFFICES ASSUME NEW i \in 1 .. Len(r), NEW j \in 1 .. Len(r), r[i] = r[j] PROVE i = j
    BY <1>2 DEF Distinct
  <2>1. i + 1 \in 1 .. Len(s) /\ j + 1 \in 1 .. Len(s)
    BY <1>1, <1>2
  <2>2. s[i + 1] = s[j + 1]
    BY <1>2
  <2>3. i + 1 = j + 1
    BY <2>1, <2>2 DEF Distinct
  <2> QED
    BY <1>1, <1>2, <2>3
<1>4. ~Contains(r, Head(s))
  BY <1>1, <1>2 DEF Distinct, Contains
<1>5. ASSUME NEW x, x # Head(s) PROVE Contains(r, x) <=> Contains(s, x)
  <2>1. ASSUME NEW k \in 1 .. Len(s), s[k] = x PROVE \E n \in 1 .. Len(r) : r[n] = x
    <3>1. k - 1 \in 1 .. Len(r) /\ r[k - 1] = s[k]
      BY <1>1, <1>2, <1>5, <2>1
    <3> QED
      BY <2>1, <3>1
  <2>2. ASSUME NEW n \in 1 .. Len(r), r[n] = x PROVE \E k \in 1 .. Len(s) : s[k] = x
    BY <1>1, <1>2, <2>2
  <2> QED
    BY <2>1, <2>2 DEF Contains
<1>6. Contains(s, Head(s))
  BY <1>1 DEF Contains
<1> QED
  BY <1>1, <1>3, <1>4, <1>5, <1>6 DEF r

-----------------------------------------------------------------------------
(* The exchanges of a handler: at most three, a query last, and the        *)
(* setpoint, where the dialect selects, right after the selection.         *)
LEMMA ExchangesShape ==
    ASSUME NEW j \in Jobs
    PROVE  /\ Len(Exchanges(j)) \in 1 .. 3
           /\ \A k \in 1 .. Len(Exchanges(j)) : Exchanges(j)[k] \in Ops
           /\ \A k \in 1 .. Len(Exchanges(j)) : Exchanges(j)[k] = "volt" => j.kind = "set"
           /\ Selects /\ j.kind = "set" =>
                /\ Len(Exchanges(j)) = 3
                /\ Exchanges(j)[1] = "select" /\ Exchanges(j)[2] = "volt" /\ Exchanges(j)[3] = "ask"
<1> DEFINE select == IF Selects /\ j.kind # "identify" THEN <<"select">> ELSE <<>>
           act == CASE j.kind = "set" -> <<"volt">>
                    [] j.kind \in {"on", "off"} -> <<j.kind>>
                    [] OTHER -> <<>>
           head == select \o act
           ask == <<"ask">>
           all == head \o ask
<1>1. Exchanges(j) = all
  BY DEF Exchanges
<1>2. /\ select \in Seq(Ops) /\ Len(select) \in 0 .. 1 /\ (Len(select) = 1 => select[1] = "select")
      /\ Selects /\ j.kind = "set" => Len(select) = 1
  <2>1. CASE Selects /\ j.kind # "identify"
    BY <2>1 DEF Ops
  <2>2. CASE ~(Selects /\ j.kind # "identify")
    <3>1. select = <<>>
      BY <2>2
    <3>2. ~(Selects /\ j.kind = "set")
      BY <2>2
    <3> QED
      BY <3>1, <3>2
  <2> QED
    BY <2>1, <2>2
<1>3. /\ act \in Seq(Ops) /\ Len(act) \in 0 .. 1
      /\ Len(act) = 1 => act[1] \in Ops /\ (act[1] = "volt" => j.kind = "set")
      /\ j.kind = "set" => Len(act) = 1 /\ act[1] = "volt"
  <2>1. CASE j.kind = "set"
    BY <2>1 DEF Ops
  <2>2. CASE j.kind \in {"on", "off"}
    BY <2>2 DEF Ops
  <2>3. CASE j.kind \notin {"set", "on", "off"}
    BY <2>3 DEF Ops
  <2> QED
    BY <2>1, <2>2, <2>3
<1> HIDE DEF select, act
<1>4. /\ head \in Seq(Ops) /\ Len(head) = Len(select) + Len(act)
      /\ \A k \in 1 .. Len(select) + Len(act) :
            head[k] = IF k <= Len(select) THEN select[k] ELSE act[k - Len(select)]
  BY <1>2, <1>3, ConcatProperties, Zenon
<1> HIDE DEF head
<1>5. ask \in Seq(Ops) /\ Len(ask) = 1 /\ ask[1] = "ask"
  BY DEF Ops
<1> HIDE DEF ask
<1>6. /\ Len(all) = Len(head) + Len(ask)
      /\ \A k \in 1 .. Len(head) + Len(ask) :
            all[k] = IF k <= Len(head) THEN head[k] ELSE ask[k - Len(head)]
  <2>1. /\ Len(head \o ask) = Len(head) + Len(ask)
        /\ \A k \in 1 .. Len(head) + Len(ask) :
              (head \o ask)[k] = IF k <= Len(head) THEN head[k] ELSE ask[k - Len(head)]
    <3>1. head \in Seq(Ops) /\ ask \in Seq(Ops)
      BY <1>4, <1>5
    <3> QED
      BY <3>1, ConcatProperties, Zenon
  <2> QED
    BY <2>1
<1> HIDE DEF all
<1>7. /\ Len(all) = Len(head) + 1
      /\ \A k \in 1 .. Len(head) : all[k] = head[k]
      /\ all[Len(head) + 1] = "ask"
  BY <1>2, <1>3, <1>4, <1>5, <1>6
<1>8. \A k \in 1 .. Len(head) : head[k] \in Ops /\ (head[k] = "volt" => j.kind = "set")
  BY <1>2, <1>3, <1>4
<1>9. Selects /\ j.kind = "set" => Len(head) = 2 /\ head[1] = "select" /\ head[2] = "volt"
  <2> SUFFICES ASSUME Selects, j.kind = "set"
               PROVE  Len(head) = 2 /\ head[1] = "select" /\ head[2] = "volt"
    OBVIOUS
  <2>1. Len(select) = 1 /\ select[1] = "select" /\ Len(act) = 1 /\ act[1] = "volt"
    BY <1>2, <1>3
  <2>2. 1 \in 1 .. Len(select) + Len(act) /\ 2 \in 1 .. Len(select) + Len(act)
    BY <2>1
  <2> QED
    BY <1>4, <2>1, <2>2
<1>10. Len(head) \in 0 .. 2
  BY <1>2, <1>3, <1>4
<1>11. \A k \in 1 .. Len(all) : all[k] \in Ops /\ (all[k] = "volt" => j.kind = "set")
  BY <1>7, <1>8, <1>10 DEF Ops
<1> QED
  BY <1>1, <1>7, <1>9, <1>10, <1>11

-----------------------------------------------------------------------------
(* The transport's line: a task stands in it, once, while it has a command *)
(* to send, and a handler at one of its exchanges.                         *)
Waits(t) == IF t = Safe THEN SafeRuns ELSE job[t] # Idle

Control ==
    /\ job \in [Slots -> Jobs \cup {Idle}]
    /\ step \in [Tasks -> Nat] /\ step[Safe] \in 0 .. ChannelCount + 1
    /\ line \in Seq(Tasks) /\ Distinct(line)
    /\ \A t \in Tasks : Contains(line, t) <=> Waits(t)
    /\ \A t \in Slots : IF job[t] = Idle THEN step[t] = 0 ELSE step[t] \in 1 .. Len(Exchanges(job[t]))
    /\ sent \in BOOLEAN /\ (sent => line # <<>>)

(* What leaving the line, and joining it, does to it.                      *)
Left(s, r, t) ==
    /\ r \in Seq(Tasks) /\ Distinct(r)
    /\ ~Contains(r, t) /\ \A x : x # t => (Contains(r, x) <=> Contains(s, x))

Joined(s, r, t) ==
    /\ r \in Seq(Tasks) /\ Distinct(r) /\ r # <<>>
    /\ \A x : Contains(r, x) <=> Contains(s, x) \/ x = t
    /\ Head(r) = IF s = <<>> THEN t ELSE Head(s)

LEMMA Leaves ==
    ASSUME Control, NEW t
    PROVE  /\ Left(line, RemoveFirst(line, t), t)
           /\ line # <<>> /\ ~Holds(t) =>
                RemoveFirst(line, t) # <<>> /\ Head(RemoveFirst(line, t)) = Head(line)
           /\ Holds(t) => Left(line, Tail(line), t) /\ t \in Tasks /\ Contains(line, t) /\ Waits(t)
<1>1. line \in Seq(Tasks) /\ Distinct(line)
  BY DEF Control
<1>2. CASE Holds(t)
  <2>1. line # <<>> /\ Head(line) = t
    BY <1>2 DEF Holds
  <2>2. Left(line, Tail(line), t) /\ t \in Tasks /\ Contains(line, t)
    BY <1>1, <2>1, TailShape DEF Left
  <2>3. Waits(t)
    BY <2>2 DEF Control
  <2> QED
    BY <1>1, <1>2, <2>2, <2>3, RemoveFirstShape DEF Left
<1>3. CASE ~Holds(t)
  BY <1>1, <1>3, RemoveFirstShape DEF Left, Holds
<1> QED
  BY <1>2, <1>3

LEMMA Joins ==
    ASSUME NEW s \in Seq(Tasks), Distinct(s), NEW t \in Tasks, ~Contains(s, t)
    PROVE  Joined(s, Append(s, t), t)
BY AppendShape DEF Joined

(* A handler that ends, for whatever reason.                               *)
LEMMA ControlLeave ==
    ASSUME Control, NEW t \in Slots, Leave(t), Left(line, line', t),
           sent' \in BOOLEAN, sent' => line' # <<>>
    PROVE  Control'
<1>1. t # Safe /\ Safe \in Tasks /\ Slots \subseteq Tasks
  BY TaskAssumption DEF Tasks
<1>2. /\ job' \in [Slots -> Jobs \cup {Idle}] /\ job'[t] = Idle
      /\ \A u \in Slots : u # t => job'[u] = job[u]
  BY DEF Leave, Control
<1>3. /\ step' \in [Tasks -> Nat] /\ step'[t] = 0
      /\ \A u \in Tasks : u # t => step'[u] = step[u]
  BY <1>1 DEF Leave, Control
<1>4. \A u \in Tasks : Contains(line', u) <=> Waits(u)'
  <2> SUFFICES ASSUME NEW u \in Tasks PROVE Contains(line', u) <=> Waits(u)'
    OBVIOUS
  <2>1. CASE u = t
    BY <1>1, <1>2, <2>1 DEF Left, Waits
  <2>2. CASE u # t
    <3>1. Contains(line', u) <=> Waits(u)
      BY <2>2 DEF Left, Control
    <3>2. Waits(u)' <=> Waits(u)
      BY <1>1, <1>2, <1>3, <2>2 DEF Waits, SafeRuns, Tasks
    <3> QED
      BY <3>1, <3>2
  <2> QED
    BY <2>1, <2>2
<1>5. \A u \in Slots : IF job'[u] = Idle THEN step'[u] = 0
                       ELSE step'[u] \in 1 .. Len(Exchanges(job'[u]))
  <2> SUFFICES ASSUME NEW u \in Slots
               PROVE  IF job'[u] = Idle THEN step'[u] = 0
                      ELSE step'[u] \in 1 .. Len(Exchanges(job'[u]))
    OBVIOUS
  <2>1. CASE u = t
    BY <1>1, <1>2, <1>3, <2>1
  <2>2. CASE u # t
    BY <1>1, <1>2, <1>3, <2>2 DEF Control
  <2> QED
    BY <2>1, <2>2
<1> QED
  BY <1>1, <1>2, <1>3, <1>4, <1>5 DEF Control, Left

(* A handler goes on to its next exchange, at the end of the line.         *)
LEMMA ControlAdvance ==
    ASSUME Control, NEW t \in Slots, Holds(t), Advance(t), sent' = FALSE
    PROVE  Control'
<1>1. t # Safe /\ Safe \in Tasks /\ Slots \subseteq Tasks
  BY TaskAssumption DEF Tasks
<1>2. Left(line, Tail(line), t) /\ Contains(line, t) /\ job[t] # Idle
  BY <1>1, Leaves DEF Waits
<1>3. CASE Leave(t) /\ line' = Tail(line)
  BY <1>2, <1>3, ControlLeave
<1>4. CASE /\ step[t] < Len(Exchanges(job[t]))
           /\ step' = [step EXCEPT ![t] = @ + 1]
           /\ line' = Append(Tail(line), t)
           /\ job' = job
  <2>1. Joined(Tail(line), line', t)
    BY <1>1, <1>2, <1>4, Joins DEF Left
  <2>2. \A u \in Tasks : Contains(line', u) <=> Contains(line, u)
    BY <1>2, <2>1 DEF Left, Joined
  <2>3. /\ step' \in [Tasks -> Nat] /\ step'[t] = step[t] + 1
        /\ \A u \in Tasks : u # t => step'[u] = step[u]
    BY <1>1, <1>4 DEF Control
  <2>4. \A u \in Tasks : Waits(u)' <=> Waits(u)
    BY <1>1, <1>4, <2>3 DEF Waits, SafeRuns
  <2>5. \A u \in Slots : IF job[u] = Idle THEN step'[u] = 0
                         ELSE step'[u] \in 1 .. Len(Exchanges(job[u]))
    <3>1. job[t] \in Jobs
      BY <1>2 DEF Control
    <3>2. Len(Exchanges(job[t])) \in 1 .. 3
      BY <3>1, ExchangesShape
    <3> QED
      BY <1>1, <1>2, <1>4, <2>3, <3>2 DEF Control
  <2> QED
    BY <1>1, <1>4, <2>1, <2>2, <2>3, <2>4, <2>5 DEF Control, Joined
<1> QED
  BY <1>3, <1>4 DEF Advance

(* The safe state's task moves: on to its next channel, or out.            *)
LEMMA ControlSafe ==
    ASSUME Control, job' = job, NEW k \in 0 .. ChannelCount + 1,
           step' = [step EXCEPT ![Safe] = k],
           line' \in Seq(Tasks), Distinct(line'),
           Contains(line', Safe) <=> k \in Channels,
           \A x : x # Safe => (Contains(line', x) <=> Contains(line, x)),
           sent' \in BOOLEAN, sent' => line' # <<>>
    PROVE  Control'
<1>1. Safe \notin Slots /\ Safe \in Tasks /\ Slots \subseteq Tasks
  BY TaskAssumption DEF Tasks
<1>2. /\ step' \in [Tasks -> Nat] /\ step'[Safe] = k
      /\ \A u \in Tasks : u # Safe => step'[u] = step[u]
  BY <1>1, ChannelAssumption DEF Control
<1>3. \A u \in Tasks : Contains(line', u) <=> Waits(u)'
  <2> SUFFICES ASSUME NEW u \in Tasks PROVE Contains(line', u) <=> Waits(u)'
    OBVIOUS
  <2>1. CASE u = Safe
    BY <1>2, <2>1 DEF Waits, SafeRuns
  <2>2. CASE u # Safe
    BY <2>2 DEF Waits, Control
  <2> QED
    BY <2>1, <2>2
<1>4. \A u \in Slots : IF job'[u] = Idle THEN step'[u] = 0
                       ELSE step'[u] \in 1 .. Len(Exchanges(job'[u]))
  BY <1>1, <1>2 DEF Control
<1> QED
  BY <1>1, <1>2, <1>3, <1>4 DEF Control

LEMMA ControlAdvanceSafe ==
    ASSUME Control, SafeRuns, AdvanceSafe, job' = job, sent' \in BOOLEAN,
           sent' => sent /\ ~Holds(Safe)
    PROVE  /\ Control'
           /\ sent' => line' # <<>> /\ Head(line') = Head(line)
           /\ step'[Safe] = step[Safe] + 1
<1> DEFINE less == RemoveFirst(line, Safe)
<1>1. /\ Left(line, less, Safe)
      /\ line # <<>> /\ ~Holds(Safe) => less # <<>> /\ Head(less) = Head(line)
  BY Leaves
<1>2. Safe \in Tasks /\ ChannelCount \in Nat \ {0}
  BY ChannelAssumption DEF Tasks
<1>3. step[Safe] \in 1 .. ChannelCount /\ step \in [Tasks -> Nat]
  BY DEF SafeRuns, Channels, Control
<1>4. step' = [step EXCEPT ![Safe] = step[Safe] + 1] /\ step[Safe] + 1 \in 0 .. ChannelCount + 1
  BY <1>2, <1>3 DEF AdvanceSafe
<1>5. step'[Safe] = step[Safe] + 1
  BY <1>2, <1>3, <1>4
<1> HIDE DEF less
<1>6. sent' => line # <<>>
  BY DEF Control
<1>7. CASE step[Safe] < ChannelCount
  <2>1. line' = Append(less, Safe)
    BY <1>7 DEF AdvanceSafe, less
  <2>2. Joined(less, line', Safe)
    BY <1>1, <1>2, <2>1, Joins DEF Left
  <2>3. step[Safe] + 1 \in Channels
    BY <1>2, <1>3, <1>7 DEF Channels
  <2>4. /\ line' \in Seq(Tasks) /\ Distinct(line') /\ line' # <<>> /\ Contains(line', Safe)
        /\ \A x : x # Safe => (Contains(line', x) <=> Contains(line, x))
        /\ sent' => Head(line') = Head(line)
    BY <1>1, <1>6, <2>2 DEF Joined, Left
  <2> QED
    BY <1>4, <1>5, <2>3, <2>4, ControlSafe
<1>8. CASE ~(step[Safe] < ChannelCount)
  <2>1. line' = less
    BY <1>8 DEF AdvanceSafe, less
  <2>2. step[Safe] + 1 \notin Channels
    BY <1>2, <1>3, <1>8 DEF Channels
  <2>3. /\ line' \in Seq(Tasks) /\ Distinct(line') /\ ~Contains(line', Safe)
        /\ \A x : x # Safe => (Contains(line', x) <=> Contains(line, x))
        /\ sent' => line' # <<>> /\ Head(line') = Head(line)
    BY <1>1, <1>6, <2>1 DEF Left
  <2> QED
    BY <1>4, <1>5, <2>2, <2>3, ControlSafe
<1> QED
  BY <1>7, <1>8

(* While a command is on the wire the head of the line stays, and only its *)
(* transmission puts one there.                                            *)
HeadStays ==
    /\ sent /\ sent' => line # <<>> /\ line' # <<>> /\ Head(line') = Head(line)
    /\ ~sent /\ sent' => \E t \in Tasks : Transmit(t)

LEMMA ControlExchange ==
    ASSUME Control, NEW t \in Tasks, Exchange(t)
    PROVE  Control' /\ HeadStays
<1>1. Slots \subseteq Tasks /\ Safe \in Tasks /\ Safe \notin Slots
  BY TaskAssumption DEF Tasks
<1>2. Holds(t) /\ Waits(t)
  BY Leaves DEF Exchange, Transmit, Succeed, Fail, GiveUp
<1>3. CASE Transmit(t)
  <2>1. line # <<>>
    BY <1>2 DEF Holds
  <2>2. job' = job /\ step' = step /\ line' = line /\ sent' = TRUE /\ ~sent
    BY <1>3 DEF Transmit
  <2>3. Control'
    BY <2>1, <2>2 DEF Control, Waits, SafeRuns
  <2> QED
    BY <1>3, <2>2, <2>3 DEF HeadStays
<1>4. CASE Succeed(t)
  <2>1. sent' = FALSE
    BY <1>4 DEF Succeed
  <2>2. CASE t = Safe /\ AdvanceSafe /\ UNCHANGED <<job, bound>>
    BY <1>2, <2>1, <2>2, ControlAdvanceSafe DEF HeadStays, Waits
  <2>3. CASE t # Safe /\ Advance(t)
    <3>1. t \in Slots
      BY <2>3 DEF Tasks
    <3> QED
      BY <1>2, <2>1, <2>3, <3>1, ControlAdvance DEF HeadStays
  <2> QED
    BY <1>4, <2>2, <2>3 DEF Succeed
<1>5. CASE sent' = FALSE /\ AfterFailure(t)
  <2>1. CASE t = Safe /\ AdvanceSafe /\ job' = job
    BY <1>2, <1>5, <2>1, ControlAdvanceSafe DEF HeadStays, Waits
  <2>2. CASE t # Safe /\ Leave(t) /\ line' = RemoveFirst(line, t)
    <3>1. t \in Slots
      BY <2>2 DEF Tasks
    <3>2. Left(line, line', t)
      BY <2>2, Leaves
    <3> QED
      BY <1>5, <2>2, <3>1, <3>2, ControlLeave DEF HeadStays
  <2> QED
    BY <1>5, <2>1, <2>2 DEF AfterFailure
<1> QED
  BY <1>3, <1>4, <1>5 DEF Exchange, Fail, GiveUp

LEMMA ControlStep ==
    ASSUME Control, [Next]_vars
    PROVE  Control' /\ HeadStays
<1>1. Slots \subseteq Tasks /\ Safe \in Tasks /\ Safe \notin Slots /\ Idle \notin Jobs
  BY TaskAssumption DEF Tasks
<1>2. ASSUME NEW t \in Slots, NEW j \in Jobs, Begin(t, j) PROVE Control' /\ HeadStays
  <2>1. /\ job' \in [Slots -> Jobs \cup {Idle}] /\ job'[t] = j
        /\ \A u \in Slots : u # t => job'[u] = job[u]
    BY <1>2 DEF Begin, Control
  <2>2. /\ step' \in [Tasks -> Nat] /\ step'[t] = 1
        /\ \A u \in Tasks : u # t => step'[u] = step[u]
    BY <1>1, <1>2 DEF Begin, Control
  <2>3. ~Contains(line, t)
    BY <1>1, <1>2 DEF Begin, Control, Waits
  <2>4. Joined(line, line', t)
    BY <1>1, <1>2, <2>3, Joins DEF Begin, Control
  <2>5. \A u \in Tasks : Contains(line', u) <=> Waits(u)'
    <3> SUFFICES ASSUME NEW u \in Tasks PROVE Contains(line', u) <=> Waits(u)'
      OBVIOUS
    <3>1. CASE u = t
      BY <1>1, <2>1, <2>4, <3>1 DEF Joined, Waits
    <3>2. CASE u # t
      <4>1. Waits(u)' <=> Waits(u)
        BY <1>1, <2>1, <2>2, <3>2 DEF Waits, SafeRuns, Tasks
      <4> QED
        BY <2>4, <3>2, <4>1 DEF Joined, Control
    <3> QED
      BY <3>1, <3>2
  <2>6. \A u \in Slots : IF job'[u] = Idle THEN step'[u] = 0
                         ELSE step'[u] \in 1 .. Len(Exchanges(job'[u]))
    <3> SUFFICES ASSUME NEW u \in Slots
                 PROVE  IF job'[u] = Idle THEN step'[u] = 0
                        ELSE step'[u] \in 1 .. Len(Exchanges(job'[u]))
      OBVIOUS
    <3>1. CASE u = t
      <4>1. job'[u] = j /\ step'[u] = 1
        BY <2>1, <2>2, <3>1
      <4>2. job'[u] \in Jobs /\ job'[u] # Idle
        BY <1>1, <4>1
      <4>3. \A w \in Jobs : 1 \in 1 .. Len(Exchanges(w))
        <5> SUFFICES ASSUME NEW w \in Jobs PROVE 1 \in 1 .. Len(Exchanges(w))
          OBVIOUS
        <5>1. Len(Exchanges(w)) \in 1 .. 3
          BY ExchangesShape
        <5> QED
          BY <5>1
      <4>4. 1 \in 1 .. Len(Exchanges(job'[u]))
        BY <4>2, <4>3
      <4> QED
        BY <4>1, <4>2, <4>4
    <3>2. CASE u # t
      BY <1>1, <2>1, <2>2, <3>2 DEF Control
    <3> QED
      BY <3>1, <3>2
  <2>7. sent' = sent
    BY <1>2 DEF Begin
  <2> QED
    BY <1>1, <2>1, <2>2, <2>4, <2>5, <2>6, <2>7 DEF Control, Joined, HeadStays
<1>3. ASSUME NEW t \in Tasks, Exchange(t) PROVE Control' /\ HeadStays
  BY <1>3, ControlExchange
<1>4. ASSUME NEW t \in Slots, Cancel(t) PROVE Control' /\ HeadStays
  <2>1. /\ Left(line, line', t)
        /\ line # <<>> /\ ~Holds(t) => line' # <<>> /\ Head(line') = Head(line)
    BY <1>4, Leaves DEF Cancel
  <2>2. Leave(t) /\ sent' = (sent /\ ~Holds(t))
    BY <1>4 DEF Cancel
  <2>3. sent' \in BOOLEAN /\ (sent' => sent /\ ~Holds(t))
    BY <2>2 DEF Control
  <2>4. sent => line # <<>>
    BY DEF Control
  <2> QED
    BY <2>1, <2>2, <2>3, <2>4, ControlLeave DEF HeadStays
<1>5. CASE LockTimesOut
  <2>1. SafeRuns /\ ~Holds(Safe) /\ sent' = sent
    BY <1>5 DEF LockTimesOut
  <2>2. AdvanceSafe /\ job' = job
    BY <1>5 DEF LockTimesOut, AfterFailure
  <2>3. sent' \in BOOLEAN /\ (sent => line # <<>>)
    BY <2>1 DEF Control
  <2> QED
    BY <2>1, <2>2, <2>3, ControlAdvanceSafe DEF HeadStays, Control
<1>6. CASE SafeBegins
  <2>1. job' = job /\ sent' = sent /\ ~SafeRuns /\ ~Contains(line, Safe)
    BY <1>1, <1>6 DEF SafeBegins, Control, Waits
  <2>2. CASE step' = [step EXCEPT ![Safe] = 1] /\ line' = Append(line, Safe)
    <3>1. Joined(line, line', Safe)
      BY <1>1, <2>1, <2>2, Joins DEF Control
    <3>2. 1 \in Channels /\ 1 \in 0 .. ChannelCount + 1
      BY ChannelAssumption DEF Channels
    <3>3. /\ line' \in Seq(Tasks) /\ Distinct(line') /\ line' # <<>> /\ Contains(line', Safe)
          /\ \A x : x # Safe => (Contains(line', x) <=> Contains(line, x))
          /\ line # <<>> => Head(line') = Head(line)
      BY <3>1 DEF Joined
    <3>4. sent' \in BOOLEAN /\ (sent => line # <<>>)
      BY <2>1 DEF Control
    <3> QED
      BY <2>1, <2>2, <3>2, <3>3, <3>4, ControlSafe DEF HeadStays
  <2>3. CASE step' = [step EXCEPT ![Safe] = 0] /\ line' = line
    <3>1. 0 \notin Channels /\ 0 \in 0 .. ChannelCount + 1
      BY ChannelAssumption DEF Channels
    <3>2. line \in Seq(Tasks) /\ Distinct(line) /\ sent \in BOOLEAN /\ (sent => line # <<>>)
      BY DEF Control
    <3> QED
      BY <2>1, <2>3, <3>1, <3>2, ControlSafe DEF HeadStays
  <2> QED
    BY <1>6, <2>2, <2>3 DEF SafeBegins
<1>7. CASE SafeCutOff
  <2>1. /\ Left(line, line', Safe)
        /\ line # <<>> /\ ~Holds(Safe) => line' # <<>> /\ Head(line') = Head(line)
    BY <1>7, Leaves DEF SafeCutOff
  <2>2. job' = job /\ step' = [step EXCEPT ![Safe] = 0] /\ sent' = (sent /\ ~Holds(Safe))
    BY <1>7 DEF SafeCutOff
  <2>3. 0 \notin Channels /\ 0 \in 0 .. ChannelCount + 1
    BY ChannelAssumption DEF Channels
  <2>4. sent' \in BOOLEAN /\ (sent' => sent /\ ~Holds(Safe)) /\ (sent => line # <<>>)
    BY <2>2 DEF Control
  <2>5. /\ line' \in Seq(Tasks) /\ Distinct(line') /\ ~Contains(line', Safe)
        /\ \A x : x # Safe => (Contains(line', x) <=> Contains(line, x))
    BY <2>1 DEF Left
  <2>6. Control'
    BY <2>1, <2>2, <2>3, <2>4, <2>5, ControlSafe
  <2> QED
    BY <2>1, <2>4, <2>6 DEF HeadStays
<1>8. CASE StrayActs \/ SafeEnds \/ UNCHANGED vars
  <2>1. job' = job /\ step' = step /\ line' = line /\ sent' = sent
    BY <1>8 DEF StrayActs, SafeEnds, vars
  <2> QED
    BY <2>1 DEF Control, Waits, SafeRuns, HeadStays
<1>9. CASE Restart
  <2>1. /\ job' = [t \in Slots |-> Idle] /\ step' = [t \in Tasks |-> 0]
        /\ line' = <<>> /\ sent' = FALSE
    BY <1>9 DEF Restart
  <2>2. 0 \notin Channels /\ 0 \in 0 .. ChannelCount + 1
    BY ChannelAssumption DEF Channels
  <2>3. line' \in Seq(Tasks) /\ Distinct(line') /\ \A u : ~Contains(line', u)
    BY <2>1 DEF Distinct, Contains
  <2>4. /\ job' \in [Slots -> Jobs \cup {Idle}] /\ \A u \in Slots : job'[u] = Idle
        /\ step' \in [Tasks -> Nat] /\ \A u \in Tasks : step'[u] = 0
    BY <2>1
  <2>5. \A u \in Tasks : ~Waits(u)'
    BY <1>1, <2>2, <2>4 DEF Waits, SafeRuns, Tasks
  <2> QED
    BY <1>1, <2>1, <2>2, <2>3, <2>4, <2>5 DEF Control, HeadStays
<1> QED
  BY <1>2, <1>3, <1>4, <1>5, <1>6, <1>7, <1>8, <1>9 DEF Next

LEMMA ControlInit == Init => Control
<1> SUFFICES ASSUME Init PROVE Control
  OBVIOUS
<1>1. Slots \subseteq Tasks /\ Safe \in Tasks
  BY DEF Tasks
<1>2. 0 \notin Channels /\ 0 \in 0 .. ChannelCount + 1
  BY ChannelAssumption DEF Channels
<1>3. line \in Seq(Tasks) /\ Distinct(line) /\ \A u : ~Contains(line, u)
  BY DEF Init, Distinct, Contains
<1>4. /\ job \in [Slots -> Jobs \cup {Idle}] /\ \A u \in Slots : job[u] = Idle
      /\ step \in [Tasks -> Nat] /\ \A u \in Tasks : step[u] = 0
  BY DEF Init
<1>5. \A u \in Tasks : ~Waits(u)
  BY <1>1, <1>2, <1>4 DEF Waits, SafeRuns, Tasks
<1>6. sent = FALSE
  BY DEF Init
<1> QED
  BY <1>1, <1>2, <1>3, <1>4, <1>5, <1>6 DEF Control

-----------------------------------------------------------------------------
(* What is behind the line: the stray threads, the instrument, the verdict.*)
Answerers == Tasks \cup {"late"}

Threads == stray \subseteq Command /\ IsFiniteSet(stray) /\ Cardinality(stray) <= MaxStray

Device ==
    /\ bound \in BOOLEAN
    /\ selected \in [ch : Channels, by : Selectors]
    /\ out \subseteq Channels
    /\ outbox \in Seq(Answerers) /\ Len(outbox) <= MaxUnread
    /\ told \in {"none", "pending", "safe", "unsafe", "void"}
    /\ failed \subseteq Channels

LEMMA CommandShape ==
    ASSUME Control, NEW t \in Tasks, Holds(t)
    PROVE  CommandOf(t) \in Command
<1>1. Waits(t)
  BY Leaves
<1>2. CASE t = Safe
  BY <1>1, <1>2 DEF Waits, SafeRuns, CommandOf, Command, Ops
<1>3. CASE t # Safe
  <2>1. t \in Slots /\ job[t] \in Jobs
    BY <1>1, <1>3 DEF Waits, Control, Tasks
  <2>2. job[t].ch \in Channels
    BY <2>1, JobAssumption
  <2>3. step[t] \in 1 .. Len(Exchanges(job[t]))
    BY <1>1, <1>3, <2>1 DEF Waits, Control
  <2>4. Exchanges(job[t])[step[t]] \in Ops
    BY <2>1, <2>3, ExchangesShape
  <2> QED
    BY <1>3, <2>2, <2>4 DEF CommandOf, Command
<1> QED
  BY <1>2, <1>3

LEMMA LateShape ==
    ASSUME NEW t, NEW s \in Seq(Answerers)
    PROVE  /\ Late(t, s) \in Seq(Answerers) /\ Len(Late(t, s)) = Len(s)
           /\ \A i \in 1 .. Len(s) : Late(t, s)[i] = IF s[i] = t THEN "late" ELSE s[i]
<1>1. DOMAIN s = 1 .. Len(s) /\ Len(s) \in Nat
  OBVIOUS
<1> QED
  BY <1>1 DEF Late, Answerers

(* A thread is added only while there is room for it.                      *)
LEMMA StraysShape ==
    ASSUME Control, Threads, NEW t \in Tasks
    PROVE  Strays(t) \subseteq Command /\ IsFiniteSet(Strays(t)) /\ Cardinality(Strays(t)) <= MaxStray
<1> DEFINE command == CommandOf(t)
           rest == IF ~Holds(t) THEN {}
                   ELSE IF ~sent THEN {command}
                   ELSE IF command.op = "ask" THEN {[command EXCEPT !.op = "read"]}
                   ELSE {}
<1>1. Strays(t) = IF Cardinality(stray \cup rest) > MaxStray THEN stray ELSE stray \cup rest
  BY DEF Strays
<1>2. rest \subseteq Command
  <2>1. CASE Holds(t)
    <3>1. command \in Command
      BY <2>1, CommandShape
    <3>2. [command EXCEPT !.op = "read"] \in Command
      BY <3>1 DEF Command, Ops
    <3> QED
      BY <3>1, <3>2
  <2> QED
    BY <2>1
<1>3. IsFiniteSet(stray \cup rest)
  <2>1. \A c : IsFiniteSet(stray \cup {c})
    BY FS_AddElement DEF Threads
  <2>2. rest = {} \/ \E c : rest = {c}
    OBVIOUS
  <2> HIDE DEF rest
  <2>3. CASE rest = {}
    BY <2>3 DEF Threads
  <2> QED
    BY <2>1, <2>2, <2>3
<1> HIDE DEF rest
<1>4. Cardinality(stray \cup rest) \in Nat
  BY <1>3, FS_CardinalityType
<1> QED
  BY <1>1, <1>2, <1>3, <1>4, BoundAssumption DEF Threads

LEMMA ObeyShape ==
    ASSUME Device, NEW c \in Command, NEW by \in Selectors, Obey(c, by)
    PROVE  /\ selected' \in [ch : Channels, by : Selectors] /\ out' \subseteq Channels
           /\ told' \in {"none", "pending", "safe", "unsafe", "void"}
BY DEF Obey, Device, Command

LEMMA KeepShape ==
    ASSUME Device, NEW e \in Answerers, Keep(e)
    PROVE  outbox' \in Seq(Answerers) /\ Len(outbox') <= MaxUnread
BY BoundAssumption DEF Keep, Device

LEMMA AbandonShape ==
    ASSUME Device, NEW t, Abandon(t)
    PROVE  outbox' \in Seq(Answerers) /\ Len(outbox') <= MaxUnread
BY LateShape DEF Abandon, Device

LEMMA ThreadsStep ==
    ASSUME Control, Threads, [Next]_vars
    PROVE  Threads'
<1>1. Slots \subseteq Tasks /\ Safe \in Tasks
  BY DEF Tasks
<1>2. ASSUME NEW t \in Tasks, stray' = Strays(t) PROVE Threads'
  BY <1>2, StraysShape DEF Threads
<1>3. CASE StrayActs
  <2>1. PICK c \in stray : \/ stray' = stray \ {c}
                          \/ /\ c.op = "ask"
                             /\ stray' = (stray \ {c}) \cup {[c EXCEPT !.op = "read"]}
    BY <1>3 DEF StrayActs
  <2>2. /\ IsFiniteSet(stray \ {c}) /\ Cardinality(stray \ {c}) = Cardinality(stray) - 1
        /\ Cardinality(stray) \in Nat
    BY <2>1, FS_RemoveElement, FS_CardinalityType DEF Threads
  <2>3. CASE stray' = stray \ {c}
    BY <2>2, <2>3, BoundAssumption DEF Threads
  <2>4. CASE stray' = (stray \ {c}) \cup {[c EXCEPT !.op = "read"]}
    <3>1. [c EXCEPT !.op = "read"] \in Command
      BY <2>1 DEF Threads, Command, Ops
    <3>2. /\ IsFiniteSet(stray')
          /\ Cardinality(stray') <= Cardinality(stray \ {c}) + 1
      BY <2>2, <2>4, FS_AddElement
    <3>3. Cardinality(stray') \in Nat
      BY <3>2, FS_CardinalityType
    <3> QED
      BY <2>2, <2>4, <3>1, <3>2, <3>3, BoundAssumption DEF Threads
  <2> QED
    BY <2>1, <2>3, <2>4
<1>4. CASE Restart
  BY <1>4, FS_EmptySet, BoundAssumption DEF Restart, Threads
<1>5. ASSUME NEW t \in Tasks, Exchange(t) PROVE Threads'
  <2>1. CASE GiveUp(t)
    BY <1>2, <2>1 DEF GiveUp
  <2>2. CASE Transmit(t) \/ Succeed(t) \/ Fail(t)
    BY <2>2 DEF Transmit, Succeed, Fail, Threads
  <2> QED
    BY <1>5, <2>1, <2>2 DEF Exchange
<1>6. ASSUME NEW t \in Slots, Cancel(t) PROVE Threads'
  BY <1>1, <1>2, <1>6 DEF Cancel
<1>7. CASE SafeCutOff
  BY <1>1, <1>2, <1>7 DEF SafeCutOff
<1>8. CASE \/ \E t \in Slots, j \in Jobs : Begin(t, j)
           \/ LockTimesOut \/ SafeBegins \/ SafeEnds \/ UNCHANGED vars
  BY <1>8 DEF Begin, LockTimesOut, SafeBegins, SafeEnds, vars, Threads
<1> QED
  BY <1>3, <1>4, <1>5, <1>6, <1>7, <1>8 DEF Next

LEMMA DeviceStep ==
    ASSUME Control, Threads, Device, [Next]_vars
    PROVE  Device'
<1>1. Slots \subseteq Tasks /\ Safe \in Tasks /\ Safe \notin Slots
  BY TaskAssumption DEF Tasks
<1>2. ASSUME NEW t \in Slots, NEW j \in Jobs, Begin(t, j) PROVE Device'
  BY <1>2 DEF Begin, Device, benchVars
<1>3. ASSUME NEW t \in Tasks, Transmit(t) PROVE Device'
  <2>1. /\ CommandOf(t) \in Command
        /\ (IF t # Safe /\ ChangesState(job[t]) THEN "setter" ELSE "reader") \in Selectors
        /\ Obey(CommandOf(t), IF t # Safe /\ ChangesState(job[t]) THEN "setter" ELSE "reader")
    BY <1>3, CommandShape DEF Transmit, Selectors
  <2>2. /\ selected' \in [ch : Channels, by : Selectors] /\ out' \subseteq Channels
        /\ told' \in {"none", "pending", "safe", "unsafe", "void"}
    BY <2>1, ObeyShape
  <2>3. outbox' \in Seq(Answerers) /\ Len(outbox') <= MaxUnread
    <3>1. CASE Keep(t)
      BY <3>1, KeepShape DEF Answerers
    <3>2. CASE outbox' = outbox
      BY <3>2 DEF Device
    <3> QED
      BY <1>3, <3>1, <3>2 DEF Transmit
  <2> QED
    BY <1>3, <2>2, <2>3 DEF Transmit, Device
<1>4. ASSUME NEW t \in Tasks, Succeed(t) PROVE Device'
  <2>1. UNCHANGED <<benchVars, told, failed>>
    BY <1>4 DEF Succeed
  <2>2. outbox' \in Seq(Answerers) /\ Len(outbox') <= MaxUnread
    <3>1. CASE outbox # <<>> /\ outbox' = Late(t, Tail(outbox))
      <4>1. Tail(outbox) \in Seq(Answerers) /\ Len(Tail(outbox)) <= Len(outbox)
        BY <3>1 DEF Device
      <4>2. /\ Late(t, Tail(outbox)) \in Seq(Answerers)
            /\ Len(Late(t, Tail(outbox))) = Len(Tail(outbox))
        BY <4>1, LateShape
      <4> QED
        BY <3>1, <4>1, <4>2, BoundAssumption DEF Device
    <3>2. CASE outbox' = outbox
      BY <3>2 DEF Device
    <3> QED
      BY <1>4, <3>1, <3>2 DEF Succeed
  <2>3. bound' \in BOOLEAN
    BY <1>4 DEF Succeed, Advance, Device
  <2> QED
    BY <2>1, <2>2, <2>3 DEF Device, benchVars
<1>5. ASSUME NEW t \in Tasks, AfterFailure(t), t = Safe => SafeRuns
      PROVE  failed' \subseteq Channels
  BY <1>5 DEF AfterFailure, Device, SafeRuns
<1>6. ASSUME NEW t \in Tasks, Fail(t) \/ GiveUp(t) PROVE Device'
  <2>1. Holds(t) /\ Abandon(t) /\ AfterFailure(t) /\ UNCHANGED <<bound, benchVars, told>>
    BY <1>6 DEF Fail, GiveUp
  <2>2. t = Safe => SafeRuns
    BY <2>1, Leaves DEF Waits
  <2>3. failed' \subseteq Channels
    BY <1>5, <2>1, <2>2
  <2>4. outbox' \in Seq(Answerers) /\ Len(outbox') <= MaxUnread
    BY <2>1, AbandonShape
  <2> QED
    BY <2>1, <2>3, <2>4 DEF Device, benchVars
<1>7. ASSUME NEW t \in Slots, Cancel(t) PROVE Device'
  <2>1. outbox' \in Seq(Answerers) /\ Len(outbox') <= MaxUnread
    BY <1>7, AbandonShape DEF Cancel
  <2> QED
    BY <1>7, <2>1 DEF Cancel, Device, benchVars
<1>8. CASE LockTimesOut
  <2>1. failed' \subseteq Channels
    BY <1>1, <1>5, <1>8 DEF LockTimesOut
  <2> QED
    BY <1>8, <2>1 DEF LockTimesOut, Device, benchVars
<1>9. CASE StrayActs
  <2>1. PICK c \in stray :
           \/ Obey(c, "stray") /\ UNCHANGED outbox
           \/ Keep("late") /\ UNCHANGED <<benchVars, told>>
           \/ outbox # <<>> /\ outbox' = Tail(outbox) /\ UNCHANGED <<benchVars, told>>
           \/ UNCHANGED <<benchVars, outbox, told>>
    BY <1>9 DEF StrayActs
  <2>2. UNCHANGED <<bound, failed>>
    BY <1>9 DEF StrayActs
  <2>3. CASE Obey(c, "stray") /\ UNCHANGED outbox
    <3>1. c \in Command /\ "stray" \in Selectors
      BY DEF Threads, Selectors
    <3>2. /\ selected' \in [ch : Channels, by : Selectors] /\ out' \subseteq Channels
          /\ told' \in {"none", "pending", "safe", "unsafe", "void"}
      BY <2>3, <3>1, ObeyShape
    <3> QED
      BY <2>2, <2>3, <3>2 DEF Device
  <2>4. CASE Keep("late") /\ UNCHANGED <<benchVars, told>>
    <3>1. outbox' \in Seq(Answerers) /\ Len(outbox') <= MaxUnread
      BY <2>4, KeepShape DEF Answerers
    <3> QED
      BY <2>2, <2>4, <3>1 DEF Device, benchVars
  <2>5. CASE outbox # <<>> /\ outbox' = Tail(outbox) /\ UNCHANGED <<benchVars, told>>
    <3>1. outbox' \in Seq(Answerers) /\ Len(outbox') <= MaxUnread
      BY <2>5, BoundAssumption DEF Device
    <3> QED
      BY <2>2, <2>5, <3>1 DEF Device, benchVars
  <2>6. CASE UNCHANGED <<benchVars, outbox, told>>
    BY <2>2, <2>6 DEF Device, benchVars
  <2> QED
    BY <2>1, <2>3, <2>4, <2>5, <2>6
<1>10. CASE SafeBegins \/ SafeEnds \/ SafeCutOff \/ UNCHANGED vars
  <2>1. /\ UNCHANGED <<bound, selected, out, outbox>>
        /\ failed' = failed \/ failed' = {}
        /\ told' = told \/ told' \in {"pending", "safe", "unsafe"}
    BY <1>10 DEF SafeBegins, SafeEnds, SafeCutOff, vars, benchVars
  <2> QED
    BY <2>1 DEF Device
<1>11. CASE Restart
  <2>1. UNCHANGED <<selected, out>> /\ bound' = FALSE /\ told' = "none" /\ failed' = {}
    BY <1>11 DEF Restart, benchVars
  <2>2. outbox' \in Seq(Answerers) /\ Len(outbox') <= MaxUnread
    BY <1>11, BoundAssumption DEF Restart
  <2> QED
    BY <2>1, <2>2 DEF Device
<1> QED
  BY <1>2, <1>3, <1>4, <1>6, <1>7, <1>8, <1>9, <1>10, <1>11 DEF Next, Exchange

(* The types of the specification's variables.                             *)
Typed == Control /\ Threads /\ Device

LEMMA TypedImpliesTypeOK == Typed => TypeOK
<1> SUFFICES ASSUME Typed PROVE TypeOK
  OBVIOUS
<1>1. \A t \in Tasks : step[t] \in 0 .. (ChannelCount + 4)
  <2> SUFFICES ASSUME NEW t \in Tasks PROVE step[t] \in 0 .. (ChannelCount + 4)
    OBVIOUS
  <2>1. CASE t = Safe
    BY <2>1, ChannelAssumption DEF Typed, Control
  <2>2. CASE t # Safe /\ job[t] = Idle
    BY <2>2, ChannelAssumption DEF Typed, Control, Tasks
  <2>3. CASE t # Safe /\ job[t] # Idle
    <3>1. t \in Slots /\ job[t] \in Jobs
      BY <2>3 DEF Typed, Control, Tasks
    <3>2. Len(Exchanges(job[t])) \in 1 .. 3
      BY <3>1, ExchangesShape
    <3>3. step[t] \in 1 .. Len(Exchanges(job[t]))
      BY <2>3, <3>1 DEF Typed, Control
    <3>4. \A n \in 1 .. 3 : \A k \in 1 .. n : k \in 0 .. (ChannelCount + 4)
      BY ChannelAssumption
    <3> QED
      BY <3>2, <3>3, <3>4
  <2> QED
    BY <2>1, <2>2, <2>3
<1>2. step \in [Tasks -> 0 .. (ChannelCount + 4)]
  BY <1>1 DEF Typed, Control
<1> QED
  BY <1>2 DEF Typed, Control, Threads, Device, TypeOK, Distinct, Answerers

LEMMA TypedInit == Init => Typed
<1> SUFFICES ASSUME Init PROVE Typed
  OBVIOUS
<1>1. Control
  BY ControlInit
<1>2. Threads
  BY FS_EmptySet, BoundAssumption DEF Init, Threads
<1>3. Device
  <2>1. 1 \in Channels
    BY ChannelAssumption DEF Channels
  <2>2. selected \in [ch : Channels, by : Selectors]
    BY <2>1 DEF Init, Selectors
  <2>3. outbox \in Seq(Answerers) /\ Len(outbox) <= MaxUnread
    BY BoundAssumption DEF Init
  <2> QED
    BY <2>2, <2>3 DEF Init, Device
<1> QED
  BY <1>1, <1>2, <1>3 DEF Typed

LEMMA TypedStep == Typed /\ [Next]_vars => Typed'
BY ControlStep, ThreadsStep, DeviceStep DEF Typed

(* Control of the line, the handlers' progress, the stray threads and the  *)
(* instrument stay within their types, however handlers and the safe state *)
(* come and go.                                                            *)
THEOREM BenchTyped == Spec => []TypeOK
<1>1. Spec => []Typed
  BY TypedInit, TypedStep, PTL DEF Spec
<1> QED
  BY <1>1, TypedImpliesTypeOK, PTL

-----------------------------------------------------------------------------
(* The safe state goes through the channels in their order.  While its     *)
(* verdict is not void, a channel it has passed is off unless its command  *)
(* failed, and so is the one it is at once its command is on the wire.     *)
Underway == sent /\ Holds(Safe)

SweepKept ==
    /\ SafeRuns => told \in {"pending", "void"}
    /\ told \in {"pending", "safe"} /\ step[Safe] > 0 =>
         \A c \in out : c \in failed \/ c > step[Safe] \/ (c = step[Safe] /\ ~Underway)

(* What a command that the instrument obeys can do to that.                *)
LEMMA SweepObeys ==
    ASSUME Typed, SweepKept, NEW c \in Command, NEW by, Obey(c, by), step' = step, failed' = failed
    PROVE  /\ SafeRuns' => told' \in {"pending", "void"}
           /\ told' \in {"pending", "safe"} => out' \subseteq out /\ told' = told
<1>1. told' \in {"pending", "safe"} => c.op # "on" /\ told' = told
  BY DEF Obey
<1>2. c.op # "on" => out' \subseteq out
  BY DEF Obey
<1>3. SafeRuns' => told' \in {"pending", "void"}
  BY DEF Obey, SweepKept, SafeRuns
<1> QED
  BY <1>1, <1>2, <1>3

LEMMA SweepStep ==
    ASSUME Typed, SweepKept, [Next]_vars
    PROVE  SweepKept'
<1>1. /\ Safe \in Tasks /\ Slots \subseteq Tasks /\ Safe \notin Slots
      /\ ChannelCount \in Nat \ {0} /\ Channels = 1 .. ChannelCount
  BY TaskAssumption, ChannelAssumption DEF Tasks, Channels
<1>2. /\ step[Safe] \in 0 .. ChannelCount + 1 /\ step \in [Tasks -> Nat]
      /\ out \subseteq Channels /\ (sent => line # <<>>)
  BY DEF Typed, Control, Device
<1>3. HeadStays
  BY ControlStep DEF Typed
(* The command of the safe state's task comes on the wire by Transmit only.*)
<1>4. Underway' => Underway \/ \E t \in Tasks : Transmit(t)
  <2>1. CASE sent /\ sent'
    BY <1>3, <2>1 DEF HeadStays, Underway, Holds
  <2>2. CASE ~sent /\ sent'
    BY <1>3, <2>2 DEF HeadStays
  <2> QED
    BY <2>1, <2>2 DEF Underway, Typed, Control
<1>5. ASSUME step'[Safe] = step[Safe], failed' = failed, Underway' => Underway,
             SafeRuns' => told' \in {"pending", "void"},
             told' \in {"pending", "safe"} => out' \subseteq out /\ told \in {"pending", "safe"}
      PROVE  SweepKept'
  BY <1>5 DEF SweepKept
<1>6. ASSUME NEW t \in Tasks, Transmit(t) PROVE SweepKept'
  <2>1. /\ step' = step /\ failed' = failed /\ line' = line /\ sent' = TRUE /\ ~sent /\ Holds(t)
        /\ \E by : Obey(CommandOf(t), by)
    BY <1>6 DEF Transmit
  <2>2. CommandOf(t) \in Command
    BY <2>1, CommandShape DEF Typed
  <2>3. /\ SafeRuns' => told' \in {"pending", "void"}
        /\ told' \in {"pending", "safe"} => out' \subseteq out /\ told' = told
    BY <2>1, <2>2, SweepObeys
  <2>4. CASE t # Safe
    <3>1. ~Underway'
      BY <2>1, <2>4 DEF Underway, Holds
    <3> QED
      BY <1>5, <2>1, <2>3, <3>1
  <2>5. CASE t = Safe
    <3>1. CommandOf(t) = [op |-> "off", ch |-> step[Safe]]
      BY <2>5 DEF CommandOf
    <3>2. out' = out \ {step[Safe]}
      BY <2>1, <3>1 DEF Obey
    <3> QED
      BY <2>1, <2>3, <3>2 DEF SweepKept
  <2> QED
    BY <2>4, <2>5
<1>7. ASSUME SafeRuns, AdvanceSafe, UNCHANGED <<out, told>>,
             \/ failed' = failed /\ Underway
             \/ failed' = failed \cup {step[Safe]},
             ~Underway'
      PROVE  SweepKept'
  <2>1. step'[Safe] = step[Safe] + 1
    BY <1>1, <1>2, <1>7 DEF AdvanceSafe
  <2>2. told \in {"pending", "void"}
    BY <1>7 DEF SweepKept
  <2>3. told = "pending" =>
          \A c \in out' : c \in failed' \/ c > step'[Safe] \/ c = step'[Safe]
    <3> SUFFICES ASSUME told = "pending", NEW c \in out
                 PROVE  c \in failed' \/ c > step'[Safe] \/ c = step'[Safe]
      BY <1>7
    <3>1. c \in Nat /\ step[Safe] \in Nat /\ step[Safe] > 0
      BY <1>1, <1>2, <1>7 DEF SafeRuns
    <3>2. c \in failed \/ c > step[Safe] \/ (c = step[Safe] /\ ~Underway)
      BY <3>1 DEF SweepKept
    <3> QED
      BY <1>7, <2>1, <3>1, <3>2
  <2> QED
    BY <1>7, <2>2, <2>3 DEF SweepKept
<1>8. ASSUME NEW t \in Tasks, Exchange(t), ~Transmit(t) PROVE SweepKept'
  <2>1. Holds(t) /\ sent' = FALSE /\ UNCHANGED <<out, told>>
    BY <1>8 DEF Exchange, Succeed, Fail, GiveUp, benchVars
  <2>2. ~Underway' /\ Waits(t)
    BY <2>1, Leaves DEF Underway, Typed
  <2>3. CASE t = Safe
    <3>1. SafeRuns
      BY <2>2, <2>3 DEF Waits
    <3>2. AdvanceSafe /\ ((failed' = failed /\ Underway) \/ failed' = failed \cup {step[Safe]})
      BY <1>8, <2>1, <2>3 DEF Exchange, Succeed, Fail, GiveUp, AfterFailure, Underway
    <3> QED
      BY <1>7, <2>1, <2>2, <3>1, <3>2
  <2>4. CASE t # Safe
    <3>1. step'[Safe] = step[Safe] /\ failed' = failed
      BY <1>1, <1>2, <1>8, <2>4
         DEF Exchange, Succeed, Fail, GiveUp, AfterFailure, Advance, Leave
    <3> QED
      BY <1>5, <2>1, <2>2, <3>1 DEF SweepKept, SafeRuns
  <2> QED
    BY <2>3, <2>4
<1>9. ASSUME NEW t \in Slots, NEW j \in Jobs, Begin(t, j) PROVE SweepKept'
  <2>1. /\ step'[Safe] = step[Safe] /\ sent' = sent
        /\ UNCHANGED <<out, told, failed>>
    BY <1>1, <1>2, <1>9 DEF Begin, benchVars
  <2>2. Underway' => Underway
    BY <1>3, <2>1 DEF HeadStays, Underway, Holds
  <2> QED
    BY <1>5, <2>1, <2>2 DEF SweepKept, SafeRuns
<1>10. ASSUME NEW t \in Slots, Cancel(t) PROVE SweepKept'
  <2>1. /\ step'[Safe] = step[Safe] /\ (sent' => sent)
        /\ UNCHANGED <<out, told, failed>>
    BY <1>1, <1>2, <1>10 DEF Cancel, Leave, benchVars
  <2>2. Underway' => Underway
    BY <1>3, <2>1 DEF HeadStays, Underway, Holds
  <2> QED
    BY <1>5, <2>1, <2>2 DEF SweepKept, SafeRuns
<1>11. CASE LockTimesOut
  <2>1. /\ SafeRuns /\ ~Holds(Safe) /\ sent' = sent /\ UNCHANGED <<out, told>>
        /\ AdvanceSafe /\ failed' = failed \cup {step[Safe]}
    BY <1>11 DEF LockTimesOut, AfterFailure, benchVars
  <2>2. ~Underway'
    BY <1>3, <2>1 DEF HeadStays, Underway, Holds
  <2> QED
    BY <1>7, <2>1, <2>2
<1>12. CASE StrayActs
  <2>1. PICK c \in stray : Obey(c, "stray") \/ UNCHANGED <<benchVars, told>>
    BY <1>12 DEF StrayActs
  <2>2. step' = step /\ failed' = failed /\ line' = line /\ sent' = sent
    BY <1>12 DEF StrayActs
  <2>3. Underway' => Underway
    BY <2>2 DEF Underway, Holds
  <2>4. CASE Obey(c, "stray")
    <3>1. c \in Command
      BY DEF Typed, Threads
    <3>2. /\ SafeRuns' => told' \in {"pending", "void"}
          /\ told' \in {"pending", "safe"} => out' \subseteq out /\ told' = told
      BY <2>2, <2>4, <3>1, SweepObeys
    <3> QED
      BY <1>5, <2>2, <2>3, <3>2
  <2>5. CASE UNCHANGED <<benchVars, told>>
    BY <1>5, <2>2, <2>3, <2>5 DEF SweepKept, SafeRuns, benchVars
  <2> QED
    BY <2>1, <2>4, <2>5
<1>13. CASE SafeBegins
  <2>1. CASE step' = [step EXCEPT ![Safe] = 1] /\ told' = "pending"
    <3>1. step'[Safe] = 1 /\ out' = out /\ sent' = sent /\ ~SafeRuns
      BY <1>1, <1>2, <1>13, <2>1 DEF SafeBegins, benchVars
    <3>2. ~Underway
      <4>1. Holds(Safe) => SafeRuns
        BY <1>1, Leaves DEF Typed, Waits
      <4> QED
        BY <3>1, <4>1 DEF Underway
    <3>3. ~Underway'
      BY <1>3, <3>1, <3>2 DEF HeadStays, Underway, Holds
    <3>4. \A c \in out' : c > step'[Safe] \/ c = step'[Safe]
      BY <1>1, <1>2, <3>1
    <3> QED
      BY <2>1, <3>3, <3>4 DEF SweepKept
  <2>2. CASE step' = [step EXCEPT ![Safe] = 0]
    <3>1. step'[Safe] = 0 /\ ~(0 > 0) /\ 0 \notin Channels
      BY <1>1, <1>2, <2>2
    <3> QED
      BY <3>1 DEF SweepKept, SafeRuns
  <2> QED
    BY <1>13, <2>1, <2>2 DEF SafeBegins
<1>14. CASE SafeEnds
  <2>1. /\ step' = step /\ failed' = failed /\ line' = line /\ sent' = sent /\ out' = out
        /\ told = "pending" /\ step[Safe] = ChannelCount + 1
    BY <1>14 DEF SafeEnds, benchVars
  <2>2. ~SafeRuns'
    BY <1>1, <2>1 DEF SafeRuns
  <2>3. Underway' => Underway
    BY <2>1 DEF Underway, Holds
  <2> QED
    BY <1>5, <2>1, <2>2, <2>3
<1>15. CASE SafeCutOff \/ Restart
  <2>1. step'[Safe] = 0 /\ ~(0 > 0) /\ 0 \notin Channels
    BY <1>1, <1>2, <1>15 DEF SafeCutOff, Restart
  <2> QED
    BY <2>1 DEF SweepKept, SafeRuns
<1>16. CASE UNCHANGED vars
  BY <1>16 DEF vars, benchVars, SweepKept, SafeRuns, Underway, Holds
<1> QED
  BY <1>6, <1>8, <1>9, <1>10, <1>11, <1>12, <1>13, <1>14, <1>15, <1>16 DEF Next

LEMMA SweepInit == Init => SweepKept
<1> SUFFICES ASSUME Init PROVE SweepKept
  OBVIOUS
<1>1. step[Safe] = 0 /\ 0 \notin Channels /\ ~(0 > 0)
  BY ChannelAssumption DEF Init, Tasks, Channels
<1> QED
  BY <1>1 DEF SweepKept, SafeRuns

(* A channel that is on after a safe state with commands to send failed to *)
(* take its own, unless something was switched on meanwhile: no channel is *)
(* skipped, whatever else uses the transport and whichever commands fail.  *)
THEOREM EveryChannelAddressed == Spec => []LeftOnOnlyByFailure
<1>1. Typed /\ SweepKept /\ [Next]_vars => (Typed /\ SweepKept)'
  BY TypedStep, SweepStep
<1>2. Typed /\ SweepKept => LeftOnOnlyByFailure
  <2> SUFFICES ASSUME Typed, SweepKept, told = "safe", step[Safe] > 0, NEW c \in out
               PROVE  c \in failed
    BY DEF LeftOnOnlyByFailure
  <2>1. /\ ChannelCount \in Nat /\ step[Safe] \in 0 .. ChannelCount + 1
        /\ c \in 1 .. ChannelCount /\ step[Safe] \notin 1 .. ChannelCount
    BY ChannelAssumption DEF Typed, Control, Device, SweepKept, SafeRuns, Channels
  <2>2. c \in failed \/ c > step[Safe] \/ c = step[Safe]
    BY DEF SweepKept
  <2> QED
    BY <2>1, <2>2
<1>3. Spec => [](Typed /\ SweepKept)
  BY <1>1, TypedInit, SweepInit, PTL DEF Spec
<1> QED
  BY <1>2, <1>3, PTL

-----------------------------------------------------------------------------
(* One state-changing handler at a time; from its selection on, a psu.set  *)
(* has its channel selected, or a reader or a stray thread was the last to *)
(* select.                                                                 *)
Setting(t) == job[t] # Idle /\ ChangesState(job[t])

OneSetter == \A t, u \in Slots : Setting(t) /\ Setting(u) => t = u

Chosen(t) == job[t] # Idle /\ job[t].kind = "set" /\ (step[t] = 2 \/ (step[t] = 1 /\ sent /\ Holds(t)))

SelectionKept ==
    Selects => \A t \in Slots : Chosen(t) => selected.ch = job[t].ch \/ selected.by \in {"reader", "stray"}

LEMMA OneSetterStep ==
    ASSUME Typed, OneSetter, [Next]_vars
    PROVE  OneSetter'
<1>1. Slots \subseteq Tasks /\ job \in [Slots -> Jobs \cup {Idle}]
  BY DEF Tasks, Typed, Control
<1>2. ASSUME NEW t \in Slots, NEW j \in Jobs, Begin(t, j) PROVE OneSetter'
  <2>1. /\ job'[t] = j /\ \A u \in Slots : u # t => job'[u] = job[u]
    BY <1>1, <1>2 DEF Begin
  <2>2. ChangesState(j) => \A u \in Slots : u # t => ~Setting(u)
    BY <1>2 DEF Begin, DeviceFree, Busy, Setting
  <2>3. \A u \in Slots : u # t => (Setting(u)' <=> Setting(u))
    BY <2>1 DEF Setting, ChangesState
  <2>4. Setting(t)' => ChangesState(j)
    BY <2>1 DEF Setting, ChangesState
  <2> QED
    BY <2>2, <2>3, <2>4 DEF OneSetter
<1>3. CASE \A u \in Slots : job'[u] = job[u] \/ job'[u] = Idle
  BY <1>3 DEF OneSetter, Setting, ChangesState
<1>4. ASSUME NEW t \in Tasks, Exchange(t) PROVE \A u \in Slots : job'[u] = job[u] \/ job'[u] = Idle
  BY <1>1, <1>4 DEF Exchange, Transmit, Succeed, Fail, GiveUp, Advance, AfterFailure, Leave
<1>5. ASSUME NEW t \in Slots, Cancel(t) PROVE \A u \in Slots : job'[u] = job[u] \/ job'[u] = Idle
  BY <1>1, <1>5 DEF Cancel, Leave
<1>6. CASE LockTimesOut \/ StrayActs \/ SafeBegins \/ SafeEnds \/ SafeCutOff \/ UNCHANGED vars
  BY <1>3, <1>6 DEF LockTimesOut, AfterFailure, StrayActs, SafeBegins, SafeEnds, SafeCutOff, vars
<1>7. CASE Restart
  BY <1>3, <1>7 DEF Restart
<1> QED
  BY <1>2, <1>3, <1>4, <1>5, <1>6, <1>7 DEF Next

LEMMA SelectionStep ==
    ASSUME Typed, OneSetter, SelectionKept, [Next]_vars
    PROVE  SelectionKept'
<1> SUFFICES ASSUME Selects, NEW t \in Slots, Chosen(t)'
             PROVE  selected'.ch = job'[t].ch \/ selected'.by \in {"reader", "stray"}
  BY DEF SelectionKept
<1>1. /\ Safe \in Tasks /\ Slots \subseteq Tasks /\ Safe \notin Slots /\ Idle \notin Jobs
      /\ job \in [Slots -> Jobs \cup {Idle}] /\ step \in [Tasks -> Nat]
  BY TaskAssumption DEF Tasks, Typed, Control
<1>2. HeadStays
  BY ControlStep DEF Typed
(* A handler that keeps its place is as chosen as it was.                  *)
<1>3. ASSUME job'[t] = job[t], step'[t] = step[t], sent' /\ Holds(t)' => sent /\ Holds(t)
      PROVE  Chosen(t)
  BY <1>3 DEF Chosen
<1>4. ASSUME job'[t] = job[t], Chosen(t), selected' = selected
      PROVE  selected'.ch = job'[t].ch \/ selected'.by \in {"reader", "stray"}
  BY <1>4 DEF SelectionKept
<1>5. ASSUME NEW u \in Tasks, Transmit(u)
      PROVE  selected'.ch = job'[t].ch \/ selected'.by \in {"reader", "stray"}
  <2>1. /\ job' = job /\ step' = step /\ line' = line /\ ~sent /\ Holds(u)
        /\ Obey(CommandOf(u), IF u # Safe /\ ChangesState(job[u]) THEN "setter" ELSE "reader")
    BY <1>5 DEF Transmit
  <2>2. CASE CommandOf(u).op # "select"
    <3>1. selected' = selected
      BY <2>1, <2>2 DEF Obey
    <3>2. CASE u = t
      <4>1. job[t] \in Jobs /\ job[t].kind = "set"
        BY <1>1, <2>1 DEF Chosen
      <4>2. Exchanges(job[t])[1] = "select"
        BY <4>1, ExchangesShape
      <4>3. CommandOf(t).op = Exchanges(job[t])[step[t]]
        BY <1>1 DEF CommandOf
      <4>4. step[t] # 1
        BY <2>2, <3>2, <4>2, <4>3
      <4>5. Chosen(t)
        BY <2>1, <4>4 DEF Chosen
      <4> QED
        BY <1>4, <2>1, <3>1, <4>5
    <3>3. CASE u # t
      <4>1. ~Holds(t)'
        BY <2>1, <3>3 DEF Holds
      <4>2. Chosen(t)
        BY <1>3, <2>1, <4>1
      <4> QED
        BY <1>4, <2>1, <3>1, <4>2
    <3> QED
      BY <3>2, <3>3
  <2>3. CASE CommandOf(u).op = "select"
    <3>1. u # Safe
      BY <2>3 DEF CommandOf
    <3>2. u \in Slots /\ CommandOf(u).ch = job[u].ch
      BY <3>1 DEF CommandOf, Tasks
    <3>3. /\ selected'.ch = job[u].ch
          /\ selected'.by = IF ChangesState(job[u]) THEN "setter" ELSE "reader"
      BY <2>1, <2>3, <3>1, <3>2 DEF Obey
    <3>4. CASE ~ChangesState(job[u])
      BY <3>3, <3>4
    <3>5. CASE ChangesState(job[u])
      <4>1. Waits(u)
        BY <1>1, <2>1, Leaves DEF Typed
      <4>2. Setting(u)
        BY <3>1, <3>5, <4>1 DEF Setting, Waits
      <4>3. Setting(t)
        BY <2>1 DEF Chosen, Setting, ChangesState
      <4>4. u = t
        BY <3>2, <4>2, <4>3 DEF OneSetter
      <4> QED
        BY <2>1, <3>3, <4>4
    <3> QED
      BY <3>4, <3>5
  <2> QED
    BY <2>2, <2>3
<1>6. ASSUME NEW u \in Tasks, Exchange(u), ~Transmit(u)
      PROVE  selected'.ch = job'[t].ch \/ selected'.by \in {"reader", "stray"}
  <2>1. Holds(u) /\ sent' = FALSE /\ selected' = selected
    BY <1>6 DEF Exchange, Succeed, Fail, GiveUp, benchVars
  <2>2. CASE u # t
    <3>1. job'[t] = job[t] /\ step'[t] = step[t]
      BY <1>1, <1>6, <2>2
         DEF Exchange, Succeed, Fail, GiveUp, AfterFailure, Advance, Leave, AdvanceSafe
    <3> QED
      BY <1>3, <1>4, <2>1, <3>1
  <2>3. CASE u = t
    <3>1. CASE job' = job /\ step' = [step EXCEPT ![t] = @ + 1] /\ sent
      <4>1. step'[t] = step[t] + 1 /\ step[t] \in Nat
        BY <1>1, <3>1
      <4>2. step'[t] = 2
        BY <2>1 DEF Chosen
      <4>3. step[t] = 1
        BY <4>1, <4>2
      <4>4. Chosen(t)
        BY <2>1, <2>3, <3>1, <4>3 DEF Chosen
      <4> QED
        BY <1>4, <2>1, <3>1, <4>4
    <3>2. CASE job' = [job EXCEPT ![t] = Idle]
      BY <1>1, <3>2 DEF Chosen
    <3> QED
      BY <1>1, <1>6, <2>3, <3>1, <3>2 DEF Exchange, Succeed, Fail, GiveUp, AfterFailure, Advance, Leave
  <2> QED
    BY <2>2, <2>3
<1>7. ASSUME NEW u \in Slots, NEW j \in Jobs, Begin(u, j)
      PROVE  selected'.ch = job'[t].ch \/ selected'.by \in {"reader", "stray"}
  <2>1. sent' = sent /\ selected' = selected
    BY <1>7 DEF Begin, benchVars
  <2>2. sent' /\ Holds(t)' => sent /\ Holds(t)
    BY <1>2, <2>1 DEF HeadStays, Holds
  <2>3. CASE u # t
    <3>1. job'[t] = job[t] /\ step'[t] = step[t]
      BY <1>1, <1>7, <2>3 DEF Begin
    <3> QED
      BY <1>3, <1>4, <2>1, <2>2, <3>1
  <2>4. CASE u = t
    <3>1. step'[t] = 1 /\ job[t] = Idle
      BY <1>1, <1>7, <2>4 DEF Begin
    <3>2. Waits(t)
      BY <1>1, <2>1, <2>2, <3>1, Leaves DEF Chosen, Typed
    <3> QED
      BY <1>1, <3>1, <3>2 DEF Waits
  <2> QED
    BY <2>3, <2>4
<1>8. ASSUME NEW u \in Slots, Cancel(u)
      PROVE  selected'.ch = job'[t].ch \/ selected'.by \in {"reader", "stray"}
  <2>1. (sent' => sent) /\ selected' = selected
    BY <1>8 DEF Cancel, benchVars
  <2>2. sent' /\ Holds(t)' => sent /\ Holds(t)
    BY <1>2, <2>1 DEF HeadStays, Holds
  <2>3. u # t
    BY <1>1, <1>8 DEF Cancel, Leave, Chosen
  <2>4. job'[t] = job[t] /\ step'[t] = step[t]
    BY <1>1, <1>8, <2>3 DEF Cancel, Leave
  <2> QED
    BY <1>3, <1>4, <2>1, <2>2, <2>4
<1>9. CASE StrayActs
  <2>1. job' = job /\ step' = step /\ line' = line /\ sent' = sent
    BY <1>9 DEF StrayActs
  <2>2. Chosen(t)
    BY <1>3, <2>1 DEF Holds
  <2>3. selected' = selected \/ selected'.by = "stray"
    BY <1>9 DEF StrayActs, Obey, benchVars
  <2> QED
    BY <1>4, <2>1, <2>2, <2>3
<1>10. CASE LockTimesOut \/ SafeBegins \/ SafeEnds \/ SafeCutOff \/ UNCHANGED vars
  <2>1. job' = job /\ step'[t] = step[t] /\ selected' = selected /\ (sent' => sent)
    <3>1. job' = job /\ selected' = selected
      BY <1>1, <1>10
         DEF LockTimesOut, AfterFailure, SafeBegins, SafeEnds, SafeCutOff, vars, benchVars
    <3>3. sent' => sent
      <4>1. CASE SafeCutOff
        BY <4>1 DEF SafeCutOff
      <4>2. CASE LockTimesOut \/ SafeBegins \/ SafeEnds \/ UNCHANGED vars
        BY <4>2 DEF LockTimesOut, SafeBegins, SafeEnds, vars
      <4> QED
        BY <1>10, <4>1, <4>2
    <3>2. step' = step \/ \E k : step' = [step EXCEPT ![Safe] = k]
      BY <1>10 DEF LockTimesOut, AfterFailure, AdvanceSafe, SafeBegins, SafeEnds, SafeCutOff, vars
    <3> QED
      BY <1>1, <3>1, <3>2, <3>3
  <2>2. sent' /\ Holds(t)' => sent /\ Holds(t)
    BY <1>2, <2>1 DEF HeadStays, Holds
  <2> QED
    BY <1>3, <1>4, <2>1, <2>2
<1>11. CASE Restart
  BY <1>11 DEF Restart, Chosen
<1> QED
  BY <1>5, <1>6, <1>7, <1>8, <1>9, <1>10, <1>11 DEF Next

(* A setpoint lands on the channel its own handler selected, unless a      *)
(* reading action, which takes no device lock, or a stray thread selected  *)
(* another since: the device lock and the transport's lock leave no third  *)
(* way.                                                                    *)
THEOREM SettersApart == Spec => []SettersKeepApart
<1>1. Init => OneSetter /\ SelectionKept
  BY DEF Init, OneSetter, Setting, SelectionKept, Chosen
<1>2. Typed /\ OneSetter /\ SelectionKept /\ [Next]_vars => (Typed /\ OneSetter /\ SelectionKept)'
  BY TypedStep, OneSetterStep, SelectionStep
<1>3. Typed /\ SelectionKept => SettersKeepApart
  <2> SUFFICES ASSUME Typed, SelectionKept, NEW t \in Busy, AtSetpoint(t)
               PROVE  selected.ch = job[t].ch \/ selected.by \in {"reader", "stray"}
    BY DEF SettersKeepApart
  <2>1. t \in Slots /\ t # Safe /\ job[t] \in Jobs /\ job[t] # Idle
    BY TaskAssumption DEF Busy, Typed, Control
  <2>2. step[t] \in 1 .. Len(Exchanges(job[t])) /\ Exchanges(job[t])[step[t]] = "volt"
    BY <2>1 DEF AtSetpoint, CommandOf, Typed, Control
  <2>3. Selects /\ job[t].kind = "set"
    BY <2>1, <2>2, ExchangesShape DEF AtSetpoint
  <2>4. /\ Len(Exchanges(job[t])) = 3 /\ Exchanges(job[t])[1] = "select"
        /\ Exchanges(job[t])[3] = "ask"
    BY <2>1, <2>3, ExchangesShape
  <2>5. step[t] = 2
    BY <2>2, <2>4
  <2> QED
    BY <2>1, <2>3, <2>5 DEF SelectionKept, Chosen
<1>4. Spec => [](Typed /\ OneSetter /\ SelectionKept)
  BY <1>1, <1>2, TypedInit, PTL DEF Spec
<1> QED
  BY <1>3, <1>4, PTL

-----------------------------------------------------------------------------
(* Of the unread answers nobody was given up for, there is at most one: the*)
(* answer to the query that is on the wire.                                *)
AnswersKept ==
    /\ \A i \in 1 .. Len(outbox) : outbox[i] # "late" =>
         sent /\ Holds(outbox[i]) /\ outbox[i] \in Tasks /\ CommandOf(outbox[i]).op = "ask"
    /\ \A i, j \in 1 .. Len(outbox) : outbox[i] # "late" /\ outbox[j] # "late" => i = j

AllLate(s) == \A i \in 1 .. Len(s) : s[i] = "late"

LEMMA AnswersStep ==
    ASSUME Typed, AnswersKept, [Next]_vars
    PROVE  AnswersKept'
<1>1. /\ Safe \in Tasks /\ Slots \subseteq Tasks /\ Safe \notin Slots
      /\ job \in [Slots -> Jobs \cup {Idle}] /\ step \in [Tasks -> Nat]
      /\ outbox \in Seq(Answerers) /\ outbox' \in Seq(Answerers)
  BY TaskAssumption, TypedStep DEF Tasks, Typed, Control, Device
<1>2. HeadStays
  BY ControlStep DEF Typed
<1>3. ASSUME AllLate(outbox') PROVE AnswersKept'
  BY <1>3 DEF AllLate, AnswersKept
<1>4. ASSUME ~sent PROVE AllLate(outbox)
  BY <1>4 DEF AllLate, AnswersKept
(* A task that does not wait any more leaves late answers only.            *)
<1>5. ASSUME NEW t \in Tasks, Holds(t) PROVE AllLate(Late(t, outbox))
  <2> SUFFICES ASSUME NEW i \in 1 .. Len(outbox) PROVE Late(t, outbox)[i] = "late"
    BY <1>1, LateShape DEF AllLate
  <2>1. outbox[i] # "late" => outbox[i] = t
    BY <1>5 DEF AnswersKept, Holds
  <2> QED
    BY <1>1, <2>1, LateShape
(* Nothing changes for the query that is on the wire.                      *)
<1>6. ASSUME sent' = sent, outbox' = outbox,
             \A t \in Tasks : sent /\ Holds(t) /\ CommandOf(t).op = "ask" => CommandOf(t)'.op = "ask"
      PROVE  AnswersKept'
  <2>1. \A t : sent /\ Holds(t) => Holds(t)'
    BY <1>2, <1>6 DEF HeadStays, Holds
  <2> QED
    BY <1>6, <2>1 DEF AnswersKept
<1>7. \A t \in Tasks : CommandOf(t).op = "ask" => t # Safe
  BY DEF CommandOf
(* A task that keeps its job and its place has the same command.           *)
<1>8. ASSUME NEW t \in Tasks, t # Safe => job'[t] = job[t], step'[t] = step[t]
      PROVE  CommandOf(t)'.op = CommandOf(t).op
  <2>1. CASE t = Safe
    BY <2>1 DEF CommandOf
  <2>2. CASE t # Safe
    BY <1>8, <2>2 DEF CommandOf
  <2> QED
    BY <2>1, <2>2
<1>9. ASSUME NEW t \in Tasks, Transmit(t) PROVE AnswersKept'
  <2>1. job' = job /\ step' = step /\ line' = line /\ ~sent /\ sent' = TRUE /\ Holds(t)
    BY <1>9 DEF Transmit
  <2>2. AllLate(outbox)
    BY <1>4, <2>1
  <2>3. CASE outbox' = outbox
    BY <1>3, <2>2, <2>3
  <2>4. CASE CommandOf(t).op = "ask" /\ outbox' = Append(outbox, t)
    <3>1. CommandOf(t)'.op = "ask" /\ Holds(t)'
      BY <1>8, <2>1, <2>4 DEF Holds
    <3>2. /\ Len(outbox') = Len(outbox) + 1 /\ Len(outbox) \in Nat
          /\ outbox'[Len(outbox) + 1] = t
          /\ \A i \in 1 .. Len(outbox) : outbox'[i] = "late"
      BY <1>1, <2>2, <2>4 DEF AllLate, Answerers
    <3>3. \A i \in 1 .. Len(outbox') : outbox'[i] # "late" => i = Len(outbox) + 1
      BY <3>2
    <3> QED
      BY <2>1, <3>1, <3>2, <3>3 DEF AnswersKept
  <2> QED
    BY <1>9, <2>3, <2>4 DEF Transmit, Keep
<1>10. ASSUME NEW t \in Tasks, Succeed(t) PROVE AnswersKept'
  <2>1. Holds(t) /\ sent
    BY <1>10 DEF Succeed
  <2>2. CASE outbox # <<>> /\ outbox' = Late(t, Tail(outbox))
    <3>1. /\ Tail(outbox) \in Seq(Answerers) /\ Len(Tail(outbox)) = Len(outbox) - 1
          /\ \A i \in 1 .. Len(outbox) - 1 : Tail(outbox)[i] = outbox[i + 1]
          /\ Len(outbox) \in Nat
      BY <1>1, <2>2
    <3>2. ASSUME NEW i \in 1 .. Len(outbox) - 1 PROVE Tail(outbox)[i] \in {"late", t}
      <4>1. i + 1 \in 1 .. Len(outbox)
        BY <3>1
      <4>2. outbox[i + 1] # "late" => outbox[i + 1] = t
        BY <2>1, <4>1 DEF AnswersKept, Holds
      <4> QED
        BY <3>1, <4>2
    <3>3. /\ Len(Late(t, Tail(outbox))) = Len(Tail(outbox))
          /\ \A i \in 1 .. Len(Tail(outbox)) :
                Late(t, Tail(outbox))[i] = IF Tail(outbox)[i] = t THEN "late" ELSE Tail(outbox)[i]
      <4>1. Tail(outbox) \in Seq(Answerers)
        BY <3>1
      <4> QED
        BY <4>1, LateShape, Zenon
    <3> QED
      BY <1>3, <2>2, <3>1, <3>2, <3>3 DEF AllLate
  <2>3. CASE CommandOf(t).op # "ask" /\ outbox' = outbox
    <3>1. AllLate(outbox)
      BY <2>1, <2>3 DEF AllLate, AnswersKept, Holds
    <3> QED
      BY <1>3, <2>3, <3>1
  <2> QED
    BY <1>10, <2>2, <2>3 DEF Succeed
<1>11. ASSUME NEW t \in Tasks, Fail(t) \/ GiveUp(t) PROVE AnswersKept'
  BY <1>3, <1>5, <1>11 DEF Fail, GiveUp, Abandon
<1>12. ASSUME NEW t \in Slots, NEW j \in Jobs, Begin(t, j) PROVE AnswersKept'
  <2>1. sent' = sent /\ outbox' = outbox /\ job[t] = Idle
    BY <1>12 DEF Begin
  <2>2. ASSUME NEW u \in Tasks, Holds(u), CommandOf(u).op = "ask" PROVE CommandOf(u)'.op = "ask"
    <3>1. u # Safe /\ Waits(u)
      BY <1>7, <2>2, Leaves DEF Typed
    <3>2. u # t
      BY <2>1, <3>1 DEF Waits
    <3>3. job'[u] = job[u] /\ step'[u] = step[u]
      BY <1>1, <1>12, <3>1, <3>2 DEF Begin, Tasks
    <3> QED
      BY <1>8, <2>2, <3>3
  <2> QED
    BY <1>6, <2>1, <2>2
<1>13. ASSUME NEW t \in Slots, Cancel(t) PROVE AnswersKept'
  <2>1. /\ sent' = (sent /\ ~Holds(t)) /\ Abandon(t) /\ Leave(t)
    BY <1>13 DEF Cancel
  <2>2. CASE Holds(t)
    BY <1>1, <1>3, <1>5, <2>1, <2>2 DEF Abandon
  <2>3. CASE ~Holds(t)
    <3>1. /\ Len(outbox') = Len(outbox)
          /\ \A i \in 1 .. Len(outbox) : outbox'[i] # "late" => outbox'[i] = outbox[i]
      BY <1>1, <2>1, LateShape DEF Abandon
    <3>2. sent => sent'
      BY <2>1, <2>3 DEF Typed, Control
    <3>3. ASSUME NEW u \in Tasks, sent, Holds(u), CommandOf(u).op = "ask"
          PROVE  sent' /\ Holds(u)' /\ CommandOf(u)'.op = "ask"
      <4>1. Holds(u)'
        BY <1>2, <3>2, <3>3 DEF HeadStays, Holds
      <4>2. u # t /\ u # Safe
        BY <1>7, <2>3, <3>3
      <4>3. job'[u] = job[u] /\ step'[u] = step[u]
        BY <1>1, <2>1, <4>2 DEF Leave, Tasks
      <4> QED
        BY <1>8, <3>2, <3>3, <4>1, <4>3
    <3>4. \A i \in 1 .. Len(outbox') : outbox'[i] # "late" =>
             i \in 1 .. Len(outbox) /\ outbox[i] # "late" /\ outbox'[i] = outbox[i]
      BY <3>1
    <3> QED
      BY <3>3, <3>4 DEF AnswersKept
  <2> QED
    BY <2>2, <2>3
<1>14. CASE LockTimesOut \/ SafeBegins \/ SafeEnds \/ UNCHANGED vars
  <2>1. sent' = sent /\ outbox' = outbox /\ job' = job
    BY <1>14 DEF LockTimesOut, AfterFailure, SafeBegins, SafeEnds, vars
  <2>2. step' = step \/ \E k : step' = [step EXCEPT ![Safe] = k]
    BY <1>14 DEF LockTimesOut, AfterFailure, AdvanceSafe, SafeBegins, SafeEnds, vars
  <2>3. ASSUME NEW u \in Tasks, CommandOf(u).op = "ask" PROVE CommandOf(u)'.op = "ask"
    <3>1. u # Safe
      BY <1>7, <2>3
    <3>2. step'[u] = step[u]
      BY <1>1, <2>2, <3>1
    <3> QED
      BY <1>8, <2>1, <2>3, <3>2
  <2> QED
    BY <1>6, <2>1, <2>3
<1>15. CASE SafeCutOff
  <2>1. /\ sent' = (sent /\ ~Holds(Safe)) /\ outbox' = outbox /\ job' = job
        /\ step' = [step EXCEPT ![Safe] = 0]
    BY <1>15 DEF SafeCutOff
  <2>2. CASE Holds(Safe) \/ ~sent
    <3>1. AllLate(outbox)
      BY <1>4, <1>7, <2>2 DEF AllLate, AnswersKept, Holds
    <3> QED
      BY <1>3, <2>1, <3>1
  <2>3. CASE ~Holds(Safe) /\ sent
    <3>1. sent' = sent
      BY <2>1, <2>3 DEF Typed, Control
    <3>2. ASSUME NEW u \in Tasks, CommandOf(u).op = "ask" PROVE CommandOf(u)'.op = "ask"
      <4>1. u # Safe
        BY <1>7, <3>2
      <4>2. step'[u] = step[u]
        BY <1>1, <2>1, <4>1
      <4> QED
        BY <1>8, <2>1, <3>2, <4>2
    <3> QED
      BY <1>6, <2>1, <3>1, <3>2
  <2> QED
    BY <2>2, <2>3
<1>16. CASE StrayActs
  <2>1. job' = job /\ step' = step /\ line' = line /\ sent' = sent
    BY <1>16 DEF StrayActs
  <2>2. \A u \in Tasks : CommandOf(u).op = "ask" => CommandOf(u)'.op = "ask"
    BY <1>8, <2>1
  <2>3. \A u : Holds(u)' <=> Holds(u)
    BY <2>1 DEF Holds
  <2>4. CASE outbox' = outbox
    BY <1>6, <2>1, <2>2, <2>4
  <2>5. CASE outbox' = Append(outbox, "late")
    <3>1. /\ Len(outbox') = Len(outbox) + 1 /\ Len(outbox) \in Nat
          /\ outbox'[Len(outbox) + 1] = "late"
          /\ \A i \in 1 .. Len(outbox) : outbox'[i] = outbox[i]
      BY <1>1, <2>5 DEF Answerers
    <3>2. \A i \in 1 .. Len(outbox') : outbox'[i] # "late" =>
             i \in 1 .. Len(outbox) /\ outbox'[i] = outbox[i]
      BY <3>1
    <3> QED
      BY <2>1, <2>2, <2>3, <3>2 DEF AnswersKept
  <2>6. CASE outbox # <<>> /\ outbox' = Tail(outbox)
    <3>1. /\ Len(outbox') = Len(outbox) - 1 /\ Len(outbox) \in Nat
          /\ \A i \in 1 .. Len(outbox') : outbox'[i] = outbox[i + 1]
      BY <1>1, <2>6
    <3>2. \A i \in 1 .. Len(outbox') : i \in Nat /\ i + 1 \in 1 .. Len(outbox)
      BY <3>1
    <3>3. \A i, j \in 1 .. Len(outbox') : i + 1 = j + 1 => i = j
      BY <3>1
    <3> QED
      BY <2>1, <2>2, <2>3, <3>1, <3>2, <3>3 DEF AnswersKept
  <2> QED
    BY <1>16, <2>4, <2>5, <2>6 DEF StrayActs, Keep
<1>17. CASE Restart
  BY <1>3, <1>17 DEF Restart, AllLate
<1> QED
  BY <1>9, <1>10, <1>11, <1>12, <1>13, <1>14, <1>15, <1>16, <1>17 DEF Next, Exchange

(* The answer waiting for a query is its own and the only one, unless a    *)
(* query that was given up left an answer behind: the transport's lock is  *)
(* all that pairs answers with queries.                                    *)
THEOREM AnswersApart == Spec => []AnswersKeepApart
<1>1. Init => AnswersKept
  BY DEF Init, AnswersKept
<1>2. Typed /\ AnswersKept /\ [Next]_vars => (Typed /\ AnswersKept)'
  BY TypedStep, AnswersStep
<1>3. Typed /\ AnswersKept => AnswersKeepApart
  <2> SUFFICES ASSUME Typed, AnswersKept, ~Contains(outbox, "late"), outbox # <<>>
               PROVE  sent /\ outbox = <<Head(line)>>
    BY DEF AnswersKeepApart
  <2>1. outbox \in Seq(Answerers) /\ Len(outbox) \in Nat /\ Len(outbox) > 0
    BY DEF Typed, Device
  <2>2. \A i \in 1 .. Len(outbox) : outbox[i] # "late"
    BY DEF Contains
  <2>3. Len(outbox) = 1
    <3>1. 1 \in 1 .. Len(outbox) /\ Len(outbox) \in 1 .. Len(outbox)
      BY <2>1
    <3> QED
      BY <2>2, <3>1 DEF AnswersKept
  <2>4. sent /\ outbox[1] = Head(line)
    BY <2>2, <2>3 DEF AnswersKept, Holds
  <2> QED
    BY <2>1, <2>3, <2>4
<1>4. Spec => [](Typed /\ AnswersKept)
  BY <1>1, <1>2, TypedInit, PTL DEF Spec
<1> QED
  BY <1>3, <1>4, PTL

================================================================================
