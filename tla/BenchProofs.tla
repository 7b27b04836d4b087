------------------------------ MODULE BenchProofs ------------------------------
(* Proofs about the components of Bench, one after the other, for every    *)
(* value of their constants: for each, an inductive invariant that its     *)
(* initial states satisfy, that its steps keep, and that implies what      *)
(* Components states of it.                                                *)
EXTENDS Bench, FiniteSetTheorems, FunctionTheorems, NaturalsInduction, SequenceTheorems, WellFoundedInduction, TLAPS

-----------------------------------------------------------------------------
(* Modbus: for any number of callers and of stations, whichever of the     *)
(* absent ones a gateway answers for.                                      *)
ModbusDoings ==
    [stage : M!Stages, req : M!Frames \cup {None}, left : SUBSET Addresses,
     seen : Seq(Addresses \X M!Classes)]
ModbusOnWire == [req : M!Frames, reply : M!Classes \cup {None}, wanted : BOOLEAN]
ModbusEffects == {"nothing", "unchanged", "partly", "applied"}

\* What the controller makes of a request.
ModbusMade(req) == IF req.write /\ ~M!Refuses(req) THEN "applied" ELSE "unchanged"

-----------------------------------------------------------------------------
(* The inductive invariant: what a caller does (d) agrees with its frame   *)
(* on the line (w), what it was told (t) and what the controller did (e);  *)
(* and who waits for the bus is in the queue once.                         *)

ModbusFineTypes(d, w, t, e) ==
    /\ d \in ModbusDoings /\ w \in ModbusOnWire \cup {None} /\ t \in M!Endings \cup {None}
    /\ e \in ModbusEffects
    /\ Len(d.seen) <= Cardinality(Addresses)

\* A caller runs once, and a frame is wanted while its caller waits for it.
ModbusFineStage(d, w, t, e) ==
    /\ d.stage # "idle" => t = None
    /\ d.stage = "idle" /\ t = None => w = None /\ e = "nothing"
    /\ d.stage = "sent" => w # None /\ w.wanted /\ w.req = d.req /\
         w.reply \in {None, M!Reply(d.req)}
    /\ w # None /\ w.wanted => d.stage = "sent"

\* A read or a write leaves no trace before its frame is out, nor before the
\* controller has it.
ModbusFineRequest(d, w, t, e) ==
    d.left = {} /\ d.stage # "idle" =>
        /\ d.req \in M!Requests
        /\ d.stage # "sent" => w = None /\ e = "nothing"
        /\ d.stage = "sent" => e = IF w.reply = None THEN "nothing" ELSE ModbusMade(d.req)

ModbusFineTruth(d, t, e) ==
    /\ t = "ok" => e = IF d.req.write THEN "applied" ELSE "unchanged"
    /\ t = "exception" => e = "unchanged"
    /\ t \in {"busy", "error"} => e = "nothing"

\* What a scan has seen and what is left are the addresses, in order.
ModbusFineScan(d, t) ==
    /\ d.left = {} /\ t # "scan" => d.seen = <<>>
    /\ d.left # {} /\ d.stage = "idle" => t = "scan"
    /\ d.left # {} \/ t = "scan" => d.left = Len(d.seen) + 1 .. Cardinality(Addresses)
    /\ d.left # {} /\ d.stage # "idle" =>
        d.req \in M!Frames /\ ~d.req.write /\ d.req.slave = Len(d.seen) + 1

ModbusFineSeen(d) ==
    \A i \in 1 .. Len(d.seen) :
        /\ d.seen[i][1] = i
        /\ d.seen[i][2] \in {"answered", "exception"} => i = M!Station

ModbusFine(d, w, t, e) ==
          /\ ModbusFineTypes(d, w, t, e) /\ ModbusFineStage(d, w, t, e)
          /\ ModbusFineRequest(d, w, t, e)
          /\ ModbusFineTruth(d, t, e) /\ ModbusFineScan(d, t) /\ ModbusFineSeen(d)

ModbusCallings ==
    /\ doing \in [Callers -> ModbusDoings] /\ wire \in [Callers -> ModbusOnWire \cup {None}]
    /\ told \in [Callers -> M!Endings \cup {None}] /\ effect \in [Callers -> ModbusEffects]
    /\ \A c \in Callers : ModbusFine(doing[c], wire[c], told[c], effect[c])

ModbusOneToOne(s) == \A i, j \in 1 .. Len(s) : s[i] = s[j] => i = j

ModbusQueue ==
    /\ lock \in Callers \cup {None} /\ deadline \subseteq Callers
    /\ waiting \in Seq(Callers) /\ ModbusOneToOne(waiting)
    /\ \A i \in 1 .. Len(waiting) : doing[waiting[i]].stage = "wait"

\* The mode is one the register takes: a refused write finds another there.
ModbusTable == table \in [M!Registers \ M!ReadOnly -> M!Words] /\ table[1] \in 0 .. M!ModeMax

ModbusIInv == ModbusCallings /\ ModbusQueue /\ ModbusTable

-----------------------------------------------------------------------------
(* The constants.                                                          *)
LEMMA ModbusCounting ==
    \A T : M!Cardinality(T) = Cardinality(T) /\ (M!IsFiniteSet(T) <=> IsFiniteSet(T))
  BY DEF M!Cardinality, Cardinality, M!IsFiniteSet, IsFiniteSet

LEMMA ModbusStationed ==
    ASSUME M!Constants
    PROVE  /\ IsFiniteSet(Addresses) /\ Addresses = 1 .. Cardinality(Addresses)
           /\ M!Station \in Addresses
  BY ModbusCounting DEF M!Constants

LEMMA ModbusNumbers ==
    ASSUME M!Constants
    PROVE  Cardinality(Addresses) \in Nat \ {0} /\ Addresses = 1 .. Cardinality(Addresses)
<1>1. Cardinality(Addresses) \in Nat
  BY ModbusStationed, FS_CardinalityType
<1>2. M!Station \in 1 .. Cardinality(Addresses)
  BY ModbusStationed
<1> QED
  BY <1>1, <1>2, ModbusStationed DEF M!Station

LEMMA ModbusAbsent ==
    ASSUME M!Constants
    PROVE  None \notin Callers /\ None \notin M!Frames /\ None \notin ModbusOnWire
           /\ None \notin M!Classes /\ None \notin M!Endings
  BY Zenon DEF M!Constants, ModbusOnWire

-----------------------------------------------------------------------------
(* The queue: deque.remove takes the one entry of a waiter out, or nothing.*)
LEMMA ModbusRemoveOne ==
    ASSUME NEW S, NEW s \in Seq(S), ModbusOneToOne(s), NEW k \in 1 .. Len(s), NEW e, s[k] = e
    PROVE  /\ M!RemoveFirst(s, e) \in Seq(S)
           /\ Len(M!RemoveFirst(s, e)) = Len(s) - 1
           /\ \A i \in 1 .. Len(s) - 1 :
                M!RemoveFirst(s, e)[i] = IF i < k THEN s[i] ELSE s[i + 1]
<1> DEFINE I == {i \in 1 .. Len(s) : s[i] = e}
<1>1. I = {k}
  BY DEF ModbusOneToOne
<1>2. M!Min(I) = k
  BY <1>1 DEF M!Min
<1>3. M!SelectInSeq(s, LAMBDA v : v = e) = k
  BY <1>1, <1>2, Zenon DEF M!SelectInSeq
<1>4. M!RemoveFirst(s, e) = M!RemoveAt(s, k)
  BY <1>3, Zenon DEF M!RemoveFirst
<1> DEFINE a == SubSeq(s, 1, k - 1)
           b == SubSeq(s, k + 1, Len(s))
<1>5. Len(s) \in Nat /\ k \in Nat /\ k - 1 \in Int /\ k + 1 \in Int /\ k <= Len(s) /\ 1 <= k
  BY LenProperties
<1>6. \A i \in 1 .. Len(s) : s[i] \in S
  BY ElementOfSeq
<1>7. a \in Seq(S) /\ Len(a) = k - 1 /\ \A i \in 1 .. k - 1 : a[i] = s[i]
  <2>1. \A i \in 1 .. k - 1 : s[i] \in S
    BY <1>5, <1>6
  <2>2. /\ a \in Seq(S) /\ Len(a) = IF 1 <= k - 1 THEN k - 1 - 1 + 1 ELSE 0
        /\ \A i \in 1 .. k - 1 - 1 + 1 : a[i] = s[1 + i - 1]
    BY <2>1, <1>5, SubSeqProperties
  <2> HIDE DEF a
  <2> QED
    BY <2>2, <1>5
<1>8. b \in Seq(S) /\ Len(b) = Len(s) - k /\ \A i \in 1 .. Len(s) - k : b[i] = s[k + i]
  <2>1. \A i \in k + 1 .. Len(s) : s[i] \in S
    BY <1>5, <1>6
  <2>2. /\ b \in Seq(S) /\ Len(b) = IF k + 1 <= Len(s) THEN Len(s) - (k + 1) + 1 ELSE 0
        /\ \A i \in 1 .. Len(s) - (k + 1) + 1 : b[i] = s[k + 1 + i - 1]
    BY <2>1, <1>5, SubSeqProperties
  <2> HIDE DEF b
  <2>3. Len(b) = Len(s) - k
    BY <2>2, <1>5
  <2>4. ASSUME NEW i \in 1 .. Len(s) - k PROVE b[i] = s[k + i]
    <3>1. i \in 1 .. Len(s) - (k + 1) + 1 /\ k + 1 + i - 1 = k + i
      BY <1>5
    <3> QED
      BY <3>1, <2>2
  <2> QED
    BY <2>2, <2>3, <2>4
<1> DEFINE r == a \o b
<1>9. M!RemoveFirst(s, e) = r
  BY <1>4 DEF M!RemoveAt
<1> HIDE DEF a, b
<1>10. /\ r \in Seq(S) /\ Len(r) = Len(a) + Len(b)
       /\ \A i \in 1 .. Len(a) + Len(b) : r[i] = IF i <= Len(a) THEN a[i] ELSE b[i - Len(a)]
  BY <1>7, <1>8, ConcatProperties
<1> HIDE DEF r
<1>11. Len(r) = Len(s) - 1
  BY <1>10, <1>7, <1>8, <1>5
<1>12. ASSUME NEW i \in 1 .. Len(s) - 1
       PROVE  r[i] = IF i < k THEN s[i] ELSE s[i + 1]
  <2>0. i \in 1 .. Len(a) + Len(b)
    BY <1>7, <1>8, <1>5
  <2>1. r[i] = IF i <= Len(a) THEN a[i] ELSE b[i - Len(a)]
    BY <1>10, <2>0
  <2>2. CASE i < k
    <3>1. r[i] = a[i]
      BY <2>1, <2>2, <1>7, <1>5
    <3> QED
      BY <3>1, <2>2, <1>7, <1>5
  <2>3. CASE ~(i < k)
    <3>1. r[i] = b[i - (k - 1)]
      BY <2>1, <2>3, <1>7, <1>5
    <3>2. i - (k - 1) \in 1 .. Len(s) - k /\ k + (i - (k - 1)) = i + 1
      BY <2>3, <1>5
    <3> QED
      BY <3>1, <3>2, <2>3, <1>8
  <2> QED
    BY <2>2, <2>3
<1> QED
  BY <1>9, <1>10, <1>11, <1>12

\* A queue without c is one of the same callers but c, each still once.
LEMMA ModbusRemoved ==
    ASSUME NEW S, NEW s \in Seq(S), ModbusOneToOne(s), NEW c
    PROVE  /\ M!RemoveFirst(s, c) \in Seq(S) /\ ModbusOneToOne(M!RemoveFirst(s, c))
           /\ \A i \in 1 .. Len(M!RemoveFirst(s, c)) :
                /\ M!RemoveFirst(s, c)[i] # c
                /\ \E j \in 1 .. Len(s) : M!RemoveFirst(s, c)[i] = s[j]
<1> DEFINE r == M!RemoveFirst(s, c)
<1>0. Len(s) \in Nat
  BY LenProperties
<1>1. CASE \E i \in 1 .. Len(s) : s[i] = c
  <2>1. PICK k \in 1 .. Len(s) : s[k] = c
    BY <1>1
  <2>2. /\ r \in Seq(S) /\ Len(r) = Len(s) - 1
        /\ \A i \in 1 .. Len(s) - 1 : r[i] = IF i < k THEN s[i] ELSE s[i + 1]
    BY <2>1, ModbusRemoveOne
  <2> DEFINE At(i) == IF i < k THEN i ELSE i + 1
  <2> HIDE DEF r
  <2>3. \A i \in 1 .. Len(r) : r[i] = s[At(i)] /\ At(i) \in 1 .. Len(s) /\ At(i) # k
    BY <2>2, <1>0
  <2>4. \A i, j \in 1 .. Len(r) : At(i) = At(j) => i = j
    BY <2>2, <1>0
  <2> HIDE DEF At
  <2>5. ModbusOneToOne(r)
    BY <2>3, <2>4 DEF ModbusOneToOne
  <2>6. \A i \in 1 .. Len(r) : r[i] # c
    BY <2>1, <2>3 DEF ModbusOneToOne
  <2> QED
    BY <2>2, <2>3, <2>5, <2>6 DEF r
<1>2. CASE ~\E i \in 1 .. Len(s) : s[i] = c
  <2>1. r = s
    BY <1>2, Zenon DEF M!RemoveFirst
  <2> QED
    BY <2>1, <1>2
<1> QED
  BY <1>1, <1>2

-----------------------------------------------------------------------------
(* The controller: a write that is not refused is there as a whole after   *)
(* it, and one that is refused finds something else where it was meant for.*)
LEMMA ModbusServed ==
    ASSUME NEW req \in M!Frames, NEW t, DOMAIN t = M!Registers \ M!ReadOnly,
           t[1] \in 0 .. M!ModeMax,
           t[2] \in M!Words
    PROVE  /\ M!Effect(req, t, M!Written(req, t)) = ModbusMade(req)
           /\ DOMAIN M!Written(req, t) = M!Registers \ M!ReadOnly
           /\ M!Written(req, t)[1] \in 0 .. M!ModeMax /\ M!Written(req, t)[2] \in M!Words
<1>0. /\ req.write \in BOOLEAN /\ req.address \in 0 .. 2
      /\ req.values = <<1>> \/ req.values = <<2, 1>>
  BY DEF M!Frames, M!Registers
<1>1. DOMAIN t = {1, 2} /\ t[1] \in 0 .. 1 /\ t[2] \in 0 .. 2
  BY DEF M!Registers, M!ReadOnly, M!ModeMax, M!Words
<1>2. CASE ~req.write
  BY <1>1, <1>2, Zenon DEF M!Written, M!Effect, ModbusMade, M!Registers, M!ReadOnly, M!ModeMax,
     M!Words
<1>3. CASE req.write /\ M!Refuses(req)
  <2>1. M!Written(req, t) = t
    BY <1>3 DEF M!Written
  <2>2. \/ \E r \in M!Span(req) : r \notin {1, 2}
        \/ 1 \in M!Span(req) /\ M!Word(req, 1) > 1
    BY <1>3 DEF M!Refuses, M!Registers, M!ReadOnly, M!ModeMax
  <2>3. ~ \A r \in M!Span(req) : r \in DOMAIN t /\ t[r] = M!Word(req, r)
    BY <2>2, <1>1
  <2>4. M!Effect(req, t, t) = "unchanged"
    BY <2>3, Zenon DEF M!Effect
  <2> QED
    BY <2>1, <2>4, <1>3 DEF ModbusMade
<1>4. CASE req.write /\ ~M!Refuses(req)
  <2> DEFINE new == [r \in DOMAIN t |-> IF r \in M!Span(req) THEN M!Word(req, r) ELSE t[r]]
  <2>1. M!Written(req, t) = new
    BY <1>4, Zenon DEF M!Written
  <2>2. /\ \A r \in M!Span(req) : r \in {1, 2}
        /\ 1 \in M!Span(req) => ~ (M!Word(req, 1) > 1)
    BY <1>4 DEF M!Refuses, M!Registers, M!ReadOnly, M!ModeMax
  <2>3. \A r \in M!Span(req) : r \in DOMAIN new /\ new[r] = M!Word(req, r)
    BY <2>2, <1>1
  <2>4. M!Effect(req, t, new) = "applied"
    BY <2>3, <1>4, Zenon DEF M!Effect
  <2>5. \A r \in M!Span(req) : M!Word(req, r) \in 1 .. 2
    <3>1. CASE req.values = <<1>>
      BY <3>1, <1>0 DEF M!Span, M!Word
    <3>2. CASE req.values = <<2, 1>>
      BY <3>2, <1>0 DEF M!Span, M!Word
    <3> QED
      BY <3>1, <3>2, <1>0
  <2>6. new[1] \in 0 .. 1 /\ new[2] \in 0 .. 2 /\ DOMAIN new = {1, 2}
    <3>1. DOMAIN new = {1, 2} /\ (2 \in M!Span(req) => new[2] = M!Word(req, 2))
          /\ (1 \in M!Span(req) => new[1] = M!Word(req, 1))
          /\ (2 \notin M!Span(req) => new[2] = t[2]) /\ (1 \notin M!Span(req) => new[1] = t[1])
      BY <1>1
    <3>2. (1 \in M!Span(req) => M!Word(req, 1) = 1)
      BY <2>2, <2>5
    <3> HIDE DEF new
    <3> QED
      BY <3>1, <3>2, <2>5, <1>1
  <2> HIDE DEF new
  <2> QED
    BY <2>1, <2>4, <2>6, <1>4 DEF ModbusMade, M!Registers, M!ReadOnly, M!ModeMax, M!Words
<1> QED
  BY <1>0, <1>2, <1>3, <1>4

LEMMA ModbusReplies ==
    ASSUME M!Constants, NEW req \in M!Frames
    PROVE  /\ M!Reply(req) \in M!Classes \ {"error"}
           /\ M!Reply(req) \in {"answered", "exception"} => req.slave = M!Station
           /\ req \in M!Requests =>
                M!Reply(req) = IF M!Refuses(req) THEN "exception" ELSE "answered"
<1>1. CASE req.slave = M!Station
  <2>1. M!Reply(req) = IF M!Refuses(req) THEN "exception" ELSE "answered"
    BY <1>1 DEF M!Reply, M!Constants
  <2> QED
    BY <2>1, <1>1, Zenon DEF M!Classes
<1>2. CASE req.slave # M!Station
  <2>1. M!Reply(req) \in {"gateway", "silent"}
    BY <1>2 DEF M!Reply
  <2>2. req \notin M!Requests
    BY <1>2 DEF M!Requests
  <2> QED
    BY <2>1, <2>2 DEF M!Classes
<1> QED
  BY <1>1, <1>2

-----------------------------------------------------------------------------
(* The steps.                                                              *)
LEMMA ModbusInitIInv == ASSUME M!Constants, M!Init PROVE ModbusIInv
<1>1. /\ lock = None /\ waiting = <<>> /\ deadline = {}
      /\ doing = [c \in Callers |-> M!Quiet] /\ wire = [c \in Callers |-> None]
      /\ table = [r \in M!Registers \ M!ReadOnly |-> 0]
      /\ told = [c \in Callers |-> None] /\ effect = [c \in Callers |-> "nothing"]
  BY DEF M!Init
<1>2. M!Quiet \in ModbusDoings /\ Len(M!Quiet.seen) = 0
  <2>1. <<>> \in Seq(Addresses \X M!Classes) /\ Len(<<>>) = 0
    BY EmptySeq
  <2> QED
    BY <2>1 DEF M!Quiet, ModbusDoings, M!Stages
<1>3. ModbusFine(M!Quiet, None, None, "nothing")
  <2>1. ModbusFineTypes(M!Quiet, None, None, "nothing")
    BY <1>2, ModbusNumbers DEF ModbusFineTypes, ModbusEffects
  <2>2. /\ ModbusFineStage(M!Quiet, None, None, "nothing")
        /\ ModbusFineRequest(M!Quiet, None, None, "nothing")
        /\ ModbusFineTruth(M!Quiet, None, "nothing") /\ ModbusFineScan(M!Quiet, None)
    BY ModbusAbsent DEF ModbusFineStage, ModbusFineRequest, ModbusFineTruth, ModbusFineScan,
       M!Quiet, M!Endings
  <2>3. ModbusFineSeen(M!Quiet)
    BY <1>2 DEF ModbusFineSeen
  <2> QED
    BY <2>1, <2>2, <2>3 DEF ModbusFine
<1>4. ModbusCallings
  <2>1. M!Quiet \in ModbusDoings /\ None \in ModbusOnWire \cup {None} /\
        None \in M!Endings \cup {None}
        /\ "nothing" \in ModbusEffects
    BY <1>2 DEF ModbusEffects
  <2> QED
    BY <2>1, <1>1, <1>3 DEF ModbusCallings
<1>5. ModbusQueue
  <2>1. waiting \in Seq(Callers) /\ Len(waiting) = 0
    BY <1>1, EmptySeq
  <2> QED
    BY <1>1, <2>1 DEF ModbusQueue, ModbusOneToOne
<1>6. ModbusTable
  BY <1>1 DEF ModbusTable, M!Registers, M!ReadOnly, M!ModeMax, M!Words
<1> QED
  BY <1>4, <1>5, <1>6 DEF ModbusIInv

\* What one caller does leaves the others alone.
LEMMA ModbusOneCaller ==
    ASSUME ModbusCallings, NEW c \in Callers, NEW d, NEW w, NEW t, NEW e,
           doing' = [doing EXCEPT ![c] = d], wire' = [wire EXCEPT ![c] = w],
           told' = [told EXCEPT ![c] = t], effect' = [effect EXCEPT ![c] = e],
           ModbusFine(d, w, t, e)
    PROVE  ModbusCallings'
<1>1. /\ doing \in [Callers -> ModbusDoings] /\ wire \in [Callers -> ModbusOnWire \cup {None}]
      /\ told \in [Callers -> M!Endings \cup {None}] /\ effect \in [Callers -> ModbusEffects]
  BY DEF ModbusCallings
<1>2. /\ d \in ModbusDoings /\ w \in ModbusOnWire \cup {None}
      /\ t \in M!Endings \cup {None} /\ e \in ModbusEffects
  BY DEF ModbusFine, ModbusFineTypes
<1>3. /\ doing' \in [Callers -> ModbusDoings] /\ wire' \in [Callers -> ModbusOnWire \cup {None}]
      /\ told' \in [Callers -> M!Endings \cup {None}] /\ effect' \in [Callers -> ModbusEffects]
  BY <1>1, <1>2
<1>4. ASSUME NEW b \in Callers PROVE ModbusFine(doing'[b], wire'[b], told'[b], effect'[b])
  <2>1. CASE b = c
    <3>1. doing'[b] = d /\ wire'[b] = w /\ told'[b] = t /\ effect'[b] = e
      BY <2>1, <1>1
    <3> QED
      BY <3>1
  <2>2. CASE b # c
    <3>1. doing'[b] = doing[b] /\ wire'[b] = wire[b] /\ told'[b] = told[b] /\ effect'[b] = effect[b]
      BY <2>2, <1>1
    <3>2. ModbusFine(doing[b], wire[b], told[b], effect[b])
      BY DEF ModbusCallings
    <3> QED
      BY <3>1, <3>2
  <2> QED
    BY <2>1, <2>2
<1> QED
  BY <1>3, <1>4 DEF ModbusCallings

\* A function is itself with one of its own values put in.
LEMMA ModbusItself ==
    ASSUME ModbusCallings, NEW c \in Callers
    PROVE  /\ doing = [doing EXCEPT ![c] = doing[c]] /\ wire = [wire EXCEPT ![c] = wire[c]]
           /\ told = [told EXCEPT ![c] = told[c]] /\ effect = [effect EXCEPT ![c] = effect[c]]
           /\ doing[c] \in ModbusDoings /\ ModbusFine(doing[c], wire[c], told[c], effect[c])
           /\ ModbusFineTypes(doing[c], wire[c], told[c], effect[c])
           /\ ModbusFineStage(doing[c], wire[c], told[c], effect[c])
           /\ ModbusFineRequest(doing[c], wire[c], told[c], effect[c])
           /\ ModbusFineTruth(doing[c], told[c], effect[c])
           /\ ModbusFineScan(doing[c], told[c]) /\ ModbusFineSeen(doing[c])
<1>1. /\ doing \in [Callers -> ModbusDoings] /\ wire \in [Callers -> ModbusOnWire \cup {None}]
      /\ told \in [Callers -> M!Endings \cup {None}] /\ effect \in [Callers -> ModbusEffects]
  BY DEF ModbusCallings
<1>2. ModbusFine(doing[c], wire[c], told[c], effect[c])
  BY DEF ModbusCallings
<1>3. /\ ModbusFineTypes(doing[c], wire[c], told[c], effect[c])
      /\ ModbusFineStage(doing[c], wire[c], told[c], effect[c])
      /\ ModbusFineRequest(doing[c], wire[c], told[c], effect[c])
      /\ ModbusFineTruth(doing[c], told[c], effect[c])
      /\ ModbusFineScan(doing[c], told[c]) /\ ModbusFineSeen(doing[c])
  BY <1>2 DEF ModbusFine
<1> QED
  BY <1>1, <1>2, <1>3

\* A caller that is not waiting may go on without a change of the queue.
LEMMA ModbusSameQueue ==
    ASSUME ModbusQueue, ModbusCallings, NEW c \in Callers, NEW d, doing' = [doing EXCEPT ![c] = d],
           waiting' = waiting, doing[c].stage # "wait", lock' \in Callers \cup {None},
           deadline' \subseteq Callers
    PROVE  ModbusQueue'
<1>1. DOMAIN doing = Callers
  BY DEF ModbusCallings
<1>2. ASSUME NEW i \in 1 .. Len(waiting) PROVE doing'[waiting[i]].stage = "wait"
  <2>1. waiting[i] \in Callers /\ doing[waiting[i]].stage = "wait"
    BY ElementOfSeq DEF ModbusQueue
  <2>2. waiting[i] # c
    BY <2>1
  <2> QED
    BY <2>1, <2>2, <1>1
<1> QED
  BY <1>2 DEF ModbusQueue

\* A caller that ends what it does frees the bus and its place in the queue.
LEMMA ModbusFreedQueue ==
    ASSUME ModbusQueue, ModbusCallings, NEW c \in Callers, NEW d, doing' = [doing EXCEPT ![c] = d],
           M!Free(c), deadline' = deadline
    PROVE  ModbusQueue'
<1>1. DOMAIN doing = Callers
  BY DEF ModbusCallings
<1>2. waiting' = M!RemoveFirst(waiting, c) /\ lock' = IF lock = c THEN None ELSE lock
  BY DEF M!Free
<1>3. waiting \in Seq(Callers) /\ ModbusOneToOne(waiting)
  BY DEF ModbusQueue
<1>4. /\ waiting' \in Seq(Callers) /\ ModbusOneToOne(waiting')
      /\ \A i \in 1 .. Len(waiting') :
           waiting'[i] # c /\ \E j \in 1 .. Len(waiting) : waiting'[i] = waiting[j]
  BY <1>2, <1>3, ModbusRemoved
<1>5. ASSUME NEW i \in 1 .. Len(waiting') PROVE doing'[waiting'[i]].stage = "wait"
  <2>1. PICK j \in 1 .. Len(waiting) : waiting'[i] = waiting[j]
    BY <1>4
  <2>2. waiting[j] \in Callers /\ doing[waiting[j]].stage = "wait"
    BY <1>3, ElementOfSeq DEF ModbusQueue
  <2>3. waiting[j] # c
    BY <1>4, <2>1
  <2> QED
    BY <2>1, <2>2, <2>3, <1>1
<1>6. lock' \in Callers \cup {None} /\ deadline' \subseteq Callers
  BY <1>2 DEF ModbusQueue
<1> QED
  BY <1>4, <1>5, <1>6 DEF ModbusQueue, ModbusOneToOne

-----------------------------------------------------------------------------
(* What each step makes of the caller that takes it.                       *)
LEMMA ModbusBeginsFine ==
    ASSUME M!Constants, NEW d, NEW w, NEW t, NEW e, ModbusFine(d, w, t, e),
           d.stage = "idle", t = None,
           NEW req, NEW left,
           (req \in M!Requests /\ left = {}) \/ (req = M!Probe(Addresses) /\ left = Addresses)
    PROVE  ModbusFine([stage |-> "bus", req |-> req, left |-> left, seen |-> <<>>], w, t, e)
<1> DEFINE n == [stage |-> "bus", req |-> req, left |-> left, seen |-> <<>>]
           N == Cardinality(Addresses)
<1>1. <<>> \in Seq(Addresses \X M!Classes) /\ Len(<<>>) = 0
  BY EmptySeq
<1>2. N \in Nat \ {0} /\ Addresses = 1 .. N
  BY ModbusNumbers
<1>3. w = None /\ e = "nothing"
  BY DEF ModbusFine, ModbusFineStage
<1>4. req \in M!Frames /\ left \subseteq Addresses /\ (left # {} =>
      left = 1 .. N /\ req.slave = 1 /\ ~req.write)
  <2>1. CASE req \in M!Requests /\ left = {}
    BY <2>1 DEF M!Requests
  <2>2. CASE req = M!Probe(Addresses) /\ left = Addresses
    <3>1. (CHOOSE s \in Addresses : \A u \in Addresses : s <= u) = 1
      BY <1>2
    <3>2. req = [slave |-> 1, write |-> FALSE, address |-> 1, values |-> <<1>>]
      BY <2>2, <3>1 DEF M!Probe
    <3>3. 1 \in Addresses
      BY <1>2
    <3>4. req \in M!Frames
      <4>1. 1 \in M!Registers /\ FALSE \in BOOLEAN /\ <<1>> \in {<<1>>, <<2, 1>>}
        BY DEF M!Registers
      <4>2. \E s \in Addresses, b \in BOOLEAN, a \in M!Registers, v \in {<<1>>, <<2, 1>>} :
              req = [slave |-> s, write |-> b, address |-> a, values |-> v]
        BY <3>2, <3>3, <4>1, Zenon
      <4> QED
        BY <4>2 DEF M!Frames
    <3>5. req.slave = 1 /\ ~req.write
      BY <3>2
    <3> QED
      BY <3>4, <3>5, <2>2, <1>2
  <2> QED
    BY <2>1, <2>2
<1>5. ModbusFineTypes(n, w, t, e)
  BY <1>1, <1>2, <1>3, <1>4 DEF ModbusFineTypes, ModbusDoings, M!Stages, ModbusEffects
<1>6. ModbusFineStage(n, w, t, e)
  BY <1>3 DEF ModbusFineStage
<1>7. ModbusFineRequest(n, w, t, e)
  <2>1. left = {} => req \in M!Requests
    BY <1>2
  <2> QED
    BY <2>1, <1>3 DEF ModbusFineRequest
<1>8. ModbusFineTruth(n, t, e)
  BY <1>3, ModbusAbsent DEF ModbusFineTruth, M!Endings
<1>9. ModbusFineScan(n, t)
  <2>1. t # "scan"
    BY ModbusAbsent DEF M!Endings
  <2> QED
    BY <2>1, <1>1, <1>2, <1>4 DEF ModbusFineScan
<1>10. ModbusFineSeen(n)
  BY <1>1 DEF ModbusFineSeen
<1> QED
  BY <1>5, <1>6, <1>7, <1>8, <1>9, <1>10 DEF ModbusFine

LEMMA ModbusMovesFine ==
    ASSUME NEW d, NEW w, NEW t, NEW e, ModbusFine(d, w, t, e), d.stage \in {"bus", "wait"},
           NEW s \in {"wait", "holds"}
    PROVE  ModbusFine([d EXCEPT !.stage = s], w, t, e)
<1> DEFINE n == [d EXCEPT !.stage = s]
<1>1. d \in ModbusDoings
  BY DEF ModbusFine, ModbusFineTypes
<1>2. /\ n \in ModbusDoings /\ n.stage = s /\ n.req = d.req /\ n.left = d.left /\ n.seen = d.seen
  BY <1>1 DEF ModbusDoings, M!Stages
<1> HIDE DEF n
<1>3. /\ ModbusFineTypes(d, w, t, e) /\ ModbusFineStage(d, w, t, e) /\ ModbusFineRequest(d, w, t, e)
      /\ ModbusFineTruth(d, t, e) /\ ModbusFineScan(d, t) /\ ModbusFineSeen(d)
  BY DEF ModbusFine
<1>4. ModbusFineTypes(n, w, t, e)
  BY <1>2, <1>3 DEF ModbusFineTypes
<1>5. ModbusFineStage(n, w, t, e)
  BY <1>2, <1>3 DEF ModbusFineStage
<1>6. ModbusFineRequest(n, w, t, e)
  BY <1>2, <1>3 DEF ModbusFineRequest
<1>7. ModbusFineTruth(n, t, e)
  BY <1>2, <1>3 DEF ModbusFineTruth
<1>8. ModbusFineScan(n, t)
  BY <1>2, <1>3 DEF ModbusFineScan
<1>9. ModbusFineSeen(n)
  BY <1>2, <1>3 DEF ModbusFineSeen
<1> QED
  BY <1>4, <1>5, <1>6, <1>7, <1>8, <1>9 DEF ModbusFine, n

LEMMA ModbusSendsFine ==
    ASSUME M!Constants, NEW d, NEW w, NEW t, NEW e, ModbusFine(d, w, t, e), d.stage = "holds"
    PROVE  ModbusFine([d EXCEPT !.stage = "sent"], [req |-> d.req, reply |-> None, wanted |-> TRUE], t, e)
<1> DEFINE n == [d EXCEPT !.stage = "sent"]
           x == [req |-> d.req, reply |-> None, wanted |-> TRUE]
<1>1. d \in ModbusDoings
  BY DEF ModbusFine, ModbusFineTypes
<1>2. /\ n \in ModbusDoings /\ n.stage = "sent" /\ n.req = d.req /\ n.left = d.left
      /\ n.seen = d.seen
  BY <1>1 DEF ModbusDoings, M!Stages
<1>3. /\ ModbusFineTypes(d, w, t, e) /\ ModbusFineStage(d, w, t, e) /\ ModbusFineRequest(d, w, t, e)
      /\ ModbusFineTruth(d, t, e) /\ ModbusFineScan(d, t) /\ ModbusFineSeen(d)
  BY DEF ModbusFine
<1>4. d.req \in M!Frames
  BY <1>3 DEF ModbusFineRequest, ModbusFineScan, M!Requests
<1>5. x \in ModbusOnWire /\ x # None /\ x.req = d.req /\ x.reply = None /\ x.wanted = TRUE
  <2>1. x \in ModbusOnWire
    BY <1>4 DEF ModbusOnWire
  <2> QED
    BY <2>1, ModbusAbsent
<1> HIDE DEF n, x
<1>6. ModbusFineTypes(n, x, t, e)
  BY <1>2, <1>3, <1>5 DEF ModbusFineTypes
<1>7. ModbusFineStage(n, x, t, e)
  BY <1>2, <1>3, <1>5 DEF ModbusFineStage
<1>8. ModbusFineRequest(n, x, t, e)
  BY <1>2, <1>3, <1>5 DEF ModbusFineRequest
<1>9. ModbusFineTruth(n, t, e)
  BY <1>2, <1>3 DEF ModbusFineTruth
<1>10. ModbusFineScan(n, t)
  BY <1>2, <1>3 DEF ModbusFineScan
<1>11. ModbusFineSeen(n)
  BY <1>2, <1>3 DEF ModbusFineSeen
<1> QED
  BY <1>6, <1>7, <1>8, <1>9, <1>10, <1>11 DEF ModbusFine, n, x

\* The controller has the frame: what it did is known where it is waited for.
LEMMA ModbusServesFine ==
    ASSUME M!Constants, NEW d, NEW w, NEW t, NEW e, ModbusFine(d, w, t, e), w # None,
           w.reply = None,
           NEW f, f = IF w.wanted THEN ModbusMade(w.req) ELSE e
    PROVE  ModbusFine(d, [w EXCEPT !.reply = M!Reply(w.req)], t, f)
<1> DEFINE x == [w EXCEPT !.reply = M!Reply(w.req)]
<1>3. /\ ModbusFineTypes(d, w, t, e) /\ ModbusFineStage(d, w, t, e) /\ ModbusFineRequest(d, w, t, e)
      /\ ModbusFineTruth(d, t, e) /\ ModbusFineScan(d, t) /\ ModbusFineSeen(d)
  BY DEF ModbusFine
<1>1. w \in ModbusOnWire /\ e \in ModbusEffects
  BY <1>3 DEF ModbusFineTypes
<1>2. w.req \in M!Frames /\ M!Reply(w.req) \in M!Classes
  BY <1>1, ModbusReplies DEF ModbusOnWire
<1>4. x \in ModbusOnWire /\ x # None /\ x.req = w.req /\ x.reply = M!Reply(w.req) /\
      x.wanted = w.wanted
  BY <1>1, <1>2, ModbusAbsent DEF ModbusOnWire
<1>5. M!Reply(w.req) # None
  BY <1>2, ModbusAbsent
<1> HIDE DEF x
<1>6. f \in ModbusEffects
  BY <1>1 DEF ModbusMade, ModbusEffects
<1>7. ModbusFineTypes(d, x, t, f)
  BY <1>3, <1>4, <1>6 DEF ModbusFineTypes
<1>8. ModbusFineStage(d, x, t, f)
  BY <1>3, <1>4 DEF ModbusFineStage
<1>9. ModbusFineRequest(d, x, t, f)
  BY <1>3, <1>4, <1>5 DEF ModbusFineRequest, ModbusFineStage
<1>10. ModbusFineTruth(d, t, f)
  <2>1. CASE w.wanted
    <3>1. t = None
      BY <2>1, <1>3 DEF ModbusFineStage
    <3> QED
      BY <3>1, ModbusAbsent DEF ModbusFineTruth, M!Endings
  <2>2. CASE ~w.wanted
    BY <2>2, <1>3
  <2> QED
    BY <2>1, <2>2
<1> QED
  BY <1>3, <1>7, <1>8, <1>9, <1>10 DEF ModbusFine, x

\* What nobody waits for may leave the line, or stay.
LEMMA ModbusDrainsFine ==
    ASSUME M!Constants, NEW d, NEW w, NEW t, NEW e, ModbusFine(d, w, t, e), w = None \/ ~w.wanted
    PROVE  ModbusFine(d, None, t, e)
<1>1. /\ ModbusFineTypes(d, w, t, e) /\ ModbusFineStage(d, w, t, e) /\ ModbusFineRequest(d, w, t, e)
      /\ ModbusFineTruth(d, t, e) /\ ModbusFineScan(d, t) /\ ModbusFineSeen(d)
  BY DEF ModbusFine
<1>2. d.stage # "sent"
  BY <1>1 DEF ModbusFineStage
<1>3. ModbusFineTypes(d, None, t, e) /\ ModbusFineStage(d, None, t, e) /\
      ModbusFineRequest(d, None, t, e)
  BY <1>1, <1>2 DEF ModbusFineTypes, ModbusFineStage, ModbusFineRequest
<1> QED
  BY <1>1, <1>3 DEF ModbusFine

LEMMA ModbusQuietFine ==
    ASSUME M!Constants, NEW d, NEW w, NEW t, NEW e, ModbusFine(d, w, t, e), d.stage # "idle",
           NEW x \in ModbusOnWire \cup {None}, x = None \/ ~x.wanted,
           NEW u \in {"busy", "lost", "cancelled"}, u = "busy" => e = "nothing"
    PROVE  ModbusFine(M!Quiet, x, u, e)
<1>1. M!Quiet \in ModbusDoings /\ Len(M!Quiet.seen) = 0 /\
      Len(M!Quiet.seen) <= Cardinality(Addresses)
  <2>1. <<>> \in Seq(Addresses \X M!Classes) /\ Len(<<>>) = 0
    BY EmptySeq
  <2> QED
    BY <2>1, ModbusNumbers DEF M!Quiet, ModbusDoings, M!Stages
<1>2. ModbusFineTypes(M!Quiet, x, u, e)
  BY <1>1 DEF ModbusFine, ModbusFineTypes, M!Endings
<1>3. u # None
  BY ModbusAbsent DEF M!Endings
<1>4. /\ ModbusFineStage(M!Quiet, x, u, e) /\ ModbusFineRequest(M!Quiet, x, u, e)
      /\ ModbusFineTruth(M!Quiet, u, e) /\ ModbusFineScan(M!Quiet, u)
  BY <1>3 DEF ModbusFineStage, ModbusFineRequest, ModbusFineTruth, ModbusFineScan, M!Quiet
<1>5. ModbusFineSeen(M!Quiet)
  BY <1>1 DEF ModbusFineSeen
<1> QED
  BY <1>2, <1>4, <1>5 DEF ModbusFine

\* A read or write is over: its outcome is the answer's class.
LEMMA ModbusEndsFine ==
    ASSUME M!Constants, NEW d, NEW w, NEW t, NEW e, ModbusFine(d, w, t, e), d.stage # "idle",
           d.left = {},
           NEW class \in M!Classes, ModbusFineTruth(d, M!Outcome(class), e),
           NEW x \in ModbusOnWire \cup {None}, x = None \/ ~x.wanted
    PROVE  ModbusFine([d EXCEPT !.stage = "idle"], x, M!Outcome(class), e)
<1> DEFINE n == [d EXCEPT !.stage = "idle"]
           u == M!Outcome(class)
<1>1. /\ ModbusFineTypes(d, w, t, e) /\ ModbusFineStage(d, w, t, e) /\ ModbusFineScan(d, t)
      /\ ModbusFineSeen(d)
  BY DEF ModbusFine
<1>2. d \in ModbusDoings
  BY <1>1 DEF ModbusFineTypes
<1>3. /\ n \in ModbusDoings /\ n.stage = "idle" /\ n.req = d.req /\ n.left = {} /\ n.seen = d.seen
  BY <1>2 DEF ModbusDoings, M!Stages
<1>4. u \in {"ok", "exception", "timeout", "error"}
  BY DEF M!Outcome, M!Classes
<1>5. u # None /\ u # "scan" /\ u \in M!Endings
  BY <1>4, ModbusAbsent DEF M!Endings
<1>6. d.seen = <<>>
  <2>1. t # "scan"
    BY <1>1, ModbusAbsent DEF ModbusFineStage, M!Endings
  <2> QED
    BY <2>1, <1>1 DEF ModbusFineScan
<1>7. ModbusFineTruth(n, u, e)
  BY <1>3 DEF ModbusFineTruth
<1> HIDE DEF n, u
<1>8. ModbusFineTypes(n, x, u, e)
  BY <1>1, <1>3, <1>5 DEF ModbusFineTypes
<1>9. ModbusFineStage(n, x, u, e) /\ ModbusFineRequest(n, x, u, e) /\ ModbusFineScan(n, u)
  BY <1>3, <1>5, <1>6 DEF ModbusFineStage, ModbusFineRequest, ModbusFineScan
<1>10. ModbusFineSeen(n)
  BY <1>1, <1>3 DEF ModbusFineSeen
<1> QED
  BY <1>7, <1>8, <1>9, <1>10 DEF ModbusFine, n, u

\* A scan notes one more address, and goes on with the next or ends.
LEMMA ModbusScansFine ==
    ASSUME M!Constants, NEW d, NEW w, NEW t, NEW e, ModbusFine(d, w, t, e), d.stage # "idle",
           d.left # {},
           NEW class \in M!Classes, class \in {"answered", "exception"} => d.req.slave = M!Station,
           NEW x \in ModbusOnWire \cup {None}, x = None \/ ~x.wanted,
           NEW left, left = d.left \ {d.req.slave},
           NEW noted, noted = Append(d.seen, <<d.req.slave, class>>)
    PROVE  /\ left # {} => ModbusFine([stage |-> "bus", req |-> M!Probe(left), left |-> left, seen |-> noted],
                                      x, t, e)
           /\ ModbusFine([M!Quiet EXCEPT !.left = left, !.seen = noted], x, "scan", e)
<1> DEFINE N == Cardinality(Addresses)
           k == Len(d.seen)
           slave == d.req.slave
<1>1. /\ ModbusFineTypes(d, w, t, e) /\ ModbusFineStage(d, w, t, e) /\ ModbusFineScan(d, t)
      /\ ModbusFineSeen(d)
  BY DEF ModbusFine
<1>2. d \in ModbusDoings /\ e \in ModbusEffects /\ k <= N
  BY <1>1 DEF ModbusFineTypes
<1>3. d.seen \in Seq(Addresses \X M!Classes) /\ d.left \subseteq Addresses
  BY <1>2 DEF ModbusDoings
<1>4. N \in Nat \ {0} /\ Addresses = 1 .. N
  BY ModbusNumbers
<1>5. k \in Nat
  BY <1>3, LenProperties
<1>6. d.left = k + 1 .. N /\ slave = k + 1
  BY <1>1 DEF ModbusFineScan
<1>7. slave \in Addresses /\ k + 1 <= N /\ k + 1 \in 1 .. N
  BY <1>4, <1>5, <1>6
<1>8. left = k + 2 .. N
  BY <1>4, <1>5, <1>6
<1>9. <<slave, class>> \in Addresses \X M!Classes
  BY <1>7
<1>10. /\ noted \in Seq(Addresses \X M!Classes) /\ Len(noted) = k + 1
       /\ \A i \in 1 .. k : noted[i] = d.seen[i]
       /\ noted[k + 1] = <<slave, class>>
  BY <1>3, <1>9, AppendProperties
<1>11. ASSUME NEW i \in 1 .. Len(noted)
       PROVE  noted[i][1] = i /\ (noted[i][2] \in {"answered", "exception"} => i = M!Station)
  <2>1. CASE i \in 1 .. k
    <3>1. noted[i] = d.seen[i]
      BY <2>1, <1>10
    <3> QED
      BY <3>1, <2>1, <1>1 DEF ModbusFineSeen
  <2>2. CASE i \notin 1 .. k
    <3>1. i = k + 1
      BY <2>2, <1>5, <1>10
    <3>2. noted[i] = <<slave, class>> /\ i = slave
      BY <3>1, <1>6, <1>10
    <3> QED
      BY <3>2
  <2> QED
    BY <2>1, <2>2
<1>12. t = None
  BY <1>1 DEF ModbusFineStage
<1>13. left \subseteq Addresses /\ Len(noted) <= N
  BY <1>4, <1>5, <1>7, <1>8, <1>10
<1>14. ASSUME left # {}
       PROVE  ModbusFine([stage |-> "bus", req |-> M!Probe(left), left |-> left, seen |-> noted], x, t, e)
  <2> DEFINE n == [stage |-> "bus", req |-> M!Probe(left), left |-> left, seen |-> noted]
  <2>1. k + 2 <= N
    BY <1>14, <1>8, <1>4, <1>5
  <2>2. (CHOOSE s \in left : \A u \in left : s <= u) = k + 2
    BY <2>1, <1>8, <1>4, <1>5
  <2>3. M!Probe(left) = [slave |-> k + 2, write |-> FALSE, address |-> 1, values |-> <<1>>]
    BY <2>2 DEF M!Probe
  <2>4. k + 2 \in Addresses /\ FALSE \in BOOLEAN /\ 1 \in M!Registers /\ <<1>> \in {<<1>>, <<2, 1>>}
    BY <2>1, <1>4, <1>5 DEF M!Registers
  <2>5. \E s \in Addresses, b \in BOOLEAN, a \in M!Registers, v \in {<<1>>, <<2, 1>>} :
          M!Probe(left) = [slave |-> s, write |-> b, address |-> a, values |-> v]
    BY <2>3, <2>4, Zenon
  <2>6. M!Probe(left) \in M!Frames /\ M!Probe(left).slave = k + 2 /\ ~M!Probe(left).write
    BY <2>3, <2>5 DEF M!Frames
  <2>7. n \in ModbusDoings
    BY <2>6, <1>10, <1>13 DEF ModbusDoings, M!Stages
  <2>8. /\ n.stage = "bus" /\ n.left = left /\ n.seen = noted /\ n.req = M!Probe(left)
    OBVIOUS
  <2> HIDE DEF n
  <2>9. ModbusFineTypes(n, x, t, e)
    BY <2>7, <2>8, <1>2, <1>12, <1>13 DEF ModbusFineTypes
  <2>10. ModbusFineStage(n, x, t, e)
    BY <2>8, <1>12 DEF ModbusFineStage
  <2>11. ModbusFineRequest(n, x, t, e)
    BY <2>8, <1>14 DEF ModbusFineRequest
  <2>12. ModbusFineTruth(n, t, e)
    BY <1>12, ModbusAbsent DEF ModbusFineTruth, M!Endings
  <2>13. ModbusFineScan(n, t)
    <3>1. left = Len(noted) + 1 .. N /\ M!Probe(left).slave = Len(noted) + 1
      BY <1>5, <1>8, <1>10, <2>6
    <3> QED
      BY <3>1, <2>6, <2>8, <1>14 DEF ModbusFineScan
  <2>14. ModbusFineSeen(n)
    BY <2>8, <1>11 DEF ModbusFineSeen
  <2> QED
    BY <2>9, <2>10, <2>11, <2>12, <2>13, <2>14 DEF ModbusFine, n
<1>15. ModbusFine([M!Quiet EXCEPT !.left = left, !.seen = noted], x, "scan", e)
  <2> DEFINE n == [M!Quiet EXCEPT !.left = left, !.seen = noted]
  <2>1. M!Quiet \in ModbusDoings /\ M!Quiet.stage = "idle"
    <3>1. <<>> \in Seq(Addresses \X M!Classes)
      BY EmptySeq
    <3> QED
      BY <3>1 DEF M!Quiet, ModbusDoings, M!Stages
  <2>2. n \in ModbusDoings
    BY <2>1, <1>10, <1>13 DEF ModbusDoings
  <2>3. n.stage = "idle" /\ n.left = left /\ n.seen = noted
    BY <2>1 DEF ModbusDoings
  <2>4. "scan" # None /\ "scan" \in M!Endings
    BY ModbusAbsent DEF M!Endings
  <2> HIDE DEF n
  <2>5. ModbusFineTypes(n, x, "scan", e)
    BY <2>2, <2>3, <2>4, <1>2, <1>13 DEF ModbusFineTypes
  <2>6. ModbusFineStage(n, x, "scan", e) /\ ModbusFineRequest(n, x, "scan", e) /\
        ModbusFineTruth(n, "scan", e)
    BY <2>3, <2>4 DEF ModbusFineStage, ModbusFineRequest, ModbusFineTruth
  <2>7. ModbusFineScan(n, "scan")
    <3>1. left = Len(noted) + 1 .. N
      BY <1>5, <1>8, <1>10
    <3> QED
      BY <3>1, <2>3 DEF ModbusFineScan
  <2>8. ModbusFineSeen(n)
    BY <2>3, <1>11 DEF ModbusFineSeen
  <2> QED
    BY <2>5, <2>6, <2>7, <2>8 DEF ModbusFine, n
<1> QED
  BY <1>14, <1>15

\* The end of a transaction, by either.
LEMMA ModbusConcludesFine ==
    ASSUME M!Constants, ModbusCallings, NEW c \in Callers, doing[c].stage # "idle",
           NEW class \in M!Classes, M!Conclude(c, class),
           doing[c].left = {} => ModbusFineTruth(doing[c], M!Outcome(class), effect[c]),
           doing[c].left # {} /\ class \in {"answered", "exception"} =>
             doing[c].req.slave = M!Station,
           NEW x \in ModbusOnWire \cup {None}, x = None \/ ~x.wanted,
           wire' = [wire EXCEPT ![c] = x], effect' = effect
    PROVE  ModbusCallings' /\ \E d : doing' = [doing EXCEPT ![c] = d]
<1> DEFINE d == doing[c]
           left == d.left \ {d.req.slave}
           noted == Append(d.seen, <<d.req.slave, class>>)
<1>1. ModbusFine(d, wire[c], told[c], effect[c])
  BY ModbusItself
<1>2. told = [told EXCEPT ![c] = told[c]] /\ effect' = [effect EXCEPT ![c] = effect[c]]
  BY ModbusItself
<1>3. CASE d.left = {}
  <2>1. /\ doing' = [doing EXCEPT ![c].stage = "idle"]
        /\ told' = [told EXCEPT ![c] = M!Outcome(class)]
    BY <1>3 DEF M!Conclude
  <2>2. doing' = [doing EXCEPT ![c] = [d EXCEPT !.stage = "idle"]]
    BY <2>1
  <2>3. ModbusFine([d EXCEPT !.stage = "idle"], x, M!Outcome(class), effect[c])
    BY <1>1, <1>3, ModbusEndsFine
  <2> QED
    BY <2>1, <2>2, <2>3, <1>2, ModbusOneCaller
<1>4. CASE d.left # {}
  <2> DEFINE n == [stage |-> "bus", req |-> M!Probe(left), left |-> left, seen |-> noted]
             q == [M!Quiet EXCEPT !.left = left, !.seen = noted]
  <2>1. (left # {} => ModbusFine(n, x, told[c], effect[c])) /\ ModbusFine(q, x, "scan", effect[c])
    BY <1>1, <1>4, ModbusScansFine
  <2>2. \/ left # {} /\ doing' = [doing EXCEPT ![c] = n] /\ told' = told
        \/ doing' = [doing EXCEPT ![c] = q] /\ told' = [told EXCEPT ![c] = "scan"]
    BY <1>4 DEF M!Conclude
  <2> HIDE DEF n, q, left, noted, d
  <2>3. CASE left # {} /\ doing' = [doing EXCEPT ![c] = n] /\ told' = told
    <3>1. told' = [told EXCEPT ![c] = told[c]] /\ doing' = [doing EXCEPT ![c] = n]
      BY <2>3, <1>2
    <3>2. ModbusFine(n, x, told[c], effect[c])
      BY <2>1, <2>3
    <3>3. ModbusCallings'
      BY <3>1, <3>2, <1>2, ModbusOneCaller
    <3> QED
      BY <3>1, <3>3
  <2>4. CASE doing' = [doing EXCEPT ![c] = q] /\ told' = [told EXCEPT ![c] = "scan"]
    BY <2>1, <2>4, <1>2, ModbusOneCaller
  <2> QED
    BY <2>2, <2>3, <2>4
<1> QED
  BY <1>3, <1>4

-----------------------------------------------------------------------------
(* The invariant holds after each step.                                    *)
LEMMA ModbusSameTable == ASSUME ModbusTable, table' = table PROVE ModbusTable'
  BY DEF ModbusTable

LEMMA ModbusStepBegin ==
    ASSUME M!Constants, ModbusIInv, NEW c \in Callers, NEW req, NEW left, M!Begin(c, req, left),
           (req \in M!Requests /\ left = {}) \/ (req = M!Probe(Addresses) /\ left = Addresses)
    PROVE  ModbusIInv'
<1> DEFINE n == [stage |-> "bus", req |-> req, left |-> left, seen |-> <<>>]
<1>1. /\ doing[c].stage = "idle" /\ told[c] = None /\ doing' = [doing EXCEPT ![c] = n]
      /\ lock' = lock /\ waiting' = waiting /\ deadline' = deadline /\ wire' = wire
      /\ table' = table /\ told' = told /\ effect' = effect
  BY DEF M!Begin
<1>2. ModbusCallings /\ ModbusQueue /\ ModbusTable
  BY DEF ModbusIInv
<1>3. ModbusFine(n, wire[c], told[c], effect[c])
  BY <1>1, <1>2, ModbusItself, ModbusBeginsFine
<1> HIDE DEF n
<1>4. /\ wire' = [wire EXCEPT ![c] = wire[c]] /\ told' = [told EXCEPT ![c] = told[c]]
      /\ effect' = [effect EXCEPT ![c] = effect[c]]
  BY <1>1, <1>2, ModbusItself
<1>5. ModbusCallings'
  <2>1. /\ doing' = [doing EXCEPT ![c] = n] /\ wire' = [wire EXCEPT ![c] = wire[c]]
        /\ told' = [told EXCEPT ![c] = told[c]] /\ effect' = [effect EXCEPT ![c] = effect[c]]
    BY <1>1, <1>4
  <2> QED
    BY <2>1, <1>2, <1>3, ModbusOneCaller
<1>6. lock' \in Callers \cup {None} /\ deadline' \subseteq Callers
  BY <1>1, <1>2 DEF ModbusQueue
<1>7. ModbusQueue'
  BY <1>1, <1>2, <1>6, ModbusSameQueue
<1>8. ModbusTable'
  BY <1>1, <1>2, ModbusSameTable
<1> QED
  BY <1>5, <1>7, <1>8 DEF ModbusIInv

LEMMA ModbusStepEnter ==
    ASSUME M!Constants, ModbusIInv, NEW c \in Callers, M!Enter(c)
    PROVE  ModbusIInv'
<1>1. /\ doing[c].stage = "bus" /\ wire' = wire /\ table' = table /\ told' = told
      /\ effect' = effect
  BY DEF M!Enter
<1>2. ModbusCallings /\ ModbusQueue /\ ModbusTable
  BY DEF ModbusIInv
<1>3. /\ wire' = [wire EXCEPT ![c] = wire[c]] /\ told' = [told EXCEPT ![c] = told[c]]
      /\ effect' = [effect EXCEPT ![c] = effect[c]]
      /\ ModbusFine(doing[c], wire[c], told[c], effect[c])
  BY <1>1, <1>2, ModbusItself
<1>4. CASE lock = None /\ waiting = <<>>
  <2> DEFINE n == [doing[c] EXCEPT !.stage = "holds"]
  <2>1. /\ lock' = c /\ doing' = [doing EXCEPT ![c] = n] /\ waiting' = waiting
        /\ deadline' = deadline
    BY <1>4 DEF M!Enter
  <2>2. ModbusFine(n, wire[c], told[c], effect[c])
    BY <1>1, <1>3, ModbusMovesFine
  <2> HIDE DEF n
  <2>3. ModbusCallings'
    BY <2>1, <2>2, <1>2, <1>3, ModbusOneCaller
  <2>4. lock' \in Callers \cup {None} /\ deadline' \subseteq Callers
    BY <2>1, <1>2 DEF ModbusQueue
  <2>5. ModbusQueue'
    BY <2>1, <2>4, <1>1, <1>2, ModbusSameQueue
  <2> QED
    BY <2>3, <2>5, <1>1, <1>2, ModbusSameTable DEF ModbusIInv
<1>5. CASE ~(lock = None /\ waiting = <<>>)
  <2> DEFINE n == [doing[c] EXCEPT !.stage = "wait"]
  <2>1. /\ waiting' = Append(waiting, c) /\ doing' = [doing EXCEPT ![c] = n] /\ lock' = lock
        /\ deadline' = IF lock # None THEN deadline \cup {c} ELSE deadline \ {c}
    BY <1>5 DEF M!Enter
  <2>2. ModbusFine(n, wire[c], told[c], effect[c])
    BY <1>1, <1>3, ModbusMovesFine
  <2>3. n.stage = "wait"
    BY <1>2, ModbusItself DEF ModbusDoings
  <2> HIDE DEF n
  <2>4. ModbusCallings'
    BY <2>1, <2>2, <1>2, <1>3, ModbusOneCaller
  <2>5. lock' \in Callers \cup {None} /\ deadline' \subseteq Callers
    BY <2>1, <1>2 DEF ModbusQueue
  <2>6. /\ waiting \in Seq(Callers) /\ ModbusOneToOne(waiting) /\ DOMAIN doing = Callers
        /\ \A i \in 1 .. Len(waiting) : doing[waiting[i]].stage = "wait"
    BY <1>2 DEF ModbusQueue, ModbusCallings
  <2>7. /\ waiting' \in Seq(Callers) /\ Len(waiting') = Len(waiting) + 1
        /\ \A i \in 1 .. Len(waiting) : waiting'[i] = waiting[i]
        /\ waiting'[Len(waiting) + 1] = c
    BY <2>1, <2>6, AppendProperties
  <2>8. \A i \in 1 .. Len(waiting) : waiting[i] \in Callers /\ waiting[i] # c
    BY <2>6, <1>1, ElementOfSeq
  <2>9. Len(waiting) \in Nat
    BY <2>6, LenProperties
  <2>10. ModbusOneToOne(waiting')
    BY <2>6, <2>7, <2>8, <2>9 DEF ModbusOneToOne
  <2>11. ASSUME NEW i \in 1 .. Len(waiting') PROVE doing'[waiting'[i]].stage = "wait"
    <3>1. CASE i \in 1 .. Len(waiting)
      BY <3>1, <2>1, <2>6, <2>7, <2>8
    <3>2. CASE i \notin 1 .. Len(waiting)
      <4>1. i = Len(waiting) + 1
        BY <3>2, <2>7, <2>9
      <4> QED
        BY <4>1, <2>1, <2>3, <2>6, <2>7
    <3> QED
      BY <3>1, <3>2
  <2>12. ModbusQueue'
    BY <2>5, <2>7, <2>10, <2>11 DEF ModbusQueue, ModbusOneToOne
  <2> QED
    BY <2>4, <2>12, <1>1, <1>2, ModbusSameTable DEF ModbusIInv
<1> QED
  BY <1>4, <1>5

LEMMA ModbusStepGranted == ASSUME M!Constants, ModbusIInv, M!Granted PROVE ModbusIInv'
<1> DEFINE c == Head(waiting)
           n == [doing[c] EXCEPT !.stage = "holds"]
<1>1. /\ waiting # <<>> /\ lock' = c /\ waiting' = Tail(waiting)
      /\ doing' = [doing EXCEPT ![c] = n] /\ deadline' = deadline
      /\ wire' = wire /\ table' = table /\ told' = told /\ effect' = effect
  BY DEF M!Granted
<1>2. ModbusCallings /\ ModbusQueue /\ ModbusTable
  BY DEF ModbusIInv
<1>3. /\ waiting \in Seq(Callers) /\ ModbusOneToOne(waiting) /\ DOMAIN doing = Callers
      /\ \A i \in 1 .. Len(waiting) : doing[waiting[i]].stage = "wait"
  BY <1>2 DEF ModbusQueue, ModbusCallings
<1>4. /\ c \in Callers /\ waiting' \in Seq(Callers) /\ Len(waiting') = Len(waiting) - 1
      /\ \A i \in 1 .. Len(waiting') : waiting'[i] = waiting[i + 1]
  BY <1>1, <1>3, HeadTailProperties
<1>5. Len(waiting) \in Nat \ {0} /\ c = waiting[1]
  <2>1. Len(waiting) \in Nat /\ Len(waiting) # 0
    BY <1>1, <1>3, LenProperties
  <2> QED
    BY <2>1, <1>3
<1>6. doing[c].stage = "wait"
  BY <1>3, <1>5
<1>7. /\ wire' = [wire EXCEPT ![c] = wire[c]] /\ told' = [told EXCEPT ![c] = told[c]]
      /\ effect' = [effect EXCEPT ![c] = effect[c]]
      /\ ModbusFine(doing[c], wire[c], told[c], effect[c])
  BY <1>1, <1>2, <1>4, ModbusItself
<1>8. ModbusFine(n, wire[c], told[c], effect[c])
  BY <1>6, <1>7, ModbusMovesFine
<1> HIDE DEF n, c
<1>9. ModbusCallings'
  <2>1. /\ doing' = [doing EXCEPT ![c] = n] /\ wire' = [wire EXCEPT ![c] = wire[c]]
        /\ told' = [told EXCEPT ![c] = told[c]] /\ effect' = [effect EXCEPT ![c] = effect[c]]
    BY <1>1, <1>7
  <2> QED
    BY <2>1, <1>2, <1>4, <1>8, ModbusOneCaller
<1>10. ModbusOneToOne(waiting')
  BY <1>3, <1>4, <1>5 DEF ModbusOneToOne
<1>11. ASSUME NEW i \in 1 .. Len(waiting') PROVE doing'[waiting'[i]].stage = "wait"
  <2>1. waiting'[i] = waiting[i + 1] /\ i + 1 \in 1 .. Len(waiting) /\ i + 1 # 1
    BY <1>4, <1>5
  <2>2. waiting[i + 1] # c /\ waiting[i + 1] \in Callers
    BY <2>1, <1>3, <1>5, ElementOfSeq DEF ModbusOneToOne
  <2> QED
    BY <2>1, <2>2, <1>1, <1>3
<1>12. lock' \in Callers \cup {None} /\ deadline' \subseteq Callers
  BY <1>1, <1>2, <1>4 DEF ModbusQueue
<1>13. ModbusQueue'
  BY <1>4, <1>10, <1>11, <1>12 DEF ModbusQueue, ModbusOneToOne
<1> QED
  BY <1>9, <1>13, <1>1, <1>2, ModbusSameTable DEF ModbusIInv

LEMMA ModbusStepGiveUpBus ==
    ASSUME M!Constants, ModbusIInv, NEW c \in Callers, M!GiveUpBus(c)
    PROVE  ModbusIInv'
<1> DEFINE u == IF doing[c].left = {} THEN "busy" ELSE "lost"
<1>1. /\ doing[c].stage = "wait" /\ doing' = [doing EXCEPT ![c] = M!Quiet] /\ M!Free(c)
      /\ told' = [told EXCEPT ![c] = u]
      /\ deadline' = deadline /\ wire' = wire /\ table' = table /\ effect' = effect
  BY DEF M!GiveUpBus
<1>2. ModbusCallings /\ ModbusQueue /\ ModbusTable
  BY DEF ModbusIInv
<1>3. /\ wire' = [wire EXCEPT ![c] = wire[c]] /\ effect' = [effect EXCEPT ![c] = effect[c]]
      /\ ModbusFine(doing[c], wire[c], told[c], effect[c])
      /\ ModbusFineTypes(doing[c], wire[c], told[c], effect[c])
      /\ ModbusFineStage(doing[c], wire[c], told[c], effect[c])
      /\ ModbusFineRequest(doing[c], wire[c], told[c], effect[c])
  BY <1>1, <1>2, ModbusItself
<1>4. u \in {"busy", "lost", "cancelled"} /\ (u = "busy" => effect[c] = "nothing")
  BY <1>1, <1>3 DEF ModbusFineRequest
<1>5. wire[c] \in ModbusOnWire \cup {None} /\ (wire[c] = None \/ ~wire[c].wanted)
  BY <1>1, <1>3 DEF ModbusFineStage, ModbusFineTypes
<1> HIDE DEF u
<1>6. ModbusFine(M!Quiet, wire[c], u, effect[c])
  BY <1>1, <1>3, <1>4, <1>5, ModbusQuietFine
<1>7. ModbusCallings'
  BY <1>1, <1>2, <1>3, <1>6, ModbusOneCaller
<1>8. ModbusQueue'
  BY <1>1, <1>2, ModbusFreedQueue
<1> QED
  BY <1>7, <1>8, <1>1, <1>2, ModbusSameTable DEF ModbusIInv

LEMMA ModbusStepSend ==
    ASSUME M!Constants, ModbusIInv, NEW c \in Callers, M!Send(c)
    PROVE  ModbusIInv'
<1> DEFINE n == [doing[c] EXCEPT !.stage = "sent"]
           x == [req |-> doing[c].req, reply |-> None, wanted |-> TRUE]
<1>1. /\ doing[c].stage = "holds" /\ wire' = [wire EXCEPT ![c] = x]
      /\ doing' = [doing EXCEPT ![c] = n] /\ lock' = lock /\ waiting' = waiting
      /\ deadline' = deadline /\ table' = table /\ told' = told /\ effect' = effect
  BY DEF M!Send
<1>2. ModbusCallings /\ ModbusQueue /\ ModbusTable
  BY DEF ModbusIInv
<1>3. /\ told' = [told EXCEPT ![c] = told[c]] /\ effect' = [effect EXCEPT ![c] = effect[c]]
      /\ ModbusFine(doing[c], wire[c], told[c], effect[c])
  BY <1>1, <1>2, ModbusItself
<1>4. ModbusFine(n, x, told[c], effect[c])
  BY <1>1, <1>3, ModbusSendsFine
<1> HIDE DEF n, x
<1>5. ModbusCallings'
  <2>1. /\ doing' = [doing EXCEPT ![c] = n] /\ wire' = [wire EXCEPT ![c] = x]
        /\ told' = [told EXCEPT ![c] = told[c]] /\ effect' = [effect EXCEPT ![c] = effect[c]]
    BY <1>1, <1>3
  <2> QED
    BY <2>1, <1>2, <1>4, ModbusOneCaller
<1>6. lock' \in Callers \cup {None} /\ deadline' \subseteq Callers
  BY <1>1, <1>2 DEF ModbusQueue
<1>7. ModbusQueue'
  BY <1>1, <1>2, <1>6, ModbusSameQueue
<1> QED
  BY <1>5, <1>7, <1>1, <1>2, ModbusSameTable DEF ModbusIInv

\* The queue does not see what happens on the line.
LEMMA ModbusLineOnly ==
    ASSUME ModbusQueue, doing' = doing, lock' = lock, waiting' = waiting, deadline' = deadline
    PROVE  ModbusQueue'
  BY DEF ModbusQueue, ModbusOneToOne

LEMMA ModbusWrittenTyped ==
    ASSUME NEW req \in M!Frames, ModbusTable
    PROVE  /\ M!Effect(req, table, M!Written(req, table)) = ModbusMade(req)
           /\ M!Written(req, table) \in [M!Registers \ M!ReadOnly -> M!Words]
           /\ M!Written(req, table)[1] \in 0 .. M!ModeMax
<1> DEFINE new == M!Written(req, table)
<1>1. /\ table \in [M!Registers \ M!ReadOnly -> M!Words] /\ table[1] \in 0 .. M!ModeMax
      /\ DOMAIN table = M!Registers \ M!ReadOnly /\ table[2] \in M!Words
  BY DEF ModbusTable, M!Registers, M!ReadOnly
<1>2. /\ M!Effect(req, table, new) = ModbusMade(req) /\ DOMAIN new = M!Registers \ M!ReadOnly
      /\ new[1] \in 0 .. M!ModeMax /\ new[2] \in M!Words
  BY <1>1, ModbusServed
<1>3. new = [r \in DOMAIN new |-> new[r]]
  <2>1. CASE new = table
    BY <2>1, <1>1
  <2>2. CASE new = [r \in DOMAIN table |-> IF r \in M!Span(req) THEN M!Word(req, r) ELSE table[r]]
    BY <2>2
  <2> QED
    BY <2>1, <2>2 DEF M!Written
<1>4. \A r \in M!Registers \ M!ReadOnly : new[r] \in M!Words
  <2>1. \A r \in M!Registers \ M!ReadOnly : r = 1 \/ r = 2
    BY DEF M!Registers, M!ReadOnly
  <2>2. new[1] \in M!Words
    BY <1>2 DEF M!ModeMax, M!Words
  <2> HIDE DEF new
  <2> QED
    BY <2>1, <2>2, <1>2
<1> HIDE DEF new
<1>5. new \in [M!Registers \ M!ReadOnly -> M!Words]
  BY <1>2, <1>3, <1>4
<1> QED
  BY <1>2, <1>5 DEF new

LEMMA ModbusStepServe ==
    ASSUME M!Constants, ModbusIInv, NEW c \in Callers, M!Serve(c)
    PROVE  ModbusIInv'
<1> DEFINE req == wire[c].req
           new == IF req.slave = M!Station THEN M!Written(req, table) ELSE table
           f == IF wire[c].wanted THEN ModbusMade(req) ELSE effect[c]
<1>1. /\ wire[c] # None /\ wire[c].reply = None
      /\ wire' = [wire EXCEPT ![c].reply = M!Reply(req)] /\ table' = new
      /\ effect' = IF wire[c].wanted THEN [effect EXCEPT ![c] = M!Effect(req, table, table')]
                   ELSE effect
      /\ lock' = lock /\ waiting' = waiting /\ deadline' = deadline /\ doing' = doing
      /\ told' = told
  BY DEF M!Serve
<1>2. ModbusCallings /\ ModbusQueue /\ ModbusTable
  BY DEF ModbusIInv
<1>3. /\ doing = [doing EXCEPT ![c] = doing[c]] /\ told = [told EXCEPT ![c] = told[c]]
      /\ effect = [effect EXCEPT ![c] = effect[c]]
      /\ ModbusFine(doing[c], wire[c], told[c], effect[c])
      /\ ModbusFineTypes(doing[c], wire[c], told[c], effect[c])
      /\ ModbusFineStage(doing[c], wire[c], told[c], effect[c])
      /\ ModbusFineRequest(doing[c], wire[c], told[c], effect[c])
      /\ ModbusFineScan(doing[c], told[c])
  BY <1>1, <1>2, ModbusItself
<1>4. req \in M!Frames
  BY <1>1, <1>3 DEF ModbusFineTypes, ModbusOnWire
<1>5. /\ M!Effect(req, table, M!Written(req, table)) = ModbusMade(req)
      /\ M!Written(req, table) \in [M!Registers \ M!ReadOnly -> M!Words]
      /\ M!Written(req, table)[1] \in 0 .. M!ModeMax
  BY <1>2, <1>4, ModbusWrittenTyped
<1>6. ModbusTable'
  BY <1>1, <1>2, <1>5 DEF ModbusTable
<1>7. M!Effect(req, table, table') = ModbusMade(req) \/ ~wire[c].wanted
  <2>1. CASE req.slave = M!Station
    BY <2>1, <1>1, <1>5
  <2>2. CASE req.slave # M!Station /\ wire[c].wanted
    <3>1. doing[c].stage = "sent" /\ req = doing[c].req
      BY <1>1, <1>3, <2>2 DEF ModbusFineStage
    <3>2. ~req.write
      BY <3>1, <2>2, <1>3 DEF ModbusFineRequest, ModbusFineScan, M!Requests
    <3>3. table' = table
      BY <1>1, <2>2
    <3> QED
      BY <3>2, <3>3, Zenon DEF M!Effect, ModbusMade
  <2> QED
    BY <2>1, <2>2
<1>8. effect' = [effect EXCEPT ![c] = f]
  BY <1>1, <1>3, <1>7
<1>9. wire' = [wire EXCEPT ![c] = [wire[c] EXCEPT !.reply = M!Reply(req)]]
  BY <1>1
<1> HIDE DEF new
<1>10. ModbusFine(doing[c], [wire[c] EXCEPT !.reply = M!Reply(req)], told[c], f)
  BY <1>1, <1>3, ModbusServesFine
<1>11. doing' = [doing EXCEPT ![c] = doing[c]] /\ told' = [told EXCEPT ![c] = told[c]]
  BY <1>1, <1>3
<1> HIDE DEF f, req
<1>12. ModbusCallings'
  BY <1>2, <1>8, <1>9, <1>10, <1>11, ModbusOneCaller
<1>13. ModbusQueue'
  BY <1>1, <1>2, ModbusLineOnly
<1> QED
  BY <1>6, <1>12, <1>13 DEF ModbusIInv

LEMMA ModbusStepReceive ==
    ASSUME M!Constants, ModbusIInv, NEW c \in Callers, M!Receive(c)
    PROVE  ModbusIInv'
<1> DEFINE class == wire[c].reply
<1>1. /\ wire[c] # None /\ wire[c].wanted /\ class \notin {None, "silent"}
      /\ M!Conclude(c, class) /\ wire' = [wire EXCEPT ![c] = None]
      /\ deadline' = deadline /\ table' = table /\ effect' = effect
  BY DEF M!Receive
<1>2. ModbusCallings /\ ModbusQueue /\ ModbusTable
  BY DEF ModbusIInv
<1>3. /\ ModbusFineStage(doing[c], wire[c], told[c], effect[c])
      /\ ModbusFineRequest(doing[c], wire[c], told[c], effect[c])
      /\ ModbusFineScan(doing[c], told[c])
  BY <1>2, ModbusItself
<1>4. /\ doing[c].stage = "sent" /\ wire[c].req = doing[c].req
      /\ class = M!Reply(doing[c].req)
  BY <1>1, <1>3 DEF ModbusFineStage
<1>5. doing[c].req \in M!Frames
  BY <1>3, <1>4 DEF ModbusFineRequest, ModbusFineScan, M!Requests
<1>6. /\ class \in M!Classes \ {"error"}
      /\ class \in {"answered", "exception"} => doing[c].req.slave = M!Station
      /\ doing[c].req \in M!Requests =>
           class = IF M!Refuses(doing[c].req) THEN "exception" ELSE "answered"
  BY <1>4, <1>5, ModbusReplies
<1>7. ASSUME doing[c].left = {} PROVE ModbusFineTruth(doing[c], M!Outcome(class), effect[c])
  <2>1. doing[c].req \in M!Requests /\ effect[c] = ModbusMade(doing[c].req)
    BY <1>1, <1>3, <1>4, <1>7 DEF ModbusFineRequest
  <2>2. CASE M!Refuses(doing[c].req)
    <3>1. M!Outcome(class) = "exception"
      BY <2>1, <2>2, <1>6 DEF M!Outcome
    <3> QED
      BY <3>1, <2>1, <2>2 DEF ModbusFineTruth, ModbusMade
  <2>3. CASE ~M!Refuses(doing[c].req)
    <3>1. M!Outcome(class) = "ok"
      BY <2>1, <2>3, <1>6 DEF M!Outcome
    <3> QED
      BY <3>1, <2>1, <2>3 DEF ModbusFineTruth, ModbusMade
  <2> QED
    BY <2>2, <2>3
<1> HIDE DEF class
<1>8. ModbusCallings' /\ \E d : doing' = [doing EXCEPT ![c] = d]
  BY <1>1, <1>2, <1>4, <1>6, <1>7, ModbusConcludesFine
<1>9. ModbusQueue'
  BY <1>1, <1>2, <1>8, ModbusFreedQueue DEF M!Conclude
<1> QED
  BY <1>8, <1>9, <1>1, <1>2, ModbusSameTable DEF ModbusIInv

LEMMA ModbusStepTimeOut ==
    ASSUME M!Constants, ModbusIInv, NEW c \in Callers, M!TimeOut(c)
    PROVE  ModbusIInv'
<1> DEFINE x == [wire[c] EXCEPT !.wanted = FALSE]
<1>1. /\ doing[c].stage = "sent" /\ M!Conclude(c, "silent") /\ wire' = [wire EXCEPT ![c] = x]
      /\ deadline' = deadline /\ table' = table /\ effect' = effect
  BY DEF M!TimeOut
<1>2. ModbusCallings /\ ModbusQueue /\ ModbusTable
  BY DEF ModbusIInv
<1>3. /\ ModbusFineStage(doing[c], wire[c], told[c], effect[c])
      /\ ModbusFineTypes(doing[c], wire[c], told[c], effect[c])
  BY <1>2, ModbusItself
<1>4. wire[c] \in ModbusOnWire
  BY <1>1, <1>3 DEF ModbusFineStage, ModbusFineTypes
<1>5. x \in ModbusOnWire \cup {None} /\ ~x.wanted
  BY <1>4 DEF ModbusOnWire
<1>6. ModbusFineTruth(doing[c], M!Outcome("silent"), effect[c])
  BY DEF ModbusFineTruth, M!Outcome
<1>7. "silent" \in M!Classes /\ "silent" \notin {"answered", "exception"}
  BY DEF M!Classes
<1> HIDE DEF x
<1>8. ModbusCallings' /\ \E d : doing' = [doing EXCEPT ![c] = d]
  BY <1>1, <1>2, <1>5, <1>6, <1>7, ModbusConcludesFine
<1>9. ModbusQueue'
  BY <1>1, <1>2, <1>8, ModbusFreedQueue DEF M!Conclude
<1> QED
  BY <1>8, <1>9, <1>1, <1>2, ModbusSameTable DEF ModbusIInv

LEMMA ModbusStepUnreachable ==
    ASSUME M!Constants, ModbusIInv, NEW c \in Callers, M!Unreachable(c)
    PROVE  ModbusIInv'
<1>1. /\ doing[c].stage = "holds" /\ wire[c] = None /\ M!Conclude(c, "error")
      /\ wire' = wire /\ deadline' = deadline /\ table' = table /\ effect' = effect
  BY DEF M!Unreachable
<1>2. ModbusCallings /\ ModbusQueue /\ ModbusTable
  BY DEF ModbusIInv
<1>3. /\ ModbusFineRequest(doing[c], wire[c], told[c], effect[c])
      /\ wire' = [wire EXCEPT ![c] = None]
  BY <1>1, <1>2, ModbusItself
<1>4. ASSUME doing[c].left = {} PROVE ModbusFineTruth(doing[c], M!Outcome("error"), effect[c])
  <2>1. effect[c] = "nothing"
    BY <1>1, <1>3, <1>4 DEF ModbusFineRequest
  <2>2. M!Outcome("error") = "error"
    BY DEF M!Outcome
  <2> QED
    BY <2>1, <2>2 DEF ModbusFineTruth
<1>5. "error" \in M!Classes /\ "error" \notin {"answered", "exception"}
  BY DEF M!Classes
<1>6. ModbusCallings' /\ \E d : doing' = [doing EXCEPT ![c] = d]
  BY <1>1, <1>2, <1>3, <1>4, <1>5, ModbusConcludesFine
<1>7. ModbusQueue'
  BY <1>1, <1>2, <1>6, ModbusFreedQueue DEF M!Conclude
<1> QED
  BY <1>6, <1>7, <1>1, <1>2, ModbusSameTable DEF ModbusIInv

LEMMA ModbusStepCancel ==
    ASSUME M!Constants, ModbusIInv, NEW c \in Callers, M!Cancel(c)
    PROVE  ModbusIInv'
<1>1. /\ doing[c].stage # "idle" /\ doing' = [doing EXCEPT ![c] = M!Quiet] /\ M!Free(c)
      /\ told' = [told EXCEPT ![c] = "cancelled"]
      /\ wire' = IF wire[c] = None THEN wire ELSE [wire EXCEPT ![c].wanted = FALSE]
      /\ deadline' = deadline /\ table' = table /\ effect' = effect
  BY DEF M!Cancel
<1>2. ModbusCallings /\ ModbusQueue /\ ModbusTable
  BY DEF ModbusIInv
<1>3. /\ wire = [wire EXCEPT ![c] = wire[c]] /\ effect' = [effect EXCEPT ![c] = effect[c]]
      /\ ModbusFine(doing[c], wire[c], told[c], effect[c])
      /\ ModbusFineTypes(doing[c], wire[c], told[c], effect[c])
  BY <1>1, <1>2, ModbusItself
<1>4. \E x \in ModbusOnWire \cup {None} : (x = None \/ ~x.wanted) /\ wire' = [wire EXCEPT ![c] = x]
  <2>1. CASE wire[c] = None
    BY <2>1, <1>1, <1>3
  <2>2. CASE wire[c] # None
    <3>1. wire[c] \in ModbusOnWire
      BY <2>2, <1>3 DEF ModbusFineTypes
    <3>2. [wire[c] EXCEPT !.wanted = FALSE] \in ModbusOnWire /\
          ~[wire[c] EXCEPT !.wanted = FALSE].wanted
      BY <3>1 DEF ModbusOnWire
    <3>3. wire' = [wire EXCEPT ![c] = [wire[c] EXCEPT !.wanted = FALSE]]
      BY <2>2, <1>1
    <3> QED
      BY <3>2, <3>3
  <2> QED
    BY <2>1, <2>2
<1>5. PICK x \in ModbusOnWire \cup {None} :
      (x = None \/ ~x.wanted) /\ wire' = [wire EXCEPT ![c] = x]
  BY <1>4
<1>6. ModbusFine(M!Quiet, x, "cancelled", effect[c])
  BY <1>1, <1>3, <1>5, ModbusQuietFine
<1>7. ModbusCallings'
  BY <1>1, <1>2, <1>3, <1>5, <1>6, ModbusOneCaller
<1>8. ModbusQueue'
  BY <1>1, <1>2, ModbusFreedQueue
<1> QED
  BY <1>7, <1>8, <1>1, <1>2, ModbusSameTable DEF ModbusIInv

LEMMA ModbusStepDrain ==
    ASSUME M!Constants, ModbusIInv, NEW c \in Callers, M!Drain(c)
    PROVE  ModbusIInv'
<1>1. /\ ~wire[c].wanted /\ wire' = [wire EXCEPT ![c] = None]
      /\ lock' = lock /\ waiting' = waiting /\ deadline' = deadline /\ doing' = doing
      /\ table' = table /\ told' = told /\ effect' = effect
  BY DEF M!Drain
<1>2. ModbusCallings /\ ModbusQueue /\ ModbusTable
  BY DEF ModbusIInv
<1>3. /\ doing' = [doing EXCEPT ![c] = doing[c]] /\ told' = [told EXCEPT ![c] = told[c]]
      /\ effect' = [effect EXCEPT ![c] = effect[c]]
      /\ ModbusFine(doing[c], wire[c], told[c], effect[c])
  BY <1>1, <1>2, ModbusItself
<1>4. ModbusFine(doing[c], None, told[c], effect[c])
  BY <1>1, <1>3, ModbusDrainsFine
<1>5. ModbusCallings'
  <2>1. /\ doing' = [doing EXCEPT ![c] = doing[c]] /\ wire' = [wire EXCEPT ![c] = None]
        /\ told' = [told EXCEPT ![c] = told[c]] /\ effect' = [effect EXCEPT ![c] = effect[c]]
    BY <1>1, <1>3
  <2> QED
    BY <2>1, <1>2, <1>4, ModbusOneCaller
<1>6. ModbusQueue'
  BY <1>1, <1>2, ModbusLineOnly
<1> QED
  BY <1>5, <1>6, <1>1, <1>2, ModbusSameTable DEF ModbusIInv

LEMMA ModbusStepIInv == ASSUME M!Constants, ModbusIInv, [M!Next]_(M!vars) PROVE ModbusIInv'
<1>1. CASE UNCHANGED M!vars
  BY <1>1 DEF M!vars, ModbusIInv, ModbusCallings, ModbusQueue, ModbusTable, ModbusOneToOne
<1>2. CASE M!Granted
  BY <1>2, ModbusStepGranted
<1>3. ASSUME NEW c \in Callers,
             M!Enter(c) \/ M!GiveUpBus(c) \/ M!Send(c) \/ M!Serve(c) \/ M!Receive(c) \/ M!TimeOut(c)
      PROVE  ModbusIInv'
  BY <1>3, ModbusStepEnter, ModbusStepGiveUpBus, ModbusStepSend, ModbusStepServe,
     ModbusStepReceive, ModbusStepTimeOut
<1>4. ASSUME NEW c \in Callers, M!Unreachable(c) \/ M!Cancel(c) \/ M!Drain(c)
      PROVE  ModbusIInv'
  BY <1>4, ModbusStepUnreachable, ModbusStepCancel, ModbusStepDrain
<1>5. ASSUME NEW c \in Callers, M!BeginScan(c) PROVE ModbusIInv'
  BY <1>5, ModbusStepBegin DEF M!BeginScan
<1>6. ASSUME NEW c \in Callers, NEW req \in M!Requests, M!BeginRead(c, req) \/ M!BeginWrite(c, req)
      PROVE  ModbusIInv'
  <2>1. M!Begin(c, req, {})
    BY <1>6 DEF M!BeginRead, M!BeginWrite
  <2> QED
    BY <1>6, <2>1, ModbusStepBegin
<1> QED
  BY <1>1, <1>2, <1>3, <1>4, <1>5, <1>6 DEF M!Next

\* What it is kept for.
LEMMA ModbusMeansTyped == ASSUME M!Constants, ModbusIInv PROVE M!TypeOK
<1>1. \A c \in Callers : doing[c] \in ModbusDoings /\ Len(doing[c].seen) <= Cardinality(Addresses)
  BY DEF ModbusIInv, ModbusCallings, ModbusFine, ModbusFineTypes
<1>2. DOMAIN wire = Callers
  BY DEF ModbusIInv, ModbusCallings
<1> QED
  BY <1>1, <1>2, ModbusCounting DEF ModbusIInv, ModbusCallings, ModbusQueue, ModbusTable,
     ModbusDoings, ModbusEffects, M!TypeOK

LEMMA ModbusAnswersMeant == ASSUME M!Constants, ModbusIInv PROVE M!ToldTheTruth /\ M!ScanAccounts
<1>1. ASSUME NEW c \in Callers
      PROVE  /\ ModbusFineTruth(doing[c], told[c], effect[c]) /\ ModbusFineSeen(doing[c])
             /\ ModbusFineTypes(doing[c], wire[c], told[c], effect[c])
             /\ ModbusFineScan(doing[c], told[c])
  BY ModbusItself DEF ModbusIInv
<1>2. M!ToldTheTruth
  BY <1>1 DEF M!ToldTheTruth, ModbusFineTruth
<1>3. ASSUME NEW c \in Callers, told[c] = "scan"
      PROVE  Len(doing[c].seen) = Cardinality(Addresses \ doing[c].left)
  <2> DEFINE k == Len(doing[c].seen)
             N == Cardinality(Addresses)
  <2>1. doing[c].left = k + 1 .. N /\ k <= N
    BY <1>1, <1>3 DEF ModbusFineScan, ModbusFineTypes
  <2>2. N \in Nat /\ Addresses = 1 .. N
    BY ModbusNumbers
  <2>3. k \in Nat
    BY <1>1, LenProperties DEF ModbusFineTypes, ModbusDoings
  <2> HIDE DEF k, N
  <2>4. Addresses \ doing[c].left = 1 .. k
    BY <2>1, <2>2, <2>3
  <2>5. Cardinality(1 .. k) = k
    BY <2>3, FS_Interval
  <2> QED
    BY <2>4, <2>5 DEF k
<1>4. ASSUME NEW c \in Callers, NEW i \in DOMAIN doing[c].seen
      PROVE  /\ doing[c].seen[i][1] = i
             /\ doing[c].seen[i][2] \in {"answered", "exception"} => i = M!Station
  <2>1. i \in 1 .. Len(doing[c].seen)
    BY <1>1, LenProperties DEF ModbusFineTypes, ModbusDoings
  <2> QED
    BY <2>1, <1>1 DEF ModbusFineSeen
<1>5. M!ScanAccounts
  BY <1>3, <1>4, ModbusCounting DEF M!ScanAccounts
<1> QED
  BY <1>2, <1>5

-----------------------------------------------------------------------------
(* CanBus: for any queue, any max_frames and any filter: what absorb takes *)
(* is a run of the wanted frames, so each frame is kept once.              *)

(* The inductive invariant: the frames heard are numbered from one, file   *)
(* and queue are in their order, and no frame is in two places.            *)

CanRising(s) == \A i, j \in DOMAIN s : i < j => s[i].n < s[j].n

CanTyped ==
    /\ heard \in Seq(C!Frames) /\ queue \in Seq(C!Frames) /\ file \in Seq(C!Frames)
    /\ Len(heard) <= BusFrames /\ Len(queue) <= Capacity /\ Len(file) <= MaxFrames
    /\ capture \in {"off", "running", "over"}
    /\ outcome.how \in {"none", "done", "failed", "cancelled"}
    /\ artifact \in {"none", "registered", "removed"}
    /\ summary \in [C!Classes -> 0 .. MaxFrames]

CanTypedSender ==
    /\ interface \in {"up", "listen-only", "down"}
    /\ unlocked \in BOOLEAN
    /\ sender \in [stage : {"idle", "checked", "sending"}, left : 0 .. Count]
    /\ stray \in BOOLEAN

CanNumbered == \A i \in DOMAIN heard : heard[i].n = i

CanOrdered ==
    /\ CanRising(file) /\ CanRising(queue)
    /\ \A i \in DOMAIN file, j \in DOMAIN queue : file[i].n < queue[j].n

CanPlaced ==
    /\ C!ToSet(heard) = C!ToSet(file) \cup C!ToSet(queue) \cup dropped \cup cut
    /\ dropped \cap cut = {} /\ (dropped \cup cut) \cap (C!ToSet(file) \cup C!ToSet(queue)) = {}

CanCutLast ==
    \A f \in cut : C!Wanted(f) => Len(file) = MaxFrames /\ \A g \in C!ToSet(file) : g.n < f.n

CanClosed ==
    /\ artifact = "registered" => capture = "over"
    /\ capture = "over" => /\ (file # <<>>) <=> (artifact = "registered")
                           /\ outcome.dropped = Cardinality(dropped)
    /\ summary # C!NoSummary =>
          artifact = "registered" /\ Len(file) = summary["decoded"] + summary["skipped"]

CanIInv == CanTyped /\ CanTypedSender /\ CanNumbered /\ CanOrdered /\ CanPlaced /\ CanCutLast /\
    CanClosed

-----------------------------------------------------------------------------
LEMMA CanSameCount ==
    \A T : C!Cardinality(T) = Cardinality(T) /\ (C!IsFiniteSet(T) <=> IsFiniteSet(T))
  BY DEF C!Cardinality, Cardinality, C!IsFiniteSet, IsFiniteSet

LEMMA CanLeast ==
    ASSUME NEW T \in SUBSET Nat, T # {}
    PROVE  \E k \in T : \A j \in T : k <= j
<1> DEFINE less == OpToRel(<, Nat)
<1>1. IsWellFoundedOn(less, Nat)
  BY NatLessThanWellFounded
<1>2. T \subseteq Nat
  OBVIOUS
<1>3. \A j, k \in T : j < k => <<j, k>> \in less
  BY <1>2 DEF OpToRel
<1> HIDE DEF less
<1>4. \E k \in T : \A j \in T : ~(<<j, k>> \in less)
  BY <1>1, <1>2, WFMin, Zenon
<1>5. \A j, k \in T : ~(j < k) => k <= j
  BY <1>2
<1> QED
  BY <1>3, <1>4, <1>5

-----------------------------------------------------------------------------
(* What absorb counts.                                                     *)
LEMMA CanCounting ==
    ASSUME NEW s \in Seq(C!Frames), NEW i \in 0 .. Len(s)
    PROVE  /\ IsFiniteSet({m \in 1 .. i : C!Wanted(s[m])})
           /\ C!WantedUpTo(s, i) \in 0 .. i
<1> DEFINE T == {m \in 1 .. i : C!Wanted(s[m])}
<1>1. IsFiniteSet(1 .. i) /\ Cardinality(1 .. i) = i
  BY FS_Interval
<1>2. IsFiniteSet(T) /\ Cardinality(T) <= i
  BY <1>1, FS_Subset
<1>3. Cardinality(T) \in Nat
  BY <1>2, FS_CardinalityType
<1> QED
  BY <1>2, <1>3, CanSameCount DEF C!WantedUpTo

LEMMA CanCountingOne ==
    ASSUME NEW s \in Seq(C!Frames), NEW i \in 1 .. Len(s)
    PROVE  IF C!Wanted(s[i]) THEN C!WantedUpTo(s, i) = C!WantedUpTo(s, i - 1) + 1
           ELSE C!WantedUpTo(s, i) = C!WantedUpTo(s, i - 1)
<1> DEFINE T(k) == {m \in 1 .. k : C!Wanted(s[m])}
<1>1. i - 1 \in 0 .. Len(s) /\ i \in 0 .. Len(s)
  OBVIOUS
<1>2. IsFiniteSet(T(i - 1))
  BY <1>1, CanCounting
<1>3. i \notin T(i - 1)
  OBVIOUS
<1>4. CASE C!Wanted(s[i])
  <2>1. T(i) = T(i - 1) \cup {i}
    BY <1>4
  <2>2. Cardinality(T(i - 1) \cup {i}) = Cardinality(T(i - 1)) + 1
    BY <1>2, <1>3, FS_AddElement
  <2> QED
    BY <1>4, <2>1, <2>2, CanSameCount DEF C!WantedUpTo
<1>5. CASE ~C!Wanted(s[i])
  <2>1. T(i) = T(i - 1)
    BY <1>5
  <2> QED
    BY <1>5, <2>1, CanSameCount DEF C!WantedUpTo
<1> QED
  BY <1>4, <1>5

(* Of two wanted frames the later counts more.                             *)
LEMMA CanCountingLater ==
    ASSUME NEW s \in Seq(C!Frames), NEW i \in 0 .. Len(s), NEW k \in 1 .. Len(s), i < k
    PROVE  /\ C!WantedUpTo(s, i) <= C!WantedUpTo(s, k)
           /\ C!Wanted(s[k]) => C!WantedUpTo(s, i) < C!WantedUpTo(s, k)
<1> DEFINE T(m) == {h \in 1 .. m : C!Wanted(s[h])}
<1>0. k \in 0 .. Len(s) /\ k - 1 \in 0 .. Len(s)
  OBVIOUS
<1>1. T(i) \subseteq T(k - 1)
  OBVIOUS
<1>2. IsFiniteSet(T(k - 1))
  BY <1>0, CanCounting
<1>3. Cardinality(T(i)) <= Cardinality(T(k - 1))
  BY <1>1, <1>2, FS_Subset
<1>4. C!WantedUpTo(s, i) <= C!WantedUpTo(s, k - 1)
  BY <1>3, CanSameCount DEF C!WantedUpTo
<1>5. C!WantedUpTo(s, i) \in Nat /\ C!WantedUpTo(s, k) \in Nat /\ C!WantedUpTo(s, k - 1) \in Nat
  <2>1. \A m \in 0 .. Len(s) : C!WantedUpTo(s, m) \in 0 .. m
    BY CanCounting
  <2> QED
    BY <1>0, <2>1
<1> QED
  BY <1>4, <1>5, CanCountingOne

(* There is a wanted frame for each count there is.                        *)
LEMMA CanCountReached ==
    ASSUME NEW s \in Seq(C!Frames), NEW k \in 1 .. C!WantedUpTo(s, Len(s))
    PROVE  \E i \in DOMAIN s : C!Wanted(s[i]) /\ C!WantedUpTo(s, i) = k
<1> DEFINE T == {i \in 1 .. Len(s) : k <= C!WantedUpTo(s, i)}
<1>0. Len(s) \in Nat /\ DOMAIN s = 1 .. Len(s)
  OBVIOUS
<1>1. \A i \in 0 .. Len(s) : C!WantedUpTo(s, i) \in 0 .. i
  BY CanCounting
<1>2. Len(s) \in T
  BY <1>0, <1>1
<1>3. PICK i \in T : \A m \in T : i <= m
  <2>1. T \in SUBSET Nat /\ T # {}
    BY <1>2
  <2> QED
    BY <2>1, CanLeast
<1>4. i \in 1 .. Len(s) /\ k <= C!WantedUpTo(s, i) /\ i - 1 \in 0 .. Len(s) /\ i \in 0 .. Len(s)
  BY <1>3
<1>5. C!WantedUpTo(s, i - 1) < k
  <2>1. CASE i = 1
    BY <2>1, <1>1, <1>4
  <2>2. CASE i # 1
    <3>1. i - 1 \notin T
      BY <1>3, <1>4
    <3> QED
      BY <3>1, <2>2, <1>1, <1>4
  <2> QED
    BY <2>1, <2>2
<1> QED
  BY <1>0, <1>1, <1>4, <1>5, CanCountingOne

(* absorb: a run of wanted frames, none left out before the last.          *)
LEMMA CanAbsorbing ==
    ASSUME NEW s \in Seq(C!Frames), NEW room \in Nat, NEW a, a = C!Absorbed(s, room)
    PROVE  /\ a \in Seq(C!Frames) /\ Len(a) <= room
           /\ C!ToSet(a) \subseteq C!ToSet(s)
           /\ CanRising(s) => CanRising(a)
           /\ CanRising(s) => \A f \in C!ToSet(s) \ C!ToSet(a) :
                 C!Wanted(f) => Len(a) = room /\ \A g \in C!ToSet(a) : g.n < f.n
<1> DEFINE wanted == C!WantedUpTo(s, Len(s))
           last == IF wanted <= room THEN wanted ELSE room
           place(k) == CHOOSE i \in DOMAIN s : C!Wanted(s[i]) /\ C!WantedUpTo(s, i) = k
<1>1. Len(s) \in Nat /\ DOMAIN s = 1 .. Len(s) /\ \A i \in 1 .. Len(s) : s[i] \in C!Frames
  OBVIOUS
<1>2. \A i \in 0 .. Len(s) : C!WantedUpTo(s, i) \in 0 .. i
  BY CanCounting
<1>3. wanted \in Nat /\ last \in Nat /\ last <= room /\ last <= wanted
  BY <1>1, <1>2
<1>4. a = [k \in 1 .. last |-> s[place(k)]]
  BY DEF C!Absorbed
<1>5. \A k \in 1 .. last :
         place(k) \in 1 .. Len(s) /\ C!Wanted(s[place(k)]) /\ C!WantedUpTo(s, place(k)) = k
  BY <1>1, <1>3, CanCountReached
<1> HIDE DEF place, last
<1>6. a \in Seq(C!Frames) /\ Len(a) = last /\ DOMAIN a = 1 .. last
      /\ \A k \in 1 .. last : a[k] = s[place(k)]
  BY <1>1, <1>3, <1>4, <1>5
<1>7. C!ToSet(a) \subseteq C!ToSet(s)
  BY <1>1, <1>5, <1>6 DEF C!ToSet
<1>8. \A i \in 1 .. Len(s), k \in 1 .. Len(s) :
         i < k /\ C!Wanted(s[k]) => C!WantedUpTo(s, i) < C!WantedUpTo(s, k)
  BY CanCountingLater, <1>1
<1>9. \A i \in 1 .. Len(s) : C!WantedUpTo(s, i) \in Nat
  BY <1>1, <1>2
<1>10. \A k, m \in 1 .. last : k < m => place(k) < place(m)
  BY <1>1, <1>3, <1>5, <1>8, <1>9
<1>11. CanRising(s) => CanRising(a)
  BY <1>1, <1>5, <1>6, <1>10 DEF CanRising
<1>12. ASSUME CanRising(s), NEW f \in C!ToSet(s) \ C!ToSet(a), C!Wanted(f)
       PROVE  Len(a) = room /\ \A g \in C!ToSet(a) : g.n < f.n
  <2>1. PICK i \in 1 .. Len(s) : s[i] = f
    BY <1>1 DEF C!ToSet
  <2> DEFINE c == C!WantedUpTo(s, i)
  <2>2. c \in Nat \ {0}
    <3>1. i - 1 \in 0 .. Len(s) /\ i \in 1 .. Len(s)
      BY <1>1
    <3> QED
      BY <3>1, <2>1, <1>2, <1>12, CanCountingOne
  <2>3. last < c
    <3> SUFFICES ASSUME c \in 1 .. last PROVE FALSE
      BY <2>2, <1>3
    <3>1. place(c) \in 1 .. Len(s) /\ C!Wanted(s[place(c)]) /\ C!WantedUpTo(s, place(c)) = c
      BY <1>5
    <3>2. place(c) = i
      BY <3>1, <2>1, <1>8, <1>9, <1>12, <1>1
    <3> QED
      BY <3>2, <2>1, <1>6, <1>12 DEF C!ToSet
  <2>4. c <= wanted
    <3>1. CASE i = Len(s)
      BY <3>1, <1>9, <1>1
    <3>2. CASE i < Len(s)
      BY <3>2, <1>1, CanCountingLater
    <3>3. i = Len(s) \/ i < Len(s)
      <4>1. Len(s) \in Nat /\ i \in 1 .. Len(s)
        BY <1>1
      <4> QED
        BY <4>1
    <3> QED
      BY <3>1, <3>2, <3>3, Zenon
  <2>5. Len(a) = room
    BY <2>2, <2>3, <2>4, <1>3, <1>6 DEF last
  <2>6. ASSUME NEW g \in C!ToSet(a) PROVE g.n < f.n
    <3>1. PICK k \in 1 .. last : g = s[place(k)]
      BY <1>6 DEF C!ToSet
    <3>2. place(k) < i
      BY <2>1, <2>2, <2>3, <1>1, <1>3, <1>5, <1>8, <1>9, <1>12
    <3> QED
      BY <3>1, <3>2, <2>1, <1>1, <1>5, <1>12 DEF CanRising
  <2> QED
    BY <2>5, <2>6
<1> QED
  BY <1>3, <1>6, <1>7, <1>11, <1>12

-----------------------------------------------------------------------------
(* Sequences whose numbers rise.                                           *)

\* A sequence in order has no frame twice.
LEMMA CanRisingCounted ==
    ASSUME NEW s \in Seq(C!Frames), CanRising(s)
    PROVE  IsFiniteSet(C!ToSet(s)) /\ Cardinality(C!ToSet(s)) = Len(s)
<1>1. Len(s) \in Nat /\ DOMAIN s = 1 .. Len(s) /\ \A i \in 1 .. Len(s) : s[i] \in C!Frames
  OBVIOUS
<1>2. \A f \in C!Frames : f.n \in Nat
  BY DEF C!Frames
<1>3. \A i, k \in 1 .. Len(s) : s[i] = s[k] => i = k
  BY <1>1, <1>2 DEF CanRising
<1>4. s \in Bijection(1 .. Len(s), C!ToSet(s))
  <2>1. s \in [1 .. Len(s) -> C!ToSet(s)] /\ \A t \in C!ToSet(s) : \E i \in 1 .. Len(s) : s[i] = t
    BY <1>1 DEF C!ToSet
  <2> QED
    BY <1>3, <2>1, Fun_IsBij
<1>5. IsFiniteSet(1 .. Len(s)) /\ Cardinality(1 .. Len(s)) = Len(s)
  <2>1. Len(s) \in Nat
    OBVIOUS
  <2> QED
    BY <2>1, FS_Interval
<1>6. ExistsBijection(1 .. Len(s), C!ToSet(s))
  BY <1>4 DEF ExistsBijection
<1> QED
  BY <1>5, <1>6, FS_Bijection

LEMMA CanRisingJoined ==
    ASSUME NEW s \in Seq(C!Frames), NEW t \in Seq(C!Frames), CanRising(s), CanRising(t),
           \A i \in DOMAIN s, k \in DOMAIN t : s[i].n < t[k].n
    PROVE  /\ s \o t \in Seq(C!Frames) /\ Len(s \o t) = Len(s) + Len(t)
           /\ C!ToSet(s \o t) = C!ToSet(s) \cup C!ToSet(t) /\ CanRising(s \o t)
<1>1. /\ Len(s) \in Nat /\ DOMAIN s = 1 .. Len(s) /\ Len(t) \in Nat /\ DOMAIN t = 1 .. Len(t)
      /\ s \o t \in Seq(C!Frames) /\ Len(s \o t) = Len(s) + Len(t)
      /\ DOMAIN (s \o t) = 1 .. Len(s) + Len(t)
  OBVIOUS
<1>2. /\ \A i \in 1 .. Len(s) : (s \o t)[i] = s[i]
      /\ \A i \in Len(s) + 1 .. Len(s) + Len(t) :
            (s \o t)[i] = t[i - Len(s)] /\ i - Len(s) \in 1 .. Len(t)
      /\ \A k \in 1 .. Len(t) : k + Len(s) \in 1 .. Len(s) + Len(t)
                                 /\ (s \o t)[k + Len(s)] = t[k]
  BY <1>1
<1>3. C!ToSet(s \o t) = C!ToSet(s) \cup C!ToSet(t)
  <2>1. ASSUME NEW f \in C!ToSet(s \o t) PROVE f \in C!ToSet(s) \cup C!ToSet(t)
    <3>1. PICK i \in 1 .. Len(s) + Len(t) : f = (s \o t)[i]
      BY <1>1 DEF C!ToSet
    <3>2. i \in 1 .. Len(s) \/ i \in Len(s) + 1 .. Len(s) + Len(t)
      BY <1>1
    <3> QED
      BY <3>1, <3>2, <1>1, <1>2 DEF C!ToSet
  <2>2. ASSUME NEW f \in C!ToSet(s) PROVE f \in C!ToSet(s \o t)
    <3>1. PICK i \in 1 .. Len(s) : f = s[i]
      BY <1>1 DEF C!ToSet
    <3>2. i \in 1 .. Len(s) + Len(t)
      BY <1>1
    <3> QED
      BY <3>1, <3>2, <1>1, <1>2 DEF C!ToSet
  <2>3. ASSUME NEW f \in C!ToSet(t) PROVE f \in C!ToSet(s \o t)
    <3>1. PICK i \in 1 .. Len(t) : f = t[i]
      BY <1>1 DEF C!ToSet
    <3> QED
      BY <3>1, <1>1, <1>2 DEF C!ToSet
  <2> QED
    BY <2>1, <2>2, <2>3
<1>4. CanRising(s \o t)
  <2> SUFFICES ASSUME NEW i \in 1 .. Len(s) + Len(t), NEW k \in 1 .. Len(s) + Len(t), i < k
               PROVE  (s \o t)[i].n < (s \o t)[k].n
    BY <1>1 DEF CanRising
  <2>1. CASE k \in 1 .. Len(s)
    <3>1. i \in 1 .. Len(s)
      BY <2>1, <1>1
    <3> QED
      BY <3>1, <2>1, <1>1, <1>2 DEF CanRising
  <2>2. CASE i \in 1 .. Len(s) /\ k \in Len(s) + 1 .. Len(s) + Len(t)
    BY <2>2, <1>1, <1>2
  <2>3. CASE i \in Len(s) + 1 .. Len(s) + Len(t) /\ k \in Len(s) + 1 .. Len(s) + Len(t)
    <3>1. i - Len(s) \in 1 .. Len(t) /\ k - Len(s) \in 1 .. Len(t) /\ i - Len(s) < k - Len(s)
      BY <2>3, <1>1
    <3>2. t[i - Len(s)].n < t[k - Len(s)].n
      BY <3>1, <1>1 DEF CanRising
    <3> QED
      BY <3>2, <2>3, <1>2
  <2> QED
    BY <2>1, <2>2, <2>3, <1>1
<1> QED
  BY <1>1, <1>3, <1>4

LEMMA CanRisingAppended ==
    ASSUME NEW s \in Seq(C!Frames), NEW f \in C!Frames, CanRising(s), \A g \in C!ToSet(s) :
           g.n < f.n
    PROVE  /\ Append(s, f) \in Seq(C!Frames) /\ Len(Append(s, f)) = Len(s) + 1
           /\ C!ToSet(Append(s, f)) = C!ToSet(s) \cup {f} /\ CanRising(Append(s, f))
<1>1. /\ Len(s) \in Nat /\ DOMAIN s = 1 .. Len(s) /\ Append(s, f) \in Seq(C!Frames)
      /\ Len(Append(s, f)) = Len(s) + 1 /\ DOMAIN Append(s, f) = 1 .. Len(s) + 1
      /\ Append(s, f)[Len(s) + 1] = f /\ \A i \in 1 .. Len(s) : Append(s, f)[i] = s[i]
  OBVIOUS
<1>2. \A i \in 1 .. Len(s) + 1 : i \in 1 .. Len(s) \/ i = Len(s) + 1
  BY <1>1
<1>3. C!ToSet(Append(s, f)) = C!ToSet(s) \cup {f}
  <2>1. C!ToSet(Append(s, f)) \subseteq C!ToSet(s) \cup {f}
    BY <1>1, <1>2 DEF C!ToSet
  <2>2. \A i \in 1 .. Len(s) : i \in 1 .. Len(s) + 1
    BY <1>1
  <2>3. Len(s) + 1 \in 1 .. Len(s) + 1
    BY <1>1
  <2> QED
    BY <2>1, <2>2, <2>3, <1>1 DEF C!ToSet
<1>4. CanRising(Append(s, f))
  <2> SUFFICES ASSUME NEW i \in 1 .. Len(s) + 1, NEW k \in 1 .. Len(s) + 1, i < k
               PROVE  Append(s, f)[i].n < Append(s, f)[k].n
    BY <1>1 DEF CanRising
  <2>1. i \in 1 .. Len(s)
    BY <1>1
  <2>2. CASE k \in 1 .. Len(s)
    BY <2>1, <2>2, <1>1 DEF CanRising
  <2>3. CASE k = Len(s) + 1
    BY <2>1, <2>3, <1>1 DEF C!ToSet
  <2> QED
    BY <2>2, <2>3, <1>2
<1> QED
  BY <1>1, <1>3, <1>4

-----------------------------------------------------------------------------
LEMMA CanInitIInv == ASSUME C!Constants, C!Init PROVE CanIInv
<1>1. <<>> \in Seq(C!Frames) /\ Len(<<>>) = 0 /\ DOMAIN <<>> = {} /\ C!ToSet(<<>>) = {}
  BY DEF C!ToSet
<1>2. 0 \in 0 .. MaxFrames /\ 0 \in 0 .. Count
  BY DEF C!Constants
<1>3. CanTyped
  BY <1>1, <1>2 DEF C!Init, CanTyped, C!Constants, C!NoSummary
<1>4. CanTypedSender
  BY <1>2 DEF C!Init, CanTypedSender
<1> QED
  BY <1>1, <1>3, <1>4 DEF C!Init, CanIInv, CanNumbered, CanOrdered, CanRising, CanPlaced,
     CanCutLast, CanClosed

\* The next frame is after all that were heard.
LEMMA CanNextFrame ==
    ASSUME C!Constants, CanIInv, NEW kind \in C!Kinds, Len(heard) < BusFrames,
           NEW frame, frame = [n |-> Len(heard) + 1, kind |-> kind]
    PROVE  /\ frame \in C!Frames /\ frame.n = Len(heard) + 1
           /\ \A f \in C!ToSet(heard) : f.n < frame.n /\ f.n \in Nat
           /\ Append(heard, frame) \in Seq(C!Frames) /\ Len(Append(heard, frame)) = Len(heard) + 1
           /\ C!ToSet(Append(heard, frame)) = C!ToSet(heard) \cup {frame}
           /\ \A i \in DOMAIN Append(heard, frame) : Append(heard, frame)[i].n = i
<1>1. Len(heard) \in Nat /\ BusFrames \in Nat /\ heard \in Seq(C!Frames) /\
      DOMAIN heard = 1 .. Len(heard)
  BY DEF CanIInv, CanTyped, C!Constants
<1>2. frame \in C!Frames /\ frame.n = Len(heard) + 1
  BY <1>1 DEF C!Frames
<1>3. \A f \in C!ToSet(heard) : f.n < frame.n /\ f.n \in Nat
  BY <1>1, <1>2 DEF CanIInv, CanNumbered, C!ToSet
<1>4. CanRising(heard)
  BY <1>1 DEF CanIInv, CanNumbered, CanRising
<1>5. /\ Append(heard, frame) \in Seq(C!Frames) /\ Len(Append(heard, frame)) = Len(heard) + 1
      /\ C!ToSet(Append(heard, frame)) = C!ToSet(heard) \cup {frame}
  BY <1>1, <1>2, <1>3, <1>4, CanRisingAppended
<1>6. ASSUME NEW i \in DOMAIN Append(heard, frame) PROVE Append(heard, frame)[i].n = i
  <2>1. i \in 1 .. Len(heard) \/ i = Len(heard) + 1
    BY <1>1
  <2>2. CASE i \in 1 .. Len(heard)
    <3>1. Append(heard, frame)[i] = heard[i]
      BY <1>1, <2>2
    <3> QED
      BY <1>1, <2>2, <3>1 DEF CanIInv, CanNumbered
  <2>3. CASE i = Len(heard) + 1
    <3>1. Append(heard, frame)[i] = frame
      BY <1>1, <2>3
    <3> QED
      BY <1>2, <2>3, <3>1
  <2> QED
    BY <2>1, <2>2, <2>3
<1> QED
  BY <1>2, <1>3, <1>5, <1>6

LEMMA CanStepRecv == ASSUME C!Constants, CanIInv, NEW kind \in C!Kinds, C!Recv(kind) PROVE CanIInv'
<1> DEFINE frame == [n |-> Len(heard) + 1, kind |-> kind]
<1>0. /\ capture = "running" /\ Len(heard) < BusFrames /\ heard' = Append(heard, frame)
      /\ UNCHANGED <<cut, file, capture, outcome, artifact, summary, interface>>
      /\ UNCHANGED <<unlocked, sender, stray>>
      /\ \/ /\ Len(queue) < Capacity /\ queue' = Append(queue, frame) /\ dropped' = dropped
         \/ queue' = queue /\ dropped' = dropped \cup {frame}
  BY DEF C!Recv, C!txvars
<1> HIDE DEF frame
<1>1. /\ frame \in C!Frames /\ frame.n = Len(heard) + 1
      /\ \A f \in C!ToSet(heard) : f.n < frame.n /\ f.n \in Nat
      /\ heard' \in Seq(C!Frames) /\ Len(heard') = Len(heard) + 1
      /\ C!ToSet(heard') = C!ToSet(heard) \cup {frame}
      /\ CanNumbered'
  BY <1>0, CanNextFrame DEF frame, CanNumbered
<1>2. frame \notin C!ToSet(heard)
  BY <1>1
<1>3. C!ToSet(file) \subseteq C!ToSet(heard) /\ C!ToSet(queue) \subseteq C!ToSet(heard)
      /\ dropped \subseteq C!ToSet(heard) /\ cut \subseteq C!ToSet(heard)
  BY DEF CanIInv, CanPlaced
<1>4. /\ queue' \in Seq(C!Frames) /\ Len(queue') <= Capacity /\ CanRising(queue')
      /\ C!ToSet(queue') \cup dropped' = C!ToSet(queue) \cup dropped \cup {frame}
      /\ C!ToSet(queue') \in {C!ToSet(queue), C!ToSet(queue) \cup {frame}}
      /\ dropped' \in {dropped, dropped \cup {frame}}
      /\ C!ToSet(queue') = C!ToSet(queue) \/ dropped' = dropped
  <2>1. queue \in Seq(C!Frames) /\ Len(queue) <= Capacity /\ CanRising(queue) /\ Len(queue) \in Nat
        /\ Capacity \in Nat
    BY DEF CanIInv, CanTyped, CanOrdered, C!Constants
  <2>2. CASE Len(queue) < Capacity /\ queue' = Append(queue, frame) /\ dropped' = dropped
    <3>1. /\ queue' \in Seq(C!Frames) /\ Len(queue') = Len(queue) + 1
          /\ C!ToSet(queue') = C!ToSet(queue) \cup {frame} /\ CanRising(queue')
      BY <1>1, <1>3, <2>1, <2>2, CanRisingAppended
    <3> QED
      BY <3>1, <2>1, <2>2
  <2>3. CASE queue' = queue /\ dropped' = dropped \cup {frame}
    BY <2>1, <2>3
  <2> QED
    BY <1>0, <2>2, <2>3
<1>5. CanTyped' /\ CanTypedSender'
  <2>1. Len(heard') <= BusFrames
    BY <1>0, <1>1 DEF CanIInv, CanTyped, C!Constants
  <2> QED
    BY <2>1, <1>0, <1>1, <1>4 DEF CanIInv, CanTyped, CanTypedSender
<1>6. CanOrdered'
  <2>1. \A f \in C!ToSet(file), g \in C!ToSet(queue) : f.n < g.n
    BY DEF CanIInv, CanOrdered, C!ToSet
  <2>2. \A f \in C!ToSet(file), g \in C!ToSet(queue') : f.n < g.n
    BY <2>1, <1>1, <1>3, <1>4
  <2>3. \A i \in DOMAIN file, k \in DOMAIN queue' : file[i].n < queue'[k].n
    BY <2>2 DEF C!ToSet
  <2> QED
    BY <2>3, <1>0, <1>4 DEF CanIInv, CanOrdered, CanRising
<1>7. CanPlaced'
  <2>1. /\ C!ToSet(heard) = C!ToSet(file) \cup C!ToSet(queue) \cup dropped \cup cut
        /\ dropped \cap cut = {} /\ (dropped \cup cut) \cap (C!ToSet(file) \cup C!ToSet(queue)) = {}
    BY DEF CanIInv, CanPlaced
  <2>2. file' = file /\ cut' = cut /\ C!ToSet(heard') = C!ToSet(heard) \cup {frame}
    BY <1>0, <1>1
  <2> QED
    BY <2>1, <2>2, <1>2, <1>4 DEF CanPlaced
<1>8. CanCutLast' /\ CanClosed'
  BY <1>0 DEF CanIInv, CanCutLast, CanClosed
<1> QED
  BY <1>1, <1>5, <1>6, <1>7, <1>8 DEF CanIInv

(* A drained queue: what absorb does not take is cut.                      *)
LEMMA CanStepDrained ==
    ASSUME C!Constants, CanIInv, C!Drain, UNCHANGED <<heard, dropped>>
    PROVE  /\ file' \in Seq(C!Frames) /\ Len(file') <= MaxFrames /\ queue' = <<>>
           /\ CanOrdered' /\ CanPlaced' /\ CanCutLast'
           /\ Len(file') \in Nat /\ (file # <<>> => file' # <<>>)
<1> DEFINE room == MaxFrames - Len(file)
           absorbed == C!Absorbed(queue, room)
<1>0. /\ file' = file \o absorbed /\ cut' = cut \cup (C!ToSet(queue) \ C!ToSet(absorbed))
      /\ queue' = <<>>
  BY DEF C!Drain
<1>1. /\ file \in Seq(C!Frames) /\ queue \in Seq(C!Frames) /\ CanRising(file) /\ CanRising(queue)
      /\ Len(file) \in Nat /\ room \in Nat
  BY DEF CanIInv, CanTyped, CanOrdered, C!Constants
<1> HIDE DEF absorbed
<1>2. /\ absorbed \in Seq(C!Frames) /\ Len(absorbed) <= room
      /\ C!ToSet(absorbed) \subseteq C!ToSet(queue) /\ CanRising(absorbed)
      /\ \A f \in C!ToSet(queue) \ C!ToSet(absorbed) :
             C!Wanted(f) => Len(absorbed) = room /\ \A g \in C!ToSet(absorbed) : g.n < f.n
  <2> HIDE DEF room
  <2>1. absorbed = C!Absorbed(queue, room)
    BY DEF absorbed
  <2>2. queue \in Seq(C!Frames) /\ room \in Nat /\ CanRising(queue)
    BY <1>1
  <2> QED
    BY <2>1, <2>2, CanAbsorbing
<1>3. \A f \in C!ToSet(file), g \in C!ToSet(queue) : f.n < g.n
  BY DEF CanIInv, CanOrdered, C!ToSet
<1>4. /\ file' \in Seq(C!Frames) /\ Len(file') = Len(file) + Len(absorbed)
      /\ C!ToSet(file') = C!ToSet(file) \cup C!ToSet(absorbed) /\ CanRising(file')
  <2>1. \A i \in DOMAIN file, k \in DOMAIN absorbed : file[i].n < absorbed[k].n
    BY <1>2, <1>3 DEF C!ToSet
  <2> QED
    BY <2>1, <1>0, <1>1, <1>2, CanRisingJoined
<1>5. Len(absorbed) \in Nat /\ Len(file') <= MaxFrames /\ MaxFrames \in Nat
  <2>1. Len(absorbed) \in Nat
    BY <1>2
  <2> QED
    BY <2>1, <1>1, <1>2, <1>4 DEF C!Constants
<1>6. CanOrdered'
  <2>1. DOMAIN <<>> = {}
    OBVIOUS
  <2> QED
    BY <2>1, <1>0, <1>4 DEF CanOrdered, CanRising
<1>7. CanPlaced'
  <2>1. /\ C!ToSet(heard) = C!ToSet(file) \cup C!ToSet(queue) \cup dropped \cup cut
        /\ dropped \cap cut = {} /\ (dropped \cup cut) \cap (C!ToSet(file) \cup C!ToSet(queue)) = {}
    BY DEF CanIInv, CanPlaced
  <2>2. C!ToSet(queue') = {}
    BY <1>0 DEF C!ToSet
  <2>3. \A f \in C!Frames : f.n \in Nat
    BY DEF C!Frames
  <2>4. C!ToSet(file) \subseteq C!Frames /\ C!ToSet(queue) \subseteq C!Frames
    BY <1>1 DEF C!ToSet
  <2>5. C!ToSet(file) \cap C!ToSet(queue) = {}
    BY <2>3, <2>4, <1>3
  <2>6. cut' = cut \cup (C!ToSet(queue) \ C!ToSet(absorbed)) /\ heard' = heard /\ dropped' = dropped
    BY <1>0
  <2> QED
    BY <2>1, <2>2, <2>5, <2>6, <1>2, <1>4 DEF CanPlaced
<1>8. CanCutLast'
  <2> SUFFICES ASSUME NEW f \in cut', C!Wanted(f)
               PROVE  Len(file') = MaxFrames /\ \A g \in C!ToSet(file') : g.n < f.n
    BY DEF CanCutLast
  <2>1. CASE f \in cut
    <3>1. Len(file) = MaxFrames /\ \A g \in C!ToSet(file) : g.n < f.n
      BY <2>1 DEF CanIInv, CanCutLast
    <3>2. Len(absorbed) = 0
      BY <3>1, <1>1, <1>2, <1>5
    <3>3. C!ToSet(absorbed) = {}
      BY <3>2, <1>2 DEF C!ToSet
    <3> QED
      BY <3>1, <3>2, <3>3, <1>1, <1>4
  <2>2. CASE f \in C!ToSet(queue) \ C!ToSet(absorbed)
    <3>1. Len(absorbed) = room /\ \A g \in C!ToSet(absorbed) : g.n < f.n
      BY <2>2, <1>2
    <3>2. Len(file') = MaxFrames
      BY <3>1, <1>1, <1>4, <1>5
    <3> QED
      BY <3>1, <3>2, <2>2, <1>3, <1>4
  <2> QED
    BY <2>1, <2>2, <1>0
<1>9. file # <<>> => file' # <<>>
  BY <1>0, <1>1, <1>2
<1> QED
  BY <1>0, <1>1, <1>4, <1>5, <1>6, <1>7, <1>8, <1>9

LEMMA CanStepDrainLoop == ASSUME C!Constants, CanIInv, C!DrainLoop PROVE CanIInv'
<1>0. /\ capture = "running" /\ C!Drain
      /\ UNCHANGED <<heard, dropped, capture, outcome, artifact, summary, interface>>
      /\ UNCHANGED <<unlocked, sender, stray>>
  BY DEF C!DrainLoop, C!txvars
<1>1. /\ file' \in Seq(C!Frames) /\ Len(file') <= MaxFrames /\ queue' = <<>>
      /\ CanOrdered' /\ CanPlaced' /\ CanCutLast'
  BY <1>0, CanStepDrained
<1>2. CanTyped' /\ CanTypedSender'
  <2>1. <<>> \in Seq(C!Frames) /\ Len(<<>>) = 0 /\ 0 <= Capacity
    BY DEF C!Constants
  <2> QED
    BY <2>1, <1>0, <1>1 DEF CanIInv, CanTyped, CanTypedSender
<1>3. CanClosed'
  BY <1>0 DEF CanIInv, CanClosed
<1> QED
  BY <1>0, <1>1, <1>2, <1>3 DEF CanIInv, CanNumbered

LEMMA CanStepEndCapture ==
    ASSUME C!Constants, CanIInv, NEW how \in {"done", "failed", "cancelled"}, C!EndCapture(how)
    PROVE  CanIInv'
<1>0. /\ capture = "running" /\ C!Drain /\ capture' = "over"
      /\ outcome' = [how |-> how, dropped |-> Cardinality(dropped)]
      /\ artifact' = IF file' = <<>> THEN "removed" ELSE "registered"
      /\ UNCHANGED <<heard, dropped, summary, interface>> /\ UNCHANGED <<unlocked, sender, stray>>
  BY CanSameCount DEF C!EndCapture, C!txvars
<1>1. /\ file' \in Seq(C!Frames) /\ Len(file') <= MaxFrames /\ queue' = <<>>
      /\ CanOrdered' /\ CanPlaced' /\ CanCutLast'
  BY <1>0, CanStepDrained
<1>2. CanTyped' /\ CanTypedSender'
  <2>1. <<>> \in Seq(C!Frames) /\ Len(<<>>) = 0 /\ 0 <= Capacity
    BY DEF C!Constants
  <2> QED
    BY <2>1, <1>0, <1>1 DEF CanIInv, CanTyped, CanTypedSender
<1>3. CanClosed'
  <2>1. summary = C!NoSummary
    BY <1>0 DEF CanIInv, CanClosed
  <2> QED
    BY <2>1, <1>0 DEF CanClosed
<1> QED
  BY <1>0, <1>1, <1>2, <1>3 DEF CanIInv, CanNumbered

\* can.decode counts each line once.
LEMMA CanStepDecode == ASSUME C!Constants, CanIInv, C!Decode PROVE CanIInv'
<1> DEFINE lines(c) == {i \in DOMAIN file : C!ClassOf(file[i]) = c}
<1>0. /\ artifact = "registered" /\ summary' = [c \in C!Classes |-> Cardinality(lines(c))]
      /\ UNCHANGED <<heard, queue, dropped, cut, file, capture, outcome, artifact, interface>>
      /\ UNCHANGED <<unlocked, sender, stray>>
  BY CanSameCount DEF C!Decode, C!txvars
<1>1. Len(file) \in Nat /\ DOMAIN file = 1 .. Len(file) /\ Len(file) <= MaxFrames /\
      MaxFrames \in Nat
  BY DEF CanIInv, CanTyped, C!Constants
<1>2. IsFiniteSet(DOMAIN file) /\ Cardinality(DOMAIN file) = Len(file)
  <2>1. Len(file) \in Nat
    BY <1>1
  <2>2. IsFiniteSet(1 .. Len(file)) /\ Cardinality(1 .. Len(file)) = Len(file)
    BY <2>1, FS_Interval
  <2> QED
    BY <2>2, <1>1
<1>3. \A c \in C!Classes : /\ IsFiniteSet(lines(c)) /\ Cardinality(lines(c)) <= Len(file)
                          /\ Cardinality(lines(c)) \in Nat
  BY <1>2, FS_Subset, FS_CardinalityType
<1>4. lines("decoded") \cup lines("skipped") = DOMAIN file
      /\ lines("decoded") \cap lines("skipped") = {}
  BY DEF C!ClassOf
<1>5. "decoded" \in C!Classes /\ "skipped" \in C!Classes
  BY DEF C!Classes
<1>6. Cardinality(lines("decoded")) + Cardinality(lines("skipped")) = Len(file)
  <2> HIDE DEF lines
  <2>1. IsFiniteSet(lines("decoded")) /\ IsFiniteSet(lines("skipped"))
    BY <1>3, <1>5
  <2>2. Cardinality(lines("decoded") \cup lines("skipped"))
            = Cardinality(lines("decoded")) + Cardinality(lines("skipped")) - Cardinality({})
    BY <2>1, <1>4, FS_Union
  <2>3. Cardinality({}) = 0
    BY FS_EmptySet
  <2> QED
    BY <2>2, <2>3, <1>2, <1>3, <1>4, <1>5
<1> HIDE DEF lines
<1>7. CanTyped' /\ CanTypedSender'
  <2>1. summary' \in [C!Classes -> 0 .. MaxFrames]
    BY <1>0, <1>1, <1>3
  <2> QED
    BY <2>1, <1>0 DEF CanIInv, CanTyped, CanTypedSender
<1>8. CanClosed'
  <2>1. summary'["decoded"] + summary'["skipped"] = Len(file)
    BY <1>0, <1>5, <1>6
  <2> QED
    BY <2>1, <1>0 DEF CanIInv, CanClosed
<1> QED
  BY <1>0, <1>7, <1>8 DEF CanIInv, CanNumbered, CanOrdered, CanRising, CanPlaced, CanCutLast

LEMMA CanStepStartCapture == ASSUME C!Constants, CanIInv, C!StartCapture PROVE CanIInv'
  BY DEF C!StartCapture, C!txvars, CanIInv, CanTyped, CanTypedSender, CanNumbered, CanOrdered,
     CanRising, CanPlaced, CanCutLast,
         CanClosed

LEMMA CanSameCapture ==
    ASSUME CanIInv, UNCHANGED C!rxvars, CanTypedSender' PROVE CanIInv'
  BY DEF C!rxvars, CanIInv, CanTyped, CanNumbered, CanOrdered, CanRising, CanPlaced,
     CanCutLast, CanClosed

LEMMA CanStepSending ==
    ASSUME C!Constants, CanIInv,
           C!CheckLink \/ C!Unlock \/ C!SendOne \/ C!EndSend \/ C!SafeState PROVE CanIInv'
<1>1. CanTypedSender /\ 0 \in 0 .. Count /\ Count \in 0 .. Count
  BY DEF CanIInv, C!Constants
<1>2. CASE C!CheckLink
  BY <1>1, <1>2, CanSameCapture DEF C!CheckLink, CanTypedSender
<1>3. CASE C!Unlock
  BY <1>1, <1>3, CanSameCapture DEF C!Unlock, CanTypedSender
<1>4. CASE C!SendOne
  <2>1. sender.left - 1 \in 0 .. Count
    BY <1>1, <1>4 DEF C!SendOne, CanTypedSender, C!Constants
  <2>2. sender' \in [stage : {"idle", "checked", "sending"}, left : 0 .. Count]
    BY <1>1, <1>4, <2>1 DEF C!SendOne, CanTypedSender
  <2> QED
    BY <1>1, <1>4, <2>2, CanSameCapture DEF C!SendOne, CanTypedSender
<1>5. CASE C!EndSend
  BY <1>1, <1>5, CanSameCapture DEF C!EndSend, CanTypedSender
<1>6. CASE C!SafeState
  BY <1>1, <1>6, CanSameCapture DEF C!SafeState, CanTypedSender
<1> QED
  BY <1>2, <1>3, <1>4, <1>5, <1>6

LEMMA CanStepIInv == ASSUME C!Constants, CanIInv, [C!Next]_(C!vars) PROVE CanIInv'
<1>1. CASE C!StartCapture \/ C!DrainLoop \/ C!Decode
  BY <1>1, CanStepStartCapture, CanStepDrainLoop, CanStepDecode
<1>2. CASE \E kind \in C!Kinds : C!Recv(kind)
  BY <1>2, CanStepRecv
<1>3. CASE \E how \in {"done", "failed", "cancelled"} : C!EndCapture(how)
  BY <1>3, CanStepEndCapture
<1>4. CASE C!CheckLink \/ C!Unlock \/ C!SendOne \/ C!EndSend \/ C!SafeState
  BY <1>4, CanStepSending
<1>5. CASE \E state \in {"up", "listen-only", "down"} : C!LinkChanges(state)
  BY <1>5, CanSameCapture DEF C!LinkChanges, C!txvars, CanIInv, CanTypedSender
<1>6. CASE UNCHANGED C!vars
  BY <1>6, CanSameCapture DEF C!vars, C!rxvars, CanIInv, CanTypedSender
<1> QED
  BY <1>1, <1>2, <1>3, <1>4, <1>5, <1>6 DEF C!Next

-----------------------------------------------------------------------------
LEMMA CanMeansTyped == ASSUME C!Constants, CanIInv PROVE C!TypeOK
<1>1. dropped \subseteq C!Frames /\ cut \subseteq C!Frames
  <2>1. C!ToSet(heard) \subseteq C!Frames
    BY DEF CanIInv, CanTyped, C!ToSet
  <2> QED
    BY <2>1 DEF CanIInv, CanPlaced
<1> QED
  BY <1>1 DEF CanIInv, CanTyped, CanTypedSender, C!TypeOK

LEMMA CanMeansFaithful == ASSUME C!Constants, CanIInv PROVE C!CaptureFaithful
<1>1. CanRising(heard) /\ CanRising(file) /\ CanRising(queue) /\ heard \in Seq(C!Frames)
      /\ file \in Seq(C!Frames) /\ queue \in Seq(C!Frames)
  BY DEF CanIInv, CanTyped, CanOrdered, CanNumbered, CanRising
<1>2. /\ IsFiniteSet(C!ToSet(heard)) /\ Cardinality(C!ToSet(heard)) = Len(heard)
      /\ IsFiniteSet(C!ToSet(file)) /\ Cardinality(C!ToSet(file)) = Len(file)
      /\ IsFiniteSet(C!ToSet(queue)) /\ Cardinality(C!ToSet(queue)) = Len(queue)
  BY <1>1, CanRisingCounted
<1>3. /\ C!ToSet(heard) = C!ToSet(file) \cup C!ToSet(queue) \cup dropped \cup cut
      /\ dropped \cap cut = {} /\ (dropped \cup cut) \cap (C!ToSet(file) \cup C!ToSet(queue)) = {}
  BY DEF CanIInv, CanPlaced
<1>4. IsFiniteSet(dropped) /\ IsFiniteSet(cut)
  <2>1. dropped \subseteq C!ToSet(heard) /\ cut \subseteq C!ToSet(heard)
    BY <1>3
  <2> QED
    BY <2>1, <1>2, FS_Subset
<1>5. C!ToSet(file) \cap C!ToSet(queue) = {}
  <2>1. \A f \in C!ToSet(file), g \in C!ToSet(queue) : f.n < g.n
    BY DEF CanIInv, CanOrdered, C!ToSet
  <2>2. \A f \in C!ToSet(file) : f.n \in Nat
    <3>1. \A i \in DOMAIN file : file[i] \in C!Frames
      BY <1>1
    <3> QED
      BY <3>1 DEF C!ToSet, C!Frames
  <2> QED
    BY <2>1, <2>2
<1> DEFINE kept == C!ToSet(file) \cup C!ToSet(queue)
           gone == dropped \cup cut
<1>6. IsFiniteSet(kept) /\ Cardinality(kept) = Len(file) + Len(queue)
  <2>1. IsFiniteSet(C!ToSet(file)) /\ IsFiniteSet(C!ToSet(queue))
    BY <1>2
  <2>2. /\ IsFiniteSet(C!ToSet(file) \cup C!ToSet(queue))
        /\ Cardinality(C!ToSet(file) \cup C!ToSet(queue))
              = Cardinality(C!ToSet(file)) + Cardinality(C!ToSet(queue))
                - Cardinality(C!ToSet(file) \cap C!ToSet(queue))
    BY <2>1, FS_Union
  <2>3. Cardinality(C!ToSet(file) \cap C!ToSet(queue)) = 0
    BY <1>5, FS_EmptySet
  <2>4. Len(file) \in Nat /\ Len(queue) \in Nat
    BY <1>1
  <2> QED
    BY <2>2, <2>3, <2>4, <1>2
<1>7. IsFiniteSet(gone) /\ Cardinality(gone) = Cardinality(dropped) + Cardinality(cut)
  <2>1. Cardinality(gone) = Cardinality(dropped) + Cardinality(cut) - Cardinality({})
        /\ IsFiniteSet(gone)
    BY <1>3, <1>4, FS_Union
  <2>2. Cardinality(dropped) \in Nat /\ Cardinality(cut) \in Nat
    BY <1>4, FS_CardinalityType
  <2> QED
    BY <2>1, <2>2, FS_EmptySet
<1>8. Len(heard) = Len(file) + Len(queue) + Cardinality(dropped) + Cardinality(cut)
  <2>1. C!ToSet(heard) = kept \cup gone /\ kept \cap gone = {}
    BY <1>3
  <2> HIDE DEF kept, gone
  <2>2. Cardinality(kept \cup gone) = Cardinality(kept) + Cardinality(gone) - Cardinality({})
    BY <2>1, <1>6, <1>7, FS_Union
  <2>3. Cardinality(dropped) \in Nat /\ Cardinality(cut) \in Nat
    BY <1>4, FS_CardinalityType
  <2>4. Len(file) \in Nat /\ Len(queue) \in Nat
    BY <1>1
  <2> QED
    BY <2>1, <2>2, <2>3, <2>4, <1>2, <1>6, <1>7, FS_EmptySet
<1> QED
  BY <1>3, <1>8, CanSameCount DEF CanIInv, CanOrdered, CanRising, CanCutLast, CanClosed,
     C!CaptureFaithful

-----------------------------------------------------------------------------
(* SerialPort: for any buffer, byte budget and number of configurations:   *)
(* one reader lives at a time when no caller comes while a serial.configure*)
(* is under way, and so no chunk overtakes another.                        *)
SerialTasks ==
    [live : BOOLEAN, stopped : BOOLEAN, reading : BOOLEAN, held : (1 .. Chunks) \cup {None},
     handle : P!Readers]
SerialRising(s) == \A i, j \in DOMAIN s : i < j => s[i] < s[j]
SerialKept == P!ToSet(raw) \cup P!ToSet(buffer)
SerialGone == spilt \cup missed \cup astray

-----------------------------------------------------------------------------
(* The inductive invariant.                                                *)

SerialTypedPort ==
    /\ port \in 0 .. MaxReaders /\ error \in BOOLEAN /\ arrived \in 0 .. Chunks
    /\ readers \in Seq(SerialTasks) /\ Len(readers) <= MaxReaders
    /\ current \in DOMAIN readers \cup {None} /\ stop \in DOMAIN readers \cup {None}
    /\ conf \in [Configurers -> DOMAIN readers \cup {0, None}]
    /\ sending \in {"idle", "writing", "sent", "failed"}

SerialTypedStream ==
    /\ capturing \in {"off", "opening", "on", "over"}
    /\ buffer \in Seq(1 .. Chunks) /\ Len(buffer) <= Capacity
    /\ raw \in Seq(1 .. Chunks) /\ Len(raw) <= Budget
    /\ spilt \subseteq 1 .. Chunks /\ missed \subseteq 1 .. Chunks /\ astray \subseteq 1 .. Chunks
    /\ registered = IF capturing = "over" THEN Len(raw) ELSE None

\* A thread that has read something belongs to a reader that lives.
SerialHolding ==
    \A r \in DOMAIN readers : readers[r].held # None => readers[r].live /\ readers[r].reading

\* The live reader is the port's, or the one a serial.configure waits for.
SerialOneLive ==
    /\ \A r \in DOMAIN readers :
          readers[r].live => r = current \/ \E x \in Configurers : conf[x] = r
    /\ \A x, y \in Configurers : conf[x] # None /\ conf[y] # None => x = y
    /\ \A x \in Configurers : conf[x] # None => current = None

\* What is kept came in its order, and before what the live reader holds.
SerialOrdered ==
    /\ SerialRising(raw) /\ SerialRising(buffer)
    /\ \A n \in P!ToSet(raw), m \in P!ToSet(buffer) : n < m
    /\ \A n \in SerialKept, m \in P!Held : n < m

SerialPlaced ==
    /\ 1 .. arrived = SerialKept \cup SerialGone \cup P!Held
    /\ SerialKept \cap SerialGone = {} /\ P!Held \cap SerialGone = {}

SerialTyped == SerialTypedPort /\ SerialTypedStream
SerialLone == SerialHolding /\ SerialOneLive /\ SerialOrdered /\ SerialPlaced
SerialIInv == SerialTyped /\ (~Overlap => SerialLone)

-----------------------------------------------------------------------------
(* Sequences of numbers that rise.                                         *)

LEMMA SerialSameCount == \A T : P!Cardinality(T) = Cardinality(T)
  BY DEF P!Cardinality, Cardinality, P!IsFiniteSet, IsFiniteSet

LEMMA SerialNewEnd ==
    ASSUME NEW S, NEW s \in Seq(S), NEW e \in S
    PROVE  /\ Append(s, e) \in Seq(S) /\ Len(Append(s, e)) = Len(s) + 1
           /\ DOMAIN Append(s, e) = 1 .. Len(s) + 1 /\ Append(s, e)[Len(s) + 1] = e
           /\ \A i \in 1 .. Len(s) : Append(s, e)[i] = s[i]
           /\ P!ToSet(Append(s, e)) = P!ToSet(s) \cup {e}
<1>1. /\ Len(s) \in Nat /\ DOMAIN s = 1 .. Len(s) /\ Append(s, e) \in Seq(S)
      /\ Len(Append(s, e)) = Len(s) + 1 /\ DOMAIN Append(s, e) = 1 .. Len(s) + 1
      /\ Append(s, e)[Len(s) + 1] = e /\ \A i \in 1 .. Len(s) : Append(s, e)[i] = s[i]
  OBVIOUS
<1>2. \A i \in 1 .. Len(s) + 1 : i \in 1 .. Len(s) \/ i = Len(s) + 1
  BY <1>1
<1>3. P!ToSet(Append(s, e)) \subseteq P!ToSet(s) \cup {e}
  BY <1>1, <1>2 DEF P!ToSet
<1>4. \A i \in 1 .. Len(s) : i \in 1 .. Len(s) + 1
  BY <1>1
<1>5. Len(s) + 1 \in 1 .. Len(s) + 1
  BY <1>1
<1> QED
  BY <1>1, <1>3, <1>4, <1>5 DEF P!ToSet

LEMMA SerialChunkAdded ==
    ASSUME NEW s \in Seq(1 .. Chunks), NEW e \in 1 .. Chunks
    PROVE  /\ Append(s, e) \in Seq(1 .. Chunks) /\ Len(Append(s, e)) = Len(s) + 1
           /\ P!ToSet(Append(s, e)) = P!ToSet(s) \cup {e}
<1> DEFINE S == 1 .. Chunks
<1>1. s \in Seq(S) /\ e \in S
  OBVIOUS
<1> HIDE DEF S
<1>2. /\ Append(s, e) \in Seq(S) /\ Len(Append(s, e)) = Len(s) + 1
      /\ P!ToSet(Append(s, e)) = P!ToSet(s) \cup {e}
  BY <1>1, SerialNewEnd
<1> QED
  BY <1>2 DEF S

LEMMA SerialRisingAppended ==
    ASSUME NEW s \in Seq(1 .. Chunks), NEW e \in 1 .. Chunks, SerialRising(s),
           \A n \in P!ToSet(s) : n < e
    PROVE  SerialRising(Append(s, e))
<1>1. /\ Len(s) \in Nat /\ DOMAIN s = 1 .. Len(s) /\ DOMAIN Append(s, e) = 1 .. Len(s) + 1
      /\ Append(s, e)[Len(s) + 1] = e /\ \A i \in 1 .. Len(s) : Append(s, e)[i] = s[i]
  OBVIOUS
<1> SUFFICES ASSUME NEW i \in 1 .. Len(s) + 1, NEW k \in 1 .. Len(s) + 1, i < k
             PROVE  Append(s, e)[i] < Append(s, e)[k]
  BY <1>1 DEF SerialRising
<1>2. i \in 1 .. Len(s)
  BY <1>1
<1>3. k \in 1 .. Len(s) \/ k = Len(s) + 1
  BY <1>1
<1>4. CASE k \in 1 .. Len(s)
  BY <1>1, <1>2, <1>4 DEF SerialRising
<1>5. CASE k = Len(s) + 1
  BY <1>1, <1>2, <1>5 DEF P!ToSet
<1> QED
  BY <1>3, <1>4, <1>5

LEMMA SerialTailed ==
    ASSUME NEW S, NEW s \in Seq(S), s # <<>>
    PROVE  /\ Len(s) \in Nat \ {0} /\ DOMAIN s = 1 .. Len(s) /\ Head(s) = s[1] /\ s[1] \in S
           /\ Tail(s) \in Seq(S) /\ Len(Tail(s)) = Len(s) - 1
           /\ DOMAIN Tail(s) = 1 .. Len(s) - 1
           /\ \A m \in 1 .. Len(s) - 1 : Tail(s)[m] = s[m + 1]
  BY HeadTailProperties, EmptySeq, LenProperties, ElementOfSeq

LEMMA SerialRisingTail ==
    ASSUME NEW s \in Seq(1 .. Chunks), s # <<>>, SerialRising(s)
    PROVE  /\ Head(s) \in 1 .. Chunks /\ Tail(s) \in Seq(1 .. Chunks) /\ Len(Tail(s)) = Len(s) - 1
           /\ Len(s) \in Nat /\ SerialRising(Tail(s))
           /\ P!ToSet(s) = {Head(s)} \cup P!ToSet(Tail(s))
           /\ \A n \in P!ToSet(Tail(s)) : Head(s) < n
<1>1. /\ Len(s) \in Nat \ {0} /\ DOMAIN s = 1 .. Len(s) /\ Head(s) = s[1] /\ s[1] \in 1 .. Chunks
      /\ Tail(s) \in Seq(1 .. Chunks) /\ Len(Tail(s)) = Len(s) - 1
      /\ DOMAIN Tail(s) = 1 .. Len(s) - 1
  BY SerialTailed, Zenon
<1>2. \A m \in 1 .. Len(s) - 1 : Tail(s)[m] = s[m + 1] /\ m + 1 \in 1 .. Len(s)
  BY <1>1, SerialTailed
<1>3. \A m \in 1 .. Len(s) : m = 1 \/ (m - 1 \in 1 .. Len(s) - 1 /\ (m - 1) + 1 = m)
  BY <1>1
<1>4. 1 \in 1 .. Len(s)
  BY <1>1
<1>5. SerialRising(Tail(s))
  <2> SUFFICES ASSUME NEW i \in 1 .. Len(s) - 1, NEW k \in 1 .. Len(s) - 1, i < k
               PROVE  Tail(s)[i] < Tail(s)[k]
    BY <1>1 DEF SerialRising
  <2>1. i + 1 < k + 1
    BY <1>1
  <2> QED
    BY <2>1, <1>1, <1>2 DEF SerialRising
<1>6. \A n \in P!ToSet(Tail(s)) : Head(s) < n
  <2> SUFFICES ASSUME NEW m \in 1 .. Len(s) - 1 PROVE s[1] < Tail(s)[m]
    BY <1>1 DEF P!ToSet
  <2>1. 1 < m + 1
    BY <1>1
  <2> QED
    BY <2>1, <1>1, <1>2, <1>4 DEF SerialRising
<1>7. P!ToSet(s) = {Head(s)} \cup P!ToSet(Tail(s))
  <2>1. P!ToSet(s) \subseteq {Head(s)} \cup P!ToSet(Tail(s))
    <3> SUFFICES ASSUME NEW m \in 1 .. Len(s) PROVE s[m] \in {Head(s)} \cup P!ToSet(Tail(s))
      BY <1>1 DEF P!ToSet
    <3>1. CASE m = 1
      BY <3>1, <1>1
    <3>2. CASE m - 1 \in 1 .. Len(s) - 1 /\ (m - 1) + 1 = m
      <4>1. Tail(s)[m - 1] = s[m]
        BY <3>2, <1>2
      <4> QED
        BY <4>1, <3>2, <1>1 DEF P!ToSet
    <3> QED
      BY <3>1, <3>2, <1>3
  <2>2. {Head(s)} \cup P!ToSet(Tail(s)) \subseteq P!ToSet(s)
    BY <1>1, <1>2, <1>4 DEF P!ToSet
  <2> QED
    BY <2>1, <2>2
<1> QED
  BY <1>1, <1>5, <1>6, <1>7

LEMMA SerialRisingJoined ==
    ASSUME NEW s \in Seq(1 .. Chunks), NEW t \in Seq(1 .. Chunks), SerialRising(s), SerialRising(t),
           \A n \in P!ToSet(s), m \in P!ToSet(t) : n < m
    PROVE  s \o t \in Seq(1 .. Chunks) /\ P!ToSet(s \o t) = P!ToSet(s) \cup P!ToSet(t) /\
           SerialRising(s \o t)
<1>1. /\ Len(s) \in Nat /\ DOMAIN s = 1 .. Len(s) /\ Len(t) \in Nat /\ DOMAIN t = 1 .. Len(t)
      /\ s \o t \in Seq(1 .. Chunks) /\ DOMAIN (s \o t) = 1 .. Len(s) + Len(t)
  OBVIOUS
<1>2. /\ \A i \in 1 .. Len(s) : (s \o t)[i] = s[i] /\ i \in 1 .. Len(s) + Len(t)
      /\ \A i \in Len(s) + 1 .. Len(s) + Len(t) :
            (s \o t)[i] = t[i - Len(s)] /\ i - Len(s) \in 1 .. Len(t)
      /\ \A k \in 1 .. Len(t) : k + Len(s) \in 1 .. Len(s) + Len(t)
                                 /\ (s \o t)[k + Len(s)] = t[k]
  BY <1>1
<1>3. \A i \in 1 .. Len(s) + Len(t) : i \in 1 .. Len(s) \/ i \in Len(s) + 1 .. Len(s) + Len(t)
  BY <1>1
<1>4. P!ToSet(s \o t) = P!ToSet(s) \cup P!ToSet(t)
  <2>1. ASSUME NEW f \in P!ToSet(s \o t) PROVE f \in P!ToSet(s) \cup P!ToSet(t)
    <3>1. PICK i \in 1 .. Len(s) + Len(t) : f = (s \o t)[i]
      BY <1>1 DEF P!ToSet
    <3> QED
      BY <3>1, <1>1, <1>2, <1>3 DEF P!ToSet
  <2>2. ASSUME NEW f \in P!ToSet(s) PROVE f \in P!ToSet(s \o t)
    <3>1. PICK i \in 1 .. Len(s) : f = s[i]
      BY <1>1 DEF P!ToSet
    <3> QED
      BY <3>1, <1>1, <1>2 DEF P!ToSet
  <2>3. ASSUME NEW f \in P!ToSet(t) PROVE f \in P!ToSet(s \o t)
    <3>1. PICK i \in 1 .. Len(t) : f = t[i]
      BY <1>1 DEF P!ToSet
    <3> QED
      BY <3>1, <1>1, <1>2 DEF P!ToSet
  <2> QED
    BY <2>1, <2>2, <2>3
<1>5. SerialRising(s \o t)
  <2> SUFFICES ASSUME NEW i \in 1 .. Len(s) + Len(t), NEW k \in 1 .. Len(s) + Len(t), i < k
               PROVE  (s \o t)[i] < (s \o t)[k]
    BY <1>1 DEF SerialRising
  <2>1. CASE k \in 1 .. Len(s)
    <3>1. i \in 1 .. Len(s)
      BY <2>1, <1>1
    <3> QED
      BY <3>1, <2>1, <1>1, <1>2 DEF SerialRising
  <2>2. CASE i \in 1 .. Len(s) /\ k \in Len(s) + 1 .. Len(s) + Len(t)
    <3>1. s[i] \in P!ToSet(s) /\ t[k - Len(s)] \in P!ToSet(t)
      BY <2>2, <1>1, <1>2 DEF P!ToSet
    <3> QED
      BY <3>1, <2>2, <1>2
  <2>3. CASE i \in Len(s) + 1 .. Len(s) + Len(t) /\ k \in Len(s) + 1 .. Len(s) + Len(t)
    <3>1. i - Len(s) \in 1 .. Len(t) /\ k - Len(s) \in 1 .. Len(t) /\ i - Len(s) < k - Len(s)
      BY <2>3, <1>1
    <3>2. t[i - Len(s)] < t[k - Len(s)]
      BY <3>1, <1>1 DEF SerialRising
    <3> QED
      BY <3>2, <2>3, <1>2
  <2> QED
    BY <2>1, <2>2, <2>3, <1>1
<1> QED
  BY <1>1, <1>4, <1>5

-----------------------------------------------------------------------------
(* What the readers hold.                                                  *)

LEMMA SerialHeldBy ==
    ASSUME NEW n PROVE n \in P!Held <=> n # None /\ \E r \in DOMAIN readers : readers[r].held = n
  BY DEF P!Held

\* Only the one that lives holds anything.
LEMMA SerialHeldAlone ==
    ASSUME P!Constants, SerialTyped, SerialLone, NEW r \in DOMAIN readers, readers[r].live
    PROVE  P!Held = {readers[r].held} \ {None}
           /\ \A q \in DOMAIN readers : q # r => ~readers[q].live /\ readers[q].held = None
<1>1. ASSUME NEW q \in DOMAIN readers, readers[q].live PROVE q = r
  <2>1. q \in Int /\ r \in Int
    BY DEF SerialTyped, SerialTypedPort
  <2>2. \A p \in DOMAIN readers : p # None
    BY <2>1 DEF SerialTyped, SerialTypedPort, P!Constants
  <2> QED
    BY <1>1, <2>2 DEF SerialLone, SerialOneLive
<1>2. \A q \in DOMAIN readers : q # r => ~readers[q].live /\ readers[q].held = None
  BY <1>1 DEF SerialLone, SerialHolding
<1> QED
  BY <1>2 DEF P!Held

LEMMA SerialHeldNone ==
    ASSUME SerialLone, \A r \in DOMAIN readers : ~readers[r].live
    PROVE  P!Held = {} /\ \A r \in DOMAIN readers : readers[r].held = None
  BY DEF SerialLone, SerialHolding, P!Held

LEMMA SerialInitIInv == ASSUME P!Constants, P!Init PROVE SerialIInv
<1>1. <<>> \in Seq(1 .. Chunks) /\ <<>> \in Seq(SerialTasks) /\ Len(<<>>) = 0 /\ DOMAIN <<>> = {}
      /\ P!ToSet(<<>>) = {}
  BY DEF P!ToSet
<1>2. 0 \in 0 .. MaxReaders /\ 0 \in 0 .. Chunks /\ 0 <= MaxReaders /\ 0 <= Budget /\ 0 <= Capacity
  BY DEF P!Constants
<1>3. SerialTyped
  BY <1>1, <1>2 DEF P!Init, SerialTyped, SerialTypedPort, SerialTypedStream
<1>4. SerialHolding /\ SerialOneLive
  BY <1>1 DEF P!Init, SerialHolding, SerialOneLive
<1>5. SerialKept = {} /\ SerialGone = {} /\ P!Held = {}
  BY <1>1 DEF P!Init, SerialKept, SerialGone, P!Held
<1>6. 1 .. arrived = {}
  BY DEF P!Init
<1>7. SerialOrdered /\ SerialPlaced
  BY <1>1, <1>5, <1>6 DEF P!Init, SerialOrdered, SerialPlaced, SerialRising
<1> QED
  BY <1>3, <1>4, <1>7 DEF SerialIInv, SerialLone

-----------------------------------------------------------------------------
(* The reader.                                                             *)

\* One task's record changes.
LEMMA SerialOneTask ==
    ASSUME SerialTyped, NEW r \in DOMAIN readers, NEW e \in SerialTasks,
           readers' = [readers EXCEPT ![r] = e]
    PROVE  /\ readers' \in Seq(SerialTasks) /\ Len(readers') = Len(readers)
           /\ DOMAIN readers' = DOMAIN readers /\ readers'[r] = e
           /\ \A q \in DOMAIN readers : q # r => readers'[q] = readers[q]
  BY DEF SerialTyped, SerialTypedPort

\* What the readers hold does not change.
LEMMA SerialSameHeld ==
    ASSUME DOMAIN readers' = DOMAIN readers,
           \A q \in DOMAIN readers : readers'[q].held = readers[q].held
    PROVE  P!Held' = P!Held
  BY DEF P!Held

LEMMA SerialSamePlaces ==
    ASSUME SerialLone, P!Held' = P!Held, UNCHANGED <<arrived, buffer, raw, spilt, missed, astray>>
    PROVE  SerialOrdered' /\ SerialPlaced'
<1>1. SerialKept' = SerialKept /\ SerialGone' = SerialGone
  BY DEF SerialKept, SerialGone
<1> QED
  BY <1>1 DEF SerialLone, SerialOrdered, SerialPlaced, SerialRising

LEMMA SerialStepWait ==
    ASSUME P!Constants, SerialIInv, NEW r \in DOMAIN readers, P!Wait(r)
    PROVE  SerialIInv'
<1> DEFINE e == IF readers[r].stopped THEN [readers[r] EXCEPT !.live = FALSE]
                ELSE [readers[r] EXCEPT !.reading = TRUE]
<1>0. /\ readers[r].live /\ ~readers[r].reading /\ readers' = [readers EXCEPT ![r] = e]
      /\ UNCHANGED <<port, error, arrived, current, stop, conf, astray, sending>>
      /\ UNCHANGED <<capturing, buffer, spilt, raw, missed, registered>>
  BY DEF P!Wait, P!stream
<1>1. readers[r] \in SerialTasks
  BY DEF SerialIInv, SerialTyped, SerialTypedPort
<1>2. e \in SerialTasks /\ e.held = readers[r].held /\ (e.live => readers[r].live)
      /\ (readers[r].stopped \/ e.reading) /\ (readers[r].reading => e.reading)
  BY <1>1 DEF SerialTasks
<1> HIDE DEF e
<1>3. /\ readers' \in Seq(SerialTasks) /\ Len(readers') = Len(readers)
      /\ DOMAIN readers' = DOMAIN readers /\ readers'[r] = e
      /\ \A q \in DOMAIN readers : q # r => readers'[q] = readers[q]
  BY <1>0, <1>2, SerialOneTask DEF SerialIInv
<1>4. SerialTyped'
  BY <1>0, <1>3 DEF SerialIInv, SerialTyped, SerialTypedPort, SerialTypedStream
<1>5. ASSUME ~Overlap PROVE SerialLone'
  <2>1. SerialLone
    BY <1>5 DEF SerialIInv
  <2>2. P!Held' = P!Held
    BY <1>2, <1>3, SerialSameHeld
  <2>3. SerialOrdered' /\ SerialPlaced'
    BY <1>0, <2>1, <2>2, SerialSamePlaces
  <2>4. readers[r].held = None
    BY <1>0, <2>1 DEF SerialLone, SerialHolding
  <2>5. SerialHolding' /\ SerialOneLive'
    BY <1>0, <1>2, <1>3, <2>1, <2>4 DEF SerialLone, SerialHolding, SerialOneLive
  <2> QED
    BY <2>3, <2>5 DEF SerialLone
<1> QED
  BY <1>4, <1>5 DEF SerialIInv

LEMMA SerialStepReadFails ==
    ASSUME P!Constants, SerialIInv, NEW r \in DOMAIN readers, P!ReadFails(r)
    PROVE  SerialIInv'
<1> DEFINE e == [readers[r] EXCEPT !.live = FALSE, !.reading = FALSE]
<1>0. /\ readers[r].live /\ readers[r].held = None /\ readers' = [readers EXCEPT ![r] = e]
      /\ error' = (error \/ ~readers[r].stopped)
      /\ UNCHANGED <<port, arrived, current, stop, conf, astray, sending>>
      /\ UNCHANGED <<capturing, buffer, spilt, raw, missed, registered>>
  BY DEF P!ReadFails, P!stream
<1>1. readers[r] \in SerialTasks
  BY DEF SerialIInv, SerialTyped, SerialTypedPort
<1>2. e \in SerialTasks /\ e.held = readers[r].held /\ ~e.live
  BY <1>1 DEF SerialTasks
<1> HIDE DEF e
<1>3. /\ readers' \in Seq(SerialTasks) /\ Len(readers') = Len(readers)
      /\ DOMAIN readers' = DOMAIN readers /\ readers'[r] = e
      /\ \A q \in DOMAIN readers : q # r => readers'[q] = readers[q]
  BY <1>0, <1>2, SerialOneTask DEF SerialIInv
<1>4. SerialTyped'
  <2>1. error' \in BOOLEAN
    BY <1>0, <1>1 DEF SerialIInv, SerialTyped, SerialTypedPort, SerialTasks
  <2> QED
    BY <2>1, <1>0, <1>3 DEF SerialIInv, SerialTyped, SerialTypedPort, SerialTypedStream
<1>5. ASSUME ~Overlap PROVE SerialLone'
  <2>1. SerialLone
    BY <1>5 DEF SerialIInv
  <2>2. P!Held' = P!Held
    BY <1>2, <1>3, SerialSameHeld
  <2>3. SerialOrdered' /\ SerialPlaced'
    BY <1>0, <2>1, <2>2, SerialSamePlaces
  <2>4. SerialHolding' /\ SerialOneLive'
    BY <1>0, <1>2, <1>3, <2>1 DEF SerialLone, SerialHolding, SerialOneLive
  <2> QED
    BY <2>3, <2>4 DEF SerialLone
<1> QED
  BY <1>4, <1>5 DEF SerialIInv

\* The latest chunk comes after all that came.
LEMMA SerialLatest ==
    ASSUME P!Constants, SerialTyped, SerialLone, arrived < Chunks
    PROVE  /\ arrived + 1 \in 1 .. Chunks /\ arrived + 1 \in 0 .. Chunks
           /\ 1 .. arrived + 1 = (1 .. arrived) \cup {arrived + 1}
           /\ arrived + 1 \notin SerialKept \cup SerialGone \cup P!Held
           /\ \A n \in SerialKept : n < arrived + 1
<1>1. arrived \in Nat /\ Chunks \in Nat
  BY DEF SerialTyped, SerialTypedPort, P!Constants
<1>2. arrived + 1 \notin 1 .. arrived /\ \A n \in 1 .. arrived : n < arrived + 1
  BY <1>1
<1>3. 1 .. arrived = SerialKept \cup SerialGone \cup P!Held
  BY DEF SerialLone, SerialPlaced
<1> QED
  BY <1>1, <1>2, <1>3

LEMMA SerialStepReadReturns ==
    ASSUME P!Constants, SerialIInv, NEW r \in DOMAIN readers, P!ReadReturns(r) PROVE SerialIInv'
<1> DEFINE n == arrived + 1
           e == [readers[r] EXCEPT !.held = n]
           d == [readers[r] EXCEPT !.reading = FALSE]
<1>0. /\ readers[r].reading /\ readers[r].held = None
      /\ UNCHANGED <<port, error, current, stop, conf, sending>>
      /\ UNCHANGED <<capturing, buffer, spilt, raw, missed, registered>>
      /\ \/ /\ arrived < Chunks /\ arrived' = n
            /\ \/ readers[r].live /\ readers' = [readers EXCEPT ![r] = e] /\ astray' = astray
               \/ /\ ~readers[r].live /\ readers' = [readers EXCEPT ![r] = d]
                  /\ astray' = astray \cup {n}
         \/ /\ readers' = [readers EXCEPT ![r] = d] /\ arrived' = arrived /\ astray' = astray
  BY DEF P!ReadReturns, P!stream
<1>1. readers[r] \in SerialTasks /\ arrived \in Nat /\ Chunks \in Nat
  BY DEF SerialIInv, SerialTyped, SerialTypedPort, P!Constants
<1>2. /\ d \in SerialTasks /\ d.held = None /\ d.live = readers[r].live
      /\ e.held = n /\ e.live = readers[r].live /\ e.reading
      /\ (arrived < Chunks => e \in SerialTasks)
  <2>1. arrived < Chunks => n \in 1 .. Chunks
    BY <1>1
  <2> HIDE DEF n
  <2> QED
    BY <2>1, <1>0, <1>1 DEF SerialTasks
<1> HIDE DEF e, d
<1>3. CASE readers' = [readers EXCEPT ![r] = d]
  <2>1. /\ readers' \in Seq(SerialTasks) /\ Len(readers') = Len(readers)
        /\ DOMAIN readers' = DOMAIN readers /\ readers'[r] = d
        /\ \A q \in DOMAIN readers : q # r => readers'[q] = readers[q]
    BY <1>2, <1>3, SerialOneTask DEF SerialIInv
  <2>2. arrived' \in 0 .. Chunks /\ astray' \subseteq 1 .. Chunks
    BY <1>0, <1>1 DEF SerialIInv, SerialTyped, SerialTypedPort, SerialTypedStream
  <2>3. SerialTyped'
    BY <1>0, <2>1, <2>2 DEF SerialIInv, SerialTyped, SerialTypedPort, SerialTypedStream
  <2>4. ASSUME ~Overlap PROVE SerialLone'
    <3>1. SerialLone /\ SerialTyped
      BY <2>4 DEF SerialIInv
    <3>2. P!Held' = P!Held
      BY <1>0, <1>2, <2>1, SerialSameHeld
    <3>3. SerialHolding' /\ SerialOneLive'
      BY <1>0, <1>2, <2>1, <3>1 DEF SerialLone, SerialHolding, SerialOneLive
    <3>4. CASE arrived' = arrived /\ astray' = astray
      <4>1. SerialOrdered' /\ SerialPlaced'
        BY <1>0, <3>1, <3>2, <3>4, SerialSamePlaces
      <4> QED
        BY <4>1, <3>3 DEF SerialLone
    <3>5. CASE arrived < Chunks /\ arrived' = n /\ astray' = astray \cup {n}
      <4>1. /\ 1 .. arrived' = (1 .. arrived) \cup {n}
            /\ n \notin SerialKept \cup SerialGone \cup P!Held
        BY <3>1, <3>5, SerialLatest
      <4>2. SerialKept' = SerialKept /\ SerialGone' = SerialGone \cup {n}
        BY <1>0, <3>5 DEF SerialKept, SerialGone
      <4>3. SerialPlaced'
        BY <4>1, <4>2, <3>1, <3>2 DEF SerialLone, SerialPlaced
      <4>4. SerialOrdered'
        BY <4>2, <1>0, <3>1, <3>2 DEF SerialLone, SerialOrdered, SerialRising
      <4> QED
        BY <4>3, <4>4, <3>3 DEF SerialLone
    <3>6. readers' # [readers EXCEPT ![r] = e] \/
          ~(readers[r].live /\ astray' = astray /\ arrived' = n)
      <4>1. e.held # d.held
        BY <1>1, <1>2 DEF P!Constants
      <4>2. [readers EXCEPT ![r] = e][r] = e /\ [readers EXCEPT ![r] = d][r] = d
        BY DEF SerialIInv, SerialTyped, SerialTypedPort
      <4> QED
        BY <4>1, <4>2, <1>3
    <3> QED
      BY <1>0, <3>4, <3>5, <3>6
  <2> QED
    BY <2>3, <2>4 DEF SerialIInv
<1>4. CASE /\ arrived < Chunks /\ arrived' = n /\ readers[r].live
           /\ readers' = [readers EXCEPT ![r] = e] /\ astray' = astray
  <2>1. /\ readers' \in Seq(SerialTasks) /\ Len(readers') = Len(readers)
        /\ DOMAIN readers' = DOMAIN readers /\ readers'[r] = e
        /\ \A q \in DOMAIN readers : q # r => readers'[q] = readers[q]
    BY <1>2, <1>4, SerialOneTask DEF SerialIInv
  <2>2. arrived' \in 0 .. Chunks
    BY <1>1, <1>4
  <2>3. SerialTyped'
    BY <1>0, <1>4, <2>1, <2>2 DEF SerialIInv, SerialTyped, SerialTypedPort, SerialTypedStream
  <2>4. ASSUME ~Overlap PROVE SerialLone'
    <3>1. SerialLone /\ SerialTyped
      BY <2>4 DEF SerialIInv
    <3>2. SerialHolding' /\ SerialOneLive'
      BY <1>0, <1>2, <1>4, <2>1, <3>1 DEF SerialLone, SerialHolding, SerialOneLive
    <3>3. P!Held = {} /\ \A q \in DOMAIN readers : q # r => readers[q].held = None
      BY <1>0, <1>4, <3>1, SerialHeldAlone
    <3>4. n # None
      BY <1>1 DEF P!Constants
    <3>5. P!Held' = {n}
      BY <1>2, <2>1, <3>3, <3>4 DEF P!Held
    <3>6. /\ 1 .. arrived' = (1 .. arrived) \cup {n}
          /\ n \notin SerialKept \cup SerialGone \cup P!Held
          /\ \A m \in SerialKept : m < n
      BY <1>4, <3>1, SerialLatest
    <3>7. SerialKept' = SerialKept /\ SerialGone' = SerialGone
      BY <1>0, <1>4 DEF SerialKept, SerialGone
    <3>8. SerialPlaced'
      BY <3>1, <3>3, <3>5, <3>6, <3>7 DEF SerialLone, SerialPlaced
    <3>9. SerialOrdered'
      BY <1>0, <3>1, <3>5, <3>6, <3>7 DEF SerialLone, SerialOrdered, SerialRising
    <3> QED
      BY <3>2, <3>8, <3>9 DEF SerialLone
  <2> QED
    BY <2>3, <2>4 DEF SerialIInv
<1> QED
  BY <1>0, <1>3, <1>4

\* A chunk that was held is kept, dropped or missed.
LEMMA SerialPublished ==
    ASSUME P!Constants, SerialTyped, SerialLone, NEW n \in 1 .. Chunks, P!Held = {n},
           P!Held' = {}, arrived' = arrived,
           UNCHANGED <<raw, astray>>,
           \/ buffer' = buffer /\ ((missed' = missed \cup {n} /\ spilt' = spilt)
                                 \/ (spilt' = spilt \cup {n} /\ missed' = missed))
           \/ buffer' = Append(buffer, n) /\ spilt' = spilt /\ missed' = missed
    PROVE  SerialOrdered' /\ SerialPlaced'
<1>1. /\ 1 .. arrived = SerialKept \cup SerialGone \cup P!Held
      /\ SerialKept \cap SerialGone = {} /\ P!Held \cap SerialGone = {}
      /\ \A m \in SerialKept : m < n
      /\ SerialRising(raw) /\ SerialRising(buffer) /\ \A i \in P!ToSet(raw),
           k \in P!ToSet(buffer) : i < k
  BY DEF SerialLone, SerialPlaced, SerialOrdered
<1>2. SerialKept \subseteq Nat /\ n \notin SerialKept
  <2>1. SerialKept \subseteq 1 .. arrived /\ arrived \in Nat
    BY <1>1 DEF SerialTyped, SerialTypedPort
  <2> QED
    BY <2>1, <1>1
<1>3. CASE buffer' = buffer /\ ((missed' = missed \cup {n} /\ spilt' = spilt)
                              \/ (spilt' = spilt \cup {n} /\ missed' = missed))
  <2>1. SerialKept' = SerialKept /\ SerialGone' = SerialGone \cup {n}
    BY <1>3 DEF SerialKept, SerialGone
  <2> QED
    BY <1>1, <1>2, <1>3, <2>1 DEF SerialPlaced, SerialOrdered, SerialRising
<1>4. CASE buffer' = Append(buffer, n) /\ spilt' = spilt /\ missed' = missed
  <2>1. buffer \in Seq(1 .. Chunks)
    BY DEF SerialTyped, SerialTypedStream
  <2>2. P!ToSet(buffer') = P!ToSet(buffer) \cup {n}
    <3>1. P!ToSet(Append(buffer, n)) = P!ToSet(buffer) \cup {n}
      BY <2>1, SerialChunkAdded
    <3> QED
      BY <3>1, <1>4
  <2>3. SerialRising(buffer')
    <3>1. \A m \in P!ToSet(buffer) : m < n
      BY <1>1 DEF SerialKept
    <3> QED
      BY <3>1, <1>1, <1>4, <2>1, SerialRisingAppended
  <2>4. SerialKept' = SerialKept \cup {n} /\ SerialGone' = SerialGone
    BY <1>4, <2>2 DEF SerialKept, SerialGone
  <2>5. SerialPlaced'
    BY <1>1, <1>2, <2>4 DEF SerialPlaced
  <2>6. SerialOrdered'
    BY <1>1, <2>2, <2>3, <2>4 DEF SerialOrdered, SerialRising, SerialKept
  <2> QED
    BY <2>5, <2>6
<1> QED
  BY <1>3, <1>4, Zenon

LEMMA SerialStepPublish ==
    ASSUME P!Constants, SerialIInv, NEW r \in DOMAIN readers, P!Publish(r)
    PROVE  SerialIInv'
<1> DEFINE n == readers[r].held
           e == [readers[r] EXCEPT !.held = None, !.reading = FALSE]
<1>0. /\ readers[r].live /\ n # None /\ readers' = [readers EXCEPT ![r] = e]
      /\ UNCHANGED <<port, error, arrived, current, stop, conf, capturing, raw, astray, registered,
                     sending>>
      /\ \/ buffer' = buffer /\ ((missed' = missed \cup {n} /\ spilt' = spilt)
                               \/ (spilt' = spilt \cup {n} /\ missed' = missed))
         \/ /\ Len(buffer) < Capacity /\ buffer' = Append(buffer, n)
            /\ spilt' = spilt /\ missed' = missed
  <2>1. Len(buffer) \in Nat /\ Capacity \in Nat
    BY DEF SerialIInv, SerialTyped, SerialTypedStream, P!Constants
  <2>2. readers \in Seq(SerialTasks)
    BY DEF SerialIInv, SerialTyped, SerialTypedPort
  <2>3. readers' = [readers EXCEPT ![r] = e]
    BY <2>2 DEF P!Publish
  <2> HIDE DEF n, e
  <2>4. /\ readers[r].live /\ n # None
        /\ UNCHANGED <<port, error, arrived, current, stop, conf, capturing, raw, astray,
             registered,
                       sending>>
        /\ CASE capturing # "on" -> missed' = missed \cup {n} /\ UNCHANGED <<buffer, spilt>>
             [] capturing = "on" /\ Len(buffer) >= Capacity ->
                    spilt' = spilt \cup {n} /\ UNCHANGED <<buffer, missed>>
             [] OTHER -> buffer' = Append(buffer, n) /\ UNCHANGED <<spilt, missed>>
    BY Zenon DEF P!Publish, n
  <2>5. CASE capturing # "on"
    BY <2>3, <2>4, <2>5
  <2>6. CASE capturing = "on" /\ Len(buffer) >= Capacity
    BY <2>3, <2>4, <2>6
  <2>7. CASE capturing = "on" /\ Len(buffer) < Capacity
    <3>1. ~(Len(buffer) >= Capacity)
      BY <2>1, <2>7
    <3> QED
      BY <2>3, <2>4, <2>7, <3>1
  <2> QED
    BY <2>1, <2>5, <2>6, <2>7
<1>1. readers[r] \in SerialTasks
  BY DEF SerialIInv, SerialTyped, SerialTypedPort
<1>2. e \in SerialTasks /\ e.held = None /\ e.live /\ n \in 1 .. Chunks
  BY <1>0, <1>1 DEF SerialTasks
<1> HIDE DEF e
<1>3. /\ readers' \in Seq(SerialTasks) /\ Len(readers') = Len(readers)
      /\ DOMAIN readers' = DOMAIN readers /\ readers'[r] = e
      /\ \A q \in DOMAIN readers : q # r => readers'[q] = readers[q]
  BY <1>0, <1>2, SerialOneTask DEF SerialIInv
<1> HIDE DEF n
<1>4. SerialTyped'
  <2>1. buffer' \in Seq(1 .. Chunks) /\ Len(buffer') <= Capacity
    <3>1. buffer \in Seq(1 .. Chunks) /\ Len(buffer) <= Capacity /\ Capacity \in Nat /\
          Len(buffer) \in Nat
      BY DEF SerialIInv, SerialTyped, SerialTypedStream, P!Constants
    <3>2. Append(buffer, n) \in Seq(1 .. Chunks) /\ Len(Append(buffer, n)) = Len(buffer) + 1
      BY <3>1, <1>2, SerialChunkAdded
    <3>3. buffer' = buffer \/ (Len(buffer) < Capacity /\ buffer' = Append(buffer, n))
      BY <1>0
    <3>4. CASE buffer' = buffer
      BY <3>1, <3>4
    <3>5. CASE Len(buffer) < Capacity /\ buffer' = Append(buffer, n)
      <4>1. Len(buffer) + 1 <= Capacity
        BY <3>1, <3>5
      <4> QED
        BY <3>2, <3>5, <4>1
    <3> QED
      BY <3>3, <3>4, <3>5
  <2>2. spilt' \subseteq 1 .. Chunks /\ missed' \subseteq 1 .. Chunks
    BY <1>0, <1>2 DEF SerialIInv, SerialTyped, SerialTypedStream
  <2> QED
    BY <2>1, <2>2, <1>0, <1>3 DEF SerialIInv, SerialTyped, SerialTypedPort, SerialTypedStream
<1>5. ASSUME ~Overlap PROVE SerialLone'
  <2>1. SerialLone /\ SerialTyped
    BY <1>5 DEF SerialIInv
  <2>2. P!Held = {n} /\ \A q \in DOMAIN readers : q # r => readers[q].held = None
    BY <1>0, <2>1, SerialHeldAlone DEF n
  <2>3. P!Held' = {}
    BY <1>2, <1>3, <2>2 DEF P!Held
  <2>4. SerialOrdered' /\ SerialPlaced'
    <3>1. /\ arrived' = arrived /\ raw' = raw /\ astray' = astray
          /\ \/ buffer' = buffer /\ ((missed' = missed \cup {n} /\ spilt' = spilt)
                                   \/ (spilt' = spilt \cup {n} /\ missed' = missed))
             \/ buffer' = Append(buffer, n) /\ spilt' = spilt /\ missed' = missed
      BY <1>0, Zenon
    <3> QED
      BY <3>1, <1>2, <2>1, <2>2, <2>3, SerialPublished
  <2>5. SerialHolding' /\ SerialOneLive'
    BY <1>0, <1>2, <1>3, <2>1 DEF SerialLone, SerialHolding, SerialOneLive
  <2> QED
    BY <2>4, <2>5 DEF SerialLone
<1> QED
  BY <1>4, <1>5 DEF SerialIInv

-----------------------------------------------------------------------------
(* Opening and reconfiguring.                                              *)

\* The stop event is set: no task's life or bytes change.
LEMMA SerialSignalledTasks ==
    ASSUME NEW rs \in Seq(SerialTasks), stop \in DOMAIN rs \cup {None}
    PROVE  /\ P!Signalled(rs) \in Seq(SerialTasks) /\ Len(P!Signalled(rs)) = Len(rs)
           /\ DOMAIN P!Signalled(rs) = DOMAIN rs
           /\ \A q \in DOMAIN rs : /\ P!Signalled(rs)[q].live = rs[q].live
                                   /\ P!Signalled(rs)[q].held = rs[q].held
                                   /\ P!Signalled(rs)[q].reading = rs[q].reading
<1>1. CASE stop = None
  BY <1>1 DEF P!Signalled
<1>2. CASE stop # None
  <2> DEFINE e == [rs[stop] EXCEPT !.stopped = TRUE]
  <2>1. stop \in DOMAIN rs /\ rs[stop] \in SerialTasks
    BY <1>2
  <2>2. e \in SerialTasks /\ e.live = rs[stop].live /\ e.held = rs[stop].held /\
        e.reading = rs[stop].reading
    BY <2>1 DEF SerialTasks
  <2>3. P!Signalled(rs) = [rs EXCEPT ![stop] = e]
    BY <1>2 DEF P!Signalled
  <2> HIDE DEF e
  <2>4. /\ [rs EXCEPT ![stop] = e] \in Seq(SerialTasks) /\ Len([rs EXCEPT ![stop] = e]) = Len(rs)
        /\ DOMAIN [rs EXCEPT ![stop] = e] = DOMAIN rs /\ [rs EXCEPT ![stop] = e][stop] = e
        /\ \A q \in DOMAIN rs : q # stop => [rs EXCEPT ![stop] = e][q] = rs[q]
    BY <2>1, <2>2
  <2> QED
    BY <2>2, <2>3, <2>4
<1> QED
  BY <1>1, <1>2

\* A reader is cancelled, with what its thread had read.
LEMMA SerialWithoutTask ==
    ASSUME P!Constants, SerialTyped, NEW r
    PROVE  /\ P!WithoutReader(r) \in Seq(SerialTasks) /\ Len(P!WithoutReader(r)) = Len(readers)
           /\ DOMAIN P!WithoutReader(r) = DOMAIN readers
           /\ r \in DOMAIN readers =>
                ~P!WithoutReader(r)[r].live /\ P!WithoutReader(r)[r].held = None
           /\ \A q \in DOMAIN readers : q # r => P!WithoutReader(r)[q] = readers[q]
<1>1. readers \in Seq(SerialTasks) /\ DOMAIN readers = 1 .. Len(readers) /\ Len(readers) \in Nat
  BY DEF SerialTyped, SerialTypedPort
<1>2. \A q \in DOMAIN readers :
         /\ [readers[q] EXCEPT !.live = FALSE, !.held = None] \in SerialTasks
         /\ ~[readers[q] EXCEPT !.live = FALSE, !.held = None].live
         /\ [readers[q] EXCEPT !.live = FALSE, !.held = None].held = None
  <2>1. \A q \in DOMAIN readers : readers[q] \in SerialTasks
    BY <1>1
  <2> QED
    BY <2>1 DEF SerialTasks
<1>3. /\ DOMAIN P!WithoutReader(r) = DOMAIN readers
      /\ \A q \in DOMAIN readers : P!WithoutReader(r)[q] =
             IF q = r THEN [readers[q] EXCEPT !.live = FALSE, !.held = None] ELSE readers[q]
  BY Zenon DEF P!WithoutReader
<1>4. \A q \in DOMAIN readers : P!WithoutReader(r)[q] \in SerialTasks
  <2>1. \A q \in DOMAIN readers : readers[q] \in SerialTasks
    BY <1>1
  <2> QED
    BY <1>2, <1>3, <2>1, Zenon
<1>5. P!WithoutReader(r) = [q \in 1 .. Len(readers) |-> P!WithoutReader(r)[q]]
  BY <1>1, <1>3 DEF P!WithoutReader
<1>6. P!WithoutReader(r) \in Seq(SerialTasks) /\ Len(P!WithoutReader(r)) = Len(readers)
  <2> DEFINE w == P!WithoutReader(r)
  <2>1. w = [q \in 1 .. Len(readers) |-> w[q]] /\ \A q \in 1 .. Len(readers) : w[q] \in SerialTasks
    BY <1>1, <1>4, <1>5
  <2> HIDE DEF w
  <2>2. w \in Seq(SerialTasks) /\ Len(w) = Len(readers)
    BY <2>1, <1>1
  <2> QED
    BY <2>2 DEF w
<1> QED
  BY <1>2, <1>3, <1>6, Zenon

\* The one reader that may live gives way to a new one.
LEMMA SerialReplaced ==
    ASSUME P!Constants, SerialTyped, SerialLone, NEW r, NEW old \in Seq(SerialTasks),
           NEW h \in P!Readers,
           r \in DOMAIN readers \cup {None},
           Len(old) = Len(readers), readers' = Append(old, P!Fresh(h)),
           \A q \in DOMAIN readers : /\ old[q].live = P!WithoutReader(r)[q].live
                                    /\ old[q].held = P!WithoutReader(r)[q].held,
           \A q \in DOMAIN readers : readers[q].live => q = r,
           astray' = astray \cup P!LostWith(r), UNCHANGED <<arrived, raw, buffer, spilt, missed>>
    PROVE  /\ SerialHolding' /\ SerialOrdered' /\ SerialPlaced'
           /\ DOMAIN readers' = 1 .. Len(readers) + 1
           /\ \A q \in DOMAIN readers : ~readers'[q].live
<1>1. DOMAIN readers = 1 .. Len(readers) /\ Len(readers) \in Nat /\ None \notin DOMAIN readers
  BY DEF SerialTyped, SerialTypedPort, P!Constants
<1>2. P!Fresh(h) \in SerialTasks /\ P!Fresh(h).held = None
  BY DEF P!Fresh, SerialTasks
<1>3. /\ DOMAIN readers' = 1 .. Len(readers) + 1 /\ readers'[Len(readers) + 1] = P!Fresh(h)
      /\ \A q \in DOMAIN readers : readers'[q] = old[q]
  BY <1>1, <1>2, SerialNewEnd
<1>4. \A q \in DOMAIN readers : ~readers'[q].live /\ readers'[q].held = None
  <2> SUFFICES ASSUME NEW q \in DOMAIN readers PROVE ~readers'[q].live /\ readers'[q].held = None
    OBVIOUS
  <2>1. CASE q = r
    BY <2>1, <1>3, SerialWithoutTask
  <2>2. CASE q # r
    <3>1. ~readers[q].live /\ readers[q].held = None
      BY <2>2 DEF SerialLone, SerialHolding
    <3>2. P!WithoutReader(r)[q] = readers[q]
      BY <2>2, SerialWithoutTask
    <3> QED
      BY <3>1, <3>2, <1>3
  <2> QED
    BY <2>1, <2>2
<1>5. \A q \in 1 .. Len(readers) + 1 : q \in 1 .. Len(readers) \/ q = Len(readers) + 1
  BY <1>1
<1>6. P!Held' = {} /\ SerialHolding'
  BY <1>1, <1>2, <1>3, <1>4, <1>5 DEF P!Held, SerialHolding
<1>7. P!Held = P!LostWith(r)
  <2>1. CASE r = None
    <3>1. \A q \in DOMAIN readers : ~readers[q].live
      BY <2>1, <1>1
    <3> QED
      BY <3>1, <2>1, SerialHeldNone DEF P!LostWith
  <2>2. CASE r # None
    <3>1. \A q \in DOMAIN readers : q # r => readers[q].held = None
      BY DEF SerialLone, SerialHolding
    <3> QED
      BY <3>1, <2>2 DEF P!Held, P!LostWith
  <2> QED
    BY <2>1, <2>2
<1>8. SerialKept' = SerialKept /\ SerialGone' = SerialGone \cup P!Held
  BY <1>7 DEF SerialKept, SerialGone
<1>9. SerialPlaced'
  <2>1. SerialKept \cap P!Held = {}
    <3>1. \A n \in SerialKept : n \in Nat
      <4>1. SerialKept \subseteq 1 .. arrived
        BY DEF SerialLone, SerialPlaced
      <4> QED
        BY <4>1
    <3> QED
      BY <3>1 DEF SerialLone, SerialOrdered
  <2> QED
    BY <2>1, <1>6, <1>8 DEF SerialLone, SerialPlaced
<1>10. SerialOrdered'
  BY <1>6, <1>8 DEF SerialLone, SerialOrdered, SerialRising
<1> QED
  BY <1>3, <1>4, <1>6, <1>9, <1>10

\* A new reader, after one that has ended or never was.
LEMMA SerialNewTasks ==
    ASSUME P!Constants, SerialTyped, NEW old \in Seq(SerialTasks), Len(old) = Len(readers),
           NEW h \in P!Readers,
           Len(readers) < MaxReaders
    PROVE  /\ Append(old, P!Fresh(h)) \in Seq(SerialTasks)
           /\ Len(Append(old, P!Fresh(h))) = Len(readers) + 1
           /\ Len(readers) + 1 <= MaxReaders /\ Len(readers) + 1 \in 1 .. MaxReaders
           /\ DOMAIN Append(old, P!Fresh(h)) = DOMAIN readers \cup {Len(readers) + 1}
<1>1. Len(readers) \in Nat /\ MaxReaders \in Nat /\ DOMAIN readers = 1 .. Len(readers)
  BY DEF SerialTyped, SerialTypedPort, P!Constants
<1>2. P!Fresh(h) \in SerialTasks
  BY DEF P!Fresh, SerialTasks
<1>3. /\ Append(old, P!Fresh(h)) \in Seq(SerialTasks)
      /\ Len(Append(old, P!Fresh(h))) = Len(readers) + 1
      /\ DOMAIN Append(old, P!Fresh(h)) = 1 .. Len(readers) + 1
  BY <1>2, SerialNewEnd
<1> QED
  BY <1>1, <1>3

LEMMA SerialLostTyped ==
    ASSUME SerialTyped, NEW r \in DOMAIN readers \cup {None} PROVE P!LostWith(r) \subseteq 1 .. Chunks
<1>1. \A q \in DOMAIN readers : readers[q] \in SerialTasks
  BY DEF SerialTyped, SerialTypedPort
<1> QED
  BY <1>1 DEF P!LostWith, SerialTasks

LEMMA SerialOpened ==
    ASSUME P!Constants, SerialIInv, P!Alone, P!EnsureOpen, UNCHANGED <<arrived, conf, raw,
           buffer, spilt, missed>>
    PROVE  /\ port' \in 0 .. MaxReaders /\ error' \in BOOLEAN
           /\ readers' \in Seq(SerialTasks) /\ Len(readers') <= MaxReaders
           /\ current' \in DOMAIN readers' \cup {None} /\ stop' \in DOMAIN readers' \cup {None}
           /\ DOMAIN readers \subseteq DOMAIN readers' /\ astray' \subseteq 1 .. Chunks
           /\ (~Overlap => SerialLone')
<1>1. CASE UNCHANGED <<port, error, readers, current, stop, astray>>
  <2>1. P!Held' = P!Held
    BY <1>1 DEF P!Held
  <2>2. SerialLone => SerialOrdered' /\ SerialPlaced'
    BY <2>1, <1>1, SerialSamePlaces
  <2> QED
    BY <2>2, <1>1 DEF SerialIInv, SerialTyped, SerialTypedPort, SerialTypedStream, SerialLone,
       SerialHolding, SerialOneLive
<1>2. CASE /\ P!Started < MaxReaders /\ current' = P!Started + 1 /\ stop' = P!Started + 1
           /\ port' = P!Started + 1 /\ error' = FALSE
           /\ readers' = Append(P!Signalled(P!WithoutReader(current)), P!Fresh(P!Started + 1))
           /\ astray' = astray \cup P!LostWith(current)
  <2> DEFINE w == P!WithoutReader(current)
             old == P!Signalled(w)
  <2>0. SerialTyped /\ P!Started = Len(readers) /\ current \in DOMAIN readers \cup {None}
        /\ stop \in DOMAIN readers \cup {None} /\ DOMAIN readers = 1 .. Len(readers)
        /\ Len(readers) \in Nat /\ MaxReaders \in Nat
    BY DEF SerialIInv, SerialTyped, SerialTypedPort, P!Started, P!Constants
  <2>1. w \in Seq(SerialTasks) /\ Len(w) = Len(readers) /\ DOMAIN w = DOMAIN readers
    BY <2>0, SerialWithoutTask
  <2>2. /\ old \in Seq(SerialTasks) /\ Len(old) = Len(readers)
        /\ \A q \in DOMAIN readers : old[q].live = w[q].live /\ old[q].held = w[q].held
    BY <2>0, <2>1, SerialSignalledTasks
  <2> HIDE DEF old
  <2>3. P!Started + 1 \in P!Readers
    BY <1>2, <2>0 DEF P!Readers
  <2>4. /\ readers' = Append(old, P!Fresh(P!Started + 1)) /\ readers' \in Seq(SerialTasks)
        /\ Len(readers') = Len(readers) + 1 /\ Len(readers) + 1 <= MaxReaders
        /\ DOMAIN readers' = DOMAIN readers \cup {Len(readers) + 1}
    <3>1. readers' = Append(old, P!Fresh(P!Started + 1))
      BY <1>2 DEF old
    <3>2. Len(readers) < MaxReaders
      BY <1>2, <2>0
    <3> QED
      BY <3>1, <3>2, <2>0, <2>2, <2>3, SerialNewTasks
  <2>5. P!LostWith(current) \subseteq 1 .. Chunks
    BY <2>0, SerialLostTyped
  <2>6. ASSUME ~Overlap PROVE SerialLone'
    <3>1. SerialLone
      BY <2>6 DEF SerialIInv
    <3>2. \A x \in Configurers : conf[x] = None
      BY <2>6 DEF P!Alone
    <3>3. \A q \in DOMAIN readers : q # None
      BY <2>0 DEF P!Constants
    <3>4. \A q \in DOMAIN readers : readers[q].live => q = current
      BY <3>1, <3>2, <3>3 DEF SerialLone, SerialOneLive
    <3>5. \A q \in DOMAIN readers : /\ old[q].live = P!WithoutReader(current)[q].live
                                    /\ old[q].held = P!WithoutReader(current)[q].held
      BY <2>2
    <3>6. astray' = astray \cup P!LostWith(current)
      BY <1>2
    <3> HIDE DEF w
    <3>7. /\ SerialHolding' /\ SerialOrdered' /\ SerialPlaced'
          /\ \A q \in DOMAIN readers : ~readers'[q].live
      <4>1. \E h \in P!Readers : readers' = Append(old, P!Fresh(h))
        BY <2>3, <2>4
      <4> QED
        BY <4>1, <3>1, <3>4, <3>5, <3>6, <2>0, <2>2, SerialReplaced
    <3>8. SerialOneLive'
      <4>1. \A x \in Configurers : conf'[x] = None
        BY <3>2
      <4>2. \A q \in DOMAIN readers' : readers'[q].live => q = current'
        BY <3>7, <2>0, <2>4, <1>2
      <4> QED
        BY <4>1, <4>2 DEF SerialOneLive
    <3> QED
      BY <3>7, <3>8 DEF SerialLone
  <2>7. astray' \subseteq 1 .. Chunks
    BY <1>2, <2>5 DEF SerialIInv, SerialTyped, SerialTypedStream
  <2>8. port' \in 0 .. MaxReaders
    BY <1>2, <2>0, <2>4
  <2> QED
    BY <1>2, <2>0, <2>4, <2>6, <2>7, <2>8
<1> QED
  BY <1>1, <1>2 DEF P!EnsureOpen, P!NewReader

LEMMA SerialStepOpenForCapture == ASSUME P!Constants, SerialIInv, P!OpenForCapture PROVE SerialIInv'
<1>0. /\ capturing = "off" /\ capturing' = "opening" /\ P!Alone /\ P!EnsureOpen
      /\ UNCHANGED <<arrived, conf, buffer, spilt, raw, missed, registered, sending>>
  BY DEF P!OpenForCapture
<1>1. /\ port' \in 0 .. MaxReaders /\ error' \in BOOLEAN
      /\ readers' \in Seq(SerialTasks) /\ Len(readers') <= MaxReaders
      /\ current' \in DOMAIN readers' \cup {None} /\ stop' \in DOMAIN readers' \cup {None}
      /\ DOMAIN readers \subseteq DOMAIN readers' /\ astray' \subseteq 1 .. Chunks
      /\ (~Overlap => SerialLone')
  BY <1>0, SerialOpened
<1>2. conf' \in [Configurers -> DOMAIN readers' \cup {0, None}]
  BY <1>0, <1>1 DEF SerialIInv, SerialTyped, SerialTypedPort
<1>3. SerialTypedStream'
  BY <1>0, <1>1 DEF SerialIInv, SerialTyped, SerialTypedStream
<1> QED
  BY <1>0, <1>1, <1>2, <1>3 DEF SerialIInv, SerialTyped, SerialTypedPort

LEMMA SerialStepSend == ASSUME P!Constants, SerialIInv, P!Send PROVE SerialIInv'
<1>0. /\ sending' = "writing" /\ P!Alone /\ P!EnsureOpen /\ UNCHANGED <<arrived, conf>>
      /\ UNCHANGED <<capturing, buffer, spilt, raw, missed, registered>>
  BY DEF P!Send, P!stream
<1>1. /\ port' \in 0 .. MaxReaders /\ error' \in BOOLEAN
      /\ readers' \in Seq(SerialTasks) /\ Len(readers') <= MaxReaders
      /\ current' \in DOMAIN readers' \cup {None} /\ stop' \in DOMAIN readers' \cup {None}
      /\ DOMAIN readers \subseteq DOMAIN readers' /\ astray' \subseteq 1 .. Chunks
      /\ (~Overlap => SerialLone')
  BY <1>0, SerialOpened
<1>2. conf' \in [Configurers -> DOMAIN readers' \cup {0, None}]
  BY <1>0, <1>1 DEF SerialIInv, SerialTyped, SerialTypedPort
<1>3. SerialTypedStream'
  BY <1>0, <1>1 DEF SerialIInv, SerialTyped, SerialTypedStream
<1> QED
  BY <1>0, <1>1, <1>2, <1>3 DEF SerialIInv, SerialTyped, SerialTypedPort

LEMMA SerialStepConfigure ==
    ASSUME P!Constants, SerialIInv, NEW x \in Configurers, P!Configure(x)
    PROVE  SerialIInv'
<1> DEFINE c == IF current = None THEN 0 ELSE current
<1>0. /\ port # 0 /\ conf[x] = None /\ P!Alone /\ conf' = [conf EXCEPT ![x] = c] /\ current' = None
      /\ readers' = P!Signalled(readers)
      /\ UNCHANGED <<port, error, arrived, stop, astray, sending>>
      /\ UNCHANGED <<capturing, buffer, spilt, raw, missed, registered>>
  BY DEF P!Configure, P!stream
<1>1. SerialTyped /\ c \in DOMAIN readers \cup {0} /\
      conf \in [Configurers -> DOMAIN readers \cup {0, None}]
      /\ readers \in Seq(SerialTasks) /\ stop \in DOMAIN readers \cup {None}
      /\ None \notin DOMAIN readers
  BY DEF SerialIInv, SerialTyped, SerialTypedPort, P!Constants
<1>2. /\ readers' \in Seq(SerialTasks) /\ Len(readers') = Len(readers)
      /\ DOMAIN readers' = DOMAIN readers
      /\ \A q \in DOMAIN readers : /\ readers'[q].live = readers[q].live
                                   /\ readers'[q].held = readers[q].held
                                   /\ readers'[q].reading = readers[q].reading
  BY <1>0, <1>1, SerialSignalledTasks
<1>3. /\ conf' \in [Configurers -> DOMAIN readers' \cup {0, None}] /\ conf'[x] = c
      /\ \A y \in Configurers : y # x => conf'[y] = conf[y]
  BY <1>0, <1>1, <1>2
<1>4. SerialTyped'
  BY <1>0, <1>2, <1>3 DEF SerialIInv, SerialTyped, SerialTypedPort, SerialTypedStream
<1>5. ASSUME ~Overlap PROVE SerialLone'
  <2>1. SerialLone /\ \A y \in Configurers : conf[y] = None
    BY <1>0, <1>5 DEF SerialIInv, P!Alone
  <2>2. P!Held' = P!Held
    BY <1>2, SerialSameHeld
  <2>3. SerialOrdered' /\ SerialPlaced'
    BY <1>0, <2>1, <2>2, SerialSamePlaces
  <2>4. SerialHolding'
    BY <1>2, <2>1 DEF SerialLone, SerialHolding
  <2>5. SerialOneLive'
    <3>1. \A q \in DOMAIN readers : readers[q].live => q = current
      BY <1>1, <2>1 DEF SerialLone, SerialOneLive
    <3>2. \A q \in DOMAIN readers' : readers'[q].live => conf'[x] = q
      BY <3>1, <1>1, <1>2, <1>3
    <3> QED
      BY <3>2, <1>0, <1>3, <2>1 DEF SerialOneLive
  <2> QED
    BY <2>3, <2>4, <2>5 DEF SerialLone
<1> QED
  BY <1>4, <1>5 DEF SerialIInv

LEMMA SerialStepApply ==
    ASSUME P!Constants, SerialIInv, NEW x \in Configurers, P!Apply(x)
    PROVE  SerialIInv'
<1> DEFINE r == IF conf[x] = 0 THEN None ELSE conf[x]
           w == P!WithoutReader(r)
<1>0. /\ conf[x] # None /\ port # 0 /\ readers' = Append(w, P!Fresh(port))
      /\ astray' = astray \cup P!LostWith(r) /\ conf' = [conf EXCEPT ![x] = None]
      /\ P!Started < MaxReaders /\ current' = P!Started + 1 /\ stop' = P!Started + 1
      /\ UNCHANGED <<port, error, arrived, sending>>
      /\ UNCHANGED <<capturing, buffer, spilt, raw, missed, registered>>
  BY DEF P!Apply, P!NewReader, P!stream
<1>1. /\ SerialTyped /\ P!Started = Len(readers)
      /\ conf \in [Configurers -> DOMAIN readers \cup {0, None}]
      /\ DOMAIN readers = 1 .. Len(readers) /\ Len(readers) \in Nat /\ port \in 0 .. MaxReaders
      /\ None \notin DOMAIN readers /\ MaxReaders \in Nat
  BY DEF SerialIInv, SerialTyped, SerialTypedPort, P!Started, P!Constants
<1>2. r \in DOMAIN readers \cup {None} /\ port \in P!Readers
  BY <1>0, <1>1 DEF P!Readers
<1> HIDE DEF r
<1>3. w \in Seq(SerialTasks) /\ Len(w) = Len(readers)
  BY <1>1, SerialWithoutTask
<1>4. /\ readers' \in Seq(SerialTasks) /\ Len(readers') = Len(readers) + 1
      /\ Len(readers) + 1 <= MaxReaders
      /\ DOMAIN readers' = DOMAIN readers \cup {Len(readers) + 1}
  <2> HIDE DEF w
  <2>1. Len(readers) < MaxReaders
    BY <1>0, <1>1
  <2> QED
    BY <2>1, <1>0, <1>1, <1>2, <1>3, SerialNewTasks
<1>5. /\ conf' \in [Configurers -> DOMAIN readers' \cup {0, None}] /\ conf'[x] = None
      /\ \A y \in Configurers : y # x => conf'[y] = conf[y]
  BY <1>0, <1>1, <1>4
<1>6. astray' \subseteq 1 .. Chunks
  <2>1. P!LostWith(r) \subseteq 1 .. Chunks
    BY <1>1, <1>2, SerialLostTyped
  <2> QED
    BY <2>1, <1>0 DEF SerialIInv, SerialTyped, SerialTypedStream
<1>7. SerialTyped'
  BY <1>0, <1>1, <1>4, <1>5, <1>6 DEF SerialIInv, SerialTyped, SerialTypedPort, SerialTypedStream
<1>8. ASSUME ~Overlap PROVE SerialLone'
  <2>1. SerialLone
    BY <1>8 DEF SerialIInv
  <2>2. current = None /\ \A y \in Configurers : y # x => conf[y] = None
    BY <1>0, <2>1 DEF SerialLone, SerialOneLive
  <2>3. \A q \in DOMAIN readers : readers[q].live => q = r
    <3>1. \A q \in DOMAIN readers : readers[q].live => conf[x] = q
      BY <1>1, <2>1, <2>2 DEF SerialLone, SerialOneLive
    <3>2. \A q \in DOMAIN readers : q # 0
      BY <1>1
    <3> QED
      BY <3>1, <3>2 DEF r
  <2>4. /\ SerialHolding' /\ SerialOrdered' /\ SerialPlaced'
        /\ \A q \in DOMAIN readers : ~readers'[q].live
    <3>1. \A q \in DOMAIN readers : /\ w[q].live = P!WithoutReader(r)[q].live
                                    /\ w[q].held = P!WithoutReader(r)[q].held
      OBVIOUS
    <3>2. \E h \in P!Readers : readers' = Append(w, P!Fresh(h))
      BY <1>0, <1>2
    <3>3. UNCHANGED <<arrived, raw, buffer, spilt, missed>> /\ astray' = astray \cup P!LostWith(r)
      BY <1>0
    <3> HIDE DEF w
    <3> QED
      BY <3>1, <3>2, <3>3, <2>1, <2>3, <1>1, <1>2, <1>3, SerialReplaced
  <2>5. SerialOneLive'
    <3>1. \A y \in Configurers : conf'[y] = None
      BY <1>5, <2>2
    <3>2. \A q \in DOMAIN readers' : readers'[q].live => q = current'
      BY <2>4, <1>0, <1>1, <1>4
    <3> QED
      BY <3>1, <3>2 DEF SerialOneLive
  <2> QED
    BY <2>4, <2>5 DEF SerialLone
<1> QED
  BY <1>7, <1>8 DEF SerialIInv

-----------------------------------------------------------------------------
(* The capture.                                                            *)

LEMMA SerialSameReaders ==
    ASSUME UNCHANGED <<port, error, arrived, readers, current, stop, conf, sending>>
    PROVE  /\ (SerialTypedPort => SerialTypedPort') /\ (SerialHolding =>
                SerialHolding') /\ (SerialOneLive => SerialOneLive')
           /\ P!Held' = P!Held
  BY DEF SerialTypedPort, SerialHolding, SerialOneLive, P!Held

LEMMA SerialStepSubscribe == ASSUME P!Constants, SerialIInv, P!Subscribe PROVE SerialIInv'
<1>0. /\ capturing = "opening" /\ capturing' = "on"
      /\ UNCHANGED <<port, error, arrived, readers, current, stop, conf, sending>>
      /\ UNCHANGED <<buffer, spilt, raw, missed, astray, registered>>
  BY DEF P!Subscribe
<1>1. SerialTyped'
  BY <1>0, SerialSameReaders DEF SerialIInv, SerialTyped, SerialTypedStream
<1>2. SerialLone => SerialLone'
  BY <1>0, SerialSameReaders, SerialSamePlaces DEF SerialLone
<1> QED
  BY <1>1, <1>2 DEF SerialIInv

LEMMA SerialStepSendEnds ==
    ASSUME P!Constants, SerialIInv, NEW how \in {"sent", "failed"},
           P!SendEnds(how) PROVE SerialIInv'
<1>0. /\ sending' = how
      /\ UNCHANGED <<port, error, arrived, readers, current, stop, conf>>
      /\ UNCHANGED <<capturing, buffer, spilt, raw, missed, astray, registered>>
  BY DEF P!SendEnds, P!stream
<1>1. SerialTyped'
  BY <1>0 DEF SerialIInv, SerialTyped, SerialTypedPort, SerialTypedStream
<1>2. P!Held' = P!Held
  BY <1>0 DEF P!Held
<1>3. SerialLone => SerialLone'
  BY <1>0, <1>2, SerialSamePlaces DEF SerialLone, SerialHolding, SerialOneLive
<1> QED
  BY <1>1, <1>3 DEF SerialIInv

LEMMA SerialStepSink == ASSUME P!Constants, SerialIInv, P!Sink PROVE SerialIInv'
<1>0. /\ capturing = "on" /\ buffer # <<>> /\ Len(raw) < Budget
      /\ raw' = Append(raw, Head(buffer)) /\ buffer' = Tail(buffer)
      /\ UNCHANGED <<port, error, arrived, readers, current, stop, conf, sending>>
      /\ UNCHANGED <<capturing, spilt, missed, astray, registered>>
  BY DEF P!Sink
<1>1. /\ raw \in Seq(1 .. Chunks) /\ buffer \in Seq(1 .. Chunks) /\ Budget \in Nat
      /\ Capacity \in Nat
      /\ Len(raw) \in Nat /\ Len(buffer) <= Capacity
  BY DEF SerialIInv, SerialTyped, SerialTypedStream, P!Constants
<1>2. Head(buffer) \in 1 .. Chunks /\ Tail(buffer) \in Seq(1 .. Chunks)
      /\ Len(Tail(buffer)) = Len(buffer) - 1 /\ Len(buffer) \in Nat
  <2> DEFINE S == 1 .. Chunks
  <2>1. buffer \in Seq(S)
    BY <1>1
  <2> HIDE DEF S
  <2>2. Head(buffer) \in S /\ Tail(buffer) \in Seq(S) /\ Len(Tail(buffer)) = Len(buffer) - 1
        /\ Len(buffer) \in Nat
    BY <2>1, <1>0, SerialTailed
  <2> QED
    BY <2>2 DEF S
<1>3. /\ raw' \in Seq(1 .. Chunks) /\ Len(raw') = Len(raw) + 1
      /\ P!ToSet(raw') = P!ToSet(raw) \cup {Head(buffer)}
  BY <1>0, <1>1, <1>2, SerialChunkAdded
<1>4. SerialTyped'
  <2>1. Len(raw') <= Budget /\ Len(buffer') <= Capacity
    BY <1>0, <1>1, <1>2, <1>3
  <2> QED
    BY <2>1, <1>0, <1>2, <1>3, SerialSameReaders DEF SerialIInv, SerialTyped, SerialTypedStream
<1>5. ASSUME SerialLone PROVE SerialLone'
  <2>1. SerialRising(raw) /\ SerialRising(buffer) /\ \A n \in P!ToSet(raw),
        m \in P!ToSet(buffer) : n < m
    BY <1>5 DEF SerialLone, SerialOrdered
  <2>2. /\ SerialRising(Tail(buffer)) /\ P!ToSet(buffer) = {Head(buffer)} \cup P!ToSet(Tail(buffer))
        /\ \A n \in P!ToSet(Tail(buffer)) : Head(buffer) < n
    BY <2>1, <1>0, <1>1, SerialRisingTail
  <2>3. SerialRising(raw')
    BY <2>1, <2>2, <1>0, <1>1, <1>2, SerialRisingAppended
  <2>4. SerialKept' = SerialKept /\ SerialGone' = SerialGone /\ P!Held' = P!Held
    BY <2>2, <1>0, <1>3, SerialSameReaders DEF SerialKept, SerialGone
  <2>5. \A n \in P!ToSet(raw'), m \in P!ToSet(buffer') : n < m
    BY <2>1, <2>2, <1>0, <1>3
  <2>6. SerialOrdered'
    BY <2>2, <2>3, <2>4, <2>5, <1>0, <1>5 DEF SerialLone, SerialOrdered
  <2>7. SerialPlaced'
    BY <2>4, <1>0, <1>5 DEF SerialLone, SerialPlaced
  <2> QED
    BY <2>6, <2>7, <1>0, <1>5, SerialSameReaders DEF SerialLone
<1> QED
  BY <1>4, <1>5 DEF SerialIInv

LEMMA SerialStepEndCapture == ASSUME P!Constants, SerialIInv, P!EndCapture PROVE SerialIInv'
<1>0. /\ capturing = "on" /\ capturing' = "over" /\ buffer' = <<>>
      /\ missed' = missed \cup P!ToSet(buffer)
      /\ registered' = Len(raw)
      /\ UNCHANGED <<port, error, arrived, readers, current, stop, conf, sending>>
      /\ UNCHANGED <<spilt, raw, astray>>
  BY DEF P!EndCapture
<1>1. <<>> \in Seq(1 .. Chunks) /\ Len(<<>>) = 0 /\ 0 <= Capacity /\ P!ToSet(<<>>) = {} /\
      DOMAIN <<>> = {}
  BY DEF P!Constants, P!ToSet
<1>2. P!ToSet(buffer) \subseteq 1 .. Chunks
  <2>1. \A i \in DOMAIN buffer : buffer[i] \in 1 .. Chunks
    <3>1. buffer \in Seq(1 .. Chunks)
      BY DEF SerialIInv, SerialTyped, SerialTypedStream
    <3> DEFINE S == 1 .. Chunks
    <3>2. buffer \in Seq(S)
      BY <3>1
    <3> HIDE DEF S
    <3>3. \A i \in DOMAIN buffer : buffer[i] \in S
      BY <3>2
    <3> QED
      BY <3>3 DEF S
  <2> QED
    BY <2>1 DEF P!ToSet
<1>3. SerialTyped'
  BY <1>0, <1>1, <1>2, SerialSameReaders DEF SerialIInv, SerialTyped, SerialTypedStream
<1>4. ASSUME SerialTyped, SerialLone PROVE SerialLone'
  <2>1. SerialKept' = P!ToSet(raw) /\ SerialGone' = SerialGone \cup P!ToSet(buffer) /\
        P!Held' = P!Held
    BY <1>0, <1>1, SerialSameReaders DEF SerialKept, SerialGone
  <2>2. SerialKept = P!ToSet(raw) \cup P!ToSet(buffer) /\ \A n \in SerialKept : n \in Nat
    <3>1. SerialKept \subseteq 1 .. arrived
      BY <1>4 DEF SerialLone, SerialPlaced
    <3> QED
      BY <3>1 DEF SerialKept
  <2>3. P!ToSet(raw) \cap P!ToSet(buffer) = {} /\ P!Held \cap P!ToSet(buffer) = {}
    BY <2>2, <1>4 DEF SerialLone, SerialOrdered
  <2>4. SerialPlaced'
    BY <2>1, <2>2, <2>3, <1>0, <1>4 DEF SerialLone, SerialPlaced
  <2>5. SerialOrdered'
    BY <2>1, <2>2, <1>0, <1>1, <1>4 DEF SerialLone, SerialOrdered, SerialRising
  <2> QED
    BY <2>4, <2>5, <1>0, <1>4, SerialSameReaders DEF SerialLone
<1> QED
  BY <1>3, <1>4 DEF SerialIInv

LEMMA SerialStepIInv == ASSUME P!Constants, SerialIInv, [P!Next]_(P!vars) PROVE SerialIInv'
<1>1. CASE P!OpenForCapture \/ P!Subscribe \/ P!Sink \/ P!EndCapture \/ P!Send
  BY <1>1, SerialStepOpenForCapture, SerialStepSubscribe, SerialStepSink, SerialStepEndCapture,
     SerialStepSend
<1>2. CASE \E how \in {"sent", "failed"} : P!SendEnds(how)
  BY <1>2, SerialStepSendEnds
<1>3. CASE \E r \in DOMAIN readers : P!Wait(r) \/ P!ReadReturns(r) \/ P!Publish(r) \/ P!ReadFails(r)
  BY <1>3, SerialStepWait, SerialStepReadReturns, SerialStepPublish, SerialStepReadFails
<1>4. CASE \E x \in Configurers : P!Configure(x) \/ P!Apply(x)
  BY <1>4, SerialStepConfigure, SerialStepApply
<1>5. CASE UNCHANGED P!vars
  <2>1. UNCHANGED <<port, error, arrived, readers, current, stop, conf, sending>>
        /\ UNCHANGED <<capturing, buffer, spilt, raw, missed, astray, registered>>
    BY <1>5 DEF P!vars
  <2>2. SerialTyped'
    BY <2>1 DEF SerialIInv, SerialTyped, SerialTypedPort, SerialTypedStream
  <2>3. SerialLone => SerialLone'
    BY <2>1, SerialSameReaders, SerialSamePlaces DEF SerialLone
  <2> QED
    BY <2>2, <2>3 DEF SerialIInv
<1> QED
  BY <1>1, <1>2, <1>3, <1>4, <1>5 DEF P!Next

-----------------------------------------------------------------------------
LEMMA SerialMeansTyped == ASSUME P!Constants, SerialIInv PROVE P!TypeOK
<1>1. DOMAIN readers \subseteq P!Readers /\ \A r \in DOMAIN readers : readers[r] \in SerialTasks
  <2>1. readers \in Seq(SerialTasks) /\ Len(readers) <= MaxReaders /\ MaxReaders \in Nat
    BY DEF SerialIInv, SerialTyped, SerialTypedPort, P!Constants
  <2> QED
    BY <2>1 DEF P!Readers
<1>2. registered \in 0 .. Budget \cup {None}
  <2>1. Len(raw) \in Nat /\ Len(raw) <= Budget /\ Budget \in Nat
    BY DEF SerialIInv, SerialTyped, SerialTypedStream, P!Constants
  <2> QED
    BY <2>1 DEF SerialIInv, SerialTyped, SerialTypedStream
<1> QED
  BY <1>1, <1>2 DEF SerialIInv, SerialTyped, SerialTypedPort, SerialTypedStream, P!TypeOK,
     SerialTasks

LEMMA SerialMeansInOrder == ASSUME P!Constants, SerialIInv, ~Overlap PROVE P!BytesInOrder
<1> DEFINE taken == raw \o buffer
<1>1. SerialTyped /\ SerialLone /\ raw \in Seq(1 .. Chunks) /\ buffer \in Seq(1 .. Chunks) /\
      Len(raw) \in Nat
  BY DEF SerialIInv, SerialTyped, SerialTypedStream
<1>2. taken \in Seq(1 .. Chunks) /\ P!ToSet(taken) = SerialKept /\ SerialRising(taken)
  BY <1>1, SerialRisingJoined DEF SerialLone, SerialOrdered, SerialKept
<1> DEFINE rest == spilt \cup missed \cup astray \cup P!Held
<1>3. rest = SerialGone \cup P!Held
  BY DEF SerialGone
<1>4. 1 .. arrived = SerialKept \cup rest /\ SerialKept \cap rest = {}
  <2>1. \A n \in SerialKept : n \in Nat
    <3>1. SerialKept \subseteq 1 .. arrived
      BY <1>1 DEF SerialLone, SerialPlaced
    <3> QED
      BY <3>1
  <2>2. SerialKept \cap P!Held = {}
    BY <2>1, <1>1 DEF SerialLone, SerialOrdered
  <2> QED
    BY <2>2, <1>1, <1>3 DEF SerialLone, SerialPlaced
<1> HIDE DEF rest, taken
<1>5. Cardinality(SerialKept) + Cardinality(rest) = arrived
  <2>1. arrived \in Nat
    BY <1>1 DEF SerialTyped, SerialTypedPort
  <2>2. IsFiniteSet(1 .. arrived) /\ Cardinality(1 .. arrived) = arrived
    BY <2>1, FS_Interval
  <2>3. SerialKept \subseteq 1 .. arrived /\ rest \subseteq 1 .. arrived
    BY <1>4
  <2>4. IsFiniteSet(SerialKept) /\ IsFiniteSet(rest)
    BY <2>2, <2>3, FS_Subset
  <2>5. Cardinality(SerialKept \cup rest) = Cardinality(SerialKept) + Cardinality(rest) - Cardinality({})
    BY <2>4, <1>4, FS_Union
  <2>6. Cardinality(SerialKept) \in Nat /\ Cardinality(rest) \in Nat /\ Cardinality({}) = 0
    BY <2>4, FS_CardinalityType, FS_EmptySet
  <2>7. Cardinality(SerialKept \cup rest) = arrived
    BY <2>2, <1>4, Zenon
  <2> QED
    BY <2>5, <2>6, <2>7
<1>6. capturing = "over" <=> registered = Len(raw)
  <2>1. None # Len(raw)
    BY <1>1 DEF P!Constants
  <2> QED
    BY <2>1, <1>1 DEF SerialTyped, SerialTypedStream
<1>7. \A i, j \in DOMAIN taken : i < j => taken[i] < taken[j]
  BY <1>2 DEF SerialRising
<1>8. 1 .. arrived = P!ToSet(taken) \cup spilt \cup missed \cup astray \cup P!Held
  BY <1>2, <1>4 DEF rest
<1>9. Cardinality(P!ToSet(taken)) + Cardinality(spilt \cup missed \cup astray \cup P!Held) = arrived
  BY <1>2, <1>5 DEF rest
<1> QED
  BY <1>6, <1>7, <1>8, <1>9, SerialSameCount DEF P!BytesInOrder, taken

-----------------------------------------------------------------------------
(* BusDecoders: for any senders, messages and faults: each frame of a      *)
(* capture is a part of one report, and a report that has no problem is    *)
(* numbered without a gap.                                                 *)

(* The inductive invariant: what is reported and what is pending are       *)
(* pieces of the capture cn, each of one id and in its order, which share  *)
(* no frame and leave none out.                                            *)

DecodersPiece(cn, d, s) ==
    /\ d \in Seq(DOMAIN cn) /\ d # <<>>
    /\ \A j \in DOMAIN d : cn[d[j]].id = s
    /\ \A j \in DOMAIN d : j > 1 => cn[d[j]].n # 0
    /\ \A j, k \in DOMAIN d : j < k => d[j] < d[k]

DecodersStraight(cn, d) == \A j \in DOMAIN d : cn[d[j]].n % 16 = (j - 1) % 16

DecodersTypedBus ==
    /\ onBus \in [Senders -> [msg : 1 .. Len(Bodies) + 1, n : Nat]]
    /\ \A s \in Senders : onBus[s].msg <= Len(Bodies) => onBus[s].n < Bodies[onBus[s].msg]
    /\ \A f \in delayed : f.n < Bodies[f.msg]
    /\ delayed \subseteq B!Frames /\ \A f, g \in delayed : f = g
    /\ seen \in Seq(B!Frames)
    /\ DOMAIN groups \subseteq (0 .. 255) \X (0 .. 255)
    /\ noise \in 0 .. MaxFaults /\ done \in BOOLEAN

DecodersEntries == [declared : Nat, data : Seq(Nat), next : 0 .. 15, problems : BOOLEAN]
DecodersReports == [id : Senders, data : Seq(Nat), complete : BOOLEAN, problems : BOOLEAN]

DecodersGoodEntry(cn, s, e) ==
    /\ s \in Senders /\ e \in DecodersEntries /\ DecodersPiece(cn, e.data, s)
    /\ ~e.problems => DecodersStraight(cn, e.data) /\ e.next = Len(e.data) % 16

DecodersGoodReport(cn, m) ==
    /\ m \in DecodersReports /\ DecodersPiece(cn, m.data, m.id)
    /\ m.complete /\ ~m.problems => DecodersStraight(cn, m.data)

DecodersPlaced(cn, p, ms) ==
    \A i \in DOMAIN cn : \/ \E m \in ms : i \in B!ToSet(m.data)
                         \/ \E s \in DOMAIN p : i \in B!ToSet(p[s].data)

DecodersApart(p, ms) ==
    /\ \A m, o \in ms : m # o => B!ToSet(m.data) \cap B!ToSet(o.data) = {}
    /\ \A m \in ms : \A s \in DOMAIN p : B!ToSet(m.data) \cap B!ToSet(p[s].data) = {}

\* What the decoder has made of capture cn.
DecodersAccounted(cn, p, ms) ==
    /\ \A s \in DOMAIN p : DecodersGoodEntry(cn, s, p[s])
    /\ \A m \in ms : DecodersGoodReport(cn, m)
    /\ DecodersPlaced(cn, p, ms) /\ DecodersApart(p, ms)

DecodersIInv == DecodersTypedBus /\ DecodersAccounted(seen, pending, messages) /\ (done =>
    DOMAIN pending = {})

-----------------------------------------------------------------------------
(* Pieces of a capture that grows by frame f.                              *)

LEMMA DecodersPieceStays ==
    ASSUME NEW cn \in Seq(B!Frames), NEW f \in B!Frames, NEW d, NEW s, DecodersPiece(cn, d, s)
    PROVE  /\ DecodersPiece(Append(cn, f), d, s)
           /\ DecodersStraight(cn, d) => DecodersStraight(Append(cn, f), d)
           /\ Len(cn) + 1 \notin B!ToSet(d)
<1> DEFINE gn == Append(cn, f)
<1>1. DOMAIN cn = 1 .. Len(cn) /\ DOMAIN gn = 1 .. Len(cn) + 1 /\ Len(cn) \in Nat
  OBVIOUS
<1>2. \A i \in DOMAIN cn : gn[i] = cn[i]
  OBVIOUS
<1>3. d \in Seq(DOMAIN cn) /\ \A j \in DOMAIN d : d[j] \in DOMAIN cn
  BY DEF DecodersPiece
<1> HIDE DEF gn
<1>4. d \in Seq(DOMAIN gn)
  <2>1. DOMAIN cn \subseteq DOMAIN gn
    BY <1>1
  <2> QED
    BY <1>3, <2>1
<1>5. DecodersPiece(gn, d, s)
  BY <1>2, <1>3, <1>4 DEF DecodersPiece
<1>6. DecodersStraight(cn, d) => DecodersStraight(gn, d)
  BY <1>2, <1>3 DEF DecodersStraight
<1>7. Len(cn) + 1 \notin B!ToSet(d)
  BY <1>1, <1>3 DEF B!ToSet
<1> QED
  BY <1>5, <1>6, <1>7 DEF gn

LEMMA DecodersPieceBegins ==
    ASSUME NEW cn \in Seq(B!Frames), NEW f \in B!Frames
    PROVE  LET d == <<Len(cn) + 1>> IN
           /\ DecodersPiece(Append(cn, f), d, f.id) /\ B!ToSet(d) = {Len(cn) + 1} /\ d \in Seq(Nat)
           /\ f.n = 0 => DecodersStraight(Append(cn, f), d)
<1> DEFINE d == <<Len(cn) + 1>>
           gn == Append(cn, f)
<1>1. DOMAIN gn = 1 .. Len(cn) + 1 /\ Len(cn) \in Nat /\ gn[Len(cn) + 1] = f
  OBVIOUS
<1>2. DOMAIN d = {1} /\ d[1] = Len(cn) + 1 /\ d # <<>>
  OBVIOUS
<1>3. d \in Seq(DOMAIN gn) /\ d \in Seq(Nat)
  BY <1>1
<1>4. B!ToSet(d) = {Len(cn) + 1}
  BY <1>2 DEF B!ToSet
<1> HIDE DEF gn, d
<1>5. DecodersPiece(gn, d, f.id)
  BY <1>1, <1>2, <1>3 DEF DecodersPiece
<1>6. f.n = 0 => DecodersStraight(gn, d)
  BY <1>1, <1>2 DEF DecodersStraight
<1> QED
  BY <1>3, <1>4, <1>5, <1>6 DEF gn, d

LEMMA DecodersPieceGrows ==
    ASSUME NEW cn \in Seq(B!Frames), NEW f \in B!Frames, NEW d \in Seq(Nat),
           DecodersPiece(cn, d, f.id), f.n # 0
    PROVE  LET g == Append(d, Len(cn) + 1) IN
           /\ DecodersPiece(Append(cn, f), g, f.id) /\ B!ToSet(g) = B!ToSet(d) \cup {Len(cn) + 1}
           /\ g \in Seq(Nat) /\ Len(g) = Len(d) + 1
           /\ DecodersStraight(cn, d) /\ f.n % 16 = Len(d) % 16 =>
                DecodersStraight(Append(cn, f), g)
<1> DEFINE i == Len(cn) + 1
           g == Append(d, i)
           gn == Append(cn, f)
<1>1. DOMAIN gn = 1 .. i /\ DOMAIN cn = 1 .. Len(cn) /\ Len(cn) \in Nat /\ gn[i] = f
  OBVIOUS
<1>2. \A k \in DOMAIN cn : gn[k] = cn[k]
  OBVIOUS
<1>3. /\ Len(d) \in Nat /\ Len(g) = Len(d) + 1 /\ g[Len(g)] = i /\ g \in Seq(Nat)
      /\ DOMAIN d = 1 .. Len(d) /\ DOMAIN g = 1 .. Len(d) + 1 /\ \A j \in DOMAIN d : g[j] = d[j]
  BY <1>1
<1>4. \A j \in DOMAIN d : d[j] \in 1 .. Len(cn)
  BY <1>1 DEF DecodersPiece
<1>5. g \in Seq(DOMAIN gn)
  <2>1. DOMAIN cn \subseteq DOMAIN gn /\ i \in DOMAIN gn
    BY <1>1
  <2>2. d \in Seq(DOMAIN cn)
    BY DEF DecodersPiece
  <2>3. d \in Seq(DOMAIN gn)
    BY <2>1, <2>2
  <2> HIDE DEF i, gn
  <2> QED
    BY <2>1, <2>3
<1> HIDE DEF i, g, gn
<1>6. Len(d) >= 1
  BY <1>3 DEF DecodersPiece
<1>7. \A j \in DOMAIN g : j \in DOMAIN d \/ j = Len(d) + 1
  BY <1>3
<1>8. DecodersPiece(gn, g, f.id)
  <2>1. \A j \in DOMAIN g : gn[g[j]].id = f.id
    BY <1>1, <1>2, <1>3, <1>4, <1>7 DEF DecodersPiece
  <2>2. \A j \in DOMAIN g : j > 1 => gn[g[j]].n # 0
    BY <1>1, <1>2, <1>3, <1>4, <1>7 DEF DecodersPiece
  <2>3. ASSUME NEW j \in DOMAIN g, NEW k \in DOMAIN g, j < k PROVE g[j] < g[k]
    <3>1. j \in DOMAIN d /\ g[j] = d[j]
      BY <2>3, <1>3, <1>7
    <3>2. CASE k \in DOMAIN d
      BY <3>1, <3>2, <2>3, <1>3 DEF DecodersPiece
    <3>3. CASE k = Len(d) + 1
      <4>1. g[k] = Len(cn) + 1
        BY <3>3, <1>3 DEF i
      <4>2. d[j] \in 1 .. Len(cn)
        BY <3>1, <1>4
      <4> QED
        BY <3>1, <4>1, <4>2, <1>1
    <3> QED
      BY <3>2, <3>3, <1>7
  <2>4. g # <<>>
    BY <1>3
  <2> QED
    BY <1>5, <2>1, <2>2, <2>3, <2>4 DEF DecodersPiece
<1>9. B!ToSet(g) = B!ToSet(d) \cup {i}
  <2>1. \A x \in B!ToSet(g) : x \in B!ToSet(d) \/ x = i
    BY <1>3, <1>7 DEF B!ToSet
  <2>2. \A x \in B!ToSet(d) : x \in B!ToSet(g)
    BY <1>3 DEF B!ToSet
  <2>3. i \in B!ToSet(g)
    BY <1>3 DEF B!ToSet
  <2> QED
    BY <2>1, <2>2, <2>3
<1>10. ASSUME DecodersStraight(cn, d), f.n % 16 = Len(d) % 16 PROVE DecodersStraight(gn, g)
  <2> SUFFICES ASSUME NEW j \in DOMAIN g PROVE gn[g[j]].n % 16 = (j - 1) % 16
    BY DEF DecodersStraight
  <2>1. CASE j \in DOMAIN d
    BY <2>1, <1>1, <1>2, <1>3, <1>4, <1>10 DEF DecodersStraight
  <2>2. CASE j = Len(d) + 1
    <3>1. g[j] = i /\ gn[i] = f /\ j - 1 = Len(d)
      BY <2>2, <1>1, <1>3
    <3> QED
      BY <3>1, <1>10
  <2> QED
    BY <2>1, <2>2, <1>7
<1> QED
  BY <1>3, <1>8, <1>9, <1>10 DEF i, g, gn

LEMMA DecodersGoodStay ==
    ASSUME NEW cn \in Seq(B!Frames), NEW f \in B!Frames
    PROVE  /\ \A s, e : DecodersGoodEntry(cn, s, e) =>
                 DecodersGoodEntry(Append(cn, f), s, e) /\ Len(cn) + 1 \notin B!ToSet(e.data)
           /\ \A m : DecodersGoodReport(cn, m) =>
                 DecodersGoodReport(Append(cn, f), m) /\ Len(cn) + 1 \notin B!ToSet(m.data)
  BY DecodersPieceStays DEF DecodersGoodEntry, DecodersGoodReport

\* The number after the next.
LEMMA DecodersNextNumber ==
    ASSUME NEW k \in Nat
    PROVE  k % 16 \in 0 .. 15 /\ ((k % 16) + 1) % 16 \in 0 .. 15 /\
           ((k % 16) + 1) % 16 = (k + 1) % 16
  OBVIOUS

-----------------------------------------------------------------------------
LEMMA DecodersInitIInv == ASSUME B!Constants PROVE B!Init => DecodersIInv
<1> SUFFICES ASSUME B!Init PROVE DecodersIInv
  OBVIOUS
<1>1. DecodersTypedBus
  <2>1. Len(Bodies) \in Nat /\ \A k \in 1 .. Len(Bodies) : Bodies[k] \in Nat \ {0}
    BY DEF B!Constants
  <2>2. \A s \in Senders : onBus[s] = [msg |-> 1, n |-> 0]
    BY DEF B!Init
  <2>3. onBus \in [Senders -> [msg : 1 .. Len(Bodies) + 1, n : Nat]]
    BY <2>1 DEF B!Init
  <2>4. \A s \in Senders : onBus[s].msg <= Len(Bodies) => onBus[s].n < Bodies[onBus[s].msg]
    BY <2>1, <2>2
  <2>5. DOMAIN groups = {} /\ delayed = {} /\ seen \in Seq(B!Frames)
    BY DEF B!Init
  <2>6. noise \in 0 .. MaxFaults
    BY DEF B!Init, B!Constants
  <2>7. done \in BOOLEAN
    BY DEF B!Init
  <2> QED
    BY <2>3, <2>4, <2>5, <2>6, <2>7 DEF DecodersTypedBus
<1>2. DOMAIN pending = {} /\ DOMAIN seen = {} /\ messages = {}
  BY DEF B!Init
<1> QED
  BY <1>1, <1>2 DEF DecodersIInv, DecodersAccounted, DecodersPlaced, DecodersApart

\* What the decoder takes in, one lemma for each branch of reassemble.
LEMMA DecodersReportAdded ==
    ASSUME NEW cn \in Seq(B!Frames), NEW f \in B!Frames, NEW p, NEW ms,
           DecodersAccounted(cn, p, ms),
           NEW m, DecodersGoodReport(Append(cn, f), m), B!ToSet(m.data) = {Len(cn) + 1}
    PROVE  DecodersAccounted(Append(cn, f), p, ms \cup {m})
<1> DEFINE gn == Append(cn, f)
           i == Len(cn) + 1
<1>1. DOMAIN gn = DOMAIN cn \cup {i}
  OBVIOUS
<1>2. \A s \in DOMAIN p : DecodersGoodEntry(gn, s, p[s]) /\ i \notin B!ToSet(p[s].data)
  BY DecodersGoodStay DEF DecodersAccounted
<1>3. \A o \in ms : DecodersGoodReport(gn, o) /\ i \notin B!ToSet(o.data)
  BY DecodersGoodStay DEF DecodersAccounted
<1> HIDE DEF gn, i
<1>4. DecodersPlaced(gn, p, ms \cup {m})
  BY <1>1 DEF DecodersAccounted, DecodersPlaced, i
<1>5. DecodersApart(p, ms \cup {m})
  <2>1. B!ToSet(m.data) = {i}
    BY DEF i
  <2> QED
    BY <2>1, <1>2, <1>3 DEF DecodersAccounted, DecodersApart
<1> QED
  BY <1>2, <1>3, <1>4, <1>5 DEF DecodersAccounted, gn

LEMMA DecodersSingleFrameKeeps ==
    ASSUME B!Constants, DecodersIInv, NEW f \in B!Frames, B!SingleFrame(f, Len(seen) + 1), f.n = 0
    PROVE  DecodersAccounted(Append(seen, f), pending', messages')
<1> DEFINE m == B!Message(f.id, <<Len(seen) + 1>>, TRUE, FALSE)
<1>1. seen \in Seq(B!Frames) /\ DecodersAccounted(seen, pending, messages)
  BY DEF DecodersIInv, DecodersTypedBus
<1>2. DecodersGoodReport(Append(seen, f), m) /\ B!ToSet(m.data) = {Len(seen) + 1}
  BY <1>1, DecodersPieceBegins DEF DecodersGoodReport, B!Message, DecodersReports, B!Frames
<1>3. messages' = messages \cup {m} /\ pending' = pending
  BY DEF B!SingleFrame
<1> HIDE DEF m
<1> QED
  BY <1>1, <1>2, <1>3, DecodersReportAdded

LEMMA DecodersOrphanKeeps ==
    ASSUME B!Constants, DecodersIInv, NEW f \in B!Frames, B!Orphan(f, Len(seen) + 1)
    PROVE  DecodersAccounted(Append(seen, f), pending', messages')
<1> DEFINE m == B!Message(f.id, <<Len(seen) + 1>>, FALSE, TRUE)
<1>1. seen \in Seq(B!Frames) /\ DecodersAccounted(seen, pending, messages)
  BY DEF DecodersIInv, DecodersTypedBus
<1>2. DecodersGoodReport(Append(seen, f), m) /\ B!ToSet(m.data) = {Len(seen) + 1}
  BY <1>1, DecodersPieceBegins DEF DecodersGoodReport, B!Message, DecodersReports, B!Frames
<1>3. messages' = messages \cup {m} /\ pending' = pending
  BY DEF B!Orphan
<1> HIDE DEF m
<1> QED
  BY <1>1, <1>2, <1>3, DecodersReportAdded

\* Pending entries belong to different ids, so they share no frame.
LEMMA DecodersEntriesApart ==
    ASSUME NEW cn \in Seq(B!Frames), NEW s, NEW e, DecodersGoodEntry(cn, s, e),
           NEW t, NEW g, DecodersGoodEntry(cn, t, g), s # t
    PROVE  B!ToSet(e.data) \cap B!ToSet(g.data) = {}
  BY DEF DecodersGoodEntry, DecodersPiece, B!ToSet

\* An entry that is closed becomes a report of the same frames.
LEMMA DecodersClosing ==
    ASSUME NEW cn \in Seq(B!Frames), NEW s, NEW e, DecodersGoodEntry(cn, s, e)
    PROVE  /\ DecodersGoodReport(cn, B!Message(s, e.data, FALSE, TRUE))
           /\ DecodersGoodReport(cn, B!Message(s, e.data, TRUE, e.problems))
  BY DEF DecodersGoodEntry, DecodersGoodReport, B!Message, DecodersReports, DecodersEntries

LEMMA DecodersFirstFrameKeeps ==
    ASSUME B!Constants, DecodersIInv, NEW f \in B!Frames, B!FirstFrame(f, Len(seen) + 1)
    PROVE  DecodersAccounted(Append(seen, f), pending', messages')
<1> DEFINE gn == Append(seen, f)
           i == Len(seen) + 1
           e == B!Begun(f, i)
           old == B!Unfinished({f.id} \cap DOMAIN pending)
<1>1. seen \in Seq(B!Frames) /\ DecodersAccounted(seen, pending, messages)
  BY DEF DecodersIInv, DecodersTypedBus
<1>2. DOMAIN gn = DOMAIN seen \cup {i}
  BY <1>1
<1>3. DecodersGoodEntry(gn, f.id, e) /\ B!ToSet(e.data) = {i}
  <2>1. Bodies[f.msg] \in Nat
    BY DEF B!Constants, B!Frames
  <2>2. Len(<<i>>) = 1 /\ 1 % 16 = 1
    OBVIOUS
  <2>3. f.n = 0 /\ f.id \in Senders
    BY DEF B!FirstFrame, B!First, B!Frames
  <2>4. e = [declared |-> Bodies[f.msg], data |-> <<i>>, next |-> 1, problems |-> FALSE]
    BY DEF B!Begun
  <2>5. DecodersPiece(gn, <<i>>, f.id) /\ B!ToSet(<<i>>) = {i} /\ <<i>> \in Seq(Nat) /\
        DecodersStraight(gn, <<i>>)
    BY <2>3, <1>1, DecodersPieceBegins
  <2> HIDE DEF e, gn, i
  <2> QED
    BY <2>1, <2>2, <2>3, <2>4, <2>5 DEF DecodersGoodEntry, DecodersEntries
<1>4. \A s \in DOMAIN pending :
      DecodersGoodEntry(gn, s, pending[s]) /\ i \notin B!ToSet(pending[s].data)
  BY <1>1, DecodersGoodStay DEF DecodersAccounted
<1>5. \A o \in messages : DecodersGoodReport(gn, o) /\ i \notin B!ToSet(o.data)
  BY <1>1, DecodersGoodStay DEF DecodersAccounted
<1>6. /\ messages' = messages \cup old
      /\ DOMAIN pending' = DOMAIN pending \cup {f.id} /\ pending'[f.id] = e
      /\ \A s \in DOMAIN pending \ {f.id} : pending'[s] = pending[s]
  BY DEF B!FirstFrame, B!With
<1>7. gn \in Seq(B!Frames)
  BY <1>1
<1>8. DecodersPlaced(seen, pending, messages) /\ DecodersApart(pending, messages)
  BY <1>1 DEF DecodersAccounted
<1> HIDE DEF gn, i, e
<1>9. \A s \in DOMAIN pending' : DecodersGoodEntry(gn, s, pending'[s])
  BY <1>3, <1>4, <1>6
<1>10. CASE f.id \notin DOMAIN pending
  <2>1. messages' = messages
    BY <1>6, <1>10 DEF B!Unfinished
  <2>2. \A s \in DOMAIN pending : pending'[s] = pending[s]
    BY <1>6, <1>10
  <2>3. DecodersPlaced(gn, pending', messages')
    BY <2>1, <2>2, <1>2, <1>3, <1>6, <1>8 DEF DecodersPlaced
  <2>4. \A o \in messages : B!ToSet(o.data) \cap B!ToSet(e.data) = {}
    BY <1>3, <1>5
  <2>5. DecodersApart(pending', messages')
    BY <2>1, <2>2, <2>4, <1>6, <1>8 DEF DecodersApart
  <2> QED
    BY <2>1, <2>3, <2>5, <1>5, <1>9 DEF DecodersAccounted, gn
<1>11. CASE f.id \in DOMAIN pending
  <2> DEFINE m == B!Message(f.id, pending[f.id].data, FALSE, TRUE)
  <2>1. messages' = messages \cup {m}
    BY <1>6, <1>11 DEF B!Unfinished
  <2>2. DecodersGoodReport(gn, m) /\ m.data = pending[f.id].data
    <3>1. DecodersGoodEntry(gn, f.id, pending[f.id])
      BY <1>4, <1>11
    <3>2. m.data = pending[f.id].data
      BY DEF B!Message
    <3> QED
      BY <3>1, <3>2, <1>7, DecodersClosing
  <2> HIDE DEF m
  <2>3. DecodersPlaced(gn, pending', messages')
    <3> SUFFICES ASSUME NEW k \in DOMAIN gn
                 PROVE  \/ \E o \in messages' : k \in B!ToSet(o.data)
                        \/ \E s \in DOMAIN pending' : k \in B!ToSet(pending'[s].data)
      BY DEF DecodersPlaced
    <3>1. CASE k = i
      BY <3>1, <1>3, <1>6
    <3>2. CASE k \in DOMAIN seen
      <4>1. CASE \E o \in messages : k \in B!ToSet(o.data)
        BY <4>1, <2>1
      <4>2. CASE \E s \in DOMAIN pending : k \in B!ToSet(pending[s].data)
        BY <4>2, <2>1, <2>2, <1>6
      <4> QED
        BY <4>1, <4>2, <3>2, <1>8 DEF DecodersPlaced
    <3> QED
      BY <3>1, <3>2, <1>2
  <2>4. DecodersApart(pending', messages')
    <3>1. \A o \in messages : B!ToSet(o.data) \cap B!ToSet(m.data) = {}
      BY <2>2, <1>8, <1>11 DEF DecodersApart
    <3>2. \A s \in DOMAIN pending \ {f.id} : B!ToSet(m.data) \cap B!ToSet(pending'[s].data) = {}
      BY <2>2, <1>4, <1>6, <1>7, <1>11, DecodersEntriesApart
    <3>3. B!ToSet(m.data) \cap B!ToSet(pending'[f.id].data) = {}
      BY <2>2, <1>3, <1>4, <1>6, <1>11
    <3>4. \A o \in messages' : \A s \in DOMAIN pending' :
          B!ToSet(o.data) \cap B!ToSet(pending'[s].data) = {}
      BY <3>2, <3>3, <2>1, <1>3, <1>5, <1>6, <1>8 DEF DecodersApart
    <3>5. \A o, q \in messages' : o # q => B!ToSet(o.data) \cap B!ToSet(q.data) = {}
      BY <3>1, <2>1, <1>8 DEF DecodersApart
    <3> QED
      BY <3>4, <3>5 DEF DecodersApart
  <2> QED
    BY <2>1, <2>2, <2>3, <2>4, <1>5, <1>9 DEF DecodersAccounted, gn
<1> QED
  BY <1>10, <1>11

LEMMA DecodersConsecutiveFrameKeeps ==
    ASSUME B!Constants, DecodersIInv, NEW f \in B!Frames, B!ConsecutiveFrame(f, Len(seen) + 1)
    PROVE  DecodersAccounted(Append(seen, f), pending', messages')
<1> DEFINE gn == Append(seen, f)
           i == Len(seen) + 1
           h == pending[f.id]
           e == B!Extended(h, f, i)
<1>1. seen \in Seq(B!Frames) /\ DecodersAccounted(seen, pending, messages) /\
      f.id \in DOMAIN pending
  BY DEF DecodersIInv, DecodersTypedBus, B!ConsecutiveFrame
<1>2. DOMAIN gn = DOMAIN seen \cup {i} /\ gn \in Seq(B!Frames)
  BY <1>1
<1>3. /\ e.declared = h.declared /\ e.data = Append(h.data, i) /\ e.next = ((f.n % 16) + 1) % 16
      /\ e.problems = (h.problems \/ f.n % 16 # h.next)
  <2>1. DecodersGoodEntry(seen, f.id, h)
    BY <1>1 DEF DecodersAccounted
  <2>2. h \in DecodersEntries
    BY <2>1 DEF DecodersGoodEntry
  <2> QED
    BY <2>2 DEF B!Extended, B!SeqNo, DecodersEntries
<1>4. DecodersGoodEntry(gn, f.id, e) /\ B!ToSet(e.data) = B!ToSet(h.data) \cup {i}
  <2>1. DecodersGoodEntry(seen, f.id, h)
    BY <1>1 DEF DecodersAccounted
  <2>2. h \in DecodersEntries /\ h.data \in Seq(Nat) /\ DecodersPiece(seen, h.data, f.id) /\
        Len(h.data) \in Nat
    BY <2>1 DEF DecodersGoodEntry, DecodersEntries
  <2>3. f.n # 0 /\ f.n \in Nat
    BY DEF B!ConsecutiveFrame, B!Frames
  <2>4. /\ DecodersPiece(gn, e.data, f.id) /\ B!ToSet(e.data) = B!ToSet(h.data) \cup {i}
        /\ e.data \in Seq(Nat) /\ Len(e.data) = Len(h.data) + 1
        /\ DecodersStraight(seen, h.data) /\ f.n % 16 = Len(h.data) % 16 =>
             DecodersStraight(gn, e.data)
    BY <2>2, <2>3, <1>1, <1>3, DecodersPieceGrows
  <2>5. e.next \in 0 .. 15
    BY <1>3, <2>3, DecodersNextNumber
  <2>6. e \in DecodersEntries
    <3>1. e = [h EXCEPT !.problems = h.problems \/ f.n % 16 # h.next,
                        !.next = ((f.n % 16) + 1) % 16, !.data = Append(h.data, i)]
      BY DEF B!Extended, B!SeqNo
    <3> HIDE DEF e, h
    <3> QED
      BY <3>1, <2>2, <2>4, <2>5, <1>3 DEF DecodersEntries
  <2>7. ASSUME ~e.problems PROVE DecodersStraight(gn, e.data) /\ e.next = Len(e.data) % 16
    <3>1. ~h.problems /\ f.n % 16 = h.next
      BY <2>7, <1>3
    <3>2. DecodersStraight(seen, h.data) /\ h.next = Len(h.data) % 16
      BY <3>1, <2>1 DEF DecodersGoodEntry
    <3>3. ((Len(h.data) % 16) + 1) % 16 = (Len(h.data) + 1) % 16
      BY <2>2, DecodersNextNumber
    <3> QED
      BY <3>1, <3>2, <3>3, <2>4, <1>3
  <2>8. f.id \in Senders
    BY DEF B!Frames
  <2> HIDE DEF e, gn, h, i
  <2> QED
    BY <2>4, <2>6, <2>7, <2>8 DEF DecodersGoodEntry
<1>5. \A s \in DOMAIN pending :
      DecodersGoodEntry(gn, s, pending[s]) /\ i \notin B!ToSet(pending[s].data)
  BY <1>1, DecodersGoodStay DEF DecodersAccounted
<1>6. \A o \in messages : DecodersGoodReport(gn, o) /\ i \notin B!ToSet(o.data)
  BY <1>1, DecodersGoodStay DEF DecodersAccounted
<1>7. DecodersPlaced(seen, pending, messages) /\ DecodersApart(pending, messages)
  BY <1>1 DEF DecodersAccounted
<1>8. \/ /\ pending' = B!Without(pending, f.id)
         /\ messages' = messages \cup {B!Message(f.id, e.data, TRUE, e.problems)}
      \/ pending' = B!With(pending, f.id, e) /\ messages' = messages
  BY DEF B!ConsecutiveFrame
<1> HIDE DEF gn, i, e, h
<1>9. \A o \in messages : B!ToSet(o.data) \cap B!ToSet(e.data) = {}
  <2>1. \A o \in messages : B!ToSet(o.data) \cap B!ToSet(h.data) = {}
    BY <1>1, <1>7 DEF DecodersApart, h
  <2> QED
    BY <2>1, <1>4, <1>6
<1>10. \A s \in DOMAIN pending \ {f.id} : B!ToSet(pending[s].data) \cap B!ToSet(e.data) = {}
  BY <1>2, <1>4, <1>5, DecodersEntriesApart
<1>11. CASE pending' = B!With(pending, f.id, e) /\ messages' = messages
  <2>1. /\ DOMAIN pending' = DOMAIN pending /\ pending'[f.id] = e
        /\ \A s \in DOMAIN pending \ {f.id} : pending'[s] = pending[s]
    BY <1>11, <1>1 DEF B!With
  <2>2. \A s \in DOMAIN pending' : DecodersGoodEntry(gn, s, pending'[s])
    BY <2>1, <1>4, <1>5
  <2>3. DecodersPlaced(gn, pending', messages')
    <3> SUFFICES ASSUME NEW k \in DOMAIN gn
                 PROVE  \/ \E o \in messages' : k \in B!ToSet(o.data)
                        \/ \E s \in DOMAIN pending' : k \in B!ToSet(pending'[s].data)
      BY DEF DecodersPlaced
    <3>1. CASE k = i
      BY <3>1, <2>1, <1>1, <1>4
    <3>2. CASE k \in DOMAIN seen
      <4>1. CASE \E o \in messages : k \in B!ToSet(o.data)
        BY <4>1, <1>11
      <4>2. CASE \E s \in DOMAIN pending : k \in B!ToSet(pending[s].data)
        BY <4>2, <2>1, <1>1, <1>4 DEF h
      <4> QED
        BY <4>1, <4>2, <3>2, <1>7 DEF DecodersPlaced
    <3> QED
      BY <3>1, <3>2, <1>2
  <2>4. DecodersApart(pending', messages')
    BY <2>1, <1>7, <1>9, <1>11 DEF DecodersApart
  <2> QED
    BY <2>2, <2>3, <2>4, <1>6, <1>11 DEF DecodersAccounted, gn
<1>12. CASE /\ pending' = B!Without(pending, f.id)
            /\ messages' = messages \cup {B!Message(f.id, e.data, TRUE, e.problems)}
  <2> DEFINE m == B!Message(f.id, e.data, TRUE, e.problems)
  <2>1. /\ DOMAIN pending' = DOMAIN pending \ {f.id}
        /\ \A s \in DOMAIN pending' : pending'[s] = pending[s]
        /\ messages' = messages \cup {m}
    BY <1>12 DEF B!Without
  <2>2. DecodersGoodReport(gn, m) /\ m.data = e.data
    <3>1. m.data = e.data
      BY DEF B!Message
    <3> QED
      BY <3>1, <1>2, <1>4, DecodersClosing
  <2> HIDE DEF m
  <2>3. DecodersPlaced(gn, pending', messages')
    <3> SUFFICES ASSUME NEW k \in DOMAIN gn
                 PROVE  \/ \E o \in messages' : k \in B!ToSet(o.data)
                        \/ \E s \in DOMAIN pending' : k \in B!ToSet(pending'[s].data)
      BY DEF DecodersPlaced
    <3>1. CASE k = i
      BY <3>1, <2>1, <2>2, <1>4
    <3>2. CASE k \in DOMAIN seen
      <4>1. CASE \E o \in messages : k \in B!ToSet(o.data)
        BY <4>1, <2>1
      <4>2. CASE \E s \in DOMAIN pending : k \in B!ToSet(pending[s].data)
        BY <4>2, <2>1, <2>2, <1>4 DEF h
      <4> QED
        BY <4>1, <4>2, <3>2, <1>7 DEF DecodersPlaced
    <3> QED
      BY <3>1, <3>2, <1>2
  <2>4. DecodersApart(pending', messages')
    BY <2>1, <2>2, <1>7, <1>9, <1>10 DEF DecodersApart
  <2> QED
    BY <2>1, <2>2, <2>3, <2>4, <1>5, <1>6 DEF DecodersAccounted, gn
<1> QED
  BY <1>8, <1>11, <1>12

LEMMA DecodersCaptureKeeps ==
    ASSUME B!Constants, DecodersIInv, NEW f \in B!Frames, B!Capture(f), f.n < Bodies[f.msg]
    PROVE  seen' \in Seq(B!Frames) /\ DecodersAccounted(seen', pending', messages')
<1>1. seen' = Append(seen, f) /\ seen \in Seq(B!Frames)
  BY DEF B!Capture, DecodersIInv, DecodersTypedBus
<1>2. \/ B!SingleFrame(f, Len(seen) + 1) \/ B!FirstFrame(f, Len(seen) + 1)
      \/ B!Orphan(f, Len(seen) + 1) \/ B!ConsecutiveFrame(f, Len(seen) + 1)
  BY DEF B!Capture
<1>3. B!Single(f) => f.n = 0
  BY DEF B!Single, B!Frames
<1>4. DecodersAccounted(Append(seen, f), pending', messages')
  BY <1>2, <1>3, DecodersSingleFrameKeeps, DecodersFirstFrameKeeps, DecodersOrphanKeeps,
     DecodersConsecutiveFrameKeeps DEF B!SingleFrame
<1> QED
  BY <1>1, <1>4

-----------------------------------------------------------------------------
\* The next frame of each sender, and what is left for the one after it.
LEMMA DecodersUpcomes ==
    ASSUME B!Constants, DecodersIInv, NEW s \in Senders, onBus[s].msg <= Len(Bodies)
    PROVE  B!Upcoming(s) \in B!Frames /\ B!Upcoming(s).n < Bodies[B!Upcoming(s).msg]
<1>1. onBus[s].msg \in 1 .. Len(Bodies) + 1 /\ onBus[s].n \in Nat
  BY DEF DecodersIInv, DecodersTypedBus
<1>2. DOMAIN Bodies = 1 .. Len(Bodies) /\ Len(Bodies) \in Nat
  BY DEF B!Constants
<1> QED
  BY <1>1, <1>2 DEF B!Upcoming, B!Frames, DecodersIInv, DecodersTypedBus

DecodersBused(ob) ==
    /\ ob \in [Senders -> [msg : 1 .. Len(Bodies) + 1, n : Nat]]
    /\ \A s \in Senders : ob[s].msg <= Len(Bodies) => ob[s].n < Bodies[ob[s].msg]

LEMMA DecodersTransmitKeeps ==
    ASSUME B!Constants, DecodersIInv, NEW s \in Senders, B!Transmit(s)
    PROVE  DecodersBused(onBus')
<1> DEFINE o == onBus[s]
           w == B!After(o)
<1>1. Len(Bodies) \in Nat /\ \A k \in 1 .. Len(Bodies) : Bodies[k] \in Nat \ {0}
  BY DEF B!Constants
<1>2. onBus \in [Senders -> [msg : 1 .. Len(Bodies) + 1, n : Nat]] /\ o.msg <= Len(Bodies)
  BY DEF DecodersIInv, DecodersTypedBus, B!Transmit, B!Sending
<1>3. o \in [msg : 1 .. Len(Bodies) + 1, n : Nat] /\ o.msg \in 1 .. Len(Bodies) /\ o.n \in Nat
  BY <1>1, <1>2
<1>4. onBus' = [onBus EXCEPT ![s] = w]
  BY DEF B!Transmit
<1> HIDE DEF o
<1>5. /\ w \in [msg : 1 .. Len(Bodies) + 1, n : Nat]
      /\ w.msg <= Len(Bodies) => w.n < Bodies[w.msg]
  <2>1. CASE o.n + 1 < Bodies[o.msg]
    <3>1. w = [o EXCEPT !.n = o.n + 1]
      BY <2>1 DEF B!After
    <3> QED
      BY <3>1, <2>1, <1>3
  <2>2. CASE ~(o.n + 1 < Bodies[o.msg])
    <3>1. w = [msg |-> o.msg + 1, n |-> 0]
      BY <2>2 DEF B!After
    <3>2. o.msg + 1 \in 1 .. Len(Bodies) + 1
      BY <1>1, <1>3
    <3> HIDE DEF w
    <3> QED
      BY <3>1, <3>2, <1>1
  <2> QED
    BY <2>1, <2>2
<1> HIDE DEF w
<1>6. onBus' \in [Senders -> [msg : 1 .. Len(Bodies) + 1, n : Nat]]
  BY <1>2, <1>4, <1>5
<1>7. \A t \in Senders : onBus'[t] = (IF t = s THEN w ELSE onBus[t])
  BY <1>2, <1>4
<1> QED
  BY <1>5, <1>6, <1>7 DEF DecodersBused, DecodersIInv, DecodersTypedBus

LEMMA DecodersFaultyKeeps ==
    ASSUME B!Constants, DecodersIInv, B!Faulty
    PROVE  noise' \in 0 .. MaxFaults
  BY DEF B!Constants, DecodersIInv, DecodersTypedBus, B!Faulty

LEMMA DecodersOtherKeeps ==
    ASSUME B!Constants, DecodersIInv, NEW i \in OtherIds, B!Other(i)
    PROVE  DecodersIInv'
<1>1. B!Pgn(i) \in (0 .. 255) \X (0 .. 255)
  <2>1. i.pf \in 0 .. 255 /\ (IF i.pf >= 240 THEN i.ps ELSE 0) \in 0 .. 255
    BY DEF B!Constants
  <2> QED
    BY <2>1 DEF B!Pgn
<1>2. DOMAIN groups' = DOMAIN groups \cup {B!Pgn(i)}
  BY DEF B!Other, B!With
<1>3. UNCHANGED <<onBus, delayed, seen, pending, messages, noise, done>>
  BY DEF B!Other
<1> QED
  BY <1>1, <1>2, <1>3 DEF DecodersIInv, DecodersTypedBus

LEMMA DecodersFinishKeeps == ASSUME B!Constants, DecodersIInv, B!Finish PROVE DecodersIInv'
<1> DEFINE new == B!Unfinished(DOMAIN pending)
<1>1. /\ messages' = messages \cup new /\ DOMAIN pending' = {} /\ done' = TRUE
      /\ UNCHANGED <<onBus, delayed, seen, groups, noise>>
  BY DEF B!Finish
<1>2. DecodersTypedBus'
  BY <1>1 DEF DecodersIInv, DecodersTypedBus
<1>3. seen \in Seq(B!Frames) /\ DecodersAccounted(seen, pending, messages)
  BY DEF DecodersIInv, DecodersTypedBus
<1>4. \A m \in new : \E s \in DOMAIN pending :
         m = B!Message(s, pending[s].data, FALSE, TRUE) /\ m.data = pending[s].data
  BY DEF B!Unfinished, B!Message
<1>5. \A s \in DOMAIN pending : \E m \in new : m.data = pending[s].data
  <2> SUFFICES ASSUME NEW s \in DOMAIN pending PROVE \E m \in new : m.data = pending[s].data
    OBVIOUS
  <2>1. B!Message(s, pending[s].data, FALSE, TRUE) \in new
    BY DEF B!Unfinished
  <2>2. B!Message(s, pending[s].data, FALSE, TRUE).data = pending[s].data
    BY DEF B!Message
  <2> HIDE DEF new
  <2> QED
    BY <2>1, <2>2
<1>6. \A s \in DOMAIN pending : DecodersGoodEntry(seen, s, pending[s])
  BY <1>3 DEF DecodersAccounted
<1> HIDE DEF new
<1>7. \A m \in messages' : DecodersGoodReport(seen, m)
  <2>1. \A m \in new : DecodersGoodReport(seen, m)
    <3> SUFFICES ASSUME NEW m \in new PROVE DecodersGoodReport(seen, m)
      OBVIOUS
    <3>1. PICK s \in DOMAIN pending : m = B!Message(s, pending[s].data, FALSE, TRUE)
      BY <1>4
    <3>2. DecodersGoodEntry(seen, s, pending[s])
      BY <1>6
    <3> QED
      BY <3>1, <3>2, <1>3, DecodersClosing
  <2> QED
    BY <2>1, <1>1, <1>3 DEF DecodersAccounted
<1>8. DecodersPlaced(seen, pending', messages')
  BY <1>1, <1>3, <1>5 DEF DecodersAccounted, DecodersPlaced
<1>9. DecodersApart(pending', messages')
  <2>1. \A m \in messages, o \in new : B!ToSet(m.data) \cap B!ToSet(o.data) = {}
    BY <1>3, <1>4 DEF DecodersAccounted, DecodersApart
  <2>2. ASSUME NEW m \in new, NEW o \in new, m # o PROVE B!ToSet(m.data) \cap B!ToSet(o.data) = {}
    <3>1. PICK s \in DOMAIN pending :
             m = B!Message(s, pending[s].data, FALSE, TRUE) /\ m.data = pending[s].data
      BY <1>4
    <3>2. PICK t \in DOMAIN pending :
             o = B!Message(t, pending[t].data, FALSE, TRUE) /\ o.data = pending[t].data
      BY <1>4
    <3>3. s # t
      BY <3>1, <3>2, <2>2
    <3>4. DecodersGoodEntry(seen, s, pending[s]) /\ DecodersGoodEntry(seen, t, pending[t])
      BY <1>6
    <3>5. B!ToSet(pending[s].data) \cap B!ToSet(pending[t].data) = {}
      BY <3>3, <3>4, <1>3, DecodersEntriesApart
    <3> QED
      BY <3>1, <3>2, <3>5
  <2> QED
    BY <2>1, <2>2, <1>1, <1>3 DEF DecodersAccounted, DecodersApart
<1>10. \A s \in DOMAIN pending' : DecodersGoodEntry(seen, s, pending'[s])
  BY <1>1
<1> QED
  BY <1>1, <1>2, <1>7, <1>8, <1>9, <1>10 DEF DecodersIInv, DecodersAccounted

LEMMA DecodersStepIInv ==
    ASSUME B!Constants
    PROVE  DecodersIInv /\ [B!Next]_(B!vars) => DecodersIInv'
<1> SUFFICES ASSUME DecodersIInv, [B!Next]_(B!vars) PROVE DecodersIInv'
  OBVIOUS
<1>1. DecodersBused(onBus)
  BY DEF DecodersIInv, DecodersTypedBus, DecodersBused
<1>2. ASSUME NEW s \in Senders, B!Arrive(s) PROVE DecodersIInv'
  <2>1. B!Upcoming(s) \in B!Frames /\ B!Upcoming(s).n < Bodies[B!Upcoming(s).msg]
    BY <1>2, DecodersUpcomes DEF B!Arrive, B!Transmit, B!Sending
  <2>2. DecodersBused(onBus') /\ seen' \in Seq(B!Frames) /\
        DecodersAccounted(seen', pending', messages')
    BY <1>2, <2>1, DecodersTransmitKeeps, DecodersCaptureKeeps DEF B!Arrive
  <2>3. done = FALSE /\ UNCHANGED <<delayed, noise, groups, done>>
    BY <1>2 DEF B!Arrive, B!Transmit, B!Sending, DecodersIInv, DecodersTypedBus
  <2> QED
    BY <2>2, <2>3 DEF DecodersIInv, DecodersTypedBus, DecodersBused
<1>3. ASSUME NEW s \in Senders, B!Lose(s) PROVE DecodersIInv'
  <2>1. DecodersBused(onBus') /\ noise' \in 0 .. MaxFaults
    BY <1>3, DecodersTransmitKeeps, DecodersFaultyKeeps DEF B!Lose
  <2>2. UNCHANGED <<delayed, seen, pending, messages, groups, done>>
    BY <1>3 DEF B!Lose, B!Transmit
  <2> QED
    BY <2>1, <2>2 DEF DecodersIInv, DecodersTypedBus, DecodersBused
<1>4. ASSUME NEW s \in Senders, B!Repeat(s) PROVE DecodersIInv'
  <2>1. B!Upcoming(s) \in B!Frames /\ B!Upcoming(s).n < Bodies[B!Upcoming(s).msg]
    BY <1>4, DecodersUpcomes DEF B!Repeat, B!Sending
  <2>2. /\ noise' \in 0 .. MaxFaults /\ seen' \in Seq(B!Frames)
        /\ DecodersAccounted(seen', pending', messages')
    BY <1>4, <2>1, DecodersFaultyKeeps, DecodersCaptureKeeps DEF B!Repeat
  <2>3. done = FALSE /\ UNCHANGED <<onBus, delayed, groups, done>>
    BY <1>4 DEF B!Repeat, B!Sending, DecodersIInv, DecodersTypedBus
  <2> QED
    BY <2>2, <2>3 DEF DecodersIInv, DecodersTypedBus
<1>5. ASSUME NEW s \in Senders, B!Delay(s) PROVE DecodersIInv'
  <2>1. B!Upcoming(s) \in B!Frames /\ B!Upcoming(s).n < Bodies[B!Upcoming(s).msg]
    BY <1>5, DecodersUpcomes DEF B!Delay, B!Transmit, B!Sending
  <2>2. DecodersBused(onBus') /\ noise' \in 0 .. MaxFaults
    BY <1>5, DecodersTransmitKeeps, DecodersFaultyKeeps DEF B!Delay
  <2>3. delayed' = {B!Upcoming(s)} /\ UNCHANGED <<seen, pending, messages, groups, done>>
    BY <1>5 DEF B!Delay, B!Transmit
  <2> QED
    BY <2>1, <2>2, <2>3 DEF DecodersIInv, DecodersTypedBus, DecodersBused
<1>6. ASSUME NEW f \in delayed, B!Late(f) PROVE DecodersIInv'
  <2>1. f \in B!Frames /\ f.n < Bodies[f.msg]
    BY DEF DecodersIInv, DecodersTypedBus
  <2>2. seen' \in Seq(B!Frames) /\ DecodersAccounted(seen', pending', messages')
    BY <1>6, <2>1, DecodersCaptureKeeps DEF B!Late
  <2>3. done = FALSE /\ delayed' \subseteq delayed /\ UNCHANGED <<onBus, groups, noise, done>>
    BY <1>6 DEF B!Late, DecodersIInv, DecodersTypedBus
  <2> QED
    BY <2>2, <2>3 DEF DecodersIInv, DecodersTypedBus
<1>7. CASE UNCHANGED B!vars
  BY <1>7 DEF B!vars, DecodersIInv, DecodersTypedBus
<1> QED
  BY <1>2, <1>3, <1>4, <1>5, <1>6, <1>7, DecodersOtherKeeps, DecodersFinishKeeps DEF B!Next

-----------------------------------------------------------------------------
LEMMA DecodersMeansTyped == ASSUME B!Constants, DecodersIInv PROVE B!TypeOK
<1>1. \A s \in DOMAIN pending : DecodersGoodEntry(seen, s, pending[s])
  BY DEF DecodersIInv, DecodersAccounted
<1>2. \A m \in messages : DecodersGoodReport(seen, m)
  BY DEF DecodersIInv, DecodersAccounted
<1>3. \A s \in DOMAIN pending : s \in Senders /\ pending[s] \in
         [declared : Nat, data : Seq(DOMAIN seen), next : 0 .. 15, problems : BOOLEAN]
  BY <1>1 DEF DecodersGoodEntry, DecodersEntries, DecodersPiece
<1>4. \A m \in messages : m \in
         [id : Senders, data : Seq(DOMAIN seen), complete : BOOLEAN, problems : BOOLEAN]
  BY <1>2 DEF DecodersGoodReport, DecodersReports, DecodersPiece
<1> QED
  BY <1>3, <1>4 DEF DecodersIInv, DecodersTypedBus, B!TypeOK

\* A set of ranks has a greatest one.
LEMMA DecodersGreatest ==
    ASSUME NEW T \in SUBSET {0, 1, 2, 4}, NEW r \in T
    PROVE  B!Max(T) >= r
<1>1. \E x \in T : \A y \in T : x >= y
  <2>1. CASE 4 \in T
    BY <2>1
  <2>2. CASE 4 \notin T /\ 2 \in T
    BY <2>2
  <2>3. CASE 4 \notin T /\ 2 \notin T /\ 1 \in T
    BY <2>3
  <2>4. CASE T \subseteq {0}
    BY <2>4
  <2> QED
    BY <2>1, <2>2, <2>3, <2>4
<1> QED
  BY <1>1 DEF B!Max

LEMMA DecodersRanks == \A first : B!Rank(first) \in {0, 1, 2, 4}
  BY DEF B!Rank

LEMMA DecodersMeansHonest == ASSUME B!Constants, DecodersIInv PROVE B!DecodedHonestly
<1>1. /\ seen \in Seq(B!Frames) /\ DecodersPlaced(seen, pending, messages)
      /\ DecodersApart(pending, messages)
      /\ \A s \in DOMAIN pending : DecodersGoodEntry(seen, s, pending[s])
      /\ \A m \in messages : DecodersGoodReport(seen, m)
  BY DEF DecodersIInv, DecodersTypedBus, DecodersAccounted
<1>2. ASSUME NEW i \in DOMAIN seen PROVE B!InOne(i)
  <2>1. CASE \E m \in messages : i \in B!ToSet(m.data)
    <3>1. PICK m \in messages : i \in B!ToSet(m.data)
      BY <2>1
    <3>2. B!Reporting(i) = {m}
      BY <3>1, <1>1 DEF B!Reporting, DecodersApart
    <3>3. B!Waiting(i) = {}
      BY <3>1, <1>1 DEF B!Waiting, DecodersApart
    <3> QED
      BY <3>2, <3>3 DEF B!InOne
  <2>2. CASE ~ \E m \in messages : i \in B!ToSet(m.data)
    <3>1. PICK s \in DOMAIN pending : i \in B!ToSet(pending[s].data)
      BY <2>2, <1>1 DEF DecodersPlaced
    <3>2. \A t \in DOMAIN pending : i \in B!ToSet(pending[t].data) => t = seen[i].id
      BY <1>1 DEF DecodersGoodEntry, DecodersPiece, B!ToSet
    <3>3. B!Waiting(i) = {seen[i].id}
      BY <3>1, <3>2 DEF B!Waiting
    <3>4. B!Reporting(i) = {}
      BY <2>2 DEF B!Reporting
    <3> QED
      BY <3>3, <3>4 DEF B!InOne
  <2> QED
    BY <2>1, <2>2
<1>3. \A m \in messages : B!OfOneId(m)
  BY <1>1 DEF DecodersGoodReport, DecodersPiece, B!OfOneId
<1>4. \A m \in messages : m.complete /\ ~m.problems =>
         \A j \in DOMAIN m.data : B!SeqNo(seen[m.data[j]]) = (j - 1) % 16
  BY <1>1 DEF DecodersGoodReport, DecodersStraight, B!SeqNo
<1>5. ASSUME done, NEW i \in DOMAIN seen, seen[i].n = 0
      PROVE  B!Highest >= B!Rank(Opening[seen[i].msg])
  <2>1. DOMAIN pending = {}
    BY <1>5 DEF DecodersIInv
  <2>2. PICK m \in messages : i \in B!ToSet(m.data)
    BY <2>1, <1>1 DEF DecodersPlaced
  <2>3. PICK j \in DOMAIN m.data : m.data[j] = i
    BY <2>2 DEF B!ToSet
  <2>4. j = 1
    <3>1. DecodersPiece(seen, m.data, m.id)
      BY <1>1 DEF DecodersGoodReport
    <3>2. m.data \in Seq(DOMAIN seen) /\ ~(j > 1)
      BY <3>1, <2>3, <1>5 DEF DecodersPiece
    <3> QED
      BY <3>2, <2>3
  <2>5. B!RankOf(m) = B!Rank(Opening[seen[i].msg])
    BY <2>3, <2>4, <1>5 DEF B!RankOf
  <2> DEFINE T == {0} \cup {B!RankOf(o) : o \in messages}
  <2>6. T \in SUBSET {0, 1, 2, 4}
    BY DecodersRanks DEF B!RankOf
  <2>7. B!RankOf(m) \in T
    OBVIOUS
  <2>8. B!Max(T) >= B!RankOf(m)
    <3> HIDE DEF T
    <3> QED
      BY <2>6, <2>7, DecodersGreatest
  <2> QED
    BY <2>5, <2>8 DEF B!Highest
<1> QED
  BY <1>2, <1>3, <1>4, <1>5 DEF B!DecodedHonestly

-----------------------------------------------------------------------------
(* FlashTools: for any number of overlapping calls, any installed tools and*)
(* any number of contents the firmware file takes.                         *)
FlashStages == {"idle", "planned", "running", "stopping", "done", "refused", "failed",
                "cancelling", "cancelled"}
FlashCalling == [stage : FlashStages, op : F!Operations \cup {None}, tool : F!Known \cup {None},
                 image : BOOLEAN, confirmed : BOOLEAN]
FlashProcess == [alive : BOOLEAN, does : F!Operations \cup {None}, read : Images \cup {None},
                 code : {"ok", "bad"}]

-----------------------------------------------------------------------------
(* The inductive invariant, in named parts.                                *)

FlashTyped ==
    /\ firmware \in Images /\ target \in Images \cup {0, F!Partial, F!Blank}
    /\ call \in [Calls -> FlashCalling]
    /\ hash \in [Calls -> Images \cup {None}]
    /\ proc \in [Calls -> FlashProcess]

\* A call that is past planning has a command, which is the operation it asked
\* for, with the target named or the image hashed.
FlashWellPlanned ==
    \A c \in Calls : call[c].stage \notin {"idle", "refused"} =>
        /\ call[c].op \in F!Operations
        /\ F!Planned(call[c].tool, call[c].op, call[c].image) = call[c].op
        /\ call[c].op = "erase" => call[c].confirmed
        /\ call[c].op = "program" => hash[c] \in Images

\* A process is the one its call started, and reads the image no earlier than the
\* plan hashed it.
FlashOwnProcess ==
    \A c \in Calls :
        /\ call[c].stage \in {"idle", "planned", "refused"} => proc[c].does = None
        /\ proc[c].does \in {None, call[c].op}
        /\ proc[c].alive => call[c].stage \in {"running", "stopping", "cancelling", "cancelled"}
        /\ hash[c] \in Images => hash[c] <= firmware
        /\ proc[c].alive => proc[c].does # None
        /\ proc[c].does = "program" /\ proc[c].read # None => hash[c] <= proc[c].read

\* Every change of the target has a process behind it.
FlashExplained ==
    /\ target = F!Blank => \E c \in Calls : proc[c].does = "erase"
    /\ target \in Images => \E c \in Calls : proc[c].does = "program" /\ hash[c] <= target
    /\ target # 0 => \E c \in Calls : proc[c].does \in {"program", "erase"}

FlashIInv == FlashTyped /\ FlashWellPlanned /\ FlashOwnProcess /\ FlashExplained

-----------------------------------------------------------------------------
(* The contents of the target that are no image differ from those that are.*)
LEMMA FlashCounting ==
    \A T : F!Cardinality(T) = Cardinality(T) /\ (F!IsFiniteSet(T) <=> IsFiniteSet(T))
  BY DEF F!Cardinality, Cardinality, F!IsFiniteSet, IsFiniteSet

LEMMA FlashContents ==
    ASSUME F!Constants
    PROVE  /\ Images \subseteq Nat /\ 0 \notin Images /\ 1 \in Images
           /\ F!Partial \in Nat \ Images /\ F!Blank \in Nat \ Images
           /\ F!Partial # 0 /\ F!Blank # 0 /\ F!Partial # F!Blank
<1>1. PICK n \in Nat \ {0} : Images = 1 .. n
  BY Zenon DEF F!Constants
<1>2. Cardinality(Images) = n
  <2>1. Cardinality(1 .. n) = n
    BY FS_Interval
  <2> QED
    BY <1>1, <2>1
<1>3. F!Partial = n + 1
  BY <1>2, FlashCounting DEF F!Partial
<1>4. F!Blank = n + 2
  BY <1>2, FlashCounting DEF F!Blank
<1> QED
  BY <1>1, <1>3, <1>4

LEMMA FlashInitIInv == F!Constants /\ F!Init => FlashIInv
<1> SUFFICES ASSUME F!Constants, F!Init PROVE FlashIInv
  OBVIOUS
<1>1. FlashTyped
  BY FlashContents DEF F!Init, FlashTyped, FlashCalling, FlashProcess, F!Idle, F!NoProc, FlashStages
<1>2. FlashWellPlanned
  BY DEF F!Init, FlashWellPlanned, F!Idle
<1>3. FlashOwnProcess
  BY DEF F!Init, FlashOwnProcess, F!Idle, F!NoProc, F!Constants
<1>4. FlashExplained
  BY FlashContents DEF F!Init, FlashExplained
<1> QED
  BY <1>1, <1>2, <1>3, <1>4 DEF FlashIInv

(* A call that moves on keeps what it asked for.                           *)
LEMMA FlashGoesOn ==
    ASSUME FlashTyped, NEW c \in Calls, NEW s \in FlashStages, F!Goes(c, s)
    PROVE  /\ call' \in [Calls -> FlashCalling]
           /\ \A d \in Calls \ {c} : call'[d] = call[d]
           /\ call'[c].stage = s /\ call'[c].op = call[c].op /\ call'[c].tool = call[c].tool
           /\ call'[c].image = call[c].image /\ call'[c].confirmed = call[c].confirmed
  BY DEF FlashTyped, F!Goes, FlashCalling

(* What explains the target goes on explaining it.                         *)
LEMMA FlashStillExplained ==
    ASSUME FlashExplained, target' = target,
           \A c \in Calls : proc[c].does # None =>
               proc'[c].does = proc[c].does /\ hash'[c] = hash[c],
           None \notin F!Operations
    PROVE  FlashExplained'
  BY DEF FlashExplained, F!Operations, F!Blank

-----------------------------------------------------------------------------
(* Every action preserves the invariant.                                   *)

LEMMA FlashPlanStep ==
    ASSUME F!Constants, FlashIInv, NEW c \in Calls, NEW tool \in F!Known, NEW op \in F!Operations,
           NEW image \in BOOLEAN, NEW confirmed \in BOOLEAN, F!Plan(c, tool, op, image, confirmed)
    PROVE  FlashIInv'
<1> USE DEF FlashIInv
<1> DEFINE turned == (op = "erase" /\ ~confirmed) \/ F!Planned(tool, op, image) = None
           new == IF turned THEN [F!Idle EXCEPT !.stage = "refused"]
                  ELSE [stage |-> "planned", op |-> op, tool |-> tool, image |-> image,
                        confirmed |-> confirmed]
<1>1. /\ call[c].stage = "idle" /\ call' = [call EXCEPT ![c] = new]
      /\ hash' = [hash EXCEPT ![c] = IF image /\ ~turned THEN firmware ELSE None]
      /\ UNCHANGED <<firmware, target, proc, records>>
  BY DEF F!Plan
<1>2. new \in FlashCalling
  BY DEF FlashCalling, FlashStages, F!Idle
<1>3. /\ call' \in [Calls -> FlashCalling] /\ hash' \in [Calls -> Images \cup {None}]
      /\ \A d \in Calls \ {c} : call'[d] = call[d] /\ hash'[d] = hash[d]
      /\ call'[c] = new /\ (hash'[c] = None \/ hash'[c] = firmware)
  BY <1>1, <1>2 DEF FlashTyped
<1>4. new.stage \in {"refused", "planned"}
  BY DEF F!Idle
<1>5. proc[c].does = None /\ ~proc[c].alive
  BY <1>1 DEF FlashOwnProcess
<1>6. FlashTyped'
  BY <1>1, <1>3 DEF FlashTyped, F!Partial, F!Blank
<1>7. FlashWellPlanned'
  <2>1. new.stage = "planned" =>
            /\ new.op = op /\ new.tool = tool /\ new.image = image /\ new.confirmed = confirmed
            /\ F!Planned(tool, op, image) # None /\ (op = "erase" => confirmed)
    BY DEF F!Idle
  <2>2. F!Planned(tool, op, image) \in {op, None}
    BY DEF F!Planned
  <2>3. F!Planned(tool, "program", image) # None => image
    BY DEF F!Planned
  <2>4. new.stage = "planned" /\ op = "program" => hash'[c] \in Images
    BY <1>1, <2>1, <2>3 DEF FlashTyped
  <2> HIDE DEF new, turned
  <2> QED
    BY <1>3, <1>4, <2>1, <2>2, <2>4 DEF FlashWellPlanned
<1>8. FlashOwnProcess'
  <2> HIDE DEF new, turned
  <2>1. firmware \in Nat /\ firmware' = firmware /\ proc' = proc
    BY <1>1, FlashContents DEF FlashTyped
  <2> SUFFICES ASSUME NEW d \in Calls
               PROVE  /\ call'[d].stage \in {"idle", "planned", "refused"} => proc[d].does = None
                      /\ proc[d].does \in {None, call'[d].op}
                      /\ proc[d].alive => call'[d].stage \in {"running", "stopping", "cancelling", "cancelled"}
                      /\ hash'[d] \in Images => hash'[d] <= firmware
                      /\ proc[d].alive => proc[d].does # None
                      /\ proc[d].does = "program" /\ proc[d].read # None => hash'[d] <= proc[d].read
    BY <2>1 DEF FlashOwnProcess
  <2>2. CASE d # c
    <3>1. call'[d] = call[d] /\ hash'[d] = hash[d]
      BY <2>2, <1>3
    <3> QED
      BY <3>1 DEF FlashOwnProcess
  <2>3. CASE d = c
    <3>1. hash'[c] = None \/ hash'[c] <= firmware
      BY <1>3, <2>1
    <3>2. None # "program" /\ None \notin Images
      BY DEF F!Constants, F!Operations
    <3> QED
      BY <2>3, <1>5, <3>1, <3>2
  <2> QED
    BY <2>2, <2>3
<1>9. FlashExplained'
  <2>1. \A d \in Calls : proc[d].does # None => proc'[d].does = proc[d].does /\ hash'[d] = hash[d]
    BY <1>1, <1>3, <1>5
  <2> QED
    BY <1>1, <2>1, FlashStillExplained DEF F!Constants
<1> QED
  BY <1>6, <1>7, <1>8, <1>9

LEMMA FlashRunStep ==
    ASSUME F!Constants, FlashIInv, NEW c \in Calls, F!Run(c) PROVE FlashIInv'
<1> USE DEF FlashIInv
<1> DEFINE does == F!Planned(call[c].tool, call[c].op, call[c].image)
<1>1. /\ call[c].stage = "planned" /\ does = call[c].op /\ call[c].op \in F!Operations
      /\ proc[c].does = None
      /\ UNCHANGED <<firmware, target, hash, records>>
  BY DEF F!Run, FlashWellPlanned, FlashOwnProcess
<1>2. \/ /\ F!Goes(c, "running")
         /\ proc' = [proc EXCEPT ![c] = [F!NoProc EXCEPT !.alive = TRUE, !.does = does]]
      \/ F!Goes(c, "refused") /\ UNCHANGED proc
  BY DEF F!Run
<1> HIDE DEF does
<1>3. /\ call' \in [Calls -> FlashCalling]
      /\ \A d \in Calls \ {c} : call'[d] = call[d]
      /\ call'[c].stage \in {"running", "refused"} /\ call'[c].op = call[c].op
      /\ call'[c].tool = call[c].tool
      /\ call'[c].image = call[c].image /\ call'[c].confirmed = call[c].confirmed
      /\ call'[c].stage = "refused" => proc' = proc
  BY <1>2, FlashGoesOn DEF FlashStages
<1>4. /\ proc' \in [Calls -> FlashProcess]
      /\ \A d \in Calls \ {c} : proc'[d] = proc[d]
      /\ \/ proc'[c] = proc[c] /\ ~proc[c].alive
         \/ proc'[c].does = does /\ proc'[c].read = None /\ call'[c].stage = "running"
  <2>1. [F!NoProc EXCEPT !.alive = TRUE, !.does = does] \in FlashProcess
    BY <1>1 DEF F!NoProc, FlashProcess
  <2>2. ~proc[c].alive
    BY <1>1 DEF FlashOwnProcess
  <2>3. CASE /\ F!Goes(c, "running")
             /\ proc' = [proc EXCEPT ![c] = [F!NoProc EXCEPT !.alive = TRUE, !.does = does]]
    BY <2>1, <2>3, FlashGoesOn DEF FlashTyped, F!NoProc, FlashStages
  <2>4. CASE F!Goes(c, "refused") /\ UNCHANGED proc
    BY <2>2, <2>4 DEF FlashTyped
  <2> QED
    BY <1>2, <2>3, <2>4
<1>5. FlashTyped'
  BY <1>1, <1>3, <1>4 DEF FlashTyped, F!Partial, F!Blank
<1>6. FlashWellPlanned'
  BY <1>1, <1>3 DEF FlashWellPlanned
<1>7. FlashOwnProcess'
  BY <1>1, <1>3, <1>4 DEF FlashOwnProcess, F!Constants
<1>8. FlashExplained'
  BY <1>1, <1>4, FlashStillExplained DEF F!Constants
<1> QED
  BY <1>5, <1>6, <1>7, <1>8

(* An action of a process on itself: the call and its plan are untouched.  *)
LEMMA FlashProcessStep ==
    ASSUME F!Constants, FlashIInv, NEW c \in Calls, NEW p \in FlashProcess, proc[c].alive,
           proc' = [proc EXCEPT ![c] = p], UNCHANGED <<firmware, call, hash, records>>,
           p.does = proc[c].does, p.read = proc[c].read \/ p.read = firmware,
           target' \in Images \cup {0, F!Partial, F!Blank}
    PROVE  FlashTyped' /\ FlashWellPlanned' /\ FlashOwnProcess'
<1> USE DEF FlashIInv
<1>1. /\ proc' \in [Calls -> FlashProcess] /\ proc'[c] = p
      /\ \A d \in Calls \ {c} : proc'[d] = proc[d]
  BY DEF FlashTyped
<1>2. FlashTyped'
  BY <1>1 DEF FlashTyped, F!Partial, F!Blank
<1>3. FlashWellPlanned'
  BY DEF FlashWellPlanned
<1>4. FlashOwnProcess'
  <2> SUFFICES ASSUME NEW d \in Calls
               PROVE  /\ call[d].stage \in {"idle", "planned", "refused"} => proc'[d].does = None
                      /\ proc'[d].does \in {None, call[d].op}
                      /\ proc'[d].alive => call[d].stage \in {"running", "stopping", "cancelling", "cancelled"}
                      /\ hash[d] \in Images => hash[d] <= firmware
                      /\ proc'[d].alive => proc'[d].does # None
                      /\ proc'[d].does = "program" /\ proc'[d].read # None =>
                           hash[d] <= proc'[d].read
    BY DEF FlashOwnProcess
  <2>1. CASE d # c
    BY <2>1, <1>1 DEF FlashOwnProcess
  <2>2. CASE d = c
    <3>1. /\ call[c].stage \in {"running", "stopping", "cancelling", "cancelled"}
          /\ proc[c].does \in {None, call[c].op} /\ proc[c].does # None
          /\ hash[c] \in Images => hash[c] <= firmware
          /\ proc[c].does = "program" /\ proc[c].read # None => hash[c] <= proc[c].read
      BY DEF FlashOwnProcess
    <3>2. proc[c].does = "program" => hash[c] \in Images
      BY <3>1 DEF FlashWellPlanned
    <3> QED
      BY <2>2, <1>1, <3>1, <3>2
  <2> QED
    BY <2>1, <2>2
<1> QED
  BY <1>2, <1>3, <1>4

LEMMA FlashToolBeginsStep ==
    ASSUME F!Constants, FlashIInv, NEW c \in Calls, F!ToolBegins(c) PROVE FlashIInv'
<1> USE DEF FlashIInv
<1> DEFINE p == [proc[c] EXCEPT !.read = firmware]
<1>1. /\ proc[c].alive /\ proc[c].does \in {"program", "erase"}
      /\ target' = F!Partial /\ proc' = [proc EXCEPT ![c] = p]
      /\ UNCHANGED <<firmware, call, hash, records>>
  BY DEF F!ToolBegins, F!Working
<1>2. p \in FlashProcess /\ p.does = proc[c].does /\ p.read = firmware
  BY DEF FlashTyped, FlashProcess
<1> HIDE DEF p
<1>3. FlashTyped' /\ FlashWellPlanned' /\ FlashOwnProcess'
  BY <1>1, <1>2, FlashProcessStep
<1>4. proc'[c].does \in {"program", "erase"}
  BY <1>1, <1>2 DEF FlashTyped
<1>5. F!Partial' = F!Partial /\ F!Blank' = F!Blank /\ F!Partial \notin Images /\ F!Partial # F!Blank
  BY FlashContents DEF F!Partial, F!Blank
<1>6. FlashExplained'
  BY <1>1, <1>4, <1>5 DEF FlashExplained
<1> QED
  BY <1>3, <1>6

LEMMA FlashToolEndsStep ==
    ASSUME F!Constants, FlashIInv, NEW c \in Calls, F!ToolEnds(c) PROVE FlashIInv'
<1> USE DEF FlashIInv
<1> DEFINE p == [proc[c] EXCEPT !.alive = FALSE, !.code = "ok"]
<1>1. /\ proc[c].alive
      /\ proc[c].does \in {"program", "erase"} => proc[c].read # None
      /\ proc' = [proc EXCEPT ![c] = p]
      /\ UNCHANGED <<firmware, call, hash, records>>
  BY DEF F!ToolEnds, F!Working, FlashTyped, FlashProcess
<1>2. p \in FlashProcess /\ p.does = proc[c].does /\ p.read = proc[c].read
  BY DEF FlashTyped, FlashProcess
<1>3. /\ proc[c].does = "program" => target' = proc[c].read
      /\ proc[c].does = "erase" => target' = F!Blank
      /\ proc[c].does \notin {"program", "erase"} => target' = target
  BY DEF F!ToolEnds
<1> HIDE DEF p
<1>4. proc[c].read \in Images \cup {None}
  BY DEF FlashTyped, FlashProcess
<1>5. target' \in Images \cup {0, F!Partial, F!Blank}
  BY <1>1, <1>3, <1>4 DEF FlashTyped
<1>6. FlashTyped' /\ FlashWellPlanned' /\ FlashOwnProcess'
  BY <1>1, <1>2, <1>5, FlashProcessStep
<1>7. /\ proc'[c].does = proc[c].does
      /\ \A d \in Calls : proc'[d].does = proc[d].does
  BY <1>1, <1>2 DEF FlashTyped
<1>8. F!Blank' = F!Blank /\ F!Blank \notin Images /\ F!Blank # 0
  BY FlashContents DEF F!Blank
<1>9. FlashExplained'
  <2>1. CASE proc[c].does = "program"
    <3>1. hash[c] <= proc[c].read /\ target' = proc[c].read /\ target' \in Images
      BY <1>1, <1>3, <1>4, <2>1 DEF FlashOwnProcess
    <3>2. proc'[c].does = "program" /\ hash'[c] <= target'
      BY <3>1, <1>1, <1>7, <2>1
    <3> QED
      BY <3>1, <3>2, <1>8 DEF FlashExplained
  <2>2. CASE proc[c].does = "erase"
    BY <2>2, <1>3, <1>7, <1>8 DEF FlashExplained
  <2>3. CASE proc[c].does \notin {"program", "erase"}
    BY <2>3, <1>1, <1>3, <1>7, FlashStillExplained DEF F!Constants
  <2> QED
    BY <2>1, <2>2, <2>3
<1> QED
  BY <1>6, <1>9

(* A process that stops: it failed, or was killed.                         *)
LEMMA FlashProcessStops ==
    ASSUME F!Constants, FlashIInv, NEW c \in Calls, proc' = [proc EXCEPT ![c].alive = FALSE],
           UNCHANGED <<firmware, target, hash, records>>,
           call' = call \/ (call[c].stage = "stopping" /\ F!Goes(c, "failed"))
    PROVE  FlashIInv'
<1> USE DEF FlashIInv
<1>1. /\ proc' \in [Calls -> FlashProcess] /\ ~proc'[c].alive
      /\ proc'[c].does = proc[c].does /\ proc'[c].read = proc[c].read
      /\ \A d \in Calls \ {c} : proc'[d] = proc[d]
  BY DEF FlashTyped, FlashProcess
<1>2. /\ call' \in [Calls -> FlashCalling]
      /\ \A d \in Calls \ {c} : call'[d] = call[d]
      /\ call'[c].op = call[c].op /\ call'[c].tool = call[c].tool
      /\ call'[c].image = call[c].image /\ call'[c].confirmed = call[c].confirmed
      /\ call'[c].stage = call[c].stage \/ (call[c].stage = "stopping" /\ call'[c].stage = "failed")
  BY FlashGoesOn DEF FlashTyped, FlashStages
<1>3. FlashTyped'
  BY <1>1, <1>2 DEF FlashTyped, F!Partial, F!Blank
<1>4. FlashWellPlanned'
  BY <1>2 DEF FlashWellPlanned
<1>5. FlashOwnProcess'
  BY <1>1, <1>2 DEF FlashOwnProcess
<1>6. FlashExplained'
  BY <1>1, FlashStillExplained DEF F!Constants
<1> QED
  BY <1>3, <1>4, <1>5, <1>6

LEMMA FlashNewImageStep ==
    ASSUME F!Constants, FlashIInv, F!NewImage PROVE FlashIInv'
<1> USE DEF FlashIInv
<1>1. /\ firmware' \in Images /\ firmware' = firmware + 1 /\ firmware \in Nat
      /\ Images \subseteq Nat
      /\ UNCHANGED <<target, call, hash, proc, records>>
  BY FlashContents DEF F!NewImage, FlashTyped
<1>2. FlashTyped'
  BY <1>1 DEF FlashTyped, F!Partial, F!Blank
<1>3. FlashWellPlanned'
  BY <1>1 DEF FlashWellPlanned
<1>4. FlashOwnProcess'
  <2>1. ASSUME NEW d \in Calls, hash[d] \in Images PROVE hash[d] <= firmware'
    <3>1. hash[d] <= firmware /\ hash[d] \in Nat
      BY <1>1, <2>1 DEF FlashOwnProcess
    <3> QED
      BY ONLY <1>1, <3>1
  <2> QED
    BY <1>1, <2>1 DEF FlashOwnProcess
<1>5. FlashExplained'
  BY <1>1, FlashStillExplained DEF F!Constants
<1> QED
  BY <1>2, <1>3, <1>4, <1>5

(* A call moves on while its process, if it has one, is left as it is.     *)
LEMMA FlashCallMoves ==
    ASSUME F!Constants, FlashIInv, NEW c \in Calls, NEW s \in FlashStages, F!Goes(c, s),
           UNCHANGED <<firmware, target, hash, proc>>,
           call[c].stage \notin {"idle", "refused"},
           s \notin {"idle", "planned", "refused"},
           proc[c].alive => s \in {"running", "stopping", "cancelling", "cancelled"}
    PROVE  FlashIInv'
<1> USE DEF FlashIInv
<1>1. FlashTyped'
  BY FlashGoesOn DEF FlashTyped, F!Partial, F!Blank
<1>2. FlashWellPlanned'
  BY FlashGoesOn DEF FlashWellPlanned
<1>3. FlashOwnProcess'
  BY FlashGoesOn DEF FlashOwnProcess
<1>4. FlashExplained'
  BY FlashStillExplained DEF F!Constants
<1> QED
  BY <1>1, <1>2, <1>3, <1>4

LEMMA FlashStepIInv == F!Constants /\ FlashIInv /\ [F!Next]_(F!vars) => FlashIInv'
<1> SUFFICES ASSUME F!Constants, FlashIInv, [F!Next]_(F!vars) PROVE FlashIInv'
  OBVIOUS
<1>1. CASE F!NewImage
  BY <1>1, FlashNewImageStep
<1>2. ASSUME NEW c \in Calls, NEW tool \in F!Known, NEW op \in F!Operations, NEW image \in BOOLEAN,
             NEW confirmed \in {FALSE, op = "erase"}, F!Plan(c, tool, op, image, confirmed)
      PROVE  FlashIInv'
  <2>1. confirmed \in BOOLEAN
    BY <1>2
  <2> QED
    BY <1>2, <2>1, FlashPlanStep
<1>3. ASSUME NEW c \in Calls, F!Run(c) PROVE FlashIInv'
  BY <1>3, FlashRunStep
<1>4. ASSUME NEW c \in Calls, F!ToolBegins(c) PROVE FlashIInv'
  BY <1>4, FlashToolBeginsStep
<1>5. ASSUME NEW c \in Calls, F!ToolEnds(c) PROVE FlashIInv'
  BY <1>5, FlashToolEndsStep
<1>6. ASSUME NEW c \in Calls, F!ToolFails(c) PROVE FlashIInv'
  BY <1>6, FlashProcessStops DEF F!ToolFails
<1>7. ASSUME NEW c \in Calls, F!Collect(c) PROVE FlashIInv'
  <2>1. \E s \in {"done", "failed"} : F!Goes(c, s)
    BY <1>7 DEF F!Collect
  <2> QED
    BY <1>7, <2>1, FlashCallMoves DEF F!Collect, FlashStages
<1>8. ASSUME NEW c \in Calls, F!TimeOut(c) PROVE FlashIInv'
  BY <1>8, FlashCallMoves DEF F!TimeOut, FlashStages
<1>9. ASSUME NEW c \in Calls, F!Killed(c) PROVE FlashIInv'
  BY <1>9, FlashProcessStops DEF F!Killed
<1>10. ASSUME NEW c \in Calls, F!Cancel(c) PROVE FlashIInv'
  <2>1. \E s \in {"cancelling", "cancelled"} : F!Goes(c, s)
    BY <1>10 DEF F!Cancel
  <2> QED
    BY <1>10, <2>1, FlashCallMoves DEF F!Cancel, FlashStages
<1>11. ASSUME NEW c \in Calls, F!LeftAlone(c) PROVE FlashIInv'
  BY <1>11, FlashCallMoves DEF F!LeftAlone, FlashStages
<1>12. CASE UNCHANGED F!vars
  BY <1>12 DEF F!vars, FlashIInv, FlashTyped, FlashWellPlanned, FlashOwnProcess,
     FlashExplained, F!Partial, F!Blank
<1>13. ASSUME NEW c \in Calls,
              \/ F!Run(c) \/ F!ToolBegins(c) \/ F!ToolEnds(c) \/ F!ToolFails(c) \/ F!Collect(c)
              \/ F!TimeOut(c) \/ F!Killed(c) \/ F!Cancel(c) \/ F!LeftAlone(c)
       PROVE  FlashIInv'
  BY <1>3, <1>4, <1>5, <1>6, <1>7, <1>8, <1>9, <1>10, <1>11, <1>13
<1>14. CASE F!Next
  <2>1. CASE \E c \in Calls : \E tool \in F!Known, op \in F!Operations, image \in BOOLEAN :
                \E confirmed \in {FALSE, op = "erase"} : F!Plan(c, tool, op, image, confirmed)
    <3>1. PICK c \in Calls, tool \in F!Known, op \in F!Operations, image \in BOOLEAN :
                \E confirmed \in {FALSE, op = "erase"} : F!Plan(c, tool, op, image, confirmed)
      BY <2>1, Zenon
    <3>2. PICK confirmed \in {FALSE, op = "erase"} : F!Plan(c, tool, op, image, confirmed)
      BY <3>1, Zenon
    <3> QED
      BY <1>2, <3>2, Zenon
  <2> QED
    BY <1>1, <1>13, <1>14, <2>1, Zenon DEF F!Next
<1> QED
  BY <1>12, <1>14

-----------------------------------------------------------------------------
(* Records: one for each call that is done.                                *)
FlashDone == {c \in Calls : call[c].stage = "done"}
FlashFiled == records \in Seq([op : F!Operations, sha : Images \cup {None}]) /\
    Len(records) = Cardinality(FlashDone)

LEMMA FlashInitFiled == ASSUME F!Constants, F!Init PROVE FlashFiled
<1>1. FlashDone = {}
  BY DEF F!Init, F!Idle, FlashDone
<1> QED
  BY <1>1, FS_EmptySet DEF F!Init, FlashFiled

\* Only Collect files a record; no other step makes a call done or undone.
LEMMA FlashOneRecord ==
    ASSUME F!Constants, FlashIInv, [F!Next]_(F!vars)
    PROVE  \/ UNCHANGED records /\ FlashDone' = FlashDone
           \/ \E c \in Calls \ FlashDone :
                 /\ records' = Append(records, F!Record(c)) /\ FlashDone' = FlashDone \cup {c}
                 /\ call[c].stage = "running"
<1> DEFINE Same == UNCHANGED records /\ FlashDone' = FlashDone
           Added(c) == /\ records' = Append(records, F!Record(c)) /\ FlashDone' = FlashDone \cup {c}
                       /\ call[c].stage = "running"
           Moves(c) == /\ \A d \in Calls \ {c} : call'[d] = call[d]
                       /\ call[c].stage # "done" /\ call'[c].stage # "done"
<1>1. FlashTyped
  BY DEF FlashIInv
<1>2. ASSUME NEW c \in Calls, Moves(c) PROVE FlashDone' = FlashDone
  BY <1>2 DEF FlashDone
<1>3. ASSUME NEW c \in Calls, NEW s \in FlashStages, F!Goes(c, s), call[c].stage # "done",
             s # "done"
      PROVE  FlashDone' = FlashDone
  BY <1>1, <1>2, <1>3, FlashGoesOn
<1>4. ASSUME call' = call PROVE FlashDone' = FlashDone
  BY <1>4 DEF FlashDone
<1>5. ASSUME NEW c \in Calls, NEW tool \in F!Known, NEW op \in F!Operations, NEW image \in BOOLEAN,
             NEW confirmed \in BOOLEAN, F!Plan(c, tool, op, image, confirmed)
      PROVE  Same
  <2>1. Moves(c)
    BY <1>1, <1>5 DEF F!Plan, F!Idle, FlashTyped
  <2> HIDE DEF Moves
  <2> QED
    BY <2>1, <1>2, <1>5 DEF F!Plan
<1>6. ASSUME NEW c \in Calls, F!Collect(c) PROVE Same \/ \E d \in Calls \ FlashDone : Added(d)
  <2>1. CASE F!Goes(c, "failed") /\ UNCHANGED records
    BY <2>1, <1>3, <1>6 DEF F!Collect, FlashStages
  <2>2. CASE F!Goes(c, "done") /\ records' = Append(records, F!Record(c))
    <3>1. FlashDone' = FlashDone \cup {c} /\ c \notin FlashDone /\ call[c].stage = "running"
      BY <2>2, <1>1, <1>6, FlashGoesOn DEF F!Collect, FlashDone, FlashStages
    <3> QED
      BY <2>2, <3>1
  <2> QED
    BY <2>1, <2>2, <1>6 DEF F!Collect
<1>7. ASSUME NEW c \in Calls,
             F!Run(c) \/ F!TimeOut(c) \/ F!Killed(c) \/ F!Cancel(c) \/ F!LeftAlone(c)
      PROVE  Same
  <2>1. UNCHANGED records /\ call[c].stage # "done"
    BY <1>7 DEF F!Run, F!TimeOut, F!Killed, F!Cancel, F!LeftAlone
  <2>2. \E s \in FlashStages \ {"done"} : F!Goes(c, s)
    BY <1>7 DEF F!Run, F!TimeOut, F!Killed, F!Cancel, F!LeftAlone, FlashStages
  <2> QED
    BY <2>1, <2>2, <1>3
<1>8. ASSUME NEW c \in Calls, F!ToolBegins(c) \/ F!ToolEnds(c) \/ F!ToolFails(c) PROVE Same
  BY <1>4, <1>8 DEF F!ToolBegins, F!ToolEnds, F!ToolFails
<1>9. ASSUME F!NewImage \/ UNCHANGED F!vars PROVE Same
  BY <1>4, <1>9 DEF F!NewImage, F!vars
<1> HIDE DEF Same, Added
<1>10. ASSUME F!Next PROVE Same \/ \E c \in Calls \ FlashDone : Added(c)
  <2>1. ASSUME \E c \in Calls : \E tool \in F!Known, op \in F!Operations, image \in BOOLEAN :
                \E confirmed \in {FALSE, op = "erase"} : F!Plan(c, tool, op, image, confirmed)
        PROVE  Same
    <3>1. PICK c \in Calls, tool \in F!Known, op \in F!Operations, image \in BOOLEAN :
                \E confirmed \in {FALSE, op = "erase"} : F!Plan(c, tool, op, image, confirmed)
      BY <2>1, Zenon
    <3>2. PICK confirmed \in BOOLEAN : F!Plan(c, tool, op, image, confirmed)
      BY <3>1, Zenon
    <3> QED
      BY <1>5, <3>2
  <2>2. ASSUME NEW c \in Calls,
               \/ F!Run(c) \/ F!ToolBegins(c) \/ F!ToolEnds(c) \/ F!ToolFails(c) \/ F!Collect(c)
               \/ F!TimeOut(c) \/ F!Killed(c) \/ F!Cancel(c) \/ F!LeftAlone(c)
        PROVE  Same \/ \E d \in Calls \ FlashDone : Added(d)
    BY <1>6, <1>7, <1>8, <2>2
  <2>3. CASE F!NewImage
    BY <1>9, <2>3
  <2> QED
    BY <1>10, <2>1, <2>2, <2>3, Zenon DEF F!Next
<1>11. Same \/ \E c \in Calls \ FlashDone : Added(c)
  <2>1. CASE UNCHANGED F!vars
    BY <1>9, <2>1
  <2> QED
    BY <1>10, <2>1
<1> QED
  BY <1>11 DEF Same, Added

LEMMA FlashStepFiled ==
    ASSUME F!Constants, FlashIInv, FlashFiled, [F!Next]_(F!vars)
    PROVE  FlashFiled'
<1>1. IsFiniteSet(FlashDone)
  <2>1. FlashDone \subseteq Calls
    BY DEF FlashDone
  <2> QED
    BY <2>1, FS_Subset, FlashCounting DEF F!Constants
<1>2. CASE UNCHANGED records /\ FlashDone' = FlashDone
  BY <1>2 DEF FlashFiled
<1>3. ASSUME NEW c \in Calls \ FlashDone, records' = Append(records, F!Record(c)),
             FlashDone' = FlashDone \cup {c},
             call[c].stage = "running"
      PROVE  FlashFiled'
  <2>1. Cardinality(FlashDone') = Cardinality(FlashDone) + 1
    BY <1>1, <1>3, FS_AddElement
  <2>2. F!Record(c) \in [op : F!Operations, sha : Images \cup {None}]
    BY <1>3 DEF FlashIInv, FlashTyped, FlashWellPlanned, F!Record
  <2> QED
    BY <2>1, <2>2, <1>3 DEF FlashFiled
<1> QED
  BY <1>2, <1>3, FlashOneRecord

LEMMA FlashMeansTyped == ASSUME F!Constants, FlashIInv, FlashFiled PROVE F!TypeOK
<1>1. Cardinality(FlashDone) <= Cardinality(Calls)
  <2>1. FlashDone \subseteq Calls
    BY DEF FlashDone
  <2> QED
    BY <2>1, FS_Subset, FlashCounting DEF F!Constants
<1>2. ASSUME NEW i \in DOMAIN records PROVE records[i].op \in F!Operations
  <2> DEFINE Kept == [op : F!Operations, sha : Images \cup {None}]
  <2>1. records[i] \in Kept
    <3>1. records \in Seq(Kept)
      BY DEF FlashFiled
    <3> HIDE DEF Kept
    <3> QED
      BY <3>1
  <2> QED
    BY <2>1
<1>3. \A c \in Calls : call[c] \in FlashCalling
  BY DEF FlashIInv, FlashTyped
<1>4. Len(records) <= Cardinality(Calls)
  BY <1>1 DEF FlashFiled
<1> QED
  BY <1>2, <1>3, <1>4, FlashCounting DEF FlashIInv, FlashTyped, FlashCalling, FlashProcess,
     FlashStages, F!TypeOK

-----------------------------------------------------------------------------
(* What the invariant says of the target: behind each process that erased  *)
(* or wrote it stands a call that was planned for exactly that.            *)
LEMMA FlashIInvMeansAsked == ASSUME F!Constants, FlashIInv PROVE F!OnlyWhatWasAsked
<1> USE DEF FlashIInv
<1>1. ASSUME NEW c \in Calls, proc[c].does # None
      PROVE  c \in F!Called(proc[c].does)
  BY <1>1 DEF FlashOwnProcess, F!Called
<1>2. "erase" # None /\ "program" # None
  BY DEF F!Constants, F!Operations
<1>3. ASSUME target = F!Blank PROVE \E c \in F!Called("erase") : call[c].confirmed
  <2>1. PICK c \in Calls : proc[c].does = "erase"
    BY <1>3 DEF FlashExplained
  <2>2. c \in F!Called("erase")
    BY <2>1, <1>1, <1>2
  <2> QED
    BY <2>1, <2>2 DEF FlashWellPlanned, F!Called
<1>4. ASSUME target \in Images PROVE \E c \in F!Called("program") : hash[c] <= target
  BY <1>4, <1>1, <1>2 DEF FlashExplained
<1>5. ASSUME target # 0 PROVE F!Called("erase") \cup F!Called("program") # {}
  BY <1>5, <1>1, <1>2 DEF FlashExplained
<1> QED
  BY <1>3, <1>4, <1>5 DEF F!OnlyWhatWasAsked, FlashOwnProcess

-----------------------------------------------------------------------------
(* RecipePlan: for any recipes, limits, supplies and armed classes.  What  *)
(* FlattenSeq makes of a nested recipe is defined by recursion; all that is*)
(* used of it is in Constants.                                             *)
\* The steps of a recipe written out, the steps phase before the finally phase.
PlanAll(recipe) == R!Expanded(recipe.steps) \o R!Expanded(recipe.finally)

-----------------------------------------------------------------------------
(* Limits.                                                                 *)

(* The stricter of two bounds allows what both allow (limits.py:intersect).*)
LEMMA PlanTighterIsBoth ==
    ASSUME NEW a \in R!Bounds, NEW b \in R!Bounds, NEW x \in Int, None \notin Int
    PROVE  /\ R!Tighter(a, b) \in R!Bounds
           /\ R!Allows(R!Tighter(a, b), x) <=> R!Allows(a, x) /\ R!Allows(b, x)
  BY DEF R!Tighter, R!Allows, R!Bounds

(* What a recipe's own limits let pass, the dispatcher lets pass.          *)
LEMMA PlanRecipeLimitsAreStricter ==
    ASSUME R!Constants, NEW recipe \in OnDisk, NEW d \in Devices, NEW step,
           step.action = "psu.set" => R!Value(step.v) /\ R!Value(step.i),
           R!Permits(R!Limits(recipe), d, step)
    PROVE  R!Permits(GlobalLimits, d, step)
<1> SUFFICES ASSUME step.action = "psu.set" PROVE R!Permits(GlobalLimits, d, step)
  BY DEF R!Permits
<1>1. \A q \in {"V", "I", "P"} :
         /\ GlobalLimits[q] \in R!Bounds /\ DeviceLimits[d][q] \in R!Bounds
         /\ R!Declared(recipe)[q] \in R!Bounds
         /\ R!Limits(recipe)[q] = R!Tighter(GlobalLimits[q], R!Declared(recipe)[q])
  BY DEF R!Constants, R!Limits, R!Declared, R!Bounds, R!NoBound
<1>2. None \notin Int /\ None # d
  BY DEF R!Constants
<1>3. ASSUME NEW q \in {"V", "I", "P"}, NEW x \in Int,
             R!Allows(R!Effective(R!Limits(recipe), d, q), x)
      PROVE  R!Allows(R!Effective(GlobalLimits, d, q), x)
  <2>1. R!Tighter(GlobalLimits[q], R!Declared(recipe)[q]) \in R!Bounds
    BY <1>1, <1>2, PlanTighterIsBoth
  <2>2. R!Allows(R!Tighter(R!Tighter(GlobalLimits[q], R!Declared(recipe)[q]), DeviceLimits[d][q]), x)
    BY <1>1, <1>2, <1>3 DEF R!Effective
  <2>3. R!Allows(GlobalLimits[q], x) /\ R!Allows(DeviceLimits[d][q], x)
    BY <1>1, <1>2, <2>1, <2>2, PlanTighterIsBoth
  <2> QED
    BY <1>1, <1>2, <2>3, PlanTighterIsBoth DEF R!Effective
<1>4. /\ step.v \in Int \cup {None} /\ step.i \in Int \cup {None}
      /\ step.v # None => R!Allows(R!Effective(R!Limits(recipe), d, "V"), step.v)
      /\ step.i # None => R!Allows(R!Effective(R!Limits(recipe), d, "I"), step.i)
      /\ step.v # None /\ step.i # None =>
           R!Allows(R!Effective(R!Limits(recipe), d, "P"), step.v * step.i)
  BY DEF R!Permits, R!Value
<1>5. /\ step.v # None => R!Allows(R!Effective(GlobalLimits, d, "V"), step.v)
      /\ step.i # None => R!Allows(R!Effective(GlobalLimits, d, "I"), step.i)
  BY <1>3, <1>4
<1>6. step.v # None /\ step.i # None => R!Allows(R!Effective(GlobalLimits, d, "P"), step.v * step.i)
  <2> SUFFICES ASSUME step.v # None, step.i # None
               PROVE  R!Allows(R!Effective(GlobalLimits, d, "P"), step.v * step.i)
    OBVIOUS
  <2>1. step.v * step.i \in Int
    BY <1>4
  <2> QED
    BY <1>3, <1>4, <2>1
<1> QED
  BY <1>5, <1>6 DEF R!Permits

-----------------------------------------------------------------------------
(* The inductive invariant, in named parts.                                *)

PlanTyped ==
    /\ resolved \in Devices \cup {None} /\ pc \in Nat
    /\ supply \in [Devices -> [v : Int, i : Int]]

\* The plan is what the compiler made of a recipe, and was found runnable before
\* its first step.
PlanFromCompiler ==
    /\ plan # None => \E recipe \in OnDisk, d \in Devices \cup {None} : plan = R!Compiled(recipe, d)
    /\ pc > 0 => plan # None /\ plan.problems = {}

\* In the steps phase every step before the next one has left its result.
PlanResultsThere ==
    plan # None /\ pc \in 1 .. plan.main =>
        \A k \in 1 .. pc - 1 : R!Kind(plan.steps[k]) = "action" =>
            R!Fills(plan.steps[k]) \subseteq filled

PlanIInv == PlanTyped /\ PlanFromCompiler /\ PlanResultsThere

-----------------------------------------------------------------------------
(* What the compiler puts into a plan (compiler.py:compile_recipe).        *)
LEMMA PlanCompiledShape ==
    ASSUME R!Constants, NEW recipe \in OnDisk, NEW d \in Devices \cup {None}
    PROVE  LET made == R!Compiled(recipe, d) IN
           /\ made.steps \in Seq(R!RawSteps)
           /\ made.main \in Nat /\ made.main <= Len(made.steps)
           /\ made.recipe = recipe /\ made.device = d
           /\ \A n \in 1 .. Len(made.steps) :
                R!Permission(made.steps[n]) \in made.required \cup {"PASSIVE"}
           /\ made.problems = {} =>
                  \A n \in 1 .. Len(made.steps) : R!Problem(recipe, made.steps, n, d) = None
           /\ Len(made.steps) <= MaxSteps /\ made.required \subseteq {"QUERY", "POWER"}
<1> DEFINE main == R!Expanded(recipe.steps)
           all == main \o R!Expanded(recipe.finally)
           size == IF Len(all) <= MaxSteps THEN Len(all) ELSE MaxSteps
           kept == SubSeq(all, 1, size)
           found == {R!Problem(recipe, kept, n, d) : n \in DOMAIN kept} \ {None}
           made == R!Compiled(recipe, d)
<1>1. main \in Seq(R!RawSteps) /\ all \in Seq(R!RawSteps)
  BY DEF R!Constants
<1>2. Len(main) \in Nat /\ Len(all) \in Nat /\ size \in 0 .. Len(all)
  BY <1>1 DEF R!Constants
<1>3. /\ made.steps = kept /\ made.recipe = recipe /\ made.device = d
      /\ made.main = (IF Len(main) <= Len(kept) THEN Len(main) ELSE Len(kept))
      /\ made.required = {R!Permission(kept[n]) : n \in DOMAIN kept} \ {"PASSIVE"}
      /\ found \subseteq made.problems
  BY DEF R!Compiled
<1>9. made.required \subseteq {"QUERY", "POWER"}
  <2>1. \A step : R!Permission(step) \in {"QUERY", "POWER", "PASSIVE"}
    BY DEF R!Permission
  <2> HIDE DEF made
  <2> QED
    BY <1>3, <2>1
<1>10. size <= MaxSteps
  BY <1>2 DEF R!Constants
<1> HIDE DEF main, all, size, made
<1>4. kept \in Seq(R!RawSteps) /\ Len(kept) <= MaxSteps
  <2>1. size \in Nat /\ Len(kept) = size
    BY <1>1, <1>2, SubSeqProperties
  <2> QED
    BY <1>1, <1>2, <1>10, <2>1, SubSeqProperties
<1> HIDE DEF kept
<1>5. DOMAIN kept = 1 .. Len(kept) /\ Len(kept) \in Nat
  BY <1>4
<1>6. made.problems = {} => \A n \in 1 .. Len(kept) : R!Problem(recipe, kept, n, d) = None
  BY <1>3, <1>5
<1>7. \A n \in 1 .. Len(kept) : R!Permission(kept[n]) \in made.required \cup {"PASSIVE"}
  BY <1>3, <1>5
<1>8. made.main \in Nat /\ made.main <= Len(kept)
  BY <1>2, <1>3, <1>5
<1> QED
  BY <1>3, <1>4, <1>6, <1>7, <1>8, <1>9 DEF made

(* What is known of the step a run is at.                                  *)
LEMMA PlanStepAhead ==
    ASSUME R!Constants, PlanIInv, ~R!Over
    PROVE  /\ plan # None /\ plan.steps[pc] \in R!RawSteps /\ pc \in 1 .. Len(plan.steps)
           /\ plan.main \in Nat /\ plan.main <= Len(plan.steps)
           /\ \E recipe \in OnDisk, d \in Devices \cup {None} :
                 /\ plan.device = d
                 /\ R!Problem(recipe, plan.steps, pc, d) = None
                 /\ R!Permission(plan.steps[pc]) \in plan.required \cup {"PASSIVE"}
<1>1. pc \in Nat /\ pc > 0 /\ ~(pc > Len(plan.steps))
  BY DEF R!Over, PlanIInv, PlanTyped
<1>2. plan # None /\ plan.problems = {}
  BY <1>1 DEF PlanIInv, PlanFromCompiler
<1>3. PICK recipe \in OnDisk, d \in Devices \cup {None} : plan = R!Compiled(recipe, d)
  BY <1>2 DEF PlanIInv, PlanFromCompiler
<1>4. /\ plan.steps \in Seq(R!RawSteps) /\ plan.main \in Nat /\ plan.main <= Len(plan.steps)
      /\ plan.device = d
      /\ \A n \in 1 .. Len(plan.steps) :
            /\ R!Permission(plan.steps[n]) \in plan.required \cup {"PASSIVE"}
            /\ R!Problem(recipe, plan.steps, n, d) = None
  BY <1>2, <1>3, PlanCompiledShape
<1>5. pc \in 1 .. Len(plan.steps)
  BY <1>1, <1>4
<1> QED
  BY <1>2, <1>4, <1>5

(* A set of values that fits leaves the rest of the supply as it was.      *)
LEMMA PlanSetKeeps ==
    ASSUME PlanTyped, NEW d \in Devices, NEW step, R!Value(step.v), R!Value(step.i), R!Set(d, step)
    PROVE  /\ supply' \in [Devices -> [v : Int, i : Int]]
           /\ \A e \in Devices : e # d => supply'[e] = supply[e]
           /\ supply'[d].v = (IF step.v # None THEN step.v ELSE supply[d].v)
           /\ supply'[d].i = (IF step.i # None THEN step.i ELSE supply[d].i)
<1>1. supply[d] \in [v : Int, i : Int] /\ supply \in [Devices -> [v : Int, i : Int]]
  BY DEF PlanTyped
<1> QED
  BY <1>1 DEF R!Set, R!Value

-----------------------------------------------------------------------------
LEMMA PlanInitIInv == R!Init => PlanIInv
  BY DEF R!Init, PlanIInv, PlanTyped, PlanFromCompiler, PlanResultsThere

(* Typed, across every step.                                               *)
LEMMA PlanTypedStep ==
    ASSUME R!Constants, PlanIInv, [R!Next]_(R!vars) PROVE PlanTyped'
<1>1. ASSUME NEW d \in Devices \cup {None}, R!Replug(d) PROVE PlanTyped'
  BY <1>1 DEF R!Replug, PlanIInv, PlanTyped
<1>2. ASSUME NEW recipe \in OnDisk, R!Compile(recipe) PROVE PlanTyped'
  BY <1>2 DEF R!Compile, PlanIInv, PlanTyped
<1>3. CASE R!ArmPlan
  BY <1>3 DEF R!ArmPlan, PlanIInv, PlanTyped
<1>4. CASE R!Begin
  BY <1>4 DEF R!Begin, PlanIInv, PlanTyped
<1>5. CASE R!StepOther
  BY <1>5 DEF R!StepOther, PlanIInv, PlanTyped
<1>6. ASSUME NEW failed \in BOOLEAN, R!StepAction(failed) PROVE PlanTyped'
  <2>1. /\ plan.steps[pc] \in R!RawSteps /\ plan.main \in Nat /\ pc \in Nat
        /\ R!Kind(plan.steps[pc]) = "action"
    BY <1>6, PlanStepAhead DEF R!StepAction
  <2>2. pc' = pc + 1 \/ pc' = plan.main + 1
    BY <1>6 DEF R!StepAction, R!OnFailure
  <2>3. resolved' = resolved /\ pc' \in Nat
    BY <1>6, <2>1, <2>2 DEF R!StepAction
  <2>4. \/ UNCHANGED supply
        \/ /\ plan.steps[pc].action = "psu.set" /\ R!Refusal(plan.steps[pc]) = None
           /\ R!Set(resolved, plan.steps[pc])
    BY <1>6 DEF R!StepAction
  <2>5. supply' \in [Devices -> [v : Int, i : Int]]
    <3>1. CASE UNCHANGED supply
      BY <3>1 DEF PlanIInv, PlanTyped
    <3>2. CASE /\ plan.steps[pc].action = "psu.set" /\ R!Refusal(plan.steps[pc]) = None
               /\ R!Set(resolved, plan.steps[pc])
      <4>1. R!Value(plan.steps[pc].v) /\ R!Value(plan.steps[pc].i)
        BY <2>1, <3>2 DEF R!Constants
      <4>2. resolved \in Devices
        BY <3>2 DEF R!Refusal, R!Constants, PlanIInv, PlanTyped
      <4> QED
        BY <3>2, <4>1, <4>2, PlanSetKeeps DEF PlanIInv
    <3> QED
      BY <2>4, <3>1, <3>2
  <2> QED
    BY <2>3, <2>5 DEF PlanIInv, PlanTyped
<1>7. ASSUME NEW passes \in BOOLEAN, R!StepAssert(passes) PROVE PlanTyped'
  <2>1. plan.main \in Nat /\ pc \in Nat
    BY <1>7, PlanStepAhead DEF R!StepAssert
  <2>2. pc' = pc + 1 \/ pc' = plan.main + 1
    BY <1>7 DEF R!StepAssert, R!OnFailure
  <2> QED
    BY <1>7, <2>1, <2>2 DEF R!StepAssert, PlanIInv, PlanTyped
<1>8. ASSUME NEW v \in Setpoints \cup {None}, NEW i \in Setpoints \cup {None}, R!SetByOther(v, i)
      PROVE  PlanTyped'
  <2> DEFINE step == [action |-> "psu.set", v |-> v, i |-> i]
  <2>1. R!Value(step.v) /\ R!Value(step.i) /\ resolved \in Devices
    BY <1>8 DEF R!Constants, R!Value, R!SetByOther, PlanIInv, PlanTyped
  <2>2. R!Set(resolved, step) /\ UNCHANGED <<resolved, pc>>
    BY <1>8 DEF R!SetByOther
  <2> HIDE DEF step
  <2>3. supply' \in [Devices -> [v : Int, i : Int]]
    BY <2>1, <2>2, PlanSetKeeps DEF PlanIInv
  <2> QED
    BY <2>2, <2>3 DEF PlanIInv, PlanTyped
<1>9. CASE UNCHANGED R!vars
  BY <1>9 DEF R!vars, PlanIInv, PlanTyped
<1> QED
  BY <1>1, <1>2, <1>3, <1>4, <1>5, <1>6, <1>7, <1>8, <1>9 DEF R!Next

(* Only Begin starts a run, and it wants a plan without problems.          *)
LEMMA PlanFromCompilerStep ==
    ASSUME R!Constants, PlanIInv, [R!Next]_(R!vars) PROVE PlanFromCompiler'
<1>1. CASE plan' = plan /\ (pc' > 0 => pc > 0)
  BY <1>1 DEF PlanIInv, PlanFromCompiler
<1>2. ASSUME NEW recipe \in OnDisk, R!Compile(recipe) PROVE PlanFromCompiler'
  <2>1. plan = None /\ plan' = R!Compiled(recipe, resolved) /\ pc' = pc
    BY <1>2 DEF R!Compile
  <2>2. ~(pc > 0) /\ resolved \in Devices \cup {None}
    BY <2>1 DEF PlanIInv, PlanFromCompiler, PlanTyped
  <2> QED
    BY <2>1, <2>2 DEF PlanFromCompiler
<1>3. CASE R!Begin
  BY <1>3 DEF R!Begin, PlanIInv, PlanFromCompiler
<1>4. ASSUME ~R!Over, UNCHANGED plan PROVE PlanFromCompiler'
  <2>1. pc > 0
    BY <1>4 DEF R!Over, PlanIInv, PlanTyped
  <2> QED
    BY <1>4, <2>1, <1>1
<1>5. ASSUME NEW failed \in BOOLEAN, R!StepAction(failed) PROVE PlanFromCompiler'
  BY <1>5, <1>4 DEF R!StepAction
<1>6. ASSUME NEW passes \in BOOLEAN, R!StepAssert(passes) PROVE PlanFromCompiler'
  BY <1>6, <1>4 DEF R!StepAssert
<1>7. CASE R!StepOther
  BY <1>7, <1>4 DEF R!StepOther
<1> QED
  BY <1>1, <1>2, <1>3, <1>5, <1>6, <1>7
     DEF R!Next, R!Replug, R!ArmPlan, R!SetByOther, R!vars

(* In the steps phase the run goes on only from a step that left its       *)
(* result.                                                                 *)
LEMMA PlanResultsThereStep ==
    ASSUME R!Constants, PlanIInv, [R!Next]_(R!vars) PROVE PlanResultsThere'
<1>1. CASE UNCHANGED <<plan, pc, filled>>
  BY <1>1 DEF PlanIInv, PlanResultsThere
<1>2. ASSUME NEW recipe \in OnDisk, R!Compile(recipe) PROVE PlanResultsThere'
  <2>1. ~(pc > 0) /\ pc' = pc /\ pc \in Nat
    BY <1>2 DEF R!Compile, PlanIInv, PlanFromCompiler, PlanTyped
  <2> QED
    BY <2>1 DEF PlanResultsThere
<1>3. CASE R!Begin
  BY <1>3 DEF R!Begin, PlanResultsThere
<1>4. ASSUME ~R!Over, UNCHANGED plan, filled \subseteq filled',
             \/ pc' = plan.main + 1
             \/ ~R!InMain /\ pc' = pc + 1
             \/ /\ pc' = pc + 1
                /\ R!Kind(plan.steps[pc]) = "action" => R!Fills(plan.steps[pc]) \subseteq filled'
      PROVE  PlanResultsThere'
  <2>1. plan # None /\ pc \in Nat \ {0} /\ plan.main \in Nat
    BY <1>4, PlanStepAhead
  <2> SUFFICES ASSUME pc' \in 1 .. plan.main, NEW k \in 1 .. pc' - 1,
                      R!Kind(plan.steps[k]) = "action"
               PROVE  R!Fills(plan.steps[k]) \subseteq filled'
    BY <1>4 DEF PlanResultsThere
  <2>2. pc' # plan.main + 1
    BY <2>1
  <2>3. pc' = pc + 1
    BY <1>4, <2>2
  <2>4. pc \in 1 .. plan.main /\ R!InMain /\ (k = pc \/ k \in 1 .. pc - 1)
    BY <2>1, <2>3 DEF R!InMain
  <2>5. R!Kind(plan.steps[pc]) = "action" => R!Fills(plan.steps[pc]) \subseteq filled'
    BY ONLY <1>4, <2>2, <2>4
  <2> QED
    BY <2>1, <2>4, <2>5, <1>4 DEF PlanIInv, PlanResultsThere
<1>5. ASSUME NEW failed \in BOOLEAN, R!StepAction(failed) PROVE PlanResultsThere'
  BY <1>5, <1>4 DEF R!StepAction, R!OnFailure
<1>6. ASSUME NEW passes \in BOOLEAN, R!StepAssert(passes) PROVE PlanResultsThere'
  <2>1. R!Kind(plan.steps[pc]) # "action"
    BY <1>6 DEF R!StepAssert
  <2> QED
    BY <1>6, <2>1, <1>4 DEF R!StepAssert, R!OnFailure
<1>7. CASE R!StepOther
  <2>1. R!Kind(plan.steps[pc]) # "action"
    BY <1>7 DEF R!StepOther
  <2> QED
    BY <1>7, <2>1, <1>4 DEF R!StepOther
<1> QED
  BY <1>1, <1>2, <1>3, <1>5, <1>6, <1>7
     DEF R!Next, R!Replug, R!ArmPlan, R!SetByOther, R!vars

LEMMA PlanStepIInv == ASSUME R!Constants, PlanIInv, [R!Next]_(R!vars) PROVE PlanIInv'
  BY PlanTypedStep, PlanFromCompilerStep, PlanResultsThereStep DEF PlanIInv

-----------------------------------------------------------------------------
(* A change of setpoints that the dispatcher let through.                  *)
LEMMA PlanSetWithinLimits ==
    ASSUME R!Constants, PlanTyped, NEW step, step.action = "psu.set", R!Value(step.v),
           R!Value(step.i),
           resolved \in Devices, R!Permits(GlobalLimits, resolved, step), R!Set(resolved, step)
    PROVE  \A d \in Devices :
             /\ supply'[d].v # supply[d].v =>
                    R!Allows(GlobalLimits["V"], supply'[d].v) /\
                        R!Allows(DeviceLimits[d]["V"], supply'[d].v)
             /\ supply'[d].i # supply[d].i =>
                    R!Allows(GlobalLimits["I"], supply'[d].i) /\
                        R!Allows(DeviceLimits[d]["I"], supply'[d].i)
<1>1. /\ \A d \in Devices : d # resolved => supply'[d] = supply[d]
      /\ supply'[resolved].v = (IF step.v # None THEN step.v ELSE supply[resolved].v)
      /\ supply'[resolved].i = (IF step.i # None THEN step.i ELSE supply[resolved].i)
  BY PlanSetKeeps
<1>2. None \notin Int /\ resolved # None
  BY DEF R!Constants
<1>3. ASSUME NEW q \in {"V", "I"}, NEW x \in Int,
             R!Allows(R!Effective(GlobalLimits, resolved, q), x)
      PROVE  R!Allows(GlobalLimits[q], x) /\ R!Allows(DeviceLimits[resolved][q], x)
  <2>1. GlobalLimits[q] \in R!Bounds /\ DeviceLimits[resolved][q] \in R!Bounds
    BY DEF R!Constants
  <2> QED
    BY <1>2, <1>3, <2>1, PlanTighterIsBoth DEF R!Effective
<1>4. /\ step.v # None =>
           step.v \in Int /\ R!Allows(R!Effective(GlobalLimits, resolved, "V"), step.v)
      /\ step.i # None => step.i \in Int /\
           R!Allows(R!Effective(GlobalLimits, resolved, "I"), step.i)
  BY DEF R!Permits, R!Value
<1>5. /\ step.v # None =>
           R!Allows(GlobalLimits["V"], step.v) /\ R!Allows(DeviceLimits[resolved]["V"], step.v)
      /\ step.i # None => R!Allows(GlobalLimits["I"], step.i) /\
           R!Allows(DeviceLimits[resolved]["I"], step.i)
  BY <1>3, <1>4
<1> QED
  BY <1>1, <1>5

(* The heart of it: on the device it was compiled for, armed with what the *)
(* plan names, a step is not refused.                                      *)
LEMMA PlanNotRefused ==
    ASSUME R!Constants, PlanIInv, ~R!Over, R!Kind(plan.steps[pc]) = "action",
           resolved = plan.device, plan.required \subseteq armed
    PROVE  R!Refusal(plan.steps[pc]) = None
<1> DEFINE step == plan.steps[pc]
<1>1. PICK recipe \in OnDisk, d \in Devices \cup {None} :
        /\ plan.device = d /\ R!Problem(recipe, plan.steps, pc, d) = None
        /\ R!Permission(step) \in plan.required \cup {"PASSIVE"} /\ step \in R!RawSteps
  BY PlanStepAhead
<1>2. d # None /\ R!Permits(R!Limits(recipe), d, step)
  BY <1>1 DEF R!Problem, R!Constants
<1>3. step.action = "psu.set" => R!Value(step.v) /\ R!Value(step.i)
  BY <1>1 DEF R!Constants
<1>4. R!Permits(GlobalLimits, d, step)
  BY <1>1, <1>2, <1>3, PlanRecipeLimitsAreStricter
<1> HIDE DEF step
<1> QED
  BY <1>1, <1>2, <1>4 DEF R!Refusal, step

(* Nor does an assertion in the steps phase read what is not there.        *)
LEMMA PlanReadable ==
    ASSUME R!Constants, PlanIInv, ~R!Over, R!Kind(plan.steps[pc]) = "assert", R!InMain
    PROVE  plan.steps[pc].reads \in filled
<1>1. PICK recipe \in OnDisk, d \in Devices \cup {None} :
        R!Problem(recipe, plan.steps, pc, d) = None /\ plan # None /\ pc \in 1 .. Len(plan.steps)
        /\ plan.main \in Nat
  BY PlanStepAhead
<1>2. PICK k \in 1 .. pc - 1 :
        R!Kind(plan.steps[k]) = "action" /\ plan.steps[pc].reads \in R!Fills(plan.steps[k])
  BY <1>1 DEF R!Problem, R!Constants
<1>3. pc \in 1 .. plan.main
  BY <1>1 DEF R!InMain, PlanIInv, PlanTyped
<1> QED
  BY <1>1, <1>2, <1>3 DEF PlanIInv, PlanResultsThere

LEMMA PlanStepKeepsPlan == ASSUME R!Constants, PlanIInv, [R!Next]_(R!vars) PROVE R!KeepsPlan
<1>1. CASE UNCHANGED <<refused, supply>>
  BY <1>1 DEF R!KeepsPlan
<1>2. ASSUME NEW failed \in BOOLEAN, R!StepAction(failed) PROVE R!KeepsPlan
  <2> DEFINE step == plan.steps[pc]
  <2>1. ~R!Over /\ R!Kind(step) = "action" /\ step \in R!RawSteps
    BY <1>2, PlanStepAhead DEF R!StepAction
  <2>2. /\ R!Refusal(step) = None => UNCHANGED refused
        /\ \/ UNCHANGED supply
           \/ R!Refusal(step) = None /\ step.action = "psu.set" /\ R!Set(resolved, step)
    BY <1>2 DEF R!StepAction
  <2>3. ASSUME resolved = plan.device, plan.required \subseteq armed PROVE UNCHANGED refused
    BY <2>1, <2>2, <2>3, PlanNotRefused
  <2>4. CASE UNCHANGED supply
    BY <2>3, <2>4 DEF R!KeepsPlan
  <2>5. CASE R!Refusal(step) = None /\ step.action = "psu.set" /\ R!Set(resolved, step)
    <3>1. resolved \in Devices /\ R!Permits(GlobalLimits, resolved, step)
      BY <2>5 DEF R!Refusal, R!Constants, PlanIInv, PlanTyped
    <3>2. R!Value(step.v) /\ R!Value(step.i)
      BY <2>1, <2>5 DEF R!Constants
    <3> HIDE DEF step
    <3> QED
      BY <2>3, <2>5, <3>1, <3>2, PlanSetWithinLimits DEF R!KeepsPlan, PlanIInv
  <2> QED
    BY <2>2, <2>4, <2>5
<1>3. ASSUME NEW passes \in BOOLEAN, R!StepAssert(passes) PROVE R!KeepsPlan
  <2>1. R!InMain => plan.steps[pc].reads \in filled
    BY <1>3, PlanReadable DEF R!StepAssert
  <2> QED
    BY <1>3, <2>1 DEF R!StepAssert, R!KeepsPlan
<1>4. ASSUME NEW v \in Setpoints \cup {None}, NEW i \in Setpoints \cup {None}, R!SetByOther(v, i)
      PROVE  R!KeepsPlan
  <2> DEFINE step == [action |-> "psu.set", v |-> v, i |-> i]
  <2>1. /\ R!Value(step.v) /\ R!Value(step.i) /\ resolved \in Devices /\ step.action = "psu.set"
        /\ UNCHANGED refused
    BY <1>4 DEF R!Constants, R!Value, R!SetByOther, PlanIInv, PlanTyped
  <2>2. R!Permits(GlobalLimits, resolved, step) /\ R!Set(resolved, step)
    BY <1>4 DEF R!SetByOther
  <2> HIDE DEF step
  <2> QED
    BY <2>1, <2>2, PlanSetWithinLimits DEF R!KeepsPlan, PlanIInv
<1> QED
  BY <1>1, <1>2, <1>3, <1>4
     DEF R!Next, R!Replug, R!Compile, R!ArmPlan, R!Begin, R!StepOther, R!vars

-----------------------------------------------------------------------------
(* The rest of the types: what the operator arms is what a plan asks for,  *)
(* a run ends after the last step, what it has filled are namespaces of    *)
(* its steps, and each refusal has one of three reasons and a phase.       *)
PlanReasons == {"device", "permission", "limit", "unreadable"} \X {"main", "finally"}
PlanReached ==
    /\ armed \subseteq {"QUERY", "POWER"}
    /\ pc > 0 => pc <= Len(plan.steps) + 1
    /\ filled # {} => plan # None
    /\ \A name \in filled : \E n \in DOMAIN plan.steps : name \in R!Fills(plan.steps[n])
    /\ refused \subseteq PlanReasons

LEMMA PlanInitReached == R!Init => PlanReached
  BY DEF R!Init, PlanReached

LEMMA PlanPlanSizes ==
    ASSUME R!Constants, PlanIInv, plan # None
    PROVE  /\ Len(plan.steps) \in Nat /\ Len(plan.steps) <= MaxSteps
           /\ plan.main \in 0 .. Len(plan.steps) /\ plan.required \subseteq {"QUERY", "POWER"}
           /\ DOMAIN plan.steps = 1 .. Len(plan.steps)
<1>1. PICK recipe \in OnDisk, d \in Devices \cup {None} : plan = R!Compiled(recipe, d)
  BY DEF PlanIInv, PlanFromCompiler
<1>2. /\ plan.steps \in Seq(R!RawSteps) /\ plan.main \in Nat /\ plan.main <= Len(plan.steps)
      /\ Len(plan.steps) <= MaxSteps /\ plan.required \subseteq {"QUERY", "POWER"}
  BY <1>1, PlanCompiledShape
<1> QED
  BY <1>2

LEMMA PlanStepReached ==
    ASSUME R!Constants, PlanIInv, PlanReached, [R!Next]_(R!vars)
    PROVE  PlanReached'
<1>1. ASSUME UNCHANGED <<plan, armed, pc, filled, refused>> PROVE PlanReached'
  BY <1>1 DEF PlanReached
<1>2. CASE (\E d \in Devices \cup {None} : R!Replug(d)) \/ UNCHANGED R!vars
           \/ \E v, i \in Setpoints \cup {None} : R!SetByOther(v, i)
  BY <1>1, <1>2 DEF R!Replug, R!vars, R!SetByOther
<1>3. ASSUME NEW recipe \in OnDisk, R!Compile(recipe) PROVE PlanReached'
  <2>1. ~(pc > 0) /\ filled = {}
    BY <1>3 DEF R!Compile, PlanIInv, PlanFromCompiler, PlanReached
  <2> QED
    BY <1>3, <2>1 DEF R!Compile, PlanReached
<1>4. CASE R!ArmPlan
  BY <1>4, PlanPlanSizes DEF R!ArmPlan, PlanReached
<1>5. CASE R!Begin
  BY <1>5, PlanPlanSizes DEF R!Begin, PlanReached
<1>6. ASSUME ~R!Over, UNCHANGED <<plan, armed>>, pc' = pc + 1 \/ R!OnFailure,
             refused' \ refused \subseteq PlanReasons,
             filled' = filled \/ filled' = filled \cup R!Fills(plan.steps[pc])
      PROVE  PlanReached'
  <2>1. plan # None /\ pc \in 1 .. Len(plan.steps) /\ plan.steps[pc] \in R!RawSteps
    BY <1>6, PlanStepAhead
  <2>2. Len(plan.steps) \in Nat /\ plan.main \in 0 .. Len(plan.steps)
    BY <2>1, PlanPlanSizes
  <2>3. pc' <= Len(plan.steps) + 1
    BY <1>6, <2>1, <2>2 DEF R!OnFailure, R!InMain
  <2>4. /\ filled' # {} => plan' # None
        /\ \A name \in filled' : \E n \in DOMAIN plan'.steps : name \in R!Fills(plan'.steps[n])
    <3>1. pc \in DOMAIN plan.steps
      BY <2>1, PlanPlanSizes
    <3> QED
      BY <1>6, <2>1, <3>1 DEF PlanReached
  <2>5. refused' \subseteq PlanReasons
    BY <1>6 DEF PlanReached
  <2> QED
    BY <1>6, <2>3, <2>4, <2>5 DEF PlanReached
<1>7. ASSUME NEW failed \in BOOLEAN, R!StepAction(failed) PROVE PlanReached'
  <2> DEFINE step == plan.steps[pc]
             phase == IF R!InMain THEN "main" ELSE "finally"
  <2>1. R!Refusal(step) \in {"device", "permission", "limit", None} /\ phase \in {"main", "finally"}
    BY DEF R!Refusal
  <2>2. \/ refused' = refused
        \/ R!Refusal(step) # None /\ refused' = refused \cup {<<R!Refusal(step), phase>>}
    BY <1>7 DEF R!StepAction
  <2>3. refused' \ refused \subseteq PlanReasons
    <3> HIDE DEF step, phase
    <3> QED
      BY <2>1, <2>2 DEF PlanReasons
  <2>4. filled' = filled \/ filled' = filled \cup R!Fills(step)
    BY <1>7 DEF R!StepAction
  <2>5. ~R!Over /\ UNCHANGED <<plan, armed>> /\ (pc' = pc + 1 \/ R!OnFailure)
    BY <1>7 DEF R!StepAction
  <2> QED
    BY <1>6, <2>3, <2>4, <2>5
<1>8. ASSUME NEW passes \in BOOLEAN, R!StepAssert(passes) PROVE PlanReached'
  <2> DEFINE phase == IF R!InMain THEN "main" ELSE "finally"
  <2>1. refused' = refused \/ refused' = refused \cup {<<"unreadable", phase>>}
    BY <1>8 DEF R!StepAssert
  <2>2. refused' \ refused \subseteq PlanReasons
    BY <2>1 DEF PlanReasons
  <2>3. ~R!Over /\ UNCHANGED <<plan, armed, filled>> /\ (pc' = pc + 1 \/ R!OnFailure)
    BY <1>8 DEF R!StepAssert
  <2> QED
    BY <1>6, <2>2, <2>3
<1>9. CASE R!StepOther
  BY <1>6, <1>9 DEF R!StepOther
<1> QED
  BY <1>2, <1>3, <1>4, <1>5, <1>7, <1>8, <1>9 DEF R!Next

LEMMA PlanMeansTyped == ASSUME R!Constants, PlanIInv, PlanReached PROVE R!TypeOK
<1>1. plan # None => plan.main \in 0 .. Len(plan.steps) /\ Len(plan.steps) <= MaxSteps
  BY PlanPlanSizes
<1>2. pc \in 0 .. MaxSteps + 1
  <2>1. CASE pc > 0
    <3>1. plan # None
      BY <2>1 DEF PlanIInv, PlanFromCompiler
    <3> QED
      BY <2>1, <3>1, PlanPlanSizes DEF PlanIInv, PlanTyped, PlanReached, R!Constants
  <2>2. CASE ~(pc > 0)
    BY <2>2 DEF PlanIInv, PlanTyped, R!Constants
  <2> QED
    BY <2>1, <2>2
<1>3. \A d \in Devices : DOMAIN supply[d] = {"v", "i"}
  <2>1. \A d \in Devices : supply[d] \in [v : Int, i : Int]
    BY DEF PlanIInv, PlanTyped
  <2> QED
    BY <2>1
<1> QED
  BY <1>1, <1>2, <1>3 DEF PlanIInv, PlanTyped, PlanReached, PlanReasons, R!TypeOK

=============================================================================
