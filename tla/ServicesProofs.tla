---------------------------- MODULE ServicesProofs ----------------------------
(* Proofs about the components of Services, one after the other, for every *)
(* value of their constants: for each, an inductive invariant that its     *)
(* initial states satisfy, that its steps keep, and that implies what      *)
(* Components states of it.                                                *)
EXTENDS Services, FiniteSetTheorems, FunctionTheorems, Integers, NaturalsInduction, SequenceTheorems, WellFoundedInduction, TLAPS

-----------------------------------------------------------------------------
(* Daemon: for any number of devices, clients, overlapping discoveries and *)
(* faults.                                                                 *)

(* The inductive invariant, in named parts.                                *)

(* A daemon that is not there has no connection and no handler.            *)
DaemonQuiet == phase = "down" => conns = {} /\ \A c \in Clients : job[c] = None

(* A handler has its device's lease, or was overtaken by a safe state, or  *)
(* the code has said why its output may be on: its end leaves nothing on   *)
(* that nobody answers for.                                                *)
DaemonAnswers == \A c \in Clients : job[c] # None =>
                    c \in late \/ lease[job[c]] = c \/ excuse[job[c]] # {}

(* What is registered and was not found is on some discovery's list.       *)
DaemonListed == phase # "released" =>
              \A d \in registry : d \in found \/ \E x \in Scans : scan[x].on /\ d \in scan[x].todo

DaemonIInv == D!TypeOK /\ DaemonQuiet /\ DaemonAnswers /\ D!HeldOrExcused /\ DaemonListed

(* Everything but the boot and the end of the process.                     *)
DaemonOfDevice(d) == D!SafeOne(d) \/ D!Lapse(d) \/ D!RegisterFound(d) \/ D!Unplug(d) \/ D!Replug(d)
DaemonOfScan(x) == D!Discover(x) \/ D!SurrenderLeases(x) \/ \E d \in Supplies : D!RemoveDriver(x, d)
DaemonOfClient(c) ==
    \/ D!Connect(c) \/ D!SwitchOn(c) \/ D!Finish(c) \/ D!Depart(c) \/ D!OnDisconnect(c) \/
         D!Cancel(c)
    \/ \E d \in Supplies : D!Execute(c, d)
DaemonOfPhase == D!Listen \/ D!Stop \/ D!CloseConnections \/ D!Release

LEMMA DaemonInitIInv == D!Constants /\ D!Init => DaemonIInv
<1> SUFFICES ASSUME D!Constants, D!Init PROVE DaemonIInv
  OBVIOUS
<1>1. D!TypeOK
  BY DEF D!Constants, D!Init, D!TypeOK, D!Phases, D!Idle, D!Reasons
<1> QED
  BY <1>1 DEF D!Init, DaemonIInv, DaemonQuiet, DaemonAnswers, D!HeldOrExcused, DaemonListed

-----------------------------------------------------------------------------
(* Types.                                                                  *)

LEMMA DaemonFaultTyped == D!Constants /\ D!TypeOK /\ D!Fault => spent' \in 0 .. MaxFaults
  BY DEF D!Constants, D!TypeOK, D!Fault

LEMMA DaemonExcusedTyped ==
    ASSUME D!TypeOK, NEW ds, NEW why \in D!Reasons
    PROVE  D!Excused(ds, why) \in [Supplies -> SUBSET D!Reasons]
  BY DEF D!TypeOK, D!Excused

LEMMA DaemonTypeStep ==
    ASSUME D!Constants, D!TypeOK, [D!Next]_(D!vars)
    PROVE  D!TypeOK'
<1>1. ASSUME NEW d \in Supplies, DaemonOfDevice(d) PROVE D!TypeOK'
  <2>1. CASE D!SafeOne(d)
    <3>1. spent' \in 0 .. MaxFaults
      BY <2>1, DaemonFaultTyped DEF D!SafeOne, D!TypeOK
    <3>2. excuse' \in [Supplies -> SUBSET D!Reasons]
      BY <2>1, DaemonExcusedTyped DEF D!SafeOne, D!TypeOK, D!Reasons
    <3> QED
      BY <2>1, <3>1, <3>2 DEF D!SafeOne, D!TypeOK
  <2>2. CASE D!Lapse(d)
    BY <2>2 DEF D!Lapse, D!TypeOK
  <2>3. CASE D!RegisterFound(d)
    <3>1. excuse' \in [Supplies -> SUBSET D!Reasons]
      BY <2>3, DaemonExcusedTyped DEF D!RegisterFound, D!Reasons
    <3> QED
      BY <2>3, <3>1 DEF D!RegisterFound, D!TypeOK
  <2>4. CASE D!Unplug(d) \/ D!Replug(d)
    BY <2>4, DaemonFaultTyped DEF D!Unplug, D!Replug, D!TypeOK
  <2> QED
    BY <1>1, <2>1, <2>2, <2>3, <2>4 DEF DaemonOfDevice
<1>2. ASSUME NEW x \in Scans, DaemonOfScan(x) PROVE D!TypeOK'
  <2>1. CASE D!Discover(x)
    <3>1. PICK failed \in SUBSET present :
             /\ IF failed = {} THEN UNCHANGED spent ELSE D!Fault
             /\ found' = D!ScanResult(present, failed)
      BY <2>1 DEF D!Discover
    <3>2. spent' \in 0 .. MaxFaults /\ found' \subseteq Supplies
      BY <3>1, DaemonFaultTyped DEF D!TypeOK, D!ScanResult
    <3>3. excuse' \in [Supplies -> SUBSET D!Reasons]
      BY <2>1, DaemonExcusedTyped DEF D!Discover, D!Reasons
    <3>4. scan' \in [Scans -> [on : BOOLEAN, todo : SUBSET Supplies, gone : Supplies \cup {None}]]
      BY <2>1 DEF D!Discover, D!TypeOK
    <3> QED
      BY <2>1, <3>2, <3>3, <3>4 DEF D!Discover, D!TypeOK
  <2>2. CASE D!SurrenderLeases(x)
    <3>1. excuse' \in [Supplies -> SUBSET D!Reasons]
      BY <2>2, DaemonExcusedTyped DEF D!SurrenderLeases, D!TypeOK, D!Reasons
    <3>2. scan' \in [Scans -> [on : BOOLEAN, todo : SUBSET Supplies, gone : Supplies \cup {None}]]
      BY <2>2 DEF D!SurrenderLeases, D!TypeOK
    <3>3. lease' \in [Supplies -> Clients \cup {None}]
      BY <2>2 DEF D!SurrenderLeases, D!TypeOK
    <3> QED
      BY <2>2, <3>1, <3>2, <3>3 DEF D!SurrenderLeases, D!TypeOK
  <2>3. ASSUME NEW d \in Supplies, D!RemoveDriver(x, d) PROVE D!TypeOK'
    <3>1. scan' \in [Scans -> [on : BOOLEAN, todo : SUBSET Supplies, gone : Supplies \cup {None}]]
      BY <2>3 DEF D!RemoveDriver, D!TypeOK
    <3> QED
      BY <2>3, <3>1 DEF D!RemoveDriver, D!TypeOK
  <2> QED
    BY <1>2, <2>1, <2>2, <2>3 DEF DaemonOfScan
<1>3. ASSUME NEW c \in Clients, DaemonOfClient(c) PROVE D!TypeOK'
  <2>1. CASE D!Connect(c) \/ D!Depart(c)
    BY <2>1 DEF D!Connect, D!Depart, D!TypeOK
  <2>2. CASE D!SwitchOn(c)
    BY <2>2 DEF D!SwitchOn, D!TypeOK
  <2>3. CASE D!Finish(c)
    <3>1. excuse' \in [Supplies -> SUBSET D!Reasons]
      BY <2>3, DaemonExcusedTyped DEF D!Finish, D!TypeOK, D!Reasons
    <3>2. lease' \in [Supplies -> Clients \cup {None}] /\ job' \in [Clients -> Supplies \cup {None}]
      BY <2>3 DEF D!Finish, D!TypeOK
    <3>3. safing' \subseteq Supplies /\ late' \subseteq Clients
      BY <2>3 DEF D!Finish, D!TypeOK
    <3> QED
      BY <2>3, <3>1, <3>2, <3>3 DEF D!Finish, D!TypeOK
  <2>4. CASE D!OnDisconnect(c)
    <3>1. excuse' \in [Supplies -> SUBSET D!Reasons]
      BY <2>4, DaemonExcusedTyped DEF D!OnDisconnect, D!Reasons
    <3>2. lease' \in [Supplies -> Clients \cup {None}]
      BY <2>4 DEF D!OnDisconnect, D!TypeOK
    <3> QED
      BY <2>4, <3>1, <3>2 DEF D!OnDisconnect, D!ApplySafeState, D!TypeOK
  <2>5. CASE D!Cancel(c)
    <3>1. excuse' \in [Supplies -> SUBSET D!Reasons]
      BY <2>5, DaemonExcusedTyped DEF D!Cancel, D!Reasons
    <3>2. lease' \in [Supplies -> Clients \cup {None}] /\ job' \in [Clients -> Supplies \cup {None}]
      BY <2>5 DEF D!Cancel, D!TypeOK
    <3> QED
      BY <2>5, <3>1, <3>2 DEF D!Cancel, D!TypeOK
  <2>6. ASSUME NEW d \in Supplies, D!Execute(c, d) PROVE D!TypeOK'
    BY <2>6 DEF D!Execute, D!TypeOK
  <2> QED
    BY <1>3, <2>1, <2>2, <2>3, <2>4, <2>5, <2>6 DEF DaemonOfClient
<1>4. CASE DaemonOfPhase
  <2>1. CASE D!Listen
    BY <2>1 DEF D!Listen, D!TypeOK, D!Phases
  <2>2. CASE D!Stop
    BY <2>2 DEF D!Stop, D!ApplySafeState, D!TypeOK, D!Phases
  <2>3. CASE D!CloseConnections
    BY <2>3 DEF D!CloseConnections, D!TypeOK, D!Phases
  <2>4. CASE D!Release
    <3>1. scan' \in [Scans -> [on : BOOLEAN, todo : SUBSET Supplies, gone : Supplies \cup {None}]]
      BY <2>4 DEF D!Release, D!Idle
    <3> QED
      BY <2>4, <3>1 DEF D!Release, D!TypeOK, D!Phases
  <2> QED
    BY <1>4, <2>1, <2>2, <2>3, <2>4 DEF DaemonOfPhase
<1>5. CASE D!Sweep
  <2>1. excuse' \in [Supplies -> SUBSET D!Reasons]
    BY <1>5, DaemonExcusedTyped DEF D!Sweep, D!Reasons
  <2>2. lease' \in [Supplies -> Clients \cup {None}]
    BY <1>5 DEF D!Sweep, D!TypeOK
  <2> QED
    BY <1>5, <2>1, <2>2 DEF D!Sweep, D!ApplySafeState, D!TypeOK
<1>6. CASE D!Boot
  <2>1. PICK failed \in SUBSET present :
           /\ IF failed = {} THEN UNCHANGED spent ELSE D!Fault
           /\ found' = D!ScanResult(present, failed)
           /\ registry' = found' /\ safing' = found'
    BY <1>6 DEF D!Boot
  <2>2. /\ spent' \in 0 .. MaxFaults /\ found' \subseteq Supplies
        /\ registry' \subseteq Supplies /\ safing' \subseteq Supplies
    BY <2>1, DaemonFaultTyped DEF D!TypeOK, D!ScanResult
  <2>3. excuse' \in [Supplies -> SUBSET D!Reasons] /\ lease' \in [Supplies -> Clients \cup {None}]
    BY <1>6 DEF D!Boot, D!Reasons
  <2> QED
    BY <1>6, <2>2, <2>3 DEF D!Boot, D!TypeOK, D!Phases
<1>7. CASE D!Exit \/ D!Kill
  <2>1. D!ProcessEnds
    BY <1>7 DEF D!Exit, D!Kill
  <2>2. spent' \in 0 .. MaxFaults
    BY <1>7, DaemonFaultTyped DEF D!Exit, D!Kill, D!TypeOK
  <2>3. scan' \in [Scans -> [on : BOOLEAN, todo : SUBSET Supplies, gone : Supplies \cup {None}]]
    BY <2>1 DEF D!ProcessEnds, D!Idle
  <2>4. lease' \in [Supplies -> Clients \cup {None}] /\ job' \in [Clients -> Supplies \cup {None}]
    BY <2>1 DEF D!ProcessEnds
  <2> QED
    BY <2>1, <2>2, <2>3, <2>4 DEF D!ProcessEnds, D!TypeOK, D!Phases
<1>8. CASE UNCHANGED D!vars
  BY <1>8 DEF D!vars, D!TypeOK
<1> QED
  BY <1>1, <1>2, <1>3, <1>4, <1>5, <1>6, <1>7, <1>8
     DEF D!Next, DaemonOfDevice, DaemonOfScan, DaemonOfClient, DaemonOfPhase

-----------------------------------------------------------------------------
(* Before the boot nobody is connected and nothing runs.                   *)

LEMMA DaemonQuietStep ==
    ASSUME D!Constants, D!TypeOK, DaemonQuiet, [D!Next]_(D!vars)
    PROVE  DaemonQuiet'
<1>1. CASE D!Exit \/ D!Kill
  BY <1>1 DEF D!Exit, D!Kill, D!ProcessEnds, DaemonQuiet
<1>2. CASE D!Boot \/ D!Sweep \/ DaemonOfPhase
  BY <1>2 DEF D!Boot, D!Sweep, DaemonOfPhase, D!Listen, D!Stop, D!CloseConnections, D!Release,
     DaemonQuiet
<1>3. ASSUME NEW d \in Supplies, DaemonOfDevice(d) PROVE DaemonQuiet'
  BY <1>3 DEF DaemonOfDevice, D!SafeOne, D!Lapse, D!RegisterFound, D!Unplug, D!Replug, DaemonQuiet
<1>4. ASSUME NEW x \in Scans, DaemonOfScan(x) PROVE DaemonQuiet'
  BY <1>4 DEF DaemonOfScan, D!Discover, D!SurrenderLeases, D!RemoveDriver, DaemonQuiet
<1>5. ASSUME NEW c \in Clients, DaemonOfClient(c) PROVE DaemonQuiet'
  <2>1. CASE D!Connect(c)
    BY <2>1 DEF D!Connect, DaemonQuiet
  <2>2. CASE D!SwitchOn(c) \/ D!Finish(c) \/ D!Cancel(c)
    BY <2>2 DEF D!SwitchOn, D!Finish, D!Cancel, DaemonQuiet
  <2>3. CASE D!Depart(c) \/ D!OnDisconnect(c)
    BY <2>3 DEF D!Depart, D!OnDisconnect, DaemonQuiet
  <2>4. ASSUME NEW d \in Supplies, D!Execute(c, d) PROVE DaemonQuiet'
    BY <2>4 DEF D!Execute, DaemonQuiet
  <2> QED
    BY <1>5, <2>1, <2>2, <2>3, <2>4 DEF DaemonOfClient
<1>6. CASE UNCHANGED D!vars
  BY <1>6 DEF D!vars, DaemonQuiet
<1> QED
  BY <1>1, <1>2, <1>3, <1>4, <1>5, <1>6 DEF D!Next, DaemonOfDevice, DaemonOfScan,
     DaemonOfClient, DaemonOfPhase

-----------------------------------------------------------------------------
(* Discovery: each sets what was found, and lists what it missed.          *)

LEMMA DaemonListedStep ==
    ASSUME D!Constants, D!TypeOK, DaemonListed, [D!Next]_(D!vars)
    PROVE  DaemonListed'
<1>1. ASSUME NEW x \in Scans, D!Discover(x) PROVE DaemonListed'
  <2>1. scan'[x] = [on |-> registry \ found' # {}, todo |-> registry \ found', gone |-> None]
    BY <1>1 DEF D!Discover, D!TypeOK
  <2>2. registry' = registry \cup found'
    BY <1>1 DEF D!Discover
  <2>3. ASSUME NEW d \in registry', d \notin found'
        PROVE  scan'[x].on /\ d \in scan'[x].todo
    <3>1. d \in registry \ found'
      BY <2>2, <2>3
    <3>2. scan'[x].todo = registry \ found' /\ scan'[x].on = (registry \ found' # {})
      BY <2>1
    <3>3. registry \ found' # {}
      BY <3>1
    <3> QED
      BY <3>1, <3>2, <3>3
  <2> QED
    BY <2>3 DEF DaemonListed
<1>2. ASSUME NEW x \in Scans, D!SurrenderLeases(x) PROVE DaemonListed'
  <2>1. /\ scan'[x] = [on |-> scan[x].todo # {}, todo |-> scan[x].todo, gone |-> None]
        /\ \A y \in Scans : y # x => scan'[y] = scan[y]
    BY <1>2 DEF D!SurrenderLeases, D!TypeOK
  <2>2. phase' = phase /\ registry' = registry /\ found' = found
    BY <1>2 DEF D!SurrenderLeases
  <2>3. ASSUME NEW y \in Scans, NEW d, scan[y].on, d \in scan[y].todo
        PROVE  scan'[y].on /\ d \in scan'[y].todo
    <3>1. CASE y = x
      <4>1. scan'[x].todo = scan[x].todo /\ scan'[x].on = (scan[x].todo # {})
        BY <2>1
      <4>2. scan[x].todo # {}
        BY <2>3, <3>1
      <4> QED
        BY <2>3, <3>1, <4>1, <4>2
    <3> QED
      BY <2>1, <2>3, <3>1
  <2> QED
    BY <2>2, <2>3 DEF DaemonListed
<1>3. ASSUME NEW x \in Scans, NEW e \in Supplies, D!RemoveDriver(x, e) PROVE DaemonListed'
  <2>1. /\ scan'[x].on = (scan[x].todo # {e} \/ e \in registry)
        /\ scan'[x].todo = scan[x].todo \ {e}
        /\ \A y \in Scans : y # x => scan'[y] = scan[y]
    BY <1>3 DEF D!RemoveDriver, D!TypeOK
  <2>2. phase' = phase /\ registry' = registry \ {e} /\ found' = found
    BY <1>3 DEF D!RemoveDriver
  <2>3. ASSUME NEW y \in Scans, NEW d, d # e, scan[y].on, d \in scan[y].todo
        PROVE  scan'[y].on /\ d \in scan'[y].todo
    BY <2>1, <2>3
  <2> QED
    BY <2>2, <2>3 DEF DaemonListed
<1>4. ASSUME NEW d \in Supplies, DaemonOfDevice(d) PROVE DaemonListed'
  BY <1>4 DEF DaemonOfDevice, D!SafeOne, D!Lapse, D!RegisterFound, D!Unplug, D!Replug, DaemonListed
<1>5. ASSUME NEW c \in Clients, DaemonOfClient(c) PROVE DaemonListed'
  BY <1>5 DEF DaemonOfClient, D!Connect, D!SwitchOn, D!Finish, D!Depart, D!OnDisconnect,
     D!Cancel, D!Execute, DaemonListed
<1>6. CASE D!Boot \/ D!Exit \/ D!Kill
  BY <1>6 DEF D!Boot, D!Exit, D!Kill, D!ProcessEnds, DaemonListed
<1>7. CASE D!Sweep \/ DaemonOfPhase \/ UNCHANGED D!vars
  BY <1>7 DEF D!Sweep, DaemonOfPhase, D!Listen, D!Stop, D!CloseConnections, D!Release, D!vars,
     DaemonListed
<1> QED
  BY <1>1, <1>2, <1>3, <1>4, <1>5, <1>6, <1>7 DEF D!Next, DaemonOfDevice, DaemonOfScan,
     DaemonOfClient, DaemonOfPhase

-----------------------------------------------------------------------------
(* Outputs: what each step leaves of the reasons an output may be on.      *)

(* An excuse that is added is never missing.                               *)
LEMMA DaemonExcusedGrows ==
    ASSUME D!TypeOK, NEW ds, NEW why, NEW d \in Supplies
    PROVE  /\ excuse[d] # {} => D!Excused(ds, why)[d] # {}
           /\ d \in ds => D!Excused(ds, why)[d] # {}
  BY DEF D!Excused, D!TypeOK

(* Leases that end together, their devices made safe where there are       *)
(* drivers to do it: the safety timer's sweep and a disconnect.            *)
LEMMA DaemonTakenTogether ==
    ASSUME D!TypeOK, DaemonAnswers, D!HeldOrExcused, NEW ds \in SUBSET Supplies,
           lease' = [d \in Supplies |-> IF d \in ds THEN None ELSE lease[d]],
           D!ApplySafeState(ds), excuse' = D!Excused(ds \ registry, "unreached"),
           job' = job, output' = output, phase' = phase
    PROVE  DaemonAnswers' /\ D!HeldOrExcused'
<1>1. ASSUME NEW c \in Clients, job'[c] # None
      PROVE  c \in late' \/ lease'[job'[c]] = c \/ excuse'[job'[c]] # {}
  <2>1. job[c] \in Supplies /\ job'[c] = job[c]
    BY <1>1 DEF D!TypeOK
  <2>2. c \in late \/ lease[job[c]] = c \/ excuse[job[c]] # {}
    BY <1>1 DEF DaemonAnswers
  <2>3. CASE job[c] \in ds \cap registry
    BY <2>3 DEF D!ApplySafeState
  <2>4. CASE job[c] \in ds \ registry
    BY <2>1, <2>4, DaemonExcusedGrows
  <2>5. CASE job[c] \notin ds
    BY <2>1, <2>2, <2>5, DaemonExcusedGrows DEF D!ApplySafeState
  <2> QED
    BY <2>1, <2>3, <2>4, <2>5
<1>2. ASSUME phase \notin {"down", "released"}, NEW d \in output
      PROVE  lease'[d] # None \/ (\E c \in Clients : job[c] = d) \/ d \in safing' \/ excuse'[d] # {}
  <2>1. d \in Supplies
    BY DEF D!TypeOK
  <2>2. lease[d] # None \/ (\E c \in Clients : job[c] = d) \/ d \in safing \/ excuse[d] # {}
    BY <1>2 DEF D!HeldOrExcused, D!Held, D!Working
  <2>3. CASE d \in ds \cap registry
    BY <2>3 DEF D!ApplySafeState
  <2>4. CASE d \in ds \ registry
    BY <2>1, <2>4, DaemonExcusedGrows
  <2>5. CASE d \notin ds
    BY <2>1, <2>2, <2>5, DaemonExcusedGrows DEF D!ApplySafeState
  <2> QED
    BY <2>3, <2>4, <2>5
<1> QED
  BY <1>1, <1>2 DEF DaemonAnswers, D!HeldOrExcused, D!Held, D!Working

(* Nothing is taken away from what answers for an output.                  *)
LEMMA DaemonNothingTaken ==
    ASSUME D!TypeOK, DaemonAnswers, D!HeldOrExcused, job' = job, lease' = lease,
           late \subseteq late',
           safing \subseteq safing', output' \subseteq output,
           \A d \in Supplies : excuse[d] # {} => excuse'[d] # {},
           phase' = phase \/ phase \notin {"down", "released"} \/ phase' \in {"down", "released"}
    PROVE  DaemonAnswers' /\ D!HeldOrExcused'
<1>1. \A c \in Clients : job[c] # None => job[c] \in Supplies
  BY DEF D!TypeOK
<1>2. DaemonAnswers'
  BY <1>1 DEF DaemonAnswers
<1>3. output \subseteq Supplies
  BY DEF D!TypeOK
<1>4. D!HeldOrExcused'
  BY <1>3 DEF D!HeldOrExcused, D!Held, D!Working
<1> QED
  BY <1>2, <1>4

(* A handler's end: its device is excused, made safe, or still leased.     *)
LEMMA DaemonFinishHeld ==
    ASSUME D!Constants, D!TypeOK, DaemonAnswers, D!HeldOrExcused, NEW c \in Clients, D!Finish(c)
    PROVE  DaemonAnswers' /\ D!HeldOrExcused'
<1> DEFINE d == job[c]
<1>1. d \in Supplies /\ d # None
  BY DEF D!Finish, D!TypeOK
<1>2. job'[c] = None /\ \A b \in Clients \ {c} : job'[b] = job[b]
  BY DEF D!Finish, D!TypeOK
<1>3. UNCHANGED <<phase, output>>
  BY DEF D!Finish
<1>4. CASE c \in late
  <2>1. /\ \A e \in Supplies \ {d} : lease'[e] = lease[e] /\ excuse'[e] = excuse[e]
        /\ \A b \in Clients \ {c} : lease[d] = b => lease'[d] = b
        /\ safing \subseteq safing' /\ (d \in registry => d \in safing')
        /\ excuse[d] # {} => excuse'[d] # {}
        /\ d \notin registry => excuse'[d] # {}
        /\ \A b \in Clients \ {c} : b \in late \/ (job[b] = d /\ d \in registry) => b \in late'
    <3>1. lease' = IF lease[d] = c THEN [lease EXCEPT ![d] = None] ELSE lease
      BY <1>4 DEF D!Finish
    <3>2. excuse' = IF d \in registry THEN excuse ELSE D!Excused({d}, "unreached")
      BY <1>4 DEF D!Finish
    <3>3. /\ safing' = safing \cup ({d} \cap registry)
          /\ late' = (late \ {c}) \cup {b \in Clients \ {c} : job[b] = d /\ d \in registry}
      BY <1>4 DEF D!Finish
    <3>4. \A e \in Supplies \ {d} : D!Excused({d}, "unreached")[e] = excuse[e]
      BY DEF D!Excused
    <3>5. /\ \A e \in Supplies \ {d} : lease'[e] = lease[e]
          /\ \A b \in Clients \ {c} : lease[d] = b => lease'[d] = b
      BY <1>1, <3>1 DEF D!TypeOK
    <3>6. /\ excuse[d] # {} => excuse'[d] # {}
          /\ d \notin registry => excuse'[d] # {}
      BY <1>1, <3>2, DaemonExcusedGrows
    <3> HIDE DEF d
    <3> QED
      BY <3>2, <3>3, <3>4, <3>5, <3>6
  <2>2. DaemonAnswers'
    <3> SUFFICES ASSUME NEW b \in Clients, job'[b] # None
                 PROVE  b \in late' \/ lease'[job'[b]] = b \/ excuse'[job'[b]] # {}
      BY DEF DaemonAnswers
    <3>1. b # c /\ job'[b] = job[b] /\ job[b] \in Supplies
      BY <1>2 DEF D!TypeOK
    <3>2. b \in late \/ lease[job[b]] = b \/ excuse[job[b]] # {}
      BY <3>1 DEF DaemonAnswers
    <3>3. CASE job[b] = d
      BY <2>1, <3>1, <3>2, <3>3
    <3>4. CASE job[b] # d
      BY <2>1, <3>1, <3>2, <3>4
    <3> QED
      BY <3>3, <3>4
  <2>3. D!HeldOrExcused'
    <3> SUFFICES ASSUME phase \notin {"down", "released"}, NEW e \in output
                 PROVE  lease'[e] # None \/ (\E b \in Clients : job'[b] = e) \/ e \in safing'
                        \/ excuse'[e] # {}
      BY <1>3 DEF D!HeldOrExcused, D!Held, D!Working
    <3>1. e \in Supplies
      BY DEF D!TypeOK
    <3>2. CASE e = d
      BY <2>1, <3>2
    <3>3. CASE e # d
      <4>1. lease[e] # None \/ (\E b \in Clients : job[b] = e) \/ e \in safing \/ excuse[e] # {}
        BY DEF D!HeldOrExcused, D!Held, D!Working
      <4> QED
        BY <1>2, <2>1, <3>1, <3>3, <4>1
    <3> QED
      BY <3>2, <3>3
  <2> QED
    BY <2>2, <2>3
<1>5. CASE c \notin late
  <2>1. UNCHANGED <<lease, safing, late, excuse>>
    BY <1>5 DEF D!Finish
  <2>2. lease[d] = c \/ excuse[d] # {}
    BY <1>1, <1>5 DEF DaemonAnswers
  <2>3. DaemonAnswers'
    BY <1>2, <2>1 DEF DaemonAnswers
  <2>4. D!HeldOrExcused'
    <3> SUFFICES ASSUME phase \notin {"down", "released"}, NEW e \in output
                 PROVE  lease[e] # None \/ (\E b \in Clients : job'[b] = e) \/ e \in safing
                        \/ excuse[e] # {}
      BY <1>3, <2>1 DEF D!HeldOrExcused, D!Held, D!Working
    <3>1. lease[e] # None \/ (\E b \in Clients : job[b] = e) \/ e \in safing \/ excuse[e] # {}
      BY DEF D!HeldOrExcused, D!Held, D!Working
    <3>2. CASE e = d
      <4>1. lease[d] = c => lease[d] # None
        BY DEF D!Constants
      <4> QED
        BY <2>2, <3>2, <4>1
    <3>3. CASE e # d
      BY <1>2, <3>1, <3>3
    <3> QED
      BY <3>2, <3>3
  <2> QED
    BY <2>3, <2>4
<1> QED
  BY <1>4, <1>5

(* A handler that is cancelled leaves its reason.                          *)
LEMMA DaemonCancelHeld ==
    ASSUME D!TypeOK, DaemonAnswers, D!HeldOrExcused, NEW c \in Clients, D!Cancel(c)
    PROVE  DaemonAnswers' /\ D!HeldOrExcused'
<1> DEFINE d == job[c]
<1>1. d \in Supplies
  BY DEF D!Cancel, D!TypeOK
<1>2. job'[c] = None /\ \A b \in Clients \ {c} : job'[b] = job[b]
  BY DEF D!Cancel, D!TypeOK
<1>3. /\ phase' = phase /\ output' = output /\ safing' = safing
      /\ late' = late \ {c} /\ excuse' = D!Excused({d}, "abandoned")
      /\ lease' = IF lease[d] = c THEN [lease EXCEPT ![d] = None] ELSE lease
  BY DEF D!Cancel
<1>4. \A e \in Supplies \ {d} : lease'[e] = lease[e] /\ excuse'[e] = excuse[e]
  BY <1>1, <1>3 DEF D!TypeOK, D!Excused
<1>5. excuse'[d] # {}
  BY <1>1, <1>3, DaemonExcusedGrows
<1> HIDE DEF d
<1>6. DaemonAnswers'
  <2> SUFFICES ASSUME NEW b \in Clients, job'[b] # None
               PROVE  b \in late' \/ lease'[job'[b]] = b \/ excuse'[job'[b]] # {}
    BY DEF DaemonAnswers
  <2>1. b # c /\ job'[b] = job[b] /\ job[b] \in Supplies
    BY <1>2 DEF D!TypeOK
  <2>2. b \in late \/ lease[job[b]] = b \/ excuse[job[b]] # {}
    BY <2>1 DEF DaemonAnswers
  <2> QED
    BY <1>3, <1>4, <1>5, <2>1, <2>2
<1>7. D!HeldOrExcused'
  <2> SUFFICES ASSUME phase \notin {"down", "released"}, NEW e \in output
               PROVE  lease'[e] # None \/ (\E b \in Clients : job'[b] = e) \/ e \in safing'
                      \/ excuse'[e] # {}
    BY <1>3 DEF D!HeldOrExcused, D!Held, D!Working
  <2>1. e \in Supplies
    BY DEF D!TypeOK
  <2>2. lease[e] # None \/ (\E b \in Clients : job[b] = e) \/ e \in safing \/ excuse[e] # {}
    BY DEF D!HeldOrExcused, D!Held, D!Working
  <2>3. CASE e = d
    BY <1>5, <2>3
  <2>4. CASE e # d
    <3>1. \A b \in Clients : job[b] = e => b # c
      BY <2>4 DEF d
    <3> QED
      BY <1>2, <1>3, <1>4, <2>1, <2>2, <2>4, <3>1
  <2> QED
    BY <2>3, <2>4
<1> QED
  BY <1>6, <1>7

(* A handler starts with its device's lease.                               *)
LEMMA DaemonExecuteHeld ==
    ASSUME D!Constants, D!TypeOK, DaemonAnswers, D!HeldOrExcused,
           NEW c \in Clients, NEW d \in Supplies, D!Execute(c, d)
    PROVE  DaemonAnswers' /\ D!HeldOrExcused'
<1>1. /\ job'[c] = d /\ \A b \in Clients \ {c} : job'[b] = job[b]
      /\ lease'[d] = c /\ \A e \in Supplies \ {d} : lease'[e] = lease[e]
      /\ late' = late \ {c} /\ job[c] = None /\ \A b \in Clients : job[b] # d
      /\ phase' = phase /\ output' = output /\ safing' = safing /\ excuse' = excuse
  BY DEF D!Execute, D!TypeOK, D!Working
<1>2. DaemonAnswers'
  <2> SUFFICES ASSUME NEW b \in Clients, job'[b] # None
               PROVE  b \in late' \/ lease'[job'[b]] = b \/ excuse'[job'[b]] # {}
    BY DEF DaemonAnswers
  <2>1. CASE b = c
    BY <1>1, <2>1
  <2>2. CASE b # c
    <3>1. job'[b] = job[b] /\ job[b] \in Supplies \ {d}
      BY <1>1, <2>2 DEF D!TypeOK
    <3>2. b \in late \/ lease[job[b]] = b \/ excuse[job[b]] # {}
      BY <3>1 DEF DaemonAnswers
    <3> QED
      BY <1>1, <2>2, <3>1, <3>2
  <2> QED
    BY <2>1, <2>2
<1>3. D!HeldOrExcused'
  <2> SUFFICES ASSUME phase \notin {"down", "released"}, NEW e \in output
               PROVE  lease'[e] # None \/ (\E b \in Clients : job'[b] = e) \/ e \in safing'
                      \/ excuse'[e] # {}
    BY <1>1 DEF D!HeldOrExcused, D!Held, D!Working
  <2>1. e \in Supplies
    BY DEF D!TypeOK
  <2>2. lease[e] # None \/ (\E b \in Clients : job[b] = e) \/ e \in safing \/ excuse[e] # {}
    BY DEF D!HeldOrExcused, D!Held, D!Working
  <2>3. CASE e = d
    BY <1>1, <2>3
  <2>4. CASE e # d
    <3>1. \A b \in Clients : job[b] = e => b # c
      BY <1>1, <2>1 DEF D!Constants
    <3> QED
      BY <1>1, <2>1, <2>2, <2>4, <3>1
  <2> QED
    BY <2>3, <2>4
<1> QED
  BY <1>2, <1>3

(* A safe state that is answered: off, or reported as live.                *)
LEMMA DaemonSafeOneHeld ==
    ASSUME D!Constants, D!TypeOK, DaemonAnswers, D!HeldOrExcused, NEW d \in Supplies, D!SafeOne(d)
    PROVE  DaemonAnswers' /\ D!HeldOrExcused'
<1>1. /\ safing' = safing \ {d} /\ job' = job /\ lease' = lease /\ late' = late
      /\ phase' = phase
  BY DEF D!SafeOne
<1>2. CASE output' = output \ {d}
           /\ excuse' = [excuse EXCEPT ![d] = IF d \in registry /\ ~D!Working(d) THEN {} ELSE @]
  <2>1. /\ \A e \in Supplies \ {d} : excuse'[e] = excuse[e]
        /\ D!Working(d) => excuse'[d] = excuse[d]
    BY <1>2 DEF D!TypeOK
  <2>2. DaemonAnswers'
    <3> SUFFICES ASSUME NEW b \in Clients, job[b] # None
                 PROVE  b \in late \/ lease[job[b]] = b \/ excuse'[job[b]] # {}
      BY <1>1 DEF DaemonAnswers
    <3>1. job[b] \in Supplies /\ (job[b] = d => D!Working(d))
      BY DEF D!TypeOK, D!Working
    <3>2. b \in late \/ lease[job[b]] = b \/ excuse[job[b]] # {}
      BY DEF DaemonAnswers
    <3> QED
      BY <2>1, <3>1, <3>2
  <2>3. D!HeldOrExcused'
    <3> SUFFICES ASSUME phase \notin {"down", "released"}, NEW e \in output \ {d}
                 PROVE  lease[e] # None \/ (\E b \in Clients : job[b] = e) \/ e \in safing'
                        \/ excuse'[e] # {}
      BY <1>1, <1>2 DEF D!HeldOrExcused, D!Held, D!Working
    <3>1. e \in Supplies \ {d}
      BY DEF D!TypeOK
    <3>2. lease[e] # None \/ (\E b \in Clients : job[b] = e) \/ e \in safing \/ excuse[e] # {}
      BY DEF D!HeldOrExcused, D!Held, D!Working
    <3> QED
      BY <1>1, <2>1, <3>1, <3>2
  <2> QED
    BY <2>2, <2>3
<1>3. CASE output' = output /\ excuse' = D!Excused({d}, "reported")
  <2>1. excuse'[d] # {} /\ \A e \in Supplies : excuse[e] # {} => excuse'[e] # {}
    BY <1>3, DaemonExcusedGrows
  <2>2. DaemonAnswers'
    <3>1. \A b \in Clients : job[b] # None => job[b] \in Supplies
      BY DEF D!TypeOK
    <3> QED
      BY <1>1, <2>1, <3>1 DEF DaemonAnswers
  <2>3. D!HeldOrExcused'
    <3> SUFFICES ASSUME phase \notin {"down", "released"}, NEW e \in output
                 PROVE  lease[e] # None \/ (\E b \in Clients : job[b] = e) \/ e \in safing'
                        \/ excuse'[e] # {}
      BY <1>1, <1>3 DEF D!HeldOrExcused, D!Held, D!Working
    <3>1. e \in Supplies
      BY DEF D!TypeOK
    <3>2. lease[e] # None \/ (\E b \in Clients : job[b] = e) \/ e \in safing \/ excuse[e] # {}
      BY DEF D!HeldOrExcused, D!Held, D!Working
    <3> QED
      BY <1>1, <2>1, <3>1, <3>2
  <2> QED
    BY <2>2, <2>3
<1> QED
  BY <1>2, <1>3 DEF D!SafeOne

(* Discovery: a lost device's lease is surrendered with a reason.          *)
LEMMA DaemonSurrenderHeld ==
    ASSUME D!TypeOK, DaemonAnswers, D!HeldOrExcused, NEW x \in Scans, D!SurrenderLeases(x)
    PROVE  DaemonAnswers' /\ D!HeldOrExcused'
<1> DEFINE d == scan[x].gone
<1>1. d \in Supplies \cup {None} /\ d # None
  BY DEF D!SurrenderLeases, D!TypeOK
<1>2. CASE ~D!Surrendered(d)
  BY <1>2, DaemonNothingTaken DEF D!SurrenderLeases
<1>3. CASE D!Surrendered(d)
  <2>1. /\ phase' = phase /\ output' = output /\ safing' = safing /\ late' = late /\ job' = job
        /\ excuse' = D!Excused({d}, "reported") /\ lease' = [lease EXCEPT ![d] = None]
    BY <1>3 DEF D!SurrenderLeases
  <2>2. /\ \A e \in Supplies \ {d} : lease'[e] = lease[e] /\ excuse'[e] = excuse[e]
        /\ excuse'[d] # {}
    BY <1>1, <2>1, DaemonExcusedGrows DEF D!TypeOK, D!Excused
  <2> HIDE DEF d
  <2>3. DaemonAnswers'
    <3> SUFFICES ASSUME NEW b \in Clients, job[b] # None
                 PROVE  b \in late \/ lease'[job[b]] = b \/ excuse'[job[b]] # {}
      BY <2>1 DEF DaemonAnswers
    <3>1. job[b] \in Supplies
      BY DEF D!TypeOK
    <3>2. b \in late \/ lease[job[b]] = b \/ excuse[job[b]] # {}
      BY DEF DaemonAnswers
    <3> QED
      BY <2>2, <3>1, <3>2
  <2>4. D!HeldOrExcused'
    <3> SUFFICES ASSUME phase \notin {"down", "released"}, NEW e \in output
                 PROVE  lease'[e] # None \/ (\E b \in Clients : job[b] = e) \/ e \in safing
                        \/ excuse'[e] # {}
      BY <2>1 DEF D!HeldOrExcused, D!Held, D!Working
    <3>1. e \in Supplies
      BY DEF D!TypeOK
    <3>2. lease[e] # None \/ (\E b \in Clients : job[b] = e) \/ e \in safing \/ excuse[e] # {}
      BY DEF D!HeldOrExcused, D!Held, D!Working
    <3> QED
      BY <2>2, <3>1, <3>2
  <2> QED
    BY <2>3, <2>4
<1> QED
  BY <1>2, <1>3

LEMMA DaemonHeldStep ==
    ASSUME D!Constants, DaemonIInv, [D!Next]_(D!vars)
    PROVE  DaemonAnswers' /\ D!HeldOrExcused'
<1> USE DEF DaemonIInv
<1>1. ASSUME NEW d \in Supplies, DaemonOfDevice(d) PROVE DaemonAnswers' /\ D!HeldOrExcused'
  <2>1. CASE D!SafeOne(d)
    BY <2>1, DaemonSafeOneHeld
  <2>2. CASE D!Lapse(d) \/ D!Unplug(d) \/ D!Replug(d)
    BY <2>2, DaemonNothingTaken DEF D!Lapse, D!Unplug, D!Replug
  <2>3. CASE D!RegisterFound(d)
    BY <2>3, DaemonNothingTaken, DaemonExcusedGrows DEF D!RegisterFound
  <2> QED
    BY <1>1, <2>1, <2>2, <2>3 DEF DaemonOfDevice
<1>2. ASSUME NEW x \in Scans, DaemonOfScan(x) PROVE DaemonAnswers' /\ D!HeldOrExcused'
  <2>1. CASE D!Discover(x)
    BY <2>1, DaemonNothingTaken, DaemonExcusedGrows DEF D!Discover
  <2>2. CASE D!SurrenderLeases(x)
    BY <2>2, DaemonSurrenderHeld
  <2>3. ASSUME NEW d \in Supplies, D!RemoveDriver(x, d) PROVE DaemonAnswers' /\ D!HeldOrExcused'
    BY <2>3, DaemonNothingTaken DEF D!RemoveDriver
  <2> QED
    BY <1>2, <2>1, <2>2, <2>3 DEF DaemonOfScan
<1>3. ASSUME NEW c \in Clients, DaemonOfClient(c) PROVE DaemonAnswers' /\ D!HeldOrExcused'
  <2>1. CASE D!Connect(c) \/ D!Depart(c)
    BY <2>1, DaemonNothingTaken DEF D!Connect, D!Depart
  <2>2. CASE D!SwitchOn(c)
    <3>1. /\ job' = job /\ lease' = lease /\ late' = late /\ safing' = safing
          /\ excuse' = excuse /\ phase' = phase /\ output' = output \cup {job[c]}
      BY <2>2 DEF D!SwitchOn
    <3> QED
      BY <3>1 DEF DaemonAnswers, D!HeldOrExcused, D!Held, D!Working
  <2>3. CASE D!Finish(c)
    BY <2>3, DaemonFinishHeld
  <2>4. CASE D!OnDisconnect(c)
    <3> DEFINE orphaned == {d \in Supplies : lease[d] = c}
    <3>1. /\ lease' = [d \in Supplies |-> IF d \in orphaned THEN None ELSE lease[d]]
          /\ D!ApplySafeState(orphaned) /\ excuse' = D!Excused(orphaned \ registry, "unreached")
          /\ job' = job /\ output' = output /\ phase' = phase /\ orphaned \in SUBSET Supplies
      BY <2>4 DEF D!OnDisconnect
    <3> HIDE DEF orphaned
    <3> QED
      BY <3>1, DaemonTakenTogether
  <2>5. CASE D!Cancel(c)
    BY <2>5, DaemonCancelHeld
  <2>6. ASSUME NEW d \in Supplies, D!Execute(c, d) PROVE DaemonAnswers' /\ D!HeldOrExcused'
    BY <2>6, DaemonExecuteHeld
  <2> QED
    BY <1>3, <2>1, <2>2, <2>3, <2>4, <2>5, <2>6 DEF DaemonOfClient
<1>4. CASE D!Listen \/ D!Stop \/ D!CloseConnections
  BY <1>4, DaemonNothingTaken DEF D!Listen, D!Stop, D!CloseConnections, D!ApplySafeState
<1>5. CASE D!Release
  BY <1>5 DEF D!Release, DaemonAnswers, D!HeldOrExcused
<1>6. CASE D!Sweep
  <2>1. lapsed \in SUBSET Supplies
    BY DEF D!TypeOK
  <2>2. /\ lease' = [d \in Supplies |-> IF d \in lapsed THEN None ELSE lease[d]]
        /\ D!ApplySafeState(lapsed) /\ excuse' = D!Excused(lapsed \ registry, "unreached")
        /\ job' = job /\ output' = output /\ phase' = phase
    BY <1>6 DEF D!Sweep
  <2> QED
    BY <2>1, <2>2, DaemonTakenTogether
<1>7. CASE D!Boot
  <2>1. DaemonAnswers'
    BY <1>7 DEF D!Boot, DaemonQuiet, DaemonAnswers
  <2>2. /\ safing' = found' /\ output' = output
        /\ excuse' = [d \in Supplies |-> IF d \in output \ found' THEN {"unknown"} ELSE {}]
    BY <1>7 DEF D!Boot
  <2>3. output \subseteq Supplies
    BY DEF D!TypeOK
  <2>4. \A d \in output : d \in safing' \/ excuse'[d] # {}
    BY <2>2, <2>3
  <2> QED
    BY <2>1, <2>2, <2>4 DEF D!HeldOrExcused, D!Held
<1>8. CASE D!Exit \/ D!Kill
  BY <1>8 DEF D!Exit, D!Kill, D!ProcessEnds, DaemonAnswers, D!HeldOrExcused
<1>9. CASE UNCHANGED D!vars
  BY <1>9, DaemonNothingTaken DEF D!vars
<1> QED
  BY <1>1, <1>2, <1>3, <1>4, <1>5, <1>6, <1>7, <1>8, <1>9
     DEF D!Next, DaemonOfDevice, DaemonOfScan, DaemonOfClient, DaemonOfPhase

-----------------------------------------------------------------------------
(* The result.                                                             *)

LEMMA DaemonStepIInv == D!Constants /\ DaemonIInv /\ [D!Next]_(D!vars) => DaemonIInv'
  BY DaemonTypeStep, DaemonQuietStep, DaemonListedStep, DaemonHeldStep DEF DaemonIInv

LEMMA DaemonAccountedFor == DaemonIInv => D!DevicesAccounted
<1> SUFFICES ASSUME DaemonIInv PROVE D!DevicesAccounted
  OBVIOUS
<1>1. D!NoGhosts
  BY DEF DaemonIInv, DaemonListed, D!NoGhosts
<1> QED
  BY <1>1 DEF DaemonIInv, D!DevicesAccounted

-----------------------------------------------------------------------------
(* McpServer: for any number of requests, slots, connections and deaths of *)
(* the daemon, and any choice of tools.                                    *)
McpStages == {"unsent", "waiting", "calling", "connecting", "inflight", "answered", "failing",
              "replied", "gone"}
McpFates == {"no", "sent", "running", "ok", "refused", "failed", "cancelled"}
McpFronted == {None} \cup UNION {A!Resolved(tool) : tool \in Used}

-----------------------------------------------------------------------------
(* The inductive invariant, in named parts.                                *)

McpTyped ==
    /\ req \in [McpRequests -> [does : McpFronted, stage : McpStages, on : 0 .. MaxClients,
                                reply : A!Replies \cup {None}]]
    /\ ran \in [McpRequests -> McpFates]
    /\ written \in [McpRequests -> Nat]
    /\ line \in Seq(McpRequests)
    /\ link \in 0 .. made /\ made \in 0 .. MaxClients
    /\ connecting \in McpRequests \cup {None}
    /\ peer \in [1 .. MaxClients -> {"none", "open", "dead", "closed"}]

\* A reply ends a request, so that nothing changes under it.
McpReplyEnds == \A r \in McpRequests : req[r].stage # "replied" => req[r].reply = None

\* The line holds the requests that wait for a slot, each at one place.
McpLineWaits ==
    /\ \A i \in 1 .. Len(line) : req[line[i]].stage = "waiting"
    /\ \A i, j \in 1 .. Len(line) : line[i] = line[j] => i = j

\* One task opens a connection, for which there is room; what is in flight is on
\* one.
McpOneConnects ==
    \A r \in McpRequests :
        /\ connecting = r => req[r].stage = "connecting" /\ made < MaxClients
        /\ req[r].stage = "inflight" => req[r].on # 0

\* Before a request is on a connection nothing was written; an answer that is
\* there is one of the daemon's two.
McpNothingYet ==
    \A r \in McpRequests :
        /\ req[r].stage \in {"unsent", "waiting", "calling", "connecting"} => written[r] = 0
        /\ req[r].stage = "answered" => ran[r] \in {"ok", "refused"}

McpIInv == McpTyped /\ McpReplyEnds /\ McpLineWaits /\ McpOneConnects /\ McpNothingYet /\ A!ToldOnce

-----------------------------------------------------------------------------
LEMMA McpInitIInv == A!Constants /\ A!Init => McpIInv
  BY DEF A!Constants, A!Init, McpIInv, McpTyped, McpReplyEnds, McpLineWaits, McpOneConnects,
     McpNothingYet, A!ToldOnce,
     A!Idle, McpFronted, A!Replies, McpStages, McpFates

(* What is left of a line when its head is called.                         *)
LEMMA McpTailOfLine ==
    ASSUME McpLineWaits, line \in Seq(McpRequests), line # <<>>
    PROVE  /\ Tail(line) \in Seq(McpRequests) /\ Head(line) \in McpRequests
           /\ Len(Tail(line)) = Len(line) - 1
           /\ Head(line) = line[1] /\ 1 \in 1 .. Len(line)
           /\ \A i \in 1 .. Len(Tail(line)) :
                 /\ Tail(line)[i] = line[i + 1] /\ i + 1 \in 1 .. Len(line)
                 /\ Tail(line)[i] # Head(line) /\ Tail(line)[i] \in McpRequests
  BY DEF McpLineWaits

(* What changes of a request when its task moves on, and what when it is   *)
(* answered: nothing of the others.                                        *)
McpRecord == [does : McpFronted, stage : McpStages, on : 0 .. MaxClients, reply : A!Replies \cup {None}]

LEMMA McpGoesOn ==
    ASSUME McpTyped, NEW r \in McpRequests, NEW s \in McpStages, A!Goes(r, s)
    PROVE  /\ req' \in [McpRequests -> McpRecord]
           /\ \A q \in McpRequests \ {r} : req'[q] = req[q]
           /\ req'[r].stage = s /\ req'[r].reply = req[r].reply /\ req'[r].on = req[r].on
  BY DEF McpTyped, A!Goes, McpRecord

LEMMA McpIsAnswered ==
    ASSUME McpTyped, NEW r \in McpRequests, NEW p \in A!Replies, A!Reply(r, p)
    PROVE  /\ req' \in [McpRequests -> McpRecord]
           /\ \A q \in McpRequests \ {r} : req'[q] = req[q]
           /\ req'[r].stage = "replied" /\ req'[r].reply = p /\ req'[r].on = req[r].on
  BY DEF McpTyped, A!Reply, McpRecord, McpStages

LEMMA McpIsOnConnection ==
    ASSUME McpTyped, NEW r \in McpRequests, NEW s \in McpStages, NEW c \in 0 .. MaxClients,
           req' = [req EXCEPT ![r].stage = s, ![r].on = c]
    PROVE  /\ req' \in [McpRequests -> McpRecord]
           /\ \A q \in McpRequests \ {r} : req'[q] = req[q]
           /\ req'[r].stage = s /\ req'[r].reply = req[r].reply /\ req'[r].on = c
  BY DEF McpTyped, McpRecord

(* The calls in flight on a connection fail, the others stay as they are.  *)
LEMMA McpFailingCalls ==
    ASSUME McpTyped, NEW cs
    PROVE  /\ A!Failing(req, cs) \in [McpRequests -> McpRecord]
           /\ \A q \in McpRequests :
                 /\ A!Failing(req, cs)[q].reply = req[q].reply
                 /\ A!Failing(req, cs)[q].on = req[q].on
                 /\ \/ A!Failing(req, cs)[q] = req[q]
                       /\ (req[q].stage = "inflight" => req[q].on \notin cs)
                    \/ req[q].stage = "inflight" /\ A!Failing(req, cs)[q].stage = "failing"
  BY DEF McpTyped, A!Failing, McpRecord, McpStages

(* The line stays in order while those that wait go on waiting.            *)
LEMMA McpLineStays ==
    ASSUME McpTyped, McpLineWaits, line' = line,
           \A q \in McpRequests : req[q].stage = "waiting" => req'[q].stage = "waiting"
    PROVE  McpLineWaits'
<1>1. \A i \in 1 .. Len(line) : line[i] \in McpRequests
  BY DEF McpTyped
<1> QED
  BY <1>1 DEF McpLineWaits

-----------------------------------------------------------------------------
(* Every action preserves the invariant.                                   *)

LEMMA McpAnswerStep ==
    ASSUME A!Constants, McpIInv, NEW r \in McpRequests, A!Answer(r) PROVE McpIInv'
<1>1. /\ req' \in [McpRequests -> McpRecord]
      /\ \A q \in McpRequests \ {r} : req'[q] = req[q]
      /\ req'[r].stage = "replied" /\ req'[r].reply = "local" /\ req'[r].on = req[r].on
  BY McpIsAnswered DEF A!Answer, McpIInv, A!Replies
<1> USE <1>1 DEF A!Answer, McpIInv
<1>2. McpTyped'
  BY DEF McpTyped, McpRecord
<1>3. McpReplyEnds'
  BY DEF McpReplyEnds
<1>4. McpLineWaits'
  BY McpLineStays
<1>5. McpOneConnects'
  BY DEF McpOneConnects
<1>6. McpNothingYet'
  BY DEF McpNothingYet
<1>7. A!ToldOnce'
  BY DEF A!ToldOnce, McpNothingYet
<1> QED
  BY <1>2, <1>3, <1>4, <1>5, <1>6, <1>7

LEMMA McpBeginStep ==
    ASSUME A!Constants, McpIInv, A!Begin PROVE McpIInv'
<1> DEFINE r == Head(line)
<1> USE DEF McpIInv
<1>1. r \in McpRequests /\ req[r].stage = "waiting"
  BY McpTailOfLine DEF A!Begin, McpTyped, McpLineWaits
<1>2. /\ req' \in [McpRequests -> McpRecord]
      /\ \A q \in McpRequests \ {r} : req'[q] = req[q]
      /\ req'[r].on = req[r].on
      /\ \/ req'[r].stage = "replied" /\ req'[r].reply = "invalid"
         \/ req'[r].stage = "calling" /\ req'[r].reply = req[r].reply
  BY <1>1, McpIsAnswered, McpGoesOn DEF A!Begin, A!Replies, McpStages
<1> USE <1>1, <1>2 DEF A!Begin
<1> HIDE DEF r
<1>3. McpTyped'
  BY McpTailOfLine DEF McpTyped, McpRecord
<1>4. McpReplyEnds'
  BY DEF McpReplyEnds
<1>5. McpLineWaits'
  <2>1. /\ Len(line') = Len(line) - 1 /\ Len(line) \in Nat
        /\ \A i \in 1 .. Len(line') : /\ line'[i] = line[i + 1] /\ i + 1 \in 1 .. Len(line)
                                      /\ line'[i] # r /\ line'[i] \in McpRequests
    BY McpTailOfLine DEF McpTyped, r
  <2> QED
    BY <2>1 DEF McpLineWaits
<1>6. McpOneConnects'
  BY DEF McpOneConnects
<1>7. McpNothingYet'
  BY DEF McpNothingYet
<1>8. A!ToldOnce'
  BY DEF A!ToldOnce, McpNothingYet
<1> QED
  BY <1>3, <1>4, <1>5, <1>6, <1>7, <1>8

LEMMA McpCallStep ==
    ASSUME A!Constants, McpIInv, NEW r \in McpRequests, NEW tool \in Used,
           A!Call(r, tool) PROVE McpIInv'
<1> USE DEF McpIInv, A!Call
<1>1. PICK action \in A!Resolved(tool) :
         req' = [req EXCEPT ![r].does = action, ![r].stage = "waiting"]
  OBVIOUS
<1>2. action \in McpFronted
  BY DEF McpFronted
<1>3. /\ req' \in [McpRequests -> McpRecord]
      /\ \A q \in McpRequests \ {r} : req'[q] = req[q]
      /\ req'[r].stage = "waiting" /\ req'[r].reply = req[r].reply /\ req'[r].on = req[r].on
  BY <1>1, <1>2 DEF McpTyped, McpRecord, McpStages
<1> USE <1>3
<1>4. McpTyped'
  BY DEF McpTyped, McpRecord
<1>5. McpReplyEnds'
  BY DEF McpReplyEnds
<1>6. McpLineWaits'
  <2>1. /\ Len(line) \in Nat /\ Len(line') = Len(line) + 1
        /\ \A i \in 1 .. Len(line) : line'[i] = line[i] /\ line[i] \in McpRequests
        /\ line'[Len(line) + 1] = r
    BY DEF McpTyped
  <2>2. \A i \in 1 .. Len(line) : line[i] # r
    BY DEF McpLineWaits
  <2>3. \A i \in 1 .. Len(line') : i \in 1 .. Len(line) \/ i = Len(line) + 1
    BY <2>1
  <2>4. \A i \in 1 .. Len(line') : req'[line'[i]].stage = "waiting"
    BY <2>1, <2>2, <2>3 DEF McpLineWaits
  <2>5. \A i, j \in 1 .. Len(line') : line'[i] = line'[j] => i = j
    BY <2>1, <2>2, <2>3 DEF McpLineWaits
  <2> QED
    BY <2>4, <2>5 DEF McpLineWaits
<1>7. McpOneConnects'
  BY DEF McpOneConnects
<1>8. McpNothingYet'
  BY DEF McpNothingYet
<1>9. A!ToldOnce'
  BY DEF A!ToldOnce
<1> QED
  BY <1>4, <1>5, <1>6, <1>7, <1>8, <1>9

LEMMA McpSendStep ==
    ASSUME A!Constants, McpIInv, NEW r \in McpRequests, A!Send(r) PROVE McpIInv'
<1> USE DEF McpIInv, A!Send, A!Sent
<1>1. link \in 0 .. MaxClients
  BY DEF McpTyped, A!Constants
<1>2. /\ req' \in [McpRequests -> McpRecord]
      /\ \A q \in McpRequests \ {r} : req'[q] = req[q]
      /\ req'[r].reply = req[r].reply /\ req'[r].on = link
      /\ \/ req'[r].stage = "inflight" /\ peer[link] = "open"
            /\ ran' = [ran EXCEPT ![r] = "sent"] /\ written' = [written EXCEPT ![r] = @ + 1]
         \/ req'[r].stage = "failing" /\ ran' = ran /\ written' = written
  BY <1>1, McpIsOnConnection DEF McpStages
<1> USE <1>2
<1>0. /\ ran' \in [McpRequests -> McpFates] /\ written' \in [McpRequests -> Nat]
      /\ \A q \in McpRequests \ {r} : ran'[q] = ran[q] /\ written'[q] = written[q]
      /\ written'[r] <= 1
  <2>1. written[r] = 0 /\ written \in [McpRequests -> Nat] /\ ran \in [McpRequests -> McpFates]
    BY DEF McpNothingYet, McpTyped
  <2>2. "sent" \in McpFates
    BY DEF McpFates
  <2>3. CASE ran' = [ran EXCEPT ![r] = "sent"] /\ written' = [written EXCEPT ![r] = @ + 1]
    BY <2>1, <2>2, <2>3
  <2>4. CASE ran' = ran /\ written' = written
    BY <2>1, <2>4
  <2> QED
    BY <2>3, <2>4
<1>3. McpTyped'
  BY <1>0 DEF McpTyped, McpRecord
<1>4. McpReplyEnds'
  BY DEF McpReplyEnds
<1>5. McpLineWaits'
  BY McpLineStays
<1>6. McpOneConnects'
  BY DEF McpOneConnects
<1>7. McpNothingYet'
  BY <1>0 DEF McpNothingYet
<1>8. A!ToldOnce'
  <2>1. req'[r].reply = None
    BY DEF McpReplyEnds
  <2>2. req'[r].stage = "inflight" => peer'[req'[r].on] = "open"
    OBVIOUS
  <2>3. \A q \in McpRequests \ {r} :
          /\ req'[q].reply \in {"ok", "refused"} => ran'[q] = req'[q].reply
          /\ req'[q].reply \in {"unreachable", "invalid", "local"} => written'[q] = 0
          /\ written'[q] <= 1
          /\ req'[q].stage = "inflight" => peer'[req'[q].on] = "open"
    BY <1>0 DEF A!ToldOnce
  <2>4. link' # 0 => peer'[link'] # "closed"
    BY DEF A!ToldOnce
  <2> QED
    BY <1>0, <2>1, <2>2, <2>3, <2>4 DEF A!ToldOnce, A!Constants, A!Replies
<1> QED
  BY <1>3, <1>4, <1>5, <1>6, <1>7, <1>8

LEMMA McpConnectStep ==
    ASSUME A!Constants, McpIInv, NEW r \in McpRequests, A!Connect(r) PROVE McpIInv'
<1> USE DEF McpIInv, A!Connect
<1>1. /\ req' \in [McpRequests -> McpRecord]
      /\ \A q \in McpRequests \ {r} : req'[q] = req[q]
      /\ req'[r].stage = "connecting" /\ req'[r].reply = req[r].reply /\ req'[r].on = req[r].on
  BY McpGoesOn DEF McpStages
<1> USE <1>1
<1>2. McpTyped'
  BY DEF McpTyped, McpRecord
<1>3. McpReplyEnds'
  BY DEF McpReplyEnds
<1>4. McpLineWaits'
  BY McpLineStays
<1>5. McpOneConnects'
  BY DEF McpOneConnects
<1>6. McpNothingYet'
  BY DEF McpNothingYet
<1>7. A!ToldOnce'
  BY DEF A!ToldOnce
<1> QED
  BY <1>2, <1>3, <1>4, <1>5, <1>6, <1>7

LEMMA McpConnectedStep ==
    ASSUME A!Constants, McpIInv, NEW r \in McpRequests, A!Connected(r) PROVE McpIInv'
<1> USE DEF McpIInv, A!Connected
<1>1. /\ req[r].stage = "connecting" /\ made < MaxClients /\ written[r] = 0
      /\ made \in 0 .. MaxClients /\ MaxClients \in Nat
  BY DEF McpOneConnects, McpNothingYet, McpTyped, A!Constants
<1>2. CASE daemon
  <2>1. /\ req' \in [McpRequests -> McpRecord]
        /\ \A q \in McpRequests \ {r} : req'[q] = req[q]
        /\ req'[r].stage = "inflight" /\ req'[r].reply = req[r].reply
        /\ req'[r].on = made + 1
    <3> DEFINE c == made + 1
    <3>1. c \in 0 .. MaxClients
      BY <1>1
    <3>2. "inflight" \in McpStages
      BY DEF McpStages
    <3>3. req' = [req EXCEPT ![r].stage = "inflight", ![r].on = c]
      BY <1>2
    <3>4. McpTyped
      OBVIOUS
    <3> HIDE DEF c
    <3>5. /\ req' \in [McpRequests -> McpRecord]
          /\ \A q \in McpRequests \ {r} : req'[q] = req[q]
          /\ req'[r].stage = "inflight" /\ req'[r].reply = req[r].reply /\ req'[r].on = c
      BY <3>1, <3>2, <3>3, <3>4 DEF McpTyped, McpRecord
    <3> QED
      BY <3>5 DEF c
  <2> USE <1>1, <1>2, <2>1
  <2>2. made + 1 \in 1 .. MaxClients /\ peer'[made + 1] = "open"
        /\ \A c \in 1 .. MaxClients : peer[c] = "open" => peer'[c] = "open"
    BY DEF McpTyped
  <2>a. /\ ran' \in [McpRequests -> McpFates] /\ written' \in [McpRequests -> Nat]
        /\ \A q \in McpRequests \ {r} : ran'[q] = ran[q] /\ written'[q] = written[q]
        /\ written'[r] = 1
    <3>1. written \in [McpRequests -> Nat] /\ ran \in [McpRequests -> McpFates] /\
          "sent" \in McpFates
      BY DEF McpTyped, McpFates
    <3>2. ran' = [ran EXCEPT ![r] = "sent"] /\ written' = [written EXCEPT ![r] = @ + 1]
      OBVIOUS
    <3> QED
      BY <3>1, <3>2
  <2>b. peer' \in [1 .. MaxClients -> {"none", "open", "dead", "closed"}]
    BY DEF McpTyped
  <2>3. McpTyped'
    BY <2>2, <2>a, <2>b DEF McpTyped, McpRecord
  <2>4. McpReplyEnds'
    BY DEF McpReplyEnds
  <2>5. McpLineWaits'
    BY McpLineStays
  <2>6. McpOneConnects'
    BY DEF McpOneConnects, A!Constants
  <2>7. McpNothingYet'
    BY DEF McpNothingYet, McpTyped
  <2>8. A!ToldOnce'
    <3>2. req'[r].reply = None
      BY DEF McpReplyEnds
    <3>3. \A q \in McpRequests \ {r} : req[q].stage = "inflight" => peer'[req[q].on] = "open"
      <4> SUFFICES ASSUME NEW q \in McpRequests \ {r}, req[q].stage = "inflight"
                   PROVE  peer'[req[q].on] = "open"
        OBVIOUS
      <4>1. req[q].on \in 1 .. MaxClients
        BY DEF McpOneConnects, McpTyped
      <4>2. peer[req[q].on] = "open"
        BY DEF A!ToldOnce
      <4> QED
        BY <2>2, <4>1, <4>2
    <3> QED
      BY <2>2, <2>a, <3>2, <3>3 DEF A!ToldOnce, A!Constants, A!Replies
  <2> QED
    BY <2>3, <2>4, <2>5, <2>6, <2>7, <2>8
<1>3. CASE ~daemon
  <2>1. /\ req' \in [McpRequests -> McpRecord]
        /\ \A q \in McpRequests \ {r} : req'[q] = req[q]
        /\ req'[r].stage = "replied" /\ req'[r].reply = "unreachable"
        /\ req'[r].on = req[r].on
    BY <1>3, McpIsAnswered DEF A!Replies
  <2> USE <1>1, <1>3, <2>1
  <2>2. McpTyped'
    BY DEF McpTyped, McpRecord
  <2>3. McpReplyEnds'
    BY DEF McpReplyEnds
  <2>4. McpLineWaits'
    BY McpLineStays
  <2>5. McpOneConnects'
    BY DEF McpOneConnects, A!Constants
  <2>6. McpNothingYet'
    BY DEF McpNothingYet
  <2>7. A!ToldOnce'
    BY DEF A!ToldOnce
  <2> QED
    BY <2>2, <2>3, <2>4, <2>5, <2>6, <2>7
<1> QED
  BY <1>2, <1>3

LEMMA McpAnsweredStep ==
    ASSUME A!Constants, McpIInv, NEW r \in McpRequests, A!Answered(r) PROVE McpIInv'
<1> USE DEF McpIInv, A!Answered
<1>1. ran[r] \in {"ok", "refused"} /\ ran[r] \in A!Replies
  BY DEF McpNothingYet, A!Replies
<1>2. /\ req' \in [McpRequests -> McpRecord]
      /\ \A q \in McpRequests \ {r} : req'[q] = req[q]
      /\ req'[r].stage = "replied" /\ req'[r].reply = ran[r] /\ req'[r].on = req[r].on
  BY <1>1, McpIsAnswered
<1> USE <1>1, <1>2
<1>3. McpTyped'
  BY DEF McpTyped, McpRecord
<1>4. McpReplyEnds'
  BY DEF McpReplyEnds
<1>5. McpLineWaits'
  BY McpLineStays
<1>6. McpOneConnects'
  BY DEF McpOneConnects
<1>7. McpNothingYet'
  BY DEF McpNothingYet
<1>8. A!ToldOnce'
  BY DEF A!ToldOnce
<1> QED
  BY <1>3, <1>4, <1>5, <1>6, <1>7, <1>8

LEMMA McpTimeOutStep ==
    ASSUME A!Constants, McpIInv, NEW r \in McpRequests, A!TimeOut(r) PROVE McpIInv'
<1> USE DEF McpIInv, A!TimeOut
<1>1. /\ req' \in [McpRequests -> McpRecord]
      /\ \A q \in McpRequests \ {r} : req'[q] = req[q]
      /\ req'[r].stage = "failing" /\ req'[r].reply = req[r].reply /\ req'[r].on = req[r].on
  BY McpGoesOn DEF McpStages
<1> USE <1>1
<1>2. McpTyped'
  BY DEF McpTyped, McpRecord
<1>3. McpReplyEnds'
  BY DEF McpReplyEnds
<1>4. McpLineWaits'
  BY McpLineStays
<1>5. McpOneConnects'
  BY DEF McpOneConnects
<1>6. McpNothingYet'
  BY DEF McpNothingYet
<1>7. A!ToldOnce'
  BY DEF A!ToldOnce
<1> QED
  BY <1>2, <1>3, <1>4, <1>5, <1>6, <1>7

LEMMA McpDropStep ==
    ASSUME A!Constants, McpIInv, NEW r \in McpRequests, A!Drop(r) PROVE McpIInv'
<1> USE DEF McpIInv
<1> DEFINE q == A!Failing(req, {link})
<1>1. /\ q \in [McpRequests -> McpRecord]
      /\ \A s \in McpRequests :
            /\ q[s].reply = req[s].reply /\ q[s].on = req[s].on
            /\ \/ q[s] = req[s] /\ (req[s].stage = "inflight" => req[s].on # link)
               \/ req[s].stage = "inflight" /\ q[s].stage = "failing"
  BY McpFailingCalls
<1>2. q[r].stage = "failing"
  BY <1>1 DEF A!Drop
<1>3. req' = [q EXCEPT ![r].stage = "replied", ![r].reply = "lost"]
  BY DEF A!Drop
<1> HIDE DEF q
<1>4. /\ req' \in [McpRequests -> McpRecord]
      /\ \A s \in McpRequests \ {r} : req'[s] = q[s]
      /\ req'[r].stage = "replied" /\ req'[r].reply = "lost" /\ req'[r].on = req[r].on
  <2>1. "lost" \in A!Replies
    BY DEF A!Replies
  <2> QED
    BY ONLY <1>1, <1>3, <2>1, r \in McpRequests DEF McpRecord, McpStages
<1>5. /\ peer' \in [1 .. MaxClients -> {"none", "open", "dead", "closed"}]
      /\ \A c \in 1 .. MaxClients : c # link => peer'[c] = peer[c]
      /\ link' = 0
      /\ UNCHANGED <<ran, written, line, connecting, made, daemon, granted, stdin, outages>>
  BY DEF McpTyped, A!Drop
<1> USE <1>1, <1>2, <1>4, <1>5
<1>6. McpTyped'
  BY <1>5 DEF McpTyped, McpRecord
<1>7. McpReplyEnds'
  BY DEF McpReplyEnds
<1>8. McpLineWaits'
  BY McpLineStays
<1>9. McpOneConnects'
  BY DEF McpOneConnects
<1>10. McpNothingYet'
  BY DEF McpNothingYet
<1>11. A!ToldOnce'
  <2>1. \A s \in McpRequests : req'[s].stage = "inflight" => peer'[req'[s].on] = "open"
    <3> SUFFICES ASSUME NEW s \in McpRequests, req'[s].stage = "inflight"
                 PROVE  peer'[req'[s].on] = "open"
      OBVIOUS
    <3>1. s # r /\ req'[s] = req[s] /\ req[s].stage = "inflight" /\ req[s].on # link
      OBVIOUS
    <3>2. req[s].on \in 1 .. MaxClients /\ peer[req[s].on] = "open"
      BY <3>1 DEF McpOneConnects, McpTyped, A!ToldOnce
    <3> QED
      BY <1>5, <3>1, <3>2
  <2> QED
    BY <2>1 DEF A!ToldOnce
<1> QED
  BY <1>6, <1>7, <1>8, <1>9, <1>10, <1>11

LEMMA McpEofStep ==
    ASSUME A!Constants, McpIInv, A!Eof PROVE McpIInv'
<1> USE DEF McpIInv, A!Eof
<1>1. /\ req' \in [McpRequests -> McpRecord]
      /\ \A q \in McpRequests :
            /\ req'[q].reply = req[q].reply
            /\ \/ req'[q].stage = req[q].stage /\ req[q].stage \in {"unsent", "replied"}
               \/ req'[q].stage = "gone" /\ req[q].stage # "replied"
  <2>1. req \in [McpRequests -> McpRecord] /\ "gone" \in McpStages
    BY DEF McpTyped, McpRecord, McpStages
  <2>2. \A q \in McpRequests : [req[q] EXCEPT !.stage = "gone"] \in McpRecord
    BY <2>1 DEF McpRecord
  <2>3. req' = [q \in McpRequests |-> IF req[q].stage \in {"unsent", "replied"} THEN req[q]
                                     ELSE [req[q] EXCEPT !.stage = "gone"]]
    BY DEF A!Eof
  <2> QED
    BY ONLY <2>1, <2>2, <2>3 DEF McpRecord
<1>2. /\ line' = <<>> /\ link' = 0 /\ connecting' = None
      /\ peer' \in [1 .. MaxClients -> {"none", "open", "dead", "closed"}]
  BY DEF McpTyped
<1> USE <1>1, <1>2
<1>3. McpTyped'
  BY DEF McpTyped, McpRecord
<1>4. McpReplyEnds'
  BY DEF McpReplyEnds
<1>5. McpLineWaits'
  BY DEF McpLineWaits
<1>6. McpOneConnects'
  BY DEF McpOneConnects, A!Constants
<1>7. McpNothingYet'
  BY DEF McpNothingYet
<1>8. A!ToldOnce'
  BY DEF A!ToldOnce
<1> QED
  BY <1>3, <1>4, <1>5, <1>6, <1>7, <1>8

LEMMA McpTakesStep ==
    ASSUME A!Constants, McpIInv, NEW r \in McpRequests, A!Takes(r) PROVE McpIInv'
<1> USE DEF McpIInv
<1>1. /\ ran[r] = "sent"
      /\ UNCHANGED <<req, written, line, link, connecting, peer, made>>
  BY DEF A!Takes
<1>2. /\ ran' \in [McpRequests -> McpFates]
      /\ \A q \in McpRequests \ {r} : ran'[q] = ran[q]
  BY DEF A!Takes, McpTyped, McpFates
<1> USE <1>1, <1>2
<1>3. McpTyped'
  BY DEF McpTyped
<1>4. McpReplyEnds' /\ McpOneConnects'
  BY DEF McpReplyEnds, McpOneConnects
<1>5. McpLineWaits'
  BY McpLineStays
<1>6. McpNothingYet'
  BY DEF McpNothingYet
<1>7. A!ToldOnce'
  BY DEF A!ToldOnce
<1> QED
  BY <1>3, <1>4, <1>5, <1>6, <1>7

LEMMA McpPerformsStep ==
    ASSUME A!Constants, McpIInv, NEW r \in McpRequests, NEW outcome \in {"ok", "refused", "failed"},
           A!Performs(r, outcome)
    PROVE  McpIInv'
<1> USE DEF McpIInv
<1>1. /\ ran[r] = "running"
      /\ UNCHANGED <<written, line, link, connecting, peer, made>>
  BY DEF A!Performs
<1>2. /\ ran' \in [McpRequests -> McpFates] /\ ran'[r] = outcome
      /\ \A q \in McpRequests \ {r} : ran'[q] = ran[q]
  BY DEF A!Performs, McpTyped, McpFates
<1>3. /\ req' \in [McpRequests -> McpRecord]
      /\ \A q \in McpRequests \ {r} : req'[q] = req[q]
      /\ req'[r].reply = req[r].reply /\ req'[r].on = req[r].on
      /\ \/ req[r].stage # "inflight" /\ req'[r].stage = req[r].stage
         \/ /\ req[r].stage = "inflight"
            /\ \/ req'[r].stage = "failing"
               \/ req'[r].stage = "answered" /\ outcome # "failed"
  <2>1. CASE req[r].stage = "inflight" /\ outcome = "failed"
    BY <2>1, McpGoesOn DEF A!Performs, McpStages
  <2>2. CASE req[r].stage = "inflight" /\ outcome # "failed"
    BY <2>2, McpGoesOn DEF A!Performs, McpStages
  <2>3. CASE req[r].stage # "inflight"
    BY <2>3 DEF A!Performs, McpTyped, McpRecord
  <2> QED
    BY <2>1, <2>2, <2>3
<1> USE <1>1, <1>2, <1>3
<1>4. McpTyped'
  BY DEF McpTyped, McpRecord
<1>5. McpReplyEnds'
  BY DEF McpReplyEnds
<1>6. McpLineWaits'
  BY McpLineStays
<1>7. McpOneConnects'
  BY DEF McpOneConnects
<1>8. McpNothingYet'
  BY DEF McpNothingYet
<1>9. A!ToldOnce'
  BY DEF A!ToldOnce
<1> QED
  BY <1>4, <1>5, <1>6, <1>7, <1>8, <1>9

LEMMA McpNoticedStep ==
    ASSUME A!Constants, McpIInv, NEW r \in McpRequests, A!Noticed(r) PROVE McpIInv'
<1> USE DEF McpIInv
<1>1. /\ ran[r] \in {"sent", "running"}
      /\ UNCHANGED <<req, written, line, link, connecting, peer, made>>
  BY DEF A!Noticed
<1>2. /\ ran' \in [McpRequests -> McpFates]
      /\ \A q \in McpRequests \ {r} : ran'[q] = ran[q]
  BY DEF A!Noticed, McpTyped, McpFates
<1> USE <1>1, <1>2
<1>3. McpTyped'
  BY DEF McpTyped
<1>4. McpReplyEnds' /\ McpOneConnects'
  BY DEF McpReplyEnds, McpOneConnects
<1>5. McpLineWaits'
  BY McpLineStays
<1>6. McpNothingYet'
  BY DEF McpNothingYet
<1>7. A!ToldOnce'
  BY DEF A!ToldOnce
<1> QED
  BY <1>3, <1>4, <1>5, <1>6, <1>7

LEMMA McpDiesStep ==
    ASSUME A!Constants, McpIInv, A!Dies PROVE McpIInv'
<1> USE DEF McpIInv
<1> DEFINE doomed == {c \in 1 .. made : peer[c] = "open"}
<1>1. UNCHANGED <<written, line, link, connecting, made>>
  BY DEF A!Dies
<1>2. req' = A!Failing(req, doomed)
  BY DEF A!Dies
<1>3. peer' = [c \in DOMAIN peer |-> IF c \in doomed THEN "dead" ELSE peer[c]]
  BY DEF A!Dies
<1>4. /\ ran' \in [McpRequests -> McpFates]
      /\ \A q \in McpRequests : ran'[q] = ran[q] \/ ran[q] \in {"sent", "running"}
  BY DEF A!Dies, McpTyped, McpFates
<1>5. /\ peer' \in [1 .. MaxClients -> {"none", "open", "dead", "closed"}]
      /\ \A c \in 1 .. MaxClients : c \notin doomed => peer'[c] = peer[c]
      /\ \A c \in 1 .. MaxClients : peer'[c] = "closed" => peer[c] = "closed"
  BY <1>3 DEF McpTyped
<1> HIDE DEF doomed
<1>6. /\ req' \in [McpRequests -> McpRecord]
      /\ \A s \in McpRequests :
            /\ req'[s].reply = req[s].reply /\ req'[s].on = req[s].on
            /\ \/ req'[s] = req[s] /\ (req[s].stage = "inflight" => req[s].on \notin doomed)
               \/ req[s].stage = "inflight" /\ req'[s].stage = "failing"
  BY <1>2, McpFailingCalls
<1> USE <1>1, <1>4, <1>5, <1>6
<1>7. McpTyped'
  BY DEF McpTyped, McpRecord
<1>8. McpReplyEnds'
  BY DEF McpReplyEnds
<1>9. McpLineWaits'
  BY McpLineStays
<1>10. McpOneConnects'
  BY DEF McpOneConnects
<1>11. McpNothingYet'
  BY DEF McpNothingYet
<1>12. A!ToldOnce'
  <2>1. \A s \in McpRequests : req'[s].stage = "inflight" => peer'[req'[s].on] = "open"
    <3> SUFFICES ASSUME NEW s \in McpRequests, req'[s].stage = "inflight"
                 PROVE  peer'[req'[s].on] = "open"
      OBVIOUS
    <3>1. req'[s] = req[s] /\ req[s].on \notin doomed
      OBVIOUS
    <3>2. req[s].on \in 1 .. MaxClients /\ peer[req[s].on] = "open"
      BY <3>1 DEF McpOneConnects, McpTyped, A!ToldOnce
    <3> QED
      BY <3>1, <3>2
  <2>2. ASSUME NEW s \in McpRequests, link' # 0 PROVE peer'[link'] # "closed"
    <3>1. link \in 1 .. MaxClients
      BY <2>2 DEF McpTyped, A!Constants
    <3>2. peer[link] # "closed"
      BY <2>2 DEF A!ToldOnce
    <3> QED
      BY <3>1, <3>2
  <2> QED
    BY <2>1, <2>2 DEF A!ToldOnce
<1> QED
  BY <1>7, <1>8, <1>9, <1>10, <1>11, <1>12

LEMMA McpStepIInv == A!Constants /\ McpIInv /\ [A!Next]_(A!vars) => McpIInv'
<1> SUFFICES ASSUME A!Constants, McpIInv, [A!Next]_(A!vars) PROVE McpIInv'
  OBVIOUS
<1>1. ASSUME UNCHANGED <<req, ran, written, line, link, connecting, peer, made>> PROVE McpIInv'
  BY <1>1 DEF McpIInv, McpTyped, McpReplyEnds, McpLineWaits, McpOneConnects, McpNothingYet,
     A!ToldOnce
<1>2. CASE UNCHANGED A!vars \/ A!Starts \/ A!Grant
  BY <1>1, <1>2 DEF A!vars, A!Starts, A!Grant
<1>3. CASE A!Begin \/ A!Eof \/ A!Dies
  BY <1>3, McpBeginStep, McpEofStep, McpDiesStep
<1>4. ASSUME NEW r \in McpRequests,
             A!Answer(r) \/ A!Send(r) \/ A!Connect(r) \/ A!Connected(r) \/ A!Answered(r) \/
                 A!TimeOut(r)
      PROVE  McpIInv'
  BY <1>4, McpAnswerStep, McpSendStep, McpConnectStep, McpConnectedStep, McpAnsweredStep,
     McpTimeOutStep
<1>5. ASSUME NEW r \in McpRequests, A!Drop(r) \/ A!Takes(r) \/ A!Noticed(r)
      PROVE  McpIInv'
  BY <1>5, McpDropStep, McpTakesStep, McpNoticedStep
<1>6. ASSUME NEW r \in McpRequests, NEW tool \in Used, A!Call(r, tool) PROVE McpIInv'
  BY <1>6, McpCallStep
<1>7. ASSUME NEW r \in McpRequests, NEW outcome \in {"ok", "refused", "failed"},
             A!Performs(r, outcome)
      PROVE  McpIInv'
  BY <1>7, McpPerformsStep
<1> QED
  BY <1>2, <1>3, <1>4, <1>5, <1>6, <1>7 DEF A!Next

-----------------------------------------------------------------------------
(* The rest of the types: a request is on a connection that was made, and  *)
(* the daemon and the client change as they do.                            *)
McpMade ==
       /\ \A r \in McpRequests : req[r].on \in 0 .. made
       /\ daemon \in BOOLEAN /\ granted \in BOOLEAN /\ stdin \in BOOLEAN
       /\ outages \in 0 .. MaxFaults

LEMMA McpInitMade == ASSUME A!Constants, A!Init PROVE McpMade
<1>1. \A r \in McpRequests : req[r].on = 0
  BY DEF A!Init, A!Idle
<1>2. MaxFaults \in Nat
  BY DEF A!Constants
<1>3. made = 0 /\ outages = 0 /\ daemon /\ ~granted /\ stdin
  BY DEF A!Init
<1>4. \A r \in McpRequests : req[r].on \in 0 .. made
  BY <1>1, <1>3
<1>5. outages \in 0 .. MaxFaults
  BY <1>2, <1>3
<1>6. daemon \in BOOLEAN /\ granted \in BOOLEAN /\ stdin \in BOOLEAN
  BY DEF A!Init
<1> QED
  BY <1>4, <1>5, <1>6 DEF McpMade

\* A request is put on a connection by Send and Connected alone.
LEMMA McpStaysOn ==
    ASSUME McpIInv, McpMade, made' = made,
           \A q \in McpRequests : req'[q].on = req[q].on \/ req'[q].on = link
    PROVE  \A q \in McpRequests : req'[q].on \in 0 .. made'
  BY DEF McpIInv, McpTyped, McpMade

LEMMA McpMoved ==
    ASSUME McpTyped, NEW r \in McpRequests,
           req' = req \/ (\E s \in McpStages : A!Goes(r, s)) \/ (\E p : A!Reply(r, p))
    PROVE  \A q \in McpRequests : req'[q].on = req[q].on
<1>1. \A q \in McpRequests : req[q] \in McpRecord
  BY DEF McpTyped, McpRecord
<1>2. CASE \E s \in McpStages : A!Goes(r, s)
  BY <1>2, McpGoesOn
<1>3. ASSUME NEW p, A!Reply(r, p) PROVE \A q \in McpRequests : req'[q].on = req[q].on
  BY <1>1, <1>3 DEF A!Reply, McpTyped, McpRecord
<1> QED
  BY <1>2, <1>3

LEMMA McpStepMade == ASSUME A!Constants, McpIInv, McpMade, [A!Next]_(A!vars) PROVE McpMade'
<1>1. McpTyped /\ made \in Nat
  BY DEF McpIInv, McpTyped
<1> DEFINE Stays == made' = made /\ \A q \in McpRequests :
    req'[q].on = req[q].on \/ req'[q].on = link
           Around == UNCHANGED <<daemon, granted, stdin, outages>>
<1>2. ASSUME Stays, Around PROVE McpMade'
  BY <1>2, McpStaysOn DEF McpMade
<1>3. ASSUME NEW r \in McpRequests,
             A!Answer(r) \/ A!Connect(r) \/ A!Answered(r) \/ A!TimeOut(r) \/ A!Takes(r) \/
                 A!Noticed(r)
      PROVE  McpMade'
  <2>1. made' = made
    BY <1>3 DEF A!Answer, A!Connect, A!Answered, A!TimeOut, A!Takes, A!Noticed
  <2>2. \/ req' = req
        \/ \E s \in McpStages : A!Goes(r, s)
        \/ \E p : A!Reply(r, p)
    BY <1>3 DEF A!Answer, A!Connect, A!Answered, A!TimeOut, A!Takes, A!Noticed, McpStages
  <2>3. Stays
    BY <1>1, <2>1, <2>2, McpMoved
  <2>4. Around
    BY <1>3 DEF A!Answer, A!Connect, A!Answered, A!TimeOut, A!Takes, A!Noticed
  <2> QED
    BY <1>2, <2>3, <2>4
<1>4. ASSUME NEW r \in McpRequests, NEW tool \in Used, A!Call(r, tool) PROVE McpMade'
  <2>1. Stays
    BY <1>1, <1>4 DEF A!Call, McpTyped
  <2> QED
    BY <1>2, <1>4, <2>1 DEF A!Call
<1>5. ASSUME A!Begin PROVE McpMade'
  <2>1. Stays
    <3>1. Head(line) \in McpRequests
      BY <1>5, McpTailOfLine DEF A!Begin, McpIInv, McpTyped
    <3>2. A!Reply(Head(line), "invalid") \/ A!Goes(Head(line), "calling")
      BY <1>5 DEF A!Begin
    <3> QED
      BY <1>1, <1>5, <3>1, <3>2, McpMoved DEF A!Begin, McpStages
  <2> QED
    BY <1>2, <1>5, <2>1 DEF A!Begin
<1>6. ASSUME NEW r \in McpRequests, A!Send(r) PROVE McpMade'
  <2>1. Stays
    <3>1. link \in 0 .. MaxClients
      BY <1>1 DEF McpTyped, A!Constants
    <3>2. PICK s \in McpStages : req' = [req EXCEPT ![r].stage = s, ![r].on = link]
      BY <1>6 DEF A!Send, A!Sent, McpStages
    <3>3. \A q \in McpRequests : req'[q].on = req[q].on \/ req'[q].on = link
      BY <1>1, <3>1, <3>2, McpIsOnConnection
    <3> QED
      BY <1>6, <3>3 DEF A!Send
  <2> QED
    BY <1>2, <1>6, <2>1 DEF A!Send
<1>7. ASSUME NEW r \in McpRequests, A!Connected(r) PROVE McpMade'
  <2>1. CASE daemon
    <3>1. made' = made + 1 /\ \A q \in McpRequests : req'[q].on = req[q].on \/ req'[q].on = made + 1
      <4> DEFINE c == made + 1
      <4>1. c \in 0 .. MaxClients
        BY <1>7 DEF McpIInv, McpTyped, McpOneConnects, A!Connected, A!Constants
      <4>2. req' = [req EXCEPT ![r].stage = "inflight", ![r].on = c]
        BY <1>7, <2>1 DEF A!Connected
      <4> HIDE DEF c
      <4>3. \A q \in McpRequests : req'[q].on = req[q].on \/ req'[q].on = c
        BY <1>1, <4>1, <4>2, McpIsOnConnection DEF McpStages
      <4> QED
        BY <1>7, <2>1, <4>3 DEF A!Connected, c
    <3>2. \A q \in McpRequests : req'[q].on \in 0 .. made'
      BY <1>1, <3>1 DEF McpMade
    <3> QED
      BY <1>7, <3>2 DEF A!Connected, McpMade
  <2>2. CASE ~daemon
    <3>1. Stays
      BY <1>1, <1>7, <2>2, McpMoved DEF A!Connected
    <3> QED
      BY <1>2, <1>7, <2>2, <3>1 DEF A!Connected
  <2> QED
    BY <2>1, <2>2
<1>8. ASSUME NEW r \in McpRequests, A!Drop(r) PROVE McpMade'
  <2>1. Stays
    <3> DEFINE q == A!Failing(req, {link})
    <3>1. q \in [McpRequests -> McpRecord] /\ \A t \in McpRequests : q[t].on = req[t].on
      BY <1>1, McpFailingCalls
    <3>2. req' = [q EXCEPT ![r].stage = "replied", ![r].reply = "lost"]
      BY <1>8 DEF A!Drop
    <3> HIDE DEF q
    <3>3. \A t \in McpRequests : req'[t].on = q[t].on
      BY <3>1, <3>2 DEF McpRecord
    <3> QED
      BY <1>8, <3>1, <3>3 DEF A!Drop
  <2> QED
    BY <1>2, <1>8, <2>1 DEF A!Drop
<1>9. ASSUME NEW r \in McpRequests, NEW outcome \in {"ok", "refused", "failed"},
             A!Performs(r, outcome)
      PROVE  McpMade'
  <2>1. Stays
    <3>1. req' = req \/ \E s \in McpStages : A!Goes(r, s)
      BY <1>9 DEF A!Performs, McpStages
    <3> QED
      BY <1>1, <1>9, <3>1, McpMoved DEF A!Performs
  <2> QED
    BY <1>2, <1>9, <2>1 DEF A!Performs
<1>10. ASSUME A!Eof PROVE McpMade'
  <2>1. Stays
    BY <1>1, <1>10 DEF A!Eof, McpTyped
  <2>2. \A q \in McpRequests : req'[q].on \in 0 .. made'
    BY <2>1, McpStaysOn
  <2> QED
    BY <1>10, <2>2 DEF A!Eof, McpMade
<1>11. ASSUME A!Dies PROVE McpMade'
  <2>1. Stays
    BY <1>1, <1>11, McpFailingCalls DEF A!Dies
  <2>2. \A q \in McpRequests : req'[q].on \in 0 .. made'
    BY <2>1, McpStaysOn
  <2>3. outages' \in 0 .. MaxFaults
    BY <1>11 DEF A!Dies, McpMade, A!Constants
  <2> QED
    BY <1>11, <2>2, <2>3 DEF A!Dies, McpMade
<1>12. ASSUME A!Starts \/ A!Grant PROVE McpMade'
  BY <1>12 DEF A!Starts, A!Grant, McpMade
<1>13. CASE UNCHANGED A!vars
  BY <1>13 DEF A!vars, McpMade
<1> HIDE DEF Stays, Around
<1>14. CASE A!Next
  BY <1>3, <1>4, <1>5, <1>6, <1>7, <1>8, <1>9, <1>10, <1>11, <1>12, <1>14 DEF A!Next
<1> QED
  BY <1>13, <1>14

LEMMA McpMeansTyped == ASSUME A!Constants, McpIInv, McpMade PROVE A!TypeOK
<1>1. \A r \in McpRequests : req[r] \in McpRecord /\ ran[r] \in McpFates /\ written[r] \in 0 .. 2
  BY DEF McpIInv, McpTyped, A!ToldOnce, McpRecord
<1> QED
  BY <1>1 DEF McpIInv, McpTyped, McpMade, McpRecord, McpStages, McpFates, A!Replies, A!TypeOK,
     A!Constants

-----------------------------------------------------------------------------
(* PanelState: for any number of changes of the device list, of leases, of *)
(* requests under way and of places in the event queue.                    *)
PanelRequests == [on : BOOLEAN, heard : BOOLEAN]
PanelEvents == 0 .. MaxLeases

-----------------------------------------------------------------------------
(* The inductive invariant, in named parts.                                *)

PanelTypedDaemon ==
    /\ running \in BOOLEAN /\ version \in 1 .. MaxVersion /\ rail \in BOOLEAN
    /\ leases \subseteq 1 .. issued /\ issued \in 0 .. MaxLeases
    /\ restarts \in 0 .. MaxRestarts /\ timeouts \in 0 .. MaxTimeouts

PanelTypedLink ==
    /\ open \in BOOLEAN /\ client \in BOOLEAN
    /\ supervisor \in {"backoff", "safety", "devices", "sleep", "closing"}

PanelTypedList ==
    /\ want \in BOOLEAN /\ answer \in 0 .. MaxVersion /\ shown \in 0 .. MaxVersion
    /\ behind \in BOOLEAN

PanelTypedEvents == events \in Seq(PanelEvents) /\ Len(events) <= Capacity

PanelTypedGestures ==
    /\ jobs \in Seq(PanelRequests) /\ Len(jobs) <= MaxJobs
    /\ tap \in {"none", "on", "off"} /\ reply \in 0 .. U!Unanswered /\ stopping \in BOOLEAN

PanelTypedLease ==
    /\ held \in 0 .. MaxLeases /\ keeper \in {"none", "asleep", "asked", "granted", "refused"}

\* A list is on its way only to a supervisor that waits for it.
PanelAwaited == answer # 0 => supervisor = "devices"

\* While nothing says otherwise, what is shown, or on its way, is current.
PanelCurrent ==
    open /\ ~want /\ ~behind /\ U!DevicesChanged \notin U!ToSet(events) =>
        /\ supervisor \in {"safety", "sleep"} => shown = version
        /\ supervisor = "devices" /\ answer # 0 => answer = version

PanelIInv ==
         /\ PanelTypedDaemon /\ PanelTypedLink /\ PanelTypedList /\ PanelTypedEvents
         /\ PanelTypedGestures /\ PanelTypedLease
         /\ U!HeldIsKept /\ PanelAwaited /\ PanelCurrent

-----------------------------------------------------------------------------
(* The queue of events.                                                    *)

LEMMA PanelCounting == \A T : U!Cardinality(T) = Cardinality(T)
  BY DEF U!Cardinality, Cardinality, U!IsFiniteSet, IsFiniteSet

LEMMA PanelSequenced ==
    ASSUME NEW items, IsFiniteSet(items)
    PROVE  U!SetToSeq(items) \in Seq(items)
<1>1. PICK size \in Nat : ExistsBijection(1 .. size, items)
  BY FS_NatBijection
<1>2. U!Cardinality(items) = size
  BY <1>1, FS_CountingElements, PanelCounting
<1>3. PICK f \in Bijection(1 .. size, items) : TRUE
  BY <1>1 DEF ExistsBijection
<1>4. f \in [1 .. size -> items] /\ \A a, b \in 1 .. size : f[a] = f[b] => a = b
  BY DEF Bijection, Injection, IsInjective
<1>5. U!IsInjective(f)
  BY <1>4 DEF U!IsInjective
<1>6. U!SetToSeq(items) \in [1 .. size -> items]
  BY <1>2, <1>4, <1>5, Zenon DEF U!SetToSeq
<1> QED
  BY <1>6

\* What is told to an open connection is in the queue afterwards, or was pushed
\* out of it, which is not forgotten.
LEMMA PanelNotified ==
    ASSUME U!Constants, PanelTypedEvents, open \in BOOLEAN, behind \in BOOLEAN,
           NEW es \in Seq(PanelEvents), U!Notify(es)
    PROVE  /\ PanelTypedEvents' /\ behind' \in BOOLEAN
           /\ open /\ ~behind' /\ U!DevicesChanged \notin U!ToSet(events') =>
                ~behind /\ U!DevicesChanged \notin U!ToSet(events)
                /\ U!DevicesChanged \notin U!ToSet(es)
<1>1. CASE ~open
  <2>1. events' = events /\ behind' = behind
    BY <1>1, Zenon DEF U!Notify
  <2> QED
    BY <2>1, <1>1 DEF PanelTypedEvents
<1>2. CASE open
  <2> DEFINE all == events \o es
             len == Len(all)
             k == IF len > Capacity THEN Capacity ELSE len
             gone == SubSeq(all, 1, Len(events) + Len(es) - Len(events'))
  <2>1. events \in Seq(PanelEvents) /\ Capacity \in Nat /\ Len(events) \in Nat /\ Len(es) \in Nat
    BY LenProperties DEF PanelTypedEvents, U!Constants
  <2>2. /\ all \in Seq(PanelEvents) /\ len = Len(events) + Len(es)
        /\ \A i \in 1 .. len : all[i] = IF i <= Len(events) THEN events[i] ELSE es[i - Len(events)]
    BY <2>1, ConcatProperties
  <2>3. events' = SubSeq(all, len - k + 1, len) /\
        behind' = (behind \/ U!DevicesChanged \in U!ToSet(gone))
    BY <1>2 DEF U!Notify, U!Delivered
  <2>4. \A i \in 1 .. len : all[i] \in PanelEvents
    BY <2>2, ElementOfSeq
  <2> HIDE DEF all
  <2>5. len \in Nat /\ k \in 0 .. len /\ k <= Capacity
    BY <2>1, <2>2
  <2> HIDE DEF len, k
  <2>6. /\ events' \in Seq(PanelEvents) /\ Len(events') = k
        /\ \A i \in 1 .. k : events'[i] = all[len - k + i]
    <3>1. \A i \in len - k + 1 .. len : all[i] \in PanelEvents
      BY <2>4, <2>5
    <3>2. len - k + 1 \in Int /\ len \in Int
      BY <2>5
    <3>3. /\ events' \in Seq(PanelEvents)
          /\ Len(events') = IF len - k + 1 <= len THEN len - (len - k + 1) + 1 ELSE 0
          /\ \A i \in 1 .. len - (len - k + 1) + 1 : events'[i] = all[len - k + 1 + i - 1]
      BY <2>3, <3>1, <3>2, SubSeqProperties
    <3>4. Len(events') = k
      BY <3>3, <2>5
    <3>5. ASSUME NEW i \in 1 .. k PROVE events'[i] = all[len - k + i]
      <4>1. i \in 1 .. len - (len - k + 1) + 1 /\ len - k + 1 + i - 1 = len - k + i
        BY <2>5
      <4> QED
        BY <4>1, <3>3
    <3> QED
      BY <3>3, <3>4, <3>5
  <2>7. /\ gone \in Seq(PanelEvents) /\ Len(gone) = len - k
        /\ \A i \in 1 .. len - k : gone[i] = all[i]
    <3>1. \A i \in 1 .. len - k : all[i] \in PanelEvents
      BY <2>4, <2>5
    <3>2. gone = SubSeq(all, 1, len - k) /\ 1 \in Int /\ len - k \in Int
      BY <2>2, <2>5, <2>6
    <3> HIDE DEF gone
    <3>3. /\ gone \in Seq(PanelEvents) /\ Len(gone) = IF 1 <= len - k THEN len - k - 1 + 1 ELSE 0
          /\ \A i \in 1 .. len - k - 1 + 1 : gone[i] = all[1 + i - 1]
      BY <3>1, <3>2, SubSeqProperties
    <3> QED
      BY <3>3, <2>5
  <2> HIDE DEF gone
  <2>8. PanelTypedEvents'
    BY <2>5, <2>6 DEF PanelTypedEvents
  <2>9. ASSUME ~behind', U!DevicesChanged \notin U!ToSet(events'), NEW j \in 1 .. len
        PROVE  all[j] # U!DevicesChanged
    <3>1. CASE j <= len - k
      <4>1. j \in 1 .. len - k
        BY <3>1, <2>5
      <4>2. gone[j] = all[j] /\ gone[j] \in U!ToSet(gone)
        BY <4>1, <2>7 DEF U!ToSet
      <4> QED
        BY <4>2, <2>3, <2>9
    <3>2. CASE ~(j <= len - k)
      <4>1. j - (len - k) \in 1 .. k /\ len - k + (j - (len - k)) = j
        BY <3>2, <2>5
      <4>2. events'[j - (len - k)] = all[j] /\ events'[j - (len - k)] \in U!ToSet(events')
        BY <4>1, <2>6 DEF U!ToSet
      <4> QED
        BY <4>2, <2>9
    <3> QED
      BY <3>1, <3>2
  <2>10. ASSUME ~behind', U!DevicesChanged \notin U!ToSet(events')
         PROVE  U!DevicesChanged \notin U!ToSet(events) /\ U!DevicesChanged \notin U!ToSet(es)
    <3>1. ASSUME NEW i \in 1 .. Len(events) PROVE events[i] # U!DevicesChanged
      <4>1. i \in 1 .. len /\ all[i] = events[i]
        BY <2>1, <2>2
      <4> QED
        BY <4>1, <2>9, <2>10
    <3>2. ASSUME NEW i \in 1 .. Len(es) PROVE es[i] # U!DevicesChanged
      <4>1. Len(events) + i \in 1 .. len /\ all[Len(events) + i] = es[i]
        BY <2>1, <2>2
      <4> QED
        BY <4>1, <2>9, <2>10
    <3> QED
      BY <3>1, <3>2, <2>1 DEF U!ToSet
  <2> QED
    BY <2>3, <2>8, <2>10, <1>2
<1> QED
  BY <1>1, <1>2

-----------------------------------------------------------------------------
(* The steps, one conjunct of the invariant after the other.               *)

LEMMA PanelInitIInv == ASSUME U!Constants, U!Init PROVE PanelIInv
<1>1. <<>> \in Seq(PanelEvents) /\ <<>> \in Seq(PanelRequests) /\ Len(<<>>) = 0
  BY EmptySeq
<1>2. PanelTypedDaemon /\ PanelTypedLink /\ PanelTypedList /\ PanelTypedLease
  <2>0. /\ 0 \in 0 .. MaxVersion /\ 1 \in 1 .. MaxVersion /\ 0 \in 0 .. MaxLeases
        /\ 0 \in 0 .. MaxRestarts /\ 0 \in 0 .. MaxTimeouts
    BY DEF U!Constants
  <2>1. PanelTypedDaemon
    BY <2>0 DEF U!Init, PanelTypedDaemon
  <2>2. PanelTypedLink
    BY DEF U!Init, PanelTypedLink
  <2>3. PanelTypedList
    BY <2>0, Zenon DEF U!Init, PanelTypedList
  <2>4. PanelTypedLease
    BY DEF U!Constants, U!Init, PanelTypedLease
  <2> QED
    BY <2>1, <2>2, <2>3, <2>4
<1>3. PanelTypedEvents /\ PanelTypedGestures
  <2>1. PanelTypedEvents
    BY <1>1 DEF U!Constants, U!Init, PanelTypedEvents
  <2>2. jobs \in Seq(PanelRequests) /\ Len(jobs) <= MaxJobs
    BY <1>1 DEF U!Constants, U!Init
  <2>3. tap = "none" /\ reply = MaxLeases + 1 /\ stopping = FALSE /\ MaxLeases \in Nat
    BY DEF U!Constants, U!Init, U!Unanswered
  <2>4. reply \in 0 .. U!Unanswered
    BY <2>3 DEF U!Unanswered
  <2> QED
    BY <2>1, <2>2, <2>3, <2>4, Zenon DEF PanelTypedGestures
<1>4. U!HeldIsKept /\ PanelAwaited /\ PanelCurrent
  BY DEF U!Init, U!HeldIsKept, PanelAwaited, PanelCurrent
<1> QED
  BY <1>2, <1>3, <1>4 DEF PanelIInv

\* The steps that tell the panel something.
LEMMA PanelTellings ==
    ASSUME U!Constants, PanelIInv,
           U!DeviceChanges \/ U!SwitchOff \/ \E l \in U!Ids : U!Lapse(l)
    PROVE  /\ PanelTypedEvents' /\ behind' \in BOOLEAN
           /\ open /\ ~behind' /\ U!DevicesChanged \notin U!ToSet(events') =>
                ~behind /\ U!DevicesChanged \notin U!ToSet(events) /\ ~U!DeviceChanges
<1>0. /\ PanelTypedEvents /\ open \in BOOLEAN /\ behind \in BOOLEAN /\ leases \subseteq U!Ids
      /\ MaxLeases \in Nat
  BY DEF PanelIInv, PanelTypedLink, PanelTypedList, PanelTypedDaemon, U!Ids, U!Constants
<1>1. CASE U!DeviceChanges
  <2>1. U!Notify(<<U!DevicesChanged>>) /\ <<U!DevicesChanged>> \in Seq(PanelEvents)
    BY <1>0, <1>1 DEF U!DeviceChanges, U!DevicesChanged, PanelEvents
  <2>2. U!DevicesChanged \in U!ToSet(<<U!DevicesChanged>>)
    BY DEF U!ToSet
  <2> QED
    BY <1>0, <2>1, <2>2, PanelNotified
<1>2. CASE ~U!DeviceChanges /\ (U!SwitchOff \/ \E l \in U!Ids : U!Lapse(l))
  <2>1. PICK es \in Seq(PanelEvents) : U!Notify(es)
    <3>1. CASE U!SwitchOff
      <4>1. IsFiniteSet(leases)
        <5>1. IsFiniteSet(1 .. MaxLeases)
          BY <1>0, FS_Interval
        <5> QED
          BY <1>0, <5>1, FS_Subset DEF U!Ids
      <4>2. U!SetToSeq(leases) \in Seq(leases)
        BY <4>1, PanelSequenced
      <4>3. leases \subseteq PanelEvents
        BY <1>0 DEF U!Ids, PanelEvents
      <4>4. U!SetToSeq(leases) \in Seq(PanelEvents)
        BY <4>2, <4>3
      <4>5. U!Notify(U!SetToSeq(leases))
        BY <3>1 DEF U!SwitchOff
      <4> QED
        BY <4>4, <4>5
    <3>2. ASSUME NEW l \in U!Ids, U!Lapse(l) PROVE \E es \in Seq(PanelEvents) : U!Notify(es)
      <4>1. U!Notify(<<l>>) /\ <<l>> \in Seq(PanelEvents)
        BY <1>0, <3>2 DEF U!Lapse, U!Ids, PanelEvents
      <4> QED
        BY <4>1
    <3> QED
      BY <1>2, <3>1, <3>2
  <2> QED
    BY <1>0, <1>2, <2>1, PanelNotified
<1> QED
  BY <1>1, <1>2

LEMMA PanelDaemonTyped == ASSUME U!Constants, PanelIInv, U!Next PROVE PanelTypedDaemon'
<1>0. U!Constants /\ PanelIInv
  OBVIOUS
<1>1. CASE U!Close
  BY <1>1, <1>0 DEF PanelIInv, PanelTypedDaemon, U!Close, U!Constants, U!daemon, U!link,
     U!list, U!lease, U!gesture
<1>2. CASE U!DeviceChanges
  BY <1>2, <1>0 DEF PanelIInv, PanelTypedDaemon, U!DeviceChanges, U!Constants, U!daemon,
     U!link, U!list, U!lease, U!gesture
<1>3. CASE U!SwitchOn
  BY <1>3, <1>0 DEF PanelIInv, PanelTypedDaemon, U!SwitchOn, U!Constants, U!daemon, U!link,
     U!list, U!lease, U!gesture
<1>4. CASE U!SwitchOff
  BY <1>4, <1>0 DEF PanelIInv, PanelTypedDaemon, U!SwitchOff, U!Constants, U!daemon, U!link,
     U!list, U!lease, U!gesture
<1>5. ASSUME NEW l \in U!Ids, U!Lapse(l) PROVE PanelTypedDaemon'
  BY <1>5, <1>0 DEF PanelIInv, PanelTypedDaemon, U!Lapse, U!Constants, U!daemon, U!link,
     U!list, U!lease, U!gesture
<1>6. CASE U!EstopRuns
  BY <1>6, <1>0 DEF PanelIInv, PanelTypedDaemon, U!EstopRuns, U!Constants, U!daemon, U!link,
     U!list, U!lease, U!gesture
<1>7. CASE U!Restart
  <2>1. /\ version' = version /\ rail' = FALSE /\ leases' = {} /\ issued' = issued
        /\ timeouts' = timeouts /\ running' = ~running
    BY <1>7 DEF U!Restart
  <2>2. restarts' \in 0 .. MaxRestarts
    BY <1>7, <1>0 DEF U!Restart, PanelIInv, PanelTypedDaemon, U!Constants
  <2>3. running' \in BOOLEAN
    BY <2>1, Zenon
  <2> QED
    BY <2>1, <2>2, <2>3, <1>0, Zenon DEF PanelIInv, PanelTypedDaemon
<1>8. CASE U!PollFails \/ U!TapFails \/ U!RenewFails
  <2>1. /\ running' = running /\ version' = version /\ rail' = rail /\ leases' = leases
        /\ issued' = issued /\ restarts' = restarts
    BY <1>8 DEF U!PollFails, U!TapFails, U!RenewFails, U!daemon
  <2>2. timeouts' = timeouts \/ (timeouts < MaxTimeouts /\ timeouts' = timeouts + 1)
    BY <1>8 DEF U!PollFails, U!TapFails, U!RenewFails
  <2>3. timeouts' \in 0 .. MaxTimeouts
    BY <2>2, <1>0 DEF PanelIInv, PanelTypedDaemon, U!Constants
  <2> QED
    BY <2>1, <2>3, <1>0 DEF PanelIInv, PanelTypedDaemon
<1>9. ASSUME U!Connect \/ U!PollSafety \/ U!ListDevices \/ U!DevicesListed \/ U!DevicesRefused
      PROVE  running' = running /\ version' = version /\ rail' = rail /\ leases' = leases /\
             issued' = issued /\ restarts' = restarts /\ timeouts' = timeouts
  BY <1>9 DEF U!Connect, U!PollSafety, U!ListDevices, U!DevicesListed, U!DevicesRefused,
     U!Constants, U!daemon, U!link, U!list, U!lease, U!gesture
<1>10. ASSUME U!Wake \/ U!Pump \/ U!SwitchOnRefused \/ U!Renewal \/ U!TapReturns
      PROVE  running' = running /\ version' = version /\ rail' = rail /\ leases' = leases /\
             issued' = issued /\ restarts' = restarts /\ timeouts' = timeouts
  BY <1>10 DEF U!Wake, U!Pump, U!SwitchOnRefused, U!Renewal, U!TapReturns, U!Constants,
     U!daemon, U!link, U!list, U!lease, U!gesture
<1>11. ASSUME U!Estop \/ U!Renew \/ U!Renewed
      PROVE  running' = running /\ version' = version /\ rail' = rail /\ leases' = leases /\
             issued' = issued /\ restarts' = restarts /\ timeouts' = timeouts
  BY <1>11 DEF U!Estop, U!Renew, U!Renewed, U!Constants, U!daemon, U!link, U!list, U!lease,
     U!gesture
<1>12. ASSUME NEW on \in BOOLEAN, U!Tap(on)
      PROVE  running' = running /\ version' = version /\ rail' = rail /\ leases' = leases /\
             issued' = issued /\ restarts' = restarts /\ timeouts' = timeouts
  BY <1>12 DEF U!Tap, U!Constants, U!daemon, U!link, U!list, U!lease, U!gesture
<1>13. running' = running /\ version' = version /\ rail' = rail /\ leases' = leases /\
       issued' = issued /\ restarts' = restarts /\ timeouts' = timeouts => PanelTypedDaemon'
  BY <1>0 DEF PanelIInv, PanelTypedDaemon
<1> QED
  BY <1>1, <1>2, <1>3, <1>4, <1>5, <1>6, <1>7, <1>8, <1>9, <1>10, <1>11, <1>12,
     <1>13 DEF U!Next, U!Panel, U!Served

LEMMA PanelLinkTyped == ASSUME U!Constants, PanelIInv, U!Next PROVE PanelTypedLink'
<1>0. U!Constants /\ PanelIInv
  OBVIOUS
<1>1. CASE U!Connect \/ U!PollSafety \/ U!DevicesListed \/ U!DevicesRefused \/ U!Wake
  BY <1>1, <1>0 DEF PanelIInv, PanelTypedLink, U!Connect, U!PollSafety, U!DevicesListed,
     U!DevicesRefused, U!Wake, U!Constants, U!daemon, U!link, U!list, U!lease, U!gesture
<1>2. CASE U!PollFails \/ U!Close \/ U!Restart \/ U!TapFails \/ U!RenewFails
  BY <1>2, <1>0 DEF PanelIInv, PanelTypedLink, U!PollFails, U!Close, U!Restart, U!TapFails,
     U!RenewFails, U!Constants, U!daemon, U!link, U!list, U!lease, U!gesture
<1>3. ASSUME U!ListDevices \/ U!Pump \/ U!DeviceChanges \/ U!SwitchOn \/ U!SwitchOnRefused
      PROVE  open' = open /\ client' = client /\ supervisor' = supervisor
  BY <1>3 DEF U!ListDevices, U!Pump, U!DeviceChanges, U!SwitchOn, U!SwitchOnRefused,
     U!Constants, U!daemon, U!link, U!list, U!lease, U!gesture
<1>4. ASSUME U!SwitchOff \/ U!Renewal \/ U!EstopRuns \/ U!TapReturns \/ U!Estop
      PROVE  open' = open /\ client' = client /\ supervisor' = supervisor
  BY <1>4 DEF U!SwitchOff, U!Renewal, U!EstopRuns, U!TapReturns, U!Estop, U!Constants,
     U!daemon, U!link, U!list, U!lease, U!gesture
<1>5. ASSUME U!Renew \/ U!Renewed
      PROVE  open' = open /\ client' = client /\ supervisor' = supervisor
  BY <1>5 DEF U!Renew, U!Renewed, U!Constants, U!daemon, U!link, U!list, U!lease, U!gesture
<1>6. ASSUME NEW l \in U!Ids, U!Lapse(l)
      PROVE  open' = open /\ client' = client /\ supervisor' = supervisor
  BY <1>6 DEF U!Lapse, U!Constants, U!daemon, U!link, U!list, U!lease, U!gesture
<1>7. ASSUME NEW on \in BOOLEAN, U!Tap(on)
      PROVE  open' = open /\ client' = client /\ supervisor' = supervisor
  BY <1>7 DEF U!Tap, U!Constants, U!daemon, U!link, U!list, U!lease, U!gesture
<1>8. open' = open /\ client' = client /\ supervisor' = supervisor => PanelTypedLink'
  BY <1>0 DEF PanelIInv, PanelTypedLink
<1> QED
  BY <1>1, <1>2, <1>3, <1>4, <1>5, <1>6, <1>7, <1>8 DEF U!Next, U!Panel, U!Served

LEMMA PanelListTyped == ASSUME U!Constants, PanelIInv, U!Next PROVE PanelTypedList'
<1>0. U!Constants /\ PanelIInv
  OBVIOUS
<1>1. CASE U!Connect \/ U!PollSafety \/ U!DevicesListed \/ U!DevicesRefused
  <2>0. PanelTypedList
    BY <1>0 DEF PanelIInv
  <2>1. CASE U!Connect
    BY <2>0, <2>1 DEF PanelTypedList, U!Connect, U!list
  <2>2. CASE U!PollSafety
    BY <2>0, <2>2 DEF PanelTypedList, U!PollSafety, U!list
  <2>3. CASE U!DevicesListed
    <3>1. /\ want' = want /\ behind' = behind /\ shown' = answer /\ answer' = 0
          /\ 0 \in 0 .. MaxVersion
      BY <2>3, <1>0 DEF U!DevicesListed, U!Constants
    <3> QED
      BY <2>0, <3>1, Zenon DEF PanelTypedList
  <2>4. CASE U!DevicesRefused
    BY <2>0, <2>4 DEF PanelTypedList, U!DevicesRefused, U!list
  <2> QED
    BY <1>1, <2>1, <2>2, <2>3, <2>4
<1>2. CASE U!ListDevices
  <2>1. /\ want' = want /\ behind' = FALSE /\ shown' = shown /\ answer' = version
        /\ version \in 0 .. MaxVersion
    BY <1>2, <1>0 DEF U!ListDevices, PanelIInv, PanelTypedDaemon, U!Constants
  <2> QED
    BY <2>1, <1>0, Zenon DEF PanelTypedList, PanelIInv
<1>3. CASE U!Pump
  BY <1>3, <1>0 DEF PanelIInv, PanelTypedList, U!Pump, U!Constants, U!daemon, U!link, U!list,
     U!lease, U!gesture
<1>4. CASE U!DeviceChanges
  BY <1>4, <1>0, PanelTellings DEF PanelIInv, PanelTypedList, U!DeviceChanges, U!Constants,
     U!daemon, U!link, U!list, U!lease, U!gesture
<1>5. CASE U!SwitchOff
  BY <1>5, <1>0, PanelTellings DEF PanelIInv, PanelTypedList, U!SwitchOff, U!Constants,
     U!daemon, U!link, U!list, U!lease, U!gesture
<1>6. ASSUME NEW l \in U!Ids, U!Lapse(l) PROVE PanelTypedList'
  BY <1>6, <1>0, PanelTellings DEF PanelIInv, PanelTypedList, U!Lapse, U!Constants, U!daemon,
     U!link, U!list, U!lease, U!gesture
<1>7. ASSUME U!Wake \/ U!PollFails \/ U!Close \/ U!SwitchOn \/ U!SwitchOnRefused
      PROVE  want' = want /\ answer' = answer /\ shown' = shown /\ behind' = behind
  BY <1>7 DEF U!Wake, U!PollFails, U!Close, U!SwitchOn, U!SwitchOnRefused, U!Constants,
     U!daemon, U!link, U!list, U!lease, U!gesture
<1>8. ASSUME U!Renewal \/ U!EstopRuns \/ U!Restart \/ U!TapReturns \/ U!TapFails
      PROVE  want' = want /\ answer' = answer /\ shown' = shown /\ behind' = behind
  BY <1>8 DEF U!Renewal, U!EstopRuns, U!Restart, U!TapReturns, U!TapFails, U!Constants,
     U!daemon, U!link, U!list, U!lease, U!gesture
<1>9. ASSUME U!Estop \/ U!Renew \/ U!Renewed \/ U!RenewFails
      PROVE  want' = want /\ answer' = answer /\ shown' = shown /\ behind' = behind
  BY <1>9 DEF U!Estop, U!Renew, U!Renewed, U!RenewFails, U!Constants, U!daemon, U!link, U!list,
     U!lease, U!gesture
<1>10. ASSUME NEW on \in BOOLEAN, U!Tap(on)
      PROVE  want' = want /\ answer' = answer /\ shown' = shown /\ behind' = behind
  BY <1>10 DEF U!Tap, U!Constants, U!daemon, U!link, U!list, U!lease, U!gesture
<1>11. want' = want /\ answer' = answer /\ shown' = shown /\ behind' = behind => PanelTypedList'
  BY <1>0 DEF PanelIInv, PanelTypedList
<1> QED
  BY <1>1, <1>2, <1>3, <1>4, <1>5, <1>6, <1>7, <1>8, <1>9, <1>10, <1>11
     DEF U!Next, U!Panel, U!Served

LEMMA PanelEventsTyped == ASSUME U!Constants, PanelIInv, U!Next PROVE PanelTypedEvents'
<1>0. U!Constants /\ PanelIInv
  OBVIOUS
<1>1. CASE U!Close
  <2>1. events' = <<>> /\ <<>> \in Seq(PanelEvents) /\ Len(<<>>) = 0
    BY <1>1, EmptySeq DEF U!Close
  <2> QED
    BY <2>1, <1>0 DEF PanelTypedEvents, U!Constants
<1>2. CASE U!Pump
  <2>1. events # <<>> /\ events' = Tail(events) /\ events \in Seq(PanelEvents) /\
        Len(events) <= Capacity
    BY <1>2, <1>0 DEF U!Pump, PanelIInv, PanelTypedEvents
  <2>2. events' \in Seq(PanelEvents) /\ Len(events') = Len(events) - 1 /\ Len(events) \in Nat
    BY <2>1, HeadTailProperties, LenProperties
  <2> QED
    BY <2>1, <2>2, <1>0 DEF PanelTypedEvents, U!Constants
<1>3. CASE U!DeviceChanges \/ U!SwitchOff
  BY <1>3, <1>0, PanelTellings
<1>4. ASSUME NEW l \in U!Ids, U!Lapse(l) PROVE PanelTypedEvents'
  BY <1>4, <1>0, PanelTellings
<1>5. ASSUME U!Connect \/ U!PollSafety \/ U!ListDevices \/ U!DevicesListed \/ U!DevicesRefused
      PROVE  events' = events
  BY <1>5 DEF U!Connect, U!PollSafety, U!ListDevices, U!DevicesListed, U!DevicesRefused,
     U!daemon, U!link, U!list, U!lease, U!gesture
<1>6. ASSUME U!Wake \/ U!PollFails \/ U!SwitchOn \/ U!SwitchOnRefused \/ U!Renewal
      PROVE  events' = events
  BY <1>6 DEF U!Wake, U!PollFails, U!SwitchOn, U!SwitchOnRefused, U!Renewal, U!daemon, U!link,
     U!list, U!lease, U!gesture
<1>7. ASSUME U!EstopRuns \/ U!Restart \/ U!TapReturns \/ U!TapFails \/ U!Estop
      PROVE  events' = events
  BY <1>7 DEF U!EstopRuns, U!Restart, U!TapReturns, U!TapFails, U!Estop, U!daemon, U!link,
     U!list, U!lease, U!gesture
<1>8. ASSUME U!Renew \/ U!Renewed \/ U!RenewFails
      PROVE  events' = events
  BY <1>8 DEF U!Renew, U!Renewed, U!RenewFails, U!daemon, U!link, U!list, U!lease, U!gesture
<1>9. ASSUME NEW on \in BOOLEAN, U!Tap(on)
      PROVE  events' = events
  BY <1>9 DEF U!Tap, U!daemon, U!link, U!list, U!lease, U!gesture
<1>10. events' = events => PanelTypedEvents'
  BY <1>0 DEF PanelIInv, PanelTypedEvents
<1> QED
  BY <1>1, <1>2, <1>3, <1>4, <1>5, <1>6, <1>7, <1>8, <1>9, <1>10 DEF U!Next, U!Panel, U!Served

\* The same requests, with nobody waiting for them.
LEMMA PanelForgotten ==
    ASSUME jobs \in Seq(PanelRequests)
    PROVE  U!Unheard \in Seq(PanelRequests) /\ Len(U!Unheard) = Len(jobs)
<1>1. Len(jobs) \in Nat /\ DOMAIN jobs = 1 .. Len(jobs)
  BY LenProperties
<1>2. \A i \in 1 .. Len(jobs) : [jobs[i] EXCEPT !.heard = FALSE] \in PanelRequests
  <2>1. \A i \in 1 .. Len(jobs) : jobs[i] \in PanelRequests
    BY ElementOfSeq
  <2> QED
    BY <2>1 DEF PanelRequests
<1>3. U!Unheard \in [1 .. Len(jobs) -> PanelRequests]
  BY <1>1, <1>2 DEF U!Unheard
<1> QED
  BY <1>1, <1>3, LenProperties

LEMMA PanelGesturesTyped == ASSUME U!Constants, PanelIInv, U!Next PROVE PanelTypedGestures'
<1>0. U!Constants /\ PanelIInv
  OBVIOUS
<1>1. CASE U!SwitchOn \/ U!SwitchOnRefused \/ U!SwitchOff
  <2>1. /\ jobs # <<>> /\ jobs' = Tail(jobs) /\ tap' = tap /\ stopping' = stopping
        /\ \/ reply' = reply
           \/ reply' = 0
           \/ issued < MaxLeases /\ reply' = issued + 1
    BY <1>1 DEF U!SwitchOn, U!SwitchOnRefused, U!SwitchOff, U!Answered
  <2>2. /\ jobs' \in Seq(PanelRequests) /\ Len(jobs') = Len(jobs) - 1 /\ Len(jobs) \in Nat
    BY <2>1, <1>0, HeadTailProperties, LenProperties DEF PanelIInv, PanelTypedGestures
  <2>3. Len(jobs') <= MaxJobs
    BY <2>2, <1>0 DEF PanelIInv, PanelTypedGestures, U!Constants
  <2>4. reply' \in 0 .. U!Unanswered
    BY <2>1, <1>0 DEF PanelIInv, PanelTypedGestures, PanelTypedDaemon, U!Unanswered, U!Constants
  <2> QED
    BY <2>1, <2>2, <2>3, <2>4, <1>0 DEF PanelIInv, PanelTypedGestures
<1>2. CASE U!Close \/ U!Restart
  <2>1. /\ jobs' = <<>> /\ reply' = reply /\ stopping' = stopping /\ tap' \in {tap, "none"}
    BY <1>2 DEF U!Close, U!Restart
  <2>2. <<>> \in Seq(PanelRequests) /\ Len(<<>>) = 0
    BY EmptySeq
  <2>3. Len(jobs') <= MaxJobs
    BY <2>1, <2>2, <1>0 DEF U!Constants
  <2> QED
    BY <2>1, <2>2, <2>3, <1>0 DEF PanelIInv, PanelTypedGestures
<1>3. ASSUME NEW on \in BOOLEAN, U!Tap(on) PROVE PanelTypedGestures'
  <2>1. /\ jobs \in Seq(PanelRequests) /\ MaxJobs \in Nat /\ MaxLeases \in Nat
        /\ Len(jobs) <= MaxJobs
    BY <1>0 DEF PanelIInv, PanelTypedGestures, U!Constants
  <2>2. /\ U!Unheard \in Seq(PanelRequests) /\ Len(U!Unheard) = Len(jobs) /\ Len(jobs) \in Nat
    BY <2>1, PanelForgotten, LenProperties
  <2>3. [on |-> on, heard |-> TRUE] \in PanelRequests
    BY <1>3 DEF PanelRequests
  <2>4. /\ Append(U!Unheard, [on |-> on, heard |-> TRUE]) \in Seq(PanelRequests)
        /\ Len(Append(U!Unheard, [on |-> on, heard |-> TRUE])) = Len(jobs) + 1
    BY <2>2, <2>3, AppendProperties
  <2>5. Len(jobs) < MaxJobs
    BY <1>3 DEF U!Tap
  <2>6. jobs' \in {jobs, U!Unheard, Append(U!Unheard, [on |-> on, heard |-> TRUE])}
    BY <1>3 DEF U!Tap
  <2>7. jobs' \in Seq(PanelRequests) /\ Len(jobs') <= MaxJobs
    <3>1. CASE jobs' = jobs
      BY <2>1, <3>1
    <3>2. CASE jobs' = U!Unheard
      BY <2>1, <2>2, <3>2
    <3>3. CASE jobs' = Append(U!Unheard, [on |-> on, heard |-> TRUE])
      BY <2>1, <2>2, <2>4, <2>5, <3>3
    <3> QED
      BY <2>6, <3>1, <3>2, <3>3
  <2>8. reply' = U!Unanswered /\ tap' \in {"none", "on", "off"} /\ stopping' = stopping
    BY <1>3 DEF U!Tap
  <2>9. U!Unanswered \in 0 .. U!Unanswered
    BY <2>1 DEF U!Unanswered
  <2> QED
    BY <2>7, <2>8, <2>9, <1>0 DEF PanelIInv, PanelTypedGestures
<1>4. CASE U!TapReturns
  <2>1. /\ jobs' = jobs /\ tap' = "none" /\ reply' = U!Unanswered /\ stopping' = stopping
    BY <1>4 DEF U!TapReturns
  <2>2. U!Unanswered \in 0 .. U!Unanswered
    BY <1>0 DEF U!Unanswered, U!Constants
  <2> QED
    BY <2>1, <2>2, <1>0 DEF PanelIInv, PanelTypedGestures
<1>5. CASE U!TapFails
  <2>1. /\ jobs' = U!Unheard /\ tap' = "none" /\ reply' = reply /\ stopping' = stopping
    BY <1>5 DEF U!TapFails
  <2> QED
    BY <2>1, <1>0, PanelForgotten DEF PanelIInv, PanelTypedGestures
<1>6. CASE U!Estop \/ U!EstopRuns
  <2>1. /\ jobs' = jobs /\ tap' = tap /\ reply' = reply /\ stopping' \in {open, FALSE}
    BY <1>6 DEF U!Estop, U!EstopRuns, U!gesture
  <2> QED
    BY <2>1, <1>0 DEF PanelIInv, PanelTypedGestures, PanelTypedLink
<1>7. ASSUME U!Connect \/ U!PollSafety \/ U!ListDevices \/ U!DevicesListed \/ U!DevicesRefused
      PROVE  jobs' = jobs /\ tap' = tap /\ reply' = reply /\ stopping' = stopping
  BY <1>7 DEF U!Connect, U!PollSafety, U!ListDevices, U!DevicesListed, U!DevicesRefused,
     U!daemon, U!link, U!list, U!lease, U!gesture
<1>8. ASSUME U!Wake \/ U!PollFails \/ U!Pump \/ U!DeviceChanges \/ U!Renewal
      PROVE  jobs' = jobs /\ tap' = tap /\ reply' = reply /\ stopping' = stopping
  BY <1>8 DEF U!Wake, U!PollFails, U!Pump, U!DeviceChanges, U!Renewal, U!daemon, U!link,
     U!list, U!lease, U!gesture
<1>9. ASSUME U!Renew \/ U!Renewed \/ U!RenewFails
      PROVE  jobs' = jobs /\ tap' = tap /\ reply' = reply /\ stopping' = stopping
  BY <1>9 DEF U!Renew, U!Renewed, U!RenewFails, U!daemon, U!link, U!list, U!lease, U!gesture
<1>10. ASSUME NEW l \in U!Ids, U!Lapse(l)
      PROVE  jobs' = jobs /\ tap' = tap /\ reply' = reply /\ stopping' = stopping
  BY <1>10 DEF U!Lapse, U!daemon, U!link, U!list, U!lease, U!gesture
<1>11. jobs' = jobs /\ tap' = tap /\ reply' = reply /\ stopping' = stopping => PanelTypedGestures'
  BY <1>0 DEF PanelIInv, PanelTypedGestures
<1> QED
  BY <1>1, <1>2, <1>3, <1>4, <1>5, <1>6, <1>7, <1>8, <1>9, <1>10, <1>11
     DEF U!Next, U!Panel, U!Served

LEMMA PanelLeaseTyped == ASSUME U!Constants, PanelIInv, U!Next PROVE PanelTypedLease'
<1>0. U!Constants /\ PanelIInv
  OBVIOUS
<1>1. CASE U!Close \/ U!Estop
  <2>1. held' = 0 /\ keeper' = "none"
    BY <1>1 DEF U!Close, U!Estop
  <2> QED
    BY <2>1, <1>0 DEF PanelTypedLease, U!Constants
<1>2. ASSUME NEW on \in BOOLEAN, U!Tap(on) PROVE PanelTypedLease'
  <2>1. held' = 0 /\ keeper' = "none"
    BY <1>2 DEF U!Tap
  <2> QED
    BY <2>1, <1>0 DEF PanelTypedLease, U!Constants
<1>3. CASE U!Pump \/ U!Renewal \/ U!Renew \/ U!Renewed \/ U!RenewFails
  <2>1. held' \in {0, held} /\ keeper' \in {keeper, "none", "asleep", "asked", "granted", "refused"}
    BY <1>3 DEF U!Pump, U!Renewal, U!Renew, U!Renewed, U!RenewFails
  <2>2. 0 \in 0 .. MaxLeases
    BY <1>0 DEF U!Constants
  <2> QED
    BY <2>1, <2>2, <1>0 DEF PanelIInv, PanelTypedLease
<1>4. CASE U!TapReturns
  <2>1. \/ held' = held /\ keeper' = keeper
        \/ held' = reply /\ keeper' = "asleep" /\ reply # U!Unanswered
    BY <1>4 DEF U!TapReturns, U!lease
  <2>2. reply # U!Unanswered => reply \in 0 .. MaxLeases
    BY <1>0 DEF PanelIInv, PanelTypedGestures, U!Unanswered, U!Constants
  <2> QED
    BY <2>1, <2>2, <1>0 DEF PanelIInv, PanelTypedLease
<1>5. ASSUME U!Connect \/ U!PollSafety \/ U!ListDevices \/ U!DevicesListed \/ U!DevicesRefused
      PROVE  held' = held /\ keeper' = keeper
  BY <1>5 DEF U!Connect, U!PollSafety, U!ListDevices, U!DevicesListed, U!DevicesRefused,
     U!daemon, U!link, U!list, U!lease, U!gesture
<1>6. ASSUME U!Wake \/ U!PollFails \/ U!DeviceChanges \/ U!SwitchOn \/ U!SwitchOnRefused
      PROVE  held' = held /\ keeper' = keeper
  BY <1>6 DEF U!Wake, U!PollFails, U!DeviceChanges, U!SwitchOn, U!SwitchOnRefused, U!daemon,
     U!link, U!list, U!lease, U!gesture
<1>7. ASSUME U!SwitchOff \/ U!EstopRuns \/ U!Restart \/ U!TapFails
      PROVE  held' = held /\ keeper' = keeper
  BY <1>7 DEF U!SwitchOff, U!EstopRuns, U!Restart, U!TapFails, U!daemon, U!link, U!list,
     U!lease, U!gesture
<1>8. ASSUME NEW l \in U!Ids, U!Lapse(l)
      PROVE  held' = held /\ keeper' = keeper
  BY <1>8 DEF U!Lapse, U!daemon, U!link, U!list, U!lease, U!gesture
<1>9. held' = held /\ keeper' = keeper => PanelTypedLease'
  BY <1>0 DEF PanelIInv, PanelTypedLease
<1> QED
  BY <1>1, <1>2, <1>3, <1>4, <1>5, <1>6, <1>7, <1>8, <1>9 DEF U!Next, U!Panel, U!Served

LEMMA PanelHeldKept == ASSUME U!Constants, PanelIInv, U!Next PROVE U!HeldIsKept'
<1>0. U!Constants /\ PanelIInv
  OBVIOUS
<1>1. CASE U!Close \/ U!Pump \/ U!Renewal \/ U!Estop
  BY <1>1, <1>0 DEF PanelIInv, U!HeldIsKept, U!Close, U!Pump, U!Renewal, U!Estop
<1>2. CASE U!Renew \/ U!Renewed \/ U!RenewFails
  BY <1>2, <1>0 DEF PanelIInv, U!HeldIsKept, U!Renew, U!Renewed, U!RenewFails
<1>3. CASE U!TapReturns
  BY <1>3, <1>0 DEF PanelIInv, U!HeldIsKept, U!TapReturns, U!lease
<1>4. ASSUME NEW on \in BOOLEAN, U!Tap(on) PROVE U!HeldIsKept'
  BY <1>4 DEF U!HeldIsKept, U!Tap
<1>5. ASSUME U!Connect \/ U!PollSafety \/ U!ListDevices \/ U!DevicesListed \/ U!DevicesRefused
      PROVE  held' = held /\ keeper' = keeper
  BY <1>5 DEF U!Connect, U!PollSafety, U!ListDevices, U!DevicesListed, U!DevicesRefused,
     U!daemon, U!link, U!list, U!lease, U!gesture
<1>6. ASSUME U!Wake \/ U!PollFails \/ U!DeviceChanges \/ U!SwitchOn \/ U!SwitchOnRefused
      PROVE  held' = held /\ keeper' = keeper
  BY <1>6 DEF U!Wake, U!PollFails, U!DeviceChanges, U!SwitchOn, U!SwitchOnRefused, U!daemon,
     U!link, U!list, U!lease, U!gesture
<1>7. ASSUME U!SwitchOff \/ U!EstopRuns \/ U!Restart \/ U!TapFails
      PROVE  held' = held /\ keeper' = keeper
  BY <1>7 DEF U!SwitchOff, U!EstopRuns, U!Restart, U!TapFails, U!daemon, U!link, U!list,
     U!lease, U!gesture
<1>8. ASSUME NEW l \in U!Ids, U!Lapse(l)
      PROVE  held' = held /\ keeper' = keeper
  BY <1>8 DEF U!Lapse, U!daemon, U!link, U!list, U!lease, U!gesture
<1>9. held' = held /\ keeper' = keeper => U!HeldIsKept'
  BY <1>0 DEF PanelIInv, U!HeldIsKept
<1> QED
  BY <1>1, <1>2, <1>3, <1>4, <1>5, <1>6, <1>7, <1>8, <1>9 DEF U!Next, U!Panel, U!Served

LEMMA PanelStillAwaited == ASSUME U!Constants, PanelIInv, U!Next PROVE PanelAwaited'
<1>0. U!Constants /\ PanelIInv
  OBVIOUS
<1>1. CASE U!Connect \/ U!PollSafety \/ U!ListDevices \/ U!DevicesListed \/ U!DevicesRefused
  <2>1. CASE U!Connect \/ U!PollSafety
    BY <2>1, <1>0 DEF PanelIInv, PanelAwaited, U!Connect, U!PollSafety
  <2>2. CASE U!ListDevices
    BY <2>2, <1>0 DEF PanelIInv, PanelAwaited, U!ListDevices, U!link
  <2>3. CASE U!DevicesListed \/ U!DevicesRefused
    BY <2>3, <1>0 DEF PanelIInv, PanelAwaited, U!DevicesListed, U!DevicesRefused
  <2> QED
    BY <1>1, <2>1, <2>2, <2>3
<1>2. CASE U!Wake \/ U!PollFails \/ U!Close
  BY <1>2, <1>0 DEF PanelIInv, PanelAwaited, U!Wake, U!PollFails, U!Close, U!list
<1>3. ASSUME U!Pump \/ U!DeviceChanges \/ U!SwitchOn \/ U!SwitchOnRefused \/ U!SwitchOff
      PROVE  answer' = answer /\ supervisor' = supervisor
  BY <1>3 DEF U!Pump, U!DeviceChanges, U!SwitchOn, U!SwitchOnRefused, U!SwitchOff, U!daemon,
     U!link, U!list, U!lease, U!gesture
<1>4. ASSUME U!Renewal \/ U!EstopRuns \/ U!Restart \/ U!TapReturns \/ U!TapFails
      PROVE  answer' = answer /\ supervisor' = supervisor
  BY <1>4 DEF U!Renewal, U!EstopRuns, U!Restart, U!TapReturns, U!TapFails, U!daemon, U!link,
     U!list, U!lease, U!gesture
<1>5. ASSUME U!Estop \/ U!Renew \/ U!Renewed \/ U!RenewFails
      PROVE  answer' = answer /\ supervisor' = supervisor
  BY <1>5 DEF U!Estop, U!Renew, U!Renewed, U!RenewFails, U!daemon, U!link, U!list, U!lease,
     U!gesture
<1>6. ASSUME NEW l \in U!Ids, U!Lapse(l)
      PROVE  answer' = answer /\ supervisor' = supervisor
  BY <1>6 DEF U!Lapse, U!daemon, U!link, U!list, U!lease, U!gesture
<1>7. ASSUME NEW on \in BOOLEAN, U!Tap(on)
      PROVE  answer' = answer /\ supervisor' = supervisor
  BY <1>7 DEF U!Tap, U!daemon, U!link, U!list, U!lease, U!gesture
<1>8. answer' = answer /\ supervisor' = supervisor => PanelAwaited'
  BY <1>0 DEF PanelIInv, PanelAwaited
<1> QED
  BY <1>1, <1>2, <1>3, <1>4, <1>5, <1>6, <1>7, <1>8 DEF U!Next, U!Panel, U!Served

LEMMA PanelStillCurrent == ASSUME U!Constants, PanelIInv, U!Next PROVE PanelCurrent'
<1>0. U!Constants /\ PanelIInv
  OBVIOUS
<1>1. CASE U!Connect \/ U!PollSafety \/ U!DevicesListed
  <2>1. CASE U!Connect
    BY <2>1 DEF PanelCurrent, U!Connect
  <2>2. CASE U!PollSafety
    <3>1. /\ supervisor = "safety" /\ open' = open /\ behind' = behind /\ events' = events
          /\ shown' = shown /\ answer' = answer /\ version' = version
          /\ supervisor' = IF want THEN "devices" ELSE "sleep"
      BY <2>2 DEF U!PollSafety, U!daemon
    <3>2. answer = 0
      BY <3>1, <1>0 DEF PanelIInv, PanelAwaited
    <3> QED
      BY <3>1, <3>2, <1>0 DEF PanelIInv, PanelCurrent
  <2>3. CASE U!DevicesListed
    BY <2>3, <1>0 DEF PanelIInv, PanelCurrent, U!DevicesListed, U!daemon
  <2> QED
    BY <1>1, <2>1, <2>2, <2>3
<1>2. CASE U!ListDevices \/ U!DevicesRefused
  BY <1>2, <1>0 DEF PanelIInv, PanelCurrent, U!ListDevices, U!DevicesRefused, U!daemon, U!link
<1>3. CASE U!Wake \/ U!PollFails \/ U!Close
  BY <1>3, <1>0 DEF PanelIInv, PanelCurrent, U!Wake, U!PollFails, U!Close, U!daemon, U!list
<1>4. CASE U!Restart
  BY <1>4 DEF PanelCurrent, U!Restart
<1>5. CASE U!Pump
  <2>1. /\ events # <<>> /\ events' = Tail(events) /\ events \in Seq(PanelEvents)
        /\ want' = (want \/ Head(events) = U!DevicesChanged)
        /\ open' = open /\ supervisor' = supervisor /\ behind' = behind /\ shown' = shown
        /\ answer' = answer /\ version' = version
    BY <1>5, <1>0 DEF U!Pump, PanelIInv, PanelTypedEvents, U!daemon, U!link
  <2>2. ASSUME ~want', U!DevicesChanged \notin U!ToSet(events')
        PROVE  ~want /\ U!DevicesChanged \notin U!ToSet(events)
    <3>1. ~want /\ Head(events) # U!DevicesChanged
      BY <2>1, <2>2
    <3>2. /\ Len(events) \in Nat \ {0} /\ Len(events') = Len(events) - 1
          /\ \A i \in 1 .. Len(events') : events'[i] = events[i + 1]
          /\ events' \in Seq(PanelEvents)
      BY <2>1, HeadTailProperties, LenProperties
    <3>3. events[1] = Head(events)
      BY <2>1
    <3>4. ASSUME NEW i \in 1 .. Len(events) PROVE events[i] # U!DevicesChanged
      <4>1. CASE i = 1
        BY <4>1, <3>1, <3>3
      <4>2. CASE i # 1
        <5>1. i - 1 \in 1 .. Len(events') /\ i - 1 + 1 = i
          BY <4>2, <3>2
        <5>2. events'[i - 1] = events[i] /\ i - 1 \in DOMAIN events'
          BY <5>1, <3>2
        <5> QED
          BY <5>2, <2>2 DEF U!ToSet
      <4> QED
        BY <4>1, <4>2
    <3> QED
      BY <3>1, <3>4, <2>1 DEF U!ToSet
  <2> QED
    BY <2>1, <2>2, <1>0 DEF PanelIInv, PanelCurrent
<1>6. CASE U!DeviceChanges
  <2>1. open' = open /\ ~(open /\ ~behind' /\ U!DevicesChanged \notin U!ToSet(events'))
    BY <1>6, <1>0, PanelTellings DEF U!DeviceChanges, U!link
  <2> QED
    BY <2>1 DEF PanelCurrent
<1>7. CASE U!SwitchOff
  <2>1. /\ open' = open /\ want' = want /\ supervisor' = supervisor /\ shown' = shown
        /\ answer' = answer /\ version' = version
    BY <1>7 DEF U!SwitchOff, U!link
  <2>2. open /\ ~behind' /\ U!DevicesChanged \notin U!ToSet(events') =>
          ~behind /\ U!DevicesChanged \notin U!ToSet(events)
    BY <1>7, <1>0, PanelTellings
  <2> QED
    BY <2>1, <2>2, <1>0 DEF PanelIInv, PanelCurrent
<1>8. ASSUME NEW l \in U!Ids, U!Lapse(l) PROVE PanelCurrent'
  <2>1. /\ open' = open /\ want' = want /\ supervisor' = supervisor /\ shown' = shown
        /\ answer' = answer /\ version' = version
    BY <1>8 DEF U!Lapse, U!link
  <2>2. open /\ ~behind' /\ U!DevicesChanged \notin U!ToSet(events') =>
          ~behind /\ U!DevicesChanged \notin U!ToSet(events)
    BY <1>8, <1>0, PanelTellings
  <2> QED
    BY <2>1, <2>2, <1>0 DEF PanelIInv, PanelCurrent
<1>9. ASSUME U!SwitchOn \/ U!SwitchOnRefused \/ U!Renewal \/ U!EstopRuns \/ U!TapReturns
      PROVE  open' = open /\ want' = want /\ behind' = behind /\ events' = events /\
             supervisor' = supervisor /\ shown' = shown /\ answer' = answer /\
             version' = version
  BY <1>9 DEF U!SwitchOn, U!SwitchOnRefused, U!Renewal, U!EstopRuns, U!TapReturns, U!daemon,
     U!link, U!list, U!lease, U!gesture
<1>10. ASSUME U!TapFails \/ U!Estop \/ U!Renew \/ U!Renewed \/ U!RenewFails
      PROVE  open' = open /\ want' = want /\ behind' = behind /\ events' = events /\
             supervisor' = supervisor /\ shown' = shown /\ answer' = answer /\
             version' = version
  BY <1>10 DEF U!TapFails, U!Estop, U!Renew, U!Renewed, U!RenewFails, U!daemon, U!link, U!list,
     U!lease, U!gesture
<1>11. ASSUME NEW on \in BOOLEAN, U!Tap(on)
      PROVE  open' = open /\ want' = want /\ behind' = behind /\ events' = events /\
             supervisor' = supervisor /\ shown' = shown /\ answer' = answer /\
             version' = version
  BY <1>11 DEF U!Tap, U!daemon, U!link, U!list, U!lease, U!gesture
<1>12. open' = open /\ want' = want /\ behind' = behind /\ events' = events /\
       supervisor' = supervisor /\ shown' = shown /\ answer' = answer /\ version' = version =>
       PanelCurrent'
  BY <1>0 DEF PanelIInv, PanelCurrent
<1> QED
  BY <1>1, <1>2, <1>3, <1>4, <1>5, <1>6, <1>7, <1>8, <1>9, <1>10, <1>11, <1>12
     DEF U!Next, U!Panel, U!Served

LEMMA PanelStepIInv == ASSUME U!Constants, PanelIInv, [U!Next]_(U!vars) PROVE PanelIInv'
<1>1. CASE UNCHANGED U!vars
  BY <1>1 DEF U!vars, U!daemon, U!link, U!list, U!lease, U!gesture, PanelIInv,
     PanelTypedDaemon, PanelTypedLink, PanelTypedList,
     PanelTypedEvents, PanelTypedGestures, PanelTypedLease, U!HeldIsKept, PanelAwaited, PanelCurrent
<1>2. CASE U!Next
  <2>1. PanelTypedDaemon' /\ PanelTypedLink' /\ PanelTypedList' /\ PanelTypedEvents' /\
        PanelTypedGestures' /\ PanelTypedLease'
    BY <1>2, PanelDaemonTyped, PanelLinkTyped, PanelListTyped, PanelEventsTyped,
       PanelGesturesTyped, PanelLeaseTyped
  <2>2. U!HeldIsKept' /\ PanelAwaited' /\ PanelCurrent'
    BY <1>2, PanelHeldKept, PanelStillAwaited, PanelStillCurrent
  <2> QED
    BY <2>1, <2>2 DEF PanelIInv
<1> QED
  BY <1>1, <1>2

\* What it is kept for.
LEMMA PanelMeansCurrent == ASSUME PanelIInv PROVE U!HeldIsKept /\ U!DevicesCurrent
  BY DEF PanelIInv, PanelCurrent, U!DevicesCurrent

LEMMA PanelMeansTyped == ASSUME U!Constants, PanelIInv PROVE U!TypeOK
<1>1. leases \subseteq U!Ids
  BY DEF U!Constants, PanelIInv, PanelTypedDaemon, U!Ids
<1> QED
  BY <1>1 DEF PanelIInv, U!TypeOK, PanelTypedDaemon, PanelTypedLink, PanelTypedList,
     PanelTypedEvents, PanelTypedGestures,
     PanelTypedLease, PanelRequests, PanelEvents

-----------------------------------------------------------------------------
(* SessionStore: for any number of sessions, events, faults and captures,  *)
(* and whatever labels the captures share.                                 *)

(* The inductive invariant, in named parts.                                *)

StorePlaces == {S!Lost, S!Memory, S!Kernel, S!Disk}

StoreTypedManager ==
    /\ up \in BOOLEAN /\ attached \in BOOLEAN /\ closed \in BOOLEAN
    /\ recorder \in 0 .. MaxSessions /\ faults \in 0 .. MaxFaults
    /\ json \in [S!Sessions -> {"none", "ACTIVE", "CLOSED", "torn"}]
    /\ wet \subseteq S!Sessions /\ spoilt \subseteq S!Sessions

StoreTypedRecord ==
    /\ n \in 0 .. MaxEvents /\ home \in [S!Events -> 0 .. MaxSessions]
    /\ grave \subseteq S!Events /\ complained \subseteq S!Events
    /\ rows \in [S!Events -> StorePlaces] /\ log \in [S!Events -> StorePlaces]
    /\ trail \in [S!Events -> StorePlaces]

\* The recorder is a sink exactly while it is open, and one that is closed but
\* still the active one has had its stop fail.
StoreLifetime ==
    /\ attached <=> ~closed
    /\ closed \/ recorder # 0
    /\ ~up => recorder = 0
    /\ recorder # 0 /\ closed => recorder \in spoilt

\* Nothing is recorded of an event that was not published.
StoreUnborn ==
    \A e \in S!Events : e > n =>
        /\ home[e] = 0 /\ e \notin grave /\ e \notin complained
        /\ rows[e] = S!Lost /\ log[e] = S!Lost /\ trail[e] = S!Lost

\* What is in the memory of the process is of the session being recorded, no
\* audit record waits there, and a row that does is not the only copy.
StoreBufferedHere(e) ==
    /\ trail[e] # S!Memory
    /\ rows[e] = S!Memory => ~closed /\ (log[e] # S!Lost \/ e \in complained)
    /\ rows[e] = S!Memory \/ log[e] = S!Memory => recorder # 0 /\ home[e] = recorder

StoreBuffered == \A e \in S!Events : StoreBufferedHere(e)

\* A capture has at most one file, under the name it was given.
StoreNames == 1 .. Cardinality(Captures)
StoreFileOf(c) == <<cap[c].s, Stem(c), cap[c].index, c>>
StoreNamed ==
    /\ cap \in [Captures -> [st : {"idle", "named", "done", "failed"}, s : 0 .. MaxSessions,
                             index : 0 .. Cardinality(Captures)]]
    /\ \A c \in Captures :
         /\ cap[c].st # "idle" => cap[c].s \in S!Sessions /\ cap[c].index \in StoreNames
         /\ cap[c].st = "named" => External(c)
    /\ \A f \in files : \E c \in Captures : cap[c].st \in {"done", "failed"} /\ f = StoreFileOf(c)
    /\ \A a \in artifacts : \E c \in Captures : cap[c].st = "done" /\ a = StoreFileOf(c)

StoreIInv ==
         /\ StoreTypedManager /\ StoreTypedRecord /\ StoreLifetime /\ StoreUnborn /\ StoreBuffered
         /\ S!AuditSurvives /\ S!NoSilentLoss /\ StoreNamed /\ S!ArtifactsIntact

-----------------------------------------------------------------------------
(* A set of numbers that is not empty has a least element.                 *)
LEMMA StoreLeast ==
    ASSUME NEW T \in SUBSET Nat, T # {}
    PROVE  \E k \in T : \A j \in T : ~(j < k)
<1> DEFINE less == OpToRel(<, Nat)
<1>1. IsWellFoundedOn(less, Nat)
  BY NatLessThanWellFounded
<1>2. T \subseteq Nat
  OBVIOUS
<1>3. \A j, k \in T : j < k => <<j, k>> \in less
  BY <1>2 DEF OpToRel
<1> HIDE DEF less
<1>4. \E k \in T : \A j \in T : ~(<<j, k>> \in less)
  BY <1>1, <1>2, WFMin, Zenon
<1> QED
  BY <1>3, <1>4

LEMMA StoreCounting ==
    \A T : S!Cardinality(T) = Cardinality(T) /\ (S!IsFiniteSet(T) <=> IsFiniteSet(T))
  BY DEF S!Cardinality, Cardinality, S!IsFiniteSet, IsFiniteSet

LEMMA StoreNamesCounted == ASSUME S!Constants PROVE Cardinality(Captures) \in Nat
  BY FS_CardinalityType, StoreCounting DEF S!Constants

(* SessionManager._allocate_id finds a free name when there is one.        *)
LEMMA StoreAllocated == ASSUME S!Constants, S!Free # {} PROVE S!AllocateId \in S!Free
<1>1. S!Free \in SUBSET Nat
  BY DEF S!Free, S!Sessions, S!Constants
<1>2. \E s \in S!Free : \A t \in S!Free : s <= t
  <2>1. PICK k \in S!Free : \A j \in S!Free : ~(j < k)
    BY <1>1, StoreLeast
  <2> QED
    BY <1>1, <2>1
<1> QED
  BY <1>2 DEF S!AllocateId

(* While one capture has no file yet, one of the numbers is not taken.     *)
LEMMA StoreNameIsFree ==
    ASSUME S!Constants, StoreNamed, NEW c \in Captures, cap[c].st = "idle", NEW s, NEW stem
    PROVE  /\ S!NextFilename(s, stem) \in StoreNames
           /\ ~\E f \in files : f[1] = s /\ f[2] = stem /\ f[3] = S!NextFilename(s, stem)
<1> DEFINE N == Cardinality(Captures)
           Others == Captures \ {c}
           index == [d \in Others |-> cap[d].index]
           Given == Range(index)
           Taken(i) == \E f \in files : f[1] = s /\ f[2] = stem /\ f[3] = i
           Open == {i \in 1 .. N : ~Taken(i)}
<1>1. N \in Nat /\ IsFiniteSet(Captures)
  BY StoreNamesCounted, StoreCounting DEF S!Constants
<1>2. IsFiniteSet(Others) /\ Cardinality(Others) = N - 1
  BY <1>1, FS_RemoveElement
<1>3. index \in Surjection(Others, Given)
  BY Fun_RangeProperties DEF StoreNamed
<1>4. IsFiniteSet(Given) /\ Cardinality(Given) <= N - 1 /\ Cardinality(Given) \in Nat
  BY <1>2, <1>3, FS_Surjection, FS_CardinalityType
<1>5. \A i : Taken(i) => i \in Given
  <2> SUFFICES ASSUME NEW i, Taken(i) PROVE i \in Given
    OBVIOUS
  <2>1. PICK f \in files : f[3] = i
    OBVIOUS
  <2>2. PICK d \in Captures : cap[d].st \in {"done", "failed"} /\ f = StoreFileOf(d)
    BY DEF StoreNamed
  <2>3. d \in Others /\ i = index[d]
    BY <2>1, <2>2 DEF StoreFileOf
  <2> QED
    BY <2>3 DEF Range
<1>6. Open # {}
  <2> SUFFICES ASSUME Open = {} PROVE FALSE
    OBVIOUS
  <2>1. 1 .. N \subseteq Given
    BY <1>5
  <2>2. Cardinality(1 .. N) <= Cardinality(Given)
    BY <1>4, <2>1, FS_Subset
  <2>3. Cardinality(1 .. N) = N
    BY <1>1, FS_Interval
  <2> QED
    BY <1>1, <1>4, <2>2, <2>3
<1>7. Open \in SUBSET Nat
  BY <1>1
<1>8. PICK i \in Open : \A j \in Open : ~(j < i)
  BY <1>6, <1>7, StoreLeast
<1>9. i \in 1 .. N /\ ~Taken(i) /\ \A j \in 1 .. (i - 1) : Taken(j)
  BY <1>1, <1>7, <1>8
<1> QED
  BY <1>9, StoreCounting, Zenon DEF S!NextFilename, StoreNames

-----------------------------------------------------------------------------
LEMMA StoreInitIInv == ASSUME S!Constants, S!Init PROVE StoreIInv
<1>1. StoreTypedManager /\ StoreTypedRecord /\ StoreLifetime
  <2>1. 0 \in 0 .. MaxSessions /\ 0 \in 0 .. MaxFaults /\ 0 \in 0 .. MaxEvents
    BY DEF S!Constants
  <2> QED
    BY <2>1 DEF S!Init, StoreTypedManager, StoreTypedRecord, StoreLifetime, StorePlaces
<1>2. StoreUnborn /\ StoreBuffered
  BY DEF S!Init, StoreUnborn, StoreBuffered, StoreBufferedHere, S!Lost, S!Memory
<1>3. S!AuditSurvives /\ S!NoSilentLoss
  <2>1. 1 .. n = {}
    BY DEF S!Init
  <2> QED
    BY <2>1 DEF S!Init, S!AuditSurvives, S!NoSilentLoss
<1>4. StoreNamed
  <2>1. 0 \in 0 .. MaxSessions /\ 0 \in 0 .. Cardinality(Captures)
    BY StoreNamesCounted DEF S!Constants
  <2> QED
    BY <2>1 DEF S!Init, StoreNamed, S!Idle
<1>5. S!ArtifactsIntact
  BY DEF S!Init, S!ArtifactsIntact
<1> QED
  BY <1>1, <1>2, <1>3, <1>4, <1>5 DEF StoreIInv

(* What publishing an event does to the event and to those before it,      *)
(* whichever of the recorder's writes fails.                               *)
LEMMA StorePublished ==
    ASSUME S!Constants, StoreTypedRecord, StoreTypedManager, StoreUnborn, StoreBuffered,
           NEW audit \in BOOLEAN, NEW sink \in 0 .. MaxSessions, S!Publish(audit, sink)
    PROVE  /\ n + 1 \in S!Events /\ n' = n + 1 /\ n \in Nat
           /\ grave' = IF audit THEN grave \cup {n + 1} ELSE grave
           /\ home' \in [S!Events -> 0 .. MaxSessions]
           /\ \A e \in S!Events : home'[e] = IF e = n + 1 THEN sink ELSE home[e]
           /\ complained \subseteq complained' /\ complained' \subseteq complained \cup {n + 1}
           /\ faults' \in 0 .. MaxFaults
           /\ rows' \in [S!Events -> StorePlaces] /\ log' \in [S!Events -> StorePlaces]
           /\ trail' \in [S!Events -> StorePlaces]
           /\ \A e \in S!Events : e # n + 1 =>
                /\ log'[e] = log[e]
                /\ trail'[e] = trail[e] \/ (trail[e] = S!Kernel /\ trail'[e] = S!Disk)
                /\ rows'[e] = rows[e] \/ (rows[e] = S!Memory /\ rows'[e] \in {S!Kernel, S!Lost})
           /\ trail'[n + 1] # S!Memory
           /\ sink # 0 => /\ log'[n + 1] = S!Memory \/ n + 1 \in complained'
                          /\ audit => trail'[n + 1] = S!Disk \/ n + 1 \in complained'
           /\ sink = 0 => rows'[n + 1] = S!Lost /\ log'[n + 1] = S!Lost
<1>1. n \in Nat /\ n + 1 \in S!Events /\ n + 1 > n /\ n' = n + 1
  BY DEF S!Publish, StoreTypedRecord, S!Events, S!Constants
<1>2. /\ grave' = IF audit THEN grave \cup {n + 1} ELSE grave
      /\ faults \in 0 .. MaxFaults
      /\ home \in [S!Events -> 0 .. MaxSessions]
      /\ rows \in [S!Events -> StorePlaces] /\ log \in [S!Events -> StorePlaces]
      /\ trail \in [S!Events -> StorePlaces]
  BY DEF S!Publish, StoreTypedRecord, StoreTypedManager
<1>3. /\ home[n + 1] = 0 /\ rows[n + 1] = S!Lost /\ log[n + 1] = S!Lost /\ trail[n + 1] = S!Lost
  BY <1>1 DEF StoreUnborn
<1>4. \A e \in S!Events : trail[e] # S!Memory
  BY DEF StoreBuffered, StoreBufferedHere
<1>5. CASE sink = 0
  BY <1>1, <1>2, <1>3, <1>4, <1>5 DEF S!Publish, S!Lost, S!Memory
<1>6. CASE sink # 0
  <2> DEFINE added == [rows EXCEPT ![n + 1] = S!Memory]
  <2>1. home' = [home EXCEPT ![n + 1] = sink]
    BY <1>6 DEF S!Publish
  <2>2. PICK aged \in BOOLEAN : \/ S!Recorded(n + 1, audit, aged)
                                \/ S!RecordFails(n + 1, aged)
                                \/ S!AuditFlushFails(n + 1, audit)
    BY <1>6 DEF S!Publish
  <2>3. added \in [S!Events -> StorePlaces] /\ added[n + 1] = S!Memory
        /\ \A e \in S!Events : e # n + 1 => added[e] = rows[e]
    BY <1>1, <1>2 DEF StorePlaces
  <2>4. /\ S!Flush(added) \in [S!Events -> StorePlaces] /\ S!Flush(S!Flush(added)) = S!Flush(added)
        /\ \A e \in S!Events : e # n + 1 =>
             S!Flush(added)[e] = rows[e] \/ (rows[e] = S!Memory /\ S!Flush(added)[e] = S!Kernel)
    BY <2>3 DEF S!Flush, StorePlaces, S!Memory, S!Kernel
  <2>5. ASSUME NEW first
        PROVE  /\ S!FlushFails(added, first) \in [S!Events -> StorePlaces]
               /\ \A e \in S!Events : e # n + 1 =>
                    \/ S!FlushFails(added, first)[e] = rows[e]
                    \/ rows[e] = S!Memory /\ S!FlushFails(added, first)[e] \in {S!Kernel, S!Lost}
    BY <2>3 DEF S!FlushFails, StorePlaces
  <2>6. /\ [log EXCEPT ![n + 1] = S!Memory] \in [S!Events -> StorePlaces]
        /\ [log EXCEPT ![n + 1] = S!Memory][n + 1] = S!Memory
        /\ \A e \in S!Events : e # n + 1 => [log EXCEPT ![n + 1] = S!Memory][e] = log[e]
    BY <1>1, <1>2 DEF StorePlaces
  <2> DEFINE kept == S!Synced([trail EXCEPT ![n + 1] = S!Memory])
  <2>7. /\ kept \in [S!Events -> StorePlaces] /\ kept[n + 1] = S!Disk
        /\ \A e \in S!Events : e # n + 1 =>
             kept[e] = trail[e] \/ (trail[e] = S!Kernel /\ kept[e] = S!Disk)
    BY <1>1, <1>2, <1>4 DEF S!Synced, StorePlaces, S!Memory, S!Kernel, S!Disk
  <2> HIDE DEF added, kept
  <2>8. CASE S!Recorded(n + 1, audit, aged)
    <3>1. rows' = added \/ rows' = S!Flush(added)
      BY <2>4, <2>8 DEF S!Recorded, added
    <3>2. rows' \in [S!Events -> StorePlaces] /\ \A e \in S!Events : e # n + 1 =>
             rows'[e] = rows[e] \/ (rows[e] = S!Memory /\ rows'[e] \in {S!Kernel, S!Lost})
      BY <2>3, <2>4, <3>1
    <3>3. log' = [log EXCEPT ![n + 1] = S!Memory] /\ (trail' = IF audit THEN kept ELSE trail)
          /\ complained' = complained /\ faults' = faults
      BY <2>8 DEF S!Recorded, kept
    <3>4. /\ trail' \in [S!Events -> StorePlaces] /\ trail'[n + 1] # S!Memory
          /\ audit => trail'[n + 1] = S!Disk
          /\ \A e \in S!Events : e # n + 1 =>
               trail'[e] = trail[e] \/ (trail[e] = S!Kernel /\ trail'[e] = S!Disk)
      BY <1>1, <1>2, <1>4, <2>7, <3>3 DEF S!Memory, S!Disk
    <3> QED
      BY <1>1, <1>2, <1>6, <2>1, <2>6, <3>2, <3>3, <3>4
  <2>9. CASE S!RecordFails(n + 1, aged)
    <3>1. PICK first : rows' = S!FlushFails(added, first)
      BY <2>9 DEF S!RecordFails, added
    <3>2. /\ log' = log /\ trail' = trail /\ complained' = complained \cup {n + 1}
          /\ faults' \in 0 .. MaxFaults
      BY <1>2, <2>9 DEF S!RecordFails, S!Constants
    <3> QED
      BY <1>1, <1>2, <1>4, <1>6, <2>1, <2>5, <3>1, <3>2
  <2>10. CASE S!AuditFlushFails(n + 1, audit)
    <3>1. PICK first : rows' = S!FlushFails(added, first)
      BY <2>10 DEF S!AuditFlushFails, added
    <3>2. /\ log' = [log EXCEPT ![n + 1] = S!Memory] /\ trail' = kept
          /\ complained' = complained \cup {n + 1} /\ faults' \in 0 .. MaxFaults
      BY <1>2, <2>10 DEF S!AuditFlushFails, S!Constants, kept
    <3> QED
      BY <1>1, <1>2, <1>6, <2>1, <2>5, <2>6, <2>7, <3>1, <3>2 DEF S!Memory, S!Disk
  <2> QED
    BY <2>2, <2>8, <2>9, <2>10
<1> QED
  BY <1>5, <1>6

LEMMA StoreRanges ==
    ASSUME S!Constants
    PROVE  /\ 0 \in 0 .. MaxSessions /\ S!Sessions \subseteq 0 .. MaxSessions
           /\ \A s \in 0 .. MaxSessions : s # 0 => s \in S!Sessions
           /\ \A k \in 0 .. MaxFaults : k < MaxFaults => k + 1 \in 0 .. MaxFaults
           /\ \A k \in 0 .. MaxEvents : k < MaxEvents => k + 1 \in 1 .. MaxEvents
  BY DEF S!Constants, S!Sessions

LEMMA StoreSinkTyped ==
    ASSUME S!Constants, StoreTypedManager, StoreLifetime
    PROVE  S!Sink \in 0 .. MaxSessions /\ (S!Sink # 0 => S!Sink = recorder /\ ~closed)
<1>1. CASE attached
  BY <1>1, Zenon DEF S!Sink, StoreTypedManager, StoreLifetime
<1>2. CASE ~attached
  BY <1>2, StoreRanges DEF S!Sink
<1> QED
  BY <1>1, <1>2

LEMMA StoreAllocation ==
    ASSUME S!Constants, StoreTypedManager, S!Start
    PROVE  S!AllocateId \in S!Sessions /\ S!AllocateId # 0 /\ recorder' = S!AllocateId
           /\ S!Publish(FALSE, S!AllocateId)
<1>1. S!AllocateId \in S!Sessions
  BY StoreAllocated DEF S!Start, S!Free
<1>2. S!AllocateId # 0
  BY <1>1 DEF S!Sessions, S!Constants
<1> QED
  BY <1>1, <1>2, Zenon DEF S!Start

(* Publishing is the whole of an event, and the first step of a session.   *)
LEMMA StorePublishing ==
    ASSUME S!Constants, StoreIInv, S!PublishEvent \/ S!Start
    PROVE  \E audit \in BOOLEAN, sink \in 0 .. MaxSessions :
             /\ S!Publish(audit, sink)
             /\ sink # 0 => sink = recorder' /\ ~closed'
             /\ recorder # 0 => recorder' = recorder /\ closed' = closed
             /\ UNCHANGED S!captured /\ UNCHANGED spoilt
<1>1. CASE S!PublishEvent
  BY <1>1, StoreSinkTyped DEF S!PublishEvent, StoreIInv, StoreTypedManager, S!captured
<1>2. CASE S!Start
  <2>1. S!AllocateId \in 0 .. MaxSessions /\ recorder' = S!AllocateId /\
        S!Publish(FALSE, S!AllocateId)
    BY <1>2, StoreAllocation, StoreRanges DEF StoreIInv
  <2>2. recorder = 0 /\ ~closed' /\ UNCHANGED S!captured /\ UNCHANGED spoilt
    BY <1>2 DEF S!Start, S!captured
  <2> QED
    BY <2>1, <2>2
<1> QED
  BY <1>1, <1>2

-----------------------------------------------------------------------------
(* One lemma for each part of the invariant.                               *)

LEMMA StoreManagerTyped == ASSUME S!Constants, StoreIInv, S!Next PROVE StoreTypedManager'
<1> USE DEF StoreIInv
<1>1. CASE S!PublishEvent \/ S!Start
  <2>1. faults' \in 0 .. MaxFaults
    BY <1>1, StorePublishing, StorePublished
  <2>2. CASE S!PublishEvent
    BY <2>1, <2>2 DEF S!PublishEvent, StoreTypedManager
  <2>3. CASE S!Start
    <3>1. S!AllocateId \in S!Sessions /\ recorder' = S!AllocateId
      BY <2>3, StoreAllocation
    <3> QED
      BY <2>1, <2>3, <3>1, StoreRanges DEF S!Start, StoreTypedManager
  <2> QED
    BY <1>1, <2>2, <2>3
<1>2. CASE S!Mark
  BY <1>2 DEF S!Mark, StoreTypedManager, S!Sessions
<1>3. CASE S!Stop
  BY <1>3, StoreRanges DEF S!Stop, StoreTypedManager
<1>4. CASE S!StopFails
  BY <1>4, StoreRanges DEF S!StopFails, StoreTypedManager
<1>5. CASE S!StopAgain
  BY <1>5, StoreRanges DEF S!StopAgain, StoreTypedManager
<1>6. CASE S!FlushAll
  BY <1>6 DEF S!FlushAll, StoreTypedManager
<1>7. CASE S!FlushAllFails
  BY <1>7, StoreRanges DEF S!FlushAllFails, StoreTypedManager
<1>8. ASSUME NEW s \in S!Sessions, S!Get(s) PROVE StoreTypedManager'
  BY <1>8 DEF S!Get, StoreTypedManager
<1>9. ASSUME NEW c \in Captures, S!NameCapture(c) \/ S!ToolReturns(c) \/ S!CaptureHere(c)
      PROVE  StoreTypedManager'
  BY <1>9 DEF S!NameCapture, S!ToolReturns, S!CaptureHere, StoreTypedManager
<1>10. CASE S!Kill
  <2>1. json' = json \/ json' = [json EXCEPT ![recorder] = "torn"]
    BY <1>10 DEF S!Kill
  <2>2. json' \in [S!Sessions -> {"none", "ACTIVE", "CLOSED", "torn"}]
    BY <2>1 DEF StoreTypedManager
  <2> QED
    BY <1>10, <2>2, StoreRanges DEF S!Kill, S!Die, StoreTypedManager
<1>11. CASE S!PowerFails
  <2>1. PICK gone : json' = [s \in S!Sessions |-> IF s \in gone THEN "torn" ELSE json[s]]
    BY <1>11 DEF S!PowerFails
  <2>2. json' \in [S!Sessions -> {"none", "ACTIVE", "CLOSED", "torn"}]
    BY <2>1 DEF StoreTypedManager
  <2>3. {home[e] : e \in {d \in 1 .. n : home[d] # 0 /\ S!Kernel \in {rows[d], log[d], trail[d]}}}
          \subseteq S!Sessions
    <3>1. \A d \in 1 .. n : d \in S!Events
      BY DEF StoreTypedRecord, S!Events, S!Constants
    <3> QED
      BY <3>1, StoreRanges DEF StoreTypedRecord
  <2>4. {recorder} \ {0} \subseteq S!Sessions
    BY StoreRanges DEF StoreTypedManager
  <2>5. spoilt' \subseteq S!Sessions
    BY <1>11, <2>3, <2>4 DEF S!PowerFails, StoreTypedManager
  <2> QED
    BY <1>11, <2>2, <2>5, StoreRanges DEF S!PowerFails, S!Die, StoreTypedManager
<1>12. CASE S!WriteBack
  BY <1>12 DEF S!WriteBack, StoreTypedManager
<1>13. CASE S!Restart
  BY <1>13 DEF S!Restart, StoreTypedManager
<1> QED
  BY <1>1, <1>2, <1>3, <1>4, <1>5, <1>6, <1>7, <1>8, <1>9, <1>10, <1>11, <1>12, <1>13 DEF S!Next

LEMMA StoreLifetimeKept == ASSUME S!Constants, StoreIInv, S!Next PROVE StoreLifetime'
<1>0. StoreTypedManager /\ StoreLifetime
  BY DEF StoreIInv
<1>1. CASE S!Start
  BY <1>0, <1>1, StoreAllocation DEF S!Start, StoreLifetime
<1>2. CASE S!Kill \/ S!PowerFails
  BY <1>2 DEF S!Kill, S!PowerFails, S!Die, StoreLifetime
<1>3. CASE S!StopFails
  BY <1>0, <1>3 DEF S!StopFails, StoreLifetime
<1>4. CASE S!Stop \/ S!StopAgain
  BY <1>0, <1>4 DEF S!Stop, S!StopAgain, StoreLifetime, StoreTypedManager
<1>5. CASE S!Restart
  BY <1>0, <1>5 DEF S!Restart, StoreLifetime
<1>6. CASE S!PublishEvent \/ S!Mark \/ S!FlushAll \/ S!FlushAllFails \/ S!WriteBack
  BY <1>0, <1>6 DEF S!PublishEvent, S!Mark, S!FlushAll, S!FlushAllFails, S!WriteBack, StoreLifetime
<1>7. ASSUME NEW s \in S!Sessions, S!Get(s) PROVE StoreLifetime'
  BY <1>0, <1>7 DEF S!Get, StoreLifetime
<1>8. ASSUME NEW c \in Captures,
             S!NameCapture(c) \/ S!ToolReturns(c) \/ S!CaptureHere(c) PROVE StoreLifetime'
  BY <1>0, <1>8 DEF S!NameCapture, S!ToolReturns, S!CaptureHere, StoreLifetime
<1> QED
  BY <1>1, <1>2, <1>3, <1>4, <1>5, <1>6, <1>7, <1>8 DEF S!Next

(* The steps that move records from one place to another, event by event,  *)
(* and publish none.                                                       *)
LEMMA StoreMoves ==
    ASSUME S!Constants, StoreIInv, S!Next, ~S!PublishEvent, ~S!Start, ~S!Stop
    PROVE  /\ UNCHANGED <<n, home, grave, complained>>
           /\ rows' \in [S!Events -> StorePlaces] /\ log' \in [S!Events -> StorePlaces]
           /\ trail' \in [S!Events -> StorePlaces]
           /\ \A e \in S!Events :
                /\ rows[e] = S!Lost => rows'[e] = S!Lost
                /\ log[e] = S!Lost => log'[e] = S!Lost
                /\ trail[e] = S!Lost => trail'[e] = S!Lost
                /\ trail[e] = S!Disk => trail'[e] = S!Disk
                /\ rows'[e] = S!Memory => rows[e] = S!Memory
                /\ log'[e] = S!Memory => log[e] = S!Memory
                /\ trail'[e] = S!Memory => trail[e] = S!Memory
<1>0. /\ rows \in [S!Events -> StorePlaces] /\ log \in [S!Events -> StorePlaces]
      /\ trail \in [S!Events -> StorePlaces]
  BY DEF StoreIInv, StoreTypedRecord
<1> USE DEF StorePlaces, S!Lost, S!Memory, S!Kernel, S!Disk
<1>1. CASE S!Mark \/ S!Restart
  BY <1>0, <1>1 DEF S!Mark, S!Restart, S!recording
<1>2. CASE S!StopFails
  BY <1>0, <1>2 DEF S!StopFails, S!FlushFails
<1>3. CASE S!StopAgain
  BY <1>0, <1>3 DEF S!StopAgain
<1>4. CASE S!FlushAll
  BY <1>0, <1>4 DEF S!FlushAll, S!Flush, S!Synced
<1>5. CASE S!FlushAllFails
  BY <1>0, <1>5 DEF S!FlushAllFails, S!FlushFails
<1>6. ASSUME NEW s \in S!Sessions, S!Get(s)
      PROVE  /\ UNCHANGED <<n, home, grave, complained, log, trail>>
             /\ rows' = [e \in S!Events |-> IF home[e] = s /\ rows[e] = S!Kernel THEN S!Disk ELSE rows[e]]
  BY <1>6 DEF S!Get
<1>7. ASSUME NEW c \in Captures, S!NameCapture(c) \/ S!ToolReturns(c) \/ S!CaptureHere(c)
      PROVE  UNCHANGED S!recording
  BY <1>7 DEF S!NameCapture, S!ToolReturns, S!CaptureHere, S!recording
<1>8. CASE S!Kill
  BY <1>0, <1>8 DEF S!Kill, S!Die, S!Forget
<1>9. CASE S!PowerFails
  BY <1>0, <1>9 DEF S!PowerFails, S!Die
<1>10. CASE S!WriteBack
  BY <1>0, <1>10 DEF S!WriteBack
<1>11. CASE \E s \in S!Sessions : S!Get(s)
  BY <1>0, <1>6, <1>11
<1>12. CASE \E c \in Captures : S!NameCapture(c) \/ S!ToolReturns(c) \/ S!CaptureHere(c)
  BY <1>0, <1>7, <1>12 DEF S!recording
<1> QED
  BY <1>1, <1>2, <1>3, <1>4, <1>5, <1>8, <1>9, <1>10, <1>11, <1>12 DEF S!Next

(* The end of a session: its last event, and everything to the disk or at  *)
(* least out of the process.                                               *)
LEMMA StoreEnds ==
    ASSUME S!Constants, StoreIInv, S!Stop
    PROVE  /\ n + 1 \in S!Events /\ n' = n + 1 /\ n \in Nat
           /\ UNCHANGED <<grave, complained, spoilt>>
           /\ recorder # 0 /\ recorder' = 0
           /\ home' \in [S!Events -> 0 .. MaxSessions]
           /\ \A e \in S!Events : home'[e] = IF e = n + 1 THEN recorder ELSE home[e]
           /\ rows' \in [S!Events -> StorePlaces] /\ log' \in [S!Events -> StorePlaces]
           /\ trail' \in [S!Events -> StorePlaces]
           /\ rows'[n + 1] = S!Disk
           /\ \A e \in S!Events : e # n + 1 =>
                /\ (rows'[e] = S!Lost <=> rows[e] = S!Lost) /\ rows'[e] # S!Memory
                /\ (log'[e] = S!Lost <=> log[e] = S!Lost)
           /\ \A e \in S!Events :
                /\ trail[e] = S!Lost => trail'[e] = S!Lost
                /\ trail[e] = S!Disk => trail'[e] = S!Disk
                /\ log'[e] # S!Memory /\ trail'[e] # S!Memory
<1>0. StoreTypedManager /\ StoreTypedRecord /\ StoreUnborn /\ StoreBuffered
  BY DEF StoreIInv
<1>1. n \in Nat /\ n + 1 \in S!Events /\ n + 1 > n /\ n' = n + 1
  BY <1>0 DEF S!Stop, StoreTypedRecord, S!Events, S!Constants
<1>2. /\ home' = [home EXCEPT ![n + 1] = recorder]
      /\ home \in [S!Events -> 0 .. MaxSessions] /\ recorder \in 0 .. MaxSessions
  BY <1>0 DEF S!Stop, StoreTypedRecord, StoreTypedManager
<1>3. /\ home' \in [S!Events -> 0 .. MaxSessions]
      /\ \A e \in S!Events : home'[e] = IF e = n + 1 THEN recorder ELSE home[e]
  BY <1>1, <1>2
<1>4. /\ rows \in [S!Events -> StorePlaces] /\ log \in [S!Events -> StorePlaces]
      /\ trail \in [S!Events -> StorePlaces]
      /\ rows' = [e \in S!Events |-> IF home'[e] = recorder /\ (rows[e] # S!Lost \/ e = n + 1)
                                     THEN S!Disk ELSE rows[e]]
  BY <1>0 DEF S!Stop, StoreTypedRecord
<1>5. rows' \in [S!Events -> StorePlaces] /\ rows'[n + 1] = S!Disk
  BY <1>1, <1>3, <1>4 DEF StorePlaces
<1>6. ASSUME NEW e \in S!Events, e # n + 1
      PROVE  (rows'[e] = S!Lost <=> rows[e] = S!Lost) /\ rows'[e] # S!Memory
  <2>1. rows[e] = S!Memory => home[e] = recorder
    BY <1>0 DEF StoreBuffered, StoreBufferedHere
  <2> QED
    BY <1>3, <1>4, <1>6, <2>1 DEF StorePlaces, S!Disk, S!Lost, S!Memory, S!Kernel
<1>7. /\ log' = [e \in S!Events |-> IF [log EXCEPT ![n + 1] = S!Memory][e] = S!Memory THEN S!Kernel
                                    ELSE [log EXCEPT ![n + 1] = S!Memory][e]]
      /\ trail' = [e \in S!Events |-> IF trail[e] = S!Memory THEN S!Kernel ELSE trail[e]]
  BY DEF S!Stop, S!HandedOver
<1>8. /\ log' \in [S!Events -> StorePlaces] /\ trail' \in [S!Events -> StorePlaces]
      /\ \A e \in S!Events : e # n + 1 => (log'[e] = S!Lost <=> log[e] = S!Lost)
      /\ \A e \in S!Events :
           /\ trail[e] = S!Lost => trail'[e] = S!Lost
           /\ trail[e] = S!Disk => trail'[e] = S!Disk
           /\ log'[e] # S!Memory /\ trail'[e] # S!Memory
  BY <1>1, <1>4, <1>7 DEF StorePlaces, S!Disk, S!Lost, S!Memory, S!Kernel
<1> QED
  BY <1>1, <1>3, <1>5, <1>6, <1>8 DEF S!Stop

LEMMA StoreRecordTyped == ASSUME S!Constants, StoreIInv, S!Next PROVE StoreTypedRecord'
<1>0. StoreTypedManager /\ StoreTypedRecord /\ StoreUnborn /\ StoreBuffered
  BY DEF StoreIInv
<1>1. CASE S!PublishEvent \/ S!Start
  <2>1. PICK audit \in BOOLEAN, sink \in 0 .. MaxSessions : S!Publish(audit, sink)
    BY <1>1, StorePublishing
  <2>2. /\ n + 1 \in S!Events /\ n' = n + 1 /\ n \in Nat
        /\ home' \in [S!Events -> 0 .. MaxSessions]
        /\ complained' \subseteq complained \cup {n + 1}
        /\ grave' = IF audit THEN grave \cup {n + 1} ELSE grave
        /\ rows' \in [S!Events -> StorePlaces] /\ log' \in [S!Events -> StorePlaces]
        /\ trail' \in [S!Events -> StorePlaces]
    BY <1>0, <2>1, StorePublished
  <2>3. n' \in 0 .. MaxEvents
    BY <2>2 DEF S!Events, S!Constants
  <2> QED
    BY <1>0, <2>2, <2>3 DEF StoreTypedRecord
<1>2. CASE S!Stop
  <2>1. n' \in 0 .. MaxEvents
    BY <1>2, StoreEnds DEF S!Events, S!Constants
  <2> QED
    BY <1>0, <1>2, <2>1, StoreEnds DEF StoreTypedRecord
<1>3. CASE ~S!PublishEvent /\ ~S!Start /\ ~S!Stop
  BY <1>0, <1>3, StoreMoves DEF StoreTypedRecord
<1> QED
  BY <1>1, <1>2, <1>3

LEMMA StoreUnbornKept == ASSUME S!Constants, StoreIInv, S!Next PROVE StoreUnborn'
<1>0. StoreTypedManager /\ StoreTypedRecord /\ StoreUnborn /\ StoreBuffered
  BY DEF StoreIInv
<1>1. CASE S!PublishEvent \/ S!Start
  <2>1. PICK audit \in BOOLEAN, sink \in 0 .. MaxSessions : S!Publish(audit, sink)
    BY <1>1, StorePublishing
  <2>2. /\ n' = n + 1 /\ n \in Nat
        /\ complained' \subseteq complained \cup {n + 1}
        /\ grave' = IF audit THEN grave \cup {n + 1} ELSE grave
        /\ \A e \in S!Events : e # n + 1 =>
             /\ home'[e] = home[e] /\ log'[e] = log[e]
             /\ trail'[e] = trail[e] \/ (trail[e] = S!Kernel /\ trail'[e] = S!Disk)
             /\ rows'[e] = rows[e] \/ (rows[e] = S!Memory /\ rows'[e] \in {S!Kernel, S!Lost})
    BY <1>0, <2>1, StorePublished
  <2>3. ASSUME NEW e \in S!Events, e > n' PROVE e > n /\ e # n + 1
    BY <2>2, <2>3 DEF S!Events, S!Constants
  <2> QED
    BY <1>0, <2>2, <2>3 DEF StoreUnborn, S!Lost, S!Kernel, S!Memory
<1>2. CASE S!Stop
  <2>1. ASSUME NEW e \in S!Events, e > n' PROVE e > n /\ e # n + 1
    BY <1>2, <2>1, StoreEnds DEF S!Events, S!Constants
  <2> QED
    BY <1>0, <1>2, <2>1, StoreEnds DEF StoreUnborn
<1>3. CASE ~S!PublishEvent /\ ~S!Start /\ ~S!Stop
  BY <1>0, <1>3, StoreMoves DEF StoreUnborn
<1> QED
  BY <1>1, <1>2, <1>3

LEMMA StoreAuditKept == ASSUME S!Constants, StoreIInv, S!Next PROVE S!AuditSurvives'
<1>0. StoreTypedManager /\ StoreTypedRecord /\ StoreUnborn /\ StoreBuffered /\ S!AuditSurvives
  BY DEF StoreIInv
<1>1. CASE S!PublishEvent \/ S!Start
  <2>1. PICK audit \in BOOLEAN, sink \in 0 .. MaxSessions : S!Publish(audit, sink)
    BY <1>1, StorePublishing
  <2>2. /\ n + 1 \in S!Events /\ n \in Nat
        /\ grave' = IF audit THEN grave \cup {n + 1} ELSE grave
        /\ complained \subseteq complained'
        /\ \A e \in S!Events : home'[e] = IF e = n + 1 THEN sink ELSE home[e]
        /\ \A e \in S!Events : e # n + 1 =>
             trail'[e] = trail[e] \/ (trail[e] = S!Kernel /\ trail'[e] = S!Disk)
        /\ sink # 0 /\ audit => trail'[n + 1] = S!Disk \/ n + 1 \in complained'
    BY <1>0, <2>1, StorePublished
  <2>3. n + 1 \notin grave
    BY <1>0, <2>2 DEF StoreUnborn
  <2>4. ASSUME NEW e \in grave', home'[e] # 0, e \notin complained' PROVE trail'[e] = S!Disk
    <3>1. CASE e = n + 1
      BY <2>2, <2>3, <2>4, <3>1
    <3>2. CASE e # n + 1
      BY <1>0, <2>2, <2>4, <3>2 DEF S!AuditSurvives, StoreTypedRecord
    <3> QED
      BY <3>1, <3>2
  <2> QED
    BY <2>4 DEF S!AuditSurvives
<1>2. CASE S!Stop
  <2>1. n + 1 \notin grave /\ grave \subseteq S!Events
    BY <1>0, <1>2, StoreEnds DEF StoreUnborn, StoreTypedRecord
  <2> QED
    BY <1>0, <1>2, <2>1, StoreEnds DEF S!AuditSurvives
<1>3. CASE ~S!PublishEvent /\ ~S!Start /\ ~S!Stop
  BY <1>0, <1>3, StoreMoves DEF S!AuditSurvives, StoreTypedRecord
<1> QED
  BY <1>1, <1>2, <1>3

LEMMA StoreBufferedKept == ASSUME S!Constants, StoreIInv, S!Next PROVE StoreBuffered'
<1>0. /\ StoreTypedManager /\ StoreTypedRecord /\ StoreUnborn /\ StoreLifetime
      /\ \A e \in S!Events : StoreBufferedHere(e)
  BY DEF StoreIInv, StoreBuffered
<1>1. CASE S!PublishEvent \/ S!Start
  <2>1. PICK audit \in BOOLEAN, sink \in 0 .. MaxSessions :
           /\ S!Publish(audit, sink)
           /\ sink # 0 => sink = recorder' /\ ~closed'
           /\ recorder # 0 => recorder' = recorder /\ closed' = closed
    BY <1>1, StorePublishing
  <2>2. /\ n + 1 \in S!Events
        /\ complained \subseteq complained'
        /\ \A e \in S!Events : home'[e] = IF e = n + 1 THEN sink ELSE home[e]
        /\ \A e \in S!Events : e # n + 1 =>
             /\ log'[e] = log[e]
             /\ trail'[e] = trail[e] \/ (trail[e] = S!Kernel /\ trail'[e] = S!Disk)
             /\ rows'[e] = rows[e] \/ (rows[e] = S!Memory /\ rows'[e] \in {S!Kernel, S!Lost})
        /\ trail'[n + 1] # S!Memory
        /\ sink # 0 => log'[n + 1] = S!Memory \/ n + 1 \in complained'
        /\ sink = 0 => rows'[n + 1] = S!Lost /\ log'[n + 1] = S!Lost
    BY <1>0, <2>1, StorePublished DEF StoreBuffered
  <2>3. ASSUME NEW e \in S!Events, e # n + 1 PROVE StoreBufferedHere(e)'
    <3>1. /\ rows'[e] = S!Memory => rows[e] = S!Memory
          /\ log'[e] = log[e] /\ home'[e] = home[e]
          /\ trail'[e] # S!Memory
      BY <1>0, <2>2, <2>3 DEF StoreBufferedHere, S!Memory, S!Kernel, S!Lost, S!Disk
    <3>2. rows[e] = S!Memory => closed' = closed
      BY <1>0, <2>1 DEF StoreBufferedHere
    <3> QED
      BY <1>0, <2>1, <2>2, <3>1, <3>2 DEF StoreBufferedHere
  <2>4. ASSUME NEW e \in S!Events, e = n + 1 PROVE StoreBufferedHere(e)'
    BY <2>1, <2>2, <2>4 DEF StoreBufferedHere, S!Memory, S!Lost
  <2> QED
    BY <2>3, <2>4 DEF StoreBuffered
<1>2. CASE S!Stop
  <2>1. \A e \in S!Events : rows'[e] # S!Memory /\ log'[e] # S!Memory /\ trail'[e] # S!Memory
    BY <1>2, StoreEnds DEF S!Disk, S!Memory
  <2> QED
    BY <2>1 DEF StoreBuffered, StoreBufferedHere
<1>3. CASE S!Mark \/ S!Restart
  BY <1>0, <1>3 DEF S!Mark, S!Restart, S!recording, StoreBuffered, StoreBufferedHere
<1>4. ASSUME NEW c \in Captures,
             S!NameCapture(c) \/ S!ToolReturns(c) \/ S!CaptureHere(c) PROVE StoreBuffered'
  BY <1>0, <1>4 DEF S!NameCapture, S!ToolReturns, S!CaptureHere, S!recording, StoreBuffered,
     StoreBufferedHere
<1>5. ASSUME NEW s \in S!Sessions, S!Get(s) PROVE StoreBuffered'
  <2>1. /\ UNCHANGED <<recorder, closed, home, complained, log, trail>>
        /\ rows \in [S!Events -> StorePlaces]
        /\ rows' = [e \in S!Events |-> IF home[e] = s /\ rows[e] = S!Kernel THEN S!Disk ELSE rows[e]]
    BY <1>0, <1>5 DEF S!Get, StoreTypedRecord
  <2> QED
    BY <1>0, <2>1 DEF StoreBuffered, StoreBufferedHere, S!Disk, S!Memory, S!Kernel
<1>6. /\ rows \in [S!Events -> StorePlaces] /\ log \in [S!Events -> StorePlaces]
      /\ trail \in [S!Events -> StorePlaces]
  BY <1>0 DEF StoreTypedRecord
<1> USE DEF StorePlaces, S!Lost, S!Memory, S!Kernel, S!Disk
<1>7. CASE S!StopFails
  BY <1>0, <1>6, <1>7 DEF S!StopFails, S!FlushFails, StoreBuffered, StoreBufferedHere
<1>8. CASE S!StopAgain
  <2>1. \A e \in S!Events : rows[e] # S!Memory /\ log'[e] # S!Memory
    BY <1>0, <1>6, <1>8 DEF S!StopAgain, StoreBufferedHere
  <2> QED
    BY <1>0, <1>8, <2>1 DEF S!StopAgain, StoreBuffered, StoreBufferedHere
<1>9. CASE S!FlushAll
  BY <1>0, <1>6, <1>9 DEF S!FlushAll, S!Flush, S!Synced, StoreBuffered, StoreBufferedHere
<1>10. CASE S!FlushAllFails
  BY <1>0, <1>6, <1>10 DEF S!FlushAllFails, S!FlushFails, StoreBuffered, StoreBufferedHere
<1>11. CASE S!Kill
  BY <1>0, <1>6, <1>11 DEF S!Kill, S!Die, S!Forget, StoreBuffered, StoreBufferedHere
<1>12. CASE S!PowerFails
  BY <1>0, <1>6, <1>12 DEF S!PowerFails, S!Die, StoreBuffered, StoreBufferedHere
<1>13. CASE S!WriteBack
  BY <1>0, <1>6, <1>13 DEF S!WriteBack, StoreBuffered, StoreBufferedHere
<1> QED
  BY <1>1, <1>2, <1>3, <1>4, <1>5, <1>7, <1>8, <1>9, <1>10, <1>11, <1>12, <1>13 DEF S!Next

(* An event that is in one of the two logs, or complained of, stays so     *)
(* unless its session is spoilt by the step.                               *)
StoreAccounted(e) == rows[e] # S!Lost \/ log[e] # S!Lost \/ e \in complained
LEMMA StoreStillAccounted ==
    ASSUME S!Constants, StoreIInv, S!Next, ~S!PublishEvent, ~S!Start, ~S!Stop,
           NEW e \in 1 .. n, StoreAccounted(e), home[e] # 0, home[e] \notin spoilt'
    PROVE  StoreAccounted(e)'
<1>0. /\ StoreTypedManager /\ StoreTypedRecord /\ StoreUnborn /\ StoreLifetime
      /\ \A d \in S!Events : StoreBufferedHere(d)
  BY DEF StoreIInv, StoreBuffered
<1>1. e \in S!Events /\ StoreBufferedHere(e)
  BY <1>0 DEF StoreTypedRecord, S!Events, S!Constants
<1>2. /\ rows \in [S!Events -> StorePlaces] /\ log \in [S!Events -> StorePlaces]
      /\ trail \in [S!Events -> StorePlaces]
  BY <1>0 DEF StoreTypedRecord
<1>3. rows[e] = S!Memory => log[e] # S!Lost \/ e \in complained
  BY <1>1 DEF StoreBufferedHere
<1> USE DEF StorePlaces, S!Lost, S!Memory, S!Kernel, S!Disk
<1>4. CASE S!Mark \/ S!Restart
  BY <1>4 DEF S!Mark, S!Restart, S!recording, StoreAccounted
<1>5. ASSUME NEW c \in Captures, S!NameCapture(c) \/ S!ToolReturns(c) \/ S!CaptureHere(c)
      PROVE  StoreAccounted(e)'
  BY <1>5 DEF S!NameCapture, S!ToolReturns, S!CaptureHere, S!recording, StoreAccounted
<1>6. ASSUME NEW s \in S!Sessions, S!Get(s) PROVE StoreAccounted(e)'
  BY <1>1, <1>2, <1>6 DEF S!Get, StoreAccounted
<1>7. CASE S!StopFails
  BY <1>1, <1>2, <1>3, <1>7 DEF S!StopFails, S!FlushFails, StoreAccounted
<1>8. CASE S!StopAgain
  <2>1. log[e] # S!Memory
    BY <1>0, <1>1, <1>8 DEF S!StopAgain, StoreBufferedHere, StoreLifetime
  <2> QED
    BY <1>1, <1>2, <1>8, <2>1 DEF S!StopAgain, StoreAccounted
<1>9. CASE S!FlushAll
  BY <1>1, <1>2, <1>9 DEF S!FlushAll, S!Flush, S!Synced, StoreAccounted
<1>10. CASE S!FlushAllFails
  BY <1>1, <1>2, <1>3, <1>10 DEF S!FlushAllFails, S!FlushFails, StoreAccounted
<1>11. CASE S!Kill
  <2>1. rows[e] # S!Memory /\ log[e] # S!Memory
    BY <1>1, <1>11 DEF S!Kill, StoreBufferedHere
  <2> QED
    BY <1>1, <1>2, <1>11, <2>1 DEF S!Kill, S!Die, S!Forget, StoreAccounted
<1>12. CASE S!PowerFails
  <2>1. rows[e] # S!Memory /\ log[e] # S!Memory
    BY <1>1, <1>12 DEF S!PowerFails, StoreBufferedHere
  <2>2. rows[e] # S!Kernel /\ log[e] # S!Kernel
    <3>1. spoilt' = spoilt \cup ({recorder} \ {0})
             \cup {home[f] : f \in {d \in 1 .. n :
                     home[d] # 0 /\ S!Kernel \in {rows[d], log[d], trail[d]}}}
      BY <1>12 DEF S!PowerFails
    <3> QED
      BY <3>1
  <2>3. PICK kept : LET after(r) == [d \in S!Events |->
                            IF r[d] = S!Disk \/ (r[d] = S!Kernel /\ d \in kept) THEN r[d] ELSE S!Lost]
                    IN  rows' = after(rows) /\ log' = after(log) /\ trail' = after(trail)
    BY <1>12 DEF S!PowerFails
  <2>4. complained' = complained
    BY <1>12 DEF S!PowerFails, S!Die
  <2>5. /\ rows[e] # S!Lost => rows'[e] # S!Lost
        /\ log[e] # S!Lost => log'[e] # S!Lost
    BY <1>1, <1>2, <2>1, <2>2, <2>3
  <2> QED
    BY <2>4, <2>5 DEF StoreAccounted
<1>13. CASE S!WriteBack
  BY <1>1, <1>2, <1>13 DEF S!WriteBack, StoreAccounted
<1> QED
  BY <1>4, <1>5, <1>6, <1>7, <1>8, <1>9, <1>10, <1>11, <1>12, <1>13 DEF S!Next

LEMMA StoreSpoiltStays == ASSUME S!Next PROVE spoilt \subseteq spoilt'
  BY DEF S!Next, S!Start, S!Mark, S!Stop, S!StopFails, S!StopAgain, S!PublishEvent, S!FlushAll,
     S!FlushAllFails,
         S!Get, S!NameCapture, S!ToolReturns, S!CaptureHere, S!Kill, S!PowerFails, S!WriteBack,
         S!Restart

LEMMA StoreNoLossKept == ASSUME S!Constants, StoreIInv, S!Next PROVE S!NoSilentLoss'
<1>0. /\ StoreTypedManager /\ StoreTypedRecord /\ StoreUnborn /\ StoreBuffered
      /\ \A e \in 1 .. n : home[e] \notin {0} \cup spoilt => StoreAccounted(e)
  BY DEF StoreIInv, S!NoSilentLoss, StoreAccounted
<1>1. ASSUME NEW e \in 1 .. n', home'[e] # 0, home'[e] \notin spoilt' PROVE StoreAccounted(e)'
  <2>1. CASE S!PublishEvent \/ S!Start
    <3>1. PICK audit \in BOOLEAN, sink \in 0 .. MaxSessions :
             S!Publish(audit, sink) /\ UNCHANGED spoilt
      BY <2>1, StorePublishing
    <3>2. /\ n + 1 \in S!Events /\ n \in Nat /\ n' = n + 1
          /\ complained \subseteq complained'
          /\ \A d \in S!Events : home'[d] = IF d = n + 1 THEN sink ELSE home[d]
          /\ \A d \in S!Events : d # n + 1 =>
               /\ log'[d] = log[d]
               /\ rows'[d] = rows[d] \/ (rows[d] = S!Memory /\ rows'[d] \in {S!Kernel, S!Lost})
          /\ sink # 0 => log'[n + 1] = S!Memory \/ n + 1 \in complained'
      BY <1>0, <3>1, StorePublished
    <3>3. e \in S!Events /\ (e # n + 1 => e \in 1 .. n)
      BY <3>2 DEF S!Events, S!Constants
    <3>4. CASE e = n + 1
      BY <1>1, <3>2, <3>4 DEF StoreAccounted, S!Memory, S!Lost
    <3>5. CASE e # n + 1
      <4>1. StoreAccounted(e) /\ (rows[e] = S!Memory => log[e] # S!Lost \/ e \in complained)
        BY <1>0, <1>1, <3>1, <3>2, <3>3, <3>5 DEF StoreBuffered, StoreBufferedHere
      <4> QED
        BY <3>2, <3>3, <3>5, <4>1 DEF StoreAccounted
    <3> QED
      BY <3>4, <3>5
  <2>2. CASE S!Stop
    <3>1. e \in S!Events /\ (e # n + 1 => e \in 1 .. n)
      BY <1>0, <1>1, <2>2, StoreEnds DEF S!Events, S!Constants
    <3>2. CASE e = n + 1
      BY <2>2, <3>2, StoreEnds DEF StoreAccounted, S!Disk, S!Lost
    <3>3. CASE e # n + 1
      BY <1>0, <1>1, <2>2, <3>1, <3>3, StoreEnds DEF StoreAccounted
    <3> QED
      BY <3>2, <3>3
  <2>3. CASE ~S!PublishEvent /\ ~S!Start /\ ~S!Stop
    <3>1. n' = n /\ home' = home
      BY <2>3, StoreMoves
    <3> QED
      BY <1>0, <1>1, <2>3, <3>1, StoreSpoiltStays, StoreStillAccounted
  <2> QED
    BY <2>1, <2>2, <2>3
<1> QED
  BY <1>1 DEF S!NoSilentLoss, StoreAccounted

-----------------------------------------------------------------------------
(* Captures.                                                               *)

LEMMA StoreNamedKept == ASSUME S!Constants, StoreIInv, S!Next PROVE StoreNamed'
<1>0. /\ StoreTypedManager /\ StoreNamed
  BY DEF StoreIInv
<1> DEFINE Kinds == [st : {"idle", "named", "done", "failed"}, s : 0 .. MaxSessions,
                     index : 0 .. Cardinality(Captures)]
<1>1. cap \in [Captures -> Kinds]
  BY <1>0 DEF StoreNamed
<1>2. StoreNames \subseteq 0 .. Cardinality(Captures)
  BY StoreNamesCounted DEF StoreNames
<1>3. CASE UNCHANGED S!captured
  BY <1>0, <1>3 DEF S!captured, StoreNamed, StoreFileOf
<1>4. ASSUME NEW c \in Captures, NEW x \in Kinds, cap' = [cap EXCEPT ![c] = x],
             cap[c].st \in {"idle", "named"}
      PROVE  /\ cap' \in [Captures -> Kinds] /\ cap'[c] = x
             /\ \A d \in Captures : d # c => cap'[d] = cap[d] /\ StoreFileOf(d)' = StoreFileOf(d)
             /\ \A d \in Captures : cap[d].st \in {"done", "failed"} =>
                  StoreFileOf(d)' = StoreFileOf(d) /\ cap'[d] = cap[d]
  BY <1>1, <1>4 DEF StoreFileOf
<1>5. ASSUME NEW c \in Captures, S!NameCapture(c) PROVE StoreNamed'
  <2> DEFINE x == [st |-> "named", s |-> recorder, index |-> S!NextFilename(recorder, Stem(c))]
  <2>1. /\ cap' = [cap EXCEPT ![c] = x] /\ cap[c].st = "idle" /\ External(c)
        /\ recorder \in S!Sessions /\ UNCHANGED <<files, artifacts>>
    BY <1>0, <1>5, StoreRanges DEF S!NameCapture, StoreTypedManager
  <2>2. x.index \in StoreNames
    BY <1>0, <2>1, StoreNameIsFree
  <2>3. x \in Kinds /\ x.st = "named" /\ x.s \in S!Sessions
    BY <1>2, <2>1, <2>2, StoreRanges
  <2> HIDE DEF x, Kinds
  <2>4. /\ cap' \in [Captures -> Kinds] /\ cap'[c] = x
        /\ \A d \in Captures : d # c => cap'[d] = cap[d] /\ StoreFileOf(d)' = StoreFileOf(d)
        /\ \A d \in Captures : cap[d].st \in {"done", "failed"} =>
             StoreFileOf(d)' = StoreFileOf(d) /\ cap'[d] = cap[d]
    BY <1>4, <2>1, <2>3
  <2> QED
    BY <1>0, <2>1, <2>2, <2>3, <2>4 DEF StoreNamed, Kinds
<1>6. ASSUME NEW c \in Captures, S!ToolReturns(c) PROVE StoreNamed'
  <2>1. PICK st \in {"done", "failed"} :
          /\ cap' = [cap EXCEPT ![c] = [cap[c] EXCEPT !.st = st]]
          /\ artifacts' = artifacts \/ (st = "done" /\ artifacts' = artifacts \cup {StoreFileOf(c)})
    BY <1>6 DEF S!ToolReturns, StoreFileOf
  <2>2. /\ cap[c].st = "named" /\ files' = S!Written(cap[c].s, Stem(c), cap[c].index, c)
    BY <1>6 DEF S!ToolReturns
  <2> DEFINE x == [cap[c] EXCEPT !.st = st]
  <2>3. x \in Kinds /\ x.st = st /\ x.s = cap[c].s /\ x.index = cap[c].index
        /\ x.s \in S!Sessions /\ x.index \in StoreNames
    BY <1>0, <1>1, <2>2 DEF StoreNamed
  <2> HIDE DEF x, Kinds
  <2>4. /\ cap' \in [Captures -> Kinds] /\ cap'[c] = x
        /\ \A d \in Captures : d # c => cap'[d] = cap[d] /\ StoreFileOf(d)' = StoreFileOf(d)
        /\ \A d \in Captures : cap[d].st \in {"done", "failed"} =>
             StoreFileOf(d)' = StoreFileOf(d) /\ cap'[d] = cap[d]
    BY <1>4, <2>1, <2>2, <2>3 DEF x
  <2>5. StoreFileOf(c)' = <<cap[c].s, Stem(c), cap[c].index, c>> /\ StoreFileOf(c)' = StoreFileOf(c)
    BY <2>3, <2>4 DEF StoreFileOf
  <2>6. \A f \in files' : f \in files \/ f = StoreFileOf(c)'
    BY <2>2, <2>5 DEF S!Written
  <2>7. \A f \in files' : \E d \in Captures :
           cap'[d].st \in {"done", "failed"} /\ f = StoreFileOf(d)'
    BY <1>0, <2>1, <2>3, <2>4, <2>6 DEF StoreNamed
  <2>8. \A a \in artifacts' : \E d \in Captures : cap'[d].st = "done" /\ a = StoreFileOf(d)'
    BY <1>0, <2>1, <2>3, <2>4, <2>5 DEF StoreNamed
  <2>9. \A d \in Captures :
          /\ cap'[d].st # "idle" => cap'[d].s \in S!Sessions /\ cap'[d].index \in StoreNames
          /\ cap'[d].st = "named" => External(d)
    BY <1>0, <2>1, <2>3, <2>4 DEF StoreNamed
  <2> QED
    BY <2>4, <2>7, <2>8, <2>9 DEF StoreNamed, Kinds
<1>7. ASSUME NEW c \in Captures, S!CaptureHere(c) PROVE StoreNamed'
  <2> DEFINE i == S!NextFilename(recorder, Stem(c))
             x == [st |-> "done", s |-> recorder, index |-> i]
  <2>1. /\ cap' = [cap EXCEPT ![c] = x] /\ cap[c].st = "idle" /\ recorder \in S!Sessions
        /\ files' = S!Written(recorder, Stem(c), i, c)
        /\ artifacts' = artifacts \cup {<<recorder, Stem(c), i, c>>}
    BY <1>0, <1>7, StoreRanges DEF S!CaptureHere, StoreTypedManager
  <2>2. i \in StoreNames
    BY <1>0, <2>1, StoreNameIsFree
  <2> HIDE DEF i
  <2>3. x \in Kinds /\ x.st = "done" /\ x.s = recorder /\ x.index = i
    BY <1>2, <2>1, <2>2, StoreRanges
  <2> HIDE DEF x, Kinds
  <2>4. /\ cap' \in [Captures -> Kinds] /\ cap'[c] = x
        /\ \A d \in Captures : d # c => cap'[d] = cap[d] /\ StoreFileOf(d)' = StoreFileOf(d)
        /\ \A d \in Captures : cap[d].st \in {"done", "failed"} =>
             StoreFileOf(d)' = StoreFileOf(d) /\ cap'[d] = cap[d]
    BY <1>4, <2>1, <2>3
  <2>5. StoreFileOf(c)' = <<recorder, Stem(c), i, c>>
    BY <2>3, <2>4 DEF StoreFileOf
  <2>6. \A f \in files' : f \in files \/ f = StoreFileOf(c)'
    BY <2>1, <2>5 DEF S!Written
  <2>7. \A f \in files' : \E d \in Captures :
           cap'[d].st \in {"done", "failed"} /\ f = StoreFileOf(d)'
    BY <1>0, <2>1, <2>3, <2>4, <2>6 DEF StoreNamed
  <2>8. \A a \in artifacts' : \E d \in Captures : cap'[d].st = "done" /\ a = StoreFileOf(d)'
    BY <1>0, <2>1, <2>3, <2>4, <2>5 DEF StoreNamed
  <2>9. \A d \in Captures :
          /\ cap'[d].st # "idle" => cap'[d].s \in S!Sessions /\ cap'[d].index \in StoreNames
          /\ cap'[d].st = "named" => External(d)
    BY <1>0, <2>1, <2>2, <2>3, <2>4 DEF StoreNamed
  <2> QED
    BY <2>4, <2>7, <2>8, <2>9 DEF StoreNamed, Kinds
<1>8. CASE S!Kill \/ S!PowerFails
  <2>1. /\ cap' = [c \in Captures |-> IF cap[c].st = "named" THEN [cap[c] EXCEPT !.st = "failed"]
                                                             ELSE cap[c]]
        /\ UNCHANGED <<files, artifacts>>
    BY <1>8 DEF S!Kill, S!PowerFails, S!Die
  <2>2. ASSUME NEW c \in Captures
        PROVE  /\ cap'[c] \in Kinds /\ cap'[c].s = cap[c].s /\ cap'[c].index = cap[c].index
               /\ cap'[c].st = cap[c].st \/ (cap[c].st = "named" /\ cap'[c].st = "failed")
    BY <1>1, <2>1
  <2>3. cap' \in [Captures -> Kinds] /\ \A c \in Captures : StoreFileOf(c)' = StoreFileOf(c)
    BY <2>1, <2>2 DEF StoreFileOf
  <2> HIDE DEF Kinds
  <2> QED
    BY <1>0, <2>1, <2>2, <2>3 DEF StoreNamed, Kinds
<1>9. CASE S!Start \/ S!PublishEvent
  BY <1>3, <1>9, StorePublishing
<1>10. CASE S!Mark \/ S!Stop \/ S!StopFails \/ S!StopAgain \/ S!FlushAll \/ S!FlushAllFails \/
       S!WriteBack \/ S!Restart
  BY <1>3, <1>10 DEF S!Mark, S!Stop, S!StopFails, S!StopAgain, S!FlushAll, S!FlushAllFails,
     S!WriteBack, S!Restart
<1>11. ASSUME NEW s \in S!Sessions, S!Get(s) PROVE StoreNamed'
  BY <1>3, <1>11 DEF S!Get
<1> QED
  BY <1>5, <1>6, <1>7, <1>8, <1>9, <1>10, <1>11 DEF S!Next

LEMMA StoreIntactKept == ASSUME S!Constants, StoreIInv, S!Next PROVE S!ArtifactsIntact'
<1>0. /\ StoreNamed /\ S!ArtifactsIntact
  BY DEF StoreIInv
<1>1. CASE UNCHANGED <<files, artifacts>>
  BY <1>0, <1>1 DEF S!ArtifactsIntact
<1>2. ASSUME NEW c \in Captures, S!ToolReturns(c) PROVE S!ArtifactsIntact'
  <2> DEFINE g == <<cap[c].s, Stem(c), cap[c].index, c>>
  <2>1. /\ g[1] = cap[c].s /\ g[2] = Stem(c) /\ g[3] = cap[c].index /\ g[4] = c
        /\ files' = {f \in files : ~(f[1] = g[1] /\ f[2] = g[2] /\ f[3] = g[3])} \cup {g}
        /\ artifacts' = artifacts \/ artifacts' = artifacts \cup {g}
    BY <1>2 DEF S!ToolReturns, S!Written
  <2>2. External(g[4])
    BY <1>0, <1>2 DEF S!ToolReturns, StoreNamed
  <2> HIDE DEF g
  <2> QED
    BY <1>0, <2>1, <2>2 DEF S!ArtifactsIntact
<1>3. ASSUME NEW c \in Captures, S!CaptureHere(c) PROVE S!ArtifactsIntact'
  <2> DEFINE i == S!NextFilename(recorder, Stem(c))
             g == <<recorder, Stem(c), i, c>>
  <2>1. /\ g[1] = recorder /\ g[2] = Stem(c) /\ g[3] = i
        /\ files' = {f \in files : ~(f[1] = recorder /\ f[2] = Stem(c) /\ f[3] = i)} \cup {g}
        /\ artifacts' = artifacts \cup {g} /\ cap[c].st = "idle"
    BY <1>3 DEF S!CaptureHere, S!Written
  <2>2. ~\E f \in files : f[1] = recorder /\ f[2] = Stem(c) /\ f[3] = i
    BY <1>0, <2>1, StoreNameIsFree
  <2> HIDE DEF g, i
  <2> QED
    BY <1>0, <2>1, <2>2 DEF S!ArtifactsIntact
<1>4. CASE S!Start \/ S!PublishEvent
  BY <1>1, <1>4, StorePublishing DEF S!captured
<1>5. CASE S!Mark \/ S!Stop \/ S!StopFails \/ S!StopAgain \/ S!FlushAll \/ S!FlushAllFails \/
      S!WriteBack \/ S!Restart
  BY <1>1, <1>5 DEF S!Mark, S!Stop, S!StopFails, S!StopAgain, S!FlushAll, S!FlushAllFails,
     S!WriteBack, S!Restart,
     S!captured
<1>6. ASSUME NEW s \in S!Sessions, S!Get(s) PROVE S!ArtifactsIntact'
  BY <1>1, <1>6 DEF S!Get, S!captured
<1>7. CASE S!Kill \/ S!PowerFails
  BY <1>1, <1>7 DEF S!Kill, S!PowerFails, S!Die
<1>8. ASSUME NEW c \in Captures, S!NameCapture(c) PROVE S!ArtifactsIntact'
  BY <1>1, <1>8 DEF S!NameCapture
<1> QED
  BY <1>2, <1>3, <1>4, <1>5, <1>6, <1>7, <1>8 DEF S!Next

-----------------------------------------------------------------------------
LEMMA StoreStepIInv == ASSUME S!Constants, StoreIInv, [S!Next]_(S!vars) PROVE StoreIInv'
<1>1. CASE UNCHANGED S!vars
  BY <1>1 DEF S!vars, StoreIInv, StoreTypedManager, StoreTypedRecord, StoreLifetime,
     StoreUnborn, StoreBuffered, StoreBufferedHere,
     S!AuditSurvives, S!NoSilentLoss, StoreNamed, StoreFileOf, S!ArtifactsIntact
<1>2. CASE S!Next
  BY <1>2, StoreManagerTyped, StoreRecordTyped, StoreLifetimeKept, StoreUnbornKept,
     StoreBufferedKept, StoreAuditKept,
     StoreNoLossKept, StoreNamedKept, StoreIntactKept DEF StoreIInv
<1> QED
  BY <1>1, <1>2

LEMMA StoreMeansComplete ==
    ASSUME StoreIInv
    PROVE  S!AuditSurvives /\ S!NoSilentLoss /\ S!ArtifactsIntact
  BY DEF StoreIInv

LEMMA StoreMeansTyped == ASSUME S!Constants, StoreIInv PROVE S!TypeOK
<1>1. S!Lost .. S!Disk = StorePlaces
  BY DEF S!Lost, S!Memory, S!Kernel, S!Disk, StorePlaces
<1>2. \A f \in files \cup artifacts : f[1] \in S!Sessions /\ f[4] \in Captures
  BY DEF StoreIInv, StoreNamed, StoreFileOf
<1> QED
  BY <1>1, <1>2, StoreCounting DEF StoreIInv, S!TypeOK, StoreTypedManager, StoreTypedRecord,
     StoreNamed

-----------------------------------------------------------------------------
(* Fdctl: for any lists of classes, lives of a lease, length of a hold and *)
(* lateness of the process.                                                *)
FdctlOperations ==
    X!OneAction \cup {"system.status", "device.list", "device.status", "safety.arm",
                      "safety.disarm", "safety.estop", "safety.estop_clear", "action.list",
                      "psu.output", "flash.program", "flash.erase", "recipe.validate", "tools",
                      "events.subscribe", "called", "recipe.run", None}
FdctlClasses == {"PASSIVE", "QUERY", "CONTROL", "POWER", "FLASH", "DESTRUCTIVE", "CLEAR", "ERASE", None}
FdctlSteps == [k : {"ask", "do", "hold", "hang up"}, op : FdctlOperations, class : FdctlClasses]

\* The steps of a script.
FdctlIn(t) == {t[m] : m \in DOMAIN t}
FdctlOpsOf(t) == {step.op : step \in FdctlIn(t)}

-----------------------------------------------------------------------------
(* The inductive invariant, in named parts.                                *)

FdctlTyped ==
    /\ todo \in Seq(FdctlSteps) /\ docs \in Nat /\ now \in Nat /\ lag \in Nat
    /\ exit \in Int \cup {None}

\* Before there is a command, nothing has happened.
FdctlFresh ==
    inv = None =>
        /\ todo = <<>> /\ exit = None /\ did = {} /\ docs = 0 /\ conn = "none"
        /\ planShown = None /\ leasedTill = None /\ wake = None /\ now = 0 /\ lag = 0

\* The operator has confirmed, or a step that wants a confirmation is after a
\* question for one.
FdctlAuthorized == inv.yes \/ (inv.tty /\ typed # {})
FdctlWeighty(step) ==
    /\ step.k = "do" /\ (step.class \in X!Irreversible \/ step.op = "safety.estop_clear")
    /\ step.op \notin {"recipe.validate", "action.list"}
FdctlGuarded(t) ==
    \A m \in DOMAIN t : FdctlWeighty(t[m]) => \E l \in 1 .. m - 1 : t[l].k = "ask"
FdctlQuestioned == inv # None => FdctlAuthorized \/ FdctlGuarded(todo)

\* A run is of the plan that was shown, and no plan is shown after it.
FdctlPlanned ==
    /\ \A step \in FdctlIn(todo) : step.op = "recipe.run" => step.class = planShown
    /\ "recipe.run" \in FdctlOpsOf(todo) \/ (\E d \in did : d.op = "recipe.run") =>
           "recipe.validate" \notin FdctlOpsOf(todo)

\* A command that goes on has printed nothing and has been told of no error.
FdctlSilent ==
    exit = None =>
        /\ inv # None /\ inv.cmd \notin X!Streams => docs = 0
        /\ \A d \in did : d.result \notin X!Errors
        /\ inv # None /\ ~X!Local => \A d \in did : d.told = d.result

\* A hold is the second step of one command, and nothing takes time before it.
FdctlRail == <<X!Do("psu.output", None), X!Hold, X!HangUp>>
FdctlHoldComes ==
    inv # None =>
        /\ inv.cmd = "psu output on" =>
            /\ inv.ttl \in Ttls /\ todo \in {FdctlRail, <<X!Hold, X!HangUp>>, <<X!HangUp>>, <<>>}
            /\ todo = FdctlRail => wake = None /\ now = 0 /\ leasedTill = None /\ lag = 0
        /\ inv.cmd # "psu output on" => \A step \in FdctlIn(todo) : step.k # "hold"
\* The lease of a hold is ahead of the next renewal, or has run out because of
\* the delay of this one.
FdctlHoldKept ==
    X!At("hold") =>
        /\ inv.ttl \in Ttls /\ conn = "open" /\ holdEnd \in Nat
        /\ wake = None => now = 0 /\ lag = 0 /\ leasedTill = inv.ttl
        /\ wake # None =>
            /\ wake \in Int /\ (now > wake => lag >= now - wake)
            /\ leasedTill # None => leasedTill \in Nat /\ wake <= leasedTill - inv.ttl + X!Interval
            /\ leasedTill = None /\ inv.ttl >= 3 * Floor => lag >= inv.ttl - inv.ttl \div 3

FdctlLeaseOnLine == leasedTill # None => conn \in {"open", "lost"} /\ leasedTill \in Nat

FdctlIInv ==
         /\ FdctlTyped /\ FdctlFresh /\ FdctlQuestioned /\ FdctlPlanned /\ FdctlSilent
         /\ FdctlHoldComes /\ FdctlHoldKept
         /\ FdctlLeaseOnLine /\ X!ScriptsCanRely /\ X!ConfirmedFirst

-----------------------------------------------------------------------------
(* Scripts.                                                                *)

LEMMA FdctlLeast ==
    ASSUME NEW T \in SUBSET Nat, T # {}
    PROVE  \E k \in T : \A j \in T : k <= j
<1> DEFINE less == OpToRel(<, Nat)
<1>1. IsWellFoundedOn(less, Nat)
  BY NatLessThanWellFounded
<1>2. T \subseteq Nat
  OBVIOUS
<1>3. \A j, k \in T : j < k => <<j, k>> \in less
  BY <1>2 DEF OpToRel
<1> HIDE DEF less
<1>4. \E k \in T : \A j \in T : ~(<<j, k>> \in less)
  BY <1>1, <1>2, WFMin, Zenon
<1>5. \A j, k \in T : ~(j < k) => k <= j
  BY <1>2
<1> QED
  BY <1>3, <1>4, <1>5

LEMMA FdctlTailed ==
    ASSUME NEW t \in Seq(FdctlSteps), t # <<>>
    PROVE  /\ Len(t) \in Nat \ {0} /\ DOMAIN t = 1 .. Len(t) /\ Head(t) = t[1]
           /\ t[1] \in FdctlSteps
           /\ Tail(t) \in Seq(FdctlSteps) /\ Len(Tail(t)) = Len(t) - 1
           /\ DOMAIN Tail(t) = 1 .. Len(t) - 1
           /\ \A m \in 1 .. Len(t) - 1 : Tail(t)[m] = t[m + 1]
           /\ FdctlIn(Tail(t)) \subseteq FdctlIn(t) /\ Head(t) \in FdctlIn(t)
           /\ FdctlOpsOf(Tail(t)) \subseteq FdctlOpsOf(t) /\ Head(t).op \in FdctlOpsOf(t)
           /\ Head(t).k # "ask" /\ FdctlGuarded(t) =>
                FdctlGuarded(Tail(t)) /\ ~FdctlWeighty(Head(t))
<1>1. /\ Len(t) \in Nat \ {0} /\ DOMAIN t = 1 .. Len(t) /\ Head(t) = t[1] /\ t[1] \in FdctlSteps
      /\ Tail(t) \in Seq(FdctlSteps) /\ Len(Tail(t)) = Len(t) - 1
      /\ DOMAIN Tail(t) = 1 .. Len(t) - 1
  BY HeadTailProperties, EmptySeq, LenProperties, ElementOfSeq
<1>2. \A m \in 1 .. Len(t) - 1 : Tail(t)[m] = t[m + 1] /\ m + 1 \in 1 .. Len(t)
  BY <1>1, HeadTailProperties
<1>3. FdctlIn(Tail(t)) \subseteq FdctlIn(t) /\ Head(t) \in FdctlIn(t)
  BY <1>1, <1>2 DEF FdctlIn
<1>4. FdctlOpsOf(Tail(t)) \subseteq FdctlOpsOf(t) /\ Head(t).op \in FdctlOpsOf(t)
  BY <1>3 DEF FdctlOpsOf
<1>5. ASSUME Head(t).k # "ask", FdctlGuarded(t)
      PROVE  FdctlGuarded(Tail(t)) /\ ~FdctlWeighty(Head(t))
  <2>1. ~FdctlWeighty(t[1])
    <3>1. 1 .. 1 - 1 = {}
      OBVIOUS
    <3> QED
      BY <3>1, <1>1, <1>5 DEF FdctlGuarded
  <2>2. ASSUME NEW m \in DOMAIN Tail(t), FdctlWeighty(Tail(t)[m])
        PROVE  \E l \in 1 .. m - 1 : Tail(t)[l].k = "ask"
    <3>1. FdctlWeighty(t[m + 1]) /\ m + 1 \in DOMAIN t
      BY <2>2, <1>1, <1>2
    <3>2. PICK l \in 1 .. m : t[l].k = "ask"
      <4>1. (m + 1) - 1 = m
        BY <1>1
      <4> QED
        BY <3>1, <4>1, <1>5 DEF FdctlGuarded
    <3>3. l # 1
      BY <3>2, <1>5, <1>1
    <3>4. l - 1 \in 1 .. m - 1 /\ l - 1 \in 1 .. Len(t) - 1 /\ (l - 1) + 1 = l
      BY <3>3, <1>1
    <3>5. Tail(t)[l - 1] = t[l]
      BY <3>4, <1>2
    <3> QED
      BY <3>2, <3>4, <3>5
  <2> QED
    BY <2>1, <2>2, <1>1 DEF FdctlGuarded
<1> QED
  BY <1>1, <1>2, <1>3, <1>4, <1>5

\* Scripts one after the other; a question guards all that follows it.
LEMMA FdctlJoined ==
    ASSUME NEW s \in Seq(FdctlSteps), NEW t \in Seq(FdctlSteps)
    PROVE  /\ s \o t \in Seq(FdctlSteps)
           /\ FdctlIn(s \o t) = FdctlIn(s) \cup FdctlIn(t)
           /\ FdctlOpsOf(s \o t) = FdctlOpsOf(s) \cup FdctlOpsOf(t)
           /\ FdctlGuarded(s) /\ (FdctlGuarded(t) \/ \E step \in FdctlIn(s) : step.k = "ask") =>
                FdctlGuarded(s \o t)
<1>1. /\ s \o t \in Seq(FdctlSteps) /\ Len(s \o t) = Len(s) + Len(t)
      /\ \A m \in 1 .. Len(s) + Len(t) : (s \o t)[m] = IF m <= Len(s) THEN s[m] ELSE t[m - Len(s)]
      /\ Len(s) \in Nat /\ Len(t) \in Nat
  BY ConcatProperties, LenProperties
<1>2. /\ DOMAIN s = 1 .. Len(s) /\ DOMAIN t = 1 .. Len(t)
      /\ DOMAIN (s \o t) = 1 .. Len(s) + Len(t)
  BY <1>1, LenProperties
<1> DEFINE st == s \o t
<1>3. /\ \A m \in 1 .. Len(s) : m \in 1 .. Len(s) + Len(t) /\ st[m] = s[m]
      /\ \A m \in 1 .. Len(t) : m + Len(s) \in 1 .. Len(s) + Len(t) /\ st[m + Len(s)] = t[m]
  <2>1. ASSUME NEW m \in 1 .. Len(t)
        PROVE  m + Len(s) \in 1 .. Len(s) + Len(t) /\ st[m + Len(s)] = t[m]
    <3>1. m + Len(s) \in 1 .. Len(s) + Len(t) /\ ~(m + Len(s) <= Len(s))
          /\ (m + Len(s)) - Len(s) = m
      BY <1>1
    <3> QED
      BY <3>1, <1>1
  <2> QED
    BY <2>1, <1>1
<1> HIDE DEF st
<1>4. \A m \in 1 .. Len(s) + Len(t) :
      m \in 1 .. Len(s) \/ (m - Len(s) \in 1 .. Len(t) /\ m = (m - Len(s)) + Len(s))
  BY <1>1
<1>5. FdctlIn(st) = FdctlIn(s) \cup FdctlIn(t)
  <2>1. ASSUME NEW m \in 1 .. Len(s) + Len(t) PROVE st[m] \in FdctlIn(s) \cup FdctlIn(t)
    <3>1. CASE m \in 1 .. Len(s)
      BY <3>1, <1>2, <1>3 DEF FdctlIn
    <3>2. CASE m - Len(s) \in 1 .. Len(t) /\ m = (m - Len(s)) + Len(s)
      <4>1. st[m] = t[m - Len(s)]
        BY <3>2, <1>3
      <4> QED
        BY <4>1, <3>2, <1>2 DEF FdctlIn
    <3> QED
      BY <3>1, <3>2, <1>4
  <2>2. FdctlIn(s) \subseteq FdctlIn(st) /\ FdctlIn(t) \subseteq FdctlIn(st)
    BY <1>2, <1>3 DEF FdctlIn, st
  <2> QED
    BY <2>1, <2>2, <1>2 DEF FdctlIn, st
<1>6. FdctlOpsOf(st) = FdctlOpsOf(s) \cup FdctlOpsOf(t)
  BY <1>5 DEF FdctlOpsOf
<1>7. ASSUME FdctlGuarded(s), FdctlGuarded(t) \/ \E step \in FdctlIn(s) : step.k = "ask",
             NEW m \in 1 .. Len(s) + Len(t), FdctlWeighty(st[m])
      PROVE  \E l \in 1 .. m - 1 : st[l].k = "ask"
  <2>1. CASE m \in 1 .. Len(s)
    <3>1. FdctlWeighty(s[m]) /\ m \in DOMAIN s
      BY <2>1, <1>2, <1>3, <1>7
    <3>2. PICK l \in 1 .. m - 1 : s[l].k = "ask"
      BY <3>1, <1>7 DEF FdctlGuarded
    <3>3. l \in 1 .. Len(s)
      BY <2>1, <1>1
    <3> QED
      BY <3>2, <3>3, <1>3
  <2>2. CASE m - Len(s) \in 1 .. Len(t) /\ m = (m - Len(s)) + Len(s) /\ FdctlGuarded(t)
    <3>1. st[m] = t[m - Len(s)]
      BY <2>2, <1>3
    <3>2. PICK l \in 1 .. (m - Len(s)) - 1 : t[l].k = "ask"
      BY <2>2, <3>1, <1>7, <1>2 DEF FdctlGuarded
    <3>3. l \in 1 .. Len(t) /\ l + Len(s) \in 1 .. m - 1
      BY <2>2, <1>1
    <3> QED
      BY <3>2, <3>3, <1>3
  <2>3. CASE m - Len(s) \in 1 .. Len(t) /\ m = (m - Len(s)) + Len(s) /\ ~FdctlGuarded(t)
    <3>1. PICK l \in 1 .. Len(s) : s[l].k = "ask"
      BY <2>3, <1>7, <1>2 DEF FdctlIn
    <3>2. l \in 1 .. m - 1
      BY <2>3, <1>1
    <3> QED
      BY <3>1, <3>2, <1>3
  <2> QED
    BY <2>1, <2>2, <2>3, <1>4
<1>8. FdctlGuarded(s) /\ (FdctlGuarded(t) \/ \E step \in FdctlIn(s) : step.k = "ask") =>
      FdctlGuarded(st)
  BY <1>7, <1>2 DEF FdctlGuarded, st
<1> QED
  BY <1>1, <1>5, <1>6, <1>8 DEF st

LEMMA FdctlShort ==
    ASSUME NEW a \in FdctlSteps, NEW b \in FdctlSteps, NEW c \in FdctlSteps
    PROVE  /\ <<>> \in Seq(FdctlSteps) /\ FdctlIn(<<>>) = {} /\ FdctlGuarded(<<>>)
           /\ <<a>> \in Seq(FdctlSteps) /\ FdctlIn(<<a>>) = {a} /\ (~FdctlWeighty(a) =>
                FdctlGuarded(<<a>>))
           /\ <<a, b>> \in Seq(FdctlSteps) /\ FdctlIn(<<a, b>>) = {a, b}
           /\ ~FdctlWeighty(a) /\ (a.k = "ask" \/ ~FdctlWeighty(b)) => FdctlGuarded(<<a, b>>)
           /\ <<a, b, c>> \in Seq(FdctlSteps) /\ FdctlIn(<<a, b, c>>) = {a, b, c}
           /\ ~FdctlWeighty(a) /\ (a.k = "ask" \/ (~FdctlWeighty(b) /\ ~FdctlWeighty(c))) =>
                FdctlGuarded(<<a, b, c>>)
<1>1. <<>> \in Seq(FdctlSteps) /\ <<a>> \in Seq(FdctlSteps) /\ <<a,
      b>> \in Seq(FdctlSteps) /\ <<a, b, c>> \in Seq(FdctlSteps)
  OBVIOUS
<1>2. /\ DOMAIN <<>> = {} /\ DOMAIN <<a>> = {1} /\ DOMAIN <<a, b>> = {1, 2}
      /\ DOMAIN <<a, b, c>> = {1, 2, 3}
  OBVIOUS
<1>3. /\ <<a>>[1] = a /\ <<a, b>>[1] = a /\ <<a, b>>[2] = b
      /\ <<a, b, c>>[1] = a /\ <<a, b, c>>[2] = b /\ <<a, b, c>>[3] = c
  OBVIOUS
<1>4. 1 \in 1 .. 2 - 1 /\ 1 \in 1 .. 3 - 1
  OBVIOUS
<1>5. FdctlIn(<<>>) = {} /\ FdctlIn(<<a>>) = {a} /\ FdctlIn(<<a, b>>) = {a, b} /\
      FdctlIn(<<a, b, c>>) = {a, b, c}
  BY <1>2, <1>3 DEF FdctlIn
<1>6. FdctlGuarded(<<>>) /\ (~FdctlWeighty(a) => FdctlGuarded(<<a>>))
  BY <1>2, <1>3 DEF FdctlGuarded
<1>7. ASSUME ~FdctlWeighty(a), a.k = "ask" \/ ~FdctlWeighty(b) PROVE FdctlGuarded(<<a, b>>)
  BY <1>2, <1>3, <1>4, <1>7 DEF FdctlGuarded
<1>8. ASSUME ~FdctlWeighty(a),
             a.k = "ask" \/ (~FdctlWeighty(b) /\ ~FdctlWeighty(c)) PROVE FdctlGuarded(<<a, b, c>>)
  BY <1>2, <1>3, <1>4, <1>8 DEF FdctlGuarded
<1> QED
  BY <1>1, <1>5, <1>6, <1>7, <1>8

LEMMA FdctlStepped ==
    /\ \A op \in FdctlOperations, class \in FdctlClasses :
          /\ X!Do(op, class) \in FdctlSteps /\ X!Do(op, class).k = "do"
          /\ X!Do(op, class).op = op /\ X!Do(op, class).class = class
    /\ \A op \in FdctlOperations \ {"safety.estop_clear"}, class \in FdctlClasses \ X!Irreversible :
          ~FdctlWeighty(X!Do(op, class))
    /\ \A class \in FdctlClasses :
          X!Ask(class) \in FdctlSteps /\ X!Ask(class).k = "ask" /\
              ~FdctlWeighty(X!Ask(class)) /\ X!Ask(class).op = None
    /\ X!HangUp \in FdctlSteps /\ ~FdctlWeighty(X!HangUp) /\ X!HangUp.k = "hang up"
    /\ X!HangUp.op = None
    /\ X!Hold \in FdctlSteps /\ ~FdctlWeighty(X!Hold) /\ X!Hold.k = "hold" /\ X!Hold.op = None
<1>1. None \in FdctlOperations /\ None \in FdctlClasses
  BY DEF FdctlOperations, FdctlClasses
<1> QED
  BY <1>1 DEF X!Do, X!Ask, X!HangUp, X!Hold, FdctlSteps, FdctlWeighty

LEMMA FdctlCommanded ==
    ASSUME NEW i \in X!Invocations
    PROVE  /\ i.cmd \in X!OneAction \cup
                {"status", "arm", "disarm", "estop", "estop clear", "call", "psu output on",
                 "psu output off", "flash program", "flash erase", "recipe run", "tools",
                 "events", "watch"}
           /\ i.cmd = "psu output on" => i.ttl \in Ttls
           /\ i.cmd = "arm" => i.classes \in ClassLists
<1>1. "arm" \notin X!OneAction /\ "psu output on" \notin X!OneAction
  BY DEF X!OneAction, X!System, X!Sessions, X!Can, X!Serial, X!Modbus, X!Bench, X!Recipes,
     X!Debug, X!Flash
<1> QED
  BY <1>1 DEF X!Invocations, X!Given

\* One request per class, behind a question when one of them is irreversible.
LEMMA FdctlArmed ==
    ASSUME X!Constants, NEW classes \in ClassLists
    PROVE  /\ X!ArmScript(classes) \in Seq(FdctlSteps) /\ FdctlGuarded(X!ArmScript(classes))
           /\ \A step \in FdctlIn(X!ArmScript(classes)) :
                 step.k # "hold" /\ step.op \in {None, "safety.arm"}
<1> DEFINE severe == {m \in DOMAIN classes : classes[m] \in X!Irreversible}
           first == CHOOSE m \in severe : \A l \in severe : m <= l
           question == IF severe = {} THEN <<>> ELSE <<X!Ask(classes[first])>>
           requests == [m \in DOMAIN classes |-> X!Do("safety.arm", classes[m])]
           Named == {"QUERY", "CONTROL", "POWER", "FLASH", "DESTRUCTIVE"}
<1>1. /\ classes \in Seq(Named) /\ Len(classes) \in Nat /\ DOMAIN classes = 1 .. Len(classes)
      /\ \A m \in DOMAIN classes : classes[m] \in Named
  BY LenProperties, ElementOfSeq DEF X!Constants
<1>2. Named \subseteq FdctlClasses /\ "safety.arm" \in FdctlOperations
  BY DEF FdctlClasses, FdctlOperations
<1> HIDE DEF Named
<1>3. /\ requests \in Seq(FdctlSteps) /\ DOMAIN requests = DOMAIN classes
      /\ \A m \in DOMAIN classes : requests[m] = X!Do("safety.arm", classes[m])
  <2>1. \A m \in 1 .. Len(classes) : X!Do("safety.arm", classes[m]) \in FdctlSteps
    BY <1>1, <1>2, FdctlStepped
  <2>2. requests \in [1 .. Len(classes) -> FdctlSteps]
    BY <2>1, <1>1
  <2> QED
    BY <2>2, <1>1, SeqDef
<1>4. \A step \in FdctlIn(requests) : step.k # "hold" /\ step.op = "safety.arm"
  <2>1. \A m \in DOMAIN classes : requests[m].k = "do" /\ requests[m].op = "safety.arm"
    BY <1>1, <1>2, <1>3, FdctlStepped
  <2> QED
    BY <2>1, <1>3 DEF FdctlIn
<1>5. /\ question \in Seq(FdctlSteps) /\ FdctlGuarded(question)
      /\ \A step \in FdctlIn(question) : step.k # "hold" /\ step.op = None
      /\ severe # {} => \E step \in FdctlIn(question) : step.k = "ask"
  <2>1. CASE severe = {}
    <3>1. question = <<>>
      BY <2>1
    <3> QED
      BY <3>1, <2>1, FdctlStepped, FdctlShort
  <2>2. CASE severe # {}
    <3>1. severe \subseteq Nat
      BY <1>1
    <3>2. first \in severe
      BY <2>2, <3>1, FdctlLeast
    <3>3. X!Ask(classes[first]) \in FdctlSteps /\ question = <<X!Ask(classes[first])>>
          /\ classes[first] \in FdctlClasses
      <4>1. classes[first] \in FdctlClasses
        BY <3>2, <1>1, <1>2
      <4> HIDE DEF first, severe
      <4> QED
        BY <2>2, <4>1, FdctlStepped
    <3>4. /\ X!Ask(classes[first]).k = "ask" /\ X!Ask(classes[first]).op = None
          /\ ~FdctlWeighty(X!Ask(classes[first]))
      BY <3>3, FdctlStepped
    <3> HIDE DEF question, first, severe
    <3>5. question \in Seq(FdctlSteps) /\ FdctlGuarded(question) /\
          FdctlIn(question) = {X!Ask(classes[first])}
      BY <3>3, <3>4, FdctlShort
    <3> QED
      BY <3>4, <3>5
  <2> QED
    BY <2>1, <2>2
<1>6. severe = {} => FdctlGuarded(requests)
  <2>1. ASSUME severe = {}, NEW m \in DOMAIN requests PROVE ~FdctlWeighty(requests[m])
    <3>1. classes[m] \in FdctlClasses \ X!Irreversible
      BY <2>1, <1>1, <1>2, <1>3
    <3>2. "safety.arm" \in FdctlOperations \ {"safety.estop_clear"}
      BY <1>2
    <3> QED
      BY <3>1, <3>2, <1>3, FdctlStepped
  <2> QED
    BY <2>1 DEF FdctlGuarded
<1>7. <<X!HangUp>> \in Seq(FdctlSteps) /\ FdctlIn(<<X!HangUp>>) = {X!HangUp} /\
      FdctlGuarded(<<X!HangUp>>)
  BY FdctlStepped, FdctlShort
<1> HIDE DEF question, requests
<1> DEFINE whole == question \o requests
<1>8. /\ whole \in Seq(FdctlSteps)
      /\ FdctlIn(whole) = FdctlIn(question) \cup FdctlIn(requests) /\ FdctlGuarded(whole)
  BY <1>3, <1>5, <1>6, FdctlJoined
<1> HIDE DEF whole
<1>9. /\ whole \o <<X!HangUp>> \in Seq(FdctlSteps)
      /\ FdctlIn(whole \o <<X!HangUp>>) = FdctlIn(whole) \cup {X!HangUp}
      /\ FdctlGuarded(whole \o <<X!HangUp>>)
  BY <1>7, <1>8, FdctlJoined
<1>10. X!ArmScript(classes) = whole \o <<X!HangUp>>
  BY DEF X!ArmScript, whole, question, requests
<1> QED
  BY <1>4, <1>5, <1>8, <1>9, <1>10, FdctlStepped

\* Scripts with no run and no hold.
FdctlLight(step) == step \in FdctlSteps /\ step.op # "recipe.run" /\ step.k # "hold"
FdctlFine(t) == t \in Seq(FdctlSteps) /\ FdctlGuarded(t) /\ \A step \in FdctlIn(t) :
    FdctlLight(step)

LEMMA FdctlFineScripts ==
    ASSUME NEW a, NEW b, NEW c, FdctlLight(a), FdctlLight(b), FdctlLight(c), ~FdctlWeighty(a)
    PROVE  /\ FdctlFine(<<>>) /\ FdctlFine(<<a>>)
           /\ a.k = "ask" \/ ~FdctlWeighty(b) => FdctlFine(<<a, b>>)
           /\ a.k = "ask" \/ (~FdctlWeighty(b) /\ ~FdctlWeighty(c)) => FdctlFine(<<a, b, c>>)
  BY FdctlShort DEF FdctlFine, FdctlLight

LEMMA FdctlFineJoined ==
    ASSUME NEW s, NEW t, FdctlFine(s), FdctlFine(t)
    PROVE  FdctlFine(s \o t)
  BY FdctlJoined DEF FdctlFine

LEMMA FdctlLightSteps ==
    ASSUME X!Constants
    PROVE  /\ FdctlLight(X!HangUp) /\ ~FdctlWeighty(X!HangUp)
           /\ \A word \in FdctlClasses :
                 FdctlLight(X!Ask(word)) /\ X!Ask(word).k = "ask" /\ ~FdctlWeighty(X!Ask(word))
           /\ \A op \in FdctlOperations \ {"recipe.run"}, class \in FdctlClasses :
                FdctlLight(X!Do(op, class))
           /\ \A op \in FdctlOperations \ {"safety.estop_clear", "recipe.run"} :
                ~FdctlWeighty(X!Do(op, None))
<1>1. None # "recipe.run" /\ None \in FdctlClasses
  BY DEF X!Constants, FdctlClasses
<1>2. None \in FdctlClasses \ X!Irreversible
  BY DEF X!Constants, FdctlClasses, X!Irreversible
<1>3. FdctlLight(X!HangUp) /\ ~FdctlWeighty(X!HangUp)
  BY <1>1, FdctlStepped DEF FdctlLight
<1>4. ASSUME NEW word \in FdctlClasses
      PROVE  FdctlLight(X!Ask(word)) /\ X!Ask(word).k = "ask" /\ ~FdctlWeighty(X!Ask(word))
  <2>1. X!Ask(word) \in FdctlSteps /\ X!Ask(word).op = None /\ X!Ask(word).k = "ask"
    BY FdctlStepped
  <2>2. ~FdctlWeighty(X!Ask(word))
    BY FdctlStepped
  <2> QED
    BY <1>1, <2>1, <2>2 DEF FdctlLight
<1>5. ASSUME NEW op \in FdctlOperations \ {"recipe.run"}, NEW class \in FdctlClasses
      PROVE  FdctlLight(X!Do(op, class))
  <2>1. X!Do(op, class) \in FdctlSteps
    BY FdctlStepped
  <2>2. X!Do(op, class).k = "do"
    BY FdctlStepped
  <2>3. X!Do(op, class).op = op
    BY FdctlStepped
  <2> QED
    BY <2>1, <2>2, <2>3 DEF FdctlLight
<1>6. ASSUME NEW op \in FdctlOperations \ {"safety.estop_clear", "recipe.run"}
      PROVE  ~FdctlWeighty(X!Do(op, None))
  <2>1. op \in FdctlOperations \ {"safety.estop_clear"}
    OBVIOUS
  <2> QED
    BY <1>2, <2>1, FdctlStepped
<1> QED
  BY <1>3, <1>4, <1>5, <1>6

LEMMA FdctlScripted ==
    ASSUME X!Constants, NEW i \in X!Invocations
    PROVE  /\ i.cmd # "psu output on" => FdctlFine(X!Script(i))
           /\ i.cmd = "psu output on" =>
                i.ttl \in Ttls /\ X!Script(i) = <<X!Do("psu.output", None), X!Hold, X!HangUp>>
<1> DEFINE Wanted(op, word, class) == FdctlFine(<<X!Ask(word), X!Do(op, class), X!HangUp>>)
           Plainly(op) == FdctlFine(<<X!Do(op, None), X!HangUp>>) /\ FdctlFine(<<X!Do(op, None)>>)
<1>1. /\ X!OneAction \cup {"system.status", "device.list", "device.status", "safety.disarm",
                          "safety.estop", "action.list", "psu.output", "recipe.validate",
                          "tools", "events.subscribe"}
            \subseteq FdctlOperations \ {"safety.estop_clear", "recipe.run"}
      /\ {"safety.estop_clear", "flash.program", "flash.erase"} \subseteq FdctlOperations \ {"recipe.run"}
      /\ {"CLEAR", "FLASH", "ERASE", "DESTRUCTIVE", None} \subseteq FdctlClasses
  BY DEF FdctlOperations, X!OneAction, X!System, X!Sessions, X!Can, X!Serial, X!Modbus,
     X!Bench, X!Recipes, X!Debug,
         X!Flash, FdctlClasses
<1>2. None \in FdctlClasses
  BY <1>1
<1>3. \A op \in FdctlOperations \ {"safety.estop_clear", "recipe.run"} : Plainly(op)
  BY <1>2, FdctlLightSteps, FdctlFineScripts
<1>4. \A op \in FdctlOperations \ {"recipe.run"}, word, class \in FdctlClasses :
      Wanted(op, word, class)
  BY FdctlLightSteps, FdctlFineScripts
<1>5. FdctlFine(<<>>)
  BY <1>2, FdctlLightSteps, FdctlFineScripts
<1>6. FdctlFine(X!Overview)
  BY <1>1, <1>2, FdctlLightSteps, FdctlFineScripts DEF X!Overview
<1> HIDE DEF Wanted, Plainly
<1>7. \A cmd \in {"status", "arm", "disarm", "estop", "estop clear", "call", "psu output on",
                  "psu output off", "flash program", "flash erase", "recipe run", "tools",
                  "events", "watch"} : cmd \notin X!OneAction
  BY DEF X!OneAction, X!System, X!Sessions, X!Can, X!Serial, X!Modbus, X!Bench, X!Recipes,
     X!Debug, X!Flash
<1>8. CASE i.cmd \in X!OneAction
  <2>1. X!Script(i) = <<X!Do(i.cmd, None), X!HangUp>> /\ i.cmd # "psu output on"
    BY <1>7, <1>8 DEF X!Script
  <2>2. i.cmd \in FdctlOperations \ {"safety.estop_clear", "recipe.run"}
    BY <1>1, <1>8
  <2> QED
    BY <1>3, <2>1, <2>2 DEF Plainly
<1>9. CASE i.cmd = "status"
  <2>1. X!Script(i) = X!Overview
    BY <1>7, <1>9 DEF X!Script
  <2> QED
    BY <2>1, <1>6, <1>9
<1>10. CASE i.cmd = "disarm"
  <2>1. X!Script(i) = <<X!Do("safety.disarm", None), X!HangUp>>
    BY <1>7, <1>10 DEF X!Script
  <2> QED
    BY <2>1, <1>1, <1>3, <1>10 DEF Plainly
<1>11. CASE i.cmd = "estop"
  <2>1. X!Script(i) = <<X!Do("safety.estop", None), X!HangUp>>
    BY <1>7, <1>11 DEF X!Script
  <2> QED
    BY <2>1, <1>1, <1>3, <1>11 DEF Plainly
<1>12. CASE i.cmd = "call"
  <2>1. X!Script(i) = <<X!Do("action.list", None), X!HangUp>>
    BY <1>7, <1>12 DEF X!Script
  <2> QED
    BY <2>1, <1>1, <1>3, <1>12 DEF Plainly
<1>13. CASE i.cmd = "psu output off"
  <2>1. X!Script(i) = <<X!Do("psu.output", None), X!HangUp>>
    BY <1>7, <1>13 DEF X!Script
  <2> QED
    BY <2>1, <1>1, <1>3, <1>13 DEF Plainly
<1>14. CASE i.cmd = "recipe run"
  <2>1. X!Script(i) = <<X!Do("recipe.validate", None), X!HangUp>>
    BY <1>7, <1>14 DEF X!Script
  <2> QED
    BY <2>1, <1>1, <1>3, <1>14 DEF Plainly
<1>15. CASE i.cmd = "events"
  <2>1. X!Script(i) = <<X!Do("events.subscribe", None)>>
    BY <1>7, <1>15 DEF X!Script
  <2> QED
    BY <2>1, <1>1, <1>3, <1>15 DEF Plainly
<1>16. CASE i.cmd = "watch"
  <2>1. X!Script(i) = <<X!Do("system.status", None)>>
    BY <1>7, <1>16 DEF X!Script
  <2> QED
    BY <2>1, <1>1, <1>3, <1>16 DEF Plainly
<1>17. CASE i.cmd = "estop clear"
  <2>1. X!Script(i) = <<X!Ask("CLEAR"), X!Do("safety.estop_clear", None), X!HangUp>>
    BY <1>7, <1>17 DEF X!Script
  <2> QED
    BY <2>1, <1>1, <1>4, <1>17 DEF Wanted
<1>18. CASE i.cmd = "flash program"
  <2>1. X!Script(i) = <<X!Ask("FLASH"), X!Do("flash.program", "FLASH"), X!HangUp>>
    BY <1>7, <1>18 DEF X!Script
  <2> QED
    BY <2>1, <1>1, <1>4, <1>18 DEF Wanted
<1>19. CASE i.cmd = "flash erase"
  <2>1. X!Script(i) = <<X!Ask("ERASE"), X!Do("flash.erase", "DESTRUCTIVE"), X!HangUp>>
    BY <1>7, <1>19 DEF X!Script
  <2> QED
    BY <2>1, <1>1, <1>4, <1>19 DEF Wanted
<1>20. CASE i.cmd = "tools"
  <2>1. X!Script(i) \in {<<>>, <<X!Do("tools", None), X!HangUp>>}
    BY <1>7, <1>20 DEF X!Script
  <2> QED
    BY <2>1, <1>1, <1>3, <1>5, <1>20 DEF Plainly
<1>21. CASE i.cmd = "arm"
  <2> DEFINE scope == IF i.source = "device" THEN <<X!Do("device.status", None),
      X!HangUp>> ELSE <<>>
  <2>1. X!Script(i) = scope \o X!ArmScript(i.classes)
    BY <1>7, <1>21 DEF X!Script
  <2>2. FdctlFine(X!ArmScript(i.classes))
    <3>1. i.classes \in ClassLists
      BY <1>21, FdctlCommanded
    <3>2. /\ X!ArmScript(i.classes) \in Seq(FdctlSteps) /\ FdctlGuarded(X!ArmScript(i.classes))
          /\ \A m \in DOMAIN X!ArmScript(i.classes) : X!ArmScript(i.classes)[m] \in FdctlSteps
      BY <3>1, FdctlArmed, ElementOfSeq, LenProperties
    <3>3. \A step \in FdctlIn(X!ArmScript(i.classes)) :
             step \in FdctlSteps /\ step.k # "hold" /\ step.op \in {None, "safety.arm"}
      BY <3>1, <3>2, FdctlArmed DEF FdctlIn
    <3>4. None # "recipe.run"
      BY DEF X!Constants
    <3> QED
      BY <3>2, <3>3, <3>4 DEF FdctlFine, FdctlLight
  <2>3. FdctlFine(scope)
    BY <1>1, <1>3, <1>5 DEF Plainly
  <2> HIDE DEF scope
  <2> QED
    BY <2>1, <2>2, <2>3, FdctlFineJoined, <1>21
<1>22. CASE i.cmd = "psu output on"
  <2>1. X!Script(i) = <<X!Do("psu.output", None), X!Hold, X!HangUp>>
    BY <1>7, <1>22 DEF X!Script
  <2> QED
    BY <2>1, <1>22, FdctlCommanded
<1> QED
  BY FdctlCommanded, <1>8, <1>9, <1>10, <1>11, <1>12, <1>13, <1>14, <1>15, <1>16, <1>17, <1>18,
     <1>19, <1>20, <1>21, <1>22

-----------------------------------------------------------------------------
(* What the actions have in common.                                        *)

LEMMA FdctlEmpty ==
    /\ <<>> \in Seq(FdctlSteps) /\ FdctlIn(<<>>) = {} /\ FdctlOpsOf(<<>>) = {} /\ FdctlGuarded(<<>>)
<1>1. DOMAIN <<>> = {} /\ <<>> \in Seq(FdctlSteps)
  OBVIOUS
<1> QED
  BY <1>1 DEF FdctlIn, FdctlOpsOf, FdctlGuarded

\* The steps of the one command that holds.
LEMMA FdctlRails ==
    /\ FdctlRail # <<>> /\ Head(FdctlRail).k = "do" /\ Tail(FdctlRail) = <<X!Hold, X!HangUp>>
    /\ FdctlRail # <<X!Hold, X!HangUp>>
    /\ <<X!Hold, X!HangUp>> # <<>> /\ Head(<<X!Hold, X!HangUp>>).k = "hold"
    /\ Tail(<<X!Hold, X!HangUp>>) = <<X!HangUp>> /\ <<X!HangUp>> # <<>> /\ FdctlRail # <<X!HangUp>>
    /\ Head(<<X!HangUp>>).k = "hang up" /\ Tail(<<X!HangUp>>) = <<>>
<1> DEFINE d == X!Do("psu.output", None)
<1>1. d.k = "do" /\ X!Hold.k = "hold" /\ X!HangUp.k = "hang up"
  BY DEF X!Do, X!Hold, X!HangUp
<1> HIDE DEF d
<1>2. FdctlRail = <<d, X!Hold, X!HangUp>>
  BY DEF FdctlRail, d
<1>3. /\ Len(<<d, X!Hold, X!HangUp>>) = 3 /\ Len(<<X!Hold, X!HangUp>>) = 2 /\ Len(<<X!HangUp>>) = 1
      /\ Len(<<>>) = 0
  OBVIOUS
<1>4. /\ Head(<<d, X!Hold, X!HangUp>>) = d /\ Head(<<X!Hold, X!HangUp>>) = X!Hold
      /\ Head(<<X!HangUp>>) = X!HangUp
  OBVIOUS
<1>5. Tail(<<d, X!Hold, X!HangUp>>) = <<X!Hold, X!HangUp>>
  OBVIOUS
<1>6. Tail(<<X!Hold, X!HangUp>>) = <<X!HangUp>>
  OBVIOUS
<1>7. Tail(<<X!HangUp>>) = <<>>
  OBVIOUS
<1>8. /\ <<d, X!Hold, X!HangUp>> # <<>> /\ <<X!Hold, X!HangUp>> # <<>> /\ <<X!HangUp>> # <<>>
      /\ <<d, X!Hold, X!HangUp>> # <<X!Hold, X!HangUp>> /\ <<d, X!Hold, X!HangUp>> # <<X!HangUp>>
  BY <1>3
<1> QED
  BY <1>1, <1>2, <1>4, <1>5, <1>6, <1>7, <1>8

LEMMA FdctlHeaded ==
    ASSUME FdctlTyped, NEW k, X!At(k)
    PROVE  /\ inv # None /\ exit = None /\ todo # <<>> /\ todo \in Seq(FdctlSteps)
           /\ Head(todo).k = k /\ Head(todo) \in FdctlSteps /\ Head(todo).op \in FdctlOperations
           /\ Head(todo).class \in FdctlClasses
<1>1. /\ inv # None /\ exit = None /\ todo # <<>> /\ Head(todo).k = k /\ todo \in Seq(FdctlSteps)
  BY DEF X!At, X!Running, FdctlTyped
<1>2. Head(todo) \in FdctlSteps
  BY <1>1, FdctlTailed
<1> QED
  BY <1>1, <1>2 DEF FdctlSteps

\* What wants a confirmation has one when its turn comes.
LEMMA FdctlConfirms ==
    ASSUME FdctlTyped, FdctlQuestioned, X!At("do"), FdctlWeighty(Head(todo))
    PROVE  FdctlAuthorized
<1>1. inv # None /\ todo # <<>> /\ todo \in Seq(FdctlSteps) /\ Head(todo).k = "do"
  BY FdctlHeaded
<1>2. ~FdctlGuarded(todo)
  BY <1>1, FdctlTailed
<1> QED
  BY <1>1, <1>2 DEF FdctlQuestioned

\* The end of a command with an error.
LEMMA FdctlFailing ==
    ASSUME FdctlTyped, FdctlSilent, X!Running, NEW code \in X!Errors \cup {X!Lost, "usage"},
           X!Fails(code)
    PROVE  /\ exit' = X!ExitCode(code) /\ exit' \in 1 .. 9 /\ todo' = <<>> /\ docs' \in Nat
           /\ exit' \in {3, 5, 7, 8} => code \in X!Errors
           /\ code = "usage" => exit' = 2
           /\ code = X!Lost => exit' = 9
           /\ inv.cmd \notin X!Streams => docs' = (IF inv.json THEN 1 ELSE 0)
           /\ conn' = (IF conn = "open" THEN "lost" ELSE conn)
<1>1. exit' = X!ExitCode(code) /\ todo' = <<>> /\ conn' = (IF conn = "open" THEN "lost" ELSE conn)
  BY DEF X!Fails, X!Closed
<1>2. /\ X!ExitCode(code) \in {1, 2, 3, 5, 7, 8, 9}
      /\ X!ExitCode(code) \in {3, 5, 7, 8} => code \in X!Errors
      /\ code = "usage" => X!ExitCode(code) = 2
      /\ code = X!Lost => X!ExitCode(code) = 9
  BY DEF X!ExitCode, X!Errors, X!Lost
<1>3. docs' = IF inv.json THEN docs + 1 ELSE docs
  BY DEF X!Fails, X!Printed
<1>4. docs' \in Nat
  BY <1>3 DEF FdctlTyped
<1>5. inv.cmd \notin X!Streams => docs = 0
  BY DEF X!Running, FdctlSilent
<1> QED
  BY <1>1, <1>2, <1>3, <1>4, <1>5

\* What follows an answer.
LEMMA FdctlFollowed ==
    ASSUME X!Constants, FdctlTyped, X!At("do"), NEW class \in FdctlClasses
    PROVE  LET step == Head(todo)
               next == X!Follows(step.op, class) IN
           /\ next \in Seq(FdctlSteps)
           /\ FdctlGuarded(todo) => FdctlGuarded(next)
           /\ next \in {todo, Tail(todo)} \/ \A s \in FdctlIn(next) : s.k # "hold"
           /\ \/ next \in {todo, Tail(todo)} /\ (step.op = "recipe.validate" =>
                inv.cmd # "recipe run")
              \/ /\ step.op = "action.list" /\ FdctlOpsOf(next) \subseteq {None, "called"}
              \/ /\ step.op = "recipe.validate" /\ FdctlOpsOf(next) \subseteq {None, "recipe.run"}
                 /\ \A s \in FdctlIn(next) : s.op = "recipe.run" => s.class = class
<1> DEFINE step == Head(todo)
           next == X!Follows(step.op, class)
           question == IF class \in X!Irreversible THEN <<X!Ask(class)>> ELSE <<>>
           Then(op) == <<X!HangUp>> \o question \o <<X!Do(op, class), X!HangUp>>
<1>1. todo # <<>> /\ todo \in Seq(FdctlSteps) /\ step.k = "do" /\ step \in FdctlSteps
  BY FdctlHeaded
<1>2. Tail(todo) \in Seq(FdctlSteps) /\ (FdctlGuarded(todo) => FdctlGuarded(Tail(todo)))
  BY <1>1, FdctlTailed
<1>3. ASSUME NEW op \in {"called", "recipe.run"}
      PROVE  /\ Then(op) \in Seq(FdctlSteps) /\ FdctlGuarded(Then(op))
             /\ FdctlIn(Then(op)) \subseteq {X!HangUp, X!Ask(class), X!Do(op, class)}
  <2>1. op \in FdctlOperations \ {"safety.estop_clear"}
    BY DEF FdctlOperations
  <2> DEFINE d == X!Do(op, class)
             a == X!Ask(class)
  <2>2. d \in FdctlSteps /\ (class \notin X!Irreversible => ~FdctlWeighty(d))
    <3>1. d \in FdctlSteps
      BY <2>1, FdctlStepped
    <3>2. ASSUME class \notin X!Irreversible PROVE ~FdctlWeighty(d)
      BY <2>1, <3>2, FdctlStepped
    <3> QED
      BY <3>1, <3>2
  <2>3. a \in FdctlSteps /\ a.k = "ask" /\ ~FdctlWeighty(a)
    BY FdctlStepped
  <2>4. X!HangUp \in FdctlSteps /\ ~FdctlWeighty(X!HangUp)
    BY FdctlStepped
  <2> HIDE DEF d, a
  <2>5. <<X!HangUp>> \in Seq(FdctlSteps) /\ FdctlIn(<<X!HangUp>>) = {X!HangUp} /\
        FdctlGuarded(<<X!HangUp>>)
    BY <2>4, FdctlShort
  <2>6. <<a>> \in Seq(FdctlSteps) /\ FdctlIn(<<a>>) = {a} /\ FdctlGuarded(<<a>>)
    BY <2>3, FdctlShort
  <2>7. <<d, X!HangUp>> \in Seq(FdctlSteps) /\ FdctlIn(<<d, X!HangUp>>) = {d, X!HangUp}
        /\ (class \notin X!Irreversible => FdctlGuarded(<<d, X!HangUp>>))
    BY <2>2, <2>4, FdctlShort
  <2> DEFINE q == IF class \in X!Irreversible THEN <<a>> ELSE <<>>
  <2>8. q \in Seq(FdctlSteps) /\ FdctlIn(q) \subseteq {a} /\ FdctlGuarded(q)
        /\ (class \in X!Irreversible => a \in FdctlIn(q))
    BY <2>6, FdctlEmpty
  <2> HIDE DEF q
  <2>9. /\ <<X!HangUp>> \o q \in Seq(FdctlSteps) /\ FdctlGuarded(<<X!HangUp>> \o q)
        /\ FdctlIn(<<X!HangUp>> \o q) = {X!HangUp} \cup FdctlIn(q)
    BY <2>5, <2>8, FdctlJoined
  <2> DEFINE front == <<X!HangUp>> \o q
  <2> HIDE DEF front
  <2>10. /\ front \o <<d, X!HangUp>> \in Seq(FdctlSteps) /\ FdctlGuarded(front \o <<d, X!HangUp>>)
         /\ FdctlIn(front \o <<d, X!HangUp>>) = FdctlIn(front) \cup {d, X!HangUp}
    <3>1. front \in Seq(FdctlSteps) /\ FdctlGuarded(front) /\
          FdctlIn(front) = {X!HangUp} \cup FdctlIn(q)
      BY <2>9 DEF front
    <3>2. class \in X!Irreversible => a \in FdctlIn(front) /\ a.k = "ask"
      BY <2>3, <2>8, <3>1
    <3> QED
      BY <2>7, <3>1, <3>2, FdctlJoined
  <2>11. FdctlIn(front \o <<d, X!HangUp>>) \subseteq {X!HangUp, a, d}
    BY <2>8, <2>9, <2>10 DEF front
  <2>12. Then(op) = front \o <<d, X!HangUp>>
    BY DEF front, q, d, a
  <2> QED
    BY <2>10, <2>11, <2>12 DEF d, a
<1>4. ASSUME NEW op \in {"called", "recipe.run"}
      PROVE  \A s \in FdctlIn(Then(op)) :
                s.k # "hold" /\ s.op \in {None, op} /\ (s.op = op /\ op # None => s.class = class)
  <2>1. op \in FdctlOperations
    BY DEF FdctlOperations
  <2>2. X!Do(op, class).k = "do" /\ X!Do(op, class).op = op /\ X!Do(op, class).class = class
    BY <2>1, FdctlStepped
  <2>3. /\ X!Ask(class).k = "ask" /\ X!Ask(class).op = None
        /\ X!HangUp.k = "hang up" /\ X!HangUp.op = None
    BY FdctlStepped
  <2>4. FdctlIn(Then(op)) \subseteq {X!HangUp, X!Ask(class), X!Do(op, class)}
    BY <1>3
  <2> HIDE DEF Then
  <2> QED
    BY <2>2, <2>3, <2>4
<1> HIDE DEF Then, question
<1>5. CASE inv.cmd = "call" /\ step.op = "action.list"
  <2>1. next = Then("called")
    BY <1>5 DEF X!Follows, Then, question
  <2>2. FdctlOpsOf(next) \subseteq {None, "called"}
    BY <2>1, <1>4 DEF FdctlOpsOf
  <2> QED
    BY <2>1, <2>2, <1>3, <1>4, <1>5
<1>6. CASE inv.cmd = "watch"
  <2>1. next = todo
    BY <1>6 DEF X!Follows, X!Polls
  <2> QED
    BY <2>1, <1>1, <1>6
<1>7. CASE inv.cmd = "recipe run" /\ step.op = "recipe.validate"
  <2>1. next = Then("recipe.run")
    BY <1>7 DEF X!Follows, X!Polls, Then, question
  <2>2. FdctlOpsOf(next) \subseteq {None, "recipe.run"}
    BY <2>1, <1>4 DEF FdctlOpsOf
  <2>3. \A s \in FdctlIn(next) : s.op = "recipe.run" => s.class = class
    BY <2>1, <1>4 DEF X!Constants
  <2> QED
    BY <2>1, <2>2, <2>3, <1>3, <1>4, <1>7
<1>8. CASE /\ ~(inv.cmd = "call" /\ step.op = "action.list") /\ inv.cmd # "watch"
           /\ ~(inv.cmd = "recipe run" /\ step.op = "recipe.validate")
  <2>1. next = Tail(todo)
    BY <1>8 DEF X!Follows, X!Polls
  <2> QED
    BY <2>1, <1>2, <1>8
<1> QED
  BY <1>5, <1>6, <1>7, <1>8

-----------------------------------------------------------------------------
(* The invariant is kept.                                                  *)

\* A command whose script is at its end.
LEMMA FdctlClosing ==
    ASSUME inv' = inv, inv # None, todo' = <<>>, FdctlHoldComes
    PROVE  FdctlFresh' /\ FdctlQuestioned' /\ FdctlPlanned' /\ FdctlHoldComes' /\ FdctlHoldKept'
<1>1. todo' \in Seq(FdctlSteps) /\ FdctlIn(todo') = {} /\ FdctlOpsOf(todo') = {} /\
      FdctlGuarded(todo')
  BY FdctlEmpty
<1>2. FdctlFresh'
  BY DEF FdctlFresh
<1>3. FdctlQuestioned'
  BY <1>1 DEF FdctlQuestioned
<1>4. FdctlPlanned'
  BY <1>1 DEF FdctlPlanned
<1>5. FdctlHoldComes'
  <2>1. todo' # FdctlRail
    BY FdctlRails
  <2> QED
    BY <2>1, <1>1 DEF FdctlHoldComes
<1>6. FdctlHoldKept'
  BY DEF FdctlHoldKept, X!At
<1> QED
  BY <1>2, <1>3, <1>4, <1>5, <1>6

\* Nothing is recorded.
LEMMA FdctlAsConfirmed ==
    ASSUME X!ConfirmedFirst, did' = did, inv' = inv, typed \subseteq typed', planShown' = planShown
    PROVE  X!ConfirmedFirst'
  BY DEF X!ConfirmedFirst

\* What is recorded has been confirmed.
LEMMA FdctlRecorded ==
    ASSUME X!Constants, FdctlIInv, X!At("do"), NEW class, NEW result, NEW told,
           \/ class = X!ClassOf(Head(todo))
           \/ Head(todo).op = "action.list",
           X!Asked(Head(todo).op, class, result, told),
           inv' = inv, typed' = typed,
           planShown' = planShown \/ Head(todo).op = "recipe.validate"
    PROVE  X!ConfirmedFirst'
<1> DEFINE step == Head(todo)
           new == [op |-> step.op, class |-> class, result |-> result, told |-> told]
<1>1. /\ todo # <<>> /\ todo \in Seq(FdctlSteps) /\ step \in FdctlIn(todo)
      /\ step.op \in FdctlOpsOf(todo)
      /\ step.k = "do"
  BY FdctlHeaded, FdctlTailed DEF FdctlIInv
<1>2. did' = did \cup {new}
  BY DEF X!Asked
<1>3. FdctlWeighty(step) => inv.yes \/ (inv.tty /\ typed # {})
  BY FdctlConfirms DEF FdctlIInv, FdctlAuthorized
<1>4. ASSUME NEW d \in did, d.op = "recipe.run" PROVE planShown' = planShown
  BY <1>1, <1>4 DEF FdctlIInv, FdctlPlanned
<1>5. ASSUME NEW d \in did,
             (d.class \in X!Irreversible \/ d.op = "safety.estop_clear")
                /\ d.op \notin {"recipe.validate", "action.list"}
      PROVE  inv'.yes \/ (inv'.tty /\ typed' # {}) \/ (d.op = "recipe.run" /\ planShown' # d.class)
  BY <1>4, <1>5 DEF FdctlIInv, X!ConfirmedFirst
<1>6. ASSUME (new.class \in X!Irreversible \/ new.op = "safety.estop_clear")
                /\ new.op \notin {"recipe.validate", "action.list"}
      PROVE  inv'.yes \/ (inv'.tty /\ typed' # {}) \/
             (new.op = "recipe.run" /\ planShown' # new.class)
  <2>1. new.op = step.op /\ new.class = class
    OBVIOUS
  <2> HIDE DEF new
  <2>2. CASE step.op = "recipe.run"
    <3>1. class = recipe /\ planShown' = planShown /\ step.class = planShown
      BY <1>1, <1>6, <2>1, <2>2 DEF X!ClassOf, FdctlIInv, FdctlPlanned
    <3>2. CASE planShown = class
      <4>1. FdctlWeighty(step)
        BY <1>1, <1>6, <2>1, <2>2, <3>1, <3>2 DEF FdctlWeighty
      <4> QED
        BY <4>1, <1>3
    <3> QED
      BY <3>1, <3>2, <2>1, <2>2
  <2>3. CASE step.op # "recipe.run"
    <3>1. class = step.class
      BY <1>6, <2>1, <2>3 DEF X!ClassOf
    <3>2. FdctlWeighty(step)
      BY <1>1, <1>6, <2>1, <3>1 DEF FdctlWeighty
    <3> QED
      BY <3>2, <1>3
  <2> QED
    BY <2>2, <2>3
<1> HIDE DEF new
<1> QED
  BY <1>2, <1>5, <1>6 DEF X!ConfirmedFirst

\* A command that goes on is at no end.
LEMMA FdctlGoesOn ==
    ASSUME X!Constants, exit' = None
    PROVE  X!ScriptsCanRely'
<1>1. None \notin Int
  BY DEF X!Constants
<1>2. 0 .. 11 \subseteq Int
  OBVIOUS
<1> QED
  BY <1>1, <1>2 DEF X!ScriptsCanRely, X!Ended

\* A command ends with an error of its own, or of the daemon that it was told of.
LEMMA FdctlRefused ==
    ASSUME X!Constants, FdctlIInv, X!Running, NEW code \in X!Errors \cup {X!Lost, "usage"},
           X!Fails(code),
           inv' = inv, now' = now, lag' = lag,
           leasedTill' \in {None, leasedTill} \/ (leasedTill' \in Nat /\ conn = "open"),
           \/ did' = did /\ code \in {"INTERNAL_ERROR", X!Lost, "usage"}
           \/ \E d : did' = did \cup {d} /\ d.result \notin X!Errors /\ code = X!Lost
           \/ \E d : did' = did \cup {d} /\ d.result = code /\ code \in X!Errors
    PROVE  /\ FdctlTyped' /\ FdctlFresh' /\ FdctlQuestioned' /\ FdctlPlanned' /\ FdctlSilent'
           /\ FdctlHoldComes' /\ FdctlHoldKept'
           /\ FdctlLeaseOnLine' /\ X!ScriptsCanRely'
<1>1. /\ exit' = X!ExitCode(code) /\ exit' \in 1 .. 9 /\ todo' = <<>> /\ docs' \in Nat
      /\ exit' \in {3, 5, 7, 8} => code \in X!Errors
      /\ inv.cmd \notin X!Streams => docs' = (IF inv.json THEN 1 ELSE 0)
      /\ conn' = (IF conn = "open" THEN "lost" ELSE conn)
  BY FdctlFailing DEF FdctlIInv
<1>2. inv # None /\ exit = None /\ None \notin Int
  BY DEF X!Running, X!Constants
<1>3. FdctlFresh' /\ FdctlQuestioned' /\ FdctlPlanned' /\ FdctlHoldComes' /\ FdctlHoldKept'
  BY <1>1, <1>2, FdctlClosing DEF FdctlIInv
<1>4. FdctlTyped'
  BY <1>1, FdctlEmpty DEF FdctlIInv, FdctlTyped
<1>5. exit' # None /\ exit' # 0
  BY <1>1, <1>2
<1>6. FdctlSilent'
  BY <1>5 DEF FdctlSilent
<1>7. FdctlLeaseOnLine'
  BY <1>1 DEF FdctlIInv, FdctlLeaseOnLine
<1>8. \A d \in did : d.result \notin X!Errors
  BY <1>2 DEF FdctlIInv, FdctlSilent
<1>9. /\ \A d \in did' : d.result \in X!Errors => d.result = code
      /\ code = "INTERNAL_ERROR" \/ code = X!Lost \/ code = "usage" \/ \E d \in did' :
           d.result \in X!Errors
  BY <1>8
<1>10. code \in {"INTERNAL_ERROR", X!Lost, "usage"} => X!ExitCode(code) \notin {3, 5, 7, 8}
  BY DEF X!ExitCode, X!Lost
<1>11. X!ScriptsCanRely'
  BY <1>1, <1>5, <1>9, <1>10 DEF X!ScriptsCanRely
<1> QED
  BY <1>3, <1>4, <1>6, <1>7, <1>11

LEMMA FdctlInvokeKeeps ==
    ASSUME X!Constants, FdctlIInv, NEW i \in X!Invocations, X!Invoke(i)
    PROVE  FdctlIInv'
<1>1. /\ inv = None /\ inv' = i /\ todo' = X!Script(i) /\ conn' = conn /\ typed' = typed
      /\ did' = did
      /\ docs' = docs /\ exit' = exit /\ recipe' = recipe /\ planShown' = planShown
      /\ leasedTill' = leasedTill /\ now' = now /\ wake' = wake /\ lag' = lag /\ holdEnd' = holdEnd
  BY DEF X!Invoke, X!clock
<1>2. /\ exit = None /\ did = {} /\ docs = 0 /\ conn = "none" /\ planShown = None
      /\ leasedTill = None /\ wake = None /\ now = 0 /\ lag = 0
  BY <1>1 DEF FdctlIInv, FdctlFresh
<1>3. /\ X!Script(i) \in Seq(FdctlSteps) /\ FdctlGuarded(X!Script(i))
      /\ \A step \in FdctlIn(X!Script(i)) : step.op # "recipe.run"
      /\ i.cmd # "psu output on" => \A step \in FdctlIn(X!Script(i)) : step.k # "hold"
      /\ i.cmd = "psu output on" => i.ttl \in Ttls /\ X!Script(i) = FdctlRail
  <2>1. CASE i.cmd = "psu output on"
    <3>1. i.ttl \in Ttls /\ X!Script(i) = FdctlRail
      BY <2>1, FdctlScripted DEF FdctlRail
    <3> DEFINE d == X!Do("psu.output", None)
    <3>2. d \in FdctlSteps /\ ~FdctlWeighty(d) /\ d.op # "recipe.run"
      <4>1. "psu.output" \in FdctlOperations \ {"safety.estop_clear", "recipe.run"} /\
            None \in FdctlClasses
        BY DEF FdctlOperations, FdctlClasses
      <4> QED
        BY <4>1, FdctlLightSteps DEF FdctlLight
    <3>3. /\ X!Hold \in FdctlSteps /\ ~FdctlWeighty(X!Hold) /\ X!Hold.op # "recipe.run"
          /\ X!HangUp \in FdctlSteps /\ ~FdctlWeighty(X!HangUp) /\ X!HangUp.op # "recipe.run"
      BY FdctlStepped DEF X!Constants
    <3> HIDE DEF d
    <3>4. /\ <<d, X!Hold, X!HangUp>> \in Seq(FdctlSteps) /\ FdctlGuarded(<<d, X!Hold, X!HangUp>>)
          /\ FdctlIn(<<d, X!Hold, X!HangUp>>) = {d, X!Hold, X!HangUp}
      BY <3>2, <3>3, FdctlShort
    <3>5. FdctlRail = <<d, X!Hold, X!HangUp>>
      BY DEF FdctlRail, d
    <3> QED
      BY <2>1, <3>1, <3>2, <3>3, <3>4, <3>5
  <2>2. CASE i.cmd # "psu output on"
    BY <2>2, FdctlScripted DEF FdctlFine, FdctlLight
  <2> QED
    BY <2>1, <2>2
<1>4. "recipe.run" \notin FdctlOpsOf(X!Script(i))
  BY <1>3 DEF FdctlOpsOf
<1>5. FdctlTyped'
  BY <1>1, <1>3 DEF FdctlIInv, FdctlTyped
<1>6. FdctlFresh'
  BY <1>1 DEF FdctlFresh, X!Constants
<1>7. FdctlQuestioned' /\ FdctlPlanned'
  BY <1>1, <1>2, <1>3, <1>4 DEF FdctlQuestioned, FdctlPlanned
<1>8. FdctlSilent'
  BY <1>1, <1>2 DEF FdctlSilent
<1>9. FdctlHoldComes'
  BY <1>1, <1>2, <1>3 DEF FdctlHoldComes
<1>10. FdctlHoldKept'
  <2>1. X!Script(i) # <<>> => Head(X!Script(i)).k # "hold"
    <3>1. X!Script(i) # <<>> => Head(X!Script(i)) \in FdctlIn(X!Script(i))
      BY <1>3, FdctlTailed
    <3> QED
      BY <3>1, <1>3, FdctlRails
  <2> QED
    BY <2>1, <1>1 DEF FdctlHoldKept, X!At
<1>11. FdctlLeaseOnLine' /\ X!ScriptsCanRely' /\ X!ConfirmedFirst'
  BY <1>1, <1>2, FdctlGoesOn DEF FdctlLeaseOnLine, X!ConfirmedFirst
<1> QED
  BY <1>5, <1>6, <1>7, <1>8, <1>9, <1>10, <1>11 DEF FdctlIInv

\* The steps at the head of a script that are not the hold.
LEMMA FdctlOnwards ==
    ASSUME FdctlIInv, X!Running, todo # <<>>, Head(todo).k \in {"ask", "hang up"},
           inv' = inv, todo' = Tail(todo), did' = did, planShown' = planShown,
           typed \subseteq typed',
           Head(todo).k = "ask" => FdctlAuthorized'
    PROVE  FdctlQuestioned' /\ FdctlPlanned' /\ FdctlHoldComes' /\ FdctlHoldKept' /\
           todo' \in Seq(FdctlSteps)
<1>1. /\ todo \in Seq(FdctlSteps) /\ todo' \in Seq(FdctlSteps)
      /\ FdctlIn(todo') \subseteq FdctlIn(todo)
      /\ FdctlOpsOf(todo') \subseteq FdctlOpsOf(todo) /\ inv # None
      /\ Head(todo).k # "ask" /\ FdctlGuarded(todo) => FdctlGuarded(todo')
      /\ todo' # <<>> => Head(todo') \in FdctlIn(todo')
  BY FdctlTailed DEF FdctlIInv, FdctlTyped, X!Running
<1>2. FdctlQuestioned'
  BY <1>1 DEF FdctlIInv, FdctlQuestioned, FdctlAuthorized
<1>3. FdctlPlanned'
  BY <1>1 DEF FdctlIInv, FdctlPlanned
<1>4. inv.cmd = "psu output on" => todo' = <<>> /\ inv.ttl \in Ttls
  BY <1>1, FdctlRails DEF FdctlIInv, FdctlHoldComes
<1>5. inv.cmd # "psu output on" => \A step \in FdctlIn(todo') : step.k # "hold"
  BY <1>1 DEF FdctlIInv, FdctlHoldComes
<1>6. FdctlHoldComes'
  BY <1>4, <1>5, FdctlRails DEF FdctlHoldComes
<1>7. FdctlHoldKept'
  BY <1>1, <1>4, <1>5 DEF FdctlHoldKept, X!At
<1> QED
  BY <1>1, <1>2, <1>3, <1>6, <1>7

LEMMA FdctlUsageErrorKeeps == ASSUME X!Constants, FdctlIInv, X!UsageError PROVE FdctlIInv'
<1>1. /\ X!Running /\ X!Fails("usage") /\ inv' = inv /\ did' = did /\ typed' = typed
      /\ planShown' = planShown /\ leasedTill' = leasedTill /\ now' = now /\ lag' = lag
  BY DEF X!UsageError, X!clock
<1>2. X!ConfirmedFirst'
  BY <1>1, FdctlAsConfirmed DEF FdctlIInv
<1> QED
  BY <1>1, <1>2, FdctlRefused DEF FdctlIInv

LEMMA FdctlConfirmKeeps == ASSUME X!Constants, FdctlIInv, NEW said, X!Confirm(said) PROVE FdctlIInv'
<1> DEFINE word == Head(todo).class
           right == inv.tty /\ said = word
<1>1. /\ X!At("ask") /\ X!Running /\ todo # <<>> /\ Head(todo).k = "ask" /\ inv # None
      /\ exit = None
      /\ inv' = inv /\ did' = did /\ planShown' = planShown /\ leasedTill' = leasedTill
      /\ now' = now /\ lag' = lag /\ wake' = wake
      /\ typed' = IF ~inv.yes /\ right THEN typed \cup {word} ELSE typed
  BY DEF X!Confirm, X!clock, X!At, X!Running
<1>2. typed \subseteq typed'
  BY <1>1
<1>3. X!ConfirmedFirst'
  BY <1>1, <1>2, FdctlAsConfirmed DEF FdctlIInv
<1>4. CASE inv.yes \/ right
  <2>1. todo' = Tail(todo) /\ conn' = conn /\ docs' = docs /\ exit' = exit
    BY <1>4 DEF X!Confirm
  <2>2. FdctlAuthorized'
    BY <1>1, <1>4 DEF FdctlAuthorized
  <2>3. FdctlQuestioned' /\ FdctlPlanned' /\ FdctlHoldComes' /\ FdctlHoldKept' /\
        todo' \in Seq(FdctlSteps)
    BY <1>1, <1>2, <2>1, <2>2, FdctlOnwards
  <2>4. FdctlTyped' /\ FdctlFresh' /\ FdctlSilent' /\ FdctlLeaseOnLine'
    BY <1>1, <2>1, <2>3 DEF FdctlIInv, FdctlTyped, FdctlFresh, FdctlSilent, FdctlLeaseOnLine,
       X!Local
  <2>5. X!ScriptsCanRely'
    BY <1>1, <2>1, FdctlGoesOn
  <2> QED
    BY <1>3, <2>3, <2>4, <2>5 DEF FdctlIInv
<1>5. CASE ~(inv.yes \/ right)
  <2>1. X!Fails("usage")
    BY <1>5 DEF X!Confirm
  <2> QED
    BY <1>1, <1>3, <2>1, FdctlRefused DEF FdctlIInv
<1> QED
  BY <1>4, <1>5

LEMMA FdctlHangsKeeps == ASSUME X!Constants, FdctlIInv, X!Hangs PROVE FdctlIInv'
<1>1. /\ X!Running /\ todo # <<>> /\ Head(todo).k = "hang up" /\ inv # None /\ exit = None
      /\ inv' = inv /\ did' = did /\ planShown' = planShown /\ leasedTill' = leasedTill
      /\ now' = now /\ lag' = lag /\ wake' = wake /\ typed' = typed /\ docs' = docs
      /\ exit' = exit /\ todo' = Tail(todo) /\ conn' = (IF conn = "open" THEN "lost" ELSE conn)
  BY DEF X!Hangs, X!clock, X!At, X!Running, X!Closed
<1>2. FdctlQuestioned' /\ FdctlPlanned' /\ FdctlHoldComes' /\ FdctlHoldKept' /\
      todo' \in Seq(FdctlSteps)
  BY <1>1, FdctlOnwards
<1>3. FdctlTyped' /\ FdctlFresh' /\ FdctlSilent' /\ FdctlLeaseOnLine'
  BY <1>1, <1>2 DEF FdctlIInv, FdctlTyped, FdctlFresh, FdctlSilent, FdctlLeaseOnLine, X!Local
<1>4. X!ScriptsCanRely' /\ X!ConfirmedFirst'
  BY <1>1, FdctlGoesOn, FdctlAsConfirmed DEF FdctlIInv
<1> QED
  BY <1>2, <1>3, <1>4 DEF FdctlIInv

\* The script of a command that goes on is as it was.
LEMMA FdctlWaiting ==
    ASSUME X!Constants, FdctlIInv, inv' = inv, todo' = todo, did' = did, planShown' = planShown,
           typed' = typed, exit' = exit
    PROVE  FdctlQuestioned' /\ FdctlPlanned' /\ X!ConfirmedFirst'
<1>1. FdctlQuestioned'
  BY DEF FdctlIInv, FdctlQuestioned, FdctlAuthorized
<1>2. FdctlPlanned'
  BY DEF FdctlIInv, FdctlPlanned
<1>3. X!ConfirmedFirst'
  BY FdctlAsConfirmed DEF FdctlIInv
<1> QED
  BY <1>1, <1>2, <1>3

LEMMA FdctlConnectKeeps ==
    ASSUME X!Constants, FdctlIInv, NEW reached \in BOOLEAN, X!Connect(reached)
    PROVE  FdctlIInv'
<1>1. /\ X!At("do") /\ X!Running /\ todo # <<>> /\ Head(todo).k = "do" /\ inv # None /\ exit = None
      /\ inv' = inv /\ did' = did /\ planShown' = planShown /\ leasedTill' = leasedTill
      /\ now' = now /\ lag' = lag /\ wake' = wake /\ typed' = typed /\ conn = "none"
  BY DEF X!Connect, X!clock, X!At, X!Running
<1>2. X!ConfirmedFirst'
  BY <1>1, FdctlAsConfirmed DEF FdctlIInv
<1>3. CASE reached
  <2>1. conn' = "open" /\ todo' = todo /\ docs' = docs /\ exit' = exit
    BY <1>3 DEF X!Connect
  <2>2. FdctlQuestioned' /\ FdctlPlanned'
    BY <1>1, <2>1, FdctlWaiting
  <2>3. FdctlHoldComes' /\ FdctlHoldKept'
    BY <1>1, <2>1 DEF FdctlIInv, FdctlHoldComes, FdctlHoldKept, X!At
  <2>4. FdctlTyped' /\ FdctlFresh' /\ FdctlSilent' /\ FdctlLeaseOnLine'
    BY <1>1, <2>1 DEF FdctlIInv, FdctlTyped, FdctlFresh, FdctlSilent, FdctlLeaseOnLine, X!Local
  <2>5. X!ScriptsCanRely'
    BY <1>1, <2>1, FdctlGoesOn
  <2> QED
    BY <1>2, <2>2, <2>3, <2>4, <2>5 DEF FdctlIInv
<1>4. CASE ~reached /\ X!Local
  <2>1. conn' = conn /\ todo' = <<>> /\ docs' = docs /\ exit' = exit
    BY <1>4 DEF X!Connect
  <2>2. FdctlFresh' /\ FdctlQuestioned' /\ FdctlPlanned' /\ FdctlHoldComes' /\ FdctlHoldKept'
    BY <1>1, <2>1, FdctlClosing DEF FdctlIInv
  <2>3. FdctlTyped' /\ FdctlSilent' /\ FdctlLeaseOnLine'
    BY <1>1, <2>1, FdctlEmpty DEF FdctlIInv, FdctlTyped, FdctlSilent, FdctlLeaseOnLine, X!Local
  <2>4. X!ScriptsCanRely'
    BY <1>1, <2>1, FdctlGoesOn
  <2> QED
    BY <1>2, <2>2, <2>3, <2>4 DEF FdctlIInv
<1>5. CASE ~reached /\ ~X!Local
  <2>1. X!Fails(X!Lost)
    BY <1>5 DEF X!Connect
  <2> QED
    BY <1>1, <1>2, <2>1, FdctlRefused DEF FdctlIInv
<1> QED
  BY <1>3, <1>4, <1>5

LEMMA FdctlNoAnswerKeeps ==
    ASSUME X!Constants, FdctlIInv, NEW acted \in BOOLEAN, X!NoAnswer(acted)
    PROVE  FdctlIInv'
<1> DEFINE step == Head(todo)
           result == IF acted THEN "ok" ELSE "dropped"
           new == [op |-> step.op, class |-> X!ClassOf(step), result |-> result, told |-> X!Lost]
<1>1. /\ X!At("do") /\ X!Running /\ inv # None /\ exit = None /\ conn = "open"
      /\ inv' = inv /\ planShown' = planShown /\ typed' = typed
      /\ now' = now /\ lag' = lag /\ wake' = wake
      /\ X!Asked(step.op, X!ClassOf(step), result, X!Lost)
      /\ leasedTill' = IF inv.cmd = "psu output on" /\ acted THEN now + inv.ttl ELSE leasedTill
  BY DEF X!NoAnswer, X!clock, X!At, X!Running
<1>2. X!ConfirmedFirst'
  BY <1>1, FdctlRecorded
<1>3. did' = did \cup {new} /\ new.result \notin X!Errors
  BY <1>1 DEF X!Asked, X!Errors
<1>4. leasedTill' \in {leasedTill} \cup Nat
  <2>1. CASE inv.cmd = "psu output on" /\ acted
    <3>1. inv.ttl \in Nat /\ now \in Nat
      BY <1>1, <2>1 DEF FdctlIInv, FdctlHoldComes, FdctlTyped, X!Constants
    <3>2. leasedTill' = now + inv.ttl
      BY <2>1, <1>1
    <3>3. leasedTill' \in Nat
      BY <3>1, <3>2
    <3> QED
      BY <3>3
  <2> QED
    BY <2>1, <1>1
<1> HIDE DEF new
<1>5. CASE X!Local
  <2>1. todo' = <<>> /\ conn' = "lost" /\ docs' = docs /\ exit' = exit
    BY <1>5 DEF X!NoAnswer
  <2>2. FdctlFresh' /\ FdctlQuestioned' /\ FdctlPlanned' /\ FdctlHoldComes' /\ FdctlHoldKept'
    BY <1>1, <2>1, FdctlClosing DEF FdctlIInv
  <2>3. FdctlTyped' /\ FdctlLeaseOnLine'
    BY <1>1, <1>4, <2>1, FdctlEmpty DEF FdctlIInv, FdctlTyped, FdctlLeaseOnLine
  <2>4. FdctlSilent'
    BY <1>1, <1>3, <1>5, <2>1 DEF FdctlIInv, FdctlSilent, X!Local
  <2>5. X!ScriptsCanRely'
    BY <1>1, <2>1, FdctlGoesOn
  <2> QED
    BY <1>2, <2>2, <2>3, <2>4, <2>5 DEF FdctlIInv
<1>6. CASE ~X!Local
  <2>1. X!Fails(X!Lost)
    BY <1>6 DEF X!NoAnswer
  <2> QED
    BY <1>1, <1>2, <1>3, <1>4, <2>1, FdctlRefused DEF FdctlIInv
<1> QED
  BY <1>5, <1>6

LEMMA FdctlGiveUpKeeps == ASSUME X!Constants, FdctlIInv, X!GiveUp PROVE FdctlIInv'
<1> DEFINE step == Head(todo)
           new == [op |-> step.op, class |-> step.class, result |-> "abandoned", told |-> X!Lost]
<1>1. /\ X!At("do") /\ X!Running /\ inv # None /\ conn = "open" /\ step.op \in X!Slow \ X!Patient
      /\ inv' = inv /\ planShown' = planShown /\ typed' = typed
      /\ now' = now /\ lag' = lag /\ leasedTill' = leasedTill
      /\ X!Asked(step.op, step.class, "abandoned", X!Lost) /\ X!Fails(X!Lost)
  BY DEF X!GiveUp, X!clock, X!At, X!Running
<1>2. X!ClassOf(step) = step.class
  <2>1. step.op \notin {"recipe.run", "recipe.validate"}
    BY <1>1 DEF X!Slow, X!Patient
  <2> QED
    BY <2>1 DEF X!ClassOf
<1>3. X!ConfirmedFirst'
  BY <1>1, <1>2, FdctlRecorded
<1>4. did' = did \cup {new} /\ new.result \notin X!Errors
  BY <1>1 DEF X!Asked, X!Errors
<1> HIDE DEF new
<1> QED
  BY <1>1, <1>3, <1>4, FdctlRefused DEF FdctlIInv

LEMMA FdctlAnswerKeeps ==
    ASSUME X!Constants, FdctlIInv, NEW class \in FdctlClasses,
           NEW outcome \in X!Errors \cup {"ok", "failed"},
           X!Answer(class, outcome)
    PROVE  FdctlIInv'
<1> DEFINE step == Head(todo)
           next == X!Follows(step.op, class)
           new == [op |-> step.op, class |-> class, result |-> outcome, told |-> outcome]
<1>1. /\ X!At("do") /\ X!Running /\ inv # None /\ exit = None /\ conn = "open"
      /\ inv' = inv /\ typed' = typed /\ recipe' = recipe
      /\ now' = now /\ lag' = lag /\ wake' = wake
      /\ X!Asked(step.op, class, outcome, outcome)
      /\ class = X!ClassOf(step) \/ step.op = "action.list"
  BY DEF X!Answer, X!At, X!Running
<1>2. did' = did \cup {new} /\ new.result = outcome /\ new.told = outcome /\ new.op = step.op
  BY <1>1 DEF X!Asked
<1> HIDE DEF new
<1>3. CASE outcome \in X!Errors
  <2>1. X!Fails(outcome) /\ planShown' = planShown /\ leasedTill' = leasedTill
    BY <1>3 DEF X!Answer
  <2>2. X!ConfirmedFirst'
    BY <1>1, <2>1, FdctlRecorded
  <2> QED
    BY <1>1, <1>2, <1>3, <2>1, <2>2, FdctlRefused DEF FdctlIInv
<1>4. CASE outcome \notin X!Errors
  <2>1. /\ todo' = next /\ conn' = conn /\ exit' = exit
        /\ planShown' = IF step.op = "recipe.validate" THEN class ELSE planShown
        /\ IF inv.cmd = "psu output on"
           THEN leasedTill' = now + inv.ttl /\ holdEnd' = now + HoldFor
           ELSE leasedTill' = leasedTill /\ holdEnd' = holdEnd
        /\ docs' \in Nat /\ (inv.cmd # "watch" => docs' = docs)
    <3>1. docs \in Nat
      BY DEF FdctlIInv, FdctlTyped
    <3>2. /\ todo' = next /\ conn' = conn /\ exit' = exit
          /\ planShown' = IF step.op = "recipe.validate" THEN class ELSE planShown
          /\ IF inv.cmd = "psu output on"
             THEN leasedTill' = now + inv.ttl /\ holdEnd' = now + HoldFor
             ELSE UNCHANGED <<leasedTill, holdEnd>>
          /\ IF X!Polls /\ docs < 2 THEN X!Printed ELSE docs' = docs
      BY <1>4 DEF X!Answer
    <3>3. docs' \in Nat /\ (inv.cmd # "watch" => docs' = docs)
      <4>1. docs' \in {docs, docs + 1} /\ (~X!Polls => docs' = docs)
        BY <3>2 DEF X!Printed
      <4> QED
        BY <3>1, <4>1 DEF X!Polls
    <3> QED
      BY <3>2, <3>3
  <2>2. X!ConfirmedFirst'
    BY <1>1, <2>1, FdctlRecorded
  <2>3. /\ todo # <<>> /\ todo \in Seq(FdctlSteps) /\ step \in FdctlIn(todo)
        /\ step.op \in FdctlOpsOf(todo)
        /\ step.k = "do" /\ Tail(todo) \in Seq(FdctlSteps)
        /\ FdctlIn(Tail(todo)) \subseteq FdctlIn(todo)
        /\ FdctlOpsOf(Tail(todo)) \subseteq FdctlOpsOf(todo)
    BY <1>1, FdctlHeaded, FdctlTailed DEF FdctlIInv
  <2>4. /\ next \in Seq(FdctlSteps)
        /\ FdctlGuarded(todo) => FdctlGuarded(next)
        /\ next \in {todo, Tail(todo)} \/ \A s \in FdctlIn(next) : s.k # "hold"
        /\ \/ next \in {todo, Tail(todo)} /\ (step.op = "recipe.validate" => inv.cmd # "recipe run")
           \/ step.op = "action.list" /\ FdctlOpsOf(next) \subseteq {None, "called"}
           \/ /\ step.op = "recipe.validate" /\ FdctlOpsOf(next) \subseteq {None, "recipe.run"}
              /\ \A s \in FdctlIn(next) : s.op = "recipe.run" => s.class = class
    BY <1>1, FdctlFollowed DEF FdctlIInv
  <2> HIDE DEF next
  <2>5. FdctlQuestioned'
    BY <1>1, <2>1, <2>4 DEF FdctlIInv, FdctlQuestioned, FdctlAuthorized
  <2>6. FdctlPlanned'
    <3>1. CASE /\ next \in {todo, Tail(todo)}
      <4>1. FdctlIn(todo') \subseteq FdctlIn(todo) /\ FdctlOpsOf(todo') \subseteq FdctlOpsOf(todo)
        BY <3>1, <2>1, <2>3
      <4>2. CASE step.op = "recipe.validate"
        <5>1. "recipe.run" \notin FdctlOpsOf(todo) /\ \A d \in did' : d.op # "recipe.run"
          BY <4>2, <2>3, <1>2 DEF FdctlIInv, FdctlPlanned
        <5>2. \A s \in FdctlIn(todo') : s.op # "recipe.run"
          BY <5>1, <4>1 DEF FdctlOpsOf
        <5> QED
          BY <5>1, <5>2, <4>1 DEF FdctlPlanned
      <4>3. CASE step.op # "recipe.validate"
        BY <4>1, <4>3, <1>2, <2>1, <2>3 DEF FdctlIInv, FdctlPlanned
      <4> QED
        BY <4>2, <4>3
    <3>2. CASE step.op = "action.list" /\ FdctlOpsOf(next) \subseteq {None, "called"}
      <4>1. "recipe.validate" \notin FdctlOpsOf(todo') /\ "recipe.run" \notin FdctlOpsOf(todo')
        BY <3>2, <2>1 DEF X!Constants
      <4>2. \A s \in FdctlIn(todo') : s.op # "recipe.run"
        BY <4>1 DEF FdctlOpsOf
      <4> QED
        BY <4>1, <4>2 DEF FdctlPlanned
    <3>3. CASE /\ step.op = "recipe.validate" /\ FdctlOpsOf(next) \subseteq {None, "recipe.run"}
               /\ \A s \in FdctlIn(next) : s.op = "recipe.run" => s.class = class
      <4>1. "recipe.validate" \notin FdctlOpsOf(todo')
        BY <3>3, <2>1 DEF X!Constants
      <4> QED
        BY <4>1, <3>3, <2>1 DEF FdctlPlanned
    <3> QED
      BY <2>4, <3>1, <3>2, <3>3
  <2>7. ASSUME inv.cmd = "psu output on" PROVE FdctlHoldComes' /\ FdctlHoldKept' /\
               FdctlLeaseOnLine'
    <3>1. todo = FdctlRail /\ inv.ttl \in Ttls /\ now = 0 /\ wake = None /\ lag = 0
      BY <1>1, <2>3, <2>7, FdctlRails DEF FdctlIInv, FdctlHoldComes
    <3>2. next = Tail(todo)
      BY <2>7 DEF X!Follows, X!Polls, next
    <3>3. todo' = <<X!Hold, X!HangUp>>
      BY <3>1, <3>2, <2>1, FdctlRails
    <3>4. HoldFor \in Nat /\ inv.ttl \in Nat
      BY <3>1 DEF X!Constants
    <3>5. leasedTill' = inv.ttl /\ holdEnd' \in Nat
      <4>1. leasedTill' = 0 + inv.ttl /\ holdEnd' = 0 + HoldFor
        BY <2>1, <2>7, <3>1
      <4> QED
        BY <4>1, <3>4
    <3>6. FdctlHoldComes' /\ FdctlHoldKept'
      BY <1>1, <2>1, <2>7, <3>1, <3>3, <3>5, FdctlRails DEF FdctlHoldComes, FdctlHoldKept
    <3>7. FdctlLeaseOnLine'
      BY <1>1, <2>1, <3>4, <3>5 DEF FdctlLeaseOnLine
    <3> QED
      BY <3>6, <3>7
  <2>8. ASSUME inv.cmd # "psu output on" PROVE FdctlHoldComes' /\ FdctlHoldKept' /\
               FdctlLeaseOnLine'
    <3>1. \A s \in FdctlIn(todo') : s.k # "hold"
      BY <1>1, <2>1, <2>3, <2>4, <2>8 DEF FdctlIInv, FdctlHoldComes
    <3>2. FdctlHoldComes'
      BY <1>1, <2>8, <3>1 DEF FdctlHoldComes
    <3>3. FdctlHoldKept'
      <4>1. todo' # <<>> => Head(todo') \in FdctlIn(todo')
        BY <2>1, <2>4, FdctlTailed
      <4> QED
        BY <3>1, <4>1 DEF FdctlHoldKept, X!At
    <3>4. FdctlLeaseOnLine'
      BY <1>1, <2>1, <2>8 DEF FdctlIInv, FdctlLeaseOnLine
    <3> QED
      BY <3>2, <3>3, <3>4
  <2>9. FdctlTyped' /\ FdctlFresh'
    BY <1>1, <2>1, <2>4 DEF FdctlIInv, FdctlTyped, FdctlFresh
  <2>10. FdctlSilent'
    BY <1>1, <1>2, <1>4, <2>1 DEF FdctlIInv, FdctlSilent, X!Local, X!Streams
  <2>11. X!ScriptsCanRely'
    BY <1>1, <2>1, FdctlGoesOn
  <2> QED
    BY <2>2, <2>5, <2>6, <2>7, <2>8, <2>9, <2>10, <2>11 DEF FdctlIInv
<1> QED
  BY <1>3, <1>4

LEMMA FdctlFinishKeeps == ASSUME X!Constants, FdctlIInv, X!Finish PROVE FdctlIInv'
<1>1. /\ X!Running /\ inv # None /\ exit = None /\ todo = <<>> /\ inv.cmd # "events"
      /\ inv' = inv /\ todo' = todo /\ did' = did /\ planShown' = planShown /\ typed' = typed
      /\ conn' = conn /\ leasedTill' = leasedTill /\ now' = now /\ lag' = lag /\ wake' = wake
      /\ docs' = IF inv.json THEN docs + 1 ELSE docs
      /\ exit' \in {0, 11}
  BY DEF X!Finish, X!clock, X!Running, X!Printed, X!ExitCode, X!Lost
<1>2. X!ConfirmedFirst'
  BY <1>1, FdctlAsConfirmed DEF FdctlIInv
<1>3. FdctlFresh' /\ FdctlQuestioned' /\ FdctlPlanned' /\ FdctlHoldComes' /\ FdctlHoldKept'
  BY <1>1, FdctlClosing DEF FdctlIInv
<1>4. exit' # None
  BY <1>1 DEF X!Constants
<1>5. FdctlTyped' /\ FdctlLeaseOnLine' /\ FdctlSilent'
  BY <1>1, <1>4 DEF FdctlIInv, FdctlTyped, FdctlLeaseOnLine, FdctlSilent
<1>6. X!ScriptsCanRely'
  <2>1. inv.cmd \notin X!Streams => docs' = (IF inv.json THEN 1 ELSE 0)
    BY <1>1 DEF FdctlIInv, FdctlSilent
  <2>2. /\ \A d \in did' : d.result \notin X!Errors
        /\ ~X!Local => \A d \in did' : d.told = d.result
    BY <1>1 DEF FdctlIInv, FdctlSilent
  <2>3. exit' \notin {3, 5, 7, 8}
    BY <1>1
  <2> QED
    BY <1>1, <2>1, <2>2, <2>3 DEF X!ScriptsCanRely, X!Local
<1> QED
  BY <1>2, <1>3, <1>5, <1>6 DEF FdctlIInv

LEMMA FdctlLocalFailsKeeps == ASSUME X!Constants, FdctlIInv, X!LocalFails PROVE FdctlIInv'
<1>1. /\ X!Running /\ X!Fails("INTERNAL_ERROR") /\ inv' = inv /\ did' = did /\ typed' = typed
      /\ planShown' = planShown /\ leasedTill' = leasedTill /\ now' = now /\ lag' = lag
  BY DEF X!LocalFails, X!clock
<1>2. "INTERNAL_ERROR" \in X!Errors
  BY DEF X!Errors
<1>3. X!ConfirmedFirst'
  BY <1>1, FdctlAsConfirmed DEF FdctlIInv
<1> QED
  BY <1>1, <1>2, <1>3, FdctlRefused DEF FdctlIInv

LEMMA FdctlHoldBrokenKeeps == ASSUME X!Constants, FdctlIInv, X!HoldBroken PROVE FdctlIInv'
<1>1. /\ X!Running /\ X!Fails(X!Lost) /\ inv' = inv /\ did' = did /\ typed' = typed
      /\ planShown' = planShown /\ leasedTill' = leasedTill /\ now' = now /\ lag' = lag
  BY DEF X!HoldBroken, X!clock, X!At
<1>2. X!ConfirmedFirst'
  BY <1>1, FdctlAsConfirmed DEF FdctlIInv
<1> QED
  BY <1>1, <1>2, FdctlRefused DEF FdctlIInv

LEMMA FdctlLives == ASSUME X!Constants PROVE Ttls \subseteq Nat \ {0} /\ Floor \in Nat \ {0}
  BY DEF X!Constants

\* What a hold knows, and where it is in the script.
LEMMA FdctlHolds ==
    ASSUME X!Constants, FdctlIInv, X!At("hold")
    PROVE  /\ inv # None /\ exit = None /\ inv.cmd = "psu output on" /\ todo = <<X!Hold, X!HangUp>>
           /\ inv.ttl \in Nat /\ inv.ttl > 0 /\ conn = "open" /\ holdEnd \in Nat
           /\ now \in Nat /\ lag \in Nat
           /\ X!Interval \in Nat /\ X!Interval > 0 /\ (inv.ttl >= 3 * Floor =>
                X!Interval = inv.ttl \div 3)
<1>1. inv # None /\ exit = None /\ todo # <<>> /\ Head(todo).k = "hold" /\ todo \in Seq(FdctlSteps)
  BY FdctlHeaded DEF FdctlIInv
<1>2. Head(todo) \in FdctlIn(todo)
  BY <1>1, FdctlTailed
<1>3. inv.cmd = "psu output on" /\ todo = <<X!Hold, X!HangUp>>
  BY <1>1, <1>2, FdctlRails DEF FdctlIInv, FdctlHoldComes
<1>4. inv.ttl \in Ttls /\ conn = "open" /\ holdEnd \in Nat
  BY DEF FdctlIInv, FdctlHoldKept
<1>5. inv.ttl \in Nat /\ inv.ttl > 0 /\ Floor \in Nat /\ Floor > 0
  BY <1>4, FdctlLives
<1>6. /\ X!Interval \in Nat /\ X!Interval > 0
      /\ inv.ttl >= 3 * Floor => X!Interval = inv.ttl \div 3
  <2>1. inv.ttl \div 3 \in Nat
    BY <1>5
  <2>2. inv.ttl >= 3 * Floor => inv.ttl \div 3 >= Floor
    BY <1>5
  <2>3. X!Interval = IF inv.ttl \div 3 > Floor THEN inv.ttl \div 3 ELSE Floor
    BY DEF X!Interval
  <2> HIDE DEF X!Interval
  <2> QED
    BY <1>5, <2>1, <2>2, <2>3
<1> QED
  BY <1>1, <1>3, <1>4, <1>5, <1>6 DEF FdctlIInv, FdctlTyped

\* A hold that goes on after a step.
LEMMA FdctlHoldGoesOn ==
    ASSUME X!Constants, FdctlIInv, X!At("hold"),
           inv' = inv, todo' = todo, did' = did, planShown' = planShown, typed' = typed,
           exit' = exit, docs' = docs, conn' = conn, holdEnd' = holdEnd,
           now' \in Nat, lag' \in Nat, leasedTill' \in Nat \cup {None}, FdctlHoldKept'
    PROVE  FdctlIInv'
<1>1. /\ inv # None /\ exit = None /\ inv.cmd = "psu output on" /\ todo = <<X!Hold, X!HangUp>>
      /\ conn = "open"
  BY FdctlHolds
<1>2. FdctlQuestioned' /\ FdctlPlanned' /\ X!ConfirmedFirst'
  BY FdctlWaiting
<1>3. FdctlHoldComes'
  BY <1>1, FdctlRails DEF FdctlIInv, FdctlHoldComes
<1>4. FdctlTyped' /\ FdctlFresh' /\ FdctlSilent' /\ FdctlLeaseOnLine'
  BY <1>1 DEF FdctlIInv, FdctlTyped, FdctlFresh, FdctlSilent, FdctlLeaseOnLine, X!Local
<1>5. X!ScriptsCanRely'
  BY <1>1, FdctlGoesOn
<1> QED
  BY <1>2, <1>3, <1>4, <1>5 DEF FdctlIInv

\* A hold that is over.
LEMMA FdctlHoldEnds ==
    ASSUME X!Constants, FdctlIInv, X!At("hold"), todo' = Tail(todo),
           inv' = inv, did' = did, planShown' = planShown, typed' = typed,
           exit' = exit, docs' = docs, conn' = conn, now' = now, lag' = lag,
           leasedTill' \in {leasedTill, None}
    PROVE  FdctlIInv'
<1>1. /\ inv # None /\ exit = None /\ inv.cmd = "psu output on" /\ todo = <<X!Hold, X!HangUp>>
      /\ conn = "open"
  BY FdctlHolds
<1>2. /\ todo \in Seq(FdctlSteps) /\ todo' \in Seq(FdctlSteps)
      /\ FdctlIn(todo') \subseteq FdctlIn(todo)
      /\ FdctlOpsOf(todo') \subseteq FdctlOpsOf(todo) /\ (FdctlGuarded(todo) => FdctlGuarded(todo'))
  BY <1>1, FdctlHeaded, FdctlTailed, FdctlRails DEF FdctlIInv, FdctlTyped
<1>3. FdctlQuestioned' /\ FdctlPlanned'
  BY <1>2 DEF FdctlIInv, FdctlQuestioned, FdctlAuthorized, FdctlPlanned
<1>4. todo' = <<X!HangUp>>
  BY <1>1, FdctlRails
<1>5. FdctlHoldComes' /\ FdctlHoldKept'
  BY <1>1, <1>4, FdctlRails DEF FdctlIInv, FdctlHoldComes, FdctlHoldKept, X!At
<1>6. FdctlTyped' /\ FdctlFresh' /\ FdctlSilent' /\ FdctlLeaseOnLine'
  BY <1>1, <1>2 DEF FdctlIInv, FdctlTyped, FdctlFresh, FdctlSilent, FdctlLeaseOnLine, X!Local
<1>7. X!ScriptsCanRely' /\ X!ConfirmedFirst'
  BY <1>1, FdctlGoesOn, FdctlAsConfirmed DEF FdctlIInv
<1> QED
  BY <1>3, <1>5, <1>6, <1>7 DEF FdctlIInv

\* A sleep ends after it begins, and no later than one interval after it.
LEMMA FdctlSleeping ==
    ASSUME X!Constants, FdctlIInv, X!At("hold"), now <= holdEnd, X!Sleeps
    PROVE  /\ wake' \in Int /\ wake' # None /\ now <= wake' /\ wake' <= now + X!Interval
           /\ now < holdEnd => now < wake'
<1>1. /\ holdEnd \in Nat /\ now \in Nat /\ X!Interval \in Nat /\ X!Interval > 0
  BY FdctlHolds
<1>2. wake' = now + (IF X!Interval < holdEnd - now THEN X!Interval ELSE holdEnd - now)
  BY DEF X!Sleeps, X!Lower
<1> HIDE DEF X!Interval
<1> QED
  BY <1>1, <1>2 DEF X!Constants

LEMMA FdctlBeginHoldKeeps == ASSUME X!Constants, FdctlIInv, X!BeginHold PROVE FdctlIInv'
<1>1. /\ X!At("hold") /\ wake = None
      /\ inv' = inv /\ did' = did /\ planShown' = planShown /\ typed' = typed /\ exit' = exit
      /\ docs' = docs /\ conn' = conn /\ now' = now /\ lag' = lag /\ leasedTill' = leasedTill
      /\ holdEnd' = holdEnd
  BY DEF X!BeginHold
<1>2. CASE inv.hold
  <2>1. X!Sleeps /\ todo' = todo
    BY <1>2 DEF X!BeginHold
  <2>2. now = 0 /\ lag = 0 /\ leasedTill = inv.ttl /\ inv.ttl \in Ttls /\ conn = "open" /\
        holdEnd \in Nat
    BY <1>1 DEF FdctlIInv, FdctlHoldKept
  <2>3. wake' \in Int /\ wake' # None /\ now <= wake' /\ wake' <= now + X!Interval
    BY <1>1, <2>1, <2>2, FdctlSleeping
  <2>4. inv.ttl \in Nat /\ X!Interval \in Nat
    BY <1>1, FdctlHolds
  <2>5. X!Interval' = X!Interval
    BY <1>1 DEF X!Interval
  <2>6. leasedTill' # None /\ leasedTill' = inv.ttl
    BY <1>1, <2>2, <2>4 DEF X!Constants
  <2>7. ~(now' > wake') /\ wake' <= leasedTill' - inv.ttl + X!Interval
    <3> HIDE DEF X!Interval
    <3> QED
      BY <1>1, <2>2, <2>3, <2>4, <2>6
  <2>8. FdctlHoldKept'
    BY <1>1, <2>2, <2>3, <2>4, <2>5, <2>6, <2>7 DEF FdctlHoldKept
  <2> QED
    BY <1>1, <2>1, <2>2, <2>4, <2>8, FdctlHoldGoesOn
<1>3. CASE ~inv.hold
  <2>1. todo' = Tail(todo)
    BY <1>3 DEF X!BeginHold
  <2> QED
    BY <1>1, <2>1, FdctlHoldEnds
<1> QED
  BY <1>2, <1>3

LEMMA FdctlWakeUpKeeps == ASSUME X!Constants, FdctlIInv, X!WakeUp PROVE FdctlIInv'
<1>1. /\ X!At("hold") /\ wake # None /\ now >= wake /\ X!Running
      /\ inv' = inv /\ did' = did /\ planShown' = planShown /\ typed' = typed
      /\ now' = now /\ lag' = lag /\ holdEnd' = holdEnd
  BY DEF X!WakeUp, X!At
<1>2. CASE now >= holdEnd
  <2>1. leasedTill' = None /\ todo' = Tail(todo) /\ conn' = conn /\ docs' = docs /\ exit' = exit
    BY <1>2 DEF X!WakeUp, X!LetGo
  <2> QED
    BY <1>1, <2>1, FdctlHoldEnds
<1>3. CASE ~(now >= holdEnd) /\ leasedTill = None
  <2>1. X!Fails("INTERNAL_ERROR") /\ leasedTill' = leasedTill
    BY <1>3 DEF X!WakeUp
  <2>2. "INTERNAL_ERROR" \in X!Errors
    BY DEF X!Errors
  <2>3. X!ConfirmedFirst'
    BY <1>1, FdctlAsConfirmed DEF FdctlIInv
  <2> QED
    BY <1>1, <2>1, <2>2, <2>3, FdctlRefused DEF FdctlIInv
<1>4. CASE ~(now >= holdEnd) /\ leasedTill # None
  <2>1. /\ leasedTill' = now + inv.ttl /\ X!Sleeps /\ todo' = todo /\ conn' = conn /\ docs' = docs
        /\ exit' = exit
    BY <1>4 DEF X!WakeUp
  <2>2. inv.ttl \in Nat /\ X!Interval \in Nat /\ now \in Nat /\ holdEnd \in Nat /\ lag \in Nat
    BY <1>1, FdctlHolds
  <2>3. now < holdEnd
    BY <1>4, <2>2
  <2>4. wake' \in Int /\ wake' # None /\ now < wake' /\ wake' <= now + X!Interval
    BY <1>1, <2>1, <2>2, <2>3, FdctlSleeping
  <2>5. leasedTill' \in Nat /\ leasedTill' # None
    BY <2>1, <2>2 DEF X!Constants
  <2>6. X!Interval' = X!Interval
    BY <1>1 DEF X!Interval
  <2>7. ~(now' > wake') /\ wake' <= leasedTill' - inv.ttl + X!Interval
    <3> HIDE DEF X!Interval
    <3> QED
      BY <1>1, <2>1, <2>2, <2>4
  <2>8. FdctlHoldKept'
    BY <1>1, <2>1, <2>4, <2>5, <2>6, <2>7 DEF FdctlIInv, FdctlHoldKept
  <2> QED
    BY <1>1, <2>1, <2>2, <2>5, <2>8, FdctlHoldGoesOn
<1> QED
  BY <1>2, <1>3, <1>4

LEMMA FdctlTickKeeps == ASSUME X!Constants, FdctlIInv, X!Tick PROVE FdctlIInv'
<1>1. /\ X!At("hold") /\ wake # None
      /\ inv' = inv /\ did' = did /\ planShown' = planShown /\ typed' = typed /\ todo' = todo
      /\ conn' = conn /\ docs' = docs /\ exit' = exit /\ wake' = wake /\ holdEnd' = holdEnd
      /\ leasedTill' = leasedTill
      /\ now' = now + 1 /\ lag' = IF now + 1 - wake > lag THEN now + 1 - wake ELSE lag
  BY DEF X!Tick
<1>2. inv.ttl \in Nat /\ now \in Nat /\ lag \in Nat
  BY <1>1, FdctlHolds
<1>3. /\ wake \in Int /\ (now > wake => lag >= now - wake)
      /\ leasedTill # None => leasedTill \in Nat /\ wake <= leasedTill - inv.ttl + X!Interval
      /\ leasedTill = None /\ inv.ttl >= 3 * Floor => lag >= inv.ttl - inv.ttl \div 3
      /\ inv.ttl \in Ttls /\ conn = "open" /\ holdEnd \in Nat
  BY <1>1 DEF FdctlIInv, FdctlHoldKept
<1>4. now' \in Nat /\ lag' \in Nat /\ lag' >= lag /\ (now' > wake' => lag' >= now' - wake')
  BY <1>1, <1>2, <1>3
<1>5. X!Interval' = X!Interval
  BY <1>1 DEF X!Interval
<1>6. leasedTill' = None /\ inv.ttl >= 3 * Floor => lag' >= inv.ttl - inv.ttl \div 3
  BY <1>1, <1>2, <1>3, <1>4 DEF X!Constants
<1>7. FdctlHoldKept'
  BY <1>1, <1>3, <1>4, <1>5, <1>6 DEF FdctlHoldKept
<1>8. leasedTill' \in Nat \cup {None}
  BY <1>1, <1>3
<1> QED
  BY <1>1, <1>4, <1>7, <1>8, FdctlHoldGoesOn

LEMMA FdctlSweepKeeps == ASSUME X!Constants, FdctlIInv, X!Sweep PROVE FdctlIInv'
<1>1. /\ leasedTill # None /\ now >= leasedTill /\ leasedTill' = None
      /\ inv' = inv /\ did' = did /\ planShown' = planShown /\ typed' = typed /\ todo' = todo
      /\ conn' = conn /\ docs' = docs /\ exit' = exit /\ wake' = wake /\ holdEnd' = holdEnd
      /\ now' = now /\ lag' = lag
  BY DEF X!Sweep, X!clock
<1>2. inv # None /\ leasedTill \in Nat
  BY <1>1 DEF FdctlIInv, FdctlFresh, FdctlLeaseOnLine
<1>3. FdctlQuestioned' /\ FdctlPlanned' /\ X!ConfirmedFirst'
  BY <1>1, FdctlWaiting
<1>4. FdctlTyped' /\ FdctlFresh' /\ FdctlSilent' /\ FdctlHoldComes' /\ FdctlLeaseOnLine'
  BY <1>1, <1>2 DEF FdctlIInv, FdctlTyped, FdctlFresh, FdctlSilent, X!Local, FdctlHoldComes,
     FdctlLeaseOnLine
<1>5. X!ScriptsCanRely'
  BY <1>1 DEF FdctlIInv, X!ScriptsCanRely, X!Ended, X!Local
<1>6. FdctlHoldKept'
  <2>1. X!At("hold")' = X!At("hold")
    BY <1>1 DEF X!At, X!Running
  <2>2. ASSUME X!At("hold") PROVE FdctlHoldKept'
    <3>1. /\ inv.ttl \in Nat /\ inv.ttl > 0 /\ now \in Nat /\ lag \in Nat
          /\ X!Interval \in Nat /\ (inv.ttl >= 3 * Floor => X!Interval = inv.ttl \div 3)
      BY <2>2, FdctlHolds
    <3>2. /\ inv.ttl \in Ttls /\ conn = "open" /\ holdEnd \in Nat
          /\ wake = None => now = 0 /\ lag = 0 /\ leasedTill = inv.ttl
          /\ wake # None =>
                /\ wake \in Int /\ (now > wake => lag >= now - wake)
                /\ wake <= leasedTill - inv.ttl + X!Interval
      BY <1>1, <2>2 DEF FdctlIInv, FdctlHoldKept
    <3>3. wake # None
      BY <1>1, <3>1, <3>2
    <3>4. wake \in Int /\ (now > wake =>
          lag >= now - wake) /\ wake <= leasedTill - inv.ttl + X!Interval
      BY <3>2, <3>3
    <3>5. ASSUME inv.ttl >= 3 * Floor PROVE lag >= inv.ttl - inv.ttl \div 3
      <4>1. X!Interval = inv.ttl \div 3
        BY <3>1, <3>5
      <4>2. X!Interval < inv.ttl
        BY <4>1, <3>1
      <4> HIDE DEF X!Interval
      <4>3. now - wake >= inv.ttl - X!Interval
        BY <1>1, <1>2, <3>1, <3>4
      <4>4. now > wake
        BY <4>2, <4>3, <3>1, <3>4
      <4>5. lag >= now - wake
        BY <3>4, <4>4
      <4> QED
        BY <4>1, <4>3, <4>5, <3>1, <3>4
    <3> QED
      BY <1>1, <3>2, <3>3, <3>4, <3>5 DEF FdctlHoldKept
  <2> QED
    BY <2>1, <2>2 DEF FdctlHoldKept
<1> QED
  BY <1>3, <1>4, <1>5, <1>6 DEF FdctlIInv

LEMMA FdctlNoticeKeeps == ASSUME X!Constants, FdctlIInv, X!Notice PROVE FdctlIInv'
<1>1. /\ conn = "lost" /\ conn' = "none" /\ leasedTill' = None
      /\ inv' = inv /\ did' = did /\ planShown' = planShown /\ typed' = typed /\ todo' = todo
      /\ docs' = docs /\ exit' = exit /\ wake' = wake /\ holdEnd' = holdEnd
      /\ now' = now /\ lag' = lag
  BY DEF X!Notice, X!clock
<1>2. FdctlQuestioned' /\ FdctlPlanned' /\ X!ConfirmedFirst'
  BY <1>1, FdctlWaiting
<1>3. FdctlTyped' /\ FdctlFresh' /\ FdctlSilent' /\ FdctlHoldComes' /\ FdctlLeaseOnLine'
  BY <1>1 DEF FdctlIInv, FdctlTyped, FdctlFresh, FdctlSilent, X!Local, FdctlHoldComes,
     FdctlLeaseOnLine
<1>4. X!ScriptsCanRely'
  BY <1>1 DEF FdctlIInv, X!ScriptsCanRely, X!Ended, X!Local
<1>5. FdctlHoldKept'
  BY <1>1 DEF FdctlIInv, FdctlHoldKept, X!At, X!Running
<1> QED
  BY <1>2, <1>3, <1>4, <1>5 DEF FdctlIInv

LEMMA FdctlEditKeeps == ASSUME X!Constants, FdctlIInv, NEW class, X!Edit(class) PROVE FdctlIInv'
<1>1. /\ inv # None /\ exit = None
      /\ inv' = inv /\ did' = did /\ planShown' = planShown /\ typed' = typed /\ todo' = todo
      /\ docs' = docs /\ exit' = exit /\ conn' = conn /\ leasedTill' = leasedTill
      /\ wake' = wake /\ holdEnd' = holdEnd /\ now' = now /\ lag' = lag
  BY DEF X!Edit, X!clock, X!Running
<1>2. FdctlQuestioned' /\ FdctlPlanned' /\ X!ConfirmedFirst'
  BY <1>1, FdctlWaiting
<1>3. FdctlTyped' /\ FdctlFresh' /\ FdctlSilent' /\ FdctlHoldComes' /\ FdctlLeaseOnLine'
  BY <1>1 DEF FdctlIInv, FdctlTyped, FdctlFresh, FdctlSilent, X!Local, FdctlHoldComes,
     FdctlLeaseOnLine
<1>4. X!ScriptsCanRely' /\ FdctlHoldKept'
  BY <1>1, FdctlGoesOn DEF FdctlIInv, FdctlHoldKept, X!At, X!Running, X!Interval
<1> QED
  BY <1>2, <1>3, <1>4 DEF FdctlIInv

LEMMA FdctlEventKeeps == ASSUME X!Constants, FdctlIInv, X!Event PROVE FdctlIInv'
<1>1. /\ inv # None /\ exit = None /\ inv.cmd = "events" /\ todo = <<>>
      /\ inv' = inv /\ did' = did /\ planShown' = planShown /\ typed' = typed /\ todo' = todo
      /\ exit' = exit /\ conn' = conn /\ leasedTill' = leasedTill
      /\ wake' = wake /\ holdEnd' = holdEnd /\ now' = now /\ lag' = lag
      /\ docs' = IF inv.json THEN docs + 1 ELSE docs
  BY DEF X!Event, X!clock, X!Running, X!Printed
<1>2. FdctlQuestioned' /\ FdctlPlanned' /\ X!ConfirmedFirst'
  BY <1>1, FdctlWaiting
<1>3. FdctlTyped' /\ FdctlFresh' /\ FdctlHoldComes' /\ FdctlLeaseOnLine'
  <2>1. docs \in Nat
    BY DEF FdctlIInv, FdctlTyped
  <2>2. docs' \in Nat
    BY <1>1, <2>1
  <2>3. FdctlTyped'
    BY <1>1, <2>2 DEF FdctlIInv, FdctlTyped
  <2> QED
    BY <1>1, <2>3 DEF FdctlIInv, FdctlFresh, FdctlHoldComes, FdctlLeaseOnLine
<1>4. FdctlSilent'
  BY <1>1 DEF FdctlIInv, FdctlSilent, X!Local, X!Streams
<1>5. X!ScriptsCanRely' /\ FdctlHoldKept'
  BY <1>1, FdctlGoesOn DEF FdctlHoldKept, X!At
<1> QED
  BY <1>2, <1>3, <1>4, <1>5 DEF FdctlIInv

\* The command ends without a word of its own.
LEMMA FdctlStopped ==
    ASSUME X!Constants, FdctlIInv, X!Running, exit' \in Int, todo' = <<>>,
           exit' \in {X!Aborted, X!Died} \/ (inv.cmd \in X!Streams /\ exit' = 0),
           conn' = X!Closed, inv' = inv, did' = did, planShown' = planShown, typed' = typed,
           docs' = docs, leasedTill' = leasedTill, now' = now, lag' = lag
    PROVE  FdctlIInv'
<1>1. inv # None /\ exit = None /\ exit' # None
  BY DEF X!Running, X!Constants
<1>2. FdctlFresh' /\ FdctlQuestioned' /\ FdctlPlanned' /\ FdctlHoldComes' /\ FdctlHoldKept'
  BY <1>1, FdctlClosing DEF FdctlIInv
<1>3. FdctlTyped' /\ FdctlSilent' /\ FdctlLeaseOnLine'
  BY <1>1, FdctlEmpty DEF FdctlIInv, FdctlTyped, FdctlSilent, FdctlLeaseOnLine, X!Closed
<1>4. X!ConfirmedFirst'
  BY FdctlAsConfirmed DEF FdctlIInv
<1>5. X!ScriptsCanRely'
  <2>1. CASE exit' \in {X!Aborted, X!Died}
    BY <2>1 DEF X!ScriptsCanRely, X!Ended, X!Aborted, X!Died
  <2>2. CASE inv.cmd \in X!Streams /\ exit' = 0
    <3>1. /\ \A d \in did' : d.result \notin X!Errors
          /\ ~X!Local => \A d \in did' : d.told = d.result
      BY <1>1 DEF FdctlIInv, FdctlSilent
    <3> QED
      BY <2>2, <3>1 DEF X!ScriptsCanRely, X!Local
  <2> QED
    BY <2>1, <2>2
<1> QED
  BY <1>2, <1>3, <1>4, <1>5 DEF FdctlIInv

LEMMA FdctlKilledKeeps == ASSUME X!Constants, FdctlIInv, X!Killed PROVE FdctlIInv'
<1>1. /\ X!Running /\ exit' = X!Died /\ todo' = <<>> /\ conn' = X!Closed
      /\ inv' = inv /\ did' = did /\ planShown' = planShown /\ typed' = typed
      /\ docs' = docs /\ leasedTill' = leasedTill /\ now' = now /\ lag' = lag
  BY DEF X!Killed, X!clock
<1>2. exit' \in Int
  BY <1>1 DEF X!Died
<1> QED
  BY <1>1, <1>2, FdctlStopped

LEMMA FdctlInterruptKeeps == ASSUME X!Constants, FdctlIInv, X!Interrupt PROVE FdctlIInv'
<1>1. /\ X!Running /\ inv' = inv /\ did' = did /\ planShown' = planShown /\ typed' = typed
      /\ docs' = docs /\ now' = now /\ lag' = lag
  BY DEF X!Interrupt, X!clock
<1>2. CASE X!At("hold") /\ wake # None
  <2>1. leasedTill' = None /\ todo' = Tail(todo) /\ conn' = conn /\ exit' = exit
    BY <1>2 DEF X!Interrupt, X!LetGo
  <2> QED
    BY <1>1, <1>2, <2>1, FdctlHoldEnds
<1>3. CASE ~(X!At("hold") /\ wake # None)
  <2>1. /\ exit' = (IF inv.cmd \in {"events", "watch"} THEN 0 ELSE X!Aborted)
        /\ todo' = <<>> /\ conn' = X!Closed /\ leasedTill' = leasedTill
    BY <1>3 DEF X!Interrupt
  <2>2. exit' \in Int
    BY <2>1 DEF X!Aborted
  <2>3. exit' \in {X!Aborted, X!Died} \/ (inv.cmd \in X!Streams /\ exit' = 0)
    BY <2>1 DEF X!Streams
  <2> QED
    BY <1>1, <2>1, <2>2, <2>3, FdctlStopped
<1> QED
  BY <1>2, <1>3

-----------------------------------------------------------------------------
(* The invariant holds of every behaviour, and implies the properties.     *)

LEMMA FdctlInitIInv == ASSUME X!Constants, X!Init PROVE FdctlIInv
<1>1. FdctlTyped /\ FdctlFresh /\ FdctlLeaseOnLine
  BY FdctlEmpty DEF X!Init, FdctlTyped, FdctlFresh, FdctlLeaseOnLine
<1>2. FdctlQuestioned /\ FdctlPlanned /\ FdctlSilent /\ FdctlHoldComes /\ FdctlHoldKept
  BY FdctlEmpty DEF X!Init, FdctlQuestioned, FdctlPlanned, FdctlSilent, FdctlHoldComes,
     FdctlHoldKept, X!At, X!Running
<1>3. X!ScriptsCanRely /\ X!ConfirmedFirst
  BY DEF X!Init, X!Constants, X!ScriptsCanRely, X!Ended, X!ConfirmedFirst
<1> QED
  BY <1>1, <1>2, <1>3 DEF FdctlIInv

LEMMA FdctlStepIInv == ASSUME X!Constants, FdctlIInv, [X!Next]_(X!vars) PROVE FdctlIInv'
<1>1. CASE UNCHANGED X!vars
  <2>1. FdctlQuestioned' /\ FdctlPlanned' /\ X!ConfirmedFirst'
    BY <1>1, FdctlWaiting DEF X!vars
  <2>2. FdctlTyped' /\ FdctlFresh' /\ FdctlSilent' /\ FdctlHoldComes' /\ FdctlLeaseOnLine'
    BY <1>1 DEF X!vars, FdctlIInv, FdctlTyped, FdctlFresh, FdctlSilent, X!Local,
       FdctlHoldComes, FdctlLeaseOnLine
  <2>3. X!ScriptsCanRely' /\ FdctlHoldKept'
    BY <1>1 DEF X!vars, FdctlIInv, X!ScriptsCanRely, X!Ended, X!Local, FdctlHoldKept, X!At,
       X!Running, X!Interval
  <2> QED
    BY <2>1, <2>2, <2>3 DEF FdctlIInv
<1>2. ASSUME NEW i \in X!Invocations, X!Invoke(i) PROVE FdctlIInv'
  BY <1>2, FdctlInvokeKeeps
<1>3. ASSUME NEW class \in {"PASSIVE", "QUERY", "CONTROL", "POWER", "FLASH", "DESTRUCTIVE", None},
             NEW outcome \in X!Errors \cup {"ok", "failed"}, X!Answer(class, outcome)
      PROVE  FdctlIInv'
  <2>1. class \in FdctlClasses
    BY DEF FdctlClasses
  <2> QED
    BY <1>3, <2>1, FdctlAnswerKeeps
<1>4. CASE \/ \E said \in {"CLEAR", "FLASH", "ERASE", "DESTRUCTIVE", "y"} : X!Confirm(said)
           \/ \E reached \in BOOLEAN : X!Connect(reached)
           \/ \E acted \in BOOLEAN : X!NoAnswer(acted)
           \/ \E class \in {"PASSIVE", "FLASH"} : X!Edit(class)
  BY <1>4, FdctlConfirmKeeps, FdctlConnectKeeps, FdctlNoAnswerKeeps, FdctlEditKeeps
<1>5. CASE X!UsageError \/ X!GiveUp \/ X!Hangs \/ X!Finish \/ X!LocalFails
  BY <1>5, FdctlUsageErrorKeeps, FdctlGiveUpKeeps, FdctlHangsKeeps, FdctlFinishKeeps,
     FdctlLocalFailsKeeps
<1>6. CASE X!BeginHold \/ X!WakeUp \/ X!HoldBroken \/ X!Tick
  BY <1>6, FdctlBeginHoldKeeps, FdctlWakeUpKeeps, FdctlHoldBrokenKeeps, FdctlTickKeeps
<1>7. CASE X!Interrupt \/ X!Killed \/ X!Event \/ X!Notice \/ X!Sweep
  BY <1>7, FdctlInterruptKeeps, FdctlKilledKeeps, FdctlEventKeeps, FdctlNoticeKeeps, FdctlSweepKeeps
<1> QED
  BY <1>1, <1>2, <1>3, <1>4, <1>5, <1>6, <1>7 DEF X!Next

LEMMA FdctlMeansAll ==
    ASSUME X!Constants, FdctlIInv
    PROVE  X!ScriptsCanRely /\ X!ConfirmedFirst /\ X!HoldIsADeadMan
<1>1. leasedTill # None => conn \in {"open", "lost"}
  BY DEF FdctlIInv, FdctlLeaseOnLine
<1>2. ASSUME X!At("hold"), wake # None, inv.ttl >= 3 * Floor, lag < inv.ttl - inv.ttl \div 3
      PROVE  leasedTill # None
  <2>1. inv.ttl \in Nat /\ lag \in Nat
    BY <1>2, FdctlHolds
  <2>2. leasedTill = None => lag >= inv.ttl - inv.ttl \div 3
    BY <1>2 DEF FdctlIInv, FdctlHoldKept
  <2> QED
    BY <1>2, <2>1, <2>2
<1> QED
  BY <1>1, <1>2 DEF FdctlIInv, X!HoldIsADeadMan

-----------------------------------------------------------------------------
(* The rest of the types: what was typed is a word that was asked for,     *)
(* what was shown is a class the recipe had, a command that goes on has    *)
(* printed no more than two documents, and a lease is not longer than was  *)
(* asked for.                                                              *)
FdctlWords == {"CLEAR", "FLASH", "ERASE", "DESTRUCTIVE"}
FdctlTold ==
         /\ inv \in X!Invocations \cup {None} /\ conn \in {"none", "open", "lost"}
         /\ typed \subseteq FdctlWords
         /\ recipe \in {"PASSIVE", "FLASH"} /\ planShown \in {"PASSIVE", "FLASH", None}
FdctlCounted ==
    /\ docs \in 0 .. 3 /\ (exit = None => docs \in 0 .. 2)
    /\ exit \in (X!Died .. 11) \cup {None}
FdctlTimed ==
    /\ leasedTill # None => leasedTill \in 1 .. now + inv.ttl /\ inv.ttl \in Nat
    /\ now \in 0 .. MaxTime /\ lag \in 0 .. MaxLate
FdctlBounded == FdctlTold /\ FdctlCounted /\ FdctlTimed

LEMMA FdctlInitBounded == ASSUME X!Constants, X!Init PROVE FdctlBounded
<1>1. FdctlTold
  BY DEF X!Init, FdctlTold
<1>2. FdctlCounted
  BY DEF X!Init, FdctlCounted, X!Died
<1>3. FdctlTimed
  BY DEF X!Init, FdctlTimed, X!Constants
<1> QED
  BY <1>1, <1>2, <1>3 DEF FdctlBounded

LEMMA FdctlFailsTold ==
    ASSUME FdctlTold, NEW code, X!Fails(code)
    PROVE  conn' \in {"none", "open", "lost"}
  BY DEF X!Fails, X!Closed, FdctlTold

LEMMA FdctlStepTold == ASSUME X!Constants, FdctlIInv, FdctlTold, [X!Next]_(X!vars) PROVE FdctlTold'
<1>1. ASSUME inv' = inv \/ (inv' \in X!Invocations /\ inv = None),
             \/ conn' \in {"none", "open", "lost"}
             \/ \E code : X!Fails(code),
             typed' = typed, recipe' = recipe, planShown' = planShown
      PROVE  FdctlTold'
  BY <1>1, FdctlFailsTold DEF FdctlTold
<1>2. CASE UNCHANGED X!vars
  BY <1>1, <1>2 DEF X!vars, FdctlTold
<1>3. ASSUME NEW i \in X!Invocations, X!Invoke(i) PROVE FdctlTold'
  BY <1>1, <1>3 DEF X!Invoke, FdctlTold
<1>4. CASE X!UsageError \/ X!GiveUp \/ X!Hangs \/ X!Finish \/ X!LocalFails
  BY <1>1, <1>4 DEF X!UsageError, X!GiveUp, X!Hangs, X!Closed, X!Finish, X!LocalFails, FdctlTold
<1>5. ASSUME NEW said \in FdctlWords \cup {"y"}, X!Confirm(said) PROVE FdctlTold'
  <2> DEFINE word == Head(todo).class
  <2>1. word \in FdctlClasses
    BY <1>5, FdctlHeaded DEF X!Confirm, FdctlIInv
  <2>2. typed' = typed \/ (typed' = typed \cup {word} /\ said = word)
    BY <1>5 DEF X!Confirm
  <2>3. typed' \subseteq FdctlWords
    <3>1. said = word => word \in FdctlWords
      BY <2>1 DEF FdctlWords, FdctlClasses, X!Constants
    <3> HIDE DEF word
    <3> QED
      BY <2>2, <3>1 DEF FdctlTold
  <2>4. /\ inv' = inv /\ recipe' = recipe /\ planShown' = planShown
        /\ conn' = conn \/ X!Fails("usage")
    BY <1>5 DEF X!Confirm
  <2> QED
    BY <2>3, <2>4, FdctlFailsTold DEF FdctlTold
<1>6. ASSUME NEW reached \in BOOLEAN, X!Connect(reached) PROVE FdctlTold'
  BY <1>1, <1>6 DEF X!Connect, FdctlTold
<1>7. ASSUME NEW class, NEW outcome, X!Answer(class, outcome) PROVE FdctlTold'
  <2> DEFINE step == Head(todo)
  <2>1. /\ inv' = inv /\ recipe' = recipe /\ typed' = typed
        /\ conn' = conn \/ X!Fails(outcome)
        /\ planShown' = planShown \/ (step.op = "recipe.validate" /\ planShown' = class)
    BY <1>7 DEF X!Answer
  <2>2. step.op = "recipe.validate" => class = recipe
    BY <1>7 DEF X!Answer, X!ClassOf
  <2> QED
    BY <2>1, <2>2, FdctlFailsTold DEF FdctlTold
<1>8. ASSUME NEW acted \in BOOLEAN, X!NoAnswer(acted) PROVE FdctlTold'
  BY <1>1, <1>8 DEF X!NoAnswer
<1>9. CASE X!BeginHold \/ X!HoldBroken \/ X!Tick
  BY <1>1, <1>9 DEF X!BeginHold, X!HoldBroken, X!Tick, FdctlTold
<1>10. CASE X!WakeUp
  BY <1>1, <1>10 DEF X!WakeUp, FdctlTold
<1>11. CASE X!Interrupt \/ X!Killed \/ X!Event \/ X!Notice \/ X!Sweep
  BY <1>1, <1>11 DEF X!Interrupt, X!Killed, X!Closed, X!Event, X!Notice, X!Sweep, FdctlTold
<1>12. ASSUME NEW class \in {"PASSIVE", "FLASH"}, X!Edit(class) PROVE FdctlTold'
  BY <1>12 DEF X!Edit, FdctlTold
<1> QED
  BY <1>2, <1>3, <1>4, <1>5, <1>6, <1>7, <1>8, <1>9, <1>10, <1>11, <1>12 DEF X!Next, FdctlWords

LEMMA FdctlStepCounted ==
    ASSUME X!Constants, FdctlIInv, FdctlCounted, [X!Next]_(X!vars)
    PROVE  FdctlCounted'
<1>1. CASE docs' = docs /\ exit' = exit
  BY <1>1 DEF FdctlCounted
<1>2. ASSUME exit = None, X!Printed, exit' \in X!Died .. 11 PROVE FdctlCounted'
  <2>1. docs \in 0 .. 2
    BY <1>2 DEF FdctlCounted
  <2>2. docs' \in 0 .. 3
    BY <1>2, <2>1 DEF X!Printed
  <2>3. exit' # None
    BY <1>2 DEF X!Constants, X!Died
  <2> QED
    BY <1>2, <2>2, <2>3 DEF FdctlCounted
<1>3. \A code : X!ExitCode(code) \in X!Died .. 11
  BY DEF X!ExitCode, X!Died
<1>4. ASSUME exit = None, NEW code, X!Fails(code) PROVE FdctlCounted'
  BY <1>2, <1>3, <1>4 DEF X!Fails
<1>5. ASSUME docs < 2, X!Printed, exit' = exit PROVE FdctlCounted'
  BY <1>5 DEF FdctlCounted, X!Printed
<1>6. ASSUME docs' = docs, exit' \in X!Died .. 11 PROVE FdctlCounted'
  <2>1. exit' # None
    BY <1>6 DEF X!Constants, X!Died
  <2> QED
    BY <1>6, <2>1 DEF FdctlCounted
<1>7. CASE UNCHANGED X!vars \/ \E i \in X!Invocations : X!Invoke(i)
  BY <1>1, <1>7 DEF X!vars, X!Invoke
<1>8. CASE X!UsageError \/ X!GiveUp \/ X!LocalFails \/ X!HoldBroken
  BY <1>4, <1>8 DEF X!UsageError, X!GiveUp, X!LocalFails, X!HoldBroken, X!At, X!Running
<1>9. CASE X!Hangs \/ X!BeginHold \/ X!Tick \/ X!Notice \/ X!Sweep \/
      \E class \in {"PASSIVE", "FLASH"} : X!Edit(class)
  BY <1>1, <1>9 DEF X!Hangs, X!BeginHold, X!Tick, X!Notice, X!Sweep, X!Edit
<1>10. CASE X!Finish
  <2>1. exit' \in X!Died .. 11
    <3>1. exit' = 0 \/ exit' = X!ExitCode("assertion_failed")
      BY <1>10 DEF X!Finish
    <3>2. 0 \in X!Died .. 11
      BY DEF X!Died
    <3> QED
      BY <1>3, <3>1, <3>2
  <2> QED
    BY <1>2, <1>10, <2>1 DEF X!Finish, X!Running
<1>11. ASSUME NEW said, X!Confirm(said) PROVE FdctlCounted'
  BY <1>1, <1>4, <1>11 DEF X!Confirm, X!At, X!Running
<1>12. ASSUME NEW reached \in BOOLEAN, X!Connect(reached) PROVE FdctlCounted'
  BY <1>1, <1>4, <1>12 DEF X!Connect, X!At, X!Running
<1>13. ASSUME NEW class, NEW outcome, X!Answer(class, outcome) PROVE FdctlCounted'
  <2>1. exit = None
    BY <1>13 DEF X!Answer, X!At, X!Running
  <2>2. \/ X!Fails(outcome)
        \/ docs < 2 /\ X!Printed /\ exit' = exit
        \/ docs' = docs /\ exit' = exit
    BY <1>13 DEF X!Answer
  <2> QED
    BY <1>1, <1>4, <1>5, <2>1, <2>2
<1>14. ASSUME NEW acted \in BOOLEAN, X!NoAnswer(acted) PROVE FdctlCounted'
  BY <1>1, <1>4, <1>14 DEF X!NoAnswer, X!At, X!Running
<1>15. CASE X!WakeUp
  BY <1>1, <1>4, <1>15 DEF X!WakeUp, X!At, X!Running
<1>16. CASE X!Interrupt \/ X!Killed
  <2>1. docs' = docs /\ (exit' = exit \/ exit' \in {0, X!Aborted, X!Died})
    BY <1>16 DEF X!Interrupt, X!Killed
  <2>2. {0, X!Aborted, X!Died} \subseteq X!Died .. 11
    BY DEF X!Aborted, X!Died
  <2> QED
    BY <1>1, <1>6, <2>1, <2>2
<1>17. CASE X!Event
  BY <1>5, <1>17 DEF X!Event
<1> QED
  BY <1>7, <1>8, <1>9, <1>10, <1>11, <1>12, <1>13, <1>14, <1>15, <1>16, <1>17 DEF X!Next

LEMMA FdctlStepTimed ==
    ASSUME X!Constants, FdctlIInv, FdctlTimed, [X!Next]_(X!vars)
    PROVE  FdctlTimed'
<1>1. CASE inv' = inv /\ leasedTill' \in {leasedTill, None} /\ now' = now /\ lag' = lag
  BY <1>1 DEF FdctlTimed
<1>2. ASSUME inv' = inv, leasedTill' = now + inv.ttl, inv.ttl \in Nat, inv.ttl > 0,
             now' = now, lag' = lag
      PROVE  FdctlTimed'
  <2>1. now \in Nat /\ leasedTill' \in 1 .. now' + inv'.ttl
    BY <1>2 DEF FdctlIInv, FdctlTyped
  <2> QED
    BY <1>2, <2>1 DEF FdctlTimed
<1>3. ASSUME inv # None, inv.cmd = "psu output on" PROVE inv.ttl \in Nat /\ inv.ttl > 0
  <2>1. inv.ttl \in Ttls
    BY <1>3 DEF FdctlIInv, FdctlHoldComes
  <2>2. inv.ttl \in Nat \ {0}
    BY <2>1, FdctlLives
  <2> QED
    BY <2>2
<1>4. ASSUME NEW i \in X!Invocations, X!Invoke(i) PROVE FdctlTimed'
  <2>1. leasedTill = None
    BY <1>4 DEF X!Invoke, FdctlIInv, FdctlFresh
  <2> QED
    BY <1>4, <2>1 DEF X!Invoke, X!clock, FdctlTimed
<1>5. CASE UNCHANGED X!vars
  BY <1>1, <1>5 DEF X!vars
<1>6. CASE X!UsageError \/ X!GiveUp \/ X!Hangs \/ X!Finish \/ X!LocalFails
  BY <1>1, <1>6 DEF X!UsageError, X!GiveUp, X!Hangs, X!Finish, X!LocalFails, X!clock
<1>7. CASE \/ \E said \in {"CLEAR", "FLASH", "ERASE", "DESTRUCTIVE", "y"} : X!Confirm(said)
           \/ \E reached \in BOOLEAN : X!Connect(reached)
           \/ \E class \in {"PASSIVE", "FLASH"} : X!Edit(class)
  BY <1>1, <1>7 DEF X!Confirm, X!Connect, X!Edit, X!clock
<1>8. ASSUME NEW class, NEW outcome, X!Answer(class, outcome) PROVE FdctlTimed'
  <2>1. /\ inv' = inv /\ now' = now /\ lag' = lag /\ inv # None
        /\ leasedTill' = leasedTill \/ (inv.cmd = "psu output on" /\ leasedTill' = now + inv.ttl)
    BY <1>8 DEF X!Answer, X!At, X!Running
  <2> QED
    BY <1>1, <1>2, <1>3, <2>1
<1>9. ASSUME NEW acted \in BOOLEAN, X!NoAnswer(acted) PROVE FdctlTimed'
  <2>1. /\ inv' = inv /\ now' = now /\ lag' = lag /\ inv # None
        /\ leasedTill' = leasedTill \/ (inv.cmd = "psu output on" /\ leasedTill' = now + inv.ttl)
    BY <1>9 DEF X!NoAnswer, X!At, X!Running, X!clock
  <2> QED
    BY <1>1, <1>2, <1>3, <2>1
<1>10. CASE X!BeginHold \/ X!HoldBroken
  BY <1>1, <1>10 DEF X!BeginHold, X!HoldBroken, X!clock
<1>11. CASE X!WakeUp
  <2>1. /\ inv' = inv /\ now' = now /\ lag' = lag
        /\ leasedTill' \in {leasedTill, None} \/ leasedTill' = now + inv.ttl
    BY <1>11 DEF X!WakeUp, X!LetGo
  <2>2. inv.ttl \in Nat /\ inv.ttl > 0
    BY <1>11, FdctlHolds DEF X!WakeUp
  <2> QED
    BY <1>1, <1>2, <2>1, <2>2
<1>12. CASE X!Tick
  <2>1. /\ inv' = inv /\ leasedTill' = leasedTill /\ now < MaxTime /\ now < wake + MaxLate
        /\ now' = now + 1 /\ lag' = IF now + 1 - wake > lag THEN now + 1 - wake ELSE lag
    BY <1>12 DEF X!Tick
  <2>2. now \in Nat /\ lag \in Nat /\ wake \in Int /\ MaxLate \in Nat /\ MaxTime \in Nat
    BY <1>12 DEF X!Tick, FdctlIInv, FdctlTyped, FdctlHoldKept, X!Constants
  <2>3. now' \in 0 .. MaxTime /\ lag' \in 0 .. MaxLate
    BY <2>1, <2>2 DEF FdctlTimed
  <2>4. leasedTill' # None => leasedTill' \in 1 .. now' + inv'.ttl /\ inv'.ttl \in Nat
    BY <2>1, <2>2 DEF FdctlTimed
  <2> QED
    BY <2>3, <2>4 DEF FdctlTimed
<1>13. CASE X!Interrupt \/ X!Killed \/ X!Event \/ X!Notice \/ X!Sweep
  BY <1>1, <1>13 DEF X!Interrupt, X!LetGo, X!Killed, X!Event, X!Notice, X!Sweep, X!clock
<1> QED
  BY <1>4, <1>5, <1>6, <1>7, <1>8, <1>9, <1>10, <1>11, <1>12, <1>13 DEF X!Next

LEMMA FdctlStepBounded ==
    ASSUME X!Constants, FdctlIInv, FdctlBounded, [X!Next]_(X!vars)
    PROVE  FdctlBounded'
  BY FdctlStepTold, FdctlStepCounted, FdctlStepTimed DEF FdctlBounded

LEMMA FdctlMeansTyped == ASSUME X!Constants, FdctlIInv, FdctlBounded PROVE X!TypeOK
<1>1. \A m \in DOMAIN todo : todo[m].k \in {"ask", "do", "hold", "hang up"}
  <2>1. \A m \in DOMAIN todo : todo[m] \in FdctlSteps
    BY ElementOfSeq DEF FdctlIInv, FdctlTyped
  <2> QED
    BY <2>1 DEF FdctlSteps
<1>2. {recipe, planShown} \subseteq {"PASSIVE", "FLASH", None}
  BY DEF FdctlBounded, FdctlTold
<1> QED
  BY <1>1, <1>2 DEF FdctlBounded, FdctlTold, FdctlWords, FdctlCounted, FdctlTimed, X!TypeOK

=============================================================================
