--------------------------- MODULE ComponentsProofs ---------------------------
(***************************************************************************)
(* The properties of Components, for every value of the components'        *)
(* constants: a behaviour is one of a single component, whose inductive    *)
(* invariant ServicesProofs or BenchProofs has.                            *)
(***************************************************************************)
EXTENDS Components, ServicesProofs, BenchProofs

--------------------------------------------------------------------------------
(* A behaviour of Components is one of the component it begins with.       *)

LEMMA AloneInit ==
    ASSUME Init
    PROVE  /\ which = "store" => S!Init
           /\ which = "daemon" => D!Init
           /\ which = "mcp" => A!Init
           /\ which = "modbus" => M!Init
           /\ which = "panel" => U!Init
           /\ which = "flash" => F!Init
           /\ which = "plan" => R!Init
           /\ which = "fdctl" => X!Init
           /\ which = "can" => C!Init
           /\ which = "serial" => P!Init
           /\ which = "decoders" => B!Init
  BY DEF Init

LEMMA SameComponent == [Next]_all => which' = which
  BY DEF Next, all

LEMMA StoreAlone == ASSUME [Next]_all, which = "store" PROVE [S!Next]_(S!vars)
  BY DEF Next, all, ofS, S!vars

LEMMA DaemonAlone == ASSUME [Next]_all, which = "daemon" PROVE [D!Next]_(D!vars)
  BY DEF Next, all, ofD, D!vars

LEMMA McpAlone == ASSUME [Next]_all, which = "mcp" PROVE [A!Next]_(A!vars)
  BY DEF Next, all, ofA, A!vars

LEMMA ModbusAlone == ASSUME [Next]_all, which = "modbus" PROVE [M!Next]_(M!vars)
  BY DEF Next, all, ofM, M!vars

LEMMA PanelAlone == ASSUME [Next]_all, which = "panel" PROVE [U!Next]_(U!vars)
  BY DEF Next, all, ofU, U!vars, U!daemon, U!link, U!list, U!lease, U!gesture

LEMMA FlashAlone == ASSUME [Next]_all, which = "flash" PROVE [F!Next]_(F!vars)
  BY DEF Next, all, ofF, F!vars

LEMMA PlanAlone == ASSUME [Next]_all, which = "plan" PROVE [R!Next]_(R!vars)
  BY DEF Next, all, ofR, R!vars

LEMMA FdctlAlone == ASSUME [Next]_all, which = "fdctl" PROVE [X!Next]_(X!vars)
  BY DEF Next, all, ofX, X!vars

LEMMA CanAlone == ASSUME [Next]_all, which = "can" PROVE [C!Next]_(C!vars)
  BY DEF Next, all, ofC, C!vars

LEMMA SerialAlone == ASSUME [Next]_all, which = "serial" PROVE [P!Next]_(P!vars)
  BY DEF Next, all, ofP, P!vars

LEMMA DecodersAlone == ASSUME [Next]_all, which = "decoders" PROVE [B!Next]_(B!vars)
  BY DEF Next, all, ofB, B!vars

\* Of every behaviour of the command line.
LEMMA FdctlInvariant == Spec => [](which = "fdctl" => FdctlIInv)
<1> DEFINE Inv == which = "fdctl" => FdctlIInv
<1>1. Init => Inv
  BY AloneInit, FdctlInitIInv, ComponentConstants
<1>2. Inv /\ [Next]_all => Inv'
  BY SameComponent, FdctlAlone, FdctlStepIInv, ComponentConstants
<1> QED
  BY <1>1, <1>2, PTL DEF Spec

--------------------------------------------------------------------------------
(* However many sessions, events and captures there are, and whatever kill,  *)
(* power failure or failed write comes between their steps: an audit event   *)
(* is on the disk, an event of a session that met none of these is in one of *)
(* the two logs or was complained of, and a registered file holds what was   *)
(* hashed unless a tool that was given its name wrote over it (capture/).    *)
THEOREM RecordKept == Spec => []RecordIsComplete
<1> DEFINE Inv == which = "store" => StoreIInv
<1>1. Init => Inv
  BY AloneInit, StoreInitIInv, ComponentConstants
<1>2. Inv /\ [Next]_all => Inv'
  BY SameComponent, StoreAlone, StoreStepIInv, ComponentConstants
<1>3. Inv => RecordIsComplete
  BY StoreMeansComplete DEF RecordIsComplete
<1> QED
  BY <1>1, <1>2, <1>3, PTL DEF Spec

(* However many devices, clients and discoveries the daemon has: an output *)
(* that is on is held or excused, and what is registered was found by the  *)
(* last discovery or is on the list of one that still runs                 *)
(* (daemon/service.py).                                                    *)
THEOREM OutputsHeld == Spec => []DevicesAccounted
<1> DEFINE Inv == which = "daemon" => DaemonIInv
<1>1. Init => Inv
  BY AloneInit, DaemonInitIInv, ComponentConstants
<1>2. Inv /\ [Next]_all => Inv'
  BY SameComponent, DaemonAlone, DaemonStepIInv, ComponentConstants
<1>3. Inv => DevicesAccounted
  BY DaemonAccountedFor DEF DevicesAccounted
<1> QED
  BY <1>1, <1>2, <1>3, PTL DEF Spec

(* An MCP client is told what the daemon made of its call, a call that is  *)
(* said never to have been attempted was not, and no call reaches the      *)
(* daemon twice: however often the daemon dies, for any number of requests *)
(* in flight and of slots (mcp/server.py, DaemonLink).                     *)
THEOREM CallsToldOnce == Spec => []ToldOnce
<1> DEFINE Inv == which = "mcp" => McpIInv
<1>1. Init => Inv
  BY AloneInit, McpInitIInv, ComponentConstants
<1>2. Inv /\ [Next]_all => Inv'
  BY SameComponent, McpAlone, McpStepIInv, ComponentConstants
<1>3. Inv => ToldOnce
  BY DEF McpIInv, ToldOnce
<1> QED
  BY <1>1, <1>2, <1>3, PTL DEF Spec

(* However many callers share the line, are cancelled or give up: what a    *)
(* caller is told agrees with what the controller did, and a scan asks     *)
(* every address once, in order (protocols/modbus.py).                     *)
THEOREM AnswersAgree == Spec => []ModbusAnswers
<1> DEFINE Inv == which = "modbus" => ModbusIInv
<1>1. Init => Inv
  BY AloneInit, ModbusInitIInv, ComponentConstants
<1>2. Inv /\ [Next]_all => Inv'
  BY SameComponent, ModbusAlone, ModbusStepIInv, ComponentConstants
<1>3. Inv => ModbusAnswers
  BY ModbusAnswersMeant, ComponentConstants DEF ModbusAnswers
<1> QED
  BY <1>1, <1>2, <1>3, PTL DEF Spec

(* Whatever gesture, reply, event or restart overtakes which, the panel's  *)
(* lease has a keeper, and when nothing is on its way its device list is   *)
(* the daemon's (ui/state.py, PanelState).                                 *)
THEOREM PanelTellsTruth == Spec => []PanelIsCurrent
<1> DEFINE Inv == which = "panel" => PanelIInv
<1>1. Init => Inv
  BY AloneInit, PanelInitIInv, ComponentConstants
<1>2. Inv /\ [Next]_all => Inv'
  BY SameComponent, PanelAlone, PanelStepIInv, ComponentConstants
<1>3. Inv => PanelIsCurrent
  BY PanelMeansCurrent, ComponentConstants DEF PanelIsCurrent
<1> QED
  BY <1>1, <1>2, <1>3, PTL DEF Spec

(* For any number of calls and contents of the firmware file: what is on   *)
(* the target, a call asked for and was authorized to do                   *)
(* (debug/actions.py).                                                     *)
THEOREM TargetAsAsked == Spec => []OnlyWhatWasAsked
<1> DEFINE Inv == which = "flash" => FlashIInv
<1>1. Init => Inv
  BY AloneInit, FlashInitIInv, ComponentConstants
<1>2. Inv /\ [Next]_all => Inv'
  BY SameComponent, FlashAlone, FlashStepIInv, ComponentConstants
<1>3. Inv => OnlyWhatWasAsked
  BY FlashIInvMeansAsked, ComponentConstants DEF OnlyWhatWasAsked
<1> QED
  BY <1>1, <1>2, <1>3, PTL DEF Spec

(* For any recipes and limits: what the compiler accepts the dispatcher    *)
(* accepts (compiler.py:308-310), and no setpoint passes the unit's limit  *)
(* or the device's own.                                                    *)
THEOREM PlanIsKept == Spec => PlanKept
<1> DEFINE Inv == which = "plan" => PlanIInv
<1>1. Init => Inv
  BY AloneInit, PlanInitIInv, ComponentConstants
<1>2. Inv /\ [Next]_all => Inv'
  BY SameComponent, PlanAlone, PlanStepIInv, ComponentConstants
<1>3. Inv /\ [Next]_all => (which = "plan" => R!KeepsPlan)
  BY PlanAlone, PlanStepKeepsPlan, ComponentConstants
<1> QED
  BY <1>1, <1>2, <1>3, PTL DEF Spec, PlanKept

(* Whatever command, on every way it can end: one document on stdout, 0    *)
(* only when everything asked for was done, and for a refusal the daemon's *)
(* own code (fdctl.py:10-12).                                              *)
THEOREM ScriptsRely == Spec => []ScriptsCanRely
<1>1. (which = "fdctl" => FdctlIInv) => ScriptsCanRely
  BY FdctlMeansAll, ComponentConstants DEF ScriptsCanRely
<1> QED
  BY <1>1, FdctlInvariant, PTL

(* Whatever list of classes is armed, whatever the daemon says a call or a *)
(* plan reaches: what cannot be undone was confirmed before it was asked   *)
(* for, or the recipe was edited after its plan was shown (fdctl.py:186).  *)
THEOREM ConfirmedBefore == Spec => []ConfirmedFirst
<1>1. (which = "fdctl" => FdctlIInv) => ConfirmedFirst
  BY FdctlMeansAll, ComponentConstants DEF ConfirmedFirst
<1> QED
  BY <1>1, FdctlInvariant, PTL

(* For any life of a lease of three of the shortest intervals or more, and *)
(* any length of the hold: a held rail stays up through a delay of two     *)
(* intervals, and no rail outlives the connection (fdctl.py:65).           *)
THEOREM HoldRenewed == Spec => []HoldIsADeadMan
<1>1. (which = "fdctl" => FdctlIInv) => HoldIsADeadMan
  BY FdctlMeansAll, ComponentConstants DEF HoldIsADeadMan
<1> QED
  BY <1>1, FdctlInvariant, PTL

(* For any queue, buffer, max_frames and byte budget: a capture file is the *)
(* bus or the line in its order, what is not in it is counted, and however  *)
(* the capture ends a file that has something is registered                *)
(* (transports/socketcan.py, serial_port.py).  Of the serial port only     *)
(* while no caller comes during a serial.configure, which takes no lock.   *)
THEOREM CapturesKept == Spec => [](CapturesFaithful \/ (which = "serial" /\ Overlap))
<1> DEFINE Inv == (which = "can" => CanIInv) /\ (which = "serial" => SerialIInv)
<1>1. Init => Inv
  BY AloneInit, CanInitIInv, SerialInitIInv, ComponentConstants
<1>2. Inv /\ [Next]_all => Inv'
  BY SameComponent, CanAlone, SerialAlone, CanStepIInv, SerialStepIInv, ComponentConstants
<1>3. Inv => CapturesFaithful \/ (which = "serial" /\ Overlap)
  BY CanMeansFaithful, SerialMeansInOrder, ComponentConstants DEF CapturesFaithful
<1> QED
  BY <1>1, <1>2, <1>3, PTL DEF Spec

(* For any senders, messages, and frames lost, repeated or late: each frame *)
(* captured is in one report or in what its id is in the middle of, what is *)
(* reported as whole and without problems has no gap, and no service seen   *)
(* asks for more than the permission reported (protocols/isotp.py, uds.py). *)
THEOREM EachFrameReported == Spec => []DecodedHonestly
<1> DEFINE Inv == which = "decoders" => DecodersIInv
<1>1. Init => Inv
  BY AloneInit, DecodersInitIInv, ComponentConstants
<1>2. Inv /\ [Next]_all => Inv'
  BY SameComponent, DecodersAlone, DecodersStepIInv, ComponentConstants
<1>3. Inv => DecodedHonestly
  BY DecodersMeansHonest, ComponentConstants DEF DecodedHonestly
<1> QED
  BY <1>1, <1>2, <1>3, PTL DEF Spec

(* What holds of whichever component runs: its inductive invariant.        *)
EachInvariant ==
  /\ which = "store" => StoreIInv
  /\ which = "daemon" => DaemonIInv
  /\ which = "modbus" => ModbusIInv
  /\ which = "can" => CanIInv
  /\ which = "serial" => SerialIInv
  /\ which = "panel" => PanelIInv
  /\ which = "decoders" => DecodersIInv
  /\ which = "flash" => FlashIInv /\ FlashFiled
  /\ which = "mcp" => McpIInv /\ McpMade
  /\ which = "plan" => PlanIInv /\ PlanReached
  /\ which = "fdctl" => FdctlIInv /\ FdctlBounded

(* For every value of the constants, the bounds of the queues, batches,    *)
(* tables and plans of every component hold, and nothing leaves its type.  *)
THEOREM TypesKept == Spec => []TypesOK
<1>1. Init => EachInvariant
  <2> SUFFICES ASSUME Init PROVE EachInvariant
    OBVIOUS
  <2>1. /\ which = "store" => StoreIInv
        /\ which = "daemon" => DaemonIInv
        /\ which = "modbus" => ModbusIInv
        /\ which = "can" => CanIInv
        /\ which = "serial" => SerialIInv
        /\ which = "panel" => PanelIInv
        /\ which = "decoders" => DecodersIInv
    BY AloneInit, StoreInitIInv, DaemonInitIInv, ModbusInitIInv, CanInitIInv,
       SerialInitIInv, PanelInitIInv, DecodersInitIInv, ComponentConstants
  <2>2. /\ which = "flash" => FlashIInv /\ FlashFiled
        /\ which = "mcp" => McpIInv /\ McpMade
        /\ which = "plan" => PlanIInv /\ PlanReached
        /\ which = "fdctl" => FdctlIInv /\ FdctlBounded
    BY AloneInit, FlashInitIInv, FlashInitFiled, McpInitIInv, McpInitMade, PlanInitIInv,
       PlanInitReached, FdctlInitIInv, FdctlInitBounded, ComponentConstants
  <2> QED
    BY <2>1, <2>2 DEF EachInvariant
<1>2. EachInvariant /\ [Next]_all => EachInvariant'
  <2> SUFFICES ASSUME EachInvariant, [Next]_all PROVE EachInvariant'
    OBVIOUS
  <2>1. /\ which = "store" => StoreIInv'
        /\ which = "daemon" => DaemonIInv'
        /\ which = "modbus" => ModbusIInv'
        /\ which = "can" => CanIInv'
    BY StoreAlone, DaemonAlone, ModbusAlone, CanAlone, StoreStepIInv, DaemonStepIInv,
       ModbusStepIInv, CanStepIInv, ComponentConstants DEF EachInvariant
  <2>2. /\ which = "serial" => SerialIInv'
        /\ which = "panel" => PanelIInv'
        /\ which = "decoders" => DecodersIInv'
    BY SerialAlone, PanelAlone, DecodersAlone, SerialStepIInv, PanelStepIInv,
       DecodersStepIInv, ComponentConstants DEF EachInvariant
  <2>3. /\ which = "flash" => FlashIInv' /\ FlashFiled'
        /\ which = "mcp" => McpIInv' /\ McpMade'
        /\ which = "plan" => PlanIInv' /\ PlanReached'
        /\ which = "fdctl" => FdctlIInv' /\ FdctlBounded'
    BY FlashAlone, McpAlone, PlanAlone, FdctlAlone, FlashStepIInv, FlashStepFiled,
       McpStepIInv, McpStepMade, PlanStepIInv, PlanStepReached, FdctlStepIInv, FdctlStepBounded,
       ComponentConstants DEF EachInvariant
  <2> QED
    BY <2>1, <2>2, <2>3, SameComponent DEF EachInvariant
<1>3. EachInvariant => TypesOK
  <2> SUFFICES ASSUME EachInvariant PROVE TypesOK
    OBVIOUS
  <2>1. /\ which = "store" => S!TypeOK
        /\ which = "daemon" => D!TypeOK
        /\ which = "modbus" => M!TypeOK
        /\ which = "can" => C!TypeOK
        /\ which = "serial" => P!TypeOK
        /\ which = "panel" => U!TypeOK
    BY StoreMeansTyped, ModbusMeansTyped, CanMeansTyped, SerialMeansTyped, PanelMeansTyped,
       ComponentConstants DEF DaemonIInv, EachInvariant
  <2>2. /\ which = "decoders" => B!TypeOK
        /\ which = "flash" => F!TypeOK
        /\ which = "mcp" => A!TypeOK
        /\ which = "plan" => R!TypeOK
        /\ which = "fdctl" => X!TypeOK
    BY DecodersMeansTyped, FlashMeansTyped, McpMeansTyped, PlanMeansTyped, FdctlMeansTyped,
       ComponentConstants DEF EachInvariant
  <2> QED
    BY <2>1, <2>2 DEF TypesOK
<1> QED
  BY <1>1, <1>2, <1>3, PTL DEF Spec
=============================================================================
