----------------------------- MODULE FlashTools -----------------------------
(***************************************************************************)
(* Programming a target (debug/): an action plans the command of a vendor  *)
(* tool, checks that the plan is within what the call was authorized for,  *)
(* runs the tool as a process (common/process.py) and files a record.      *)
(* The actions take no device lock: calls overlap.                         *)
(***************************************************************************)
EXTENDS Naturals, Sequences, FiniteSets

CONSTANTS
    Calls,          \* each is made once
    Tools,          \* of openocd, pyocd, esptool and dfu-util, the installed ones
    Images,         \* contents the firmware file takes, one after the other: 1 .. n
    None

VARIABLES
    firmware,   \* the content of the firmware file
    target,     \* the content of the target's flash; 0 as found, or partial, or blank
    call,       \* each call's request and where it stands
    hash,       \* the content each plan's hash was taken of
    proc,       \* each call's process: what it is doing to the target
    records     \* the records filed, oldest first

vars == <<firmware, target, call, hash, proc, records>>

Operations == {"info", "reset", "program", "verify", "erase"}
Rank(op) ==
    CASE op \in {"info", "verify"} -> 1 [] op = "reset" -> 2
      [] op = "program" -> 4 [] op = "erase" -> 5
Known == {"openocd", "pyocd", "esptool", "dfu-util"}

(* What the proofs ask of the constants: calls are counted, contents are   *)
(* numbered, and None is neither a content nor an operation.               *)
Constants ==
    /\ IsFiniteSet(Calls)
    /\ Cardinality(Images) \in Nat \ {0} /\ Images = 1 .. Cardinality(Images)
    /\ None \notin Images /\ None \notin Operations
Partial == Cardinality(Images) + 1      \* contents of the target that are no image
Blank == Cardinality(Images) + 2

Idle == [stage |-> "idle", op |-> None, tool |-> None, image |-> FALSE, confirmed |-> FALSE]

TypeOK ==
    /\ firmware \in Images /\ target \in Images \cup {0, Partial, Blank}
    /\ \A c \in Calls :
          /\ call[c].stage \in {"idle", "planned", "running", "stopping", "done", "refused",
                                "failed", "cancelling", "cancelled"}
          /\ call[c].op \in Operations \cup {None}
          /\ hash[c] \in Images \cup {None}
          /\ proc[c] \in [alive : BOOLEAN, does : Operations \cup {None}, read : Images \cup {None},
                          code : {"ok", "bad"}]
    /\ \A i \in DOMAIN records : records[i].op \in Operations
    /\ Len(records) <= Cardinality(Calls)

NoProc == [alive |-> FALSE, does |-> None, read |-> None, code |-> "bad"]
Init ==
    /\ firmware = 1 /\ target = 0 /\ records = <<>>
    /\ call = [c \in Calls |-> Idle] /\ hash = [c \in Calls |-> None]
    /\ proc = [c \in Calls |-> NoProc]

Goes(c, stage) == call' = [call EXCEPT ![c].stage = stage]

-----------------------------------------------------------------------------
(* Planning.                                                               *)

Supported(tool) ==
    CASE tool = "openocd" -> Operations
      [] tool = "pyocd" -> {"info", "reset", "erase", "program"}
      [] tool = "esptool" -> {"info", "erase", "verify", "program"}
      [] tool = "dfu-util" -> {"info", "program"}

\* What a planner makes of an operation: the command of that operation, or none
\* when the tool has no such command or an image is needed and not given.
Planned(tool, op, image) ==
    IF op \notin Supported(tool) \/ (op \in {"program", "verify"} /\ ~image) THEN None ELSE op

\* _execute up to build_plan, in a worker thread: an image is hashed now.  The
\* erase action wants its target named first.
Plan(c, tool, op, image, confirmed) ==
    /\ call[c].stage = "idle"
    /\ LET refused == (op = "erase" /\ ~confirmed) \/ Planned(tool, op, image) = None IN
       /\ call' = [call EXCEPT ![c] =
             IF refused THEN [Idle EXCEPT !.stage = "refused"]
             ELSE [stage |-> "planned", op |-> op, tool |-> tool, image |-> image,
                   confirmed |-> confirmed]]
       /\ hash' = [hash EXCEPT ![c] = IF image /\ ~refused THEN firmware ELSE None]
    /\ UNCHANGED <<firmware, target, proc, records>>

\* The plan is held against the class the call was authorized as; the tool may
\* not be installed; otherwise its process starts.
Authorized(does, op) == Rank(does) <= Rank(op)
Run(c) ==
    /\ call[c].stage = "planned"
    /\ LET does == Planned(call[c].tool, call[c].op, call[c].image) IN
       IF Authorized(does, call[c].op) /\ call[c].tool \in Tools
       THEN /\ Goes(c, "running")
            /\ proc' = [proc EXCEPT ![c] = [NoProc EXCEPT !.alive = TRUE, !.does = does]]
       ELSE Goes(c, "refused") /\ UNCHANGED proc
    /\ UNCHANGED <<firmware, target, hash, records>>

-----------------------------------------------------------------------------
(* The process (outside src/, by what the plans' descriptions say of it).  *)

Working(c) == proc[c].alive
\* It reads the image and begins to change the target.
ToolBegins(c) ==
    /\ Working(c) /\ proc[c].does \in {"program", "erase"} /\ proc[c].read = None
    /\ target' = Partial /\ proc' = [proc EXCEPT ![c].read = firmware]
    /\ UNCHANGED <<firmware, call, hash, records>>
ToolEnds(c) ==
    /\ Working(c) /\ (proc[c].does \in {"program", "erase"} => proc[c].read # None)
    /\ target' = (CASE proc[c].does = "program" -> proc[c].read
                    [] proc[c].does = "erase" -> Blank [] OTHER -> target)
    /\ proc' = [proc EXCEPT ![c].alive = FALSE, ![c].code = "ok"]
    /\ UNCHANGED <<firmware, call, hash, records>>
ToolFails(c) ==
    /\ Working(c) /\ proc' = [proc EXCEPT ![c].alive = FALSE]
    /\ UNCHANGED <<firmware, target, call, hash, records>>

\* Somebody rebuilds the firmware.
NewImage ==
    /\ firmware + 1 \in Images /\ firmware' = firmware + 1
    /\ UNCHANGED <<target, call, hash, proc, records>>

-----------------------------------------------------------------------------
(* run_tool and what follows it.                                           *)

Record(c) == [op |-> call[c].op, sha |-> hash[c]]

\* The process ended by itself: a good end is recorded, another raises.
Collect(c) ==
    /\ call[c].stage = "running" /\ ~proc[c].alive
    /\ IF proc[c].code = "ok"
       THEN Goes(c, "done") /\ records' = Append(records, Record(c))
       ELSE Goes(c, "failed") /\ UNCHANGED records
    /\ UNCHANGED <<firmware, target, hash, proc>>

\* The time is up: the process is asked to end, and killed when it does not.
TimeOut(c) ==
    /\ call[c].stage = "running" /\ proc[c].alive /\ Goes(c, "stopping")
    /\ UNCHANGED <<firmware, target, hash, proc, records>>
(* Mutant: the tool that did not end is left to itself.                    *)
KilledNot(c) ==
    /\ call[c].stage = "stopping" /\ Goes(c, "failed")
    /\ UNCHANGED <<firmware, target, hash, proc, records>>

Killed(c) ==
    /\ call[c].stage = "stopping" /\ Goes(c, "failed")
    /\ proc' = [proc EXCEPT ![c].alive = FALSE]
    /\ UNCHANGED <<firmware, target, hash, records>>

\* The call is cancelled: the process is asked to end, and left alone after that.
Cancel(c) ==
    /\ call[c].stage \in {"planned", "running", "stopping"}
    /\ Goes(c, IF call[c].stage = "running" THEN "cancelling" ELSE "cancelled")
    /\ UNCHANGED <<firmware, target, hash, proc, records>>
LeftAlone(c) ==
    /\ call[c].stage = "cancelling" /\ Goes(c, "cancelled")
    /\ UNCHANGED <<firmware, target, hash, proc, records>>

Next ==
    \/ NewImage
    \/ \E c \in Calls :
          \/ \E tool \in Known, op \in Operations, image \in BOOLEAN :
                \E confirmed \in {FALSE, op = "erase"} : Plan(c, tool, op, image, confirmed)
          \/ Run(c) \/ ToolBegins(c) \/ ToolEnds(c) \/ ToolFails(c)
          \/ Collect(c) \/ TimeOut(c) \/ Killed(c) \/ Cancel(c) \/ LeftAlone(c)

Spec == Init /\ [][Next]_vars

-----------------------------------------------------------------------------
(* Whatever happened to the target, a call asked for it: it was erased by  *)
(* an erase whose target was named, written by a program, with an image    *)
(* that call hashed or a later content of the file; a process does what    *)
(* its call asked for -- the planners that once fell through to a write    *)
(* (debug/actions.py:241) turned others into that; and no process outlives *)
(* its call unless that was cancelled.                                     *)
Called(op) == {c \in Calls : call[c].op = op /\ call[c].stage \notin {"idle", "refused"}}
OnlyWhatWasAsked ==
    /\ target = Blank => \E c \in Called("erase") : call[c].confirmed
    /\ target \in Images => \E c \in Called("program") : hash[c] <= target
    /\ target # 0 => Called("erase") \cup Called("program") # {}
    /\ \A c \in Calls : proc[c].does \in {None, call[c].op}
    /\ \A c \in Calls : proc[c].alive =>
          call[c].stage \in {"running", "stopping", "cancelling", "cancelled"}

(* "The audit record is the answer to 'what firmware is on this unit, and  *)
(* who put it there?'" (debug/actions.py:274): once nothing is under way,  *)
(* a target that was touched is as the last record of a write says.        *)
Quiet == \A c \in Calls : call[c].stage \in {"idle", "done", "refused", "failed"}
Written == SelectSeq(records, LAMBDA r : r.op \in {"program", "erase"})
RecordExplainsTarget ==
    Quiet /\ target # 0 =>
        /\ Written # <<>>
        /\ LET last == Written[Len(Written)] IN
           target = IF last.op = "erase" THEN Blank ELSE last.sha
=============================================================================
