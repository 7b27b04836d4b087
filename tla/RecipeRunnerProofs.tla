-------------------------- MODULE RecipeRunnerProofs --------------------------
(***************************************************************************)
(* Proofs about RecipeRunner, for any plan, any cleanup, any number of     *)
(* cancellations and any faults.                                           *)
(***************************************************************************)
EXTENDS RecipeRunner, TLAPS

-----------------------------------------------------------------------------
(* The inductive invariant of the runner's control, in named parts.        *)

Working == {"status", "start", "step", "winding"}

\* A step is worked on only while there is one left.
StepLeft == at \in Working => Len(outcomes) < Len(Steps)

\* The steps phase was left because it is through, or because of the outcome that
\* ended it; an interrupted one has been marked cancelled.
WhyLeft ==
    /\ at \in {"classify", "cleanup"} =>
           Len(outcomes) = Len(Steps) \/ \E i \in DOMAIN outcomes : outcomes[i] # "ok"
    /\ at \in {"shielded", "attribute"} => flags.cancelled

\* The cleanup was begun before the run could end, and done means gone through.
CleanupKept ==
    /\ at = "preflight" => verdict = "PENDING"
    /\ at \in {"cleanup", "shielded", "attribute"} => cleanup # "none"
    /\ at \in {"closing", "over"} /\ verdict \notin {"PENDING", "REFUSED"} => cleanup # "none"
    /\ cleanup = "done" => Len(cleaned) = Len(Finally)

\* Before the permission to start a step is asked for, no step was started late.
LateKept ==
    /\ late <= 1
    /\ at \in {"status", "start"} => late = 0
    /\ late > 0 => flags.stop

VerdictKept ==
    verdict = "PASSED" =>
        /\ at \in {"closing", "over"} /\ cleanup = "done"
        /\ Len(outcomes) = Len(Steps) /\ \A i \in DOMAIN outcomes : outcomes[i] = "ok"

Control == StepLeft /\ WhyLeft /\ CleanupKept /\ LateKept /\ VerdictKept

-----------------------------------------------------------------------------
LEMMA PlanShape ==
    /\ Steps \in Seq(Kinds) /\ Finally \in Seq(Kinds) /\ Plan \in Seq(Kinds)
    /\ Len(Steps) \in Nat /\ Len(Finally) \in Nat
    /\ DOMAIN Plan = 1 .. Len(Steps) + Len(Finally)
  BY PlanAssumption DEF Plan

Flags == [stop : BOOLEAN, cancelled : BOOLEAN, estop : BOOLEAN, failure : BOOLEAN]

(* A call to the daemon: refused, or a handler of its own.                 *)
LEMMA ServeShape ==
    ASSUME TypeOK, NEW i \in DOMAIN Plan, Serve(i)
    PROVE  /\ serving' \subseteq Handler /\ answer' \in [Phases -> Answers]
           /\ leases' \subseteq DOMAIN Plan
           /\ \/ UNCHANGED <<serving, leases>>
              \/ /\ serving' = serving \cup {[step |-> i, written |-> FALSE, overtaken |-> FALSE]}
                 /\ leases' = IF Plan[i] = "on" THEN leases \cup {i} ELSE leases
                 /\ Plan[i] \in Switching => serving = Reading
<1>1. PhaseOf(i) \in Phases
  BY DEF PhaseOf, Phases
<1>2. ASSUME NEW error \in {"estop", "error"}, Refuse(i, error)
      PROVE  /\ answer' \in [Phases -> Answers] /\ UNCHANGED <<serving, leases>>
             /\ serving' \subseteq Handler /\ leases' \subseteq DOMAIN Plan
  BY <1>1, <1>2 DEF Refuse, TypeOK, Answers
<1>3. CASE Admit(i) /\ ~(Plan[i] \in Switching /\ Locked)
  <2>1. answer' \in [Phases -> Answers]
    BY <1>1, <1>3 DEF Admit, TypeOK, Answers
  <2>2. /\ serving' = serving \cup {[step |-> i, written |-> FALSE, overtaken |-> FALSE]}
        /\ leases' = IF Plan[i] = "on" THEN leases \cup {i} ELSE leases
        /\ Plan[i] \in Switching => serving = Reading
    BY <1>3 DEF Admit, Locked
  <2>3. [step |-> i, written |-> FALSE, overtaken |-> FALSE] \in Handler
    BY DEF Handler
  <2>4. serving' \subseteq Handler /\ leases' \subseteq DOMAIN Plan
    BY <2>2, <2>3 DEF TypeOK
  <2> QED
    BY <2>1, <2>2, <2>4
<1> QED
  BY <1>2, <1>3 DEF Serve

LEMMA ReplyShape ==
    ASSUME TypeOK, NEW h, NEW a \in Answers, Reply(h, a) PROVE answer' \in [Phases -> Answers]
  BY DEF TypeOK, Reply

LEMMA CancelShape ==
    ASSUME TypeOK, NEW reads, CancelReads(reads) PROVE answer' \in [Phases -> Answers]
  BY DEF TypeOK, CancelReads, Answers

LEMMA HandlersStay ==
    ASSUME TypeOK
    PROVE  /\ Reading \subseteq Handler /\ Overtaken \subseteq Handler
           /\ \A h \in serving : [h EXCEPT !.written = TRUE] \in Handler
  BY DEF TypeOK, Reading, Overtaken, Handler

LEMMA NotedShape ==
    ASSUME TypeOK, NEW a
    PROVE  /\ Noted(a) \in Flags /\ (flags.stop => Noted(a).stop)
           /\ (flags.cancelled => Noted(a).cancelled)
  BY DEF TypeOK, Noted, Flags

LEMMA SkipShape ==
    ASSUME TypeOK, Len(outcomes) < Len(Steps), NEW o \in Outcomes, outcomes' = Append(outcomes, o)
    PROVE  /\ outcomes' \in Seq(Outcomes) /\ Len(outcomes') = Len(outcomes) + 1
           /\ Len(outcomes') <= Len(Steps)
           /\ Len(outcomes') \in DOMAIN outcomes' /\ outcomes'[Len(outcomes')] = o
  BY PlanShape DEF TypeOK

LEMMA StepEndsShape ==
    ASSUME TypeOK, StepLeft, at \in Working, NEW o \in Outcomes,
           outcomes' = Append(outcomes, o)
    PROVE  /\ outcomes' \in Seq(Outcomes) /\ Len(outcomes') = Len(outcomes) + 1
           /\ Len(outcomes') <= Len(Steps)
           /\ Len(outcomes') \in DOMAIN outcomes' /\ outcomes'[Len(outcomes')] = o
  BY PlanShape DEF TypeOK, StepLeft

-----------------------------------------------------------------------------
LEMMA InitControl == Init => TypeOK /\ Control
<1> SUFFICES ASSUME Init PROVE TypeOK /\ Control
  OBVIOUS
<1>1. TypeOK
  <2>1. /\ outcomes \in Seq(Outcomes) /\ Len(outcomes) = 0 /\ cleaned \in Seq(Outcomes) /\ Len(cleaned) = 0
        /\ answer \in [Phases -> Answers] /\ at \in Places
    BY DEF Init, Answers, Places
  <2>2. /\ flags \in Flags /\ cancels \in 0 .. MaxCancels /\ late \in Nat
        /\ leases \subseteq DOMAIN Plan /\ serving \subseteq Handler
    BY CancelsAssumption DEF Init, Flags
  <2>3. /\ cleanup = "none" /\ verdict = "PENDING" /\ conn = "up"
        /\ latch \in BOOLEAN /\ rail \in BOOLEAN /\ loose \in BOOLEAN
    BY DEF Init
  <2>4. Len(outcomes) <= Len(Steps) /\ Len(cleaned) <= Len(Finally)
    BY <2>1, PlanShape
  <2> QED
    BY ONLY <2>1, <2>2, <2>3, <2>4 DEF TypeOK, Flags
<1>2. Control
  BY PlanShape DEF Init, Control, StepLeft, WhyLeft, CleanupKept, LateKept, VerdictKept, Working
<1> QED
  BY <1>1, <1>2

(* The types, across the runner's own steps.                               *)
LEMMA RunnerTyped == ASSUME TypeOK, Control, Runner PROVE TypeOK'
<1> USE DEF Control
<1>1. CASE Preflight
  BY <1>1 DEF Preflight, Idle, TypeOK, Places, StepAwaits, cleanVars, benchVars
<1>2. CASE StepsDone
  BY <1>2 DEF StepsDone, Idle, TypeOK, Places, StepAwaits, cleanVars, benchVars
<1>3. CASE MayContinue
  <2>1. /\ at' \in {"status", "classify"} /\ flags' \in Flags
        /\ outcomes' = outcomes \/ \E o \in Outcomes : outcomes' = Append(outcomes, o)
        /\ Len(outcomes) < Len(Steps)
        /\ UNCHANGED <<verdict, answer, late, Idle>>
    BY <1>3, PlanShape DEF MayContinue, Skip, TypeOK, Flags, Outcomes
  <2>2. outcomes' \in Seq(Outcomes) /\ Len(outcomes') <= Len(Steps)
    BY <2>1, SkipShape DEF TypeOK
  <2> QED
    BY <2>1, <2>2 DEF Idle, TypeOK, Places, StepAwaits, cleanVars, benchVars, Flags
<1>4. CASE StatusArrives
  <2>1. /\ at' \in {"start", "classify"} /\ flags' \in Flags
        /\ outcomes' = outcomes \/ \E o \in Outcomes : outcomes' = Append(outcomes, o)
        /\ Len(outcomes) < Len(Steps)
        /\ UNCHANGED <<verdict, answer, late, Idle>>
    BY <1>4 DEF StatusArrives, Skip, TypeOK, Flags, StepLeft, Working, Outcomes
  <2>2. outcomes' \in Seq(Outcomes) /\ Len(outcomes') <= Len(Steps)
    BY <2>1, SkipShape DEF TypeOK
  <2> QED
    BY <2>1, <2>2 DEF Idle, TypeOK, Places, StepAwaits, cleanVars, benchVars, Flags
<1>5. CASE StartStep
  <2>1. /\ UNCHANGED <<verdict, cleanVars, conn, latch, rail, loose, cancels>>
        /\ late' \in Nat /\ at = "start" /\ Len(outcomes) < Len(Steps)
    BY <1>5 DEF StartStep, TypeOK, StepLeft, Working
  <2>2. Len(outcomes) + 1 \in DOMAIN Plan
    BY <2>1, PlanShape DEF TypeOK
  <2>3. /\ serving' \subseteq Handler /\ answer' \in [Phases -> Answers] /\ leases' \subseteq DOMAIN Plan
    <3>1. CASE UNCHANGED <<answer, serving, leases>>
      BY <3>1 DEF TypeOK
    <3>2. CASE Serve(Len(outcomes) + 1)
      BY <2>2, <3>2, ServeShape
    <3> QED
      BY <1>5, <3>1, <3>2 DEF StartStep
  <2>4. /\ at' \in {"step", "next", "classify"} /\ flags' \in Flags
        /\ outcomes' = outcomes \/ \E o \in Outcomes : outcomes' = Append(outcomes, o)
    BY <1>5 DEF StartStep, StepEnds, TypeOK, Flags, Outcomes
  <2>5. outcomes' \in Seq(Outcomes) /\ Len(outcomes') <= Len(Steps)
    BY <2>1, <2>4, SkipShape DEF TypeOK
  <2> QED
    BY <2>1, <2>3, <2>4, <2>5 DEF TypeOK, Places, StepAwaits, cleanVars, Flags
<1>6. CASE WaitEnds \/ StepAnswered \/ StepDropped
  <2>1. /\ at \in Working /\ at' \in {"next", "classify"}
        /\ \E o \in Outcomes : outcomes' = Append(outcomes, o)
        /\ UNCHANGED <<verdict, late, Idle>>
    BY <1>6 DEF WaitEnds, StepAnswered, StepDropped, StepEnds, Working, Outcomes
  <2>2. flags' \in Flags /\ answer' \in [Phases -> Answers]
    <3>1. Noted(answer["step"]) \in Flags
      BY NotedShape
    <3>2. flags \in Flags
      BY DEF TypeOK, Flags
    <3>3. CASE StepAnswered
      <4>1. flags' = [Noted(answer["step"]) EXCEPT !.failure = Noted(answer["step"]).failure \/ answer["step"] # "ok"]
        BY <3>3 DEF StepAnswered
      <4> QED
        BY <3>3, <4>1, <3>1 DEF StepAnswered, TypeOK, Flags, Answers
    <3>4. CASE WaitEnds \/ StepDropped
      BY <3>2, <3>4 DEF WaitEnds, StepDropped, TypeOK, Answers
    <3> QED
      BY <1>6, <3>3, <3>4
  <2>3. outcomes' \in Seq(Outcomes) /\ Len(outcomes') <= Len(Steps)
    BY <2>1, StepEndsShape
  <2> QED
    BY <2>1, <2>2, <2>3 DEF Idle, TypeOK, Places, StepAwaits, cleanVars, benchVars, Flags
<1>7. CASE StopStep
  <2>1. answer' \in [Phases -> Answers]
    BY <1>7, CancelShape DEF StopStep
  <2> QED
    BY <1>7, <2>1 DEF StopStep, TypeOK, Places, StepAwaits, cleanVars
<1>8. CASE ClassifyStop \/ Finish
  <2>1. /\ at' \in {"cleanup", "closing"} /\ flags' \in Flags
        /\ cleanup' \in {cleanup, "running"}
        /\ verdict' \in {verdict, "ABORTED", "FAILED", "PASSED"}
        /\ UNCHANGED <<outcomes, cleaned, answer, conn, latch, benchVars, cancels, late>>
    BY <1>8 DEF ClassifyStop, Finish, FinishState, Attributed, TypeOK, Flags, cleanVars
  <2> QED
    BY <2>1 DEF TypeOK, Places, StepAwaits, benchVars, Flags
<1>9. CASE ShieldEnds
  BY <1>9 DEF ShieldEnds, TypeOK, Places, StepAwaits, benchVars
<1>10. CASE CloseConnection
  BY <1>10 DEF CloseConnection, TypeOK, Places, StepAwaits, benchVars, cleanVars, Answers
<1> QED
  BY <1>1, <1>2, <1>3, <1>4, <1>5, <1>6, <1>7, <1>8, <1>9, <1>10 DEF Runner

(* The types, across the cleanup's steps.                                  *)
LEMMA CleanupTyped == ASSUME TypeOK, CleanupTask PROVE TypeOK'
<1>1. CASE CleanupStep
  <2>1. /\ Len(cleaned) < Len(Finally) /\ FinalStep \in DOMAIN Plan
        /\ UNCHANGED <<runVars, cleanup, conn, latch, rail, loose, cancels, late>>
    BY <1>1, PlanShape DEF CleanupStep, Cleaning, FinalStep, TypeOK
  <2>2. /\ serving' \subseteq Handler /\ answer' \in [Phases -> Answers] /\ leases' \subseteq DOMAIN Plan
    <3>1. CASE UNCHANGED <<answer, serving, leases>>
      BY <3>1 DEF TypeOK
    <3>2. CASE Serve(FinalStep)
      BY <2>1, <3>2, ServeShape
    <3> QED
      BY <1>1, <3>1, <3>2 DEF CleanupStep
  <2>3. /\ cleaned' = cleaned \/ \E o \in {"ok", "failed"} : cleaned' = Append(cleaned, o)
        /\ \/ flags' = flags
           \/ \E b \in BOOLEAN : flags' = [flags EXCEPT !.failure = flags.failure \/ b]
           \/ \E a \in {"ok", "lost"} : flags' = Noted(a)
    BY <1>1 DEF CleanupStep, Cleaned
  <2>4. flags' \in Flags
    <3>1. flags \in Flags /\ \A b \in BOOLEAN : [flags EXCEPT !.failure = flags.failure \/ b] \in Flags
      BY DEF TypeOK, Flags
    <3>2. \A a \in {"ok", "lost"} : Noted(a) \in Flags
      BY NotedShape
    <3> QED
      BY ONLY <2>3, <3>1, <3>2
  <2>5. cleaned' \in Seq(Outcomes) /\ Len(cleaned') <= Len(Finally)
    <3>1. /\ cleaned \in Seq(Outcomes) /\ Len(cleaned) \in Nat /\ Len(Finally) \in Nat
          /\ Len(cleaned) < Len(Finally)
      BY <2>1, PlanShape DEF TypeOK
    <3>2. cleaned' = cleaned \/ \E o \in Outcomes : cleaned' = Append(cleaned, o)
      BY <2>3 DEF Outcomes
    <3> QED
      BY ONLY <3>1, <3>2
  <2> QED
    BY <2>1, <2>2, <2>4, <2>5 DEF TypeOK, runVars, Flags
<1>2. CASE CleanupAnswered
  <2>1. /\ Len(cleaned) < Len(Finally) /\ \E o \in {"ok", "failed"} : cleaned' = Append(cleaned, o)
        /\ flags' = Noted(answer["final"])
        /\ answer' = [answer EXCEPT !["final"] = "none"]
        /\ UNCHANGED <<runVars, cleanup, conn, latch, benchVars, cancels, late>>
    BY <1>2 DEF CleanupAnswered, Cleaning, Cleaned
  <2>2. cleaned' \in Seq(Outcomes) /\ Len(cleaned') <= Len(Finally) /\ flags' \in Flags
    BY <2>1, PlanShape, NotedShape DEF TypeOK, Outcomes
  <2> QED
    BY <2>1, <2>2 DEF TypeOK, runVars, benchVars, Answers, Flags
<1>3. CASE CleanupDone
  BY <1>3 DEF CleanupDone, TypeOK, runVars, benchVars
<1> QED
  BY <1>1, <1>2, <1>3 DEF CleanupTask

(* The types, of a step that leaves the run itself alone.                  *)
LEMMA BenchTyped ==
    ASSUME TypeOK, UNCHANGED <<runVars, cleanVars, flags, cancels, late>>,
           answer' \in [Phases -> Answers], conn' \in {"up", "closed", "leaving", "gone"},
           latch' \in BOOLEAN, rail' \in BOOLEAN, loose' \in BOOLEAN,
           leases' \subseteq DOMAIN Plan, serving' \subseteq Handler
    PROVE  TypeOK'
  BY DEF TypeOK, runVars, cleanVars

(* The types, across the steps of everybody else.                          *)
LEMMA OthersTyped ==
    ASSUME TypeOK,
           \/ Daemon \/ Operator \/ LeaseLapses \/ DisconnectSafes \/ DisconnectCancels
           \/ \E p \in Phases : CallTimesOut(p)
           \/ UNCHANGED vars
    PROVE  TypeOK'
<1>1. ASSUME NEW h \in serving, HandlerWrites(h) PROVE TypeOK'
  BY <1>1, HandlersStay DEF HandlerWrites, TypeOK, runVars, cleanVars
<1>2. ASSUME NEW h \in serving, HandlerReturns(h) PROVE TypeOK'
  <2>1. \E a \in Answers : Reply(h, a)
    BY <1>2 DEF HandlerReturns, Answers
  <2>2. answer' \in [Phases -> Answers]
    BY <2>1, ReplyShape
  <2>3. /\ rail' \in BOOLEAN /\ loose' \in BOOLEAN /\ leases' \subseteq leases
        /\ serving' \subseteq serving
        /\ UNCHANGED <<runVars, cleanVars, flags, conn, latch, cancels, late>>
    BY <1>2 DEF HandlerReturns, TypeOK
  <2>4. /\ leases' \subseteq DOMAIN Plan /\ serving' \subseteq Handler /\ latch' \in BOOLEAN
        /\ conn' \in {"up", "closed", "leaving", "gone"}
    BY <2>3 DEF TypeOK
  <2> QED
    BY <2>2, <2>3, <2>4, BenchTyped
<1>3. ASSUME NEW h \in serving, HandlerFails(h) PROVE TypeOK'
  <2>1. \E a \in Answers : Reply(h, a)
    BY <1>3 DEF HandlerFails, Answers
  <2>2. answer' \in [Phases -> Answers]
    BY <2>1, ReplyShape
  <2> QED
    BY <1>3, <2>2 DEF HandlerFails, TypeOK, runVars, cleanVars, Looses
<1>4. CASE Interrupt
  <2>1. /\ at' \in Places /\ cleanup' \in {"running", "killed", "left", cleanup}
        /\ flags' \in Flags /\ answer' \in [Phases -> Answers]
    BY <1>4 DEF Interrupt, InterruptSteps, InterruptPreflight, InterruptCleanup, TypeOK, Flags,
                Answers, Places
  <2>2. cancels' \in 0 .. MaxCancels
    BY <1>4, CancelsAssumption DEF Interrupt, TypeOK
  <2> QED
    BY <1>4, <2>1, <2>2 DEF Interrupt, TypeOK, benchVars, Flags
<1>5. CASE Cancel
  BY <1>5 DEF Cancel, TypeOK, runVars, Idle, cleanVars, benchVars
<1>6. CASE Estop
  <2>1. answer' \in [Phases -> Answers]
    BY <1>6, CancelShape DEF Estop
  <2> QED
    BY <1>6, <2>1, HandlersStay, BenchTyped DEF Estop, DriveSafe, TypeOK
<1>7. CASE EstopClear
  BY <1>7, BenchTyped DEF EstopClear, TypeOK, benchVars
<1>8. CASE LeaseLapses
  <2>1. /\ rail' = FALSE /\ loose' = FALSE /\ leases' \subseteq leases
        /\ serving' = Overtaken \cup Reading
        /\ UNCHANGED <<runVars, cleanVars, answer, flags, conn, latch, cancels, late>>
    BY <1>8 DEF LeaseLapses, DriveSafe
  <2>2. /\ leases' \subseteq DOMAIN Plan /\ serving' \subseteq Handler
        /\ answer' \in [Phases -> Answers] /\ latch' \in BOOLEAN
        /\ conn' \in {"up", "closed", "leaving", "gone"}
    BY <2>1, HandlersStay DEF TypeOK
  <2> QED
    BY <2>1, <2>2, BenchTyped
<1>9. CASE DisconnectSafes
  <2>1. /\ conn' = "leaving" /\ UNCHANGED <<runVars, cleanVars, answer, flags, latch, cancels, late>>
        /\ \/ UNCHANGED benchVars
           \/ /\ rail' = FALSE /\ loose' = FALSE /\ leases' \subseteq leases
              /\ serving' = Overtaken \cup Reading
    BY <1>9 DEF DisconnectSafes, DriveSafe
  <2>2. answer' \in [Phases -> Answers] /\ latch' \in BOOLEAN
    BY <2>1 DEF TypeOK
  <2>3. CASE UNCHANGED benchVars
    BY <2>1, <2>2, <2>3, BenchTyped DEF TypeOK, benchVars
  <2>4. CASE /\ rail' = FALSE /\ loose' = FALSE /\ leases' \subseteq leases
             /\ serving' = Overtaken \cup Reading
    <3>1. leases' \subseteq DOMAIN Plan /\ serving' \subseteq Handler
      BY <2>4, HandlersStay DEF TypeOK
    <3> QED
      BY <2>1, <2>2, <2>4, <3>1, BenchTyped
  <2> QED
    BY <2>1, <2>3, <2>4
<1>10. CASE DisconnectCancels
  BY <1>10 DEF DisconnectCancels, TypeOK, runVars, cleanVars, Looses
<1>11. ASSUME NEW p \in Phases, CallTimesOut(p) PROVE TypeOK'
  BY <1>11 DEF CallTimesOut, TypeOK, runVars, cleanVars, benchVars, Answers
<1>12. CASE UNCHANGED vars
  BY <1>12 DEF vars, TypeOK, runVars, cleanVars, benchVars
<1> QED
  BY <1>1, <1>2, <1>3, <1>4, <1>5, <1>6, <1>7, <1>8, <1>9, <1>10, <1>11, <1>12
     DEF Daemon, Operator

-----------------------------------------------------------------------------
(* The control, across the runner's own steps.                             *)
LEMMA RunnerControl == ASSUME TypeOK, Control, Runner PROVE Control'
<1> USE DEF Control
<1>1. CASE Preflight
  BY <1>1 DEF Preflight, Idle, cleanVars, StepLeft, WhyLeft, CleanupKept, LateKept, VerdictKept, Working
<1>2. CASE StepsDone
  BY <1>2 DEF StepsDone, Idle, cleanVars, StepLeft, WhyLeft, CleanupKept, LateKept, VerdictKept, Working
<1>3. CASE MayContinue \/ StatusArrives
  <2>1. /\ at \in {"next", "status"} /\ at' \in {"status", "start", "classify"}
        /\ UNCHANGED <<verdict, cleaned, cleanup, late>> /\ Len(outcomes) < Len(Steps)
        /\ flags.stop => flags'.stop
        /\ at' \in {"status", "start"} =>
               UNCHANGED <<outcomes, flags>> /\ (at' = "status" => ~flags.stop) /\ (at' = "start" => at = "status")
        /\ at' = "classify" => outcomes' = Append(outcomes, "skipped")
    BY <1>3 DEF MayContinue, StatusArrives, Skip, Idle, cleanVars, StepLeft, Working, TypeOK
  <2>2. StepLeft'
    BY <2>1 DEF StepLeft, Working
  <2>3. WhyLeft'
    BY <2>1, SkipShape DEF WhyLeft, Outcomes
  <2>4. CleanupKept'
    BY <2>1 DEF CleanupKept
  <2>5. LateKept'
    BY <2>1 DEF LateKept, TypeOK
  <2>6. VerdictKept'
    BY <2>1 DEF VerdictKept
  <2> QED
    BY <2>2, <2>3, <2>4, <2>5, <2>6
<1>4. CASE StartStep
  <2>1. /\ at = "start" /\ at' \in {"step", "next", "classify"} /\ late = 0
        /\ late' = (IF flags.stop THEN late + 1 ELSE late) /\ flags'.stop = flags.stop
        /\ UNCHANGED <<verdict, cleaned, cleanup>> /\ Len(outcomes) < Len(Steps)
        /\ at' = "step" => UNCHANGED outcomes
        /\ at' = "classify" => outcomes' = Append(outcomes, "failed")
    BY <1>4 DEF StartStep, StepEnds, cleanVars, StepLeft, Working, LateKept, TypeOK
  <2>2. StepLeft'
    BY <2>1 DEF StepLeft, Working
  <2>3. WhyLeft'
    BY <2>1, SkipShape DEF WhyLeft, Outcomes
  <2>4. CleanupKept'
    BY <2>1 DEF CleanupKept
  <2>5. LateKept'
    BY <2>1 DEF LateKept
  <2>6. VerdictKept'
    BY <2>1 DEF VerdictKept
  <2> QED
    BY <2>2, <2>3, <2>4, <2>5, <2>6
<1>5. CASE WaitEnds \/ StepAnswered \/ StepDropped
  <2>1. /\ at \in {"step", "winding"} /\ UNCHANGED <<verdict, cleaned, cleanup, late>>
        /\ \E o \in Outcomes : outcomes' = Append(outcomes, o) /\ at' = IF o = "ok" THEN "next" ELSE "classify"
    BY <1>5 DEF WaitEnds, StepAnswered, StepDropped, StepEnds, Outcomes, Idle, cleanVars
  <2>2. flags.stop => flags'.stop
    <3>1. CASE WaitEnds \/ StepDropped
      BY <3>1 DEF WaitEnds, StepDropped
    <3>2. CASE StepAnswered
      <4>1. /\ flags' = [Noted(answer["step"]) EXCEPT !.failure = Noted(answer["step"]).failure \/ answer["step"] # "ok"]
        BY <3>2 DEF StepAnswered
      <4>2. Noted(answer["step"]) \in Flags /\ (flags.stop => Noted(answer["step"]).stop)
        BY NotedShape
      <4> QED
        BY <4>1, <4>2 DEF Flags
    <3> QED
      BY <1>5, <3>1, <3>2
  <2>3. PICK o \in Outcomes : outcomes' = Append(outcomes, o) /\ at' = IF o = "ok" THEN "next" ELSE "classify"
    BY <2>1
  <2>4. Len(outcomes') \in DOMAIN outcomes' /\ outcomes'[Len(outcomes')] = o
    BY <2>1, <2>3, StepEndsShape DEF Working
  <2>5. StepLeft' /\ WhyLeft'
    BY <2>3, <2>4 DEF StepLeft, WhyLeft, Working
  <2>6. CleanupKept' /\ LateKept' /\ VerdictKept'
    BY <2>1, <2>2, <2>3 DEF CleanupKept, LateKept, VerdictKept
  <2> QED
    BY <2>5, <2>6
<1>6. CASE StopStep
  BY <1>6 DEF StopStep, cleanVars, StepLeft, WhyLeft, CleanupKept, LateKept, VerdictKept, Working
<1>7. CASE ClassifyStop
  <2>1. flags'.stop = flags.stop
    BY <1>7 DEF ClassifyStop, Attributed, TypeOK
  <2> QED
    BY <1>7, <2>1 DEF ClassifyStop, StepLeft, WhyLeft, CleanupKept, LateKept, VerdictKept, Working
<1>8. CASE Finish
  <2>1. /\ at \in {"cleanup", "attribute"} /\ at' = "closing"
        /\ UNCHANGED <<outcomes, cleaned, cleanup, late>> /\ FinishState(flags')
        /\ at = "cleanup" => cleanup = "done" /\ flags' = flags
        /\ flags'.stop = flags.stop /\ flags'.cancelled = flags.cancelled
    BY <1>8 DEF Finish, Attributed, cleanVars, TypeOK
  <2>2. VerdictKept'
    <3>1. CASE at = "attribute"
      BY <2>1, <3>1 DEF WhyLeft, FinishState, VerdictKept
    <3>2. CASE at = "cleanup"
      BY <2>1, <3>2 DEF WhyLeft, FinishState, VerdictKept
    <3> QED
      BY <2>1, <3>1, <3>2
  <2> QED
    BY <2>1, <2>2 DEF StepLeft, WhyLeft, CleanupKept, LateKept, Working
<1>9. CASE ShieldEnds
  BY <1>9 DEF ShieldEnds, StepLeft, WhyLeft, CleanupKept, LateKept, VerdictKept, Working
<1>10. CASE CloseConnection
  BY <1>10 DEF CloseConnection, cleanVars, StepLeft, WhyLeft, CleanupKept, LateKept, VerdictKept, Working
<1> QED
  BY <1>1, <1>2, <1>3, <1>4, <1>5, <1>6, <1>7, <1>8, <1>9, <1>10 DEF Runner

(* The control, across the cleanup's steps.                                *)
LEMMA CleanupControl == ASSUME TypeOK, Control, CleanupTask PROVE Control'
<1> USE DEF Control
<1>1. /\ UNCHANGED <<at, outcomes, verdict, late>> /\ cleanup \in {"running", "left"}
      /\ \/ cleanup' = cleanup
         \/ cleanup' = "done" /\ cleaned' = cleaned /\ Len(cleaned) = Len(Finally)
  BY DEF CleanupTask, CleanupStep, CleanupAnswered, CleanupDone, Cleaning, runVars
<1>2. (flags.stop => flags'.stop) /\ (flags.cancelled => flags'.cancelled)
  <2>1. \/ flags' = flags
        \/ \E b \in BOOLEAN : flags' = [flags EXCEPT !.failure = flags.failure \/ b]
        \/ \E a \in {"ok", "lost", answer["final"]} : flags' = Noted(a)
    BY DEF CleanupTask, CleanupStep, CleanupAnswered, CleanupDone, Cleaned
  <2>2. \A b \in BOOLEAN : /\ [flags EXCEPT !.failure = flags.failure \/ b].stop = flags.stop
                           /\ [flags EXCEPT !.failure = flags.failure \/ b].cancelled = flags.cancelled
    BY DEF TypeOK
  <2>3. \A a : (flags.stop => Noted(a).stop) /\ (flags.cancelled => Noted(a).cancelled)
    BY NotedShape
  <2> QED
    BY ONLY <2>1, <2>2, <2>3
<1> QED
  BY <1>1, <1>2 DEF StepLeft, WhyLeft, CleanupKept, LateKept, VerdictKept, Working

(* The control, across the steps of everybody else.                        *)
LEMMA OthersControl ==
    ASSUME TypeOK, Control,
           \/ Daemon \/ Operator \/ LeaseLapses \/ DisconnectSafes \/ DisconnectCancels
           \/ \E p \in Phases : CallTimesOut(p)
           \/ UNCHANGED vars
    PROVE  Control'
<1> USE DEF Control
<1>1. CASE UNCHANGED <<runVars, cleanVars, flags, late>>
  BY <1>1 DEF runVars, cleanVars, StepLeft, WhyLeft, CleanupKept, LateKept, VerdictKept
<1>2. CASE Cancel
  <2>1. /\ flags'.stop /\ flags'.cancelled
        /\ UNCHANGED <<runVars, cleanVars, late>>
    BY <1>2 DEF Cancel, Idle, TypeOK
  <2> QED
    BY <2>1 DEF runVars, cleanVars, StepLeft, WhyLeft, CleanupKept, LateKept, VerdictKept
<1>3. CASE Interrupt
  <2>1. UNCHANGED <<outcomes, verdict, cleaned, late>>
    BY <1>3 DEF Interrupt
  <2>2. CASE InterruptSteps
    <3>1. /\ at \in StepAwaits /\ flags'.stop /\ flags'.cancelled
          /\ cleanup' = "running" /\ at' = "shielded"
      BY <2>2 DEF InterruptSteps, TypeOK
    <3> QED
      BY <2>1, <3>1
         DEF StepAwaits, StepLeft, WhyLeft, CleanupKept, LateKept, VerdictKept, Working
  <2>3. CASE InterruptPreflight
    BY <2>1, <2>3 DEF InterruptPreflight, StepLeft, WhyLeft, CleanupKept, LateKept, VerdictKept, Working
  <2>4. CASE InterruptCleanup
    BY <2>1, <2>4
       DEF InterruptCleanup, StepLeft, WhyLeft, CleanupKept, LateKept, VerdictKept, Working
  <2> QED
    BY <1>3, <2>2, <2>3, <2>4 DEF Interrupt
<1> QED
  BY <1>1, <1>2, <1>3
     DEF Daemon, HandlerWrites, HandlerReturns, HandlerFails, Operator, Estop, EstopClear,
         LeaseLapses, DisconnectSafes, DisconnectCancels, CallTimesOut, vars

LEMMA ControlStep == TypeOK /\ Control /\ [Next]_vars => TypeOK' /\ Control'
<1> SUFFICES ASSUME TypeOK, Control, [Next]_vars PROVE TypeOK' /\ Control'
  OBVIOUS
<1>1. CASE Runner
  BY <1>1, RunnerTyped, RunnerControl
<1>2. CASE CleanupTask
  BY <1>2, CleanupTyped, CleanupControl
<1>3. CASE \/ Daemon \/ Operator \/ LeaseLapses \/ DisconnectSafes \/ DisconnectCancels
           \/ \E p \in Phases : CallTimesOut(p)
           \/ UNCHANGED vars
  BY <1>3, OthersTyped, OthersControl
<1> QED
  BY <1>1, <1>2, <1>3 DEF Next

LEMMA AlwaysControlled == Spec => [](TypeOK /\ Control)
  BY InitControl, ControlStep, PTL DEF Spec

(* TypeOK for any plan (runner.py: one record per step, never more).       *)
THEOREM RunTyped == Spec => []TypeOK
  BY AlwaysControlled, PTL

(* PassedMeansPassed for any plan: _finish_state says PASSED of a run whose*)
(* every step succeeded and whose cleanup was gone through, and of no other.*)
THEOREM PassedOnlyIfPassed == Spec => []PassedMeansPassed
<1>1. TypeOK /\ Control => PassedMeansPassed
  BY DEF Control, VerdictKept, PassedMeansPassed
<1> QED
  BY <1>1, AlwaysControlled, PTL

(* OneLateStep for any plan: the stop flag set behind _may_continue's back *)
(* costs one step.                                                         *)
THEOREM AtMostOneLate == Spec => []OneLateStep
<1>1. TypeOK /\ Control => OneLateStep
  BY DEF Control, LateKept, OneLateStep
<1> QED
  BY <1>1, AlwaysControlled, PTL

(* CleanupBegun for any plan and any number of cancellations of run().     *)
THEOREM CleanupIsBegun == Spec => []CleanupBegun
<1>1. TypeOK /\ Control => CleanupBegun
  BY DEF Control, CleanupKept, CleanupBegun
<1> QED
  BY <1>1, AlwaysControlled, PTL

-----------------------------------------------------------------------------
(* The inductive invariant of the output, in named parts.                  *)

\* The device lock: one handler that switches at a time.
OneAtATime ==
    \A g, h \in serving : Kind(g) \in Switching /\ Kind(h) \in Switching => g = h

\* A handler that switches on holds its lease until a safe state takes it and marks
\* the handler; one that has switched off has done so.
HandlersKept ==
    /\ \A h \in serving : Kind(h) = "on" /\ ~h.overtaken => h.step \in leases
    /\ \A h \in serving : Kind(h) = "off" /\ h.written => ~rail

\* The connection outlives the run, and what is left of it cannot keep an output on.
ConnKept ==
    /\ conn # "up" => at = "over"
    /\ conn \in {"leaving", "gone"} => \A h \in serving : Kind(h) = "on" => h.overtaken
    /\ conn = "gone" => serving = {}

\* No step is asked for twice: what was asked for lies behind the next step to ask.
Asked == leases \cup {h.step : h \in serving}
Before == {"preflight", "next", "status", "start"}
AskedOnce ==
    /\ \A i \in Asked : i <= Len(Steps) =>
          i <= Len(outcomes) + 1 /\ (at \in Before => i <= Len(outcomes))
    /\ \A i \in Asked : i <= FinalStep
    /\ cleanup # "killed" /\ answer["final"] = "none" => FinalStep \notin Asked
    /\ cleanup = "killed" => at \in {"closing", "over"}

\* An output that is on has a handler that will answer for it, or a lease that no
\* handler under way can take with it.
Sustained ==
    rail /\ ~loose =>
        \/ \E h \in serving : Kind(h) = "on" /\ h.written
        \/ conn \in {"up", "closed"} /\ \E l \in leases : \A h \in serving : h.step # l

Output == OneAtATime /\ HandlersKept /\ ConnKept /\ AskedOnce /\ Sustained

-----------------------------------------------------------------------------
LEMMA InitOutput == Init => Output
  BY PlanShape DEF Init, Output, OneAtATime, HandlersKept, ConnKept, AskedOnce, Asked, Sustained,
         FinalStep

LEMMA Counts ==
    ASSUME TypeOK
    PROVE  /\ Len(outcomes) \in Nat /\ Len(cleaned) \in Nat /\ Len(Steps) \in Nat
           /\ FinalStep = Len(Steps) + Len(cleaned) + 1
           /\ Asked \subseteq Nat
  BY PlanShape DEF TypeOK, FinalStep, Asked, Handler

(* A step whose handlers and leases are what they were, or fewer reads.    *)
LEMMA Untouched ==
    ASSUME Output, serving' \subseteq serving, serving \ serving' \subseteq Reading,
           UNCHANGED <<rail, loose, leases>>, conn' = conn \/ (conn = "up" /\ conn' = "closed")
    PROVE  OneAtATime' /\ HandlersKept' /\ Sustained' /\ Asked' \subseteq Asked
<1>1. /\ \A g, h \in serving : Kind(g) \in Switching /\ Kind(h) \in Switching => g = h
      /\ \A h \in serving : Kind(h) = "on" => h \in serving'
  BY DEF Output, OneAtATime, Reading
<1>2. OneAtATime' /\ HandlersKept'
  BY <1>1 DEF OneAtATime, HandlersKept, Output, Kind
<1>3. Sustained'
  BY <1>1 DEF Output, Sustained, Kind
<1>4. Asked' \subseteq Asked
  BY DEF Asked
<1> QED
  BY <1>2, <1>3, <1>4

(* A call to the daemon for a step not asked for before.                   *)
LEMMA ServeOutput ==
    ASSUME TypeOK, Output, NEW i \in DOMAIN Plan, Serve(i), i \notin Asked, conn = "up",
           UNCHANGED <<rail, loose, conn>>
    PROVE  OneAtATime' /\ HandlersKept' /\ Sustained' /\ Asked' \subseteq Asked \cup {i}
<1>1. CASE UNCHANGED <<serving, leases>>
  BY <1>1, Untouched
<1>2. CASE /\ serving' = serving \cup {[step |-> i, written |-> FALSE, overtaken |-> FALSE]}
           /\ leases' = IF Plan[i] = "on" THEN leases \cup {i} ELSE leases
           /\ Plan[i] \in Switching => serving = Reading
  <2> DEFINE new == [step |-> i, written |-> FALSE, overtaken |-> FALSE]
  <2>1. Kind(new) = Plan[i] /\ new.step = i /\ ~new.written
    BY DEF Kind
  <2> HIDE DEF new
  <2>2. serving' = serving \cup {new}
    BY <1>2 DEF new
  <2>3. OneAtATime'
    BY <1>2, <2>1, <2>2 DEF Output, OneAtATime, Reading, Switching, Kind
  <2>4. HandlersKept'
    BY <1>2, <2>1, <2>2 DEF Output, HandlersKept, Kind
  <2>5. Asked' \subseteq Asked \cup {i}
    BY <1>2, <2>1, <2>2 DEF Asked
  <2>6. Sustained'
    <3> SUFFICES ASSUME rail, ~loose
                 PROVE  \/ \E h \in serving' : Kind(h) = "on" /\ h.written
                        \/ \E l \in leases' : \A h \in serving' : h.step # l
      BY DEF Sustained, Kind
    <3>1. CASE \E h \in serving : Kind(h) = "on" /\ h.written
      BY <2>2, <3>1
    <3>2. CASE \E l \in leases : \A h \in serving : h.step # l
      <4>1. PICK l \in leases : \A h \in serving : h.step # l
        BY <3>2
      <4>2. l # i /\ l \in leases'
        BY <1>2 DEF Asked
      <4> QED
        BY <2>1, <2>2, <4>1, <4>2
    <3> QED
      BY <3>1, <3>2 DEF Output, Sustained
  <2> QED
    BY <2>3, <2>4, <2>5, <2>6
<1> QED
  BY <1>1, <1>2, ServeShape

(* The output, across the runner's own steps.                              *)
LEMMA RunnerOutput == ASSUME TypeOK, TypeOK', Control, Output, Runner PROVE Output'
<1>1. cleaned' = cleaned /\ FinalStep' = FinalStep
  BY DEF Runner, Preflight, StepsDone, MayContinue, StatusArrives, StartStep, WaitEnds,
         StepAnswered, StopStep, StepDropped, ClassifyStop, Finish, ShieldEnds, CloseConnection,
         Idle, cleanVars, FinalStep
<1>2. /\ conn' = conn \/ (conn = "up" /\ conn' = "closed" /\ at' = "over")
      /\ rail' = rail /\ loose' = loose
  BY DEF Runner, Preflight, StepsDone, MayContinue, StatusArrives, StartStep, WaitEnds,
         StepAnswered, StopStep, StepDropped, ClassifyStop, Finish, ShieldEnds, CloseConnection,
         Idle, benchVars, Output, ConnKept, TypeOK
<1>3. /\ at # "over"
      /\ cleanup' = "killed" => cleanup = "killed" /\ at' \in {"closing", "over"}
  BY DEF Runner, Preflight, StepsDone, MayContinue, StatusArrives, StartStep, WaitEnds,
         StepAnswered, StopStep, StepDropped, ClassifyStop, Finish, ShieldEnds, CloseConnection,
         Idle, cleanVars, Output, AskedOnce
<1>4. conn = "up"
  BY <1>3 DEF Output, ConnKept
<1>5. CASE StartStep /\ Step \notin {"assert", "wait"}
  <2> DEFINE i == Len(outcomes) + 1
  <2>0. /\ at = "start" /\ at' = "step" /\ UNCHANGED <<outcomes, conn, cleanup>> /\ Serve(i)
    BY <1>5 DEF StartStep, cleanVars
  <2>1. /\ at = "start" /\ at' = "step" /\ UNCHANGED <<outcomes, conn, cleanup>>
        /\ i <= Len(Steps) /\ i \in DOMAIN Plan /\ i \in Nat
    <3>1. Len(outcomes) < Len(Steps)
      BY <2>0 DEF Control, StepLeft, Working
    <3> QED
      BY <2>0, <3>1, PlanShape, Counts
  <2>2. i \notin Asked
    BY <2>1, Counts DEF Output, AskedOnce, Before
  <2>3. OneAtATime' /\ HandlersKept' /\ Sustained' /\ Asked' \subseteq Asked \cup {i}
    BY <1>2, <1>4, <2>0, <2>1, <2>2, ServeOutput
  <2>4. ConnKept'
    BY <1>4, <2>1 DEF ConnKept
  <2>5. answer'["final"] = answer["final"]
    <3>1. PhaseOf(i) = "step" /\ answer \in [Phases -> Answers]
      BY <2>1 DEF PhaseOf, TypeOK
    <3>2. \E a : answer' = [answer EXCEPT ![PhaseOf(i)] = a]
      BY <2>0 DEF Serve, Refuse, Admit
    <3> QED
      BY <3>1, <3>2 DEF Phases
  <2>6. FinalStep \notin Asked => FinalStep \notin Asked'
    BY <2>1, <2>3, Counts
  <2>7. AskedOnce'
    <3>1. \A j \in Asked' : j \in Asked \/ j = i
      BY <2>3
    <3>2. i <= FinalStep /\ i \in Nat
      BY <2>1, Counts
    <3> QED
      BY <1>1, <2>1, <2>5, <2>6, <3>1, <3>2 DEF Output, AskedOnce, Before
  <2> QED
    BY <2>3, <2>4, <2>7 DEF Output
<1>6. CASE ~(StartStep /\ Step \notin {"assert", "wait"})
  <2>1. /\ serving' \subseteq serving /\ serving \ serving' \subseteq Reading /\ leases' = leases
    BY <1>6
       DEF Runner, Preflight, StepsDone, MayContinue, StatusArrives, StartStep, WaitEnds,
         StepAnswered, StopStep, StepDropped, ClassifyStop, Finish, ShieldEnds, CloseConnection,
         Idle, benchVars
  <2>2. OneAtATime' /\ HandlersKept' /\ Sustained' /\ Asked' \subseteq Asked
    BY <1>2, <2>1, Untouched
  <2>3. ConnKept'
    BY <1>2, <1>3, <1>4 DEF ConnKept
  <2>4. answer'["final"] = "none" => answer["final"] = "none"
    BY <1>6
       DEF Runner, Preflight, StepsDone, MayContinue, StatusArrives, StartStep, WaitEnds,
         StepAnswered, StopStep, StepDropped, ClassifyStop, Finish, ShieldEnds, CloseConnection,
         CancelReads, Idle, TypeOK, Phases
  <2>5. \/ outcomes' = outcomes /\ (at' \in Before => at \in Before)
        \/ \E o \in Outcomes : outcomes' = Append(outcomes, o)
    BY <1>6
       DEF Runner, Preflight, StepsDone, MayContinue, StatusArrives, StartStep, WaitEnds,
         StepAnswered, StopStep, StepDropped, ClassifyStop, Finish, ShieldEnds, CloseConnection,
         StepEnds, Skip, Idle, Before, Outcomes
  <2>6. \/ Len(outcomes') = Len(outcomes) /\ (at' \in Before => at \in Before)
        \/ Len(outcomes') = Len(outcomes) + 1
    BY <2>5, PlanShape DEF TypeOK
  <2>7. AskedOnce'
    <3>1. cleanup' # "killed" /\ answer'["final"] = "none" => FinalStep \notin Asked
      <4>1. cleanup' # "killed" => cleanup # "killed"
        BY DEF Runner, Preflight, StepsDone, MayContinue, StatusArrives, StartStep, WaitEnds,
             StepAnswered, StopStep, StepDropped, ClassifyStop, Finish, ShieldEnds, CloseConnection,
             Idle, cleanVars, Output, AskedOnce
      <4> QED
        BY <2>4, <4>1 DEF Output, AskedOnce
    <3>2. \A j \in Asked' : j \in Asked /\ j \in Nat
      BY <2>2, Counts
    <3>3. /\ \A j \in Asked : j <= Len(Steps) =>
                j <= Len(outcomes) + 1 /\ (at \in Before => j <= Len(outcomes))
          /\ \A j \in Asked : j <= FinalStep
      BY DEF Output, AskedOnce
    <3>4. \A j \in Asked' : j <= Len(Steps) =>
                j <= Len(outcomes') + 1 /\ (at' \in Before => j <= Len(outcomes'))
      BY ONLY <2>6, <3>2, <3>3, Counts
    <3> QED
      BY <1>1, <1>3, <3>1, <3>2, <3>3, <3>4 DEF AskedOnce
  <2> QED
    BY <2>2, <2>3, <2>7 DEF Output
<1> QED
  BY <1>5, <1>6

(* The output, across the cleanup's steps.                                 *)
LEMMA CleanupOutput == ASSUME TypeOK, TypeOK', Control, Output, CleanupTask PROVE Output'
<1>1. /\ UNCHANGED <<at, outcomes, conn, rail, loose>> /\ cleanup # "killed" /\ cleanup' # "killed"
  BY DEF CleanupTask, CleanupStep, CleanupAnswered, CleanupDone, Cleaning, runVars, benchVars
<1>2. CASE /\ CleanupStep /\ Plan[FinalStep] \notin {"assert", "wait"} /\ conn = "up"
  <2>1. /\ Serve(FinalStep) /\ answer["final"] = "none" /\ Len(cleaned) < Len(Finally)
        /\ UNCHANGED <<cleaned, cleanup>>
    BY <1>2 DEF CleanupStep, Cleaning
  <2>2. FinalStep \in DOMAIN Plan /\ FinalStep \in Nat /\ FinalStep > Len(Steps) /\ FinalStep' = FinalStep
    BY <2>1, PlanShape, Counts DEF FinalStep
  <2>3. FinalStep \notin Asked
    BY <1>1, <2>1 DEF Output, AskedOnce
  <2>4. OneAtATime' /\ HandlersKept' /\ Sustained' /\ Asked' \subseteq Asked \cup {FinalStep}
    BY <1>1, <1>2, <2>1, <2>2, <2>3, ServeOutput
  <2>5. ConnKept'
    BY <1>1, <1>2 DEF ConnKept
  <2>6. answer'["final"] # "none"
    <3>1. PhaseOf(FinalStep) = "final" /\ answer \in [Phases -> Answers]
      BY <2>2, Counts DEF PhaseOf, TypeOK
    <3>2. \E a \in {"waiting", "error", "estop"} : answer' = [answer EXCEPT ![PhaseOf(FinalStep)] = a]
      BY <2>1 DEF Serve, Refuse, Admit
    <3> QED
      BY <3>1, <3>2 DEF Phases
  <2>7. AskedOnce'
    <3>1. \A j \in Asked' : j \in Asked \/ j = FinalStep
      BY <2>4
    <3> QED
      BY <1>1, <2>2, <2>6, <3>1, Counts DEF Output, AskedOnce
  <2> QED
    BY <2>4, <2>5, <2>7 DEF Output
<1>3. CASE ~(CleanupStep /\ Plan[FinalStep] \notin {"assert", "wait"} /\ conn = "up")
  <2>1. UNCHANGED <<serving, leases>>
    BY <1>3 DEF CleanupTask, CleanupStep, CleanupAnswered, CleanupDone, benchVars
  <2>2. OneAtATime' /\ HandlersKept' /\ Sustained' /\ Asked' = Asked
    BY <1>1, <2>1, Untouched DEF Asked
  <2>3. ConnKept'
    BY <1>1, <2>1 DEF Output, ConnKept, Kind
  <2>4. \/ cleaned' = cleaned /\ answer' = answer
        \/ \E o \in Outcomes : cleaned' = Append(cleaned, o)
    BY <1>3 DEF CleanupTask, CleanupStep, CleanupAnswered, CleanupDone, Cleaned, Outcomes
  <2>5. \/ FinalStep' = FinalStep /\ answer' = answer
        \/ FinalStep' = FinalStep + 1
    <3>1. cleaned \in Seq(Outcomes) /\ Len(Steps) \in Nat /\ Len(cleaned) \in Nat
      BY Counts DEF TypeOK
    <3>2. \A o \in Outcomes : Len(Append(cleaned, o)) = Len(cleaned) + 1
      BY <3>1
    <3> QED
      BY ONLY <2>4, <3>1, <3>2 DEF FinalStep
  <2>6. AskedOnce'
    BY <1>1, <2>2, <2>5, Counts DEF Output, AskedOnce
  <2> QED
    BY <2>2, <2>3, <2>6 DEF Output
<1> QED
  BY <1>2, <1>3

(* A step that leaves the run's own bookkeeping alone keeps what it has    *)
(* asked for asked once.                                                   *)
LEMMA AskedKept ==
    ASSUME TypeOK, AskedOnce, Asked' \subseteq Asked, UNCHANGED <<runVars, cleanVars>>,
           answer'["final"] = "none" => answer["final"] = "none"
    PROVE  AskedOnce'
<1>1. FinalStep' = FinalStep
  BY DEF FinalStep, cleanVars
<1> QED
  BY <1>1 DEF AskedOnce, runVars, cleanVars

(* A safe state: the output is off, and a switching handler is marked.     *)
LEMMA SafeOutput ==
    ASSUME TypeOK, Output, rail' = FALSE, leases' \subseteq leases,
           serving' \subseteq Overtaken \cup Reading, UNCHANGED at,
           conn' = conn \/ (conn = "closed" /\ conn' = "leaving")
    PROVE  /\ OneAtATime' /\ HandlersKept' /\ Sustained' /\ ConnKept' /\ Asked' \subseteq Asked
<1>1. ASSUME NEW h \in Reading
      PROVE  h \in serving /\ Kind(h) \notin Switching
  BY DEF Reading, Switching
<1>2. ASSUME NEW h \in Overtaken
      PROVE  h.overtaken /\ \E g \in serving : h = [g EXCEPT !.overtaken = TRUE] /\ h.step = g.step
  BY DEF Overtaken, TypeOK, Handler
<1>3. OneAtATime'
  <2> SUFFICES ASSUME NEW g \in serving', NEW h \in serving', Kind(g) \in Switching, Kind(h) \in Switching
               PROVE  g = h
    BY DEF OneAtATime, Kind
  <2>1. g \in Overtaken /\ h \in Overtaken
    BY <1>1
  <2>2. PICK a \in serving, b \in serving :
          /\ g = [a EXCEPT !.overtaken = TRUE] /\ g.step = a.step
          /\ h = [b EXCEPT !.overtaken = TRUE] /\ h.step = b.step
    BY <1>2, <2>1
  <2>3. a = b
    BY <2>2 DEF Output, OneAtATime, Kind
  <2> QED
    BY <2>2, <2>3
<1>4. \A h \in serving' : Kind(h) = "on" => h.overtaken
  BY <1>1, <1>2 DEF Switching
<1>5. HandlersKept' /\ Sustained'
  BY <1>4 DEF HandlersKept, Sustained, Kind
<1>6. ConnKept'
  <2>1. conn' = "gone" => serving = {}
    BY DEF Output, ConnKept
  <2>2. serving = {} => serving' = {}
    BY DEF Overtaken, Reading
  <2> QED
    BY <1>4, <2>1, <2>2 DEF Output, ConnKept, Kind
<1>7. Asked' \subseteq Asked
  BY <1>1, <1>2 DEF Asked
<1> QED
  BY <1>3, <1>5, <1>6, <1>7

(* Only an awaited answer changes, and never to none.                      *)
LEMMA AnswersStay ==
    ASSUME TypeOK
    PROVE  /\ \A h, a : a # "none" /\ Reply(h, a) => (answer'["final"] = "none" => answer["final"] = "none")
           /\ \A reads : CancelReads(reads) => (answer'["final"] = "none" => answer["final"] = "none")
  BY DEF TypeOK, Reply, CancelReads, Phases

(* The handlers: what each leaves on is answered for.                      *)
LEMMA WriteOutput ==
    ASSUME TypeOK, Output, NEW h \in serving, HandlerWrites(h) PROVE Output'
<1> DEFINE w == [h EXCEPT !.written = TRUE]
<1>1. /\ Kind(h) \in Switching /\ rail' = (Kind(h) = "on") /\ serving' = (serving \ {h}) \cup {w}
      /\ UNCHANGED <<runVars, cleanVars, answer, flags, conn, latch, leases, cancels, late>>
  BY DEF HandlerWrites
<1>2. w.step = h.step /\ w.overtaken = h.overtaken /\ w.written /\ Kind(w) = Kind(h)
  BY DEF TypeOK, Handler, Kind
<1> HIDE DEF w
<1>3. \A g \in serving : Kind(g) \in Switching => g = h
  BY <1>1 DEF Output, OneAtATime
<1>4. \A g \in serving' : Kind(g) \in Switching => g = w
  BY <1>1, <1>3
<1>5. OneAtATime'
  BY <1>4 DEF OneAtATime, Kind
<1>6. HandlersKept'
  BY <1>1, <1>2, <1>4 DEF Output, HandlersKept, Kind, Switching
<1>7. ConnKept'
  BY <1>1, <1>2, <1>4 DEF Output, ConnKept, Kind, Switching, runVars
<1>8. Sustained'
  BY <1>1, <1>2 DEF Sustained, Kind
<1>9. Asked' \subseteq Asked
  BY <1>1, <1>2 DEF Asked
<1>10. AskedOnce'
  BY <1>1, <1>9, AskedKept DEF Output
<1> QED
  BY <1>5, <1>6, <1>7, <1>8, <1>10 DEF Output

LEMMA EndOutput ==
    ASSUME TypeOK, Output, NEW h \in serving, HandlerReturns(h) \/ HandlerFails(h) PROVE Output'
<1>1. /\ serving' = serving \ {h} /\ leases' \subseteq leases
      /\ UNCHANGED <<runVars, cleanVars, flags, conn, latch, cancels, late>>
      /\ \E a : a # "none" /\ Reply(h, a)
  BY DEF HandlerReturns, HandlerFails
<1>2. OneAtATime'
  BY <1>1 DEF Output, OneAtATime, Kind
<1>3. \/ rail' = FALSE
      \/ rail' = rail
  BY DEF HandlerReturns, HandlerFails
<1>4. ASSUME Kind(h) \in Switching, NEW g \in serving' PROVE Kind(g) \notin Switching
  BY <1>1, <1>4 DEF Output, OneAtATime
<1>5. Kind(h) \notin Switching => leases' = leases /\ rail' = rail /\ loose' = loose
  BY DEF HandlerReturns, HandlerFails, Switching, Looses, TypeOK
<1>6. HandlersKept'
  <2>1. CASE Kind(h) \in Switching
    BY <1>4, <2>1 DEF HandlersKept, Kind, Switching
  <2>2. CASE Kind(h) \notin Switching
    BY <1>1, <1>5, <2>2 DEF Output, HandlersKept, Kind
  <2> QED
    BY <2>1, <2>2
<1>7. ConnKept'
  BY <1>1 DEF Output, ConnKept, Kind, runVars
<1>8. AskedOnce'
  <2>1. Asked' \subseteq Asked
    BY <1>1 DEF Asked
  <2> QED
    BY <1>1, <2>1, AskedKept, AnswersStay DEF Output
<1>9. Sustained'
  <2> SUFFICES ASSUME rail', ~loose'
               PROVE  \/ \E g \in serving' : Kind(g) = "on" /\ g.written
                      \/ conn \in {"up", "closed"} /\ \E l \in leases' : \A g \in serving' : g.step # l
    BY <1>1 DEF Sustained, Kind
  <2>1. rail
    BY <1>3
  <2>2. CASE HandlerReturns(h) /\ Kind(h) = "on"
    <3>1. ~h.overtaken /\ leases' = leases
      BY <2>2 DEF HandlerReturns, Switching
    <3>2. h.step \in leases' /\ conn \in {"up", "closed"}
      BY <2>2, <3>1 DEF Output, HandlersKept, ConnKept, TypeOK
    <3>3. \A g \in serving' : g.step # h.step
      BY <1>4, <2>2 DEF Switching, Kind
    <3> QED
      BY <3>2, <3>3
  <2>3. CASE HandlerReturns(h) /\ Kind(h) = "off"
    BY <2>1, <2>3 DEF HandlerReturns, Output, HandlersKept, Switching
  <2>4. CASE HandlerFails(h) /\ Kind(h) \in Switching
    <3>1. ~loose /\ ~Looses(h) /\ leases' = IF Kind(h) = "on" THEN leases \ {h.step} ELSE leases
      BY <2>4 DEF HandlerFails
    <3>2. ~(Kind(h) = "on" /\ h.written)
      BY <2>1, <3>1 DEF Looses
    <3> QED
      BY <1>1, <2>1, <3>1, <3>2 DEF Output, Sustained
  <2>5. CASE Kind(h) \notin Switching
    BY <1>1, <1>5, <2>1, <2>5 DEF Output, Sustained, Switching
  <2> QED
    BY <2>2, <2>3, <2>4, <2>5 DEF Switching
<1> QED
  BY <1>2, <1>6, <1>7, <1>8, <1>9 DEF Output

(* The output, across the steps of everybody else.                         *)
LEMMA OthersOutput ==
    ASSUME TypeOK, Control, Output,
           \/ Daemon \/ Operator \/ LeaseLapses \/ DisconnectSafes \/ DisconnectCancels
           \/ \E p \in Phases : CallTimesOut(p)
           \/ UNCHANGED vars
    PROVE  Output'
<1>1. CASE Daemon
  BY <1>1, WriteOutput, EndOutput DEF Daemon
<1>2. CASE Estop \/ LeaseLapses \/ (DisconnectSafes /\ leases # {})
  <2>1. /\ rail' = FALSE /\ leases' \subseteq leases /\ serving' \subseteq Overtaken \cup Reading
        /\ conn' = conn \/ (conn = "closed" /\ conn' = "leaving")
        /\ UNCHANGED <<runVars, cleanVars>>
    BY <1>2 DEF Estop, LeaseLapses, DisconnectSafes, DriveSafe
  <2>2. answer'["final"] = "none" => answer["final"] = "none"
    BY <1>2, AnswersStay DEF Estop, LeaseLapses, DisconnectSafes
  <2>3. /\ OneAtATime' /\ HandlersKept' /\ Sustained' /\ ConnKept' /\ Asked' \subseteq Asked
    BY <2>1, SafeOutput DEF runVars
  <2> QED
    BY <2>1, <2>2, <2>3, AskedKept DEF Output
<1>3. CASE DisconnectSafes /\ leases = {}
  <2>1. /\ conn = "closed" /\ conn' = "leaving" /\ UNCHANGED benchVars
        /\ UNCHANGED <<runVars, cleanVars, answer>>
    BY <1>3 DEF DisconnectSafes
  <2>2. OneAtATime' /\ HandlersKept' /\ Asked' = Asked
    BY <2>1 DEF Output, OneAtATime, HandlersKept, Asked, benchVars, Kind
  <2>3. ConnKept' /\ Sustained'
    BY <1>3, <2>1 DEF Output, ConnKept, HandlersKept, Sustained, benchVars, runVars, Kind
  <2> QED
    BY <2>1, <2>2, <2>3, AskedKept DEF Output
<1>4. CASE DisconnectCancels
  <2>1. /\ conn = "leaving" /\ conn' = "gone" /\ serving' = {} /\ UNCHANGED <<rail, leases>>
        /\ loose' = (loose \/ \E h \in serving : Looses(h))
        /\ UNCHANGED <<runVars, cleanVars, answer>>
    BY <1>4 DEF DisconnectCancels
  <2>2. OneAtATime' /\ HandlersKept' /\ ConnKept'
    BY <2>1 DEF Output, OneAtATime, HandlersKept, ConnKept, runVars
  <2>3. Sustained'
    BY <2>1 DEF Output, Sustained, Looses
  <2>4. Asked' \subseteq Asked
    BY <2>1 DEF Asked
  <2> QED
    BY <2>1, <2>2, <2>3, <2>4, AskedKept DEF Output
<1>5. CASE UNCHANGED <<benchVars, conn>> /\ UNCHANGED <<runVars, cleanVars>>
           /\ (answer'["final"] = "none" => answer["final"] = "none")
  <2>1. OneAtATime' /\ HandlersKept' /\ ConnKept' /\ Sustained' /\ Asked' = Asked
    BY <1>5 DEF Output, OneAtATime, HandlersKept, ConnKept, Sustained, Asked, benchVars, runVars, Kind
  <2> QED
    BY <1>5, <2>1, AskedKept DEF Output
<1>6. CASE Interrupt
  <2>1. /\ UNCHANGED <<benchVars, conn, outcomes, cleaned>> /\ at' \notin Before /\ at # "over"
        /\ cleanup' = "killed" => at' = "closing"
        /\ \/ cleanup' = "killed"
           \/ cleanup # "killed" /\ answer'["final"] = answer["final"]
    BY <1>6 DEF Interrupt, InterruptSteps, InterruptCleanup, InterruptPreflight, StepAwaits, Before,
                Output, AskedOnce, TypeOK, Phases
  <2>2. OneAtATime' /\ HandlersKept' /\ ConnKept' /\ Sustained' /\ Asked' = Asked
    BY <2>1 DEF Output, OneAtATime, HandlersKept, ConnKept, Sustained, Asked, benchVars, Kind
  <2>3. FinalStep' = FinalStep
    BY <2>1 DEF FinalStep
  <2>4. AskedOnce'
    BY <2>1, <2>2, <2>3 DEF Output, AskedOnce
  <2> QED
    BY <2>2, <2>4 DEF Output
<1>7. CASE Cancel \/ EstopClear \/ UNCHANGED vars
  BY <1>5, <1>7 DEF Cancel, EstopClear, Idle, vars
<1>8. ASSUME NEW p \in Phases, CallTimesOut(p) PROVE Output'
  <2>1. answer'["final"] = "none" => answer["final"] = "none"
    BY <1>8 DEF CallTimesOut, TypeOK, Phases
  <2> QED
    BY <1>5, <1>8, <2>1 DEF CallTimesOut
<1> QED
  BY <1>1, <1>2, <1>3, <1>4, <1>6, <1>7, <1>8 DEF Operator

LEMMA OutputStep == TypeOK /\ TypeOK' /\ Control /\ Output /\ [Next]_vars => Output'
<1> SUFFICES ASSUME TypeOK, TypeOK', Control, Output, [Next]_vars PROVE Output'
  OBVIOUS
<1>1. CASE Runner
  BY <1>1, RunnerOutput
<1>2. CASE CleanupTask
  BY <1>2, CleanupOutput
<1>3. CASE \/ Daemon \/ Operator \/ LeaseLapses \/ DisconnectSafes \/ DisconnectCancels
           \/ \E p \in Phases : CallTimesOut(p)
           \/ UNCHANGED vars
  BY <1>3, OthersOutput
<1> QED
  BY <1>1, <1>2, <1>3 DEF Next

(* Backstop for any plan: however a run ends, the lease of its closed      *)
(* connection takes the output off (service.py:_handle_disconnect), unless *)
(* the action that switched it on was dropped half-way.                    *)
THEOREM LeaseIsBackstop == Spec => []Backstop
<1>1. Init => TypeOK /\ Control /\ Output
  BY InitControl, InitOutput
<1>2. TypeOK /\ Control /\ Output /\ [Next]_vars => (TypeOK /\ Control /\ Output)'
  BY ControlStep, OutputStep
<1>3. TypeOK /\ Control /\ Output => Backstop
  BY DEF Output, ConnKept, Sustained, Backstop
<1> QED
  BY <1>1, <1>2, <1>3, PTL DEF Spec

-----------------------------------------------------------------------------
(* What an output that the cleanup switched off needs to stay off.         *)

\* The output is off and nothing under way switches it on.
Down == ~rail /\ \A h \in serving : Kind(h) # "on"

\* The cleanup begins when the steps are over, and a switch-off that succeeded,
\* recorded or not, has the output down.
OffKept ==
    /\ cleanup = "none" => cleaned = <<>> /\ answer["final"] = "none"
    /\ cleanup # "none" => at \notin Working \cup {"preflight", "next", "classify"}
    /\ (\E i \in DOMAIN cleaned : Finally[i] = "off" /\ cleaned[i] = "ok") => Down
    /\ answer["final"] = "ok" /\ Len(cleaned) < Len(Finally) /\ Plan[FinalStep] = "off" => Down

OnlyOff == \A i \in DOMAIN Finally : Finally[i] # "on"

LEMMA InitOffKept == Init => OffKept
  BY DEF Init, OffKept, Phases

(* Down stays so while no step is started and no finally step switches on. *)
LEMMA StaysDown ==
    ASSUME OnlyOff, TypeOK, TypeOK', Output, OffKept, Down, cleanup # "none", [Next]_vars
    PROVE  Down'
<1>1. ASSUME NEW i \in DOMAIN Plan, Serve(i), Plan[i] # "on", UNCHANGED rail PROVE Down'
  BY <1>1, ServeShape DEF Down, Kind
<1>2. CASE UNCHANGED rail /\ serving' \subseteq serving
  BY <1>2 DEF Down, Kind
<1>3. CASE Runner
  <2>1. at # "start"
    BY DEF OffKept, Working
  <2> QED
    BY <1>2, <1>3, <2>1
       DEF Runner, Preflight, StepsDone, MayContinue, StatusArrives, StartStep, WaitEnds,
         StepAnswered, StopStep, StepDropped, ClassifyStop, Finish, ShieldEnds, CloseConnection,
         Idle, benchVars
<1>4. CASE CleanupTask
  <2>1. UNCHANGED rail
    BY <1>4 DEF CleanupTask, CleanupStep, CleanupAnswered, CleanupDone, benchVars
  <2>2. \/ UNCHANGED serving
        \/ Serve(FinalStep) /\ Len(cleaned) < Len(Finally)
    BY <1>4 DEF CleanupTask, CleanupStep, CleanupAnswered, CleanupDone, Cleaning, benchVars
  <2>3. Len(cleaned) < Len(Finally) => FinalStep \in DOMAIN Plan /\ Plan[FinalStep] = Finally[Len(cleaned) + 1]
                                       /\ Len(cleaned) + 1 \in DOMAIN Finally
    BY PlanShape, Counts DEF Plan
  <2> QED
    BY <1>1, <1>2, <2>1, <2>2, <2>3 DEF OnlyOff
<1>5. ASSUME NEW h \in serving, HandlerWrites(h) PROVE Down'
  <2>1. Kind([h EXCEPT !.written = TRUE]) = Kind(h)
    BY DEF TypeOK, Handler, Kind
  <2> QED
    BY <1>5, <2>1 DEF HandlerWrites, Down, Kind
<1>6. ASSUME NEW h \in serving, HandlerReturns(h) \/ HandlerFails(h) PROVE Down'
  BY <1>6 DEF HandlerReturns, HandlerFails, Down, Kind
<1>7. CASE Estop \/ LeaseLapses \/ DisconnectSafes
  <2>1. \A h \in Overtaken \cup Reading : \E g \in serving : Kind(h) = Kind(g)
    BY DEF Overtaken, Reading, TypeOK, Handler, Kind
  <2>2. /\ rail' = FALSE \/ UNCHANGED rail
        /\ serving' \subseteq Overtaken \cup Reading \/ UNCHANGED serving
    BY <1>7 DEF Estop, LeaseLapses, DisconnectSafes, DriveSafe, benchVars
  <2> QED
    BY <2>1, <2>2 DEF Down, Kind
<1>8. CASE DisconnectCancels \/ Interrupt \/ Cancel \/ EstopClear \/ UNCHANGED vars
           \/ \E p \in Phases : CallTimesOut(p)
  BY <1>2, <1>8
     DEF DisconnectCancels, Interrupt, Cancel, EstopClear, CallTimesOut, Idle, benchVars, vars
<1> QED
  BY <1>3, <1>4, <1>5, <1>6, <1>7, <1>8 DEF Next, Daemon, Operator

(* A handler's answer that says a switch-off succeeded.                    *)
LEMMA OffAnswered ==
    ASSUME TypeOK, Output, NEW h \in serving, HandlerReturns(h),
           answer'["final"] = "ok", answer["final"] # "ok", Plan[FinalStep] = "off"
    PROVE  Down'
<1>1. PICK a : Reply(h, a) /\ (a = "ok" => ~(h.overtaken /\ Kind(h) \in Switching))
  BY DEF HandlerReturns
<1>2. PhaseOf(h.step) = "final" /\ Awaited(h) /\ a = "ok"
  BY <1>1 DEF Reply, TypeOK, Phases
<1>3. Kind(h) = "off"
  BY <1>2 DEF Awaited, Kind
<1>4. h.written /\ ~h.overtaken /\ rail' = rail /\ serving' = serving \ {h}
  BY <1>1, <1>2, <1>3 DEF HandlerReturns, Switching
<1>5. ~rail /\ \A g \in serving \ {h} : Kind(g) # "on"
  BY <1>3, <1>4 DEF Output, OneAtATime, HandlersKept, Switching
<1> QED
  BY <1>4, <1>5 DEF Down, Kind

(* Who records a finally step, and who answers one with success.           *)
Records ==
    /\ \/ cleaned' = cleaned
       \/ \E o \in {"ok", "failed"} :
             /\ cleaned' = Append(cleaned, o) /\ Cleaning
             /\ o = "ok" => Plan[FinalStep] \in {"assert", "wait"} \/ answer["final"] = "ok"
    /\ answer'["final"] = "ok" =>
           /\ cleaned' = cleaned
           /\ answer["final"] = "ok" \/ \E h \in serving : HandlerReturns(h)
    /\ answer["final"] = "none" /\ ~Cleaning => answer'["final"] = "none"

LEMMA WhoRecords == ASSUME TypeOK, Control, [Next]_vars PROVE Records
<1>1. answer \in [Phases -> Answers] /\ "final" \in Phases
  BY DEF TypeOK, Phases
<1>2. CASE UNCHANGED <<cleaned, answer>>
  BY <1>2 DEF Records
<1>3. ASSUME NEW i, Serve(i), UNCHANGED cleaned, PhaseOf(i) = "step" \/ Cleaning PROVE Records
  <2>1. \E a \in {"waiting", "estop", "error"} : answer' = [answer EXCEPT ![PhaseOf(i)] = a]
    BY <1>3 DEF Serve, Refuse, Admit
  <2> QED
    BY <1>1, <1>3, <2>1 DEF Records
<1>4. CASE Runner
  <2>1. CASE StartStep /\ Step \notin {"assert", "wait"}
    <3>1. Serve(Len(outcomes) + 1) /\ UNCHANGED cleaned
      BY <2>1 DEF StartStep, cleanVars
    <3>2. PhaseOf(Len(outcomes) + 1) = "step"
      BY <2>1, Counts DEF StartStep, Control, StepLeft, Working, PhaseOf
    <3> QED
      BY <3>1, <3>2, <1>3
  <2>2. CASE ~(StartStep /\ Step \notin {"assert", "wait"})
    BY <1>1, <1>4, <2>2
       DEF Runner, Preflight, StepsDone, MayContinue, StatusArrives, StartStep, WaitEnds,
         StepAnswered, StopStep, StepDropped, ClassifyStop, Finish, ShieldEnds, CloseConnection,
         CancelReads, Idle, cleanVars, Records
  <2> QED
    BY <2>1, <2>2
<1>5. CASE CleanupTask
  <2>1. CASE CleanupStep /\ Serve(FinalStep) /\ UNCHANGED cleaned
    BY <1>3, <2>1 DEF CleanupStep
  <2>2. CASE CleanupStep /\ ~(Serve(FinalStep) /\ UNCHANGED cleaned)
    BY <1>1, <2>2 DEF CleanupStep, Cleaned, Records
  <2>3. CASE CleanupAnswered \/ CleanupDone
    BY <1>1, <2>3 DEF CleanupAnswered, CleanupDone, Cleaned, Records
  <2> QED
    BY <1>5, <2>1, <2>2, <2>3 DEF CleanupTask
<1>6. ASSUME NEW h \in serving, HandlerWrites(h) \/ HandlerReturns(h) \/ HandlerFails(h) PROVE Records
  BY <1>1, <1>6 DEF HandlerWrites, HandlerReturns, HandlerFails, Reply, cleanVars, Records
<1>7. CASE Operator \/ LeaseLapses \/ DisconnectSafes \/ DisconnectCancels \/ UNCHANGED vars
           \/ \E p \in Phases : CallTimesOut(p)
  BY <1>1, <1>7
     DEF Operator, Interrupt, InterruptSteps, InterruptCleanup, InterruptPreflight, Cancel, Estop,
         EstopClear, LeaseLapses, DisconnectSafes, DisconnectCancels, CallTimesOut, CancelReads,
         Idle, cleanVars, vars, Records
<1> QED
  BY <1>4, <1>5, <1>6, <1>7 DEF Next, Daemon

LEMMA OffKeptStep ==
    ASSUME OnlyOff, TypeOK, TypeOK', Control, Output, OffKept, [Next]_vars PROVE OffKept'
<1>1. /\ cleanup # "none" => cleanup' # "none" /\ at' \notin Working \cup {"preflight", "next", "classify"}
      /\ cleanup' # "none" => at' \notin Working \cup {"preflight", "next", "classify"}
  <2>1. CASE Runner
    BY <2>1 DEF OffKept, Runner, Preflight, StepsDone, MayContinue, StatusArrives, StartStep, WaitEnds,
         StepAnswered, StopStep, StepDropped, ClassifyStop, Finish, ShieldEnds, CloseConnection,
         StepEnds, Skip, Idle, cleanVars, Working
  <2>2. CASE Interrupt
    BY <2>2 DEF OffKept, Interrupt, InterruptSteps, InterruptCleanup, InterruptPreflight, Working
  <2>3. CASE CleanupTask
    BY <2>3 DEF OffKept, CleanupTask, CleanupStep, CleanupAnswered, CleanupDone, Cleaning, runVars
  <2>4. CASE UNCHANGED <<runVars, cleanVars>>
    BY <2>4 DEF OffKept, runVars, cleanVars
  <2> QED
    BY <2>1, <2>2, <2>3, <2>4
       DEF Next, Daemon, HandlerWrites, HandlerReturns, HandlerFails, Operator, Cancel, Estop,
           EstopClear, LeaseLapses, CallTimesOut, DisconnectSafes, DisconnectCancels, Idle, vars
<1>2. CASE cleanup = "none"
  <2>1. cleaned = <<>> /\ answer["final"] = "none" /\ ~Cleaning
    BY <1>2 DEF OffKept, Cleaning
  <2>2. cleaned' = <<>> /\ answer'["final"] = "none"
    BY <2>1, WhoRecords DEF Records
  <2> QED
    BY <1>1, <2>2 DEF OffKept
<1>3. CASE cleanup # "none"
  <2>1. Down => Down'
    BY <1>3, StaysDown
  <2>2. ASSUME NEW i \in DOMAIN cleaned', Finally[i] = "off", cleaned'[i] = "ok" PROVE Down'
    <3>1. CASE i \in DOMAIN cleaned /\ cleaned'[i] = cleaned[i]
      BY <2>1, <2>2, <3>1 DEF OffKept
    <3>2. CASE ~(i \in DOMAIN cleaned /\ cleaned'[i] = cleaned[i])
      <4>1. cleaned \in Seq(Outcomes)
        BY DEF TypeOK
      <4>2. PICK o \in {"ok", "failed"} :
              /\ cleaned' = Append(cleaned, o) /\ Cleaning
              /\ o = "ok" => Plan[FinalStep] \in {"assert", "wait"} \/ answer["final"] = "ok"
        BY <2>2, <3>2, WhoRecords DEF Records
      <4>3. i = Len(cleaned) + 1 /\ o = "ok"
        BY <2>2, <3>2, <4>1, <4>2
      <4>4. Len(cleaned) < Len(Finally) /\ Plan[FinalStep] = "off"
        BY <2>2, <4>2, <4>3, PlanShape, Counts DEF Cleaning, Plan
      <4> QED
        BY <2>1, <4>2, <4>3, <4>4 DEF OffKept
    <3> QED
      BY <3>1, <3>2
  <2>3. ASSUME answer'["final"] = "ok", Len(cleaned') < Len(Finally), Plan[FinalStep'] = "off"
        PROVE  Down'
    <3>1. cleaned' = cleaned /\ FinalStep' = FinalStep
      BY <2>3, WhoRecords DEF FinalStep, Records
    <3>2. CASE answer["final"] = "ok"
      BY <2>1, <2>3, <3>1, <3>2 DEF OffKept
    <3>3. CASE answer["final"] # "ok"
      BY <2>3, <3>1, <3>3, WhoRecords, OffAnswered DEF Records
    <3> QED
      BY <3>2, <3>3
  <2> QED
    BY <1>1, <1>3, <2>2, <2>3 DEF OffKept
<1> QED
  BY <1>2, <1>3

(* OffSticks for any plan whose cleanup switches nothing on: the device    *)
(* lock refuses the switch-off while an abandoned step still switches, so  *)
(* once it has succeeded there is none.                                    *)
THEOREM OffStays == ASSUME OnlyOff PROVE Spec => []OffSticks
<1>1. Init => TypeOK /\ Control /\ Output /\ OffKept
  BY InitControl, InitOutput, InitOffKept
<1>2. TypeOK /\ Control /\ Output /\ OffKept /\ [Next]_vars => (TypeOK /\ Control /\ Output /\ OffKept)'
  BY ControlStep, OutputStep, OffKeptStep
<1>3. TypeOK /\ Control /\ Output /\ OffKept => OffSticks
  BY DEF OffKept, Down, OffSticks
<1> QED
  BY <1>1, <1>2, <1>3, PTL DEF Spec

=============================================================================
