----------------------------- MODULE RecipeRunner -----------------------------
(***************************************************************************)
(* One run of fielddeck/recipes/runner.py inside the recipe.run action of  *)
(* recipes/actions.py, with the daemon it is a client of reduced to one    *)
(* device: its output, its lock, the leases of the run's connection and    *)
(* the emergency-stop latch (Dispatcher has the details).                  *)
(*                                                                         *)
(* The runner, the cleanup task it may leave behind, the handler the       *)
(* daemon runs for it and the operator are the processes.  A cancellation  *)
(* of recipe.run (action.cancel, an emergency stop, its client going away, *)
(* its deadline) is an exception at whatever the runner awaits: Interrupt. *)
(* A step is "on" or "off" (psu.output), "read" (a capture: cancelable,    *)
(* without the device lock, refused under a stop), "assert" or "wait".     *)
(* The run's verdict REFUSED is the source's FAILED of a failed preflight. *)
(***************************************************************************)
EXTENDS Naturals, Sequences

CONSTANTS
    Steps,          \* the kinds of the plan's steps, in order
    Finally,        \* the kinds of its finally steps
    MaxCancels,     \* bound: cancellations of the recipe.run task
    CancelsIn,      \* phases the environment cancels in
    Faults          \* which of AllFaults happen

Kinds == {"on", "off", "read", "assert", "wait"}
AllFaults == {"handler", "wedged", "lapse", "slow", "deadline"}

ASSUME PlanAssumption == Steps \in Seq(Kinds) /\ Finally \in Seq(Kinds)
ASSUME CancelsAssumption == MaxCancels \in Nat /\ CancelsIn \subseteq {"steps", "cleanup"}
ASSUME FaultsAssumption == Faults \subseteq AllFaults

Phases == {"step", "final"}

VARIABLES
    at,         \* what the runner awaits
    outcomes,   \* StepRecord.outcome of the steps so far
    cleaned,    \* the same of the finally steps
    cleanup,    \* the cleanup: none, running, left behind, killed, done
    answer,     \* answer[p]: the reply to the action call of phase p
    flags,      \* _stop, _cancelled, _estop, and a recorded failure
    verdict,    \* RecipeState
    conn,       \* the run's connection: up, closed, leaving, gone
    latch,      \* the daemon's emergency-stop latch
    rail,       \* the output of the device
    leases,     \* steps whose output lease the connection holds
    serving,    \* the handlers the daemon is running for this run
    loose,      \* history: the rail was left on by a dropped action
    cancels,    \* history: cancellations of the recipe.run task
    late        \* history: steps started after the run was told to stop

runVars == <<at, outcomes, verdict>>
cleanVars == <<cleaned, cleanup>>
benchVars == <<rail, leases, serving, loose>>
vars == <<runVars, cleanVars, answer, flags, conn, latch, benchVars, cancels, late>>

Outcomes == {"ok", "failed", "skipped", "cancelled"}
Answers == {"none", "waiting", "ok", "error", "estop", "cancelled", "lost"}
Plan == Steps \o Finally
Handler == [step : DOMAIN Plan, written : BOOLEAN, overtaken : BOOLEAN]
Kind(h) == Plan[h.step]
PhaseOf(i) == IF i <= Len(Steps) THEN "step" ELSE "final"
Switching == {"on", "off"}

StepAwaits == {"status", "step", "winding"}
Places == StepAwaits \cup {"preflight", "next", "start", "classify", "cleanup", "shielded", "attribute",
                        "closing", "over"}

TypeOK ==
    /\ at \in Places
    /\ outcomes \in Seq(Outcomes) /\ Len(outcomes) <= Len(Steps)
    /\ cleaned \in Seq(Outcomes) /\ Len(cleaned) <= Len(Finally)
    /\ cleanup \in {"none", "running", "left", "killed", "done"}
    /\ answer \in [Phases -> Answers]
    /\ flags \in [stop : BOOLEAN, cancelled : BOOLEAN, estop : BOOLEAN, failure : BOOLEAN]
    /\ verdict \in {"PENDING", "REFUSED", "RUNNING", "PASSED", "FAILED", "ABORTED"}
    /\ conn \in {"up", "closed", "leaving", "gone"}
    /\ latch \in BOOLEAN /\ rail \in BOOLEAN /\ loose \in BOOLEAN
    /\ leases \subseteq DOMAIN Plan
    /\ serving \subseteq Handler
    /\ cancels \in 0..MaxCancels
    /\ late \in Nat

Step == Steps[Len(outcomes) + 1]
Cleaning == cleanup \in {"running", "left"} /\ Len(cleaned) < Len(Finally)

(* The finally step in progress, counted through the plan.                 *)
FinalStep == Len(Steps) + Len(cleaned) + 1

(* The call whose answer the runner or the cleanup is waiting for.         *)
Awaited(h) == h.step = IF PhaseOf(h.step) = "step" THEN Len(outcomes) + 1 ELSE FinalStep

Reading == {h \in serving : Kind(h) = "read"}
Locked == serving # Reading
Overtaken == {[h EXCEPT !.overtaken = TRUE] : h \in serving \ Reading}

Init ==
    /\ at = "preflight"
    /\ outcomes = <<>> /\ cleaned = <<>>
    /\ cleanup = "none"
    /\ answer = [p \in Phases |-> "none"]
    /\ flags = [stop |-> FALSE, cancelled |-> FALSE, estop |-> FALSE, failure |-> FALSE]
    /\ verdict = "PENDING"
    /\ conn = "up"
    /\ latch = FALSE /\ rail = FALSE /\ loose = FALSE
    /\ leases = {}
    /\ serving = {}
    /\ cancels = 0 /\ late = 0

--------------------------------------------------------------------------------
(* An action call reaches the daemon: refused under a latched stop unless  *)
(* it switches off, busy while another switching handler has the device.   *)
Admit(i) ==
    /\ serving' = serving \cup {[step |-> i, written |-> FALSE, overtaken |-> FALSE]}
    /\ answer' = [answer EXCEPT ![PhaseOf(i)] = "waiting"]
    /\ leases' = IF Plan[i] = "on" THEN leases \cup {i} ELSE leases

Refuse(i, error) ==
    /\ answer' = [answer EXCEPT ![PhaseOf(i)] = error]
    /\ UNCHANGED <<serving, leases>>

(* Mutant: the device lock is not taken.                                   *)
ServeUnlocked(i) ==
    \/ latch /\ Plan[i] # "off" /\ Refuse(i, "estop")
    \/ ~(latch /\ Plan[i] # "off") /\ Admit(i)

Serve(i) ==
    LET stopped == latch /\ Plan[i] # "off"
        busy == Plan[i] \in Switching /\ Locked
    IN  \/ stopped /\ Refuse(i, "estop")
        \/ ~stopped /\ busy /\ Refuse(i, "error")
        \/ ~stopped /\ ~busy /\ Admit(i)

(* Only the latest call of a phase is listened to.                         *)
Reply(h, a) ==
    answer' = [answer EXCEPT ![PhaseOf(h.step)] = IF @ = "waiting" /\ Awaited(h) THEN a ELSE @]

(* Captures let themselves be cancelled, switching does not.               *)
CancelReads(reads) ==
    answer' = [p \in Phases |->
                 IF answer[p] = "waiting" /\ \E h \in reads : PhaseOf(h.step) = p /\ Awaited(h)
                 THEN "cancelled" ELSE answer[p]]

HandlerWrites(h) ==
    /\ ~h.written /\ Kind(h) \in Switching
    /\ rail' = (Kind(h) = "on")
    /\ loose' = (loose /\ rail')
    /\ serving' = (serving \ {h}) \cup {[h EXCEPT !.written = TRUE]}
    /\ UNCHANGED <<runVars, cleanVars, answer, flags, conn, latch, leases, cancels, late>>

(* The handler returns; a switching one that a safe state overtook is      *)
(* reverted.                                                               *)
HandlerReturns(h) ==
    /\ Kind(h) \in Switching => h.written
    /\ IF h.overtaken /\ Kind(h) \in Switching
       THEN /\ rail' = FALSE /\ loose' = FALSE
            /\ leases' = leases \ {h.step}
            /\ Reply(h, IF latch THEN "estop" ELSE "error")
       ELSE /\ leases' = IF Kind(h) = "off" THEN {} ELSE leases
            /\ loose' = (loose /\ Kind(h) # "on")
            /\ Reply(h, "ok")
            /\ UNCHANGED rail
    /\ serving' = serving \ {h}
    /\ UNCHANGED <<runVars, cleanVars, flags, conn, latch, cancels, late>>

(* Dropped half-way, an enabling handler leaves on what it switched on.    *)
Looses(h) == Kind(h) = "on" /\ h.written /\ rail

(* It raises or times out, before or after it wrote; the lease is          *)
(* abandoned.  A lost device is answered with "lost".                      *)
HandlerFails(h) ==
    /\ "handler" \in Faults
    /\ leases' = IF Kind(h) = "on" THEN leases \ {h.step} ELSE leases
    /\ loose' = (loose \/ Looses(h))
    /\ \E a \in {"error", "lost"} : Reply(h, a)
    /\ serving' = serving \ {h}
    /\ UNCHANGED <<runVars, cleanVars, flags, conn, latch, rail, cancels, late>>

(* Mutant: the calls of the cleanup are made without a deadline.           *)
CallTimesOutInSteps(p) ==
    /\ "wedged" \in Faults
    /\ p = "step" /\ answer[p] = "waiting"
    /\ answer' = [answer EXCEPT ![p] = "lost"]
    /\ UNCHANGED <<runVars, cleanVars, flags, conn, latch, benchVars, cancels, late>>

(* The daemon does not answer a call in time; its handler goes on.         *)
CallTimesOut(p) ==
    /\ "wedged" \in Faults
    /\ answer[p] = "waiting"
    /\ answer' = [answer EXCEPT ![p] = "lost"]
    /\ UNCHANGED <<runVars, cleanVars, flags, conn, latch, benchVars, cancels, late>>

--------------------------------------------------------------------------------
(* What a failed call says about the run: some errors mean it was          *)
(* interrupted rather than that the device failed the test.                *)
Noted(a) ==
    [flags EXCEPT !.stop = @ \/ a \in {"estop", "cancelled", "lost"},
                  !.cancelled = @ \/ a = "cancelled",
                  !.estop = @ \/ a = "estop"]

Idle == <<cleanVars, conn, latch, benchVars, cancels>>

Preflight ==
    /\ at = "preflight"
    /\ \/ ~latch /\ at' = "next" /\ verdict' = "RUNNING"
       \/ at' = "closing" /\ verdict' = "REFUSED"
    /\ UNCHANGED <<outcomes, answer, flags, late, Idle>>

StepsDone ==
    /\ at = "next" /\ Len(outcomes) = Len(Steps)
    /\ at' = "classify"
    /\ UNCHANGED <<outcomes, verdict, answer, flags, late, Idle>>

(* Mutant: the whole plan is recorded as skipped.                          *)
SkipAll ==
    /\ outcomes' = outcomes \o [i \in DOMAIN Steps |-> "skipped"]
    /\ at' = "classify"

Skip ==
    /\ outcomes' = Append(outcomes, "skipped")
    /\ at' = "classify"

(* Mutant: _may_continue looks at the latch only.                          *)
MayContinueHeedless ==
    /\ at = "next" /\ Len(outcomes) < Len(Steps)
    /\ at' = "status" /\ UNCHANGED <<outcomes, flags>>
    /\ UNCHANGED <<verdict, answer, late, Idle>>

(* _may_continue: the stop flag and the deadline, then a round trip for    *)
(* the safety status, after which the stop flag is not looked at again.    *)
MayContinue ==
    /\ at = "next" /\ Len(outcomes) < Len(Steps)
    /\ \/ flags.stop /\ Skip /\ UNCHANGED flags
       \/ /\ "deadline" \in Faults /\ ~flags.stop
          /\ flags' = [flags EXCEPT !.stop = TRUE, !.cancelled = TRUE]
          /\ Skip
       \/ ~flags.stop /\ at' = "status" /\ UNCHANGED <<outcomes, flags>>
    /\ UNCHANGED <<verdict, answer, late, Idle>>

StatusArrives ==
    /\ at = "status"
    /\ \/ ~latch /\ at' = "start" /\ UNCHANGED <<outcomes, flags>>
       \/ latch /\ flags' = [flags EXCEPT !.stop = TRUE, !.estop = TRUE] /\ Skip
    /\ UNCHANGED <<verdict, answer, late, Idle>>

StepEnds(o) ==
    /\ outcomes' = Append(outcomes, o)
    /\ at' = IF o = "ok" THEN "next" ELSE "classify"

StartStep ==
    /\ at = "start"
    /\ late' = IF flags.stop THEN late + 1 ELSE late
    /\ \/ /\ Step = "assert"
          /\ \E o \in {"ok", "failed"} :
                StepEnds(o) /\ flags' = [flags EXCEPT !.failure = @ \/ o = "failed"]
          /\ UNCHANGED <<answer, serving, leases>>
       \/ /\ Step = "wait"
          /\ at' = "step"
          /\ UNCHANGED <<outcomes, flags, answer, serving, leases>>
       \/ /\ Step \notin {"assert", "wait"}
          /\ at' = "step"
          /\ Serve(Len(outcomes) + 1)
          /\ UNCHANGED <<outcomes, flags>>
    /\ UNCHANGED <<verdict, cleanVars, conn, latch, rail, loose, cancels>>

WaitEnds ==
    /\ at = "step" /\ Step = "wait"
    /\ StepEnds(IF flags.stop THEN "cancelled" ELSE "ok")
    /\ UNCHANGED <<verdict, answer, flags, late, Idle>>

StepAnswered ==
    /\ at \in {"step", "winding"} /\ answer["step"] \notin {"none", "waiting"}
    /\ StepEnds(IF answer["step"] = "ok" THEN "ok" ELSE "failed")
    /\ flags' = [Noted(answer["step"]) EXCEPT !.failure = @ \/ answer["step"] # "ok"]
    /\ answer' = [answer EXCEPT !["step"] = "none"]
    /\ UNCHANGED <<verdict, late, Idle>>

(* _race_against_stop: action.cancel by request id, which ends a read and  *)
(* leaves a switching handler alone, then ten seconds for the call.        *)
StopStep ==
    /\ at = "step" /\ flags.stop /\ answer["step"] = "waiting"
    /\ at' = "winding"
    /\ LET asked == {h \in Reading : h.step = Len(outcomes) + 1}
       IN  CancelReads(asked) /\ serving' = serving \ asked
    /\ UNCHANGED <<outcomes, verdict, cleanVars, flags, conn, latch, rail, leases, loose,
                   cancels, late>>

StepDropped ==
    /\ at = "winding" /\ answer["step"] = "waiting"
    /\ answer' = [answer EXCEPT !["step"] = "none"]
    /\ StepEnds("cancelled")
    /\ UNCHANGED <<verdict, flags, late, Idle>>

--------------------------------------------------------------------------------
Attributed == [flags EXCEPT !.estop = @ \/ (flags.stop /\ latch)]

ClassifyStop ==
    /\ at = "classify"
    /\ flags' = Attributed
    /\ at' = "cleanup" /\ cleanup' = "running"
    /\ UNCHANGED <<outcomes, verdict, cleaned, answer, conn, latch, benchVars, cancels, late>>

(* _run_finally: every step is attempted, whatever became of the others.   *)
Cleaned(o, a) ==
    /\ cleaned' = Append(cleaned, o)
    /\ flags' = Noted(a)

CleanupStep ==
    /\ Cleaning /\ answer["final"] = "none"
    /\ LET kind == Plan[FinalStep]
       IN  \/ /\ kind = "assert"
              /\ \E o \in {"ok", "failed"} :
                    /\ cleaned' = Append(cleaned, o)
                    /\ flags' = [flags EXCEPT !.failure = @ \/ o = "failed"]
              /\ UNCHANGED <<answer, serving, leases>>
           \/ /\ kind = "wait"
              /\ Cleaned("ok", "ok")
              /\ UNCHANGED <<answer, serving, leases>>
           \/ /\ kind \notin {"assert", "wait"} /\ conn # "up"
              /\ Cleaned("failed", "lost")
              /\ UNCHANGED <<answer, serving, leases>>
           \/ /\ kind \notin {"assert", "wait"} /\ conn = "up"
              /\ Serve(FinalStep)
              /\ UNCHANGED <<cleaned, flags>>
    /\ UNCHANGED <<runVars, cleanup, conn, latch, rail, loose, cancels, late>>

CleanupAnswered ==
    /\ Cleaning /\ answer["final"] \notin {"none", "waiting"}
    /\ Cleaned(IF answer["final"] = "ok" THEN "ok" ELSE "failed", answer["final"])
    /\ answer' = [answer EXCEPT !["final"] = "none"]
    /\ UNCHANGED <<runVars, cleanup, conn, latch, benchVars, cancels, late>>

CleanupDone ==
    /\ cleanup \in {"running", "left"} /\ Len(cleaned) = Len(Finally)
    /\ cleanup' = "done"
    /\ UNCHANGED <<runVars, cleaned, answer, flags, conn, latch, benchVars, cancels, late>>

(* Mutant: only a recorded failure is held against the run.                *)
FinishStateFailuresOnly(f) == verdict' = IF f.failure THEN "FAILED" ELSE "PASSED"

FinishState(f) ==
    verdict' = IF f.estop \/ f.cancelled THEN "ABORTED"
               ELSE IF f.failure \/ \E i \in DOMAIN outcomes : outcomes[i] # "ok" THEN "FAILED"
               ELSE "PASSED"

(* The end of run() after an ordinary cleanup, and after a shielded one.   *)
Finish ==
    /\ \/ at = "cleanup" /\ cleanup = "done" /\ UNCHANGED flags
       \/ at = "attribute" /\ flags' = Attributed
    /\ FinishState(flags')
    /\ at' = "closing"
    /\ UNCHANGED <<outcomes, cleanVars, answer, conn, latch, benchVars, cancels, late>>

ShieldEnds ==
    /\ at = "shielded"
    /\ \/ cleanup = "done" /\ UNCHANGED cleanup
       \/ "slow" \in Faults /\ cleanup = "running" /\ cleanup' = "left"
    /\ at' = "attribute"
    /\ UNCHANGED <<outcomes, verdict, cleaned, answer, flags, conn, latch, benchVars, cancels,
                   late>>

(* The finally of recipe_run.                                              *)
CloseConnection ==
    /\ at = "closing"
    /\ at' = "over" /\ conn' = "closed"
    /\ answer' = [answer EXCEPT !["final"] = IF @ = "waiting" THEN "lost" ELSE @]
    /\ UNCHANGED <<outcomes, verdict, cleanVars, flags, latch, benchVars, cancels, late>>

--------------------------------------------------------------------------------
(* Mutant: a cancelled run goes straight to its end.                       *)
InterruptStepsBare ==
    /\ at \in StepAwaits
    /\ flags' = [flags EXCEPT !.stop = TRUE, !.cancelled = TRUE]
    /\ answer' = [answer EXCEPT !["step"] = "none"]
    /\ at' = "attribute"
    /\ UNCHANGED cleanup

InterruptSteps ==
    /\ at \in StepAwaits
    /\ flags' = [flags EXCEPT !.stop = TRUE, !.cancelled = TRUE]
    /\ answer' = [answer EXCEPT !["step"] = "none"]
    /\ cleanup' = "running" /\ at' = "shielded"

(* The await of _classify_stop and those of the cleanup are outside the    *)
(* try of run(): the exception ends the run there.  A shielded cleanup is  *)
(* left behind.                                                            *)
InterruptCleanup ==
    \/ /\ \/ at = "classify" /\ flags.stop /\ ~flags.estop
          \/ at = "cleanup" /\ Cleaning /\ (answer["final"] = "waiting" \/ Plan[FinalStep] = "wait")
       /\ cleanup' = "killed" /\ at' = "closing"
       /\ answer' = [answer EXCEPT !["final"] = "none"]
       /\ UNCHANGED flags
    \/ /\ at = "shielded" /\ cleanup = "running"
       /\ cleanup' = "left" /\ at' = "attribute"
       /\ UNCHANGED <<answer, flags>>

InterruptPreflight ==
    /\ at = "preflight" /\ at' = "closing"
    /\ UNCHANGED <<answer, flags, cleanup>>

Interrupt ==
    /\ cancels < MaxCancels /\ cancels' = cancels + 1
    /\ \/ "steps" \in CancelsIn /\ (InterruptSteps \/ InterruptPreflight)
       \/ "cleanup" \in CancelsIn /\ InterruptCleanup
    /\ UNCHANGED <<outcomes, verdict, cleaned, conn, latch, benchVars, late>>

(* recipe.cancel: the run is asked, not interrupted.                       *)
Cancel ==
    /\ at \notin {"preflight", "closing", "over"} /\ ~flags.stop
    /\ flags' = [flags EXCEPT !.stop = TRUE, !.cancelled = TRUE]
    /\ UNCHANGED <<runVars, answer, late, Idle>>

--------------------------------------------------------------------------------
(* The safe state of the device, with whatever sustained it.               *)
DriveSafe(ls) ==
    /\ rail' = FALSE /\ loose' = FALSE
    /\ leases' = leases \ ls

(* An emergency stop also cancels running steps by request id; only a read *)
(* lets itself be cancelled.                                               *)
Estop ==
    /\ ~latch /\ latch' = TRUE
    /\ DriveSafe(leases)
    /\ CancelReads(Reading) /\ serving' = Overtaken
    /\ UNCHANGED <<runVars, cleanVars, flags, conn, cancels, late>>

EstopClear ==
    /\ latch /\ latch' = FALSE
    /\ UNCHANGED <<runVars, cleanVars, answer, flags, conn, benchVars, cancels, late>>

LeaseLapses ==
    /\ "lapse" \in Faults
    /\ \E l \in leases : DriveSafe({l})
    /\ serving' = Overtaken \cup Reading
    /\ UNCHANGED <<runVars, cleanVars, answer, flags, conn, latch, cancels, late>>

(* Mutant: the daemon closes the connection and keeps its leases.          *)
DisconnectForgets ==
    /\ conn = "closed" /\ conn' = "leaving"
    /\ UNCHANGED <<runVars, cleanVars, answer, flags, latch, benchVars, cancels, late>>

(* The daemon sees the end of the stream: the devices of the connection's  *)
(* leases are driven safe, then its requests are cancelled.                *)
DisconnectSafes ==
    /\ conn = "closed" /\ conn' = "leaving"
    /\ IF leases # {}
       THEN DriveSafe(leases) /\ serving' = Overtaken \cup Reading
       ELSE UNCHANGED benchVars
    /\ UNCHANGED <<runVars, cleanVars, answer, flags, latch, cancels, late>>

DisconnectCancels ==
    /\ conn = "leaving" /\ conn' = "gone"
    /\ serving' = {}
    /\ loose' = (loose \/ \E h \in serving : Looses(h))
    /\ UNCHANGED <<runVars, cleanVars, answer, flags, latch, rail, leases, cancels, late>>

--------------------------------------------------------------------------------
Runner ==
    \/ Preflight \/ StepsDone \/ MayContinue \/ StatusArrives \/ StartStep \/ WaitEnds
    \/ StepAnswered \/ StopStep \/ StepDropped
    \/ ClassifyStop \/ Finish \/ ShieldEnds \/ CloseConnection

CleanupTask == CleanupStep \/ CleanupAnswered \/ CleanupDone

Daemon == \E h \in serving : HandlerWrites(h) \/ HandlerReturns(h) \/ HandlerFails(h)

Operator == Interrupt \/ Cancel \/ Estop \/ EstopClear

Over == at = "over" /\ conn = "gone" /\ cleanup \notin {"running", "left"}

Next ==
    \/ Runner \/ CleanupTask \/ Daemon \/ Operator \/ LeaseLapses
    \/ \E p \in Phases : CallTimesOut(p)
    \/ DisconnectSafes \/ DisconnectCancels
    \/ Over /\ UNCHANGED vars

Spec == Init /\ [][Next]_vars

(* The loop resumes the runner and the cleanup task, and every call has a  *)
(* deadline of its own.  Drivers owe nothing: a handler may hang for good. *)
Fairness ==
    /\ WF_vars(Runner) /\ WF_vars(CleanupTask)
    /\ \A p \in Phases : WF_vars(CallTimesOut(p))
    /\ WF_vars(DisconnectSafes) /\ WF_vars(DisconnectCancels)

FairSpec == Spec /\ Fairness

--------------------------------------------------------------------------------
(* A verdict of PASSED: every step ran and succeeded, nobody interrupted   *)
(* the run and no emergency stop was seen, and its cleanup was gone        *)
(* through to the end.                                                     *)
PassedMeansPassed ==
    verdict = "PASSED" =>
        /\ Len(outcomes) = Len(Steps)
        /\ \A i \in DOMAIN outcomes : outcomes[i] = "ok"
        /\ cleanup = "done"

(* Told to stop, a run starts at most the one step whose permission to     *)
(* start was already being asked for.                                      *)
OneLateStep == late <= 1

(* An output the cleanup switched off stays off: an abandoned step that    *)
(* still runs in the daemon cannot switch it on behind the cleanup's back. *)
OffSticks ==
    (\E i \in DOMAIN cleaned : Finally[i] = "off" /\ cleaned[i] = "ok") => ~rail

(* However the run ends, with or without its cleanup, its output is off    *)
(* once the daemon has seen the connection go, unless the very action that *)
(* switched it on was dropped half-way.                                    *)
Backstop == conn = "gone" => ~rail \/ loose

(* A run that started and is over has gone through its finally steps.      *)
FinallyRuns ==
    at = "over" /\ verdict \notin {"PENDING", "REFUSED"} =>
        cleanup = "done" /\ Len(cleaned) = Len(Finally)

(* A run that started and is over has begun its cleanup, and a cleanup     *)
(* that was not cut short has attempted every finally step.                *)
CleanupBegun ==
    at = "over" /\ verdict \notin {"PENDING", "REFUSED"} =>
        cleanup # "none" /\ (cleanup = "done" => Len(cleaned) = Len(Finally))

(* A run ends, whatever its drivers do.                                    *)
RunEnds == (at # "preflight") ~> (at = "over" /\ conn = "gone")
================================================================================
