------------------------------ MODULE RecipePlan ------------------------------
(***************************************************************************)
(* What a recipe promises before it runs and what the dispatcher enforces  *)
(* while it does: parsing (recipes/schema.py), the compiler                *)
(* (recipes/compiler.py), the limits both of them use (safety/limits.py)   *)
(* and the setpoints of a supply, which other clients change as well.      *)
(*                                                                         *)
(* A raw step has the keys it was written with and the values the actions  *)
(* psu.set, psu.output and psu.measure take.                               *)
(***************************************************************************)
EXTENDS Integers, Sequences, FiniteSets, SequencesExt

CONSTANTS
    Devices,        \* the supplies "role:psu" may resolve to
    Recipes,        \* the recipes on disk, as written
    GlobalLimits,   \* safety.yaml: a bound per quantity
    DeviceLimits,   \* and per device
    Denied,         \* classes the policy disables outright
    Setpoints,      \* values other clients set
    MaxSteps,       \* MAX_PLAN_STEPS
    MaxDepth,       \* MAX_REPEAT_DEPTH
    None

VARIABLES
    resolved,   \* the device the role resolves to now
    plan,       \* the compiled plan
    armed,      \* the classes the operator has armed
    pc,         \* the step the run is at, after the last one when it is over
    supply,     \* each device's setpoints
    filled,     \* the namespaces this run has filled
    refused     \* why the daemon refused steps of this run, and what plan said

vars == <<resolved, plan, armed, pc, supply, filled, refused>>

-----------------------------------------------------------------------------
(* Limits.                                                                 *)

NoBound == [lo |-> None, hi |-> None]
(* Mutant: of two upper bounds the wider one is kept.                      *)
TighterBelow(a, b) ==
    [lo |-> IF a.lo = None \/ (b.lo # None /\ b.lo > a.lo) THEN b.lo ELSE a.lo,
     hi |-> IF a.hi = None \/ (b.hi # None /\ b.hi > a.hi) THEN b.hi ELSE a.hi]

\* intersect: the stricter bound on each side.
Tighter(a, b) ==
    [lo |-> IF a.lo = None \/ (b.lo # None /\ b.lo > a.lo) THEN b.lo ELSE a.lo,
     hi |-> IF a.hi = None \/ (b.hi # None /\ b.hi < a.hi) THEN b.hi ELSE a.hi]
Allows(bound, x) == (bound.hi # None => x <= bound.hi) /\ (bound.lo # None => x >= bound.lo)
Effective(limits, d, q) ==
    IF d = None THEN limits[q] ELSE Tighter(limits[q], DeviceLimits[d][q])

\* check_params and check_derived: the values of ONE request, a missing one unchecked.
Permits(limits, d, step) ==
    step.action = "psu.set" =>
        /\ step.v # None => Allows(Effective(limits, d, "V"), step.v)
        /\ step.i # None => Allows(Effective(limits, d, "I"), step.i)
        /\ step.v # None /\ step.i # None => Allows(Effective(limits, d, "P"), step.v * step.i)

-----------------------------------------------------------------------------
(* Parsing.                                                                *)

\* The first of these keys says what a step is; "mark" before "note", since a
\* mark may carry one.
Ranked == <<"assert", "wait", "mark", "note", "repeat", "action">>
Kind(raw) ==
    LET given == {n \in DOMAIN Ranked : Ranked[n] \in raw.keys} IN
    IF given = {} THEN "none" ELSE Ranked[CHOOSE n \in given : \A k \in given : n <= k]

\* Parameters are written inline or under "params", not both; a repeat has steps,
\* and is not nested deeper than MaxDepth.
Reserved == {"action", "params", "store", "timeout_s"}
WellFormed(raw, depth) ==
    CASE Kind(raw) = "action" -> "params" \notin raw.keys \/ raw.keys \subseteq Reserved
      [] Kind(raw) = "repeat" -> depth < MaxDepth /\ raw.steps # <<>> /\ raw.count >= 1
      [] OTHER -> Kind(raw) # "none"
Parses(recipe) ==
    \A raw \in ToSet(recipe.steps) \cup ToSet(recipe.finally) :
        /\ WellFormed(raw, 0)
        /\ Kind(raw) = "repeat" => \A inner \in ToSet(raw.steps) : WellFormed(inner, 1)

\* A recipe's own limits, with the names it may spell them by.
Declared(recipe) == [q \in DOMAIN GlobalLimits |->
    IF q \in DOMAIN recipe.limits THEN [lo |-> 0, hi |-> recipe.limits[q]] ELSE NoBound]

-----------------------------------------------------------------------------
(* The compiler.                                                           *)

\* One that allows more than the unit does is refused, and tightened all the same.
TooWide(recipe) == \E q \in DOMAIN recipe.limits :
    GlobalLimits[q].hi # None /\ recipe.limits[q] > GlobalLimits[q].hi
Limits(recipe) == [q \in DOMAIN GlobalLimits |-> Tighter(GlobalLimits[q], Declared(recipe)[q])]

\* repeat, written out.
Expanded(steps) ==
    FlattenSeq([n \in DOMAIN steps |->
        IF Kind(steps[n]) # "repeat" THEN <<steps[n]>>
        ELSE FlattenSeq([k \in 1 .. steps[n].count |-> steps[n].steps])])

\* The class the exact parameters of a step need.
Permission(step) ==
    CASE Kind(step) # "action" -> "PASSIVE"
      [] step.action = "psu.measure" -> "QUERY"
      [] step.action = "psu.output" /\ ~step.on -> "PASSIVE"
      [] OTHER -> "POWER"
Fills(step) == IF Kind(step) # "action" THEN {}
               ELSE {IF step.store # None THEN step.store ELSE "psu"}

\* What is wrong with the n-th of the steps: an assertion reads what no earlier
\* step produces; an action's device is missing, its values pass a limit, or its
\* class is disabled.
Problem(recipe, steps, n, d) ==
    LET step == steps[n] IN
    CASE Kind(step) = "assert" ->
            IF \E k \in 1 .. n - 1 : Kind(steps[k]) = "action" /\ d # None /\ step.reads \in Fills(steps[k])
            THEN None ELSE "unknown-namespace"
      [] Kind(step) = "action" ->
            IF d = None THEN "action-unavailable"
            ELSE IF ~Permits(Limits(recipe), d, step) THEN "limit-exceeded"
            ELSE IF Permission(step) \in Denied THEN "permission-denied-by-policy" ELSE None
      [] OTHER -> None

\* The compiled plan: every step of both phases up to the limit, every problem.
Compiled(recipe, d) ==
    LET main == Expanded(recipe.steps)
        all == main \o Expanded(recipe.finally)
        kept == SubSeq(all, 1, IF Len(all) <= MaxSteps THEN Len(all) ELSE MaxSteps)
        found == {Problem(recipe, kept, n, d) : n \in DOMAIN kept} \ {None} IN
    [recipe |-> recipe, device |-> d, steps |-> kept,
     main |-> IF Len(main) <= Len(kept) THEN Len(main) ELSE Len(kept),
     required |-> {Permission(kept[n]) : n \in DOMAIN kept} \ {"PASSIVE"},
     problems |-> found
        \cup (IF Len(all) > MaxSteps THEN {"plan-too-large"} ELSE {})
        \cup (IF TooWide(recipe) THEN {"recipe-limit-too-wide"} ELSE {})
        \cup (IF d = None THEN {"device-missing"} ELSE {})]

-----------------------------------------------------------------------------
Bounds == [lo : Int \cup {None}, hi : Int \cup {None}]
Value(x) == x \in Int \cup {None}
RawSteps == UNION {ToSet(Expanded(recipe.steps)) \cup ToSet(Expanded(recipe.finally)) : recipe \in Recipes}

(* What the proofs ask of the constants: bounds and values are integers    *)
(* where there are any, and None is not one of the names of the program.   *)
Constants ==
    /\ MaxSteps \in Nat
    /\ {"V", "I", "P"} \subseteq DOMAIN GlobalLimits
    /\ \A q \in DOMAIN GlobalLimits : GlobalLimits[q] \in Bounds
    /\ \A d \in Devices : \A q \in {"V", "I", "P"} : DeviceLimits[d][q] \in Bounds
    /\ None \notin Int \cup Devices
    /\ None \notin {"device", "permission", "limit", "unknown-namespace", "action-unavailable",
                    "limit-exceeded", "permission-denied-by-policy", "QUERY", "POWER", "PASSIVE"}
    /\ \A v \in Setpoints : v \in Int
    /\ \A recipe \in Recipes :
          /\ {Expanded(recipe.steps), Expanded(recipe.finally)} \subseteq Seq(RawSteps)
          /\ \A q \in DOMAIN recipe.limits : recipe.limits[q] \in Int
    /\ \A step \in RawSteps :
          Kind(step) = "action" /\ step.action = "psu.set" => Value(step.v) /\ Value(step.i)

-----------------------------------------------------------------------------
TypeOK ==
    /\ resolved \in Devices \cup {None}
    /\ plan # None => plan.main \in 0 .. Len(plan.steps) /\ Len(plan.steps) <= MaxSteps
    /\ armed \subseteq {"QUERY", "POWER"}
    /\ pc \in 0 .. MaxSteps + 1
    /\ \A d \in Devices : DOMAIN supply[d] = {"v", "i"}
    /\ \A name \in filled : \E n \in DOMAIN plan.steps : name \in Fills(plan.steps[n])
    /\ refused \subseteq {"device", "permission", "limit", "unreadable"} \X {"main", "finally"}

Init ==
    /\ resolved = None /\ plan = None /\ armed = {} /\ pc = 0
    /\ supply = [d \in Devices |-> [v |-> 0, i |-> 0]]
    /\ filled = {} /\ refused = {}

\* A device is plugged in or taken away, or another takes its place.
Replug(d) ==
    /\ resolved # d /\ resolved' = d
    /\ UNCHANGED <<plan, armed, pc, supply, filled, refused>>

Compile(recipe) ==
    /\ plan = None /\ Parses(recipe)
    /\ plan' = Compiled(recipe, resolved)
    /\ UNCHANGED <<resolved, armed, pc, supply, filled, refused>>

\* The operator arms what the plan asks for.
ArmPlan ==
    /\ plan # None /\ armed # plan.required /\ pc = 0
    /\ armed' = plan.required
    /\ UNCHANGED <<resolved, plan, pc, supply, filled, refused>>

\* raise_if_unrunnable.
Begin ==
    /\ plan # None /\ plan.problems = {} /\ pc = 0 /\ pc' = 1
    /\ UNCHANGED <<resolved, plan, armed, supply, filled, refused>>

Over == pc = 0 \/ pc > Len(plan.steps)
InMain == pc <= plan.main
\* After a failed step: the finally steps, each of which is tried.
OnFailure == pc' = IF InMain THEN plan.main + 1 ELSE pc + 1

Set(d, step) ==
    supply' = [supply EXCEPT ![d].v = IF step.v # None THEN step.v ELSE @,
                             ![d].i = IF step.i # None THEN step.i ELSE @]

\* The dispatcher: device, authorization, limits, in that order.
Refusal(step) ==
    CASE resolved = None -> "device"
      [] resolved # None /\ Permission(step) \notin armed \cup {"PASSIVE"} -> "permission"
      [] OTHER -> IF Permits(GlobalLimits, resolved, step) THEN None ELSE "limit"

StepAction(failed) ==
    /\ ~Over /\ Kind(plan.steps[pc]) = "action"
    /\ LET step == plan.steps[pc] IN
       IF Refusal(step) # None
       THEN /\ refused' = refused \cup {<<Refusal(step), IF InMain THEN "main" ELSE "finally">>}
            /\ OnFailure /\ UNCHANGED <<supply, filled>>
       ELSE /\ IF failed THEN OnFailure /\ UNCHANGED <<supply, filled>>
               ELSE /\ pc' = pc + 1 /\ filled' = filled \cup Fills(step)
                    /\ IF step.action = "psu.set" THEN Set(resolved, step) ELSE UNCHANGED supply
            /\ UNCHANGED refused
    /\ UNCHANGED <<resolved, plan, armed>>

\* An assertion passes, fails, or reads a result no step of this run left.
StepAssert(passes) ==
    /\ ~Over /\ Kind(plan.steps[pc]) = "assert"
    /\ LET readable == plan.steps[pc].reads \in filled IN
       /\ refused' = IF readable THEN refused
                     ELSE refused \cup {<<"unreadable", IF InMain THEN "main" ELSE "finally">>}
       /\ IF readable /\ passes THEN pc' = pc + 1 ELSE OnFailure
    /\ UNCHANGED <<resolved, plan, armed, supply, filled>>

\* A wait, a mark or a note.
StepOther ==
    /\ ~Over /\ Kind(plan.steps[pc]) \in {"wait", "mark", "note"} /\ pc' = pc + 1
    /\ UNCHANGED <<resolved, plan, armed, supply, filled, refused>>

\* Another armed client sets the voltage, the current limit or both.
SetByOther(v, i) ==
    LET step == [action |-> "psu.set", v |-> v, i |-> i] IN
    /\ resolved # None /\ (v # None \/ i # None)
    /\ Permits(GlobalLimits, resolved, step) /\ Set(resolved, step)
    /\ UNCHANGED <<resolved, plan, armed, pc, filled, refused>>

Next ==
    \/ \E d \in Devices \cup {None} : Replug(d)
    \/ \E recipe \in Recipes : Compile(recipe)
    \/ ArmPlan \/ Begin \/ StepOther
    \/ \E failed \in BOOLEAN : StepAction(failed)
    \/ \E passes \in BOOLEAN : StepAssert(passes)
    \/ \E v, i \in Setpoints \cup {None} : SetByOther(v, i)

Spec == Init /\ [][Next]_vars

-----------------------------------------------------------------------------
(* "A value the compiler accepts is one the dispatcher accepts"            *)
(* (compiler.py:308-310): armed with the classes the plan names, on the    *)
(* devices it was compiled for, no step of the run is refused, and in the  *)
(* steps phase no assertion reads a result that is not there.  And         *)
(* whatever was compiled, a setpoint changes to what both the unit's limit *)
(* and the device's own allow.                                             *)
KeepsPlan ==
    /\ plan # None /\ pc > 0 /\ resolved = plan.device /\ plan.required \subseteq armed =>
            refused' \ refused \subseteq {<<"unreadable", "finally">>}
    /\ \A d \in Devices :
            /\ supply'[d].v # supply[d].v =>
                   Allows(GlobalLimits["V"], supply'[d].v) /\ Allows(DeviceLimits[d]["V"], supply'[d].v)
            /\ supply'[d].i # supply[d].i =>
                   Allows(GlobalLimits["I"], supply'[d].i) /\ Allows(DeviceLimits[d]["I"], supply'[d].i)

PlanKept == [][KeepsPlan]_vars

(* "GLOBAL HARD LIMIT ... The ceiling for the whole deployment"            *)
(* (safety/limits.py:5-6), of which config/safety.example.yaml:59 lists    *)
(* the product of the voltage and the current limit: the setpoints of a    *)
(* supply never multiply to more.                                          *)
PowerUnderCeiling ==
    \A d \in Devices : Allows(Effective(GlobalLimits, d, "P"), supply[d].v * supply[d].i)
=============================================================================
