---------------------------- MODULE MCComponents ----------------------------
(* A small instance of each component for TLC.                             *)
EXTENDS Components

CONSTANTS a1, a2, a3

Pair == {a1, a2}
Three == {a1, a2, a3}
Two == {"d1", "d2"}

\* Three captures of one label, two by external tools and one by the daemon.
OneLabel(c) == "a"
ByTool(c) == c \in {a1, a2}

\* Raw steps: the keys they are written with, and their values.
Raw(action, v, i, on, store) ==
    [keys |-> {"action", "voltage", "enabled"}, action |-> action, v |-> v, i |-> i, on |-> on,
     store |-> store]
Volts(v, i) == Raw("psu.set", v, i, FALSE, None)
Measure == Raw("psu.measure", None, None, FALSE, "probe")
Check == [keys |-> {"assert"}, reads |-> "probe"]
Twice == [keys |-> {"repeat"}, count |-> 2, steps |-> <<Volts(1, 1)>>]
Pool == {Volts(3, None), Volts(2, 2), Volts(4, 1), Measure, Check,
         Raw("psu.output", None, None, TRUE, None), [keys |-> {"mark", "note"}]}
SmallRecipes ==
    {[steps |-> s, finally |-> f, limits |-> l] :
        s \in {<<a, b>> : a, b \in Pool} \cup {<<Twice>>, <<Measure, Twice>>, <<[keys |-> {}]>>},
        f \in {<<>>, <<Raw("psu.output", None, None, FALSE, None), Check>>},
        l \in {[q \in {} |-> 0], [q \in {"V"} |-> 2],
               [q \in {"V", "P"} |-> IF q = "V" THEN 9 ELSE 5]}}
Bound(lo, hi) == [lo |-> lo, hi |-> hi]
UnitLimits == [V |-> Bound(0, 4), I |-> Bound(0, 2), P |-> Bound(None, 6)]
OwnLimits ==
    [d \in Two |-> [V |-> Bound(None, IF d = "d1" THEN 3 ELSE None), I |-> Bound(None, None),
                    P |-> Bound(None, None)]]

One == {"d1"}
A1 == {a1}
Stations == {1, 2}
OneGateway == {2}
ThreeThenTwo == <<3, 2>>
OpeningBytes == <<54, 98>>
OneGroup == {[wide |-> TRUE, pf |-> 240, ps |-> 4]}
EspTool == {"esptool"}
OneTool == {"scpi_query"}
\* What is given to arm: with and without a class that cannot be undone.
ArmLists == {<<"QUERY", "POWER">>, <<"CONTROL", "FLASH">>}
Ttl136 == {1, 3, 6}
NoClass == {}
OneVolt == {2}
=============================================================================
