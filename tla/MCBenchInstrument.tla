--------------------------- MODULE MCBenchInstrument ---------------------------
(* Small instances of BenchInstrument for TLC.                             *)
EXTENDS BenchInstrument, TLC

Job(kind, ch) == [kind |-> kind, ch |-> ch]
BenchJobs == {Job("identify", 1), Job("set", 1), Job("on", 2), Job("measure", 2)}
MeasuringJobs == {Job("identify", 1), Job("set", 1), Job("measure", 2)}
SwitchingJobs == {Job("identify", 1), Job("on", 1), Job("on", 2), Job("off", 2)}
BenchSymmetry == Permutations(Slots)
===============================================================================
