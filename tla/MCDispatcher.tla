---------------------------- MODULE MCDispatcher ----------------------------
(* Small instances of Dispatcher for TLC.                                  *)
EXTENDS Dispatcher, TLC

MCSymmetry == Permutations(Devices) \cup Permutations(Leases) \cup Permutations(Conns)

HandlerFaults == {"handler"}
DisconnectFaults == {"disconnect"}
=============================================================================
