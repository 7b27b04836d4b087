-------------------------- MODULE SharedConstants ---------------------------
(* The constants that components of Services and of Bench both have.       *)

CONSTANTS None, MaxFaults, Capacity
=============================================================================
