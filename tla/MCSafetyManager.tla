--------------------------- MODULE MCSafetyManager ---------------------------
(* Small instances of SafetyManager for TLC.                                *)
EXTENDS SafetyManager, TLC

(* The ceiling is below the longest TTL a request carries, so clamping      *)
(* happens.                                                                 *)
MCMaxTtl == [class \in Classes |-> IF class = OutputClass THEN 1 ELSE 2]

MCSymmetry == Permutations(Devices) \cup Permutations(Conns)
              \cup Permutations(GrantIds) \cup Permutations(LeaseIds)
==============================================================================
