--------------------------- MODULE MCRetryGate ---------------------------
(* Small instances of RetryGate for TLC. *)
EXTENDS RetryGate, TLC

CONSTANTS b1, b2, b3, o1, o2, o3, o4, c1, p1

\* max_retries: 1 (the M/W plans) and 2.
CapOne == [b \in Bars |-> 1]
CapTwo == [b \in Bars |-> 2]

\* The faults under which a serial gate keeps all its promises.
Tolerated == {"lookup", "drift", "cancel", "supersede", "identify"}
SingleFaults == {"ambiguous", "crash"}
AllButSupersede == AllFaults \ {"supersede"}

OrderSymmetry == Permutations(Orders)
=============================================================================
