---------------------------- MODULE MCPlanSpine -----------------------------
(* The sizes of the runs of PlanSpine.                                     *)
EXTENDS PlanSpine

CONSTANTS acct1, acct2

AllRequests == {"register", "observe", "delete", "paper", "swap", "closed", "alert"}
MovesAndRegistrations == AllRequests \ {"delete", "alert"}
=============================================================================
