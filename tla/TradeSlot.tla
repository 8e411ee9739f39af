----------------------------- MODULE TradeSlot -----------------------------
(***************************************************************************)
(* What a trade promises: it occupies one slot, which is flat, holds one   *)
(* resting order or holds one open position, and it enters the market at   *)
(* most Slots times.  Nothing here knows of rows, gates or jobs.           *)
(***************************************************************************)
EXTENDS Naturals

CONSTANT Slots
VARIABLES slot, entries

Init == slot = "flat" /\ entries = 0

\* An order comes to rest, or goes to the market at once.
Rest   == slot = "flat" /\ slot' = "resting" /\ entries' = entries
Enter  == slot \in {"flat", "resting"} /\ entries < Slots
          /\ slot' = "open" /\ entries' = entries + 1
\* A resting order is withdrawn: by the gate that re-places it, or by the broker.
Withdraw == slot = "resting" /\ slot' = "flat" /\ entries' = entries
Exit   == slot = "open" /\ slot' = "flat" /\ entries' = entries

Next == Rest \/ Enter \/ Withdraw \/ Exit
Spec == Init /\ [][Next]_<<slot, entries>>
=============================================================================
