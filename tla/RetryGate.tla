----------------------------- MODULE RetryGate -----------------------------
(***************************************************************************)
(* The entry path of ONE trade: the multi-shot retry gate, the placement   *)
(* behind it, the attempt rows it writes, and the other jobs that touch    *)
(* those rows.                                                             *)
(*                                                                         *)
(*   core/src/retry_gate.rs          evaluate_at, the backstop,            *)
(*                                   record_placement                      *)
(*   core/src/dispatch/enter.rs      the tail of run_enter                 *)
(*   core/src/dispatch/seen.rs       the seen-by-id index                  *)
(*   core/src/attempt_resolution/observation.rs   observe                  *)
(*   trade-control-cron/src/sweep.rs the sweep of attempt rows             *)
(*   worker/src/pg.rs                the attempt-row statements            *)
(*                                                                         *)
(* Every `.await` of the code is a point where another job may run, so a   *)
(* fire is a program counter that advances one store or broker call at a   *)
(* time.  The trade's fires come from the engine tick, from the promotion  *)
(* pass and from the HTTP edge: Callers are those that may run at once.    *)
(* The gates above the retry gate can only refuse a fire before any of     *)
(* this state is touched, so a refused fire is a fire that never arrives.  *)
(***************************************************************************)
EXTENDS Naturals, FiniteSets

CONSTANTS
    Callers,    \* the jobs that may be inside run_enter for this trade
    Replacers,  \* restores and re-prices: they pull an order and re-place it
    Sweeping,   \* whether the sweep of attempt rows runs
    Bars,       \* signal bars (shell.time); each may fire any number of times
    Orders,     \* broker order ids, the bound on placements
    Cap,        \* Cap[b]: max_retries as bar b's shell resolves it
    MultiShot,  \* is_multishot_enter: the gate, not the latch, owns dedup
    Faults,     \* what may go wrong, out of AllFaults
    NoOrder     \* no broker order id yet

AllFaults == {
    "lookup",     \* lookup_attempt answers Unknown or Transient
    "drift",      \* an open position no longer carries its entry order's id
    "cancel",     \* cancel_order errors and leaves the order resting
    "ambiguous",  \* place_entry cannot tell whether an order exists
    "record",     \* record_entry_attempt fails (best effort)
    "supersede",  \* set_entry_attempt_superseded fails (logged)
    "identify",   \* set_entry_attempt_broker_trade_id fails (logged)
    "mark",       \* mark_retry_fire_seen or mark_seen fails (logged)
    "repoint",    \* set_entry_attempt_replacement fails (logged)
    "crash" }     \* the process dies and starts again

ASSUME CapAssumption == Cap \in [Bars -> Nat]
ASSUME FaultAssumption == Faults \subseteq AllFaults
ASSUME BarsAssumption == Bars # {}
ASSUME NoOrderAssumption == NoOrder \notin Orders

\* EntryAttempt: the fields the gate and the sweep decide on.
Row == [no : Nat, oid : Orders, bar : Bars, known : BOOLEAN, superseded : BOOLEAN]

VARIABLES
    order,     \* the broker: the state of each order
    rows,      \* entry_attempt rows of this trade, unique in their `no`
    fired,     \* retry_fire: bars whose placement was marked
    poisoned,  \* mark_seen was written for the enter's one baked intent id
    pc, bar, mode, snap, todo, freed, oid,   \* each caller's fire
    spc, stodo, srow,                        \* the sweep
    rpc, rold, rnew                          \* each replacer

storeVars == <<rows, fired, poisoned>>
gateVars  == <<pc, bar, mode, snap, todo, freed, oid>>
sweepVars == <<spc, stodo, srow>>
replVars  == <<rpc, rold, rnew>>
vars == <<order, storeVars, gateVars, sweepVars, replVars>>

\* An idle caller has no fire; its bar is this placeholder.
AnyBar == CHOOSE b \in Bars : TRUE

OrderStates == {"unused", "pending", "open", "closed", "cancelled"}
GateStates  == {"idle", "fireSeen", "list", "backstop", "walk", "cancel", "recheck",
                "supersede", "cap", "place", "record", "markFire", "markSeen"}
SweepStates == {"idle", "pick", "confirm", "cancel", "delete"}
ReplStates  == {"idle", "held", "repoint"}

Live(o)   == order[o] \in {"pending", "open"}
Filled(o) == order[o] \in {"open", "closed"}

TypeOK ==
    /\ order \in [Orders -> OrderStates]
    /\ rows \in SUBSET Row /\ IsFiniteSet(rows)
    /\ fired \in SUBSET Bars
    /\ poisoned \in BOOLEAN
    /\ pc \in [Callers -> GateStates]
    /\ bar \in [Callers -> Bars]
    /\ mode \in [Callers -> {"Full", "Probe"}]
    /\ snap \in [Callers -> SUBSET Row]
    /\ \A c \in Callers : IsFiniteSet(snap[c])
    /\ todo \in [Callers -> SUBSET Row]
    /\ freed \in [Callers -> SUBSET Nat]
    /\ oid \in [Callers -> Orders \cup {NoOrder}]
    /\ spc \in SweepStates
    /\ stodo \in SUBSET Row
    /\ srow \in SUBSET Row
    /\ rpc \in [Replacers -> ReplStates]
    /\ rold \in [Replacers -> Orders \cup {NoOrder}]
    /\ rnew \in [Replacers -> Orders \cup {NoOrder}]

Init ==
    /\ order = [o \in Orders |-> "unused"]
    /\ rows = {} /\ fired = {} /\ poisoned = FALSE
    /\ pc = [c \in Callers |-> "idle"]
    /\ bar = [c \in Callers |-> AnyBar]
    /\ mode = [c \in Callers |-> "Full"]
    /\ snap = [c \in Callers |-> {}]
    /\ todo = [c \in Callers |-> {}]
    /\ freed = [c \in Callers |-> {}]
    /\ oid = [c \in Callers |-> NoOrder]
    /\ spc = "idle" /\ stodo = {} /\ srow = {}
    /\ rpc = [p \in Replacers |-> "idle"]
    /\ rold = [p \in Replacers |-> NoOrder]
    /\ rnew = [p \in Replacers |-> NoOrder]

-----------------------------------------------------------------------------
(* Helpers: the store's statements and the gate's pure parts.              *)

RowNumbers(S) == {r.no : r \in S}
Newest(r, S) == r \in S /\ \A q \in S : q.no <= r.no

\* pg.rs: INSERT ... ON CONFLICT (account, trade_id, attempt_no) DO UPDATE.
Upsert(S, row) == {q \in S : q.no # row.no} \cup {row}

Identify(S, n) == {IF q.no = n THEN [q EXCEPT !.known = TRUE] ELSE q : q \in S}
Supersede(S, n) == {IF q.no = n THEN [q EXCEPT !.superseded = TRUE] ELSE q : q \in S}
\* Mutant: a restore adds a row of its own instead of re-pointing the old one.
RepointAsNewRow(S, old, new) ==
    S \cup {[q EXCEPT !.oid = new, !.no = Cardinality(S) + 1] : q \in {x \in S : x.oid = old}}

Repoint(S, old, new) == {IF q.oid = old THEN [q EXCEPT !.oid = new] ELSE q : q \in S}

\* A read or a lookup that fails refuses the fire; it never lets one through.
LookupFails == "lookup" \in Faults

\* observe(): a fill seen for a row without a position id is written back to it.
LearnFill(r) ==
    \/ r.known /\ rows' = rows
    \/ ~r.known /\ rows' = Identify(rows, r.no)
    \/ ~r.known /\ "identify" \in Faults /\ rows' = rows

\* Mutants: the test on `superseded` inverted; the slot freed by this fire
\* ignored, because the snapshot was read before the row was marked.
ChargedInverted(S, free) == {r \in S : r.superseded /\ r.no \notin free}
ChargedStale(S, free) == {r \in S : ~r.superseded}

\* The rows the placement cap charges, given what this fire has just freed.
Charged(S, free) == {r \in S : ~r.superseded /\ r.no \notin free}
PlacedEntries(c) == Cardinality(Charged(snap[c], freed[c]))

\* Mutant: the highest number in use is taken again.
NextNotPast(S) ==
    IF S = {} THEN 1 ELSE CHOOSE n \in RowNumbers(S) : \A m \in RowNumbers(S) : m <= n

\* attempts.iter().map(|a| a.attempt_no).max().unwrap_or(0) + 1
NextAttemptNo(S) ==
    LET top == {n \in RowNumbers(S) : \A m \in RowNumbers(S) : m <= n}
    IN  IF top = {} THEN 1 ELSE (CHOOSE n \in top : TRUE) + 1

\* Return from run_enter: the fire is over and its locals are gone.
Return(c) ==
    /\ pc' = [pc EXCEPT ![c] = "idle"]
    /\ snap' = [snap EXCEPT ![c] = {}]
    /\ todo' = [todo EXCEPT ![c] = {}]
    /\ freed' = [freed EXCEPT ![c] = {}]
    /\ oid' = [oid EXCEPT ![c] = NoOrder]
    /\ bar' = [bar EXCEPT ![c] = AnyBar]
    /\ mode' = [mode EXCEPT ![c] = "Full"]

Goto(c, from, to) == pc[c] = from /\ pc' = [pc EXCEPT ![c] = to]

-----------------------------------------------------------------------------
(* One fire of the enter, call by call.                                    *)

\* Mutant: the seen index is not consulted.
ArriveUnseen(c, b, m) ==
    /\ pc[c] = "idle" /\ m = "Full"
    /\ pc' = [pc EXCEPT ![c] = IF MultiShot THEN "fireSeen" ELSE "place"]
    /\ bar' = [bar EXCEPT ![c] = b]
    /\ UNCHANGED <<order, storeVars, mode, snap, todo, freed, oid, sweepVars, replVars>>

\* The edge.  A seen id stops a single-shot enter with a 409; a multi-shot one
\* falls through to the gate.  A zero cap is a 412 before anything is read.
Arrive(c, b, m) ==
    /\ pc[c] = "idle"
    /\ MultiShot \/ ~poisoned
    /\ ~MultiShot => m = "Full"
    /\ MultiShot => Cap[b] # 0
    /\ pc' = [pc EXCEPT ![c] = IF MultiShot THEN "fireSeen" ELSE "place"]
    /\ bar' = [bar EXCEPT ![c] = b]
    /\ mode' = [mode EXCEPT ![c] = m]
    /\ UNCHANGED <<order, storeVars, snap, todo, freed, oid, sweepVars, replVars>>

IsRetryFireSeen(c) ==
    /\ pc[c] = "fireSeen"
    /\ \/ (bar[c] \in fired \/ LookupFails) /\ Return(c)
       \/ /\ bar[c] \notin fired
          /\ Goto(c, "fireSeen", "list")
          /\ UNCHANGED <<bar, mode, snap, todo, freed, oid>>
    /\ UNCHANGED <<order, storeVars, sweepVars, replVars>>

ListEntryAttempts(c) ==
    /\ pc[c] = "list"
    /\ \/ LookupFails /\ Return(c)
       \/ /\ Goto(c, "list", IF rows = {} THEN "walk" ELSE "backstop")
          /\ snap' = [snap EXCEPT ![c] = rows]
          /\ todo' = [todo EXCEPT ![c] = rows]
          /\ UNCHANGED <<bar, mode, freed, oid>>
    /\ UNCHANGED <<order, storeVars, sweepVars, replVars>>

\* A live position is matched to an attempt by its order id, which may have
\* drifted, or by the position id the row has learnt.
OpenPositionBackstop(c) ==
    /\ pc[c] = "backstop"
    /\ LET open == {r \in snap[c] : order[r.oid] = "open"}
           certain == {r \in open : r.known \/ "drift" \notin Faults}
       IN  \/ (open # {} \/ LookupFails) /\ Return(c)
           \/ /\ certain = {}
              /\ Goto(c, "backstop", "walk")
              /\ UNCHANGED <<bar, mode, snap, todo, freed, oid>>
    /\ UNCHANGED <<order, storeVars, sweepVars, replVars>>

\* Mutant: an unresolved attempt counts as done (the fail-open of Bug #11).
UnresolvedIsDone(c, r) ==
    /\ LookupFails /\ rows' = rows
    /\ todo' = [todo EXCEPT ![c] = @ \ {r}]
    /\ UNCHANGED <<pc, bar, mode, snap, freed, oid>>

\* The newest-first walk, one observe() per attempt.  An attempt the broker
\* cannot resolve refuses the fire.
ObserveUnresolved(c, r) == LookupFails /\ Return(c) /\ rows' = rows

ObservePending(c, r) ==
    /\ order[r.oid] = "pending"
    /\ rows' = rows
    /\ \/ mode[c] = "Probe" /\ Return(c)
       \/ /\ mode[c] = "Full"
          /\ Goto(c, "walk", "cancel")
          /\ UNCHANGED <<bar, mode, snap, todo, freed, oid>>

\* Mutant: an attempt found open is walked past like a closed one.
OpenIsDone(c, r) ==
    /\ order[r.oid] = "open" /\ LearnFill(r)
    /\ todo' = [todo EXCEPT ![c] = @ \ {r}]
    /\ UNCHANGED <<pc, bar, mode, snap, freed, oid>>

ObserveOpen(c, r) == order[r.oid] = "open" /\ LearnFill(r) /\ Return(c)

\* Closed or cancelled: on to the next-older attempt.
ObserveDone(c, r) ==
    /\ \/ order[r.oid] = "closed" /\ LearnFill(r)
       \/ order[r.oid] = "cancelled" /\ rows' = rows
    /\ todo' = [todo EXCEPT ![c] = @ \ {r}]
    /\ UNCHANGED <<pc, bar, mode, snap, freed, oid>>

Observe(c) ==
    /\ pc[c] = "walk"
    /\ \E r \in todo[c] :
        /\ Newest(r, todo[c])
        /\ ObserveUnresolved(c, r) \/ ObservePending(c, r) \/ ObserveOpen(c, r)
               \/ ObserveDone(c, r)
    /\ UNCHANGED <<order, fired, poisoned, sweepVars, replVars>>

\* Mutant: the result of cancel_order is ignored.
CancelUnchecked(c) ==
    /\ \E r \in todo[c] :
        /\ Newest(r, todo[c])
        /\ order' = IF order[r.oid] = "pending" /\ "cancel" \notin Faults
                    THEN [order EXCEPT ![r.oid] = "cancelled"] ELSE order
    /\ Goto(c, "cancel", "supersede")
    /\ UNCHANGED <<storeVars, bar, mode, snap, todo, freed, oid, sweepVars, replVars>>

CancelResting(c) ==
    /\ pc[c] = "cancel"
    /\ \E r \in todo[c] :
        /\ Newest(r, todo[c])
        /\ \/ /\ order[r.oid] = "pending"
              /\ order' = [order EXCEPT ![r.oid] = "cancelled"]
              /\ Goto(c, "cancel", "supersede")
           \/ /\ order[r.oid] # "pending" \/ "cancel" \in Faults
              /\ order' = order
              /\ Goto(c, "cancel", "recheck")
    /\ UNCHANGED <<storeVars, bar, mode, snap, todo, freed, oid, sweepVars, replVars>>

\* The cancel failed: the order may have filled meanwhile, so look again.
ReObserve(c) ==
    /\ pc[c] = "recheck"
    /\ \E r \in todo[c] :
        /\ Newest(r, todo[c])
        /\ \/ (LookupFails \/ order[r.oid] = "pending") /\ Return(c) /\ rows' = rows
           \/ order[r.oid] = "open" /\ LearnFill(r) /\ Return(c)
           \/ /\ order[r.oid] \in {"closed", "cancelled"}
              /\ IF order[r.oid] = "closed" THEN LearnFill(r) ELSE rows' = rows
              /\ Goto(c, "recheck", "cap")
              /\ UNCHANGED <<bar, mode, snap, todo, freed, oid>>
    /\ UNCHANGED <<order, fired, poisoned, sweepVars, replVars>>

MarkSuperseded(c) ==
    /\ \E r \in todo[c] :
        /\ Newest(r, todo[c])
        /\ freed' = [freed EXCEPT ![c] = {r.no}]
        /\ \/ rows' = Supersede(rows, r.no)
           \/ "supersede" \in Faults /\ rows' = rows
    /\ Goto(c, "supersede", "cap")
    /\ UNCHANGED <<order, fired, poisoned, bar, mode, snap, todo, oid, sweepVars, replVars>>

\* 429 at the cap; otherwise Proceed.  A probe's Proceed parks the entry and
\* places nothing.
CapCheck(c) ==
    /\ pc[c] = "cap" \/ (pc[c] = "walk" /\ todo[c] = {})
    /\ \/ (PlacedEntries(c) >= Cap[bar[c]] \/ mode[c] = "Probe") /\ Return(c)
       \/ /\ PlacedEntries(c) < Cap[bar[c]] /\ mode[c] = "Full"
          /\ pc' = [pc EXCEPT ![c] = "place"]
          /\ UNCHANGED <<bar, mode, snap, todo, freed, oid>>
    /\ UNCHANGED <<order, storeVars, sweepVars, replVars>>

\* place_entry with a readable answer: a resting order or an immediate fill.
Placed(c) ==
    /\ \E o \in Orders, s \in {"pending", "open"} :
        /\ order[o] = "unused"
        /\ order' = [order EXCEPT ![o] = s]
        /\ oid' = [oid EXCEPT ![c] = o]
    /\ Goto(c, "place", IF MultiShot THEN "record" ELSE "markSeen")
    /\ UNCHANGED <<bar, mode, snap, todo, freed>>

\* Mutant: AmbiguousSuccess handled as Ok, without an order id.
AmbiguousAsOk(c) ==
    /\ "ambiguous" \in Faults
    /\ Goto(c, "place", IF MultiShot THEN "record" ELSE "markSeen")
    /\ UNCHANGED <<order, bar, mode, snap, todo, freed, oid>>

\* EntryError::AmbiguousSuccess: an order may exist, and its id is not known.
PlacedAmbiguously(c) ==
    /\ "ambiguous" \in Faults
    /\ \/ \E o \in Orders, s \in {"pending", "open"} :
            order[o] = "unused" /\ order' = [order EXCEPT ![o] = s]
       \/ order' = order
    /\ Goto(c, "place", "markSeen")
    /\ UNCHANGED <<bar, mode, snap, todo, freed, oid>>

\* Any other error leaves the seen index alone and lets the next bar retry.
PlacementFailed(c) == pc[c] = "place" /\ Return(c) /\ order' = order

PlaceEntry(c) ==
    /\ Placed(c) \/ PlacedAmbiguously(c) \/ PlacementFailed(c)
    /\ UNCHANGED <<storeVars, sweepVars, replVars>>

\* Mutant: only an order still resting is written down, not a market fill.
RecordRestingOnly(c) ==
    /\ Goto(c, "record", "markFire")
    /\ rows' = IF order[oid[c]] # "pending" THEN rows
               ELSE Upsert(rows, [no |-> NextAttemptNo(snap[c]), oid |-> oid[c],
                                  bar |-> bar[c], known |-> FALSE, superseded |-> FALSE])
    /\ UNCHANGED <<order, fired, poisoned, bar, mode, snap, todo, freed, oid,
                   sweepVars, replVars>>

\* retry_gate::record_placement, best effort in both of its writes.
RecordEntryAttempt(c) ==
    /\ Goto(c, "record", "markFire")
    /\ \/ rows' = Upsert(rows, [no |-> NextAttemptNo(snap[c]), oid |-> oid[c],
                                bar |-> bar[c], known |-> FALSE, superseded |-> FALSE])
       \/ "record" \in Faults /\ rows' = rows
    /\ UNCHANGED <<order, fired, poisoned, bar, mode, snap, todo, freed, oid,
                   sweepVars, replVars>>

\* Mutant: the bar is never marked.
MarkNothing(c) ==
    /\ Goto(c, "markFire", "markSeen")
    /\ UNCHANGED <<order, storeVars, bar, mode, snap, todo, freed, oid, sweepVars, replVars>>

MarkRetryFireSeen(c) ==
    /\ Goto(c, "markFire", "markSeen")
    /\ \/ fired' = fired \cup {bar[c]}
       \/ "mark" \in Faults /\ fired' = fired
    /\ UNCHANGED <<order, rows, poisoned, bar, mode, snap, todo, freed, oid,
                   sweepVars, replVars>>

\* record_dispatcher_outcome: Ok and AmbiguousSuccess poison the intent id.
RecordDispatcherOutcome(c) ==
    /\ pc[c] = "markSeen"
    /\ \/ poisoned' = TRUE
       \/ "mark" \in Faults /\ poisoned' = poisoned
    /\ Return(c)
    /\ UNCHANGED <<order, rows, fired, sweepVars, replVars>>

-----------------------------------------------------------------------------
(* The sweep.  It lists every row once and works from that snapshot.       *)

SweepPendingOrders ==
    /\ Sweeping /\ spc = "idle" /\ rows # {}
    /\ spc' = "pick" /\ stodo' = rows /\ srow' = {}
    /\ UNCHANGED <<order, storeVars, gateVars, replVars>>

\* A row with a position id is left to the position's own exits.  A row past
\* its alert window or its bar expiry goes straight to the cancel; a row with a
\* stop is confirmed as resting first.
SweepOne ==
    /\ spc = "pick"
    /\ \/ /\ \E r \in stodo :
               /\ stodo' = stodo \ {r}
               /\ \/ srow' = {} /\ spc' = "pick"
                  \/ ~r.known /\ srow' = {r} /\ spc' \in {"confirm", "cancel"}
       \/ stodo = {} /\ spc' = "idle" /\ UNCHANGED <<stodo, srow>>
    /\ UNCHANGED <<order, storeVars, gateVars, replVars>>

\* confirmed_pending, then the breach test on the folded extreme.
SweepConfirm ==
    /\ spc = "confirm"
    /\ \E r \in srow :
        \/ order[r.oid] = "pending" /\ spc' \in {"cancel", "pick"} /\ rows' = rows
        \/ Filled(r.oid) /\ LearnFill(r) /\ spc' = "pick"
        \/ (order[r.oid] = "cancelled" \/ LookupFails) /\ spc' = "pick" /\ rows' = rows
    /\ UNCHANGED <<order, fired, poisoned, stodo, srow, gateVars, replVars>>

\* cancel_with_broker logs a failure and returns: the caller cannot see it.
SweepCancel ==
    /\ spc = "cancel"
    /\ \E r \in srow :
        \/ order[r.oid] = "pending" /\ order' = [order EXCEPT ![r.oid] = "cancelled"]
        \/ (order[r.oid] # "pending" \/ "cancel" \in Faults) /\ order' = order
    /\ spc' = "delete"
    /\ UNCHANGED <<storeVars, stodo, srow, gateVars, replVars>>

SweepDelete ==
    /\ spc = "delete"
    /\ \E r \in srow : rows' = {q \in rows : q.no # r.no}
    /\ spc' = "pick" /\ srow' = {}
    /\ UNCHANGED <<order, fired, poisoned, stodo, gateVars, replVars>>

-----------------------------------------------------------------------------
(* A hold's restore, or a re-price: pull the resting order, and later      *)
(* re-place it as EntryOrigin::Replacing, which skips the gate, writes no  *)
(* row and re-points the one there is.                                     *)

PullOrder(p) ==
    /\ rpc[p] = "idle"
    /\ \E o \in Orders :
        /\ order[o] = "pending"
        /\ order' = [order EXCEPT ![o] = "cancelled"]
        /\ rold' = [rold EXCEPT ![p] = o]
    /\ rpc' = [rpc EXCEPT ![p] = "held"]
    /\ UNCHANGED <<storeVars, gateVars, sweepVars, rnew>>

ReplaceOrder(p) ==
    /\ rpc[p] = "held"
    /\ \/ \E o \in Orders, s \in {"pending", "open"} :
            /\ order[o] = "unused"
            /\ order' = [order EXCEPT ![o] = s]
            /\ rnew' = [rnew EXCEPT ![p] = o]
            /\ rpc' = [rpc EXCEPT ![p] = "repoint"]
            /\ rold' = rold
       \/ /\ rpc' = [rpc EXCEPT ![p] = "idle"]
          /\ rold' = [rold EXCEPT ![p] = NoOrder]
          /\ UNCHANGED <<order, rnew>>
    /\ UNCHANGED <<storeVars, gateVars, sweepVars>>

SetReplacement(p) ==
    /\ rpc[p] = "repoint"
    /\ \/ rows' = Repoint(rows, rold[p], rnew[p])
       \/ "repoint" \in Faults /\ rows' = rows
    /\ rpc' = [rpc EXCEPT ![p] = "idle"]
    /\ rold' = [rold EXCEPT ![p] = NoOrder]
    /\ rnew' = [rnew EXCEPT ![p] = NoOrder]
    /\ UNCHANGED <<order, fired, poisoned, gateVars, sweepVars>>

-----------------------------------------------------------------------------
(* The broker on its own, and the process.                                 *)

BrokerFill(o) ==
    /\ order[o] = "pending"
    /\ order' = [order EXCEPT ![o] = "open"]
    /\ UNCHANGED <<storeVars, gateVars, sweepVars, replVars>>

BrokerExit(o) ==
    /\ order[o] = "open"
    /\ order' = [order EXCEPT ![o] = "closed"]
    /\ UNCHANGED <<storeVars, gateVars, sweepVars, replVars>>

BrokerWithdraw(o) ==
    /\ order[o] = "pending"
    /\ order' = [order EXCEPT ![o] = "cancelled"]
    /\ UNCHANGED <<storeVars, gateVars, sweepVars, replVars>>

\* Only the broker and the tables survive.
Crash ==
    /\ "crash" \in Faults
    /\ pc' = [c \in Callers |-> "idle"]
    /\ snap' = [c \in Callers |-> {}]
    /\ todo' = [c \in Callers |-> {}]
    /\ freed' = [c \in Callers |-> {}]
    /\ oid' = [c \in Callers |-> NoOrder]
    /\ spc' = "idle" /\ stodo' = {} /\ srow' = {}
    /\ rpc' = [p \in Replacers |-> "idle"]
    /\ rold' = [p \in Replacers |-> NoOrder]
    /\ rnew' = [p \in Replacers |-> NoOrder]
    /\ bar' = [c \in Callers |-> AnyBar]
    /\ mode' = [c \in Callers |-> "Full"]
    /\ UNCHANGED <<order, storeVars>>

FireStep(c) ==
    \/ \E b \in Bars, m \in {"Full", "Probe"} : Arrive(c, b, m)
    \/ IsRetryFireSeen(c)
    \/ ListEntryAttempts(c)
    \/ OpenPositionBackstop(c)
    \/ Observe(c)
    \/ CancelResting(c)
    \/ ReObserve(c)
    \/ MarkSuperseded(c)
    \/ CapCheck(c)
    \/ PlaceEntry(c)
    \/ RecordEntryAttempt(c)
    \/ MarkRetryFireSeen(c)
    \/ RecordDispatcherOutcome(c)

SweepStep == SweepPendingOrders \/ SweepOne \/ SweepConfirm \/ SweepCancel \/ SweepDelete
ReplaceStep(p) == PullOrder(p) \/ ReplaceOrder(p) \/ SetReplacement(p)
BrokerStep == \E o \in Orders : BrokerFill(o) \/ BrokerExit(o) \/ BrokerWithdraw(o)

Next ==
    \/ \E c \in Callers : FireStep(c)
    \/ SweepStep
    \/ \E p \in Replacers : ReplaceStep(p)
    \/ BrokerStep
    \/ Crash

Spec == Init /\ [][Next]_vars

-----------------------------------------------------------------------------
(* Properties.                                                             *)

\* "We won't stack a second entry on top of the first": two orders of the trade
\* are never resting or open at the broker together (retry_gate, job 2).
NoStack == \A o, p \in Orders : Live(o) /\ Live(p) => o = p

\* A live order of the trade is always named by a row, except while the fire
\* that placed it is still writing it down: every job that protects or cancels
\* an order finds it through its row.
LiveOrderTracked ==
    \A o \in Orders : Live(o) =>
        \/ \E r \in rows : r.oid = o
        \/ \E c \in Callers : pc[c] = "record" /\ oid[c] = o

\* A refunded slot is never an entry: a superseded row's order was cancelled
\* and never filled (retry_gate, job 3).
SupersededNeverEntered == \A r \in rows : r.superseded => order[r.oid] = "cancelled"

\* The rail "never cancel an order you cannot re-place": a fire that has just
\* cancelled the resting order is not then refused by the cap.
NeverCancelThenReject ==
    \A c \in Callers :
        pc[c] = "cap" /\ freed[c] # {} => PlacedEntries(c) < Cap[bar[c]]

\* The rows that consume a placement slot never outnumber the slots, whatever
\* is re-priced, restored, swept, lost in a crash or placed ambiguously.
SlotsWithinCap ==
    \A b \in Bars : Cardinality({r \in rows : ~r.superseded}) <= Cap[b]

\* The cap counts entries into the market, so the orders that filled never
\* exceed it, however often the order was re-priced meanwhile.
EntriesWithinCap ==
    \A b \in Bars : Cardinality({o \in Orders : Filled(o)}) <= Cap[b]

\* attempt_no is row identity "so it can never collide with a live row": the
\* number a placement is about to be recorded under is not in use.
FreshAttemptNumber ==
    \A c \in Callers :
        pc[c] = "record" => NextAttemptNo(snap[c]) \notin RowNumbers(rows)

\* Two arrivals with the same shell.time collapse to one placement.
OnePlacementPerBar == \A r, q \in rows : r.bar = q.bar => r.no = q.no

\* Once an outcome has poisoned the intent id, no later fire of it places an
\* order ("the id must be poisoned to stop the next fire from placing a
\* duplicate on top of it", enter.rs).
PoisonedIdPlacesNothing ==
    [][poisoned => \A o \in Orders : order[o] = "unused" => order'[o] = "unused"]_vars

\* What the trade promises its operator: one position at a time, and no more
\* entries than the cap.  The broker's book is mapped to that one slot.
Slot == IF \E o \in Orders : order[o] = "open" THEN "open"
        ELSE IF \E o \in Orders : order[o] = "pending" THEN "resting" ELSE "flat"
Entries == Cardinality({o \in Orders : Filled(o)})
Promise == INSTANCE TradeSlot WITH slot <- Slot, entries <- Entries, Slots <- Cap[AnyBar]

\* With one caller the entry path implements that promise.
ImplementsTradeSlot == Promise!Spec
=============================================================================
