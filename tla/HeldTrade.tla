----------------------------- MODULE HeldTrade -----------------------------
(***************************************************************************)
(* The held-trade record: ONE row per trade, shared by three subsystems    *)
(* that each read it, change a copy and write it back.                     *)
(*                                                                         *)
(*   core/src/pending_lifecycle.rs   pulls a resting order through a hold  *)
(*                                   (store, then cancel) and restores it  *)
(*   trade-control-cron/src/blackout_watch.rs  the live driver of that     *)
(*                                   pass: restores the widened stops and  *)
(*                                   deletes the row                       *)
(*   trade-control-cron/src/blackout_apply.rs  widens an open stop through *)
(*                                   a spread hour and remembers it        *)
(*   core/src/order_control/{park,promote}.rs  parks an entry that was not *)
(*                                   placed, and promotes it later         *)
(*   core/src/spread_blackout.rs     the clock: spread hours and the TTL   *)
(*   worker/src/pg.rs                the row is seen until its TTL is over *)
(*                                                                         *)
(* The jobs are loops of one scheduler thread and interleave at every      *)
(* await with each other and with the HTTP thread.  The unit of time is    *)
(* half an hour, the look-ahead of a spread hour; a pass is quicker than   *)
(* that, and every loop runs Passes times in it (twice, at the default     *)
(* upkeep period of 15 minutes).                                           *)
(***************************************************************************)
EXTENDS Naturals, FiniteSets

CONSTANTS
    Orders,    \* broker order ids, the bound on placements
    MaxTime,   \* the bound on time, in half hours
    Spread,    \* the hours the baked mask flags
    Lead,      \* the 30-minute look-ahead; FALSE for a legacy NY-edge instrument
    Edge,      \* the hours of the NY close, at which any instrument's stop is widened
    Closed,    \* the half hours in which the session is closed
    NewsLen,   \* how long a news pause lasts; 0 if there is none
    Alignment, \* the plan requires moving-average alignment
    CalmQuote, \* the quote can be calm within a spread hour
    NotAfter,  \* the end of the trade's alert window
    DropAt,    \* a parked order is dropped from here on
    Grace,     \* SPREAD_BLOCK_TTL_GRACE_SECONDS
    Backstop,  \* SAFETY_FORCE_RESTORE_SECONDS
    Scheduled, \* the loops of the scheduler that run
    Passes,    \* how often each of them runs in half an hour
    MaxFires,  \* the bound on fresh fires
    MaxWiden,  \* the bound on how often a stop can be widened
    Faults     \* what may go wrong, out of AllFaults

AllFaults == {
    "write",      \* an upsert or a delete of the row fails (logged)
    "read",       \* the read of the row before the clear fails
    "pauses",     \* list_pauses_for_trade fails: the trade counts as paused
    "cancel",     \* cancel_order errors and leaves the order resting
    "answer",     \* cancel_order errors although the broker has cancelled
    "lookup",     \* lookup_attempt_state fails after a failed cancel
    "positions",  \* the stops are not restored: no broker, no position list, no amend
    "crash" }     \* the process dies and starts again

Reasons == {"SpreadHour", "NewsPause", "MarketHours", "MaAlignment"}
Pauses  == {"news", "ma"}
Jobs    == {"watch", "widen", "control", "engine"}

ASSUME TimeAssumption ==
    /\ MaxTime \in Nat /\ NotAfter \in Nat /\ DropAt \in Nat
    /\ Grace \in Nat \ {0} /\ Backstop \in Nat
    /\ NewsLen \in Nat
    /\ Spread \subseteq Nat /\ IsFiniteSet(Spread) /\ Closed \subseteq Nat
    /\ Edge \subseteq Nat
ASSUME HeldFaultAssumption ==
    /\ Faults \subseteq AllFaults
    /\ Lead \in BOOLEAN /\ Alignment \in BOOLEAN /\ CalmQuote \in BOOLEAN
ASSUME LoopAssumption == Scheduled \subseteq {"watch", "widen", "control"}
ASSUME BoundAssumption == Passes \in Nat \ {0} /\ MaxFires \in Nat /\ MaxWiden \in Nat

\* HeldTradeRecord, its `stored_orders` by what they replace; `until` is the
\* table's own expires_at column, `expires` the one inside the body.
Record == [applied : BOOLEAN, holders : SUBSET Reasons, opened : Nat, expires : Nat,
           until : Nat, cancelled : SUBSET Orders, stops : SUBSET (Orders \X Nat),
           parked : SUBSET {"fresh", "replacing"}]

VARIABLES
    clock,   \* half hours since the start
    order,   \* the broker: the state of each order
    stop,    \* how many widenings the stop of a position carries
    held,    \* the row of the trade, if there is one
    pause,   \* when each pause of the trade ends
    fires,   \* fresh fires so far
    owed,    \* pulled orders that no restore has answered yet (history)
    due,     \* how often each loop still runs in this half hour
    pc,      \* where each job is
    rec,     \* the copy of the row a job works on, if any
    todo,    \* orders a job has still to handle
    hand,    \* the order a job is handling, if any
    promo    \* the parked entry the promotion pass has read, if any

worldVars == <<clock, pause, fires, due>>
jobVars   == <<pc, rec, todo, hand, promo>>
vars == <<worldVars, order, stop, held, owed, jobVars>>

OrderStates == {"unused", "resting", "open", "closed", "gone"}
JobStates == {"idle", "pass", "store", "cancel", "classify", "drop", "extend", "narrow",
              "restore", "park", "amend", "clear", "write", "place"}

TypeOK ==
    /\ clock \in Nat /\ fires \in Nat
    /\ order \in [Orders -> OrderStates]
    /\ stop \in [Orders -> Nat]
    /\ held \subseteq Record /\ Cardinality(held) <= 1
    /\ pause \in [Pauses -> Nat]
    /\ owed \subseteq Orders
    /\ due \in [Scheduled -> 0..Passes]
    /\ pc \in [Jobs -> JobStates]
    /\ rec \in [Jobs -> SUBSET Record]
    /\ \A j \in Jobs : Cardinality(rec[j]) <= 1
    /\ todo \in [Jobs -> SUBSET Orders]
    /\ hand \in [Jobs -> SUBSET Orders]
    /\ promo \in SUBSET {"fresh", "replacing"}

Init ==
    /\ clock = 0 /\ fires = 0
    /\ order = [o \in Orders |-> "unused"]
    /\ stop = [o \in Orders |-> 0]
    /\ held = {} /\ owed = {}
    /\ pause = [p \in Pauses |-> 0]
    /\ due = [j \in Scheduled |-> Passes]
    /\ pc = [j \in Jobs |-> "idle"]
    /\ rec = [j \in Jobs |-> {}]
    /\ todo = [j \in Jobs |-> {}]
    /\ hand = [j \in Jobs |-> {}]
    /\ promo = {}

-----------------------------------------------------------------------------
(* The clock.                                                              *)

Hour(t) == t \div 2
Later(a, b) == IF a >= b THEN a ELSE b

\* is_spread_hour, with its look-ahead into a flagged hour.
InSpreadHour(t) ==
    \/ Hour(t) \in Spread
    \/ Lead /\ t % 2 = 1 /\ Hour(t) + 1 \in Spread

\* widen_one's own gate: a spread hour of the instrument, or the NY-close edge.
WidenHour(t) == InSpreadHour(t) \/ Hour(t) \in Edge

\* The run of flagged hours from the hour of t on: none if t's hour is not
\* flagged itself, even when the look-ahead makes t a spread hour.
BlockHours(t) == Cardinality({h \in Spread : Hour(t) <= h /\ Hour(t)..h \subseteq Spread})

\* Mutant: the grace alone, whatever the length of the block.
FlatTtl(t) == Grace
SpreadBlockTtl(t) == 2 * BlockHours(t) + Grace

MarketShut == clock \in Closed
Paused == \E p \in Pauses : pause[p] > clock
PausedAsRead == Paused \/ "pauses" \in Faults

-----------------------------------------------------------------------------
(* The row.                                                                *)

Visible == {r \in held : r.until > clock}

Blank(end) ==
    [applied |-> FALSE, holders |-> {}, opened |-> clock, expires |-> end, until |-> clock,
     cancelled |-> {}, stops |-> {}, parked |-> {}]

\* `existing.unwrap_or_else`: the copy read, or a fresh one.
OrBlank(S, end) == IF S = {} THEN Blank(end) ELSE CHOOSE r \in S : TRUE

\* Mutant: a plain insert.
Inserted(r, ttl) == held' = held \cup {[r EXCEPT !.until = clock + Later(ttl, 1)]}

\* INSERT ... ON CONFLICT DO UPDATE, visible for the TTL (a minute at least).
Saved(r, ttl) == held' = {[r EXCEPT !.until = clock + Later(ttl, 1)]}
Deleted == held' = {}
WriteFails == "write" \in Faults /\ held' = held

Left(r) == IF r.expires > clock THEN r.expires - clock ELSE 0

\* merge_cancelled_order: push the order and union the reasons.
Merged(r, o, why) ==
    [r EXCEPT !.applied = TRUE, !.holders = @ \cup why, !.cancelled = @ \cup {o},
              !.expires = r.opened + SpreadBlockTtl(r.opened)]

\* ma_alignment::protect: a row that holds an order through an alignment pause
\* lives at least as long as the trade's pauses.
AlignmentEpisode(r) ==
    /\ r.cancelled # {} /\ Paused
    /\ "MaAlignment" \in r.holders \/ pause["ma"] > clock
Protected(r) ==
    IF ~AlignmentEpisode(r) THEN r
    ELSE [r EXCEPT !.holders = @ \cup {"MaAlignment"},
                   !.expires = Later(@, Later(pause["ma"], pause["news"]))]

\* park_order: replace the parked entry and keep the rest of the copy read.
ParkedOnto(S, kind) ==
    [OrBlank(S, NotAfter) EXCEPT !.parked = {kind}, !.expires = Later(@, NotAfter)]

-----------------------------------------------------------------------------
(* How a job moves, and how an order reaches the broker.                   *)

Goto(j, s) == pc' = [pc EXCEPT ![j] = s]
Keep(j, S) == rec' = [rec EXCEPT ![j] = S]

Start(j, s) ==
    /\ j \in Scheduled /\ pc[j] = "idle" /\ due[j] > 0
    /\ due' = [due EXCEPT ![j] = @ - 1]
    /\ Goto(j, s)

\* The pass is over and its locals are gone.
Done(j) ==
    /\ Goto(j, "idle")
    /\ Keep(j, {})
    /\ todo' = [todo EXCEPT ![j] = {}]
    /\ hand' = [hand EXCEPT ![j] = {}]

Takes(n, s) == order[n] = "unused" /\ s \in {"resting", "open"}

\* EntryOrigin::Replacing skips the market-hours gate and the retry gate.
PlacedAsReplacement ==
    ~Paused /\ \E n \in Orders, s \in OrderStates : Takes(n, s) /\ order' = [order EXCEPT ![n] = s]

\* A fresh entry passes every gate; the retry gate withdraws a resting order.
PlacedAsFresh ==
    /\ ~Paused /\ ~MarketShut
    /\ \A o \in Orders : order[o] # "open"
    /\ \E n \in Orders, s \in OrderStates :
        /\ Takes(n, s)
        /\ order' = [o \in Orders |->
              IF o = n THEN s ELSE IF order[o] = "resting" THEN "gone" ELSE order[o]]

\* promotion_origin: a parked replacement stays one, a fresh park is a fresh entry.
PlacedAs(kind) == IF kind = "fresh" THEN PlacedAsFresh ELSE PlacedAsReplacement

\* dedup_before_park: the retry gate, as a probe.
ParkAllowed == ~Paused /\ \A o \in Orders : order[o] \notin {"resting", "open"}

-----------------------------------------------------------------------------
(* The watcher, ON side: store the order on the row, then cancel it.       *)

WatchStart ==
    /\ Start("watch", "pass")
    /\ todo' = [todo EXCEPT !["watch"] = {o \in Orders : order[o] = "resting"}]
    /\ UNCHANGED <<clock, pause, fires, order, stop, held, owed, rec, hand, promo>>

HoldReasons(paused) ==
    {w \in {"NewsPause", "MarketHours"} :
        (w = "NewsPause" /\ paused) \/ (w = "MarketHours" /\ MarketShut)}

\* try_cancel_one up to the upsert.  An order without a usable body is left
\* resting, and so is one whose row or pauses cannot be read.
WatchHold ==
    /\ pc["watch"] = "pass"
    /\ \E o \in todo["watch"], paused \in {Paused, PausedAsRead} :
        /\ todo' = [todo EXCEPT !["watch"] = @ \ {o}]
        /\ \/ pc' = pc /\ UNCHANGED <<rec, hand>>
           \/ /\ HoldReasons(paused) # {}
              /\ Keep("watch", {Protected(Merged(OrBlank(Visible, clock), o,
                                                 HoldReasons(paused)))})
              /\ hand' = [hand EXCEPT !["watch"] = {o}]
              /\ Goto("watch", "store")
    /\ UNCHANGED <<worldVars, order, stop, held, owed, promo>>

\* Mutant: the TTL of a spread block for every hold.
BlockTtl(r) == SpreadBlockTtl(r.opened)
HoldTtl(r) == Later(SpreadBlockTtl(r.opened), Left(r))

WatchStore ==
    /\ pc["watch"] = "store"
    /\ \E r \in rec["watch"] :
        \/ Saved(r, HoldTtl(r)) /\ Goto("watch", "cancel")
        \/ WriteFails /\ Goto("watch", "pass")
    /\ UNCHANGED <<worldVars, order, stop, owed, rec, todo, hand, promo>>

\* An order is owed once its cancel is confirmed; one whose cancel errors has
\* gone all the same, or still rests.
WatchCancel ==
    /\ pc["watch"] = "cancel"
    /\ \E o \in hand["watch"] :
        \/ /\ order[o] = "resting"
           /\ order' = [order EXCEPT ![o] = "gone"]
           /\ owed' = owed \cup {o}
           /\ Goto("watch", "pass")
        \/ /\ order[o] = "resting" /\ "answer" \in Faults
           /\ order' = [order EXCEPT ![o] = "gone"]
           /\ Goto("watch", "classify")
           /\ UNCHANGED owed
        \/ /\ order[o] # "resting" \/ "cancel" \in Faults
           /\ Goto("watch", "classify")
           /\ UNCHANGED <<order, owed>>
    /\ UNCHANGED <<worldVars, stop, held, rec, todo, hand, promo>>

\* classify_cancel_failure: an order that still rests, or that cannot be looked
\* up, stays on the row; one that has gone is dropped from it.
WatchClassify ==
    /\ pc["watch"] = "classify"
    /\ \E o \in hand["watch"] :
        \/ (order[o] = "resting" \/ "lookup" \in Faults) /\ Goto("watch", "pass")
        \/ order[o] # "resting" /\ Goto("watch", "drop")
    /\ UNCHANGED <<worldVars, order, stop, held, owed, rec, todo, hand, promo>>

\* Mutant: a vanished order stays on the row.
KeepVanished ==
    /\ pc["watch"] = "drop" /\ Goto("watch", "pass")
    /\ UNCHANGED <<worldVars, order, stop, held, owed, rec, todo, hand, promo>>

\* drop_cancelled_order, from the copy that was stored before the cancel.
WatchDrop ==
    /\ pc["watch"] = "drop"
    /\ \E r \in rec["watch"] :
        LET pruned == [r EXCEPT !.cancelled = @ \ hand["watch"]]
        IN  \/ pruned.cancelled = {} /\ pruned.stops = {} /\ Deleted
            \/ pruned.cancelled \cup pruned.stops # {} /\ Saved(pruned, HoldTtl(r))
            \/ WriteFails
    /\ Goto("watch", "pass")
    /\ UNCHANGED <<worldVars, order, stop, owed, rec, todo, hand, promo>>

-----------------------------------------------------------------------------
(* The watcher, OFF side: release what has lifted, restore, then clear.    *)

BackstopDue(r) == clock >= r.opened + Backstop

\* effective_holders: an applied row without reasons predates the refcount.
EffectiveHolders(r) == IF r.holders = {} THEN {"SpreadHour"} ELSE r.holders

Lifted(why, calm, paused) ==
    CASE why = "SpreadHour" -> calm \/ ~InSpreadHour(clock)
      [] why = "MarketHours" -> ~MarketShut
      [] OTHER -> ~paused

\* Mutant: no release arm for the closed session.
HoursNeverLift(r, calm, paused) ==
    {why \in EffectiveHolders(r) : why = "MarketHours" \/ ~Lifted(why, calm, paused)}

Surviving(r, calm, paused) ==
    {why \in EffectiveHolders(r) : ~Lifted(why, calm, paused)}

\* restore_cancelled_orders walks the snapshot's orders.
Restoring(r) ==
    /\ Goto("watch", "restore")
    /\ Keep("watch", {})
    /\ todo' = [todo EXCEPT !["watch"] = r.cancelled]
    /\ hand' = [hand EXCEPT !["watch"] = {}]

\* recover_one on the snapshot of the row: protect, release, and the backstop.
WatchRecover ==
    /\ pc["watch"] = "pass" /\ todo["watch"] = {}
    /\ \/ (\A r \in Visible : ~r.applied) /\ Done("watch")
       \/ Faults \cap {"read", "pauses"} # {} /\ Done("watch")
       \/ \E r \in Visible : r.applied /\ AlignmentEpisode(r) /\
            \/ Protected(r) = r /\ Done("watch")
            \/ /\ Protected(r) # r
               /\ Goto("watch", "extend") /\ Keep("watch", {Protected(r)})
               /\ UNCHANGED <<todo, hand>>
       \/ \E r \in Visible, calm \in {FALSE, CalmQuote}, paused \in {Paused, PausedAsRead} :
            /\ r.applied /\ ~AlignmentEpisode(r)
            /\ LET left == Surviving(r, calm, paused)
               IN  \/ left = {} /\ Restoring(r)
                   \/ /\ left # {} /\ left # r.holders
                      /\ Goto("watch", "narrow") /\ Keep("watch", {[r EXCEPT !.holders = left]})
                      /\ UNCHANGED <<todo, hand>>
                   \/ left = r.holders /\ left # {} /\ BackstopDue(r) /\ Restoring(r)
                   \/ left = r.holders /\ left # {} /\ ~BackstopDue(r) /\ Done("watch")
    /\ UNCHANGED <<worldVars, order, stop, held, owed, promo>>

WatchExtend ==
    /\ pc["watch"] = "extend"
    /\ \E r \in rec["watch"] : Saved(r, Left(r)) \/ WriteFails
    /\ Done("watch")
    /\ UNCHANGED <<worldVars, order, stop, owed, promo>>

\* The narrowed copy is written with a whole TTL from now.
WatchNarrow ==
    /\ pc["watch"] = "narrow"
    /\ \E r \in rec["watch"] :
        /\ Saved(r, SpreadBlockTtl(r.opened)) \/ WriteFails
        /\ IF BackstopDue(r) THEN Restoring(r) ELSE Done("watch")
    /\ UNCHANGED <<worldVars, order, stop, owed, promo>>

\* restore_one_order answers a pulled order: dropped (its window is over, price
\* has passed it, no quote, a gate refused), re-placed, or parked again.
WatchRestore ==
    /\ pc["watch"] = "restore"
    /\ \E o \in todo["watch"] :
        /\ todo' = [todo EXCEPT !["watch"] = @ \ {o}]
        /\ owed' = owed \ {o}
        /\ \/ UNCHANGED <<order, pc, rec>>
           \/ PlacedAsReplacement /\ UNCHANGED <<pc, rec>>
           \/ /\ ~Paused /\ Goto("watch", "park")
              /\ Keep("watch", {ParkedOnto(Visible, "replacing")})
              /\ UNCHANGED order
    /\ UNCHANGED <<worldVars, stop, held, hand, promo>>

WatchPark ==
    /\ pc["watch"] = "park"
    /\ \E r \in rec["watch"] : Saved(r, Left(r)) \/ WriteFails
    /\ Goto("watch", "restore")
    /\ UNCHANGED <<worldVars, order, stop, owed, rec, todo, hand, promo>>

\* finish_system2_and_clear: read the row again.
WatchFinish ==
    /\ pc["watch"] = "restore" /\ todo["watch"] = {}
    /\ \/ (Visible = {} \/ "read" \in Faults) /\ Done("watch")
       \/ /\ Visible # {}
          /\ Goto("watch", "amend") /\ Keep("watch", Visible)
          /\ UNCHANGED <<todo, hand>>
    /\ UNCHANGED <<worldVars, order, stop, held, owed, promo>>

\* restore_remembered_stops: back to the remembered stop, never to a wider one.
WatchAmend ==
    /\ pc["watch"] = "amend"
    /\ \E r \in rec["watch"] :
        \/ stop' = [o \in Orders |->
              IF order[o] = "open" /\ \E s \in r.stops : s[1] = o /\ s[2] < stop[o]
              THEN (CHOOSE s \in r.stops : s[1] = o)[2] ELSE stop[o]]
        \/ "positions" \in Faults /\ stop' = stop
    /\ Goto("watch", "clear")
    /\ UNCHANGED <<worldVars, order, held, owed, rec, todo, hand, promo>>

\* blackout_watch::clear deletes the row, whatever is on it.
WatchClear ==
    /\ pc["watch"] = "clear"
    /\ Deleted \/ WriteFails
    /\ Done("watch")
    /\ UNCHANGED <<worldVars, order, stop, owed, promo>>

-----------------------------------------------------------------------------
(* Widening an open stop: remember it first, then amend.                   *)

\* A row that is not applied does not stop the widening; it is written over.
WidenRead ==
    /\ \/ Start("widen", "idle") /\ UNCHANGED <<rec, hand>>
       \/ /\ Start("widen", "store")
          /\ WidenHour(clock) /\ \A r \in Visible : ~r.applied
          /\ \E o \in Orders :
              /\ order[o] = "open" /\ stop[o] < MaxWiden
              /\ Keep("widen", {[Blank(clock + SpreadBlockTtl(clock)) EXCEPT !.applied = TRUE,
                                    !.holders = {"SpreadHour"}, !.stops = {<<o, stop[o]>>}]})
              /\ hand' = [hand EXCEPT !["widen"] = {o}]
    /\ UNCHANGED <<clock, pause, fires, order, stop, held, owed, todo, promo>>

WidenStore ==
    /\ pc["widen"] = "store"
    /\ \E r \in rec["widen"] :
        \/ Saved(r, SpreadBlockTtl(clock)) /\ Goto("widen", "amend") /\ UNCHANGED <<rec, todo, hand>>
        \/ WriteFails /\ Done("widen")
    /\ UNCHANGED <<worldVars, order, stop, owed, promo>>

WidenAmend ==
    /\ pc["widen"] = "amend"
    /\ \E r \in rec["widen"], o \in hand["widen"] :
        \/ order[o] = "open" /\ \E s \in r.stops : stop' = [stop EXCEPT ![o] = s[2] + 1]
        \/ stop' = stop
    /\ Done("widen")
    /\ UNCHANGED <<worldVars, order, held, owed, promo>>

-----------------------------------------------------------------------------
(* A fresh fire of the enter, and the promotion of a parked one.           *)

EngineFire ==
    /\ pc["engine"] = "idle" /\ fires < MaxFires
    /\ fires' = fires + 1
    /\ \/ PlacedAsFresh /\ UNCHANGED <<pc, rec>>
       \/ /\ ParkAllowed /\ order' = order
          /\ Goto("engine", "park") /\ Keep("engine", {ParkedOnto(Visible, "fresh")})
    /\ UNCHANGED <<clock, pause, due, stop, held, owed, todo, hand, promo>>

EnginePark ==
    /\ pc["engine"] = "park"
    /\ \E r \in rec["engine"] : Saved(r, Left(r)) \/ WriteFails
    /\ Done("engine")
    /\ UNCHANGED <<worldVars, order, stop, owed, promo>>

\* stored_verdict: wait, or go on to drop it or to promote it.
PromoteRead ==
    /\ \/ Start("control", "idle") /\ UNCHANGED promo
       \/ /\ Start("control", "clear")
          /\ \E r \in Visible : r.parked # {} /\ promo' = r.parked
    /\ UNCHANGED <<clock, pause, fires, order, stop, held, owed, rec, todo, hand>>

\* clear_stored_order: read the row again ...
PromoteClearRead ==
    /\ pc["control"] = "clear"
    /\ Goto("control", "write") /\ Keep("control", Visible)
    /\ UNCHANGED <<worldVars, order, stop, held, owed, todo, hand, promo>>

StillNeeded(r) == r.applied \/ r.holders # {} \/ r.stops # {} \/ r.cancelled # {}

\* Mutant: a clear that fails does not defer the promotion.
PromoteAnyway ==
    /\ pc["control"] = "write" /\ Goto("control", "place")
    /\ \/ \E r \in rec["control"] :
            IF StillNeeded(r) THEN Saved([r EXCEPT !.parked = {}], Left(r)) ELSE Deleted
       \/ rec["control"] = {} /\ held' = held
       \/ WriteFails
    /\ UNCHANGED <<worldVars, order, stop, owed, rec, todo, hand, promo>>

\* ... and write it without the parked entry.  A failure defers the promotion.
PromoteClearWrite ==
    /\ pc["control"] = "write"
    /\ LET copy == rec["control"]
       IN  \/ /\ \/ copy = {} /\ held' = held
                 \/ \E r \in copy : ~StillNeeded(r) /\ Deleted
                 \/ \E r \in copy : StillNeeded(r) /\ Saved([r EXCEPT !.parked = {}], Left(r))
              /\ IF clock < DropAt
                 THEN Goto("control", "place") /\ UNCHANGED <<rec, todo, hand, promo>>
                 ELSE Done("control") /\ promo' = {}
           \/ copy # {} /\ WriteFails /\ Done("control") /\ promo' = {}
    /\ UNCHANGED <<worldVars, order, stop, owed>>

\* run_enter as Promotion or Replacing: placed, parked again, or refused.
PromotePlace ==
    /\ pc["control"] = "place"
    /\ \/ \E kind \in promo : PlacedAs(kind) /\ Done("control")
       \/ order' = order /\ Done("control")
       \/ /\ IF promo = {"fresh"} THEN ParkAllowed ELSE ~Paused
          /\ Goto("control", "park") /\ order' = order
          /\ \E kind \in promo : Keep("control", {ParkedOnto(Visible, kind)})
          /\ UNCHANGED <<todo, hand>>
    /\ promo' = {}
    /\ UNCHANGED <<worldVars, stop, held, owed>>

PromotePark ==
    /\ pc["control"] = "park"
    /\ \E r \in rec["control"] : Saved(r, Left(r)) \/ WriteFails
    /\ Done("control")
    /\ UNCHANGED <<worldVars, order, stop, owed, promo>>

-----------------------------------------------------------------------------
(* The broker, the pauses, the clock and the process.                      *)

BrokerFill(o) ==
    /\ order[o] = "resting" /\ order' = [order EXCEPT ![o] = "open"]
    /\ UNCHANGED <<worldVars, stop, held, owed, jobVars>>

BrokerExit(o) ==
    /\ order[o] = "open" /\ order' = [order EXCEPT ![o] = "closed"]
    /\ UNCHANGED <<worldVars, stop, held, owed, jobVars>>

\* The calendar arms a news pause for a while; the engine arms the alignment
\* pause, the entry's own intent, for the rest of the alert window.
PauseEnd(p) == IF p = "news" THEN clock + NewsLen ELSE NotAfter

PauseArm(p) ==
    /\ pause[p] <= clock /\ clock < NotAfter
    /\ IF p = "news" THEN NewsLen > 0 /\ clock + NewsLen < MaxTime ELSE Alignment
    /\ pause' = [pause EXCEPT ![p] = PauseEnd(p)]
    /\ UNCHANGED <<clock, fires, due, order, stop, held, owed, jobVars>>

PauseClear(p) ==
    /\ pause[p] > clock /\ pause' = [pause EXCEPT ![p] = clock]
    /\ UNCHANGED <<clock, fires, due, order, stop, held, owed, jobVars>>

Tick ==
    /\ clock < MaxTime
    /\ \A j \in Jobs : pc[j] = "idle"
    /\ \A j \in Scheduled : due[j] = 0
    /\ clock' = clock + 1
    /\ due' = [j \in Scheduled |-> Passes]
    /\ UNCHANGED <<pause, fires, order, stop, held, owed, jobVars>>

\* Only the broker and the tables survive; the loops start over.
Crash ==
    /\ "crash" \in Faults /\ \E j \in Jobs : pc[j] # "idle"
    /\ due' = [j \in Scheduled |-> Passes]
    /\ pc' = [j \in Jobs |-> "idle"] /\ rec' = [j \in Jobs |-> {}]
    /\ todo' = [j \in Jobs |-> {}] /\ hand' = [j \in Jobs |-> {}] /\ promo' = {}
    /\ UNCHANGED <<clock, pause, fires, order, stop, held, owed>>

WatchStep ==
    \/ WatchStart \/ WatchHold \/ WatchStore \/ WatchCancel \/ WatchClassify \/ WatchDrop
    \/ WatchRecover \/ WatchExtend \/ WatchNarrow \/ WatchRestore \/ WatchPark
    \/ WatchFinish \/ WatchAmend \/ WatchClear
WidenStep == WidenRead \/ WidenStore \/ WidenAmend
ControlStep ==
    PromoteRead \/ PromoteClearRead \/ PromoteClearWrite \/ PromotePlace \/ PromotePark
BrokerStep == \E o \in Orders : BrokerFill(o) \/ BrokerExit(o)
PauseStep == \E p \in Pauses : PauseArm(p) \/ PauseClear(p)

Next ==
    \/ WatchStep \/ WidenStep \/ ControlStep
    \/ EngineFire \/ EnginePark
    \/ BrokerStep \/ PauseStep \/ Tick \/ Crash

Spec == Init /\ [][Next]_vars

\* The scheduler re-arms every loop, a started pass ends, and time passes.
FairSpec ==
    /\ Spec
    /\ WF_vars(WatchStep) /\ WF_vars(WidenStep) /\ WF_vars(ControlStep)
    /\ WF_vars(EnginePark) /\ WF_vars(Tick)

-----------------------------------------------------------------------------
(* Properties.                                                             *)

\* While the alert window is open, an order that a hold has pulled, its cancel
\* confirmed, is on a visible row until a restore has answered it: otherwise
\* nothing will ever re-place it (rail 1, store before cancel; rail 6, restore
\* before clear; "the cancel-record must always outlive its own spread-hour
\* block").
PulledOrderKept ==
    clock < NotAfter =>
      owed \subseteq UNION {r.cancelled : r \in Visible}
                     \cup (IF pc["watch"] \in {"restore", "park"} THEN todo["watch"] ELSE {})

\* An open position with a widened stop has its drawn stop on a visible row
\* (widen_one: "no remembered original, no widen").
DrawnStopRemembered ==
    \A o \in Orders : order[o] = "open" /\ stop[o] > 0 =>
        \E r \in Visible : <<o, 0>> \in r.stops

\* Holding and restoring the one entry of a trade never leaves two of its orders
\* resting or open ("leaving it would have the OFF side re-place an entry whose
\* original already filled").
NoDoubleEntry ==
    \A o, p \in Orders :
        order[o] \in {"resting", "open"} /\ order[p] \in {"resting", "open"} => o = p

\* A fire reaches the broker once, whether it is placed at once or parked,
\* promoted, and parked and promoted again ("if the placement succeeds but the
\* clear failed, the next candle would promote the same order again and open a
\* second position").  No hold pulls an order of the trade meanwhile.
PromotedOnce == Cardinality({o \in Orders : order[o] # "unused"}) <= fires

\* A pulled order is answered sooner or later: re-placed, parked or dropped.
HeldOrderAnswered == owed # {} ~> owed = {}
=============================================================================
