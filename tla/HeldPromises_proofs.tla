------------------------- MODULE HeldPromises_proofs -------------------------
(* What HeldTrade promises a trade it holds, for every value of the          *)
(* constants: the drawn stop of a widened position is never forgotten        *)
(* (DrawnStopRemembered), and a pulled order is never lost while its window  *)
(* is open (PulledOrderKept).  Each has its own setting and invariant.       *)
EXTENDS HeldTrade_proofs

-----------------------------------------------------------------------------
(* The setting: spread hours alone pull and widen, nothing else holds the   *)
(* trade, and what the restore has to read can be read.  Writes may fail,   *)
(* the process may crash and the trade may fire any number of times.        *)
SpreadOnly ==
    /\ Closed = {} /\ NewsLen = 0 /\ Alignment = FALSE
    /\ Lead = FALSE /\ CalmQuote = FALSE /\ Backstop > 0 /\ Edge \subseteq Spread
    /\ "watch" \in Scheduled /\ "control" \notin Scheduled
    /\ Faults \cap {"read", "pauses", "positions"} = {}

Wide == {o \in Orders : order[o] = "open" /\ stop[o] > 0}
AppliedRow == \E r \in Visible : r.applied
EngineApplied == \E r \in rec["engine"] : r.applied

\* When a row stored now runs out: the grace after the end of the block.
BlockEnd(t) == 2 * (Hour(t) + BlockHours(t)) + Grace
Covers(r) == InSpreadHour(clock) => r.until >= BlockEnd(clock)

SpreadRow(r) ==
    /\ r.cancelled = {} /\ \A s \in r.stops : s[2] = 0
    /\ r.applied => r.holders = {"SpreadHour"}

Quiet ==
    /\ \A p \in Pauses : pause[p] = 0
    /\ pc["control"] = "idle"
    /\ pc["watch"] \in {"idle", "pass", "restore", "amend", "clear"}
    /\ pc["watch"] = "restore" => todo["watch"] = {}
    /\ \A r \in held : SpreadRow(r)
    /\ \A j \in Jobs : \A r \in rec[j] : SpreadRow(r)
    /\ \A o \in Orders : order[o] \in {"unused", "resting"} => stop[o] = 0

\* The row outlives the block it was opened in, and holds every widened stop.
Remembered == \A o \in Wide : \E r \in Visible : r.applied /\ <<o, 0>> \in r.stops /\ Covers(r)

\* A fresh entry parks only when nothing is at the broker; the copy it writes
\* back forgets no applied row that the watcher could still act upon.
ParkingInv ==
    pc["engine"] = "park" =>
        /\ \A o \in Orders : order[o] \notin {"resting", "open"}
        /\ ~EngineApplied => \A r \in Visible : r.applied => r.opened = clock /\ InSpreadHour(clock)

\* A widening runs inside its block, and no restore runs beside it.
WideningInv ==
    /\ pc["widen"] # "idle" =>
          /\ InSpreadHour(clock)
          /\ \A o \in hand["widen"] : order[o] \notin {"unused", "resting"}
          /\ \A r \in rec["widen"] :
                r.applied /\ r.opened = clock /\ \A o \in hand["widen"] : <<o, 0>> \in r.stops
    /\ pc["widen"] = "store" => ~AppliedRow /\ (pc["engine"] = "park" => ~EngineApplied)
    /\ pc["widen"] = "amend" =>
          \A o \in hand["widen"] : order[o] = "open" =>
              /\ pc["watch"] \in {"idle", "pass"}
              /\ \E r \in Visible : r.applied /\ <<o, 0>> \in r.stops /\ Covers(r) /\ r.opened = clock

\* A restore keeps the row until every stop is back, and once a pass of the
\* watcher has ended after the block, every stop is.
RestoringInv ==
    /\ pc["watch"] \in {"restore", "amend", "clear"} =>
          AppliedRow /\ (pc["engine"] = "park" => EngineApplied)
    /\ pc["watch"] = "amend" => \A o \in Wide : \E r \in rec["watch"] : <<o, 0>> \in r.stops
    /\ pc["watch"] = "clear" => Wide = {}
    /\ pc["watch"] = "idle" /\ due["watch"] < Passes /\ ~InSpreadHour(clock) => Wide = {}

StopInv == Quiet /\ Remembered /\ ParkingInv /\ WideningInv /\ RestoringInv

-----------------------------------------------------------------------------
(* The clock of a block of spread hours.                                    *)

LEMMA BlockStarts ==
    ASSUME NEW t, Hour(t) \in Spread, Hour(t) \in Nat
    PROVE  BlockHours(t) \in Nat /\ BlockHours(t) >= 1
<1> DEFINE run == {h \in Spread : Hour(t) <= h /\ Hour(t)..h \subseteq Spread}
<1>1. Hour(t)..Hour(t) \subseteq Spread
    OBVIOUS
<1>2. Hour(t) \in run
    BY <1>1
<1>3. IsFiniteSet(run)
    BY TimeAssumption, FS_Subset
<1>4. Cardinality(run) \in Nat /\ Cardinality(run) # 0
    BY <1>2, <1>3, FS_CardinalityType, FS_EmptySet
<1>5. QED
    BY <1>4 DEF BlockHours

\* Within a block its end stays where it is.
LEMMA BlockShrinks ==
    ASSUME NEW t, NEW u, Hour(t) \in Spread, Hour(u) \in Spread, Hour(t) \in Nat, Hour(u) = Hour(t) + 1
    PROVE  BlockHours(t) = BlockHours(u) + 1
<1> DEFINE a == {h \in Spread : Hour(t) <= h /\ Hour(t)..h \subseteq Spread}
           b == {h \in Spread : Hour(u) <= h /\ Hour(u)..h \subseteq Spread}
<1>1. Spread \subseteq Nat
    BY TimeAssumption
<1>2. ASSUME NEW h \in Spread, Hour(u) <= h
      PROVE  Hour(t)..h = {Hour(t)} \cup Hour(u)..h
    BY <1>1, <1>2
<1>3. Hour(t)..Hour(t) = {Hour(t)}
    OBVIOUS
<1>4. \A h \in Spread : Hour(t) <= h <=> h = Hour(t) \/ Hour(u) <= h
    BY <1>1
<1>5. a = b \cup {Hour(t)}
    BY <1>2, <1>3, <1>4
<1>6. Hour(t) \notin b
    BY <1>1
<1>7. IsFiniteSet(b)
    BY TimeAssumption, FS_Subset
<1>8. Cardinality(a) = Cardinality(b) + 1
    BY <1>5, <1>6, <1>7, FS_AddElement
<1>9. QED
    BY <1>8 DEF BlockHours

\* A row that covers its block is still visible in the next half hour of it,
\* and covers it there too.
LEMMA CoversOn ==
    ASSUME NEW t \in Nat, NEW u, Lead = FALSE, InSpreadHour(t), u >= BlockEnd(t), u \in Nat
    PROVE  u > t + 1 /\ (InSpreadHour(t + 1) => u >= BlockEnd(t + 1))
<1>1. Hour(t) \in Nat /\ Hour(t) \in Spread /\ t + 1 <= 2 * Hour(t) + 2
      /\ Hour(t + 1) \in {Hour(t), Hour(t) + 1}
    BY DEF Hour, InSpreadHour
<1>2. BlockHours(t) \in Nat /\ BlockHours(t) >= 1
    BY <1>1, BlockStarts
<1>3. u > t + 1
    BY <1>1, <1>2, TimeAssumption DEF BlockEnd
<1>4. ASSUME InSpreadHour(t + 1) PROVE u >= BlockEnd(t + 1)
    <2>1. CASE Hour(t + 1) = Hour(t)
        BY <2>1 DEF BlockEnd, BlockHours
    <2>2. CASE Hour(t + 1) = Hour(t) + 1
        <3>1. Hour(t + 1) \in Spread
            BY <1>4 DEF InSpreadHour
        <3>2. BlockHours(t) = BlockHours(t + 1) + 1 /\ BlockHours(t + 1) \in Nat
            BY <1>1, <2>2, <3>1, BlockShrinks, TtlType
        <3>3. QED
            BY <1>1, <2>2, <3>2 DEF BlockEnd
    <2>3. QED
        BY <1>1, <2>1, <2>2
<1>5. QED
    BY <1>3, <1>4

\* A write made now covers the block.
LEMMA TtlCovers ==
    ASSUME NEW t \in Nat, NEW u \in Nat, u >= t + SpreadBlockTtl(t)
    PROVE  u >= BlockEnd(t)
<1>1. 2 * Hour(t) <= t /\ Hour(t) \in Nat
    BY DEF Hour
<1>2. BlockHours(t) \in Nat
    BY TtlType
<1>3. QED
    BY <1>1, <1>2, TimeAssumption DEF SpreadBlockTtl, BlockEnd

-----------------------------------------------------------------------------
(* The steps.                                                               *)

LEMMA NothingElseHolds ==
    ASSUME TypeInv, SpreadOnly, Quiet
    PROVE  /\ ~Paused /\ ~PausedAsRead /\ ~MarketShut
           /\ HoldReasons(Paused) = {} /\ HoldReasons(PausedAsRead) = {}
           /\ \A r : ~AlignmentEpisode(r)
           /\ "read" \notin Faults /\ "pauses" \notin Faults /\ "positions" \notin Faults
<1>1. "read" \notin Faults /\ "pauses" \notin Faults /\ "positions" \notin Faults
    BY DEF SpreadOnly
<1>2. ~Paused
    BY DEF Paused, Quiet, TypeInv, WorldType
<1>3. ~MarketShut /\ ~PausedAsRead
    BY <1>1, <1>2 DEF MarketShut, PausedAsRead, SpreadOnly
<1>4. QED
    BY <1>1, <1>2, <1>3 DEF HoldReasons, AlignmentEpisode

\* The row a pass of the watcher finds applied: only the hour holds it.
LEMMA OnlyTheHour ==
    ASSUME TypeInv, SpreadOnly, Quiet, NEW r \in Visible, r.applied,
           NEW calm \in {FALSE, CalmQuote}, NEW paused \in {Paused, PausedAsRead}
    PROVE  /\ r.holders = {"SpreadHour"}
           /\ Surviving(r, calm, paused) = IF InSpreadHour(clock) THEN {"SpreadHour"} ELSE {}
<1>1. r.holders = {"SpreadHour"}
    BY DEF Visible, Quiet, SpreadRow
<1>2. EffectiveHolders(r) = {"SpreadHour"}
    BY <1>1 DEF EffectiveHolders
<1>3. calm = FALSE
    BY DEF SpreadOnly
<1>4. Lifted("SpreadHour", calm, paused) <=> ~InSpreadHour(clock)
    BY <1>3 DEF Lifted
<1>5. QED
    BY <1>1, <1>2, <1>4 DEF Surviving

LEMMA WatchStops ==
    ASSUME TypeInv, SpreadOnly, StopInv, WatchStep
    PROVE  StopInv'
<1>1. /\ Quiet /\ Remembered /\ ParkingInv /\ WideningInv /\ RestoringInv
      /\ "read" \notin Faults /\ "pauses" \notin Faults /\ "positions" \notin Faults
      /\ Paused = FALSE /\ PausedAsRead = FALSE
    BY NothingElseHolds DEF StopInv, Paused, PausedAsRead
<1>2. /\ WorldType /\ BrokerType /\ JobType /\ OneRow(held)
      /\ {"watch", "widen", "control", "engine"} = Jobs
      /\ \A r, w \in Visible : r = w
      /\ \A r, w \in rec["watch"] : r = w
    BY OneVisible DEF TypeInv
<1>4. WatchStart \/ WatchHold \/ WatchRecover \/ WatchFinish \/ WatchAmend \/ WatchClear
    BY <1>1 DEF WatchStep, WatchStore, WatchCancel, WatchClassify, WatchDrop, WatchExtend,
       WatchNarrow, WatchRestore, WatchPark, Quiet
<1>3. /\ clock' = clock /\ fires' = fires /\ pause' = pause
      /\ pc'["control"] = pc["control"] /\ pc'["widen"] = pc["widen"] /\ pc'["engine"] = pc["engine"]
      /\ hand'["widen"] = hand["widen"]
      /\ rec'["widen"] = rec["widen"] /\ rec'["engine"] = rec["engine"] /\ rec'["control"] = rec["control"]
    <2>1. clock' = clock /\ fires' = fires /\ pause' = pause
        BY <1>4 DEF WatchStart, WatchHold, WatchRecover, WatchFinish, WatchAmend, WatchClear, worldVars
    <2>2. pc' = pc \/ \E s : Goto("watch", s)
        BY <1>4 DEF WatchStart, WatchHold, WatchRecover, WatchFinish, WatchAmend, WatchClear, Start,
           Restoring, Done
    <2>3. rec' = rec \/ \E S : Keep("watch", S)
        BY <1>4 DEF WatchStart, WatchHold, WatchRecover, WatchFinish, WatchAmend, WatchClear,
           Restoring, Done
    <2>4. hand' = hand \/ \E S : hand' = [hand EXCEPT !["watch"] = S]
        BY <1>4 DEF WatchStart, WatchHold, WatchRecover, WatchFinish, WatchAmend, WatchClear,
           Restoring, Done
    <2>5. QED
        BY <1>2, <2>1, <2>2, <2>3, <2>4 DEF Goto, Keep, JobType
<1>5. order' = order
    BY <1>4 DEF WatchStart, WatchHold, WatchRecover, WatchFinish, WatchAmend, WatchClear
<1>6. ASSUME UNCHANGED <<held, stop>>, \A r \in rec'["watch"] : SpreadRow(r),
             pc'["watch"] \in {"idle", "pass", "restore", "amend", "clear"},
             pc'["watch"] = "restore" => todo'["watch"] = {},
             pc["watch"] \in {"idle", "pass"} => pc'["watch"] \in {"idle", "pass"},
             RestoringInv'
      PROVE  StopInv'
    <2>1. Wide' = Wide /\ Visible' = Visible
        BY <1>3, <1>5, <1>6 DEF Wide, Visible
    <2>2. /\ (AppliedRow <=> AppliedRow') /\ (EngineApplied <=> EngineApplied')
          /\ \A r \in Visible : Covers(r)' <=> Covers(r)
        BY <1>3, <2>1 DEF AppliedRow, EngineApplied, Covers
    <2>3. Quiet'
        BY <1>1, <1>2, <1>3, <1>5, <1>6 DEF Quiet
    <2>4. Remembered'
        BY <1>1, <2>1, <2>2 DEF Remembered
    <2>5. ParkingInv'
        BY <1>1, <1>3, <1>5, <2>1, <2>2 DEF ParkingInv
    <2>6. WideningInv'
        BY <1>1, <1>3, <1>5, <1>6, <2>1, <2>2 DEF WideningInv
    <2>7. QED
        BY <1>6, <2>3, <2>4, <2>5, <2>6 DEF StopInv
<1>7. CASE WatchStart
    <2>1. /\ pc["watch"] = "idle" /\ pc'["watch"] = "pass" /\ UNCHANGED <<held, stop, rec>>
        BY <1>2, <1>7 DEF WatchStart, Start, Goto, JobType
    <2>2. QED
        BY <1>1, <1>2, <1>6, <2>1 DEF Quiet, RestoringInv
<1>8. CASE WatchHold
    <2>1. /\ pc["watch"] = "pass" /\ pc' = pc /\ UNCHANGED <<held, stop, rec>>
        BY <1>1, <1>8, NothingElseHolds DEF WatchHold
    <2>2. QED
        BY <1>1, <1>2, <1>6, <2>1 DEF Quiet, RestoringInv
<1>9. CASE WatchRecover
    <2>1. pc["watch"] = "pass" /\ UNCHANGED <<held, stop, due>>
        BY <1>9 DEF WatchRecover, worldVars
    <2>2. Wide' = Wide /\ Visible' = Visible
        BY <1>3, <1>5, <2>1 DEF Wide, Visible
    <2>3. ASSUME Done("watch"), InSpreadHour(clock) \/ Wide = {} PROVE StopInv'
        <3>1. pc'["watch"] = "idle" /\ rec'["watch"] = {}
            BY <1>2, <2>3, OnlyOneJob
        <3>2. RestoringInv'
            BY <1>3, <2>2, <2>3, <3>1 DEF RestoringInv
        <3>3. QED
            BY <1>6, <2>1, <3>1, <3>2
    <2>4. ASSUME NEW r \in Visible, r.applied, Restoring(r), ~InSpreadHour(clock) \/ BackstopDue(r)
          PROVE  StopInv'
        <3>1. /\ pc'["watch"] = "restore" /\ rec'["watch"] = {} /\ todo'["watch"] = r.cancelled
            BY <1>2, <2>4 DEF Restoring, Goto, Keep, JobType
        <3>2. r.cancelled = {}
            BY <1>1 DEF Visible, Quiet, SpreadRow
        <3>3. ~(r.opened = clock /\ InSpreadHour(clock))
            BY <2>4, TimeAssumption, OneVisible DEF BackstopDue, SpreadOnly, Record
        <3>4. AppliedRow /\ (pc["engine"] = "park" => EngineApplied)
            BY <1>1, <2>4, <3>3 DEF AppliedRow, ParkingInv
        <3>5. pc["widen"] = "amend" => \A o \in hand["widen"] : order[o] # "open"
            BY <1>1, <1>2, <2>4, <3>3 DEF WideningInv
        <3>6. /\ AppliedRow' <=> AppliedRow
              /\ EngineApplied' <=> EngineApplied
              /\ \A w \in Visible : Covers(w)' <=> Covers(w)
            BY <1>3, <2>2 DEF AppliedRow, EngineApplied, Covers
        <3>7. Quiet'
            BY <1>1, <1>2, <1>3, <1>5, <2>1, <3>1, <3>2 DEF Quiet
        <3>8. Remembered'
            BY <1>1, <2>2, <3>6 DEF Remembered
        <3>9. ParkingInv'
            BY <1>1, <1>3, <1>5, <2>2, <3>6 DEF ParkingInv
        <3>10. WideningInv'
            BY <1>1, <1>3, <1>5, <2>2, <3>5, <3>6 DEF WideningInv
        <3>11. RestoringInv'
            BY <1>3, <3>1, <3>4, <3>6 DEF RestoringInv
        <3>12. QED
            BY <3>7, <3>8, <3>9, <3>10, <3>11 DEF StopInv
    <2>5. CASE (\A r \in Visible : ~r.applied) /\ Done("watch")
        <3>1. Wide = {}
            BY <1>1, <2>5 DEF Remembered
        <3>2. QED
            BY <2>3, <2>5, <3>1
    <2> DEFINE Ends(r, left) ==
            \/ left = {} /\ Restoring(r)
            \/ left # {} /\ left # r.holders
            \/ left = r.holders /\ left # {} /\ BackstopDue(r) /\ Restoring(r)
            \/ left = r.holders /\ left # {} /\ ~BackstopDue(r) /\ Done("watch")
    <2>6. ASSUME NEW r \in Visible, NEW calm \in {FALSE, CalmQuote}, NEW paused \in {Paused, PausedAsRead},
                 r.applied, Ends(r, Surviving(r, calm, paused))
          PROVE  StopInv'
        <3>1. /\ r.holders = {"SpreadHour"}
              /\ Surviving(r, calm, paused) = IF InSpreadHour(clock) THEN {"SpreadHour"} ELSE {}
            BY <1>1, <2>6, OnlyTheHour
        <3>2. CASE Restoring(r) /\ (~InSpreadHour(clock) \/ BackstopDue(r))
            BY <2>4, <2>6, <3>2
        <3>3. CASE Done("watch") /\ InSpreadHour(clock)
            BY <2>3, <3>3
        <3>4. QED
            BY <2>6, <3>1, <3>2, <3>3
    <2>7. \/ (\A r \in Visible : ~r.applied) /\ Done("watch")
          \/ \E r \in Visible, calm \in {FALSE, CalmQuote}, paused \in {Paused, PausedAsRead} :
                r.applied /\ Ends(r, Surviving(r, calm, paused))
        <3>1. Faults \cap {"read", "pauses"} = {} /\ \A r : ~AlignmentEpisode(r)
            BY <1>1, NothingElseHolds
        <3> DEFINE Held(r, calm, paused) ==
                        /\ r.applied /\ ~AlignmentEpisode(r)
                        /\ LET left == Surviving(r, calm, paused)
                           IN  \/ left = {} /\ Restoring(r)
                               \/ /\ left # {} /\ left # r.holders
                                  /\ Goto("watch", "narrow") /\ Keep("watch", {[r EXCEPT !.holders = left]})
                                  /\ UNCHANGED <<todo, hand>>
                               \/ left = r.holders /\ left # {} /\ BackstopDue(r) /\ Restoring(r)
                               \/ left = r.holders /\ left # {} /\ ~BackstopDue(r) /\ Done("watch")
                   Free == (\A r \in Visible : ~r.applied) /\ Done("watch")
                   AnyHeld == \E r \in Visible, calm \in {FALSE, CalmQuote}, paused \in {Paused, PausedAsRead} :
                                Held(r, calm, paused)
        <3>2. ASSUME NEW r \in Visible, NEW calm, NEW paused, Held(r, calm, paused)
              PROVE  r.applied /\ Ends(r, Surviving(r, calm, paused))
            BY <3>2
        <3>4. Free \/ AnyHeld \/ Faults \cap {"read", "pauses"} # {}
                \/ \E r \in Visible : AlignmentEpisode(r)
            BY <1>9 DEF WatchRecover
        <3>5. Free \/ AnyHeld
            BY <3>1, <3>4
        <3> HIDE DEF Held, Ends
        <3>6. QED
            BY <3>2, <3>5
    <2> HIDE DEF Ends
    <2>8. QED
        BY <2>5, <2>6, <2>7
<1>10. CASE WatchFinish
    <2>1. pc["watch"] = "restore" /\ UNCHANGED <<held, stop>>
        BY <1>10 DEF WatchFinish
    <2>2. AppliedRow /\ Visible # {}
        BY <1>1, <2>1 DEF RestoringInv, AppliedRow
    <2>3. pc'["watch"] = "amend" /\ rec'["watch"] = Visible
        BY <1>1, <1>2, <1>10, <2>2 DEF WatchFinish, Goto, Keep, JobType
    <2>4. Wide' = Wide /\ Visible' = Visible
        BY <1>3, <1>5, <2>1 DEF Wide, Visible
    <2>5. RestoringInv'
        BY <1>1, <1>3, <2>1, <2>3, <2>4 DEF RestoringInv, Remembered, AppliedRow, EngineApplied
    <2>6. \A r \in rec'["watch"] : SpreadRow(r)
        BY <1>1, <2>3 DEF Quiet, Visible
    <2>7. QED
        BY <1>6, <2>1, <2>3, <2>5, <2>6
<1>11. CASE WatchAmend
    <2>1. PICK r \in rec["watch"] :
            stop' = [o \in Orders |->
                  IF order[o] = "open" /\ \E s \in r.stops : s[1] = o /\ s[2] < stop[o]
                  THEN (CHOOSE s \in r.stops : s[1] = o)[2] ELSE stop[o]]
        BY <1>1, <1>11 DEF WatchAmend
    <2>2. /\ pc["watch"] = "amend" /\ pc'["watch"] = "clear" /\ UNCHANGED <<held, rec>>
        BY <1>2, <1>11 DEF WatchAmend, Goto, JobType
    <2>3. SpreadRow(r)
        BY <1>1, <1>2 DEF Quiet
    <2>4. ASSUME NEW o \in Orders, order[o] = "open" PROVE stop'[o] = 0
        <3>1. CASE \E s \in r.stops : s[1] = o /\ s[2] < stop[o]
            <4>1. (CHOOSE s \in r.stops : s[1] = o) \in r.stops
                BY <3>1
            <4>2. QED
                BY <2>1, <2>3, <2>4, <3>1, <4>1 DEF SpreadRow
        <3>2. CASE ~\E s \in r.stops : s[1] = o /\ s[2] < stop[o]
            <4>1. o \notin Wide
                <5>1. ASSUME o \in Wide PROVE FALSE
                    <6>1. <<o, 0>> \in r.stops
                        BY <1>1, <1>2, <2>2, <5>1 DEF RestoringInv
                    <6>2. stop[o] > 0
                        BY <5>1 DEF Wide
                    <6>3. <<o, 0>>[1] = o /\ <<o, 0>>[2] < stop[o]
                        BY <6>2
                    <6>4. QED
                        BY <3>2, <6>1, <6>3
                <5>2. QED
                    BY <5>1
            <4>2. stop[o] \in Nat /\ ~(stop[o] > 0)
                BY <1>2, <2>4, <4>1 DEF Wide, BrokerType
            <4>3. QED
                BY <2>1, <3>2, <4>2
        <3>3. QED
            BY <3>1, <3>2
    <2>5. Wide' = {} /\ Visible' = Visible
        BY <1>3, <1>5, <2>2, <2>4 DEF Wide, Visible
    <2>6. \A o \in Orders : order[o] \in {"unused", "resting"} => stop'[o] = stop[o]
        BY <2>1
    <2>7. /\ AppliedRow' <=> AppliedRow
          /\ EngineApplied' <=> EngineApplied
          /\ \A w \in Visible : Covers(w)' <=> Covers(w)
        BY <1>3, <2>5 DEF AppliedRow, EngineApplied, Covers
    <2>8. Quiet'
        BY <1>1, <1>3, <1>5, <2>2, <2>6 DEF Quiet
    <2>9. Remembered'
        BY <2>5 DEF Remembered
    <2>10. ParkingInv'
        BY <1>1, <1>3, <1>5, <2>5, <2>7 DEF ParkingInv
    <2>11. WideningInv'
        BY <1>1, <1>3, <1>5, <2>2, <2>5, <2>7 DEF WideningInv
    <2>12. RestoringInv'
        BY <1>1, <1>3, <2>2, <2>5, <2>7 DEF RestoringInv
    <2>13. QED
        BY <2>8, <2>9, <2>10, <2>11, <2>12 DEF StopInv
<1>12. CASE WatchClear
    <2>1. /\ pc["watch"] = "clear" /\ stop' = stop /\ (held' = {} \/ held' = held)
          /\ pc'["watch"] = "idle" /\ rec'["watch"] = {}
        BY <1>2, <1>12, OnlyOneJob DEF WatchClear, Deleted, WriteFails
    <2>2. Wide' = {} /\ Visible' \subseteq Visible
        BY <1>1, <1>3, <1>5, <2>1 DEF Wide, Visible, RestoringInv
    <2>3. /\ pc["widen"] # "store" /\ (pc["widen"] = "amend" => \A o \in hand["widen"] : order[o] # "open")
        BY <1>1, <2>1 DEF RestoringInv, WideningInv
    <2>4. EngineApplied' <=> EngineApplied
        BY <1>3 DEF EngineApplied
    <2>5. Quiet'
        BY <1>1, <1>2, <1>3, <1>5, <2>1 DEF Quiet
    <2>6. Remembered'
        BY <2>2 DEF Remembered
    <2>7. ParkingInv'
        BY <1>1, <1>3, <1>5, <2>2, <2>4 DEF ParkingInv
    <2>8. WideningInv'
        BY <1>1, <1>3, <1>5, <2>3 DEF WideningInv
    <2>9. RestoringInv'
        BY <2>1, <2>2 DEF RestoringInv
    <2>10. QED
        BY <2>5, <2>6, <2>7, <2>8, <2>9 DEF StopInv
<1>13. QED
    BY <1>4, <1>7, <1>8, <1>9, <1>10, <1>11, <1>12

LEMMA WidenStops ==
    ASSUME TypeInv, SpreadOnly, StopInv, WidenStep
    PROVE  StopInv'
<1>1. Quiet /\ Remembered /\ ParkingInv /\ WideningInv /\ RestoringInv
    BY DEF StopInv
<1>2. /\ WorldType /\ BrokerType /\ JobType /\ OneRow(held)
      /\ {"watch", "widen", "control", "engine"} = Jobs
      /\ \A r, w \in rec["widen"] : r = w
      /\ \A r \in rec["widen"] : r \in Record
      /\ "watch" \in Scheduled
    BY OneVisible DEF TypeInv, SpreadOnly
<1>3. /\ clock' = clock /\ pause' = pause /\ order' = order
      /\ pc'["control"] = pc["control"] /\ pc'["watch"] = pc["watch"] /\ pc'["engine"] = pc["engine"]
      /\ rec'["watch"] = rec["watch"] /\ rec'["engine"] = rec["engine"] /\ rec'["control"] = rec["control"]
      /\ todo'["watch"] = todo["watch"] /\ due'["watch"] = due["watch"]
    <2>1. clock' = clock /\ pause' = pause /\ order' = order
        BY DEF WidenStep, WidenRead, WidenStore, WidenAmend, worldVars
    <2>2. \E s : Goto("widen", s)
        BY DEF WidenStep, WidenRead, WidenStore, WidenAmend, Start, Done
    <2>3. rec' = rec \/ \E S : Keep("widen", S)
        BY DEF WidenStep, WidenRead, WidenStore, WidenAmend, Done
    <2>4. todo' = todo \/ \E S : todo' = [todo EXCEPT !["widen"] = S]
        BY DEF WidenStep, WidenRead, WidenStore, WidenAmend, Done
    <2>5. due' = due \/ \E n : due' = [due EXCEPT !["widen"] = n]
        BY DEF WidenStep, WidenRead, WidenStore, WidenAmend, Start, worldVars
    <2>6. QED
        BY <1>2, <2>1, <2>2, <2>3, <2>4, <2>5 DEF Goto, Keep, JobType, WorldType
<1>4. /\ EngineApplied' <=> EngineApplied
      /\ \A r : Covers(r)' <=> Covers(r)
    BY <1>3 DEF EngineApplied, Covers
\* What a pass leaves that writes neither the row nor the stop.
<1>5. ASSUME UNCHANGED <<held, stop>>, \A r \in rec'["widen"] : SpreadRow(r), WideningInv'
      PROVE  StopInv'
    <2>1. Wide' = Wide /\ Visible' = Visible
        BY <1>3, <1>5 DEF Wide, Visible
    <2>2. AppliedRow' <=> AppliedRow
        BY <2>1 DEF AppliedRow
    <2>3. Quiet'
        BY <1>1, <1>2, <1>3, <1>5 DEF Quiet
    <2>4. Remembered'
        BY <1>1, <1>4, <2>1 DEF Remembered
    <2>5. ParkingInv'
        BY <1>1, <1>3, <1>4, <2>1 DEF ParkingInv
    <2>6. RestoringInv'
        BY <1>1, <1>3, <1>4, <2>1, <2>2 DEF RestoringInv
    <2>7. QED
        BY <1>5, <2>3, <2>4, <2>5, <2>6 DEF StopInv
<1>6. CASE WidenRead
    <2>1. UNCHANGED <<held, stop>> /\ pc["widen"] = "idle"
        BY <1>6 DEF WidenRead, Start
    <2>2. CASE Start("widen", "idle") /\ UNCHANGED <<rec, hand>>
        <3>1. pc'["widen"] = "idle"
            BY <1>2, <2>2 DEF Start, Goto, JobType
        <3>2. WideningInv'
            BY <3>1 DEF WideningInv
        <3>3. QED
            BY <1>1, <1>2, <1>5, <2>1, <2>2, <3>2 DEF Quiet
    <2>3. ASSUME Start("widen", "store"), InSpreadHour(clock), \A r \in Visible : ~r.applied,
                 NEW o \in Orders, order[o] = "open",
                 Keep("widen", {[Blank(clock + SpreadBlockTtl(clock)) EXCEPT !.applied = TRUE,
                                    !.holders = {"SpreadHour"}, !.stops = {<<o, stop[o]>>}]}),
                 hand' = [hand EXCEPT !["widen"] = {o}]
          PROVE  StopInv'
        <3>1. stop[o] = 0
            <4>1. \A r \in Visible : ~r.applied
                BY <2>3
            <4>2. o \notin Wide
                BY <1>1, <4>1 DEF Remembered
            <4>3. stop[o] \in Nat /\ order[o] = "open"
                BY <1>2, <2>3 DEF BrokerType
            <4>4. QED
                BY <4>2, <4>3 DEF Wide
        <3> DEFINE w == [Blank(clock + SpreadBlockTtl(clock)) EXCEPT !.applied = TRUE,
                            !.holders = {"SpreadHour"}, !.stops = {<<o, stop[o]>>}]
        <3>2. /\ w.applied /\ w.holders = {"SpreadHour"} /\ w.stops = {<<o, 0>>}
              /\ w.cancelled = {} /\ w.opened = clock
            BY <3>1 DEF Blank
        <3>3. SpreadRow(w)
            BY <3>2 DEF SpreadRow
        <3> HIDE DEF w
        <3>4. rec'["widen"] = {w} /\ hand'["widen"] = {o} /\ pc'["widen"] = "store"
            BY <1>2, <2>3 DEF Start, Goto, Keep, JobType, w
        <3>5. pc["engine"] # "park" /\ ~AppliedRow
            BY <1>1, <2>3 DEF ParkingInv, AppliedRow
        <3>6. AppliedRow' <=> AppliedRow
            BY <1>3, <2>1 DEF AppliedRow, Visible
        <3>7. WideningInv'
            BY <1>3, <2>3, <3>2, <3>4, <3>5, <3>6 DEF WideningInv
        <3>8. QED
            BY <1>5, <2>1, <3>3, <3>4, <3>7
    <2>4. WidenHour(clock) => InSpreadHour(clock)
        BY DEF SpreadOnly, WidenHour, InSpreadHour
    <2>5. QED
        BY <1>6, <2>2, <2>3, <2>4 DEF WidenRead
<1>7. CASE WidenStore
    <2>1. pc["widen"] = "store" /\ stop' = stop
        BY <1>7 DEF WidenStore
    <2>2. Wide = {} /\ Wide' = {} /\ pc["watch"] \notin {"restore", "amend", "clear"}
        BY <1>1, <1>3, <2>1 DEF WideningInv, Remembered, AppliedRow, RestoringInv, Wide
    <2>3. ASSUME NEW r \in rec["widen"], Saved(r, SpreadBlockTtl(clock)), Goto("widen", "amend"),
                 UNCHANGED <<rec, hand>>
          PROVE  StopInv'
        <3>1. SpreadBlockTtl(clock) \in Nat /\ clock \in Nat
            BY <1>2, TtlType DEF WorldType
        <3>2. PICK w \in Record : /\ held' = {w} /\ w = [r EXCEPT !.until = w.until]
                                  /\ w.until > clock /\ w.until >= clock + SpreadBlockTtl(clock)
            BY <1>2, <2>3, <3>1, SavedRow
        <3>3. /\ w.applied = r.applied /\ w.opened = r.opened /\ w.stops = r.stops
              /\ w.cancelled = r.cancelled /\ w.holders = r.holders /\ w.until \in Nat
            BY <1>2, <3>2 DEF Record
        <3>4. /\ r.applied /\ r.opened = clock /\ InSpreadHour(clock) /\ SpreadRow(r)
              /\ \A o \in hand["widen"] : <<o, 0>> \in r.stops
            BY <1>1, <1>2, <2>1 DEF WideningInv, Quiet
        <3>5. Covers(w)
            BY <3>1, <3>2, <3>3, TtlCovers DEF Covers
        <3>6. Visible' = {w} /\ SpreadRow(w)
            BY <1>3, <3>2, <3>3, <3>4 DEF Visible, SpreadRow
        <3>7. pc'["widen"] = "amend"
            BY <1>2, <2>3, OnlyOneJob
        <3>8. pc["watch"] \in {"idle", "pass"}
            BY <1>1, <2>2 DEF Quiet
        <3>9. Quiet'
            BY <1>1, <1>3, <2>1, <2>3, <3>2, <3>6 DEF Quiet
        <3>10. Remembered'
            BY <2>2 DEF Remembered
        <3>11. ParkingInv'
            BY <1>1, <1>3, <3>3, <3>4, <3>6 DEF ParkingInv
        <3>12. WideningInv'
            BY <1>1, <1>3, <1>4, <2>1, <2>3, <3>3, <3>4, <3>5, <3>6, <3>7, <3>8 DEF WideningInv
        <3>13. RestoringInv'
            BY <1>3, <2>2, <3>8 DEF RestoringInv
        <3>14. QED
            BY <3>9, <3>10, <3>11, <3>12, <3>13 DEF StopInv
    <2>4. ASSUME held' = held, Done("widen") PROVE StopInv'
        <3>1. pc'["widen"] = "idle" /\ rec'["widen"] = {}
            BY <1>2, <2>4, OnlyOneJob
        <3>2. QED
            BY <1>5, <2>1, <2>4, <3>1 DEF WideningInv
    <2>5. QED
        BY <1>7, <2>3, <2>4 DEF WidenStore, WriteFails
<1>8. CASE WidenAmend
    <2>1. pc["widen"] = "amend" /\ pc'["widen"] = "idle" /\ rec'["widen"] = {} /\ held' = held
        BY <1>2, <1>8, OnlyOneJob DEF WidenAmend
    <2>2. WideningInv'
        BY <2>1 DEF WideningInv
    <2>3. CASE stop' = stop
        BY <1>5, <2>1, <2>2, <2>3
    <2>4. ASSUME NEW r \in rec["widen"], NEW o \in hand["widen"], order[o] = "open",
                 NEW s \in r.stops, stop' = [stop EXCEPT ![o] = s[2] + 1]
          PROVE  StopInv'
        <3>1. /\ pc["watch"] \in {"idle", "pass"} /\ InSpreadHour(clock)
              /\ \E w \in Visible : w.applied /\ <<o, 0>> \in w.stops /\ Covers(w)
            BY <1>1, <2>1, <2>4 DEF WideningInv
        <3>2. Visible' = Visible
            BY <1>3, <2>1 DEF Visible
        <3>3. Wide' \subseteq Wide \cup {o}
            BY <1>2, <1>3, <2>4 DEF Wide, BrokerType
        <3>4. Quiet'
            BY <1>1, <1>2, <1>3, <2>1, <2>4 DEF Quiet, BrokerType
        <3>5. Remembered'
            BY <1>1, <1>4, <3>1, <3>2, <3>3 DEF Remembered
        <3>6. ParkingInv'
            BY <1>1, <1>3, <1>4, <3>2 DEF ParkingInv
        <3>7. RestoringInv'
            BY <1>3, <3>1 DEF RestoringInv
        <3>8. QED
            BY <2>2, <3>4, <3>5, <3>6, <3>7 DEF StopInv
    <2>5. QED
        BY <1>8, <2>3, <2>4 DEF WidenAmend
<1>9. QED
    BY <1>6, <1>7, <1>8 DEF WidenStep

LEMMA EngineStops ==
    ASSUME TypeInv, SpreadOnly, StopInv, EngineFire \/ EnginePark
    PROVE  StopInv'
<1>1. Quiet /\ Remembered /\ ParkingInv /\ WideningInv /\ RestoringInv
    BY DEF StopInv
<1>2. /\ WorldType /\ BrokerType /\ JobType /\ OneRow(held) /\ OneRow(Visible)
      /\ {"watch", "widen", "control", "engine"} = Jobs
      /\ \A r, w \in rec["engine"] : r = w
      /\ \A r \in rec["engine"] : r \in Record
      /\ clock \in Nat /\ NotAfter \in Nat
    BY OneVisible, VisibleRow, TimeAssumption DEF TypeInv
<1>3. /\ clock' = clock /\ pause' = pause /\ stop' = stop /\ due' = due
      /\ pc'["control"] = pc["control"] /\ pc'["watch"] = pc["watch"] /\ pc'["widen"] = pc["widen"]
      /\ rec'["watch"] = rec["watch"] /\ rec'["widen"] = rec["widen"] /\ rec'["control"] = rec["control"]
      /\ todo'["watch"] = todo["watch"] /\ hand'["widen"] = hand["widen"]
    BY <1>2 DEF EngineFire, EnginePark, Done, Goto, Keep, JobType, worldVars
<1>4. \A r : Covers(r)' <=> Covers(r)
    BY <1>3 DEF Covers
<1>5. CASE EngineFire
    <2>1. held' = held /\ pc["engine"] = "idle"
        BY <1>5 DEF EngineFire
    <2>2. Visible' = Visible /\ (AppliedRow' <=> AppliedRow)
        BY <1>3, <2>1 DEF Visible, AppliedRow
    <2>3. ASSUME PlacedAsFresh, UNCHANGED <<pc, rec>> PROVE StopInv'
        <3>1. PICK n \in Orders, s \in {"resting", "open"} :
                 /\ order[n] = "unused"
                 /\ order' = [o \in Orders |->
                       IF o = n THEN s ELSE IF order[o] = "resting" THEN "gone" ELSE order[o]]
            BY <2>3 DEF PlacedAsFresh, Takes
        <3>2. \A o \in Orders : /\ order'[o] \in {"unused", "resting"} => stop[o] = 0
                                /\ order'[o] = "open" => order[o] = "open" \/ stop[o] = 0
            BY <1>1, <3>1 DEF Quiet
        <3>3. Wide' \subseteq Wide
            BY <1>3, <3>2 DEF Wide
        <3>4. \A o \in hand["widen"] : pc["widen"] # "idle" => /\ order'[o] = order[o]
                                                             /\ order[o] \notin {"unused", "resting"}
            <4>1. hand["widen"] \subseteq Orders
                BY <1>2 DEF JobType
            <4>2. QED
                BY <1>1, <3>1, <4>1 DEF WideningInv
        <3>5. Quiet'
            BY <1>1, <1>3, <2>1, <2>3, <3>2 DEF Quiet
        <3>6. Remembered'
            BY <1>1, <1>4, <2>2, <3>3 DEF Remembered
        <3>7. ParkingInv'
            BY <2>1, <2>3 DEF ParkingInv
        <3>8. WideningInv'
            BY <1>1, <1>3, <1>4, <2>1, <2>2, <2>3, <3>4 DEF WideningInv
        <3>9. RestoringInv'
            BY <1>1, <1>3, <2>1, <2>2, <2>3, <3>3 DEF RestoringInv
        <3>10. QED
            BY <3>5, <3>6, <3>7, <3>8, <3>9 DEF StopInv
    <2>4. ASSUME ParkAllowed, order' = order, Goto("engine", "park"),
                 Keep("engine", {ParkedOnto(Visible, "fresh")})
          PROVE  StopInv'
        <3> DEFINE p == ParkedOnto(Visible, "fresh")
                   b == OrBlank(Visible, NotAfter)
        <3>1. /\ p \in Record /\ p.applied = b.applied /\ p.holders = b.holders
              /\ p.cancelled = b.cancelled /\ p.stops = b.stops /\ p.opened = b.opened
            BY <1>2, ParkedRow
        <3>2. /\ Visible = {} => SpreadRow(b) /\ ~b.applied
              /\ \A r \in Visible : b = r /\ SpreadRow(r)
            <4>1. Visible = {} => b = Blank(NotAfter)
                BY <1>2, OrBlankRow
            <4>2. SpreadRow(Blank(NotAfter)) /\ ~Blank(NotAfter).applied
                BY <1>2, BlankRow DEF SpreadRow
            <4>3. \A r \in Visible : b = r
                BY <1>2, OrBlankRow
            <4>4. \A r \in Visible : SpreadRow(r)
                BY <1>1 DEF Quiet, Visible
            <4>5. QED
                BY <4>1, <4>2, <4>3, <4>4
        <3>3. SpreadRow(p) /\ (p.applied <=> AppliedRow)
            BY <3>1, <3>2 DEF SpreadRow, AppliedRow
        <3>4. rec'["engine"] = {p} /\ pc'["engine"] = "park"
            BY <1>2, <2>4, OnlyOneJob
        <3>5. EngineApplied' <=> AppliedRow
            BY <3>3, <3>4 DEF EngineApplied
        <3>6. Wide' = Wide
            BY <1>3, <2>4 DEF Wide
        <3> HIDE DEF p, b
        <3>7. Quiet'
            BY <1>1, <1>2, <1>3, <2>1, <2>4, <3>3, <3>4 DEF Quiet
        <3>8. Remembered'
            BY <1>1, <1>4, <2>2, <3>6 DEF Remembered
        <3>9. ParkingInv'
            BY <1>3, <2>2, <2>4, <3>5 DEF ParkingInv, ParkAllowed, AppliedRow
        <3>10. WideningInv'
            BY <1>1, <1>3, <1>4, <2>2, <2>4, <3>5 DEF WideningInv
        <3>11. RestoringInv'
            BY <1>1, <1>3, <2>2, <3>5, <3>6 DEF RestoringInv
        <3>12. QED
            BY <3>7, <3>8, <3>9, <3>10, <3>11 DEF StopInv
    <2>5. QED
        BY <1>5, <2>3, <2>4 DEF EngineFire
<1>6. CASE EnginePark
    <2>1. /\ pc["engine"] = "park" /\ pc'["engine"] = "idle" /\ rec'["engine"] = {} /\ order' = order
        BY <1>2, <1>6, OnlyOneJob DEF EnginePark
    <2>2. \A o \in Orders : order[o] # "open"
        BY <1>1, <2>1 DEF ParkingInv
    <2>3. Wide = {} /\ Wide' = {}
        BY <2>1, <2>2 DEF Wide
    <2>4. hand["widen"] \subseteq Orders
        BY <1>2 DEF JobType
    <2>5. PICK r \in rec["engine"] : Saved(r, Left(r)) \/ held' = held
        BY <1>6 DEF EnginePark, WriteFails
    <2>6. /\ \A w \in held' : SpreadRow(w)
          /\ AppliedRow' => AppliedRow \/ EngineApplied
          /\ AppliedRow /\ EngineApplied => AppliedRow'
        <3>1. CASE held' = held
            BY <1>1, <1>3, <3>1 DEF Quiet, AppliedRow, Visible
        <3>2. CASE Saved(r, Left(r))
            <4>1. PICK w \in Record : held' = {w} /\ w = [r EXCEPT !.until = w.until] /\ w.until > clock
                BY <1>2, <3>2, RowKept, SavedRow
            <4>2. /\ w.applied = r.applied /\ w.stops = r.stops
                  /\ w.cancelled = r.cancelled /\ w.holders = r.holders
                BY <1>2, <4>1 DEF Record
            <4>3. SpreadRow(w)
                BY <1>1, <1>2, <4>2 DEF Quiet, SpreadRow
            <4>4. Visible' = {w}
                BY <1>3, <4>1 DEF Visible
            <4>5. QED
                BY <1>2, <4>1, <4>2, <4>3, <4>4 DEF AppliedRow, EngineApplied
        <3>3. QED
            BY <2>5, <3>1, <3>2
    <2>7. Quiet'
        BY <1>1, <1>2, <1>3, <2>1, <2>6 DEF Quiet
    <2>8. Remembered'
        BY <2>3 DEF Remembered
    <2>9. ParkingInv'
        BY <2>1 DEF ParkingInv
    <2>10. WideningInv'
        BY <1>1, <1>3, <2>1, <2>2, <2>4, <2>6 DEF WideningInv
    <2>11. RestoringInv'
        BY <1>1, <1>3, <2>1, <2>3, <2>6 DEF RestoringInv
    <2>12. QED
        BY <2>7, <2>8, <2>9, <2>10, <2>11 DEF StopInv
<1>7. QED
    BY <1>5, <1>6

LEMMA WorldStops ==
    ASSUME TypeInv, SpreadOnly, StopInv, BrokerStep \/ PauseStep \/ Tick \/ Crash \/ UNCHANGED vars
    PROVE  StopInv'
<1>1. Quiet /\ Remembered /\ ParkingInv /\ WideningInv /\ RestoringInv
    BY DEF StopInv
<1>2. /\ WorldType /\ BrokerType /\ JobType /\ OneRow(held)
      /\ {"watch", "widen", "control", "engine"} = Jobs
      /\ \A r \in held : r \in Record
      /\ clock \in Nat /\ Passes \in Nat \ {0} /\ "watch" \in Scheduled
    BY OneVisible, BoundAssumption DEF TypeInv, OneRow, SpreadOnly
<1>3. CASE UNCHANGED vars
    BY <1>1, <1>3 DEF vars, worldVars, jobVars, StopInv, Quiet, Remembered, ParkingInv, WideningInv,
       RestoringInv, Wide, AppliedRow, EngineApplied, Covers, Visible
<1>4. CASE BrokerStep
    <2>1. PICK o \in Orders : BrokerFill(o) \/ BrokerExit(o)
        BY <1>4 DEF BrokerStep
    <2>2. UNCHANGED <<clock, pause, due, stop, held, jobVars>>
        BY <2>1 DEF BrokerFill, BrokerExit, worldVars
    <2>3. /\ \A p \in Orders \ {o} : order'[p] = order[p]
          /\ \/ order[o] = "resting" /\ order'[o] = "open"
             \/ order[o] = "open" /\ order'[o] = "closed"
        BY <1>2, <2>1 DEF BrokerFill, BrokerExit, BrokerType
    <2>4. Wide' \subseteq Wide
        BY <1>1, <2>2, <2>3 DEF Wide, Quiet
    <2>5. /\ Visible' = Visible /\ (AppliedRow' <=> AppliedRow) /\ (EngineApplied' <=> EngineApplied)
          /\ \A r : Covers(r)' <=> Covers(r)
        BY <2>2 DEF Visible, AppliedRow, EngineApplied, Covers, jobVars
    <2>6. hand["widen"] \subseteq Orders
        BY <1>2 DEF JobType
    <2>7. Quiet'
        BY <1>1, <2>2, <2>3 DEF Quiet, jobVars
    <2>8. Remembered'
        BY <1>1, <2>4, <2>5 DEF Remembered
    <2>9. ParkingInv'
        BY <1>1, <2>2, <2>3, <2>5 DEF ParkingInv, jobVars
    <2>10. WideningInv'
        BY <1>1, <2>2, <2>3, <2>5, <2>6 DEF WideningInv, jobVars
    <2>11. RestoringInv'
        BY <1>1, <2>2, <2>4, <2>5 DEF RestoringInv, jobVars
    <2>12. QED
        BY <2>7, <2>8, <2>9, <2>10, <2>11 DEF StopInv
<1>5. CASE PauseStep
    <2>1. FALSE
        BY <1>1, <1>2, <1>5 DEF PauseStep, PauseArm, PauseClear, SpreadOnly, Quiet
    <2>2. QED
        BY <2>1
<1>6. CASE Tick
    <2>1. /\ clock' = clock + 1 /\ due'["watch"] = Passes /\ due["watch"] = 0
          /\ \A j \in Jobs : pc[j] = "idle"
          /\ UNCHANGED <<pause, order, stop, held, jobVars>>
        BY <1>2, <1>6 DEF Tick
    <2>2. Wide' = Wide
        BY <2>1 DEF Wide
    <2>3. ASSUME NEW o \in Wide
          PROVE  \E r \in Visible' : r.applied /\ <<o, 0>> \in r.stops /\ Covers(r)'
        <3>1. PICK r \in Visible : r.applied /\ <<o, 0>> \in r.stops /\ Covers(r)
            BY <1>1, <2>3 DEF Remembered
        <3>2. InSpreadHour(clock)
            BY <1>1, <1>2, <2>1, <2>3 DEF RestoringInv
        <3>3. r \in held /\ r.until \in Nat /\ r.until >= BlockEnd(clock)
            BY <1>2, <3>1, <3>2 DEF Visible, Record, Covers
        <3>4. r.until > clock + 1 /\ (InSpreadHour(clock + 1) => r.until >= BlockEnd(clock + 1))
            BY <1>2, <3>2, <3>3, CoversOn DEF SpreadOnly
        <3>5. r \in Visible' /\ Covers(r)'
            BY <2>1, <3>3, <3>4 DEF Visible, Covers
        <3>6. QED
            BY <3>1, <3>5
    <2>4. Quiet'
        BY <1>1, <2>1 DEF Quiet, jobVars
    <2>5. Remembered'
        BY <2>2, <2>3 DEF Remembered
    <2>6. ParkingInv' /\ WideningInv'
        BY <1>2, <2>1 DEF ParkingInv, WideningInv, jobVars
    <2>7. RestoringInv'
        BY <1>2, <2>1 DEF RestoringInv, jobVars
    <2>8. QED
        BY <2>4, <2>5, <2>6, <2>7 DEF StopInv
<1>7. CASE Crash
    <2>1. /\ \A j \in Jobs : pc'[j] = "idle" /\ rec'[j] = {}
          /\ due'["watch"] = Passes
          /\ UNCHANGED <<clock, pause, order, stop, held>>
        BY <1>2, <1>7 DEF Crash
    <2>2. Wide' = Wide /\ Visible' = Visible /\ \A r : Covers(r)' <=> Covers(r)
        BY <2>1 DEF Wide, Visible, Covers
    <2>3. Quiet'
        BY <1>1, <1>2, <2>1 DEF Quiet
    <2>4. Remembered'
        BY <1>1, <2>2 DEF Remembered
    <2>5. ParkingInv' /\ WideningInv'
        BY <1>2, <2>1 DEF ParkingInv, WideningInv
    <2>6. RestoringInv'
        BY <1>2, <2>1 DEF RestoringInv
    <2>7. QED
        BY <2>3, <2>4, <2>5, <2>6 DEF StopInv
<1>8. QED
    BY <1>3, <1>4, <1>5, <1>6, <1>7

LEMMA StopStep == TypeInv /\ SpreadOnly /\ StopInv /\ [Next]_vars => StopInv'
<1> SUFFICES ASSUME TypeInv, SpreadOnly, StopInv, [Next]_vars PROVE StopInv'
    OBVIOUS
<1>1. ~ControlStep
    BY DEF SpreadOnly, StopInv, Quiet, ControlStep, PromoteRead, PromoteClearRead,
       PromoteClearWrite, PromotePlace, PromotePark, Start
<1>2. QED
    BY <1>1, WatchStops, WidenStops, EngineStops, WorldStops DEF Next

LEMMA StopInit == SpreadOnly /\ Init => StopInv
<1> SUFFICES ASSUME SpreadOnly, Init PROVE StopInv
    OBVIOUS
<1>1. Wide = {} /\ Visible = {}
    BY DEF Init, Wide, Visible
<1>2. Quiet
    BY DEF Init, Quiet, Jobs
<1>3. Remembered
    BY <1>1 DEF Remembered
<1>4. ParkingInv /\ WideningInv /\ RestoringInv
    BY <1>1 DEF Init, Jobs, ParkingInv, WideningInv, RestoringInv
<1>5. QED
    BY <1>2, <1>3, <1>4 DEF StopInv

\* Through any pattern of spread hours, with failing writes, crashes and any
\* number of fires, an open position whose stop is widened has its drawn stop
\* on a row that is still there when the block ends: blackout_apply stores
\* before it amends, and the row's TTL outlives the block.
THEOREM DrawnStopsRemembered == SpreadOnly => (Spec => []DrawnStopRemembered)
<1> SUFFICES ASSUME SpreadOnly PROVE Spec => []DrawnStopRemembered
    OBVIOUS
<1>1. TypeInv /\ StopInv /\ [Next]_vars => StopInv'
    BY StopStep
<1>2. StopInv => DrawnStopRemembered
    BY DEF StopInv, Remembered, Wide, DrawnStopRemembered
<1>3. Init => StopInv
    BY StopInit
<1>4. QED
    BY <1>1, <1>2, <1>3, TypeAlways, PTL DEF Spec

-----------------------------------------------------------------------------
(* The setting: the watcher, and a trade that fires once.  Sessions close   *)
(* for less than the grace, alignment pauses come and go, the broker may    *)
(* refuse a cancel or a lookup, a cancel may take effect and error, and the *)
(* process may crash.  Writes may fail too, unless session holds and        *)
(* alignment pauses meet.                                                   *)
OneHold ==
    /\ Scheduled = {"watch"} /\ MaxFires <= 1 /\ NewsLen = 0
    /\ Faults \cap {"read", "pauses"} = {}
    /\ "write" \in Faults => Alignment = FALSE \/ Closed = {}
    /\ \A t \in Closed : \E k \in 1..(Grace - 1) : t + k \notin Closed

Fresh == \A o \in Orders : order[o] = "unused"
WindowOpen == clock < NotAfter

\* Why a row holds; a row that has pulled an order is applied and has a reason.
RowReasons(r) ==
    /\ r.holders \subseteq {"NewsPause", "MarketHours", "MaAlignment"}
    /\ r.applied => r.holders # {}
    /\ r.cancelled # {} => r.applied

\* The row outlives the window, or is still there when the session is open
\* again; or it is there now, the session is open and a pass will find them.
Durable(r) ==
    \/ r.until >= NotAfter
    \/ Closed # {} /\ \E k \in Nat : clock < k /\ k < r.until /\ k \notin Closed
PassOver == pc["watch"] = "idle" /\ due["watch"] < Passes
Lives(r) ==
    \/ Durable(r)
    \/ Closed # {} /\ clock \notin Closed /\ clock < r.until /\ ~PassOver

PauseInv ==
    /\ pause["news"] = 0
    /\ pause["ma"] > clock => Alignment = TRUE /\ pause["ma"] = NotAfter

BeforeAnyOrder ==
    /\ pc["widen"] = "idle" /\ pc["control"] = "idle"
    /\ fires = 0 \/ pc["engine"] = "park" => Fresh
    /\ Fresh => /\ pc["watch"] \in {"idle", "pass"} /\ todo["watch"] = {} /\ owed = {}
                /\ \A r \in held \cup rec["engine"] : ~r.applied

RowsInv ==
    /\ \A r \in held \cup rec["watch"] \cup rec["engine"] : RowReasons(r)
    /\ \A r \in held : "MaAlignment" \in r.holders /\ r.cancelled # {} => r.until >= r.expires

\* The copies the watcher works on carry every order that is owed.
CopyInv ==
    /\ \A o \in owed : order[o] = "gone"
    /\ pc["watch"] \in {"pass", "store", "cancel", "classify", "drop"} => todo["watch"] \cap owed = {}
    /\ pc["watch"] \in {"store", "cancel", "classify", "drop"} =>
          /\ hand["watch"] \cap (todo["watch"] \cup owed) = {}
          /\ \A r \in rec["watch"] :
                /\ hand["watch"] \subseteq r.cancelled
                /\ WindowOpen => owed \subseteq r.cancelled
                /\ clock \in Closed \/ r.expires >= NotAfter
    /\ pc["watch"] = "cancel" => \A r \in held : hand["watch"] \subseteq r.cancelled
    /\ pc["watch"] = "extend" =>
          Alignment = TRUE /\ \A r \in rec["watch"] :
             r.expires >= NotAfter /\ (WindowOpen => owed \subseteq r.cancelled)
    /\ pc["watch"] = "narrow" =>
          \A r \in rec["watch"] :
             /\ r.cancelled # {} => clock \in Closed /\ "MaAlignment" \notin r.holders
             /\ r.applied /\ (WindowOpen => owed \subseteq r.cancelled)
    /\ pc["watch"] = "park" =>
          \A r \in rec["watch"] : r.expires >= NotAfter /\ (WindowOpen => owed \subseteq r.cancelled)
    /\ pc["watch"] \in {"restore", "park"} /\ WindowOpen => owed \subseteq todo["watch"]
    /\ pc["watch"] \in {"amend", "clear"} /\ WindowOpen => owed = {}

\* The row carries every order that is owed, and lives.
Safe ==
    WindowOpen /\ (owed # {} \/ pc["watch"] = "cancel") =>
        \E r \in held : owed \subseteq r.cancelled /\ Lives(r)

KeptInv == PauseInv /\ BeforeAnyOrder /\ RowsInv /\ CopyInv /\ Safe

-----------------------------------------------------------------------------
(* What a pause, a write and a step leave of it.                            *)

LEMMA OnlyAlignmentPauses ==
    ASSUME TypeInv, OneHold, PauseInv
    PROVE  /\ Paused => Alignment = TRUE /\ pause["ma"] = NotAfter /\ pause["ma"] > clock
           /\ \A paused \in {Paused, PausedAsRead} : paused <=> Paused
           /\ "read" \notin Faults /\ "pauses" \notin Faults
<1>1. "read" \notin Faults /\ "pauses" \notin Faults
    BY DEF OneHold
<1>2. ASSUME Paused PROVE Alignment = TRUE /\ pause["ma"] = NotAfter /\ pause["ma"] > clock
    BY <1>2 DEF Paused, PauseInv, Pauses, TypeInv, WorldType
<1>3. \A paused \in {Paused, PausedAsRead} : paused <=> Paused
    BY <1>1 DEF PausedAsRead
<1>4. QED
    BY <1>1, <1>2, <1>3

\* A write that outlasts the copy's own expiry, or one made while the session
\* is closed, leaves a durable row.
LEMMA DurableRow ==
    ASSUME TypeInv, OneHold, NEW r \in Record, NEW ttl \in Nat, Saved(r, ttl), clock' = clock
    PROVE  \E w \in Record :
              /\ held' = {w}
              /\ w.applied = r.applied /\ w.holders = r.holders /\ w.cancelled = r.cancelled
              /\ ttl >= Left(r) => w.until >= w.expires
              /\ ttl >= Left(r) /\ r.expires >= NotAfter => Durable(w)'
              /\ ttl >= Grace /\ clock \in Closed => Durable(w)'
<1>1. clock \in Nat /\ WorldType /\ Grace \in Nat /\ NotAfter \in Nat /\ Left(r) \in Nat
    BY TimeAssumption, RowKept DEF TypeInv, WorldType
<1>2. PICK w \in Record : /\ held' = {w} /\ w = [r EXCEPT !.until = w.until]
                          /\ w.until > clock /\ w.until >= clock + ttl
    BY <1>1, SavedRow
<1>3. /\ w.applied = r.applied /\ w.holders = r.holders /\ w.cancelled = r.cancelled
      /\ w.expires = r.expires /\ w.until \in Nat /\ w.expires \in Nat
    BY <1>2 DEF Record
<1>4. ttl >= Left(r) => w.until >= w.expires
    BY <1>1, <1>2, <1>3 DEF Left
<1>5. ttl >= Left(r) /\ r.expires >= NotAfter => Durable(w)'
    BY <1>1, <1>3, <1>4 DEF Durable
<1>6. ASSUME ttl >= Grace, clock \in Closed PROVE Durable(w)'
    <2>1. PICK k \in 1..(Grace - 1) : clock + k \notin Closed
        BY <1>6 DEF OneHold
    <2>2. clock + k \in Nat /\ clock < clock + k /\ clock + k < w.until
        BY <1>1, <1>2, <1>3, <1>6, <2>1
    <2>3. QED
        BY <1>6, <2>1, <2>2 DEF Durable
<1>7. QED
    BY <1>2, <1>3, <1>4, <1>5, <1>6

\* The row is not touched: it still lives, unless a pass ends while the row
\* waits for nothing but that pass.
LEMMA SafeKept ==
    ASSUME Safe, clock' = clock, held' = held, owed' \subseteq owed,
           pc'["watch"] # "cancel" \/ pc'["watch"] = pc["watch"],
           \/ pc'["watch"] # "idle"
           \/ pc'["watch"] = pc["watch"] /\ due'["watch"] = due["watch"]
           \/ WindowOpen /\ owed # {} => \A r \in held : owed \subseteq r.cancelled /\ Lives(r) => Durable(r)
    PROVE  Safe'
<1> SUFFICES ASSUME WindowOpen', owed' # {} \/ pc'["watch"] = "cancel"
             PROVE  \E r \in held : owed' \subseteq r.cancelled /\ Lives(r)'
    BY DEF Safe
<1>1. WindowOpen /\ (owed # {} \/ pc["watch"] = "cancel")
    BY DEF WindowOpen
<1>2. PICK r \in held : owed \subseteq r.cancelled /\ Lives(r)
    BY <1>1 DEF Safe
<1>3. Durable(r)' <=> Durable(r)
    BY DEF Durable
<1>4. CASE Durable(r)
    BY <1>2, <1>3, <1>4 DEF Lives
<1>5. CASE ~Durable(r)
    <2>1. Closed # {} /\ clock \notin Closed /\ clock < r.until /\ ~PassOver
        BY <1>2, <1>5 DEF Lives
    <2>2. ~PassOver'
        <3>1. CASE pc'["watch"] = "idle" /\ pc'["watch"] # pc["watch"]
            BY <1>1, <1>2, <1>5, <3>1
        <3>2. CASE pc'["watch"] # "idle" \/ (pc'["watch"] = pc["watch"] /\ due'["watch"] = due["watch"])
            BY <2>1, <3>2 DEF PassOver
        <3>3. QED
            BY <1>1, <1>2, <1>5, <3>1, <3>2
    <2>3. QED
        BY <1>2, <2>1, <2>2 DEF Lives
<1>6. QED
    BY <1>4, <1>5

\* A write of the row that carries everything owed and is durable.
LEMMA SafeWritten ==
    ASSUME NEW w, held' = {w}, WindowOpen' => owed' \subseteq w.cancelled,
           WindowOpen' /\ (owed' # {} \/ pc'["watch"] = "cancel") => Durable(w)'
    PROVE  Safe'
BY DEF Safe, Lives

\* While anything is owed, the row that carries it is the visible one.
LEMMA OwedIsVisible ==
    ASSUME TypeInv, Safe, RowsInv, WindowOpen, owed # {} \/ pc["watch"] = "cancel"
    PROVE  \E r \in Visible : owed \subseteq r.cancelled /\ Lives(r) /\ Visible = {r} /\ held = {r}
<1>1. PICK r \in held : owed \subseteq r.cancelled /\ Lives(r)
    BY DEF Safe
<1>2. r \in Record /\ held = {r} /\ clock \in Nat /\ NotAfter \in Nat /\ r.until \in Nat
    BY TimeAssumption DEF TypeInv, OneRow, WorldType, Record
<1>3. r.until > clock
    BY <1>1, <1>2 DEF Lives, Durable, WindowOpen
<1>4. QED
    BY <1>1, <1>2, <1>3 DEF Visible

-----------------------------------------------------------------------------
(* The steps of the watcher.                                                *)

LEMMA WatchBeforeAnyOrder ==
    ASSUME TypeInv, OneHold, KeptInv, WatchStep, Fresh
    PROVE  KeptInv'
<1>1. /\ PauseInv /\ BeforeAnyOrder /\ RowsInv /\ JobType
      /\ {"watch", "widen", "control", "engine"} = Jobs
      /\ pc["watch"] \in {"idle", "pass"} /\ todo["watch"] = {} /\ owed = {}
      /\ \A r \in held \cup rec["engine"] : ~r.applied
      /\ \A o \in Orders : order[o] = "unused"
    BY DEF KeptInv, BeforeAnyOrder, Fresh, TypeInv, Jobs
<1>2. WatchStart \/ (WatchRecover /\ Done("watch"))
    <2>1. \A r \in Visible : ~r.applied
        BY <1>1 DEF Visible
    <2>2. WatchStart \/ WatchRecover
        BY <1>1 DEF WatchStep, WatchHold, WatchStore, WatchCancel, WatchClassify, WatchDrop,
           WatchExtend, WatchNarrow, WatchRestore, WatchPark, WatchFinish, WatchAmend, WatchClear
    <2>3. QED
        BY <2>1, <2>2 DEF WatchRecover
<1>3. /\ UNCHANGED <<clock, pause, fires, order, held, owed>>
      /\ pc'["watch"] \in {"idle", "pass"} /\ todo'["watch"] = {}
      /\ rec'["watch"] \in {{}, rec["watch"]}
      /\ \A j \in Jobs \ {"watch"} : pc'[j] = pc[j] /\ rec'[j] = rec[j]
    <2>1. CASE WatchStart
        BY <1>1, <2>1 DEF WatchStart, Start, Goto, JobType
    <2>2. CASE WatchRecover /\ Done("watch")
        BY <1>1, <2>2, OnlyOneJob DEF WatchRecover, worldVars
    <2>3. QED
        BY <1>2, <2>1, <2>2
<1>4. PauseInv'
    BY <1>1, <1>3 DEF PauseInv
<1>5. BeforeAnyOrder'
    BY <1>1, <1>3 DEF BeforeAnyOrder, Fresh
<1>6. RowsInv'
    BY <1>1, <1>3 DEF RowsInv, RowReasons
<1>7. CopyInv' /\ Safe'
    BY <1>1, <1>3 DEF CopyInv, Safe
<1>8. QED
    BY <1>4, <1>5, <1>6, <1>7 DEF KeptInv

\* ON side: store the order on the row, cancel it, drop it if it has gone.
LEMMA HoldingKept ==
    ASSUME TypeInv, OneHold, KeptInv,
           WatchStart \/ WatchHold \/ WatchStore \/ WatchCancel \/ WatchClassify \/ WatchDrop
    PROVE  RowsInv' /\ CopyInv' /\ Safe'
<1>1. /\ PauseInv /\ RowsInv /\ CopyInv /\ Safe
      /\ WorldType /\ BrokerType /\ JobType /\ OneRow(held) /\ OneRow(Visible) /\ clock \in Nat
      /\ {"watch", "widen", "control", "engine"} = Jobs
      /\ todo["watch"] \subseteq Orders /\ hand["watch"] \subseteq Orders
      /\ \A r \in rec["watch"] : r \in Record
    BY VisibleRow, OneVisible DEF KeptInv, TypeInv, JobType
<1>2. clock' = clock /\ rec'["engine"] = rec["engine"] /\ (WindowOpen' <=> WindowOpen)
    BY <1>1 DEF WatchStart, WatchHold, WatchStore, WatchCancel, WatchClassify, WatchDrop, worldVars,
       Keep, JobType, WindowOpen
<1>3. \A s : Goto("watch", s) => pc'["watch"] = s
    BY <1>1, OnlyOneJob
<1>4. CASE WatchStart
    <2>1. /\ pc'["watch"] = "pass" /\ UNCHANGED <<order, held, owed, rec>>
          /\ todo'["watch"] = {o \in Orders : order[o] = "resting"}
        BY <1>1, <1>3, <1>4 DEF WatchStart, Start, JobType
    <2>2. todo'["watch"] \cap owed = {}
        BY <1>1, <2>1 DEF CopyInv
    <2>3. CopyInv'
        BY <1>1, <2>1, <2>2 DEF CopyInv
    <2>4. Safe'
        BY <1>1, <1>2, <2>1, SafeKept
    <2>5. RowsInv'
        BY <1>1, <2>1 DEF RowsInv, RowReasons
    <2>6. QED
        BY <2>3, <2>4, <2>5
<1>5. CASE WatchHold
    <2>1. PICK o \in todo["watch"], paused \in {Paused, PausedAsRead} :
             /\ todo' = [todo EXCEPT !["watch"] = @ \ {o}]
             /\ \/ pc' = pc /\ UNCHANGED <<rec, hand>>
                \/ /\ HoldReasons(paused) # {}
                   /\ Keep("watch", {Protected(Merged(OrBlank(Visible, clock), o,
                                                      HoldReasons(paused)))})
                   /\ hand' = [hand EXCEPT !["watch"] = {o}]
                   /\ Goto("watch", "store")
        BY <1>5 DEF WatchHold
    <2>2. /\ pc["watch"] = "pass" /\ UNCHANGED <<order, held, owed>>
          /\ todo'["watch"] = todo["watch"] \ {o} /\ todo["watch"] \cap owed = {}
        BY <1>1, <1>5, <2>1 DEF WatchHold, JobType, CopyInv
    <2>3. CASE pc' = pc /\ UNCHANGED <<rec, hand>>
        <3>1. CopyInv'
            BY <1>1, <2>2, <2>3 DEF CopyInv
        <3>2. Safe'
            BY <1>1, <1>2, <2>2, <2>3, SafeKept
        <3>3. RowsInv'
            BY <1>1, <2>2, <2>3 DEF RowsInv, RowReasons
        <3>4. QED
            BY <3>1, <3>2, <3>3
    <2>4. ASSUME HoldReasons(paused) # {},
                 Keep("watch", {Protected(Merged(OrBlank(Visible, clock), o, HoldReasons(paused)))}),
                 hand' = [hand EXCEPT !["watch"] = {o}],
                 Goto("watch", "store")
          PROVE  RowsInv' /\ CopyInv' /\ Safe'
        <3> DEFINE b == OrBlank(Visible, clock)
                   why == HoldReasons(paused)
                   m == Merged(b, o, why)
                   p == Protected(m)
        <3>1. b \in Record /\ RowReasons(b)
            <4>1. b \in Record /\ (Visible = {} => b = Blank(clock)) /\ \A r \in Visible : b = r
                BY <1>1, OrBlankRow
            <4>2. RowReasons(Blank(clock))
                BY <1>1, BlankRow DEF RowReasons
            <4>3. \A r \in Visible : RowReasons(r)
                BY <1>1 DEF Visible, RowsInv
            <4>4. QED
                BY <4>1, <4>2, <4>3
        <3>2. why \in SUBSET Reasons /\ why \subseteq {"NewsPause", "MarketHours"} /\ why # {}
              /\ (MarketShut \/ Paused)
            BY <1>1, <2>4, OnlyAlignmentPauses DEF HoldReasons, Reasons
        <3>3. WindowOpen => owed \subseteq b.cancelled
            <4>1. CASE owed = {}
                BY <4>1
            <4>2. CASE WindowOpen /\ owed # {}
                <5>1. PICK r \in Visible : owed \subseteq r.cancelled
                    BY <1>1, <4>2, OwedIsVisible
                <5>2. b = r
                    BY <1>1, OrBlankRow
                <5>3. QED
                    BY <5>1, <5>2
            <4>3. QED
                BY <4>1, <4>2
        <3> HIDE DEF b, why
        <3>4. /\ m \in Record /\ m.applied /\ m.holders = b.holders \cup why
              /\ m.cancelled = b.cancelled \cup {o}
            BY <3>1, <3>2, <1>1, MergedRow
        <3>5. /\ p \in Record /\ p.applied /\ p.cancelled = b.cancelled \cup {o}
              /\ p.holders \in {m.holders, m.holders \cup {"MaAlignment"}}
              /\ AlignmentEpisode(m) => p.expires >= pause["ma"]
            BY <1>1, <3>4, ProtectedRow
        <3>6. Paused => AlignmentEpisode(m) /\ pause["ma"] = NotAfter
            BY <1>1, <3>4, OnlyAlignmentPauses DEF AlignmentEpisode
        <3>7. clock \in Closed \/ p.expires >= NotAfter
            BY <3>2, <3>5, <3>6 DEF MarketShut
        <3>8. RowReasons(p)
            BY <3>1, <3>2, <3>4, <3>5 DEF RowReasons
        <3>9. Keep("watch", {p})
            BY <2>4 DEF b, why
        <3> HIDE DEF p, m
        <3>10. rec'["watch"] = {p} /\ hand'["watch"] = {o} /\ pc'["watch"] = "store"
            BY <1>1, <1>3, <2>4, <3>9 DEF Keep, JobType
        <3>11. hand'["watch"] \cap (todo'["watch"] \cup owed) = {} /\ todo'["watch"] \cap owed = {}
            BY <2>1, <2>2, <3>10
        <3>12. CopyInv'
            BY <1>1, <1>2, <2>2, <3>3, <3>5, <3>7, <3>10, <3>11 DEF CopyInv
        <3>13. Safe'
            BY <1>1, <1>2, <2>2, <3>10, SafeKept
        <3>14. RowsInv'
            BY <1>1, <1>2, <2>2, <3>8, <3>10 DEF RowsInv, RowReasons
        <3>15. QED
            BY <3>12, <3>13, <3>14
    <2>5. QED
        BY <2>1, <2>3, <2>4
<1>6. CASE WatchStore
    <2>1. pc["watch"] = "store" /\ UNCHANGED <<order, owed, rec, todo, hand>>
        BY <1>6 DEF WatchStore
    <2>2. ASSUME NEW r \in rec["watch"], Saved(r, HoldTtl(r)), Goto("watch", "cancel")
          PROVE  RowsInv' /\ CopyInv' /\ Safe'
        <3>1. /\ hand["watch"] \subseteq r.cancelled /\ (WindowOpen => owed \subseteq r.cancelled)
              /\ clock \in Closed \/ r.expires >= NotAfter
              /\ r \in Record /\ RowReasons(r)
            BY <1>1, <2>1, <2>2 DEF CopyInv, RowsInv
        <3>2. HoldTtl(r) \in Nat /\ HoldTtl(r) >= Grace /\ HoldTtl(r) >= Left(r)
            BY <1>1, <3>1, RowKept
        <3>3. PICK w \in Record :
                /\ held' = {w}
                /\ w.applied = r.applied /\ w.holders = r.holders /\ w.cancelled = r.cancelled
                /\ w.until >= w.expires /\ Durable(w)'
            BY <1>2, <2>2, <3>1, <3>2, DurableRow
        <3>4. pc'["watch"] = "cancel"
            BY <1>3, <2>2
        <3>5. Safe'
            BY <1>2, <2>1, <3>1, <3>3, SafeWritten
        <3>6. RowsInv'
            BY <1>1, <1>2, <2>1, <3>1, <3>3 DEF RowsInv, RowReasons
        <3>7. CopyInv'
            BY <1>1, <1>2, <2>1, <3>1, <3>3, <3>4 DEF CopyInv
        <3>8. QED
            BY <3>5, <3>6, <3>7
    <2>3. ASSUME held' = held, Goto("watch", "pass") PROVE RowsInv' /\ CopyInv' /\ Safe'
        <3>1. pc'["watch"] = "pass"
            BY <1>3, <2>3
        <3>2. Safe'
            BY <1>1, <1>2, <2>1, <2>3, <3>1, SafeKept
        <3>3. RowsInv'
            BY <1>1, <2>1, <2>3 DEF RowsInv, RowReasons
        <3>4. CopyInv'
            BY <1>1, <2>1, <2>3, <3>1 DEF CopyInv
        <3>5. QED
            BY <3>2, <3>3, <3>4
    <2>4. QED
        BY <1>6, <2>2, <2>3 DEF WatchStore, WriteFails
<1>7. CASE WatchCancel
    <2>1. pc["watch"] = "cancel" /\ UNCHANGED <<held, rec, todo, hand>>
        BY <1>7 DEF WatchCancel
    <2>2. RowsInv'
        BY <1>1, <2>1 DEF RowsInv, RowReasons
    <2>3. ASSUME NEW o \in hand["watch"], order' = [order EXCEPT ![o] = "gone"],
                 owed' = owed \cup {o}, Goto("watch", "pass")
          PROVE  CopyInv' /\ Safe'
        <3>1. pc'["watch"] = "pass" /\ todo["watch"] \cap owed' = {}
            BY <1>1, <1>3, <2>1, <2>3 DEF CopyInv
        <3>2. \A p \in owed' : order'[p] = "gone"
            BY <1>1, <2>3 DEF CopyInv, BrokerType
        <3>3. CopyInv'
            BY <2>1, <3>1, <3>2 DEF CopyInv
        <3>4. ASSUME WindowOpen PROVE \E r \in held : owed' \subseteq r.cancelled /\ Lives(r)'
            <4>1. PICK r \in held : owed \subseteq r.cancelled /\ Lives(r)
                BY <1>1, <2>1, <3>4 DEF Safe
            <4>2. hand["watch"] \subseteq r.cancelled
                BY <1>1, <2>1 DEF CopyInv
            <4>3. Lives(r)'
                BY <1>2, <3>1, <4>1 DEF Lives, Durable, PassOver
            <4>4. QED
                BY <2>3, <4>1, <4>2, <4>3
        <3>5. Safe'
            BY <1>2, <2>1, <3>4 DEF Safe
        <3>6. QED
            BY <3>3, <3>5
    <2>4. ASSUME UNCHANGED <<order, owed>>, Goto("watch", "classify") PROVE CopyInv' /\ Safe'
        <3>1. pc'["watch"] = "classify"
            BY <1>3, <2>4
        <3>2. Safe'
            BY <1>1, <1>2, <2>1, <2>4, <3>1, SafeKept
        <3>3. CopyInv'
            BY <1>1, <1>2, <2>1, <2>4, <3>1 DEF CopyInv
        <3>4. QED
            BY <3>2, <3>3
    <2>5. ASSUME NEW o \in hand["watch"], order[o] = "resting",
                 order' = [order EXCEPT ![o] = "gone"], owed' = owed, Goto("watch", "classify")
          PROVE  CopyInv' /\ Safe'
        <3>1. pc'["watch"] = "classify"
            BY <1>3, <2>5
        <3>2. Safe'
            BY <1>1, <1>2, <2>1, <2>5, <3>1, SafeKept
        <3>3. \A p \in owed' : order'[p] = "gone"
            BY <1>1, <2>5 DEF CopyInv, BrokerType
        <3>4. CopyInv'
            BY <1>1, <1>2, <2>1, <2>5, <3>1, <3>3 DEF CopyInv
        <3>5. QED
            BY <3>2, <3>4
    <2>6. QED
        BY <1>7, <2>2, <2>3, <2>4, <2>5 DEF WatchCancel
<1>8. CASE WatchClassify
    <2>1. /\ pc["watch"] = "classify" /\ UNCHANGED <<order, held, owed, rec, todo, hand>>
          /\ pc'["watch"] \in {"pass", "drop"}
        BY <1>3, <1>8 DEF WatchClassify
    <2>2. RowsInv'
        BY <1>1, <2>1 DEF RowsInv, RowReasons
    <2>3. Safe'
        BY <1>1, <1>2, <2>1, SafeKept
    <2>4. CopyInv'
        BY <1>1, <1>2, <2>1 DEF CopyInv
    <2>5. QED
        BY <2>2, <2>3, <2>4
<1>9. CASE WatchDrop
    <2>1. /\ pc["watch"] = "drop" /\ pc'["watch"] = "pass" /\ UNCHANGED <<order, owed, rec, todo, hand>>
        BY <1>3, <1>9 DEF WatchDrop
    <2>2. CopyInv'
        BY <1>1, <2>1 DEF CopyInv
    <2>3. PICK r \in rec["watch"] :
             LET pruned == [r EXCEPT !.cancelled = @ \ hand["watch"]]
             IN  \/ pruned.cancelled = {} /\ Deleted
                 \/ Saved(pruned, HoldTtl(r))
                 \/ WriteFails
        BY <1>9 DEF WatchDrop
    <2> DEFINE p == [r EXCEPT !.cancelled = @ \ hand["watch"]]
    <2>4. /\ r \in Record /\ p \in Record /\ p.cancelled = r.cancelled \ hand["watch"]
          /\ p.applied = r.applied /\ p.holders = r.holders /\ p.expires = r.expires
        BY <1>1 DEF Record
    <2>5. (p.cancelled = {} /\ Deleted) \/ Saved(p, HoldTtl(r)) \/ WriteFails
        BY <2>3
    <2> HIDE DEF p
    <2>6. /\ WindowOpen => owed \subseteq p.cancelled
          /\ clock \in Closed \/ r.expires >= NotAfter
          /\ RowReasons(p)
        <3>1. /\ hand["watch"] \cap owed = {} /\ (WindowOpen => owed \subseteq r.cancelled)
              /\ clock \in Closed \/ r.expires >= NotAfter
              /\ RowReasons(r)
            BY <1>1, <2>1 DEF CopyInv, RowsInv
        <3>2. QED
            BY <2>4, <3>1 DEF RowReasons
    <2>7. CASE p.cancelled = {} /\ Deleted
        <3>1. WindowOpen => owed = {}
            BY <2>6, <2>7
        <3>2. QED
            BY <1>1, <1>2, <2>1, <2>2, <2>7, <3>1 DEF Deleted, RowsInv, RowReasons, Safe
    <2>8. CASE Saved(p, HoldTtl(r))
        <3>1. /\ HoldTtl(r) \in Nat /\ HoldTtl(r) >= Grace /\ HoldTtl(r) >= Left(r) /\ Left(p) = Left(r)
            BY <1>1, <2>4, RowKept DEF Left
        <3>2. PICK w \in Record :
                /\ held' = {w}
                /\ w.applied = p.applied /\ w.holders = p.holders /\ w.cancelled = p.cancelled
                /\ w.until >= w.expires /\ Durable(w)'
            BY <1>2, <2>4, <2>6, <2>8, <3>1, DurableRow
        <3>3. Safe'
            BY <1>2, <2>1, <2>6, <3>2, SafeWritten
        <3>4. RowsInv'
            BY <1>1, <1>2, <2>1, <2>6, <3>2 DEF RowsInv, RowReasons
        <3>5. QED
            BY <2>2, <3>3, <3>4
    <2>9. CASE WriteFails
        <3>1. Safe'
            BY <1>1, <1>2, <2>1, <2>9, SafeKept DEF WriteFails
        <3>2. RowsInv'
            BY <1>1, <2>1, <2>9 DEF RowsInv, RowReasons, WriteFails
        <3>3. QED
            BY <2>2, <3>1, <3>2
    <2>10. QED
        BY <2>5, <2>7, <2>8, <2>9
<1>10. QED
    BY <1>4, <1>5, <1>6, <1>7, <1>8, <1>9

\* What a release decides of a row that no alignment pause covers: with nothing
\* else armed, only a closed session can keep an order pulled.
LEMMA OnlyHoursSurvive ==
    ASSUME TypeInv, OneHold, PauseInv, NEW r \in Record, RowReasons(r), r.applied, ~AlignmentEpisode(r),
           NEW calm, NEW paused \in {Paused, PausedAsRead}
    PROVE  /\ Surviving(r, calm, paused) \subseteq r.holders
           /\ r.cancelled # {} /\ Surviving(r, calm, paused) # {} =>
                clock \in Closed /\ "MaAlignment" \notin Surviving(r, calm, paused)
<1>1. /\ EffectiveHolders(r) = r.holders
      /\ r.holders \subseteq {"NewsPause", "MarketHours", "MaAlignment"}
    BY DEF EffectiveHolders, RowReasons
<1>2. Surviving(r, calm, paused) \subseteq r.holders
    BY <1>1 DEF Surviving
<1>3. ASSUME r.cancelled # {}, NEW why \in Surviving(r, calm, paused)
      PROVE  why = "MarketHours" /\ clock \in Closed
    <2>1. ~paused
        BY <1>3, OnlyAlignmentPauses DEF AlignmentEpisode
    <2>2. why \in {"NewsPause", "MarketHours", "MaAlignment"} /\ ~Lifted(why, calm, paused)
        BY <1>1, <1>3 DEF Surviving
    <2>3. QED
        BY <2>1, <2>2 DEF Lifted, MarketShut
<1>4. QED
    BY <1>2, <1>3

\* OFF side, up to the restore: protect, release, narrow.
LEMMA ReleasingKept ==
    ASSUME TypeInv, OneHold, KeptInv, WatchRecover \/ WatchExtend \/ WatchNarrow
    PROVE  RowsInv' /\ CopyInv' /\ Safe'
<1>1. /\ PauseInv /\ RowsInv /\ CopyInv /\ Safe
      /\ WorldType /\ BrokerType /\ JobType /\ OneRow(held) /\ OneRow(Visible)
      /\ {"watch", "widen", "control", "engine"} = Jobs
      /\ clock \in Nat /\ NotAfter \in Nat
      /\ todo["watch"] \subseteq Orders /\ hand["watch"] \subseteq Orders
      /\ \A r \in rec["watch"] : r \in Record
    BY VisibleRow, OneVisible, TimeAssumption DEF KeptInv, TypeInv, JobType
<1>2. /\ clock' = clock /\ pause' = pause /\ order' = order /\ owed' = owed
      /\ rec'["engine"] = rec["engine"]
      /\ WindowOpen' <=> WindowOpen
    <2>1. clock' = clock /\ pause' = pause /\ order' = order /\ owed' = owed
        BY DEF WatchRecover, WatchExtend, WatchNarrow, worldVars
    <2>2. rec' = rec \/ \E S : Keep("watch", S)
        BY DEF WatchRecover, WatchExtend, WatchNarrow, Restoring, Done
    <2>3. QED
        BY <1>1, <2>1, <2>2 DEF Keep, JobType, WindowOpen
<1>3. \A r \in Visible : /\ r \in Record /\ r \in held /\ RowReasons(r)
                         /\ WindowOpen => owed \subseteq r.cancelled
    <2>1. ASSUME NEW r \in Visible, WindowOpen, owed # {} PROVE owed \subseteq r.cancelled
        BY <1>1, <2>1, OwedIsVisible
    <2>2. QED
        BY <1>1, <2>1, OneVisible DEF RowsInv
\* The pass goes on to restore the orders of r.
<1>4. ASSUME NEW r \in Record, Restoring(r), WindowOpen => owed \subseteq r.cancelled
      PROVE  /\ pc'["watch"] = "restore" /\ rec'["watch"] = {} /\ todo'["watch"] = r.cancelled
             /\ CopyInv'
    <2>1. pc'["watch"] = "restore" /\ rec'["watch"] = {} /\ todo'["watch"] = r.cancelled
        BY <1>1, <1>4 DEF Restoring, Goto, Keep, JobType
    <2>2. CopyInv'
        BY <1>1, <1>2, <1>4, <2>1 DEF CopyInv
    <2>3. QED
        BY <2>1, <2>2
\* The pass ends.
<1>5. ASSUME Done("watch")
      PROVE  pc'["watch"] = "idle" /\ rec'["watch"] = {} /\ CopyInv'
    <2>1. pc'["watch"] = "idle" /\ rec'["watch"] = {}
        BY <1>1, <1>5, OnlyOneJob
    <2>2. CopyInv'
        BY <1>1, <1>2, <2>1 DEF CopyInv
    <2>3. QED
        BY <2>1, <2>2
<1>6. CASE WatchRecover
    <2>1. pc["watch"] = "pass" /\ UNCHANGED <<held, due>>
        BY <1>6 DEF WatchRecover, worldVars
    <2>2. ASSUME NEW S, rec'["watch"] = S, \A r \in S : RowReasons(r) PROVE RowsInv'
        BY <1>1, <1>2, <2>1, <2>2 DEF RowsInv, RowReasons
    <2>3. ASSUME Done("watch"), \A r \in Visible : owed # {} /\ owed \subseteq r.cancelled /\ Lives(r) => Durable(r)
          PROVE  RowsInv' /\ CopyInv' /\ Safe'
        <3>1. pc'["watch"] = "idle" /\ rec'["watch"] = {} /\ CopyInv'
            BY <1>5, <2>3
        <3>2. ASSUME WindowOpen, owed # {}, NEW r \in held, owed \subseteq r.cancelled, Lives(r)
              PROVE  Durable(r)
            <4>1. r \in Visible
                BY <1>1, <3>2, OwedIsVisible
            <4>2. QED
                BY <2>3, <3>2, <4>1
        <3>3. Safe'
            BY <1>1, <1>2, <2>1, <3>1, <3>2, SafeKept
        <3>4. QED
            BY <2>2, <3>1, <3>3
    <2>4. ASSUME NEW r \in Visible, Restoring(r) PROVE RowsInv' /\ CopyInv' /\ Safe'
        <3>1. pc'["watch"] = "restore" /\ rec'["watch"] = {} /\ CopyInv'
            BY <1>3, <1>4, <2>4
        <3>2. Safe'
            BY <1>1, <1>2, <2>1, <3>1, SafeKept
        <3>3. QED
            BY <2>2, <3>1, <3>2
    <2>5. CASE (\A r \in Visible : ~r.applied) /\ Done("watch")
        <3>1. \A r \in Visible : r.cancelled = {}
            BY <1>3, <2>5 DEF RowReasons
        <3>2. QED
            BY <2>3, <2>5, <3>1
    <2>6. ASSUME NEW r \in Visible, r.applied, AlignmentEpisode(r), Protected(r) = r, Done("watch")
          PROVE  RowsInv' /\ CopyInv' /\ Safe'
        <3>1. pause["ma"] = NotAfter
            BY <1>1, <2>6, OnlyAlignmentPauses DEF AlignmentEpisode
        <3>2. "MaAlignment" \in r.holders /\ r.expires >= NotAfter /\ r.cancelled # {}
            BY <1>1, <1>3, <2>6, <3>1, ProtectedRow DEF AlignmentEpisode
        <3>3. r.until >= NotAfter
            BY <1>1, <1>3, <3>2 DEF RowsInv, Record
        <3>4. \A w \in Visible : Durable(w)
            BY <2>6, <3>3, OneVisible DEF Durable
        <3>5. QED
            BY <2>3, <2>6, <3>4
    <2>7. ASSUME NEW r \in Visible, r.applied, AlignmentEpisode(r), Goto("watch", "extend"),
                 Keep("watch", {Protected(r)})
          PROVE  RowsInv' /\ CopyInv' /\ Safe'
        <3> DEFINE p == Protected(r)
        <3>1. Alignment = TRUE /\ pause["ma"] = NotAfter
            BY <1>1, <2>7, OnlyAlignmentPauses DEF AlignmentEpisode
        <3>2. /\ p \in Record /\ p.applied = r.applied /\ p.cancelled = r.cancelled
              /\ p.holders = r.holders \/ p.holders = r.holders \cup {"MaAlignment"}
              /\ p.expires >= NotAfter
            BY <1>1, <1>3, <2>7, <3>1, ProtectedRow
        <3>3. RowReasons(p) /\ (WindowOpen => owed \subseteq p.cancelled)
            BY <1>3, <3>2 DEF RowReasons
        <3>4. pc'["watch"] = "extend" /\ rec'["watch"] = {p}
            BY <1>1, <2>7, OnlyOneJob
        <3> HIDE DEF p
        <3>5. CopyInv'
            BY <1>1, <1>2, <3>1, <3>2, <3>3, <3>4 DEF CopyInv
        <3>6. Safe'
            BY <1>1, <1>2, <2>1, <3>4, SafeKept
        <3>7. QED
            BY <2>2, <3>3, <3>4, <3>5, <3>6
    <2> DEFINE Ends(r, left) ==
            \/ left = {} /\ Restoring(r)
            \/ /\ left # {} /\ left # r.holders
               /\ Goto("watch", "narrow") /\ Keep("watch", {[r EXCEPT !.holders = left]})
            \/ left = r.holders /\ left # {} /\ BackstopDue(r) /\ Restoring(r)
            \/ left = r.holders /\ left # {} /\ ~BackstopDue(r) /\ Done("watch")
    <2>8. ASSUME NEW r \in Visible, NEW calm \in {FALSE, CalmQuote}, NEW paused \in {Paused, PausedAsRead},
                 r.applied, ~AlignmentEpisode(r), Ends(r, Surviving(r, calm, paused))
          PROVE  RowsInv' /\ CopyInv' /\ Safe'
        <3> DEFINE left == Surviving(r, calm, paused)
        <3>1. r \in Record /\ RowReasons(r) /\ (WindowOpen => owed \subseteq r.cancelled)
            BY <1>3
        <3>2. /\ left \subseteq r.holders
              /\ r.cancelled # {} /\ left # {} => clock \in Closed /\ "MaAlignment" \notin left
            BY <1>1, <2>8, <3>1, OnlyHoursSurvive
        <3>3. Ends(r, left)
            BY <2>8
        <3> HIDE DEF left
        <3>4. CASE Restoring(r)
            BY <2>4, <3>4
        <3>5. CASE left # {} /\ Done("watch")
            <4>1. r.cancelled # {} /\ Lives(r) => Durable(r)
                BY <3>2, <3>5 DEF Lives
            <4>2. \A w \in Visible : w = r
                BY OneVisible
            <4>3. QED
                BY <2>3, <3>5, <4>1, <4>2
        <3>6. CASE left # {} /\ Goto("watch", "narrow") /\ Keep("watch", {[r EXCEPT !.holders = left]})
            <4> DEFINE n == [r EXCEPT !.holders = left]
            <4>1. n.holders = left /\ n.applied = r.applied /\ n.cancelled = r.cancelled
                BY <3>1 DEF Record
            <4>2. pc'["watch"] = "narrow" /\ rec'["watch"] = {n}
                BY <1>1, <3>6, OnlyOneJob
            <4> HIDE DEF n
            <4>3. RowReasons(n)
                BY <3>1, <3>2, <3>6, <4>1 DEF RowReasons
            <4>4. CopyInv'
                BY <1>1, <1>2, <2>8, <3>1, <3>2, <3>6, <4>1, <4>2 DEF CopyInv
            <4>5. Safe'
                BY <1>1, <1>2, <2>1, <4>2, SafeKept
            <4>6. QED
                BY <2>2, <4>2, <4>3, <4>4, <4>5
        <3>7. QED
            BY <3>3, <3>4, <3>5, <3>6
    <2>9. \/ (\A r \in Visible : ~r.applied) /\ Done("watch")
          \/ \E r \in Visible : r.applied /\ AlignmentEpisode(r) /\
                \/ Protected(r) = r /\ Done("watch")
                \/ Goto("watch", "extend") /\ Keep("watch", {Protected(r)})
          \/ \E r \in Visible, calm \in {FALSE, CalmQuote}, paused \in {Paused, PausedAsRead} :
                r.applied /\ ~AlignmentEpisode(r) /\ Ends(r, Surviving(r, calm, paused))
        <3>1. Faults \cap {"read", "pauses"} = {}
            BY DEF OneHold
        <3> DEFINE Held(r, calm, paused) ==
                        /\ r.applied /\ ~AlignmentEpisode(r)
                        /\ LET left == Surviving(r, calm, paused)
                           IN  \/ left = {} /\ Restoring(r)
                               \/ /\ left # {} /\ left # r.holders
                                  /\ Goto("watch", "narrow") /\ Keep("watch", {[r EXCEPT !.holders = left]})
                                  /\ UNCHANGED <<todo, hand>>
                               \/ left = r.holders /\ left # {} /\ BackstopDue(r) /\ Restoring(r)
                               \/ left = r.holders /\ left # {} /\ ~BackstopDue(r) /\ Done("watch")
                   Free == (\A r \in Visible : ~r.applied) /\ Done("watch")
                   Episode == \E r \in Visible : r.applied /\ AlignmentEpisode(r) /\
                                \/ Protected(r) = r /\ Done("watch")
                                \/ /\ Protected(r) # r
                                   /\ Goto("watch", "extend") /\ Keep("watch", {Protected(r)})
                                   /\ UNCHANGED <<todo, hand>>
                   AnyHeld == \E r \in Visible, calm \in {FALSE, CalmQuote}, paused \in {Paused, PausedAsRead} :
                                Held(r, calm, paused)
        <3>2. ASSUME NEW r, NEW calm, NEW paused, Held(r, calm, paused)
              PROVE  r.applied /\ ~AlignmentEpisode(r) /\ Ends(r, Surviving(r, calm, paused))
            BY <3>2
        <3>3. Free \/ Episode \/ AnyHeld \/ Faults \cap {"read", "pauses"} # {}
            BY <1>6 DEF WatchRecover
        <3>4. Free \/ Episode \/ AnyHeld
            BY <3>1, <3>3
        <3> HIDE DEF Held, Ends
        <3>5. QED
            BY <3>2, <3>4
    <2> HIDE DEF Ends
    <2>10. QED
        BY <2>5, <2>6, <2>7, <2>8, <2>9
<1>7. CASE WatchExtend
    <2>1. pc["watch"] = "extend" /\ Done("watch")
        BY <1>7 DEF WatchExtend
    <2>2. pc'["watch"] = "idle" /\ rec'["watch"] = {} /\ CopyInv'
        BY <1>5, <2>1
    <2>3. PICK r \in rec["watch"] : Saved(r, Left(r)) \/ WriteFails
        BY <1>7 DEF WatchExtend
    <2>4. /\ r \in Record /\ RowReasons(r) /\ r.expires >= NotAfter
          /\ WindowOpen => owed \subseteq r.cancelled
          /\ Alignment = TRUE
        BY <1>1, <2>1 DEF RowsInv, CopyInv
    <2>5. CASE Saved(r, Left(r))
        <3>1. Left(r) \in Nat
            BY <1>1, <2>4, RowKept
        <3>2. PICK w \in Record :
                /\ held' = {w}
                /\ w.applied = r.applied /\ w.holders = r.holders /\ w.cancelled = r.cancelled
                /\ w.until >= w.expires /\ Durable(w)'
            BY <1>2, <2>4, <2>5, <3>1, DurableRow
        <3>3. Safe'
            BY <1>2, <2>4, <3>2, SafeWritten
        <3>4. RowsInv'
            BY <1>1, <1>2, <2>2, <2>4, <3>2 DEF RowsInv, RowReasons
        <3>5. QED
            BY <2>2, <3>3, <3>4
    <2>6. CASE WriteFails
        <3>1. Closed = {} /\ held' = held
            BY <2>4, <2>6 DEF WriteFails, OneHold
        <3>2. \A w \in held : Lives(w) => Durable(w)
            BY <3>1 DEF Lives
        <3>3. Safe'
            BY <1>1, <1>2, <2>2, <3>1, <3>2, SafeKept
        <3>4. RowsInv'
            BY <1>1, <1>2, <2>2, <3>1 DEF RowsInv, RowReasons
        <3>5. QED
            BY <2>2, <3>3, <3>4
    <2>7. QED
        BY <2>3, <2>5, <2>6
<1>8. CASE WatchNarrow
    <2>1. pc["watch"] = "narrow"
        BY <1>8 DEF WatchNarrow
    <2>2. PICK r \in rec["watch"] :
            /\ Saved(r, SpreadBlockTtl(r.opened)) \/ WriteFails
            /\ IF BackstopDue(r) THEN Restoring(r) ELSE Done("watch")
        BY <1>8 DEF WatchNarrow
    <2>3. /\ r \in Record /\ RowReasons(r)
          /\ r.cancelled # {} => clock \in Closed /\ "MaAlignment" \notin r.holders
          /\ WindowOpen => owed \subseteq r.cancelled
        BY <1>1, <2>1 DEF RowsInv, CopyInv
    <2>4. pc'["watch"] \in {"restore", "idle"} /\ rec'["watch"] = {} /\ CopyInv'
        BY <1>4, <1>5, <2>2, <2>3
    <2>5. CASE Saved(r, SpreadBlockTtl(r.opened))
        <3>1. SpreadBlockTtl(r.opened) \in Nat /\ SpreadBlockTtl(r.opened) >= Grace
            BY TtlType
        <3>2. PICK w \in Record :
                /\ held' = {w}
                /\ w.applied = r.applied /\ w.holders = r.holders /\ w.cancelled = r.cancelled
                /\ clock \in Closed => Durable(w)'
            BY <1>2, <2>3, <2>5, <3>1, DurableRow
        <3>3. Safe'
            BY <1>2, <2>3, <2>4, <3>2, SafeWritten
        <3>4. RowsInv'
            BY <1>1, <1>2, <2>3, <2>4, <3>2 DEF RowsInv, RowReasons
        <3>5. QED
            BY <2>4, <3>3, <3>4
    <2>6. CASE WriteFails
        <3>1. held' = held
            BY <2>6 DEF WriteFails
        <3>2. WindowOpen /\ owed # {} => \A w \in held : Lives(w) => Durable(w)
            BY <2>3 DEF Lives
        <3>3. Safe'
            BY <1>1, <1>2, <2>4, <3>1, <3>2, SafeKept
        <3>4. RowsInv'
            BY <1>1, <1>2, <2>4, <3>1 DEF RowsInv, RowReasons
        <3>5. QED
            BY <2>4, <3>3, <3>4
    <2>7. QED
        BY <2>2, <2>5, <2>6
<1>9. QED
    BY <1>6, <1>7, <1>8

\* OFF side, from the restore to the clear.
LEMMA RestoringKept ==
    ASSUME TypeInv, OneHold, KeptInv,
           WatchRestore \/ WatchPark \/ WatchFinish \/ WatchAmend \/ WatchClear
    PROVE  RowsInv' /\ CopyInv' /\ Safe'
<1>1. /\ PauseInv /\ RowsInv /\ CopyInv /\ Safe
      /\ WorldType /\ BrokerType /\ JobType /\ OneRow(held) /\ OneRow(Visible)
      /\ {"watch", "widen", "control", "engine"} = Jobs
      /\ clock \in Nat /\ NotAfter \in Nat
      /\ todo["watch"] \subseteq Orders /\ hand["watch"] \subseteq Orders
      /\ \A r \in rec["watch"] : r \in Record
    BY VisibleRow, OneVisible, TimeAssumption DEF KeptInv, TypeInv, JobType
<1>2. clock' = clock /\ rec'["engine"] = rec["engine"] /\ (WindowOpen' <=> WindowOpen)
    <2>1. clock' = clock
        BY DEF WatchRestore, WatchPark, WatchFinish, WatchAmend, WatchClear, worldVars
    <2>2. rec' = rec \/ \E S : Keep("watch", S)
        BY DEF WatchRestore, WatchPark, WatchFinish, WatchAmend, WatchClear, Done
    <2>3. QED
        BY <1>1, <2>1, <2>2 DEF Keep, JobType, WindowOpen
<1>3. \A s : Goto("watch", s) => pc'["watch"] = s
    BY <1>1, OnlyOneJob
<1>4. \A r \in Visible : RowReasons(r)
    BY <1>1, OneVisible DEF RowsInv
<1>5. CASE WatchRestore
    <2>1. PICK o \in todo["watch"] :
            /\ todo' = [todo EXCEPT !["watch"] = @ \ {o}]
            /\ owed' = owed \ {o}
            /\ \/ UNCHANGED <<order, pc, rec>>
               \/ PlacedAsReplacement /\ UNCHANGED <<pc, rec>>
               \/ /\ Goto("watch", "park")
                  /\ Keep("watch", {ParkedOnto(Visible, "replacing")})
                  /\ UNCHANGED order
        BY <1>5 DEF WatchRestore
    <2>2. pc["watch"] = "restore" /\ held' = held /\ todo'["watch"] = todo["watch"] \ {o}
        BY <1>1, <1>5, <2>1 DEF WatchRestore, JobType
    <2>3. WindowOpen => owed' \subseteq todo'["watch"]
        BY <1>1, <2>1, <2>2 DEF CopyInv
    <2>4. \A p \in owed' : order'[p] = "gone"
        <3>1. \A p \in owed : p \in Orders /\ order[p] = "gone"
            BY <1>1 DEF CopyInv, TypeInv, BrokerType
        <3>2. CASE order' = order
            BY <2>1, <3>1, <3>2
        <3>3. CASE PlacedAsReplacement
            BY <1>1, <2>1, <3>1, <3>3 DEF PlacedAsReplacement, Takes, BrokerType
        <3>4. QED
            BY <2>1, <3>2, <3>3
    <2>5. CASE pc' = pc /\ rec' = rec
        <3>1. CopyInv'
            BY <1>2, <2>2, <2>3, <2>4, <2>5 DEF CopyInv
        <3>2. Safe'
            BY <1>1, <1>2, <2>1, <2>2, <2>5, SafeKept
        <3>3. RowsInv'
            BY <1>1, <2>2, <2>5 DEF RowsInv, RowReasons
        <3>4. QED
            BY <3>1, <3>2, <3>3
    <2>6. CASE Goto("watch", "park") /\ Keep("watch", {ParkedOnto(Visible, "replacing")})
        <3> DEFINE b == OrBlank(Visible, NotAfter)
                   p == ParkedOnto(Visible, "replacing")
        <3>1. b \in Record /\ RowReasons(b)
            <4>1. b \in Record /\ (Visible = {} => b = Blank(NotAfter)) /\ \A r \in Visible : b = r
                BY <1>1, OrBlankRow
            <4>2. RowReasons(Blank(NotAfter))
                BY <1>1, BlankRow DEF RowReasons
            <4>3. QED
                BY <1>4, <4>1, <4>2
        <3>2. WindowOpen /\ owed # {} => owed \subseteq b.cancelled
            BY <1>1, OwedIsVisible, OrBlankRow
        <3>3. /\ p.applied = b.applied /\ p.holders = b.holders /\ p.cancelled = b.cancelled
              /\ p.expires >= NotAfter
            BY <1>1, ParkedRow
        <3>4. pc'["watch"] = "park" /\ rec'["watch"] = {p}
            BY <1>1, <2>6, OnlyOneJob
        <3> HIDE DEF b, p
        <3>5. RowReasons(p) /\ (WindowOpen => owed' \subseteq p.cancelled)
            BY <2>1, <3>1, <3>2, <3>3 DEF RowReasons
        <3>6. CopyInv'
            BY <1>2, <2>3, <2>4, <3>3, <3>4, <3>5 DEF CopyInv
        <3>7. Safe'
            BY <1>1, <1>2, <2>1, <2>2, <3>4, SafeKept
        <3>8. RowsInv'
            BY <1>1, <1>2, <2>2, <3>4, <3>5 DEF RowsInv, RowReasons
        <3>9. QED
            BY <3>6, <3>7, <3>8
    <2>7. QED
        BY <2>1, <2>5, <2>6
<1>6. CASE WatchPark
    <2>1. /\ pc["watch"] = "park" /\ pc'["watch"] = "restore"
          /\ UNCHANGED <<order, owed, rec, todo, hand>>
        BY <1>3, <1>6 DEF WatchPark
    <2>2. CopyInv'
        BY <1>1, <1>2, <2>1 DEF CopyInv
    <2>3. PICK r \in rec["watch"] : Saved(r, Left(r)) \/ WriteFails
        BY <1>6 DEF WatchPark
    <2>4. r \in Record /\ RowReasons(r) /\ r.expires >= NotAfter /\ (WindowOpen => owed \subseteq r.cancelled)
        BY <1>1, <2>1 DEF RowsInv, CopyInv
    <2>5. CASE Saved(r, Left(r))
        <3>1. Left(r) \in Nat
            BY <1>1, <2>4, RowKept
        <3>2. PICK w \in Record :
                /\ held' = {w}
                /\ w.applied = r.applied /\ w.holders = r.holders /\ w.cancelled = r.cancelled
                /\ w.until >= w.expires /\ Durable(w)'
            BY <1>2, <2>4, <2>5, <3>1, DurableRow
        <3>3. Safe'
            BY <1>2, <2>1, <2>4, <3>2, SafeWritten
        <3>4. RowsInv'
            BY <1>1, <1>2, <2>1, <2>4, <3>2 DEF RowsInv, RowReasons
        <3>5. QED
            BY <2>2, <3>3, <3>4
    <2>6. CASE WriteFails
        <3>1. Safe'
            BY <1>1, <1>2, <2>1, <2>6, SafeKept DEF WriteFails
        <3>2. RowsInv'
            BY <1>1, <2>1, <2>6 DEF RowsInv, RowReasons, WriteFails
        <3>3. QED
            BY <2>2, <3>1, <3>2
    <2>7. QED
        BY <2>3, <2>5, <2>6
<1>7. CASE WatchFinish
    <2>1. pc["watch"] = "restore" /\ todo["watch"] = {} /\ UNCHANGED <<order, held, owed>>
        BY <1>7 DEF WatchFinish
    <2>2. WindowOpen => owed = {}
        BY <1>1, <2>1 DEF CopyInv
    <2>3. \/ pc'["watch"] = "idle" /\ rec'["watch"] = {}
          \/ pc'["watch"] = "amend" /\ rec'["watch"] = Visible
        BY <1>1, <1>7, OnlyOneJob DEF WatchFinish
    <2>4. CopyInv' /\ Safe'
        BY <1>1, <1>2, <2>1, <2>2, <2>3 DEF CopyInv, Safe
    <2>5. RowsInv'
        BY <1>1, <1>2, <1>4, <2>1, <2>3 DEF RowsInv, RowReasons
    <2>6. QED
        BY <2>4, <2>5
<1>8. CASE WatchAmend
    <2>1. /\ pc["watch"] = "amend" /\ pc'["watch"] = "clear"
          /\ UNCHANGED <<order, held, owed, rec, todo, hand>>
        BY <1>3, <1>8 DEF WatchAmend
    <2>2. WindowOpen => owed = {}
        BY <1>1, <2>1 DEF CopyInv
    <2>3. CopyInv' /\ Safe'
        BY <1>1, <1>2, <2>1, <2>2 DEF CopyInv, Safe
    <2>4. RowsInv'
        BY <1>1, <2>1 DEF RowsInv, RowReasons
    <2>5. QED
        BY <2>3, <2>4
<1>9. CASE WatchClear
    <2>1. /\ pc["watch"] = "clear" /\ pc'["watch"] = "idle" /\ rec'["watch"] = {}
          /\ UNCHANGED <<order, owed>> /\ (held' = {} \/ held' = held)
        BY <1>1, <1>9, OnlyOneJob DEF WatchClear, Deleted, WriteFails
    <2>2. WindowOpen => owed = {}
        BY <1>1, <2>1 DEF CopyInv
    <2>3. CopyInv' /\ Safe'
        BY <1>1, <1>2, <2>1, <2>2 DEF CopyInv, Safe
    <2>4. RowsInv'
        BY <1>1, <1>2, <2>1 DEF RowsInv, RowReasons
    <2>5. QED
        BY <2>3, <2>4
<1>10. QED
    BY <1>5, <1>6, <1>7, <1>8, <1>9

LEMMA WatchKept ==
    ASSUME TypeInv, OneHold, KeptInv, WatchStep
    PROVE  KeptInv'
<1>1. /\ PauseInv /\ BeforeAnyOrder /\ BrokerType /\ JobType
      /\ {"watch", "widen", "control", "engine"} = Jobs
    BY DEF KeptInv, TypeInv, Jobs
<1>2. CASE Fresh
    BY <1>2, WatchBeforeAnyOrder
<1>3. CASE ~Fresh
    <2>1. RowsInv' /\ CopyInv' /\ Safe'
        BY HoldingKept, ReleasingKept, RestoringKept DEF WatchStep
    <2>2. /\ clock' = clock /\ pause' = pause /\ fires' = fires
          /\ \E s : Goto("watch", s) \/ pc' = pc
        BY DEF WatchStep, WatchStart, WatchHold, WatchStore, WatchCancel, WatchClassify, WatchDrop,
           WatchRecover, WatchExtend, WatchNarrow, WatchRestore, WatchPark, WatchFinish, WatchAmend,
           WatchClear, worldVars, Start, Restoring, Done
    <2>3. \A j \in Jobs \ {"watch"} : pc'[j] = pc[j]
        BY <1>1, <2>2, OnlyOneJob
    <2>4. ~Fresh'
        <3>1. PICK o \in Orders : order[o] # "unused"
            BY <1>3 DEF Fresh
        <3>2. CASE WatchCancel
            BY <1>1, <3>1, <3>2 DEF WatchCancel, BrokerType, Fresh
        <3>3. CASE WatchRestore
            BY <1>1, <3>1, <3>3 DEF WatchRestore, PlacedAsReplacement, Takes, BrokerType, Fresh
        <3>4. CASE order' = order
            BY <3>1, <3>4 DEF Fresh
        <3>5. QED
            BY <3>2, <3>3, <3>4 DEF WatchStep, WatchStart, WatchHold, WatchStore, WatchClassify, WatchDrop,
               WatchRecover, WatchExtend, WatchNarrow, WatchPark, WatchFinish, WatchAmend, WatchClear
    <2>5. BeforeAnyOrder'
        BY <1>1, <1>3, <2>2, <2>3, <2>4 DEF BeforeAnyOrder
    <2>6. PauseInv'
        BY <1>1, <2>2 DEF PauseInv
    <2>7. QED
        BY <2>1, <2>5, <2>6 DEF KeptInv
<1>4. QED
    BY <1>2, <1>3

-----------------------------------------------------------------------------
(* The fire, the world, and the theorem.                                    *)

LEMMA EngineKept ==
    ASSUME TypeInv, OneHold, KeptInv, EngineFire \/ EnginePark
    PROVE  KeptInv'
<1>1. /\ PauseInv /\ BeforeAnyOrder /\ RowsInv /\ CopyInv
      /\ WorldType /\ BrokerType /\ JobType /\ OneRow(held) /\ OneRow(Visible)
      /\ {"watch", "widen", "control", "engine"} = Jobs
      /\ \A r \in rec["engine"] : r \in Record
      /\ fires \in Nat /\ NotAfter \in Nat
    BY VisibleRow, OneVisible, TimeAssumption DEF KeptInv, TypeInv, JobType, WorldType
<1>2. Fresh
    BY <1>1, BoundAssumption DEF BeforeAnyOrder, EngineFire, EnginePark, OneHold
<1>3. /\ pc["watch"] \in {"idle", "pass"} /\ todo["watch"] = {} /\ owed = {}
      /\ \A r \in held \cup rec["engine"] : ~r.applied
    BY <1>1, <1>2 DEF BeforeAnyOrder
<1>4. /\ clock' = clock /\ pause' = pause /\ owed' = owed
      /\ \A j \in Jobs \ {"engine"} : pc'[j] = pc[j] /\ rec'[j] = rec[j] /\ todo'[j] = todo[j]
    <2>1. clock' = clock /\ pause' = pause /\ owed' = owed
        BY DEF EngineFire, EnginePark, worldVars
    <2>2. /\ pc' = pc \/ \E s : Goto("engine", s)
          /\ rec' = rec \/ \E S : Keep("engine", S)
          /\ todo' = todo \/ \E S : todo' = [todo EXCEPT !["engine"] = S]
        BY DEF EngineFire, EnginePark, Done
    <2>3. QED
        BY <1>1, <2>1, <2>2 DEF Goto, Keep, JobType
<1>5. PauseInv' /\ CopyInv' /\ Safe'
    BY <1>1, <1>3, <1>4 DEF PauseInv, CopyInv, Safe
<1>6. ASSUME PlacedAsFresh, fires' = fires + 1, UNCHANGED <<pc, rec, held>>, pc["engine"] = "idle"
      PROVE  BeforeAnyOrder' /\ RowsInv'
    <2>1. ~Fresh'
        BY <1>1, <1>6 DEF PlacedAsFresh, Takes, BrokerType, Fresh
    <2>2. BeforeAnyOrder'
        BY <1>1, <1>6, <2>1 DEF BeforeAnyOrder
    <2>3. RowsInv'
        BY <1>1, <1>6 DEF RowsInv, RowReasons
    <2>4. QED
        BY <2>2, <2>3
<1>7. ASSUME order' = order, Goto("engine", "park"), Keep("engine", {ParkedOnto(Visible, "fresh")}),
             held' = held
      PROVE  BeforeAnyOrder' /\ RowsInv'
    <2> DEFINE b == OrBlank(Visible, NotAfter)
               p == ParkedOnto(Visible, "fresh")
    <2>1. b \in Record /\ RowReasons(b) /\ ~b.applied
        <3>1. b \in Record /\ (Visible = {} => b = Blank(NotAfter)) /\ \A r \in Visible : b = r
            BY <1>1, OrBlankRow
        <3>2. RowReasons(Blank(NotAfter)) /\ ~Blank(NotAfter).applied
            BY <1>1, BlankRow DEF RowReasons
        <3>3. \A r \in Visible : RowReasons(r) /\ ~r.applied
            BY <1>1, <1>3 DEF Visible, RowsInv
        <3>4. QED
            BY <3>1, <3>2, <3>3
    <2>2. p.applied = b.applied /\ p.holders = b.holders /\ p.cancelled = b.cancelled
        BY <1>1, ParkedRow
    <2>3. pc'["engine"] = "park" /\ rec'["engine"] = {p}
        BY <1>1, <1>7, OnlyOneJob
    <2> HIDE DEF b, p
    <2>4. RowReasons(p) /\ ~p.applied
        BY <2>1, <2>2 DEF RowReasons
    <2>5. Fresh'
        BY <1>2, <1>7 DEF Fresh
    <2>6. BeforeAnyOrder'
        BY <1>1, <1>3, <1>4, <1>7, <2>3, <2>4, <2>5 DEF BeforeAnyOrder
    <2>7. RowsInv'
        BY <1>1, <1>4, <1>7, <2>3, <2>4 DEF RowsInv, RowReasons
    <2>8. QED
        BY <2>6, <2>7
<1>8. CASE EngineFire
    BY <1>5, <1>6, <1>7, <1>8 DEF EngineFire, KeptInv
<1>9. CASE EnginePark
    <2>1. /\ pc["engine"] = "park" /\ pc'["engine"] = "idle" /\ rec'["engine"] = {}
          /\ order' = order /\ fires' = fires
        BY <1>1, <1>9, OnlyOneJob DEF EnginePark, worldVars
    <2>2. PICK r \in rec["engine"] : Saved(r, Left(r)) \/ held' = held
        BY <1>9 DEF EnginePark, WriteFails
    <2>3. r \in Record /\ RowReasons(r) /\ ~r.applied
        BY <1>1, <1>3 DEF RowsInv
    <2>4. \A w \in held' : ~w.applied /\ RowReasons(w)
        <3>1. CASE held' = held
            BY <1>1, <1>3, <3>1 DEF RowsInv
        <3>2. CASE Saved(r, Left(r))
            <4>1. PICK w \in Record : held' = {w} /\ w.applied = r.applied /\ w.holders = r.holders
                                      /\ w.cancelled = r.cancelled
                BY <1>1, <1>4, <2>3, <3>2, RowKept, DurableRow
            <4>2. QED
                BY <2>3, <4>1 DEF RowReasons
        <3>3. QED
            BY <2>2, <3>1, <3>2
    <2>5. BeforeAnyOrder'
        BY <1>1, <1>2, <1>3, <1>4, <2>1, <2>4 DEF BeforeAnyOrder, Fresh
    <2>6. RowsInv'
        BY <1>1, <1>4, <2>1, <2>4 DEF RowsInv, RowReasons
    <2>7. QED
        BY <1>5, <2>5, <2>6 DEF KeptInv
<1>10. QED
    BY <1>8, <1>9

LEMMA WorldKept ==
    ASSUME TypeInv, OneHold, KeptInv, BrokerStep \/ PauseStep \/ Tick \/ Crash \/ UNCHANGED vars
    PROVE  KeptInv'
<1>1. /\ PauseInv /\ BeforeAnyOrder /\ RowsInv /\ CopyInv /\ Safe
      /\ WorldType /\ BrokerType /\ JobType
      /\ {"watch", "widen", "control", "engine"} = Jobs
      /\ clock \in Nat /\ NotAfter \in Nat /\ Passes \in Nat \ {0} /\ "watch" \in Scheduled
    BY OneVisible, TimeAssumption, BoundAssumption DEF KeptInv, TypeInv, OneHold
<1>2. CASE UNCHANGED vars
    BY <1>1, <1>2 DEF vars, worldVars, jobVars, KeptInv, PauseInv, BeforeAnyOrder, RowsInv, RowReasons, CopyInv,
       Safe, Lives, Durable, PassOver, Fresh, WindowOpen
<1>3. CASE BrokerStep
    <2>1. PICK o \in Orders : BrokerFill(o) \/ BrokerExit(o)
        BY <1>3 DEF BrokerStep
    <2>2. UNCHANGED <<clock, pause, fires, due, held, owed, pc, rec, todo, hand>>
        BY <2>1 DEF BrokerFill, BrokerExit, worldVars, jobVars
    <2>3. /\ \A p \in Orders \ {o} : order'[p] = order[p]
          /\ order[o] \in {"resting", "open"} /\ order'[o] \in {"open", "closed"}
        BY <1>1, <2>1 DEF BrokerFill, BrokerExit, BrokerType
    <2>4. ~Fresh /\ ~Fresh'
        BY <2>3 DEF Fresh
    <2>5. \A p \in owed : order'[p] = "gone"
        <3>1. \A p \in owed : p \in Orders /\ order[p] = "gone"
            BY <1>1 DEF CopyInv, TypeInv, BrokerType
        <3>2. QED
            BY <2>3, <3>1
    <2>6. PauseInv' /\ BeforeAnyOrder' /\ RowsInv'
        BY <1>1, <2>2, <2>4 DEF PauseInv, BeforeAnyOrder, RowsInv, RowReasons
    <2>7. CopyInv'
        BY <1>1, <2>2, <2>5 DEF CopyInv, WindowOpen
    <2>8. Safe'
        BY <1>1, <2>2 DEF Safe, Lives, Durable, PassOver, WindowOpen
    <2>9. QED
        BY <2>6, <2>7, <2>8 DEF KeptInv
<1>4. CASE PauseStep
    <2>1. UNCHANGED <<clock, fires, due, order, held, owed, pc, rec, todo, hand>>
        BY <1>4 DEF PauseStep, PauseArm, PauseClear, jobVars
    <2>2. PauseInv'
        <3>1. PICK p \in Pauses : PauseArm(p) \/ PauseClear(p)
            BY <1>4 DEF PauseStep
        <3>2. p = "ma"
            BY <1>1, <3>1 DEF PauseArm, PauseClear, PauseInv, Pauses, OneHold
        <3>3. \/ Alignment = TRUE /\ pause' = [pause EXCEPT !["ma"] = NotAfter]
              \/ pause' = [pause EXCEPT !["ma"] = clock]
            BY <3>1, <3>2 DEF PauseArm, PauseClear, PauseEnd, HeldFaultAssumption
        <3>4. QED
            BY <1>1, <2>1, <3>3 DEF PauseInv, WorldType, Pauses
    <2>3. BeforeAnyOrder' /\ RowsInv' /\ CopyInv'
        BY <1>1, <2>1 DEF BeforeAnyOrder, RowsInv, RowReasons, CopyInv, Fresh, WindowOpen
    <2>4. Safe'
        BY <1>1, <2>1 DEF Safe, Lives, Durable, PassOver, WindowOpen
    <2>5. QED
        BY <2>2, <2>3, <2>4 DEF KeptInv
<1>5. CASE Tick
    <2>1. /\ clock' = clock + 1 /\ due'["watch"] = Passes /\ due["watch"] = 0
          /\ \A j \in Jobs : pc[j] = "idle"
          /\ UNCHANGED <<pause, fires, order, held, owed, pc, rec, todo, hand>>
        BY <1>1, <1>5 DEF Tick, jobVars
    <2>2. WindowOpen' => WindowOpen
        BY <1>1, <2>1 DEF WindowOpen
    <2>3. PassOver /\ ~PassOver'
        BY <1>1, <2>1 DEF PassOver
    <2>4. ASSUME NEW r \in held, Lives(r) PROVE Lives(r)'
        <3>1. Durable(r)
            BY <2>3, <2>4 DEF Lives
        <3>2. CASE r.until >= NotAfter
            BY <3>2 DEF Lives, Durable
        <3>3. ASSUME Closed # {}, NEW k \in Nat, clock < k, k < r.until, k \notin Closed PROVE Lives(r)'
            <4>1. CASE k = clock + 1
                BY <2>1, <2>3, <3>3, <4>1 DEF Lives
            <4>2. CASE k # clock + 1
                BY <1>1, <2>1, <3>3, <4>2 DEF Lives, Durable
            <4>3. QED
                BY <4>1, <4>2
        <3>4. QED
            BY <3>1, <3>2, <3>3 DEF Durable
    <2>5. Safe'
        BY <1>1, <2>1, <2>2, <2>4 DEF Safe
    <2>6. PauseInv'
        BY <1>1, <2>1 DEF PauseInv, WorldType, Pauses
    <2>7. BeforeAnyOrder' /\ RowsInv' /\ CopyInv'
        BY <1>1, <2>1 DEF BeforeAnyOrder, RowsInv, RowReasons, CopyInv, Fresh
    <2>8. QED
        BY <2>5, <2>6, <2>7 DEF KeptInv
<1>6. CASE Crash
    <2>1. /\ \A j \in Jobs : pc'[j] = "idle" /\ rec'[j] = {} /\ todo'[j] = {}
          /\ due'["watch"] = Passes
          /\ UNCHANGED <<clock, pause, fires, order, held, owed>>
        BY <1>1, <1>6 DEF Crash
    <2>2. \A r \in held : Lives(r) => Lives(r)'
        BY <1>1, <2>1 DEF Lives, Durable, PassOver
    <2>3. Safe'
        BY <1>1, <2>1, <2>2 DEF Safe, WindowOpen
    <2>4. PauseInv' /\ BeforeAnyOrder' /\ RowsInv' /\ CopyInv'
        BY <1>1, <2>1 DEF PauseInv, BeforeAnyOrder, RowsInv, RowReasons, CopyInv, Fresh
    <2>5. QED
        BY <2>3, <2>4 DEF KeptInv
<1>7. QED
    BY <1>2, <1>3, <1>4, <1>5, <1>6

LEMMA KeptStep == TypeInv /\ OneHold /\ KeptInv /\ [Next]_vars => KeptInv'
<1> SUFFICES ASSUME TypeInv, OneHold, KeptInv, [Next]_vars PROVE KeptInv'
    OBVIOUS
<1>1. ~WidenStep /\ ~ControlStep
    BY DEF OneHold, KeptInv, BeforeAnyOrder, WidenStep, WidenRead, WidenStore, WidenAmend, ControlStep,
       PromoteRead, PromoteClearRead, PromoteClearWrite, PromotePlace, PromotePark, Start
<1>2. QED
    BY <1>1, WatchKept, EngineKept, WorldKept DEF Next

LEMMA KeptInit == Init => KeptInv
<1> SUFFICES ASSUME Init PROVE KeptInv
    OBVIOUS
<1>1. PauseInv
    BY DEF Init, PauseInv, Pauses
<1>2. BeforeAnyOrder /\ RowsInv /\ CopyInv /\ Safe
    BY DEF Init, Jobs, BeforeAnyOrder, RowsInv, CopyInv, Safe, Fresh
<1>3. QED
    BY <1>1, <1>2 DEF KeptInv

\* While its alert window is open, an order the watcher has pulled is on a row
\* that is still there, or on the list of the restore that runs: rail 1 (store
\* before cancel), rail 6 (restore before clear), the TTL floor of a hold and
\* the protection of an alignment pause together, whatever crashes and whatever
\* cancel, lookup or amend fails.  (Each hypothesis is needed: see the README.)
THEOREM PulledOrdersKept == OneHold => (Spec => []PulledOrderKept)
<1> SUFFICES ASSUME OneHold PROVE Spec => []PulledOrderKept
    OBVIOUS
<1>1. TypeInv /\ KeptInv /\ [Next]_vars => KeptInv'
    BY KeptStep
<1>2. TypeInv /\ KeptInv => PulledOrderKept
    <2> SUFFICES ASSUME TypeInv, KeptInv, WindowOpen, owed # {}
                 PROVE  owed \subseteq UNION {r.cancelled : r \in Visible}
        BY DEF PulledOrderKept, WindowOpen
    <2>1. PICK r \in Visible : owed \subseteq r.cancelled
        BY OwedIsVisible DEF KeptInv
    <2>2. QED
        BY <2>1
<1>3. Init => KeptInv
    BY KeptInit
<1>4. QED
    BY <1>1, <1>2, <1>3, TypeAlways, PTL DEF Spec

=============================================================================
