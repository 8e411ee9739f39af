-------------------------- MODULE HeldTrade_proofs --------------------------
(* Theorems about HeldTrade, for every value of its constants. *)
EXTENDS HeldTrade, FiniteSetTheorems, TLAPS

-----------------------------------------------------------------------------
(* Type correctness.  A table with one row per trade and a job with one     *)
(* copy of it: "at most one" is said without counting.                      *)
OneRow(S) == S = {} \/ \E r \in Record : S = {r}

WorldType ==
    /\ clock \in Nat /\ fires \in Nat
    /\ pause \in [Pauses -> Nat]
    /\ due \in [Scheduled -> 0..Passes]

BrokerType ==
    /\ order \in [Orders -> OrderStates]
    /\ stop \in [Orders -> Nat]
    /\ owed \subseteq Orders

JobType ==
    /\ pc \in [Jobs -> JobStates]
    /\ rec \in [Jobs -> SUBSET Record] /\ \A j \in Jobs : OneRow(rec[j])
    /\ todo \in [Jobs -> SUBSET Orders]
    /\ hand \in [Jobs -> SUBSET Orders]
    /\ promo \in SUBSET {"fresh", "replacing"}

TypeInv == WorldType /\ BrokerType /\ JobType /\ OneRow(held)

LEMMA CountsOne ==
    ASSUME NEW S, OneRow(S)
    PROVE  S \subseteq Record /\ Cardinality(S) <= 1
<1>1. CASE S = {}
    BY <1>1, FS_EmptySet
<1>2. ASSUME NEW r \in Record, S = {r} PROVE S \subseteq Record /\ Cardinality(S) <= 1
    BY <1>2, FS_Singleton
<1>3. QED
    BY <1>1, <1>2 DEF OneRow

LEMMA TypeInvTypes == TypeInv => TypeOK
<1> SUFFICES ASSUME TypeInv PROVE TypeOK
    OBVIOUS
<1>1. held \subseteq Record /\ Cardinality(held) <= 1
    BY CountsOne DEF TypeInv
<1>2. \A j \in Jobs : Cardinality(rec[j]) <= 1
    BY CountsOne DEF TypeInv, JobType
<1>3. QED
    BY <1>1, <1>2 DEF TypeInv, TypeOK, WorldType, BrokerType, JobType

\* The clock of a block: a number, whatever hour it is asked for.
LEMMA TtlType ==
    ASSUME NEW t
    PROVE  BlockHours(t) \in Nat /\ SpreadBlockTtl(t) \in Nat /\ SpreadBlockTtl(t) >= Grace
<1> DEFINE run == {h \in Spread : Hour(t) <= h /\ Hour(t)..h \subseteq Spread}
<1>1. IsFiniteSet(run)
    BY TimeAssumption, FS_Subset
<1>2. Cardinality(run) \in Nat
    BY <1>1, FS_CardinalityType
<1>3. BlockHours(t) \in Nat
    BY <1>2 DEF BlockHours
<1>4. QED
    BY <1>3, TimeAssumption DEF SpreadBlockTtl

LEMMA Times ==
    ASSUME NEW a \in Nat, NEW b \in Nat
    PROVE  Later(a, b) \in Nat /\ Later(a, b) >= a /\ Later(a, b) >= b /\ Later(a, b) \in {a, b}
BY DEF Later

\* What each way to change a copy of the row returns.
LEMMA RowKept ==
    ASSUME WorldType, NEW r \in Record, NEW u \in Nat
    PROVE  /\ [r EXCEPT !.until = u] \in Record
           /\ Left(r) \in Nat
           /\ HoldTtl(r) \in Nat /\ HoldTtl(r) >= Grace /\ HoldTtl(r) >= Left(r)
<1>1. [r EXCEPT !.until = u] \in Record
    BY DEF Record
<1>2. r.opened \in Nat /\ r.expires \in Nat
    BY DEF Record
<1>3. Left(r) \in Nat
    BY <1>2 DEF Left, WorldType
<1>4. SpreadBlockTtl(r.opened) \in Nat /\ SpreadBlockTtl(r.opened) >= Grace
    BY TtlType
<1>5. QED
    BY <1>1, <1>3, <1>4, Times, TimeAssumption DEF HoldTtl

LEMMA BlankRow ==
    ASSUME WorldType, NEW end \in Nat
    PROVE  /\ Blank(end) \in Record
           /\ ~Blank(end).applied /\ Blank(end).holders = {} /\ Blank(end).cancelled = {}
           /\ Blank(end).stops = {} /\ Blank(end).opened = clock /\ Blank(end).expires = end
BY DEF Blank, Record, WorldType

LEMMA OrBlankRow ==
    ASSUME WorldType, NEW S, OneRow(S), NEW end \in Nat
    PROVE  /\ OrBlank(S, end) \in Record
           /\ S = {} => OrBlank(S, end) = Blank(end)
           /\ \A r \in S : OrBlank(S, end) = r
<1>1. CASE S = {}
    BY <1>1, BlankRow DEF OrBlank
<1>2. ASSUME NEW r \in Record, S = {r} PROVE OrBlank(S, end) = r
    BY <1>2 DEF OrBlank
<1>3. QED
    BY <1>1, <1>2 DEF OneRow

LEMMA MergedRow ==
    ASSUME NEW r \in Record, NEW o \in Orders, NEW why \in SUBSET Reasons
    PROVE  /\ Merged(r, o, why) \in Record /\ Merged(r, o, why).applied
           /\ Merged(r, o, why).holders = r.holders \cup why
           /\ Merged(r, o, why).cancelled = r.cancelled \cup {o}
           /\ Merged(r, o, why).stops = r.stops
           /\ Merged(r, o, why).opened = r.opened
<1> DEFINE ends == r.opened + SpreadBlockTtl(r.opened)
           names == r.holders \cup why
           ids == r.cancelled \cup {o}
<1>1. r.opened \in Nat /\ r.holders \in SUBSET Reasons /\ r.cancelled \in SUBSET Orders
    BY DEF Record
<1>2. ends \in Nat /\ names \in SUBSET Reasons /\ ids \in SUBSET Orders
    BY <1>1, TtlType
<1>3. Merged(r, o, why) =
         [r EXCEPT !.applied = TRUE, !.holders = names, !.cancelled = ids, !.expires = ends]
    BY DEF Merged
<1> HIDE DEF ends, names, ids
<1>4. Merged(r, o, why) \in Record /\ Merged(r, o, why).applied
      /\ Merged(r, o, why).holders = names /\ Merged(r, o, why).cancelled = ids
      /\ Merged(r, o, why).stops = r.stops /\ Merged(r, o, why).opened = r.opened
    BY <1>2, <1>3 DEF Record
<1>5. QED
    BY <1>4 DEF names, ids

LEMMA ProtectedRow ==
    ASSUME WorldType, NEW r \in Record
    PROVE  /\ Protected(r) \in Record
           /\ Protected(r).applied = r.applied /\ Protected(r).cancelled = r.cancelled
           /\ Protected(r).stops = r.stops /\ Protected(r).opened = r.opened
           /\ Protected(r).parked = r.parked
           /\ Protected(r).holders \in {r.holders, r.holders \cup {"MaAlignment"}}
           /\ Protected(r).expires >= r.expires
           /\ AlignmentEpisode(r) => /\ "MaAlignment" \in Protected(r).holders
                                     /\ Protected(r).expires >= pause["ma"]
           /\ ~AlignmentEpisode(r) => Protected(r) = r
<1> DEFINE ends == Later(r.expires, Later(pause["ma"], pause["news"]))
<1>1. /\ ends \in Nat /\ ends >= r.expires /\ ends >= pause["ma"]
    <2>1. pause["ma"] \in Nat /\ pause["news"] \in Nat /\ r.expires \in Nat
        BY DEF WorldType, Pauses, Record
    <2>2. QED
        BY <2>1 DEF Later
<1>2. Protected(r) = IF ~AlignmentEpisode(r) THEN r
                     ELSE [r EXCEPT !.holders = @ \cup {"MaAlignment"}, !.expires = ends]
    BY DEF Protected
<1> HIDE DEF ends
<1>3. r.holders \cup {"MaAlignment"} \in SUBSET Reasons
    BY DEF Reasons, Record
<1>4. CASE AlignmentEpisode(r)
    <2> DEFINE names == r.holders \cup {"MaAlignment"}
    <2>1. Protected(r) = [r EXCEPT !.holders = names, !.expires = ends]
        BY <1>2, <1>4
    <2>2. names \in SUBSET Reasons
        BY <1>3
    <2> HIDE DEF names
    <2>3. /\ Protected(r) \in Record /\ Protected(r).applied = r.applied
          /\ Protected(r).cancelled = r.cancelled /\ Protected(r).stops = r.stops
          /\ Protected(r).opened = r.opened /\ Protected(r).parked = r.parked
          /\ Protected(r).holders = names /\ Protected(r).expires = ends
        BY <1>1, <2>1, <2>2 DEF Record
    <2>4. QED
        BY <1>1, <1>4, <2>3 DEF names
<1>5. CASE ~AlignmentEpisode(r)
    BY <1>2, <1>5 DEF Record
<1>6. QED
    BY <1>4, <1>5

LEMMA ParkedRow ==
    ASSUME WorldType, NEW S, OneRow(S), NEW kind \in {"fresh", "replacing"}
    PROVE  /\ ParkedOnto(S, kind) \in Record
           /\ ParkedOnto(S, kind).applied = OrBlank(S, NotAfter).applied
           /\ ParkedOnto(S, kind).holders = OrBlank(S, NotAfter).holders
           /\ ParkedOnto(S, kind).cancelled = OrBlank(S, NotAfter).cancelled
           /\ ParkedOnto(S, kind).stops = OrBlank(S, NotAfter).stops
           /\ ParkedOnto(S, kind).opened = OrBlank(S, NotAfter).opened
           /\ ParkedOnto(S, kind).expires >= NotAfter
<1> DEFINE b == OrBlank(S, NotAfter)
           end == Later(b.expires, NotAfter)
<1>1. b \in Record /\ NotAfter \in Nat
    BY OrBlankRow, TimeAssumption
<1> HIDE DEF b
<1>2. end \in Nat /\ end >= NotAfter
    BY <1>1, Times DEF Record
<1>3. ParkedOnto(S, kind) = [b EXCEPT !.parked = {kind}, !.expires = end]
    BY DEF ParkedOnto, b
<1> HIDE DEF end
<1>4. {kind} \in SUBSET {"fresh", "replacing"}
    OBVIOUS
<1> DEFINE k == {kind}
<1> HIDE DEF k
<1>5. ParkedOnto(S, kind) = [b EXCEPT !.parked = k, !.expires = end] /\ k \in SUBSET {"fresh", "replacing"}
    BY <1>3, <1>4 DEF k
<1>6. QED
    BY <1>1, <1>2, <1>5 DEF Record, b

LEMMA VisibleRow ==
    ASSUME OneRow(held)
    PROVE  OneRow(Visible) /\ \A r \in Visible : r \in Record /\ held = {r} /\ r.until > clock
BY DEF OneRow, Visible

\* A write leaves the one row it wrote, visible for as long as it asked.
LEMMA SavedRow ==
    ASSUME WorldType, NEW r \in Record, NEW ttl \in Nat, Saved(r, ttl)
    PROVE  \E w \in Record :
              /\ held' = {w} /\ w = [r EXCEPT !.until = w.until]
              /\ w.until > clock /\ w.until >= clock + ttl
<1> DEFINE u == clock + Later(ttl, 1)
<1>1. u \in Nat /\ u > clock /\ u >= clock + ttl
    BY DEF WorldType, Later
<1>2. held' = {[r EXCEPT !.until = u]}
    BY DEF Saved
<1> HIDE DEF u
<1>3. [r EXCEPT !.until = u] \in Record /\ [r EXCEPT !.until = u].until = u
    BY <1>1 DEF Record
<1>4. QED
    BY <1>1, <1>2, <1>3

LEMMA RowWritten ==
    ASSUME WorldType, OneRow(held), NEW r \in Record, NEW ttl \in Nat,
           Saved(r, ttl) \/ WriteFails
    PROVE  OneRow(held)'
BY SavedRow DEF OneRow, WriteFails

LEMMA OneCopy == \A r \in Record : OneRow({r})
BY DEF OneRow

\* A job moves on with another copy and other orders to handle.
LEMMA JobMoves ==
    ASSUME JobType, NEW j \in Jobs, NEW s \in JobStates, pc' = [pc EXCEPT ![j] = s] \/ pc' = pc,
           rec' = rec \/ \E S : OneRow(S) /\ rec' = [rec EXCEPT ![j] = S],
           todo' = todo \/ \E T \in SUBSET Orders : todo' = [todo EXCEPT ![j] = T],
           hand' = hand \/ \E T \in SUBSET Orders : hand' = [hand EXCEPT ![j] = T],
           promo' \in SUBSET {"fresh", "replacing"}
    PROVE  JobType'
<1>1. rec' \in [Jobs -> SUBSET Record] /\ \A i \in Jobs : OneRow(rec'[i])
    <2>1. \A S : OneRow(S) => S \in SUBSET Record
        BY DEF OneRow
    <2>2. QED
        BY <2>1 DEF JobType
<1>2. pc' \in [Jobs -> JobStates]
    BY DEF JobType
<1>3. todo' \in [Jobs -> SUBSET Orders] /\ hand' \in [Jobs -> SUBSET Orders]
    BY DEF JobType
<1>4. QED
    BY <1>1, <1>2, <1>3 DEF JobType

LEMMA JobEnds ==
    ASSUME JobType, NEW j \in Jobs, Done(j), promo' \in SUBSET {"fresh", "replacing"}
    PROVE  JobType'
<1>1. "idle" \in JobStates /\ OneRow({}) /\ {} \in SUBSET Orders
    BY DEF JobStates, OneRow
<1>2. QED
    BY <1>1, JobMoves DEF Done, Goto, Keep

LEMMA JobStarts ==
    ASSUME WorldType, NEW j \in Jobs, NEW s \in JobStates, Start(j, s), UNCHANGED <<clock, pause, fires>>
    PROVE  WorldType'
BY LoopAssumption, BoundAssumption DEF Start, WorldType

\* A placement gives the broker's book a new order and takes none back.
LEMMA Placement ==
    ASSUME BrokerType, PlacedAsReplacement \/ PlacedAsFresh
    PROVE  order' \in [Orders -> OrderStates]
BY DEF BrokerType, PlacedAsReplacement, PlacedAsFresh, Takes, OrderStates

LEMMA WatchTypes ==
    ASSUME TypeInv, WatchStep
    PROVE  TypeInv'
<1>1. "watch" \in Jobs /\ {"idle", "pass", "store", "cancel", "classify", "drop", "extend", "narrow",
         "restore", "park", "amend", "clear"} \subseteq JobStates
    BY DEF Jobs, JobStates
<1>2. /\ WorldType /\ BrokerType /\ JobType /\ OneRow(held) /\ OneRow(Visible) /\ OneRow({})
      /\ promo \in SUBSET {"fresh", "replacing"}
      /\ rec["watch"] \in SUBSET Record /\ OneRow(rec["watch"])
      /\ todo["watch"] \in SUBSET Orders /\ hand["watch"] \in SUBSET Orders
    BY <1>1, VisibleRow DEF TypeInv, JobType, OneRow
<1> USE <1>1, <1>2 DEF TypeInv
<1>3. ASSUME UNCHANGED worldVars PROVE WorldType'
    BY <1>3 DEF worldVars, WorldType
<1>4. ASSUME UNCHANGED <<order, stop, owed>> PROVE BrokerType'
    BY <1>4 DEF BrokerType
<1>5. CASE WatchStart
    <2>1. {o \in Orders : order[o] = "resting"} \in SUBSET Orders
        OBVIOUS
    <2>2. Start("watch", "pass") /\ UNCHANGED <<clock, pause, fires>>
        BY <1>5 DEF WatchStart
    <2>3. WorldType'
        BY <2>2, JobStarts
    <2>4. JobType'
        BY <1>5, <2>1, JobMoves DEF WatchStart, Start, Goto
    <2>5. QED
        BY <1>4, <1>5, <2>3, <2>4 DEF WatchStart
<1>6. CASE WatchHold
    <2>1. PICK o \in todo["watch"], paused \in {Paused, PausedAsRead} :
             /\ todo' = [todo EXCEPT !["watch"] = @ \ {o}]
             /\ \/ pc' = pc /\ UNCHANGED <<rec, hand>>
                \/ /\ Keep("watch", {Protected(Merged(OrBlank(Visible, clock), o,
                                                      HoldReasons(paused)))})
                   /\ hand' = [hand EXCEPT !["watch"] = {o}]
                   /\ Goto("watch", "store")
        BY <1>6 DEF WatchHold
    <2>2. OrBlank(Visible, clock) \in Record
        BY OrBlankRow DEF WorldType
    <2>3. HoldReasons(paused) \in SUBSET Reasons
        BY DEF HoldReasons, Reasons
    <2>4. Protected(Merged(OrBlank(Visible, clock), o, HoldReasons(paused))) \in Record
        BY <2>2, <2>3, MergedRow, ProtectedRow
    <2>5. todo["watch"] \ {o} \in SUBSET Orders /\ {o} \in SUBSET Orders
        BY <2>1
    <2>6. JobType'
        BY <1>6, <2>1, <2>4, <2>5, JobMoves, OneCopy DEF Keep, Goto, WatchHold
    <2>7. QED
        BY <1>3, <1>4, <1>6, <2>6 DEF WatchHold
<1>7. CASE WatchStore
    <2>1. OneRow(held)'
        BY <1>7, RowKept, RowWritten DEF WatchStore
    <2>2. JobType'
        BY <1>7, JobMoves DEF WatchStore, Goto
    <2>3. QED
        BY <1>3, <1>4, <1>7, <2>1, <2>2 DEF WatchStore
<1>8. CASE WatchCancel
    <2>1. BrokerType'
        BY <1>8 DEF WatchCancel, BrokerType, OrderStates
    <2>2. JobType'
        BY <1>8, JobMoves DEF WatchCancel, Goto
    <2>3. QED
        BY <1>3, <1>8, <2>1, <2>2 DEF WatchCancel
<1>9. CASE WatchClassify
    <2>1. JobType'
        BY <1>9, JobMoves DEF WatchClassify, Goto
    <2>2. QED
        BY <1>3, <1>4, <1>9, <2>1 DEF WatchClassify
<1>10. CASE WatchDrop
    <2>1. PICK r \in rec["watch"] :
             LET pruned == [r EXCEPT !.cancelled = @ \ hand["watch"]]
             IN  Deleted \/ Saved(pruned, HoldTtl(r)) \/ WriteFails
        BY <1>10 DEF WatchDrop
    <2>2. [r EXCEPT !.cancelled = @ \ hand["watch"]] \in Record
        BY DEF Record
    <2>3. OneRow(held)'
        BY <2>1, <2>2, RowKept, RowWritten DEF Deleted
    <2>4. JobType'
        BY <1>10, JobMoves DEF WatchDrop, Goto
    <2>5. QED
        BY <1>3, <1>4, <1>10, <2>3, <2>4 DEF WatchDrop
<1>11. \A r \in Record : r.cancelled \in SUBSET Orders
    BY DEF Record
<1>12. ASSUME NEW r \in Record, Restoring(r), promo' = promo PROVE JobType'
    <2>1. r.cancelled \in SUBSET Orders /\ {} \in SUBSET Orders
        BY <1>11
    <2>2. pc' = [pc EXCEPT !["watch"] = "restore"] /\ rec' = [rec EXCEPT !["watch"] = {}]
        BY <1>12 DEF Restoring, Goto, Keep
    <2>3. \E T \in SUBSET Orders : todo' = [todo EXCEPT !["watch"] = T]
        BY <1>12, <2>1 DEF Restoring
    <2>4. \E T \in SUBSET Orders : hand' = [hand EXCEPT !["watch"] = T]
        BY <1>12, <2>1 DEF Restoring
    <2>5. QED
        BY <1>12, <2>2, <2>3, <2>4, JobMoves
<1>13. CASE WatchRecover
    <2>1. JobType'
        <3>1. CASE Done("watch")
            BY <1>13, <3>1, JobEnds DEF WatchRecover
        <3>2. ASSUME NEW r \in Visible, Restoring(r) PROVE JobType'
            BY <1>12, <1>13, <3>2, VisibleRow DEF WatchRecover
        <3>3. ASSUME NEW r \in Visible, Goto("watch", "extend"), Keep("watch", {Protected(r)}),
                     UNCHANGED <<todo, hand>>
              PROVE  JobType'
            BY <1>13, <3>3, VisibleRow, ProtectedRow, OneCopy, JobMoves DEF Goto, Keep, WatchRecover
        <3>4. ASSUME NEW r \in Visible, NEW calm \in {FALSE, CalmQuote}, NEW paused \in {Paused, PausedAsRead},
                     Goto("watch", "narrow"),
                     Keep("watch", {[r EXCEPT !.holders = Surviving(r, calm, paused)]}),
                     UNCHANGED <<todo, hand>>
              PROVE  JobType'
            <4>1. r \in Record /\ Surviving(r, calm, paused) \in SUBSET Reasons
                BY VisibleRow DEF Surviving, EffectiveHolders, Record, Reasons
            <4>2. [r EXCEPT !.holders = Surviving(r, calm, paused)] \in Record
                BY <4>1 DEF Record
            <4>3. QED
                BY <1>13, <3>4, <4>2, OneCopy, JobMoves DEF Goto, Keep, WatchRecover
        <3>5. QED
            BY <1>13, <3>1, <3>2, <3>3, <3>4 DEF WatchRecover
    <2>2. QED
        BY <1>3, <1>4, <1>13, <2>1 DEF WatchRecover
<1>14. CASE WatchExtend
    <2>1. OneRow(held)'
        BY <1>14, RowKept, RowWritten DEF WatchExtend
    <2>2. QED
        BY <1>3, <1>4, <1>14, <2>1, JobEnds DEF WatchExtend
<1>15. CASE WatchNarrow
    <2>1. OneRow(held)'
        BY <1>15, TtlType, RowWritten DEF WatchNarrow
    <2>2. JobType'
        BY <1>12, <1>15, JobEnds DEF WatchNarrow
    <2>3. QED
        BY <1>3, <1>4, <1>15, <2>1, <2>2 DEF WatchNarrow
<1>16. CASE WatchRestore
    <2>1. PICK o \in todo["watch"] :
             /\ todo' = [todo EXCEPT !["watch"] = @ \ {o}]
             /\ owed' = owed \ {o}
             /\ \/ UNCHANGED <<order, pc, rec>>
                \/ PlacedAsReplacement /\ UNCHANGED <<pc, rec>>
                \/ /\ Goto("watch", "park") /\ Keep("watch", {ParkedOnto(Visible, "replacing")})
                   /\ UNCHANGED order
        BY <1>16 DEF WatchRestore
    <2>2. BrokerType'
        BY <1>16, <2>1, Placement DEF BrokerType, WatchRestore
    <2>3. todo["watch"] \ {o} \in SUBSET Orders
        OBVIOUS
    <2>4. OneRow({ParkedOnto(Visible, "replacing")})
        BY ParkedRow, OneCopy
    <2>5. JobType'
        BY <1>16, <2>1, <2>3, <2>4, JobMoves DEF Goto, Keep, WatchRestore
    <2>6. QED
        BY <1>3, <1>16, <2>2, <2>5 DEF WatchRestore
<1>17. CASE WatchPark
    <2>1. OneRow(held)'
        BY <1>17, RowKept, RowWritten DEF WatchPark
    <2>2. JobType'
        BY <1>17, JobMoves DEF WatchPark, Goto
    <2>3. QED
        BY <1>3, <1>4, <1>17, <2>1, <2>2 DEF WatchPark
<1>18. CASE WatchFinish
    <2>1. JobType'
        BY <1>18, JobEnds, JobMoves DEF WatchFinish, Goto, Keep
    <2>2. QED
        BY <1>3, <1>4, <1>18, <2>1 DEF WatchFinish
<1>19. CASE WatchAmend
    <2>1. PICK r \in rec["watch"] :
            \/ stop' = [o \in Orders |->
                  IF order[o] = "open" /\ \E s \in r.stops : s[1] = o /\ s[2] < stop[o]
                  THEN (CHOOSE s \in r.stops : s[1] = o)[2] ELSE stop[o]]
            \/ stop' = stop
        BY <1>19 DEF WatchAmend
    <2>2. \A o \in Orders : (\E s \in r.stops : s[1] = o) => (CHOOSE s \in r.stops : s[1] = o)[2] \in Nat
        BY DEF Record
    <2>3. BrokerType'
        BY <1>19, <2>1, <2>2 DEF WatchAmend, BrokerType
    <2>4. JobType'
        BY <1>19, JobMoves DEF WatchAmend, Goto
    <2>5. QED
        BY <1>3, <1>19, <2>3, <2>4 DEF WatchAmend
<1>20. CASE WatchClear
    BY <1>3, <1>4, <1>20, JobEnds DEF WatchClear, Deleted, WriteFails
<1>21. QED
    BY <1>5, <1>6, <1>7, <1>8, <1>9, <1>10, <1>13, <1>14, <1>15, <1>16, <1>17, <1>18, <1>19, <1>20
       DEF WatchStep

LEMMA WidenTypes ==
    ASSUME TypeInv, WidenStep
    PROVE  TypeInv'
<1>1. "widen" \in Jobs /\ {"idle", "store", "amend"} \subseteq JobStates
    BY DEF Jobs, JobStates
<1>2. /\ WorldType /\ BrokerType /\ JobType /\ OneRow(held) /\ OneRow({})
      /\ promo \in SUBSET {"fresh", "replacing"}
      /\ rec["widen"] \in SUBSET Record /\ hand["widen"] \in SUBSET Orders
    BY <1>1 DEF TypeInv, JobType, OneRow
<1> USE <1>1, <1>2 DEF TypeInv
<1>3. ASSUME UNCHANGED worldVars PROVE WorldType'
    BY <1>3 DEF worldVars, WorldType
<1>4. ASSUME UNCHANGED <<order, stop, owed>> PROVE BrokerType'
    BY <1>4 DEF BrokerType
<1>5. CASE WidenRead
    <2>1. PICK s \in {"idle", "store"} : Start("widen", s)
        BY <1>5 DEF WidenRead
    <2>2. WorldType'
        BY <1>5, <2>1, JobStarts DEF WidenRead
    <2>3. ASSUME NEW o \in Orders,
                 Keep("widen", {[Blank(clock + SpreadBlockTtl(clock)) EXCEPT !.applied = TRUE,
                                    !.holders = {"SpreadHour"}, !.stops = {<<o, stop[o]>>}]}),
                 hand' = [hand EXCEPT !["widen"] = {o}]
          PROVE  JobType'
        <3> DEFINE seen == {<<o, stop[o]>>}
                   w == [Blank(clock + SpreadBlockTtl(clock)) EXCEPT !.applied = TRUE,
                            !.holders = {"SpreadHour"}, !.stops = seen]
        <3>1. clock + SpreadBlockTtl(clock) \in Nat
            BY TtlType DEF WorldType
        <3>2. Blank(clock + SpreadBlockTtl(clock)) \in Record
            BY <3>1, BlankRow
        <3>3. seen \in SUBSET (Orders \X Nat)
            BY DEF BrokerType
        <3> HIDE DEF seen
        <3>4. {"SpreadHour"} \in SUBSET Reasons
            BY DEF Reasons
        <3>5. w \in Record
            BY <3>2, <3>3, <3>4 DEF Record
        <3>6. OneRow({w})
            BY <3>5, OneCopy
        <3>7. Keep("widen", {w})
            BY <2>3 DEF seen
        <3> HIDE DEF w
        <3>8. {o} \in SUBSET Orders
            OBVIOUS
        <3>9. QED
            BY <1>5, <2>1, <2>3, <3>6, <3>7, <3>8, JobMoves DEF Start, Goto, Keep, WidenRead
    <2>4. ASSUME UNCHANGED <<rec, hand>> PROVE JobType'
        BY <1>5, <2>1, <2>4, JobMoves DEF Start, Goto, WidenRead
    <2>5. JobType'
        BY <1>5, <2>3, <2>4 DEF WidenRead
    <2>6. QED
        BY <1>4, <1>5, <2>2, <2>5 DEF WidenRead
<1>6. CASE WidenStore
    <2>1. SpreadBlockTtl(clock) \in Nat
        BY TtlType
    <2>2. OneRow(held)'
        BY <1>6, <2>1, RowWritten DEF WidenStore
    <2>3. JobType'
        BY <1>6, JobMoves, JobEnds DEF WidenStore, Goto
    <2>4. QED
        BY <1>3, <1>4, <1>6, <2>2, <2>3 DEF WidenStore
<1>7. CASE WidenAmend
    <2>1. PICK r \in rec["widen"], o \in hand["widen"] :
            \/ \E s \in r.stops : stop' = [stop EXCEPT ![o] = s[2] + 1]
            \/ stop' = stop
        BY <1>7 DEF WidenAmend
    <2>2. \A s \in r.stops : s[2] + 1 \in Nat
        BY DEF Record
    <2>3. BrokerType'
        BY <1>7, <2>1, <2>2 DEF BrokerType, WidenAmend
    <2>4. QED
        BY <1>3, <1>7, <2>3, JobEnds DEF WidenAmend
<1>8. QED
    BY <1>5, <1>6, <1>7 DEF WidenStep

LEMMA ControlTypes ==
    ASSUME TypeInv, ControlStep
    PROVE  TypeInv'
<1>1. "control" \in Jobs /\ {"idle", "clear", "write", "place", "park"} \subseteq JobStates
    BY DEF Jobs, JobStates
<1>2. /\ WorldType /\ BrokerType /\ JobType /\ OneRow(held) /\ OneRow(Visible) /\ OneRow({})
      /\ promo \in SUBSET {"fresh", "replacing"} /\ {} \in SUBSET {"fresh", "replacing"}
      /\ rec["control"] \in SUBSET Record
    BY <1>1, VisibleRow DEF TypeInv, JobType, OneRow
<1> USE <1>1, <1>2 DEF TypeInv
<1>3. ASSUME UNCHANGED worldVars PROVE WorldType'
    BY <1>3 DEF worldVars, WorldType
<1>4. ASSUME UNCHANGED <<order, stop, owed>> PROVE BrokerType'
    BY <1>4 DEF BrokerType
<1>5. CASE PromoteRead
    <2>1. PICK s \in {"idle", "clear"} : Start("control", s)
        BY <1>5 DEF PromoteRead
    <2>2. WorldType'
        BY <1>5, <2>1, JobStarts DEF PromoteRead
    <2>3. promo' \in SUBSET {"fresh", "replacing"}
        BY <1>5, VisibleRow DEF PromoteRead, Record
    <2>4. JobType'
        BY <1>5, <2>1, <2>3, JobMoves DEF Start, Goto, PromoteRead
    <2>5. QED
        BY <1>4, <1>5, <2>2, <2>4 DEF PromoteRead
<1>6. CASE PromoteClearRead
    BY <1>3, <1>4, <1>6, JobMoves DEF PromoteClearRead, Goto, Keep
<1>7. CASE PromoteClearWrite
    <2>1. ASSUME NEW r \in rec["control"], Saved([r EXCEPT !.parked = {}], Left(r)) PROVE OneRow(held)'
        <3> DEFINE k == [r EXCEPT !.parked = {}]
        <3>1. k \in Record
            BY DEF Record
        <3> HIDE DEF k
        <3>2. Left(r) \in Nat
            BY RowKept
        <3>3. Saved(k, Left(r))
            BY <2>1 DEF k
        <3>4. QED
            BY <3>1, <3>2, <3>3, RowWritten
    <2>2. OneRow(held)'
        BY <1>7, <2>1 DEF PromoteClearWrite, Deleted, WriteFails
    <2>3. JobType'
        BY <1>7, JobMoves, JobEnds DEF PromoteClearWrite, Goto
    <2>4. QED
        BY <1>3, <1>4, <1>7, <2>2, <2>3 DEF PromoteClearWrite
<1>8. CASE PromotePlace
    <2>1. order' \in [Orders -> OrderStates]
        BY <1>8, Placement DEF PromotePlace, PlacedAs, BrokerType
    <2>2. BrokerType'
        BY <1>8, <2>1 DEF PromotePlace, BrokerType
    <2>3. \A kind \in promo : OneRow({ParkedOnto(Visible, kind)})
        BY ParkedRow, OneCopy
    <2>4. JobType'
        BY <1>8, <2>3, JobMoves, JobEnds DEF PromotePlace, Goto, Keep
    <2>5. QED
        BY <1>3, <1>8, <2>2, <2>4 DEF PromotePlace
<1>9. CASE PromotePark
    <2>1. OneRow(held)'
        BY <1>9, RowKept, RowWritten DEF PromotePark
    <2>2. QED
        BY <1>3, <1>4, <1>9, <2>1, JobEnds DEF PromotePark
<1>10. QED
    BY <1>5, <1>6, <1>7, <1>8, <1>9 DEF ControlStep

LEMMA WorldTypes ==
    ASSUME TypeInv, EngineFire \/ EnginePark \/ BrokerStep \/ PauseStep \/ Tick \/ Crash
    PROVE  TypeInv'
<1>1. "engine" \in Jobs /\ {"idle", "park"} \subseteq JobStates
    BY DEF Jobs, JobStates
<1>2. /\ WorldType /\ BrokerType /\ JobType /\ OneRow(held) /\ OneRow(Visible) /\ OneRow({})
      /\ promo \in SUBSET {"fresh", "replacing"} /\ rec["engine"] \in SUBSET Record
    BY <1>1, VisibleRow DEF TypeInv, JobType, OneRow
<1> USE <1>1, <1>2 DEF TypeInv
<1>3. ASSUME UNCHANGED worldVars PROVE WorldType'
    BY <1>3 DEF worldVars, WorldType
<1>4. ASSUME UNCHANGED <<order, stop, owed>> PROVE BrokerType'
    BY <1>4 DEF BrokerType
<1>5. ASSUME UNCHANGED jobVars PROVE JobType'
    BY <1>5 DEF jobVars, JobType
<1>6. CASE EngineFire
    <2>1. BrokerType'
        BY <1>6, Placement DEF EngineFire, BrokerType
    <2>2. OneRow({ParkedOnto(Visible, "fresh")})
        BY ParkedRow, OneCopy
    <2>3. JobType'
        BY <1>6, <2>2, JobMoves DEF EngineFire, Goto, Keep
    <2>4. WorldType'
        BY <1>6 DEF EngineFire, WorldType
    <2>5. QED
        BY <1>6, <2>1, <2>3, <2>4 DEF EngineFire
<1>7. CASE EnginePark
    <2>1. OneRow(held)'
        BY <1>7, RowKept, RowWritten DEF EnginePark
    <2>2. QED
        BY <1>3, <1>4, <1>7, <2>1, JobEnds DEF EnginePark
<1>8. CASE BrokerStep
    <2>1. BrokerType'
        BY <1>8 DEF BrokerStep, BrokerFill, BrokerExit, BrokerType, OrderStates
    <2>2. QED
        BY <1>3, <1>5, <1>8, <2>1 DEF BrokerStep, BrokerFill, BrokerExit
<1>9. CASE PauseStep
    <2>1. \A p \in Pauses : PauseEnd(p) \in Nat
        BY TimeAssumption DEF PauseEnd, WorldType
    <2>2. WorldType'
        BY <1>9, <2>1 DEF PauseStep, PauseArm, PauseClear, WorldType
    <2>3. QED
        BY <1>4, <1>5, <1>9, <2>2 DEF PauseStep, PauseArm, PauseClear
<1>10. CASE Tick
    <2>1. WorldType'
        BY <1>10, BoundAssumption DEF Tick, WorldType
    <2>2. QED
        BY <1>4, <1>5, <1>10, <2>1 DEF Tick
<1>11. CASE Crash
    <2>1. WorldType'
        BY <1>11, BoundAssumption DEF Crash, WorldType
    <2>2. "idle" \in JobStates
        BY DEF JobStates
    <2>3. JobType'
        BY <1>11, <2>2 DEF Crash, JobType
    <2>4. QED
        BY <1>4, <1>11, <2>1, <2>3 DEF Crash
<1>12. QED
    BY <1>6, <1>7, <1>8, <1>9, <1>10, <1>11

LEMMA TypeInit == Init => TypeInv
<1> SUFFICES ASSUME Init PROVE TypeInv
    OBVIOUS
<1>1. WorldType
    BY BoundAssumption DEF Init, WorldType
<1>2. BrokerType
    BY DEF Init, BrokerType, OrderStates
<1>3. JobType
    BY DEF Init, JobType, JobStates, OneRow
<1>4. QED
    BY <1>1, <1>2, <1>3 DEF Init, TypeInv, OneRow

LEMMA TypeStep == TypeInv /\ [Next]_vars => TypeInv'
<1> SUFFICES ASSUME TypeInv, [Next]_vars PROVE TypeInv'
    OBVIOUS
<1>1. CASE UNCHANGED vars
    BY <1>1 DEF vars, worldVars, jobVars, TypeInv, WorldType, BrokerType, JobType
<1>2. QED
    BY <1>1, WatchTypes, WidenTypes, ControlTypes, WorldTypes DEF Next

LEMMA TypeAlways == Spec => []TypeInv
BY TypeInit, TypeStep, PTL DEF Spec

\* The types hold in every reachable state: one row per trade, and one copy
\* of it per job (the upserts of worker/src/pg.rs).
THEOREM TypeCorrect == Spec => []TypeOK
BY TypeAlways, TypeInvTypes, PTL

\* Two visible rows are the same.
LEMMA OneVisible ==
    ASSUME TypeInv
    PROVE  /\ \A r, w \in Visible : r = w
           /\ \A r \in Visible : r \in Record /\ r \in held
           /\ \A j \in Jobs : \A r, w \in rec[j] : r = w
           /\ \A j \in Jobs : \A r \in rec[j] : r \in Record
           /\ clock \in Nat /\ Jobs = {"watch", "widen", "control", "engine"}
<1>1. \A j \in Jobs : OneRow(rec[j])
    BY DEF TypeInv, JobType
<1>2. QED
    BY <1>1 DEF TypeInv, OneRow, Visible, WorldType, Jobs

-----------------------------------------------------------------------------
(* No double entry: of a trade that fires once, with no write lost, no       *)
(* answer of the broker lost and no promotion, the orders a hold has pulled  *)
(* and the orders at the broker never are there together, except while the   *)
(* watcher handles the very order it has stored.                             *)
Steady == Faults \subseteq {"pauses", "positions"} /\ MaxFires <= 1 /\ "control" \notin Scheduled

Live == {o \in Orders : order[o] \in {"resting", "open"}}
Pulled == {o \in Orders : \E r \in Visible : o \in r.cancelled}
Copied == {o \in Orders : \E r \in rec["watch"] : o \in r.cancelled}
AtMostOne(S) == \A a, b \in S : a = b

\* Only the watcher's copy ever carries a pulled order.
OthersCarryNone ==
    /\ pc["control"] = "idle"
    /\ \A j \in {"widen", "engine"} : \A r \in rec[j] : r.cancelled = {}

Few ==
    /\ AtMostOne(Live) /\ AtMostOne(Pulled) /\ AtMostOne(Copied)
    /\ AtMostOne(todo["watch"]) /\ AtMostOne(hand["watch"])

BeforeTheFire ==
    fires = 0 => /\ Live = {} /\ Pulled = {} /\ Copied = {}
                 /\ todo["watch"] = {} /\ hand["watch"] = {}

\* Where the watcher may meet a live order and a pulled one.
Apart ==
    /\ pc["watch"] \in {"idle", "pass", "store", "extend", "narrow"} /\ Live # {} => Pulled = {}
    /\ pc["watch"] \in {"extend", "narrow"} /\ Live # {} => Copied = {}
    /\ pc["watch"] = "pass" /\ todo["watch"] # {} => Pulled = {}
    /\ pc["watch"] = "store" => Pulled = {}
    /\ pc["watch"] \in {"store", "cancel", "classify", "drop"} =>
          Pulled \subseteq hand["watch"] /\ Copied \subseteq hand["watch"] /\ todo["watch"] = {}
    /\ pc["watch"] = "classify" => \A o \in hand["watch"] : order[o] # "resting"
    /\ pc["watch"] = "restore" /\ todo["watch"] # {} => Live = {}
    /\ pc["watch"] = "park" => todo["watch"] = {}

SingleInv == OthersCarryNone /\ Few /\ BeforeTheFire /\ Apart

\* How the pulled and the copied orders follow the writes and the reads.
LEMMA PulledFollows ==
    ASSUME TypeInv, clock' = clock
    PROVE  /\ held' = held => Pulled' = Pulled
           /\ Deleted => Pulled' = {}
           /\ \A r \in Record, ttl \in Nat : Saved(r, ttl) => Pulled' = r.cancelled
           /\ \A r \in Visible : Pulled = r.cancelled
           /\ \A end \in Nat : OrBlank(Visible, end).cancelled = Pulled
           /\ Visible = {} => Pulled = {}
<1>1. held' = held => Pulled' = Pulled
    BY DEF Pulled, Visible
<1>2. Deleted => Pulled' = {}
    BY DEF Deleted, Pulled, Visible
<1>3. ASSUME NEW r \in Record, NEW ttl \in Nat, Saved(r, ttl) PROVE Pulled' = r.cancelled
    <2>1. PICK w \in Record : held' = {w} /\ w = [r EXCEPT !.until = w.until] /\ w.until > clock
        BY <1>3, SavedRow DEF TypeInv
    <2>2. Visible' = {w} /\ w.cancelled = r.cancelled /\ w.cancelled \subseteq Orders
        BY <2>1 DEF Visible, Record
    <2>3. QED
        BY <2>2 DEF Pulled
<1>4. ASSUME NEW r \in Visible PROVE Pulled = r.cancelled
    <2>1. r \in Record /\ Visible = {r}
        BY VisibleRow DEF TypeInv, Visible
    <2>2. QED
        BY <2>1 DEF Pulled, Record
<1>5. Visible = {} => Pulled = {}
    BY DEF Pulled
<1>6. ASSUME NEW end \in Nat PROVE OrBlank(Visible, end).cancelled = Pulled
    <2>1. CASE Visible = {}
        BY <1>5, <2>1, BlankRow DEF OrBlank, TypeInv
    <2>2. ASSUME NEW r \in Visible PROVE OrBlank(Visible, end).cancelled = Pulled
        BY <1>4, <2>2, OrBlankRow, VisibleRow DEF TypeInv
    <2>3. QED
        BY <2>1, <2>2
<1>7. QED
    BY <1>1, <1>2, <1>3, <1>4, <1>5, <1>6

LEMMA CopiedFollows ==
    ASSUME TypeInv
    PROVE  /\ rec'["watch"] = rec["watch"] => Copied' = Copied
           /\ \A r \in rec["watch"] : r \in Record /\ Copied = r.cancelled
           /\ \A r \in Record : Keep("watch", {r}) => Copied' = r.cancelled
           /\ Keep("watch", {}) => Copied' = {}
           /\ Keep("watch", Visible) => Copied' = Pulled
<1>1. "watch" \in Jobs /\ rec \in [Jobs -> SUBSET Record] /\ OneRow(rec["watch"])
    BY DEF TypeInv, JobType, Jobs
<1>2. ASSUME NEW r \in rec["watch"] PROVE r \in Record /\ Copied = r.cancelled
    <2>1. r \in Record /\ rec["watch"] = {r}
        BY <1>1 DEF OneRow
    <2>2. QED
        BY <2>1 DEF Copied, Record
<1>3. ASSUME NEW r \in Record, Keep("watch", {r}) PROVE Copied' = r.cancelled
    <2>1. rec'["watch"] = {r} /\ r.cancelled \subseteq Orders
        BY <1>1, <1>3 DEF Keep, Record
    <2>2. QED
        BY <2>1 DEF Copied
<1>4. rec'["watch"] = rec["watch"] => Copied' = Copied
    BY DEF Copied
<1>5. Keep("watch", {}) => Copied' = {}
    BY <1>1 DEF Keep, Copied
<1>6. Keep("watch", Visible) => Copied' = Pulled
    BY <1>1 DEF Keep, Copied, Pulled
<1>7. QED
    BY <1>2, <1>3, <1>4, <1>5, <1>6

\* What a step of one job leaves alone of the others.
LEMMA OnlyOneJob ==
    ASSUME JobType, NEW j \in Jobs
    PROVE  /\ \A s : Goto(j, s) => pc'[j] = s /\ \A i \in Jobs \ {j} : pc'[i] = pc[i]
           /\ \A S : Keep(j, S) => rec'[j] = S /\ \A i \in Jobs \ {j} : rec'[i] = rec[i]
           /\ Done(j) => /\ pc'[j] = "idle" /\ rec'[j] = {} /\ todo'[j] = {} /\ hand'[j] = {}
                         /\ \A i \in Jobs \ {j} : /\ pc'[i] = pc[i] /\ rec'[i] = rec[i]
                                                  /\ todo'[i] = todo[i] /\ hand'[i] = hand[i]
BY DEF JobType, Goto, Keep, Done

LEMMA LiveFollows ==
    ASSUME TypeInv
    PROVE  /\ order' = order => Live' = Live
           /\ Live \subseteq Orders
           /\ \A o \in Orders : order' = [order EXCEPT ![o] = "gone"] => Live' = Live \ {o}
           /\ \A o \in Orders : order[o] \in {"resting", "open"} => o \in Live
           /\ PlacedAsReplacement /\ Live = {} => AtMostOne(Live')
           /\ PlacedAsFresh => AtMostOne(Live')
<1> USE DEF TypeInv, BrokerType
<1>1. order' = order => Live' = Live
    BY DEF Live
<1>2. ASSUME NEW o \in Orders, order' = [order EXCEPT ![o] = "gone"] PROVE Live' = Live \ {o}
    BY <1>2 DEF Live
<1>3. ASSUME PlacedAsReplacement, Live = {} PROVE AtMostOne(Live')
    <2>1. PICK n \in Orders : \A o \in Orders \ {n} : order'[o] = order[o]
        BY <1>3 DEF PlacedAsReplacement, Takes
    <2>2. \A o \in Live' : o = n
        BY <1>3, <2>1 DEF Live
    <2>3. QED
        BY <2>2 DEF AtMostOne
<1>4. ASSUME PlacedAsFresh PROVE AtMostOne(Live')
    <2>1. \A o \in Orders : order[o] # "open"
        BY <1>4 DEF PlacedAsFresh
    <2>2. PICK n \in Orders, s \in OrderStates :
             order' = [o \in Orders |->
                IF o = n THEN s ELSE IF order[o] = "resting" THEN "gone" ELSE order[o]]
        BY <1>4 DEF PlacedAsFresh
    <2>3. \A o \in Orders \ {n} : order'[o] \notin {"resting", "open"}
        BY <2>1, <2>2
    <2>4. \A o \in Live' : o = n
        BY <2>3 DEF Live
    <2>5. QED
        BY <2>4 DEF AtMostOne
<1>5. QED
    BY <1>1, <1>2, <1>3, <1>4 DEF Live

LEMMA WatchSingle ==
    ASSUME TypeInv, Steady, SingleInv, WatchStep
    PROVE  SingleInv'
<1>1. /\ WorldType /\ BrokerType /\ JobType /\ OneRow(held) /\ OneRow(Visible) /\ NotAfter \in Nat
      /\ {"watch", "widen", "control", "engine"} = Jobs
      /\ "write" \notin Faults /\ "read" \notin Faults /\ "lookup" \notin Faults
      /\ "cancel" \notin Faults /\ "answer" \notin Faults
    BY VisibleRow, TimeAssumption DEF TypeInv, Steady, Jobs
<1>2. /\ todo["watch"] \subseteq Orders /\ hand["watch"] \subseteq Orders
      /\ \A r \in rec["watch"] : r \in Record /\ Copied = r.cancelled
      /\ clock \in Nat
    BY <1>1, CopiedFollows DEF TypeInv, JobType, WorldType
<1>3. clock' = clock /\ fires' = fires
    BY DEF WatchStep, WatchStart, WatchHold, WatchStore, WatchCancel, WatchClassify, WatchDrop,
       WatchRecover, WatchExtend, WatchNarrow, WatchRestore, WatchPark, WatchFinish, WatchAmend,
       WatchClear, worldVars
<1>4. /\ held' = held => Pulled' = Pulled
      /\ Deleted => Pulled' = {}
      /\ \A r \in Record, ttl \in Nat : Saved(r, ttl) => Pulled' = r.cancelled
      /\ \A r \in Visible : r \in Record /\ Pulled = r.cancelled
      /\ \A end \in Nat : OrBlank(Visible, end).cancelled = Pulled /\ OrBlank(Visible, end) \in Record
      /\ Visible = {} => Pulled = {}
    BY <1>1, <1>3, PulledFollows, OrBlankRow, VisibleRow
<1>5. /\ rec' = rec => Copied' = Copied
      /\ \A r \in Record : Keep("watch", {r}) => Copied' = r.cancelled
      /\ Keep("watch", {}) => Copied' = {}
      /\ Keep("watch", Visible) => Copied' = Pulled
      /\ Done("watch") => Copied' = {}
    BY CopiedFollows DEF Done
<1>6. /\ order' = order => Live' = Live
      /\ \A o \in Orders : order[o] \in {"resting", "open"} => o \in Live
    BY LiveFollows
<1>7. /\ \A s : Goto("watch", s) => pc'["watch"] = s /\ pc'["control"] = pc["control"]
      /\ \A S : Keep("watch", S) => rec'["widen"] = rec["widen"] /\ rec'["engine"] = rec["engine"]
      /\ Done("watch") => /\ pc'["watch"] = "idle" /\ pc'["control"] = pc["control"]
                          /\ todo'["watch"] = {} /\ hand'["watch"] = {}
                          /\ rec'["widen"] = rec["widen"] /\ rec'["engine"] = rec["engine"]
    BY <1>1, OnlyOneJob
<1> DEFINE Goal == Few' /\ BeforeTheFire' /\ Apart'
<1>8. OthersCarryNone'
    <2>1. pc'["control"] = pc["control"] /\ rec'["widen"] = rec["widen"] /\ rec'["engine"] = rec["engine"]
        BY <1>7 DEF WatchStep, WatchStart, WatchHold, WatchStore, WatchCancel, WatchClassify, WatchDrop,
           WatchRecover, WatchExtend, WatchNarrow, WatchRestore, WatchPark, WatchFinish, WatchAmend,
           WatchClear, Start, Restoring
    <2>2. QED
        BY <2>1 DEF SingleInv, OthersCarryNone
<1> SUFFICES Goal
    BY <1>8 DEF SingleInv
<1>9. CASE WatchStart
    <2>1. /\ pc["watch"] = "idle" /\ pc'["watch"] = "pass" /\ UNCHANGED <<order, held, rec, hand>>
          /\ todo'["watch"] = {o \in Orders : order[o] = "resting"}
        BY <1>1, <1>7, <1>9 DEF WatchStart, Start, JobType
    <2>2. todo'["watch"] \subseteq Live
        BY <2>1 DEF Live
    <2>3. Live' = Live /\ Pulled' = Pulled /\ Copied' = Copied
        BY <1>4, <1>5, <1>6, <2>1
    <2>4. QED
        BY <1>3, <2>1, <2>2, <2>3 DEF SingleInv, Few, BeforeTheFire, Apart, AtMostOne
<1>10. CASE WatchHold
    <2>1. PICK o \in todo["watch"], paused \in {Paused, PausedAsRead} :
             /\ todo' = [todo EXCEPT !["watch"] = @ \ {o}]
             /\ \/ pc' = pc /\ UNCHANGED <<rec, hand>>
                \/ /\ Keep("watch", {Protected(Merged(OrBlank(Visible, clock), o,
                                                      HoldReasons(paused)))})
                   /\ hand' = [hand EXCEPT !["watch"] = {o}]
                   /\ Goto("watch", "store")
        BY <1>10 DEF WatchHold
    <2> DEFINE m == Merged(OrBlank(Visible, clock), o, HoldReasons(paused))
    <2>2. m \in Record /\ m.cancelled = Pulled \cup {o}
        BY <1>2, <1>4, MergedRow DEF HoldReasons, Reasons
    <2>3. Protected(m) \in Record /\ Protected(m).cancelled = m.cancelled
        BY <1>1, <2>2, ProtectedRow
    <2>4. pc["watch"] = "pass" /\ UNCHANGED <<order, held>> /\ todo'["watch"] = todo["watch"] \ {o}
        BY <1>1, <1>10, <2>1 DEF WatchHold, JobType
    <2> HIDE DEF m
    <2>5. Pulled = {} /\ todo'["watch"] = {} /\ Pulled' = Pulled /\ Live' = Live
        BY <1>4, <1>6, <2>1, <2>4 DEF SingleInv, Few, BeforeTheFire, Apart, AtMostOne
    <2>6. CASE pc' = pc /\ UNCHANGED <<rec, hand>>
        <3>1. Copied' = Copied
            BY <1>5, <2>6
        <3>2. QED
            BY <1>3, <2>4, <2>5, <2>6, <3>1 DEF SingleInv, Few, BeforeTheFire, Apart, AtMostOne
    <2>7. CASE /\ Keep("watch", {Protected(m)}) /\ hand' = [hand EXCEPT !["watch"] = {o}]
               /\ Goto("watch", "store")
        <3>1. Copied' = {o}
            BY <1>5, <2>2, <2>3, <2>5, <2>7
        <3>2. hand'["watch"] = {o} /\ pc'["watch"] = "store"
            BY <1>1, <1>7, <2>7 DEF JobType
        <3>3. fires # 0
            BY <2>1 DEF SingleInv, Few, BeforeTheFire, Apart, AtMostOne
        <3>4. QED
            BY <1>3, <2>4, <2>5, <3>1, <3>2, <3>3 DEF SingleInv, Few, BeforeTheFire, Apart, AtMostOne
    <2>8. QED
        BY <2>1, <2>6, <2>7 DEF m
<1>11. CASE WatchStore
    <2>1. PICK r \in rec["watch"] : Saved(r, HoldTtl(r)) /\ Goto("watch", "cancel")
        BY <1>1, <1>11 DEF WatchStore, WriteFails
    <2>2. Pulled' = Copied
        BY <1>1, <1>2, <1>4, <2>1, RowKept
    <2>3. pc["watch"] = "store" /\ pc'["watch"] = "cancel" /\ UNCHANGED <<order, rec, todo, hand>>
        BY <1>7, <1>11, <2>1 DEF WatchStore
    <2>4. Live' = Live /\ Copied' = Copied
        BY <1>5, <1>6, <2>3
    <2>5. QED
        BY <1>3, <2>2, <2>3, <2>4 DEF SingleInv, Few, BeforeTheFire, Apart, AtMostOne
<1>12. CASE WatchCancel
    <2>1. pc["watch"] = "cancel" /\ UNCHANGED <<held, rec, todo, hand>>
        BY <1>12 DEF WatchCancel
    <2>2. Pulled' = Pulled /\ Copied' = Copied
        BY <1>4, <1>5, <2>1
    <2>3. PICK o \in hand["watch"] :
             \/ /\ order[o] = "resting" /\ order' = [order EXCEPT ![o] = "gone"] /\ Goto("watch", "pass")
             \/ order[o] # "resting" /\ Goto("watch", "classify") /\ order' = order
        BY <1>1, <1>12 DEF WatchCancel
    <2>4. CASE order[o] = "resting" /\ order' = [order EXCEPT ![o] = "gone"] /\ Goto("watch", "pass")
        <3>1. o \in Live /\ Live' = Live \ {o} /\ pc'["watch"] = "pass"
            BY <1>2, <1>6, <1>7, <2>3, <2>4, LiveFollows
        <3>2. Live' = {}
            BY <3>1 DEF SingleInv, Few, BeforeTheFire, Apart, AtMostOne
        <3>3. QED
            BY <1>3, <2>1, <2>2, <3>1, <3>2 DEF SingleInv, Few, BeforeTheFire, Apart, AtMostOne
    <2>5. CASE order[o] # "resting" /\ Goto("watch", "classify") /\ order' = order
        <3>1. Live' = Live /\ pc'["watch"] = "classify"
            BY <1>6, <1>7, <2>5
        <3>2. \A p \in hand["watch"] : p = o
            BY <2>3 DEF SingleInv, Few, BeforeTheFire, Apart, AtMostOne
        <3>3. QED
            BY <1>3, <2>1, <2>2, <2>5, <3>1, <3>2 DEF SingleInv, Few, BeforeTheFire, Apart, AtMostOne
    <2>6. QED
        BY <2>3, <2>4, <2>5
<1>13. CASE WatchClassify
    <2>1. pc["watch"] = "classify" /\ UNCHANGED <<order, held, rec, todo, hand>>
          /\ \E o \in hand["watch"] : order[o] = "resting" \/ pc'["watch"] = "drop"
        BY <1>1, <1>7, <1>13 DEF WatchClassify
    <2>2. pc'["watch"] = "drop"
        BY <2>1 DEF SingleInv, Apart
    <2>3. Live' = Live /\ Pulled' = Pulled /\ Copied' = Copied
        BY <1>4, <1>5, <1>6, <2>1
    <2>4. QED
        BY <1>3, <2>1, <2>2, <2>3 DEF SingleInv, Few, BeforeTheFire, Apart, AtMostOne
<1>14. CASE WatchDrop
    <2>1. pc["watch"] = "drop" /\ pc'["watch"] = "pass" /\ UNCHANGED <<order, rec, todo, hand>>
        BY <1>7, <1>14 DEF WatchDrop
    <2>2. PICK r \in rec["watch"] :
             Deleted \/ Saved([r EXCEPT !.cancelled = @ \ hand["watch"]], HoldTtl(r))
        BY <1>1, <1>14 DEF WatchDrop, WriteFails
    <2> DEFINE p == [r EXCEPT !.cancelled = @ \ hand["watch"]]
    <2>3. p \in Record /\ p.cancelled = r.cancelled \ hand["watch"]
        BY <1>2 DEF Record
    <2> HIDE DEF p
    <2>4. Deleted \/ Saved(p, HoldTtl(r))
        BY <2>2 DEF p
    <2>5. p.cancelled = {}
        BY <1>2, <2>1, <2>3 DEF SingleInv, Few, BeforeTheFire, Apart, AtMostOne
    <2>6. Pulled' = {}
        BY <1>1, <1>2, <1>4, <2>3, <2>4, <2>5, RowKept
    <2>7. Live' = Live /\ Copied' = Copied
        BY <1>5, <1>6, <2>1
    <2>8. QED
        BY <1>3, <2>1, <2>6, <2>7 DEF SingleInv, Few, BeforeTheFire, Apart, AtMostOne
<1>15. ASSUME NEW r \in Record, Restoring(r)
       PROVE  /\ pc'["watch"] = "restore" /\ Copied' = {} /\ todo'["watch"] = r.cancelled
              /\ hand'["watch"] = {}
    BY <1>1, <1>5, <1>7, <1>15 DEF Restoring, JobType
<1>16. CASE WatchRecover
    <2>1. pc["watch"] = "pass" /\ todo["watch"] = {} /\ UNCHANGED <<order, held>>
        BY <1>16 DEF WatchRecover
    <2>2. Live' = Live /\ Pulled' = Pulled
        BY <1>4, <1>6, <2>1
    <2>3. ASSUME Done("watch") PROVE Goal
        <3>1. pc'["watch"] = "idle" /\ todo'["watch"] = {} /\ hand'["watch"] = {} /\ Copied' = {}
            BY <1>5, <1>7, <2>3
        <3>2. QED
            BY <1>3, <2>1, <2>2, <3>1 DEF SingleInv, Few, BeforeTheFire, Apart, AtMostOne
    <2>4. ASSUME NEW r \in Visible, Restoring(r) PROVE Goal
        <3>1. /\ pc'["watch"] = "restore" /\ Copied' = {} /\ todo'["watch"] = Pulled
              /\ hand'["watch"] = {}
            BY <1>4, <1>15, <2>4
        <3>2. QED
            BY <1>3, <2>1, <2>2, <3>1 DEF SingleInv, Few, BeforeTheFire, Apart, AtMostOne
    <2>5. ASSUME NEW r \in Record, r.cancelled = Pulled, NEW s \in {"extend", "narrow"},
                 Goto("watch", s), Keep("watch", {r}), UNCHANGED <<todo, hand>>
          PROVE  Goal
        <3>1. pc'["watch"] = s /\ Copied' = Pulled
            BY <1>5, <1>7, <2>5
        <3>2. QED
            BY <1>3, <2>1, <2>2, <2>5, <3>1 DEF SingleInv, Few, BeforeTheFire, Apart, AtMostOne
    <2>6. ASSUME NEW r \in Visible, Goto("watch", "extend"), Keep("watch", {Protected(r)}),
                 UNCHANGED <<todo, hand>>
          PROVE  Goal
        <3>1. Protected(r) \in Record /\ Protected(r).cancelled = Pulled
            BY <1>1, <1>4, <2>6, ProtectedRow
        <3>2. QED
            BY <2>5, <2>6, <3>1
    <2>7. ASSUME NEW r \in Visible, NEW calm \in {FALSE, CalmQuote}, NEW paused \in {Paused, PausedAsRead},
                 Goto("watch", "narrow"),
                 Keep("watch", {[r EXCEPT !.holders = Surviving(r, calm, paused)]}),
                 UNCHANGED <<todo, hand>>
          PROVE  Goal
        <3>1. r \in Record /\ Surviving(r, calm, paused) \in SUBSET Reasons
            BY <1>4 DEF Surviving, EffectiveHolders, Record, Reasons
        <3> DEFINE n == [r EXCEPT !.holders = Surviving(r, calm, paused)]
        <3>2. n \in Record /\ n.cancelled = r.cancelled
            BY <3>1 DEF Record
        <3> HIDE DEF n
        <3>3. n.cancelled = Pulled
            BY <1>4, <3>2
        <3>4. QED
            BY <2>5, <2>7, <3>2, <3>3 DEF n
    <2>8. QED
        BY <1>16, <2>3, <2>4, <2>6, <2>7 DEF WatchRecover
<1>17. CASE WatchExtend
    <2>1. PICK r \in rec["watch"] : Saved(r, Left(r))
        BY <1>1, <1>17 DEF WatchExtend, WriteFails
    <2>2. pc["watch"] = "extend" /\ Done("watch") /\ UNCHANGED order
        BY <1>17 DEF WatchExtend
    <2>3. Pulled' = Copied
        BY <1>1, <1>2, <1>4, <2>1, RowKept
    <2>4. /\ pc'["watch"] = "idle" /\ todo'["watch"] = {} /\ hand'["watch"] = {}
          /\ Copied' = {} /\ Live' = Live
        BY <1>5, <1>6, <1>7, <2>2
    <2>5. QED
        BY <1>3, <2>2, <2>3, <2>4 DEF SingleInv, Few, BeforeTheFire, Apart, AtMostOne
<1>18. CASE WatchNarrow
    <2>1. PICK r \in rec["watch"] : /\ Saved(r, SpreadBlockTtl(r.opened))
                                    /\ Restoring(r) \/ Done("watch")
        BY <1>1, <1>18 DEF WatchNarrow, WriteFails
    <2>2. pc["watch"] = "narrow" /\ Live' = Live
        BY <1>6, <1>18 DEF WatchNarrow
    <2>3. Pulled' = Copied /\ r.cancelled = Copied
        BY <1>2, <1>4, <2>1, TtlType
    <2>4. CASE Restoring(r)
        <3>1. /\ pc'["watch"] = "restore" /\ Copied' = {} /\ todo'["watch"] = Copied
              /\ hand'["watch"] = {}
            BY <1>2, <1>15, <2>3, <2>4
        <3>2. QED
            BY <1>3, <2>2, <2>3, <3>1 DEF SingleInv, Few, BeforeTheFire, Apart, AtMostOne
    <2>5. CASE Done("watch")
        <3>1. pc'["watch"] = "idle" /\ todo'["watch"] = {} /\ hand'["watch"] = {} /\ Copied' = {}
            BY <1>5, <1>7, <2>5
        <3>2. QED
            BY <1>3, <2>2, <2>3, <3>1 DEF SingleInv, Few, BeforeTheFire, Apart, AtMostOne
    <2>6. QED
        BY <2>1, <2>4, <2>5
<1>19. CASE WatchRestore
    <2>1. pc["watch"] = "restore" /\ UNCHANGED <<held, hand>>
        BY <1>19 DEF WatchRestore
    <2>2. PICK o \in todo["watch"] :
             /\ todo' = [todo EXCEPT !["watch"] = @ \ {o}]
             /\ \/ UNCHANGED <<order, pc, rec>>
                \/ PlacedAsReplacement /\ UNCHANGED <<pc, rec>>
                \/ /\ Goto("watch", "park") /\ Keep("watch", {ParkedOnto(Visible, "replacing")})
                   /\ UNCHANGED order
        BY <1>19 DEF WatchRestore
    <2>3. todo'["watch"] = todo["watch"] \ {o} /\ Pulled' = Pulled
        BY <1>1, <1>4, <2>1, <2>2 DEF JobType
    <2>4. todo'["watch"] = {} /\ Live = {} /\ fires # 0
        BY <2>1, <2>2, <2>3 DEF SingleInv, Few, BeforeTheFire, Apart, AtMostOne
    <2>5. CASE UNCHANGED <<order, pc, rec>>
        <3>1. Live' = Live /\ Copied' = Copied
            BY <1>5, <1>6, <2>5
        <3>2. QED
            BY <1>3, <2>1, <2>3, <2>4, <2>5, <3>1 DEF SingleInv, Few, BeforeTheFire, Apart, AtMostOne
    <2>6. CASE PlacedAsReplacement /\ UNCHANGED <<pc, rec>>
        <3>1. AtMostOne(Live') /\ Copied' = Copied
            BY <1>5, <2>4, <2>6, LiveFollows
        <3>2. QED
            BY <1>3, <2>1, <2>3, <2>4, <2>6, <3>1 DEF SingleInv, Few, BeforeTheFire, Apart, AtMostOne
    <2>7. CASE /\ Goto("watch", "park") /\ Keep("watch", {ParkedOnto(Visible, "replacing")})
               /\ UNCHANGED order
        <3>1. ParkedOnto(Visible, "replacing") \in Record
              /\ ParkedOnto(Visible, "replacing").cancelled = Pulled
            BY <1>1, <1>4, ParkedRow
        <3>2. Copied' = Pulled /\ Live' = Live /\ pc'["watch"] = "park"
            BY <1>5, <1>6, <1>7, <2>7, <3>1
        <3>3. QED
            BY <1>3, <2>1, <2>3, <2>4, <3>2 DEF SingleInv, Few, BeforeTheFire, Apart, AtMostOne
    <2>8. QED
        BY <2>2, <2>5, <2>6, <2>7
<1>20. CASE WatchPark
    <2>1. PICK r \in rec["watch"] : Saved(r, Left(r))
        BY <1>1, <1>20 DEF WatchPark, WriteFails
    <2>2. Pulled' = Copied
        BY <1>1, <1>2, <1>4, <2>1, RowKept
    <2>3. /\ pc["watch"] = "park" /\ pc'["watch"] = "restore" /\ UNCHANGED <<order, rec, todo, hand>>
        BY <1>7, <1>20 DEF WatchPark
    <2>4. Live' = Live /\ Copied' = Copied
        BY <1>5, <1>6, <2>3
    <2>5. QED
        BY <1>3, <2>2, <2>3, <2>4 DEF SingleInv, Few, BeforeTheFire, Apart, AtMostOne
<1>21. CASE WatchFinish
    <2>1. /\ pc["watch"] = "restore" /\ todo["watch"] = {}
          /\ Live' = Live /\ Pulled' = Pulled
        BY <1>4, <1>6, <1>21 DEF WatchFinish
    <2>2. CASE Visible = {} /\ Done("watch")
        <3>1. /\ pc'["watch"] = "idle" /\ todo'["watch"] = {} /\ hand'["watch"] = {}
              /\ Copied' = {} /\ Pulled = {}
            BY <1>4, <1>5, <1>7, <2>2
        <3>2. QED
            BY <1>3, <2>1, <3>1 DEF SingleInv, Few, BeforeTheFire, Apart, AtMostOne
    <2>3. CASE Goto("watch", "amend") /\ Keep("watch", Visible) /\ UNCHANGED <<todo, hand>>
        <3>1. pc'["watch"] = "amend" /\ Copied' = Pulled
            BY <1>5, <1>7, <2>3
        <3>2. QED
            BY <1>3, <2>1, <2>3, <3>1 DEF SingleInv, Few, BeforeTheFire, Apart, AtMostOne
    <2>4. QED
        BY <1>1, <1>21, <2>2, <2>3 DEF WatchFinish
<1>22. CASE WatchAmend
    <2>1. /\ pc["watch"] = "amend" /\ pc'["watch"] = "clear" /\ UNCHANGED <<order, held, rec, todo, hand>>
        BY <1>7, <1>22 DEF WatchAmend
    <2>2. Live' = Live /\ Pulled' = Pulled /\ Copied' = Copied
        BY <1>4, <1>5, <1>6, <2>1
    <2>3. QED
        BY <1>3, <2>1, <2>2 DEF SingleInv, Few, BeforeTheFire, Apart, AtMostOne
<1>23. CASE WatchClear
    <2>1. Deleted /\ Done("watch") /\ UNCHANGED order
        BY <1>1, <1>23 DEF WatchClear, WriteFails
    <2>2. /\ pc'["watch"] = "idle" /\ todo'["watch"] = {} /\ hand'["watch"] = {}
          /\ Copied' = {} /\ Pulled' = {} /\ Live' = Live
        BY <1>4, <1>5, <1>6, <1>7, <2>1
    <2>3. QED
        BY <1>3, <2>2 DEF SingleInv, Few, BeforeTheFire, Apart, AtMostOne
<1>24. QED
    BY <1>9, <1>10, <1>11, <1>12, <1>13, <1>14, <1>16, <1>17, <1>18, <1>19, <1>20, <1>21, <1>22, <1>23
       DEF WatchStep

LEMMA WidenSingle ==
    ASSUME TypeInv, Steady, SingleInv, WidenStep
    PROVE  SingleInv'
<1>1. /\ WorldType /\ BrokerType /\ JobType /\ OneRow(held)
      /\ {"watch", "widen", "control", "engine"} = Jobs
      /\ rec["widen"] \subseteq Record
    BY DEF TypeInv, Jobs, JobType
<1>2. clock' = clock /\ fires' = fires /\ order' = order /\ Live' = Live
    BY LiveFollows DEF WidenStep, WidenRead, WidenStore, WidenAmend, worldVars
<1>3. /\ pc'["watch"] = pc["watch"] /\ pc'["control"] = pc["control"]
      /\ rec'["watch"] = rec["watch"] /\ rec'["engine"] = rec["engine"]
      /\ todo'["watch"] = todo["watch"] /\ hand'["watch"] = hand["watch"]
    BY <1>1 DEF WidenStep, WidenRead, WidenStore, WidenAmend, Done, Start, Goto, Keep, JobType
<1>4. Copied' = Copied
    BY <1>3, CopiedFollows
<1>5. ASSUME NEW r \in rec'["widen"] PROVE r.cancelled = {}
    <2>1. CASE r \in rec["widen"]
        BY <2>1 DEF SingleInv, OthersCarryNone
    <2>2. ASSUME NEW o \in Orders,
                 Keep("widen", {[Blank(clock + SpreadBlockTtl(clock)) EXCEPT !.applied = TRUE,
                                    !.holders = {"SpreadHour"}, !.stops = {<<o, stop[o]>>}]})
          PROVE  r.cancelled = {}
        <3>1. clock + SpreadBlockTtl(clock) \in Nat
            BY <1>1, TtlType DEF WorldType
        <3>2. Blank(clock + SpreadBlockTtl(clock)).cancelled = {}
            BY <1>1, <3>1, BlankRow
        <3>3. r = [Blank(clock + SpreadBlockTtl(clock)) EXCEPT !.applied = TRUE,
                      !.holders = {"SpreadHour"}, !.stops = {<<o, stop[o]>>}]
            BY <1>1, <1>5, <2>2 DEF Keep, JobType
        <3>4. QED
            BY <3>2, <3>3 DEF Blank
    <2>3. rec' = rec \/ Keep("widen", {}) \/ WidenRead
        BY DEF WidenStep, WidenStore, WidenAmend, Done
    <2>4. CASE rec' = rec
        BY <1>5, <2>1, <2>4
    <2>5. CASE Keep("widen", {})
        BY <1>1, <1>5, <2>5 DEF Keep, JobType
    <2>6. CASE WidenRead
        BY <2>2, <2>4, <2>6 DEF WidenRead
    <2>7. QED
        BY <2>3, <2>4, <2>5, <2>6
<1>6. Pulled' = Pulled \/ Pulled' = {}
    <2>1. CASE held' = held
        BY <1>2, <2>1, PulledFollows
    <2>2. ASSUME NEW r \in rec["widen"], Saved(r, SpreadBlockTtl(clock)) PROVE Pulled' = {}
        BY <1>1, <1>2, <2>2, TtlType, PulledFollows DEF SingleInv, OthersCarryNone
    <2>3. QED
        BY <2>1, <2>2 DEF WidenStep, WidenRead, WidenStore, WidenAmend, WriteFails
<1>7. OthersCarryNone'
    BY <1>3, <1>5 DEF SingleInv, OthersCarryNone
<1>8. hand["watch"] \subseteq Orders
    BY <1>1 DEF JobType
<1>9. QED
    BY <1>2, <1>3, <1>4, <1>6, <1>7, <1>8 DEF SingleInv, Few, BeforeTheFire, Apart, AtMostOne

LEMMA EngineSingle ==
    ASSUME TypeInv, Steady, SingleInv, EngineFire \/ EnginePark
    PROVE  SingleInv'
<1>1. /\ WorldType /\ BrokerType /\ JobType /\ OneRow(held) /\ OneRow(Visible) /\ NotAfter \in Nat
      /\ {"watch", "widen", "control", "engine"} = Jobs
      /\ rec["engine"] \subseteq Record
    BY VisibleRow, TimeAssumption DEF TypeInv, Jobs, JobType
<1>2. /\ clock' = clock /\ UNCHANGED stop
      /\ pc'["watch"] = pc["watch"] /\ pc'["control"] = pc["control"]
      /\ rec'["watch"] = rec["watch"] /\ rec'["widen"] = rec["widen"]
      /\ todo'["watch"] = todo["watch"] /\ hand'["watch"] = hand["watch"]
    BY <1>1 DEF EngineFire, EnginePark, Done, Goto, Keep, JobType, worldVars
<1>3. Copied' = Copied
    BY <1>2, CopiedFollows
<1>4. CASE EngineFire
    <2>1. fires = 0 /\ fires' # 0 /\ held' = held
        BY <1>1, <1>4, BoundAssumption DEF EngineFire, Steady, WorldType
    <2>2. /\ Live = {} /\ Pulled = {} /\ Copied = {} /\ todo["watch"] = {} /\ hand["watch"] = {}
        BY <2>1 DEF SingleInv, BeforeTheFire
    <2>3. Pulled' = Pulled
        BY <1>2, <2>1, PulledFollows
    <2>4. AtMostOne(Live')
        BY <1>4, <2>2, LiveFollows DEF EngineFire, AtMostOne
    <2>5. ASSUME NEW r \in rec'["engine"] PROVE r.cancelled = {}
        <3>1. CASE rec' = rec
            BY <2>5, <3>1 DEF SingleInv, OthersCarryNone
        <3>2. CASE Keep("engine", {ParkedOnto(Visible, "fresh")})
            <4>1. r = ParkedOnto(Visible, "fresh")
                BY <1>1, <2>5, <3>2 DEF Keep, JobType
            <4>2. QED
                BY <1>1, <1>2, <2>2, <4>1, ParkedRow, PulledFollows
        <3>3. QED
            BY <1>4, <3>1, <3>2 DEF EngineFire
    <2>6. QED
        BY <1>2, <1>3, <2>1, <2>2, <2>3, <2>4, <2>5 DEF OthersCarryNone, SingleInv, Few, BeforeTheFire, Apart, AtMostOne
<1>5. CASE EnginePark
    <2>1. PICK r \in rec["engine"] : Saved(r, Left(r)) \/ held' = held
        BY <1>5 DEF EnginePark, WriteFails
    <2>2. Pulled' = Pulled \/ Pulled' = {}
        BY <1>1, <1>2, <2>1, RowKept, PulledFollows DEF SingleInv, OthersCarryNone
    <2>3. rec'["engine"] = {} /\ fires' = fires /\ order' = order
        BY <1>1, <1>5, OnlyOneJob DEF EnginePark, worldVars
    <2>4. Live' = Live
        BY <2>3, LiveFollows
    <2>5. OthersCarryNone'
        BY <1>2, <2>3 DEF SingleInv, OthersCarryNone
    <2>6. hand["watch"] \subseteq Orders
        BY <1>1 DEF JobType
    <2>7. QED
        BY <1>2, <1>3, <2>2, <2>3, <2>4, <2>5, <2>6 DEF SingleInv, Few, BeforeTheFire, Apart, AtMostOne
<1>6. QED
    BY <1>4, <1>5

LEMMA WorldSingle ==
    ASSUME TypeInv, Steady, SingleInv, BrokerStep \/ PauseStep \/ Tick \/ UNCHANGED vars
    PROVE  SingleInv'
<1>1. BrokerType /\ clock \in Nat /\ hand["watch"] \subseteq Orders
    BY DEF TypeInv, WorldType, JobType, Jobs
<1>2. /\ UNCHANGED <<fires, held, pc, rec, todo, hand>> /\ (clock' = clock \/ clock' = clock + 1)
    BY DEF BrokerStep, BrokerFill, BrokerExit, PauseStep, PauseArm, PauseClear, Tick, vars,
       worldVars, jobVars
<1>3. Copied' = Copied
    BY <1>2, CopiedFollows
<1>4. Live' \subseteq Live
    BY <1>1 DEF BrokerStep, BrokerFill, BrokerExit, PauseStep, PauseArm, PauseClear, Tick, vars,
       Live, BrokerType
<1>5. Pulled' \subseteq Pulled
    <2>1. \A r \in held : r \in Record
        BY DEF TypeInv, OneRow
    <2>2. Visible' \subseteq Visible
        BY <1>1, <1>2, <2>1 DEF Visible, Record
    <2>3. QED
        BY <2>2 DEF Pulled
<1>6. \A o \in hand["watch"] : order'[o] = "resting" => order[o] = "resting"
    BY <1>1 DEF BrokerStep, BrokerFill, BrokerExit, PauseStep, PauseArm, PauseClear, Tick, vars,
       BrokerType
<1>7. OthersCarryNone'
    BY <1>2 DEF SingleInv, OthersCarryNone
<1>8. QED
    BY <1>2, <1>3, <1>4, <1>5, <1>6, <1>7 DEF SingleInv, Few, BeforeTheFire, Apart, AtMostOne

LEMMA SingleStep == TypeInv /\ Steady /\ SingleInv /\ [Next]_vars => SingleInv'
<1> SUFFICES ASSUME TypeInv, Steady, SingleInv, [Next]_vars PROVE SingleInv'
    OBVIOUS
<1>1. ~ControlStep
    BY DEF Steady, SingleInv, OthersCarryNone, ControlStep, PromoteRead, PromoteClearRead,
       PromoteClearWrite, PromotePlace, PromotePark, Start
<1>2. ~Crash
    BY DEF Steady, Crash
<1>3. QED
    BY <1>1, <1>2, WatchSingle, WidenSingle, EngineSingle, WorldSingle DEF Next

LEMMA SingleInit == Init => SingleInv
BY DEF Init, Jobs, Visible, Live, Pulled, Copied, OthersCarryNone, SingleInv, Few, BeforeTheFire, Apart, AtMostOne

\* A trade that fires once never has two orders resting or open, while no
\* answer of the broker and no write of the row is lost and nothing is promoted:
\* blackout_watch restores a pulled order only when its original is gone.
\* (Each hypothesis is needed: see the README.)
THEOREM OneEntryAtATime == Steady => (Spec => []NoDoubleEntry)
<1> SUFFICES ASSUME Steady PROVE Spec => []NoDoubleEntry
    OBVIOUS
<1>1. TypeInv /\ SingleInv /\ [Next]_vars => SingleInv'
    BY SingleStep
<1>2. SingleInv => NoDoubleEntry
    BY DEF SingleInv, Few, AtMostOne, Live, NoDoubleEntry
<1>3. QED
    BY <1>1, <1>2, SingleInit, TypeAlways, PTL DEF Spec

=============================================================================
