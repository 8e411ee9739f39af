-------------------------- MODULE RetryGate_proofs --------------------------
(* Theorems about RetryGate, for every value of its constants.             *)
(*                                                                         *)
(* The types; the stacking and the tracking of live orders on a serial     *)
(* path.  Then what the attempt rows count: their numbers, their bars, the *)
(* refunded slots and the cap; and, for a gate that runs alone, that the   *)
(* trade's promise is kept: the orders that entered the market are counted *)
(* by the cap, every step is one of TradeSlot's or none, and a single-shot *)
(* enter is placed once.                                                   *)
EXTENDS RetryGate, FiniteSetTheorems, WellFoundedInduction, TLAPS

-----------------------------------------------------------------------------
(* Lemmas on the store's statements.                                       *)

\* The image of a finite set under a function is finite and no larger.
LEMMA ImageOfFinite ==
    ASSUME NEW S, IsFiniteSet(S), NEW f, f = [x \in S |-> f[x]]
    PROVE  /\ IsFiniteSet({f[x] : x \in S})
           /\ Cardinality({f[x] : x \in S}) <= Cardinality(S)
<1> DEFINE T == {f[x] : x \in S}
<1>1. f \in Surjection(S, T)
    BY DEF Surjection
<1>2. QED
    BY <1>1, FS_Surjection

\* The three UPDATE statements keep a finite set of rows, and touch only the
\* column they name.
LEMMA IdentifyRows ==
    ASSUME NEW S \in SUBSET Row, IsFiniteSet(S), NEW n
    PROVE  Identify(S, n) \in SUBSET Row /\ IsFiniteSet(Identify(S, n))
<1> DEFINE f == [q \in S |-> IF q.no = n THEN [q EXCEPT !.known = TRUE] ELSE q]
<1>1. Identify(S, n) = {f[q] : q \in S}
    BY DEF Identify
<1>2. \A q \in S : f[q] \in Row
    BY DEF Row
<1>3. f = [q \in S |-> f[q]]
    OBVIOUS
<1> HIDE DEF f
<1>4. IsFiniteSet({f[q] : q \in S})
    BY <1>3, ImageOfFinite
<1>5. QED
    BY <1>1, <1>2, <1>4

LEMMA SupersedeRows ==
    ASSUME NEW S \in SUBSET Row, IsFiniteSet(S), NEW n
    PROVE  Supersede(S, n) \in SUBSET Row /\ IsFiniteSet(Supersede(S, n))
<1> DEFINE f == [q \in S |-> IF q.no = n THEN [q EXCEPT !.superseded = TRUE] ELSE q]
<1>1. Supersede(S, n) = {f[q] : q \in S}
    BY DEF Supersede
<1>2. \A q \in S : f[q] \in Row
    BY DEF Row
<1>3. f = [q \in S |-> f[q]]
    OBVIOUS
<1> HIDE DEF f
<1>4. IsFiniteSet({f[q] : q \in S})
    BY <1>3, ImageOfFinite
<1>5. QED
    BY <1>1, <1>2, <1>4

LEMMA RepointRows ==
    ASSUME NEW S \in SUBSET Row, IsFiniteSet(S), NEW old, NEW new \in Orders
    PROVE  Repoint(S, old, new) \in SUBSET Row /\ IsFiniteSet(Repoint(S, old, new))
<1> DEFINE f == [q \in S |-> IF q.oid = old THEN [q EXCEPT !.oid = new] ELSE q]
<1>1. Repoint(S, old, new) = {f[q] : q \in S}
    BY DEF Repoint
<1>2. \A q \in S : f[q] \in Row
    BY DEF Row
<1>3. f = [q \in S |-> f[q]]
    OBVIOUS
<1> HIDE DEF f
<1>4. IsFiniteSet({f[q] : q \in S})
    BY <1>3, ImageOfFinite
<1>5. QED
    BY <1>1, <1>2, <1>4

LEMMA UpsertRows ==
    ASSUME NEW S \in SUBSET Row, IsFiniteSet(S), NEW row \in Row
    PROVE  Upsert(S, row) \in SUBSET Row /\ IsFiniteSet(Upsert(S, row))
<1>1. IsFiniteSet({q \in S : q.no # row.no})
    BY FS_Subset
<1>2. QED
    BY <1>1, FS_AddElement DEF Upsert

\* The next attempt number is a number, whatever the snapshot holds.
LEMMA NextAttemptNoType ==
    ASSUME NEW S \in SUBSET Row
    PROVE  NextAttemptNo(S) \in Nat
<1> DEFINE top == {n \in RowNumbers(S) : \A m \in RowNumbers(S) : m <= n}
<1>1. top \in SUBSET Nat
    BY DEF RowNumbers, Row
<1>2. top # {} => (CHOOSE n \in top : TRUE) \in Nat
    BY <1>1
<1>3. QED
    BY <1>2 DEF NextAttemptNo

\* Whatever observe() writes back, the rows stay rows.
LEMMA LearnFillRows ==
    ASSUME TypeOK, NEW r, LearnFill(r)
    PROVE  rows' \in SUBSET Row /\ IsFiniteSet(rows')
BY IdentifyRows DEF LearnFill, TypeOK

-----------------------------------------------------------------------------
(* Type correctness.  It is not inductive alone: a row may be written only  *)
(* because the fire that writes it holds a broker's order id.               *)

IdsKnown ==
    /\ \A c \in Callers : pc[c] = "record" => oid[c] \in Orders
    /\ \A p \in Replacers : rpc[p] = "repoint" => rnew[p] \in Orders

TypeInv == TypeOK /\ IdsKnown

LEMMA AnyBarType == AnyBar \in Bars
BY BarsAssumption DEF AnyBar

\* A fire that returns leaves every local of every caller well typed.
LEMMA ReturnTypes ==
    ASSUME TypeInv, NEW c \in Callers, Return(c)
    PROVE  /\ pc' \in [Callers -> GateStates]
           /\ bar' \in [Callers -> Bars]
           /\ mode' \in [Callers -> {"Full", "Probe"}]
           /\ snap' \in [Callers -> SUBSET Row]
           /\ \A d \in Callers : IsFiniteSet(snap'[d])
           /\ todo' \in [Callers -> SUBSET Row]
           /\ freed' \in [Callers -> SUBSET Nat]
           /\ oid' \in [Callers -> Orders \cup {NoOrder}]
           /\ \A d \in Callers : pc'[d] = "record" => oid'[d] \in Orders
<1>1. \A d \in Callers : IsFiniteSet(snap'[d])
    BY FS_EmptySet DEF TypeInv, TypeOK, Return
<1>2. QED
    BY <1>1, AnyBarType DEF TypeInv, TypeOK, IdsKnown, Return, GateStates

LEMMA FireStepTypes ==
    ASSUME TypeInv, NEW c \in Callers, FireStep(c)
    PROVE  TypeInv'
<1> USE DEF TypeInv, TypeOK, IdsKnown, storeVars, sweepVars, replVars
<1>1. ASSUME NEW b \in Bars, NEW m \in {"Full", "Probe"}, Arrive(c, b, m)
      PROVE  TypeInv'
    BY <1>1 DEF Arrive, GateStates
<1>2. CASE IsRetryFireSeen(c)
    <2>1. CASE Return(c)
        BY <1>2, <2>1, ReturnTypes DEF IsRetryFireSeen
    <2>2. CASE ~Return(c)
        BY <1>2, <2>2 DEF IsRetryFireSeen, Goto, GateStates
    <2>3. QED
        BY <2>1, <2>2
<1>3. CASE ListEntryAttempts(c)
    <2>1. CASE Return(c)
        BY <1>3, <2>1, ReturnTypes DEF ListEntryAttempts
    <2>2. CASE ~Return(c)
        BY <1>3, <2>2 DEF ListEntryAttempts, Goto, GateStates
    <2>3. QED
        BY <2>1, <2>2
<1>4. CASE OpenPositionBackstop(c)
    <2>1. CASE Return(c)
        BY <1>4, <2>1, ReturnTypes DEF OpenPositionBackstop
    <2>2. CASE ~Return(c)
        BY <1>4, <2>2 DEF OpenPositionBackstop, Goto, GateStates
    <2>3. QED
        BY <2>1, <2>2
<1>5. CASE Observe(c)
    <2>1. PICK r \in todo[c] :
              ObserveUnresolved(c, r) \/ ObservePending(c, r) \/ ObserveOpen(c, r)
                  \/ ObserveDone(c, r)
        BY <1>5 DEF Observe
    <2>2. rows' \in SUBSET Row /\ IsFiniteSet(rows')
        BY <2>1, LearnFillRows
           DEF ObserveUnresolved, ObservePending, ObserveOpen, ObserveDone
    <2>3. CASE Return(c)
        BY <1>5, <2>2, <2>3, ReturnTypes DEF Observe
    <2>4. CASE ~Return(c)
        BY <1>5, <2>1, <2>2, <2>4
           DEF Observe, ObserveUnresolved, ObservePending, ObserveOpen, ObserveDone,
               Goto, GateStates
    <2>5. QED
        BY <2>3, <2>4
<1>6. CASE CancelResting(c)
    BY <1>6 DEF CancelResting, Goto, GateStates, OrderStates
<1>7. CASE ReObserve(c)
    <2>1. rows' \in SUBSET Row /\ IsFiniteSet(rows')
        BY <1>7, LearnFillRows DEF ReObserve
    <2>2. CASE Return(c)
        BY <1>7, <2>1, <2>2, ReturnTypes DEF ReObserve
    <2>3. CASE ~Return(c)
        BY <1>7, <2>1, <2>3 DEF ReObserve, Goto, GateStates
    <2>4. QED
        BY <2>2, <2>3
<1>8. CASE MarkSuperseded(c)
    <2>1. rows' \in SUBSET Row /\ IsFiniteSet(rows')
        BY <1>8, SupersedeRows DEF MarkSuperseded
    <2>2. freed' \in [Callers -> SUBSET Nat]
        BY <1>8 DEF MarkSuperseded, Row
    <2>3. QED
        BY <1>8, <2>1, <2>2 DEF MarkSuperseded, Goto, GateStates
<1>9. CASE CapCheck(c)
    <2>1. CASE Return(c)
        BY <1>9, <2>1, ReturnTypes DEF CapCheck
    <2>2. CASE ~Return(c)
        BY <1>9, <2>2 DEF CapCheck, GateStates
    <2>3. QED
        BY <2>1, <2>2
<1>10. CASE PlaceEntry(c)
    <2>1. CASE Placed(c)
        BY <1>10, <2>1 DEF PlaceEntry, Placed, Goto, GateStates, OrderStates
    <2>2. CASE PlacedAmbiguously(c)
        BY <1>10, <2>2 DEF PlaceEntry, PlacedAmbiguously, Goto, GateStates, OrderStates
    <2>3. CASE PlacementFailed(c)
        BY <1>10, <2>3, ReturnTypes DEF PlaceEntry, PlacementFailed
    <2>4. QED
        BY <1>10, <2>1, <2>2, <2>3 DEF PlaceEntry
<1>11. CASE RecordEntryAttempt(c)
    <2>1. [no |-> NextAttemptNo(snap[c]), oid |-> oid[c], bar |-> bar[c],
           known |-> FALSE, superseded |-> FALSE] \in Row
        BY <1>11, NextAttemptNoType DEF RecordEntryAttempt, Goto, Row
    <2>2. rows' \in SUBSET Row /\ IsFiniteSet(rows')
        BY <1>11, <2>1, UpsertRows DEF RecordEntryAttempt
    <2>3. QED
        BY <1>11, <2>2 DEF RecordEntryAttempt, Goto, GateStates
<1>12. CASE MarkRetryFireSeen(c)
    BY <1>12 DEF MarkRetryFireSeen, Goto, GateStates
<1>13. CASE RecordDispatcherOutcome(c)
    BY <1>13, ReturnTypes DEF RecordDispatcherOutcome
<1>14. QED
    BY <1>1, <1>2, <1>3, <1>4, <1>5, <1>6, <1>7, <1>8, <1>9, <1>10, <1>11, <1>12, <1>13
       DEF FireStep

LEMMA SweepStepTypes ==
    ASSUME TypeInv, SweepStep
    PROVE  TypeInv'
<1> USE DEF TypeInv, TypeOK, IdsKnown, storeVars, gateVars, replVars
<1>1. CASE SweepPendingOrders
    BY <1>1 DEF SweepPendingOrders, SweepStates
<1>2. CASE SweepOne
    BY <1>2 DEF SweepOne, SweepStates
<1>3. CASE SweepConfirm
    <2>1. rows' \in SUBSET Row /\ IsFiniteSet(rows')
        BY <1>3, LearnFillRows DEF SweepConfirm
    <2>2. QED
        BY <1>3, <2>1 DEF SweepConfirm, SweepStates
<1>4. CASE SweepCancel
    BY <1>4 DEF SweepCancel, SweepStates, OrderStates
<1>5. CASE SweepDelete
    <2>1. rows' \in SUBSET rows
        BY <1>5 DEF SweepDelete
    <2>2. IsFiniteSet(rows')
        BY <2>1, FS_Subset
    <2>3. QED
        BY <1>5, <2>1, <2>2 DEF SweepDelete, SweepStates
<1>6. QED
    BY <1>1, <1>2, <1>3, <1>4, <1>5 DEF SweepStep

LEMMA ReplaceStepTypes ==
    ASSUME TypeInv, NEW p \in Replacers, ReplaceStep(p)
    PROVE  TypeInv'
<1> USE DEF TypeInv, TypeOK, IdsKnown, storeVars, gateVars, sweepVars
<1>1. CASE PullOrder(p)
    BY <1>1 DEF PullOrder, ReplStates, OrderStates
<1>2. CASE ReplaceOrder(p)
    BY <1>2 DEF ReplaceOrder, ReplStates, OrderStates
<1>3. CASE SetReplacement(p)
    <2>1. rows' \in SUBSET Row /\ IsFiniteSet(rows')
        BY <1>3, RepointRows DEF SetReplacement
    <2>2. QED
        BY <1>3, <2>1 DEF SetReplacement, ReplStates
<1>4. QED
    BY <1>1, <1>2, <1>3 DEF ReplaceStep

LEMMA EnvironmentTypes ==
    ASSUME TypeInv, BrokerStep \/ Crash
    PROVE  TypeInv'
<1> USE DEF TypeInv, TypeOK, IdsKnown, storeVars, gateVars, sweepVars, replVars
<1>1. CASE BrokerStep
    BY <1>1 DEF BrokerStep, BrokerFill, BrokerExit, BrokerWithdraw, OrderStates
<1>2. CASE Crash
    <2>1. \A c \in Callers : IsFiniteSet(snap'[c])
        BY <1>2, FS_EmptySet DEF Crash
    <2>2. QED
        BY <1>2, <2>1, AnyBarType DEF Crash, GateStates, SweepStates, ReplStates
<1>3. QED
    BY <1>1, <1>2

\* Every state of the entry path is well typed, for any callers, bars, caps and
\* faults, with the sweep and the replacers running.
THEOREM TypeCorrect == Spec => []TypeOK
<1>1. Init => TypeInv
    <2> SUFFICES ASSUME Init PROVE TypeInv
        OBVIOUS
    <2>1. IsFiniteSet({})
        BY FS_EmptySet
    <2>2. QED
        BY <2>1, AnyBarType DEF Init, TypeInv, TypeOK, IdsKnown, OrderStates, GateStates,
                                SweepStates, ReplStates
<1>2. TypeInv /\ [Next]_vars => TypeInv'
    <2> SUFFICES ASSUME TypeInv, [Next]_vars PROVE TypeInv'
        OBVIOUS
    <2>1. CASE \E c \in Callers : FireStep(c)
        BY <2>1, FireStepTypes
    <2>2. CASE SweepStep
        BY <2>2, SweepStepTypes
    <2>3. CASE \E p \in Replacers : ReplaceStep(p)
        BY <2>3, ReplaceStepTypes
    <2>4. CASE BrokerStep \/ Crash
        BY <2>4, EnvironmentTypes
    <2>5. CASE UNCHANGED vars
        BY <2>5 DEF TypeInv, TypeOK, IdsKnown, vars, storeVars, gateVars, sweepVars, replVars
    <2>6. QED
        BY <2>1, <2>2, <2>3, <2>4, <2>5 DEF Next
<1>3. TypeInv => TypeOK
    BY DEF TypeInv
<1>4. QED
    BY <1>1, <1>2, <1>3, PTL DEF Spec

-----------------------------------------------------------------------------
(* One position at a time.  The promise rests on the gate running alone:    *)
(* one caller, no restore or re-price, no sweep; and on every placement     *)
(* being written down.  Every other fault is allowed.                       *)

Serial ==
    /\ \A c, d \in Callers : c = d
    /\ Replacers = {} /\ ~Sweeping /\ MultiShot
    /\ "ambiguous" \notin Faults /\ "record" \notin Faults /\ "crash" \notin Faults

UniqueRows(S) == \A r, q \in S : r.no = q.no => r = q
Walking(c) == pc[c] \in {"backstop", "walk", "cancel", "recheck", "supersede"}

\* What a fire knows of the broker's book at each of its calls.
FireInv(c) ==
    /\ UniqueRows(todo[c]) /\ todo[c] \subseteq snap[c]
    /\ Walking(c) => \A r \in rows : \E q \in snap[c] : q.oid = r.oid
    /\ pc[c] \in {"backstop", "walk"} => \A q \in snap[c] \ todo[c] : ~Live(q.oid)
    /\ pc[c] \in {"cancel", "recheck"} =>
          \A r \in todo[c] : Newest(r, todo[c]) => \A o \in Orders : Live(o) => o = r.oid
    /\ pc[c] \in {"supersede", "cap", "place"} => \A o \in Orders : ~Live(o)
    /\ pc[c] = "record" => \A o \in Orders : Live(o) => o = oid[c]

SerialInv ==
    /\ TypeInv
    /\ spc = "idle"
    /\ UniqueRows(rows)
    /\ \A c \in Callers : FireInv(c)
    /\ LiveOrderTracked
    /\ NoStack

\* T holds the same attempts as S, whatever else its rows say.
SameAttempts(S, T) ==
    /\ \A q \in T : \E r \in S : r.no = q.no /\ r.oid = q.oid
    /\ \A r \in S : \E q \in T : r.no = q.no /\ r.oid = q.oid

\* A write that keeps every row's number and order id moves no attempt.
LEMMA KeepsAttempts ==
    ASSUME NEW S, UniqueRows(S), NEW f,
           \A q \in S : f[q].no = q.no /\ f[q].oid = q.oid
    PROVE  LET T == {f[q] : q \in S} IN UniqueRows(T) /\ SameAttempts(S, T)
<1> DEFINE T == {f[q] : q \in S}
<1>1. UniqueRows(T)
    <2> SUFFICES ASSUME NEW x \in T, NEW y \in T, x.no = y.no PROVE x = y
        BY DEF UniqueRows
    <2>1. PICK r \in S : x = f[r]
        OBVIOUS
    <2>2. PICK q \in S : y = f[q]
        OBVIOUS
    <2>3. r = q
        BY <2>1, <2>2 DEF UniqueRows
    <2>4. QED
        BY <2>1, <2>2, <2>3
<1>2. SameAttempts(S, T)
    BY DEF SameAttempts
<1>3. QED
    BY <1>1, <1>2

\* Writing a position id or the superseded mark moves no attempt.
LEMMA ColumnWrites ==
    ASSUME NEW S \in SUBSET Row, UniqueRows(S), NEW n
    PROVE  /\ UniqueRows(Identify(S, n)) /\ SameAttempts(S, Identify(S, n))
           /\ UniqueRows(Supersede(S, n)) /\ SameAttempts(S, Supersede(S, n))
<1>1. UniqueRows(Identify(S, n)) /\ SameAttempts(S, Identify(S, n))
    <2> DEFINE f == [q \in S |-> IF q.no = n THEN [q EXCEPT !.known = TRUE] ELSE q]
    <2>1. Identify(S, n) = {f[q] : q \in S}
        BY DEF Identify
    <2>2. \A q \in S : f[q].no = q.no /\ f[q].oid = q.oid
        BY DEF Row
    <2> HIDE DEF f
    <2>3. QED
        BY <2>1, <2>2, KeepsAttempts
<1>2. UniqueRows(Supersede(S, n)) /\ SameAttempts(S, Supersede(S, n))
    <2> DEFINE f == [q \in S |-> IF q.no = n THEN [q EXCEPT !.superseded = TRUE] ELSE q]
    <2>1. Supersede(S, n) = {f[q] : q \in S}
        BY DEF Supersede
    <2>2. \A q \in S : f[q].no = q.no /\ f[q].oid = q.oid
        BY DEF Row
    <2> HIDE DEF f
    <2>3. QED
        BY <2>1, <2>2, KeepsAttempts
<1>3. QED
    BY <1>1, <1>2

LEMMA LearnFillAttempts ==
    ASSUME SerialInv, NEW r, LearnFill(r)
    PROVE  UniqueRows(rows') /\ SameAttempts(rows, rows')
<1>1. SameAttempts(rows, rows)
    BY DEF SameAttempts
<1>2. QED
    BY <1>1, ColumnWrites DEF SerialInv, TypeInv, TypeOK, LearnFill

\* A step of the only caller that places nothing and moves no attempt keeps
\* every live order tracked, unless it was the fire's own unrecorded one.
LEMMA TrackedStays ==
    ASSUME SerialInv, NEW c \in Callers, \A d \in Callers : d = c,
           pc[c] # "record", SameAttempts(rows, rows'),
           \A o \in Orders : Live(o)' => Live(o)
    PROVE  LiveOrderTracked' /\ NoStack'
BY DEF SerialInv, LiveOrderTracked, NoStack, SameAttempts

\* A fire that returns knows nothing, so nothing it knew can be wrong.
LEMMA ReturnInv ==
    ASSUME SerialInv, NEW c \in Callers, Return(c)
    PROVE  FireInv(c)'
BY DEF SerialInv, TypeInv, TypeOK, Return, FireInv, UniqueRows, Walking

LEMMA FireStepSerial ==
    ASSUME SerialInv, Serial, NEW c \in Callers, FireStep(c)
    PROVE  SerialInv'
<1>1. TypeInv'
    BY FireStepTypes DEF SerialInv
<1>2. \A d \in Callers : d = c
    BY DEF Serial
<1>3. SameAttempts(rows, rows)
    BY DEF SameAttempts
<1> DEFINE Kept == /\ spc' = spc /\ UniqueRows(rows') /\ SameAttempts(rows, rows')
                   /\ \A o \in Orders : Live(o)' => Live(o)
                   /\ pc[c] # "record"
<1>4. ASSUME Kept, FireInv(c)' PROVE SerialInv'
    BY <1>1, <1>2, <1>4, TrackedStays DEF SerialInv
<1>5. ASSUME Kept, Return(c) PROVE SerialInv'
    BY <1>4, <1>5, ReturnInv
<1> USE DEF sweepVars, storeVars, replVars
<1>6. ASSUME NEW b \in Bars, NEW m \in {"Full", "Probe"}, Arrive(c, b, m)
      PROVE  SerialInv'
    <2>1. Kept
        BY <1>3, <1>6 DEF Arrive, SerialInv, Live
    <2>2. FireInv(c)'
        BY <1>6 DEF Arrive, SerialInv, TypeInv, TypeOK, FireInv, Walking, Serial
    <2>3. QED
        BY <2>1, <2>2, <1>4
<1>7. CASE IsRetryFireSeen(c)
    <2>1. Kept
        BY <1>3, <1>7 DEF IsRetryFireSeen, SerialInv, Live
    <2>2. CASE ~Return(c)
        <3>1. FireInv(c)'
            BY <1>7, <2>2 DEF IsRetryFireSeen, Goto, SerialInv, TypeInv, TypeOK, FireInv, Walking
        <3>2. QED
            BY <2>1, <3>1, <1>4
    <2>3. QED
        BY <2>1, <2>2, <1>5
<1>8. CASE ListEntryAttempts(c)
    <2>1. Kept
        BY <1>3, <1>8 DEF ListEntryAttempts, SerialInv, Live
    <2>2. CASE ~Return(c)
        <3>1. FireInv(c)'
            BY <1>8, <2>2 DEF ListEntryAttempts, Goto, SerialInv, TypeInv, TypeOK, FireInv,
                              Walking, UniqueRows
        <3>2. QED
            BY <2>1, <3>1, <1>4
    <2>3. QED
        BY <2>1, <2>2, <1>5
<1>9. CASE OpenPositionBackstop(c)
    <2>1. Kept
        BY <1>3, <1>9 DEF OpenPositionBackstop, SerialInv, Live
    <2>2. CASE ~Return(c)
        <3>1. FireInv(c)'
            BY <1>9, <2>2 DEF OpenPositionBackstop, Goto, SerialInv, TypeInv, TypeOK, FireInv,
                              Walking, Live
        <3>2. QED
            BY <2>1, <3>1, <1>4
    <2>3. QED
        BY <2>1, <2>2, <1>5
<1>10. CASE Observe(c)
    <2>1. PICK r \in todo[c] :
              /\ Newest(r, todo[c])
              /\ ObserveUnresolved(c, r) \/ ObservePending(c, r) \/ ObserveOpen(c, r)
                     \/ ObserveDone(c, r)
        BY <1>10 DEF Observe
    <2>2. Kept
        BY <1>3, <1>10, <2>1, LearnFillAttempts
           DEF Observe, ObserveUnresolved, ObservePending, ObserveOpen, ObserveDone,
               SerialInv, Live
    <2>3. r \in Row
        BY DEF SerialInv, TypeInv, TypeOK
    <2>4. CASE ~Return(c) /\ ObservePending(c, r)
        <3>1. pc' = [pc EXCEPT ![c] = "cancel"] /\ todo' = todo /\ snap' = snap /\ order' = order
            BY <1>10, <2>4 DEF Observe, ObservePending, Goto
        <3>2. \A q \in todo[c] : Newest(q, todo[c]) => q = r
            BY <2>1, <2>3 DEF Newest, SerialInv, FireInv, UniqueRows, TypeInv, TypeOK, Row
        <3>3. \A o \in Orders : Live(o) => o = r.oid
            BY <2>3, <2>4 DEF ObservePending, Live, SerialInv, NoStack, Row
        <3>4. FireInv(c)'
            BY <1>10, <2>2, <3>1, <3>2, <3>3
               DEF Observe, FireInv, SerialInv, TypeInv, TypeOK, Walking, Live, SameAttempts,
                   UniqueRows, Newest
        <3>5. QED
            BY <2>2, <3>4, <1>4
    <2>5. CASE ~Return(c) /\ ObserveDone(c, r)
        <3>1. /\ todo' = [todo EXCEPT ![c] = @ \ {r}] /\ pc' = pc /\ snap' = snap
              /\ order' = order /\ ~Live(r.oid)
            BY <1>10, <2>5 DEF Observe, ObserveDone, Live
        <3>2. FireInv(c)'
            BY <1>10, <2>2, <3>1
               DEF Observe, FireInv, SerialInv, TypeInv, TypeOK, Walking, Live, SameAttempts,
                   UniqueRows
        <3>3. QED
            BY <2>2, <3>2, <1>4
    <2>6. QED
        BY <2>1, <2>2, <2>4, <2>5, <1>5 DEF ObserveUnresolved, ObserveOpen
<1>11. CASE CancelResting(c)
    <2>1. PICK r \in todo[c] :
              /\ Newest(r, todo[c])
              /\ \/ /\ order[r.oid] = "pending"
                    /\ order' = [order EXCEPT ![r.oid] = "cancelled"]
                    /\ pc' = [pc EXCEPT ![c] = "supersede"]
                 \/ order' = order /\ pc' = [pc EXCEPT ![c] = "recheck"]
        BY <1>11 DEF CancelResting, Goto
    <2>2. Kept
        BY <1>3, <1>11, <2>1 DEF CancelResting, SerialInv, TypeInv, TypeOK, Live
    <2>3. r \in Row
        BY DEF SerialInv, TypeInv, TypeOK
    <2>4. FireInv(c)'
        BY <1>11, <2>1, <2>3
           DEF CancelResting, FireInv, SerialInv, TypeInv, TypeOK, Walking, Live, Newest, Row
    <2>5. QED
        BY <2>2, <2>4, <1>4
<1>12. CASE ReObserve(c)
    <2>1. PICK r \in todo[c] :
              /\ Newest(r, todo[c])
              /\ \/ rows' = rows \/ LearnFill(r)
              /\ \/ Return(c)
                 \/ /\ order[r.oid] \in {"closed", "cancelled"}
                    /\ pc' = [pc EXCEPT ![c] = "cap"]
                    /\ UNCHANGED <<todo, snap, oid>>
        BY <1>12 DEF ReObserve, Goto
    <2>2. Kept
        BY <1>3, <1>12, <2>1, LearnFillAttempts DEF ReObserve, SerialInv, Live
    <2>3. CASE ~Return(c)
        <3>1. \A o \in Orders : ~Live(o)
            BY <1>12, <2>1, <2>3 DEF ReObserve, SerialInv, FireInv, Live
        <3>2. FireInv(c)'
            BY <1>12, <2>1, <2>3, <3>1
               DEF ReObserve, FireInv, SerialInv, TypeInv, TypeOK, Walking, Live
        <3>3. QED
            BY <2>2, <3>2, <1>4
    <2>4. QED
        BY <2>2, <2>3, <1>5
<1>13. CASE MarkSuperseded(c)
    <2>1. Kept
        BY <1>3, <1>13, ColumnWrites
           DEF MarkSuperseded, Goto, SerialInv, TypeInv, TypeOK, Live
    <2>2. FireInv(c)'
        BY <1>13 DEF MarkSuperseded, Goto, FireInv, SerialInv, TypeInv, TypeOK, Walking, Live
    <2>3. QED
        BY <2>1, <2>2, <1>4
<1>14. CASE CapCheck(c)
    <2>1. Kept
        BY <1>3, <1>14 DEF CapCheck, SerialInv, Live
    <2>2. CASE ~Return(c)
        <3>1. \A o \in Orders : ~Live(o)
            BY <1>2, <1>14, <2>2
               DEF CapCheck, SerialInv, FireInv, LiveOrderTracked, Walking
        <3>2. FireInv(c)'
            BY <1>14, <2>2, <3>1
               DEF CapCheck, FireInv, SerialInv, TypeInv, TypeOK, Walking, Live
        <3>3. QED
            BY <2>1, <3>2, <1>4
    <2>3. QED
        BY <2>1, <2>2, <1>5
<1>15. CASE PlaceEntry(c)
    <2>1. CASE PlacementFailed(c)
        BY <1>3, <1>5, <1>15, <2>1 DEF PlaceEntry, PlacementFailed, SerialInv, Live
    <2>2. CASE Placed(c)
        <3>1. PICK o \in Orders : \E s \in {"pending", "open"} :
                  /\ order' = [order EXCEPT ![o] = s]
                  /\ oid' = [oid EXCEPT ![c] = o]
            BY <2>2 DEF Placed
        <3>2. pc[c] = "place" /\ pc' = [pc EXCEPT ![c] = "record"]
            BY <2>2 DEF Placed, Goto, Serial
        <3>3. \A q \in Orders : Live(q)' => q = o
            BY <3>1, <3>2 DEF SerialInv, FireInv, TypeInv, TypeOK, Live
        <3>4. oid'[c] = o /\ pc'[c] = "record"
            BY <3>1, <3>2 DEF SerialInv, TypeInv, TypeOK
        <3>5. FireInv(c)'
            BY <1>15, <2>2, <3>3, <3>4 DEF PlaceEntry, Placed, FireInv, SerialInv, Walking
        <3>6. LiveOrderTracked' /\ NoStack'
            BY <3>3, <3>4 DEF LiveOrderTracked, NoStack
        <3>7. spc' = "idle" /\ UniqueRows(rows')
            BY <1>15 DEF PlaceEntry, SerialInv
        <3>8. QED
            BY <1>1, <1>2, <3>5, <3>6, <3>7 DEF SerialInv
    <2>3. QED
        BY <1>15, <2>1, <2>2 DEF PlaceEntry, PlacedAmbiguously, Serial
<1>16. CASE RecordEntryAttempt(c)
    <2> DEFINE row == [no |-> NextAttemptNo(snap[c]), oid |-> oid[c], bar |-> bar[c],
                       known |-> FALSE, superseded |-> FALSE]
    <2>1. rows' = Upsert(rows, row) /\ pc[c] = "record" /\ pc'[c] = "markFire"
        BY <1>16 DEF RecordEntryAttempt, Goto, Serial, SerialInv, TypeInv, TypeOK
    <2>2. row \in rows' /\ row.oid = oid[c]
        BY <2>1 DEF Upsert
    <2>3. UniqueRows(rows')
        BY <2>1 DEF SerialInv, UniqueRows, Upsert
    <2>4. \A o \in Orders : Live(o)' => Live(o) /\ o = oid[c]
        BY <1>16, <2>1 DEF RecordEntryAttempt, SerialInv, FireInv, Live
    <2>5. LiveOrderTracked' /\ NoStack'
        BY <2>2, <2>4 DEF LiveOrderTracked, NoStack
    <2>6. FireInv(c)'
        BY <1>16, <2>1 DEF RecordEntryAttempt, FireInv, SerialInv, Walking
    <2>7. QED
        BY <1>1, <1>2, <1>16, <2>3, <2>5, <2>6 DEF SerialInv, RecordEntryAttempt
<1>17. CASE MarkRetryFireSeen(c)
    <2>1. Kept
        BY <1>3, <1>17 DEF MarkRetryFireSeen, Goto, SerialInv, Live
    <2>2. FireInv(c)'
        BY <1>17 DEF MarkRetryFireSeen, Goto, SerialInv, TypeInv, TypeOK, FireInv, Walking
    <2>3. QED
        BY <2>1, <2>2, <1>4
<1>18. CASE RecordDispatcherOutcome(c)
    BY <1>3, <1>5, <1>18 DEF RecordDispatcherOutcome, SerialInv, Live
<1>19. QED
    BY <1>6, <1>7, <1>8, <1>9, <1>10, <1>11, <1>12, <1>13, <1>14, <1>15, <1>16, <1>17, <1>18
       DEF FireStep

\* The broker alone only moves an order from resting to filled to closed, or
\* withdraws it.
LEMMA BrokerStepSerial ==
    ASSUME SerialInv, Serial, BrokerStep
    PROVE  SerialInv'
<1>1. TypeInv'
    BY EnvironmentTypes DEF SerialInv
<1>2. \A o \in Orders : Live(o)' => Live(o)
    BY DEF BrokerStep, BrokerFill, BrokerExit, BrokerWithdraw, Live, SerialInv, TypeInv, TypeOK
<1>3. UNCHANGED <<storeVars, gateVars, sweepVars, replVars>>
    BY DEF BrokerStep, BrokerFill, BrokerExit, BrokerWithdraw
<1> USE <1>3 DEF storeVars, gateVars, sweepVars
<1>4. \A q \in Row : Live(q.oid)' => Live(q.oid)
    BY <1>2 DEF Row
<1>5. \A c \in Callers : snap[c] \subseteq Row
    BY DEF SerialInv, TypeInv, TypeOK
<1>6. \A c \in Callers : FireInv(c)'
    BY <1>2, <1>4, <1>5 DEF SerialInv, FireInv, Walking, Newest
<1>7. LiveOrderTracked' /\ NoStack'
    BY <1>2 DEF SerialInv, LiveOrderTracked, NoStack
<1>8. QED
    BY <1>1, <1>6, <1>7 DEF SerialInv, UniqueRows

\* The invariant holds throughout every run of a gate that runs alone.
LEMMA SerialAlways == Serial => (Spec => []SerialInv)
<1> SUFFICES ASSUME Serial PROVE Spec => []SerialInv
    OBVIOUS
<1>1. Init => SerialInv
    <2> SUFFICES ASSUME Init PROVE SerialInv
        OBVIOUS
    <2>1. TypeInv
        BY FS_EmptySet, AnyBarType
           DEF Init, TypeInv, TypeOK, IdsKnown, OrderStates, GateStates, SweepStates, ReplStates
    <2>2. QED
        BY <2>1 DEF Init, SerialInv, UniqueRows, FireInv, Walking, LiveOrderTracked, NoStack, Live
<1>2. SerialInv /\ [Next]_vars => SerialInv'
    <2> SUFFICES ASSUME SerialInv, [Next]_vars PROVE SerialInv'
        OBVIOUS
    <2>1. CASE \E c \in Callers : FireStep(c)
        BY <2>1, FireStepSerial
    <2>2. CASE BrokerStep
        BY <2>2, BrokerStepSerial
    <2>3. CASE UNCHANGED vars
        BY <2>3 DEF vars, storeVars, gateVars, sweepVars, replVars, SerialInv, TypeInv, TypeOK,
                    IdsKnown, UniqueRows, FireInv, Walking, Newest, LiveOrderTracked, NoStack, Live
    <2>4. ~SweepStep /\ ~Crash /\ Replacers = {}
        BY DEF Serial, SerialInv, SweepStep, SweepPendingOrders, SweepOne, SweepConfirm,
               SweepCancel, SweepDelete, Crash
    <2>5. QED
        BY <2>1, <2>2, <2>3, <2>4 DEF Next
<1>3. QED
    BY <1>1, <1>2, PTL DEF Spec

\* "We won't stack a second entry on top of the first", for every number of
\* bars and orders, every cap, and every fault of lookups, cancels and writes
\* other than the loss of the row itself.
THEOREM OneEntryAtATime == Serial => (Spec => []NoStack)
<1>1. SerialInv => NoStack
    BY DEF SerialInv
<1>2. QED
    BY <1>1, SerialAlways, PTL

\* Under the same conditions every order that rests or is open at the broker is
\* named by an attempt row, or by the fire that is about to write that row.
THEOREM EveryLiveOrderHasItsRow == Serial => (Spec => []LiveOrderTracked)
<1>1. SerialInv => LiveOrderTracked
    BY DEF SerialInv
<1>2. QED
    BY <1>1, SerialAlways, PTL

OneCaller == \A c, d \in Callers : c = d

-----------------------------------------------------------------------------
(* Finite sets of numbers and of rows.                                     *)

\* A nonempty set of numbers has a least one.
LEMMA LeastNumber ==
    ASSUME NEW S \in SUBSET Nat, S # {}
    PROVE  \E n \in S : \A m \in S : n <= m
<1> DEFINE R == {ss \in Nat \X Nat : ss[1] < ss[2]}
<1>1. IsWellFoundedOn(R, Nat)
    BY NatLessThanWellFounded DEF OpToRel
<1> HIDE DEF R
<1>2. PICK n \in S : \A m \in S : ~ (<<m, n>> \in R)
    BY <1>1, WFMin
<1>3. \A m \in S : ~ (m < n)
    BY <1>2 DEF R
<1>4. QED
    BY <1>3

\* A nonempty finite set of numbers has a greatest one: of the sizes of the
\* sets that have none, take the least, and leave one element out.
LEMMA GreatestNumber ==
    ASSUME NEW S \in SUBSET Nat, IsFiniteSet(S), S # {}
    PROVE  \E n \in S : \A m \in S : m <= n
<1> DEFINE Bounded(T) == \E n \in T : \A m \in T : m <= n
           Without == {T \in SUBSET S : T # {} /\ ~Bounded(T)}
           Sizes == {Cardinality(T) : T \in Without}
<1>1. \A T \in SUBSET S : IsFiniteSet(T) /\ Cardinality(T) \in Nat
    BY FS_Subset, FS_CardinalityType
<1>2. SUFFICES ASSUME Without # {} PROVE FALSE
    OBVIOUS
<1>3. Sizes \in SUBSET Nat /\ Sizes # {}
    BY <1>1, <1>2
<1>4. PICK k \in Sizes : \A j \in Sizes : k <= j
    BY <1>3, LeastNumber
<1>5. PICK T \in Without : Cardinality(T) = k
    OBVIOUS
<1>6. PICK x \in T : TRUE
    BY <1>5
<1>7. IsFiniteSet(T \ {x}) /\ Cardinality(T \ {x}) = k - 1
    BY <1>1, <1>5, <1>6, FS_RemoveElement
<1>8. T \ {x} # {}
    <2> SUFFICES ASSUME T = {x} PROVE FALSE
        BY <1>6
    <2>1. x \in Nat
        BY <1>6
    <2>2. QED
        BY <2>1, <1>5
<1>9. Bounded(T \ {x})
    <2> SUFFICES ASSUME T \ {x} \in Without PROVE FALSE
        BY <1>8, <1>5
    <2>1. k - 1 \in Sizes
        BY <1>7
    <2>2. k \in Nat
        BY <1>3
    <2>3. k <= k - 1
        BY <2>1, <1>4
    <2>4. QED
        BY <2>2, <2>3
<1>10. PICK n \in T \ {x} : \A m \in T \ {x} : m <= n
    BY <1>9
<1>11. x \in Nat /\ n \in Nat
    BY <1>6, <1>10
<1>12. \A m \in T : m \in Nat
    OBVIOUS
<1>13. CASE x <= n
    BY <1>5, <1>10, <1>13
<1>14. CASE n <= x
    BY <1>5, <1>6, <1>10, <1>11, <1>12, <1>14
<1>15. QED
    BY <1>11, <1>13, <1>14

\* The number of a new attempt is past every number in use.
LEMMA NextIsFresh ==
    ASSUME NEW S \in SUBSET Row, IsFiniteSet(S)
    PROVE  NextAttemptNo(S) \notin RowNumbers(S)
<1> DEFINE f == [r \in S |-> r.no]
           top == {n \in RowNumbers(S) : \A m \in RowNumbers(S) : m <= n}
<1>1. RowNumbers(S) = {f[r] : r \in S} /\ RowNumbers(S) \in SUBSET Nat
    BY DEF RowNumbers, Row
<1>2. f = [r \in S |-> f[r]]
    OBVIOUS
<1> HIDE DEF f
<1>3. IsFiniteSet(RowNumbers(S))
    BY <1>1, <1>2, ImageOfFinite
<1>4. CASE RowNumbers(S) = {}
    BY <1>4
<1>5. CASE RowNumbers(S) # {}
    <2>1. top # {}
        BY <1>1, <1>3, <1>5, GreatestNumber
    <2>2. PICK n \in top : n = (CHOOSE m \in top : TRUE)
        BY <2>1
    <2>3. NextAttemptNo(S) = n + 1
        BY <2>1, <2>2 DEF NextAttemptNo
    <2>4. QED
        BY <1>1, <2>3
<1>6. QED
    BY <1>4, <1>5

\* What each statement of the store makes of a row: nothing is invented.
LEMMA IdentifyFrom ==
    ASSUME NEW S \in SUBSET Row, NEW n
    PROVE  \A q \in Identify(S, n) : \E r \in S :
               r.no = q.no /\ r.oid = q.oid /\ r.bar = q.bar /\ r.superseded = q.superseded
BY DEF Identify, Row

LEMMA SupersedeFrom ==
    ASSUME NEW S \in SUBSET Row, NEW n
    PROVE  \A q \in Supersede(S, n) : \E r \in S :
               /\ r.no = q.no /\ r.oid = q.oid /\ r.bar = q.bar
               /\ q.superseded = (r.superseded \/ r.no = n)
<1> SUFFICES ASSUME NEW r \in S
             PROVE  LET q == IF r.no = n THEN [r EXCEPT !.superseded = TRUE] ELSE r
                    IN  /\ r.no = q.no /\ r.oid = q.oid /\ r.bar = q.bar
                        /\ q.superseded = (r.superseded \/ r.no = n)
    BY DEF Supersede
<1>1. r \in Row
    OBVIOUS
<1>2. CASE r.no = n
    BY <1>1, <1>2 DEF Row
<1>3. CASE r.no # n
    BY <1>1, <1>3 DEF Row
<1>4. QED
    BY <1>2, <1>3

LEMMA RepointFrom ==
    ASSUME NEW S \in SUBSET Row, NEW old, NEW new
    PROVE  \A q \in Repoint(S, old, new) : \E r \in S :
               /\ r.no = q.no /\ r.bar = q.bar /\ r.superseded = q.superseded
               /\ q.oid = IF r.oid = old THEN new ELSE r.oid
BY DEF Repoint, Row

-----------------------------------------------------------------------------
(* What a step does to the rows and to the fire in progress.               *)

\* A fire that has read the rows and not yet written its own.
Begun(c) == pc[c] \in {"backstop", "walk", "cancel", "recheck", "supersede",
                       "cap", "place", "record"}

\* Row q of the new store is row r of the old one.
Before(r, q) == r.no = q.no /\ r.bar = q.bar /\ (r.superseded => q.superseded)

\* Only the record of a placement adds a row, and no step takes a refund back.
LEMMA RowsStay ==
    ASSUME TypeInv, [Next]_vars, \A c \in Callers : ~RecordEntryAttempt(c)
    PROVE  \A q \in rows' : \E r \in rows : Before(r, q)
<1>1. rows \in SUBSET Row
    BY DEF TypeInv, TypeOK
<1> DEFINE Goal == \A q \in rows' : \E r \in rows : Before(r, q)
<1>2. ASSUME rows' = rows PROVE Goal
    BY <1>2 DEF Before
<1>3. ASSUME NEW r, LearnFill(r) PROVE Goal
    BY <1>1, <1>3, IdentifyFrom DEF LearnFill, Before
<1>4. ASSUME NEW c \in Callers, FireStep(c) PROVE Goal
    <2>1. CASE Observe(c)
        BY <1>2, <1>3, <2>1 DEF Observe, ObserveUnresolved, ObservePending, ObserveOpen, ObserveDone
    <2>2. CASE ReObserve(c)
        BY <1>2, <1>3, <2>2 DEF ReObserve
    <2>3. CASE MarkSuperseded(c)
        <3>1. \A r \in rows : r.superseded \in BOOLEAN
            BY <1>1 DEF Row
        <3>2. QED
            BY <1>1, <1>2, <2>3, <3>1, SupersedeFrom DEF MarkSuperseded, Before
    <2>4. CASE ~(Observe(c) \/ ReObserve(c) \/ MarkSuperseded(c))
        BY <1>2, <1>4, <2>4 DEF FireStep, storeVars, Arrive, IsRetryFireSeen, ListEntryAttempts,
            OpenPositionBackstop, CancelResting, CapCheck, PlaceEntry, MarkRetryFireSeen,
            RecordDispatcherOutcome
    <2>5. QED
        BY <2>1, <2>2, <2>3, <2>4
<1>5. CASE SweepStep
    BY <1>2, <1>3, <1>5 DEF SweepStep, storeVars, SweepPendingOrders, SweepOne, SweepConfirm,
        SweepCancel, SweepDelete, Before
<1>6. ASSUME NEW p \in Replacers, ReplaceStep(p) PROVE Goal
    BY <1>1, <1>2, <1>6, RepointFrom DEF Before, ReplaceStep, storeVars, PullOrder, ReplaceOrder, SetReplacement
<1>7. CASE BrokerStep \/ Crash \/ UNCHANGED vars
    BY <1>2, <1>7 DEF BrokerStep, BrokerFill, BrokerExit, BrokerWithdraw, Crash, vars, storeVars
<1>8. QED
    BY <1>4, <1>5, <1>6, <1>7 DEF Next

\* A fire reads the rows at one step and keeps what it has read.
LEMMA BegunStays ==
    ASSUME TypeInv, NEW c \in Callers, FireStep(c), MultiShot, Begun(c)', ~ListEntryAttempts(c)
    PROVE  Begun(c) /\ snap'[c] = snap[c] /\ bar'[c] = bar[c]
<1>1. pc'[c] # "idle"
    BY DEF Begun
<1>2. ~Return(c)
    BY <1>1 DEF Return, TypeInv, TypeOK
<1> USE DEF TypeInv, TypeOK, Begun, Goto
<1>3. CASE \E b \in Bars, m \in {"Full", "Probe"} : Arrive(c, b, m)
    BY <1>3 DEF Arrive
<1>4. CASE IsRetryFireSeen(c)
    BY <1>2, <1>4 DEF IsRetryFireSeen
<1>5. CASE OpenPositionBackstop(c)
    BY <1>2, <1>5 DEF OpenPositionBackstop
<1>6. CASE Observe(c)
    BY <1>2, <1>6 DEF Observe, ObserveUnresolved, ObservePending, ObserveOpen, ObserveDone
<1>7. CASE CancelResting(c) \/ MarkSuperseded(c) \/ RecordEntryAttempt(c) \/ MarkRetryFireSeen(c)
    BY <1>7 DEF CancelResting, MarkSuperseded, RecordEntryAttempt, MarkRetryFireSeen
<1>8. CASE ReObserve(c)
    BY <1>2, <1>8 DEF ReObserve
<1>9. CASE CapCheck(c)
    BY <1>2, <1>9 DEF CapCheck
<1>10. CASE PlaceEntry(c)
    BY <1>2, <1>10 DEF PlaceEntry, Placed, PlacedAmbiguously, PlacementFailed
<1>11. CASE RecordDispatcherOutcome(c)
    BY <1>2, <1>11 DEF RecordDispatcherOutcome
<1>12. QED
    BY <1>3, <1>4, <1>5, <1>6, <1>7, <1>8, <1>9, <1>10, <1>11 DEF FireStep

LEMMA BegunAtList ==
    ASSUME TypeInv, NEW c \in Callers, ListEntryAttempts(c), Begun(c)'
    PROVE  /\ pc[c] = "list" /\ pc'[c] \in {"walk", "backstop"}
           /\ snap'[c] = rows /\ todo'[c] = rows
           /\ UNCHANGED <<order, storeVars, bar, mode, freed, oid, sweepVars, replVars>>
<1>1. ~Return(c)
    BY DEF Return, TypeInv, TypeOK, Begun
<1>2. QED
    BY <1>1 DEF ListEntryAttempts, Goto, TypeInv, TypeOK

\* No other step moves a fire, except a crash that ends it.
LEMMA OthersBeside ==
    ASSUME TypeInv, [Next]_vars, \A c \in Callers : ~FireStep(c)
    PROVE  UNCHANGED gateVars \/ Crash
BY DEF Next, SweepStep, SweepPendingOrders, SweepOne, SweepConfirm, SweepCancel, SweepDelete,
       ReplaceStep, PullOrder, ReplaceOrder, SetReplacement, BrokerStep, BrokerFill, BrokerExit,
       BrokerWithdraw, vars, gateVars

-----------------------------------------------------------------------------
(* Numbers.  With one caller, the numbers in use are among those the fire   *)
(* has read, whatever the sweep deletes and the replacers re-point.         *)

NumbersInv == \A c \in Callers :
    /\ pc[c] \in {"record", "markFire"} => MultiShot
    /\ MultiShot /\ Begun(c) => RowNumbers(rows) \subseteq RowNumbers(snap[c])

\* Only a multi-shot fire has a placement to write down.
LEMMA RecordsMultiShot ==
    ASSUME TypeInv, NumbersInv, [Next]_vars, NEW c \in Callers
    PROVE  pc'[c] \in {"record", "markFire"} => MultiShot
<1>1. CASE FireStep(c)
    <2>1. ~Return(c) \/ pc'[c] = "idle"
        BY DEF Return, TypeInv, TypeOK
    <2>2. QED
        BY <1>1, <2>1 DEF FireStep, Arrive, IsRetryFireSeen, ListEntryAttempts, OpenPositionBackstop,
            Observe, ObserveUnresolved, ObservePending, ObserveOpen, ObserveDone, CancelResting,
            ReObserve, MarkSuperseded, CapCheck, PlaceEntry, Placed, PlacedAmbiguously, PlacementFailed,
            RecordEntryAttempt, MarkRetryFireSeen, RecordDispatcherOutcome, Goto, NumbersInv,
            TypeInv, TypeOK
<1>2. ASSUME NEW d \in Callers, d # c, FireStep(d) PROVE pc'[c] = pc[c]
    BY <1>2 DEF FireStep, Arrive, IsRetryFireSeen, ListEntryAttempts, OpenPositionBackstop,
            Observe, ObserveUnresolved, ObservePending, ObserveOpen, ObserveDone, CancelResting,
            ReObserve, MarkSuperseded, CapCheck, PlaceEntry, Placed, PlacedAmbiguously, PlacementFailed,
            RecordEntryAttempt, MarkRetryFireSeen, RecordDispatcherOutcome, Goto, Return, TypeInv, TypeOK
<1>3. CASE \A d \in Callers : ~FireStep(d)
    BY <1>3, OthersBeside DEF NumbersInv, gateVars, Crash
<1>4. QED
    BY <1>1, <1>2, <1>3 DEF NumbersInv

LEMMA NumbersStep ==
    ASSUME TypeInv, OneCaller, NumbersInv, [Next]_vars
    PROVE  NumbersInv'
<1>1. SUFFICES ASSUME NEW c \in Callers, MultiShot, Begun(c)'
               PROVE  RowNumbers(rows') \subseteq RowNumbers(snap'[c])
    BY RecordsMultiShot DEF NumbersInv
<1>2. \A d \in Callers : ~RecordEntryAttempt(d)
    BY <1>1 DEF OneCaller, RecordEntryAttempt, Goto, TypeInv, TypeOK, Begun
<1>3. RowNumbers(rows') \subseteq RowNumbers(rows)
    BY <1>2, RowsStay DEF RowNumbers, Before
<1>4. CASE ListEntryAttempts(c)
    BY <1>1, <1>4, BegunAtList DEF storeVars
<1>5. CASE FireStep(c) /\ ~ListEntryAttempts(c)
    BY <1>1, <1>3, <1>5, BegunStays DEF NumbersInv
<1>6. CASE ~FireStep(c)
    <2>1. UNCHANGED gateVars
        BY <1>1, <1>6, OthersBeside DEF OneCaller, Crash, Begun
    <2>2. QED
        BY <1>1, <1>3, <2>1 DEF gateVars, Begun, NumbersInv
<1>7. QED
    BY <1>4, <1>5, <1>6

LEMMA TypeAlways == Spec => []TypeInv
<1>1. Init => TypeInv
    <2> SUFFICES ASSUME Init PROVE TypeInv
        OBVIOUS
    <2>1. IsFiniteSet({})
        BY FS_EmptySet
    <2>2. QED
        BY <2>1, AnyBarType DEF Init, TypeInv, TypeOK, IdsKnown, OrderStates, GateStates,
                                SweepStates, ReplStates
<1>2. TypeInv /\ [Next]_vars => TypeInv'
    <2> SUFFICES ASSUME TypeInv, [Next]_vars PROVE TypeInv'
        OBVIOUS
    <2>1. CASE UNCHANGED vars
        BY <2>1 DEF TypeInv, TypeOK, IdsKnown, vars, storeVars, gateVars, sweepVars, replVars
    <2>2. QED
        BY <2>1, FireStepTypes, SweepStepTypes, ReplaceStepTypes, EnvironmentTypes DEF Next
<1>3. QED
    BY <1>1, <1>2, PTL DEF Spec

\* The number a placement is recorded under is not in use, under every fault
\* and with the sweep and the replacers running, as long as one caller at a
\* time is inside the gate.
THEOREM AttemptNumbersFresh == OneCaller => (Spec => []FreshAttemptNumber)
<1> SUFFICES ASSUME OneCaller PROVE Spec => []FreshAttemptNumber
    OBVIOUS
<1>1. Init => NumbersInv
    BY DEF Init, NumbersInv, Begun
<1>2. TypeInv /\ NumbersInv /\ [Next]_vars => NumbersInv'
    BY NumbersStep
<1>3. TypeInv /\ NumbersInv => FreshAttemptNumber
    BY NextIsFresh DEF NumbersInv, FreshAttemptNumber, Begun, TypeInv, TypeOK
<1>4. QED
    BY <1>1, <1>2, <1>3, TypeAlways, PTL DEF Spec

-----------------------------------------------------------------------------
(* Bars.  The bar of every row is marked, or about to be, and the bar of a  *)
(* fire that may still place is not.                                        *)

Marking == "mark" \notin Faults /\ "crash" \notin Faults

BarsMarked ==
    /\ \A r \in rows : r.bar \in fired \/ \E c \in Callers : pc[c] = "markFire" /\ bar[c] = r.bar
    /\ \A c \in Callers : MultiShot /\ (pc[c] = "list" \/ Begun(c)) => bar[c] \notin fired
    /\ OnePlacementPerBar

\* Marks are made by one step, which ends the "markFire" state.
LEMMA MarksStay ==
    ASSUME TypeInv, [Next]_vars, NEW c \in Callers, \A d \in Callers : d = c, Marking
    PROVE  /\ fired' = fired \/ MarkRetryFireSeen(c)
           /\ pc[c] = "markFire" => UNCHANGED <<pc, bar, fired>> \/ MarkRetryFireSeen(c)
           /\ MarkRetryFireSeen(c) => fired' = fired \cup {bar[c]} /\ rows' = rows
                                      /\ pc'[c] = "markSeen" /\ pc[c] = "markFire"
<1>1. CASE FireStep(c)
    BY <1>1 DEF FireStep, Arrive, IsRetryFireSeen, ListEntryAttempts, OpenPositionBackstop,
        Observe, CancelResting, ReObserve, MarkSuperseded, CapCheck, PlaceEntry, Placed,
        PlacedAmbiguously, PlacementFailed, RecordEntryAttempt, MarkRetryFireSeen,
        RecordDispatcherOutcome, Goto, storeVars, Marking, TypeInv, TypeOK
<1>2. CASE ~FireStep(c)
    <2>1. UNCHANGED gateVars
        BY <1>2, OthersBeside DEF Crash, Marking
    <2>2. fired' = fired
        BY <1>2 DEF Next, SweepStep, SweepPendingOrders, SweepOne, SweepConfirm, SweepCancel,
            SweepDelete, ReplaceStep, PullOrder, ReplaceOrder, SetReplacement, BrokerStep,
            BrokerFill, BrokerExit, BrokerWithdraw, Crash, Marking, vars, storeVars
    <2>3. QED
        BY <1>2, <2>1, <2>2 DEF gateVars, FireStep
<1>3. QED
    BY <1>1, <1>2

LEMMA RecordedRow ==
    ASSUME TypeInv, NEW c \in Callers, RecordEntryAttempt(c)
    PROVE  /\ pc[c] = "record" /\ pc'[c] = "markFire" /\ bar' = bar /\ fired' = fired
           /\ \A q \in rows' : q \in rows \/ (q.bar = bar[c] /\ q.no = NextAttemptNo(snap[c]))
BY DEF RecordEntryAttempt, Goto, Upsert, TypeInv, TypeOK

\* The bar of a fire that may still place.
LEMMA OpenBarStep ==
    ASSUME TypeInv, [Next]_vars, NEW c \in Callers, \A d \in Callers : d = c, Marking, BarsMarked,
           MultiShot, pc'[c] = "list" \/ Begun(c)'
    PROVE  bar'[c] \notin fired'
<1>1. fired' = fired
    BY MarksStay DEF Begun
<1>2. CASE pc'[c] = "list" /\ FireStep(c)
    <2>1. ~Return(c)
        BY <1>2 DEF Return, TypeInv, TypeOK
    <2>2. IsRetryFireSeen(c)
        BY <1>2, <2>1 DEF FireStep, Arrive, ListEntryAttempts, OpenPositionBackstop, Observe,
            ObserveUnresolved, ObservePending, ObserveOpen, ObserveDone, CancelResting, ReObserve,
            MarkSuperseded, CapCheck, PlaceEntry, Placed, PlacedAmbiguously, PlacementFailed,
            RecordEntryAttempt, MarkRetryFireSeen, RecordDispatcherOutcome, Goto, TypeInv, TypeOK
    <2>3. QED
        BY <1>1, <2>1, <2>2 DEF IsRetryFireSeen
<1>3. CASE Begun(c)' /\ FireStep(c)
    BY <1>1, <1>3, BegunStays, BegunAtList DEF BarsMarked
<1>4. CASE ~FireStep(c)
    BY <1>1, <1>4, OthersBeside DEF BarsMarked, gateVars, Crash, Marking, Begun
<1>5. QED
    BY <1>2, <1>3, <1>4

LEMMA BarsStep ==
    ASSUME TypeInv, NumbersInv, OneCaller, Marking, BarsMarked, [Next]_vars
    PROVE  BarsMarked'
<1>1. \A c \in Callers : MultiShot /\ (pc'[c] = "list" \/ Begun(c)') => bar'[c] \notin fired'
    BY OpenBarStep DEF OneCaller
<1>2. ASSUME NEW c \in Callers, RecordEntryAttempt(c)
      PROVE  BarsMarked'
    <2>1. \A r \in rows : r.bar \in fired /\ r.bar # bar[c]
        BY <1>2, RecordedRow DEF BarsMarked, OneCaller, NumbersInv, Begun
    <2>2. \A r, q \in rows' : r.bar = q.bar => r.no = q.no
        BY <1>2, <2>1, RecordedRow DEF BarsMarked, OnePlacementPerBar
    <2>3. \A r \in rows' : r.bar \in fired' \/ (pc'[c] = "markFire" /\ bar'[c] = r.bar)
        BY <1>2, <2>1, RecordedRow
    <2>4. QED
        BY <1>1, <2>2, <2>3 DEF BarsMarked, OnePlacementPerBar
<1>3. CASE \A c \in Callers : ~RecordEntryAttempt(c)
    <2>1. \A q \in rows' : \E r \in rows : r.no = q.no /\ r.bar = q.bar
        BY <1>3, RowsStay DEF Before
    <2>2. \A r, q \in rows' : r.bar = q.bar => r.no = q.no
        BY <2>1 DEF BarsMarked, OnePlacementPerBar
    <2>3. ASSUME NEW q \in rows'
          PROVE  q.bar \in fired' \/ \E c \in Callers : pc'[c] = "markFire" /\ bar'[c] = q.bar
        <3>1. PICK r \in rows : r.bar = q.bar
            BY <2>1
        <3>2. CASE r.bar \in fired
            <4>1. fired \subseteq fired'
                BY MarksStay, <3>2 DEF OneCaller, Next, SweepStep, SweepPendingOrders, SweepOne,
                    SweepConfirm, SweepCancel, SweepDelete, ReplaceStep, PullOrder, ReplaceOrder,
                    SetReplacement, BrokerStep, BrokerFill, BrokerExit, BrokerWithdraw, Crash,
                    vars, storeVars
            <4>2. QED
                BY <3>1, <3>2, <4>1
        <3>3. ASSUME NEW c \in Callers, pc[c] = "markFire", bar[c] = r.bar
              PROVE  q.bar \in fired' \/ (pc'[c] = "markFire" /\ bar'[c] = q.bar)
            BY <3>1, <3>3, MarksStay DEF OneCaller
        <3>4. QED
            BY <3>1, <3>2, <3>3 DEF BarsMarked
    <2>4. QED
        BY <1>1, <2>2, <2>3 DEF BarsMarked, OnePlacementPerBar
<1>4. QED
    BY <1>2, <1>3

\* However often a bar fires, it is placed once, with every fault but a lost
\* mark and a stop before the mark, the sweep and the replacers running.
THEOREM BarsPlacedOnce == OneCaller /\ Marking => (Spec => []OnePlacementPerBar)
<1> SUFFICES ASSUME OneCaller, Marking PROVE Spec => []OnePlacementPerBar
    OBVIOUS
<1>1. Init => NumbersInv /\ BarsMarked
    BY DEF Init, NumbersInv, BarsMarked, OnePlacementPerBar, Begun
<1>2. TypeInv /\ NumbersInv /\ BarsMarked /\ [Next]_vars => NumbersInv' /\ BarsMarked'
    BY NumbersStep, BarsStep
<1>3. BarsMarked => OnePlacementPerBar
    BY DEF BarsMarked
<1>4. QED
    BY <1>1, <1>2, <1>3, TypeAlways, PTL DEF Spec

-----------------------------------------------------------------------------
(* Refunds.  A slot is refunded for an order the gate itself cancelled; the *)
(* row it is refunded on must still be that order's when the mark is made,  *)
(* and no replacer may point the row at another order afterwards.           *)

Early(c) == pc[c] \in {"backstop", "walk", "cancel", "recheck"}
Holds(p, o) == rpc[p] # "idle" /\ rold[p] = o

BookInv ==
    /\ UniqueRows(rows)
    /\ \A r \in rows : r.superseded =>
          order[r.oid] = "cancelled" /\ \A p \in Replacers : ~Holds(p, r.oid)
    /\ \A p \in Replacers : rpc[p] # "idle" => rold[p] \in Orders /\ order[rold[p]] = "cancelled"

\* What a fire knows of the rows it has read and those in the store.
FireKnows(c) ==
    /\ UniqueRows(snap[c]) /\ todo[c] \subseteq snap[c]
    /\ \A r \in snap[c] : r.superseded => order[r.oid] = "cancelled"
    /\ Early(c) => \A r \in todo[c], q \in rows :
                      q.no = r.no => q.oid = r.oid \/ order[r.oid] = "cancelled"
    /\ pc[c] = "supersede" => \A r \in todo[c] : Newest(r, todo[c]) =>
          /\ order[r.oid] = "cancelled" /\ ~r.superseded
          /\ \A q \in rows : q.no = r.no => q.oid = r.oid
          /\ \A p \in Replacers : ~Holds(p, r.oid)

RefundInv == BookInv /\ \A c \in Callers : FireKnows(c)

SameRows ==
    /\ UniqueRows(rows')
    /\ \A q \in rows' : \E r \in rows : r.no = q.no /\ r.oid = q.oid /\ r.superseded = q.superseded

\* A cancelled order stays cancelled, and a replacer takes only a resting one.
CancelsKept ==
    /\ \A o \in Orders : order[o] = "cancelled" => order'[o] = "cancelled"
    /\ \A p \in Replacers, o \in Orders : Holds(p, o)' => Holds(p, o) \/ order[o] = "pending"
    /\ \A p \in Replacers : rpc'[p] # "idle" => rold'[p] \in Orders /\ order'[rold'[p]] = "cancelled"

LEMMA CancelsStay ==
    ASSUME TypeInv, BookInv, [Next]_vars
    PROVE  CancelsKept
<1> USE DEF TypeInv, TypeOK, BookInv, CancelsKept, Holds
<1>1. ASSUME NEW c \in Callers, FireStep(c) PROVE CancelsKept
    <2>1. \A o \in Orders : order[o] = "cancelled" => order'[o] = "cancelled"
        BY <1>1 DEF FireStep, Arrive, IsRetryFireSeen, ListEntryAttempts, OpenPositionBackstop,
            Observe, CancelResting, ReObserve, MarkSuperseded, CapCheck, PlaceEntry, Placed,
            PlacedAmbiguously, PlacementFailed, RecordEntryAttempt, MarkRetryFireSeen,
            RecordDispatcherOutcome
    <2>2. UNCHANGED replVars
        BY <1>1 DEF FireStep, Arrive, IsRetryFireSeen, ListEntryAttempts, OpenPositionBackstop,
            Observe, CancelResting, ReObserve, MarkSuperseded, CapCheck, PlaceEntry,
            RecordEntryAttempt, MarkRetryFireSeen, RecordDispatcherOutcome
    <2>3. QED
        BY <2>1, <2>2 DEF replVars
<1>2. CASE SweepStep
    BY <1>2 DEF SweepStep, SweepPendingOrders, SweepOne, SweepConfirm, SweepCancel, SweepDelete, replVars
<1>3. ASSUME NEW p \in Replacers, ReplaceStep(p) PROVE CancelsKept
    BY <1>3 DEF ReplaceStep, PullOrder, ReplaceOrder, SetReplacement
<1>4. CASE BrokerStep
    BY <1>4 DEF BrokerStep, BrokerFill, BrokerExit, BrokerWithdraw, replVars
<1>5. CASE Crash \/ UNCHANGED vars
    BY <1>5 DEF Crash, vars, replVars
<1>6. QED
    BY <1>1, <1>2, <1>3, <1>4, <1>5 DEF Next

LEMMA BookStays ==
    ASSUME TypeInv, BookInv, SameRows, CancelsKept
    PROVE  BookInv'
<1>1. ASSUME NEW q \in rows', q.superseded
      PROVE  order'[q.oid] = "cancelled" /\ \A p \in Replacers : ~Holds(p, q.oid)'
    <2>1. PICK r \in rows : r.no = q.no /\ r.oid = q.oid /\ r.superseded = q.superseded
        BY DEF SameRows
    <2>2. r.oid \in Orders
        BY DEF TypeInv, TypeOK, Row
    <2>3. order[r.oid] = "cancelled" /\ \A p \in Replacers : ~Holds(p, r.oid)
        BY <1>1, <2>1 DEF BookInv
    <2>4. \A p \in Replacers : ~Holds(p, r.oid)'
        BY <2>2, <2>3 DEF CancelsKept
    <2>5. QED
        BY <2>1, <2>2, <2>3, <2>4 DEF CancelsKept, Holds
<1>2. QED
    BY <1>1 DEF BookInv, SameRows, CancelsKept

LEMMA KnowsStays ==
    ASSUME TypeInv, SameRows, CancelsKept, NEW c \in Callers, FireKnows(c),
           snap'[c] = snap[c], todo'[c] \subseteq todo[c], Early(c)' => Early(c),
           pc'[c] = "supersede" => pc[c] = "supersede" /\ todo'[c] = todo[c]
    PROVE  FireKnows(c)'
<1>1. \A r \in snap[c] : r.oid \in Orders
    BY DEF TypeInv, TypeOK, Row
<1>2. \A r \in snap[c] : order[r.oid] = "cancelled" => order'[r.oid] = "cancelled"
    BY <1>1 DEF CancelsKept
<1>3. ASSUME Early(c)', NEW r \in todo'[c], NEW q \in rows', q.no = r.no
      PROVE  q.oid = r.oid \/ order'[r.oid] = "cancelled"
    BY <1>2, <1>3 DEF FireKnows, SameRows
<1>4. ASSUME pc'[c] = "supersede", NEW r \in todo'[c], Newest(r, todo'[c])
      PROVE  /\ order'[r.oid] = "cancelled" /\ ~r.superseded
             /\ \A q \in rows' : q.no = r.no => q.oid = r.oid
             /\ \A p \in Replacers : ~Holds(p, r.oid)'
    <2>1. /\ r \in snap[c] /\ order[r.oid] = "cancelled" /\ ~r.superseded
          /\ \A q \in rows : q.no = r.no => q.oid = r.oid
          /\ \A p \in Replacers : ~Holds(p, r.oid)
        BY <1>4 DEF FireKnows
    <2>2. \A p \in Replacers : ~Holds(p, r.oid)'
        BY <1>1, <2>1 DEF CancelsKept
    <2>3. QED
        BY <1>2, <2>1, <2>2 DEF SameRows
<1>5. QED
    BY <1>2, <1>3, <1>4 DEF FireKnows, Newest, Holds, Early

\* Writing a position id leaves every row as it was counted.
LEMMA LearnFillSame ==
    ASSUME TypeInv, UniqueRows(rows), NEW r, LearnFill(r)
    PROVE  SameRows
<1>1. rows \in SUBSET Row
    BY DEF TypeInv, TypeOK
<1>2. QED
    BY <1>1, IdentifyFrom, ColumnWrites DEF LearnFill, SameRows

\* A step that leaves the rows' counts and the fires alone.
LEMMA RefundBeside ==
    ASSUME TypeInv, RefundInv, SameRows, [Next]_vars, UNCHANGED gateVars
    PROVE  RefundInv'
<1>1. CancelsKept
    BY CancelsStay DEF RefundInv
<1>2. BookInv'
    BY <1>1, BookStays DEF RefundInv
<1>3. \A c \in Callers : FireKnows(c)'
    BY <1>1, KnowsStays DEF RefundInv, gateVars, Early
<1>4. QED
    BY <1>2, <1>3 DEF RefundInv

LEMMA SameRowsHere ==
    ASSUME RefundInv, rows' = rows
    PROVE  SameRows
BY DEF RefundInv, BookInv, SameRows

\* A fire that has returned has read nothing.
LEMMA KnowsNothing ==
    ASSUME NEW c, snap'[c] = {}, todo'[c] = {}, pc'[c] = "idle"
    PROVE  FireKnows(c)'
BY DEF FireKnows, UniqueRows, Early

LEMMA ReturnKnows ==
    ASSUME TypeInv, NEW c \in Callers, Return(c)
    PROVE  FireKnows(c)'
<1>1. snap'[c] = {} /\ todo'[c] = {} /\ pc'[c] = "idle"
    BY DEF Return, TypeInv, TypeOK
<1>2. QED
    BY <1>1, KnowsNothing

LEMMA RefundSweep ==
    ASSUME TypeInv, RefundInv, SweepStep
    PROVE  RefundInv'
<1>1. SameRows
    <2>1. CASE SweepConfirm
        BY <2>1, SameRowsHere, LearnFillSame DEF SweepConfirm, RefundInv, BookInv
    <2>2. CASE SweepDelete
        BY <2>2 DEF SweepDelete, SameRows, RefundInv, BookInv, UniqueRows
    <2>3. QED
        BY <2>1, <2>2, SameRowsHere DEF SweepStep, SweepPendingOrders, SweepOne, SweepCancel, storeVars
<1>2. UNCHANGED gateVars
    BY DEF SweepStep, SweepPendingOrders, SweepOne, SweepConfirm, SweepCancel, SweepDelete
<1>3. QED
    BY <1>1, <1>2, RefundBeside DEF Next

\* A row is pointed at a new order only if its old one was pulled, and a
\* refunded row's order is in no replacer's hands.
LEMMA RefundReplace ==
    ASSUME TypeInv, RefundInv, NEW p \in Replacers, ReplaceStep(p)
    PROVE  RefundInv'
<1>1. CASE ~SetReplacement(p) \/ rows' = rows
    BY <1>1, SameRowsHere, RefundBeside DEF ReplaceStep, PullOrder, ReplaceOrder, SetReplacement, storeVars, Next
<1>2. CASE SetReplacement(p) /\ rows' # rows
    <2>1. /\ rpc[p] = "repoint" /\ rows' = Repoint(rows, rold[p], rnew[p])
          /\ UNCHANGED <<order, gateVars>> /\ Holds(p, rold[p])
        BY <1>2 DEF SetReplacement, Holds
    <2>2. CancelsKept
        BY <1>2, CancelsStay DEF RefundInv, Next, ReplaceStep
    <2>3. \A q \in rows' : \E r \in rows :
              /\ r.no = q.no /\ r.superseded = q.superseded
              /\ q.oid = IF r.oid = rold[p] THEN rnew[p] ELSE r.oid
        BY <2>1, RepointFrom DEF TypeInv, TypeOK
    <2>4. UniqueRows(rows')
        <3> SUFFICES ASSUME NEW x \in rows', NEW y \in rows', x.no = y.no PROVE x = y
            BY DEF UniqueRows
        <3> DEFINE f(q) == IF q.oid = rold[p] THEN [q EXCEPT !.oid = rnew[p]] ELSE q
        <3>1. PICK r \in rows : x = f(r)
            BY <2>1 DEF Repoint
        <3>2. PICK q \in rows : y = f(q)
            BY <2>1 DEF Repoint
        <3>3. \A s \in rows : f(s).no = s.no
            BY DEF TypeInv, TypeOK, Row
        <3>4. r = q
            BY <3>1, <3>2, <3>3 DEF RefundInv, BookInv, UniqueRows
        <3>5. QED
            BY <3>1, <3>2, <3>4
    <2>5. ASSUME NEW q \in rows', q.superseded
          PROVE  order'[q.oid] = "cancelled" /\ \A e \in Replacers : ~Holds(e, q.oid)'
        <3>1. PICK r \in rows : r.superseded /\ q.oid = IF r.oid = rold[p] THEN rnew[p] ELSE r.oid
            BY <2>3, <2>5
        <3>2. order[r.oid] = "cancelled" /\ \A e \in Replacers : ~Holds(e, r.oid)
            BY <3>1 DEF RefundInv, BookInv
        <3>3. q.oid = r.oid
            BY <2>1, <3>1, <3>2
        <3>4. q.oid \in Orders
            BY <3>3 DEF TypeInv, TypeOK, Row
        <3>5. QED
            BY <2>1, <2>2, <3>2, <3>3, <3>4 DEF CancelsKept, Holds
    <2>6. BookInv'
        BY <2>2, <2>4, <2>5 DEF BookInv, CancelsKept
    <2>7. ASSUME NEW c \in Callers PROVE FireKnows(c)'
        <3>1. FireKnows(c) /\ order[rold[p]] = "cancelled"
            BY <2>1 DEF RefundInv, BookInv
        <3>2. ASSUME Early(c), NEW r \in todo[c], NEW q \in rows', q.no = r.no
              PROVE  q.oid = r.oid \/ order[r.oid] = "cancelled"
            BY <2>3, <3>1, <3>2 DEF FireKnows
        <3>3. ASSUME pc[c] = "supersede", NEW r \in todo[c], Newest(r, todo[c])
              PROVE  /\ \A q \in rows' : q.no = r.no => q.oid = r.oid
                     /\ \A e \in Replacers : ~Holds(e, r.oid)'
            <4>1. /\ \A q \in rows : q.no = r.no => q.oid = r.oid
                  /\ \A e \in Replacers : ~Holds(e, r.oid)
                  /\ order[r.oid] = "cancelled" /\ r \in snap[c]
                BY <3>1, <3>3 DEF FireKnows
            <4>2. r.oid # rold[p] /\ r.oid \in Orders
                BY <2>1, <4>1 DEF TypeInv, TypeOK, Row
            <4>3. \A q \in rows' : q.no = r.no => q.oid = r.oid
                BY <2>3, <4>1, <4>2
            <4>4. \A e \in Replacers : ~Holds(e, r.oid)'
                BY <2>2, <4>1, <4>2 DEF CancelsKept
            <4>5. QED
                BY <4>3, <4>4
        <3>4. QED
            BY <2>1, <3>1, <3>2, <3>3 DEF FireKnows, Newest, gateVars, Early
    <2>8. QED
        BY <2>6, <2>7 DEF RefundInv
<1>3. QED
    BY <1>1, <1>2

LEMMA RefundEnvironment ==
    ASSUME TypeInv, RefundInv, BrokerStep \/ Crash \/ UNCHANGED vars
    PROVE  RefundInv'
<1>1. [Next]_vars /\ SameRows
    BY SameRowsHere DEF Next, BrokerStep, BrokerFill, BrokerExit, BrokerWithdraw, Crash, vars, storeVars
<1>2. CASE Crash
    <2>1. BookInv'
        BY <1>1, BookStays, CancelsStay DEF RefundInv
    <2>2. \A c \in Callers : FireKnows(c)'
        BY <1>2, KnowsNothing DEF Crash
    <2>3. QED
        BY <2>1, <2>2 DEF RefundInv
<1>3. CASE ~Crash
    BY <1>1, <1>3, RefundBeside DEF BrokerStep, BrokerFill, BrokerExit, BrokerWithdraw, vars, gateVars
<1>4. QED
    BY <1>2, <1>3

\* A call of the only fire that changes no row the gate counts by: it goes on
\* with what it has read, or it returns.
LEMMA RefundCall ==
    ASSUME TypeInv, RefundInv, NEW c \in Callers, \A d \in Callers : d = c, FireStep(c), SameRows,
           \/ Return(c)
           \/ /\ snap'[c] = snap[c] /\ todo'[c] \subseteq todo[c]
              /\ Early(c)' => Early(c)
              /\ pc'[c] # "supersede"
    PROVE  RefundInv'
<1>1. CancelsKept /\ [Next]_vars
    BY CancelsStay DEF RefundInv, Next
<1>2. BookInv'
    BY <1>1, BookStays DEF RefundInv
<1>3. FireKnows(c)'
    BY <1>1, ReturnKnows, KnowsStays DEF RefundInv
<1>4. QED
    BY <1>2, <1>3 DEF RefundInv

\* The order the gate cancels is the one its row still names, was never
\* refunded, and is in no replacer's hands.
LEMMA RefundCancel ==
    ASSUME TypeInv, RefundInv, NEW c \in Callers, \A d \in Callers : d = c, CancelResting(c)
    PROVE  RefundInv'
<1>1. SameRows
    BY SameRowsHere DEF CancelResting, storeVars
<1>2. FireStep(c)
    BY DEF FireStep
<1>3. CASE pc'[c] # "supersede"
    BY <1>1, <1>2, <1>3, RefundCall DEF CancelResting, Goto, Early, TypeInv, TypeOK
<1>4. CASE pc'[c] = "supersede"
    <2>1. CancelsKept /\ [Next]_vars
        BY <1>2, CancelsStay DEF RefundInv, Next
    <2>2. BookInv'
        BY <1>1, <2>1, BookStays DEF RefundInv
    <2>3. /\ pc[c] = "cancel" /\ snap' = snap /\ todo' = todo /\ rows' = rows
          /\ UNCHANGED replVars
        BY DEF CancelResting, storeVars, Goto
    <2>4. PICK r \in todo[c] : /\ Newest(r, todo[c]) /\ order[r.oid] = "pending"
                               /\ order' = [order EXCEPT ![r.oid] = "cancelled"]
        BY <1>4 DEF CancelResting, Goto, TypeInv, TypeOK
    <2>5. FireKnows(c) /\ r \in Row /\ todo[c] \subseteq Row
        BY DEF RefundInv, TypeInv, TypeOK
    <2>6. \A q \in todo[c] : Newest(q, todo[c]) => q = r
        <3> SUFFICES ASSUME NEW q \in todo[c], Newest(q, todo[c]) PROVE q = r
            OBVIOUS
        <3>1. q.no \in Nat /\ r.no \in Nat /\ q.no <= r.no /\ r.no <= q.no
            BY <2>4, <2>5 DEF Newest, Row
        <3>2. q.no = r.no
            BY <3>1
        <3>3. QED
            BY <2>5, <3>2 DEF FireKnows, UniqueRows
    <2>7. /\ ~r.superseded
          /\ \A q \in rows : q.no = r.no => q.oid = r.oid
          /\ \A p \in Replacers : ~Holds(p, r.oid)
        BY <2>3, <2>4, <2>5 DEF FireKnows, Early, RefundInv, BookInv, Holds
    <2>8. order'[r.oid] = "cancelled"
        BY <2>4, <2>5 DEF TypeInv, TypeOK, Row
    <2>9. \A q \in snap[c] : q.superseded => order'[q.oid] = "cancelled"
        BY <2>1, <2>5 DEF FireKnows, CancelsKept, TypeInv, TypeOK, Row
    <2>10. FireKnows(c)'
        BY <1>4, <2>3, <2>5, <2>6, <2>7, <2>8, <2>9 DEF FireKnows, Early, Newest, Holds, replVars
    <2>11. QED
        BY <2>2, <2>10 DEF RefundInv
<1>5. QED
    BY <1>3, <1>4

\* The mark goes to the row of the order just cancelled.
LEMMA RefundMark ==
    ASSUME TypeInv, RefundInv, NEW c \in Callers, \A d \in Callers : d = c, MarkSuperseded(c)
    PROVE  RefundInv'
<1>1. FireStep(c) /\ pc[c] = "supersede" /\ pc'[c] = "cap"
      /\ UNCHANGED <<order, snap, todo, replVars>>
    BY DEF FireStep, MarkSuperseded, Goto, TypeInv, TypeOK
<1>2. CASE rows' = rows
    BY <1>1, <1>2, SameRowsHere, RefundCall DEF Early
<1>3. CASE rows' # rows
    <2>1. PICK r \in todo[c] : Newest(r, todo[c]) /\ rows' = Supersede(rows, r.no)
        BY <1>3 DEF MarkSuperseded
    <2>2. /\ order[r.oid] = "cancelled"
          /\ \A q \in rows : q.no = r.no => q.oid = r.oid
          /\ \A p \in Replacers : ~Holds(p, r.oid)
        BY <1>1, <2>1 DEF RefundInv, FireKnows
    <2>3. \A q \in rows' : \E x \in rows :
              x.oid = q.oid /\ x.no = q.no /\ q.superseded = (x.superseded \/ x.no = r.no)
        BY <2>1, SupersedeFrom DEF TypeInv, TypeOK
    <2>4. UniqueRows(rows')
        BY <2>1, ColumnWrites DEF RefundInv, BookInv, TypeInv, TypeOK
    <2>5. ASSUME NEW q \in rows', q.superseded
          PROVE  order'[q.oid] = "cancelled" /\ \A p \in Replacers : ~Holds(p, q.oid)'
        <3>1. PICK x \in rows : x.oid = q.oid /\ x.no = q.no /\ (x.superseded \/ x.no = r.no)
            BY <2>3, <2>5
        <3>2. order[x.oid] = "cancelled" /\ \A p \in Replacers : ~Holds(p, x.oid)
            BY <2>2, <3>1 DEF RefundInv, BookInv
        <3>3. QED
            BY <1>1, <3>1, <3>2 DEF Holds, replVars
    <2>6. BookInv'
        BY <1>1, <2>4, <2>5 DEF RefundInv, BookInv, replVars
    <2>7. FireKnows(c)'
        BY <1>1 DEF RefundInv, FireKnows, Early
    <2>8. QED
        BY <2>6, <2>7 DEF RefundInv
<1>4. QED
    BY <1>2, <1>3

\* A recorded placement is a row of its own, and not a refunded one.
LEMMA RefundRecord ==
    ASSUME TypeInv, RefundInv, NEW c \in Callers, \A d \in Callers : d = c, RecordEntryAttempt(c)
    PROVE  RefundInv'
<1>1. pc'[c] = "markFire" /\ UNCHANGED <<order, snap, todo, replVars>>
    BY DEF RecordEntryAttempt, Goto, TypeInv, TypeOK
<1>2. /\ UniqueRows(rows')
      /\ \A q \in rows' : q.superseded => q \in rows
    <2> DEFINE row == [no |-> NextAttemptNo(snap[c]), oid |-> oid[c],
                       bar |-> bar[c], known |-> FALSE, superseded |-> FALSE]
    <2>1. rows' = rows \/ rows' = {q \in rows : q.no # row.no} \cup {row}
        BY DEF RecordEntryAttempt, Upsert
    <2>2. ~row.superseded
        OBVIOUS
    <2> HIDE DEF row
    <2>3. QED
        BY <2>1, <2>2 DEF UniqueRows, RefundInv, BookInv
<1>3. BookInv'
    BY <1>1, <1>2 DEF RefundInv, BookInv, Holds, replVars
<1>4. FireKnows(c)'
    BY <1>1 DEF RefundInv, FireKnows, Early
<1>5. QED
    BY <1>3, <1>4 DEF RefundInv

LEMMA RefundFire ==
    ASSUME TypeInv, RefundInv, NEW c \in Callers, \A d \in Callers : d = c, FireStep(c)
    PROVE  RefundInv'
<1> USE DEF Early, Goto
<1>1. ASSUME NEW b \in Bars, NEW m \in {"Full", "Probe"}, Arrive(c, b, m) PROVE RefundInv'
    BY <1>1, SameRowsHere, RefundCall DEF Arrive, storeVars, TypeInv, TypeOK
<1>2. CASE IsRetryFireSeen(c)
    BY <1>2, SameRowsHere, RefundCall DEF IsRetryFireSeen, storeVars, TypeInv, TypeOK
<1>3. CASE ListEntryAttempts(c)
    <2>1. CASE Return(c)
        BY <1>3, <2>1, SameRowsHere, RefundCall DEF ListEntryAttempts, storeVars
    <2>2. CASE ~Return(c)
        <3>1. /\ snap'[c] = rows /\ todo'[c] = rows /\ rows' = rows /\ order' = order
              /\ pc'[c] # "supersede"
            BY <1>3, <2>2 DEF ListEntryAttempts, storeVars, TypeInv, TypeOK
        <3>2. BookInv'
            BY <1>3, <2>2 DEF ListEntryAttempts, storeVars, replVars, RefundInv, BookInv, Holds
        <3>3. FireKnows(c)'
            BY <3>1 DEF RefundInv, BookInv, FireKnows, UniqueRows
        <3>4. QED
            BY <3>2, <3>3 DEF RefundInv
    <2>3. QED
        BY <2>1, <2>2
<1>4. CASE OpenPositionBackstop(c)
    BY <1>4, SameRowsHere, RefundCall DEF OpenPositionBackstop, storeVars, TypeInv, TypeOK
<1>5. CASE Observe(c)
    <2>1. PICK r \in todo[c] : ObserveUnresolved(c, r) \/ ObservePending(c, r) \/ ObserveOpen(c, r)
                                   \/ ObserveDone(c, r)
        BY <1>5 DEF Observe
    <2>2. SameRows
        BY <2>1, SameRowsHere, LearnFillSame
        DEF RefundInv, BookInv, ObserveUnresolved, ObservePending, ObserveOpen, ObserveDone
    <2>3. Return(c) \/ (snap'[c] = snap[c] /\ todo'[c] \subseteq todo[c] /\ pc'[c] \in {"walk", "cancel"})
        BY <1>5, <2>1 DEF Observe, ObserveUnresolved, ObservePending, ObserveOpen, ObserveDone, TypeInv, TypeOK
    <2>4. QED
        BY <1>5, <2>2, <2>3, RefundCall DEF Observe
<1>6. CASE CancelResting(c)
    BY <1>6, RefundCancel
<1>7. CASE ReObserve(c)
    <2>1. SameRows
        BY <1>7, SameRowsHere, LearnFillSame DEF RefundInv, BookInv, ReObserve
    <2>2. QED
        BY <1>7, <2>1, RefundCall DEF ReObserve, TypeInv, TypeOK
<1>8. CASE MarkSuperseded(c)
    BY <1>8, RefundMark
<1>9. CASE CapCheck(c)
    BY <1>9, SameRowsHere, RefundCall DEF CapCheck, storeVars, TypeInv, TypeOK
<1>10. CASE PlaceEntry(c)
    BY <1>10, SameRowsHere, RefundCall DEF PlaceEntry, Placed, PlacedAmbiguously, PlacementFailed,
        storeVars, TypeInv, TypeOK
<1>11. CASE RecordEntryAttempt(c)
    BY <1>11, RefundRecord
<1>12. CASE MarkRetryFireSeen(c) \/ RecordDispatcherOutcome(c)
    BY <1>12, SameRowsHere, RefundCall DEF MarkRetryFireSeen, RecordDispatcherOutcome, TypeInv, TypeOK
<1>13. QED
    BY <1>1, <1>2, <1>3, <1>4, <1>5, <1>6, <1>7, <1>8, <1>9, <1>10, <1>11, <1>12 DEF FireStep

\* A refunded slot is never an entry, under every fault and with the sweep and
\* the restores that re-point rows running beside the gate, as long as one
\* caller at a time is inside it.
THEOREM RefundsNeverEntered == OneCaller => (Spec => []SupersededNeverEntered)
<1> SUFFICES ASSUME OneCaller PROVE Spec => []SupersededNeverEntered
    OBVIOUS
<1>1. Init => RefundInv
    BY DEF Init, RefundInv, BookInv, FireKnows, UniqueRows, Early
<1>2. TypeInv /\ RefundInv /\ [Next]_vars => RefundInv'
    BY RefundFire, RefundSweep, RefundReplace, RefundEnvironment DEF Next, OneCaller
<1>3. RefundInv => SupersededNeverEntered
    BY DEF RefundInv, BookInv, SupersededNeverEntered
<1>4. QED
    BY <1>1, <1>2, <1>3, TypeAlways, PTL DEF Spec

-----------------------------------------------------------------------------
(* The cap.  The rows that consume a slot are among those the fire charges, *)
(* by number: what it leaves out is the one row it has just refunded.       *)

\* The gate's own terms: the cap is one number, and a refund is never lost.
Refunding == MultiShot /\ "supersede" \notin Faults /\ \A a, b \in Bars : Cap[a] = Cap[b]

Consuming(S) == {r \in S : ~r.superseded}
CoveredBy(S, T) == \A q \in S : \E r \in T : r.no = q.no

CapKnows(c) == Begun(c) =>
    /\ \A b \in Bars : Cardinality(Consuming(snap[c])) <= Cap[b]
    /\ CoveredBy(Consuming(rows), Charged(snap[c], freed[c]))
    /\ pc[c] \notin {"cap", "place", "record"} => freed[c] = {}
    /\ freed[c] # {} => \E r \in Consuming(snap[c]) : freed[c] = {r.no}
    /\ pc[c] \in {"place", "record"} => \A b \in Bars : PlacedEntries(c) < Cap[b]

\* A fire that has read nothing has freed nothing.
NotBegun(c) == pc[c] \in {"idle", "fireSeen", "list"}
FreesNothing(c) == NotBegun(c) => freed[c] = {}

CapInv == SlotsWithinCap /\ \A c \in Callers : CapKnows(c) /\ FreesNothing(c)

\* Rows with numbers of their own are no more than those that cover them.
LEMMA CoverBounds ==
    ASSUME NEW S, UniqueRows(S), NEW T, IsFiniteSet(T), CoveredBy(S, T)
    PROVE  IsFiniteSet(S) /\ Cardinality(S) <= Cardinality(T)
<1> DEFINE f == [q \in S |-> CHOOSE r \in T : r.no = q.no]
<1>1. \A q \in S : f[q] \in T /\ f[q].no = q.no
    BY DEF CoveredBy
<1>2. f \in [S -> T]
    BY <1>1
<1>3. \A q, r \in S : f[q] = f[r] => q = r
    BY <1>1 DEF UniqueRows
<1> HIDE DEF f
<1>4. f \in Injection(S, T)
    BY <1>2, <1>3 DEF Injection, IsInjective
<1>5. QED
    BY <1>4, FS_Injection

LEMMA FiniteParts ==
    ASSUME NEW S, IsFiniteSet(S), NEW free
    PROVE  /\ IsFiniteSet(Consuming(S)) /\ Cardinality(Consuming(S)) \in Nat
           /\ IsFiniteSet(Charged(S, free)) /\ Cardinality(Charged(S, free)) \in Nat
           /\ Cardinality(Charged(S, free)) <= Cardinality(Consuming(S))
<1>1. Consuming(S) \in SUBSET S /\ Charged(S, free) \in SUBSET Consuming(S)
    BY DEF Consuming, Charged
<1>2. QED
    BY <1>1, FS_Subset, FS_CardinalityType

\* A refund frees a slot: the fire charges one row fewer.
LEMMA RefundFrees ==
    ASSUME NEW S, IsFiniteSet(S), NEW r \in Consuming(S)
    PROVE  Cardinality(Charged(S, {r.no})) < Cardinality(Consuming(S))
<1>1. Charged(S, {r.no}) \in SUBSET Consuming(S) /\ r \notin Charged(S, {r.no})
    BY DEF Consuming, Charged
<1>2. Cardinality(Charged(S, {r.no})) # Cardinality(Consuming(S))
    BY <1>1, FiniteParts, FS_Subset
<1>3. QED
    BY <1>2, FiniteParts

\* The order of a fire's calls, for what it has freed and counted.
LEMMA BegunOrder ==
    ASSUME TypeInv, NEW c \in Callers, FireStep(c), MultiShot, Begun(c)', ~ListEntryAttempts(c)
    PROVE  /\ freed'[c] = freed[c] \/ MarkSuperseded(c)
           /\ pc[c] \in {"cap", "place", "record"} => pc'[c] \in {"cap", "place", "record"}
           /\ pc'[c] = "place" => freed'[c] = freed[c] /\ PlacedEntries(c) < Cap[bar[c]]
           /\ pc'[c] = "record" => freed'[c] = freed[c] /\ pc[c] = "place"
<1>1. pc'[c] # "idle"
    BY DEF Begun
<1>2. ~Return(c)
    BY <1>1 DEF Return, TypeInv, TypeOK
<1> USE DEF TypeInv, TypeOK, Begun, Goto
<1>3. CASE \E b \in Bars, m \in {"Full", "Probe"} : Arrive(c, b, m)
    BY <1>3 DEF Arrive
<1>4. CASE IsRetryFireSeen(c)
    BY <1>2, <1>4 DEF IsRetryFireSeen
<1>5. CASE OpenPositionBackstop(c)
    BY <1>2, <1>5 DEF OpenPositionBackstop
<1>6. CASE Observe(c)
    BY <1>2, <1>6 DEF Observe, ObserveUnresolved, ObservePending, ObserveOpen, ObserveDone
<1>7. CASE CancelResting(c) \/ MarkSuperseded(c) \/ RecordEntryAttempt(c) \/ MarkRetryFireSeen(c)
    BY <1>7 DEF CancelResting, MarkSuperseded, RecordEntryAttempt, MarkRetryFireSeen
<1>8. CASE ReObserve(c)
    BY <1>2, <1>8 DEF ReObserve
<1>9. CASE CapCheck(c)
    BY <1>2, <1>9 DEF CapCheck
<1>10. CASE PlaceEntry(c)
    BY <1>2, <1>10 DEF PlaceEntry, Placed, PlacedAmbiguously, PlacementFailed
<1>11. CASE RecordDispatcherOutcome(c)
    BY <1>2, <1>11 DEF RecordDispatcherOutcome
<1>12. QED
    BY <1>3, <1>4, <1>5, <1>6, <1>7, <1>8, <1>9, <1>10, <1>11 DEF FireStep

\* Every step but the record of a placement leaves no more rows consuming.
LEMMA SlotsKept ==
    ASSUME TypeInv, RefundInv', SlotsWithinCap, [Next]_vars, \A c \in Callers : ~RecordEntryAttempt(c)
    PROVE  CoveredBy(Consuming(rows'), Consuming(rows)) /\ SlotsWithinCap'
<1>1. CoveredBy(Consuming(rows'), Consuming(rows))
    BY RowsStay DEF CoveredBy, Consuming, Before
<1>2. UniqueRows(Consuming(rows')) /\ IsFiniteSet(Consuming(rows)) /\ Cardinality(Consuming(rows)) \in Nat
    BY FiniteParts DEF RefundInv, BookInv, UniqueRows, Consuming, TypeInv, TypeOK
<1>3. /\ IsFiniteSet(Consuming(rows')) /\ Cardinality(Consuming(rows')) \in Nat
      /\ Cardinality(Consuming(rows')) <= Cardinality(Consuming(rows))
    BY <1>1, <1>2, CoverBounds, FS_CardinalityType
<1>4. \A b \in Bars : Cap[b] \in Nat
    BY CapAssumption
<1>5. QED
    BY <1>1, <1>2, <1>3, <1>4 DEF SlotsWithinCap, Consuming

\* The placement that is recorded was counted for: its slot was free.
LEMMA SlotsAtRecord ==
    ASSUME TypeInv, RefundInv, CapInv, NEW c \in Callers, RecordEntryAttempt(c)
    PROVE  SlotsWithinCap'
<1> DEFINE row == [no |-> NextAttemptNo(snap[c]), oid |-> oid[c],
                   bar |-> bar[c], known |-> FALSE, superseded |-> FALSE]
<1>1. Consuming(rows') \in SUBSET (Consuming(rows) \cup {row})
    BY DEF RecordEntryAttempt, Upsert, Consuming
<1> HIDE DEF row
<1>2. /\ CoveredBy(Consuming(rows), Charged(snap[c], freed[c]))
      /\ \A b \in Bars : PlacedEntries(c) < Cap[b]
    BY DEF CapInv, CapKnows, Begun, RecordEntryAttempt, Goto
<1>3. IsFiniteSet(Charged(snap[c], freed[c])) /\ PlacedEntries(c) \in Nat
    BY FiniteParts DEF TypeInv, TypeOK, PlacedEntries
<1>4. UniqueRows(Consuming(rows))
    BY DEF RefundInv, BookInv, UniqueRows, Consuming
<1>5. IsFiniteSet(Consuming(rows)) /\ Cardinality(Consuming(rows)) <= PlacedEntries(c)
    BY <1>2, <1>3, <1>4, CoverBounds DEF PlacedEntries
<1> DEFINE S == Consuming(rows)
<1>6. /\ IsFiniteSet(S \cup {row}) /\ Cardinality(S) \in Nat
      /\ Cardinality(S \cup {row}) = IF row \in S THEN Cardinality(S) ELSE Cardinality(S) + 1
    BY <1>5, FS_AddElement, FS_CardinalityType
<1>7. /\ Cardinality(Consuming(rows')) \in Nat
      /\ Cardinality(Consuming(rows')) <= Cardinality(S \cup {row})
    BY <1>1, <1>6, FS_Subset, FS_CardinalityType
<1> HIDE DEF S
<1>8. Cardinality(S) <= PlacedEntries(c)
    BY <1>5 DEF S
<1>9. Cardinality(Consuming(rows')) <= PlacedEntries(c) + 1
    BY <1>3, <1>6, <1>7, <1>8
<1>10. \A b \in Bars : Cap[b] \in Nat
    BY CapAssumption
<1>11. \A b \in Bars : Cardinality(Consuming(rows')) <= Cap[b]
    BY <1>2, <1>3, <1>7, <1>9, <1>10
<1>12. QED
    BY <1>11 DEF SlotsWithinCap, Consuming

\* What the fire counts, across one step of its own.
LEMMA CapFire ==
    ASSUME TypeInv, RefundInv, CapInv, Refunding, NEW c \in Callers, FireStep(c),
           CoveredBy(Consuming(rows'), Consuming(rows)), Begun(c)'
    PROVE  CapKnows(c)'
<1>1. CASE ListEntryAttempts(c)
    <2>1. /\ pc[c] = "list" /\ pc'[c] \in {"walk", "backstop"} /\ rows' = rows
          /\ snap'[c] = rows /\ freed'[c] = freed[c]
        BY <1>1, BegunAtList DEF storeVars
    <2>2. freed[c] = {}
        BY <2>1 DEF CapInv, FreesNothing, NotBegun
    <2>3. QED
        BY <2>1, <2>2 DEF CapKnows, CapInv, SlotsWithinCap, Consuming, Charged, CoveredBy, Begun
<1>2. CASE ~ListEntryAttempts(c)
    <2>1. /\ Begun(c) /\ snap'[c] = snap[c]
          /\ freed'[c] = freed[c] \/ MarkSuperseded(c)
          /\ pc[c] \in {"cap", "place", "record"} => pc'[c] \in {"cap", "place", "record"}
          /\ pc'[c] \in {"place", "record"} =>
                 freed'[c] = freed[c] /\ (pc[c] \in {"place", "record"} \/ PlacedEntries(c) < Cap[bar[c]])
        BY <1>2, BegunStays, BegunOrder DEF Refunding
    <2>2. CapKnows(c)
        BY DEF CapInv
    <2>3. CASE freed'[c] = freed[c]
        <3>1. CoveredBy(Consuming(rows'), Charged(snap[c], freed[c]))
            BY <2>1, <2>2 DEF CapKnows, CoveredBy
        <3>2. pc'[c] \in {"place", "record"} => \A b \in Bars : PlacedEntries(c) < Cap[b]
            BY <2>1, <2>2 DEF CapKnows, Refunding, TypeInv, TypeOK
        <3>3. QED
            BY <2>1, <2>2, <2>3, <3>1, <3>2 DEF CapKnows, PlacedEntries
    <2>4. CASE MarkSuperseded(c)
        <3>1. PICK r \in todo[c] : /\ Newest(r, todo[c]) /\ freed' = [freed EXCEPT ![c] = {r.no}]
                                   /\ rows' = Supersede(rows, r.no)
            BY <2>4 DEF MarkSuperseded, Refunding
        <3>2. pc[c] = "supersede" /\ pc'[c] = "cap" /\ freed'[c] = {r.no}
            BY <2>4, <3>1 DEF MarkSuperseded, Goto, TypeInv, TypeOK
        <3>3. r \in Consuming(snap[c])
            BY <3>1, <3>2 DEF RefundInv, FireKnows, Consuming
        <3>4. ASSUME NEW q \in Consuming(rows') PROVE q.no # r.no
            <4>1. PICK x \in rows : x.no = q.no /\ q.superseded = (x.superseded \/ x.no = r.no)
                BY <3>1, SupersedeFrom DEF Consuming, TypeInv, TypeOK
            <4>2. QED
                BY <4>1 DEF Consuming
        <3>5. freed[c] = {}
            BY <2>1, <2>2, <3>2 DEF CapKnows
        <3>6. CoveredBy(Consuming(rows'), Charged(snap[c], {r.no}))
            BY <2>1, <2>2, <3>4, <3>5 DEF CapKnows, CoveredBy, Charged
        <3>7. QED
            BY <2>1, <2>2, <3>2, <3>3, <3>6 DEF CapKnows
    <2>5. QED
        BY <2>1, <2>3, <2>4
<1>3. QED
    BY <1>1, <1>2

LEMMA FreesStep ==
    ASSUME TypeInv, NEW c \in Callers, FireStep(c), FreesNothing(c), MultiShot
    PROVE  FreesNothing(c)'
<1>1. Return(c) => freed'[c] = {}
    BY DEF Return, TypeInv, TypeOK
<1>2. QED
    BY <1>1 DEF FireStep, Arrive, IsRetryFireSeen, ListEntryAttempts, OpenPositionBackstop,
        Observe, ObserveUnresolved, ObservePending, ObserveOpen, ObserveDone, CancelResting,
        ReObserve, MarkSuperseded, CapCheck, PlaceEntry, Placed, PlacedAmbiguously, PlacementFailed,
        RecordEntryAttempt, MarkRetryFireSeen, RecordDispatcherOutcome, Goto, FreesNothing, NotBegun,
        TypeInv, TypeOK

LEMMA CapStep ==
    ASSUME TypeInv, RefundInv, RefundInv', OneCaller, Refunding, CapInv, [Next]_vars
    PROVE  CapInv'
<1>1. ASSUME NEW c \in Callers, RecordEntryAttempt(c)
      PROVE  CapInv'
    <2>1. pc'[c] = "markFire" /\ \A d \in Callers : d = c
        BY <1>1 DEF OneCaller, RecordEntryAttempt, Goto, TypeInv, TypeOK
    <2>2. SlotsWithinCap'
        BY <1>1, SlotsAtRecord
    <2>3. QED
        BY <2>1, <2>2 DEF CapInv, CapKnows, FreesNothing, NotBegun, Begun
<1>2. CASE \A c \in Callers : ~RecordEntryAttempt(c)
    <2>1. CoveredBy(Consuming(rows'), Consuming(rows)) /\ SlotsWithinCap'
        BY <1>2, SlotsKept DEF CapInv
    <2>2. ASSUME NEW c \in Callers PROVE CapKnows(c)' /\ FreesNothing(c)'
        <3>1. CapKnows(c) /\ FreesNothing(c)
            BY DEF CapInv
        <3>2. CASE FireStep(c)
            <4>1. FreesNothing(c)'
                BY <3>1, <3>2, FreesStep DEF Refunding
            <4>2. CapKnows(c)'
                BY <2>1, <3>2, CapFire DEF CapKnows
            <4>3. QED
                BY <4>1, <4>2
        <3>3. CASE Crash
            BY <3>3 DEF Crash, CapKnows, FreesNothing, Begun
        <3>4. CASE UNCHANGED gateVars
            BY <2>1, <3>1, <3>4 DEF gateVars, CapKnows, FreesNothing, NotBegun, Begun, CoveredBy,
                PlacedEntries, Charged
        <3>5. QED
            BY <3>2, <3>3, <3>4, OthersBeside DEF OneCaller
    <2>3. QED
        BY <2>1, <2>2 DEF CapInv
<1>3. QED
    BY <1>1, <1>2

LEMMA CapAlways == OneCaller /\ Refunding => (Spec => [](TypeInv /\ RefundInv /\ CapInv))
<1> SUFFICES ASSUME OneCaller, Refunding PROVE Spec => [](TypeInv /\ RefundInv /\ CapInv)
    OBVIOUS
<1>1. Init => RefundInv
    BY DEF Init, RefundInv, BookInv, FireKnows, UniqueRows, Early
<1>2. Init => CapInv
    <2> SUFFICES ASSUME Init PROVE CapInv
        OBVIOUS
    <2>1. {r \in rows : ~r.superseded} = {} /\ Cardinality({}) = 0
        BY FS_EmptySet DEF Init
    <2>2. \A b \in Bars : Cap[b] \in Nat
        BY CapAssumption
    <2>3. SlotsWithinCap
        BY <2>1, <2>2 DEF SlotsWithinCap
    <2>4. QED
        BY <2>3 DEF Init, CapInv, CapKnows, FreesNothing, Begun
<1>3. TypeInv /\ RefundInv /\ [Next]_vars => RefundInv'
    BY RefundFire, RefundSweep, RefundReplace, RefundEnvironment DEF Next, OneCaller
<1>4. TypeInv /\ RefundInv /\ RefundInv' /\ CapInv /\ [Next]_vars => CapInv'
    BY CapStep
<1>5. QED
    BY <1>1, <1>2, <1>3, <1>4, TypeAlways, PTL DEF Spec

\* The rows that consume a slot never outnumber the slots, whatever is swept,
\* re-pointed, restored, placed ambiguously or lost in a crash.
THEOREM ConsumingWithinCap == OneCaller /\ Refunding => (Spec => []SlotsWithinCap)
<1>1. CapInv => SlotsWithinCap
    BY DEF CapInv
<1>2. QED
    BY <1>1, CapAlways, PTL

\* The rail: a fire that has cancelled the resting order is not refused by the
\* cap, because the row it has just refunded is no longer charged.
THEOREM CancelsOnlyToReplace == OneCaller /\ Refunding => (Spec => []NeverCancelThenReject)
<1>1. ASSUME TypeInv, CapInv PROVE NeverCancelThenReject
    <2> SUFFICES ASSUME NEW c \in Callers, pc[c] = "cap", freed[c] # {}
                 PROVE  PlacedEntries(c) < Cap[bar[c]]
        BY DEF NeverCancelThenReject
    <2>1. CapKnows(c) /\ Begun(c) /\ bar[c] \in Bars /\ IsFiniteSet(snap[c]) /\ Cap[bar[c]] \in Nat
        BY <1>1, CapAssumption DEF CapInv, Begun, TypeInv, TypeOK
    <2>2. PICK r \in Consuming(snap[c]) : freed[c] = {r.no}
        BY <2>1 DEF CapKnows
    <2>3. PlacedEntries(c) < Cardinality(Consuming(snap[c]))
        BY <2>1, <2>2, RefundFrees DEF PlacedEntries
    <2>4. Cardinality(Consuming(snap[c])) <= Cap[bar[c]]
        BY <2>1 DEF CapKnows
    <2>5. PlacedEntries(c) \in Nat /\ Cardinality(Consuming(snap[c])) \in Nat
        BY <2>1, FiniteParts DEF PlacedEntries
    <2>6. QED
        BY <2>1, <2>3, <2>4, <2>5
<1>2. QED
    BY <1>1, CapAlways, PTL

-----------------------------------------------------------------------------
(* A gate that runs alone.                                                  *)

\* The cap is one number for every bar of the trade.
OneCap == \A a, b \in Bars : Cap[a] = Cap[b]

-----------------------------------------------------------------------------
(* Entries.  Every order that rests, is open or has closed is one the fire  *)
(* charges, because its row was never refunded.                             *)

Entered == {o \in Orders : order[o] \in {"pending", "open", "closed"}}
Names(S, o) == \E r \in S : r.oid = o

EntriesKnown(c) ==
    /\ pc[c] \notin {"cap", "place", "record", "markFire", "markSeen"} => freed[c] = {}
    /\ Begun(c) /\ pc[c] # "record" => \A o \in Entered : Names(Charged(snap[c], freed[c]), o)
    /\ pc[c] = "place" => \A b \in Bars : PlacedEntries(c) < Cap[b]

EntriesInv ==
    /\ IsFiniteSet(Entered)
    /\ \A b \in Bars : Cardinality(Entered) <= Cap[b]
    /\ \A o \in Entered : Names(rows, o) \/ \E c \in Callers : pc[c] = "record" /\ oid[c] = o
    /\ \A c \in Callers : EntriesKnown(c)

AloneInv == SerialInv /\ NumbersInv /\ RefundInv

\* Orders named by different rows are no more than the rows.
LEMMA NamedBounds ==
    ASSUME NEW S, NEW T, IsFiniteSet(T), \A o \in S : Names(T, o)
    PROVE  IsFiniteSet(S) /\ Cardinality(S) <= Cardinality(T)
<1> DEFINE f == [o \in S |-> CHOOSE r \in T : r.oid = o]
<1>1. \A o \in S : f[o] \in T /\ f[o].oid = o
    BY DEF Names
<1>2. f \in [S -> T]
    BY <1>1
<1>3. \A o, p \in S : f[o] = f[p] => o = p
    BY <1>1
<1> HIDE DEF f
<1>4. f \in Injection(S, T)
    BY <1>2, <1>3 DEF Injection, IsInjective
<1>5. QED
    BY <1>4, FS_Injection

\* With no sweep, replacer or crash, every attempt keeps its row.
LEMMA NamesStay ==
    ASSUME AloneInv, Serial, [Next]_vars
    PROVE  /\ \A o \in Orders : Names(rows, o) => Names(rows', o)
           /\ \A c \in Callers : RecordEntryAttempt(c) => Names(rows', oid[c])
<1> USE DEF Names
<1>1. ASSUME rows' = rows \/ SameAttempts(rows, rows')
      PROVE  \A o \in Orders : Names(rows, o) => Names(rows', o)
    BY <1>1 DEF SameAttempts
<1>2. ASSUME NEW c \in Callers, RecordEntryAttempt(c)
      PROVE  Names(rows', oid[c]) /\ \A o \in Orders : Names(rows, o) => Names(rows', o)
    <2>1. MultiShot /\ Begun(c)
        BY <1>2 DEF Serial, RecordEntryAttempt, Goto, Begun
    <2>2. NextAttemptNo(snap[c]) \notin RowNumbers(rows)
        BY <2>1, NextIsFresh DEF AloneInv, NumbersInv, SerialInv, TypeInv, TypeOK
    <2>3. \A r \in rows : r.no # NextAttemptNo(snap[c])
        BY <2>2 DEF RowNumbers
    <2> DEFINE row == [no |-> NextAttemptNo(snap[c]), oid |-> oid[c],
                       bar |-> bar[c], known |-> FALSE, superseded |-> FALSE]
    <2>4. rows' = {q \in rows : q.no # row.no} \cup {row}
        BY <1>2 DEF RecordEntryAttempt, Serial, Upsert
    <2>5. row.oid = oid[c] /\ row.no = NextAttemptNo(snap[c])
        OBVIOUS
    <2> HIDE DEF row
    <2>6. QED
        BY <2>3, <2>4, <2>5
<1>3. ASSUME NEW c \in Callers, FireStep(c), ~RecordEntryAttempt(c)
      PROVE  rows' = rows \/ SameAttempts(rows, rows')
    <2>1. CASE Observe(c)
        BY <2>1, LearnFillAttempts
        DEF AloneInv, Observe, ObserveUnresolved, ObservePending, ObserveOpen, ObserveDone
    <2>2. CASE ReObserve(c)
        BY <2>2, LearnFillAttempts DEF AloneInv, ReObserve
    <2>3. CASE MarkSuperseded(c)
        BY <2>3, ColumnWrites DEF AloneInv, SerialInv, TypeInv, TypeOK, MarkSuperseded
    <2>4. CASE ~(Observe(c) \/ ReObserve(c) \/ MarkSuperseded(c))
        BY <1>3, <2>4 DEF FireStep, storeVars, Arrive, IsRetryFireSeen, ListEntryAttempts,
            OpenPositionBackstop, CancelResting, CapCheck, PlaceEntry, MarkRetryFireSeen,
            RecordDispatcherOutcome
    <2>5. QED
        BY <2>1, <2>2, <2>3, <2>4
<1>4. CASE \A c \in Callers : ~FireStep(c)
    <2>1. ~SweepStep /\ ~Crash /\ Replacers = {}
        BY DEF AloneInv, Serial, SerialInv, SweepStep, SweepPendingOrders, SweepOne, SweepConfirm,
               SweepCancel, SweepDelete, Crash
    <2>2. rows' = rows
        BY <1>4, <2>1 DEF Next, BrokerStep, BrokerFill, BrokerExit, BrokerWithdraw, vars, storeVars
    <2>3. QED
        BY <1>1, <1>4, <2>2 DEF FireStep
<1>5. QED
    BY <1>1, <1>2, <1>3, <1>4 DEF Serial

\* Only a placement enters an order, and it writes down which.
LEMMA EnteredStep ==
    ASSUME AloneInv, Serial, [Next]_vars
    PROVE  \/ Entered' \subseteq Entered
           \/ \E c \in Callers, o \in Orders :
                 /\ pc[c] = "place" /\ pc'[c] = "record" /\ oid'[c] = o
                 /\ UNCHANGED <<rows, snap, freed>>
                 /\ Entered' \subseteq Entered \cup {o}
<1> USE DEF Entered
<1>1. ASSUME NEW c \in Callers, FireStep(c), ~PlaceEntry(c) PROVE Entered' \subseteq Entered
    BY <1>1 DEF FireStep, Arrive, IsRetryFireSeen, ListEntryAttempts, OpenPositionBackstop,
        Observe, CancelResting, ReObserve, MarkSuperseded, CapCheck, RecordEntryAttempt,
        MarkRetryFireSeen, RecordDispatcherOutcome, AloneInv, SerialInv, TypeInv, TypeOK
<1>2. ASSUME NEW c \in Callers, PlacementFailed(c) PROVE Entered' \subseteq Entered
    BY <1>2 DEF PlacementFailed
<1>3. ASSUME NEW c \in Callers, PlaceEntry(c), Placed(c)
      PROVE  \E o \in Orders :
                 /\ pc[c] = "place" /\ pc'[c] = "record" /\ oid'[c] = o
                 /\ UNCHANGED <<rows, snap, freed>>
                 /\ Entered' \subseteq Entered \cup {o}
    BY <1>3 DEF PlaceEntry, Placed, Goto, Serial, storeVars, AloneInv, SerialInv, TypeInv, TypeOK
<1>4. ~SweepStep /\ ~Crash /\ Replacers = {} /\ \A c \in Callers : ~PlacedAmbiguously(c)
    BY DEF AloneInv, Serial, SerialInv, SweepStep, SweepPendingOrders, SweepOne, SweepConfirm,
           SweepCancel, SweepDelete, Crash, PlacedAmbiguously
<1>5. CASE BrokerStep \/ UNCHANGED vars
    BY <1>5 DEF BrokerStep, BrokerFill, BrokerExit, BrokerWithdraw, vars, AloneInv, SerialInv, TypeInv, TypeOK
<1>6. QED
    BY <1>1, <1>2, <1>3, <1>4, <1>5 DEF Next, PlaceEntry

\* An order placed has a slot: all that entered before it are charged.
LEMMA CountStep ==
    ASSUME AloneInv, EntriesInv, Serial, [Next]_vars
    PROVE  IsFiniteSet(Entered)' /\ \A b \in Bars : Cardinality(Entered') <= Cap[b]
<1>1. \A b \in Bars : Cap[b] \in Nat
    BY CapAssumption
<1>2. IsFiniteSet(Entered) /\ Cardinality(Entered) \in Nat
    BY FS_CardinalityType DEF EntriesInv
<1>3. CASE Entered' \subseteq Entered
    <2>1. IsFiniteSet(Entered') /\ Cardinality(Entered') <= Cardinality(Entered) /\ Cardinality(Entered') \in Nat
        BY <1>2, <1>3, FS_Subset, FS_CardinalityType
    <2>2. QED
        BY <1>1, <1>2, <2>1 DEF EntriesInv
<1>4. ASSUME NEW c \in Callers, NEW o \in Orders, pc[c] = "place", Entered' \subseteq Entered \cup {o}
      PROVE  IsFiniteSet(Entered') /\ \A b \in Bars : Cardinality(Entered') <= Cap[b]
    <2>1. /\ \A e \in Entered : Names(Charged(snap[c], freed[c]), e)
          /\ \A b \in Bars : PlacedEntries(c) < Cap[b]
        BY <1>4 DEF EntriesInv, EntriesKnown, Begun
    <2>2. IsFiniteSet(Charged(snap[c], freed[c])) /\ PlacedEntries(c) \in Nat
        BY FiniteParts DEF AloneInv, SerialInv, TypeInv, TypeOK, PlacedEntries
    <2>3. Cardinality(Entered) <= PlacedEntries(c)
        BY <2>1, <2>2, NamedBounds DEF PlacedEntries
    <2>4. /\ IsFiniteSet(Entered \cup {o})
          /\ Cardinality(Entered \cup {o}) = IF o \in Entered THEN Cardinality(Entered) ELSE Cardinality(Entered) + 1
        BY <1>2, FS_AddElement
    <2>5. /\ IsFiniteSet(Entered') /\ Cardinality(Entered') \in Nat
          /\ Cardinality(Entered') <= Cardinality(Entered \cup {o})
        BY <1>4, <2>4, FS_Subset, FS_CardinalityType
    <2>6. Cardinality(Entered') <= PlacedEntries(c) + 1
        BY <1>2, <2>2, <2>3, <2>4, <2>5
    <2>7. QED
        BY <1>1, <2>1, <2>2, <2>5, <2>6
<1>5. QED
    BY <1>3, <1>4, EnteredStep

\* What the fire charges, across one step of its own.
LEMMA KnownStep ==
    ASSUME AloneInv, EntriesInv, Serial, OneCap, NEW c \in Callers, FireStep(c)
    PROVE  EntriesKnown(c)'
<1> USE DEF AloneInv, SerialInv, TypeInv, TypeOK
<1>1. EntriesKnown(c) /\ [Next]_vars /\ \A d \in Callers : d = c
    BY DEF EntriesInv, Next, Serial
<1>2. pc'[c] \notin {"cap", "place", "record", "markFire", "markSeen"} => freed'[c] = {}
    <2>1. Return(c) => freed'[c] = {}
        BY DEF Return
    <2>2. QED
        BY <1>1, <2>1 DEF EntriesKnown, FireStep, Arrive, IsRetryFireSeen, ListEntryAttempts,
            OpenPositionBackstop, Observe, ObserveUnresolved, ObservePending, ObserveOpen, ObserveDone,
            CancelResting, ReObserve, MarkSuperseded, CapCheck, PlaceEntry, Placed, PlacedAmbiguously,
            PlacementFailed, RecordEntryAttempt, MarkRetryFireSeen, RecordDispatcherOutcome, Goto, Serial
<1>3. ASSUME Begun(c)', pc'[c] # "record", NEW o \in Entered'
      PROVE  Names(Charged(snap'[c], freed'[c]), o)
    <2>1. o \in Entered /\ o \in Orders
        BY <1>1, <1>3, EnteredStep DEF Entered
    <2>2. CASE ListEntryAttempts(c)
        <3>1. pc[c] = "list" /\ snap'[c] = rows /\ freed'[c] = {}
            BY <1>1, <1>3, <2>2, BegunAtList DEF EntriesKnown
        <3>2. PICK r \in rows : r.oid = o
            BY <1>1, <2>1, <3>1 DEF EntriesInv, Names
        <3>3. ~r.superseded
            BY <2>1, <3>2 DEF RefundInv, BookInv, Entered
        <3>4. QED
            BY <3>1, <3>2, <3>3 DEF Names, Charged
    <2>3. CASE ~ListEntryAttempts(c)
        <3>1. Begun(c) /\ snap'[c] = snap[c] /\ (freed'[c] = freed[c] \/ MarkSuperseded(c))
            BY <1>3, <2>3, BegunStays, BegunOrder DEF Serial
        <3>2. pc[c] # "record"
            BY <1>3 DEF FireStep, Arrive, IsRetryFireSeen, ListEntryAttempts, OpenPositionBackstop,
                Observe, CancelResting, ReObserve, MarkSuperseded, CapCheck, PlaceEntry, Placed,
                PlacedAmbiguously, PlacementFailed, RecordEntryAttempt, MarkRetryFireSeen,
                RecordDispatcherOutcome, Goto, Begun
        <3>3. Names(Charged(snap[c], freed[c]), o)
            BY <1>1, <2>1, <3>1, <3>2 DEF EntriesKnown
        <3>4. CASE MarkSuperseded(c)
            <4>1. PICK r \in todo[c] : Newest(r, todo[c]) /\ freed'[c] = {r.no}
                BY <3>4 DEF MarkSuperseded
            <4>2. pc[c] = "supersede"
                BY <3>4 DEF MarkSuperseded, Goto
            <4>3. order[r.oid] = "cancelled" /\ r \in snap[c] /\ UniqueRows(snap[c])
                BY <4>1, <4>2 DEF RefundInv, FireKnows
            <4>4. PICK x \in Charged(snap[c], freed[c]) : x.oid = o
                BY <3>3 DEF Names
            <4>5. x # r /\ x \in snap[c] /\ ~x.superseded
                BY <2>1, <4>3, <4>4 DEF Entered, Charged
            <4>6. x.no # r.no
                BY <4>3, <4>5 DEF UniqueRows
            <4>7. QED
                BY <3>1, <4>1, <4>4, <4>5, <4>6 DEF Names, Charged
        <3>5. QED
            BY <3>1, <3>3, <3>4
    <2>4. QED
        BY <2>2, <2>3
<1>4. ASSUME pc'[c] = "place" PROVE \A b \in Bars : PlacedEntries(c)' < Cap[b]
    <2>1. Begun(c)' /\ ~ListEntryAttempts(c)
        BY <1>4, BegunAtList DEF Begun
    <2>2. snap'[c] = snap[c] /\ freed'[c] = freed[c] /\ PlacedEntries(c) < Cap[bar[c]]
        BY <1>4, <2>1, BegunStays, BegunOrder DEF Serial
    <2>3. QED
        BY <2>2 DEF OneCap, PlacedEntries
<1>5. QED
    BY <1>2, <1>3, <1>4 DEF EntriesKnown

LEMMA EntriesStep ==
    ASSUME AloneInv, EntriesInv, Serial, OneCap, [Next]_vars
    PROVE  EntriesInv'
<1>1. IsFiniteSet(Entered)' /\ \A b \in Bars : Cardinality(Entered') <= Cap[b]
    BY CountStep
<1>2. ASSUME NEW o \in Entered'
      PROVE  Names(rows', o) \/ \E c \in Callers : pc'[c] = "record" /\ oid'[c] = o
    <2>1. o \in Orders
        BY DEF Entered
    <2>2. CASE o \notin Entered
        BY <2>2, EnteredStep
    <2>3. CASE o \in Entered /\ Names(rows, o)
        BY <2>1, <2>3, NamesStay
    <2>4. ASSUME NEW c \in Callers, pc[c] = "record", oid[c] = o
          PROVE  Names(rows', o) \/ (pc'[c] = "record" /\ oid'[c] = o)
        <3>1. CASE FireStep(c)
            <4>1. RecordEntryAttempt(c)
                BY <2>4, <3>1 DEF FireStep, Arrive, IsRetryFireSeen, ListEntryAttempts,
                    OpenPositionBackstop, Observe, CancelResting, ReObserve, MarkSuperseded, CapCheck,
                    PlaceEntry, Placed, PlacedAmbiguously, PlacementFailed, MarkRetryFireSeen,
                    RecordDispatcherOutcome, Goto
            <4>2. QED
                BY <2>4, <4>1, NamesStay
        <3>2. CASE ~FireStep(c)
            <4>1. UNCHANGED gateVars
                BY <3>2, OthersBeside DEF AloneInv, SerialInv, Serial, Crash
            <4>2. QED
                BY <2>4, <4>1 DEF gateVars
        <3>3. QED
            BY <3>1, <3>2
    <2>5. QED
        BY <2>2, <2>3, <2>4 DEF EntriesInv
<1>3. ASSUME NEW c \in Callers PROVE EntriesKnown(c)'
    <2>1. CASE FireStep(c)
        BY <2>1, KnownStep
    <2>2. CASE ~FireStep(c)
        <3>1. UNCHANGED gateVars
            BY <2>2, OthersBeside DEF AloneInv, SerialInv, Serial, Crash
        <3>2. Entered' \subseteq Entered
            BY <3>1, EnteredStep DEF gateVars
        <3>3. QED
            BY <3>1, <3>2 DEF EntriesInv, EntriesKnown, gateVars, Begun, PlacedEntries
    <2>3. QED
        BY <2>1, <2>2
<1>4. QED
    BY <1>1, <1>2, <1>3 DEF EntriesInv

LEMMA EntriesAlways == Serial /\ OneCap => (Spec => [](AloneInv /\ EntriesInv))
<1> SUFFICES ASSUME Serial, OneCap PROVE Spec => [](AloneInv /\ EntriesInv)
    OBVIOUS
<1>1. Init => NumbersInv /\ RefundInv
    BY DEF Init, NumbersInv, RefundInv, BookInv, FireKnows, UniqueRows, Early, Begun
<1>2. Init => EntriesInv
    <2> SUFFICES ASSUME Init PROVE EntriesInv
        OBVIOUS
    <2>1. Entered = {} /\ IsFiniteSet({}) /\ Cardinality({}) = 0
        BY FS_EmptySet DEF Init, Entered
    <2>2. \A b \in Bars : Cap[b] \in Nat
        BY CapAssumption
    <2>3. QED
        BY <2>1, <2>2 DEF Init, EntriesInv, EntriesKnown, Begun
<1>3. SerialInv /\ NumbersInv /\ RefundInv /\ [Next]_vars => NumbersInv' /\ RefundInv'
    BY NumbersStep, RefundFire, RefundSweep, RefundReplace, RefundEnvironment
    DEF Next, OneCaller, Serial, SerialInv
<1>4. AloneInv /\ EntriesInv /\ [Next]_vars => EntriesInv'
    BY EntriesStep
<1>5. QED
    BY <1>1, <1>2, <1>3, <1>4, SerialAlways, PTL DEF Spec, AloneInv

\* What filled is a finite part of what entered.
LEMMA FilledBound == EntriesInv => EntriesWithinCap /\ IsFiniteSet({o \in Orders : Filled(o)})
<1> SUFFICES ASSUME EntriesInv
             PROVE  EntriesWithinCap /\ IsFiniteSet({o \in Orders : Filled(o)})
    OBVIOUS
<1>1. {o \in Orders : Filled(o)} \in SUBSET Entered /\ IsFiniteSet(Entered)
    BY DEF Filled, Entered, EntriesInv
<1>2. /\ IsFiniteSet({o \in Orders : Filled(o)})
      /\ Cardinality({o \in Orders : Filled(o)}) <= Cardinality(Entered)
      /\ Cardinality({o \in Orders : Filled(o)}) \in Nat /\ Cardinality(Entered) \in Nat
    BY <1>1, FS_Subset, FS_CardinalityType
<1>3. \A b \in Bars : Cap[b] \in Nat /\ Cardinality(Entered) <= Cap[b]
    BY CapAssumption DEF EntriesInv
<1>4. QED
    BY <1>2, <1>3 DEF EntriesWithinCap

\* The orders that filled never exceed the cap, however often the order was
\* cancelled and re-placed meanwhile, for a gate that runs alone.
THEOREM FilledWithinCap == Serial /\ OneCap => (Spec => []EntriesWithinCap)
BY FilledBound, EntriesAlways, PTL

-----------------------------------------------------------------------------
(* The promise.  At most one order is live, so a step that changes an order *)
(* changes the slot by that order alone.                                    *)

SlotOf(s) == IF s = "open" THEN "open" ELSE IF s = "pending" THEN "resting" ELSE "flat"
FilledOrders == {o \in Orders : Filled(o)}

LEMMA SlotChange ==
    ASSUME TypeOK, NEW o \in Orders, NEW s, order' = [order EXCEPT ![o] = s],
           \A p \in Orders : Live(p) => p = o
    PROVE  Slot = SlotOf(order[o]) /\ Slot' = SlotOf(s)
<1>1. \A p \in Orders : order'[p] = IF p = o THEN s ELSE order[p]
    BY DEF TypeOK
<1>2. \A p \in Orders : p # o => order[p] \notin {"open", "pending"}
    BY DEF Live
<1>3. Slot = SlotOf(order[o])
    BY <1>2 DEF Slot, SlotOf
<1>4. Slot' = SlotOf(s)
    BY <1>1, <1>2 DEF Slot, SlotOf
<1>5. QED
    BY <1>3, <1>4

LEMMA EntriesChange ==
    ASSUME TypeOK, NEW o \in Orders, NEW s, order' = [order EXCEPT ![o] = s],
           IsFiniteSet(FilledOrders), Filled(o) => s = "closed"
    PROVE  Entries' = IF s \in {"open", "closed"} /\ ~Filled(o) THEN Entries + 1 ELSE Entries
<1>1. FilledOrders' = IF s \in {"open", "closed"} THEN FilledOrders \cup {o} ELSE FilledOrders
    BY DEF FilledOrders, Filled, TypeOK
<1>2. Entries = Cardinality(FilledOrders) /\ Entries' = Cardinality(FilledOrders')
    BY DEF Entries, FilledOrders
<1>3. o \in FilledOrders <=> Filled(o)
    BY DEF FilledOrders
<1>4. Cardinality(FilledOrders \cup {o}) =
          IF o \in FilledOrders THEN Cardinality(FilledOrders) ELSE Cardinality(FilledOrders) + 1
    BY FS_AddElement
<1> HIDE DEF FilledOrders
<1>5. QED
    BY <1>1, <1>2, <1>3, <1>4

\* How an order may change, and what the fire knows when it does.
OrderChange(o, s) ==
    /\ order' = [order EXCEPT ![o] = s]
    /\ \/ order[o] = "unused" /\ s \in {"pending", "open"}
       \/ order[o] = "pending" /\ s \in {"open", "cancelled"}
       \/ order[o] = "open" /\ s = "closed"
    /\ \A p \in Orders : Live(p) => p = o

LEMMA OrderSteps ==
    ASSUME AloneInv, Serial, [Next]_vars
    PROVE  order' = order \/ \E o \in Orders, s \in OrderStates : OrderChange(o, s)
<1> USE DEF AloneInv, SerialInv, TypeInv, TypeOK, OrderChange, OrderStates
<1>1. ASSUME NEW c \in Callers, CancelResting(c)
      PROVE  order' = order \/ \E o \in Orders, s \in OrderStates : OrderChange(o, s)
    <2>1. CASE order' = order
        BY <2>1
    <2>2. CASE order' # order
        <3>1. PICK r \in todo[c] : /\ Newest(r, todo[c]) /\ order[r.oid] = "pending"
                                   /\ order' = [order EXCEPT ![r.oid] = "cancelled"]
            BY <1>1, <2>2 DEF CancelResting
        <3>2. r.oid \in Orders
            BY DEF Row
        <3>3. \A p \in Orders : Live(p) => p = r.oid
            BY <1>1, <3>1 DEF FireInv, CancelResting, Goto
        <3>4. QED
            BY <3>1, <3>2, <3>3
    <2>3. QED
        BY <2>1, <2>2
<1>2. ASSUME NEW c \in Callers, PlaceEntry(c)
      PROVE  order' = order \/ \E o \in Orders, s \in OrderStates : OrderChange(o, s)
    <2>1. \A p \in Orders : ~Live(p)
        BY <1>2 DEF FireInv, PlaceEntry, Placed, PlacedAmbiguously, PlacementFailed, Goto
    <2>2. QED
        BY <1>2, <2>1 DEF PlaceEntry, Placed, PlacedAmbiguously, PlacementFailed, Serial
<1>3. ASSUME NEW c \in Callers, FireStep(c), ~CancelResting(c), ~PlaceEntry(c) PROVE order' = order
    BY <1>3 DEF FireStep, Arrive, IsRetryFireSeen, ListEntryAttempts, OpenPositionBackstop,
        Observe, ReObserve, MarkSuperseded, CapCheck, RecordEntryAttempt, MarkRetryFireSeen,
        RecordDispatcherOutcome
<1>4. ASSUME NEW o \in Orders, BrokerFill(o) \/ BrokerExit(o) \/ BrokerWithdraw(o)
      PROVE  \E s \in OrderStates : OrderChange(o, s)
    BY <1>4 DEF BrokerFill, BrokerExit, BrokerWithdraw, NoStack, Live
<1>5. ~SweepStep /\ ~Crash /\ Replacers = {}
    BY DEF Serial, SweepStep, SweepPendingOrders, SweepOne, SweepConfirm, SweepCancel, SweepDelete, Crash
<1>6. QED
    BY <1>1, <1>2, <1>3, <1>4, <1>5 DEF Next, BrokerStep, vars

\* Every step of a gate that runs alone is a step of the slot, or leaves it.
LEMMA PromiseStep ==
    ASSUME AloneInv, EntriesInv, EntriesInv', Serial, [Next]_vars
    PROVE  [Promise!Next]_<<Slot, Entries>>
<1>1. TypeOK /\ IsFiniteSet(FilledOrders)
    BY FilledBound DEF AloneInv, SerialInv, TypeInv, FilledOrders
<1>2. CASE order' = order
    BY <1>2 DEF Slot, Entries, Filled
<1>3. ASSUME NEW o \in Orders, NEW s \in OrderStates, OrderChange(o, s)
      PROVE  Promise!Next
    <2>1. Slot = SlotOf(order[o]) /\ Slot' = SlotOf(s)
        BY <1>1, <1>3, SlotChange DEF OrderChange
    <2>2. Entries' = IF s \in {"open", "closed"} /\ ~Filled(o) THEN Entries + 1 ELSE Entries
        BY <1>1, <1>3, EntriesChange DEF OrderChange, Filled
    <2>3. Entries \in Nat /\ Cap[AnyBar] \in Nat /\ Entries' <= Cap[AnyBar]
        <3>1. Entries \in Nat
            BY <1>1, FS_CardinalityType DEF Entries, FilledOrders
        <3>2. EntriesWithinCap'
            BY FilledBound, PTL
        <3>3. QED
            BY <3>1, <3>2, AnyBarType, CapAssumption DEF EntriesWithinCap, Entries
    <2>4. CASE order[o] = "unused" /\ s = "pending"
        BY <2>1, <2>2, <2>4 DEF SlotOf, Promise!Next, Promise!Rest
    <2>5. CASE order[o] \in {"unused", "pending"} /\ s = "open"
        <3>1. Entries' = Entries + 1
            BY <2>2, <2>5 DEF Filled
        <3>2. Entries < Cap[AnyBar]
            BY <2>3, <3>1
        <3>3. QED
            BY <2>1, <2>5, <3>1, <3>2 DEF SlotOf, Promise!Next, Promise!Enter
    <2>6. CASE order[o] = "pending" /\ s = "cancelled"
        BY <2>1, <2>2, <2>6 DEF SlotOf, Promise!Next, Promise!Withdraw
    <2>7. CASE order[o] = "open" /\ s = "closed"
        BY <2>1, <2>2, <2>7 DEF SlotOf, Filled, Promise!Next, Promise!Exit
    <2>8. QED
        BY <1>3, <2>4, <2>5, <2>6, <2>7 DEF OrderChange
<1>4. QED
    BY <1>2, <1>3, OrderSteps

\* The entry path implements what a trade promises: one slot, and no more
\* entries than the cap, for every number of bars and orders and under every
\* fault the serial gate tolerates.
THEOREM EntryPathKeepsPromise == Serial /\ OneCap => (Spec => ImplementsTradeSlot)
<1> SUFFICES ASSUME Serial, OneCap PROVE Spec => ImplementsTradeSlot
    OBVIOUS
<1>1. Init => Promise!Init
    <2> SUFFICES ASSUME Init PROVE Promise!Init
        OBVIOUS
    <2>1. {o \in Orders : Filled(o)} = {} /\ Cardinality({}) = 0
        BY FS_EmptySet DEF Init, Filled
    <2>2. QED
        BY <2>1 DEF Init, Promise!Init, Slot, Entries
<1>2. /\ AloneInv /\ EntriesInv /\ EntriesInv' /\ [Next]_vars
      => [Promise!Next]_<<Slot, Entries>>
    BY PromiseStep
<1>3. QED
    BY <1>1, <1>2, EntriesAlways, PTL DEF Spec, ImplementsTradeSlot, Promise!Spec

-----------------------------------------------------------------------------
(* Single shots.  With one caller, the seen index is read and written by the *)
(* same fire, so no fire is under way once it is written.                   *)

SingleShot == OneCaller /\ ~MultiShot /\ Replacers = {}
PoisonInv == poisoned => \A c \in Callers : pc[c] = "idle"

LEMMA PoisonStep ==
    ASSUME TypeInv, SingleShot, PoisonInv, [Next]_vars
    PROVE  PoisonInv' /\ (poisoned => \A o \in Orders : order[o] = "unused" => order'[o] = "unused")
<1> USE DEF TypeInv, TypeOK, PoisonInv
<1>1. ASSUME NEW c \in Callers, FireStep(c) PROVE ~poisoned /\ PoisonInv'
    <2>1. ~poisoned
        BY <1>1 DEF SingleShot, FireStep, Arrive, IsRetryFireSeen, ListEntryAttempts,
            OpenPositionBackstop, Observe, CancelResting, ReObserve, MarkSuperseded, CapCheck,
            PlaceEntry, Placed, PlacedAmbiguously, PlacementFailed, RecordEntryAttempt,
            MarkRetryFireSeen, RecordDispatcherOutcome, Goto
    <2>2. CASE RecordDispatcherOutcome(c)
        BY <2>2 DEF SingleShot, OneCaller, RecordDispatcherOutcome, Return
    <2>3. CASE ~RecordDispatcherOutcome(c)
        BY <1>1, <2>1, <2>3 DEF FireStep, storeVars, Arrive, IsRetryFireSeen, ListEntryAttempts,
            OpenPositionBackstop, Observe, CancelResting, ReObserve, MarkSuperseded, CapCheck,
            PlaceEntry, RecordEntryAttempt, MarkRetryFireSeen
    <2>4. QED
        BY <2>1, <2>2, <2>3
<1>2. CASE SweepStep
    BY <1>2 DEF SweepStep, SweepPendingOrders, SweepOne, SweepConfirm, SweepCancel, SweepDelete,
        storeVars, gateVars
<1>3. CASE BrokerStep
    BY <1>3 DEF BrokerStep, BrokerFill, BrokerExit, BrokerWithdraw, storeVars, gateVars
<1>4. CASE Crash \/ UNCHANGED vars
    BY <1>4 DEF Crash, vars, storeVars, gateVars
<1>5. QED
    BY <1>1, <1>2, <1>3, <1>4 DEF Next, SingleShot

\* Once an outcome has poisoned the id of a single-shot enter, no later fire of
\* it places an order, under every fault, a stop of the process included.
THEOREM PoisonHolds == SingleShot => (Spec => PoisonedIdPlacesNothing)
<1> SUFFICES ASSUME SingleShot PROVE Spec => PoisonedIdPlacesNothing
    OBVIOUS
<1>1. Init => PoisonInv
    BY DEF Init, PoisonInv
<1>2. TypeInv /\ PoisonInv /\ [Next]_vars
      => PoisonInv' /\ (poisoned => \A o \in Orders : order[o] = "unused" => order'[o] = "unused")
    BY PoisonStep
<1>3. QED
    BY <1>1, <1>2, TypeAlways, PTL DEF Spec, PoisonedIdPlacesNothing
=============================================================================
