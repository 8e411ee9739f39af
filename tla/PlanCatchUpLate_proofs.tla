----------------------- MODULE PlanCatchUpLate_proofs -----------------------
(***************************************************************************)
(* What the late engine of PlanCatchUp has reported and latched, for every *)
(* plan, every bar and every delay: entries come in sequence and before    *)
(* any veto, no reversal is swallowed, and the break is stamped on the bar *)
(* of the operator's contract.                                             *)
(*                                                                         *)
(* One invariant relates the plan state st of the engine to the set E of   *)
(* all its reports.  Inside a bar it holds for two bars: n, the one the    *)
(* controls and the guards have read, and m, the one the spine has; the    *)
(* controls move n to the bar, the guards and the spine then move m.       *)
(***************************************************************************)
EXTENDS PlanCatchUp_proofs

-----------------------------------------------------------------------------
(* The invariant.                                                           *)

(* A bar is the one of its number in the market, but for its window.        *)
InMarket(bar) ==
    LET b == bars[bar.n]
    IN  b.o = bar.o /\ b.c = bar.c /\ b.signal = bar.signal /\ b.rubbish = bar.rubbish

ReportsPast(E, n, m) ==
    /\ E \subseteq Fire
    /\ \A e \in E : e.bar <= n
    /\ \A e \in E : e.id \in IdsOf("enter") => e.bar <= m

LatchesReported(st, E) == \A id \in st.fired : \E e \in E : e.id = id

Vetoes(E) == {e \in E : e.id \in IdsOf("veto")}

(* A veto that fired ended the plan or blocks it, and only vetoes block.    *)
VetoesHold(st, E) ==
    /\ Vetoes(E) # {} => st.phase = "done" \/ st.blocked
    /\ st.blocked => Vetoes(E) # {}

EntriesClean(E) ==
    \A e \in E : e.id \in IdsOf("enter") =>
        /\ ~bars[e.bar].rubbish
        /\ \A v \in Vetoes(E) : e.bar < v.bar

(* A milestone is the bar of a report of its rule, and the break latches.   *)
MilestonesReported(st, E) ==
    /\ st.breakAt # NoBar <=>
          HasRule("breakAndClose") /\ FirstOf("breakAndClose").id \in st.fired
    /\ st.breakAt # NoBar => [id |-> FirstOf("breakAndClose").id, bar |-> st.breakAt] \in E
    /\ st.retestAt # NoBar =>
          HasRule("retest") /\ [id |-> FirstOf("retest").id, bar |-> st.retestAt] \in E

EntriesOrdered(E) ==
    \A e \in E : e.id \in IdsOf("enter") /\ HasRule("retest") /\ ~MultiEnter =>
        \E r \in E : /\ r.id = FirstOf("retest").id /\ r.bar <= e.bar
                     /\ HasRule("breakAndClose") =>
                           \E b \in E : b.id = FirstOf("breakAndClose").id /\ b.bar < r.bar

(* A plan of one entry waits for its break, and no other plan does.         *)
BreakFirst == HasRule("breakAndClose") /\ ~MultiEnter

BreakAwaited(st) ==
    /\ st.phase = "awaitBreak" => BreakFirst /\ st.breakAt = NoBar
    /\ BreakFirst /\ st.breakAt = NoBar /\ st.phase # "done" => st.phase = "awaitBreak"

Reversal(rule) == rule.kind = "close" /\ rule.on = "signal" /\ ~rule.inNews

(* A reversal prints on bar k for a plan that may have a position then.     *)
Printed(st, k) ==
    /\ bars[k].signal /\ ~bars[k].rubbish
    /\ BreakFirst => st.breakAt # NoBar /\ st.breakAt < k

ReversalsClosed(st, n) ==
    \A r \in PlanRules, k \in 2..n : Reversal(r) /\ Printed(st, k) => r.id \in st.fired

Reports(st, E, n, m) ==
    /\ ReportsPast(E, n, m)
    /\ LatchesReported(st, E)
    /\ VetoesHold(st, E)
    /\ EntriesClean(E)
    /\ MilestonesReported(st, E)
    /\ EntriesOrdered(E)
    /\ BreakAwaited(st)
    /\ ReversalsClosed(st, m)

(* The contract of the break, for a first break rule in the contract: the   *)
(* stamp, if there is one, is the first bar of the contract and no veto     *)
(* came by then; if there is none, a veto came before every bar of the      *)
(* contract; and while the break is awaited, the origin is on the near side *)
(* exactly when a bar has dipped there.                                     *)
Stamped(rule, st, E, m) ==
    st.breakAt # NoBar =>
        /\ st.breakAt \in ContractBreaks(rule, m)
        /\ \A k \in ContractBreaks(rule, m) : st.breakAt <= k
        /\ \A v \in Vetoes(E) : st.breakAt < v.bar

Unstamped(rule, st, E, m) ==
    st.breakAt = NoBar => \A k \in ContractBreaks(rule, m) : \E v \in Vetoes(E) : v.bar <= k

OriginAt(rule, origin, m) ==
    /\ origin \in Nat \cup {NoPrice}
    /\ origin = NoPrice => m = 1 /\ ~(ArmedAt < Closes(bars[1]))
    /\ origin # NoPrice => (NearSide(rule, origin) <=> DippedBefore(rule, m + 1))

Awaits(st) == st.breakAt = NoBar /\ st.phase # "done" /\ ~st.blocked

BreakRule == FirstOf("breakAndClose")
HasContract == HasRule("breakAndClose") /\ InContract(BreakRule)

Contract(st, E, m) ==
    HasContract =>
        /\ Stamped(BreakRule, st, E, m)
        /\ Unstamped(BreakRule, st, E, m)
        /\ Awaits(st) => OriginAt(BreakRule, st.origin[BreakRule.id], m)

(* What the invariant of an evaluation says of its accumulator: E0 is what  *)
(* the engine had reported before.                                          *)
All(E0, acc) == E0 \cup Reported(acc.fires)

Holds(acc, E0, m) ==
    Reports(acc.st, All(E0, acc), m, m) /\ Contract(acc.st, All(E0, acc), m)

\* The reports of an evaluation are fires.
LEMMA ReportsAreFires ==
    ASSUME NEW acc \in Acc
    PROVE  Reported(acc.fires) \subseteq Fire
BY DEF Reported, Acc

\* A rule has one kind.
LEMMA OneKind ==
    ASSUME rules \in Plans, NEW id, NEW k1, NEW k2, id \in IdsOf(k1), id \in IdsOf(k2)
    PROVE  k1 = k2
BY RulesWellFormed DEF IdsOf

\* A rule is a rule of its kind, the first of its kind too.
LEMMA FirstsOfKinds ==
    ASSUME rules \in Plans
    PROVE  /\ HasRule("breakAndClose") =>
                 BreakRule \in PlanRules /\ BreakRule.id \in IdsOf("breakAndClose")
           /\ HasRule("retest") =>
                 FirstOf("retest") \in PlanRules /\ FirstOf("retest").id \in IdsOf("retest")
BY FirstOfKind, RuleType DEF BreakRule, Kinds

-----------------------------------------------------------------------------
(* Controls and guards.                                                     *)

\* The controls report at the bar they are given and leave everything else.
LEMMA ControlsKeep ==
    ASSUME rules \in Plans, NEW acc \in Acc, NEW bar \in Candle, NEW clock,
           NEW E0 \in SUBSET Fire, NEW k \in Nat, NEW m \in Nat, k <= bar.n, m <= bar.n,
           Reports(acc.st, All(E0, acc), k, m), Contract(acc.st, All(E0, acc), m)
    PROVE  LET next == Controls(acc, bar, clock) IN
           /\ next \in Acc
           /\ Reports(next.st, All(E0, next), bar.n, m)
           /\ Contract(next.st, All(E0, next), m)
           /\ next.st.phase = acc.st.phase /\ next.st.blocked = acc.st.blocked
           /\ next.st.watermark = acc.st.watermark
<1> DEFINE next == Controls(acc, bar, clock)
           E == All(E0, acc)
           F == All(E0, next)
           new == {[id |-> id, bar |-> bar.n] : id \in next.st.fired \ acc.st.fired}
<1>1. next \in Acc /\ Controlled(acc, next, bar)
    BY ControlsDo
<1> HIDE DEF next
<1>2. acc.st \in States /\ next.st \in States
    BY <1>1 DEF Acc
<1>3. /\ next.st.phase = acc.st.phase /\ next.st.blocked = acc.st.blocked
      /\ next.st.watermark = acc.st.watermark
      /\ next.st.breakAt = acc.st.breakAt /\ next.st.retestAt = acc.st.retestAt
      /\ next.st.origin = acc.st.origin
    BY <1>1, <1>2 DEF Controlled, States
<1>4. /\ acc.st.fired \subseteq next.st.fired
      /\ next.st.fired \ acc.st.fired \subseteq IdsOf("control")
      /\ F = E \cup new
    BY <1>1 DEF Controlled, Latches, All
<1>5. F \subseteq Fire
    BY <1>1, ReportsAreFires DEF All
<1> HIDE DEF E, F
<1>6. \A e \in new : e.id \in IdsOf("control") /\ e.bar = bar.n
    BY <1>4
<1>7. \A e \in new : e.id \notin IdsOf("veto") /\ e.id \notin IdsOf("enter")
    BY <1>6, OneKind
<1>8. Vetoes(F) = Vetoes(E)
    BY <1>4, <1>7 DEF Vetoes
<1>9. ASSUME NEW id \in next.st.fired \ acc.st.fired
      PROVE  \E e \in F : e.id = id
    <2>1. [id |-> id, bar |-> bar.n] \in F
        BY <1>4
    <2>2. QED
        BY <2>1
<1> HIDE DEF new
<1>10. /\ ReportsPast(E, k, m) /\ LatchesReported(acc.st, E) /\ VetoesHold(acc.st, E)
       /\ EntriesClean(E) /\ MilestonesReported(acc.st, E) /\ EntriesOrdered(E)
       /\ BreakAwaited(acc.st) /\ ReversalsClosed(acc.st, m)
    BY DEF Reports, E
<1>11. ReportsPast(F, bar.n, m)
    <2>1. ASSUME NEW e \in F PROVE e.bar <= bar.n
        <3>1. e.bar \in Nat /\ bar.n \in Nat
            BY <1>5, CatchUpAssumption DEF Fire, Candle
        <3>2. QED
            BY <1>4, <1>6, <1>10, <3>1 DEF ReportsPast
    <2>2. \A e \in F : e.id \in IdsOf("enter") => e.bar <= m
        BY <1>4, <1>7, <1>10 DEF ReportsPast
    <2>3. QED
        BY <1>5, <2>1, <2>2 DEF ReportsPast
<1>12. LatchesReported(next.st, F)
    BY <1>4, <1>9, <1>10 DEF LatchesReported
<1>13. VetoesHold(next.st, F)
    BY <1>3, <1>8, <1>10 DEF VetoesHold
<1>14. EntriesClean(F)
    BY <1>4, <1>7, <1>8, <1>10 DEF EntriesClean
<1>15. MilestonesReported(next.st, F)
    <2>1. HasRule("breakAndClose") =>
             (FirstOf("breakAndClose").id \in next.st.fired <=> FirstOf("breakAndClose").id \in acc.st.fired)
        BY <1>4, FirstsOfKinds, OneKind DEF BreakRule
    <2>2. QED
        BY <1>3, <1>4, <1>10, <2>1 DEF MilestonesReported
<1>16. EntriesOrdered(F)
    BY <1>4, <1>7, <1>10 DEF EntriesOrdered
<1>17. BreakAwaited(next.st) /\ ReversalsClosed(next.st, m)
    BY <1>3, <1>4, <1>10 DEF BreakAwaited, ReversalsClosed, Printed
<1>18. Contract(next.st, F, m)
    BY <1>3, <1>8 DEF Contract, Stamped, Unstamped, Awaits, E
<1>19. QED
    BY <1>1, <1>3, <1>11, <1>12, <1>13, <1>14, <1>15, <1>16, <1>17, <1>18 DEF Reports, F, next

\* The guards end the bar's claim to the entries before it: vetoes are reported at the
\* bar, after every entry so far, and a reversal that prints on it is closed.
LEMMA GuardsKeep ==
    ASSUME rules \in Plans, NEW acc \in Acc, NEW bar \in Candle,
           NEW E0 \in SUBSET Fire, NEW m \in Nat, bar.n = m + 1, InMarket(bar),
           acc.st.phase # "done",
           Reports(acc.st, All(E0, acc), bar.n, m), Contract(acc.st, All(E0, acc), m)
    PROVE  LET next == Guards(acc, bar) IN
           /\ next \in Acc
           /\ Reports(next.st, All(E0, next), bar.n, bar.n)
           /\ Contract(next.st, All(E0, next), m)
           /\ next.st.phase = "done" /\ ~next.st.blocked =>
                 \E v \in Vetoes(All(E0, next)) : v.bar = bar.n
<1> DEFINE next == Guards(acc, bar)
           E == All(E0, acc)
           F == All(E0, next)
           new == {[id |-> id, bar |-> bar.n] : id \in next.st.fired \ acc.st.fired}
           hit == (next.st.fired \ acc.st.fired) \cap IdsOf("veto")
           n == bar.n
<1>1. /\ next \in Acc /\ Vetted(acc, next, bar)
      /\ next.st.fired = GuardsFired(acc, bar).st.fired
    BY GuardsDo
<1> HIDE DEF next
<1>2. acc.st \in States /\ next.st \in States
    BY <1>1 DEF Acc
<1>3. /\ next.st.breakAt = acc.st.breakAt /\ next.st.retestAt = acc.st.retestAt
      /\ next.st.phase \in {acc.st.phase, "done"}
      /\ acc.st.blocked => next.st.blocked
      /\ hit # {} => next.st.phase = "done" \/ next.st.blocked
      /\ next.st.phase # acc.st.phase \/ (next.st.blocked /\ ~acc.st.blocked) => hit # {}
    BY <1>1, <1>2 DEF Vetted, States
<1>4. /\ acc.st.fired \subseteq next.st.fired
      /\ next.st.fired \ acc.st.fired \subseteq GuardIds
      /\ F = E \cup new
    BY <1>1 DEF Vetted, Latches, All
<1>5. F \subseteq Fire /\ E \subseteq Fire
    BY <1>1, ReportsAreFires DEF All
<1>6. n \in Nat /\ n = m + 1
    OBVIOUS
<1> HIDE DEF E, F, n
<1>7. \A e \in new : e.id \in GuardIds /\ e.bar = n
    BY <1>4 DEF n
<1>8. \A e \in new : e.id \notin IdsOf("enter")
    BY <1>7, OneKind DEF GuardIds
<1>9. ASSUME NEW id \in next.st.fired \ acc.st.fired
      PROVE  \E e \in F : e.id = id /\ e.bar = n
    <2>1. [id |-> id, bar |-> n] \in F
        BY <1>4 DEF n
    <2>2. QED
        BY <2>1
<1> HIDE DEF new
<1>10. /\ ReportsPast(E, n, m) /\ LatchesReported(acc.st, E) /\ VetoesHold(acc.st, E)
       /\ EntriesClean(E) /\ MilestonesReported(acc.st, E) /\ EntriesOrdered(E)
       /\ BreakAwaited(acc.st) /\ ReversalsClosed(acc.st, m)
    BY DEF Reports, E, n
<1>11. Vetoes(F) = Vetoes(E) \cup {v \in F : v.id \in IdsOf("veto") /\ v \in new}
    BY <1>4 DEF Vetoes
<1>12. hit # {} => \E v \in Vetoes(F) : v.bar = n
    BY <1>9 DEF Vetoes
<1>13. ReportsPast(F, n, n)
    <2>1. ASSUME NEW e \in F PROVE e.bar <= n
        BY <1>4, <1>6, <1>7, <1>10 DEF ReportsPast
    <2>2. QED
        BY <1>5, <2>1 DEF ReportsPast
<1>14. LatchesReported(next.st, F)
    BY <1>4, <1>9, <1>10 DEF LatchesReported
<1>15. VetoesHold(next.st, F)
    <2>1. CASE Vetoes(E) # {}
        <3>1. Vetoes(F) # {}
            BY <1>11, <2>1
        <3>2. QED
            BY <1>3, <1>10, <2>1, <3>1 DEF VetoesHold
    <2>2. CASE Vetoes(E) = {}
        <3>1. ~acc.st.blocked
            BY <1>10, <2>2 DEF VetoesHold
        <3>2. Vetoes(F) # {} => hit # {}
            <4>1. ASSUME NEW v \in Vetoes(F) PROVE v.id \in hit
                BY <1>11, <2>2 DEF new
            <4>2. QED
                BY <4>1
        <3>3. next.st.blocked => Vetoes(F) # {}
            BY <1>3, <1>12, <3>1
        <3>4. QED
            BY <1>3, <3>2, <3>3 DEF VetoesHold
    <2>3. QED
        BY <2>1, <2>2
<1>16. EntriesClean(F)
    <2>1. ASSUME NEW e \in F, e.id \in IdsOf("enter")
          PROVE  /\ e \in E /\ ~bars[e.bar].rubbish
                 /\ \A v \in Vetoes(F) : e.bar < v.bar
        <3>1. e \in E
            BY <1>4, <1>8, <2>1
        <3>2. ~bars[e.bar].rubbish /\ \A v \in Vetoes(E) : e.bar < v.bar
            BY <1>10, <2>1, <3>1 DEF EntriesClean
        <3>3. e.bar <= m /\ e.bar \in Nat
            BY <1>5, <1>10, <2>1, <3>1, CatchUpAssumption DEF ReportsPast, Fire
        <3>4. \A v \in Vetoes(F) \ Vetoes(E) : v.bar = n
            BY <1>7, <1>11
        <3>5. QED
            BY <1>6, <3>1, <3>2, <3>3, <3>4
    <2>2. QED
        BY <2>1 DEF EntriesClean
<1>17. MilestonesReported(next.st, F)
    <2>1. HasRule("breakAndClose") =>
             (FirstOf("breakAndClose").id \in next.st.fired <=> FirstOf("breakAndClose").id \in acc.st.fired)
        BY <1>4, FirstsOfKinds, OneKind DEF BreakRule, GuardIds
    <2>2. QED
        BY <1>3, <1>4, <1>10, <2>1 DEF MilestonesReported
<1>18. EntriesOrdered(F)
    BY <1>4, <1>8, <1>10 DEF EntriesOrdered
<1>19. BreakAwaited(next.st)
    BY <1>3, <1>10 DEF BreakAwaited
<1>20. ReversalsClosed(next.st, n)
    <2>1. ASSUME NEW r \in PlanRules, NEW k \in 2..n, Reversal(r), Printed(next.st, k)
          PROVE  r.id \in next.st.fired
        <3>1. Printed(acc.st, k)
            BY <1>3, <2>1 DEF Printed
        <3>2. CASE k # n
            <4>1. k \in 2..m
                BY <1>6, <3>2
            <4>2. QED
                BY <1>4, <1>10, <2>1, <3>1, <4>1 DEF ReversalsClosed
        <3>3. CASE k = n
            <4>1. bar.signal /\ ~bar.rubbish
                BY <3>1, <3>3 DEF Printed, n, InMarket
            <4>2. acc.st.phase = "awaitEntry"
                <5>1. acc.st.phase # "awaitBreak"
                    BY <1>10, <3>1 DEF BreakAwaited, Printed
                <5>2. QED
                    BY <1>2, <5>1 DEF States
            <4>3. QED
                BY <1>1, <2>1, <4>1, <4>2, CloseFires DEF Reversal
        <3>4. QED
            BY <3>2, <3>3
    <2>2. QED
        BY <2>1 DEF ReversalsClosed
<1>21. Contract(next.st, F, m)
    <2>1. SUFFICES ASSUME HasContract
                   PROVE  /\ Stamped(BreakRule, next.st, F, m)
                          /\ Unstamped(BreakRule, next.st, F, m)
                          /\ Awaits(next.st) => OriginAt(BreakRule, next.st.origin[BreakRule.id], m)
        BY DEF Contract
    <2>2. /\ Stamped(BreakRule, acc.st, E, m) /\ Unstamped(BreakRule, acc.st, E, m)
          /\ Awaits(acc.st) => OriginAt(BreakRule, acc.st.origin[BreakRule.id], m)
        BY <2>1 DEF Contract, E
    <2>3. Stamped(BreakRule, next.st, F, m)
        <3>1. SUFFICES ASSUME acc.st.breakAt # NoBar PROVE \A v \in Vetoes(F) : acc.st.breakAt < v.bar
            BY <1>3, <2>2 DEF Stamped
        <3>2. acc.st.breakAt \in ContractBreaks(BreakRule, m)
            BY <2>2, <3>1 DEF Stamped
        <3>3. acc.st.breakAt \in 2..m
            BY <3>2 DEF ContractBreaks
        <3>4. \A v \in Vetoes(F) \ Vetoes(E) : v.bar = n
            BY <1>7, <1>11
        <3>5. \A v \in Vetoes(E) : acc.st.breakAt < v.bar
            BY <2>2, <3>1 DEF Stamped
        <3>6. QED
            BY <1>6, <3>3, <3>4, <3>5
    <2>4. Unstamped(BreakRule, next.st, F, m)
        BY <1>3, <1>11, <2>2 DEF Unstamped
    <2>5. Awaits(next.st) => OriginAt(BreakRule, next.st.origin[BreakRule.id], m)
        <3>1. next.st.origin[BreakRule.id] = acc.st.origin[BreakRule.id]
            <4>1. BreakRule.id \in RuleIds /\ BreakRule.id \notin GuardIds
                BY <2>1, FirstsOfKinds, RuleType, OneKind DEF GuardIds, HasContract
            <4>2. QED
                BY <1>1, <4>1 DEF Vetted
        <3>2. Awaits(next.st) => Awaits(acc.st)
            BY <1>3 DEF Awaits
        <3>3. QED
            BY <2>2, <3>1, <3>2
    <2>6. QED
        BY <2>3, <2>4, <2>5
<1>22. next.st.phase = "done" /\ ~next.st.blocked => \E v \in Vetoes(F) : v.bar = n
    BY <1>3, <1>12
<1>23. QED
    BY <1>1, <1>13, <1>14, <1>15, <1>16, <1>17, <1>18, <1>19, <1>20, <1>21, <1>22
       DEF Reports, F, n, next

-----------------------------------------------------------------------------
(* The break.                                                               *)

\* The bars of the contract up to a bar are those before it and perhaps the bar itself.
LEMMA ContractGrows ==
    ASSUME NEW rule, NEW m \in Nat
    PROVE  /\ ContractBreaks(rule, m) \subseteq ContractBreaks(rule, m + 1)
           /\ ContractBreaks(rule, m) \subseteq 2..m
           /\ \A k \in ContractBreaks(rule, m + 1) : k # m + 1 => k \in ContractBreaks(rule, m)
BY DEF ContractBreaks

\* A bar on which the break is not looked for, because it was stamped or because a veto
\* ended or blocked the plan, leaves the contract met.
LEMMA ContractPassed ==
    ASSUME NEW st \in States, NEW E \in SUBSET Fire, NEW m \in Nat, m + 1 \in 1..MaxBars,
           Contract(st, E, m),
           \/ st.breakAt # NoBar
           \/ ~Awaits(st) /\ \E v \in Vetoes(E) : v.bar <= m + 1
    PROVE  Contract(st, E, m + 1)
<1>1. SUFFICES ASSUME HasContract
               PROVE  /\ Stamped(BreakRule, st, E, m + 1)
                      /\ Unstamped(BreakRule, st, E, m + 1)
                      /\ ~Awaits(st)
    BY DEF Contract
<1>2. Stamped(BreakRule, st, E, m) /\ Unstamped(BreakRule, st, E, m)
    BY <1>1 DEF Contract
<1>3. /\ ContractBreaks(BreakRule, m) \subseteq ContractBreaks(BreakRule, m + 1)
      /\ ContractBreaks(BreakRule, m) \subseteq 2..m
      /\ \A k \in ContractBreaks(BreakRule, m + 1) :
            k # m + 1 => k \in ContractBreaks(BreakRule, m)
    BY ContractGrows
<1>4. ~Awaits(st)
    BY DEF Awaits
<1>5. CASE st.breakAt # NoBar
    <2>1. /\ st.breakAt \in ContractBreaks(BreakRule, m)
          /\ \A k \in ContractBreaks(BreakRule, m) : st.breakAt <= k
          /\ \A v \in Vetoes(E) : st.breakAt < v.bar
        BY <1>2, <1>5 DEF Stamped
    <2>2. st.breakAt <= m + 1
        BY <1>3, <2>1
    <2>3. Stamped(BreakRule, st, E, m + 1)
        BY <1>3, <2>1, <2>2 DEF Stamped
    <2>4. QED
        BY <1>4, <1>5, <2>3 DEF Unstamped
<1>6. CASE st.breakAt = NoBar
    <2>1. PICK v \in Vetoes(E) : v.bar <= m + 1
        BY <1>6
    <2>2. Unstamped(BreakRule, st, E, m + 1)
        BY <1>2, <1>3, <1>6, <2>1 DEF Unstamped
    <2>3. QED
        BY <1>4, <1>6, <2>2 DEF Stamped
<1>7. QED
    BY <1>5, <1>6

\* Where the cross reference of a rule in the contract stands after a bar: on the near
\* side if it was there, or if the bar opened or closed there.
LEMMA ReferenceAfter ==
    ASSUME NEW st \in States, NEW rule \in Rule, rule.id \in RuleIds, NEW bar \in Candle,
           rule.kind = "breakAndClose", InContract(rule)
    PROVE  LET old == st.origin[rule.id]
               price == Recorded(st, rule, bar).origin[rule.id]
           IN  /\ old \in Nat \cup {NoPrice} => price \in Nat
               /\ old \in Nat =>
                     (NearSide(rule, price) <=>
                        NearSide(rule, old) \/ NearSide(rule, bar.o) \/ NearSide(rule, bar.c))
               /\ old = NoPrice =>
                     (NearSide(rule, price) <=> NearSide(rule, bar.o) \/ NearSide(rule, bar.c))
<1> DEFINE old == st.origin[rule.id]
           first == IF old = NoPrice THEN bar.o ELSE old
           price == Reseated(rule, first, bar)
<1>1. /\ rule.level \in Int /\ rule.dir \in {"up", "down"} /\ UsesClose(rule)
      /\ rule.slope = 0 /\ bar.n \in Int /\ bar.o \in Nat /\ bar.c \in Nat
    BY DEF InContract, Rule, Dirs, Candle
<1>2. LevelAt(rule, bar) = rule.level
    BY <1>1 DEF LevelAt
<1>3. Recorded(st, rule, bar).origin[rule.id] = price
    <2> DEFINE seen == [st EXCEPT !.origin[rule.id] = price, !.last[rule.id] = bar.c]
    <2>1. Recorded(st, rule, bar) = seen
        BY <1>1 DEF Recorded
    <2> HIDE DEF price
    <2>2. seen.origin[rule.id] = price
        BY DEF States
    <2>3. QED
        BY <2>1, <2>2
<1> HIDE DEF old
<1>4. ASSUME NEW q \in Nat
      PROVE  /\ Reseated(rule, q, bar) \in Nat
             /\ NearSide(rule, Reseated(rule, q, bar)) <=>
                   NearSide(rule, q) \/ NearSide(rule, bar.o) \/ NearSide(rule, bar.c)
    <2>1. CASE rule.dir = "up"
        <3>1. Ways(rule.dir) = {1}
            BY <2>1 DEF Ways
        <3>2. Reseated(rule, q, bar) =
                 IF q >= rule.level /\ (bar.o < rule.level \/ bar.c < rule.level)
                 THEN Lower(bar.o, bar.c) ELSE q
            BY <1>1, <1>2, <2>1, <3>1 DEF Reseated
        <3>3. QED
            BY <1>1, <2>1, <3>2 DEF Lower, NearSide
    <2>2. CASE rule.dir = "down"
        <3>1. Ways(rule.dir) = {-1}
            BY <2>2 DEF Ways
        <3>2. Reseated(rule, q, bar) =
                 IF q <= rule.level /\ (bar.o > rule.level \/ bar.c > rule.level)
                 THEN Higher(bar.o, bar.c) ELSE q
            BY <1>1, <1>2, <2>2, <3>1 DEF Reseated
        <3>3. QED
            BY <1>1, <2>2, <3>2 DEF Higher, NearSide
    <2>3. QED
        BY <1>1, <2>1, <2>2
<1>5. NoPrice \notin Nat
    BY DEF NoPrice
<1>6. old \in Nat => first = old
    BY <1>5
<1>7. old = NoPrice => first = bar.o
    OBVIOUS
<1> HIDE DEF first
<1>8. old \in Nat \cup {NoPrice} => first \in Nat
    BY <1>1, <1>6, <1>7
<1>9. old \in Nat \cup {NoPrice} =>
         /\ price \in Nat
         /\ NearSide(rule, price) <=>
               NearSide(rule, first) \/ NearSide(rule, bar.o) \/ NearSide(rule, bar.c)
    BY <1>4, <1>8
<1> HIDE DEF price
<1>10. QED
    BY <1>3, <1>6, <1>7, <1>9 DEF old

\* A break in the contract fires exactly on a bar that closes on the far side with the
\* reference on the near one.
LEMMA BreakFires ==
    ASSUME NEW st \in States, NEW rule \in Rule, NEW bar \in Candle,
           rule.kind = "breakAndClose", InContract(rule),
           Recorded(st, rule, bar).origin[rule.id] \in Nat
    PROVE  Fires(rule, st, bar) <=>
              NearSide(rule, Recorded(st, rule, bar).origin[rule.id]) /\ FarSide(rule, bar.c)
<1> DEFINE price == Recorded(st, rule, bar).origin[rule.id]
<1>1. /\ rule.level \in Int /\ rule.dir \in {"up", "down"} /\ rule.on = "closeCross"
      /\ rule.slope = 0 /\ rule.pct = 0 /\ rule.atr = 0 /\ bar.n \in Int /\ bar.c \in Nat
    BY DEF InContract, UsesClose, Rule, Dirs, Candle
<1>2. Fires(rule, st, bar) <=> SettledAcross(rule, price, bar)
    BY <1>1 DEF Fires, Triggered
<1>3. price \in Nat
    OBVIOUS
<1> HIDE DEF price
<1>4. SettledAcross(rule, price, bar) <=> NearSide(rule, price) /\ FarSide(rule, bar.c)
    <2>1. LevelAt(rule, bar) = rule.level /\ Buffer(rule, bar) = 0
        BY <1>1 DEF LevelAt, Buffer
    <2>2. CASE rule.dir = "up"
        <3>1. Ways(rule.dir) = {1}
            BY <2>2 DEF Ways
        <3>2. SettledAcross(rule, price, bar) <=>
                 price < rule.level /\ 100 * (bar.c - rule.level) >= 0
            BY <1>1, <1>3, <2>1, <3>1 DEF SettledAcross
        <3>3. QED
            BY <1>1, <1>3, <2>2, <3>2 DEF NearSide, FarSide
    <2>3. CASE rule.dir = "down"
        <3>1. Ways(rule.dir) = {-1}
            BY <2>3 DEF Ways
        <3>2. SettledAcross(rule, price, bar) <=>
                 (-1) * price < (-1) * rule.level /\ 100 * (-1) * (bar.c - rule.level) >= 0
            BY <1>1, <1>3, <2>1, <3>1 DEF SettledAcross
        <3>3. QED
            BY <1>1, <1>3, <2>3, <3>2 DEF NearSide, FarSide
    <2>4. QED
        BY <1>1, <2>2, <2>3
<1>5. QED
    BY <1>2, <1>4 DEF price

\* After a bar, a break still awaited has its reference where the contract says, and
\* the bar fires the break exactly when the contract counts it.
LEMMA BreakReads ==
    ASSUME rules \in Plans, NEW st \in States, NEW bar \in Candle, NEW m \in Nat \ {0},
           bar.n = m + 1, InMarket(bar), HasContract,
           OriginAt(BreakRule, st.origin[BreakRule.id], m)
    PROVE  LET price == Recorded(st, BreakRule, bar).origin[BreakRule.id] IN
           /\ OriginAt(BreakRule, price, m + 1)
           /\ Fires(BreakRule, st, bar) <=> m + 1 \in ContractBreaks(BreakRule, m + 1)
<1> DEFINE rule == BreakRule
           n == m + 1
           old == st.origin[rule.id]
           price == Recorded(st, rule, bar).origin[rule.id]
           dip == NearSide(rule, bar.o) \/ NearSide(rule, bar.c)
           base == ArmedAt < Closes(bars[1]) /\ NearSide(rule, bars[1].o)
<1>1. /\ rule \in Rule /\ rule.id \in RuleIds /\ rule.kind = "breakAndClose" /\ InContract(rule)
    BY FirstOfKind, RuleType DEF HasContract, BreakRule
<1>2. /\ old \in Nat \cup {NoPrice}
      /\ old = NoPrice => m = 1 /\ ~(ArmedAt < Closes(bars[1]))
      /\ old # NoPrice => (NearSide(rule, old) <=> DippedBefore(rule, n))
    BY DEF OriginAt
<1>3. /\ price \in Nat
      /\ old \in Nat => (NearSide(rule, price) <=> NearSide(rule, old) \/ dip)
      /\ old = NoPrice => (NearSide(rule, price) <=> dip)
    BY <1>1, <1>2, ReferenceAfter
<1>4. Fires(rule, st, bar) <=> NearSide(rule, price) /\ FarSide(rule, bar.c)
    BY <1>1, <1>3, BreakFires
<1>5. bars[n].o = bar.o /\ bars[n].c = bar.c /\ n \in Nat /\ n >= 2
    BY DEF InMarket
<1>6. NearSide(rule, bar.c) => ~FarSide(rule, bar.c)
    BY <1>1 DEF NearSide, FarSide, InContract, Rule, Dirs, Candle
<1> HIDE DEF rule, price, old
<1>7. DippedBefore(rule, n + 1) <=> DippedBefore(rule, n) \/ dip
    <2>1. n \in 2..n /\ (n + 1) - 1 = n /\ n - 1 = m
        BY <1>5
    <2>2. \A k \in 2..n : k \in 2..m \/ k = n
        OBVIOUS
    <2>3. \A k \in 2..m : k \in 2..n
        OBVIOUS
    <2>4. QED
        BY <1>5, <2>1, <2>2, <2>3 DEF DippedBefore
<1>8. old = NoPrice => ~DippedBefore(rule, n)
    <2>1. m = 1 => 2..(n - 1) = {}
        OBVIOUS
    <2>2. QED
        BY <1>2, <2>1 DEF DippedBefore
<1>9. NearSide(rule, price) <=> DippedBefore(rule, n) \/ dip
    BY <1>2, <1>3, <1>8
<1>10. price # NoPrice
    BY <1>3 DEF NoPrice
<1>11. OriginAt(rule, price, n)
    BY <1>3, <1>7, <1>9, <1>10 DEF OriginAt
<1>12. n \in ContractBreaks(rule, n) <=>
           FarSide(rule, bar.c) /\ (NearSide(rule, bar.o) \/ DippedBefore(rule, n))
    BY <1>5 DEF ContractBreaks
<1>13. QED
    BY <1>4, <1>6, <1>9, <1>11, <1>12 DEF rule, price

\* The search for the break reports it at most once, at the bar, and keeps the contract.
LEMMA BreakKeeps ==
    ASSUME rules \in Plans, NEW acc \in Acc, NEW bar \in Candle,
           NEW E0 \in SUBSET Fire, NEW m \in Nat \ {0}, bar.n = m + 1, InMarket(bar),
           acc.st.phase # "done", ~acc.st.blocked,
           Reports(acc.st, All(E0, acc), bar.n, bar.n), Contract(acc.st, All(E0, acc), m)
    PROVE  LET next == BreakAndClose(acc, bar) IN
           /\ next \in Acc
           /\ Holds(next, E0, bar.n)
           /\ next.st.phase # "done" /\ ~next.st.blocked
<1> DEFINE next == BreakAndClose(acc, bar)
           E == All(E0, acc)
           F == All(E0, next)
           new == {[id |-> id, bar |-> bar.n] : id \in next.st.fired \ acc.st.fired}
           n == bar.n
<1>1. next \in Acc /\ Broken(acc, next, bar)
    BY BreakDoes
<1> HIDE DEF next
<1>2. acc.st \in States /\ next.st \in States
    BY <1>1 DEF Acc
<1>3. /\ next.st.blocked = acc.st.blocked /\ next.st.retestAt = acc.st.retestAt
    BY <1>1, <1>2 DEF Broken, States
<1>4. /\ acc.st.fired \subseteq next.st.fired
      /\ next.st.fired \ acc.st.fired \subseteq IdsOf("breakAndClose")
      /\ F = E \cup new
    BY <1>1 DEF Broken, Latches, All
<1>5. F \subseteq Fire /\ E \subseteq Fire
    BY <1>1, ReportsAreFires DEF All
<1>6. n \in Nat /\ n = m + 1 /\ n \in 1..MaxBars /\ n # NoBar
    BY DEF NoBar, Candle
<1> HIDE DEF E, F, n
<1>7. \A e \in new : e.id \in IdsOf("breakAndClose") /\ e.bar = n
    BY <1>4 DEF n
<1>8. \A e \in new : e.id \notin IdsOf("enter") /\ e.id \notin IdsOf("veto")
    BY <1>7, OneKind
<1>9. \A id \in next.st.fired \ acc.st.fired : [id |-> id, bar |-> n] \in F
    BY <1>4 DEF n
<1> HIDE DEF new
<1>10. /\ ReportsPast(E, n, n) /\ LatchesReported(acc.st, E) /\ VetoesHold(acc.st, E)
       /\ EntriesClean(E) /\ MilestonesReported(acc.st, E) /\ EntriesOrdered(E)
       /\ BreakAwaited(acc.st) /\ ReversalsClosed(acc.st, n)
    BY DEF Reports, E, n
<1>11. Vetoes(F) = Vetoes(E)
    BY <1>4, <1>8 DEF Vetoes
<1>12. Vetoes(E) = {}
    BY <1>10 DEF VetoesHold
<1>13. /\ acc.st.breakAt = NoBar <=> ~(HasRule("breakAndClose") /\ BreakRule.id \in acc.st.fired)
    BY <1>10 DEF MilestonesReported, BreakRule
<1>14. \/ /\ next.st.fired = acc.st.fired /\ next.st.breakAt = acc.st.breakAt
          /\ next.st.phase = IF HasRule("breakAndClose") THEN acc.st.phase ELSE "awaitEntry"
       \/ /\ HasRule("breakAndClose") /\ acc.st.breakAt = NoBar
          /\ next.st.fired = acc.st.fired \cup {BreakRule.id}
          /\ next.st.breakAt = n /\ next.st.phase = "awaitEntry"
          /\ [id |-> BreakRule.id, bar |-> n] \in F
    BY <1>1, <1>9, <1>13 DEF Broken, BreakRule, n
<1>15. next.st.phase # "done" /\ ~next.st.blocked
    BY <1>3, <1>14
<1>16. ReportsPast(F, n, n)
    <2>1. ASSUME NEW e \in F PROVE e.bar <= n
        BY <1>4, <1>6, <1>7, <1>10 DEF ReportsPast
    <2>2. QED
        BY <1>5, <2>1 DEF ReportsPast
<1>17. LatchesReported(next.st, F)
    <2>1. ASSUME NEW id \in next.st.fired \ acc.st.fired
          PROVE  \E e \in F : e.id = id
        BY <1>9
    <2>2. QED
        BY <1>4, <1>10, <2>1 DEF LatchesReported
<1>18. VetoesHold(next.st, F)
    BY <1>11, <1>12, <1>15 DEF VetoesHold
<1>19. EntriesClean(F)
    BY <1>4, <1>8, <1>11, <1>10 DEF EntriesClean
<1>20. MilestonesReported(next.st, F)
    BY <1>3, <1>4, <1>6, <1>10, <1>14 DEF MilestonesReported, BreakRule
<1>21. EntriesOrdered(F)
    BY <1>4, <1>8, <1>10 DEF EntriesOrdered
<1>22. BreakAwaited(next.st)
    BY <1>6, <1>10, <1>14 DEF BreakAwaited, BreakFirst
<1>23. ReversalsClosed(next.st, n)
    <2>1. ASSUME NEW r \in PlanRules, NEW k \in 2..n, Reversal(r), Printed(next.st, k)
          PROVE  r.id \in next.st.fired
        <3>1. Printed(acc.st, k)
            BY <1>6, <1>14, <2>1 DEF Printed, BreakFirst
        <3>2. QED
            BY <1>4, <1>10, <2>1, <3>1 DEF ReversalsClosed
    <2>2. QED
        BY <2>1 DEF ReversalsClosed
<1>24. Contract(next.st, F, n)
    <2>1. CASE acc.st.breakAt # NoBar
        <3>1. next.st.breakAt = acc.st.breakAt
            BY <1>14, <2>1
        <3>2. Contract(next.st, F, m)
            BY <1>11, <2>1, <3>1 DEF Contract, Stamped, Unstamped, Awaits, E
        <3>3. QED
            BY <1>2, <1>5, <1>6, <2>1, <3>1, <3>2, ContractPassed
    <2>2. CASE acc.st.breakAt = NoBar
        <3>1. SUFFICES ASSUME HasContract
                       PROVE  /\ Stamped(BreakRule, next.st, F, n)
                              /\ Unstamped(BreakRule, next.st, F, n)
                              /\ Awaits(next.st) =>
                                    OriginAt(BreakRule, next.st.origin[BreakRule.id], n)
            BY DEF Contract
        <3>2. HasRule("breakAndClose") /\ BreakRule.id \notin acc.st.fired
            BY <1>13, <2>2, <3>1 DEF HasContract
        <3>3. /\ Unstamped(BreakRule, acc.st, E, m)
              /\ OriginAt(BreakRule, acc.st.origin[BreakRule.id], m)
            BY <2>2, <3>1 DEF Contract, Awaits, E
        <3>4. /\ OriginAt(BreakRule, Recorded(acc.st, BreakRule, bar).origin[BreakRule.id], n)
              /\ Fires(BreakRule, acc.st, bar) <=> n \in ContractBreaks(BreakRule, n)
            BY <1>2, <1>6, <3>1, <3>3, BreakReads DEF n
        <3>5. /\ BreakRule.id \in next.st.fired <=> Fires(BreakRule, acc.st, bar)
              /\ next.st.origin = Recorded(acc.st, BreakRule, bar).origin
            BY <1>1, <3>1, <3>2 DEF Broken, BreakRule, HasContract, InContract
        <3>6. \A k \in ContractBreaks(BreakRule, n) : k = n
            BY <1>6, <1>12, <2>2, <3>3, ContractGrows DEF Unstamped
        <3>7. CASE Fires(BreakRule, acc.st, bar)
            <4>1. next.st.breakAt = n
                BY <1>14, <3>2, <3>5, <3>7
            <4>2. Stamped(BreakRule, next.st, F, n)
                BY <1>6, <1>11, <1>12, <3>4, <3>6, <3>7, <4>1 DEF Stamped
            <4>3. QED
                BY <1>6, <4>1, <4>2 DEF Unstamped, Awaits
        <3>8. CASE ~Fires(BreakRule, acc.st, bar)
            <4>1. next.st.breakAt = NoBar
                BY <1>14, <2>2, <3>5, <3>8
            <4>2. Unstamped(BreakRule, next.st, F, n)
                BY <3>4, <3>6, <3>8 DEF Unstamped
            <4>3. QED
                BY <3>4, <3>5, <4>1, <4>2 DEF Stamped
        <3>9. QED
            BY <3>7, <3>8
    <2>3. QED
        BY <2>1, <2>2
<1>25. QED
    BY <1>1, <1>15, <1>16, <1>17, <1>18, <1>19, <1>20, <1>21, <1>22, <1>23, <1>24
       DEF Holds, Reports, F, n, next

-----------------------------------------------------------------------------
(* The retest and the entries.                                              *)

\* The search for the retest reports it at the bar, and changes nothing else.
LEMMA RetestKeeps ==
    ASSUME rules \in Plans, NEW acc \in Acc, NEW bar \in Candle,
           NEW E0 \in SUBSET Fire, Holds(acc, E0, bar.n)
    PROVE  LET next == Retest(acc, bar) IN
           /\ next \in Acc
           /\ Holds(next, E0, bar.n)
           /\ next.st.phase = acc.st.phase /\ next.st.blocked = acc.st.blocked
<1> DEFINE next == Retest(acc, bar)
           E == All(E0, acc)
           F == All(E0, next)
           n == bar.n
           e == [id |-> FirstOf("retest").id, bar |-> n]
<1>1. next \in Acc /\ Retested(acc, next, bar)
    BY RetestDoes
<1> HIDE DEF next
<1>2. acc.st \in States /\ next.st \in States
    BY <1>1 DEF Acc
<1>3. /\ next.st.phase = acc.st.phase /\ next.st.blocked = acc.st.blocked
      /\ next.st.fired = acc.st.fired /\ next.st.breakAt = acc.st.breakAt
    BY <1>1, <1>2 DEF Retested, States
<1>4. \/ next.st.retestAt = acc.st.retestAt /\ F = E
      \/ HasRule("retest") /\ next.st.retestAt = n /\ F = E \cup {e}
    BY <1>1 DEF Retested, All
<1>5. F \subseteq Fire /\ E \subseteq F
    BY <1>1, <1>4, ReportsAreFires DEF All
<1>6. HasRule("retest") => e.id \notin IdsOf("enter") /\ e.id \notin IdsOf("veto")
    BY FirstsOfKinds, OneKind
<1>7. n \in Nat
    BY CatchUpAssumption DEF Candle
<1> HIDE DEF E, F
<1>8. /\ ReportsPast(E, n, n) /\ LatchesReported(acc.st, E) /\ VetoesHold(acc.st, E)
      /\ EntriesClean(E) /\ MilestonesReported(acc.st, E) /\ EntriesOrdered(E)
      /\ BreakAwaited(acc.st) /\ ReversalsClosed(acc.st, n)
    BY DEF Holds, Reports, E
<1>9. Vetoes(F) = Vetoes(E)
    BY <1>4, <1>6 DEF Vetoes
<1>10. ReportsPast(F, n, n)
    BY <1>4, <1>5, <1>6, <1>7, <1>8 DEF ReportsPast
<1>11. LatchesReported(next.st, F) /\ VetoesHold(next.st, F)
    BY <1>3, <1>5, <1>8, <1>9 DEF LatchesReported, VetoesHold
<1>12. EntriesClean(F)
    BY <1>4, <1>6, <1>8, <1>9 DEF EntriesClean
<1>13. MilestonesReported(next.st, F)
    BY <1>3, <1>4, <1>5, <1>8 DEF MilestonesReported
<1>14. EntriesOrdered(F)
    BY <1>4, <1>5, <1>6, <1>8 DEF EntriesOrdered
<1>15. BreakAwaited(next.st) /\ ReversalsClosed(next.st, n)
    BY <1>3, <1>8 DEF BreakAwaited, ReversalsClosed, Printed
<1>16. Contract(next.st, F, n)
    <2>1. HasContract => next.st.origin[BreakRule.id] = acc.st.origin[BreakRule.id]
        <3>1. HasContract => BreakRule.id \in RuleIds /\ BreakRule.id \notin IdsOf("retest")
            BY FirstsOfKinds, RuleType, OneKind DEF HasContract
        <3>2. QED
            BY <1>1, <3>1 DEF Retested
    <2>2. QED
        BY <1>3, <1>9, <2>1 DEF Holds, Contract, Stamped, Unstamped, Awaits, E
<1>17. QED
    BY <1>1, <1>3, <1>10, <1>11, <1>12, <1>13, <1>14, <1>15, <1>16 DEF Holds, Reports, F, next

\* The entries of a bar are reported on it, after the break and the retest and with no
\* veto so far; one of a kind ends the plan.
LEMMA EntriesKeep ==
    ASSUME rules \in Plans, NEW acc \in Acc, NEW bar \in Candle, InMarket(bar),
           NEW E0 \in SUBSET Fire, Holds(acc, E0, bar.n),
           acc.st.phase # "done", ~acc.st.blocked
    PROVE  LET next == Entries(acc, bar) IN
           next \in Acc /\ Holds(next, E0, bar.n)
<1> DEFINE next == Entries(acc, bar)
           E == All(E0, acc)
           F == All(E0, next)
           n == bar.n
<1>1. next \in Acc /\ Entered(acc, next, bar)
    BY EntriesDo
<1> HIDE DEF next
<1>2. acc.st \in States /\ next.st \in States
    BY <1>1 DEF Acc
<1>3. /\ next.st.phase \in {acc.st.phase, "done"} /\ next.st.blocked = acc.st.blocked
      /\ next.st.breakAt = acc.st.breakAt /\ next.st.retestAt = acc.st.retestAt
    BY <1>1, <1>2 DEF Entered, States
<1>4. /\ acc.st.fired \subseteq next.st.fired
      /\ next.st.fired \ acc.st.fired \subseteq IdsOf("enter")
      /\ \A id \in next.st.fired \ acc.st.fired : [id |-> id, bar |-> n] \in F
      /\ E \subseteq F
      /\ \A e \in F \ E : /\ e.id \in IdsOf("enter") /\ e.bar = n /\ ~bar.rubbish
                          /\ HasRule("retest") /\ ~MultiEnter => RetestSatisfied(acc.st, bar)
    BY <1>1 DEF Entered, All
<1>5. F \subseteq Fire
    BY <1>1, ReportsAreFires DEF All
<1>6. n \in Nat /\ bars[n].rubbish = bar.rubbish /\ n = bar.n
    BY CatchUpAssumption DEF Candle, InMarket
<1> HIDE DEF E, F, n
<1>7. \A e \in F \ E : e.id \notin IdsOf("veto")
    BY <1>4, OneKind
<1>8. /\ ReportsPast(E, n, n) /\ LatchesReported(acc.st, E) /\ VetoesHold(acc.st, E)
      /\ EntriesClean(E) /\ MilestonesReported(acc.st, E) /\ EntriesOrdered(E)
      /\ BreakAwaited(acc.st) /\ ReversalsClosed(acc.st, n)
    BY DEF Holds, Reports, E, n
<1>9. Vetoes(F) = Vetoes(E) /\ Vetoes(E) = {}
    <2>1. Vetoes(E) = {}
        BY <1>8 DEF VetoesHold
    <2>2. QED
        BY <1>4, <1>7, <2>1 DEF Vetoes
<1>10. ReportsPast(F, n, n)
    BY <1>4, <1>5, <1>6, <1>8 DEF ReportsPast
<1>11. LatchesReported(next.st, F)
    <2>1. ASSUME NEW id \in next.st.fired \ acc.st.fired
          PROVE  \E e \in F : e.id = id
        BY <1>4
    <2>2. QED
        BY <1>4, <1>8, <2>1 DEF LatchesReported
<1>12. VetoesHold(next.st, F)
    BY <1>3, <1>9 DEF VetoesHold
<1>13. EntriesClean(F)
    BY <1>4, <1>6, <1>8, <1>9 DEF EntriesClean
<1>14. MilestonesReported(next.st, F)
    <2>1. HasRule("breakAndClose") =>
             (FirstOf("breakAndClose").id \in next.st.fired <=> FirstOf("breakAndClose").id \in acc.st.fired)
        BY <1>4, FirstsOfKinds, OneKind DEF BreakRule
    <2>2. QED
        BY <1>3, <1>4, <1>8, <2>1 DEF MilestonesReported
<1>15. EntriesOrdered(F)
    <2>1. ASSUME NEW e \in F \ E, HasRule("retest"), ~MultiEnter
          PROVE  \E r \in F : /\ r.id = FirstOf("retest").id /\ r.bar <= e.bar
                              /\ HasRule("breakAndClose") =>
                                    \E b \in F : b.id = FirstOf("breakAndClose").id /\ b.bar < r.bar
        <3>1. RetestSatisfied(acc.st, bar) /\ e.bar = n
            BY <1>4, <2>1
        <3> DEFINE r == [id |-> FirstOf("retest").id, bar |-> acc.st.retestAt]
                   b == [id |-> FirstOf("breakAndClose").id, bar |-> acc.st.breakAt]
        <3>2. r \in F /\ r.id = FirstOf("retest").id /\ r.bar <= e.bar
            BY <1>4, <1>6, <1>8, <3>1 DEF RetestSatisfied, MilestonesReported
        <3>3. HasRule("breakAndClose") => b \in F /\ b.bar < r.bar /\ b.id = FirstOf("breakAndClose").id
            <4>1. HasRule("breakAndClose") => acc.st.breakAt # NoBar /\ acc.st.retestAt > acc.st.breakAt
                BY <3>1 DEF RetestSatisfied
            <4>2. acc.st.breakAt \in Nat /\ acc.st.retestAt \in Nat
                BY <1>2, CatchUpAssumption DEF States
            <4>3. QED
                BY <1>4, <1>8, <4>1, <4>2 DEF MilestonesReported
        <3> HIDE DEF r, b
        <3>4. QED
            BY <3>2, <3>3
    <2>2. ASSUME NEW e \in E, e.id \in IdsOf("enter"), HasRule("retest"), ~MultiEnter
          PROVE  \E r \in F : /\ r.id = FirstOf("retest").id /\ r.bar <= e.bar
                              /\ HasRule("breakAndClose") =>
                                    \E b \in F : b.id = FirstOf("breakAndClose").id /\ b.bar < r.bar
        BY <1>4, <1>8, <2>2 DEF EntriesOrdered
    <2>3. QED
        BY <2>1, <2>2 DEF EntriesOrdered
<1>16. BreakAwaited(next.st)
    BY <1>3, <1>8 DEF BreakAwaited
<1>17. ReversalsClosed(next.st, n)
    BY <1>3, <1>4, <1>8 DEF ReversalsClosed, Printed
<1>18. Contract(next.st, F, n)
    <2>1. HasContract => next.st.origin[BreakRule.id] = acc.st.origin[BreakRule.id]
        <3>1. HasContract => BreakRule.id \in RuleIds /\ BreakRule.id \notin IdsOf("enter")
            BY FirstsOfKinds, RuleType, OneKind DEF HasContract
        <3>2. QED
            BY <1>1, <3>1 DEF Entered
    <2>2. Awaits(next.st) => Awaits(acc.st)
        BY <1>3 DEF Awaits
    <2>3. QED
        BY <1>3, <1>9, <2>1, <2>2 DEF Holds, Contract, Stamped, Unstamped, E, n
<1>19. QED
    BY <1>1, <1>10, <1>11, <1>12, <1>13, <1>14, <1>15, <1>16, <1>17, <1>18
       DEF Holds, Reports, F, next, n

-----------------------------------------------------------------------------
(* The bar, the bars of a tick, and the tick.                               *)

\* The spine reads the bar and leaves the invariant at it.
LEMMA SpineKeeps ==
    ASSUME rules \in Plans, NEW acc \in Acc, NEW bar \in Candle,
           NEW E0 \in SUBSET Fire, NEW m \in Nat \ {0}, bar.n = m + 1, InMarket(bar),
           acc.st.phase # "done", ~acc.st.blocked,
           Reports(acc.st, All(E0, acc), bar.n, bar.n), Contract(acc.st, All(E0, acc), m)
    PROVE  Spine(acc, bar) \in Acc /\ Holds(Spine(acc, bar), E0, bar.n)
<1> DEFINE found == BreakAndClose(acc, bar)
           broke == IF MultiEnter THEN found ELSE acc
           back == Retest(broke, bar)
<1>1. found \in Acc /\ Holds(found, E0, bar.n) /\ found.st.phase # "done" /\ ~found.st.blocked
    BY BreakKeeps
<1>2. CASE acc.st.phase = "awaitBreak"
    <2>1. Spine(acc, bar) = found
        BY <1>2 DEF Spine
    <2>2. QED
        BY <1>1, <2>1
<1>3. CASE acc.st.phase = "awaitEntry"
    <2>1. Spine(acc, bar) = Entries(back, bar)
        BY <1>3 DEF Spine
    <2>2. ~MultiEnter => Holds(acc, E0, bar.n)
        <3>1. SUFFICES ASSUME ~MultiEnter PROVE Contract(acc.st, All(E0, acc), bar.n)
            BY DEF Holds
        <3>2. CASE ~HasContract
            BY <3>2 DEF Contract
        <3>3. CASE HasContract
            <4>1. BreakAwaited(acc.st) /\ BreakFirst
                BY <3>1, <3>3 DEF Reports, BreakFirst, HasContract
            <4>2. acc.st.breakAt # NoBar
                BY <1>3, <4>1 DEF BreakAwaited
            <4>3. acc.st \in States /\ All(E0, acc) \in SUBSET Fire /\ m + 1 \in 1..MaxBars
                BY ReportsAreFires DEF Acc, All, Candle
            <4>4. Contract(acc.st, All(E0, acc), m + 1)
                BY <4>2, <4>3, ContractPassed
            <4>5. QED
                BY <4>4
        <3>4. QED
            BY <3>2, <3>3
    <2>3. broke \in Acc /\ Holds(broke, E0, bar.n) /\ broke.st.phase # "done" /\ ~broke.st.blocked
        BY <1>1, <2>2
    <2> HIDE DEF broke
    <2>4. back \in Acc /\ Holds(back, E0, bar.n) /\ back.st.phase # "done" /\ ~back.st.blocked
        BY <2>3, RetestKeeps
    <2> HIDE DEF back
    <2>5. QED
        BY <2>1, <2>4, EntriesKeep
<1>4. acc.st.phase \in {"awaitBreak", "awaitEntry"}
    BY DEF Acc, States
<1>5. QED
    BY <1>2, <1>3, <1>4

\* The watermark is no part of the invariant.
LEMMA WatermarkApart ==
    ASSUME NEW acc \in Acc, NEW next \in Acc, NEW E0, NEW m,
           next.fires = acc.fires,
           next.st = [acc.st EXCEPT !.watermark = next.st.watermark],
           Holds(acc, E0, m)
    PROVE  Holds(next, E0, m)
<1>1. /\ next.st.phase = acc.st.phase /\ next.st.blocked = acc.st.blocked
      /\ next.st.fired = acc.st.fired /\ next.st.origin = acc.st.origin
      /\ next.st.breakAt = acc.st.breakAt /\ next.st.retestAt = acc.st.retestAt
    BY DEF Acc, States
<1>2. All(E0, next) = All(E0, acc)
    BY DEF All
<1>3. Reports(next.st, All(E0, acc), m, m)
    BY <1>1 DEF Holds, Reports, LatchesReported, VetoesHold, MilestonesReported, BreakAwaited,
                ReversalsClosed, Printed
<1>4. Contract(next.st, All(E0, acc), m)
    BY <1>1 DEF Holds, Contract, Stamped, Unstamped, Awaits
<1>5. QED
    BY <1>2, <1>3, <1>4 DEF Holds

\* A bar moves the invariant to it.
LEMMA BarKeeps ==
    ASSUME rules \in Plans, NEW acc \in Acc, NEW bar \in Candle, NEW at,
           NEW E0 \in SUBSET Fire, NEW m \in Nat \ {0}, bar.n = m + 1, InMarket(bar),
           acc.st.phase # "done", Holds(acc, E0, m)
    PROVE  LET next == EvaluateBar(acc, bar, at) IN
           next \in Acc /\ next.st.watermark = bar.n /\ Holds(next, E0, bar.n)
<1> DEFINE ctl == Controls(acc, bar, ControlClock(bar, at))
           guarded == Guards(ctl, bar)
           stop == guarded.st.phase = "done" \/ guarded.st.blocked
           after == IF stop THEN guarded ELSE Spine(guarded, bar)
           next == EvaluateBar(acc, bar, at)
<1>1. /\ ctl \in Acc /\ Reports(ctl.st, All(E0, ctl), bar.n, m)
      /\ Contract(ctl.st, All(E0, ctl), m) /\ ctl.st.phase # "done"
    <2>1. m \in Nat /\ m <= bar.n
        OBVIOUS
    <2>2. Reports(acc.st, All(E0, acc), m, m) /\ Contract(acc.st, All(E0, acc), m)
        BY DEF Holds
    <2>3. QED
        BY <2>1, <2>2, ControlsKeep
<1> HIDE DEF ctl
<1>2. /\ guarded \in Acc /\ Reports(guarded.st, All(E0, guarded), bar.n, bar.n)
      /\ Contract(guarded.st, All(E0, guarded), m)
      /\ guarded.st.phase = "done" /\ ~guarded.st.blocked =>
            \E v \in Vetoes(All(E0, guarded)) : v.bar = bar.n
    BY <1>1, GuardsKeep
<1> HIDE DEF guarded
<1>3. after \in Acc /\ Holds(after, E0, bar.n)
    <2>1. CASE stop
        <3>1. guarded.st \in States /\ All(E0, guarded) \in SUBSET Fire /\ m + 1 \in 1..MaxBars
            BY <1>2, ReportsAreFires DEF Acc, All, Candle
        <3>2. \E v \in Vetoes(All(E0, guarded)) : v.bar <= m + 1
            <4>1. CASE guarded.st.blocked
                <5>1. PICK v \in Vetoes(All(E0, guarded)) : TRUE
                    BY <1>2, <4>1 DEF Reports, VetoesHold
                <5>2. v.bar <= m + 1
                    BY <1>2, <5>1 DEF Reports, ReportsPast, Vetoes
                <5>3. QED
                    BY <5>1, <5>2
            <4>2. CASE ~guarded.st.blocked
                <5>1. PICK v \in Vetoes(All(E0, guarded)) : v.bar = bar.n
                    BY <1>2, <2>1, <4>2
                <5>2. v.bar <= m + 1
                    BY <5>1
                <5>3. QED
                    BY <5>1, <5>2
            <4>3. QED
                BY <4>1, <4>2
        <3>3. ~Awaits(guarded.st)
            BY <2>1 DEF Awaits
        <3>4. Contract(guarded.st, All(E0, guarded), m + 1)
            BY <1>2, <3>1, <3>2, <3>3, ContractPassed
        <3>5. QED
            BY <1>2, <2>1, <3>4 DEF Holds
    <2>2. CASE ~stop
        BY <1>2, <2>2, SpineKeeps
    <2>3. QED
        BY <2>1, <2>2
<1>4. next = [after EXCEPT !.st = Watermarked(@, bar)]
    BY BarComposes DEF guarded, ctl
<1>5. next \in Acc /\ next.st.watermark = bar.n
    BY BarType
<1> HIDE DEF after, next
<1>6. next.fires = after.fires /\ next.st = [after.st EXCEPT !.watermark = bar.n]
    BY <1>3, <1>4 DEF Acc, Watermarked
<1>7. Holds(next, E0, bar.n)
    BY <1>3, <1>5, <1>6, WatermarkApart
<1>8. QED
    BY <1>5, <1>7 DEF next

\* The bars of a tick move the invariant to the last one that was read.
LEMMA BarsKeep ==
    ASSUME rules \in Plans, NEW st \in States, NEW fresh \in Seq(Candle), NEW at \in Nat,
           st.phase # "done", st.watermark \in Nat \ {0},
           \A i \in 1..Len(fresh) :
              fresh[i].n = st.watermark + i /\ InMarket(fresh[i]),
           NEW E0 \in SUBSET Fire, Holds([st |-> st, fires |-> <<>>], E0, st.watermark)
    PROVE  LET next == EvaluatePlan(st, fresh, at) IN
           next \in Acc /\ Holds(next, E0, next.st.watermark)
<1>0. Len(fresh) \in Nat /\ \A i \in 1..Len(fresh) : fresh[i] \in Candle
    OBVIOUS
<1> DEFINE n == Len(fresh)
           w == st.watermark
           first == [st |-> st, fires |-> <<>>]
<1>1. PICK f : RunOfBars(f, st, fresh, at)
    BY BarsRun
<1>2. /\ f \in [0..n -> Acc] /\ f[0] = first /\ f[n] = EvaluatePlan(st, fresh, at)
      /\ \A i \in 1..n : f[i] = BarStep(f[i - 1], fresh[i], at)
    BY <1>1 DEF RunOfBars
<1>3. /\ n \in Nat /\ w \in Nat \ {0}
      /\ \A i \in 1..n : fresh[i] \in Candle /\ fresh[i].n = w + i /\ InMarket(fresh[i])
    BY <1>0
<1>4. first.st.watermark = w /\ Holds(first, E0, w)
    OBVIOUS
<1> HIDE DEF n, w, first
<1> DEFINE Right(i) == /\ Holds(f[i], E0, f[i].st.watermark)
                       /\ f[i].st.phase # "done" => f[i].st.watermark = w + i
           S == {i \in 0..n : Right(i)}
<1>5. 0 \in S
    BY <1>2, <1>3, <1>4
<1>6. ASSUME NEW i \in 1..n, i - 1 \in S PROVE i \in S
    <2>1. f[i - 1] \in Acc /\ i \in 0..n /\ Right(i - 1)
        BY <1>2, <1>3, <1>6
    <2>2. f[i] = BarStep(f[i - 1], fresh[i], at) /\ fresh[i] \in Candle
        BY <1>2, <1>3
    <2>3. CASE f[i - 1].st.phase = "done"
        <3>1. f[i] = f[i - 1]
            BY <2>2, <2>3 DEF BarStep
        <3>2. QED
            BY <2>1, <2>3, <3>1
    <2>4. CASE f[i - 1].st.phase # "done"
        <3> DEFINE m == w + (i - 1)
        <3>0. i \in Nat \ {0} /\ w \in Nat \ {0}
            BY <1>3
        <3>1. /\ m \in Nat \ {0} /\ fresh[i].n = m + 1 /\ InMarket(fresh[i])
              /\ m + 1 = w + i
            <4>1. m \in Nat \ {0} /\ m + 1 = w + i
                BY <3>0
            <4>2. fresh[i].n = w + i /\ InMarket(fresh[i])
                BY <1>3
            <4>3. QED
                BY <4>1, <4>2
        <3>2. f[i - 1].st.watermark = m /\ Holds(f[i - 1], E0, m)
            BY <2>1, <2>4
        <3>3. f[i] = EvaluateBar(f[i - 1], fresh[i], at)
            BY <2>2, <2>4 DEF BarStep
        <3> DEFINE a == f[i - 1]
                   b == fresh[i]
        <3>4. /\ a \in Acc /\ b \in Candle /\ a.st.phase # "done" /\ Holds(a, E0, m)
              /\ m \in Nat \ {0} /\ b.n = m + 1 /\ InMarket(b)
              /\ f[i] = EvaluateBar(a, b, at)
            BY <2>1, <2>2, <2>4, <3>1, <3>2, <3>3
        <3>5. b.n = w + i
            BY <3>1
        <3> HIDE DEF m, a, b
        <3>6. f[i].st.watermark = b.n /\ Holds(f[i], E0, b.n)
            BY <3>4, BarKeeps
        <3>7. Right(i)
            BY <3>5, <3>6
        <3>8. QED
            BY <2>1, <3>7
    <2>5. QED
        BY <2>3, <2>4
<1>7. \A i \in 0..n : i \in S
    BY <1>3, <1>5, <1>6, AlongLoop
<1>8. n \in 0..n /\ f[n] \in Acc
    BY <1>2, <1>3
<1>9. Right(n)
    BY <1>7, <1>8
<1>10. QED
    BY <1>2, <1>8, <1>9

(* The invariant of an engine that has read the bars up to its watermark.   *)
Sound(engine) == Holds(engine, {}, engine.st.watermark)

\* What was reported before a tick, and in it.
LEMMA ReportsJoin ==
    ASSUME NEW s \in Seq(Fire), NEW t \in Seq(Fire)
    PROVE  Reported(s \o t) = Reported(s) \cup Reported(t)
<1>1. /\ DOMAIN s = 1..Len(s) /\ DOMAIN t = 1..Len(t) /\ Len(s) \in Nat /\ Len(t) \in Nat
      /\ DOMAIN (s \o t) = 1..(Len(s) + Len(t))
      /\ \A i \in 1..(Len(s) + Len(t)) :
            (s \o t)[i] = IF i <= Len(s) THEN s[i] ELSE t[i - Len(s)]
    OBVIOUS
<1>2. Reported(s \o t) \subseteq Reported(s) \cup Reported(t)
    <2>1. ASSUME NEW i \in DOMAIN (s \o t) PROVE (s \o t)[i] \in Reported(s) \cup Reported(t)
        <3>1. CASE i <= Len(s)
            BY <1>1, <3>1 DEF Reported
        <3>2. CASE ~(i <= Len(s))
            <4>1. i - Len(s) \in DOMAIN t /\ (s \o t)[i] = t[i - Len(s)]
                BY <1>1, <3>2
            <4>2. QED
                BY <4>1 DEF Reported
        <3>3. QED
            BY <3>1, <3>2
    <2>2. QED
        BY <2>1 DEF Reported
<1>3. Reported(s) \subseteq Reported(s \o t)
    BY <1>1 DEF Reported
<1>4. ASSUME NEW j \in DOMAIN t PROVE t[j] \in Reported(s \o t)
    <2>1. j + Len(s) \in DOMAIN (s \o t) /\ (s \o t)[j + Len(s)] = t[j]
        BY <1>1
    <2>2. QED
        BY <2>1 DEF Reported
<1>5. QED
    BY <1>2, <1>3, <1>4 DEF Reported

\* A tick keeps the invariant.
LEMMA TickKeeps ==
    ASSUME rules \in Plans, Market(bars), NEW at \in Nat,
           NEW engine \in Acc, engine.st.watermark \in 1..Len(bars), Sound(engine)
    PROVE  Sound(Tick(engine, bars, at))
<1> DEFINE fresh == Fresh(engine, bars)
           seen == Seen(engine, bars)
           w == engine.st.watermark
           last == bars[Len(bars)]
           first == [st |-> engine.st, fires |-> <<>>]
           result == IF fresh = <<>> THEN EvaluateControlsOnly(engine.st, last, at)
                     ELSE EvaluatePlan(engine.st, seen, at)
           next == [st |-> result.st, fires |-> engine.fires \o result.fires]
           E0 == Reported(engine.fires)
<1>1. /\ fresh \in Seq(BareCandle) /\ last \in Candle /\ Len(fresh) = Len(bars) - w
      /\ \A i \in 1..Len(fresh) : fresh[i].n = w + i /\ bars[w + i] = fresh[i]
    <2>1. /\ Fresh(engine, bars) \in Seq(BareCandle)
          /\ Len(Fresh(engine, bars)) = Len(bars) - engine.st.watermark
          /\ \A i \in 1..Len(Fresh(engine, bars)) :
                /\ Fresh(engine, bars)[i] = bars[engine.st.watermark + i]
                /\ Fresh(engine, bars)[i].n = engine.st.watermark + i
          /\ bars[Len(bars)] \in Candle
        BY FreshBars
    <2>2. QED
        BY <2>1
<1>2. fresh # <<>> => /\ seen \in Seq(Candle)
                       /\ \A i \in 1..Len(seen) : seen[i].n = w + i /\ InMarket(seen[i])
    <2>1. SUFFICES ASSUME fresh # <<>>
                   PROVE  /\ seen \in Seq(Candle)
                          /\ \A i \in 1..Len(seen) : seen[i].n = w + i /\ InMarket(seen[i])
        OBVIOUS
    <2> DEFINE read == Reading(DetectorWindow(bars, Fresh(engine, bars)))
    <2>2. /\ seen \in Seq(Candle) /\ Len(seen) = Len(fresh)
          /\ \A i \in 1..Len(seen) :
                seen[i] = [fresh[i] EXCEPT !.win = read] /\ seen[i].n = fresh[i].n
        BY <2>1, SeenBars
    <2> HIDE DEF fresh, seen, read
    <2>3. ASSUME NEW i \in 1..Len(seen) PROVE InMarket(seen[i])
        <3>0. i \in 1..Len(fresh)
            BY <2>2
        <3>1. fresh[i] \in BareCandle /\ fresh[i] = bars[w + i] /\ seen[i].n = w + i
            <4>1. fresh[i] \in BareCandle
                BY <1>1, <3>0
            <4>2. fresh[i].n = w + i /\ fresh[i] = bars[w + i]
                BY <1>1, <3>0
            <4>3. seen[i].n = fresh[i].n
                BY <2>2
            <4>4. QED
                BY <4>1, <4>2, <4>3
        <3>2. seen[i] = [fresh[i] EXCEPT !.win = read]
            BY <2>2
        <3>3. /\ seen[i].o = fresh[i].o /\ seen[i].c = fresh[i].c
              /\ seen[i].signal = fresh[i].signal /\ seen[i].rubbish = fresh[i].rubbish
            BY <3>1, <3>2 DEF BareCandle
        <3>4. QED
            BY <3>1, <3>3 DEF InMarket
    <2>4. QED
        BY <1>1, <2>2, <2>3
<1>3. Tick(engine, bars, at) = IF engine.st.phase = "done" THEN engine ELSE next
    BY DEF Tick, Fresh, Seen
<1>4. engine.st \in States /\ engine.fires \in Seq(Fire) /\ E0 \in SUBSET Fire
    BY ReportsAreFires DEF Acc
<1>5. Len(bars) \in Nat /\ w \in 1..Len(bars) /\ last.n = Len(bars) /\ w \in Nat \ {0}
    BY DEF Market
<1>6. SUFFICES ASSUME engine.st.phase # "done" PROVE Sound(next)
    BY <1>3
<1>7. first \in Acc /\ Holds(first, E0, w)
    <2>1. first \in Acc
        BY <1>4 DEF Acc
    <2>2. All(E0, first) = All({}, engine)
        BY DEF All, Reported
    <2>3. QED
        BY <2>1, <2>2 DEF Sound, Holds
<1> HIDE DEF fresh, seen, last, E0
<1>8. result \in Acc /\ Holds(result, E0, result.st.watermark)
    <2>1. CASE fresh = <<>>
        <3>1. w = Len(bars)
            BY <1>1, <1>5, <2>1
        <3>2. result = Controls(first, last, at)
            BY <2>1 DEF EvaluateControlsOnly
        <3>3. Reports(first.st, All(E0, first), w, w) /\ Contract(first.st, All(E0, first), w)
            BY <1>7 DEF Holds
        <3>4. first.st.watermark = w /\ w \in Nat /\ w <= last.n
            BY <1>5, <3>1
        <3> HIDE DEF first, w
        <3>5. /\ Controls(first, last, at) \in Acc
              /\ Reports(Controls(first, last, at).st, All(E0, Controls(first, last, at)), last.n, w)
              /\ Contract(Controls(first, last, at).st, All(E0, Controls(first, last, at)), w)
              /\ Controls(first, last, at).st.watermark = w
            BY <1>1, <1>4, <1>5, <1>7, <3>1, <3>3, <3>4, ControlsKeep
        <3>6. QED
            BY <1>5, <3>1, <3>2, <3>5 DEF Holds
    <2>2. CASE fresh # <<>>
        BY <1>4, <1>5, <1>6, <1>7, <1>2, <2>2, BarsKeep
    <2>3. QED
        BY <2>1, <2>2
<1> HIDE DEF result
<1>9. next.st = result.st /\ next.fires = engine.fires \o result.fires /\ result.fires \in Seq(Fire)
    BY <1>8 DEF Acc
<1>10. All({}, next) = All(E0, result)
    BY <1>4, <1>9, ReportsJoin DEF All, E0
<1>11. QED
    BY <1>8, <1>9, <1>10 DEF Sound, Holds

-----------------------------------------------------------------------------
(* The invariant of the specification, and the theorems.                    *)

LateInv == TypeInv /\ Sound(late)

\* The seed of a plan satisfies the invariant: it has reported nothing, and the only bar
\* it may have an origin from is the arming one.
LEMMA InitLate ==
    ASSUME Init
    PROVE  LateInv
<1> DEFINE st == SeedPlanState(bars)
<1>1. TypeInv
    BY InitTypes
<1>2. rules \in Plans /\ Market(bars) /\ Len(bars) = 1
    BY <1>1 DEF TypeInv, MarketType, Init
<1>3. /\ st \in States /\ st.watermark = 1
      /\ st.phase = InitialPhase /\ st.fired = {} /\ ~st.blocked
      /\ st.breakAt = NoBar /\ st.retestAt = NoBar
      /\ \A r \in PlanRules : UsesClose(r) =>
            st.origin[r.id] = IF ArmedAt < Closes(bars[1]) THEN bars[1].o ELSE NoPrice
    BY <1>2, SeedDoes
<1>4. late = [st |-> st, fires |-> <<>>]
    BY DEF Init, Seeded
<1> HIDE DEF st
<1>5. late.st = st /\ All({}, late) = {}
    BY <1>4 DEF All, Reported
<1>6. /\ ReportsPast({}, 1, 1) /\ LatchesReported(st, {}) /\ VetoesHold(st, {})
      /\ EntriesClean({}) /\ EntriesOrdered({})
    BY <1>3 DEF ReportsPast, LatchesReported, VetoesHold, Vetoes, EntriesClean, EntriesOrdered
<1>7. MilestonesReported(st, {})
    BY <1>3 DEF MilestonesReported
<1>8. BreakAwaited(st)
    BY <1>3 DEF BreakAwaited, BreakFirst, InitialPhase
<1>9. ReversalsClosed(st, 1)
    <2>1. 2..1 = {}
        OBVIOUS
    <2>2. QED
        BY <2>1 DEF ReversalsClosed
<1>10. Contract(st, {}, 1)
    <2>1. SUFFICES ASSUME HasContract
                   PROVE  /\ Unstamped(BreakRule, st, {}, 1)
                          /\ OriginAt(BreakRule, st.origin[BreakRule.id], 1)
        BY <1>3 DEF Contract, Stamped
    <2>2. 2..1 = {} /\ (1 + 1) - 1 = 1
        OBVIOUS
    <2>3. Unstamped(BreakRule, st, {}, 1)
        BY <2>2 DEF Unstamped, ContractBreaks
    <2>4. st.origin[BreakRule.id] = IF ArmedAt < Closes(bars[1]) THEN bars[1].o ELSE NoPrice
        BY <1>2, <1>3, <2>1, FirstsOfKinds DEF HasContract, InContract
    <2>5. bars[1].o \in Nat
        <3>1. bars \in Seq(Candle) /\ 1 \in 1..Len(bars)
            BY <1>2, BareIsCandle DEF Market
        <3>2. bars[1] \in Candle
            BY <3>1
        <3>3. QED
            BY <3>2 DEF Candle
    <2>6. OriginAt(BreakRule, st.origin[BreakRule.id], 1)
        BY <2>2, <2>4, <2>5 DEF OriginAt, DippedBefore, NoPrice
    <2>7. QED
        BY <2>3, <2>6
<1>11. QED
    BY <1>1, <1>3, <1>5, <1>6, <1>7, <1>8, <1>9, <1>10 DEF LateInv, Sound, Holds, Reports

\* What the invariant says is about bars the engine has read, which do not change.
LEMMA BarsStay ==
    ASSUME TypeInv, Sound(late), UNCHANGED <<rules, late>>,
           \A k \in 1..Len(bars) : bars'[k] = bars[k]
    PROVE  Sound(late)'
<1> DEFINE E == All({}, late)
           w == late.st.watermark
<1>1. /\ w \in 1..Len(bars) /\ Len(bars) \in Nat /\ E \subseteq Fire
      /\ \A k \in 1..w : bars'[k] = bars[k]
    BY ReportsAreFires DEF TypeInv, MarketType, EngineType, Market, All
<1>2. /\ All({}, late)' = E /\ Fire' = Fire /\ PlanRules' = PlanRules
      /\ IdsOf("enter")' = IdsOf("enter") /\ IdsOf("veto")' = IdsOf("veto")
      /\ HasRule("breakAndClose")' = HasRule("breakAndClose")
      /\ HasRule("retest")' = HasRule("retest")
      /\ FirstOf("breakAndClose")' = FirstOf("breakAndClose")
      /\ FirstOf("retest")' = FirstOf("retest") /\ MultiEnter' = MultiEnter
    BY DEF All, Reported, Fire, RuleIds, PlanRules, IdsOf, HasRule, FirstOf, MultiEnter
<1> HIDE DEF E, w
<1>3. Vetoes(E)' = Vetoes(E)
    BY <1>2 DEF Vetoes, E
<1>4. \A e \in E : e.bar \in 1..w
    BY <1>1 DEF Sound, Holds, Reports, ReportsPast, Fire, E, w
<1>5. Reports(late.st, E, w, w)
    BY DEF Sound, Holds, E, w
<1>6. (ReportsPast(E, w, w) /\ LatchesReported(late.st, E) /\ VetoesHold(late.st, E))'
    BY <1>2, <1>3, <1>5 DEF Reports, ReportsPast, LatchesReported, VetoesHold, E, w
<1>7. EntriesClean(E)'
    BY <1>1, <1>2, <1>3, <1>4, <1>5 DEF Reports, EntriesClean, E
<1>8. (MilestonesReported(late.st, E) /\ EntriesOrdered(E))'
    BY <1>2, <1>5 DEF Reports, MilestonesReported, EntriesOrdered, E
<1>9. (BreakAwaited(late.st))'
    BY <1>2, <1>5 DEF Reports, BreakAwaited, BreakFirst
<1>10. ReversalsClosed(late.st, w)'
    <2>1. \A k \in 2..w : Printed(late.st, k)' => Printed(late.st, k)
        BY <1>1, <1>2 DEF Printed, BreakFirst
    <2>2. QED
        BY <1>2, <1>5, <2>1 DEF Reports, ReversalsClosed, w, Reversal
<1>11. Contract(late.st, E, w)'
    <2>1. Contract(late.st, E, w)
        BY DEF Sound, Holds, E, w
    <2>2. BreakRule' = BreakRule /\ HasContract' = HasContract
        BY <1>2 DEF BreakRule, HasContract, InContract, UsesClose
    <2>3. \A k \in 1..(w + 1) : DippedBefore(BreakRule, k)' <=> DippedBefore(BreakRule, k)
        BY <1>1, <2>2 DEF DippedBefore, NearSide, Closes
    <2>4. ContractBreaks(BreakRule, w)' = ContractBreaks(BreakRule, w)
        <3>1. w' = w
            BY DEF w
        <3>2. \A k \in 2..w : bars'[k] = bars[k] /\ k \in 1..(w + 1)
            BY <1>1
        <3>3. QED
            BY <2>2, <2>3, <3>1, <3>2 DEF ContractBreaks, NearSide, FarSide
    <2>5. DippedBefore(BreakRule, w + 1)' <=> DippedBefore(BreakRule, w + 1)
        BY <1>1, <2>3 DEF w
    <2>6. bars'[1] = bars[1]
        BY <1>1
    <2>7. \A origin : OriginAt(BreakRule, origin, w)' <=> OriginAt(BreakRule, origin, w)
        BY <2>2, <2>5, <2>6 DEF OriginAt, NearSide, Closes, w
    <2>8. QED
        BY <1>2, <1>3, <2>1, <2>2, <2>4, <2>7 DEF Contract, Stamped, Unstamped, Awaits, E, w
<1>12. QED
    BY <1>2, <1>6, <1>7, <1>8, <1>9, <1>10, <1>11 DEF Sound, Holds, Reports, E, w

\* Every step keeps the invariant.
LEMMA NextLate ==
    ASSUME LateInv, [Next]_vars
    PROVE  LateInv'
<1>1. TypeInv'
    BY NextTypes DEF LateInv
<1>2. CASE Elapse
    <2>1. \A k \in 1..Len(bars) : bars'[k] = bars[k]
        BY <1>2, ElapseMarket DEF LateInv, TypeInv
    <2>2. UNCHANGED <<rules, late>>
        BY <1>2 DEF Elapse
    <2>3. QED
        BY <1>1, <2>1, <2>2, BarsStay DEF LateInv
<1>3. CASE LateTick
    <2>1. /\ rules \in Plans /\ Market(bars) /\ now \in Nat
          /\ late \in Acc /\ late.st.watermark \in 1..Len(bars)
        BY CatchUpAssumption DEF LateInv, TypeInv, MarketType, EngineType
    <2> DEFINE next == Tick(late, bars, now)
    <2>2. Sound(next)
        BY <2>1, TickKeeps DEF LateInv
    <2>3. late' = next /\ UNCHANGED <<rules, now, bars, prompt>>
        BY <1>3 DEF LateTick
    <2> HIDE DEF next
    <2>4. Sound(late)'
        <3>1. Sound(late)' <=> Sound(next)
            BY <2>3 DEF Sound, Holds, Reports, Contract, All, Reported, ReportsPast, LatchesReported,
                        VetoesHold, Vetoes, EntriesClean, MilestonesReported, EntriesOrdered,
                        BreakAwaited, BreakFirst, ReversalsClosed, Reversal, Printed, Stamped,
                        Unstamped, OriginAt, Awaits, BreakRule, HasContract, InContract, UsesClose,
                        ContractBreaks, DippedBefore, NearSide, FarSide, Closes, Fire, RuleIds,
                        PlanRules, IdsOf, HasRule, FirstOf, MultiEnter
        <3>2. QED
            BY <2>2, <3>1
    <2>5. QED
        BY <1>1, <2>4 DEF LateInv
<1>4. CASE UNCHANGED vars
    BY <1>1, <1>4, BarsStay DEF LateInv, vars
<1>5. QED
    BY <1>2, <1>3, <1>4 DEF Next

\* The invariant holds in every state.
LEMMA LateHolds == Spec => []LateInv
<1>1. Init => LateInv
    BY InitLate
<1>2. LateInv /\ [Next]_vars => LateInv'
    BY NextLate
<1>3. QED
    BY <1>1, <1>2, PTL DEF Spec

\* The bars a rule fired on are those of its reports.
LEMMA FiredOnReports ==
    ASSUME NEW engine, NEW id
    PROVE  /\ \A e \in Reported(engine.fires) : e.id = id => e.bar \in FiredOn(engine, id)
           /\ \A n \in FiredOn(engine, id) :
                 \E e \in Reported(engine.fires) : e.id = id /\ e.bar = n
BY DEF FiredOn, Reported

\* The bars vetoed are those of the reports of vetoes.
LEMMA VetoedReports ==
    ASSUME NEW engine
    PROVE  /\ \A v \in Vetoes(Reported(engine.fires)) : v.bar \in VetoedAt(engine)
           /\ \A n \in VetoedAt(engine) :
                 \E v \in Vetoes(Reported(engine.fires)) : v.bar = n
BY FiredOnReports DEF VetoedAt, Vetoes

\* An entry is only ever dispatched from a bar that printed outside a spread hour, after
\* a break and then a retest, and with no veto on that bar or an earlier one, however
\* many bars the engine catches up on in one tick.
THEOREM EntriesComeInSequence == Spec => []EntryInSequence
<1>1. ASSUME LateInv PROVE EntryInSequence
    <2> DEFINE E == Reported(late.fires)
    <2>1. EntriesClean(E) /\ EntriesOrdered(E)
        BY <1>1 DEF LateInv, Sound, Holds, Reports, All
    <2>2. ASSUME NEW id \in IdsOf("enter"), NEW n \in FiredOn(late, id)
          PROVE  /\ ~bars[n].rubbish
                 /\ \A v \in VetoedAt(late) : n < v
                 /\ HasRule("retest") /\ ~MultiEnter =>
                       \E r \in FiredOn(late, FirstOf("retest").id) :
                          /\ r <= n
                          /\ HasRule("breakAndClose") =>
                                \E b \in FiredOn(late, FirstOf("breakAndClose").id) : b < r
        <3>1. PICK e \in E : e.id = id /\ e.bar = n
            BY <2>2, FiredOnReports
        <3> HIDE DEF E
        <3>2. ~bars[n].rubbish /\ \A v \in Vetoes(E) : n < v.bar
            BY <2>1, <2>2, <3>1 DEF EntriesClean
        <3>3. \A v \in VetoedAt(late) : n < v
            BY <3>2, VetoedReports DEF E
        <3>4. ASSUME HasRule("retest"), ~MultiEnter
              PROVE  \E r \in FiredOn(late, FirstOf("retest").id) :
                          /\ r <= n
                          /\ HasRule("breakAndClose") =>
                                \E b \in FiredOn(late, FirstOf("breakAndClose").id) : b < r
            <4>1. PICK r \in E : /\ r.id = FirstOf("retest").id /\ r.bar <= n
                                 /\ HasRule("breakAndClose") =>
                                       \E b \in E : b.id = FirstOf("breakAndClose").id /\ b.bar < r.bar
                BY <2>1, <2>2, <3>1, <3>4 DEF EntriesOrdered
            <4>2. r.bar \in FiredOn(late, FirstOf("retest").id)
                BY <4>1, FiredOnReports DEF E
            <4>3. ASSUME HasRule("breakAndClose")
                  PROVE  \E b \in FiredOn(late, FirstOf("breakAndClose").id) : b < r.bar
                <5>1. PICK b \in E : b.id = FirstOf("breakAndClose").id /\ b.bar < r.bar
                    BY <4>1, <4>3
                <5>2. b.bar \in FiredOn(late, FirstOf("breakAndClose").id)
                    BY <5>1, FiredOnReports DEF E
                <5>3. QED
                    BY <5>1, <5>2
            <4>4. QED
                BY <4>1, <4>2, <4>3
        <3>5. QED
            BY <3>2, <3>3, <3>4
    <2>3. QED
        BY <2>2 DEF EntryInSequence
<1>2. QED
    BY <1>1, LateHolds, PTL

\* A reversal that printed on a bar the engine has read, on a plan that may have had a
\* position then, is closed: neither the bar that retires the plan nor a block of its
\* entries swallows it.
THEOREM ReversalsAreClosed == Spec => []ReversalNeverSwallowed
<1>1. ASSUME LateInv PROVE ReversalNeverSwallowed
    <2> DEFINE E == Reported(late.fires)
    <2>1. ReversalsClosed(late.st, late.st.watermark) /\ LatchesReported(late.st, E)
        BY <1>1 DEF LateInv, Sound, Holds, Reports, All
    <2> HIDE DEF E
    <2>2. ASSUME NEW i \in DOMAIN rules, Reversal(rules[i]), PrintedAfter(rules[i], late) # {}
          PROVE  FiredOn(late, rules[i].id) # {}
        <3>1. PICK n \in PrintedAfter(rules[i], late) : TRUE
            BY <2>2
        <3>2. n \in 2..late.st.watermark /\ Printed(late.st, n)
            BY <3>1 DEF PrintedAfter, Printed, BreakFirst
        <3>3. rules[i].id \in late.st.fired
            BY <2>1, <2>2, <3>2 DEF ReversalsClosed, PlanRules
        <3>4. PICK e \in E : e.id = rules[i].id
            BY <2>1, <3>3 DEF LatchesReported
        <3>5. e.bar \in FiredOn(late, rules[i].id)
            BY <3>4, FiredOnReports DEF E
        <3>6. QED
            BY <3>5
    <2>3. QED
        BY <2>2 DEF ReversalNeverSwallowed, Reversal
<1>2. QED
    BY <1>1, LateHolds, PTL

\* The engine stamps the break of the operator's contract: the first bar after the seed
\* that closes across the line when it, an earlier one or the arming bar opened on the
\* near side or an earlier one closed there; and no other, unless a veto came first.
THEOREM BreakIsTheContracts == Spec => []BreakMeetsContract
<1>1. ASSUME LateInv PROVE BreakMeetsContract
    <2> DEFINE E == Reported(late.fires)
               w == late.st.watermark
               at == late.st.breakAt
               due == ContractBreaks(BreakRule, w)
               first == CHOOSE n \in due : \A m \in due : n <= m
    <2>1. SUFFICES ASSUME HasContract
                   PROVE  IF due = {} \/ \E v \in VetoedAt(late) : v <= first
                          THEN at = NoBar ELSE at = first
        BY DEF BreakMeetsContract, HasContract, BreakRule
    <2>2. Stamped(BreakRule, late.st, E, w) /\ Unstamped(BreakRule, late.st, E, w)
        BY <1>1, <2>1 DEF LateInv, Sound, Holds, Contract, All
    <2>3. /\ at # NoBar => /\ at \in due /\ \A m \in due : at <= m
                           /\ \A v \in Vetoes(E) : at < v.bar
          /\ at = NoBar => \A m \in due : \E v \in Vetoes(E) : v.bar <= m
        BY <2>2 DEF Stamped, Unstamped
    <2>4. due \in SUBSET Nat
        <3>1. w \in Nat
            BY <1>1 DEF LateInv, TypeInv, EngineType, MarketType, Market
        <3>2. due \subseteq 2..w
            BY DEF ContractBreaks
        <3>3. QED
            BY <3>1, <3>2
    <2>5. due # {} => first \in due /\ \A m \in due : first <= m
        <3> HIDE DEF due
        <3>1. QED
            BY <2>4, LeastOf
    <2>6. /\ \A v \in Vetoes(E) : v.bar \in VetoedAt(late)
          /\ \A n \in VetoedAt(late) : \E v \in Vetoes(E) : v.bar = n
        BY VetoedReports
    <2>7. E \subseteq Fire
        BY <1>1, ReportsAreFires DEF LateInv, TypeInv, EngineType
    <2> HIDE DEF E, w, at, due, first
    <2>8. \A v \in Vetoes(E) : v.bar \in Nat
        BY <2>7 DEF Vetoes, Fire
    <2>9. ASSUME at # NoBar PROVE at = first
        <3>1. at \in due /\ first \in due /\ at <= first /\ first <= at
            BY <2>3, <2>5, <2>9
        <3>2. at \in Nat /\ first \in Nat
            BY <2>4, <3>1
        <3>3. QED
            BY <3>1, <3>2
    <2>10. CASE due = {}
        BY <2>3, <2>10
    <2>11. CASE due # {} /\ \E v \in VetoedAt(late) : v <= first
        <3>1. PICK v \in Vetoes(E) : v.bar <= first /\ v.bar \in Nat
            BY <2>6, <2>8, <2>11
        <3>2. first \in Nat
            BY <2>4, <2>5, <2>11
        <3>3. at = NoBar
            BY <2>3, <2>9, <3>1, <3>2
        <3>4. QED
            BY <2>11, <3>3
    <2>12. CASE due # {} /\ ~ \E v \in VetoedAt(late) : v <= first
        BY <2>3, <2>4, <2>5, <2>6, <2>9, <2>12
    <2>13. QED
        BY <2>10, <2>11, <2>12
<1>2. QED
    BY <1>1, LateHolds, PTL
=============================================================================
