----------------------- MODULE PlanCatchUp_proofs ------------------------
(***************************************************************************)
(* Theorems of PlanCatchUp, for every plan, every bar and every delay of   *)
(* the late engine: both engines stay well typed, entries come in sequence *)
(* and before any veto, no reversal is swallowed, and the break is stamped *)
(* on the bar of the operator's contract.                                  *)
(*                                                                         *)
(* The argument climbs the evaluator.  A loop over rules or bars is a      *)
(* function of the number of steps made, and a claim about it is proved    *)
(* along its indexes, by the least index that would break it.  A section   *)
(* per loop says what one pass may change and report; the bar composes the *)
(* passes, the tick folds the bars, and the tick preserves the invariant.  *)
(***************************************************************************)
EXTENDS PlanCatchUp, TLAPS, WellFoundedInduction

-----------------------------------------------------------------------------
(* Indexes and loops.                                                       *)

\* A nonempty set of naturals has a least element.
LEMMA LeastOf ==
    ASSUME NEW S \in SUBSET Nat, S # {}
    PROVE  \E n \in S : \A m \in S : n <= m
<1> DEFINE R == {ss \in Nat \X Nat : ss[1] < ss[2]}
<1>1. IsWellFoundedOn(R, Nat)
    BY NatLessThanWellFounded DEF OpToRel
<1> HIDE DEF R
<1>2. PICK n \in S : \A m \in S : ~ (<<m, n>> \in R)
    BY <1>1, WFMin
<1>3. ASSUME NEW m \in S, m < n PROVE FALSE
    <2>1. <<m, n>> \in R
        BY <1>3 DEF R
    <2>2. QED
        BY <1>2, <2>1
<1>4. QED
    BY <1>3

\* What holds before a loop and survives each step holds at every index.
LEMMA AlongLoop ==
    ASSUME NEW n \in Nat, NEW S \in SUBSET (0..n), 0 \in S,
           \A i \in 1..n : i - 1 \in S => i \in S
    PROVE  \A i \in 0..n : i \in S
<1> DEFINE B == (0..n) \ S
<1>1. SUFFICES ASSUME B # {} PROVE FALSE
    OBVIOUS
<1>2. B \in SUBSET Nat
    OBVIOUS
<1>3. PICK m \in B : \A k \in B : m <= k
    BY <1>1, <1>2, LeastOf
<1>4. m # 0 /\ m - 1 \in S
    BY <1>3
<1>5. QED
    BY <1>3, <1>4

(* The runs of a loop of n steps whose values stay in A, step i being       *)
(* G[i, value so far].                                                      *)
Runs(A, base, n, G) ==
    {f \in [0..n -> A] : f[0] = base /\ \A i \in 1..n : f[i] = G[<<i, f[i - 1]>>]}

\* A loop whose step stays in A has a run.
LEMMA LoopRuns ==
    ASSUME NEW A, NEW base \in A, NEW n \in Nat, NEW G \in [(1..n) \X A -> A]
    PROVE  Runs(A, base, n, G) # {}
<1> DEFINE S == {k \in 0..n : Runs(A, base, k, G) # {}}
<1>1. 0 \in S
    <2> DEFINE g == [i \in 0..0 |-> base]
    <2>1. g \in [0..0 -> A] /\ g[0] = base /\ 1..0 = {}
        OBVIOUS
    <2> HIDE DEF g
    <2>2. g \in Runs(A, base, 0, G)
        BY <2>1 DEF Runs
    <2>3. QED
        BY <2>2
<1>2. ASSUME NEW k \in 1..n, k - 1 \in S PROVE k \in S
    <2>1. PICK f \in [0..(k - 1) -> A] :
              f[0] = base /\ \A i \in 1..(k - 1) : f[i] = G[<<i, f[i - 1]>>]
        BY <1>2 DEF Runs
    <2> DEFINE g == [i \in 0..k |-> IF i = k THEN G[<<k, f[k - 1]>>] ELSE f[i]]
    <2>2. f[k - 1] \in A /\ G[<<k, f[k - 1]>>] \in A
        OBVIOUS
    <2>3. g \in [0..k -> A] /\ g[0] = base
        BY <2>1, <2>2
    <2>4. ASSUME NEW i \in 1..k PROVE g[i] = G[<<i, g[i - 1]>>]
        <3>1. i \in 0..k /\ i - 1 \in 0..k /\ i - 1 # k
            OBVIOUS
        <3>2. g[i - 1] = f[i - 1]
            BY <3>1
        <3>3. CASE i = k
            BY <3>1, <3>2, <3>3
        <3>4. CASE i # k
            <4>1. g[i] = f[i] /\ i \in 1..(k - 1)
                BY <3>1, <3>4
            <4>2. QED
                BY <2>1, <3>2, <4>1
        <3>5. QED
            BY <3>3, <3>4
    <2> HIDE DEF g
    <2>5. g \in Runs(A, base, k, G)
        BY <2>3, <2>4 DEF Runs
    <2>6. QED
        BY <2>5
<1>3. S \in SUBSET (0..n)
    OBVIOUS
<1> HIDE DEF S
<1>4. n \in S
    BY <1>1, <1>2, <1>3, AlongLoop
<1>5. QED
    BY <1>4 DEF S

-----------------------------------------------------------------------------
(* The plan and its types.                                                  *)

PlanRules == {rules[i] : i \in DOMAIN rules}

Fire == [id : RuleIds, bar : 1..MaxBars]
Acc == [st : States, fires : Seq(Fire)]

(* A bar as the market closes it, and with what is read from a window.      *)
BareCandle == [n : 1..MaxBars, o : Nat, h : Nat, l : Nat, c : Nat,
               signal : BOOLEAN, rubbish : BOOLEAN, win : {NoWindow}]
Warm == [NoWindow EXCEPT !.warm = TRUE]
Windows == {NoWindow, Warm} \cup {Reading(window) : window \in Seq(BareCandle)}
Candle == [n : 1..MaxBars, o : Nat, h : Nat, l : Nat, c : Nat,
           signal : BOOLEAN, rubbish : BOOLEAN, win : Windows]

\* A bare candle is a candle that was read in no window.
LEMMA BareIsCandle == BareCandle \subseteq Candle /\ Seq(BareCandle) \subseteq Seq(Candle)
<1>1. NoWindow \in Windows
    BY DEF Windows
<1>2. BareCandle \subseteq Candle
    BY <1>1 DEF BareCandle, Candle
<1>3. QED
    BY <1>2

\* A plan of the specification is a sequence of rules with distinct ids.
LEMMA RulesWellFormed ==
    ASSUME rules \in Plans
    PROVE  /\ rules \in Seq(Rule)
           /\ \A i, j \in DOMAIN rules : rules[i].id = rules[j].id => i = j
BY CatchUpAssumption
   DEF Plan!WellFormed, Plan!Rule, Plan!Kinds, Plan!Readings, Plan!Dirs,
       Rule, Kinds, Readings, Dirs

\* The length of the plan, as the bound of its loops.
LEMMA RuleCount ==
    ASSUME rules \in Plans
    PROVE  Len(rules) \in Nat /\ DOMAIN rules = 1..Len(rules)
BY RulesWellFormed

\* A rule of the plan, and what its id stands for.
LEMMA RuleType ==
    ASSUME rules \in Plans
    PROVE  /\ \A r \in PlanRules : r \in Rule /\ r.id \in RuleIds /\ r.news \in NewsIds
           /\ \A r, s \in PlanRules : r.id = s.id => r = s
           /\ \A r \in PlanRules, kind \in Kinds : r.id \in IdsOf(kind) <=> r.kind = kind
           /\ \A i \in DOMAIN rules : rules[i] \in PlanRules
<1>1. \A i \in DOMAIN rules : rules[i] \in Rule
    BY RulesWellFormed
<1>2. \A r \in PlanRules : r \in Rule /\ r.id \in RuleIds /\ r.news \in NewsIds
    BY <1>1 DEF PlanRules, RuleIds, NewsIds
<1>3. \A r, s \in PlanRules : r.id = s.id => r = s
    BY RulesWellFormed DEF PlanRules
<1>4. \A r \in PlanRules, kind \in Kinds : r.id \in IdsOf(kind) <=> r.kind = kind
    BY <1>3 DEF PlanRules, IdsOf
<1>5. QED
    BY <1>2, <1>3, <1>4 DEF PlanRules

\* The first rule of a kind is a rule of the plan, of that kind.
LEMMA FirstOfKind ==
    ASSUME rules \in Plans, NEW kind, HasRule(kind)
    PROVE  FirstOf(kind) \in PlanRules /\ FirstOf(kind).kind = kind
<1> DEFINE S == {i \in DOMAIN rules : rules[i].kind = kind}
           first == CHOOSE i \in DOMAIN rules :
                        /\ rules[i].kind = kind
                        /\ \A j \in DOMAIN rules : rules[j].kind = kind => i <= j
<1>1. S \in SUBSET Nat /\ S # {}
    BY RuleCount DEF HasRule
<1>2. PICK i \in S : \A j \in S : i <= j
    BY <1>1, LeastOf
<1>3. first \in DOMAIN rules /\ rules[first].kind = kind
    BY <1>2
<1>4. FirstOf(kind) = rules[first]
    BY DEF FirstOf
<1>5. QED
    BY <1>3, <1>4 DEF PlanRules

\* Recording a price keeps a plan state a plan state, and only the prices of
\* the rule change.
LEMMA RecordedType ==
    ASSUME rules \in Plans, NEW st \in States, NEW r \in PlanRules, NEW bar \in Candle
    PROVE  LET next == Recorded(st, r, bar) IN
           /\ next \in States
           /\ next = [st EXCEPT !.origin = next.origin, !.last = next.last]
           /\ \A id \in RuleIds \ {r.id} :
                 next.origin[id] = st.origin[id] /\ next.last[id] = st.last[id]
<1>1. r \in Rule /\ r.id \in RuleIds
    BY RuleType
<1>2. st.origin \in [RuleIds -> Int] /\ st.last \in [RuleIds -> Int]
    BY DEF States
<1> DEFINE first == IF st.origin[r.id] = NoPrice THEN bar.o ELSE st.origin[r.id]
           price == Reseated(r, first, bar)
           org == [st.origin EXCEPT ![r.id] = price]
           lst == [st.last EXCEPT ![r.id] = bar.c]
           seen == [st EXCEPT !.origin = org, !.last = lst]
<1>3. bar.o \in Int /\ bar.c \in Int
    BY DEF Candle
<1>4. first \in Int
    BY <1>1, <1>2, <1>3
<1> HIDE DEF first
<1>5. price \in Int
    BY <1>3, <1>4 DEF Reseated, Lower, Higher
<1> HIDE DEF price
<1>6. org \in [RuleIds -> Int] /\ lst \in [RuleIds -> Int]
    BY <1>2, <1>3, <1>5
<1>7. \A id \in RuleIds \ {r.id} : org[id] = st.origin[id] /\ lst[id] = st.last[id]
    BY <1>2
<1>8. CASE ~UsesClose(r)
    <2>1. Recorded(st, r, bar) = st
        BY <1>8 DEF Recorded
    <2>2. st = [st EXCEPT !.origin = st.origin, !.last = st.last]
        BY DEF States
    <2>3. QED
        BY <2>1, <2>2
<1>9. CASE UsesClose(r)
    <2>1. Recorded(st, r, bar) = seen
        BY <1>9 DEF Recorded, States, first, price
    <2> HIDE DEF org, lst
    <2>2. /\ seen \in States /\ seen.origin = org /\ seen.last = lst
          /\ seen = [st EXCEPT !.origin = seen.origin, !.last = seen.last]
        BY <1>6 DEF States
    <2> HIDE DEF seen
    <2>3. QED
        BY <1>7, <2>1, <2>2 DEF org, lst
<1>10. QED
    BY <1>8, <1>9

-----------------------------------------------------------------------------
(* What is reported, and what a pass over the rules may latch.              *)

Reported(fires) == {fires[i] : i \in DOMAIN fires}

\* A report appended is a report added.
LEMMA ReportAppended ==
    ASSUME NEW fires \in Seq(Fire), NEW e \in Fire
    PROVE  /\ Append(fires, e) \in Seq(Fire)
           /\ Reported(Append(fires, e)) = Reported(fires) \cup {e}
<1>1. /\ Append(fires, e) \in Seq(Fire)
      /\ DOMAIN Append(fires, e) = DOMAIN fires \cup {Len(fires) + 1}
      /\ Append(fires, e)[Len(fires) + 1] = e
      /\ \A i \in DOMAIN fires : Append(fires, e)[i] = fires[i]
    OBVIOUS
<1>2. QED
    BY <1>1 DEF Reported

(* From acc to next, a pass latched some of the rules in ids, and reported  *)
(* exactly those it latched.                                                *)
Latches(acc, next, bar, ids) ==
    /\ acc.st.fired \subseteq next.st.fired
    /\ next.st.fired \ acc.st.fired \subseteq ids
    /\ Reported(next.fires) =
          Reported(acc.fires) \cup {[id |-> id, bar |-> bar.n] : id \in next.st.fired \ acc.st.fired}

\* Passes that latch compose.
LEMMA LatchesAgain ==
    ASSUME NEW a, NEW b, NEW c, NEW bar, NEW ids,
           Latches(a, b, bar, ids), Latches(b, c, bar, ids)
    PROVE  Latches(a, c, bar, ids)
<1>1. c.st.fired \ a.st.fired = (b.st.fired \ a.st.fired) \cup (c.st.fired \ b.st.fired)
    BY DEF Latches
<1>2. a.st.fired \subseteq c.st.fired
    BY DEF Latches
<1>3. c.st.fired \ a.st.fired \subseteq ids
    BY <1>1 DEF Latches
<1>4. Reported(c.fires) =
          Reported(a.fires) \cup {[id |-> id, bar |-> bar.n] : id \in c.st.fired \ a.st.fired}
    BY <1>1 DEF Latches
<1>5. QED
    BY <1>2, <1>3, <1>4 DEF Latches

\* A pass that changed neither the latches nor the reports.
LEMMA LatchesNothing ==
    ASSUME NEW a, NEW b, NEW bar, NEW ids,
           a.st.fired = b.st.fired, a.fires = b.fires
    PROVE  Latches(a, b, bar, ids)
BY DEF Latches

\* The latch of one rule: its state and its report.
LEMMA LatchOne ==
    ASSUME rules \in Plans, NEW acc, acc.st \in States, acc.fires \in Seq(Fire),
           NEW r \in PlanRules, r.id \notin acc.st.fired, NEW bar \in Candle,
           NEW next, next.st.fired = acc.st.fired \cup {r.id},
           next.fires = Fired(acc, r, bar), NEW ids, r.id \in ids
    PROVE  Latches(acc, next, bar, ids) /\ next.fires \in Seq(Fire)
<1> DEFINE e == [id |-> r.id, bar |-> bar.n]
<1>1. e \in Fire
    BY RuleType DEF Fire, Candle
<1>2. next.fires \in Seq(Fire) /\ Reported(next.fires) = Reported(acc.fires) \cup {e}
    BY <1>1, ReportAppended DEF Fired
<1>3. next.st.fired \ acc.st.fired = {r.id}
    OBVIOUS
<1>4. QED
    BY <1>2, <1>3 DEF Latches

\* A latch, field by field.
LEMMA LatchedIs ==
    ASSUME NEW r, NEW bar, NEW st \in States, NEW fires
    PROVE  LET acc == [st |-> st, fires |-> fires] IN
           Latched(acc, r, bar) =
              [st |-> [st EXCEPT !.fired = @ \cup {r.id}], fires |-> Fired(acc, r, bar)]
<1>1. ASSUME NEW acc, acc = [st |-> st, fires |-> fires]
      PROVE  Latched(acc, r, bar) =
                [st |-> [st EXCEPT !.fired = @ \cup {r.id}], fires |-> Fired(acc, r, bar)]
    <2> DEFINE latch == [acc.st EXCEPT !.fired = @ \cup {r.id}]
    <2>1. Latched(acc, r, bar) = [acc EXCEPT !.st = latch, !.fires = Fired(acc, r, bar)]
        BY DEF Latched
    <2> HIDE DEF latch
    <2>2. Latched(acc, r, bar) = [st |-> latch, fires |-> Fired(acc, r, bar)]
        BY <1>1, <2>1
    <2>3. acc.st = st
        BY <1>1
    <2>4. QED
        BY <2>2, <2>3 DEF latch
<1>2. QED
    BY <1>1

\* The same among the guards, which also note whether the plan is over.
LEMMA LatchedGuardIs ==
    ASSUME NEW r, NEW bar, NEW st \in States, NEW fires, NEW over
    PROVE  LET acc == [st |-> st, fires |-> fires, over |-> over] IN
           Latched(acc, r, bar) =
              [st |-> [st EXCEPT !.fired = @ \cup {r.id}], fires |-> Fired(acc, r, bar),
               over |-> over]
<1>1. ASSUME NEW acc, acc = [st |-> st, fires |-> fires, over |-> over]
      PROVE  Latched(acc, r, bar) =
                [st |-> [st EXCEPT !.fired = @ \cup {r.id}], fires |-> Fired(acc, r, bar),
                 over |-> over]
    <2> DEFINE latch == [acc.st EXCEPT !.fired = @ \cup {r.id}]
    <2>1. Latched(acc, r, bar) = [acc EXCEPT !.st = latch, !.fires = Fired(acc, r, bar)]
        BY DEF Latched
    <2> HIDE DEF latch
    <2>2. Latched(acc, r, bar) = [st |-> latch, fires |-> Fired(acc, r, bar),
                 over |-> over]
        BY <1>1, <2>1
    <2>3. acc.st = st
        BY <1>1
    <2>4. QED
        BY <2>2, <2>3 DEF latch
<1>2. QED
    BY <1>1

-----------------------------------------------------------------------------
(* The pass of the controls.                                                *)

(* From acc to next, controls were visited.                                 *)
Controlled(acc, next, bar) ==
    /\ next.st = [acc.st EXCEPT !.fired = next.st.fired, !.news = next.st.news]
    /\ Latches(acc, next, bar, IdsOf("control"))

\* Visits of controls compose.
LEMMA ControlledAgain ==
    ASSUME NEW a \in Acc, NEW b \in Acc, NEW c \in Acc, NEW bar,
           Controlled(a, b, bar), Controlled(b, c, bar)
    PROVE  Controlled(a, c, bar)
<1>1. Latches(a, c, bar, IdsOf("control"))
    BY LatchesAgain DEF Controlled
<1>2. /\ a.st \in States /\ b.st \in States /\ c.st \in States
      /\ b.st = [a.st EXCEPT !.fired = b.st.fired, !.news = b.st.news]
      /\ c.st = [b.st EXCEPT !.fired = c.st.fired, !.news = c.st.news]
    BY DEF Acc, Controlled
<1>3. c.st = [a.st EXCEPT !.fired = c.st.fired, !.news = c.st.news]
    BY <1>2 DEF States
<1>4. QED
    BY <1>1, <1>3 DEF Controlled

\* What the visit of one rule by the controls may do.
LEMMA ControlStepDoes ==
    ASSUME rules \in Plans, NEW acc \in Acc, NEW r \in PlanRules, NEW bar \in Candle, NEW clock
    PROVE  LET next == ControlStep(acc, r, bar, clock) IN
           next \in Acc /\ Controlled(acc, next, bar)
<1> DEFINE next == ControlStep(acc, r, bar, clock)
           idle == r.kind # "control" \/ r.id \in acc.st.fired \/ clock < r.at
           windows == IF r.news = NoNews THEN acc.st.news
                      ELSE IF r.opens THEN acc.st.news \cup {r.news}
                      ELSE acc.st.news \ {r.news}
           hit == [st |-> [acc.st EXCEPT !.fired = @ \cup {r.id}, !.news = windows],
                   fires |-> Fired(acc, r, bar)]
<1>1. acc.st \in States /\ acc.fires \in Seq(Fire)
    BY DEF Acc
<1>2. r \in Rule /\ r.id \in RuleIds /\ r.news \in NewsIds
    BY RuleType
<1>3. CASE idle
    <2>1. next = acc
        BY <1>3 DEF ControlStep
    <2>2. acc.st = [acc.st EXCEPT !.fired = acc.st.fired, !.news = acc.st.news]
        BY <1>1 DEF States
    <2>3. QED
        BY <2>1, <2>2, LatchesNothing DEF Controlled
<1>4. CASE ~idle
    <2>1. next = hit
        BY <1>4 DEF ControlStep, Latched, Acc
    <2>2. windows \in SUBSET NewsIds
        BY <1>1, <1>2 DEF States
    <2> HIDE DEF windows
    <2>3. /\ hit.st \in States
          /\ hit.st.fired = acc.st.fired \cup {r.id}
          /\ hit.st = [acc.st EXCEPT !.fired = hit.st.fired, !.news = hit.st.news]
        BY <1>1, <1>2, <2>2 DEF States
    <2>4. hit.fires = Fired(acc, r, bar) /\ r.id \notin acc.st.fired /\ r.id \in IdsOf("control")
        BY <1>4, RuleType DEF Kinds
    <2> HIDE DEF hit
    <2>5. Latches(acc, hit, bar, IdsOf("control")) /\ hit.fires \in Seq(Fire)
        BY <1>1, <2>3, <2>4, LatchOne
    <2>6. hit \in Acc
        BY <2>3, <2>5 DEF Acc, hit
    <2>7. QED
        BY <2>1, <2>3, <2>5, <2>6 DEF Controlled
<1>5. QED
    BY <1>3, <1>4

(* The loop of the controls, as a run over the rules.                        *)
RunOfControls(f, acc, bar, clock) ==
    /\ f \in [0..Len(rules) -> Acc]
    /\ f[0] = acc
    /\ \A i \in 1..Len(rules) : f[i] = ControlStep(f[i - 1], rules[i], bar, clock)
    /\ f[Len(rules)] = Controls(acc, bar, clock)

\* The controls have a run.
LEMMA ControlsRun ==
    ASSUME rules \in Plans, NEW acc \in Acc, NEW bar \in Candle, NEW clock
    PROVE  \E f : RunOfControls(f, acc, bar, clock)
<1> DEFINE n == Len(rules)
           first == acc
           G == [p \in (1..n) \X Acc |-> ControlStep(p[2], rules[p[1]], bar, clock)]
           F == CHOOSE after : after = [i \in 0..n |->
                    IF i = 0 THEN first ELSE ControlStep(after[i - 1], rules[i], bar, clock)]
<1>1. n \in Nat /\ \A i \in 1..n : rules[i] \in PlanRules
    BY RuleCount, RuleType
<1>2. Controls(acc, bar, clock) = F[n]
    BY DEF Controls
<1> HIDE DEF n
<1>3. G \in [(1..n) \X Acc -> Acc]
    BY <1>1, ControlStepDoes
<1>4. first \in Acc
    OBVIOUS
<1> HIDE DEF G, first
<1>5. Runs(Acc, first, n, G) # {}
    BY <1>1, <1>3, <1>4, LoopRuns
<1>6. PICK f \in [0..n -> Acc] : f[0] = first /\ \A i \in 1..n : f[i] = G[<<i, f[i - 1]>>]
    BY <1>5 DEF Runs
<1>7. ASSUME NEW i \in 1..n PROVE f[i] = ControlStep(f[i - 1], rules[i], bar, clock)
    <2>1. f[i - 1] \in Acc
        BY <1>1
    <2>2. G[<<i, f[i - 1]>>] = ControlStep(f[i - 1], rules[i], bar, clock)
        BY <2>1 DEF G
    <2>3. QED
        BY <1>6, <2>2
<1>8. f = [i \in 0..n |-> IF i = 0 THEN first ELSE ControlStep(f[i - 1], rules[i], bar, clock)]
    <2>1. \A i \in 0..n : i # 0 => i \in 1..n
        BY <1>1
    <2>2. f = [i \in 0..n |-> f[i]]
        OBVIOUS
    <2>3. QED
        BY <1>6, <1>7, <2>1, <2>2
<1>9. F = [i \in 0..n |-> IF i = 0 THEN first ELSE ControlStep(F[i - 1], rules[i], bar, clock)]
    BY <1>8
<1> HIDE DEF F
<1>10. F[0] = first /\ \A i \in 1..n : F[i] = ControlStep(F[i - 1], rules[i], bar, clock)
    BY <1>1, <1>9
<1>11. F \in [0..n -> Acc]
    <2> DEFINE S == {i \in 0..n : F[i] \in Acc}
    <2>1. 0 \in S
        BY <1>1, <1>4, <1>10
    <2>2. ASSUME NEW i \in 1..n, i - 1 \in S PROVE i \in S
        <3>1. F[i - 1] \in Acc /\ rules[i] \in PlanRules /\ i \in 0..n
            BY <1>1, <2>2
        <3>2. ControlStep(F[i - 1], rules[i], bar, clock) \in Acc
            BY <3>1, ControlStepDoes
        <3>3. QED
            BY <1>10, <3>1, <3>2
    <2>3. \A i \in 0..n : i \in S
        BY <1>1, <2>1, <2>2, AlongLoop
    <2>4. QED
        BY <1>9, <2>3
<1>12. QED
    BY <1>2, <1>10, <1>11 DEF n, first, RunOfControls

\* What the controls of a bar, or of the instant between two bars, may do.
LEMMA ControlsDo ==
    ASSUME rules \in Plans, NEW acc \in Acc, NEW bar \in Candle, NEW clock
    PROVE  LET next == Controls(acc, bar, clock) IN
           next \in Acc /\ Controlled(acc, next, bar)
<1> DEFINE n == Len(rules)
<1>1. PICK f : RunOfControls(f, acc, bar, clock)
    BY ControlsRun
<1>2. /\ f \in [0..n -> Acc] /\ f[0] = acc /\ f[n] = Controls(acc, bar, clock)
      /\ \A i \in 1..n : f[i] = ControlStep(f[i - 1], rules[i], bar, clock)
    BY <1>1 DEF RunOfControls
<1>3. n \in Nat /\ \A i \in 1..n : rules[i] \in PlanRules
    BY RuleCount, RuleType
<1> HIDE DEF n
<1> DEFINE S == {i \in 0..n : Controlled(acc, f[i], bar)}
<1>4. 0 \in S
    <2>1. acc.st = [acc.st EXCEPT !.fired = acc.st.fired, !.news = acc.st.news]
        BY DEF Acc, States
    <2>2. Controlled(acc, acc, bar)
        BY <2>1, LatchesNothing DEF Controlled
    <2>3. QED
        BY <1>2, <1>3, <2>2
<1>5. ASSUME NEW i \in 1..n, i - 1 \in S PROVE i \in S
    <2>1. f[i - 1] \in Acc /\ f[i] \in Acc /\ i \in 0..n /\ Controlled(acc, f[i - 1], bar)
        BY <1>2, <1>3, <1>5
    <2>2. Controlled(f[i - 1], f[i], bar)
        BY <1>2, <1>3, <2>1, ControlStepDoes
    <2>3. QED
        BY <2>1, <2>2, ControlledAgain
<1>6. \A i \in 0..n : i \in S
    BY <1>3, <1>4, <1>5, AlongLoop
<1>7. QED
    BY <1>2, <1>3, <1>6

-----------------------------------------------------------------------------
(* The pass of the guards: vetoes and closes.                               *)

GuardAcc == [st : States, fires : Seq(Fire), over : BOOLEAN]
GuardIds == IdsOf("veto") \cup IdsOf("close")

(* From acc to next, guards were visited.  A veto that fires retires the    *)
(* plan or blocks it, and nothing else does either.                         *)
Guarded(acc, next, bar) ==
    /\ next.st = [acc.st EXCEPT !.fired = next.st.fired, !.blocked = next.st.blocked,
                                !.origin = next.st.origin, !.last = next.st.last]
    /\ Latches(acc, next, bar, GuardIds)
    /\ \A id \in RuleIds \ GuardIds :
          next.st.origin[id] = acc.st.origin[id] /\ next.st.last[id] = acc.st.last[id]
    /\ acc.over => next.over
    /\ acc.st.blocked => next.st.blocked
    /\ (next.st.fired \ acc.st.fired) \cap IdsOf("veto") # {} => next.over \/ next.st.blocked
    /\ (next.over /\ ~acc.over) \/ (next.st.blocked /\ ~acc.st.blocked) =>
          (next.st.fired \ acc.st.fired) \cap IdsOf("veto") # {}

\* Visits of guards compose.
LEMMA GuardedAgain ==
    ASSUME NEW a \in GuardAcc, NEW b \in GuardAcc, NEW c \in GuardAcc, NEW bar,
           Guarded(a, b, bar), Guarded(b, c, bar)
    PROVE  Guarded(a, c, bar)
<1>1. Latches(a, c, bar, GuardIds)
    BY LatchesAgain DEF Guarded
<1>2. c.st = [a.st EXCEPT !.fired = c.st.fired, !.blocked = c.st.blocked,
                          !.origin = c.st.origin, !.last = c.st.last]
    <2>1. /\ b.st = [a.st EXCEPT !.fired = b.st.fired, !.blocked = b.st.blocked,
                                 !.origin = b.st.origin, !.last = b.st.last]
          /\ c.st = [b.st EXCEPT !.fired = c.st.fired, !.blocked = c.st.blocked,
                                 !.origin = c.st.origin, !.last = c.st.last]
        BY DEF Guarded
    <2>2. a.st \in States /\ b.st \in States /\ c.st \in States
        BY DEF GuardAcc
    <2>3. QED
        BY <2>1, <2>2 DEF States
<1>3. \A id \in RuleIds \ GuardIds :
          c.st.origin[id] = a.st.origin[id] /\ c.st.last[id] = a.st.last[id]
    BY DEF Guarded
<1>4. c.st.fired \ a.st.fired = (b.st.fired \ a.st.fired) \cup (c.st.fired \ b.st.fired)
    BY DEF Guarded, Latches
<1>5. (a.over => c.over) /\ (a.st.blocked => c.st.blocked)
    BY DEF Guarded
<1>6. (c.st.fired \ a.st.fired) \cap IdsOf("veto") # {} => c.over \/ c.st.blocked
    BY <1>4 DEF Guarded
<1>7. (c.over /\ ~a.over) \/ (c.st.blocked /\ ~a.st.blocked) =>
          (c.st.fired \ a.st.fired) \cap IdsOf("veto") # {}
    BY <1>4 DEF Guarded
<1>8. QED
    BY <1>1, <1>2, <1>3, <1>5, <1>6, <1>7 DEF Guarded

\* What the visit of one rule by the guards may do.
LEMMA GuardStepDoes ==
    ASSUME rules \in Plans, NEW acc \in GuardAcc, NEW r \in PlanRules, NEW bar \in Candle
    PROVE  LET next == GuardStep(acc, r, bar) IN
           next \in GuardAcc /\ Guarded(acc, next, bar)
<1> DEFINE next == GuardStep(acc, r, bar)
           idle == ~IsGuard(r) \/ r.id \in acc.st.fired \/ ~Armed(r, acc.st)
           fires == GuardFires(r, acc.st, bar)
<1>1. acc.st \in States /\ acc.fires \in Seq(Fire) /\ acc.over \in BOOLEAN
    BY DEF GuardAcc
<1>2. r \in Rule /\ r.id \in RuleIds
    BY RuleType
<1>3. CASE idle
    <2>1. next = acc
        BY <1>3 DEF GuardStep
    <2>2. acc.st = [acc.st EXCEPT !.fired = acc.st.fired, !.blocked = acc.st.blocked,
                                  !.origin = acc.st.origin, !.last = acc.st.last]
        BY <1>1 DEF States
    <2>3. QED
        BY <2>1, <2>2, LatchesNothing DEF Guarded
<1>4. CASE ~idle
    <2>1. /\ r.id \in GuardIds /\ r.id \notin acc.st.fired
          /\ r.id \in IdsOf("veto") <=> r.kind = "veto"
        BY <1>4, RuleType DEF IsGuard, GuardIds, Kinds
    <2> DEFINE seen == Recorded(acc.st, r, bar)
               org == seen.origin
               lst == seen.last
               block == r.kind = "veto" /\ ~r.retires
               retire == r.kind = "veto" /\ r.retires
               latch == [seen EXCEPT !.fired = acc.st.fired \cup {r.id}]
               hit == [st |-> IF block THEN [latch EXCEPT !.blocked = TRUE] ELSE latch,
                       fires |-> Fired(acc, r, bar),
                       over |-> IF retire THEN TRUE ELSE acc.over]
    <2>2. /\ seen \in States
          /\ seen = [acc.st EXCEPT !.origin = org, !.last = lst]
          /\ \A id \in RuleIds \ {r.id} : org[id] = acc.st.origin[id] /\ lst[id] = acc.st.last[id]
        BY <1>1, RecordedType
    <2> HIDE DEF seen
    <2>4. \A id \in RuleIds \ GuardIds : org[id] = acc.st.origin[id] /\ lst[id] = acc.st.last[id]
        BY <2>1, <2>2
    <2>5. CASE ~fires
        <3> DEFINE quiet == [st |-> seen, fires |-> acc.fires, over |-> acc.over]
        <3>1. next = quiet
            BY <1>4, <2>5 DEF GuardStep, GuardAcc, seen
        <3>2. /\ quiet \in GuardAcc /\ quiet.fires = acc.fires /\ quiet.over = acc.over
              /\ quiet.st = [acc.st EXCEPT !.fired = quiet.st.fired,
                                !.blocked = quiet.st.blocked,
                                !.origin = quiet.st.origin, !.last = quiet.st.last]
              /\ quiet.st.fired = acc.st.fired /\ quiet.st.blocked = acc.st.blocked
              /\ quiet.st.origin = org /\ quiet.st.last = lst
            BY <1>1, <2>2 DEF GuardAcc, States
        <3> HIDE DEF quiet
        <3>3. Latches(acc, quiet, bar, GuardIds)
            BY <3>2, LatchesNothing
        <3>4. Guarded(acc, quiet, bar)
            BY <2>4, <3>2, <3>3 DEF Guarded
        <3>5. QED
            BY <3>1, <3>2, <3>4
    <2>6. CASE fires
        <3> DEFINE at == [st |-> seen, fires |-> acc.fires, over |-> acc.over]
                   latched == [st |-> latch, fires |-> Fired(acc, r, bar), over |-> acc.over]
        <3>1. next = hit
            <4>1. [acc EXCEPT !.st = seen] = at
                BY DEF GuardAcc
            <4>2. seen.fired = acc.st.fired
                BY <1>1, <2>2 DEF States
            <4>3. Latched(at, r, bar) = latched
                <5>1. Fired(at, r, bar) = Fired(acc, r, bar)
                    BY DEF Fired
                <5>2. [seen EXCEPT !.fired = seen.fired \cup {r.id}] = latch
                    BY <4>2
                <5> HIDE DEF latch
                <5>3. QED
                    BY <2>2, <5>1, <5>2, LatchedGuardIs
            <4> HIDE DEF at, latch
            <4>8. next = IF r.kind = "veto"
                         THEN IF r.retires THEN [latched EXCEPT !.over = TRUE]
                              ELSE [latched EXCEPT !.st.blocked = TRUE]
                         ELSE latched
                BY <1>4, <2>6, <4>1, <4>3 DEF GuardStep, seen
            <4>4. CASE retire
                BY <4>8, <4>4
            <4>5. CASE block
                BY <4>8, <4>5
            <4>6. CASE ~block /\ ~retire
                BY <4>8, <4>6
            <4>7. QED
                BY <4>4, <4>5, <4>6
        <3>2. /\ hit.st \in States /\ hit.over \in BOOLEAN
              /\ hit.over <=> acc.over \/ retire
              /\ hit.st.blocked <=> acc.st.blocked \/ block
              /\ hit.st.origin = org /\ hit.st.last = lst
              /\ hit.st.fired = acc.st.fired \cup {r.id}
              /\ hit.st = [acc.st EXCEPT !.fired = hit.st.fired, !.blocked = hit.st.blocked,
                                         !.origin = hit.st.origin, !.last = hit.st.last]
              /\ hit.fires = Fired(acc, r, bar)
            BY <1>1, <1>2, <2>2 DEF States
        <3> HIDE DEF hit
        <3>3. Latches(acc, hit, bar, GuardIds) /\ hit.fires \in Seq(Fire)
            BY <1>1, <2>1, <3>2, LatchOne
        <3>4. hit \in GuardAcc
            BY <3>2, <3>3 DEF GuardAcc, hit
        <3>5. hit.st.fired \ acc.st.fired = {r.id}
            BY <2>1, <3>2
        <3>6. Guarded(acc, hit, bar)
            <4>1. \A id \in RuleIds \ GuardIds :
                     hit.st.origin[id] = acc.st.origin[id] /\ hit.st.last[id] = acc.st.last[id]
                BY <2>4, <3>2
            <4>2. (r.kind = "veto") <=> (hit.st.fired \ acc.st.fired) \cap IdsOf("veto") # {}
                BY <2>1, <3>5
            <4>3. r.kind = "veto" <=> block \/ retire
                BY <1>2 DEF Rule
            <4>4. QED
                BY <3>2, <3>3, <4>1, <4>2, <4>3 DEF Guarded
        <3>7. QED
            BY <3>1, <3>4, <3>6
    <2>7. QED
        BY <2>5, <2>6
<1>5. QED
    BY <1>3, <1>4

(* The loop of the guards, as a run over the rules.                          *)
RunOfGuards(f, acc, bar) ==
    /\ f \in [0..Len(rules) -> GuardAcc]
    /\ f[0] = [st |-> acc.st, fires |-> acc.fires, over |-> FALSE]
    /\ \A i \in 1..Len(rules) : f[i] = GuardStep(f[i - 1], rules[i], bar)
    /\ f[Len(rules)] = GuardsFired(acc, bar)

\* The guards have a run.
LEMMA GuardsRun ==
    ASSUME rules \in Plans, NEW acc \in Acc, NEW bar \in Candle
    PROVE  \E f : RunOfGuards(f, acc, bar)
<1> DEFINE n == Len(rules)
           first == [st |-> acc.st, fires |-> acc.fires, over |-> FALSE]
           G == [p \in (1..n) \X GuardAcc |-> GuardStep(p[2], rules[p[1]], bar)]
           F == CHOOSE after : after = [i \in 0..n |->
                    IF i = 0 THEN first ELSE GuardStep(after[i - 1], rules[i], bar)]
<1>1. n \in Nat /\ \A i \in 1..n : rules[i] \in PlanRules
    BY RuleCount, RuleType
<1>2. GuardsFired(acc, bar) = F[n]
    BY DEF GuardsFired
<1> HIDE DEF n
<1>3. G \in [(1..n) \X GuardAcc -> GuardAcc]
    BY <1>1, GuardStepDoes
<1>4. first \in GuardAcc
    BY DEF Acc, GuardAcc
<1> HIDE DEF G, first
<1>5. Runs(GuardAcc, first, n, G) # {}
    BY <1>1, <1>3, <1>4, LoopRuns
<1>6. PICK f \in [0..n -> GuardAcc] : f[0] = first /\ \A i \in 1..n : f[i] = G[<<i, f[i - 1]>>]
    BY <1>5 DEF Runs
<1>7. ASSUME NEW i \in 1..n PROVE f[i] = GuardStep(f[i - 1], rules[i], bar)
    <2>1. f[i - 1] \in GuardAcc
        BY <1>1
    <2>2. G[<<i, f[i - 1]>>] = GuardStep(f[i - 1], rules[i], bar)
        BY <2>1 DEF G
    <2>3. QED
        BY <1>6, <2>2
<1>8. f = [i \in 0..n |-> IF i = 0 THEN first ELSE GuardStep(f[i - 1], rules[i], bar)]
    <2>1. \A i \in 0..n : i # 0 => i \in 1..n
        BY <1>1
    <2>2. f = [i \in 0..n |-> f[i]]
        OBVIOUS
    <2>3. QED
        BY <1>6, <1>7, <2>1, <2>2
<1>9. F = [i \in 0..n |-> IF i = 0 THEN first ELSE GuardStep(F[i - 1], rules[i], bar)]
    BY <1>8
<1> HIDE DEF F
<1>10. F[0] = first /\ \A i \in 1..n : F[i] = GuardStep(F[i - 1], rules[i], bar)
    BY <1>1, <1>9
<1>11. F \in [0..n -> GuardAcc]
    <2> DEFINE S == {i \in 0..n : F[i] \in GuardAcc}
    <2>1. 0 \in S
        BY <1>1, <1>4, <1>10
    <2>2. ASSUME NEW i \in 1..n, i - 1 \in S PROVE i \in S
        <3>1. F[i - 1] \in GuardAcc /\ rules[i] \in PlanRules /\ i \in 0..n
            BY <1>1, <2>2
        <3>2. GuardStep(F[i - 1], rules[i], bar) \in GuardAcc
            BY <3>1, GuardStepDoes
        <3>3. QED
            BY <1>10, <3>1, <3>2
    <2>3. \A i \in 0..n : i \in S
        BY <1>1, <2>1, <2>2, AlongLoop
    <2>4. QED
        BY <1>9, <2>3
<1>12. QED
    BY <1>2, <1>10, <1>11 DEF n, first, RunOfGuards

\* What the guards of a bar may do.
LEMMA GuardsFiredDo ==
    ASSUME rules \in Plans, NEW acc \in Acc, NEW bar \in Candle
    PROVE  /\ GuardsFired(acc, bar) \in GuardAcc
           /\ Guarded([st |-> acc.st, fires |-> acc.fires, over |-> FALSE],
                      GuardsFired(acc, bar), bar)
<1> DEFINE n == Len(rules)
           first == [st |-> acc.st, fires |-> acc.fires, over |-> FALSE]
<1>1. PICK f : RunOfGuards(f, acc, bar)
    BY GuardsRun
<1>2. /\ f \in [0..n -> GuardAcc] /\ f[0] = first /\ f[n] = GuardsFired(acc, bar)
      /\ \A i \in 1..n : f[i] = GuardStep(f[i - 1], rules[i], bar)
    BY <1>1 DEF RunOfGuards
<1>3. n \in Nat /\ \A i \in 1..n : rules[i] \in PlanRules
    BY RuleCount, RuleType
<1>4. first \in GuardAcc /\ Guarded(first, first, bar)
    <2>1. acc.st = [acc.st EXCEPT !.fired = acc.st.fired, !.blocked = acc.st.blocked,
                                  !.origin = acc.st.origin, !.last = acc.st.last]
        BY DEF Acc, States
    <2>2. first.st = acc.st /\ first \in GuardAcc
        BY DEF Acc, GuardAcc
    <2> HIDE DEF first
    <2>3. QED
        BY <2>1, <2>2, LatchesNothing DEF Guarded
<1> HIDE DEF n, first
<1> DEFINE S == {i \in 0..n : Guarded(first, f[i], bar)}
<1>5. 0 \in S
    BY <1>2, <1>3, <1>4
<1>6. ASSUME NEW i \in 1..n, i - 1 \in S PROVE i \in S
    <2>1. /\ f[i - 1] \in GuardAcc /\ f[i] \in GuardAcc /\ i \in 0..n
          /\ Guarded(first, f[i - 1], bar)
        BY <1>2, <1>3, <1>6
    <2>2. Guarded(f[i - 1], f[i], bar)
        BY <1>2, <1>3, <2>1, GuardStepDoes
    <2>3. QED
        BY <1>4, <2>1, <2>2, GuardedAgain
<1>7. \A i \in 0..n : i \in S
    BY <1>3, <1>5, <1>6, AlongLoop
<1>8. n \in 0..n /\ f[n] \in GuardAcc
    BY <1>2, <1>3
<1>9. Guarded(first, f[n], bar)
    BY <1>7, <1>8
<1>10. QED
    BY <1>2, <1>8, <1>9 DEF first

\* The visit of a reversal close on a bar that prints, when it is armed, latches it.
LEMMA CloseStepFires ==
    ASSUME rules \in Plans, NEW acc \in GuardAcc, NEW bar \in Candle, NEW r \in PlanRules,
           r.kind = "close", r.on = "signal", ~r.inNews, bar.signal, ~bar.rubbish,
           acc.st.phase = "awaitEntry" \/ acc.st.blocked
    PROVE  r.id \in GuardStep(acc, r, bar).st.fired
<1> DEFINE seen == Recorded(acc.st, r, bar)
           at == [st |-> seen, fires |-> acc.fires, over |-> acc.over]
<1>1. IsGuard(r) /\ Armed(r, acc.st) /\ GuardFires(r, acc.st, bar)
    BY DEF IsGuard, Armed, GuardFires, ReversalPrinted
<1>2. seen \in States
    <2>1. acc.st \in States
        BY DEF GuardAcc
    <2>2. QED
        BY <2>1, RecordedType
<1>3. CASE r.id \in acc.st.fired
    BY <1>3 DEF GuardStep
<1>4. CASE r.id \notin acc.st.fired
    <2>1. GuardStep(acc, r, bar) = Latched([acc EXCEPT !.st = seen], r, bar)
        BY <1>1, <1>4 DEF GuardStep
    <2> HIDE DEF seen
    <2>2. [acc EXCEPT !.st = seen] = at
        BY DEF GuardAcc
    <2> HIDE DEF at
    <2>3. Latched(at, r, bar) =
             [st |-> [seen EXCEPT !.fired = @ \cup {r.id}],
              fires |-> Fired(at, r, bar), over |-> acc.over]
        BY <1>2, LatchedGuardIs DEF at
    <2>4. r.id \in Latched(at, r, bar).st.fired
        BY <1>2, <2>3 DEF States
    <2>5. QED
        BY <2>1, <2>2, <2>4
<1>5. QED
    BY <1>3, <1>4

\* A reversal close that is armed when its bar prints has fired when the guards are done.
LEMMA CloseFires ==
    ASSUME rules \in Plans, NEW acc \in Acc, NEW bar \in Candle, NEW r \in PlanRules,
           r.kind = "close", r.on = "signal", ~r.inNews, bar.signal, ~bar.rubbish,
           acc.st.phase = "awaitEntry" \/ acc.st.blocked
    PROVE  r.id \in GuardsFired(acc, bar).st.fired
<1> DEFINE n == Len(rules)
           ready(a) == a.st.phase = "awaitEntry" \/ a.st.blocked
<1>1. PICK f : RunOfGuards(f, acc, bar)
    BY GuardsRun
<1>2. /\ f \in [0..n -> GuardAcc] /\ f[0] = [st |-> acc.st, fires |-> acc.fires, over |-> FALSE]
      /\ f[n] = GuardsFired(acc, bar)
      /\ \A i \in 1..n : f[i] = GuardStep(f[i - 1], rules[i], bar)
    BY <1>1 DEF RunOfGuards
<1>3. n \in Nat /\ \A i \in 1..n : rules[i] \in PlanRules
    BY RuleCount, RuleType
<1>4. PICK k \in 1..n : rules[k] = r
    BY RuleCount DEF PlanRules
<1> HIDE DEF n
<1>5. ASSUME NEW i \in 1..n
      PROVE  /\ f[i - 1] \in GuardAcc /\ i \in 0..n /\ Guarded(f[i - 1], f[i], bar)
             /\ f[i].st.phase = f[i - 1].st.phase
    <2>1. f[i - 1] \in GuardAcc
        BY <1>2, <1>3
    <2>2. Guarded(f[i - 1], f[i], bar)
        BY <1>2, <1>3, <2>1, GuardStepDoes
    <2>3. f[i].st.phase = f[i - 1].st.phase
        BY <2>1, <2>2 DEF Guarded, GuardAcc, States
    <2>4. QED
        BY <1>3, <2>1, <2>2, <2>3
<1> DEFINE S == {i \in 0..n : ready(f[i]) /\ (k <= i => r.id \in f[i].st.fired)}
<1>6. 0 \in S
    BY <1>2, <1>3, <1>4
<1>7. ASSUME NEW i \in 1..n, i - 1 \in S PROVE i \in S
    <2>1. ready(f[i - 1]) /\ (k <= i - 1 => r.id \in f[i - 1].st.fired)
        BY <1>7
    <2>2. ready(f[i])
        BY <1>5, <2>1 DEF Guarded
    <2>3. f[i - 1].st.fired \subseteq f[i].st.fired
        BY <1>5 DEF Guarded, Latches
    <2>4. CASE k = i
        <3>1. f[i] = GuardStep(f[i - 1], r, bar)
            BY <1>2, <1>4, <2>4
        <3>2. r.id \in GuardStep(f[i - 1], r, bar).st.fired
            BY <1>5, <2>1, CloseStepFires
        <3>3. QED
            BY <1>5, <2>2, <3>1, <3>2
    <2>5. CASE k # i
        BY <1>5, <2>1, <2>2, <2>3, <2>5
    <2>6. QED
        BY <1>5, <2>2, <2>4, <2>5
<1>8. \A i \in 0..n : i \in S
    BY <1>3, <1>6, <1>7, AlongLoop
<1>9. QED
    BY <1>2, <1>3, <1>4, <1>8

(* From acc to next, the guards of a bar ran: a veto that fires ends the    *)
(* plan or blocks it, and nothing else does either.                         *)
Vetted(acc, next, bar) ==
    /\ next.st = [acc.st EXCEPT !.phase = next.st.phase, !.fired = next.st.fired,
                                !.blocked = next.st.blocked, !.origin = next.st.origin,
                                !.last = next.st.last]
    /\ Latches(acc, next, bar, GuardIds)
    /\ \A id \in RuleIds \ GuardIds :
          next.st.origin[id] = acc.st.origin[id] /\ next.st.last[id] = acc.st.last[id]
    /\ next.st.phase \in {acc.st.phase, "done"}
    /\ acc.st.blocked => next.st.blocked
    /\ (next.st.fired \ acc.st.fired) \cap IdsOf("veto") # {} =>
          next.st.phase = "done" \/ next.st.blocked
    /\ next.st.phase # acc.st.phase \/ (next.st.blocked /\ ~acc.st.blocked) =>
          (next.st.fired \ acc.st.fired) \cap IdsOf("veto") # {}

\* What the guards of a bar may do, the end of the plan included.
LEMMA GuardsDo ==
    ASSUME rules \in Plans, NEW acc \in Acc, NEW bar \in Candle
    PROVE  LET next == Guards(acc, bar) IN
           /\ next \in Acc
           /\ Vetted(acc, next, bar)
           /\ next.st.fired = GuardsFired(acc, bar).st.fired
<1> DEFINE first == [st |-> acc.st, fires |-> acc.fires, over |-> FALSE]
           all == GuardsFired(acc, bar)
           end == IF all.over THEN [all.st EXCEPT !.phase = "done"] ELSE all.st
           next == [st |-> end, fires |-> all.fires]
<1>1. all \in GuardAcc /\ Guarded(first, all, bar)
    BY GuardsFiredDo
<1>2. Guards(acc, bar) = next
    BY DEF Guards
<1> HIDE DEF all
<1>3. all.st \in States /\ all.fires \in Seq(Fire) /\ all.over \in BOOLEAN /\ acc.st \in States
    BY <1>1 DEF GuardAcc, Acc
<1>4. /\ first.st = acc.st /\ first.fires = acc.fires /\ ~first.over
    OBVIOUS
<1> HIDE DEF first
<1>5. /\ end \in States
      /\ end.phase = IF all.over THEN "done" ELSE all.st.phase
      /\ end = [all.st EXCEPT !.phase = end.phase]
      /\ end.fired = all.st.fired /\ end.blocked = all.st.blocked
      /\ end.origin = all.st.origin /\ end.last = all.st.last
    BY <1>3 DEF States
<1> HIDE DEF end
<1>6. /\ next \in Acc /\ next.st = end /\ next.fires = all.fires
    BY <1>3, <1>5 DEF Acc
<1> HIDE DEF next
<1>7. all.st = [acc.st EXCEPT !.fired = all.st.fired, !.blocked = all.st.blocked,
                              !.origin = all.st.origin, !.last = all.st.last]
    BY <1>1, <1>4 DEF Guarded
<1>8. all.st.phase = acc.st.phase
    BY <1>3, <1>7 DEF States
<1>9. end = [acc.st EXCEPT !.phase = end.phase, !.fired = end.fired, !.blocked = end.blocked,
                           !.origin = end.origin, !.last = end.last]
    BY <1>3, <1>5, <1>7 DEF States
<1>10. Latches(acc, next, bar, GuardIds)
    BY <1>1, <1>4, <1>5, <1>6 DEF Guarded, Latches
<1>11. /\ \A id \in RuleIds \ GuardIds :
             end.origin[id] = acc.st.origin[id] /\ end.last[id] = acc.st.last[id]
       /\ acc.st.blocked => end.blocked
    BY <1>1, <1>4, <1>5 DEF Guarded
<1>12. (end.fired \ acc.st.fired) \cap IdsOf("veto") # {} => end.phase = "done" \/ end.blocked
    BY <1>1, <1>4, <1>5 DEF Guarded
<1>13. end.phase # acc.st.phase \/ (end.blocked /\ ~acc.st.blocked) =>
          (end.fired \ acc.st.fired) \cap IdsOf("veto") # {}
    BY <1>1, <1>4, <1>5, <1>8 DEF Guarded
<1>14. end.phase \in {acc.st.phase, "done"}
    BY <1>5, <1>8
<1>15. Vetted(acc, next, bar)
    BY <1>6, <1>9, <1>10, <1>11, <1>12, <1>13, <1>14 DEF Vetted
<1>16. QED
    BY <1>2, <1>5, <1>6, <1>15 DEF all

-----------------------------------------------------------------------------
(* The break, the retest and the entries of a bar.                          *)

(* From acc to next, the break was looked for: it latches once, on the bar  *)
(* that fires it, and stamps that bar.                                      *)
Broken(acc, next, bar) ==
    LET rule == FirstOf("breakAndClose") IN
    /\ next.st = [acc.st EXCEPT !.phase = next.st.phase, !.fired = next.st.fired,
                                !.breakAt = next.st.breakAt, !.origin = next.st.origin,
                                !.last = next.st.last]
    /\ Latches(acc, next, bar, IdsOf("breakAndClose"))
    /\ \A id \in RuleIds \ IdsOf("breakAndClose") :
          next.st.origin[id] = acc.st.origin[id] /\ next.st.last[id] = acc.st.last[id]
    /\ \/ /\ next.st.fired = acc.st.fired
          /\ next.st.breakAt = acc.st.breakAt
          /\ next.st.phase = IF HasRule("breakAndClose") THEN acc.st.phase ELSE "awaitEntry"
       \/ /\ HasRule("breakAndClose")
          /\ rule.id \notin acc.st.fired
          /\ next.st.fired = acc.st.fired \cup {rule.id}
          /\ next.st.breakAt = bar.n
          /\ next.st.phase = "awaitEntry"
    /\ HasRule("breakAndClose") /\ rule.id \notin acc.st.fired /\ ~rule.golden =>
          /\ rule.id \in next.st.fired <=> Fires(rule, acc.st, bar)
          /\ next.st.origin = Recorded(acc.st, rule, bar).origin

\* What the search for the break may do.
LEMMA BreakDoes ==
    ASSUME rules \in Plans, NEW acc \in Acc, NEW bar \in Candle
    PROVE  LET next == BreakAndClose(acc, bar) IN next \in Acc /\ Broken(acc, next, bar)
<1> DEFINE next == BreakAndClose(acc, bar)
           rule == FirstOf("breakAndClose")
           ids == IdsOf("breakAndClose")
           seen == Recorded(acc.st, rule, bar)
           latch == [seen EXCEPT !.fired = @ \cup {rule.id}]
           broke == [latch EXCEPT !.breakAt = bar.n, !.phase = "awaitEntry"]
           idle == rule.id \in acc.st.fired \/ (rule.golden /\ ~Golden(bar))
<1>1. acc.st \in States /\ acc.fires \in Seq(Fire) /\ acc = [st |-> acc.st, fires |-> acc.fires]
    BY DEF Acc
<1>2. CASE ~HasRule("breakAndClose")
    <2> DEFINE end == [st |-> [acc.st EXCEPT !.phase = "awaitEntry"], fires |-> acc.fires]
    <2>1. next = end
        BY <1>2 DEF BreakAndClose, Acc
    <2>2. /\ end.st \in States /\ end.fires = acc.fires
          /\ end.st.fired = acc.st.fired /\ end.st.breakAt = acc.st.breakAt
          /\ end.st.origin = acc.st.origin /\ end.st.last = acc.st.last
          /\ end.st.phase = "awaitEntry"
          /\ end.st = [acc.st EXCEPT !.phase = end.st.phase, !.fired = end.st.fired,
                         !.breakAt = end.st.breakAt, !.origin = end.st.origin, !.last = end.st.last]
        BY <1>1 DEF States
    <2>3. end \in Acc
        BY <1>1, <2>2 DEF Acc
    <2> HIDE DEF end
    <2>4. Latches(acc, end, bar, ids)
        BY <2>2, LatchesNothing
    <2>5. Broken(acc, end, bar)
        BY <1>2, <2>2, <2>4 DEF Broken
    <2>6. QED
        BY <2>1, <2>3, <2>5
<1>3. CASE HasRule("breakAndClose") /\ idle
    <2>1. next = acc
        BY <1>3 DEF BreakAndClose
    <2>2. acc.st = [acc.st EXCEPT !.phase = acc.st.phase, !.fired = acc.st.fired,
                      !.breakAt = acc.st.breakAt, !.origin = acc.st.origin, !.last = acc.st.last]
        BY <1>1 DEF States
    <2>3. Latches(acc, acc, bar, ids)
        BY LatchesNothing
    <2>4. Broken(acc, acc, bar)
        BY <1>3, <2>2, <2>3 DEF Broken
    <2>5. QED
        BY <2>1, <2>4
<1>4. CASE HasRule("breakAndClose") /\ ~idle
    <2>1. rule \in PlanRules /\ rule.id \in RuleIds /\ rule.id \in ids
        BY <1>4, FirstOfKind, RuleType DEF Kinds
    <2>2. /\ seen \in States
          /\ seen = [acc.st EXCEPT !.origin = seen.origin, !.last = seen.last]
          /\ \A id \in RuleIds \ {rule.id} :
                seen.origin[id] = acc.st.origin[id] /\ seen.last[id] = acc.st.last[id]
        BY <1>1, <2>1, RecordedType
    <2>3. next = IF ~Fires(rule, acc.st, bar) THEN [acc EXCEPT !.st = seen]
                 ELSE [Latched([acc EXCEPT !.st = seen], rule, bar)
                        EXCEPT !.st.breakAt = bar.n, !.st.phase = "awaitEntry"]
        BY <1>1, <1>4 DEF BreakAndClose
    <2> DEFINE same == seen.origin
    <2>4. same = Recorded(acc.st, rule, bar).origin
        OBVIOUS
    <2> HIDE DEF seen, rule, same
    <2>5. [acc EXCEPT !.st = seen] = [st |-> seen, fires |-> acc.fires]
        BY <1>1
    <2>6. /\ seen.fired = acc.st.fired /\ seen.breakAt = acc.st.breakAt
          /\ seen.phase = acc.st.phase
        BY <1>1, <2>2 DEF States
    <2>7. CASE ~Fires(rule, acc.st, bar)
        <3> DEFINE end == [st |-> seen, fires |-> acc.fires]
        <3>1. next = end
            BY <2>3, <2>5, <2>7
        <3>2. end \in Acc /\ end.st = seen /\ end.fires = acc.fires
            BY <1>1, <2>2 DEF Acc
        <3>3. seen = [acc.st EXCEPT !.phase = seen.phase, !.fired = seen.fired,
                        !.breakAt = seen.breakAt, !.origin = seen.origin, !.last = seen.last]
            BY <1>1, <2>2 DEF States
        <3> HIDE DEF end
        <3>4. Latches(acc, end, bar, ids)
            BY <2>6, <3>2, LatchesNothing
        <3>5. Broken(acc, end, bar)
            BY <1>4, <2>1, <2>2, <2>4, <2>6, <2>7, <3>2, <3>3, <3>4 DEF Broken, rule, same, seen
        <3>6. QED
            BY <3>1, <3>2, <3>5
    <2>8. CASE Fires(rule, acc.st, bar)
        <3> DEFINE at == [st |-> seen, fires |-> acc.fires]
                   hit == [st |-> latch, fires |-> Fired(at, rule, bar)]
                   end == [st |-> broke, fires |-> Fired(acc, rule, bar)]
        <3>1. Latched(at, rule, bar) = hit
            <4>1. at = [st |-> seen, fires |-> acc.fires] /\ seen \in States
                BY <2>2
            <4>2. QED
                BY <4>1, LatchedIs
        <3>2. Fired(at, rule, bar) = Fired(acc, rule, bar)
            BY DEF Fired
        <3>3. next = [hit EXCEPT !.st.breakAt = bar.n, !.st.phase = "awaitEntry"]
            BY <2>3, <2>5, <2>8, <3>1
        <3>4. /\ latch \in States /\ bar.n \in 0..MaxBars
              /\ latch.fired = acc.st.fired \cup {rule.id}
              /\ latch.origin = seen.origin /\ latch.last = seen.last
            <4>1. bar.n \in 0..MaxBars
                BY CatchUpAssumption DEF Candle
            <4>2. QED
                BY <2>1, <2>2, <2>6, <4>1 DEF States
        <3>5. /\ broke \in States
              /\ broke.fired = acc.st.fired \cup {rule.id} /\ broke.breakAt = bar.n
              /\ broke.phase = "awaitEntry" /\ broke.origin = seen.origin /\ broke.last = seen.last
            <4> HIDE DEF latch
            <4>1. QED
                BY <3>4 DEF States
        <3>6. broke = [acc.st EXCEPT !.phase = broke.phase, !.fired = broke.fired,
                         !.breakAt = broke.breakAt, !.origin = broke.origin, !.last = broke.last]
            BY <1>1, <2>2, <2>6, <3>4, <3>5 DEF States
        <3> HIDE DEF latch, at
        <3>7. next = end
            BY <3>2, <3>3
        <3> HIDE DEF broke
        <3>8. end.st = broke /\ end.fires = Fired(acc, rule, bar)
            OBVIOUS
        <3> HIDE DEF end
        <3>9. Latches(acc, end, bar, ids) /\ end.fires \in Seq(Fire)
            BY <1>1, <1>4, <2>1, <3>5, <3>8, LatchOne
        <3>10. end \in Acc
            BY <3>5, <3>8, <3>9 DEF Acc, end
        <3>11. \A id \in RuleIds \ ids : broke.origin[id] = acc.st.origin[id] /\ broke.last[id] = acc.st.last[id]
            BY <2>1, <2>2, <3>5
        <3>12. Broken(acc, end, bar)
            BY <1>4, <2>1, <2>4, <2>8, <3>5, <3>6, <3>8, <3>9, <3>11 DEF Broken, rule, same, seen
        <3>13. QED
            BY <3>7, <3>10, <3>12
    <2>9. QED
        BY <2>7, <2>8
<1>5. QED
    BY <1>2, <1>3, <1>4

(* From acc to next, the retest was looked for: it stamps the bar once.     *)
Retested(acc, next, bar) ==
    /\ next.st = [acc.st EXCEPT !.retestAt = next.st.retestAt, !.origin = next.st.origin,
                                !.last = next.st.last]
    /\ \A id \in RuleIds \ IdsOf("retest") :
          next.st.origin[id] = acc.st.origin[id] /\ next.st.last[id] = acc.st.last[id]
    /\ \/ next.st.retestAt = acc.st.retestAt /\ next.fires = acc.fires
       \/ /\ HasRule("retest")
          /\ next.st.retestAt = bar.n
          /\ Reported(next.fires) =
                Reported(acc.fires) \cup {[id |-> FirstOf("retest").id, bar |-> bar.n]}

\* What the search for the retest may do.
LEMMA RetestDoes ==
    ASSUME rules \in Plans, NEW acc \in Acc, NEW bar \in Candle
    PROVE  LET next == Retest(acc, bar) IN next \in Acc /\ Retested(acc, next, bar)
<1> DEFINE next == Retest(acc, bar)
           rule == FirstOf("retest")
           idle == \/ ~HasRule("retest")
                   \/ HasRule("breakAndClose") /\ acc.st.breakAt = NoBar
                   \/ acc.st.breakAt # NoBar /\ bar.n <= acc.st.breakAt
           hit == /\ rule.golden => Golden(bar)
                  /\ acc.st.retestAt = NoBar /\ ~bar.rubbish /\ RetestCrossed(rule, acc.st, bar)
           seen == Recorded(acc.st, rule, bar)
           at == [st |-> seen, fires |-> acc.fires]
<1>1. acc.st \in States /\ acc.fires \in Seq(Fire) /\ acc = [st |-> acc.st, fires |-> acc.fires]
    BY DEF Acc
<1>2. CASE idle
    <2>1. next = acc
        BY <1>2 DEF Retest
    <2>2. acc.st = [acc.st EXCEPT !.retestAt = acc.st.retestAt, !.origin = acc.st.origin,
                                  !.last = acc.st.last]
        BY <1>1 DEF States
    <2>3. QED
        BY <2>1, <2>2 DEF Retested
<1>3. CASE ~idle
    <2>1. rule \in PlanRules /\ rule.id \in RuleIds /\ rule.id \in IdsOf("retest")
        BY <1>3, FirstOfKind, RuleType DEF Kinds
    <2>2. /\ seen \in States
          /\ seen = [acc.st EXCEPT !.origin = seen.origin, !.last = seen.last]
          /\ \A id \in RuleIds \ {rule.id} :
                seen.origin[id] = acc.st.origin[id] /\ seen.last[id] = acc.st.last[id]
        BY <1>1, <2>1, RecordedType
    <2>3. [acc EXCEPT !.st = seen] = at
        BY <1>1
    <2>4. next = IF hit THEN [at EXCEPT !.st.retestAt = bar.n, !.fires = Fired(at, rule, bar)] ELSE at
        BY <1>3, <2>3 DEF Retest
    <2>5. \A id \in RuleIds \ IdsOf("retest") :
             seen.origin[id] = acc.st.origin[id] /\ seen.last[id] = acc.st.last[id]
        BY <2>1, <2>2
    <2> HIDE DEF seen, hit, idle
    <2>6. CASE ~hit
        <3>1. at \in Acc /\ at.st = seen /\ at.fires = acc.fires
            BY <1>1, <2>2 DEF Acc
        <3>2. seen = [acc.st EXCEPT !.retestAt = seen.retestAt, !.origin = seen.origin,
                                    !.last = seen.last] /\ seen.retestAt = acc.st.retestAt
            BY <1>1, <2>2 DEF States
        <3> HIDE DEF at
        <3>3. Retested(acc, at, bar)
            BY <2>5, <3>1, <3>2 DEF Retested
        <3>4. QED
            BY <2>4, <2>6, <3>1, <3>3
    <2>7. CASE hit
        <3> DEFINE e == [id |-> rule.id, bar |-> bar.n]
                   stamped == [seen EXCEPT !.retestAt = bar.n]
                   end == [st |-> stamped, fires |-> Append(acc.fires, e)]
        <3>1. Fired(at, rule, bar) = Append(acc.fires, e)
            BY DEF Fired
        <3>2. e \in Fire /\ bar.n \in 0..MaxBars
            BY <2>1, CatchUpAssumption DEF Fire, Candle
        <3> HIDE DEF rule, e
        <3>3. next = end
            <4>1. next = [at EXCEPT !.st = stamped, !.fires = Append(acc.fires, e)]
                BY <2>4, <2>7, <3>1
            <4> HIDE DEF stamped
            <4>2. QED
                BY <4>1
        <3>4. /\ stamped \in States /\ stamped.retestAt = bar.n
              /\ stamped.origin = seen.origin /\ stamped.last = seen.last
            BY <2>2, <3>2 DEF States
        <3>5. stamped = [acc.st EXCEPT !.retestAt = stamped.retestAt, !.origin = stamped.origin,
                                       !.last = stamped.last]
            BY <1>1, <2>2, <3>2 DEF States
        <3> HIDE DEF stamped
        <3>6. /\ end.fires \in Seq(Fire) /\ end.st = stamped
              /\ Reported(end.fires) = Reported(acc.fires) \cup {e}
            BY <1>1, <3>2, ReportAppended
        <3>7. end \in Acc
            BY <3>4, <3>6 DEF Acc
        <3> HIDE DEF end
        <3>8. Retested(acc, end, bar)
            BY <1>3, <2>5, <3>4, <3>5, <3>6 DEF Retested, idle, e, rule
        <3>9. QED
            BY <3>3, <3>7, <3>8
    <2>8. QED
        BY <2>6, <2>7
<1>4. QED
    BY <1>2, <1>3

(* From acc to next, entries were visited.                                  *)
Entered(acc, next, bar) ==
    /\ next.st = [acc.st EXCEPT !.phase = next.st.phase, !.fired = next.st.fired,
                                !.origin = next.st.origin, !.last = next.st.last]
    /\ next.st.phase \in {acc.st.phase, "done"}
    /\ \A id \in RuleIds \ IdsOf("enter") :
          next.st.origin[id] = acc.st.origin[id] /\ next.st.last[id] = acc.st.last[id]
    /\ acc.st.fired \subseteq next.st.fired
    /\ next.st.fired \ acc.st.fired \subseteq IdsOf("enter")
    /\ \A id \in next.st.fired \ acc.st.fired :
          [id |-> id, bar |-> bar.n] \in Reported(next.fires)
    /\ Reported(acc.fires) \subseteq Reported(next.fires)
    /\ \A e \in Reported(next.fires) \ Reported(acc.fires) :
          /\ e.id \in IdsOf("enter") /\ e.bar = bar.n
          /\ ~bar.rubbish
          /\ HasRule("retest") /\ ~MultiEnter => RetestSatisfied(acc.st, bar)

\* The retest as the entries of a bar see it is that of the state they start from.
LEMMA EnteredKeepsMilestones ==
    ASSUME NEW acc \in Acc, NEW next \in Acc, NEW bar, Entered(acc, next, bar)
    PROVE  RetestSatisfied(next.st, bar) = RetestSatisfied(acc.st, bar)
<1>1. next.st.retestAt = acc.st.retestAt /\ next.st.breakAt = acc.st.breakAt
    BY DEF Entered, Acc, States
<1>2. QED
    BY <1>1 DEF RetestSatisfied

\* Visits of entries compose.
LEMMA EnteredAgain ==
    ASSUME NEW a \in Acc, NEW b \in Acc, NEW c \in Acc, NEW bar,
           Entered(a, b, bar), Entered(b, c, bar)
    PROVE  Entered(a, c, bar)
<1>1. c.st = [a.st EXCEPT !.phase = c.st.phase, !.fired = c.st.fired,
                          !.origin = c.st.origin, !.last = c.st.last]
    <2>1. /\ a.st \in States /\ b.st \in States /\ c.st \in States
          /\ b.st = [a.st EXCEPT !.phase = b.st.phase, !.fired = b.st.fired,
                                 !.origin = b.st.origin, !.last = b.st.last]
          /\ c.st = [b.st EXCEPT !.phase = c.st.phase, !.fired = c.st.fired,
                                 !.origin = c.st.origin, !.last = c.st.last]
        BY DEF Acc, Entered
    <2>2. QED
        BY <2>1 DEF States
<1>2. RetestSatisfied(b.st, bar) = RetestSatisfied(a.st, bar)
    BY EnteredKeepsMilestones
<1>3. c.st.phase \in {a.st.phase, "done"}
    BY DEF Entered
<1>4. \A id \in RuleIds \ IdsOf("enter") :
          c.st.origin[id] = a.st.origin[id] /\ c.st.last[id] = a.st.last[id]
    BY DEF Entered
<1>5. /\ a.st.fired \subseteq c.st.fired
      /\ c.st.fired \ a.st.fired \subseteq IdsOf("enter")
      /\ Reported(a.fires) \subseteq Reported(c.fires)
    BY DEF Entered
<1>6. \A id \in c.st.fired \ a.st.fired : [id |-> id, bar |-> bar.n] \in Reported(c.fires)
    BY DEF Entered
<1>7. ASSUME NEW e \in Reported(c.fires) \ Reported(a.fires)
      PROVE  /\ e.id \in IdsOf("enter") /\ e.bar = bar.n
             /\ ~bar.rubbish
             /\ HasRule("retest") /\ ~MultiEnter => RetestSatisfied(a.st, bar)
    <2>1. CASE e \in Reported(b.fires)
        BY <2>1 DEF Entered
    <2>2. CASE e \notin Reported(b.fires)
        BY <1>2, <2>2 DEF Entered
    <2>3. QED
        BY <2>1, <2>2
<1>8. QED
    BY <1>1, <1>3, <1>4, <1>5, <1>6, <1>7 DEF Entered

\* What the visit of one rule by the entries may do.
LEMMA EntryStepDoes ==
    ASSUME rules \in Plans, NEW acc \in Acc, NEW r \in PlanRules, NEW bar \in Candle
    PROVE  LET next == EntryStep(acc, r, bar) IN next \in Acc /\ Entered(acc, next, bar)
<1> DEFINE next == EntryStep(acc, r, bar)
           idle == \/ r.kind # "enter" \/ acc.st.phase = "done"
                   \/ r.id \in acc.st.fired \/ bar.rubbish
           seen == Recorded(acc.st, r, bar)
           at == [st |-> seen, fires |-> acc.fires]
           print == IF r.on = "signal" THEN bar.signal ELSE Fires(r, acc.st, bar)
           miss == ~print \/ (NeedsRetest(r) /\ ~RetestSatisfied(acc.st, bar))
           e == [id |-> r.id, bar |-> bar.n]
<1>1. acc.st \in States /\ acc.fires \in Seq(Fire) /\ acc = [st |-> acc.st, fires |-> acc.fires]
    BY DEF Acc
<1>2. CASE idle
    <2>1. next = acc
        BY <1>2 DEF EntryStep
    <2>2. acc.st = [acc.st EXCEPT !.phase = acc.st.phase, !.fired = acc.st.fired,
                                  !.origin = acc.st.origin, !.last = acc.st.last]
        BY <1>1 DEF States
    <2>3. QED
        BY <2>1, <2>2 DEF Entered
<1>3. CASE ~idle
    <2>1. r.id \in RuleIds /\ r.id \in IdsOf("enter") /\ r.id \notin acc.st.fired /\ ~bar.rubbish
        BY <1>3, RuleType DEF Kinds
    <2>2. /\ seen \in States
          /\ seen = [acc.st EXCEPT !.origin = seen.origin, !.last = seen.last]
          /\ \A id \in RuleIds \ {r.id} :
                seen.origin[id] = acc.st.origin[id] /\ seen.last[id] = acc.st.last[id]
        BY <1>1, RecordedType
    <2>3. [acc EXCEPT !.st = seen] = at
        BY <1>1
    <2>4. next = IF miss THEN at
                 ELSE IF r.multiShot THEN [at EXCEPT !.fires = Fired(at, r, bar)]
                      ELSE [Latched(at, r, bar) EXCEPT !.st.phase = "done"]
        BY <1>3, <2>3 DEF EntryStep
    <2>5. \A id \in RuleIds \ IdsOf("enter") :
             seen.origin[id] = acc.st.origin[id] /\ seen.last[id] = acc.st.last[id]
        BY <2>1, <2>2
    <2>6. ~miss => (HasRule("retest") /\ ~MultiEnter => RetestSatisfied(acc.st, bar))
        BY DEF NeedsRetest
    <2>7. Fired(at, r, bar) = Append(acc.fires, e)
        BY DEF Fired
    <2>8. e \in Fire
        BY <2>1 DEF Fire, Candle
    <2>9. Append(acc.fires, e) \in Seq(Fire) /\ Reported(Append(acc.fires, e)) = Reported(acc.fires) \cup {e}
        BY <1>1, <2>8, ReportAppended
    <2>10. seen = [acc.st EXCEPT !.phase = seen.phase, !.fired = seen.fired,
                                 !.origin = seen.origin, !.last = seen.last]
           /\ seen.phase = acc.st.phase /\ seen.fired = acc.st.fired
        BY <1>1, <2>2 DEF States
    <2> HIDE DEF seen, miss, idle
    <2>11. CASE miss
        <3>1. at \in Acc /\ at.st = seen /\ at.fires = acc.fires
            BY <1>1, <2>2 DEF Acc
        <3> HIDE DEF at
        <3>2. Entered(acc, at, bar)
            BY <2>5, <2>10, <3>1 DEF Entered
        <3>3. QED
            BY <2>4, <2>11, <3>1, <3>2
    <2>12. CASE ~miss /\ r.multiShot
        <3> DEFINE end == [st |-> seen, fires |-> Append(acc.fires, e)]
        <3>1. next = end
            BY <2>4, <2>7, <2>12
        <3>2. end \in Acc /\ end.st = seen /\ end.fires = Append(acc.fires, e)
            BY <2>2, <2>9 DEF Acc
        <3>3. e.id = r.id /\ e.bar = bar.n
            OBVIOUS
        <3> HIDE DEF end, e
        <3>4. Entered(acc, end, bar)
            BY <2>1, <2>5, <2>6, <2>9, <2>10, <2>12, <3>2, <3>3 DEF Entered
        <3>5. QED
            BY <3>1, <3>2, <3>4
    <2>13. CASE ~miss /\ ~r.multiShot
        <3> DEFINE latch == [seen EXCEPT !.fired = @ \cup {r.id}]
                   over == [latch EXCEPT !.phase = "done"]
                   end == [st |-> over, fires |-> Append(acc.fires, e)]
        <3>1. Latched(at, r, bar) = [st |-> latch, fires |-> Fired(at, r, bar)]
            <4>1. seen \in States
                BY <2>2
            <4> HIDE DEF e
            <4>2. QED
                BY <4>1, LatchedIs
        <3>2. /\ latch \in States /\ latch.fired = acc.st.fired \cup {r.id}
              /\ latch.origin = seen.origin /\ latch.last = seen.last
            BY <2>1, <2>2, <2>10 DEF States
        <3>3. /\ over \in States /\ over.fired = acc.st.fired \cup {r.id} /\ over.phase = "done"
              /\ over.origin = seen.origin /\ over.last = seen.last
            <4> HIDE DEF latch
            <4>1. QED
                BY <3>2 DEF States
        <3>4. over = [acc.st EXCEPT !.phase = over.phase, !.fired = over.fired,
                                    !.origin = over.origin, !.last = over.last]
            BY <1>1, <2>10, <3>2, <3>3 DEF States
        <3> HIDE DEF latch, e
        <3>5. next = end
            <4>1. next = [[st |-> latch, fires |-> Append(acc.fires, e)] EXCEPT !.st.phase = "done"]
                BY <2>4, <2>7, <2>13, <3>1
            <4>2. QED
                BY <4>1
        <3> USE DEF e
        <3> HIDE DEF over
        <3>6. end \in Acc /\ end.st = over /\ end.fires = Append(acc.fires, e)
            BY <2>9, <3>3 DEF Acc
        <3>7. e.id = r.id /\ e.bar = bar.n /\ e = [id |-> r.id, bar |-> bar.n]
            OBVIOUS
        <3> HIDE DEF end, e
        <3>8. Entered(acc, end, bar)
            BY <2>1, <2>5, <2>6, <2>9, <2>13, <3>3, <3>4, <3>6, <3>7 DEF Entered
        <3>9. QED
            BY <3>5, <3>6, <3>8
    <2>14. QED
        BY <2>11, <2>12, <2>13
<1>4. QED
    BY <1>2, <1>3

(* The loop of the entries, as a run over the rules.                         *)
RunOfEntries(f, acc, bar) ==
    /\ f \in [0..Len(rules) -> Acc]
    /\ f[0] = acc
    /\ \A i \in 1..Len(rules) : f[i] = EntryStep(f[i - 1], rules[i], bar)
    /\ f[Len(rules)] = Entries(acc, bar)

\* The entries have a run.
LEMMA EntriesRun ==
    ASSUME rules \in Plans, NEW acc \in Acc, NEW bar \in Candle
    PROVE  \E f : RunOfEntries(f, acc, bar)
<1> DEFINE n == Len(rules)
           first == acc
           G == [p \in (1..n) \X Acc |-> EntryStep(p[2], rules[p[1]], bar)]
           F == CHOOSE after : after = [i \in 0..n |->
                    IF i = 0 THEN first ELSE EntryStep(after[i - 1], rules[i], bar)]
<1>1. n \in Nat /\ \A i \in 1..n : rules[i] \in PlanRules
    BY RuleCount, RuleType
<1>2. Entries(acc, bar) = F[n]
    BY DEF Entries
<1> HIDE DEF n
<1>3. G \in [(1..n) \X Acc -> Acc]
    BY <1>1, EntryStepDoes
<1>4. first \in Acc
    OBVIOUS
<1> HIDE DEF G, first
<1>5. Runs(Acc, first, n, G) # {}
    BY <1>1, <1>3, <1>4, LoopRuns
<1>6. PICK f \in [0..n -> Acc] : f[0] = first /\ \A i \in 1..n : f[i] = G[<<i, f[i - 1]>>]
    BY <1>5 DEF Runs
<1>7. ASSUME NEW i \in 1..n PROVE f[i] = EntryStep(f[i - 1], rules[i], bar)
    <2>1. f[i - 1] \in Acc
        BY <1>1
    <2>2. G[<<i, f[i - 1]>>] = EntryStep(f[i - 1], rules[i], bar)
        BY <2>1 DEF G
    <2>3. QED
        BY <1>6, <2>2
<1>8. f = [i \in 0..n |-> IF i = 0 THEN first ELSE EntryStep(f[i - 1], rules[i], bar)]
    <2>1. \A i \in 0..n : i # 0 => i \in 1..n
        BY <1>1
    <2>2. f = [i \in 0..n |-> f[i]]
        OBVIOUS
    <2>3. QED
        BY <1>6, <1>7, <2>1, <2>2
<1>9. F = [i \in 0..n |-> IF i = 0 THEN first ELSE EntryStep(F[i - 1], rules[i], bar)]
    BY <1>8
<1> HIDE DEF F
<1>10. F[0] = first /\ \A i \in 1..n : F[i] = EntryStep(F[i - 1], rules[i], bar)
    BY <1>1, <1>9
<1>11. F \in [0..n -> Acc]
    <2> DEFINE S == {i \in 0..n : F[i] \in Acc}
    <2>1. 0 \in S
        BY <1>1, <1>4, <1>10
    <2>2. ASSUME NEW i \in 1..n, i - 1 \in S PROVE i \in S
        <3>1. F[i - 1] \in Acc /\ rules[i] \in PlanRules /\ i \in 0..n
            BY <1>1, <2>2
        <3>2. EntryStep(F[i - 1], rules[i], bar) \in Acc
            BY <3>1, EntryStepDoes
        <3>3. QED
            BY <1>10, <3>1, <3>2
    <2>3. \A i \in 0..n : i \in S
        BY <1>1, <2>1, <2>2, AlongLoop
    <2>4. QED
        BY <1>9, <2>3
<1>12. QED
    BY <1>2, <1>10, <1>11 DEF n, first, RunOfEntries

\* What the entries of a bar may do.
LEMMA EntriesDo ==
    ASSUME rules \in Plans, NEW acc \in Acc, NEW bar \in Candle
    PROVE  LET next == Entries(acc, bar) IN next \in Acc /\ Entered(acc, next, bar)
<1> DEFINE n == Len(rules)
<1>1. PICK f : RunOfEntries(f, acc, bar)
    BY EntriesRun
<1>2. /\ f \in [0..n -> Acc] /\ f[0] = acc /\ f[n] = Entries(acc, bar)
      /\ \A i \in 1..n : f[i] = EntryStep(f[i - 1], rules[i], bar)
    BY <1>1 DEF RunOfEntries
<1>3. n \in Nat /\ \A i \in 1..n : rules[i] \in PlanRules
    BY RuleCount, RuleType
<1> HIDE DEF n
<1> DEFINE S == {i \in 0..n : Entered(acc, f[i], bar)}
<1>4. 0 \in S
    <2>1. acc.st = [acc.st EXCEPT !.phase = acc.st.phase, !.fired = acc.st.fired,
                                  !.origin = acc.st.origin, !.last = acc.st.last]
        BY DEF Acc, States
    <2>2. Entered(acc, acc, bar)
        BY <2>1 DEF Entered
    <2>3. QED
        BY <1>2, <1>3, <2>2
<1>5. ASSUME NEW i \in 1..n, i - 1 \in S PROVE i \in S
    <2>1. f[i - 1] \in Acc /\ f[i] \in Acc /\ i \in 0..n /\ Entered(acc, f[i - 1], bar)
        BY <1>2, <1>3, <1>5
    <2>2. Entered(f[i - 1], f[i], bar)
        BY <1>2, <1>3, <2>1, EntryStepDoes
    <2>3. QED
        BY <2>1, <2>2, EnteredAgain
<1>6. \A i \in 0..n : i \in S
    BY <1>3, <1>4, <1>5, AlongLoop
<1>7. QED
    BY <1>2, <1>3, <1>6

-----------------------------------------------------------------------------
(* One bar, the bars of a tick, and a tick: their types.                    *)

\* The spine keeps the type and the watermark.
LEMMA SpineType ==
    ASSUME rules \in Plans, NEW acc \in Acc, NEW bar \in Candle
    PROVE  Spine(acc, bar) \in Acc
<1> DEFINE broke == IF MultiEnter THEN BreakAndClose(acc, bar) ELSE acc
<1>1. BreakAndClose(acc, bar) \in Acc /\ broke \in Acc
    BY BreakDoes
<1> HIDE DEF broke
<1>2. Retest(broke, bar) \in Acc
    BY <1>1, RetestDoes
<1>3. Entries(Retest(broke, bar), bar) \in Acc
    BY <1>2, EntriesDo
<1>4. QED
    BY <1>1, <1>3 DEF Spine, broke

\* A bar as the composition of its passes.
LEMMA BarComposes ==
    ASSUME NEW acc, NEW bar, NEW at
    PROVE  LET guarded == Guards(Controls(acc, bar, ControlClock(bar, at)), bar)
               after == IF guarded.st.phase = "done" \/ guarded.st.blocked
                        THEN guarded ELSE Spine(guarded, bar)
           IN  EvaluateBar(acc, bar, at) = [after EXCEPT !.st = Watermarked(@, bar)]
BY Zenon DEF EvaluateBar

\* A bar that was evaluated is the watermark.
LEMMA BarType ==
    ASSUME rules \in Plans, NEW acc \in Acc, NEW bar \in Candle, NEW at
    PROVE  LET next == EvaluateBar(acc, bar, at) IN
           next \in Acc /\ next.st.watermark = bar.n
<1> DEFINE ctl == Controls(acc, bar, ControlClock(bar, at))
           guarded == Guards(ctl, bar)
           after == IF guarded.st.phase = "done" \/ guarded.st.blocked
                    THEN guarded ELSE Spine(guarded, bar)
<1>1. ctl \in Acc
    BY ControlsDo
<1>2. guarded \in Acc
    <2> HIDE DEF ctl
    <2>1. QED
        BY <1>1, GuardsDo
<1>3. after \in Acc
    <2> HIDE DEF guarded
    <2>1. QED
        BY <1>2, SpineType
<1>4. EvaluateBar(acc, bar, at) = [after EXCEPT !.st = Watermarked(@, bar)]
    BY BarComposes
<1> HIDE DEF after
<1>5. bar.n \in 0..MaxBars
    BY CatchUpAssumption DEF Candle
<1>6. after.st \in States /\ after.fires \in Seq(Fire)
    BY <1>3 DEF Acc
<1>7. Watermarked(after.st, bar) \in States /\ Watermarked(after.st, bar).watermark = bar.n
    BY <1>5, <1>6 DEF Watermarked, States
<1> DEFINE end == [st |-> Watermarked(after.st, bar), fires |-> after.fires]
<1>8. EvaluateBar(acc, bar, at) = end
    BY <1>3, <1>4 DEF Acc
<1>9. end \in Acc /\ end.st.watermark = bar.n
    BY <1>6, <1>7 DEF Acc
<1>10. QED
    BY <1>8, <1>9

\* A step of the loop over the bars: a finished plan stays, another reads the bar.
LEMMA BarStepType ==
    ASSUME rules \in Plans, NEW acc \in Acc, NEW bar \in Candle, NEW at
    PROVE  LET next == BarStep(acc, bar, at) IN
           /\ next \in Acc
           /\ acc.st.phase = "done" => next = acc
           /\ acc.st.phase # "done" => next.st.watermark = bar.n
BY BarType DEF BarStep

(* The loop over the bars of a tick.                                         *)
RunOfBars(f, st, fresh, at) ==
    /\ f \in [0..Len(fresh) -> Acc]
    /\ f[0] = [st |-> st, fires |-> <<>>]
    /\ \A i \in 1..Len(fresh) : f[i] = BarStep(f[i - 1], fresh[i], at)
    /\ f[Len(fresh)] = EvaluatePlan(st, fresh, at)

\* The loop over the bars has a run.
LEMMA BarsRun ==
    ASSUME rules \in Plans, NEW st \in States, NEW fresh \in Seq(Candle), NEW at \in Nat
    PROVE  \E f : RunOfBars(f, st, fresh, at)
<1> DEFINE n == Len(fresh)
           first == [st |-> st, fires |-> <<>>]
           G == [p \in (1..n) \X Acc |-> BarStep(p[2], fresh[p[1]], at)]
           F == CHOOSE after : after = [i \in 0..n |->
                    IF i = 0 THEN first ELSE BarStep(after[i - 1], fresh[i], at)]
<1>1. n \in Nat /\ \A i \in 1..n : fresh[i] \in Candle
    OBVIOUS
<1>2. EvaluatePlan(st, fresh, at) = F[n]
    BY DEF EvaluatePlan
<1> HIDE DEF n
<1>3. G \in [(1..n) \X Acc -> Acc]
    BY <1>1, BarStepType
<1>4. first \in Acc
    BY DEF Acc
<1> HIDE DEF G, first
<1>5. Runs(Acc, first, n, G) # {}
    BY <1>1, <1>3, <1>4, LoopRuns
<1>6. PICK f \in [0..n -> Acc] : f[0] = first /\ \A i \in 1..n : f[i] = G[<<i, f[i - 1]>>]
    BY <1>5 DEF Runs
<1>7. ASSUME NEW i \in 1..n PROVE f[i] = BarStep(f[i - 1], fresh[i], at)
    <2>1. f[i - 1] \in Acc
        BY <1>1
    <2>2. G[<<i, f[i - 1]>>] = BarStep(f[i - 1], fresh[i], at)
        BY <2>1 DEF G
    <2>3. QED
        BY <1>6, <2>2
<1>8. f = [i \in 0..n |-> IF i = 0 THEN first ELSE BarStep(f[i - 1], fresh[i], at)]
    <2>1. \A i \in 0..n : i # 0 => i \in 1..n
        BY <1>1
    <2>2. f = [i \in 0..n |-> f[i]]
        OBVIOUS
    <2>3. QED
        BY <1>6, <1>7, <2>1, <2>2
<1>9. F = [i \in 0..n |-> IF i = 0 THEN first ELSE BarStep(F[i - 1], fresh[i], at)]
    BY <1>8
<1> HIDE DEF F
<1>10. F[0] = first /\ \A i \in 1..n : F[i] = BarStep(F[i - 1], fresh[i], at)
    BY <1>1, <1>9
<1>11. F \in [0..n -> Acc]
    <2> DEFINE S == {i \in 0..n : F[i] \in Acc}
    <2>1. 0 \in S
        BY <1>1, <1>4, <1>10
    <2>2. ASSUME NEW i \in 1..n, i - 1 \in S PROVE i \in S
        <3>1. F[i - 1] \in Acc /\ fresh[i] \in Candle /\ i \in 0..n
            BY <1>1, <2>2
        <3>2. BarStep(F[i - 1], fresh[i], at) \in Acc
            BY <3>1, BarStepType
        <3>3. QED
            BY <1>10, <3>1, <3>2
    <2>3. \A i \in 0..n : i \in S
        BY <1>1, <2>1, <2>2, AlongLoop
    <2>4. QED
        BY <1>9, <2>3
<1>12. QED
    BY <1>2, <1>10, <1>11 DEF n, first, RunOfBars

\* After the bars of a tick the watermark is on one of them, on the last one unless the
\* plan is finished, or where it was when there was none.
LEMMA PlanType ==
    ASSUME rules \in Plans, NEW st \in States, NEW fresh \in Seq(Candle), NEW at \in Nat,
           st.phase # "done", \A i \in 1..Len(fresh) : fresh[i].n = st.watermark + i
    PROVE  LET next == EvaluatePlan(st, fresh, at) IN
           /\ next \in Acc
           /\ next.st.watermark \in st.watermark..(st.watermark + Len(fresh))
           /\ next.st.phase # "done" => next.st.watermark = st.watermark + Len(fresh)
<1>0. Len(fresh) \in Nat /\ \A i \in 1..Len(fresh) : fresh[i] \in Candle
    OBVIOUS
<1> DEFINE n == Len(fresh)
           first == [st |-> st, fires |-> <<>>]
<1>1. PICK f : RunOfBars(f, st, fresh, at)
    BY BarsRun
<1>2. /\ f \in [0..n -> Acc] /\ f[0] = first /\ f[n] = EvaluatePlan(st, fresh, at)
      /\ \A i \in 1..n : f[i] = BarStep(f[i - 1], fresh[i], at)
    BY <1>1 DEF RunOfBars
<1>3. n \in Nat /\ \A i \in 1..n : fresh[i] \in Candle
    BY <1>0
<1>4. st.watermark \in Nat /\ first.st = st
    BY CatchUpAssumption DEF States
<1> HIDE DEF n, first
<1> DEFINE Right(i) == /\ f[i].st.watermark \in st.watermark..(st.watermark + i)
                       /\ f[i].st.phase # "done" => f[i].st.watermark = st.watermark + i
           S == {i \in 0..n : Right(i)}
<1>5. 0 \in S
    BY <1>2, <1>3, <1>4
<1>6. ASSUME NEW i \in 1..n, i - 1 \in S PROVE i \in S
    <2>1. f[i - 1] \in Acc /\ i \in 0..n /\ Right(i - 1)
        BY <1>2, <1>3, <1>6
    <2>2. /\ f[i - 1].st.phase = "done" => f[i] = f[i - 1]
          /\ f[i - 1].st.phase # "done" => f[i].st.watermark = st.watermark + i
        BY <1>2, <1>3, <2>1, BarStepType DEF n
    <2>3. Right(i)
        BY <1>3, <1>4, <2>1, <2>2
    <2>4. QED
        BY <2>1, <2>3
<1>7. \A i \in 0..n : i \in S
    BY <1>3, <1>5, <1>6, AlongLoop
<1>8. n \in 0..n /\ f[n] \in Acc
    BY <1>2, <1>3
<1>9. Right(n)
    BY <1>7, <1>8
<1>10. QED
    BY <1>2, <1>8, <1>9 DEF n

(* The bars a tick may be given, and an engine that has seen some of them.  *)
Market(closed) ==
    /\ closed \in Seq(BareCandle)
    /\ Len(closed) \in 1..MaxBars
    /\ \A k \in 1..Len(closed) : closed[k].n = k

Fresh(engine, closed) == SubSeq(closed, engine.st.watermark + 1, Len(closed))

\* The bars that are fresh to an engine.
LEMMA FreshBars ==
    ASSUME NEW closed, Market(closed), NEW engine, engine.st.watermark \in 1..Len(closed)
    PROVE  /\ Fresh(engine, closed) \in Seq(BareCandle)
           /\ Len(Fresh(engine, closed)) = Len(closed) - engine.st.watermark
           /\ \A i \in 1..Len(Fresh(engine, closed)) :
                 /\ Fresh(engine, closed)[i] = closed[engine.st.watermark + i]
                 /\ Fresh(engine, closed)[i].n = engine.st.watermark + i
           /\ closed[Len(closed)] \in Candle
<1> DEFINE w == engine.st.watermark
           m == Len(closed)
<1>1. /\ m \in Nat /\ w \in 1..m /\ closed \in Seq(BareCandle) /\ closed \in Seq(Candle)
      /\ \A k \in 1..m : closed[k].n = k
    BY BareIsCandle DEF Market
<1> HIDE DEF w, m
<1>2. SubSeq(closed, w + 1, m) \in Seq(BareCandle) /\ Len(SubSeq(closed, w + 1, m)) = m - w
    BY <1>1 DEF m
<1>3. \A i \in 1..(m - w) : SubSeq(closed, w + 1, m)[i] = closed[w + i]
    BY <1>1 DEF m
<1>4. \A i \in 1..(m - w) : closed[w + i].n = w + i
    BY <1>1
<1>5. closed[m] \in Candle
    BY <1>1 DEF m
<1>6. QED
    BY <1>2, <1>3, <1>4, <1>5 DEF Fresh, w, m

\* The window of a tick is made of bars of the market, and begins no later than the
\* first bar that is fresh, nor than the bar before the anchor of any line.
LEMMA WindowBars ==
    ASSUME rules \in Plans, NEW closed, Market(closed),
           NEW engine, engine.st.watermark \in 1..Len(closed), Fresh(engine, closed) # <<>>
    PROVE  LET window == DetectorWindow(closed, Fresh(engine, closed)) IN
           /\ window \in Seq(BareCandle)
           /\ window # <<>> /\ window[1].n \in 1..(engine.st.watermark + 1)
           /\ Len(window) = Len(closed) + 1 - window[1].n
           /\ \A i \in DOMAIN rules : rules[i].anchor # NoBar =>
                 window[1].n <= Higher(1, rules[i].anchor - 1)
<1> DEFINE fresh == Fresh(engine, closed)
           first == fresh[1].n
           asked == {first}
                    \cup {first - Lookback : i \in
                             {j \in DOMAIN rules : rules[j].kind = "enter" /\ rules[j].on = "signal"}}
                    \cup {rules[i].anchor - 1 : i \in {j \in DOMAIN rules : rules[j].anchor # NoBar}}
           starts == {Higher(1, n) : n \in asked}
           start == CHOOSE n \in starts : \A m \in starts : n <= m
           m == Len(closed)
           w == engine.st.watermark
<1>1. /\ m \in Nat /\ w \in 1..m /\ closed \in Seq(BareCandle)
      /\ \A k \in 1..m : closed[k].n = k
    BY DEF Market
<1>2. first = w + 1 /\ w + 1 \in 1..m
    BY <1>1, FreshBars
<1>3. \A i \in DOMAIN rules : rules[i].anchor \in Nat
    <2>1. \A i \in DOMAIN rules : rules[i] \in Rule
        BY RuleType
    <2>2. QED
        BY <2>1 DEF Rule
<1>4. DetectorWindow(closed, fresh) = SubSeq(closed, start, m)
    BY DEF DetectorWindow
<1> HIDE DEF fresh, m, w, first
<1>5. asked \subseteq Int
    BY <1>1, <1>2, <1>3, CatchUpAssumption
<1>6. first \in asked /\ \A i \in DOMAIN rules : rules[i].anchor # NoBar => rules[i].anchor - 1 \in asked
    OBVIOUS
<1> HIDE DEF asked
<1>7. Higher(1, first) = w + 1
    BY <1>1, <1>2 DEF Higher
<1>8. starts \subseteq Nat \ {0} /\ w + 1 \in starts
    BY <1>5, <1>6, <1>7 DEF Higher
<1>9. \A i \in DOMAIN rules : rules[i].anchor # NoBar => Higher(1, rules[i].anchor - 1) \in starts
    BY <1>6
<1> HIDE DEF starts
<1>10. PICK n \in starts : \A k \in starts : n <= k
    BY <1>8, LeastOf
<1>11. start \in starts /\ \A k \in starts : start <= k
    BY <1>10
<1> HIDE DEF start
<1>12. start \in 1..(w + 1) /\ start <= m
    BY <1>1, <1>2, <1>8, <1>11
<1> DEFINE window == SubSeq(closed, start, m)
<1>13. window \in Seq(BareCandle) /\ Len(window) = m + 1 - start
    BY <1>1, <1>12 DEF m
<1>14. window[1] = closed[start]
    BY <1>1, <1>12 DEF m
<1>15. window[1].n = start /\ window # <<>>
    <2>1. start \in 1..m
        BY <1>1, <1>12
    <2>2. closed[start].n = start
        BY <1>1, <2>1
    <2> HIDE DEF window
    <2>3. window # <<>>
        BY <1>1, <1>13, <2>1
    <2>4. QED
        BY <1>14, <2>2, <2>3
<1> HIDE DEF window
<1>16. \A i \in DOMAIN rules : rules[i].anchor # NoBar => start <= Higher(1, rules[i].anchor - 1)
    BY <1>9, <1>11
<1>17. DetectorWindow(closed, fresh) = window
    BY <1>4 DEF window
<1>18. QED
    BY <1>12, <1>13, <1>15, <1>16, <1>17 DEF fresh, m, w

(* The bars a tick evaluates: the fresh ones, read in the window of the tick. *)
Seen(engine, closed) ==
    InWindow(Fresh(engine, closed), DetectorWindow(closed, Fresh(engine, closed)))

\* Reading the fresh bars in a window leaves them the bars they were.
LEMMA SeenBars ==
    ASSUME rules \in Plans, NEW closed, Market(closed),
           NEW engine, engine.st.watermark \in 1..Len(closed), Fresh(engine, closed) # <<>>
    PROVE  LET fresh == Fresh(engine, closed)
               seen == Seen(engine, closed)
           IN  /\ seen \in Seq(Candle) /\ Len(seen) = Len(fresh)
               /\ \A i \in 1..Len(seen) :
                     /\ seen[i] = [fresh[i] EXCEPT !.win =
                                      Reading(DetectorWindow(closed, Fresh(engine, closed)))]
                     /\ seen[i].n = fresh[i].n
<1> DEFINE fresh == Fresh(engine, closed)
           seen == Seen(engine, closed)
           read == Reading(DetectorWindow(closed, Fresh(engine, closed)))
<1>1. fresh \in Seq(BareCandle) /\ Len(fresh) \in Nat /\ DOMAIN fresh = 1..Len(fresh)
    BY FreshBars
<1>2. read \in Windows
    BY WindowBars DEF Windows
<1>3. seen = [i \in DOMAIN fresh |-> [fresh[i] EXCEPT !.win = read]]
    BY DEF Seen, InWindow
<1> HIDE DEF fresh, read, seen
<1>4. \A i \in 1..Len(fresh) : fresh[i] \in BareCandle
    BY <1>1
<1>5. \A b \in BareCandle : [b EXCEPT !.win = read] \in Candle /\ [b EXCEPT !.win = read].n = b.n
    BY <1>2 DEF BareCandle, Candle
<1>6. seen = [i \in 1..Len(fresh) |-> [fresh[i] EXCEPT !.win = read]]
    BY <1>1, <1>3
<1>7. seen \in Seq(Candle) /\ Len(seen) = Len(fresh)
    <2> DEFINE val(i) == [fresh[i] EXCEPT !.win = read]
    <2>1. \A i \in 1..Len(fresh) : val(i) \in Candle
        BY <1>4, <1>5
    <2>2. seen = [i \in 1..Len(fresh) |-> val(i)]
        BY <1>6
    <2> HIDE DEF val
    <2>3. QED
        BY <1>1, <2>1, <2>2
<1>8. \A i \in 1..Len(seen) : seen[i] = [fresh[i] EXCEPT !.win = read] /\ seen[i].n = fresh[i].n
    BY <1>4, <1>5, <1>6, <1>7
<1>9. QED
    BY <1>7, <1>8 DEF fresh, read, seen

\* A tick keeps an engine well typed; unless it finished the plan it leaves nothing fresh.
LEMMA TickType ==
    ASSUME rules \in Plans, NEW closed, Market(closed), NEW at \in Nat,
           NEW engine \in Acc, engine.st.watermark \in 1..Len(closed)
    PROVE  LET next == Tick(engine, closed, at) IN
           /\ next \in Acc /\ next.st.watermark \in 1..Len(closed)
           /\ next.st.phase # "done" => next.st.watermark = Len(closed)
<1> DEFINE fresh == Fresh(engine, closed)
           seen == Seen(engine, closed)
           w == engine.st.watermark
           last == closed[Len(closed)]
           result == IF fresh = <<>> THEN EvaluateControlsOnly(engine.st, last, at)
                     ELSE EvaluatePlan(engine.st, seen, at)
           next == [st |-> result.st, fires |-> engine.fires \o result.fires]
<1>1. /\ fresh \in Seq(BareCandle) /\ last \in Candle
      /\ Len(fresh) = Len(closed) - w
      /\ \A i \in 1..Len(fresh) : fresh[i].n = w + i
    BY FreshBars
<1>2. fresh # <<>> => /\ seen \in Seq(Candle) /\ Len(seen) = Len(fresh)
                      /\ \A i \in 1..Len(seen) : seen[i].n = w + i
    BY <1>1, SeenBars
<1>3. Tick(engine, closed, at) = IF engine.st.phase = "done" THEN engine ELSE next
    BY DEF Tick, Fresh, Seen
<1>4. engine.st \in States /\ engine.fires \in Seq(Fire)
    BY DEF Acc
<1>5. Len(closed) \in Nat /\ w \in 1..Len(closed)
    BY DEF Market
<1> HIDE DEF fresh, seen, last
<1>6. CASE engine.st.phase = "done"
    BY <1>3, <1>6
<1>7. CASE engine.st.phase # "done"
    <2>1. /\ result \in Acc /\ result.st.watermark \in 1..Len(closed)
          /\ result.st.phase # "done" => result.st.watermark = Len(closed)
        <3>1. CASE fresh = <<>>
            <4> DEFINE first == [st |-> engine.st, fires |-> <<>>]
            <4>1. first \in Acc /\ first.st = engine.st
                BY <1>4 DEF Acc
            <4> HIDE DEF first
            <4>2. Controls(first, last, at) \in Acc /\ Controlled(first, Controls(first, last, at), last)
                BY <1>1, <4>1, ControlsDo
            <4>3. Controls(first, last, at).st.watermark = w
                BY <1>4, <4>1, <4>2 DEF Controlled, States
            <4>4. w = Len(closed)
                BY <1>1, <1>5, <3>1
            <4>5. result = Controls(first, last, at)
                BY <3>1 DEF EvaluateControlsOnly, first
            <4>6. QED
                BY <1>5, <4>2, <4>3, <4>4, <4>5
        <3>2. CASE fresh # <<>>
            <4>1. /\ EvaluatePlan(engine.st, seen, at) \in Acc
                  /\ EvaluatePlan(engine.st, seen, at).st.watermark \in w..(w + Len(seen))
                  /\ EvaluatePlan(engine.st, seen, at).st.phase # "done" =>
                        EvaluatePlan(engine.st, seen, at).st.watermark = w + Len(seen)
                BY <1>4, <1>7, <1>2, <3>2, PlanType
            <4> DEFINE plan == EvaluatePlan(engine.st, seen, at)
            <4>8. result = plan
                BY <3>2
            <4> HIDE DEF plan, result, next, w
            <4>9. w + Len(seen) = Len(closed)
                <5>1. Len(seen) = Len(closed) - w
                    BY <1>1, <1>2, <3>2
                <5>2. QED
                    BY <1>5, <5>1
            <4>2. result = plan /\ w + Len(seen) = Len(closed)
                BY <4>8, <4>9
            <4>3. result = plan /\ plan \in Acc
                BY <4>1, <4>2 DEF plan
            <4>4. plan.st.watermark \in w..Len(closed)
                BY <4>1, <4>2 DEF plan
            <4>5. plan.st.phase # "done" => plan.st.watermark = Len(closed)
                BY <4>1, <4>2 DEF plan
            <4>6. plan.st.watermark \in 1..Len(closed)
                BY <1>5, <4>4
            <4>7. QED
                BY <4>3, <4>5, <4>6
        <3>3. QED
            BY <3>1, <3>2
    <2> HIDE DEF result
    <2>2. result.st \in States /\ result.fires \in Seq(Fire)
        BY <2>1 DEF Acc
    <2>3. next \in Acc /\ next.st = result.st
        BY <1>4, <2>2 DEF Acc
    <2>4. QED
        BY <1>3, <1>7, <2>1, <2>3
<1>8. QED
    BY <1>6, <1>7


-----------------------------------------------------------------------------
(* The type invariant.                                                      *)

MarketType ==
    /\ rules \in Plans
    /\ now \in Span..(MaxBars * Span)
    /\ Len(bars) = now \div Span
    /\ Market(bars)

EngineType(engine) == engine \in Acc /\ engine.st.watermark \in 1..Len(bars)

TypeInv == MarketType /\ EngineType(prompt) /\ EngineType(late)

\* The plan state seeded on the first bar.
LEMMA SeedDoes ==
    ASSUME rules \in Plans, Market(bars), Len(bars) = 1
    PROVE  LET st == SeedPlanState(bars) IN
           /\ st \in States /\ st.watermark = 1
           /\ st.phase = InitialPhase /\ st.fired = {} /\ ~st.blocked
           /\ st.breakAt = NoBar /\ st.retestAt = NoBar
           /\ \A r \in PlanRules : UsesClose(r) =>
                 st.origin[r.id] = IF ArmedAt < Closes(bars[1]) THEN bars[1].o ELSE NoPrice
<1> DEFINE org == [id \in RuleIds |-> IF id \in CloseRules /\ ArmingBars(bars) # {}
                       THEN bars[CHOOSE i \in ArmingBars(bars) : TRUE].o ELSE NoPrice]
           lst == [id \in RuleIds |-> IF id \in CloseRules THEN bars[Len(bars)].c ELSE NoPrice]
           st == [phase |-> InitialPhase, watermark |-> bars[Len(bars)].n, fired |-> {},
                  blocked |-> FALSE, news |-> {}, breakAt |-> NoBar, retestAt |-> NoBar,
                  origin |-> org, last |-> lst]
<1>1. bars # <<>> /\ DOMAIN bars = {1} /\ bars[1] \in Candle /\ bars[1].n = 1 /\ Len(bars) = 1
    <2>1. bars \in Seq(Candle) /\ bars[1].n = 1
        BY BareIsCandle DEF Market
    <2>2. DOMAIN bars = 1..1
        BY <2>1
    <2>3. 1..1 = {1}
        OBVIOUS
    <2>4. bars # <<>>
        BY <2>1
    <2>5. QED
        BY <2>1, <2>2, <2>3, <2>4
<1>2. SeedPlanState(bars) = st
    BY <1>1 DEF SeedPlanState, FreshState
<1>3. ArmingBars(bars) = IF ArmedAt < Closes(bars[1]) THEN {1} ELSE {}
    BY <1>1, CatchUpAssumption DEF ArmingBars, Opens
<1>4. bars[1].o \in Int /\ bars[1].c \in Int /\ NoPrice \in Int
    BY <1>1 DEF Candle, NoPrice
<1>5. \A r \in PlanRules : UsesClose(r) => r.id \in RuleIds /\ r.id \in CloseRules
    BY RuleType DEF CloseRules, PlanRules
<1>6. \A i \in ArmingBars(bars) : i = 1
    BY <1>3
<1>7. ArmingBars(bars) # {} => (CHOOSE i \in ArmingBars(bars) : TRUE) = 1
    BY <1>6
<1>8. org \in [RuleIds -> Int]
    BY <1>1, <1>4, <1>7
<1>9. lst \in [RuleIds -> Int]
    BY <1>1, <1>4
<1>10. \A r \in PlanRules : UsesClose(r) =>
           org[r.id] = IF ArmedAt < Closes(bars[1]) THEN bars[1].o ELSE NoPrice
    BY <1>1, <1>3, <1>5, <1>7
<1> HIDE DEF org, lst
<1>11. InitialPhase \in {"awaitBreak", "awaitEntry"}
    BY DEF InitialPhase
<1>12. /\ st \in States /\ st.watermark = 1 /\ st.phase = InitialPhase
       /\ st.fired = {} /\ ~st.blocked
       /\ st.breakAt = NoBar /\ st.retestAt = NoBar /\ st.origin = org
    BY <1>1, <1>8, <1>9, <1>11, CatchUpAssumption DEF States, NoBar
<1> HIDE DEF st
<1>13. QED
    BY <1>2, <1>10, <1>12

\* A bar the market closes is a candle.
LEMMA BarIsCandle ==
    ASSUME NEW shape \in Shapes, NEW n \in 1..MaxBars
    PROVE  BarOf(shape, n) \in BareCandle /\ BarOf(shape, n).n = n
BY CatchUpAssumption DEF BarOf, BareCandle

\* The market after an instant has passed: the bars before it are as they were.
LEMMA ElapseMarket ==
    ASSUME MarketType, Elapse
    PROVE  /\ MarketType'
           /\ Len(bars) <= Len(bars')
           /\ \A k \in 1..Len(bars) : bars'[k] = bars[k]
<1>1. /\ now \in Nat /\ now \in Span..(MaxBars * Span) /\ now < MaxBars * Span /\ now' = now + 1
      /\ Span \in Nat \ {0} /\ MaxBars \in Nat \ {0}
    BY CatchUpAssumption DEF MarketType, Elapse
<1>2. /\ Len(bars) = now \div Span /\ Len(bars) \in 1..MaxBars /\ bars \in Seq(BareCandle)
      /\ \A k \in 1..Len(bars) : bars[k].n = k
    BY DEF MarketType, Market
<1>3. rules' \in Plans /\ now' \in Span..(MaxBars * Span)
    BY <1>1 DEF MarketType, Elapse
<1>4. CASE (now + 1) % Span = 0
    <2>1. PICK shape \in Shapes : bars' = Append(bars, BarOf(shape, (now + 1) \div Span))
        BY <1>4 DEF Elapse
    <2>2. (now + 1) \div Span = now \div Span + 1
        BY <1>1, <1>4
    <2>3. (now + 1) \div Span <= MaxBars
        <3>1. now + 1 <= MaxBars * Span
            BY <1>1
        <3>2. \A s \in Nat \ {0}, m \in Nat, t \in Nat : t <= m * s => t \div s <= m
            OBVIOUS
        <3>3. QED
            BY <1>1, <3>1, <3>2
    <2> DEFINE n == (now + 1) \div Span
               b == BarOf(shape, n)
    <2>4. n = Len(bars) + 1 /\ n \in 1..MaxBars
        BY <1>2, <2>2, <2>3
    <2> HIDE DEF n
    <2>5. b \in BareCandle /\ b.n = n
        BY <2>4, BarIsCandle
    <2>6. bars' = Append(bars, b)
        BY <2>1 DEF n
    <2> HIDE DEF b
    <2>7. /\ bars' \in Seq(BareCandle) /\ Len(bars') = n /\ bars'[n] = b
          /\ \A k \in 1..Len(bars) : bars'[k] = bars[k]
        BY <1>2, <2>4, <2>5, <2>6
    <2>8. ASSUME NEW k \in 1..Len(bars') PROVE bars'[k].n = k
        <3>1. k \in 1..Len(bars) \/ k = n
            BY <1>2, <2>4, <2>7
        <3>2. QED
            BY <1>2, <2>5, <2>7, <3>1
    <2>9. Market(bars')
        BY <2>4, <2>7, <2>8 DEF Market
    <2>10. Len(bars') = now' \div Span
        BY <1>1, <2>7 DEF n
    <2>11. MarketType'
        BY <1>3, <2>9, <2>10 DEF MarketType, Market
    <2>12. QED
        BY <1>2, <2>4, <2>7, <2>11
<1>5. CASE (now + 1) % Span # 0
    <2>1. bars' = bars
        BY <1>5 DEF Elapse
    <2>2. (now + 1) \div Span = now \div Span
        BY <1>1, <1>5
    <2>3. MarketType'
        BY <1>1, <1>2, <1>3, <2>1, <2>2 DEF MarketType, Market
    <2>4. QED
        BY <1>2, <2>1, <2>3
<1>6. QED
    BY <1>4, <1>5

\* The types are those of the plan and do not move while the plan does not.
LEMMA SameTypes ==
    ASSUME UNCHANGED rules
    PROVE  Acc' = Acc /\ States' = States /\ PlanRules' = PlanRules
BY DEF Acc, States, Fire, RuleIds, NewsIds, PlanRules

\* An engine that ticks stays an engine.
LEMMA TickEngine ==
    ASSUME rules \in Plans, NEW closed, Market(closed), NEW at \in Nat,
           NEW engine \in Acc, engine.st.watermark \in 1..Len(closed)
    PROVE  /\ Tick(engine, closed, at) \in Acc
           /\ Tick(engine, closed, at).st.watermark \in 1..Len(closed)
BY TickType

\* The plans of the model start well typed.
LEMMA InitTypes ==
    ASSUME Init
    PROVE  TypeInv
<1>1. PICK shape \in Shapes : bars = <<BarOf(shape, 1)>>
    BY DEF Init
<1>2. 1 \in 1..MaxBars /\ Span \in Nat \ {0} /\ MaxBars \in Nat \ {0}
    BY CatchUpAssumption
<1> DEFINE b == BarOf(shape, 1)
<1>3. b \in BareCandle /\ b.n = 1
    BY <1>2, BarIsCandle
<1> HIDE DEF b
<1>4. bars = <<b>>
    BY <1>1 DEF b
<1>5. Market(bars) /\ Len(bars) = 1
    BY <1>2, <1>3, <1>4 DEF Market
<1>6. Span <= MaxBars * Span /\ Span \div Span = 1
    BY <1>2
<1>7. MarketType
    BY <1>2, <1>5, <1>6 DEF MarketType, Init
<1>8. SeedPlanState(bars) \in States /\ SeedPlanState(bars).watermark = 1
    BY <1>5, <1>7, SeedDoes DEF MarketType
<1> DEFINE st == SeedPlanState(bars)
<1>9. prompt = [st |-> st, fires |-> <<>>] /\ late = prompt
    BY DEF Init, Seeded
<1> HIDE DEF st
<1>10. EngineType(prompt)
    BY <1>5, <1>8, <1>9 DEF EngineType, Acc, st
<1>11. QED
    BY <1>7, <1>9, <1>10 DEF TypeInv

\* Every step keeps the types.
LEMMA NextTypes ==
    ASSUME TypeInv, [Next]_vars
    PROVE  TypeInv'
<1>1. CASE Elapse
    <2>1. MarketType' /\ Len(bars) <= Len(bars')
        BY <1>1, ElapseMarket DEF TypeInv
    <2>2. rules \in Plans /\ UNCHANGED rules /\ Market(bars') /\ now' \in Nat
        BY <1>1, <2>1, CatchUpAssumption DEF MarketType, Elapse, TypeInv, Market
    <2>3. Len(bars) \in Nat /\ Len(bars') \in Nat
        BY <2>1 DEF TypeInv, MarketType, Market
    <2>4. /\ prompt \in Acc /\ prompt.st.watermark \in 1..Len(bars')
          /\ late \in Acc /\ late.st.watermark \in 1..Len(bars')
        BY <2>1, <2>3 DEF TypeInv, EngineType
    <2>5. prompt' = Tick(prompt, bars', now') /\ late' = late
        BY <1>1 DEF Elapse
    <2>6. prompt' \in Acc /\ prompt'.st.watermark \in 1..Len(bars')
        BY <2>2, <2>4, <2>5, TickEngine
    <2>7. QED
        BY <2>1, <2>2, <2>4, <2>5, <2>6, SameTypes DEF TypeInv, EngineType
<1>2. CASE LateTick
    <2>1. /\ rules \in Plans /\ Market(bars) /\ now \in Nat
          /\ late \in Acc /\ late.st.watermark \in 1..Len(bars)
        BY CatchUpAssumption DEF TypeInv, MarketType, EngineType
    <2>2. late' = Tick(late, bars, now) /\ UNCHANGED <<rules, now, bars, prompt>>
        BY <1>2 DEF LateTick
    <2>3. late' \in Acc /\ late'.st.watermark \in 1..Len(bars)
        BY <2>1, <2>2, TickEngine
    <2>4. QED
        BY <2>2, <2>3, SameTypes DEF TypeInv, EngineType, MarketType, Market
<1>3. CASE UNCHANGED vars
    BY <1>3, SameTypes DEF vars, TypeInv, EngineType, MarketType, Market
<1>4. QED
    BY <1>1, <1>2, <1>3 DEF Next

\* The types hold in every state.
LEMMA TypesHold == Spec => []TypeInv
<1>1. Init => TypeInv
    BY InitTypes
<1>2. TypeInv /\ [Next]_vars => TypeInv'
    BY NextTypes
<1>3. QED
    BY <1>1, <1>2, PTL DEF Spec

\* The shape of the state, whatever the plan and the bars: the instant stays in the
\* horizon, a bar has closed per whole span, both engines hold a plan state.
THEOREM CatchUpTypeCorrect == Spec => []TypeOK
<1>1. TypeInv => TypeOK
    BY DEF TypeInv, MarketType, EngineType, Acc, TypeOK
<1>2. QED
    BY <1>1, TypesHold, PTL
=============================================================================
