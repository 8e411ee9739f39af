--------------------- MODULE PlanCatchUpPrompt_proofs ----------------------
(***************************************************************************)
(* The promise of the batch evaluation, for every plan, every bar and      *)
(* every delay: two ticks take the late engine where the prompt one is,    *)
(* and the same rules fire on the way, each as often (CatchUpIsPrompt).    *)
(*                                                                         *)
(* What a tick does depends on the plan state alone, never on what was     *)
(* reported before it; and the controls of two clocks, run one after the   *)
(* other, do what those of the later clock do at once.  So the bars that   *)
(* the prompt engine folds one by one, with controls in between, and the   *)
(* bars that the late one folds together end in the same state.            *)
(*                                                                         *)
(* The clocks evaluate a bar against different windows.  A plan that is    *)
(* WindowFree reads them alike, so both clocks may be thought to read one  *)
(* tape, on which every bar has the same window (TapeOf, FreshOnTape).     *)
(***************************************************************************)
EXTENDS PlanCatchUp_proofs, FiniteSetTheorems, FunctionTheorems

-----------------------------------------------------------------------------
(* How often each rule was reported.                                        *)

Places(fires, id) == {i \in DOMAIN fires : fires[i].id = id}

Tally(fires) == [id \in RuleIds |-> Cardinality(Places(fires, id))]

\* The places of a rule in the reports are finitely many.
LEMMA PlacesFinite ==
    ASSUME NEW fires \in Seq(Fire), NEW id
    PROVE  IsFiniteSet(Places(fires, id)) /\ Cardinality(Places(fires, id)) \in Nat
<1>1. DOMAIN fires = 1..Len(fires) /\ Len(fires) \in Nat
    OBVIOUS
<1>2. IsFiniteSet(1..Len(fires))
    BY <1>1, FS_Interval
<1>3. Places(fires, id) \in SUBSET (1..Len(fires))
    BY <1>1 DEF Places
<1>4. IsFiniteSet(Places(fires, id))
    BY <1>2, <1>3, FS_Subset
<1>5. QED
    BY <1>4, FS_CardinalityType

\* A tally is a count of every rule.
LEMMA TallyType ==
    ASSUME NEW fires \in Seq(Fire)
    PROVE  Tally(fires) \in [RuleIds -> Nat]
BY PlacesFinite DEF Tally

\* A report appended counts once, for its rule.
LEMMA TallyAppended ==
    ASSUME NEW fires \in Seq(Fire), NEW e \in Fire, NEW id \in RuleIds
    PROVE  Tally(Append(fires, e))[id] = Tally(fires)[id] + (IF e.id = id THEN 1 ELSE 0)
<1> DEFINE n == Len(fires) + 1
           more == Append(fires, e)
<1>1. /\ DOMAIN more = DOMAIN fires \cup {n} /\ n \notin DOMAIN fires
      /\ more[n] = e /\ \A i \in DOMAIN fires : more[i] = fires[i]
    OBVIOUS
<1> HIDE DEF more, n
<1>2. Places(more, id) = IF e.id = id THEN Places(fires, id) \cup {n} ELSE Places(fires, id)
    BY <1>1 DEF Places
<1>3. n \notin Places(fires, id)
    BY <1>1 DEF Places
<1>4. IsFiniteSet(Places(fires, id)) /\ Cardinality(Places(fires, id)) \in Nat
    BY PlacesFinite
<1>5. Cardinality(Places(fires, id) \cup {n}) = Cardinality(Places(fires, id)) + 1
    BY <1>3, <1>4, FS_AddElement
<1>6. Cardinality(Places(more, id)) = Cardinality(Places(fires, id)) + (IF e.id = id THEN 1 ELSE 0)
    BY <1>2, <1>4, <1>5
<1>7. QED
    BY <1>6 DEF Tally, more

\* The tally of reports joined is the sum of theirs.
LEMMA TallyJoined ==
    ASSUME NEW s \in Seq(Fire), NEW t \in Seq(Fire), NEW id \in RuleIds
    PROVE  Tally(s \o t)[id] = Tally(s)[id] + Tally(t)[id]
<1> DEFINE m == Len(s)
           st == s \o t
           P == Places(s, id)
           Q == Places(t, id)
           R == {i \in DOMAIN st : i > m /\ st[i].id = id}
           shift == [j \in Q |-> m + j]
<1>1. /\ m \in Nat /\ DOMAIN s = 1..m /\ DOMAIN t = 1..Len(t) /\ Len(t) \in Nat
      /\ DOMAIN st = 1..(m + Len(t))
      /\ \A i \in 1..m : st[i] = s[i]
      /\ \A j \in 1..Len(t) : st[m + j] = t[j]
    OBVIOUS
<1> HIDE DEF m, st
<1>2. IsFiniteSet(P) /\ IsFiniteSet(Q) /\ Cardinality(P) \in Nat /\ Cardinality(Q) \in Nat
    BY PlacesFinite
<1>3. Places(st, id) = P \cup R
    <2>1. \A i \in 1..(m + Len(t)) : i > m \/ i \in 1..m
        BY <1>1
    <2>2. QED
        BY <1>1, <2>1 DEF Places
<1>4. P \cap R = {}
    BY <1>1 DEF Places
<1>5. \A i \in R : i - m \in Q /\ i = m + (i - m)
    <2>1. SUFFICES ASSUME NEW i \in R PROVE i - m \in Q /\ i = m + (i - m)
        OBVIOUS
    <2>2. i \in 1..(m + Len(t)) /\ i > m /\ st[i].id = id
        BY <1>1
    <2>3. i - m \in 1..Len(t) /\ i = m + (i - m)
        BY <1>1, <2>2
    <2>4. st[i] = t[i - m]
        BY <1>1, <2>3
    <2>5. QED
        BY <1>1, <2>2, <2>3, <2>4 DEF Places
<1>6. \A j \in Q : j \in 1..Len(t) /\ m + j \in R
    BY <1>1 DEF Places
<1>7. shift \in Bijection(Q, R)
    <2>1. shift \in [Q -> R]
        BY <1>6
    <2>2. \A i, j \in Q : shift[i] = shift[j] => i = j
        BY <1>1, <1>6
    <2>3. \A i \in R : \E j \in Q : shift[j] = i
        BY <1>5
    <2> HIDE DEF shift, Q, R
    <2>4. QED
        BY <2>1, <2>2, <2>3 DEF Bijection, Injection, Surjection, IsInjective
<1>8. ExistsBijection(Q, R)
    BY <1>7 DEF ExistsBijection
<1> HIDE DEF shift, Q, R, P
<1>9. IsFiniteSet(R) /\ Cardinality(R) = Cardinality(Q)
    BY <1>2, <1>8, FS_Bijection
<1>10. Cardinality(P \cup R) = Cardinality(P) + Cardinality(R) - Cardinality(P \cap R)
    BY <1>2, <1>9, FS_Union
<1>11. Cardinality(P \cap R) = 0
    BY <1>4, FS_EmptySet
<1>12. Cardinality(P \cup R) = Cardinality(P) + Cardinality(Q)
    BY <1>2, <1>9, <1>10, <1>11
<1>13. QED
    BY <1>3, <1>12 DEF Tally, P, Q, st

-----------------------------------------------------------------------------
(* The controls in closed form.                                             *)

(* The controls, among the first i rules, that have not fired in a state    *)
(* and are due by a clock: the indexes that a pass fires.                   *)
FiredBy(st, clock, i) ==
    {j \in 1..i : /\ rules[j].kind = "control"
                  /\ rules[j].id \notin st.fired
                  /\ rules[j].at <= clock}

IdsAt(J) == {rules[j].id : j \in J}
OnNews(J, w) == {j \in J : w # NoNews /\ rules[j].news = w}

(* A news window is what the last of its controls says.                     *)
OpenAfter(st, J, w) ==
    IF OnNews(J, w) = {} THEN w \in st.news
    ELSE \E j \in OnNews(J, w) : rules[j].opens /\ \A k \in OnNews(J, w) : k <= j

(* From acc to next, the controls at the indexes J fired, each once.        *)
Ran(acc, next, J) ==
    /\ next.st = [acc.st EXCEPT !.fired = acc.st.fired \cup IdsAt(J), !.news = next.st.news]
    /\ \A w \in NewsIds : w \in next.st.news <=> OpenAfter(acc.st, J, w)
    /\ \A id \in RuleIds :
          Tally(next.fires)[id] = Tally(acc.fires)[id] + (IF id \in IdsAt(J) THEN 1 ELSE 0)

\* The indexes of a plan are naturals, and its ids tell them apart.
LEMMA RuleAt ==
    ASSUME rules \in Plans
    PROVE  /\ Len(rules) \in Nat
           /\ \A i \in 1..Len(rules) : /\ rules[i] \in PlanRules /\ rules[i] \in Rule
                                       /\ rules[i].id \in RuleIds /\ rules[i].news \in NewsIds
                                       /\ rules[i].at \in Int /\ rules[i].opens \in BOOLEAN
           /\ \A i, j \in 1..Len(rules) : rules[i].id = rules[j].id => i = j
<1>1. Len(rules) \in Nat /\ DOMAIN rules = 1..Len(rules)
    BY RuleCount
<1>2. \A i \in 1..Len(rules) : rules[i] \in PlanRules
    BY <1>1, RuleType
<1>3. \A i \in 1..Len(rules) : /\ rules[i] \in Rule
                               /\ rules[i].id \in RuleIds /\ rules[i].news \in NewsIds
    BY <1>2, RuleType
<1>4. \A r \in Rule : r.at \in Int /\ r.opens \in BOOLEAN
    BY DEF Rule
<1>5. \A i, j \in 1..Len(rules) : rules[i].id = rules[j].id => i = j
    BY <1>1, RulesWellFormed
<1>6. QED
    BY <1>1, <1>2, <1>3, <1>4, <1>5

\* The visit of a rule by the controls adds its index to those fired, or nothing.
LEMMA ControlStepRan ==
    ASSUME rules \in Plans, NEW acc \in Acc, NEW a \in Acc, NEW bar \in Candle, NEW clock \in Nat,
           NEW i \in 1..Len(rules), Ran(acc, a, FiredBy(acc.st, clock, i - 1))
    PROVE  Ran(acc, ControlStep(a, rules[i], bar, clock), FiredBy(acc.st, clock, i))
<1> DEFINE n == Len(rules)
           r == rules[i]
           J == FiredBy(acc.st, clock, i - 1)
           K == FiredBy(acc.st, clock, i)
           next == ControlStep(a, r, bar, clock)
           idle == r.kind # "control" \/ r.id \in a.st.fired \/ clock < r.at
           windows == IF r.news = NoNews THEN a.st.news
                      ELSE IF r.opens THEN a.st.news \cup {r.news}
                      ELSE a.st.news \ {r.news}
           hit == [st |-> [a.st EXCEPT !.fired = @ \cup {r.id}, !.news = windows],
                   fires |-> Fired(a, r, bar)]
<1>1. /\ n \in Nat /\ i \in 1..n /\ r \in PlanRules /\ r.id \in RuleIds /\ r.news \in NewsIds
      /\ r.at \in Int /\ r.opens \in BOOLEAN
      /\ \A j, k \in 1..n : rules[j].id = rules[k].id => j = k
    BY RuleAt
<1>2. J \subseteq 1..(i - 1) /\ \A j \in J : j \in 1..n /\ j < i /\ j \in Nat
    BY <1>1 DEF FiredBy
<1>3. r.id \notin IdsAt(J)
    BY <1>1, <1>2 DEF IdsAt
<1>4. /\ acc.st \in States /\ a.st \in States /\ a.fires \in Seq(Fire)
      /\ a.st.fired = acc.st.fired \cup IdsAt(J)
    BY DEF Acc, Ran, States
<1>5. K = IF idle THEN J ELSE J \cup {i}
    <2>1. 1..i = (1..(i - 1)) \cup {i}
        BY <1>1
    <2>2. idle <=> ~(r.kind = "control" /\ r.id \notin acc.st.fired /\ r.at <= clock)
        BY <1>1, <1>3, <1>4
    <2>3. QED
        BY <2>1, <2>2 DEF FiredBy
<1>6. CASE idle
    <2>1. next = a
        BY <1>6 DEF ControlStep
    <2>2. QED
        BY <1>5, <1>6, <2>1
<1>7. CASE ~idle
    <2>1. next = hit
        BY <1>7 DEF ControlStep, Latched, Acc
    <2>2. K = J \cup {i}
        BY <1>5, <1>7
    <2>3. IdsAt(K) = IdsAt(J) \cup {r.id}
        BY <2>2 DEF IdsAt
    <2>4. \A w \in NewsIds : w \in windows <=> OpenAfter(acc.st, K, w)
        <3>1. SUFFICES ASSUME NEW w \in NewsIds PROVE w \in windows <=> OpenAfter(acc.st, K, w)
            OBVIOUS
        <3>2. w \in a.st.news <=> OpenAfter(acc.st, J, w)
            BY DEF Ran
        <3>3. CASE w # NoNews /\ r.news = w
            <4>1. OnNews(K, w) = OnNews(J, w) \cup {i}
                BY <2>2, <3>3 DEF OnNews
            <4>2. \A k \in OnNews(K, w) : k <= i /\ (k = i \/ k < i)
                BY <1>1, <1>2, <4>1 DEF OnNews
            <4>3. i \in OnNews(K, w) /\ \A j \in OnNews(K, w) : i <= j => j = i
                BY <1>1, <1>2, <4>1, <4>2 DEF OnNews
            <4>4. OpenAfter(acc.st, K, w) <=> r.opens
                BY <4>2, <4>3 DEF OpenAfter
            <4>5. w \in windows <=> r.opens
                BY <1>1, <3>3
            <4>6. QED
                BY <4>4, <4>5
        <3>4. CASE ~(w # NoNews /\ r.news = w)
            <4>1. OnNews(K, w) = OnNews(J, w)
                BY <2>2, <3>4 DEF OnNews
            <4>2. OpenAfter(acc.st, K, w) <=> OpenAfter(acc.st, J, w)
                BY <4>1 DEF OpenAfter
            <4>3. w \in windows <=> w \in a.st.news
                BY <3>4
            <4>4. QED
                BY <3>2, <4>2, <4>3
        <3>5. QED
            BY <3>3, <3>4
    <2> HIDE DEF windows
    <2>5. /\ a.st = [acc.st EXCEPT !.fired = acc.st.fired \cup IdsAt(J), !.news = a.st.news]
          /\ acc.st.fired \cup IdsAt(K) = a.st.fired \cup {r.id}
        BY <1>4, <2>3 DEF Ran
    <2>6. /\ hit.st.news = windows
          /\ hit.st = [acc.st EXCEPT !.fired = acc.st.fired \cup IdsAt(K), !.news = hit.st.news]
        BY <1>4, <2>5 DEF States
    <2>7. \A id \in RuleIds :
             Tally(hit.fires)[id] = Tally(acc.fires)[id] + (IF id \in IdsAt(K) THEN 1 ELSE 0)
        <3>1. SUFFICES ASSUME NEW id \in RuleIds
                       PROVE  Tally(hit.fires)[id] =
                                 Tally(acc.fires)[id] + (IF id \in IdsAt(K) THEN 1 ELSE 0)
            OBVIOUS
        <3> DEFINE e == [id |-> r.id, bar |-> bar.n]
        <3>2. e \in Fire /\ e.id = r.id
            BY <1>1 DEF Fire, Candle
        <3>3. hit.fires = Append(a.fires, e)
            BY DEF Fired
        <3> HIDE DEF e, hit
        <3>4. Tally(hit.fires)[id] = Tally(a.fires)[id] + (IF r.id = id THEN 1 ELSE 0)
            BY <1>4, <3>2, <3>3, TallyAppended
        <3>5. Tally(a.fires)[id] = Tally(acc.fires)[id] + (IF id \in IdsAt(J) THEN 1 ELSE 0)
            BY DEF Ran
        <3>6. Tally(acc.fires)[id] \in Nat
            BY TallyType DEF Acc
        <3>7. QED
            BY <1>3, <2>3, <3>4, <3>5, <3>6
    <2> HIDE DEF hit
    <2>8. Ran(acc, hit, K)
        BY <2>4, <2>6, <2>7 DEF Ran
    <2>9. QED
        BY <2>1, <2>8
<1>8. QED
    BY <1>6, <1>7

\* Where no control fires nothing changes.
LEMMA RanNowhere ==
    ASSUME NEW acc \in Acc, NEW J, J = {}
    PROVE  Ran(acc, acc, J)
<1>1. \A id : id \notin IdsAt(J)
    BY DEF IdsAt
<1>2. \A w : OnNews(J, w) = {}
    BY DEF OnNews
<1>3. acc.st.fired \cup IdsAt(J) = acc.st.fired
    BY <1>1
<1>4. acc.st = [acc.st EXCEPT !.fired = acc.st.fired \cup IdsAt(J), !.news = acc.st.news]
    BY <1>3 DEF Acc, States
<1>5. \A id \in RuleIds : Tally(acc.fires)[id] \in Nat
    BY TallyType DEF Acc
<1>6. \A w : OpenAfter(acc.st, J, w) <=> w \in acc.st.news
    BY <1>2 DEF OpenAfter
<1>7. QED
    BY <1>1, <1>4, <1>5, <1>6 DEF Ran

\* The controls fire those that are due and have not fired, and nothing else.
LEMMA ControlsRan ==
    ASSUME rules \in Plans, NEW acc \in Acc, NEW bar \in Candle, NEW clock \in Nat
    PROVE  LET next == Controls(acc, bar, clock) IN
           next \in Acc /\ Ran(acc, next, FiredBy(acc.st, clock, Len(rules)))
<1> DEFINE n == Len(rules)
<1>1. PICK f : RunOfControls(f, acc, bar, clock)
    BY ControlsRun
<1>2. /\ f \in [0..n -> Acc] /\ f[0] = acc /\ f[n] = Controls(acc, bar, clock)
      /\ \A i \in 1..n : f[i] = ControlStep(f[i - 1], rules[i], bar, clock)
    BY <1>1 DEF RunOfControls
<1>3. n \in Nat
    BY RuleCount
<1> HIDE DEF n
<1> DEFINE S == {i \in 0..n : Ran(acc, f[i], FiredBy(acc.st, clock, i))}
<1>4. 0 \in S
    <2> DEFINE J == FiredBy(acc.st, clock, 0)
    <2>1. J = {}
        <3>1. 1..0 = {}
            OBVIOUS
        <3>2. QED
            BY <3>1 DEF FiredBy
    <2>2. Ran(acc, acc, J)
        BY <2>1, RanNowhere
    <2>3. QED
        BY <1>2, <1>3, <2>2
<1>5. ASSUME NEW i \in 1..n, i - 1 \in S PROVE i \in S
    <2>1. i - 1 \in 0..n /\ i \in 0..n
        BY <1>3
    <2>2. f[i - 1] \in Acc /\ Ran(acc, f[i - 1], FiredBy(acc.st, clock, i - 1))
        BY <1>2, <1>5, <2>1
    <2>3. Ran(acc, ControlStep(f[i - 1], rules[i], bar, clock), FiredBy(acc.st, clock, i))
        BY <2>2, ControlStepRan DEF n
    <2>4. QED
        BY <1>2, <2>1, <2>3
<1>6. \A i \in 0..n : i \in S
    BY <1>3, <1>4, <1>5, AlongLoop
<1>7. n \in 0..n /\ f[n] \in Acc
    BY <1>2, <1>3
<1>8. Ran(acc, f[n], FiredBy(acc.st, clock, n))
    BY <1>6, <1>7
<1>9. QED
    BY <1>2, <1>7, <1>8 DEF n

-----------------------------------------------------------------------------
(* Two runs that agree: in the state, and in the tallies up to a constant.  *)

Alike(x, y, d) ==
    /\ x.st = y.st
    /\ \A id \in RuleIds : Tally(x.fires)[id] = Tally(y.fires)[id] + d[id]

Margins == [RuleIds -> Int]

NoMargin == [id \in RuleIds |-> 0]

\* The tallies of what a run holds are naturals.
LEMMA Counts ==
    ASSUME NEW fires \in Seq(Fire), NEW id \in RuleIds
    PROVE  Tally(fires)[id] \in Nat
BY TallyType

\* Agreement is symmetric and composes.
LEMMA AlikeAgain ==
    ASSUME NEW x \in Acc, NEW y \in Acc, NEW z \in Acc, NEW d \in Margins,
           Alike(x, y, NoMargin)
    PROVE  /\ Alike(y, x, NoMargin)
           /\ Alike(x, z, d) => Alike(y, z, d)
           /\ Alike(z, x, d) => Alike(z, y, d)
           /\ Alike(y, z, d) => Alike(x, z, d)
           /\ Alike(z, y, d) => Alike(z, x, d)
<1>1. x.fires \in Seq(Fire) /\ y.fires \in Seq(Fire) /\ z.fires \in Seq(Fire)
    BY DEF Acc
<1>2. \A id \in RuleIds : /\ Tally(x.fires)[id] \in Nat /\ Tally(y.fires)[id] \in Nat
                          /\ Tally(z.fires)[id] \in Nat /\ d[id] \in Int /\ NoMargin[id] = 0
    BY <1>1, Counts DEF Margins, NoMargin
<1>3. QED
    BY <1>2 DEF Alike

\* Runs that agree go on agreeing through the controls, whatever bar is reported.
LEMMA ControlsAlike ==
    ASSUME rules \in Plans, NEW x \in Acc, NEW y \in Acc, NEW d \in Margins, Alike(x, y, d),
           NEW b \in Candle, NEW c \in Candle, NEW clock \in Nat
    PROVE  Alike(Controls(x, b, clock), Controls(y, c, clock), d)
<1> DEFINE J == FiredBy(x.st, clock, Len(rules))
           u == Controls(x, b, clock)
           v == Controls(y, c, clock)
<1>1. u \in Acc /\ Ran(x, u, J)
    BY ControlsRan
<1>2. v \in Acc /\ Ran(y, v, J)
    BY ControlsRan DEF Alike
<1> HIDE DEF J, u, v
<1>3. u.st \in States /\ v.st \in States /\ x.st = y.st
    BY <1>1, <1>2 DEF Acc, Alike
<1>4. u.st.news = v.st.news
    <2>1. u.st.news \subseteq NewsIds /\ v.st.news \subseteq NewsIds
        BY <1>3 DEF States
    <2>2. \A w \in NewsIds : w \in u.st.news <=> w \in v.st.news
        BY <1>1, <1>2, <1>3 DEF Ran
    <2>3. QED
        BY <2>1, <2>2
<1>5. u.st = v.st
    BY <1>1, <1>2, <1>3, <1>4 DEF Ran
<1>6. \A id \in RuleIds : Tally(x.fires)[id] \in Nat /\ Tally(y.fires)[id] \in Nat /\ d[id] \in Int
    BY Counts DEF Acc, Margins
<1>7. \A id \in RuleIds : Tally(u.fires)[id] = Tally(v.fires)[id] + d[id]
    BY <1>1, <1>2, <1>6 DEF Ran, Alike
<1>8. QED
    BY <1>5, <1>7 DEF Alike, u, v

\* Where no control is due, or all that are have fired, the controls change nothing.
LEMMA ControlsSettled ==
    ASSUME rules \in Plans, NEW x \in Acc, NEW b \in Candle, NEW clock \in Nat,
           FiredBy(x.st, clock, Len(rules)) = {}
    PROVE  Alike(Controls(x, b, clock), x, NoMargin)
<1> DEFINE J == FiredBy(x.st, clock, Len(rules))
           u == Controls(x, b, clock)
<1>1. u \in Acc /\ Ran(x, u, J) /\ J = {}
    BY ControlsRan
<1>2. Ran(x, x, J)
    BY <1>1, RanNowhere
<1> HIDE DEF J, u
<1>3. u.st \in States /\ x.st \in States
    BY <1>1 DEF Acc
<1>4. u.st.news = x.st.news
    <2>1. u.st.news \subseteq NewsIds /\ x.st.news \subseteq NewsIds
        BY <1>3 DEF States
    <2>2. \A w \in NewsIds : w \in u.st.news <=> w \in x.st.news
        BY <1>1, <1>2 DEF Ran
    <2>3. QED
        BY <2>1, <2>2
<1>5. u.st = x.st
    BY <1>1, <1>2, <1>4 DEF Ran
<1>6. \A id \in RuleIds : /\ Tally(x.fires)[id] \in Nat /\ NoMargin[id] = 0
                          /\ Tally(u.fires)[id] = Tally(x.fires)[id]
    BY <1>1, <1>2, Counts DEF Acc, NoMargin, Ran
<1>7. QED
    BY <1>5, <1>6 DEF Alike, u

\* After the controls of a clock none is left to fire by it, nor by an earlier one.
LEMMA ControlsSettle ==
    ASSUME rules \in Plans, NEW x \in Acc, NEW b \in Candle, NEW clock \in Nat,
           NEW y, Controls(x, b, clock).st.fired \subseteq y.fired
    PROVE  FiredBy(y, clock, Len(rules)) = {}
<1> DEFINE J == FiredBy(x.st, clock, Len(rules))
           u == Controls(x, b, clock)
<1>1. u \in Acc /\ Ran(x, u, J)
    BY ControlsRan
<1>2. u.st.fired = x.st.fired \cup IdsAt(J)
    <2> HIDE DEF u
    <2>1. x.st \in States /\ u.st \in States
        BY <1>1 DEF Acc
    <2>2. QED
        BY <1>1, <2>1 DEF Ran, States
<1>3. QED
    BY <1>2 DEF FiredBy, IdsAt

\* The news of a plan open before they close.
LEMMA NewsOrdered ==
    ASSUME rules \in Plans, NEW i \in 1..Len(rules), NEW j \in 1..Len(rules), i < j,
           rules[i].kind = "control", rules[j].kind = "control",
           rules[i].news = rules[j].news, rules[i].news # NoNews
    PROVE  rules[i].at <= rules[j].at
BY NewsAssumption, RuleCount DEF Plan!NewsInOrder, Plan!NoNews, NoNews

\* The controls of two clocks in turn do what those of the later clock do at once.
LEMMA ControlsCompose ==
    ASSUME rules \in Plans, NEW x \in Acc,
           NEW b \in Candle, NEW c \in Candle, NEW e \in Candle,
           NEW first \in Nat, NEW second \in Nat, first <= second
    PROVE  Alike(Controls(Controls(x, b, first), c, second), Controls(x, e, second), NoMargin)
<1> DEFINE n == Len(rules)
           y == Controls(x, b, first)
           u == Controls(y, c, second)
           v == Controls(x, e, second)
           J == FiredBy(x.st, first, n)
           K == FiredBy(y.st, second, n)
           M == FiredBy(x.st, second, n)
<1>1. y \in Acc /\ Ran(x, y, J)
    BY ControlsRan
<1>2. v \in Acc /\ Ran(x, v, M)
    BY ControlsRan
<1>3. u \in Acc /\ Ran(y, u, K)
    <2> HIDE DEF y
    <2>1. QED
        BY <1>1, ControlsRan
<1> HIDE DEF y, u, v
<1>4. x.st \in States /\ y.st \in States /\ u.st \in States /\ v.st \in States
    BY <1>1, <1>2, <1>3 DEF Acc
<1>5. y.st.fired = x.st.fired \cup IdsAt(J)
    BY <1>1, <1>4 DEF Ran, States
<1>6. /\ n \in Nat /\ \A i \in 1..n : rules[i].at \in Int
      /\ \A i, j \in 1..n : rules[i].id = rules[j].id => i = j
    BY RuleAt
<1>7. \A j \in 1..n : rules[j].id \in IdsAt(J) <=> j \in J
    BY <1>6 DEF IdsAt, FiredBy
<1>8. M = J \cup K
    <2>1. \A i \in J : i \in M
        BY <1>6 DEF FiredBy
    <2>2. \A i \in 1..n : i \in K <=> i \in M /\ i \notin J
        BY <1>5, <1>7 DEF FiredBy
    <2>3. J \subseteq 1..n /\ K \subseteq 1..n /\ M \subseteq 1..n
        BY DEF FiredBy
    <2>4. QED
        BY <2>1, <2>2, <2>3
<1>9. \A i \in K : i \in 1..n /\ ~(rules[i].at <= first) /\ rules[i].kind = "control"
    BY <1>5, <1>7 DEF FiredBy
<1>10. \A i \in J : i \in 1..n /\ rules[i].at <= first /\ rules[i].kind = "control"
    BY DEF FiredBy
<1> HIDE DEF n, J, K, M
<1>11. IdsAt(M) = IdsAt(J) \cup IdsAt(K) /\ IdsAt(J) \cap IdsAt(K) = {}
    <2>1. J \cap K = {}
        BY <1>9, <1>10
    <2>2. QED
        BY <1>6, <1>8, <1>9, <1>10, <2>1 DEF IdsAt
<1>12. \A w \in NewsIds : OpenAfter(y.st, K, w) <=> OpenAfter(x.st, M, w)
    <2>1. SUFFICES ASSUME NEW w \in NewsIds
                   PROVE  OpenAfter(y.st, K, w) <=> OpenAfter(x.st, M, w)
        OBVIOUS
    <2> DEFINE OJ == OnNews(J, w)
               OK == OnNews(K, w)
               OM == OnNews(M, w)
    <2>2. OM = OJ \cup OK
        BY <1>8 DEF OnNews
    <2>3. w \in y.st.news <=> OpenAfter(x.st, J, w)
        BY <1>1 DEF Ran
    <2>4. ASSUME NEW i \in OJ, NEW k \in OK PROVE i < k
        <3>1. /\ i \in 1..n /\ k \in 1..n /\ rules[i].kind = "control" /\ rules[k].kind = "control"
              /\ rules[i].news = w /\ rules[k].news = w /\ w # NoNews
              /\ rules[i].at <= first /\ ~(rules[k].at <= first)
              /\ rules[i].at \in Int /\ rules[k].at \in Int
            BY <1>6, <1>9, <1>10 DEF OnNews
        <3>2. SUFFICES ASSUME k < i PROVE FALSE
            BY <1>6, <3>1
        <3>3. rules[k].at <= rules[i].at
            BY <3>1, <3>2, NewsOrdered DEF n
        <3>4. QED
            BY <3>1, <3>3
    <2>5. OJ \subseteq Nat /\ OK \subseteq Nat
        BY <1>6, <1>9, <1>10 DEF OnNews
    <2>6. CASE OK = {}
        <3>1. OM = OJ
            BY <2>2, <2>6
        <3>2. OpenAfter(y.st, K, w) <=> w \in y.st.news
            BY <2>6 DEF OpenAfter
        <3>3. OpenAfter(x.st, M, w) <=> OpenAfter(x.st, J, w)
            BY <3>1 DEF OpenAfter
        <3>4. QED
            BY <2>3, <3>2, <3>3
    <2>7. CASE OK # {}
        <3> HIDE DEF OJ, OK, OM
        <3>1. /\ OpenAfter(y.st, K, w) <=> \E j \in OK : rules[j].opens /\ \A k \in OK : k <= j
              /\ OpenAfter(x.st, M, w) <=> \E j \in OM : rules[j].opens /\ \A k \in OM : k <= j
            BY <2>2, <2>7 DEF OpenAfter, OK, OM
        <3>2. ASSUME NEW j \in OK, \A k \in OK : k <= j PROVE \A k \in OM : k <= j
            BY <2>2, <2>4, <2>5, <3>2
        <3>3. ASSUME NEW j \in OM, \A k \in OM : k <= j PROVE j \in OK /\ \A k \in OK : k <= j
            <4>1. PICK k \in OK : TRUE
                BY <2>7
            <4>2. k <= j /\ k \in Nat /\ j \in Nat
                BY <2>2, <2>5, <3>3
            <4>3. j \notin OJ
                BY <2>4, <4>2
            <4>4. QED
                BY <2>2, <3>3, <4>3
        <3>4. QED
            BY <2>2, <3>1, <3>2, <3>3
    <2>8. QED
        BY <2>6, <2>7
<1>13. u.st.news = v.st.news
    <2>1. u.st.news \subseteq NewsIds /\ v.st.news \subseteq NewsIds
        BY <1>4 DEF States
    <2>2. \A w \in NewsIds : w \in u.st.news <=> w \in v.st.news
        BY <1>2, <1>3, <1>12 DEF Ran
    <2>3. QED
        BY <2>1, <2>2
<1>14. u.st.fired = v.st.fired
    <2>1. u.st.fired = y.st.fired \cup IdsAt(K)
        BY <1>3, <1>4 DEF Ran, States
    <2>2. v.st.fired = x.st.fired \cup IdsAt(M)
        BY <1>2, <1>4 DEF Ran, States
    <2>3. QED
        BY <1>5, <1>11, <2>1, <2>2
<1>15. u.st = v.st
    <2>1. y.st = [x.st EXCEPT !.fired = y.st.fired, !.news = y.st.news]
        BY <1>1, <1>4 DEF Ran, States
    <2>2. u.st = [y.st EXCEPT !.fired = u.st.fired, !.news = u.st.news]
        BY <1>3, <1>4 DEF Ran, States
    <2>3. v.st = [x.st EXCEPT !.fired = v.st.fired, !.news = v.st.news]
        BY <1>2, <1>4 DEF Ran, States
    <2>4. u.st = [x.st EXCEPT !.fired = u.st.fired, !.news = u.st.news]
        BY <1>4, <2>1, <2>2 DEF States
    <2>5. QED
        BY <1>13, <1>14, <2>3, <2>4
<1>16. \A id \in RuleIds : Tally(u.fires)[id] = Tally(v.fires)[id] + NoMargin[id]
    <2>1. SUFFICES ASSUME NEW id \in RuleIds
                   PROVE  Tally(u.fires)[id] = Tally(v.fires)[id] + NoMargin[id]
        OBVIOUS
    <2>2. Tally(x.fires)[id] \in Nat /\ NoMargin[id] = 0
        BY Counts DEF Acc, NoMargin
    <2>3. /\ Tally(y.fires)[id] = Tally(x.fires)[id] + (IF id \in IdsAt(J) THEN 1 ELSE 0)
          /\ Tally(u.fires)[id] = Tally(y.fires)[id] + (IF id \in IdsAt(K) THEN 1 ELSE 0)
          /\ Tally(v.fires)[id] = Tally(x.fires)[id] + (IF id \in IdsAt(M) THEN 1 ELSE 0)
        BY <1>1, <1>2, <1>3 DEF Ran
    <2>4. QED
        BY <1>11, <2>2, <2>3
<1>17. QED
    BY <1>15, <1>16 DEF Alike, u, v, y

-----------------------------------------------------------------------------
(* Each pass of a bar reads the state alone.  "hit" says whether it reports *)
(* its rule, and "leaves" the state it leaves.                              *)

\* Steps that leave the same state, and report the same rule or nothing, agree.
LEMMA ReportAlike ==
    ASSUME NEW x, NEW y, x.fires \in Seq(Fire), y.fires \in Seq(Fire),
           NEW d \in Margins, Alike(x, y, d),
           NEW r, r.id \in RuleIds, NEW bar \in Candle, NEW hit, NEW u, NEW v, u.st = v.st,
           u.fires = IF hit THEN Fired(x, r, bar) ELSE x.fires,
           v.fires = IF hit THEN Fired(y, r, bar) ELSE y.fires
    PROVE  Alike(u, v, d)
<1> DEFINE e == [id |-> r.id, bar |-> bar.n]
<1>1. e \in Fire
    BY DEF Fire, Candle
<1>2. Fired(x, r, bar) = Append(x.fires, e) /\ Fired(y, r, bar) = Append(y.fires, e)
    BY DEF Fired
<1> HIDE DEF e
<1>3. SUFFICES ASSUME NEW id \in RuleIds
               PROVE  Tally(u.fires)[id] = Tally(v.fires)[id] + d[id]
    BY DEF Alike
<1>4. /\ Tally(x.fires)[id] \in Nat /\ Tally(y.fires)[id] \in Nat /\ d[id] \in Int
      /\ Tally(x.fires)[id] = Tally(y.fires)[id] + d[id]
    BY Counts DEF Alike, Margins
<1>5. CASE hit
    <2>1. /\ Tally(u.fires)[id] = Tally(x.fires)[id] + (IF e.id = id THEN 1 ELSE 0)
          /\ Tally(v.fires)[id] = Tally(y.fires)[id] + (IF e.id = id THEN 1 ELSE 0)
        BY <1>1, <1>2, <1>5, TallyAppended
    <2>2. QED
        BY <1>4, <2>1
<1>6. CASE ~hit
    BY <1>4, <1>6
<1>7. QED
    BY <1>5, <1>6

GuardIdle(st, r) == ~IsGuard(r) \/ r.id \in st.fired \/ ~Armed(r, st)
GuardHit(st, r, bar) == ~GuardIdle(st, r) /\ GuardFires(r, st, bar)

GuardLeaves(st, r, bar) ==
    LET seen == Recorded(st, r, bar)
        latch == [seen EXCEPT !.fired = @ \cup {r.id}]
    IN  IF GuardIdle(st, r) THEN st
        ELSE IF ~GuardFires(r, st, bar) THEN seen
        ELSE IF r.kind = "veto" /\ ~r.retires THEN [latch EXCEPT !.blocked = TRUE]
        ELSE latch

\* The visit of a rule by the guards, by what it reads.
LEMMA GuardStepIs ==
    ASSUME rules \in Plans, NEW acc \in GuardAcc, NEW r \in PlanRules, NEW bar \in Candle
    PROVE  LET next == GuardStep(acc, r, bar) IN
           /\ next.st = GuardLeaves(acc.st, r, bar)
           /\ next.fires = IF GuardHit(acc.st, r, bar) THEN Fired(acc, r, bar) ELSE acc.fires
           /\ next.over = IF GuardHit(acc.st, r, bar) /\ r.kind = "veto" /\ r.retires
                          THEN TRUE ELSE acc.over
<1> DEFINE next == GuardStep(acc, r, bar)
           seen == Recorded(acc.st, r, bar)
           latch == [seen EXCEPT !.fired = @ \cup {r.id}]
           at == [st |-> seen, fires |-> acc.fires, over |-> acc.over]
           fires == GuardFires(r, acc.st, bar)
<1>1. acc.st \in States /\ acc = [st |-> acc.st, fires |-> acc.fires, over |-> acc.over]
    BY DEF GuardAcc
<1>2. CASE GuardIdle(acc.st, r)
    <2>1. next = acc
        BY <1>2 DEF GuardStep, GuardIdle
    <2>2. QED
        BY <1>2, <2>1 DEF GuardLeaves, GuardHit
<1>3. CASE ~GuardIdle(acc.st, r)
    <2>1. seen \in States
        BY <1>1, RecordedType
    <2>2. GuardHit(acc.st, r, bar) <=> fires
        BY <1>3 DEF GuardHit
    <2>3. /\ ~fires => GuardLeaves(acc.st, r, bar) = seen
          /\ fires => GuardLeaves(acc.st, r, bar) =
                IF r.kind = "veto" /\ ~r.retires THEN [latch EXCEPT !.blocked = TRUE] ELSE latch
        BY <1>3 DEF GuardLeaves
    <2>4. next = IF ~fires THEN [acc EXCEPT !.st = seen]
                 ELSE LET hit == Latched([acc EXCEPT !.st = seen], r, bar) IN
                      IF r.kind = "veto"
                      THEN IF r.retires THEN [hit EXCEPT !.over = TRUE]
                           ELSE [hit EXCEPT !.st.blocked = TRUE]
                      ELSE hit
        BY <1>3 DEF GuardStep, GuardIdle
    <2> HIDE DEF seen, fires
    <2>5. [acc EXCEPT !.st = seen] = at
        BY <1>1
    <2>6. Latched(at, r, bar) = [st |-> latch, fires |-> Fired(at, r, bar), over |-> acc.over]
        BY <2>1, LatchedGuardIs
    <2>7. Fired(at, r, bar) = Fired(acc, r, bar)
        BY DEF Fired
    <2> HIDE DEF latch, at
    <2> DEFINE latched == [st |-> latch, fires |-> Fired(acc, r, bar), over |-> acc.over]
    <2>8. Latched(at, r, bar) = latched
        BY <2>6, <2>7
    <2>9. CASE ~fires
        BY <2>2, <2>3, <2>4, <2>5, <2>9 DEF at
    <2>10. CASE fires
        <3>1. next = IF r.kind = "veto"
                     THEN IF r.retires THEN [latched EXCEPT !.over = TRUE]
                          ELSE [latched EXCEPT !.st.blocked = TRUE]
                     ELSE latched
            BY <2>4, <2>5, <2>8, <2>10
        <3>2. CASE r.kind = "veto" /\ r.retires
            BY <2>2, <2>3, <2>10, <3>1, <3>2
        <3>3. CASE r.kind = "veto" /\ ~r.retires
            <4>1. next = [st |-> [latch EXCEPT !.blocked = TRUE],
                          fires |-> Fired(acc, r, bar), over |-> acc.over]
                BY <3>1, <3>3
            <4>2. QED
                BY <2>2, <2>3, <2>10, <3>3, <4>1
        <3>4. CASE r.kind # "veto"
            BY <2>2, <2>3, <2>10, <3>1, <3>4
        <3>5. QED
            BY <3>2, <3>3, <3>4
    <2>11. QED
        BY <2>9, <2>10
<1>4. QED
    BY <1>2, <1>3

\* The guards of a bar keep runs in agreement.
LEMMA GuardsAlike ==
    ASSUME rules \in Plans, NEW x \in Acc, NEW y \in Acc, NEW d \in Margins, Alike(x, y, d),
           NEW bar \in Candle
    PROVE  Alike(Guards(x, bar), Guards(y, bar), d)
<1> DEFINE n == Len(rules)
           xs == [st |-> x.st, fires |-> x.fires, over |-> FALSE]
           ys == [st |-> y.st, fires |-> y.fires, over |-> FALSE]
<1>1. PICK f : RunOfGuards(f, x, bar)
    BY GuardsRun
<1>2. PICK g : RunOfGuards(g, y, bar)
    BY GuardsRun
<1>3. /\ f \in [0..n -> GuardAcc] /\ f[0] = xs /\ f[n] = GuardsFired(x, bar)
      /\ \A i \in 1..n : f[i] = GuardStep(f[i - 1], rules[i], bar)
    BY <1>1 DEF RunOfGuards
<1>4. /\ g \in [0..n -> GuardAcc] /\ g[0] = ys /\ g[n] = GuardsFired(y, bar)
      /\ \A i \in 1..n : g[i] = GuardStep(g[i - 1], rules[i], bar)
    BY <1>2 DEF RunOfGuards
<1>5. n \in Nat /\ \A i \in 1..n : rules[i] \in PlanRules /\ rules[i].id \in RuleIds
    BY RuleAt
<1> HIDE DEF n
<1> DEFINE S == {i \in 0..n : Alike(f[i], g[i], d) /\ f[i].over = g[i].over}
<1>6. 0 \in S
    <2>1. Alike(xs, ys, d) /\ xs.over = ys.over
        BY DEF Alike
    <2> HIDE DEF xs, ys
    <2>2. QED
        BY <1>3, <1>4, <1>5, <2>1
<1>7. ASSUME NEW i \in 1..n, i - 1 \in S PROVE i \in S
    <2> DEFINE a == f[i - 1]
               b == g[i - 1]
               r == rules[i]
               u == GuardStep(a, r, bar)
               v == GuardStep(b, r, bar)
    <2>1. i - 1 \in 0..n /\ i \in 0..n
        BY <1>5
    <2>2. a \in GuardAcc /\ b \in GuardAcc /\ Alike(a, b, d) /\ a.over = b.over
        BY <1>3, <1>4, <1>7, <2>1
    <2>3. f[i] = u /\ g[i] = v /\ r \in PlanRules /\ r.id \in RuleIds
        BY <1>3, <1>4, <1>5
    <2> HIDE DEF a, b, r
    <2>4. /\ u.st = GuardLeaves(a.st, r, bar)
          /\ u.fires = IF GuardHit(a.st, r, bar) THEN Fired(a, r, bar) ELSE a.fires
          /\ u.over = IF GuardHit(a.st, r, bar) /\ r.kind = "veto" /\ r.retires
                      THEN TRUE ELSE a.over
        BY <2>2, <2>3, GuardStepIs
    <2>5. /\ v.st = GuardLeaves(b.st, r, bar)
          /\ v.fires = IF GuardHit(b.st, r, bar) THEN Fired(b, r, bar) ELSE b.fires
          /\ v.over = IF GuardHit(b.st, r, bar) /\ r.kind = "veto" /\ r.retires
                      THEN TRUE ELSE b.over
        BY <2>2, <2>3, GuardStepIs
    <2>6. a.st = b.st /\ a.fires \in Seq(Fire) /\ b.fires \in Seq(Fire)
        BY <2>2 DEF Alike, GuardAcc
    <2> HIDE DEF u, v
    <2>7. Alike(u, v, d)
        BY <2>2, <2>3, <2>4, <2>5, <2>6, ReportAlike
    <2>8. u.over = v.over
        BY <2>2, <2>4, <2>5, <2>6
    <2>9. QED
        BY <2>1, <2>3, <2>7, <2>8
<1>8. \A i \in 0..n : i \in S
    BY <1>5, <1>6, <1>7, AlongLoop
<1>9. n \in 0..n
    BY <1>5
<1> DEFINE p == GuardsFired(x, bar)
           q == GuardsFired(y, bar)
<1>10. Alike(p, q, d) /\ p.over = q.over
    BY <1>3, <1>4, <1>8, <1>9
<1>11. /\ Guards(x, bar) = [st |-> IF p.over THEN [p.st EXCEPT !.phase = "done"] ELSE p.st,
                            fires |-> p.fires]
       /\ Guards(y, bar) = [st |-> IF q.over THEN [q.st EXCEPT !.phase = "done"] ELSE q.st,
                            fires |-> q.fires]
    BY DEF Guards
<1> HIDE DEF p, q
<1>12. QED
    BY <1>10, <1>11 DEF Alike

BreakIdle(st, bar) ==
    LET rule == FirstOf("breakAndClose") IN rule.id \in st.fired \/ (rule.golden /\ ~Golden(bar))

BreakHit(st, bar) ==
    HasRule("breakAndClose") /\ ~BreakIdle(st, bar) /\ Fires(FirstOf("breakAndClose"), st, bar)

BreakLeaves(st, bar) ==
    LET rule == FirstOf("breakAndClose")
        seen == Recorded(st, rule, bar)
    IN  IF ~HasRule("breakAndClose") THEN [st EXCEPT !.phase = "awaitEntry"]
        ELSE IF BreakIdle(st, bar) THEN st
        ELSE IF ~Fires(rule, st, bar) THEN seen
        ELSE [[seen EXCEPT !.fired = @ \cup {rule.id}]
                EXCEPT !.breakAt = bar.n, !.phase = "awaitEntry"]

\* The search for the break, by what it reads.
LEMMA BreakIs ==
    ASSUME rules \in Plans, NEW acc \in Acc, NEW bar \in Candle
    PROVE  LET next == BreakAndClose(acc, bar) IN
           /\ next.st = BreakLeaves(acc.st, bar)
           /\ next.fires = IF BreakHit(acc.st, bar)
                           THEN Fired(acc, FirstOf("breakAndClose"), bar) ELSE acc.fires
<1> DEFINE next == BreakAndClose(acc, bar)
           rule == FirstOf("breakAndClose")
           seen == Recorded(acc.st, rule, bar)
           latch == [seen EXCEPT !.fired = @ \cup {rule.id}]
           broke == [latch EXCEPT !.breakAt = bar.n, !.phase = "awaitEntry"]
           at == [st |-> seen, fires |-> acc.fires]
           cross == Fires(rule, acc.st, bar)
<1>1. acc.st \in States /\ acc = [st |-> acc.st, fires |-> acc.fires]
    BY DEF Acc
<1>2. CASE ~HasRule("breakAndClose")
    <2>1. next = [st |-> [acc.st EXCEPT !.phase = "awaitEntry"], fires |-> acc.fires]
        BY <1>2, <1>1 DEF BreakAndClose
    <2>2. QED
        BY <1>2, <2>1 DEF BreakLeaves, BreakHit
<1>3. CASE HasRule("breakAndClose") /\ BreakIdle(acc.st, bar)
    <2>1. next = acc
        BY <1>3 DEF BreakAndClose, BreakIdle
    <2>2. QED
        BY <1>3, <2>1 DEF BreakLeaves, BreakHit
<1>4. CASE HasRule("breakAndClose") /\ ~BreakIdle(acc.st, bar)
    <2>1. seen \in States
        BY <1>1, <1>4, FirstOfKind, RecordedType
    <2>2. BreakHit(acc.st, bar) <=> cross
        BY <1>4 DEF BreakHit
    <2>3. BreakLeaves(acc.st, bar) = IF ~cross THEN seen ELSE broke
        BY <1>4 DEF BreakLeaves
    <2>4. next = IF ~cross THEN [acc EXCEPT !.st = seen]
                 ELSE [Latched([acc EXCEPT !.st = seen], rule, bar)
                        EXCEPT !.st.breakAt = bar.n, !.st.phase = "awaitEntry"]
        BY <1>4 DEF BreakAndClose, BreakIdle
    <2> HIDE DEF seen, rule, cross
    <2>5. [acc EXCEPT !.st = seen] = at
        BY <1>1
    <2>6. Latched(at, rule, bar) = [st |-> latch, fires |-> Fired(at, rule, bar)]
        BY <2>1, LatchedIs
    <2>7. Fired(at, rule, bar) = Fired(acc, rule, bar)
        BY DEF Fired
    <2> HIDE DEF latch, at
    <2> DEFINE latched == [st |-> latch, fires |-> Fired(acc, rule, bar)]
    <2>8. Latched(at, rule, bar) = latched
        BY <2>6, <2>7
    <2>9. CASE ~cross
        BY <2>2, <2>3, <2>4, <2>5, <2>9 DEF at
    <2>10. CASE cross
        <3>1. next = [latched EXCEPT !.st.breakAt = bar.n, !.st.phase = "awaitEntry"]
            BY <2>4, <2>5, <2>8, <2>10
        <3>2. next = [st |-> broke, fires |-> Fired(acc, rule, bar)]
            BY <3>1
        <3>3. QED
            BY <2>2, <2>3, <2>10, <3>2 DEF rule
    <2>11. QED
        BY <2>9, <2>10
<1>5. QED
    BY <1>2, <1>3, <1>4

\* The search for the break keeps runs in agreement.
LEMMA BreakAlike ==
    ASSUME rules \in Plans, NEW x \in Acc, NEW y \in Acc, NEW d \in Margins, Alike(x, y, d),
           NEW bar \in Candle
    PROVE  Alike(BreakAndClose(x, bar), BreakAndClose(y, bar), d)
<1> DEFINE u == BreakAndClose(x, bar)
           v == BreakAndClose(y, bar)
           rule == FirstOf("breakAndClose")
<1>1. /\ u.st = BreakLeaves(x.st, bar)
      /\ u.fires = IF BreakHit(x.st, bar) THEN Fired(x, rule, bar) ELSE x.fires
    BY BreakIs
<1>2. /\ v.st = BreakLeaves(y.st, bar)
      /\ v.fires = IF BreakHit(y.st, bar) THEN Fired(y, rule, bar) ELSE y.fires
    BY BreakIs
<1>3. x.st = y.st /\ x.fires \in Seq(Fire) /\ y.fires \in Seq(Fire)
    BY DEF Alike, Acc
<1> HIDE DEF u, v
<1>4. CASE HasRule("breakAndClose")
    <2>1. rule.id \in RuleIds
        BY <1>4, FirstOfKind, RuleType
    <2> HIDE DEF rule
    <2>2. Alike(u, v, d)
        BY <1>1, <1>2, <1>3, <2>1, ReportAlike
    <2>3. QED
        BY <2>2 DEF u, v
<1>5. CASE ~HasRule("breakAndClose")
    <2>1. u.st = v.st /\ u.fires = x.fires /\ v.fires = y.fires
        BY <1>1, <1>2, <1>3, <1>5 DEF BreakHit
    <2>2. Alike(u, v, d)
        BY <2>1 DEF Alike
    <2>3. QED
        BY <2>2 DEF u, v
<1>6. QED
    BY <1>4, <1>5

RetestIdle(st, bar) ==
    \/ ~HasRule("retest")
    \/ HasRule("breakAndClose") /\ st.breakAt = NoBar
    \/ st.breakAt # NoBar /\ bar.n <= st.breakAt

RetestHit(st, bar) ==
    /\ ~RetestIdle(st, bar)
    /\ FirstOf("retest").golden => Golden(bar)
    /\ st.retestAt = NoBar /\ ~bar.rubbish /\ RetestCrossed(FirstOf("retest"), st, bar)

RetestLeaves(st, bar) ==
    LET seen == Recorded(st, FirstOf("retest"), bar)
    IN  IF RetestIdle(st, bar) THEN st
        ELSE IF RetestHit(st, bar) THEN [seen EXCEPT !.retestAt = bar.n] ELSE seen

\* The search for the retest, by what it reads.
LEMMA RetestIs ==
    ASSUME rules \in Plans, NEW acc \in Acc, NEW bar \in Candle
    PROVE  LET next == Retest(acc, bar) IN
           /\ next.st = RetestLeaves(acc.st, bar)
           /\ next.fires = IF RetestHit(acc.st, bar)
                           THEN Fired(acc, FirstOf("retest"), bar) ELSE acc.fires
<1> DEFINE next == Retest(acc, bar)
           rule == FirstOf("retest")
           seen == Recorded(acc.st, rule, bar)
           at == [st |-> seen, fires |-> acc.fires]
           hit == /\ rule.golden => Golden(bar)
                  /\ acc.st.retestAt = NoBar /\ ~bar.rubbish /\ RetestCrossed(rule, acc.st, bar)
<1>1. acc.st \in States /\ acc = [st |-> acc.st, fires |-> acc.fires]
    BY DEF Acc
<1>2. CASE RetestIdle(acc.st, bar)
    <2>1. next = acc
        BY <1>2 DEF Retest, RetestIdle
    <2>2. QED
        BY <1>2, <2>1 DEF RetestLeaves, RetestHit
<1>3. CASE ~RetestIdle(acc.st, bar)
    <2>1. next = IF hit THEN [[acc EXCEPT !.st = seen]
                               EXCEPT !.st.retestAt = bar.n,
                                      !.fires = Fired([acc EXCEPT !.st = seen], rule, bar)]
                 ELSE [acc EXCEPT !.st = seen]
        BY <1>3 DEF Retest, RetestIdle
    <2>2. RetestHit(acc.st, bar) <=> hit
        BY <1>3 DEF RetestHit
    <2>3. RetestLeaves(acc.st, bar) = IF hit THEN [seen EXCEPT !.retestAt = bar.n] ELSE seen
        BY <1>3, <2>2 DEF RetestLeaves
    <2> HIDE DEF seen, rule, hit
    <2>4. [acc EXCEPT !.st = seen] = at
        BY <1>1
    <2>5. Fired(at, rule, bar) = Fired(acc, rule, bar)
        BY DEF Fired
    <2>6. CASE ~hit
        BY <2>1, <2>2, <2>3, <2>4, <2>6
    <2>7. CASE hit
        <3>1. next = [at EXCEPT !.st.retestAt = bar.n, !.fires = Fired(acc, rule, bar)]
            BY <2>1, <2>4, <2>5, <2>7
        <3>2. next = [st |-> [seen EXCEPT !.retestAt = bar.n], fires |-> Fired(acc, rule, bar)]
            BY <3>1
        <3>3. QED
            BY <2>2, <2>3, <2>7, <3>2 DEF rule
    <2>8. QED
        BY <2>6, <2>7
<1>4. QED
    BY <1>2, <1>3

\* The search for the retest keeps runs in agreement.
LEMMA RetestAlike ==
    ASSUME rules \in Plans, NEW x \in Acc, NEW y \in Acc, NEW d \in Margins, Alike(x, y, d),
           NEW bar \in Candle
    PROVE  Alike(Retest(x, bar), Retest(y, bar), d)
<1> DEFINE u == Retest(x, bar)
           v == Retest(y, bar)
           rule == FirstOf("retest")
<1>1. /\ u.st = RetestLeaves(x.st, bar)
      /\ u.fires = IF RetestHit(x.st, bar) THEN Fired(x, rule, bar) ELSE x.fires
    BY RetestIs
<1>2. /\ v.st = RetestLeaves(y.st, bar)
      /\ v.fires = IF RetestHit(y.st, bar) THEN Fired(y, rule, bar) ELSE y.fires
    BY RetestIs
<1>3. x.st = y.st /\ x.fires \in Seq(Fire) /\ y.fires \in Seq(Fire)
    BY DEF Alike, Acc
<1> HIDE DEF u, v
<1>4. CASE HasRule("retest")
    <2>1. rule.id \in RuleIds
        BY <1>4, FirstOfKind, RuleType
    <2> HIDE DEF rule
    <2>2. Alike(u, v, d)
        BY <1>1, <1>2, <1>3, <2>1, ReportAlike
    <2>3. QED
        BY <2>2 DEF u, v
<1>5. CASE ~HasRule("retest")
    <2>1. u.st = v.st /\ u.fires = x.fires /\ v.fires = y.fires
        BY <1>1, <1>2, <1>3, <1>5 DEF RetestHit, RetestIdle
    <2>2. Alike(u, v, d)
        BY <2>1 DEF Alike
    <2>3. QED
        BY <2>2 DEF u, v
<1>6. QED
    BY <1>4, <1>5

EntryIdle(st, r, bar) ==
    \/ r.kind # "enter" \/ st.phase = "done"
    \/ r.id \in st.fired \/ bar.rubbish

EntryHit(st, r, bar) ==
    /\ ~EntryIdle(st, r, bar)
    /\ IF r.on = "signal" THEN bar.signal ELSE Fires(r, st, bar)
    /\ NeedsRetest(r) => RetestSatisfied(st, bar)

EntryLeaves(st, r, bar) ==
    LET seen == Recorded(st, r, bar)
    IN  IF EntryIdle(st, r, bar) THEN st
        ELSE IF EntryHit(st, r, bar) /\ ~r.multiShot
        THEN [[seen EXCEPT !.fired = @ \cup {r.id}] EXCEPT !.phase = "done"]
        ELSE seen

\* The visit of a rule by the entries, by what it reads.
LEMMA EntryStepIs ==
    ASSUME rules \in Plans, NEW acc \in Acc, NEW r \in PlanRules, NEW bar \in Candle
    PROVE  LET next == EntryStep(acc, r, bar) IN
           /\ next.st = EntryLeaves(acc.st, r, bar)
           /\ next.fires = IF EntryHit(acc.st, r, bar) THEN Fired(acc, r, bar) ELSE acc.fires
<1> DEFINE next == EntryStep(acc, r, bar)
           seen == Recorded(acc.st, r, bar)
           latch == [seen EXCEPT !.fired = @ \cup {r.id}]
           at == [st |-> seen, fires |-> acc.fires]
           print == IF r.on = "signal" THEN bar.signal ELSE Fires(r, acc.st, bar)
           miss == ~print \/ (NeedsRetest(r) /\ ~RetestSatisfied(acc.st, bar))
<1>1. acc.st \in States /\ acc = [st |-> acc.st, fires |-> acc.fires]
    BY DEF Acc
<1>2. CASE EntryIdle(acc.st, r, bar)
    <2>1. next = acc
        BY <1>2 DEF EntryStep, EntryIdle
    <2>2. QED
        BY <1>2, <2>1 DEF EntryLeaves, EntryHit
<1>3. CASE ~EntryIdle(acc.st, r, bar)
    <2>1. seen \in States
        BY <1>1, RecordedType
    <2>2. EntryHit(acc.st, r, bar) <=> ~miss
        BY <1>3 DEF EntryHit
    <2>3. EntryLeaves(acc.st, r, bar) =
             IF ~miss /\ ~r.multiShot THEN [latch EXCEPT !.phase = "done"] ELSE seen
        BY <1>3, <2>2 DEF EntryLeaves
    <2>4. next = IF miss THEN [acc EXCEPT !.st = seen]
                 ELSE IF r.multiShot
                 THEN [[acc EXCEPT !.st = seen]
                        EXCEPT !.fires = Fired([acc EXCEPT !.st = seen], r, bar)]
                 ELSE [Latched([acc EXCEPT !.st = seen], r, bar) EXCEPT !.st.phase = "done"]
        BY <1>3 DEF EntryStep, EntryIdle
    <2> HIDE DEF seen, miss
    <2>5. [acc EXCEPT !.st = seen] = at
        BY <1>1
    <2>6. Latched(at, r, bar) = [st |-> latch, fires |-> Fired(at, r, bar)]
        BY <2>1, LatchedIs
    <2>7. Fired(at, r, bar) = Fired(acc, r, bar)
        BY DEF Fired
    <2> HIDE DEF latch, at
    <2> DEFINE latched == [st |-> latch, fires |-> Fired(acc, r, bar)]
    <2>8. Latched(at, r, bar) = latched
        BY <2>6, <2>7
    <2>9. CASE miss
        BY <2>2, <2>3, <2>4, <2>5, <2>9 DEF at
    <2>10. CASE ~miss /\ r.multiShot
        <3>1. next = [st |-> seen, fires |-> Fired(acc, r, bar)]
            BY <2>4, <2>5, <2>7, <2>10 DEF at
        <3>2. QED
            BY <2>2, <2>3, <2>10, <3>1
    <2>11. CASE ~miss /\ ~r.multiShot
        <3>1. next = [latched EXCEPT !.st.phase = "done"]
            BY <2>4, <2>5, <2>8, <2>11
        <3>2. next = [st |-> [latch EXCEPT !.phase = "done"], fires |-> Fired(acc, r, bar)]
            BY <3>1
        <3>3. QED
            BY <2>2, <2>3, <2>11, <3>2
    <2>12. QED
        BY <2>9, <2>10, <2>11
<1>4. QED
    BY <1>2, <1>3

\* The entries of a bar keep runs in agreement.
LEMMA EntriesAlike ==
    ASSUME rules \in Plans, NEW x \in Acc, NEW y \in Acc, NEW d \in Margins, Alike(x, y, d),
           NEW bar \in Candle
    PROVE  Alike(Entries(x, bar), Entries(y, bar), d)
<1> DEFINE n == Len(rules)
<1>1. PICK f : RunOfEntries(f, x, bar)
    BY EntriesRun
<1>2. PICK g : RunOfEntries(g, y, bar)
    BY EntriesRun
<1>3. /\ f \in [0..n -> Acc] /\ f[0] = x /\ f[n] = Entries(x, bar)
      /\ \A i \in 1..n : f[i] = EntryStep(f[i - 1], rules[i], bar)
    BY <1>1 DEF RunOfEntries
<1>4. /\ g \in [0..n -> Acc] /\ g[0] = y /\ g[n] = Entries(y, bar)
      /\ \A i \in 1..n : g[i] = EntryStep(g[i - 1], rules[i], bar)
    BY <1>2 DEF RunOfEntries
<1>5. n \in Nat /\ \A i \in 1..n : rules[i] \in PlanRules /\ rules[i].id \in RuleIds
    BY RuleAt
<1> HIDE DEF n
<1> DEFINE S == {i \in 0..n : Alike(f[i], g[i], d)}
<1>6. 0 \in S
    BY <1>3, <1>4, <1>5
<1>7. ASSUME NEW i \in 1..n, i - 1 \in S PROVE i \in S
    <2> DEFINE a == f[i - 1]
               b == g[i - 1]
               r == rules[i]
               u == EntryStep(a, r, bar)
               v == EntryStep(b, r, bar)
    <2>1. i - 1 \in 0..n /\ i \in 0..n
        BY <1>5
    <2>2. a \in Acc /\ b \in Acc /\ Alike(a, b, d)
        BY <1>3, <1>4, <1>7, <2>1
    <2>3. f[i] = u /\ g[i] = v /\ r \in PlanRules /\ r.id \in RuleIds
        BY <1>3, <1>4, <1>5
    <2> HIDE DEF a, b, r
    <2>4. /\ u.st = EntryLeaves(a.st, r, bar)
          /\ u.fires = IF EntryHit(a.st, r, bar) THEN Fired(a, r, bar) ELSE a.fires
        BY <2>2, <2>3, EntryStepIs
    <2>5. /\ v.st = EntryLeaves(b.st, r, bar)
          /\ v.fires = IF EntryHit(b.st, r, bar) THEN Fired(b, r, bar) ELSE b.fires
        BY <2>2, <2>3, EntryStepIs
    <2>6. a.st = b.st /\ a.fires \in Seq(Fire) /\ b.fires \in Seq(Fire)
        BY <2>2 DEF Alike, Acc
    <2> HIDE DEF u, v
    <2>7. Alike(u, v, d)
        BY <2>2, <2>3, <2>4, <2>5, <2>6, ReportAlike
    <2>8. QED
        BY <2>1, <2>3, <2>7
<1>8. \A i \in 0..n : i \in S
    BY <1>5, <1>6, <1>7, AlongLoop
<1>9. n \in 0..n
    BY <1>5
<1>10. QED
    BY <1>3, <1>4, <1>8, <1>9

\* The spine keeps runs in agreement.
LEMMA SpineAlike ==
    ASSUME rules \in Plans, NEW x \in Acc, NEW y \in Acc, NEW d \in Margins, Alike(x, y, d),
           NEW bar \in Candle
    PROVE  Alike(Spine(x, bar), Spine(y, bar), d)
<1> DEFINE p == IF MultiEnter THEN BreakAndClose(x, bar) ELSE x
           q == IF MultiEnter THEN BreakAndClose(y, bar) ELSE y
           a == Retest(p, bar)
           b == Retest(q, bar)
<1>1. Alike(BreakAndClose(x, bar), BreakAndClose(y, bar), d)
    BY BreakAlike
<1>2. p \in Acc /\ q \in Acc /\ Alike(p, q, d)
    BY <1>1, BreakDoes
<1> HIDE DEF p, q
<1>3. a \in Acc /\ b \in Acc /\ Alike(a, b, d)
    BY <1>2, RetestDoes, RetestAlike
<1> HIDE DEF a, b
<1>4. Alike(Entries(a, bar), Entries(b, bar), d)
    BY <1>3, EntriesAlike
<1>5. x.st = y.st
    BY DEF Alike
<1>6. /\ x.st.phase = "awaitBreak" => /\ Spine(x, bar) = BreakAndClose(x, bar)
                                      /\ Spine(y, bar) = BreakAndClose(y, bar)
      /\ x.st.phase = "awaitEntry" => /\ Spine(x, bar) = Entries(a, bar)
                                      /\ Spine(y, bar) = Entries(b, bar)
      /\ x.st.phase \notin {"awaitBreak", "awaitEntry"} => Spine(x, bar) = x /\ Spine(y, bar) = y
    BY <1>5 DEF Spine, a, b, p, q
<1>7. QED
    BY <1>1, <1>4, <1>6

(* What a bar does after its controls.                                      *)
AfterControls(acc, bar) ==
    LET guarded == Guards(acc, bar)
        after == IF guarded.st.phase = "done" \/ guarded.st.blocked
                 THEN guarded ELSE Spine(guarded, bar)
    IN  [after EXCEPT !.st = Watermarked(@, bar)]

\* A bar is its controls and the rest.
LEMMA BarIs ==
    ASSUME NEW acc, NEW bar, NEW at
    PROVE  EvaluateBar(acc, bar, at) = AfterControls(Controls(acc, bar, ControlClock(bar, at)), bar)
BY BarComposes DEF AfterControls

\* The rest of a bar keeps runs in agreement, and every latch.
LEMMA AfterControlsAlike ==
    ASSUME rules \in Plans, NEW x \in Acc, NEW y \in Acc, NEW d \in Margins, Alike(x, y, d),
           NEW bar \in Candle
    PROVE  Alike(AfterControls(x, bar), AfterControls(y, bar), d)
<1> DEFINE g == Guards(x, bar)
           h == Guards(y, bar)
           u == IF g.st.phase = "done" \/ g.st.blocked THEN g ELSE Spine(g, bar)
           v == IF h.st.phase = "done" \/ h.st.blocked THEN h ELSE Spine(h, bar)
<1>1. g \in Acc /\ h \in Acc /\ Alike(g, h, d)
    BY GuardsDo, GuardsAlike
<1>2. /\ AfterControls(x, bar) = [u EXCEPT !.st = Watermarked(@, bar)]
      /\ AfterControls(y, bar) = [v EXCEPT !.st = Watermarked(@, bar)]
    BY DEF AfterControls
<1> HIDE DEF g, h
<1>3. Alike(Spine(g, bar), Spine(h, bar), d) /\ Spine(g, bar) \in Acc /\ Spine(h, bar) \in Acc
    BY <1>1, SpineAlike, SpineType
<1>4. u \in Acc /\ v \in Acc /\ Alike(u, v, d)
    BY <1>1, <1>3 DEF Alike
<1> HIDE DEF u, v
<1> DEFINE us == [st |-> Watermarked(u.st, bar), fires |-> u.fires]
           vs == [st |-> Watermarked(v.st, bar), fires |-> v.fires]
<1>5. AfterControls(x, bar) = us /\ AfterControls(y, bar) = vs
    BY <1>2, <1>4 DEF Acc
<1>6. Alike(us, vs, d)
    BY <1>4 DEF Alike
<1>7. QED
    BY <1>5, <1>6

\* The rest of a bar keeps every latch, and is the watermark.
LEMMA AfterControlsKeep ==
    ASSUME rules \in Plans, NEW acc \in Acc, NEW bar \in Candle
    PROVE  /\ AfterControls(acc, bar) \in Acc
           /\ AfterControls(acc, bar).st.watermark = bar.n
           /\ acc.st.fired \subseteq AfterControls(acc, bar).st.fired
<1> DEFINE g == Guards(acc, bar)
           p == IF MultiEnter THEN BreakAndClose(g, bar) ELSE g
           r == Retest(p, bar)
           e == Entries(r, bar)
           s == Spine(g, bar)
           u == IF g.st.phase = "done" \/ g.st.blocked THEN g ELSE s
<1>1. g \in Acc /\ acc.st.fired \subseteq g.st.fired
    BY GuardsDo DEF Vetted, Latches
<1>2. AfterControls(acc, bar) = [u EXCEPT !.st = Watermarked(@, bar)]
    BY DEF AfterControls
<1> HIDE DEF g
<1>3. BreakAndClose(g, bar) \in Acc /\ g.st.fired \subseteq BreakAndClose(g, bar).st.fired
    BY <1>1, BreakDoes DEF Broken, Latches
<1>4. p \in Acc /\ g.st.fired \subseteq p.st.fired
    BY <1>1, <1>3
<1>5. s = BreakAndClose(g, bar) \/ s = e \/ s = g
    BY DEF Spine
<1> HIDE DEF p, s
<1>6. r \in Acc /\ r.st.fired = p.st.fired
    <2>1. r \in Acc /\ Retested(p, r, bar) /\ p.st \in States
        BY <1>4, RetestDoes DEF Acc
    <2> HIDE DEF r
    <2>2. QED
        BY <2>1 DEF Retested, States
<1> HIDE DEF r
<1>7. e \in Acc /\ r.st.fired \subseteq e.st.fired
    BY <1>6, EntriesDo DEF Entered
<1> HIDE DEF e
<1>8. u \in Acc /\ acc.st.fired \subseteq u.st.fired
    BY <1>1, <1>3, <1>4, <1>5, <1>6, <1>7
<1> HIDE DEF u
<1>9. /\ u.st \in States /\ u.fires \in Seq(Fire) /\ bar.n \in 0..MaxBars
      /\ AfterControls(acc, bar) = [st |-> Watermarked(u.st, bar), fires |-> u.fires]
    BY <1>2, <1>8, CatchUpAssumption DEF Acc, Candle
<1>10. /\ Watermarked(u.st, bar) \in States /\ Watermarked(u.st, bar).watermark = bar.n
       /\ Watermarked(u.st, bar).fired = u.st.fired
    BY <1>9 DEF Watermarked, States
<1>11. QED
    BY <1>8, <1>9, <1>10 DEF Acc

\* Controls keep the phase and the watermark.
LEMMA ControlsKeep ==
    ASSUME rules \in Plans, NEW acc \in Acc, NEW bar \in Candle, NEW clock \in Nat
    PROVE  LET next == Controls(acc, bar, clock) IN
           /\ next \in Acc
           /\ next.st.phase = acc.st.phase
           /\ next.st.watermark = acc.st.watermark
<1> DEFINE next == Controls(acc, bar, clock)
<1>1. next \in Acc /\ Controlled(acc, next, bar) /\ acc.st \in States
    BY ControlsDo DEF Acc
<1> HIDE DEF next
<1>2. next.st.phase = acc.st.phase /\ next.st.watermark = acc.st.watermark
    BY <1>1 DEF Controlled, States
<1>3. QED
    BY <1>1, <1>2 DEF next

-----------------------------------------------------------------------------
(* A bar, and the bars of a tick.                                           *)

(* The clock has passed the close of a bar, as it has for every bar served. *)
Served(bar, at) == Closes(bar) <= at

\* The close of a bar is an instant.
LEMMA CloseInstant ==
    ASSUME NEW bar \in Candle
    PROVE  Closes(bar) \in Nat
<1>1. Span \in Nat /\ bar.n \in Nat
    BY CatchUpAssumption DEF Candle
<1>2. QED
    BY <1>1 DEF Closes

\* The controls of a served bar are judged at its close.
LEMMA BarAtClose ==
    ASSUME NEW acc, NEW bar \in Candle, NEW at \in Nat, Served(bar, at)
    PROVE  EvaluateBar(acc, bar, at) = AfterControls(Controls(acc, bar, Closes(bar)), bar)
<1>1. ControlClock(bar, at) = Closes(bar)
    BY CloseInstant DEF ControlClock, Served, Lower
<1>2. QED
    BY <1>1, BarIs

\* A served bar keeps runs in agreement.
LEMMA BarAlike ==
    ASSUME rules \in Plans, NEW x \in Acc, NEW y \in Acc, NEW d \in Margins, Alike(x, y, d),
           NEW bar \in Candle, NEW at \in Nat, Served(bar, at)
    PROVE  Alike(EvaluateBar(x, bar, at), EvaluateBar(y, bar, at), d)
<1> DEFINE a == Controls(x, bar, Closes(bar))
           b == Controls(y, bar, Closes(bar))
<1>1. Closes(bar) \in Nat
    BY CloseInstant
<1>2. a \in Acc /\ b \in Acc /\ Alike(a, b, d)
    BY <1>1, ControlsAlike, ControlsKeep
<1>3. EvaluateBar(x, bar, at) = AfterControls(a, bar) /\ EvaluateBar(y, bar, at) = AfterControls(b, bar)
    BY BarAtClose
<1> HIDE DEF a, b
<1>4. QED
    BY <1>2, <1>3, AfterControlsAlike

\* After a served bar no control due by its close is left.
LEMMA BarSettles ==
    ASSUME rules \in Plans, NEW acc \in Acc, NEW bar \in Candle, NEW at \in Nat, Served(bar, at)
    PROVE  LET next == EvaluateBar(acc, bar, at) IN
           /\ next \in Acc /\ next.st.watermark = bar.n
           /\ FiredBy(next.st, Closes(bar), Len(rules)) = {}
<1> DEFINE a == Controls(acc, bar, Closes(bar))
           next == EvaluateBar(acc, bar, at)
<1>1. Closes(bar) \in Nat
    BY CloseInstant
<1>2. a \in Acc
    BY <1>1, ControlsKeep
<1>3. next = AfterControls(a, bar)
    BY BarAtClose
<1>4. /\ next \in Acc /\ next.st.watermark = bar.n /\ a.st.fired \subseteq next.st.fired
    <2> HIDE DEF a, next
    <2>1. QED
        BY <1>2, <1>3, AfterControlsKeep
<1> HIDE DEF next
<1>5. FiredBy(next.st, Closes(bar), Len(rules)) = {}
    BY <1>1, <1>4, ControlsSettle
<1>6. QED
    BY <1>4, <1>5 DEF next

Blank(st) == [st |-> st, fires |-> <<>>]

\* A tick evaluates nothing for a finished plan, and nothing from no bars.
LEMMA PlanRests ==
    ASSUME rules \in Plans, NEW st \in States, NEW fresh \in Seq(Candle), NEW at \in Nat,
           st.phase = "done" \/ fresh = <<>>
    PROVE  EvaluatePlan(st, fresh, at) = Blank(st)
<1> DEFINE n == Len(fresh)
<1>1. PICK f : RunOfBars(f, st, fresh, at)
    BY BarsRun
<1>2. /\ f \in [0..n -> Acc] /\ f[0] = Blank(st) /\ f[n] = EvaluatePlan(st, fresh, at)
      /\ \A i \in 1..n : f[i] = BarStep(f[i - 1], fresh[i], at)
    BY <1>1 DEF RunOfBars, Blank
<1>3. n \in Nat /\ \A i \in 1..n : fresh[i] \in Candle
    OBVIOUS
<1>4. Blank(st).st = st
    BY DEF Blank
<1>5. CASE fresh = <<>>
    BY <1>2, <1>5
<1>6. CASE st.phase = "done"
    <2> HIDE DEF n
    <2> DEFINE S == {i \in 0..n : f[i] = Blank(st)}
    <2>1. 0 \in S
        BY <1>2, <1>3
    <2>2. ASSUME NEW i \in 1..n, i - 1 \in S PROVE i \in S
        <3>1. i \in 0..n /\ f[i] = BarStep(Blank(st), fresh[i], at)
            BY <1>2, <1>3, <2>2
        <3>2. BarStep(Blank(st), fresh[i], at) = Blank(st)
            BY <1>4, <1>6 DEF BarStep
        <3>3. QED
            BY <3>1, <3>2
    <2>3. \A i \in 0..n : i \in S
        BY <1>3, <2>1, <2>2, AlongLoop
    <2>4. QED
        BY <1>2, <1>3, <2>3
<1>7. QED
    BY <1>5, <1>6

(* A sequence of bars that begins with another.                             *)
Begins(more, fresh) ==
    Len(fresh) <= Len(more) /\ \A i \in 1..Len(fresh) : more[i] = fresh[i]

\* Bars served by an earlier tick are evaluated the same way by a later one.
LEMMA PlanPrefix ==
    ASSUME rules \in Plans, NEW st \in States, NEW at \in Nat, NEW later \in Nat, at <= later,
           NEW fresh \in Seq(Candle), \A i \in 1..Len(fresh) : Served(fresh[i], at),
           NEW f, RunOfBars(f, st, fresh, at), NEW more \in Seq(Candle),
           NEW g, RunOfBars(g, st, more, later), Begins(more, fresh)
    PROVE  g[Len(fresh)] = f[Len(fresh)]
<1> DEFINE n == Len(fresh)
           m == Len(more)
<1>1. /\ f \in [0..n -> Acc] /\ f[0] = Blank(st)
      /\ \A i \in 1..n : f[i] = BarStep(f[i - 1], fresh[i], at)
    BY DEF RunOfBars, Blank
<1>2. /\ g \in [0..m -> Acc] /\ g[0] = Blank(st)
      /\ \A i \in 1..m : g[i] = BarStep(g[i - 1], more[i], later)
    BY DEF RunOfBars, Blank
<1>3. /\ n \in Nat /\ m \in Nat /\ n <= m
      /\ \A i \in 1..n : more[i] = fresh[i] /\ Served(fresh[i], at) /\ fresh[i] \in Candle
    BY DEF Begins
<1> HIDE DEF n, m
<1> DEFINE S == {i \in 0..n : g[i] = f[i]}
<1>4. 0 \in S
    BY <1>1, <1>2, <1>3
<1>5. ASSUME NEW i \in 1..n, i - 1 \in S PROVE i \in S
    <2> DEFINE a == f[i - 1]
               b == fresh[i]
    <2>1. i \in 1..m /\ i \in 0..n /\ g[i - 1] = a /\ more[i] = b
        BY <1>3, <1>5
    <2>2. b \in Candle /\ Served(b, at) /\ Closes(b) \in Nat
        BY <1>3, CloseInstant
    <2>3. f[i] = BarStep(a, b, at) /\ g[i] = BarStep(a, b, later)
        BY <1>1, <1>2, <2>1
    <2> HIDE DEF a, b
    <2>4. Served(b, later)
        BY <2>2 DEF Served
    <2>5. BarStep(a, b, at) = BarStep(a, b, later)
        BY <2>2, <2>4, BarAtClose DEF BarStep
    <2>6. QED
        BY <2>1, <2>3, <2>5
<1>6. \A i \in 0..n : i \in S
    BY <1>3, <1>4, <1>5, AlongLoop
<1>7. QED
    BY <1>3, <1>6 DEF n

\* A later tick over the same bars does the same.
LEMMA PlanLater ==
    ASSUME rules \in Plans, NEW st \in States, NEW at \in Nat, NEW later \in Nat, at <= later,
           NEW fresh \in Seq(Candle), \A i \in 1..Len(fresh) : Served(fresh[i], at)
    PROVE  EvaluatePlan(st, fresh, later) = EvaluatePlan(st, fresh, at)
<1>1. PICK f : RunOfBars(f, st, fresh, at)
    BY BarsRun
<1>2. PICK g : RunOfBars(g, st, fresh, later)
    BY BarsRun
<1>3. Begins(fresh, fresh)
    BY DEF Begins
<1>4. g[Len(fresh)] = f[Len(fresh)]
    BY <1>1, <1>2, <1>3, PlanPrefix
<1>5. QED
    BY <1>1, <1>2, <1>4 DEF RunOfBars

\* One bar more is one step more.
LEMMA PlanAppended ==
    ASSUME rules \in Plans, NEW st \in States, NEW at \in Nat, NEW later \in Nat, at <= later,
           NEW fresh \in Seq(Candle), \A i \in 1..Len(fresh) : Served(fresh[i], at),
           NEW bar \in Candle
    PROVE  EvaluatePlan(st, Append(fresh, bar), later)
              = BarStep(EvaluatePlan(st, fresh, at), bar, later)
<1> DEFINE n == Len(fresh)
           more == Append(fresh, bar)
<1>1. /\ more \in Seq(Candle) /\ Len(more) = n + 1 /\ more[n + 1] = bar /\ n \in Nat
      /\ \A i \in 1..n : more[i] = fresh[i]
    OBVIOUS
<1> HIDE DEF more
<1>2. PICK f : RunOfBars(f, st, fresh, at)
    BY BarsRun
<1>3. PICK g : RunOfBars(g, st, more, later)
    BY <1>1, BarsRun
<1>4. g[n] = f[n]
    <2>1. Begins(more, fresh)
        BY <1>1 DEF Begins
    <2> HIDE DEF n
    <2>2. g[Len(fresh)] = f[Len(fresh)]
        BY <1>1, <1>2, <1>3, <2>1, PlanPrefix
    <2>3. QED
        BY <2>2 DEF n
<1>5. n + 1 \in 1..(n + 1) /\ (n + 1) - 1 = n
    BY <1>1
<1>6. g[n + 1] = BarStep(g[n], bar, later)
    BY <1>1, <1>3, <1>5 DEF RunOfBars
<1>7. QED
    BY <1>1, <1>2, <1>3, <1>4, <1>6 DEF RunOfBars, more

-----------------------------------------------------------------------------
(* Ticks over a tape.  A tape is the bars of a market, each with what was   *)
(* read of it; a tick takes them as they are.                               *)
Tape(closed) ==
    /\ closed \in Seq(Candle)
    /\ Len(closed) \in 1..MaxBars
    /\ \A k \in 1..Len(closed) : closed[k].n = k

TapeTick(engine, closed, at) ==
    LET fresh == SubSeq(closed, engine.st.watermark + 1, Len(closed))
        result == IF fresh = <<>>
                  THEN EvaluateControlsOnly(engine.st, closed[Len(closed)], at)
                  ELSE EvaluatePlan(engine.st, fresh, at)
    IN  IF engine.st.phase = "done" THEN engine
        ELSE [st |-> result.st, fires |-> engine.fires \o result.fires]

\* The bars of a tape that are fresh to an engine.
LEMMA TapeBars ==
    ASSUME NEW closed, Tape(closed), NEW engine, engine.st.watermark \in 1..Len(closed)
    PROVE  /\ Fresh(engine, closed) \in Seq(Candle)
           /\ Len(Fresh(engine, closed)) = Len(closed) - engine.st.watermark
           /\ \A i \in 1..Len(Fresh(engine, closed)) :
                 /\ Fresh(engine, closed)[i] = closed[engine.st.watermark + i]
                 /\ Fresh(engine, closed)[i].n = engine.st.watermark + i
           /\ closed[Len(closed)] \in Candle
<1> DEFINE w == engine.st.watermark
           m == Len(closed)
<1>1. m \in Nat /\ w \in 1..m /\ closed \in Seq(Candle) /\ \A k \in 1..m : closed[k].n = k
    BY DEF Tape
<1> HIDE DEF w, m
<1>2. SubSeq(closed, w + 1, m) \in Seq(Candle) /\ Len(SubSeq(closed, w + 1, m)) = m - w
    BY <1>1 DEF m
<1>3. \A i \in 1..(m - w) : SubSeq(closed, w + 1, m)[i] = closed[w + i]
    BY <1>1 DEF m
<1>4. \A i \in 1..(m - w) : closed[w + i].n = w + i
    BY <1>1
<1>5. closed[m] \in Candle
    BY <1>1 DEF m
<1>6. QED
    BY <1>2, <1>3, <1>4, <1>5 DEF Fresh, w, m

\* A tick over a tape keeps an engine well typed; unless it finished the plan
\* it leaves nothing fresh.
LEMMA TapeTickType ==
    ASSUME rules \in Plans, NEW closed, Tape(closed), NEW at \in Nat,
           NEW engine \in Acc, engine.st.watermark \in 1..Len(closed)
    PROVE  LET next == TapeTick(engine, closed, at) IN
           /\ next \in Acc /\ next.st.watermark \in 1..Len(closed)
           /\ next.st.phase # "done" => next.st.watermark = Len(closed)
<1> DEFINE fresh == Fresh(engine, closed)
           w == engine.st.watermark
           last == closed[Len(closed)]
           result == IF fresh = <<>> THEN EvaluateControlsOnly(engine.st, last, at)
                     ELSE EvaluatePlan(engine.st, fresh, at)
           next == [st |-> result.st, fires |-> engine.fires \o result.fires]
<1>1. /\ fresh \in Seq(Candle) /\ last \in Candle
      /\ Len(fresh) = Len(closed) - w
      /\ \A i \in 1..Len(fresh) : fresh[i].n = w + i
    BY TapeBars
<1>2. TapeTick(engine, closed, at) = IF engine.st.phase = "done" THEN engine ELSE next
    BY DEF TapeTick, Fresh
<1>3. engine.st \in States /\ engine.fires \in Seq(Fire)
    BY DEF Acc
<1>4. Len(closed) \in Nat /\ w \in 1..Len(closed)
    BY DEF Tape
<1> HIDE DEF fresh, last
<1>5. CASE engine.st.phase = "done"
    BY <1>2, <1>5
<1>6. CASE engine.st.phase # "done"
    <2>1. /\ result \in Acc /\ result.st.watermark \in 1..Len(closed)
          /\ result.st.phase # "done" => result.st.watermark = Len(closed)
        <3>1. CASE fresh = <<>>
            <4> DEFINE first == [st |-> engine.st, fires |-> <<>>]
            <4>1. first \in Acc /\ first.st = engine.st
                BY <1>3 DEF Acc
            <4> HIDE DEF first
            <4>2. Controls(first, last, at) \in Acc /\ Controlled(first, Controls(first, last, at), last)
                BY <1>1, <4>1, ControlsDo
            <4>3. Controls(first, last, at).st.watermark = w
                BY <1>3, <4>1, <4>2 DEF Controlled, States
            <4>4. w = Len(closed)
                BY <1>1, <1>4, <3>1
            <4>5. result = Controls(first, last, at)
                BY <3>1 DEF EvaluateControlsOnly, first
            <4>6. QED
                BY <1>4, <4>2, <4>3, <4>4, <4>5
        <3>2. CASE fresh # <<>>
            <4>1. /\ EvaluatePlan(engine.st, fresh, at) \in Acc
                  /\ EvaluatePlan(engine.st, fresh, at).st.watermark \in w..(w + Len(fresh))
                  /\ EvaluatePlan(engine.st, fresh, at).st.phase # "done" =>
                        EvaluatePlan(engine.st, fresh, at).st.watermark = w + Len(fresh)
                BY <1>1, <1>3, <1>6, PlanType
            <4>2. QED
                BY <1>1, <1>4, <3>2, <4>1
        <3>3. QED
            BY <3>1, <3>2
    <2> HIDE DEF result
    <2>2. result.st \in States /\ result.fires \in Seq(Fire)
        BY <2>1 DEF Acc
    <2>3. next \in Acc /\ next.st = result.st
        BY <1>3, <2>2 DEF Acc
    <2>4. QED
        BY <1>2, <1>6, <2>1, <2>3
<1>7. QED
    BY <1>5, <1>6

(* Every bar of a market has been served by the instant of a tick.          *)
Ready(closed, at) ==
    /\ Tape(closed)
    /\ \A k \in 1..Len(closed) : Served(closed[k], at)

Follows(engine, closed) == engine \in Acc /\ engine.st.watermark \in 1..Len(closed)

(* What a tick reports of a plan that is not done, from nothing.            *)
Result(st, closed, at) ==
    LET fresh == SubSeq(closed, st.watermark + 1, Len(closed)) IN
    IF fresh = <<>> THEN Controls(Blank(st), closed[Len(closed)], at)
    ELSE EvaluatePlan(st, fresh, at)

\* A plan state alone, as an engine that has reported nothing.
LEMMA BlankIs ==
    ASSUME NEW st \in States
    PROVE  /\ Blank(st) \in Acc /\ Blank(st).st = st /\ Blank(st).fires = <<>>
           /\ \A id \in RuleIds : Tally(<<>>)[id] = 0
<1>1. <<>> \in Seq(Fire)
    OBVIOUS
<1>2. ASSUME NEW id \in RuleIds PROVE Tally(<<>>)[id] = 0
    <2>1. Places(<<>>, id) = {}
        BY DEF Places
    <2>2. QED
        BY <2>1, FS_EmptySet DEF Tally
<1>3. QED
    BY <1>1, <1>2 DEF Blank, Acc

\* A tick, by the report of its evaluation.
LEMMA TickIs ==
    ASSUME rules \in Plans, NEW closed, Tape(closed), NEW at \in Nat,
           NEW engine, Follows(engine, closed)
    PROVE  LET next == TapeTick(engine, closed, at)
               result == Result(engine.st, closed, at)
           IN  /\ Follows(next, closed)
               /\ engine.st.phase = "done" => next = engine
               /\ engine.st.phase # "done" =>
                     /\ result \in Acc
                     /\ next.st = result.st
                     /\ \A id \in RuleIds : Tally(next.fires)[id]
                           = Tally(engine.fires)[id] + Tally(result.fires)[id]
<1> DEFINE fresh == SubSeq(closed, engine.st.watermark + 1, Len(closed))
           last == closed[Len(closed)]
           result == IF fresh = <<>> THEN Controls(Blank(engine.st), last, at)
                     ELSE EvaluatePlan(engine.st, fresh, at)
           next == [st |-> result.st, fires |-> engine.fires \o result.fires]
<1>1. /\ engine \in Acc /\ engine.st \in States /\ engine.fires \in Seq(Fire)
      /\ engine.st.watermark \in 1..Len(closed)
    BY DEF Follows, Acc
<1>2. /\ fresh \in Seq(Candle) /\ last \in Candle
      /\ \A i \in 1..Len(fresh) : fresh[i].n = engine.st.watermark + i
    BY <1>1, TapeBars DEF Fresh
<1>3. TapeTick(engine, closed, at) = IF engine.st.phase = "done" THEN engine ELSE next
    BY DEF TapeTick, EvaluateControlsOnly, Blank
<1>4. Result(engine.st, closed, at) = result
    BY DEF Result
<1>5. Follows(TapeTick(engine, closed, at), closed)
    BY <1>1, TapeTickType DEF Follows
<1>6. CASE engine.st.phase # "done"
    <2>1. result \in Acc
        <3>1. Controls(Blank(engine.st), last, at) \in Acc
            BY <1>1, <1>2, BlankIs, ControlsKeep
        <3>2. EvaluatePlan(engine.st, fresh, at) \in Acc
            <4> HIDE DEF fresh
            <4>1. QED
                BY <1>1, <1>2, <1>6, PlanType
        <3>3. QED
            BY <3>1, <3>2
    <2> HIDE DEF result
    <2>2. result.fires \in Seq(Fire)
        BY <2>1 DEF Acc
    <2>3. \A id \in RuleIds : Tally(engine.fires \o result.fires)[id]
              = Tally(engine.fires)[id] + Tally(result.fires)[id]
        BY <1>1, <2>2, TallyJoined
    <2> DEFINE u == TapeTick(engine, closed, at)
               joined == engine.fires \o result.fires
    <2>4. u = [st |-> result.st, fires |-> joined]
        BY <1>3, <1>6
    <2> HIDE DEF u, joined
    <2>5. u.st = result.st /\ u.fires = joined
        BY <2>4
    <2> USE DEF joined
    <2> HIDE DEF u
    <2>6. QED
        BY <1>4, <1>5, <1>6, <2>1, <2>3, <2>5 DEF u
<1>7. QED
    BY <1>3, <1>5, <1>6

\* A tick keeps engines in agreement.
LEMMA TickRespects ==
    ASSUME rules \in Plans, NEW closed, Tape(closed), NEW at \in Nat,
           NEW x, Follows(x, closed), NEW y, Follows(y, closed),
           NEW d \in Margins, Alike(x, y, d)
    PROVE  Alike(TapeTick(x, closed, at), TapeTick(y, closed, at), d)
<1> DEFINE u == TapeTick(x, closed, at)
           v == TapeTick(y, closed, at)
           r == Result(x.st, closed, at)
<1>1. x.st = y.st /\ \A id \in RuleIds : Tally(x.fires)[id] = Tally(y.fires)[id] + d[id]
    BY DEF Alike
<1>2. x.st.phase = "done" => u = x /\ v = y
    BY <1>1, TickIs
<1>3. x.st.phase # "done" => /\ r \in Acc /\ u.st = r.st /\ v.st = r.st
                             /\ \A id \in RuleIds :
                                   /\ Tally(u.fires)[id] = Tally(x.fires)[id] + Tally(r.fires)[id]
                                   /\ Tally(v.fires)[id] = Tally(y.fires)[id] + Tally(r.fires)[id]
    BY <1>1, TickIs
<1> HIDE DEF u, v, r
<1>4. CASE x.st.phase # "done"
    <2>1. ASSUME NEW id \in RuleIds PROVE Tally(u.fires)[id] = Tally(v.fires)[id] + d[id]
        <3>1. /\ Tally(y.fires)[id] \in Nat /\ d[id] \in Int /\ Tally(r.fires)[id] \in Nat
              /\ Tally(x.fires)[id] = Tally(y.fires)[id] + d[id]
            BY <1>1, <1>3, <1>4, Counts DEF Follows, Acc, Margins
        <3>2. QED
            BY <1>3, <1>4, <3>1
    <2>2. QED
        BY <1>3, <1>4, <2>1 DEF Alike, u, v
<1>5. QED
    BY <1>2, <1>4 DEF u, v

\* A tick that finds nothing new runs the controls.
LEMMA QuietTick ==
    ASSUME rules \in Plans, NEW closed, Tape(closed), NEW at \in Nat,
           NEW x, Follows(x, closed), x.st.phase # "done", x.st.watermark = Len(closed)
    PROVE  Alike(TapeTick(x, closed, at), Controls(x, closed[Len(closed)], at), NoMargin)
<1> DEFINE last == closed[Len(closed)]
           u == TapeTick(x, closed, at)
           r == Controls(Blank(x.st), last, at)
           v == Controls(x, last, at)
           d == [id \in RuleIds |-> -Tally(x.fires)[id]]
<1>1. x \in Acc /\ x.st \in States /\ x.fires \in Seq(Fire) /\ last \in Candle
    BY TapeBars DEF Follows, Acc
<1>2. SubSeq(closed, Len(closed) + 1, Len(closed)) = <<>>
    BY DEF Tape
<1>3. r = Result(x.st, closed, at)
    BY <1>2 DEF Result
<1>4. /\ r \in Acc /\ u.st = r.st
      /\ \A id \in RuleIds : Tally(u.fires)[id] = Tally(x.fires)[id] + Tally(r.fires)[id]
    BY <1>3, TickIs
<1>5. \A id \in RuleIds : Tally(x.fires)[id] \in Nat
    BY <1>1, Counts
<1>6. d \in Margins
    BY <1>5 DEF Margins
<1>7. Alike(Blank(x.st), x, d)
    <2>1. \A id \in RuleIds : Tally(<<>>)[id] = Tally(x.fires)[id] + d[id]
        BY <1>1, <1>5, BlankIs
    <2>2. QED
        BY <1>1, <2>1, BlankIs DEF Alike
<1> HIDE DEF last, d
<1>8. Alike(r, v, d)
    BY <1>1, <1>6, <1>7, BlankIs, ControlsAlike
<1>9. v \in Acc
    BY <1>1, ControlsKeep
<1> HIDE DEF r, u, v
<1>10. ASSUME NEW id \in RuleIds PROVE Tally(u.fires)[id] = Tally(v.fires)[id] + NoMargin[id]
    <2>1. /\ Tally(v.fires)[id] \in Nat /\ Tally(x.fires)[id] \in Nat /\ NoMargin[id] = 0
          /\ d[id] = -Tally(x.fires)[id]
        BY <1>5, <1>9, Counts DEF Acc, NoMargin, d
    <2>2. Tally(r.fires)[id] = Tally(v.fires)[id] + d[id]
        BY <1>8 DEF Alike
    <2>3. Tally(u.fires)[id] = Tally(x.fires)[id] + Tally(r.fires)[id]
        BY <1>4
    <2>4. QED
        BY <2>1, <2>2, <2>3
<1>11. QED
    BY <1>4, <1>8, <1>10 DEF Alike, u, v, last

\* A tick of a plan state that has reported nothing.
LEMMA BlankTick ==
    ASSUME rules \in Plans, NEW closed, Tape(closed), NEW at \in Nat,
           NEW st \in States, st.watermark \in 1..Len(closed)
    PROVE  /\ Follows(Blank(st), closed)
           /\ st.phase # "done" =>
                 /\ Result(st, closed, at) \in Acc
                 /\ Alike(TapeTick(Blank(st), closed, at), Result(st, closed, at), NoMargin)
<1> DEFINE x == Blank(st)
           u == TapeTick(x, closed, at)
           r == Result(st, closed, at)
<1>1. x \in Acc /\ x.st = st /\ x.fires = <<>> /\ \A id \in RuleIds : Tally(x.fires)[id] = 0
    BY BlankIs
<1>2. Follows(x, closed)
    BY <1>1 DEF Follows
<1>3. st.phase # "done" =>
        /\ r \in Acc /\ u.st = r.st
        /\ \A id \in RuleIds : Tally(u.fires)[id] = Tally(x.fires)[id] + Tally(r.fires)[id]
    BY <1>1, <1>2, TickIs
<1> HIDE DEF x, u, r
<1>4. ASSUME st.phase # "done", NEW id \in RuleIds
      PROVE  Tally(u.fires)[id] = Tally(r.fires)[id] + NoMargin[id]
    <2>1. Tally(r.fires)[id] \in Nat /\ NoMargin[id] = 0
        BY <1>3, <1>4, Counts DEF Acc, NoMargin
    <2>2. QED
        BY <1>1, <1>3, <1>4, <2>1
<1>5. QED
    BY <1>2, <1>3, <1>4 DEF Alike, x, u, r

\* Engines as far from two engines that agree, agree.
LEMMA AlikeBoth ==
    ASSUME NEW x \in Acc, NEW y \in Acc, NEW u \in Acc, NEW v \in Acc, NEW d \in Margins,
           Alike(x, u, d), Alike(y, v, d), Alike(u, v, NoMargin)
    PROVE  Alike(x, y, NoMargin)
<1>1. ASSUME NEW id \in RuleIds
      PROVE  Tally(x.fires)[id] = Tally(y.fires)[id] + NoMargin[id]
    <2>1. /\ Tally(x.fires)[id] \in Nat /\ Tally(y.fires)[id] \in Nat /\ Tally(u.fires)[id] \in Nat
          /\ Tally(v.fires)[id] \in Nat /\ NoMargin[id] = 0 /\ d[id] \in Int
        BY Counts DEF Acc, NoMargin, Margins
    <2>2. /\ Tally(x.fires)[id] = Tally(u.fires)[id] + d[id]
          /\ Tally(y.fires)[id] = Tally(v.fires)[id] + d[id]
          /\ Tally(u.fires)[id] = Tally(v.fires)[id] + NoMargin[id]
        BY DEF Alike
    <2>3. QED
        BY <2>1, <2>2
<1>2. QED
    BY <1>1 DEF Alike

\* Agreement without a margin: reflexive, symmetric, transitive.
LEMMA AlikeChain ==
    /\ NoMargin \in Margins
    /\ \A x \in Acc : Alike(x, x, NoMargin)
    /\ \A x, y \in Acc : Alike(x, y, NoMargin) => Alike(y, x, NoMargin)
    /\ \A x, y, z \in Acc : Alike(x, y, NoMargin) /\ Alike(y, z, NoMargin) => Alike(x, z, NoMargin)
<1>1. NoMargin \in Margins
    BY DEF NoMargin, Margins
<1>2. ASSUME NEW x \in Acc PROVE Alike(x, x, NoMargin)
    <2>1. \A id \in RuleIds : Tally(x.fires)[id] \in Nat /\ NoMargin[id] = 0
        BY Counts DEF Acc, NoMargin
    <2>2. QED
        BY <2>1 DEF Alike
<1>3. QED
    BY <1>1, <1>2, AlikeAgain

(* The state a tick with fresh bars leaves before the controls between bars. *)
CaughtUp(st, closed, at) ==
    EvaluatePlan(st, SubSeq(closed, st.watermark + 1, Len(closed)), at)

Settle(acc, bar, clock) ==
    IF acc.st.phase = "done" THEN acc ELSE Controls(acc, bar, clock)

(* Nothing is left for a tick to do.                                        *)
Fulfilled(st, closed, at) ==
    \/ st.phase = "done"
    \/ st.watermark = Len(closed) /\ FiredBy(st, at, Len(rules)) = {}

\* Once every fresh bar is folded the plan is done or its watermark is the newest bar.
LEMMA CaughtUpIs ==
    ASSUME rules \in Plans, NEW closed, Tape(closed), NEW at \in Nat,
           NEW st \in States, st.watermark \in 1..Len(closed)
    PROVE  LET next == CaughtUp(st, closed, at) IN
           /\ Follows(next, closed)
           /\ next.st.phase # "done" => next.st.watermark = Len(closed)
<1> DEFINE fresh == SubSeq(closed, st.watermark + 1, Len(closed))
           w == st.watermark
<1>1. Blank(st).st = st
    BY BlankIs
<1>2. /\ fresh \in Seq(Candle) /\ Len(fresh) = Len(closed) - w
      /\ \A i \in 1..Len(fresh) : fresh[i].n = w + i
    BY <1>1, TapeBars DEF Fresh
<1>3. CaughtUp(st, closed, at) = EvaluatePlan(st, fresh, at)
    BY DEF CaughtUp
<1>4. Len(closed) \in Nat /\ w \in 1..Len(closed)
    BY DEF Tape
<1> HIDE DEF fresh
<1>5. CASE st.phase = "done"
    BY <1>2, <1>3, <1>4, <1>5, PlanRests, BlankIs DEF Follows
<1>6. CASE st.phase # "done"
    <2>1. LET next == EvaluatePlan(st, fresh, at) IN
          /\ next \in Acc /\ next.st.watermark \in w..(w + Len(fresh))
          /\ next.st.phase # "done" => next.st.watermark = w + Len(fresh)
        BY <1>2, <1>6, PlanType
    <2>2. QED
        BY <1>2, <1>3, <1>4, <2>1 DEF Follows
<1>7. QED
    BY <1>5, <1>6

\* A tick with nothing left to do does nothing.
LEMMA FulfilledTick ==
    ASSUME rules \in Plans, NEW closed, Tape(closed), NEW at \in Nat,
           NEW x, Follows(x, closed), Fulfilled(x.st, closed, at)
    PROVE  Alike(TapeTick(x, closed, at), x, NoMargin)
<1> DEFINE last == closed[Len(closed)]
           u == TapeTick(x, closed, at)
           v == Controls(x, last, at)
<1>1. x \in Acc /\ last \in Candle /\ x.st.watermark \in 1..Len(closed)
    BY TapeBars DEF Follows
<1>2. u \in Acc /\ (x.st.phase = "done" => u = x)
    BY TickIs DEF Follows
<1>3. CASE x.st.phase = "done"
    BY <1>1, <1>2, <1>3, AlikeChain
<1>4. CASE x.st.phase # "done"
    <2>1. x.st.watermark = Len(closed) /\ FiredBy(x.st, at, Len(rules)) = {}
        BY <1>4 DEF Fulfilled
    <2>2. Alike(u, v, NoMargin)
        BY <1>4, <2>1, QuietTick
    <2>3. v \in Acc /\ Alike(v, x, NoMargin)
        BY <1>1, <2>1, ControlsSettled, ControlsKeep
    <2> HIDE DEF u, v
    <2>4. Alike(u, x, NoMargin)
        BY <1>1, <1>2, <2>2, <2>3, AlikeChain
    <2>5. QED
        BY <2>4 DEF u
<1>5. QED
    BY <1>3, <1>4

\* Once the controls between bars have run, nothing is left to do.
LEMMA SettleIs ==
    ASSUME rules \in Plans, NEW closed, Tape(closed), NEW at \in Nat,
           NEW x, Follows(x, closed), x.st.phase # "done" => x.st.watermark = Len(closed)
    PROVE  LET next == Settle(x, closed[Len(closed)], at) IN
           /\ Follows(next, closed)
           /\ Fulfilled(next.st, closed, at)
           /\ next.st.phase = x.st.phase
<1> DEFINE last == closed[Len(closed)]
           v == Controls(x, last, at)
<1>1. x \in Acc /\ last \in Candle /\ x.st.watermark \in 1..Len(closed)
    BY TapeBars DEF Follows
<1>2. v \in Acc /\ v.st.phase = x.st.phase /\ v.st.watermark = x.st.watermark
    BY <1>1, ControlsKeep
<1>3. FiredBy(v.st, at, Len(rules)) = {}
    BY <1>1, ControlsSettle
<1>4. Settle(x, last, at) = IF x.st.phase = "done" THEN x ELSE v
    BY DEF Settle
<1> HIDE DEF v, last
<1>5. QED
    BY <1>1, <1>2, <1>3, <1>4 DEF Follows, Fulfilled, last

\* Two ticks fold the fresh bars and then run the controls between bars.
LEMMA TwoTicks ==
    ASSUME rules \in Plans, NEW closed, Tape(closed), NEW at \in Nat,
           NEW st \in States, st.watermark \in 1..Len(closed)
    PROVE  Alike(TapeTick(TapeTick(Blank(st), closed, at), closed, at),
                 Settle(CaughtUp(st, closed, at), closed[Len(closed)], at), NoMargin)
<1> DEFINE x == Blank(st)
           t == TapeTick(x, closed, at)
           tt == TapeTick(t, closed, at)
           y == CaughtUp(st, closed, at)
           last == closed[Len(closed)]
           s == Settle(y, last, at)
           fresh == SubSeq(closed, st.watermark + 1, Len(closed))
<1>1. Follows(x, closed) /\ x.st = st /\ last \in Candle
    BY BlankTick, BlankIs, TapeBars
<1>2. /\ Follows(y, closed) /\ (y.st.phase # "done" => y.st.watermark = Len(closed))
    BY CaughtUpIs
<1>3. Follows(s, closed) /\ Fulfilled(s.st, closed, at)
    <2> HIDE DEF y
    <2>1. QED
        BY <1>2, SettleIs
<1>4. Follows(t, closed)
    BY <1>1, TickIs
<1>5. Follows(tt, closed)
    <2> HIDE DEF t
    <2>1. QED
        BY <1>4, TickIs
<1>6. /\ fresh \in Seq(Candle) /\ Len(fresh) = Len(closed) - st.watermark
      /\ Len(closed) \in Nat /\ st.watermark \in 1..Len(closed)
    BY <1>1, TapeBars DEF Fresh, Tape
<1>7. /\ y = EvaluatePlan(st, fresh, at)
      /\ st.phase = "done" \/ fresh = <<>> => y = x
    BY <1>6, PlanRests DEF CaughtUp
<1>8. /\ s = IF y.st.phase = "done" THEN y ELSE Controls(y, last, at)
      /\ s \in Acc /\ y \in Acc /\ t \in Acc /\ tt \in Acc /\ x \in Acc
    BY <1>1, <1>2, <1>3, <1>4, <1>5 DEF Settle, Follows
<1>9. CASE st.phase = "done"
    <2>1. t = x
        <3>1. x.st.phase = "done"
            BY <1>1, <1>9
        <3> HIDE DEF x
        <3>2. QED
            BY <1>1, <3>1, TickIs
    <2>2. tt = x
        BY <2>1
    <2>3. s = x
        BY <1>1, <1>7, <1>8, <1>9
    <2> HIDE DEF s, tt, x
    <2>4. Alike(tt, s, NoMargin)
        BY <1>8, <2>2, <2>3, AlikeChain
    <2>5. QED
        BY <2>4 DEF s, tt, x
<1>10. CASE st.phase # "done" /\ fresh = <<>>
    <2> DEFINE u == Controls(x, last, at)
               w == Controls(t, last, at)
    <2>1. st.watermark = Len(closed)
        <3> HIDE DEF fresh
        <3>1. Len(fresh) = 0
            BY <1>10
        <3>2. QED
            BY <1>6, <3>1
    <2>2. Alike(t, u, NoMargin) /\ s = u
        BY <1>1, <1>7, <1>8, <1>10, <2>1, QuietTick
    <2>3. u \in Acc /\ u.st.phase = st.phase /\ u.st.watermark = st.watermark
        <3> HIDE DEF x, last
        <3>1. QED
            BY <1>1, <1>8, ControlsKeep
    <2>4. t.st.phase # "done" /\ t.st.watermark = Len(closed)
        BY <1>10, <2>1, <2>2, <2>3 DEF Alike
    <2>5. Alike(tt, w, NoMargin)
        <3> HIDE DEF t
        <3>1. QED
            BY <1>4, <2>4, QuietTick
    <2> DEFINE uu == Controls(u, last, at)
    <2>6. Alike(w, uu, NoMargin)
        <3> HIDE DEF t, u, last
        <3>1. QED
            BY <1>1, <1>8, <2>2, <2>3, AlikeChain, ControlsAlike
    <2>7. Alike(uu, u, NoMargin)
        BY <1>1, <1>8, ControlsCompose
    <2>8. w \in Acc /\ uu \in Acc
        <3> HIDE DEF t, u, last
        <3>1. QED
            BY <1>1, <1>8, <2>3, ControlsKeep
    <2> HIDE DEF s, tt, u, uu, w
    <2>9. Alike(tt, s, NoMargin)
        BY <1>8, <2>2, <2>3, <2>5, <2>6, <2>7, <2>8, AlikeChain
    <2>10. QED
        BY <2>9 DEF s, tt
<1>11. CASE st.phase # "done" /\ fresh # <<>>
    <2>1. Result(st, closed, at) = y
        BY <1>7, <1>11 DEF Result
    <2>2. Alike(t, y, NoMargin)
        BY <1>11, <2>1, BlankTick
    <2> DEFINE ty == TapeTick(y, closed, at)
    <2>3. Alike(tt, ty, NoMargin)
        <3> HIDE DEF t, y
        <3>1. QED
            BY <1>2, <1>4, <2>2, AlikeChain, TickRespects
    <2>4. ty \in Acc /\ (y.st.phase = "done" => ty = y)
        <3> HIDE DEF y
        <3>1. QED
            BY <1>2, TickIs DEF Follows
    <2>5. Alike(ty, s, NoMargin)
        <3> HIDE DEF y, s, ty
        <3>1. CASE y.st.phase = "done"
            BY <1>8, <2>4, <3>1, AlikeChain
        <3>2. CASE y.st.phase # "done"
            BY <1>2, <1>8, <3>2, QuietTick DEF ty, last
        <3>3. QED
            BY <3>1, <3>2
    <2> HIDE DEF s, tt, ty
    <2>6. Alike(tt, s, NoMargin)
        BY <1>8, <2>3, <2>4, <2>5, AlikeChain
    <2>7. QED
        BY <2>6 DEF s, tt
<1>12. QED
    BY <1>9, <1>10, <1>11

-----------------------------------------------------------------------------
(* Two ticks, and the same two ticks an instant later.                      *)

Twice(engine, closed, at) == TapeTick(TapeTick(engine, closed, at), closed, at)

\* What two ticks leave, whatever the engine reported before; and nothing is left to do.
LEMMA TwiceIs ==
    ASSUME rules \in Plans, NEW closed, Tape(closed), NEW at \in Nat,
           NEW x, Follows(x, closed)
    PROVE  LET next == Twice(x, closed, at)
               due == Settle(CaughtUp(x.st, closed, at), closed[Len(closed)], at)
               d == Tally(x.fires)
           IN  /\ Follows(next, closed) /\ Follows(due, closed)
               /\ d \in Margins /\ Alike(next, due, d)
               /\ Fulfilled(next.st, closed, at)
<1> DEFINE b == Blank(x.st)
           t == TapeTick(x, closed, at)
           u == TapeTick(b, closed, at)
           tt == TapeTick(t, closed, at)
           uu == TapeTick(u, closed, at)
           y == CaughtUp(x.st, closed, at)
           s == Settle(y, closed[Len(closed)], at)
           d == Tally(x.fires)
<1>1. /\ x \in Acc /\ x.st \in States /\ x.fires \in Seq(Fire) /\ x.st.watermark \in 1..Len(closed)
    BY DEF Follows, Acc
<1>2. d \in [RuleIds -> Nat]
    BY <1>1, TallyType
<1>3. d \in Margins
    BY <1>2 DEF Margins
<1>4. Alike(x, b, d)
    <2>1. ASSUME NEW id \in RuleIds PROVE Tally(x.fires)[id] = Tally(b.fires)[id] + d[id]
        <3>1. b.fires = <<>> /\ Tally(<<>>)[id] = 0 /\ d[id] \in Nat
            BY <1>1, <1>2, BlankIs
        <3>2. QED
            BY <3>1
    <2>2. QED
        BY <1>1, <2>1, BlankIs DEF Alike
<1>5. Follows(b, closed)
    BY <1>1, BlankTick
<1>6. Follows(y, closed) /\ (y.st.phase # "done" => y.st.watermark = Len(closed))
    BY <1>1, CaughtUpIs
<1>7. Follows(s, closed) /\ Fulfilled(s.st, closed, at)
    <2> HIDE DEF y
    <2>1. QED
        BY <1>6, SettleIs
<1>8. Alike(uu, s, NoMargin)
    BY <1>1, TwoTicks
<1> HIDE DEF b, d, s
<1>9. Follows(t, closed) /\ Follows(u, closed) /\ Alike(t, u, d)
    BY <1>3, <1>4, <1>5, TickRespects, TickIs
<1> HIDE DEF t, u
<1>10. Follows(tt, closed) /\ Follows(uu, closed) /\ Alike(tt, uu, d)
    BY <1>3, <1>9, TickRespects, TickIs
<1> HIDE DEF tt, uu
<1>11. Alike(tt, s, d)
    BY <1>3, <1>7, <1>8, <1>10, AlikeAgain DEF Follows
<1>12. tt = Twice(x, closed, at)
    BY DEF Twice, tt, t
<1>13. Fulfilled(tt.st, closed, at)
    BY <1>7, <1>11 DEF Alike
<1>14. QED
    BY <1>3, <1>7, <1>10, <1>11, <1>12, <1>13 DEF s, d

\* The third tick does nothing.
LEMMA ThirdTick ==
    ASSUME rules \in Plans, NEW closed, Tape(closed), NEW at \in Nat,
           NEW x, Follows(x, closed)
    PROVE  /\ Alike(TapeTick(Twice(x, closed, at), closed, at), Twice(x, closed, at), NoMargin)
           /\ Twice(TapeTick(x, closed, at), closed, at) = TapeTick(Twice(x, closed, at), closed, at)
<1> DEFINE tt == Twice(x, closed, at)
<1>1. Follows(tt, closed) /\ Fulfilled(tt.st, closed, at)
    BY TwiceIs
<1> HIDE DEF tt
<1>2. Alike(TapeTick(tt, closed, at), tt, NoMargin)
    BY <1>1, FulfilledTick
<1>3. QED
    BY <1>2 DEF tt, Twice

\* The bars that are fresh to a plan state.
LEMMA FreshOf ==
    ASSUME NEW closed, Tape(closed), NEW st \in States, st.watermark \in 1..Len(closed)
    PROVE  LET fresh == SubSeq(closed, st.watermark + 1, Len(closed)) IN
           /\ fresh \in Seq(Candle) /\ Len(fresh) = Len(closed) - st.watermark
           /\ \A i \in 1..Len(fresh) : fresh[i] = closed[st.watermark + i]
           /\ closed[Len(closed)] \in Candle
<1> DEFINE x == Blank(st)
<1>1. x.st = st
    BY BlankIs
<1> HIDE DEF x
<1>2. x.st.watermark \in 1..Len(closed)
    BY <1>1
<1>3. /\ Fresh(x, closed) \in Seq(Candle)
      /\ Len(Fresh(x, closed)) = Len(closed) - x.st.watermark
      /\ \A i \in 1..Len(Fresh(x, closed)) : Fresh(x, closed)[i] = closed[x.st.watermark + i]
      /\ closed[Len(closed)] \in Candle
    BY <1>2, TapeBars
<1>4. Fresh(x, closed) = SubSeq(closed, st.watermark + 1, Len(closed))
    BY <1>1 DEF Fresh
<1>5. QED
    BY <1>1, <1>3, <1>4

\* An instant without a bar: the controls of the later clock, at once or in turn.
LEMMA IdleInstant ==
    ASSUME rules \in Plans, NEW closed, NEW at \in Nat, Ready(closed, at),
           NEW later \in Nat, at <= later,
           NEW st \in States, st.watermark \in 1..Len(closed)
    PROVE  LET last == closed[Len(closed)] IN
           Alike(Settle(CaughtUp(st, closed, later), last, later),
                 TapeTick(Settle(CaughtUp(st, closed, at), last, at), closed, later), NoMargin)
<1> DEFINE last == closed[Len(closed)]
           fresh == SubSeq(closed, st.watermark + 1, Len(closed))
           y == CaughtUp(st, closed, at)
           s == Settle(y, last, at)
           end == Settle(y, last, later)
           t == TapeTick(s, closed, later)
<1>1. Tape(closed) /\ \A k \in 1..Len(closed) : Served(closed[k], at)
    BY DEF Ready
<1>2. Len(closed) \in Nat /\ st.watermark \in 1..Len(closed)
    BY <1>1 DEF Tape
<1>3. /\ fresh \in Seq(Candle) /\ Len(fresh) = Len(closed) - st.watermark /\ last \in Candle
      /\ \A i \in 1..Len(fresh) : fresh[i] = closed[st.watermark + i]
    BY <1>1, FreshOf
<1>4. \A i \in 1..Len(fresh) : Served(fresh[i], at)
    <2> HIDE DEF fresh
    <2>1. \A i \in 1..Len(fresh) : st.watermark + i \in 1..Len(closed)
        BY <1>2, <1>3
    <2>2. QED
        BY <1>1, <1>3, <2>1
<1>5. CaughtUp(st, closed, later) = y
    <2>1. EvaluatePlan(st, fresh, later) = EvaluatePlan(st, fresh, at)
        <3> HIDE DEF fresh
        <3>1. QED
            BY <1>3, <1>4, PlanLater
    <2>2. QED
        BY <2>1 DEF CaughtUp
<1>6. Follows(y, closed) /\ (y.st.phase # "done" => y.st.watermark = Len(closed))
    BY <1>1, CaughtUpIs
<1> HIDE DEF y, last
<1>7. Follows(s, closed) /\ s.st.phase = y.st.phase
    BY <1>1, <1>6, SettleIs DEF last
<1>8. CASE y.st.phase = "done"
    <2>1. s = y /\ end = y
        BY <1>8 DEF Settle
    <2>2. t = s
        <3> HIDE DEF s
        <3>1. QED
            BY <1>1, <1>7, <1>8, TickIs
    <2>3. Alike(end, t, NoMargin)
        <3> HIDE DEF s, t, end
        <3>1. QED
            BY <1>6, <2>1, <2>2, AlikeChain DEF Follows
    <2>4. QED
        BY <1>5, <2>3 DEF y, last
<1>9. CASE y.st.phase # "done"
    <2>1. s = Controls(y, last, at) /\ end = Controls(y, last, later)
        BY <1>9 DEF Settle
    <2>2. s.st.watermark = Len(closed)
        <3> HIDE DEF s
        <3>1. QED
            BY <1>3, <1>6, <1>9, <2>1, ControlsKeep DEF Follows
    <2> DEFINE c == Controls(s, last, later)
    <2>3. Alike(t, c, NoMargin)
        <3> HIDE DEF s
        <3>1. QED
            BY <1>1, <1>7, <1>9, <2>2, QuietTick DEF last
    <2>4. Alike(c, end, NoMargin)
        <3> HIDE DEF s, end
        <3>1. QED
            BY <1>3, <1>6, <2>1, ControlsCompose DEF Follows
    <2>5. c \in Acc /\ t \in Acc /\ end \in Acc
        <3> HIDE DEF s, end
        <3>1. QED
            BY <1>1, <1>3, <1>6, <1>7, <2>1, ControlsKeep, TickIs DEF Follows
    <2>6. Alike(end, t, NoMargin)
        <3> HIDE DEF s, t, end, c
        <3>1. QED
            BY <2>3, <2>4, <2>5, AlikeChain
    <2>7. QED
        BY <1>5, <2>6 DEF y, last
<1>10. QED
    BY <1>8, <1>9

\* A tick with one fresh bar evaluates that bar.
LEMMA BarTick ==
    ASSUME rules \in Plans, NEW closed, Tape(closed), NEW at \in Nat,
           NEW x, Follows(x, closed), x.st.phase # "done", x.st.watermark + 1 = Len(closed),
           NEW bar, bar = closed[Len(closed)], Served(bar, at)
    PROVE  Alike(TapeTick(x, closed, at), EvaluateBar(x, bar, at), NoMargin)
<1> DEFINE st == x.st
           b == Blank(st)
           fresh == SubSeq(closed, st.watermark + 1, Len(closed))
           u == TapeTick(x, closed, at)
           r == EvaluateBar(b, bar, at)
           v == EvaluateBar(x, bar, at)
           d == [id \in RuleIds |-> -Tally(x.fires)[id]]
<1>1. /\ x \in Acc /\ st \in States /\ x.fires \in Seq(Fire) /\ bar \in Candle
      /\ st.watermark \in 1..Len(closed) /\ Len(closed) \in Nat
    BY TapeBars DEF Follows, Acc, Tape
<1>2. fresh \in Seq(Candle) /\ Len(fresh) = 1 /\ fresh[1] = bar
    <2> HIDE DEF st
    <2>1. fresh \in Seq(Candle) /\ Len(fresh) = Len(closed) - st.watermark
        BY <1>1, FreshOf
    <2>2. \A i \in 1..Len(fresh) : fresh[i] = closed[st.watermark + i]
        BY <1>1, FreshOf
    <2> HIDE DEF fresh
    <2>3. Len(fresh) = 1
        BY <1>1, <2>1 DEF st
    <2>4. fresh[1] = closed[st.watermark + 1]
        BY <2>2, <2>3
    <2>5. QED
        BY <1>1, <2>1, <2>3, <2>4 DEF st
<1>3. EvaluatePlan(st, fresh, at) = r
    <2> HIDE DEF fresh, st
    <2>1. PICK f : RunOfBars(f, st, fresh, at)
        BY <1>1, <1>2, BarsRun
    <2>2. f[0] = b /\ f[1] = BarStep(f[1 - 1], bar, at) /\ f[1] = EvaluatePlan(st, fresh, at)
        BY <1>2, <2>1 DEF RunOfBars, Blank
    <2>3. b.st.phase # "done"
        BY <1>1, BlankIs DEF st
    <2>4. QED
        BY <2>2, <2>3 DEF BarStep
<1>4. r = Result(st, closed, at)
    <2> HIDE DEF r
    <2>1. fresh # <<>>
        <3> HIDE DEF fresh
        <3>1. CASE fresh = <<>>
            <4>1. Len(fresh) = 0
                BY <3>1
            <4>2. QED
                BY <1>2, <4>1
        <3>2. QED
            BY <3>1
    <2>2. QED
        BY <1>3, <2>1 DEF Result
<1>5. /\ r \in Acc /\ u.st = r.st
      /\ \A id \in RuleIds : Tally(u.fires)[id] = Tally(x.fires)[id] + Tally(r.fires)[id]
    <2> HIDE DEF r
    <2>1. QED
        BY <1>4, TickIs
<1>6. \A id \in RuleIds : Tally(x.fires)[id] \in Nat
    BY <1>1, Counts
<1>7. d \in Margins
    BY <1>6 DEF Margins
<1>8. b \in Acc /\ Alike(b, x, d)
    <2>1. \A id \in RuleIds : Tally(<<>>)[id] = Tally(x.fires)[id] + d[id]
        BY <1>1, <1>6, BlankIs
    <2>2. QED
        BY <1>1, <2>1, BlankIs DEF Alike
<1> HIDE DEF d, b
<1>9. Alike(r, v, d)
    BY <1>1, <1>7, <1>8, BarAlike
<1>10. v \in Acc
    BY <1>1, BarType
<1> HIDE DEF r, u, v
<1>11. ASSUME NEW id \in RuleIds PROVE Tally(u.fires)[id] = Tally(v.fires)[id] + NoMargin[id]
    <2>1. /\ Tally(v.fires)[id] \in Nat /\ Tally(x.fires)[id] \in Nat /\ NoMargin[id] = 0
          /\ d[id] = -Tally(x.fires)[id]
        BY <1>6, <1>10, Counts DEF Acc, NoMargin, d
    <2>2. Tally(r.fires)[id] = Tally(v.fires)[id] + d[id]
        BY <1>9 DEF Alike
    <2>3. Tally(u.fires)[id] = Tally(x.fires)[id] + Tally(r.fires)[id]
        BY <1>5
    <2>4. QED
        BY <2>1, <2>2, <2>3
<1>12. QED
    BY <1>5, <1>9, <1>11 DEF Alike, u, v

\* The fresh bars when one more has closed.
LEMMA FreshGrows ==
    ASSUME NEW closed \in Seq(Candle), NEW bar \in Candle, NEW w \in Nat, w <= Len(closed)
    PROVE  SubSeq(Append(closed, bar), w + 1, Len(Append(closed, bar)))
              = Append(SubSeq(closed, w + 1, Len(closed)), bar)
<1> DEFINE m == Len(closed)
           s == SubSeq(Append(closed, bar), w + 1, m + 1)
           t == Append(SubSeq(closed, w + 1, m), bar)
<1>1. m \in Nat /\ Len(Append(closed, bar)) = m + 1 /\ Append(closed, bar) \in Seq(Candle)
    OBVIOUS
<1>2. s \in Seq(Candle) /\ Len(s) = m + 1 - w
    BY <1>1
<1>3. t \in Seq(Candle) /\ Len(t) = m + 1 - w
    BY <1>1
<1>4. ASSUME NEW i \in 1..(m + 1 - w) PROVE s[i] = t[i]
    <2> DEFINE q == Append(closed, bar)
               p == SubSeq(closed, w + 1, m)
    <2>1. /\ q \in Seq(Candle) /\ q[m + 1] = bar /\ \A k \in 1..m : q[k] = closed[k]
          /\ Len(q) = m + 1
        BY <1>1
    <2>2. /\ p \in Seq(Candle) /\ Len(p) = m - w
          /\ \A k \in 1..(m - w) : p[k] = closed[w + k]
        BY <1>1
    <2>3. t[m + 1 - w] = bar /\ \A k \in 1..(m - w) : t[k] = p[k]
        <3> HIDE DEF p
        <3>1. QED
            BY <1>1, <2>2
    <2>4. s[i] = q[w + i]
        <3> HIDE DEF q
        <3>1. QED
            BY <1>1, <2>1 DEF q
    <2> HIDE DEF s, t, q, p
    <2>5. CASE i = m + 1 - w
        BY <1>1, <2>1, <2>3, <2>4, <2>5
    <2>6. CASE i # m + 1 - w
        <3>1. i \in 1..(m - w) /\ w + i \in 1..m
            BY <1>1, <2>6
        <3>2. QED
            BY <2>1, <2>2, <2>3, <2>4, <3>1
    <2>7. QED
        BY <2>5, <2>6
<1> HIDE DEF s, t
<1>5. s = t
    BY <1>1, <1>2, <1>3, <1>4
<1>6. QED
    BY <1>1, <1>5 DEF s, t

\* An instant that closes a bar: the bar after the controls, or at once.
LEMMA BarInstant ==
    ASSUME rules \in Plans, NEW closed, NEW at \in Nat, Ready(closed, at),
           NEW later \in Nat, at <= later,
           NEW bar \in Candle, Closes(bar) = later, NEW more, more = Append(closed, bar), Tape(more),
           NEW st \in States, st.watermark \in 1..Len(closed)
    PROVE  Alike(Settle(CaughtUp(st, more, later), more[Len(more)], later),
                 TapeTick(Settle(CaughtUp(st, closed, at), closed[Len(closed)], at), more, later),
                 NoMargin)
<1> DEFINE last == closed[Len(closed)]
           fresh == SubSeq(closed, st.watermark + 1, Len(closed))
           y == CaughtUp(st, closed, at)
           s == Settle(y, last, at)
           z == CaughtUp(st, more, later)
           end == Settle(z, bar, later)
           t == TapeTick(s, more, later)
<1>1. Tape(closed) /\ closed \in Seq(Candle) /\ \A k \in 1..Len(closed) : Served(closed[k], at)
    BY DEF Ready, Tape
<1>2. /\ Len(closed) \in Nat /\ st.watermark \in 1..Len(closed)
      /\ Len(more) = Len(closed) + 1 /\ more[Len(more)] = bar /\ bar.n = Len(more)
    BY <1>1 DEF Tape
<1>3. /\ fresh \in Seq(Candle) /\ Len(fresh) = Len(closed) - st.watermark /\ last \in Candle
      /\ \A i \in 1..Len(fresh) : fresh[i] = closed[st.watermark + i]
    BY <1>1, FreshOf
<1>4. \A i \in 1..Len(fresh) : Served(fresh[i], at)
    <2> HIDE DEF fresh
    <2>1. \A i \in 1..Len(fresh) : st.watermark + i \in 1..Len(closed)
        BY <1>2, <1>3
    <2>2. QED
        BY <1>1, <1>3, <2>1
<1>5. z = BarStep(y, bar, later)
    <2>1. SubSeq(more, st.watermark + 1, Len(more)) = Append(fresh, bar)
        <3> DEFINE w == st.watermark
        <3>1. w \in Nat /\ w <= Len(closed)
            BY <1>2
        <3> HIDE DEF w
        <3>2. SubSeq(Append(closed, bar), w + 1, Len(Append(closed, bar)))
                 = Append(SubSeq(closed, w + 1, Len(closed)), bar)
            BY <1>1, <3>1, FreshGrows
        <3>3. QED
            BY <3>2 DEF w
    <2>2. z = EvaluatePlan(st, Append(fresh, bar), later)
        BY <2>1 DEF CaughtUp
    <2>3. y = EvaluatePlan(st, fresh, at)
        BY DEF CaughtUp
    <2> HIDE DEF fresh, y, z
    <2>4. QED
        BY <1>3, <1>4, <2>2, <2>3, PlanAppended
<1>6. Follows(y, closed) /\ (y.st.phase # "done" => y.st.watermark = Len(closed))
    BY <1>1, CaughtUpIs
<1> HIDE DEF y, z, last
<1>7. Follows(s, closed) /\ s.st.phase = y.st.phase
    BY <1>1, <1>6, SettleIs DEF last
<1>8. Follows(s, more) /\ Served(bar, later)
    <2> HIDE DEF s
    <2>1. QED
        BY <1>2, <1>7 DEF Follows, Served
<1>9. CASE y.st.phase = "done"
    <2>1. s = y /\ z = y
        BY <1>5, <1>9 DEF Settle, BarStep
    <2>2. end = y
        BY <1>9, <2>1 DEF Settle
    <2>3. t = s
        <3> HIDE DEF s
        <3>1. QED
            BY <1>7, <1>8, <1>9, TickIs
    <2>4. Alike(end, t, NoMargin)
        <3> HIDE DEF s, t, end
        <3>1. QED
            BY <1>6, <2>1, <2>2, <2>3, AlikeChain DEF Follows
    <2>5. QED
        BY <1>2, <2>4 DEF z, y, last
<1>10. CASE y.st.phase # "done"
    <2>1. s = Controls(y, last, at) /\ z = EvaluateBar(y, bar, later)
        BY <1>5, <1>10 DEF Settle, BarStep
    <2>2. s.st.watermark = Len(closed) /\ s.st \in States
        <3> HIDE DEF s
        <3>1. QED
            BY <1>3, <1>6, <1>7, <1>10, <2>1, ControlsKeep DEF Follows, Acc
    <2> DEFINE c == Controls(s, bar, later)
               k == Controls(y, bar, later)
               e == EvaluateBar(s, bar, later)
    <2>3. s \in Acc /\ y \in Acc
        BY <1>6, <1>7 DEF Follows
    <2>4. Alike(c, k, NoMargin) /\ c \in Acc /\ k \in Acc
        <3> HIDE DEF s
        <3>1. QED
            BY <1>3, <2>1, <2>3, ControlsCompose, ControlsKeep
    <2>5. z = AfterControls(k, bar) /\ e = AfterControls(c, bar)
        <3> HIDE DEF s
        <3>1. QED
            BY <1>8, <2>1, BarAtClose
    <2>6. Alike(e, z, NoMargin) /\ e \in Acc /\ z \in Acc
        <3> HIDE DEF c, k, e
        <3>1. QED
            BY <2>4, <2>5, AlikeChain, AfterControlsAlike, AfterControlsKeep
    <2>7. FiredBy(z.st, later, Len(rules)) = {}
        BY <1>8, <2>1, <2>3, BarSettles
    <2>8. Alike(end, z, NoMargin) /\ end \in Acc
        <3>1. CASE z.st.phase = "done"
            BY <2>6, <3>1, AlikeChain DEF Settle
        <3>2. CASE z.st.phase # "done"
            BY <2>6, <2>7, <3>2, ControlsSettled, ControlsKeep DEF Settle
        <3>3. QED
            BY <3>1, <3>2
    <2>9. Alike(t, e, NoMargin)
        <3> HIDE DEF s
        <3>1. QED
            BY <1>2, <1>7, <1>8, <1>10, <2>2, <2>3, BarTick
    <2>10. t \in Acc
        <3> HIDE DEF s
        <3>1. QED
            BY <1>8, TickIs DEF Follows
    <2> HIDE DEF end, t, e
    <2>11. Alike(end, t, NoMargin)
        BY <2>6, <2>8, <2>9, <2>10, AlikeChain
    <2>12. QED
        BY <1>2, <2>11 DEF end, t, z, y, last
<1>11. QED
    BY <1>9, <1>10

(* The market, an instant later: as it was, or with the bar that has just   *)
(* closed.                                                                  *)
Grown(closed, at, more, later) ==
    /\ Ready(closed, at) /\ Tape(more)
    /\ at \in Nat /\ later \in Nat /\ at <= later
    /\ \/ more = closed
       \/ \E bar \in Candle : more = Append(closed, bar) /\ Closes(bar) = later

\* An engine of a market follows the market an instant later.
LEMMA StillFollows ==
    ASSUME NEW closed, NEW at, NEW more, NEW later, Grown(closed, at, more, later),
           NEW x, Follows(x, closed)
    PROVE  Follows(x, more)
<1>1. Len(closed) \in Nat /\ Len(more) \in Nat /\ Len(closed) <= Len(more)
    BY DEF Grown, Ready, Tape
<1>2. QED
    BY <1>1 DEF Follows

\* Two ticks at once an instant later, or two ticks now and one then.
LEMMA TwiceLater ==
    ASSUME rules \in Plans, NEW closed, NEW at, NEW more, NEW later, Grown(closed, at, more, later),
           NEW x, Follows(x, closed)
    PROVE  Alike(Twice(x, more, later), TapeTick(Twice(x, closed, at), more, later), NoMargin)
<1> DEFINE st == x.st
           u == Twice(x, more, later)
           tt == Twice(x, closed, at)
           v == TapeTick(tt, more, later)
           s == Settle(CaughtUp(st, closed, at), closed[Len(closed)], at)
           ts == TapeTick(s, more, later)
           e == Settle(CaughtUp(st, more, later), more[Len(more)], later)
           d == Tally(x.fires)
<1>1. /\ Tape(closed) /\ Tape(more) /\ Ready(closed, at)
      /\ at \in Nat /\ later \in Nat /\ at <= later
      /\ st \in States /\ st.watermark \in 1..Len(closed) /\ Follows(x, more)
    BY StillFollows DEF Grown, Ready, Follows, Acc
<1>2. Follows(tt, closed) /\ Follows(s, closed) /\ d \in Margins /\ Alike(tt, s, d)
    BY <1>1, TwiceIs
<1>3. Follows(u, more) /\ Follows(e, more) /\ Alike(u, e, d)
    BY <1>1, TwiceIs
<1>4. Alike(e, ts, NoMargin)
    <2>1. CASE more = closed
        BY <1>1, <2>1, IdleInstant
    <2>2. ASSUME NEW bar \in Candle, more = Append(closed, bar), Closes(bar) = later
          PROVE  Alike(e, ts, NoMargin)
        BY <1>1, <2>2, BarInstant
    <2>3. QED
        BY <2>1, <2>2 DEF Grown
<1> HIDE DEF u, tt, s, e, d
<1>5. Follows(tt, more) /\ Follows(s, more)
    BY <1>2, StillFollows
<1>6. Alike(v, ts, d) /\ Follows(v, more) /\ Follows(ts, more)
    BY <1>1, <1>2, <1>5, TickRespects, TickIs
<1> HIDE DEF v, ts
<1>7. Alike(e, ts, NoMargin) => Alike(u, v, NoMargin)
    BY <1>2, <1>3, <1>6, AlikeBoth DEF Follows
<1>8. QED
    BY <1>4, <1>7 DEF u, v, tt

\* What a tick an instant later leaves the prompt engine to do.
LEMMA PromptKeepsUp ==
    ASSUME rules \in Plans, NEW closed, NEW at, NEW more, NEW later, Grown(closed, at, more, later),
           NEW x, Follows(x, closed), x.st.phase # "done" => x.st.watermark = Len(closed)
    PROVE  LET next == TapeTick(x, more, later) IN
           /\ next.st.phase # "done" => next.st.watermark = Len(more)
           /\ Fulfilled(next.st, more, later)
<1> DEFINE t == TapeTick(x, more, later)
<1>1. /\ Tape(closed) /\ Tape(more) /\ later \in Nat /\ x \in Acc /\ Follows(x, more)
      /\ Len(closed) \in Nat /\ Len(more) \in Nat
    BY StillFollows DEF Grown, Ready, Follows, Tape
<1>2. t.st.phase # "done" => t.st.watermark = Len(more)
    BY <1>1, TapeTickType DEF Follows
<1>3. Fulfilled(t.st, more, later)
    <2>1. CASE x.st.phase = "done"
        <3>1. t = x
            BY <1>1, <2>1, TickIs
        <3>2. QED
            BY <2>1, <3>1 DEF Fulfilled
    <2>2. CASE x.st.phase # "done" /\ more = closed
        <3> DEFINE c == Controls(x, more[Len(more)], later)
        <3>1. Alike(t, c, NoMargin)
            BY <1>1, <2>2, QuietTick
        <3>2. FiredBy(c.st, later, Len(rules)) = {}
            BY <1>1, TapeBars, ControlsSettle DEF Follows
        <3> HIDE DEF t, c
        <3>3. t.st = c.st
            BY <3>1 DEF Alike
        <3>4. QED
            BY <1>2, <3>2, <3>3 DEF Fulfilled, t
    <2>3. ASSUME x.st.phase # "done", NEW bar \in Candle,
                 more = Append(closed, bar), Closes(bar) = later
          PROVE  Fulfilled(t.st, more, later)
        <3> DEFINE e == EvaluateBar(x, bar, later)
        <3>1. Len(more) = Len(closed) + 1 /\ bar = more[Len(more)]
            BY <1>1, <2>3 DEF Tape
        <3>2. Served(bar, later)
            BY <1>1, <2>3 DEF Served
        <3>3. Alike(t, e, NoMargin)
            BY <1>1, <2>3, <3>1, <3>2, BarTick
        <3>4. FiredBy(e.st, later, Len(rules)) = {}
            BY <1>1, <2>3, <3>2, BarSettles
        <3> HIDE DEF t, e
        <3>5. t.st = e.st
            BY <3>3 DEF Alike
        <3>6. QED
            BY <1>2, <3>4, <3>5 DEF Fulfilled, t
    <2>4. more = closed \/ \E bar \in Candle : more = Append(closed, bar) /\ Closes(bar) = later
        BY DEF Grown
    <2>5. QED
        BY <2>1, <2>2, <2>3, <2>4
<1>4. QED
    BY <1>2, <1>3

(* The invariant of two engines, over one market.                           *)
Together(l, p, closed, at) ==
    /\ Alike(Twice(l, closed, at), Twice(p, closed, at), NoMargin)
    /\ p.st.phase # "done" => p.st.watermark = Len(closed)
    /\ at > Span => Fulfilled(p.st, closed, at)

\* An instant passes: the prompt engine ticks, the late one does not.
LEMMA TogetherLater ==
    ASSUME rules \in Plans, NEW closed, NEW at, NEW more, NEW later, Grown(closed, at, more, later),
           NEW l, Follows(l, closed), NEW p, Follows(p, closed), Together(l, p, closed, at)
    PROVE  Together(l, TapeTick(p, more, later), more, later)
<1> DEFINE a == Twice(l, closed, at)
           b == Twice(p, closed, at)
           ta == TapeTick(a, more, later)
           tb == TapeTick(b, more, later)
           x == Twice(l, more, later)
           y == Twice(p, more, later)
           z == Twice(TapeTick(p, more, later), more, later)
<1>1. /\ Tape(closed) /\ Tape(more) /\ at \in Nat /\ later \in Nat
      /\ Follows(l, more) /\ Follows(p, more)
    BY StillFollows DEF Grown, Ready
<1>2. Follows(a, closed) /\ Follows(b, closed) /\ Alike(a, b, NoMargin)
    BY <1>1, TwiceIs DEF Together
<1>3. Follows(x, more) /\ Follows(y, more)
    BY <1>1, TwiceIs
<1>4. Alike(x, ta, NoMargin) /\ Alike(y, tb, NoMargin)
    BY TwiceLater
<1>5. Alike(z, y, NoMargin) /\ Follows(z, more)
    <2>1. Follows(TapeTick(p, more, later), more)
        BY <1>1, TickIs
    <2>2. Follows(z, more)
        BY <1>1, <2>1, TwiceIs
    <2>3. QED
        BY <1>1, <2>2, ThirdTick
<1> HIDE DEF a, b, x, y, z
<1>6. Follows(a, more) /\ Follows(b, more)
    BY <1>2, StillFollows
<1>7. Alike(ta, tb, NoMargin) /\ Follows(ta, more) /\ Follows(tb, more)
    BY <1>1, <1>2, <1>6, AlikeChain, TickRespects, TickIs
<1> HIDE DEF ta, tb
<1>8. x \in Acc /\ y \in Acc /\ z \in Acc /\ ta \in Acc /\ tb \in Acc
    BY <1>3, <1>5, <1>7 DEF Follows
<1>9. Alike(x, tb, NoMargin)
    BY <1>4, <1>7, <1>8, AlikeChain
<1>10. Alike(tb, z, NoMargin)
    BY <1>4, <1>5, <1>8, AlikeChain
<1>11. Alike(x, z, NoMargin)
    BY <1>8, <1>9, <1>10, AlikeChain
<1>12. LET next == TapeTick(p, more, later) IN
       /\ next.st.phase # "done" => next.st.watermark = Len(more)
       /\ Fulfilled(next.st, more, later)
    BY PromptKeepsUp DEF Together
<1>13. QED
    BY <1>11, <1>12 DEF Together, x, z

\* The late engine ticks.
LEMMA TogetherTicked ==
    ASSUME rules \in Plans, NEW closed, Tape(closed), NEW at \in Nat,
           NEW l, Follows(l, closed), NEW p, Follows(p, closed), Together(l, p, closed, at)
    PROVE  Together(TapeTick(l, closed, at), p, closed, at)
<1> DEFINE a == Twice(l, closed, at)
           b == Twice(p, closed, at)
           c == Twice(TapeTick(l, closed, at), closed, at)
<1>1. Follows(TapeTick(l, closed, at), closed)
    BY TickIs
<1>2. Follows(a, closed) /\ Follows(b, closed) /\ Follows(c, closed) /\ Alike(a, b, NoMargin)
    BY <1>1, TwiceIs DEF Together
<1>3. Alike(c, a, NoMargin)
    BY ThirdTick
<1> HIDE DEF a, b, c
<1>4. Alike(c, b, NoMargin)
    BY <1>2, <1>3, AlikeChain DEF Follows
<1>5. QED
    BY <1>4 DEF Together, c, b

\* What holds of two engines together is what the runs check of them.
LEMMA TogetherIsPrompt ==
    ASSUME rules \in Plans, NEW closed, Tape(closed), NEW at \in Nat, at > Span,
           NEW l, Follows(l, closed), NEW p, Follows(p, closed), Together(l, p, closed, at)
    PROVE  /\ Twice(l, closed, at).st = p.st
           /\ FiredRules(Twice(l, closed, at)) = FiredRules(p)
<1> DEFINE a == Twice(l, closed, at)
           b == Twice(p, closed, at)
           t == TapeTick(p, closed, at)
<1>1. Follows(a, closed) /\ Follows(b, closed) /\ Alike(a, b, NoMargin)
    BY TwiceIs DEF Together
<1>2. Follows(t, closed) /\ Alike(t, p, NoMargin)
    BY FulfilledTick, TickIs DEF Together
<1>3. Alike(b, t, NoMargin)
    <2> HIDE DEF t
    <2>1. Alike(TapeTick(t, closed, at), TapeTick(p, closed, at), NoMargin)
        BY <1>2, AlikeChain, TickRespects
    <2>2. QED
        BY <2>1 DEF Twice, t
<1> HIDE DEF a, b, t
<1>4. Alike(a, p, NoMargin)
    BY <1>1, <1>2, <1>3, AlikeChain DEF Follows
<1>5. a.st = p.st
    BY <1>4 DEF Alike
<1>6. \A id \in RuleIds : Tally(a.fires)[id] = Tally(p.fires)[id]
    <2>1. \A id \in RuleIds : Tally(p.fires)[id] \in Nat /\ NoMargin[id] = 0
        BY Counts DEF Follows, Acc, NoMargin
    <2>2. \A id \in RuleIds : Tally(a.fires)[id] = Tally(p.fires)[id] + NoMargin[id]
        BY <1>4 DEF Alike
    <2>3. QED
        BY <2>1, <2>2
<1>7. FiredRules(a) = FiredRules(p)
    BY <1>6 DEF Tally, Places, FiredRules
<1>8. QED
    BY <1>5, <1>7 DEF a

-----------------------------------------------------------------------------
(* In a plan whose rules read the same in every window, a tick over the     *)
(* market is a tick over the tape of its bars, each read in a window that   *)
(* begins with the first bar and has its ATR.                               *)

Read(bar) == [bar EXCEPT !.win = Warm]

TapeOf(closed) == [i \in 1..Len(closed) |-> Read(closed[i])]

(* A bar read in a window of the market: if a line was drawn from the first *)
(* two bars the window begins with bar 1, and it has its ATR or is shorter  *)
(* than that takes.                                                         *)
InView(bar) ==
    /\ bar.win.from \in Int
    /\ \A i \in DOMAIN rules : rules[i].anchor \in 1..2 =>
          bar.win.from = 1 /\ (AtrWarm(bar) \/ bar.n < AtrLength)

\* Reading a bar of the tape changes nothing but its window.
LEMMA ReadIs ==
    ASSUME NEW bar \in Candle
    PROVE  LET p == Read(bar) IN
           /\ p \in Candle
           /\ p.n = bar.n /\ p.o = bar.o /\ p.h = bar.h /\ p.l = bar.l /\ p.c = bar.c
           /\ p.signal = bar.signal /\ p.rubbish = bar.rubbish
           /\ p.win.from = 1 /\ AtrWarm(p)
           /\ Closes(p) = Closes(bar) /\ Opens(p) = Opens(bar)
<1>1. Warm \in Windows /\ Warm.from = 1 /\ Warm.warm
    BY DEF Windows, Warm, NoWindow
<1> DEFINE p == Read(bar)
<1>2. /\ p \in Candle
      /\ p.n = bar.n /\ p.o = bar.o /\ p.h = bar.h /\ p.l = bar.l /\ p.c = bar.c
      /\ p.signal = bar.signal /\ p.rubbish = bar.rubbish /\ p.win = Warm
    BY <1>1 DEF Read, Candle
<1> HIDE DEF p
<1>3. QED
    BY <1>1, <1>2 DEF AtrWarm, Closes, Opens, p

\* A rule that reads the same in every window reads the same on the tape.
LEMMA RuleReads ==
    ASSUME rules \in Plans, NEW r \in PlanRules, ReadsAlike(r), NEW bar \in Candle
    PROVE  LET p == Read(bar) IN
           /\ \A st : Recorded(st, r, p) = Recorded(st, r, bar)
           /\ \A st : Triggered(r, st, p) <=> Triggered(r, st, bar)
           /\ \A st : Fires(r, st, p) <=> Fires(r, st, bar)
           /\ \A acc : Fired(acc, r, p) = Fired(acc, r, bar)
           /\ \A acc : Latched(acc, r, p) = Latched(acc, r, bar)
<1> DEFINE p == Read(bar)
<1>1. /\ p.n = bar.n /\ p.o = bar.o /\ p.h = bar.h /\ p.l = bar.l /\ p.c = bar.c
      /\ p.signal = bar.signal /\ p.rubbish = bar.rubbish /\ Opens(p) = Opens(bar)
    BY ReadIs
<1> HIDE DEF p
<1>2. LevelAt(r, p) = LevelAt(r, bar)
    BY <1>1 DEF LevelAt
<1>3. Buffer(r, p) = Buffer(r, bar)
    BY <1>2 DEF Buffer, ReadsAlike
<1>4. \A origin : Reseated(r, origin, p) = Reseated(r, origin, bar)
    BY <1>1, <1>2 DEF Reseated
<1>5. ASSUME NEW st PROVE Recorded(st, r, p) = Recorded(st, r, bar)
    <2> DEFINE first == IF st.origin[r.id] = NoPrice THEN bar.o ELSE st.origin[r.id]
    <2>1. Reseated(r, first, p) = Reseated(r, first, bar)
        BY <1>4
    <2>2. Recorded(st, r, p) =
              IF ~UsesClose(r) THEN st
              ELSE [st EXCEPT !.origin[r.id] = Reseated(r, first, p), !.last[r.id] = bar.c]
        BY <1>1 DEF Recorded
    <2>3. Recorded(st, r, bar) =
              IF ~UsesClose(r) THEN st
              ELSE [st EXCEPT !.origin[r.id] = Reseated(r, first, bar), !.last[r.id] = bar.c]
        BY DEF Recorded
    <2> HIDE DEF first
    <2>4. QED
        BY <2>1, <2>2, <2>3
<1>6. ASSUME NEW st PROVE Triggered(r, st, p) <=> Triggered(r, st, bar)
    <2>1. \A origin : SettledAcross(r, origin, p) <=> SettledAcross(r, origin, bar)
        BY <1>1, <1>2, <1>3 DEF SettledAcross
    <2>2. \A prev : EdgeAcross(r, prev, p) <=> EdgeAcross(r, prev, bar)
        BY <1>1, <1>2, <1>3 DEF EdgeAcross
    <2>3. WickAcross(r, p) <=> WickAcross(r, bar)
        BY <1>1, <1>2, <1>3 DEF WickAcross
    <2>4. Recorded(st, r, p) = Recorded(st, r, bar)
        BY <1>5
    <2>5. QED
        BY <1>1, <2>1, <2>2, <2>3, <2>4 DEF Triggered
<1>7. \A st : Fires(r, st, p) <=> Fires(r, st, bar)
    BY <1>1, <1>6 DEF Fires
<1>8. \A acc : Fired(acc, r, p) = Fired(acc, r, bar)
    BY <1>1 DEF Fired
<1>9. \A acc : Latched(acc, r, p) = Latched(acc, r, bar)
    BY <1>8 DEF Latched
<1>10. QED
    BY <1>5, <1>6, <1>7, <1>8, <1>9 DEF p

\* A rule of a plan that reads the same in every window does.
LEMMA ReadsOf ==
    ASSUME WindowFree, NEW r \in PlanRules
    PROVE  ReadsAlike(r)
BY DEF WindowFree, PlanRules

\* So does the touch, which widens only on a line drawn from the first two bars.
LEMMA TouchReads ==
    ASSUME rules \in Plans, WindowFree, HasRule("retest"), NEW bar \in Candle, InView(bar),
           NEW st \in States, ~RetestIdle(st, bar)
    PROVE  RetestCrossed(FirstOf("retest"), st, Read(bar))
              <=> RetestCrossed(FirstOf("retest"), st, bar)
<1> DEFINE r == FirstOf("retest")
           p == Read(bar)
<1>1. r \in PlanRules /\ r \in Rule
    BY FirstOfKind, RuleType
<1> HIDE DEF r
<1>2. ReadsAlike(r)
    BY <1>1, ReadsOf
<1>3. /\ p.n = bar.n /\ p.h = bar.h /\ p.l = bar.l /\ p.win.from = 1 /\ AtrWarm(p)
      /\ bar.n \in Nat
    BY ReadIs DEF Candle
<1>4. Triggered(r, st, p) <=> Triggered(r, st, bar)
    BY <1>1, <1>2, RuleReads
<1> HIDE DEF p
<1>5. r.widen \in Nat /\ st.breakAt \in Nat /\ bar.win.from \in Int
    BY <1>1 DEF Rule, States, InView
<1>6. Tolerance(r, st, p) = Tolerance(r, st, bar)
    <2>1. /\ BarsSinceBreak(st, p) = bar.n - Higher(st.breakAt, 0)
          /\ BarsSinceBreak(st, bar) = bar.n - Higher(st.breakAt, bar.win.from - 1)
        BY <1>3 DEF BarsSinceBreak
    <2>2. BarsSinceBreak(st, p) \in Int /\ BarsSinceBreak(st, bar) \in Int
        BY <1>3, <1>5, <2>1 DEF Higher
    <2>3. CASE r.widen = 0
        <3>1. \A x \in Int : (x - 1) * 0 = 0
            OBVIOUS
        <3>2. QED
            BY <2>2, <2>3, <3>1 DEF Tolerance
    <2>4. CASE r.widen # 0
        <3>1. HasRule("breakAndClose") /\ r.anchor \in 1..2 /\ AtrLength <= 3
            BY <1>2, <2>4 DEF ReadsAlike
        <3>2. PICK i \in DOMAIN rules : r = rules[i]
            BY <1>1 DEF PlanRules
        <3>3. bar.win.from = 1 /\ (AtrWarm(bar) \/ bar.n < AtrLength)
            BY <3>1, <3>2 DEF InView
        <3>4. st.breakAt # 0 /\ ~(bar.n <= st.breakAt)
            BY <3>1 DEF RetestIdle, NoBar
        <3>5. BarsSinceBreak(st, p) = BarsSinceBreak(st, bar)
            BY <2>1, <3>3
        <3>6. CASE AtrWarm(bar)
            BY <1>3, <3>5, <3>6 DEF Tolerance
        <3>7. CASE ~AtrWarm(bar)
            <4>1. bar.n = 2 /\ st.breakAt = 1
                BY <1>3, <1>5, <3>1, <3>3, <3>4, <3>7, CatchUpAssumption
            <4>2. BarsSinceBreak(st, p) = 1
                BY <2>1, <4>1 DEF Higher
            <4>3. Tolerance(r, st, p) = 0
                BY <1>3, <1>5, <4>2 DEF Tolerance
            <4>4. Tolerance(r, st, bar) = 0
                BY <3>7 DEF Tolerance
            <4>5. QED
                BY <4>3, <4>4
        <3>8. QED
            BY <3>6, <3>7
    <2>5. QED
        BY <2>3, <2>4
<1>7. LevelAt(r, p) = LevelAt(r, bar)
    BY <1>3 DEF LevelAt
<1>8. RetestCrossed(r, st, p) <=> RetestCrossed(r, st, bar)
    BY <1>3, <1>4, <1>6, <1>7 DEF RetestCrossed
<1>9. QED
    BY <1>8 DEF r, p

\* The controls report a bar, and read nothing of it.
LEMMA ControlsRead ==
    ASSUME rules \in Plans, NEW acc \in Acc, NEW bar \in Candle, NEW clock
    PROVE  Controls(acc, Read(bar), clock) = Controls(acc, bar, clock)
<1> DEFINE n == Len(rules)
           p == Read(bar)
<1>1. p \in Candle /\ p.n = bar.n
    BY ReadIs
<1> HIDE DEF p
<1>2. PICK f : RunOfControls(f, acc, bar, clock)
    BY ControlsRun
<1>3. PICK g : RunOfControls(g, acc, p, clock)
    BY <1>1, ControlsRun
<1>4. \A a, r : ControlStep(a, r, p, clock) = ControlStep(a, r, bar, clock)
    BY <1>1 DEF ControlStep, Latched, Fired
<1>5. /\ f[0] = acc /\ g[0] = acc /\ f[n] = Controls(acc, bar, clock) /\ g[n] = Controls(acc, p, clock)
      /\ \A i \in 1..n : f[i] = ControlStep(f[i - 1], rules[i], bar, clock)
      /\ \A i \in 1..n : g[i] = ControlStep(g[i - 1], rules[i], bar, clock)
    BY <1>2, <1>3, <1>4 DEF RunOfControls
<1>6. n \in Nat
    BY RuleCount
<1> HIDE DEF n
<1> DEFINE S == {i \in 0..n : f[i] = g[i]}
<1>7. 0 \in S
    BY <1>5, <1>6
<1>8. ASSUME NEW i \in 1..n, i - 1 \in S PROVE i \in S
    BY <1>5, <1>6, <1>8
<1>9. \A i \in 0..n : i \in S
    BY <1>6, <1>7, <1>8, AlongLoop
<1>10. f[n] = g[n]
    BY <1>6, <1>9
<1>11. QED
    BY <1>5, <1>10 DEF p

\* The guards of a bar do the same on the tape.
LEMMA GuardsRead ==
    ASSUME rules \in Plans, WindowFree, NEW acc \in Acc, NEW bar \in Candle
    PROVE  Guards(acc, Read(bar)) = Guards(acc, bar)
<1> DEFINE n == Len(rules)
           p == Read(bar)
           first == [st |-> acc.st, fires |-> acc.fires, over |-> FALSE]
<1>1. p \in Candle /\ p.signal = bar.signal /\ p.rubbish = bar.rubbish
    BY ReadIs
<1> HIDE DEF p
<1>2. PICK f : RunOfGuards(f, acc, bar)
    BY GuardsRun
<1>3. PICK g : RunOfGuards(g, acc, p)
    BY <1>1, GuardsRun
<1>4. ASSUME NEW r \in PlanRules PROVE \A a : GuardStep(a, r, p) = GuardStep(a, r, bar)
    <2>1. /\ \A st : Recorded(st, r, p) = Recorded(st, r, bar)
          /\ \A st : Fires(r, st, p) <=> Fires(r, st, bar)
          /\ \A a : Latched(a, r, p) = Latched(a, r, bar)
        BY ReadsOf, RuleReads DEF p
    <2>2. \A st : GuardFires(r, st, p) <=> GuardFires(r, st, bar)
        BY <1>1, <2>1 DEF GuardFires, ReversalPrinted
    <2>3. QED
        BY <2>1, <2>2 DEF GuardStep
<1>5. n \in Nat /\ \A i \in 1..n : rules[i] \in PlanRules
    BY RuleAt
<1>6. /\ f[0] = first /\ g[0] = first /\ f[n] = GuardsFired(acc, bar) /\ g[n] = GuardsFired(acc, p)
      /\ \A i \in 1..n : f[i] = GuardStep(f[i - 1], rules[i], bar)
      /\ \A i \in 1..n : g[i] = GuardStep(g[i - 1], rules[i], bar)
    BY <1>2, <1>3, <1>4, <1>5 DEF RunOfGuards
<1> HIDE DEF n
<1> DEFINE S == {i \in 0..n : f[i] = g[i]}
<1>7. 0 \in S
    BY <1>5, <1>6
<1>8. ASSUME NEW i \in 1..n, i - 1 \in S PROVE i \in S
    BY <1>5, <1>6, <1>8
<1>9. \A i \in 0..n : i \in S
    BY <1>5, <1>7, <1>8, AlongLoop
<1>10. GuardsFired(acc, p) = GuardsFired(acc, bar)
    BY <1>5, <1>6, <1>9
<1>11. QED
    BY <1>10 DEF Guards, p

\* The entries of a bar do the same on the tape.
LEMMA EntriesRead ==
    ASSUME rules \in Plans, WindowFree, NEW acc \in Acc, NEW bar \in Candle
    PROVE  Entries(acc, Read(bar)) = Entries(acc, bar)
<1> DEFINE n == Len(rules)
           p == Read(bar)
<1>1. p \in Candle /\ p.n = bar.n /\ p.signal = bar.signal /\ p.rubbish = bar.rubbish
    BY ReadIs
<1> HIDE DEF p
<1>2. PICK f : RunOfEntries(f, acc, bar)
    BY EntriesRun
<1>3. PICK g : RunOfEntries(g, acc, p)
    BY <1>1, EntriesRun
<1>4. ASSUME NEW r \in PlanRules PROVE \A a : EntryStep(a, r, p) = EntryStep(a, r, bar)
    <2>1. /\ \A st : Recorded(st, r, p) = Recorded(st, r, bar)
          /\ \A st : Fires(r, st, p) <=> Fires(r, st, bar)
          /\ \A a : Latched(a, r, p) = Latched(a, r, bar)
          /\ \A a : Fired(a, r, p) = Fired(a, r, bar)
        BY ReadsOf, RuleReads DEF p
    <2>2. \A st : RetestSatisfied(st, p) <=> RetestSatisfied(st, bar)
        BY <1>1 DEF RetestSatisfied
    <2>3. QED
        BY <1>1, <2>1, <2>2 DEF EntryStep
<1>5. n \in Nat /\ \A i \in 1..n : rules[i] \in PlanRules
    BY RuleAt
<1>6. /\ f[0] = acc /\ g[0] = acc /\ f[n] = Entries(acc, bar) /\ g[n] = Entries(acc, p)
      /\ \A i \in 1..n : f[i] = EntryStep(f[i - 1], rules[i], bar)
      /\ \A i \in 1..n : g[i] = EntryStep(g[i - 1], rules[i], bar)
    BY <1>2, <1>3, <1>4, <1>5 DEF RunOfEntries
<1> HIDE DEF n
<1> DEFINE S == {i \in 0..n : f[i] = g[i]}
<1>7. 0 \in S
    BY <1>5, <1>6
<1>8. ASSUME NEW i \in 1..n, i - 1 \in S PROVE i \in S
    BY <1>5, <1>6, <1>8
<1>9. \A i \in 0..n : i \in S
    BY <1>5, <1>7, <1>8, AlongLoop
<1>10. f[n] = g[n]
    BY <1>5, <1>9
<1>11. QED
    BY <1>6, <1>10 DEF p

\* The search for the break does the same on the tape.
LEMMA BreakReads ==
    ASSUME rules \in Plans, WindowFree, NEW acc, NEW bar \in Candle
    PROVE  BreakAndClose(acc, Read(bar)) = BreakAndClose(acc, bar)
<1> DEFINE r == FirstOf("breakAndClose")
           p == Read(bar)
<1>1. CASE HasRule("breakAndClose")
    <2>1. r \in PlanRules
        BY <1>1, FirstOfKind
    <2> HIDE DEF r
    <2>2. ReadsAlike(r)
        BY <2>1, ReadsOf
    <2>3. /\ \A st : Recorded(st, r, p) = Recorded(st, r, bar)
          /\ \A st : Fires(r, st, p) <=> Fires(r, st, bar)
          /\ \A a : Latched(a, r, p) = Latched(a, r, bar)
          /\ p.n = bar.n /\ ~r.golden
        BY <2>1, <2>2, RuleReads, ReadIs DEF ReadsAlike
    <2> HIDE DEF p
    <2>4. BreakAndClose(acc, p) = BreakAndClose(acc, bar)
        BY <1>1, <2>3 DEF BreakAndClose, r
    <2>5. QED
        BY <2>4 DEF p
<1>2. CASE ~HasRule("breakAndClose")
    BY <1>2 DEF BreakAndClose
<1>3. QED
    BY <1>1, <1>2

\* The search for the retest does the same on the tape.
LEMMA RetestReads ==
    ASSUME rules \in Plans, WindowFree, NEW acc \in Acc, NEW bar \in Candle, InView(bar)
    PROVE  Retest(acc, Read(bar)) = Retest(acc, bar)
<1> DEFINE r == FirstOf("retest")
           p == Read(bar)
<1>1. p.n = bar.n /\ p.rubbish = bar.rubbish /\ acc.st \in States
    BY ReadIs DEF Acc
<1>2. CASE RetestIdle(acc.st, bar)
    <2> HIDE DEF p
    <2>1. Retest(acc, bar) = acc
        BY <1>2 DEF Retest, RetestIdle
    <2>2. Retest(acc, p) = acc
        BY <1>1, <1>2 DEF Retest, RetestIdle
    <2>3. QED
        BY <2>1, <2>2 DEF p
<1>3. CASE ~RetestIdle(acc.st, bar)
    <2>1. HasRule("retest")
        BY <1>3 DEF RetestIdle
    <2>2. RetestCrossed(r, acc.st, p) <=> RetestCrossed(r, acc.st, bar)
        BY <1>1, <1>3, <2>1, TouchReads
    <2>3. r \in PlanRules
        BY <2>1, FirstOfKind
    <2> HIDE DEF r
    <2>4. ReadsAlike(r)
        BY <2>3, ReadsOf
    <2>5. /\ \A st : Recorded(st, r, p) = Recorded(st, r, bar)
          /\ \A a : Fired(a, r, p) = Fired(a, r, bar)
          /\ ~r.golden
        BY <2>3, <2>4, RuleReads DEF ReadsAlike
    <2> HIDE DEF p
    <2>6. Retest(acc, p) = Retest(acc, bar)
        BY <1>1, <1>3, <2>2, <2>5 DEF Retest, RetestIdle, r
    <2>7. QED
        BY <2>6 DEF p
<1>4. QED
    BY <1>2, <1>3

\* So does the bar as a whole.
LEMMA BarReads ==
    ASSUME rules \in Plans, WindowFree, NEW acc \in Acc, NEW bar \in Candle, InView(bar),
           NEW at \in Nat
    PROVE  BarStep(acc, Read(bar), at) = BarStep(acc, bar, at)
<1> DEFINE p == Read(bar)
           clock == ControlClock(bar, at)
           c == Controls(acc, bar, clock)
           g == Guards(c, bar)
           k == IF MultiEnter THEN BreakAndClose(g, bar) ELSE g
           t == Retest(k, bar)
<1>1. /\ p \in Candle /\ p.n = bar.n /\ ControlClock(p, at) = clock /\ clock \in Nat
    BY ReadIs, CloseInstant DEF ControlClock, Lower
<1>2. c \in Acc /\ Controls(acc, p, clock) = c
    BY <1>1, ControlsRead, ControlsKeep
<1> HIDE DEF c
<1>3. g \in Acc /\ Guards(c, p) = g
    BY <1>2, GuardsRead, GuardsDo
<1> HIDE DEF g
<1>4. BreakAndClose(g, p) = BreakAndClose(g, bar) /\ BreakAndClose(g, bar) \in Acc
    BY <1>3, BreakReads, BreakDoes
<1>5. k \in Acc
    BY <1>3, <1>4
<1>6. Spine(g, p) = Spine(g, bar)
    <2>1. (IF MultiEnter THEN BreakAndClose(g, p) ELSE g) = k
        BY <1>4
    <2> HIDE DEF k
    <2>2. Retest(k, p) = t /\ t \in Acc
        BY <1>5, RetestReads, RetestDoes
    <2> HIDE DEF t
    <2>3. Entries(t, p) = Entries(t, bar)
        BY <2>2, EntriesRead
    <2>4. QED
        BY <1>4, <2>1, <2>2, <2>3 DEF Spine, t, k
<1> HIDE DEF p
<1>7. \A st : Watermarked(st, p) = Watermarked(st, bar)
    BY <1>1 DEF Watermarked
<1>8. AfterControls(c, p) = AfterControls(c, bar)
    BY <1>3, <1>6, <1>7 DEF AfterControls, g
<1>9. EvaluateBar(acc, p, at) = EvaluateBar(acc, bar, at)
    BY <1>1, <1>2, <1>8, BarIs DEF c
<1>10. QED
    BY <1>9 DEF BarStep, p

\* The bars of a tick are read in a window of the market, as the fresh bars on the tape.
LEMMA SeenInView ==
    ASSUME rules \in Plans, NEW closed, Market(closed),
           NEW engine, engine.st.watermark \in 1..Len(closed), Fresh(engine, closed) # <<>>
    PROVE  LET fresh == Fresh(engine, closed)
               seen == Seen(engine, closed)
           IN  /\ seen \in Seq(Candle) /\ Len(seen) = Len(fresh)
               /\ \A k \in 1..Len(seen) : InView(seen[k]) /\ Read(seen[k]) = Read(fresh[k])
<1> DEFINE fresh == Fresh(engine, closed)
           seen == Seen(engine, closed)
           window == DetectorWindow(closed, Fresh(engine, closed))
           read == Reading(window)
           w == engine.st.watermark
<1>1. /\ Len(closed) \in Nat /\ w \in 1..Len(closed) /\ fresh \in Seq(BareCandle)
      /\ Len(fresh) = Len(closed) - w
      /\ \A k \in 1..Len(fresh) : fresh[k].n = w + k
    BY FreshBars DEF Market
<1>2. /\ window[1].n \in 1..(w + 1) /\ Len(window) = Len(closed) + 1 - window[1].n
      /\ \A i \in DOMAIN rules : rules[i].anchor # NoBar =>
            window[1].n <= Higher(1, rules[i].anchor - 1)
    BY WindowBars
<1>3. /\ seen \in Seq(Candle) /\ Len(seen) = Len(fresh)
      /\ \A k \in 1..Len(seen) : seen[k] = [fresh[k] EXCEPT !.win = read] /\ seen[k].n = fresh[k].n
    BY SeenBars
<1> HIDE DEF fresh, seen, window, w
<1>4. read.from = window[1].n /\ (read.warm <=> ~(Len(window) < AtrLength))
    BY DEF Reading, NoWindow
<1> HIDE DEF read
<1>5. ASSUME NEW k \in 1..Len(seen) PROVE InView(seen[k]) /\ Read(seen[k]) = Read(fresh[k])
    <2>1. fresh[k] \in BareCandle /\ fresh[k].n = w + k /\ k \in 1..Len(fresh)
        BY <1>1, <1>3
    <2>2. seen[k].win = read /\ seen[k].n = w + k /\ w + k <= Len(closed)
        <3>1. seen[k] = [fresh[k] EXCEPT !.win = read] /\ seen[k].n = fresh[k].n
            BY <1>3
        <3>2. [fresh[k] EXCEPT !.win = read].win = read
            BY <2>1 DEF BareCandle, Candle
        <3>3. w + k <= Len(closed)
            BY <1>1, <2>1
        <3>4. QED
            BY <2>1, <3>1, <3>2, <3>3
    <2>3. Read(seen[k]) = Read(fresh[k])
        BY <1>3, <2>1 DEF Read, BareCandle
    <2>4. ASSUME NEW i \in DOMAIN rules, rules[i].anchor \in 1..2
          PROVE  seen[k].win.from = 1 /\ (AtrWarm(seen[k]) \/ seen[k].n < AtrLength)
        <3>1. Higher(1, rules[i].anchor - 1) = 1 /\ rules[i].anchor # NoBar
            BY <2>4 DEF Higher, NoBar
        <3>2. window[1].n = 1 /\ Len(window) = Len(closed)
            BY <1>1, <1>2, <3>1
        <3>3. AtrWarm(seen[k]) <=> ~(Len(closed) < AtrLength)
            BY <1>4, <2>2, <3>2 DEF AtrWarm
        <3>4. seen[k].win.from = 1
            BY <1>4, <2>2, <3>2
        <3>5. CASE Len(closed) < AtrLength
            <4>1. seen[k].n <= Len(closed) /\ seen[k].n \in Int
                BY <1>1, <2>1, <2>2
            <4>2. AtrLength \in Int
                BY CatchUpAssumption
            <4>3. seen[k].n < AtrLength
                BY <1>1, <3>5, <4>1, <4>2
            <4>4. QED
                BY <3>4, <4>3
        <3>6. QED
            BY <3>3, <3>4, <3>5
    <2>5. seen[k].win.from \in Int
        <3>1. window[1].n \in Int
            BY <1>1, <1>2
        <3>2. read.from \in Int
            BY <1>4, <3>1
        <3>3. QED
            BY <2>2, <3>2
    <2>6. InView(seen[k])
        BY <2>4, <2>5 DEF InView
    <2>7. QED
        BY <2>3, <2>6
<1>6. QED
    BY <1>3, <1>5 DEF fresh, seen

\* The tape of a market is a tape, as long as the market.
LEMMA TapeIs ==
    ASSUME NEW closed, Market(closed)
    PROVE  /\ Tape(TapeOf(closed))
           /\ Len(TapeOf(closed)) = Len(closed)
           /\ \A k \in 1..Len(closed) : /\ TapeOf(closed)[k] = Read(closed[k])
                                        /\ closed[k] \in Candle
<1>1. /\ closed \in Seq(Candle) /\ Len(closed) \in 1..MaxBars /\ Len(closed) \in Nat
      /\ \A k \in 1..Len(closed) : closed[k] \in Candle /\ closed[k].n = k
    BY BareIsCandle DEF Market
<1>2. \A k \in 1..Len(closed) : Read(closed[k]) \in Candle /\ Read(closed[k]).n = k
    BY <1>1, ReadIs
<1>3. TapeOf(closed) \in Seq(Candle) /\ Len(TapeOf(closed)) = Len(closed)
    BY <1>1, <1>2 DEF TapeOf
<1>4. \A k \in 1..Len(closed) : TapeOf(closed)[k] = Read(closed[k])
    BY DEF TapeOf
<1>5. QED
    BY <1>1, <1>2, <1>3, <1>4 DEF Tape

\* The bars that are fresh on the tape are the bars that are fresh, read.
LEMMA FreshOnTape ==
    ASSUME NEW closed, Market(closed), NEW engine, engine.st.watermark \in 1..Len(closed)
    PROVE  LET fresh == Fresh(engine, closed)
               tape == Fresh(engine, TapeOf(closed))
           IN  /\ tape \in Seq(Candle) /\ Len(tape) = Len(fresh)
               /\ \A k \in 1..Len(tape) : tape[k] = Read(fresh[k])
<1> DEFINE fresh == Fresh(engine, closed)
           more == TapeOf(closed)
           tape == Fresh(engine, more)
           w == engine.st.watermark
<1>1. /\ Tape(more) /\ Len(more) = Len(closed) /\ Len(closed) \in Nat /\ w \in 1..Len(closed)
      /\ \A k \in 1..Len(closed) : more[k] = Read(closed[k])
    BY TapeIs DEF Market
<1>2. Len(fresh) = Len(closed) - w /\ \A k \in 1..Len(fresh) : fresh[k] = closed[w + k]
    BY FreshBars
<1> HIDE DEF more
<1>3. /\ tape \in Seq(Candle) /\ Len(tape) = Len(more) - w
      /\ \A k \in 1..Len(tape) : tape[k] = more[w + k]
    BY <1>1, TapeBars
<1> HIDE DEF tape, fresh, w
<1>4. ASSUME NEW k \in 1..Len(tape) PROVE tape[k] = Read(fresh[k])
    <2>1. w + k \in 1..Len(closed) /\ k \in 1..Len(fresh)
        BY <1>1, <1>2, <1>3
    <2>2. QED
        BY <1>1, <1>2, <1>3, <2>1
<1>5. QED
    BY <1>1, <1>2, <1>3, <1>4 DEF tape, fresh, more

\* A tick over the market is a tick over its tape.
LEMMA TickOnTape ==
    ASSUME rules \in Plans, WindowFree, NEW closed, Market(closed), NEW at \in Nat,
           NEW engine \in Acc, engine.st.watermark \in 1..Len(closed)
    PROVE  Tick(engine, closed, at) = TapeTick(engine, TapeOf(closed), at)
<1> DEFINE fresh == Fresh(engine, closed)
           seen == Seen(engine, closed)
           more == TapeOf(closed)
           tape == Fresh(engine, more)
           st == engine.st
           b == [st |-> st, fires |-> <<>>]
           last == closed[Len(closed)]
<1>1. /\ st \in States /\ fresh \in Seq(BareCandle) /\ last \in Candle
      /\ Len(fresh) \in Nat /\ b \in Acc
    BY FreshBars DEF Acc
<1>2. /\ tape \in Seq(Candle) /\ Len(tape) = Len(fresh)
      /\ \A k \in 1..Len(tape) : tape[k] = Read(fresh[k])
    BY FreshOnTape
<1>3. more[Len(more)] = Read(last)
    BY TapeIs DEF Market
<1>4. fresh = <<>> <=> tape = <<>>
    <2> HIDE DEF fresh, tape
    <2>1. \A s \in Seq(Candle) : s = <<>> <=> Len(s) = 0
        OBVIOUS
    <2>2. QED
        BY <1>1, <1>2, <2>1, BareIsCandle
<1>5. Controls(b, Read(last), at) = Controls(b, last, at)
    BY <1>1, ControlsRead
<1>6. ASSUME fresh # <<>> PROVE EvaluatePlan(st, tape, at) = EvaluatePlan(st, seen, at)
    <2>1. /\ seen \in Seq(Candle) /\ Len(seen) = Len(fresh)
          /\ \A k \in 1..Len(seen) : InView(seen[k]) /\ Read(seen[k]) = Read(fresh[k])
        BY <1>6, SeenInView
    <2> HIDE DEF fresh, seen, tape, st
    <2> DEFINE n == Len(seen)
    <2>2. PICK f : RunOfBars(f, st, seen, at)
        BY <1>1, <2>1, BarsRun
    <2>3. PICK g : RunOfBars(g, st, tape, at)
        BY <1>1, <1>2, BarsRun
    <2>4. /\ f \in [0..n -> Acc] /\ f[0] = b /\ f[n] = EvaluatePlan(st, seen, at)
          /\ \A i \in 1..n : f[i] = BarStep(f[i - 1], seen[i], at)
        BY <2>2 DEF RunOfBars
    <2>5. /\ g \in [0..n -> Acc] /\ g[0] = b /\ g[n] = EvaluatePlan(st, tape, at)
          /\ \A i \in 1..n : g[i] = BarStep(g[i - 1], tape[i], at)
        BY <1>2, <2>1, <2>3 DEF RunOfBars
    <2>6. n \in Nat /\ \A i \in 1..n : /\ seen[i] \in Candle /\ InView(seen[i])
                                       /\ tape[i] = Read(seen[i])
        BY <1>1, <1>2, <2>1
    <2> HIDE DEF n, b
    <2> DEFINE S == {i \in 0..n : f[i] = g[i]}
    <2>7. 0 \in S
        BY <2>4, <2>5, <2>6
    <2>8. ASSUME NEW i \in 1..n, i - 1 \in S PROVE i \in S
        <3>1. i \in 0..n /\ i - 1 \in 0..n /\ f[i - 1] = g[i - 1]
            BY <2>6, <2>8
        <3> DEFINE a == f[i - 1]
                   u == seen[i]
        <3>2. a \in Acc /\ u \in Candle /\ InView(u) /\ tape[i] = Read(u)
            BY <2>4, <2>6, <3>1
        <3>3. f[i] = BarStep(a, u, at) /\ g[i] = BarStep(a, Read(u), at)
            BY <2>4, <2>5, <3>1, <3>2
        <3> HIDE DEF a, u
        <3>4. BarStep(a, Read(u), at) = BarStep(a, u, at)
            BY <3>2, BarReads
        <3>5. QED
            BY <3>1, <3>3, <3>4
    <2>9. \A i \in 0..n : i \in S
        BY <2>6, <2>7, <2>8, AlongLoop
    <2>10. f[n] = g[n]
        BY <2>6, <2>9
    <2>11. QED
        BY <2>4, <2>5, <2>10
<1> DEFINE quiet == Controls(b, last, at)
           full == EvaluatePlan(st, seen, at)
           result == IF fresh = <<>> THEN quiet ELSE full
<1>7. Tick(engine, closed, at) =
         IF st.phase = "done" THEN engine
         ELSE [st |-> result.st, fires |-> engine.fires \o result.fires]
    BY DEF Tick, EvaluateControlsOnly, Fresh, Seen
<1>8. TapeTick(engine, more, at) =
         IF st.phase = "done" THEN engine
         ELSE [st |-> (IF tape = <<>> THEN Controls(b, more[Len(more)], at)
                       ELSE EvaluatePlan(st, tape, at)).st,
               fires |-> engine.fires \o (IF tape = <<>> THEN Controls(b, more[Len(more)], at)
                                          ELSE EvaluatePlan(st, tape, at)).fires]
    BY DEF TapeTick, EvaluateControlsOnly, Fresh
<1>9. (IF tape = <<>> THEN Controls(b, more[Len(more)], at) ELSE EvaluatePlan(st, tape, at))
         = result
    <2> HIDE DEF fresh, seen, tape, b, more, last, st
    <2>1. QED
        BY <1>3, <1>4, <1>5, <1>6
<1> HIDE DEF fresh, seen, tape, b, last, st, result, more
<1>10. QED
    BY <1>7, <1>8, <1>9 DEF more

\* Every bar of the market has closed by now.
LEMMA MarketReady ==
    ASSUME MarketType
    PROVE  Ready(TapeOf(bars), now) /\ now \in Nat /\ Len(TapeOf(bars)) = Len(bars)
<1>1. /\ now \in Nat /\ Span \in Nat \ {0} /\ Len(bars) = now \div Span
      /\ Market(bars) /\ \A k \in 1..Len(bars) : bars[k].n = k
    BY CatchUpAssumption DEF MarketType, Market
<1>2. \A s \in Nat \ {0}, t \in Nat, k \in Nat : k <= t \div s => k * s <= t
    OBVIOUS
<1> DEFINE tape == TapeOf(bars)
<1>3. /\ Tape(tape) /\ Len(tape) = Len(bars)
      /\ \A k \in 1..Len(bars) : tape[k].n = k
    BY <1>1, TapeIs DEF Tape
<1> HIDE DEF tape
<1>4. ASSUME NEW k \in 1..Len(tape) PROVE Served(tape[k], now)
    <2>1. k \in Nat /\ k <= now \div Span /\ tape[k].n = k
        BY <1>1, <1>3
    <2>2. k * Span <= now
        BY <1>1, <1>2, <2>1
    <2>3. QED
        BY <2>1, <2>2 DEF Served, Closes
<1>5. QED
    BY <1>1, <1>3, <1>4 DEF Ready, tape

\* A bar more on the market is a bar more on its tape.
LEMMA TapeGrows ==
    ASSUME NEW closed, Market(closed), NEW bar \in BareCandle, Market(Append(closed, bar))
    PROVE  TapeOf(Append(closed, bar)) = Append(TapeOf(closed), Read(bar))
<1> DEFINE m == Len(closed)
           more == Append(closed, bar)
           u == TapeOf(more)
           t == TapeOf(closed)
<1>1. /\ closed \in Seq(BareCandle) /\ m \in Nat /\ Len(more) = m + 1 /\ more[m + 1] = bar
      /\ \A k \in 1..m : more[k] = closed[k]
    BY DEF Market
<1>2. /\ u \in Seq(Candle) /\ Len(u) = Len(more)
      /\ \A k \in 1..Len(more) : u[k] = Read(more[k])
    BY TapeIs DEF Tape
<1>3. /\ t \in Seq(Candle) /\ Len(t) = m /\ \A k \in 1..m : t[k] = Read(closed[k])
    BY TapeIs DEF Tape
<1>4. Read(bar) \in Candle
    BY ReadIs, BareIsCandle
<1> HIDE DEF more, u, t, m
<1> DEFINE v == Append(t, Read(bar))
<1>5. /\ v \in Seq(Candle) /\ Len(v) = m + 1 /\ v[m + 1] = Read(bar)
      /\ \A k \in 1..m : v[k] = t[k]
    BY <1>1, <1>3, <1>4
<1> HIDE DEF v
<1>6. ASSUME NEW k \in 1..(m + 1) PROVE u[k] = v[k]
    <2>1. CASE k = m + 1
        BY <1>1, <1>2, <1>5, <2>1
    <2>2. CASE k # m + 1
        <3>1. k \in 1..m
            BY <1>1, <2>2
        <3>2. QED
            BY <1>1, <1>2, <1>3, <1>5, <3>1
    <2>3. QED
        BY <2>1, <2>2
<1>7. u = v
    BY <1>1, <1>2, <1>5, <1>6
<1>8. QED
    BY <1>7 DEF u, v, t, more

\* What the passing of an instant does to the market.
LEMMA MarketGrows ==
    ASSUME MarketType, Elapse
    PROVE  Grown(TapeOf(bars), now, TapeOf(bars'), now')
<1>1. /\ now \in Nat /\ now' = now + 1 /\ Market(bars') /\ Market(bars)
      /\ MarketType /\ Span \in Nat \ {0} /\ Len(bars) \in Nat
      /\ Len(bars') = now' \div Span /\ Len(bars) = now \div Span
    BY MarketReady, ElapseMarket, CatchUpAssumption DEF Elapse, MarketType, Market
<1>2. Ready(TapeOf(bars), now) /\ Tape(TapeOf(bars'))
    BY <1>1, MarketReady, TapeIs
<1>3. CASE (now + 1) % Span = 0
    <2>1. PICK shape \in Shapes : bars' = Append(bars, BarOf(shape, (now + 1) \div Span))
        BY <1>3 DEF Elapse
    <2> DEFINE n == (now + 1) \div Span
               b == BarOf(shape, n)
    <2>2. n * Span = now + 1
        <3>1. \A s \in Nat \ {0}, t \in Nat : t % s = 0 => (t \div s) * s = t
            OBVIOUS
        <3>2. QED
            BY <1>1, <1>3, <3>1
    <2>3. n = Len(bars') /\ Len(bars') \in 1..MaxBars
        BY <1>1 DEF Market
    <2> HIDE DEF n
    <2>4. b \in BareCandle /\ b.n = n
        BY <2>3, BarIsCandle
    <2>5. bars' = Append(bars, b)
        BY <2>1 DEF n
    <2> HIDE DEF b
    <2>6. TapeOf(bars') = Append(TapeOf(bars), Read(b))
        BY <1>1, <2>4, <2>5, TapeGrows
    <2>7. Read(b) \in Candle /\ Closes(Read(b)) = Closes(b)
        BY <2>4, ReadIs, BareIsCandle
    <2>8. Closes(b) = now'
        BY <1>1, <2>2, <2>4 DEF Closes
    <2>9. \E bar \in Candle : TapeOf(bars') = Append(TapeOf(bars), bar) /\ Closes(bar) = now'
        BY <2>6, <2>7, <2>8
    <2>10. QED
        BY <1>1, <1>2, <2>9 DEF Grown
<1>4. CASE (now + 1) % Span # 0
    BY <1>1, <1>2, <1>4 DEF Grown, Elapse
<1>5. QED
    BY <1>3, <1>4

-----------------------------------------------------------------------------
(* A step of the market leaves the plan alone, so an evaluation means the   *)
(* same before it and after it.                                             *)

\* The passes of a bar, and a bar, in the next state.
LEMMA SamePasses ==
    ASSUME UNCHANGED rules
    PROVE  /\ \A acc, bar, clock : Controls(acc, bar, clock)' = Controls(acc, bar, clock)
           /\ \A acc, bar, at : BarStep(acc, bar, at)' = BarStep(acc, bar, at)
<1>1. \A acc, bar, clock : Controls(acc, bar, clock)' = Controls(acc, bar, clock)
    BY DEF Controls
<1>2. \A acc, bar : Guards(acc, bar)' = Guards(acc, bar)
    BY DEF Guards, GuardsFired
<1>3. \A acc, bar : Spine(acc, bar)' = Spine(acc, bar)
    BY DEF Spine, Entries, EntryStep, NeedsRetest, RetestSatisfied, Retest, BreakAndClose,
           HasRule, MultiEnter, FirstOf
<1>4. ASSUME NEW CONSTANT acc, NEW CONSTANT bar, NEW CONSTANT at
      PROVE  EvaluateBar(acc, bar, at)' = EvaluateBar(acc, bar, at)
    BY <1>1, <1>2, <1>3 DEF EvaluateBar
<1>5. \A acc, bar, at : BarStep(acc, bar, at)' = BarStep(acc, bar, at)
    BY <1>4 DEF BarStep
<1>6. QED
    BY <1>1, <1>5

\* The bars of a tick, in the next state.
LEMMA SamePlan ==
    ASSUME UNCHANGED rules, rules \in Plans,
           NEW CONSTANT st, st \in States, NEW CONSTANT fresh, fresh \in Seq(Candle),
           NEW CONSTANT at \in Nat
    PROVE  EvaluatePlan(st, fresh, at)' = EvaluatePlan(st, fresh, at)
<1> DEFINE n == Len(fresh)
           first == [st |-> st, fires |-> <<>>]
           Folds(f) == [i \in 0..n |-> IF i = 0 THEN first ELSE BarStep(f[i - 1], fresh[i], at)']
<1>1. PICK F : F = (CHOOSE after : after = Folds(after)) /\ EvaluatePlan(st, fresh, at)' = F[n]
    BY DEF EvaluatePlan
<1>2. PICK f : RunOfBars(f, st, fresh, at)
    BY BarsRun
<1>3. /\ f \in [0..n -> Acc] /\ f[0] = first /\ f[n] = EvaluatePlan(st, fresh, at)
      /\ \A i \in 1..n : f[i] = BarStep(f[i - 1], fresh[i], at)
    BY <1>2 DEF RunOfBars
<1>4. n \in Nat
    OBVIOUS
<1>5. \A i \in 1..n : f[i] = BarStep(f[i - 1], fresh[i], at)'
    BY <1>3, SamePasses
<1>6. f = Folds(f)
    <2>1. \A i \in 0..n : i # 0 => i \in 1..n
        BY <1>4
    <2>2. f = [i \in 0..n |-> f[i]]
        BY <1>3
    <2> HIDE DEF n, first
    <2>3. QED
        BY <1>3, <1>5, <2>1, <2>2
<1>7. F = Folds(F)
    <2> HIDE DEF Folds
    <2>1. QED
        BY <1>1, <1>6
<1> HIDE DEF n, first
<1>8. F[0] = first /\ \A i \in 1..n : F[i] = BarStep(F[i - 1], fresh[i], at)'
    BY <1>4, <1>7
<1>9. \A i \in 1..n : F[i] = BarStep(F[i - 1], fresh[i], at)
    BY <1>8, SamePasses
<1> DEFINE S == {i \in 0..n : F[i] = f[i]}
<1>10. 0 \in S
    BY <1>3, <1>4, <1>8
<1>11. ASSUME NEW i \in 1..n, i - 1 \in S PROVE i \in S
    BY <1>3, <1>4, <1>9, <1>11
<1>12. \A i \in 0..n : i \in S
    BY <1>4, <1>10, <1>11, AlongLoop
<1>13. F[n] = f[n]
    BY <1>4, <1>12
<1>14. QED
    BY <1>1, <1>3, <1>13 DEF n

\* A tick, in the next state.
LEMMA SameTick ==
    ASSUME UNCHANGED rules, rules \in Plans,
           NEW CONSTANT closed, Tape(closed), NEW CONSTANT at \in Nat,
           NEW CONSTANT engine, engine \in Acc, engine.st.watermark \in 1..Len(closed)
    PROVE  TapeTick(engine, closed, at)' = TapeTick(engine, closed, at)
<1> DEFINE fresh == SubSeq(closed, engine.st.watermark + 1, Len(closed))
           last == closed[Len(closed)]
           quiet == Controls([st |-> engine.st, fires |-> <<>>], last, at)
           full == EvaluatePlan(engine.st, fresh, at)
<1>1. fresh \in Seq(Candle) /\ engine.st \in States
    BY TapeBars DEF Fresh, Acc
<1>2. full' = full
    <2> DEFINE st == engine.st
    <2>1. st \in States
        BY <1>1
    <2> HIDE DEF st, fresh
    <2>2. EvaluatePlan(st, fresh, at)' = EvaluatePlan(st, fresh, at)
        BY <1>1, <2>1, SamePlan
    <2>3. QED
        BY <2>2 DEF st, fresh
<1>3. quiet' = quiet
    BY SamePasses
<1>4. /\ TapeTick(engine, closed, at) =
            IF engine.st.phase = "done" THEN engine
            ELSE [st |-> (IF fresh = <<>> THEN quiet ELSE full).st,
                  fires |-> engine.fires \o (IF fresh = <<>> THEN quiet ELSE full).fires]
      /\ TapeTick(engine, closed, at)' =
            IF engine.st.phase = "done" THEN engine
            ELSE [st |-> (IF fresh = <<>> THEN quiet' ELSE full').st,
                  fires |-> engine.fires \o (IF fresh = <<>> THEN quiet' ELSE full').fires]
    BY DEF TapeTick, EvaluateControlsOnly
<1> HIDE DEF quiet, full, fresh, last
<1>5. QED
    BY <1>2, <1>3, <1>4

\* Two engines together, in the next state.
LEMMA SameTogether ==
    ASSUME UNCHANGED rules, rules \in Plans,
           NEW CONSTANT closed, Tape(closed), NEW CONSTANT at \in Nat,
           NEW CONSTANT l, Follows(l, closed), NEW CONSTANT p, Follows(p, closed)
    PROVE  Together(l, p, closed, at)' <=> Together(l, p, closed, at)
<1>1. Twice(l, closed, at)' = Twice(l, closed, at)
    <2>1. PICK t : t = TapeTick(l, closed, at)
        OBVIOUS
    <2>2. Follows(t, closed)
        BY <2>1, TickIs
    <2>3. TapeTick(l, closed, at)' = t
        BY <2>1, SameTick DEF Follows
    <2>4. TapeTick(t, closed, at)' = TapeTick(t, closed, at)
        BY <2>2, SameTick DEF Follows
    <2>5. QED
        BY <2>1, <2>3, <2>4 DEF Twice
<1>2. Twice(p, closed, at)' = Twice(p, closed, at)
    <2>1. PICK t : t = TapeTick(p, closed, at)
        OBVIOUS
    <2>2. Follows(t, closed)
        BY <2>1, TickIs
    <2>3. TapeTick(p, closed, at)' = t
        BY <2>1, SameTick DEF Follows
    <2>4. TapeTick(t, closed, at)' = TapeTick(t, closed, at)
        BY <2>2, SameTick DEF Follows
    <2>5. QED
        BY <2>1, <2>3, <2>4 DEF Twice
<1>3. \A x, y, d : Alike(x, y, d)' <=> Alike(x, y, d)
    BY DEF Alike, Tally, Places, RuleIds
<1>4. NoMargin' = NoMargin
    BY DEF NoMargin, RuleIds
<1>5. \A st : Fulfilled(st, closed, at)' <=> Fulfilled(st, closed, at)
    BY DEF Fulfilled, FiredBy
<1>6. QED
    BY <1>1, <1>2, <1>3, <1>4, <1>5 DEF Together

PromptInv == WindowFree => Together(late, prompt, TapeOf(bars), now)

\* Both engines start in one state.
LEMMA InitTogether ==
    ASSUME Init
    PROVE  PromptInv
<1> DEFINE tape == TapeOf(bars)
<1>1. /\ TypeInv /\ Len(bars) = 1 /\ late = prompt /\ prompt = Seeded(bars)
      /\ now = Span /\ Span \in Nat /\ rules \in Plans /\ Market(bars)
    BY InitTypes, CatchUpAssumption DEF Init, TypeInv, MarketType
<1>2. Tape(tape) /\ Len(tape) = Len(bars)
    BY <1>1, TapeIs
<1> HIDE DEF tape
<1>3. Follows(prompt, tape)
    BY <1>1, <1>2 DEF TypeInv, EngineType, Follows
<1>4. prompt.st.watermark = Len(tape)
    BY <1>1, <1>2, SeedDoes DEF Seeded
<1> DEFINE a == Twice(prompt, tape, now)
<1>5. Follows(a, tape)
    BY <1>1, <1>2, <1>3, TwiceIs
<1> HIDE DEF a
<1>6. Alike(a, a, NoMargin)
    BY <1>5, AlikeChain DEF Follows
<1>7. QED
    BY <1>1, <1>4, <1>6 DEF PromptInv, Together, a, tape

\* Every step keeps them together.
LEMMA NextTogether ==
    ASSUME TypeInv, PromptInv, [Next]_vars
    PROVE  PromptInv'
<1> DEFINE tape == TapeOf(bars)
           more == TapeOf(bars')
<1>1. /\ rules \in Plans /\ MarketType /\ Market(bars) /\ now \in Nat /\ UNCHANGED rules
      /\ late \in Acc /\ late.st.watermark \in 1..Len(bars)
      /\ prompt \in Acc /\ prompt.st.watermark \in 1..Len(bars)
    BY MarketReady DEF TypeInv, MarketType, EngineType, Next, Elapse, LateTick, vars
<1>2. TypeInv'
    BY NextTypes
<1>3. /\ Market(bars') /\ now' \in Nat
      /\ late' \in Acc /\ late'.st.watermark \in 1..Len(bars')
      /\ prompt' \in Acc /\ prompt'.st.watermark \in 1..Len(bars')
    <2>1. now' \in Nat
        BY <1>2, CatchUpAssumption DEF TypeInv, MarketType
    <2>2. QED
        BY <1>1, <1>2, <2>1, SameTypes DEF TypeInv, MarketType, EngineType, Market
<1>4. Tape(tape) /\ Len(tape) = Len(bars) /\ Tape(more) /\ Len(more) = Len(bars')
    BY <1>1, <1>3, TapeIs
<1>5. SUFFICES ASSUME WindowFree PROVE Together(late, prompt, TapeOf(bars), now)'
    <2>1. WindowFree' <=> WindowFree
        BY <1>1 DEF WindowFree, ReadsAlike, HasRule
    <2>2. QED
        BY <2>1 DEF PromptInv
<1> HIDE DEF tape, more
<1>6. /\ Follows(late, tape) /\ Follows(prompt, tape)
      /\ Follows(late', more) /\ Follows(prompt', more)
    BY <1>1, <1>3, <1>4 DEF Follows
<1>7. Together(late, prompt, tape, now)
    BY <1>5 DEF PromptInv, tape
<1>8. Together(late', prompt', more, now')
    <2>1. CASE Elapse
        <3>1. Grown(tape, now, more, now')
            BY <1>1, <2>1, MarketGrows DEF tape, more
        <3>2. late' = late /\ prompt' = Tick(prompt, bars', now') /\ Len(bars) <= Len(bars')
            BY <1>1, <2>1, ElapseMarket DEF Elapse
        <3>3. prompt.st.watermark \in 1..Len(bars')
            BY <1>1, <1>3, <3>2 DEF Market
        <3>4. prompt' = TapeTick(prompt, more, now')
            <4>1. Tick(prompt, bars', now') = TapeTick(prompt, TapeOf(bars'), now')
                BY <1>1, <1>3, <1>5, <3>3, TickOnTape
            <4>2. QED
                BY <3>2, <4>1 DEF more
        <3>5. Together(late, TapeTick(prompt, more, now'), more, now')
            BY <1>1, <1>6, <1>7, <3>1, TogetherLater
        <3>6. QED
            BY <3>2, <3>4, <3>5
    <2>2. CASE LateTick
        <3>1. late' = Tick(late, bars, now) /\ UNCHANGED <<now, bars, prompt>>
            BY <2>2 DEF LateTick
        <3>2. Tick(late, bars, now) = TapeTick(late, tape, now)
            BY <1>1, <1>5, TickOnTape DEF tape
        <3>3. Together(TapeTick(late, tape, now), prompt, tape, now)
            BY <1>1, <1>4, <1>6, <1>7, TogetherTicked
        <3>4. more = tape
            BY <3>1 DEF tape, more
        <3>5. QED
            BY <3>1, <3>2, <3>3, <3>4
    <2>3. CASE UNCHANGED vars
        BY <1>7, <2>3 DEF vars, tape, more
    <2>4. QED
        BY <2>1, <2>2, <2>3 DEF Next
<1>9. PICK l, p, closed, at : l = late' /\ p = prompt' /\ closed = more /\ at = now'
    OBVIOUS
<1>10. Together(l, p, closed, at)' <=> Together(l, p, closed, at)
    BY <1>1, <1>3, <1>4, <1>6, <1>9, SameTogether
<1>11. Together(l, p, closed, at)'
    BY <1>8, <1>9, <1>10
<1>12. TapeOf(bars)' = more
    BY DEF TapeOf, more
<1>13. QED
    BY <1>9, <1>11, <1>12

\* The batch promise: whatever the bars and the delays, and for every plan whose rules read
\* the same in every window, two ticks of the late engine take it where the prompt one is,
\* with the same rules fired as often on the way.
THEOREM LateEngineCatchesUp == Spec => []CatchUpIsPrompt
<1>1. Init => TypeInv /\ PromptInv
    BY InitTypes, InitTogether
<1>2. TypeInv /\ PromptInv /\ [Next]_vars => TypeInv' /\ PromptInv'
    BY NextTypes, NextTogether
<1>3. TypeInv /\ PromptInv => CatchUpIsPrompt
    <2> SUFFICES ASSUME TypeInv, PromptInv, WindowFree, now > Span PROVE CatchUpIsPrompt
        BY DEF CatchUpIsPrompt
    <2> DEFINE tape == TapeOf(bars)
               once == TapeTick(late, tape, now)
    <2>1. /\ rules \in Plans /\ Market(bars) /\ now \in Nat /\ Tape(tape) /\ Len(tape) = Len(bars)
          /\ late \in Acc /\ late.st.watermark \in 1..Len(bars)
          /\ prompt \in Acc /\ prompt.st.watermark \in 1..Len(bars)
        BY MarketReady, TapeIs DEF TypeInv, MarketType, EngineType
    <2>2. Tick(late, bars, now) = once
        BY <2>1, TickOnTape
    <2>3. Together(late, prompt, tape, now)
        BY DEF PromptInv
    <2> HIDE DEF tape
    <2>4. Follows(late, tape) /\ Follows(prompt, tape)
        BY <2>1 DEF Follows
    <2>5. Follows(once, tape)
        BY <2>1, <2>4, TickIs
    <2> HIDE DEF once
    <2>6. Tick(once, bars, now) = TapeTick(once, tape, now)
        BY <2>1, <2>5, TickOnTape DEF Follows, tape
    <2>7. /\ Twice(late, tape, now).st = prompt.st
          /\ FiredRules(Twice(late, tape, now)) = FiredRules(prompt)
        BY <2>1, <2>3, <2>4, TogetherIsPrompt
    <2>8. QED
        BY <2>2, <2>6, <2>7 DEF CatchUpIsPrompt, Twice, once
<1>4. QED
    BY <1>1, <1>2, <1>3, PTL DEF Spec
=============================================================================
