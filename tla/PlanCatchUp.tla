---------------------------- MODULE PlanCatchUp -----------------------------
(***************************************************************************)
(* Two engines over one market.  "prompt" ticks at every instant, as the   *)
(* five-second loop does when nothing is late; "late" ticks when it can,   *)
(* after a gap of any length, and folds every bar it missed in one tick.   *)
(* Both run the evaluator of PlanEval on the same plan, seeded together.   *)
(*                                                                         *)
(* The tick: trade-control-cron/src/engine.rs, tick_one, from the fetch of *)
(* the fresh bars to the evaluation.  A finished plan is cleared, so it is *)
(* not ticked again.  The instant a bar closes, its broker serves it; the  *)
(* history it serves begins with the first bar.                            *)
(***************************************************************************)
EXTENDS Integers, Sequences, FiniteSets

CONSTANTS
    Plans,      \* the plans to follow, each a sequence of rules
    Span,       \* instants per bar
    ArmedAt,    \* the instant the plan was armed, in the first bar or the second
    AtrLength,  \* true ranges in the first mean of the ATR
    Lookback,   \* bars of history the detector of an entry's pattern asks for
    MaxBars,    \* bars the market closes
    Shapes      \* the bars it may close: [o, h, l, c, signal, rubbish]

VARIABLES
    rules,      \* the plan that is followed
    now,        \* the instant
    bars,       \* the bars closed so far
    prompt,     \* the plan as the prompt engine keeps it: its state and all fires
    late        \* the plan as the late engine keeps it

INSTANCE PlanEval WITH Rules <- rules

Plan(p) == INSTANCE PlanEval WITH Rules <- p

ASSUME CatchUpAssumption ==
    /\ Span \in Nat \ {0}
    /\ ArmedAt \in Nat
    /\ AtrLength \in Nat \ {0}
    /\ Lookback \in Nat
    /\ MaxBars \in Nat \ {0}
    /\ Shapes \subseteq [o : Nat, h : Nat, l : Nat, c : Nat, signal : BOOLEAN, rubbish : BOOLEAN]
    /\ \A p \in Plans : Plan(p)!WellFormed

ASSUME NewsAssumption == \A p \in Plans : Plan(p)!NewsInOrder

vars == <<rules, now, bars, prompt, late>>

BarOf(shape, n) ==
    [n |-> n, o |-> shape.o, h |-> shape.h, l |-> shape.l, c |-> shape.c,
     signal |-> shape.signal, rubbish |-> shape.rubbish, win |-> NoWindow]

Seeded(seen) == [st |-> SeedPlanState(seen), fires |-> <<>>]

Init ==
    /\ rules \in Plans
    /\ now = Span
    /\ \E shape \in Shapes : bars = <<BarOf(shape, 1)>>
    /\ prompt = Seeded(bars)
    /\ late = prompt

(* The window of a tick ends with its fresh bars.  It reaches back to the   *)
(* history the pattern of an entry needs before the first of them, and to   *)
(* the bar before the anchors of the plan's lines.                          *)
DetectorWindow(closed, fresh) ==
    LET first == fresh[1].n
        asked == {first}
                 \cup {first - Lookback : i \in
                          {j \in DOMAIN rules : rules[j].kind = "enter" /\ rules[j].on = "signal"}}
                 \cup {rules[i].anchor - 1 : i \in {j \in DOMAIN rules : rules[j].anchor # NoBar}}
        starts == {Higher(1, n) : n \in asked}
        start == CHOOSE n \in starts : \A m \in starts : n <= m
    IN  SubSeq(closed, start, Len(closed))

(* One tick over the bars closed by the instant "at".                      *)
Tick(engine, closed, at) ==
    LET fresh == SubSeq(closed, engine.st.watermark + 1, Len(closed))
        result == IF fresh = <<>>
                  THEN EvaluateControlsOnly(engine.st, closed[Len(closed)], at)
                  ELSE EvaluatePlan(engine.st, InWindow(fresh, DetectorWindow(closed, fresh)), at)
    IN  IF engine.st.phase = "done" THEN engine
        ELSE [st |-> result.st, fires |-> engine.fires \o result.fires]

(* An instant passes; on a boundary the market closes a bar.               *)
Elapse ==
    /\ now < MaxBars * Span
    /\ now' = now + 1
    /\ IF (now + 1) % Span = 0
       THEN \E shape \in Shapes : bars' = Append(bars, BarOf(shape, (now + 1) \div Span))
       ELSE bars' = bars
    /\ prompt' = Tick(prompt, bars', now')
    /\ UNCHANGED <<rules, late>>

LateTick ==
    /\ late' = Tick(late, bars, now)
    /\ late' # late
    /\ UNCHANGED <<rules, now, bars, prompt>>

Next == Elapse \/ LateTick

Spec == Init /\ [][Next]_vars

-----------------------------------------------------------------------------
NewsIds == {rules[i].news : i \in DOMAIN rules}

States == [phase : {"awaitBreak", "awaitEntry", "done"}, watermark : 0..MaxBars,
           fired : SUBSET RuleIds, blocked : BOOLEAN,
           news : SUBSET NewsIds,
           breakAt : 0..MaxBars, retestAt : 0..MaxBars,
           origin : [RuleIds -> Int], last : [RuleIds -> Int]]

(* The shape of the state: the instant stays within the horizon, a bar per  *)
(* whole Span has closed, and both engines hold a well-formed plan state.   *)
TypeOK ==
    /\ now \in Span..(MaxBars * Span)
    /\ Len(bars) = now \div Span
    /\ prompt.st \in States
    /\ late.st \in States

(* A rule that reads the same in every window its bar may come in.  It has  *)
(* no golden gate and no ATR term in its buffer, and if its touch widens,   *)
(* that counts from a break, on a line drawn before the plan was armed.     *)
(* (The market begins with bar 1, so the window of such a line does too.    *)
(* It has its ATR by bar 3, and no touch is widened before.)                *)
ReadsAlike(rule) ==
    /\ rule.atr = 0 /\ ~rule.golden
    /\ rule.widen # 0 =>
          HasRule("breakAndClose") /\ rule.anchor \in 1..2 /\ AtrLength <= 3

WindowFree == \A i \in DOMAIN rules : ReadsAlike(rules[i])

(* Batches and delays change nothing in a plan whose rules read the same in *)
(* every window.  However late the other engine is, its next two ticks take *)
(* it where the prompt one is, and the same rules fire on the way.          *)
(* (evaluate.rs, the note in evaluate_plan, promises of a batch's controls  *)
(* that they fire as if its bars came one tick at a time.)  The second tick *)
(* runs the controls due since the newest bar closed; the tick that seeds   *)
(* the plan evaluates nothing, so the claim is for the ticks after it.      *)
FiredRules(engine) == [id \in RuleIds |->
    Cardinality({i \in DOMAIN engine.fires : engine.fires[i].id = id})]

CatchUpIsPrompt ==
    WindowFree /\ now > Span =>
        \A once \in {Tick(late, bars, now)} :
            \A twice \in {Tick(once, bars, now)} :
                twice.st = prompt.st /\ FiredRules(twice) = FiredRules(prompt)

(* The bars a rule fired on.                                                *)
FiredOn(engine, id) ==
    {engine.fires[i].bar : i \in {j \in DOMAIN engine.fires : engine.fires[j].id = id}}

IdsOf(kind) == {rules[i].id : i \in {j \in DOMAIN rules : rules[j].kind = kind}}

(* The operator's contract for the break of 2026-07-24 (evaluate.rs, the    *)
(* doc of reseat_origin_on_dip): the break is the first bar after the seed  *)
(* that closes across the line when it, an earlier one or the arming bar    *)
(* opened on the near side, or an earlier one closed there.  Whatever the   *)
(* batches, and unless a veto ended or froze the spine first, the engine    *)
(* stamps exactly that bar.  The contract is for breaks up or down through  *)
(* a flat line that are read from the close, without a buffer or a gate.    *)
NearSide(rule, price) == IF rule.dir = "up" THEN price < rule.level ELSE price > rule.level
FarSide(rule, price) == IF rule.dir = "up" THEN price >= rule.level ELSE price <= rule.level

DippedBefore(rule, n) ==
    \/ \E m \in 2..(n - 1) : NearSide(rule, bars[m].o) \/ NearSide(rule, bars[m].c)
    \/ ArmedAt < Closes(bars[1]) /\ NearSide(rule, bars[1].o)

ContractBreaks(rule, upTo) ==
    {n \in 2..upTo : /\ FarSide(rule, bars[n].c)
                     /\ NearSide(rule, bars[n].o) \/ DippedBefore(rule, n)}

VetoedAt(engine) == UNION {FiredOn(engine, id) : id \in IdsOf("veto")}

InContract(rule) ==
    /\ UsesClose(rule) /\ rule.dir # "either" /\ rule.slope = 0
    /\ rule.pct = 0 /\ rule.atr = 0 /\ ~rule.golden

BreakMeetsContract ==
    HasRule("breakAndClose") /\ InContract(FirstOf("breakAndClose")) =>
        LET rule == FirstOf("breakAndClose")
            due == ContractBreaks(rule, late.st.watermark)
            first == CHOOSE n \in due : \A m \in due : n <= m
        IN  IF due = {} \/ \E v \in VetoedAt(late) : v <= first
            THEN late.st.breakAt = NoBar
            ELSE late.st.breakAt = first

(* An entry is only ever dispatched from a bar that printed outside a       *)
(* spread hour, after a break and then a retest on bars in that order, with *)
(* no veto on that bar or an earlier one; and a single-shot entry once.     *)
EntryInSequence ==
    \A id \in IdsOf("enter") : \A n \in FiredOn(late, id) :
        /\ ~bars[n].rubbish
        /\ \A v \in VetoedAt(late) : n < v
        /\ HasRule("retest") /\ ~MultiEnter =>
              \E r \in FiredOn(late, FirstOf("retest").id) :
                 /\ r <= n
                 /\ HasRule("breakAndClose") =>
                       \E b \in FiredOn(late, FirstOf("breakAndClose").id) : b < r

(* A reversal close is dispatched on every plan that may have a position    *)
(* and has not finished: the bar that retires the plan does not swallow it, *)
(* and a plan whose entries are blocked still watches.                      *)
PrintedAfter(rule, engine) ==
    {n \in 2..engine.st.watermark :
        /\ bars[n].signal /\ ~bars[n].rubbish
        /\ HasRule("breakAndClose") /\ ~MultiEnter =>
              engine.st.breakAt # NoBar /\ engine.st.breakAt < n}

ReversalNeverSwallowed ==
    \A i \in DOMAIN rules :
        rules[i].kind = "close" /\ rules[i].on = "signal" /\ ~rules[i].inNews =>
            (PrintedAfter(rules[i], late) # {} => FiredOn(late, rules[i].id) # {})
=============================================================================
