------------------------------ MODULE PlanEval ------------------------------
(***************************************************************************)
(* The per-bar evaluator of a trade plan: engine/src/evaluate.rs.          *)
(*                                                                         *)
(* Pure operators.  A plan is the sequence Rules; what the engine persists *)
(* of it between ticks is a plan state; a tick folds the bars closed since *)
(* the watermark into a new state and the list of rules that fired.        *)
(*                                                                         *)
(* Prices are small integers, bars are numbered from 1 in the order they   *)
(* open, and bar n covers the instants (n - 1) * Span up to n * Span.      *)
(* A line may slope, and is extended forward without end.                  *)
(*                                                                         *)
(* A tick evaluates its bars against one window of bars, which ends at the *)
(* newest of them: the code hands the window to every reading of a bar.    *)
(* Here a bar carries what is read from it, bar.win: the window's first    *)
(* bar and its ATR.  The retest's tolerance, the ATR term of the cross     *)
(* buffer and the golden gate read it, and nothing else does.              *)
(*                                                                         *)
(* Left out: moving-average requirements, retrace and pullback milestones, *)
(* and confirmed or golden patterns.  A candle pattern is a flag of the    *)
(* bar, and so is a spread-hour ("rubbish") bar.                           *)
(*                                                                         *)
(* Each loop of the code is a function of the number of rules, or of bars, *)
(* visited so far, so that what a whole loop does can be proved.           *)
(***************************************************************************)
EXTENDS Integers, Sequences

CONSTANTS
    Rules,      \* the plan's rules, in the order the plan lists them
    Span,       \* instants per bar
    ArmedAt,    \* the instant the plan was armed
    AtrLength   \* true ranges in the first mean of the ATR

NoBar == 0          \* a milestone or watermark that is not set
NoPrice == -1       \* a cross reference that is not set
NoNews == "none"    \* a control that opens or closes no news window

(* A rule: its class, the trigger it reads, and the signed choices of its   *)
(* intent.  "at" and "dir" belong to the trigger; "news" and "opens" to a   *)
(* news control; "inNews" to a close; "retires" to a veto.  A line crosses  *)
(* "level" at bar 0 and gains "slope" a bar; "anchor" is the earlier of the *)
(* two bars a sloped line was drawn through, and "widen" what each bar adds *)
(* to the tolerance of a retest: retest_atr_step of the slope.  "pct" (per  *)
(* cent of the level), "atr" (per cent of the ATR) and "golden" are the     *)
(* plan's cross buffer and its gate, as each of its rules reads them.       *)
Kinds == {"control", "veto", "close", "breakAndClose", "retest", "enter"}
Readings == {"time", "closeCross", "wickCross", "signal"}

Dirs == {"up", "down", "either"}

Rule == [id : STRING, kind : Kinds, on : Readings, at : Int, level : Int, dir : Dirs,
         slope : Int, anchor : Nat, widen : Nat, pct : Nat, atr : Nat, golden : BOOLEAN,
         news : STRING, opens : BOOLEAN, inNews : BOOLEAN, retires : BOOLEAN,
         multiShot : BOOLEAN, needsRetest : BOOLEAN]

WellFormed ==
    /\ Rules \in Seq(Rule)
    /\ \A i, j \in DOMAIN Rules : Rules[i].id = Rules[j].id => i = j
    /\ \A i \in DOMAIN Rules :
          /\ Rules[i].slope = 0 => Rules[i].widen = 0
          /\ Rules[i].anchor = NoBar => Rules[i].slope = 0

(* A news event arms a start and then an end, and its window has start <=   *)
(* end: of two controls on one news, the earlier of the plan is due first.  *)
NewsInOrder ==
    \A i, j \in DOMAIN Rules :
        /\ i < j
        /\ Rules[i].kind = "control" /\ Rules[j].kind = "control"
        /\ Rules[i].news = Rules[j].news /\ Rules[i].news # NoNews
        => Rules[i].at <= Rules[j].at

RuleIds == {Rules[i].id : i \in DOMAIN Rules}

HasRule(kind) == \E i \in DOMAIN Rules : Rules[i].kind = kind

FirstOf(kind) ==
    Rules[CHOOSE i \in DOMAIN Rules :
            /\ Rules[i].kind = kind
            /\ \A j \in DOMAIN Rules : Rules[j].kind = kind => i <= j]

MultiEnter ==
    \E i, j \in DOMAIN Rules : i < j /\ Rules[i].kind = "enter" /\ Rules[j].kind = "enter"

Opens(bar) == (bar.n - 1) * Span
Closes(bar) == bar.n * Span

Lower(a, b) == IF a < b THEN a ELSE b
Higher(a, b) == IF a > b THEN a ELSE b

-----------------------------------------------------------------------------
(* The window.  Wilder's ATR is the mean of the first AtrLength true ranges *)
(* and then a running mean.  "ranges" over "weight" is that fraction; a     *)
(* window shorter than AtrLength has no ATR.                                *)
TrueRange(window, i) ==
    LET bar == window[i] IN
    IF i = 1 THEN bar.h - bar.l
    ELSE Higher(bar.h, window[i - 1].c) - Lower(bar.l, window[i - 1].c)

WilderRanges(window) ==
    LET upTo[i \in 0..Len(window)] ==
            IF i = 0 THEN 0
            ELSE IF i <= AtrLength THEN upTo[i - 1] + TrueRange(window, i)
            ELSE upTo[i - 1] * (AtrLength - 1) + TrueRange(window, i) * AtrLength^(i - AtrLength)
    IN  upTo[Len(window)]

NoWindow == [from |-> 1, warm |-> FALSE, ranges |-> 0, weight |-> 1]

Reading(window) ==
    IF Len(window) < AtrLength THEN [NoWindow EXCEPT !.from = window[1].n]
    ELSE [from |-> window[1].n, warm |-> TRUE, ranges |-> WilderRanges(window),
          weight |-> AtrLength^(Len(window) - AtrLength + 1)]

\* Mutant: the fresh bars are the window.
InBatch(bars, window) == [i \in DOMAIN bars |-> [bars[i] EXCEPT !.win = Reading(bars)]]

InWindow(bars, window) == [i \in DOMAIN bars |-> [bars[i] EXCEPT !.win = Reading(window)]]

AtrWarm(bar) == bar.win.warm

(* A golden bar ranges over the ATR of the window, if there is one.         *)
Golden(bar) == AtrWarm(bar) /\ bar.win.weight * (bar.h - bar.l) >= bar.win.ranges

-----------------------------------------------------------------------------
(* The state of a plan that has seen nothing, and the seed of its first     *)
(* tick: the watermark jumps to the newest bar and nothing fires.           *)
InitialPhase ==
    IF HasRule("breakAndClose") /\ ~MultiEnter THEN "awaitBreak" ELSE "awaitEntry"

FreshState ==
    [phase |-> InitialPhase, watermark |-> NoBar, fired |-> {}, blocked |-> FALSE,
     news |-> {}, breakAt |-> NoBar, retestAt |-> NoBar,
     origin |-> [id \in RuleIds |-> NoPrice], last |-> [id \in RuleIds |-> NoPrice]]

UsesClose(rule) == rule.on = "closeCross"
CloseRules == {Rules[i].id : i \in {j \in DOMAIN Rules : UsesClose(Rules[j])}}

ArmingBars(bars) ==
    {i \in DOMAIN bars : Opens(bars[i]) <= ArmedAt /\ ArmedAt < Closes(bars[i])}

SeedPlanState(bars) ==
    IF bars = <<>> THEN FreshState
    ELSE LET newest == bars[Len(bars)] IN
         [FreshState EXCEPT
            !.watermark = newest.n,
            !.origin = [id \in RuleIds |->
                IF id \in CloseRules /\ ArmingBars(bars) # {}
                THEN bars[CHOOSE i \in ArmingBars(bars) : TRUE].o ELSE NoPrice],
            !.last = [id \in RuleIds |-> IF id \in CloseRules THEN newest.c ELSE NoPrice]]

-----------------------------------------------------------------------------
(* Crosses.  A settled close cross compares the close with the side the     *)
(* rule started on; the origin is set once, and moves to the near side when *)
(* a bar opens or closes back across a line the plan was armed beyond.      *)
LevelAt(rule, bar) == rule.level + rule.slope * bar.n

(* The ways a cross may go: 1 is up through the line, -1 down through it.   *)
Ways(dir) == IF dir = "up" THEN {1} ELSE IF dir = "down" THEN {-1} ELSE {1, -1}

\* Mutant: the origin of a cross never moves.
NeverReseated(rule, origin, bar) == origin

Reseated(rule, origin, bar) ==
    IF /\ rule.kind # "enter" /\ rule.dir # "either"
       /\ \E line \in {LevelAt(rule, bar)}, way \in Ways(rule.dir) :
             /\ way * origin >= way * line
             /\ way * bar.o < way * line \/ way * bar.c < way * line
    THEN IF rule.dir = "up" THEN Lower(bar.o, bar.c) ELSE Higher(bar.o, bar.c)
    ELSE origin

(* The references after the bar, which is recorded whether or not it hits.  *)
Recorded(st, rule, bar) ==
    IF ~UsesClose(rule) THEN st
    ELSE LET first == IF st.origin[rule.id] = NoPrice THEN bar.o ELSE st.origin[rule.id] IN
         [st EXCEPT !.origin[rule.id] = Reseated(rule, first, bar),
                    !.last[rule.id] = bar.c]

(* A cross must go past the line by the plan's buffer, here in hundredths.  *)
(* Its ATR term is nothing while the window has no ATR; prices are whole,   *)
(* so the term is rounded up.                                               *)
Buffer(rule, bar) ==
    rule.pct * LevelAt(rule, bar)
        + IF rule.atr = 0 \/ ~AtrWarm(bar) THEN 0
          ELSE -((-rule.atr * bar.win.ranges) \div bar.win.weight)

SettledAcross(rule, origin, bar) ==
    \E line \in {LevelAt(rule, bar)}, way \in Ways(rule.dir) :
        /\ way * origin < way * line
        /\ 100 * way * (bar.c - line) >= Buffer(rule, bar)

EdgeAcross(rule, prev, bar) ==
    /\ prev # NoPrice
    /\ \E line \in {LevelAt(rule, bar)}, gap \in {Buffer(rule, bar)}, way \in Ways(rule.dir) :
          /\ 100 * way * (prev - line) < gap
          /\ 100 * way * (bar.c - line) >= gap

(* A wick straddles the line; one that must go up or down through it clears *)
(* the buffer too.                                                          *)
WickAcross(rule, bar) ==
    \E line \in {LevelAt(rule, bar)} :
        /\ bar.l <= line /\ line <= bar.h
        /\ rule.dir = "up" => 100 * (bar.h - line) >= Buffer(rule, bar)
        /\ rule.dir = "down" => 100 * (line - bar.l) >= Buffer(rule, bar)

(* The trigger of a rule at a bar, given the state before the bar.          *)
Triggered(rule, st, bar) ==
    CASE rule.on = "time" -> Opens(bar) >= rule.at
      [] rule.on = "closeCross" ->
            IF rule.kind = "enter" THEN EdgeAcross(rule, st.last[rule.id], bar)
            ELSE SettledAcross(rule, Recorded(st, rule, bar).origin[rule.id], bar)
      [] rule.on = "wickCross" -> WickAcross(rule, bar)
      [] OTHER -> FALSE

(* A wick on a spread hour is not a cross; a close, and a clock, always is. *)
Fires(rule, st, bar) ==
    /\ Triggered(rule, st, bar)
    /\ rule.on = "wickCross" => ~bar.rubbish

-----------------------------------------------------------------------------
(* One bar.  "acc" is the state so far and the fires so far, in dispatch    *)
(* order; each pass folds the plan's rules in their order.                  *)
Fired(acc, rule, bar) == Append(acc.fires, [id |-> rule.id, bar |-> bar.n])

Latched(acc, rule, bar) ==
    [acc EXCEPT !.st.fired = @ \cup {rule.id}, !.fires = Fired(acc, rule, bar)]

(* Controls read a clock, not the bar, and open or close a news window.     *)
ControlStep(acc, rule, bar, clock) ==
    IF rule.kind # "control" \/ rule.id \in acc.st.fired \/ clock < rule.at THEN acc
    ELSE [Latched(acc, rule, bar) EXCEPT
            !.st.news = IF rule.news = NoNews THEN @
                        ELSE IF rule.opens THEN @ \cup {rule.news} ELSE @ \ {rule.news}]

Controls(acc, bar, clock) ==
    LET after[i \in 0..Len(Rules)] ==
            IF i = 0 THEN acc ELSE ControlStep(after[i - 1], Rules[i], bar, clock)
    IN  after[Len(Rules)]

(* A close watches a position, so it waits for the entry phase, and goes on *)
(* watching when a veto has blocked further entries.                        *)
\* Mutant: a veto that blocks entries silences the closes.
ArmedUntilBlocked(rule, st) ==
    rule.kind = "veto" \/ (st.phase = "awaitEntry" /\ ~st.blocked)

Armed(rule, st) == rule.kind = "veto" \/ st.phase = "awaitEntry" \/ st.blocked

ReversalPrinted(rule, st, bar) ==
    bar.signal /\ ~bar.rubbish /\ (rule.inNews => st.news # {})

GuardFires(rule, st, bar) ==
    IF rule.on = "signal" THEN ReversalPrinted(rule, st, bar) ELSE Fires(rule, st, bar)

IsGuard(rule) == rule.kind \in {"veto", "close"}

GuardStep(acc, rule, bar) ==
    IF ~IsGuard(rule) \/ rule.id \in acc.st.fired \/ ~Armed(rule, acc.st) THEN acc
    ELSE LET seen == [acc EXCEPT !.st = Recorded(@, rule, bar)] IN
         IF ~GuardFires(rule, acc.st, bar) THEN seen
         ELSE LET hit == Latched(seen, rule, bar) IN
              IF rule.kind = "veto"
              THEN IF rule.retires THEN [hit EXCEPT !.over = TRUE]
                   ELSE [hit EXCEPT !.st.blocked = TRUE]
              ELSE hit

(* Every guard of the bar fires before a terminal one retires the plan.     *)
GuardsFired(acc, bar) ==
    LET after[i \in 0..Len(Rules)] ==
            IF i = 0 THEN [st |-> acc.st, fires |-> acc.fires, over |-> FALSE]
            ELSE GuardStep(after[i - 1], Rules[i], bar)
    IN  after[Len(Rules)]

Guards(acc, bar) ==
    LET all == GuardsFired(acc, bar)
    IN  [st |-> IF all.over THEN [all.st EXCEPT !.phase = "done"] ELSE all.st,
         fires |-> all.fires]

BreakAndClose(acc, bar) ==
    IF ~HasRule("breakAndClose") THEN [acc EXCEPT !.st.phase = "awaitEntry"]
    ELSE LET rule == FirstOf("breakAndClose") IN
         IF rule.id \in acc.st.fired \/ (rule.golden /\ ~Golden(bar)) THEN acc
         ELSE LET seen == [acc EXCEPT !.st = Recorded(@, rule, bar)] IN
              IF ~Fires(rule, acc.st, bar) THEN seen
              ELSE [Latched(seen, rule, bar) EXCEPT !.st.breakAt = bar.n,
                                                    !.st.phase = "awaitEntry"]

(* A retest by wick may stop short of the line by a tolerance, which grows  *)
(* with the bars since the break (without one, since the window began) from *)
(* nothing at the first, and is nothing while the window has no ATR.  What  *)
(* crosses the line is within any tolerance of it.                          *)
BarsSinceBreak(st, bar) == bar.n - Higher(st.breakAt, bar.win.from - 1)

Tolerance(rule, st, bar) ==
    IF AtrWarm(bar) THEN (BarsSinceBreak(st, bar) - 1) * rule.widen ELSE 0

RetestCrossed(rule, st, bar) ==
    \/ Triggered(rule, st, bar)
    \/ /\ rule.on = "wickCross"
       /\ \E line \in {LevelAt(rule, bar)}, tol \in {Tolerance(rule, st, bar)} :
             /\ tol > 0
             /\ rule.dir \in {"down", "either"} => bar.l <= line + tol
             /\ rule.dir \in {"up", "either"} => bar.h >= line - tol

(* The retest is a milestone the plan passes once, strictly after the break *)
(* (or from the start, when the plan has no break).                         *)
Retest(acc, bar) ==
    IF \/ ~HasRule("retest")
       \/ HasRule("breakAndClose") /\ acc.st.breakAt = NoBar
       \/ acc.st.breakAt # NoBar /\ bar.n <= acc.st.breakAt
    THEN acc
    ELSE LET rule == FirstOf("retest")
             seen == [acc EXCEPT !.st = Recorded(@, rule, bar)]
         IN  IF /\ rule.golden => Golden(bar)
                /\ acc.st.retestAt = NoBar /\ ~bar.rubbish /\ RetestCrossed(rule, acc.st, bar)
             THEN [seen EXCEPT !.st.retestAt = bar.n, !.fires = Fired(seen, rule, bar)]
             ELSE seen

RetestSatisfied(st, bar) ==
    /\ st.retestAt # NoBar /\ st.retestAt <= bar.n
    /\ IF st.breakAt # NoBar THEN st.retestAt > st.breakAt ELSE ~HasRule("breakAndClose")

\* Mutant: only a plan of several entries asks for the retest.
RetestOptional(rule) == MultiEnter /\ rule.needsRetest

NeedsRetest(rule) == IF MultiEnter THEN rule.needsRetest ELSE HasRule("retest")

(* A multi-shot entry fires on every bar that qualifies, and its plan lives *)
(* on; a single-shot one latches and ends the plan.                         *)
EntryStep(acc, rule, bar) ==
    IF \/ rule.kind # "enter" \/ acc.st.phase = "done"
       \/ rule.id \in acc.st.fired \/ bar.rubbish
    THEN acc
    ELSE LET seen == [acc EXCEPT !.st = Recorded(@, rule, bar)]
             hit == IF rule.on = "signal" THEN bar.signal ELSE Fires(rule, acc.st, bar)
         IN  IF ~hit \/ (NeedsRetest(rule) /\ ~RetestSatisfied(acc.st, bar)) THEN seen
             ELSE IF rule.multiShot THEN [seen EXCEPT !.fires = Fired(seen, rule, bar)]
             ELSE [Latched(seen, rule, bar) EXCEPT !.st.phase = "done"]

Entries(acc, bar) ==
    LET after[i \in 0..Len(Rules)] ==
            IF i = 0 THEN acc ELSE EntryStep(after[i - 1], Rules[i], bar)
    IN  after[Len(Rules)]

Spine(acc, bar) ==
    CASE acc.st.phase = "awaitBreak" -> BreakAndClose(acc, bar)
      [] acc.st.phase = "awaitEntry" ->
            Entries(Retest(IF MultiEnter THEN BreakAndClose(acc, bar) ELSE acc, bar), bar)
      [] OTHER -> acc

(* A bar's controls are judged at its close, clamped to the real clock.     *)
\* Mutant: controls are judged by the clock of the tick.
ControlClockNow(bar, now) == now

ControlClock(bar, now) == Lower(Closes(bar), now)

\* Mutant: the watermark is the close of the bar.
WatermarkAtClose(st, bar) == [st EXCEPT !.watermark = Closes(bar)]

Watermarked(st, bar) == [st EXCEPT !.watermark = bar.n]

(* A bar goes through the controls, the guards and the spine.  (The spine   *)
(* is written as a function: TLC then works out its argument once.)         *)
EvaluateBar(acc, bar, now) ==
    LET guarded == Guards(Controls(acc, bar, ControlClock(bar, now)), bar)
        after[g \in {guarded}] ==
            IF g.st.phase = "done" \/ g.st.blocked THEN g ELSE Spine(g, bar)
    IN  [after[guarded] EXCEPT !.st = Watermarked(@, bar)]

(* The loop stops at the bar that finishes the plan.                        *)
BarStep(acc, bar, now) ==
    IF acc.st.phase = "done" THEN acc ELSE EvaluateBar(acc, bar, now)

EvaluatePlan(st, bars, now) ==
    LET after[i \in 0..Len(bars)] ==
            IF i = 0 THEN [st |-> st, fires |-> <<>>]
            ELSE BarStep(after[i - 1], bars[i], now)
    IN  after[Len(bars)]

(* Between bars only the controls run; the bar is context, not evidence.    *)
EvaluateControlsOnly(st, lastBar, now) ==
    Controls([st |-> st, fires |-> <<>>], lastBar, now)
=============================================================================
