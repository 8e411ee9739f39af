--------------------------- MODULE MCPlanCatchUp ----------------------------
(* The plans, the bars and the sizes of the run of PlanCatchUp.            *)
EXTENDS PlanCatchUp

Blank(id, kind, on) ==
    [id |-> id, kind |-> kind, on |-> on, at |-> 0, level |-> 0, dir |-> "either",
     slope |-> 0, anchor |-> NoBar, widen |-> 0, pct |-> 0, atr |-> 0, golden |-> FALSE,
     news |-> "none", opens |-> FALSE, inNews |-> FALSE, retires |-> FALSE,
     multiShot |-> TRUE, needsRetest |-> FALSE]

(* A long break of the line at 2.  The veto below it retires the plan, the  *)
(* one above it only blocks entries; the trade expires in the fourth bar.   *)
(* The blackout of the second plan had begun when it was armed.             *)
Paused == [Blank("pause-start", "control", "time") EXCEPT !.at = 1]
NewsStart == [Blank("news-start", "control", "time") EXCEPT !.at = 5, !.news = "cpi", !.opens = TRUE]
NewsEnd == [Blank("news-end", "control", "time") EXCEPT !.at = 7, !.news = "cpi"]
FedStart == [NewsStart EXCEPT !.id = "fed-start", !.at = 3, !.news = "fed"]
FedEnd == [NewsEnd EXCEPT !.id = "fed-end", !.at = 4, !.news = "fed"]
TooLow == [Blank("too-low", "veto", "wickCross") EXCEPT !.level = 0, !.dir = "down", !.retires = TRUE]
TooHigh == [Blank("too-high", "veto", "wickCross") EXCEPT !.level = 4, !.dir = "up"]
Expiry == [Blank("expiry", "veto", "time") EXCEPT !.at = 6, !.retires = TRUE]
CloseOnReversal == Blank("close", "close", "signal")
CloseInNews == [Blank("close-news", "close", "signal") EXCEPT !.inNews = TRUE]
Break == [Blank("break", "breakAndClose", "closeCross") EXCEPT !.level = 2, !.dir = "up"]
Touch == [Blank("retest", "retest", "wickCross") EXCEPT !.level = 2, !.dir = "down"]
Enter == Blank("enter", "enter", "signal")
EnterOnce == [Enter EXCEPT !.multiShot = FALSE]
EnterFirst == [Blank("enter-first", "enter", "signal") EXCEPT !.needsRetest = TRUE]

(* A neckline that falls one a bar: a touch may fall short of it by one for *)
(* each bar since the first after the break.  The strict plan wants golden  *)
(* bars, and a break past a buffer; the last goes by its touch alone, in a  *)
(* window that moves with the batch.                                        *)
Falling(rule) == [rule EXCEPT !.slope = -1, !.level = 5, !.anchor = 1, !.widen = 1]
Strict(rule) == [rule EXCEPT !.golden = TRUE, !.atr = 10, !.pct = 1]

MCPlans ==
    {<<NewsStart, NewsEnd, TooLow, TooHigh, CloseOnReversal, Break, Touch, Enter>>,
     <<Paused, FedStart, FedEnd, NewsStart, NewsEnd, Expiry, CloseInNews, Break, Touch, EnterOnce>>,
     <<TooLow, TooHigh, CloseOnReversal, Break, Touch, EnterFirst, Enter>>,
     <<CloseOnReversal, Falling(Break), Falling(Touch), Enter>>,
     <<Strict(Falling(Break)), Strict(Falling(Touch)), Enter>>,
     <<[Falling(Touch) EXCEPT !.anchor = 4], EnterOnce>>}

Shape(o, h, l, c, signal, rubbish) ==
    [o |-> o, h |-> h, l |-> l, c |-> c, signal |-> signal, rubbish |-> rubbish]

MCShapes ==
    {Shape(1, 3, 1, 3, FALSE, FALSE),   \* up through the line
     Shape(3, 3, 2, 3, TRUE, FALSE),    \* a touch from above that prints a signal
     Shape(3, 3, 2, 3, TRUE, TRUE),     \* the same in a spread hour
     Shape(3, 3, 1, 1, FALSE, FALSE),   \* back below
     Shape(3, 4, 3, 3, TRUE, FALSE),    \* away to the upper veto, with a signal
     Shape(1, 1, 0, 1, FALSE, FALSE)}   \* down to the lower veto
=============================================================================
