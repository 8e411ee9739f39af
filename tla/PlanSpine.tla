----------------------------- MODULE PlanSpine ------------------------------
(***************************************************************************)
(* One trade plan between the engine tick, the operator's requests and the *)
(* operation lock that both run under.                                     *)
(*                                                                         *)
(*   trade-control-cron/src/engine.rs    the tick: read, evaluate, persist,*)
(*                                       dispatch, in separate store calls *)
(*   worker/src/plan_admin.rs, storage   paper, swap and manual close: one *)
(*                                       transaction, exclusive            *)
(*   core/src/dispatch/control.rs        register and delete: shared       *)
(*   worker/src/operation_lock.rs        a fair read-write lock            *)
(*                                                                         *)
(* Evaluation is reduced to what this interplay can see of it: a closed    *)
(* bar is quiet, fires the entry, or fires the veto that ends the plan     *)
(* (PlanEval models how).  A plan's bars are numbered by the market.       *)
(***************************************************************************)
EXTENDS Integers, Sequences, FiniteSets

CONSTANTS
    Accounts,       \* broker accounts the plan may live on
    Home,           \* the one it is registered on
    MaxBars,        \* bars the market closes
    MaxRequests,    \* requests the operator sends
    Requests,       \* the operations among them
    OtherJobs,      \* the scheduled jobs besides the engine tick
    Faults          \* what may fail: writes, the broker's candles, the process

ASSUME SpineAssumption ==
    /\ IsFiniteSet(Accounts) /\ Home \in Accounts
    /\ MaxBars \in Nat \ {0}
    /\ MaxRequests \in Nat
    /\ Requests \subseteq {"register", "observe", "delete", "paper", "swap", "closed", "alert"}
    /\ OtherJobs \cap {"engine", "web"} = {}
    /\ Faults \subseteq {"put", "clearState", "clearPlan", "archive", "delete", "register", "journal",
                       "fetch", "crash"}

NoRow == -1         \* no plan_state row; 0 is a row whose watermark is not set
Procs == {"engine", "web"} \cup OtherJobs
Modes == {"live", "paper"}
Bars == 1..MaxBars
Gens == 1..(MaxRequests + 1)

VARIABLES
    market,     \* what each closed bar fires: a sequence of "quiet", "entry", "end"
    plans,      \* the trade_plan row of each account: its mode, or "none"
    states,     \* the plan_state row of each account: its watermark, or NoRow
    archive,    \* the archived_plan row of each account: a mode, "manual" or "none"
    queue,      \* processes waiting for the operation lock, first come first served
    held,       \* how each process holds it: "no", "shared" or "exclusive"
    engine,     \* the engine tick in progress
    web,        \* the request in progress
    asked,      \* requests sent so far
    journal,    \* paper entries written to the journal, by bar
    detached,   \* accounts an operator has taken the plan away from
    reg,        \* ghost: registrations of a new plan, and what befell the last one
    sent        \* ghost: how often each bar's entry was dispatched, per registration

store == <<plans, states, archive>>
lock == <<queue, held>>
ghosts == <<journal, detached, reg, sent>>
vars == <<market, plans, states, archive, queue, held, engine, web, asked,
          journal, detached, reg, sent>>

closed == Len(market)

Idle == [pc |-> "idle", now |-> 0, plan |-> [a \in Accounts |-> "none"], todo |-> {},
         acct |-> "none", upTo |-> 0, sends |-> {}, over |-> FALSE, seed |-> FALSE, gen |-> 0]
NoRequest == [pc |-> "idle", op |-> "none", acct |-> "none", now |-> 0, todo |-> {}]
NoPlan == [gen |-> 0, seeded |-> FALSE, due |-> 0, skipped |-> FALSE, over |-> 0]

Init ==
    /\ market = <<"quiet">>
    /\ plans = [a \in Accounts |-> IF a = Home THEN "live" ELSE "none"]
    /\ states = [a \in Accounts |-> NoRow]
    /\ archive = [a \in Accounts |-> "none"]
    /\ queue = <<>>
    /\ held = [p \in Procs |-> "no"]
    /\ engine = Idle
    /\ web = NoRequest
    /\ asked = 0
    /\ journal = {}
    /\ detached = {}
    /\ reg = [NoPlan EXCEPT !.gen = 1]
    /\ sent = [gn \in Gens \X Bars |-> 0]

CloseBar ==
    /\ closed < MaxBars
    /\ \E kind \in {"quiet", "entry", "end"} : market' = Append(market, kind)
    /\ UNCHANGED <<store, lock, engine, web, asked, ghosts>>

-----------------------------------------------------------------------------
(* The lock: a queue of processes, granted in turn; a shared holder admits  *)
(* another shared one, an exclusive one nobody.                             *)
\* Mutant: the administrative requests run beside the jobs.
SharedForAll(p) == "shared"

Wants(p) == IF p = "web" /\ web.op \in {"paper", "swap", "closed"} THEN "exclusive" ELSE "shared"

Compatible(p) ==
    /\ \A q \in Procs : held[q] # "exclusive"
    /\ Wants(p) = "exclusive" => \A q \in Procs : held[q] = "no"

\* Mutant: any waiting process that fits goes first.
GrantAnyone ==
    /\ \E i \in DOMAIN queue :
          /\ Compatible(queue[i])
          /\ held' = [held EXCEPT ![queue[i]] = Wants(queue[i])]
          /\ queue' = SubSeq(queue, 1, i - 1) \o SubSeq(queue, i + 1, Len(queue))
    /\ UNCHANGED <<market, store, engine, web, asked, ghosts>>

Grant ==
    /\ queue # <<>>
    /\ Compatible(Head(queue))
    /\ held' = [held EXCEPT ![Head(queue)] = Wants(Head(queue))]
    /\ queue' = Tail(queue)
    /\ UNCHANGED <<market, store, engine, web, asked, ghosts>>

Ask(p) == queue' = Append(queue, p) /\ UNCHANGED held
Release(p) == held' = [held EXCEPT ![p] = "no"] /\ UNCHANGED queue
Runs(p) == held[p] # "no"

(* Any other scheduled job: it only takes its turn.                         *)
JobAsk(j) ==
    /\ ~Runs(j) /\ \A i \in DOMAIN queue : queue[i] # j
    /\ Ask(j)
    /\ UNCHANGED <<market, store, engine, web, asked, ghosts>>

JobDone(j) ==
    /\ Runs(j)
    /\ Release(j)
    /\ UNCHANGED <<market, store, engine, web, asked, ghosts>>

-----------------------------------------------------------------------------
(* The engine tick.  Its clock is read before it waits for the lock.        *)
EngineAsk ==
    /\ engine.pc = "idle"
    /\ engine' = [Idle EXCEPT !.pc = "list", !.now = closed]
    /\ Ask("engine")
    /\ UNCHANGED <<market, store, web, asked, ghosts>>

EngineStep == UNCHANGED <<market, lock, web, asked>>

\* Mutant: paper plans are not listed.
EngineListLive ==
    /\ engine.pc = "list" /\ Runs("engine")
    /\ engine' = [engine EXCEPT !.pc = "pick", !.plan = plans, !.gen = reg.gen,
                                !.todo = {a \in Accounts : plans[a] = "live"}]
    /\ UNCHANGED <<store, ghosts>> /\ EngineStep

EngineList ==
    /\ engine.pc = "list" /\ Runs("engine")
    /\ engine' = [engine EXCEPT !.pc = "pick", !.plan = plans, !.gen = reg.gen,
                                !.todo = {a \in Accounts : plans[a] # "none"}]
    /\ UNCHANGED <<store, ghosts>> /\ EngineStep

EngineDone ==
    /\ engine.pc = "pick" /\ engine.todo = {}
    /\ engine' = Idle
    /\ Release("engine")
    /\ UNCHANGED <<market, store, web, asked, ghosts>>

(* The bars a tick would consume: up to the one that ends the plan, if any. *)
LastBar(since) ==
    LET ends == {n \in (since + 1)..engine.now : market[n] = "end"}
    IN  IF ends = {} THEN engine.now ELSE CHOOSE n \in ends : \A m \in ends : n <= m

\* Mutant: the bar at the watermark counts as new.
EntriesFrom(since, upTo) == {n \in since..upTo : market[n] = "entry"}

EntriesIn(since, upTo) == {n \in (since + 1)..upTo : market[n] = "entry"}

\* Mutant: only a missing row is a first tick.
FirstTickIfNoRow(since) == since = NoRow

FirstTick(since) == since \in {NoRow, 0}

(* A plan's state row is read, twice when it is missing, and then the bars  *)
(* since its watermark.                                                     *)
Picked(a) == engine.pc = "pick" /\ a \in engine.todo

(* No row, or no watermark: seed it at the newest bar and fire nothing.     *)
EngineSeed(a) ==
    /\ Picked(a) /\ FirstTick(states[a])
    /\ \E newest \in {engine.now} \cup (IF "fetch" \in Faults THEN {0} ELSE {}) :
          engine' = [engine EXCEPT !.todo = @ \ {a}, !.acct = a, !.pc = "put", !.upTo = newest,
                                   !.seed = TRUE, !.sends = {}, !.over = FALSE]
    /\ UNCHANGED <<store, ghosts>> /\ EngineStep

EngineEvaluate(a) ==
    /\ Picked(a) /\ ~FirstTick(states[a]) /\ states[a] < engine.now
    /\ LET upTo == LastBar(states[a])
           sends == EntriesIn(states[a], upTo)
       IN  engine' = [engine EXCEPT !.todo = @ \ {a}, !.acct = a, !.seed = FALSE,
             !.upTo = upTo, !.sends = sends, !.over = market[upTo] = "end",
             !.pc = IF engine.plan[a] = "paper" /\ sends # {} THEN "journal"
                    ELSE IF market[upTo] = "end" THEN "archive" ELSE "put"]
    /\ UNCHANGED <<store, ghosts>> /\ EngineStep

(* No bar is new, or the broker did not answer.                             *)
EnginePass(a) ==
    /\ Picked(a)
    /\ \/ "fetch" \in Faults
       \/ ~FirstTick(states[a]) /\ states[a] >= engine.now
    /\ engine' = [engine EXCEPT !.todo = @ \ {a}, !.acct = a]
    /\ UNCHANGED <<store, ghosts>> /\ EngineStep

(* When no bar comes, because none is new or because the broker answers an  *)
(* empty range, only the controls run; when one fires, the state goes back  *)
(* with the watermark it had.                                               *)
EngineControls(a) ==
    /\ Picked(a) /\ ~FirstTick(states[a])
    /\ states[a] >= engine.now \/ "fetch" \in Faults
    /\ engine' = [engine EXCEPT !.todo = @ \ {a}, !.acct = a, !.pc = "put", !.upTo = states[a],
                                !.seed = FALSE, !.sends = {}, !.over = FALSE]
    /\ UNCHANGED <<store, ghosts>> /\ EngineStep

EngineRead(a) == EngineSeed(a) \/ EngineEvaluate(a) \/ EnginePass(a) \/ EngineControls(a)

Skip == engine' = [engine EXCEPT !.pc = "pick", !.sends = {}]

\* Mutant: a failed note is logged and the state moves on.
EngineJournalBestEffort ==
    /\ engine.pc = "journal"
    /\ \/ journal' = journal \cup {<<engine.gen, n>> : n \in engine.sends}
       \/ "journal" \in Faults /\ UNCHANGED journal
    /\ engine' = [engine EXCEPT !.pc = IF engine.over THEN "archive" ELSE "put"]
    /\ UNCHANGED <<store, detached, reg, sent>> /\ EngineStep

(* A paper plan's entries reach the journal, one note each, before its      *)
(* state moves on; a note that fails stops the tick of the plan.            *)
EngineJournal ==
    /\ engine.pc = "journal"
    /\ \/ /\ journal' = journal \cup {<<engine.gen, n>> : n \in engine.sends}
          /\ engine' = [engine EXCEPT !.pc = IF engine.over THEN "archive" ELSE "put"]
       \/ /\ "journal" \in Faults /\ Skip
          /\ \E failing \in engine.sends :
                journal' = journal \cup {<<engine.gen, n>> : n \in {m \in engine.sends : m < failing}}
    /\ UNCHANGED <<store, detached, reg, sent>> /\ EngineStep

(* put_plan_state is two statements that commit one by one.                 *)
EnginePutDelete ==
    /\ engine.pc = "put"
    /\ \/ /\ states' = [states EXCEPT ![engine.acct] = NoRow]
          /\ engine' = [engine EXCEPT !.pc = "insert"]
       \/ "put" \in Faults /\ Skip /\ UNCHANGED states
    /\ UNCHANGED <<plans, archive, ghosts>> /\ EngineStep

(* What the plan owes after a write of its watermark: the next bar.  A seed *)
(* that jumps past a bar it owed has skipped it.                            *)
Advanced ==
    IF engine.gen # reg.gen THEN reg
    ELSE [reg EXCEPT !.seeded = @ \/ (engine.seed /\ engine.upTo > 0),
                     !.due = IF engine.upTo = 0 THEN 0 ELSE engine.upTo + 1,
                     !.skipped = @ \/ (engine.seed /\ reg.due \in 1..engine.upTo)]

EnginePutInsert ==
    /\ engine.pc = "insert"
    /\ \/ /\ states' = [states EXCEPT ![engine.acct] = engine.upTo]
          /\ reg' = Advanced
          /\ engine' = [engine EXCEPT !.pc = "send"]
       \/ "put" \in Faults /\ Skip /\ UNCHANGED <<states, reg>>
    /\ UNCHANGED <<plans, archive, journal, detached, sent>> /\ EngineStep

(* A finished plan is archived and its two rows removed: three writes, each *)
(* of which may fail without stopping the next.                             *)
EngineArchive ==
    /\ engine.pc = "archive"
    /\ \/ archive' = [archive EXCEPT ![engine.acct] = engine.plan[engine.acct]]
       \/ "archive" \in Faults /\ UNCHANGED archive
    /\ engine' = [engine EXCEPT !.pc = "clearState"]
    /\ reg' = IF engine.gen = reg.gen THEN [reg EXCEPT !.over = engine.upTo] ELSE reg
    /\ UNCHANGED <<plans, states, journal, detached, sent>> /\ EngineStep

EngineClearState ==
    /\ engine.pc = "clearState"
    /\ \/ states' = [states EXCEPT ![engine.acct] = NoRow]
       \/ "clearState" \in Faults /\ UNCHANGED states
    /\ engine' = [engine EXCEPT !.pc = "clearPlan"]
    /\ UNCHANGED <<plans, archive, ghosts>> /\ EngineStep

\* Mutant: the row of a finished plan stays.
EngineKeepPlan ==
    /\ engine.pc = "clearPlan"
    /\ engine' = [engine EXCEPT !.pc = "send"]
    /\ UNCHANGED <<store, ghosts>> /\ EngineStep

EngineClearPlan ==
    /\ engine.pc = "clearPlan"
    /\ \/ plans' = [plans EXCEPT ![engine.acct] = "none"]
       \/ "clearPlan" \in Faults /\ UNCHANGED plans
    /\ engine' = [engine EXCEPT !.pc = "send"]
    /\ UNCHANGED <<states, archive, ghosts>> /\ EngineStep

(* The fires go out after the state that consumed them is written; a paper  *)
(* plan only logs them.                                                     *)
Dispatching == engine.pc = "send" /\ engine.sends # {} /\ engine.plan[engine.acct] = "live"

EngineSend ==
    /\ Dispatching
    /\ \E n \in engine.sends :
          /\ \A m \in engine.sends : n <= m
          /\ sent' = [sent EXCEPT ![<<engine.gen, n>>] = @ + 1]
          /\ engine' = [engine EXCEPT !.sends = @ \ {n}]
    /\ UNCHANGED <<store, journal, detached, reg>> /\ EngineStep

EngineNext ==
    /\ engine.pc = "send" /\ ~Dispatching
    /\ Skip
    /\ UNCHANGED <<store, ghosts>> /\ EngineStep

-----------------------------------------------------------------------------
(* The operator's requests, one at a time.                                  *)
WebAsk ==
    /\ web.pc = "idle" /\ asked < MaxRequests
    /\ \E op \in Requests :
       \E a \in IF op \in {"delete", "closed"} THEN {"none"} ELSE Accounts :
          web' = [NoRequest EXCEPT !.pc = "start", !.op = op, !.acct = a, !.now = closed]
    /\ asked' = asked + 1
    /\ Ask("web")
    /\ UNCHANGED <<market, store, engine, ghosts>>

Serving(op) == web.pc = "start" /\ web.op = op /\ Runs("web")
Reply == web' = NoRequest /\ Release("web")
Continue(next) == web' = next /\ UNCHANGED lock
WebStep == UNCHANGED <<market, engine, asked, sent, journal>>
NoChange == UNCHANGED <<store, detached, reg>>

(* A registration may not undo an administrative transition.  The guard     *)
(* reads the plans and then the archive; one step stands for both, because  *)
(* a tick writes a plan's archive row before it removes its plan row, so no *)
(* plan is missing from both reads.                                         *)
RegisterBlocked(a, mode) ==
    \/ \E b \in Accounts : plans[b] # "none" /\ (b # a \/ plans[b] # mode)
    \/ \E b \in Accounts : archive[b] # "none" /\ (b # a \/ archive[b] \in {"paper", "manual"})

RegisterMode == IF web.op = "register" THEN "live" ELSE "paper"

WebRegister ==
    /\ Serving("register") \/ Serving("observe")
    /\ IF RegisterBlocked(web.acct, RegisterMode) THEN Reply
       ELSE Continue([web EXCEPT !.pc = "put"])
    /\ NoChange /\ WebStep

(* A registration that passed writes the plan, in one transaction, whatever *)
(* a tick beside it has done to the rows since the guard read them.         *)
WebPutPlan ==
    /\ web.pc = "put"
    /\ \/ /\ plans' = [plans EXCEPT ![web.acct] = RegisterMode]
          /\ detached' = IF RegisterMode = "live" THEN detached \ {web.acct} ELSE detached
          /\ reg' = IF plans[web.acct] # "none" THEN reg
                    ELSE [NoPlan EXCEPT !.gen = reg.gen + 1]
       \/ "register" \in Faults /\ UNCHANGED <<plans, detached, reg>>
    /\ Reply
    /\ UNCHANGED <<states, archive>> /\ WebStep

(* Delete: the plan row, its state row, then the archive, one write each;   *)
(* a failed write ends the request with an error.  The operator's say over  *)
(* the plan is forgotten with the first row that goes.                      *)
WebDelete ==
    /\ Serving("delete")
    /\ Continue([web EXCEPT !.pc = "rows", !.todo = {a \in Accounts : plans[a] # "none"}])
    /\ NoChange /\ WebStep

Failed == "delete" \in Faults /\ Reply /\ NoChange

WebDeletePlan ==
    /\ web.pc = "rows"
    /\ \E a \in web.todo :
          \/ /\ plans' = [plans EXCEPT ![a] = "none"]
             /\ Continue([web EXCEPT !.pc = "row", !.acct = a, !.todo = @ \ {a}])
             /\ reg' = [reg EXCEPT !.due = 0]
             /\ detached' = {}
             /\ UNCHANGED <<states, archive>>
          \/ Failed
    /\ WebStep

WebDeleteState ==
    /\ web.pc = "row"
    /\ \/ /\ states' = [states EXCEPT ![web.acct] = NoRow]
          /\ Continue([web EXCEPT !.pc = "rows"])
          /\ UNCHANGED <<plans, archive, detached, reg>>
       \/ Failed
    /\ WebStep

WebDeleteArchive ==
    /\ web.pc = "rows" /\ web.todo = {}
    /\ \/ /\ archive' = [a \in Accounts |-> "none"]
          /\ detached' = {}
          /\ Reply
          /\ UNCHANGED <<plans, states, reg>>
       \/ Failed
    /\ WebStep

(* Paper and swap move the one active plan to another account.  A bar that  *)
(* is forming when the request arrives is skipped; a plan that has never    *)
(* ticked takes no state along.  Refused when the plan is not unique, when  *)
(* the account does not change or when the target has state; what the target*)
(* broker cannot trade is refused too, which only makes a move rarer.       *)
Homes == {a \in Accounts : plans[a] # "none"}

\* Mutants: the watermark lands a bar late; the state does not move along.
SwitchLate(state) == IF state = NoRow THEN NoRow ELSE web.now + 2
SwitchDropped(state) == NoRow

SwitchState(state) == IF state = NoRow THEN NoRow ELSE web.now + 1

WebMove ==
    /\ Serving("paper") \/ Serving("swap")
    /\ LET b == web.acct
       IN  IF Cardinality(Homes) # 1 \/ b \in Homes \/ states[b] # NoRow
           THEN NoChange
           ELSE LET a == CHOOSE x \in Homes : TRUE
                    mode == IF web.op = "paper" THEN "paper" ELSE plans[a]
                IN  /\ plans' = [plans EXCEPT ![a] = "none", ![b] = mode]
                    /\ states' = [states EXCEPT ![a] = NoRow,
                          ![b] = SwitchState(states[a])]
                    /\ detached' = IF mode = "live" THEN (detached \cup {a}) \ {b}
                                   ELSE detached \cup {a, b}
                    /\ reg' = [reg EXCEPT !.seeded = @ \/ states[a] # NoRow,
                          !.due = IF states[a] = NoRow THEN 0 ELSE web.now + 2]
                    /\ UNCHANGED archive
    /\ Reply
    /\ WebStep

(* A manual close retires the one active plan, or the one archived one.     *)
Archived == {a \in Accounts : archive[a] # "none"}

WebClosed ==
    /\ Serving("closed")
    /\ LET source == IF Homes = {} THEN Archived ELSE Homes
       IN  IF Cardinality(source) # 1
           THEN NoChange
           ELSE LET a == CHOOSE x \in source : TRUE
                IN  /\ archive' = [archive EXCEPT ![a] = "manual"]
                    /\ plans' = [plans EXCEPT ![a] = "none"]
                    /\ states' = [states EXCEPT ![a] = NoRow]
                    /\ detached' = Accounts
                    /\ UNCHANGED reg
    /\ Reply
    /\ WebStep

(* An alert signed for account a before any of this: refused when the plan  *)
(* is elsewhere, on paper, closed by hand, or archived only elsewhere.  Its *)
(* two reads are one step for the reason RegisterBlocked gives.             *)
\* Mutant: only active plans are looked at.
AlertBlockedActive(a) == \E b \in Homes : b # a \/ plans[b] = "paper"

AlertBlocked(a) ==
    IF Homes # {} THEN \E b \in Homes : b # a \/ plans[b] = "paper"
    ELSE \/ \E b \in Archived : archive[b] \in {"paper", "manual"}
         \/ Archived # {} /\ a \notin Archived

WebAlert ==
    /\ Serving("alert")
    /\ IF AlertBlocked(web.acct) THEN Reply
       ELSE Continue([web EXCEPT !.pc = "mutate"])
    /\ NoChange /\ WebStep

WebMutate ==
    /\ web.pc = "mutate"
    /\ Reply
    /\ NoChange /\ WebStep

-----------------------------------------------------------------------------
(* The process stops anywhere: the rows stay, the tick, the request and the *)
(* lock are gone.                                                           *)
Crash ==
    /\ "crash" \in Faults
    /\ engine' = Idle /\ web' = NoRequest
    /\ queue' = <<>> /\ held' = [p \in Procs |-> "no"]
    /\ UNCHANGED <<market, store, asked, ghosts>>

EngineTick ==
    \/ EngineAsk \/ EngineList \/ EngineDone \/ (\E a \in Accounts : EngineRead(a))
    \/ EngineJournal \/ EnginePutDelete \/ EnginePutInsert
    \/ EngineArchive \/ EngineClearState \/ EngineClearPlan \/ EngineSend \/ EngineNext

WebServe ==
    \/ WebRegister \/ WebPutPlan \/ WebDelete \/ WebDeletePlan \/ WebDeleteState \/ WebDeleteArchive
    \/ WebMove \/ WebClosed \/ WebAlert \/ WebMutate

Next ==
    \/ CloseBar \/ Grant \/ (\E j \in OtherJobs : JobAsk(j) \/ JobDone(j))
    \/ EngineTick \/ WebAsk \/ WebServe \/ Crash

Spec == Init /\ [][Next]_vars

(* The loops never stop, a job that holds the lock returns, and the fair    *)
(* lock is handed on.  Nobody owes a bar or a request.                      *)
FairSpec ==
    /\ Spec
    /\ WF_vars(Grant) /\ WF_vars(EngineTick) /\ WF_vars(WebServe)
    /\ \A j \in OtherJobs : WF_vars(JobDone(j))

-----------------------------------------------------------------------------
(* The shape of every row and of the work in progress.                     *)
TypeOK ==
    /\ market \in Seq({"quiet", "entry", "end"}) /\ closed \in Bars
    /\ plans \in [Accounts -> Modes \cup {"none"}]
    /\ states \in [Accounts -> {NoRow} \cup 0..(MaxBars + 1)]
    /\ archive \in [Accounts -> Modes \cup {"none", "manual"}]
    /\ queue \in Seq(Procs)
    /\ held \in [Procs -> {"no", "shared", "exclusive"}]
    /\ engine.upTo \in 0..(MaxBars + 1) /\ engine.todo \subseteq Accounts
    /\ engine.sends \subseteq Bars
    /\ asked \in 0..MaxRequests
    /\ detached \subseteq Accounts
    /\ sent \in [Gens \X Bars -> Nat]

(* operation_lock.rs: a snapshot the engine loaded earlier never dispatches *)
(* after a paper, swap or manual-close request has been answered.           *)
NoDispatchAfterTransition == Dispatching => engine.acct \notin detached

(* plan_admin/guard.rs: nor does an alert that was signed before it pass,   *)
(* unless an earlier run of the plan has ended live on that same account:   *)
(* its archive row, which a second registration leaves behind, lets it by.  *)
StaleAlertRefused ==
    web.pc = "mutate" /\ web.acct \in detached => archive[web.acct] = "live"

(* The state is written before the dispatch, so whatever fails or stops, a  *)
(* registration dispatches the entry of a bar at most once, on any account. *)
BarDispatchedOnce == \A g \in Gens, n \in Bars : sent[<<g, n>>] <= 1

(* A paper plan never moves past an entry it has not journalled.            *)
PaperEntryJournalled ==
    engine.pc \in {"put", "insert", "archive", "clearState", "clearPlan", "send"} =>
        (engine.plan[engine.acct] = "paper" =>
            \A n \in engine.sends : <<engine.gen, n>> \in journal)

(* engine.rs: a live plan's bars are never skipped by a second seed.        *)
NoBarSkipped == ~reg.skipped

(* engine.rs: the first tick of a registration seeds and fires nothing.     *)
FirstTickFiresNothing == Dispatching /\ engine.gen = reg.gen => reg.seeded

(* engine.rs: once a bar has finished the plan, no later bar enters for it. *)
FinishedStaysFinished ==
    Dispatching /\ engine.gen = reg.gen /\ reg.over > 0 =>
        \A n \in engine.sends : n <= reg.over

(* Every request is answered: a job or another request never keeps the      *)
(* exclusive side waiting for ever.                                         *)
RequestAnswered == web.pc # "idle" ~> web.pc = "idle"

(* A plan that is behind the market, or was never seeded, catches up unless *)
(* it is moved, removed or done: the loop cannot leave a plan behind.       *)
Behind(a) == plans[a] # "none" /\ states[a] < closed

PlanKeepsUp == \A a \in Accounts : Behind(a) ~> ~Behind(a)
=============================================================================
