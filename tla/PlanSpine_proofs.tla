-------------------------- MODULE PlanSpine_proofs --------------------------
(* Theorems about PlanSpine, for every value of its constants. *)
EXTENDS PlanSpine, FiniteSetTheorems, WellFoundedInduction, TLAPS

-----------------------------------------------------------------------------
(* Type correctness, with the shape of the tick and the request in progress.*)

EngineStates == {"idle", "list", "pick", "journal", "put", "insert", "archive",
                 "clearState", "clearPlan", "send"}
WebStates == {"idle", "start", "put", "rows", "row", "mutate"}

\* The tick holds a plan from the moment it has read its state.
Holding == {"journal", "put", "insert", "archive", "clearState", "clearPlan", "send"}

EngineRecord == [pc : EngineStates, now : 0..MaxBars,
                 plan : [Accounts -> Modes \cup {"none"}], todo : SUBSET Accounts,
                 acct : Accounts \cup {"none"}, upTo : 0..(MaxBars + 1), sends : SUBSET Bars,
                 over : BOOLEAN, seed : BOOLEAN, gen : Nat]

EngineShape ==
    /\ engine \in EngineRecord
    /\ engine.pc \in Holding => engine.acct \in Accounts
    /\ engine.now <= closed

WebRecord == [pc : WebStates, op : Requests \cup {"none"}, acct : Accounts \cup {"none"},
              now : 0..MaxBars, todo : SUBSET Accounts]

WebShape ==
    /\ web \in WebRecord
    /\ web.pc = "start" /\ web.op \notin {"delete", "closed"} => web.acct \in Accounts
    /\ web.pc = "put" => web.acct \in Accounts /\ web.op \in {"register", "observe"}
    /\ web.pc \in {"rows", "row"} => web.op = "delete"
    /\ web.now <= closed

RegShape == "gen" \in DOMAIN reg /\ reg.gen \in Nat

TypeInv == TypeOK /\ EngineShape /\ WebShape /\ RegShape

\* A nonempty set of bars has a least one.
LEMMA LeastBar ==
    ASSUME NEW S \in SUBSET Nat, S # {}
    PROVE  \E n \in S : \A m \in S : n <= m
<1> DEFINE R == {ss \in Nat \X Nat : ss[1] < ss[2]}
<1>1. IsWellFoundedOn(R, Nat)
    BY NatLessThanWellFounded DEF OpToRel
<1> HIDE DEF R
<1>2. PICK n \in S : \A m \in S : ~ (<<m, n>> \in R)
    BY <1>1, WFMin
<1>3. \A m \in S : n <= m
    <2> SUFFICES ASSUME NEW m \in S, m < n PROVE FALSE
        OBVIOUS
    <2>1. <<m, n>> \in R
        BY DEF R
    <2>2. QED
        BY <1>2, <2>1
<1>4. QED
    BY <1>3

\* A set of one element is that element's singleton.
LEMMA OneElement ==
    ASSUME NEW S, IsFiniteSet(S), Cardinality(S) = 1
    PROVE  \E x \in S : S = {x}
BY FS_Singleton

\* The bars a tick consumes end after its watermark and not after its clock.
LEMMA LastBarBetween ==
    ASSUME TypeInv, NEW since \in Nat, since < engine.now
    PROVE  LastBar(since) \in (since + 1)..engine.now
<1> DEFINE ends == {n \in (since + 1)..engine.now : market[n] = "end"}
<1>1. engine.now \in Nat
    BY DEF TypeInv, EngineShape, EngineRecord
<1>2. CASE ends = {}
    BY <1>1, <1>2 DEF LastBar
<1>3. CASE ends # {}
    <2>1. ends \in SUBSET Nat
        BY <1>1
    <2> HIDE DEF ends
    <2>2. (CHOOSE n \in ends : \A m \in ends : n <= m) \in ends
        BY <1>3, <2>1, LeastBar
    <2> USE DEF ends
    <2>3. QED
        BY <1>3, <2>2 DEF LastBar
<1>4. QED
    BY <1>2, <1>3

\* The clock of the market and what hangs on it.
LEMMA MarketType ==
    ASSUME TypeInv, NEW kind \in {"quiet", "entry", "end"}, closed < MaxBars,
           market' = Append(market, kind)
    PROVE  market' \in Seq({"quiet", "entry", "end"}) /\ closed' \in Bars /\ closed' = closed + 1
BY SpineAssumption DEF TypeInv, TypeOK, closed, Bars

\* The lock only moves processes between its queue and its holders.
LockType == queue \in Seq(Procs) /\ held \in [Procs -> {"no", "shared", "exclusive"}]

StoreType ==
    /\ plans \in [Accounts -> Modes \cup {"none"}]
    /\ states \in [Accounts -> {NoRow} \cup 0..(MaxBars + 1)]
    /\ archive \in [Accounts -> Modes \cup {"none", "manual"}]

SentType == sent \in [Gens \X Bars -> Nat]

LEMMA AskType ==
    ASSUME LockType, NEW p \in Procs, Ask(p)
    PROVE  LockType'
BY DEF Ask, LockType

LEMMA ReleaseType ==
    ASSUME LockType, NEW p \in Procs, Release(p)
    PROVE  LockType'
BY DEF Release, LockType

\* Each part of the invariant that a step of the tick can disturb.
LEMMA TypeParts ==
    ASSUME TypeInv
    PROVE  StoreType /\ LockType /\ SentType /\ engine \in EngineRecord
BY DEF TypeInv, TypeOK, StoreType, LockType, SentType, EngineShape

LEMMA EngineKeepsTypes ==
    ASSUME TypeInv, EngineShape', StoreType', LockType', SentType', RegShape',
           UNCHANGED <<market, web, asked, detached>>
    PROVE  TypeInv'
BY DEF TypeInv, TypeOK, StoreType, LockType, SentType, EngineShape, EngineRecord, WebShape, closed

\* The tick's own record keeps its shape through each of its steps.
LEMMA EngineShapeKept ==
    ASSUME TypeInv, EngineTick
    PROVE  EngineShape'
<1>1. MaxBars \in Nat /\ closed' = closed
    BY SpineAssumption DEF EngineTick, EngineAsk, EngineList, EngineDone, EngineRead, EngineSeed, EngineEvaluate, EnginePass, EngineControls, EngineJournal,
        EnginePutDelete, EnginePutInsert, EngineArchive, EngineClearState, EngineClearPlan,
        EngineSend, EngineNext, EngineStep, closed
<1>2. closed \in Bars /\ plans \in [Accounts -> Modes \cup {"none"}] /\ EngineShape
    BY DEF TypeInv, TypeOK
<1> USE <1>1, <1>2 DEF EngineShape, EngineRecord, EngineStates, Holding, Bars
<1>3. CASE EngineAsk
    <2>1. Idle \in EngineRecord
        BY DEF Idle
    <2>2. engine' = [Idle EXCEPT !.pc = "list", !.now = closed]
        BY <1>3 DEF EngineAsk
    <2>3. closed \in 0..MaxBars /\ "list" \in EngineStates
        OBVIOUS
    <2> HIDE <1>1, <1>2
    <2>4. engine' \in EngineRecord /\ engine'.pc = "list" /\ engine'.now = closed
        BY <2>1, <2>2, <2>3
    <2>5. QED
        BY <1>1, <1>2, <2>4
<1>4. CASE EngineList
    BY <1>4 DEF EngineList, TypeInv, RegShape
<1>6. CASE EngineDone
    BY <1>6 DEF EngineDone, Idle
<1>7. CASE EngineJournal
    BY <1>7 DEF EngineJournal, Skip
<1>8. CASE EnginePutDelete
    BY <1>8 DEF EnginePutDelete, Skip
<1>9. CASE EnginePutInsert
    BY <1>9 DEF EnginePutInsert, Skip
<1>10. CASE EngineArchive
    BY <1>10 DEF EngineArchive
<1>11. CASE EngineClearState
    BY <1>11 DEF EngineClearState
<1>12. CASE EngineClearPlan
    BY <1>12 DEF EngineClearPlan
<1>13. CASE EngineSend
    BY <1>13 DEF EngineSend
<1>15. CASE EngineNext
    BY <1>15 DEF EngineNext, Skip
<1>16. ASSUME NEW x \in Accounts, EngineSeed(x) PROVE EngineShape'
    <2>1. PICK newest \in {engine.now, 0} :
             engine' = [engine EXCEPT !.todo = @ \ {x}, !.acct = x, !.pc = "put", !.upTo = newest,
                                      !.seed = TRUE, !.sends = {}, !.over = FALSE]
        BY <1>16 DEF EngineSeed
    <2>2. newest \in 0..(MaxBars + 1)
        OBVIOUS
    <2>3. QED
        BY <2>1, <2>2
<1>17. ASSUME NEW x \in Accounts, EngineEvaluate(x) PROVE EngineShape'
    <2> DEFINE since == states[x]
    <2>1. since \in Nat /\ since > 0 /\ since < engine.now
        BY <1>17 DEF EngineEvaluate, FirstTick, NoRow, TypeInv, TypeOK
    <2>2. LastBar(since) \in (since + 1)..engine.now
        BY <2>1, LastBarBetween
    <2>3. EntriesIn(since, LastBar(since)) \subseteq Bars /\ LastBar(since) \in 0..(MaxBars + 1)
        BY <2>1, <2>2 DEF EntriesIn
    <2>4. QED
        BY <1>17, <2>3 DEF EngineEvaluate
<1>5. ASSUME NEW x \in Accounts, EnginePass(x) PROVE EngineShape'
    BY <1>5 DEF EnginePass, Picked
<1>18. ASSUME NEW x \in Accounts, EngineControls(x) PROVE EngineShape'
    <2>1. states[x] \in 0..(MaxBars + 1)
        BY <1>18 DEF EngineControls, FirstTick, NoRow, TypeInv, TypeOK
    <2>2. QED
        BY <1>18, <2>1 DEF EngineControls
<1>14. QED
    BY <1>3, <1>4, <1>5, <1>6, <1>7, <1>8, <1>9, <1>10, <1>11, <1>12, <1>13, <1>15, <1>16, <1>17,
       <1>18
       DEF EngineTick, EngineRead

LEMMA ProcsHere == "engine" \in Procs /\ "web" \in Procs /\ OtherJobs \subseteq Procs
BY DEF Procs

\* The writes of the tick keep every row's type.
LEMMA EngineStoreKept ==
    ASSUME TypeInv, EngineTick
    PROVE  StoreType' /\ LockType' /\ SentType' /\ RegShape'
<1>1. MaxBars \in Nat
    BY SpineAssumption
<1>2. StoreType /\ LockType /\ SentType /\ RegShape /\ engine \in EngineRecord
    BY TypeParts DEF TypeInv
<1>3. engine.upTo \in 0..(MaxBars + 1) /\ engine.plan \in [Accounts -> Modes \cup {"none"}]
    BY <1>2 DEF EngineRecord
<1> USE <1>1, <1>2, <1>3
<1>4. CASE EngineAsk
    BY <1>4, AskType, ProcsHere DEF EngineAsk, store, ghosts, StoreType, SentType, RegShape
<1>5. CASE EngineDone
    BY <1>5, ReleaseType, ProcsHere DEF EngineDone, store, ghosts, StoreType, SentType, RegShape
<1>6. CASE EngineList \/ EngineNext \/ (\E x \in Accounts : EngineRead(x)) \/ EngineJournal
    BY <1>6 DEF EngineList, EngineNext, EngineRead, EngineSeed, EngineEvaluate, EnginePass,
        EngineControls, EngineJournal, EngineStep, store, ghosts, lock, StoreType, LockType, SentType, RegShape
<1>7. CASE EnginePutDelete \/ EngineClearState
    BY <1>7 DEF EnginePutDelete, EngineClearState, EngineStep, ghosts, lock, StoreType, LockType,
        SentType, RegShape
<1>8. CASE EnginePutInsert
    <2>1. "gen" \in DOMAIN Advanced /\ Advanced.gen = reg.gen
        BY DEF Advanced, RegShape
    <2>2. reg' = reg \/ reg' = Advanced
        BY <1>8 DEF EnginePutInsert
    <2>3. RegShape'
        BY <2>1, <2>2 DEF RegShape
    <2>4. states' \in {states, [states EXCEPT ![engine.acct] = engine.upTo]}
        BY <1>8 DEF EnginePutInsert
    <2>5. UNCHANGED <<plans, archive, queue, held, sent>>
        BY <1>8 DEF EnginePutInsert, EngineStep, lock
    <2>6. StoreType'
        BY <2>4, <2>5 DEF StoreType
    <2>7. QED
        BY <2>3, <2>5, <2>6 DEF LockType, SentType
<1>9. CASE EngineArchive
    BY <1>9 DEF EngineArchive, EngineStep, lock, StoreType, LockType, SentType, RegShape
<1>10. CASE EngineClearPlan
    BY <1>10 DEF EngineClearPlan, EngineStep, ghosts, lock, StoreType, LockType, SentType, RegShape
<1>11. CASE EngineSend
    <2>1. PICK n \in engine.sends : sent' = [sent EXCEPT ![<<engine.gen, n>>] = @ + 1]
        BY <1>11 DEF EngineSend
    <2>2. SentType'
        <3> DEFINE D == Gens \X Bars  k == <<engine.gen, n>>
        <3>1. sent' = [sent EXCEPT ![k] = @ + 1] /\ sent \in [D -> Nat]
            BY <2>1 DEF SentType
        <3> HIDE DEF D, k
        <3>2. sent' = [d \in D |-> IF d = k THEN sent[d] + 1 ELSE sent[d]]
            BY ONLY <3>1
        <3>3. \A d \in D : sent[d] + 1 \in Nat
            BY ONLY <3>1
        <3>4. sent' \in [D -> Nat]
            BY ONLY <3>1, <3>2, <3>3
        <3>5. QED
            BY <3>4 DEF SentType, D
    <2>3. QED
        BY <1>11, <2>2 DEF EngineSend, EngineStep, store, lock, StoreType, LockType, RegShape
<1>12. QED
    BY <1>4, <1>5, <1>6, <1>7, <1>8, <1>9, <1>10, <1>11 DEF EngineTick

LEMMA EngineTypes ==
    ASSUME TypeInv, EngineTick
    PROVE  TypeInv'
<1>1. UNCHANGED <<market, web, asked, detached>>
    BY DEF EngineTick, EngineAsk, EngineList, EngineDone, EngineRead, EngineSeed, EngineEvaluate,
        EnginePass, EngineControls, EngineJournal, EnginePutDelete, EnginePutInsert, EngineArchive,
        EngineClearState, EngineClearPlan, EngineSend, EngineNext, EngineStep, ghosts
<1>2. QED
    BY <1>1, EngineShapeKept, EngineStoreKept, EngineKeepsTypes

\* A request keeps its own shape and the types of what it writes.
LEMMA WebKeepsTypes ==
    ASSUME TypeInv, WebShape', StoreType', LockType', RegShape', detached' \subseteq Accounts,
           UNCHANGED <<market, engine, asked, sent>>
    PROVE  TypeInv'
BY DEF TypeInv, TypeOK, StoreType, LockType, EngineShape, EngineRecord, WebShape, closed

LEMMA ReplyTypes ==
    ASSUME TypeInv, Reply, UNCHANGED market
    PROVE  WebShape' /\ LockType'
<1>1. LockType'
    BY TypeParts, ReleaseType, ProcsHere DEF Reply
<1>2. closed' = closed /\ closed \in Nat
    BY DEF TypeInv, TypeOK, closed, Bars
<1>3. WebShape'
    BY <1>2, SpineAssumption DEF Reply, NoRequest, WebShape, WebRecord, WebStates
<1>4. QED
    BY <1>1, <1>3

LEMMA SoleHome ==
    ASSUME TypeInv, NEW S \in SUBSET Accounts, Cardinality(S) = 1
    PROVE  /\ (CHOOSE x \in S : TRUE) \in Accounts
           /\ S = {CHOOSE x \in S : TRUE}
<1>1. IsFiniteSet(S)
    BY SpineAssumption, FS_Subset
<1>2. PICK x \in S : S = {x}
    BY <1>1, OneElement
<1>3. QED
    BY <1>2

\* A request that goes on keeps its operation and its clock.
LEMMA ContinueTypes ==
    ASSUME TypeInv, UNCHANGED <<market, queue, held>>, web' \in WebRecord,
           web'.pc # "start", web'.pc \in {"rows", "row"} => web.op = "delete",
           web'.pc = "put" => web'.acct \in Accounts /\ web.op \in {"register", "observe"},
           web'.op = web.op, web'.now = web.now
    PROVE  WebShape' /\ LockType'
BY DEF TypeInv, TypeOK, WebShape, LockType, closed

LEMMA WebTypes ==
    ASSUME TypeInv, WebServe
    PROVE  TypeInv'
<1>1. UNCHANGED <<market, engine, asked, sent>>
    BY DEF WebServe, WebRegister, WebPutPlan, WebDelete, WebDeletePlan, WebDeleteState,
        WebDeleteArchive, WebMove, WebClosed, WebAlert, WebMutate, WebStep
<1>2. StoreType /\ LockType /\ RegShape /\ web \in WebRecord /\ WebShape /\ detached \subseteq Accounts
    BY TypeParts DEF TypeInv, TypeOK, WebShape
<1>3. web.op \in Requests \cup {"none"} /\ web.now \in 0..MaxBars /\ MaxBars \in Nat
    BY <1>2, SpineAssumption DEF WebRecord
<1> USE <1>1, <1>2, <1>3
<1>4. ASSUME NoChange PROVE StoreType' /\ RegShape' /\ detached' \subseteq Accounts
    BY <1>4 DEF NoChange, store, StoreType, RegShape
<1>5. ASSUME Reply, StoreType', RegShape', detached' \subseteq Accounts PROVE TypeInv'
    BY <1>5, ReplyTypes, WebKeepsTypes
<1>6. ASSUME Failed PROVE TypeInv'
    BY <1>4, <1>5, <1>6 DEF Failed
<1>7. CASE WebPutPlan
    <2>1. Reply /\ UNCHANGED <<states, archive>>
        BY <1>7 DEF WebPutPlan
    <2>2. PICK mode \in Modes :
             \/ UNCHANGED <<plans, detached, reg>>
             \/ /\ plans' = [plans EXCEPT ![web.acct] = mode]
                /\ detached' \in {detached, detached \ {web.acct}}
                /\ reg' = reg \/ reg' = [NoPlan EXCEPT !.gen = reg.gen + 1]
        BY <1>7 DEF WebPutPlan, RegisterMode, Modes
    <2>3. StoreType' /\ detached' \subseteq Accounts
        BY <2>1, <2>2 DEF StoreType
    <2>4. RegShape'
        BY <2>2 DEF RegShape, NoPlan
    <2>5. QED
        BY <1>5, <2>1, <2>3, <2>4
<1>8. CASE WebDelete
    <2>1. web' = [web EXCEPT !.pc = "rows", !.todo = {a \in Accounts : plans[a] # "none"}]
        BY <1>8 DEF WebDelete, Continue
    <2>2. web' \in WebRecord /\ web'.pc = "rows" /\ web'.op = web.op /\ web'.now = web.now
        BY <2>1 DEF WebRecord, WebStates
    <2>3. web.op = "delete" /\ UNCHANGED <<queue, held>> /\ NoChange
        BY <1>8 DEF WebDelete, Serving, Continue, lock
    <2>4. WebShape' /\ LockType'
        BY <2>2, <2>3, ContinueTypes
    <2>5. QED
        BY <1>4, <2>3, <2>4, WebKeepsTypes
<1>9. CASE WebDeletePlan
    <2>1. CASE Failed
        BY <1>6, <2>1
    <2>2. CASE ~Failed
        <3>1. PICK x \in web.todo :
                 /\ web' = [web EXCEPT !.pc = "row", !.acct = x, !.todo = @ \ {x}]
                 /\ plans' = [plans EXCEPT ![x] = "none"]
            BY <1>9, <2>2 DEF WebDeletePlan, Continue
        <3>2. UNCHANGED <<queue, held, states, archive>> /\ detached' = {} /\ web.pc = "rows"
              /\ reg' = [reg EXCEPT !.due = 0]
            BY <1>9, <2>2 DEF WebDeletePlan, Continue, lock
        <3>3. web' \in WebRecord /\ web'.pc = "row" /\ web'.op = web.op /\ web'.now = web.now
            BY <3>1 DEF WebRecord, WebStates
        <3>4. WebShape' /\ LockType'
            BY <3>2, <3>3, ContinueTypes DEF WebShape
        <3>5. StoreType' /\ RegShape'
            BY <3>1, <3>2 DEF StoreType, RegShape
        <3>6. QED
            BY <3>2, <3>4, <3>5, WebKeepsTypes
    <2>3. QED
        BY <2>1, <2>2
<1>10. CASE WebDeleteState
    <2>1. CASE Failed
        BY <1>6, <2>1
    <2>2. CASE ~Failed
        <3>1. /\ web' = [web EXCEPT !.pc = "rows"] /\ web.pc = "row"
              /\ states' = [states EXCEPT ![web.acct] = NoRow]
              /\ UNCHANGED <<queue, held, plans, archive, detached, reg>>
            BY <1>10, <2>2 DEF WebDeleteState, Continue, lock
        <3>2. web' \in WebRecord /\ web'.pc = "rows" /\ web'.op = web.op /\ web'.now = web.now
            BY <3>1 DEF WebRecord, WebStates
        <3>3. WebShape' /\ LockType'
            BY <3>1, <3>2, ContinueTypes DEF WebShape
        <3>4. StoreType' /\ RegShape'
            BY <3>1 DEF StoreType, RegShape
        <3>5. QED
            BY <3>1, <3>3, <3>4, WebKeepsTypes
    <2>3. QED
        BY <2>1, <2>2
<1>11. CASE WebDeleteArchive
    <2>1. CASE Failed
        BY <1>6, <2>1
    <2>2. CASE ~Failed
        <3>1. Reply /\ archive' = [a \in Accounts |-> "none"]
              /\ detached' = {} /\ UNCHANGED <<plans, states, reg>>
            BY <1>11, <2>2 DEF WebDeleteArchive
        <3>2. QED
            BY <1>5, <3>1 DEF StoreType, RegShape
    <2>3. QED
        BY <2>1, <2>2
<1>12. CASE WebMove
    <2>1. Reply /\ web.acct \in Accounts
        BY <1>12 DEF WebMove, Serving, WebShape
    <2>2. CASE NoChange
        BY <1>4, <1>5, <2>1, <2>2
    <2>3. CASE ~NoChange
        <3> DEFINE b == web.acct
                   a == CHOOSE x \in Homes : TRUE
                   mode == IF web.op = "paper" THEN "paper" ELSE plans[a]
        <3>1. Cardinality(Homes) = 1 /\ UNCHANGED archive
              /\ plans' = [plans EXCEPT ![a] = "none", ![b] = mode]
              /\ states' = [states EXCEPT ![a] = NoRow, ![b] = SwitchState(states[a])]
              /\ detached' \in {(detached \cup {a}) \ {b}, detached \cup {a, b}}
            BY <1>12, <2>3 DEF WebMove
        <3>2. a \in Accounts
            BY <3>1, SoleHome DEF Homes
        <3> HIDE DEF a
        <3>3. mode \in Modes \cup {"none"} /\ SwitchState(states[a]) \in {NoRow} \cup 0..(MaxBars + 1)
            BY <3>2 DEF StoreType, Modes, SwitchState
        <3>4. StoreType' /\ detached' \subseteq Accounts
            BY <2>1, <3>1, <3>2, <3>3 DEF StoreType
        <3>5. RegShape'
            BY <1>12, <2>3 DEF WebMove, RegShape
        <3>6. QED
            BY <1>5, <2>1, <3>4, <3>5
    <2>4. QED
        BY <2>2, <2>3
<1>13. CASE WebClosed
    <2>1. Reply
        BY <1>13 DEF WebClosed
    <2>2. CASE NoChange
        BY <1>4, <1>5, <2>1, <2>2
    <2>3. CASE ~NoChange
        <3>1. PICK a :
                 /\ archive' = [archive EXCEPT ![a] = "manual"]
                 /\ plans' = [plans EXCEPT ![a] = "none"]
                 /\ states' = [states EXCEPT ![a] = NoRow]
                 /\ detached' = Accounts
                 /\ UNCHANGED reg
            BY <1>13, <2>3 DEF WebClosed
        <3>2. QED
            BY <1>5, <2>1, <3>1 DEF StoreType, RegShape
    <2>4. QED
        BY <2>2, <2>3
<1>14. CASE WebAlert \/ WebRegister
    <2>1. CASE Reply
        BY <1>4, <1>5, <1>14, <2>1 DEF WebAlert, WebRegister
    <2>2. CASE ~Reply
        <3>1. /\ UNCHANGED <<queue, held>>
              /\ \/ web' = [web EXCEPT !.pc = "mutate"]
                 \/ /\ web' = [web EXCEPT !.pc = "put"] /\ web.acct \in Accounts
                    /\ web.op \in {"register", "observe"}
            BY <1>14, <2>2 DEF WebAlert, WebRegister, Serving, WebShape, Continue, lock
        <3>2. /\ web' \in WebRecord /\ web'.pc \in {"mutate", "put"}
              /\ web'.op = web.op /\ web'.now = web.now /\ web'.acct = web.acct
              /\ web'.pc = "put" => web.acct \in Accounts /\ web.op \in {"register", "observe"}
            BY <3>1 DEF WebRecord, WebStates
        <3>3. WebShape' /\ LockType'
            BY <3>1, <3>2, ContinueTypes
        <3>4. QED
            BY <1>4, <1>14, <3>3, WebKeepsTypes DEF WebAlert, WebRegister
    <2>3. QED
        BY <2>1, <2>2
<1>15. CASE WebMutate
    BY <1>4, <1>5, <1>15 DEF WebMutate
<1>16. QED
    BY <1>7, <1>8, <1>9, <1>10, <1>11, <1>12, <1>13, <1>14, <1>15 DEF WebServe

\* The market, the lock, the other jobs and a crash keep every type.
LEMMA AroundTypes ==
    ASSUME TypeInv, CloseBar \/ Grant \/ (\E j \in OtherJobs : JobAsk(j) \/ JobDone(j)) \/ WebAsk \/ Crash
    PROVE  TypeInv'
<1>1. MaxBars \in Nat /\ MaxRequests \in Nat /\ StoreType /\ LockType /\ SentType /\ RegShape
    BY TypeParts, SpineAssumption DEF TypeInv
<1>2. CASE CloseBar
    <2>1. market' \in Seq({"quiet", "entry", "end"}) /\ closed' \in Bars /\ closed' = closed + 1
        BY <1>2, MarketType DEF CloseBar
    <2>2. UNCHANGED <<plans, states, archive, queue, held, engine, web, asked, detached, reg, sent>>
        BY <1>2 DEF CloseBar, store, lock, ghosts
    <2>3. TypeOK' /\ RegShape'
        BY <2>1, <2>2 DEF TypeInv, TypeOK, RegShape
    <2>4. closed \in Nat /\ engine.now \in Nat /\ web.now \in Nat
        BY DEF TypeInv, TypeOK, EngineShape, EngineRecord, WebShape, WebRecord, Bars
    <2>5. EngineShape' /\ WebShape'
        BY <2>1, <2>2, <2>4 DEF TypeInv, EngineShape, EngineRecord, WebShape, WebRecord
    <2>6. QED
        BY <2>3, <2>5 DEF TypeInv
<1>3. ASSUME LockType', UNCHANGED <<market, store, engine, web, asked, ghosts>> PROVE TypeInv'
    BY <1>3 DEF TypeInv, TypeOK, LockType, EngineShape, EngineRecord, WebShape, WebRecord, RegShape,
        store, ghosts, closed
<1>4. CASE Grant
    <2>1. queue # <<>> /\ queue' = Tail(queue) /\ Head(queue) \in Procs
        BY <1>1, <1>4 DEF Grant, LockType
    <2>2. held' = [held EXCEPT ![Head(queue)] = Wants(Head(queue))]
        BY <1>4 DEF Grant
    <2>3. Wants(Head(queue)) \in {"no", "shared", "exclusive"}
        BY DEF Wants
    <2>4. LockType'
        BY <1>1, <2>1, <2>2, <2>3 DEF LockType
    <2>5. QED
        BY <1>3, <1>4, <2>4 DEF Grant
<1>5. ASSUME NEW j \in OtherJobs, JobAsk(j) \/ JobDone(j) PROVE TypeInv'
    BY <1>1, <1>3, <1>5, AskType, ReleaseType, ProcsHere DEF JobAsk, JobDone
<1>6. CASE WebAsk
    <2>1. PICK op \in Requests : \E x \in IF op \in {"delete", "closed"} THEN {"none"} ELSE Accounts :
             web' = [NoRequest EXCEPT !.pc = "start", !.op = op, !.acct = x, !.now = closed]
        BY <1>6 DEF WebAsk
    <2>2. PICK x \in IF op \in {"delete", "closed"} THEN {"none"} ELSE Accounts :
             web' = [NoRequest EXCEPT !.pc = "start", !.op = op, !.acct = x, !.now = closed]
        BY <2>1
    <2>3. asked < MaxRequests /\ asked' = asked + 1 /\ UNCHANGED <<market, engine, sent, detached>>
          /\ UNCHANGED <<plans, states, archive, reg>>
        BY <1>6 DEF WebAsk, store, ghosts
    <2>4. closed \in 0..MaxBars /\ closed' = closed
        BY <2>3 DEF TypeInv, TypeOK, Bars, closed
    <2>5. web' = [pc |-> "start", op |-> op, acct |-> x, now |-> closed, todo |-> {}]
        BY <2>2 DEF NoRequest
    <2>6. x \in Accounts \cup {"none"} /\ (op \notin {"delete", "closed"} => x \in Accounts)
        OBVIOUS
    <2>7. WebShape'
        BY <1>1, <2>4, <2>5, <2>6 DEF WebShape, WebRecord, WebStates
    <2>8. LockType'
        BY <1>1, <1>6, AskType, ProcsHere DEF WebAsk
    <2>9. asked' \in 0..MaxRequests
        BY <1>1, <2>3 DEF TypeInv, TypeOK
    <2>10. QED
        BY <2>3, <2>4, <2>7, <2>8, <2>9
           DEF TypeInv, TypeOK, LockType, EngineShape, EngineRecord, RegShape
<1>7. CASE Crash
    <2>1. engine' = Idle /\ web' = NoRequest /\ queue' = <<>> /\ held' = [p \in Procs |-> "no"]
          /\ UNCHANGED <<market, plans, states, archive, asked, detached, reg, sent>>
        BY <1>7 DEF Crash, store, ghosts
    <2>2. closed' = closed /\ closed \in Nat
        BY <2>1 DEF TypeInv, TypeOK, closed, Bars
    <2>3. EngineShape'
        BY <1>1, <2>1, <2>2 DEF Idle, EngineShape, EngineRecord, EngineStates, Holding
    <2>4. WebShape'
        BY <1>1, <2>1, <2>2 DEF NoRequest, WebShape, WebRecord, WebStates
    <2>5. RegShape'
        BY <1>1, <2>1 DEF RegShape
    <2>6. engine'.upTo = 0 /\ engine'.todo = {} /\ engine'.sends = {}
        BY <2>1 DEF Idle
    <2>7. TypeOK'
        BY <1>1, <2>1, <2>2, <2>6 DEF TypeInv, TypeOK
    <2>8. QED
        BY <2>3, <2>4, <2>5, <2>7 DEF TypeInv
<1>8. QED
    BY <1>2, <1>4, <1>5, <1>6, <1>7

LEMMA TypeStep == TypeInv /\ [Next]_vars => TypeInv'
<1> SUFFICES ASSUME TypeInv, [Next]_vars PROVE TypeInv'
    OBVIOUS
<1>1. CASE UNCHANGED vars
    BY <1>1 DEF vars, TypeInv, TypeOK, EngineShape, EngineRecord, WebShape, WebRecord, RegShape, closed
<1>2. QED
    BY <1>1, EngineTypes, WebTypes, AroundTypes DEF Next

LEMMA TypeInit == Init => TypeInv
<1> SUFFICES ASSUME Init PROVE TypeInv
    OBVIOUS
<1>1. MaxBars \in Nat \ {0} /\ MaxRequests \in Nat /\ Home \in Accounts
    BY SpineAssumption
<1>2. market \in Seq({"quiet", "entry", "end"}) /\ closed = 1 /\ queue \in Seq(Procs)
    BY DEF Init, closed
<1>3. EngineShape
    BY <1>1, <1>2 DEF Init, Idle, EngineShape, EngineRecord, EngineStates, Holding
<1>4. WebShape
    BY <1>1, <1>2 DEF Init, NoRequest, WebShape, WebRecord, WebStates
<1>5. RegShape
    BY DEF Init, NoPlan, RegShape
<1>6. TypeOK
    BY <1>1, <1>2 DEF Init, Idle, TypeOK, Modes, Bars
<1>7. QED
    BY <1>3, <1>4, <1>5, <1>6 DEF TypeInv

\* Whatever the accounts, jobs, bars, requests and faults, every row, the lock
\* and the work in progress keep their shape.
THEOREM TypeCorrect == Spec => []TypeOK
<1>1. TypeInv => TypeOK
    BY DEF TypeInv
<1>2. QED
    BY <1>1, TypeInit, TypeStep, PTL DEF Spec

-----------------------------------------------------------------------------
(* The operation lock.  The exclusive side admits nobody else, every process*)
(* holds it in the mode its work asks for, and waits for it at most once.   *)
LockOrder ==
    /\ \A p, q \in Procs : held[p] = "exclusive" /\ p # q => held[q] = "no"
    /\ held["engine"] # "exclusive"
    /\ engine.pc \notin {"idle", "list"} => held["engine"] = "shared"
    /\ engine.pc = "idle" => held["engine"] = "no"
    /\ web.pc \notin {"idle", "start"} => held["web"] # "no"
    /\ web.pc = "idle" => held["web"] = "no"
    /\ held["web"] # "no" => held["web"] = Wants("web")
    /\ \A i \in DOMAIN queue : queue[i] = "web" => web.pc = "start" /\ held["web"] = "no"
    /\ \A i \in DOMAIN queue : queue[i] = "engine" => engine.pc = "list" /\ held["engine"] = "no"
    /\ \A i, j \in DOMAIN queue : queue[i] = queue[j] /\ queue[i] \in {"web", "engine"} => i = j

\* A registration on its way to the store was let past a store that holds no
\* other plan; a tick beside it may have removed the one it found.
PutInv ==
    web.pc = "put" =>
        \A x \in Accounts : plans[x] # "none" => x = web.acct /\ plans[x] = RegisterMode

LockInv == LockOrder /\ PutInv

\* What a step of the tick does to the lock.
LEMMA EngineOnLock ==
    ASSUME TypeInv, EngineTick
    PROVE  \/ EngineAsk
           \/ EngineDone
           \/ /\ UNCHANGED <<queue, held, web>>
              /\ engine.pc # "idle" /\ engine'.pc \notin {"idle", "list"}
              /\ engine'.now = engine.now
              /\ engine.pc = "list" => Runs("engine")
<1>1. engine \in EngineRecord
    BY TypeParts
<1> USE <1>1 DEF EngineRecord
<1>2. CASE EngineList \/ EngineNext \/ EngineJournal
    BY <1>2 DEF EngineList, EngineNext, EngineJournal, Skip, EngineStep, lock
<1>3. ASSUME NEW x \in Accounts, EngineRead(x)
      PROVE  UNCHANGED <<queue, held, web>> /\ engine.pc = "pick" /\ engine'.pc \notin {"idle", "list"}
             /\ engine'.now = engine.now
    <2>1. CASE EngineSeed(x)
        BY <2>1 DEF EngineSeed, Picked, EngineStep, lock
    <2>2. CASE EngineEvaluate(x)
        BY <2>2 DEF EngineEvaluate, Picked, EngineStep, lock
    <2>3. CASE EnginePass(x) \/ EngineControls(x)
        BY <2>3 DEF EnginePass, EngineControls, Picked, EngineStep, lock
    <2>4. QED
        BY <1>3, <2>1, <2>2, <2>3 DEF EngineRead
<1>4. CASE EnginePutDelete \/ EnginePutInsert \/ EngineArchive
    BY <1>4 DEF EnginePutDelete, EnginePutInsert, EngineArchive, Skip, EngineStep, lock
<1>5. CASE EngineClearState \/ EngineClearPlan \/ EngineSend
    BY <1>5 DEF EngineClearState, EngineClearPlan, EngineSend, Dispatching, EngineStep, lock
<1>6. QED
    BY <1>2, <1>3, <1>4, <1>5 DEF EngineTick

\* What a step of a request does to the lock: it holds it, and answers or goes on.
LEMMA WebOnLock ==
    ASSUME TypeInv, LockInv, WebServe
    PROVE  /\ held["web"] # "no" /\ UNCHANGED engine
           /\ \/ Reply
              \/ UNCHANGED <<queue, held>> /\ web'.op = web.op /\ web'.pc \notin {"idle", "start"}
<1>1. web \in WebRecord
    BY DEF TypeInv, WebShape
<1> USE <1>1 DEF WebRecord, WebStep
<1>2. CASE WebPutPlan \/ WebMove \/ WebClosed \/ WebMutate
    BY <1>2 DEF WebPutPlan, WebMove, WebClosed, WebMutate, Serving, Runs, LockInv, LockOrder
<1>3. CASE WebDelete \/ WebAlert \/ WebRegister
    BY <1>3 DEF WebDelete, WebAlert, WebRegister, Serving, Runs, Continue, lock
<1>4. CASE WebDeletePlan
    BY <1>4 DEF WebDeletePlan, Failed, Continue, LockInv, LockOrder, lock
<1>5. CASE WebDeleteState \/ WebDeleteArchive
    BY <1>5 DEF WebDeleteState, WebDeleteArchive, Failed, Continue, LockInv, LockOrder, lock
<1>6. QED
    BY <1>2, <1>3, <1>4, <1>5 DEF WebServe

LEMMA LockOrderStep ==
    ASSUME TypeInv, LockInv, [Next]_vars
    PROVE  LockOrder'
<1>1. /\ queue \in Seq(Procs) /\ held \in [Procs -> {"no", "shared", "exclusive"}]
      /\ "engine" \in Procs /\ "web" \in Procs /\ OtherJobs \subseteq Procs
      /\ "engine" \notin OtherJobs /\ "web" \notin OtherJobs
    BY ProcsHere, SpineAssumption DEF TypeInv, TypeOK
<1> USE <1>1
<1>2. CASE EngineAsk
    BY <1>2 DEF EngineAsk, Ask, Idle, LockInv, LockOrder, Wants
<1>3. CASE EngineDone
    BY <1>3 DEF EngineDone, Release, Idle, LockInv, LockOrder, Wants
<1>4. CASE EngineTick /\ ~EngineAsk /\ ~EngineDone
    BY <1>4, EngineOnLock DEF LockInv, LockOrder, Wants, Runs
<1>5. CASE WebAsk
    <2>1. web'.pc = "start" /\ web.pc = "idle" /\ queue' = Append(queue, "web")
          /\ UNCHANGED <<held, engine>>
        BY <1>5 DEF WebAsk, Ask, NoRequest
    <2>2. QED
        BY <2>1 DEF LockInv, LockOrder, Wants
<1>6. CASE WebServe
    BY <1>6, WebOnLock DEF LockInv, LockOrder, Reply, Release, NoRequest, Wants
<1>7. CASE Grant
    <2>1. /\ queue # <<>> /\ queue' = Tail(queue) /\ UNCHANGED <<engine, web>>
          /\ held' = [held EXCEPT ![Head(queue)] = Wants(Head(queue))]
          /\ Compatible(Head(queue))
        BY <1>7 DEF Grant
    <2>2. Head(queue) = queue[1] /\ Head(queue) \in Procs /\ 1 \in DOMAIN queue
        BY <2>1
    <2>3. \A i \in DOMAIN queue' : i + 1 \in DOMAIN queue /\ i + 1 # 1 /\ queue'[i] = queue[i + 1]
        BY <2>1
    <2>4. Wants(Head(queue)) \in {"shared", "exclusive"}
          /\ (Head(queue) # "web" => Wants(Head(queue)) = "shared")
        BY DEF Wants
    <2>5. \A p, q \in Procs : held'[p] = "exclusive" /\ p # q => held'[q] = "no"
        BY <2>1, <2>2, <2>4 DEF LockInv, LockOrder, Compatible
    <2>6. \A i \in DOMAIN queue' : queue'[i] \in {"web", "engine"} => queue'[i] # Head(queue)
        BY <2>2, <2>3 DEF LockInv, LockOrder
    <2>7. \A i, j \in DOMAIN queue' :
             queue'[i] = queue'[j] /\ queue'[i] \in {"web", "engine"} => i = j
        <3> SUFFICES ASSUME NEW i \in DOMAIN queue', NEW j \in DOMAIN queue',
                            queue'[i] = queue'[j], queue'[i] \in {"web", "engine"}
                     PROVE  i = j
            OBVIOUS
        <3>1. i + 1 = j + 1
            BY <2>3 DEF LockInv, LockOrder
        <3>2. i \in Nat /\ j \in Nat
            BY <2>1
        <3>3. QED
            BY <3>1, <3>2
    <2>8. /\ \A i \in DOMAIN queue' : queue'[i] = "web" => web.pc = "start" /\ held'["web"] = "no"
          /\ \A i \in DOMAIN queue' : queue'[i] = "engine" => engine.pc = "list" /\ held'["engine"] = "no"
        BY <2>1, <2>3, <2>6 DEF LockInv, LockOrder
    <2>9. Wants("web")' = Wants("web")
        BY <2>1 DEF Wants
    <2>10. QED
        BY <2>1, <2>2, <2>4, <2>5, <2>7, <2>8, <2>9 DEF LockInv, LockOrder
<1>8. ASSUME NEW j \in OtherJobs, JobAsk(j) PROVE LockOrder'
    BY <1>8 DEF JobAsk, Ask, LockInv, LockOrder, Wants
<1>9. ASSUME NEW j \in OtherJobs, JobDone(j) PROVE LockOrder'
    BY <1>9 DEF JobDone, Release, LockInv, LockOrder, Wants
<1>10. CASE Crash
    BY <1>10 DEF Crash, Idle, NoRequest, LockInv, LockOrder, Wants
<1>11. CASE CloseBar \/ UNCHANGED vars
    BY <1>11 DEF CloseBar, vars, lock, LockInv, LockOrder, Wants
<1>12. QED
    BY <1>2, <1>3, <1>4, <1>5, <1>6, <1>7, <1>8, <1>9, <1>10, <1>11 DEF Next

\* A tick beside a registration only removes plans, and nothing else runs.
LEMMA PutStep ==
    ASSUME TypeInv, LockInv, [Next]_vars
    PROVE  PutInv'
<1> SUFFICES ASSUME web'.pc = "put"
             PROVE  \A x \in Accounts :
                       plans'[x] # "none" => x = web'.acct /\ plans'[x] = RegisterMode'
    BY DEF PutInv
<1>1. StoreType /\ web \in WebRecord
    BY TypeParts DEF TypeInv, WebShape
<1>2. ASSUME UNCHANGED web, \A x \in Accounts : plans'[x] \in {"none", plans[x]}
      PROVE  \A x \in Accounts :
                plans'[x] # "none" => x = web'.acct /\ plans'[x] = RegisterMode'
    <2>1. RegisterMode' = RegisterMode
        BY <1>2 DEF RegisterMode
    <2>2. QED
        BY <1>2, <2>1 DEF LockInv, PutInv
<1>3. CASE EngineTick
    <2>1. CASE EngineClearPlan
        BY <1>1, <1>2, <2>1 DEF EngineClearPlan, EngineStep, StoreType
    <2>2. CASE ~EngineClearPlan
        BY <1>2, <1>3, <2>2
           DEF EngineTick, EngineAsk, EngineList, EngineDone, EngineRead, EngineSeed, EngineEvaluate,
               EnginePass, EngineControls, EngineJournal, EnginePutDelete, EnginePutInsert,
               EngineArchive, EngineClearState, EngineSend, EngineNext, EngineStep, store
    <2>3. QED
        BY <2>1, <2>2
<1>4. CASE WebRegister
    <2>1. /\ ~RegisterBlocked(web.acct, RegisterMode) /\ UNCHANGED plans
          /\ web' = [web EXCEPT !.pc = "put"]
        BY <1>4 DEF WebRegister, Reply, NoRequest, Continue, NoChange, store
    <2>2. web'.acct = web.acct /\ RegisterMode' = RegisterMode
        BY <1>1, <2>1 DEF WebRecord, RegisterMode
    <2>3. QED
        BY <2>1, <2>2 DEF RegisterBlocked
<1>5. CASE WebServe /\ ~WebRegister
    <2>1. ASSUME Reply PROVE FALSE
        BY <2>1 DEF Reply, NoRequest
    <2>2. web'.pc # "put"
        BY <1>1, <1>5, <2>1
           DEF WebServe, WebPutPlan, WebDelete, WebDeletePlan, WebDeleteState, WebDeleteArchive,
               Failed, WebMove, WebClosed, WebAlert, WebMutate, Continue, WebRecord
    <2>3. QED
        BY <2>2
<1>6. CASE WebAsk \/ Crash
    <2>1. web'.pc # "put"
        <3>1. CASE WebAsk
            BY <3>1 DEF WebAsk, NoRequest
        <3>2. CASE Crash
            BY <3>2 DEF Crash, NoRequest
        <3>3. QED
            BY <1>6, <3>1, <3>2
    <2>2. QED
        BY <2>1
<1>7. CASE CloseBar \/ Grant \/ UNCHANGED vars
    BY <1>2, <1>7 DEF CloseBar, Grant, vars, store
<1>8. ASSUME NEW j \in OtherJobs, JobAsk(j) \/ JobDone(j) PROVE UNCHANGED <<web, plans>>
    BY <1>8 DEF JobAsk, JobDone, store
<1>9. QED
    BY <1>2, <1>3, <1>4, <1>5, <1>6, <1>7, <1>8 DEF Next

LEMMA LockStep ==
    ASSUME TypeInv, LockInv, [Next]_vars
    PROVE  LockInv'
BY LockOrderStep, PutStep DEF LockInv

-----------------------------------------------------------------------------
(* No plan the operator has taken away is live, in the store or in the copy *)
(* a tick works from: the requests that take one away run alone.            *)
InTick == engine.pc \notin {"idle", "list"}

DetachInv ==
    /\ \A x \in Accounts : plans[x] = "live" => x \notin detached
    /\ InTick => \A x \in Accounts : engine.plan[x] = "live" => x \notin detached

\* While a request holds the lock exclusively no tick is past its listing.
LEMMA ExclusiveAlone ==
    ASSUME LockInv, held["web"] # "no", Wants("web") = "exclusive"
    PROVE  ~InTick
BY ProcsHere DEF LockInv, LockOrder, InTick

\* The record of a tick that has not listed the plans yet.
LEMMA IdleTick ==
    ASSUME NEW e, e = Idle \/ \E n : e = [Idle EXCEPT !.pc = "list", !.now = n]
    PROVE  /\ e.pc \in {"idle", "list"} /\ e.todo = {} /\ e.gen = 0 /\ e.sends = {}
           /\ e = Idle => e.pc = "idle"
           /\ \A n : e = [Idle EXCEPT !.pc = "list", !.now = n] => e.now = n
<1>1. Idle.pc = "idle" /\ Idle.todo = {} /\ Idle.gen = 0 /\ Idle.sends = {}
    BY DEF Idle
<1>2. ASSUME NEW n, e = [Idle EXCEPT !.pc = "list", !.now = n]
      PROVE  e.pc = "list" /\ e.todo = {} /\ e.gen = 0 /\ e.sends = {} /\ e.now = n
    <2> DEFINE none == [a \in Accounts |-> "none"]
    <2>1. Idle = [pc |-> "idle", now |-> 0, plan |-> none, todo |-> {}, acct |-> "none",
                  upTo |-> 0, sends |-> {}, over |-> FALSE, seed |-> FALSE, gen |-> 0]
        BY DEF Idle
    <2> HIDE DEF none
    <2>2. QED
        BY <1>2, <2>1
<1>3. QED
    BY <1>1, <1>2

LEMMA DetachEngine ==
    ASSUME TypeInv, DetachInv, EngineTick
    PROVE  DetachInv'
<1>1. engine \in EngineRecord /\ plans \in [Accounts -> Modes \cup {"none"}]
    BY TypeParts DEF StoreType
<1> USE <1>1 DEF EngineRecord, DetachInv, InTick
<1>2. CASE EngineList
    BY <1>2 DEF EngineList, store, ghosts
<1>3. CASE EngineAsk \/ EngineDone
    <2>1. engine' = Idle \/ \E n : engine' = [Idle EXCEPT !.pc = "list", !.now = n]
        BY <1>3 DEF EngineAsk, EngineDone
    <2>2. engine'.pc \in {"idle", "list"}
        BY <2>1, IdleTick
    <2>3. UNCHANGED <<plans, detached>>
        BY <1>3 DEF EngineAsk, EngineDone, store, ghosts
    <2>4. QED
        BY <2>2, <2>3
<1>4. CASE EngineNext \/ EngineJournal \/ EngineSend \/ EnginePutDelete
    BY <1>4 DEF EngineNext, EngineJournal, EngineSend, Dispatching, EnginePutDelete, Skip, store, ghosts
<1>5. ASSUME NEW x \in Accounts, EngineRead(x) PROVE DetachInv'
    BY <1>5 DEF EngineRead, EngineSeed, EngineEvaluate, EnginePass, EngineControls, Picked, store, ghosts
<1>6. CASE EnginePutInsert \/ EngineArchive \/ EngineClearState
    BY <1>6 DEF EnginePutInsert, EngineArchive, EngineClearState, Skip, ghosts
<1>7. CASE EngineClearPlan
    BY <1>7 DEF EngineClearPlan, ghosts
<1>8. QED
    BY <1>2, <1>3, <1>4, <1>5, <1>6, <1>7 DEF EngineTick

LEMMA DetachWeb ==
    ASSUME TypeInv, LockInv, DetachInv, WebServe
    PROVE  DetachInv'
<1>1. StoreType /\ web \in WebRecord /\ held["web"] # "no" /\ UNCHANGED engine
    BY TypeParts, WebOnLock DEF TypeInv, WebShape
<1>2. InTick' = InTick
    BY <1>1 DEF InTick
<1> USE <1>1, <1>2 DEF DetachInv, StoreType
<1>3. ASSUME detached' \subseteq detached, \A x \in Accounts : plans'[x] = "live" => plans[x] = "live"
      PROVE  DetachInv'
    BY <1>3
<1>4. CASE WebPutPlan
    <2>1. CASE UNCHANGED <<plans, detached>>
        BY <2>1
    <2>2. CASE ~UNCHANGED <<plans, detached>>
        BY <1>4, <2>2 DEF WebPutPlan
    <2>3. QED
        BY <2>1, <2>2
<1>5. CASE WebRegister \/ WebDelete \/ WebAlert \/ WebMutate
    BY <1>3, <1>5 DEF WebRegister, WebDelete, WebAlert, WebMutate, NoChange, store
<1>6. CASE WebDeletePlan \/ WebDeleteState \/ WebDeleteArchive
    BY <1>3, <1>6 DEF WebDeletePlan, WebDeleteState, WebDeleteArchive, Failed, NoChange, store
<1>7. CASE WebMove
    <2>1. CASE NoChange
        BY <1>3, <2>1 DEF NoChange, store
    <2>2. CASE ~NoChange
        <3>1. ~InTick
            BY <1>7, ExclusiveAlone DEF WebMove, Serving, Wants
        <3> DEFINE b == web.acct
                   a == CHOOSE x \in Homes : TRUE
                   mode == IF web.op = "paper" THEN "paper" ELSE plans[a]
        <3>2. /\ b \notin Homes /\ Cardinality(Homes) = 1
              /\ plans' = [plans EXCEPT ![a] = "none", ![b] = mode]
              /\ detached' = IF mode = "live" THEN (detached \cup {a}) \ {b}
                             ELSE detached \cup {a, b}
            BY <1>7, <2>2 DEF WebMove
        <3>3. a \in Accounts /\ Homes = {a}
            BY <3>2, SoleHome DEF Homes
        <3> HIDE DEF a, b
        <3>4. \A x \in Accounts : plans'[x] = "live" => x = b /\ mode = "live"
            BY <3>2, <3>3 DEF Homes
        <3>5. QED
            BY <3>1, <3>2, <3>4
    <2>3. QED
        BY <2>1, <2>2
<1>8. CASE WebClosed
    <2>1. CASE NoChange
        BY <1>3, <2>1 DEF NoChange, store
    <2>2. CASE ~NoChange
        <3>1. ~InTick
            BY <1>8, ExclusiveAlone DEF WebClosed, Serving, Wants
        <3> DEFINE source == IF Homes = {} THEN Archived ELSE Homes
                   a == CHOOSE x \in source : TRUE
        <3>2. Cardinality(source) = 1 /\ plans' = [plans EXCEPT ![a] = "none"]
            BY <1>8, <2>2 DEF WebClosed
        <3>3. source = {a}
            <4>1. source \in SUBSET Accounts
                BY DEF Homes, Archived
            <4> HIDE DEF source
            <4>2. QED
                BY <3>2, <4>1, SoleHome
        <3>4. \A x \in Accounts : plans'[x] = "none"
            BY <3>2, <3>3 DEF Homes
        <3>5. QED
            BY <3>1, <3>4
    <2>3. QED
        BY <2>1, <2>2
<1>9. QED
    BY <1>4, <1>5, <1>6, <1>7, <1>8 DEF WebServe

LEMMA DetachStep ==
    ASSUME TypeInv, LockInv, DetachInv, [Next]_vars
    PROVE  DetachInv'
<1>1. CASE CloseBar \/ Grant \/ WebAsk
    BY <1>1 DEF CloseBar, Grant, WebAsk, store, ghosts, DetachInv, InTick
<1>2. ASSUME NEW j \in OtherJobs, JobAsk(j) \/ JobDone(j) PROVE DetachInv'
    BY <1>2 DEF JobAsk, JobDone, store, ghosts, DetachInv, InTick
<1>3. CASE Crash
    BY <1>3 DEF Crash, Idle, store, ghosts, DetachInv, InTick
<1>4. CASE UNCHANGED vars
    BY <1>4 DEF vars, DetachInv, InTick
<1>5. QED
    BY <1>1, <1>2, <1>3, <1>4, DetachEngine, DetachWeb DEF Next

LEMMA LockAlways == Spec => [](TypeInv /\ LockInv)
<1>1. Init => LockInv
    BY ProcsHere DEF Init, Idle, NoRequest, LockInv, LockOrder, PutInv
<1>2. QED
    BY <1>1, TypeInit, TypeStep, LockStep, PTL DEF Spec

\* The doc comment of the operation lock, for every number of accounts, jobs,
\* bars and requests and under every fault: a tick never dispatches from a
\* snapshot it loaded before the operator was told the plan is elsewhere.
THEOREM NoStaleDispatch == Spec => []NoDispatchAfterTransition
<1>1. Init => DetachInv
    BY DEF Init, Idle, DetachInv, InTick
<1>2. TypeInv /\ DetachInv => NoDispatchAfterTransition
    BY DEF TypeInv, EngineShape, Holding, DetachInv, InTick, NoDispatchAfterTransition, Dispatching
<1>3. QED
    BY <1>1, <1>2, LockAlways, DetachStep, PTL DEF Spec

-----------------------------------------------------------------------------
(* A paper plan's entries are in the journal once its tick has passed the   *)
(* step that writes them.                                                   *)
LEMMA JournalStep ==
    ASSUME TypeInv, PaperEntryJournalled, [Next]_vars
    PROVE  PaperEntryJournalled'
<1>1. engine \in EngineRecord
    BY TypeParts
<1> USE <1>1 DEF EngineRecord, PaperEntryJournalled
<1>2. CASE EngineJournal
    <2>1. /\ engine'.plan = engine.plan /\ engine'.acct = engine.acct /\ engine'.gen = engine.gen
          /\ \/ engine'.pc = "pick"
             \/ /\ engine'.sends = engine.sends
                /\ journal' = journal \cup {<<engine.gen, n>> : n \in engine.sends}
        BY <1>2 DEF EngineJournal, Skip
    <2>2. QED
        BY <2>1
<1>3. ASSUME NEW x \in Accounts, EngineEvaluate(x) PROVE PaperEntryJournalled'
    BY <1>3 DEF EngineEvaluate, Picked
<1>4. ASSUME NEW x \in Accounts, EngineSeed(x) \/ EnginePass(x) \/ EngineControls(x)
      PROVE  PaperEntryJournalled'
    BY <1>4 DEF EngineSeed, EnginePass, EngineControls, Picked
<1>5. CASE EnginePutDelete \/ EnginePutInsert \/ EngineArchive
    BY <1>5 DEF EnginePutDelete, EnginePutInsert, EngineArchive, Skip, ghosts
<1>6. CASE EngineClearState \/ EngineClearPlan
    BY <1>6 DEF EngineClearState, EngineClearPlan, ghosts
<1>7. CASE EngineSend \/ EngineNext
    BY <1>7 DEF EngineSend, Dispatching, EngineNext, Skip, store, ghosts
<1>8. CASE EngineAsk \/ EngineList \/ EngineDone \/ Crash
    <2>1. CASE EngineList
        BY <2>1 DEF EngineList
    <2>2. CASE ~EngineList
        <3>1. engine' = Idle \/ \E n : engine' = [Idle EXCEPT !.pc = "list", !.now = n]
            BY <1>8, <2>2 DEF EngineAsk, EngineDone, Crash
        <3>2. engine'.pc \in {"idle", "list"}
            BY <3>1, IdleTick
        <3>3. QED
            BY <3>2
    <2>3. QED
        BY <2>1, <2>2
<1>9. CASE WebServe
    BY <1>9 DEF WebServe, WebRegister, WebPutPlan, WebDelete, WebDeletePlan, WebDeleteState,
        WebDeleteArchive, WebMove, WebClosed, WebAlert, WebMutate, WebStep
<1>10. CASE CloseBar \/ Grant \/ WebAsk \/ UNCHANGED vars
    BY <1>10 DEF CloseBar, Grant, WebAsk, vars, ghosts
<1>11. ASSUME NEW j \in OtherJobs, JobAsk(j) \/ JobDone(j) PROVE PaperEntryJournalled'
    BY <1>11 DEF JobAsk, JobDone, ghosts
<1>12. QED
    BY <1>2, <1>3, <1>4, <1>5, <1>6, <1>7, <1>8, <1>9, <1>10, <1>11 DEF Next, EngineTick, EngineRead

\* A paper plan's watermark never passes an entry the journal does not have,
\* although the journal, the two state writes or the process may fail.
THEOREM PaperEntriesKept == Spec => []PaperEntryJournalled
<1>1. Init => PaperEntryJournalled
    BY DEF Init, Idle, PaperEntryJournalled
<1>2. QED
    BY <1>1, LockAlways, JournalStep, PTL DEF Spec

-----------------------------------------------------------------------------
(* One dispatch per bar.  Every bar a registration has dispatched lies      *)
(* behind whatever a later tick could start from, and the lock's order keeps*)
(* the watermark a move writes ahead of the ticks that came before it.      *)
Passed(w, n) == w \in {NoRow, 0} \/ n <= w

OneHome == \A x, y \in Accounts : plans[x] # "none" /\ plans[y] # "none" => x = y

Moving == web.pc = "start" /\ Wants("web") = "exclusive"

TurnInv == Moving =>
    /\ held["web"] # "no" \/ \E j \in DOMAIN queue : queue[j] = "web"
    /\ held["engine"] # "no" => engine.now <= web.now
    /\ \A i, j \in DOMAIN queue :
          queue[i] = "engine" /\ queue[j] = "web" /\ i < j => engine.now <= web.now

\* The plan in the tick's hands is the registration's, until its row is removed.
InHand == {"journal", "put", "insert", "archive", "clearState", "clearPlan"}

TickInv ==
    /\ OneHome
    /\ engine.gen <= reg.gen
    /\ \A x \in engine.todo : engine.pc = "pick" /\ engine.gen = reg.gen /\ plans[x] # "none"
    /\ engine.pc \in InHand => engine.gen = reg.gen /\ plans[engine.acct] # "none"
    /\ engine.pc = "clearPlan" => states[engine.acct] = NoRow

\* A bar that was dispatched, and one the tick has in hand to dispatch.
SentBar(g, n) ==
    /\ n <= closed
    /\ engine.pc # "idle" => n <= engine.now
    /\ Moving => n <= web.now
    /\ g = reg.gen => \A x \in Accounts : plans[x] # "none" => Passed(states[x], n)
    /\ engine.pc \in {"journal", "put", "insert"} /\ g = engine.gen => Passed(engine.upTo, n)

HeldBar(n) ==
    /\ engine.pc \in Holding /\ n <= engine.now
    /\ \A g \in Gens : g = engine.gen => sent[<<g, n>>] = 0
    /\ engine.pc \in {"journal", "put", "insert"} => n <= engine.upTo
    /\ engine.pc = "send" /\ engine.gen = reg.gen =>
          \A x \in Accounts : plans[x] # "none" => Passed(states[x], n)

BarsInv ==
    /\ \A g \in Gens, n \in Bars : sent[<<g, n>>] <= 1 /\ (g > reg.gen => sent[<<g, n>>] = 0)
    /\ \A g \in Gens, n \in Bars : sent[<<g, n>>] > 0 => SentBar(g, n)
    /\ \A n \in engine.sends : HeldBar(n)

LEMMA TurnStep ==
    ASSUME TypeInv, LockInv, TurnInv, [Next]_vars
    PROVE  TurnInv'
<1>1. /\ queue \in Seq(Procs) /\ held \in [Procs -> {"no", "shared", "exclusive"}]
      /\ "engine" \in Procs /\ "web" \in Procs /\ OtherJobs \subseteq Procs
      /\ "engine" \notin OtherJobs /\ "web" \notin OtherJobs
      /\ engine.now <= closed
    BY ProcsHere, SpineAssumption DEF TypeInv, TypeOK, EngineShape
<1> USE <1>1 DEF TurnInv, Moving, Wants
<1>2. CASE EngineAsk
    <2>1. /\ engine.pc = "idle" /\ queue' = Append(queue, "engine") /\ UNCHANGED <<held, web>>
        BY <1>2 DEF EngineAsk, Ask
    <2>2. held["engine"] = "no" /\ \A i \in DOMAIN queue : queue[i] # "engine"
        BY <2>1 DEF LockInv, LockOrder
    <2>3. \A i, j \in DOMAIN queue' : queue'[i] = "engine" /\ queue'[j] = "web" => ~(i < j)
        BY <2>1, <2>2
    <2>4. (\E j \in DOMAIN queue : queue[j] = "web") => \E j \in DOMAIN queue' : queue'[j] = "web"
        BY <2>1
    <2>5. QED
        BY <2>1, <2>2, <2>3, <2>4
<1>3. CASE EngineDone
    <2>1. engine.pc = "pick" /\ held' = [held EXCEPT !["engine"] = "no"] /\ UNCHANGED <<queue, web>>
        BY <1>3 DEF EngineDone, Release
    <2>2. \A i \in DOMAIN queue : queue[i] # "engine"
        BY <2>1 DEF LockInv, LockOrder
    <2>3. QED
        BY <2>1, <2>2
<1>4. CASE EngineTick /\ ~EngineAsk /\ ~EngineDone
    BY <1>4, EngineOnLock
<1>5. CASE WebAsk
    <2>1. web'.now = closed /\ queue' = Append(queue, "web") /\ UNCHANGED <<held, engine>>
        BY <1>5 DEF WebAsk, Ask, NoRequest
    <2>2. Len(queue) + 1 \in DOMAIN queue' /\ queue'[Len(queue) + 1] = "web"
        BY <2>1
    <2>3. QED
        BY <2>1, <2>2
<1>6. CASE WebServe
    BY <1>6, WebOnLock DEF Reply, NoRequest
<1>7. CASE Grant
    <2>1. /\ queue # <<>> /\ queue' = Tail(queue) /\ UNCHANGED <<engine, web>>
          /\ held' = [held EXCEPT ![Head(queue)] = Wants(Head(queue))]
          /\ Compatible(Head(queue))
        BY <1>7 DEF Grant
    <2>2. Head(queue) = queue[1] /\ Head(queue) \in Procs /\ 1 \in DOMAIN queue
        BY <2>1
    <2>3. \A i \in DOMAIN queue' : i + 1 \in DOMAIN queue /\ i \in Nat /\ queue'[i] = queue[i + 1]
        BY <2>1
    <2>4. \A j \in DOMAIN queue : j # 1 => j - 1 \in DOMAIN queue' /\ j - 1 + 1 = j
        BY <2>1
    <2> SUFFICES ASSUME Moving PROVE TurnInv'
        BY <2>1
    <2>5. held'["web"] # "no" \/ \E j \in DOMAIN queue' : queue'[j] = "web"
        BY <2>1, <2>2, <2>3, <2>4
    <2>6. \A i, j \in DOMAIN queue' :
             queue'[i] = "engine" /\ queue'[j] = "web" /\ i < j => engine.now <= web.now
        BY <2>3
    <2>7. held'["engine"] # "no" => engine.now <= web.now
        <3>1. CASE Head(queue) # "engine"
            BY <2>1, <2>2, <3>1
        <3>2. CASE Head(queue) = "engine"
            <4>1. held["web"] = "no"
                BY <2>1 DEF Compatible, LockInv, LockOrder
            <4>2. PICK j \in DOMAIN queue : queue[j] = "web"
                BY <4>1
            <4>3. j # 1 /\ 1 < j
                BY <2>2, <3>2, <4>2
            <4>4. QED
                BY <2>2, <3>2, <4>2, <4>3
        <3>3. QED
            BY <3>1, <3>2
    <2>8. QED
        BY <2>1, <2>5, <2>6, <2>7
<1>8. ASSUME NEW p \in OtherJobs, JobAsk(p) PROVE TurnInv'
    <2>1. queue' = Append(queue, p) /\ UNCHANGED <<held, engine, web>>
        BY <1>8 DEF JobAsk, Ask
    <2>2. (\E j \in DOMAIN queue : queue[j] = "web") => \E j \in DOMAIN queue' : queue'[j] = "web"
        BY <2>1
    <2>3. \A i, j \in DOMAIN queue' : queue'[i] = "engine" /\ queue'[j] = "web" =>
             i \in DOMAIN queue /\ j \in DOMAIN queue /\ queue[i] = "engine" /\ queue[j] = "web"
        BY <2>1
    <2>4. QED
        BY <2>1, <2>2, <2>3
<1>9. ASSUME NEW p \in OtherJobs, JobDone(p) PROVE TurnInv'
    BY <1>9 DEF JobDone, Release
<1>10. CASE Crash
    BY <1>10 DEF Crash, NoRequest
<1>11. CASE CloseBar \/ UNCHANGED vars
    BY <1>11 DEF CloseBar, vars, lock
<1>12. QED
    BY <1>2, <1>3, <1>4, <1>5, <1>6, <1>7, <1>8, <1>9, <1>10, <1>11 DEF Next

\* The theorem is about what the persist-then-dispatch order gives alone: the
\* state row of a finished plan goes when it is told to, and no delete request
\* runs beside the tick.
Orderly == "delete" \notin Requests /\ "clearState" \notin Faults

\* Beside a tick that holds a plan, only a registration may write rows, and it
\* finds the plan where the tick found it.
LEMMA WebBesideTick ==
    ASSUME TypeInv, LockInv, WebServe, Orderly
    PROVE  /\ InTick => UNCHANGED <<states>>
           /\ InTick => \/ UNCHANGED reg /\ \A x \in Accounts : plans'[x] # "none" <=> plans[x] # "none"
                        \/ reg'.gen = reg.gen + 1 /\ \A x \in Accounts : plans[x] = "none"
<1>1. web \in WebRecord /\ held["web"] # "no" /\ "gen" \in DOMAIN reg /\ reg.gen \in Nat
      /\ plans \in [Accounts -> Modes \cup {"none"}] /\ web.op # "delete"
    BY TypeParts, WebOnLock DEF TypeInv, TypeOK, WebShape, WebRecord, RegShape, Orderly, SpineAssumption
<1>2. CASE WebPutPlan
    <2>1. UNCHANGED states
        BY <1>2 DEF WebPutPlan
    <2>2. CASE UNCHANGED <<plans, reg>>
        BY <2>1, <2>2
    <2>3. CASE ~UNCHANGED <<plans, reg>>
        <3> DEFINE a == web.acct
        <3>1. PICK mode \in Modes : /\ plans' = [plans EXCEPT ![a] = mode]
                                    /\ reg' = IF plans[a] # "none" THEN reg
                                              ELSE [NoPlan EXCEPT !.gen = reg.gen + 1]
            BY <1>2, <2>3 DEF WebPutPlan, RegisterMode, Modes
        <3>2. \A x \in Accounts : x # a => plans[x] = "none"
            BY <1>2 DEF WebPutPlan, LockInv, PutInv
        <3>3. CASE plans[a] # "none"
            BY <1>1, <2>1, <3>1, <3>2, <3>3 DEF Modes
        <3>4. CASE plans[a] = "none"
            BY <1>1, <2>1, <3>1, <3>2, <3>4 DEF NoPlan
        <3>5. QED
            BY <3>3, <3>4
    <2>4. QED
        BY <2>2, <2>3
<1>3. CASE WebMove \/ WebClosed
    BY <1>1, <1>3, ExclusiveAlone DEF WebMove, WebClosed, Serving, Wants
<1>4. CASE WebRegister \/ WebAlert \/ WebMutate
    BY <1>4 DEF WebRegister, WebAlert, WebMutate, NoChange, store
<1>5. ~WebDelete /\ ~WebDeletePlan /\ ~WebDeleteState /\ ~WebDeleteArchive
    BY <1>1 DEF WebDelete, WebDeletePlan, WebDeleteState, WebDeleteArchive, Serving, TypeInv, WebShape
<1>6. QED
    BY <1>2, <1>3, <1>4, <1>5 DEF WebServe

\* A move or a close leaves at most the one plan it moved.
LEMMA WebMoves ==
    ASSUME TypeInv, LockInv, WebMove \/ WebClosed, ~NoChange
    PROVE  /\ ~InTick /\ UNCHANGED engine /\ reg'.gen = reg.gen
           /\ WebMove => /\ \A x \in Accounts : plans'[x] # "none" => x = web.acct
                         /\ states'[web.acct] \in {NoRow, web.now + 1}
                         /\ Moving
           /\ WebClosed => \A x \in Accounts : plans'[x] = "none"
<1>1. StoreType /\ RegShape /\ web \in WebRecord
    BY TypeParts DEF TypeInv, WebShape
<1>2. CASE WebMove
    <2> DEFINE b == web.acct
               a == CHOOSE x \in Homes : TRUE
               mode == IF web.op = "paper" THEN "paper" ELSE plans[a]
    <2>1. /\ b \notin Homes /\ Cardinality(Homes) = 1 /\ b \in Accounts
          /\ plans' = [plans EXCEPT ![a] = "none", ![b] = mode]
          /\ states' = [states EXCEPT ![a] = NoRow, ![b] = SwitchState(states[a])]
          /\ reg'.gen = reg.gen /\ UNCHANGED engine
        BY <1>1, <1>2 DEF WebMove, WebStep, RegShape, Serving, TypeInv, WebShape
    <2>2. a \in Accounts /\ Homes = {a}
        BY <2>1, SoleHome DEF Homes
    <2>3. Moving /\ ~InTick
        BY <1>2, ExclusiveAlone DEF WebMove, Serving, Moving, Wants, Runs
    <2> HIDE DEF a, b, mode
    <2>4. \A x \in Accounts : x # a => plans[x] = "none"
        BY <2>2 DEF Homes
    <2>5. \A x \in Accounts : plans'[x] # "none" => x = b
        BY <1>1, <2>1, <2>2, <2>4 DEF StoreType
    <2>6. states'[b] \in {NoRow, web.now + 1}
        BY <1>1, <2>1 DEF StoreType, SwitchState
    <2>7. ~WebClosed
        BY <1>2 DEF WebMove, WebClosed, Serving
    <2>8. QED
        BY <2>1, <2>3, <2>5, <2>6, <2>7 DEF b
<1>3. CASE WebClosed
    <2> DEFINE source == IF Homes = {} THEN Archived ELSE Homes
               a == CHOOSE x \in source : TRUE
    <2>1. Cardinality(source) = 1 /\ plans' = [plans EXCEPT ![a] = "none"]
          /\ UNCHANGED <<reg, engine>> /\ ~WebMove
        BY <1>3 DEF WebClosed, WebMove, Serving, WebStep
    <2>2. source = {a}
        <3>1. source \in SUBSET Accounts
            BY DEF Homes, Archived
        <3> HIDE DEF source
        <3>2. QED
            BY <2>1, <3>1, SoleHome
    <2>3. \A x \in Accounts : plans'[x] = "none"
        BY <1>1, <2>1, <2>2 DEF Homes, StoreType
    <2>4. ~InTick
        BY <1>3, ExclusiveAlone DEF WebClosed, Serving, Wants, Runs
    <2>5. QED
        BY <2>1, <2>3, <2>4
<1>4. QED
    BY <1>2, <1>3

LEMMA TickWeb ==
    ASSUME TypeInv, LockInv, TickInv, WebServe, Orderly
    PROVE  TickInv'
<1>1. /\ UNCHANGED engine /\ web.op # "delete" /\ engine \in EngineRecord
      /\ reg.gen \in Nat /\ plans \in [Accounts -> Modes \cup {"none"}]
    BY TypeParts, WebOnLock DEF TypeInv, TypeOK, WebShape, WebRecord, RegShape, Orderly, SpineAssumption
<1>2. ASSUME InTick PROVE TickInv'
    <2>1. UNCHANGED states
        BY <1>2, WebBesideTick
    <2>2. engine.pc \in InHand => engine.acct \in Accounts
        BY DEF InHand, TypeInv, EngineShape, Holding
    <2>3. CASE UNCHANGED reg /\ \A x \in Accounts : plans'[x] # "none" <=> plans[x] # "none"
        BY <1>1, <2>1, <2>2, <2>3 DEF TickInv, OneHome, EngineRecord
    <2>4. CASE reg'.gen = reg.gen + 1 /\ \A x \in Accounts : plans[x] = "none"
        <3>1. engine.todo = {} /\ engine.pc \notin InHand
            BY <1>1, <2>2, <2>4 DEF TickInv, EngineRecord
        <3>2. OneHome'
            <4>1. WebPutPlan \/ WebRegister \/ WebAlert \/ WebMutate
                BY <1>1, <1>2, ExclusiveAlone, WebOnLock
                   DEF WebServe, WebMove, WebClosed, WebDelete, WebDeletePlan, WebDeleteState,
                       WebDeleteArchive, Serving, Wants, TypeInv, WebShape
            <4>2. plans' = plans \/ \E mode \in Modes : plans' = [plans EXCEPT ![web.acct] = mode]
                BY <4>1 DEF WebPutPlan, RegisterMode, WebRegister, WebAlert, WebMutate, NoChange,
                        store, Modes
            <4>3. QED
                BY <1>1, <2>4, <4>2 DEF OneHome
        <3>3. engine.gen \in Nat /\ engine.gen <= reg'.gen
            BY <1>1, <2>4 DEF TickInv, EngineRecord
        <3>4. QED
            BY <1>1, <3>1, <3>2, <3>3 DEF TickInv, InHand
    <2>5. QED
        BY <1>2, <2>3, <2>4, WebBesideTick
<1>3. ASSUME ~InTick PROVE TickInv'
    <2>1. engine.todo = {} /\ engine.pc \notin InHand
        BY <1>3 DEF InTick, TickInv, InHand
    <2>2. ASSUME OneHome', reg'.gen \in {reg.gen, reg.gen + 1} PROVE TickInv'
        BY <1>1, <2>1, <2>2 DEF TickInv, InHand, EngineRecord
    <2>3. CASE WebMove \/ WebClosed
        <3>1. CASE NoChange
            BY <2>2, <3>1 DEF NoChange, store, TickInv, OneHome
        <3>2. CASE ~NoChange
            BY <2>2, <2>3, <3>2, WebMoves DEF OneHome
        <3>3. QED
            BY <3>1, <3>2
    <2>4. CASE WebPutPlan
        <3> DEFINE a == web.acct
        <3>1. CASE UNCHANGED <<plans, reg>>
            BY <2>2, <3>1 DEF TickInv, OneHome
        <3>2. CASE ~UNCHANGED <<plans, reg>>
            <4>1. PICK mode \in Modes : /\ plans' = [plans EXCEPT ![a] = mode]
                                        /\ reg' = reg \/ reg' = [NoPlan EXCEPT !.gen = reg.gen + 1]
                BY <2>4, <3>2 DEF WebPutPlan, RegisterMode, Modes
            <4>2. \A x \in Accounts : x # a => plans[x] = "none"
                BY <2>4 DEF WebPutPlan, LockInv, PutInv
            <4>3. OneHome'
                BY <1>1, <4>1, <4>2 DEF OneHome
            <4>4. reg'.gen \in {reg.gen, reg.gen + 1}
                BY <4>1 DEF NoPlan
            <4>5. QED
                BY <2>2, <4>3, <4>4
        <3>3. QED
            BY <3>1, <3>2
    <2>5. CASE WebRegister \/ WebAlert \/ WebMutate
        BY <2>2, <2>5 DEF WebRegister, WebAlert, WebMutate, NoChange, store, TickInv, OneHome
    <2>6. QED
        BY <1>1, <2>3, <2>4, <2>5
           DEF WebServe, WebDelete, WebDeletePlan, WebDeleteState, WebDeleteArchive, Serving,
               TypeInv, WebShape
<1>4. QED
    BY <1>2, <1>3

LEMMA TickEngine ==
    ASSUME TypeInv, TickInv, EngineTick, Orderly
    PROVE  TickInv'
<1>1. /\ engine \in EngineRecord /\ reg.gen \in Nat /\ "gen" \in DOMAIN reg
      /\ plans \in [Accounts -> Modes \cup {"none"}]
      /\ states \in [Accounts -> {NoRow} \cup 0..(MaxBars + 1)]
      /\ engine.pc \in Holding => engine.acct \in Accounts
    BY TypeParts DEF TypeInv, RegShape, StoreType, EngineShape
<1> USE <1>1 DEF EngineRecord, TickInv, OneHome, InHand, Holding
<1>2. CASE EngineAsk \/ EngineDone
    <2>1. engine' = Idle \/ \E n : engine' = [Idle EXCEPT !.pc = "list", !.now = n]
        BY <1>2 DEF EngineAsk, EngineDone
    <2>2. engine'.todo = {} /\ engine'.gen = 0 /\ engine'.pc \in {"idle", "list"}
        BY <2>1, IdleTick
    <2>3. UNCHANGED <<plans, states, reg>>
        BY <1>2 DEF EngineAsk, EngineDone, store, ghosts
    <2>4. QED
        BY <2>2, <2>3
<1>3. CASE EngineList
    BY <1>3 DEF EngineList, store, ghosts
<1>4. ASSUME NEW x \in Accounts, EngineRead(x) PROVE TickInv'
    <2>1. /\ x \in engine.todo /\ engine'.todo = engine.todo \ {x} /\ engine'.gen = engine.gen
          /\ engine'.acct = x /\ engine'.pc \in {"pick", "journal", "put", "archive"}
        <3>1. CASE EngineSeed(x)
            BY <3>1 DEF EngineSeed, Picked
        <3>2. CASE EngineEvaluate(x)
            BY <3>2 DEF EngineEvaluate, Picked
        <3>3. CASE EnginePass(x) \/ EngineControls(x)
            BY <3>3 DEF EnginePass, EngineControls, Picked
        <3>4. QED
            BY <1>4, <3>1, <3>2, <3>3 DEF EngineRead
    <2>2. UNCHANGED <<plans, states, reg>>
        BY <1>4 DEF EngineRead, EngineSeed, EngineEvaluate, EnginePass, EngineControls, store, ghosts
    <2>3. engine.todo = {x}
        BY <2>1
    <2>4. QED
        BY <2>1, <2>2, <2>3
<1>5. ASSUME UNCHANGED <<plans, states>>, reg'.gen = reg.gen, engine.pc \in InHand,
             engine'.todo = engine.todo, engine'.gen = engine.gen, engine'.acct = engine.acct,
             engine'.pc # "clearPlan"
      PROVE  TickInv'
    BY <1>5
<1>6. CASE EngineJournal
    BY <1>5, <1>6 DEF EngineJournal, Skip, store
<1>7. CASE EnginePutDelete
    <2>1. /\ engine.pc = "put" /\ engine'.todo = engine.todo /\ engine'.gen = engine.gen
          /\ engine'.acct = engine.acct /\ engine'.pc \in {"insert", "pick"} /\ UNCHANGED <<plans, reg>>
        BY <1>7 DEF EnginePutDelete, Skip, ghosts
    <2>2. QED
        BY <2>1
<1>8. CASE EnginePutInsert
    <2>1. /\ engine.pc = "insert" /\ engine'.todo = engine.todo /\ engine'.gen = engine.gen
          /\ engine'.acct = engine.acct /\ engine'.pc \in {"send", "pick"} /\ UNCHANGED plans
        BY <1>8 DEF EnginePutInsert, Skip
    <2>2. reg'.gen = reg.gen
        BY <1>8 DEF EnginePutInsert, Advanced
    <2>3. QED
        BY <2>1, <2>2
<1>9. CASE EngineArchive
    <2>1. reg'.gen = reg.gen
        BY <1>9 DEF EngineArchive
    <2>2. QED
        BY <1>5, <1>9, <2>1 DEF EngineArchive
<1>10. CASE EngineClearState
    BY <1>10 DEF EngineClearState, Orderly, ghosts
<1>11. CASE EngineClearPlan
    <2>1. /\ engine.pc = "clearPlan" /\ engine'.todo = engine.todo /\ engine'.gen = engine.gen
          /\ engine'.pc = "send" /\ UNCHANGED reg
          /\ plans' = plans \/ plans' = [plans EXCEPT ![engine.acct] = "none"]
        BY <1>11 DEF EngineClearPlan, ghosts
    <2>2. QED
        BY <2>1
<1>12. CASE EngineSend \/ EngineNext
    <2>1. engine'.pc \in {"pick", "send"} /\ engine.pc = "send" /\ engine'.todo = engine.todo
          /\ engine'.gen = engine.gen
        BY <1>12 DEF EngineSend, Dispatching, EngineNext, Skip
    <2>2. UNCHANGED <<plans, states, reg>>
        BY <1>12 DEF EngineSend, EngineNext, store, ghosts
    <2>3. QED
        BY <2>1, <2>2
<1>13. QED
    BY <1>2, <1>3, <1>4, <1>6, <1>7, <1>8, <1>9, <1>10, <1>11, <1>12 DEF EngineTick

LEMMA TickStep ==
    ASSUME TypeInv, LockInv, TickInv, Orderly, [Next]_vars
    PROVE  TickInv'
<1>1. CASE CloseBar \/ Grant \/ WebAsk \/ UNCHANGED vars
    BY <1>1 DEF CloseBar, Grant, WebAsk, vars, store, ghosts, TickInv, OneHome
<1>2. ASSUME NEW p \in OtherJobs, JobAsk(p) \/ JobDone(p) PROVE TickInv'
    BY <1>2 DEF JobAsk, JobDone, store, ghosts, TickInv, OneHome
<1>3. CASE Crash
    BY <1>3 DEF Crash, Idle, store, ghosts, TickInv, OneHome, InHand, TypeInv, RegShape
<1>4. QED
    BY <1>1, <1>2, <1>3, TickWeb, TickEngine DEF Next

\* Steps that dispatch nothing: enough that dispatched and held bars stay so.
LEMMA BarsKept ==
    ASSUME BarsInv, UNCHANGED sent, reg.gen \in Nat, reg'.gen \in Nat, reg.gen <= reg'.gen,
           \A g \in Gens, n \in Bars : sent[<<g, n>>] > 0 /\ SentBar(g, n) => SentBar(g, n)',
           \A n \in engine'.sends : HeldBar(n)'
    PROVE  BarsInv'
BY DEF BarsInv, Gens

LEMMA BarsWeb ==
    ASSUME TypeInv, LockInv, TickInv, BarsInv, WebServe, Orderly
    PROVE  BarsInv'
<1>1. /\ UNCHANGED <<engine, sent, market>> /\ engine \in EngineRecord /\ web \in WebRecord
      /\ reg.gen \in Nat /\ MaxBars \in Nat
      /\ states \in [Accounts -> {NoRow} \cup 0..(MaxBars + 1)]
      /\ closed' = closed /\ web.op # "delete"
    BY TypeParts, WebOnLock, SpineAssumption
       DEF TypeInv, TypeOK, WebShape, WebRecord, RegShape, Orderly, WebServe, WebRegister, WebPutPlan,
           WebMove, WebClosed, WebAlert, WebMutate, WebDelete, WebDeletePlan, WebDeleteState,
           WebDeleteArchive, WebStep, closed
<1>2. ~Moving'
    BY WebOnLock DEF Moving, Reply, NoRequest
<1>3. CASE InTick
    <2>1. UNCHANGED states
        BY <1>3, WebBesideTick
    <2>2. CASE UNCHANGED reg /\ \A x \in Accounts : plans'[x] # "none" <=> plans[x] # "none"
        <3>1. \A g \in Gens, n \in Bars : SentBar(g, n) => SentBar(g, n)'
            BY <1>1, <1>2, <2>1, <2>2 DEF SentBar, Passed
        <3>2. \A n \in engine'.sends : HeldBar(n)'
            BY <1>1, <2>1, <2>2 DEF BarsInv, HeldBar, Passed
        <3>3. QED
            BY <1>1, <2>2, <3>1, <3>2, BarsKept
    <2>3. CASE reg'.gen = reg.gen + 1 /\ \A x \in Accounts : plans[x] = "none"
        <3>1. \A g \in Gens, n \in Bars : sent[<<g, n>>] > 0 => g # reg'.gen
            <4>1. reg'.gen > reg.gen
                BY <1>1, <2>3
            <4>2. QED
                BY <4>1 DEF BarsInv
        <3>2. \A g \in Gens, n \in Bars : sent[<<g, n>>] > 0 /\ SentBar(g, n) => SentBar(g, n)'
            BY <1>1, <1>2, <3>1 DEF SentBar
        <3>3. engine.gen # reg'.gen
            BY <1>1, <2>3 DEF TickInv, EngineRecord
        <3>4. \A n \in engine'.sends : HeldBar(n)'
            BY <1>1, <3>3 DEF BarsInv, HeldBar
        <3>5. QED
            BY <1>1, <2>3, <3>2, <3>4, BarsKept
    <2>4. QED
        BY <1>3, <2>2, <2>3, WebBesideTick
<1>4. CASE ~InTick
    <2>1. engine'.sends = {}
        BY <1>1, <1>4 DEF InTick, BarsInv, HeldBar, Holding, EngineRecord
    <2>2. ASSUME UNCHANGED <<states, reg>>, \A x \in Accounts : plans'[x] # "none" => plans[x] # "none"
          PROVE  BarsInv'
        <3>1. \A g \in Gens, n \in Bars : SentBar(g, n) => SentBar(g, n)'
            BY <1>1, <1>2, <2>2 DEF SentBar, Passed
        <3>2. QED
            BY <1>1, <2>1, <2>2, <3>1, BarsKept
    <2>3. CASE WebMove \/ WebClosed
        <3>1. CASE NoChange
            BY <2>2, <3>1 DEF NoChange, store
        <3>2. CASE ~NoChange
            <4>1. \A g \in Gens, n \in Bars : SentBar(g, n) => SentBar(g, n)'
                <5> SUFFICES ASSUME NEW g \in Gens, NEW n \in Bars, SentBar(g, n)
                             PROVE  SentBar(g, n)'
                    OBVIOUS
                <5>1. \A x \in Accounts : plans'[x] # "none" =>
                         x = web.acct /\ Moving /\ states'[x] \in {NoRow, web.now + 1}
                    BY <2>3, <3>2, WebMoves
                <5>2. \A x \in Accounts : plans'[x] # "none" => Passed(states'[x], n)
                    BY <1>1, <5>1 DEF SentBar, Passed, WebRecord, Bars
                <5>3. engine.pc \notin {"journal", "put", "insert"}
                    BY <1>4 DEF InTick
                <5>4. QED
                    BY <1>1, <1>2, <5>2, <5>3 DEF SentBar, Passed
            <4>2. reg'.gen = reg.gen
                BY <2>3, <3>2, WebMoves
            <4>3. QED
                BY <1>1, <2>1, <4>1, <4>2, BarsKept
        <3>3. QED
            BY <3>1, <3>2
    <2>4. CASE WebPutPlan
        <3>1. UNCHANGED states
            BY <2>4 DEF WebPutPlan
        <3>2. CASE UNCHANGED reg
            <4>1. \A x \in Accounts : plans'[x] # "none" => plans[x] # "none"
                BY <1>1, <2>4, <3>2 DEF WebPutPlan, NoPlan, TypeInv, TypeOK
            <4>2. QED
                BY <2>2, <3>1, <3>2, <4>1
        <3>3. CASE ~UNCHANGED reg
            <4>1. reg'.gen = reg.gen + 1
                BY <2>4, <3>3 DEF WebPutPlan, NoPlan
            <4>2. \A g \in Gens, n \in Bars : sent[<<g, n>>] > 0 => g # reg'.gen
                <5>1. reg'.gen > reg.gen
                    BY <1>1, <4>1
                <5>2. QED
                    BY <5>1 DEF BarsInv
            <4>3. \A g \in Gens, n \in Bars : sent[<<g, n>>] > 0 /\ SentBar(g, n) => SentBar(g, n)'
                BY <1>1, <1>2, <4>2 DEF SentBar
            <4>4. QED
                BY <1>1, <2>1, <4>1, <4>3, BarsKept
        <3>4. QED
            BY <3>2, <3>3
    <2>5. CASE WebRegister \/ WebAlert \/ WebMutate
        BY <2>2, <2>5 DEF WebRegister, WebAlert, WebMutate, NoChange, store
    <2>6. QED
        BY <1>1, <2>3, <2>4, <2>5
           DEF WebServe, WebDelete, WebDeletePlan, WebDeleteState, WebDeleteArchive, Serving,
               TypeInv, WebShape
<1>5. QED
    BY <1>3, <1>4

LEMMA BarsEngine ==
    ASSUME TypeInv, LockInv, TurnInv, TickInv, BarsInv, EngineTick, Orderly
    PROVE  BarsInv'
<1>1. /\ engine \in EngineRecord /\ engine.now <= closed /\ closed \in Nat /\ MaxBars \in Nat
      /\ reg.gen \in Nat /\ "gen" \in DOMAIN reg
      /\ plans \in [Accounts -> Modes \cup {"none"}]
      /\ states \in [Accounts -> {NoRow} \cup 0..(MaxBars + 1)]
      /\ engine.pc \in Holding => engine.acct \in Accounts
    BY TypeParts, SpineAssumption DEF TypeInv, TypeOK, RegShape, StoreType, EngineShape, Bars
<1>2. UNCHANGED <<web, market>> /\ closed' = closed /\ Moving' = Moving
    BY DEF EngineTick, EngineAsk, EngineList, EngineDone, EngineRead, EngineSeed, EngineEvaluate,
        EnginePass, EngineControls, EngineJournal, EnginePutDelete, EnginePutInsert, EngineArchive,
        EngineClearState, EngineClearPlan, EngineSend, EngineNext, EngineStep, closed, Moving, Wants
<1> USE <1>1, <1>2 DEF EngineRecord
<1>3. ASSUME UNCHANGED <<plans, states, sent>>, reg'.gen = reg.gen, engine'.sends = {},
             engine'.pc \notin {"journal", "put", "insert"},
             engine'.pc # "idle" => engine'.now \in {engine.now, closed},
             engine.pc = "idle" => engine'.now = closed
      PROVE  BarsInv'
    <2>1. \A g \in Gens, n \in Bars : SentBar(g, n) => SentBar(g, n)'
        BY <1>3 DEF SentBar, Passed
    <2>2. QED
        BY <1>3, <2>1, BarsKept
<1>4. CASE EngineAsk \/ EngineDone
    <2>1. engine' = Idle \/ \E n : engine' = [Idle EXCEPT !.pc = "list", !.now = n]
        BY <1>4 DEF EngineAsk, EngineDone
    <2>2. engine'.pc \in {"idle", "list"} /\ engine'.sends = {}
        BY <2>1, IdleTick
    <2>3. UNCHANGED <<plans, states, reg, sent>>
        BY <1>4 DEF EngineAsk, EngineDone, store, ghosts
    <2>4. EngineAsk => engine'.now = closed
        <3> SUFFICES ASSUME EngineAsk PROVE engine'.now = closed
            OBVIOUS
        <3>1. engine' = [Idle EXCEPT !.pc = "list", !.now = closed]
            BY DEF EngineAsk
        <3> DEFINE e == engine'
                   n == closed
        <3>2. e = [Idle EXCEPT !.pc = "list", !.now = n]
            BY <3>1
        <3> HIDE DEF e, n
        <3>3. e.now = n
            BY <3>2, IdleTick
        <3>4. QED
            BY <3>3 DEF e, n
    <2>5. EngineDone => engine'.pc = "idle" /\ engine.pc = "pick"
        BY IdleTick DEF EngineDone
    <2>6. QED
        BY <1>3, <1>4, <2>2, <2>3, <2>4, <2>5
<1>5. CASE EngineList
    <2>1. engine'.sends = {} /\ engine'.pc = "pick" /\ engine'.now = engine.now /\ engine.pc = "list"
          /\ UNCHANGED <<plans, states, reg, sent>>
        BY <1>5 DEF EngineList, store, ghosts, BarsInv, HeldBar, Holding
    <2>2. QED
        BY <1>3, <2>1
<1>6. ASSUME NEW x \in Accounts, EnginePass(x) PROVE BarsInv'
    <2>1. engine'.sends = {} /\ engine'.pc = "pick" /\ engine'.now = engine.now /\ engine.pc = "pick"
          /\ UNCHANGED <<plans, states, reg, sent>>
        BY <1>6 DEF EnginePass, Picked, store, ghosts, BarsInv, HeldBar, Holding
    <2>2. QED
        BY <1>3, <2>1
<1>7. ASSUME NEW x \in Accounts, EngineSeed(x) PROVE BarsInv'
    <2>1. /\ engine.pc = "pick" /\ engine'.pc = "put" /\ engine'.sends = {}
          /\ engine'.now = engine.now /\ engine'.gen = engine.gen /\ engine'.upTo \in {engine.now, 0}
          /\ UNCHANGED <<plans, states, reg, sent>>
        BY <1>7 DEF EngineSeed, Picked, store, ghosts
    <2>2. \A g \in Gens, n \in Bars : SentBar(g, n) => SentBar(g, n)'
        BY <2>1 DEF SentBar, Passed
    <2>3. QED
        BY <2>1, <2>2, BarsKept
<1>18. ASSUME NEW x \in Accounts, EngineControls(x) PROVE BarsInv'
    <2>1. /\ x \in engine.todo /\ engine.pc = "pick" /\ engine'.pc = "put" /\ engine'.sends = {}
          /\ engine'.now = engine.now /\ engine'.gen = engine.gen /\ engine'.upTo = states[x]
          /\ UNCHANGED <<plans, states, reg, sent>>
        BY <1>18 DEF EngineControls, Picked, store, ghosts
    <2>2. engine.gen = reg.gen /\ plans[x] # "none"
        BY <2>1 DEF TickInv
    <2>3. \A g \in Gens, n \in Bars : SentBar(g, n) => SentBar(g, n)'
        BY <2>1, <2>2 DEF SentBar, Passed
    <2>4. QED
        BY <2>1, <2>3, BarsKept
<1>8. ASSUME NEW x \in Accounts, EngineEvaluate(x) PROVE BarsInv'
    <2> DEFINE since == states[x]
               upTo == LastBar(since)
    <2>1. since \in Nat /\ since > 0 /\ since < engine.now
        BY <1>8 DEF EngineEvaluate, FirstTick, NoRow
    <2>2. upTo \in (since + 1)..engine.now
        BY <2>1, LastBarBetween
    <2>3. /\ x \in engine.todo /\ engine.pc = "pick" /\ engine'.pc \in {"journal", "put", "archive"}
          /\ engine'.now = engine.now /\ engine'.gen = engine.gen /\ engine'.upTo = upTo
          /\ engine'.sends = EntriesIn(since, upTo)
          /\ UNCHANGED <<plans, states, reg, sent>>
        BY <1>8 DEF EngineEvaluate, Picked, store, ghosts
    <2>4. engine.gen = reg.gen /\ plans[x] # "none"
        BY <2>3 DEF TickInv
    <2>5. \A n \in engine'.sends : n > since /\ n <= upTo /\ n \in Bars
        BY <2>1, <2>2, <2>3 DEF EntriesIn, Bars
    <2> HIDE DEF since, upTo
    <2>6. \A g \in Gens, n \in Bars : sent[<<g, n>>] > 0 /\ g = reg.gen => n <= since
        BY <2>1, <2>4 DEF BarsInv, SentBar, Passed, NoRow, since
    <2>7. \A g \in Gens, n \in Bars : sent[<<g, n>>] > 0 /\ SentBar(g, n) => SentBar(g, n)'
        BY <2>1, <2>2, <2>3, <2>4, <2>6 DEF SentBar, Passed, Bars
    <2>8. \A n \in engine'.sends : HeldBar(n)'
        <3> SUFFICES ASSUME NEW n \in engine'.sends PROVE HeldBar(n)'
            OBVIOUS
        <3>1. n \in Bars /\ n > since /\ n <= upTo /\ n <= engine.now
            BY <2>1, <2>2, <2>5 DEF Bars
        <3>2. \A g \in Gens : g = engine.gen => sent[<<g, n>>] = 0
            <4> SUFFICES ASSUME NEW g \in Gens, g = engine.gen PROVE sent[<<g, n>>] = 0
                OBVIOUS
            <4>1. sent[<<g, n>>] \in Nat
                BY <3>1 DEF TypeInv, TypeOK
            <4>2. ~(sent[<<g, n>>] > 0)
                BY <2>1, <2>4, <2>6, <3>1 DEF Bars
            <4>3. QED
                BY <4>1, <4>2
        <3>3. QED
            BY <2>3, <3>1, <3>2 DEF HeldBar, Holding
    <2>9. QED
        BY <2>3, <2>7, <2>8, BarsKept
<1>9. CASE EngineJournal
    <2>1. /\ engine.pc = "journal" /\ engine'.pc \in {"put", "archive", "pick"}
          /\ engine'.pc = "pick" => engine'.sends = {}
          /\ engine'.pc # "pick" => engine'.sends = engine.sends
          /\ engine'.now = engine.now /\ engine'.gen = engine.gen /\ engine'.upTo = engine.upTo
          /\ UNCHANGED <<plans, states, reg, sent>>
        BY <1>9 DEF EngineJournal, Skip, store
    <2>2. \A g \in Gens, n \in Bars : SentBar(g, n) => SentBar(g, n)'
        BY <2>1 DEF SentBar, Passed
    <2>3. \A n \in engine'.sends : HeldBar(n)'
        BY <2>1 DEF BarsInv, HeldBar, Holding
    <2>4. QED
        BY <2>1, <2>2, <2>3, BarsKept
<1>10. CASE EnginePutDelete
    <2>1. /\ engine.pc = "put" /\ engine'.pc \in {"insert", "pick"}
          /\ engine'.pc = "pick" => engine'.sends = {}
          /\ engine'.pc # "pick" => engine'.sends = engine.sends
          /\ engine'.now = engine.now /\ engine'.gen = engine.gen /\ engine'.upTo = engine.upTo
          /\ states' \in {states, [states EXCEPT ![engine.acct] = NoRow]}
          /\ UNCHANGED <<plans, reg, sent>>
        BY <1>10 DEF EnginePutDelete, Skip, ghosts
    <2>2. \A g \in Gens, n \in Bars : SentBar(g, n) => SentBar(g, n)'
        BY <2>1 DEF SentBar, Passed
    <2>3. \A n \in engine'.sends : HeldBar(n)'
        BY <2>1 DEF BarsInv, HeldBar, Holding
    <2>4. QED
        BY <2>1, <2>2, <2>3, BarsKept
<1>11. CASE EnginePutInsert
    <2>1. /\ engine.pc = "insert" /\ engine'.pc \in {"send", "pick"}
          /\ engine'.pc = "pick" => engine'.sends = {} /\ UNCHANGED states
          /\ engine'.pc # "pick" => /\ engine'.sends = engine.sends
                                    /\ states' = [states EXCEPT ![engine.acct] = engine.upTo]
          /\ engine'.now = engine.now /\ engine'.gen = engine.gen
          /\ UNCHANGED <<plans, sent>>
        BY <1>11 DEF EnginePutInsert, Skip
    <2>2. reg'.gen = reg.gen
        <3>1. Advanced.gen = reg.gen
            BY DEF Advanced
        <3>2. QED
            BY <1>11, <3>1 DEF EnginePutInsert
    <2>3. /\ engine.gen = reg.gen /\ engine.acct \in Accounts
          /\ \A x \in Accounts : plans[x] # "none" => x = engine.acct
        BY <2>1 DEF TickInv, OneHome, InHand, Holding
    <2>4. \A g \in Gens, n \in Bars : SentBar(g, n) => SentBar(g, n)'
        BY <2>1, <2>2, <2>3 DEF SentBar, Passed
    <2>5. \A n \in engine'.sends : HeldBar(n)'
        BY <2>1, <2>2, <2>3 DEF BarsInv, HeldBar, Holding, Passed
    <2>6. QED
        BY <2>1, <2>2, <2>4, <2>5, BarsKept
<1>12. CASE EngineArchive
    <2>1. /\ engine.pc = "archive" /\ engine'.pc = "clearState" /\ engine'.sends = engine.sends
          /\ engine'.now = engine.now /\ engine'.gen = engine.gen /\ reg'.gen = reg.gen
          /\ UNCHANGED <<plans, states, sent>>
        BY <1>12 DEF EngineArchive
    <2>2. \A g \in Gens, n \in Bars : SentBar(g, n) => SentBar(g, n)'
        BY <2>1 DEF SentBar, Passed
    <2>3. \A n \in engine'.sends : HeldBar(n)'
        BY <2>1 DEF BarsInv, HeldBar, Holding
    <2>4. QED
        BY <2>1, <2>2, <2>3, BarsKept
<1>13. CASE EngineClearState
    <2>1. /\ engine.pc = "clearState" /\ engine'.pc = "clearPlan" /\ engine'.sends = engine.sends
          /\ engine'.now = engine.now /\ engine'.gen = engine.gen
          /\ states' = [states EXCEPT ![engine.acct] = NoRow]
          /\ UNCHANGED <<plans, reg, sent>>
        BY <1>13 DEF EngineClearState, Orderly, ghosts
    <2>2. \A g \in Gens, n \in Bars : SentBar(g, n) => SentBar(g, n)'
        BY <2>1 DEF SentBar, Passed
    <2>3. \A n \in engine'.sends : HeldBar(n)'
        BY <2>1 DEF BarsInv, HeldBar, Holding
    <2>4. QED
        BY <2>1, <2>2, <2>3, BarsKept
<1>14. CASE EngineClearPlan
    <2>1. /\ engine.pc = "clearPlan" /\ engine'.pc = "send" /\ engine'.sends = engine.sends
          /\ engine'.now = engine.now /\ engine'.gen = engine.gen
          /\ plans' \in {plans, [plans EXCEPT ![engine.acct] = "none"]}
          /\ UNCHANGED <<states, reg, sent>>
        BY <1>14 DEF EngineClearPlan, ghosts
    <2>2. \A x \in Accounts : plans'[x] # "none" => plans[x] # "none" /\ states[x] = NoRow
        BY <2>1 DEF TickInv, OneHome, InHand, Holding
    <2>3. \A g \in Gens, n \in Bars : SentBar(g, n) => SentBar(g, n)'
        BY <2>1, <2>2 DEF SentBar, Passed
    <2>4. \A n \in engine'.sends : HeldBar(n)'
        BY <2>1, <2>2 DEF BarsInv, HeldBar, Holding, Passed
    <2>5. QED
        BY <2>1, <2>3, <2>4, BarsKept
<1>15. CASE EngineNext
    <2>1. engine'.sends = {} /\ engine'.pc = "pick" /\ engine'.now = engine.now /\ engine.pc = "send"
          /\ UNCHANGED <<plans, states, reg, sent>>
        BY <1>15 DEF EngineNext, Skip, store, ghosts
    <2>2. QED
        BY <1>3, <2>1
<1>16. CASE EngineSend
    <2>1. PICK n \in engine.sends : sent' = [sent EXCEPT ![<<engine.gen, n>>] = @ + 1]
                                    /\ engine' = [engine EXCEPT !.sends = @ \ {n}]
        BY <1>16 DEF EngineSend
    <2>2. /\ engine.pc = "send" /\ engine'.pc = "send" /\ engine'.sends = engine.sends \ {n}
          /\ engine'.now = engine.now /\ engine'.gen = engine.gen /\ n \in Bars
          /\ UNCHANGED <<plans, states, reg>>
        BY <1>16, <2>1 DEF EngineSend, Dispatching, store
    <2>3. sent \in [Gens \X Bars -> Nat]
        BY DEF TypeInv, TypeOK
    <2>4. \A g \in Gens, m \in Bars :
             /\ g = engine.gen /\ m = n => sent'[<<g, m>>] = sent[<<g, m>>] + 1
             /\ ~(g = engine.gen /\ m = n) => sent'[<<g, m>>] = sent[<<g, m>>]
        BY <2>1, <2>3
    <2>5. HeldBar(n)
        BY <2>1 DEF BarsInv
    <2>6. \A g \in Gens : g = engine.gen => SentBar(g, n)
        <3>1. Moving => engine.now <= web.now
            BY <2>2 DEF LockInv, LockOrder, TurnInv
        <3>2. n <= engine.now /\ web.now \in Nat
            BY <2>5 DEF HeldBar, TypeInv, WebShape, WebRecord
        <3>3. QED
            BY <2>2, <2>5, <3>1, <3>2 DEF SentBar, HeldBar, Bars
    <2>7. \A g \in Gens, m \in Bars : sent'[<<g, m>>] <= 1 /\ (g > reg.gen => sent'[<<g, m>>] = 0)
        <3> SUFFICES ASSUME NEW g \in Gens, NEW m \in Bars
                     PROVE  sent'[<<g, m>>] <= 1 /\ (g > reg.gen => sent'[<<g, m>>] = 0)
            OBVIOUS
        <3>1. CASE g = engine.gen /\ m = n
            <4>1. sent[<<g, m>>] = 0 /\ sent'[<<g, m>>] = 1
                BY <2>4, <2>5, <3>1 DEF HeldBar
            <4>2. ~(g > reg.gen)
                BY <3>1 DEF TickInv
            <4>3. QED
                BY <4>1, <4>2
        <3>2. CASE ~(g = engine.gen /\ m = n)
            BY <2>4, <3>2 DEF BarsInv
        <3>3. QED
            BY <3>1, <3>2
    <2>8. \A g \in Gens, m \in Bars : sent'[<<g, m>>] > 0 => SentBar(g, m)
        BY <2>4, <2>6 DEF BarsInv
    <2>9. \A g \in Gens, m \in Bars : SentBar(g, m) => SentBar(g, m)'
        BY <2>2 DEF SentBar, Passed
    <2>10. \A m \in engine'.sends : HeldBar(m)'
        <3> SUFFICES ASSUME NEW m \in engine'.sends PROVE HeldBar(m)'
            OBVIOUS
        <3>1. m \in engine.sends /\ m # n /\ m \in Bars /\ HeldBar(m)
            BY <2>2 DEF BarsInv
        <3>2. \A g \in Gens : sent'[<<g, m>>] = sent[<<g, m>>]
            BY <2>4, <3>1
        <3>3. QED
            BY <2>2, <3>1, <3>2 DEF HeldBar, Passed
    <2>11. QED
        BY <2>2, <2>7, <2>8, <2>9, <2>10 DEF BarsInv, Gens
<1>17. QED
    BY <1>4, <1>5, <1>6, <1>7, <1>8, <1>9, <1>10, <1>11, <1>12, <1>13, <1>14, <1>15, <1>16,
       <1>18 DEF EngineTick, EngineRead

LEMMA BarsStep ==
    ASSUME TypeInv, LockInv, TurnInv, TickInv, BarsInv, Orderly, [Next]_vars
    PROVE  BarsInv'
<1>1. /\ closed \in Nat /\ reg.gen \in Nat /\ engine \in EngineRecord /\ engine.now <= closed
      /\ market \in Seq({"quiet", "entry", "end"})
    BY DEF TypeInv, TypeOK, RegShape, EngineShape, Bars
<1> USE <1>1 DEF EngineRecord
<1>2. ASSUME UNCHANGED <<plans, states, reg, sent, engine>>, closed' \in {closed, closed + 1},
             Moving' => \/ Moving /\ web'.now = web.now
                        \/ web'.now = closed
      PROVE  BarsInv'
    <2>1. \A g \in Gens, n \in Bars : SentBar(g, n) => SentBar(g, n)'
        BY <1>2 DEF SentBar, Passed, Bars
    <2>2. \A n \in engine'.sends : HeldBar(n)'
        BY <1>2 DEF BarsInv, HeldBar, Passed
    <2>3. QED
        BY <1>2, <2>1, <2>2, BarsKept
<1>3. CASE CloseBar
    <2>1. closed' = closed + 1 /\ UNCHANGED <<plans, states, reg, sent, engine, web>>
        BY <1>3 DEF CloseBar, store, ghosts, closed
    <2>2. QED
        BY <1>2, <2>1 DEF Moving, Wants
<1>4. CASE Grant \/ UNCHANGED vars
    BY <1>2, <1>4 DEF Grant, vars, store, ghosts, closed, Moving, Wants
<1>5. ASSUME NEW p \in OtherJobs, JobAsk(p) \/ JobDone(p) PROVE BarsInv'
    BY <1>2, <1>5 DEF JobAsk, JobDone, store, ghosts, closed, Moving, Wants
<1>6. CASE WebAsk
    <2>1. web'.now = closed /\ UNCHANGED <<market, plans, states, reg, sent, engine>>
        BY <1>6 DEF WebAsk, NoRequest, store, ghosts
    <2>2. QED
        BY <1>2, <2>1 DEF closed
<1>7. CASE Crash
    <2>1. /\ engine'.pc = "idle" /\ engine'.sends = {} /\ ~Moving' /\ closed' = closed
          /\ UNCHANGED <<plans, states, reg, sent>>
        BY <1>7 DEF Crash, Idle, NoRequest, Moving, store, ghosts, closed
    <2>2. \A g \in Gens, n \in Bars : SentBar(g, n) => SentBar(g, n)'
        BY <2>1 DEF SentBar, Passed
    <2>3. QED
        BY <2>1, <2>2, BarsKept
<1>8. QED
    BY <1>3, <1>4, <1>5, <1>6, <1>7, BarsWeb, BarsEngine DEF Next

\* "Persist before dispatch": with no delete request beside the tick and a
\* state row that goes when it is told to, a registration dispatches each bar's
\* entry at most once, for every number of accounts, jobs, bars and requests,
\* through crashes, failed writes, moves to other accounts and re-registrations.
THEOREM OneDispatchPerBar == Orderly => (Spec => []BarDispatchedOnce)
<1> SUFFICES ASSUME Orderly PROVE Spec => []BarDispatchedOnce
    OBVIOUS
<1>1. Init => TurnInv /\ TickInv /\ BarsInv
    <2> SUFFICES ASSUME Init PROVE TurnInv /\ TickInv /\ BarsInv
        OBVIOUS
    <2>1. TurnInv
        BY DEF Init, NoRequest, TurnInv, Moving
    <2>2. engine.pc = "idle" /\ engine.todo = {} /\ engine.gen = 0 /\ engine.sends = {}
          /\ reg.gen = 1
        BY IdleTick DEF Init, Idle, NoPlan
    <2>3. TickInv
        BY <2>2 DEF Init, TickInv, OneHome, InHand
    <2>4. \A g \in Gens, n \in Bars : sent[<<g, n>>] = 0
        BY DEF Init
    <2>5. BarsInv
        BY <2>2, <2>4 DEF BarsInv
    <2>6. QED
        BY <2>1, <2>3, <2>5
<1>2. BarsInv => BarDispatchedOnce
    BY DEF BarsInv, BarDispatchedOnce
<1>3. TypeInv /\ LockInv /\ TurnInv /\ TickInv /\ BarsInv /\ [Next]_vars
      => TurnInv' /\ TickInv' /\ BarsInv'
    BY TurnStep, TickStep, BarsStep
<1>4. QED
    BY <1>1, <1>2, <1>3, LockAlways, PTL DEF Spec

=============================================================================
