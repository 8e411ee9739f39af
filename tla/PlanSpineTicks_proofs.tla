----------------------- MODULE PlanSpineTicks_proofs ------------------------
(* Theorems about PlanSpine that relate the copy a tick works from to the   *)
(* rows and to the registration it was read from: first ticks, skipped bars,*)
(* finished plans and stale alerts, for every value of the constants.       *)
EXTENDS PlanSpine_proofs

-----------------------------------------------------------------------------
(* What a request does, once it holds the lock.                             *)
RegRecord == [gen : Nat, seeded : BOOLEAN, due : Nat, skipped : BOOLEAN, over : Nat]

\* A registration that is let through writes one row and leaves no other.
Registers(a, mode) ==
    /\ \A x \in Accounts : x # a => plans[x] = "none"
    /\ plans[a] \in {"none", mode}
    /\ plans' = [plans EXCEPT ![a] = mode]
    /\ detached' = IF mode = "live" THEN detached \ {a} ELSE detached
    /\ reg' = IF plans[a] # "none" THEN reg ELSE [NoPlan EXCEPT !.gen = reg.gen + 1]
    /\ UNCHANGED <<states, archive>>

\* A move takes the one plan from a to b while no tick is past its listing.
Moves(a, b, mode) ==
    /\ ~InTick /\ a # b /\ Homes = {a} /\ states[b] = NoRow
    /\ mode \in {"paper", plans[a]}
    /\ plans' = [plans EXCEPT ![a] = "none", ![b] = mode]
    /\ states' = [states EXCEPT ![a] = NoRow, ![b] = SwitchState(states[a])]
    /\ detached' \subseteq detached \cup {a, b}
    /\ reg' = [reg EXCEPT !.seeded = @ \/ states[a] # NoRow,
                  !.due = IF states[a] = NoRow THEN 0 ELSE web.now + 2]
    /\ UNCHANGED archive

\* A close leaves no plan at all.
Closes(a) ==
    /\ ~InTick
    /\ \A x \in Accounts : plans'[x] = "none"
    /\ archive' = [archive EXCEPT ![a] = "manual"]
    /\ states' = [states EXCEPT ![a] = NoRow]
    /\ \A x \in Accounts : x # a => plans[x] = "none"
    /\ UNCHANGED reg

Deletes == WebDelete \/ WebDeletePlan \/ WebDeleteState \/ WebDeleteArchive

\* Everything a request can do to the rows, the detached set and the ghosts.
WebEffect ==
    \/ Reply /\ NoChange
    \/ Reply /\ \E a \in Accounts, mode \in Modes : Registers(a, mode)
    \/ Reply /\ \E a, b \in Accounts, mode \in Modes : Moves(a, b, mode)
    \/ Reply /\ \E a \in Accounts : Closes(a)
    \/ WebDelete \/ WebDeletePlan \/ WebDeleteState \/ WebDeleteArchive
    \/ WebAlert /\ ~AlertBlocked(web.acct) /\ web' = [web EXCEPT !.pc = "mutate"] /\ NoChange
    \/ web' = [web EXCEPT !.pc = "put"] /\ NoChange

LEMMA WebEffects ==
    ASSUME TypeInv, LockInv, WebServe
    PROVE  WebEffect /\ UNCHANGED engine
<1>1. StoreType /\ web \in WebRecord /\ WebShape /\ UNCHANGED engine
    BY TypeParts, WebOnLock DEF TypeInv, WebShape
<1>2. CASE WebPutPlan
    <2> DEFINE a == web.acct
               mode == RegisterMode
    <2>1. a \in Accounts /\ mode \in Modes /\ Reply /\ UNCHANGED <<states, archive>>
        BY <1>1, <1>2 DEF WebPutPlan, WebShape, RegisterMode, Modes
    <2>2. CASE UNCHANGED <<plans, detached, reg>>
        BY <1>1, <2>1, <2>2 DEF NoChange, store, WebEffect
    <2>3. CASE ~UNCHANGED <<plans, detached, reg>>
        <3>1. \A x \in Accounts : plans[x] # "none" => x = a /\ plans[x] = mode
            BY <1>2 DEF WebPutPlan, LockInv, PutInv
        <3>2. Registers(a, mode)
            BY <1>1, <1>2, <2>1, <2>3, <3>1 DEF WebPutPlan, Registers
        <3>3. QED
            BY <1>1, <2>1, <3>2 DEF WebEffect
    <2>4. QED
        BY <2>2, <2>3
<1>3. CASE WebMove
    <2> DEFINE b == web.acct
               a == CHOOSE x \in Homes : TRUE
               mode == IF web.op = "paper" THEN "paper" ELSE plans[a]
    <2>1. b \in Accounts /\ Reply /\ held["web"] # "no" /\ Wants("web") = "exclusive"
        BY <1>1, <1>3, WebOnLock DEF WebMove, Serving, WebShape, Wants
    <2>2. CASE NoChange
        BY <1>1, <2>1, <2>2 DEF WebEffect
    <2>3. CASE ~NoChange
        <3>1. /\ b \notin Homes /\ Cardinality(Homes) = 1 /\ states[b] = NoRow
              /\ plans' = [plans EXCEPT ![a] = "none", ![b] = mode]
              /\ states' = [states EXCEPT ![a] = NoRow, ![b] = SwitchState(states[a])]
              /\ detached' \subseteq detached \cup {a, b}
              /\ reg' = [reg EXCEPT !.seeded = @ \/ states[a] # NoRow,
                            !.due = IF states[a] = NoRow THEN 0 ELSE web.now + 2]
              /\ UNCHANGED archive
            BY <1>3, <2>3 DEF WebMove
        <3>2. a \in Accounts /\ Homes = {a}
            BY <3>1, SoleHome DEF Homes
        <3>3. a # b /\ mode \in Modes /\ mode \in {"paper", plans[a]}
            BY <1>1, <3>1, <3>2 DEF Homes, StoreType, Modes
        <3>4. ~InTick
            BY <2>1, ExclusiveAlone
        <3> HIDE DEF a, b, mode
        <3>5. Moves(a, b, mode)
            BY <3>1, <3>2, <3>3, <3>4 DEF Moves
        <3>6. QED
            BY <1>1, <2>1, <3>2, <3>3, <3>5 DEF WebEffect
    <2>4. QED
        BY <2>2, <2>3
<1>4. CASE WebClosed
    <2> DEFINE source == IF Homes = {} THEN Archived ELSE Homes
               a == CHOOSE x \in source : TRUE
    <2>1. Reply /\ held["web"] # "no" /\ Wants("web") = "exclusive"
        BY <1>1, <1>4, WebOnLock DEF WebClosed, Serving, Wants
    <2>2. CASE NoChange
        BY <1>1, <2>1, <2>2 DEF WebEffect
    <2>3. CASE ~NoChange
        <3>1. /\ Cardinality(source) = 1 /\ plans' = [plans EXCEPT ![a] = "none"]
              /\ archive' = [archive EXCEPT ![a] = "manual"]
              /\ states' = [states EXCEPT ![a] = NoRow] /\ UNCHANGED reg
            BY <1>4, <2>3 DEF WebClosed
        <3>2. source \in SUBSET Accounts
            BY DEF Homes, Archived
        <3>3. a \in Accounts /\ source = {a}
            <4> HIDE DEF source
            <4>1. QED
                BY <3>1, <3>2, SoleHome
        <3>4. \A x \in Accounts : x # a => plans[x] = "none"
            BY <3>3 DEF Homes
        <3>5. ~InTick
            BY <2>1, ExclusiveAlone
        <3> HIDE DEF a, source
        <3>6. Closes(a)
            BY <1>1, <3>1, <3>3, <3>4, <3>5 DEF Closes, StoreType
        <3>7. QED
            BY <1>1, <2>1, <3>3, <3>6 DEF WebEffect
    <2>4. QED
        BY <2>2, <2>3
<1>5. CASE WebAlert \/ WebMutate \/ WebRegister
    BY <1>1, <1>5 DEF WebAlert, WebMutate, WebRegister, Continue, WebEffect
<1>6. CASE Deletes
    BY <1>1, <1>6 DEF Deletes, WebEffect
<1>7. QED
    BY <1>2, <1>3, <1>4, <1>5, <1>6 DEF WebServe, Deletes

-----------------------------------------------------------------------------
(* What the tick's copy says of the rows, whatever fails and whatever is    *)
(* asked: it holds one plan at most, works only on plans it has listed, and *)
(* as long as no new registration began the store has no other plan.        *)
OneAtMost(row) == \A x, y \in Accounts : row[x] # "none" /\ row[y] # "none" => x = y

CopyInv ==
    /\ reg \in RegRecord
    /\ OneAtMost(plans)
    /\ engine.gen <= reg.gen
    /\ engine.todo # {} => engine.pc = "pick"
    /\ InTick =>
          /\ OneAtMost(engine.plan)
          /\ \A x \in engine.todo : engine.plan[x] # "none"
          /\ engine.pc \in Holding => engine.plan[engine.acct] # "none"
          /\ engine.gen = reg.gen =>
                \A x \in Accounts : plans[x] # "none" => engine.plan[x] # "none"

\* The plan in hand is the only one, unless a new registration has begun.
LEMMA InHandAlone ==
    ASSUME TypeInv, CopyInv, engine.pc \in Holding
    PROVE  /\ engine.acct \in Accounts /\ engine.todo = {}
           /\ engine.gen = reg.gen => \A x \in Accounts : plans[x] # "none" => x = engine.acct
BY DEF TypeInv, EngineShape, CopyInv, Holding, InTick, OneAtMost

\* The registrations a request leaves behind, and the plans.
LEMMA CopyWeb ==
    ASSUME TypeInv, LockInv, CopyInv, WebServe
    PROVE  CopyInv'
<1>1. /\ UNCHANGED engine /\ engine \in EngineRecord /\ web \in WebRecord
      /\ plans \in [Accounts -> Modes \cup {"none"}] /\ MaxBars \in Nat /\ reg \in RegRecord
    BY TypeParts, WebEffects, SpineAssumption DEF StoreType, TypeInv, WebShape, CopyInv
<1>2. ASSUME reg' \in RegRecord, OneAtMost(plans)', reg.gen <= reg'.gen,
             InTick /\ reg'.gen = reg.gen => \A x \in Accounts : plans'[x] # "none" => plans[x] # "none"
      PROVE  CopyInv'
    <2>1. engine.gen \in Nat /\ reg.gen \in Nat /\ reg'.gen \in Nat /\ engine.gen <= reg.gen
        BY <1>1, <1>2 DEF EngineRecord, RegRecord, CopyInv
    <2>2. engine.gen = reg'.gen => reg'.gen = reg.gen
        BY <1>2, <2>1
    <2>3. QED
        BY <1>1, <1>2, <2>1, <2>2 DEF CopyInv, InTick, OneAtMost
<1>3. ASSUME reg' = reg \/ \E d \in Nat : reg' = [reg EXCEPT !.due = d],
             \A x \in Accounts : plans'[x] # "none" => plans[x] # "none"
      PROVE  CopyInv'
    <2>1. reg' \in RegRecord /\ reg'.gen = reg.gen /\ reg.gen \in Nat
        BY <1>1, <1>3 DEF RegRecord
    <2>2. OneAtMost(plans)'
        BY <1>3 DEF CopyInv, OneAtMost
    <2>3. QED
        BY <1>2, <1>3, <2>1, <2>2
<1>4. CASE NoChange
    BY <1>3, <1>4 DEF NoChange, store
<1>5. ASSUME NEW a \in Accounts, NEW mode \in Modes, Registers(a, mode) PROVE CopyInv'
    <2>1. OneAtMost(plans)'
        BY <1>1, <1>5 DEF Registers, OneAtMost
    <2>2. CASE plans[a] # "none"
        BY <1>1, <1>3, <1>5, <2>2 DEF Registers, Modes
    <2>3. CASE plans[a] = "none"
        <3>1. reg' = [NoPlan EXCEPT !.gen = reg.gen + 1] /\ reg.gen \in Nat
            BY <1>1, <1>5, <2>3 DEF Registers, RegRecord
        <3>2. NoPlan \in RegRecord
            BY DEF RegRecord, NoPlan
        <3>4. reg' \in RegRecord /\ reg'.gen = reg.gen + 1
            BY <3>1, <3>2 DEF RegRecord
        <3>3. QED
            BY <1>2, <2>1, <3>1, <3>4
    <2>4. QED
        BY <2>2, <2>3
<1>6. ASSUME NEW a \in Accounts, NEW b \in Accounts, NEW mode \in Modes, Moves(a, b, mode)
      PROVE  CopyInv'
    <2> DEFINE s == reg.seeded \/ states[a] # NoRow
               d == IF states[a] = NoRow THEN 0 ELSE web.now + 2
    <2>4. reg' = [reg EXCEPT !.seeded = s, !.due = d]
        BY <1>6 DEF Moves
    <2>5. s \in BOOLEAN /\ d \in Nat
        BY <1>1 DEF WebRecord
    <2> HIDE DEF s, d
    <2>1. reg' \in RegRecord /\ reg'.gen = reg.gen /\ reg.gen \in Nat
        BY <1>1, <2>4, <2>5 DEF RegRecord
    <2>2. \A x \in Accounts : plans'[x] # "none" => x = b
        BY <1>1, <1>6 DEF Moves, Homes
    <2>6. OneAtMost(plans)' /\ ~InTick
        BY <1>6, <2>2 DEF Moves, OneAtMost
    <2>3. QED
        BY <1>2, <2>1, <2>6
<1>7. ASSUME NEW a \in Accounts, Closes(a) PROVE CopyInv'
    BY <1>3, <1>7 DEF Closes
<1>8. CASE Deletes
    <2>1. CASE WebDelete \/ WebDeleteState \/ WebDeleteArchive
        BY <1>3, <1>4, <2>1 DEF WebDelete, WebDeleteState, WebDeleteArchive, Failed, store
    <2>2. CASE WebDeletePlan
        <3>1. CASE NoChange
            BY <1>4, <3>1
        <3>2. CASE ~NoChange
            BY <1>1, <1>3, <2>2, <3>2 DEF WebDeletePlan, Failed
        <3>3. QED
            BY <3>1, <3>2
    <2>3. QED
        BY <1>8, <2>1, <2>2 DEF Deletes
<1>9. QED
    BY <1>4, <1>5, <1>6, <1>7, <1>8, WebEffects DEF WebEffect, Deletes

LEMMA CopyEngine ==
    ASSUME TypeInv, CopyInv, EngineTick
    PROVE  CopyInv'
<1>1. /\ engine \in EngineRecord /\ reg \in RegRecord /\ MaxBars \in Nat
      /\ plans \in [Accounts -> Modes \cup {"none"}]
      /\ engine.pc \in Holding => engine.acct \in Accounts
    BY TypeParts, SpineAssumption DEF StoreType, TypeInv, EngineShape, CopyInv
<1> USE <1>1 DEF EngineRecord, Holding, InTick
<1>2. ASSUME engine'.pc \in {"idle", "list"}, engine'.todo = {}, engine'.gen = 0,
             UNCHANGED <<plans, reg>>
      PROVE  CopyInv'
    BY <1>2 DEF CopyInv, OneAtMost, RegRecord
<1>3. CASE EngineAsk \/ EngineDone
    <2>1. engine' = Idle \/ \E n : engine' = [Idle EXCEPT !.pc = "list", !.now = n]
        BY <1>3 DEF EngineAsk, EngineDone
    <2>2. engine'.todo = {} /\ engine'.gen = 0 /\ engine'.pc \in {"idle", "list"}
        BY <2>1, IdleTick
    <2>3. UNCHANGED <<plans, reg>>
        BY <1>3 DEF EngineAsk, EngineDone, store, ghosts
    <2>4. QED
        BY <1>2, <2>2, <2>3
<1>4. CASE EngineList
    BY <1>4 DEF EngineList, store, ghosts, CopyInv, OneAtMost, RegRecord
<1>5. ASSUME InTick, engine'.pc \in Holding \cup {"pick"}, engine'.plan = engine.plan,
             engine'.gen = engine.gen, reg' \in RegRecord, reg'.gen = reg.gen,
             \A x \in Accounts : plans'[x] # "none" => plans[x] # "none",
             engine'.todo \subseteq engine.todo, engine'.todo # {} => engine'.pc = "pick",
             engine'.pc \in Holding => engine.plan[engine'.acct] # "none"
      PROVE  CopyInv'
    BY <1>5 DEF CopyInv, OneAtMost
<1>6. ASSUME NEW x \in Accounts, EngineRead(x) PROVE CopyInv'
    <2>1. /\ x \in engine.todo /\ engine.pc = "pick" /\ engine'.todo = engine.todo \ {x}
          /\ engine'.gen = engine.gen /\ engine'.plan = engine.plan
          /\ engine'.acct = x /\ engine'.pc \in {"pick", "journal", "put", "archive"}
        <3>1. CASE EngineSeed(x)
            BY <3>1 DEF EngineSeed, Picked
        <3>2. CASE EngineEvaluate(x)
            BY <3>2 DEF EngineEvaluate, Picked
        <3>3. CASE EnginePass(x) \/ EngineControls(x)
            BY <3>3 DEF EnginePass, EngineControls, Picked
        <3>4. QED
            BY <1>6, <3>1, <3>2, <3>3 DEF EngineRead
    <2>2. UNCHANGED <<plans, reg>>
        BY <1>6 DEF EngineRead, EngineSeed, EngineEvaluate, EnginePass, EngineControls, store, ghosts
    <2>3. engine.plan[x] # "none" /\ engine'.todo = {}
        BY <2>1 DEF CopyInv, OneAtMost
    <2>4. QED
        BY <1>5, <2>1, <2>2, <2>3
<1>7. ASSUME engine.pc \in Holding, engine'.pc \in Holding \cup {"pick"},
             engine'.plan = engine.plan, engine'.gen = engine.gen, engine'.acct = engine.acct,
             engine'.todo = engine.todo, reg' \in RegRecord, reg'.gen = reg.gen,
             \A x \in Accounts : plans'[x] # "none" => plans[x] # "none"
      PROVE  CopyInv'
    BY <1>5, <1>7 DEF CopyInv
<1>8. CASE EngineJournal \/ EnginePutDelete
    BY <1>7, <1>8 DEF EngineJournal, EnginePutDelete, Skip, ghosts, store
<1>9. CASE EnginePutInsert
    <2> DEFINE s == reg.seeded \/ (engine.seed /\ engine.upTo > 0)
               d == IF engine.upTo = 0 THEN 0 ELSE engine.upTo + 1
               k == reg.skipped \/ (engine.seed /\ reg.due \in 1..engine.upTo)
    <2>5. Advanced = IF engine.gen # reg.gen THEN reg
                     ELSE [reg EXCEPT !.seeded = s, !.due = d, !.skipped = k]
        BY DEF Advanced
    <2>6. s \in BOOLEAN /\ d \in Nat /\ k \in BOOLEAN
        OBVIOUS
    <2> HIDE DEF s, d, k
    <2>1. Advanced \in RegRecord /\ Advanced.gen = reg.gen
        BY <2>5, <2>6 DEF RegRecord
    <2>2. reg' \in {reg, Advanced}
        BY <1>9 DEF EnginePutInsert
    <2>3. reg' \in RegRecord /\ reg'.gen = reg.gen
        BY <2>1, <2>2
    <2>4. QED
        BY <1>7, <1>9, <2>3 DEF EnginePutInsert, Skip
<1>10. CASE EngineArchive
    <2>1. reg' \in RegRecord /\ reg'.gen = reg.gen
        BY <1>10 DEF EngineArchive, RegRecord
    <2>2. QED
        BY <1>7, <1>10, <2>1 DEF EngineArchive
<1>11. CASE EngineClearState
    BY <1>7, <1>11 DEF EngineClearState, ghosts
<1>12. CASE EngineClearPlan
    <2>1. \A x \in Accounts : plans'[x] # "none" => plans[x] # "none"
        BY <1>12 DEF EngineClearPlan
    <2>2. QED
        BY <1>7, <1>12, <2>1 DEF EngineClearPlan, ghosts
<1>13. CASE EngineSend \/ EngineNext
    BY <1>7, <1>13 DEF EngineSend, EngineNext, Dispatching, Skip, store, ghosts
<1>14. QED
    BY <1>3, <1>4, <1>6, <1>8, <1>9, <1>10, <1>11, <1>12, <1>13 DEF EngineTick

\* What every other step leaves alone.
LEMMA AroundTick ==
    ASSUME TypeInv, [Next]_vars
    PROVE  \/ EngineTick
           \/ WebServe
           \/ UNCHANGED <<plans, states, archive, engine, web, detached, reg>>
           \/ /\ web.pc = "idle" /\ web'.pc = "start"
              /\ UNCHANGED <<plans, states, archive, engine, detached, reg>>
           \/ /\ Crash /\ engine' = Idle /\ web'.pc = "idle"
              /\ UNCHANGED <<plans, states, archive, detached, reg>>
<1>1. CASE CloseBar \/ Grant \/ UNCHANGED vars
    BY <1>1 DEF CloseBar, Grant, vars, store, ghosts
<1>2. CASE WebAsk
    BY <1>2 DEF WebAsk, NoRequest, store, ghosts
<1>3. CASE Crash
    BY <1>3 DEF Crash, NoRequest, store, ghosts
<1>4. ASSUME NEW j \in OtherJobs, JobAsk(j) \/ JobDone(j)
      PROVE  UNCHANGED <<plans, states, archive, engine, web, detached, reg>>
    BY <1>4 DEF JobAsk, JobDone, store, ghosts
<1>5. QED
    BY <1>1, <1>2, <1>3, <1>4 DEF Next

LEMMA CopyStep ==
    ASSUME TypeInv, LockInv, CopyInv, [Next]_vars
    PROVE  CopyInv'
<1>1. CASE UNCHANGED <<plans, reg, engine>>
    BY <1>1 DEF CopyInv, OneAtMost, InTick
<1>2. CASE engine' = Idle /\ UNCHANGED <<plans, reg>>
    <2>1. engine'.pc = "idle" /\ engine'.todo = {} /\ engine'.gen = 0
        BY <1>2, IdleTick
    <2>2. QED
        BY <1>2, <2>1 DEF CopyInv, OneAtMost, InTick, RegRecord, Holding
<1>3. QED
    BY <1>1, <1>2, AroundTick, CopyWeb, CopyEngine

\* What the later proofs start from.
SpineInv == TypeInv /\ LockInv /\ CopyInv

LEMMA SpineAlways == Spec => []SpineInv
<1>1. Init => CopyInv
    <2> SUFFICES ASSUME Init PROVE CopyInv
        OBVIOUS
    <2>1. engine.pc = "idle" /\ engine.todo = {} /\ engine.gen = 0
        BY IdleTick DEF Init
    <2>2. reg \in RegRecord
        BY DEF Init, NoPlan, RegRecord
    <2>3. QED
        BY <2>1, <2>2 DEF Init, CopyInv, OneAtMost, InTick, RegRecord
<1>2. TypeInv /\ LockInv /\ CopyInv /\ [Next]_vars => CopyInv'
    BY CopyStep
<1>3. QED
    BY <1>1, <1>2, LockAlways, PTL DEF Spec, SpineInv

-----------------------------------------------------------------------------
(* Stale alerts.  While a plan is detached from an account, some row still  *)
(* says so: the plan is elsewhere, or an archive row is left.  A finish     *)
(* writes the archive before it removes the plan, and only a delete, which  *)
(* forgets the detachment, removes an archive row.                          *)
AlertInv ==
    /\ DetachInv
    /\ detached # {} =>
          /\ web.pc # "row"
          /\ Homes # {} \/ Archived # {}
          /\ \A x \in engine.todo : plans[x] # "none"
          /\ engine.pc \in InHand => plans[engine.acct] # "none"
          /\ engine.pc \in {"clearState", "clearPlan"} => archive[engine.acct] # "none"
    /\ web.pc = "mutate" /\ web.acct \in detached => Homes = {} /\ archive[web.acct] = "live"

LEMMA AlertWeb ==
    ASSUME SpineInv, AlertInv, WebServe
    PROVE  AlertInv'
<1>1. /\ UNCHANGED engine /\ engine \in EngineRecord /\ web \in WebRecord /\ StoreType /\ WebShape
      /\ TypeInv /\ LockInv /\ CopyInv /\ WebEffect /\ detached \subseteq Accounts
    BY TypeParts, WebEffects DEF SpineInv, TypeInv, TypeOK, WebShape
<1>2. DetachInv'
    BY <1>1, DetachWeb DEF AlertInv
<1> USE <1>1, <1>2 DEF StoreType
<1>3. ASSUME Reply PROVE web'.pc = "idle"
    BY <1>3 DEF Reply, NoRequest
<1>4. CASE Reply /\ NoChange
    BY <1>3, <1>4 DEF NoChange, store, AlertInv, Homes, Archived
<1>5. ASSUME NEW a \in Accounts, NEW mode \in Modes, Reply, Registers(a, mode) PROVE AlertInv'
    <2>1. /\ \A x \in Accounts : plans[x] # "none" => plans'[x] # "none"
          /\ plans'[a] # "none" /\ detached' \subseteq detached /\ UNCHANGED archive
        BY <1>5 DEF Registers, Modes
    <2>2. Homes' # {} /\ engine.todo \subseteq Accounts
        BY <2>1 DEF Homes, EngineRecord
    <2>3. engine.pc \in InHand => engine.acct \in Accounts
        BY InHandAlone DEF InHand, Holding
    <2>4. QED
        BY <1>3, <1>5, <2>1, <2>2, <2>3 DEF AlertInv
<1>6. ASSUME ~InTick PROVE engine.todo = {} /\ engine.pc \notin InHand
    BY <1>6 DEF InTick, CopyInv, InHand
<1>7. ASSUME NEW a \in Accounts, NEW b \in Accounts, NEW mode \in Modes, Reply, Moves(a, b, mode)
      PROVE  AlertInv'
    <2>1. ~InTick /\ plans'[b] # "none"
        BY <1>7 DEF Moves, Modes, Homes
    <2>2. Homes' # {}
        BY <2>1 DEF Homes
    <2>3. QED
        BY <1>3, <1>6, <1>7, <2>1, <2>2 DEF AlertInv, InHand
<1>8. ASSUME NEW a \in Accounts, Reply, Closes(a) PROVE AlertInv'
    <2>1. ~InTick /\ archive'[a] # "none"
        BY <1>8 DEF Closes
    <2>2. Archived' # {}
        BY <2>1 DEF Archived
    <2>3. QED
        BY <1>3, <1>6, <1>8, <2>1, <2>2 DEF AlertInv, InHand
<1>9. CASE Deletes
    <2>1. CASE detached' = {}
        BY <2>1 DEF AlertInv
    <2>2. CASE detached' # {}
        <3>1. ~WebDeleteState \/ NoChange
            BY <2>2 DEF WebDeleteState, Failed, AlertInv
        <3>2. NoChange /\ web'.pc \notin {"row", "mutate"}
            BY <1>3, <1>9, <2>2, <3>1
               DEF Deletes, WebDelete, WebDeletePlan, WebDeleteArchive, WebDeleteState, Failed,
                   Continue, WebRecord
        <3>3. QED
            BY <3>2 DEF NoChange, store, AlertInv, Homes, Archived
    <2>3. QED
        BY <2>1, <2>2
<1>10. CASE WebAlert /\ ~AlertBlocked(web.acct) /\ web' = [web EXCEPT !.pc = "mutate"] /\ NoChange
    <2>1. web'.pc = "mutate" /\ web'.acct = web.acct /\ web.acct \in Accounts
        BY <1>10 DEF WebRecord, WebAlert, Serving, WebShape
    <2>2. UNCHANGED <<plans, archive, detached>>
        BY <1>10 DEF NoChange, store
    <2>3. ASSUME web.acct \in detached PROVE Homes = {} /\ archive[web.acct] = "live"
        <3>1. Homes = {}
            <4> SUFFICES ASSUME NEW h \in Homes PROVE FALSE
                OBVIOUS
            <4>1. h = web.acct /\ plans[h] = "live" /\ h \in Accounts
                BY <1>10 DEF AlertBlocked, Homes, Modes
            <4>2. QED
                BY <2>3, <4>1 DEF AlertInv, DetachInv
        <3>2. Archived # {} /\ web.acct \in Archived
            BY <1>10, <2>3, <3>1 DEF AlertInv, AlertBlocked
        <3>3. archive[web.acct] \notin {"paper", "manual"}
            BY <1>10, <3>1, <3>2 DEF AlertBlocked
        <3>4. QED
            BY <2>1, <3>1, <3>2, <3>3 DEF Archived, Modes
    <2>4. QED
        BY <2>1, <2>2, <2>3 DEF AlertInv, Homes, Archived
<1>11. CASE web' = [web EXCEPT !.pc = "put"] /\ NoChange
    <2>1. web'.pc = "put"
        BY <1>11 DEF WebRecord
    <2>2. QED
        BY <1>11, <2>1 DEF NoChange, store, AlertInv, Homes, Archived
<1>12. QED
    BY <1>4, <1>5, <1>7, <1>8, <1>9, <1>10, <1>11 DEF WebEffect, Deletes

\* A finish whose archive row is always written.
LEMMA AlertEngine ==
    ASSUME SpineInv, AlertInv, EngineTick, "archive" \notin Faults
    PROVE  AlertInv'
<1>1. /\ engine \in EngineRecord /\ StoreType /\ TypeInv /\ CopyInv /\ UNCHANGED <<web, detached>>
      /\ (engine.pc \in Holding => engine.acct \in Accounts)
    BY TypeParts DEF SpineInv, TypeInv, EngineShape, EngineTick, EngineAsk, EngineList, EngineDone,
        EngineRead, EngineSeed, EngineEvaluate, EnginePass, EngineControls, EngineJournal,
        EnginePutDelete, EnginePutInsert, EngineArchive, EngineClearState, EngineClearPlan,
        EngineSend, EngineNext, EngineStep, ghosts
<1>2. DetachInv'
    BY <1>1, DetachEngine DEF AlertInv
<1> USE <1>1, <1>2 DEF StoreType, EngineRecord, InHand, Holding
<1>3. ASSUME UNCHANGED <<plans, archive>>, engine'.todo \subseteq engine.todo,
             detached # {} /\ engine'.pc \in InHand => plans[engine'.acct] # "none",
             engine'.pc \in {"clearState", "clearPlan"} =>
                engine.pc \in {"clearState", "clearPlan"} /\ engine'.acct = engine.acct
      PROVE  AlertInv'
    BY <1>3 DEF AlertInv, Homes, Archived
<1>4. CASE EngineAsk \/ EngineDone
    <2>1. engine' = Idle \/ \E n : engine' = [Idle EXCEPT !.pc = "list", !.now = n]
        BY <1>4 DEF EngineAsk, EngineDone
    <2>2. engine'.todo = {} /\ engine'.pc \in {"idle", "list"}
        BY <2>1, IdleTick
    <2>3. UNCHANGED <<plans, archive>>
        BY <1>4 DEF EngineAsk, EngineDone, store
    <2>4. QED
        BY <1>3, <2>2, <2>3
<1>5. CASE EngineList
    BY <1>5 DEF EngineList, store, AlertInv, Homes, Archived
<1>6. ASSUME NEW x \in Accounts, EngineRead(x) PROVE AlertInv'
    <2>1. /\ x \in engine.todo /\ engine'.todo = engine.todo \ {x} /\ engine'.acct = x
          /\ engine'.pc \in {"pick", "journal", "put", "archive"}
        <3>1. CASE EngineSeed(x)
            BY <3>1 DEF EngineSeed, Picked
        <3>2. CASE EngineEvaluate(x)
            BY <3>2 DEF EngineEvaluate, Picked
        <3>3. CASE EnginePass(x) \/ EngineControls(x)
            BY <3>3 DEF EnginePass, EngineControls, Picked
        <3>4. QED
            BY <1>6, <3>1, <3>2, <3>3 DEF EngineRead
    <2>2. UNCHANGED <<plans, archive>>
        BY <1>6 DEF EngineRead, EngineSeed, EngineEvaluate, EnginePass, EngineControls, store
    <2>3. QED
        BY <1>3, <2>1, <2>2 DEF AlertInv
<1>7. CASE EngineJournal \/ EnginePutDelete \/ EnginePutInsert \/ EngineClearState
    <2>1. /\ UNCHANGED <<plans, archive>> /\ engine'.todo = engine.todo /\ engine'.acct = engine.acct
          /\ engine.pc \in InHand
          /\ engine'.pc \in {"clearState", "clearPlan"} => engine.pc \in {"clearState", "clearPlan"}
        BY <1>7 DEF EngineJournal, EnginePutDelete, EnginePutInsert, EngineClearState, Skip, store
    <2>2. QED
        BY <1>3, <2>1 DEF AlertInv
<1>8. CASE EngineArchive
    <2>1. /\ archive' = [archive EXCEPT ![engine.acct] = engine.plan[engine.acct]]
          /\ engine.pc = "archive" /\ UNCHANGED plans
          /\ engine'.todo = engine.todo /\ engine'.acct = engine.acct /\ engine'.pc = "clearState"
        BY <1>8 DEF EngineArchive
    <2>2. archive'[engine.acct] # "none" /\ engine.acct \in Accounts
        BY <2>1 DEF CopyInv, InTick
    <2>3. detached # {} => plans[engine.acct] # "none" /\ Homes # {}
        BY <2>1, <2>2 DEF AlertInv, Homes
    <2>4. Homes' = Homes /\ Archived' # {}
        BY <2>1, <2>2 DEF Homes, Archived
    <2>5. QED
        BY <2>1, <2>2, <2>3, <2>4 DEF AlertInv
<1>9. CASE EngineClearPlan
    <2>1. /\ plans' = [plans EXCEPT ![engine.acct] = "none"] \/ plans' = plans
          /\ engine.pc = "clearPlan" /\ UNCHANGED archive
          /\ engine'.todo = engine.todo /\ engine'.pc = "send"
        BY <1>9 DEF EngineClearPlan
    <2>2. engine.todo = {}
        BY <2>1, InHandAlone
    <2>3. detached # {} => Archived' # {}
        BY <2>1 DEF AlertInv, Archived
    <2>4. Homes = {} => Homes' = {}
        BY <2>1 DEF Homes
    <2>5. QED
        BY <2>1, <2>2, <2>3, <2>4 DEF AlertInv
<1>10. CASE EngineSend \/ EngineNext
    BY <1>3, <1>10 DEF EngineSend, EngineNext, Dispatching, Skip, store
<1>11. QED
    BY <1>4, <1>5, <1>6, <1>7, <1>8, <1>9, <1>10 DEF EngineTick

LEMMA AlertStep ==
    ASSUME SpineInv, AlertInv, [Next]_vars, "archive" \notin Faults
    PROVE  AlertInv'
<1>1. TypeInv /\ LockInv /\ DetachInv /\ DetachInv'
    BY DetachStep DEF SpineInv, AlertInv
<1>2. CASE UNCHANGED <<plans, archive, engine, detached>> /\ (web' = web \/ web'.pc = "start")
    <2>1. Homes' = Homes /\ Archived' = Archived
        BY <1>2 DEF Homes, Archived
    <2>2. web'.pc \in {"row", "mutate"} => web' = web
        BY <1>2
    <2>3. QED
        BY <1>1, <1>2, <2>1, <2>2 DEF AlertInv
<1>3. CASE engine' = Idle /\ web'.pc = "idle" /\ UNCHANGED <<plans, archive, detached>>
    <2>1. engine'.pc = "idle" /\ engine'.todo = {}
        BY <1>3, IdleTick
    <2>2. QED
        BY <1>1, <1>3, <2>1 DEF AlertInv, Homes, Archived, InHand
<1>4. QED
    BY <1>1, <1>2, <1>3, AroundTick, AlertWeb, AlertEngine

\* The guard of plan_admin: as long as a finished plan's archive row is written,
\* an alert signed before a move, a paper switch or a manual close is refused for
\* every account the plan was taken from, whatever else fails and through crashes
\* and deletes, except where an earlier run has ended live on that same account.
THEOREM StaleAlertsRefused == "archive" \notin Faults => (Spec => []StaleAlertRefused)
<1> SUFFICES ASSUME "archive" \notin Faults PROVE Spec => []StaleAlertRefused
    OBVIOUS
<1>1. Init => AlertInv
    <2> SUFFICES ASSUME Init PROVE AlertInv
        OBVIOUS
    <2>1. detached = {} /\ web.pc = "idle" /\ engine.pc = "idle"
        BY IdleTick DEF Init, NoRequest
    <2>2. QED
        BY <2>1 DEF AlertInv, DetachInv, InTick
<1>2. AlertInv => StaleAlertRefused
    BY DEF AlertInv, StaleAlertRefused
<1>3. SpineInv /\ AlertInv /\ [Next]_vars => AlertInv'
    BY AlertStep
<1>4. QED
    BY <1>1, <1>2, <1>3, SpineAlways, PTL DEF Spec

-----------------------------------------------------------------------------
(* Bars are never skipped by a second seed: without a stop or a failed write*)
(* between the two statements that replace a state row, a plan that owes a  *)
(* bar has its row, except in that window and just before it is removed.    *)
Whole == Faults \cap {"crash", "put", "clearPlan"} = {}

DueInv ==
    /\ ~reg.skipped
    /\ web.pc = "row" => web.acct \in Accounts /\ plans[web.acct] = "none"
    /\ reg.due > 0 =>
          /\ InTick => engine.gen = reg.gen
          /\ \A x \in engine.todo : plans[x] # "none"
          /\ engine.pc \in {"journal", "put", "insert"} => ~engine.seed
          /\ \A x \in Accounts : plans[x] # "none" =>
                \/ states[x] > 0
                \/ engine.pc \in {"insert", "clearPlan"} /\ engine.acct = x

LEMMA DueWeb ==
    ASSUME SpineInv, DueInv, WebServe
    PROVE  DueInv'
<1>1. /\ UNCHANGED engine /\ engine \in EngineRecord /\ web \in WebRecord /\ StoreType /\ WebShape
      /\ TypeInv /\ LockInv /\ CopyInv /\ WebEffect /\ reg \in RegRecord /\ MaxBars \in Nat
    BY TypeParts, WebEffects, SpineAssumption DEF SpineInv, TypeInv, WebShape, CopyInv
<1> USE <1>1 DEF StoreType
<1>2. ASSUME ~reg'.skipped, web'.pc = "row" => web'.acct \in Accounts /\ plans'[web'.acct] = "none",
             reg'.due = 0
      PROVE  DueInv'
    BY <1>2 DEF DueInv
<1>3. ASSUME Reply PROVE web'.pc = "idle"
    BY <1>3 DEF Reply, NoRequest
<1>4. ASSUME UNCHANGED <<plans, states, reg>>, web'.pc # "row" PROVE DueInv'
    BY <1>4 DEF DueInv, InTick
<1>5. ASSUME NEW a \in Accounts, NEW mode \in Modes, Reply, Registers(a, mode) PROVE DueInv'
    <2>1. CASE plans[a] # "none"
        <3>1. UNCHANGED <<plans, states, reg>>
            BY <1>5, <2>1 DEF Registers
        <3>2. QED
            BY <1>3, <1>4, <1>5, <3>1
    <2>2. CASE plans[a] = "none"
        <3>1. reg' = [NoPlan EXCEPT !.gen = reg.gen + 1]
            BY <1>5, <2>2 DEF Registers
        <3>2. reg'.due = 0 /\ ~reg'.skipped
            BY <3>1 DEF NoPlan
        <3>3. QED
            BY <1>2, <1>3, <1>5, <3>2
    <2>3. QED
        BY <2>1, <2>2
<1>6. ASSUME NEW a \in Accounts, NEW b \in Accounts, NEW mode \in Modes, Reply, Moves(a, b, mode)
      PROVE  DueInv'
    <2>1. /\ ~InTick /\ a # b /\ Homes = {a}
          /\ plans' = [plans EXCEPT ![a] = "none", ![b] = mode]
          /\ states' = [states EXCEPT ![a] = NoRow, ![b] = SwitchState(states[a])]
        BY <1>6 DEF Moves
    <2>2. reg'.skipped = reg.skipped /\ reg'.due = IF states[a] = NoRow THEN 0 ELSE web.now + 2
        BY <1>6 DEF Moves, RegRecord
    <2>3. \A x \in Accounts : plans'[x] # "none" => x = b
        BY <2>1 DEF Homes
    <2>4. reg'.due > 0 => states'[b] > 0
        BY <2>1, <2>2 DEF SwitchState, WebRecord
    <2>5. engine.todo = {} /\ engine.pc \notin {"journal", "put", "insert"}
        BY <2>1 DEF InTick, CopyInv
    <2>6. QED
        BY <1>3, <1>6, <2>1, <2>2, <2>3, <2>4, <2>5 DEF DueInv, InTick
<1>7. ASSUME NEW a \in Accounts, Reply, Closes(a) PROVE DueInv'
    <2>1. /\ ~InTick /\ UNCHANGED reg /\ \A x \in Accounts : plans'[x] = "none"
        BY <1>7 DEF Closes
    <2>2. engine.todo = {} /\ engine.pc \notin {"journal", "put", "insert"}
        BY <2>1 DEF InTick, CopyInv
    <2>3. QED
        BY <1>3, <1>7, <2>1, <2>2 DEF DueInv, InTick
<1>8. CASE WebDelete
    <2>1. web'.pc = "rows" /\ UNCHANGED <<plans, states, reg>>
        BY <1>8 DEF WebDelete, Continue, WebRecord, NoChange, store
    <2>2. QED
        BY <1>4, <2>1
<1>9. CASE WebDeletePlan
    <2>1. CASE Failed
        BY <1>3, <1>4, <2>1 DEF Failed, NoChange, store
    <2>2. CASE ~Failed
        <3>1. PICK a \in web.todo : /\ plans' = [plans EXCEPT ![a] = "none"]
                                    /\ web' = [web EXCEPT !.pc = "row", !.acct = a, !.todo = @ \ {a}]
                                    /\ reg' = [reg EXCEPT !.due = 0]
            BY <1>9, <2>2 DEF WebDeletePlan, Continue
        <3>2. a \in Accounts /\ web'.acct = a /\ reg'.due = 0 /\ reg'.skipped = reg.skipped
            BY <3>1 DEF WebRecord, RegRecord
        <3>3. QED
            BY <1>2, <3>1, <3>2 DEF DueInv
    <2>3. QED
        BY <2>1, <2>2
<1>10. CASE WebDeleteState
    <2>1. CASE Failed
        BY <1>3, <1>4, <2>1 DEF Failed, NoChange, store
    <2>2. CASE ~Failed
        <3>1. web.pc = "row" /\ web'.pc = "rows" /\ UNCHANGED <<plans, reg>>
              /\ states' = [states EXCEPT ![web.acct] = NoRow]
            BY <1>10, <2>2 DEF WebDeleteState, Continue, WebRecord
        <3>2. \A x \in Accounts : plans[x] # "none" => states'[x] = states[x]
            BY <3>1 DEF DueInv
        <3>3. QED
            BY <3>1, <3>2 DEF DueInv, InTick
    <2>3. QED
        BY <2>1, <2>2
<1>11. CASE WebDeleteArchive
    BY <1>3, <1>4, <1>11 DEF WebDeleteArchive, Failed, NoChange, store
<1>12. CASE Reply /\ NoChange
    BY <1>3, <1>4, <1>12 DEF NoChange, store
<1>13. CASE (web' = [web EXCEPT !.pc = "mutate"] \/ web' = [web EXCEPT !.pc = "put"]) /\ NoChange
    <2>1. web'.pc # "row"
        BY <1>13 DEF WebRecord
    <2>2. QED
        BY <1>4, <1>13, <2>1 DEF NoChange, store
<1>14. QED
    BY <1>5, <1>6, <1>7, <1>8, <1>9, <1>10, <1>11, <1>12, <1>13 DEF WebEffect

LEMMA DueEngine ==
    ASSUME SpineInv, DueInv, EngineTick, Whole
    PROVE  DueInv'
<1>1. /\ engine \in EngineRecord /\ StoreType /\ TypeInv /\ CopyInv /\ UNCHANGED web
      /\ reg \in RegRecord /\ MaxBars \in Nat
      /\ (engine.pc \in Holding => engine.acct \in Accounts)
    BY TypeParts, SpineAssumption
       DEF SpineInv, TypeInv, EngineShape, CopyInv, EngineTick, EngineAsk, EngineList, EngineDone,
        EngineRead, EngineSeed, EngineEvaluate, EnginePass, EngineControls, EngineJournal,
        EnginePutDelete, EnginePutInsert, EngineArchive, EngineClearState, EngineClearPlan,
        EngineSend, EngineNext, EngineStep
<1> USE <1>1 DEF StoreType, EngineRecord, Holding, InTick
<1>2. ASSUME UNCHANGED <<plans, states>>, reg'.due = reg.due, reg'.gen = reg.gen,
             reg'.skipped = reg.skipped, engine'.todo \subseteq engine.todo,
             (InTick /\ engine'.gen = engine.gen) \/ ~InTick',
             engine.pc \notin {"insert", "clearPlan"} \/ reg.due = 0,
             engine'.pc \in {"journal", "put", "insert"} /\ reg.due > 0 => ~engine'.seed
      PROVE  DueInv'
    BY <1>2 DEF DueInv
<1>3. CASE EngineAsk \/ EngineDone
    <2>1. engine' = Idle \/ \E n : engine' = [Idle EXCEPT !.pc = "list", !.now = n]
        BY <1>3 DEF EngineAsk, EngineDone
    <2>2. engine'.todo = {} /\ engine'.pc \in {"idle", "list"}
        BY <2>1, IdleTick
    <2>3. UNCHANGED <<plans, states, reg>> /\ engine.pc \in {"idle", "pick"}
        BY <1>3 DEF EngineAsk, EngineDone, store, ghosts
    <2>4. QED
        BY <1>2, <2>2, <2>3
<1>4. CASE EngineList
    BY <1>4 DEF EngineList, store, ghosts, DueInv
<1>5. ASSUME NEW x \in Accounts, EngineRead(x) PROVE DueInv'
    <2>1. UNCHANGED <<plans, states, reg>>
        BY <1>5 DEF EngineRead, EngineSeed, EngineEvaluate, EnginePass, EngineControls, store, ghosts
    <2>2. CASE EngineSeed(x)
        <3>1. states[x] \in {NoRow, 0} /\ x \in engine.todo /\ engine.pc = "pick"
            BY <2>2 DEF EngineSeed, FirstTick, Picked
        <3>2. reg.due = 0
            <4>1. reg.due \in Nat /\ ~(states[x] > 0)
                BY <3>1 DEF RegRecord, NoRow
            <4>2. QED
                BY <3>1, <4>1 DEF DueInv
        <3>3. QED
            BY <1>2, <2>1, <2>2, <3>1, <3>2 DEF EngineSeed
    <2>3. CASE EngineEvaluate(x)
        BY <1>2, <2>1, <2>3 DEF EngineEvaluate, Picked
    <2>4. CASE EnginePass(x)
        BY <1>2, <2>1, <2>4 DEF EnginePass, Picked
    <2>5. CASE EngineControls(x)
        BY <1>2, <2>1, <2>5 DEF EngineControls, Picked
    <2>6. QED
        BY <1>5, <2>2, <2>3, <2>4, <2>5 DEF EngineRead
<1>6. CASE EngineJournal
    <2>1. /\ UNCHANGED <<plans, states, reg>> /\ engine.pc = "journal" /\ engine'.gen = engine.gen
          /\ engine'.todo = engine.todo /\ engine'.pc \in {"archive", "put", "pick"}
          /\ engine'.seed = engine.seed
        BY <1>6 DEF EngineJournal, Skip, store
    <2>2. engine'.pc \in {"journal", "put", "insert"} /\ reg.due > 0 => ~engine'.seed
        BY <2>1 DEF DueInv
    <2>3. QED
        BY <1>2, <2>1, <2>2
<1>7. CASE EnginePutDelete
    <2>1. /\ engine.pc = "put" /\ UNCHANGED <<plans, reg>>
          /\ states' = [states EXCEPT ![engine.acct] = NoRow]
          /\ engine' = [engine EXCEPT !.pc = "insert"]
        BY <1>7 DEF EnginePutDelete, Whole, ghosts
    <2>2. reg.due > 0 => \A x \in Accounts : plans[x] # "none" => x = engine.acct
        BY <2>1, InHandAlone DEF DueInv
    <2>3. QED
        BY <2>1, <2>2 DEF DueInv
<1>8. CASE EnginePutInsert
    <2>1. /\ engine.pc = "insert" /\ UNCHANGED plans /\ reg' = Advanced
          /\ states' = [states EXCEPT ![engine.acct] = engine.upTo]
          /\ engine' = [engine EXCEPT !.pc = "send"]
        BY <1>8 DEF EnginePutInsert, Whole
    <2>2. engine.todo = {} /\ (engine.gen = reg.gen =>
             \A x \in Accounts : plans[x] # "none" => x = engine.acct)
        BY <2>1, InHandAlone
    <2>3. CASE engine.gen # reg.gen
        <3>1. reg' = reg /\ reg.due = 0
            BY <2>1, <2>3 DEF Advanced, DueInv, RegRecord
        <3>2. QED
            BY <2>1, <3>1 DEF DueInv
    <2>4. CASE engine.gen = reg.gen
        <3>1. ~(engine.seed /\ reg.due \in 1..engine.upTo)
            BY <2>1 DEF DueInv
        <3>2. /\ reg'.gen = reg.gen
              /\ reg'.skipped = (reg.skipped \/ (engine.seed /\ reg.due \in 1..engine.upTo))
              /\ reg'.due = IF engine.upTo = 0 THEN 0 ELSE engine.upTo + 1
            BY <2>1, <2>4 DEF Advanced, RegRecord
        <3>3. ~reg'.skipped
            BY <3>1, <3>2 DEF DueInv
        <3>4. reg'.due > 0 => states'[engine.acct] > 0
            BY <2>1, <3>2
        <3>5. QED
            BY <2>1, <2>2, <2>4, <3>2, <3>3, <3>4 DEF DueInv
    <2>5. QED
        BY <2>3, <2>4
<1>9. CASE EngineArchive
    <2>1. /\ UNCHANGED <<plans, states>> /\ engine.pc = "archive"
          /\ engine' = [engine EXCEPT !.pc = "clearState"]
          /\ reg' = IF engine.gen = reg.gen THEN [reg EXCEPT !.over = engine.upTo] ELSE reg
        BY <1>9 DEF EngineArchive
    <2>2. reg'.due = reg.due /\ reg'.gen = reg.gen /\ reg'.skipped = reg.skipped
        BY <2>1 DEF RegRecord
    <2>3. QED
        BY <1>2, <2>1, <2>2
<1>10. CASE EngineClearState
    <2>1. /\ engine.pc = "clearState" /\ UNCHANGED <<plans, reg>>
          /\ engine' = [engine EXCEPT !.pc = "clearPlan"]
        BY <1>10 DEF EngineClearState, ghosts
    <2>2. reg.due > 0 => \A x \in Accounts : plans[x] # "none" => x = engine.acct
        BY <2>1, InHandAlone DEF DueInv
    <2>3. QED
        BY <2>1, <2>2 DEF DueInv
<1>11. CASE EngineClearPlan
    <2>1. /\ engine.pc = "clearPlan" /\ UNCHANGED <<states, reg>>
          /\ plans' = [plans EXCEPT ![engine.acct] = "none"]
          /\ engine' = [engine EXCEPT !.pc = "send"]
        BY <1>11 DEF EngineClearPlan, Whole, ghosts
    <2>2. engine.todo = {} /\ (reg.due > 0 => \A x \in Accounts : plans'[x] = "none")
        BY <2>1, InHandAlone DEF DueInv
    <2>3. QED
        BY <2>1, <2>2 DEF DueInv
<1>12. CASE EngineSend \/ EngineNext
    <2>1. /\ UNCHANGED <<plans, states, reg>> /\ engine.pc = "send" /\ engine'.gen = engine.gen
          /\ engine'.todo = engine.todo /\ engine'.pc \in {"send", "pick"}
        BY <1>12 DEF EngineSend, EngineNext, Dispatching, Skip, store, ghosts
    <2>2. QED
        BY <1>2, <2>1
<1>14. QED
    BY <1>3, <1>4, <1>5, <1>6, <1>7, <1>8, <1>9, <1>10, <1>11, <1>12 DEF EngineTick

LEMMA DueStep ==
    ASSUME SpineInv, DueInv, [Next]_vars, Whole
    PROVE  DueInv'
<1>1. ~Crash
    BY DEF Crash, Whole
<1>2. CASE UNCHANGED <<plans, states, engine, reg>> /\ (web' = web \/ web'.pc = "start")
    <2>1. web'.pc = "row" => web' = web
        BY <1>2
    <2>2. QED
        BY <1>2, <2>1 DEF DueInv, InTick
<1>3. QED
    BY <1>1, <1>2, AroundTick, DueWeb, DueEngine DEF SpineInv

\* "Persist before dispatch" loses nothing either: as long as the process does
\* not stop and the writes of a state row and of a finished plan's removal do not
\* fail, no registration is ever seeded past a bar it still owes, whatever else
\* fails and through moves, deletes and re-registrations.
THEOREM NoBarEverSkipped == Whole => (Spec => []NoBarSkipped)
<1> SUFFICES ASSUME Whole PROVE Spec => []NoBarSkipped
    OBVIOUS
<1>1. Init => DueInv
    <2> SUFFICES ASSUME Init PROVE DueInv
        OBVIOUS
    <2>1. ~reg.skipped /\ reg.due = 0 /\ web.pc = "idle"
        BY DEF Init, NoPlan, NoRequest
    <2>2. QED
        BY <2>1 DEF DueInv
<1>2. DueInv => NoBarSkipped
    BY DEF DueInv, NoBarSkipped
<1>3. SpineInv /\ DueInv /\ [Next]_vars => DueInv'
    BY DueStep
<1>4. QED
    BY <1>1, <1>2, <1>3, SpineAlways, PTL DEF Spec

-----------------------------------------------------------------------------
(* A finished plan stays finished.  From the write of its archive row until *)
(* its plan row is gone, the tick that finished it holds it, and what that  *)
(* tick has left to dispatch belongs to the bars up to the finish.          *)
Removed == Faults \cap {"crash", "clearPlan"} = {}

Finishing == engine.pc \in {"clearState", "clearPlan"} /\ engine.gen = reg.gen

OverInv ==
    /\ engine.pc \in {"journal", "archive"} => \A n \in engine.sends : n <= engine.upTo
    /\ reg.over > 0 =>
          /\ InTick /\ engine.gen = reg.gen =>
                /\ engine.todo = {} /\ engine.pc \in {"pick", "clearState", "clearPlan", "send"}
                /\ engine.pc # "pick" => \A n \in engine.sends : n <= reg.over
          /\ \A x \in Accounts : plans[x] # "none" => Finishing /\ engine.acct = x

LEMMA OverWeb ==
    ASSUME SpineInv, OverInv, WebServe
    PROVE  OverInv'
<1>1. /\ UNCHANGED engine /\ engine \in EngineRecord /\ StoreType /\ WebEffect /\ CopyInv
      /\ reg \in RegRecord /\ web \in WebRecord
    BY TypeParts, WebEffects DEF SpineInv, CopyInv, TypeInv, WebShape
<1> USE <1>1 DEF StoreType, InTick, Finishing
<1>2. ASSUME reg'.over = reg.over, reg'.gen = reg.gen,
             \A x \in Accounts : plans'[x] # "none" => plans[x] # "none" \/ reg.over = 0
      PROVE  OverInv'
    BY <1>2 DEF OverInv
<1>3. CASE NoChange
    BY <1>2, <1>3 DEF NoChange, store
<1>4. ASSUME NEW a \in Accounts, NEW mode \in Modes, Registers(a, mode) PROVE OverInv'
    <2>1. CASE plans[a] # "none"
        BY <1>2, <1>4, <2>1 DEF Registers, Modes
    <2>2. CASE plans[a] = "none"
        <3>1. reg' = [NoPlan EXCEPT !.gen = reg.gen + 1]
            BY <1>4, <2>2 DEF Registers
        <3>2. reg'.over = 0
            BY <3>1 DEF NoPlan
        <3>3. QED
            BY <3>2 DEF OverInv
    <2>3. QED
        BY <2>1, <2>2
<1>5. ASSUME NEW a \in Accounts, NEW b \in Accounts, NEW mode \in Modes, Moves(a, b, mode)
      PROVE  OverInv'
    <2>1. ~InTick /\ a \in Homes /\ reg'.over = reg.over /\ reg'.gen = reg.gen
        BY <1>5 DEF Moves, RegRecord
    <2>2. reg.over = 0
        BY <2>1 DEF OverInv, Homes, RegRecord
    <2>3. QED
        BY <1>2, <2>1, <2>2
<1>6. ASSUME NEW a \in Accounts, Closes(a) PROVE OverInv'
    BY <1>2, <1>6 DEF Closes
<1>7. CASE Deletes
    <2>1. CASE WebDelete \/ WebDeleteState \/ WebDeleteArchive
        BY <1>2, <1>3, <2>1 DEF WebDelete, WebDeleteState, WebDeleteArchive, Failed, store
    <2>2. CASE WebDeletePlan
        <3>1. CASE NoChange
            BY <1>3, <3>1
        <3>2. CASE ~NoChange
            BY <1>2, <2>2, <3>2 DEF WebDeletePlan, Failed, RegRecord
        <3>3. QED
            BY <3>1, <3>2
    <2>3. QED
        BY <1>7, <2>1, <2>2 DEF Deletes
<1>8. QED
    BY <1>3, <1>4, <1>5, <1>6, <1>7 DEF WebEffect, Deletes

LEMMA OverEngine ==
    ASSUME SpineInv, OverInv, EngineTick, Removed
    PROVE  OverInv'
<1>1. /\ engine \in EngineRecord /\ StoreType /\ TypeInv /\ CopyInv /\ reg \in RegRecord
      /\ MaxBars \in Nat
      /\ (engine.pc \in Holding => engine.acct \in Accounts)
    BY TypeParts, SpineAssumption DEF SpineInv, TypeInv, EngineShape, CopyInv
<1> USE <1>1 DEF StoreType, EngineRecord, Holding, InTick, Finishing, Bars
<1>3. CASE EngineAsk \/ EngineDone
    <2>1. engine' = Idle \/ \E n : engine' = [Idle EXCEPT !.pc = "list", !.now = n]
        BY <1>3 DEF EngineAsk, EngineDone
    <2>2. engine'.pc \in {"idle", "list"}
        BY <2>1, IdleTick
    <2>3. UNCHANGED <<plans, reg>> /\ engine.pc \in {"idle", "pick"}
        BY <1>3 DEF EngineAsk, EngineDone, store, ghosts
    <2>4. QED
        BY <2>2, <2>3 DEF OverInv
<1>4. CASE EngineList
    <2>1. /\ UNCHANGED <<plans, reg>> /\ engine.pc = "list" /\ engine'.pc = "pick"
          /\ engine'.todo = {x \in Accounts : plans[x] # "none"}
        BY <1>4 DEF EngineList, store, ghosts
    <2>2. reg.over > 0 => \A x \in Accounts : plans[x] = "none"
        BY <2>1 DEF OverInv
    <2>3. QED
        BY <2>1, <2>2 DEF OverInv
<1>5. ASSUME NEW x \in Accounts, EngineRead(x) PROVE OverInv'
    <2>1. /\ x \in engine.todo /\ engine.pc = "pick" /\ engine'.gen = engine.gen
          /\ UNCHANGED <<plans, reg>>
          /\ engine'.pc \in {"journal", "archive"} => \A n \in engine'.sends : n <= engine'.upTo
        <3>1. CASE EngineSeed(x)
            BY <3>1 DEF EngineSeed, Picked, store, ghosts
        <3>2. CASE EngineEvaluate(x)
            <4> DEFINE last == LastBar(states[x])
                       entries == EntriesIn(states[x], last)
            <4>1. /\ x \in engine.todo /\ engine.pc = "pick" /\ engine'.gen = engine.gen
                  /\ UNCHANGED <<plans, reg>> /\ engine'.sends = entries /\ engine'.upTo = last
                BY <3>2 DEF EngineEvaluate, Picked, store, ghosts
            <4>2. states[x] \in Nat /\ states[x] < engine.now
                BY <3>2 DEF EngineEvaluate, FirstTick, NoRow
            <4>3. last \in Nat
                BY <4>2, LastBarBetween
            <4> HIDE DEF last
            <4>4. \A n \in entries : n <= last
                BY <4>2, <4>3 DEF EntriesIn
            <4> HIDE DEF entries
            <4>5. QED
                BY <4>1, <4>4
        <3>3. CASE EnginePass(x) \/ EngineControls(x)
            BY <3>3 DEF EnginePass, EngineControls, Picked, store, ghosts
        <3>4. QED
            BY <1>5, <3>1, <3>2, <3>3 DEF EngineRead
    <2>2. reg.over > 0 => engine.gen # reg.gen /\ \A y \in Accounts : plans[y] = "none"
        BY <2>1 DEF OverInv
    <2>3. QED
        BY <2>1, <2>2 DEF OverInv
<1>6. ASSUME UNCHANGED <<plans>>, reg'.over = reg.over, reg'.gen = reg.gen,
             engine.pc \in {"journal", "put", "insert"},
             engine'.gen = engine.gen, engine'.sends \in {engine.sends, {}},
             engine'.pc \in {"journal", "archive"} =>
                engine.pc = "journal" /\ engine'.upTo = engine.upTo
      PROVE  OverInv'
    <2>1. reg.over > 0 => engine.gen # reg.gen /\ \A y \in Accounts : plans[y] = "none"
        BY <1>6 DEF OverInv
    <2>2. QED
        BY <1>6, <2>1 DEF OverInv
<1>7. CASE EngineJournal \/ EnginePutDelete
    BY <1>6, <1>7 DEF EngineJournal, EnginePutDelete, Skip, store, ghosts
<1>8. CASE EnginePutInsert
    <2>1. /\ engine.pc = "insert" /\ UNCHANGED plans /\ engine'.gen = engine.gen
          /\ engine'.pc \in {"send", "pick"} /\ engine'.sends \in {engine.sends, {}}
          /\ reg' \in {reg, Advanced}
        BY <1>8 DEF EnginePutInsert, Skip
    <2>2. reg'.over = reg.over /\ reg'.gen = reg.gen
        BY <2>1 DEF Advanced, RegRecord
    <2>3. QED
        BY <1>6, <2>1, <2>2
<1>9. CASE EngineArchive
    <2>1. /\ UNCHANGED plans /\ engine.pc = "archive"
          /\ engine' = [engine EXCEPT !.pc = "clearState"]
          /\ reg' = IF engine.gen = reg.gen THEN [reg EXCEPT !.over = engine.upTo] ELSE reg
        BY <1>9 DEF EngineArchive
    <2>2. /\ engine'.pc = "clearState" /\ engine'.gen = engine.gen /\ engine'.acct = engine.acct
          /\ engine'.todo = {} /\ engine'.sends = engine.sends
        BY <2>1, InHandAlone
    <2>3. CASE engine.gen = reg.gen
        <3>1. reg'.over = engine.upTo /\ reg'.gen = reg.gen
            BY <2>1, <2>3 DEF RegRecord
        <3>2. \A x \in Accounts : plans[x] # "none" => x = engine.acct
            BY <2>1, <2>3, InHandAlone
        <3>3. QED
            BY <2>1, <2>2, <2>3, <3>1, <3>2 DEF OverInv
    <2>4. CASE engine.gen # reg.gen
        BY <2>1, <2>2, <2>4 DEF OverInv
    <2>5. QED
        BY <2>3, <2>4
<1>10. CASE EngineClearState
    <2>1. /\ engine.pc = "clearState" /\ UNCHANGED <<plans, reg>>
          /\ engine' = [engine EXCEPT !.pc = "clearPlan"]
        BY <1>10 DEF EngineClearState, ghosts
    <2>2. QED
        BY <2>1 DEF OverInv
<1>11. CASE EngineClearPlan
    <2>1. /\ engine.pc = "clearPlan" /\ UNCHANGED reg
          /\ plans' = [plans EXCEPT ![engine.acct] = "none"]
          /\ engine' = [engine EXCEPT !.pc = "send"]
        BY <1>11 DEF EngineClearPlan, Removed, ghosts
    <2>2. reg.over > 0 => \A x \in Accounts : plans'[x] = "none"
        BY <2>1 DEF OverInv
    <2>3. QED
        BY <2>1, <2>2 DEF OverInv
<1>12. CASE EngineSend \/ EngineNext
    <2>1. /\ UNCHANGED <<plans, reg>> /\ engine.pc = "send" /\ engine'.gen = engine.gen
          /\ engine'.todo = engine.todo /\ engine'.pc \in {"send", "pick"}
          /\ engine'.sends \subseteq engine.sends
        <3>1. CASE EngineSend
            BY <3>1 DEF EngineSend, Dispatching, store
        <3>2. CASE EngineNext
            <4>1. engine'.sends = {}
                BY <3>2 DEF EngineNext, Skip
            <4>2. QED
                BY <3>2, <4>1 DEF EngineNext, Skip, store, ghosts
        <3>3. QED
            BY <1>12, <3>1, <3>2
    <2>2. QED
        BY <2>1 DEF OverInv
<1>13. QED
    BY <1>3, <1>4, <1>5, <1>7, <1>8, <1>9, <1>10, <1>11, <1>12 DEF EngineTick

LEMMA OverStep ==
    ASSUME SpineInv, OverInv, [Next]_vars, Removed
    PROVE  OverInv'
<1>1. ~Crash
    BY DEF Crash, Removed
<1>2. CASE UNCHANGED <<plans, engine, reg>>
    BY <1>2 DEF OverInv, InTick, Finishing
<1>3. QED
    BY <1>1, <1>2, AroundTick, OverWeb, OverEngine DEF SpineInv

\* Once a bar has ended a plan, nothing after that bar enters for it, whatever
\* fails beside the removal of its row, on whatever account and through any
\* request: as long as the process lives, the finished plan is never listed again.
THEOREM FinishedPlansStayFinished == Removed => (Spec => []FinishedStaysFinished)
<1> SUFFICES ASSUME Removed PROVE Spec => []FinishedStaysFinished
    OBVIOUS
<1>1. Init => OverInv
    <2> SUFFICES ASSUME Init PROVE OverInv
        OBVIOUS
    <2>1. reg.over = 0 /\ engine.pc = "idle"
        BY IdleTick DEF Init, NoPlan
    <2>2. QED
        BY <2>1 DEF OverInv
<1>2. OverInv => FinishedStaysFinished
    BY DEF OverInv, FinishedStaysFinished, Dispatching, InTick
<1>3. SpineInv /\ OverInv /\ [Next]_vars => OverInv'
    BY OverStep
<1>4. QED
    BY <1>1, <1>2, <1>3, SpineAlways, PTL DEF Spec

-----------------------------------------------------------------------------
(* First ticks.  A row exists only beside its plan, and a watermark only    *)
(* where the registration has been seeded: so a registration that has not   *)
(* been seeded is read without one, and has nothing in hand to dispatch.    *)
SeedInv ==
    /\ \A x \in Accounts : plans[x] = "none" => states[x] = NoRow
    /\ \A x \in Accounts : states[x] > 0 => reg.seeded
    /\ engine.pc \in {"journal", "put", "insert"} /\ ~engine.seed => reg.seeded
    /\ engine.pc \in Holding /\ engine.sends # {} /\ engine.gen = reg.gen => reg.seeded

LEMMA SeedWeb ==
    ASSUME SpineInv, TickInv, SeedInv, WebServe, Orderly
    PROVE  SeedInv'
<1>1. /\ UNCHANGED engine /\ engine \in EngineRecord /\ StoreType /\ WebEffect /\ CopyInv
      /\ reg \in RegRecord /\ web \in WebRecord /\ web.op # "delete"
      /\ (engine.pc \in Holding => engine.acct \in Accounts)
    BY TypeParts, WebEffects, WebOnLock, SpineAssumption
       DEF SpineInv, CopyInv, TypeInv, EngineShape, WebShape, WebRecord, Orderly
<1> USE <1>1 DEF StoreType
<1>2. CASE NoChange
    BY <1>2 DEF NoChange, store, SeedInv
<1>3. ASSUME NEW a \in Accounts, NEW mode \in Modes, Registers(a, mode) PROVE SeedInv'
    <2>1. /\ UNCHANGED states /\ plans' = [plans EXCEPT ![a] = mode]
          /\ \A x \in Accounts : x # a => plans[x] = "none"
        BY <1>3 DEF Registers
    <2>2. \A x \in Accounts : plans'[x] = "none" => plans[x] = "none"
        BY <2>1 DEF Modes
    <2>3. CASE plans[a] # "none"
        BY <1>3, <2>1, <2>2, <2>3 DEF Registers, SeedInv
    <2>4. CASE plans[a] = "none"
        <3>1. reg' = [NoPlan EXCEPT !.gen = reg.gen + 1]
            BY <1>3, <2>4 DEF Registers
        <3>2. reg'.gen = reg.gen + 1
            BY <3>1 DEF NoPlan
        <3>3. engine.gen # reg'.gen
            BY <3>2 DEF CopyInv, EngineRecord, RegRecord
        <3>4. \A x \in Accounts : states[x] = NoRow
            BY <2>1, <2>4 DEF SeedInv
        <3>5. engine.pc \notin {"journal", "put", "insert"}
            BY <2>1, <2>4 DEF TickInv, InHand, Holding
        <3>6. QED
            BY <2>1, <2>2, <3>3, <3>4, <3>5 DEF SeedInv, NoRow
    <2>5. QED
        BY <2>3, <2>4
<1>4. ASSUME NEW a \in Accounts, NEW b \in Accounts, NEW mode \in Modes, Moves(a, b, mode)
      PROVE  SeedInv'
    <2>1. /\ ~InTick /\ a # b /\ Homes = {a}
          /\ plans' = [plans EXCEPT ![a] = "none", ![b] = mode]
          /\ states' = [states EXCEPT ![a] = NoRow, ![b] = SwitchState(states[a])]
        BY <1>4 DEF Moves
    <2>2. (reg.seeded => reg'.seeded) /\ (states[a] # NoRow => reg'.seeded)
        <3> DEFINE s == reg.seeded \/ states[a] # NoRow
                   d == IF states[a] = NoRow THEN 0 ELSE web.now + 2
        <3>1. reg' = [reg EXCEPT !.seeded = s, !.due = d]
            BY <1>4 DEF Moves
        <3> HIDE DEF s, d
        <3>2. reg'.seeded = s
            BY <3>1 DEF RegRecord
        <3>3. QED
            BY <3>2 DEF s
    <2>3. \A x \in Accounts : x \notin {a, b} => states'[x] = NoRow
        BY <2>1 DEF Homes, SeedInv
    <2>4. states'[a] = NoRow /\ plans'[b] # "none" /\ states'[b] = SwitchState(states[a])
        BY <2>1 DEF Modes
    <2>5. states'[b] > 0 => reg'.seeded
        BY <2>2, <2>4 DEF SwitchState, NoRow
    <2>6. engine.pc \notin Holding
        BY <2>1 DEF InTick, Holding
    <2>7. QED
        BY <2>3, <2>4, <2>5, <2>6 DEF SeedInv, Holding, NoRow
<1>5. ASSUME NEW a \in Accounts, Closes(a) PROVE SeedInv'
    <2>1. /\ UNCHANGED reg /\ states' = [states EXCEPT ![a] = NoRow]
          /\ \A x \in Accounts : x # a => plans[x] = "none"
        BY <1>5 DEF Closes
    <2>2. \A x \in Accounts : states'[x] = NoRow
        BY <2>1 DEF SeedInv
    <2>3. QED
        BY <2>1, <2>2 DEF SeedInv, NoRow
<1>6. ~Deletes
    BY DEF Deletes, WebDelete, WebDeletePlan, WebDeleteState, WebDeleteArchive, Serving,
       SpineInv, TypeInv, WebShape
<1>7. QED
    BY <1>2, <1>3, <1>4, <1>5, <1>6 DEF WebEffect, Deletes

LEMMA SeedEngine ==
    ASSUME SpineInv, TickInv, SeedInv, EngineTick
    PROVE  SeedInv'
<1>1. /\ engine \in EngineRecord /\ StoreType /\ TypeInv /\ CopyInv /\ reg \in RegRecord
      /\ MaxBars \in Nat
      /\ (engine.pc \in Holding => engine.acct \in Accounts)
    BY TypeParts, SpineAssumption DEF SpineInv, TypeInv, EngineShape, CopyInv
<1> USE <1>1 DEF StoreType, EngineRecord, Holding
<1>2. ASSUME UNCHANGED <<plans, states>>, reg'.seeded = reg.seeded, reg'.gen = reg.gen,
             engine'.pc \in {"journal", "put", "insert"} /\ ~engine'.seed => reg.seeded,
             engine'.pc \in Holding /\ engine'.sends # {} /\ engine'.gen = reg.gen => reg.seeded
      PROVE  SeedInv'
    BY <1>2 DEF SeedInv
<1>3. CASE EngineAsk \/ EngineDone
    <2>1. engine' = Idle \/ \E n : engine' = [Idle EXCEPT !.pc = "list", !.now = n]
        BY <1>3 DEF EngineAsk, EngineDone
    <2>2. engine'.pc \in {"idle", "list"}
        BY <2>1, IdleTick
    <2>3. UNCHANGED <<plans, states, reg>>
        BY <1>3 DEF EngineAsk, EngineDone, store, ghosts
    <2>4. QED
        BY <1>2, <2>2, <2>3
<1>4. CASE EngineList
    BY <1>2, <1>4 DEF EngineList, store, ghosts
<1>5. ASSUME NEW x \in Accounts, EngineRead(x) PROVE SeedInv'
    <2>1. UNCHANGED <<plans, states, reg>>
        BY <1>5 DEF EngineRead, EngineSeed, EngineEvaluate, EnginePass, EngineControls, store, ghosts
    <2>2. CASE EngineSeed(x)
        BY <1>2, <2>1, <2>2 DEF EngineSeed
    <2>3. CASE EngineEvaluate(x) \/ EngineControls(x)
        <3>1. states[x] > 0
            BY <2>3 DEF EngineEvaluate, EngineControls, FirstTick, NoRow
        <3>2. reg.seeded
            BY <3>1 DEF SeedInv
        <3>3. QED
            BY <1>2, <2>1, <3>2
    <2>4. CASE EnginePass(x)
        BY <1>2, <2>1, <2>4 DEF EnginePass, Picked
    <2>5. QED
        BY <1>5, <2>2, <2>3, <2>4 DEF EngineRead
<1>6. CASE EngineJournal
    <2>1. /\ UNCHANGED <<plans, states, reg>> /\ engine.pc = "journal" /\ engine'.gen = engine.gen
          /\ engine'.sends \in {engine.sends, {}} /\ engine'.pc \in {"archive", "put", "pick"}
          /\ engine'.seed = engine.seed
        BY <1>6 DEF EngineJournal, Skip, store
    <2>2. QED
        BY <1>2, <2>1 DEF SeedInv
<1>7. CASE EnginePutDelete
    <2>1. /\ engine.pc = "put" /\ UNCHANGED <<plans, reg>> /\ engine'.gen = engine.gen
          /\ states' = [states EXCEPT ![engine.acct] = NoRow] \/ states' = states
          /\ engine'.sends \in {engine.sends, {}} /\ engine'.pc \in {"insert", "pick"}
          /\ engine'.seed = engine.seed
        BY <1>7 DEF EnginePutDelete, Skip, ghosts
    <2>2. QED
        BY <2>1 DEF SeedInv, NoRow
<1>8. CASE EnginePutInsert
    <2>1. /\ engine.pc = "insert" /\ UNCHANGED plans /\ engine'.gen = engine.gen
          /\ engine'.pc \in {"send", "pick"} /\ engine'.sends \in {engine.sends, {}}
          /\ \/ UNCHANGED <<states, reg>>
             \/ reg' = Advanced /\ states' = [states EXCEPT ![engine.acct] = engine.upTo]
        BY <1>8 DEF EnginePutInsert, Skip
    <2>2. engine.gen = reg.gen /\ plans[engine.acct] # "none"
        BY <2>1 DEF TickInv, InHand
    <2>3. CASE UNCHANGED <<states, reg>>
        BY <1>2, <2>1, <2>3 DEF SeedInv
    <2>4. CASE reg' = Advanced /\ states' = [states EXCEPT ![engine.acct] = engine.upTo]
        <3> DEFINE s == reg.seeded \/ (engine.seed /\ engine.upTo > 0)
                   d == IF engine.upTo = 0 THEN 0 ELSE engine.upTo + 1
                   k == reg.skipped \/ (engine.seed /\ reg.due \in 1..engine.upTo)
        <3>1. reg' = [reg EXCEPT !.seeded = s, !.due = d, !.skipped = k]
            BY <2>2, <2>4 DEF Advanced
        <3> HIDE DEF s, d, k
        <3>2. reg'.seeded = s /\ reg'.gen = reg.gen
            BY <3>1 DEF RegRecord
        <3> USE DEF s
        <3>3. reg.seeded => reg'.seeded
            BY <3>2
        <3>4. engine.upTo > 0 => reg'.seeded
            BY <2>1, <3>2 DEF SeedInv
        <3>5. \A x \in Accounts : states'[x] > 0 => reg'.seeded
            BY <2>4, <3>3, <3>4 DEF SeedInv
        <3>6. \A x \in Accounts : plans'[x] = "none" => states'[x] = NoRow
            BY <2>1, <2>2, <2>4 DEF SeedInv
        <3>7. QED
            BY <2>1, <3>2, <3>3, <3>5, <3>6 DEF SeedInv
    <2>5. QED
        BY <2>1, <2>3, <2>4
<1>9. CASE EngineArchive
    <2>1. /\ UNCHANGED <<plans, states>> /\ engine.pc = "archive"
          /\ engine' = [engine EXCEPT !.pc = "clearState"]
          /\ reg' = IF engine.gen = reg.gen THEN [reg EXCEPT !.over = engine.upTo] ELSE reg
        BY <1>9 DEF EngineArchive
    <2>2. reg'.seeded = reg.seeded /\ reg'.gen = reg.gen
        BY <2>1 DEF RegRecord
    <2>3. QED
        BY <1>2, <2>1, <2>2 DEF SeedInv
<1>10. CASE EngineClearState
    <2>1. /\ engine.pc = "clearState" /\ UNCHANGED <<plans, reg>>
          /\ states' = [states EXCEPT ![engine.acct] = NoRow] \/ states' = states
          /\ engine' = [engine EXCEPT !.pc = "clearPlan"]
        BY <1>10 DEF EngineClearState, ghosts
    <2>2. QED
        BY <2>1 DEF SeedInv, NoRow
<1>11. CASE EngineClearPlan
    <2>1. /\ engine.pc = "clearPlan" /\ UNCHANGED <<states, reg>>
          /\ plans' = [plans EXCEPT ![engine.acct] = "none"] \/ plans' = plans
          /\ engine' = [engine EXCEPT !.pc = "send"]
        BY <1>11 DEF EngineClearPlan, ghosts
    <2>2. states[engine.acct] = NoRow
        BY <2>1 DEF TickInv
    <2>3. QED
        BY <2>1, <2>2 DEF SeedInv
<1>12. CASE EngineSend \/ EngineNext
    <2>1. /\ UNCHANGED <<plans, states, reg>> /\ engine.pc = "send" /\ engine'.gen = engine.gen
          /\ engine'.pc \in {"send", "pick"} /\ (engine'.sends # {} => engine.sends # {})
        BY <1>12 DEF EngineSend, EngineNext, Dispatching, Skip, store, ghosts
    <2>2. QED
        BY <1>2, <2>1 DEF SeedInv
<1>13. QED
    BY <1>3, <1>4, <1>5, <1>6, <1>7, <1>8, <1>9, <1>10, <1>11, <1>12 DEF EngineTick

LEMMA SeedStep ==
    ASSUME SpineInv, TickInv, SeedInv, [Next]_vars, Orderly
    PROVE  SeedInv'
<1>1. CASE UNCHANGED <<plans, states, engine, reg>>
    BY <1>1 DEF SeedInv
<1>2. CASE engine' = Idle /\ UNCHANGED <<plans, states, reg>>
    <2>1. engine'.pc = "idle"
        BY <1>2, IdleTick
    <2>2. QED
        BY <1>2, <2>1 DEF SeedInv, Holding
<1>3. QED
    BY <1>1, <1>2, AroundTick, SeedWeb, SeedEngine DEF SpineInv

\* The tick that meets a registration for the first time seeds its watermark and
\* dispatches nothing, through crashes, failed writes, moves and closes: whatever
\* is dispatched for a registration was evaluated against a watermark it was given.
THEOREM FirstTicksFireNothing == Orderly => (Spec => []FirstTickFiresNothing)
<1> SUFFICES ASSUME Orderly PROVE Spec => []FirstTickFiresNothing
    OBVIOUS
<1>1. Init => TickInv /\ SeedInv
    <2> SUFFICES ASSUME Init PROVE TickInv /\ SeedInv
        OBVIOUS
    <2>1. engine.pc = "idle" /\ engine.todo = {} /\ engine.gen = 0 /\ reg.gen = 1
        BY IdleTick DEF Init, NoPlan
    <2>2. TickInv
        BY <2>1 DEF Init, TickInv, OneHome, InHand
    <2>3. SeedInv
        BY <2>1 DEF Init, SeedInv, Holding, NoRow
    <2>4. QED
        BY <2>2, <2>3
<1>2. SeedInv => FirstTickFiresNothing
    BY DEF SeedInv, FirstTickFiresNothing, Dispatching, Holding
<1>3. SpineInv /\ TickInv /\ [Next]_vars => TickInv'
    BY TickStep DEF SpineInv
<1>4. SpineInv /\ TickInv /\ SeedInv /\ [Next]_vars => SeedInv'
    BY SeedStep
<1>5. QED
    BY <1>1, <1>2, <1>3, <1>4, SpineAlways, PTL DEF Spec

=============================================================================
