------------------------ MODULE AccountBootstrap_proofs ------------------------
(***************************************************************************)
(* The first requests of an installation, for any number of cycles, audits *)
(* and operators that create the account at the same time, before, during  *)
(* and after others trade on it.                                           *)
(*                                                                         *)
(* The reason the risk row is safe: its SELECT follows the upsert of the   *)
(* balance, whose lock is held until the commit.  Whoever finds no risk    *)
(* row therefore holds the only balance that will be committed first, and  *)
(* both rows become visible at once.  AccountOf says this at every label.  *)
(*                                                                         *)
(* The balance is safe from everyone who comes later, because only a SELECT*)
(* that found no row leads to its upsert.  FirstOK says who is left.       *)
(***************************************************************************)
EXTENDS AccountBootstrap, TradingCycle_proofs

AccountOf(p) ==
    /\ boot[p] = "idle" => pc[p] = "idle" /\ tx[p] = NoWrites
    /\ boot[p] \in BootSteps => pc[p] \in {"idle", "hold", "quote"}
    /\ boot[p] \in BootSteps /\ tx[p].risk # None => boot[p] = "finish" /\ rows = {}
    /\ boot[p] = "insertRisk" => rows = {}
    /\ boot[p] \in {"readRisk", "insertRisk", "finish"} /\ rows = {} => tx[p].cash # None
    /\ boot[p] = "finish" /\ rows = {} => tx[p].risk # None
    /\ boot[p] = "ready" /\ pc[p] # "done" /\ p \notin Admins => rows # {}
    /\ boot[p] = "ready" /\ pc[p] = "quote" => tx[p] = NoWrites
    /\ boot[p] = "ready" /\ rows = {} /\ pc[p] \in {"adminSave", "adminCommit"} =>
          tx[p].cash # None /\ tx[p].risk # None

\* The lock of the one balance row.
OneWriter == \A p, q \in Procs : p # q => tx[p].cash = None \/ tx[q].cash = None

AccountInv ==
    /\ TypeInv
    /\ boot \in [Procs -> BootSteps \cup {"idle", "ready"}]
    /\ early \subseteq Procs
    /\ rows \in {{}, {"balance", "risk"}}
    /\ OneWriter
    /\ \A p \in Procs : AccountOf(p)

LEMMA AccountInit == BootInit => AccountInv
<1> SUFFICES ASSUME BootInit PROVE AccountInv
    OBVIOUS
<1>1. TypeInv
    BY TypeInit DEF BootInit
<1>2. \A p \in Procs : pc[p] = "idle" /\ tx[p] = NoWrites /\ boot[p] = "idle"
    BY DEF BootInit, Init
<1> QED BY <1>1, <1>2 DEF AccountInv, BootInit, OneWriter, AccountOf, BootSteps, NoWrites

-------------------------------------------------------------------------------
\* What TradingCycle's steps of a request that is being served do to the rows
\* of ensure_initialized.
Served(p) ==
    /\ \A q \in Procs \ {p} : pc'[q] = pc[q] /\ tx'[q] = tx[q]
    /\ pc[p] # "done" /\ pc'[p] \notin {"idle", "hold", "quote", "adminSave"}
    /\ tx'[p].cash # None => \/ tx[p].cash # None
                             \/ \A q \in Procs \ {p} : tx[q].cash = None
    /\ pc'[p] = "adminCommit" => /\ pc[p] = "adminSave" /\ tx'[p].cash = tx[p].cash
                                 /\ tx'[p].risk # None

LEMMA EndServes ==
    ASSUME TypeInv, NEW p \in Procs, NEW there \in {"done", "checkFill", "listFills"},
           pc[p] # "done", pc' = [pc EXCEPT ![p] = there],
           tx' = [tx EXCEPT ![p] = NoWrites]
    PROVE  Served(p)
BY DEF TypeInv, TypeOK, Served, NoWrites

LEMMA ReadServes ==
    ASSUME TypeInv, NEW p \in Procs, NEW there \in Labels,
           there \notin {"idle", "hold", "quote", "adminSave", "adminCommit"},
           pc[p] # "done", pc' = [pc EXCEPT ![p] = there], tx' = tx
    PROVE  Served(p)
BY DEF TypeInv, TypeOK, Served

LEMMA WriteServes ==
    ASSUME TypeInv, NEW p \in Procs, NEW there \in Labels, NEW w,
           there \notin {"idle", "hold", "quote", "adminSave", "adminCommit"},
           pc[p] # "done", pc' = [pc EXCEPT ![p] = there],
           tx' = [tx EXCEPT ![p] = w], w.cash = tx[p].cash
    PROVE  Served(p)
BY DEF TypeInv, TypeOK, Served

LEMMA EvaluationServes ==
    ASSUME TypeInv, NEW p \in Procs, Evaluation(p)
    PROVE  Served(p)
<1> USE DEF TypeInv, TypeOK
<1>1. CASE CycleHold(p)
    BY <1>1, EndServes DEF CycleHold, Step, Commit
<1>2. CASE GetTicker(p) \/ GetBalance(p) \/ GetPosition(p) \/ LatestSnapshot(p)
    BY <1>2, ReadServes DEF GetTicker, GetBalance, GetPosition, LatestSnapshot, Step, Labels, CycleSteps
<1>3. CASE QuoteUnavailable(p)
    BY <1>3, ReadServes DEF QuoteUnavailable, Step, Labels
<1>4. CASE EvaluateRisk(p)
    <2>1. pc[p] # "done" /\ tx' = tx
          /\ \E there \in {"createIntent", "saveDayReset"} : pc' = [pc EXCEPT ![p] = there]
        BY <1>4 DEF EvaluateRisk, Step
    <2> QED BY <2>1, ReadServes DEF Labels, CycleSteps
<1>5. CASE SaveDayReset(p)
    BY <1>5 DEF SaveDayReset, Step, Served
<1>6. CASE CreateIntent(p)
    <2>1. pc[p] # "done" /\ pc' = [pc EXCEPT ![p] = "commitIntent"]
        BY <1>6 DEF CreateIntent, Step
    <2>2. CASE tx' = tx
        BY <2>1, <2>2, ReadServes DEF Labels, CycleSteps
    <2>3. CASE tx' = [tx EXCEPT ![p].intent = NewIntent(p)]
        BY <2>1, <2>3 DEF Served
    <2> QED BY <1>6, <2>2, <2>3 DEF CreateIntent
<1>7. CASE IdempotencyConflict(p)
    BY <1>7, EndServes DEF IdempotencyConflict, Step, Rollback
<1>8. CASE CommitIntent(p)
    <2>1. pc[p] # "done" /\ tx' = [tx EXCEPT ![p] = NoWrites]
          /\ \E there \in {"checkFill", "done"} : pc' = [pc EXCEPT ![p] = there]
        BY <1>8 DEF CommitIntent, Step, Commit
    <2> QED BY <2>1, EndServes
<1> QED BY <1>1, <1>2, <1>3, <1>4, <1>5, <1>6, <1>7, <1>8 DEF Evaluation

LEMMA ExecutionServes ==
    ASSUME TypeInv, NEW p \in Procs, Execution(p)
    PROVE  Served(p)
<1> USE DEF TypeInv, TypeOK
<1>1. CASE CheckFill(p) \/ CheckSystemState(p)
    <2>1. pc[p] # "done" /\ tx' = tx
          /\ \E there \in {"commitExecution", "checkState", "execBalance", "failed"} :
                pc' = [pc EXCEPT ![p] = there]
        BY <1>1 DEF CheckFill, CheckSystemState, Step
    <2> QED BY <2>1, ReadServes DEF Labels, CycleSteps
<1>2. CASE ExecBalance(p) \/ ExecPosition(p) \/ ReadRisk(p)
    <2>1. pc[p] # "done" /\ tx' = tx
          /\ \E there \in {"execPosition", "insertFill", "failed", "saveRisk"} :
                pc' = [pc EXCEPT ![p] = there]
        BY <1>2 DEF ExecBalance, ExecPosition, ReadRisk, Step
    <2> QED BY <2>1, ReadServes DEF Labels, CycleSteps
<1>3. CASE InsertFill(p)
    BY <1>3 DEF InsertFill, Step, Served
<1>4. CASE SetBalance(p)
    <2>1. \A q \in Procs \ {p} : tx[q].cash = None
        BY <1>4 DEF SetBalance, Step, Free, WaitsFor, Holds, NextTable
    <2> QED BY <1>4, <2>1 DEF SetBalance, Step, Served
<1>5. CASE UpsertPosition(p)
    BY <1>5 DEF UpsertPosition, Step, Served
<1>6. CASE FinalizeIntent(p)
    BY <1>6 DEF FinalizeIntent, Step, Served
<1>7. CASE SaveRisk(p)
    BY <1>7 DEF SaveRisk, Step, Served
<1>8. CASE CommitExecution(p)
    BY <1>8, EndServes DEF CommitExecution, Step, Commit
<1>9. CASE ExecutionFailed(p)
    BY <1>9, EndServes DEF ExecutionFailed, Step, Rollback
<1> QED BY <1>1, <1>2, <1>3, <1>4, <1>5, <1>6, <1>7, <1>8, <1>9 DEF Execution

LEMMA ServedStep ==
    ASSUME TypeInv, NEW p \in Procs, Proceed(p) \/ Crash(p)
    PROVE  Served(p)
<1> USE DEF TypeInv, TypeOK
<1>1. CASE Reconciliation(p)
    <2>1. CASE ListFills(p) \/ ListBalances(p)
        BY <2>1, ReadServes DEF ListFills, ListBalances, Step, Labels, ReconcileSteps
    <2>2. CASE ListPositions(p) \/ ReadRiskToKill(p)
        <3>1. pc[p] # "done" /\ tx' = tx
              /\ \E there \in {"commitReport", "killRead", "saveKilled"} :
                    pc' = [pc EXCEPT ![p] = there]
            BY <2>2 DEF ListPositions, ReadRiskToKill, Step
        <3> QED BY <3>1, ReadServes DEF Labels, ReconcileSteps
    <2>3. CASE SaveKilled(p)
        BY <2>3 DEF SaveKilled, Step, Served
    <2>4. CASE CommitReport(p)
        BY <2>4, EndServes DEF CommitReport, Step, Commit
    <2> QED BY <1>1, <2>1, <2>2, <2>3, <2>4 DEF Reconciliation
<1>2. CASE AdminSave(p)
    <2>1. loc[p].risk \in RiskState /\ loc[p].risk # None
        BY <1>2, NoneIsNoRow DEF AdminSave, Step, LocalsOK
    <2>2. tx[p] \in Writes
        OBVIOUS
    <2>3. tx'[p].risk = loc[p].risk /\ tx'[p].cash = tx[p].cash
        BY <1>2, <2>2 DEF AdminSave, Writes
    <2> QED BY <1>2, <2>1, <2>3 DEF AdminSave, Step, Served
<1>3. CASE AdminCommit(p)
    BY <1>3, EndServes DEF AdminCommit, Step, Commit
<1>4. CASE DeadlockVictim(p)
    <2>1. pc[p] # "done"
        BY <1>4 DEF DeadlockVictim, WaitsFor, NextTable
    <2> QED BY <1>4, <2>1, EndServes DEF DeadlockVictim, Rollback
<1>5. CASE Crash(p)
    BY <1>5, EndServes DEF Crash, Rollback
<1> QED BY <1>1, <1>2, <1>3, <1>4, <1>5, EvaluationServes, ExecutionServes
    DEF Proceed, Administration

-------------------------------------------------------------------------------
(***************************************************************************)
(* Types.                                                                  *)
(***************************************************************************)
LEMMA ServeType ==
    ASSUME TypeInv, NEW p \in Procs, Proceed(p) \/ Crash(p)
    PROVE  TypeInv'
<1>1. CASE Evaluation(p)
    BY <1>1, EvaluationType
<1>2. CASE Execution(p)
    BY <1>2, ExecutionType
<1>3. CASE Reconciliation(p)
    BY <1>3, ReconciliationType
<1>4. CASE Administration(p)
    BY <1>4, AdministrationType
<1>5. CASE DeadlockVictim(p)
    BY <1>5, AbortType DEF DeadlockVictim, Outcomes
<1>6. CASE Crash(p)
    BY <1>6, AbortType DEF Crash, Outcomes
<1> QED BY <1>1, <1>2, <1>3, <1>4, <1>5, <1>6 DEF Proceed

LEMMA ReceiveType ==
    ASSUME AccountInv, NEW p \in Procs,
           \/ p \in Requests /\ ReceiveCycle(p)
           \/ ReceiveOther(p)
    PROVE  TypeInv'
<1>1. CASE p \in Requests /\ ReceiveCycle(p)
    BY <1>1, ArrivalType DEF AccountInv, ReceiveCycle
<1>2. CASE ReceiveOther(p)
    <2>1. TypeInv /\ TypeOK /\ pc[p] = "idle" /\ loc[p] \in Locals
        BY <1>2 DEF AccountInv, AccountOf, ReceiveOther, BootStep, TypeInv, TypeOK
    <2>2. PICK t \in (clock + 1)..MaxClock : clock' = t /\ loc' = [loc EXCEPT ![p].now = t]
        BY <1>2 DEF ReceiveOther
    <2>3. clock' \in 0..MaxClock /\ t \in Nat
        BY <2>1, <2>2, CycleConstants DEF TypeOK
    <2>4. loc' \in [Procs -> Locals] /\ loc' = [loc EXCEPT ![p] = loc'[p]]
        BY <2>1, <2>2, <2>3 DEF TypeOK, Locals
    <2>5. UNCHANGED <<db, pc, tx>>
        BY <1>2 DEF ReceiveOther
    <2>6. TypeOK'
        BY <2>1, <2>3, <2>4, <2>5 DEF TypeOK, TablesOK, db
    <2>7. Alone(p) /\ LocalsOK(p)'
        BY <2>1, <2>4, <2>5 DEF TypeOK, db, Alone, LocalsOK, CycleSteps, Paying
    <2> QED BY <2>1, <2>6, <2>7, OneStep
<1> QED BY <1>1, <1>2

LEMMA InsertType ==
    ASSUME AccountInv, NEW p \in Procs, InsertBalance(p) \/ InsertRisk(p)
    PROVE  TypeInv'
<1>1. TypeInv /\ TypeOK /\ LocalsOK(p) /\ loc[p] \in Locals /\ tx[p] \in Writes
    BY DEF AccountInv, TypeInv, TypeOK
<1>2. InitialCash \in Nat /\ FreshRiskState(Day(loc[p].now), InitialCash) \in RiskState
    <2>1. loc[p].now \in Nat /\ TicksPerDay \in Nat /\ TicksPerDay > 0 /\ InitialCash \in Nat
        BY <1>1, CycleConstants DEF Locals
    <2>2. Day(loc[p].now) \in Nat
        BY <2>1, QuotientIsNat DEF Day
    <2> QED BY <2>1, <2>2 DEF FreshRiskState, RiskState, SystemStates
<1>3. /\ tx' \in [Procs -> Writes] /\ tx' = [tx EXCEPT ![p] = tx'[p]]
      /\ tx'[p].intent = tx[p].intent
    <2>1. CASE InsertBalance(p)
        BY <1>1, <1>2, <2>1 DEF InsertBalance, TypeOK, Writes
    <2>2. CASE InsertRisk(p)
        BY <1>1, <1>2, <2>2 DEF InsertRisk, TypeOK, Writes
    <2> QED BY <2>1, <2>2
<1>4. UNCHANGED <<db, clock, pc, loc>>
    BY DEF InsertBalance, InsertRisk
<1>5. TypeOK' /\ Alone(p)
    BY <1>1, <1>3, <1>4 DEF TypeOK, TablesOK, db, Alone
<1>6. LocalsOK(p)'
    BY <1>1, <1>3, <1>4 DEF LocalsOK, db, Side, Qty, Price
<1> QED BY <1>1, <1>5, <1>6, OneStep

LEMMA CommitType ==
    ASSUME AccountInv, NEW p \in Procs, CommitAccount(p)
    PROVE  TypeInv'
<1>1. TypeInv /\ TypeOK /\ LocalsOK(p) /\ pc[p] \in {"idle", "hold", "quote"}
    BY DEF AccountInv, AccountOf, TypeInv, CommitAccount, BootStep, BootSteps
<1>2. /\ TablesOK' /\ tx' \in [Procs -> Writes] /\ tx' = [tx EXCEPT ![p] = tx'[p]]
      /\ \A o \in Orders : intents[o] # None => intents'[o] # None
    BY <1>1, CommitIsTables DEF CommitAccount
<1>3. /\ UNCHANGED <<clock, loc>> /\ pc' = [pc EXCEPT ![p] = pc'[p]]
      /\ pc'[p] \in {pc[p], "listFills"} /\ pc' \in [Procs -> Labels]
    BY <1>1 DEF CommitAccount, TypeOK, Labels, ReconcileSteps
<1>4. TypeOK' /\ Alone(p)
    BY <1>1, <1>2, <1>3 DEF TypeOK, Alone
<1>5. LocalsOK(p)'
    BY <1>1, <1>3 DEF LocalsOK, CycleSteps, Paying
<1> QED BY <1>1, <1>4, <1>5, OneStep

LEMMA TransitionType ==
    ASSUME AccountInv, NEW p \in Procs, AdminTransition(p)
    PROVE  TypeInv'
<1> DEFINE current == IF tx[p].risk = None THEN risk ELSE tx[p].risk
<1>1. TypeInv /\ TypeOK /\ LocalsOK(p) /\ loc[p] \in Locals
    BY DEF AccountInv, TypeInv, TypeOK
<1>2. current \in RiskState
    BY <1>1 DEF TypeOK, TablesOK, Writes
<1>3. PICK c \in AdminCommands :
          IF current.sys \in AllowedFrom[c]
          THEN /\ Step(p, "idle", "adminSave")
               /\ loc' = [loc EXCEPT ![p].risk = [current EXCEPT !.sys = Target[c]]]
               /\ UNCHANGED tx
          ELSE /\ Step(p, "idle", "done")
               /\ Rollback(p)
               /\ Answer(p, "conflict")
    BY DEF AdminTransition
<1>4. UNCHANGED <<db, clock>>
    BY DEF AdminTransition
<1>5. CASE current.sys \in AllowedFrom[c]
    <2> DEFINE moved == [current EXCEPT !.sys = Target[c]]
    <2>1. Target[c] \in SystemStates
        BY CycleConstants DEF Target, SystemStates
    <2>2. moved \in RiskState
        BY <1>2, <2>1 DEF RiskState
    <2>3. /\ loc' = [loc EXCEPT ![p].risk = moved] /\ tx' = tx
          /\ pc' = [pc EXCEPT ![p] = "adminSave"]
        BY <1>3, <1>5 DEF Step
    <2> HIDE DEF moved
    <2>4. loc' \in [Procs -> Locals] /\ loc'[p].risk = moved
        BY <1>1, <2>2, <2>3 DEF TypeOK, Locals
    <2>5. TypeOK'
        BY <1>1, <1>4, <2>3, <2>4 DEF TypeOK, TablesOK, db, Labels, AdminSteps
    <2>6. Alone(p)
        BY <1>1, <1>4, <2>3, <2>4 DEF TypeOK, db, Alone
    <2>7. LocalsOK(p)'
        BY <1>1, <2>2, <2>3, <2>4 DEF TypeOK, LocalsOK, CycleSteps, Paying
    <2> QED BY <1>1, <2>5, <2>6, <2>7, OneStep
<1>6. CASE current.sys \notin AllowedFrom[c]
    <2>1. /\ Answer(p, "conflict") /\ Rollback(p) /\ "conflict" \in Outcomes
          /\ pc' = [pc EXCEPT ![p] = "done"]
        BY <1>3, <1>6 DEF Step, Outcomes
    <2> QED BY <1>1, <1>4, <2>1, AbortType
<1> QED BY <1>5, <1>6

LEMMA BootTypes == AccountInv /\ [BootNext]_allvars => TypeInv'
<1> SUFFICES ASSUME AccountInv, [BootNext]_allvars PROVE TypeInv'
    OBVIOUS
<1>1. ASSUME NEW p \in Procs, BootCrash(p) PROVE TypeInv'
    BY <1>1, AbortType DEF AccountInv, BootCrash, Outcomes
<1>2. ASSUME NEW p \in Procs, ReadBalance(p) \/ ReadRiskRow(p) PROVE TypeInv'
    BY <1>2, TypeStutter DEF AccountInv, ReadBalance, ReadRiskRow
<1>3. ASSUME NEW p \in Procs, Serve(p) PROVE TypeInv'
    BY <1>3, ServeType DEF AccountInv, Serve
<1>4. CASE Quiet \/ UNCHANGED allvars
    BY <1>4, TypeStutter DEF AccountInv, Quiet, allvars
<1> QED BY <1>1, <1>2, <1>3, <1>4, ReceiveType, InsertType, CommitType, TransitionType
    DEF BootNext, Procs

-------------------------------------------------------------------------------
(***************************************************************************)
(* The two rows.                                                           *)
(***************************************************************************)
AccountShape ==
    /\ boot \in [Procs -> BootSteps \cup {"idle", "ready"}]
    /\ early \subseteq Procs
    /\ rows \in {{}, {"balance", "risk"}}
    /\ OneWriter
    /\ \A p \in Procs : AccountOf(p)

\* Only p moves, and it gets the lock of the balance only when it is free.
OnlyMoves(p) ==
    /\ \A q \in Procs \ {p} : pc'[q] = pc[q] /\ tx'[q] = tx[q] /\ boot'[q] = boot[q]
    /\ tx'[p].cash # None => \/ tx[p].cash # None
                             \/ \A q \in Procs \ {p} : tx[q].cash = None

\* Whoever makes the rows visible is the one that had written the balance.
LEMMA OnePreserves ==
    ASSUME AccountInv, NEW p \in Procs, OnlyMoves(p), AccountOf(p)',
           boot' \in [Procs -> BootSteps \cup {"idle", "ready"}], early' \subseteq Procs,
           \/ rows' = rows
           \/ rows = {} /\ tx[p].cash # None /\ rows' = {"balance", "risk"}
    PROVE  AccountShape'
<1>1. ASSUME NEW q \in Procs, q # p PROVE AccountOf(q)'
    <2>1. pc'[q] = pc[q] /\ tx'[q] = tx[q] /\ boot'[q] = boot[q] /\ AccountOf(q)
        BY <1>1 DEF OnlyMoves, AccountInv
    <2>2. CASE rows' = rows
        BY <2>1, <2>2 DEF AccountOf
    <2>3. CASE rows = {} /\ tx[p].cash # None /\ rows' = {"balance", "risk"}
        <3>1. tx[q].cash = None
            BY <1>1, <2>3 DEF AccountInv, OneWriter
        <3> QED BY <2>1, <2>3, <3>1 DEF AccountOf, BootSteps
    <2> QED BY <2>2, <2>3
<1>2. OneWriter'
    BY DEF OnlyMoves, AccountInv, OneWriter
<1>3. rows' \in {{}, {"balance", "risk"}}
    BY DEF AccountInv
<1> QED BY <1>1, <1>2, <1>3 DEF AccountShape

LEMMA ReceiveKeeps ==
    ASSUME AccountInv, NEW p \in Procs, ReceiveCycle(p) \/ ReceiveOther(p)
    PROVE  AccountShape'
<1>1. /\ boot[p] = "idle" /\ boot' = [boot EXCEPT ![p] = "readBalance"]
      /\ UNCHANGED <<tx, rows, early>> /\ pc[p] = "idle" /\ tx[p] = NoWrites
    BY DEF ReceiveCycle, ReceiveOther, BootStep, Arrive, AccountInv, AccountOf
<1>2. pc' = pc \/ \E there \in {"hold", "quote"} : pc' = [pc EXCEPT ![p] = there]
    BY DEF ReceiveCycle, ReceiveOther, Arrive, Step
<1>3. pc'[p] \in {"idle", "hold", "quote"} /\ \A q \in Procs \ {p} : pc'[q] = pc[q]
    BY <1>1, <1>2 DEF AccountInv, TypeInv, TypeOK
<1>4. boot'[p] = "readBalance" /\ \A q \in Procs \ {p} : boot'[q] = boot[q]
    BY <1>1 DEF AccountInv
<1>5. OnlyMoves(p)
    BY <1>1, <1>3, <1>4 DEF OnlyMoves
<1>6. AccountOf(p)'
    BY <1>1, <1>3, <1>4 DEF AccountOf, BootSteps, NoWrites
<1>7. boot' \in [Procs -> BootSteps \cup {"idle", "ready"}]
    BY <1>1 DEF AccountInv, BootSteps
<1> QED BY <1>1, <1>5, <1>6, <1>7, OnePreserves DEF AccountInv

\* The two SELECTs.
LEMMA ReadKeeps ==
    ASSUME AccountInv, NEW p \in Procs, ReadBalance(p) \/ ReadRiskRow(p)
    PROVE  AccountShape'
<1>1. pc' = pc /\ tx' = tx /\ UNCHANGED <<rows, early>>
    BY DEF ReadBalance, ReadRiskRow, vars
<1>2. AccountOf(p) /\ rows \in {{}, {"balance", "risk"}}
    BY DEF AccountInv
<1>3. \E there \in {"readRisk", "insertBalance", "finish", "insertRisk"} :
          /\ boot' = [boot EXCEPT ![p] = there]
          /\ there = "readRisk" => boot[p] = "readBalance" /\ rows # {}
          /\ there = "insertBalance" => boot[p] = "readBalance"
          /\ there = "insertRisk" => boot[p] = "readRisk" /\ rows = {}
          /\ there = "finish" => boot[p] = "readRisk" /\ rows # {}
    BY <1>2 DEF ReadBalance, ReadRiskRow, BootStep
<1>4. boot' \in [Procs -> BootSteps \cup {"idle", "ready"}]
    BY <1>3 DEF AccountInv, BootSteps
<1>5. OnlyMoves(p)
    BY <1>1, <1>3 DEF OnlyMoves, AccountInv
<1>6. AccountOf(p)'
    BY <1>1, <1>2, <1>3 DEF AccountOf, BootSteps, AccountInv
<1> QED BY <1>1, <1>4, <1>5, <1>6, OnePreserves DEF AccountInv

\* The two upserts.
LEMMA InsertKeeps ==
    ASSUME AccountInv, NEW p \in Procs, InsertBalance(p) \/ InsertRisk(p)
    PROVE  AccountShape'
<1>1. pc' = pc /\ UNCHANGED <<rows, early>>
    BY DEF InsertBalance, InsertRisk
<1>2. AccountOf(p) /\ tx[p] \in Writes /\ tx \in [Procs -> Writes]
    BY DEF AccountInv, TypeInv, TypeOK
<1>3. CASE InsertBalance(p)
    <2>1. /\ boot[p] = "insertBalance" /\ boot' = [boot EXCEPT ![p] = "readRisk"]
          /\ \A q \in Procs \ {p} : tx[q].cash = None
          /\ tx' = [tx EXCEPT ![p].cash = InitialCash]
        BY <1>3 DEF InsertBalance, BootStep
    <2>2. InitialCash # None
        BY CycleConstants, NoneIsNoRow
    <2>3. tx'[p].cash # None /\ tx'[p].risk = tx[p].risk
        BY <1>2, <2>1, <2>2 DEF Writes
    <2>4. boot' \in [Procs -> BootSteps \cup {"idle", "ready"}] /\ boot'[p] = "readRisk"
        BY <2>1 DEF AccountInv, BootSteps
    <2>5. OnlyMoves(p)
        BY <1>1, <1>2, <2>1 DEF OnlyMoves, AccountInv
    <2>6. AccountOf(p)'
        BY <1>1, <1>2, <2>1, <2>3, <2>4 DEF AccountOf, BootSteps
    <2> QED BY <1>1, <2>4, <2>5, <2>6, OnePreserves DEF AccountInv
<1>4. CASE InsertRisk(p)
    <2> DEFINE fresh == FreshRiskState(Day(loc[p].now), InitialCash)
    <2>1. /\ boot[p] = "insertRisk" /\ boot' = [boot EXCEPT ![p] = "finish"]
          /\ tx' = [tx EXCEPT ![p].risk = fresh]
        BY <1>4 DEF InsertRisk, BootStep
    <2>2. fresh # None
        <3>1. fresh \in RiskState
            <4>1. loc[p].now \in Nat /\ TicksPerDay \in Nat /\ TicksPerDay > 0 /\ InitialCash \in Nat
                BY CycleConstants DEF AccountInv, TypeInv, TypeOK, Locals
            <4>2. Day(loc[p].now) \in Nat
                BY <4>1, QuotientIsNat DEF Day
            <4> QED BY <4>1, <4>2 DEF FreshRiskState, RiskState, SystemStates
        <3> QED BY <3>1, NoneIsNoRow
    <2> HIDE DEF fresh
    <2>3. tx'[p].cash = tx[p].cash /\ tx'[p].risk = fresh
        BY <1>2, <2>1 DEF Writes
    <2>4. boot' \in [Procs -> BootSteps \cup {"idle", "ready"}] /\ boot'[p] = "finish"
        BY <2>1 DEF AccountInv, BootSteps
    <2>5. OnlyMoves(p)
        BY <1>1, <1>2, <2>1, <2>3 DEF OnlyMoves, AccountInv
    <2>6. AccountOf(p)'
        BY <1>1, <1>2, <2>1, <2>2, <2>3, <2>4 DEF AccountOf, BootSteps
    <2> QED BY <1>1, <2>4, <2>5, <2>6, OnePreserves DEF AccountInv
<1> QED BY <1>3, <1>4

\* A commit of p makes both rows visible, or finds them visible.
LEMMA BothCommitted ==
    ASSUME AccountInv, NEW p \in Procs, RowsCommitted(p),
           rows = {} => tx[p].cash # None /\ tx[p].risk # None
    PROVE  /\ rows' = {"balance", "risk"} /\ early' \subseteq Procs
           /\ rows' = rows \/ (rows = {} /\ tx[p].cash # None)
<1>1. rows \in {{}, {"balance", "risk"}} /\ early \subseteq Procs
    BY DEF AccountInv
<1>2. rows' = rows \cup Written(p) /\ Written(p) \subseteq {"balance", "risk"}
    BY DEF RowsCommitted, Written
<1>3. early' \subseteq Procs
    BY <1>1 DEF RowsCommitted, Creating, Booting, Procs
<1>4. CASE rows = {}
    BY <1>2, <1>3, <1>4 DEF Written
<1>5. CASE rows = {"balance", "risk"}
    BY <1>2, <1>3, <1>5
<1> QED BY <1>1, <1>4, <1>5

\* Every way out of ensure_initialized ends with an empty buffer, or, for an
\* administrator, with the two rows in it.
LEMMA CommitKeeps ==
    ASSUME AccountInv, NEW p \in Procs, CommitAccount(p)
    PROVE  AccountShape'
<1>1. AccountOf(p) /\ boot[p] = "finish" /\ boot' = [boot EXCEPT ![p] = "ready"]
    BY DEF AccountInv, CommitAccount, BootStep
<1>2. rows = {} => tx[p].cash # None /\ tx[p].risk # None
    BY <1>1 DEF AccountOf
<1>3. /\ rows' = {"balance", "risk"} /\ early' \subseteq Procs
      /\ rows' = rows \/ (rows = {} /\ tx[p].cash # None)
    BY <1>2, BothCommitted DEF CommitAccount
<1>4. tx' = [tx EXCEPT ![p] = NoWrites] /\ tx'[p] = NoWrites
    BY DEF CommitAccount, Commit, AccountInv, TypeInv, TypeOK
<1>5. \A q \in Procs \ {p} : pc'[q] = pc[q]
    BY DEF CommitAccount, AccountInv, TypeInv, TypeOK
<1>6. boot' \in [Procs -> BootSteps \cup {"idle", "ready"}] /\ boot'[p] = "ready"
    BY <1>1 DEF AccountInv
<1>7. OnlyMoves(p)
    BY <1>1, <1>4, <1>5 DEF OnlyMoves, AccountInv, NoWrites
<1>8. AccountOf(p)'
    BY <1>3, <1>4, <1>6 DEF AccountOf, BootSteps
<1> QED BY <1>3, <1>6, <1>7, <1>8, OnePreserves

LEMMA TransitionKeeps ==
    ASSUME AccountInv, NEW p \in Procs, AdminTransition(p)
    PROVE  AccountShape'
<1>1. /\ AccountOf(p) /\ boot[p] = "finish" /\ boot' = [boot EXCEPT ![p] = "ready"]
      /\ p \in Admins /\ UNCHANGED <<rows, early>>
    BY DEF AccountInv, AdminTransition, BootStep
<1>2. \/ pc' = [pc EXCEPT ![p] = "adminSave"] /\ tx' = tx
      \/ pc' = [pc EXCEPT ![p] = "done"] /\ tx' = [tx EXCEPT ![p] = NoWrites]
    BY DEF AdminTransition, Step, Rollback
<1>3. \/ pc'[p] = "adminSave" /\ tx'[p] = tx[p]
      \/ pc'[p] = "done" /\ tx'[p] = NoWrites
    BY <1>2 DEF AccountInv, TypeInv, TypeOK
<1>4. \A q \in Procs \ {p} : pc'[q] = pc[q] /\ tx'[q] = tx[q]
    BY <1>2 DEF AccountInv, TypeInv, TypeOK
<1>5. boot' \in [Procs -> BootSteps \cup {"idle", "ready"}] /\ boot'[p] = "ready"
    BY <1>1 DEF AccountInv
<1>6. OnlyMoves(p)
    BY <1>1, <1>3, <1>4 DEF OnlyMoves, AccountInv, NoWrites
<1>7. AccountOf(p)'
    BY <1>1, <1>3, <1>5 DEF AccountOf, BootSteps
<1> QED BY <1>1, <1>5, <1>6, <1>7, OnePreserves DEF AccountInv

LEMMA BootCrashKeeps ==
    ASSUME AccountInv, NEW p \in Procs, BootCrash(p)
    PROVE  AccountShape'
<1>1. /\ boot' = [boot EXCEPT ![p] = "ready"] /\ UNCHANGED <<rows, early>>
      /\ pc' = [pc EXCEPT ![p] = "done"] /\ tx' = [tx EXCEPT ![p] = NoWrites]
    BY DEF BootCrash, Rollback
<1>2. boot' \in [Procs -> BootSteps \cup {"idle", "ready"}] /\ boot'[p] = "ready"
    BY <1>1 DEF AccountInv
<1>3. pc'[p] = "done" /\ tx'[p] = NoWrites
    BY <1>1 DEF AccountInv, TypeInv, TypeOK
<1>4. OnlyMoves(p)
    BY <1>1, <1>3 DEF OnlyMoves, AccountInv, TypeInv, TypeOK, NoWrites
<1>5. AccountOf(p)'
    BY <1>1, <1>2, <1>3 DEF AccountOf, BootSteps
<1> QED BY <1>1, <1>2, <1>4, <1>5, OnePreserves DEF AccountInv

\* A served request commits the account's rows only in an administrator's
\* transition.
LEMMA ServeKeeps ==
    ASSUME AccountInv, NEW p \in Procs, Serve(p)
    PROVE  AccountShape'
<1>1. AccountOf(p) /\ boot[p] = "ready" /\ boot' = boot /\ Served(p)
    BY ServedStep DEF AccountInv, Serve
<1>2. OnlyMoves(p)
    BY <1>1 DEF Served, OnlyMoves
<1>3. CASE pc[p] = "adminCommit" /\ loc'[p].outcome = "changed"
    <2>1. rows = {} => tx[p].cash # None /\ tx[p].risk # None
        BY <1>1, <1>3 DEF AccountOf
    <2>2. /\ rows' = {"balance", "risk"} /\ early' \subseteq Procs
          /\ rows' = rows \/ (rows = {} /\ tx[p].cash # None)
        BY <1>3, <2>1, BothCommitted DEF Serve
    <2>3. AccountOf(p)'
        BY <1>1, <2>2 DEF AccountOf, Served, BootSteps
    <2> QED BY <1>1, <1>2, <2>2, <2>3, OnePreserves DEF AccountInv
<1>4. CASE ~(pc[p] = "adminCommit" /\ loc'[p].outcome = "changed")
    <2>1. UNCHANGED <<rows, early>>
        BY <1>4 DEF Serve
    <2>2. AccountOf(p)'
        BY <1>1, <2>1 DEF AccountOf, Served, BootSteps
    <2> QED BY <1>1, <1>2, <2>1, <2>2, OnePreserves DEF AccountInv
<1> QED BY <1>3, <1>4

LEMMA AccountStep == AccountInv /\ [BootNext]_allvars => AccountInv'
<1> SUFFICES ASSUME AccountInv, [BootNext]_allvars PROVE AccountInv'
    OBVIOUS
<1>1. TypeInv'
    BY BootTypes
<1>2. CASE UNCHANGED allvars \/ (Quiet /\ UNCHANGED account)
    <2>1. UNCHANGED <<pc, tx, boot, rows, early>>
        BY <1>2 DEF allvars, vars, account, Quiet
    <2> QED BY <1>1, <2>1 DEF AccountInv, OneWriter, AccountOf
<1>3. AccountShape' => AccountInv'
    BY <1>1 DEF AccountShape, AccountInv
<1> QED BY <1>2, <1>3, ReceiveKeeps, ReadKeeps, InsertKeeps, CommitKeeps, TransitionKeeps,
          BootCrashKeeps, ServeKeeps DEF BootNext, Procs

LEMMA AccountCorrect == BootSpec => []AccountInv
<1> QED BY AccountInit, AccountStep, PTL DEF BootSpec

-------------------------------------------------------------------------------
\* Cycles and audits trade and reconcile on an account whose rows are
\* committed, and none of them waits for the exchange with a row locked.
THEOREM ServedAfterCommit == BootSpec => []ServedOnCommittedRows
<1>1. AccountInv => ServedOnCommittedRows
    <2> SUFFICES ASSUME AccountInv, NEW p \in Requests \cup Reconcilers
                 PROVE  /\ boot[p] = "ready" /\ pc[p] # "done" => rows = {"balance", "risk"}
                        /\ boot[p] = "ready" /\ pc[p] = "quote" => tx[p] = NoWrites
        BY DEF ServedOnCommittedRows
    <2>1. p \in Procs /\ p \notin Admins
        BY CycleConstants DEF Procs
    <2> QED BY <2>1 DEF AccountInv, AccountOf
<1> QED BY <1>1, AccountCorrect, PTL

\* What creating the account may do to a risk row that exists: nothing.
RiskKept == \A p \in Procs : boot[p] = "finish" /\ boot'[p] = "ready" /\ "risk" \in rows
                             => risk' = risk

LEMMA CreationKeepsRisk == AccountInv /\ [BootNext]_allvars => [RiskKept]_allvars
<1> SUFFICES ASSUME AccountInv, [BootNext]_allvars, NEW p \in Procs,
                    boot[p] = "finish", boot'[p] = "ready", "risk" \in rows
             PROVE  risk' = risk
    BY DEF RiskKept
<1>1. ASSUME NEW q \in Procs, CommitAccount(q) PROVE risk' = risk
    <2>1. q = p
        BY <1>1 DEF CommitAccount, BootStep, AccountInv
    <2>2. tx[p].risk = None
        BY DEF AccountInv, AccountOf, BootSteps
    <2> QED BY <1>1, <2>1, <2>2 DEF CommitAccount, Commit
<1>2. ASSUME NEW q \in Procs, AdminTransition(q) \/ BootCrash(q) PROVE risk' = risk
    BY <1>2 DEF AdminTransition, BootCrash, db
<1>3. ASSUME NEW q \in Procs,
             \/ ReceiveCycle(q) \/ ReceiveOther(q) \/ ReadBalance(q) \/ ReadRiskRow(q)
             \/ InsertBalance(q) \/ InsertRisk(q)
      PROVE  risk' = risk
    BY <1>3 DEF ReceiveCycle, Arrive, ReceiveOther, ReadBalance, ReadRiskRow,
        InsertBalance, InsertRisk, db, vars
<1>4. ASSUME NEW q \in Procs, Serve(q) PROVE FALSE
    BY <1>4 DEF Serve
<1>5. CASE UNCHANGED allvars \/ (Quiet /\ UNCHANGED account)
    BY <1>5 DEF allvars, account
<1> QED BY <1>1, <1>2, <1>3, <1>4, <1>5 DEF BootNext, Procs

\* However many first requests race, a risk row that exists is never replaced
\* by a fresh one: no kill, loss or cooldown is forgotten that way.
THEOREM RiskRowSurvives == BootSpec => RiskRowBornOnce
<1>1. BootSpec => [][RiskKept]_allvars
    BY AccountCorrect, CreationKeepsRisk, PTL DEF BootSpec
<1> QED BY <1>1 DEF RiskRowBornOnce, RiskKept

-------------------------------------------------------------------------------
(***************************************************************************)
(* The execution of an order does not depend on who created the account:   *)
(* the steps of ensure_initialized touch no intent, fill or snapshot.      *)
(***************************************************************************)
Creates(p) ==
    \/ ReceiveCycle(p) \/ ReceiveOther(p) \/ ReadBalance(p) \/ ReadRiskRow(p)
    \/ InsertBalance(p) \/ InsertRisk(p)
    \/ CommitAccount(p) \/ AdminTransition(p) \/ BootCrash(p)

\* A request that has not been served has buffered nothing of an execution.
LEMMA NothingExecuted ==
    ASSUME AccountInv, ExecInv, NEW p \in Procs, boot[p] \in BootSteps \cup {"idle"}
    PROVE  Empty(p) /\ pc[p] \in {"idle", "hold", "quote"}
<1>1. pc[p] \in {"idle", "hold", "quote"}
    BY DEF AccountInv, AccountOf
<1> QED BY <1>1, EmptyOutside DEF Busy

LEMMA CreationIsHarmless ==
    ASSUME AccountInv, ExecInv, NEW p \in Procs, Creates(p)
    PROVE  Harmless(p)
<1>1. boot[p] \in BootSteps \cup {"idle"}
    BY DEF Creates, ReceiveCycle, ReceiveOther, ReadBalance, ReadRiskRow, InsertBalance,
        InsertRisk, CommitAccount, AdminTransition, BootCrash, BootStep, Booting, BootSteps
<1>2. Empty(p) /\ pc[p] \in {"idle", "hold", "quote"}
    BY <1>1, NothingExecuted
<1>3. tx[p] \in Writes /\ tx \in [Procs -> Writes]
    BY DEF AccountInv, TypeInv, TypeOK
<1>4. CASE ReceiveCycle(p) \/ ReceiveOther(p) \/ ReadBalance(p) \/ ReadRiskRow(p)
    <2>1. tx' = tx /\ Kept
        BY <1>4 DEF ReceiveCycle, ReceiveOther, Arrive, ReadBalance, ReadRiskRow, vars, db, Kept
    <2>2. Empty(p)'
        BY <1>2, <2>1 DEF Empty
    <2>3. pc' = pc \/ \E there \in {"hold", "quote"} : pc' = [pc EXCEPT ![p] = there]
        BY <1>4 DEF ReceiveCycle, ReceiveOther, Arrive, Step, ReadBalance, ReadRiskRow, vars
    <2>4. pc'[p] \in {"idle", "hold", "quote"} /\ pc' = [pc EXCEPT ![p] = pc'[p]]
        BY <1>2, <2>3 DEF AccountInv, TypeInv, TypeOK
    <2>5. loc' = [loc EXCEPT ![p] = loc'[p]]
        BY <1>4 DEF ReceiveCycle, ReceiveOther, Arrive, ReadBalance, ReadRiskRow, vars,
            AccountInv, TypeInv, TypeOK
    <2>6. tx' = [tx EXCEPT ![p] = tx'[p]]
        BY <1>3, <2>1
    <2> QED BY <2>1, <2>2, <2>4, <2>5, <2>6 DEF Harmless, Moves, Busy
<1>5. CASE InsertBalance(p) \/ InsertRisk(p)
    <2>1. UNCHANGED <<pc, loc>> /\ Kept
        BY <1>5 DEF InsertBalance, InsertRisk, db, Kept
    <2>2. \E v : tx' = [tx EXCEPT ![p].cash = v] \/ tx' = [tx EXCEPT ![p].risk = v]
        BY <1>5 DEF InsertBalance, InsertRisk
    <2>3. tx' = [tx EXCEPT ![p] = tx'[p]] /\ Empty(p)'
        BY <1>2, <1>3, <2>2 DEF Writes, Empty
    <2> QED BY <1>2, <2>1, <2>3 DEF Harmless, Moves, Busy, AccountInv, TypeInv, TypeOK
<1>6. CASE CommitAccount(p)
    <2>1. tx' = [tx EXCEPT ![p] = NoWrites] /\ loc' = loc
        BY <1>6 DEF CommitAccount, Commit
    <2>2. Kept
        BY <1>2, <1>6 DEF CommitAccount, Commit, Empty, Kept
    <2>3. tx' = [tx EXCEPT ![p] = tx'[p]] /\ Empty(p)'
        BY <1>3, <2>1 DEF Empty, NoWrites
    <2>4. pc' = [pc EXCEPT ![p] = pc'[p]] /\ pc'[p] \in {"idle", "hold", "quote", "listFills"}
        BY <1>2, <1>6 DEF CommitAccount, AccountInv, TypeInv, TypeOK
    <2> QED BY <2>1, <2>2, <2>3, <2>4 DEF Harmless, Moves, Busy, AccountInv, TypeInv, TypeOK
<1>7. CASE AdminTransition(p) \/ BootCrash(p)
    <2>1. Kept
        BY <1>7 DEF AdminTransition, BootCrash, db, Kept
    <2>2. tx' = tx \/ tx' = [tx EXCEPT ![p] = NoWrites]
        BY <1>7 DEF AdminTransition, BootCrash, Rollback
    <2>3. tx' = [tx EXCEPT ![p] = tx'[p]] /\ Empty(p)'
        BY <1>2, <1>3, <2>2 DEF Empty, NoWrites
    <2>4. \E there \in {"adminSave", "done"} : pc' = [pc EXCEPT ![p] = there]
        BY <1>7 DEF AdminTransition, BootCrash, Step
    <2>5. pc' = [pc EXCEPT ![p] = pc'[p]] /\ pc'[p] \in {"adminSave", "done"}
        BY <2>4 DEF AccountInv, TypeInv, TypeOK
    <2>6. loc' = [loc EXCEPT ![p] = loc'[p]]
        BY <1>7 DEF AdminTransition, BootCrash, Answer, AccountInv, TypeInv, TypeOK
    <2> QED BY <2>1, <2>3, <2>5, <2>6 DEF Harmless, Moves, Busy
<1> QED BY <1>4, <1>5, <1>6, <1>7 DEF Creates

LEMMA ExecSurvives == AccountInv /\ ExecInv /\ [BootNext]_allvars => ExecInv'
<1> SUFFICES ASSUME AccountInv, ExecInv, [BootNext]_allvars PROVE ExecInv'
    OBVIOUS
<1>1. TypeInv
    BY DEF AccountInv
<1>2. ASSUME NEW p \in Procs, Creates(p) PROVE ExecInv'
    BY <1>1, <1>2, CreationIsHarmless, HarmlessKeepsInv
<1>3. ASSUME NEW p \in Procs, Serve(p) PROVE ExecInv'
    <2>1. Next
        BY <1>3 DEF Serve, Next
    <2> QED BY <1>1, <2>1, ExecStep
<1>4. CASE UNCHANGED vars
    BY <1>4, ExecStutter
<1> QED BY <1>2, <1>3, <1>4 DEF BootNext, Creates, Quiet, allvars, Procs

\* AtMostOneFill and AtomicExecution hold from the first request of an
\* installation on: neither needs the account to have been created before.
THEOREM ExecutionFromTheStart == BootSpec => [](AtMostOneFill /\ AtomicExecution)
<1>1. BootInit => ExecInv
    BY ExecInit DEF BootInit
<1>2. ExecInv => AtMostOneFill /\ AtomicExecution
    BY DEF ExecInv
<1> QED BY <1>1, <1>2, AccountCorrect, ExecSurvives, PTL DEF BootSpec

-------------------------------------------------------------------------------
(***************************************************************************)
(* Who may write the balance of an account that others trade on.  Only a   *)
(* request that was in ensure_initialized when the account was created can *)
(* still find itself at the upsert, or have written the balance; everybody *)
(* else writes it with a fill.                                             *)
(***************************************************************************)
FirstOK(p) ==
    /\ p \in Admins => pc[p] \in {"idle", "adminSave", "adminCommit", "done"}
    /\ p \in Admins /\ boot[p] = "ready" => pc[p] # "idle"
    /\ Books(p) \/ p \in Creating
    /\ rows # {} /\ p \in Creating /\ (boot[p] = "insertBalance" \/ tx[p].cash # None)
          => p \in early

FirstInv == \A p \in Procs : FirstOK(p)

LEMMA FirstInit == BootInit => FirstInv
BY DEF BootInit, Init, FirstInv, FirstOK, Books, Creating, Booting, BootSteps, NoWrites

\* The creation of the account by p is the moment at which early is fixed.
LEMMA FirstOnePreserves ==
    ASSUME FirstInv, NEW p \in Procs, FirstOK(p)',
           \A q \in Procs \ {p} : pc'[q] = pc[q] /\ tx'[q] = tx[q] /\ boot'[q] = boot[q],
           UNCHANGED <<rows, early>> \/ (rows = {} /\ early' = Creating \ {p})
    PROVE  FirstInv'
<1> SUFFICES ASSUME NEW q \in Procs, q # p PROVE FirstOK(q)'
    BY DEF FirstInv
<1>1. FirstOK(q) /\ pc'[q] = pc[q] /\ tx'[q] = tx[q] /\ boot'[q] = boot[q]
    BY DEF FirstInv
<1>2. (q \in Creating)' <=> q \in Creating
    BY <1>1 DEF Creating, Booting
<1>3. Books(q)' <=> Books(q)
    BY <1>1 DEF Books
<1>4. q \in Creating => q \in early' \/ UNCHANGED <<rows, early>>
    OBVIOUS
<1> HIDE DEF Creating
<1> QED BY <1>1, <1>2, <1>3, <1>4 DEF FirstOK

LEMMA CommitFixesEarly ==
    ASSUME AccountInv, NEW p \in Procs, RowsCommitted(p)
    PROVE  UNCHANGED <<rows, early>> \/ (rows = {} /\ early' = Creating \ {p})
           \/ (rows = {} /\ tx[p].cash = None)
<1>1. rows \in {{}, {"balance", "risk"}}
    BY DEF AccountInv
<1> QED BY <1>1 DEF RowsCommitted, Written

\* The steps of ensure_initialized.
LEMMA CreationFirst ==
    ASSUME AccountInv, FirstInv, NEW p \in Procs,
           \/ p \in Requests /\ ReceiveCycle(p)
           \/ ReceiveOther(p) \/ ReadBalance(p) \/ ReadRiskRow(p)
           \/ InsertBalance(p) \/ InsertRisk(p)
           \/ CommitAccount(p) \/ AdminTransition(p) \/ BootCrash(p)
    PROVE  FirstInv'
<1>1. /\ tx \in [Procs -> Writes] /\ pc \in [Procs -> Labels]
      /\ boot \in [Procs -> BootSteps \cup {"idle", "ready"}]
      /\ rows \in {{}, {"balance", "risk"}} /\ AccountOf(p) /\ FirstOK(p)
    BY DEF AccountInv, TypeInv, TypeOK, FirstInv
<1>2. CASE (p \in Requests /\ ReceiveCycle(p)) \/ ReceiveOther(p)
    <2>1. tx'[p] = NoWrites /\ boot' = [boot EXCEPT ![p] = "readBalance"]
          /\ UNCHANGED <<tx, rows, early>>
        BY <1>1, <1>2 DEF ReceiveCycle, ReceiveOther, BootStep, Arrive, AccountOf
    <2>2. pc' = pc \/ (p \notin Admins /\ \E there : pc' = [pc EXCEPT ![p] = there])
        BY <1>2, CycleConstants DEF ReceiveCycle, ReceiveOther, Arrive, Step
    <2>3. FirstOK(p)'
        BY <1>1, <2>1, <2>2 DEF FirstOK, Books, NoWrites
    <2> QED BY <1>1, <2>1, <2>2, <2>3, FirstOnePreserves
<1>3. CASE ReadBalance(p) \/ ReadRiskRow(p)
    <2>1. UNCHANGED <<pc, tx, rows, early>>
        BY <1>3 DEF ReadBalance, ReadRiskRow, vars
    <2>2. PICK there \in BootSteps : /\ boot' = [boot EXCEPT ![p] = there]
                                     /\ there = "insertBalance" => rows = {}
        BY <1>1, <1>3 DEF ReadBalance, ReadRiskRow, BootStep, BootSteps
    <2>3. p \in Creating /\ (p \in Creating)' /\ boot'[p] = there
        BY <1>1, <1>3, <2>2 DEF ReadBalance, ReadRiskRow, BootStep, Creating, Booting, BootSteps
    <2>4. FirstOK(p)'
        BY <1>1, <2>1, <2>2, <2>3 DEF FirstOK, BootSteps
    <2> QED BY <1>1, <2>1, <2>2, <2>4, FirstOnePreserves
<1>4. CASE InsertBalance(p) \/ InsertRisk(p)
    <2>1. UNCHANGED <<pc, rows, early>>
        BY <1>4 DEF InsertBalance, InsertRisk
    <2>2. /\ boot[p] \in {"insertBalance", "insertRisk"}
          /\ \E there \in {"readRisk", "finish"} : boot' = [boot EXCEPT ![p] = there]
          /\ boot[p] = "insertBalance" \/ tx'[p].cash = tx[p].cash
        BY <1>1, <1>4 DEF InsertBalance, InsertRisk, BootStep, Writes
    <2>3. p \in Creating /\ (p \in Creating)' /\ boot'[p] \in {"readRisk", "finish"}
        BY <1>1, <2>2 DEF Creating, Booting, BootSteps
    <2>4. FirstOK(p)'
        BY <1>1, <2>1, <2>2, <2>3 DEF FirstOK
    <2>5. \A q \in Procs \ {p} : tx'[q] = tx[q]
        BY <1>1, <1>4 DEF InsertBalance, InsertRisk
    <2> QED BY <1>1, <2>1, <2>2, <2>4, <2>5, FirstOnePreserves
<1>5. CASE CommitAccount(p)
    <2>1. /\ tx' = [tx EXCEPT ![p] = NoWrites] /\ p \notin Admins
          /\ boot[p] = "finish" /\ boot' = [boot EXCEPT ![p] = "ready"]
          /\ RowsCommitted(p)
          /\ \A q \in Procs \ {p} : pc'[q] = pc[q]
        BY <1>1, <1>5 DEF CommitAccount, Commit, BootStep
    <2>2. tx'[p] = NoWrites /\ boot'[p] = "ready"
        BY <1>1, <2>1
    <2>3. FirstOK(p)'
        BY <2>1, <2>2 DEF FirstOK, Books, NoWrites
    <2>4. rows = {} => tx[p].cash # None
        BY <1>1, <2>1 DEF AccountOf
    <2> QED BY <1>1, <2>1, <2>3, <2>4, CommitFixesEarly, FirstOnePreserves
<1>6. CASE AdminTransition(p) \/ BootCrash(p)
    <2>1. /\ boot[p] \in BootSteps \ {"insertBalance"} \/ BootCrash(p)
          /\ boot[p] \in BootSteps
          /\ boot' = [boot EXCEPT ![p] = "ready"] /\ UNCHANGED <<rows, early>>
          /\ \/ p \in Admins /\ tx' = tx /\ pc' = [pc EXCEPT ![p] = "adminSave"]
             \/ tx' = [tx EXCEPT ![p] = NoWrites] /\ pc' = [pc EXCEPT ![p] = "done"]
        BY <1>6 DEF AdminTransition, BootCrash, BootStep, Booting, BootSteps, Step, Rollback
    <2>2. p \in Creating /\ boot'[p] = "ready"
        BY <1>1, <2>1 DEF Creating, Booting
    <2>3. CASE p \in Admins /\ tx' = tx /\ pc' = [pc EXCEPT ![p] = "adminSave"]
        <3>1. pc'[p] = "adminSave" /\ (p \in Creating)'
            BY <1>1, <2>2, <2>3 DEF Creating
        <3> QED BY <1>1, <2>1, <2>2, <2>3, <3>1, FirstOnePreserves DEF FirstOK
    <2>4. CASE tx' = [tx EXCEPT ![p] = NoWrites] /\ pc' = [pc EXCEPT ![p] = "done"]
        <3>1. pc'[p] = "done" /\ tx'[p] = NoWrites
            BY <1>1, <2>4
        <3>2. FirstOK(p)'
            BY <2>2, <3>1 DEF FirstOK, Books, NoWrites
        <3> QED BY <1>1, <2>1, <2>4, <3>2, FirstOnePreserves
    <2> QED BY <2>1, <2>3, <2>4
<1> QED BY <1>2, <1>3, <1>4, <1>5, <1>6

\* The steps of TradingCycle that a request takes once it is served.
LEMMA ServeFirst ==
    ASSUME AccountInv, ExecInv, FirstInv, NEW p \in Procs, Serve(p)
    PROVE  FirstInv'
<1>1. /\ TypeInv /\ AccountOf(p) /\ FirstOK(p) /\ boot[p] = "ready" /\ boot' = boot
      /\ Served(p) /\ (Proceed(p) \/ Crash(p)) /\ pc[p] \notin {"idle", "done"}
    <2>1. Served(p) /\ boot[p] = "ready" /\ boot' = boot /\ (Proceed(p) \/ Crash(p))
        BY ServedStep DEF AccountInv, Serve
    <2>2. pc[p] # "idle"
        BY <2>1 DEF Proceed, Evaluation, Execution, Reconciliation, Administration, Step,
            CycleHold, GetTicker, QuoteUnavailable, GetBalance, GetPosition, LatestSnapshot,
            EvaluateRisk, SaveDayReset, CreateIntent, IdempotencyConflict, CommitIntent,
            CheckFill, CheckSystemState, ExecBalance, ExecPosition, InsertFill, SetBalance,
            UpsertPosition, FinalizeIntent, ReadRisk, SaveRisk, CommitExecution,
            ExecutionFailed, ListFills, ListBalances, ListPositions, ReadRiskToKill,
            SaveKilled, CommitReport, AdminSave, AdminCommit, DeadlockVictim, WaitsFor,
            NextTable, Crash
    <2> QED BY <2>1, <2>2 DEF AccountInv, FirstInv, Served
<1>2. ASSUME FirstOK(p)', rows = {} /\ pc[p] = "adminCommit" => tx[p].cash # None
      PROVE  FirstInv'
    <2>1. UNCHANGED <<rows, early>> \/ (RowsCommitted(p) /\ pc[p] = "adminCommit")
        BY DEF Serve
    <2> QED BY <1>1, <1>2, <2>1, CommitFixesEarly, FirstOnePreserves DEF Served
<1>3. rows = {} /\ pc[p] = "adminCommit" => tx[p].cash # None
    BY <1>1 DEF AccountOf
<1>4. CASE p \in Admins
    <2>1. pc[p] \in {"adminSave", "adminCommit"} /\ p \in Creating
        BY <1>1, <1>4 DEF FirstOK, Creating
    <2>2. \/ pc'[p] = "adminCommit" /\ tx'[p].cash = tx[p].cash
          \/ pc'[p] = "done" /\ tx'[p] = NoWrites
        <3>1. AdminSave(p) \/ AdminCommit(p) \/ DeadlockVictim(p) \/ Crash(p)
            BY <1>1, <2>1 DEF Proceed, Evaluation, Execution, Reconciliation, Administration,
                Step, CycleHold, GetTicker, QuoteUnavailable, GetBalance, GetPosition,
                LatestSnapshot, EvaluateRisk, SaveDayReset, CreateIntent,
                IdempotencyConflict, CommitIntent, CheckFill, CheckSystemState, ExecBalance,
                ExecPosition, InsertFill, SetBalance, UpsertPosition, FinalizeIntent,
                ReadRisk, SaveRisk, CommitExecution, ExecutionFailed, ListFills,
                ListBalances, ListPositions, ReadRiskToKill, SaveKilled, CommitReport
        <3>2. CASE AdminSave(p)
            <4>1. pc'[p] = "adminCommit"
                BY <1>1, <3>2 DEF AdminSave, Step, TypeInv, TypeOK
            <4> QED BY <1>1, <4>1 DEF Served
        <3>3. CASE AdminCommit(p) \/ DeadlockVictim(p) \/ Crash(p)
            BY <1>1, <3>3 DEF AdminCommit, DeadlockVictim, Crash, Step, Commit, Rollback,
                TypeInv, TypeOK
        <3> QED BY <3>1, <3>2, <3>3
    <2>3. CASE pc'[p] = "adminCommit" /\ tx'[p].cash = tx[p].cash
        <3>1. pc[p] = "adminSave" /\ UNCHANGED <<rows, early>>
            BY <1>1, <2>3 DEF Served, Serve
        <3>2. (p \in Creating)'
            BY <1>1, <1>4, <2>3 DEF Creating
        <3>3. FirstOK(p)'
            BY <1>1, <2>1, <2>3, <3>1, <3>2 DEF FirstOK
        <3> QED BY <1>2, <1>3, <3>3
    <2>4. CASE pc'[p] = "done" /\ tx'[p] = NoWrites
        <3>1. FirstOK(p)'
            BY <1>1, <2>4 DEF FirstOK, Books, NoWrites
        <3> QED BY <1>2, <1>3, <3>1
    <2> QED BY <2>2, <2>3, <2>4
<1>5. CASE p \notin Admins
    <2>1. p \notin Creating /\ p \notin Creating'
        BY <1>1, <1>5 DEF Creating, Booting, BootSteps
    <2>2. Books(p)
        BY <1>1, <2>1 DEF FirstOK
    <2>3. Aside(p) \/ Buffering(p) \/ CommitIntent(p) \/ CommitExecution(p)
        BY <1>1 DEF Proceed, Evaluation, Execution, Aside, Buffering
    <2>4. Books(p)'
        BY <1>1, <2>2, <2>3, AsideBooks, BufferingBooks, CommitIntentBooks,
           CommitExecutionBooks
    <2>5. FirstOK(p)'
        BY <1>5, <2>1, <2>4 DEF FirstOK
    <2> QED BY <1>2, <1>3, <2>5
<1> QED BY <1>4, <1>5

LEMMA FirstStep == AccountInv /\ ExecInv /\ FirstInv /\ [BootNext]_allvars => FirstInv'
<1> SUFFICES ASSUME AccountInv, ExecInv, FirstInv, [BootNext]_allvars PROVE FirstInv'
    OBVIOUS
<1>1. CASE UNCHANGED allvars \/ (Quiet /\ UNCHANGED account)
    <2>1. UNCHANGED <<pc, tx, boot, rows, early>>
        BY <1>1 DEF allvars, vars, account, Quiet
    <2>2. Creating' = Creating
        BY <2>1 DEF Creating, Booting
    <2>3. ASSUME NEW p \in Procs PROVE FirstOK(p)'
        <3>1. FirstOK(p)
            BY DEF FirstInv
        <3>2. Books(p)' <=> Books(p)
            BY <2>1 DEF Books
        <3> QED BY <2>1, <2>2, <3>1, <3>2 DEF FirstOK
    <2> QED BY <2>3 DEF FirstInv
<1> QED BY <1>1, CreationFirst, ServeFirst DEF BootNext, Procs

\* The balance of an account that exists is written by those who were creating
\* it when another did, or together with a fill.
ResetStep == rows # {} /\ early \cap Creating = {} /\ cash' # cash => fills' # fills

LEMMA WhoWrites ==
    ASSUME TypeInv, ExecInv, FirstInv, rows # {}, early \cap Creating = {},
           NEW p \in Procs, NEW E, Commit(p, E), cash' # cash
    PROVE  fills' # fills
<1>1. tx[p].cash # None
    BY DEF Commit
<1>2. FirstOK(p) /\ Buffers(p)
    BY DEF FirstInv, ExecInv
<1>3. Books(p)
    BY <1>1, <1>2 DEF FirstOK
<1>4. PICK f \in tx[p].fill : TRUE
    BY <1>1, <1>3 DEF Books
<1>5. f.order = loc[p].order /\ \A g \in fills : g.order # loc[p].order
    BY <1>2, <1>4 DEF Buffers
<1> QED BY <1>4, <1>5 DEF Commit

LEMMA OnlyEarlyStep ==
    AccountInv /\ ExecInv /\ FirstInv /\ [BootNext]_allvars => [ResetStep]_allvars
<1> SUFFICES ASSUME AccountInv, ExecInv, FirstInv, [BootNext]_allvars,
                    rows # {}, early \cap Creating = {}, cash' # cash
             PROVE  fills' # fills
    BY DEF ResetStep
<1>1. TypeInv
    BY DEF AccountInv
<1>2. ASSUME NEW p \in Procs, Creates(p) PROVE \E E : Commit(p, E)
    BY <1>2 DEF Creates, ReceiveCycle, ReceiveOther, Arrive, ReadBalance, ReadRiskRow,
        InsertBalance, InsertRisk, CommitAccount, AdminTransition, BootCrash, vars, db
<1>3. ASSUME NEW p \in Procs, Serve(p) PROVE \E E : Commit(p, E)
    <2>1. CASE Evaluation(p)
        BY <2>1 DEF Evaluation, CycleHold, GetTicker, QuoteUnavailable, GetBalance,
            GetPosition, LatestSnapshot, EvaluateRisk, SaveDayReset, CreateIntent,
            IdempotencyConflict, CommitIntent, db
    <2>2. CASE Execution(p)
        BY <2>2 DEF Execution, CheckFill, CheckSystemState, ExecBalance, ExecPosition,
            InsertFill, SetBalance, UpsertPosition, FinalizeIntent, ReadRisk, SaveRisk,
            CommitExecution, ExecutionFailed, db
    <2>3. CASE Reconciliation(p) \/ Administration(p)
        BY <2>3 DEF Reconciliation, ListFills, ListBalances, ListPositions, ReadRiskToKill,
            SaveKilled, CommitReport, Administration, AdminSave, AdminCommit, db
    <2>4. CASE DeadlockVictim(p) \/ Crash(p)
        BY <2>4 DEF DeadlockVictim, Crash, db
    <2> QED BY <1>3, <2>1, <2>2, <2>3, <2>4 DEF Serve, Proceed
<1>4. ~UNCHANGED allvars /\ ~Quiet
    BY DEF allvars, vars, Quiet
<1>5. \E p \in Procs : Creates(p) \/ Serve(p)
    BY <1>4 DEF BootNext, Creates, Procs
<1>6. \E p \in Procs : \E E : Commit(p, E)
    <2>1. PICK p \in Procs : Creates(p) \/ Serve(p)
        BY <1>5
    <2> QED BY <1>2, <1>3, <2>1
<1> QED BY <1>1, <1>6, WhoWrites

\* Once the requests that were creating the account when it came to exist are
\* through, the balance only ever moves together with a fill, however many
\* requests follow, overlap and crash.
THEOREM OnlyEarlyReset == BootSpec => OnlyEarlyRequestsReset
<1>1. BootInit => ExecInv
    BY ExecInit DEF BootInit
<1>2. BootSpec => [][ResetStep]_allvars
    BY <1>1, AccountCorrect, ExecSurvives, FirstInit, FirstStep, OnlyEarlyStep, PTL
    DEF BootSpec
<1> QED BY <1>2 DEF OnlyEarlyRequestsReset, ResetStep

\* The rows, labels and history of the creation always have their types.
THEOREM BootTypeCorrect == BootSpec => []BootTypeOK
<1>1. AccountInv => BootTypeOK
    BY DEF AccountInv, BootTypeOK, TypeInv
<1> QED BY <1>1, AccountCorrect, PTL
===============================================================================
