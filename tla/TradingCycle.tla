----------------------------- MODULE TradingCycle -----------------------------
(***************************************************************************)
(* The PAPER trading core of AtlasTrader: POST /trading/cycle, POST        *)
(* /trading/reconcile and the POST /admin/... transitions, running at the  *)
(* same time over one PostgreSQL database.                                 *)
(*                                                                         *)
(* A process is one HTTP request.  It has one session and runs one         *)
(* transaction after another at READ COMMITTED: every SELECT is a step     *)
(* that sees the last committed rows (and the transaction's own writes),   *)
(* every INSERT, UPDATE and upsert is a step that buffers the new row in   *)
(* tx[p] and locks it until the transaction ends, and a commit makes the   *)
(* buffer visible at once.  What a request keeps in Python variables       *)
(* between two statements is loc[p]; that is where stale values live.      *)
(***************************************************************************)
EXTENDS PaperAccounting, FiniteSets, FiniteSetsExt

CONSTANTS
    Requests,      \* POST /trading/cycle requests, first calls and retries
    Reconcilers,   \* POST /trading/reconcile requests
    Admins,        \* POST /admin/... requests
    AdminCommands, \* which of the four transitions the operator uses
    Orders,        \* client_order_ids: one per (signal, quantity)
    Symbols,
    OrderSide,     \* [Orders -> Sides], "hold" for a HOLD signal
    OrderSymbol,   \* [Orders -> Symbols]
    OrderQty,      \* [Orders -> positive lots]
    Tickers,       \* the quotes the exchange may return
    InitialCash,   \* settings.paper_initial_balance
    MaxInFlight,   \* requests served at the same time (1: no overlap)
    MaxClock,      \* bound on the clock
    TicksPerDay,
    None           \* a row, a value or a write that does not exist

Procs == Requests \cup Reconcilers \cup Admins

ASSUME CycleConstants ==
    /\ Requests \cap Reconcilers = {} /\ Requests \cap Admins = {}
    /\ Reconcilers \cap Admins = {}
    /\ OrderSide \in [Orders -> Sides] /\ OrderSymbol \in [Orders -> Symbols]
    /\ OrderQty \in [Orders -> Nat \ {0}]
    /\ Tickers \subseteq Ticker
    /\ AdminCommands \subseteq {"pause", "resume", "kill", "reset"}
    /\ InitialCash \in Nat /\ MaxInFlight \in Nat
    /\ MaxClock \in Nat /\ TicksPerDay \in Nat \ {0}

\* The rows of the tables and the values the properties name.
IntentRow == [status : {"APPROVED", "REJECTED", "FILLED"}, approved : BOOLEAN,
              ref : Nat]
FillRow == [order : Orders, proc : Requests, at : Nat, price : Nat, realized : Int]
SnapRow == [order : Orders, proc : Requests, at : Nat, equity : Int]
EventTypes == {"cycle_hold", "risk_approved", "risk_rejected", "execution_failed",
               "reconciliation_succeeded", "reconciliation_failed",
               "system_state_changed"}
Outcomes == {"none", "hold", "rejected", "conflict", "risk_rejected",
             "execution_failed", "filled", "filled_reconciliation_failed",
             "changed", "crashed", "deadlock_victim"}

\* A request's Python variables, and what its open transaction has written.
Locals == [order : Orders \cup {None}, now : Nat, tick : Tickers \cup {None},
           active : BOOLEAN, cash : Nat, pos : Position, equity : Int,
           risk : RiskState \cup {None}, approved : BOOLEAN,
           intent : IntentRow \cup {None}, created : BOOLEAN,
           seen : SUBSET FillRow, consistent : BOOLEAN, outcome : Outcomes]
Writes == [cash : Nat \cup {None}, pos : Position \cup {None},
           risk : RiskState \cup {None}, intent : IntentRow \cup {None},
           fill : SUBSET FillRow, snap : SUBSET SnapRow]

\* "No row" is not a row, and no value of a column.
ASSUME NoneIsNoRow == None \notin IntentRow /\ None \notin RiskState \cup Position \cup Nat

VARIABLES
    cash,      \* paper_balances: the quote balance of the one PAPER account
    pos,       \* paper_positions, by symbol
    risk,      \* the row of risk_state
    intents,   \* order_intents, by client_order_id
    fills,     \* paper_fills
    snaps,     \* paper_portfolio_snapshots
    events,    \* system_events
    clock,     \* time of the latest arrival
    pc,        \* the statement each request executes next
    loc,       \* its Python variables
    tx         \* the rows its open transaction has written and locked

db   == <<cash, pos, risk, intents, fills, snaps, events>>
vars == <<cash, pos, risk, intents, fills, snaps, events, clock, pc, loc, tx>>

\* Where a request may be.  idle: not yet received; done: answered or dead.
CycleSteps == {"hold", "quote", "getBalance", "getPosition", "latestSnapshot",
    "evaluate", "saveDayReset", "createIntent", "commitIntent", "checkFill",
    "checkState", "execBalance", "execPosition", "insertFill", "setBalance",
    "upsertPosition", "finalizeIntent", "readRisk", "saveRisk",
    "commitExecution", "failed"}
ReconcileSteps == {"listFills", "listBalances", "listPositions", "killRead",
    "saveKilled", "commitReport"}
AdminSteps == {"adminSave", "adminCommit"}
Labels == {"idle", "done"} \cup CycleSteps \cup ReconcileSteps \cup AdminSteps

Day(t) == t \div TicksPerDay
Symbol(p) == OrderSymbol[loc[p].order]
Side(p)   == OrderSide[loc[p].order]
Qty(p)    == OrderQty[loc[p].order]

NoWrites == [cash |-> None, pos |-> None, risk |-> None, intent |-> None,
             fill |-> {}, snap |-> {}]

\* A request's variables before its first statement and after its last.
Fresh(order, now, outcome) ==
    [order |-> order, now |-> now, tick |-> None, active |-> TRUE,
     cash |-> 0, pos |-> NoPosition, equity |-> 0, risk |-> None,
     approved |-> FALSE, intent |-> None, created |-> FALSE,
     seen |-> {}, consistent |-> TRUE, outcome |-> outcome]

\* The account exists: every route runs ensure_initialized first, and once
\* both rows exist it changes nothing.
Init ==
    /\ cash = InitialCash
    /\ pos = [s \in Symbols |-> NoPosition]
    /\ risk = FreshRiskState(0, InitialCash)
    /\ intents = [o \in Orders |-> None]
    /\ fills = {} /\ snaps = {} /\ events = {}
    /\ clock = 0
    /\ pc = [p \in Procs |-> "idle"]
    /\ loc = [p \in Procs |-> Fresh(None, 0, "none")]
    /\ tx = [p \in Procs |-> NoWrites]

-------------------------------------------------------------------------------
(***************************************************************************)
(* Row locks.  A transaction holds the row it has written in a table until *)
(* it ends.  A writer of the same row waits; so does an INSERT ... ON      *)
(* CONFLICT whose key another open transaction has just inserted.          *)
(***************************************************************************)

\* The table the statement at each label writes.
NextTable == [saveDayReset |-> "risk", saveRisk |-> "risk", saveKilled |-> "risk",
              adminSave |-> "risk", createIntent |-> "intent",
              finalizeIntent |-> "intent", insertFill |-> "fill",
              setBalance |-> "cash", upsertPosition |-> "pos"]

\* q has written, in table t, the row that p would write there.
Holds(q, t, p) ==
    \/ t = "risk" /\ tx[q].risk # None
    \/ t = "cash" /\ tx[q].cash # None
    \/ t = "pos" /\ tx[q].pos # None /\ Symbol(q) = Symbol(p)
    \/ t = "intent" /\ tx[q].intent # None /\ loc[q].order = loc[p].order
    \/ t = "fill" /\ tx[q].fill # {} /\ loc[q].order = loc[p].order

WaitsFor(p, q) ==
    /\ p # q
    /\ pc[p] \in DOMAIN NextTable
    /\ Holds(q, NextTable[pc[p]], p)

\* Mutant of Free: no unique index and no row lock holds a writer back.
FreeWithoutLocks(p) == \A q \in Procs : q = p \/ WaitsFor(p, q) \/ ~WaitsFor(p, q)

Free(p) == \A q \in Procs : ~WaitsFor(p, q)

\* One step of p: it is at label here and goes on to label there.
Step(p, here, there) == pc[p] = here /\ pc' = [pc EXCEPT ![p] = there]

\* The end of a transaction of p, with audit events E appended to it.
Commit(p, E) ==
    /\ cash' = IF tx[p].cash = None THEN cash ELSE tx[p].cash
    /\ pos' = IF tx[p].pos = None THEN pos ELSE [pos EXCEPT ![Symbol(p)] = tx[p].pos]
    /\ risk' = IF tx[p].risk = None THEN risk ELSE tx[p].risk
    /\ intents' = IF tx[p].intent = None THEN intents
                  ELSE [intents EXCEPT ![loc[p].order] = tx[p].intent]
    /\ fills' = fills \cup tx[p].fill
    /\ snaps' = snaps \cup tx[p].snap
    /\ events' = events \cup {[type |-> e, proc |-> p] : e \in E}
    /\ tx' = [tx EXCEPT ![p] = NoWrites]

Rollback(p) == tx' = [tx EXCEPT ![p] = NoWrites]

\* The answer: only what the properties look at outlives the request.
Answer(p, outcome) ==
    loc' = [loc EXCEPT ![p] = Fresh(loc[p].order, loc[p].now, outcome)]

InFlight == {p \in Procs : pc[p] \notin {"idle", "done"}}
MayArrive(p) == pc[p] = "idle" /\ Cardinality(InFlight) < MaxInFlight

-------------------------------------------------------------------------------
(***************************************************************************)
(* Evaluation: PaperTradingCycleService.run up to its first commit.        *)
(***************************************************************************)

\* The route reads the clock before anything else; no two requests read the
\* same microsecond.  An unknown signal ends the request with a 409.
Arrive(p) ==
    /\ MayArrive(p)
    /\ \E o \in Orders, t \in (clock + 1)..MaxClock :
          /\ clock' = t
          /\ loc' = [loc EXCEPT ![p].order = o, ![p].now = t]
          /\ Step(p, "idle", IF OrderSide[o] = "hold" THEN "hold" ELSE "quote")
    /\ UNCHANGED <<db, tx>>

CycleHold(p) ==
    /\ Step(p, "hold", "done")
    /\ Commit(p, {"cycle_hold"})
    /\ Answer(p, "hold")
    /\ UNCHANGED clock

\* The stored market (its active flag is only looked at by the executor) and
\* the public quote.
GetTicker(p) ==
    /\ Step(p, "quote", "getBalance")
    /\ \E t \in Tickers, active \in BOOLEAN :
          loc' = [loc EXCEPT ![p].tick = t, ![p].active = active]
    /\ UNCHANGED <<db, clock, tx>>

\* No such signal, no such market, or the exchange gave no quote.
QuoteUnavailable(p) ==
    /\ Step(p, "quote", "done")
    /\ Answer(p, "rejected")
    /\ UNCHANGED <<db, clock, tx>>

GetBalance(p) ==
    /\ Step(p, "getBalance", "getPosition")
    /\ loc' = [loc EXCEPT ![p].cash = cash]
    /\ UNCHANGED <<db, clock, tx>>

GetPosition(p) ==
    /\ Step(p, "getPosition", "latestSnapshot")
    /\ loc' = [loc EXCEPT ![p].pos = pos[Symbol(p)]]
    /\ UNCHANGED <<db, clock, tx>>

\* The latest snapshot by its timestamp, which is its request's arrival.
LatestSnapshot(p) ==
    /\ Step(p, "latestSnapshot", "evaluate")
    /\ \/ snaps = {} /\ loc' = [loc EXCEPT ![p].equity = loc[p].cash]
       \/ \E s \in snaps : /\ \A u \in snaps : u.at <= s.at
                           /\ loc' = [loc EXCEPT ![p].equity = s.equity]
    /\ UNCHANGED <<db, clock, tx>>

Context(p) == [side |-> Side(p), tick |-> loc[p].tick, qty |-> loc[p].pos.qty,
               equity |-> loc[p].equity, cash |-> loc[p].cash, now |-> loc[p].now]

\* RiskService.evaluate reads the row, rolls it to the request's day and
\* decides on the result; a row that changed is saved before the decision.
EvaluateRisk(p) ==
    LET state == ResetForDay(risk, Day(loc[p].now), loc[p].equity)
    IN  /\ Step(p, "evaluate", IF state = risk THEN "createIntent" ELSE "saveDayReset")
        /\ loc' = [loc EXCEPT ![p].risk = state,
                      ![p].approved = Approves(Qty(p), Context(p), state)]
        /\ UNCHANGED <<db, clock, tx>>

SaveDayReset(p) ==
    /\ Step(p, "saveDayReset", "createIntent") /\ Free(p)
    /\ tx' = [tx EXCEPT ![p].risk = loc[p].risk]
    /\ UNCHANGED <<db, clock, loc>>

\* execution_signature: besides what the client_order_id already hashes, only
\* the reference price (and the notional derived from it) can differ.
NewIntent(p) == [status |-> IF loc[p].approved THEN "APPROVED" ELSE "REJECTED",
                 approved |-> loc[p].approved, ref |-> loc[p].tick.last]

SameSignature(i, j) == i.ref = j.ref

\* Mutant of CreateIntent: ON CONFLICT DO UPDATE, a retry overwrites the intent.
CreateIntentUpsert(p) ==
    /\ Free(p)
    /\ Step(p, "createIntent", "commitIntent")
    /\ tx' = [tx EXCEPT ![p].intent = NewIntent(p)]
    /\ loc' = [loc EXCEPT ![p].intent = NewIntent(p), ![p].risk = None]
    /\ UNCHANGED <<db, clock>>

\* create_or_get inserts the intent, or returns the one that has the same
\* client_order_id.  (The SELECT after a conflicting INSERT sees at least what
\* the INSERT saw, so the two statements are one step.)
CreateIntent(p) ==
    LET o == loc[p].order
    IN  /\ Free(p)
        /\ Step(p, "createIntent", "commitIntent")
        /\ IF intents[o] = None
           THEN /\ tx' = [tx EXCEPT ![p].intent = NewIntent(p)]
                /\ loc' = [loc EXCEPT ![p].intent = NewIntent(p), ![p].risk = None]
           ELSE /\ SameSignature(intents[o], NewIntent(p))
                /\ loc' = [loc EXCEPT ![p].intent = intents[o], ![p].risk = None]
                /\ UNCHANGED tx
        /\ UNCHANGED <<db, clock>>

\* Mutant of IdempotencyConflict: the route answers 409 and leaves the session
\* open, with the lock of a day reset.
IdempotencyConflictKeepsSession(p) ==
    LET o == loc[p].order
    IN  /\ Free(p)
        /\ Step(p, "createIntent", "done")
        /\ intents[o] # None /\ ~SameSignature(intents[o], NewIntent(p))
        /\ Answer(p, "conflict")
        /\ UNCHANGED <<db, tx, clock>>

\* IdempotencyConflictError: the route answers 409 and the session rolls back.
IdempotencyConflict(p) ==
    LET o == loc[p].order
    IN  /\ Free(p)
        /\ Step(p, "createIntent", "done")
        /\ intents[o] # None /\ ~SameSignature(intents[o], NewIntent(p))
        /\ Rollback(p)
        /\ Answer(p, "conflict")
        /\ UNCHANGED <<db, clock>>

\* Mutant of CommitIntent: goes on when the intent in hand was approved earlier.
CommitIntentTrustsIntent(p) ==
    /\ Step(p, "commitIntent", IF loc[p].intent.approved THEN "checkFill" ELSE "done")
    /\ Commit(p, {IF loc[p].approved THEN "risk_approved" ELSE "risk_rejected"})
    /\ IF loc[p].intent.approved
       THEN loc' = [loc EXCEPT ![p].cash = 0, ![p].pos = NoPosition,
                               ![p].equity = 0, ![p].approved = FALSE]
       ELSE Answer(p, "risk_rejected")
    /\ UNCHANGED clock

\* The audit event and the next step follow the NEW decision, also when the
\* intent is an old one.
CommitIntent(p) ==
    /\ Step(p, "commitIntent", IF loc[p].approved THEN "checkFill" ELSE "done")
    /\ Commit(p, {IF loc[p].approved THEN "risk_approved" ELSE "risk_rejected"})
    /\ IF loc[p].approved
       THEN loc' = [loc EXCEPT ![p].cash = 0, ![p].pos = NoPosition,
                               ![p].equity = 0, ![p].approved = FALSE]
       ELSE Answer(p, "risk_rejected")
    /\ UNCHANGED clock

-------------------------------------------------------------------------------
(***************************************************************************)
(* Execution: PaperExecutionService.execute, apply_execution and           *)
(* record_execution, one transaction.                                      *)
(***************************************************************************)

\* The persisted intent has the signature of the one in hand (nothing changes
\* it), so what decides is whether the intent already has a fill.
CheckFill(p) ==
    LET filled == \E f \in fills : f.order = loc[p].order
    IN  /\ Step(p, "checkFill", IF filled THEN "commitExecution" ELSE "checkState")
        /\ UNCHANGED <<db, clock, loc, tx>>

\* Mutant of CheckSystemState: the evaluation's look at the state is enough.
CheckSystemStateSkipped(p) ==
    LET i == loc[p].intent
        mayExecute == i.status = "APPROVED" /\ i.approved /\ loc[p].active
    IN  /\ Step(p, "checkState", IF mayExecute THEN "execBalance" ELSE "failed")
        /\ UNCHANGED <<db, clock, loc, tx>>

\* The system state is read again; the intent is the one in hand.
CheckSystemState(p) ==
    LET i == loc[p].intent
        mayExecute == /\ risk.sys = "ENABLED"
                      /\ i.status = "APPROVED" /\ i.approved
                      /\ loc[p].active
                      /\ FillPrice(Side(p), loc[p].tick) > 0
    IN  /\ Step(p, "checkState", IF mayExecute THEN "execBalance" ELSE "failed")
        /\ UNCHANGED <<db, clock, loc, tx>>

ExecBalance(p) ==
    /\ Step(p, "execBalance", "execPosition")
    /\ loc' = [loc EXCEPT ![p].cash = cash]
    /\ UNCHANGED <<db, clock, tx>>

\* get_position and _apply: insufficient cash or position rejects.
ExecPosition(p) ==
    LET position == pos[Symbol(p)]
        price == FillPrice(Side(p), loc[p].tick)
    IN  /\ Step(p, "execPosition",
                IF Affordable(Side(p), Qty(p), price, loc[p].cash, position)
                THEN "insertFill" ELSE "failed")
        /\ loc' = [loc EXCEPT ![p].pos = position]
        /\ UNCHANGED <<db, clock, tx>>

\* What p computed from its ticker and from the cash and position it read.
Price(p)       == FillPrice(Side(p), loc[p].tick)
NewCash(p)     == CashAfter(Side(p), Qty(p), Price(p), loc[p].cash)
NewPosition(p) == PositionAfter(Side(p), Qty(p), Price(p), loc[p].pos)

\* Mutant of NewEquity: the position is valued as it was before the fill.
NewEquityBefore(p) == SnapshotEquity(NewCash(p), loc[p].pos, loc[p].tick)

NewEquity(p) == SnapshotEquity(NewCash(p), NewPosition(p), loc[p].tick)
NewFill(p) == [order |-> loc[p].order, proc |-> p, at |-> loc[p].now,
               price |-> Price(p),
               realized |-> Realized(Side(p), Qty(p), Price(p), loc[p].pos)]
NewSnapshot(p) == [order |-> loc[p].order, proc |-> p, at |-> loc[p].now,
                   equity |-> NewEquity(p)]

\* Mutant of InsertFill: the fill is committed on its own.
InsertFillAutocommit(p) ==
    LET filled == \E f \in fills : f.order = loc[p].order
    IN  /\ Free(p)
        /\ Step(p, "insertFill", IF filled THEN "commitExecution" ELSE "setBalance")
        /\ fills' = IF filled THEN fills ELSE fills \cup {NewFill(p)}
        /\ loc' = [loc EXCEPT ![p].created = ~filled]
        /\ UNCHANGED <<cash, pos, risk, intents, snaps, events, clock, tx>>

\* INSERT INTO paper_fills ... ON CONFLICT (intent) DO NOTHING.
InsertFill(p) ==
    LET filled == \E f \in fills : f.order = loc[p].order
    IN  /\ Free(p)
        /\ Step(p, "insertFill", IF filled THEN "commitExecution" ELSE "setBalance")
        /\ tx' = [tx EXCEPT ![p].fill = IF filled THEN {} ELSE {NewFill(p)}]
        /\ loc' = [loc EXCEPT ![p].created = ~filled]
        /\ UNCHANGED <<db, clock>>

\* Mutant of SetBalance: the balance is committed on its own.
SetBalanceAutocommit(p) ==
    /\ Step(p, "setBalance", "upsertPosition") /\ Free(p)
    /\ cash' = NewCash(p)
    /\ UNCHANGED <<pos, risk, intents, fills, snaps, events, clock, loc, tx>>

SetBalance(p) ==
    /\ Step(p, "setBalance", "upsertPosition") /\ Free(p)
    /\ tx' = [tx EXCEPT ![p].cash = NewCash(p)]
    /\ UNCHANGED <<db, clock, loc>>

\* The position, then the snapshot (a plain insert).
UpsertPosition(p) ==
    /\ Step(p, "upsertPosition", "finalizeIntent") /\ Free(p)
    /\ tx' = [tx EXCEPT ![p].pos = NewPosition(p), ![p].snap = {NewSnapshot(p)}]
    /\ UNCHANGED <<db, clock, loc>>

\* UPDATE order_intents SET status = FILLED WHERE status = APPROVED; any row
\* count but one is a ReconciliationError.
FinalizeIntent(p) ==
    LET i == intents[loc[p].order]
        updated == i.status = "APPROVED"
    IN  /\ Free(p)
        /\ Step(p, "finalizeIntent", IF updated THEN "readRisk" ELSE "failed")
        /\ tx' = [tx EXCEPT ![p].intent =
                      IF updated THEN [i EXCEPT !.status = "FILLED"] ELSE @]
        /\ UNCHANGED <<db, clock, loc>>

\* record_execution reads the row ...
ReadRisk(p) ==
    /\ Step(p, "readRisk", "saveRisk")
    /\ loc' = [loc EXCEPT ![p].risk = risk]
    /\ UNCHANGED <<db, clock, tx>>

\* Mutant of OpenAfter: it looks at the position as it was before the fill.
OpenAfterBefore(p) == IF loc[p].pos.qty > 0 THEN 1 ELSE 0

\* ... and writes all of it back.  The cycle reports one open position when
\* the symbol it has just traded is not flat, and none when it is.
OpenAfter(p) == IF NewPosition(p).qty > 0 THEN 1 ELSE 0

SaveRisk(p) ==
    /\ Step(p, "saveRisk", "commitExecution") /\ Free(p)
    /\ tx' = [tx EXCEPT ![p].risk =
                  AfterExecution(loc[p].risk, NewFill(p).realized, NewEquity(p),
                                 OpenAfter(p), loc[p].now)]
    /\ UNCHANGED <<db, clock, loc>>

CommitExecution(p) ==
    /\ Step(p, "commitExecution", "listFills")
    /\ Commit(p, {})
    /\ Answer(p, "none")
    /\ UNCHANGED clock

\* The except branch of run: roll back, leave an event, answer 409.
ExecutionFailed(p) ==
    /\ Step(p, "failed", "done")
    /\ Rollback(p)
    /\ events' = events \cup {[type |-> "execution_failed", proc |-> p]}
    /\ Answer(p, "execution_failed")
    /\ UNCHANGED <<cash, pos, risk, intents, fills, snaps, clock>>

-------------------------------------------------------------------------------
(***************************************************************************)
(* Reconciliation: PaperReconciliationService.run, at the end of a cycle   *)
(* and on its own.                                                         *)
(***************************************************************************)

Signed(f) == IF OrderSide[f.order] = "buy" THEN OrderQty[f.order]
                                           ELSE -OrderQty[f.order]
Of(F, s) == {f \in F : OrderSymbol[f.order] = s}
NetQty(F) == MapThenSumSet(Signed, F)

CashFlow(f) == IF OrderSide[f.order] = "buy"
               THEN -Debit(OrderQty[f.order], f.price)
               ELSE Credit(OrderQty[f.order], f.price)
ExpectedCash(F) == InitialCash + MapThenSumSet(CashFlow, F)

\* Mutant of HistoryConsistent: the replay runs from the newest fill backwards.
HistoryConsistentReversed(F, ints) ==
    \A f \in F :
        /\ \A g \in F : f.order = g.order => f = g
        /\ ints[f.order] # None /\ ints[f.order].status = "FILLED"
        /\ NetQty({g \in Of(F, OrderSymbol[f.order]) : g.at >= f.at}) >= 0

\* The replay of the fills, ordered by executed_at, finds no anomaly.
HistoryConsistent(F, ints) ==
    /\ \A f \in F :
        /\ \A g \in F : f.order = g.order => f = g
        /\ ints[f.order] # None /\ ints[f.order].status = "FILLED"
        /\ NetQty({g \in Of(F, OrderSymbol[f.order]) : g.at <= f.at}) >= 0

BalancesConsistent(F, balance, positions) ==
    /\ balance = ExpectedCash(F)
    /\ \A s \in Symbols : positions[s].qty = NetQty(Of(F, s))

StartReconcile(p) ==
    /\ MayArrive(p)
    /\ Step(p, "idle", "listFills")
    /\ UNCHANGED <<db, clock, loc, tx>>

ListFills(p) ==
    /\ Step(p, "listFills", "listBalances")
    /\ loc' = [loc EXCEPT ![p].seen = fills]
    /\ UNCHANGED <<db, clock, tx>>

ListBalances(p) ==
    /\ Step(p, "listBalances", "listPositions")
    /\ loc' = [loc EXCEPT ![p].cash = cash]
    /\ UNCHANGED <<db, clock, tx>>

\* Mutant of ListPositions: the fills are replayed, the balances not compared.
ListPositionsHistoryOnly(p) ==
    LET consistent == HistoryConsistent(loc[p].seen, intents)
    IN  /\ Step(p, "listPositions", IF consistent THEN "commitReport" ELSE "killRead")
        /\ loc' = [loc EXCEPT ![p].seen = {}, ![p].cash = 0, ![p].consistent = consistent]
        /\ UNCHANGED <<db, clock, tx>>

\* list_positions, then the intents one by one (their FILLED status is final,
\* so reading them with the positions loses nothing), then the report.
ListPositions(p) ==
    LET consistent == /\ HistoryConsistent(loc[p].seen, intents)
                      /\ BalancesConsistent(loc[p].seen, loc[p].cash, pos)
    IN  /\ Step(p, "listPositions", IF consistent THEN "commitReport" ELSE "killRead")
        /\ loc' = [loc EXCEPT ![p].seen = {}, ![p].cash = 0,
                              ![p].consistent = consistent]
        /\ UNCHANGED <<db, clock, tx>>

ReadRiskToKill(p) ==
    /\ Step(p, "killRead", IF risk.sys = "KILLED" THEN "commitReport" ELSE "saveKilled")
    /\ loc' = [loc EXCEPT ![p].risk = IF risk.sys = "KILLED" THEN None ELSE risk]
    /\ UNCHANGED <<db, clock, tx>>

SaveKilled(p) ==
    /\ Step(p, "saveKilled", "commitReport") /\ Free(p)
    /\ tx' = [tx EXCEPT ![p].risk = [loc[p].risk EXCEPT !.sys = "KILLED"]]
    /\ UNCHANGED <<db, clock, loc>>

CommitReport(p) ==
    /\ Step(p, "commitReport", "done")
    /\ Commit(p, {IF loc[p].consistent THEN "reconciliation_succeeded"
                                       ELSE "reconciliation_failed"})
    /\ Answer(p, IF loc[p].consistent THEN "filled" ELSE "filled_reconciliation_failed")
    /\ UNCHANGED clock

-------------------------------------------------------------------------------
(***************************************************************************)
(* Administration: AdminStateService._transition in one transaction, which *)
(* the session dependency commits when the route has returned.             *)
(***************************************************************************)

\* Mutant of AllowedFrom: the routine resume also clears KILLED.
AllowedFromAny == [pause |-> {"ENABLED"}, resume |-> {"PAUSED", "KILLED"},
                   kill |-> {"ENABLED", "PAUSED"}, reset |-> {"KILLED"}]

AllowedFrom == [pause |-> {"ENABLED"}, resume |-> {"PAUSED"},
                kill |-> {"ENABLED", "PAUSED"}, reset |-> {"KILLED"}]
Target == [pause |-> "PAUSED", resume |-> "ENABLED", kill |-> "KILLED",
           reset |-> "PAUSED"]

AdminRead(p) ==
    /\ MayArrive(p)
    /\ \E c \in AdminCommands :
          IF risk.sys \in AllowedFrom[c]
          THEN /\ Step(p, "idle", "adminSave")
               /\ loc' = [loc EXCEPT ![p].risk = [risk EXCEPT !.sys = Target[c]]]
          ELSE /\ Step(p, "idle", "done")
               /\ Answer(p, "conflict")
    /\ UNCHANGED <<db, clock, tx>>

AdminSave(p) ==
    /\ Step(p, "adminSave", "adminCommit") /\ Free(p)
    /\ tx' = [tx EXCEPT ![p].risk = loc[p].risk]
    /\ UNCHANGED <<db, clock, loc>>

AdminCommit(p) ==
    /\ Step(p, "adminCommit", "done")
    /\ Commit(p, {"system_state_changed"})
    /\ Answer(p, "changed")
    /\ UNCHANGED clock

-------------------------------------------------------------------------------
(***************************************************************************)
(* Failures.                                                               *)
(***************************************************************************)

\* The process dies, the client disconnects or a statement fails: the open
\* transaction is rolled back and the request leaves no other trace.
Crash(p) ==
    /\ pc[p] \notin {"idle", "done"}
    /\ pc' = [pc EXCEPT ![p] = "done"]
    /\ Rollback(p)
    /\ Answer(p, "crashed")
    /\ UNCHANGED <<db, clock>>

\* PostgreSQL ends one of two transactions that wait for each other.  (A cycle
\* of three is impossible: one of its waits is for the single risk row.)
DeadlockVictim(p) ==
    /\ \E q \in Procs : WaitsFor(p, q) /\ WaitsFor(q, p)
    /\ pc' = [pc EXCEPT ![p] = "done"]
    /\ Rollback(p)
    /\ Answer(p, "deadlock_victim")
    /\ UNCHANGED <<db, clock>>

-------------------------------------------------------------------------------
Evaluation(p) ==
    \/ CycleHold(p) \/ GetTicker(p) \/ QuoteUnavailable(p) \/ GetBalance(p)
    \/ GetPosition(p) \/ LatestSnapshot(p) \/ EvaluateRisk(p) \/ SaveDayReset(p)
    \/ CreateIntent(p) \/ IdempotencyConflict(p) \/ CommitIntent(p)

Execution(p) ==
    \/ CheckFill(p) \/ CheckSystemState(p) \/ ExecBalance(p) \/ ExecPosition(p)
    \/ InsertFill(p) \/ SetBalance(p) \/ UpsertPosition(p) \/ FinalizeIntent(p)
    \/ ReadRisk(p) \/ SaveRisk(p) \/ CommitExecution(p) \/ ExecutionFailed(p)

Reconciliation(p) ==
    \/ ListFills(p) \/ ListBalances(p) \/ ListPositions(p)
    \/ ReadRiskToKill(p) \/ SaveKilled(p) \/ CommitReport(p)

Administration(p) == AdminSave(p) \/ AdminCommit(p)

\* What p does once it has been received, unless it crashes.
Proceed(p) ==
    \/ Evaluation(p) \/ Execution(p) \/ Reconciliation(p) \/ Administration(p)
    \/ DeadlockVictim(p)

\* Nothing is in flight: the bounded instance may stop here.
Quiet == InFlight = {} /\ UNCHANGED vars

Next ==
    \/ \E p \in Requests : Arrive(p)
    \/ \E p \in Reconcilers : StartReconcile(p)
    \/ \E p \in Admins : AdminRead(p)
    \/ \E p \in Procs : Proceed(p) \/ Crash(p)
    \/ Quiet

Spec == Init /\ [][Next]_vars

\* The event loop resumes every request whose database call has returned, and
\* PostgreSQL grants every lock that becomes free and breaks every deadlock.
\* Nothing obliges a client to call or a process to crash.
FairSpec == Spec /\ \A p \in Procs : WF_vars(Proceed(p))
-------------------------------------------------------------------------------
(***************************************************************************)
(* Properties that hold whatever overlaps and whatever crashes.            *)
(***************************************************************************)

\* Every table, variable and buffer has its type; cash and positions are never
\* negative, although two executions may overwrite each other's balances.
TablesOK ==
    /\ cash \in Nat
    /\ pos \in [Symbols -> Position]
    /\ risk \in RiskState
    /\ intents \in [Orders -> IntentRow \cup {None}]
    /\ fills \subseteq FillRow
    /\ snaps \subseteq SnapRow
    /\ events \subseteq [type : EventTypes, proc : Procs]

TypeOK ==
    /\ TablesOK
    /\ clock \in 0..MaxClock
    /\ pc \in [Procs -> Labels]
    /\ loc \in [Procs -> Locals]
    /\ tx \in [Procs -> Writes]

\* An intent is filled at most once, however many retries of the same signal
\* execute it at the same time (apply_execution's ON CONFLICT DO NOTHING).
AtMostOneFill == \A f, g \in fills : f.order = g.order => f = g

Filled(o) == intents[o] # None /\ intents[o].status = "FILLED"

\* Fill, snapshot and FILLED status are committed together or not at all,
\* whichever statement of the execution fails or crashes.
AtomicExecution ==
    /\ \A o \in Orders : Filled(o) <=> \E f \in fills : f.order = o
    /\ {<<f.order, f.proc, f.at>> : f \in fills}
           = {<<s.order, s.proc, s.at>> : s \in snaps}

\* A fill was made by a request whose own risk evaluation approved it and left
\* its audit event before; an older approval of the same intent is not enough.
ReviewedFill ==
    \A f \in fills : /\ [type |-> "risk_approved", proc |-> f.proc] \in events
                     /\ intents[f.order].approved

\* A rejected or filled intent never changes again, an approved one may only
\* become filled, and no retry rewrites its reference price.
IntentIsFinal ==
    [][\A o \in Orders :
          /\ intents[o] # None => intents'[o] # None /\ intents'[o].ref = intents[o].ref
          /\ intents[o] # None /\ intents'[o] # intents[o] =>
                intents[o].status = "APPROVED" /\ intents'[o].status = "FILLED"]_intents

Unanswered(p) == loc[p].outcome \in {"crashed", "deadlock_victim"}

\* When cash or positions disagree with the fills (two executions overlapped)
\* and every request was answered, some reconciliation has reported it: the
\* last one to commit a fill reconciles after everything else is visible.
DivergenceReported ==
    /\ InFlight = {} /\ \A p \in Procs : ~Unanswered(p)
    /\ ~BalancesConsistent(fills, cash, pos)
    => \E e \in events : e.type = "reconciliation_failed"

\* Every request that was received is answered or dies.
EveryRequestEnds == \A p \in Procs : pc[p] # "idle" ~> pc[p] = "done"

\* After the fill of an order is committed, whatever a request for that order
\* does, retry or competitor, approved, refused, conflicting or dying, books
\* nothing: not in cash, positions and fills, and not in the intent itself.
RetryBooksNothing ==
    [][\A p \in Requests :
          /\ pc[p] # "idle" /\ <<pc'[p], loc'[p], tx'[p]>> # <<pc[p], loc[p], tx[p]>>
          /\ \E f \in fills : f.order = loc[p].order
          => UNCHANGED <<cash, pos, fills, intents>>]_vars

\* A request that has passed the executor's last look at the system state, or
\* that carries a copy of the risk row from before the kill.
PastTheCheck(p) ==
    \/ pc[p] \in {"execBalance", "execPosition", "insertFill"} \/ tx[p].fill # {}
    \/ \E r \in {loc[p].risk, tx[p].risk} \ {None} : r.sys # "KILLED"

Stopped == risk.sys = "KILLED" /\ \A p \in Procs : ~PastTheCheck(p)

\* docs/paper-trading.md:38-39, as far as it is true of overlapping requests:
\* once a kill finds no request past the check nothing is filled, approved
\* intents included, until the administrator begins another transition.
KillStopsPendingExecution ==
    [][Stopped => /\ fills' = fills
                  /\ \/ Stopped'
                     \/ \E p \in Admins : pc[p] = "idle" /\ pc'[p] = "adminSave"]_vars

-------------------------------------------------------------------------------
(***************************************************************************)
(* Properties of requests that do not overlap (MaxInFlight = 1), with      *)
(* crashes and retries.                                                    *)
(***************************************************************************)

\* Cash and every position are exactly what the fills say: a crash loses a
\* whole execution or none of it, and a retry books nothing twice.
LedgerExact == BalancesConsistent(fills, cash, pos)

\* The account implements the ledger of PaperLedger: an order is booked by the
\* commit of its execution and by no other step.
Ledger == INSTANCE PaperLedger WITH
    balance <- cash,
    holding <- [s \in Symbols |-> pos[s].qty],
    booked  <- {f.order : f \in fills},
    switch  <- risk.sys

RefinesLedger == Ledger!Spec

\* Reconciliation of an account that only cycles have touched never fails.
NoFalseAlarm == \A e \in events : e.type # "reconciliation_failed"

\* The risk row's realized_pnl, on which the daily loss limit rests, is the sum
\* over the fills of the row's trading day, across day resets and crashes.
DailyPnlExact ==
    risk.pnl = MapThenSumSet(LAMBDA f : f.realized,
                             {f \in fills : Day(f.at) = risk.day})

\* docs/paper-trading.md:40-44.  KILLED is left by the administrator's
\* reset-kill, for PAUSED, and by nothing else.
KillIsSticky ==
    [][risk.sys = "KILLED" /\ risk'.sys # "KILLED" =>
          /\ risk'.sys = "PAUSED"
          /\ \E p \in Admins : pc[p] = "adminCommit" /\ pc'[p] = "done"]_vars

\* The equity that the rules are about to see is the account's, at a price the
\* exchange has quoted: the newest snapshot, which values one symbol only, stands
\* for the whole account as long as one symbol is traded.
EquityIsCurrent ==
    \A p \in Requests : pc[p] = "evaluate" =>
        \E t \in Tickers :
            loc[p].equity = cash + MapThenSumSet(LAMBDA s : pos[s].qty * t.last, Symbols)

\* The 0 or 1 that a cycle writes into open_positions is the number of open
\* positions, across sales, crashes and day resets, as long as one symbol is
\* traded; with two symbols and a limit above one it is too small.
OpenPositionsCounted ==
    (\A p \in Procs : tx[p] = NoWrites)
        => risk.open = Cardinality({s \in Symbols : pos[s].qty > 0})
===============================================================================
