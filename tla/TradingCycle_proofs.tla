------------------------- MODULE TradingCycle_proofs --------------------------
(***************************************************************************)
(* What holds of the trading core for any number of requests, reconcilers, *)
(* operators, orders and symbols, however they overlap and crash.          *)
(* 1. The ledger arithmetic keeps amounts natural numbers as long as       *)
(* _apply's two checks let a fill through.                                 *)
(* 2. Type correctness.                                                    *)
(* 3. An order is filled at most once and as a whole, after a review, and an*)
(* intent never leaves a final state.                                      *)
(* 4. The account is written with a fill, so a retry books nothing.        *)
(***************************************************************************)
EXTENDS TradingCycle, TLAPS

(***************************************************************************)
(* 1. The ledger arithmetic, for every price, fee and slippage setting.    *)
(***************************************************************************)

\* A non-negative amount scaled by basis points is non-negative.
LEMMA ScaledIsNat ==
    ASSUME NEW n \in Nat, NEW b \in Nat
    PROVE  (n * b) \div BPS \in Nat
<1>1. n * b \in Nat
    OBVIOUS
<1>2. ASSUME NEW m \in Nat PROVE m \div 10000 \in Nat
    OBVIOUS
<1> QED BY <1>1, <1>2 DEF BPS

\* A fee of at most 100 percent never exceeds the notional it is taken from.
LEMMA FeeIsPart ==
    ASSUME NEW n \in Nat
    PROVE  Fee(n) \in Nat /\ Fee(n) <= n
<1>0. FeeBps \in Nat /\ FeeBps <= 10000
    BY PaperSettings DEF BPS
<1>1. n * FeeBps \in Nat /\ n * FeeBps <= n * 10000
    BY <1>0
<1>2. ASSUME NEW m \in Nat, m <= n * 10000 PROVE m \div 10000 \in Nat /\ m \div 10000 <= n
    BY <1>2
<1> QED BY <1>1, <1>2 DEF Fee, BPS

\* The slipped price of a quote is a price.
LEMMA FillPriceIsNat ==
    ASSUME NEW side, NEW tick \in Ticker
    PROVE  FillPrice(side, tick) \in Nat
<1>1. BPS + SlippageBps \in Nat /\ BPS - SlippageBps \in Nat
    BY PaperSettings DEF BPS
<1>2. tick.ask \in Nat /\ tick.bid \in Nat
    BY DEF Ticker
<1> QED BY <1>1, <1>2, ScaledIsNat DEF FillPrice

LEMMA DebitAndCreditAreNat ==
    ASSUME NEW qty \in Nat, NEW price \in Nat
    PROVE  Debit(qty, price) \in Nat /\ Credit(qty, price) \in Nat
<1>1. qty * price \in Nat
    OBVIOUS
<1> QED BY <1>1, FeeIsPart DEF Debit, Credit

\* A fill that _apply lets through leaves no negative balance.
LEMMA CashAfterIsNat ==
    ASSUME NEW side, NEW qty \in Nat, NEW price \in Nat, NEW balance \in Nat,
           NEW position \in Position,
           Affordable(side, qty, price, balance, position)
    PROVE  CashAfter(side, qty, price, balance) \in Nat
<1>1. Debit(qty, price) \in Nat /\ Credit(qty, price) \in Nat
    BY DebitAndCreditAreNat
<1> QED BY <1>1 DEF CashAfter, Affordable

LEMMA QuotientIsNat ==
    ASSUME NEW n \in Nat, NEW d \in Nat, d > 0
    PROVE  n \div d \in Nat
OBVIOUS

LEMMA RealizedIsInt ==
    ASSUME NEW side, NEW qty \in Nat, NEW price \in Nat, NEW position \in Position
    PROVE  Realized(side, qty, price, position) \in Int
<1>1. position.avg \in Nat
    BY DEF Position
<1>2. qty * position.avg \in Nat
    BY <1>1
<1> QED BY <1>2, DebitAndCreditAreNat DEF Realized

\* ... and no short position, and an average cost that is an amount.
LEMMA PositionAfterIsPosition ==
    ASSUME NEW side, NEW qty \in Nat \ {0}, NEW price \in Nat, NEW balance \in Nat,
           NEW position \in Position,
           Affordable(side, qty, price, balance, position)
    PROVE  PositionAfter(side, qty, price, position) \in Position
<1> DEFINE bought == position.qty + qty
           left   == position.qty - qty
           cost   == position.qty * position.avg + Debit(qty, price)
<1>1. position.qty \in Nat /\ position.avg \in Nat /\ position.pnl \in Int
    BY DEF Position
<1>2. CASE side = "buy"
    <2>1. bought \in Nat /\ bought > 0
        BY <1>1
    <2>2. position.qty * position.avg \in Nat
        BY <1>1
    <2>3. cost \in Nat
        <3>1. Debit(qty, price) \in Nat
            BY DebitAndCreditAreNat
        <3> QED BY <2>2, <3>1
    <2>4. cost \div bought \in Nat
        BY <2>1, <2>3, QuotientIsNat
    <2>5. PositionAfter(side, qty, price, position)
              = [position EXCEPT !.qty = bought, !.avg = cost \div bought]
        BY <1>2 DEF PositionAfter
    <2> QED BY <2>1, <2>4, <2>5 DEF Position
<1>3. CASE side # "buy"
    <2>1. left \in Nat
        BY <1>1, <1>3 DEF Affordable
    <2>2. Realized(side, qty, price, position) \in Int
        BY RealizedIsInt
    <2> QED BY <1>1, <1>3, <2>1, <2>2 DEF PositionAfter, Position
<1> QED BY <1>2, <1>3

\* The day reset and record_execution return complete risk rows.
LEMMA ResetIsRiskState ==
    ASSUME NEW state \in RiskState, NEW day \in Nat, NEW equity \in Int
    PROVE  ResetForDay(state, day, equity) \in RiskState
BY DEF ResetForDay, RiskState

LEMMA ExecutionIsRiskState ==
    ASSUME NEW state \in RiskState, NEW realized \in Int, NEW equity \in Int,
           NEW open \in Nat, NEW now \in Nat
    PROVE  AfterExecution(state, realized, equity, open, now) \in RiskState
BY RiskSettings DEF AfterExecution, RiskState

(***************************************************************************)
(* 2. Type correctness.  TypeOK is not inductive: that a debit leaves a    *)
(* natural number needs the affordability check to be about the very values*)
(* that are written, and that an intent's status can be updated needs the  *)
(* intent to exist.  TypeInv adds both.                                    *)
(***************************************************************************)

\* From the affordability check to the last write.
Paying == {"insertFill", "setBalance", "upsertPosition", "finalizeIntent",
           "readRisk", "saveRisk"}

\* What a request's variables are worth at each label.
LocalsOK(p) ==
    /\ pc[p] \in CycleSteps => p \in Requests /\ loc[p].order \in Orders
    /\ pc[p] \in CycleSteps \ {"hold", "quote"} => loc[p].tick \in Tickers
    /\ pc[p] \in {"saveDayReset", "saveRisk", "saveKilled", "adminSave"} =>
          loc[p].risk \in RiskState
    /\ pc[p] \in Paying =>
          Affordable(Side(p), Qty(p), Price(p), loc[p].cash, loc[p].pos)
    /\ pc[p] = "commitIntent" => tx[p].intent # None \/ intents[loc[p].order] # None
    /\ pc[p] \in Paying \cup {"checkFill", "checkState", "execBalance", "execPosition"} =>
          intents[loc[p].order] # None

TypeInv == TypeOK /\ \A p \in Procs : LocalsOK(p)

LEMMA TypeInit == Init => TypeInv
<1> SUFFICES ASSUME Init PROVE TypeInv
    OBVIOUS
<1>1. TypeOK
    BY CycleConstants DEF Init, TypeOK, TablesOK, Labels, Fresh, Locals, Writes, NoWrites,
        NoPosition, Position, FreshRiskState, RiskState, SystemStates, Outcomes
<1>2. ASSUME NEW p \in Procs PROVE LocalsOK(p)
    BY DEF Init, LocalsOK, Paying, CycleSteps
<1> QED BY <1>1, <1>2 DEF TypeInv

-------------------------------------------------------------------------------
(***************************************************************************)
(* A step of p leaves the variables of the others alone and deletes no     *)
(* intent, so what they rely on stays true.                                *)
(***************************************************************************)
Alone(p) ==
    /\ pc' = [pc EXCEPT ![p] = pc'[p]]
    /\ loc' = [loc EXCEPT ![p] = loc'[p]]
    /\ tx' = [tx EXCEPT ![p] = tx'[p]]
    /\ \A o \in Orders : intents[o] # None => intents'[o] # None

LEMMA OthersKeepLocals ==
    ASSUME TypeInv, NEW p \in Procs, Alone(p), NEW q \in Procs, q # p
    PROVE  LocalsOK(q)'
<1>1. pc'[q] = pc[q] /\ loc'[q] = loc[q] /\ tx'[q] = tx[q]
    BY DEF Alone, TypeInv, TypeOK
<1>2. LocalsOK(q)
    BY DEF TypeInv
<1>3. pc[q] \in CycleSteps => loc[q].order \in Orders
    BY <1>2 DEF LocalsOK
<1> QED BY <1>1, <1>2, <1>3 DEF LocalsOK, Alone, Side, Qty, Price, Paying, CycleSteps

\* What one step of p has to show.
LEMMA OneStep ==
    ASSUME TypeInv, NEW p \in Procs, TypeOK', Alone(p), LocalsOK(p)'
    PROVE  TypeInv'
BY OthersKeepLocals DEF TypeInv

LEMMA AnswerIsLocals ==
    ASSUME TypeOK, NEW p \in Procs, NEW o \in Outcomes, Answer(p, o)
    PROVE  /\ loc' \in [Procs -> Locals]
           /\ loc' = [loc EXCEPT ![p] = loc'[p]]
<1> DEFINE answer == Fresh(loc[p].order, loc[p].now, o)
<1>1. loc[p].order \in Orders \cup {None} /\ loc[p].now \in Nat
    BY DEF TypeOK, Locals
<1>2. answer \in Locals
    BY <1>1 DEF Fresh, Locals, NoPosition, Position
<1>3. loc' = [loc EXCEPT ![p] = answer]
    BY DEF Answer
<1> HIDE DEF answer
<1> QED BY <1>2, <1>3 DEF TypeOK

LEMMA RollbackIsWrites ==
    ASSUME TypeOK, NEW p \in Procs, Rollback(p)
    PROVE  /\ tx' \in [Procs -> Writes]
           /\ tx' = [tx EXCEPT ![p] = tx'[p]]
BY DEF TypeOK, Rollback, NoWrites, Writes

LEMMA CommitIsTables ==
    ASSUME TypeOK, NEW p \in Procs, NEW E \in SUBSET EventTypes, Commit(p, E)
    PROVE  /\ TablesOK' /\ tx' \in [Procs -> Writes]
           /\ tx' = [tx EXCEPT ![p] = tx'[p]]
           /\ \A o \in Orders : intents[o] # None => intents'[o] # None
<1>1. tx[p] \in Writes
    BY DEF TypeOK
<1>2. /\ tx[p].cash \in Nat \cup {None} /\ tx[p].pos \in Position \cup {None}
      /\ tx[p].risk \in RiskState \cup {None} /\ tx[p].intent \in IntentRow \cup {None}
      /\ tx[p].fill \subseteq FillRow /\ tx[p].snap \subseteq SnapRow
    BY <1>1 DEF Writes
<1>3. cash' \in Nat /\ risk' \in RiskState
    BY <1>2 DEF Commit, TypeOK, TablesOK
<1>4. pos' \in [Symbols -> Position]
    BY <1>2 DEF Commit, TypeOK, TablesOK
<1>5. intents' \in [Orders -> IntentRow \cup {None}]
    BY <1>2 DEF Commit, TypeOK, TablesOK
<1>6. fills' \subseteq FillRow /\ snaps' \subseteq SnapRow
    BY <1>2 DEF Commit, TypeOK, TablesOK
<1>7. events' \subseteq [type : EventTypes, proc : Procs]
    BY DEF Commit, TypeOK, TablesOK
<1>8. tx' \in [Procs -> Writes] /\ tx' = [tx EXCEPT ![p] = tx'[p]]
    BY DEF Commit, TypeOK, NoWrites, Writes
<1>9. \A o \in Orders : intents[o] # None => intents'[o] # None
    BY <1>2 DEF Commit, TypeOK, TablesOK
<1> QED BY <1>3, <1>4, <1>5, <1>6, <1>7, <1>8, <1>9 DEF TablesOK

\* The records that have to be updated in more than one field at a time.
LEMMA TwoFields ==
    /\ \A r \in Locals, t \in Tickers, b \in BOOLEAN : [r EXCEPT !.tick = t, !.active = b] \in Locals
    /\ \A r \in Locals, s \in RiskState, b \in BOOLEAN : [r EXCEPT !.risk = s, !.approved = b] \in Locals
    /\ \A r \in Locals, i \in IntentRow : [r EXCEPT !.intent = i, !.risk = None] \in Locals
    /\ \A r \in Locals, o \in Orders, t \in Nat : [r EXCEPT !.order = o, !.now = t] \in Locals
<1>1. ASSUME NEW r \in Locals, NEW t \in Tickers, NEW b \in BOOLEAN
      PROVE  [r EXCEPT !.tick = t, !.active = b] \in Locals
    BY DEF Locals
<1>2. ASSUME NEW r \in Locals, NEW s \in RiskState, NEW b \in BOOLEAN
      PROVE  [r EXCEPT !.risk = s, !.approved = b] \in Locals
    BY DEF Locals
<1>3. ASSUME NEW r \in Locals, NEW i \in IntentRow
      PROVE  [r EXCEPT !.intent = i, !.risk = None] \in Locals
    BY DEF Locals
<1>4. ASSUME NEW r \in Locals, NEW o \in Orders, NEW t \in Nat
      PROVE  [r EXCEPT !.order = o, !.now = t] \in Locals
    BY DEF Locals
<1> QED BY <1>1, <1>2, <1>3, <1>4

LEMMA MoreFields ==
    ASSUME NEW r \in Locals
    PROVE  /\ [r EXCEPT !.cash = 0, !.pos = NoPosition, !.equity = 0, !.approved = FALSE] \in Locals
           /\ \A b \in BOOLEAN : [r EXCEPT !.seen = {}, !.cash = 0, !.consistent = b] \in Locals
<1>1. ASSUME NEW s \in Locals PROVE [s EXCEPT !.cash = 0] \in Locals
    BY DEF Locals
<1>2. ASSUME NEW s \in Locals PROVE [s EXCEPT !.pos = NoPosition] \in Locals
    BY DEF Locals, NoPosition, Position
<1>3. ASSUME NEW s \in Locals PROVE [s EXCEPT !.equity = 0] \in Locals
    BY DEF Locals
<1>4. ASSUME NEW s \in Locals PROVE [s EXCEPT !.approved = FALSE] \in Locals
    BY DEF Locals
<1>5. ASSUME NEW s \in Locals PROVE [s EXCEPT !.seen = {}] \in Locals
    BY DEF Locals
<1>6. ASSUME NEW s \in Locals, NEW b \in BOOLEAN PROVE [s EXCEPT !.consistent = b] \in Locals
    BY DEF Locals
<1>7. [r EXCEPT !.cash = 0, !.pos = NoPosition, !.equity = 0, !.approved = FALSE] \in Locals
    BY <1>1, <1>2, <1>3, <1>4
<1>8. ASSUME NEW b \in BOOLEAN
      PROVE  [r EXCEPT !.seen = {}, !.cash = 0, !.consistent = b] \in Locals
    BY <1>1, <1>5, <1>6
<1> QED BY <1>7, <1>8

-------------------------------------------------------------------------------
LEMMA EvaluationType ==
    ASSUME TypeInv, NEW p \in Procs, Evaluation(p)
    PROVE  TypeInv'
<1>0. TypeOK /\ LocalsOK(p)
    BY DEF TypeInv
<1>a. SUFFICES TypeOK' /\ Alone(p) /\ LocalsOK(p)'
    BY OneStep
<1>b. /\ p \in Requests /\ loc[p] \in Locals /\ loc[p].order \in Orders
      /\ Symbol(p) \in Symbols /\ Qty(p) \in Nat \ {0}
      /\ loc[p].now \in Nat /\ loc[p].equity \in Int
    BY <1>0, CycleConstants DEF TypeOK, LocalsOK, Locals, Symbol, Qty, CycleSteps, Step, Evaluation,
        CycleHold, GetTicker, QuoteUnavailable, GetBalance, GetPosition, LatestSnapshot,
        EvaluateRisk, SaveDayReset, CreateIntent, IdempotencyConflict, CommitIntent
<1>1. CASE CycleHold(p)
    <2>1. {"cycle_hold"} \in SUBSET EventTypes /\ "hold" \in Outcomes
        BY DEF EventTypes, Outcomes
    <2>2. Commit(p, {"cycle_hold"}) /\ Answer(p, "hold")
        BY <1>1 DEF CycleHold
    <2>3. /\ loc' \in [Procs -> Locals]
          /\ loc' = [loc EXCEPT ![p] = loc'[p]]
        BY <1>0, <2>1, <2>2, AnswerIsLocals
    <2>4. /\ TablesOK' /\ tx' \in [Procs -> Writes]
          /\ tx' = [tx EXCEPT ![p] = tx'[p]]
          /\ \A o \in Orders : intents[o] # None => intents'[o] # None
        BY <1>0, <2>1, <2>2, CommitIsTables
    <2>5. pc' = [pc EXCEPT ![p] = "done"] /\ clock' = clock
        BY <1>1 DEF CycleHold, Step
    <2> QED BY <1>0, <2>3, <2>4, <2>5 DEF TypeOK, Alone, LocalsOK, Labels, CycleSteps, Paying
<1>2. CASE GetTicker(p)
    <2>1. PICK t \in Tickers, b \in BOOLEAN : loc' = [loc EXCEPT ![p].tick = t, ![p].active = b]
        BY <1>2 DEF GetTicker
    <2>2. loc' = [loc EXCEPT ![p] = [loc[p] EXCEPT !.tick = t, !.active = b]]
        BY <1>0, <2>1 DEF TypeOK
    <2>3. [loc[p] EXCEPT !.tick = t, !.active = b] \in Locals
        BY <1>b, TwoFields
    <2>4. loc' \in [Procs -> Locals] /\ loc'[p].order = loc[p].order /\ loc'[p].tick = t
        BY <1>0, <1>b, <2>2, <2>3 DEF TypeOK, Locals
    <2>5. /\ pc' = [pc EXCEPT ![p] = "getBalance"] /\ UNCHANGED <<db, clock, tx>>
        BY <1>2 DEF GetTicker, Step
    <2>6. TypeOK'
        BY <1>0, <2>4, <2>5 DEF TypeOK, TablesOK, db, Labels, CycleSteps
    <2>7. Alone(p)
        BY <1>0, <2>2, <2>5 DEF TypeOK, db, Alone
    <2> QED BY <1>0, <1>b, <2>4, <2>5, <2>6, <2>7 DEF TypeOK, LocalsOK, CycleSteps, Paying
<1>3. CASE QuoteUnavailable(p)
    <2>1. /\ loc' \in [Procs -> Locals]
          /\ loc' = [loc EXCEPT ![p] = loc'[p]]
        BY <1>0, <1>3, AnswerIsLocals DEF QuoteUnavailable, Outcomes
    <2>2. pc' = [pc EXCEPT ![p] = "done"] /\ UNCHANGED <<db, clock, tx>>
        BY <1>3 DEF QuoteUnavailable, Step
    <2> QED BY <1>0, <2>1, <2>2 DEF TypeOK, TablesOK, db, Alone, LocalsOK, Labels, CycleSteps, Paying
<1>4. CASE GetBalance(p)
    <2>1. loc' \in [Procs -> Locals]
        BY <1>0, <1>4 DEF GetBalance, TypeOK, TablesOK, Locals
    <2>2. TypeOK'
        BY <1>0, <1>4, <2>1 DEF TypeOK, TablesOK, GetBalance, Step, db, Labels, CycleSteps
    <2>3. Alone(p)
        BY <1>0, <1>4 DEF TypeOK, GetBalance, Step, db, Alone
    <2>4. LocalsOK(p)'
        BY <1>0, <1>4 DEF TypeOK, GetBalance, Step, db, LocalsOK, CycleSteps, Locals, Paying
    <2> QED BY <2>2, <2>3, <2>4
<1>5. CASE GetPosition(p)
    <2>1. loc' \in [Procs -> Locals]
        BY <1>0, <1>b, <1>5 DEF GetPosition, TypeOK, TablesOK, Locals
    <2>2. TypeOK'
        BY <1>0, <1>5, <2>1 DEF TypeOK, TablesOK, GetPosition, Step, db, Labels, CycleSteps
    <2>3. Alone(p)
        BY <1>0, <1>5 DEF TypeOK, GetPosition, Step, db, Alone
    <2>4. LocalsOK(p)'
        BY <1>0, <1>5 DEF TypeOK, GetPosition, Step, db, LocalsOK, CycleSteps, Locals, Paying
    <2> QED BY <2>2, <2>3, <2>4
<1>6. CASE LatestSnapshot(p)
    <2>1. PICK e \in Int : loc' = [loc EXCEPT ![p].equity = e]
        BY <1>0, <1>b, <1>6 DEF LatestSnapshot, TypeOK, TablesOK, SnapRow, Locals
    <2>2. loc' \in [Procs -> Locals]
        BY <1>0, <2>1 DEF TypeOK, Locals
    <2>3. pc' = [pc EXCEPT ![p] = "evaluate"] /\ pc[p] = "latestSnapshot" /\ UNCHANGED <<db, clock, tx>>
        BY <1>6 DEF LatestSnapshot, Step
    <2>4. TypeOK'
        BY <1>0, <2>2, <2>3 DEF TypeOK, TablesOK, db, Labels, CycleSteps
    <2>5. Alone(p)
        BY <1>0, <2>1, <2>3 DEF TypeOK, db, Alone
    <2>6. LocalsOK(p)'
        BY <1>0, <2>1, <2>3 DEF TypeOK, db, LocalsOK, CycleSteps, Locals, Paying
    <2> QED BY <2>4, <2>5, <2>6
<1>7. CASE EvaluateRisk(p)
    <2> DEFINE state == ResetForDay(risk, Day(loc[p].now), loc[p].equity)
               ok == Approves(Qty(p), Context(p), state)
               r == [loc[p] EXCEPT !.risk = state, !.approved = ok]
    <2>1. Day(loc[p].now) \in Nat
        BY <1>b, CycleConstants, QuotientIsNat DEF Day
    <2>2. state \in RiskState
        BY <1>0, <1>b, <2>1, ResetIsRiskState DEF TypeOK, TablesOK
    <2>3. ok \in BOOLEAN
        BY DEF Approves
    <2>4. loc' = [loc EXCEPT ![p] = r]
        BY <1>0, <1>7 DEF EvaluateRisk, TypeOK
    <2>5. pc[p] = "evaluate" /\ pc'[p] \in {"createIntent", "saveDayReset"}
        BY <1>0, <1>7 DEF EvaluateRisk, Step, TypeOK
    <2>6. pc' = [pc EXCEPT ![p] = pc'[p]] /\ UNCHANGED <<db, clock, tx>>
        BY <1>0, <1>7 DEF EvaluateRisk, Step, TypeOK
    <2> HIDE DEF state, ok
    <2>7. r \in Locals /\ r.order = loc[p].order /\ r.tick = loc[p].tick /\ r.risk = state
        <3>1. r \in Locals
            BY <1>b, <2>2, <2>3, TwoFields
        <3> QED BY <1>b, <3>1 DEF Locals
    <2> HIDE DEF r
    <2>8. loc' \in [Procs -> Locals] /\ loc'[p] = r
        BY <1>0, <2>4, <2>7 DEF TypeOK
    <2>9. TypeOK'
        BY <1>0, <2>5, <2>6, <2>8 DEF TypeOK, TablesOK, db, Labels, CycleSteps
    <2>10. Alone(p)
        BY <1>0, <2>4, <2>6, <2>8 DEF TypeOK, db, Alone
    <2>11. LocalsOK(p)'
        BY <1>0, <1>b, <2>2, <2>5, <2>7, <2>8 DEF LocalsOK, CycleSteps, Paying
    <2> QED BY <2>9, <2>10, <2>11
<1>8. CASE SaveDayReset(p)
    <2>1. tx' \in [Procs -> Writes]
        BY <1>0, <1>8 DEF SaveDayReset, Step, TypeOK, Writes, LocalsOK
    <2>2. TypeOK'
        BY <1>0, <1>8, <2>1 DEF TypeOK, TablesOK, SaveDayReset, Step, db, Labels, CycleSteps
    <2>3. Alone(p)
        BY <1>0, <1>8 DEF TypeOK, SaveDayReset, Step, db, Alone
    <2>4. LocalsOK(p)'
        BY <1>0, <1>8 DEF TypeOK, SaveDayReset, Step, db, LocalsOK, CycleSteps, Paying
    <2> QED BY <2>2, <2>3, <2>4
<1>9. CASE CreateIntent(p)
    <2>1. NewIntent(p) \in IntentRow
        BY <1>0, <1>9, CycleConstants DEF CreateIntent, Step, LocalsOK, CycleSteps, NewIntent, IntentRow,
            TypeOK, Locals, Ticker
    <2>2. PICK i \in IntentRow :
              /\ loc' = [loc EXCEPT ![p].intent = i, ![p].risk = None]
              /\ \/ tx' = [tx EXCEPT ![p].intent = i]
                 \/ tx' = tx /\ intents[loc[p].order] # None
        BY <1>0, <1>b, <1>9, <2>1 DEF CreateIntent, TypeOK, TablesOK
    <2>3. pc[p] = "createIntent" /\ pc' = [pc EXCEPT ![p] = "commitIntent"] /\ UNCHANGED <<db, clock>>
        BY <1>9 DEF CreateIntent, Step
    <2> DEFINE r == [loc[p] EXCEPT !.intent = i, !.risk = None]
    <2>4. loc' = [loc EXCEPT ![p] = r]
        BY <1>0, <2>2 DEF TypeOK
    <2>5. r \in Locals /\ r.order = loc[p].order /\ r.tick = loc[p].tick
        <3>1. r \in Locals
            BY <1>b, TwoFields
        <3> QED BY <1>b, <3>1 DEF Locals
    <2> HIDE DEF r
    <2>6. loc' \in [Procs -> Locals] /\ loc'[p] = r
        BY <1>0, <2>4, <2>5 DEF TypeOK
    <2>7. tx' \in [Procs -> Writes] /\ tx' = [tx EXCEPT ![p] = tx'[p]]
        <3> DEFINE w == [tx[p] EXCEPT !.intent = i]
        <3>1. w \in Writes
            BY <1>0 DEF TypeOK, Writes
        <3>2. CASE tx' = [tx EXCEPT ![p].intent = i]
            <4>1. tx' = [tx EXCEPT ![p] = w]
                BY <1>0, <3>2 DEF TypeOK
            <4> HIDE DEF w
            <4> QED BY <1>0, <3>1, <4>1 DEF TypeOK
        <3>3. CASE tx' = tx
            BY <1>0, <3>3 DEF TypeOK
        <3> QED BY <2>2, <3>2, <3>3
    <2>8. TypeOK'
        BY <1>0, <2>3, <2>6, <2>7 DEF TypeOK, TablesOK, db, Labels, CycleSteps
    <2>9. Alone(p)
        BY <1>0, <2>3, <2>4, <2>6, <2>7 DEF TypeOK, db, Alone
    <2>10. tx'[p].intent # None \/ intents[loc[p].order] # None
        BY <1>0, <2>2, NoneIsNoRow DEF TypeOK, Writes
    <2>11. LocalsOK(p)'
        BY <1>0, <2>3, <2>5, <2>6, <2>10 DEF LocalsOK, CycleSteps, Paying, TypeOK, db
    <2> QED BY <2>8, <2>9, <2>11
<1>10. CASE IdempotencyConflict(p)
    <2>1. /\ loc' \in [Procs -> Locals]
          /\ loc' = [loc EXCEPT ![p] = loc'[p]]
        BY <1>0, <1>10, AnswerIsLocals DEF IdempotencyConflict, Outcomes
    <2>2. /\ tx' \in [Procs -> Writes]
          /\ tx' = [tx EXCEPT ![p] = tx'[p]]
        BY <1>0, <1>10, RollbackIsWrites DEF IdempotencyConflict
    <2>3. pc' = [pc EXCEPT ![p] = "done"] /\ UNCHANGED <<db, clock>>
        BY <1>10 DEF IdempotencyConflict, Step
    <2> QED BY <1>0, <2>1, <2>2, <2>3 DEF TypeOK, TablesOK, db, Alone, LocalsOK, Labels, CycleSteps, Paying
<1>11. CASE CommitIntent(p)
    <2> DEFINE E == {IF loc[p].approved THEN "risk_approved" ELSE "risk_rejected"}
               r == [loc[p] EXCEPT !.cash = 0, !.pos = NoPosition, !.equity = 0, !.approved = FALSE]
    <2>1. E \in SUBSET EventTypes /\ "risk_rejected" \in Outcomes
        BY DEF EventTypes, Outcomes
    <2>2. Commit(p, E) /\ pc[p] = "commitIntent" /\ clock' = clock
        BY <1>11 DEF CommitIntent, Step
    <2>3. /\ TablesOK' /\ tx' \in [Procs -> Writes]
          /\ tx' = [tx EXCEPT ![p] = tx'[p]]
          /\ \A o \in Orders : intents[o] # None => intents'[o] # None
        BY <1>0, <2>1, <2>2, CommitIsTables
    <2>4. intents'[loc[p].order] # None
        BY <1>0, <1>b, <2>2 DEF LocalsOK, Commit, TypeOK, TablesOK
    <2>5. CASE loc[p].approved
        <3>1. loc' = [loc EXCEPT ![p] = r]
            BY <1>0, <1>11, <2>5 DEF CommitIntent, TypeOK
        <3>2. r \in Locals /\ r.order = loc[p].order /\ r.tick = loc[p].tick
            BY <1>b, MoreFields DEF Locals
        <3> HIDE DEF r
        <3>3. loc' \in [Procs -> Locals] /\ loc'[p] = r
            BY <1>0, <3>1, <3>2 DEF TypeOK
        <3>4. pc' = [pc EXCEPT ![p] = "checkFill"]
            BY <1>11, <2>5 DEF CommitIntent, Step
        <3>5. TypeOK'
            BY <1>0, <2>2, <2>3, <3>3, <3>4 DEF TypeOK, Labels, CycleSteps
        <3>6. Alone(p)
            BY <1>0, <2>3, <3>1, <3>3, <3>4 DEF TypeOK, Alone
        <3>7. LocalsOK(p)'
            BY <1>0, <2>2, <2>4, <3>2, <3>3, <3>4 DEF LocalsOK, CycleSteps, Paying, TypeOK
        <3> QED BY <3>5, <3>6, <3>7
    <2>6. CASE ~loc[p].approved
        <3>1. Answer(p, "risk_rejected") /\ pc' = [pc EXCEPT ![p] = "done"]
            BY <1>11, <2>6 DEF CommitIntent, Step
        <3>2. /\ loc' \in [Procs -> Locals]
              /\ loc' = [loc EXCEPT ![p] = loc'[p]]
            BY <1>0, <2>1, <3>1, AnswerIsLocals
        <3> QED BY <1>0, <2>2, <2>3, <3>1, <3>2 DEF TypeOK, Alone, LocalsOK, Labels, CycleSteps, Paying
    <2> QED BY <2>5, <2>6
<1> QED BY <1>1, <1>2, <1>3, <1>4, <1>5, <1>6, <1>7, <1>8, <1>9, <1>10, <1>11 DEF Evaluation

-------------------------------------------------------------------------------
\* What an execution computes has its type at every label where it is used.
LEMMA ComputedValues ==
    ASSUME TypeInv, NEW p \in Procs, pc[p] \in Paying
    PROVE  /\ NewCash(p) \in Nat /\ NewPosition(p) \in Position
           /\ NewEquity(p) \in Int
           /\ NewFill(p) \in FillRow /\ NewSnapshot(p) \in SnapRow
<1>1. TypeOK /\ LocalsOK(p)
    BY DEF TypeInv
<1>2. /\ p \in Requests /\ loc[p].order \in Orders /\ loc[p].tick \in Ticker
      /\ loc[p].now \in Nat /\ loc[p].cash \in Nat /\ loc[p].pos \in Position
    BY <1>1, CycleConstants DEF TypeOK, Locals, LocalsOK, Paying, CycleSteps
<1>3. Qty(p) \in Nat \ {0}
    BY <1>2, CycleConstants DEF Qty
<1>4. Price(p) \in Nat
    BY <1>2, FillPriceIsNat DEF Price
<1>5. Affordable(Side(p), Qty(p), Price(p), loc[p].cash, loc[p].pos)
    BY <1>1 DEF LocalsOK
<1>6. NewCash(p) \in Nat
    BY <1>2, <1>3, <1>4, <1>5, CashAfterIsNat DEF NewCash
<1>7. NewPosition(p) \in Position
    BY <1>2, <1>3, <1>4, <1>5, PositionAfterIsPosition DEF NewPosition
<1>8. NewEquity(p) \in Int
    <2>1. NewPosition(p).qty \in Nat /\ loc[p].tick.last \in Nat
        BY <1>2, <1>7 DEF Position, Ticker
    <2>2. NewPosition(p).qty * loc[p].tick.last \in Nat
        BY <2>1
    <2> QED BY <1>6, <2>2 DEF NewEquity, SnapshotEquity
<1>9. Realized(Side(p), Qty(p), Price(p), loc[p].pos) \in Int
    BY <1>2, <1>3, <1>4, RealizedIsInt
<1> QED BY <1>2, <1>4, <1>6, <1>7, <1>8, <1>9 DEF NewFill, FillRow, NewSnapshot, SnapRow

LEMMA ExecutionType ==
    ASSUME TypeInv, NEW p \in Procs, Execution(p)
    PROVE  TypeInv'
<1>0. TypeOK /\ LocalsOK(p)
    BY DEF TypeInv
<1>a. SUFFICES TypeOK' /\ Alone(p) /\ LocalsOK(p)'
    BY OneStep
<1>b. loc[p] \in Locals /\ tx[p] \in Writes
    BY <1>0 DEF TypeOK
<1>c. pc[p] \in Paying => loc[p].order \in Orders
    BY <1>0 DEF LocalsOK, Paying, CycleSteps
<1>1. CASE CheckFill(p)
    <2>1. pc[p] = "checkFill" /\ pc'[p] \in {"commitExecution", "checkState"}
        BY <1>0, <1>1 DEF CheckFill, Step, TypeOK
    <2>2. pc' = [pc EXCEPT ![p] = pc'[p]] /\ UNCHANGED <<db, clock, loc, tx>>
        BY <1>0, <1>1 DEF CheckFill, Step, TypeOK
    <2> QED BY <1>0, <2>1, <2>2 DEF TypeOK, TablesOK, db, Alone, LocalsOK, Labels, CycleSteps, Paying
<1>2. CASE CheckSystemState(p)
    <2>1. pc[p] = "checkState" /\ pc'[p] \in {"execBalance", "failed"}
        BY <1>0, <1>2 DEF CheckSystemState, Step, TypeOK
    <2>2. pc' = [pc EXCEPT ![p] = pc'[p]] /\ UNCHANGED <<db, clock, loc, tx>>
        BY <1>0, <1>2 DEF CheckSystemState, Step, TypeOK
    <2> QED BY <1>0, <2>1, <2>2 DEF TypeOK, TablesOK, db, Alone, LocalsOK, Labels, CycleSteps, Paying
<1>3. CASE ExecBalance(p)
    <2>1. loc' \in [Procs -> Locals]
        BY <1>0, <1>3 DEF ExecBalance, TypeOK, TablesOK, Locals
    <2>2. TypeOK'
        BY <1>0, <1>3, <2>1 DEF TypeOK, TablesOK, ExecBalance, Step, db, Labels, CycleSteps
    <2>3. Alone(p)
        BY <1>0, <1>3 DEF TypeOK, ExecBalance, Step, db, Alone
    <2>4. LocalsOK(p)'
        BY <1>0, <1>3 DEF TypeOK, ExecBalance, Step, db, LocalsOK, CycleSteps, Locals, Paying
    <2> QED BY <2>2, <2>3, <2>4
<1>4. CASE ExecPosition(p)
    <2> DEFINE position == pos[Symbol(p)]
               ok == Affordable(Side(p), Qty(p), FillPrice(Side(p), loc[p].tick),
                                loc[p].cash, position)
    <2>1. loc[p].order \in Orders /\ pc[p] = "execPosition"
        BY <1>0, <1>4 DEF ExecPosition, Step, LocalsOK, CycleSteps
    <2>2. position \in Position
        BY <1>0, <2>1, CycleConstants DEF TypeOK, TablesOK, Symbol
    <2>3. loc' = [loc EXCEPT ![p].pos = position]
        BY <1>4 DEF ExecPosition
    <2>4. pc' = [pc EXCEPT ![p] = IF ok THEN "insertFill" ELSE "failed"]
        BY <1>4 DEF ExecPosition, Step
    <2>5. UNCHANGED <<db, clock, tx>>
        BY <1>4 DEF ExecPosition
    <2> HIDE DEF position
    <2>6. loc' \in [Procs -> Locals]
        BY <1>0, <2>2, <2>3 DEF TypeOK, Locals
    <2>7. /\ loc'[p].order = loc[p].order /\ loc'[p].tick = loc[p].tick
          /\ loc'[p].cash = loc[p].cash /\ loc'[p].pos = position
        BY <1>0, <2>3 DEF TypeOK, Locals
    <2>8. ok => Affordable(Side(p), Qty(p), Price(p), loc[p].cash, loc[p].pos)'
        BY <2>7 DEF Side, Qty, Price
    <2> HIDE DEF ok
    <2>9. TypeOK'
        BY <1>0, <2>4, <2>5, <2>6 DEF TypeOK, TablesOK, db, Labels, CycleSteps
    <2>10. Alone(p)
        BY <1>0, <2>3, <2>4, <2>5 DEF TypeOK, db, Alone
    <2>11. pc'[p] = IF ok THEN "insertFill" ELSE "failed"
        BY <1>0, <2>4 DEF TypeOK
    <2>12. LocalsOK(p)'
        BY <1>0, <2>1, <2>5, <2>7, <2>8, <2>11 DEF LocalsOK, CycleSteps, Paying, db
    <2> QED BY <2>9, <2>10, <2>12
<1>5. CASE InsertFill(p)
    <2> DEFINE filled == \E f \in fills : f.order = loc[p].order
    <2>1. pc[p] = "insertFill" /\ NewFill(p) \in FillRow
        BY <1>5, ComputedValues DEF InsertFill, Step, Paying
    <2>2. PICK F \in SUBSET FillRow : tx' = [tx EXCEPT ![p].fill = F]
        BY <1>5, <2>1 DEF InsertFill
    <2>3. tx' \in [Procs -> Writes] /\ tx' = [tx EXCEPT ![p] = tx'[p]]
        BY <1>0, <2>2 DEF TypeOK, Writes
    <2>4. PICK b \in BOOLEAN : loc' = [loc EXCEPT ![p].created = b]
        BY <1>5 DEF InsertFill
    <2>5. loc' \in [Procs -> Locals] /\ loc' = [loc EXCEPT ![p] = loc'[p]]
        BY <1>0, <2>4 DEF TypeOK, Locals
    <2>6. pc' = [pc EXCEPT ![p] = pc'[p]] /\ pc'[p] \in {"commitExecution", "setBalance"}
        BY <1>0, <1>5 DEF InsertFill, Step, TypeOK
    <2>7. UNCHANGED <<db, clock>>
        BY <1>5 DEF InsertFill
    <2>8. TypeOK'
        BY <1>0, <2>3, <2>5, <2>6, <2>7 DEF TypeOK, TablesOK, db, Labels, CycleSteps
    <2>9. Alone(p)
        BY <2>3, <2>5, <2>6, <2>7 DEF db, Alone
    <2>10. /\ loc'[p].order = loc[p].order /\ loc'[p].tick = loc[p].tick
           /\ loc'[p].cash = loc[p].cash /\ loc'[p].pos = loc[p].pos
        BY <1>0, <2>4 DEF TypeOK, Locals
    <2>11. LocalsOK(p)'
        BY <1>0, <2>1, <2>6, <2>7, <2>10
        DEF LocalsOK, CycleSteps, Paying, db, Side, Qty, Price
    <2> QED BY <2>8, <2>9, <2>11
<1>6. CASE SetBalance(p)
    <2>1. pc[p] = "setBalance" /\ NewCash(p) \in Nat
        BY <1>6, ComputedValues DEF SetBalance, Step, Paying
    <2>2. tx' = [tx EXCEPT ![p].cash = NewCash(p)]
        BY <1>6 DEF SetBalance
    <2>3. tx' \in [Procs -> Writes] /\ tx' = [tx EXCEPT ![p] = tx'[p]]
        BY <1>0, <2>1, <2>2 DEF TypeOK, Writes
    <2>4. pc' = [pc EXCEPT ![p] = "upsertPosition"] /\ UNCHANGED <<db, clock, loc>>
        BY <1>6 DEF SetBalance, Step
    <2>5. TypeOK'
        BY <1>0, <2>3, <2>4 DEF TypeOK, TablesOK, db, Labels, CycleSteps
    <2>6. Alone(p)
        BY <1>0, <2>3, <2>4 DEF TypeOK, db, Alone
    <2>7. LocalsOK(p)'
        BY <1>0, <2>1, <2>4 DEF TypeOK, LocalsOK, CycleSteps, Paying, db, Side, Qty, Price
    <2> QED BY <2>5, <2>6, <2>7
<1>7. CASE UpsertPosition(p)
    <2> DEFINE r == [tx[p] EXCEPT !.pos = NewPosition(p), !.snap = {NewSnapshot(p)}]
    <2>1. pc[p] = "upsertPosition" /\ NewPosition(p) \in Position /\ NewSnapshot(p) \in SnapRow
        BY <1>7, ComputedValues DEF UpsertPosition, Step, Paying
    <2>2. r \in Writes
        BY <1>b, <2>1 DEF Writes
    <2>3. tx' = [tx EXCEPT ![p] = r]
        BY <1>0, <1>7 DEF UpsertPosition, TypeOK
    <2> HIDE DEF r
    <2>4. tx' \in [Procs -> Writes] /\ tx' = [tx EXCEPT ![p] = tx'[p]]
        BY <1>0, <2>2, <2>3 DEF TypeOK
    <2>5. pc' = [pc EXCEPT ![p] = "finalizeIntent"] /\ UNCHANGED <<db, clock, loc>>
        BY <1>7 DEF UpsertPosition, Step
    <2>6. TypeOK'
        BY <1>0, <2>4, <2>5 DEF TypeOK, TablesOK, db, Labels, CycleSteps
    <2>7. Alone(p)
        BY <1>0, <2>4, <2>5 DEF TypeOK, db, Alone
    <2>8. LocalsOK(p)'
        BY <1>0, <2>1, <2>5 DEF TypeOK, LocalsOK, CycleSteps, Paying, db, Side, Qty, Price
    <2> QED BY <2>6, <2>7, <2>8
<1>8. CASE FinalizeIntent(p)
    <2> DEFINE i == intents[loc[p].order]
    <2>1. pc[p] = "finalizeIntent" /\ pc'[p] \in {"readRisk", "failed"}
        BY <1>0, <1>8 DEF FinalizeIntent, Step, TypeOK
    <2>2. i \in IntentRow
        BY <1>0, <1>c, <2>1 DEF TypeOK, TablesOK, LocalsOK, Paying
    <2>3. [i EXCEPT !.status = "FILLED"] \in IntentRow
        BY <2>2 DEF IntentRow
    <2>4. PICK w \in IntentRow \cup {None} : tx' = [tx EXCEPT ![p].intent = w]
        BY <1>8, <1>b, <2>3 DEF FinalizeIntent, Writes
    <2>5. tx' \in [Procs -> Writes] /\ tx' = [tx EXCEPT ![p] = tx'[p]]
        BY <1>0, <2>4 DEF TypeOK, Writes
    <2>6. pc' = [pc EXCEPT ![p] = pc'[p]] /\ UNCHANGED <<db, clock, loc>>
        BY <1>0, <1>8 DEF FinalizeIntent, Step, TypeOK
    <2>7. TypeOK'
        BY <1>0, <2>1, <2>5, <2>6 DEF TypeOK, TablesOK, db, Labels, CycleSteps
    <2>8. Alone(p)
        BY <1>0, <2>5, <2>6 DEF TypeOK, db, Alone
    <2>9. LocalsOK(p)'
        BY <1>0, <2>1, <2>6 DEF TypeOK, LocalsOK, CycleSteps, Paying, db, Side, Qty, Price
    <2> QED BY <2>7, <2>8, <2>9
<1>9. CASE ReadRisk(p)
    <2>1. loc' = [loc EXCEPT ![p].risk = risk] /\ risk \in RiskState
        BY <1>0, <1>9 DEF ReadRisk, TypeOK, TablesOK
    <2>2. loc' \in [Procs -> Locals] /\ loc' = [loc EXCEPT ![p] = loc'[p]]
        BY <1>0, <2>1 DEF TypeOK, Locals
    <2>3. /\ loc'[p].order = loc[p].order /\ loc'[p].tick = loc[p].tick
          /\ loc'[p].cash = loc[p].cash /\ loc'[p].pos = loc[p].pos
          /\ loc'[p].risk = risk
        BY <1>0, <2>1 DEF TypeOK, Locals
    <2>4. pc[p] = "readRisk" /\ pc' = [pc EXCEPT ![p] = "saveRisk"] /\ UNCHANGED <<db, clock, tx>>
        BY <1>9 DEF ReadRisk, Step
    <2>5. TypeOK'
        BY <1>0, <2>2, <2>4 DEF TypeOK, TablesOK, db, Labels, CycleSteps
    <2>6. Alone(p)
        BY <1>0, <2>2, <2>4 DEF TypeOK, db, Alone
    <2>7. LocalsOK(p)'
        BY <1>0, <2>1, <2>3, <2>4 DEF TypeOK, LocalsOK, CycleSteps, Paying, db, Side, Qty, Price
    <2> QED BY <2>5, <2>6, <2>7
<1>10. CASE SaveRisk(p)
    <2> DEFINE after == AfterExecution(loc[p].risk, NewFill(p).realized, NewEquity(p),
                                       OpenAfter(p), loc[p].now)
    <2>1. /\ pc[p] = "saveRisk" /\ loc[p].risk \in RiskState
          /\ NewFill(p) \in FillRow /\ NewEquity(p) \in Int
        BY <1>0, <1>10, ComputedValues DEF SaveRisk, Step, Paying, LocalsOK
    <2>2. NewFill(p).realized \in Int /\ loc[p].now \in Nat /\ OpenAfter(p) \in Nat
        BY <1>b, <2>1 DEF FillRow, Locals, OpenAfter
    <2>3. after \in RiskState
        BY <2>1, <2>2, ExecutionIsRiskState
    <2>4. tx' = [tx EXCEPT ![p].risk = after]
        BY <1>10 DEF SaveRisk
    <2> HIDE DEF after
    <2>5. tx' \in [Procs -> Writes] /\ tx' = [tx EXCEPT ![p] = tx'[p]]
        BY <1>0, <2>3, <2>4 DEF TypeOK, Writes
    <2>6. pc' = [pc EXCEPT ![p] = "commitExecution"] /\ UNCHANGED <<db, clock, loc>>
        BY <1>10 DEF SaveRisk, Step
    <2>7. TypeOK'
        BY <1>0, <2>5, <2>6 DEF TypeOK, TablesOK, db, Labels, CycleSteps
    <2>8. Alone(p)
        BY <1>0, <2>5, <2>6 DEF TypeOK, db, Alone
    <2>9. LocalsOK(p)'
        BY <1>0, <2>1, <2>6 DEF TypeOK, LocalsOK, CycleSteps, Paying, db
    <2> QED BY <2>7, <2>8, <2>9
<1>11. CASE CommitExecution(p)
    <2>1. {} \in SUBSET EventTypes /\ "none" \in Outcomes
        BY DEF Outcomes
    <2>2. Commit(p, {}) /\ Answer(p, "none")
        BY <1>11 DEF CommitExecution
    <2>3. /\ loc' \in [Procs -> Locals]
          /\ loc' = [loc EXCEPT ![p] = loc'[p]]
        BY <1>0, <2>1, <2>2, AnswerIsLocals
    <2>4. /\ TablesOK' /\ tx' \in [Procs -> Writes]
          /\ tx' = [tx EXCEPT ![p] = tx'[p]]
          /\ \A o \in Orders : intents[o] # None => intents'[o] # None
        BY <1>0, <2>1, <2>2, CommitIsTables
    <2>5. pc' = [pc EXCEPT ![p] = "listFills"] /\ clock' = clock
        BY <1>11 DEF CommitExecution, Step
    <2> QED BY <1>0, <2>3, <2>4, <2>5
        DEF TypeOK, Alone, LocalsOK, Labels, ReconcileSteps, CycleSteps, Paying
<1>12. CASE ExecutionFailed(p)
    <2>1. /\ loc' \in [Procs -> Locals]
          /\ loc' = [loc EXCEPT ![p] = loc'[p]]
        BY <1>0, <1>12, AnswerIsLocals DEF ExecutionFailed, Outcomes
    <2>2. /\ tx' \in [Procs -> Writes]
          /\ tx' = [tx EXCEPT ![p] = tx'[p]]
        BY <1>0, <1>12, RollbackIsWrites DEF ExecutionFailed
    <2>3. /\ pc' = [pc EXCEPT ![p] = "done"]
          /\ UNCHANGED <<cash, pos, risk, intents, fills, snaps, clock>>
        BY <1>12 DEF ExecutionFailed, Step
    <2>4. events' \subseteq [type : EventTypes, proc : Procs]
        BY <1>0, <1>12 DEF ExecutionFailed, TypeOK, TablesOK, EventTypes
    <2> QED BY <1>0, <2>1, <2>2, <2>3, <2>4
        DEF TypeOK, TablesOK, Alone, LocalsOK, Labels, CycleSteps, Paying
<1> QED BY <1>1, <1>2, <1>3, <1>4, <1>5, <1>6, <1>7, <1>8, <1>9, <1>10, <1>11, <1>12 DEF Execution

-------------------------------------------------------------------------------
LEMMA ReconciliationType ==
    ASSUME TypeInv, NEW p \in Procs, Reconciliation(p)
    PROVE  TypeInv'
<1>0. TypeOK /\ LocalsOK(p)
    BY DEF TypeInv
<1>a. SUFFICES TypeOK' /\ Alone(p) /\ LocalsOK(p)'
    BY OneStep
<1>b. loc[p] \in Locals
    BY <1>0 DEF TypeOK
<1>1. CASE ListFills(p)
    <2>1. loc' \in [Procs -> Locals]
        BY <1>0, <1>1 DEF ListFills, TypeOK, TablesOK, Locals
    <2>2. TypeOK'
        BY <1>0, <1>1, <2>1 DEF TypeOK, TablesOK, ListFills, Step, db, Labels, ReconcileSteps
    <2>3. Alone(p)
        BY <1>0, <1>1 DEF TypeOK, ListFills, Step, db, Alone
    <2>4. LocalsOK(p)'
        BY <1>0, <1>1 DEF TypeOK, ListFills, Step, db, LocalsOK, CycleSteps, Paying
    <2> QED BY <2>2, <2>3, <2>4
<1>2. CASE ListBalances(p)
    <2>1. loc' \in [Procs -> Locals]
        BY <1>0, <1>2 DEF ListBalances, TypeOK, TablesOK, Locals
    <2>2. TypeOK'
        BY <1>0, <1>2, <2>1 DEF TypeOK, TablesOK, ListBalances, Step, db, Labels, ReconcileSteps
    <2>3. Alone(p)
        BY <1>0, <1>2 DEF TypeOK, ListBalances, Step, db, Alone
    <2>4. LocalsOK(p)'
        BY <1>0, <1>2 DEF TypeOK, ListBalances, Step, db, LocalsOK, CycleSteps, Paying
    <2> QED BY <2>2, <2>3, <2>4
<1>3. CASE ListPositions(p)
    <2> DEFINE ok == /\ HistoryConsistent(loc[p].seen, intents)
                     /\ BalancesConsistent(loc[p].seen, loc[p].cash, pos)
               r == [loc[p] EXCEPT !.seen = {}, !.cash = 0, !.consistent = ok]
    <2>1. ok \in BOOLEAN
        OBVIOUS
    <2>2. loc' = [loc EXCEPT ![p] = r]
        BY <1>0, <1>3 DEF ListPositions, TypeOK
    <2>3. pc' = [pc EXCEPT ![p] = IF ok THEN "commitReport" ELSE "killRead"]
        BY <1>3 DEF ListPositions, Step
    <2>4. UNCHANGED <<db, clock, tx>>
        BY <1>3 DEF ListPositions
    <2> HIDE DEF ok
    <2>5. r \in Locals
        BY <1>b, <2>1, MoreFields
    <2> HIDE DEF r
    <2>6. loc' \in [Procs -> Locals] /\ loc' = [loc EXCEPT ![p] = loc'[p]]
        BY <1>0, <2>2, <2>5 DEF TypeOK
    <2> QED BY <1>0, <2>3, <2>4, <2>6
        DEF TypeOK, TablesOK, db, Alone, LocalsOK, Labels, ReconcileSteps, CycleSteps, Paying
<1>4. CASE ReadRiskToKill(p)
    <2> DEFINE v == IF risk.sys = "KILLED" THEN None ELSE risk
    <2>1. loc' = [loc EXCEPT ![p].risk = v] /\ UNCHANGED <<db, clock, tx>>
        BY <1>4 DEF ReadRiskToKill
    <2>2. pc' = [pc EXCEPT ![p] = IF risk.sys = "KILLED" THEN "commitReport" ELSE "saveKilled"]
        BY <1>4 DEF ReadRiskToKill, Step
    <2>3. risk \in RiskState
        BY <1>0 DEF TypeOK, TablesOK
    <2>4. loc' \in [Procs -> Locals] /\ loc' = [loc EXCEPT ![p] = loc'[p]]
        BY <1>0, <2>1, <2>3 DEF TypeOK, Locals
    <2>5. TypeOK'
        BY <1>0, <2>1, <2>2, <2>4 DEF TypeOK, TablesOK, db, Labels, ReconcileSteps
    <2>6. Alone(p)
        BY <1>0, <2>1, <2>2, <2>4 DEF TypeOK, db, Alone
    <2>7. pc'[p] = "saveKilled" => loc'[p].risk \in RiskState
        BY <1>0, <2>1, <2>2, <2>3 DEF TypeOK, Locals
    <2>8. pc'[p] \in {"commitReport", "saveKilled"}
        BY <1>0, <2>2 DEF TypeOK
    <2>9. LocalsOK(p)'
        BY <2>7, <2>8 DEF LocalsOK, CycleSteps, Paying
    <2> QED BY <2>5, <2>6, <2>9
<1>5. CASE SaveKilled(p)
    <2> DEFINE killed == [loc[p].risk EXCEPT !.sys = "KILLED"]
    <2>1. loc[p].risk \in RiskState
        BY <1>0, <1>5 DEF SaveKilled, Step, LocalsOK
    <2>2. killed \in RiskState
        BY <2>1 DEF RiskState, SystemStates
    <2>3. tx' = [tx EXCEPT ![p].risk = killed]
        BY <1>5 DEF SaveKilled
    <2> HIDE DEF killed
    <2>4. tx' \in [Procs -> Writes] /\ tx' = [tx EXCEPT ![p] = tx'[p]]
        BY <1>0, <2>2, <2>3 DEF TypeOK, Writes
    <2>5. pc' = [pc EXCEPT ![p] = "commitReport"] /\ UNCHANGED <<db, clock, loc>>
        BY <1>5 DEF SaveKilled, Step
    <2> QED BY <1>0, <2>4, <2>5
        DEF TypeOK, TablesOK, db, Alone, LocalsOK, Labels, ReconcileSteps, CycleSteps, Paying
<1>6. CASE CommitReport(p)
    <2> DEFINE E == {IF loc[p].consistent THEN "reconciliation_succeeded"
                                          ELSE "reconciliation_failed"}
               o == IF loc[p].consistent THEN "filled" ELSE "filled_reconciliation_failed"
    <2>1. E \in SUBSET EventTypes /\ o \in Outcomes
        BY DEF EventTypes, Outcomes
    <2>2. Commit(p, E) /\ Answer(p, o)
        BY <1>6 DEF CommitReport
    <2> HIDE DEF E, o
    <2>3. /\ loc' \in [Procs -> Locals]
          /\ loc' = [loc EXCEPT ![p] = loc'[p]]
        BY <1>0, <2>1, <2>2, AnswerIsLocals
    <2>4. /\ TablesOK' /\ tx' \in [Procs -> Writes]
          /\ tx' = [tx EXCEPT ![p] = tx'[p]]
          /\ \A x \in Orders : intents[x] # None => intents'[x] # None
        BY <1>0, <2>1, <2>2, CommitIsTables
    <2>5. pc' = [pc EXCEPT ![p] = "done"] /\ clock' = clock
        BY <1>6 DEF CommitReport, Step
    <2> QED BY <1>0, <2>3, <2>4, <2>5 DEF TypeOK, Alone, LocalsOK, Labels, CycleSteps, Paying
<1> QED BY <1>1, <1>2, <1>3, <1>4, <1>5, <1>6 DEF Reconciliation

LEMMA AdministrationType ==
    ASSUME TypeInv, NEW p \in Procs, Administration(p)
    PROVE  TypeInv'
<1>0. TypeOK /\ LocalsOK(p)
    BY DEF TypeInv
<1>a. SUFFICES TypeOK' /\ Alone(p) /\ LocalsOK(p)'
    BY OneStep
<1>1. CASE AdminSave(p)
    <2>1. loc[p].risk \in RiskState
        BY <1>0, <1>1 DEF AdminSave, Step, LocalsOK
    <2>2. tx' \in [Procs -> Writes] /\ tx' = [tx EXCEPT ![p] = tx'[p]]
        BY <1>0, <1>1, <2>1 DEF AdminSave, TypeOK, Writes
    <2>3. pc' = [pc EXCEPT ![p] = "adminCommit"] /\ UNCHANGED <<db, clock, loc>>
        BY <1>1 DEF AdminSave, Step
    <2> QED BY <1>0, <2>2, <2>3
        DEF TypeOK, TablesOK, db, Alone, LocalsOK, Labels, AdminSteps, CycleSteps, Paying
<1>2. CASE AdminCommit(p)
    <2>1. {"system_state_changed"} \in SUBSET EventTypes /\ "changed" \in Outcomes
        BY DEF EventTypes, Outcomes
    <2>2. Commit(p, {"system_state_changed"}) /\ Answer(p, "changed")
        BY <1>2 DEF AdminCommit
    <2>3. /\ loc' \in [Procs -> Locals]
          /\ loc' = [loc EXCEPT ![p] = loc'[p]]
        BY <1>0, <2>1, <2>2, AnswerIsLocals
    <2>4. /\ TablesOK' /\ tx' \in [Procs -> Writes]
          /\ tx' = [tx EXCEPT ![p] = tx'[p]]
          /\ \A o \in Orders : intents[o] # None => intents'[o] # None
        BY <1>0, <2>1, <2>2, CommitIsTables
    <2>5. pc' = [pc EXCEPT ![p] = "done"] /\ clock' = clock
        BY <1>2 DEF AdminCommit, Step
    <2> QED BY <1>0, <2>3, <2>4, <2>5 DEF TypeOK, Alone, LocalsOK, Labels, CycleSteps, Paying
<1> QED BY <1>1, <1>2 DEF Administration

\* A crash and a deadlock victim end the same way: rolled back and done.
LEMMA AbortType ==
    ASSUME TypeInv, NEW p \in Procs, NEW o \in Outcomes,
           pc' = [pc EXCEPT ![p] = "done"], Rollback(p), Answer(p, o),
           UNCHANGED <<db, clock>>
    PROVE  TypeInv'
<1>0. TypeOK
    BY DEF TypeInv
<1>1. /\ loc' \in [Procs -> Locals]
      /\ loc' = [loc EXCEPT ![p] = loc'[p]]
    BY <1>0, AnswerIsLocals
<1>2. /\ tx' \in [Procs -> Writes]
      /\ tx' = [tx EXCEPT ![p] = tx'[p]]
    BY <1>0, RollbackIsWrites
<1>3. TypeOK' /\ Alone(p) /\ LocalsOK(p)'
    BY <1>0, <1>1, <1>2 DEF TypeOK, TablesOK, db, Alone, LocalsOK, Labels, CycleSteps, Paying
<1> QED BY <1>3, OneStep

LEMMA ArrivalType ==
    ASSUME TypeInv, NEW p \in Procs,
           \/ p \in Requests /\ Arrive(p)
           \/ StartReconcile(p)
           \/ AdminRead(p)
    PROVE  TypeInv'
<1>0. TypeOK /\ LocalsOK(p) /\ loc[p] \in Locals
    BY DEF TypeInv, TypeOK
<1>a. SUFFICES TypeOK' /\ Alone(p) /\ LocalsOK(p)'
    BY OneStep
<1>1. CASE p \in Requests /\ Arrive(p)
    <2>1. PICK o \in Orders, t \in (clock + 1)..MaxClock :
              /\ clock' = t
              /\ loc' = [loc EXCEPT ![p].order = o, ![p].now = t]
              /\ Step(p, "idle", IF OrderSide[o] = "hold" THEN "hold" ELSE "quote")
        BY <1>1 DEF Arrive
    <2> DEFINE r == [loc[p] EXCEPT !.order = o, !.now = t]
    <2>2. t \in Nat /\ clock' \in 0..MaxClock
        BY <1>0, <2>1, CycleConstants DEF TypeOK
    <2>3. loc' = [loc EXCEPT ![p] = r]
        BY <1>0, <2>1 DEF TypeOK
    <2>4. r \in Locals /\ r.order = o
        <3>1. r \in Locals
            BY <1>0, <2>2, TwoFields
        <3> QED BY <1>0, <3>1 DEF Locals
    <2> HIDE DEF r
    <2>5. loc' \in [Procs -> Locals] /\ loc'[p] = r
        BY <1>0, <2>3, <2>4 DEF TypeOK
    <2>6. pc' = [pc EXCEPT ![p] = pc'[p]] /\ pc'[p] \in {"hold", "quote"}
        BY <1>0, <2>1 DEF Step, TypeOK
    <2>7. UNCHANGED <<db, tx>>
        BY <1>1 DEF Arrive
    <2>8. TypeOK'
        BY <1>0, <2>2, <2>5, <2>6, <2>7 DEF TypeOK, TablesOK, db, Labels, CycleSteps
    <2>9. Alone(p)
        BY <1>0, <2>3, <2>5, <2>6, <2>7 DEF TypeOK, db, Alone
    <2>10. LocalsOK(p)'
        BY <1>1, <2>4, <2>5, <2>6 DEF LocalsOK, CycleSteps, Paying
    <2> QED BY <2>8, <2>9, <2>10
<1>2. CASE StartReconcile(p)
    <2>1. pc' = [pc EXCEPT ![p] = "listFills"] /\ UNCHANGED <<db, clock, loc, tx>>
        BY <1>2 DEF StartReconcile, Step
    <2> QED BY <1>0, <2>1
        DEF TypeOK, TablesOK, db, Alone, LocalsOK, Labels, ReconcileSteps, CycleSteps, Paying
<1>3. CASE AdminRead(p)
    <2>1. PICK c \in AdminCommands :
              IF risk.sys \in AllowedFrom[c]
              THEN /\ Step(p, "idle", "adminSave")
                   /\ loc' = [loc EXCEPT ![p].risk = [risk EXCEPT !.sys = Target[c]]]
              ELSE /\ Step(p, "idle", "done")
                   /\ Answer(p, "conflict")
        BY <1>3 DEF AdminRead
    <2>2. UNCHANGED <<db, clock, tx>>
        BY <1>3 DEF AdminRead
    <2>3. CASE risk.sys \in AllowedFrom[c]
        <3> DEFINE moved == [risk EXCEPT !.sys = Target[c]]
        <3>1. Target[c] \in SystemStates
            BY CycleConstants DEF Target, SystemStates
        <3>2. moved \in RiskState
            BY <1>0, <3>1 DEF RiskState, TypeOK, TablesOK
        <3>3. loc' = [loc EXCEPT ![p].risk = moved] /\ pc' = [pc EXCEPT ![p] = "adminSave"]
            BY <2>1, <2>3 DEF Step
        <3> HIDE DEF moved
        <3>4. loc' \in [Procs -> Locals] /\ loc'[p].risk = moved
            BY <1>0, <3>2, <3>3 DEF TypeOK, Locals
        <3>5. TypeOK'
            BY <1>0, <2>2, <3>3, <3>4 DEF TypeOK, TablesOK, db, Labels, AdminSteps
        <3>6. Alone(p)
            BY <1>0, <2>2, <3>3, <3>4 DEF TypeOK, db, Alone
        <3>7. LocalsOK(p)'
            BY <1>0, <3>2, <3>3, <3>4 DEF TypeOK, LocalsOK, CycleSteps, Paying
        <3> QED BY <3>5, <3>6, <3>7
    <2>4. CASE risk.sys \notin AllowedFrom[c]
        <3>1. Answer(p, "conflict") /\ pc' = [pc EXCEPT ![p] = "done"] /\ "conflict" \in Outcomes
            BY <2>1, <2>4 DEF Step, Outcomes
        <3>2. /\ loc' \in [Procs -> Locals]
              /\ loc' = [loc EXCEPT ![p] = loc'[p]]
            BY <1>0, <3>1, AnswerIsLocals
        <3> QED BY <1>0, <2>2, <3>1, <3>2
            DEF TypeOK, TablesOK, db, Alone, LocalsOK, Labels, CycleSteps, Paying
    <2> QED BY <2>3, <2>4
<1> QED BY <1>1, <1>2, <1>3

LEMMA TypeStutter == TypeInv /\ UNCHANGED vars => TypeInv'
BY DEF TypeInv, TypeOK, TablesOK, LocalsOK, vars, db, Side, Qty, Price

LEMMA TypeStep == TypeInv /\ [Next]_vars => TypeInv'
<1> SUFFICES ASSUME TypeInv, [Next]_vars PROVE TypeInv'
    OBVIOUS
<1>1. ASSUME NEW p \in Requests, Arrive(p) PROVE TypeInv'
    BY <1>1, ArrivalType DEF Procs
<1>2. ASSUME NEW p \in Reconcilers, StartReconcile(p) PROVE TypeInv'
    BY <1>2, ArrivalType DEF Procs
<1>3. ASSUME NEW p \in Admins, AdminRead(p) PROVE TypeInv'
    BY <1>3, ArrivalType DEF Procs
<1>4. ASSUME NEW p \in Procs, Proceed(p) PROVE TypeInv'
    <2>1. CASE Evaluation(p)
        BY <2>1, EvaluationType
    <2>2. CASE Execution(p)
        BY <2>2, ExecutionType
    <2>3. CASE Reconciliation(p)
        BY <2>3, ReconciliationType
    <2>4. CASE Administration(p)
        BY <2>4, AdministrationType
    <2>5. CASE DeadlockVictim(p)
        <3>1. "deadlock_victim" \in Outcomes
            BY DEF Outcomes
        <3> QED BY <2>5, <3>1, AbortType DEF DeadlockVictim
    <2> QED BY <1>4, <2>1, <2>2, <2>3, <2>4, <2>5 DEF Proceed
<1>5. ASSUME NEW p \in Procs, Crash(p) PROVE TypeInv'
    <2>1. "crashed" \in Outcomes
        BY DEF Outcomes
    <2> QED BY <1>5, <2>1, AbortType DEF Crash
<1>6. CASE Quiet \/ UNCHANGED vars
    BY <1>6, TypeStutter DEF Quiet
<1> QED BY <1>1, <1>2, <1>3, <1>4, <1>5, <1>6 DEF Next

\* Every table, variable and buffer keeps its type in every behaviour: no
\* interleaving of executions stores a negative balance or a short position.
THEOREM TypeCorrect == Spec => []TypeOK
<1>1. Spec => []TypeInv
    BY TypeInit, TypeStep, PTL DEF Spec
<1>2. TypeInv => TypeOK
    BY DEF TypeInv
<1> QED BY <1>1, <1>2, PTL

(***************************************************************************)
(* 3. An order is filled at most once; its fill, snapshot and FILLED status*)
(* are committed together or not at all; an intent never leaves a final    *)
(* state.  The tables alone do not say why.  The reason is in the open     *)
(* transactions: the unique index keeps two of them from holding a fill of *)
(* the same order, the row lock of the intent keeps two of them from holding*)
(* its new status, and a request reaches its commit with all three rows or *)
(* with none.  ExecInv says this of every buffer at every label.           *)
(***************************************************************************)

\* An execution's fill and snapshot are buffered, an intent's new row is.
Empty(p) == tx[p].fill = {} /\ tx[p].snap = {} /\ tx[p].intent = None
Whole(p) == tx[p].fill # {} /\ tx[p].snap # {} /\ tx[p].intent # None

\* The labels at which the transaction is in the middle of an execution.
Busy == {"setBalance", "upsertPosition", "finalizeIntent", "readRisk", "saveRisk"}

\* Which rows a request has buffered at each label, whose they are, and that
\* the tables do not hold them yet.
Buffers(p) ==
    /\ tx[p].fill # {} => /\ pc[p] \in Busy \cup {"commitExecution", "failed"}
                          /\ \A f \in fills : f.order # loc[p].order
    /\ tx[p].snap # {} => pc[p] \in (Busy \ {"setBalance", "upsertPosition"})
                                       \cup {"commitExecution", "failed"}
    /\ tx[p].intent # None => pc[p] \in {"commitIntent", "readRisk", "saveRisk",
                                         "commitExecution"}
    /\ \A f \in tx[p].fill \cup tx[p].snap :
          f.order = loc[p].order /\ f.proc = p /\ f.at = loc[p].now
    /\ \A f, g \in tx[p].fill : f = g
    /\ pc[p] \in {"setBalance", "upsertPosition"} => tx[p].fill # {}
    /\ pc[p] = "finalizeIntent" => tx[p].fill # {} /\ tx[p].snap # {}
    /\ pc[p] \in {"readRisk", "saveRisk"} => Whole(p)
    /\ pc[p] = "commitExecution" => Empty(p) \/ Whole(p)
    /\ tx[p].intent # None =>
          LET i == intents[loc[p].order]
          IN  IF pc[p] = "commitIntent"
              THEN i = None /\ tx[p].intent.status # "FILLED"
              ELSE /\ i # None /\ i.status = "APPROVED"
                   /\ tx[p].intent = [i EXCEPT !.status = "FILLED"]

\* No two open transactions hold rows of the same order.
Apart(p, q) ==
    /\ tx[p].fill # {} /\ tx[q].fill # {} => loc[p].order # loc[q].order
    /\ tx[p].intent # None /\ tx[q].intent # None => loc[p].order # loc[q].order

ExecInv ==
    /\ AtMostOneFill
    /\ AtomicExecution
    /\ \A p \in Procs : Buffers(p)
    /\ \A p, q \in Procs : p # q => Apart(p, q)

LEMMA ExecInit == Init => ExecInv
<1> SUFFICES ASSUME Init PROVE ExecInv
    OBVIOUS
<1>1. AtMostOneFill /\ AtomicExecution
    BY DEF Init, AtMostOneFill, AtomicExecution, Filled
<1>2. ASSUME NEW p \in Procs PROVE Buffers(p)
    BY DEF Init, Buffers, Busy, NoWrites, Empty, Whole
<1>3. ASSUME NEW p \in Procs, NEW q \in Procs PROVE Apart(p, q)
    BY DEF Init, Apart, NoWrites
<1> QED BY <1>1, <1>2, <1>3 DEF ExecInv

-------------------------------------------------------------------------------
\* Only p's own variables and buffer move.
Moves(p) ==
    /\ pc' = [pc EXCEPT ![p] = pc'[p]]
    /\ loc' = [loc EXCEPT ![p] = loc'[p]]
    /\ tx' = [tx EXCEPT ![p] = tx'[p]]

Kept == UNCHANGED <<intents, fills, snaps>>

\* A step that ends with nothing of an execution in the buffer.
Harmless(p) == Moves(p) /\ Kept /\ Empty(p)' /\ pc'[p] \notin Busy

\* A step of p leaves what is known of another request's buffer true, as long
\* as it commits nothing of that request's order.
LEMMA OthersKeepBuffers ==
    ASSUME TypeInv, ExecInv, NEW p \in Procs, Moves(p), NEW q \in Procs, q # p,
           tx[q].fill # {} => \A f \in fills' : f.order # loc[q].order,
           tx[q].intent # None => intents'[loc[q].order] = intents[loc[q].order]
    PROVE  Buffers(q)'
<1>1. pc'[q] = pc[q] /\ loc'[q] = loc[q] /\ tx'[q] = tx[q]
    BY DEF Moves, TypeInv, TypeOK
<1>2. Buffers(q)
    BY DEF ExecInv
<1> QED BY <1>1, <1>2 DEF Buffers, Empty, Whole

LEMMA HarmlessKeepsInv ==
    ASSUME TypeInv, ExecInv, NEW p \in Procs, Harmless(p)
    PROVE  ExecInv'
<1>1. AtMostOneFill' /\ AtomicExecution'
    BY DEF ExecInv, AtMostOneFill, AtomicExecution, Filled, Harmless, Kept
<1>2. Buffers(p)'
    BY DEF Harmless, Buffers, Empty, Busy
<1>3. ASSUME NEW q \in Procs, q # p PROVE Buffers(q)'
    <2>1. Buffers(q)
        BY DEF ExecInv
    <2>2. /\ tx[q].fill # {} => \A f \in fills' : f.order # loc[q].order
          /\ tx[q].intent # None => intents'[loc[q].order] = intents[loc[q].order]
        BY <2>1 DEF Buffers, Harmless, Kept
    <2> QED BY <1>3, <2>2, OthersKeepBuffers DEF Harmless
<1>4. ASSUME NEW q \in Procs, NEW r \in Procs, q # r PROVE Apart(q, r)'
    <2>1. Apart(q, r)
        BY <1>4 DEF ExecInv
    <2>2. \A u \in Procs : u # p => tx'[u] = tx[u] /\ loc'[u] = loc[u]
        BY DEF Harmless, Moves, TypeInv, TypeOK
    <2>3. tx'[p].fill = {} /\ tx'[p].intent = None
        BY DEF Harmless, Empty
    <2> QED BY <2>1, <2>2, <2>3 DEF Apart
<1> QED BY <1>1, <1>2, <1>3, <1>4 DEF ExecInv

\* Outside an execution the buffer is empty.
LEMMA EmptyOutside ==
    ASSUME ExecInv, NEW p \in Procs,
           pc[p] \notin Busy \cup {"commitIntent", "commitExecution", "failed"}
    PROVE  Empty(p)
BY DEF ExecInv, Buffers, Busy, Empty

LEMMA RollbackIsHarmless ==
    ASSUME TypeInv, NEW p \in Procs, NEW o, Rollback(p), Answer(p, o),
           pc' = [pc EXCEPT ![p] = "done"], Kept
    PROVE  Harmless(p)
<1>1. Moves(p)
    BY DEF TypeInv, TypeOK, Moves, Rollback, Answer
<1>2. Empty(p)' /\ pc'[p] = "done"
    BY DEF TypeInv, TypeOK, Rollback, NoWrites, Empty
<1> QED BY <1>1, <1>2 DEF Harmless, Busy

LEMMA EmptyCommitIsHarmless ==
    ASSUME TypeInv, NEW p \in Procs, NEW E, NEW o, NEW there, Empty(p),
           Commit(p, E), Answer(p, o), pc' = [pc EXCEPT ![p] = there], there \notin Busy
    PROVE  Harmless(p)
<1>1. Moves(p)
    BY DEF TypeInv, TypeOK, Moves, Commit, Answer
<1>2. Kept
    BY DEF Empty, Commit, Kept
<1>3. Empty(p)' /\ pc'[p] = there
    BY DEF TypeInv, TypeOK, Commit, NoWrites, Empty
<1> QED BY <1>1, <1>2, <1>3 DEF Harmless

\* Steps that neither begin nor end an execution.
Aside(p) ==
    \/ Arrive(p) \/ CycleHold(p) \/ GetTicker(p) \/ QuoteUnavailable(p) \/ GetBalance(p)
    \/ GetPosition(p) \/ LatestSnapshot(p) \/ EvaluateRisk(p) \/ SaveDayReset(p)
    \/ IdempotencyConflict(p) \/ CheckFill(p) \/ CheckSystemState(p)
    \/ ExecBalance(p) \/ ExecPosition(p) \/ ExecutionFailed(p)
    \/ StartReconcile(p) \/ Reconciliation(p)
    \/ AdminRead(p) \/ Administration(p) \/ DeadlockVictim(p) \/ Crash(p)

LEMMA AsideIsHarmless ==
    ASSUME TypeInv, ExecInv, NEW p \in Procs, Aside(p)
    PROVE  Harmless(p)
<1> USE DEF TypeInv, TypeOK
<1>a. pc[p] \notin Busy \cup {"commitIntent", "commitExecution", "failed"} => Empty(p)
    BY EmptyOutside
<1>1. CASE GetTicker(p) \/ GetBalance(p) \/ GetPosition(p) \/ LatestSnapshot(p)
    <2>1. pc[p] \in {"quote", "getBalance", "getPosition", "latestSnapshot"}
        BY <1>1 DEF GetTicker, GetBalance, GetPosition, LatestSnapshot, Step
    <2>2. UNCHANGED <<db, tx>>
        BY <1>1 DEF GetTicker, GetBalance, GetPosition, LatestSnapshot
    <2>3. pc' = [pc EXCEPT ![p] = pc'[p]] /\ loc' = [loc EXCEPT ![p] = loc'[p]]
        BY <1>1 DEF GetTicker, GetBalance, GetPosition, LatestSnapshot, Step
    <2>4. pc'[p] \in {"getBalance", "getPosition", "latestSnapshot", "evaluate"}
        BY <1>1 DEF GetTicker, GetBalance, GetPosition, LatestSnapshot, Step
    <2> QED BY <1>a, <2>1, <2>2, <2>3, <2>4 DEF Harmless, Moves, Kept, Empty, Busy, db
<1>2. CASE EvaluateRisk(p) \/ SaveDayReset(p)
    <2>1. pc[p] \in {"evaluate", "saveDayReset"} /\ UNCHANGED db
        BY <1>2 DEF EvaluateRisk, SaveDayReset, Step
    <2>2. pc' = [pc EXCEPT ![p] = pc'[p]] /\ loc' = [loc EXCEPT ![p] = loc'[p]]
        BY <1>2 DEF EvaluateRisk, SaveDayReset, Step
    <2>3. pc'[p] \in {"createIntent", "saveDayReset"}
        BY <1>2 DEF EvaluateRisk, SaveDayReset, Step
    <2>4. tx' = [tx EXCEPT ![p] = tx'[p]] /\ (Empty(p) => Empty(p)')
        BY <1>2 DEF EvaluateRisk, SaveDayReset, Empty, Writes
    <2> QED BY <1>a, <2>1, <2>2, <2>3, <2>4 DEF Harmless, Moves, Kept, Busy, db
<1>3. CASE CheckFill(p) \/ CheckSystemState(p) \/ ExecBalance(p) \/ ExecPosition(p)
    <2>1. pc[p] \in {"checkFill", "checkState", "execBalance", "execPosition"}
        BY <1>3 DEF CheckFill, CheckSystemState, ExecBalance, ExecPosition, Step
    <2>2. UNCHANGED <<db, tx>>
        BY <1>3 DEF CheckFill, CheckSystemState, ExecBalance, ExecPosition
    <2>3. pc' = [pc EXCEPT ![p] = pc'[p]] /\ loc' = [loc EXCEPT ![p] = loc'[p]]
        BY <1>3 DEF CheckFill, CheckSystemState, ExecBalance, ExecPosition, Step
    <2>4. pc'[p] \in {"commitExecution", "checkState", "execBalance", "execPosition",
                      "insertFill", "failed"}
        BY <1>3 DEF CheckFill, CheckSystemState, ExecBalance, ExecPosition, Step
    <2> QED BY <1>a, <2>1, <2>2, <2>3, <2>4 DEF Harmless, Moves, Kept, Empty, Busy, db
<1>4. CASE ListFills(p) \/ ListBalances(p) \/ ListPositions(p) \/ ReadRiskToKill(p)
    <2>1. pc[p] \in {"listFills", "listBalances", "listPositions", "killRead"}
        BY <1>4 DEF ListFills, ListBalances, ListPositions, ReadRiskToKill, Step
    <2>2. UNCHANGED <<db, tx>>
        BY <1>4 DEF ListFills, ListBalances, ListPositions, ReadRiskToKill
    <2>3. pc' = [pc EXCEPT ![p] = pc'[p]] /\ loc' = [loc EXCEPT ![p] = loc'[p]]
        BY <1>4 DEF ListFills, ListBalances, ListPositions, ReadRiskToKill, Step
    <2>4. pc'[p] \in {"listBalances", "listPositions", "killRead", "commitReport", "saveKilled"}
        BY <1>4 DEF ListFills, ListBalances, ListPositions, ReadRiskToKill, Step
    <2> QED BY <1>a, <2>1, <2>2, <2>3, <2>4 DEF Harmless, Moves, Kept, Empty, Busy, db
<1>5. CASE SaveKilled(p) \/ AdminSave(p)
    <2>1. pc[p] \in {"saveKilled", "adminSave"} /\ UNCHANGED <<db, loc>>
        BY <1>5 DEF SaveKilled, AdminSave, Step
    <2>2. pc' = [pc EXCEPT ![p] = pc'[p]] /\ pc'[p] \in {"commitReport", "adminCommit"}
        BY <1>5 DEF SaveKilled, AdminSave, Step
    <2>3. tx' = [tx EXCEPT ![p] = tx'[p]] /\ (Empty(p) => Empty(p)')
        BY <1>5 DEF SaveKilled, AdminSave, Empty, Writes
    <2> QED BY <1>a, <2>1, <2>2, <2>3 DEF Harmless, Moves, Kept, Busy, db
<1>6. CASE Arrive(p) \/ StartReconcile(p) \/ AdminRead(p)
    <2>1. pc[p] = "idle" /\ UNCHANGED <<db, tx>>
        BY <1>6 DEF Arrive, StartReconcile, AdminRead, MayArrive
    <2>2. pc' = [pc EXCEPT ![p] = pc'[p]] /\ pc'[p] \in {"hold", "quote", "listFills", "adminSave", "done"}
        BY <1>6 DEF Arrive, StartReconcile, AdminRead, Step
    <2>3. loc' = [loc EXCEPT ![p] = loc'[p]]
        BY <1>6 DEF Arrive, StartReconcile, AdminRead, Answer
    <2> QED BY <1>a, <2>1, <2>2, <2>3 DEF Harmless, Moves, Kept, Empty, Busy, db
<1>7. CASE CycleHold(p)
    <2>1. Empty(p)
        BY <1>a, <1>7 DEF CycleHold, Step, Busy
    <2> QED BY <1>7, <2>1, EmptyCommitIsHarmless DEF CycleHold, Step, Busy
<1>8. CASE CommitReport(p)
    <2>1. Empty(p)
        BY <1>a, <1>8 DEF CommitReport, Step, Busy
    <2> QED BY <1>8, <2>1, EmptyCommitIsHarmless DEF CommitReport, Step, Busy
<1>9. CASE AdminCommit(p)
    <2>1. Empty(p)
        BY <1>a, <1>9 DEF AdminCommit, Step, Busy
    <2> QED BY <1>9, <2>1, EmptyCommitIsHarmless DEF AdminCommit, Step, Busy
<1>10. CASE QuoteUnavailable(p)
    <2>1. Empty(p)
        BY <1>a, <1>10 DEF QuoteUnavailable, Step, Busy
    <2>2. Moves(p) /\ Kept /\ tx' = tx /\ pc'[p] = "done"
        BY <1>10 DEF QuoteUnavailable, Step, Answer, Moves, Kept, db
    <2> QED BY <2>1, <2>2 DEF Harmless, Empty, Busy
<1>11. CASE IdempotencyConflict(p)
    BY <1>11, RollbackIsHarmless DEF IdempotencyConflict, Step, Kept, db
<1>12. CASE ExecutionFailed(p)
    BY <1>12, RollbackIsHarmless DEF ExecutionFailed, Step, Kept
<1>13. CASE DeadlockVictim(p)
    BY <1>13, RollbackIsHarmless DEF DeadlockVictim, Kept, db
<1>14. CASE Crash(p)
    BY <1>14, RollbackIsHarmless DEF Crash, Kept, db
<1> QED BY <1>1, <1>2, <1>3, <1>4, <1>5, <1>6, <1>7, <1>8, <1>9, <1>10, <1>11, <1>12, <1>13, <1>14
        DEF Aside, Reconciliation, Administration

-------------------------------------------------------------------------------
\* A step that writes to p's buffer and commits nothing: what has to be shown.
LEMMA BufferStep ==
    ASSUME TypeInv, ExecInv, NEW p \in Procs, Moves(p), Kept, Buffers(p)',
           \A q \in Procs : q # p => Apart(p, q)' /\ Apart(q, p)'
    PROVE  ExecInv'
<1>1. AtMostOneFill' /\ AtomicExecution'
    BY DEF ExecInv, AtMostOneFill, AtomicExecution, Filled, Kept
<1>2. ASSUME NEW q \in Procs, q # p PROVE Buffers(q)'
    <2>1. Buffers(q)
        BY DEF ExecInv
    <2>2. /\ tx[q].fill # {} => \A f \in fills' : f.order # loc[q].order
          /\ tx[q].intent # None => intents'[loc[q].order] = intents[loc[q].order]
        BY <2>1 DEF Buffers, Kept
    <2> QED BY <1>2, <2>2, OthersKeepBuffers
<1>3. ASSUME NEW q \in Procs, NEW r \in Procs, q # r PROVE Apart(q, r)'
    <2>1. Apart(q, r)
        BY <1>3 DEF ExecInv
    <2>2. \A u \in Procs : u # p => tx'[u] = tx[u] /\ loc'[u] = loc[u]
        BY DEF Moves, TypeInv, TypeOK
    <2>3. CASE q # p /\ r # p
        BY <2>1, <2>2, <2>3 DEF Apart
    <2>4. CASE q = p \/ r = p
        BY <1>3, <2>4
    <2> QED BY <2>3, <2>4
<1> QED BY <1>1, <1>2, <1>3 DEF ExecInv

\* The buffer of p gains no fill and no intent, and its order stays.
LEMMA StaysApart ==
    ASSUME TypeInv, ExecInv, NEW p \in Procs, Moves(p), loc'[p].order = loc[p].order,
           tx'[p].fill = tx[p].fill, tx'[p].intent = tx[p].intent
    PROVE  \A q \in Procs : q # p => Apart(p, q)' /\ Apart(q, p)'
<1> SUFFICES ASSUME NEW q \in Procs, q # p PROVE Apart(p, q)' /\ Apart(q, p)'
    OBVIOUS
<1>1. Apart(p, q) /\ Apart(q, p)
    BY DEF ExecInv
<1>2. tx'[q] = tx[q] /\ loc'[q] = loc[q]
    BY DEF Moves, TypeInv, TypeOK
<1> QED BY <1>1, <1>2 DEF Apart

LEMMA CreateIntentExec ==
    ASSUME TypeInv, ExecInv, NEW p \in Procs, CreateIntent(p)
    PROVE  Moves(p) /\ Kept /\ ExecInv'
<1>1. pc[p] = "createIntent" /\ pc' = [pc EXCEPT ![p] = "commitIntent"]
    BY DEF CreateIntent, Step
<1>2. Empty(p)
    BY <1>1, EmptyOutside DEF Busy
<1>3. Moves(p) /\ Kept
    BY DEF TypeInv, TypeOK, CreateIntent, Step, Moves, Kept, db
<1>4. /\ loc'[p].order = loc[p].order
      /\ pc'[p] = "commitIntent"
    BY DEF TypeInv, TypeOK, CreateIntent, Step, Locals
<1>5. CASE intents[loc[p].order] = None
    <2>1. tx' = [tx EXCEPT ![p].intent = NewIntent(p)]
        BY <1>5 DEF CreateIntent
    <2>2. tx'[p].fill = {} /\ tx'[p].snap = {} /\ tx'[p].intent = NewIntent(p)
        BY <1>2, <2>1 DEF TypeInv, TypeOK, Writes, Empty
    <2>3. NewIntent(p).status # "FILLED"
        BY DEF NewIntent
    <2>4. intents'[loc'[p].order] = None
        BY <1>3, <1>4, <1>5 DEF Kept
    <2>5. Buffers(p)'
        BY <1>4, <2>2, <2>3, <2>4 DEF Buffers, Busy
    <2>6. ASSUME NEW q \in Procs, q # p PROVE Apart(p, q)' /\ Apart(q, p)'
        <3>1. ~WaitsFor(p, q)
            BY <2>6 DEF CreateIntent, Free
        <3>2. ~(tx[q].intent # None /\ loc[q].order = loc[p].order)
            BY <1>1, <2>6, <3>1 DEF WaitsFor, Holds, NextTable
        <3>3. tx'[q] = tx[q] /\ loc'[q] = loc[q]
            BY <1>3, <2>6 DEF Moves, TypeInv, TypeOK
        <3> QED BY <1>4, <2>2, <3>2, <3>3 DEF Apart
    <2> QED BY <1>3, <2>5, <2>6, BufferStep
<1>6. CASE intents[loc[p].order] # None
    <2>1. tx' = tx
        BY <1>6 DEF CreateIntent
    <2>2. Empty(p)' /\ pc'[p] \notin Busy
        BY <1>2, <1>4, <2>1 DEF Empty, Busy
    <2> QED BY <1>3, <2>2, HarmlessKeepsInv DEF Harmless
<1> QED BY <1>3, <1>5, <1>6

LEMMA InsertFillExec ==
    ASSUME TypeInv, ExecInv, NEW p \in Procs, InsertFill(p)
    PROVE  Moves(p) /\ Kept /\ ExecInv'
<1> DEFINE filled == \E f \in fills : f.order = loc[p].order
<1>1. pc[p] = "insertFill"
    BY DEF InsertFill, Step
<1>2. Empty(p)
    BY <1>1, EmptyOutside DEF Busy
<1>3. Moves(p) /\ Kept
    BY DEF TypeInv, TypeOK, InsertFill, Step, Moves, Kept, db
<1>4. /\ loc'[p].order = loc[p].order /\ loc'[p].now = loc[p].now
      /\ pc'[p] = IF filled THEN "commitExecution" ELSE "setBalance"
    BY DEF TypeInv, TypeOK, InsertFill, Step, Locals
<1>5. /\ tx'[p].fill = IF filled THEN {} ELSE {NewFill(p)}
      /\ tx'[p].snap = {} /\ tx'[p].intent = None
    BY <1>2 DEF TypeInv, TypeOK, InsertFill, Writes, Empty
<1>6. CASE filled
    BY <1>3, <1>4, <1>5, <1>6, HarmlessKeepsInv DEF Harmless, Empty, Busy
<1>7. CASE ~filled
    <2>1. /\ NewFill(p).order = loc'[p].order /\ NewFill(p).proc = p
          /\ NewFill(p).at = loc'[p].now
        BY <1>4 DEF NewFill
    <2>2. \A f \in fills' : f.order # loc'[p].order
        BY <1>3, <1>4, <1>7 DEF Kept
    <2>3. Buffers(p)'
        BY <1>4, <1>5, <1>7, <2>1, <2>2 DEF Buffers, Busy
    <2>4. ASSUME NEW q \in Procs, q # p PROVE Apart(p, q)' /\ Apart(q, p)'
        <3>1. ~WaitsFor(p, q)
            BY <2>4 DEF InsertFill, Free
        <3>2. ~(tx[q].fill # {} /\ loc[q].order = loc[p].order)
            BY <1>1, <2>4, <3>1 DEF WaitsFor, Holds, NextTable
        <3>3. tx'[q] = tx[q] /\ loc'[q] = loc[q]
            BY <1>3, <2>4 DEF Moves, TypeInv, TypeOK
        <3> QED BY <1>4, <1>5, <3>2, <3>3 DEF Apart
    <2> QED BY <1>3, <2>3, <2>4, BufferStep
<1> QED BY <1>3, <1>6, <1>7

LEMMA SetBalanceExec ==
    ASSUME TypeInv, ExecInv, NEW p \in Procs, SetBalance(p)
    PROVE  Moves(p) /\ Kept /\ ExecInv'
<1>1. /\ pc[p] = "setBalance" /\ pc'[p] = "upsertPosition"
      /\ UNCHANGED <<db, loc>>
    BY DEF TypeInv, TypeOK, SetBalance, Step
<1>2. Moves(p) /\ Kept
    BY DEF TypeInv, TypeOK, SetBalance, Step, Moves, Kept, db
<1>3. /\ tx'[p].fill = tx[p].fill /\ tx'[p].snap = tx[p].snap
      /\ tx'[p].intent = tx[p].intent
    BY DEF TypeInv, TypeOK, SetBalance, Writes
<1>4. Buffers(p)
    BY DEF ExecInv
<1>5. Buffers(p)'
    BY <1>1, <1>3, <1>4 DEF Buffers, Busy, db
<1> QED BY <1>1, <1>2, <1>3, <1>5, BufferStep, StaysApart

LEMMA UpsertPositionExec ==
    ASSUME TypeInv, ExecInv, NEW p \in Procs, UpsertPosition(p)
    PROVE  Moves(p) /\ Kept /\ ExecInv'
<1>1. /\ pc[p] = "upsertPosition" /\ pc'[p] = "finalizeIntent"
      /\ UNCHANGED <<db, loc>>
    BY DEF TypeInv, TypeOK, UpsertPosition, Step
<1>2. Moves(p) /\ Kept
    BY DEF TypeInv, TypeOK, UpsertPosition, Step, Moves, Kept, db
<1>3. /\ tx'[p].fill = tx[p].fill /\ tx'[p].snap = {NewSnapshot(p)}
      /\ tx'[p].intent = tx[p].intent
    BY DEF TypeInv, TypeOK, UpsertPosition, Writes
<1>4. Buffers(p)
    BY DEF ExecInv
<1>5. /\ NewSnapshot(p).order = loc[p].order /\ NewSnapshot(p).proc = p
      /\ NewSnapshot(p).at = loc[p].now
    BY DEF NewSnapshot
<1>6. Buffers(p)'
    BY <1>1, <1>3, <1>4, <1>5 DEF Buffers, Busy, db
<1> QED BY <1>1, <1>2, <1>3, <1>6, BufferStep, StaysApart

LEMMA FinalizeIntentExec ==
    ASSUME TypeInv, ExecInv, NEW p \in Procs, FinalizeIntent(p)
    PROVE  Moves(p) /\ Kept /\ ExecInv'
<1> DEFINE i == intents[loc[p].order]
<1>1. /\ pc[p] = "finalizeIntent" /\ UNCHANGED <<db, loc>>
      /\ pc'[p] = IF i.status = "APPROVED" THEN "readRisk" ELSE "failed"
    BY DEF TypeInv, TypeOK, FinalizeIntent, Step
<1>2. Moves(p) /\ Kept
    BY DEF TypeInv, TypeOK, FinalizeIntent, Step, Moves, Kept, db
<1>3. Buffers(p) /\ LocalsOK(p)
    BY DEF ExecInv, TypeInv
<1>4. tx[p].intent = None /\ i # None /\ i \in IntentRow
    BY <1>1, <1>3 DEF Buffers, LocalsOK, Paying, CycleSteps, TypeInv, TypeOK, TablesOK
<1>5. /\ tx'[p].fill = tx[p].fill /\ tx'[p].snap = tx[p].snap
      /\ tx'[p].intent = IF i.status = "APPROVED" THEN [i EXCEPT !.status = "FILLED"] ELSE None
    BY <1>4 DEF TypeInv, TypeOK, FinalizeIntent, Writes
<1>6. CASE i.status # "APPROVED"
    <2>1. Buffers(p)'
        BY <1>1, <1>3, <1>4, <1>5, <1>6 DEF Buffers, Busy, db
    <2> QED BY <1>1, <1>2, <1>4, <1>5, <1>6, <2>1, BufferStep, StaysApart
<1>7. CASE i.status = "APPROVED"
    <2>1. [i EXCEPT !.status = "FILLED"] \in IntentRow
        BY <1>4 DEF IntentRow
    <2>2. tx'[p].intent # None
        BY <1>5, <1>7, <2>1, NoneIsNoRow
    <2>3. Buffers(p)'
        BY <1>1, <1>3, <1>4, <1>5, <1>7, <2>2 DEF Buffers, Whole, Busy, db
    <2>4. ASSUME NEW q \in Procs, q # p PROVE Apart(p, q)' /\ Apart(q, p)'
        <3>1. ~WaitsFor(p, q)
            BY <2>4 DEF FinalizeIntent, Free
        <3>2. ~(tx[q].intent # None /\ loc[q].order = loc[p].order)
            BY <1>1, <2>4, <3>1 DEF WaitsFor, Holds, NextTable
        <3>3. Apart(p, q) /\ Apart(q, p)
            BY <2>4 DEF ExecInv
        <3>4. tx'[q] = tx[q] /\ loc' = loc
            BY <1>1, <1>2, <2>4 DEF Moves, TypeInv, TypeOK
        <3> QED BY <1>5, <3>2, <3>3, <3>4 DEF Apart
    <2> QED BY <1>2, <2>3, <2>4, BufferStep
<1> QED BY <1>2, <1>6, <1>7

LEMMA ReadRiskExec ==
    ASSUME TypeInv, ExecInv, NEW p \in Procs, ReadRisk(p)
    PROVE  Moves(p) /\ Kept /\ ExecInv'
<1>1. /\ pc[p] = "readRisk" /\ pc'[p] = "saveRisk" /\ UNCHANGED <<db, tx>>
      /\ loc'[p].order = loc[p].order /\ loc'[p].now = loc[p].now
    BY DEF TypeInv, TypeOK, ReadRisk, Step, Locals
<1>2. Moves(p) /\ Kept
    BY DEF TypeInv, TypeOK, ReadRisk, Step, Moves, Kept, db
<1>3. Buffers(p)
    BY DEF ExecInv
<1>4. Buffers(p)'
    BY <1>1, <1>3 DEF Buffers, Whole, Busy, db
<1> QED BY <1>1, <1>2, <1>4, BufferStep, StaysApart

LEMMA SaveRiskExec ==
    ASSUME TypeInv, ExecInv, NEW p \in Procs, SaveRisk(p)
    PROVE  Moves(p) /\ Kept /\ ExecInv'
<1>1. /\ pc[p] = "saveRisk" /\ pc'[p] = "commitExecution" /\ UNCHANGED <<db, loc>>
    BY DEF TypeInv, TypeOK, SaveRisk, Step
<1>2. Moves(p) /\ Kept
    BY DEF TypeInv, TypeOK, SaveRisk, Step, Moves, Kept, db
<1>3. /\ tx'[p].fill = tx[p].fill /\ tx'[p].snap = tx[p].snap
      /\ tx'[p].intent = tx[p].intent
    BY DEF TypeInv, TypeOK, SaveRisk, Writes
<1>4. Buffers(p)
    BY DEF ExecInv
<1>5. Buffers(p)'
    BY <1>1, <1>3, <1>4 DEF Buffers, Whole, Busy, db
<1> QED BY <1>1, <1>2, <1>3, <1>5, BufferStep, StaysApart

-------------------------------------------------------------------------------
\* A commit empties p's buffer, so p cannot hold a row another one holds.
LEMMA CommitApart ==
    ASSUME TypeInv, ExecInv, NEW p \in Procs, Moves(p), Empty(p)'
    PROVE  \A q, r \in Procs : q # r => Apart(q, r)'
<1> SUFFICES ASSUME NEW q \in Procs, NEW r \in Procs, q # r PROVE Apart(q, r)'
    OBVIOUS
<1>1. Apart(q, r)
    BY DEF ExecInv
<1>2. \A u \in Procs : u # p => tx'[u] = tx[u] /\ loc'[u] = loc[u]
    BY DEF Moves, TypeInv, TypeOK
<1> QED BY <1>1, <1>2 DEF Apart, Empty

LEMMA CommitIntentExec ==
    ASSUME TypeInv, ExecInv, NEW p \in Procs, CommitIntent(p)
    PROVE  /\ ExecInv' /\ UNCHANGED <<fills, snaps>>
           /\ \/ UNCHANGED intents
              \/ /\ intents[loc[p].order] = None
                 /\ intents' = [intents EXCEPT ![loc[p].order] = tx[p].intent]
<1> DEFINE E == {IF loc[p].approved THEN "risk_approved" ELSE "risk_rejected"}
           o == loc[p].order
<1>1. pc[p] = "commitIntent" /\ Commit(p, E)
    BY DEF CommitIntent, Step
<1>2. Buffers(p) /\ LocalsOK(p)
    BY DEF ExecInv, TypeInv
<1>3. tx[p].fill = {} /\ tx[p].snap = {} /\ o \in Orders
    BY <1>1, <1>2 DEF Buffers, Busy, LocalsOK, CycleSteps
<1>4. Moves(p)
    BY <1>1 DEF CommitIntent, Step, Answer, Commit, Moves, TypeInv, TypeOK
<1>5. pc'[p] \in {"checkFill", "done"}
    BY DEF CommitIntent, Step, TypeInv, TypeOK
<1>6. Empty(p)' /\ UNCHANGED <<fills, snaps>>
    BY <1>1, <1>3 DEF Commit, Empty, NoWrites, TypeInv, TypeOK
<1>7. CASE tx[p].intent = None
    <2>1. UNCHANGED intents
        BY <1>1, <1>7 DEF Commit
    <2>2. Harmless(p)
        BY <1>4, <1>5, <1>6, <2>1 DEF Harmless, Kept, Busy
    <2> QED BY <1>6, <2>1, <2>2, HarmlessKeepsInv
<1>8. CASE tx[p].intent # None
    <2>1. intents' = [intents EXCEPT ![o] = tx[p].intent]
        BY <1>1, <1>8 DEF Commit
    <2>2. intents[o] = None /\ tx[p].intent.status # "FILLED"
        BY <1>1, <1>2, <1>8 DEF Buffers
    <2>3. \A x \in Orders : Filled(x)' <=> Filled(x)
        BY <1>3, <2>1, <2>2 DEF Filled, TypeInv, TypeOK, TablesOK
    <2>4. AtMostOneFill' /\ AtomicExecution'
        BY <1>6, <2>3 DEF ExecInv, AtMostOneFill, AtomicExecution
    <2>5. Buffers(p)'
        BY <1>5, <1>6 DEF Buffers, Empty, Busy
    <2>6. ASSUME NEW q \in Procs, q # p PROVE Buffers(q)'
        <3>1. Buffers(q) /\ Apart(p, q)
            BY <2>6 DEF ExecInv
        <3>2. tx[q].fill # {} => \A f \in fills' : f.order # loc[q].order
            BY <1>6, <3>1 DEF Buffers
        <3>3. tx[q].intent # None => intents'[loc[q].order] = intents[loc[q].order]
            BY <1>3, <1>8, <2>1, <3>1 DEF Apart, TypeInv, TypeOK, TablesOK
        <3> QED BY <1>4, <2>6, <3>2, <3>3, OthersKeepBuffers
    <2>7. \A q, r \in Procs : q # r => Apart(q, r)'
        BY <1>4, <1>6, CommitApart
    <2>8. ExecInv'
        BY <2>4, <2>5, <2>6, <2>7 DEF ExecInv
    <2> QED BY <1>6, <2>1, <2>2, <2>8
<1> QED BY <1>7, <1>8

LEMMA CommitExecutionExec ==
    ASSUME TypeInv, ExecInv, NEW p \in Procs, CommitExecution(p)
    PROVE  /\ ExecInv'
           /\ \/ UNCHANGED intents
              \/ /\ intents[loc[p].order] # None /\ intents[loc[p].order].status = "APPROVED"
                 /\ intents' = [intents EXCEPT ![loc[p].order] =
                                   [intents[loc[p].order] EXCEPT !.status = "FILLED"]]
<1> DEFINE o == loc[p].order
           mark == <<o, p, loc[p].now>>
<1>1. /\ pc[p] = "commitExecution" /\ Commit(p, {}) /\ Answer(p, "none")
      /\ pc' = [pc EXCEPT ![p] = "listFills"]
    BY DEF CommitExecution, Step
<1>2. Buffers(p) /\ o \in Orders
    BY <1>1 DEF ExecInv, TypeInv, LocalsOK, CycleSteps
<1>3. CASE Empty(p)
    <2>1. Harmless(p)
        BY <1>1, <1>3, EmptyCommitIsHarmless DEF Busy
    <2> QED BY <2>1, HarmlessKeepsInv DEF Harmless, Kept
<1>4. CASE Whole(p)
    <2>1. Moves(p) /\ Empty(p)' /\ pc'[p] = "listFills"
        BY <1>1 DEF Commit, Answer, Moves, Empty, NoWrites, TypeInv, TypeOK
    <2>2. PICK f \in tx[p].fill : tx[p].fill = {f}
        BY <1>2, <1>4 DEF Buffers, Whole
    <2>3. f.order = o /\ f.proc = p /\ f.at = loc[p].now
        BY <1>2, <2>2 DEF Buffers
    <2>4. \A s \in tx[p].snap : s.order = o /\ s.proc = p /\ s.at = loc[p].now
        BY <1>2 DEF Buffers
    <2>5. fills' = fills \cup {f} /\ snaps' = snaps \cup tx[p].snap
        BY <1>1, <2>2 DEF Commit
    <2>6. \A g \in fills : g.order # o
        BY <1>2, <1>4 DEF Buffers, Whole
    <2>7. /\ intents[o] # None /\ intents[o].status = "APPROVED"
          /\ tx[p].intent = [intents[o] EXCEPT !.status = "FILLED"]
        BY <1>1, <1>2, <1>4 DEF Buffers, Whole
    <2>8. intents' = [intents EXCEPT ![o] = tx[p].intent]
        BY <1>1, <1>4 DEF Commit, Whole
    <2>9. AtMostOneFill'
        BY <2>3, <2>5, <2>6 DEF ExecInv, AtMostOneFill
    <2>10. AtomicExecution'
        <3>1. tx[p].intent.status = "FILLED" /\ tx[p].intent # None
            BY <1>2, <1>4, <2>7 DEF Whole, IntentRow, TypeInv, TypeOK, TablesOK
        <3>2. \A x \in Orders : Filled(x)' <=> (Filled(x) \/ x = o)
            BY <1>2, <2>8, <3>1 DEF Filled, TypeInv, TypeOK, TablesOK
        <3>3. ASSUME NEW x \in Orders
              PROVE  (\E g \in fills' : g.order = x) <=> (\E g \in fills : g.order = x) \/ x = o
            BY <2>3, <2>5
        <3>4. \A x \in Orders : Filled(x)' <=> \E g \in fills' : g.order = x
            BY <3>2, <3>3 DEF ExecInv, AtomicExecution
        <3>5. {<<g.order, g.proc, g.at>> : g \in fills'}
                  = {<<g.order, g.proc, g.at>> : g \in fills} \cup {mark}
            BY <2>3, <2>5
        <3>6. {<<s.order, s.proc, s.at>> : s \in snaps'}
                  = {<<s.order, s.proc, s.at>> : s \in snaps} \cup {mark}
            BY <1>4, <2>4, <2>5 DEF Whole
        <3> QED BY <3>4, <3>5, <3>6 DEF ExecInv, AtomicExecution
    <2>11. Buffers(p)'
        BY <2>1 DEF Buffers, Empty, Busy
    <2>12. ASSUME NEW q \in Procs, q # p PROVE Buffers(q)'
        <3>1. Buffers(q) /\ Apart(p, q)
            BY <2>12 DEF ExecInv
        <3>2. tx[q].fill # {} => \A g \in fills' : g.order # loc[q].order
            BY <1>4, <2>3, <2>5, <3>1 DEF Buffers, Apart, Whole
        <3>3. tx[q].intent # None => intents'[loc[q].order] = intents[loc[q].order]
            BY <1>2, <1>4, <2>8, <3>1 DEF Apart, Whole, TypeInv, TypeOK, TablesOK
        <3> QED BY <2>1, <2>12, <3>2, <3>3, OthersKeepBuffers
    <2>13. \A q, r \in Procs : q # r => Apart(q, r)'
        BY <2>1, CommitApart
    <2>14. ExecInv'
        BY <2>9, <2>10, <2>11, <2>12, <2>13 DEF ExecInv
    <2> QED BY <2>7, <2>8, <2>14
<1> QED BY <1>1, <1>2, <1>3, <1>4 DEF Buffers

-------------------------------------------------------------------------------
\* The steps that write a buffered row of an execution.
Buffering(p) ==
    \/ CreateIntent(p) \/ InsertFill(p) \/ SetBalance(p) \/ UpsertPosition(p)
    \/ FinalizeIntent(p) \/ ReadRisk(p) \/ SaveRisk(p)

LEMMA BufferingExec ==
    ASSUME TypeInv, ExecInv, NEW p \in Procs, Buffering(p)
    PROVE  Kept /\ ExecInv'
BY CreateIntentExec, InsertFillExec, SetBalanceExec, UpsertPositionExec,
   FinalizeIntentExec, ReadRiskExec, SaveRiskExec DEF Buffering

\* Every step is one of five kinds.
LEMMA StepKinds ==
    ASSUME [Next]_vars
    PROVE  \/ \E p \in Procs : Aside(p) \/ Buffering(p) \/ CommitIntent(p) \/ CommitExecution(p)
           \/ UNCHANGED vars
BY DEF Next, Procs, Proceed, Evaluation, Execution, Aside, Buffering, Quiet

LEMMA ExecStutter == ExecInv /\ UNCHANGED vars => ExecInv'
BY DEF ExecInv, AtMostOneFill, AtomicExecution, Filled, Buffers, Apart, Empty, Whole, vars, db

LEMMA ExecStep == TypeInv /\ ExecInv /\ [Next]_vars => ExecInv'
<1> SUFFICES ASSUME TypeInv, ExecInv, [Next]_vars PROVE ExecInv'
    OBVIOUS
<1>1. ASSUME NEW p \in Procs, Aside(p) PROVE ExecInv'
    BY <1>1, AsideIsHarmless, HarmlessKeepsInv
<1>2. ASSUME NEW p \in Procs, Buffering(p) PROVE ExecInv'
    BY <1>2, BufferingExec
<1>3. ASSUME NEW p \in Procs, CommitIntent(p) PROVE ExecInv'
    BY <1>3, CommitIntentExec
<1>4. ASSUME NEW p \in Procs, CommitExecution(p) PROVE ExecInv'
    BY <1>4, CommitExecutionExec
<1> QED BY <1>1, <1>2, <1>3, <1>4, StepKinds, ExecStutter

LEMMA ExecCorrect == Spec => []ExecInv
<1>1. Spec => []TypeInv
    BY TypeInit, TypeStep, PTL DEF Spec
<1> QED BY <1>1, ExecInit, ExecStep, PTL DEF Spec

\* However many requests execute the same order at the same time, and however
\* they are retried, at most one fill of it is ever committed.
THEOREM FilledAtMostOnce == Spec => []AtMostOneFill
<1>1. ExecInv => AtMostOneFill
    BY DEF ExecInv
<1> QED BY <1>1, ExecCorrect, PTL

\* Whichever statement fails and whenever a process dies, a fill is in the
\* database exactly when its snapshot is and its intent is FILLED.
THEOREM ExecutionIsAtomic == Spec => []AtomicExecution
<1>1. ExecInv => AtomicExecution
    BY DEF ExecInv
<1> QED BY <1>1, ExecCorrect, PTL

\* The lifecycle of one intent, as an action.
IntentMove ==
    \A o \in Orders :
        /\ intents[o] # None => intents'[o] # None /\ intents'[o].ref = intents[o].ref
        /\ intents[o] # None /\ intents'[o] # intents[o] =>
              intents[o].status = "APPROVED" /\ intents'[o].status = "FILLED"

LEMMA IntentsMove == TypeInv /\ ExecInv /\ [Next]_vars => [IntentMove]_intents
<1> SUFFICES ASSUME TypeInv, ExecInv, [Next]_vars PROVE [IntentMove]_intents
    OBVIOUS
<1>1. ASSUME NEW p \in Procs, Aside(p) PROVE UNCHANGED intents
    BY <1>1, AsideIsHarmless DEF Harmless, Kept
<1>2. ASSUME NEW p \in Procs, Buffering(p) PROVE UNCHANGED intents
    BY <1>2, BufferingExec DEF Kept
<1>3. ASSUME NEW p \in Procs, CommitIntent(p) PROVE [IntentMove]_intents
    <2>1. \/ UNCHANGED intents
          \/ /\ intents[loc[p].order] = None
             /\ intents' = [intents EXCEPT ![loc[p].order] = tx[p].intent]
        BY <1>3, CommitIntentExec
    <2> QED BY <2>1 DEF IntentMove, TypeInv, TypeOK, TablesOK
<1>4. ASSUME NEW p \in Procs, CommitExecution(p) PROVE [IntentMove]_intents
    <2> DEFINE o == loc[p].order
               filled == [intents[o] EXCEPT !.status = "FILLED"]
    <2>1. \/ UNCHANGED intents
          \/ /\ intents[o] # None /\ intents[o].status = "APPROVED"
             /\ intents' = [intents EXCEPT ![o] = filled]
        BY <1>4, CommitExecutionExec
    <2>2. o \in Orders
        BY <1>4 DEF TypeInv, LocalsOK, CycleSteps, CommitExecution, Step
    <2>3. CASE UNCHANGED intents
        BY <2>3
    <2>4. CASE /\ intents[o] # None /\ intents[o].status = "APPROVED"
               /\ intents' = [intents EXCEPT ![o] = filled]
        <3>1. intents[o] \in IntentRow
            BY <2>2, <2>4 DEF TypeInv, TypeOK, TablesOK
        <3>2. filled \in IntentRow /\ filled.status = "FILLED" /\ filled.ref = intents[o].ref
            BY <3>1 DEF IntentRow
        <3>3. filled # None
            BY <3>2, NoneIsNoRow
        <3> HIDE DEF filled
        <3> QED BY <2>2, <2>4, <3>2, <3>3 DEF IntentMove, TypeInv, TypeOK, TablesOK
    <2> QED BY <2>1, <2>3, <2>4
<1> QED BY <1>1, <1>2, <1>3, <1>4, StepKinds DEF vars

\* No retry of a signal rewrites, reopens or deletes an intent: it is created
\* once, keeps its reference price and moves from APPROVED to FILLED at most.
THEOREM IntentsAreFinal == Spec => IntentIsFinal
<1>1. Spec => []TypeInv
    BY TypeInit, TypeStep, PTL DEF Spec
<1>2. Spec => [][IntentMove]_intents
    BY <1>1, ExecCorrect, IntentsMove, PTL DEF Spec
<1> QED BY <1>2 DEF IntentIsFinal, IntentMove

-------------------------------------------------------------------------------
(***************************************************************************)
(* Why a fill was reviewed by the request that made it.                    *)
(***************************************************************************)
ApprovedBy(p) == [type |-> "risk_approved", proc |-> p]

\* Past the risk decision: only an approved request gets here.
Vetted == {"checkFill", "checkState", "execBalance", "execPosition", "insertFill",
           "commitExecution", "failed"} \cup Busy

\* Past the executor's look at the intent in hand.
Checked == {"execBalance", "execPosition", "insertFill"} \cup Busy

\* The intent in hand is the stored one, as far as its approval goes.
InHand(p) == /\ intents[loc[p].order] # None
             /\ loc[p].intent.approved = intents[loc[p].order].approved

ReviewOK(p) ==
    /\ pc[p] = "commitIntent" => /\ tx[p].intent # None => tx[p].intent = loc[p].intent
                                 /\ tx[p].intent = None => InHand(p)
    /\ pc[p] \in Vetted => ApprovedBy(p) \in events /\ InHand(p)
    /\ pc[p] \in Checked \/ tx[p].fill # {} => loc[p].intent.approved

ReviewInv == ReviewedFill /\ \A p \in Procs : ReviewOK(p)

LEMMA ReviewInit == Init => ReviewInv
BY DEF Init, ReviewInv, ReviewedFill, ReviewOK, Vetted, Checked, Busy, NoWrites

\* What was approved stays approved and what was audited stays audited.
Grows ==
    /\ events \subseteq events'
    /\ \A o \in Orders : intents[o] # None =>
          intents'[o] # None /\ intents'[o].approved = intents[o].approved

LEMMA EventsGrow == [Next]_vars => events \subseteq events'
<1> SUFFICES ASSUME [Next]_vars PROVE events \subseteq events'
    OBVIOUS
<1>1. ASSUME NEW p \in Procs, NEW E, Commit(p, E) PROVE events \subseteq events'
    BY <1>1 DEF Commit
<1>2. ASSUME NEW p \in Procs, Evaluation(p) PROVE events \subseteq events'
    BY <1>1, <1>2 DEF Evaluation, CycleHold, GetTicker, QuoteUnavailable, GetBalance,
       GetPosition, LatestSnapshot, EvaluateRisk, SaveDayReset, CreateIntent,
       IdempotencyConflict, CommitIntent, db
<1>3. ASSUME NEW p \in Procs, Execution(p) PROVE events \subseteq events'
    BY <1>1, <1>3 DEF Execution, CheckFill, CheckSystemState, ExecBalance, ExecPosition,
       InsertFill, SetBalance, UpsertPosition, FinalizeIntent, ReadRisk, SaveRisk,
       CommitExecution, ExecutionFailed, db
<1>4. ASSUME NEW p \in Procs, Reconciliation(p) \/ Administration(p)
      PROVE  events \subseteq events'
    BY <1>1, <1>4 DEF Reconciliation, Administration, ListFills, ListBalances,
       ListPositions, ReadRiskToKill, SaveKilled, CommitReport, AdminSave, AdminCommit, db
<1>5. ASSUME NEW p \in Procs, DeadlockVictim(p) \/ Crash(p) PROVE events \subseteq events'
    BY <1>5 DEF DeadlockVictim, Crash, db
<1>6. ASSUME NEW p \in Procs, Arrive(p) \/ StartReconcile(p) \/ AdminRead(p)
      PROVE  events \subseteq events'
    BY <1>6 DEF Arrive, StartReconcile, AdminRead, db
<1>7. CASE UNCHANGED vars
    BY <1>7 DEF vars
<1> QED BY <1>2, <1>3, <1>4, <1>5, <1>6, <1>7 DEF Next, Proceed, Procs, Quiet

LEMMA ApprovalsStay ==
    ASSUME TypeInv, ExecInv, [Next]_vars
    PROVE  Grows
<1>1. ASSUME NEW p \in Procs, Aside(p) PROVE UNCHANGED intents
    BY <1>1, AsideIsHarmless DEF Harmless, Kept
<1>2. ASSUME NEW p \in Procs, Buffering(p) PROVE UNCHANGED intents
    BY <1>2, BufferingExec DEF Kept
<1>3. ASSUME NEW p \in Procs, CommitIntent(p) PROVE Grows
    <2>1. \/ UNCHANGED intents
          \/ /\ intents[loc[p].order] = None
             /\ intents' = [intents EXCEPT ![loc[p].order] = tx[p].intent]
        BY <1>3, CommitIntentExec
    <2> QED BY <2>1, EventsGrow DEF Grows, TypeInv, TypeOK, TablesOK
<1>4. ASSUME NEW p \in Procs, CommitExecution(p) PROVE Grows
    <2> DEFINE o == loc[p].order
               filled == [intents[o] EXCEPT !.status = "FILLED"]
    <2>1. \/ UNCHANGED intents
          \/ /\ intents[o] # None /\ intents[o].status = "APPROVED"
             /\ intents' = [intents EXCEPT ![o] = filled]
        BY <1>4, CommitExecutionExec
    <2>2. o \in Orders
        BY <1>4 DEF TypeInv, LocalsOK, CycleSteps, CommitExecution, Step
    <2>3. CASE UNCHANGED intents
        BY <2>3, EventsGrow DEF Grows
    <2>4. CASE /\ intents[o] # None /\ intents[o].status = "APPROVED"
               /\ intents' = [intents EXCEPT ![o] = filled]
        <3>1. intents[o] \in IntentRow
            BY <2>2, <2>4 DEF TypeInv, TypeOK, TablesOK
        <3>2. filled \in IntentRow /\ filled.approved = intents[o].approved
            BY <3>1 DEF IntentRow
        <3>3. filled # None
            BY <3>2, NoneIsNoRow
        <3> HIDE DEF filled
        <3> QED BY <2>2, <2>4, <3>2, <3>3, EventsGrow DEF Grows, TypeInv, TypeOK, TablesOK
    <2> QED BY <2>1, <2>3, <2>4
<1> QED BY <1>1, <1>2, <1>3, <1>4, StepKinds, EventsGrow DEF Grows, vars

LEMMA OthersKeepReview ==
    ASSUME TypeInv, Grows, NEW p \in Procs, Moves(p), NEW q \in Procs, q # p, ReviewOK(q)
    PROVE  ReviewOK(q)'
<1>1. pc'[q] = pc[q] /\ loc'[q] = loc[q] /\ tx'[q] = tx[q]
    BY DEF Moves, TypeInv, TypeOK
<1>2. pc[q] \in Vetted \cup {"commitIntent"} => loc[q].order \in Orders
    BY DEF TypeInv, LocalsOK, CycleSteps, Vetted, Busy
<1>3. pc[q] \in Vetted \cup {"commitIntent"} /\ InHand(q) => InHand(q)'
    BY <1>1, <1>2 DEF Grows, InHand
<1> QED BY <1>1, <1>3 DEF ReviewOK, Grows

\* What one step of p that commits no fill has to show.
LEMMA ReviewOneStep ==
    ASSUME TypeInv, ExecInv, Grows, ReviewInv, NEW p \in Procs, Moves(p), ReviewOK(p)',
           UNCHANGED fills
    PROVE  ReviewInv'
<1>1. ReviewedFill'
    <2> SUFFICES ASSUME NEW f \in fills
                 PROVE  ApprovedBy(f.proc) \in events' /\ intents'[f.order].approved
        BY DEF ReviewedFill, ApprovedBy
    <2>1. ApprovedBy(f.proc) \in events /\ intents[f.order].approved /\ f.order \in Orders
        BY DEF ReviewInv, ReviewedFill, ApprovedBy, TypeInv, TypeOK, TablesOK, FillRow
    <2>2. intents[f.order] # None
        BY <2>1 DEF ExecInv, AtomicExecution, Filled
    <2> QED BY <2>1, <2>2 DEF Grows
<1> QED BY <1>1, OthersKeepReview DEF ReviewInv

\* p's step leaves what ReviewOK reads of it as it was, inside one execution.
LEMMA StillReviewed ==
    ASSUME TypeInv, Grows, NEW p \in Procs, ReviewOK(p), pc[p] \in Vetted, pc'[p] \in Vetted,
           loc'[p].order = loc[p].order, loc'[p].intent = loc[p].intent,
           pc'[p] \in Checked \/ tx'[p].fill # {} => loc[p].intent.approved
    PROVE  ReviewOK(p)'
<1>1. loc[p].order \in Orders
    BY DEF TypeInv, LocalsOK, CycleSteps, Vetted, Busy
<1>2. InHand(p)'
    BY <1>1 DEF Grows, InHand, ReviewOK
<1> QED BY <1>2 DEF ReviewOK, Grows, Vetted, Busy

LEMMA AsideReview ==
    ASSUME TypeInv, ExecInv, Grows, ReviewInv, NEW p \in Procs, Aside(p)
    PROVE  ReviewInv'
<1>1. Harmless(p)
    BY AsideIsHarmless
<1>2. tx'[p].fill = {} /\ pc'[p] \notin Busy /\ UNCHANGED fills /\ Moves(p)
    BY <1>1 DEF Harmless, Empty, Kept
<1>3. CASE CheckFill(p) \/ CheckSystemState(p) \/ ExecBalance(p) \/ ExecPosition(p)
    <2>1. /\ pc[p] \in {"checkFill", "checkState", "execBalance", "execPosition"}
          /\ pc'[p] \in Vetted
          /\ loc'[p].order = loc[p].order /\ loc'[p].intent = loc[p].intent
        BY <1>3 DEF TypeInv, TypeOK, Locals, Step, CheckFill, CheckSystemState, ExecBalance,
           ExecPosition, Vetted
    <2>2. pc'[p] \in Checked => loc[p].intent.approved
        <3>1. CASE CheckFill(p)
            BY <3>1 DEF TypeInv, TypeOK, Step, CheckFill, Checked, Busy
        <3>2. CASE CheckSystemState(p)
            BY <3>2 DEF TypeInv, TypeOK, Step, CheckSystemState, Checked, Busy
        <3>3. CASE ExecBalance(p) \/ ExecPosition(p)
            BY <3>3 DEF Step, ExecBalance, ExecPosition, Checked, ReviewInv, ReviewOK
        <3> QED BY <1>3, <3>1, <3>2, <3>3
    <2>3. pc[p] \in Vetted /\ ReviewOK(p)
        BY <2>1 DEF Vetted, ReviewInv
    <2>4. ReviewOK(p)'
        BY <1>2, <2>1, <2>2, <2>3, StillReviewed
    <2> QED BY <1>2, <2>4, ReviewOneStep
<1>4. CASE ~(CheckFill(p) \/ CheckSystemState(p) \/ ExecBalance(p) \/ ExecPosition(p))
    <2>1. pc'[p] \notin Vetted \cup {"commitIntent"}
        <3> USE DEF TypeInv, TypeOK, Step, Vetted, Busy
        <3>1. CASE Arrive(p) \/ CycleHold(p) \/ GetTicker(p) \/ QuoteUnavailable(p)
                   \/ GetBalance(p) \/ GetPosition(p) \/ LatestSnapshot(p)
            BY <3>1 DEF Arrive, CycleHold, GetTicker, QuoteUnavailable, GetBalance,
               GetPosition, LatestSnapshot, MayArrive
        <3>2. CASE EvaluateRisk(p) \/ SaveDayReset(p) \/ IdempotencyConflict(p)
                   \/ ExecutionFailed(p) \/ DeadlockVictim(p) \/ Crash(p)
            BY <3>2 DEF EvaluateRisk, SaveDayReset, IdempotencyConflict, ExecutionFailed,
               DeadlockVictim, Crash
        <3>3. CASE StartReconcile(p) \/ Reconciliation(p)
            BY <3>3 DEF StartReconcile, Reconciliation, ListFills, ListBalances,
               ListPositions, ReadRiskToKill, SaveKilled, CommitReport, MayArrive
        <3>4. CASE AdminRead(p) \/ Administration(p)
            BY <3>4 DEF AdminRead, Administration, AdminSave, AdminCommit, MayArrive
        <3> QED BY <1>4, <3>1, <3>2, <3>3, <3>4 DEF Aside
    <2>2. ReviewOK(p)'
        BY <1>2, <2>1 DEF ReviewOK, Vetted, Checked
    <2> QED BY <1>2, <2>2, ReviewOneStep
<1> QED BY <1>3, <1>4

LEMMA CreateIntentReview ==
    ASSUME TypeInv, ExecInv, NEW p \in Procs, CreateIntent(p)
    PROVE  ReviewOK(p)'
<1> DEFINE o == loc[p].order
<1>1. pc[p] = "createIntent" /\ pc' = [pc EXCEPT ![p] = "commitIntent"] /\ intents' = intents
    BY DEF CreateIntent, Step, db
<1>2. pc'[p] = "commitIntent"
    BY <1>1 DEF TypeInv, TypeOK
<1>3. Empty(p)
    BY <1>1, EmptyOutside DEF Busy
<1>4. loc[p] \in Locals /\ tx[p] \in Writes /\ DOMAIN loc = Procs /\ DOMAIN tx = Procs
    BY DEF TypeInv, TypeOK
<1>5. CASE intents[o] = None
    <2>1. /\ tx' = [tx EXCEPT ![p].intent = NewIntent(p)]
          /\ loc' = [loc EXCEPT ![p].intent = NewIntent(p), ![p].risk = None]
        BY <1>5 DEF CreateIntent
    <2>2. loc'[p] = [loc[p] EXCEPT !.intent = NewIntent(p), !.risk = None]
        BY <1>4, <2>1
    <2>3. tx'[p].intent = NewIntent(p) /\ tx'[p].fill = {} /\ loc'[p].intent = NewIntent(p)
        BY <1>3, <1>4, <2>1, <2>2 DEF Locals, Writes, Empty
    <2>4. NewIntent(p) \in IntentRow
        BY <1>1, <1>4, CycleConstants DEF NewIntent, IntentRow, Locals, LocalsOK, CycleSteps,
           TypeInv, Ticker
    <2>5. NewIntent(p) # None
        BY <2>4, NoneIsNoRow
    <2> QED BY <1>2, <2>3, <2>5 DEF ReviewOK, Vetted, Checked, Busy
<1>6. CASE intents[o] # None
    <2>1. tx' = tx /\ loc' = [loc EXCEPT ![p].intent = intents[o], ![p].risk = None]
        BY <1>6 DEF CreateIntent
    <2>2. loc'[p] = [loc[p] EXCEPT !.intent = intents[o], !.risk = None]
        BY <1>4, <2>1
    <2>3. loc'[p].order = o /\ loc'[p].intent = intents[o] /\ tx'[p] = tx[p]
        BY <1>4, <2>1, <2>2 DEF Locals
    <2>4. InHand(p)'
        BY <1>1, <1>6, <2>3 DEF InHand
    <2> QED BY <1>2, <1>3, <2>3, <2>4 DEF ReviewOK, Empty, Vetted, Checked, Busy
<1> QED BY <1>5, <1>6

LEMMA BufferingReview ==
    ASSUME TypeInv, ExecInv, Grows, ReviewInv, NEW p \in Procs, Buffering(p)
    PROVE  ReviewInv'
<1>1. Moves(p) /\ UNCHANGED fills
    BY CreateIntentExec, InsertFillExec, SetBalanceExec, UpsertPositionExec,
       FinalizeIntentExec, ReadRiskExec, SaveRiskExec DEF Buffering, Kept
<1>2. CASE CreateIntent(p)
    BY <1>1, <1>2, CreateIntentReview, ReviewOneStep
<1>3. CASE ~CreateIntent(p)
    <2>1. pc[p] \in Vetted \cap Checked /\ pc'[p] \in Vetted
        BY <1>3 DEF TypeInv, TypeOK, Buffering, Step, InsertFill, SetBalance, UpsertPosition,
           FinalizeIntent, ReadRisk, SaveRisk, Vetted, Checked, Busy
    <2>2. loc'[p].order = loc[p].order /\ loc'[p].intent = loc[p].intent
        BY <1>3 DEF TypeInv, TypeOK, Locals, Buffering, InsertFill, SetBalance,
           UpsertPosition, FinalizeIntent, ReadRisk, SaveRisk
    <2>3. ReviewOK(p)
        BY DEF ReviewInv
    <2>4. loc[p].intent.approved
        BY <2>1, <2>3 DEF ReviewOK
    <2>5. ReviewOK(p)'
        BY <2>1, <2>2, <2>3, <2>4, StillReviewed
    <2> QED BY <1>1, <2>5, ReviewOneStep
<1> QED BY <1>2, <1>3

LEMMA CommitIntentReview ==
    ASSUME TypeInv, ExecInv, Grows, ReviewInv, NEW p \in Procs, CommitIntent(p)
    PROVE  ReviewInv'
<1> DEFINE o == loc[p].order
<1>1. /\ pc[p] = "commitIntent"
      /\ Commit(p, {IF loc[p].approved THEN "risk_approved" ELSE "risk_rejected"})
      /\ pc' = [pc EXCEPT ![p] = IF loc[p].approved THEN "checkFill" ELSE "done"]
    BY DEF CommitIntent, Step
<1>2. Moves(p) /\ UNCHANGED fills
    BY <1>1, CommitIntentExec DEF CommitIntent, Answer, Commit, Moves, TypeInv, TypeOK
<1>3. tx'[p].fill = {}
    BY <1>1 DEF Commit, NoWrites, TypeInv, TypeOK
<1>4. CASE loc[p].approved
    <2>1. pc'[p] = "checkFill" /\ ApprovedBy(p) \in events'
        BY <1>1, <1>4 DEF Commit, ApprovedBy, TypeInv, TypeOK
    <2>2. loc'[p].order = o /\ loc'[p].intent = loc[p].intent /\ o \in Orders
        BY <1>1, <1>4 DEF CommitIntent, TypeInv, TypeOK, Locals, LocalsOK, CycleSteps
    <2>3. intents'[o] # None /\ intents'[o].approved = loc[p].intent.approved
        <3>1. CASE tx[p].intent = None
            BY <1>1, <2>2, <3>1 DEF Grows, ReviewInv, ReviewOK, InHand
        <3>2. CASE tx[p].intent # None
            BY <1>1, <2>2, <3>2 DEF Commit, ReviewInv, ReviewOK, TypeInv, TypeOK, TablesOK
        <3> QED BY <3>1, <3>2
    <2>4. ReviewOK(p)'
        BY <1>3, <2>1, <2>2, <2>3 DEF ReviewOK, InHand, Vetted, Checked, Busy
    <2> QED BY <1>2, <2>4, ReviewOneStep
<1>5. CASE ~loc[p].approved
    <2>1. pc'[p] = "done"
        BY <1>1, <1>5 DEF TypeInv, TypeOK
    <2>2. ReviewOK(p)'
        BY <1>3, <2>1 DEF ReviewOK, Vetted, Checked, Busy
    <2> QED BY <1>2, <2>2, ReviewOneStep
<1> QED BY <1>4, <1>5

LEMMA CommitExecutionReview ==
    ASSUME TypeInv, ExecInv, Grows, ReviewInv, NEW p \in Procs, CommitExecution(p)
    PROVE  ReviewInv'
<1>1. pc[p] = "commitExecution" /\ pc' = [pc EXCEPT ![p] = "listFills"] /\ Commit(p, {})
    BY DEF CommitExecution, Step
<1>2. Moves(p) /\ tx'[p].fill = {} /\ pc'[p] = "listFills"
    BY <1>1 DEF CommitExecution, Answer, Commit, Moves, NoWrites, TypeInv, TypeOK
<1>3. ReviewOK(p)'
    BY <1>2 DEF ReviewOK, Vetted, Checked, Busy
<1>4. ReviewedFill'
    <2> SUFFICES ASSUME NEW f \in fills \cup tx[p].fill
                 PROVE  ApprovedBy(f.proc) \in events' /\ intents'[f.order].approved
        BY <1>1 DEF Commit, ReviewedFill, ApprovedBy
    <2>1. CASE f \in fills
        <3>1. ApprovedBy(f.proc) \in events /\ intents[f.order].approved /\ f.order \in Orders
            BY <2>1 DEF ReviewInv, ReviewedFill, ApprovedBy, TypeInv, TypeOK, TablesOK, FillRow
        <3>2. intents[f.order] # None
            BY <2>1, <3>1 DEF ExecInv, AtomicExecution, Filled
        <3> QED BY <3>1, <3>2 DEF Grows
    <2>2. CASE f \in tx[p].fill
        <3>1. f.order = loc[p].order /\ f.proc = p
            BY <2>2 DEF ExecInv, Buffers
        <3>2. ReviewOK(p) /\ loc[p].order \in Orders
            BY <1>1 DEF ReviewInv, TypeInv, LocalsOK, CycleSteps
        <3>3. ApprovedBy(p) \in events /\ InHand(p) /\ loc[p].intent.approved
            BY <1>1, <2>2, <3>2 DEF ReviewOK, Vetted
        <3> QED BY <3>1, <3>2, <3>3 DEF Grows, InHand
    <2> QED BY <2>1, <2>2
<1>5. ASSUME NEW q \in Procs PROVE ReviewOK(q)'
    BY <1>2, <1>3, OthersKeepReview DEF ReviewInv
<1> QED BY <1>4, <1>5 DEF ReviewInv

LEMMA ReviewStep == TypeInv /\ ExecInv /\ ReviewInv /\ [Next]_vars => ReviewInv'
<1> SUFFICES ASSUME TypeInv, ExecInv, ReviewInv, [Next]_vars PROVE ReviewInv'
    OBVIOUS
<1>1. Grows
    BY ApprovalsStay
<1>2. CASE UNCHANGED vars
    BY <1>2 DEF ReviewInv, ReviewedFill, ReviewOK, InHand, vars, db
<1> QED BY <1>1, <1>2, StepKinds, AsideReview, BufferingReview, CommitIntentReview,
        CommitExecutionReview

\* Nobody is filled on an older approval: the request that made a fill was
\* approved itself and left its audit event, and the stored intent says so too.
THEOREM FillsAreReviewed == Spec => []ReviewedFill
<1>1. Spec => []TypeInv
    BY TypeInit, TypeStep, PTL DEF Spec
<1>2. ReviewInv => ReviewedFill
    BY DEF ReviewInv
<1> QED BY <1>1, <1>2, ExecCorrect, ReviewInit, ReviewStep, PTL DEF Spec

(***************************************************************************)
(* A balance is written with a fill, so a retry that fills nothing books   *)
(* nothing.                                                                *)
(***************************************************************************)

\* The tables of the account.
Still == UNCHANGED <<cash, pos, fills>>

\* A balance or a position is buffered together with a fill or not at all.
Books(p) == tx[p].cash # None \/ tx[p].pos # None => tx[p].fill # {}

BookInv == \A p \in Procs : Books(p)

LEMMA BookInit == Init => BookInv
BY DEF Init, BookInv, Books, NoWrites

\* What a step of p that books nothing has to show.
LEMMA BookOneStep ==
    ASSUME TypeInv, BookInv, NEW p \in Procs, Moves(p), Books(p)'
    PROVE  BookInv'
<1> SUFFICES ASSUME NEW q \in Procs, q # p PROVE Books(q)'
    BY DEF BookInv
<1>1. tx'[q] = tx[q]
    BY DEF Moves, TypeInv, TypeOK
<1> QED BY <1>1 DEF BookInv, Books

\* The end of a transaction without a fill.
LEMMA EmptyCommitBooks ==
    ASSUME TypeInv, NEW p \in Procs, NEW E, Commit(p, E), Books(p), tx[p].fill = {}
    PROVE  Still /\ Books(p)'
<1>1. tx[p].cash = None /\ tx[p].pos = None
    BY DEF Books
<1>2. tx'[p] = NoWrites
    BY DEF Commit, TypeInv, TypeOK
<1> QED BY <1>1, <1>2 DEF Commit, Still, Books, NoWrites

\* Nothing but the commit of an execution touches the account.
LEMMA AsideBooks ==
    ASSUME TypeInv, ExecInv, NEW p \in Procs, Books(p), Aside(p)
    PROVE  Still /\ Books(p)'
<1> USE DEF TypeInv, TypeOK
<1>a. pc[p] \notin Busy \cup {"commitIntent", "commitExecution", "failed"} => tx[p].fill = {}
    BY EmptyOutside DEF Empty
<1>b. Books(p)
    OBVIOUS
<1>1. CASE GetTicker(p) \/ QuoteUnavailable(p) \/ GetBalance(p) \/ GetPosition(p)
           \/ LatestSnapshot(p) \/ EvaluateRisk(p) \/ CheckFill(p) \/ CheckSystemState(p)
           \/ ExecBalance(p) \/ ExecPosition(p)
    <2>1. UNCHANGED <<db, tx>>
        BY <1>1 DEF GetTicker, QuoteUnavailable, GetBalance, GetPosition, LatestSnapshot,
           EvaluateRisk, CheckFill, CheckSystemState, ExecBalance, ExecPosition
    <2> QED BY <1>b, <2>1 DEF Still, Books, db
<1>2. CASE Arrive(p) \/ StartReconcile(p) \/ AdminRead(p) \/ ListFills(p) \/ ListBalances(p)
           \/ ListPositions(p) \/ ReadRiskToKill(p)
    <2>1. UNCHANGED <<db, tx>>
        BY <1>2 DEF Arrive, StartReconcile, AdminRead, ListFills, ListBalances, ListPositions,
           ReadRiskToKill
    <2> QED BY <1>b, <2>1 DEF Still, Books, db
<1>3. CASE SaveDayReset(p) \/ SaveKilled(p) \/ AdminSave(p)
    <2>1. PICK r : tx' = [tx EXCEPT ![p].risk = r]
        BY <1>3 DEF SaveDayReset, SaveKilled, AdminSave
    <2>2. UNCHANGED db
        BY <1>3 DEF SaveDayReset, SaveKilled, AdminSave
    <2>3. /\ tx'[p].fill = tx[p].fill /\ tx'[p].cash = tx[p].cash /\ tx'[p].pos = tx[p].pos
        BY <2>1 DEF Writes
    <2> QED BY <1>b, <2>2, <2>3 DEF Still, Books, db
<1>4. CASE CycleHold(p) \/ CommitReport(p) \/ AdminCommit(p)
    <2>1. PICK E : Commit(p, E)
        BY <1>4 DEF CycleHold, CommitReport, AdminCommit
    <2>2. tx[p].fill = {}
        BY <1>a, <1>4 DEF CycleHold, CommitReport, AdminCommit, Step, Busy
    <2> QED BY <1>b, <2>1, <2>2, EmptyCommitBooks
<1>5. CASE IdempotencyConflict(p) \/ ExecutionFailed(p) \/ DeadlockVictim(p) \/ Crash(p)
    <2>1. tx'[p] = NoWrites
        BY <1>5 DEF IdempotencyConflict, ExecutionFailed, DeadlockVictim, Crash, Rollback
    <2>2. Still
        BY <1>5 DEF IdempotencyConflict, ExecutionFailed, DeadlockVictim, Crash, Still, db
    <2> QED BY <2>1, <2>2 DEF Books, NoWrites
<1> QED BY <1>1, <1>2, <1>3, <1>4, <1>5 DEF Aside, Reconciliation, Administration

LEMMA BufferingBooks ==
    ASSUME TypeInv, ExecInv, NEW p \in Procs, Books(p), Buffering(p)
    PROVE  Still /\ Books(p)'
<1> USE DEF TypeInv, TypeOK
<1>a. Books(p) /\ Buffers(p)
    BY DEF ExecInv
<1>b. Still
    BY DEF Buffering, CreateIntent, InsertFill, SetBalance, UpsertPosition, FinalizeIntent,
       ReadRisk, SaveRisk, Still, db
<1>1. CASE CreateIntent(p) \/ FinalizeIntent(p) \/ ReadRisk(p) \/ SaveRisk(p)
    <2>1. /\ tx'[p].fill = tx[p].fill /\ tx'[p].cash = tx[p].cash /\ tx'[p].pos = tx[p].pos
        BY <1>1 DEF CreateIntent, FinalizeIntent, ReadRisk, SaveRisk, Writes
    <2> QED BY <1>a, <1>b, <2>1 DEF Books
<1>2. CASE InsertFill(p)
    <2>1. tx[p].fill = {}
        BY <1>2, EmptyOutside DEF InsertFill, Step, Busy, Empty
    <2>2. tx'[p].cash = tx[p].cash /\ tx'[p].pos = tx[p].pos
        BY <1>2 DEF InsertFill, Writes
    <2> QED BY <1>a, <1>b, <2>1, <2>2 DEF Books
<1>3. CASE SetBalance(p) \/ UpsertPosition(p)
    <2>1. tx[p].fill # {}
        BY <1>a, <1>3 DEF Buffers, SetBalance, UpsertPosition, Step
    <2>2. tx'[p].fill = tx[p].fill
        BY <1>3 DEF SetBalance, UpsertPosition, Writes
    <2> QED BY <1>b, <2>1, <2>2 DEF Books
<1> QED BY <1>1, <1>2, <1>3 DEF Buffering

LEMMA CommitIntentBooks ==
    ASSUME TypeInv, ExecInv, NEW p \in Procs, Books(p), CommitIntent(p)
    PROVE  Still /\ Books(p)' /\ Moves(p)
<1>1. tx[p].fill = {}
    BY DEF ExecInv, Buffers, CommitIntent, Step, Busy
<1>2. PICK E : Commit(p, E)
    BY DEF CommitIntent
<1>3. Books(p)
    OBVIOUS
<1>4. Moves(p)
    BY DEF CommitIntent, Step, Answer, Commit, Moves, TypeInv, TypeOK
<1> QED BY <1>1, <1>2, <1>3, <1>4, EmptyCommitBooks

LEMMA CommitExecutionBooks ==
    ASSUME TypeInv, ExecInv, NEW p \in Procs, Books(p), CommitExecution(p)
    PROVE  /\ Moves(p) /\ Books(p)' /\ pc'[p] = "listFills" /\ tx'[p] = NoWrites
           /\ Whole(p) \/ Still
<1>1. /\ pc[p] = "commitExecution" /\ Commit(p, {}) /\ Answer(p, "none")
      /\ pc' = [pc EXCEPT ![p] = "listFills"]
    BY DEF CommitExecution, Step
<1>2. Moves(p) /\ tx'[p] = NoWrites /\ pc'[p] = "listFills"
    BY <1>1 DEF Answer, Commit, Moves, TypeInv, TypeOK
<1>3. Books(p) /\ (Empty(p) \/ Whole(p))
    BY <1>1 DEF ExecInv, Buffers
<1>4. CASE Empty(p)
    BY <1>1, <1>2, <1>3, <1>4, EmptyCommitBooks DEF Empty
<1>5. CASE Whole(p)
    BY <1>2, <1>5 DEF Books, NoWrites
<1> QED BY <1>3, <1>4, <1>5

\* Who moved, and what that did to the account.
LEMMA StepBooks ==
    ASSUME TypeInv, ExecInv, BookInv, [Next]_vars
    PROVE  \/ \E p \in Procs : /\ Aside(p) \/ Buffering(p) \/ CommitIntent(p)
                               /\ Moves(p) /\ Still /\ Books(p)'
           \/ \E p \in Procs : /\ CommitExecution(p) /\ Moves(p) /\ Books(p)'
           \/ UNCHANGED vars
<1>a. \A p \in Procs : Books(p)
    BY DEF BookInv
<1>1. ASSUME NEW p \in Procs, Aside(p) PROVE Moves(p) /\ Still /\ Books(p)'
    BY <1>a, <1>1, AsideIsHarmless, AsideBooks DEF Harmless
<1>2. ASSUME NEW p \in Procs, Buffering(p) PROVE Moves(p) /\ Still /\ Books(p)'
    BY <1>a, <1>2, BufferingBooks, CreateIntentExec, InsertFillExec, SetBalanceExec,
       UpsertPositionExec, FinalizeIntentExec, ReadRiskExec, SaveRiskExec DEF Buffering
<1> QED BY <1>a, <1>1, <1>2, StepKinds, CommitIntentBooks, CommitExecutionBooks

LEMMA BookStep == TypeInv /\ ExecInv /\ BookInv /\ [Next]_vars => BookInv'
<1> SUFFICES ASSUME TypeInv, ExecInv, BookInv, [Next]_vars PROVE BookInv'
    OBVIOUS
<1>1. CASE UNCHANGED vars
    BY <1>1 DEF BookInv, Books, vars
<1> QED BY <1>1, StepBooks, BookOneStep

LEMMA BookCorrect == Spec => [](TypeInv /\ ExecInv /\ BookInv)
<1>1. Spec => []TypeInv
    BY TypeInit, TypeStep, PTL DEF Spec
<1> QED BY <1>1, ExecCorrect, BookInit, BookStep, PTL DEF Spec

-------------------------------------------------------------------------------
\* The step of RetryBooksNothing.
RetryStep ==
    \A p \in Requests :
        /\ pc[p] # "idle" /\ <<pc'[p], loc'[p], tx'[p]>> # <<pc[p], loc[p], tx[p]>>
        /\ \E f \in fills : f.order = loc[p].order
        => UNCHANGED <<cash, pos, fills, intents>>

LEMMA RetryBooks == TypeInv /\ ExecInv /\ BookInv /\ [Next]_vars => RetryStep
<1> SUFFICES ASSUME TypeInv, ExecInv, BookInv, [Next]_vars,
                    NEW p \in Requests,
                    <<pc'[p], loc'[p], tx'[p]>> # <<pc[p], loc[p], tx[p]>>,
                    NEW f \in fills, f.order = loc[p].order
             PROVE  UNCHANGED <<cash, pos, fills, intents>>
    BY DEF RetryStep
<1>1. p \in Procs
    BY DEF Procs
<1>2. ASSUME NEW q \in Procs, Moves(q) PROVE q = p
    BY <1>1, <1>2 DEF Moves, TypeInv, TypeOK
<1>3. CASE Aside(p) /\ Still
    BY <1>1, <1>3, AsideIsHarmless DEF Harmless, Kept, Still
<1>4. CASE Buffering(p) /\ Still
    BY <1>1, <1>4, BufferingExec DEF Kept, Still
<1>5. CASE CommitIntent(p) /\ Still
    <2>1. intents[loc[p].order] # None
        <3>1. f.order \in Orders
            BY DEF TypeInv, TypeOK, TablesOK, FillRow
        <3> QED BY <3>1 DEF ExecInv, AtomicExecution, Filled
    <2> QED BY <1>1, <1>5, <2>1, CommitIntentExec DEF Still
<1>6. CASE CommitExecution(p)
    <2>1. Buffers(p)
        BY <1>1 DEF ExecInv
    <2>2. ~Whole(p)
        BY <2>1 DEF Buffers, Whole
    <2>3. Empty(p) /\ Commit(p, {})
        BY <1>6, <2>1, <2>2 DEF CommitExecution, Step, Buffers
    <2>4. Still
        BY <1>1, <1>6, <2>2, CommitExecutionBooks DEF BookInv
    <2> QED BY <2>3, <2>4 DEF Empty, Commit, Still
<1> QED BY <1>2, <1>3, <1>4, <1>5, <1>6, StepBooks DEF vars

\* Once the fill of an order is committed, no request for that order, retry or
\* competitor, whatever it is answered, moves cash, positions, fills or intents.
THEOREM RetriesBookNothing == Spec => RetryBooksNothing
<1>1. Spec => [][RetryStep]_vars
    BY BookCorrect, RetryBooks, PTL DEF Spec
<1> QED BY <1>1 DEF RetryBooksNothing, RetryStep
===============================================================================
