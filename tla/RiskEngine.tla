------------------------------ MODULE RiskEngine ------------------------------
(***************************************************************************)
(* The pre-trade risk rules of atlas_trader.risk.engine and the persistent *)
(* risk row of domain/models/risk.py.  Everything here is pure: a rule is  *)
(* a predicate that is TRUE when the code returns a rejection reason.      *)
(*                                                                         *)
(* Amounts are integers (cents of a quote unit, lots of a base asset);     *)
(* percentages are basis points, so a comparison x > y * pct is written    *)
(* x * BPS > y * pctBps and never divides.                                 *)
(***************************************************************************)
EXTENDS Integers

CONSTANTS
    MaxPositionBps,    \* settings.max_position_pct, in basis points
    MaxDailyLossBps,   \* settings.max_daily_loss_pct, in basis points
    MaxOpenPositions,  \* settings.max_open_positions
    MaxSpreadBps,      \* settings.max_spread_bps
    StaleAfter,        \* settings.stale_data_seconds
    CooldownTicks      \* settings.cooldown_minutes, in clock ticks

BPS == 10000

ASSUME RiskSettings ==
    /\ MaxPositionBps \in 0..BPS /\ MaxDailyLossBps \in 0..BPS
    /\ MaxOpenPositions \in Nat \ {0}
    /\ MaxSpreadBps \in Nat /\ StaleAfter \in Nat \ {0}
    /\ CooldownTicks \in Nat

Sides        == {"buy", "sell", "hold"}
SystemStates == {"ENABLED", "PAUSED", "KILLED"}

\* A quote: last trade, best ask and bid, and the age of its timestamp at
\* the moment the request took its own clock reading.  The age is negative
\* when the exchange stamped the book after the request had started.
Ticker == [last : Nat, ask : Nat, bid : Nat, age : Int]

\* The row risk_state.  cool = 0 stands for cooldown_until = None.
RiskState == [sys   : SystemStates, day : Nat, start : Int, pnl : Int,
              peak  : Int, dd : Int, cool : Nat, open : Nat]

\* What the cycle hands to the rules.
RiskContext == [side : Sides, tick : Ticker, qty : Int, equity : Int,
                cash : Int, now : Nat]

-------------------------------------------------------------------------------
(***************************************************************************)
(* The rules, in the order default_risk_engine lists them.                 *)
(***************************************************************************)

SystemStateRule(state) == state.sys # "ENABLED"

Projected(size, ctx) == IF ctx.side = "buy" THEN ctx.qty + size ELSE ctx.qty - size

MaxPositionRule(size, ctx) ==
    \/ Projected(size, ctx) < 0
    \/ Projected(size, ctx) * ctx.tick.last * BPS > ctx.equity * MaxPositionBps

MaxDailyLossRule(state) ==
    LET loss == IF state.pnl < 0 THEN -state.pnl ELSE 0
    IN  loss * BPS >= state.start * MaxDailyLossBps

MaxOpenPositionsRule(ctx, state) ==
    /\ ctx.side = "buy" /\ ctx.qty = 0
    /\ state.open >= MaxOpenPositions

\* spread_bps = (ask - bid) / mid * 10000 with mid = (ask + bid) / 2
SpreadRule(ctx) ==
    (ctx.tick.ask - ctx.tick.bid) * 2 * BPS
        > MaxSpreadBps * (ctx.tick.ask + ctx.tick.bid)

StaleMarketDataRule(ctx) == ctx.tick.age < 0 \/ ctx.tick.age > StaleAfter

CooldownRule(ctx, state) == ctx.now < state.cool

AvailableBalanceRule(size, ctx) ==
    IF ctx.side = "buy" THEN size * ctx.tick.last > ctx.cash ELSE size > ctx.qty

\* RiskEngine.evaluate: approved exactly when no rule gives a reason.
Approves(size, ctx, state) ==
    /\ ~SystemStateRule(state)
    /\ ~MaxPositionRule(size, ctx)
    /\ ~MaxDailyLossRule(state)
    /\ ~MaxOpenPositionsRule(ctx, state)
    /\ ~SpreadRule(ctx)
    /\ ~StaleMarketDataRule(ctx)
    /\ ~CooldownRule(ctx, state)
    /\ ~AvailableBalanceRule(size, ctx)

-------------------------------------------------------------------------------
(***************************************************************************)
(* Updates of the risk row.  Each returns the WHOLE row, because the       *)
(* repository's save writes every column.                                  *)
(***************************************************************************)

\* The row PaperAccountService.ensure_initialized inserts.
FreshRiskState(day, equity) ==
    [sys |-> "ENABLED", day |-> day, start |-> equity, pnl |-> 0,
     peak |-> equity, dd |-> 0, cool |-> 0, open |-> 0]

\* Mutant of ResetForDay: the day's profit and loss survives midnight.
ResetForDayKeepsPnl(state, day, equity) ==
    IF day = state.day THEN state
    ELSE [sys |-> state.sys, day |-> day, start |-> equity, pnl |-> state.pnl,
          peak |-> equity, dd |-> 0, cool |-> 0, open |-> state.open]

\* RiskState.reset_for_day: equality on the day, so any other day resets.
ResetForDay(state, day, equity) ==
    IF day = state.day THEN state
    ELSE [sys |-> state.sys, day |-> day, start |-> equity, pnl |-> 0,
          peak |-> equity, dd |-> 0, cool |-> 0, open |-> state.open]

\* RiskService.record_execution on the row it has read.
AfterExecution(state, realized, equity, open, now) ==
    LET peak == IF equity > state.peak THEN equity ELSE state.peak
    IN  [sys |-> state.sys, day |-> state.day, start |-> state.start,
         pnl |-> state.pnl + realized, peak |-> peak, dd |-> peak - equity,
         cool |-> IF realized < 0 THEN now + CooldownTicks ELSE state.cool,
         open |-> open]
===============================================================================
