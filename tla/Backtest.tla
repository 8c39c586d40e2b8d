------------------------------- MODULE Backtest -------------------------------
(***************************************************************************)
(* BacktestEngine.run (application/backtest.py) with the ema_atr strategy: *)
(* one iteration of its loop is one step.                                  *)
(*                                                                         *)
(* Cash, quantities and prices are integers: multiples of the quantum that *)
(* persisted_decimal rounds to, of which Scale make one.  The code's       *)
(* quantum is 10^-18; below 10^10 its 28 digit context adds no rounding.   *)
(***************************************************************************)
EXTENDS EmaAtr

CONSTANTS
    Closes,          \* closing prices a candle may have
    Opens,           \* opening prices; one is looked at only when a fill needs it
    Length,          \* number of candles in the period
    Capitals,        \* initial_capital
    Scale,           \* quanta in 1
    FeeNum, FeeDen,  \* fee_rate
    SlippageBps

ASSUME BacktestConstants ==
    /\ Closes \subseteq Nat \ {0} /\ Opens \subseteq Nat \ {0} /\ Capitals \subseteq Nat \ {0}
    /\ Length \in Nat \ {0} /\ Scale \in Nat \ {0}
    /\ FeeNum \in Nat /\ FeeDen \in Nat /\ FeeNum < FeeDen
    /\ SlippageBps \in 0..1000

VARIABLES
    closes,    \* the ordered candles
    index,     \* candles the loop has gone through
    pending,   \* the signal to execute on the next candle
    capital,
    cash, quantity, openCost,
    realized,  \* the sum of realized_results
    trades,    \* [side, signal, execution]
    curve,     \* equity_curve
    status     \* running, completed, or failed with a ValidationError

account == <<cash, quantity, openCost, realized>>
vars == <<closes, index, pending, capital, account, trades, curve, status>>

\* quantize: to the nearest integer, halves to the even one.
Round(n, d) ==
    LET q == n \div d
        r == n % d
    IN  IF 2 * r > d \/ (2 * r = d /\ q % 2 = 1) THEN q + 1 ELSE q

BuyPrice(open)  == Round(open * (10000 + SlippageBps), 10000)
SellPrice(open) == Round(open * (10000 - SlippageBps), 10000)
Fee(gross) == Round(gross * FeeNum, FeeDen)
Worth(money, q, price) == Round(money * Scale + q * price, Scale)

Gross == Round(cash * FeeDen, FeeDen + FeeNum)
Bought(price) == Round(Gross * Scale, price)

Init ==
    /\ closes \in [1..Length -> Closes]
    /\ index = 0 /\ pending = "hold"
    /\ capital \in Capitals
    /\ cash = capital /\ quantity = 0 /\ openCost = 0 /\ realized = 0
    /\ trades = <<>> /\ curve = <<capital>>
    /\ status = "running"

\* Mutant of Advance: the signal is of the slice that ends with the next candle.
AdvanceLookahead ==
    /\ status = "running" /\ index < Length
    /\ index' = index + 1
    /\ curve' = Append(curve, Worth(cash', quantity', closes[index']))
    /\ pending' = IF index + 1 >= RequiredHistory /\ index + 2 <= Length
                  THEN Evaluate(SubSeq(closes, 1, index + 2)) ELSE "hold"
    /\ UNCHANGED <<closes, capital, status>>

\* The end of an iteration: mark to market at the close, evaluate the strategy
\* on the candles so far.
Advance ==
    /\ status = "running" /\ index < Length
    /\ index' = index + 1
    /\ curve' = Append(curve, Worth(cash', quantity', closes[index']))
    /\ pending' = IF index' >= RequiredHistory
                  THEN Evaluate(SubSeq(closes, 1, index')) ELSE "hold"
    /\ UNCHANGED <<closes, capital, status>>

Trade(side) == [side |-> side, signal |-> index, execution |-> index + 1]

\* All cash is spent; the part that rounding leaves over, or lacks, is dropped.
Buy ==
    /\ pending = "buy" /\ quantity = 0
    /\ \E open \in Opens : /\ Bought(BuyPrice(open)) > 0
                           /\ quantity' = Bought(BuyPrice(open))
    /\ openCost' = Gross + Fee(Gross)
    /\ cash' = 0
    /\ trades' = Append(trades, Trade("buy"))
    /\ UNCHANGED realized
    /\ Advance

\* A quantity that rounds to zero is refused by BacktestTrade: the run ends.
BuyNothing ==
    /\ status = "running" /\ index < Length
    /\ pending = "buy" /\ quantity = 0
    /\ \E open \in Opens : Bought(BuyPrice(open)) = 0
    /\ status' = "failed"
    /\ UNCHANGED <<closes, index, pending, capital, account, trades, curve>>

\* Mutant of Sell: the profit forgets the exit's fee.
SellGrossPnl ==
    /\ pending = "sell" /\ quantity > 0
    /\ \E open \in Opens :
          LET gross == Worth(0, quantity, SellPrice(open))
          IN  /\ cash' = gross - Fee(gross)
              /\ realized' = realized + gross - openCost
    /\ trades' = Append(trades, Trade("sell"))
    /\ quantity' = 0 /\ openCost' = 0
    /\ Advance

Sell ==
    /\ pending = "sell" /\ quantity > 0
    /\ \E open \in Opens :
          LET gross    == Worth(0, quantity, SellPrice(open))
              proceeds == gross - Fee(gross)
          IN  /\ cash' = proceeds
              /\ realized' = realized + proceeds - openCost
    /\ trades' = Append(trades, Trade("sell"))
    /\ quantity' = 0 /\ openCost' = 0
    /\ Advance

NoFill ==
    /\ ~(pending = "buy" /\ quantity = 0) /\ ~(pending = "sell" /\ quantity > 0)
    /\ UNCHANGED <<account, trades>>
    /\ Advance

Finish ==
    /\ status = "running" /\ index = Length
    /\ status' = "completed"
    /\ UNCHANGED <<closes, index, pending, capital, account, trades, curve>>

Ended == status # "running" /\ UNCHANGED vars

Next == Buy \/ BuyNothing \/ Sell \/ NoFill \/ Finish \/ Ended

Spec == Init /\ [][Next]_vars
-------------------------------------------------------------------------------
(***************************************************************************)
(* The metrics of a completed run.                                         *)
(***************************************************************************)
EndingEquity == Worth(cash, quantity, closes[Length])
UnrealizedPnl == IF quantity > 0 THEN Worth(-openCost, quantity, closes[Length]) ELSE 0

\* number_of_entries: every other trade, the first one included, is an entry.
Entries == (Len(trades) + 1) \div 2

MaxOf(a, b) == IF a > b THEN a ELSE b

\* Mutant of Drawdown: the peak is the initial capital.
DrawdownFromStart ==
    LET scan[i \in 0 .. Len(curve)] ==
            IF i = 0 THEN [peak |-> curve[1], worst |-> 0]
            ELSE LET before == scan[i - 1]
                 IN  [before EXCEPT !.worst = MaxOf(@, before.peak - curve[i])]
    IN  scan[Len(curve)].worst

\* One turn of the loop of _drawdown.
Fallen(equity, before) ==
    LET peak == MaxOf(before.peak, equity)
    IN  [peak |-> peak, worst |-> MaxOf(before.worst, peak - equity)]

\* _drawdown, the amount.
Drawdown ==
    LET scan[i \in 0 .. Len(curve)] ==
            IF i = 0 THEN [peak |-> curve[1], worst |-> 0]
            ELSE Fallen(curve[i], scan[i - 1])
    IN  scan[Len(curve)].worst
-------------------------------------------------------------------------------
\* The money is all explained: the profit of a run is its realized and its
\* unrealized profit, but for at most one quantum for each entry, which the
\* rounding of gross and fee may lose or create, and one for a position still
\* open, whose worth and whose profit are rounded apart.
Slack == Entries + (IF quantity > 0 THEN 1 ELSE 0)
PnlExplained ==
    status = "completed" =>
        LET unexplained == EndingEquity - capital - (realized + UnrealizedPnl)
        IN  -Slack <= unexplained /\ unexplained <= Slack

\* docs/backtesting.md:7-11.  A signal of candle N, from the closes up to N,
\* executes at candle N+1; entries and exits alternate.
Crossed(i) == IF Lead(closes, i - 1) <= 0 /\ Lead(closes, i) > 0 THEN "buy"
              ELSE IF Lead(closes, i - 1) >= 0 /\ Lead(closes, i) < 0 THEN "sell" ELSE "hold"
TradesFollowSignals ==
    \A i \in DOMAIN trades :
        /\ trades[i].execution = trades[i].signal + 1
        /\ trades[i].side = Crossed(trades[i].signal)
        /\ trades[i].side = IF i % 2 = 1 THEN "buy" ELSE "sell"

\* The last trade on a signal up to candle i is an entry.
InMarket(i) ==
    \E k \in DOMAIN trades :
        /\ trades[k].side = "buy" /\ trades[k].signal <= i
        /\ \A l \in DOMAIN trades : trades[l].signal <= i => l <= k

\* No cross is missed, neither as an entry nor as an exit: after a cross upwards
\* the run is in the market and after one downwards it is out, whatever touches
\* came before; and while a position is open the fast average has not been below
\* the slow one at the close before.
PositionFollowsTrend ==
    /\ quantity > 0 => Lead(closes, index - 1) >= 0
    /\ \A i \in RequiredHistory .. index - 1 :
          Crossed(i) # "hold" => (InMarket(i) <=> Crossed(i) = "buy")

\* The maximum drawdown is the largest fall from any equity to a later one.
DrawdownIsWorst ==
    status = "completed" =>
        /\ \A i, j \in DOMAIN curve : i <= j => curve[i] - curve[j] <= Drawdown
        /\ \E i, j \in DOMAIN curve : i <= j /\ curve[i] - curve[j] = Drawdown
===============================================================================
