--------------------------- MODULE PaperAccounting ----------------------------
(***************************************************************************)
(* The fill model and the ledger arithmetic of PaperExecutionService       *)
(* (application/paper.py): an adverse-slippage price, a fee on the         *)
(* notional, and the effect of a full fill on cash and on one position.    *)
(*                                                                         *)
(* Amounts are integers.  The code computes with 28-digit decimals and     *)
(* stores NUMERIC(36,18); here a division rounds down at scale 0, and the  *)
(* instances that compare exact sums choose prices that divide evenly.     *)
(***************************************************************************)
EXTENDS RiskEngine

CONSTANTS
    SlippageBps,   \* settings.paper_slippage_bps
    FeeBps         \* settings.paper_fee_rate, in basis points

ASSUME PaperSettings == SlippageBps \in 0..BPS /\ FeeBps \in 0..BPS

\* A row of paper_positions; the row that does not exist yet is NoPosition.
Position   == [qty : Nat, avg : Nat, pnl : Int]
NoPosition == [qty |-> 0, avg |-> 0, pnl |-> 0]

\* BUY pays the best ask plus slippage, SELL gets the best bid minus it.
FillPrice(side, tick) ==
    IF side = "buy" THEN (tick.ask * (BPS + SlippageBps)) \div BPS
                    ELSE (tick.bid * (BPS - SlippageBps)) \div BPS

Fee(notional) == (notional * FeeBps) \div BPS

\* What a BUY debits and a SELL credits.
Debit(qty, price)  == qty * price + Fee(qty * price)
Credit(qty, price) == qty * price - Fee(qty * price)

\* Mutant of Affordable: the fee is not part of what a BUY needs.
AffordableWithoutFee(side, qty, price, cash, position) ==
    IF side = "buy" THEN qty * price <= cash ELSE qty <= position.qty

\* The two rejections of _apply: insufficient paper cash, insufficient position.
Affordable(side, qty, price, cash, position) ==
    IF side = "buy" THEN Debit(qty, price) <= cash ELSE qty <= position.qty

\* Mutant of CashAfter: a SELL credits the notional without deducting its fee.
CashAfterGross(side, qty, price, cash) ==
    IF side = "buy" THEN cash - Debit(qty, price) ELSE cash + qty * price

CashAfter(side, qty, price, cash) ==
    IF side = "buy" THEN cash - Debit(qty, price) ELSE cash + Credit(qty, price)

Realized(side, qty, price, position) ==
    IF side = "buy" THEN 0 ELSE Credit(qty, price) - qty * position.avg

\* A BUY folds its debit into the average cost; a SELL keeps the average and
\* zeroes it when the position is flat.
PositionAfter(side, qty, price, position) ==
    IF side = "buy"
    THEN LET q == position.qty + qty
         IN  [position EXCEPT !.qty = q,
                 !.avg = (position.qty * position.avg + Debit(qty, price)) \div q]
    ELSE LET q == position.qty - qty
         IN  [qty |-> q,
              avg |-> IF q > 0 THEN position.avg ELSE 0,
              pnl |-> position.pnl + Realized(side, qty, price, position)]

\* The snapshot's total_equity: cash plus the value of the traded position only.
SnapshotEquity(cash, position, tick) == cash + position.qty * tick.last
===============================================================================
