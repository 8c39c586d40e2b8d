---------------------------- MODULE MCTradingCycle ----------------------------
(***************************************************************************)
(* Values of the constants for TLC.  One lot costs 100; slippage and fee   *)
(* are 10 percent each, so every sum is exact: BUY pays 110 + 11 a lot and *)
(* SELL gets 90 - 9.                                                       *)
(***************************************************************************)
EXTENDS TradingCycle, TLC

CONSTANTS r1, r2, r3, buyA, sellA, buyB, buyC, hold, A, B, C

AllSides   == buyA :> "buy" @@ sellA :> "sell" @@ buyB :> "buy" @@ buyC :> "buy"
              @@ hold :> "hold"
AllSymbols == buyA :> A @@ sellA :> A @@ buyB :> B @@ buyC :> C @@ hold :> A
AllQty     == [o \in {buyA, sellA, buyB, buyC, hold} |-> 2]

MCOrderSide   == [o \in Orders |-> AllSides[o]]
MCOrderSymbol == [o \in Orders |-> AllSymbols[o]]
MCOrderQty    == [o \in Orders |-> AllQty[o]]

Quote(last, spread, age) == [last |-> last, ask |-> last, bid |-> last - spread, age |-> age]

\* A good quote, and one that the exchange stamped after the request started.
Steady    == {Quote(100, 0, 0)}
SteadyOrStale == {Quote(100, 0, 0), Quote(100, 0, -1)}
TwoPrices == {Quote(100, 0, 0), Quote(150, 0, 0)}

Interchangeable == Permutations(Requests)
===============================================================================
