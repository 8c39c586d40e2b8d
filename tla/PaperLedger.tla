----------------------------- MODULE PaperLedger ------------------------------
(***************************************************************************)
(* What the PAPER account promises, with no requests, sessions, locks or   *)
(* stale values: a ledger in which each order is booked at most once, in   *)
(* one step that moves cash and holding together, and only while trading   *)
(* is enabled; and a switch that only the operator moves out of KILLED.    *)
(***************************************************************************)
EXTENDS PaperAccounting

CONSTANTS Orders, Symbols, OrderSide, OrderSymbol, OrderQty, Tickers, InitialCash

VARIABLES
    balance,   \* the quote balance
    holding,   \* [Symbols -> lots held]
    booked,    \* the orders that were filled
    switch     \* ENABLED, PAUSED or KILLED

ledger == <<balance, holding, booked, switch>>

Init ==
    /\ balance = InitialCash
    /\ holding = [s \in Symbols |-> 0]
    /\ booked = {}
    /\ switch = "ENABLED"

\* A BUY that the balance covers.
Buy(o, price) ==
    /\ OrderSide[o] = "buy"
    /\ Debit(OrderQty[o], price) <= balance
    /\ balance' = balance - Debit(OrderQty[o], price)
    /\ holding' = [holding EXCEPT ![OrderSymbol[o]] = @ + OrderQty[o]]

\* A SELL that the holding covers: no short position.
Sell(o, price) ==
    /\ OrderSide[o] = "sell"
    /\ OrderQty[o] <= holding[OrderSymbol[o]]
    /\ balance' = balance + Credit(OrderQty[o], price)
    /\ holding' = [holding EXCEPT ![OrderSymbol[o]] = @ - OrderQty[o]]

Book(o) ==
    /\ switch = "ENABLED" /\ o \notin booked
    /\ \E t \in Tickers : LET price == FillPrice(OrderSide[o], t)
                          IN  Buy(o, price) \/ Sell(o, price)
    /\ booked' = booked \cup {o}
    /\ UNCHANGED switch

\* The operator's transitions; reconciliation, too, may only kill.
Switch(from, to) ==
    /\ switch \in from /\ switch' = to
    /\ UNCHANGED <<balance, holding, booked>>

Next ==
    \/ \E o \in Orders : Book(o)
    \/ Switch({"ENABLED"}, "PAUSED")
    \/ Switch({"PAUSED"}, "ENABLED")
    \/ Switch({"ENABLED", "PAUSED"}, "KILLED")
    \/ Switch({"KILLED"}, "PAUSED")

Spec == Init /\ [][Next]_ledger
===============================================================================
