---------------------------- MODULE LedgerRounding ----------------------------
(***************************************************************************)
(* What rounding does to the account.  It happens twice: Python's Decimal  *)
(* keeps 28 significant digits of every sum, and the NUMERIC(36,18) column *)
(* keeps 18 decimals of every number written.  Reconciliation and          *)
(* execution_signature then compare for equality.                          *)
(*                                                                         *)
(* A stored number is an integer count of quanta (10^-18).  A number that  *)
(* only Python has seen is a count of grains, Grains of them to a quantum. *)
(* Below Limit (10^10 units of the currency) the last digit of a sum is    *)
(* worth a quantum or less; above it Python itself drops quanta.           *)
(* Notional, fee and requested notional are products whose last digits are *)
(* arbitrary, so they are inputs.  Requests do not overlap here: what      *)
(* overlap does to the balance is the subject of TradingCycle.             *)
(***************************************************************************)
EXTENDS Integers

CONSTANTS
    Orders,       \* client_order_ids
    Buys,         \* those that buy; the others sell
    OrderQty,     \* [Orders -> grains], the request's quantity
    Asked,        \* quantity * reference price, in grains
    Notionals,    \* quantity * fill price, in grains
    Fees,         \* notional * fee rate, in grains
    Grains,       \* grains in a quantum
    Significand,  \* 10^28: the digits of a Decimal stay up to it
    Ulps,         \* what the last digit may be worth: powers of ten, in grains
    InitialCash,  \* settings.paper_initial_balance, in quanta (18 decimals)
    None

Money == [notional : Notionals, fee : Fees]

\* paper_fee_rate is at most 1, so that no fee exceeds its notional.
ASSUME RoundingConstants ==
    /\ Buys \subseteq Orders
    /\ OrderQty \in [Orders -> Nat \ {0}]
    /\ Asked \subseteq Nat /\ Notionals \subseteq Nat /\ Fees \subseteq Nat
    /\ Grains \in Nat \ {0} /\ InitialCash \in Nat
    /\ Significand \in Nat \ {0}
    /\ None \notin [qty : Nat, asked : Nat, filled : BOOLEAN]
    /\ None \notin [order : Orders, qty : Nat, asked : Nat]

\* Digits are decimal: a larger unit is a multiple of ten times a smaller one,
\* and just below it there is a unit whose full significand it divides.
ASSUME Decimals ==
    /\ Ulps \subseteq Nat \ {0} /\ Grains \in Ulps
    /\ \A u, v \in Ulps : v < u =>
          /\ u % (10 * v) = 0
          /\ \E w \in Ulps : v <= w /\ w < u /\ (Significand * w) % u = 0

\* What the last digit of x can be worth.
Units(x) == {u \in Ulps : x <= Significand * u /\ -x <= Significand * u}

Ulp(x) == CHOOSE u \in Units(x) : \A v \in Units(x) : u <= v

\* Ulps is all powers of ten up to the largest number a column can hold.
Fits(x) == Units(x) # {}

\* x / u as an integer, a tie to the even one.
HalfEven(x, u) ==
    LET q == x \div u
        r == x % u
    IN  IF 2 * r < u \/ (2 * r = u /\ q % 2 = 0) THEN q ELSE q + 1

\* The sum that Python's default decimal context makes of the exact sum x.
Context(x) == Ulp(x) * HalfEven(x, Ulp(x))

\* The products come out of the same context.
ASSUME Products ==
    \A x \in Asked \cup Notionals \cup Fees : Fits(x) /\ Context(x) = x

Limit == Significand * Grains

VARIABLES
    cash,      \* paper_balances.available, in quanta
    quantity,  \* paper_positions.quantity, in quanta
    intents,   \* order_intents: [qty, asked : quanta, filled]
    replayed,  \* what list_fills adds up to: [cash, quantity], in quanta
    sys,       \* risk_state.system_state
    step,      \* what the cycle in progress does next
    hand,      \* its OrderIntent: [order, qty, asked], in grains
    bought,    \* history: the position with every digit, in grains
    rounded,   \* history: fills whose notional or fee lost digits
    precise    \* history: no sum of a fill or of its replay went over Limit

vars == <<cash, quantity, intents, replayed, sys, step, hand, bought, rounded, precise>>

\* Mutant of Stored: the column drops digits instead of rounding.
StoredTruncated(x) == x \div Grains

\* PostgreSQL rounds a tie away from zero; nothing negative is stored here.
Stored(x) == (2 * x + Grains) \div (2 * Grains)

Kept(x) == x % Grains = 0

Init ==
    /\ cash = InitialCash /\ quantity = 0
    /\ intents = [o \in Orders |-> None]
    /\ replayed = [cash |-> InitialCash, quantity |-> 0]
    /\ sys = "ENABLED"
    /\ step = "idle" /\ hand = None
    /\ bought = 0 /\ rounded = 0 /\ precise = TRUE

-------------------------------------------------------------------------------
\* Mutant of SameSignature: the quantity is left to the client_order_id.
SameNotional(row, intent) == row.asked * Grains = intent.asked

\* execution_signature of a stored intent and of one that Python holds.
SameSignature(row, intent) ==
    row.qty * Grains = intent.qty /\ row.asked * Grains = intent.asked

\* An approved cycle.  create_or_get returns the intent it was given when it
\* has inserted it, all digits included.
CreateIntent(o) ==
    /\ step = "idle" /\ sys = "ENABLED" /\ intents[o] = None
    /\ \E a \in Asked :
          /\ hand' = [order |-> o, qty |-> OrderQty[o], asked |-> a]
          /\ intents' = [intents EXCEPT ![o] =
                            [qty |-> Stored(OrderQty[o]), asked |-> Stored(a),
                             filled |-> FALSE]]
    /\ step' = "execute"
    /\ UNCHANGED <<cash, quantity, replayed, sys, bought, rounded, precise>>

\* A retry is returned the row, if nothing of its own signature was rounded off;
\* otherwise it is an IdempotencyConflictError and nothing happens.
RetryIntent(o) ==
    /\ step = "idle" /\ sys = "ENABLED" /\ intents[o] # None
    /\ \E a \in Asked :
          LET intent == [order |-> o, qty |-> OrderQty[o], asked |-> a]
          IN  SameSignature(intents[o], intent) /\ hand' = intent
    /\ step' = "execute"
    /\ UNCHANGED <<cash, quantity, intents, replayed, sys, bought, rounded, precise>>

\* execute: the persisted intent must have the signature of the one in hand.
ExecuteRefused ==
    /\ step = "execute"
    /\ ~SameSignature(intents[hand.order], hand)
    /\ step' = "idle" /\ hand' = None
    /\ UNCHANGED <<cash, quantity, intents, replayed, sys, bought, rounded, precise>>

ExecuteReloads ==
    /\ step = "execute"
    /\ SameSignature(intents[hand.order], hand) /\ intents[hand.order].filled
    /\ step' = "reconcile"
    /\ UNCHANGED <<cash, quantity, intents, replayed, sys, hand, bought, rounded, precise>>

MayExecute ==
    /\ step = "execute" /\ sys = "ENABLED"
    /\ SameSignature(intents[hand.order], hand) /\ ~intents[hand.order].filled

\* The fill's row keeps its own rounding of notional and fee, and the replay adds
\* up those.  Every argument but m is an exact sum, in grains, that the context
\* and the column are still to round; partials are the sums made on the way.
Fill(newCash, newQuantity, replayCash, replayQuantity, partials, m) ==
    LET sums == partials \cup {newCash, newQuantity, replayCash, replayQuantity}
    IN  /\ \A x \in sums : Fits(x)
        /\ cash' = Stored(Context(newCash))
        /\ quantity' = Stored(Context(newQuantity))
        /\ replayed' = [cash |-> Context(replayCash) \div Grains,
                        quantity |-> Context(replayQuantity) \div Grains]
        /\ intents' = [intents EXCEPT ![hand.order].filled = TRUE]
        /\ rounded' = IF Kept(m.notional) /\ Kept(m.fee) THEN rounded ELSE rounded + 1
        /\ precise' = (precise /\ \A x \in sums : -Limit <= x /\ x <= Limit)
        /\ step' = "reconcile"
        /\ UNCHANGED <<sys, hand>>

\* available - (notional + fee), if the parenthesis is covered; the replay
\* subtracts the same parenthesis of the stored numbers.
Buy(m) ==
    LET debit == m.notional + m.fee
        cost  == (Stored(m.notional) + Stored(m.fee)) * Grains
    IN  Fill(cash * Grains - Context(debit), quantity * Grains + hand.qty,
             replayed.cash * Grains - Context(cost),
             (replayed.quantity + Stored(hand.qty)) * Grains, {debit, cost}, m)

\* (available + notional) - fee; the replay adds (notional - fee).
Sell(m) ==
    LET credit   == cash * Grains + m.notional
        proceeds == (Stored(m.notional) - Stored(m.fee)) * Grains
    IN  Fill(Context(credit) - m.fee, quantity * Grains - hand.qty,
             replayed.cash * Grains + Context(proceeds),
             (replayed.quantity - Stored(hand.qty)) * Grains, {credit, proceeds}, m)

\* Mutant of ExecuteBuy: the fee is not part of what the cash has to cover.
ExecuteBuyWithoutFee ==
    /\ MayExecute /\ hand.order \in Buys
    /\ \E m \in Money : m.fee <= m.notional /\ m.notional <= cash * Grains /\ Buy(m)
    /\ bought' = bought + OrderQty[hand.order]

ExecuteBuy ==
    /\ MayExecute /\ hand.order \in Buys
    /\ \E m \in Money :
          /\ m.fee <= m.notional
          /\ Context(m.notional + m.fee) <= cash * Grains
          /\ Buy(m)
    /\ bought' = bought + OrderQty[hand.order]

ExecuteSell ==
    /\ MayExecute /\ hand.order \notin Buys
    /\ hand.qty <= quantity * Grains
    /\ \E m \in Money : m.fee <= m.notional /\ Sell(m)
    /\ bought' = bought - OrderQty[hand.order]

\* Reconciliation allows no tolerance.
Reconcile ==
    /\ step = "reconcile"
    /\ sys' = IF cash = replayed.cash /\ quantity = replayed.quantity THEN sys
              ELSE "KILLED"
    /\ step' = "idle" /\ hand' = None
    /\ UNCHANGED <<cash, quantity, intents, replayed, bought, rounded, precise>>

\* The cycle ends early: a rejection of the executor, an error or a crash.
Abandon ==
    /\ step \in {"execute", "reconcile"}
    /\ step' = "idle" /\ hand' = None
    /\ UNCHANGED <<cash, quantity, intents, replayed, sys, bought, rounded, precise>>

\* The operator reviews the alarm, resets the kill and resumes.
Revive ==
    /\ step = "idle" /\ sys = "KILLED"
    /\ sys' = "ENABLED"
    /\ UNCHANGED <<cash, quantity, intents, replayed, step, hand, bought, rounded, precise>>

Next ==
    \/ \E o \in Orders : CreateIntent(o) \/ RetryIntent(o)
    \/ ExecuteRefused \/ ExecuteReloads \/ ExecuteBuy \/ ExecuteSell
    \/ Reconcile \/ Abandon \/ Revive

Spec == Init /\ [][Next]_vars

-------------------------------------------------------------------------------
\* Every row has its type; rounding never makes a balance negative.
TypeOK ==
    /\ cash \in Nat /\ quantity \in Nat
    /\ intents \in [Orders -> [qty : Nat, asked : Nat, filled : BOOLEAN] \cup {None}]
    /\ replayed \in [cash : Int, quantity : Int]
    /\ sys \in {"ENABLED", "KILLED"}
    /\ step \in {"idle", "execute", "reconcile"}
    /\ hand \in [order : Orders, qty : Nat, asked : Nat] \cup {None}
    /\ bought \in Int /\ rounded \in Nat /\ precise \in BOOLEAN

\* As long as no sum went over Limit, the balance differs from the replay of the
\* fills (which reconciliation.py:75 compares exactly) by at most one quantum for
\* each fill whose notional or fee lost digits.  So without such a fill rounding
\* raises no alarm, and operators who resume after an alarm know how far the
\* account can have drifted.  Above Limit a sale rounds (available + notional)
\* and the replay (notional - fee), so they part over a fill that lost nothing.
DriftBounded ==
    precise => cash - replayed.cash <= rounded /\ replayed.cash - cash <= rounded

\* The stored position is always the replayed one, and up to Limit exact to the
\* last digit: a quantity the column cannot keep changes the stored signature,
\* and such an intent is never executed, neither by the request that created it
\* nor by a retry.
PositionExact ==
    /\ quantity = replayed.quantity
    /\ precise => quantity * Grains = bought
===============================================================================
