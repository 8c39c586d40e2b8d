--------------------------- MODULE MCLedgerRounding ----------------------------
(***************************************************************************)
(* A hundred grains to a quantum and a significand of a hundred: sums up   *)
(* to 100 grains are exact, up to a quantum's tenth below 1000, up to a    *)
(* quantum below 10000 (Limit), and lose quanta above.  The amounts end    *)
(* below, on and above a tie and on a whole quantum.  One order asks for   *)
(* half a quantum too much; another makes the position pass Limit.         *)
(***************************************************************************)
EXTENDS LedgerRounding

CONSTANTS buy1, buy2, odd, sell1, sell2

MCOrders   == {buy1, buy2, odd, sell1, sell2}
MCBuys     == {buy1, buy2, odd}
MCOrderQty ==
    [o \in MCOrders |-> CASE o = odd -> 250 [] o = buy2 -> 9900 [] OTHER -> 200]
===============================================================================
