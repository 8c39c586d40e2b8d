---------------------------- MODULE MCPublicClient ----------------------------
(***************************************************************************)
(* Values for TLC: calls that share one client and endpoint.               *)
(***************************************************************************)
EXTENDS PublicClient, TLC

CONSTANTS c1, c2, ohlc

SameKey      == [c \in Tasks |-> ohlc]
TwoPerPeriod == [k \in Keys |-> 2]
===============================================================================
