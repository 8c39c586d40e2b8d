--------------------------- MODULE MCMarketDiscovery ---------------------------
(***************************************************************************)
(* Values for TLC.                                                         *)
(***************************************************************************)
EXTENDS MarketDiscovery, TLC

CONSTANTS d1, d2, d3

Interchangeable == Permutations(Discoveries)
===============================================================================
