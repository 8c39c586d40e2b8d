-------------------------- MODULE MCAccountBootstrap ---------------------------
(***************************************************************************)
(* The values MCTradingCycle gives to the constants serve here, too.       *)
(***************************************************************************)
EXTENDS AccountBootstrap, MCTradingCycle
===============================================================================
