---------------------------- MODULE MarketDiscovery ----------------------------
(***************************************************************************)
(* MarketDiscoveryService.run with the adapter's discover_markets and the  *)
(* repository's reconcile, for one exchange.  Each discovery is a request  *)
(* or a CLI run with its own transaction at READ COMMITTED.  The exchange  *)
(* is external: any of its markets may be listed at any time, and any of   *)
(* the listed ones may come with metadata that cannot be mapped.           *)
(***************************************************************************)
EXTENDS Integers, FiniteSets

CONSTANTS
    Discoveries,
    Symbols,       \* 1..n: the order of the symbols' names
    MaxInFlight    \* bound: discoveries under way at the same time

ASSUME DiscoveryConstants == Symbols \subseteq Nat /\ MaxInFlight \in Nat

VARIABLES
    active,     \* the active column of the markets that have a row
    pc,
    options,    \* markets whose precision the options response has
    listed,     \* markets of the order-book response
    todo,       \* rows still to be written by the current statement(s)
    existing,   \* rows found before the first upsert
    tx          \* rows written by the open transaction, with their active column

discVars == <<active, pc, options, listed, todo, existing, tx>>

NoRows == [s \in {} |-> TRUE]

Init ==
    /\ active = NoRows
    /\ pc = [d \in Discoveries |-> "idle"]
    /\ options = [d \in Discoveries |-> {}]
    /\ listed = [d \in Discoveries |-> {}]
    /\ todo = [d \in Discoveries |-> {}]
    /\ existing = [d \in Discoveries |-> {}]
    /\ tx = [d \in Discoveries |-> NoRows]

InFlight == {d \in Discoveries : pc[d] \notin {"idle", "done", "failed"}}
Goto(d, there) == pc' = [pc EXCEPT ![d] = there]

\* What map_market accepts of the books, and whether it rejected none.
Mapped(d) == listed[d] \cap options[d]

\* Mutant of Complete: a snapshot with any market counts as complete.
CompleteIfAny(d) == Mapped(d) # {}

Complete(d) == listed[d] \subseteq options[d]

GetOptions(d) ==
    /\ pc[d] = "idle" /\ Cardinality(InFlight) < MaxInFlight
    /\ \E S \in SUBSET Symbols : options' = [options EXCEPT ![d] = S]
    /\ Goto(d, "books")
    /\ UNCHANGED <<active, listed, todo, existing, tx>>

\* All order books; a response without any is an error.
GetOrderBooks(d) ==
    /\ pc[d] = "books"
    /\ \E S \in SUBSET Symbols \ {{}} : listed' = [listed EXCEPT ![d] = S]
    /\ Goto(d, "existing")
    /\ UNCHANGED <<active, options, todo, existing, tx>>

\* The statement after the last upsert.
AfterUpserts(d) == IF Complete(d) THEN "deactivate" ELSE "commit"

ReadExisting(d) ==
    /\ pc[d] = "existing"
    /\ existing' = [existing EXCEPT ![d] = DOMAIN active]
    /\ todo' = [todo EXCEPT ![d] = Mapped(d)]
    /\ Goto(d, IF Mapped(d) = {} THEN AfterUpserts(d) ELSE "upsert")
    /\ UNCHANGED <<active, options, listed, tx>>

\* Row s has been written by another open transaction.
Locked(d, s) == \E q \in Discoveries \ {d} : s \in DOMAIN tx[q]

Write(d, s, flag) ==
    /\ ~Locked(d, s)
    /\ tx' = [tx EXCEPT ![d] = [r \in DOMAIN @ \cup {s} |-> IF r = s THEN flag ELSE @[r]]]
    /\ todo' = [todo EXCEPT ![d] = @ \ {s}]

\* Mutant of UpsertOne: an existing row keeps its active column.
UpsertOneKeepsFlag(d) ==
    /\ pc[d] = "upsert"
    /\ \E s \in todo[d] :
          /\ \A r \in todo[d] : s <= r
          /\ Write(d, s, IF s \in DOMAIN active THEN active[s] ELSE TRUE)
          /\ Goto(d, IF todo[d] = {s} THEN AfterUpserts(d) ELSE "upsert")
    /\ UNCHANGED <<active, options, listed, existing>>

\* INSERT ... ON CONFLICT DO UPDATE for each market in order of its symbol.
UpsertOne(d) ==
    /\ pc[d] = "upsert"
    /\ \E s \in todo[d] :
          /\ \A r \in todo[d] : s <= r
          /\ Write(d, s, TRUE)
          /\ Goto(d, IF todo[d] = {s} THEN AfterUpserts(d) ELSE "upsert")
    /\ UNCHANGED <<active, options, listed, existing>>

\* UPDATE ... WHERE symbol NOT IN (...): the rows that are committed when the
\* statement starts, locked one after the other in the order of the scan.
DeactivateScan(d) ==
    /\ pc[d] = "deactivate"
    /\ todo' = [todo EXCEPT ![d] = DOMAIN active \ Mapped(d)]
    /\ Goto(d, IF DOMAIN active \subseteq Mapped(d) THEN "commit" ELSE "update")
    /\ UNCHANGED <<active, options, listed, existing, tx>>

DeactivateOne(d) ==
    /\ pc[d] = "update"
    /\ \E s \in todo[d] : /\ Write(d, s, FALSE)
                          /\ Goto(d, IF todo[d] = {s} THEN "commit" ELSE "update")
    /\ UNCHANGED <<active, options, listed, existing>>

Commit(d) ==
    /\ pc[d] = "commit"
    /\ active' = [s \in DOMAIN active \cup DOMAIN tx[d] |->
                     IF s \in DOMAIN tx[d] THEN tx[d][s] ELSE active[s]]
    /\ tx' = [tx EXCEPT ![d] = NoRows]
    /\ Goto(d, "done")
    /\ UNCHANGED <<options, listed, todo, existing>>

\* The exchange or a statement fails, the process dies, or PostgreSQL ends the
\* transaction to break a deadlock (an UPDATE that takes its rows in another
\* order can wait for a discovery that waits for it): roll back.
Fail(d) ==
    /\ d \in InFlight
    /\ tx' = [tx EXCEPT ![d] = NoRows]
    /\ todo' = [todo EXCEPT ![d] = {}]
    /\ Goto(d, "failed")
    /\ UNCHANGED <<active, options, listed, existing>>

Proceed(d) ==
    \/ GetOptions(d) \/ GetOrderBooks(d) \/ ReadExisting(d) \/ UpsertOne(d)
    \/ DeactivateScan(d) \/ DeactivateOne(d) \/ Commit(d)

Quiet == InFlight = {} /\ UNCHANGED discVars

Next == (\E d \in Discoveries : Proceed(d) \/ Fail(d)) \/ Quiet

Spec == Init /\ [][Next]_discVars
-------------------------------------------------------------------------------
TypeOK ==
    /\ DOMAIN active \subseteq Symbols /\ active \in [DOMAIN active -> BOOLEAN]
    /\ \A d \in Discoveries : /\ DOMAIN tx[d] \subseteq Symbols
                              /\ options[d] \cup listed[d] \cup todo[d] \subseteq Symbols

\* docs/market-data.md:4-6.  A market becomes inactive only by the commit of a
\* discovery whose order books did not list it and which could map every market
\* they listed; a market that was listed but not mapped is never touched.
NoFalseDeactivation ==
    [][\A s \in DOMAIN active :
          active[s] /\ ~active'[s] =>
              \E d \in Discoveries : /\ pc[d] = "commit" /\ pc'[d] = "done"
                                     /\ s \notin listed[d]
                                     /\ listed[d] \subseteq options[d]]_active

\* Of the markets a complete discovery knew or was told of, exactly those the
\* exchange listed are active after its commit, one that came back included and
\* whatever overlapping discoveries wrote.
CompleteIsExact ==
    [][\A d \in Discoveries :
          pc[d] = "commit" /\ pc'[d] = "done" /\ listed[d] \subseteq options[d]
             => {s \in existing[d] \cup listed[d] : active'[s]} = listed[d]]_pc
===============================================================================
