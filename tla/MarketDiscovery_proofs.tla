------------------------ MODULE MarketDiscovery_proofs -------------------------
(***************************************************************************)
(* Which markets a discovery activates and deactivates, for any number of  *)
(* discoveries that overlap and fail, and any responses of the exchange.   *)
(*                                                                         *)
(* DiscInv says what the open transaction of a discovery holds at each     *)
(* statement: after the upserts every mapped market with TRUE, after the   *)
(* UPDATE of a complete one also every other market it knew, with FALSE.   *)
(***************************************************************************)
EXTENDS MarketDiscovery, TLAPS

Labels == {"idle", "books", "existing", "upsert", "deactivate", "update",
           "commit", "done", "failed"}

\* The values tx[d] holds: TRUE for what is mapped, FALSE only for what a
\* complete discovery did not see.
Flags(d) ==
    /\ tx[d] \in [DOMAIN tx[d] -> BOOLEAN]
    /\ \A s \in DOMAIN tx[d] : IF tx[d][s] THEN s \in Mapped(d)
                               ELSE s \notin listed[d] /\ Complete(d)

Holdings(d) ==
    /\ pc[d] \in {"idle", "books", "existing", "done", "failed"} => DOMAIN tx[d] = {}
    /\ pc[d] = "upsert" => DOMAIN tx[d] \cup todo[d] = Mapped(d)
    /\ pc[d] = "deactivate" => Complete(d) /\ DOMAIN tx[d] = listed[d]
    /\ pc[d] = "update" => /\ Complete(d)
                           /\ todo[d] \cap listed[d] = {}
                           /\ existing[d] \cup listed[d] \subseteq DOMAIN tx[d] \cup todo[d]
    /\ pc[d] = "commit" /\ Complete(d) =>
          existing[d] \cup listed[d] \subseteq DOMAIN tx[d]

DiscInv ==
    /\ pc \in [Discoveries -> Labels]
    /\ options \in [Discoveries -> SUBSET Symbols]
    /\ listed \in [Discoveries -> SUBSET Symbols]
    /\ todo \in [Discoveries -> SUBSET Symbols]
    /\ existing \in [Discoveries -> SUBSET Symbols]
    /\ DOMAIN tx = Discoveries /\ tx = [d \in Discoveries |-> tx[d]]
    /\ active \in [DOMAIN active -> BOOLEAN] /\ DOMAIN active \subseteq Symbols
    /\ \A d \in Discoveries : /\ DOMAIN tx[d] \subseteq Symbols
                              /\ existing[d] \subseteq DOMAIN active
                              /\ Flags(d) /\ Holdings(d)

LEMMA DiscInit == Init => DiscInv
<1> SUFFICES ASSUME Init PROVE DiscInv
    OBVIOUS
<1>1. DOMAIN NoRows = {} /\ NoRows \in [{} -> BOOLEAN]
    BY DEF NoRows
<1>2. ASSUME NEW d \in Discoveries PROVE Flags(d) /\ Holdings(d)
    BY <1>1 DEF Init, Flags, Holdings
<1> QED BY <1>1, <1>2 DEF Init, DiscInv, Labels

-------------------------------------------------------------------------------
\* A step of d changes the variables of d, and the table only by adding rows.
Moves(d) ==
    /\ \A e \in Discoveries \ {d} :
          /\ pc'[e] = pc[e] /\ tx'[e] = tx[e] /\ todo'[e] = todo[e]
          /\ options'[e] = options[e] /\ listed'[e] = listed[e] /\ existing'[e] = existing[e]
    /\ pc' \in [Discoveries -> Labels]
    /\ options' \in [Discoveries -> SUBSET Symbols]
    /\ listed' \in [Discoveries -> SUBSET Symbols]
    /\ todo' \in [Discoveries -> SUBSET Symbols]
    /\ existing' \in [Discoveries -> SUBSET Symbols]
    /\ DOMAIN tx' = Discoveries /\ tx' = [e \in Discoveries |-> tx'[e]]
    /\ active' \in [DOMAIN active' -> BOOLEAN]
    /\ DOMAIN active \subseteq DOMAIN active' /\ DOMAIN active' \subseteq Symbols

LEMMA MovesKeep ==
    ASSUME DiscInv, NEW d \in Discoveries, Moves(d),
           DOMAIN tx'[d] \subseteq Symbols, existing'[d] \subseteq DOMAIN active',
           Flags(d)', Holdings(d)'
    PROVE  DiscInv'
<1>1. ASSUME NEW e \in Discoveries, e # d
      PROVE  /\ DOMAIN tx'[e] \subseteq Symbols /\ existing'[e] \subseteq DOMAIN active'
             /\ Flags(e)' /\ Holdings(e)'
    <2>1. /\ pc'[e] = pc[e] /\ tx'[e] = tx[e] /\ todo'[e] = todo[e]
          /\ options'[e] = options[e] /\ listed'[e] = listed[e] /\ existing'[e] = existing[e]
        BY <1>1 DEF Moves
    <2>2. /\ DOMAIN tx[e] \subseteq Symbols /\ existing[e] \subseteq DOMAIN active
          /\ Flags(e) /\ Holdings(e)
        BY DEF DiscInv
    <2>3. Flags(e)'
        BY <2>1, <2>2 DEF Flags, Mapped, Complete
    <2>4. Holdings(e)'
        BY <2>1, <2>2 DEF Holdings, Mapped, Complete
    <2> QED BY <2>1, <2>2, <2>3, <2>4 DEF Moves
<1> QED BY <1>1 DEF DiscInv, Moves

\* The responses and the SELECT.
LEMMA FetchKeeps ==
    ASSUME DiscInv, NEW d \in Discoveries, GetOptions(d) \/ GetOrderBooks(d) \/ ReadExisting(d)
    PROVE  DiscInv'
<1>1. pc[d] \in {"idle", "books", "existing"} /\ UNCHANGED <<active, tx>>
    BY DEF GetOptions, GetOrderBooks, ReadExisting
<1>2. DOMAIN tx[d] = {}
    BY <1>1 DEF DiscInv, Holdings
<1>3. Moves(d)
    <2>1. CASE GetOptions(d)
        BY <2>1 DEF GetOptions, Goto, Moves, DiscInv, Labels
    <2>2. CASE GetOrderBooks(d)
        BY <2>2 DEF GetOrderBooks, Goto, Moves, DiscInv, Labels
    <2>3. CASE ReadExisting(d)
        BY <2>3 DEF ReadExisting, Goto, AfterUpserts, Mapped, Moves, DiscInv, Labels
    <2> QED BY <2>1, <2>2, <2>3
<1>4. Flags(d)'
    BY <1>1, <1>2 DEF Flags, DiscInv
<1>5. Holdings(d)'
    <2>1. CASE GetOptions(d) \/ GetOrderBooks(d)
        BY <1>1, <1>2, <2>1 DEF GetOptions, GetOrderBooks, Goto, Holdings, DiscInv
    <2>2. CASE ReadExisting(d)
        BY <1>1, <1>2, <2>2 DEF ReadExisting, Goto, AfterUpserts, Mapped, Complete, Holdings, DiscInv
    <2> QED BY <2>1, <2>2
<1>6. existing'[d] \subseteq DOMAIN active'
    BY <1>1 DEF GetOptions, GetOrderBooks, ReadExisting, DiscInv
<1> QED BY <1>1, <1>2, <1>3, <1>4, <1>5, <1>6, MovesKeep

\* Writing one row.
LEMMA WriteAdds ==
    ASSUME DiscInv, NEW d \in Discoveries, NEW s \in todo[d], NEW flag \in BOOLEAN,
           Write(d, s, flag)
    PROVE  /\ DOMAIN tx' = Discoveries /\ tx' = [e \in Discoveries |-> tx'[e]]
           /\ \A e \in Discoveries \ {d} : tx'[e] = tx[e] /\ todo'[e] = todo[e]
           /\ DOMAIN tx'[d] = DOMAIN tx[d] \cup {s}
           /\ tx'[d] \in [DOMAIN tx'[d] -> BOOLEAN]
           /\ tx'[d][s] = flag
           /\ \A r \in DOMAIN tx[d] \ {s} : tx'[d][r] = tx[d][r]
           /\ todo'[d] = todo[d] \ {s} /\ todo' \in [Discoveries -> SUBSET Symbols]
           /\ s \in Symbols
<1> DEFINE new == [r \in DOMAIN tx[d] \cup {s} |-> IF r = s THEN flag ELSE tx[d][r]]
<1>1. tx' = [tx EXCEPT ![d] = new] /\ todo' = [todo EXCEPT ![d] = todo[d] \ {s}]
    BY DEF Write
<1>2. tx[d] \in [DOMAIN tx[d] -> BOOLEAN] /\ DOMAIN tx = Discoveries
    BY DEF DiscInv, Flags
<1>3. tx'[d] = new /\ \A e \in Discoveries \ {d} : tx'[e] = tx[e]
    BY <1>1, <1>2
<1>4. /\ DOMAIN new = DOMAIN tx[d] \cup {s} /\ new[s] = flag
      /\ new \in [DOMAIN new -> BOOLEAN]
      /\ \A r \in DOMAIN tx[d] \ {s} : new[r] = tx[d][r]
    BY <1>2
<1>5. DOMAIN tx' = Discoveries /\ tx' = [e \in Discoveries |-> tx'[e]]
    BY <1>1, <1>2
<1>6. /\ todo'[d] = todo[d] \ {s} /\ todo' \in [Discoveries -> SUBSET Symbols]
      /\ \A e \in Discoveries \ {d} : todo'[e] = todo[e]
      /\ s \in Symbols
    BY <1>1 DEF DiscInv
<1> QED BY <1>3, <1>4, <1>5, <1>6

LEMMA UpsertKeeps ==
    ASSUME DiscInv, NEW d \in Discoveries, UpsertOne(d)
    PROVE  DiscInv'
<1>1. PICK s \in todo[d] :
         /\ Write(d, s, TRUE)
         /\ pc' = [pc EXCEPT ![d] = IF todo[d] = {s} THEN AfterUpserts(d) ELSE "upsert"]
    BY DEF UpsertOne, Goto
<1>2. pc[d] = "upsert" /\ UNCHANGED <<active, options, listed, existing>>
    BY DEF UpsertOne
<1>3. /\ DOMAIN tx' = Discoveries /\ tx' = [e \in Discoveries |-> tx'[e]]
      /\ \A e \in Discoveries \ {d} : tx'[e] = tx[e] /\ todo'[e] = todo[e]
      /\ DOMAIN tx'[d] = DOMAIN tx[d] \cup {s}
      /\ tx'[d] \in [DOMAIN tx'[d] -> BOOLEAN]
      /\ tx'[d][s] = TRUE
      /\ \A r \in DOMAIN tx[d] \ {s} : tx'[d][r] = tx[d][r]
      /\ todo'[d] = todo[d] \ {s} /\ todo' \in [Discoveries -> SUBSET Symbols]
      /\ s \in Symbols
    BY <1>1, WriteAdds
<1>4. DOMAIN tx[d] \cup todo[d] = Mapped(d) /\ Flags(d)
    BY <1>2 DEF DiscInv, Holdings
<1>5. pc'[d] = IF todo[d] = {s} THEN AfterUpserts(d) ELSE "upsert"
    BY <1>1 DEF DiscInv
<1>6. Moves(d)
    BY <1>1, <1>2, <1>3 DEF Moves, DiscInv, Labels, AfterUpserts
<1>7. Flags(d)'
    BY <1>2, <1>3, <1>4 DEF Flags, Mapped, Complete
<1>8. Holdings(d)'
    <2>1. DOMAIN tx'[d] \cup todo'[d] = Mapped(d)'
        BY <1>2, <1>3, <1>4 DEF Mapped
    <2>2. CASE todo[d] = {s}
        <3>1. todo'[d] = {} /\ DOMAIN tx'[d] = Mapped(d)
            BY <1>2, <1>3, <2>1, <2>2 DEF Mapped
        <3>2. Complete(d) => Mapped(d) = listed[d] /\ pc'[d] = "deactivate"
            BY <1>5, <2>2 DEF Complete, Mapped, AfterUpserts
        <3>3. ~Complete(d) => pc'[d] = "commit"
            BY <1>5, <2>2 DEF AfterUpserts
        <3>4. Complete(d)' = Complete(d)
            BY <1>2 DEF Complete
        <3> QED BY <1>2, <3>1, <3>2, <3>3, <3>4 DEF Holdings
    <2>3. CASE todo[d] # {s}
        BY <1>5, <2>1, <2>3 DEF Holdings
    <2> QED BY <2>2, <2>3
<1> QED BY <1>2, <1>3, <1>6, <1>7, <1>8, MovesKeep DEF DiscInv

LEMMA ScanKeeps ==
    ASSUME DiscInv, NEW d \in Discoveries, DeactivateScan(d)
    PROVE  DiscInv'
<1>1. /\ pc[d] = "deactivate" /\ UNCHANGED <<active, options, listed, existing, tx>>
      /\ todo' = [todo EXCEPT ![d] = DOMAIN active \ Mapped(d)]
      /\ pc' = [pc EXCEPT ![d] = IF DOMAIN active \subseteq Mapped(d) THEN "commit" ELSE "update"]
    BY DEF DeactivateScan, Goto
<1>2. Complete(d) /\ DOMAIN tx[d] = listed[d] /\ Flags(d) /\ existing[d] \subseteq DOMAIN active
    BY <1>1 DEF DiscInv, Holdings
<1>3. Mapped(d) = listed[d]
    BY <1>2 DEF Complete, Mapped
<1>4. Moves(d)
    BY <1>1 DEF Moves, DiscInv, Labels
<1>5. Flags(d)'
    BY <1>1, <1>2 DEF Flags, Mapped, Complete
<1>6. todo'[d] = DOMAIN active \ listed[d]
    BY <1>1, <1>3 DEF DiscInv
<1>7. Holdings(d)'
    <2>1. CASE DOMAIN active \subseteq listed[d]
        <3>1. pc'[d] = "commit"
            BY <1>1, <1>3, <2>1 DEF DiscInv
        <3> QED BY <1>1, <1>2, <2>1, <3>1 DEF Holdings
    <2>2. CASE ~(DOMAIN active \subseteq listed[d])
        <3>1. pc'[d] = "update"
            BY <1>1, <1>3, <2>2 DEF DiscInv
        <3> QED BY <1>1, <1>2, <1>6, <3>1 DEF Holdings, Complete
    <2> QED BY <2>1, <2>2
<1> QED BY <1>1, <1>2, <1>4, <1>5, <1>7, MovesKeep DEF DiscInv

LEMMA DeactivateKeeps ==
    ASSUME DiscInv, NEW d \in Discoveries, DeactivateOne(d)
    PROVE  DiscInv'
<1>1. PICK s \in todo[d] :
         /\ Write(d, s, FALSE)
         /\ pc' = [pc EXCEPT ![d] = IF todo[d] = {s} THEN "commit" ELSE "update"]
    BY DEF DeactivateOne, Goto
<1>2. pc[d] = "update" /\ UNCHANGED <<active, options, listed, existing>>
    BY DEF DeactivateOne
<1>3. /\ DOMAIN tx' = Discoveries /\ tx' = [e \in Discoveries |-> tx'[e]]
      /\ \A e \in Discoveries \ {d} : tx'[e] = tx[e] /\ todo'[e] = todo[e]
      /\ DOMAIN tx'[d] = DOMAIN tx[d] \cup {s}
      /\ tx'[d] \in [DOMAIN tx'[d] -> BOOLEAN]
      /\ tx'[d][s] = FALSE
      /\ \A r \in DOMAIN tx[d] \ {s} : tx'[d][r] = tx[d][r]
      /\ todo'[d] = todo[d] \ {s} /\ todo' \in [Discoveries -> SUBSET Symbols]
      /\ s \in Symbols
    BY <1>1, WriteAdds
<1>4. /\ Complete(d) /\ todo[d] \cap listed[d] = {} /\ Flags(d)
      /\ existing[d] \cup listed[d] \subseteq DOMAIN tx[d] \cup todo[d]
    BY <1>2 DEF DiscInv, Holdings
<1>5. pc'[d] = IF todo[d] = {s} THEN "commit" ELSE "update"
    BY <1>1 DEF DiscInv
<1>6. Moves(d)
    BY <1>1, <1>2, <1>3 DEF Moves, DiscInv, Labels
<1>7. Flags(d)'
    BY <1>2, <1>3, <1>4 DEF Flags, Mapped, Complete
<1>8. Holdings(d)'
    BY <1>2, <1>3, <1>4, <1>5 DEF Holdings, Complete
<1> QED BY <1>2, <1>3, <1>6, <1>7, <1>8, MovesKeep DEF DiscInv

\* The table after the commit of d.
LEMMA CommitEffect ==
    ASSUME DiscInv, NEW d \in Discoveries, Commit(d)
    PROVE  /\ DOMAIN active' = DOMAIN active \cup DOMAIN tx[d]
           /\ \A s \in DOMAIN active' :
                 active'[s] = IF s \in DOMAIN tx[d] THEN tx[d][s] ELSE active[s]
           /\ active' \in [DOMAIN active' -> BOOLEAN]
<1>1. tx[d] \in [DOMAIN tx[d] -> BOOLEAN] /\ active \in [DOMAIN active -> BOOLEAN]
    BY DEF DiscInv, Flags
<1> QED BY <1>1 DEF Commit

LEMMA EndKeeps ==
    ASSUME DiscInv, NEW d \in Discoveries, Commit(d) \/ Fail(d)
    PROVE  DiscInv'
<1>1. /\ tx' = [tx EXCEPT ![d] = NoRows] /\ pc'[d] \in {"done", "failed"}
      /\ UNCHANGED <<options, listed, existing>>
    BY DEF Commit, Fail, Goto, DiscInv
<1>2. DOMAIN NoRows = {} /\ NoRows \in [{} -> BOOLEAN]
    BY DEF NoRows
<1>3. tx'[d] = NoRows /\ DOMAIN tx' = Discoveries /\ tx' = [e \in Discoveries |-> tx'[e]]
    BY <1>1 DEF DiscInv
<1>4. /\ active' \in [DOMAIN active' -> BOOLEAN]
      /\ DOMAIN active \subseteq DOMAIN active' /\ DOMAIN active' \subseteq Symbols
    <2>1. CASE Commit(d)
        <3>1. DOMAIN tx[d] \cup DOMAIN active \subseteq Symbols
            BY DEF DiscInv
        <3>2. /\ DOMAIN active' = DOMAIN active \cup DOMAIN tx[d]
              /\ active' \in [DOMAIN active' -> BOOLEAN]
            BY <2>1, CommitEffect
        <3> QED BY <3>1, <3>2
    <2>2. CASE Fail(d)
        <3>1. active' = active
            BY <2>2 DEF Fail
        <3> QED BY <3>1 DEF DiscInv
    <2> QED BY <2>1, <2>2
<1>5. /\ pc' \in [Discoveries -> Labels] /\ todo' \in [Discoveries -> SUBSET Symbols]
      /\ \A e \in Discoveries \ {d} : pc'[e] = pc[e] /\ todo'[e] = todo[e]
    BY DEF Commit, Fail, Goto, DiscInv, Labels
<1>6. Moves(d)
    BY <1>1, <1>3, <1>4, <1>5 DEF Moves, DiscInv
<1>7. Flags(d)' /\ Holdings(d)'
    BY <1>1, <1>2, <1>3 DEF Flags, Holdings
<1> QED BY <1>1, <1>2, <1>3, <1>4, <1>6, <1>7, MovesKeep DEF DiscInv

LEMMA DiscStep == DiscInv /\ [Next]_discVars => DiscInv'
<1> SUFFICES ASSUME DiscInv, [Next]_discVars PROVE DiscInv'
    OBVIOUS
<1>1. ASSUME NEW d \in Discoveries, Proceed(d) \/ Fail(d) PROVE DiscInv'
    BY <1>1, FetchKeeps, UpsertKeeps, ScanKeeps, DeactivateKeeps, EndKeeps DEF Proceed
<1>2. CASE UNCHANGED discVars
    BY <1>2 DEF discVars, DiscInv, Flags, Holdings, Mapped, Complete
<1> QED BY <1>1, <1>2 DEF Next, Quiet

LEMMA DiscCorrect == Spec => []DiscInv
<1> QED BY DiscInit, DiscStep, PTL DEF Spec

-------------------------------------------------------------------------------
\* Only a commit changes the table.
LEMMA OnlyCommits ==
    ASSUME DiscInv, [Next]_discVars, active' # active
    PROVE  \E d \in Discoveries : Commit(d)
BY DEF Next, Proceed, Quiet, GetOptions, GetOrderBooks, ReadExisting, UpsertOne,
    DeactivateScan, DeactivateOne, Fail, discVars

\* A market is deactivated only by the commit of a discovery that did not see it
\* and could map all it saw, however many overlap (repositories/markets.py:59-69).
THEOREM NoMarketLost == Spec => NoFalseDeactivation
<1> DEFINE Fair == \A s \in DOMAIN active : active[s] /\ ~active'[s] =>
                     \E d \in Discoveries : /\ pc[d] = "commit" /\ pc'[d] = "done"
                                            /\ s \notin listed[d]
                                            /\ listed[d] \subseteq options[d]
<1>1. DiscInv /\ [Next]_discVars => [Fair]_active
    <2> SUFFICES ASSUME DiscInv, [Next]_discVars, active' # active,
                        NEW s \in DOMAIN active, active[s], ~active'[s]
                 PROVE  \E d \in Discoveries : /\ pc[d] = "commit" /\ pc'[d] = "done"
                                               /\ s \notin listed[d]
                                               /\ listed[d] \subseteq options[d]
        OBVIOUS
    <2>1. PICK d \in Discoveries : Commit(d)
        BY OnlyCommits
    <2>2. pc[d] = "commit" /\ pc'[d] = "done"
        BY <2>1 DEF Commit, Goto, DiscInv
    <2>3. s \in DOMAIN tx[d] /\ ~tx[d][s]
        BY <2>1, CommitEffect
    <2>4. s \notin listed[d] /\ Complete(d)
        BY <2>3 DEF DiscInv, Flags
    <2> QED BY <2>2, <2>4 DEF Complete
<1>2. Spec => [][Fair]_active
    BY <1>1, DiscCorrect, PTL DEF Spec
<1> QED BY <1>2 DEF NoFalseDeactivation

\* After the commit of a complete discovery exactly the listed ones of the markets
\* it knew or was told of are active, whatever overlapping ones wrote.
THEOREM CompleteDiscovery == Spec => CompleteIsExact
<1> DEFINE Exact == \A d \in Discoveries :
                      pc[d] = "commit" /\ pc'[d] = "done" /\ listed[d] \subseteq options[d]
                        => {s \in existing[d] \cup listed[d] : active'[s]} = listed[d]
<1>1. DiscInv /\ [Next]_discVars => [Exact]_pc
    <2> SUFFICES ASSUME DiscInv, [Next]_discVars, NEW d \in Discoveries,
                        pc[d] = "commit", pc'[d] = "done", listed[d] \subseteq options[d]
                 PROVE  {s \in existing[d] \cup listed[d] : active'[s]} = listed[d]
        OBVIOUS
    <2>1. Commit(d)
        <3>1. PICK e \in Discoveries : Proceed(e) \/ Fail(e)
            BY DEF Next, Quiet, discVars
        <3>2. \E there : pc' = [pc EXCEPT ![e] = there]
            BY <3>1 DEF Proceed, GetOptions, GetOrderBooks, ReadExisting, UpsertOne,
                DeactivateScan, DeactivateOne, Commit, Fail, Goto
        <3>3. e = d
            BY <3>2 DEF DiscInv
        <3>4. ~Fail(d)
            BY DEF Fail, Goto, DiscInv
        <3> QED BY <3>1, <3>3, <3>4 DEF Proceed, GetOptions, GetOrderBooks, ReadExisting,
                UpsertOne, DeactivateScan, DeactivateOne
    <2>2. existing[d] \cup listed[d] \subseteq DOMAIN tx[d] /\ Flags(d)
        BY DEF DiscInv, Holdings, Complete
    <2>3. ASSUME NEW s \in existing[d] \cup listed[d] PROVE active'[s] = (s \in listed[d])
        <3>1. active'[s] = tx[d][s] /\ tx[d][s] \in BOOLEAN
            BY <2>1, <2>2, CommitEffect DEF Flags
        <3>2. tx[d][s] = (s \in listed[d])
            BY <2>2, <3>1 DEF Flags, Mapped
        <3> QED BY <3>1, <3>2
    <2> QED BY <2>3
<1>2. Spec => [][Exact]_pc
    BY <1>1, DiscCorrect, PTL DEF Spec
<1> QED BY <1>2 DEF CompleteIsExact
===============================================================================
